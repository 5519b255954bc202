---------------------------- MODULE DashExpand ----------------------------
(* The expansion of words, src/dash-debian/src/expand.c, on the texts       *)
(* parser.c makes (see DashParser): tildes, parameters, commands and        *)
(* arithmetic, then field splitting, file names and the removal of quotes.  *)
(*                                                                          *)
(* An expansion works on a state x:                                         *)
(*   text    the rest of the word (the pointer p of the code)               *)
(*   dest    what was written so far (expdest; positions count from 0)      *)
(*   regs    the regions to be split [begoff, endoff, nulonly]              *)
(*   bq      the commands left in the word (argbackq)                       *)
(*   len     what varvalue returned                                         *)
(*   vars, readonly, params, special, opts   the shell's variables, its     *)
(*           positional parameters, $? and the like, and its options        *)
(*   err     an error was raised (sh_error): the expansion is over          *)
(* A flag is a set of the names FULL, TILDE, ... of expand.h without EXP_.  *)
EXTENDS DashArith

CONSTANTS Output(_),       \* what a command of a substitution writes
          Home(_),         \* the home of a user; NoHome if there is none
          NoHome,
          CharOrder        \* the characters of file names, as strcmp orders them

QUOTES_ESC == {"FULL", "CASE"}
Fail(x) == [x EXCEPT !.err = TRUE, !.text = <<>>, !.regs = <<>>]
Left(x, n) == [x EXCEPT !.text = SubSeq(@, n + 1, Len(@))]
Span0(s) == LET ends == {i \in 1..Len(s) : s[i] = "NUL"}
            IN  IF ends = {} THEN Len(s) ELSE (CHOOSE i \in ends : \A j \in ends : i <= j) - 1
CString(s) == SubSeq(s, 1, Span0(s))             \* up to the first null character
From(s, n) == SubSeq(s, n + 1, Len(s))
First(s, n) == IF n < Len(s) THEN SubSeq(s, 1, n) ELSE s

----------------------------------------------------------------------------
(* recordregion and removerecordregions.                                    *)
Region(b, e, n) == [begoff |-> b, endoff |-> e, nulonly |-> n]
recordregion(x, b, e, n) == [x EXCEPT !.regs = Append(@, Region(b, e, n))]

RECURSIVE Upto(_, _)
Upto(regs, endoff) ==                    \* the first, and those begun before endoff
    IF Len(regs) > 1 /\ regs[2].begoff < endoff
    THEN <<regs[1]>> \o Upto(Tail(regs), endoff) ELSE <<regs[1]>>
Clip(regs, endoff) ==
    [regs EXCEPT ![Len(regs)].endoff = IF @ > endoff THEN endoff ELSE @]
removerecordregions(x, endoff) ==
    LET r == x.regs
    IN  IF r = <<>> THEN x
        ELSE [x EXCEPT !.regs =
                IF r[1].endoff > endoff
                THEN IF r[1].begoff > endoff THEN <<>> ELSE Clip(<<r[1]>>, endoff)
                ELSE Clip(Upto(r, endoff), endoff)]

(* memtodest: characters that could mean something later are escaped.       *)
RECURSIVE Escaped(_, _)
Escaped(s, flag) ==
    LET class == Syntax(IF "QUOTED" \in flag THEN "DQ" ELSE "BASE", s[1])
        esc == /\ flag \intersect QUOTES_ESC # {}
               /\ class = "CCTL" \/ ("QUOTED" \in flag /\ class = "CBACK")
    IN  IF s = <<>> THEN <<>>
        ELSE (IF esc THEN <<"CTLESC", s[1]>> ELSE <<s[1]>>) \o Escaped(Tail(s), flag)
memtodest(x, s, flag) == [x EXCEPT !.dest = @ \o Escaped(s, flag)]

(* _rmescapes: quote marks and escapes go; for a pattern (glob) an escape   *)
(* becomes the backslash fnmatch knows.                                     *)
RECURSIVE Unescape(_, _, _)
Unescape(s, glob, notescaped) ==
    LET c == s[1]
        slash == IF notescaped THEN <<"\\">> ELSE <<>>
    IN  IF s = <<>> THEN <<>>
        ELSE CASE c = "CTLQUOTEMARK" -> Unescape(Tail(s), glob, glob)
               [] c = "\\" -> <<c>> \o Unescape(Tail(s), glob, FALSE)
               [] c = "^" -> slash \o <<c>> \o Unescape(Tail(s), glob, glob)
               [] c = "CTLESC" -> slash \o <<s[2]>> \o Unescape(From(s, 2), glob, glob)
               [] OTHER -> <<c>> \o Unescape(Tail(s), glob, glob)
_rmescapes(s, glob) ==
    IF \E i \in 1..Len(s) : s[i] \in {"^", "CTLESC", "CTLQUOTEMARK"}
    THEN LET n == CHOOSE i \in 1..Len(s) :
                    /\ s[i] \in {"^", "CTLESC", "CTLQUOTEMARK"}
                    /\ \A j \in 1..(i - 1) : s[j] \notin {"^", "CTLESC", "CTLQUOTEMARK"}
         IN  SubSeq(s, 1, n - 1) \o Unescape(From(s, n - 1), glob, glob)
    ELSE s

(* fnmatch(3): *, ?, [set], [!set] and backslashes.                         *)
Closing(p) == {i \in 3..Len(p) : p[i] = "]" /\ (p[2] = "!" => i > 3)}
RECURSIVE fnmatch(_, _)
fnmatch(p, s) ==
    LET end == CHOOSE i \in Closing(p) : \A j \in Closing(p) : i <= j
        set == SubSeq(p, IF p[2] = "!" THEN 3 ELSE 2, end - 1)
        listed == \E i \in 1..Len(set) : set[i] = s[1] /\ set[i] # "\\"
    IN  IF p = <<>> THEN s = <<>>
        ELSE IF p[1] = "*" THEN fnmatch(Tail(p), s) \/ (s # <<>> /\ fnmatch(p, Tail(s)))
        ELSE IF s = <<>> THEN FALSE
        ELSE IF p[1] = "?" THEN fnmatch(Tail(p), Tail(s))
        ELSE IF p[1] = "[" /\ Closing(p) # {}
             THEN listed # (p[2] = "!") /\ fnmatch(From(p, end), Tail(s))
        ELSE IF p[1] = "\\" /\ Len(p) > 1 THEN p[2] = s[1] /\ fnmatch(From(p, 2), Tail(s))
        ELSE p[1] = s[1] /\ fnmatch(Tail(p), Tail(s))

----------------------------------------------------------------------------
(* varvalue: the value of a parameter is written to dest, and len is its    *)
(* length, -1 if it is unset.  The positional parameters are joined with a  *)
(* null character where they are to be split into fields.                   *)
RECURSIVE Joined(_, _)
Joined(ps, sep) == IF Len(ps) = 1 THEN ps[1] ELSE ps[1] \o sep \o Joined(Tail(ps), sep)
ifsval(x) == IF <<"IFS">> \in DOMAIN x.vars THEN x.vars[<<"IFS">>] ELSE <<" ", "TAB", "NL">>
Separator(x, name, flag) ==
    LET ifs == <<"IFS">> \in DOMAIN x.vars
        split == "FULL" \in flag /\ ~(name = "*" /\ "QUOTED" \in flag)
        quoted == "QUOTED" \in flag
    IN  CASE split /\ (quoted \/ ifs) -> <<"NUL">>
          [] split /\ ~(quoted \/ ifs) -> <<" ">>
          [] ~split /\ ~ifs -> <<" ">>
          [] OTHER -> First(x.vars[<<"IFS">>], 1)
Unset == <<"UNSET">>
ValueOf(x, name, flag) ==
    CASE name \in {<<"@">>, <<"*">>} ->
           IF x.params = <<>> THEN <<>> ELSE Joined(x.params, Separator(x, name[1], flag))
      [] name[1] \in Digits /\ name # <<"0">> ->
           LET n == Number(name, 10, 0)
           IN  IF n > Len(x.params) THEN Unset ELSE x.params[n]
      [] name = <<"#">> -> Decimal(Len(x.params))
      [] name \in {<<c>> : c \in DOMAIN x.special} -> x.special[name[1]]
      [] OTHER -> IF name \in DOMAIN x.vars THEN x.vars[name] ELSE Unset
varvalue(x, type, name, flag) ==
    LET v == ValueOf(x, name, flag)
        y == IF v = Unset THEN [x EXCEPT !.len = -1]
             ELSE [memtodest(x, v, flag) EXCEPT !.len = Len(v)]
    IN  IF type = "BADSUB" THEN IF "DISCARD" \in flag THEN [x EXCEPT !.len = -1] ELSE Fail(x)
        ELSE IF type \in {"VSPLUS", "VSLENGTH"} \/ "DISCARD" \in flag
             THEN [x EXCEPT !.len = y.len] ELSE y

----------------------------------------------------------------------------
RECURSIVE argstr(_, _), Run(_, _, _, _, _), evalvar(_, _)

(* exptilde: x.text starts with a tilde; what is no user's name stays.      *)
RECURSIVE TildeName(_, _)
TildeName(s, flag) ==
    IF s = <<>> \/ s[1] \in {"/", "CTLENDVAR"} \/ (s[1] = ":" /\ "VARTILDE" \in flag) THEN 0
    ELSE 1 + TildeName(Tail(s), flag)
exptilde(x, flag) ==
    LET n == TildeName(Tail(x.text), flag)
        name == SubSeq(x.text, 2, n + 1)
        home == IF name = <<>>
                THEN IF <<"HOME">> \in DOMAIN x.vars THEN x.vars[<<"HOME">>] ELSE NoHome
                ELSE Home(name)
        quoted == \E i \in 1..n : name[i] \in {"CTLESC", "CTLQUOTEMARK"}
    IN  CASE quoted -> x
          [] ~quoted /\ "DISCARD" \in flag -> Left(x, n + 1)
          [] OTHER -> IF home = NoHome THEN x
                      ELSE memtodest(Left(x, n + 1), home, flag \union {"QUOTED"})
Tilde(x, flag) ==
    IF x.text # <<>> /\ x.text[1] = "~" THEN exptilde(x, flag) ELSE x

(* expari: the text between CTLARI and CTLENDARI, replaced by its value.    *)
expari(x, flag) ==
    LET begoff == Len(x.dest)
        y == argstr(x, flag \intersect {"DISCARD"})
        r == arith(CString(_rmescapes(From(y.dest, begoff), FALSE)), y.vars, y.readonly)
        cut == removerecordregions([y EXCEPT !.dest = SubSeq(@, 1, begoff), !.vars = r.vars],
                                   begoff)
        done == memtodest(cut, Decimal(r.val), flag)
    IN  CASE y.err \/ "DISCARD" \in flag -> y
          [] ~(y.err \/ "DISCARD" \in flag) /\ r.err -> Fail(y)
          [] OTHER -> IF "QUOTED" \in flag THEN done
                      ELSE recordregion(done, begoff, Len(done.dest), FALSE)

(* expbackq: what the next command writes, without its last newlines.       *)
RECURSIVE NoNewlines(_)
NoNewlines(s) ==
    IF s # <<>> /\ s[Len(s)] = "NL" THEN NoNewlines(SubSeq(s, 1, Len(s) - 1)) ELSE s
expbackq(x, flag) ==
    LET startloc == Len(x.dest)
        y == memtodest([x EXCEPT !.bq = Tail(@)], NoNewlines(Output(x.bq[1])), flag)
    IN  IF "DISCARD" \in flag THEN [x EXCEPT !.bq = Tail(@)]
        ELSE IF "QUOTED" \in flag THEN y
        ELSE recordregion(y, startloc, Len(y.dest), FALSE)

(* argstr: the word up to its end or to the CTLENDVAR or CTLENDARI it       *)
(* stands before.  Run(x, flag, inquotes, startloc, n) goes on from there:  *)
(* n characters are to be taken as they are.                                *)
Rejects(flag) ==
    Controls \union (IF "VARTILDE" \notin flag THEN {}
                     ELSE IF "VARTILDE2" \in flag THEN {":"} ELSE {":", "="})
RECURSIVE Plain(_, _)
Plain(s, reject) == IF s # <<>> /\ s[1] \notin reject THEN 1 + Plain(Tail(s), reject) ELSE 0
argstr(x, flag) ==
    LET f == flag \ {"TILDE"}
        y == IF "TILDE" \in flag THEN Tilde(x, f) ELSE x
    IN  Run(y, f, FALSE, Len(y.dest), 0)
dolatstr == <<"CTLVAR", "VSNORMAL", "", "@", "=", "CTLQUOTEMARK">>
Run(x, flag, inquotes, startloc, n) ==
    LET len == n + Plain(From(x.text, n), Rejects(flag))
        c == IF len = Len(x.text) THEN "NUL" ELSE x.text[len + 1]
        end == c \in {"NUL", "CTLENDARI", "CTLENDVAR"}
        taken == IF c \in {"=", ":"} THEN len + 1 ELSE len
        keep == "DISCARD" \notin flag
        ending == IF end /\ "WORD" \notin flag THEN <<"NUL">> ELSE <<>>
        loc == IF keep THEN Len(x.dest) + taken ELSE startloc
        breakall == "WORD" \in flag /\ "QUOTED" \notin flag
        put == IF keep THEN [x EXCEPT !.dest = @ \o SubSeq(x.text, 1, taken) \o ending] ELSE x
        y == IF keep /\ breakall /\ ~inquotes /\ loc > startloc
             THEN recordregion(put, startloc, loc, FALSE) ELSE put
        z == Left(y, len + 1)                    \* past c
        start == IF keep /\ (taken > 0 \/ end) THEN loc ELSE startloc
        f2 == IF c = "=" THEN flag \union {"VARTILDE2"} ELSE flag
        q == flag \union IF inquotes THEN {"QUOTED"} ELSE {}
        esc == flag \intersect QUOTES_ESC # {}
        tilde == Tilde(z, f2)
        After(w) == Run(w, flag, inquotes, Len(w.dest), 0)
    IN  IF x.err THEN x
        ELSE IF end THEN z
        ELSE CASE c \in {"=", ":"} ->
                    Run(tilde, f2, inquotes,
                        IF z.text # <<>> /\ z.text[1] = "~" THEN Len(tilde.dest) ELSE start, 0)
               [] c = "CTLQUOTEMARK" ->
                    IF ~inquotes /\ First(z.text, 6) = dolatstr
                    THEN After(Left(evalvar(Left(z, 1), flag \union {"QUOTED"}), 1))
                    ELSE IF esc THEN Run(Left(y, len), flag, ~inquotes, start + 1, 1)
                    ELSE Run(z, flag, ~inquotes, start, 0)
               [] c = "CTLESC" ->
                    IF esc THEN Run(Left(y, len), flag, inquotes, start + 2, 2)
                    ELSE Run(z, flag, inquotes, start + 1, 1)
               [] c = "CTLVAR" -> After(evalvar(z, q))
               [] c = "CTLBACKQ" -> After(expbackq(z, q))
               [] c = "CTLARI" -> After(expari(z, q))

(* scanleft and scanright: where the value is cut.  units are the           *)
(* characters of the value with their escapes; left tells which side goes.  *)
RECURSIVE Units(_), Chars2(_)
Units(s) == IF s = <<>> THEN <<>>
            ELSE IF s[1] = "CTLESC" THEN <<SubSeq(s, 1, 2)>> \o Units(From(s, 2))
            ELSE <<<<s[1]>>>> \o Units(Tail(s))
Chars2(us) == IF us = <<>> THEN <<>> ELSE us[1] \o Chars2(Tail(us))
Trimmed(value, pattern, type) ==
    LET us == Units(value)
        plain == [i \in 1..Len(us) |-> us[i][Len(us[i])]]
        zero == type \in {"VSTRIMLEFT", "VSTRIMLEFTMAX"}
        cuts == {i \in 0..Len(us) :
                   fnmatch(pattern, IF zero THEN SubSeq(plain, 1, i) ELSE From(plain, i))}
        first == CHOOSE i \in cuts : \A j \in cuts : i <= j
        last == CHOOSE i \in cuts : \A j \in cuts : i >= j
        at == IF type \in {"VSTRIMLEFT", "VSTRIMRIGHTMAX"} THEN first ELSE last
    IN  IF cuts = {} THEN value
        ELSE Chars2(IF zero THEN From(us, at) ELSE SubSeq(us, 1, at))

(* subevalvar: the word of ${name=word}, ${name?word} or ${name#pattern};   *)
(* whatever it leaves, the regions recorded in it are forgotten.            *)
subevalvar(x, type, name, startloc, flag) ==
    LET trim == type \notin {"VSASSIGN", "VSQUESTION"}
        patloc == Len(x.dest)
        y == argstr(x, (flag \intersect {"DISCARD"}) \union {"TILDE"}
                         \union (IF trim THEN {"CASE"} ELSE {}))
        word == CString(From(y.dest, IF trim THEN patloc ELSE startloc))
        value == SubSeq(y.dest, startloc + 1, patloc - 1)
        Cut(z, rest) == removerecordregions(
            [z EXCEPT !.dest = SubSeq(@, 1, startloc) \o rest], startloc)
    IN  CASE y.err \/ "DISCARD" \in flag -> y
          [] ~(y.err \/ "DISCARD" \in flag) /\ type = "VSQUESTION" -> Fail(y)
          [] ~(y.err \/ "DISCARD" \in flag) /\ type = "VSASSIGN" ->
               IF ~goodname(name) \/ name \in y.readonly THEN Fail(y)
               ELSE Cut([y EXCEPT !.vars = [n \in DOMAIN @ \union {name} |->
                                              IF n = name THEN word ELSE @[n]]], <<>>)
          [] OTHER -> Cut(y, Trimmed(value, _rmescapes(word, TRUE), type))

(* evalvar: x.text is what follows CTLVAR.                                  *)
(* The mutant: a quoted "$@" is one field, as every other quoted value.     *)
Recorded_once(x, startloc, name, quoted) ==
    IF quoted THEN x ELSE recordregion(x, startloc, Len(x.dest), FALSE)
Recorded(x, startloc, name, quoted) ==
    IF quoted /\ ~(name = <<"@">> /\ x.params # <<>>) THEN x
    ELSE recordregion(x, startloc, Len(x.dest), quoted)
evalvar(x, flag) ==
    LET type == x.text[1]
        nul == x.text[2] = "VSNUL"
        n == Plain(x.text, {"="})
        name == SubSeq(x.text, 3, n)
        startloc == Len(x.dest)
        quoted == "QUOTED" \in flag
        v == varvalue(Left(x, n + 1), type, name, flag)
        unset == v.len < (IF nul THEN 1 ELSE 0)
        dflag == "DISCARD" \in flag
        word == unset # (type = "VSPLUS")        \* the word is wanted
        Silent(yes) == IF yes THEN {} ELSE {"DISCARD"}
        w == argstr(v, flag \union {"TILDE", "WORD"} \union Silent(word))
        s == subevalvar(v, type, name, startloc, (flag \ QUOTES_ESC) \union Silent(unset))
        again == varvalue(s, type, name, flag)
        t == subevalvar(IF dflag \/ unset THEN v ELSE [v EXCEPT !.dest = Append(@, "NUL")],
                        type, name, startloc, flag \union Silent(~unset))
        nounset == unset /\ ~dflag /\ "u" \in x.opts
        Done(y) == IF y.err \/ dflag THEN y ELSE Recorded(y, startloc, name, quoted)
    IN  CASE v.err -> v
          [] ~v.err /\ type \in {"BADSUB", "VSMINUS", "VSPLUS"} ->
               IF word \/ w.err THEN w ELSE Done(w)
          [] ~v.err /\ type \in {"VSASSIGN", "VSQUESTION"} ->
               IF ~unset \/ dflag \/ s.err THEN Done(s) ELSE Done(again)
          [] ~v.err /\ type \notin {"BADSUB", "VSMINUS", "VSPLUS", "VSASSIGN", "VSQUESTION"} ->
               CASE nounset -> Fail(v)
                 [] ~nounset /\ type = "VSLENGTH" ->
                      IF dflag THEN Left(v, 1)
                      ELSE Done(memtodest(Left(v, 1), Decimal(IF v.len > 0 THEN v.len ELSE 0), flag))
                 [] ~nounset /\ type = "VSNORMAL" -> IF unset THEN v ELSE Done(v)
                 [] OTHER -> IF unset THEN t ELSE Done(t)

----------------------------------------------------------------------------
(* ifsbreakup: string is cut into fields at the characters of ifs inside    *)
(* the regions, into maxargs fields at most if it is not negative (read).   *)
(* The state b: string with the cuts made, start of the current field, spc  *)
(* (ifsspc), the fields so far, max and r, where the last one is cut short. *)
defifs == {" ", "TAB", "NL", "NUL"}
Field(b) == CString(From(b.string, b.start))
RECURSIVE Split(_, _, _, _, _), Regions(_, _, _, _)
Split(b, p, region, afternul, ifs) ==
    LET s == b.string
        esc == s[p + 1] = "CTLESC"
        c == IF esc THEN s[p + 2] ELSE s[p + 1]
        next == IF esc THEN p + 2 ELSE p + 1
        isifs == c \in ifs \union {"NUL"}
        isdef == isifs /\ c \in defifs
        spc == ~(afternul \/ region.nulonly) /\ isdef
        cut == [b EXCEPT !.string[p + 1] = "NUL"]
        Go(d) == Split(d, next, region, afternul, ifs)
    IN  IF p >= region.endoff THEN b
        ELSE IF b.max = 0
        THEN IF isdef THEN Go([b EXCEPT !.r = IF @ = 0 THEN p + 1 ELSE @])
             ELSE Go([b EXCEPT !.r = IF isifs /\ b.spc THEN @ ELSE 0, !.spc = FALSE])
        ELSE IF b.spc
        THEN Go([b EXCEPT !.start = IF isifs THEN next ELSE p, !.spc = isdef])
        ELSE IF ~isifs THEN Go(b)
        ELSE IF p = b.start /\ spc THEN Go([b EXCEPT !.start = next])
        ELSE IF b.max = 1 THEN Go([b EXCEPT !.max = 0, !.r = p + 1, !.spc = spc])
        ELSE Go([cut EXCEPT !.fields = Append(@, Field(cut)), !.start = next,
                            !.spc = spc, !.max = @ - 1])
Regions(b, regs, afternul, ifs) ==
    LET r == regs[1]
    IN  IF regs = <<>> THEN b
        ELSE Regions(Split([b EXCEPT !.spc = FALSE], r.begoff, r, afternul,
                           IF r.nulonly THEN {} ELSE ifs),
                     Tail(regs), r.nulonly, ifs)
ifsbreakup(string, regs, maxargs, ifs) ==
    LET b == Regions([string |-> string, start |-> 0, spc |-> FALSE, fields |-> <<>>,
                      max |-> maxargs, r |-> 0], regs, FALSE, ifs)
        nulonly == regs # <<>> /\ regs[Len(regs)].nulonly
        last == Field(IF b.r # 0 /\ ~nulonly THEN [b EXCEPT !.string[b.r] = "NUL"] ELSE b)
    IN  IF nulonly \/ last # <<>> THEN Append(b.fields, last) ELSE b.fields

----------------------------------------------------------------------------
(* expmeta: the names of a pattern, one component after the other.  Files   *)
(* is the file system: expdir (the path so far, "" for the current          *)
(* directory, else ending in /) -> the names readdir gives, in its order.   *)

Bracketed(s, i) ==          (* the [ at i is closed before the component ends *)
    \E j \in (i + 2)..Len(s) : s[j] = "]" /\ \A k \in (i + 1)..j : s[k] # "/"
Meta(s, i) ==
    /\ s[i] \in {"*", "?"} \/ (s[i] = "[" /\ Bracketed(s, i))
    /\ ~\E k \in 1..(i - 1) : k + 1 = i /\ s[k] = "\\"
RECURSIVE Slashless(_)
Slashless(s) == IF s = <<>> THEN <<>>                 (* without its backslashes *)
                ELSE IF s[1] = "\\" /\ Len(s) > 1 THEN <<s[2]>> \o Slashless(From(s, 2))
                ELSE <<s[1]>> \o Slashless(Tail(s))
Exists(Files, path) ==
    \E d \in DOMAIN Files : \E i \in 1..Len(Files[d]) : path = d \o Files[d][i]
RECURSIVE expmeta(_, _, _), Entries(_, _, _, _, _)
expmeta(Files, name, expdir) ==
    LET metas == {i \in 1..Len(name) : Meta(name, i)}
        meta == CHOOSE i \in metas : \A j \in metas : i <= j
        before == {i \in 1..(meta - 1) : name[i] = "/"}
        start == IF before = {} THEN 0 ELSE CHOOSE i \in before : \A j \in before : j <= i
        after == {i \in (meta + 1)..Len(name) : name[i] = "/"}
        end == IF after = {} THEN Len(name) + 1 ELSE CHOOSE i \in after : \A j \in after : i <= j
        rest == IF after = {} THEN <<>>
                ELSE From(name, end)
        esc == after # {} /\ name[end - 1] = "\\"
        pattern == SubSeq(name, start + 1, IF esc THEN end - 2 ELSE end - 1)
        dir == expdir \o Slashless(SubSeq(name, 1, start))
        path == expdir \o Slashless(name)
    IN  IF metas = {} THEN IF expdir # <<>> /\ Exists(Files, path) THEN <<path>> ELSE <<>>
        ELSE IF dir \notin DOMAIN Files THEN <<>>
        ELSE Entries(Files, Files[dir], pattern, dir, IF after = {} THEN <<"NUL">> ELSE rest)
Entries(Files, names, pattern, dir, rest) ==
    LET p == IF pattern[1] = "\\" THEN pattern[2] ELSE pattern[1]
        hidden == names[1][1] = "." /\ p # "."
        found == IF hidden \/ ~fnmatch(pattern, names[1]) THEN <<>>
                 ELSE IF rest = <<"NUL">> THEN <<dir \o names[1]>>
                 ELSE expmeta(Files, rest, dir \o names[1] \o <<"/">>)
    IN  IF names = <<>> THEN <<>>
        ELSE found \o Entries(Files, Tail(names), pattern, dir, rest)

(* expsort, a merge sort by strcmp.                                         *)
Rank(c) == CHOOSE i \in 1..Len(CharOrder) : CharOrder[i] = c
RECURSIVE Before(_, _), Merge(_, _), msort(_)
Before(s, t) == /\ t # <<>>
                /\ \/ s = <<>> \/ Rank(s[1]) < Rank(t[1])
                   \/ s[1] = t[1] /\ Before(Tail(s), Tail(t))
Merge(q, p) == IF q = <<>> THEN p ELSE IF p = <<>> THEN q
               ELSE IF Before(p[1], q[1]) THEN <<p[1]>> \o Merge(q, Tail(p))
               ELSE <<q[1]>> \o Merge(Tail(q), p)
msort(names) ==
    LET half == Len(names) \div 2
    IN  IF Len(names) <= 1 THEN names
        ELSE Merge(msort(SubSeq(names, 1, half)), msort(From(names, half)))

RECURSIVE expandmeta(_, _, _)
expandmeta(Files, fields, noglob) ==
    LET s == fields[1]
        plain == noglob \/ ~\E i \in 1..Len(s) : s[i] \in {"*", "?", "["}
        names == IF plain THEN <<>> ELSE msort(expmeta(Files, _rmescapes(s, TRUE), <<>>))
    IN  IF fields = <<>> THEN <<>>
        ELSE (IF names = <<>> THEN <<_rmescapes(s, FALSE)>> ELSE names)
               \o expandmeta(Files, Tail(fields), noglob)

----------------------------------------------------------------------------
(* expandarg: the fields of a word with FULL, else its one string; x holds  *)
(* what the expansion did to the shell.                                     *)
Expanding(x, arg) == [x EXCEPT !.text = arg.text, !.bq = arg.bq, !.dest = <<>>, !.regs = <<>>]
expandarg(x, arg, flag, Files) ==
    LET y == argstr(Expanding(x, arg), flag)
        ifs == ifsval(y)
    IN  [x |-> y,
         fields |-> IF y.err THEN <<>>
                    ELSE IF "FULL" \notin flag THEN <<CString(y.dest)>>
                    ELSE expandmeta(Files,
                                    ifsbreakup(y.dest, y.regs, -1, {ifs[i] : i \in 1..Len(ifs)}),
                                    "f" \in y.opts)]

(* casematch: does the text of a pattern match val.                         *)
casematch(x, pattern, val) ==
    LET y == argstr(Expanding(x, pattern), {"TILDE", "CASE"})
    IN  [x |-> y, matches |-> fnmatch(_rmescapes(CString(y.dest), TRUE), val)]
----------------------------------------------------------------------------
(* read (miscbltin.c): a line of input, where a backslash that is not under *)
(* -r takes the next character out of the regions to be split, or joins two *)
(* lines.  behind tells that the last character was such a backslash.       *)
qchars == Controls
RECURSIVE ReadLine(_, _, _, _, _)
ReadLine(x, input, rflag, start, behind) ==      (* [x, status] *)
    LET c == input[1]
        end == Len(x.dest)
        ends == input = <<>> \/ (~behind /\ c = "NL")
        put == [x EXCEPT !.dest = @ \o (IF c \in qchars THEN <<"CTLESC", c>> ELSE <<c>>)]
        Go(y, from, b) == ReadLine(y, Tail(input), rflag, from, b)
    IN  IF ends THEN [x |-> recordregion(x, start, end, FALSE),
                      status |-> IF input = <<>> THEN 1 ELSE 0]
        ELSE IF c = "NUL" THEN Go(x, start, behind)
        ELSE IF behind
        THEN IF c = "NL" THEN Go(recordregion(x, start, end, FALSE), end, FALSE)
             ELSE Go(recordregion(put, start, end, FALSE), Len(put.dest), FALSE)
        ELSE IF ~rflag /\ c = "\\" THEN Go(x, start, TRUE)
        ELSE Go(put, start, FALSE)
(* readcmd_handle_line: a field for each variable, nothing for those left.  *)
RECURSIVE Give(_, _, _)
Give(x, names, fields) ==
    LET val == IF fields = <<>> THEN <<>> ELSE _rmescapes(fields[1], FALSE)
        y == [x EXCEPT !.vars = [n \in DOMAIN @ \union {names[1]} |-> IF n = names[1] THEN val ELSE @[n]]]
    IN  IF names = <<>> THEN x
        ELSE IF ~goodname(names[1]) \/ names[1] \in x.readonly THEN Fail(x)
        ELSE Give(y, Tail(names), IF fields = <<>> THEN <<>> ELSE Tail(fields))
readcmd(x, names, rflag, input) ==
    LET r == ReadLine([x EXCEPT !.dest = <<>>, !.regs = <<>>], input, rflag, 0, FALSE)
        ifs == ifsval(x)
        fields == ifsbreakup(r.x.dest, r.x.regs, Len(names), {ifs[i] : i \in 1..Len(ifs)})
    IN  [x |-> Give(x, names, fields), status |-> r.status]
============================================================================
