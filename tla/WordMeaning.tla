---------------------------- MODULE WordMeaning ----------------------------
(* What the words of a command mean, by their structure: the reference for  *)
(* DashExpand, and with it for the way DashParser reads a word.             *)
(*                                                                          *)
(* A word is a sequence of parts [k, c, name, op, in]: a character that is  *)
(* not quoted (lit) or is behind a backslash (esc), a text in single quotes *)
(* (sq), parts in double quotes (dq), a substitution ${name op in} (par), a *)
(* command (cmd) or an arithmetic expression (ari).  Its meaning is a       *)
(* sequence of atoms: characters, quoted or not (q), which may split (s) or *)
(* not; QUOTE where a quoted text began, and BREAK between fields.          *)
EXTENDS DashExpand, ArithMeaning

Part(k, c, name, op, in) == [k |-> k, c |-> c, name |-> name, op |-> op, in |-> in]
Lit(c) == Part("lit", <<c>>, <<>>, <<>>, <<>>)
Esc(c) == Part("esc", <<c>>, <<>>, <<>>, <<>>)
Sq(text) == Part("sq", text, <<>>, <<>>, <<>>)
Dq(parts) == Part("dq", <<>>, <<>>, <<>>, parts)
Par(name, op, word) == Part("par", <<>>, <<name>>, op, word)
Cmd(c) == Part("cmd", <<c>>, <<>>, <<>>, <<>>)
Old(c) == Part("cmd", <<c>>, <<>>, <<"BQT">>, <<>>)
Ari(text) == Part("ari", text, <<>>, <<>>, <<>>)

(* How a word is written. *)
RECURSIVE Source(_)
Source(parts) ==
    LET i == parts[1]
        name == IF i.op = <<>> THEN i.name ELSE i.name \o i.op
    IN  IF parts = <<>> THEN <<>>
        ELSE (CASE i.k = "lit" -> i.c
                [] i.k = "esc" -> <<"\\">> \o i.c
                [] i.k = "sq" -> <<"'">> \o i.c \o <<"'">>
                [] i.k = "dq" -> <<"\"">> \o Source(i.in) \o <<"\"">>
                [] i.k = "par" ->
                     IF i.op = <<"LENGTH">> THEN <<"$", "{", "#">> \o i.name \o <<"}">>
                     ELSE <<"$", "{">> \o name \o Source(i.in) \o <<"}">>
                [] i.k = "cmd" -> IF i.op = <<"BQT">> THEN <<"BQT">> \o i.c \o <<"BQT">>
                                  ELSE <<"$", "(">> \o i.c \o <<")">>
                [] i.k = "ari" -> <<"$", "(", "(">> \o i.c \o <<")", ")">>)
             \o Source(Tail(parts))

----------------------------------------------------------------------------
Atoms(text, q, s) == [i \in 1..Len(text) |-> [c |-> text[i], q |-> q, s |-> s]]
QUOTE == <<[c |-> "QUOTE", q |-> TRUE, s |-> FALSE]>>
BREAK == <<[c |-> "BREAK", q |-> TRUE, s |-> FALSE]>>
IsChar(a) == a.c \notin {"QUOTE", "BREAK"}
Characters(atoms) == SelectSeq(atoms, IsChar)
Plaintext(atoms) ==
    LET cs == Characters(atoms) IN [i \in 1..Len(cs) |-> cs[i].c]

(* Does a pattern of atoms match a text? *)
RECURSIVE AtomsMatch(_, _)
AtomsMatch(p, s) ==
    LET meta == ~p[1].q
        not == Len(p) > 1 /\ p[2].c = "!" /\ ~p[2].q
        ends == {i \in (IF not THEN 4 ELSE 3)..Len(p) : p[i].c = "]" /\ ~p[i].q}
        end == CHOOSE i \in ends : \A j \in ends : i <= j
        in == \E i \in (IF not THEN 3 ELSE 2)..(end - 1) : p[i].c = s[1]
    IN  IF p = <<>> THEN s = <<>>
        ELSE CASE meta /\ p[1].c = "*" -> \E n \in 0..Len(s) : AtomsMatch(Tail(p), From(s, n))
               [] meta /\ p[1].c = "?" -> s # <<>> /\ AtomsMatch(Tail(p), Tail(s))
               [] meta /\ p[1].c = "[" /\ ends # {} ->
                    s # <<>> /\ in # not /\ AtomsMatch(From(p, end), Tail(s))
               [] OTHER -> s # <<>> /\ p[1].c = s[1] /\ AtomsMatch(Tail(p), Tail(s))

(* The part of value a pattern leaves: the shortest or, if most, the        *)
(* longest match at the start, or at the end, is cut off.                   *)
CutOff(value, pattern, start, most) ==
    LET ns == {n \in 0..Len(value) :
                 AtomsMatch(pattern, IF start THEN SubSeq(value, 1, n)
                                     ELSE From(value, Len(value) - n))}
        n == CHOOSE i \in ns : \A j \in ns : IF most THEN j <= i ELSE i <= j
    IN  IF ns = {} THEN value ELSE IF start THEN From(value, n) ELSE SubSeq(value, 1, Len(value) - n)

----------------------------------------------------------------------------
(* The meaning of parts in a shell sh: [atoms, sh, err].  ctx.quoted tells  *)
(* whether they are within double quotes, ctx.split whether plain           *)
(* characters split (in the word of a substitution), ctx.assign whether the *)
(* whole is the value of an assignment.                                     *)
Ctx(quoted, split, assign) == [quoted |-> quoted, split |-> split, assign |-> assign]
IfsOf(sh) == IF <<"IFS">> \in DOMAIN sh.vars THEN sh.vars[<<"IFS">>] ELSE <<" ", "TAB", "NL">>
Between(sh) == IF <<"IFS">> \in DOMAIN sh.vars THEN First(sh.vars[<<"IFS">>], 1) ELSE <<" ">>

RECURSIVE Params(_, _, _), ParamText(_, _)
Params(ps, q, sep) ==
    IF ps = <<>> THEN <<>>
    ELSE (IF q THEN QUOTE ELSE <<>>) \o Atoms(ps[1], q, ~q)
           \o (IF Len(ps) > 1 THEN sep ELSE <<>>) \o Params(Tail(ps), q, sep)
ParamText(ps, sep) ==
    IF ps = <<>> THEN <<>>
    ELSE ps[1] \o (IF Len(ps) > 1 THEN sep ELSE <<>>) \o ParamText(Tail(ps), sep)

(* A tilde: the name is what follows up to a slash (or a colon).            *)
RECURSIVE Plains(_, _)
Plains(parts, ends) ==
    IF parts = <<>> \/ parts[1].k # "lit" \/ parts[1].c[1] \in ends THEN 0
    ELSE 1 + Plains(Tail(parts), ends)
HomeOf(sh, parts, n) ==
    LET user == [i \in 1..n |-> parts[i].c[1]]
    IN  IF n > 0 THEN Home(user)
        ELSE IF <<"HOME">> \in DOMAIN sh.vars THEN sh.vars[<<"HOME">>] ELSE NoHome
Tildes(sh, parts, ctx) ==          (* [home, n]: n parts after the tilde *)
    LET ends == IF ctx.assign THEN {"/", ":"} ELSE {"/"}
        n == Plains(Tail(parts), ends)
        stops == n = Len(parts) - 1 \/ parts[n + 2].k = "lit"
    IN  IF stops THEN [home |-> HomeOf(sh, Tail(parts), n), n |-> n]
        ELSE [home |-> NoHome, n |-> 0]

RECURSIVE MeaningOf(_, _, _, _), Of(_, _, _)
SetTo(sh, name, text) ==
    [sh EXCEPT !.vars = [n \in DOMAIN @ \union {name} |-> IF n = name THEN text ELSE @[n]]]
Answer(atoms, sh, err) == [atoms |-> atoms, sh |-> sh, err |-> err]

ValueIn(sh, name) ==
    CASE name = <<"#">> -> Decimal(Len(sh.params))
      [] name[1] \in Digits /\ name # <<"0">> ->
           LET n == digit_val[name[1]] IN IF n <= Len(sh.params) THEN sh.params[n] ELSE Unset
      [] name[1] \in {"@", "*"} -> ParamText(sh.params, Between(sh))
      [] name \in {<<c>> : c \in DOMAIN sh.special} -> sh.special[name[1]]
      [] OTHER -> IF name \in DOMAIN sh.vars THEN sh.vars[name] ELSE Unset

Parameter(i, ctx, sh) ==
    LET v == ValueIn(sh, i.name)
        set == v # Unset
        colon == i.op # <<>> /\ i.op[1] = ":"
        op == IF i.op = <<>> THEN "" ELSE IF colon THEN i.op[2] ELSE i.op[1]
        null == ~set \/ (colon /\ v = <<>>)
        here == Ctx(ctx.quoted, ~ctx.quoted, FALSE)
        word == MeaningOf(i.in, here, sh, TRUE)
        pattern == MeaningOf(i.in, Ctx(FALSE, FALSE, FALSE), sh, TRUE)
        Chars1(t) == Atoms(t, ctx.quoted, ~ctx.quoted)
        many == i.name[1] \in {"@", "*"} /\ op = ""
        fields == ~ctx.assign /\ (i.name = <<"@">> \/ ~ctx.quoted)
    IN  CASE many -> Answer(IF fields THEN Params(sh.params, ctx.quoted, BREAK)
                            ELSE Chars1(v), sh, FALSE)
          [] ~many /\ op = "" -> Answer(Chars1(IF set THEN v ELSE <<>>), sh, ~set /\ "u" \in sh.opts)
          [] ~many /\ op = "LENGTH" ->
               Answer(Chars1(Decimal(IF set THEN Len(v) ELSE 0)), sh, ~set /\ "u" \in sh.opts)
          [] ~many /\ op = "-" -> IF null THEN word ELSE Answer(Chars1(v), sh, FALSE)
          [] ~many /\ op = "+" -> IF null THEN Answer(<<>>, sh, FALSE) ELSE word
          [] ~many /\ op = "?" -> IF null THEN Answer(<<>>, word.sh, TRUE) ELSE Answer(Chars1(v), sh, FALSE)
          [] ~many /\ op = "=" ->
               IF ~null THEN Answer(Chars1(v), sh, FALSE)
               ELSE IF word.err \/ ~goodname(i.name) \/ i.name \in sh.readonly
               THEN Answer(<<>>, word.sh, TRUE)
               ELSE LET t == Plaintext(word.atoms)
                    IN  Answer(Chars1(t), SetTo(word.sh, i.name, t), FALSE)
          [] ~many /\ op \in {"#", "%"} ->
               IF ~set THEN Answer(<<>>, sh, "u" \in sh.opts)
               ELSE Answer(Chars1(CutOff(v, Characters(pattern.atoms), op = "#", Len(i.op) = 2)),
                           pattern.sh, pattern.err)

Of(i, ctx, sh) ==
    LET inner == MeaningOf(i.in, Ctx(TRUE, FALSE, ctx.assign), sh, FALSE)
        nothing == /\ i.in = <<Par("@", <<>>, <<>>)>> /\ sh.params = <<>> /\ ~ctx.assign
        value == arith(i.c, sh.vars, sh.readonly)
    IN  CASE i.k = "lit" -> Answer(Atoms(i.c, ctx.quoted, ctx.split), sh, FALSE)
          [] i.k = "esc" -> Answer(Atoms(i.c, TRUE, FALSE), sh, FALSE)
          [] i.k = "sq" -> Answer(QUOTE \o Atoms(i.c, TRUE, FALSE), sh, FALSE)
          [] i.k = "dq" -> IF nothing THEN Answer(<<>>, sh, FALSE)
                           ELSE [inner EXCEPT !.atoms = QUOTE \o @]
          [] i.k = "par" -> Parameter(i, ctx, sh)
          [] i.k = "cmd" ->
               Answer(Atoms(NoNewlines(Output([type |-> "NCMD", assign |-> <<>>, redirect |-> <<>>,
                                               args |-> <<[text |-> i.c, bq |-> <<>>]>>])),
                            ctx.quoted, ~ctx.quoted), sh, FALSE)
          [] i.k = "ari" -> Answer(Atoms(Decimal(value.val), ctx.quoted, ~ctx.quoted),
                                   [sh EXCEPT !.vars = value.vars], value.err)

(* tilde: a tilde that is not quoted stands where it is expanded.           *)
MeaningOf(parts, ctx, sh, tilde) ==
    LET i == parts[1]
        is == tilde /\ ~ctx.quoted /\ i.k = "lit" /\ i.c = <<"~">>
        t == Tildes(sh, parts, ctx)
        some == is /\ t.home # NoHome
        a == IF some THEN Answer(Atoms(t.home, TRUE, FALSE), sh, FALSE) ELSE Of(i, ctx, sh)
        again == ctx.assign /\ ~ctx.quoted /\ i.k = "lit" /\ i.c = <<":">>
        rest == MeaningOf(From(parts, IF some THEN t.n + 1 ELSE 1), ctx, a.sh, again)
    IN  IF parts = <<>> THEN Answer(<<>>, sh, FALSE)
        ELSE IF a.err THEN Answer(<<>>, a.sh, TRUE)
        ELSE [rest EXCEPT !.atoms = a.atoms \o @]

----------------------------------------------------------------------------
(* Field splitting.  After a delimiter a field has not begun (mode start);  *)
(* white space that ended a field may still be followed by one delimiter    *)
(* that is not white (mode white).                                          *)
RECURSIVE Fields(_, _, _, _)
Fields(atoms, cur, mode, ifs) ==
    LET a == atoms[1]
        d == a.s /\ a.c \in ifs
        w == a.c \in {" ", "TAB", "NL"}
        r == Tail(atoms)
    IN  IF atoms = <<>> THEN IF mode = "in" THEN <<cur>> ELSE <<>>
        ELSE CASE a.c = "BREAK" ->
                    (IF mode = "in" THEN <<cur>> ELSE <<>>) \o Fields(r, <<>>, "start", ifs)
               [] a.c = "QUOTE" -> Fields(r, cur, "in", ifs)
               [] d /\ w -> IF mode = "in" THEN <<cur>> \o Fields(r, <<>>, "white", ifs)
                            ELSE Fields(r, <<>>, mode, ifs)
               [] d /\ ~w -> IF mode = "white" THEN Fields(r, <<>>, "start", ifs)
                             ELSE <<cur>> \o Fields(r, <<>>, "start", ifs)
               [] OTHER -> Fields(r, Append(cur, a), "in", ifs)

(* File names: the paths whose components match, in the order of strcmp.    *)
RECURSIVE Components(_, _)
Components(atoms, cur) ==
    IF atoms = <<>> THEN <<cur>>
    ELSE IF atoms[1].c = "/" THEN <<cur>> \o Components(Tail(atoms), <<>>)
    ELSE Components(Tail(atoms), Append(cur, atoms[1]))
IsMeta(p) == \E i \in 1..Len(p) :
    /\ ~p[i].q
    /\ \/ p[i].c \in {"*", "?"}
       \/ p[i].c = "[" /\ \E j \in (i + 2)..Len(p) : p[j].c = "]" /\ ~p[j].q
Matching(p, name) ==
    IF IsMeta(p) THEN AtomsMatch(p, name) /\ (name[1] = "." => p[1].c = ".")
    ELSE Plaintext(p) = name
Paths(Files) ==                  (* as sequences of components *)
    LET in(d) == {Files[d][i] : i \in 1..Len(Files[d])}
    IN  {<<n>> : n \in in(<<>>)} \union
        UNION {{<<SubSeq(d, 1, Len(d) - 1), n>> : n \in in(d)} : d \in DOMAIN Files \ {<<>>}}
RECURSIVE PathText(_), Sorted(_)
PathText(cs) == IF Len(cs) = 1 THEN cs[1] ELSE cs[1] \o <<"/">> \o PathText(Tail(cs))
Sorted(texts) == IF texts = {} THEN <<>>
                 ELSE LET t == CHOOSE x \in texts : \A y \in texts \ {x} : Before(x, y)
                      IN  <<t>> \o Sorted(texts \ {t})
FilesOf(atoms, Files) ==
    LET cs == Components(atoms, <<>>)
        ps == {p \in Paths(Files) : Len(p) = Len(cs) /\ \A i \in 1..Len(cs) : Matching(cs[i], p[i])}
    IN  IF (\E i \in 1..Len(cs) : IsMeta(cs[i])) /\ ps # {}
        THEN Sorted({PathText(p) : p \in ps}) ELSE <<Plaintext(atoms)>>
RECURSIVE AllFiles(_, _, _)
AllFiles(fields, Files, noglob) ==
    IF fields = <<>> THEN <<>>
    ELSE (IF noglob THEN <<Plaintext(fields[1])>> ELSE FilesOf(fields[1], Files))
           \o AllFiles(Tail(fields), Files, noglob)

(* The fields of a word, and the text an assignment gives its variable.     *)
FieldsOf(word, sh, Files) ==
    LET m == MeaningOf(word, Ctx(FALSE, FALSE, FALSE), sh, TRUE)
        ifs == IfsOf(m.sh)
    IN  [fields |-> IF m.err THEN <<>>
                    ELSE AllFiles(Fields(m.atoms, <<>>, "start", {ifs[i] : i \in 1..Len(ifs)}),
                                  Files, "f" \in sh.opts),
         sh |-> m.sh, err |-> m.err]
TextOf(word, sh) ==
    LET m == MeaningOf(word, Ctx(FALSE, FALSE, TRUE), sh, TRUE)
    IN  [fields |-> IF m.err THEN <<>> ELSE <<Plaintext(m.atoms)>>, sh |-> m.sh, err |-> m.err]

(* Does the text val match the word as a pattern of case? *)
MatchesWord(word, val, sh) ==
    AtomsMatch(Characters(MeaningOf(word, Ctx(FALSE, FALSE, FALSE), sh, TRUE).atoms), val)
----------------------------------------------------------------------------
(* What read makes of a line: its characters, those behind a backslash      *)
(* quoted; every name but the last takes a field with its delimiter, the    *)
(* last takes what is left, without a delimiter if that is one field and    *)
(* without white space at its end.                                          *)
RECURSIVE LineAtoms(_, _), TakeFields(_, _, _)
LineAtoms(text, raw) ==                       (* [atoms, status] *)
    LET c == text[1]
        esc == ~raw /\ c = "\\"
        rest == LineAtoms(From(text, IF esc THEN 2 ELSE 1), raw)
    IN  CASE text = <<>> -> [atoms |-> <<>>, status |-> 1]
          [] text # <<>> /\ c = "NL" -> [atoms |-> <<>>, status |-> 0]
          [] text # <<>> /\ esc /\ Len(text) = 1 -> [atoms |-> <<>>, status |-> 1]
          [] text # <<>> /\ esc /\ Len(text) > 1 /\ text[2] = "NL" -> rest
          [] OTHER -> [rest EXCEPT !.atoms = Atoms(<<IF esc THEN text[2] ELSE c>>, esc, ~esc) \o @]
White(a, ifs) == a.s /\ a.c \in ifs /\ a.c \in {" ", "TAB", "NL"}
Delimits(a, ifs) == a.s /\ a.c \in ifs
RECURSIVE SkipWhite(_, _), TrimWhite(_, _), Upto1(_, _)
SkipWhite(as, ifs) == IF as # <<>> /\ White(as[1], ifs) THEN SkipWhite(Tail(as), ifs) ELSE as
TrimWhite(as, ifs) ==
    IF as # <<>> /\ White(as[Len(as)], ifs) THEN TrimWhite(SubSeq(as, 1, Len(as) - 1), ifs) ELSE as
Upto1(as, ifs) == IF as = <<>> \/ Delimits(as[1], ifs) THEN 0 ELSE 1 + Upto1(Tail(as), ifs)
PastDelimiter(as, ifs) ==                     (* white space around one that is not *)
    LET w == SkipWhite(as, ifs)
    IN  IF w # <<>> /\ Delimits(w[1], ifs) THEN SkipWhite(Tail(w), ifs) ELSE w
TakeFields(as, n, ifs) ==
    LET k == Upto1(as, ifs)
        after == PastDelimiter(From(as, k), ifs)
        last == IF after = <<>> THEN SubSeq(as, 1, k) ELSE TrimWhite(as, ifs)
    IN  IF n = 1 THEN <<Plaintext(last)>>
        ELSE <<Plaintext(SubSeq(as, 1, k))>> \o TakeFields(after, n - 1, ifs)
ReadOf(sh, names, raw, input) ==
    LET m == LineAtoms(input, raw)
        ifs == IfsOf(sh)
        set == {ifs[i] : i \in 1..Len(ifs)}
    IN  [fields |-> TakeFields(SkipWhite(m.atoms, set), Len(names), set), status |-> m.status]
============================================================================
