------------------------------ MODULE DashOpts ------------------------------
(* src/dash-debian/src/options.c: the options of the shell and of set, the  *)
(* positional parameters, getopts, and the options of the builtins.         *)
(*                                                                          *)
(* A word is a sequence of characters.  The state o:                        *)
(*   optlist   letter or long name -> 0, 1, or 2 (not said)                 *)
(*   args      argptr, what is left of the words                            *)
(*   minusc, arg0, login, sflag's input file (file), NoWord if there is none *)
(*   params    shellparam: [p, optind, optoff]                              *)
(*   vars      OPTARG, OPTIND and the variable of getopts; readonly         *)
(*   optptr, optionarg   of nextopt                                         *)
(*   err       an error was raised                                          *)
EXTENDS Integers, Sequences

CONSTANTS LongNames,      \* the names of -o: word -> the option's letter
          NoWord,         \* a null pointer
          Number(_),      \* number(value); an OPTIND that is not one raises
          Text(_),        \* the text of a number
          IsTerminal      \* are descriptors 0 and 1 terminals

Flags == {"e", "f", "I", "i", "m", "n", "s", "x", "v", "V", "E", "C", "a", "b", "u",
          "nolog", "debug"}
Letters0 == Flags \ {"nolog", "debug"}
sh_error(o) == [o EXCEPT !.err = TRUE]
Rest(s, n) == SubSeq(s, n + 1, Len(s))

----------------------------------------------------------------------------
setoption(o, flag, val) ==
    IF flag \notin Letters0 THEN sh_error(o)
    ELSE [o EXCEPT !.optlist = [f \in Flags |->
            IF f = flag THEN val
            ELSE IF val = 1 /\ <<flag, f>> \in {<<"V", "E">>, <<"E", "V">>} THEN 0 ELSE @[f]]]
minus_o(o, name, val) ==
    IF name = NoWord THEN o                          \* the settings are listed
    ELSE IF name \notin DOMAIN LongNames THEN sh_error(o)
    ELSE [o EXCEPT !.optlist[LongNames[name]] = val]
setparam(o, words) == [o EXCEPT !.params = [p |-> words, optind |-> 1, optoff |-> -1]]

(* options: the letters of one word, then the words.                        *)
RECURSIVE OptionLetters(_, _, _, _), options(_, _)
OptionLetters(o, p, val, cmdline) ==
    LET c == p[1]
        arg == IF o.args = <<>> THEN NoWord ELSE o.args[1]
        Go(q) == OptionLetters(q, Tail(p), val, cmdline)
        named == minus_o(o, arg, val)
    IN  IF p = <<>> \/ o.err THEN o
        ELSE IF c = "c" /\ cmdline THEN Go([o EXCEPT !.minusc = TRUE])
        ELSE IF c = "l" /\ cmdline THEN Go([o EXCEPT !.login = TRUE])
        ELSE IF c = "o" THEN Go(IF arg = NoWord THEN named ELSE [named EXCEPT !.args = Tail(@)])
        ELSE Go(setoption(o, c, val))
options(o, cmdline) ==
    LET p == o.args[1]
        q == [o EXCEPT !.args = Tail(@)]
        quiet == [q EXCEPT !.optlist["x"] = 0, !.optlist["v"] = 0]
    IN  IF o.args = <<>> \/ o.err THEN o
        ELSE CASE p = <<"-">> -> IF cmdline THEN q ELSE quiet
               [] p = <<"-", "-">> -> IF cmdline \/ q.args # <<>> THEN q ELSE setparam(q, <<>>)
               [] OTHER -> IF p = <<>> \/ p[1] \notin {"-", "+"} THEN o
                           ELSE options(OptionLetters(q, Tail(p), IF p[1] = "-" THEN 1 ELSE 0,
                                                      cmdline), cmdline)

(* procargs: the command line of the shell.                                 *)
procargs(o, argv) ==
    LET begun == [o EXCEPT !.optlist = [f \in Flags |-> 2], !.args = Tail(argv), !.arg0 = argv[1],
                           !.minusc = FALSE, !.login = argv[1] # <<>> /\ argv[1][1] = "-"]
        r == options(begun, TRUE)
        s == IF r.args = <<>> THEN [r EXCEPT !.optlist["s"] = 1] ELSE r
        i == IF s.optlist["i"] = 2 /\ s.optlist["s"] = 1 /\ IsTerminal
             THEN [s EXCEPT !.optlist["i"] = 1] ELSE s
        m == IF i.optlist["m"] = 2 THEN [i EXCEPT !.optlist["m"] = i.optlist["i"]] ELSE i
        said == [m EXCEPT !.optlist = [f \in Flags |-> IF @[f] = 2 THEN 0 ELSE @[f]]]
        words == said.args
        Named(t, ws) == setparam([t EXCEPT !.arg0 = ws[1]], Tail(ws))
    IN  IF r.err \/ (r.args = <<>> /\ r.minusc) THEN sh_error(r)
        ELSE IF said.minusc
        THEN IF Len(words) > 1 THEN Named([said EXCEPT !.command = words[1]], Tail(words))
             ELSE setparam([said EXCEPT !.command = words[1]], <<>>)
        ELSE IF said.optlist["s"] = 0 THEN Named([said EXCEPT !.file = words[1]], words)
        ELSE setparam(said, words)

(* The set builtin with arguments, and shift.                               *)
setcmd(o, words) ==
    LET r == options([o EXCEPT !.args = words], FALSE)
    IN  IF r.err \/ r.args = <<>> THEN r ELSE setparam(r, r.args)
shiftcmd(o, n) ==
    IF n > Len(o.params.p) THEN sh_error(o) ELSE setparam(o, Rest(o.params.p, n))

----------------------------------------------------------------------------
(* The place of a letter in an option string: 0 if it is not there.  The    *)
(* search begins at the first character and passes over the colons that     *)
(* follow a letter.                                                         *)
RECURSIVE Search(_, _, _)
Search(optstr, c, q) ==
    IF q > Len(optstr) THEN 0
    ELSE IF optstr[q] = c THEN q
    ELSE Search(optstr, c, IF q < Len(optstr) /\ optstr[q + 1] = ":" THEN q + 2 ELSE q + 1)
TakesArg(optstr, q) == q < Len(optstr) /\ optstr[q + 1] = ":"

setvar(o, name, val) ==
    IF name \in o.readonly THEN sh_error(o)
    ELSE [o EXCEPT !.vars = [n \in DOMAIN @ \union {name} |-> IF n = name THEN val ELSE @[n]]]
unsetvar(o, name) ==
    IF name \in o.readonly THEN sh_error(o)
    ELSE [o EXCEPT !.vars = [n \in DOMAIN @ \ {name} |-> @[n]]]
(* OPTIND is assigned by the user: getoptsreset. *)
getoptsreset(o, value) ==
    [o EXCEPT !.params.optind = IF Number(value) = 0 THEN 1 ELSE Number(value),
              !.params.optoff = -1]

(* getopts on the words: [o, done].  p is the place behind the letter last  *)
(* read, <<word, offset>>, or <<>>.                                         *)
Finish(o, optvar, c, ind, p) ==
    LET n == setvar(o, "OPTIND", Text(ind))
        v == setvar(n, optvar, <<c>>)
    IN  IF o.err THEN o ELSE IF n.err THEN n ELSE IF v.err THEN v
        ELSE [v EXCEPT !.params.optind = ind,
                       !.params.optoff = IF p = <<>> THEN -1 ELSE p[2]]
getopts(o, optstr, optvar, words) ==
    LET ind == o.params.optind
        off == o.params.optoff
        inside == ind > 1 /\ off >= 0 /\ Len(words[ind - 1]) >= off
        advance == ~inside \/ off = Len(words[ind - 1])
        word == IF ind > Len(words) THEN <<>> ELSE words[ind]
        atend == advance /\ (Len(word) < 2 \/ word[1] # "-")
        dashes == advance /\ word = <<"-", "-">>
        w == IF advance THEN ind ELSE ind - 1            \* the word c is in
        at == IF advance THEN 1 ELSE off
        c == words[w][at + 1]
        p == <<w, at + 1>>
        q == Search(optstr, c, 1)
        quiet == optstr # <<>> /\ optstr[1] = ":"
        ends == at + 1 = Len(words[w])
        busy == [o EXCEPT !.params.optind = -1]
        illegal == IF quiet THEN setvar(busy, "OPTARG", <<c>>) ELSE unsetvar(busy, "OPTARG")
        Done(b, s) == [o |-> s, done |-> b]
    IN  CASE atend -> Done(TRUE, Finish(busy, optvar, "?", ind, <<>>))
          [] ~atend /\ dashes -> Done(TRUE, Finish(busy, optvar, "?", ind + 1, <<>>))
          [] ~atend /\ ~dashes /\ q = 0 -> Done(FALSE, Finish(illegal, optvar, "?", w + 1, p))
          [] ~atend /\ ~dashes /\ q > 0 ->
               IF ~TakesArg(optstr, q)
               THEN Done(FALSE, Finish(setvar(busy, "OPTARG", <<>>), optvar, c, w + 1, p))
               ELSE IF ends /\ w = Len(words)
               THEN Done(FALSE, Finish(illegal, optvar, IF quiet THEN ":" ELSE "?", w + 1, <<>>))
               ELSE IF ends
               THEN Done(FALSE, Finish(setvar(busy, "OPTARG", words[w + 1]), optvar, c, w + 2, <<>>))
               ELSE Done(FALSE, Finish(setvar(busy, "OPTARG", Rest(words[w], at + 1)), optvar, c,
                                       w + 1, <<>>))
(* The builtin: an index past the words starts again.                       *)
getoptscmd(o, optstr, optvar, words) ==
    LET past == o.params.optind < 0 \/ o.params.optind > Len(words) + 1
    IN  getopts(IF past THEN [o EXCEPT !.params.optind = 1, !.params.optoff = -1] ELSE o,
                optstr, optvar, words)

----------------------------------------------------------------------------
(* nextopt: [o, c], c the next option or "" at their end.                   *)
nextopt(o, optstring) ==
    LET fresh == o.optptr = <<>>
        word == o.args[1]
        none == fresh /\ (o.args = <<>> \/ Len(word) < 2 \/ word[1] # "-")
        taken == IF fresh THEN [o EXCEPT !.args = Tail(@)] ELSE o
        s == IF fresh THEN Tail(word) ELSE o.optptr
        c == s[1]
        q == Search(optstring, c, 1)
        Result(t, d) == [o |-> t, c |-> d]
    IN  CASE none -> Result(o, "")
          [] ~none /\ fresh /\ word = <<"-", "-">> -> Result(taken, "")
          [] ~none /\ ~(fresh /\ word = <<"-", "-">>) ->
               IF q = 0 THEN Result(sh_error(taken), "")
               ELSE IF ~TakesArg(optstring, q) THEN Result([taken EXCEPT !.optptr = Tail(s)], c)
               ELSE IF Len(s) > 1
               THEN Result([taken EXCEPT !.optptr = <<>>, !.optionarg = Tail(s)], c)
               ELSE IF taken.args = <<>> THEN Result(sh_error(taken), "")
               ELSE Result([taken EXCEPT !.optptr = <<>>, !.optionarg = taken.args[1], !.args = Tail(@)], c)
============================================================================
