---------------------------- MODULE OptsMeaning ----------------------------
(* What options mean: the reference for DashOpts, after the utility syntax  *)
(* guidelines that getopts, nextopt and the shell's own options follow.     *)
EXTENDS DashOpts

Taking(optstr) == {optstr[i] : i \in {j \in 1..(Len(optstr) - 1) : optstr[j + 1] = ":" /\ optstr[j] # ":"}}
Known(optstr) == {optstr[i] : i \in 1..Len(optstr)} \ {":"}
Event(c, arg) == <<[c |-> c, arg |-> arg]>>
Opens(word) == Len(word) > 1 /\ word[1] = "-"

(* The options in the words from the i-th on: [events, ind], ind the place  *)
(* of the first operand.  Missing: what to say of an argument that is not   *)
(* there, Unknown: of a letter that is not known.                           *)
RECURSIVE Told(_, _, _, _), InWord(_, _, _, _)
Told(optstr, words, i, sofar) ==
    IF i > Len(words) \/ ~Opens(words[i]) THEN [events |-> sofar, ind |-> i]
    ELSE IF words[i] = <<"-", "-">> THEN [events |-> sofar, ind |-> i + 1]
    ELSE InWord(optstr, words, <<i, 2>>, sofar)
InWord(optstr, words, at, sofar) ==
    LET i == at[1]
        c == words[i][at[2]]
        behind == Rest(words[i], at[2])
        Next(events) == IF behind = <<>> THEN Told(optstr, words, i + 1, sofar \o events)
                        ELSE InWord(optstr, words, <<i, at[2] + 1>>, sofar \o events)
    IN  IF c \notin Known(optstr) THEN Next(Event("unknown", <<c>>))
        ELSE IF c \notin Taking(optstr) THEN Next(Event(c, <<>>))
        ELSE IF behind # <<>> THEN Told(optstr, words, i + 1, sofar \o Event(c, behind))
        ELSE IF i < Len(words) THEN Told(optstr, words, i + 2, sofar \o Event(c, words[i + 1]))
        ELSE [events |-> sofar \o Event("missing", <<c>>), ind |-> i + 1]

(* What a loop around getopts sees of them.  OPTARG is unset when the letter *)
(* is not known, as the manual says; with a colon before the letters the     *)
(* code puts the letter there: see Disputed.                                 *)
Seen(optstr, event) ==
    LET quiet == optstr # <<>> /\ optstr[1] = ":"
    IN  CASE event.c = "unknown" -> <<"?", NoWord>>
          [] event.c = "missing" -> <<IF quiet THEN ":" ELSE "?", IF quiet THEN event.arg ELSE NoWord>>
          [] OTHER -> <<event.c, event.arg>>
RECURSIVE Loop(_, _, _, _, _)
Loop(o, optstr, optvar, words, sofar) ==
    LET r == getoptscmd(o, optstr, optvar, words)
        now == r.o.vars
    IN  IF r.o.err \/ r.done \/ Len(sofar) > 20
        THEN [seen |-> sofar, ind |-> r.o.params.optind, err |-> r.o.err, told |-> now["OPTIND"]]
        ELSE Loop(r.o, optstr, optvar, words,
                  Append(sofar, <<now[optvar][1], IF "OPTARG" \in DOMAIN now THEN now["OPTARG"] ELSE NoWord>>))
Disputed(optstr, events) == /\ optstr # <<>> /\ optstr[1] = ":"
                            /\ \E i \in 1..Len(events) : events[i].c = "unknown"
GetoptsAgrees(o, optstr, optvar, words) ==
    LET meant == Told(optstr, words, 1, <<>>)
    IN  ~Disputed(optstr, meant.events) =>
        Loop(o, optstr, optvar, words, <<>>) =
            [seen |-> [i \in 1..Len(meant.events) |-> Seen(optstr, meant.events[i])],
             ind |-> meant.ind, err |-> FALSE, told |-> Text(meant.ind)]

(* A builtin that asks nextopt until it answers none, or an error.          *)
RECURSIVE Ask(_, _, _)
Ask(o, optstring, sofar) ==
    LET r == nextopt(o, optstring)
        arg == IF r.c \in Taking(optstring) THEN r.o.optionarg ELSE <<>>
    IN  IF r.o.err \/ r.c = "" THEN [events |-> sofar, args |-> r.o.args, err |-> r.o.err]
        ELSE Ask(r.o, optstring, sofar \o Event(r.c, arg))
NextoptAgrees(o, optstring, words) ==
    LET meant == Told(optstring, words, 1, <<>>)
        wrong == {i \in 1..Len(meant.events) : meant.events[i].c \in {"unknown", "missing"}}
        asked == Ask([o EXCEPT !.args = words, !.optptr = <<>>], optstring, <<>>)
    IN  IF wrong = {} THEN asked = [events |-> meant.events, args |-> Rest(words, meant.ind - 1), err |-> FALSE]
        ELSE asked.err /\ asked.events = SubSeq(meant.events, 1, (CHOOSE i \in wrong : \A j \in wrong : i <= j) - 1)

----------------------------------------------------------------------------
(* The options of set and of the command line: a sequence of [flag, val,    *)
(* long], each a word of its own or, long, the two words of -o.  An editor   *)
(* that is turned on turns the other off, however it is spelt.               *)
Sign(val) == IF val = 1 THEN "-" ELSE "+"
NameOf(flag) == CHOOSE name \in DOMAIN LongNames : LongNames[name] = flag
RECURSIVE Spelt(_), SetTo(_, _)
Spelt(settings) ==
    IF settings = <<>> THEN <<>>
    ELSE LET s == Head(settings)
         IN  (IF s.long THEN <<<<Sign(s.val), "o">>, NameOf(s.flag)>> ELSE <<<<Sign(s.val), s.flag>>>>)
                \o Spelt(Tail(settings))
SetTo(was, settings) ==
    IF settings = <<>> THEN was
    ELSE LET s == Head(settings)
             other == IF s.flag = "V" THEN "E" ELSE "V"
             off == s.val = 1 /\ s.flag \in {"V", "E"}
         IN  SetTo([f \in Flags |-> IF f = s.flag THEN s.val
                                    ELSE IF off /\ f = other THEN 0 ELSE was[f]], Tail(settings))

(* set settings [-- | -] operands: the options change, the parameters only  *)
(* if there are operands or a "--"; "-" turns x and v off.                  *)
SetAgrees(o, settings, ended, operands) ==
    LET r == setcmd(o, Spelt(settings) \o ended \o operands)
        meant == SetTo(o.optlist, settings \o
                    (IF ended = <<<<"-">>>> THEN <<[flag |-> "x", val |-> 0, long |-> FALSE],
                                                  [flag |-> "v", val |-> 0, long |-> FALSE]>> ELSE <<>>))
    IN  /\ ~r.err
        /\ r.optlist = meant
        /\ r.params.p = IF operands # <<>> \/ ended = <<<<"-", "-">>>> THEN operands ELSE o.params.p

(* sh settings [-c | -s] [--] operands: where the commands come from, what  *)
(* $0 and the parameters are, and which options are on.                     *)
CommandAgrees(o, settings, source, ended, operands) ==
    LET letters == IF source = "none" THEN <<>> ELSE <<<<"-", source>>>>
        r == procargs(o, <<<<"s", "h">>>> \o Spelt(settings) \o letters \o ended \o operands)
        none == operands = <<>>
        stdin == source = "s" \/ (source = "none" /\ none)
        said == SetTo([f \in Flags |-> IF f = "s" /\ stdin THEN 1 ELSE 2], settings)
        i == IF said["i"] # 2 THEN said["i"] ELSE IF stdin /\ IsTerminal THEN 1 ELSE 0
        full == [f \in Flags |-> IF f = "i" THEN i ELSE IF said[f] # 2 THEN said[f]
                                 ELSE IF f = "m" THEN i ELSE 0]
        named == IF source = "c" THEN Rest(operands, 1) ELSE operands
        names == ~stdin /\ named # <<>>
    IN  IF source = "c" /\ none THEN r.err
        ELSE /\ ~r.err
             /\ r.optlist = full
             /\ source = "c" => r.command = operands[1]
             /\ source = "none" /\ ~none => r.file = operands[1]
             /\ r.arg0 = IF names THEN named[1] ELSE <<"s", "h">>
             /\ r.params.p = IF stdin THEN operands ELSE IF names THEN Rest(named, 1) ELSE <<>>
============================================================================
