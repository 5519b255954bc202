----------------------------- MODULE DashPrintf -----------------------------
(* printf and echo of dash-debian (bltin/printf.c).  Texts are sequences of *)
(* characters.  The state p of the command is                               *)
(*   out     what was printed: [spec, params, text], a directive for the C  *)
(*           library with its parameters, or Plain text                     *)
(*   args    the arguments that are left (gargv), used: whether any is not  *)
(*   rval    the status, err: an error was raised, stop: \c was met         *)
EXTENDS Integers, Sequences, SequencesExt

CONSTANTS Byte(_),              \* the character with a number
          Code(_),              \* the number of a character
          Strto(_, _)           \* strtoimax, strtoumax: [val, rest, range]

Octal == [c \in {"0", "1", "2", "3", "4", "5", "6", "7"} |-> Code(c) - Code("0")]
isodigit(s) == s # <<>> /\ s[1] \in DOMAIN Octal
Named == [c \in {"\\", "a", "b", "f", "n", "r", "t", "v"} |->
            CASE c = "\\" -> "\\" [] c = "a" -> Byte(7) [] c = "b" -> Byte(8) [] c = "f" -> Byte(12)
              [] c = "n" -> "NL" [] c = "r" -> Byte(13) [] c = "t" -> "TAB" [] c = "v" -> Byte(11)]
(* Leading(s, C): how many characters of s belong to C, at most n.          *)
Leading(s, C, n) ==
    LET ends == {k \in 0..Len(s) : k = Len(s) \/ k = n \/ s[k + 1] \notin C}
    IN  CHOOSE k \in ends : \A other \in ends : k <= other
From(s, i) == SubSeq(s, i, Len(s))
First(s) == IF s = <<>> THEN "NUL" ELSE s[1]
Put(p, spec, params, text) == [p EXCEPT !.out = Append(@, [spec |-> spec, params |-> params, text |-> text])]
Plain(p, text) == IF text = <<>> THEN p ELSE Put(p, <<>>, <<>>, text)
error(p) == [p EXCEPT !.err = TRUE]

----------------------------------------------------------------------------
(* What stands behind a backslash: [ch, rest].                              *)
conv_escape(s) ==
    LET n == Leading(s, DOMAIN Octal, 3)
        value == FoldLeft(LAMBDA v, c : 8 * v + Octal[c], 0, SubSeq(s, 1, n))
    IN  IF n > 0 THEN [ch |-> Byte(value % 256), rest |-> From(s, n + 1)]
        ELSE IF First(s) \in DOMAIN Named THEN [ch |-> Named[s[1]], rest |-> Tail(s)]
        ELSE [ch |-> "\\", rest |-> s]

(* The escapes of %b and echo: [text, done].  An octal number has a zero in *)
(* front of its three digits, and \c is the end of everything.              *)
RECURSIVE conv_escape_str(_, _)
conv_escape_str(s, text) ==
    LET behind == Tail(s)
        number == First(behind) = "0" /\ isodigit(Tail(behind))
        e == conv_escape(IF number THEN Tail(behind) ELSE behind)
    IN  IF s = <<>> THEN [text |-> text, done |-> FALSE]
        ELSE IF s[1] # "\\" THEN conv_escape_str(Tail(s), Append(text, s[1]))
        ELSE IF First(behind) = "c" THEN [text |-> text, done |-> TRUE]
        ELSE conv_escape_str(e.rest, Append(text, e.ch))

----------------------------------------------------------------------------
Advance(p) == IF p.args = <<>> THEN p ELSE [p EXCEPT !.args = Tail(@), !.used = TRUE]
getstr(p) == IF p.args = <<>> THEN <<>> ELSE p.args[1]
getchr(p) == IF p.args = <<>> \/ p.args[1] = <<>> THEN "NUL" ELSE p.args[1][1]
(* A number, or the number of the character behind a quote: [val, ok].      *)
check_conversion(r) == r.rest = <<>> /\ ~r.range
getuintmax(p, sign) ==
    LET s == p.args[1]
        r == Strto(s, sign)
    IN  IF p.args = <<>> THEN [val |-> 0, ok |-> TRUE]
        ELSE IF First(s) \in {"'", "\""} THEN [val |-> Code(First(Tail(s))), ok |-> TRUE]
        ELSE [val |-> r.val, ok |-> check_conversion(r)]
Took(p, r) == [Advance(p) EXCEPT !.rval = IF r.ok THEN @ ELSE 1]

(* %b in printf, and the words of echo, which are followed by tail.         *)
print_escape_str(p, spec, params, s) ==
    LET r == conv_escape_str(s, <<>>) IN [Put(p, spec, params, r.text) EXCEPT !.stop = r.done]
print_word(p, s, tail) ==
    LET r == conv_escape_str(s, <<>>)
    IN  [Plain(p, IF r.done THEN r.text ELSE r.text \o tail) EXCEPT !.stop = r.done]

----------------------------------------------------------------------------
SKIP1 == {"#", "-", "+", " ", "0"}
SKIP2 == {"*", "0", "1", "2", "3", "4", "5", "6", "7", "8", "9"}
(* A width or precision: [p, params, rest], fmt begins where it may stand.  *)
Parameter(p, params, fmt) ==
    LET r == getuintmax(p, TRUE)
    IN  IF First(fmt) = "*" THEN [p |-> Took(p, r), params |-> Append(params, r.val), rest |-> Tail(fmt)]
        ELSE [p |-> p, params |-> params, rest |-> From(fmt, Leading(fmt, SKIP2, Len(fmt)) + 1)]
Signed == {"d", "i"}
Unsigned == {"o", "u", "x", "X"}
(* A directive, fmt being what follows its percent sign: [p, rest].         *)
Directive(p, fmt) ==
    LET w == Parameter(p, <<>>, From(fmt, Leading(fmt, SKIP1, Len(fmt)) + 1))
        d == IF First(w.rest) = "." THEN Parameter(w.p, w.params, Tail(w.rest)) ELSE w
        ch == First(d.rest)
        spec == SubSeq(fmt, 1, Len(fmt) - Len(d.rest) + 1)
        r == getuintmax(d.p, ch \in Signed)
        Become(q) == [p |-> q, rest |-> Tail(d.rest)]
    IN  CASE ch = "b" -> Become(print_escape_str(Advance(d.p), [spec EXCEPT ![Len(spec)] = "s"], d.params, getstr(d.p)))
          [] ch = "c" -> Become(Put(Advance(d.p), spec, d.params, <<getchr(d.p)>>))
          [] ch = "s" -> Become(Put(Advance(d.p), spec, d.params, getstr(d.p)))
          [] ch \in Signed \union Unsigned -> Become(Put(Took(d.p, r), spec, d.params, <<ToString(r.val)>>))
          [] OTHER -> [p |-> error(d.p), rest |-> <<>>]

(* Once through the format.                                                 *)
RECURSIVE Through(_, _)
Through(p, fmt) ==
    LET e == conv_escape(Tail(fmt))
        d == Directive(p, Tail(fmt))
    IN  IF fmt = <<>> \/ p.err \/ p.stop THEN p
        ELSE IF fmt[1] = "\\" THEN Through(Plain(p, <<e.ch>>), e.rest)
        ELSE IF fmt[1] # "%" THEN Through(Plain(p, <<fmt[1]>>), Tail(fmt))
        ELSE IF First(Tail(fmt)) = "%" THEN Through(Plain(p, <<"%">>), From(fmt, 3))
        ELSE Through(d.p, d.rest)

(* The format is used again while it uses arguments and some are left.      *)
Again(p) == p.used /\ p.args # <<>>
RECURSIVE Reused(_, _)
Reused(p, format) ==
    LET q == Through(p, format)
    IN  IF q.err \/ q.stop \/ ~Again(q) THEN q ELSE Reused(q, format)
Fresh(args) == [out |-> <<>>, args |-> args, used |-> FALSE, rval |-> 0, err |-> FALSE, stop |-> FALSE]
printfcmd(format, args) == Reused(Fresh(args), format)

RECURSIVE Words(_, _)
Words(p, lastfmt) ==
    LET tail == IF Len(p.args) <= 1 THEN lastfmt ELSE <<" ">>
        q == print_word(Advance(p), getstr(p), tail)
    IN  IF q.stop \/ q.args = <<>> THEN q ELSE Words(q, lastfmt)
echocmd(args) ==
    IF args # <<>> /\ args[1] = <<"-", "n">> THEN Words(Fresh(Tail(args)), <<>>)
    ELSE Words(Fresh(args), <<"NL">>)

============================================================================
