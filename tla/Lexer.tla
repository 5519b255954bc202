------------------------------- MODULE Lexer -------------------------------
(***************************************************************************)
(* The words and operators of a line: class Lexer.                         *)
(*                                                                         *)
(* A line is a sequence of characters.  No rule of the lexer looks inside  *)
(* a run of letters, digits and the other characters that are nothing but  *)
(* parts of words, so such a run is one character here ("a", "then", "1"). *)
(* The lexer works on demand, one token ahead of the parser; its answers   *)
(* do not depend on when it is asked, so Tokens gives them all at once.    *)
(* The last one is what it would answer for ever after.                    *)
(***************************************************************************)
EXTENDS Naturals, Sequences, FiniteSetsExt

Digit        == {"0", "1", "2"}
Backquote    == "backquote"
Quote        == {"'", "\""}
OperatorChar == {"|", "&", ";", "<", ">", "(", ")", "{", "}"}
DoubleOps    == {<<"&", "&">>, <<"|", "|">>, <<">", ">">>, <<"<", "<">>,
                 <<"<", "&">>, <<">", "&">>}

\* Characters that no rule knows: neither part of a word nor an operator.
Unknown == {"%", "!", ",", ":", "~", "[", "]", "^"}

\* isWordChar lists the characters of words; these are all the others.
NotInWords == (OperatorChar \ {"(", ")"}) \cup Quote \cup Unknown
                \cup {" ", "\n", "#", "\\", "=", ""}

\* currentChar: the empty string stands for the end of the input.
CharAt(line, i) == IF i <= Len(line) THEN line[i] ELSE ""

\* The place of the first of these characters from i on, or the end.
FirstOf(line, i, chars) ==
  Min({j \in i .. Len(line) : line[j] \in chars} \cup {Len(line) + 1})

Token(type, value) == [type |-> type, value |-> value]

\* The end of a word at place i; `equals' says that an assignment was seen.
WordToken(line, i, value, equals) ==
  IF equals THEN Token("ASSIGNMENT", value)
  ELSE IF /\ value # <<>> /\ \A k \in DOMAIN value : value[k] \in Digit
          /\ CharAt(line, i) \in {"<", ">"}
       THEN Token("IO_NUMBER", value)
       ELSE Token("WORD", value)

\* parseWord: the token that begins at place i and the place after it.  w holds
\* the variables of its loop: the value, whether = was seen, the open quote
\* and the open parentheses of $( ).  The second character of $( is appended
\* as another $.  A word that is not complete throws (type ERROR).
RECURSIVE Word(_, _, _)
Word(line, i, w) ==
  LET c == CharAt(line, i)
      Incomplete == [token |-> Token("ERROR", <<>>), next |-> i]
      Grow(n, part) == Word(line, i + n, [w EXCEPT !.value = @ \o part])
  IN IF c = "$" /\ CharAt(line, i + 1) = "("
     THEN Word(line, i + 2, [w EXCEPT !.value = @ \o <<"$", "$">>, !.open = 1])
     ELSE IF w.open > 0
     THEN IF c = "" THEN Incomplete
          ELSE Word(line, i + 1, [w EXCEPT !.value = Append(@, c),
                                           !.open = CASE c = "(" -> @ + 1
                                                      [] c = ")" -> @ - 1
                                                      [] OTHER   -> @])
     ELSE IF c = Backquote
     THEN LET j == FirstOf(line, i + 1, {Backquote})
          IN IF j > Len(line) THEN Incomplete ELSE Grow(j + 1 - i, SubSeq(line, i, j))
     ELSE IF c \in Quote /\ w.quote \in {"", c}
     THEN Word(line, i + 1, [w EXCEPT !.quote = IF @ = "" THEN c ELSE ""])
     ELSE IF w.quote # ""
     THEN IF c = "" THEN Incomplete ELSE Grow(1, <<c>>)
     ELSE IF c = "\\"
     THEN LET j == Min({i + 1, Len(line)}) IN Grow(j + 1 - i, SubSeq(line, i, j))
     ELSE IF c = "=" /\ w.value # <<>> /\ ~ w.equals
     THEN Word(line, i + 1, [w EXCEPT !.value = Append(@, c), !.equals = TRUE])
     ELSE IF c \in NotInWords \ {"="}
     THEN [token |-> WordToken(line, i, w.value, w.equals), next |-> i]
     ELSE Grow(1, <<c>>)

NoWord == [value |-> <<>>, equals |-> FALSE, quote |-> "", open |-> 0]

\* nextToken, repeated from place i.  At an unknown character parseWord gives
\* an empty word and does not advance: that is the answer for ever after.
RECURSIVE Tokens(_, _)
Tokens(line, i) ==
  LET c == CharAt(line, i)
  IN CASE c = ""   -> <<Token("END_OF_INPUT", <<>>)>>
       [] c = " "  -> Tokens(line, i + 1)
       [] c = "\n" -> <<Token("NEWLINE", <<c>>)>> \o Tokens(line, i + 1)
       [] c = "#"  -> Tokens(line, FirstOf(line, i, {"\n"}))
       [] c \in OperatorChar ->
            LET n == IF <<c, CharAt(line, i + 1)>> \in DoubleOps THEN 2 ELSE 1
            IN <<Token("OPERATOR", SubSeq(line, i, i + n - 1))>> \o Tokens(line, i + n)
       [] OTHER ->
            LET w == Word(line, i, NoWord)
            IN IF w.next = i \/ w.token.type = "ERROR" THEN <<w.token>>
               ELSE <<w.token>> \o Tokens(line, w.next)

=============================================================================
