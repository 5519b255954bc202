------------------------------ MODULE MCScript ------------------------------
(* Scripts for TLC: all short lines over small alphabets, and chosen ones. *)
EXTENDS Script

\* Words with blanks between them.
Spaced(w) == [i \in 1 .. 2 * Len(w) - 1 |-> IF i % 2 = 1 THEN w[(i + 1) \div 2] ELSE " "]

AllLines(alphabet, n) == UNION {[1 .. k -> alphabet] : k \in 0 .. n}

Operators == AllLines({"a", " ", ";", "|", "&", "\n"}, 4)
Redirects == AllLines({"a", "1", " ", ">", "<", "&", "="}, 4)
Specials  == AllLines({"a", " ", "'", "\"", "\\", "#", "%", "=", "$", "(", ")", Backquote}, 3)

Compound == {Spaced(w) : w \in {
  <<"if", "a", "&", "then", "b", "&", "fi">>,
  <<"if", "a", "&", "then", "b", ";", "a", "&", "else", "c", "&", "fi", ";", "a">>,
  <<"if", "a", ";", "then", "b", ";", "fi">>,
  <<"for", "x", "in", "a", "b", "do", "c", "|", "d", "&", "done", ";", "a">>,
  <<"for", "x", "in", "do", "c", "&", "done">>,
  <<"while", "a", "&", "do", "b", "&", "done", ";", "c">>,
  <<"until", "a", "&", "do", "b", "&", "done">>,
  <<"for", "x", "in", "a", "%">>,
  <<"case", "x", "in", "esac">>,
  <<"case", "x", "in", "a", "|", "b", ")", "c", ";", ";", "esac">>,
  <<"case", "x", "in", "'", ")", "'">>,
  <<"(", "a", ")">>,
  <<"a", "|", "for", "x", "in", "y", "do", "b", "&", "done", "|", "c">>,
  <<"a", ">", "b", "2", "|", "c", "<", "d", ";", "e", ";", "a", "|", "b">>}}

\* Scripts of two lines, in which one asks to leave.
Leaving == {<<l, <<"a">>>> : l \in {
  <<"exit">>, Spaced(<<"exit", ";", "b">>), Spaced(<<"a", ";", "exit">>), Spaced(<<"a", "|", "exit">>),
  Spaced(<<"if", "a", "&", "then", "b", "&", "else", "exit", "&", "fi">>),
  Spaced(<<"a", ";", "if", "b", "&", "then", "c", ";", "exit", "&", "fi">>),
  Spaced(<<"exit", "|", "exit">>), Spaced(<<"if", "exit", "&", "then", "b", "&", "fi">>), <<";">>, <<"#">>,
  Spaced(<<"for", "x", "in", "a", "b", "do", "exit", "&", "done">>)}}

\* exit before && and another command, which must not run: exit ends the line,
\* and has failed besides.
Commented == {<< <<"exit", " ", "&", "&", " ", "b">> >>}

MCScripts == {<<l>> : l \in Operators \cup Redirects \cup Specials \cup Compound} \cup Leaving

=============================================================================
