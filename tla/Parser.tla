------------------------------- MODULE Parser -------------------------------
(***************************************************************************)
(* From tokens to the tree of commands: class Parser, a recursive descent  *)
(* with one token of lookahead.                                            *)
(*                                                                         *)
(* Each ParseX(ts, p) stands for parseX with the lexer at the p-th of the  *)
(* tokens ts.  It ends in one of four ways: "ok" with a node and the place *)
(* after it, "none" where the code returns nullptr, "error" where it       *)
(* throws, and "stuck" where it does not return, because the lexer answers *)
(* with the same empty word again and again.                               *)
(***************************************************************************)
EXTENDS Lexer

Ok(node, p) == [res |-> "ok", node |-> node, pos |-> p]
NoNode      == [kind |-> "none"]
None(p)     == [res |-> "none", node |-> NoNode, pos |-> p]
Refused     == [res |-> "error", node |-> NoNode, pos |-> 0]
Stuck       == [res |-> "stuck", node |-> NoNode, pos |-> 0]

\* Go on with F after success; a nullptr, an exception or a loop is passed on.
After(r, F(_)) == IF r.res = "ok" THEN F(r) ELSE r
\* The callers that throw when they get a nullptr.
Needed(r) == IF r.res = "none" THEN Refused ELSE r

At(ts, p)        == ts[Min({p, Len(ts)})]
IsOp(ts, p, ops) == At(ts, p).type = "OPERATOR" /\ At(ts, p).value \in ops
IsWord(ts, p)    == At(ts, p).type = "WORD"
Is(ts, p, word)  == IsWord(ts, p) /\ At(ts, p).value = <<word>>

Semicolon == {<<";">>}
AndOr     == {<<"&", "&">>, <<"|", "|">>}
RedirOps  == {<<"<">>, <<">">>, <<">", ">">>, <<"<", "&">>, <<">", "&">>, <<"<", "<">>}

\* skipNewlines
RECURSIVE SkipNewlines(_, _)
SkipNewlines(ts, p) ==
  IF At(ts, p).type = "NEWLINE" THEN SkipNewlines(ts, p + 1) ELSE p

\* parseRedirection, as long as it finds one.
RECURSIVE ParseRedirections(_, _, _)
ParseRedirections(ts, p, redirs) ==
  LET numbered == At(ts, p).type = "IO_NUMBER"
      q        == IF numbered THEN p + 1 ELSE p
      standard == IF At(ts, q).value[1] = "<" THEN <<"0">> ELSE <<"1">>
  IN IF ~ IsOp(ts, q, RedirOps) THEN IF numbered THEN Refused ELSE Ok(redirs, p)
     ELSE IF ~ IsWord(ts, q + 1) THEN Refused
     ELSE ParseRedirections(ts, q + 2,
            Append(redirs, [op   |-> At(ts, q).value,
                            fd   |-> IF numbered THEN At(ts, p).value ELSE standard,
                            file |-> At(ts, q + 1).value]))

Command == [kind |-> "command", assignments |-> <<>>, words |-> <<>>,
            redirs |-> <<>>, bg |-> FALSE]

\* The loop of parseSimpleCommand.  A word at the last place is the one the
\* lexer never gets past: the loop appends it for ever.
RECURSIVE ParseArguments(_, _, _)
ParseArguments(ts, p, command) ==
  CASE At(ts, p).type = "ASSIGNMENT" /\ command.words = <<>> ->
         ParseArguments(ts, p + 1,
           [command EXCEPT !.assignments = Append(@, At(ts, p).value)])
    [] IsWord(ts, p) /\ p >= Len(ts) -> Stuck
    [] IsWord(ts, p) /\ p < Len(ts) ->
         After(ParseRedirections(ts, p + 1, command.redirs), LAMBDA r :
           ParseArguments(ts, r.pos,
             [command EXCEPT !.words = Append(@, At(ts, p).value), !.redirs = r.node]))
    [] OTHER ->
         IF command.words = <<>> /\ command.assignments = <<>> THEN None(p)
         ELSE Ok(command, p)

-----------------------------------------------------------------------------
(* Lists and what they contain.                                            *)

RECURSIVE ParseList(_, _), ParseRest(_, _, _), ParsePipeline(_, _),
          ParseSimpleCommand(_, _)

\* A list of commands that has to be followed by a reserved word.
ParseUntil(ts, p, word) ==
  LET r == Needed(ParseList(ts, p))
  IN IF r.res = "ok" /\ ~ Is(ts, r.pos, word) THEN Refused
     ELSE [r EXCEPT !.pos = @ + 1]

IfNode(c, t, e) == [kind |-> "if", cond |-> c, then |-> t, else |-> e]

ParseIf(ts, p) ==
  After(ParseUntil(ts, p + 1, "then"), LAMBDA c :
    LET t == Needed(ParseList(ts, c.pos))
    IN IF t.res = "ok" /\ Is(ts, t.pos, "else")
       THEN After(ParseUntil(ts, t.pos + 1, "fi"), LAMBDA e :
              Ok(IfNode(c.node, t.node, e.node), e.pos))
       ELSE After(ParseUntil(ts, c.pos, "fi"), LAMBDA u :
              Ok(IfNode(c.node, u.node, NoNode), u.pos)))

ParseWhile(ts, p, until) ==
  After(ParseUntil(ts, p + 1, "do"), LAMBDA c :
    After(ParseUntil(ts, c.pos, "done"), LAMBDA b :
      Ok([kind |-> "while", cond |-> c.node, body |-> b.node, until |-> until], b.pos)))

\* The words of for end at the first token that is no word, or at do.
ParseFor(ts, p) ==
  LET q == Min({k \in p + 3 .. Len(ts) : ~ IsWord(ts, k) \/ Is(ts, k, "do")}
                 \cup {Len(ts)})
  IN CASE ~ IsWord(ts, p + 1) \/ ~ Is(ts, p + 2, "in") -> Refused
       [] Is(ts, p + 2, "in") /\ Is(ts, q, "do") /\ IsWord(ts, p + 1) ->
            After(ParseUntil(ts, q + 1, "done"), LAMBDA b :
              Ok([kind |-> "for", var |-> At(ts, p + 1).value, body |-> b.node,
                  words |-> [k \in 1 .. q - p - 3 |-> ts[p + 2 + k].value]], b.pos))
       [] OTHER -> IF IsWord(ts, q) THEN Stuck ELSE Refused

\* The place after the patterns of an item of case; 0 if there is none.
RECURSIVE PatternsEnd(_, _)
PatternsEnd(ts, p) ==
  IF ~ IsWord(ts, p) THEN 0
  ELSE IF IsOp(ts, p + 1, {<<"|">>}) THEN PatternsEnd(ts, p + 2) ELSE p + 1

\* An item has to end in the token ;; which the lexer never forms (it gives two
\* semicolons, and the list before them takes both).  So a case with an item
\* is refused, and the nodes this function returns have none.
ParseCase(ts, p) ==
  LET q == SkipNewlines(ts, p + 3)
      e == PatternsEnd(ts, q)
  IN CASE ~ IsWord(ts, p + 1) \/ ~ Is(ts, p + 2, "in") -> Refused
       [] IsWord(ts, p + 1) /\ Is(ts, p + 2, "in") /\ Is(ts, q, "esac") ->
            Ok([kind |-> "case", word |-> At(ts, p + 1).value], q + 1)
       [] OTHER ->
            IF e > 0 /\ IsOp(ts, e, {<<")">>}) /\ ParseList(ts, e + 1).res = "stuck"
            THEN Stuck ELSE Refused

\* parseSubshell is called for a word (, which only quotes can make, and
\* then expects an operator: it always throws.
ParseSubshell(ts, p) == Refused

ParseSimpleCommand(ts, at) ==
  LET p == SkipNewlines(ts, at)
  IN CASE Is(ts, p, "if")    -> ParseIf(ts, p)
       [] Is(ts, p, "for")   -> ParseFor(ts, p)
       [] Is(ts, p, "while") -> ParseWhile(ts, p, FALSE)
       [] Is(ts, p, "until") -> ParseWhile(ts, p, TRUE)
       [] Is(ts, p, "case")  -> ParseCase(ts, p)
       [] Is(ts, p, "(")     -> ParseSubshell(ts, p)
       [] OTHER              -> ParseArguments(ts, p, Command)

\* Mutant: a command is made anew from its words, for the background.
InBackgroundAnew(node) ==
  IF node.kind = "command" THEN [Command EXCEPT !.words = node.words, !.bg = TRUE] ELSE node

\* & is consumed after any command and remembered by simple ones only.
InBackground(node) ==
  IF node.kind = "command" THEN [node EXCEPT !.bg = TRUE] ELSE node

ParsePipeline(ts, p) ==
  After(ParseSimpleCommand(ts, p), LAMBDA c :
    CASE IsOp(ts, c.pos, {<<"|">>}) ->
           After(Needed(ParsePipeline(ts, SkipNewlines(ts, c.pos + 1))), LAMBDA r :
             Ok([kind |-> "pipe", left |-> c.node, right |-> r.node], r.pos))
      [] IsOp(ts, c.pos, {<<"&">>}) -> Ok(InBackground(c.node), c.pos + 1)
      [] OTHER -> c)

\* ListNode::addCommand: ops[i] is the operator in front of the i-th command.
AddCommand(list, node, op) ==
  [list EXCEPT !.commands = Append(@, node), !.ops = Append(@, op)]

\* The loop of parseList.
ParseRest(ts, p, list) ==
  LET r == ParsePipeline(ts, SkipNewlines(ts, p + 1))
  IN CASE IsOp(ts, p, Semicolon) /\ r.res = "none" -> ParseRest(ts, r.pos, list)
       [] IsOp(ts, p, Semicolon \cup AndOr) /\ r.res = "ok" ->
            ParseRest(ts, r.pos, AddCommand(list, r.node, At(ts, p).value))
       [] ~ IsOp(ts, p, Semicolon \cup AndOr) -> Ok(list, p)
       [] OTHER -> Needed(r)

ParseList(ts, p) ==
  After(ParsePipeline(ts, p), LAMBDA r :
    ParseRest(ts, r.pos,
      AddCommand([kind |-> "list", commands |-> <<>>, ops |-> <<>>], r.node, <<>>)))

\* parseCommand: the whole line has to be one list.
Parse(line) ==
  LET ts == Tokens(line, 1)
      r  == ParseList(ts, SkipNewlines(ts, 1))
  IN IF r.res \in {"ok", "none"} /\ At(ts, r.pos).type # "END_OF_INPUT"
     THEN Refused ELSE r

=============================================================================
