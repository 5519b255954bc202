---------------------------- MODULE MCDashEval ----------------------------
\* DashEval over every nesting of two constructs around a command, followed
\* by another command and a second line; compared with EvalMeaning.
EXTENDS DashEval, TLC

M == INSTANCE EvalMeaning

Cmd(c, arg, body, redir) == [t |-> "cmd", c |-> c, arg |-> arg, b |-> body, redir |-> redir]
Simple(c, arg) == Cmd(c, arg, <<>>, "none")
Run(name, st) == [t |-> "cmd", c |-> "run", name |-> name, st |-> st, redir |-> "none"]
Two(t, x, y) == [t |-> t, a |-> x, b |-> y]
Test == Simple("tick", 0)
After == Run("after", 0)

\* The commands at the bottom, by name and number.
Leaf(x) ==
    CASE x[1] = "x" -> Run("x", x[2])
      [] x[1] = "badspecial" -> Cmd("special", 0, <<>>, "bad")
      [] x[1] = "badregular" -> Cmd("regular", 0, <<>>, "bad")
      [] OTHER -> Simple(x[1], x[2])
Leaves == {<<"x", 0>>, <<"x", 1>>, <<"return", -1>>, <<"return", 1>>, <<"exit", -1>>,
           <<"exit", 3>>, <<"break", 1>>, <<"break", 2>>, <<"cont", 1>>, <<"cont", 2>>}
          \cup {<<c, 0>> : c \in {"missing", "expand", "regular", "special", "badspecial",
                                 "badregular"}}

\* The constructs, by name.
Around(w, x) ==
    CASE w = "not" -> [t |-> "not", a |-> x]
      [] w = "and" -> Two("and", x, Run("and", 0))
      [] w = "or" -> Two("or", x, Run("or", 1))
      [] w = "seq" -> Two("seq", x, Run("then", 0))
      [] w = "if" -> Two("if", x, Run("yes", 0))
      [] w = "body" -> Two("while", Test, Two("seq", x, Run("turn", 1)))
      [] w = "test" -> Two("while", Two("and", Test, x), Run("turn", 0))
      [] w = "for" -> [t |-> "for", a |-> Two("seq", x, Run("turn", 0))]
      [] w = "redir" -> [t |-> "redir", a |-> x, redir |-> "ok"]
      [] w = "noredir" -> [t |-> "redir", a |-> x, redir |-> "bad"]
      [] w = "sub" -> [t |-> "fork", list |-> <<x>>]
      [] w = "pipe" -> [t |-> "fork", list |-> <<x, Run("right", 0)>>]
      [] w = "eval" -> Cmd("eval", 0, <<x, Run("line", 0)>>, "ok")
      [] w = "ceval" -> Cmd("ceval", 0, <<x, Run("line", 1)>>, "none")
      [] w = "dot" -> Cmd("dot", 0, <<x, Run("line", 1)>>, "none")
      [] w = "fun" -> Cmd("fun", 0, <<Two("seq", x, Run("more", 0))>>, "ok")

Constructs == {"not", "and", "or", "seq", "if", "body", "test", "for", "redir", "noredir",
               "sub", "pipe", "eval", "ceval", "dot", "fun"}

\* A script is named by its constructs, outermost first, and its command.
Script(path, x, exit, trap, n, i, e) ==
    [path |-> path, x |-> x, exit |-> exit, trap |-> trap, sigs |-> n, i |-> i, e |-> e]
RECURSIVE Nested(_, _)
Nested(path, x) == IF path = <<>> THEN Leaf(x) ELSE Around(Head(path), Nested(Tail(path), x))
MCLines(s) == <<Two("seq", Nested(s.path, s.x), After), Run("end", 0)>>

\* Left out: an error in a loop or a child of command eval, where loopnest
\* and the handler of the parent stay as they were at the error; and break in
\* a trap, which ends the command the trap came before.
Pairs == ((Constructs \ {"ceval"}) \X Constructs)
         \cup ({"ceval"} \X (Constructs \ {"body", "test", "for", "sub", "pipe", "ceval"}))
Errors == {"expand", "special", "badspecial"}
Plain ==
    {Script(p, x, <<>>, <<>>, 0, i, e) : p \in Pairs, x \in Leaves, i \in BOOLEAN, e \in BOOLEAN}
    \cup {Script(<<"ceval", w>>, x, <<>>, <<>>, 0, i, e) :
        w \in Constructs, x \in {y \in Leaves : y[1] \notin Errors},
        i \in BOOLEAN, e \in BOOLEAN}
    \cup {Script(<<w>>, x, <<y>>, <<>>, 0, i, e) :
        w \in Constructs, x \in Leaves, i \in BOOLEAN, e \in BOOLEAN,
        y \in {Simple("exit", -1), Simple("exit", 4), Simple("special", 0),
               Simple("return", 5)}}
    \cup {Script(<<u, v, w>>, x, <<>>, <<>>, 0, TRUE, FALSE) :
        u \in {"body", "for", "fun"}, v \in {"body", "fun", "dot", "eval", "sub"},
        w \in {"for", "fun", "redir"}, x \in Leaves}

Signalled ==
    {Script(<<v, w>>, x, <<>>, t, 2, TRUE, FALSE) :
        v \in {"for", "fun", "eval", "redir", "pipe", "dot"}, w \in {"body", "fun", "eval", "sub"},
        x \in {<<"x", 0>>, <<"expand", 0>>, <<"break", 1>>},
        t \in {<<>>, <<Run("trap", 1)>>}}

MCScripts == Plain \cup Signalled

\* The nodes of these scripts, and which of them are as Tame says.
RECURSIVE Within(_)
Within(C) == IF C = {} THEN {} ELSE C \cup Within(UNION {Parts(n) : n \in C})
Programs == {Two("seq", Nested(p[1], p[2]), After) : p \in {<<s.path, s.x>> : s \in MCScripts}}
Traps == UNION {ToSet(s.exit \o s.trap) : s \in MCScripts}
MCTrees == Within(Programs \cup Traps \cup {Run("end", 0)})
NoneRaises(n) == \A p \in Within({n}) : ~Raises(p)
MCErrorless == {n \in MCTrees : NoneRaises(n)}
MCSteady == {n \in MCTrees : \A p \in Within({n}) : ~Breaks(p)}
MCRecoverable ==
    {n \in MCTrees : \A p \in Within({n}) : p.t \in {"while", "for", "fork"} => NoneRaises(p)}

\* What the theorem about FramesMatch assumes holds of these scripts.
ASSUME Tame(MCTrees, MCRecoverable, MCErrorless, MCSteady)

\* Without signals the program runs as its meaning says: the same commands,
\* in the same order, and the same status in the end.  With -i and -e together
\* it does not: evaltree looks at -e alone (eval.c:324), so that an interactive
\* shell leaves as well, which the manual says it does not (dash.1:202).
RunsAsWritten ==
    /\ ctl.go = "halt" /\ parents = <<>> /\ sigs = 0
    /\ ~(prog.i /\ prog.e)
    => [out |-> out, st |-> ctl.st] = M!Meaning(prog, Lines(prog))
=============================================================================
