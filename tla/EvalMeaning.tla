---------------------------- MODULE EvalMeaning ----------------------------
(***************************************************************************)
(* What a program of DashEval means, without a stack, registers or         *)
(* handlers: every node has an outcome, and each construct says which      *)
(* outcomes of its parts it ends and which it hands on.  The definitions   *)
(* follow the comments of eval.c (breakcmd, returncmd) and the manual page *)
(* dash.1, not the code of evaltree.                                       *)
(***************************************************************************)
EXTENDS Integers, Sequences, SequencesExt

\* An outcome: what was run, the loop counter, the status, and how the node
\* ended - or which loops, function or process it ends.
Ok(s) == [s EXCEPT !.how = "ok", !.n = 0]
Ended(s, how, n, st) == [s EXCEPT !.how = how, !.n = n, !.st = st]
Started == [out |-> <<>>, tick |-> 0, st |-> 0, how |-> "ok", n |-> 0]

\* -e, if the shell is not interactive (dash.1:202): it ends with a command that
\* fails where nobody looks; return with a status is such a command.
EndsOnFailure(p) == p.e /\ ~p.i
Checked(s, env) ==
    IF s.how \in {"ok", "ret"} /\ s.st # 0 /\ env.e /\ ~env.tested THEN [s EXCEPT !.how = "end"] ELSE s

\* What a loop does with the outcome of a turn.
Left(s) == IF s.n > 1 THEN [s EXCEPT !.n = @ - 1] ELSE Ok(s)
Over(s) == s.how \notin {"ok", "cont"} \/ (s.how = "cont" /\ s.n > 1)

\* What a child process leaves behind: its output and its status.
OfChild(s, c) == [s EXCEPT !.out = c.out, !.st = c.st]

RECURSIVE Run(_, _, _), RunAll(_, _, _), RunWhile(_, _, _, _), RunFork(_, _, _)

RunAll(seq, env, s) ==
    IF seq = <<>> THEN s
    ELSE LET r == Run(Head(seq), env, s)
         IN IF r.how # "ok" THEN r ELSE RunAll(Tail(seq), env, r)

RunWhile(node, env, s, st) ==
    LET in == [env EXCEPT !.loops = @ + 1]
        t == Run(node.a, [in EXCEPT !.tested = TRUE], s)
        b == Run(node.b, in, t)
    IN IF t.how \in {"break", "cont"} /\ Over(t) THEN [Left(t) EXCEPT !.st = st]
       ELSE IF t.how = "ret" THEN [t EXCEPT !.st = IF t.n = 0 THEN st ELSE @]
       ELSE IF t.how \notin {"ok", "cont"} THEN t
       ELSE IF t.how = "cont" THEN RunWhile(node, env, Ok(t), st)
       ELSE IF t.st # 0 THEN [t EXCEPT !.st = st]
       ELSE IF Over(b) THEN IF b.how \in {"break", "cont"} THEN Left(b) ELSE b
       ELSE RunWhile(node, env, Ok(b), b.st)

RunFor(node, env, s) ==
    LET in == [env EXCEPT !.loops = @ + 1]
        one == Run(node.a, in, s)
        two == Run(node.a, in, Ok(one))
        leave(r) == IF r.how \in {"break", "cont"} THEN Left(r) ELSE r
    IN IF Over(one) THEN leave(one) ELSE leave(two)

RunFork(list, env, s) ==
    LET r == OfChild(s, Run(Head(list), env, s))
    IN IF Len(list) = 1 THEN r ELSE RunFork(Tail(list), env, r)

RunCommand(n, env, s) ==
    LET text == RunAll(n.b, env, s)
        special == n.c \in {"special", "break", "cont", "return", "exit", "eval", "dot"}
        reached == IF n.arg > env.loops THEN env.loops ELSE n.arg
    IN CASE n.c = "expand" \/ (n.redir = "bad" /\ special) -> Ended(s, "err", 0, 2)
         [] n.c # "expand" /\ n.redir = "bad" /\ ~special -> [s EXCEPT !.st = 2]
         [] OTHER ->
       CASE n.c = "missing" -> [s EXCEPT !.st = 127]
         [] n.c = "run" -> [s EXCEPT !.out = Append(@, n.name), !.st = n.st]
         [] n.c = "tick" -> [s EXCEPT !.st = IF s.tick = 2 THEN 1 ELSE 0,
                                      !.tick = IF @ = 2 THEN 2 ELSE @ + 1]
         [] n.c = "regular" -> [s EXCEPT !.st = 2]
         [] n.c = "special" -> Ended(s, "err", 0, 2)
         [] n.c \in {"break", "cont"} ->
              Ended(s, IF reached = 0 THEN "ok" ELSE n.c, reached, 0)
         [] n.c = "return" -> IF n.arg >= 0 THEN Ended(s, "ret", 1, n.arg)
                                            ELSE Ended(s, "ret", 0, s.st)
         [] n.c = "exit" -> Ended(s, "exit", 0, IF n.arg >= 0 THEN n.arg
                                  ELSE IF env.status >= 0 THEN env.status ELSE s.st)
         [] n.c = "eval" -> IF n.b = <<>> THEN [s EXCEPT !.st = 0] ELSE text
         [] n.c = "ceval" -> IF text.how = "err" THEN Ok(text) ELSE text
         [] n.c = "dot" ->
              LET r == RunAll(n.b, [env EXCEPT !.tested = FALSE], s)
              IN IF r.how = "ret" THEN Ok(r) ELSE r
         [] n.c = "fun" ->
              LET r == Run(n.b[1], [env EXCEPT !.loops = 0], s)
              IN IF r.how = "ret" THEN Ok(r) ELSE r

Run(n, env, s) ==
    LET test == Run(n.a, [env EXCEPT !.tested = TRUE], s)
        first == Run(n.a, env, s)
    IN CASE n.t = "cmd" -> Checked(RunCommand(n, env, s), env)
         [] n.t = "fork" -> Checked(RunFork(n.list, env, s), env)
         [] n.t = "not" -> IF test.how # "ok" THEN test
                           ELSE [test EXCEPT !.st = IF @ = 0 THEN 1 ELSE 0]
         [] n.t = "and" -> IF test.how # "ok" \/ test.st # 0 THEN test
                           ELSE Run(n.b, env, test)
         [] n.t = "or" -> IF test.how # "ok" \/ test.st = 0 THEN test
                          ELSE Run(n.b, env, test)
         [] n.t = "seq" -> IF first.how # "ok" THEN first ELSE Run(n.b, env, first)
         [] n.t = "if" -> IF test.how # "ok" THEN test
                          ELSE IF test.st = 0 THEN Run(n.b, env, test)
                          ELSE [test EXCEPT !.st = 0]
         [] n.t = "while" -> RunWhile(n, env, s, 0)
         [] n.t = "for" -> RunFor(n, env, s)
         [] n.t = "redir" -> IF n.redir = "bad" THEN Checked([s EXCEPT !.st = 2], env)
                             ELSE first

\* The lines of a program, one after another: an error ends the line in an
\* interactive shell and the shell in another one.
RECURSIVE RunLines(_, _, _)
RunLines(p, lines, s) ==
    IF lines = <<>> THEN s
    ELSE LET r == Run(Head(lines), [e |-> EndsOnFailure(p), tested |-> FALSE, loops |-> 0, status |-> -1], s)
         IN IF r.how = "ok" \/ (r.how = "err" /\ p.i) THEN RunLines(p, Tail(lines), Ok(r)) ELSE r

\* The EXIT trap does not change the status, unless it exits or fails itself.
Meaning(p, lines) ==
    LET r == RunLines(p, lines, Started)
        t == RunAll(p.exit, [e |-> EndsOnFailure(p), tested |-> FALSE, loops |-> 0, status |-> r.st], Ok(r))
    IN [out |-> t.out, st |-> IF t.how \in {"exit", "err", "end"} THEN t.st ELSE r.st]
=============================================================================
