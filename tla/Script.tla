------------------------------- MODULE Script -------------------------------
(***************************************************************************)
(* What a line does: Shell::runScript, and Executor::execute over the tree *)
(* the parser makes of each line.                                          *)
(*                                                                         *)
(* A process that executes has a stack of the nodes it is in; execute      *)
(* calls itself for the parts of a node and gets a status back.  A pipe    *)
(* forks two processes, which execute on their own.  Process 0 is the      *)
(* shell.  What a command does is not modelled, only that it runs and ends *)
(* with some status; descriptors and background jobs have modules of their *)
(* own (Redirect, Pipeline, BgLaunch).                                     *)
(***************************************************************************)
EXTENDS Parser, SequencesExt

CONSTANTS
  Scripts,   \* the scripts: sequences of lines
  MaxPid,    \* how many processes there may be besides the shell
  MaxRuns,   \* how many commands a process may run for one line
  MayFail    \* whether pipe() and fork() can fail

ASSUME ScriptAssumption ==
  /\ MaxPid \in Nat \ {0} /\ MaxRuns \in Nat \ {0} /\ MayFail \in BOOLEAN
  /\ \A s \in Scripts : s \in Seq(Seq(STRING))

Shell == 0
Pid   == 0 .. MaxPid

VARIABLES
  input,   \* the lines not yet read
  line,    \* the line read last
  tree,    \* its node, while it is executed
  phase,   \* where runScript is
  code,    \* what runScript returns
  proc     \* the processes: stack of nodes, last_status_, what they ran

vars == <<input, line, tree, phase, code, proc>>

\* A node being executed: how many of its parts were executed, the status of
\* the last one, and what else execute keeps in local variables.
Frame(node) == [node |-> node, part |-> 0, status |-> 0, keep |-> 0]

\* exit is exit_requested_ and exit_status_ (-1: not requested).
Process(stack) == [stack |-> stack, last |-> 0, log |-> <<>>, exit |-> -1]

TypeOK ==
  /\ phase \in {"read", "run", "stuck", "over"}
  /\ code \in 0 .. 1
  /\ DOMAIN proc \subseteq Pid /\ Shell \in DOMAIN proc
  /\ \A p \in DOMAIN proc :
       /\ proc[p].last \in 0 .. 1 /\ proc[p].exit \in -1 .. 1
       /\ Len(proc[p].log) <= MaxRuns
       /\ \A i \in DOMAIN proc[p].stack :
            proc[p].stack[i].node.kind \in
              {"command", "pipe", "list", "if", "for", "while", "case"}
  /\ phase # "run" => proc[Shell].stack = <<>>

Init ==
  /\ input \in Scripts
  /\ line = <<>> /\ tree = NoNode
  /\ phase = "read" /\ code = 0
  /\ proc = [p \in {Shell} |-> Process(<<>>)]

-----------------------------------------------------------------------------
(* runScript.                                                              *)

\* The condition of the loop.
Continues == proc[Shell].exit = -1 /\ input # <<>>

\* readLine and parseCommand; a line without a command changes nothing.
ReadLine ==
  /\ phase = "read" /\ Continues
  /\ input' = Tail(input) /\ line' = Head(input)
  /\ LET r == Parse(Head(input))
     IN /\ tree' = r.node
        /\ phase' = CASE r.res = "ok"    -> "run"
                      [] r.res = "none"  -> "read"
                      [] r.res = "error" -> "over"
                      [] r.res = "stuck" -> "stuck"
        /\ code' = IF r.res = "error" THEN 1 ELSE 0
        /\ proc' = [proc EXCEPT ![Shell].log = <<>>,
                                ![Shell].stack = IF r.res = "ok"
                                                 THEN <<Frame(r.node)>> ELSE <<>>]

LineDone ==
  /\ phase = "run" /\ proc[Shell].stack = <<>>
  /\ phase' = "read"
  /\ UNCHANGED <<input, line, tree, code, proc>>

Leave ==
  /\ phase = "read" /\ ~ Continues
  /\ phase' = "over"
  /\ code' = IF proc[Shell].exit = -1 THEN 0 ELSE proc[Shell].exit
  /\ UNCHANGED <<input, line, tree, proc>>

-----------------------------------------------------------------------------
(* execute.                                                                *)

Top(p) == Head(proc[p].stack)
In(p, kind) == /\ p \in DOMAIN proc /\ proc[p].stack # <<>>
               /\ Top(p).node.kind = kind

\* execute returns: what process p is after that, with last_status_ set.
Returned(process, status) ==
  LET rest == Tail(process.stack)
  IN [process EXCEPT
        !.last  = status,
        !.stack = IF rest = <<>> THEN <<>>
                  ELSE <<[Head(rest) EXCEPT !.status = status]>> \o Tail(rest)]

Becomes(p, process) ==
  /\ proc' = [proc EXCEPT ![p] = process]
  /\ UNCHANGED <<input, line, tree, phase, code>>

Returns(p, status) == Becomes(p, Returned(proc[p], status))

\* execute is called for a part of the top node, which then is as in frame.
Calls(p, node, frame) ==
  Becomes(p, [proc[p] EXCEPT !.stack = <<Frame(node), frame>> \o Tail(@)])

\* An entry of the log.
Ran(node, status) == [kind |-> "command", words |-> node.words, status |-> status]
Logged(process, entry) == [process EXCEPT !.log = Append(@, entry)]

IsExit(words) == words # <<>> /\ words[1] = <<"exit">>

\* executeCommand, for assignments alone, and for everything but exit: built-ins
\* and commands in the foreground and in the background return 0 or not 0, also
\* when a redirection or a fork has failed (execute turns exceptions into 1).
RunCommand(p) ==
  /\ In(p, "command")
  /\ LET node == Top(p).node
     IN IF node.words = <<>> THEN Returns(p, 0)
        ELSE /\ ~ IsExit(node.words) /\ Len(proc[p].log) < MaxRuns
             /\ \E s \in 0 .. 1 :
                  Becomes(p, Logged(Returned(proc[p], s), Ran(node, s)))

\* exit requests the end of the process's own copy of the shell and throws;
\* the exception ends in execute of this very command, which returns 1.
RunExit(p) ==
  /\ In(p, "command")
  /\ LET node == Top(p).node
     IN /\ IsExit(node.words) /\ Len(proc[p].log) < MaxRuns
        /\ Becomes(p, Logged(Returned([proc[p] EXCEPT !.exit = proc[p].last], 1),
                             Ran(node, 1)))

\* executeList: after each command the operator stored with it is looked at.
\* Mutant: a list ends with the first command that fails.
StopsOnFailure(op, status) == status # 0

Stops(op, status) ==
  (op = <<"&", "&">> /\ status # 0) \/ (op = <<"|", "|">> /\ status = 0)

ListStep(p) ==
  /\ In(p, "list")
  /\ LET f    == Top(p)
         done == \/ f.part = Len(f.node.commands)
                 \/ f.part > 0 /\ Stops(f.node.ops[f.part], f.status)
     IN IF done THEN Returns(p, f.status)
        ELSE Calls(p, f.node.commands[f.part + 1], [f EXCEPT !.part = @ + 1])

IfStep(p) ==
  /\ In(p, "if")
  /\ LET f == Top(p) n == f.node
     IN CASE f.part = 0 -> Calls(p, n.cond, [f EXCEPT !.part = 1])
          [] f.part = 1 /\ f.status = 0 -> Calls(p, n.then, [f EXCEPT !.part = 2])
          [] f.part = 1 /\ f.status # 0 /\ n.else # NoNode ->
               Calls(p, n.else, [f EXCEPT !.part = 2])
          [] OTHER -> Returns(p, f.status)

\* executeFor; variables are not modelled.
\* Mutant: the loop stays at its first word.
ForStepAgain(p) ==
  /\ In(p, "for")
  /\ LET f == Top(p)
     IN IF f.part = Len(f.node.words) THEN Returns(p, f.status)
        ELSE Calls(p, f.node.body, f)

ForStep(p) ==
  /\ In(p, "for")
  /\ LET f == Top(p)
     IN IF f.part = Len(f.node.words) THEN Returns(p, f.status)
        ELSE Calls(p, f.node.body, [f EXCEPT !.part = @ + 1])

\* Parts of while: 1 is the condition, 2 the body, whose status is kept.
WhileStep(p) ==
  /\ In(p, "while")
  /\ LET f    == Top(p)
         body == (f.status = 0) # f.node.until
     IN CASE f.part = 0 -> Calls(p, f.node.cond, [f EXCEPT !.part = 1])
          [] f.part = 1 /\ body -> Calls(p, f.node.body, [f EXCEPT !.part = 2])
          [] f.part = 1 /\ ~ body -> Returns(p, f.keep)
          [] f.part = 2 ->
               Calls(p, f.node.cond, [f EXCEPT !.part = 1, !.keep = f.status])

\* executeCase: no case with an item is ever parsed.
CaseStep(p) == In(p, "case") /\ Returns(p, 0)

-----------------------------------------------------------------------------
(* executePipe.                                                            *)

\* fork: the child is a copy, of which only what it executes matters here.
Forks(p, node, frame) ==
  /\ Len(proc[p].log) < MaxRuns
  /\ Pid \ DOMAIN proc # {}
  /\ LET c == Min(Pid \ DOMAIN proc)
     IN proc' = [q \in DOMAIN proc \cup {c} |->
          IF q = c THEN [Process(<<Frame(node)>>) EXCEPT !.last = proc[p].last]
          ELSE IF q = p
               THEN [proc[p] EXCEPT !.stack = <<[frame EXCEPT !.keep = @ \o <<c>>]>> \o Tail(@)]
               ELSE proc[q]]
  /\ UNCHANGED <<input, line, tree, phase, code>>

ForkLeft(p) ==
  /\ In(p, "pipe") /\ Top(p).part = 0
  /\ Forks(p, Top(p).node.left, [Top(p) EXCEPT !.part = 1, !.keep = <<>>])

ForkRight(p) ==
  /\ In(p, "pipe") /\ Top(p).part = 1
  /\ Forks(p, Top(p).node.right, [Top(p) EXCEPT !.part = 2])

\* pipe() or a fork fails: the exception becomes status 1.  A left child that
\* was forked goes on without anybody waiting for it.
PipeFails(p) ==
  /\ MayFail /\ In(p, "pipe") /\ Top(p).part < 2 /\ Len(proc[p].log) < MaxRuns
  /\ Becomes(p, Logged(Returned(proc[p], 1), [kind |-> "failed", status |-> 1]))

\* What waitpid stores for a process that has exited, and WEXITSTATUS.
WaitStatus(process) == 256 * process.last

ExitStatus(w) == (w \div 256) % 256

\* waitpid for the left and then for the right child, whose status counts.
PipeWaits(p) ==
  /\ In(p, "pipe") /\ Top(p).part = 2
  /\ LET l == Top(p).keep[1]
         r == Top(p).keep[2]
     IN /\ proc[l].stack = <<>> /\ proc[r].stack = <<>>
        /\ LET entry == [kind |-> "pipe", left |-> proc[l].log, right |-> proc[r].log,
                         status |-> ExitStatus(WaitStatus(proc[r]))]
           IN proc' = [q \in DOMAIN proc \ {l, r} |->
                IF q = p THEN Logged(Returned(proc[p], entry.status), entry) ELSE proc[q]]
  /\ UNCHANGED <<input, line, tree, phase, code>>

ExecutePipe(p) == ForkLeft(p) \/ ForkRight(p) \/ PipeFails(p) \/ PipeWaits(p)

Execute(p) ==
  \/ RunCommand(p) \/ RunExit(p) \/ ListStep(p) \/ IfStep(p) \/ ForStep(p)
  \/ WhileStep(p) \/ CaseStep(p) \/ ExecutePipe(p)

Next == ReadLine \/ LineDone \/ Leave \/ \E p \in Pid : Execute(p)

\* A process that is not blocked runs on; commands end (see the README).
Fairness ==
  /\ WF_vars(LineDone)
  /\ \A p \in Pid : WF_vars(Execute(p))

Spec == Init /\ [][Next]_vars /\ Fairness

-----------------------------------------------------------------------------
(* Properties.                                                             *)

\* What the language says a node does: of a way to come to the node (the log of
\* what is still to run, $? and whether exit has run) Means makes the ways to go
\* on behind it.  && and || look at the command before them, and exit ends the
\* process with the status of the command before it.
Way(rest, status, left) == [rest |-> rest, status |-> status, left |-> left]
Start(log, status) == Way(log, status, FALSE)

RECURSIVE Means(_, _), MeansFrom(_, _, _), MeansEach(_, _, _), MeansLoop(_, _, _)
Means(node, w) ==
  CASE w.left -> {w}
    [] node.kind = "command" /\ node.words = <<>> -> {Start(w.rest, 0)}
    [] node.kind = "command" /\ node.words # <<>> ->
         IF w.rest = <<>> \/ Head(w.rest).kind # "command" THEN {}
         ELSE LET ran == Head(w.rest)
              IN {v \in {IF IsExit(ran.words) THEN Way(Tail(w.rest), w.status, TRUE)
                         ELSE Start(Tail(w.rest), ran.status)} : ran.words = node.words}
    [] node.kind = "pipe" ->
         IF w.rest = <<>> \/ Head(w.rest).kind = "command" THEN {}
         ELSE LET ran == Head(w.rest)
              IN {v \in {Start(Tail(w.rest), ran.status)} :
                    \/ ran.kind = "failed"
                    \/ /\ ran.kind = "pipe"
                       /\ \E l \in Means(node.left, Start(ran.left, w.status)) : l.rest = <<>>
                       /\ \E r \in Means(node.right, Start(ran.right, w.status)) :
                            r.rest = <<>> /\ r.status = ran.status}
    [] node.kind = "list" -> MeansFrom(node, 1, w)
    [] node.kind = "if" ->
         UNION {CASE c.left \/ c.status = 0 -> Means(node.then, c)
                  [] ~ c.left /\ c.status # 0 /\ node.else # NoNode -> Means(node.else, c)
                  [] OTHER -> {c} : c \in Means(node.cond, w)}
    [] node.kind = "for"   -> MeansEach(node, Len(node.words), [w EXCEPT !.status = 0])
    [] node.kind = "while" -> MeansLoop(node, w, 0)
    [] node.kind = "case"  -> {[w EXCEPT !.status = 0]}

MeansFrom(list, i, w) ==
  IF i > Len(list.commands) \/ w.left THEN {w}
  ELSE IF \/ list.ops[i] = <<"&", "&">> /\ w.status # 0
          \/ list.ops[i] = <<"|", "|">> /\ w.status = 0
  THEN MeansFrom(list, i + 1, w)
  ELSE UNION {MeansFrom(list, i + 1, c) : c \in Means(list.commands[i], w)}

MeansEach(node, n, w) ==
  IF n = 0 THEN {w} ELSE UNION {MeansEach(node, n - 1, c) : c \in Means(node.body, w)}

MeansLoop(node, w, status) ==
  UNION {CASE c.left -> {c}
           [] ~ c.left /\ (c.status = 0) = node.until -> {Start(c.rest, status)}
           [] OTHER -> UNION {IF b.left THEN {b} ELSE MeansLoop(node, b, b.status)
                              : b \in Means(node.body, c)}
         : c \in Means(node.cond, w)}

Parts(node) ==
  CASE node.kind = "pipe"  -> <<node.left, node.right>>
    [] node.kind = "list"  -> node.commands
    [] node.kind = "if"    -> <<node.cond, node.then, node.else>>
    [] node.kind = "while" -> <<node.cond, node.body>>
    [] node.kind = "for"   -> <<node.body>>
    [] OTHER               -> <<>>

\* RunsAsCommented: when a line has been executed, the commands run were those
\* of the line, each as often and in the order that the language says, given
\* the statuses they ended with; $?, or what exit has asked for, is the status of
\* the whole; and the shell is to end exactly if exit has run.  The comments say
\* so of && and || (executor.cpp:338, 343) and of exit (exit_command.cpp:55), and
\* the code does not do it: see Undisputed.
Requested(process) == process.exit # -1
RunsAsCommented ==
  phase = "run" /\ proc[Shell].stack = <<>> =>
    LET shell   == proc[Shell]
        outcome == IF Requested(shell) THEN shell.exit ELSE shell.last
    IN \E before \in 0 .. 1 :
         Way(<<>>, outcome, Requested(shell)) \in Means(tree, Start(shell.log, before))

\* The lines on which the code agrees with its comments: there is no && or ||, and
\* exit, where it occurs, is the last command and not in a pipe or a loop.
RECURSIVE HasExit(_), Undisputed(_)
HasExit(node) ==
  \/ node.kind = "command" /\ IsExit(node.words)
  \/ \E i \in DOMAIN Parts(node) : HasExit(Parts(node)[i])
MayExit(node) ==
  CASE node.kind = "list" -> {Len(node.commands)}
    [] node.kind = "if"   -> {2, 3}
    [] OTHER              -> {}
Undisputed(node) ==
  /\ node.kind = "list" => Range(node.ops) \cap AndOr = {}
  /\ \A i \in DOMAIN Parts(node) :
       /\ Undisputed(Parts(node)[i])
       /\ i \notin MayExit(node) => ~ HasExit(Parts(node)[i])

\* RunsAsWritten: such a line does what it says, however its lists, pipes,
\* conditions and loops are nested, and whichever of its commands and forks fail.
RunsAsWritten == phase = "run" /\ Undisputed(tree) => RunsAsCommented

\* The words of a tree in the order of the line, with the reserved words and
\* the operators | && || but without ; & and redirections.
RECURSIVE Words(_), InList(_, _)
Words(node) ==
  CASE node.kind = "command" -> node.assignments \o node.words
    [] node.kind = "pipe" -> Words(node.left) \o <<<<"|">>>> \o Words(node.right)
    [] node.kind = "list" -> InList(node, 1)
    [] node.kind = "if" ->
         <<<<"if">>>> \o Words(node.cond) \o <<<<"then">>>> \o Words(node.then)
           \o (IF node.else = NoNode THEN <<>> ELSE <<<<"else">>>> \o Words(node.else))
           \o <<<<"fi">>>>
    [] node.kind = "for" ->
         <<<<"for">>, node.var, <<"in">>>> \o node.words \o <<<<"do">>>>
           \o Words(node.body) \o <<<<"done">>>>
    [] node.kind = "while" ->
         <<<<IF node.until THEN "until" ELSE "while">>>> \o Words(node.cond)
           \o <<<<"do">>>> \o Words(node.body) \o <<<<"done">>>>
    [] node.kind = "case" -> <<<<"case">>, node.word, <<"in">>, <<"esac">>>>
InList(list, i) ==
  IF i > Len(list.commands) THEN <<>>
  ELSE (IF list.ops[i] \in AndOr THEN <<list.ops[i]>> ELSE <<>>)
         \o Words(list.commands[i]) \o InList(list, i + 1)

\* The redirections of the simple commands of a tree, in order.
RECURSIVE Redirections(_)
Redirections(node) ==
  IF node.kind = "command" THEN node.redirs
  ELSE FlattenSeq([i \in DOMAIN Parts(node) |-> Redirections(Parts(node)[i])])

\* NothingLost: a line that is accepted is executed as a whole.  Its tokens hold
\* all its characters but the blanks (unless it has quotes, comments or command
\* substitutions), and its tree holds all the words and redirections of the
\* tokens in their order: none is dropped, taken twice or moved.
NothingLost ==
  phase = "run" =>
    LET ts        == Tokens(line, 1)
        isRedir   == {i \in DOMAIN ts : IsOp(ts, i, RedirOps)}
        isWord    == {i \in DOMAIN ts :
                        /\ ts[i].type \in {"WORD", "ASSIGNMENT", "OPERATOR"}
                        /\ i \notin isRedir /\ i - 1 \notin isRedir
                        /\ ts[i].value \notin Semicolon \cup {<<"&">>}}
        Places(S) == LET Chosen(i) == i \in S IN SelectSeq([i \in DOMAIN ts |-> i], Chosen)
        Values(S) == [k \in DOMAIN Places(S) |-> ts[Places(S)[k]].value]
        NotBlank(c) == c # " "
    IN /\ Range(line) \cap (Quote \cup {"#", "$"}) = {} =>
            SelectSeq(FlattenSeq(Values(DOMAIN ts)), NotBlank) = SelectSeq(line, NotBlank)
       /\ Words(tree) = Values(isWord)
       /\ [k \in DOMAIN Redirections(tree) |->
             <<Redirections(tree)[k].op, Redirections(tree)[k].file>>]
            = [k \in DOMAIN Places(isRedir) |->
                 <<Values(isRedir)[k], ts[Places(isRedir)[k] + 1].value>>]

\* LineEnds: a line without loops that test a condition is over one day, whatever
\* its commands return and whichever fork fails: execute never waits for a
\* process that does not end, and leaves no node unfinished.
RECURSIVE HasWhile(_)
HasWhile(node) ==
  node.kind = "while" \/ \E i \in DOMAIN Parts(node) : HasWhile(Parts(node)[i])
LineEnds == (phase = "run" /\ ~ HasWhile(tree)) ~> (phase # "run")

=============================================================================
