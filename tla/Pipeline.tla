------------------------------ MODULE Pipeline ------------------------------
(***************************************************************************)
(* Foreground pipelines: Executor::executePipe.                            *)
(*                                                                         *)
(* The parser nests to the right, a | (b | c): a process that executes a   *)
(* pipe forks a left child for one command and a right child for the rest, *)
(* which does the same again.  Main(1) is the shell, Main(k + 1) the right *)
(* child of Main(k), Left(k) its left child; Main(Stages) only runs the    *)
(* last command.  Descriptors are inherited by fork, which is what makes   *)
(* the end of a stream depend on everybody closing what he does not use.   *)
(***************************************************************************)
EXTENDS Naturals

CONSTANTS
  Stages,     \* number of commands
  Capacity,   \* what fits into a pipe
  Supply,     \* how much the first command may write: a set of numbers
  Endless,    \* ... or this, without end
  MayFail     \* whether pipe() and fork() can fail

ASSUME PipelineAssumption ==
  /\ Stages \in Nat /\ Stages > 1
  /\ Capacity \in Nat \ {0}
  /\ Supply \subseteq Nat /\ Endless \notin Nat
  /\ MayFail \in BOOLEAN

Pipe    == 1 .. Stages - 1
Main(k) == <<"main", k>>
Left(k) == <<"left", k>>
Last    == Main(Stages)
Process == {Main(k) : k \in 1 .. Stages} \cup {Left(k) : k \in Pipe}
Code    == {"success", "failure", "killed"}

VARIABLES
  pc,        \* where each process is
  code,      \* how it has ended
  writers,   \* who holds the write end of each pipe
  readers,   \* who holds its read end
  amount,    \* what is in it
  supply,    \* what the first command has still to write
  eof,       \* pipes whose reader has seen the end of the file
  status,    \* the variable status of each executePipe
  failed     \* processes in which a system call has failed

ends == <<writers, readers>>
vars == <<pc, code, ends, amount, supply, eof, status, failed>>

PcOfMain == {"none", "setup", "pipe", "left", "right", "close", "waitLeft",
             "waitRight", "run", "end", "over"}

TypeOK ==
  /\ pc \in [Process -> PcOfMain]
  /\ code \in [Process -> Code]
  /\ writers \in [Pipe -> SUBSET Process]
  /\ readers \in [Pipe -> SUBSET Process]
  /\ amount \in [Pipe -> 0 .. Capacity]
  /\ supply = Endless \/ supply \in Nat
  /\ eof \subseteq Pipe
  /\ status \in [Pipe -> Code]
  /\ failed \subseteq Process

Init ==
  /\ pc = [p \in Process |-> IF p = Main(1) THEN "pipe" ELSE "none"]
  /\ code = [p \in Process |-> "success"]
  /\ writers = [k \in Pipe |-> {}] /\ readers = [k \in Pipe |-> {}]
  /\ amount = [k \in Pipe |-> 0]
  /\ supply \in Supply \cup {Endless}
  /\ eof = {}
  /\ status = [k \in Pipe |-> "success"]
  /\ failed = {}

Goto(p, label) == pc' = [pc EXCEPT ![p] = label]

\* fork: the child gets a copy of every descriptor of its parent.
Inherits(child, parent) ==
  /\ writers' = [k \in Pipe |->
       IF parent \in writers[k] THEN writers[k] \cup {child} ELSE writers[k]]
  /\ readers' = [k \in Pipe |->
       IF parent \in readers[k] THEN readers[k] \cup {child} ELSE readers[k]]

\* close, for the ends given as sets of pipes.
Closes(p, W, R) ==
  /\ writers' = [k \in Pipe |-> IF k \in W THEN writers[k] \ {p} ELSE writers[k]]
  /\ readers' = [k \in Pipe |-> IF k \in R THEN readers[k] \ {p} ELSE readers[k]]

\* A process ends; the shell itself goes on, with what it holds.
Ends(p, c) ==
  /\ Goto(p, "over")
  /\ code' = [code EXCEPT ![p] = c]
  /\ IF p = Main(1) THEN UNCHANGED ends ELSE Closes(p, Pipe, Pipe)

-----------------------------------------------------------------------------
(* executePipe, in Main(k).                                                *)

MakePipe(k) ==
  /\ pc[Main(k)] = "pipe"
  /\ Goto(Main(k), "left")
  /\ writers' = [writers EXCEPT ![k] = {Main(k)}]
  /\ readers' = [readers EXCEPT ![k] = {Main(k)}]
  /\ UNCHANGED <<code, amount, supply, eof, status, failed>>

ForkLeft(k) ==
  /\ pc[Main(k)] = "left"
  /\ pc' = [pc EXCEPT ![Main(k)] = "right", ![Left(k)] = "setup"]
  /\ Inherits(Left(k), Main(k))
  /\ UNCHANGED <<code, amount, supply, eof, status, failed>>

ForkRight(k) ==
  /\ pc[Main(k)] = "right"
  /\ pc' = [pc EXCEPT ![Main(k)] = "close", ![Main(k + 1)] = "setup"]
  /\ Inherits(Main(k + 1), Main(k))
  /\ UNCHANGED <<code, amount, supply, eof, status, failed>>

\* pipe() or fork() fails: the exception becomes status 1 in execute.
Fails(k) ==
  /\ MayFail /\ pc[Main(k)] \in {"pipe", "left", "right"}
  /\ failed' = failed \cup {Main(k)}
  /\ Ends(Main(k), "failure")
  /\ UNCHANGED <<amount, supply, eof, status>>

\* Mutant: the write end stays open.
CloseReadEnd(k) ==
  /\ pc[Main(k)] = "close"
  /\ Goto(Main(k), "waitLeft")
  /\ Closes(Main(k), {}, {k})
  /\ UNCHANGED <<code, amount, supply, eof, status, failed>>

CloseBoth(k) ==
  /\ pc[Main(k)] = "close"
  /\ Goto(Main(k), "waitLeft")
  /\ Closes(Main(k), {k}, {k})
  /\ UNCHANGED <<code, amount, supply, eof, status, failed>>

Waits(k, child, from, to) ==
  /\ pc[Main(k)] = from /\ pc[child] = "over"
  /\ pc' = [pc EXCEPT ![Main(k)] = to, ![child] = "end"]
  /\ status' = [status EXCEPT ![k] = code[child]]
  /\ UNCHANGED <<code, ends, amount, supply, eof, failed>>

WaitLeft(k) == Waits(k, Left(k), "waitLeft", "waitRight")

WaitRight(k) == Waits(k, Main(k + 1), "waitRight", "run")

\* return WEXITSTATUS(status), which is 0 for a command that was killed; in a
\* child that is what exit() is called with.
Result(c) == IF c = "killed" THEN "success" ELSE c

Return(k) ==
  /\ pc[Main(k)] = "run"
  /\ Ends(Main(k), Result(status[k]))
  /\ UNCHANGED <<amount, supply, eof, status, failed>>

ExecutePipe(k) ==
  \/ MakePipe(k) \/ ForkLeft(k) \/ ForkRight(k) \/ CloseBoth(k)
  \/ WaitLeft(k) \/ WaitRight(k) \/ Return(k)

-----------------------------------------------------------------------------
(* What the children do before they execute their part.                    *)

\* Mutants: the child closes the end it needs; it keeps the one it does not.
LeftClosesWrite(k) ==
  /\ pc[Left(k)] = "setup"
  /\ Goto(Left(k), "run")
  /\ Closes(Left(k), {k}, {})
  /\ UNCHANGED <<code, amount, supply, eof, status, failed>>
RightKeepsWrite(k) ==
  /\ pc[Main(k + 1)] = "setup"
  /\ Goto(Main(k + 1), IF k + 1 = Stages THEN "run" ELSE "pipe")
  /\ Closes(Main(k + 1), {}, {k - 1})
  /\ UNCHANGED <<code, amount, supply, eof, status, failed>>

\* Close the read end; the write end becomes standard output.  Standard input
\* is that of Main(k): the read end of the pipe before.
LeftSetup(k) ==
  /\ pc[Left(k)] = "setup"
  /\ Goto(Left(k), "run")
  /\ Closes(Left(k), {}, {k})
  /\ UNCHANGED <<code, amount, supply, eof, status, failed>>

\* Close the write end; the read end becomes standard input, in place of the
\* one inherited.
RightSetup(k) ==
  /\ pc[Main(k + 1)] = "setup"
  /\ Goto(Main(k + 1), IF k + 1 = Stages THEN "run" ELSE "pipe")
  /\ Closes(Main(k + 1), {k}, {k - 1})
  /\ UNCHANGED <<code, amount, supply, eof, status, failed>>

-----------------------------------------------------------------------------
(* The commands.  The first one writes its supply, those in the middle     *)
(* pass on what they read, the last one only reads; each may stop at any   *)
(* time, and ends when it reads the end of the file or writes to a pipe    *)
(* that nobody can read any more (SIGPIPE).                                *)

Command == {Left(k) : k \in Pipe} \cup {Last}
Running(p) == p \in Command /\ pc[p] = "run"

\* A command ends by itself, with or without success, or by a signal.
Stops(p) ==
  /\ Running(p)
  /\ \E c \in Code : Ends(p, c)
  /\ UNCHANGED <<amount, supply, eof, status, failed>>

Killed(k) ==
  /\ Running(Left(k)) /\ readers[k] = {}
  /\ IF k = 1 THEN supply # 0 ELSE amount[k - 1] > 0
  /\ Ends(Left(k), "killed")
  /\ UNCHANGED <<amount, supply, eof, status, failed>>

Supplies ==
  /\ Running(Left(1)) /\ readers[1] # {}
  /\ supply # 0 /\ amount[1] < Capacity
  /\ supply' = IF supply = Endless THEN Endless ELSE supply - 1
  /\ amount' = [amount EXCEPT ![1] = @ + 1]
  /\ UNCHANGED <<pc, code, ends, eof, status, failed>>

Passes(k) ==
  /\ k > 1 /\ Running(Left(k)) /\ readers[k] # {}
  /\ amount[k - 1] > 0 /\ amount[k] < Capacity
  /\ amount' = [amount EXCEPT ![k - 1] = @ - 1, ![k] = @ + 1]
  /\ UNCHANGED <<pc, code, ends, supply, eof, status, failed>>

Reads ==
  /\ Running(Last) /\ amount[Stages - 1] > 0
  /\ amount' = [amount EXCEPT ![Stages - 1] = @ - 1]
  /\ UNCHANGED <<pc, code, ends, supply, eof, status, failed>>

\* Nothing more to write, or nothing more to read.
Finishes(p, k) ==
  /\ Running(p) /\ p = (IF k = Stages THEN Last ELSE Left(k))
  /\ IF k = 1
       THEN supply = 0 /\ UNCHANGED eof
       ELSE /\ amount[k - 1] = 0 /\ writers[k - 1] = {}
            /\ eof' = eof \cup {k - 1}
  /\ Ends(p, "success")
  /\ UNCHANGED <<amount, supply, status, failed>>

Works ==
  \/ \E k \in Pipe : Killed(k) \/ Passes(k)
  \/ Supplies \/ Reads
  \/ \E p \in Command, k \in 1 .. Stages : Finishes(p, k)

-----------------------------------------------------------------------------
Next ==
  \/ \E k \in Pipe : ExecutePipe(k) \/ Fails(k) \/ LeftSetup(k) \/ RightSetup(k)
  \/ \E p \in Command : Stops(p)
  \/ Works

Spec == Init /\ [][Next]_vars

\* Every process is scheduled; no system call has to fail and no command has to
\* stop before its time.
FairSpec ==
  /\ Spec
  /\ \A k \in Pipe : WF_vars(ExecutePipe(k)) /\ WF_vars(LeftSetup(k)) /\ WF_vars(RightSetup(k))
  /\ \A k \in Pipe : WF_vars(Killed(k)) /\ WF_vars(Passes(k))
  /\ WF_vars(Supplies) /\ WF_vars(Reads)
  /\ \A p \in Command, k \in 1 .. Stages : WF_vars(Finishes(p, k))

-----------------------------------------------------------------------------
(* Properties.                                                             *)

Ended(p) == pc[p] \in {"over", "end"}
Returned == pc[Main(1)] = "over"

\* A command reads the end of its input only after the command before it has
\* ended: no stream is cut short while its writer still has to write.
EofMeansOver == \A k \in eof : writers[k] = {} /\ Ended(Left(k))

\* When the prompt is back, all processes of the pipeline are gone and the shell
\* holds none of its descriptors, provided no system call failed.
NothingLeft ==
  Returned /\ failed = {} =>
    /\ \A p \in Process \ {Main(1)} : pc[p] = "end"
    /\ \A k \in Pipe : writers[k] = {} /\ readers[k] = {}

\* When the last command has ended so does the pipeline, even if the first one
\* would write for ever: every read end nobody needs is closed, so that SIGPIPE
\* reaches the writers (and every write end, so that the readers see the end).
PipelineReturns == Ended(Last) ~> Returned
=============================================================================
