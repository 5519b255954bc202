------------------------------ MODULE BgLaunch ------------------------------
(***************************************************************************)
(* How `command &' starts a process: BGJobAdapter::runInBackground.        *)
(*                                                                         *)
(* The shell forks a first child, the first child forks the second one     *)
(* (which will run the command), writes its number into a pipe and exits,  *)
(* so that init and not the shell becomes the parent of the command.  The  *)
(* shell reads the number, puts it into the job table and waits for the    *)
(* first child.  SIGCHLD is ignored meanwhile.  The three processes run    *)
(* concurrently; pipe and both forks can fail; Ctrl-C interrupts whatever  *)
(* system call the shell is blocked in (no SA_RESTART).                    *)
(***************************************************************************)
EXTENDS Naturals, FiniteSets

CONSTANTS
  MaxLaunch,   \* bound: number of background commands started
  MaxSigint,   \* bound: number of Ctrl-C that arrive while one is started
  MayFail      \* whether pipe() and fork() can fail

ASSUME BgLaunchAssumption ==
  /\ MaxLaunch \in Nat \ {0}
  /\ MaxSigint \in Nat
  /\ MayFail \in BOOLEAN

Launch == 1 .. MaxLaunch

VARIABLES
  n,          \* the launch under way, or the last one
  shell,      \* where the shell is in runInBackground
  disp,       \* disposition of SIGCHLD in the shell
  oldDisp,    \* old_sigchld
  first,      \* where the first child of each launch is
  second,     \* where the second child of each launch is
  writers,    \* who holds the write end of the launch's pid_pipe
  readers,    \* who holds its read end
  full,       \* the pipe holds the number of the second child
  childPid,   \* child_pid: the shell has read the number
  listed,     \* launches whose command is in the job table
  printed,    \* what the shell printed about each launch
  sigchld,    \* a SIGCHLD the shell will see
  sigints     \* Ctrl-C that have arrived

pipeVars == <<writers, readers, full>>
vars == <<n, shell, disp, oldDisp, first, second, pipeVars,
          childPid, listed, printed, sigchld, sigints>>

Disposition == {"handler", "ignore"}
ShellPc  == {"idle", "pipe", "fork", "close", "read", "list", "wait", "print"}
FirstPc  == {"none", "start", "fork", "write", "close", "exit", "zombie", "gone"}
SecondPc == {"none", "start", "exec", "running", "gone"}
Actor    == {"shell", "first", "second"}

TypeOK ==
  /\ n \in 0 .. MaxLaunch
  /\ shell \in ShellPc
  /\ disp \in Disposition /\ oldDisp \in Disposition
  /\ first \in [Launch -> FirstPc]
  /\ second \in [Launch -> SecondPc]
  /\ writers \in [Launch -> SUBSET Actor]
  /\ readers \in [Launch -> SUBSET Actor]
  /\ full \in [Launch -> BOOLEAN]
  /\ childPid \in BOOLEAN
  /\ listed \subseteq Launch
  /\ printed \in [Launch -> {"nothing", "pid", "unknown", "error"}]
  /\ sigchld \in BOOLEAN
  /\ sigints \in 0 .. MaxSigint

Init ==
  /\ n = 0
  /\ shell = "idle"
  /\ disp = "handler" /\ oldDisp = "handler"
  /\ first = [l \in Launch |-> "none"]
  /\ second = [l \in Launch |-> "none"]
  /\ writers = [l \in Launch |-> {}]
  /\ readers = [l \in Launch |-> {}]
  /\ full = [l \in Launch |-> FALSE]
  /\ childPid = FALSE
  /\ listed = {}
  /\ printed = [l \in Launch |-> "nothing"]
  /\ sigchld = FALSE
  /\ sigints = 0

Closes(who, l, ends) ==
  /\ writers' = IF "write" \in ends THEN [writers EXCEPT ![l] = @ \ {who}] ELSE writers
  /\ readers' = IF "read" \in ends THEN [readers EXCEPT ![l] = @ \ {who}] ELSE readers

-----------------------------------------------------------------------------
(* The shell.                                                              *)

BeginWith(d) ==
  /\ shell = "idle" /\ n < MaxLaunch
  /\ n' = n + 1
  /\ oldDisp' = disp
  /\ disp' = d
  /\ sigchld' = (sigchld /\ d # "ignore")
  /\ childPid' = FALSE
  /\ shell' = "pipe"
  /\ UNCHANGED <<first, second, pipeVars, listed, printed, sigints>>

\* Mutant: SIGCHLD is not ignored.
BeginHandling == BeginWith(disp)

\* Save the handlers and ignore SIGCHLD; a pending SIGCHLD is discarded.
Begin == BeginWith("ignore")

\* Mutant: the handler is not restored.
GiveUpIgnoring ==
  /\ disp' = disp
  /\ printed' = [printed EXCEPT ![n] = "error"]
  /\ shell' = "idle"

\* An early return: the caller reports that the command was not started.
GiveUp ==
  /\ disp' = oldDisp
  /\ printed' = [printed EXCEPT ![n] = "error"]
  /\ shell' = "idle"

MakePipe ==
  /\ shell = "pipe"
  /\ writers' = [writers EXCEPT ![n] = {"shell"}]
  /\ readers' = [readers EXCEPT ![n] = {"shell"}]
  /\ shell' = "fork"
  /\ UNCHANGED <<n, disp, oldDisp, first, second, full, childPid,
                 listed, printed, sigchld, sigints>>

PipeFails ==
  /\ shell = "pipe" /\ MayFail
  /\ GiveUp
  /\ UNCHANGED <<n, oldDisp, first, second, pipeVars, childPid,
                 listed, sigchld, sigints>>

ForkFirst ==
  /\ shell = "fork"
  /\ first' = [first EXCEPT ![n] = "start"]
  /\ writers' = [writers EXCEPT ![n] = @ \cup {"first"}]
  /\ readers' = [readers EXCEPT ![n] = @ \cup {"first"}]
  /\ shell' = "close"
  /\ UNCHANGED <<n, disp, oldDisp, second, full, childPid, listed,
                 printed, sigchld, sigints>>

ForkFirstFails ==
  /\ shell = "fork" /\ MayFail
  /\ Closes("shell", n, {"read", "write"})
  /\ GiveUp
  /\ UNCHANGED <<n, oldDisp, first, second, full, childPid, listed,
                 sigchld, sigints>>

\* Mutant: the shell's own write end stays open.
KeepWriteEnd ==
  /\ shell = "close"
  /\ shell' = "read"
  /\ UNCHANGED <<n, disp, oldDisp, first, second, pipeVars, childPid,
                 listed, printed, sigchld, sigints>>

CloseWriteEnd ==
  /\ shell = "close"
  /\ Closes("shell", n, {"write"})
  /\ shell' = "read"
  /\ UNCHANGED <<n, disp, oldDisp, first, second, full, childPid,
                 listed, printed, sigchld, sigints>>

Readable == full[n] \/ writers[n] = {}

\* read() returns the number, or 0 once nobody can write any more; the read
\* end is closed at once.
ReadPid ==
  /\ shell = "read"
  /\ Readable
  /\ childPid' = full[n]
  /\ full' = [full EXCEPT ![n] = FALSE]
  /\ Closes("shell", n, {"read"})
  /\ shell' = "list"
  /\ UNCHANGED <<n, disp, oldDisp, first, second, listed, printed,
                 sigchld, sigints>>

ListIf(known) ==
  /\ shell = "list"
  /\ listed' = IF known THEN listed \cup {n} ELSE listed
  /\ shell' = "wait"
  /\ UNCHANGED <<n, disp, oldDisp, first, second, pipeVars, childPid,
                 printed, sigchld, sigints>>

\* Mutant: the job is listed whatever the read returned.
ListAlways == ListIf(TRUE)

\* Only a number that was read completely reaches the job table.
ListJob == ListIf(childPid)

FirstIsOver == first[n] \in {"zombie", "gone"}

\* waitpid(pid, &status, 0): the first child, its exit ignored, vanishes by
\* itself, and the call fails then.
WaitFirst ==
  /\ shell = "wait"
  /\ FirstIsOver
  /\ first' = [first EXCEPT ![n] = "gone"]
  /\ disp' = oldDisp
  /\ shell' = "print"
  /\ UNCHANGED <<n, oldDisp, second, pipeVars, childPid, listed,
                 printed, sigchld, sigints>>

PrintJob ==
  /\ shell = "print"
  /\ printed' = [printed EXCEPT ![n] = IF childPid THEN "pid" ELSE "unknown"]
  /\ shell' = "idle"
  /\ UNCHANGED <<n, disp, oldDisp, first, second, pipeVars, childPid,
                 listed, sigchld, sigints>>

\* Ctrl-C: the handler runs; a blocked read() or waitpid() fails with EINTR,
\* and neither is tried again.
Sigint ==
  /\ sigints < MaxSigint
  /\ shell # "idle"
  /\ sigints' = sigints + 1
  /\ CASE shell = "read" /\ ~ Readable ->
            /\ shell' = "list"
            /\ Closes("shell", n, {"read"})
            /\ UNCHANGED disp
       [] shell = "wait" /\ ~ FirstIsOver ->
            /\ shell' = "print"
            /\ disp' = oldDisp
            /\ UNCHANGED <<writers, readers>>
       [] OTHER -> UNCHANGED <<shell, disp, writers, readers>>
  /\ UNCHANGED <<n, oldDisp, first, second, full, childPid, listed,
                 printed, sigchld>>

Shell ==
  \/ MakePipe \/ PipeFails \/ ForkFirst \/ ForkFirstFails
  \/ CloseWriteEnd \/ ReadPid \/ ListJob \/ WaitFirst \/ PrintJob

-----------------------------------------------------------------------------
(* The first child.                                                        *)

FirstStarts(l) ==
  /\ first[l] = "start"
  /\ Closes("first", l, {"read"})
  /\ first' = [first EXCEPT ![l] = "fork"]
  /\ UNCHANGED <<n, shell, disp, oldDisp, second, full, childPid,
                 listed, printed, sigchld, sigints>>

\* The second child gets the write end too.
ForkSecond(l) ==
  /\ first[l] = "fork"
  /\ second' = [second EXCEPT ![l] = "start"]
  /\ writers' = [writers EXCEPT ![l] = @ \cup {"second"}]
  /\ first' = [first EXCEPT ![l] = "write"]
  /\ UNCHANGED <<n, shell, disp, oldDisp, readers, full, childPid,
                 listed, printed, sigchld, sigints>>

ForkSecondFails(l) ==
  /\ first[l] = "fork" /\ MayFail
  /\ first' = [first EXCEPT ![l] = "close"]
  /\ UNCHANGED <<n, shell, disp, oldDisp, second, pipeVars,
                 childPid, listed, printed, sigchld, sigints>>

\* When the shell has given up reading, SIGPIPE kills the child here; the
\* kernel closes its descriptors as the child would have done.
WritePid(l) ==
  /\ first[l] = "write"
  /\ full' = [full EXCEPT ![l] = readers[l] # {}]
  /\ first' = [first EXCEPT ![l] = "close"]
  /\ UNCHANGED <<n, shell, disp, oldDisp, second, writers, readers,
                 childPid, listed, printed, sigchld, sigints>>

FirstCloses(l) ==
  /\ first[l] = "close"
  /\ Closes("first", l, {"write"})
  /\ first' = [first EXCEPT ![l] = "exit"]
  /\ UNCHANGED <<n, shell, disp, oldDisp, second, full, childPid,
                 listed, printed, sigchld, sigints>>

\* _exit: with SIGCHLD ignored no zombie remains and no signal is sent.
FirstExits(l) ==
  /\ first[l] = "exit"
  /\ first' = [first EXCEPT ![l] = IF disp = "ignore" THEN "gone" ELSE "zombie"]
  /\ sigchld' = (sigchld \/ disp = "handler")
  /\ UNCHANGED <<n, shell, disp, oldDisp, second, pipeVars,
                 childPid, listed, printed, sigints>>

First(l) ==
  \/ FirstStarts(l) \/ ForkSecond(l) \/ ForkSecondFails(l)
  \/ WritePid(l) \/ FirstCloses(l) \/ FirstExits(l)

-----------------------------------------------------------------------------
(* The second child: close the pipe, forkchild_bg, redirect, execvp; the   *)
(* command, or a failed execvp, ends at any time after that.               *)

SecondCloses(l) ==
  /\ second[l] = "start"
  /\ Closes("second", l, {"write"})
  /\ second' = [second EXCEPT ![l] = "exec"]
  /\ UNCHANGED <<n, shell, disp, oldDisp, first, full, childPid,
                 listed, printed, sigchld, sigints>>

Exec(l) ==
  /\ second[l] = "exec"
  /\ second' = [second EXCEPT ![l] = "running"]
  /\ UNCHANGED <<n, shell, disp, oldDisp, first, pipeVars,
                 childPid, listed, printed, sigchld, sigints>>

CommandEnds(l) ==
  /\ second[l] \in {"exec", "running"}
  /\ second' = [second EXCEPT ![l] = "gone"]
  /\ UNCHANGED <<n, shell, disp, oldDisp, first, pipeVars,
                 childPid, listed, printed, sigchld, sigints>>

Second(l) == SecondCloses(l) \/ Exec(l)

-----------------------------------------------------------------------------
Next ==
  \/ Begin \/ Shell \/ Sigint
  \/ \E l \in Launch : First(l) \/ Second(l) \/ CommandEnds(l)

Spec == Init /\ [][Next]_vars

\* The kernel schedules the three processes; commands need not end, and
\* nobody has to press Ctrl-C or to type a command.
FairSpec ==
  /\ Spec
  /\ WF_vars(Shell)
  /\ \A l \in Launch : WF_vars(First(l)) /\ WF_vars(Second(l))

-----------------------------------------------------------------------------
(* Properties.                                                             *)

\* A background command that was started is in the job table when the prompt
\* returns, but for one for each Ctrl-C that interrupted the shell's read.
Unlisted == {l \in Launch : second[l] # "none" /\ l \notin listed}
StartedIsListed == shell = "idle" => Cardinality(Unlisted) <= sigints

\* The job table lists the launches that started a process and no other, and
\* what is printed agrees with it: a number exactly for the launches it lists
\* (a failed second fork must not leave a phantom job).
ListedIsReal ==
  /\ \A l \in listed : second[l] # "none"
  /\ \A l \in Launch : printed[l] = "pid" => l \in listed
  /\ \A l \in Launch : printed[l] \in {"unknown", "error"} => l \notin listed
  /\ StartedIsListed

\* Whatever failed or interrupted the launch, the shell is left as it was: its
\* SIGCHLD handler is installed and it holds no end of the pipe.
ShellRestored ==
  shell = "idle" =>
    /\ disp = "handler"
    /\ \A l \in Launch : "shell" \notin writers[l] \cup readers[l]

\* "double fork ... avoids zombies": between two commands no first child is
\* alive or a zombie, and none has raised a SIGCHLD, but for one for each Ctrl-C
\* that interrupted the shell's waitpid.
Strays == {l \in Launch : first[l] \notin {"none", "gone"}}
NoStrayChild ==
  shell = "idle" => Cardinality(Strays) <= sigints /\ (sigchld => sigints > 0)

\* The prompt always comes back, even when a fork fails after the pipe was made
\* (end of file in the pipe is what ends the read).
LaunchReturns == shell # "idle" ~> shell = "idle"

=============================================================================
