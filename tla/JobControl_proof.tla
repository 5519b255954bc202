--------------------------- MODULE JobControl_proof --------------------------
(***************************************************************************)
(* Theorems about JobControl and their proofs.                             *)
(***************************************************************************)
EXTENDS JobControl, TLAPS

-----------------------------------------------------------------------------
(* Types.  The two helpers nearly every action uses come first.            *)

USE DEF JobId, NoJob, Status, Life, Command

\* StatusOf always yields a status.
LEMMA StatusOfType ==
  ASSUME NEW P, NEW comp, NEW halt
  PROVE  StatusOf(P, comp, halt) \in Status
BY DEF StatusOf, IsCompleted, IsStopped

\* Initially every variable has its type.
LEMMA InitType == Init => TypeOK
<1> SUFFICES ASSUME Init PROVE TypeOK
  OBVIOUS
<1> USE JobControlAssumption DEF Init
<1>1. /\ proc \in [Pid -> Life] /\ seen \subseteq Pid /\ sigchld \in BOOLEAN
      /\ procs \in [JobId -> SUBSET Pid]
      /\ status \in [JobId -> Status]
  OBVIOUS
<1>2. nextJobId \in 1 .. MaxJobs + 1
  OBVIOUS
<1>3. arg \in [op : {"none", "jobs", "prompt", "fg", "wait"},
               job : JobId \cup {NoJob}, running : BOOLEAN, stopped : BOOLEAN]
  BY DEF NoArg
<1>4. last \in [cmd : Command, job : JobId \cup {NoJob}, ok : BOOLEAN]
  BY DEF NoCmd
<1>5. /\ notified \in [JobId -> BOOLEAN]
      /\ told \in [JobId -> Status \cup {"nothing"}]
  OBVIOUS
<1> QED BY <1>1, <1>2, <1>3, <1>4, <1>5 DEF TypeOK

\* The parts of TypeOK, to be carried over a step one by one.
KernelOK == proc \in [Pid -> Life] /\ seen \subseteq Pid /\ sigchld \in BOOLEAN
FlagsOK  == completed \subseteq Pid /\ stopped \subseteq Pid /\ status \in [JobId -> Status]
TableOK  ==
  /\ table \subseteq JobId
  /\ procs \in [JobId -> SUBSET Pid]
  /\ notified \in [JobId -> BOOLEAN]
  /\ nextJobId \in 1 .. MaxJobs + 1
  /\ currentJobId \in JobId \cup {NoJob}
ToldOK == told \in [JobId -> Status \cup {"nothing"}]
CallOK ==
  /\ pc \in {"idle", "reap", "probe", "refresh", "fg", "wait", "exited"}
  /\ todo \subseteq JobId
  /\ arg \in [op : {"none", "jobs", "prompt", "fg", "wait"},
              job : JobId \cup {NoJob}, running : BOOLEAN, stopped : BOOLEAN]
  /\ last \in [cmd : Command, job : JobId \cup {NoJob}, ok : BOOLEAN]

\* TypeOK is the conjunction of its parts, before and after a step.
LEMMA TypeParts ==
  /\ TypeOK <=> KernelOK /\ FlagsOK /\ TableOK /\ ToldOK /\ CallOK
  /\ TypeOK' <=> KernelOK' /\ FlagsOK' /\ TableOK' /\ ToldOK' /\ CallOK'
BY DEF TypeOK, KernelOK, FlagsOK, TableOK, ToldOK, CallOK

\* A call that returns leaves a well-typed program counter behind.
LEMMA ReturnsType ==
  ASSUME CallOK, NEW cmd \in Command, NEW j \in JobId \cup {NoJob}, NEW ok \in BOOLEAN,
         Returns(cmd, j, ok), todo' = todo
  PROVE  CallOK'
<1>1. arg' \in [op : {"none", "jobs", "prompt", "fg", "wait"},
                job : JobId \cup {NoJob}, running : BOOLEAN, stopped : BOOLEAN]
  BY DEF Returns, NoArg
<1>2. last' \in [cmd : Command, job : JobId \cup {NoJob}, ok : BOOLEAN]
  BY DEF Returns
<1> QED BY <1>1, <1>2 DEF CallOK, Returns

\* Waiting on a set of processes keeps the kernel's part typed.
LEMMA WaitOnType ==
  ASSUME KernelOK, NEW S \in SUBSET Pid, WaitOn(S), sigchld' = sigchld
  PROVE  KernelOK'
BY DEF KernelOK, WaitOn

\* Job::updateStatus keeps the kernel's part and the flags typed.
LEMMA UpdateJobType ==
  ASSUME KernelOK, FlagsOK, TableOK, NEW j \in JobId,
         NEW comp \in SUBSET Pid, NEW halt \in SUBSET Pid, NEW waited \in SUBSET Pid,
         UpdateJob(j, comp, halt, waited), sigchld' = sigchld
  PROVE  KernelOK' /\ FlagsOK'
<1>1. procs[j] \subseteq Pid
  BY DEF TableOK
<1>2. KernelOK'
  <2>1. WaitOn((procs[j] \ comp) \cup waited)
    BY DEF UpdateJob
  <2> QED BY <1>1, <2>1, WaitOnType
<1>3. completed' \subseteq Pid /\ stopped' \subseteq Pid
  BY <1>1 DEF UpdateJob, FlagsOK
<1>4. status' \in [JobId -> Status]
  BY StatusOfType DEF UpdateJob, FlagsOK
<1> QED BY <1>2, <1>3, <1>4 DEF FlagsOK

\* Steps of the kernel and of init.
LEMMA KernelType == ASSUME TypeOK, Kernel PROVE TypeOK'
<1>1. PICK p \in Pid : Exit(p) \/ Stop(p) \/ Continue(p) \/ InitReaps(p) \/ ReusePid(p)
  BY DEF Kernel
<1>2. UNCHANGED <<tableVars, shellVars>>
  BY <1>1 DEF Exit, Stop, Continue, InitReaps, ReusePid
<1>3. KernelOK'
  BY <1>1, TypeParts, JobControlAssumption
     DEF Exit, Stop, Continue, InitReaps, ReusePid, Becomes, Signals, KernelOK
<1>4. FlagsOK' /\ TableOK' /\ ToldOK' /\ CallOK'
  BY <1>2, TypeParts DEF tableVars, shellVars, FlagsOK, TableOK, ToldOK, CallOK
<1> QED BY <1>3, <1>4, TypeParts

\* command &.
LEMMA LaunchType == ASSUME TypeOK, NEW P \in Group, Launch(P) PROVE TypeOK'
<1> USE JobControlAssumption DEF Launch, LaunchAs
<1>1. nextJobId \in JobId /\ nextJobId + 1 \in 1 .. MaxJobs + 1 /\ P \subseteq Pid
  BY DEF TypeOK
<1>2. KernelOK' /\ FlagsOK' /\ ToldOK'
  BY <1>1, TypeParts DEF KernelOK, FlagsOK, ToldOK
<1>3. TableOK'
  BY <1>1, TypeParts DEF TableOK
<1>4. CallOK'
  BY <1>1, TypeParts, ReturnsType
<1> QED BY <1>2, <1>3, <1>4, TypeParts

\* The beginning of jobs and of the check before a prompt.
LEMMA StartType ==
  ASSUME TypeOK,
         \/ \E running, halted \in BOOLEAN : JobsStart(running, halted)
         \/ PromptStart
  PROVE  TypeOK'
<1>1. CASE \E running, halted \in BOOLEAN : JobsStart(running, halted)
  <2>1. PICK running, halted \in BOOLEAN : JobsStart(running, halted)
    BY <1>1
  <2>2. KernelOK' /\ FlagsOK' /\ TableOK' /\ ToldOK'
    BY <2>1, TypeParts
       DEF JobsStart, kernelVars, tableVars, KernelOK, FlagsOK, TableOK, ToldOK
  <2>3. CallOK'
    BY <2>1, TypeParts DEF JobsStart, NoCmd, CallOK
  <2> QED BY <2>2, <2>3, TypeParts
<1>2. CASE PromptStart
  <2>1. KernelOK' /\ FlagsOK' /\ TableOK' /\ ToldOK'
    BY <1>2, TypeParts DEF PromptStart, tableVars, KernelOK, FlagsOK, TableOK, ToldOK
  <2>2. CallOK'
    BY <1>2, TypeParts DEF PromptStart, NoArg, CallOK
  <2> QED BY <2>1, <2>2, TypeParts
<1> QED BY <1>1, <1>2

\* The three loops of updateStatus and showJobs.
LEMMA UpdateType ==
  ASSUME TypeOK,
         \/ \E p \in Pid : Reap(p)
         \/ \E j \in JobId : Probe(j) \/ Refresh(j)
         \/ ReapDone \/ ShowStart
  PROVE  TypeOK'
<1>1. CASE \E p \in Pid : Reap(p)
  <2>1. PICK p \in Pid : Reap(p)
    BY <1>1
  <2>2. WithExit(p) \subseteq Pid /\ WithStop(p) \subseteq Pid
    BY TypeParts DEF WithExit, WithStop, FlagsOK
  <2>3. ToldOK' /\ CallOK'
    BY <2>1, TypeParts DEF Reap, shellVars, ToldOK, CallOK
  <2>4. CASE \E j \in table : p \in procs[j]
    <3>1. PICK j \in table : /\ UpdateJob(j, WithExit(p), WithStop(p), {p})
                             /\ notified' = NotifiedAfter(j, status'[j])
      BY <2>1, <2>4 DEF Reap
    <3>2. KernelOK' /\ FlagsOK'
      BY <2>1, <2>2, <3>1, TypeParts, UpdateJobType DEF Reap, TableOK
    <3>3. TableOK'
      BY <2>1, <3>1, TypeParts DEF Reap, NotifiedAfter, TableOK
    <3> QED BY <2>3, <3>2, <3>3, TypeParts
  <2>5. CASE ~ \E j \in table : p \in procs[j]
    <3>1. WaitOn({p}) /\ UNCHANGED <<completed, stopped, status, notified>>
      BY <2>1, <2>5 DEF Reap
    <3>2. KernelOK'
      BY <2>1, <3>1, TypeParts, WaitOnType DEF Reap
    <3>3. FlagsOK' /\ TableOK'
      BY <2>1, <3>1, TypeParts DEF Reap, FlagsOK, TableOK
    <3> QED BY <2>3, <3>2, <3>3, TypeParts
  <2> QED BY <2>4, <2>5
<1>2. ASSUME NEW j \in JobId, Probe(j)
      PROVE  TypeOK'
  <2>1. TableOK' /\ ToldOK' /\ CallOK'
    BY <1>2, TypeParts DEF Probe, TableOK, ToldOK, CallOK
  <2> DEFINE comp == completed \cup {p \in procs[j] \ completed : ~ Exists(p)}
  <2>2. comp \subseteq Pid
    BY TypeParts DEF FlagsOK, TableOK
  <2>3. CASE UpdateJob(j, comp, stopped, {})
    <3>1. stopped \subseteq Pid /\ {} \subseteq Pid /\ sigchld' = sigchld
      BY <1>2, TypeParts DEF FlagsOK, Probe
    <3>2. KernelOK' /\ FlagsOK'
      BY <2>2, <2>3, <3>1, TypeParts, UpdateJobType
    <3> QED BY <2>1, <3>2, TypeParts
  <2>4. CASE completed' \in {completed, comp} /\ UNCHANGED <<proc, seen, stopped, status>>
    <3>1. KernelOK' /\ FlagsOK'
      BY <1>2, <2>2, <2>4, TypeParts DEF Probe, KernelOK, FlagsOK
    <3> QED BY <2>1, <3>1, TypeParts
  <2> QED BY <1>2, <2>3, <2>4 DEF Probe
<1>3. ASSUME NEW j \in JobId, Refresh(j)
      PROVE  TypeOK'
  <2>1. TableOK' /\ ToldOK' /\ CallOK'
    BY <1>3, TypeParts DEF Refresh, TableOK, ToldOK, CallOK
  <2>2. KernelOK' /\ FlagsOK'
    <3>1. completed \subseteq Pid /\ stopped \subseteq Pid
      BY TypeParts DEF FlagsOK
    <3> QED BY <1>3, <3>1, TypeParts, UpdateJobType DEF Refresh
  <2> QED BY <2>1, <2>2, TypeParts
<1>4. CASE ReapDone \/ ShowStart
  <2>1. KernelOK' /\ FlagsOK' /\ TableOK' /\ ToldOK'
    BY <1>4, TypeParts
       DEF ReapDone, ShowStart, kernelVars, tableVars, KernelOK, FlagsOK, TableOK, ToldOK
  <2>2. CallOK'
    BY <1>4, TypeParts DEF ReapDone, ShowStart, TableOK, CallOK
  <2> QED BY <2>1, <2>2, TypeParts
<1> QED BY <1>1, <1>2, <1>3, <1>4

\* The ends of jobs and of the check before a prompt.
LEMMA NotifyType ==
  ASSUME TypeOK, ShowAll \/ PromptNotify
  PROVE  TypeOK'
<1>1. PICK S \in SUBSET table : NotifyAndClean(S)
  BY DEF ShowAll, PromptNotify
<1>2. UNCHANGED <<kernelVars, procs, status, completed, stopped, nextJobId,
                  currentJobId, todo>>
  BY DEF ShowAll, PromptNotify
<1>3. KernelOK' /\ FlagsOK'
  BY <1>2, TypeParts DEF kernelVars, KernelOK, FlagsOK
<1>4. notified' \in [JobId -> BOOLEAN]
  BY <1>1, TypeParts DEF NotifyAndClean, TableOK
<1>5. table' \subseteq JobId
  BY <1>1, TypeParts DEF NotifyAndClean, Kept, TableOK
<1>6. TableOK'
  BY <1>2, <1>4, <1>5, TypeParts DEF TableOK
<1>7. ToldOK'
  BY <1>1, TypeParts DEF NotifyAndClean, Tell, ToldOK, FlagsOK
<1>8. CallOK'
  <2>1. CASE ShowAll
    BY <2>1, TypeParts, ReturnsType DEF ShowAll
  <2>2. CASE PromptNotify
    BY <2>2, TypeParts DEF PromptNotify, NoArg, CallOK
  <2> QED BY <2>1, <2>2
<1> QED BY <1>3, <1>6, <1>7, <1>8, TypeParts

\* Resuming a job, as fg and bg do.
LEMMA ResumeType ==
  ASSUME TypeOK, NEW j \in JobId, Resume(j), completed' = completed
  PROVE  KernelOK' /\ FlagsOK'
<1>1. CASE ResumeAlways(j)
  <2>1. KernelOK'
    BY <1>1, TypeParts DEF ResumeAlways, KernelOK
  <2>2. FlagsOK'
    BY <1>1, TypeParts DEF ResumeAlways, FlagsOK
  <2> QED BY <2>1, <2>2
<1>2. CASE UNCHANGED <<kernelVars, stopped, status>>
  BY <1>2, TypeParts DEF kernelVars, KernelOK, FlagsOK
<1> QED BY <1>1, <1>2 DEF Resume

\* fg, bg, wait, exit and Ctrl-D as they are entered.
LEMMA BuiltinType == ASSUME TypeOK, Builtin PROVE TypeOK'
<1>1. ASSUME NEW cmd \in {"fg", "bg", "wait"}, NEW j \in JobId,
             Refuse(cmd, j) \/ NoSuchJob(cmd, j)
      PROVE  TypeOK'
  <2>1. KernelOK' /\ FlagsOK' /\ TableOK' /\ ToldOK'
    BY <1>1, TypeParts DEF Refuse, NoSuchJob, kernelVars, tableVars,
                           KernelOK, FlagsOK, TableOK, ToldOK
  <2>2. CallOK'
    BY <1>1, TypeParts, ReturnsType DEF Refuse, NoSuchJob
  <2> QED BY <2>1, <2>2, TypeParts
<1>2. ASSUME NEW j \in JobId, FgStart(j) \/ Bg(j)
      PROVE  TypeOK'
  <2>1. KernelOK' /\ FlagsOK'
    BY <1>2, ResumeType DEF FgStart, Bg
  <2>2. TableOK' /\ ToldOK'
    BY <1>2, TypeParts DEF FgStart, Bg, TableOK, ToldOK
  <2>3. CASE FgStart(j)
    <3>1. CallOK'
      BY <2>3, TypeParts DEF FgStart, NoArg, NoCmd, CallOK
    <3> QED BY <2>1, <2>2, <3>1, TypeParts
  <2>4. CASE Bg(j)
    <3>1. CallOK'
      BY <2>4, TypeParts, ReturnsType DEF Bg
    <3> QED BY <2>1, <2>2, <3>1, TypeParts
  <2> QED BY <1>2, <2>3, <2>4
<1>3. ASSUME NEW j \in JobId, WaitStart(j)
      PROVE  TypeOK'
  <2>1. KernelOK' /\ FlagsOK' /\ TableOK' /\ ToldOK'
    BY <1>3, TypeParts DEF WaitStart, kernelVars, tableVars,
                           KernelOK, FlagsOK, TableOK, ToldOK
  <2>2. CallOK'
    BY <1>3, TypeParts DEF WaitStart, NoArg, NoCmd, CallOK
  <2> QED BY <2>1, <2>2, TypeParts
<1>4. CASE ExitRefused
  <2>1. KernelOK' /\ FlagsOK' /\ TableOK' /\ ToldOK'
    BY <1>4, TypeParts DEF ExitRefused, kernelVars, tableVars,
                           KernelOK, FlagsOK, TableOK, ToldOK
  <2>2. CallOK'
    BY <1>4, TypeParts, ReturnsType DEF ExitRefused
  <2> QED BY <2>1, <2>2, TypeParts
<1>5. ASSUME NEW cmd \in {"exit", "eof"}, Leave(cmd)
      PROVE  TypeOK'
  <2>1. KernelOK' /\ FlagsOK' /\ TableOK' /\ ToldOK'
    BY <1>5, TypeParts DEF Leave, kernelVars, tableVars,
                           KernelOK, FlagsOK, TableOK, ToldOK
  <2>2. CallOK'
    BY <1>5, TypeParts DEF Leave, CallOK
  <2> QED BY <2>1, <2>2, TypeParts
<1> QED BY <1>1, <1>2, <1>3, <1>4, <1>5 DEF Builtin, ExitGranted, Eof

\* The loops of fg and wait.
LEMMA WaitingType ==
  ASSUME TypeOK,
         \/ \E p \in Pid : FgWait(p)
         \/ FgNoChild \/ WaitPoll \/ WaitDone,
         arg.job \in JobId
  PROVE  TypeOK'
<1> DEFINE j == arg.job
<1>1. ASSUME NEW comp, NEW halt, FgFinish(j, comp, halt), todo' = todo,
             comp \subseteq Pid, halt \subseteq Pid, completed' = comp, stopped' = halt
      PROVE  FlagsOK' /\ ToldOK' /\ CallOK'
  <2>1. StatusAfterFg(j, comp, halt) \in Status
    BY TypeParts, StatusOfType DEF StatusAfterFg, FlagsOK
  <2>2. FlagsOK' /\ ToldOK'
    BY <1>1, <2>1, TypeParts DEF FgFinish, FlagsOK, ToldOK
  <2>3. CallOK'
    BY <1>1, TypeParts, ReturnsType DEF FgFinish
  <2> QED BY <2>2, <2>3
<1>2. ASSUME NEW p \in Pid, FgWait(p)
      PROVE  TypeOK'
  <2>1. KernelOK' /\ TableOK'
    <3>1. WaitOn({p}) /\ sigchld' = sigchld
      BY <1>2 DEF FgWait
    <3>2. KernelOK'
      BY <3>1, TypeParts, WaitOnType
    <3> QED BY <1>2, <3>2, TypeParts DEF FgWait, TableOK
  <2>2. WithExit(p) \subseteq Pid /\ WithStop(p) \subseteq Pid
    BY TypeParts DEF WithExit, WithStop, FlagsOK
  <2>3. completed' = WithExit(p) /\ stopped' = WithStop(p) /\ todo' = todo
    BY <1>2 DEF FgWait
  <2>4. CASE FgFinish(j, WithExit(p), WithStop(p))
    BY <1>1, <2>1, <2>2, <2>3, <2>4, TypeParts
  <2>5. CASE UNCHANGED <<status, told, pc, arg, last>>
    <3>1. FlagsOK' /\ ToldOK' /\ CallOK'
      BY <2>2, <2>3, <2>5, TypeParts DEF FlagsOK, ToldOK, CallOK
    <3> QED BY <2>1, <3>1, TypeParts
  <2> QED BY <1>2, <2>4, <2>5 DEF FgWait
<1>3. CASE FgNoChild
  <2>1. KernelOK' /\ TableOK'
    BY <1>3, TypeParts DEF FgNoChild, kernelVars, KernelOK, TableOK
  <2>2. FlagsOK' /\ ToldOK' /\ CallOK'
    BY <1>1, <1>3, TypeParts DEF FgNoChild, FlagsOK
  <2> QED BY <2>1, <2>2, TypeParts
<1>4. CASE WaitPoll
  <2>1. KernelOK' /\ FlagsOK'
    <3>1. completed \subseteq Pid /\ stopped \subseteq Pid
      BY TypeParts DEF FlagsOK
    <3> QED BY <1>4, <3>1, TypeParts, UpdateJobType DEF WaitPoll
  <2>2. TableOK' /\ ToldOK' /\ CallOK'
    BY <1>4, TypeParts DEF WaitPoll, shellVars, TableOK, ToldOK, CallOK
  <2> QED BY <2>1, <2>2, TypeParts
<1>5. CASE WaitDone
  <2>1. KernelOK' /\ FlagsOK' /\ TableOK'
    BY <1>5, TypeParts DEF WaitDone, kernelVars, tableVars, KernelOK, FlagsOK, TableOK
  <2>2. ToldOK'
    BY <1>5, TypeParts DEF WaitDone, FlagsOK, ToldOK
  <2>3. CallOK'
    BY <1>5, TypeParts, ReturnsType DEF WaitDone
  <2> QED BY <2>1, <2>2, <2>3, TypeParts
<1> QED BY <1>2, <1>3, <1>4, <1>5

-----------------------------------------------------------------------------
(* The inductive invariant.  LiveTracked and NoFalseCompletion are not      *)
(* inductive: that a job held to be done may be erased without losing a     *)
(* process needs DoneIsCompleted, that a failed waitpid and a failed kill   *)
(* mean the process is gone needs LaunchedOnly, and that a new job takes no *)
(* other's place needs IdsAreOpened.                                        *)

Opened == {j \in JobId : j < nextJobId}

\* Every job the table, a loop or a built-in refers to was added.
IdsAreOpened ==
  /\ table \subseteq Opened
  /\ todo \subseteq Opened
  /\ pc \in {"fg", "wait"} => arg.job \in Opened

\* The processes of jobs were started.
LaunchedOnly == \A j \in JobId : \A p \in procs[j] : Launched(p)

\* A job is held to be done only on account of its processes.
DoneIsCompleted ==
  \A j \in JobId : status[j] = "DONE" => j \in Opened /\ procs[j] \subseteq completed

IInv ==
  /\ TypeOK
  /\ IdsAreOpened
  /\ LaunchedOnly
  /\ DoneIsCompleted
  /\ NoFalseCompletion
  /\ LiveTracked
  /\ SafeExit

\* Initially nothing was added.
LEMMA InitIInv == Init => IInv
<1> SUFFICES ASSUME Init PROVE IInv
  OBVIOUS
<1>1. TypeOK
  BY InitType
<1>2. IdsAreOpened /\ LaunchedOnly /\ DoneIsCompleted
  BY DEF Init, IdsAreOpened, LaunchedOnly, DoneIsCompleted
<1>3. NoFalseCompletion /\ LiveTracked
  BY DEF Init, NoFalseCompletion, LiveTracked
<1>4. SafeExit
  BY DEF Init, SafeExit
<1> QED BY <1>1, <1>2, <1>3, <1>4 DEF IInv

\* No process comes back: one that is gone stays gone, and only launching
\* starts one.
Onward ==
  \A p \in Pid :
    /\ proc[p] \in Gone => proc'[p] \in Gone
    /\ proc[p] = "unborn" <=> proc'[p] = "unborn"

\* What DoneIsFinal says of a step.
DoneStays ==
  /\ \A j \in JobId : status[j] = "DONE" => status'[j] = "DONE"
  /\ \A j \in JobId : j < nextJobId => procs'[j] = procs[j]
  /\ table' \subseteq table \cup {nextJobId}

\* A step that takes no process for gone that is not, and erases no job that
\* is not done, loses track of nothing.
LEMMA Preserved ==
  ASSUME IInv, TypeOK', IdsAreOpened', Onward, NoFalseCompletion',
         procs' = procs, nextJobId' = nextJobId,
         completed \subseteq completed',
         \A i \in JobId : status'[i] = "DONE" =>
           status[i] = "DONE" \/ (i \in Opened /\ procs[i] \subseteq completed'),
         \A i \in JobId : status[i] = "DONE" => status'[i] = "DONE",
         table' \subseteq table,
         \A i \in table \ table' : status[i] = "DONE",
         pc' # "exited" \/ UNCHANGED <<pc, last>>
  PROVE  IInv' /\ DoneStays
<1>1. LaunchedOnly'
  BY DEF IInv, TypeOK, LaunchedOnly, Launched, Onward
<1>2. DoneIsCompleted'
  BY DEF IInv, DoneIsCompleted, Opened
<1>3. LiveTracked'
  <2> SUFFICES ASSUME NEW p \in Pid \ Foreign,
                      proc'[p] \in {"running", "stopped", "zombie"}
               PROVE  \E j \in table' : p \in procs'[j] /\ status'[j] # "DONE"
    BY DEF LiveTracked
  <2>1. proc[p] \in {"running", "stopped", "zombie"}
    BY DEF Onward, Gone, IInv, TypeOK
  <2>2. PICK j \in table : p \in procs[j] /\ status[j] # "DONE"
    BY <2>1 DEF IInv, LiveTracked
  <2>3. j \in table' /\ j \in JobId
    BY <2>2 DEF IInv, TypeOK
  <2>4. p \notin completed'
    BY DEF NoFalseCompletion, Gone
  <2> QED BY <2>2, <2>3, <2>4
<1>4. SafeExit'
  <2>1. CASE pc' # "exited"
    BY <2>1 DEF SafeExit
  <2>2. CASE UNCHANGED <<pc, last>>
    BY <2>2 DEF SafeExit, IInv, Onward
  <2> QED BY <2>1, <2>2
<1>5. DoneStays
  BY DEF DoneStays
<1> QED BY <1>1, <1>2, <1>3, <1>4, <1>5 DEF IInv

\* waitpid turns zombies into dead processes and nothing else.
LEMMA WaitOnOnward ==
  ASSUME TypeOK, NEW S \in SUBSET Pid, WaitOn(S)
  PROVE  Onward /\ \A p \in S : Exited(p) => proc'[p] = "dead"
BY DEF TypeOK, WaitOn, Exited, Onward, Gone

\* StatusOf answers DONE for completed processes only.
LEMMA StatusOfDone ==
  ASSUME NEW P, NEW comp, NEW halt
  PROVE  StatusOf(P, comp, halt) = "DONE" <=> P \subseteq comp
<1>1. CASE P \subseteq comp
  <2>1. StatusOf(P, comp, halt) = "DONE"
    BY <1>1 DEF StatusOf, IsCompleted, IsStopped
  <2> QED BY <1>1, <2>1
<1>2. CASE ~ (P \subseteq comp) /\ P \subseteq comp \cup halt
  <2>1. StatusOf(P, comp, halt) = "STOPPED"
    BY <1>2 DEF StatusOf, IsCompleted, IsStopped
  <2> QED BY <1>2, <2>1
<1>3. CASE ~ (P \subseteq comp \cup halt)
  <2>1. StatusOf(P, comp, halt) = "RUNNING"
    BY <1>3 DEF StatusOf, IsCompleted, IsStopped
  <2> QED BY <1>3, <2>1
<1> QED BY <1>1, <1>2, <1>3

\* Job::updateStatus concludes only what is true: of a launched process that
\* is no child, or no longer one, and that kill does not find, it may say that
\* it is over; a child it waited for itself.
LEMMA UpdateJobLearns ==
  ASSUME IInv, NEW j \in Opened,
         NEW comp \in SUBSET Pid, NEW halt \in SUBSET Pid, NEW waited \in SUBSET Pid,
         completed \subseteq comp,
         \A p \in comp \ Foreign : proc[p] \in Gone \/ (Exited(p) /\ p \in waited),
         UpdateJob(j, comp, halt, waited)
  PROVE  /\ Onward /\ NoFalseCompletion'
         /\ completed \subseteq completed'
         /\ \A i \in JobId : status'[i] = "DONE" =>
              status[i] = "DONE" \/ (i \in Opened /\ procs[i] \subseteq completed')
         /\ \A i \in JobId : status[i] = "DONE" => status'[i] = "DONE"
<1> DEFINE polled == procs[j] \ comp
<1>1. j \in JobId /\ procs[j] \in SUBSET Pid /\ TypeOK
  BY DEF Opened, IInv, TypeOK
<1>2. WaitOn(polled \cup waited)
  BY DEF UpdateJob
<1>3. Onward /\ \A p \in polled \cup waited : Exited(p) => proc'[p] = "dead"
  <2>1. polled \cup waited \in SUBSET Pid
    BY <1>1
  <2> QED BY <1>1, <1>2, <2>1, WaitOnOnward
<1>4. completed' = comp \cup {p \in polled : FoundOver(p)}
  BY DEF UpdateJob
<1>5. NoFalseCompletion'
  <2> SUFFICES ASSUME NEW p \in completed' \ Foreign PROVE proc'[p] \in Gone
    BY DEF NoFalseCompletion
  <2>1. p \in Pid
    BY <1>1, <1>4
  <2>2. CASE p \in comp
    BY <1>3, <2>1, <2>2 DEF Onward, Gone
  <2>3. CASE p \in polled /\ FoundOver(p)
    <3>1. CASE Exited(p)
      BY <1>3, <2>3, <3>1 DEF Gone
    <3>2. CASE ~ Answers(p)
      <4>1. proc[p] \in {"unborn", "dead"}
        BY <3>2 DEF Answers, Exists
      <4>2. proc[p] # "unborn"
        BY <1>1, <2>3 DEF IInv, LaunchedOnly, Launched
      <4> QED BY <1>3, <2>1, <4>1, <4>2 DEF Onward, Gone
    <3> QED BY <2>3, <3>1, <3>2 DEF FoundOver
  <2> QED BY <1>4, <2>2, <2>3
<1>6. completed \subseteq completed'
  BY <1>4
<1>7. PICK held : status' = [status EXCEPT ![j] = StatusOf(procs[j], completed', held)]
  BY DEF UpdateJob
<1>8. /\ \A i \in JobId \ {j} : status'[i] = status[i]
      /\ status'[j] = StatusOf(procs[j], completed', held)
  BY <1>1, <1>7 DEF TypeOK
<1>9. status'[j] = "DONE" <=> procs[j] \subseteq completed'
  BY <1>8, StatusOfDone
<1>10. status[j] = "DONE" => procs[j] \subseteq completed
  BY <1>1 DEF IInv, DoneIsCompleted
<1> QED BY <1>1, <1>3, <1>5, <1>6, <1>8, <1>9, <1>10

\* Nothing the kernel does disturbs what the table knows.
LEMMA KernelIInv == ASSUME IInv, Kernel PROVE IInv' /\ DoneStays
<1>1. TypeOK'
  BY KernelType DEF IInv
<1>2. UNCHANGED <<table, procs, status, completed, nextJobId, pc, todo, arg, last>>
  BY DEF Kernel, Exit, Stop, Continue, InitReaps, ReusePid, tableVars, shellVars
<1>3. Onward
  BY DEF Kernel, Exit, Stop, Continue, InitReaps, ReusePid, Becomes, Onward, Gone,
         IInv, TypeOK
<1>4. NoFalseCompletion'
  BY <1>2, <1>3 DEF IInv, TypeOK, NoFalseCompletion, Onward
<1>5. IdsAreOpened'
  BY <1>2 DEF IInv, IdsAreOpened, Opened
<1> QED BY <1>1, <1>2, <1>3, <1>4, <1>5, Preserved

\* A launched job takes a new id for processes nobody knows.
LEMMA LaunchIInv == ASSUME IInv, NEW P \in Group, Launch(P) PROVE IInv' /\ DoneStays
<1> USE JobControlAssumption DEF Launch, LaunchAs
<1>1. TypeOK /\ TypeOK'
  BY LaunchType DEF IInv
<1>2. /\ nextJobId \in JobId /\ nextJobId \notin Opened /\ P \subseteq Pid
      /\ nextJobId' = nextJobId + 1 /\ pc' = "idle"
  BY <1>1 DEF TypeOK, Opened, Returns
<1>3. Opened' = Opened \cup {nextJobId}
  BY <1>1, <1>2 DEF Opened, TypeOK
<1>4. IdsAreOpened'
  BY <1>2, <1>3 DEF IInv, IdsAreOpened
<1>5. /\ \A p \in Pid \ P : proc'[p] = proc[p]
      /\ \A p \in P : proc[p] = "unborn" /\ proc'[p] = "running"
  BY <1>1, <1>2 DEF TypeOK
<1>6. /\ \A j \in JobId \ {nextJobId} : procs'[j] = procs[j] /\ status'[j] = status[j]
      /\ procs'[nextJobId] = P /\ status'[nextJobId] = "RUNNING"
      /\ completed' = completed /\ table' = table \cup {nextJobId}
  BY <1>1, <1>2 DEF TypeOK
<1>7. LaunchedOnly'
  <2> SUFFICES ASSUME NEW j \in JobId, NEW p \in procs'[j] PROVE proc'[p] # "unborn"
    BY DEF LaunchedOnly, Launched
  <2>1. CASE j = nextJobId
    BY <1>5, <1>6, <2>1
  <2>2. CASE j # nextJobId
    BY <1>1, <1>5, <1>6, <2>2 DEF IInv, LaunchedOnly, Launched, TypeOK
  <2> QED BY <2>1, <2>2
<1>8. DoneIsCompleted'
  BY <1>3, <1>6 DEF IInv, DoneIsCompleted
<1>9. NoFalseCompletion'
  BY <1>1, <1>5, <1>6 DEF IInv, NoFalseCompletion, Gone, TypeOK
<1>10. LiveTracked'
  <2> SUFFICES ASSUME NEW p \in Pid \ Foreign,
                      proc'[p] \in {"running", "stopped", "zombie"}
               PROVE  \E j \in table' : p \in procs'[j] /\ status'[j] # "DONE"
    BY DEF LiveTracked
  <2>1. CASE p \in P
    BY <1>6, <2>1
  <2>2. CASE p \notin P
    <3>1. PICK j \in table : p \in procs[j] /\ status[j] # "DONE"
      BY <1>5, <2>2 DEF IInv, LiveTracked
    <3>2. j \in JobId /\ j # nextJobId
      BY <1>1, <1>2, <3>1 DEF IInv, IdsAreOpened, Opened
    <3> QED BY <1>6, <3>1, <3>2
  <2> QED BY <2>1, <2>2
<1>11. SafeExit'
  BY <1>2 DEF SafeExit
<1>12. DoneStays
  BY <1>1, <1>2, <1>6 DEF DoneStays, IInv, DoneIsCompleted, TypeOK
<1> QED BY <1>1, <1>4, <1>7, <1>8, <1>9, <1>10, <1>11, <1>12 DEF IInv

\* Steps that leave processes, flags and statuses alone: the beginnings and
\* ends of the built-ins.
LEMMA IdleIInv ==
  ASSUME IInv, TypeOK', UNCHANGED <<proc, procs, status, completed, nextJobId>>,
         IdsAreOpened', table' \subseteq table,
         \A i \in table \ table' : status[i] = "DONE",
         pc' # "exited" \/ UNCHANGED <<pc, last>>
  PROVE  IInv' /\ DoneStays
<1>1. Onward /\ NoFalseCompletion'
  BY DEF Onward, IInv, NoFalseCompletion
<1>2. \A i \in JobId : status'[i] = status[i]
  OBVIOUS
<1> QED BY <1>1, <1>2, Preserved

\* The beginning of jobs and of the check before a prompt.
LEMMA StartIInv ==
  ASSUME IInv,
         \/ \E running, halted \in BOOLEAN : JobsStart(running, halted)
         \/ PromptStart
  PROVE  IInv' /\ DoneStays
<1>1. TypeOK'
  BY StartType DEF IInv
<1>2. /\ UNCHANGED <<proc, table, procs, status, completed, nextJobId, todo>>
      /\ pc' \in {"reap", "idle"}
  BY DEF JobsStart, PromptStart, kernelVars, tableVars
<1>3. IdsAreOpened'
  BY <1>2 DEF IInv, IdsAreOpened, Opened
<1> QED BY <1>1, <1>2, <1>3, IdleIInv

\* The three loops of updateStatus and showJobs learn only what is true.
LEMMA UpdateIInv ==
  ASSUME IInv,
         \/ \E p \in Pid : Reap(p)
         \/ \E j \in JobId : Probe(j) \/ Refresh(j)
         \/ ReapDone \/ ShowStart
  PROVE  IInv' /\ DoneStays
<1>1. TypeOK /\ TypeOK'
  BY UpdateType DEF IInv
<1>2. /\ completed \subseteq Pid /\ stopped \subseteq Pid
      /\ \A p \in completed \ Foreign : proc[p] \in Gone
  BY <1>1 DEF IInv, TypeOK, NoFalseCompletion
<1>3. ASSUME NEW p \in Pid, Reap(p)
      PROVE  IInv' /\ DoneStays
  <2>1. /\ UNCHANGED <<table, procs, nextJobId, pc, todo, arg, last>>
        /\ pc = "reap"
    BY <1>3 DEF Reap, shellVars
  <2>2. IdsAreOpened'
    BY <2>1 DEF IInv, IdsAreOpened, Opened
  <2>3. CASE \E j \in table : p \in procs[j]
    <3>1. PICK j \in table : UpdateJob(j, WithExit(p), WithStop(p), {p})
      BY <1>3, <2>3 DEF Reap
    <3>2. /\ j \in Opened
          /\ WithExit(p) \in SUBSET Pid /\ WithStop(p) \in SUBSET Pid
          /\ {p} \in SUBSET Pid
          /\ completed \subseteq WithExit(p)
      BY <1>2 DEF IInv, IdsAreOpened, WithExit, WithStop
    <3>3. \A q \in WithExit(p) \ Foreign : proc[q] \in Gone \/ (Exited(q) /\ q \in {p})
      BY <1>2 DEF WithExit
    <3> HIDE DEF Gone
    <3>4. /\ Onward /\ NoFalseCompletion'
          /\ completed \subseteq completed'
          /\ \A i \in JobId : status'[i] = "DONE" =>
               status[i] = "DONE" \/ (i \in Opened /\ procs[i] \subseteq completed')
          /\ \A i \in JobId : status[i] = "DONE" => status'[i] = "DONE"
      BY <3>1, <3>2, <3>3, UpdateJobLearns
    <3> QED BY <1>1, <2>1, <2>2, <3>4, Preserved
  <2>4. CASE ~ \E j \in table : p \in procs[j]
    <3>1. WaitOn({p}) /\ UNCHANGED <<completed, status>>
      BY <1>3, <2>4 DEF Reap
    <3>2. Onward
      BY <1>1, <3>1, WaitOnOnward
    <3>3. NoFalseCompletion'
      BY <1>2, <3>1, <3>2 DEF NoFalseCompletion, Onward
    <3>4. \A i \in JobId : status'[i] = status[i]
      BY <3>1
    <3> QED BY <1>1, <2>1, <2>2, <3>1, <3>2, <3>3, <3>4, Preserved
  <2> QED BY <2>3, <2>4
<1>4. ASSUME NEW j \in JobId, Probe(j)
      PROVE  IInv' /\ DoneStays
  <2>1. UNCHANGED <<table, procs, nextJobId, pc, arg, last>>
    BY <1>4 DEF Probe
  <2>2. j \in Opened /\ todo' \subseteq todo
    BY <1>4 DEF Probe, IInv, IdsAreOpened
  <2>3. IdsAreOpened'
    BY <2>1, <2>2 DEF IInv, IdsAreOpened, Opened
  <2> DEFINE comp == completed \cup {p \in procs[j] \ completed : ~ Exists(p)}
  <2>4. comp \in SUBSET Pid /\ completed \subseteq comp
    BY <1>1, <1>2 DEF TypeOK
  <2>5. \A q \in comp \ Foreign : proc[q] \in Gone
    <3>1. \A q \in procs[j] : ~ Exists(q) => proc[q] \in Gone
      BY DEF Exists, IInv, LaunchedOnly, Launched, Gone
    <3> QED BY <1>2, <3>1
  <2>6. CASE UpdateJob(j, comp, stopped, {})
    <3>1. /\ Onward /\ NoFalseCompletion'
          /\ completed \subseteq completed'
          /\ \A i \in JobId : status'[i] = "DONE" =>
               status[i] = "DONE" \/ (i \in Opened /\ procs[i] \subseteq completed')
          /\ \A i \in JobId : status[i] = "DONE" => status'[i] = "DONE"
      <4> HIDE DEF comp
      <4>1. stopped \in SUBSET Pid /\ {} \in SUBSET Pid
        BY <1>2
      <4> QED BY <2>2, <2>4, <2>5, <2>6, <4>1, UpdateJobLearns
    <3> QED BY <1>1, <2>1, <2>3, <3>1, Preserved
  <2>7. CASE completed' \in {completed, comp} /\ UNCHANGED <<proc, status>>
    <3>1. Onward /\ NoFalseCompletion' /\ completed \subseteq completed'
      BY <1>2, <2>4, <2>5, <2>7 DEF Onward, NoFalseCompletion
    <3>2. \A i \in JobId : status'[i] = status[i]
      BY <2>7
    <3> QED BY <1>1, <2>1, <2>3, <3>1, <3>2, Preserved
  <2> QED BY <1>4, <2>6, <2>7 DEF Probe
<1>5. ASSUME NEW j \in JobId, Refresh(j)
      PROVE  IInv' /\ DoneStays
  <2>1. UNCHANGED <<table, procs, nextJobId, pc, arg, last>>
    BY <1>5 DEF Refresh
  <2>2. j \in Opened /\ todo' \subseteq todo
    BY <1>5 DEF Refresh, IInv, IdsAreOpened
  <2>3. IdsAreOpened'
    BY <2>1, <2>2 DEF IInv, IdsAreOpened, Opened
  <2>4. /\ Onward /\ NoFalseCompletion'
        /\ completed \subseteq completed'
        /\ \A i \in JobId : status'[i] = "DONE" =>
             status[i] = "DONE" \/ (i \in Opened /\ procs[i] \subseteq completed')
        /\ \A i \in JobId : status[i] = "DONE" => status'[i] = "DONE"
    <3>1. /\ UpdateJob(j, completed, stopped, {})
          /\ completed \in SUBSET Pid /\ stopped \in SUBSET Pid /\ {} \in SUBSET Pid
          /\ completed \subseteq completed
      BY <1>2, <1>5 DEF Refresh
    <3>2. \A q \in completed \ Foreign : proc[q] \in Gone \/ (Exited(q) /\ q \in {})
      BY <1>2
    <3> QED BY <2>2, <3>1, <3>2, UpdateJobLearns
  <2> QED BY <1>1, <2>1, <2>3, <2>4, Preserved
<1>6. CASE ReapDone \/ ShowStart
  <2>1. /\ UNCHANGED <<proc, table, procs, status, completed, nextJobId, arg, last>>
        /\ todo' = table /\ pc' \in {"probe", "refresh"}
    BY <1>6 DEF ReapDone, ShowStart, kernelVars, tableVars
  <2>2. IdsAreOpened'
    BY <2>1 DEF IInv, IdsAreOpened, Opened
  <2> QED BY <1>1, <2>1, <2>2, IdleIInv
<1> QED BY <1>3, <1>4, <1>5, <1>6

\* cleanupJobs erases jobs that are done, and only those.
LEMMA NotifyIInv == ASSUME IInv, ShowAll \/ PromptNotify PROVE IInv' /\ DoneStays
<1>1. TypeOK'
  BY NotifyType DEF IInv
<1>2. UNCHANGED <<proc, procs, status, completed, nextJobId, todo>> /\ pc' = "idle"
  BY DEF ShowAll, PromptNotify, Returns, kernelVars
<1>3. table' = Kept(notified')
  BY DEF ShowAll, PromptNotify, NotifyAndClean
<1>4. table' \subseteq table /\ \A i \in table \ table' : status[i] = "DONE"
  BY <1>3 DEF Kept
<1>5. IdsAreOpened'
  BY <1>2, <1>4 DEF IInv, IdsAreOpened, Opened
<1> QED BY <1>1, <1>2, <1>4, <1>5, IdleIInv

\* A job that is resumed was held to be stopped, so none of its processes is
\* gone by mistake and no job that is done is touched.
LEMMA ResumeIInv ==
  ASSUME IInv, TypeOK', NEW j \in JobId, Resume(j), IdsAreOpened',
         UNCHANGED <<table, procs, completed, nextJobId>>, pc' # "exited"
  PROVE  IInv' /\ DoneStays
<1>1. /\ Onward
      /\ \A i \in JobId : status[i] = "DONE" <=> status'[i] = "DONE"
  BY DEF Resume, ResumeAlways, kernelVars, Onward, Gone, IInv, TypeOK
<1>2. NoFalseCompletion'
  BY <1>1 DEF IInv, TypeOK, NoFalseCompletion, Onward
<1> QED BY <1>1, <1>2, Preserved

\* fg, bg, wait, exit and Ctrl-D as they are entered; exit leaves only when
\* every job listed is done, so every process it knows is gone.
LEMMA BuiltinIInv == ASSUME IInv, Builtin PROVE IInv' /\ DoneStays
<1>1. TypeOK /\ TypeOK'
  BY BuiltinType DEF IInv
<1>2. ASSUME NEW cmd \in {"fg", "bg", "wait"}, NEW j \in JobId,
             Refuse(cmd, j) \/ NoSuchJob(cmd, j)
      PROVE  IInv' /\ DoneStays
  <2>1. /\ UNCHANGED <<proc, table, procs, status, completed, nextJobId, todo>>
        /\ pc' = "idle"
    BY <1>2 DEF Refuse, NoSuchJob, Returns, kernelVars, tableVars
  <2>2. IdsAreOpened'
    BY <2>1 DEF IInv, IdsAreOpened, Opened
  <2> QED BY <1>1, <2>1, <2>2, IdleIInv
<1>3. ASSUME NEW j \in JobId, FgStart(j) \/ Bg(j)
      PROVE  IInv' /\ DoneStays
  <2>1. /\ UNCHANGED <<table, procs, completed, nextJobId, todo>> /\ Resume(j)
        /\ j \in table
        /\ pc' = "idle" \/ (pc' = "fg" /\ arg'.job = j)
    BY <1>3 DEF FgStart, Bg, Returns, NoArg
  <2>2. IdsAreOpened'
    BY <2>1 DEF IInv, IdsAreOpened, Opened
  <2> QED BY <1>1, <2>1, <2>2, ResumeIInv
<1>4. ASSUME NEW j \in JobId, WaitStart(j)
      PROVE  IInv' /\ DoneStays
  <2>1. /\ UNCHANGED <<proc, table, procs, status, completed, nextJobId, todo>>
        /\ j \in table
        /\ pc' = "wait" /\ arg'.job = j
    BY <1>4 DEF WaitStart, NoArg, kernelVars, tableVars
  <2>2. IdsAreOpened'
    BY <2>1 DEF IInv, IdsAreOpened, Opened
  <2> QED BY <1>1, <2>1, <2>2, IdleIInv
<1>5. CASE ExitRefused
  <2>1. /\ UNCHANGED <<proc, table, procs, status, completed, nextJobId, todo>>
        /\ pc' = "idle"
    BY <1>5 DEF ExitRefused, Returns, kernelVars, tableVars
  <2>2. IdsAreOpened'
    BY <2>1 DEF IInv, IdsAreOpened, Opened
  <2> QED BY <1>1, <2>1, <2>2, IdleIInv
<1>6. CASE ExitGranted \/ Eof
  <2>1. /\ UNCHANGED <<proc, table, procs, status, completed, nextJobId, todo>>
        /\ pc' = "exited"
    BY <1>6 DEF ExitGranted, Eof, Leave, kernelVars, tableVars
  <2>2. /\ IdsAreOpened' /\ LaunchedOnly' /\ DoneIsCompleted'
        /\ NoFalseCompletion' /\ LiveTracked' /\ DoneStays
    BY <2>1 DEF IInv, IdsAreOpened, Opened, LaunchedOnly, Launched, DoneIsCompleted,
                NoFalseCompletion, LiveTracked, DoneStays
  <2>3. SafeExit'
    <3>1. CASE Eof
      BY <3>1 DEF Eof, Leave, SafeExit
    <3>2. CASE ExitGranted
      <4> SUFFICES ASSUME Interactive, NEW p \in Pid \ Foreign
                   PROVE  proc'[p] \in Gone \cup {"unborn"}
        BY DEF SafeExit
      <4>1. \A j \in table : status[j] = "DONE"
        BY <1>1, <3>2 DEF ExitGranted, HasActiveJobs, TypeOK
      <4>2. proc[p] \notin {"running", "stopped", "zombie"}
        BY <4>1 DEF IInv, LiveTracked
      <4> QED BY <1>1, <2>1, <4>2 DEF TypeOK, Gone
    <3> QED BY <1>6, <3>1, <3>2
  <2> QED BY <1>1, <2>2, <2>3 DEF IInv
<1> QED BY <1>2, <1>3, <1>4, <1>5, <1>6 DEF Builtin

\* The loops of fg and wait learn from waitpid only.
LEMMA WaitingIInv ==
  ASSUME IInv,
         \/ \E p \in Pid : FgWait(p)
         \/ FgNoChild \/ WaitPoll \/ WaitDone
  PROVE  IInv' /\ DoneStays
<1> DEFINE j == arg.job
<1>1. j \in Opened /\ j \in JobId
  BY DEF FgWait, FgNoChild, WaitPoll, WaitDone, IInv, IdsAreOpened, Opened
<1>2. TypeOK /\ TypeOK'
  BY <1>1, WaitingType DEF IInv
<1>3. /\ completed \subseteq Pid /\ stopped \subseteq Pid
      /\ \A p \in completed \ Foreign : proc[p] \in Gone
      /\ status[j] = "DONE" => procs[j] \subseteq completed
  BY <1>1, <1>2 DEF IInv, TypeOK, NoFalseCompletion, DoneIsCompleted
<1>4. ASSUME NEW comp, NEW halt, completed \subseteq comp, completed' = comp,
             FgFinish(j, comp, halt)
      PROVE  /\ \A i \in JobId : status'[i] = "DONE" =>
                  status[i] = "DONE" \/ (i \in Opened /\ procs[i] \subseteq completed')
             /\ \A i \in JobId : status[i] = "DONE" => status'[i] = "DONE"
             /\ pc' = "idle"
  <2>1. /\ \A i \in JobId \ {j} : status'[i] = status[i]
        /\ status'[j] = StatusAfterFg(j, comp, halt)
        /\ pc' = "idle"
    BY <1>1, <1>2, <1>4 DEF FgFinish, TypeOK, Returns
  <2>2. status'[j] = "DONE" => status[j] = "DONE" \/ procs[j] \subseteq comp
    BY <2>1, StatusOfDone DEF StatusAfterFg
  <2>3. status[j] = "DONE" => status'[j] = "DONE"
    BY <1>3, <1>4, <2>1, StatusOfDone DEF StatusAfterFg
  <2> QED BY <1>1, <1>4, <2>1, <2>2, <2>3
<1>5. ASSUME NEW p \in Pid, FgWait(p)
      PROVE  IInv' /\ DoneStays
  <2>1. /\ WaitOn({p}) /\ completed' = WithExit(p)
        /\ UNCHANGED <<table, procs, nextJobId, todo>> /\ pc = "fg"
    BY <1>5 DEF FgWait
  <2>2. Onward /\ (Exited(p) => proc'[p] = "dead")
    BY <1>2, <2>1, WaitOnOnward
  <2>3. completed \subseteq completed' /\ NoFalseCompletion'
    BY <1>2, <1>3, <2>1, <2>2 DEF WithExit, NoFalseCompletion, Onward, Gone
  <2>4. /\ \A i \in JobId : status'[i] = "DONE" =>
             status[i] = "DONE" \/ (i \in Opened /\ procs[i] \subseteq completed')
        /\ \A i \in JobId : status[i] = "DONE" => status'[i] = "DONE"
        /\ pc' = "idle" \/ (pc' = "fg" /\ UNCHANGED arg)
    <3>1. CASE FgFinish(j, WithExit(p), WithStop(p))
      BY <1>4, <2>1, <2>3, <3>1
    <3>2. CASE UNCHANGED <<status, told, pc, arg, last>>
      <4>1. \A i \in JobId : status'[i] = status[i]
        BY <3>2
      <4> QED BY <2>1, <3>2, <4>1
    <3> QED BY <1>5, <3>1, <3>2 DEF FgWait
  <2>5. IdsAreOpened'
    BY <2>1, <2>4, <1>1 DEF IInv, IdsAreOpened, Opened
  <2> QED BY <1>2, <2>1, <2>2, <2>3, <2>4, <2>5, Preserved
<1>6. CASE FgNoChild
  <2>1. UNCHANGED <<proc, table, procs, completed, nextJobId, todo>>
    BY <1>6 DEF FgNoChild, kernelVars
  <2>2. /\ \A i \in JobId : status'[i] = "DONE" =>
             status[i] = "DONE" \/ (i \in Opened /\ procs[i] \subseteq completed')
        /\ \A i \in JobId : status[i] = "DONE" => status'[i] = "DONE"
        /\ pc' = "idle"
    BY <1>4, <1>6, <2>1 DEF FgNoChild
  <2>3. Onward /\ NoFalseCompletion' /\ IdsAreOpened'
    BY <1>3, <2>1, <2>2 DEF Onward, NoFalseCompletion, IInv, IdsAreOpened, Opened
  <2> QED BY <1>2, <2>1, <2>2, <2>3, Preserved
<1>7. CASE WaitPoll
  <2>1. UNCHANGED <<table, procs, nextJobId, pc, todo, arg, last>>
    BY <1>7 DEF WaitPoll, shellVars
  <2>2. IdsAreOpened'
    BY <2>1 DEF IInv, IdsAreOpened, Opened
  <2>3. /\ UpdateJob(j, completed, stopped, {})
        /\ completed \in SUBSET Pid /\ stopped \in SUBSET Pid /\ {} \in SUBSET Pid
        /\ completed \subseteq completed
    BY <1>3, <1>7 DEF WaitPoll
  <2>4. \A q \in completed \ Foreign : proc[q] \in Gone \/ (Exited(q) /\ q \in {})
    BY <1>3
  <2>5. /\ Onward /\ NoFalseCompletion'
        /\ completed \subseteq completed'
        /\ \A i \in JobId : status'[i] = "DONE" =>
             status[i] = "DONE" \/ (i \in Opened /\ procs[i] \subseteq completed')
        /\ \A i \in JobId : status[i] = "DONE" => status'[i] = "DONE"
    <3> HIDE DEF j
    <3> QED BY <1>1, <2>3, <2>4, UpdateJobLearns
  <2> QED BY <1>2, <2>1, <2>2, <2>5, Preserved
<1>8. CASE WaitDone
  <2>1. /\ UNCHANGED <<proc, table, procs, status, completed, nextJobId, todo>>
        /\ pc' = "idle"
    BY <1>8 DEF WaitDone, Returns, kernelVars, tableVars
  <2>2. IdsAreOpened'
    BY <2>1 DEF IInv, IdsAreOpened, Opened
  <2> QED BY <1>2, <2>1, <2>2, IdleIInv
<1> QED BY <1>5, <1>6, <1>7, <1>8

\* Every step keeps the invariant and the promise of DoneIsFinal.
LEMMA NextIInv == ASSUME IInv, [Next]_vars PROVE IInv' /\ (DoneStays \/ UNCHANGED vars)
<1>1. CASE Kernel
  BY <1>1, KernelIInv
<1>2. CASE UserCommand
  BY <1>2, LaunchIInv, StartIInv, BuiltinIInv DEF UserCommand
<1>3. CASE InCall
  <2>1. CASE (\E p \in Pid : Reap(p)) \/ (\E j \in JobId : Probe(j) \/ Refresh(j))
             \/ ReapDone \/ ShowStart
    BY <2>1, UpdateIInv
  <2>2. CASE ShowAll \/ PromptNotify
    BY <2>2, NotifyIInv
  <2>3. CASE (\E p \in Pid : FgWait(p)) \/ FgNoChild \/ WaitPoll \/ WaitDone
    BY <2>3, WaitingIInv
  <2> QED BY <1>3, <2>1, <2>2, <2>3 DEF InCall
<1>4. CASE UNCHANGED vars
  <2>1. UNCHANGED <<proc, table, procs, status, completed, nextJobId, todo, arg, pc, last>>
    BY <1>4 DEF vars, kernelVars, tableVars, shellVars
  <2>2. TypeOK'
    BY <1>4 DEF IInv, TypeOK, vars, kernelVars, tableVars, shellVars
  <2>3. IInv'
    BY <2>1, <2>2 DEF IInv, IdsAreOpened, Opened, LaunchedOnly, Launched,
                      DoneIsCompleted, NoFalseCompletion, LiveTracked, SafeExit
  <2> QED BY <1>4, <2>3
<1> QED BY <1>1, <1>2, <1>3, <1>4 DEF Next, Terminated

-----------------------------------------------------------------------------
(* What the table records.  The second invariant, on top of the first: no   *)
(* two jobs share a process, so an answer about one job cannot complete     *)
(* another behind its status; and whoever waits for a child marks it.       *)

\* A loop or a built-in of several steps knows which it belongs to.
Calls ==
  /\ arg.op = "prompt" => pc \in {"reap", "probe"}
  /\ arg.op = "jobs" => pc \in {"reap", "probe", "refresh"}
  /\ pc \in {"reap", "probe"} => arg.op \in {"jobs", "prompt"}
  /\ pc = "refresh" => arg.op = "jobs"

\* A job that was added has processes, and they are its alone.
JobsApart ==
  \A j \in JobId :
    /\ procs[j] # {} <=> j \in Opened
    /\ \A i \in JobId : i # j => procs[i] \cap procs[j] = {}

\* The converse of DoneIsCompleted: no status lags behind the flags.
CompletedIsDone == \A j \in Opened : procs[j] \subseteq completed => status[j] = "DONE"

\* Only processes of jobs are marked.
CompletedOfJobs == \A p \in completed : \E j \in JobId : p \in procs[j]

\* The user was told that a job is done only when it was.
ToldIsTrue == \A j \in JobId : told[j] = "DONE" => status[j] = "DONE"

Records ==
  /\ Calls
  /\ JobsApart
  /\ CompletedIsDone
  /\ CompletedOfJobs
  /\ ReapIsRecorded
  /\ ToldIsTrue

\* What every step but a launch does for the records.
Learns ==
  /\ UNCHANGED <<procs, nextJobId>>
  /\ completed \subseteq completed'
  /\ \A p \in completed' \ completed : \E j \in JobId : p \in procs[j]
  /\ \A p \in Child : proc'[p] \in Gone => proc[p] \in Gone \/ p \in completed'
  /\ \A j \in Opened : procs[j] \subseteq completed' => status'[j] = "DONE"
  /\ \A j \in JobId : told'[j] \in {told[j], status'[j]}

\* Initially nothing is recorded.
LEMMA InitRecords == Init => Records
<1> SUFFICES ASSUME Init PROVE Records
  OBVIOUS
<1>1. ReapIsRecorded /\ ToldIsTrue
  BY JobControlAssumption DEF Init, ReapIsRecorded, ToldIsTrue, Gone
<1>2. Opened = {} /\ \A j \in JobId : procs[j] = {}
  BY DEF Init, Opened
<1>3. JobsApart /\ CompletedIsDone /\ CompletedOfJobs
  BY <1>2 DEF Init, JobsApart, CompletedIsDone, CompletedOfJobs
<1>4. Calls
  BY DEF Init, NoArg, Calls
<1> QED BY <1>1, <1>3, <1>4 DEF Records

\* A step between the loops keeps track of the built-in.
LEMMA CallsStep == ASSUME Calls, [Next]_vars PROVE Calls'
<1> USE DEF Calls
<1>1. CASE Kernel \/ UNCHANGED vars
  BY <1>1 DEF Kernel, Exit, Stop, Continue, InitReaps, ReusePid, vars, shellVars
<1>2. CASE UserCommand
  <2>1. CASE (\E P \in Group : Launch(P))
             \/ (\E running, halted \in BOOLEAN : JobsStart(running, halted))
    BY <2>1 DEF Launch, LaunchAs, JobsStart, Returns, NoArg
  <2>2. CASE PromptStart
    BY <2>2 DEF PromptStart, NoArg
  <2>3. CASE \E j \in JobId :
               \/ \E cmd \in {"fg", "bg", "wait"} : Refuse(cmd, j) \/ NoSuchJob(cmd, j)
               \/ FgStart(j) \/ Bg(j) \/ WaitStart(j)
    <3>1. PICK j \in JobId :
            \/ \E cmd \in {"fg", "bg", "wait"} : Refuse(cmd, j) \/ NoSuchJob(cmd, j)
            \/ FgStart(j) \/ Bg(j) \/ WaitStart(j)
      BY <2>3
    <3>2. CASE (\E cmd \in {"fg", "bg", "wait"} : Refuse(cmd, j) \/ NoSuchJob(cmd, j)) \/ Bg(j)
      BY <3>2 DEF Refuse, NoSuchJob, Bg, Returns, NoArg
    <3>3. CASE FgStart(j)
      BY <3>3 DEF FgStart, NoArg
    <3>4. CASE WaitStart(j)
      BY <3>4 DEF WaitStart, NoArg
    <3> QED BY <3>1, <3>2, <3>3, <3>4
  <2>4. CASE pc = "idle" /\ (ExitRefused \/ ExitGranted \/ Eof)
    BY <2>4 DEF ExitRefused, ExitGranted, Eof, Leave, Returns, NoArg
  <2> QED BY <1>2, <2>1, <2>2, <2>3, <2>4 DEF UserCommand, Builtin
<1>3. CASE InCall
  <2>1. CASE (\E p \in Pid : Reap(p)) \/ (\E j \in JobId : Probe(j) \/ Refresh(j))
             \/ ReapDone \/ ShowStart
    BY <2>1 DEF Reap, Probe, Refresh, ReapDone, ShowStart, shellVars
  <2>2. CASE ShowAll \/ PromptNotify
    BY <2>2 DEF ShowAll, PromptNotify, Returns, NoArg
  <2>3. CASE (\E p \in Pid : FgWait(p)) \/ FgNoChild \/ WaitPoll \/ WaitDone
    <3>1. pc \in {"fg", "wait"}
          /\ \/ UNCHANGED <<pc, arg>>
             \/ pc' = "idle" /\ arg' = NoArg
      BY <2>3 DEF FgWait, FgNoChild, FgFinish, WaitPoll, WaitDone, Returns, shellVars
    <3> QED BY <3>1 DEF NoArg
  <2> QED BY <1>3, <2>1, <2>2, <2>3 DEF InCall
<1> QED BY <1>1, <1>2, <1>3 DEF Next, Terminated

\* A step that only learns keeps the records.
LEMMA LearnsRecords == ASSUME IInv, Records, Calls', DoneStays, Learns PROVE Records'
<1>1. JobsApart' /\ CompletedIsDone' /\ CompletedOfJobs'
  BY DEF Records, JobsApart, CompletedIsDone, CompletedOfJobs, Opened, Learns
<1>2. ReapIsRecorded'
  BY DEF Records, ReapIsRecorded, Learns
<1>3. ToldIsTrue'
  BY DEF Records, ToldIsTrue, Learns, DoneStays
<1> QED BY <1>1, <1>2, <1>3 DEF Records

\* Steps that leave processes, flags and statuses alone.
LEMMA IdleLearns ==
  ASSUME Records, UNCHANGED <<procs, nextJobId, completed, status>>,
         \A p \in Child : proc'[p] \in Gone => proc[p] \in Gone,
         \A j \in JobId : told'[j] \in {told[j], status[j]}
  PROVE  Learns
BY DEF Learns, Records, CompletedIsDone

\* Job::updateStatus marks what it waits for, and the status of the job
\* follows the flags; no other job has a process among those it marks.
LEMMA UpdateJobRecords ==
  ASSUME IInv, Records, NEW j \in Opened,
         NEW comp \in SUBSET Pid, NEW halt \in SUBSET Pid, NEW waited \in SUBSET Pid,
         completed \subseteq comp, comp \subseteq completed \cup procs[j],
         \A p \in waited : Exited(p) => p \in comp,
         UpdateJob(j, comp, halt, waited), UNCHANGED <<procs, nextJobId, told>>
  PROVE  Learns
<1> DEFINE polled == procs[j] \ comp
<1>1. j \in JobId /\ procs[j] \in SUBSET Pid /\ TypeOK
  BY DEF Opened, IInv, TypeOK
<1>2. /\ completed' = comp \cup {p \in polled : FoundOver(p)}
      /\ completed' \subseteq completed \cup procs[j]
  BY DEF UpdateJob
<1>3. PICK held : status' = [status EXCEPT ![j] = StatusOf(procs[j], completed', held)]
  BY DEF UpdateJob
<1>4. /\ \A i \in JobId \ {j} : status'[i] = status[i]
      /\ status'[j] = "DONE" <=> procs[j] \subseteq completed'
  BY <1>1, <1>3, StatusOfDone DEF TypeOK
<1>5. ASSUME NEW p \in Child, proc'[p] \in Gone
      PROVE  proc[p] \in Gone \/ p \in completed'
  <2>1. WaitOn(polled \cup waited) /\ p \in Pid
    BY JobControlAssumption DEF UpdateJob
  <2>2. proc[p] \in Gone \/ (p \in polled \cup waited /\ Exited(p))
    BY <1>5, <2>1 DEF WaitOn
  <2> QED BY <1>2, <2>2 DEF FoundOver
<1>6. ASSUME NEW i \in Opened, procs[i] \subseteq completed'
      PROVE  status'[i] = "DONE"
  <2>1. CASE i = j
    BY <1>4, <1>6, <2>1
  <2>2. CASE i # j
    <3>1. i \in JobId /\ procs[i] \cap procs[j] = {}
      BY <1>1, <2>2 DEF Opened, Records, JobsApart
    <3>2. procs[i] \subseteq completed
      BY <1>2, <1>6, <3>1
    <3> QED BY <1>4, <2>2, <3>1, <3>2 DEF Records, CompletedIsDone
  <2> QED BY <2>1, <2>2
<1>7. \A p \in completed' \ completed : \E i \in JobId : p \in procs[i]
  BY <1>1, <1>2
<1> QED BY <1>2, <1>5, <1>6, <1>7 DEF Learns

\* The kernel takes no child away: a dead one waits for the shell.
LEMMA KernelLearns == ASSUME IInv, Records, Kernel PROVE Learns
<1>1. UNCHANGED <<procs, nextJobId, completed, status, told>>
  BY DEF Kernel, Exit, Stop, Continue, InitReaps, ReusePid, tableVars, shellVars
<1>2. \A p \in Child : proc'[p] \in Gone => proc[p] \in Gone
  BY JobControlAssumption
     DEF Kernel, Exit, Stop, Continue, InitReaps, ReusePid, Becomes, Gone, IInv, TypeOK
<1> QED BY <1>1, <1>2, IdleLearns

\* The beginnings of the built-ins record nothing.
LEMMA BeginLearns ==
  ASSUME IInv, Records,
         \/ \E running, halted \in BOOLEAN : JobsStart(running, halted)
         \/ PromptStart
         \/ Builtin
  PROVE  Learns
<1>1. CASE (\E running, halted \in BOOLEAN : JobsStart(running, halted)) \/ PromptStart
  BY <1>1, IdleLearns DEF JobsStart, PromptStart, kernelVars, tableVars
<1>2. ASSUME NEW j \in JobId, FgStart(j) \/ Bg(j)
      PROVE  Learns
  \* A job that is resumed was held to be stopped, so it is not completed.
  <2>1. Resume(j) /\ UNCHANGED <<procs, nextJobId, completed, told>>
    BY <1>2 DEF FgStart, Bg
  <2>2. \A p \in Child : proc'[p] \in Gone => proc[p] \in Gone
    BY <2>1, JobControlAssumption DEF Resume, ResumeAlways, kernelVars, Gone, IInv, TypeOK
  <2>3. \A i \in JobId : status[i] = "DONE" => status'[i] = "DONE"
    BY <2>1 DEF Resume, ResumeAlways, IInv, TypeOK
  <2> QED BY <2>1, <2>2, <2>3 DEF Learns, Records, CompletedIsDone, Opened
<1>3. CASE \E j \in JobId :
             \/ \E cmd \in {"fg", "bg", "wait"} : Refuse(cmd, j) \/ NoSuchJob(cmd, j)
             \/ WaitStart(j)
  BY <1>3, IdleLearns DEF Refuse, NoSuchJob, WaitStart, kernelVars, tableVars
<1>4. CASE ExitRefused \/ ExitGranted \/ Eof
  BY <1>4, IdleLearns DEF ExitRefused, ExitGranted, Eof, Leave, kernelVars, tableVars
<1> QED BY <1>1, <1>2, <1>3, <1>4 DEF Builtin

\* The loops of updateStatus and showJobs mark what they wait for: a child that
\* waitpid(-1) reports belongs to a job that is listed, since it still exists.
LEMMA UpdateLearns ==
  ASSUME IInv, Records,
         \/ \E p \in Pid : Reap(p)
         \/ \E j \in JobId : Probe(j) \/ Refresh(j)
         \/ ReapDone \/ ShowStart
  PROVE  Learns
<1>1. TypeOK /\ completed \in SUBSET Pid /\ stopped \in SUBSET Pid /\ {} \in SUBSET Pid
  BY DEF IInv, TypeOK
<1>2. ASSUME NEW p \in Pid, Reap(p)
      PROVE  Learns
  <2>1. UNCHANGED <<procs, nextJobId, told>> /\ Pending(p)
    BY <1>2 DEF Reap, shellVars
  <2>2. PICK j \in table : p \in procs[j]
    <3>1. p \notin Foreign /\ proc[p] \in {"zombie", "stopped"}
      BY <2>1, JobControlAssumption DEF Pending, Exited, Halted
    <3> QED BY <3>1 DEF IInv, LiveTracked
  <2>3. PICK i \in table : p \in procs[i] /\ UpdateJob(i, WithExit(p), WithStop(p), {p})
    BY <1>2, <2>2 DEF Reap
  <2>4. /\ i \in Opened
        /\ WithExit(p) \in SUBSET Pid /\ WithStop(p) \in SUBSET Pid /\ {p} \in SUBSET Pid
        /\ completed \subseteq WithExit(p) /\ WithExit(p) \subseteq completed \cup procs[i]
        /\ \A q \in {p} : Exited(q) => q \in WithExit(p)
    BY <1>1, <2>3 DEF IInv, IdsAreOpened, WithExit, WithStop
  <2> QED BY <2>1, <2>3, <2>4, UpdateJobRecords
<1>3. ASSUME NEW j \in JobId, Probe(j)
      PROVE  Learns
  <2> DEFINE comp == completed \cup {p \in procs[j] \ completed : ~ Exists(p)}
  <2>1. UNCHANGED <<procs, nextJobId, told>> /\ j \in Opened
    BY <1>3 DEF Probe, IInv, IdsAreOpened
  <2>2. comp \in SUBSET Pid /\ completed \subseteq comp /\ comp \subseteq completed \cup procs[j]
    BY <1>1 DEF TypeOK
  <2>3. CASE UpdateJob(j, comp, stopped, {})
    <3> HIDE DEF comp
    <3> QED BY <1>1, <2>1, <2>2, <2>3, UpdateJobRecords
  <2>4. CASE UNCHANGED <<proc, completed, status>>
    BY <2>1, <2>4, IdleLearns
  <2>5. CASE /\ completed' = comp /\ UNCHANGED <<proc, status>>
             /\ \E p \in procs[j] \ completed : Answers(p)
    \* A process that answers is left, so the job is not completed.
    <3>1. ~ (procs[j] \subseteq completed')
      BY <2>5 DEF Answers
    <3>2. ASSUME NEW i \in Opened, procs[i] \subseteq completed'
          PROVE  status'[i] = "DONE"
      <4>1. i # j /\ i \in JobId
        BY <3>1, <3>2 DEF Opened
      <4>2. procs[i] \subseteq completed
        BY <2>2, <2>5, <3>2, <4>1 DEF Records, JobsApart
      <4> QED BY <2>5, <4>2 DEF Records, CompletedIsDone
    <3> QED BY <2>1, <2>2, <2>5, <3>2 DEF Learns
  <2>6. procs[j] # {}
    BY <2>1 DEF Records, JobsApart, Opened
  <2> QED BY <1>3, <2>3, <2>4, <2>5, <2>6 DEF Probe
<1>4. ASSUME NEW j \in JobId, Refresh(j)
      PROVE  Learns
  <2>1. /\ UNCHANGED <<procs, nextJobId, told>> /\ j \in Opened
        /\ UpdateJob(j, completed, stopped, {})
    BY <1>4 DEF Refresh, IInv, IdsAreOpened
  <2>2. completed \subseteq completed /\ completed \subseteq completed \cup procs[j]
    OBVIOUS
  <2>3. \A p \in {} : Exited(p) => p \in completed
    OBVIOUS
  <2> QED BY <1>1, <2>1, <2>2, <2>3, UpdateJobRecords
<1>5. CASE ReapDone \/ ShowStart
  BY <1>5, IdleLearns DEF ReapDone, ShowStart, kernelVars, tableVars
<1> QED BY <1>2, <1>3, <1>4, <1>5

\* The user is told what the table says.
LEMMA NotifyLearns == ASSUME IInv, Records, ShowAll \/ PromptNotify PROVE Learns
<1>1. UNCHANGED <<proc, procs, nextJobId, completed, status>>
  BY DEF ShowAll, PromptNotify, kernelVars
<1>2. \A j \in JobId : told'[j] \in {told[j], status[j]}
  BY DEF ShowAll, PromptNotify, NotifyAndClean, Tell
<1> QED BY <1>1, <1>2, IdleLearns

\* fg and wait mark what they wait for, and end with the status the flags give.
LEMMA WaitingLearns ==
  ASSUME IInv, Records,
         \/ \E p \in Pid : FgWait(p)
         \/ FgNoChild \/ WaitPoll \/ WaitDone
  PROVE  Learns
<1> DEFINE j == arg.job
<1>1. j \in Opened /\ j \in JobId
  BY DEF FgWait, FgNoChild, WaitPoll, WaitDone, IInv, IdsAreOpened, Opened
<1>2. /\ TypeOK
      /\ completed \in SUBSET Pid /\ stopped \in SUBSET Pid /\ {} \in SUBSET Pid
  BY DEF IInv, TypeOK
<1>3. ASSUME NEW comp, NEW halt, FgFinish(j, comp, halt)
      PROVE  /\ \A i \in JobId \ {j} : status'[i] = status[i]
             /\ procs[j] \subseteq comp => status'[j] = "DONE"
             /\ \A i \in JobId : told'[i] \in {told[i], status'[i]}
  <2>1. /\ \A i \in JobId \ {j} : status'[i] = status[i]
        /\ status'[j] = StatusAfterFg(j, comp, halt)
        /\ \A i \in JobId : told'[i] \in {told[i], status'[i]}
    BY <1>1, <1>2, <1>3 DEF FgFinish, TypeOK
  <2>2. procs[j] \subseteq comp => status'[j] = "DONE"
    BY <2>1, StatusOfDone DEF StatusAfterFg, IsStopped
  <2> QED BY <2>1, <2>2
<1>4. ASSUME NEW p \in Pid, FgWait(p)
      PROVE  Learns
  <2>1. /\ UNCHANGED <<procs, nextJobId>> /\ p \in procs[j] /\ WaitOn({p})
        /\ completed' = WithExit(p)
    BY <1>4 DEF FgWait
  <2>2. /\ completed \subseteq completed' /\ completed' \subseteq completed \cup procs[j]
        /\ \A q \in Child : proc'[q] \in Gone => proc[q] \in Gone \/ q \in completed'
    BY <2>1, JobControlAssumption DEF WithExit, WaitOn
  <2>3. /\ \A i \in JobId \ {j} : status'[i] = status[i]
        /\ procs[j] \subseteq completed' => status'[j] = "DONE"
        /\ \A i \in JobId : told'[i] \in {told[i], status'[i]}
    <3>1. CASE FgFinish(j, WithExit(p), WithStop(p))
      BY <1>3, <2>1, <3>1
    <3>2. CASE /\ UNCHANGED <<status, told>>
               /\ ~ IsStopped(procs[j], WithExit(p), WithStop(p))
      BY <2>1, <3>2 DEF IsStopped
    <3> QED BY <1>4, <3>1, <3>2 DEF FgWait
  <2>4. ASSUME NEW i \in Opened, procs[i] \subseteq completed'
        PROVE  status'[i] = "DONE"
    <3>1. CASE i = j
      BY <2>3, <2>4, <3>1
    <3>2. CASE i # j
      <4>1. i \in JobId /\ procs[i] \cap procs[j] = {}
        BY <1>1, <3>2 DEF Opened, Records, JobsApart
      <4>2. procs[i] \subseteq completed
        BY <2>2, <2>4, <4>1
      <4> QED BY <2>3, <3>2, <4>1, <4>2 DEF Records, CompletedIsDone
    <3> QED BY <3>1, <3>2
  <2>5. \A q \in completed' \ completed : \E i \in JobId : q \in procs[i]
    BY <1>1, <2>2
  <2> QED BY <2>1, <2>2, <2>3, <2>4, <2>5 DEF Learns
<1>5. CASE FgNoChild
  <2>1. UNCHANGED <<proc, procs, nextJobId, completed>> /\ FgFinish(j, completed, stopped)
    BY <1>5 DEF FgNoChild, kernelVars
  <2>2. \A i \in Opened : procs[i] \subseteq completed' => status'[i] = "DONE"
    BY <1>3, <2>1 DEF Records, CompletedIsDone, Opened
  <2> QED BY <1>3, <2>1, <2>2 DEF Learns
<1>6. CASE WaitPoll
  <2>1. /\ UNCHANGED <<procs, nextJobId, told>>
        /\ UpdateJob(j, completed, stopped, {})
    BY <1>6 DEF WaitPoll, shellVars
  <2>2. completed \subseteq completed /\ completed \subseteq completed \cup procs[j]
    OBVIOUS
  <2>3. \A p \in {} : Exited(p) => p \in completed
    OBVIOUS
  <2> HIDE DEF j
  <2> QED BY <1>1, <1>2, <2>1, <2>2, <2>3, UpdateJobRecords
<1>7. CASE WaitDone
  <2>1. UNCHANGED <<proc, procs, nextJobId, completed, status>>
    BY <1>7 DEF WaitDone, kernelVars, tableVars
  <2>2. \A i \in JobId : told'[i] \in {told[i], status[i]}
    BY <1>1, <1>2, <1>7 DEF WaitDone, TypeOK
  <2> QED BY <2>1, <2>2, IdleLearns
<1> QED BY <1>4, <1>5, <1>6, <1>7

\* Every step is a launch or learns.
LEMMA NextLearns ==
  ASSUME IInv, Records, [Next]_vars
  PROVE  (\E P \in Group : Launch(P)) \/ Learns
<1>1. CASE UserCommand
  BY <1>1, BeginLearns DEF UserCommand
<1>2. CASE InCall
  <2>1. CASE (\E p \in Pid : Reap(p)) \/ (\E j \in JobId : Probe(j) \/ Refresh(j))
             \/ ReapDone \/ ShowStart
    BY <2>1, UpdateLearns
  <2>2. CASE (\E p \in Pid : FgWait(p)) \/ FgNoChild \/ WaitPoll \/ WaitDone
    BY <2>2, WaitingLearns
  <2> QED BY <1>2, <2>1, <2>2, NotifyLearns DEF InCall
<1>3. CASE UNCHANGED vars
  BY <1>3, IdleLearns DEF vars, kernelVars, tableVars, shellVars
<1> QED BY <1>1, <1>2, <1>3, KernelLearns DEF Next, Terminated

\* A new job has processes of its own.
LEMMA LaunchRecords ==
  ASSUME IInv, Records, Calls', NEW P \in Group, Launch(P)
  PROVE  Records'
<1> USE JobControlAssumption DEF Launch, LaunchAs
<1>1. /\ TypeOK /\ nextJobId \in JobId /\ nextJobId \notin Opened
      /\ nextJobId' = nextJobId + 1 /\ P \subseteq Pid /\ P # {}
  BY DEF IInv, TypeOK, Opened
<1>2. Opened' = Opened \cup {nextJobId}
  BY <1>1 DEF Opened, TypeOK
<1>3. /\ \A p \in Pid \ P : proc'[p] = proc[p]
      /\ \A p \in P : proc[p] = "unborn" /\ proc'[p] = "running"
  BY <1>1 DEF TypeOK
<1>4. /\ \A j \in JobId \ {nextJobId} : procs'[j] = procs[j] /\ status'[j] = status[j]
      /\ procs'[nextJobId] = P /\ status'[nextJobId] = "RUNNING"
      /\ completed' = completed /\ told' = told
  BY <1>1 DEF TypeOK
<1>5. \A j \in JobId : procs[j] \cap P = {}
  BY <1>3 DEF IInv, LaunchedOnly, Launched
<1>6. JobsApart'
  <2>1. \A j \in JobId : procs'[j] # {} <=> j \in Opened'
    BY <1>1, <1>2, <1>4 DEF Records, JobsApart
  <2>2. \A i, j \in JobId : i # j => procs'[i] \cap procs'[j] = {}
    BY <1>1, <1>4, <1>5 DEF Records, JobsApart
  <2> QED BY <2>1, <2>2 DEF JobsApart
<1>7. P \cap completed = {}
  BY <1>5 DEF Records, CompletedOfJobs
<1>8. CompletedIsDone' /\ CompletedOfJobs'
  <2>1. ASSUME NEW j \in Opened', procs'[j] \subseteq completed'
        PROVE  status'[j] = "DONE"
    <3>1. j # nextJobId
      BY <1>1, <1>4, <1>7, <2>1
    <3>2. j \in JobId \ {nextJobId} /\ j \in Opened
      BY <1>2, <2>1, <3>1 DEF Opened
    <3> QED BY <1>4, <2>1, <3>2 DEF Records, CompletedIsDone
  <2>2. \A p \in completed' : \E j \in JobId : p \in procs'[j]
    <3> SUFFICES ASSUME NEW p \in completed PROVE \E j \in JobId : p \in procs'[j]
      BY <1>4
    <3>1. PICK j \in JobId : p \in procs[j]
      BY DEF Records, CompletedOfJobs
    <3>2. j # nextJobId
      BY <1>1, <3>1 DEF Records, JobsApart
    <3> QED BY <1>4, <3>1, <3>2
  <2> QED BY <2>1, <2>2 DEF CompletedIsDone, CompletedOfJobs
<1>9. ReapIsRecorded'
  BY <1>1, <1>3, <1>4 DEF Records, ReapIsRecorded, Gone, IInv, TypeOK
<1>10. ToldIsTrue'
  BY <1>1, <1>4 DEF Records, ToldIsTrue, IInv, DoneIsCompleted
<1> QED BY <1>6, <1>8, <1>9, <1>10 DEF Records

\* Every step keeps the records.
LEMMA NextRecords == ASSUME IInv, Records, [Next]_vars PROVE Records'
<1>1. Calls'
  BY CallsStep DEF Records
<1>2. CASE \E P \in Group : Launch(P)
  BY <1>1, <1>2, LaunchRecords
<1>3. CASE Learns
  <2>1. DoneStays
    <3>1. CASE UNCHANGED vars
      BY <3>1 DEF vars, tableVars, DoneStays
    <3> QED BY <3>1, NextIInv
  <2> QED BY <1>1, <1>3, <2>1, LearnsRecords
<1> QED BY <1>2, <1>3, NextLearns

-----------------------------------------------------------------------------
(* No job ends unheard.  The notified flag alone does not tell that the     *)
(* user knows: updateStatus may find a job done that was shown as running   *)
(* and keep its flag.  That is harmless where jobs, which shows it, or wait *)
(* does so.  The check before a prompt must not: it does not when the shell *)
(* has waited for the processes itself, so that no status lags behind, and  *)
(* it is not made when nothing raises SIGCHLD or job control is off.        *)

\* The uses the program makes of the class: background commands are nobody's
\* children and job control is off; its own interface takes children only.
\* With processes of both kinds under job control a job can be erased unheard.
OneKind == Child = {} \/ Child = Pid \/ ~ Enabled

\* A job whose notified flag is set and that is done has been seen to be, or
\* will be before the call in progress returns.
NewsIsTold ==
  \A j \in table :
    status[j] = "DONE" /\ notified[j] =>
      told[j] = "DONE" \/ arg.op = "jobs" \/ (pc = "wait" /\ arg.job = j)

\* The prompt looks at jobs only when it may.
PromptAsksChildren == Child = Pid \/ (arg.op # "prompt" /\ (~ Enabled \/ ~ sigchld))

News == NoSilentErase /\ NewsIsTold /\ PromptAsksChildren

\* Initially there is no news.
LEMMA InitNews == Init => News
<1> SUFFICES ASSUME Init PROVE News
  OBVIOUS
<1>1. NoSilentErase /\ NewsIsTold
  BY DEF Init, NoSilentErase, NewsIsTold
<1>2. PromptAsksChildren
  BY DEF Init, NoArg, PromptAsksChildren
<1> QED BY <1>1, <1>2 DEF News

\* Only children raise SIGCHLD.
LEMMA PromptStep ==
  ASSUME OneKind, TypeOK, PromptAsksChildren, [Next]_vars
  PROVE  PromptAsksChildren'
<1> SUFFICES ASSUME Child # Pid
             PROVE  arg'.op # "prompt" /\ (~ Enabled \/ ~ sigchld')
  BY DEF PromptAsksChildren
<1>1. arg.op # "prompt" /\ (~ Enabled \/ (~ sigchld /\ Child = {}))
  BY DEF OneKind, PromptAsksChildren
<1>2. CASE Kernel
  <2>1. PICK p \in Pid : Exit(p) \/ Stop(p) \/ Continue(p) \/ InitReaps(p) \/ ReusePid(p)
    BY <1>2 DEF Kernel
  <2>2. arg' = arg
    BY <2>1 DEF Exit, Stop, Continue, InitReaps, ReusePid, shellVars
  <2>3. sigchld' = sigchld \/ Signals(p)
    BY <2>1 DEF Exit, Stop, Continue, InitReaps, ReusePid
  <2>4. ~ sigchld /\ Child = {} => ~ sigchld'
    BY <2>3 DEF Signals
  <2> QED BY <1>1, <2>2, <2>4
<1>3. CASE UserCommand
  <2>1. CASE \E P \in Group : Launch(P)
    BY <1>1, <2>1 DEF Launch, LaunchAs, Returns, NoArg
  <2>2. CASE \E running, halted \in BOOLEAN : JobsStart(running, halted)
    BY <1>1, <2>2 DEF JobsStart, kernelVars
  <2>3. CASE PromptStart
    BY <1>1, <2>3 DEF PromptStart
  <2>4. ASSUME NEW j \in JobId, NEW cmd \in {"fg", "bg", "wait"},
               Refuse(cmd, j) \/ NoSuchJob(cmd, j)
        PROVE  arg'.op # "prompt" /\ (~ Enabled \/ ~ sigchld')
    BY <1>1, <2>4 DEF Refuse, NoSuchJob, Returns, NoArg, kernelVars
  <2>5. ASSUME NEW j \in JobId, FgStart(j) \/ Bg(j)
        PROVE  arg'.op # "prompt" /\ (~ Enabled \/ ~ sigchld')
    <3>1. ~ Enabled \/ ~ sigchld'
      BY <1>1, <2>5 DEF FgStart, Bg, Resume, ResumeAlways, kernelVars
    <3>2. CASE FgStart(j)
      BY <3>1, <3>2 DEF FgStart, NoArg
    <3>3. CASE Bg(j)
      BY <3>1, <3>3 DEF Bg, Returns, NoArg
    <3> QED BY <2>5, <3>2, <3>3
  <2>6. ASSUME NEW j \in JobId, WaitStart(j)
        PROVE  arg'.op # "prompt" /\ (~ Enabled \/ ~ sigchld')
    BY <1>1, <2>6 DEF WaitStart, NoArg, kernelVars
  <2>7. CASE ExitRefused \/ ExitGranted \/ Eof
    BY <1>1, <2>7 DEF ExitRefused, ExitGranted, Eof, Leave, Returns, NoArg, kernelVars
  <2> QED BY <1>3, <2>1, <2>2, <2>3, <2>4, <2>5, <2>6, <2>7 DEF UserCommand, Builtin
<1>4. CASE InCall
  <2>1. CASE (\E p \in Pid : Reap(p)) \/ (\E j \in JobId : Probe(j) \/ Refresh(j))
             \/ ReapDone \/ ShowStart \/ WaitPoll
    <3>1. UNCHANGED <<arg, sigchld>>
      BY <2>1 DEF Reap, Probe, Refresh, ReapDone, ShowStart, WaitPoll, shellVars, kernelVars
    <3> QED BY <1>1, <3>1
  <2>2. CASE ShowAll \/ PromptNotify \/ WaitDone \/ FgNoChild
    BY <1>1, <2>2 DEF ShowAll, PromptNotify, WaitDone, FgNoChild, FgFinish, Returns, NoArg, kernelVars
  <2>3. CASE \E p \in Pid : FgWait(p)
    BY <1>1, <2>3 DEF FgWait, FgFinish, Returns, NoArg
  <2> QED BY <1>4, <2>1, <2>2, <2>3 DEF InCall
<1>5. CASE UNCHANGED vars
  BY <1>1, <1>5 DEF vars, kernelVars, shellVars
<1> QED BY <1>2, <1>3, <1>4, <1>5 DEF Next, Terminated

\* What the user knows of a job that is done, he knows for good.
LEMMA ToldStays ==
  ASSUME Records, Learns, DoneStays, NEW j \in JobId, told[j] = "DONE"
  PROVE  told'[j] = "DONE"
BY DEF Records, ToldIsTrue, Learns, DoneStays

\* A step keeps the news that erases no job, and sets no status that it does
\* not show or leave to the call in progress to show.
LEMMA NewsKept ==
  ASSUME IInv, Records, NewsIsTold, Learns, DoneStays, table' \subseteq table,
         \A j \in table' : status'[j] = "DONE" /\ notified'[j] =>
           \/ /\ status[j] = "DONE" /\ notified[j]
              /\ arg.op # "jobs" /\ ~ (pc = "wait" /\ arg.job = j)
           \/ arg'.op = "jobs" \/ (pc' = "wait" /\ arg'.job = j)
           \/ told'[j] = "DONE"
  PROVE  NewsIsTold'
<1> SUFFICES ASSUME NEW j \in table', status'[j] = "DONE", notified'[j],
                    arg'.op # "jobs", ~ (pc' = "wait" /\ arg'.job = j)
             PROVE  told'[j] = "DONE"
  BY DEF NewsIsTold
<1>1. j \in table /\ j \in JobId
  BY DEF IInv, TypeOK
<1> QED BY <1>1, ToldStays DEF NewsIsTold

\* The loops of updateStatus.  When the shell has only children, one that
\* kill does not find is marked already, so a job held to be running has a
\* process that is found.
LEMMA UpdateNews ==
  ASSUME OneKind, IInv, Records, News, Learns, DoneStays,
         \/ \E p \in Pid : Reap(p)
         \/ \E j \in JobId : Probe(j) \/ Refresh(j)
         \/ ReapDone \/ ShowStart
  PROVE  NewsIsTold'
<1>1. TypeOK /\ table \subseteq JobId
  BY DEF IInv, TypeOK
<1>2. CASE arg.op = "jobs"
  BY <1>2 DEF Reap, Probe, Refresh, ReapDone, ShowStart, shellVars, NewsIsTold
<1>3. ASSUME NEW p \in Pid, Reap(p), arg.op # "jobs"
      PROVE  NewsIsTold'
  <2>1. UNCHANGED <<table, pc, arg, told>> /\ pc = "reap"
    BY <1>3 DEF Reap, shellVars
  <2>2. ASSUME NEW i \in table, UpdateJob(i, WithExit(p), WithStop(p), {p}),
               notified' = NotifiedAfter(i, status'[i])
        PROVE  NewsIsTold'
    <3>1. \A j \in table \ {i} : status'[j] = status[j]
      BY <1>1, <2>2 DEF UpdateJob, TypeOK
    <3>2. /\ \A j \in table \ {i} : notified'[j] = notified[j]
          /\ status'[i] = "DONE" => notified'[i] = FALSE
      BY <1>1, <2>2 DEF NotifiedAfter, TypeOK
    <3> QED BY <1>3, <2>1, <3>1, <3>2, NewsKept DEF News
  <2>3. CASE UNCHANGED <<status, notified>>
    BY <1>3, <2>1, <2>3, NewsKept DEF News
  <2> QED BY <1>3, <2>2, <2>3 DEF Reap
<1>4. ASSUME NEW j \in JobId, Probe(j), arg.op # "jobs"
      PROVE  NewsIsTold'
  <2>1. UNCHANGED <<table, pc, arg, told, notified>> /\ pc = "probe" /\ j \in Opened
    BY <1>4 DEF Probe, IInv, IdsAreOpened
  <2>2. Child = Pid
    BY <1>4, <2>1 DEF Records, Calls, News, PromptAsksChildren
  <2>3. CASE UNCHANGED status
    BY <1>4, <2>1, <2>3, NewsKept DEF News
  <2>4. CASE status[j] = "RUNNING" /\ \A p \in procs[j] \ completed : ~ Answers(p)
    <3>1. ASSUME NEW p \in procs[j] \ completed PROVE FALSE
      <4>1. p \in Child /\ p \notin Foreign
        BY <1>1, <2>2, JobControlAssumption DEF TypeOK
      <4>2. proc[p] = "dead"
        BY <2>4, <4>1 DEF Answers, Exists, IInv, LaunchedOnly, Launched
      <4> QED BY <4>1, <4>2 DEF Records, ReapIsRecorded, Gone
    <3>2. status[j] = "DONE"
      BY <2>1, <3>1 DEF Records, CompletedIsDone
    <3> QED BY <2>4, <3>2
  <2> QED BY <1>4, <2>3, <2>4 DEF Probe
<1>5. ASSUME NEW j \in JobId, Refresh(j)
      PROVE  arg.op = "jobs"
  BY <1>5 DEF Refresh, Records, Calls
<1>6. CASE (ReapDone \/ ShowStart) /\ arg.op # "jobs"
  <2>1. UNCHANGED <<table, arg, told, status, notified>> /\ pc \in {"reap", "probe"}
    BY <1>6 DEF ReapDone, ShowStart, tableVars
  <2> QED BY <1>6, <2>1, NewsKept DEF News
<1> QED BY <1>2, <1>3, <1>4, <1>5, <1>6

\* fg, bg, wait and exit as they are entered.
LEMMA BeginNews ==
  ASSUME IInv, Records, News, Learns, DoneStays,
         \/ \E running, halted \in BOOLEAN : JobsStart(running, halted)
         \/ PromptStart
         \/ Builtin
  PROVE  NewsIsTold'
<1>1. TypeOK /\ table \subseteq JobId
  BY DEF IInv, TypeOK
<1>2. pc = "idle" /\ arg.op # "jobs"
  BY DEF JobsStart, PromptStart, Builtin, Records, Calls
<1>3. UNCHANGED <<table, notified>>
  BY DEF JobsStart, PromptStart, Builtin, Refuse, NoSuchJob, FgStart, Bg, WaitStart,
         ExitRefused, ExitGranted, Eof, Leave, tableVars
<1>4. \A j \in JobId : status'[j] = "DONE" => status[j] = "DONE"
  <2>1. CASE UNCHANGED status
    BY <2>1
  <2>2. ASSUME NEW i \in JobId, Resume(i)
        PROVE  \A j \in JobId : status'[j] = "DONE" => status[j] = "DONE"
    BY <1>1, <2>2 DEF Resume, ResumeAlways, TypeOK
  <2> QED BY <2>1, <2>2 DEF JobsStart, PromptStart, Builtin, Refuse, NoSuchJob, FgStart, Bg,
         WaitStart, ExitRefused, ExitGranted, Eof, Leave, tableVars
<1> QED BY <1>1, <1>2, <1>3, <1>4, NewsKept DEF News

\* fg and wait show what they learn.
LEMMA WaitingNews ==
  ASSUME IInv, Records, News, Learns, DoneStays,
         \/ \E p \in Pid : FgWait(p)
         \/ FgNoChild \/ WaitPoll \/ WaitDone
  PROVE  NewsIsTold'
<1> DEFINE j == arg.job
<1>1. j \in JobId /\ TypeOK /\ table \subseteq JobId
  BY DEF FgWait, FgNoChild, WaitPoll, WaitDone, IInv, IdsAreOpened, Opened, TypeOK
<1>2. arg.op # "jobs" /\ UNCHANGED <<table, notified>>
  BY DEF FgWait, FgNoChild, WaitPoll, WaitDone, tableVars, Records, Calls
<1>3. ASSUME \A i \in JobId \ {j} : status'[i] = status[i],
             status'[j] = "DONE" => \/ told'[j] = "DONE"
                                    \/ pc' = "wait" /\ arg'.job = j
                                    \/ pc = "fg" /\ status[j] = "DONE"
      PROVE  NewsIsTold'
  BY <1>1, <1>2, <1>3, NewsKept DEF News
<1>4. ASSUME NEW comp, NEW halt, FgFinish(j, comp, halt)
      PROVE  NewsIsTold'
  BY <1>1, <1>3, <1>4 DEF FgFinish, TypeOK
<1>5. CASE (\E p \in Pid : FgWait(p)) \/ FgNoChild
  <2>1. CASE UNCHANGED status /\ pc = "fg"
    BY <1>3, <2>1
  <2> QED BY <1>4, <1>5, <2>1 DEF FgWait, FgNoChild
<1>6. CASE WaitPoll
  BY <1>1, <1>3, <1>6 DEF WaitPoll, UpdateJob, shellVars, TypeOK
<1>7. CASE WaitDone
  BY <1>1, <1>3, <1>7 DEF WaitDone, tableVars, TypeOK
<1> QED BY <1>5, <1>6, <1>7

\* Every step keeps the news.
LEMMA NextNews == ASSUME OneKind, IInv, Records, News, [Next]_vars PROVE News'
<1>1. PromptAsksChildren'
  BY PromptStep DEF IInv, News
<1>2. CASE \E P \in Group : Launch(P)
  <2>1. PICK P \in Group : Launch(P)
    BY <1>2
  <2>2. /\ nextJobId \in JobId /\ nextJobId' = nextJobId + 1
        /\ table' = table \cup {nextJobId} /\ told' = told
        /\ \A j \in JobId \ {nextJobId} : status'[j] = status[j] /\ notified'[j] = notified[j]
        /\ status'[nextJobId] = "RUNNING"
    BY <2>1 DEF Launch, LaunchAs, IInv, TypeOK
  <2>3. NoSilentErase'
    BY <2>2 DEF NoSilentErase, News, IInv, TypeOK
  <2>4. arg.op # "jobs" /\ pc # "wait"
    BY <2>1 DEF Launch, LaunchAs, Records, Calls
  <2>5. NewsIsTold'
    BY <2>2, <2>4 DEF NewsIsTold, News, IInv, TypeOK
  <2> QED BY <1>1, <2>3, <2>5 DEF News
<1>3. CASE Learns
  <2>1. DoneStays
    <3>1. CASE UNCHANGED vars
      BY <3>1 DEF vars, tableVars, DoneStays
    <3> QED BY <3>1, NextIInv
  <2>2. CASE ShowAll \/ PromptNotify
    <3>1. /\ table' = Kept(notified')
          /\ \A j \in table : status[j] = "DONE" /\ notified'[j] => notified[j] \/ told'[j] = "DONE"
      BY <2>2 DEF ShowAll, PromptNotify, NotifyAndClean, Tell, IInv, TypeOK
    <3>2. pc # "wait" /\ (arg.op = "jobs" => ShowAll) /\ UNCHANGED status
      BY <2>2 DEF ShowAll, PromptNotify
    <3>3. NewsIsTold'
      BY <3>1, <3>2 DEF Kept, NewsIsTold
    <3>4. ASSUME NEW j \in table, j \notin table'
          PROVE  told'[j] = "DONE"
      <4>1. status[j] = "DONE" /\ notified'[j] /\ j \in JobId
        BY <3>1, <3>4 DEF Kept, IInv, TypeOK
      <4>2. CASE ShowAll
        BY <4>1, <4>2 DEF ShowAll, Shown, NotifyAndClean, Tell
      <4>3. CASE notified[j] /\ ~ ShowAll
        BY <1>3, <2>1, <3>2, <4>1, <4>3, ToldStays DEF News, NewsIsTold
      <4> QED BY <3>1, <4>1, <4>2, <4>3
    <3>5. NoSilentErase'
      BY <1>3, <2>1, <3>4, ToldStays DEF Learns, News, NoSilentErase
    <3> QED BY <1>1, <3>3, <3>5 DEF News
  <2>3. CASE ~ (ShowAll \/ PromptNotify) /\ ~ UNCHANGED vars
             /\ ~ \E P \in Group : Launch(P)
    <3>1. table' = table
      BY <2>3 DEF Next, Terminated, Kernel, Exit, Stop, Continue, InitReaps, ReusePid,
             UserCommand, JobsStart, PromptStart, Builtin, Refuse, NoSuchJob, FgStart, Bg,
             WaitStart, ExitRefused, ExitGranted, Eof, Leave, InCall, Reap, Probe, Refresh,
             ReapDone, ShowStart, FgWait, FgNoChild, WaitPoll, WaitDone, tableVars
    <3>2. NoSilentErase'
      BY <1>3, <2>1, <3>1, ToldStays DEF Learns, News, NoSilentErase
    <3>3. CASE Kernel
      <4>1. UNCHANGED <<table, status, notified, told, arg, pc>>
        BY <3>3 DEF Kernel, Exit, Stop, Continue, InitReaps, ReusePid, tableVars, shellVars
      <4> QED BY <1>1, <3>2, <4>1 DEF News, NewsIsTold
    <3>4. CASE UserCommand
      <4>1. NewsIsTold'
        BY <1>3, <2>1, <2>3, <3>4, BeginNews DEF UserCommand
      <4> QED BY <1>1, <3>2, <4>1 DEF News
    <3>5. CASE InCall
      <4>1. CASE (\E p \in Pid : Reap(p)) \/ (\E j \in JobId : Probe(j) \/ Refresh(j))
                 \/ ReapDone \/ ShowStart
        BY <1>1, <1>3, <2>1, <3>2, <4>1, UpdateNews DEF News
      <4>2. CASE (\E p \in Pid : FgWait(p)) \/ FgNoChild \/ WaitPoll \/ WaitDone
        BY <1>1, <1>3, <2>1, <3>2, <4>2, WaitingNews DEF News
      <4> QED BY <2>3, <3>5, <4>1, <4>2 DEF InCall
    <3> QED BY <2>3, <3>3, <3>4, <3>5 DEF Next, Terminated
  <2>4. CASE UNCHANGED vars
    <3>1. UNCHANGED <<table, status, notified, told, arg, pc, nextJobId>>
      BY <2>4 DEF vars, tableVars, shellVars
    <3> QED BY <1>1, <3>1 DEF News, NewsIsTold, NoSilentErase
  <2>5. CASE \E P \in Group : Launch(P)
    BY <1>2, <2>5
  <2> QED BY <2>2, <2>3, <2>4, <2>5
<1> QED BY <1>2, <1>3, NextLearns

-----------------------------------------------------------------------------
(* The refinement.  The jobs that are over are those the exits of their     *)
(* last processes made so; the table learns of it later, tells the user and *)
(* forgets.  A step of the table is therefore the opening of one job, the   *)
(* end of one, or tells of some that are over and closes some told of.      *)

Overs     == {j \in JobId : j < nextJobId /\ JobIsOver(j)}
Announced == {j \in JobId : told[j] = "DONE"}

\* Whatever the table has learned is over: without foreign processes a job held
\* to be done is one whose processes are gone.
LEMMA DoneIsOver ==
  ASSUME Foreign = {}, IInv', NEW j \in JobId, status'[j] = "DONE"
  PROVE  j \in Overs'
<1>1. j \in Opened' /\ procs'[j] \subseteq completed'
  BY DEF IInv, DoneIsCompleted
<1>2. \A p \in procs'[j] : proc'[p] \in Ended
  BY <1>1 DEF IInv, NoFalseCompletion, Gone, Ended
<1> QED BY <1>1, <1>2 DEF Overs, JobIsOver, Opened

\* Only an exit ends a process, and only a launch starts one.
LEMMA EndsByExit ==
  ASSUME TypeOK, [Next]_vars
  PROVE  \/ \E p \in Pid : Exit(p)
         \/ \E P \in Group : Launch(P)
         \/ \A p \in Pid : proc'[p] \in Ended <=> proc[p] \in Ended
<1> USE DEF Ended
<1>1. ASSUME NEW S \in SUBSET Pid, WaitOn(S)
      PROVE  \A p \in Pid : proc'[p] \in Ended <=> proc[p] \in Ended
  BY <1>1 DEF WaitOn, Exited
<1>2. ASSUME NEW S, WaitOn(S)
      PROVE  \A p \in Pid : proc'[p] \in Ended <=> proc[p] \in Ended
  BY <1>2 DEF WaitOn, Exited
<1>3. CASE UNCHANGED proc
  BY <1>3
<1>4. CASE Kernel
  BY <1>4 DEF Kernel, Stop, Continue, InitReaps, ReusePid, Becomes, TypeOK
<1>5. CASE UserCommand
  <2>1. ASSUME NEW j \in JobId, Resume(j)
        PROVE  \A p \in Pid : proc'[p] \in Ended <=> proc[p] \in Ended
    BY <2>1 DEF Resume, ResumeAlways, kernelVars
  <2> QED BY <1>3, <1>5, <2>1
          DEF UserCommand, JobsStart, PromptStart, Builtin, Refuse, NoSuchJob, FgStart, Bg,
              WaitStart, ExitRefused, ExitGranted, Eof, Leave, kernelVars
<1>6. CASE InCall
  BY <1>2, <1>3, <1>6
     DEF InCall, Reap, Probe, Refresh, ReapDone, ShowStart, ShowAll, PromptNotify, FgWait,
         FgNoChild, WaitPoll, WaitDone, UpdateJob, kernelVars
<1>7. CASE UNCHANGED vars
  BY <1>7 DEF vars, kernelVars
<1> QED BY <1>4, <1>5, <1>6, <1>7 DEF Next, Terminated

\* The ledger's end of a job: the exit of a process ends at most the job it
\* belongs to, and the table notices nothing.
LEMMA ExitFinishes ==
  ASSUME IInv, Records, NEW p \in Pid, Exit(p)
  PROVE  [Ledger!Next]_Ledger!vars
<1>1. /\ UNCHANGED <<table, procs, nextJobId, told>>
      /\ \A q \in Pid \ {p} : proc'[q] = proc[q]
      /\ proc[p] \notin Ended /\ proc'[p] \in Ended
  BY DEF Exit, Becomes, tableVars, shellVars, Ended, IInv, TypeOK
<1>2. view' = view /\ Announced' = Announced
  BY <1>1 DEF view, Announced
<1>3. \A j \in JobId : procs[j] \subseteq Pid
  BY DEF IInv, TypeOK
<1>4. CASE \E j \in Opened : p \in procs[j] /\ JobIsOver(j)'
  <2>1. PICK j \in Opened : p \in procs[j] /\ JobIsOver(j)'
    BY <1>4
  <2>2. \A i \in JobId \ {j} : JobIsOver(i)' <=> JobIsOver(i)
    BY <1>1, <1>3, <2>1 DEF JobIsOver, Records, JobsApart, Opened
  <2>3. Overs' = Overs \cup {j} /\ j \notin Overs /\ j \in JobId
    BY <1>1, <2>1, <2>2 DEF Overs, JobIsOver, Opened
  <2>4. view[j] # "unused"
    BY <2>1, <2>3 DEF view, Opened, IInv, TypeOK
  <2>5. Ledger!Finish(j)
    BY <1>2, <2>3, <2>4 DEF Ledger!Finish, Overs, Announced
  <2> QED BY <2>3, <2>5 DEF Ledger!Next
<1>5. CASE ~ \E j \in Opened : p \in procs[j] /\ JobIsOver(j)'
  <2>1. \A i \in Opened : JobIsOver(i)' <=> JobIsOver(i)
    BY <1>1, <1>3, <1>5 DEF JobIsOver, Opened
  <2>2. Overs' = Overs
    BY <1>1, <2>1 DEF Overs, Opened
  <2> QED BY <1>2, <2>2 DEF Ledger!vars, Overs, Announced
<1> QED BY <1>4, <1>5

\* The ledger's opening of a job.
LEMMA LaunchOpens ==
  ASSUME IInv, Records, NEW P \in Group, Launch(P)
  PROVE  Ledger!Next
<1> USE JobControlAssumption DEF Launch, LaunchAs
<1>1. /\ nextJobId \in JobId /\ nextJobId' = nextJobId + 1 /\ P \subseteq Pid /\ P # {}
      /\ table' = table \cup {nextJobId} /\ told' = told
      /\ \A j \in JobId \ {nextJobId} : procs'[j] = procs[j]
      /\ procs'[nextJobId] = P
      /\ nextJobId \notin table
  BY DEF IInv, TypeOK, IdsAreOpened, Opened
<1>2. /\ \A q \in Pid \ P : proc'[q] = proc[q]
      /\ \A q \in P : proc[q] = "unborn" /\ proc'[q] = "running"
  BY <1>1 DEF IInv, TypeOK
<1>3. \A j \in JobId : procs[j] \subseteq Pid /\ procs[j] \cap P = {}
  BY <1>2 DEF IInv, TypeOK, LaunchedOnly, Launched
<1>4. /\ \A j \in JobId \ {nextJobId} : JobIsOver(j)' <=> JobIsOver(j)
      /\ \A j \in JobId : j = nextJobId => ~ JobIsOver(j)'
  <2>1. \A j \in JobId \ {nextJobId} : \A q \in procs[j] : proc'[q] = proc[q]
    BY <1>2, <1>3
  <2>2. PICK q \in P : proc'[q] = "running"
    BY <1>1, <1>2
  <2>3. ASSUME NEW j \in JobId \ {nextJobId}
        PROVE  JobIsOver(j)' <=> JobIsOver(j)
    BY <1>1, <2>1 DEF JobIsOver
  <2>4. ASSUME NEW j \in JobId, j = nextJobId
        PROVE  ~ JobIsOver(j)'
    BY <2>4, <1>1, <2>2 DEF JobIsOver, Ended
  <2> QED BY <2>3, <2>4
<1>5. Overs' = Overs /\ Announced' = Announced
  <2>1. \A j \in JobId : j < nextJobId' <=> j < nextJobId \/ j = nextJobId
    BY <1>1 DEF IInv, TypeOK
  <2>2. ~ (nextJobId < nextJobId)
    BY <1>1
  <2>3. ASSUME NEW j \in JobId
        PROVE  j < nextJobId' /\ JobIsOver(j)' <=> j < nextJobId /\ JobIsOver(j)
    <3>1. CASE j = nextJobId
      BY <1>4, <2>2, <3>1
    <3>2. CASE j # nextJobId
      BY <1>4, <2>1, <3>2
    <3> QED BY <3>1, <3>2
  <2> QED BY <1>1, <2>3 DEF Overs, Announced
<1>6. /\ view[nextJobId] = "unused"
      /\ \A i \in JobId : i < nextJobId => view[i] # "unused"
  BY <1>1 DEF view
<1>7. view' = [view EXCEPT ![nextJobId] = "listed"]
  <2>1. \A j \in JobId \ {nextJobId} : /\ j >= nextJobId' <=> j >= nextJobId
                                       /\ j \in table' <=> j \in table
    BY <1>1 DEF IInv, TypeOK
  <2>2. ~ (nextJobId >= nextJobId') /\ nextJobId \in table'
    BY <1>1
  <2> QED BY <1>1, <2>1, <2>2 DEF view
<1>8. Ledger!Open(nextJobId)
  BY <1>5, <1>6, <1>7 DEF Ledger!Open, Overs, Announced
<1> QED BY <1>1, <1>8 DEF Ledger!Next

\* The ledger's other steps: what the table tells and forgets, at once or not.
LEMMA TellsAndForgets ==
  ASSUME Foreign = {}, IInv, IInv', Records, Records', News, News', Learns, DoneStays,
         \A p \in Pid : proc'[p] \in Ended <=> proc[p] \in Ended
  PROVE  [Ledger!Next]_Ledger!vars
<1>a. PICK S \in SUBSET JobId : S = table \ table'
  BY DEF IInv, TypeOK
<1>b. PICK new \in SUBSET JobId : new = Announced' \ Announced
  BY DEF Announced
<1>1. UNCHANGED <<procs, nextJobId>> /\ table' \subseteq table
  <2>1. table' \subseteq table \cup {nextJobId} /\ table' \subseteq Opened'
    BY DEF DoneStays, IInv, IdsAreOpened
  <2>2. nextJobId \notin Opened'
    BY DEF Learns, Opened, IInv, TypeOK
  <2> QED BY <2>1, <2>2 DEF Learns
<1>2. Overs' = Overs
  BY <1>1 DEF Overs, JobIsOver, IInv, TypeOK
<1>3. Announced \subseteq Announced'
  BY ToldStays DEF Announced
<1>4. Announced' \subseteq Overs
  <2>1. \A j \in Announced' : status'[j] = "DONE" /\ j \in JobId
    BY DEF Announced, Records, ToldIsTrue
  <2>2. \A j \in JobId : status'[j] = "DONE" => j \in Overs'
    BY DoneIsOver
  <2> QED BY <1>2, <2>1, <2>2
<1>5. Announced' = Announced \cup new
  BY <1>3, <1>b
<1>6. ASSUME NEW j \in JobId, j \in S \/ j \in new
      PROVE  view[j] = "listed"
  <2>1. j < nextJobId
    BY <1>4, <1>6, <1>a, <1>b DEF Overs, IInv, IdsAreOpened, Opened
  <2>2. j \in table
    BY <1>6, <1>a, <1>b, <2>1 DEF News, NoSilentErase, Announced
  <2> QED BY <2>1, <2>2 DEF view, IInv, TypeOK
<1>7. CASE S # {}
  <2>1. S \subseteq JobId /\ new \subseteq JobId /\ new \subseteq Overs
    BY <1>4, <1>b
  <2>2. S \subseteq Announced'
    <3> SUFFICES ASSUME NEW j \in S PROVE told'[j] = "DONE" /\ j \in JobId
      BY DEF Announced
    <3>1. j \in JobId /\ j < nextJobId'
      BY <1>1, <1>a DEF IInv, TypeOK, IdsAreOpened, Opened
    <3> QED BY <1>a, <3>1 DEF News, NoSilentErase
  <2>3. view' = [j \in JobId |-> IF j \in S THEN "closed" ELSE view[j]]
    BY <1>1, <1>a, <2>1 DEF view, IInv, TypeOK, IdsAreOpened, Opened
  <2>4. Ledger!Close(S, new)
    BY <1>2, <1>4, <1>5, <1>6, <1>7, <2>1, <2>2, <2>3 DEF Ledger!Close, Overs, Announced
  <2> QED BY <2>4 DEF Ledger!Next
<1>8. CASE S = {}
  <2>1. view' = view
    <3>1. table' = table
      BY <1>1, <1>8, <1>a
    <3> QED BY <1>1, <3>1 DEF view
  <2>2. CASE new = {}
    <3>1. Announced' = Announced
      BY <1>5, <2>2
    <3> QED BY <1>2, <2>1, <3>1 DEF Ledger!vars, Overs, Announced
  <2>3. CASE new # {}
    <3>1. new \subseteq JobId /\ new \subseteq Overs
      BY <1>4, <1>b
    <3>2. Ledger!Announce(new)
      BY <1>2, <1>5, <1>6, <2>1, <2>3, <3>1 DEF Ledger!Announce, Overs, Announced
    <3> QED BY <3>2 DEF Ledger!Next
  <2> QED BY <2>2, <2>3
<1> QED BY <1>7, <1>8

\* The initial states are initial states of the ledger.
LEMMA InitLedger == Init => Ledger!Init
<1> SUFFICES ASSUME Init PROVE Ledger!Init
  OBVIOUS
<1>1. \A j \in JobId : ~ (j < nextJobId) /\ j >= nextJobId
  BY DEF Init
<1>2. view = [j \in JobId |-> "unused"]
  BY <1>1 DEF view
<1>3. Overs = {} /\ Announced = {}
  BY <1>1 DEF Overs, Announced, Init
<1> QED BY <1>2, <1>3 DEF Ledger!Init, Overs, Announced

\* Every step is a step of the ledger or leaves it alone.
LEMMA NextLedger ==
  ASSUME OneKind, Foreign = {}, IInv, Records, News, [Next]_vars
  PROVE  [Ledger!Next]_Ledger!vars
<1>1. IInv' /\ Records' /\ News'
  BY NextIInv, NextRecords, NextNews
<1>2. CASE \E p \in Pid : Exit(p)
  BY <1>2, ExitFinishes
<1>3. CASE \E P \in Group : Launch(P)
  BY <1>3, LaunchOpens
<1>4. CASE Learns /\ \A p \in Pid : proc'[p] \in Ended <=> proc[p] \in Ended
  <2>1. DoneStays
    <3>1. CASE UNCHANGED vars
      BY <3>1 DEF vars, tableVars, DoneStays
    <3> QED BY <3>1, NextIInv
  <2> QED BY <1>1, <1>4, <2>1, TellsAndForgets
<1> QED BY <1>2, <1>3, <1>4, NextLearns, EndsByExit DEF IInv

-----------------------------------------------------------------------------
(* The theorems.                                                           *)

\* The inductive invariant holds for every set of processes, every choice of
\* children, foreign processes and options, and every number of jobs.
THEOREM InvariantTheorem == Spec => []IInv
<1>1. IInv /\ [Next]_vars => IInv'
  BY NextIInv
<1> QED BY <1>1, InitIInv, PTL DEF Spec

\* Every variable of the job table always has its type.
THEOREM TypeTheorem == Spec => []TypeOK
<1>1. IInv => TypeOK
  BY DEF IInv
<1> QED BY <1>1, InvariantTheorem, PTL

\* Whatever order waitpid, kill and the life of the processes take, no process
\* is held to be completed that is not gone.
THEOREM CompletionTheorem == Spec => []NoFalseCompletion
<1>1. IInv => NoFalseCompletion
  BY DEF IInv
<1> QED BY <1>1, InvariantTheorem, PTL

\* A process that exists is always listed by a job not yet held to be done.
THEOREM TrackingTheorem == Spec => []LiveTracked
<1>1. IInv => LiveTracked
  BY DEF IInv
<1> QED BY <1>1, InvariantTheorem, PTL

\* exit lets an interactive shell go only when no process of a job is left.
THEOREM ExitTheorem == Spec => []SafeExit
<1>1. IInv => SafeExit
  BY DEF IInv
<1> QED BY <1>1, InvariantTheorem, PTL

\* A job that is done stays done, and ids are never given twice.
THEOREM DoneTheorem == Spec => DoneIsFinal
<1>1. IInv /\ [Next]_vars =>
        [/\ \A j \in JobId : status[j] = "DONE" => status'[j] = "DONE"
         /\ \A j \in JobId : j < nextJobId => procs'[j] = procs[j]
         /\ table' \subseteq table \cup {nextJobId}]_vars
  BY NextIInv DEF DoneStays
<1> QED BY <1>1, InvariantTheorem, PTL DEF Spec, DoneIsFinal

\* The records hold along with the invariant.
THEOREM RecordsTheorem == Spec => []Records
<1>1. IInv /\ Records /\ [Next]_vars => Records'
  BY NextRecords
<1> QED BY <1>1, InitRecords, InvariantTheorem, PTL DEF Spec

\* No wait status is lost: whoever waits for a child marks it in its job.
THEOREM ReapTheorem == Spec => []ReapIsRecorded
<1>1. Records => ReapIsRecorded
  BY DEF Records
<1> QED BY <1>1, RecordsTheorem, PTL

\* The news is told, in both uses of the class.
THEOREM NewsTheorem == ASSUME OneKind PROVE Spec => []News
<1>1. IInv /\ Records /\ News /\ [Next]_vars => News'
  BY NextNews
<1> QED BY <1>1, InitNews, InvariantTheorem, RecordsTheorem, PTL DEF Spec

\* A job leaves the table only after the user was shown that it is done.
THEOREM EraseTheorem == ASSUME OneKind PROVE Spec => []NoSilentErase
<1>1. News => NoSilentErase
  BY DEF News
<1> QED BY <1>1, NewsTheorem, PTL

\* The job table, with all its system calls, implements the ledger, unless it
\* holds processes it has no right to signal (which kill makes it take for gone).
THEOREM LedgerTheorem == ASSUME OneKind, Foreign = {} PROVE Spec => ImplementsLedger
<1>1. IInv /\ Records /\ News /\ [Next]_vars => [Ledger!Next]_Ledger!vars
  BY NextLedger
<1> QED BY <1>1, InitLedger, InvariantTheorem, RecordsTheorem, NewsTheorem, PTL
        DEF Spec, ImplementsLedger, Ledger!Spec
=============================================================================
