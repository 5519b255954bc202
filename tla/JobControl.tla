----------------------------- MODULE JobControl -----------------------------
(***************************************************************************)
(* The job table of the shell: classes Process, Job and JobControl of      *)
(* src/job/job_control.cpp, driven by the built-ins jobs, fg, bg, wait and *)
(* exit and by the check runInteractive makes before it prints a prompt.   *)
(*                                                                         *)
(* The shell learns about processes only by asking the kernel (waitpid     *)
(* with WNOHANG, kill with signal 0), and processes change state between   *)
(* any two questions.  A built-in is therefore a sequence of steps, one    *)
(* per waitpid(-1) and one per job visited; the processes move in between. *)
(***************************************************************************)
EXTENDS Naturals

CONSTANTS
  Pid,          \* processes that may be put under job control
  Group,        \* the sets of processes a job can be launched with
  Child,        \* processes that are children of the shell; a process that
                \* was forked twice belongs to init instead
  Foreign,      \* processes the shell has no right to signal (EPERM)
  Enabled,      \* JobControl::enabled_
  Interactive,  \* Shell::interactive_
  MaxJobs       \* bound: how many times addJob is called

ASSUME JobControlAssumption ==
  /\ Group \subseteq (SUBSET Pid) \ {{}}
  /\ Child \subseteq Pid
  /\ Foreign \subseteq Pid \ Child
  /\ Enabled \in BOOLEAN /\ Interactive \in BOOLEAN
  /\ MaxJobs \in Nat

JobId   == 1 .. MaxJobs
NoJob   == 0                 \* stands for the id -1
Status  == {"RUNNING", "STOPPED", "DONE"}
Life    == {"unborn", "running", "stopped", "zombie", "dead", "reused"}
Gone    == {"dead", "reused"}
Command == {"none", "launch", "jobs", "fg", "bg", "wait", "exit", "eof"}

VARIABLES
  proc,         \* what each process really is
  seen,         \* stopped children whose stop waitpid has reported already
  sigchld,      \* Shell::received_sigchld
  table,        \* keys of jobs_
  procs,        \* Job::processes_
  status,       \* Job::status_
  notified,     \* Job::notified_
  completed,    \* processes with Process::completed_
  stopped,      \* processes with Process::stopped_
  nextJobId,    \* next_job_id_
  currentJobId, \* current_job_id_
  told,         \* what the user was last shown about each job
  pc,           \* where the shell is in the current built-in
  todo,         \* jobs the current loop over jobs_ has still to visit
  arg,          \* arguments of the current built-in
  last          \* the last built-in that returned, and whether it did its work

kernelVars == <<proc, seen, sigchld>>
tableVars  == <<table, procs, status, notified, completed, stopped,
                nextJobId, currentJobId>>
shellVars  == <<told, pc, todo, arg, last>>
vars       == <<kernelVars, tableVars, shellVars>>

NoArg == [op |-> "none", job |-> NoJob, running |-> TRUE, stopped |-> TRUE]
NoCmd == [cmd |-> "none", job |-> NoJob, ok |-> TRUE]

TypeOK ==
  /\ proc \in [Pid -> Life]
  /\ seen \subseteq Pid
  /\ sigchld \in BOOLEAN
  /\ table \subseteq JobId
  /\ procs \in [JobId -> SUBSET Pid]
  /\ status \in [JobId -> Status]
  /\ notified \in [JobId -> BOOLEAN]
  /\ completed \subseteq Pid
  /\ stopped \subseteq Pid
  /\ nextJobId \in 1 .. MaxJobs + 1
  /\ currentJobId \in JobId \cup {NoJob}
  /\ told \in [JobId -> Status \cup {"nothing"}]
  /\ pc \in {"idle", "reap", "probe", "refresh", "fg", "wait", "exited"}
  /\ todo \subseteq JobId
  /\ arg \in [op : {"none", "jobs", "prompt", "fg", "wait"},
              job : JobId \cup {NoJob}, running : BOOLEAN, stopped : BOOLEAN]
  /\ last \in [cmd : Command, job : JobId \cup {NoJob}, ok : BOOLEAN]

Init ==
  /\ proc = [p \in Pid |-> "unborn"]
  /\ seen = {}
  /\ sigchld = FALSE
  /\ table = {}
  /\ procs = [j \in JobId |-> {}]
  /\ status = [j \in JobId |-> "RUNNING"]
  /\ notified = [j \in JobId |-> FALSE]
  /\ completed = {}
  /\ stopped = {}
  /\ nextJobId = 1
  /\ currentJobId = NoJob
  /\ told = [j \in JobId |-> "nothing"]
  /\ pc = "idle"
  /\ todo = {}
  /\ arg = NoArg
  /\ last = NoCmd

-----------------------------------------------------------------------------
(* The kernel.  A dead child stays a zombie until the shell waits for it,  *)
(* any other process until init does; the number of a process that is gone *)
(* may be given to a program the shell knows nothing about.                *)

Becomes(p, life) ==
  /\ proc' = [proc EXCEPT ![p] = life]
  /\ seen' = seen \ {p}

Signals(p) == sigchld' = (sigchld \/ p \in Child)

Exit(p) ==
  /\ proc[p] \in {"running", "stopped"}
  /\ Becomes(p, "zombie") /\ Signals(p)
  /\ UNCHANGED <<tableVars, shellVars>>

Stop(p) ==
  /\ proc[p] = "running"
  /\ Becomes(p, "stopped") /\ Signals(p)
  /\ UNCHANGED <<tableVars, shellVars>>

Continue(p) ==
  /\ proc[p] = "stopped"
  /\ Becomes(p, "running") /\ Signals(p)
  /\ UNCHANGED <<tableVars, shellVars>>

InitReaps(p) ==
  /\ p \notin Child
  /\ proc[p] = "zombie"
  /\ Becomes(p, "dead")
  /\ UNCHANGED <<sigchld, tableVars, shellVars>>

ReusePid(p) ==
  /\ proc[p] = "dead"
  /\ Becomes(p, "reused")
  /\ UNCHANGED <<sigchld, tableVars, shellVars>>

Kernel ==
  \E p \in Pid : Exit(p) \/ Stop(p) \/ Continue(p) \/ InitReaps(p) \/ ReusePid(p)

\* kill(p, 0) finds a process with this number; kill(p, 0) = 0.
Exists(p)  == proc[p] \notin {"unborn", "dead"}
Answers(p) == Exists(p) /\ p \notin Foreign

\* What waitpid(p, WNOHANG | WUNTRACED) answers: ECHILD, p exited, p stopped.
NoChild(p) == p \notin Child \/ proc[p] \in Gone
Exited(p)  == p \in Child /\ proc[p] = "zombie"
Halted(p)  == p \in Child /\ proc[p] = "stopped" /\ p \notin seen
Pending(p) == Exited(p) \/ Halted(p)

\* The effect of such calls on the kernel, for every process of S.
WaitOn(S) ==
  /\ proc' = [p \in Pid |-> IF p \in S /\ Exited(p) THEN "dead" ELSE proc[p]]
  /\ seen' = seen \cup {p \in S : Halted(p)}

-----------------------------------------------------------------------------
(* Job and JobControl.                                                     *)

IsCompleted(P, comp)     == P \subseteq comp
IsStopped(P, comp, halt) == P \subseteq comp \cup halt

StatusOf(P, comp, halt) ==
  CASE IsCompleted(P, comp)       -> "DONE"
    [] ~ IsCompleted(P, comp) /\ IsStopped(P, comp, halt) -> "STOPPED"
    [] ~ IsStopped(P, comp, halt) -> "RUNNING"

\* Mutant: ECHILD alone is taken for the end of a process forked twice.
FoundOverUnasked(p) == Exited(p) \/ NoChild(p)

\* A process Job::updateStatus finds to be over: waitpid reports it, or there
\* is no such child and kill(pid, 0) does not succeed.
FoundOver(p) == Exited(p) \/ (NoChild(p) /\ ~ Answers(p))

\* Job::updateStatus, entered with the flags comp and halt and after a
\* waitpid that already reported the processes of waited.
UpdateJob(j, comp, halt, waited) ==
  LET polled == procs[j] \ comp
      over   == comp \cup {p \in polled : FoundOver(p)}
      held   == halt \cup {p \in polled : Halted(p)}
  IN  /\ completed' = over
      /\ stopped' = held
      /\ status' = [status EXCEPT ![j] = StatusOf(procs[j], over, held)]
      /\ WaitOn(polled \cup waited)

\* Mutant: cleanupJobs looks at the notified flags only.
KeptUnseen(done) == {j \in table : ~ done[j]}

\* cleanupJobs: the jobs it leaves, given the notified flags.
Kept(done) == {j \in table : ~ (status[j] = "DONE" /\ done[j])}

\* Mutant: only stopped jobs count.
HasStoppedJobs == \E j \in table : status[j] = "STOPPED"

HasActiveJobs == \E j \in table : status[j] \in {"RUNNING", "STOPPED"}

\* Mutant: the end of a process is noted for the current job only.
WithExitOfCurrent(p) ==
  IF Exited(p) /\ p \in procs[currentJobId] THEN completed \cup {p} ELSE completed

\* The flags once waitpid has reported p.
WithExit(p) == IF Exited(p) THEN completed \cup {p} ELSE completed
WithStop(p) == IF Halted(p) THEN stopped \cup {p} ELSE stopped

\* Mutant: setNotified(false) is missing.
NotifiedStays(j, st) == notified

\* updateStatus makes job j news again when its new status is DONE or STOPPED.
NotifiedAfter(j, st) ==
  IF st \in {"DONE", "STOPPED"} THEN [notified EXCEPT ![j] = FALSE] ELSE notified

Returns(cmd, j, ok) ==
  /\ pc' = "idle"
  /\ arg' = NoArg
  /\ last' = [cmd |-> cmd, job |-> j, ok |-> ok]

-----------------------------------------------------------------------------
(* command &: addJob, addProcess and setCurrentJobId for processes that    *)
(* have just been started.                                                 *)

LaunchAs(P, id, current) ==
  /\ pc = "idle"
  /\ \A p \in P : proc[p] = "unborn"
  /\ nextJobId <= MaxJobs
  /\ proc' = [p \in Pid |-> IF p \in P THEN "running" ELSE proc[p]]
  /\ table' = table \cup {id}
  /\ procs' = [procs EXCEPT ![id] = P]
  /\ status' = [status EXCEPT ![id] = "RUNNING"]
  /\ notified' = [notified EXCEPT ![id] = FALSE]
  /\ currentJobId' = current
  /\ nextJobId' = nextJobId + 1
  /\ Returns("launch", id, TRUE)
  /\ UNCHANGED <<seen, sigchld, completed, stopped, told, todo>>

\* Mutants: the current id is read after the increment; the smallest id that
\* is free is given again.
LaunchLate(P) == LaunchAs(P, nextJobId, nextJobId + 1)
LaunchReusing(P) ==
  \E id \in JobId \ table :
    (\A i \in JobId \ table : id <= i) /\ LaunchAs(P, id, id)

Launch(P) == LaunchAs(P, nextJobId, nextJobId)

(* jobs [-rs], and the check before a prompt: both begin with              *)
(* updateStatus(0).                                                        *)

JobsStart(running, halted) ==
  /\ pc = "idle"
  /\ running \/ halted
  /\ pc' = "reap"
  /\ arg' = [op |-> "jobs", job |-> NoJob, running |-> running, stopped |-> halted]
  /\ last' = NoCmd
  /\ UNCHANGED <<kernelVars, tableVars, told, todo>>

PromptStart ==
  /\ pc = "idle" /\ sigchld
  /\ sigchld' = FALSE
  /\ IF Enabled
       THEN pc' = "reap" /\ arg' = [NoArg EXCEPT !.op = "prompt"]
       ELSE UNCHANGED <<pc, arg>>
  /\ UNCHANGED <<proc, seen, tableVars, told, todo, last>>

\* waitpid(-1) reports child p, which may or may not belong to a job.
Reap(p) ==
  /\ pc = "reap"
  /\ Pending(p)
  /\ IF \E j \in table : p \in procs[j]
       THEN \E j \in table :
              /\ p \in procs[j]
              /\ UpdateJob(j, WithExit(p), WithStop(p), {p})
              /\ notified' = NotifiedAfter(j, status'[j])
       ELSE WaitOn({p}) /\ UNCHANGED <<completed, stopped, status, notified>>
  /\ UNCHANGED <<sigchld, table, procs, nextJobId, currentJobId, shellVars>>

ReapDone ==
  /\ pc = "reap"
  /\ \A p \in Pid : ~ Pending(p)
  /\ pc' = "probe"
  /\ todo' = table
  /\ UNCHANGED <<kernelVars, tableVars, told, arg, last>>

\* The kill(pid, 0) loop of updateStatus: only a process that answers keeps
\* the job from being examined again by Job::updateStatus.
Probe(j) ==
  /\ pc = "probe" /\ j \in todo
  /\ todo' = todo \ {j}
  /\ LET asked == procs[j] \ completed
         comp  == completed \cup {p \in asked : ~ Exists(p)}
     IN  IF status[j] # "RUNNING"
           THEN UNCHANGED <<proc, seen, completed, stopped, status>>
         ELSE IF procs[j] # {} /\ \A p \in asked : ~ Answers(p)
           THEN UpdateJob(j, comp, stopped, {})
         ELSE completed' = comp /\ UNCHANGED <<proc, seen, stopped, status>>
  /\ UNCHANGED <<sigchld, table, procs, notified, nextJobId, currentJobId,
                 told, pc, arg, last>>

\* jobs goes on to showJobs, which updates every job once more ...
ShowStart ==
  /\ pc = "probe" /\ todo = {} /\ arg.op = "jobs"
  /\ pc' = "refresh"
  /\ todo' = table
  /\ UNCHANGED <<kernelVars, tableVars, told, arg, last>>

Refresh(j) ==
  /\ pc = "refresh" /\ j \in todo
  /\ todo' = todo \ {j}
  /\ UpdateJob(j, completed, stopped, {})
  /\ UNCHANGED <<sigchld, table, procs, notified, nextJobId, currentJobId,
                 told, pc, arg, last>>

\* ... prints those the options ask for, and drops the finished ones.
\* Mutant: jobs that are done are skipped.
ShownIfActive(j) == status[j] # "DONE"

Shown(j) ==
  /\ status[j] = "RUNNING" => arg.running
  /\ status[j] = "STOPPED" => arg.stopped

Tell(S) == told' = [j \in JobId |-> IF j \in S THEN status[j] ELSE told[j]]

NotifyAndClean(S) ==
  /\ Tell(S)
  /\ notified' = [j \in JobId |-> notified[j] \/ j \in S]
  /\ table' = Kept(notified')

ShowAll ==
  /\ pc = "refresh" /\ todo = {}
  /\ NotifyAndClean({j \in table : Shown(j)})
  /\ Returns("jobs", NoJob, TRUE)
  /\ UNCHANGED <<kernelVars, procs, status, completed, stopped, nextJobId,
                 currentJobId, todo>>

\* The prompt announces the jobs that are done and have not been announced.
PromptNotify ==
  /\ pc = "probe" /\ todo = {} /\ arg.op = "prompt"
  /\ NotifyAndClean({j \in table : status[j] = "DONE" /\ ~ notified[j]})
  /\ pc' = "idle" /\ arg' = NoArg
  /\ UNCHANGED <<kernelVars, procs, status, completed, stopped, nextJobId,
                 currentJobId, todo, last>>

(* fg %j, bg %j and wait %j.  All three refuse when job control is off.    *)

Refuse(cmd, j) ==
  /\ ~ Enabled
  /\ Returns(cmd, j, FALSE)
  /\ UNCHANGED <<kernelVars, tableVars, told, todo>>

\* A job that is not in the table: fg and wait fail, bg does nothing and
\* reports success.
NoSuchJob(cmd, j) ==
  /\ Enabled /\ j \notin table
  /\ Returns(cmd, j, cmd = "bg")
  /\ UNCHANGED <<kernelVars, tableVars, told, todo>>

\* kill(-pgid, SIGCONT), stopped_ and status_ of the job.
ResumeAlways(j) ==
  /\ proc' = [p \in Pid |->
       IF p \in procs[j] /\ proc[p] = "stopped" THEN "running" ELSE proc[p]]
  /\ seen' = {p \in seen : ~ (p \in procs[j] /\ proc[p] = "stopped")}
  /\ sigchld' = (sigchld \/ \E p \in procs[j] \cap Child : proc[p] = "stopped")
  /\ stopped' = stopped \ procs[j]
  /\ status' = [status EXCEPT ![j] = "RUNNING"]

\* Only a job the table holds to be stopped.
Resume(j) ==
  \/ status[j] = "STOPPED" /\ ResumeAlways(j)
  \/ status[j] # "STOPPED" /\ UNCHANGED <<kernelVars, stopped, status>>

FgStart(j) ==
  /\ Enabled /\ j \in table
  /\ Resume(j)
  /\ pc' = "fg"
  /\ arg' = [NoArg EXCEPT !.op = "fg", !.job = j]
  /\ last' = NoCmd
  /\ UNCHANGED <<table, procs, notified, completed, nextJobId,
                 currentJobId, told, todo>>

\* putInForeground after its loop: the status is set from the flags.  The
\* user has watched the job end or stop.
StatusAfterFg(j, comp, halt) ==
  IF IsStopped(procs[j], comp, halt) THEN StatusOf(procs[j], comp, halt) ELSE status[j]

FgFinish(j, comp, halt) ==
  LET final == StatusAfterFg(j, comp, halt)
  IN  /\ status' = [status EXCEPT ![j] = final]
      /\ told' = [told EXCEPT ![j] = final]
      /\ Returns("fg", j, TRUE)

\* waitpid(-pgid) reports process p of the job, ...
FgWait(p) ==
  LET j == arg.job
  IN  /\ pc = "fg"
      /\ p \in procs[j] /\ Pending(p)
      /\ WaitOn({p})
      /\ completed' = WithExit(p)
      /\ stopped' = WithStop(p)
      /\ IF Halted(p) \/ IsStopped(procs[j], WithExit(p), WithStop(p))
           THEN FgFinish(j, WithExit(p), WithStop(p))
           ELSE UNCHANGED <<status, told, pc, arg, last>>
      /\ UNCHANGED <<sigchld, table, procs, notified, nextJobId, currentJobId, todo>>

\* ... or fails: no process of the job is a child that is still there.
FgNoChild ==
  /\ pc = "fg"
  /\ \A p \in procs[arg.job] : NoChild(p)
  /\ FgFinish(arg.job, completed, stopped)
  /\ UNCHANGED <<kernelVars, table, procs, notified, completed, stopped,
                 nextJobId, currentJobId, todo>>

Bg(j) ==
  /\ Enabled /\ j \in table
  /\ Resume(j)
  /\ Returns("bg", j, TRUE)
  /\ UNCHANGED <<table, procs, notified, completed, nextJobId,
                 currentJobId, told, todo>>

WaitStart(j) ==
  /\ Enabled /\ j \in table
  /\ pc' = "wait"
  /\ arg' = [NoArg EXCEPT !.op = "wait", !.job = j]
  /\ last' = NoCmd
  /\ UNCHANGED <<kernelVars, tableVars, told, todo>>

\* waitForJob polls without pause until the flags say it is over or stopped.
WaitPoll ==
  /\ pc = "wait"
  /\ ~ IsStopped(procs[arg.job], completed, stopped)
  /\ UpdateJob(arg.job, completed, stopped, {})
  /\ UNCHANGED <<sigchld, table, procs, notified, nextJobId, currentJobId, shellVars>>

WaitDone ==
  /\ pc = "wait"
  /\ IsStopped(procs[arg.job], completed, stopped)
  /\ told' = [told EXCEPT ![arg.job] = status[arg.job]]
  /\ Returns("wait", arg.job, TRUE)
  /\ UNCHANGED <<kernelVars, tableVars, todo>>

(* exit is refused while the table lists a job that is not done; the end   *)
(* of the input (Ctrl-D) ends the shell whatever the table says.           *)

ExitRefused ==
  /\ Interactive /\ HasActiveJobs
  /\ Returns("exit", NoJob, FALSE)
  /\ UNCHANGED <<kernelVars, tableVars, told, todo>>

Leave(cmd) ==
  /\ pc' = "exited"
  /\ last' = [cmd |-> cmd, job |-> NoJob, ok |-> TRUE]
  /\ UNCHANGED <<kernelVars, tableVars, told, todo, arg>>

ExitGranted == ~ (Interactive /\ HasActiveJobs) /\ Leave("exit")

Eof == Leave("eof")

Builtin ==
  /\ pc = "idle"
  /\ \/ \E j \in JobId :
          \/ \E cmd \in {"fg", "bg", "wait"} : Refuse(cmd, j) \/ NoSuchJob(cmd, j)
          \/ FgStart(j) \/ Bg(j) \/ WaitStart(j)
     \/ ExitRefused \/ ExitGranted \/ Eof

\* The steps of a built-in that has begun.
InCall ==
  \/ \E p \in Pid : Reap(p) \/ FgWait(p)
  \/ \E j \in JobId : Probe(j) \/ Refresh(j)
  \/ ReapDone \/ ShowStart \/ ShowAll \/ PromptNotify
  \/ FgNoChild \/ WaitPoll \/ WaitDone

UserCommand ==
  \/ \E P \in Group : Launch(P)
  \/ \E running, halted \in BOOLEAN : JobsStart(running, halted)
  \/ PromptStart
  \/ Builtin

Terminated == pc = "exited" /\ UNCHANGED vars

Next == Kernel \/ UserCommand \/ InCall \/ Terminated

Spec == Init /\ [][Next]_vars

\* The shell runs on, init reaps its children, and the user asks for the jobs
\* again and again (the only thing the shell cannot do by itself).
FairSpec ==
  /\ Spec
  /\ WF_vars(InCall)
  /\ \A p \in Pid : WF_vars(InitReaps(p))
  /\ SF_vars(JobsStart(TRUE, TRUE))

-----------------------------------------------------------------------------
(* Properties.                                                             *)

Launched(p) == proc[p] # "unborn"

\* A process marked completed is gone: neither running, nor stopped, nor a
\* zombie somebody has yet to wait for (Job::updateStatus and the kill(pid, 0)
\* loop of JobControl::updateStatus draw that conclusion from failed system
\* calls).  Processes the shell may not signal are excepted, see CompletedIsGone.
NoFalseCompletion == \A p \in completed \ Foreign : proc[p] \in Gone

\* No wait status is lost: a child the shell has waited for is marked completed
\* in its job, by whichever call waited (updateStatus(0) reaps any child, fg and
\* wait those of one job).
ReapIsRecorded == \A p \in Child : proc[p] \in Gone => p \in completed

\* cleanupJobs never loses track of a process: one that was launched and still
\* exists belongs to a job that is listed and not yet held to be done.
LiveTracked ==
  \A p \in Pid \ Foreign :
    proc[p] \in {"running", "stopped", "zombie"} =>
      \E j \in table : p \in procs[j] /\ status[j] # "DONE"

\* A job leaves the table only after the user was shown that it is done
\* (showJobs and runInteractive set notified_, cleanupJobs relies on it).
NoSilentErase ==
  \A j \in JobId : j < nextJobId /\ j \notin table => told[j] = "DONE"

\* A shell that grants `exit` leaves no job behind.
SafeExit ==
  Interactive /\ pc = "exited" /\ last.cmd = "exit" =>
    \A p \in Pid \ Foreign : proc[p] \in Gone \cup {"unborn"}

\* No step turns a job that is done into one that is not, and none lets the id
\* of a job be given to another (the id is what fg %n and jobs identify it by).
DoneIsFinal ==
  [][/\ \A j \in JobId : status[j] = "DONE" => status'[j] = "DONE"
     /\ \A j \in JobId : j < nextJobId => procs'[j] = procs[j]
     /\ table' \subseteq table \cup {nextJobId}]_vars

\* When every process of a job is gone, a user who keeps asking for the jobs
\* sees the job leave the table, unless the shell ends or the kernel hands a
\* number out again first.
Over(j) == procs[j] # {} /\ \A p \in procs[j] : proc[p] = "dead"
OverIsForgotten ==
  \A j \in JobId : Over(j) ~> j \notin table \/ ~ Over(j) \/ pc = "exited"

-----------------------------------------------------------------------------
(* What the table promises: see JobLedger.                                 *)

view == [j \in JobId |->
  IF j >= nextJobId THEN "unused" ELSE IF j \in table THEN "listed" ELSE "closed"]

Ended == {"zombie", "dead", "reused"}
JobIsOver(j) == \A p \in procs[j] : proc[p] \in Ended

Ledger == INSTANCE JobLedger WITH
  Job   <- JobId,
  over  <- {j \in JobId : j < nextJobId /\ JobIsOver(j)},
  announced <- {j \in JobId : told[j] = "DONE"}

ImplementsLedger == Ledger!Spec
=============================================================================
