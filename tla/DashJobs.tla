------------------------------ MODULE DashJobs ------------------------------
(***************************************************************************)
(* The job table of dash (dash-debian/src/jobs.c): the shell forks         *)
(* pipelines, waits for them in the foreground or with wait, lists them,   *)
(* resumes them with fg and bg, and exits.  Processes end, stop and go on  *)
(* by themselves, between any two steps of the shell; SIGCHLD sets         *)
(* gotsigchld, a trapped signal sets pending_sig.                          *)
(***************************************************************************)
EXTENDS Integers, SequencesExt

CONSTANTS
  Pid,        \* process numbers
  MaxJobs,    \* bound on the slots growjobtab ever makes
  MaxStops,   \* bound on how often a process is stopped from outside
  Monitor,    \* set -m is on when the shell starts
  Toggle      \* the user may turn it on and off later

ASSUME DashJobsAssumption ==
  /\ MaxJobs \in Nat \ {0} /\ MaxStops \in Nat
  /\ Monitor \in BOOLEAN /\ Toggle \in BOOLEAN

VARIABLES
  jobtab,      \* the slots
  chain,       \* curjob and its prev_job links: slot numbers, current first
  jobctl,      \* job control is on
  tty,         \* the process group of the terminal: the shell's or a leader
  gotsigchld, pending_sig,
  job_warning,
  sh,          \* where the shell is
  proc,        \* the processes, as the kernel sees them
  stops,       \* stops so far
  lost         \* processes whose job forkparent gave up

table == <<jobtab, chain>>
signals == <<gotsigchld, pending_sig>>
vars == <<jobtab, chain, jobctl, tty, gotsigchld, pending_sig, job_warning,
          sh, proc, stops, lost>>

Slot == 1 .. MaxJobs
None == 0
Shell == "shell"
Over == {"ended", "sigint"}                  \* how a process ends: by SIGINT or not
Status == {"none", "stopped"} \cup Over      \* "none" is the -1 of procstat
Mode == {"FG", "BG"}      \* FORK_NOJOB, for command substitutions, is left out

FreeSlot == [used |-> FALSE, state |-> "running", ps |-> <<>>, jobctl |-> FALSE,
             changed |-> FALSE, waited |-> FALSE]

NoProcess == [st |-> "free", how |-> "none", grp |-> Shell, fg |-> FALSE, told |-> TRUE]

Idle == [at |-> "command", job |-> None, block |-> "NON", rpid |-> TRUE,
         cmd |-> "none", mode |-> "FG", left |-> 0]

TypeOK ==
  /\ \A j \in Slot :
       /\ jobtab[j].state \in {"running", "stopped", "done"}
       /\ \A i \in 1 .. Len(jobtab[j].ps) :
            jobtab[j].ps[i].pid \in Pid /\ jobtab[j].ps[i].status \in Status
       /\ jobtab[j].used <=> \E i \in 1 .. Len(chain) : chain[i] = j
  /\ \A i, k \in 1 .. Len(chain) : chain[i] = chain[k] => i = k
  /\ jobctl \in BOOLEAN /\ tty \in Pid \cup {Shell}
  /\ job_warning \in 0 .. 2
  /\ \A p \in Pid : proc[p].st \in {"free", "new", "run", "stop", "zombie"}

Init ==
  /\ jobtab = [j \in Slot |-> FreeSlot] /\ chain = <<>>
  /\ jobctl = Monitor /\ tty = Shell
  /\ gotsigchld = FALSE /\ pending_sig = FALSE /\ job_warning = 0
  /\ sh = [Idle EXCEPT !.at = "prompt"]
  /\ proc = [p \in Pid |-> NoProcess]
  /\ stops = 0 /\ lost = {}
-----------------------------------------------------------------------------
(* The list of jobs.                                                       *)

\* A running job goes behind the stopped ones at the head of the list, a
\* stopped job becomes the current one.
set_curjob(c, tab, j, mode) ==
  LET rest == RemoveFirst(c, j)
      \* the length of the run of stopped jobs at the head
      k == CHOOSE n \in 0 .. Len(rest) :
             /\ \A i \in 1 .. n : tab[rest[i]].state = "stopped"
             /\ n < Len(rest) => tab[rest[n + 1]].state # "stopped"
  IN  CASE mode = "DELETE"  -> rest
        [] mode = "RUNNING" -> SubSeq(rest, 1, k) \o <<j>> \o SubSeq(rest, k + 1, Len(rest))
        [] mode = "STOPPED" -> <<j>> \o rest

\* The list after a walk over it that frees some jobs.
Unlisted(c, freed) ==
  FoldLeft(LAMBDA d, j : IF j \in freed THEN RemoveFirst(d, j) ELSE d, c, c)

\* makejob puts a new job at the head.
Pushed(j) == <<j>> \o RemoveFirst(chain, j)

freejob(j) ==
  /\ jobtab' = [jobtab EXCEPT ![j] = FreeSlot]
  /\ chain' = set_curjob(chain, jobtab, j, "DELETE")

StateOfLast(ps) ==
  IF ps[Len(ps)].status = "none" THEN "running"
  ELSE IF ps[Len(ps)].status = "stopped" THEN "stopped" ELSE "done"

\* What the statuses of its processes make of a job.
StateOf(ps) ==
  IF \E i \in 1 .. Len(ps) : ps[i].status = "none" THEN "running"
  ELSE IF \E i \in 1 .. Len(ps) : ps[i].status = "stopped" THEN "stopped" ELSE "done"

Leader(j) == jobtab[j].ps[1].pid
LastStatus(j) == jobtab[j].ps[Len(jobtab[j].ps)].status
Named == UNION {{jobtab[j].ps[i].pid : i \in 1 .. Len(jobtab[j].ps)} : j \in Slot}

\* getjob: any job of the list; with getctl only one made under job control.
getjob(j, getctl) == jobtab[j].used /\ (getctl => jobtab[j].jobctl)

At(place) == sh.at = place
GoTo(place) == sh' = [Idle EXCEPT !.at = place]
-----------------------------------------------------------------------------
(* dowait, waitone and waitproc: a loop of wait3 calls.                    *)

\* dowait(block, j) on behalf of cmd; the table is the one of this moment.
dowait(tab, block, j, cmd) ==
  LET b == IF j # None /\ tab[j].state # "running" THEN "NON" ELSE block
  IN  sh' = [Idle EXCEPT !.at = IF b = "NON" /\ ~gotsigchld THEN "back" ELSE "clear",
                       !.job = j, !.block = b, !.rpid = TRUE, !.cmd = cmd]

\* waitproc clears gotsigchld before it asks the kernel.
ClearGotsigchld ==
  /\ At("clear")
  /\ gotsigchld' = FALSE
  /\ sh' = [sh EXCEPT !.at = "wait3"]
  /\ UNCHANGED <<jobtab, chain, jobctl, tty, pending_sig, job_warning, proc, stops, lost>>

Child(p) == proc[p].st # "free"
Reportable(p) ==
  proc[p].st = "zombie" \/ (jobctl /\ proc[p].st = "stop" /\ ~proc[p].told)

\* waitone: the first unfinished job of the list that names the process
\* takes the status; a job that is not running any more has changed.
Record(p, status) ==
  LET names(j) == /\ jobtab[j].state # "done"
                  /\ \E i \in 1 .. Len(jobtab[j].ps) : jobtab[j].ps[i].pid = p
      hit == {i \in 1 .. Len(chain) : names(chain[i])}
  IN  IF hit = {} THEN jobtab' = jobtab /\ chain' = chain
      ELSE LET j  == chain[CHOOSE i \in hit : \A k \in hit : i <= k]
               ps == [i \in 1 .. Len(jobtab[j].ps) |->
                        IF jobtab[j].ps[i].pid = p
                        THEN [jobtab[j].ps[i] EXCEPT !.status = status]
                        ELSE jobtab[j].ps[i]]
               state == StateOf(ps)
           IN  /\ jobtab' = [jobtab EXCEPT ![j].ps = ps,
                     ![j].state   = IF state = "running" THEN @ ELSE state,
                     ![j].changed = @ \/ state # "running"]
               /\ chain' = IF state = "stopped" /\ jobtab[j].state # "stopped"
                           THEN set_curjob(chain, jobtab, j, "STOPPED") ELSE chain

\* The loop of dowait blocks again only while the job runs.
BlockAgain(tab) ==
  IF sh.block = "ALL" \/ (sh.job # None /\ tab[sh.job].state # "running")
  THEN "NON" ELSE sh.block

\* One wait3 that returns a process, and the loop test of dowait after it.
Wait3Child(p) ==
  /\ At("wait3") /\ Reportable(p)
  /\ LET status == IF proc[p].st = "zombie" THEN proc[p].how ELSE "stopped"
     IN  Record(p, status)
  /\ proc' = [proc EXCEPT ![p] = IF @.st = "zombie" THEN NoProcess
                                 ELSE [@ EXCEPT !.told = TRUE]]
  /\ sh' = [sh EXCEPT !.at = "clear", !.block = BlockAgain(jobtab')]
  /\ UNCHANGED <<jobctl, tty, signals, job_warning, stops, lost>>

\* wait3 has nothing to report: with no child at all, or asked not to block,
\* dowait is over; for wait the shell goes to sleep in sigsuspend.
Wait3None ==
  /\ At("wait3") /\ ~ \E p \in Pid : Reportable(p)
  /\ \/ /\ sh.block = "NON" \/ ~ \E p \in Pid : Child(p)
        /\ sh' = [sh EXCEPT !.at = "back"]
     \/ /\ sh.block \in {"WAITCMD", "ALL"} /\ \E p \in Pid : Child(p)
        /\ sh' = [sh EXCEPT !.at = "block"]
  /\ UNCHANGED <<table, jobctl, tty, signals, job_warning, proc, stops, lost>>

\* Signals are blocked; the flag is tested before sigsuspend lets them in.
BlockAfresh ==
  /\ At("block") /\ gotsigchld' = FALSE /\ sh' = [sh EXCEPT !.at = "nap"]
  /\ UNCHANGED <<table, jobctl, tty, pending_sig, job_warning, proc, stops, lost>>
sigblockall ==
  /\ At("block") /\ sh' = [sh EXCEPT !.at = "nap"]
  /\ UNCHANGED <<table, jobctl, tty, signals, job_warning, proc, stops, lost>>

\* sigsuspend returns; a signal other than SIGCHLD ends the wait.
Wake ==
  /\ At("nap") /\ (gotsigchld \/ pending_sig)
  /\ sh' = IF gotsigchld THEN [sh EXCEPT !.at = "clear"]
           ELSE [sh EXCEPT !.at = "clear", !.rpid = FALSE, !.block = "NON"]
  /\ UNCHANGED <<table, jobctl, tty, signals, job_warning, proc, stops, lost>>
-----------------------------------------------------------------------------
(* What the callers of dowait do next.                                     *)

TerminalAfter(j) == IF jobtab[j].jobctl THEN Shell ELSE tty

\* waitforjob: take the status and the terminal back, forget a job that is
\* done, then do as if the interrupt that killed it had come here.
FgBack ==
  /\ At("back") /\ sh.cmd = "fg"
  /\ tty' = TerminalAfter(sh.job)
  /\ IF jobtab[sh.job].state = "done" THEN freejob(sh.job) ELSE UNCHANGED table
  /\ GoTo(IF jobtab[sh.job].jobctl /\ LastStatus(sh.job) = "sigint"
          THEN "prompt" ELSE "command")
  /\ UNCHANGED <<jobctl, signals, job_warning, proc, stops, lost>>

\* showjobs after dowait: every job (or, at the prompt, every changed one) is
\* shown; a job shown as done is freed.
ShowBack ==
  /\ At("back") /\ sh.cmd \in {"jobs", "changed"}
  /\ LET shown == {j \in Slot : jobtab[j].used /\ (sh.cmd = "jobs" \/ jobtab[j].changed)}
         freed == {j \in shown : jobtab[j].state = "done"}
     IN  /\ jobtab' = [j \in Slot |->
                         IF j \in freed THEN FreeSlot
                         ELSE IF j \in shown THEN [jobtab[j] EXCEPT !.changed = FALSE]
                         ELSE jobtab[j]]
         /\ chain' = Unlisted(chain, freed)
  /\ GoTo(IF sh.cmd = "jobs" THEN "command" ELSE "read")
  /\ UNCHANGED <<jobctl, tty, signals, job_warning, proc, stops, lost>>

\* The traps run when the command that was interrupted is over.
dotrap == pending_sig' = FALSE

\* waitcmd for one job.
WaitBack ==
  /\ At("back") /\ sh.cmd = "wait"
  /\ IF sh.rpid
     THEN jobtab' = [jobtab EXCEPT ![sh.job].waited = TRUE]
     ELSE UNCHANGED jobtab
  /\ GoTo("command") /\ dotrap
  /\ UNCHANGED <<chain, jobctl, tty, gotsigchld, job_warning, proc, stops, lost>>

\* waitcmd for all jobs: walk down the list to the first running job, marking
\* the others as waited for.
WaitAllStep ==
  LET running == {i \in 1 .. Len(chain) : jobtab[chain[i]].state = "running"}
      upto    == IF running = {} THEN Len(chain)
                 ELSE (CHOOSE i \in running : \A k \in running : i <= k) - 1
      passed  == {chain[i] : i \in 1 .. upto}
  IN  /\ jobtab' = [j \in Slot |-> IF j \in passed THEN [jobtab[j] EXCEPT !.waited = TRUE]
                                   ELSE jobtab[j]]
      /\ IF running = {} THEN GoTo("command") /\ dotrap
         ELSE dowait(jobtab, "ALL", None, "waitall") /\ UNCHANGED pending_sig
      /\ UNCHANGED <<chain, jobctl, tty, gotsigchld, job_warning, proc, stops, lost>>

WaitAllBack ==
  /\ At("back") /\ sh.cmd = "waitall"
  /\ \/ sh.rpid /\ WaitAllStep
     \/ ~sh.rpid /\ GoTo("command") /\ dotrap
        /\ UNCHANGED <<table, jobctl, tty, gotsigchld, job_warning, proc, stops, lost>>
-----------------------------------------------------------------------------
(* The command loop and the commands.                                      *)

Prompt ==
  /\ At("prompt")
  /\ IF jobctl THEN dowait(jobtab, "NON", None, "changed") ELSE GoTo("read")
  /\ UNCHANGED <<table, jobctl, tty, signals, job_warning, proc, stops, lost>>

\* stoppedjobs looks at the current job only, and not after a warning.
Warns == job_warning = 0 /\ chain # <<>> /\ jobtab[Head(chain)].state = "stopped"

\* A line is read: a warning lasts until the end of the line after it.
ReadLine ==
  /\ At("read")
  /\ job_warning' = IF job_warning = 2 THEN 1 ELSE 0
  /\ GoTo("command")
  /\ UNCHANGED <<table, jobctl, tty, signals, proc, stops, lost>>

\* End of input, or the command exit.
Leave ==
  /\ At("read") \/ At("command")
  /\ IF Warns THEN /\ job_warning' = 2
                   /\ GoTo(IF At("read") THEN "prompt" ELSE "command")
                   /\ UNCHANGED tty
     ELSE /\ GoTo("gone") /\ UNCHANGED job_warning
          /\ tty' = IF jobctl THEN Shell ELSE tty
  /\ UNCHANGED <<table, jobctl, signals, proc, stops, lost>>

EndLine ==
  /\ At("command") /\ GoTo("prompt")
  /\ UNCHANGED <<table, jobctl, tty, signals, job_warning, proc, stops, lost>>

ReusableStopped(j) ==
  ~jobtab[j].used \/ (jobtab[j].state # "running" /\ jobtab[j].waited /\ ~jobctl)

\* makejob: the first slot that is free, or whose job is over and was waited
\* for while job control is off.
Reusable(j) ==
  ~jobtab[j].used \/ (jobtab[j].state = "done" /\ jobtab[j].waited /\ ~jobctl)

makejob(n, mode) ==
  /\ At("command")
  /\ \E j \in Slot :
       /\ Reusable(j) /\ \A i \in 1 .. j - 1 : ~Reusable(i)
       /\ jobtab' = [jobtab EXCEPT ![j] = [FreeSlot EXCEPT !.used = TRUE, !.jobctl = jobctl]]
       /\ chain' = Pushed(j)
       /\ sh' = [Idle EXCEPT !.at = "fork", !.job = j, !.mode = mode, !.left = n]
  /\ UNCHANGED <<jobctl, tty, signals, job_warning, proc, stops, lost>>

\* One fork of the pipeline, the parent's side.  Bound: the kernel does not
\* hand out a number the table still names or lost.
forkparent(p) ==
  /\ At("fork") /\ sh.left > 0 /\ ~Child(p) /\ p \notin Named \cup lost
  /\ LET j == sh.job
         leader == IF jobtab[j].ps = <<>> THEN p ELSE Leader(j)
     IN  /\ proc' = [proc EXCEPT ![p] =
                       [NoProcess EXCEPT !.st = "new",
                         !.grp = IF jobtab[j].jobctl THEN leader ELSE Shell,
                         !.fg  = jobtab[j].jobctl /\ sh.mode = "FG"]]
         /\ jobtab' = [jobtab EXCEPT ![j].ps = Append(@, [pid |-> p, status |-> "none"])]
         /\ chain' = IF sh.mode = "BG" THEN set_curjob(chain, jobtab, j, "RUNNING") ELSE chain
  /\ sh' = [sh EXCEPT !.left = @ - 1]
  /\ UNCHANGED <<jobctl, tty, signals, job_warning, stops, lost>>

\* fork fails: the job is given up with the processes it already has.  Bound:
\* only one job with processes is given up in a behaviour.
ForkFails ==
  /\ At("fork") /\ sh.left > 0
  /\ lost' = lost \cup {jobtab[sh.job].ps[i].pid : i \in 1 .. Len(jobtab[sh.job].ps)}
  /\ freejob(sh.job)
  /\ GoTo("prompt")
  /\ UNCHANGED <<jobctl, tty, signals, job_warning, proc, stops>>

\* All forked: wait for a foreground job, leave the others alone.
Forked ==
  /\ At("fork") /\ sh.left = 0
  /\ IF sh.mode = "BG" THEN GoTo("command") ELSE dowait(jobtab, "BLOCK", sh.job, "fg")
  /\ UNCHANGED <<table, jobctl, tty, signals, job_warning, proc, stops, lost>>

\* restartjob: the group is continued, its stopped processes run again.
Resumed(j) ==
  [jobtab EXCEPT ![j].state = "running",
     ![j].ps = [i \in 1 .. Len(@) |-> IF @[i].status = "stopped"
                                      THEN [@[i] EXCEPT !.status = "none"] ELSE @[i]]]

Continue(g) ==
  proc' = [p \in Pid |-> IF proc[p].grp = g /\ proc[p].st = "stop"
                         THEN [proc[p] EXCEPT !.st = "run", !.told = TRUE] ELSE proc[p]]

\* fg without a terminal (job control was turned off) fails in xtcsetpgrp,
\* after the job was set to running and before it is continued.
fgcmd(j) ==
  /\ At("command") /\ getjob(j, TRUE)
  /\ IF jobtab[j].state = "done"
     THEN dowait(jobtab, "BLOCK", j, "fg") /\ UNCHANGED <<jobtab, tty, proc>>
     ELSE IF ~jobctl
     THEN /\ jobtab' = [jobtab EXCEPT ![j].state = "running"]
          /\ GoTo("prompt") /\ UNCHANGED <<tty, proc>>
     ELSE /\ jobtab' = Resumed(j) /\ tty' = Leader(j) /\ Continue(Leader(j))
          /\ dowait(jobtab', "BLOCK", j, "fg")
  /\ UNCHANGED <<chain, jobctl, signals, job_warning, stops, lost>>

bgcmd(j) ==
  /\ At("command") /\ getjob(j, TRUE)
  /\ chain' = set_curjob(chain, jobtab, j, "RUNNING")
  /\ IF jobtab[j].state = "done" THEN UNCHANGED <<jobtab, proc>>
     ELSE jobtab' = Resumed(j) /\ Continue(Leader(j))
  /\ UNCHANGED <<sh, jobctl, tty, signals, job_warning, stops, lost>>

jobscmd ==
  /\ At("command") /\ dowait(jobtab, "NON", None, "jobs")
  /\ UNCHANGED <<table, jobctl, tty, signals, job_warning, proc, stops, lost>>

waitcmd ==
  /\ At("command")
  /\ \/ WaitAllStep
     \/ \E j \in Slot : /\ getjob(j, FALSE) /\ dowait(jobtab, "WAITCMD", j, "wait")
                        /\ UNCHANGED <<table, jobctl, tty, signals, job_warning, proc, stops, lost>>

\* set -m and set +m.  Bound: it is turned on again only with no job left.
setjobctl ==
  /\ Toggle /\ At("command") /\ (jobctl \/ chain = <<>>)
  /\ jobctl' = ~jobctl /\ tty' = Shell
  /\ UNCHANGED <<table, sh, signals, job_warning, proc, stops, lost>>

Command ==
  \/ \E n \in 1 .. 2, mode \in Mode : makejob(n, mode)
  \/ jobscmd \/ waitcmd \/ setjobctl
  \/ \E j \in Slot : fgcmd(j) \/ bgcmd(j)
-----------------------------------------------------------------------------
(* The processes.                                                          *)

\* forkchild: a foreground process of a job-controlled job takes the terminal.
forkchild(p) ==
  /\ proc[p].st = "new"
  /\ proc' = [proc EXCEPT ![p].st = "run"]
  /\ tty' = IF proc[p].fg THEN proc[p].grp ELSE tty
  /\ UNCHANGED <<table, jobctl, signals, job_warning, sh, stops, lost>>

SignalsShell ==
  /\ gotsigchld' = TRUE
  /\ UNCHANGED <<table, jobctl, tty, pending_sig, job_warning, sh, lost>>

Die(p, how) ==
  /\ proc[p].st = "run" \/ (proc[p].st = "stop" /\ how = "ended")
  /\ proc' = [proc EXCEPT ![p].st = "zombie", ![p].how = how]
  /\ SignalsShell /\ UNCHANGED stops

Stop(p) ==
  /\ proc[p].st = "run" /\ stops < MaxStops
  /\ proc' = [proc EXCEPT ![p].st = "stop", ![p].told = FALSE]
  /\ stops' = stops + 1
  /\ SignalsShell

Resume(p) ==
  /\ proc[p].st = "stop"
  /\ proc' = [proc EXCEPT ![p].st = "run", ![p].told = TRUE]
  /\ SignalsShell /\ UNCHANGED stops

\* A signal with a trap, while a wait command is under way.
onsig ==
  /\ sh.cmd \in {"wait", "waitall"}
  /\ ~pending_sig /\ pending_sig' = TRUE
  /\ UNCHANGED <<table, jobctl, tty, gotsigchld, job_warning, sh, proc, stops, lost>>

ShellStep ==
  \/ ClearGotsigchld \/ (\E p \in Pid : Wait3Child(p)) \/ Wait3None \/ sigblockall \/ Wake
  \/ FgBack \/ ShowBack \/ WaitBack \/ WaitAllBack \/ Prompt \/ Forked

Next ==
  \/ ShellStep \/ ReadLine \/ Leave \/ EndLine \/ Command \/ ForkFails \/ onsig
  \/ \E p \in Pid : \/ forkparent(p) \/ forkchild(p) \/ Stop(p) \/ Resume(p)
                    \/ \E how \in Over : Die(p, how)

Spec == Init /\ [][Next]_vars
-----------------------------------------------------------------------------
\* waitforjob and waitcmd take the status of a job (getstatus) only when all
\* its processes have one: the -1 of a running process is never decoded.
StatusIsKnown ==
  At("back") /\ (sh.cmd = "fg" \/ (sh.cmd = "wait" /\ sh.rpid)) =>
    \A i \in 1 .. Len(jobtab[sh.job].ps) : jobtab[sh.job].ps[i].status # "none"

\* A job is said to be over, and a process to have ended in some way, only
\* when that is what happened, and a status is asked for only when it is
\* there: no status goes to the wrong process however wait3, the end of other
\* jobs and the reuse of slots interleave.
StatusIsTrue ==
  /\ \A j \in Slot : \A i \in 1 .. Len(jobtab[j].ps) :
       LET q == jobtab[j].ps[i]
       IN  /\ q.status \in Over => ~Child(q.pid)
           /\ jobtab[j].state = "done" => q.status \in Over
  /\ StatusIsKnown

\* Every child is named by a job that is not over, or its job was given up by
\* a failing fork: no process is left that jobs, fg and wait cannot reach.
NoLostChild ==
  \A p \in Pid : Child(p) /\ p \notin lost =>
    \E j \in Slot : /\ jobtab[j].used /\ jobtab[j].state # "done"
                    /\ \E i \in 1 .. Len(jobtab[j].ps) : jobtab[j].ps[i].pid = p

\* The shell never sleeps in sigsuspend while a child has something to report
\* and nothing will wake it: a SIGCHLD between wait3 and sigsuspend, or one
\* that an earlier call consumed, is not missed.
NoMissedWake ==
  At("nap") /\ (\E p \in Pid : Reportable(p)) => gotsigchld

=============================================================================
