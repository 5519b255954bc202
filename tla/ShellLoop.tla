----------------------------- MODULE ShellLoop ------------------------------
(***************************************************************************)
(* Shell::runInteractive and the signals that reach it.                    *)
(*                                                                         *)
(* The loop notes SIGINT and SIGCHLD in flags, keeps SIGCHLD blocked while *)
(* it works on the flags and while it executes a command, and reads a line *)
(* with SIGCHLD unblocked.  The handlers are installed without SA_RESTART, *)
(* so a signal makes a blocked read() or waitpid() fail; std::getline then *)
(* fails too and StdinInputSource takes that for the end of the input.     *)
(***************************************************************************)
EXTENDS Naturals, Sequences

CONSTANTS
  Kid,          \* children the shell can have at a time
  ForkMayFail,  \* whether fork() can fail
  MaxLines,     \* bound: lines the user types
  MaxSigint,    \* bound: Ctrl-C typed
  MaxTstp       \* bound: Ctrl-Z typed

ASSUME ShellLoopAssumption ==
  /\ ForkMayFail \in BOOLEAN
  /\ MaxLines \in Nat /\ MaxSigint \in Nat /\ MaxTstp \in Nat

\* What a line asks for: nothing, a syntax error, one or two processes in the
\* foreground, one in the background, the built-ins jobs and exit.
Line == {"blank", "bad", "command", "pipe", "background", "jobs", "exit"}

VARIABLES
  pc,         \* where the loop is
  cmd,        \* the line that was read
  kid,        \* the children of the shell
  waiting,    \* children the shell has still to wait for, in order
  blocked,    \* SIGCHLD is blocked
  origMask,   \* orig_mask: whether it was when sigprocmask last saved it
  pending,    \* a blocked SIGCHLD
  gotChld,    \* Shell::received_sigchld
  gotInt,     \* Shell::received_sigint
  eof,        \* StdinInputSource::eof_
  exitReq,    \* exit_requested_
  cause,      \* what made the read fail
  suspended,  \* the shell is stopped by its terminal (SIGTSTP)
  stray,      \* a child was left without being waited for (history)
  lines, sigints, tstps

signalVars == <<blocked, origMask, pending, gotChld, gotInt>>
inputVars  == <<eof, cause>>
userVars   == <<lines, sigints, tstps>>
vars == <<pc, cmd, kid, waiting, signalVars, inputVars, exitReq, suspended, stray,
          userVars>>

TypeOK ==
  /\ pc \in {"top", "unblock", "prompt", "read", "parsed", "block", "run",
             "wait", "restore", "exited"}
  /\ cmd \in Line
  /\ kid \in [Kid -> {"none", "running", "stopped", "zombie"}]
  /\ waiting \in Seq(Kid) /\ Len(waiting) <= 2
  /\ blocked \in BOOLEAN /\ origMask \in BOOLEAN /\ pending \in BOOLEAN
  /\ gotChld \in BOOLEAN /\ gotInt \in BOOLEAN
  /\ eof \in BOOLEAN /\ exitReq \in BOOLEAN /\ suspended \in BOOLEAN
  /\ stray \in BOOLEAN
  /\ cause \in {"none", "ctrl-d", "sigint", "sigchld"}
  /\ lines \in 0 .. MaxLines /\ sigints \in 0 .. MaxSigint /\ tstps \in 0 .. MaxTstp

Init ==
  /\ pc = "top" /\ cmd = "blank"
  /\ kid = [k \in Kid |-> "none"]
  /\ waiting = <<>>
  /\ blocked = FALSE /\ origMask = FALSE /\ pending = FALSE
  /\ gotChld = FALSE /\ gotInt = FALSE
  /\ eof = FALSE /\ cause = "none"
  /\ exitReq = FALSE /\ suspended = FALSE /\ stray = FALSE
  /\ lines = 0 /\ sigints = 0 /\ tstps = 0

-----------------------------------------------------------------------------
(* Signals.                                                                *)

\* The mask is set; a SIGCHLD that is unblocked by it reaches the handler.
SetMask(mask) ==
  /\ blocked' = mask
  /\ gotChld' = (gotChld \/ (pending /\ ~ mask))
  /\ pending' = (pending /\ mask)

\* The read fails: readLine sets eof_ and returns an empty line.
ReadFails(why) ==
  /\ pc' = "parsed" /\ cmd' = "blank"
  /\ eof' = TRUE /\ cause' = why

\* A child changes state: SIGCHLD stays pending or interrupts the shell.
RaiseSigchld ==
  IF blocked
    THEN pending' = TRUE /\ UNCHANGED <<pc, cmd, gotChld, inputVars>>
    ELSE /\ gotChld' = TRUE
         /\ UNCHANGED pending
         /\ IF pc = "read" /\ ~ eof
              THEN ReadFails("sigchld")
              ELSE UNCHANGED <<pc, cmd, inputVars>>

ChildMoves(k, from, to) ==
  /\ pc # "exited" /\ kid[k] \in from
  /\ kid' = [kid EXCEPT ![k] = to]
  /\ RaiseSigchld
  /\ UNCHANGED <<waiting, blocked, origMask, gotInt, exitReq, suspended, stray, userVars>>

ChildExits(k) == ChildMoves(k, {"running"}, "zombie")

\* Ctrl-C reaches the shell and, as they share its process group, its children
\* in the foreground; those that do not ignore it die.  The shell's handler
\* runs, and the system call it is blocked in fails with EINTR.
Interrupted(k) == waiting # <<>> /\ k = Head(waiting) /\ kid[k] # "zombie"

CtrlC ==
  /\ pc # "exited" /\ ~ suspended /\ sigints < MaxSigint
  /\ sigints' = sigints + 1
  /\ gotInt' = TRUE
  /\ CASE pc = "read" /\ ~ eof ->
            /\ ReadFails("sigint")
            /\ UNCHANGED <<waiting, stray>>
       [] pc = "wait" /\ (\E k \in Kid : Interrupted(k)) ->
            /\ waiting' = Tail(waiting)
            /\ stray' = TRUE
            /\ UNCHANGED <<pc, cmd, inputVars>>
       [] OTHER -> UNCHANGED <<pc, cmd, waiting, inputVars, stray>>
  /\ UNCHANGED <<kid, blocked, origMask, pending, gotChld, exitReq,
                 suspended, lines, tstps>>

\* Ctrl-Z: SIGTSTP has its default action in the shell, too.
CtrlZ ==
  /\ pc = "wait" /\ ~ suspended /\ tstps < MaxTstp
  /\ tstps' = tstps + 1
  /\ suspended' = TRUE
  /\ kid' = [k \in Kid |-> IF kid[k] = "running" THEN "stopped" ELSE kid[k]]
  /\ pending' = (pending \/ kid' # kid)
  /\ UNCHANGED <<pc, cmd, waiting, blocked, origMask, gotChld, gotInt, inputVars,
                 exitReq, stray, lines, sigints>>

\* Whoever started the shell continues its process group.
Foregrounded ==
  /\ suspended
  /\ suspended' = FALSE
  /\ kid' = [k \in Kid |-> IF kid[k] = "stopped" THEN "running" ELSE kid[k]]
  /\ pending' = (pending \/ kid' # kid)
  /\ UNCHANGED <<pc, cmd, waiting, blocked, origMask, gotChld, gotInt, inputVars,
                 exitReq, stray, userVars>>

-----------------------------------------------------------------------------
(* One round of the loop.                                                  *)

At(label) == pc = label /\ ~ suspended
Goto(label) == pc' = label

\* while (!exit_requested_)
LeaveLoop == exitReq

\* Block SIGCHLD, note the signals.  (With job control on, the job table is
\* brought up to date here: PromptStart of JobControl; it is never on.)
Top ==
  /\ At("top")
  /\ IF LeaveLoop
       THEN Goto("exited") /\ UNCHANGED signalVars
       ELSE /\ Goto("unblock")
            /\ origMask' = blocked /\ blocked' = TRUE
            /\ gotInt' = FALSE /\ gotChld' = FALSE
            /\ UNCHANGED pending
  /\ UNCHANGED <<cmd, kid, waiting, inputVars, exitReq, suspended, stray, userVars>>

Unblock ==
  /\ At("unblock") /\ Goto("prompt")
  /\ SetMask(origMask)
  /\ UNCHANGED <<cmd, kid, waiting, origMask, gotInt, inputVars, exitReq,
                 suspended, stray, userVars>>

\* displayPrompt; then the read is entered.
Prompt ==
  /\ At("prompt") /\ Goto("read")
  /\ UNCHANGED <<cmd, kid, waiting, signalVars, inputVars, exitReq, suspended, stray, userVars>>

\* The user types a line, or the end of the input, or a line that the end of
\* the input cuts short.
Type(line) ==
  /\ At("read") /\ ~ eof /\ lines < MaxLines
  /\ lines' = lines + 1
  /\ cmd' = line
  /\ Goto("parsed")
  /\ UNCHANGED <<kid, waiting, signalVars, inputVars, exitReq, suspended, stray, sigints, tstps>>

CtrlD ==
  /\ At("read") /\ ~ eof /\ Goto("parsed")
  /\ eof' = TRUE /\ cause' = "ctrl-d"
  /\ cmd' \in Line
  /\ UNCHANGED <<kid, waiting, signalVars, exitReq, suspended, stray, userVars>>

\* After the end of the input readLine returns an empty line at once.
ReadAtEnd ==
  /\ At("read") /\ eof /\ Goto("parsed")
  /\ cmd' = "blank"
  /\ UNCHANGED <<kid, waiting, signalVars, inputVars, exitReq, suspended, stray, userVars>>

\* A syntax error is thrown before isEOF is asked; its handler restores the
\* mask.
SyntaxError ==
  /\ At("parsed") /\ cmd = "bad" /\ Goto("top")
  /\ SetMask(origMask)
  /\ UNCHANGED <<cmd, kid, waiting, origMask, gotInt, inputVars, exitReq, suspended, stray, userVars>>

EndOfInput ==
  /\ At("parsed") /\ eof /\ cmd # "bad"
  /\ Goto("exited")
  /\ UNCHANGED <<cmd, kid, waiting, signalVars, inputVars, exitReq, suspended, stray, userVars>>

Parsed ==
  /\ At("parsed") /\ ~ eof /\ cmd # "bad"
  /\ Goto(IF cmd = "blank" THEN "top" ELSE "block")
  /\ UNCHANGED <<cmd, kid, waiting, signalVars, inputVars, exitReq, suspended, stray, userVars>>

Block ==
  /\ At("block") /\ Goto("run")
  /\ origMask' = blocked /\ blocked' = TRUE
  /\ UNCHANGED <<cmd, kid, waiting, pending, gotChld, gotInt, inputVars, exitReq,
                 suspended, stray, userVars>>

\* Mutant: the mask is not restored.
RestoreNothing ==
  /\ At("restore") /\ Goto("top")
  /\ UNCHANGED <<cmd, kid, waiting, signalVars, inputVars, exitReq, suspended, stray, userVars>>

Restore ==
  /\ At("restore") /\ Goto("top")
  /\ SetMask(origMask)
  /\ UNCHANGED <<cmd, kid, waiting, origMask, gotInt, inputVars, exitReq,
                 suspended, stray, userVars>>

-----------------------------------------------------------------------------
(* Executor::execute, as far as the loop can tell.                         *)

Free == {k \in Kid : kid[k] = "none"}

\* Mutant: only the last process is waited for.
WaitsLast(left, right) == <<right>>

WaitsFor(left, right) == <<left, right>>

\* One child, or two connected by a pipe, waited for in this order.
RunForeground ==
  /\ At("run") /\ cmd \in {"command", "pipe"}
  /\ \/ /\ cmd = "command"
        /\ \E k \in Free :
             /\ kid' = [kid EXCEPT ![k] = "running"]
             /\ waiting' = <<k>>
        /\ Goto("wait")
     \/ /\ cmd = "pipe"
        /\ \E k, m \in Free :
             /\ k # m
             /\ kid' = [kid EXCEPT ![k] = "running", ![m] = "running"]
             /\ waiting' = WaitsFor(k, m)
        /\ Goto("wait")
  /\ UNCHANGED <<cmd, signalVars, inputVars, exitReq, suspended, stray, userVars>>

\* fork() fails: the exception is turned into status 1.  When it is the second
\* fork of a pipe, the first child is left behind.
ForkFails ==
  /\ At("run") /\ cmd \in {"command", "pipe"} /\ ForkMayFail
  /\ \/ UNCHANGED <<kid, stray>>
     \/ /\ cmd = "pipe"
        /\ \E k \in Free : kid' = [kid EXCEPT ![k] = "running"]
        /\ stray' = TRUE
  /\ Goto("restore")
  /\ UNCHANGED <<cmd, waiting, signalVars, inputVars, exitReq, suspended, userVars>>

\* waitpid(pid, &status, 0), and the end of the waiting.
WaitReturns ==
  /\ At("wait") /\ waiting # <<>>
  /\ kid[Head(waiting)] = "zombie"
  /\ kid' = [kid EXCEPT ![Head(waiting)] = "none"]
  /\ waiting' = Tail(waiting)
  /\ UNCHANGED <<pc, cmd, signalVars, inputVars, exitReq, suspended, stray, userVars>>

\* Mutant: the command is run again.
WaitEndsInRetry ==
  /\ At("wait") /\ waiting = <<>>
  /\ Goto("run")
  /\ UNCHANGED <<cmd, kid, waiting, signalVars, inputVars, exitReq, suspended, stray, userVars>>

WaitEnds ==
  /\ At("wait") /\ waiting = <<>>
  /\ Goto("restore")
  /\ UNCHANGED <<cmd, kid, waiting, signalVars, inputVars, exitReq, suspended, stray, userVars>>

\* Mutant: the command is forked once and is a child of the shell.
BackgroundAsChild ==
  /\ At("run") /\ cmd = "background"
  /\ \E k \in Free : kid' = [kid EXCEPT ![k] = "running"]
  /\ Goto("restore")
  /\ UNCHANGED <<cmd, waiting, signalVars, inputVars, exitReq, suspended, stray, userVars>>

\* runInBackground (see BgLaunch): the command is nobody's child of ours, and
\* ignoring SIGCHLD meanwhile discards a pending one and lets the children
\* that end in that time vanish.
RunBackground ==
  /\ At("run") /\ cmd = "background"
  /\ pending' = FALSE
  /\ \E S \in SUBSET {k \in Kid : kid[k] = "running"} :
       kid' = [k \in Kid |-> IF k \in S THEN "none" ELSE kid[k]]
  /\ Goto("restore")
  /\ UNCHANGED <<cmd, waiting, blocked, origMask, gotChld, gotInt, inputVars,
                 exitReq, suspended, stray, userVars>>

\* The same with its waitpid interrupted by Ctrl-C: the first child is left.
RunBackgroundInterrupted ==
  /\ At("run") /\ cmd = "background"
  /\ sigints < MaxSigint /\ sigints' = sigints + 1
  /\ gotInt' = TRUE
  /\ pending' = FALSE
  /\ \E k \in Free : kid' = [kid EXCEPT ![k] = "running"]
  /\ stray' = TRUE
  /\ Goto("restore")
  /\ UNCHANGED <<cmd, waiting, blocked, origMask, gotChld, inputVars, exitReq,
                 suspended, lines, tstps>>

\* jobs: JobControl::updateStatus waits for every child that has ended.
RunJobs ==
  /\ At("run") /\ cmd = "jobs"
  /\ kid' = [k \in Kid |-> IF kid[k] = "zombie" THEN "none" ELSE kid[k]]
  /\ Goto("restore")
  /\ UNCHANGED <<cmd, waiting, signalVars, inputVars, exitReq, suspended, stray, userVars>>

\* exit is refused while background jobs are listed.
RunExit ==
  /\ At("run") /\ cmd = "exit"
  /\ exitReq' \in BOOLEAN
  /\ Goto("restore")
  /\ UNCHANGED <<cmd, kid, waiting, signalVars, inputVars, suspended, stray, userVars>>

-----------------------------------------------------------------------------
Loop ==
  \/ Top \/ Unblock \/ Prompt \/ ReadAtEnd \/ SyntaxError \/ EndOfInput \/ Parsed \/ Block
  \/ RunForeground \/ ForkFails \/ WaitReturns \/ WaitEnds
  \/ RunBackground \/ RunJobs \/ RunExit \/ Restore

User ==
  \/ \E line \in Line : Type(line)
  \/ CtrlD \/ CtrlC \/ CtrlZ \/ Foregrounded \/ RunBackgroundInterrupted

Terminated == pc = "exited" /\ UNCHANGED vars

Next == Loop \/ User \/ (\E k \in Kid : ChildExits(k)) \/ Terminated

Spec == Init /\ [][Next]_vars

\* The shell is scheduled.  Children need not end, the user need not type.
FairSpec == Spec /\ WF_vars(Loop)

-----------------------------------------------------------------------------
(* Properties.                                                             *)

\* The shell ends only when the user asked for it, with exit or Ctrl-D (or with
\* Ctrl-C at the prompt, see the README).  The end of a background command must
\* not end it, which is why runInBackground forks twice and ignores SIGCHLD; so
\* a SIGCHLD can do it only after a child was left behind.
ExitIsRequested ==
  pc = "exited" =>
    exitReq \/ cause \in {"ctrl-d", "sigint"} \/ (stray /\ cause = "sigchld")

\* Unless a Ctrl-C or a failed fork made it leave one, the shell has no child
\* when it prompts, so nothing whose end could raise SIGCHLD during the read.
NoChildAtPrompt ==
  pc \in {"prompt", "read"} /\ ~ stray => \A k \in Kid : kid[k] = "none"

\* SIGCHLD is blocked exactly while commands run and flags are examined, and
\* the mask that will be restored is the one the shell started with, on every
\* path through the loop, that of a syntax error included.
MaskDiscipline ==
  /\ ~ origMask
  /\ blocked <=> pc \in {"unblock", "run", "wait", "restore"}

\* When all the processes of a foreground command have ended the prompt comes
\* back (or the shell is stopped with them), whatever signals are pending.
PromptReturns ==
  pc = "wait" /\ (\A i \in DOMAIN waiting : kid[waiting[i]] = "zombie")
    ~> pc \in {"read", "exited"} \/ suspended

=============================================================================
