------------------------------ MODULE Redirect ------------------------------
(***************************************************************************)
(* Redirections: Executor::applyRedirections and restoreRedirections, as   *)
(* executeCommand uses them around a built-in (in the shell itself) and    *)
(* executeExternalCommand in the child it has forked.                      *)
(*                                                                         *)
(* A descriptor table maps each descriptor to what it refers to.  dup and  *)
(* open return the lowest free descriptor, whichever that is, and fail     *)
(* when there is none.  A redirection may name any descriptor, any number  *)
(* of times.                                                               *)
(***************************************************************************)
EXTENDS Naturals, Sequences, FiniteSets, SequencesExt

CONSTANTS
  MaxFd,      \* largest descriptor the process may have (RLIMIT_NOFILE)
  Table,      \* descriptor tables the shell may start with
  Request,    \* the lists of redirections commands are given
  MayThrow    \* whether a built-in can end with an exception

Fd     == 0 .. MaxFd
None   == MaxFd + 1      \* no saved descriptor
Failed == MaxFd + 2      \* stands for the -1 of dup
Closed == "closed"

\* One redirection: open a file, fail to open one, duplicate a descriptor
\* (n>&m), close (n>&-), a duplicate of something that is no number (n>&word),
\* a here-document.
Op == {"open", "missing", "dup", "close", "word", "heredoc"}

ASSUME RedirectAssumption ==
  /\ MaxFd \in Nat
  /\ \A t \in Table : t = [f \in Fd |-> t[f]]
  /\ \A l \in Request :
       /\ Len(l) \in Nat /\ l = [i \in 1 .. Len(l) |-> l[i]]
       /\ \A i \in 1 .. Len(l) :
            l[i].fd \in Nat /\ l[i].op \in Op /\ (l[i].op = "open" => l[i].arg # Closed)
  /\ MayThrow \in BOOLEAN

VARIABLES
  shellFd,   \* the shell's descriptors while no command runs
  fd,        \* the descriptors of the process that applies the redirections
  saved,     \* saved_fds
  list,      \* the command's redirections
  next,      \* the first of them that is not yet applied
  role,      \* built-in (in the shell) or external (in a child)
  pc,        \* where the command is
  ok         \* applyRedirections has not failed

vars == <<shellFd, fd, saved, list, next, role, pc, ok>>

TypeOK ==
  /\ DOMAIN fd = Fd /\ DOMAIN shellFd = Fd
  /\ saved \in [Fd -> Fd \cup {None}]
  /\ list \in Request \cup {<<>>}
  /\ next \in 1 .. Len(list) + 1
  /\ role \in {"builtin", "external"}
  /\ pc \in {"idle", "apply", "body", "restore", "runaway"}
  /\ ok \in BOOLEAN

Nothing == [f \in Fd |-> None]

Init ==
  /\ shellFd \in Table
  /\ fd = shellFd
  /\ saved = Nothing
  /\ list = <<>> /\ next = 1
  /\ role = "builtin" /\ pc = "idle" /\ ok = TRUE

-----------------------------------------------------------------------------
(* System calls.                                                           *)

Free(t)   == {f \in Fd : t[f] = Closed}
Lowest(S) == CHOOSE f \in S : \A g \in S : f <= g

\* dup(f)
Dup(t, f) ==
  IF f \notin Fd \/ t[f] = Closed \/ Free(t) = {} THEN Failed ELSE Lowest(Free(t))

\* Mutant: the arguments are swapped.
Dup2Swapped(t, from, to) ==
  IF from \in Fd THEN [t EXCEPT ![from] = t[to]] ELSE t

\* dup2(from, to): a closed source leaves the target alone.
Dup2(t, from, to) ==
  IF from \in Fd /\ t[from] # Closed THEN [t EXCEPT ![to] = t[from]] ELSE t

Close(t, f) == [t EXCEPT ![f] = Closed]

-----------------------------------------------------------------------------
(* The command.                                                            *)

Begin(who, request) ==
  /\ pc = "idle"
  /\ role' = who /\ list' = request
  /\ fd' = shellFd
  /\ saved' = Nothing /\ next' = 1 /\ ok' = TRUE
  /\ pc' = "apply"
  /\ UNCHANGED shellFd

Current == list[next]

Copy    == Dup(fd, Current.fd)

CannotSave == Copy = Failed

\* dup fails, the descriptor being closed or none being free, or the file
\* cannot be opened: what was saved is restored.
GiveUp(t, s) ==
  /\ fd' = t /\ saved' = s
  /\ ok' = FALSE
  /\ pc' = "restore"
  /\ UNCHANGED <<shellFd, list, next, role>>

SaveFails ==
  /\ pc = "apply" /\ next <= Len(list)
  /\ CannotSave
  /\ GiveUp(fd, saved)

\* An exception leaves applyRedirections; nothing is restored.  The shell goes
\* on with its next command, and so does the child.
Escape ==
  /\ pc' = IF role = "builtin" THEN "idle" ELSE "runaway"
  /\ shellFd' = IF role = "builtin" THEN fd' ELSE shellFd
  /\ list' = <<>> /\ next' = 1
  /\ UNCHANGED <<role, ok>>

\* Mutant: the number is kept, the copy not made.
NotCopied == fd

\* The table and the saved descriptors once dup has made its copy.
SavedFd     == [fd EXCEPT ![Copy] = fd[Current.fd]]
SavedNumber == [saved EXCEPT ![Current.fd] = Copy]

ApplyOne ==
  /\ pc = "apply" /\ next <= Len(list)
  /\ ~ CannotSave
  /\ LET f == Current.fd
         opened == Current.op = "open" /\ Free(SavedFd) # {}
         result == CASE opened -> [SavedFd EXCEPT ![f] = Current.arg]
                     [] Current.op = "dup" -> Dup2(SavedFd, Current.arg, f)
                     [] Current.op = "close" -> Close(SavedFd, f)
                     [] OTHER -> SavedFd
     IN  CASE Current.op \in {"open", "missing"} /\ ~ opened ->
                GiveUp(SavedFd, SavedNumber)
           [] Current.op = "word" ->
                /\ fd' = SavedFd /\ saved' = SavedNumber
                /\ Escape
           [] OTHER ->
                /\ fd' = result /\ saved' = SavedNumber
                /\ next' = next + 1
                /\ UNCHANGED <<shellFd, list, role, pc, ok>>

Applied ==
  /\ pc = "apply" /\ next > Len(list)
  /\ pc' = "body"
  /\ UNCHANGED <<shellFd, fd, saved, list, next, role, ok>>

\* The built-in returns and executeCommand restores, or it throws.
BuiltinReturns ==
  /\ pc = "body" /\ role = "builtin"
  /\ pc' = "restore"
  /\ UNCHANGED <<shellFd, fd, saved, list, next, role, ok>>

BuiltinThrows ==
  /\ pc = "body" /\ role = "builtin" /\ MayThrow
  /\ UNCHANGED <<fd, saved>>
  /\ Escape

\* The child runs the command and never comes back.
Exec ==
  /\ pc = "body" /\ role = "external"
  /\ pc' = "idle"
  /\ list' = <<>> /\ next' = 1
  /\ UNCHANGED <<shellFd, fd, saved, role, ok>>

\* Mutant: the copy is closed but not moved back.
RestoreNothing(f) ==
  /\ pc = "restore" /\ saved[f] # None
  /\ fd' = Close(fd, saved[f])
  /\ saved' = [saved EXCEPT ![f] = None]
  /\ UNCHANGED <<shellFd, list, next, role, pc, ok>>

\* restoreRedirections visits saved_fds in no particular order.
RestoreOne(f) ==
  /\ pc = "restore" /\ saved[f] # None
  /\ fd' = Close(Dup2(fd, saved[f], f), saved[f])
  /\ saved' = [saved EXCEPT ![f] = None]
  /\ UNCHANGED <<shellFd, list, next, role, pc, ok>>

\* A child whose redirections failed exits now, the shell goes on.
Restored ==
  /\ pc = "restore" /\ saved = Nothing
  /\ pc' = "idle"
  /\ shellFd' = IF role = "builtin" THEN fd ELSE shellFd
  /\ list' = <<>> /\ next' = 1
  /\ UNCHANGED <<fd, saved, role, ok>>

\* What a child does that believes to be the shell is not followed further.
Runaway == pc = "runaway" /\ UNCHANGED vars

Next ==
  \/ \E who \in {"builtin", "external"}, request \in Request : Begin(who, request)
  \/ SaveFails \/ ApplyOne \/ Applied
  \/ BuiltinReturns \/ BuiltinThrows \/ Exec
  \/ \E f \in Fd : RestoreOne(f)
  \/ Restored
  \/ Runaway

Spec == Init /\ [][Next]_vars

-----------------------------------------------------------------------------
(* Properties.                                                             *)

Targets(l) == {l[i].fd : i \in 1 .. Len(l)}

\* Descriptor f is not one of the n lowest free descriptors of t, the ones that
\* the first n copies take.
Untaken(t, f, n) ==
  f \in Fd /\ t[f] = Closed => n <= Cardinality({g \in Free(t) : g < f})

\* The lists for which saved_fds, one number per descriptor, is enough in a shell
\* with the descriptors t: none is named twice (the copy of the first would be
\* lost), none is one that an earlier copy was put into, and only the last is
\* closed (a later copy would be put there).
Orderly(l, t) ==
  \A i \in 1 .. Len(l) :
    /\ \A j \in 1 .. Len(l) : l[i].fd = l[j].fd => i = j
    /\ l[i].op = "close" => i = Len(l)
    /\ Untaken(t, l[i].fd, i - 1)

\* No n>&m names one of the copies as its m.
ReadsNoCopy(l, t) ==
  \A i \in 1 .. Len(l) : l[i].op = "dup" => Untaken(t, l[i].arg, i)

\* "restore the redirections": when a command is over, whatever was redirected and
\* whatever failed, by an exception too, the shell has all its descriptors that the
\* redirections do not name; and if it restored an orderly list, all the others
\* as well, in whatever order it went.
ShellFdsRestored ==
  [][pc # "idle" /\ pc' = "idle" =>
       \A f \in Fd :
         \/ shellFd[f] # Closed /\ f \notin Targets(list)
         \/ pc = "restore" /\ Orderly(list, shellFd)
         => shellFd'[f] = shellFd[f]]_vars

\* Until they are restored, the copies of an orderly list hold what the shell's
\* descriptors referred to before the command.
SavedIsOriginal ==
  pc \in {"apply", "body", "restore"} /\ Orderly(list, shellFd) =>
    \A f \in Fd : saved[f] # None => fd[saved[f]] = shellFd[f]

\* What the redirections mean: each applied to the outcome of those before it.
Meaning(t, redir) ==
  CASE redir.op = "open" -> [t EXCEPT ![redir.fd] = redir.arg]
    [] redir.op = "dup" /\ redir.arg \in Fd /\ t[redir.arg] # Closed ->
         [t EXCEPT ![redir.fd] = t[redir.arg]]
    [] redir.op = "close" -> [t EXCEPT ![redir.fd] = Closed]
    [] OTHER -> t

\* The command finds its descriptors as an orderly list of redirections says, all
\* but those that hold the copies.
CommandSeesRequest ==
  pc = "body" /\ Orderly(list, shellFd) /\ ReadsNoCopy(list, shellFd) =>
    \A f \in Fd : (\A g \in Fd : saved[g] # f) =>
      fd[f] = FoldLeft(Meaning, shellFd, list)[f]

=============================================================================
