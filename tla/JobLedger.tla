------------------------------ MODULE JobLedger -----------------------------
(***************************************************************************)
(* What the job table promises its user, whatever system calls it makes:   *)
(* jobs are opened in order, end when they will, are announced as done     *)
(* only once they are over, and leave the ledger only after that.          *)
(***************************************************************************)
EXTENDS Naturals

CONSTANT Job     \* the ids a job may get, a set of numbers

VARIABLES
  view,        \* what the ledger says of each id
  over,        \* jobs all of whose processes are gone
  announced    \* jobs the user has seen reported as done

vars == <<view, over, announced>>

TypeOK ==
  /\ view \in [Job -> {"unused", "listed", "closed"}]
  /\ over \subseteq Job
  /\ announced \subseteq Job

Init ==
  /\ view = [j \in Job |-> "unused"]
  /\ over = {}
  /\ announced = {}

Open(j) ==
  /\ view[j] = "unused"
  /\ \A i \in Job : i < j => view[i] # "unused"
  /\ view' = [view EXCEPT ![j] = "listed"]
  /\ UNCHANGED <<over, announced>>

Finish(j) ==
  /\ view[j] # "unused" /\ j \notin over
  /\ over' = over \cup {j}
  /\ UNCHANGED <<view, announced>>

\* The user sees the jobs of S reported as done.
Announce(S) ==
  /\ S # {} /\ S \subseteq over /\ \A j \in S : view[j] = "listed"
  /\ announced' = announced \cup S
  /\ UNCHANGED <<view, over>>

\* The jobs of S, announced before or in this very step, leave the ledger.
Close(S, new) ==
  /\ S # {} /\ S \subseteq over /\ \A j \in S : view[j] = "listed"
  /\ new \subseteq over
  /\ announced' = announced \cup new
  /\ S \subseteq announced'
  /\ view' = [j \in Job |-> IF j \in S THEN "closed" ELSE view[j]]
  /\ UNCHANGED over

Next ==
  \/ \E j \in Job : Open(j) \/ Finish(j)
  \/ \E S \in SUBSET Job : Announce(S)
  \/ \E S, new \in SUBSET Job : Close(S, new)

Spec == Init /\ [][Next]_vars

=============================================================================
