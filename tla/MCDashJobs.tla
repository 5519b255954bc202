----------------------------- MODULE MCDashJobs -----------------------------
(* Instances of DashJobs for TLC.                                          *)
EXTENDS DashJobs, TLC

CONSTANTS p1, p2

\* No action tells one process from another.
Symmetry == Permutations(Pid)
=============================================================================
