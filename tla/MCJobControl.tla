---------------------------- MODULE MCJobControl ----------------------------
(* Instances of JobControl for TLC: the class as the program uses it, and  *)
(* through its whole interface.                                            *)
EXTENDS JobControl

CONSTANTS p1, p2, c1, c2

\* Through its own interface the class accepts jobs of several processes, children
\* of the shell, and job control may be on.
SinglesAndPair == {{c1}, {c2}, {c1, c2}}

VARIABLE whole   \* whether it is used in this way, from beginning to end

\* The program: bg_job_adapter.cpp gives every background job one process, forked
\* twice, and nothing turns job control on.
Program == INSTANCE JobControl WITH Group <- {{p1}, {p2}}, Enabled <- FALSE

MCInit == whole \in BOOLEAN /\ Init

MCNext ==
  /\ UNCHANGED whole
  /\ \/ whole /\ Next
     \/ ~ whole /\ Program!Next

\* As FairSpec; besides, a child ends, since fg and wait may wait for it.
MCSpec ==
  /\ MCInit /\ [][MCNext]_<<vars, whole>>
  /\ WF_vars(InCall)
  /\ \A p \in Pid : WF_vars(InitReaps(p))
  /\ \A p \in Child : WF_vars(Exit(p))
  /\ SF_vars(JobsStart(TRUE, TRUE))
=============================================================================
