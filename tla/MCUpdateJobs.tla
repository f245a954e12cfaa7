---------------------------- MODULE MCUpdateJobs ----------------------------
(* A small instance of UpdateJobs for TLC: two jobs of one merge request.  *)
EXTENDS UpdateJobs

CONSTANTS j1, j2, m1
OneMR == [j \in {j1, j2} |-> m1]
=============================================================================
