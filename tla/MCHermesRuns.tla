---------------------------- MODULE MCHermesRuns ----------------------------
(* A run of one user, and approvals by that user and by an administrator.  *)
EXTENDS HermesRuns, TLC

CONSTANTS r1, a1, a2, u1, u2

MCUserOf == r1 :> u1 @@ a1 :> u1 @@ a2 :> u2
=============================================================================
