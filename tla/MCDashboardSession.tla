-------------------------- MODULE MCDashboardSession --------------------------
(* Three requests: two that find the access token expired and cross in every *)
(* way, and a third that changes the password, logs out, or comes too late.  *)
EXTENDS DashboardSession, TLC

CONSTANTS r1, r2, r3

MCRequests == {r1, r2, r3}
Symmetry == Permutations(MCRequests)
=============================================================================
