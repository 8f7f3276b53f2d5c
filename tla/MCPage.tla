------------------------------- MODULE MCPage -------------------------------
(***************************************************************************)
(* The page in front of two tasks, with polls that overlap.  Bound: both   *)
(* tasks are queued at once and in order, or none is.                      *)
(***************************************************************************)
EXTENDS RoomClient

CONSTANTS t1, t2

BothQueued == Queue' = {} \/ (Queue' = Tasks /\ position'[t1] < position'[t2])

MCSpec == ClientInit /\ [][ClientNext /\ BothQueued]_allVars /\ ClientFairness

=============================================================================
