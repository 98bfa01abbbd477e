--------------------------- MODULE MCDistributor ---------------------------
(***************************************************************************)
(* Distributor for TLC: up to four tasks, up to three threads and the      *)
(* thread counts no worker is started for. With four tasks and three       *)
(* threads a future is refilled while the other two are in any state.      *)
(* Task 1 may hang, and 2 and 3 may throw.                                 *)
(***************************************************************************)
EXTENDS Distributor

MCTaskCounts == 0 .. 4
MCThreadCounts == {-1, 0, 1, 2, 3}
MCMayThrow == {2, 3}
MCMayHang == {1}
=============================================================================
