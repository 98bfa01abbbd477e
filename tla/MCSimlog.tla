------------------------------ MODULE MCSimlog ------------------------------
(* Simlog for TLC: threads and streams are symmetric. *)
EXTENDS Simlog, TLC

Symmetry == Permutations(Threads) \cup Permutations(Streams)
=============================================================================
