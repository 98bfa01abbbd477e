---------------------------- MODULE MCChunkArray ----------------------------
(* ChunkArray for TLC: the handles are symmetric. *)
EXTENDS ChunkArray, TLC

Symmetry == Permutations(Handles)
=============================================================================
