---------------------------- MODULE MCLazyArray ----------------------------
(* LazyArray for TLC: the handles are symmetric. *)
EXTENDS LazyArray, TLC

Symmetry == Permutations(Handles)
=============================================================================
