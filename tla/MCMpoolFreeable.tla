-------------------------- MODULE MCMpoolFreeable --------------------------
(* The freeable pool with pages of 4 units, tracks up to 2, 4 and 8 units  *)
(* and sizes on both sides of each limit.                                  *)
EXTENDS MpoolFreeable, TLC

Symmetry == Permutations(Pages) \cup Permutations(Cleanups) \cup Permutations(Allocs)
=============================================================================
