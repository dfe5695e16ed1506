------------------------------ MODULE MCQueue ------------------------------
(* Instances of Queue: two elements, storage that starts at two cells.     *)
EXTENDS Queue, TLC

Symmetry == Permutations(Element)
=============================================================================
