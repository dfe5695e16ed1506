------------------------ MODULE MCKvstoreFilesystem ------------------------
(* Two processes that use one key; they are alike, so they are symmetric.  *)
EXTENDS KvstoreFilesystem, TLC

Symmetry == Permutations(Procs)
=============================================================================
