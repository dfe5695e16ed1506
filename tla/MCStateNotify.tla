--------------------------- MODULE MCStateNotify ---------------------------
(***************************************************************************)
(* The instance of StateNotify: each server with two transactions when     *)
(* nothing fails, and with one when any of the calls may fail.             *)
(***************************************************************************)
EXTENDS StateNotify, TLC

Envs ==
    [server : Servers, txs : {Txs}, fails : {{}}]
        \cup [server : Servers, txs : {{t} : t \in Txs}, fails : {FailureKinds}]
Symmetry == Permutations(Txs)
=============================================================================
