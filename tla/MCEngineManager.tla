-------------------------- MODULE MCEngineManager --------------------------
(***************************************************************************)
(* The instance of the engine manager for TLC: two names and two slots for *)
(* their engines, so that has_engine_slots has to reclaim.                 *)
(***************************************************************************)
EXTENDS EngineManager, TLC
=============================================================================
