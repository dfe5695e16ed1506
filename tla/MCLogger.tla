------------------------------ MODULE MCLogger ------------------------------
(***************************************************************************)
(* Instances of Logger.  The first writer is the error log (core.c), the   *)
(* second the transaction log.                                             *)
(***************************************************************************)
EXTENDS Logger, TLC

Taken       == <<{ERRORLOG}, {TXLOG}>>
Relogging   == <<"write", "relog">>
\* All three kinds: the error log, the transaction log that logs again, and
\* the server's transaction log, which is off.
Taken3      == <<{ERRORLOG}, {TXLOG}, {TXLOG}>>
ThreeKinds  == <<"write", "relog", "off">>
Symmetry    == Permutations(Threads)
=============================================================================
