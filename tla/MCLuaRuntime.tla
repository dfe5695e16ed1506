---------------------------- MODULE MCLuaRuntime ----------------------------
(* The instance of LuaRuntime.                                             *)
EXTENDS LuaRuntime, TLC

CONSTANTS r1, r2, r3, r4

MCStructs == {r1, r2, r3, r4}

\* The minimum of 10 stacks that modlua_init asks for, scaled down; no maximum.
Default == {<<2, 0>>}
NewLimits == 0..3
=============================================================================
