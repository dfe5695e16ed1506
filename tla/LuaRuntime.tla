----------------------------- MODULE LuaRuntime -----------------------------
(***************************************************************************)
(* The life of the pool of Lua stacks of modules/lua.c and                 *)
(* modules/lua_runtime.c, on top of ResourcePool.  modlua_init creates the *)
(* pool and takes one stack for the configuration; the directives set the  *)
(* limits; when the main context is closed that stack is released and the  *)
(* pool is flushed, because a stack created before does not hold the whole *)
(* configuration; from then on the threads acquire and release stacks.     *)
(* lua_pool_lock is held around each acquire and each release, so these    *)
(* are atomic; configuration and shutdown have one thread.                 *)
(***************************************************************************)
EXTENDS ResourcePool

CONSTANT NoStack

ASSUME NoStackAssumption == NoStack \notin Structs

VARIABLES
    phase,   \* the module's stage
    cfgRes,  \* cfg->lua_resource
    old      \* the stacks created before the configuration was complete

luaVars == <<vars, phase, cfgRes, old>>

Phases == {"init", "config", "closing", "flushing", "running", "off"}

LuaInit == Init /\ phase = "init" /\ cfgRes = NoStack /\ old = {}

(* A stack is loaded by lua_pool_create_fn with the configuration as it is *)
(* then: modlua_reload_ctx_main.                                           *)
Ages ==
    old' = IF phase \in {"init", "config"}
           THEN bound' ELSE old \cap bound'

\* modlua_runtime_resource_pool_create, called by modlua_init.
InitPool ==
    /\ phase = "init"
    /\ PoolCreate \/ FillStep \/ FillDone
    /\ UNCHANGED <<phase, cfgRes>> /\ Ages

\* modlua_init takes the stack that configuration uses.
InitAcquire ==
    /\ phase = "init"
    /\ Acquire
    /\ cfgRes' \in held' \ held
    /\ phase' = "config"
    /\ Ages

\* No stack for the configuration: the module is not loaded.
InitFails ==
    /\ phase = "init"
    /\ AcquireFailed
    /\ phase' = "off"
    /\ UNCHANGED cfgRes /\ Ages

(* The directives LuaStackMin, LuaStackMax and LuaStackUseLimit.           *)
Directive ==
    /\ phase = "config"
    /\ SetMin \/ SetMax \/ SetUseLimit
    /\ UNCHANGED <<phase, cfgRes, old>>

(* A Lua handler of a context state runs during configuration, or one of a *)
(* transaction later: modlua_acquirestate, the call, modlua_releasestate.  *)
AcquireState ==
    /\ phase \in {"config", "running"}
    /\ Acquire \/ AcquireFailed
    /\ UNCHANGED <<phase, cfgRes>> /\ Ages

ReleaseState ==
    /\ phase \in {"config", "running"}
    /\ Release
    /\ cfgRes # NoStack => cfgRes \in held'
    /\ UNCHANGED <<phase, cfgRes>> /\ Ages

(* modlua_context_close of the main context: release, whose result is not  *)
(* looked at, then flush.                                                  *)
\* Mutant: the pool is not flushed.
ContextClose_NotFlushed ==
    /\ phase = "config" /\ held = {cfgRes}
    /\ Release
    /\ cfgRes' = NoStack
    /\ phase' = "running"
    /\ Ages

ContextClose ==
    /\ phase = "config" /\ held = {cfgRes}
    /\ Release
    /\ cfgRes' = NoStack
    /\ phase' = "closing"
    /\ Ages

CloseFlush ==
    /\ phase = "closing"
    /\ FlushStart
    /\ phase' = "flushing"
    /\ UNCHANGED cfgRes /\ Ages

(* The flush succeeds when fill_to_min reaches the minimum; any other end  *)
(* of it fails the configuration.                                          *)
CloseFlushing ==
    /\ phase = "flushing"
    /\ FlushStep \/ FlushDone \/ FillStep \/ FillDone
    /\ phase' = IF op' # "idle" THEN phase
                ELSE IF op = "refill" /\ ~FillGuard THEN "running" ELSE "off"
    /\ UNCHANGED cfgRes /\ Ages

\* The engine is destroyed, after its transactions or a failed configuration.
Destroy ==
    /\ PoolDestroy
    /\ held \subseteq {cfgRes}
    /\ phase' = "off"
    /\ UNCHANGED cfgRes /\ Ages

LuaNext ==
    \/ InitPool \/ InitAcquire \/ InitFails \/ Directive
    \/ AcquireState \/ ReleaseState
    \/ ContextClose \/ CloseFlush \/ CloseFlushing
    \/ Destroy

(* The loops of fill_to_min and ib_resource_pool_flush are run to their    *)
(* end by the one thread that initialises and configures the module.       *)
LuaSpec ==
    /\ LuaInit /\ [][LuaNext]_luaVars
    /\ WF_luaVars(InitPool) /\ WF_luaVars(CloseFlushing)

-----------------------------------------------------------------------------
(* No transaction runs in a Lua state that lacks a part of the             *)
(* configuration: every stack that was created before the main context was *)
(* closed is destroyed by the flush, whatever limits were set and whatever *)
(* failed.                                                                 *)
NoOldStack == phase = "running" => old = {}

(* Once transactions run, no Lua state is used more than one time beyond   *)
(* LuaStackUseLimit, whatever limits the configuration set and however     *)
(* often the states of that time were used: the flush has replaced them.   *)
RunsWithinLimit == phase = "running" => UseBounded

=============================================================================
