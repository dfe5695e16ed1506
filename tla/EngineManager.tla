--------------------------- MODULE EngineManager ---------------------------
(***************************************************************************)
(* The engine manager (engine/engine_manager.c): it owns the IronBee       *)
(* engines of a server process, publishes at most one engine per name,     *)
(* counts the references to each engine, and destroys the engines nobody   *)
(* references.                                                             *)
(*                                                                         *)
(* Admins are the threads that run the control operations (create,         *)
(* enable, disable, cleanup, status).  Conns are the server's connections, *)
(* each of which acquires an engine when it opens and releases it when it  *)
(* closes.  Every operation runs under manager_lck.  A critical section    *)
(* that calls no user code is one action; the creation of an engine, which *)
(* runs the configuration under the lock, is two; ib_manager_disable,      *)
(* which does its second half without the lock, is one action per lock     *)
(* section and per notification.                                           *)
(***************************************************************************)
EXTENDS Integers, FiniteSets

CONSTANTS
  Engines,        \* the addresses an engine may live at
  Names,          \* the names engines are created for
  Conns,          \* the connections of the server
  Admins,         \* the threads that run control operations
  MaxEngines,     \* max_engines of ib_manager_create
  CleanupOnClose, \* the server calls ib_manager_engine_cleanup at close
  AllocMayFail,   \* memory allocations may fail
  NULL            \* no engine, no name, no thread

ASSUME EngineManagerAssumption ==
  /\ MaxEngines \in Nat \ {0}
  /\ CleanupOnClose \in BOOLEAN
  /\ AllocMayFail \in BOOLEAN
  /\ NULL \notin Engines \cup Names \cup Admins
  /\ IsFiniteSet(Engines)
  /\ IsFiniteSet(Names)
  /\ IsFiniteSet(Conns)
  /\ IsFiniteSet(Admins)

VARIABLES
  up,             \* the manager exists (between its create and its destroy)
  enabled,        \* manager->enabled
  engine_list,    \* the engines in manager->engine_list
  ref_count,      \* the ref_count of each engine's wrapper
  name_to_engine, \* manager->name_to_engine: the current engine of a name
  engine,         \* "free", "live" or "leaked": the memory at the address
  signalled,      \* the engines told to shut down
  manager_lck,    \* the thread that holds manager_lck
  pc,             \* what each admin is in the middle of
  arg,            \* the name being created, or the engine being released
  pending,        \* the engines ib_manager_disable captured and still holds
  conn,           \* the engine each connection holds
  closing,        \* the sessions in SSN_CLOSE that have their cleanup to do
  deferred        \* the sessions closed with transactions still open

vars == <<up, enabled, engine_list, ref_count, name_to_engine, engine,
          signalled, manager_lck, pc, arg, pending, conn, closing, deferred>>

managed == <<engine_list, ref_count, name_to_engine, engine, signalled>>

TypeOK ==
  /\ up \in BOOLEAN
  /\ enabled \in BOOLEAN
  /\ engine_list \in SUBSET Engines
  /\ ref_count \in [Engines -> Nat]
  /\ name_to_engine \in [Names -> Engines \cup {NULL}]
  /\ engine \in [Engines -> {"free", "live", "leaked"}]
  /\ signalled \in SUBSET Engines
  /\ manager_lck \in Admins \cup {NULL}
  /\ pc \in [Admins -> {"idle", "creating", "draining", "releasing"}]
  /\ arg \in [Admins -> Names \cup Engines \cup {NULL}]
  /\ pending \in [Admins -> SUBSET Engines]
  /\ conn \in [Conns -> Engines \cup {NULL}]
  /\ closing \in SUBSET Conns
  /\ deferred \in SUBSET Conns

-----------------------------------------------------------------------------
(* The state ib_manager_create leaves: no engine, no name, enabled.        *)
Init ==
  /\ up = TRUE
  /\ enabled = TRUE
  /\ engine_list = {}
  /\ ref_count = [e \in Engines |-> 0]
  /\ name_to_engine = [n \in Names |-> NULL]
  /\ engine = [e \in Engines |-> "free"]
  /\ signalled = {}
  /\ manager_lck = NULL
  /\ pc = [a \in Admins |-> "idle"]
  /\ arg = [a \in Admins |-> NULL]
  /\ pending = [a \in Admins |-> {}]
  /\ conn = [c \in Conns |-> NULL]
  /\ closing = {}
  /\ deferred = {}

(* A thread may enter a critical section.                                  *)
Unlocked == up /\ manager_lck = NULL

(* Mutant: the last reference is not counted.                              *)
Inactive_LastReference(list, refs) == {e \in list : refs[e] <= 1}

(* The listed engines nobody references.                                   *)
Inactive(list, refs) == {e \in list : refs[e] = 0}

(* destroy_inactive_engines, applied to the list and the counts its caller *)
(* has just computed: every engine with no reference is destroyed and the  *)
(* list is compacted.                                                      *)
DestroyInactive(list, refs, told) ==
  /\ engine_list' = list \ Inactive(list, refs)
  /\ ref_count' = refs
  /\ engine' = [e \in Engines |->
                  IF e \in Inactive(list, refs) THEN "free"
                  ELSE IF e \in list THEN "live"
                  ELSE engine[e]]
  /\ signalled' = told \ Inactive(list, refs)

-----------------------------------------------------------------------------
(* ib_manager_engine_create, up to the construction of the engine: the     *)
(* manager must be enabled, and has_engine_slots reclaims inactive engines *)
(* when the list is full.  A declined call changes nothing.                *)
EngineCreate(a, n) ==
  /\ Unlocked /\ pc[a] = "idle" /\ enabled
  /\ IF Cardinality(engine_list) >= MaxEngines
     THEN /\ Inactive(engine_list, ref_count) # {}
          /\ DestroyInactive(engine_list, ref_count, signalled)
     ELSE UNCHANGED <<engine_list, ref_count, engine, signalled>>
  /\ manager_lck' = a
  /\ pc' = [pc EXCEPT ![a] = "creating"]
  /\ arg' = [arg EXCEPT ![a] = n]
  /\ UNCHANGED <<up, enabled, name_to_engine, pending, conn, closing, deferred>>

(* The end of a create: unlock and return.                                 *)
CreateReturn(a) ==
  /\ manager_lck' = NULL
  /\ pc' = [pc EXCEPT ![a] = "idle"]
  /\ arg' = [arg EXCEPT ![a] = NULL]
  /\ UNCHANGED <<up, enabled, pending, conn, closing, deferred>>

(* create_engine fails before parsing or in a post-configuration function: *)
(* the goto error path destroys the engine it had created.                 *)
CreateEngineError(a) ==
  /\ pc[a] = "creating"
  /\ CreateReturn(a)
  /\ UNCHANGED managed

(* ib_cfgparser_parse or ib_engine_config_finished fails: create_engine    *)
(* returns at once and the engine it created is never destroyed.           *)
CreateEngineParseError(a) ==
  /\ pc[a] = "creating"
  /\ \E e \in Engines :
       /\ engine[e] = "free"
       /\ engine' = [engine EXCEPT ![e] = "leaked"]
  /\ CreateReturn(a)
  /\ UNCHANGED <<engine_list, ref_count, name_to_engine, signalled>>

(* The counts register_engine leaves: a reference moves from the previous  *)
(* engine of the name to the new one.                                      *)
Promote(e, previous) ==
  [x \in Engines |-> IF x = e THEN 1
                     ELSE IF x = previous THEN ref_count[x] - 1
                     ELSE ref_count[x]]

(* Mutant: the new engine is signalled in place of the previous one.       *)
RegisterEngine_SignalsNew(a) ==
  /\ pc[a] = "creating"
  /\ \E e \in Engines :
       LET n == arg[a]
           previous == name_to_engine[n]
       IN /\ engine[e] = "free"
          /\ name_to_engine' = [name_to_engine EXCEPT ![n] = e]
          /\ DestroyInactive(engine_list \cup {e}, Promote(e, previous),
                             signalled \cup {e})
  /\ CreateReturn(a)

(* create_engine succeeds, register_engine makes the engine current for    *)
(* its name and signals the previous one, and destroy_inactive_engines     *)
(* runs before the unlock.                                                 *)
RegisterEngine(a) ==
  /\ pc[a] = "creating"
  /\ \E e \in Engines :
       LET n == arg[a]
           previous == name_to_engine[n]
       IN /\ engine[e] = "free"
          /\ name_to_engine' = [name_to_engine EXCEPT ![n] = e]
          /\ DestroyInactive(engine_list \cup {e}, Promote(e, previous),
                             signalled \cup ({previous} \ {NULL}))
  /\ CreateReturn(a)

(* ib_hash_set fails in register_engine: the new engine is listed with no  *)
(* reference and the destroy_inactive_engines that follows destroys it;    *)
(* the previous engine stays current.                                      *)
RegisterEngineFails(a) ==
  /\ AllocMayFail
  /\ pc[a] = "creating"
  /\ \E e \in Engines :
       /\ engine[e] = "free"
       /\ DestroyInactive(engine_list \cup {e},
                          [ref_count EXCEPT ![e] = 0], signalled)
  /\ CreateReturn(a)
  /\ UNCHANGED name_to_engine

-----------------------------------------------------------------------------
(* ib_manager_enable *)
Enable(a) ==
  /\ Unlocked /\ pc[a] = "idle"
  /\ enabled' = TRUE
  /\ UNCHANGED <<up, managed, manager_lck, pc, arg, pending, conn, closing, deferred>>

(* The engines some name is mapped to.                                     *)
Current == {name_to_engine[n] : n \in Names} \ {NULL}

(* Mutant: the references are given up in the lock section, before the     *)
(* engines are signalled.                                                  *)
Disable_ReleasedEarly(a) ==
  /\ Unlocked /\ pc[a] = "idle"
  /\ pending' = [pending EXCEPT ![a] = Current]
  /\ name_to_engine' = [n \in Names |-> NULL]
  /\ ref_count' = [e \in Engines |-> IF e \in Current THEN ref_count[e] - 1
                                     ELSE ref_count[e]]
  /\ enabled' = IF Current = {} THEN enabled ELSE FALSE
  /\ pc' = [pc EXCEPT ![a] = "draining"]
  /\ UNCHANGED <<up, engine_list, engine, signalled, manager_lck, arg, conn,
                 closing, deferred>>

(* ib_manager_disable, the lock section: capture the current engines,      *)
(* clear the map, clear the flag.  ib_hash_get_all fails with IB_ENOENT on *)
(* an empty map, and the section is then left before the flag is cleared;  *)
(* either way the unlocked second half follows.  Allocation failures here  *)
(* are left out: a failed ib_list_create jumps to the unlock of a lock     *)
(* that is not held and walks a list that was never set, and               *)
(* ib_hash_get_all does not look at the result of its pushes.              *)
Disable(a) ==
  /\ Unlocked /\ pc[a] = "idle"
  /\ pending' = [pending EXCEPT ![a] = Current]
  /\ name_to_engine' = [n \in Names |-> NULL]
  /\ enabled' = IF Current = {} THEN enabled ELSE FALSE
  /\ pc' = [pc EXCEPT ![a] = "draining"]
  /\ UNCHANGED <<up, engine_list, ref_count, engine, signalled, manager_lck,
                 arg, conn, closing, deferred>>

(* ib_manager_disable, without the lock: signal the next captured engine.  *)
DisableSignal(a) ==
  /\ pc[a] = "draining"
  /\ \E e \in pending[a] :
       /\ signalled' = signalled \cup {e}
       /\ arg' = [arg EXCEPT ![a] = e]
  /\ pc' = [pc EXCEPT ![a] = "releasing"]
  /\ UNCHANGED <<up, enabled, engine_list, ref_count, name_to_engine, engine,
                 manager_lck, pending, conn, closing, deferred>>

(* ib_manager_engine_release(e): the count of a listed engine goes down;   *)
(* an engine that is not listed is refused with IB_EINVAL.  Nothing is     *)
(* destroyed here.                                                         *)
EngineRelease(e) ==
  /\ Unlocked
  /\ ref_count' = IF e \in engine_list
                  THEN [ref_count EXCEPT ![e] = @ - 1]
                  ELSE ref_count
  /\ UNCHANGED <<up, enabled, engine_list, name_to_engine, engine, signalled,
                 manager_lck>>

(* Mutant: the captured engine is skipped and stays captured.              *)
DisableRelease_Skipped(a) ==
  /\ pc[a] = "releasing" /\ Unlocked
  /\ pc' = [pc EXCEPT ![a] = "draining"]
  /\ arg' = [arg EXCEPT ![a] = NULL]
  /\ UNCHANGED <<up, enabled, managed, manager_lck, pending, conn, closing, deferred>>

(* ib_manager_disable: release the manager's reference to that engine.     *)
DisableRelease(a) ==
  /\ pc[a] = "releasing"
  /\ EngineRelease(arg[a])
  /\ pending' = [pending EXCEPT ![a] = @ \ {arg[a]}]
  /\ pc' = [pc EXCEPT ![a] = "draining"]
  /\ arg' = [arg EXCEPT ![a] = NULL]
  /\ UNCHANGED <<conn, closing,
                 deferred>>

(* ib_manager_engine_cleanup *)
EngineCleanup ==
  /\ Unlocked
  /\ DestroyInactive(engine_list, ref_count, signalled)
  /\ UNCHANGED <<up, enabled, name_to_engine, manager_lck, arg, pending, conn>>

(* ib_manager_disable: the final cleanup.                                  *)
DisableCleanup(a) ==
  /\ pc[a] = "draining" /\ pending[a] = {}
  /\ EngineCleanup
  /\ pc' = [pc EXCEPT ![a] = "idle"]
  /\ UNCHANGED <<closing, deferred>>

(* An admin calls ib_manager_engine_cleanup.                               *)
AdminCleanup(a) ==
  /\ pc[a] = "idle"
  /\ EngineCleanup
  /\ UNCHANGED <<pc, closing, deferred>>

(* ib_manager_engine_status returns IB_EALLOC without unlocking when its   *)
(* array cannot be allocated; an empty array always can.  A successful     *)
(* call changes nothing.                                                   *)
EngineStatusFails(a) ==
  /\ AllocMayFail /\ engine_list # {}
  /\ Unlocked /\ pc[a] = "idle"
  /\ manager_lck' = a
  /\ UNCHANGED <<up, enabled, managed, pc, arg, pending, conn, closing, deferred>>

-----------------------------------------------------------------------------
(* ib_manager_engine_acquire, by name or (IB_MANAGER_ENGINE_NAME_ANY) for  *)
(* whichever name the map yields first.  A name with no engine is declined *)
(* and nothing changes.                                                    *)
EngineAcquire(c, n) ==
  /\ Unlocked /\ conn[c] = NULL /\ c \notin closing
  /\ name_to_engine[n] # NULL
  /\ conn' = [conn EXCEPT ![c] = name_to_engine[n]]
  /\ ref_count' = [ref_count EXCEPT ![name_to_engine[n]] = @ + 1]
  /\ UNCHANGED <<up, enabled, engine_list, name_to_engine, engine, signalled,
                 manager_lck, pc, arg, pending, closing, deferred>>

(* ib_conn_destroy: the pool's cleanup function of the connection releases *)
(* its engine.                                                             *)
ConnDestroy(c) ==
  /\ conn[c] # NULL
  /\ EngineRelease(conn[c])
  /\ conn' = [conn EXCEPT ![c] = NULL]
  /\ UNCHANGED <<pc, arg, pending>>

(* Mutant: the session forgets the cleanup that follows its release.       *)
ConnRelease_NoCleanup(c) ==
  /\ c \notin deferred
  /\ ConnDestroy(c)
  /\ UNCHANGED <<closing, deferred>>

(* A connection closes and releases its engine.  For the Traffic Server    *)
(* plugin this is SSN_CLOSE of a session without open transactions, which  *)
(* calls cleanup next.                                                     *)
ConnRelease(c) ==
  /\ c \notin deferred
  /\ ConnDestroy(c)
  /\ closing' = IF CleanupOnClose THEN closing \cup {c} ELSE closing
  /\ UNCHANGED deferred

(* SSN_CLOSE of a session with transactions still open: the session is     *)
(* only marked as closing and keeps its engine, and the cleanup comes      *)
(* next, before the release.                                               *)
ConnDefer(c) ==
  /\ CleanupOnClose
  /\ conn[c] # NULL /\ c \notin deferred
  /\ deferred' = deferred \cup {c}
  /\ closing' = closing \cup {c}
  /\ UNCHANGED <<up, enabled, managed, manager_lck, pc, arg, pending, conn>>

(* TXN_CLOSE of the last transaction of a session marked as closing: the   *)
(* engine is released and no cleanup follows.  (The events of a session    *)
(* come one at a time: the plugin keeps its session data without a lock.)  *)
ConnReleaseDeferred(c) ==
  /\ c \in deferred \ closing
  /\ ConnDestroy(c)
  /\ deferred' = deferred \ {c}
  /\ UNCHANGED closing

(* The cleanup at the end of SSN_CLOSE, whichever way the close went.      *)
ConnCleanup(c) ==
  /\ c \in closing
  /\ EngineCleanup
  /\ closing' = closing \ {c}
  /\ UNCHANGED <<pc, deferred>>

-----------------------------------------------------------------------------
(* ib_manager_destroy: every listed engine is destroyed, whatever its      *)
(* count.  The caller has stopped every thread and closed every connection *)
(* that uses the manager.                                                  *)
ManagerDestroy ==
  /\ up
  /\ \A a \in Admins : pc[a] = "idle"
  /\ \A c \in Conns : conn[c] = NULL
  /\ closing = {}
  /\ up' = FALSE
  /\ engine' = [e \in Engines |->
                  IF e \in engine_list THEN "free" ELSE engine[e]]
  /\ engine_list' = {}
  /\ ref_count' = [e \in Engines |-> 0]
  /\ name_to_engine' = [n \in Names |-> NULL]
  /\ signalled' = {}
  /\ manager_lck' = NULL
  /\ UNCHANGED <<enabled, pc, arg, pending, conn, closing, deferred>>

(* ib_manager_create, when the server starts again in the same process.    *)
ManagerCreate ==
  /\ ~up
  /\ up' = TRUE
  /\ enabled' = TRUE
  /\ UNCHANGED <<managed, manager_lck, pc, arg, pending, conn, closing, deferred>>

CreateStep(a) ==
  \/ CreateEngineError(a)
  \/ CreateEngineParseError(a)
  \/ RegisterEngine(a)
  \/ RegisterEngineFails(a)

DisableStep(a) ==
  \/ DisableSignal(a)
  \/ DisableRelease(a)
  \/ DisableCleanup(a)

AdminStep(a) ==
  \/ \E n \in Names : EngineCreate(a, n)
  \/ CreateStep(a)
  \/ Enable(a)
  \/ Disable(a)
  \/ DisableStep(a)
  \/ AdminCleanup(a)
  \/ EngineStatusFails(a)

SsnClose(c) == ConnRelease(c) \/ ConnDefer(c) \/ ConnCleanup(c)

ConnStep(c) ==
  \/ \E n \in Names : EngineAcquire(c, n)
  \/ SsnClose(c)
  \/ ConnReleaseDeferred(c)

Next ==
  \/ \E a \in Admins : AdminStep(a)
  \/ \E c \in Conns : ConnStep(c)
  \/ ManagerDestroy
  \/ ManagerCreate

Spec == Init /\ [][Next]_vars

(* A thread that waits for manager_lck gets it eventually, the lock being  *)
(* held only for a bounded time; configuration, notification and the       *)
(* second half of disable run to their end; sessions get their SSN_CLOSE,  *)
(* with or without open transactions.  Nothing forces an admin to start an *)
(* operation, nor a deferred session's last transaction to end.            *)
Fairness ==
  /\ \A a \in Admins : SF_vars(CreateStep(a) \/ DisableStep(a))
  /\ \A c \in Conns : SF_vars(SsnClose(c))

FairSpec == Spec /\ Fairness

-----------------------------------------------------------------------------
(* The references to an engine: the names it is current for, the           *)
(* connections that acquired it, and the disables that captured it.        *)
NameRefs(e) == {n \in Names : name_to_engine[n] = e}
ConnRefs(e) == {c \in Conns : conn[c] = e}
DrainRefs(e) == {a \in Admins : e \in pending[a]}

(* Reference counting is exact: the count of a listed engine is the number *)
(* of names, connections and unfinished disables that still refer to it,   *)
(* so ib_manager_engine_release never trips its assertion and never meets  *)
(* an engine it does not know.                                             *)
RefCountExact ==
  /\ \A e \in engine_list :
       ref_count[e] = Cardinality(NameRefs(e)) + Cardinality(ConnRefs(e))
                        + Cardinality(DrainRefs(e))
  /\ \A e \in Engines \ engine_list :
       NameRefs(e) = {} /\ ConnRefs(e) = {} /\ DrainRefs(e) = {}

(* No use after destroy: the engine a connection holds, that a name is     *)
(* mapped to, or that a disable still has to signal, is alive, whatever    *)
(* creates, disables and cleanups ran since it was acquired.               *)
InUseIsLive ==
  \A e \in Engines :
    (NameRefs(e) # {} \/ ConnRefs(e) # {} \/ DrainRefs(e) # {})
      => engine[e] = "live"

(* has_engine_slots keeps the engines within the array of max_engines      *)
(* slots: the assertion of register_engine holds when it is reached.       *)
SlotsBounded ==
  /\ Cardinality(engine_list) <= MaxEngines
  /\ (\E a \in Admins : pc[a] = "creating")
       => Cardinality(engine_list) < MaxEngines

(* An engine that was told to shut down is never current again, so         *)
(* ib_manager_engine_acquire never hands it to a new connection.           *)
SignalledIsRetired ==
  \A n \in Names : name_to_engine[n] \notin signalled

(* The engines that are alive are exactly the listed ones, so nothing that *)
(* was registered survives ib_manager_destroy.                             *)
LiveIsListed ==
  /\ engine_list = {e \in Engines : engine[e] = "live"}
  /\ ~up => engine_list = {}

(* What each thread may rely on in the middle of an operation: a create    *)
(* holds the lock, a release concerns an engine still captured.            *)
ControlInv ==
  \A a \in Admins :
    /\ pc[a] = "creating" => up /\ manager_lck = a /\ arg[a] \in Names
    /\ pc[a] = "releasing" => arg[a] \in pending[a]
    /\ pc[a] \in {"idle", "creating"} => pending[a] = {}

(* How the map, the list and the signals fit together: an engine serves    *)
(* one name, a captured or signalled engine serves none.                   *)
RegistryInv ==
  /\ LiveIsListed
  /\ SignalledIsRetired
  /\ signalled \subseteq engine_list
  /\ \A m, n \in Names :
       name_to_engine[m] # NULL /\ name_to_engine[m] = name_to_engine[n]
         => m = n
  /\ \A a \in Admins : \A e \in pending[a] : NameRefs(e) = {}

(* The invariant that is preserved by every step: exact counts alone are   *)
(* not, because a disable trades the reference of a name for its own.      *)
IInv == TypeOK /\ ControlInv /\ RegistryInv /\ RefCountExact /\ SlotsBounded

(* The shutdown notification, which disable delivers without the lock, is  *)
(* only ever delivered to an engine that is alive.                         *)
SignalReachesLive ==
  [][\A e \in signalled' \ signalled : engine[e] = "live"]_vars

(* A status query that could not allocate its result keeps the lock.       *)
StatusKeepsLock ==
  manager_lck # NULL /\ \A a \in Admins : pc[a] # "creating"

(* Somebody still has a cleanup to run: a session that has not had its     *)
(* SSN_CLOSE, a session in the middle of it, a disable in progress.        *)
CleanupToCome ==
  \/ CleanupOnClose /\ \E c \in Conns : conn[c] # NULL /\ c \notin deferred
  \/ closing # {}
  \/ \E a \in Admins : pc[a] \in {"draining", "releasing"}

(* An engine without references does not outlive the sessions that were    *)
(* open when it lost its last one: as long as one of them has its          *)
(* SSN_CLOSE to come, in either order of release and cleanup, or a disable *)
(* is in progress, the engine is destroyed.  (An engine released by the    *)
(* TXN_CLOSE of the last session stays until there is another one, a       *)
(* create, or a disable.)                                                  *)
InactiveIsCollected ==
  \A e \in Engines :
    (engine[e] = "live" /\ ref_count[e] = 0 /\ CleanupToCome)
      ~> (engine[e] # "live" \/ StatusKeepsLock)

(* A disable runs to its end: every engine it captured is released.        *)
DisableReturns ==
  \A a \in Admins :
    (pc[a] = "draining") ~> (pc[a] = "idle" \/ StatusKeepsLock)
=============================================================================
