---------------------------- MODULE ResourcePool ----------------------------
(***************************************************************************)
(* The resource pool of util/resource_pool.c.  A pool keeps user resources *)
(* (Lua stacks, for modules/lua_runtime.c) behind structures of type       *)
(* ib_resource_t: a structure is allocated, bound to a user resource by    *)
(* create_resource, handed out, taken back, unbound by destroy_resource    *)
(* and kept for reuse on the free queue.                                   *)
(*                                                                         *)
(* The pool has no lock of its own.  Its users serialise the calls         *)
(* (modlua_acquirestate holds lua_pool_lock around ib_resource_acquire),   *)
(* so a call is not interleaved with another; the loops of fill_to_min     *)
(* and ib_resource_pool_flush take one step per iteration because every    *)
(* iteration may fail, and op says which loop is running.                  *)
(***************************************************************************)
EXTENDS Naturals, Sequences, FiniteSets, Functions

CONSTANTS
    Structs,      \* the ib_resource_t structures the memory manager can give
    CreateLimits, \* the pairs <<min_count, max_count>> a pool is created with
    Limits,       \* the values passed to set_min and set_max
    UseLimits,    \* the numbers of uses postuse_fn may be told to allow
    MayFail,      \* whether create_fn, ib_mm_alloc and the queues fail
    MaxLeaked     \* bound: how often the allocation of a structure may fail

ASSUME PoolAssumption ==
    /\ IsFiniteSet(Structs)
    /\ CreateLimits \subseteq Nat \X Nat
    /\ Limits \subseteq Nat
    /\ UseLimits \subseteq Nat \ {0}
    /\ MayFail \in BOOLEAN
    /\ MaxLeaked \in Nat

VARIABLES
    op,        \* the call being executed, or the stage of the pool's life
    resources, \* rp->resources: bound structures ready to be acquired
    free,      \* rp->free_queue: structures without a user resource
    alloc,     \* the structures allocated so far
    bound,     \* the structures r with r->resource # NULL
    held,      \* the structures the users have acquired
    use,       \* r->use, and the use_count of the Lua stack
    count, min, max,
    use_limit, \* postuse_fn returns IB_EINVAL above this number of uses
    leaked     \* user resources that exist and that no structure refers to

vars == <<op, resources, free, alloc, bound, held, use, count, min, max,
          use_limit, leaked>>
queues == <<resources, free>>
limits == <<min, max, use_limit>>

Ops == {"none", "create", "idle", "flush", "refill", "failed", "destroyed"}

TypeOK ==
    /\ op \in Ops
    /\ resources \in Seq(Structs) /\ free \in Seq(Structs)
    /\ alloc \subseteq Structs /\ bound \subseteq alloc /\ held \subseteq bound
    /\ use \in [Structs -> Nat]
    /\ count \in Nat /\ min \in Nat /\ max \in Nat /\ leaked \in Nat
    /\ use_limit \in Nat

Init ==
    /\ op = "none"
    /\ resources = <<>> /\ free = <<>>
    /\ alloc = {} /\ bound = {} /\ held = {}
    /\ use = [s \in Structs |-> 0]
    /\ count = 0 /\ min = 0 /\ max = 0 /\ use_limit \in UseLimits
    /\ leaked = 0

-----------------------------------------------------------------------------
(* create_resource: the structure comes from the free queue, or is         *)
(* allocated.  count is incremented last.                                  *)
NewStruct(s) ==
    IF free # <<>> THEN s = Head(free) ELSE s \in Structs \ alloc

Created(s) ==
    /\ NewStruct(s)
    /\ free' = IF free # <<>> THEN Tail(free) ELSE free
    /\ alloc' = alloc \cup {s}
    /\ bound' = bound \cup {s}
    /\ count' = count + 1
    /\ UNCHANGED leaked

(* create_fn fails and nothing happened; or create_fn succeeded and the    *)
(* structure cannot be had: the user resource is not given back.  A        *)
(* structure that ib_queue_pop_front took from the free queue before it    *)
(* failed to shrink it is lost as well.                                    *)
NotCreated ==
    /\ MayFail
    /\ \/ UNCHANGED <<leaked, free>>
       \/ /\ leaked < MaxLeaked /\ leaked' = leaked + 1
          /\ free' = IF free # <<>> THEN Tail(free) ELSE free
    /\ UNCHANGED <<alloc, bound, count>>

\* ib_queue_push_back, which may be out of memory.
PushBack(q, s, qq) == qq = Append(q, s) \/ (MayFail /\ qq = q)

(* ib_resource_pool_create.  Limits that contradict each other are         *)
(* IB_EINVAL, and there is no pool.                                        *)
PoolCreate ==
    /\ op = "none"
    /\ \E l \in CreateLimits :
          /\ ~(l[2] > 0 /\ l[1] > l[2])
          /\ min' = l[1] /\ max' = l[2]
    /\ op' = "create"
    /\ UNCHANGED <<queues, alloc, bound, held, use, count, use_limit, leaked>>

(* One iteration of fill_to_min.  Out of it with an error: the pool is not *)
(* returned by ib_resource_pool_create, and flush returns the error.       *)
FillFailed == op' = IF op = "create" THEN "failed" ELSE "idle"

FillGuard == min > count

FillStep ==
    /\ op \in {"create", "refill"}
    /\ FillGuard
    /\ \/ \E s \in Structs :
             /\ Created(s)
             /\ use' = [use EXCEPT ![s] = 0]
             /\ PushBack(resources, s, resources')
             /\ IF resources' = resources THEN FillFailed ELSE op' = op
       \/ NotCreated /\ FillFailed /\ UNCHANGED <<resources, use>>
    /\ UNCHANGED <<held, limits>>

FillDone ==
    /\ op \in {"create", "refill"}
    /\ ~FillGuard
    /\ op' = "idle"
    /\ UNCHANGED <<queues, alloc, bound, held, use, count, limits, leaked>>

-----------------------------------------------------------------------------
(* ib_resource_acquire: a ready resource, or a new one if max allows, or   *)
(* IB_DECLINED, which changes nothing.  preuse_fn and the pool each count  *)
(* the use.                                                                *)
MayCreate == max = 0 \/ max > count

AcquireReady(s) ==
    /\ resources # <<>> /\ s = Head(resources)
    /\ resources' = Tail(resources)
    /\ use' = [use EXCEPT ![s] = @ + 1]
    /\ UNCHANGED <<free, alloc, bound, count, leaked>>

AcquireNew(s) ==
    /\ resources = <<>> /\ MayCreate
    /\ Created(s)
    /\ use' = [use EXCEPT ![s] = 1]
    /\ UNCHANGED resources

Acquire ==
    /\ op = "idle"
    /\ \E s \in Structs :
          /\ AcquireReady(s) \/ AcquireNew(s)
          /\ held' = held \cup {s}
    /\ UNCHANGED <<op, limits>>

(* No resource: none could be created, or ib_queue_pop_front failed after  *)
(* it had taken one, which nobody refers to from then on.                  *)
AcquireFailed ==
    /\ op = "idle"
    /\ \/ resources = <<>> /\ MayCreate /\ NotCreated /\ UNCHANGED resources
       \/ /\ MayFail
          /\ resources # <<>> /\ resources' = Tail(resources)
          /\ UNCHANGED <<free, alloc, bound, count, leaked>>
    /\ UNCHANGED <<op, held, use, limits>>

(* destroy_resource: destroy_fn, unbind, decrement, and keep the structure *)
(* if the free queue has room.                                             *)
\* Mutant: r->resource is not cleared.
Destroyed_StillBound(s) ==
    /\ use' = [use EXCEPT ![s] = 0]
    /\ count' = count - 1
    /\ PushBack(free, s, free')
    /\ UNCHANGED bound

\* Mutant: the count is not decremented.
Destroyed_StillCounted(s) ==
    /\ bound' = bound \ {s}
    /\ use' = [use EXCEPT ![s] = 0]
    /\ PushBack(free, s, free')
    /\ UNCHANGED count

Destroyed(s) ==
    /\ bound' = bound \ {s}
    /\ use' = [use EXCEPT ![s] = 0]
    /\ count' = count - 1
    /\ PushBack(free, s, free')

(* ib_resource_release, with the postuse_fn of modules/lua_runtime.c.      *)
TooOld(s) == use[s] > use_limit

Release ==
    /\ op = "idle"
    /\ \E s \in held :
          /\ held' = held \ {s}
          /\ \/ TooOld(s) /\ Destroyed(s) /\ UNCHANGED resources
             \/ /\ ~TooOld(s)
                /\ PushBack(resources, s, resources')
                /\ UNCHANGED <<free, bound, use, count>>
    /\ UNCHANGED <<op, alloc, limits, leaked>>

-----------------------------------------------------------------------------
(* ib_resource_pool_set_min and ib_resource_pool_set_max: a limit that     *)
(* contradicts the other one is IB_EINVAL, and the pool is not resized.    *)
SetMin ==
    /\ op = "idle"
    /\ \E n \in Limits : ~(max # 0 /\ max < n) /\ min' = n
    /\ UNCHANGED <<op, queues, alloc, bound, held, use, count, max, use_limit, leaked>>

SetMax ==
    /\ op = "idle"
    /\ \E n \in Limits : ~(n # 0 /\ n < min) /\ max' = n
    /\ UNCHANGED <<op, queues, alloc, bound, held, use, count, min, use_limit, leaked>>

(* modlua_runtime_cfg_set_stack_use_limit: the limit of postuse_fn.  The   *)
(* resources that exist may have been used more often.                     *)
SetUseLimit ==
    /\ op = "idle"
    /\ use_limit' \in UseLimits
    /\ UNCHANGED <<op, queues, alloc, bound, held, use, count, min, max, leaked>>

(* ib_resource_pool_flush: pop and destroy while count says there is a     *)
(* resource, then fill_to_min.  An empty queue while a user holds a        *)
(* resource is IB_ENOENT, and flush returns it, as it returns the error of *)
(* a pop that took a resource and then failed.                             *)
FlushStart ==
    /\ op = "idle"
    /\ op' = "flush"
    /\ UNCHANGED <<queues, alloc, bound, held, use, count, limits, leaked>>

\* Mutant: a failed pop_front is tried again.
FlushEmpty_Retried == op' = "flush"
FlushEmpty == op' = "idle"

FlushStep ==
    /\ op = "flush" /\ count > 0
    /\ \/ /\ resources # <<>>
          /\ resources' = Tail(resources)
          /\ Destroyed(Head(resources))
          /\ UNCHANGED op
       \/ /\ resources = <<>> \/ MayFail
          /\ resources' = IF resources = <<>> THEN resources ELSE Tail(resources)
          /\ FlushEmpty
          /\ UNCHANGED <<free, bound, use, count>>
    /\ UNCHANGED <<alloc, held, limits, leaked>>

FlushDone ==
    /\ op = "flush" /\ count = 0
    /\ op' = "refill"
    /\ UNCHANGED <<queues, alloc, bound, held, use, count, limits, leaked>>

(* ib_resource_pool_destroy, the cleanup of the pool's memory manager: it  *)
(* destroys the resources that are in the queue, and only these, up to the *)
(* first pop that fails after it has taken one.                            *)
PoolDestroy ==
    /\ op \in {"idle", "failed"}
    /\ op' = "destroyed"
    /\ \E n \in 0..Len(resources) :
          /\ n < Len(resources) => MayFail
          /\ bound' = bound \ Range(SubSeq(resources, 1, n))
          /\ resources' = SubSeq(resources, n + 2, Len(resources))
    /\ UNCHANGED <<free, alloc, held, use, count, limits, leaked>>

Next ==
    \/ PoolCreate \/ FillStep \/ FillDone
    \/ Acquire \/ AcquireFailed \/ Release
    \/ SetMin \/ SetMax \/ SetUseLimit
    \/ FlushStart \/ FlushStep \/ FlushDone
    \/ PoolDestroy

(* A call that has begun runs to its end: the loops are fair.              *)
Spec ==
    /\ Init /\ [][Next]_vars
    /\ WF_vars(FillStep \/ FillDone \/ FlushStep \/ FlushDone)

-----------------------------------------------------------------------------
(* A structure is in one place: it is never twice in a queue, never ready  *)
(* while it is in use, and only structures without a user resource are on  *)
(* the free queue.  create_resource, ib_resource_acquire, destroy_resource *)
(* and ib_resource_release move it, also when a push fails half way.       *)
Ownership ==
    /\ IsInjective(resources) /\ IsInjective(free)
    /\ Range(resources) \subseteq bound \ held
    /\ Range(free) \subseteq alloc \ bound

(* rp->count is the number of user resources the pool has created and not  *)
(* destroyed, in every failure: what create_resource increments,           *)
(* destroy_resource decrements.                                            *)
CountIsBound == op # "destroyed" => count = Cardinality(bound)

(* set_min, set_max and ib_resource_pool_create keep the limits compatible *)
(* in every order of the calls, 0 being no maximum.                        *)
MinBelowMax == max # 0 => min <= max

(* Unless memory ran out, a resource is ready or in use: none is lost.     *)
NoneLost ==
    ~MayFail => leaked = 0 /\ (op # "destroyed" => bound = held \cup Range(resources))

(* A pool that nobody uses can always serve ib_resource_acquire: after any *)
(* sequence of uses, destructions, new limits and flushes, either a        *)
(* resource is ready or max_count lets one be created, unless a push that  *)
(* ran out of memory has lost one.                                         *)
NotWedged ==
    op = "idle" /\ held = {} /\ bound \subseteq Range(resources) =>
        resources # <<>> \/ MayCreate

(* The resources are within the limit of postuse_fn: one that is ready was *)
(* used at most use_limit times, so none is ever used more than            *)
(* use_limit + 1 times.  A new, lower limit breaks it for the resources    *)
(* that exist then (see RunsWithinLimit of LuaRuntime).                    *)
UseBounded ==
    \A s \in bound : use[s] <= IF s \in Range(resources) THEN use_limit ELSE use_limit + 1

(* The inductive invariant.                                                *)
IInv ==
    /\ TypeOK /\ Ownership /\ CountIsBound /\ MinBelowMax /\ NoneLost
    /\ op = "none" => bound = {}

(* No step creates a resource beyond max_count, whether ib_resource_acquire*)
(* or fill_to_min creates it, and although set_max may put max_count below *)
(* the number of resources that exist.                                     *)
GrowthBounded == [][count' > count => max = 0 \/ count' <= max]_vars

(* fill_to_min and ib_resource_pool_flush end, also when all the resources *)
(* are in use and count never gets to 0.                                   *)
LoopsEnd == op \in {"create", "flush", "refill"} ~> op \in {"idle", "failed"}
=============================================================================
