# A TLA+ verification of IronBee

IronBee is an engine that web servers embed to inspect HTTP traffic.  This
directory models the parts of it whose correctness depends on the order in
which things happen: threads, callbacks, servers that call in any order,
processes that share a directory, allocations that fail half way, and reference
counts that several owners share.  Every definition is translated from the code
(paths below are relative to `src/`), TLC checks small instances of the models,
and TLAPS proves the central invariants for every value of the constants.

`PROJECT.json` lists the components, the runs, the lines each definition
translates, a mutation of the code for every checked property (with which TLC
finds that property violated), the hazards of the code and the theorems.

## The system and its models

A server plugin (`servers/`) creates an **engine manager**, which builds engines
from configurations, hands the current one to each new connection and destroys
the old ones when nobody uses them.  With its engine a connection notifies the
engine of the **states** of its transactions; hooks run inside these
notifications.  The most important hook is the rule engine, whose rules may
**block or allow** the transaction.  Body data goes through a **stream pump**,
whose items are reference-counted pieces of a **freeable memory pool**.  Lua
rules run in stacks from a **resource pool**, and what the engine has to say
goes to the **logger**, whose records wait in a **queue**.  The persistence
module keeps values in a **key-value store**, and the fast rule system finds the
rules that may match with **Aho-Corasick automata**.

| Module | Code | One step is |
|---|---|---|
| `EngineManager` | `engine/engine_manager.c` | a critical section of `manager_lck`, a notification without it, a half of an engine's construction |
| `Deque`, `Queue` | `include/ironbee/queue.h`, `util/queue.c` | a call |
| `Logger` | `engine/logger.c`, `modules/txlog.cpp`, `servers/trafficserver/ts_module.c` | a critical section of a writer's lock, one handler call in a drain |
| `StateNotify` | `engine/state_notify.c`, `engine/engine.c`, `servers/` | a call from the server |
| `ResourcePool` | `util/resource_pool.c` | a call; an iteration of its loops |
| `LuaRuntime` | `modules/lua.c`, `modules/lua_runtime.c` | composes `ResourcePool` with the life of the Lua module |
| `MpoolFreeable` | `util/mpool_freeable.c` | a call (each holds the pool's mutex) |
| `StreamPump` | `engine/stream_pump.c`, `util/stream_io.c`, `engine/core_stream_processor.c`, `modules/stream_inflate.c` | one item taken, put or passed on |
| `TxBlocking` | `engine/engine.c`, `engine/core_actions.c`, `engine/rule_engine.c` | the start of a phase or stream, one rule, one action |
| `KvstoreFilesystem` | `util/kvstore_filesystem.c`, `util/kvstore.c` | a system call on the key's directory |
| `AhoCorasick` | `automata/aho_corasick.cpp`, `automata/translate_nonadvancing.cpp`, `automata/eudoxus_subengine.c` | a round of a loop of the construction, a transition of the execution |

`MC*` modules hold what an instance needs beyond a `.cfg` (symmetry, functions
as constants); `*Proofs` modules hold theorems.

### EngineManager

`engine_list` is the manager's array of engines, `name_to_engine` its hash,
`conn` the engine each connection holds, `pending` what each running disable
captured.  Creation is two steps under the lock, because the configuration runs
in between and may fail, cleanly or leaking the engine; registration may fail at
`ib_hash_set`.  `ib_manager_disable` captures engines under the lock, then
signals and releases them without it; its own allocations do not fail in the
model.  `CleanupOnClose` says whether the server calls cleanup at the close of a
session, as Traffic Server does (`ts_event.c:928`).  There a session that still
has transactions only defers its release (`ConnDefer`): the cleanup comes first
and the release with the last transaction, without a cleanup of its own
(`ConnReleaseDeferred`).  A status query that fails returns with the lock held;
the model does the same.

### Queue and Deque

`Queue` has the storage, head, size and allocation of `ib_queue_t`, with growth,
shrinking and truncation, and cells that hold garbage until they are written.
`client` is chosen at the start: whether `ib_queue_reserve` is called, whether
memory may fail, and whether the queue has `IB_QUEUE_NEVER_SHRINK`.  `Deque!Spec`
is the promise of the header, a sequence; `Deque!SpecAsBuilt` is the same but for
the two functions in which the code departs from it (see "Divergences").  The
refinement maps the storage to the sequence of its elements, and shows
`SpecAsBuilt` for every client, and `Spec` for one that has memory and does not
reserve on a queue that never shrinks.

### Logger

A call of `ib_logger_log` walks the writers; for each it formats, queues under
the lock, busy-waits while the queue is full, and signals if its record
made the size 1.  The signalled record function drains under the lock.  A drain
may log again (the transaction log's `log_to_engine`), which is a nested call of
the same thread, or not drain at all (the server's transaction log when off;
`WaitsForOff` is a call that waits for such a writer).

### StateNotify

The notification functions are operators on a transaction's record, called in
any order by one of three servers.  They keep the flags, the early returns, the
states they trigger themselves, the context selection and the pumps, each of
which may fail.  `env` fixes the server, the transactions and what may fail.
`ib_tx_destroy` is called by the rule of its header, for the first transaction of
the connection (`engine.h:646`).

### ResourcePool and LuaRuntime

Structures go from ready to in use to free; `count`, limits and use counts are
the code's.  `create_fn`, the allocation of a structure, every push and every pop
may fail.  `LuaRuntime` runs the pool from `modlua_init`, which may fail, through
the directives (which set the limits and `LuaStackUseLimit`) and the flush at the
close of the main context to the end of the engine.

### MpoolFreeable

Pages with tracks, large segments on a circular list, the reference count
of each, registered cleanup functions, and destruction of a segment, page or
pool.  Sizes are scaled to units of 8 bytes, with sizes on both sides of every
limit.  `Gap` is the distance between the field the search range starts
at and the first allocation.

### StreamPump

The pump runs up to `MaxProcs` processors; between two of them the output queue
becomes the input.  Items are claims on segments with reference counts.  The
core processor buffers to a limit (a pump may be without it, when it could not be
added), inflate fills chunks (zlib is external), and an arbitrary processor does
anything the interface allows and returns.  What is put into the pump, its setup
and every processor may fail; `leaked` is the set of segments a claim on which
one of the failing paths forgot.

### TxBlocking

The flags of a transaction that blocking and allowing use, `ib_tx_block` with
its hooks, handler and server, `ib_tx_allow`, the actions, and the loops over
the rules of phases and streams.  Between events a hook of another module
(`modules/xrules_acls.cpp`) may block, allow or change the mode (`Hook`).  Hooks, handler and
server return any status their interface has.

### KvstoreFilesystem

Processes that share nothing but a directory.  A set removes the old values,
makes an empty file under the final name, writes a temporary file and renames
it.  A listing returns every file that was there all the time, and perhaps those
that came or went.  Every system call and allocation may fail, a write may fall
short, a process may crash between any two steps, and time passes.  `kvremove`,
which is also the first half of a set, ignores what fails in it; the model keeps
the values that are left then, and `ended` and `last` forget what such a call
would otherwise promise.  Values are numbered, so that a property can say which
set a get has read, and `due` is the end of the expiration the caller asked for.

### AhoCorasick

The construction of an automaton from words and patterns (sequences of sets of
bytes), its translation and its execution.  A node is named by the labels on the
way to it from the start node, so that splitting an edge, which copies the tree
below it, is a renaming (`SplitEdges`); this serves both the adding of patterns
and the failure transitions.  `goto` is the finished automaton, which either is
run as it is or goes through one of the two translations of `optimize`.  The
promise is stated against the patterns themselves, not against another
automaton.  The callback always says to continue.

## Runs

| Run | Instance | Shows |
|---|---|---|
| `engine_manager` | 3 engines, 2 names, 2 connections, 2 admins, 2 slots | engines in use are live; signals reach live engines; the inductive invariant (exact counts, slots, names); unreferenced engines are destroyed as long as a cleanup is to come; disables end |
| `queue_refines_deque` | 2 elements, default size 1, reserve to 0 or 3, at most 4 elements, all 8 clients | the ring buffer implements the sequence with its departures; storage follows the size; indices stay inside |
| `logger_safety` | 4 threads, error log and relogging transaction log, depth 3, failing memory | exactly one call is on its way to a non-empty queue; nothing is written twice; the inductive invariant |
| `logger_liveness` | 2 threads that log 3 times, writers of all three kinds, depth 1 | when the threads stop logging every call returns, but one that waits for a writer that is off; every accepted record is written |
| `state_notify` | three servers, 2 transactions, or 1 with every failure | states once and in order; `conn->tx` is live and is logged at close; body data follows its header states, with a context unless its selection failed; the inductive invariant |
| `state_notify_response_pump` | the same | *violated*: at `tx_finished` the response pump was never closed |
| `lua_resource_pool` | 4 structures, limits 0 to 3, use limits 1 and 2, one leak | the pool serves when unused; no stack from before the configuration; the inductive invariant; loops end |
| `mpool_freeable` | 3 allocations, 2 pages, 2 cleanups, 4 sizes | references cover memory; allocations are apart; cleanups are called once; unused memory is freed; structures whole |
| `stream_pump` | 3 segments, pieces of length 1 or 2, limit 2, 3 processors, 3 calls | references are exactly the claims but for the leaks; between calls only the buffered body is claimed; the buffer is the body's prefix; calls return |
| `tx_blocking` | 5 events, 3 rules, 2 actions | a block is told once and final; no phase runs rules after a block (streams do), and nothing does after an allow until post-processing; a phase block is not forgotten |
| `kvstore_filesystem` | 2 processes, 2 sets, expirations below, of and above a second, 4 calls, failures, crashes and ticks together | no part of a value is readable; a completed set whose remove met no failure hides what it replaced; a quiet get returns the last value, not after its expiration and for sure until two seconds before it |
| `aho_corasick` | 3 bytes, up to 2 words and patterns of up to 3 sets | after each byte the automaton reports exactly the patterns that end there, once, before and after each translation |

Why the bounds are enough to be interesting: with 3 engines for 2 slots
`has_engine_slots` has to reclaim while a disable holds an engine; a queue of
default size 1 grows, wraps and shrinks within 4 elements; with depth 3 and 4
threads several threads wait for one place, and with depth 1 and 3 calls of
each thread a waiting call can lose the place again and again; the limit of the
buffer (2) falls inside a second piece that a third follows; sizes 1, 3, 6 and 9 fall in each track and beyond
all of them, and pages of 4 units are smaller than the last track's sizes; four
events of the key-value store hold two sets and a get with a crash, a failure or
a tick, or a set, a get and a value's whole life.  With 2 ticks to a second an
expiration of 3 ticks is truncated to one second and one of 1 tick to none; a
tick passes one unit or a second, so that a set falls on both halves of one.
More events than four are left to the theorems, which bound nothing.  Two
patterns of three sets are enough for chains of two defaults, and for an edge
that is split by a pattern and again by a failure transition; deadlock is checked
in this run, since an automaton can always read on.

`CHECK_DEADLOCK FALSE` is set elsewhere because each of these systems may rightly stop:
nobody has to call it, and counters are bounded.

## Fairness

* `EngineManager`: an admin in the middle of a create or a disable goes on, and a
  session gets its SSN_CLOSE (SF of each, since they need the lock and others take
  it in between).  Nobody has to start an operation, and the last transaction of a
  deferred session need not end.  The code's mutex is held for bounded times except
  for the failed status query, which the properties except.
* `Logger`: each call keeps running (WF of `CallStep`).  That is all the scheduler
  gives; the waits of the code are busy-waits, which are not fair.  `LogReturns` is
  therefore about threads that stop logging: threads that log without end may take
  the free place from a waiting call each time.
* `LuaRuntime`: WF of the steps of initialisation and of the flush; one thread
  runs them.
* `StreamPump`: the thread that runs a call continues (WF of the pump and of the
  steps of the core and inflate processors); zlib does not fill chunks for ever, and
  any other processor returns, which is an assumption about processors that are not
  in the repository.

The other modules have no liveness property: their calls end in one step, or (key-value
store) run without waiting for anybody.

## What is proved

TLAPS checks every proof; the theorems assume the named `ASSUME` of their module
(constants are natural numbers, sets that are counted are finite, `NULL` is not an
element) and what their statement says.  The theorems hold for any number of engines, threads,
writers, transactions, structures, rules, processes and calls.  None of the
properties is inductive as it stands; the strengthenings are:

* `EngineManagerProofs`.  `IInv` adds to the types who holds the lock and where
  each admin is (`ControlInv`), that live engines are listed, an engine has one
  name at most and a captured or signalled one has none (`RegistryInv`), that every count equals the
  number of connections, names and running disables that refer to the engine
  (`RefCountExact`), and `SlotsBounded`.  The exact count is what carries the
  argument: an engine is destroyed at count 0, so nothing refers to it.  From it:
  no use after destruction, signals reach live engines, slots suffice, an engine
  that was told to shut down is not handed out again.
* `QueueProofs`.  The invariant is that the head is a cell of the storage, the size
  fits and the cells from the head on hold elements.  From it `Queue` implements
  `Deque` for every capacity and sequence of calls: each call maps to the step of the
  sequence with the same name, because an element keeps its offset from the head
  through growth, shrinking and wrap-around.  Also: storage is given back, and a client
  that never reserves never computes modulo zero.
* `LoggerProofs`.  `OneSignaller` (a non-empty queue has exactly one call on its
  way to drain it) needs `NestingInv` (a lock is held by a drain, a nested call
  belongs to a handler that waits for it) and that an allocation is greater than
  1: a queue that cannot grow holds at least two records, so a dropped record
  never leaves the size at 1 and never signals.  `WrittenOnce` adds where a record
  that is not yet written can be (`WInv`), for loggers in which at most one writer
  logs again (`OneRelogger`): with two, the error log gets a record from each.
* `StateNotifyProofs`.  For Traffic Server and httpd: flags form a ladder, each
  notified state has its flag, an open transaction is on the list exactly once.
  From it: states once and in order, `conn->tx` is live, sessions count and close,
  ended transactions are logged.  nginx is excluded from these; see "Divergences".
  A weaker ladder holds of all three servers, and gives that the current
  transaction is logged when its connection closes (`CloseLogsCurrent`) and that body
  data comes after its header states (`BodyHasContext`).
* `ResourcePoolProofs`.  Ownership of the structures (ready, in use or free, never
  two), `count` as the number of bound resources, `min` below `max`, nothing lost
  except by a failed push.  From it the pool can serve when unused, and never grows
  beyond its maximum.  For `LuaRuntime`: a flush leaves no structure of before, so
  transactions only run in stacks with the whole configuration (`NoOldStack`), and
  no stack is used more than one time beyond the use limit, although a directive may lower
  the limit below what a ready stack has been used (`RunsWithinLimit`).
* `TxBlockingProofs`.  `Good(tx)` relates the flags to what the server and the hooks
  have been told; `PhaseClean` and `StartsStream` say where the phase
  flags can be set.  From it: told once, final, no rule of a phase after a block
  (`BlockEndsPhases`), none at all after an allow until post-processing, and a phase block is applied,
  overruled or refused (`PhaseBlockTried`).
* `KvstoreFilesystemProofs`.  `KInv`: the files of a set, known by its number, are
  its own; a set that has not come to its file has none, and from there on its
  temporary file holds what it wrote.  So the rename is atomic (`TwoPhaseCommit`).
  `FInv` adds, for every set, that the files of sets that were over before it are
  in its listing and not yet seen, or gone; they cannot come back, because only
  sets that still run make files.  So a get after a complete set does not see what
  was replaced (`FreshRead`).  `RInv` adds what the directory holds while no set or
  remove runs, and how the name's seconds relate to the time the caller asked for
  (`ReadsLast`).  A step in which something fails without notice (`Misses`) gives up
  what its call would have promised, which is why the properties name the condition.

## What is only model-checked

* Liveness: `InactiveIsCollected`, `DisableReturns`, `LogReturns`,
  `RecordIsWritten`, `LoopsEnd`, `CallReturns`.  The prover has no fairness.
* Everything about `MpoolFreeable` and `StreamPump`, and `FindsExactly`: sums over
  sets of claims, and what the nodes of a tree contain for every input, which needs
  induction over data.

## Divergences

One disagreement of code and comment is a run of its own.
`state_notify_response_pump`: `ib_state_notify_response_finished` closes the
*request* body pump under the comment "Signal that all data should leave the
pipeline." (`engine/state_notify.c:1263`); the response pump is never closed.

The following was met while translating; the models do what the code does, and
the properties are stated so that they hold of it.

* Engine manager: releasing the last reference does not destroy the engine
  (`engine_manager.h:80`); a status query that cannot allocate returns with the
  lock held (`engine_manager.c:1095`); disabling a name without an engine leaves it
  enabled (`engine_manager.c:773`); an engine whose configuration does not parse is
  leaked (`engine_manager.c:633`).
* Queue: a `push_front` that cannot grow drops its element and returns `IB_OK`
  (`queue.c:319`); `ib_queue_reserve` truncates a queue that has
  `IB_QUEUE_NEVER_SHRINK` (`queue.c:442`), and a drain gives its storage back
  (`queue.c:493`); after `reserve(0)` a push computes modulo zero (`queue.c:68`),
  which is `trap`.
* Logger: the server's transaction log, when off, never drains
  (`ts_module.c:304`), so that a call that finds its queue full waits for ever; a
  waiting call may starve while others log.  The early return with the lock held (`logger.c:284`) cannot
  be reached, because the queue reports success.
* State notification: when the selection of a context fails, the body data that
  follows is passed on without a context (`engine_state.h:116`); body data after the end of a request is passed on
  (`state_notify.c:782`); nginx notifies in another order (`ngx_ironbee.c:564`);
  httpd never notifies `response_finished` (`mod_ironbee.c:419`).
* Resource pool: `min_count` is not kept (`resource_pool.c:74`); a flush while a
  resource is in use returns `IB_ENOENT` and does not refill
  (`resource_pool.h:189`); failures leak a resource (`resource_pool.h:108`).
* Freeable pool: the last small allocation of a page is not found by free
  (`mpool_freeable.c:532`); pages can be smaller than the sizes of their track
  (`mpool_freeable.c:435`); statuses and the level of cleanups differ from the
  header (`mpool_freeable.c:722`, `:881`).
* Stream pump: claims are forgotten by the core processor when `ib_stream_push`
  fails, by inflate when zlib or the slice fails, and by the pump without memory for
  the evaluation, although `stream_io.h` asks for an unref; `IB_DECLINED` ends the call (`stream_pump.c:146`); an error item is
  typed as a flush or is overwritten (`stream_io.c:242`); inflate forgets a failed allocation (`stream_inflate.c:104`).
* Blocking: an allowed transaction can be blocked (`engine.c:1523`), and a block
  that was not applied does not keep it from being allowed (`engine.c:1634`);
  pre-block hooks may run again (`engine.c:1530`); a hook that disables blocking has
  no effect (`engine.c:1513`); the server's answer is dropped (`engine.c:1585`);
  `allow:phase` stays after a failed injector (`rule_engine.c:3053`); phases after an
  allow still run their first rule in two cases (`rule_engine.c:2437`, `:2479`); a
  phase runs after a block whose post-block hook failed (`rule_engine.c:2347`);
  rules of streams run on after a block.
  The flag constants of `lua/ironbee/tx.lua:73` are one bit below those of
  `engine_types.h:139`.
* Key-value store: between `mkstemp` and `rename`, and after a set that failed or
  crashed there, the empty file is read as an empty value; temporary files of
  crashed processes are never collected; a get that overlaps a remove may fail with
  `IB_EOTHER`; a set fails when another process removes the directory before its
  `mkstemp`.  `kvremove` returns `IB_OK` whatever fails in it, although its comment
  has `IB_EOTHER` and `IB_EALLOC` (`kvstore_filesystem.c:1158`), so a set can return
  `IB_OK` and leave the old value readable.  An expiration is "in usec relative to
  now" (`kvstore.c:320`), but the name holds whole seconds of the clock and of the
  expiration: a value is gone up to two seconds early, and at once if its expiration
  is below a second.
* Automata: `optimize` passes `false` as `conservative` for its conservative
  option and `true` for the aggressive one (`automata/bin/optimize.cpp`), without
  effect on deterministic automata.

## Not modelled

* The control channel of the engine manager: a socket whose thread calls the
  operations modelled here.
* The evaluation of rules (targets, operators, transformations): a computation over
  values inside one thread, here a nondeterministic choice of actions.
* Configuration: runs once in one thread; what others see of it (an engine that fails
  to build, a failing context selection, directives of the Lua pool) is modelled
  where it is seen.
* Predicate: rewriting of expression graphs over unbounded values.
* The byte formats of compiled automata, the parser of pattern strings, the sharing
  of equal outputs, and the resumption after a callback that stopped an execution.
* Plain memory pools, containers and string functions: sequential, and reached by the
  unit tests.
* The HTTP parser, audit logs and modules that adapt external libraries; the C++
  bindings, clipp, command line tools and the Lua configuration.
* In the modelled parts: logging, wording and formatting; the types of stored values;
  failures of the allocations of `ib_manager_disable` and of the freeable pool, and
  those for which the code has no path.
