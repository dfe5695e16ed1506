------------------------------- MODULE Queue -------------------------------
(***************************************************************************)
(* The growable ring buffer of util/queue.c.                               *)
(*                                                                         *)
(* `queue' is the ib_queue_t: its storage (`cells', a function on          *)
(* 0..allocation-1), the index of its first element, its size and the      *)
(* number of cells allocated.  A cell nobody has written since the storage *)
(* was allocated holds GARBAGE.  The functions that resize the storage are *)
(* operators from a queue to a queue; `mem' says whether the allocation    *)
(* they need succeeds.  An index modulo an allocation of 0 traps.          *)
(*                                                                         *)
(* `client' is fixed at the start: how the queue is used, a set of         *)
(*   "reserves"      ib_queue_reserve is called;                           *)
(*   "scarce"        an allocation may fail;                               *)
(*   "never_shrink"  the queue has the flag IB_QUEUE_NEVER_SHRINK.         *)
(***************************************************************************)
EXTENDS Naturals, Sequences

CONSTANTS
    Element,            \* the pointers stored
    GARBAGE,            \* the contents of a cell that was never written
    DEFAULT_QUEUE_SIZE,
    ReserveSizes,       \* the sizes ib_queue_reserve is called with
    MaxSize             \* bound on the number of elements

ASSUME QueueAssumption ==
    /\ GARBAGE \notin Element
    /\ DEFAULT_QUEUE_SIZE \in Nat \ {0}
    /\ ReserveSizes \subseteq Nat
    /\ MaxSize \in Nat

VARIABLES
    client,  \* how the queue is used
    queue,   \* the ib_queue_t
    call,    \* the last call and its arguments
    rc,      \* the status it returned
    out,     \* the elements it handed to its caller
    trap     \* an index was computed modulo 0

vars == <<client, queue, call, rc, out, trap>>

Memory == IF "scarce" \in client THEN BOOLEAN ELSE {TRUE}

NeverShrink == "never_shrink" \in client

Blank(n) == [i \in 0..(n - 1) |-> GARBAGE]

Init ==
    /\ client \in SUBSET {"reserves", "scarce", "never_shrink"}
    /\ queue = [head |-> 0, size |-> 0, allocation |-> DEFAULT_QUEUE_SIZE,
                cells |-> Blank(DEFAULT_QUEUE_SIZE)]
    /\ call = <<"create">>
    /\ rc = "IB_OK"
    /\ out = <<>>
    /\ trap = FALSE
-----------------------------------------------------------------------------
ToIndex(q, offset) == (q.head + offset) % q.allocation

Cell(q, offset) == q.cells[ToIndex(q, offset)]

\* The elements, front first.
Items(q) == [i \in 1..q.size |-> Cell(q, i - 1)]

\* The unwrapped part, up to the end of the storage, and then the wrapped
\* part, from its beginning, are copied to the front of the new storage.
Repack(q, n) ==
    LET unwrapped == IF q.allocation - q.head < q.size
                     THEN q.allocation - q.head
                     ELSE q.size
    IN  [i \in 0..(n - 1) |->
            CASE i < unwrapped -> q.cells[q.head + i]
              [] i >= unwrapped /\ i < q.size -> q.cells[i - unwrapped]
              [] OTHER -> GARBAGE]

Resize(q, n, mem) ==
    IF mem
    THEN [q EXCEPT !.head = 0, !.allocation = n, !.cells = Repack(q, n)]
    ELSE q

\* Mutant: the test against the smallest size is inverted.
Shrink_Never(q, mem) ==
    LET n == q.allocation \div 2
    IN  IF NeverShrink \/ n >= DEFAULT_QUEUE_SIZE THEN q ELSE Resize(q, n, mem)

Shrink(q, mem) ==
    LET n == q.allocation \div 2
    IN  IF NeverShrink \/ n < DEFAULT_QUEUE_SIZE THEN q ELSE Resize(q, n, mem)

\* A pop shrinks the storage of a queue that is less than half full.
AfterPop(q, mem) == IF q.size * 2 < q.allocation THEN Shrink(q, mem) ELSE q

Return(name, q, status, handed) ==
    /\ ~trap
    /\ queue' = q
    /\ call' = name
    /\ rc' = status
    /\ out' = handed
    /\ UNCHANGED <<client, trap>>

Trap == ~trap /\ trap' = TRUE /\ UNCHANGED <<client, queue, call, rc, out>>
-----------------------------------------------------------------------------
Grown(q, mem) ==
    IF q.size = q.allocation THEN Resize(q, 2 * q.allocation, mem) ELSE q

Stored(q, offset, e) == [q EXCEPT !.cells[ToIndex(q, offset)] = e]

PushBack(e, mem) ==
    LET q == Grown(queue, mem)
    IN  /\ queue.size < MaxSize
        /\ IF queue.size = queue.allocation /\ ~mem
           THEN Return(<<"push_back", e>>, queue, "IB_EALLOC", <<>>)
           ELSE IF q.allocation = 0
           THEN Trap
           ELSE Return(<<"push_back", e>>,
                       [Stored(q, q.size, e) EXCEPT !.size = q.size + 1],
                       "IB_OK", <<>>)

\* When the storage cannot grow the element is dropped and the call
\* returns IB_OK all the same.
PushFront(e, mem) ==
    LET q    == Grown(queue, mem)
        back == IF q.head = 0 THEN q.allocation - 1 ELSE q.head - 1
    IN  /\ queue.size < MaxSize
        /\ IF queue.size = queue.allocation /\ ~mem
           THEN Return(<<"push_front", e>>, queue, "IB_OK", <<>>)
           ELSE IF q.allocation = 0
           THEN Trap
           ELSE Return(<<"push_front", e>>,
                       Stored([q EXCEPT !.head = back, !.size = q.size + 1], 0, e),
                       "IB_OK", <<>>)

\* A pop reports a failed shrink although its element is gone.
PopStatus(q, mem) ==
    IF /\ q.size * 2 < q.allocation
       /\ ~NeverShrink
       /\ q.allocation \div 2 >= DEFAULT_QUEUE_SIZE
       /\ ~mem
    THEN "IB_EALLOC" ELSE "IB_OK"

PopBack(mem) ==
    LET q == [queue EXCEPT !.size = queue.size - 1]
    IN  IF queue.size = 0
        THEN Return(<<"pop_back">>, queue, "IB_ENOENT", <<>>)
        ELSE Return(<<"pop_back">>, AfterPop(q, mem), PopStatus(q, mem),
                    <<Cell(q, q.size)>>)

PopFront(mem) ==
    LET next == IF queue.head = queue.allocation - 1 THEN 0 ELSE queue.head + 1
        q    == [queue EXCEPT !.size = queue.size - 1, !.head = next]
    IN  IF queue.size = 0
        THEN Return(<<"pop_front">>, queue, "IB_ENOENT", <<>>)
        ELSE Return(<<"pop_front">>, AfterPop(q, mem), PopStatus(q, mem),
                    <<Cell(queue, 0)>>)

Peek ==
    IF queue.size = 0
    THEN Return(<<"peek">>, queue, "IB_EINVAL", <<>>)
    ELSE Return(<<"peek">>, queue, "IB_OK", <<Cell(queue, 0)>>)

Get(i) ==
    IF queue.size <= i
    THEN Return(<<"get", i>>, queue, "IB_EINVAL", <<>>)
    ELSE Return(<<"get", i>>, queue, "IB_OK", <<Cell(queue, i)>>)

Set(i, e) ==
    IF queue.size <= i
    THEN Return(<<"set", i, e>>, queue, "IB_EINVAL", <<>>)
    ELSE Return(<<"set", i, e>>, Stored(queue, i, e), "IB_OK", <<>>)

\* ib_queue_reserve and the drain end with a resize.  repack takes an index
\* modulo the old allocation, even of an empty queue: with 0 cells it traps.
Resized(name, q, n, mem, handed) ==
    IF mem /\ q.allocation = 0
    THEN Trap
    ELSE Return(name, Resize(q, n, mem), IF mem THEN "IB_OK" ELSE "IB_EALLOC", handed)

\* Mutant: the queue is resized before it is truncated.
Reserve_NotTruncated(n, mem) ==
    "reserves" \in client /\ Resized(<<"reserve", n>>, queue, n, mem, <<>>)

\* The queue is truncated even when the storage cannot be resized, and
\* whatever its flags.
Reserve(n, mem) ==
    LET q == [queue EXCEPT !.size = IF n < queue.size THEN n ELSE queue.size]
    IN  "reserves" \in client /\ Resized(<<"reserve", n>>, q, n, mem, <<>>)

\* Mutant: the size is reset only when the storage could be resized.
DequeueAll_KeptOnFailure(mem) ==
    Resized(<<"dequeue_all">>, IF mem THEN [queue EXCEPT !.size = 0] ELSE queue,
            DEFAULT_QUEUE_SIZE, mem, Items(queue))

\* The elements, front first, go to the caller's function; the storage is
\* then brought back to its default size.
DequeueAll(mem) ==
    Resized(<<"dequeue_all">>, [queue EXCEPT !.size = 0], DEFAULT_QUEUE_SIZE, mem,
            Items(queue))

Next ==
    \/ \E e \in Element, mem \in Memory : PushBack(e, mem)
    \/ \E e \in Element, mem \in Memory : PushFront(e, mem)
    \/ \E mem \in Memory : PopBack(mem)
    \/ \E mem \in Memory : PopFront(mem)
    \/ Peek
    \/ \E i \in 0..MaxSize : Get(i)
    \/ \E i \in 0..MaxSize, e \in Element : Set(i, e)
    \/ \E n \in ReserveSizes, mem \in Memory : Reserve(n, mem)
    \/ \E mem \in Memory : DequeueAll(mem)

Spec == Init /\ [][Next]_vars
-----------------------------------------------------------------------------
(* Properties.                                                             *)

\* The fields of ib_queue_t have their types, and the elements fit their
\* storage whatever was pushed, popped, reserved and resized before: the
\* assertion in resize (new_size >= size) never fails, and no index leaves
\* the storage (which a client may have reserved down to nothing).
TypeOK ==
    /\ queue.head \in Nat /\ queue.size \in Nat /\ queue.allocation \in Nat
    /\ queue.size <= queue.allocation
    /\ queue.head < queue.allocation \/ queue.allocation = 0
    /\ queue.cells \in [0..(queue.allocation - 1) -> Element \cup {GARBAGE}]
    /\ rc \in {"IB_OK", "IB_EALLOC", "IB_ENOENT", "IB_EINVAL"}
    /\ out \in Seq(Element)
    /\ trap \in BOOLEAN
    /\ client \subseteq {"reserves", "scarce", "never_shrink"}

\* With memory, a queue its client only pushes and pops holds no more than twice the
\* storage its elements need, beyond the default ("prevent unbounded memory
\* use"): every pop below half gives the other half back.
StorageFollowsSize ==
    client = {} => \/ queue.allocation <= DEFAULT_QUEUE_SIZE
                   \/ queue.allocation <= 2 * queue.size

D == INSTANCE Deque WITH contents <- Items(queue), never_shrink <- NeverShrink

\* Call by call the ring buffer is the double-ended queue of queue.h, but for
\* a push at the front that lacks memory (dropped, and IB_OK returned) and a
\* reserve on a queue that never shrinks (which truncates it nevertheless).
ImplementsDeque == D!SpecAsBuilt

\* What queue.h says of every call, these two included.  The code does not.
FollowsHeader == D!Spec
=============================================================================
