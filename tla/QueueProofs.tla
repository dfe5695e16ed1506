---------------------------- MODULE QueueProofs ----------------------------
(***************************************************************************)
(* Proofs about the ring buffer of module Queue, for every default size,   *)
(* every sequence of calls and every failure of an allocation: the         *)
(* elements stay inside the storage, the storage follows the size, and the *)
(* ring buffer implements the double-ended queue of module Deque.          *)
(***************************************************************************)
EXTENDS Queue, SequenceTheorems, TLAPS

\* The contents of n cells, and the queues whose fields have their types.
CellType(n) == [0..(n - 1) -> Element \cup {GARBAGE}]
Storage     == UNION {CellType(n) : n \in Nat}
QueueType   == [head : Nat, size : Nat, allocation : Nat, cells : Storage]

(* A queue with room for its elements, each of which is in a cell that was *)
(* written: what a pop hands out is never garbage.                         *)
Good(q) ==
    /\ q \in QueueType
    /\ q.size <= q.allocation
    /\ q.head < q.allocation \/ q.allocation = 0
    /\ q.cells \in CellType(q.allocation)
    /\ \A i \in 0..(q.size - 1) : Cell(q, i) \in Element

Statuses == {"IB_OK", "IB_EALLOC", "IB_ENOENT", "IB_EINVAL"}

(* The inductive invariant behind TypeOK.                                  *)
QInv ==
    /\ Good(queue)
    /\ rc \in Statuses
    /\ out \in Seq(Element)
    /\ trap \in BOOLEAN
    /\ client \subseteq {"reserves", "scarce", "never_shrink"}
-----------------------------------------------------------------------------
\* An index is at most one turn around the storage.
LEMMA IndexOnce ==
    ASSUME NEW a \in Nat, NEW x \in Nat, x < a PROVE x % a = x
OBVIOUS

LEMMA IndexTurn ==
    ASSUME NEW a \in Nat, NEW x \in Nat, a <= x, x < 2 * a PROVE x % a = x - a
OBVIOUS

\* to_index stays inside the storage.
LEMMA IndexOf ==
    ASSUME NEW q \in QueueType, q.head < q.allocation,
           NEW i \in 0..(q.allocation - 1)
    PROVE  /\ ToIndex(q, i) = IF q.head + i < q.allocation THEN q.head + i
                              ELSE q.head + i - q.allocation
           /\ ToIndex(q, i) \in 0..(q.allocation - 1)
<1>1. q.head \in Nat /\ q.allocation \in Nat /\ i \in Nat /\ i < q.allocation
  BY DEF QueueType
<1>2. CASE q.head + i < q.allocation
  BY <1>1, <1>2, IndexOnce DEF ToIndex
<1>3. CASE q.head + i >= q.allocation
  <2>1. q.head + i \in Nat /\ q.allocation <= q.head + i /\ q.head + i < 2 * q.allocation
    BY <1>1, <1>3
  <2>2. (q.head + i) % q.allocation = q.head + i - q.allocation
    BY <1>1, <2>1, IndexTurn
  <2> QED BY <1>1, <1>3, <2>1, <2>2 DEF ToIndex
<1> QED BY <1>1, <1>2, <1>3

\* Two offsets have two cells.
LEMMA IndexApart ==
    ASSUME NEW q \in QueueType, q.head < q.allocation,
           NEW i \in 0..(q.allocation - 1), NEW j \in 0..(q.allocation - 1),
           ToIndex(q, i) = ToIndex(q, j)
    PROVE  i = j
<1>1. q.head \in Nat /\ q.allocation \in Nat
  BY Zenon DEF QueueType
<1> QED BY <1>1, IndexOf

\* The fields of a queue.
LEMMA Fields ==
    ASSUME NEW q, Good(q)
    PROVE  /\ q \in QueueType /\ q.head \in Nat /\ q.size \in Nat
           /\ q.allocation \in Nat /\ q.size <= q.allocation
           /\ q.head < q.allocation \/ q.allocation = 0
           /\ q.cells \in CellType(q.allocation)
BY Zenon DEF Good, QueueType

\* The items of a queue, as a sequence.
LEMMA ItemsOf ==
    ASSUME NEW q, Good(q)
    PROVE  /\ Items(q) \in Seq(Element) /\ Len(Items(q)) = q.size
           /\ \A i \in 0..(q.size - 1) : Items(q)[i + 1] = Cell(q, i)
<1>1. q.size \in Nat
  BY Fields, Zenon
<1>2. \A i \in 1..q.size : Cell(q, i - 1) \in Element
  BY <1>1 DEF Good
<1>3. Items(q) \in [1..q.size -> Element]
  BY <1>2, Zenon DEF Items
<1>4. Items(q) \in Seq(Element)
  BY <1>1, <1>3
<1>5. DOMAIN Items(q) = 1..q.size
  BY Zenon DEF Items
<1>6. Len(Items(q)) = q.size
  BY <1>1, <1>4, <1>5
<1>7. ASSUME NEW i \in 0..(q.size - 1) PROVE Items(q)[i + 1] = Cell(q, i)
  <2>1. i + 1 \in 1..q.size /\ (i + 1) - 1 = i
    BY <1>1
  <2>2. Items(q)[i + 1] = Cell(q, (i + 1) - 1)
    BY <2>1, Zenon DEF Items
  <2> QED BY <2>1, <2>2, Zenon
<1> QED BY <1>4, <1>6, <1>7, Zenon

LEMMA ItemsEqual ==
    ASSUME NEW q, Good(q), NEW s \in Seq(Element), Len(s) = q.size,
           \A i \in 0..(q.size - 1) : s[i + 1] = Cell(q, i)
    PROVE  Items(q) = s
<1>1. /\ Items(q) \in Seq(Element) /\ Len(Items(q)) = q.size
      /\ \A i \in 0..(q.size - 1) : Items(q)[i + 1] = Cell(q, i)
  BY ItemsOf, Zenon
<1>2. q.size \in Nat
  BY Fields, Zenon
<1>3. ASSUME NEW i \in 1..q.size PROVE Items(q)[i] = s[i]
  <2>1. i - 1 \in 0..(q.size - 1) /\ (i - 1) + 1 = i
    BY <1>2
  <2>2. Items(q)[(i - 1) + 1] = s[(i - 1) + 1]
    BY <1>1, <2>1, Zenon
  <2> QED BY <2>1, <2>2, Zenon
<1> QED BY <1>1, <1>3, SeqEqual, Zenon
-----------------------------------------------------------------------------
LEMMA Rebuilt ==
    ASSUME NEW q \in QueueType, NEW a \in Nat, NEW c \in Storage,
           NEW r, r = [q EXCEPT !.head = 0, !.allocation = a, !.cells = c]
    PROVE  r \in QueueType
BY Zenon DEF QueueType

MovedTo(q, h, z) == [q EXCEPT !.head = h, !.size = z]

LEMMA Moved ==
    ASSUME NEW q \in QueueType, NEW h \in Nat, NEW z \in Nat,
           NEW r, r = MovedTo(q, h, z)
    PROVE  /\ r \in QueueType /\ r.head = h /\ r.size = z
           /\ r.allocation = q.allocation /\ r.cells = q.cells
BY Zenon DEF QueueType, MovedTo

Packed(q, n) == [q EXCEPT !.head = 0, !.allocation = n, !.cells = Repack(q, n)]

(* resize: the elements keep their offsets, when there is room for them.   *)
LEMMA Repacked ==
    ASSUME NEW q, Good(q), NEW n \in Nat, q.size <= n,
           NEW r, r = Packed(q, n)
    PROVE  /\ Good(r) /\ r.size = q.size /\ r.allocation = n
           /\ \A i \in 0..(q.size - 1) : Cell(r, i) = Cell(q, i)
<1>1. /\ q \in QueueType /\ q.head \in Nat /\ q.size \in Nat
      /\ q.allocation \in Nat /\ q.size <= q.allocation
      /\ q.head < q.allocation \/ q.allocation = 0
      /\ q.cells \in CellType(q.allocation)
  BY Fields, Zenon
<1>3. /\ r.head = 0 /\ r.size = q.size /\ r.allocation = n
      /\ r.cells = Repack(q, n)
  BY <1>1, Zenon DEF QueueType, Packed
<1> DEFINE un == IF q.allocation - q.head < q.size
                 THEN q.allocation - q.head ELSE q.size
<1>4. ASSUME NEW i \in 0..(n - 1), i < q.size
      PROVE  /\ Repack(q, n)[i] = IF i < un THEN q.cells[q.head + i]
                                  ELSE q.cells[i - un]
             /\ Repack(q, n)[i] = Cell(q, i)
  <2>1. i \in 0..(q.allocation - 1) /\ q.head < q.allocation
    BY <1>1, <1>4
  <2>2. ToIndex(q, i) = IF q.head + i < q.allocation THEN q.head + i
                        ELSE q.head + i - q.allocation
    BY <1>1, <2>1, IndexOf, Zenon
  <2>3. Repack(q, n)[i] = IF i < un THEN q.cells[q.head + i] ELSE q.cells[i - un]
    BY <1>1, <1>4 DEF Repack
  <2>4. CASE i < un
    BY <1>1, <1>4, <2>1, <2>2, <2>3, <2>4 DEF Cell
  <2>5. CASE i >= un
    <3>1. un = q.allocation - q.head
      BY <1>1, <1>4, <2>5
    <3>2. q.head + i >= q.allocation /\ i - un = q.head + i - q.allocation
      BY <1>1, <2>5, <3>1
    <3> QED BY <2>2, <2>3, <2>5, <3>2, <1>1, <1>4 DEF Cell
  <2> QED BY <2>3, <2>4, <2>5, <1>1, <1>4
<1>5. \A i \in 0..(q.size - 1) : Cell(r, i) = Cell(q, i)
  <2> TAKE i \in 0..(q.size - 1)
  <2>1. i \in 0..(n - 1) /\ i < q.size /\ i \in Nat /\ i < n
    BY <1>1
  <2>2. ToIndex(r, i) = i
    BY <1>3, <2>1, IndexOnce DEF ToIndex
  <2> QED BY <1>3, <1>4, <2>1, <2>2, Zenon DEF Cell
<1>6. \A i \in 0..(q.size - 1) : Cell(r, i) \in Element
  BY <1>5, Zenon DEF Good
<1>7. Repack(q, n) \in CellType(n)
  <2>1. ASSUME NEW i \in 0..(n - 1) PROVE Repack(q, n)[i] \in Element \cup {GARBAGE}
    <3>1. CASE i < q.size
      BY <1>4, <3>1, <1>1 DEF Good
    <3>2. CASE ~(i < q.size)
      BY <1>1, <3>2 DEF Repack
    <3> QED BY <3>1, <3>2, Zenon
  <2>2. Repack(q, n) = [i \in 0..(n - 1) |-> Repack(q, n)[i]]
    BY DEF Repack
  <2> QED BY <2>1, <2>2, Zenon DEF CellType
<1>8. r \in QueueType
  <2>1. Repack(q, n) \in Storage
    BY <1>7, Zenon DEF Storage
  <2>2. r = [q EXCEPT !.head = 0, !.allocation = n, !.cells = Repack(q, n)]
    BY Zenon DEF Packed
  <2> QED BY <1>1, <2>1, <2>2, Rebuilt, Zenon
<1>9. Good(r)
  BY <1>1, <1>3, <1>6, <1>7, <1>8 DEF Good
<1> QED BY <1>3, <1>5, <1>9, Zenon

LEMMA ResizeKeeps ==
    ASSUME NEW q, Good(q), NEW n \in Nat, q.size <= n, NEW mem \in BOOLEAN,
           NEW r, r = Resize(q, n, mem)
    PROVE  /\ Good(r) /\ r.size = q.size
           /\ r.allocation = IF mem THEN n ELSE q.allocation
           /\ \A i \in 0..(q.size - 1) : Cell(r, i) = Cell(q, i)
<1>1. CASE ~mem
  BY <1>1, Zenon DEF Resize
<1>2. CASE mem
  <2>1. r = Packed(q, n)
    BY <1>2, Zenon DEF Resize, Packed
  <2>2. /\ Good(r) /\ r.size = q.size /\ r.allocation = n
        /\ \A i \in 0..(q.size - 1) : Cell(r, i) = Cell(q, i)
    BY <2>1, Repacked, Zenon
  <2> QED BY <1>2, <2>2, Zenon
<1> QED BY <1>1, <1>2, Zenon

\* The queue grows only when it is full, and shrinks only below half.
LEMMA GrownKeeps ==
    ASSUME NEW q, Good(q), NEW mem \in BOOLEAN, NEW r, r = Grown(q, mem)
    PROVE  /\ Good(r) /\ r.size = q.size
           /\ \A i \in 0..(q.size - 1) : Cell(r, i) = Cell(q, i)
           /\ (q.size < q.allocation \/ mem) /\ r.allocation # 0 => r.size < r.allocation
           /\ r.allocation = IF q.size = q.allocation /\ mem THEN 2 * q.allocation
                             ELSE q.allocation
<1>1. q.size \in Nat /\ q.allocation \in Nat /\ q.size <= q.allocation
  BY Fields, Zenon
<1>2. CASE q.size = q.allocation
  <2>1. 2 * q.allocation \in Nat /\ q.size <= 2 * q.allocation
    BY <1>1
  <2>2. r = Resize(q, 2 * q.allocation, mem)
    BY <1>2, Zenon DEF Grown
  <2>3. /\ Good(r) /\ r.size = q.size
        /\ r.allocation = IF mem THEN 2 * q.allocation ELSE q.allocation
        /\ \A i \in 0..(q.size - 1) : Cell(r, i) = Cell(q, i)
    BY <2>1, <2>2, ResizeKeeps
  <2> QED BY <1>1, <1>2, <2>3
<1>3. CASE q.size # q.allocation
  BY <1>1, <1>3 DEF Grown
<1> QED BY <1>2, <1>3, Zenon

LEMMA AfterPopKeeps ==
    ASSUME NEW q, Good(q), NEW mem \in BOOLEAN, NEW r, r = AfterPop(q, mem)
    PROVE  /\ Good(r) /\ r.size = q.size
           /\ \A i \in 0..(q.size - 1) : Cell(r, i) = Cell(q, i)
           /\ r.allocation = IF /\ q.size * 2 < q.allocation
                                /\ ~NeverShrink
                                /\ q.allocation \div 2 >= DEFAULT_QUEUE_SIZE
                                /\ mem
                             THEN q.allocation \div 2 ELSE q.allocation
<1> DEFINE n == q.allocation \div 2
           shrinks == q.size * 2 < q.allocation /\ ~NeverShrink /\ n >= DEFAULT_QUEUE_SIZE
<1>1. q.size \in Nat /\ q.allocation \in Nat /\ n \in Nat /\ DEFAULT_QUEUE_SIZE \in Nat
  BY Fields, QueueAssumption
<1>2. CASE ~shrinks
  <2>1. r = q
    BY <1>1, <1>2 DEF AfterPop, Shrink
  <2> QED BY <1>2, <2>1, Zenon
<1>3. CASE shrinks
  <2>1. q.size <= n
    BY <1>1, <1>3
  <2>2. r = Resize(q, n, mem)
    BY <1>1, <1>3 DEF AfterPop, Shrink
  <2> HIDE DEF n
  <2>3. /\ Good(r) /\ r.size = q.size
        /\ r.allocation = IF mem THEN n ELSE q.allocation
        /\ \A i \in 0..(q.size - 1) : Cell(r, i) = Cell(q, i)
    BY <1>1, <2>1, <2>2, ResizeKeeps
  <2> QED BY <1>3, <2>3, Zenon DEF n
<1> QED BY <1>2, <1>3, Zenon

\* An element is stored, and no other is touched.
LEMMA StoredAt ==
    ASSUME NEW q \in QueueType, q.head < q.allocation, q.cells \in CellType(q.allocation),
           NEW o \in 0..(q.allocation - 1), NEW e \in Element,
           NEW r, r = Stored(q, o, e)
    PROVE  /\ r \in QueueType /\ r.head = q.head /\ r.size = q.size
           /\ r.allocation = q.allocation /\ r.cells \in CellType(q.allocation)
           /\ \A i \in 0..(q.allocation - 1) :
                 Cell(r, i) = IF i = o THEN e ELSE Cell(q, i)
<1> DEFINE x == ToIndex(q, o)
           c == [q.cells EXCEPT ![x] = e]
<1>1. x \in 0..(q.allocation - 1)
  BY IndexOf, Zenon
<1>2. r = [q EXCEPT !.cells = c]
  BY Zenon DEF Stored, QueueType
<1>3. c \in CellType(q.allocation) /\ q.allocation \in Nat
  BY Zenon DEF CellType, QueueType
<1>4. c \in Storage
  BY <1>3, Zenon DEF Storage
<1>5. \A y \in 0..(q.allocation - 1) : c[y] = IF y = x THEN e ELSE q.cells[y]
  BY <1>1, Zenon DEF CellType
<1> HIDE DEF c, x
<1>6. /\ r \in QueueType /\ r.head = q.head /\ r.size = q.size
      /\ r.allocation = q.allocation /\ r.cells = c
  BY <1>2, <1>4, Zenon DEF QueueType
<1>7. \A i \in 0..(q.allocation - 1) : Cell(r, i) = IF i = o THEN e ELSE Cell(q, i)
  <2> TAKE i \in 0..(q.allocation - 1)
  <2>1. ToIndex(r, i) = ToIndex(q, i)
    BY <1>6, Zenon DEF ToIndex
  <2>2. ToIndex(q, i) \in 0..(q.allocation - 1)
    BY IndexOf, Zenon
  <2>3. ToIndex(q, i) = x <=> i = o
    BY IndexApart, Zenon DEF x
  <2> QED BY <1>5, <1>6, <2>1, <2>2, <2>3, Zenon DEF Cell
<1> QED BY <1>3, <1>6, <1>7, Zenon
-----------------------------------------------------------------------------
(* What each call does to the items.                                       *)
LEMMA SameItems ==
    ASSUME NEW q, NEW r, Good(q), Good(r), r.size = q.size,
           \A i \in 0..(q.size - 1) : Cell(r, i) = Cell(q, i)
    PROVE  Items(r) = Items(q)
<1>1. q.size \in Nat
  BY Fields, Zenon
<1>2. \A i \in 1..q.size : Cell(r, i - 1) = Cell(q, i - 1)
  BY <1>1
<1> QED BY <1>2, Zenon DEF Items

PushedBack(q, e) == [Stored(q, q.size, e) EXCEPT !.size = q.size + 1]
PushedFront(q, e) ==
    LET back == IF q.head = 0 THEN q.allocation - 1 ELSE q.head - 1
    IN  Stored([q EXCEPT !.head = back, !.size = q.size + 1], 0, e)
PoppedFront(q) ==
    LET next == IF q.head = q.allocation - 1 THEN 0 ELSE q.head + 1
    IN  [q EXCEPT !.size = q.size - 1, !.head = next]

LEMMA PushBackItems ==
    ASSUME NEW q, Good(q), q.size < q.allocation, NEW e \in Element,
           NEW r, r = PushedBack(q, e)
    PROVE  Good(r) /\ Items(r) = Append(Items(q), e) /\ r.allocation = q.allocation
           /\ r.size = q.size + 1
<1> DEFINE t == Stored(q, q.size, e)
<1>1. /\ q \in QueueType /\ q.head \in Nat /\ q.size \in Nat /\ q.allocation \in Nat
      /\ q.head < q.allocation /\ q.cells \in CellType(q.allocation)
  BY Fields
<1>2. q.size \in 0..(q.allocation - 1)
  BY <1>1
<1>3. /\ t \in QueueType /\ t.head = q.head /\ t.size = q.size
      /\ t.allocation = q.allocation /\ t.cells \in CellType(q.allocation)
      /\ \A i \in 0..(q.allocation - 1) :
            Cell(t, i) = IF i = q.size THEN e ELSE Cell(q, i)
  BY <1>1, <1>2, StoredAt
<1> HIDE DEF t
<1>4. /\ r \in QueueType /\ r.head = q.head /\ r.size = q.size + 1
      /\ r.allocation = q.allocation /\ r.cells = t.cells
  BY <1>1, <1>3 DEF QueueType, PushedBack, t
<1>5. \A i \in 0..(r.size - 1) : Cell(r, i) = IF i = q.size THEN e ELSE Cell(q, i)
  <2> TAKE i \in 0..(r.size - 1)
  <2>1. i \in 0..(q.allocation - 1)
    BY <1>1, <1>4
  <2>2. Cell(r, i) = Cell(t, i)
    BY <1>3, <1>4, Zenon DEF Cell, ToIndex
  <2> QED BY <1>3, <2>1, <2>2, Zenon
<1>6. Good(r)
  <2>1. \A i \in 0..(r.size - 1) : Cell(r, i) \in Element
    BY <1>1, <1>4, <1>5 DEF Good
  <2> QED BY <1>1, <1>3, <1>4, <2>1 DEF Good
<1>7. Items(r) = Append(Items(q), e)
  <2> DEFINE a == Append(Items(q), e)
  <2>1. /\ Items(q) \in Seq(Element) /\ Len(Items(q)) = q.size
        /\ \A i \in 0..(q.size - 1) : Items(q)[i + 1] = Cell(q, i)
    BY ItemsOf, Zenon
  <2>2. /\ a \in Seq(Element) /\ Len(a) = q.size + 1 /\ a[q.size + 1] = e
        /\ \A i \in 1..q.size : a[i] = Items(q)[i]
    BY <1>1, <2>1
  <2> HIDE DEF a
  <2>3. \A i \in 0..(r.size - 1) : a[i + 1] = Cell(r, i)
    <3> TAKE i \in 0..(r.size - 1)
    <3>1. i = q.size \/ (i \in 0..(q.size - 1) /\ i + 1 \in 1..q.size /\ i # q.size)
      BY <1>1, <1>4
    <3> QED BY <1>5, <2>1, <2>2, <3>1, Zenon
  <2> QED BY <1>4, <1>6, <2>2, <2>3, ItemsEqual, Zenon DEF a
<1> QED BY <1>4, <1>6, <1>7, Zenon

\* A push at the front: every element moves one offset up.
LEMMA PushFrontItems ==
    ASSUME NEW q, Good(q), q.size < q.allocation, NEW e \in Element,
           NEW r, r = PushedFront(q, e)
    PROVE  Good(r) /\ Items(r) = <<e>> \o Items(q) /\ r.allocation = q.allocation
           /\ r.size = q.size + 1
<1> DEFINE back == IF q.head = 0 THEN q.allocation - 1 ELSE q.head - 1
           h    == MovedTo(q, back, q.size + 1)
<1>1. /\ q \in QueueType /\ q.head \in Nat /\ q.size \in Nat /\ q.allocation \in Nat
      /\ q.head < q.allocation /\ q.cells \in CellType(q.allocation)
  BY Fields
<1>2. back \in Nat /\ back < q.allocation
  BY <1>1
<1>3. /\ h \in QueueType /\ h.head = back /\ h.size = q.size + 1
      /\ h.allocation = q.allocation /\ h.cells = q.cells
  <2> DEFINE z == q.size + 1
  <2>1. q \in QueueType /\ back \in Nat /\ z \in Nat /\ h = MovedTo(q, back, z)
    BY <1>1, <1>2
  <2> HIDE DEF back, z, h
  <2>2. /\ h \in QueueType /\ h.head = back /\ h.size = z
        /\ h.allocation = q.allocation /\ h.cells = q.cells
    BY <2>1, Moved
  <2> QED BY <2>2, Zenon DEF z
<1>4. r = Stored(h, 0, e)
  BY Zenon DEF PushedFront, MovedTo
<1> HIDE DEF h
<1>5. \A i \in 0..(q.size - 1) : Cell(h, i + 1) = Cell(q, i)
  <2> TAKE i \in 0..(q.size - 1)
  <2>1. i \in 0..(q.allocation - 1) /\ i + 1 \in 0..(q.allocation - 1)
    BY <1>1
  <2>2. ToIndex(q, i) = IF q.head + i < q.allocation THEN q.head + i
                        ELSE q.head + i - q.allocation
    BY <1>1, <2>1, IndexOf, Zenon
  <2>3. ToIndex(h, i + 1) = IF back + (i + 1) < q.allocation THEN back + (i + 1)
                            ELSE back + (i + 1) - q.allocation
    <3> HIDE DEF back
    <3> QED BY <1>1, <1>2, <1>3, <2>1, IndexOf, Zenon
  <2>4. ToIndex(h, i + 1) = ToIndex(q, i)
    BY <1>1, <2>1, <2>2, <2>3
  <2> QED BY <1>3, <2>4, Zenon DEF Cell
<1> HIDE DEF back
<1>6. 0 \in 0..(h.allocation - 1)
  BY <1>1, <1>3
<1>7. /\ r \in QueueType /\ r.head = back /\ r.size = q.size + 1
      /\ r.allocation = q.allocation /\ r.cells \in CellType(q.allocation)
      /\ \A i \in 0..(q.allocation - 1) : Cell(r, i) = IF i = 0 THEN e ELSE Cell(h, i)
  BY <1>1, <1>2, <1>3, <1>4, <1>6, StoredAt
<1>8. /\ Cell(r, 0) = e
      /\ \A i \in 0..(q.size - 1) : Cell(r, i + 1) = Cell(q, i)
  <2>1. \A i \in 0..(q.size - 1) : i + 1 \in 0..(q.allocation - 1) /\ i + 1 # 0
    BY <1>1
  <2>2. 0 \in 0..(q.allocation - 1)
    BY <1>1
  <2> QED BY <1>5, <1>7, <2>1, <2>2, Zenon
<1>9. \A i \in 0..(r.size - 1) : i = 0 \/ (i - 1 \in 0..(q.size - 1) /\ (i - 1) + 1 = i)
  BY <1>1, <1>7
<1>10. Good(r)
  <2>1. \A i \in 0..(r.size - 1) : Cell(r, i) \in Element
    <3> TAKE i \in 0..(r.size - 1)
    <3>1. CASE i = 0
      BY <1>8, <3>1, Zenon
    <3>2. CASE i - 1 \in 0..(q.size - 1) /\ (i - 1) + 1 = i
      <4>1. Cell(r, (i - 1) + 1) = Cell(q, i - 1)
        BY <1>8, <3>2, Zenon
      <4> QED BY <3>2, <4>1, Zenon DEF Good
    <3> QED BY <1>9, <3>1, <3>2, Zenon
  <2>2. r.size <= r.allocation /\ r.head < r.allocation
    BY <1>1, <1>2, <1>7
  <2> QED BY <1>7, <2>1, <2>2, Zenon DEF Good
<1>11. Items(r) = <<e>> \o Items(q)
  <2> DEFINE a == <<e>> \o Items(q)
  <2>1. /\ Items(q) \in Seq(Element) /\ Len(Items(q)) = q.size
        /\ \A i \in 0..(q.size - 1) : Items(q)[i + 1] = Cell(q, i)
    BY ItemsOf, Zenon
  <2>2. <<e>> \in Seq(Element) /\ Len(<<e>>) = 1 /\ <<e>>[1] = e
    OBVIOUS
  <2>3. /\ a \in Seq(Element) /\ Len(a) = q.size + 1 /\ a[1] = e
        /\ \A j \in 1..q.size : a[j + 1] = Items(q)[j]
    <3>1. a \in Seq(Element) /\ Len(a) = 1 + q.size
      BY <2>1, <2>2
    <3>2. \A j \in 1..(1 + q.size) : a[j] = IF j <= 1 THEN <<e>>[j] ELSE Items(q)[j - 1]
      BY <1>1, <2>1, <2>2
    <3>3. ASSUME NEW j \in 1..q.size PROVE a[j + 1] = Items(q)[j]
      <4>1. j + 1 \in 1..(1 + q.size) /\ ~(j + 1 <= 1) /\ (j + 1) - 1 = j
        BY <1>1
      <4> HIDE DEF a
      <4> QED BY <3>2, <4>1, Zenon
    <3>4. 1 \in 1..(1 + q.size)
      BY <1>1
    <3> HIDE DEF a
    <3> QED BY <1>1, <2>2, <3>1, <3>2, <3>3, <3>4
  <2> HIDE DEF a
  <2>4. \A i \in 0..(r.size - 1) : a[i + 1] = Cell(r, i)
    <3> TAKE i \in 0..(r.size - 1)
    <3>1. CASE i = 0
      BY <1>8, <2>3, <3>1
    <3>2. CASE i - 1 \in 0..(q.size - 1) /\ (i - 1) + 1 = i
      <4>1. i \in 1..q.size
        BY <1>1, <3>2
      <4>2. a[i + 1] = Items(q)[i]
        BY <2>3, <4>1, Zenon
      <4>3. Items(q)[(i - 1) + 1] = Cell(q, i - 1) /\ Cell(r, (i - 1) + 1) = Cell(q, i - 1)
        BY <1>8, <2>1, <3>2, Zenon
      <4> QED BY <3>2, <4>2, <4>3, Zenon
    <3> QED BY <1>9, <3>1, <3>2, Zenon
  <2> QED BY <1>7, <1>10, <2>3, <2>4, ItemsEqual, Zenon DEF a
<1> QED BY <1>7, <1>10, <1>11, Zenon

\* A pop at the front: every element moves one offset down.
LEMMA PopFrontItems ==
    ASSUME NEW q, Good(q), q.size # 0, NEW r, r = PoppedFront(q)
    PROVE  /\ Good(r) /\ r.size = q.size - 1 /\ r.allocation = q.allocation
           /\ Items(q) # <<>> /\ Items(r) = Tail(Items(q))
           /\ Cell(q, 0) = Head(Items(q)) /\ Cell(q, 0) \in Element
<1> DEFINE next == IF q.head = q.allocation - 1 THEN 0 ELSE q.head + 1
<1>1. /\ q \in QueueType /\ q.head \in Nat /\ q.size \in Nat /\ q.allocation \in Nat
      /\ q.head < q.allocation /\ q.cells \in CellType(q.allocation)
      /\ q.size <= q.allocation
  BY Fields
<1>2. next \in Nat /\ next < q.allocation /\ q.size - 1 \in Nat
  BY <1>1
<1>3. /\ r \in QueueType /\ r.head = next /\ r.size = q.size - 1
      /\ r.allocation = q.allocation /\ r.cells = q.cells
  <2> DEFINE z == q.size - 1
             h == MovedTo(q, next, z)
  <2>1. r = h
    BY <1>1, Zenon DEF PoppedFront, MovedTo, QueueType
  <2>2. q \in QueueType /\ next \in Nat /\ z \in Nat /\ h = MovedTo(q, next, z)
    BY <1>1, <1>2, Zenon
  <2> HIDE DEF next, z, h
  <2>3. /\ h \in QueueType /\ h.head = next /\ h.size = z
        /\ h.allocation = q.allocation /\ h.cells = q.cells
    BY <2>2, Zenon DEF QueueType, MovedTo
  <2> QED BY <2>1, <2>3, Zenon DEF z
<1>4. \A i \in 0..(r.size - 1) : Cell(r, i) = Cell(q, i + 1)
  <2> TAKE i \in 0..(r.size - 1)
  <2>1. i \in 0..(q.allocation - 1) /\ i + 1 \in 0..(q.allocation - 1)
    BY <1>1, <1>3
  <2>2. ToIndex(q, i + 1) = IF q.head + (i + 1) < q.allocation THEN q.head + (i + 1)
                            ELSE q.head + (i + 1) - q.allocation
    BY <1>1, <2>1, IndexOf, Zenon
  <2>3. ToIndex(r, i) = IF next + i < q.allocation THEN next + i
                        ELSE next + i - q.allocation
    <3> HIDE DEF next
    <3> QED BY <1>1, <1>2, <1>3, <2>1, IndexOf, Zenon
  <2>4. ToIndex(r, i) = ToIndex(q, i + 1)
    BY <1>1, <2>1, <2>2, <2>3
  <2> QED BY <1>3, <2>4, Zenon DEF Cell
<1> HIDE DEF next
<1>5. \A i \in 0..(r.size - 1) : i + 1 \in 0..(q.size - 1)
  BY <1>1, <1>3
<1>6. Good(r)
  <2>1. \A i \in 0..(r.size - 1) : Cell(r, i) \in Element
    BY <1>4, <1>5, Zenon DEF Good
  <2>2. r.size <= r.allocation /\ r.head < r.allocation
    BY <1>1, <1>2, <1>3
  <2> QED BY <1>1, <1>3, <2>1, <2>2, Zenon DEF Good
<1>7. /\ Items(q) \in Seq(Element) /\ Len(Items(q)) = q.size
      /\ \A i \in 0..(q.size - 1) : Items(q)[i + 1] = Cell(q, i)
  BY ItemsOf, Zenon
<1>8. Items(q) # <<>>
  BY <1>7, Zenon
<1>9. Cell(q, 0) = Head(Items(q)) /\ Cell(q, 0) \in Element
  <2>1. 0 \in 0..(q.size - 1) /\ 0 + 1 = 1
    BY <1>1
  <2>2. Items(q)[0 + 1] = Cell(q, 0) /\ Cell(q, 0) \in Element
    BY <1>7, <2>1, Zenon DEF Good
  <2>3. Head(Items(q)) = Items(q)[1]
    BY <1>7, <1>8
  <2> QED BY <2>1, <2>2, <2>3, Zenon
<1>10. Items(r) = Tail(Items(q))
  <2> DEFINE a == Tail(Items(q))
  <2>1. /\ a \in Seq(Element) /\ Len(a) = q.size - 1
        /\ \A i \in 1..(q.size - 1) : a[i] = Items(q)[i + 1]
    BY <1>1, <1>7, <1>8
  <2> HIDE DEF a
  <2>2. \A i \in 0..(r.size - 1) : a[i + 1] = Cell(r, i)
    <3> TAKE i \in 0..(r.size - 1)
    <3>1. i + 1 \in 1..(q.size - 1) /\ i + 1 \in 0..(q.size - 1)
      BY <1>1, <1>3
    <3>2. a[i + 1] = Items(q)[(i + 1) + 1] /\ Items(q)[(i + 1) + 1] = Cell(q, i + 1)
      BY <1>7, <2>1, <3>1, Zenon
    <3> QED BY <1>4, <3>2, Zenon
  <2> QED BY <1>3, <1>6, <2>1, <2>2, ItemsEqual, Zenon DEF a
<1> QED BY <1>3, <1>6, <1>8, <1>9, <1>10, Zenon

Cut(q, n) == [q EXCEPT !.size = n]

\* The queue is cut at the back: a pop, a reserve, a dequeue of everything.
LEMMA CutItems ==
    ASSUME NEW q, Good(q), NEW n \in Nat, n <= q.size,
           NEW r, r = Cut(q, n)
    PROVE  /\ Good(r) /\ r.size = n /\ r.allocation = q.allocation
           /\ Items(r) = SubSeq(Items(q), 1, n)
           /\ \A i \in Nat : Cell(r, i) = Cell(q, i)
<1>1. /\ q \in QueueType /\ q.head \in Nat /\ q.size \in Nat /\ q.allocation \in Nat
      /\ q.head < q.allocation \/ q.allocation = 0
      /\ q.cells \in CellType(q.allocation) /\ q.size <= q.allocation
  BY Fields, Zenon
<1>2. /\ r \in QueueType /\ r.head = q.head /\ r.size = n
      /\ r.allocation = q.allocation /\ r.cells = q.cells
  BY <1>1, Zenon DEF QueueType, Cut
<1>3. \A i \in Nat : Cell(r, i) = Cell(q, i)
  BY <1>2, Zenon DEF Cell, ToIndex
<1>4. \A i \in 0..(n - 1) : i \in Nat /\ i \in 0..(q.size - 1)
  BY <1>1
<1>5. Good(r)
  <2>1. \A i \in 0..(r.size - 1) : Cell(r, i) \in Element
    BY <1>2, <1>3, <1>4, Zenon DEF Good
  <2>2. r.size <= r.allocation
    BY <1>1, <1>2
  <2> QED BY <1>1, <1>2, <2>1, <2>2, Zenon DEF Good
<1>6. /\ Items(q) \in Seq(Element) /\ Len(Items(q)) = q.size
      /\ \A i \in 0..(q.size - 1) : Items(q)[i + 1] = Cell(q, i)
  BY ItemsOf, Zenon
<1>7. Items(r) = SubSeq(Items(q), 1, n)
  <2> DEFINE a == SubSeq(Items(q), 1, n)
  <2>1. /\ a \in Seq(Element) /\ Len(a) = n
        /\ \A i \in 1..n : a[i] = Items(q)[i]
    BY <1>1, <1>6
  <2> HIDE DEF a
  <2>2. \A i \in 0..(r.size - 1) : a[i + 1] = Cell(r, i)
    <3> TAKE i \in 0..(r.size - 1)
    <3>1. i + 1 \in 1..n /\ i \in 0..(q.size - 1) /\ i \in Nat
      BY <1>1, <1>2
    <3> QED BY <1>3, <1>6, <2>1, <3>1, Zenon
  <2> QED BY <1>2, <1>5, <2>1, <2>2, ItemsEqual, Zenon DEF a
<1> QED BY <1>2, <1>3, <1>5, <1>7, Zenon

LEMMA SetItems ==
    ASSUME NEW q, Good(q), NEW i \in Nat, i < q.size, NEW e \in Element,
           NEW r, r = Stored(q, i, e)
    PROVE  /\ Good(r) /\ r.size = q.size /\ r.allocation = q.allocation
           /\ Items(r) = [Items(q) EXCEPT ![i + 1] = e]
<1>1. /\ q \in QueueType /\ q.head \in Nat /\ q.size \in Nat /\ q.allocation \in Nat
      /\ q.head < q.allocation /\ q.cells \in CellType(q.allocation)
      /\ q.size <= q.allocation /\ i \in 0..(q.allocation - 1)
  BY Fields
<1>2. /\ r \in QueueType /\ r.head = q.head /\ r.size = q.size
      /\ r.allocation = q.allocation /\ r.cells \in CellType(q.allocation)
      /\ \A j \in 0..(q.allocation - 1) : Cell(r, j) = IF j = i THEN e ELSE Cell(q, j)
  BY <1>1, StoredAt
<1>3. \A j \in 0..(q.size - 1) : j \in 0..(q.allocation - 1)
  BY <1>1
<1>4. Good(r)
  <2>1. \A j \in 0..(r.size - 1) : Cell(r, j) \in Element
    BY <1>2, <1>3, Zenon DEF Good
  <2> QED BY <1>1, <1>2, <2>1, Zenon DEF Good
<1>5. /\ Items(q) \in Seq(Element) /\ Len(Items(q)) = q.size
      /\ \A j \in 0..(q.size - 1) : Items(q)[j + 1] = Cell(q, j)
  BY ItemsOf, Zenon
<1>6. Items(r) = [Items(q) EXCEPT ![i + 1] = e]
  <2> DEFINE a == [Items(q) EXCEPT ![i + 1] = e]
  <2>1. /\ a \in Seq(Element) /\ Len(a) = q.size
        /\ \A j \in 1..q.size : a[j] = IF j = i + 1 THEN e ELSE Items(q)[j]
    BY <1>1, <1>5
  <2> HIDE DEF a
  <2>2. \A j \in 0..(r.size - 1) : a[j + 1] = Cell(r, j)
    <3> TAKE j \in 0..(r.size - 1)
    <3>1. j + 1 \in 1..q.size /\ j \in 0..(q.size - 1) /\ (j + 1 = i + 1 <=> j = i)
      BY <1>1, <1>2
    <3> QED BY <1>2, <1>3, <1>5, <2>1, <3>1, Zenon
  <2> QED BY <1>2, <1>4, <2>1, <2>2, ItemsEqual, Zenon DEF a
<1> QED BY <1>2, <1>4, <1>6, Zenon
-----------------------------------------------------------------------------
(* The calls.                                                              *)

(* The clients that meet neither departure from queue.h.                   *)
Plain == "scarce" \notin client /\ ~({"reserves", "never_shrink"} \subseteq client)

CommonStep == D!Common /\ NeverShrink' = NeverShrink

\* The client sees the elements through Items only.
LEMMA ItemsPrimed == Items(queue)' = Items(queue')
BY Zenon DEF Items, Cell, ToIndex

LEMMA QueueInit == Init => QInv /\ D!Init
<1> SUFFICES ASSUME Init PROVE QInv /\ D!Init
  BY Zenon
<1> DEFINE c == Blank(DEFAULT_QUEUE_SIZE)
<1>1. c \in CellType(DEFAULT_QUEUE_SIZE) /\ DEFAULT_QUEUE_SIZE \in Nat \ {0}
  BY QueueAssumption, Zenon DEF Blank, CellType
<1>2. c \in Storage
  BY <1>1, Zenon DEF Storage
<1>3. queue = [head |-> 0, size |-> 0, allocation |-> DEFAULT_QUEUE_SIZE, cells |-> c]
  BY Zenon DEF Init
<1> HIDE DEF c
<1>4. /\ queue \in QueueType /\ queue.head = 0 /\ queue.size = 0
      /\ queue.allocation = DEFAULT_QUEUE_SIZE /\ queue.cells = c
  BY <1>1, <1>2, <1>3, Zenon DEF QueueType
<1>5. Good(queue)
  BY <1>1, <1>4 DEF Good
<1>6. QInv
  <2>1. out \in Seq(Element)
    BY DEF Init
  <2> QED BY <1>5, <2>1, Zenon DEF Init, QInv, Statuses
<1>7. D!Init
  <2>1. Items(queue) \in Seq(Element) /\ Len(Items(queue)) = 0
    BY <1>4, <1>5, ItemsOf, Zenon
  <2>2. Items(queue) = <<>>
    BY <2>1
  <2>3. NeverShrink \in BOOLEAN
    BY SMT DEF NeverShrink
  <2> QED BY <2>2, <2>3, Zenon DEF Init, D!Init
<1> QED BY <1>6, <1>7, Zenon

LEMMA ReturnKeeps ==
    ASSUME QInv, NEW name, NEW q, Good(q), NEW status \in Statuses,
           NEW handed \in Seq(Element), Return(name, q, status, handed)
    PROVE  QInv' /\ NeverShrink' = NeverShrink
<1>1. /\ queue' = q /\ rc' = status /\ out' = handed
      /\ client' = client /\ trap' = trap
  BY Zenon DEF Return
<1>2. Good(queue)'
  <2>1. Good(queue')
    BY <1>1, Zenon
  <2> QED BY <2>1, Zenon DEF Good, Cell, ToIndex
<1> QED BY <1>1, <1>2, Zenon DEF QInv, NeverShrink

LEMMA TrapStep ==
    ASSUME QInv, Trap
    PROVE  QInv' /\ UNCHANGED D!vars
<1>1. /\ queue' = queue /\ rc' = rc /\ out' = out /\ call' = call
      /\ client' = client /\ trap' = TRUE
  BY Zenon DEF Trap
<1>2. Good(queue)'
  <2>1. Good(queue')
    BY <1>1, Zenon DEF QInv
  <2> QED BY <2>1, Zenon DEF Good, Cell, ToIndex
<1>3. QInv' /\ NeverShrink' = NeverShrink
  BY <1>1, <1>2, Zenon DEF QInv, NeverShrink
<1>4. Items(queue)' = Items(queue)
  BY <1>1, ItemsPrimed, Zenon
<1> QED BY <1>1, <1>3, <1>4, Zenon DEF D!vars

\* A push that has its memory, or does not need it, finds a free cell.
LEMMA GrowsIfFull ==
    ASSUME NEW p, Good(p), NEW mem \in BOOLEAN, ~(p.size = p.allocation /\ ~mem),
           NEW q, q = Grown(p, mem), q.allocation # 0
    PROVE  Good(q) /\ q.size < q.allocation /\ Items(q) = Items(p)
<1>1. p.size \in Nat /\ p.allocation \in Nat /\ p.size <= p.allocation
  BY Fields, Zenon
<1>2. p.size < p.allocation \/ mem
  BY <1>1
<1>3. /\ Good(q) /\ q.size = p.size /\ q.size < q.allocation
      /\ \A i \in 0..(p.size - 1) : Cell(q, i) = Cell(p, i)
  BY <1>2, GrownKeeps
<1> QED BY <1>3, SameItems, Zenon

LEMMA PushBackStep ==
    ASSUME QInv, NEW e \in Element, NEW mem \in BOOLEAN, PushBack(e, mem)
    PROVE  QInv' /\ [CommonStep]_(D!vars)
<1> DEFINE q == Grown(queue, mem)
<1>1. Good(queue) /\ <<>> \in Seq(Element)
  BY DEF QInv
<1>2. CASE queue.size = queue.allocation /\ ~mem
  <2>1. Return(<<"push_back", e>>, queue, "IB_EALLOC", <<>>)
    BY <1>2, Zenon DEF PushBack
  <2>2. QInv' /\ NeverShrink' = NeverShrink
    BY <1>1, <2>1, ReturnKeeps, Zenon DEF Statuses
  <2>3. /\ Items(queue)' = Items(queue) /\ call' = <<"push_back", e>> /\ rc' = "IB_EALLOC"
        /\ out' = <<>>
    BY <2>1, ItemsPrimed, Zenon DEF Return
  <2>4. D!PushBack
    BY <2>3, Zenon DEF D!PushBack, D!Push
  <2> QED BY <2>2, <2>4, Zenon DEF CommonStep, D!Common
<1>3. CASE ~(queue.size = queue.allocation /\ ~mem) /\ q.allocation = 0
  <2>1. Trap
    BY <1>3, Zenon DEF PushBack
  <2> QED BY <2>1, TrapStep, Zenon
<1>4. CASE ~(queue.size = queue.allocation /\ ~mem) /\ q.allocation # 0
  <2>1. Return(<<"push_back", e>>, PushedBack(q, e), "IB_OK", <<>>)
    BY <1>4, Zenon DEF PushBack, PushedBack
  <2>2. Good(q) /\ q.size < q.allocation /\ Items(q) = Items(queue)
    BY <1>1, <1>4, GrowsIfFull, Zenon
  <2> HIDE DEF q
  <2>3. Good(PushedBack(q, e)) /\ Items(PushedBack(q, e)) = Append(Items(queue), e)
    BY <2>2, PushBackItems, Zenon
  <2>4. QInv' /\ NeverShrink' = NeverShrink
    BY <1>1, <2>1, <2>3, ReturnKeeps, Zenon DEF Statuses
  <2>5. /\ Items(queue)' = Append(Items(queue), e) /\ call' = <<"push_back", e>> /\ rc' = "IB_OK"
        /\ out' = <<>>
    BY <2>1, <2>3, ItemsPrimed, Zenon DEF Return
  <2>6. D!PushBack
    BY <2>5, Zenon DEF D!PushBack, D!Push
  <2> QED BY <2>4, <2>6, Zenon DEF CommonStep, D!Common
<1> QED BY <1>2, <1>3, <1>4, Zenon

\* A full queue whose storage cannot grow drops the element and reports
\* success, which queue.h does not allow.
LEMMA PushFrontStep ==
    ASSUME QInv, NEW e \in Element, NEW mem \in BOOLEAN, PushFront(e, mem)
    PROVE  /\ QInv' /\ [D!NextAsBuilt]_(D!vars)
           /\ mem => [D!Next]_(D!vars)
<1> DEFINE q == Grown(queue, mem)
<1>1. Good(queue) /\ <<>> \in Seq(Element)
  BY DEF QInv
<1>2. CASE queue.size = queue.allocation /\ ~mem
  <2>1. Return(<<"push_front", e>>, queue, "IB_OK", <<>>)
    BY <1>2, Zenon DEF PushFront
  <2>2. QInv' /\ NeverShrink' = NeverShrink
    BY <1>1, <2>1, ReturnKeeps, Zenon DEF Statuses
  <2>3. /\ Items(queue)' = Items(queue) /\ call' = <<"push_front", e>> /\ rc' = "IB_OK"
        /\ out' = <<>>
    BY <2>1, ItemsPrimed, Zenon DEF Return
  <2>4. D!PushFrontAsBuilt
    BY <2>3, Zenon DEF D!PushFrontAsBuilt
  <2> QED BY <1>2, <2>2, <2>4, Zenon DEF D!NextAsBuilt
<1>3. CASE ~(queue.size = queue.allocation /\ ~mem) /\ q.allocation = 0
  <2>1. Trap
    BY <1>3, Zenon DEF PushFront
  <2>2. QInv' /\ UNCHANGED D!vars
    BY <2>1, TrapStep, Zenon
  <2> QED BY <2>2, Zenon
<1>4. CASE ~(queue.size = queue.allocation /\ ~mem) /\ q.allocation # 0
  <2>1. Return(<<"push_front", e>>, PushedFront(q, e), "IB_OK", <<>>)
    BY <1>4, Zenon DEF PushFront, PushedFront
  <2>2. Good(q) /\ q.size < q.allocation /\ Items(q) = Items(queue)
    BY <1>1, <1>4, GrowsIfFull, Zenon
  <2> HIDE DEF q
  <2>3. Good(PushedFront(q, e)) /\ Items(PushedFront(q, e)) = <<e>> \o Items(queue)
    BY <2>2, PushFrontItems, Zenon
  <2>4. QInv' /\ NeverShrink' = NeverShrink
    BY <1>1, <2>1, <2>3, ReturnKeeps, Zenon DEF Statuses
  <2>5. /\ Items(queue)' = <<e>> \o Items(queue) /\ call' = <<"push_front", e>> /\ rc' = "IB_OK"
        /\ out' = <<>>
    BY <2>1, <2>3, ItemsPrimed, Zenon DEF Return
  <2>6. D!PushFront
    BY <2>5, Zenon DEF D!PushFront, D!Push
  <2>7. D!PushFrontAsBuilt
    BY <2>5, Zenon DEF D!PushFrontAsBuilt
  <2> QED BY <2>4, <2>6, <2>7, Zenon DEF D!Next, D!NextAsBuilt
<1> QED BY <1>2, <1>3, <1>4, Zenon

LEMMA EmptyItems ==
    ASSUME NEW q, Good(q) PROVE q.size = 0 <=> Items(q) = <<>>
BY ItemsOf

LEMMA AfterPopItems ==
    ASSUME NEW q, Good(q), NEW mem \in BOOLEAN
    PROVE  /\ Good(AfterPop(q, mem)) /\ Items(AfterPop(q, mem)) = Items(q)
           /\ PopStatus(q, mem) \in {"IB_OK", "IB_EALLOC"}
<1>1. /\ Good(AfterPop(q, mem)) /\ AfterPop(q, mem).size = q.size
      /\ \A i \in 0..(q.size - 1) : Cell(AfterPop(q, mem), i) = Cell(q, i)
  BY AfterPopKeeps, Zenon
<1> QED BY <1>1, SameItems, Zenon DEF PopStatus

LEMMA PopBackStep ==
    ASSUME QInv, NEW mem \in BOOLEAN, PopBack(mem)
    PROVE  QInv' /\ [CommonStep]_(D!vars)
<1>1. Good(queue) /\ <<>> \in Seq(Element)
  BY DEF QInv
<1>2. CASE queue.size = 0
  <2>1. Return(<<"pop_back">>, queue, "IB_ENOENT", <<>>)
    BY <1>2, Zenon DEF PopBack
  <2>2. QInv' /\ NeverShrink' = NeverShrink
    BY <1>1, <2>1, ReturnKeeps, Zenon DEF Statuses
  <2>3. D!Refused
    BY <1>1, <1>2, <2>1, ItemsPrimed, EmptyItems, Zenon DEF Return, D!Refused
  <2> QED BY <2>2, <2>3, Zenon DEF CommonStep, D!Common
<1>3. CASE queue.size # 0
  <2> DEFINE n == queue.size - 1
             q == Cut(queue, n)
             s == Items(queue)
  <2>1. queue.size \in Nat /\ n \in Nat /\ n <= queue.size /\ n \in 0..(queue.size - 1)
    BY <1>1, <1>3, Fields
  <2>2. /\ Good(q) /\ q.size = n /\ Items(q) = SubSeq(s, 1, n) /\ Cell(q, n) = Cell(queue, n)
    <3> HIDE DEF n
    <3> QED BY <1>1, <2>1, CutItems
  <2>3. /\ s \in Seq(Element) /\ Len(s) = queue.size /\ s[n + 1] = Cell(queue, n)
        /\ n + 1 = queue.size
    BY <1>1, <2>1, ItemsOf
  <2>4. /\ s # <<>> /\ Items(q) = SubSeq(s, 1, Len(s) - 1)
        /\ Cell(q, n) = s[Len(s)] /\ Cell(q, n) \in Element
    <3> HIDE DEF q, s
    <3>1. n = Len(s) - 1 /\ n + 1 = Len(s)
      BY <2>1, <2>3, Zenon
    <3> HIDE DEF n
    <3>2. s # <<>>
      BY <1>3, <2>3, Zenon
    <3>3. s[Len(s)] \in Element
      BY <2>3, <3>2
    <3>4. s[Len(s)] = Cell(queue, n)
      BY <2>3, <3>1, Zenon
    <3> QED BY <2>2, <3>1, <3>2, <3>3, <3>4, Zenon
  <2>5. Return(<<"pop_back">>, AfterPop(q, mem), PopStatus(q, mem), <<Cell(q, n)>>)
    BY <1>3, <2>2, Zenon DEF PopBack, Cut
  <2> HIDE DEF q, n
  <2>6. /\ Good(AfterPop(q, mem)) /\ Items(AfterPop(q, mem)) = Items(q)
        /\ PopStatus(q, mem) \in {"IB_OK", "IB_EALLOC"}
    BY <2>2, AfterPopItems, Zenon
  <2>7. QInv' /\ NeverShrink' = NeverShrink
    <3>1. <<Cell(q, n)>> \in Seq(Element) /\ PopStatus(q, mem) \in Statuses
      BY <2>4, <2>6 DEF Statuses
    <3> QED BY <2>5, <2>6, <3>1, ReturnKeeps, Zenon
  <2>8. D!PopBack
    <3>1. /\ Items(queue)' = SubSeq(s, 1, Len(s) - 1) /\ call' = <<"pop_back">>
          /\ out' = <<s[Len(s)]>> /\ rc' \in {"IB_OK", "IB_EALLOC"}
      BY <2>4, <2>5, <2>6, ItemsPrimed, Zenon DEF Return
    <3> QED BY <2>4, <3>1, Zenon DEF D!PopBack, D!Pop
  <2> QED BY <2>7, <2>8, Zenon DEF CommonStep, D!Common
<1> QED BY <1>2, <1>3, Zenon

LEMMA PopFrontStep ==
    ASSUME QInv, NEW mem \in BOOLEAN, PopFront(mem)
    PROVE  QInv' /\ [CommonStep]_(D!vars)
<1>1. Good(queue) /\ <<>> \in Seq(Element)
  BY DEF QInv
<1>2. CASE queue.size = 0
  <2>1. Return(<<"pop_front">>, queue, "IB_ENOENT", <<>>)
    BY <1>2, Zenon DEF PopFront
  <2>2. QInv' /\ NeverShrink' = NeverShrink
    BY <1>1, <2>1, ReturnKeeps, Zenon DEF Statuses
  <2>3. D!Refused
    BY <1>1, <1>2, <2>1, ItemsPrimed, EmptyItems, Zenon DEF Return, D!Refused
  <2> QED BY <2>2, <2>3, Zenon DEF CommonStep, D!Common
<1>3. CASE queue.size # 0
  <2> DEFINE q == PoppedFront(queue)
             s == Items(queue)
  <2>1. /\ Good(q) /\ s # <<>> /\ Items(q) = Tail(s)
        /\ Cell(queue, 0) = Head(s) /\ Cell(queue, 0) \in Element
    BY <1>1, <1>3, PopFrontItems, Zenon
  <2>2. Return(<<"pop_front">>, AfterPop(q, mem), PopStatus(q, mem), <<Cell(queue, 0)>>)
    BY <1>3, Zenon DEF PopFront, PoppedFront
  <2> HIDE DEF q
  <2>3. /\ Good(AfterPop(q, mem)) /\ Items(AfterPop(q, mem)) = Items(q)
        /\ PopStatus(q, mem) \in {"IB_OK", "IB_EALLOC"}
    BY <2>1, AfterPopItems, Zenon
  <2>4. QInv' /\ NeverShrink' = NeverShrink
    <3>1. <<Cell(queue, 0)>> \in Seq(Element) /\ PopStatus(q, mem) \in Statuses
      BY <2>1, <2>3 DEF Statuses
    <3> QED BY <2>2, <2>3, <3>1, ReturnKeeps, Zenon
  <2>5. D!PopFront
    <3>1. /\ Items(queue)' = Tail(s) /\ call' = <<"pop_front">>
          /\ out' = <<Head(s)>> /\ rc' \in {"IB_OK", "IB_EALLOC"}
      BY <2>1, <2>2, <2>3, ItemsPrimed, Zenon DEF Return
    <3> QED BY <2>1, <3>1, Zenon DEF D!PopFront, D!Pop
  <2> QED BY <2>4, <2>5, Zenon DEF CommonStep, D!Common
<1> QED BY <1>2, <1>3, Zenon

LEMMA PeekStep ==
    ASSUME QInv, Peek
    PROVE  QInv' /\ [CommonStep]_(D!vars)
<1>1. Good(queue) /\ <<>> \in Seq(Element)
  BY DEF QInv
<1>2. CASE queue.size = 0
  <2>1. Return(<<"peek">>, queue, "IB_EINVAL", <<>>)
    BY <1>2, Zenon DEF Peek
  <2>2. QInv' /\ NeverShrink' = NeverShrink
    BY <1>1, <2>1, ReturnKeeps, Zenon DEF Statuses
  <2>3. D!Refused
    BY <1>1, <1>2, <2>1, ItemsPrimed, EmptyItems, Zenon DEF Return, D!Refused
  <2> QED BY <2>2, <2>3, Zenon DEF CommonStep, D!Common
<1>3. CASE queue.size # 0
  <2>1. /\ Items(queue) # <<>>
        /\ Cell(queue, 0) = Head(Items(queue)) /\ Cell(queue, 0) \in Element
    BY <1>1, <1>3, PopFrontItems, Zenon
  <2>2. Return(<<"peek">>, queue, "IB_OK", <<Cell(queue, 0)>>)
    BY <1>3, Zenon DEF Peek
  <2>3. QInv' /\ NeverShrink' = NeverShrink
    <3>1. <<Cell(queue, 0)>> \in Seq(Element) /\ "IB_OK" \in Statuses
      BY <2>1 DEF Statuses
    <3> QED BY <1>1, <2>2, <3>1, ReturnKeeps, Zenon
  <2>4. D!Peek
    BY <2>1, <2>2, ItemsPrimed, Zenon DEF Return, D!Peek
  <2> QED BY <2>3, <2>4, Zenon DEF CommonStep, D!Common
<1> QED BY <1>2, <1>3, Zenon

LEMMA GetStep ==
    ASSUME QInv, NEW i \in Nat, Get(i)
    PROVE  QInv' /\ [CommonStep]_(D!vars)
<1>1. Good(queue) /\ <<>> \in Seq(Element) /\ queue.size \in Nat
  BY Fields DEF QInv
<1>2. CASE queue.size <= i
  <2>1. Return(<<"get", i>>, queue, "IB_EINVAL", <<>>)
    BY <1>2, Zenon DEF Get
  <2>2. QInv' /\ NeverShrink' = NeverShrink
    BY <1>1, <2>1, ReturnKeeps, Zenon DEF Statuses
  <2>3. D!Refused
    <3>1. /\ Items(queue)' = Items(queue) /\ out' = <<>> /\ rc' = "IB_EINVAL"
          /\ call' = <<"get", i>>
      BY <2>1, ItemsPrimed, Zenon DEF Return
    <3>2. call'[1] \in {"get", "set"} /\ call'[2] = i
      BY <3>1
    <3>3. Len(Items(queue)) = queue.size
      BY <1>1, ItemsOf, Zenon
    <3>4. i \notin 0..(Len(Items(queue)) - 1)
      BY <1>1, <1>2, <3>3
    <3> QED BY <3>1, <3>2, <3>4, Zenon DEF D!Refused, D!Beyond
  <2> QED BY <2>2, <2>3, Zenon DEF CommonStep, D!Common
<1>3. CASE ~(queue.size <= i)
  <2>1. i \in 0..(queue.size - 1) /\ i + 1 \in 1..queue.size
    BY <1>1, <1>3
  <2>2. /\ Items(queue)[i + 1] = Cell(queue, i) /\ i + 1 \in DOMAIN Items(queue)
        /\ Cell(queue, i) \in Element
    <3>1. Items(queue)[i + 1] = Cell(queue, i)
      BY <1>1, <2>1, ItemsOf, Zenon
    <3> QED BY <1>1, <2>1, <3>1, Zenon DEF Items, Good
  <2>3. Return(<<"get", i>>, queue, "IB_OK", <<Cell(queue, i)>>)
    BY <1>3, Zenon DEF Get
  <2>4. QInv' /\ NeverShrink' = NeverShrink
    <3>1. <<Cell(queue, i)>> \in Seq(Element) /\ "IB_OK" \in Statuses
      BY <2>2 DEF Statuses
    <3> QED BY <1>1, <2>3, <3>1, ReturnKeeps, Zenon
  <2>5. D!Get
    <3>1. /\ out' = <<Items(queue)[i + 1]>> /\ call' = <<"get", i>> /\ rc' = "IB_OK"
          /\ Items(queue)' = Items(queue)
      BY <2>2, <2>3, ItemsPrimed, Zenon DEF Return
    <3>2. i + 1 \in 1..Len(Items(queue)) /\ i = (i + 1) - 1
      BY <1>1, <2>1, ItemsOf
    <3>3. PICK j \in 1..Len(Items(queue)) : j = i + 1 /\ i = j - 1
      BY <3>2, Zenon
    <3> QED BY <3>1, <3>3, Zenon DEF D!Get
  <2> QED BY <2>4, <2>5, Zenon DEF CommonStep, D!Common
<1> QED BY <1>2, <1>3, Zenon

LEMMA SetStep ==
    ASSUME QInv, NEW i \in Nat, NEW e \in Element, Set(i, e)
    PROVE  QInv' /\ [CommonStep]_(D!vars)
<1>1. Good(queue) /\ <<>> \in Seq(Element) /\ queue.size \in Nat
  BY Fields DEF QInv
<1>2. CASE queue.size <= i
  <2>1. Return(<<"set", i, e>>, queue, "IB_EINVAL", <<>>)
    BY <1>2, Zenon DEF Set
  <2>2. QInv' /\ NeverShrink' = NeverShrink
    BY <1>1, <2>1, ReturnKeeps, Zenon DEF Statuses
  <2>3. D!Refused
    <3>1. /\ Items(queue)' = Items(queue) /\ out' = <<>> /\ rc' = "IB_EINVAL"
          /\ call' = <<"set", i, e>>
      BY <2>1, ItemsPrimed, Zenon DEF Return
    <3>2. call'[1] \in {"get", "set"} /\ call'[2] = i
      BY <3>1
    <3>3. Len(Items(queue)) = queue.size
      BY <1>1, ItemsOf, Zenon
    <3>4. i \notin 0..(Len(Items(queue)) - 1)
      BY <1>1, <1>2, <3>3
    <3> QED BY <3>1, <3>2, <3>4, Zenon DEF D!Refused, D!Beyond
  <2> QED BY <2>2, <2>3, Zenon DEF CommonStep, D!Common
<1>3. CASE ~(queue.size <= i)
  <2>1. i < queue.size /\ i + 1 \in 1..queue.size
    BY <1>1, <1>3
  <2>2. /\ Good(Stored(queue, i, e))
        /\ Items(Stored(queue, i, e)) = [Items(queue) EXCEPT ![i + 1] = e]
    BY <1>1, <2>1, SetItems
  <2>3. i + 1 \in DOMAIN Items(queue)
    BY <2>1, Zenon DEF Items
  <2>4. Return(<<"set", i, e>>, Stored(queue, i, e), "IB_OK", <<>>)
    BY <1>3, Zenon DEF Set
  <2>5. QInv' /\ NeverShrink' = NeverShrink
    BY <1>1, <2>2, <2>4, ReturnKeeps, Zenon DEF Statuses
  <2>6. D!Set
    <3>1. /\ out' = <<>> /\ call' = <<"set", i, e>> /\ rc' = "IB_OK"
          /\ Items(queue)' = [Items(queue) EXCEPT ![i + 1] = e]
      BY <2>2, <2>4, ItemsPrimed, Zenon DEF Return
    <3>2. i + 1 \in 1..Len(Items(queue)) /\ i = (i + 1) - 1
      BY <1>1, <2>1, ItemsOf
    <3>3. PICK j \in 1..Len(Items(queue)) : j = i + 1 /\ i = j - 1
      BY <3>2, Zenon
    <3> QED BY <3>1, <3>3, Zenon DEF D!Set
  <2> QED BY <2>5, <2>6, Zenon DEF CommonStep, D!Common
<1> QED BY <1>2, <1>3, Zenon

\* A queue is cut and its storage replaced.
LEMMA CutAndResized ==
    ASSUME NEW q, Good(q), NEW n \in Nat, NEW m \in Nat, n <= q.size, n <= m,
           NEW mem \in BOOLEAN, NEW r, r = Resize(Cut(q, n), m, mem)
    PROVE  Good(r) /\ Items(r) = SubSeq(Items(q), 1, n) /\ r.size = n
<1>1. Good(Cut(q, n)) /\ Cut(q, n).size = n /\ Items(Cut(q, n)) = SubSeq(Items(q), 1, n)
  BY CutItems
<1>2. /\ Good(r) /\ r.size = n
      /\ \A i \in 0..(n - 1) : Cell(r, i) = Cell(Cut(q, n), i)
  BY <1>1, ResizeKeeps
<1> QED BY <1>1, <1>2, SameItems, Zenon

LEMMA ReserveStep ==
    ASSUME QInv, NEW n \in Nat, NEW mem \in BOOLEAN, Reserve(n, mem)
    PROVE  /\ QInv' /\ [D!NextAsBuilt]_(D!vars)
           /\ ~NeverShrink => [D!Next]_(D!vars)
<1> DEFINE k == IF n < queue.size THEN n ELSE queue.size
           p == Cut(queue, k)
           r == Resize(p, n, mem)
           status == IF mem THEN "IB_OK" ELSE "IB_EALLOC"
<1>1. Good(queue) /\ <<>> \in Seq(Element) /\ queue.size \in Nat
  BY Fields DEF QInv
<1>2. k \in Nat /\ k <= queue.size /\ k <= n /\ (k = n \/ k = queue.size)
  BY <1>1
<1>3. Resized(<<"reserve", n>>, p, n, mem, <<>>)
  BY Zenon DEF Reserve, Cut
<1>4. CASE mem /\ p.allocation = 0
  <2>1. Trap
    BY <1>3, <1>4, Zenon DEF Resized
  <2>2. QInv' /\ UNCHANGED D!vars
    BY <2>1, TrapStep, Zenon
  <2> QED BY <2>2, Zenon
<1>5. CASE ~(mem /\ p.allocation = 0)
  <2>1. Return(<<"reserve", n>>, r, status, <<>>)
    BY <1>3, <1>5, Zenon DEF Resized
  <2> HIDE DEF k
  <2>2. Good(r) /\ Items(r) = SubSeq(Items(queue), 1, k)
    BY <1>1, <1>2, CutAndResized
  <2>3. status \in {"IB_OK", "IB_EALLOC"} /\ status \in Statuses
    BY Zenon DEF Statuses
  <2> HIDE DEF r, status
  <2>4. QInv' /\ NeverShrink' = NeverShrink
    BY <1>1, <2>1, <2>2, <2>3, ReturnKeeps, Zenon
  <2>5. /\ out' = <<>> /\ call' = <<"reserve", n>> /\ rc' = status
        /\ Items(queue)' = SubSeq(Items(queue), 1, k)
    BY <2>1, <2>2, ItemsPrimed, Zenon DEF Return
  <2>6. Items(queue) \in Seq(Element) /\ Len(Items(queue)) = queue.size
    BY <1>1, ItemsOf, Zenon
  <2>7. CASE k = n
    <3>1. n \in 0..Len(Items(queue))
      BY <1>1, <1>2, <2>6, <2>7
    <3>2. D!Truncate
      BY <2>3, <2>5, <2>7, <3>1, Zenon DEF D!Truncate
    <3> QED BY <2>4, <3>2, Zenon DEF D!NextAsBuilt, D!Next
  <2>8. CASE k = queue.size
    <3>1. Items(queue)' = Items(queue)
      BY <2>5, <2>6, <2>8
    <3>2. call'[1] = "reserve" /\ call'[2] = n
      BY <2>5
    <3>3. n \notin 0..(Len(Items(queue)) - 1)
      BY <1>1, <1>2, <2>6, <2>8
    <3>4. D!ReserveMore
      BY <2>3, <2>5, <3>1, <3>2, <3>3, Zenon DEF D!ReserveMore, D!Beyond
    <3> QED BY <2>4, <3>4, Zenon DEF D!NextAsBuilt, D!Next, D!Common
  <2> QED BY <1>2, <2>7, <2>8, Zenon
<1> QED BY <1>4, <1>5, Zenon

LEMMA DequeueAllStep ==
    ASSUME QInv, NEW mem \in BOOLEAN, DequeueAll(mem)
    PROVE  QInv' /\ [CommonStep]_(D!vars)
<1> DEFINE p == Cut(queue, 0)
           r == Resize(p, DEFAULT_QUEUE_SIZE, mem)
           status == IF mem THEN "IB_OK" ELSE "IB_EALLOC"
<1>1. Good(queue) /\ Items(queue) \in Seq(Element) /\ queue.size \in Nat
  BY Fields, ItemsOf, Zenon DEF QInv
<1>2. DEFAULT_QUEUE_SIZE \in Nat /\ 0 <= queue.size /\ 0 <= DEFAULT_QUEUE_SIZE
  BY <1>1, QueueAssumption
<1>3. Resized(<<"dequeue_all">>, p, DEFAULT_QUEUE_SIZE, mem, Items(queue))
  BY Zenon DEF DequeueAll, Cut
<1>4. CASE mem /\ p.allocation = 0
  <2>1. Trap
    BY <1>3, <1>4, Zenon DEF Resized
  <2> QED BY <2>1, TrapStep, Zenon
<1>5. CASE ~(mem /\ p.allocation = 0)
  <2>1. Return(<<"dequeue_all">>, r, status, Items(queue))
    BY <1>3, <1>5, Zenon DEF Resized
  <2>2. Good(r) /\ r.size = 0
    BY <1>1, <1>2, CutAndResized
  <2>3. status \in {"IB_OK", "IB_EALLOC"} /\ status \in Statuses
    BY Zenon DEF Statuses
  <2> HIDE DEF r, status
  <2>4. QInv' /\ NeverShrink' = NeverShrink
    BY <1>1, <2>1, <2>2, <2>3, ReturnKeeps, Zenon
  <2>5. D!DequeueAll
    <3>1. Items(r) = <<>>
      BY <2>2, EmptyItems, Zenon
    <3>2. /\ out' = Items(queue) /\ call' = <<"dequeue_all">> /\ rc' = status
          /\ Items(queue)' = <<>>
      BY <2>1, <3>1, ItemsPrimed, Zenon DEF Return
    <3> QED BY <2>3, <3>2, Zenon DEF D!DequeueAll
  <2> QED BY <2>4, <2>5, Zenon DEF CommonStep, D!Common
<1> QED BY <1>4, <1>5, Zenon

LEMMA QueueStep ==
    QInv /\ [Next]_vars => /\ QInv' /\ [D!NextAsBuilt]_(D!vars)
                           /\ Plain => [D!Next]_(D!vars)
<1> SUFFICES ASSUME QInv, [Next]_vars
             PROVE  /\ QInv' /\ [D!NextAsBuilt]_(D!vars)
                    /\ Plain => [D!Next]_(D!vars)
  BY Zenon
<1>c. ASSUME [CommonStep]_(D!vars)
      PROVE  [D!NextAsBuilt]_(D!vars) /\ [D!Next]_(D!vars)
  BY <1>c, Zenon DEF CommonStep, D!NextAsBuilt, D!Next
<1>0. Memory \subseteq BOOLEAN
  BY Zenon DEF Memory
<1>1. ASSUME NEW e \in Element, NEW mem \in Memory, PushBack(e, mem)
      PROVE  QInv' /\ [CommonStep]_(D!vars)
  BY <1>0, <1>1, PushBackStep, Zenon
<1>2. ASSUME NEW e \in Element, NEW mem \in Memory, PushFront(e, mem)
      PROVE  /\ QInv' /\ [D!NextAsBuilt]_(D!vars)
             /\ Plain => [D!Next]_(D!vars)
  <2>1. Plain => mem
    BY Zenon DEF Plain, Memory
  <2> QED BY <1>0, <1>2, <2>1, PushFrontStep, Zenon
<1>3. ASSUME NEW mem \in Memory, PopBack(mem)
      PROVE  QInv' /\ [CommonStep]_(D!vars)
  BY <1>0, <1>3, PopBackStep, Zenon
<1>4. ASSUME NEW mem \in Memory, PopFront(mem)
      PROVE  QInv' /\ [CommonStep]_(D!vars)
  BY <1>0, <1>4, PopFrontStep, Zenon
<1>5. ASSUME Peek
      PROVE  QInv' /\ [CommonStep]_(D!vars)
  BY <1>5, PeekStep, Zenon
<1>6. ASSUME NEW i \in 0..MaxSize, Get(i)
      PROVE  QInv' /\ [CommonStep]_(D!vars)
  <2>1. i \in Nat
    BY QueueAssumption
  <2> QED BY <1>6, <2>1, GetStep, Zenon
<1>7. ASSUME NEW i \in 0..MaxSize, NEW e \in Element, Set(i, e)
      PROVE  QInv' /\ [CommonStep]_(D!vars)
  <2>1. i \in Nat
    BY QueueAssumption
  <2> QED BY <1>7, <2>1, SetStep, Zenon
<1>8. ASSUME NEW n \in ReserveSizes, NEW mem \in Memory, Reserve(n, mem)
      PROVE  /\ QInv' /\ [D!NextAsBuilt]_(D!vars)
             /\ Plain => [D!Next]_(D!vars)
  <2>1. n \in Nat
    BY QueueAssumption, Zenon
  <2>2. Plain => ~NeverShrink
    BY <1>8, Zenon DEF Plain, NeverShrink, Reserve
  <2> QED BY <1>0, <1>8, <2>1, <2>2, ReserveStep, Zenon
<1>9. ASSUME NEW mem \in Memory, DequeueAll(mem)
      PROVE  QInv' /\ [CommonStep]_(D!vars)
  BY <1>0, <1>9, DequeueAllStep, Zenon
<1>10. CASE UNCHANGED vars
  <2>1. /\ queue' = queue /\ rc' = rc /\ out' = out /\ call' = call
        /\ client' = client /\ trap' = trap
    BY <1>10, Zenon DEF vars
  <2>2. Good(queue)'
    <3>1. Good(queue')
      BY <2>1, Zenon DEF QInv
    <3> QED BY <3>1, Zenon DEF Good, Cell, ToIndex
  <2>3. QInv' /\ NeverShrink' = NeverShrink
    BY <2>1, <2>2, Zenon DEF QInv, NeverShrink
  <2>4. Items(queue)' = Items(queue)
    BY <2>1, ItemsPrimed, Zenon
  <2> QED BY <2>1, <2>3, <2>4, Zenon DEF D!vars
<1> QED BY <1>c, <1>1, <1>2, <1>3, <1>4, <1>5, <1>6, <1>7, <1>8, <1>9, <1>10, Zenon
   DEF Next

(* Every element is in a cell of the storage that was written, whatever    *)
(* was pushed, popped, reserved and resized before.                        *)
THEOREM QueueWellFormed == Spec => []QInv
<1>1. Init => QInv
  BY QueueInit, Zenon
<1>2. QInv /\ [Next]_vars => QInv'
  BY QueueStep, Zenon
<1> QED BY <1>1, <1>2, PTL DEF Spec

(* The fields of ib_queue_t have their types and the elements fit their    *)
(* storage: the assertion in resize never fails and no index leaves the    *)
(* storage, for every default size, every reserve and every failed         *)
(* allocation.                                                             *)
THEOREM QueueTyped == Spec => []TypeOK
<1>1. QInv => TypeOK
  <2> SUFFICES ASSUME QInv PROVE TypeOK
    BY Zenon
  <2>1. /\ queue.head \in Nat /\ queue.size \in Nat
        /\ queue.allocation \in Nat /\ queue.size <= queue.allocation
        /\ queue.head < queue.allocation \/ queue.allocation = 0
        /\ queue.cells \in CellType(queue.allocation)
    BY Fields, Zenon DEF QInv
  <2> QED BY <2>1, Zenon DEF QInv, TypeOK, CellType, Statuses
<1> QED BY <1>1, QueueWellFormed, PTL

(* The ring buffer implements the double-ended queue, call by call and     *)
(* whatever allocation fails: every push, pop, get, set and drain does     *)
(* what queue.h says, but for a push at the front that lacks memory and a  *)
(* reserve on a queue that never shrinks, which do what SpecAsBuilt says.  *)
THEOREM QueueRefinesDeque == Spec => ImplementsDeque
<1>1. Init => D!Init
  BY QueueInit, Zenon
<1>2. QInv /\ [Next]_vars => [D!NextAsBuilt]_(D!vars)
  BY QueueStep, Zenon
<1> QED BY <1>1, <1>2, QueueWellFormed, PTL DEF Spec, ImplementsDeque, D!SpecAsBuilt

(* With memory, and with no reserve on a queue that never shrinks, the     *)
(* ring buffer does what queue.h says in every call.                       *)
THEOREM PlainQueueFollowsHeader == Spec /\ []Plain => FollowsHeader
<1>1. Init => D!Init
  BY QueueInit, Zenon
<1>2. QInv /\ Plain /\ [Next]_vars => [D!Next]_(D!vars)
  BY QueueStep, Zenon
<1> QED BY <1>1, <1>2, QueueWellFormed, PTL DEF Spec, FollowsHeader, D!Spec
-----------------------------------------------------------------------------
(* The storage.  A queue its client never resizes has DEFAULT_QUEUE_SIZE   *)
(* cells, doubled some number of times: the smallest set that holds the    *)
(* default and the double of each of its members.  Halving an allocation   *)
(* of this set gives another of its members or one below the default,      *)
(* which is what makes the rule of shrink ("no less than the default")     *)
(* give back everything that was grown.                                    *)
DoublingClosed(S) == DEFAULT_QUEUE_SIZE \in S /\ \A m \in S : 2 * m \in S
Doublings == {n \in Nat : \A S \in SUBSET Nat : DoublingClosed(S) => n \in S}

Fits(a, z) == a \in Doublings /\ (a <= DEFAULT_QUEUE_SIZE \/ a <= 2 * z)

StorageInv ==
    /\ "reserves" \notin client =>
          queue.allocation >= DEFAULT_QUEUE_SIZE /\ trap = FALSE
    /\ client = {} => Fits(queue.allocation, queue.size)

LEMMA DoublingsClosed ==
    /\ Doublings \in SUBSET Nat /\ DEFAULT_QUEUE_SIZE \in Doublings
    /\ \A m \in Doublings : 2 * m \in Doublings
<1>1. Doublings \in SUBSET Nat /\ DEFAULT_QUEUE_SIZE \in Doublings
  BY QueueAssumption, Zenon DEF Doublings, DoublingClosed
<1>2. ASSUME NEW m \in Doublings PROVE 2 * m \in Doublings
  <2>1. m \in Nat /\ 2 * m \in Nat
    BY <1>1
  <2>2. ASSUME NEW S \in SUBSET Nat, DoublingClosed(S) PROVE 2 * m \in S
    <3>1. m \in S
      BY <2>2, Zenon DEF Doublings
    <3> QED BY <2>2, <3>1, Zenon DEF DoublingClosed
  <2> QED BY <2>1, <2>2, Zenon DEF Doublings
<1> QED BY <1>1, <1>2, Zenon

LEMMA DoublingsInduct ==
    ASSUME NEW S \in SUBSET Nat, DoublingClosed(S) PROVE Doublings \subseteq S
BY Zenon DEF Doublings

LEMMA DoublingsHalve ==
    ASSUME NEW n \in Doublings
    PROVE  /\ n >= DEFAULT_QUEUE_SIZE
           /\ n # DEFAULT_QUEUE_SIZE => \E m \in Doublings : n = 2 * m
<1>1. DEFAULT_QUEUE_SIZE \in Nat
  BY QueueAssumption, Zenon
<1>2. n >= DEFAULT_QUEUE_SIZE
  <2> DEFINE S == {k \in Nat : k >= DEFAULT_QUEUE_SIZE}
  <2>1. S \in SUBSET Nat /\ DEFAULT_QUEUE_SIZE \in S
    BY <1>1
  <2>2. ASSUME NEW m \in S PROVE 2 * m \in S
    BY <1>1
  <2>3. DoublingClosed(S)
    BY <2>1, <2>2, Zenon DEF DoublingClosed
  <2>4. Doublings \subseteq S
    BY <2>1, <2>3, DoublingsInduct, Zenon
  <2> QED BY <2>4, Zenon
<1>3. n # DEFAULT_QUEUE_SIZE => \E m \in Doublings : n = 2 * m
  <2> DEFINE S == {k \in Nat : k = DEFAULT_QUEUE_SIZE \/ \E m \in Doublings : k = 2 * m}
  <2>1. S \in SUBSET Nat /\ DEFAULT_QUEUE_SIZE \in S
    BY <1>1, Zenon
  <2>2. ASSUME NEW m \in S PROVE 2 * m \in S
    <3>1. m \in Doublings
      BY DoublingsClosed, Zenon
    <3>2. 2 * m \in Nat
      BY <3>1, DoublingsClosed, Zenon
    <3> QED BY <3>1, <3>2, Zenon
  <2>3. DoublingClosed(S)
    BY <2>1, <2>2, Zenon DEF DoublingClosed
  <2>4. Doublings \subseteq S
    BY <2>1, <2>3, DoublingsInduct, Zenon
  <2> QED BY <2>4, Zenon
<1> QED BY <1>2, <1>3, Zenon

LEMMA FitsAfterPush ==
    ASSUME NEW a \in Nat, NEW z \in Nat, Fits(a, z), z <= a
    PROVE  Fits(IF z = a THEN 2 * a ELSE a, z + 1)
<1>1. DEFAULT_QUEUE_SIZE \in Nat /\ a \in Doublings /\ 2 * a \in Doublings
  BY QueueAssumption, DoublingsClosed, Zenon DEF Fits
<1>2. CASE z = a
  <2>1. 2 * a <= 2 * (z + 1)
    BY <1>2
  <2> QED BY <1>1, <1>2, <2>1, Zenon DEF Fits
<1>3. CASE z # a
  <2>1. a <= DEFAULT_QUEUE_SIZE \/ a <= 2 * (z + 1)
    BY <1>1 DEF Fits
  <2> QED BY <1>1, <1>3, <2>1, Zenon DEF Fits
<1> QED BY <1>2, <1>3, Zenon

LEMMA FitsAfterPop ==
    ASSUME NEW a \in Nat, NEW z \in Nat, Fits(a, z + 1)
    PROVE  Fits(IF z * 2 < a /\ a \div 2 >= DEFAULT_QUEUE_SIZE THEN a \div 2 ELSE a, z)
<1>1. DEFAULT_QUEUE_SIZE \in Nat \ {0} /\ a \in Doublings
      /\ (a <= DEFAULT_QUEUE_SIZE \/ a <= 2 * (z + 1))
  BY QueueAssumption, Zenon DEF Fits
<1>2. CASE ~(z * 2 < a)
  <2>1. a <= 2 * z
    BY <1>2
  <2> QED BY <1>1, <1>2, <2>1, Zenon DEF Fits
<1>3. CASE a = DEFAULT_QUEUE_SIZE
  <2>1. ~(a \div 2 >= DEFAULT_QUEUE_SIZE) /\ a <= DEFAULT_QUEUE_SIZE
    BY <1>1, <1>3
  <2> QED BY <1>1, <2>1, Zenon DEF Fits
<1>4. CASE z * 2 < a /\ a # DEFAULT_QUEUE_SIZE
  <2>1. PICK m \in Doublings : a = 2 * m
    BY <1>1, <1>4, DoublingsHalve, Zenon
  <2>2. m \in Nat /\ m >= DEFAULT_QUEUE_SIZE
    BY DoublingsClosed, DoublingsHalve, Zenon
  <2>3. a \div 2 = m
    BY <2>1, <2>2
  <2>4. m <= z + 1
    BY <1>1, <2>1, <2>2
  <2>5. m <= DEFAULT_QUEUE_SIZE \/ m <= 2 * z
    BY <1>1, <2>2, <2>4
  <2> QED BY <1>4, <2>2, <2>3, <2>5, Zenon DEF Fits
<1> QED BY <1>2, <1>3, <1>4, Zenon

\* What the calls do to the size and to the storage.
Size       == queue.size
Allocation == queue.allocation
Same       == queue' = queue
Pushes(mem) ==
    /\ queue'.size = Size + 1
    /\ queue'.allocation = IF Size = Allocation /\ mem THEN 2 * Allocation ELSE Allocation
Pops(mem) ==
    /\ Size # 0
    /\ queue'.size = Size - 1
    /\ queue'.allocation = IF /\ (Size - 1) * 2 < Allocation
                              /\ ~NeverShrink
                              /\ Allocation \div 2 >= DEFAULT_QUEUE_SIZE
                              /\ mem
                           THEN Allocation \div 2 ELSE Allocation
Empties(mem) ==
    /\ queue'.size = 0
    /\ queue'.allocation = IF mem THEN DEFAULT_QUEUE_SIZE ELSE Allocation

LEMMA PushStorage ==
    ASSUME QInv, NEW mem \in BOOLEAN, NEW e \in Element,
           PushBack(e, mem) \/ PushFront(e, mem)
    PROVE  \/ Same /\ trap' = trap
           \/ Pushes(mem) /\ trap' = trap
           \/ Same /\ Allocation = 0
<1> DEFINE q == Grown(queue, mem)
<1>1. Good(queue) /\ queue.allocation \in Nat
  BY Fields, Zenon DEF QInv
<1>2. CASE queue.size = queue.allocation /\ ~mem
  BY <1>2, Zenon DEF PushBack, PushFront, Return, Same
<1>3. CASE ~(queue.size = queue.allocation /\ ~mem) /\ q.allocation = 0
  <2>1. Same
    BY <1>3, Zenon DEF PushBack, PushFront, Trap, Same
  <2>2. q.allocation = IF queue.size = queue.allocation /\ mem THEN 2 * queue.allocation
                       ELSE queue.allocation
    BY <1>1, GrownKeeps, Zenon
  <2>3. queue.allocation = 0
    BY <1>1, <1>3, <2>2
  <2> QED BY <2>1, <2>3, Zenon DEF Allocation
<1>4. CASE ~(queue.size = queue.allocation /\ ~mem) /\ q.allocation # 0
  <2>1. queue' \in {PushedBack(q, e), PushedFront(q, e)} /\ trap' = trap
    BY <1>4, Zenon DEF PushBack, PushFront, PushedBack, PushedFront, Return
  <2>2. Good(q) /\ q.size < q.allocation
    BY <1>1, <1>4, GrowsIfFull, Zenon
  <2>3. /\ q.size = queue.size
        /\ q.allocation = IF queue.size = queue.allocation /\ mem
                          THEN 2 * queue.allocation ELSE queue.allocation
    BY <1>1, GrownKeeps, Zenon
  <2> HIDE DEF q
  <2>4. queue'.allocation = q.allocation /\ queue'.size = q.size + 1
    <3>1. /\ PushedBack(q, e).allocation = q.allocation
          /\ PushedBack(q, e).size = q.size + 1
      BY <2>2, PushBackItems, Zenon
    <3>2. /\ PushedFront(q, e).allocation = q.allocation
          /\ PushedFront(q, e).size = q.size + 1
      BY <2>2, PushFrontItems, Zenon
    <3> QED BY <2>1, <3>1, <3>2, Zenon
  <2>5. Pushes(mem)
    BY <2>3, <2>4, Zenon DEF Pushes, Size, Allocation
  <2> QED BY <2>1, <2>5, Zenon
<1> QED BY <1>2, <1>3, <1>4, Zenon

LEMMA PopStorage ==
    ASSUME QInv, NEW mem \in BOOLEAN, PopBack(mem) \/ PopFront(mem)
    PROVE  trap' = trap /\ (Same \/ Pops(mem))
<1>1. Good(queue) /\ queue.size \in Nat
  BY Fields, Zenon DEF QInv
<1>2. CASE queue.size = 0
  BY <1>2, Zenon DEF PopBack, PopFront, Return, Same
<1>3. CASE queue.size # 0
  <2> DEFINE n == queue.size - 1
  <2>1. n \in Nat /\ n <= queue.size
    BY <1>1, <1>3
  <2>2. \/ queue' = AfterPop(Cut(queue, n), mem)
        \/ queue' = AfterPop(PoppedFront(queue), mem)
    BY <1>3, Zenon DEF PopBack, PopFront, Cut, PoppedFront, Return
  <2>3. trap' = trap
    BY Zenon DEF PopBack, PopFront, Return
  <2> HIDE DEF n
  <2>4. /\ Good(Cut(queue, n)) /\ Cut(queue, n).size = n
        /\ Cut(queue, n).allocation = queue.allocation
    BY <1>1, <2>1, CutItems
  <2>5. /\ Good(PoppedFront(queue)) /\ PoppedFront(queue).size = n
        /\ PoppedFront(queue).allocation = queue.allocation
    BY <1>1, <1>3, PopFrontItems, Zenon DEF n
  <2>6. PICK q : Good(q) /\ q.size = n /\ q.allocation = queue.allocation
                 /\ queue' = AfterPop(q, mem)
    BY <2>2, <2>4, <2>5, Zenon
  <2>7. /\ queue'.size = n
        /\ queue'.allocation = IF /\ n * 2 < queue.allocation
                                  /\ ~NeverShrink
                                  /\ queue.allocation \div 2 >= DEFAULT_QUEUE_SIZE
                                  /\ mem
                               THEN queue.allocation \div 2 ELSE queue.allocation
    BY <2>6, AfterPopKeeps
  <2>8. Pops(mem)
    BY <1>3, <2>7, Zenon DEF Pops, Size, Allocation, n
  <2> QED BY <2>3, <2>8, Zenon
<1> QED BY <1>2, <1>3, Zenon

LEMMA DequeueAllStorage ==
    ASSUME QInv, NEW mem \in BOOLEAN, DequeueAll(mem)
    PROVE  (trap' = trap /\ Empties(mem)) \/ (Same /\ Allocation = 0)
<1> DEFINE p == Cut(queue, 0)
<1>1. Good(queue) /\ queue.size \in Nat /\ DEFAULT_QUEUE_SIZE \in Nat /\ 0 <= queue.size
      /\ 0 <= DEFAULT_QUEUE_SIZE
  BY Fields, QueueAssumption DEF QInv
<1>2. Good(p) /\ p.size = 0 /\ p.allocation = queue.allocation
  BY <1>1, CutItems
<1>3. Resized(<<"dequeue_all">>, p, DEFAULT_QUEUE_SIZE, mem, Items(queue))
  BY Zenon DEF DequeueAll, Cut
<1> HIDE DEF p
<1>4. CASE mem /\ p.allocation = 0
  <2>1. Trap
    BY <1>3, <1>4, Zenon DEF Resized
  <2> QED BY <1>2, <1>4, <2>1, Zenon DEF Trap, Same, Allocation
<1>5. CASE ~(mem /\ p.allocation = 0)
  <2>1. queue' = Resize(p, DEFAULT_QUEUE_SIZE, mem) /\ trap' = trap
    BY <1>3, <1>5, Zenon DEF Resized, Return
  <2>2. queue'.size = 0
        /\ queue'.allocation = IF mem THEN DEFAULT_QUEUE_SIZE ELSE queue.allocation
    BY <1>1, <1>2, <2>1, ResizeKeeps
  <2> QED BY <2>1, <2>2, Zenon DEF Empties, Allocation
<1> QED BY <1>4, <1>5, Zenon

LEMMA SetStorage ==
    ASSUME QInv, NEW i \in Nat, NEW e \in Element, Set(i, e)
    PROVE  trap' = trap /\ queue'.size = Size /\ queue'.allocation = Allocation
<1>1. Good(queue) /\ queue.size \in Nat
  BY Fields, Zenon DEF QInv
<1>2. CASE queue.size <= i
  BY <1>2, Zenon DEF Set, Return, Size, Allocation
<1>3. CASE ~(queue.size <= i)
  <2>1. i < queue.size /\ queue' = Stored(queue, i, e) /\ trap' = trap
    BY <1>1, <1>3 DEF Set, Return
  <2>2. /\ Stored(queue, i, e).size = queue.size
        /\ Stored(queue, i, e).allocation = queue.allocation
    BY <1>1, <2>1, SetItems
  <2> QED BY <2>1, <2>2, Zenon DEF Size, Allocation
<1> QED BY <1>2, <1>3, Zenon

\* The invariant needs only the size and the allocation.
LEMMA StorageKept ==
    ASSUME StorageInv, client' = client, trap' = trap,
           queue'.size = Size, queue'.allocation = Allocation
    PROVE  StorageInv'
BY Zenon DEF StorageInv, Size, Allocation, Fits

\* A trap needs an allocation of 0, which only a reserve leaves.
LEMMA StorageTrapped ==
    ASSUME QInv, StorageInv, client' = client, Same, Allocation = 0
    PROVE  StorageInv'
<1>1. queue.allocation \in Nat /\ DEFAULT_QUEUE_SIZE \in Nat \ {0}
  BY Fields, QueueAssumption, Zenon DEF QInv
<1>2. "reserves" \in client
  BY <1>1 DEF StorageInv, Allocation
<1> QED BY <1>2, Zenon DEF StorageInv

LEMMA StoragePushed ==
    ASSUME QInv, StorageInv, NEW mem \in Memory, client' = client,
           \/ Same /\ trap' = trap
           \/ Pushes(mem) /\ trap' = trap
           \/ Same /\ Allocation = 0
    PROVE  StorageInv'
<1>1. /\ queue.size \in Nat /\ queue.allocation \in Nat /\ queue.size <= queue.allocation
      /\ DEFAULT_QUEUE_SIZE \in Nat \ {0}
  BY Fields, QueueAssumption, Zenon DEF QInv
<1>2. CASE Same /\ trap' = trap
  BY <1>2, StorageKept, Zenon DEF Same, Size, Allocation
<1>3. CASE Pushes(mem) /\ trap' = trap
  <2>1. ASSUME "reserves" \notin client
        PROVE  queue'.allocation >= DEFAULT_QUEUE_SIZE /\ trap' = FALSE
    <3>1. queue.allocation >= DEFAULT_QUEUE_SIZE /\ trap = FALSE
      BY <2>1, Zenon DEF StorageInv
    <3>2. queue'.allocation \in {queue.allocation, 2 * queue.allocation}
      BY <1>3, Zenon DEF Pushes, Allocation
    <3> QED BY <1>1, <1>3, <3>1, <3>2
  <2>2. ASSUME client = {}
        PROVE  Fits(queue'.allocation, queue'.size)
    <3>1. Fits(queue.allocation, queue.size) /\ mem = TRUE
      BY <2>2, Zenon DEF StorageInv, Memory
    <3>2. Fits(IF queue.size = queue.allocation THEN 2 * queue.allocation
               ELSE queue.allocation, queue.size + 1)
      BY <1>1, <3>1, FitsAfterPush, Zenon
    <3>3. queue'.size = queue.size + 1
      BY <1>3, Zenon DEF Pushes, Size
    <3>4. queue'.allocation = IF queue.size = queue.allocation THEN 2 * queue.allocation
                              ELSE queue.allocation
      BY <1>3, <3>1, Zenon DEF Pushes, Size, Allocation
    <3> QED BY <3>2, <3>3, <3>4, Zenon
  <2> QED BY <2>1, <2>2, Zenon DEF StorageInv, Fits
<1>4. CASE Same /\ Allocation = 0
  BY <1>4, StorageTrapped, Zenon
<1> QED BY <1>2, <1>3, <1>4, Zenon

LEMMA StoragePopped ==
    ASSUME QInv, StorageInv, NEW mem \in Memory, client' = client, trap' = trap,
           Pops(mem)
    PROVE  StorageInv'
<1>1. /\ queue.size \in Nat /\ queue.allocation \in Nat /\ queue.size # 0
      /\ DEFAULT_QUEUE_SIZE \in Nat \ {0}
  BY Fields, QueueAssumption, Zenon DEF QInv, Pops, Size
<1>2. ASSUME "reserves" \notin client
      PROVE  queue'.allocation >= DEFAULT_QUEUE_SIZE /\ trap' = FALSE
  <2>1. queue.allocation >= DEFAULT_QUEUE_SIZE /\ trap = FALSE
    BY <1>2, Zenon DEF StorageInv
  <2>2. \/ queue'.allocation = queue.allocation
        \/ /\ queue'.allocation = queue.allocation \div 2
           /\ queue.allocation \div 2 >= DEFAULT_QUEUE_SIZE
    BY Zenon DEF Pops, Allocation
  <2> QED BY <2>1, <2>2, Zenon
<1>3. ASSUME client = {}
      PROVE  Fits(queue'.allocation, queue'.size)
  <2> DEFINE z == queue.size - 1
             a == queue.allocation
  <2>1. z \in Nat /\ a \in Nat /\ z + 1 = queue.size
    BY <1>1
  <2>2. Fits(a, z + 1) /\ mem = TRUE /\ ~NeverShrink
    BY <1>3, <2>1, Zenon DEF StorageInv, Memory, NeverShrink
  <2>3. queue'.size = z /\ queue'.allocation =
          IF z * 2 < a /\ a \div 2 >= DEFAULT_QUEUE_SIZE THEN a \div 2 ELSE a
    BY <2>2, Zenon DEF Pops, Size, Allocation
  <2> HIDE DEF a, z
  <2>4. Fits(IF z * 2 < a /\ a \div 2 >= DEFAULT_QUEUE_SIZE THEN a \div 2 ELSE a, z)
    BY <2>1, <2>2, FitsAfterPop, Zenon
  <2> QED BY <2>3, <2>4, Zenon
<1> QED BY <1>2, <1>3, Zenon DEF StorageInv, Fits

LEMMA StorageEmptied ==
    ASSUME QInv, StorageInv, NEW mem \in Memory, client' = client, trap' = trap,
           Empties(mem)
    PROVE  StorageInv'
<1>1. DEFAULT_QUEUE_SIZE \in Nat \ {0} /\ DEFAULT_QUEUE_SIZE \in Doublings
  BY QueueAssumption, DoublingsClosed, Zenon
<1>2. ASSUME "reserves" \notin client
      PROVE  queue'.allocation >= DEFAULT_QUEUE_SIZE /\ trap' = FALSE
  <2>1. queue.allocation >= DEFAULT_QUEUE_SIZE /\ trap = FALSE
    BY <1>2, Zenon DEF StorageInv
  <2>2. queue'.allocation \in {queue.allocation, DEFAULT_QUEUE_SIZE}
    BY Zenon DEF Empties, Allocation
  <2> QED BY <1>1, <2>1, <2>2
<1>3. ASSUME client = {}
      PROVE  Fits(queue'.allocation, queue'.size)
  <2>1. mem = TRUE
    BY <1>3, Zenon DEF Memory
  <2>2. queue'.allocation = DEFAULT_QUEUE_SIZE
    BY <2>1, Zenon DEF Empties
  <2> QED BY <1>1, <2>2 DEF Fits
<1> QED BY <1>2, <1>3, Zenon DEF StorageInv, Fits

LEMMA StorageInit == Init => StorageInv
<1> SUFFICES ASSUME Init PROVE StorageInv
  BY Zenon
<1>1. queue.allocation = DEFAULT_QUEUE_SIZE /\ trap = FALSE
  BY Zenon DEF Init
<1> QED BY <1>1, QueueAssumption, DoublingsClosed DEF StorageInv, Fits

LEMMA StorageStep == QInv /\ StorageInv /\ [Next]_vars => StorageInv'
<1> SUFFICES ASSUME QInv, StorageInv, [Next]_vars PROVE StorageInv'
  BY Zenon
<1>0. Memory \subseteq BOOLEAN
  BY Zenon DEF Memory
<1>1. client' = client
  BY Zenon DEF Next, PushBack, PushFront, PopBack, PopFront, Peek, Get, Set, Reserve,
         DequeueAll, Resized, Return, Trap, vars
<1>2. ASSUME NEW e \in Element, NEW mem \in Memory,
             PushBack(e, mem) \/ PushFront(e, mem)
      PROVE  StorageInv'
  BY <1>0, <1>1, <1>2, PushStorage, StoragePushed, Zenon
<1>3. ASSUME NEW mem \in Memory, PopBack(mem) \/ PopFront(mem)
      PROVE  StorageInv'
  <2>1. trap' = trap /\ (Same \/ Pops(mem))
    BY <1>0, <1>3, PopStorage, Zenon
  <2>2. CASE Same
    BY <1>1, <2>1, <2>2, StorageKept, Zenon DEF Same, Size, Allocation
  <2>3. CASE Pops(mem)
    BY <1>1, <2>1, <2>3, StoragePopped, Zenon
  <2> QED BY <2>1, <2>2, <2>3, Zenon
<1>4. ASSUME Peek \/ \E i \in 0..MaxSize : Get(i)
      PROVE  StorageInv'
  <2>1. queue' = queue /\ trap' = trap
    BY <1>4, Zenon DEF Peek, Get, Return
  <2> QED BY <1>1, <2>1, StorageKept, Zenon DEF Size, Allocation
<1>5. ASSUME NEW i \in 0..MaxSize, NEW e \in Element, Set(i, e)
      PROVE  StorageInv'
  <2>1. i \in Nat
    BY QueueAssumption
  <2> QED BY <1>1, <1>5, <2>1, SetStorage, StorageKept, Zenon
<1>6. ASSUME NEW n \in ReserveSizes, NEW mem \in Memory, Reserve(n, mem)
      PROVE  StorageInv'
  <2>1. "reserves" \in client'
    BY <1>1, <1>6, Zenon DEF Reserve
  <2> QED BY <2>1, Zenon DEF StorageInv
<1>7. ASSUME NEW mem \in Memory, DequeueAll(mem)
      PROVE  StorageInv'
  BY <1>0, <1>1, <1>7, DequeueAllStorage, StorageEmptied, StorageTrapped, Zenon
<1>8. CASE UNCHANGED vars
  BY <1>1, <1>8, StorageKept, Zenon DEF vars, Size, Allocation
<1> QED BY <1>2, <1>3, <1>4, <1>5, <1>6, <1>7, <1>8, Zenon DEF Next

THEOREM StorageInvariant == Spec => []StorageInv
<1>1. Init => StorageInv
  BY StorageInit, Zenon
<1>2. QInv /\ StorageInv /\ [Next]_vars => StorageInv'
  BY StorageStep, Zenon
<1> QED BY <1>1, <1>2, QueueWellFormed, PTL DEF Spec

(* With memory, a queue its client only pushes and pops holds no more than *)
(* twice the storage its elements need, beyond the default.                *)
THEOREM StorageGivenBack == Spec => []StorageFollowsSize
<1>1. StorageInv => StorageFollowsSize
  BY Zenon DEF StorageInv, StorageFollowsSize, Fits
<1> QED BY <1>1, StorageInvariant, PTL

(* to_index takes its index modulo the allocation, which only              *)
(* ib_queue_reserve can bring to 0: a client that does not call it never   *)
(* divides by 0, whatever allocation fails.                                *)
THEOREM NoTrapWithoutReserve == Spec => []("reserves" \notin client => trap = FALSE)
<1>1. StorageInv => ("reserves" \notin client => trap = FALSE)
  BY Zenon DEF StorageInv
<1> QED BY <1>1, StorageInvariant, PTL
=============================================================================
