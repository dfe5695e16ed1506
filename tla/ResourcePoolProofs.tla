-------------------------- MODULE ResourcePoolProofs --------------------------
(***************************************************************************)
(* For any limits, any number of structures and any failures of memory and *)
(* of the user's callbacks: the count of a resource pool is exact, its     *)
(* structures have one owner, its limits stay compatible, no creation      *)
(* passes the maximum, and an unused pool can serve.                       *)
(*                                                                         *)
(* The argument: a structure is either bound (ready, in use, or lost by a  *)
(* failed push) or not, Created binds one that was not bound, Destroyed    *)
(* unbinds one that was, and these two are the only steps that change the  *)
(* count.                                                                  *)
(***************************************************************************)
EXTENDS LuaRuntime, FiniteSetTheorems, SequenceTheorems, TLAPS

(* Popping the front of a queue without duplicates. *)
LEMMA PopFacts ==
    ASSUME NEW S, NEW q \in Seq(S), q # <<>>, IsInjective(q)
    PROVE  /\ Head(q) \in S /\ Head(q) \in Range(q)
           /\ Tail(q) \in Seq(S) /\ IsInjective(Tail(q))
           /\ Range(Tail(q)) = Range(q) \ {Head(q)}
  <1>1. /\ Len(q) \in Nat /\ Len(q) > 0 /\ DOMAIN q = 1..Len(q)
        /\ Head(q) = q[1] /\ q[1] \in S
    BY HeadTailProperties, EmptySeq, LenProperties, ElementOfSeq
  <1>2. /\ Tail(q) \in Seq(S) /\ Len(Tail(q)) = Len(q) - 1
        /\ DOMAIN Tail(q) = 1..(Len(q) - 1)
        /\ \A i \in 1..(Len(q) - 1) : Tail(q)[i] = q[i + 1]
    BY HeadTailProperties, LenProperties, Zenon
  <1>3. IsInjective(Tail(q))
    BY <1>1, <1>2 DEF IsInjective
  <1>4. Range(Tail(q)) = Range(q) \ {q[1]}
    <2>1. ASSUME NEW x \in Range(Tail(q)) PROVE x \in Range(q) \ {q[1]}
      BY <1>1, <1>2 DEF Range, IsInjective
    <2>2. ASSUME NEW x \in Range(q) \ {q[1]} PROVE x \in Range(Tail(q))
      <3>1. PICK i \in 1..Len(q) : x = q[i]
        BY <1>1, Zenon DEF Range
      <3>2. i # 1
        BY <3>1, Zenon
      <3>3. PICK j \in 1..(Len(q) - 1) : i = j + 1
        BY <1>1, <3>1, <3>2
      <3> QED BY <1>2, <3>1, <3>3, Zenon DEF Range
    <2> QED BY <2>1, <2>2, Zenon
  <1>5. q[1] \in Range(q)
    BY <1>1 DEF Range
  <1> QED BY <1>1, <1>2, <1>3, <1>4, <1>5, Zenon

(* ib_queue_push_back of an element the queue does not hold. *)
LEMMA PushFacts ==
    ASSUME NEW S, NEW q \in Seq(S), IsInjective(q),
           NEW x \in S, x \notin Range(q), NEW r, PushBack(q, x, r)
    PROVE  /\ r \in Seq(S) /\ IsInjective(r)
           /\ Range(r) \in {Range(q), Range(q) \cup {x}}
           /\ ~MayFail => Range(r) = Range(q) \cup {x}
           /\ r = q \/ Range(r) = Range(q) \cup {x}
  <1> DEFINE a == Append(q, x)
  <1>1. /\ a \in Seq(S) /\ Len(a) = Len(q) + 1 /\ DOMAIN a = 1..(Len(q) + 1)
        /\ Len(q) \in Nat /\ DOMAIN q = 1..Len(q)
        /\ a[Len(q) + 1] = x /\ \A i \in 1..Len(q) : a[i] = q[i]
    BY AppendProperties, LenProperties
  <1> HIDE DEF a
  <1>2. Range(a) = Range(q) \cup {x}
    BY <1>1 DEF Range
  <1>3. IsInjective(a)
    BY <1>1 DEF IsInjective, Range
  <1>4. r = a \/ (MayFail /\ r = q)
    BY Zenon DEF PushBack, a
  <1> QED BY <1>1, <1>2, <1>3, <1>4, Zenon

LEMMA BoundFinite ==
    ASSUME TypeOK
    PROVE  IsFiniteSet(bound)
  BY PoolAssumption, FS_Subset, Zenon DEF PoolAssumption, TypeOK

(* create_resource binds a structure that was not bound. *)
LEMMA CreatedFacts ==
    ASSUME IInv, op # "destroyed", NEW s \in Structs, Created(s)
    PROVE  /\ s \notin bound /\ bound' = bound \cup {s}
           /\ free' \in Seq(Structs) /\ IsInjective(free')
           /\ alloc' \subseteq Structs /\ bound' \subseteq alloc'
           /\ Range(free') \subseteq alloc' \ bound'
           /\ count' \in Nat /\ count' = Cardinality(bound')
           /\ count' = count + 1 /\ leaked' = leaked
  <1>1. /\ free \in Seq(Structs) /\ IsInjective(free)
        /\ Range(free) \subseteq alloc \ bound
        /\ alloc \subseteq Structs /\ bound \subseteq alloc
        /\ count \in Nat /\ count = Cardinality(bound)
    BY Zenon DEF IInv, TypeOK, Ownership, CountIsBound
  <1>2. /\ bound' = bound \cup {s} /\ alloc' = alloc \cup {s}
        /\ count' = count + 1 /\ leaked' = leaked
    BY Zenon DEF Created
  <1>3. /\ s \notin bound /\ free' \in Seq(Structs) /\ IsInjective(free')
        /\ Range(free') \subseteq Range(free) \ {s}
    <2>1. CASE free # <<>>
      BY <1>1, <2>1, PopFacts DEF Created, NewStruct
    <2>2. CASE free = <<>>
      BY <1>1, <2>2, Zenon DEF Created, NewStruct
    <2> QED BY <2>1, <2>2, Zenon
  <1>4. Cardinality(bound \cup {s}) = Cardinality(bound) + 1
    BY <1>3, BoundFinite, FS_AddElement, Zenon DEF IInv
  <1> QED BY <1>1, <1>2, <1>3, <1>4

(* destroy_resource unbinds a structure that was bound. *)
LEMMA DestroyedFacts ==
    ASSUME IInv, op # "destroyed", NEW s \in bound, Destroyed(s)
    PROVE  /\ bound' = bound \ {s}
           /\ free' \in Seq(Structs) /\ IsInjective(free')
           /\ Range(free') \subseteq alloc \ bound'
           /\ count' \in Nat /\ count' = Cardinality(bound')
           /\ count' = count - 1
           /\ use' = [use EXCEPT ![s] = 0]
  <1>1. /\ free \in Seq(Structs) /\ IsInjective(free)
        /\ Range(free) \subseteq alloc \ bound
        /\ alloc \subseteq Structs /\ bound \subseteq alloc
        /\ count \in Nat /\ count = Cardinality(bound)
    BY Zenon DEF IInv, TypeOK, Ownership, CountIsBound
  <1>2. /\ bound' = bound \ {s} /\ count' = count - 1
        /\ use' = [use EXCEPT ![s] = 0] /\ PushBack(free, s, free')
    BY Zenon DEF Destroyed
  <1>3. s \in Structs /\ s \notin Range(free)
    BY <1>1, Zenon
  <1>4. /\ free' \in Seq(Structs) /\ IsInjective(free')
        /\ Range(free') \in {Range(free), Range(free) \cup {s}}
    BY <1>1, <1>2, <1>3, PushFacts, Zenon
  <1>5. /\ Cardinality(bound \ {s}) = Cardinality(bound) - 1
        /\ Cardinality(bound \ {s}) \in Nat
    BY BoundFinite, FS_RemoveElement, FS_CardinalityType, Zenon DEF IInv
  <1> QED BY <1>1, <1>2, <1>4, <1>5, Zenon

-----------------------------------------------------------------------------
LEMMA InitIInv == Init => IInv
  <1> SUFFICES ASSUME Init PROVE IInv
    BY Zenon
  <1>1. <<>> \in Seq(Structs) /\ DOMAIN <<>> = {}
    BY EmptySeq, LenProperties
  <1>2. IsInjective(<<>>) /\ Range(<<>>) = {}
    BY <1>1, Zenon DEF IsInjective, Range
  <1>3. Cardinality({}) = 0
    BY FS_EmptySet, Zenon
  <1>4. TypeOK
    BY <1>1, PoolAssumption, Zenon DEF Init, TypeOK, Ops, PoolAssumption
  <1>5. Ownership
    BY <1>2, Zenon DEF Init, Ownership
  <1>6. CountIsBound /\ MinBelowMax
    BY <1>3, Zenon DEF Init, CountIsBound, MinBelowMax
  <1>7. NoneLost
    BY <1>2, Zenon DEF Init, NoneLost
  <1> QED BY <1>4, <1>5, <1>6, <1>7, Zenon DEF IInv, Init

(* The steps of a loop or of a call that bind and unbind no structure: at  *)
(* most, a queue loses its first one to a pop that failed.                 *)
Popped(q, r) == r = q \/ (MayFail /\ q # <<>> /\ r = Tail(q))

LEMMA PoppedFacts ==
    ASSUME NEW S, NEW q \in Seq(S), IsInjective(q), NEW r, Popped(q, r)
    PROVE  /\ r \in Seq(S) /\ IsInjective(r) /\ Range(r) \subseteq Range(q)
           /\ ~MayFail => r = q
  <1>1. CASE r = q
    BY <1>1, Zenon
  <1>2. CASE MayFail /\ q # <<>> /\ r = Tail(q)
    BY <1>2, PopFacts, Zenon
  <1> QED BY <1>1, <1>2, Zenon DEF Popped

LEMMA QuietStep ==
    ASSUME IInv, UNCHANGED <<alloc, bound, held, use, count>>,
           Popped(resources, resources'), Popped(free, free'),
           op # "destroyed", op' \in Ops \ {"none"},
           min' \in Nat, max' \in Nat, max' # 0 => min' <= max', use_limit' \in Nat,
           leaked' \in Nat, ~MayFail => leaked' = leaked
    PROVE  IInv'
  <1>0. /\ resources' \in Seq(Structs) /\ free' \in Seq(Structs)
        /\ IsInjective(resources') /\ IsInjective(free')
        /\ Range(resources') \subseteq Range(resources) /\ Range(free') \subseteq Range(free)
        /\ ~MayFail => resources' = resources
    <2>1. /\ resources \in Seq(Structs) /\ free \in Seq(Structs)
          /\ IsInjective(resources) /\ IsInjective(free)
      BY Zenon DEF IInv, TypeOK, Ownership
    <2> QED BY <2>1, PoppedFacts, Zenon
  <1>1. TypeOK'
    BY <1>0, Zenon DEF IInv, TypeOK
  <1>2. Ownership'
    BY <1>0, Zenon DEF IInv, Ownership
  <1>3. CountIsBound' /\ MinBelowMax'
    BY Zenon DEF IInv, CountIsBound, MinBelowMax
  <1>4. NoneLost'
    BY <1>0, Zenon DEF IInv, NoneLost
  <1> QED BY <1>1, <1>2, <1>3, <1>4, Zenon DEF IInv

(* A creation that failed changes at most the ghost count of leaks, and    *)
(* may lose a structure without a user resource.                           *)
LEMMA NotCreatedFacts ==
    ASSUME IInv, NotCreated
    PROVE  /\ UNCHANGED <<alloc, bound, count>> /\ Popped(free, free')
           /\ leaked' \in Nat /\ MayFail
  BY DEF NotCreated, IInv, TypeOK, Popped

LEMMA FillStepKeeps ==
    ASSUME IInv, FillStep
    PROVE  IInv'
  <1>1. /\ op \in {"create", "refill"} /\ held' = held
        /\ min' = min /\ max' = max /\ use_limit' = use_limit
    BY Zenon DEF FillStep, limits
  <1>2. CASE NotCreated /\ FillFailed /\ UNCHANGED <<resources, use>>
    <2>1. op' \in {"failed", "idle"}
      BY <1>2, Zenon DEF FillFailed
    <2>2. min \in Nat /\ max \in Nat /\ (max # 0 => min <= max) /\ use_limit \in Nat
      BY Zenon DEF IInv, TypeOK, MinBelowMax
    <2> QED BY <1>1, <1>2, <2>1, <2>2, NotCreatedFacts, QuietStep, Zenon DEF Ops, Popped
  <1>3. ASSUME NEW s \in Structs, Created(s), use' = [use EXCEPT ![s] = 0],
               PushBack(resources, s, resources'),
               IF resources' = resources THEN FillFailed ELSE op' = op
        PROVE  IInv'
    <2>1. op' \in {"create", "refill", "failed", "idle"}
      BY <1>1, <1>3, Zenon DEF FillFailed
    <2>2. /\ s \notin bound /\ bound' = bound \cup {s}
          /\ free' \in Seq(Structs) /\ IsInjective(free')
          /\ alloc' \subseteq Structs /\ bound' \subseteq alloc'
          /\ Range(free') \subseteq alloc' \ bound'
          /\ count' \in Nat /\ count' = Cardinality(bound')
          /\ leaked' = leaked
      BY <1>1, <1>3, CreatedFacts, Zenon
    <2>3. /\ resources \in Seq(Structs) /\ IsInjective(resources)
          /\ Range(resources) \subseteq bound \ held /\ held \subseteq bound
      BY Zenon DEF IInv, TypeOK, Ownership
    <2>4. /\ resources' \in Seq(Structs) /\ IsInjective(resources')
          /\ Range(resources') \in {Range(resources), Range(resources) \cup {s}}
          /\ ~MayFail => Range(resources') = Range(resources) \cup {s}
      BY <1>3, <2>2, <2>3, PushFacts
    <2>5. TypeOK'
      BY <1>1, <1>3, <2>1, <2>2, <2>4, Zenon DEF IInv, TypeOK, Ops
    <2>6. Ownership'
      BY <1>1, <2>2, <2>3, <2>4, Zenon DEF Ownership
    <2>7. CountIsBound' /\ MinBelowMax'
      BY <1>1, <2>2, Zenon DEF IInv, CountIsBound, MinBelowMax
    <2>8. NoneLost'
      BY <1>1, <2>1, <2>2, <2>4, Zenon DEF IInv, NoneLost
    <2> QED BY <2>1, <2>5, <2>6, <2>7, <2>8, Zenon DEF IInv
  <1> QED BY <1>2, <1>3, Zenon DEF FillStep

LEMMA AcquireKeeps ==
    ASSUME IInv, Acquire
    PROVE  IInv'
  <1>1. /\ op = "idle" /\ op' = op /\ min' = min /\ max' = max /\ use_limit' = use_limit
    BY Zenon DEF Acquire, limits
  <1>2. PICK s \in Structs :
          /\ AcquireReady(s) \/ AcquireNew(s)
          /\ held' = held \cup {s}
    BY Zenon DEF Acquire
  <1>3. /\ resources \in Seq(Structs) /\ IsInjective(resources)
        /\ Range(resources) \subseteq bound \ held /\ held \subseteq bound
        /\ use \in [Structs -> Nat]
          /\ bound \subseteq Structs
    BY Zenon DEF IInv, TypeOK, Ownership
  <1>4. CASE AcquireReady(s)
    <2>1. /\ s \in Range(resources) /\ resources' \in Seq(Structs)
          /\ IsInjective(resources') /\ Range(resources') = Range(resources) \ {s}
      BY <1>3, <1>4, PopFacts, Zenon DEF AcquireReady
    <2>2. /\ UNCHANGED <<free, alloc, bound, count, leaked>>
          /\ use' = [use EXCEPT ![s] = @ + 1]
      BY <1>4, Zenon DEF AcquireReady
    <2>3. s \in bound
      BY <1>3, <2>1, Zenon
    <2>4. TypeOK'
      BY <1>1, <1>2, <2>1, <2>2, <2>3 DEF IInv, TypeOK
    <2>5. Ownership'
      BY <1>2, <1>3, <2>1, <2>2, Zenon DEF IInv, Ownership
    <2>6. CountIsBound' /\ MinBelowMax'
      BY <1>1, <2>2, Zenon DEF IInv, CountIsBound, MinBelowMax
    <2>7. NoneLost'
      BY <1>1, <1>2, <2>1, <2>2, Zenon DEF IInv, NoneLost
    <2> QED BY <1>1, <2>4, <2>5, <2>6, <2>7, Zenon DEF IInv
  <1>5. CASE AcquireNew(s)
    <2>1. Created(s) /\ use' = [use EXCEPT ![s] = 1] /\ resources' = resources
      BY <1>5, Zenon DEF AcquireNew
    <2>2. /\ s \notin bound /\ bound' = bound \cup {s}
          /\ free' \in Seq(Structs) /\ IsInjective(free')
          /\ alloc' \subseteq Structs /\ bound' \subseteq alloc'
          /\ Range(free') \subseteq alloc' \ bound'
          /\ count' \in Nat /\ count' = Cardinality(bound')
          /\ leaked' = leaked
      BY <1>1, <2>1, CreatedFacts, Zenon
    <2>3. TypeOK'
      BY <1>1, <1>2, <2>1, <2>2, Zenon DEF IInv, TypeOK
    <2>4. Ownership'
      BY <1>2, <1>3, <2>1, <2>2, Zenon DEF IInv, Ownership
    <2>5. CountIsBound' /\ MinBelowMax'
      BY <1>1, <2>2, Zenon DEF IInv, CountIsBound, MinBelowMax
    <2>6. NoneLost'
      BY <1>1, <1>2, <2>1, <2>2, Zenon DEF IInv, NoneLost
    <2> QED BY <1>1, <2>3, <2>4, <2>5, <2>6, Zenon DEF IInv
  <1> QED BY <1>2, <1>4, <1>5, Zenon

LEMMA ReleaseKeeps ==
    ASSUME IInv, Release
    PROVE  IInv'
  <1>1. /\ op = "idle" /\ op' = op /\ min' = min /\ max' = max /\ use_limit' = use_limit
        /\ alloc' = alloc /\ leaked' = leaked
    BY Zenon DEF Release, limits
  <1>2. PICK s \in held :
          /\ held' = held \ {s}
          /\ \/ TooOld(s) /\ Destroyed(s) /\ UNCHANGED resources
             \/ /\ ~TooOld(s)
                /\ PushBack(resources, s, resources')
                /\ UNCHANGED <<free, bound, use, count>>
    BY Zenon DEF Release
  <1>3. /\ resources \in Seq(Structs) /\ IsInjective(resources)
        /\ Range(resources) \subseteq bound \ held /\ held \subseteq bound
        /\ use \in [Structs -> Nat]
          /\ bound \subseteq Structs /\ s \in bound
    BY Zenon DEF IInv, TypeOK, Ownership
  <1>4. CASE TooOld(s) /\ Destroyed(s) /\ UNCHANGED resources
    <2>1. /\ bound' = bound \ {s}
          /\ free' \in Seq(Structs) /\ IsInjective(free')
          /\ Range(free') \subseteq alloc \ bound'
          /\ count' \in Nat /\ count' = Cardinality(bound')
          /\ use' = [use EXCEPT ![s] = 0]
      BY <1>1, <1>3, <1>4, DestroyedFacts, Zenon
    <2>2. TypeOK'
      BY <1>1, <1>2, <1>3, <1>4, <2>1, Zenon DEF IInv, TypeOK
    <2>3. Ownership'
      BY <1>1, <1>2, <1>3, <1>4, <2>1, Zenon DEF IInv, Ownership
    <2>4. CountIsBound' /\ MinBelowMax'
      BY <1>1, <2>1, Zenon DEF IInv, CountIsBound, MinBelowMax
    <2>5. NoneLost'
      BY <1>1, <1>2, <1>3, <1>4, <2>1, Zenon DEF IInv, NoneLost
    <2> QED BY <1>1, <2>2, <2>3, <2>4, <2>5, Zenon DEF IInv
  <1>5. CASE /\ ~TooOld(s) /\ PushBack(resources, s, resources')
             /\ UNCHANGED <<free, bound, use, count>>
    <2>1. /\ resources' \in Seq(Structs) /\ IsInjective(resources')
          /\ Range(resources') \in {Range(resources), Range(resources) \cup {s}}
          /\ ~MayFail => Range(resources') = Range(resources) \cup {s}
      BY <1>3, <1>5, PushFacts
    <2>2. TypeOK'
      BY <1>1, <1>2, <1>3, <1>5, <2>1, Zenon DEF IInv, TypeOK
    <2>3. Ownership'
      BY <1>1, <1>2, <1>3, <1>5, <2>1, Zenon DEF IInv, Ownership
    <2>4. CountIsBound' /\ MinBelowMax'
      BY <1>1, <1>5, Zenon DEF IInv, CountIsBound, MinBelowMax
    <2>5. NoneLost'
      BY <1>1, <1>2, <1>3, <1>5, <2>1, Zenon DEF IInv, NoneLost
    <2> QED BY <1>1, <2>2, <2>3, <2>4, <2>5, Zenon DEF IInv
  <1> QED BY <1>2, <1>4, <1>5, Zenon

LEMMA FlushStepKeeps ==
    ASSUME IInv, FlushStep
    PROVE  IInv'
  <1>1. /\ op = "flush" /\ min' = min /\ max' = max /\ use_limit' = use_limit
        /\ alloc' = alloc /\ leaked' = leaked /\ held' = held
    BY Zenon DEF FlushStep, limits
  <1>2. CASE /\ resources = <<>> \/ MayFail
             /\ resources' = IF resources = <<>> THEN resources ELSE Tail(resources)
             /\ FlushEmpty /\ UNCHANGED <<free, bound, use, count>>
    <2>1. op' = "idle"
      BY <1>2, Zenon DEF FlushEmpty
    <2>2. /\ min \in Nat /\ max \in Nat /\ (max # 0 => min <= max)
          /\ use_limit \in Nat /\ leaked \in Nat
      BY Zenon DEF IInv, TypeOK, MinBelowMax
    <2>3. Popped(resources, resources') /\ Popped(free, free')
      BY <1>2, Zenon DEF Popped
    <2> QED BY <1>1, <1>2, <2>1, <2>2, <2>3, QuietStep, Zenon DEF Ops
  <1>3. ASSUME resources # <<>>, resources' = Tail(resources),
               Destroyed(Head(resources)), op' = op
        PROVE  IInv'
    <2>1. /\ resources \in Seq(Structs) /\ IsInjective(resources)
          /\ Range(resources) \subseteq bound \ held /\ held \subseteq bound
          /\ use \in [Structs -> Nat]
            /\ bound \subseteq Structs
      BY Zenon DEF IInv, TypeOK, Ownership
    <2>2. PICK s : s = Head(resources)
      BY Zenon
    <2>3. /\ s \in Range(resources) /\ resources' \in Seq(Structs)
          /\ IsInjective(resources') /\ Range(resources') = Range(resources) \ {s}
      BY <1>3, <2>1, <2>2, PopFacts, Zenon
    <2>4. Destroyed(s)
      BY <1>3, <2>2, Zenon DEF Destroyed
    <2>5. s \in bound
      BY <2>1, <2>3, Zenon
    <2>6. /\ bound' = bound \ {s}
          /\ free' \in Seq(Structs) /\ IsInjective(free')
          /\ Range(free') \subseteq alloc \ bound'
          /\ count' \in Nat /\ count' = Cardinality(bound')
          /\ use' = [use EXCEPT ![s] = 0]
      BY <1>1, <2>4, <2>5, DestroyedFacts, Zenon
    <2>7. TypeOK'
      BY <1>1, <1>3, <2>1, <2>3, <2>6, Zenon DEF IInv, TypeOK
    <2>8. Ownership'
      BY <1>1, <2>1, <2>3, <2>6, Zenon DEF IInv, Ownership
    <2>9. CountIsBound' /\ MinBelowMax'
      BY <1>1, <2>6, Zenon DEF IInv, CountIsBound, MinBelowMax
    <2>10. NoneLost'
      BY <1>1, <1>3, <2>1, <2>3, <2>6, Zenon DEF IInv, NoneLost
    <2> QED BY <1>1, <1>3, <2>7, <2>8, <2>9, <2>10, Zenon DEF IInv
  <1> QED BY <1>2, <1>3, Zenon DEF FlushStep

(* The resources ib_resource_pool_destroy took, and the ones it left.      *)
LEMMA DestroyFacts ==
    ASSUME NEW S, NEW q \in Seq(S), IsInjective(q), NEW n \in 0..Len(q)
    PROVE  LET done == SubSeq(q, 1, n)
               left == SubSeq(q, n + 2, Len(q)) IN
           /\ left \in Seq(S) /\ IsInjective(left)
           /\ Range(left) \subseteq Range(q) \ Range(done)
           /\ Range(done) \subseteq Range(q)
  <1> DEFINE done == SubSeq(q, 1, n)
             left == SubSeq(q, n + 2, Len(q))
  <1>1. Len(q) \in Nat /\ DOMAIN q = 1..Len(q) /\ n \in Nat /\ n <= Len(q)
    BY LenProperties
  <1>2. /\ DOMAIN done = 1..n /\ \A i \in 1..n : done[i] = q[i]
    BY <1>1, SubSeqProperties, LenProperties
  <1>3. PICK m \in Int : m = n + 2
    BY <1>1
  <1>4. \A i \in m..Len(q) : q[i] \in S
    BY <1>1, <1>3, ElementOfSeq
  <1>5. /\ left \in Seq(S)
        /\ Len(left) = IF m <= Len(q) THEN Len(q) - m + 1 ELSE 0
        /\ \A i \in 1..(Len(q) - m + 1) : left[i] = q[m + i - 1]
    <2>1. left = SubSeq(q, m, Len(q))
      BY <1>3, Zenon
    <2> HIDE DEF left
    <2>2. Len(q) \in Int
      BY <1>1
    <2>3. PICK k \in Int : k = Len(q)
      BY <2>2
    <2>4. /\ SubSeq(q, m, k) \in Seq(S)
          /\ Len(SubSeq(q, m, k)) = IF m <= k THEN k - m + 1 ELSE 0
          /\ \A i \in 1..(k - m + 1) : SubSeq(q, m, k)[i] = q[m + i - 1]
      BY <1>4, <2>3, SubSeqProperties
    <2> QED BY <2>1, <2>3, <2>4, Zenon
  <1> HIDE DEF done, left
  <1>6. DOMAIN left = 1..Len(left) /\ Len(left) \in Nat
    BY <1>5, LenProperties, Zenon
  <1>7. \A i \in 1..Len(left) :
           left[i] = q[m + i - 1] /\ m + i - 1 \in 1..Len(q) /\ m + i - 1 > n
    <2> SUFFICES ASSUME NEW i \in 1..Len(left)
                 PROVE  left[i] = q[m + i - 1] /\ m + i - 1 \in 1..Len(q) /\ m + i - 1 > n
      BY Zenon
    <2>1. PICK k \in Nat : k = Len(q)
      BY <1>1
    <2>2. PICK l \in Nat : l = Len(left)
      BY <1>6
    <2>3. l = (IF m <= k THEN k - m + 1 ELSE 0) /\ i \in 1..l
      BY <1>5, <2>1, <2>2, Zenon
    <2>4. i \in 1..(k - m + 1) /\ m + i - 1 \in 1..k /\ m + i - 1 > n
      BY <1>3, <2>1, <2>2, <2>3, SMT
    <2> QED BY <1>5, <2>1, <2>4, Zenon
  <1>8. IsInjective(left)
    <2> SUFFICES ASSUME NEW a \in 1..Len(left), NEW b \in 1..Len(left), left[a] = left[b]
                 PROVE  a = b
      BY <1>6, Zenon DEF IsInjective
    <2>1. q[m + a - 1] = q[m + b - 1] /\ m + a - 1 \in 1..Len(q) /\ m + b - 1 \in 1..Len(q)
      BY <1>7, Zenon
    <2>2. m + a - 1 = m + b - 1
      BY <1>1, <2>1, Zenon DEF IsInjective
    <2> QED BY <1>3, <1>6, <2>2
  <1>9. Range(done) \subseteq Range(q)
    BY <1>1, <1>2 DEF Range
  <1>10. Range(left) \subseteq Range(q) \ Range(done)
    <2>1. ASSUME NEW i \in 1..Len(left), NEW j \in 1..n PROVE left[i] # done[j]
      <3>1. /\ left[i] = q[m + i - 1] /\ m + i - 1 \in 1..Len(q) /\ m + i - 1 # j
            /\ j \in 1..Len(q) /\ done[j] = q[j]
        BY <1>1, <1>2, <1>3, <1>7
      <3> QED BY <1>1, <3>1, Zenon DEF IsInjective
    <2>2. \A i \in 1..Len(left) : left[i] \in Range(q)
      BY <1>1, <1>7, Zenon DEF Range
    <2> QED BY <1>2, <1>6, <2>1, <2>2, Zenon DEF Range
  <1> QED BY <1>5, <1>8, <1>9, <1>10, Zenon DEF done, left

LEMMA PoolDestroyKeeps ==
    ASSUME IInv, PoolDestroy
    PROVE  IInv'
  <1>1. /\ op' = "destroyed"
        /\ UNCHANGED <<free, alloc, held, use, count, min, max, use_limit, leaked>>
    BY Zenon DEF PoolDestroy, limits
  <1>2. /\ resources \in Seq(Structs) /\ IsInjective(resources)
        /\ Range(resources) \subseteq bound \ held /\ held \subseteq bound
    BY Zenon DEF IInv, Ownership, TypeOK
  <1>3. PICK n \in 0..Len(resources) :
          /\ bound' = bound \ Range(SubSeq(resources, 1, n))
          /\ resources' = SubSeq(resources, n + 2, Len(resources))
    BY Zenon DEF PoolDestroy
  <1>4. /\ resources' \in Seq(Structs) /\ IsInjective(resources')
        /\ Range(resources') \subseteq bound' \ held
        /\ bound' \subseteq bound /\ held \subseteq bound'
    BY <1>2, <1>3, DestroyFacts, Zenon
  <1>5. TypeOK'
    BY <1>1, <1>4, Zenon DEF IInv, TypeOK, Ops
  <1>6. Ownership'
    BY <1>1, <1>4, Zenon DEF IInv, Ownership
  <1>7. CountIsBound' /\ MinBelowMax' /\ NoneLost'
    BY <1>1, Zenon DEF IInv, CountIsBound, MinBelowMax, NoneLost
  <1> QED BY <1>1, <1>5, <1>6, <1>7, Zenon DEF IInv

(* The calls and loop steps that only move op and the limits. *)
LEMMA ControlKeeps ==
    ASSUME IInv,
           \/ PoolCreate \/ FillDone \/ SetMin \/ SetMax \/ SetUseLimit
           \/ FlushStart \/ FlushDone \/ AcquireFailed
    PROVE  IInv'
  <1>1. /\ min \in Nat /\ max \in Nat /\ (max # 0 => min <= max)
        /\ use_limit \in Nat /\ leaked \in Nat
    BY Zenon DEF IInv, TypeOK, MinBelowMax
  <1>2. CASE PoolCreate
    <2>1. min' \in Nat /\ max' \in Nat /\ (max' # 0 => min' <= max')
      BY <1>2, PoolAssumption DEF PoolCreate, PoolAssumption
    <2> QED BY <1>1, <1>2, <2>1, QuietStep, Zenon DEF PoolCreate, Ops, Popped, queues
  <1>3. CASE FillDone
    BY <1>1, <1>3, QuietStep, Zenon DEF FillDone, Ops, limits, Popped, queues
  <1>4. CASE SetMin
    <2>1. min' \in Nat /\ max' = max /\ (max' # 0 => min' <= max')
      BY <1>1, <1>4, PoolAssumption DEF SetMin, PoolAssumption
    <2> QED BY <1>1, <1>4, <2>1, QuietStep, Zenon DEF SetMin, Ops, Popped, queues
  <1>5. CASE SetMax
    <2>1. max' \in Nat /\ min' = min /\ (max' # 0 => min' <= max')
      BY <1>1, <1>5, PoolAssumption DEF SetMax, PoolAssumption
    <2> QED BY <1>1, <1>5, <2>1, QuietStep, Zenon DEF SetMax, Ops, Popped, queues
  <1>6. CASE SetUseLimit
    <2>1. use_limit' \in Nat
      BY <1>6, PoolAssumption, Zenon DEF SetUseLimit, PoolAssumption
    <2> QED BY <1>1, <1>6, <2>1, QuietStep, Zenon DEF SetUseLimit, Ops, Popped, queues
  <1>7. CASE FlushStart
    BY <1>1, <1>7, QuietStep, Zenon DEF FlushStart, Ops, limits, Popped, queues
  <1>8. CASE FlushDone
    BY <1>1, <1>8, QuietStep, Zenon DEF FlushDone, Ops, limits, Popped, queues
  <1>9. CASE AcquireFailed
    <2>1. /\ UNCHANGED <<op, held, use, min, max, use_limit>> /\ op = "idle"
          /\ \/ NotCreated /\ UNCHANGED resources
             \/ /\ MayFail /\ resources # <<>> /\ resources' = Tail(resources)
                /\ UNCHANGED <<free, alloc, bound, count, leaked>>
      BY <1>9, Zenon DEF AcquireFailed, limits
    <2>2. /\ UNCHANGED <<alloc, bound, count>> /\ leaked' \in Nat /\ MayFail
          /\ Popped(resources, resources') /\ Popped(free, free')
      BY <1>1, <2>1, NotCreatedFacts, Zenon DEF Popped
    <2> QED BY <1>1, <2>1, <2>2, QuietStep, Zenon DEF Ops
  <1> QED BY <1>2, <1>3, <1>4, <1>5, <1>6, <1>7, <1>8, <1>9, Zenon

LEMMA NextKeeps == IInv /\ [Next]_vars => IInv'
  <1> SUFFICES ASSUME IInv, [Next]_vars PROVE IInv'
    BY Zenon
  <1>1. CASE UNCHANGED vars
    BY <1>1, Zenon DEF vars, IInv, TypeOK, Ownership, CountIsBound, MinBelowMax,
                NoneLost
  <1>2. CASE FillStep
    BY <1>2, FillStepKeeps, Zenon
  <1>3. CASE Acquire
    BY <1>3, AcquireKeeps, Zenon
  <1>4. CASE Release
    BY <1>4, ReleaseKeeps, Zenon
  <1>5. CASE FlushStep
    BY <1>5, FlushStepKeeps, Zenon
  <1>6. CASE PoolDestroy
    BY <1>6, PoolDestroyKeeps, Zenon
  <1>7. CASE \/ PoolCreate \/ FillDone \/ SetMin \/ SetMax \/ SetUseLimit
             \/ FlushStart \/ FlushDone \/ AcquireFailed
    BY <1>7, ControlKeeps, Zenon
  <1> QED BY <1>1, <1>2, <1>3, <1>4, <1>5, <1>6, <1>7, Zenon DEF Next

-----------------------------------------------------------------------------
(* IInv is an inductive invariant of the resource pool. *)
THEOREM PoolInductive == Spec => []IInv
  <1> QED BY InitIInv, NextKeeps, PTL DEF Spec

(* rp->count is exact: whatever create_fn, the allocations and the pushes  *)
(* do, it is the number of user resources that the pool refers to.         *)
THEOREM PoolCountExact == Spec => []CountIsBound
  <1>1. IInv => CountIsBound
    BY Zenon DEF IInv
  <1> QED BY <1>1, PoolInductive, PTL

(* A structure has one owner. *)
THEOREM PoolOwnership == Spec => []Ownership
  <1>1. IInv => Ownership
    BY Zenon DEF IInv
  <1> QED BY <1>1, PoolInductive, PTL

(* The limits stay compatible through any sequence of calls. *)
THEOREM PoolLimits == Spec => []MinBelowMax
  <1>1. IInv => MinBelowMax
    BY Zenon DEF IInv
  <1> QED BY <1>1, PoolInductive, PTL

(* An unused pool can serve ib_resource_acquire: if the count has reached  *)
(* the maximum there are bound structures, none is held, so one is ready.  *)
THEOREM PoolServes == Spec => []NotWedged
  <1>1. IInv => NotWedged
    <2> SUFFICES ASSUME IInv, op = "idle", held = {}, resources = <<>>,
                        bound \subseteq Range(resources)
                 PROVE  MayCreate
      BY Zenon DEF NotWedged
    <2>1. Range(resources) = {}
      <3>1. DOMAIN <<>> = {}
        BY EmptySeq, LenProperties
      <3> QED BY <3>1, Zenon DEF Range
    <2>2. bound = {}
      BY <2>1, Zenon
    <2>3. count = 0
      BY <2>2, FS_EmptySet, Zenon DEF IInv, CountIsBound
    <2> QED BY <2>3 DEF MayCreate, IInv, TypeOK
  <1> QED BY <1>1, PoolInductive, PTL

(* No step creates a resource beyond the maximum: ib_resource_acquire      *)
(* compares with it, and fill_to_min stops at a minimum that is below it.  *)
THEOREM PoolGrowth == Spec => GrowthBounded
  <1>1. IInv /\ [Next]_vars => [count' > count => max = 0 \/ count' <= max]_vars
    <2> SUFFICES ASSUME IInv, Next, count' > count
                 PROVE  max = 0 \/ count' <= max
      BY Zenon
    <2>1. count \in Nat /\ min \in Nat /\ max \in Nat /\ (max # 0 => min <= max)
      BY Zenon DEF IInv, TypeOK, MinBelowMax
    <2>2. CASE FillStep
      <3>1. min > count /\ (count' = count + 1 \/ count' = count)
        BY <2>2, Zenon DEF FillStep, FillGuard, Created, NotCreated
      <3> QED BY <2>1, <3>1
    <2>3. CASE Acquire
      <3>1. count' = count \/ (MayCreate /\ count' = count + 1)
        BY <2>3, Zenon DEF Acquire, AcquireReady, AcquireNew, Created
      <3> QED BY <2>1, <3>1 DEF MayCreate
    <2>4. CASE Release \/ FlushStep
      <3>1. count' = count \/ count' = count - 1
        BY <2>4, Zenon DEF Release, FlushStep, Destroyed
      <3> QED BY <2>1, <3>1
    <2>5. CASE ~(FillStep \/ Acquire \/ Release \/ FlushStep)
      <3>1. count' = count
        BY <2>5, Zenon DEF Next, PoolCreate, FillDone, AcquireFailed, NotCreated, SetMin,
                    SetMax, SetUseLimit, FlushStart, FlushDone, PoolDestroy
      <3> QED BY <2>1, <3>1
    <2> QED BY <2>2, <2>3, <2>4, <2>5, Zenon
  <1> QED BY <1>1, PoolInductive, PTL DEF Spec, GrowthBounded

-----------------------------------------------------------------------------
(* The Lua stacks.  Every step of the Lua module is a step of the pool or  *)
(* leaves the pool alone, so that all of the above holds of its pool.      *)
LEMMA LuaStepIsPoolStep == [LuaNext]_luaVars => [Next]_vars
  BY Zenon DEF LuaNext, luaVars, InitPool, InitAcquire, InitFails, Directive, AcquireState,
         ReleaseState, ContextClose, CloseFlush, CloseFlushing, Destroy, Next

(* The pool of Lua stacks keeps the invariant of the resource pool through *)
(* the module's initialisation, configuration, flush and shutdown.         *)
THEOREM LuaPoolInductive == LuaSpec => []IInv
  <1>1. LuaInit => IInv
    BY InitIInv, Zenon DEF LuaInit
  <1>2. IInv /\ [LuaNext]_luaVars => IInv'
    BY LuaStepIsPoolStep, NextKeeps, Zenon
  <1> QED BY <1>1, <1>2, PTL DEF LuaSpec

(* The limit of postuse_fn.  A step that leaves the limit alone keeps every*)
(* structure within it: only an acquire raises a use, and it takes a       *)
(* structure that was ready, or a new one.                                 *)
WithinLimit(t) ==
    \/ t \in bound /\ use'[t] = use[t] /\ (t \in Range(resources') => t \in Range(resources))
    \/ use'[t] <= use_limit
    \/ use'[t] <= use_limit + 1 /\ t \notin Range(resources')

LEMMA UseFrame ==
    ASSUME IInv, IInv', UseBounded, use_limit' = use_limit, \A t \in bound' : WithinLimit(t)
    PROVE  UseBounded'
  <1>1. use_limit \in Nat
    BY Zenon DEF IInv, TypeOK
  <1>2. \A t \in bound' : use'[t] \in Nat
    BY Zenon DEF IInv, TypeOK
  <1> SUFFICES ASSUME NEW t \in bound'
               PROVE  use'[t] <= IF t \in Range(resources') THEN use_limit ELSE use_limit + 1
    BY Zenon DEF UseBounded
  <1>3. PICK u \in Nat : u = use'[t]
    BY <1>2, Zenon
  <1>4. CASE /\ t \in bound /\ use'[t] = use[t]
             /\ t \in Range(resources') => t \in Range(resources)
    <2>1. u <= IF t \in Range(resources) THEN use_limit ELSE use_limit + 1
      BY <1>3, <1>4, Zenon DEF UseBounded
    <2> QED BY <1>1, <1>3, <1>4, <2>1
  <1>5. CASE u <= use_limit
    BY <1>1, <1>3, <1>5
  <1>6. CASE u <= use_limit + 1 /\ t \notin Range(resources')
    BY <1>3, <1>6, Zenon
  <1> QED BY <1>3, <1>4, <1>5, <1>6, Zenon DEF WithinLimit

LEMMA UseStep ==
    ASSUME IInv, UseBounded, Next, use_limit' = use_limit
    PROVE  UseBounded'
  <1>1. IInv'
    BY NextKeeps, Zenon
  <1>2. /\ use \in [Structs -> Nat] /\ use_limit \in Nat /\ bound \subseteq Structs
        /\ resources \in Seq(Structs) /\ IsInjective(resources)
        /\ Range(resources) \subseteq bound \ held /\ held \subseteq bound
    BY Zenon DEF IInv, TypeOK, Ownership
  <1> SUFFICES ASSUME NEW t \in bound' PROVE WithinLimit(t)
    BY <1>1, UseFrame, Zenon
  <1>3. t \in Structs /\ 0 <= use_limit /\ 1 <= use_limit + 1
    <2>1. t \in Structs
      BY <1>1, Zenon DEF IInv, TypeOK
    <2> QED BY <1>2, <2>1
  <1>4. ASSUME use' = use, bound' \subseteq bound, Range(resources') \subseteq Range(resources)
        PROVE  WithinLimit(t)
    BY <1>4, Zenon DEF WithinLimit
  <1>5. CASE FillStep
    <2>1. CASE NotCreated /\ UNCHANGED <<resources, use>>
      BY <1>4, <2>1, Zenon DEF NotCreated
    <2>2. ASSUME NEW s \in Structs, Created(s), use' = [use EXCEPT ![s] = 0],
                 PushBack(resources, s, resources')
          PROVE  WithinLimit(t)
      <3>1. s \notin bound /\ bound' = bound \cup {s}
        BY <1>5, <2>2, CreatedFacts, Zenon DEF FillStep
      <3>2. Range(resources') \in {Range(resources), Range(resources) \cup {s}}
        BY <1>2, <2>2, <3>1, PushFacts, Zenon
      <3>3. CASE t = s
        BY <1>2, <1>3, <2>2, <3>3, Zenon DEF WithinLimit
      <3>4. CASE t # s
        BY <1>2, <1>3, <2>2, <3>1, <3>2, <3>4, Zenon DEF WithinLimit
      <3> QED BY <3>3, <3>4, Zenon
    <2> QED BY <1>5, <2>1, <2>2, Zenon DEF FillStep
  <1>6. CASE Acquire
    <2>1. PICK s \in Structs : AcquireReady(s) \/ AcquireNew(s)
      BY <1>6, Zenon DEF Acquire
    <2>2. CASE AcquireReady(s)
      <3>1. /\ s \in Range(resources) /\ Range(resources') = Range(resources) \ {s}
            /\ bound' = bound /\ use' = [use EXCEPT ![s] = @ + 1]
        BY <1>2, <2>2, PopFacts, Zenon DEF AcquireReady
      <3>2. CASE t = s
        <4>1. use'[t] = use[t] + 1 /\ use[t] \in Nat
          BY <1>2, <1>3, <3>1, <3>2, Zenon
        <4>2. use[t] <= use_limit
          BY <3>1, <3>2, Zenon DEF UseBounded
        <4>3. use'[t] <= use_limit + 1
          BY <1>2, <4>1, <4>2
        <4> QED BY <3>1, <3>2, <4>3, Zenon DEF WithinLimit
      <3>3. CASE t # s
        BY <1>2, <1>3, <3>1, <3>3, Zenon DEF WithinLimit
      <3> QED BY <3>2, <3>3, Zenon
    <2>3. CASE AcquireNew(s)
      <3>1. s \notin bound /\ bound' = bound \cup {s}
        BY <1>6, <2>3, CreatedFacts, Zenon DEF Acquire, AcquireNew
      <3>2. use' = [use EXCEPT ![s] = 1] /\ resources' = resources
        BY <2>3, Zenon DEF AcquireNew
      <3>3. CASE t = s
        BY <1>2, <1>3, <3>1, <3>2, <3>3, Zenon DEF WithinLimit
      <3>4. CASE t # s
        BY <1>2, <1>3, <3>1, <3>2, <3>4, Zenon DEF WithinLimit
      <3> QED BY <3>3, <3>4, Zenon
    <2> QED BY <2>1, <2>2, <2>3, Zenon
  <1>7. CASE Release
    <2>1. PICK s \in held :
            \/ Destroyed(s) /\ UNCHANGED resources
            \/ /\ ~TooOld(s) /\ PushBack(resources, s, resources')
               /\ UNCHANGED <<bound, use>>
      BY <1>7, Zenon DEF Release
    <2>2. s \in bound /\ s \in Structs /\ s \notin Range(resources)
      BY <1>2, <2>1, Zenon
    <2>3. CASE Destroyed(s) /\ UNCHANGED resources
      BY <1>2, <1>3, <2>2, <2>3, Zenon DEF Destroyed, WithinLimit
    <2>4. CASE ~TooOld(s) /\ PushBack(resources, s, resources') /\ UNCHANGED <<bound, use>>
      <3>1. Range(resources') \in {Range(resources), Range(resources) \cup {s}}
        BY <1>2, <2>2, <2>4, PushFacts, Zenon
      <3>2. PICK u \in Nat : u = use[s]
        BY <1>2, <2>2, Zenon
      <3>3. use'[s] <= use_limit
        BY <1>2, <2>4, <3>2 DEF TooOld
      <3> QED BY <2>4, <3>1, <3>3, Zenon DEF WithinLimit
    <2> QED BY <2>1, <2>3, <2>4, Zenon
  <1>8. CASE FlushStep
    <2>1. CASE resources # <<>> /\ resources' = Tail(resources) /\ Destroyed(Head(resources))
      <3>1. PICK s : s = Head(resources)
        BY Zenon
      <3>2. s \in Structs /\ Range(resources') = Range(resources) \ {s}
        BY <1>2, <2>1, <3>1, PopFacts, Zenon
      <3>3. bound' = bound \ {s} /\ use' = [use EXCEPT ![s] = 0]
        BY <2>1, <3>1, Zenon DEF Destroyed
      <3> QED BY <1>2, <1>3, <3>2, <3>3, Zenon DEF WithinLimit
    <2>2. CASE /\ resources' = IF resources = <<>> THEN resources ELSE Tail(resources)
               /\ UNCHANGED <<bound, use>>
      <3>1. Range(resources') \subseteq Range(resources)
        BY <1>2, <2>2, PopFacts, Zenon
      <3> QED BY <1>4, <2>2, <3>1, Zenon
    <2> QED BY <1>8, <2>1, <2>2, Zenon DEF FlushStep
  <1>9. CASE PoolDestroy
    <2>1. PICK n \in 0..Len(resources) :
            /\ bound' = bound \ Range(SubSeq(resources, 1, n))
            /\ resources' = SubSeq(resources, n + 2, Len(resources))
      BY <1>9, Zenon DEF PoolDestroy
    <2>2. Range(resources') \subseteq Range(resources)
      BY <1>2, <2>1, DestroyFacts, Zenon
    <2> QED BY <1>4, <1>9, <2>1, <2>2, Zenon DEF PoolDestroy
  <1>10. CASE AcquireFailed
    <2>1. Range(resources') \subseteq Range(resources)
      BY <1>2, <1>10, PopFacts, Zenon DEF AcquireFailed
    <2> QED BY <1>4, <1>10, <2>1, Zenon DEF AcquireFailed, NotCreated
  <1>11. CASE \/ PoolCreate \/ FillDone \/ SetMin \/ SetMax \/ SetUseLimit
              \/ FlushStart \/ FlushDone
    BY <1>4, <1>11, Zenon DEF PoolCreate, FillDone, SetMin, SetMax, SetUseLimit, FlushStart,
                       FlushDone, queues
  <1> QED BY <1>5, <1>6, <1>7, <1>8, <1>9, <1>10, <1>11, Zenon DEF Next

(* The flush ends with no stack left, so the stacks that fill_to_min then  *)
(* creates are all new and unused; the pool is refilled only by that flush,*)
(* and no directive changes a limit after it.                              *)
LuaInv ==
    /\ phase = "running" => old = {} /\ UseBounded
    /\ op = "flush" => phase = "flushing"
    /\ op = "refill" => phase = "flushing" /\ old = {} /\ UseBounded

LEMMA LuaStepKeeps == IInv /\ LuaInv /\ [LuaNext]_luaVars => LuaInv'
  <1> SUFFICES ASSUME IInv, LuaInv, [LuaNext]_luaVars PROVE LuaInv'
    BY Zenon
  <1>1. CASE UNCHANGED luaVars
    BY <1>1, Zenon DEF luaVars, vars, LuaInv, UseBounded
  <1>2. CASE InitPool
    BY <1>2, Zenon DEF InitPool, PoolCreate, FillStep, FillFailed, FillDone, LuaInv
  <1>3. CASE InitAcquire \/ InitFails \/ ContextClose
    BY <1>3, Zenon DEF InitAcquire, InitFails, ContextClose, Acquire, AcquireFailed,
                  Release, LuaInv
  <1>4. CASE Directive
    BY <1>4, Zenon DEF Directive, SetMin, SetMax, SetUseLimit, LuaInv
  <1>5. CASE AcquireState \/ ReleaseState
    <2>1. /\ op = "idle" /\ op' = "idle" /\ phase' = phase /\ use_limit' = use_limit
          /\ Next
      BY <1>5, Zenon DEF AcquireState, ReleaseState, Acquire, AcquireFailed, Release,
                    limits, Next
    <2>2. phase = "running" => old' = {}
      BY <1>5, Zenon DEF AcquireState, ReleaseState, Ages, LuaInv
    <2>3. phase = "running" => UseBounded'
      BY <2>1, UseStep, Zenon DEF LuaInv
    <2> QED BY <2>1, <2>2, <2>3, Zenon DEF LuaInv
  <1>6. CASE CloseFlush
    BY <1>6, Zenon DEF CloseFlush, FlushStart, LuaInv
  <1>7. CASE CloseFlushing
    <2>1. phase = "flushing" /\ old' = old \cap bound'
      BY <1>7, Zenon DEF CloseFlushing, Ages
    <2>2. phase' = IF op' # "idle" THEN "flushing"
                   ELSE IF op = "refill" /\ ~FillGuard THEN "running" ELSE "off"
      BY <1>7, <2>1, Zenon DEF CloseFlushing
    <2>3. CASE FlushDone
      <3>1. op' = "refill" /\ bound' = bound /\ op = "flush" /\ count = 0
        BY <2>3, Zenon DEF FlushDone
      <3>2. bound = {}
        <4>1. Cardinality(bound) = 0 /\ IsFiniteSet(bound)
          BY <3>1, BoundFinite, Zenon DEF IInv, CountIsBound
        <4> QED BY <4>1, FS_EmptySet, Zenon
      <3>3. UseBounded'
        BY <3>1, <3>2, Zenon DEF UseBounded
      <3> QED BY <2>1, <2>2, <3>1, <3>2, <3>3, Zenon DEF LuaInv
    <2>4. CASE FlushStep
      <3>1. op = "flush" /\ op' \in {"flush", "idle"}
        BY <2>4, Zenon DEF FlushStep, FlushEmpty
      <3> QED BY <2>2, <3>1, Zenon DEF LuaInv
    <2>5. CASE FillStep \/ FillDone
      <3>1. op \in {"create", "refill"} /\ op' \in {op, "failed", "idle"}
        BY <2>5, Zenon DEF FillStep, FillDone, FillFailed
      <3>2. op = "refill" => old' = {}
        BY <2>1, Zenon DEF LuaInv
      <3>3. use_limit' = use_limit /\ Next
        BY <2>5, Zenon DEF FillStep, FillDone, limits, Next
      <3>4. op = "refill" => UseBounded'
        BY <3>3, UseStep, Zenon DEF LuaInv
      <3> QED BY <2>2, <3>1, <3>2, <3>4, Zenon
        DEF LuaInv
    <2> QED BY <1>7, <2>3, <2>4, <2>5, Zenon DEF CloseFlushing
  <1>8. CASE Destroy
    BY <1>8, Zenon DEF Destroy, PoolDestroy, LuaInv
  <1> QED BY <1>1, <1>2, <1>3, <1>4, <1>5, <1>6, <1>7, <1>8, Zenon DEF LuaNext

LEMMA LuaInductive == LuaSpec => []LuaInv
  <1>1. LuaInit => LuaInv
    BY Zenon DEF LuaInit, Init, LuaInv
  <1> QED BY <1>1, LuaStepKeeps, LuaPoolInductive, PTL DEF LuaSpec

(* No transaction runs in a Lua state that lacks a part of the             *)
(* configuration: every stack that existed when the main context was       *)
(* closed is destroyed by the flush, for any limits, any failure and any   *)
(* sequence of acquires and releases before.                               *)
THEOREM LuaStacksFresh == LuaSpec => []NoOldStack
  <1>1. LuaInv => NoOldStack
    BY Zenon DEF LuaInv, NoOldStack
  <1> QED BY <1>1, LuaInductive, PTL

(* No transaction is given a Lua state for more than one use beyond        *)
(* LuaStackUseLimit, although that directive may lower the limit when      *)
(* states with more uses are ready: the flush destroys these, and no       *)
(* directive runs after it.                                                *)
THEOREM LuaUseBounded == LuaSpec => []RunsWithinLimit
  <1>1. LuaInv => RunsWithinLimit
    BY Zenon DEF LuaInv, RunsWithinLimit
  <1> QED BY <1>1, LuaInductive, PTL
=============================================================================
