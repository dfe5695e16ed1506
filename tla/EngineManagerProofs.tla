------------------------ MODULE EngineManagerProofs ------------------------
(***************************************************************************)
(* The safety of the engine manager, for any number of engines, names,     *)
(* connections and admins and any limit on the engines.                    *)
(***************************************************************************)
EXTENDS EngineManager, FiniteSetTheorems, TLAPS

USE EngineManagerAssumption

-----------------------------------------------------------------------------
(* The three kinds of references to an engine are finite sets.             *)
LEMMA RefsFinite ==
  ASSUME NEW e
  PROVE  /\ IsFiniteSet(NameRefs(e)) /\ Cardinality(NameRefs(e)) \in Nat
         /\ IsFiniteSet(ConnRefs(e)) /\ Cardinality(ConnRefs(e)) \in Nat
         /\ IsFiniteSet(DrainRefs(e)) /\ Cardinality(DrainRefs(e)) \in Nat
<1>1. /\ NameRefs(e) \in SUBSET Names
      /\ ConnRefs(e) \in SUBSET Conns
      /\ DrainRefs(e) \in SUBSET Admins
  BY Zenon DEF NameRefs, ConnRefs, DrainRefs
<1>2. IsFiniteSet(NameRefs(e)) /\ IsFiniteSet(ConnRefs(e)) /\ IsFiniteSet(DrainRefs(e))
  BY <1>1, FS_Subset, Zenon
<1>q. QED
  BY <1>2, FS_CardinalityType, Zenon

(* An engine has the count zero exactly when nothing refers to it.         *)
LEMMA ZeroIsUnreferenced ==
  ASSUME RefCountExact, NEW e \in engine_list
  PROVE  ref_count[e] = 0 <=> /\ NameRefs(e) = {}
                              /\ ConnRefs(e) = {}
                              /\ DrainRefs(e) = {}
<1>1. ref_count[e] = Cardinality(NameRefs(e)) + Cardinality(ConnRefs(e))
                       + Cardinality(DrainRefs(e))
  BY Zenon DEF RefCountExact
<1>2. /\ Cardinality(NameRefs(e)) = 0 <=> NameRefs(e) = {}
      /\ Cardinality(ConnRefs(e)) = 0 <=> ConnRefs(e) = {}
      /\ Cardinality(DrainRefs(e)) = 0 <=> DrainRefs(e) = {}
  BY RefsFinite, FS_EmptySet, Zenon
<1>q. QED
  BY <1>1, <1>2, RefsFinite

(* An engine that a name, a connection or a disable refers to is listed,   *)
(* and its count is positive.                                              *)
LEMMA ReferencedIsCounted ==
  ASSUME TypeOK, RefCountExact, NEW e \in Engines,
         NameRefs(e) # {} \/ ConnRefs(e) # {} \/ DrainRefs(e) # {}
  PROVE  e \in engine_list /\ ref_count[e] \in Nat \ {0}
<1>1. e \in engine_list
  BY Zenon DEF RefCountExact
<1>q. QED
  BY <1>1, ZeroIsUnreferenced, Zenon DEF TypeOK

(* The set of listed engines is finite, and so are its subsets.            *)
LEMMA ListFinite ==
  ASSUME NEW S \in SUBSET Engines
  PROVE  IsFiniteSet(S) /\ Cardinality(S) \in Nat
BY FS_Subset, FS_CardinalityType, Zenon

-----------------------------------------------------------------------------
(* Initially nothing refers to anything.                                   *)
LEMMA InitIInv == Init => IInv
<1> SUFFICES ASSUME Init PROVE IInv
  BY Zenon
<1> USE DEF Init
<1>1. TypeOK
  BY Zenon DEF TypeOK
<1>2. ControlInv
  BY Zenon DEF ControlInv
<1>3. \A e \in Engines : NameRefs(e) = {} /\ ConnRefs(e) = {} /\ DrainRefs(e) = {}
  BY Zenon DEF NameRefs, ConnRefs, DrainRefs
<1>4. RegistryInv
  BY Zenon DEF RegistryInv, LiveIsListed, SignalledIsRetired
<1>5. RefCountExact
  BY <1>3, Zenon DEF RefCountExact
<1>6. SlotsBounded
  BY FS_EmptySet DEF SlotsBounded
<1>q. QED
  BY <1>1, <1>2, <1>4, <1>5, <1>6, Zenon DEF IInv

(* Releasing an engine that is referred to keeps the counts natural.       *)
LEMMA ReleaseType ==
  ASSUME TypeOK, RefCountExact, NEW e \in Engines, EngineRelease(e),
         NameRefs(e) # {} \/ ConnRefs(e) # {} \/ DrainRefs(e) # {}
  PROVE  /\ ref_count' = [ref_count EXCEPT ![e] = ref_count[e] - 1]
         /\ ref_count' \in [Engines -> Nat]
         /\ ref_count'[e] = ref_count[e] - 1
         /\ \A x \in Engines \ {e} : ref_count'[x] = ref_count[x]
<1>1. e \in engine_list /\ ref_count[e] \in Nat \ {0}
  BY ReferencedIsCounted, Zenon
<1>q. QED
  BY <1>1 DEF EngineRelease, TypeOK

(* The destruction of inactive engines keeps the types.                    *)
LEMMA DestroyType ==
  ASSUME TypeOK, NEW list \in SUBSET Engines, NEW refs \in [Engines -> Nat],
         NEW told \in SUBSET Engines, DestroyInactive(list, refs, told)
  PROVE  /\ engine_list' \in SUBSET Engines
         /\ ref_count' \in [Engines -> Nat]
         /\ engine' \in [Engines -> {"free", "live", "leaked"}]
         /\ signalled' \in SUBSET Engines
BY Zenon DEF DestroyInactive, TypeOK

(* The counts register_engine leaves are natural numbers.                  *)
LEMMA PromoteType ==
  ASSUME TypeOK, RefCountExact, NEW n \in Names, NEW e \in Engines
  PROVE  Promote(e, name_to_engine[n]) \in [Engines -> Nat]
<1> DEFINE previous == name_to_engine[n]
<1>1. previous \in Engines => ref_count[previous] \in Nat \ {0}
  <2> SUFFICES ASSUME previous \in Engines PROVE ref_count[previous] \in Nat \ {0}
    BY Zenon
  <2>1. NameRefs(previous) # {}
    BY Zenon DEF NameRefs
  <2>q. QED
    BY <2>1, ReferencedIsCounted, Zenon
<1>q. QED
  BY <1>1 DEF Promote, TypeOK

-----------------------------------------------------------------------------
(* Every step preserves the types.                                         *)
LEMMA TypeStep == IInv /\ [Next]_vars => TypeOK'
<1> SUFFICES ASSUME IInv, [Next]_vars PROVE TypeOK'
  BY Zenon
<1> USE DEF managed
<1>a. TypeOK /\ ControlInv /\ RefCountExact
  BY Zenon DEF IInv
<1>b. CASE UNCHANGED vars
  BY <1>a, <1>b, Zenon DEF TypeOK, vars
<1>1. ASSUME NEW a \in Admins, NEW n \in Names, EngineCreate(a, n) PROVE TypeOK'
  BY <1>a, <1>1 DEF EngineCreate, DestroyInactive, TypeOK
<1>2. ASSUME NEW a \in Admins, CreateEngineError(a) PROVE TypeOK'
  BY <1>a, <1>2, Zenon DEF CreateEngineError, CreateReturn, TypeOK
<1>3. ASSUME NEW a \in Admins, CreateEngineParseError(a) PROVE TypeOK'
  BY <1>a, <1>3, Zenon DEF CreateEngineParseError, CreateReturn, TypeOK
<1>4. ASSUME NEW a \in Admins, RegisterEngine(a) PROVE TypeOK'
  <2>1. arg[a] \in Names
    BY <1>a, <1>4, Zenon DEF RegisterEngine, ControlInv
  <2> DEFINE previous == name_to_engine[arg[a]]
  <2>2. PICK e \in Engines :
          /\ name_to_engine' = [name_to_engine EXCEPT ![arg[a]] = e]
          /\ DestroyInactive(engine_list \cup {e}, Promote(e, previous),
                             signalled \cup ({previous} \ {NULL}))
    BY <1>4, Zenon DEF RegisterEngine
  <2>3. /\ Promote(e, previous) \in [Engines -> Nat]
        /\ engine_list \cup {e} \in SUBSET Engines
        /\ signalled \cup ({previous} \ {NULL}) \in SUBSET Engines
    BY <1>a, <2>1, PromoteType, Zenon DEF TypeOK
  <2>4. /\ engine_list' \in SUBSET Engines
        /\ ref_count' \in [Engines -> Nat]
        /\ engine' \in [Engines -> {"free", "live", "leaked"}]
        /\ signalled' \in SUBSET Engines
    BY <1>a, <2>2, <2>3, DestroyType, Zenon
  <2>5. name_to_engine' \in [Names -> Engines \cup {NULL}]
    BY <1>a, <2>1, <2>2, Zenon DEF TypeOK
  <2>q. QED
    BY <1>a, <1>4, <2>4, <2>5, Zenon DEF RegisterEngine, CreateReturn, TypeOK
<1>5. ASSUME NEW a \in Admins, RegisterEngineFails(a) PROVE TypeOK'
  BY <1>a, <1>5 DEF RegisterEngineFails, DestroyInactive, CreateReturn, TypeOK
<1>6. ASSUME NEW a \in Admins, Enable(a) PROVE TypeOK'
  BY <1>a, <1>6, Zenon DEF Enable, TypeOK
<1>7. ASSUME NEW a \in Admins, Disable(a) PROVE TypeOK'
  <2>1. Current \in SUBSET Engines
    BY <1>a DEF Current, TypeOK
  <2>q. QED
    BY <1>a, <1>7, <2>1, Zenon DEF Disable, TypeOK
<1>8. ASSUME NEW a \in Admins, DisableSignal(a) PROVE TypeOK'
  BY <1>a, <1>8 DEF DisableSignal, TypeOK
<1>9. ASSUME NEW a \in Admins, DisableRelease(a) PROVE TypeOK'
  <2>1. arg[a] \in Engines /\ DrainRefs(arg[a]) # {}
    BY <1>a, <1>9, Zenon DEF DisableRelease, ControlInv, TypeOK, DrainRefs
  <2>2. ref_count' \in [Engines -> Nat]
    BY <1>a, <1>9, <2>1, ReleaseType, Zenon DEF DisableRelease
  <2>q. QED
    BY <1>a, <1>9, <2>2, Zenon DEF DisableRelease, EngineRelease, TypeOK
<1>10. ASSUME NEW a \in Admins, DisableCleanup(a) PROVE TypeOK'
  BY <1>a, <1>10, Zenon DEF DisableCleanup, EngineCleanup, DestroyInactive, TypeOK
<1>11. ASSUME NEW a \in Admins, AdminCleanup(a) PROVE TypeOK'
  BY <1>a, <1>11, Zenon DEF AdminCleanup, EngineCleanup, DestroyInactive, TypeOK
<1>12. ASSUME NEW a \in Admins, EngineStatusFails(a) PROVE TypeOK'
  BY <1>a, <1>12, Zenon DEF EngineStatusFails, TypeOK
<1>13. ASSUME NEW c \in Conns, NEW n \in Names, EngineAcquire(c, n) PROVE TypeOK'
  BY <1>a, <1>13 DEF EngineAcquire, TypeOK
<1>14. ASSUME NEW c \in Conns, ConnRelease(c) \/ ConnReleaseDeferred(c)
       PROVE  TypeOK'
  <2>1. ConnDestroy(c) /\ closing' \in SUBSET Conns /\ deferred' \in SUBSET Conns
    BY <1>a, <1>14, Zenon DEF ConnRelease, ConnReleaseDeferred, TypeOK
  <2>2. conn[c] \in Engines /\ ConnRefs(conn[c]) # {}
    BY <1>a, <2>1, Zenon DEF ConnDestroy, TypeOK, ConnRefs
  <2>3. ref_count' \in [Engines -> Nat]
    BY <1>a, <2>1, <2>2, ReleaseType, Zenon DEF ConnDestroy
  <2>q. QED
    BY <1>a, <2>1, <2>3, Zenon DEF ConnDestroy, EngineRelease, TypeOK
<1>18. ASSUME NEW c \in Conns, ConnDefer(c) PROVE TypeOK'
  BY <1>a, <1>18, Zenon DEF ConnDefer, TypeOK
<1>15. ASSUME NEW c \in Conns, ConnCleanup(c) PROVE TypeOK'
  BY <1>a, <1>15, Zenon DEF ConnCleanup, EngineCleanup, DestroyInactive, TypeOK
<1>16. CASE ManagerDestroy
  BY <1>a, <1>16, Zenon DEF ManagerDestroy, TypeOK
<1>17. CASE ManagerCreate
  BY <1>a, <1>17, Zenon DEF ManagerCreate, TypeOK
<1>q. QED
  BY <1>b, <1>1, <1>2, <1>3, <1>4, <1>5, <1>6, <1>7, <1>8, <1>9, <1>10,
     <1>11, <1>12, <1>13, <1>14, <1>15, <1>16, <1>17,
     <1>18, Zenon DEF Next, AdminStep, CreateStep, DisableStep, ConnStep, SsnClose

-----------------------------------------------------------------------------
(* Every step preserves what the threads rely on: only the owner of the    *)
(* lock, or nobody, is creating.                                           *)
LEMMA ControlStep == IInv /\ [Next]_vars => ControlInv'
<1> SUFFICES ASSUME IInv, [Next]_vars PROVE ControlInv'
  BY Zenon
<1> USE DEF managed
<1>a. TypeOK /\ ControlInv
  BY Zenon DEF IInv
<1>b. CASE UNCHANGED vars
  BY <1>a, <1>b, Zenon DEF ControlInv, vars
<1>1. ASSUME NEW a \in Admins, NEW n \in Names, EngineCreate(a, n)
      PROVE  ControlInv'
  BY <1>a, <1>1 DEF EngineCreate, Unlocked, ControlInv, TypeOK
<1>2. ASSUME NEW a \in Admins, CreateStep(a) PROVE ControlInv'
  <2>1. pc[a] = "creating" /\ CreateReturn(a)
    BY <1>2, Zenon DEF CreateStep, CreateEngineError, CreateEngineParseError,
                RegisterEngine, RegisterEngineFails
  <2>q. QED
    BY <1>a, <2>1, Zenon DEF CreateReturn, ControlInv, TypeOK
<1>3. ASSUME NEW a \in Admins, Enable(a) \/ AdminCleanup(a) \/ EngineStatusFails(a)
      PROVE  ControlInv'
  BY <1>a, <1>3 DEF Enable, AdminCleanup, EngineCleanup, EngineStatusFails,
                    Unlocked, ControlInv, TypeOK
<1>4. ASSUME NEW a \in Admins, Disable(a) PROVE ControlInv'
  BY <1>a, <1>4, Zenon DEF Disable, Unlocked, ControlInv, TypeOK
<1>5. ASSUME NEW a \in Admins, DisableSignal(a) PROVE ControlInv'
  BY <1>a, <1>5, Zenon DEF DisableSignal, ControlInv, TypeOK
<1>6. ASSUME NEW a \in Admins, DisableRelease(a) PROVE ControlInv'
  BY <1>a, <1>6, Zenon DEF DisableRelease, EngineRelease, ControlInv, TypeOK
<1>7. ASSUME NEW a \in Admins, DisableCleanup(a) PROVE ControlInv'
  BY <1>a, <1>7, Zenon DEF DisableCleanup, EngineCleanup, ControlInv, TypeOK
<1>8. ASSUME NEW c \in Conns, ConnStep(c) PROVE ControlInv'
  BY <1>a, <1>8 DEF ConnStep, SsnClose, EngineAcquire, ConnRelease, ConnDefer,
                    ConnReleaseDeferred, ConnDestroy, EngineRelease,
                    ConnCleanup, EngineCleanup, ControlInv
<1>9. CASE ManagerDestroy
  BY <1>a, <1>9, Zenon DEF ManagerDestroy, ControlInv
<1>10. CASE ManagerCreate
  BY <1>a, <1>10, Zenon DEF ManagerCreate, ControlInv
<1>q. QED
  BY <1>b, <1>1, <1>2, <1>3, <1>4, <1>5, <1>6, <1>7, <1>8, <1>9, <1>10, Zenon
     DEF Next, AdminStep, DisableStep

-----------------------------------------------------------------------------
(* Destroying the inactive engines of a list whose counts are exact leaves *)
(* a list whose counts are exact.                                          *)
LEMMA DestroyCounts ==
  ASSUME NEW list \in SUBSET Engines, NEW refs \in [Engines -> Nat], NEW told,
         DestroyInactive(list, refs, told),
         \A e \in list : refs[e] = Cardinality(NameRefs(e)')
                                     + Cardinality(ConnRefs(e)')
                                     + Cardinality(DrainRefs(e)'),
         \A e \in Engines \ list :
           NameRefs(e)' = {} /\ ConnRefs(e)' = {} /\ DrainRefs(e)' = {}
  PROVE  RefCountExact'
<1>1. ASSUME NEW e \in Inactive(list, refs)
      PROVE  NameRefs(e)' = {} /\ ConnRefs(e)' = {} /\ DrainRefs(e)' = {}
  <2>1. /\ NameRefs(e)' \in SUBSET Names
        /\ ConnRefs(e)' \in SUBSET Conns
        /\ DrainRefs(e)' \in SUBSET Admins
    BY Zenon DEF NameRefs, ConnRefs, DrainRefs
  <2>2. /\ IsFiniteSet(NameRefs(e)') /\ Cardinality(NameRefs(e)') \in Nat
        /\ IsFiniteSet(ConnRefs(e)') /\ Cardinality(ConnRefs(e)') \in Nat
        /\ IsFiniteSet(DrainRefs(e)') /\ Cardinality(DrainRefs(e)') \in Nat
    BY <2>1, FS_Subset, FS_CardinalityType, Zenon
  <2>3. 0 = Cardinality(NameRefs(e)') + Cardinality(ConnRefs(e)')
              + Cardinality(DrainRefs(e)')
    BY <1>1, Zenon DEF Inactive
  <2>4. /\ Cardinality(NameRefs(e)') = 0
        /\ Cardinality(ConnRefs(e)') = 0
        /\ Cardinality(DrainRefs(e)') = 0
    BY <2>2, <2>3
  <2>q. QED
    BY <2>2, <2>4, FS_EmptySet, Zenon
<1>2. engine_list' = list \ Inactive(list, refs) /\ ref_count' = refs
  BY Zenon DEF DestroyInactive
<1>q. QED
  BY <1>1, <1>2, Zenon DEF RefCountExact

(* An address at which no engine lives is listed nowhere and referred to   *)
(* by nothing.                                                             *)
LEMMA FreeIsUnreferenced ==
  ASSUME IInv, NEW e \in Engines, engine[e] = "free"
  PROVE  /\ e \notin engine_list
         /\ NameRefs(e) = {} /\ ConnRefs(e) = {} /\ DrainRefs(e) = {}
<1>1. e \notin engine_list
  BY Zenon DEF IInv, RegistryInv, LiveIsListed
<1>q. QED
  BY <1>1, Zenon DEF IInv, RefCountExact

(* The cleanup keeps the counts exact.                                     *)
LEMMA CleanupCounts ==
  ASSUME IInv, DestroyInactive(engine_list, ref_count, signalled),
         UNCHANGED <<name_to_engine, conn, pending>>
  PROVE  RefCountExact'
<1>1. \A e : /\ NameRefs(e)' = NameRefs(e)
             /\ ConnRefs(e)' = ConnRefs(e)
             /\ DrainRefs(e)' = DrainRefs(e)
  BY Zenon DEF NameRefs, ConnRefs, DrainRefs
<1>2. engine_list \in SUBSET Engines /\ ref_count \in [Engines -> Nat]
  BY Zenon DEF IInv, TypeOK
<1>3. /\ \A e \in engine_list :
           ref_count[e] = Cardinality(NameRefs(e)') + Cardinality(ConnRefs(e)')
                            + Cardinality(DrainRefs(e)')
      /\ \A e \in Engines \ engine_list :
           NameRefs(e)' = {} /\ ConnRefs(e)' = {} /\ DrainRefs(e)' = {}
  BY <1>1, Zenon DEF IInv, RefCountExact
<1>q. QED
  BY <1>2, <1>3, DestroyCounts, Zenon

(* The steps that touch no count and no reference keep the counts exact.   *)
LEMMA QuietCounts ==
  ASSUME RefCountExact,
         UNCHANGED <<engine_list, ref_count, name_to_engine, conn, pending>>
  PROVE  RefCountExact'
BY DEF RefCountExact, NameRefs, ConnRefs, DrainRefs

(* register_engine trades one name's reference from engine to engine.      *)
LEMMA RegisterCounts ==
  ASSUME IInv, NEW a \in Admins, RegisterEngine(a)
  PROVE  RefCountExact'
<1>a. TypeOK /\ ControlInv /\ RefCountExact /\ RegistryInv
  BY Zenon DEF IInv
<1> DEFINE n == arg[a]
           previous == name_to_engine[n]
<1>1. n \in Names
  BY <1>a, Zenon DEF RegisterEngine, ControlInv
<1>2. PICK e \in Engines :
        /\ engine[e] = "free"
        /\ name_to_engine' = [name_to_engine EXCEPT ![n] = e]
        /\ DestroyInactive(engine_list \cup {e}, Promote(e, previous),
                           signalled \cup ({previous} \ {NULL}))
  BY Zenon DEF RegisterEngine
<1>3. /\ e \notin engine_list
      /\ NameRefs(e) = {} /\ ConnRefs(e) = {} /\ DrainRefs(e) = {}
  BY <1>2, FreeIsUnreferenced, Zenon
<1>4. \A x : ConnRefs(x)' = ConnRefs(x) /\ DrainRefs(x)' = DrainRefs(x)
  BY Zenon DEF RegisterEngine, CreateReturn, ConnRefs, DrainRefs
<1>5. name_to_engine \in [Names -> Engines \cup {NULL}]
  BY <1>a, Zenon DEF TypeOK
<1>6. NameRefs(e)' = {n}
  BY <1>1, <1>2, <1>3, <1>5, Zenon DEF NameRefs
<1>7. \A x \in Engines \ {e, previous} : NameRefs(x)' = NameRefs(x)
  BY <1>1, <1>2, <1>5, Zenon DEF NameRefs
<1>8. ASSUME NEW p \in Engines, p = previous
      PROVE  /\ p # e /\ p \in engine_list
             /\ n \in NameRefs(p)
             /\ NameRefs(p)' = NameRefs(p) \ {n}
  <2>1. n \in NameRefs(p)
    BY <1>1, <1>8, Zenon DEF NameRefs
  <2>2. p # e
    BY <2>1, <1>3, Zenon
  <2>3. p \in engine_list
    BY <2>1, <1>a, ReferencedIsCounted, Zenon
  <2>4. NameRefs(p)' = NameRefs(p) \ {n}
    BY <1>1, <1>2, <1>5, <1>8, <2>2, Zenon DEF NameRefs
  <2>q. QED
    BY <2>1, <2>2, <2>3, <2>4, Zenon
<1>9. Promote(e, previous) \in [Engines -> Nat]
  BY <1>a, <1>1, PromoteType, Zenon
<1>10. ASSUME NEW x \in engine_list \cup {e}
       PROVE  Promote(e, previous)[x] = Cardinality(NameRefs(x)')
                + Cardinality(ConnRefs(x)') + Cardinality(DrainRefs(x)')
  <2>1. CASE x = e
    <3>1. Cardinality(NameRefs(x)') = 1 /\ Cardinality({}) = 0
      BY <1>6, <2>1, FS_Singleton, FS_EmptySet, Zenon
    <3>2. Cardinality(ConnRefs(x)') = 0 /\ Cardinality(DrainRefs(x)') = 0
      BY <1>3, <1>4, <2>1, <3>1, Zenon
    <3>q. QED
      BY <2>1, <3>1, <3>2 DEF Promote
  <2>2. CASE x # e /\ x = previous
    <3>1. x \in Engines /\ x \in engine_list
      BY <2>2, <1>a, Zenon DEF TypeOK
    <3>2. Cardinality(NameRefs(x)') = Cardinality(NameRefs(x)) - 1
      <4>1. n \in NameRefs(x) /\ NameRefs(x)' = NameRefs(x) \ {n}
        BY <2>2, <3>1, <1>8, Zenon
      <4>2. IsFiniteSet(NameRefs(x))
        BY RefsFinite, Zenon
      <4>3. Cardinality(NameRefs(x) \ {n}) = Cardinality(NameRefs(x)) - 1
        BY <4>1, <4>2, FS_RemoveElement, Zenon
      <4>q. QED
        BY <4>1, <4>3, Zenon
    <3>3. ref_count[x] = Cardinality(NameRefs(x)) + Cardinality(ConnRefs(x))
                           + Cardinality(DrainRefs(x))
      BY <1>a, <3>1, Zenon DEF RefCountExact
    <3>4. Promote(e, previous)[x] = ref_count[x] - 1
      BY <2>2, <3>1, Zenon DEF Promote
    <3>q. QED
      BY <1>4, <3>2, <3>3, <3>4, RefsFinite
  <2>3. CASE x # e /\ x # previous
    <3>1. x \in Engines /\ x \in engine_list
      BY <2>3, <1>a, Zenon DEF TypeOK
    <3>2. Promote(e, previous)[x] = ref_count[x]
      BY <2>3, <3>1, Zenon DEF Promote
    <3>q. QED
      BY <1>a, <1>4, <1>7, <2>3, <3>1, <3>2, Zenon DEF RefCountExact
  <2>q. QED
    BY <2>1, <2>2, <2>3, Zenon
<1>11. ASSUME NEW x \in Engines \ (engine_list \cup {e})
       PROVE  NameRefs(x)' = {} /\ ConnRefs(x)' = {} /\ DrainRefs(x)' = {}
  BY <1>a, <1>4, <1>7, <1>8, Zenon DEF RefCountExact
<1>12. engine_list \cup {e} \in SUBSET Engines
  BY <1>a, Zenon DEF TypeOK
<1>q. QED
  BY <1>2, <1>9, <1>10, <1>11, <1>12, DestroyCounts, Zenon

(* A failed ib_hash_set lists an engine that nothing refers to.            *)
LEMMA RegisterFailsCounts ==
  ASSUME IInv, NEW a \in Admins, RegisterEngineFails(a)
  PROVE  RefCountExact'
<1>a. TypeOK /\ RefCountExact
  BY Zenon DEF IInv
<1>1. PICK e \in Engines :
        /\ engine[e] = "free"
        /\ DestroyInactive(engine_list \cup {e},
                           [ref_count EXCEPT ![e] = 0], signalled)
  BY Zenon DEF RegisterEngineFails
<1> DEFINE refs == [ref_count EXCEPT ![e] = 0]
<1>2. \A x : /\ NameRefs(x)' = NameRefs(x)
             /\ ConnRefs(x)' = ConnRefs(x)
             /\ DrainRefs(x)' = DrainRefs(x)
  BY Zenon DEF RegisterEngineFails, CreateReturn, NameRefs, ConnRefs, DrainRefs
<1>3. NameRefs(e) = {} /\ ConnRefs(e) = {} /\ DrainRefs(e) = {}
  BY <1>1, FreeIsUnreferenced, Zenon
<1>4. engine_list \cup {e} \in SUBSET Engines /\ refs \in [Engines -> Nat]
  BY <1>a, Zenon DEF TypeOK
<1>5. ASSUME NEW x \in engine_list \cup {e}
      PROVE  refs[x] = Cardinality(NameRefs(x)') + Cardinality(ConnRefs(x)')
                         + Cardinality(DrainRefs(x)')
  <2>1. CASE x = e
    <3>1. refs[x] = 0
      BY <1>a, <2>1, Zenon DEF TypeOK
    <3>2. NameRefs(x)' = {} /\ ConnRefs(x)' = {} /\ DrainRefs(x)' = {}
      BY <1>2, <1>3, <2>1, Zenon
    <3>q. QED
      BY <3>1, <3>2, FS_EmptySet
  <2>2. CASE x # e
    BY <1>a, <1>2, <2>2, Zenon DEF TypeOK, RefCountExact
  <2>q. QED
    BY <2>1, <2>2, Zenon
<1>6. \A x \in Engines \ (engine_list \cup {e}) :
        NameRefs(x)' = {} /\ ConnRefs(x)' = {} /\ DrainRefs(x)' = {}
  BY <1>a, <1>2, Zenon DEF RefCountExact
<1>q. QED
  BY <1>1, <1>4, <1>5, <1>6, DestroyCounts, Zenon

(* A disable trades the reference of each name for its own.                *)
LEMMA DisableCounts ==
  ASSUME IInv, NEW a \in Admins, Disable(a)
  PROVE  RefCountExact'
<1>a. TypeOK /\ ControlInv /\ RefCountExact /\ RegistryInv
  BY Zenon DEF IInv
<1>1. pending[a] = {}
  BY <1>a, Zenon DEF Disable, ControlInv
<1>2. \A x : ConnRefs(x)' = ConnRefs(x)
  BY Zenon DEF Disable, ConnRefs
<1>3. \A x \in Engines : NameRefs(x)' = {}
  BY Zenon DEF Disable, NameRefs
<1>4. ASSUME NEW x \in Current
      PROVE  /\ x \in Engines
             /\ Cardinality(NameRefs(x)) = 1
             /\ a \notin DrainRefs(x)
             /\ DrainRefs(x)' = DrainRefs(x) \cup {a}
  <2>1. PICK n \in Names : x = name_to_engine[n] /\ x # NULL
    BY Zenon DEF Current
  <2>2. NameRefs(x) = {n}
    BY <1>a, <2>1, Zenon DEF NameRefs, RegistryInv
  <2>3. DrainRefs(x)' = DrainRefs(x) \cup {a}
    BY <1>a DEF Disable, DrainRefs, TypeOK
  <2>4. x \in Engines
    BY <1>a, <2>1, Zenon DEF TypeOK
  <2>5. a \notin DrainRefs(x)
    BY <1>1, Zenon DEF DrainRefs
  <2>6. Cardinality(NameRefs(x)) = 1
    BY <2>2, FS_Singleton, Zenon
  <2>q. QED
    BY <2>3, <2>4, <2>5, <2>6, Zenon
<1>5. ASSUME NEW x \in Engines \ Current
      PROVE  NameRefs(x) = {} /\ DrainRefs(x)' = DrainRefs(x)
  <2>1. NameRefs(x) = {}
    BY Zenon DEF Current, NameRefs
  <2>2. DrainRefs(x)' = DrainRefs(x)
    BY <1>a, <1>1, Zenon DEF Disable, DrainRefs, TypeOK
  <2>q. QED
    BY <2>1, <2>2, Zenon
<1>6. ASSUME NEW x \in engine_list
      PROVE  ref_count[x] = Cardinality(NameRefs(x)') + Cardinality(ConnRefs(x)')
                              + Cardinality(DrainRefs(x)')
  <2>0. /\ x \in Engines
        /\ ref_count[x] = Cardinality(NameRefs(x)) + Cardinality(ConnRefs(x))
                            + Cardinality(DrainRefs(x))
    BY <1>a, Zenon DEF RefCountExact, TypeOK
  <2>z. Cardinality({}) = 0
    BY FS_EmptySet, Zenon
  <2>1. CASE x \in Current
    <3>1. Cardinality(DrainRefs(x)') = Cardinality(DrainRefs(x)) + 1
      BY <1>4, <2>1, RefsFinite, FS_AddElement, Zenon
    <3>q. QED
      BY <1>2, <1>3, <1>4, <2>0, <2>1, <2>z, <3>1, RefsFinite
  <2>2. CASE x \notin Current
    BY <1>2, <1>3, <1>5, <2>0, <2>2, <2>z, RefsFinite, Zenon
  <2>q. QED
    BY <2>1, <2>2, Zenon
<1>7. ASSUME NEW x \in Engines \ engine_list
      PROVE  NameRefs(x)' = {} /\ ConnRefs(x)' = {} /\ DrainRefs(x)' = {}
  <2>1. NameRefs(x) = {} /\ ConnRefs(x) = {} /\ DrainRefs(x) = {}
    BY <1>a, Zenon DEF RefCountExact
  <2>2. x \notin Current
    BY <2>1, Zenon DEF Current, NameRefs
  <2>q. QED
    BY <1>2, <1>3, <1>5, <2>1, <2>2, Zenon
<1>8. engine_list' = engine_list /\ ref_count' = ref_count
  BY Zenon DEF Disable
<1>q. QED
  BY <1>6, <1>7, <1>8, Zenon DEF RefCountExact

(* A release, by a disable or by a connection, gives up one reference.     *)
LEMMA DisableReleaseCounts ==
  ASSUME IInv, NEW a \in Admins, DisableRelease(a)
  PROVE  RefCountExact'
<1>a. TypeOK /\ ControlInv /\ RefCountExact
  BY Zenon DEF IInv
<1>1. PICK e \in Engines : e = arg[a] /\ a \in DrainRefs(e)
  BY <1>a, Zenon DEF DisableRelease, ControlInv, TypeOK, DrainRefs
<1>2. EngineRelease(e)
  BY <1>1, Zenon DEF DisableRelease
<1>3. /\ ref_count'[e] = ref_count[e] - 1
      /\ \A x \in Engines \ {e} : ref_count'[x] = ref_count[x]
      /\ e \in engine_list
  BY <1>a, <1>1, <1>2, ReleaseType, ReferencedIsCounted, Zenon
<1>4. \A x : NameRefs(x)' = NameRefs(x) /\ ConnRefs(x)' = ConnRefs(x)
  BY Zenon DEF DisableRelease, EngineRelease, NameRefs, ConnRefs
<1>5. DrainRefs(e)' = DrainRefs(e) \ {a}
  BY <1>a, <1>1, Zenon DEF DisableRelease, DrainRefs, TypeOK
<1>6. \A x \in Engines \ {e} : DrainRefs(x)' = DrainRefs(x)
  BY <1>a, <1>1, Zenon DEF DisableRelease, DrainRefs, TypeOK
<1>7. Cardinality(DrainRefs(e) \ {a}) = Cardinality(DrainRefs(e)) - 1
  <2>1. IsFiniteSet(DrainRefs(e))
    BY RefsFinite, Zenon
  <2>q. QED
    BY <1>1, <2>1, FS_RemoveElement, Zenon
<1>8. ASSUME NEW x \in engine_list
      PROVE  ref_count'[x] = Cardinality(NameRefs(x)') + Cardinality(ConnRefs(x)')
                               + Cardinality(DrainRefs(x)')
  <2>1. x \in Engines /\ ref_count[x] = Cardinality(NameRefs(x))
                           + Cardinality(ConnRefs(x)) + Cardinality(DrainRefs(x))
    BY <1>a, Zenon DEF RefCountExact, TypeOK
  <2>2. CASE x = e
    <3>1. /\ Cardinality(NameRefs(e)) \in Nat
          /\ Cardinality(ConnRefs(e)) \in Nat
          /\ Cardinality(DrainRefs(e)) \in Nat
      BY RefsFinite, Zenon
    <3>2. /\ Cardinality(NameRefs(e)') = Cardinality(NameRefs(e))
          /\ Cardinality(ConnRefs(e)') = Cardinality(ConnRefs(e))
          /\ Cardinality(DrainRefs(e)') = Cardinality(DrainRefs(e)) - 1
      BY <1>4, <1>5, <1>7, Zenon
    <3>3. ref_count'[e] = ref_count[e] - 1
      BY <1>3, Zenon
    <3>4. ref_count[e] = Cardinality(NameRefs(e)) + Cardinality(ConnRefs(e))
                           + Cardinality(DrainRefs(e))
      BY <2>1, <2>2, Zenon
    <3>5. ref_count'[e] = Cardinality(NameRefs(e)') + Cardinality(ConnRefs(e)')
                            + Cardinality(DrainRefs(e)')
      BY <3>1, <3>2, <3>3, <3>4
    <3>q. QED
      BY <2>2, <3>5, Zenon
  <2>3. CASE x # e
    BY <1>3, <1>4, <1>6, <2>1, <2>3, Zenon
  <2>q. QED
    BY <2>2, <2>3, Zenon
<1>9. engine_list' = engine_list
  BY Zenon DEF DisableRelease, EngineRelease
<1>q. QED
  BY <1>a, <1>3, <1>4, <1>6, <1>8, <1>9, Zenon DEF RefCountExact

(* A connection's release takes exactly one reference from its engine.     *)
LEMMA ConnReleaseCounts ==
  ASSUME IInv, NEW c \in Conns, ConnDestroy(c)
  PROVE  RefCountExact'
<1>a. TypeOK /\ RefCountExact
  BY Zenon DEF IInv
<1>1. PICK e \in Engines : e = conn[c] /\ c \in ConnRefs(e)
  BY <1>a, Zenon DEF ConnDestroy, TypeOK, ConnRefs
<1>2. EngineRelease(e)
  BY <1>1, Zenon DEF ConnDestroy
<1>3. /\ ref_count'[e] = ref_count[e] - 1
      /\ \A x \in Engines \ {e} : ref_count'[x] = ref_count[x]
      /\ e \in engine_list
  BY <1>a, <1>1, <1>2, ReleaseType, ReferencedIsCounted, Zenon
<1>4. \A x : NameRefs(x)' = NameRefs(x) /\ DrainRefs(x)' = DrainRefs(x)
  BY Zenon DEF ConnDestroy, EngineRelease, NameRefs, DrainRefs
<1>5. ConnRefs(e)' = ConnRefs(e) \ {c}
  BY <1>a, <1>1, Zenon DEF ConnDestroy, ConnRefs, TypeOK
<1>6. \A x \in Engines \ {e} : ConnRefs(x)' = ConnRefs(x)
  BY <1>a, <1>1, Zenon DEF ConnDestroy, ConnRefs, TypeOK
<1>7. Cardinality(ConnRefs(e) \ {c}) = Cardinality(ConnRefs(e)) - 1
  <2>1. IsFiniteSet(ConnRefs(e))
    BY RefsFinite, Zenon
  <2>q. QED
    BY <1>1, <2>1, FS_RemoveElement, Zenon
<1>8. ASSUME NEW x \in engine_list
      PROVE  ref_count'[x] = Cardinality(NameRefs(x)') + Cardinality(ConnRefs(x)')
                               + Cardinality(DrainRefs(x)')
  <2>1. x \in Engines /\ ref_count[x] = Cardinality(NameRefs(x))
                           + Cardinality(ConnRefs(x)) + Cardinality(DrainRefs(x))
    BY <1>a, Zenon DEF RefCountExact, TypeOK
  <2>2. CASE x = e
    <3>1. /\ Cardinality(NameRefs(e)) \in Nat
          /\ Cardinality(ConnRefs(e)) \in Nat
          /\ Cardinality(DrainRefs(e)) \in Nat
      BY RefsFinite, Zenon
    <3>2. /\ Cardinality(NameRefs(e)') = Cardinality(NameRefs(e))
          /\ Cardinality(DrainRefs(e)') = Cardinality(DrainRefs(e))
          /\ Cardinality(ConnRefs(e)') = Cardinality(ConnRefs(e)) - 1
      BY <1>4, <1>5, <1>7, Zenon
    <3>3. ref_count'[e] = ref_count[e] - 1
      BY <1>3, Zenon
    <3>4. ref_count[e] = Cardinality(NameRefs(e)) + Cardinality(ConnRefs(e))
                           + Cardinality(DrainRefs(e))
      BY <2>1, <2>2, Zenon
    <3>5. ref_count'[e] = Cardinality(NameRefs(e)') + Cardinality(ConnRefs(e)')
                            + Cardinality(DrainRefs(e)')
      BY <3>1, <3>2, <3>3, <3>4
    <3>q. QED
      BY <2>2, <3>5, Zenon
  <2>3. CASE x # e
    BY <1>3, <1>4, <1>6, <2>1, <2>3, Zenon
  <2>q. QED
    BY <2>2, <2>3, Zenon
<1>9. engine_list' = engine_list
  BY Zenon DEF ConnDestroy, EngineRelease
<1>q. QED
  BY <1>a, <1>3, <1>4, <1>6, <1>8, <1>9, Zenon DEF RefCountExact

(* An acquire adds one reference to the current engine of the name.        *)
LEMMA AcquireCounts ==
  ASSUME IInv, NEW c \in Conns, NEW n \in Names, EngineAcquire(c, n)
  PROVE  RefCountExact'
<1>a. TypeOK /\ RefCountExact
  BY Zenon DEF IInv
<1>1. PICK e \in Engines : e = name_to_engine[n] /\ n \in NameRefs(e)
  BY <1>a, Zenon DEF EngineAcquire, TypeOK, NameRefs
<1>2. e \in engine_list
  BY <1>a, <1>1, ReferencedIsCounted, Zenon
<1>3. /\ ref_count'[e] = ref_count[e] + 1
      /\ \A x \in Engines \ {e} : ref_count'[x] = ref_count[x]
  BY <1>a, <1>1, Zenon DEF EngineAcquire, TypeOK
<1>4. \A x : NameRefs(x)' = NameRefs(x) /\ DrainRefs(x)' = DrainRefs(x)
  BY Zenon DEF EngineAcquire, NameRefs, DrainRefs
<1>5. c \notin ConnRefs(e) /\ ConnRefs(e)' = ConnRefs(e) \cup {c}
  BY <1>a, <1>1 DEF EngineAcquire, ConnRefs, TypeOK
<1>6. \A x \in Engines \ {e} : ConnRefs(x)' = ConnRefs(x)
  BY <1>a, <1>1, Zenon DEF EngineAcquire, ConnRefs, TypeOK
<1>7. Cardinality(ConnRefs(e) \cup {c}) = Cardinality(ConnRefs(e)) + 1
  <2>1. IsFiniteSet(ConnRefs(e))
    BY RefsFinite, Zenon
  <2>q. QED
    BY <1>5, <2>1, FS_AddElement, Zenon
<1>8. ASSUME NEW x \in engine_list
      PROVE  ref_count'[x] = Cardinality(NameRefs(x)') + Cardinality(ConnRefs(x)')
                               + Cardinality(DrainRefs(x)')
  <2>1. x \in Engines /\ ref_count[x] = Cardinality(NameRefs(x))
                           + Cardinality(ConnRefs(x)) + Cardinality(DrainRefs(x))
    BY <1>a, Zenon DEF RefCountExact, TypeOK
  <2>2. CASE x = e
    <3>1. /\ Cardinality(NameRefs(e)) \in Nat
          /\ Cardinality(ConnRefs(e)) \in Nat
          /\ Cardinality(DrainRefs(e)) \in Nat
      BY RefsFinite, Zenon
    <3>2. /\ Cardinality(NameRefs(e)') = Cardinality(NameRefs(e))
          /\ Cardinality(DrainRefs(e)') = Cardinality(DrainRefs(e))
          /\ Cardinality(ConnRefs(e)') = Cardinality(ConnRefs(e)) + 1
      BY <1>4, <1>5, <1>7, Zenon
    <3>3. ref_count'[e] = ref_count[e] + 1
      BY <1>3, Zenon
    <3>4. ref_count[e] = Cardinality(NameRefs(e)) + Cardinality(ConnRefs(e))
                           + Cardinality(DrainRefs(e))
      BY <2>1, <2>2, Zenon
    <3>5. ref_count'[e] = Cardinality(NameRefs(e)') + Cardinality(ConnRefs(e)')
                            + Cardinality(DrainRefs(e)')
      BY <3>1, <3>2, <3>3, <3>4
    <3>q. QED
      BY <2>2, <3>5, Zenon
  <2>3. CASE x # e
    BY <1>3, <1>4, <1>6, <2>1, <2>3, Zenon
  <2>q. QED
    BY <2>2, <2>3, Zenon
<1>9. engine_list' = engine_list
  BY Zenon DEF EngineAcquire
<1>q. QED
  BY <1>a, <1>2, <1>4, <1>6, <1>8, <1>9, Zenon DEF RefCountExact

(* Every step keeps the counts exact.                                      *)
LEMMA CountStep == IInv /\ [Next]_vars => RefCountExact'
<1> SUFFICES ASSUME IInv, [Next]_vars PROVE RefCountExact'
  BY Zenon
<1> USE DEF managed
<1>a. TypeOK /\ ControlInv /\ RefCountExact
  BY Zenon DEF IInv
<1>b. CASE UNCHANGED vars
  BY <1>a, <1>b, QuietCounts, Zenon DEF vars
<1>1. ASSUME NEW a \in Admins, NEW n \in Names, EngineCreate(a, n)
      PROVE  RefCountExact'
  BY <1>a, <1>1, QuietCounts, CleanupCounts, Zenon DEF EngineCreate
<1>2. ASSUME NEW a \in Admins,
             CreateEngineError(a) \/ CreateEngineParseError(a)
      PROVE  RefCountExact'
  BY <1>a, <1>2, QuietCounts, Zenon
     DEF CreateEngineError, CreateEngineParseError, CreateReturn
<1>3. ASSUME NEW a \in Admins, RegisterEngine(a) PROVE RefCountExact'
  BY <1>3, RegisterCounts, Zenon
<1>4. ASSUME NEW a \in Admins, RegisterEngineFails(a) PROVE RefCountExact'
  BY <1>4, RegisterFailsCounts, Zenon
<1>5. ASSUME NEW a \in Admins,
             Enable(a) \/ DisableSignal(a) \/ EngineStatusFails(a)
      PROVE  RefCountExact'
  BY <1>a, <1>5, QuietCounts, Zenon DEF Enable, DisableSignal, EngineStatusFails
<1>6. ASSUME NEW a \in Admins, Disable(a) PROVE RefCountExact'
  BY <1>6, DisableCounts, Zenon
<1>7. ASSUME NEW a \in Admins, DisableRelease(a) PROVE RefCountExact'
  BY <1>7, DisableReleaseCounts, Zenon
<1>8. CASE EngineCleanup
  BY <1>8, CleanupCounts, Zenon DEF EngineCleanup
<1>9. ASSUME NEW c \in Conns, NEW n \in Names, EngineAcquire(c, n)
      PROVE  RefCountExact'
  BY <1>9, AcquireCounts, Zenon
<1>10. ASSUME NEW c \in Conns, ConnRelease(c) \/ ConnReleaseDeferred(c)
       PROVE  RefCountExact'
  BY <1>10, ConnReleaseCounts, Zenon DEF ConnRelease, ConnReleaseDeferred
<1>13. ASSUME NEW c \in Conns, ConnDefer(c) PROVE RefCountExact'
  BY <1>a, <1>13, QuietCounts, Zenon DEF ConnDefer
<1>11. CASE ManagerDestroy
  <2>1. ASSUME NEW e \in Engines
        PROVE  NameRefs(e)' = {} /\ ConnRefs(e)' = {} /\ DrainRefs(e)' = {}
    BY <1>a, <1>11, Zenon DEF ManagerDestroy, ControlInv, NameRefs, ConnRefs, DrainRefs
  <2>q. QED
    BY <1>11, <2>1, Zenon DEF ManagerDestroy, RefCountExact
<1>12. CASE ManagerCreate
  BY <1>a, <1>12, QuietCounts, Zenon DEF ManagerCreate
<1>q. QED
  BY <1>b, <1>1, <1>2, <1>3, <1>4, <1>5, <1>6, <1>7, <1>8, <1>9, <1>10,
     <1>11, <1>12, <1>13, Zenon
     DEF Next, AdminStep, CreateStep, DisableStep, ConnStep, SsnClose,
         DisableCleanup, AdminCleanup, ConnCleanup

-----------------------------------------------------------------------------
(* Cleaning up keeps the registry in order: what it destroys serves no     *)
(* name and is captured by nobody.                                         *)
LEMMA CleanupRegistry ==
  ASSUME IInv, up, up' = up,
         DestroyInactive(engine_list, ref_count, signalled),
         UNCHANGED <<name_to_engine, pending>>
  PROVE  RegistryInv'
<1>1. engine_list \in SUBSET Engines
  BY Zenon DEF IInv, TypeOK
<1>2. LiveIsListed'
  BY <1>1, Zenon DEF DestroyInactive, Inactive, IInv, RegistryInv, LiveIsListed, TypeOK
<1>3. SignalledIsRetired' /\ signalled' \subseteq engine_list'
  BY Zenon DEF DestroyInactive, IInv, RegistryInv, SignalledIsRetired
<1>q. QED
  BY <1>2, <1>3, Zenon DEF IInv, RegistryInv, NameRefs

(* Every step keeps the registry in order.                                 *)
LEMMA RegistryStep == IInv /\ [Next]_vars => RegistryInv'
<1> SUFFICES ASSUME IInv, [Next]_vars PROVE RegistryInv'
  BY Zenon
<1> USE DEF managed
<1>a. TypeOK /\ ControlInv /\ RefCountExact /\ RegistryInv
  BY Zenon DEF IInv
<1> DEFINE registry == <<up, engine_list, name_to_engine, engine, signalled,
                         pending>>
<1>b. ASSUME UNCHANGED registry PROVE RegistryInv'
  BY <1>a, <1>b, Zenon DEF RegistryInv, LiveIsListed, SignalledIsRetired, NameRefs
<1>1. ASSUME NEW a \in Admins, NEW n \in Names, EngineCreate(a, n)
      PROVE  RegistryInv'
  BY <1>1, <1>b, CleanupRegistry, Zenon DEF EngineCreate, Unlocked
<1>2. ASSUME NEW a \in Admins, CreateEngineError(a) PROVE RegistryInv'
  BY <1>2, <1>b, Zenon DEF CreateEngineError, CreateReturn
<1>3. ASSUME NEW a \in Admins, CreateEngineParseError(a) PROVE RegistryInv'
  BY <1>a, <1>3 DEF CreateEngineParseError, CreateReturn, RegistryInv,
                    LiveIsListed, SignalledIsRetired, NameRefs, TypeOK
<1>4. ASSUME NEW a \in Admins, RegisterEngine(a) PROVE RegistryInv'
  <2>1. arg[a] \in Names /\ up
    BY <1>a, <1>4, Zenon DEF RegisterEngine, ControlInv
  <2>2. PICK n \in Names, p \in Engines \cup {NULL} :
          n = arg[a] /\ p = name_to_engine[n]
    BY <1>a, <2>1, Zenon DEF TypeOK
  <2>3. PICK e \in Engines :
          /\ engine[e] = "free"
          /\ name_to_engine' = [name_to_engine EXCEPT ![n] = e]
          /\ DestroyInactive(engine_list \cup {e}, Promote(e, p),
                             signalled \cup ({p} \ {NULL}))
    BY <1>4, <2>2, Zenon DEF RegisterEngine
  <2>4. /\ e \notin engine_list
        /\ NameRefs(e) = {} /\ ConnRefs(e) = {} /\ DrainRefs(e) = {}
    BY <2>3, FreeIsUnreferenced, Zenon
  <2>5. up' = up /\ pending' = pending
    BY <1>4, Zenon DEF RegisterEngine, CreateReturn
  <2>6. p # NULL => p \in engine_list /\ p # e
    <3> SUFFICES ASSUME p # NULL PROVE p \in engine_list /\ p # e
      BY Zenon
    <3>1. p \in Engines /\ NameRefs(p) # {}
      BY <2>2, Zenon DEF NameRefs
    <3>q. QED
      BY <1>a, <2>4, <3>1, ReferencedIsCounted, Zenon
  <2>7. LiveIsListed'
    <3> DEFINE gone == Inactive(engine_list \cup {e}, Promote(e, p))
    <3>1. /\ engine_list' = (engine_list \cup {e}) \ gone
          /\ engine' = [x \in Engines |-> IF x \in gone THEN "free"
                                         ELSE IF x \in engine_list \cup {e} THEN "live"
                                         ELSE engine[x]]
      BY <2>3, Zenon DEF DestroyInactive
    <3> HIDE DEF gone
    <3>2. engine_list = {x \in Engines : engine[x] = "live"}
      BY <1>a, Zenon DEF RegistryInv, LiveIsListed
    <3>3. \A x \in Engines : x \in engine_list' <=> engine'[x] = "live"
      BY <3>1, <3>2, Zenon
    <3>4. engine_list' \subseteq Engines
      BY <3>1, <3>2, Zenon
    <3>q. QED
      BY <2>1, <2>5, <3>3, <3>4, Zenon DEF LiveIsListed
  <2>8. signalled' \subseteq engine_list'
    BY <1>a, <2>3, <2>6, Zenon DEF DestroyInactive, RegistryInv
  <2>9. \A m \in Names : name_to_engine'[m] = IF m = n THEN e ELSE name_to_engine[m]
    BY <1>a, <2>3, Zenon DEF TypeOK
  <2>10. \A m \in Names : name_to_engine[m] # e
    BY <2>4, Zenon DEF NameRefs
  <2>11. SignalledIsRetired'
    <3> SUFFICES ASSUME NEW m \in Names PROVE name_to_engine'[m] \notin signalled'
      BY Zenon DEF SignalledIsRetired
    <3>1. signalled' \subseteq signalled \cup ({p} \ {NULL})
      BY <2>3, Zenon DEF DestroyInactive
    <3>2. CASE m = n
      BY <1>a, <2>4, <2>6, <2>9, <3>1, <3>2, Zenon DEF RegistryInv
    <3>3. CASE m # n
      BY <1>a, <2>2, <2>9, <3>1, <3>3, Zenon DEF RegistryInv, SignalledIsRetired
    <3>q. QED
      BY <3>2, <3>3, Zenon
  <2>12. \A m, k \in Names :
           name_to_engine'[m] # NULL /\ name_to_engine'[m] = name_to_engine'[k]
             => m = k
    BY <1>a, <2>9, <2>10, Zenon DEF RegistryInv
  <2>13. \A b \in Admins : \A x \in pending[b] : NameRefs(x)' = {}
    BY <1>a, <2>4, <2>9 DEF RegistryInv, NameRefs, DrainRefs
  <2>q. QED
    BY <2>5, <2>7, <2>8, <2>11, <2>12, <2>13, Zenon DEF RegistryInv
<1>5. ASSUME NEW a \in Admins, RegisterEngineFails(a) PROVE RegistryInv'
  <2>1. up /\ up' = up /\ pending' = pending /\ name_to_engine' = name_to_engine
    BY <1>a, <1>5, Zenon DEF RegisterEngineFails, CreateReturn, ControlInv
  <2>2. PICK e \in Engines :
          /\ engine[e] = "free"
          /\ DestroyInactive(engine_list \cup {e},
                             [ref_count EXCEPT ![e] = 0], signalled)
    BY <1>5, Zenon DEF RegisterEngineFails
  <2>3. LiveIsListed'
    BY <1>a, <2>1, <2>2
       DEF DestroyInactive, Inactive, RegistryInv, LiveIsListed, TypeOK
  <2>4. SignalledIsRetired' /\ signalled' \subseteq engine_list'
    BY <1>a, <2>1, <2>2, Zenon DEF DestroyInactive, RegistryInv, SignalledIsRetired
  <2>q. QED
    BY <1>a, <2>1, <2>3, <2>4, Zenon DEF RegistryInv, NameRefs
<1>6. ASSUME NEW a \in Admins, Enable(a) \/ EngineStatusFails(a)
      PROVE  RegistryInv'
  BY <1>6, <1>b, Zenon DEF Enable, EngineStatusFails
<1>7. ASSUME NEW a \in Admins, Disable(a) PROVE RegistryInv'
  <2>1. \A n \in Names : name_to_engine'[n] = NULL
    BY <1>7, Zenon DEF Disable
  <2>2. \A e \in Engines : NameRefs(e)' = {}
    BY <2>1, Zenon DEF NameRefs
  <2>3. pending' \in [Admins -> SUBSET Engines]
    BY <1>a, <1>7 DEF Disable, Current, TypeOK
  <2>4. SignalledIsRetired'
    BY <1>a, <1>7, <2>1, Zenon DEF Disable, SignalledIsRetired, TypeOK
  <2>q. QED
    BY <1>a, <1>7, <2>1, <2>2, <2>3, <2>4, Zenon DEF Disable, RegistryInv, LiveIsListed
<1>8. ASSUME NEW a \in Admins, DisableSignal(a) PROVE RegistryInv'
  <2>1. PICK e \in pending[a] : signalled' = signalled \cup {e}
    BY <1>8, Zenon DEF DisableSignal
  <2>2. e \in Engines /\ NameRefs(e) = {} /\ DrainRefs(e) # {}
    BY <1>a, Zenon DEF RegistryInv, TypeOK, DrainRefs
  <2>3. e \in engine_list
    BY <1>a, <2>2, ReferencedIsCounted, Zenon
  <2>q. QED
    <3>1. UNCHANGED <<up, engine_list, name_to_engine, engine, pending>>
      BY <1>8, Zenon DEF DisableSignal
    <3>2. LiveIsListed'
      BY <1>a, <3>1, Zenon DEF RegistryInv, LiveIsListed
    <3>3. \A n \in Names : name_to_engine[n] # e
      BY <2>2, Zenon DEF NameRefs
    <3>4. SignalledIsRetired'
      BY <1>a, <2>1, <3>1, <3>3, Zenon DEF RegistryInv, SignalledIsRetired
    <3>5. signalled' \subseteq engine_list'
      BY <1>a, <2>1, <2>3, <3>1, Zenon DEF RegistryInv
    <3>6. \A x : NameRefs(x)' = NameRefs(x)
      BY <3>1, Zenon DEF NameRefs
    <3>q. QED
      BY <1>a, <3>1, <3>2, <3>4, <3>5, <3>6, Zenon DEF RegistryInv
<1>9. ASSUME NEW a \in Admins, DisableRelease(a) PROVE RegistryInv'
  BY <1>a, <1>9 DEF DisableRelease, EngineRelease, RegistryInv, LiveIsListed,
                    SignalledIsRetired, NameRefs, TypeOK
<1>10. CASE EngineCleanup
  BY <1>10, CleanupRegistry, Zenon DEF EngineCleanup, Unlocked
<1>11. ASSUME NEW c \in Conns, NEW n \in Names, EngineAcquire(c, n)
       PROVE  RegistryInv'
  BY <1>11, <1>b, Zenon DEF EngineAcquire
<1>12. ASSUME NEW c \in Conns,
              ConnRelease(c) \/ ConnReleaseDeferred(c) \/ ConnDefer(c)
       PROVE  RegistryInv'
  BY <1>12, <1>b, Zenon DEF ConnRelease, ConnReleaseDeferred, ConnDefer,
                            ConnDestroy, EngineRelease
<1>13. CASE ManagerDestroy
  BY <1>a, <1>13 DEF ManagerDestroy, RegistryInv, LiveIsListed,
                     SignalledIsRetired, ControlInv, TypeOK
<1>14. CASE ManagerCreate
  BY <1>a, <1>14, Zenon DEF ManagerCreate, RegistryInv, LiveIsListed,
                     SignalledIsRetired, NameRefs
<1>q. QED
  BY <1>b, <1>1, <1>2, <1>3, <1>4, <1>5, <1>6, <1>7, <1>8, <1>9, <1>10,
     <1>11, <1>12, <1>13, <1>14, Zenon
     DEF Next, AdminStep, CreateStep, DisableStep, ConnStep, SsnClose,
         DisableCleanup, AdminCleanup, ConnCleanup, vars

-----------------------------------------------------------------------------
(* Every step keeps the engines within their slots.                        *)
LEMMA SlotStep == IInv /\ [Next]_vars => SlotsBounded'
<1> SUFFICES ASSUME IInv, [Next]_vars PROVE SlotsBounded'
  BY Zenon
<1> USE DEF managed
<1>a. TypeOK /\ ControlInv /\ SlotsBounded
  BY Zenon DEF IInv
<1>l. /\ engine_list \in SUBSET Engines
      /\ IsFiniteSet(engine_list) /\ Cardinality(engine_list) \in Nat
  BY <1>a, ListFinite, Zenon DEF TypeOK
<1>s. ASSUME engine_list' \in SUBSET engine_list,
             (\E a \in Admins : pc'[a] = "creating")
               => \E a \in Admins : pc[a] = "creating"
      PROVE  SlotsBounded'
  <2>1. Cardinality(engine_list') <= Cardinality(engine_list)
    BY <1>l, <1>s, FS_Subset, Zenon
  <2>2. Cardinality(engine_list') \in Nat
    BY <1>l, <1>s, FS_Subset, FS_CardinalityType, Zenon
  <2>q. QED
    BY <1>a, <1>l, <1>s, <2>1, <2>2 DEF SlotsBounded
<1>1. ASSUME NEW a \in Admins, NEW n \in Names, EngineCreate(a, n)
      PROVE  SlotsBounded'
  <2>1. CASE Cardinality(engine_list) >= MaxEngines
    <3>1. engine_list' = engine_list \ Inactive(engine_list, ref_count)
      BY <1>1, <2>1, Zenon DEF EngineCreate, DestroyInactive
    <3>2. engine_list' \in SUBSET engine_list /\ engine_list' # engine_list
      BY <1>1, <2>1, <3>1, Zenon DEF EngineCreate, Inactive
    <3>3. /\ Cardinality(engine_list') \in Nat
          /\ Cardinality(engine_list') < Cardinality(engine_list)
      BY <1>l, <3>2, FS_Subset, FS_CardinalityType
    <3>q. QED
      BY <1>a, <1>l, <3>3 DEF SlotsBounded
  <2>2. CASE ~(Cardinality(engine_list) >= MaxEngines)
    BY <1>l, <1>1, <2>2 DEF EngineCreate, SlotsBounded
  <2>q. QED
    BY <2>1, <2>2, Zenon
<1>2. ASSUME NEW a \in Admins, RegisterEngine(a) \/ RegisterEngineFails(a)
      PROVE  SlotsBounded'
  <2>1. PICK e \in Engines : engine_list' \in SUBSET (engine_list \cup {e})
    BY <1>2, Zenon DEF RegisterEngine, RegisterEngineFails, DestroyInactive
  <2>2. /\ pc[a] = "creating"
        /\ manager_lck = a
        /\ pc' = [pc EXCEPT ![a] = "idle"]
    BY <1>a, <1>2, Zenon
       DEF RegisterEngine, RegisterEngineFails, CreateReturn, ControlInv
  <2>3. ~ \E b \in Admins : pc'[b] = "creating"
    BY <1>a, <2>2, Zenon DEF ControlInv, TypeOK
  <2>4. Cardinality(engine_list) < MaxEngines
    BY <1>a, <2>2, Zenon DEF SlotsBounded
  <2>5. /\ IsFiniteSet(engine_list \cup {e})
        /\ Cardinality(engine_list \cup {e}) \in Nat
        /\ Cardinality(engine_list \cup {e}) <= Cardinality(engine_list) + 1
    <3>1. /\ IsFiniteSet(engine_list \cup {e})
          /\ Cardinality(engine_list \cup {e}) =
               IF e \in engine_list THEN Cardinality(engine_list)
               ELSE Cardinality(engine_list) + 1
      BY <1>l, FS_AddElement, Zenon
    <3>q. QED
      BY <1>l, <3>1
  <2>6. /\ Cardinality(engine_list') \in Nat
        /\ Cardinality(engine_list') <= Cardinality(engine_list \cup {e})
    BY <2>1, <2>5, FS_Subset, FS_CardinalityType, Zenon
  <2>q. QED
    BY <1>l, <2>3, <2>4, <2>5, <2>6 DEF SlotsBounded
<1>3. ASSUME NEW a \in Admins, CreateEngineError(a) \/ CreateEngineParseError(a)
      PROVE  SlotsBounded'
  BY <1>a, <1>3, <1>s, Zenon
     DEF CreateEngineError, CreateEngineParseError, CreateReturn, TypeOK
<1>4. ASSUME NEW a \in Admins,
             \/ Enable(a) \/ Disable(a) \/ DisableSignal(a)
             \/ DisableRelease(a) \/ EngineStatusFails(a)
      PROVE  SlotsBounded'
  BY <1>a, <1>4, <1>s, Zenon DEF Enable, Disable, DisableSignal, DisableRelease,
                          EngineRelease, EngineStatusFails, TypeOK
<1>5. ASSUME NEW a \in Admins, DisableCleanup(a) \/ AdminCleanup(a)
      PROVE  SlotsBounded'
  BY <1>a, <1>5, <1>s, Zenon DEF DisableCleanup, AdminCleanup, EngineCleanup,
                          DestroyInactive, TypeOK
<1>6. ASSUME NEW c \in Conns, ConnStep(c) PROVE SlotsBounded'
  BY <1>a, <1>6, <1>s, Zenon DEF ConnStep, SsnClose, EngineAcquire, ConnRelease,
                          ConnReleaseDeferred, ConnDefer, ConnDestroy, EngineRelease,
                          ConnCleanup, EngineCleanup, DestroyInactive
<1>7. CASE ManagerDestroy \/ ManagerCreate \/ UNCHANGED vars
  BY <1>a, <1>7, <1>s, Zenon DEF ManagerDestroy, ManagerCreate, vars
<1>q. QED
  BY <1>1, <1>2, <1>3, <1>4, <1>5, <1>6, <1>7, Zenon
     DEF Next, AdminStep, CreateStep, DisableStep

-----------------------------------------------------------------------------
(* IInv is an invariant of the engine manager: it holds of the manager     *)
(* ib_manager_create returns and every operation preserves it.             *)
THEOREM Inductive == Spec => []IInv
<1>1. Init => IInv
  BY InitIInv, Zenon
<1>2. IInv /\ [Next]_vars => IInv'
  BY TypeStep, ControlStep, RegistryStep, CountStep, SlotStep, Zenon DEF IInv
<1>q. QED
  BY <1>1, <1>2, PTL DEF Spec

(* Every variable stays in its type; in particular no reference count ever *)
(* goes below zero.                                                        *)
THEOREM TypeCorrect == Spec => []TypeOK
<1>1. IInv => TypeOK
  BY Zenon DEF IInv
<1>q. QED
  BY <1>1, Inductive, PTL

(* Reference counting is exact in every reachable state.                   *)
THEOREM CountsExact == Spec => []RefCountExact
<1>1. IInv => RefCountExact
  BY Zenon DEF IInv
<1>q. QED
  BY <1>1, Inductive, PTL

(* No engine is destroyed while a connection, a name or a disable refers   *)
(* to it.                                                                  *)
THEOREM NoUseAfterDestroy == Spec => []InUseIsLive
<1>1. IInv => InUseIsLive
  <2> SUFFICES ASSUME IInv, NEW e \in Engines,
                      NameRefs(e) # {} \/ ConnRefs(e) # {} \/ DrainRefs(e) # {}
               PROVE  engine[e] = "live"
    BY Zenon DEF InUseIsLive
  <2>1. e \in engine_list
    BY ReferencedIsCounted, Zenon DEF IInv
  <2>q. QED
    BY <2>1, Zenon DEF IInv, RegistryInv, LiveIsListed
<1>q. QED
  BY <1>1, Inductive, PTL

(* The engines never outgrow the array of max_engines slots.               *)
THEOREM SlotsSuffice == Spec => []SlotsBounded
<1>1. IInv => SlotsBounded
  BY Zenon DEF IInv
<1>q. QED
  BY <1>1, Inductive, PTL

(* An engine told to shut down is never handed out again.                  *)
THEOREM RetiredForGood == Spec => []SignalledIsRetired
<1>1. IInv => SignalledIsRetired
  BY Zenon DEF IInv, RegistryInv
<1>q. QED
  BY <1>1, Inductive, PTL

(* The shutdown notification only ever reaches an engine that is alive.    *)
THEOREM SignalsReachLive == Spec => SignalReachesLive
<1>1. IInv /\ [Next]_vars =>
        [\A e \in signalled' \ signalled : engine[e] = "live"]_vars
  <2> SUFFICES ASSUME IInv, Next, NEW e \in signalled' \ signalled
               PROVE  engine[e] = "live"
    BY Zenon DEF vars
  <2> USE DEF managed
  <2>a. TypeOK /\ ControlInv /\ RefCountExact /\ LiveIsListed
    BY Zenon DEF IInv, RegistryInv
  <2>1. ASSUME e \in Engines, NameRefs(e) # {} \/ DrainRefs(e) # {}
        PROVE  engine[e] = "live"
    BY <2>a, <2>1, ReferencedIsCounted, Zenon DEF LiveIsListed
  <2>2. ASSUME NEW a \in Admins, RegisterEngine(a) PROVE engine[e] = "live"
    <3>1. arg[a] \in Names
      BY <2>a, <2>2, Zenon DEF RegisterEngine, ControlInv
    <3>2. e = name_to_engine[arg[a]] /\ e # NULL
      BY <2>2, Zenon DEF RegisterEngine, DestroyInactive
    <3>3. e \in Engines
      BY <2>a, <3>1, <3>2, Zenon DEF TypeOK
    <3>4. NameRefs(e) # {}
      BY <3>1, <3>2, Zenon DEF NameRefs
    <3>q. QED
      BY <2>1, <3>3, <3>4, Zenon
  <2>3. ASSUME NEW a \in Admins, DisableSignal(a) PROVE engine[e] = "live"
    <3>1. e \in pending[a]
      BY <2>3 DEF DisableSignal
    <3>q. QED
      <4>1. e \in Engines
        BY <2>a, <3>1, Zenon DEF TypeOK
      <4>2. DrainRefs(e) # {}
        BY <3>1, Zenon DEF DrainRefs
      <4>q. QED
        BY <2>1, <4>1, <4>2, Zenon
  <2>q. QED
    BY <2>2, <2>3, Zenon DEF Next, AdminStep, CreateStep, DisableStep, ConnStep,
       SsnClose, EngineCreate, ConnDefer, ConnReleaseDeferred, ConnDestroy,
       CreateEngineError, CreateEngineParseError, RegisterEngineFails, Enable,
       Disable, DisableRelease, EngineRelease, DisableCleanup, AdminCleanup,
       EngineCleanup, EngineStatusFails, EngineAcquire, ConnRelease,
       ConnCleanup, ManagerDestroy, ManagerCreate, DestroyInactive
<1>q. QED
  BY <1>1, Inductive, PTL DEF Spec, SignalReachesLive
=============================================================================
