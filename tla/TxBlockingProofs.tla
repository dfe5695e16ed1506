-------------------------- MODULE TxBlockingProofs --------------------------
(***************************************************************************)
(* For any number of events, rules and actions: a block that was applied   *)
(* is final and told once, no phase that is neither a stream nor forced    *)
(* starts a rule after it, an allowed transaction is not inspected before  *)
(* post-processing, allow:phase ends with its phase, and no phase block is *)
(* forgotten.                                                              *)
(***************************************************************************)
EXTENDS TxBlocking, TLAPS

\* What ib_tx_block and ib_tx_allow keep true of a transaction: the marks
\* agree with each other, with the flags and with what the server heard.
Good(t) ==
    /\ t \in Tx
    /\ t.told = t.post /\ t.told <= 1 /\ (t.applied <=> t.told = 1)
    /\ t.applied => t.blocked /\ ~t.allowed /\ "IMMEDIATE" \in t.flags
    /\ t.allowed => ~t.blocked /\ "AALL" \in t.flags

\* One transaction follows from another, with its block kept.
Follows(t, u) == Good(u) /\ (t.applied => u.applied)

\* A phase that is not forced is in its loop with the block applied only
\* if the block at its start failed.
PhaseClean ==
    pc = "rules" /\ ~Stream(meta) /\ ~Forced(meta) /\ tx.applied => last = "EOTHER"

\* Only streams have a start of their own.
StartsStream == pc = "start" => Stream(meta)

Inv == TypeOK /\ Good(tx) /\ PhaseClean /\ StartsStream /\ PhaseAllowEndsNormally

-----------------------------------------------------------------------------
(* Setting flags keeps a transaction good.                                 *)
LEMMA SetFollows ==
    ASSUME NEW t, Good(t), NEW f \in SUBSET Flags
    PROVE  Follows(t, Set(t, f))
BY Zenon DEF Good, Follows, Set, Tx

(* So does unsetting flags, other than the two that stand for the marks.   *)
LEMMA UnsetFollows ==
    ASSUME NEW t, Good(t), NEW f \in SUBSET (Flags \ {"IMMEDIATE", "AALL"})
    PROVE  Follows(t, Unset(t, f)) /\ Unset(t, f).flags = t.flags \ f
BY Zenon DEF Good, Follows, Unset, Tx

(* Changing the mode leaves the other flags and the marks.                 *)
LEMMA ModeFacts ==
    ASSUME NEW t, Good(t), NEW u \in {Set(t, {"BLOCKING"}), Unset(t, {"BLOCKING"})}
    PROVE  /\ u.flags \in {t.flags \cup {"BLOCKING"}, t.flags \ {"BLOCKING"}}
           /\ u.applied = t.applied /\ u.allowed = t.allowed
<1>1. CASE u = Set(t, {"BLOCKING"})
  BY <1>1, Zenon DEF Good, Tx, Set
<1>2. CASE u = Unset(t, {"BLOCKING"})
  BY <1>2, Zenon DEF Good, Tx, Unset
<1> QED BY <1>1, <1>2, Zenon

(* ib_tx_allow keeps a transaction good.                                   *)
LEMMA AllowFollows ==
    ASSUME NEW t, Good(t)
    PROVE  Follows(t, Allow(t))
<1>1. CASE t.applied \/ t.allowed
  BY <1>1, Zenon DEF Allow, Follows
<1>2. CASE ~(t.applied \/ t.allowed)
  <2> DEFINE u == Unset(Set(t, {"AALL"}), BlockFlags \cup {"APHASE", "AREQUEST"})
  <2>1. /\ u \in Tx /\ "AALL" \in u.flags
        /\ u.told = t.told /\ u.post = t.post /\ u.applied = t.applied
    BY Zenon DEF Good, Set, Unset, Tx, BlockFlags, AllowFlags, Flags
  <2>2. Allow(t) = [u EXCEPT !.blocked = FALSE, !.allowed = TRUE]
    BY <1>2, Zenon DEF Allow
  <2> HIDE DEF u
  <2> QED BY <1>2, <2>1, <2>2, Zenon DEF Good, Follows, Tx
<1> QED BY <1>1, <1>2, Zenon

(* The part of ib_tx_block before the server is told.                      *)
LEMMA HookedGood ==
    ASSUME NEW t, Good(t), ~t.applied, NEW h \in Hooked(t)
    PROVE  /\ Follows(t, h) /\ ~h.applied /\ h.blocked /\ ~h.allowed
<1> DEFINE a == Set(t, {"ADVISORY"})
           g == [a EXCEPT !.blocked = TRUE, !.allowed = FALSE]
<1>1. a \in Tx /\ a.told = t.told /\ a.post = t.post /\ a.applied = t.applied
  BY Zenon DEF Good, Set, Tx, Flags, BlockFlags
<1>2. h \in {g, Unset(g, {"BLOCKING"})}
  BY Zenon DEF Hooked
<1> HIDE DEF a
<1>3. g \in Tx
  BY <1>1, Zenon DEF Tx
<1>4. Good(g) /\ ~g.applied /\ g.blocked /\ ~g.allowed
  BY <1>1, <1>3, Zenon DEF Good, Tx
<1> HIDE DEF g
<1> QED BY <1>2, <1>4, Zenon DEF Good, Follows, Unset, Tx

(* The part of it that tells the server.                                   *)
LEMMA AppliedGood ==
    ASSUME NEW h, Good(h), ~h.applied, h.blocked, ~h.allowed
    PROVE  Good(Applied(h)) /\ Applied(h).applied
<1> DEFINE u == Unset(Set(h, {"IMMEDIATE"}), {"BPHASE", "ADVISORY"} \cup AllowFlags)
<1>1. /\ u \in Tx /\ "IMMEDIATE" \in u.flags
      /\ u.told = h.told /\ u.post = h.post /\ u.blocked = h.blocked /\ u.allowed = h.allowed
  BY Zenon DEF Good, Set, Unset, Tx, AllowFlags, BlockFlags, Flags
<1>2. Applied(h) = [u EXCEPT !.applied = TRUE, !.told = @ + 1, !.post = @ + 1]
  BY Zenon DEF Applied
<1> HIDE DEF u
<1>3. h.told = 0
  BY DEF Good, Tx
<1>4. u.told + 1 = 1 /\ u.post + 1 = 1
  BY <1>1, <1>3 DEF Good
<1>5. Applied(h) = [u EXCEPT !.applied = TRUE, !.told = 1, !.post = 1]
  BY <1>2, <1>4, Zenon
<1> DEFINE v == [u EXCEPT !.applied = TRUE]
<1>6. /\ v \in Tx /\ v.applied = TRUE /\ v.flags = u.flags
      /\ v.blocked = u.blocked /\ v.allowed = u.allowed
  BY <1>1, Zenon DEF Tx
<1>7. PICK one \in Nat : one = 1 /\ Applied(h) = [v EXCEPT !.told = one, !.post = one]
  BY <1>1, <1>5, Zenon DEF Tx
<1> HIDE DEF v
<1>8. Applied(h) \in Tx
  BY <1>6, <1>7, Zenon DEF Tx
<1>9. /\ Applied(h).told = one /\ Applied(h).post = one /\ Applied(h).applied
      /\ Applied(h).blocked = u.blocked /\ Applied(h).allowed = u.allowed
      /\ Applied(h).flags = u.flags
  BY <1>6, <1>7, Zenon DEF Tx
<1> DEFINE w == Applied(h)
<1>10. w.told = w.post /\ w.told = 1 /\ w.told <= 1
  BY <1>7, <1>9
<1>11. w.blocked /\ ~w.allowed /\ "IMMEDIATE" \in w.flags
  BY <1>1, <1>9, Zenon
<1>12. w \in Tx /\ w.applied
  BY <1>8, <1>9, Zenon
<1> HIDE DEF w
<1>13. Good(w)
  BY <1>10, <1>11, <1>12, Zenon DEF Good
<1> QED BY <1>12, <1>13, Zenon DEF w

(* ib_tx_block keeps a transaction good and its block applied.             *)
LEMMA BlockFollows ==
    ASSUME NEW t, Good(t), NEW r \in Block(t)
    PROVE  Follows(t, r.tx) /\ r.rc \in {"OK", "DECLINED", "EOTHER"}
<1>0. t.applied \in BOOLEAN /\ t.blocked \in BOOLEAN
  BY Zenon DEF Good, Tx
<1>1. CASE "BLOCKING" \notin t.flags \/ t.applied
  BY <1>1 DEF Block, Follows, Good
<1>2. CASE "BLOCKING" \in t.flags /\ ~t.applied
  <2>1. \/ r \in {[tx |-> h, rc |-> c] : h \in Hooked(t), c \in {"DECLINED", "EOTHER"}}
        \/ r \in {[tx |-> Applied(h), rc |-> c] :
                     h \in Hooked(t), c \in {"OK", "EOTHER"}}
    BY <1>2 DEF Block
  <2>2. PICK h \in Hooked(t) :
            r.tx \in {h, Applied(h)} /\ r.rc \in {"OK", "DECLINED", "EOTHER"}
    <3>1. "OK" \in Status
      BY Zenon DEF Status
    <3>2. CASE \E h \in Hooked(t), c \in {"DECLINED", "EOTHER"} : r = [tx |-> h, rc |-> c]
      BY <3>1, <3>2
    <3>3. CASE \E h \in Hooked(t), c \in {"OK", "EOTHER"} :
                  r = [tx |-> Applied(h), rc |-> c]
      BY <3>3
    <3> QED BY <2>1, <3>2, <3>3
  <2>3. Follows(t, h) /\ ~h.applied /\ h.blocked /\ ~h.allowed
    BY <1>2, HookedGood, Zenon
  <2>4. Good(Applied(h)) /\ Applied(h).applied
    BY <2>3, AppliedGood, Zenon DEF Follows
  <2> QED BY <1>2, <2>2, <2>3, <2>4, Zenon DEF Follows
<1> QED BY <1>0, <1>1, <1>2, Zenon

(* Every action of a rule keeps it good.                                   *)
LEMMA FiredFollows ==
    ASSUME TypeOK, Good(tx), NEW r \in Fired(tx)
    PROVE  Follows(tx, r.tx) /\ r.rc \in Status \cup {"none"}
<1>1. CASE r \in Block(tx)
  BY <1>1, BlockFollows, Zenon DEF Status
<1>2. CASE r \notin Block(tx)
  <2>1. /\ r.rc = last
        /\ \/ r.tx = Allow(tx) \/ r.tx = tx
           \/ \E f \in SUBSET Flags : r.tx = Set(tx, f)
           \/ \E f \in SUBSET (Flags \ {"IMMEDIATE", "AALL"}) : r.tx = Unset(tx, f)
    BY <1>2 DEF Fired, Flags, BlockFlags, AllowFlags
  <2> QED BY <2>1, AllowFollows, SetFollows, UnsetFollows DEF TypeOK, Follows
<1> QED BY <1>1, <1>2, Zenon

(* ib_tx_block never allows a phase.                                       *)
LEMMA BlockAllowsNoPhase ==
    ASSUME NEW t, Good(t), "APHASE" \notin t.flags, NEW r \in Block(t)
    PROVE  "APHASE" \notin r.tx.flags
<1>1. CASE r.tx = t
  BY <1>1, Zenon
<1>2. CASE r.tx # t
  <2>1. PICK h \in Hooked(t) : r.tx \in {h, Applied(h)}
    BY <1>2 DEF Block
  <2> DEFINE a == Set(t, {"ADVISORY"})
             g == [a EXCEPT !.blocked = TRUE, !.allowed = FALSE]
  <2>2. a \in Tx /\ "APHASE" \notin a.flags
    BY Zenon DEF Good, Set, Tx, Flags, BlockFlags
  <2>3. h \in {g, Unset(g, {"BLOCKING"})}
    BY Zenon DEF Hooked
  <2> HIDE DEF a
  <2>4. h \in Tx /\ "APHASE" \notin h.flags
    <3>1. g \in Tx /\ "APHASE" \notin g.flags
      BY <2>2, Zenon DEF Tx
    <3> HIDE DEF g
    <3> QED BY <2>3, <3>1, Zenon DEF Unset, Tx
  <2> DEFINE u == Unset(Set(h, {"IMMEDIATE"}), {"BPHASE", "ADVISORY"} \cup AllowFlags)
  <2>5. u \in Tx /\ "APHASE" \notin u.flags
    BY <2>4, Zenon DEF Set, Unset, Tx, AllowFlags, BlockFlags, Flags
  <2>6. Applied(h) = [u EXCEPT !.applied = TRUE, !.told = @ + 1, !.post = @ + 1]
    BY Zenon DEF Applied
  <2> HIDE DEF u
  <2>7. "APHASE" \notin Applied(h).flags
    BY <2>5, <2>6, Zenon DEF Tx
  <2> QED BY <2>1, <2>4, <2>7, Zenon
<1> QED BY <1>1, <1>2, Zenon

(* A hook between two events keeps it good, and allows no phase.           *)
LEMMA HookFollows ==
    ASSUME TypeOK, Good(tx), Hook
    PROVE  /\ Follows(tx, tx') /\ last' \in Status \cup {"none"}
           /\ "APHASE" \notin tx.flags => "APHASE" \notin tx'.flags
<1>1. CASE \E r \in Block(tx) : tx' = r.tx /\ last' = r.rc
  BY <1>1, BlockFollows, BlockAllowsNoPhase, Zenon DEF Status
<1>2. CASE tx' = Allow(tx) /\ last' = last
  <2>1. "APHASE" \notin tx.flags => "APHASE" \notin Allow(tx).flags
    <3> DEFINE u == Unset(Set(tx, {"AALL"}), BlockFlags \cup {"APHASE", "AREQUEST"})
    <3>1. u \in Tx /\ "APHASE" \notin u.flags
      BY Zenon DEF Good, Set, Unset, Tx, BlockFlags, AllowFlags, Flags
    <3>2. Allow(tx) \in {tx, [u EXCEPT !.blocked = FALSE, !.allowed = TRUE]}
      BY Zenon DEF Allow
    <3> HIDE DEF u
    <3> QED BY <3>1, <3>2, Zenon DEF Tx
  <2> QED BY <1>2, <2>1, AllowFollows, Zenon DEF TypeOK
<1>3. CASE /\ tx' \in {Set(tx, {"BLOCKING"}), Unset(tx, {"BLOCKING"})}
           /\ last' = last
  <2>1. /\ {"BLOCKING"} \in SUBSET Flags
        /\ {"BLOCKING"} \in SUBSET (Flags \ {"IMMEDIATE", "AALL"})
    BY Zenon DEF Flags
  <2>2. Follows(tx, Set(tx, {"BLOCKING"})) /\ Follows(tx, Unset(tx, {"BLOCKING"}))
    BY <2>1, SetFollows, UnsetFollows, Zenon
  <2>3. "APHASE" \notin tx.flags => "APHASE" \notin tx'.flags
    BY <1>3, ModeFacts
  <2>4. last' \in Status \cup {"none"}
    BY <1>3, Zenon DEF TypeOK
  <2> QED BY <1>3, <2>2, <2>3, <2>4, Zenon
<1>4. \/ \E r \in Block(tx) : tx' = r.tx /\ last' = r.rc
      \/ /\ tx' \in {Allow(tx), Set(tx, {"BLOCKING"}), Unset(tx, {"BLOCKING"})}
         /\ last' = last
  BY Zenon DEF Hook
<1> HIDE DEF Hook
<1> QED BY <1>1, <1>2, <1>3, <1>4, Zenon

(* What follows from what follows, follows.                                *)
LEMMA FollowsTransitive ==
    ASSUME NEW t, NEW u, NEW v, Follows(t, u), Follows(u, v)
    PROVE  Follows(t, v)
BY Zenon DEF Follows

(* The end of an event clears the flag that allows the phase.              *)
LEMMA FinishFollows ==
    ASSUME NEW t, Follows(tx, t), Finish(t)
    PROVE  Follows(tx, tx') /\ pc' = "idle" /\ "APHASE" \notin tx'.flags
<1>1. {"APHASE"} \in SUBSET (Flags \ {"IMMEDIATE", "AALL"})
  BY Zenon DEF Flags, AllowFlags
<1>2. Good(t)
  BY Zenon DEF Follows
<1>3. Follows(t, Unset(t, {"APHASE"})) /\ Unset(t, {"APHASE"}).flags = t.flags \ {"APHASE"}
  BY <1>1, <1>2, UnsetFollows, Zenon
<1> QED BY <1>3, FollowsTransitive, Zenon DEF Finish

(* The end of a run over a list: the event ends or the next run starts.    *)
LEMMA RunEndsFollows ==
    ASSUME TypeOK, NEW m, NEW t, Follows(tx, t), RunEnds(m, t)
    PROVE  /\ Follows(tx, tx') /\ pc' \in {"idle", "start"} /\ pass' \in 1..2
           /\ pc' = "idle" => "APHASE" \notin tx'.flags
           /\ pc' = "start" => m = "reqline"
<1>1. CASE Finish(t) /\ UNCHANGED pass
  BY <1>1, FinishFollows, Zenon DEF TypeOK
<1>2. CASE m = "reqline" /\ tx' = t /\ pc' = "start" /\ pass' = 2
  BY <1>2
<1> QED BY <1>1, <1>2, Zenon DEF RunEnds

(* Making the list: the event ends, the next run starts or the loop does.  *)
LEMMA ListFollows ==
    ASSUME TypeOK, NEW m, NEW t, Follows(tx, t), List(m, t)
    PROVE  /\ Follows(tx, tx') /\ pc' \in {"idle", "start", "rules"} /\ pass' \in 1..2
           /\ left' \in 0..MaxRules /\ failed' \in BOOLEAN
           /\ pc' = "idle" /\ ~failed' => "APHASE" \notin tx'.flags
           /\ pc' = "rules" => tx' = t
           /\ pc' = "start" => m = "reqline"
<1>1. CASE /\ left' = 0 /\ failed' = TRUE /\ UNCHANGED pass
           /\ IF m = "reqline" THEN tx' = t /\ pc' = "idle" ELSE Finish(t)
  <2>1. Follows(tx, tx') /\ pc' = "idle"
    BY <1>1, FinishFollows, Zenon
  <2> QED BY <1>1, <2>1, BlockingAssumption DEF TypeOK, BlockingAssumption
<1>2. CASE /\ failed' = FALSE
           /\ \E n \in 0..MaxRules :
                 /\ left' = n
                 /\ IF n = 0 THEN RunEnds(m, t)
                             ELSE tx' = t /\ pc' = "rules" /\ UNCHANGED pass
  <2>1. CASE RunEnds(m, t)
    BY <1>2, <2>1, RunEndsFollows, Zenon
  <2>2. CASE tx' = t /\ pc' = "rules" /\ UNCHANGED pass
    BY <1>2, <2>2, Zenon DEF TypeOK
  <2> QED BY <1>2, <2>1, <2>2, Zenon
<1> QED BY <1>1, <1>2, Zenon DEF List

-----------------------------------------------------------------------------
(* Initially nothing is blocked and no phase is allowed.                   *)
LEMMA InitInv == Init => Inv
<1> SUFFICES ASSUME Init PROVE Inv
  BY Zenon
<1>1. tx \in Tx /\ ~tx.applied /\ ~tx.allowed /\ tx.told = 0 /\ tx.post = 0
  <2>1. tx.flags \in {{}, {"BLOCKING"}} /\ {{}, {"BLOCKING"}} \subseteq SUBSET Flags
    BY Zenon DEF Init, Flags
  <2>2. /\ tx.blocked = FALSE /\ tx.allowed = FALSE /\ tx.applied = FALSE
        /\ tx.told = 0 /\ tx.post = 0
        /\ tx = [flags |-> tx.flags, blocked |-> tx.blocked, allowed |-> tx.allowed,
                 applied |-> tx.applied, told |-> tx.told, post |-> tx.post]
    BY Zenon DEF Init
  <2>3. tx.told \in Nat /\ tx.post \in Nat
    BY <2>2
  <2>4. tx \in Tx
    BY <2>1, <2>2, <2>3, Zenon DEF Tx
  <2> QED BY <2>2, <2>4, Zenon
<1>2. "APHASE" \notin tx.flags
  BY DEF Init
<1>3. TypeOK
  <2>1. meta \in Metas
    BY Zenon DEF Init, Metas, Rank
  <2>2. 0 \in 0..MaxRules /\ 0 \in 0..MaxActs /\ 0 \in 0..MaxEvents /\ 1 \in 1..2
    BY BlockingAssumption DEF BlockingAssumption
  <2> QED BY <1>1, <2>1, <2>2, Zenon DEF Init, TypeOK
<1>4. Good(tx)
  BY <1>1 DEF Good
<1> QED BY <1>1, <1>2, <1>3, <1>4, Zenon DEF Inv, Init, PhaseClean, StartsStream, PhaseAllowEndsNormally

(* The bounds hold zero.                                                   *)
LEMMA Zero == 0 \in 0..MaxRules /\ 0 \in 0..MaxActs /\ 0 \in 0..MaxEvents
BY BlockingAssumption DEF BlockingAssumption

(* The start of an event keeps the types of what it assigns.               *)
LEMMA EventTypes ==
    ASSUME TypeOK, NEW m, Event(m)
    PROVE  meta' = m /\ events' \in 0..MaxEvents /\ acts' \in 0..MaxActs
<1>1. /\ meta' = m /\ acts' = 0
      /\ events' = events + 1 /\ events < MaxEvents /\ events \in 0..MaxEvents
  BY Zenon DEF Event, TypeOK
<1>2. events' \in 0..MaxEvents
  BY <1>1, BlockingAssumption DEF BlockingAssumption
<1> QED BY <1>1, <1>2, Zero, Zenon

(* What every step keeps, and that the transaction follows from the one    *)
(* before.                                                                 *)
LEMMA NextInv == Inv /\ [Next]_vars => Inv' /\ Follows(tx, tx')
<1> SUFFICES ASSUME Inv, [Next]_vars PROVE Inv' /\ Follows(tx, tx')
  BY Zenon
<1> USE DEF Inv
<1>0. Follows(tx, tx)
  BY Zenon DEF Follows
<1>1. ASSUME NEW m \in Metas, PhaseStart(m) PROVE Inv' /\ Follows(tx, tx')
  <2>1. /\ meta' = m /\ events' \in 0..MaxEvents /\ acts' \in 0..MaxActs
    BY <1>1, EventTypes, Zenon DEF PhaseStart
  <2>2. CASE /\ Finish(tx)
             /\ left' = 0 /\ failed' = FALSE /\ UNCHANGED <<pass, last>>
    <3>1. Follows(tx, tx') /\ pc' = "idle" /\ "APHASE" \notin tx'.flags
      BY <1>0, <2>2, FinishFollows, Zenon
    <3> QED BY <1>1, <2>1, <2>2, <3>1, Zero, Zenon
        DEF TypeOK, Follows, Good, PhaseClean, StartsStream, Stream, PhaseAllowEndsNormally
  <2>3. ASSUME NEW r \in Block(tx), last' = r.rc,
               IF r.rc \in {"OK", "DECLINED"}
               THEN Finish(r.tx) /\ left' = 0 /\ failed' = FALSE /\ UNCHANGED pass
               ELSE List(m, Unset(r.tx, {"APHASE"}))
        PROVE  Inv' /\ Follows(tx, tx')
    <3>1. Follows(tx, r.tx) /\ r.rc \in {"OK", "DECLINED", "EOTHER"}
      BY BlockFollows, Zenon
    <3>2. CASE r.rc \in {"OK", "DECLINED"}
      <4>1. Follows(tx, tx') /\ pc' = "idle" /\ "APHASE" \notin tx'.flags
        BY <2>3, <3>1, <3>2, FinishFollows, Zenon
      <4> QED BY <1>1, <2>1, <2>3, <3>1, <3>2, <4>1, Zero, Zenon
          DEF TypeOK, Follows, Good, PhaseClean, StartsStream, Stream, PhaseAllowEndsNormally, Status
    <3>3. CASE r.rc \notin {"OK", "DECLINED"}
      <4>1. Follows(tx, Unset(r.tx, {"APHASE"}))
        <5>1. Good(r.tx) /\ {"APHASE"} \in SUBSET (Flags \ {"IMMEDIATE", "AALL"})
          BY <3>1, Zenon DEF Follows, Flags, AllowFlags
        <5> QED BY <3>1, <5>1, UnsetFollows, FollowsTransitive, Zenon
      <4>2. /\ Follows(tx, tx') /\ pc' \in {"idle", "start", "rules"} /\ pass' \in 1..2
            /\ left' \in 0..MaxRules /\ failed' \in BOOLEAN
            /\ pc' = "idle" /\ ~failed' => "APHASE" \notin tx'.flags
            /\ pc' = "start" => m = "reqline"
        BY <2>3, <3>3, <4>1, ListFollows, Zenon
      <4>3. last' = "EOTHER"
        BY <2>3, <3>1, <3>3, Zenon
      <4> QED BY <1>1, <2>1, <4>2, <4>3, Zenon
          DEF TypeOK, Follows, Good, PhaseClean, StartsStream, Stream, PhaseAllowEndsNormally, Status
    <3> QED BY <3>2, <3>3, Zenon
  <2>4. CASE /\ tx.flags \cap {"BPHASE", "IMMEDIATE"} = {} \/ Forced(m)
             /\ List(m, Unset(tx, {"APHASE"})) /\ UNCHANGED last
    <3>1. Follows(tx, Unset(tx, {"APHASE"})) /\ Unset(tx, {"APHASE"}).applied = tx.applied
      <4>1. {"APHASE"} \in SUBSET (Flags \ {"IMMEDIATE", "AALL"})
        BY Zenon DEF Flags, AllowFlags
      <4> QED BY <4>1, UnsetFollows, Zenon DEF Unset, Good, Tx
    <3>2. /\ Follows(tx, tx') /\ pc' \in {"idle", "start", "rules"} /\ pass' \in 1..2
          /\ left' \in 0..MaxRules /\ failed' \in BOOLEAN
          /\ pc' = "idle" /\ ~failed' => "APHASE" \notin tx'.flags
          /\ pc' = "rules" => tx' = Unset(tx, {"APHASE"})
          /\ pc' = "start" => m = "reqline"
      BY <2>4, <3>1, ListFollows, Zenon
    <3>3. ~Forced(m) => ~tx.applied
      BY <2>4, Zenon DEF Good
    <3>4. PhaseClean'
      BY <2>1, <3>1, <3>2, <3>3, Zenon DEF PhaseClean, Forced, Stream
    <3> QED BY <1>1, <2>1, <2>4, <3>2, <3>4, Zenon
        DEF TypeOK, Follows, Good, StartsStream, Stream, PhaseAllowEndsNormally
  <2> QED BY <1>1, <2>2, <2>3, <2>4, Zenon DEF PhaseStart
<1>2. ASSUME NEW m \in Metas, StreamEvent(m) PROVE Inv' /\ Follows(tx, tx')
  <2>1. meta' = m /\ events' \in 0..MaxEvents /\ acts' \in 0..MaxActs
    BY <1>2, EventTypes, Zenon DEF StreamEvent
  <2>2. Follows(tx, tx')
    <3>1. {"APHASE"} \in SUBSET (Flags \ {"IMMEDIATE", "AALL"})
      BY Zenon DEF Flags, AllowFlags
    <3> QED BY <1>2, <3>1, UnsetFollows, Zenon DEF StreamEvent
  <2>3. pc' = "start" /\ pass' \in 1..2 /\ left' = 0 /\ failed' = FALSE /\ last' = last
    BY <1>2, Zenon DEF StreamEvent, TypeOK
  <2>4. Stream(m)
    BY <1>2, Zenon DEF StreamEvent
  <2> QED BY <1>2, <2>1, <2>2, <2>3, <2>4, Zero, Zenon
      DEF TypeOK, Follows, Good, PhaseClean, StartsStream, Stream, PhaseAllowEndsNormally
<1>3. CASE StreamStart
  <2>1. UNCHANGED <<meta, acts, events, last>>
    BY <1>3, Zenon DEF StreamStart
  <2>2. CASE RunEnds(meta, tx) /\ UNCHANGED <<left, failed>>
    <3>1. /\ Follows(tx, tx') /\ pc' \in {"idle", "start"} /\ pass' \in 1..2
          /\ pc' = "idle" => "APHASE" \notin tx'.flags
          /\ pc' = "start" => meta = "reqline"
      BY <1>0, <2>2, RunEndsFollows, Zenon
    <3> QED BY <2>1, <2>2, <3>1, Zenon
        DEF TypeOK, Follows, Good, PhaseClean, StartsStream, Stream, PhaseAllowEndsNormally
  <2>3. CASE List(meta, tx)
    <3>1. /\ Follows(tx, tx') /\ pc' \in {"idle", "start", "rules"} /\ pass' \in 1..2
          /\ left' \in 0..MaxRules /\ failed' \in BOOLEAN
          /\ pc' = "idle" /\ ~failed' => "APHASE" \notin tx'.flags
          /\ pc' = "start" => meta = "reqline"
      BY <1>0, <2>3, ListFollows, Zenon
    <3>2. Stream(meta)
      BY <1>3, Zenon DEF StreamStart, StartsStream
    <3>3. PhaseClean'
      BY <2>1, <3>2, Zenon DEF PhaseClean, Stream
    <3> QED BY <2>1, <3>1, <3>3, Zenon DEF TypeOK, Follows, Good, StartsStream, Stream, PhaseAllowEndsNormally
  <2> QED BY <1>3, <2>2, <2>3, Zenon DEF StreamStart
<1>4. CASE NextRule
  <2>1. /\ UNCHANGED <<tx, meta, pass, failed, events, last>>
        /\ pc' \in {"after", "rule"} /\ left' \in 0..MaxRules /\ acts' \in 0..MaxActs
    <3>1. left \in 0..MaxRules /\ acts \in 0..MaxActs
      BY Zenon DEF TypeOK
    <3>2. left > 0 => left - 1 \in 0..MaxRules
      BY <3>1, BlockingAssumption DEF BlockingAssumption
    <3> QED BY <1>4, <3>1, <3>2, Zero, Zenon DEF NextRule
  <2> QED BY <1>0, <2>1, Zenon DEF TypeOK, PhaseClean, StartsStream, Stream, PhaseAllowEndsNormally
<1>5. CASE Act
  <2>1. PICK r \in Fired(tx) : tx' = r.tx /\ last' = r.rc
    BY <1>5, Zenon DEF Act
  <2>2. Follows(tx, tx') /\ last' \in Status \cup {"none"}
    BY <2>1, FiredFollows, Zenon
  <2>3. /\ acts' \in 0..MaxActs /\ pc' = "rule"
        /\ UNCHANGED <<meta, pass, left, failed, events>>
    BY <1>5, BlockingAssumption DEF Act, TypeOK, BlockingAssumption
  <2> QED BY <2>2, <2>3, Zenon
      DEF TypeOK, Follows, Good, PhaseClean, StartsStream, Stream, PhaseAllowEndsNormally
<1>6. CASE PhaseRuleDone
  <2>1. UNCHANGED <<meta, pass, left, acts, failed, events>>
    BY <1>6, Zenon DEF PhaseRuleDone, loop
  <2>2. CASE Finish(Allow(tx)) /\ UNCHANGED last
    <3>1. Follows(tx, tx') /\ pc' = "idle" /\ "APHASE" \notin tx'.flags
      BY <2>2, AllowFollows, FinishFollows, Zenon
    <3> QED BY <2>1, <2>2, <3>1, Zenon
        DEF TypeOK, Follows, Good, PhaseClean, StartsStream, PhaseAllowEndsNormally
  <2>3. ASSUME NEW r \in Block(tx), Finish(r.tx), last' = r.rc PROVE Inv' /\ Follows(tx, tx')
    <3>1. Follows(tx, r.tx) /\ last' \in Status
      BY <2>3, BlockFollows, Zenon DEF Status
    <3>2. Follows(tx, tx') /\ pc' = "idle" /\ "APHASE" \notin tx'.flags
      BY <2>3, <3>1, FinishFollows, Zenon
    <3> QED BY <2>1, <3>1, <3>2, Zenon
        DEF TypeOK, Follows, Good, PhaseClean, StartsStream, PhaseAllowEndsNormally
  <2>4. CASE /\ tx.flags \cap {"AALL", "IMMEDIATE"} = {}
             /\ pc' \in {"after", "rules"} /\ UNCHANGED <<tx, last>>
    <3>1. ~tx.applied
      BY <2>4, Zenon DEF Good
    <3> QED BY <1>0, <2>1, <2>4, <3>1, Zenon
        DEF TypeOK, PhaseClean, StartsStream, PhaseAllowEndsNormally
  <2> QED BY <1>6, <2>2, <2>3, <2>4, Zenon DEF PhaseRuleDone
<1>7. CASE StreamValueDone
  <2>1. /\ UNCHANGED <<meta, pass, left, failed, events>> /\ pc' \in {"rules", "rule"}
        /\ Stream(meta)
    BY <1>7, Zenon DEF StreamValueDone
  <2>2. acts' \in 0..MaxActs
    BY <1>7, BlockingAssumption DEF StreamValueDone, TypeOK, BlockingAssumption
  <2>3. Follows(tx, tx') /\ last' \in Status \cup {"none"}
    <3>1. \/ (tx' = Allow(tx) \/ tx' = tx) /\ last' = last
          \/ \E r \in Block(tx) : tx' = r.tx /\ last' = r.rc
      BY <1>7, Zenon DEF StreamValueDone
    <3> QED BY <1>0, <3>1, AllowFollows, BlockFollows, Zenon DEF TypeOK, Status
  <2> QED BY <2>1, <2>2, <2>3, Zenon
      DEF TypeOK, Follows, Good, PhaseClean, StartsStream, Stream, PhaseAllowEndsNormally
<1>8. CASE After
  <2>1. UNCHANGED <<meta, left, acts, failed, events>>
    BY <1>8, Zenon DEF After
  <2>2. PICK t : Follows(tx, t) /\ RunEnds(meta, t) /\ last' \in Status \cup {"none"}
    <3>1. \/ RunEnds(meta, tx) /\ last' = last
          \/ \E r \in Block(tx) : RunEnds(meta, r.tx) /\ last' = r.rc
      BY <1>8, Zenon DEF After
    <3> QED BY <1>0, <3>1, BlockFollows, Zenon DEF TypeOK, Status
  <2>3. /\ Follows(tx, tx') /\ pc' \in {"idle", "start"} /\ pass' \in 1..2
        /\ pc' = "idle" => "APHASE" \notin tx'.flags
        /\ pc' = "start" => meta = "reqline"
    BY <2>2, RunEndsFollows, Zenon
  <2> QED BY <2>1, <2>2, <2>3, Zenon
      DEF TypeOK, Follows, Good, PhaseClean, StartsStream, Stream, PhaseAllowEndsNormally
<1>9. CASE Hook
  <2>1. Follows(tx, tx') /\ last' \in Status \cup {"none"}
        /\ ("APHASE" \notin tx.flags => "APHASE" \notin tx'.flags)
    BY <1>0, <1>9, HookFollows, Zenon
  <2>2. UNCHANGED <<pc, meta, pass, left, acts, failed, events>> /\ pc = "idle"
    BY <1>9, Zenon DEF Hook, loop
  <2> QED BY <2>1, <2>2, Zenon
      DEF TypeOK, Follows, Good, PhaseClean, StartsStream, PhaseAllowEndsNormally
<1>10. CASE UNCHANGED vars
  BY <1>0, <1>10, Zenon DEF vars, loop, TypeOK, PhaseClean, StartsStream, PhaseAllowEndsNormally
<1> QED BY <1>1, <1>2, <1>3, <1>4, <1>5, <1>6, <1>7, <1>8, <1>9, <1>10, Zenon DEF Next

-----------------------------------------------------------------------------
(* The inductive invariant holds in every state.                           *)
THEOREM Invariance == Spec => []Inv
<1>1. Inv /\ [Next]_vars => Inv'
  BY NextInv, Zenon
<1> QED BY InitInv, <1>1, PTL DEF Spec

(* For any number of events, rules and actions, ib_tx_block tells the      *)
(* server and the post-block hooks at most once, and the block is applied  *)
(* exactly when it did.                                                    *)
THEOREM BlockToldOnce == Spec => []ToldOnce
<1>1. Inv => ToldOnce
  BY Zenon DEF Inv, Good, ToldOnce
<1> QED BY Invariance, <1>1, PTL

(* Between events the flag of allow:phase is clear, unless an injector     *)
(* failed.                                                                 *)
THEOREM AllowedPhaseEnds == Spec => []PhaseAllowEndsNormally
<1>1. Inv => PhaseAllowEndsNormally
  BY Zenon DEF Inv
<1> QED BY Invariance, <1>1, PTL

(* A block that was applied is never taken back.                           *)
THEOREM BlockIsFinal == Spec => AppliedIsFinal
<1>1. Inv /\ [Next]_vars => [tx.applied => tx'.applied /\ tx'.blocked /\ ~tx'.allowed]_vars
  BY NextInv, Zenon DEF Follows, Good
<1> QED BY Invariance, <1>1, PTL DEF Spec, AppliedIsFinal

(* A phase that is neither a stream nor forced starts no rule after an     *)
(* applied block, unless ib_tx_block failed after it.                      *)
THEOREM BlockEndsPhases == Spec => NoPhaseRuleAfterBlock
<1>1. Inv /\ [Next]_vars
        => [RuleStarts /\ tx.applied /\ ~Stream(meta) => Forced(meta) \/ last = "EOTHER"]_vars
  BY Zenon DEF Inv, PhaseClean, RuleStarts
<1> QED BY Invariance, <1>1, PTL DEF Spec, NoPhaseRuleAfterBlock

(* No rule starts on an allowed transaction before post-processing.        *)
THEOREM AllowEndsInspection == Spec => AllowSkipsRules
<1>1. Inv /\ [Next]_vars => [RuleStarts /\ tx.allowed => Forced(meta)]_vars
  <2> SUFFICES ASSUME Inv, [Next]_vars, RuleStarts, tx.allowed PROVE Forced(meta)
    BY Zenon
  <2>1. NextRule
    BY Zenon DEF RuleStarts, Next, vars, PhaseStart, StreamEvent, Event, Hook, StreamStart, Act,
           PhaseRuleDone, StreamValueDone, After
  <2>2. ~Skips(tx, meta, TRUE)
    BY <2>1, Zenon DEF NextRule, RuleStarts
  <2> QED BY <2>2, Zenon DEF Skips, Inv, Good
<1> QED BY Invariance, <1>1, PTL DEF Spec, AllowSkipsRules

-----------------------------------------------------------------------------
\* What PhaseBlockTried says of a transaction and of what ib_tx_block last
\* returned.
Tried(t, l) ==
    "BPHASE" \in t.flags => t.applied \/ t.allowed \/ l \in {"DECLINED", "EOTHER"}

\* It holds between events, and where the run over the request line hands
\* over to the one over the header.
TriedInv == pc \in {"idle", "start"} => Tried(tx, last)

(* After ib_tx_block a phase block was tried: it returns OK only when the  *)
(* block is applied.                                                       *)
LEMMA BlockTries ==
    ASSUME NEW t, Good(t), NEW r \in Block(t)
    PROVE  Tried(r.tx, r.rc)
<1>1. r.rc = "OK" => r.tx.applied
  <2>0. t.applied \in BOOLEAN /\ t.blocked \in BOOLEAN
    BY Zenon DEF Good, Tx
  <2>1. CASE "BLOCKING" \notin t.flags \/ t.applied
    BY <2>1 DEF Block, Good
  <2>2. CASE "BLOCKING" \in t.flags /\ ~t.applied
    <3>1. \/ \E h \in Hooked(t), c \in {"DECLINED", "EOTHER"} : r = [tx |-> h, rc |-> c]
          \/ \E h \in Hooked(t), c \in {"OK", "EOTHER"} : r = [tx |-> Applied(h), rc |-> c]
      BY <2>2 DEF Block
    <3>2. CASE \E h \in Hooked(t), c \in {"DECLINED", "EOTHER"} : r = [tx |-> h, rc |-> c]
      BY <3>2
    <3>3. CASE \E h \in Hooked(t), c \in {"OK", "EOTHER"} : r = [tx |-> Applied(h), rc |-> c]
      <4>1. PICK h \in Hooked(t) : r.tx = Applied(h)
        BY <3>3
      <4>2. Good(h) /\ ~h.applied /\ h.blocked /\ ~h.allowed
        BY <2>2, HookedGood, Zenon DEF Follows
      <4> QED BY <4>1, <4>2, AppliedGood, Zenon
    <3> QED BY <3>1, <3>2, <3>3, Zenon
  <2> QED BY <2>0, <2>1, <2>2, Zenon
<1>2. r.rc \in {"OK", "DECLINED", "EOTHER"}
  BY BlockFollows, Zenon
<1> QED BY <1>1, <1>2, Zenon DEF Tried

(* After ib_tx_allow the transaction is allowed, or its block is applied.  *)
LEMMA AllowTries ==
    ASSUME NEW t, Good(t), NEW l
    PROVE  Tried(Allow(t), l)
<1>1. CASE t.applied \/ t.allowed
  BY <1>1, Zenon DEF Allow, Tried
<1>2. CASE ~(t.applied \/ t.allowed)
  <2> DEFINE u == Unset(Set(t, {"AALL"}), BlockFlags \cup {"APHASE", "AREQUEST"})
  <2>1. u \in Tx
    BY Zenon DEF Good, Set, Unset, Tx, BlockFlags, AllowFlags, Flags
  <2>2. Allow(t) = [u EXCEPT !.blocked = FALSE, !.allowed = TRUE]
    BY <1>2, Zenon DEF Allow
  <2> HIDE DEF u
  <2> QED BY <2>1, <2>2, Zenon DEF Tx, Tried
<1> QED BY <1>1, <1>2, Zenon

(* The end of a phase clears another flag.                                 *)
LEMMA UnsetTries ==
    ASSUME NEW t, Good(t), NEW l, Tried(t, l)
    PROVE  Tried(Unset(t, {"APHASE"}), l)
BY Zenon DEF Good, Tx, Unset, Tried

(* The ends of an event and of a run, and a list that fails or is empty.   *)
LEMMA EndsTried ==
    ASSUME NEW t, Good(t), NEW l, Tried(t, l), NEW m,
           Finish(t) \/ RunEnds(m, t) \/ List(m, t)
    PROVE  pc' \in {"idle", "start"} => Tried(tx', l)
<1>1. tx' = t \/ tx' = Unset(t, {"APHASE"})
  BY Zenon DEF Finish, RunEnds, List
<1> QED BY <1>1, UnsetTries, Zenon

(* Every step keeps TriedInv.                                              *)
LEMMA NextTried == Inv /\ TriedInv /\ [Next]_vars => TriedInv'
<1> SUFFICES ASSUME Inv, TriedInv, [Next]_vars, pc' \in {"idle", "start"}
             PROVE  Tried(tx', last')
  BY Zenon DEF TriedInv
<1>0. Good(tx)
  BY Zenon DEF Inv
<1>1. ASSUME NEW m \in Metas, PhaseStart(m) PROVE Tried(tx', last')
  <2>0. Tried(tx, last)
    BY <1>1, Zenon DEF PhaseStart, Event, TriedInv
  <2>1. CASE Finish(tx) /\ UNCHANGED last
    BY <1>0, <2>0, <2>1, EndsTried, Zenon
  <2>2. ASSUME NEW r \in Block(tx), last' = r.rc,
               Finish(r.tx) \/ List(m, Unset(r.tx, {"APHASE"}))
        PROVE  Tried(tx', last')
    <3>1. Good(r.tx) /\ Tried(r.tx, r.rc)
      BY <1>0, BlockFollows, BlockTries, Zenon DEF Follows
    <3>2. CASE Finish(r.tx)
      BY <2>2, <3>1, <3>2, EndsTried, Zenon
    <3>3. CASE List(m, Unset(r.tx, {"APHASE"}))
      <4> DEFINE u == Unset(r.tx, {"APHASE"})
      <4>1. {"APHASE"} \in SUBSET (Flags \ {"IMMEDIATE", "AALL"})
        BY Zenon DEF Flags, AllowFlags
      <4>2. Good(u) /\ Tried(u, r.rc)
        BY <3>1, <4>1, UnsetFollows, UnsetTries, Zenon DEF Follows
      <4> HIDE DEF u
      <4> QED BY <2>2, <3>3, <4>2, EndsTried, Zenon DEF u
    <3> QED BY <2>2, <3>2, <3>3, Zenon
  <2>3. CASE List(m, Unset(tx, {"APHASE"})) /\ UNCHANGED last
    <3> DEFINE u == Unset(tx, {"APHASE"})
    <3>1. {"APHASE"} \in SUBSET (Flags \ {"IMMEDIATE", "AALL"})
      BY Zenon DEF Flags, AllowFlags
    <3>2. Good(u) /\ Tried(u, last)
      BY <1>0, <2>0, <3>1, UnsetFollows, UnsetTries, Zenon DEF Follows
    <3> HIDE DEF u
    <3> QED BY <2>3, <3>2, EndsTried, Zenon DEF u
  <2> QED BY <1>1, <2>1, <2>2, <2>3, Zenon DEF PhaseStart
<1>2. ASSUME NEW m \in Metas, StreamEvent(m) PROVE Tried(tx', last')
  <2>1. Tried(tx, last) /\ tx' = Unset(tx, {"APHASE"}) /\ last' = last
    BY <1>2, Zenon DEF StreamEvent, Event, TriedInv
  <2> QED BY <1>0, <2>1, UnsetTries, Zenon
<1>3. CASE StreamStart
  <2>1. Tried(tx, last) /\ last' = last /\ (RunEnds(meta, tx) \/ List(meta, tx))
    BY <1>3, Zenon DEF StreamStart, TriedInv
  <2> QED BY <1>0, <2>1, EndsTried, Zenon
<1>4. CASE NextRule \/ Act \/ StreamValueDone
  BY <1>4, Zenon DEF NextRule, Act, StreamValueDone
<1>5. CASE PhaseRuleDone
  <2>1. CASE Finish(Allow(tx)) /\ UNCHANGED last
    <3>1. Good(Allow(tx)) /\ Tried(Allow(tx), last)
      BY <1>0, AllowFollows, AllowTries, Zenon DEF Follows
    <3> QED BY <2>1, <3>1, EndsTried, Zenon
  <2>2. ASSUME NEW r \in Block(tx), Finish(r.tx), last' = r.rc PROVE Tried(tx', last')
    <3>1. Good(r.tx) /\ Tried(r.tx, r.rc)
      BY <1>0, BlockFollows, BlockTries, Zenon DEF Follows
    <3> QED BY <2>2, <3>1, EndsTried, Zenon
  <2> QED BY <1>5, <2>1, <2>2, Zenon DEF PhaseRuleDone
<1>6. CASE After
  <2>1. ASSUME NEW r \in Block(tx), RunEnds(meta, r.tx), last' = r.rc PROVE Tried(tx', last')
    <3>1. Good(r.tx) /\ Tried(r.tx, r.rc)
      BY <1>0, BlockFollows, BlockTries, Zenon DEF Follows
    <3> QED BY <2>1, <3>1, EndsTried, Zenon
  <2>2. CASE "BPHASE" \notin tx.flags /\ RunEnds(meta, tx) /\ UNCHANGED last
    <3>1. Tried(tx, last)
      BY <2>2, Zenon DEF Tried
    <3> QED BY <1>0, <2>2, <3>1, EndsTried, Zenon
  <2> QED BY <1>6, <2>1, <2>2, Zenon DEF After
<1>7. CASE Hook
  <2>1. Tried(tx, last)
    BY <1>7, Zenon DEF Hook, TriedInv
  <2>2. CASE \E r \in Block(tx) : tx' = r.tx /\ last' = r.rc
    BY <1>0, <2>2, BlockTries, Zenon
  <2>3. CASE tx' = Allow(tx) /\ last' = last
    BY <1>0, <2>3, AllowTries, Zenon
  <2>4. CASE /\ tx' \in {Set(tx, {"BLOCKING"}), Unset(tx, {"BLOCKING"})}
             /\ last' = last
    BY <1>0, <2>1, <2>4, ModeFacts DEF Tried
  <2>5. \/ \E r \in Block(tx) : tx' = r.tx /\ last' = r.rc
        \/ /\ tx' \in {Allow(tx), Set(tx, {"BLOCKING"}), Unset(tx, {"BLOCKING"})}
           /\ last' = last
    BY <1>7, Zenon DEF Hook
  <2>6. Tried(tx', last')
    BY <2>2, <2>3, <2>4, <2>5, Zenon
  <2> QED BY <2>6, Zenon DEF TriedInv
<1>8. CASE UNCHANGED vars
  BY <1>8, Zenon DEF vars, TriedInv
<1> QED BY <1>1, <1>2, <1>3, <1>4, <1>5, <1>6, <1>7, <1>8, Zenon DEF Next

(* A phase block is never forgotten, whichever way the phase was left: if  *)
(* its flag is still set between events, ib_tx_block was called and did    *)
(* not succeed, or the transaction is blocked or allowed for good.         *)
THEOREM BlockIsTried == Spec => []PhaseBlockTried
<1>1. Init => TriedInv
  BY DEF Init, TriedInv, Tried
<1>2. TriedInv => PhaseBlockTried
  BY Zenon DEF TriedInv, Tried, PhaseBlockTried
<1> QED BY Invariance, <1>1, <1>2, NextTried, PTL DEF Spec
=============================================================================
