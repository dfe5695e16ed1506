----------------------------- MODULE TxBlocking -----------------------------
(***************************************************************************)
(* How rules block and allow a transaction: ib_tx_block and ib_tx_allow    *)
(* (engine/engine.c), the actions block and allow (engine/core_actions.c)  *)
(* and the loops of the rule engine over the rules of a phase and of a     *)
(* stream (engine/rule_engine.c), which read and write the same flags.     *)
(*                                                                         *)
(* One thread runs a transaction.  The hooks, the block handler and the    *)
(* server are external: each returns any status its interface has.         *)
(***************************************************************************)
EXTENDS Integers

CONSTANTS
    MaxEvents,  \* bound: events of the transaction for which rules are run
    MaxRules,   \* bound: rules listed for one of them
    MaxActs     \* bound: actions that fire in one rule

ASSUME BlockingAssumption == MaxEvents \in Nat /\ MaxRules \in Nat /\ MaxActs \in Nat

\* BLOCKING is IB_TX_FBLOCKING_MODE, then IB_TX_FBLOCK_* and IB_TX_FALLOW_*.
BlockFlags == {"ADVISORY", "BPHASE", "IMMEDIATE"}
AllowFlags == {"APHASE", "AREQUEST", "AALL"}
Flags == {"BLOCKING"} \cup BlockFlags \cup AllowFlags

(* rule_phase_meta, by what the rule engine tells apart: REQUEST_HEADER_   *)
(* STREAM (reqline), the other streams, the request and the response       *)
(* phases, POSTPROCESS (post) and LOGGING.  Rank is the order in which a   *)
(* transaction meets them.                                                 *)
Stream(m) == m \in {"reqline", "reqstream", "resstream"}
Request(m) == m \in {"reqline", "request", "reqstream"}
Forced(m) == m \in {"post", "logging"}
Rank == [reqline |-> 1, request |-> 2, reqstream |-> 2,
         response |-> 3, resstream |-> 3, post |-> 4, logging |-> 5]
Metas == DOMAIN Rank

VARIABLES
    tx,      \* of ib_tx_t, and how often server and post-block hooks were called
    pc,      \* "idle" between events, "start" of a stream run, "rules" of the
             \* list, in a "rule", "after" the loop
    meta,    \* the phase that runs, or ran last
    pass,    \* reqline: 1 for the request line, 2 for the header
    left,    \* rules of the list not run yet
    acts,    \* actions fired by the rule that runs
    failed,  \* the last event ended with an error of an injector
    events,  \* events so far
    last     \* what the last ib_tx_block returned, "none" before there was one

loop == <<meta, pass, left, acts, failed, events>>
vars == <<tx, pc, loop, last>>

\* What ib_tx_block returns.
Status == {"OK", "DECLINED", "EOTHER"}

Tx == [flags : SUBSET Flags, blocked : BOOLEAN, allowed : BOOLEAN, applied : BOOLEAN,
       told : Nat, post : Nat]

\* The fields, flags and positions are of their types, and the bounds hold.
TypeOK ==
    /\ tx \in Tx
    /\ pc \in {"idle", "start", "rules", "rule", "after"}
    /\ meta \in Metas /\ pass \in 1..2
    /\ left \in 0..MaxRules /\ acts \in 0..MaxActs /\ events \in 0..MaxEvents
    /\ failed \in BOOLEAN
    /\ last \in Status \cup {"none"}

Init ==
    /\ tx \in [flags : {{}, {"BLOCKING"}}, blocked : {FALSE}, allowed : {FALSE},
               applied : {FALSE}, told : {0}, post : {0}]
    /\ pc = "idle" /\ meta = "reqline" /\ pass = 1 /\ left = 0 /\ acts = 0
    /\ failed = FALSE /\ events = 0 /\ last = "none"

Set(t, f) == [t EXCEPT !.flags = @ \cup f]
Unset(t, f) == [t EXCEPT !.flags = @ \ f]

-----------------------------------------------------------------------------
(* ib_tx_block: the transactions it can leave and what it returns.         *)

\* Before the hooks; a pre-block hook may turn blocking off.
Hooked(t) ==
    LET h == [Set(t, {"ADVISORY"}) EXCEPT !.blocked = TRUE, !.allowed = FALSE]
    IN  {h, Unset(h, {"BLOCKING"})}

\* The server is told, and whatever it answers the block is applied.
Applied(t) ==
    [Unset(Set(t, {"IMMEDIATE"}), {"BPHASE", "ADVISORY"} \cup AllowFlags)
        EXCEPT !.applied = TRUE, !.told = @ + 1, !.post = @ + 1]

\* Mutant: a transaction that was blocked already is blocked again.
Block_Again(t) ==
    IF "BLOCKING" \notin t.flags THEN {[tx |-> t, rc |-> "DECLINED"]}
    ELSE {[tx |-> h, rc |-> r] : h \in Hooked(t), r \in {"DECLINED", "EOTHER"}}
         \cup {[tx |-> Applied(h), rc |-> r] : h \in Hooked(t), r \in {"OK", "EOTHER"}}

Block(t) ==
    IF "BLOCKING" \notin t.flags THEN {[tx |-> t, rc |-> "DECLINED"]}
    ELSE IF t.blocked /\ t.applied THEN {[tx |-> t, rc |-> "OK"]}
    ELSE {[tx |-> h, rc |-> r] : h \in Hooked(t), r \in {"DECLINED", "EOTHER"}}
         \cup {[tx |-> Applied(h), rc |-> r] : h \in Hooked(t), r \in {"OK", "EOTHER"}}

(* ib_tx_allow.                                                            *)
\* Mutant: a block that is applied does not keep the transaction from it.
Allow_Always(t) ==
    [Unset(Set(t, {"AALL"}), BlockFlags \cup {"APHASE", "AREQUEST"})
        EXCEPT !.blocked = FALSE, !.allowed = TRUE]

Allow(t) ==
    IF t.applied \/ t.allowed THEN t
    ELSE [Unset(Set(t, {"AALL"}), BlockFlags \cup {"APHASE", "AREQUEST"})
             EXCEPT !.blocked = FALSE, !.allowed = TRUE]

(* What an action of a rule can do: block and allow in their forms (in     *)
(* POSTPROCESS allow also allows the phase), setflag of the two flags it   *)
(* may write, and code that calls ib_tx_block or ib_tx_allow (Lua rules).  *)
Fired(t) ==
    Block(t) \cup
    {[tx |-> u, rc |-> last] :
        u \in {Allow(t), t,
               Set(t, {"ADVISORY"}), Set(t, {"ADVISORY", "BPHASE"}),
               Set(t, {"ADVISORY", "IMMEDIATE"}),
               Set(t, {"AALL"} \cup (IF meta = "post" THEN {"APHASE"} ELSE {})),
               Set(t, {"APHASE"}), Set(t, {"AREQUEST"}),
               Set(t, {"BLOCKING"}), Unset(t, {"BLOCKING"}), Unset(t, {"ADVISORY"})}}

-----------------------------------------------------------------------------
(* rule_allow: whether the rest of the phase is skipped.                   *)
\* Mutant: ALLOW_ALL is only looked at in the request phases.
Skips_AllOnlyRequest(t, m, checkPhase) ==
    /\ ~t.blocked
    /\ \/ Request(m) /\ t.flags \cap {"AALL", "AREQUEST"} # {}
       \/ checkPhase /\ "APHASE" \in t.flags

Skips(t, m, checkPhase) ==
    /\ ~t.blocked
    /\ \/ ~Forced(m) /\ "AALL" \in t.flags
       \/ Request(m) /\ "AREQUEST" \in t.flags
       \/ checkPhase /\ "APHASE" \in t.flags

\* The label finish of run_phase_rules, and the last lines of the stream runs.
Finish(t) == tx' = Unset(t, {"APHASE"}) /\ pc' = "idle"

\* A run over a list ends: for reqline the request line is followed by the header.
RunEnds(m, t) ==
    \/ Finish(t) /\ UNCHANGED pass
    \/ m = "reqline" /\ pass = 1 /\ tx' = t /\ pc' = "start" /\ pass' = 2

\* inject_rules and append_context_rules: an injector may fail; else with no
\* rules the run ends, and with some the loop begins.
List(m, t) ==
    \/ /\ left' = 0 /\ failed' = TRUE /\ UNCHANGED pass
       /\ IF m = "reqline" THEN tx' = t /\ pc' = "idle" ELSE Finish(t)
    \/ /\ failed' = FALSE
       /\ \E n \in 0..MaxRules :
             /\ left' = n
             /\ IF n = 0 THEN RunEnds(m, t)
                         ELSE tx' = t /\ pc' = "rules" /\ UNCHANGED pass

(* A module's hook of a state runs between two events and calls            *)
(* ib_tx_block or ib_tx_allow, or changes the mode (xrules_acls.cpp, on    *)
(* behalf of xrules.cpp).                                                  *)
Hook ==
    /\ pc = "idle"
    /\ \/ \E r \in Block(tx) : tx' = r.tx /\ last' = r.rc
       \/ /\ tx' \in {Allow(tx), Set(tx, {"BLOCKING"}), Unset(tx, {"BLOCKING"})}
          /\ UNCHANGED last
    /\ UNCHANGED <<pc, loop>>

\* The next event: the phases in their order, the forced ones and reqline once.
Event(m) ==
    /\ pc = "idle" /\ events < MaxEvents
    /\ Rank[m] >= Rank[meta]
    /\ Forced(m) => m # meta
    /\ m = "reqline" => events = 0
    /\ meta' = m /\ events' = events + 1
    /\ acts' = 0

(* run_phase_rules up to the loop.                                         *)
\* Mutant: a block does not keep a phase from running.
PhaseStart_NoBlockCheck(m) ==
    /\ ~Stream(m) /\ Event(m)
    /\ \/ /\ Skips(tx, m, TRUE)
          /\ Finish(tx)
          /\ left' = 0 /\ failed' = FALSE /\ UNCHANGED <<pass, last>>
       \/ /\ ~Skips(tx, m, TRUE)
          /\ List(m, Unset(tx, {"APHASE"}))
          /\ UNCHANGED last

PhaseStart(m) ==
    /\ ~Stream(m) /\ Event(m)
    /\ \/ /\ Skips(tx, m, TRUE)
          /\ Finish(tx)
          /\ left' = 0 /\ failed' = FALSE /\ UNCHANGED <<pass, last>>
       \/ /\ ~Skips(tx, m, TRUE)
          /\ tx.flags \cap {"BPHASE", "IMMEDIATE"} # {} /\ ~Forced(m)
          /\ \E r \in Block(tx) :
                /\ last' = r.rc
                /\ IF r.rc \in {"OK", "DECLINED"}
                   THEN Finish(r.tx) /\ left' = 0 /\ failed' = FALSE /\ UNCHANGED pass
                   ELSE List(m, Unset(r.tx, {"APHASE"}))
       \/ /\ ~Skips(tx, m, TRUE)
          /\ tx.flags \cap {"BPHASE", "IMMEDIATE"} = {} \/ Forced(m)
          /\ List(m, Unset(tx, {"APHASE"}))
          /\ UNCHANGED last

(* run_stream_header_rules, run_stream_txdata_rules, run_stream_tx_rules;  *)
(* of the request line and the header of reqline either may be empty.      *)
StreamEvent(m) ==
    /\ Stream(m) /\ Event(m)
    /\ tx' = Unset(tx, {"APHASE"}) /\ pc' = "start"
    /\ pass' \in (IF m = "reqline" THEN 1..2 ELSE {pass})
    /\ left' = 0 /\ failed' = FALSE /\ UNCHANGED last

(* run_stream_rules up to the loop.                                        *)
StreamStart ==
    /\ pc = "start"
    /\ IF Skips(tx, meta, FALSE)
       THEN RunEnds(meta, tx) /\ UNCHANGED <<left, failed>>
       ELSE List(meta, tx)
    /\ UNCHANGED <<meta, acts, events, last>>

(* The head of the loops.                                                  *)
NextRule ==
    /\ pc = "rules"
    /\ \/ /\ left = 0 \/ Skips(tx, meta, TRUE) \/ Stream(meta)  \* rule_exec_push_rule fails
          /\ pc' = "after" /\ UNCHANGED <<left, acts>>
       \/ /\ left > 0 /\ ~Skips(tx, meta, TRUE)
          /\ pc' = "rule" /\ left' = left - 1 /\ acts' = 0
    /\ UNCHANGED <<tx, meta, pass, failed, events, last>>

(* execute_action, for an action of the rule, of a value or of a chained   *)
(* rule.                                                                   *)
Act ==
    /\ pc = "rule" /\ acts < MaxActs
    /\ acts' = acts + 1
    /\ \E r \in Fired(tx) : tx' = r.tx /\ last' = r.rc
    /\ UNCHANGED <<pc, meta, pass, left, failed, events>>

(* The rest of the loop of run_phase_rules.  The status of ib_tx_block is  *)
(* kept in a bool, where every error equals IB_DECLINED: the phase is left *)
(* whatever it is.                                                         *)
PhaseRuleDone ==
    /\ pc = "rule" /\ ~Stream(meta)
    /\ \/ /\ "AALL" \in tx.flags
          /\ Finish(Allow(tx)) /\ UNCHANGED last
       \/ /\ "AALL" \notin tx.flags /\ "IMMEDIATE" \in tx.flags
          /\ \E r \in Block(tx) : Finish(r.tx) /\ last' = r.rc
       \/ /\ tx.flags \cap {"AALL", "IMMEDIATE"} = {}
          /\ pc' = IF tx.flags \cap {"APHASE", "AREQUEST"} # {} THEN "after" ELSE "rules"
          /\ UNCHANGED <<tx, last>>
    /\ UNCHANGED loop

(* The end of execute_stream_operator for a value.  A rule over headers    *)
(* goes on with the next one; no block or allow ends the loop.             *)
StreamValueDone ==
    /\ pc = "rule" /\ Stream(meta)
    /\ \/ "AALL" \in tx.flags /\ tx' = Allow(tx) /\ UNCHANGED last
       \/ /\ "AALL" \notin tx.flags /\ "IMMEDIATE" \in tx.flags
          /\ \E r \in Block(tx) : tx' = r.tx /\ last' = r.rc
       \/ /\ tx.flags \cap {"AALL", "IMMEDIATE"} = {} \/ acts = 0  \* the operator failed
          /\ UNCHANGED <<tx, last>>
    /\ \/ pc' = "rules" /\ UNCHANGED acts
       \/ meta # "reqstream" /\ acts < MaxActs /\ acts' = acts + 1 /\ UNCHANGED pc
    /\ UNCHANGED <<meta, pass, left, failed, events>>

(* What follows the loops.                                                 *)
\* Mutant: a phase block is forgotten when the loop was left early.
After_OnlyAtTheEnd ==
    /\ pc = "after"
    /\ \/ /\ "BPHASE" \in tx.flags /\ left = 0
          /\ \E r \in Block(tx) : RunEnds(meta, r.tx) /\ last' = r.rc
       \/ ("BPHASE" \notin tx.flags \/ left > 0) /\ RunEnds(meta, tx) /\ UNCHANGED last
    /\ UNCHANGED <<meta, left, acts, failed, events>>

After ==
    /\ pc = "after"
    /\ \/ /\ "BPHASE" \in tx.flags
          /\ \E r \in Block(tx) : RunEnds(meta, r.tx) /\ last' = r.rc
       \/ "BPHASE" \notin tx.flags /\ RunEnds(meta, tx) /\ UNCHANGED last
    /\ UNCHANGED <<meta, left, acts, failed, events>>

Next ==
    \/ \E m \in Metas : PhaseStart(m) \/ StreamEvent(m)
    \/ Hook
    \/ StreamStart
    \/ NextRule
    \/ Act
    \/ PhaseRuleDone
    \/ StreamValueDone
    \/ After

Spec == Init /\ [][Next]_vars

-----------------------------------------------------------------------------
RuleStarts == pc = "rules" /\ pc' = "rule"

(* Once a block was applied the transaction stays blocked and is never     *)
(* allowed, whatever rules, phases and streams follow (block_applied of    *)
(* engine_types.h, ib_tx_allow).                                           *)
AppliedIsFinal ==
    [][tx.applied => tx'.applied /\ tx'.blocked /\ ~tx'.allowed]_vars

(* The server is told of a block and the post-block hooks are called once  *)
(* at most, however often rules, the ends of phases and the starts of      *)
(* phases ask for one, and the block is applied exactly when it was told.  *)
ToldOnce ==
    /\ tx.told = tx.post /\ tx.told <= 1
    /\ tx.applied <=> tx.told = 1

(* run_phase_rules starts no rule on a transaction whose block was         *)
(* applied, but for the forced phases, and for the one phase at whose      *)
(* start ib_tx_block applied the block and then failed in a post-block     *)
(* hook.  It is not so of streams: run_stream_rules never looks at the     *)
(* block flags, and starts the rules of a stream on a blocked transaction. *)
NoPhaseRuleAfterBlock ==
    [][RuleStarts /\ tx.applied /\ ~Stream(meta) => Forced(meta) \/ last = "EOTHER"]_vars

(* On an allowed transaction no rule starts before post-processing, in the *)
(* phase that allowed it or in any later one, streams included.            *)
AllowSkipsRules ==
    [][RuleStarts /\ tx.allowed => Forced(meta)]_vars

(* allow:phase ends with the phase: between events its flag is never set,  *)
(* so no later phase is skipped for it, unless an injector failed.         *)
PhaseAllowEndsNormally ==
    pc = "idle" /\ ~failed => "APHASE" \notin tx.flags

(* A phase block is never forgotten: if its flag is still set between      *)
(* events, the transaction was blocked or allowed for good, or             *)
(* ib_tx_block was called and did not succeed.                             *)
PhaseBlockTried ==
    pc = "idle" /\ "BPHASE" \in tx.flags
        => tx.applied \/ tx.allowed \/ last \in {"DECLINED", "EOTHER"}
=============================================================================
