------------------------- MODULE StateNotifyProofs -------------------------
(***************************************************************************)
(* The transaction states come at most once and in the documented order,   *)
(* and the Traffic Server session never closes a connection with           *)
(* transactions left, for any number of transactions and failures.         *)
(*                                                                         *)
(* The argument: a state is notified only together with its flag (FlagOf), *)
(* the flags of an open transaction form a ladder (Open), and an operation *)
(* notifies a state only when the flags above it on the ladder are not     *)
(* set.  Each operation of StateNotify is shown to keep Open by itself, on *)
(* the transaction record; the actions follow from these lemmas.           *)
(*                                                                         *)
(* With nginx a transaction is logged early and called on afterwards, so   *)
(* Open does not hold there.  What does hold for every server (Fit, NInv)  *)
(* is enough to show that closing a connection logs its transaction, and   *)
(* that body data is processed only after the transaction has a context.   *)
(***************************************************************************)
EXTENDS StateNotify, TLAPS

(* Where the flags stand in the documented order of the states. *)
LEMMA FlagRank ==
    ASSUME NEW u \in States
    PROVE  /\ Rank[u] \in Nat
           /\ \/ FlagOf[u] = "REQ_STARTED" /\ Rank[u] = 1
              \/ FlagOf[u] = "REQ_HAS_DATA" /\ Rank[u] = 2
              \/ FlagOf[u] = "REQ_HEADER" /\ Rank[u] \in 3..6
              \/ FlagOf[u] = "REQ_FINISHED" /\ Rank[u] \in 7..9
              \/ FlagOf[u] = "RES_STARTED" /\ Rank[u] = 10
              \/ FlagOf[u] = "RES_HEADER" /\ Rank[u] \in 11..12
              \/ FlagOf[u] = "RES_FINISHED" /\ Rank[u] \in {13, 14, 17}
              \/ FlagOf[u] = "POSTPROCESS" /\ Rank[u] = 15
              \/ FlagOf[u] = "LOGGING" /\ Rank[u] = 16
  BY DEF States, Rank, FlagOf

(* The states themselves, for the leaves that do not expand the tables. *)
LEMMA StateValues ==
    /\ {"tx_started", "request_started", "request_header_process",
        "handle_context_tx", "request_header_finished",
        "handle_request_header", "request_finished", "handle_request",
        "tx_process", "response_started", "response_header_finished",
        "handle_response_header", "response_finished", "handle_response",
        "handle_postprocess", "handle_logging", "tx_finished"} = States
    /\ Rank["tx_started"] = 1 /\ Rank["request_started"] = 2
    /\ Rank["request_header_process"] = 3 /\ Rank["handle_context_tx"] = 4
    /\ Rank["request_header_finished"] = 5
    /\ Rank["handle_request_header"] = 6 /\ Rank["request_finished"] = 7
    /\ Rank["handle_request"] = 8 /\ Rank["tx_process"] = 9
    /\ Rank["response_started"] = 10
    /\ Rank["response_header_finished"] = 11
    /\ Rank["handle_response_header"] = 12 /\ Rank["response_finished"] = 13
    /\ Rank["handle_response"] = 14 /\ Rank["handle_postprocess"] = 15
    /\ Rank["handle_logging"] = 16 /\ Rank["tx_finished"] = 17
  BY Zenon DEF States, Rank

LEMMA StateFlags ==
    /\ FlagOf["tx_started"] = "REQ_STARTED"
    /\ FlagOf["request_started"] = "REQ_HAS_DATA"
    /\ FlagOf["request_header_process"] = "REQ_HEADER"
    /\ FlagOf["handle_context_tx"] = "REQ_HEADER"
    /\ FlagOf["request_header_finished"] = "REQ_HEADER"
    /\ FlagOf["handle_request_header"] = "REQ_HEADER"
    /\ FlagOf["request_finished"] = "REQ_FINISHED"
    /\ FlagOf["handle_request"] = "REQ_FINISHED"
    /\ FlagOf["tx_process"] = "REQ_FINISHED"
    /\ FlagOf["response_started"] = "RES_STARTED"
    /\ FlagOf["response_header_finished"] = "RES_HEADER"
    /\ FlagOf["handle_response_header"] = "RES_HEADER"
    /\ FlagOf["response_finished"] = "RES_FINISHED"
    /\ FlagOf["handle_response"] = "RES_FINISHED"
    /\ FlagOf["handle_postprocess"] = "POSTPROCESS"
    /\ FlagOf["handle_logging"] = "LOGGING"
    /\ FlagOf["tx_finished"] = "RES_FINISHED"
  BY Zenon DEF FlagOf

-----------------------------------------------------------------------------
(* What each step on a transaction record does to it. *)

LEMMA MarkEffect ==
    ASSUME NEW r \in TxType, NEW fs \in SUBSET Flags
    PROVE  /\ Mark(r, fs) \in TxType
           /\ Mark(r, fs).flags = r.flags \cup fs
           /\ Mark(r, fs).states = r.states
           /\ Mark(r, fs).ordered = r.ordered
           /\ Mark(r, fs).rc = r.rc
  BY Zenon DEF Mark, TxType

LEMMA ReturnEffect ==
    ASSUME NEW r \in TxType, NEW s \in Statuses
    PROVE  /\ Return(r, s) \in TxType
           /\ Return(r, s).flags = r.flags
           /\ Return(r, s).states = r.states
           /\ Return(r, s).ordered = r.ordered
           /\ Return(r, s).rc = s
  BY Zenon DEF Return, TxType

LEMMA NotifiedEffect ==
    ASSUME NEW r \in TxType, NEW s \in States, r.ordered,
           \A u \in r.states : Rank[u] < Rank[s]
    PROVE  /\ Notified(r, s) \in TxType
           /\ Notified(r, s).flags = r.flags
           /\ Notified(r, s).states = r.states \cup {s}
           /\ Notified(r, s).ordered
           /\ Notified(r, s).rc = "OK"
  BY Zenon DEF Notified, TxType, Statuses

LEMMA NotifyTxEffect ==
    ASSUME NEW r \in TxType, NEW s \in States, r.ordered,
           \A u \in r.states : Rank[u] < Rank[s]
    PROVE  /\ NotifyTx(r, s) \in TxType
           /\ NotifyTx(r, s).flags = r.flags
           /\ NotifyTx(r, s).states = r.states \cup {s}
           /\ NotifyTx(r, s).ordered
           /\ NotifyTx(r, s).rc = "OK"
  BY Zenon DEF NotifyTx, Notified, TxType, Statuses

LEMMA PumpCloseEffect ==
    ASSUME NEW r \in TxType, NEW pump \in {"request", "response"},
           NEW fail, NEW fails
    PROVE  /\ PumpClose(r, pump, fail, fails) \in TxType
           /\ PumpClose(r, pump, fail, fails).flags = r.flags
           /\ PumpClose(r, pump, fail, fails).states = r.states
           /\ PumpClose(r, pump, fail, fails).ordered = r.ordered
  BY Zenon DEF PumpClose, TxType, Statuses

LEMMA BodyDataEffect ==
    ASSUME NEW r \in TxType, NEW direction \in Bodies,
           NEW fs \in SUBSET Flags, NEW fails
    PROVE  /\ BodyData(r, direction, fs, fails) \in TxType
           /\ BodyData(r, direction, fs, fails).flags = r.flags \cup fs
           /\ BodyData(r, direction, fs, fails).states = r.states
           /\ BodyData(r, direction, fs, fails).ordered = r.ordered
  BY Zenon DEF BodyData, Mark, TxType, Statuses

LEMMA KeptEffect ==
    ASSUME NEW r \in TxType
    PROVE  /\ Kept(r) \in TxType
           /\ Kept(r).flags = r.flags
           /\ Kept(r).states = r.states
           /\ Kept(r).ordered = r.ordered
  BY Zenon DEF Kept, TxType, Statuses, Bodies

-----------------------------------------------------------------------------
(* Each operation keeps a transaction open in the sense of Open. *)

Good(r) == r \in TxType /\ Open(r)

LEMMA ReturnGood ==
    ASSUME NEW r, Good(r), NEW s \in Statuses
    PROVE  Good(Return(r, s))
  BY ReturnEffect, Zenon DEF Good, Open, Ladder, Has

(* Nothing has been notified of a transaction that is not started. *)
LEMMA RequestStartedGood ==
    ASSUME NEW r, Good(r), NEW line \in ReqLines
    PROVE  Good(RequestStarted(r, line))
  <1> DEFINE m == Mark(r, {"REQ_STARTED"})
             a == NotifyTx(m, "tx_started")
             fs == {"REQ_HAS_DATA"} \cup
                   IF line = "http09" THEN {"HTTP09"} ELSE {}
             b == Mark(a, fs)
             c == Notified(b, "request_started")
             d == Mark(c, {"REQ_LINE"})
  <1>1. CASE Has(r, "REQ_STARTED")
    BY <1>1, ReturnGood, Zenon DEF RequestStarted, Statuses
  <1>2. CASE ~Has(r, "REQ_STARTED")
    <2>1. /\ m \in TxType /\ m.flags = r.flags \cup {"REQ_STARTED"}
          /\ m.states = r.states /\ m.ordered
      BY MarkEffect, Zenon DEF Good, Open, Flags
    <2>2. r.states = {}
      BY <1>2, FlagRank DEF Good, Open, Ladder, Has, TxType
    <2>3. /\ a \in TxType /\ a.flags = r.flags \cup {"REQ_STARTED"}
          /\ a.states = {"tx_started"} /\ a.ordered
      BY <2>1, <2>2, NotifyTxEffect, StateValues
    <2>4. Good(a)
      BY <2>3, <1>2, StateFlags DEF Good, Open, Ladder, Has
    <2>5. /\ b \in TxType /\ b.flags = a.flags \cup fs
          /\ b.states = a.states /\ b.ordered
      <3>1. fs \in SUBSET Flags
        BY Zenon DEF Flags
      <3> QED BY <2>3, <3>1, MarkEffect
    <2> HIDE DEF m, a, fs, b
    <2>6. /\ c \in TxType /\ c.flags = b.flags /\ c.ordered
          /\ c.states = {"tx_started", "request_started"}
      <3>1. b.states = {"tx_started"} /\ b.ordered
        BY <2>3, <2>5, Zenon
      <3>2. \A u \in b.states : Rank[u] < Rank["request_started"]
        BY <3>1, StateValues
      <3>3. "request_started" \in States
        BY StateValues, Zenon
      <3>4. c.states = b.states \cup {"request_started"}
        BY <2>5, <3>1, <3>2, <3>3, NotifiedEffect, Zenon
      <3> QED BY <2>5, <3>1, <3>2, <3>3, <3>4, NotifiedEffect, Zenon
    <2> HIDE DEF c
    <2>7. /\ d \in TxType /\ d.flags = b.flags \cup {"REQ_LINE"}
          /\ d.states = {"tx_started", "request_started"} /\ d.ordered
      BY <2>6, MarkEffect DEF Flags
    <2>8. Good(d)
      <3>1. {"REQ_STARTED", "REQ_HAS_DATA", "REQ_LINE"} \subseteq d.flags
        BY <2>3, <2>5, <2>7, Zenon DEF fs
      <3>2. \A f \in Flags :
              f \notin {"REQ_STARTED", "REQ_HAS_DATA", "REQ_LINE", "HTTP09"}
              => (f \in d.flags <=> f \in r.flags)
        BY <2>3, <2>5, <2>7, Zenon DEF fs
      <3> QED
        BY <3>1, <3>2, <1>2, <2>7, StateFlags
        DEF Good, Open, Ladder, Has, Flags
    <2> HIDE DEF d
    <2> QED
      <3>1. RequestStarted(r, line) \in {a, d, Return(a, "EINVAL")}
        BY <1>2, Zenon DEF RequestStarted, m, a, fs, b, c, d
      <3> QED BY <3>1, <2>4, <2>8, ReturnGood, Zenon DEF Statuses
  <1> QED BY <1>1, <1>2, Zenon

(* Nothing beyond the request line has been notified of a transaction      *)
(* whose header is not.                                                    *)
LEMMA RequestHeaderFinishedGood ==
    ASSUME NEW r, Good(r), NEW fails
    PROVE  Good(RequestHeaderFinished(r, fails))
  <1> DEFINE m == Mark(r, {"REQ_HEADER"})
             a == NotifyTx(m, "request_header_process")
             b == NotifyTx(a, "handle_context_tx")
             c == NotifyTx(b, "request_header_finished")
             d == NotifyTx(c, "handle_request_header")
  <1>1. CASE \/ ~Has(r, "REQ_STARTED") \/ ~Has(r, "REQ_HAS_DATA")
             \/ Has(r, "REQ_HEADER")
    BY <1>1, ReturnGood, Zenon DEF RequestHeaderFinished, Statuses
  <1>2. CASE /\ Has(r, "REQ_STARTED") /\ Has(r, "REQ_HAS_DATA")
             /\ ~Has(r, "REQ_HEADER")
    <2>1. /\ m \in TxType /\ m.flags = r.flags \cup {"REQ_HEADER"}
          /\ m.states = r.states /\ m.ordered
      BY MarkEffect, Zenon DEF Good, Open, Flags
    <2>2. \A u \in r.states : Rank[u] < 3
      BY <1>2, FlagRank DEF Good, Open, Ladder, Has, TxType
    <2>3. /\ a \in TxType /\ a.flags = m.flags /\ a.ordered
          /\ a.states = r.states \cup {"request_header_process"}
      BY <2>1, <2>2, NotifyTxEffect, StateValues
    <2>4. \A u \in a.states : Rank[u] < 4
      BY <2>2, <2>3, FlagRank, StateValues DEF Good, TxType
    <2>5. /\ b \in TxType /\ b.flags = m.flags /\ b.ordered
          /\ b.states = a.states \cup {"handle_context_tx"}
      BY <2>3, <2>4, NotifyTxEffect, StateValues, Zenon
    <2>6. \A u \in b.states : Rank[u] < 5
      BY <2>3, <2>4, <2>5, FlagRank, StateValues DEF TxType
    <2>7. /\ c \in TxType /\ c.flags = m.flags /\ c.ordered
          /\ c.states = b.states \cup {"request_header_finished"}
      BY <2>5, <2>6, NotifyTxEffect, StateValues, Zenon
    <2>8. \A u \in c.states : Rank[u] < 6
      BY <2>5, <2>6, <2>7, FlagRank, StateValues DEF TxType
    <2>9. /\ d \in TxType /\ d.flags = m.flags /\ d.ordered
          /\ d.states = c.states \cup {"handle_request_header"}
      BY <2>7, <2>8, NotifyTxEffect, StateValues, Zenon
    <2> HIDE DEF m, a, b, c, d
    <2>10. Good(a) /\ Good(d)
      <3>1. /\ a.flags = r.flags \cup {"REQ_HEADER"}
            /\ d.flags = r.flags \cup {"REQ_HEADER"}
        BY <2>1, <2>3, <2>9, Zenon
      <3>2. d.states = r.states \cup
              {"request_header_process", "handle_context_tx",
               "request_header_finished", "handle_request_header"}
        BY <2>3, <2>5, <2>7, <2>9, Zenon
      <3>3. \A s \in d.states : FlagOf[s] \in d.flags
        BY <3>1, <3>2, StateFlags DEF Good, Open
      <3>4. \A s \in a.states : FlagOf[s] \in a.flags
        BY <2>3, <3>1, StateFlags, Zenon DEF Good, Open
      <3>5. Ladder(a) /\ Ladder(d)
        BY <1>2, <3>1 DEF Good, Open, Ladder, Has
      <3>6. /\ Has(a, "LOGGING") => Has(a, "RES_FINISHED")
            /\ Has(d, "LOGGING") => Has(d, "RES_FINISHED")
        BY <3>1, Zenon DEF Good, Open, Has
      <3> QED BY <2>3, <2>9, <3>3, <3>4, <3>5, <3>6, Zenon DEF Good, Open
    <2> QED
      <3>1. RequestHeaderFinished(r, fails) \in {Return(a, "EOTHER"), d}
        BY <1>2, Zenon DEF RequestHeaderFinished, m, a, b, c, d
      <3> QED BY <3>1, <2>10, ReturnGood, Zenon DEF Statuses
  <1> QED BY <1>1, <1>2, Zenon

LEMMA WithRequestHeaderGood ==
    ASSUME NEW r, Good(r), NEW fails
    PROVE  Good(WithRequestHeader(r, fails))
  BY RequestHeaderFinishedGood, Zenon DEF WithRequestHeader

(* The flags a call of the header states can leave. *)
LEMMA WithRequestHeaderFlags ==
    ASSUME NEW r, Good(r), NEW fails
    PROVE  WithRequestHeader(r, fails).flags =
             IF Has(r, "REQ_HAS_DATA") THEN r.flags \cup {"REQ_HEADER"}
                                       ELSE r.flags
  <1>1. CASE Has(r, "REQ_HEADER")
    BY <1>1, Zenon DEF WithRequestHeader, Good, Open, Ladder, Has
  <1>2. CASE ~Has(r, "REQ_HEADER") /\ ~Has(r, "REQ_HAS_DATA")
    BY <1>2, ReturnEffect, Zenon
    DEF WithRequestHeader, RequestHeaderFinished, Good, Statuses
  <1>3. CASE ~Has(r, "REQ_HEADER") /\ Has(r, "REQ_HAS_DATA")
    <2>1. Has(r, "REQ_STARTED")
      BY <1>3, Zenon DEF Good, Open, Ladder
    <2>2. Has(r, "REQ_HAS_DATA")
      BY <1>3, Zenon
    <2>3. WithRequestHeader(r, fails) = RequestHeaderFinished(r, fails)
      BY <1>3, Zenon DEF WithRequestHeader
    <2>4. RequestHeaderFinished(r, fails).flags = r.flags \cup {"REQ_HEADER"}
      BY <1>3, <2>1, <2>2, Zenon
      DEF RequestHeaderFinished, NotifyTx, Notified, Mark, Return, Good, TxType
    <2> QED BY <2>2, <2>3, <2>4, Zenon
  <1> QED BY <1>1, <1>2, <1>3, Zenon

LEMMA BodyDataGood ==
    ASSUME NEW r, Good(r), NEW direction \in Bodies, NEW fails,
           NEW fs \in SUBSET {"REQ_BODY", "RES_HAS_DATA", "RES_BODY"}
    PROVE  Good(BodyData(r, direction, fs, fails))
  <1>1. fs \in SUBSET Flags
    BY Zenon DEF Flags
  <1> QED BY <1>1, BodyDataEffect DEF Good, Open, Ladder, Has

LEMMA RequestBodyDataGood ==
    ASSUME NEW r, Good(r), NEW empty \in BOOLEAN, NEW fails
    PROVE  Good(RequestBodyData(r, empty, fails))
  <1>1. Good(BodyData(WithRequestHeader(r, fails), "request", {"REQ_BODY"},
                      fails))
    BY WithRequestHeaderGood, BodyDataGood, Zenon DEF Bodies
  <1>2. Good(Return(r, "OK")) /\ Good(Return(r, "EINVAL"))
    BY ReturnGood, Zenon DEF Statuses
  <1> QED BY <1>1, <1>2, Zenon DEF RequestBodyData

(* Three states in a row on a record whose states are all of lower rank. *)
LEMMA NotifyThree ==
    ASSUME NEW r \in TxType, r.ordered,
           NEW x \in States, NEW y \in States, NEW z \in States,
           Rank[x] < Rank[y], Rank[y] < Rank[z],
           \A u \in r.states : Rank[u] < Rank[x],
           NEW d, d = NotifyTx(NotifyTx(NotifyTx(r, x), y), z)
    PROVE  /\ d \in TxType /\ d.flags = r.flags /\ d.ordered
           /\ d.states = r.states \cup {x, y, z}
  <1> DEFINE a == NotifyTx(r, x)
             b == NotifyTx(a, y)
  <1>1. /\ a \in TxType /\ a.flags = r.flags /\ a.ordered
        /\ a.states = r.states \cup {x}
    BY NotifyTxEffect, Zenon
  <1> HIDE DEF a
  <1>2. \A u \in a.states : Rank[u] < Rank[y]
    BY <1>1, FlagRank DEF TxType
  <1>3. /\ b \in TxType /\ b.flags = r.flags /\ b.ordered
        /\ b.states = r.states \cup {x, y}
    BY <1>1, <1>2, NotifyTxEffect
  <1> HIDE DEF b
  <1>4. \A u \in b.states : Rank[u] < Rank[z]
    BY <1>2, <1>1, <1>3, FlagRank DEF TxType
  <1>5. d = NotifyTx(b, z)
    BY Zenon DEF a, b
  <1>6. /\ d \in TxType /\ d.flags = b.flags /\ d.ordered
        /\ d.states = b.states \cup {z}
    BY <1>3, <1>4, <1>5, NotifyTxEffect
  <1> QED BY <1>3, <1>6, Zenon

(* A request that is not finished has had no state beyond its header. *)
LEMMA RequestFinishedGood ==
    ASSUME NEW r, Good(r), NEW fails
    PROVE  Good(RequestFinished(r, fails))
  <1> DEFINE h == WithRequestHeader(r, fails)
             a == Mark(h, {"REQ_FINISHED"})
             d == NotifyTx(NotifyTx(NotifyTx(a, "request_finished"),
                                    "handle_request"), "tx_process")
             e == PumpClose(d, "request", "request_close", fails)
  <1>1. CASE ~Has(r, "REQ_STARTED") \/ Has(r, "REQ_FINISHED")
    BY <1>1, ReturnGood, Zenon DEF RequestFinished, Statuses
  <1>2. CASE Has(r, "REQ_STARTED") /\ ~Has(r, "REQ_FINISHED")
    <2>1. Good(h)
      BY WithRequestHeaderGood, Zenon
    <2>2. h.flags = IF Has(r, "REQ_HAS_DATA") THEN r.flags \cup {"REQ_HEADER"}
                                              ELSE r.flags
      BY WithRequestHeaderFlags, Zenon
    <2> HIDE DEF h
    <2>3. /\ a \in TxType /\ a.flags = h.flags \cup {"REQ_FINISHED"}
          /\ a.states = h.states /\ a.ordered
      BY <2>1, MarkEffect, Zenon DEF Good, Open, Flags
    <2> HIDE DEF a
    <2>4. /\ ~Has(h, "REQ_FINISHED") /\ Has(h, "REQ_STARTED")
          /\ Has(h, "REQ_HAS_DATA") => Has(h, "REQ_HEADER")
      BY <1>2, <2>2 DEF Has
    <2>5. \A u \in a.states : Rank[u] < 7
      BY <2>1, <2>3, <2>4, FlagRank DEF Good, Open, Ladder, Has, TxType
    <2>6. /\ d \in TxType /\ d.flags = a.flags /\ d.ordered
          /\ d.states = a.states \cup {"request_finished", "handle_request",
                                      "tx_process"}
      <3>1. /\ "request_finished" \in States /\ "handle_request" \in States
            /\ "tx_process" \in States
        BY StateValues, Zenon
      <3>2. /\ Rank["request_finished"] = 7 /\ Rank["handle_request"] = 8
            /\ Rank["tx_process"] = 9
        BY StateValues, Zenon
      <3>3. \A u \in a.states : Rank[u] < Rank["request_finished"]
        BY <2>5, <3>2, Zenon
      <3>4. /\ Rank["request_finished"] < Rank["handle_request"]
            /\ Rank["handle_request"] < Rank["tx_process"]
        BY <3>2
      <3> QED BY <2>3, <3>1, <3>3, <3>4, NotifyThree
    <2> HIDE DEF d
    <2>7. /\ e \in TxType /\ e.flags = a.flags /\ e.ordered
          /\ e.states = d.states
      BY <2>6, PumpCloseEffect, Zenon
    <2> HIDE DEF e
    <2>8. Good(e)
      BY <2>1, <2>3, <2>4, <2>6, <2>7, StateFlags
      DEF Good, Open, Ladder, Has
    <2>9. RequestFinished(r, fails) = e
      BY <1>2, Zenon DEF RequestFinished, h, a, d, e
    <2> QED BY <2>8, <2>9, Zenon
  <1> QED BY <1>1, <1>2, Zenon

(* The flags the end of a request leaves. *)
LEMMA RequestFinishedFlags ==
    ASSUME NEW r, Good(r), NEW fails, Has(r, "REQ_STARTED"),
           ~Has(r, "REQ_FINISHED")
    PROVE  RequestFinished(r, fails).flags =
             r.flags \cup {"REQ_FINISHED"} \cup
             IF Has(r, "REQ_HAS_DATA") THEN {"REQ_HEADER"} ELSE {}
  <1> DEFINE h == WithRequestHeader(r, fails)
  <1>1. h \in TxType
    BY WithRequestHeaderGood, Zenon DEF Good
  <1>2. h.flags = IF Has(r, "REQ_HAS_DATA") THEN r.flags \cup {"REQ_HEADER"}
                                            ELSE r.flags
    BY WithRequestHeaderFlags, Zenon
  <1> HIDE DEF h
  <1>3. RequestFinished(r, fails) =
          PumpClose(NotifyTx(NotifyTx(NotifyTx(Mark(h, {"REQ_FINISHED"}),
                      "request_finished"), "handle_request"), "tx_process"),
                    "request", "request_close", fails)
    BY Zenon DEF RequestFinished, h
  <1>4. RequestFinished(r, fails).flags = h.flags \cup {"REQ_FINISHED"}
    BY <1>1, <1>3 DEF PumpClose, NotifyTx, Notified, Mark, TxType
  <1> QED BY <1>2, <1>4, Zenon

(* A response that starts has had its request finished, and none of its    *)
(* own states notified.                                                    *)
LEMMA ResponseStartedGood ==
    ASSUME NEW r, Good(r), NEW line \in ResLines, NEW fails
    PROVE  /\ Good(ResponseStarted(r, line, fails))
           /\ Has(r, "REQ_HAS_DATA") =>
                 Has(ResponseStarted(r, line, fails), "RES_STARTED")
           /\ ~Has(r, "RES_HEADER") =>
                 ~Has(ResponseStarted(r, line, fails), "RES_HEADER")
           /\ Has(r, "REQ_HAS_DATA") =>
                 Has(ResponseStarted(r, line, fails), "REQ_HAS_DATA")
  <1> DEFINE a == IF Has(r, "REQ_FINISHED") THEN r
                  ELSE RequestFinished(r, fails)
             m == Mark(a, {"RES_STARTED"})
             n == Notified(m, "response_started")
             b == NotifyResponseLine(m, line)
             e == Mark(b, {"RES_HAS_DATA", "RES_LINE"})
  <1>1. CASE \/ ~Has(r, "REQ_STARTED") \/ ~Has(r, "REQ_HAS_DATA")
             \/ Has(r, "RES_STARTED")
    <2>1. ResponseStarted(r, line, fails) \in
            {Return(r, "OK"), Return(r, "EINVAL")}
      BY <1>1, Zenon DEF ResponseStarted
    <2>2. ResponseStarted(r, line, fails).flags = r.flags
      BY <2>1, ReturnEffect DEF Good, Statuses
    <2> QED
      BY <1>1, <2>1, <2>2, ReturnGood, Zenon
      DEF Statuses, Has, Good, Open, Ladder
  <1>2. CASE /\ Has(r, "REQ_STARTED") /\ Has(r, "REQ_HAS_DATA")
             /\ ~Has(r, "RES_STARTED")
    <2>1. Good(a)
      BY RequestFinishedGood, Zenon
    <2>2. a.flags = r.flags \cup {"REQ_FINISHED", "REQ_HEADER"}
      <3>1. CASE Has(r, "REQ_FINISHED")
        BY <1>2, <3>1, Zenon DEF Good, Open, Ladder, Has
      <3>2. CASE ~Has(r, "REQ_FINISHED")
        BY <1>2, <3>2, RequestFinishedFlags, Zenon
      <3> QED BY <3>1, <3>2, Zenon
    <2> HIDE DEF a
    <2>3. /\ Has(a, "REQ_FINISHED") /\ Has(a, "REQ_HAS_DATA")
          /\ Has(a, "REQ_HEADER") /\ ~Has(a, "RES_STARTED")
          /\ ~Has(a, "RES_HEADER")
      BY <1>2, <2>1, <2>2, Zenon DEF Has, Good, Open, Ladder
    <2>4. /\ m \in TxType /\ m.flags = a.flags \cup {"RES_STARTED"}
          /\ m.states = a.states /\ m.ordered
      BY <2>1, MarkEffect, Zenon DEF Good, Open, Flags
    <2> HIDE DEF m
    <2>5. \A u \in m.states : Rank[u] < 10
      BY <2>1, <2>3, <2>4, FlagRank DEF Good, Open, Ladder, Has, TxType
    <2>6. /\ n \in TxType /\ n.flags = m.flags /\ n.ordered
          /\ n.states = m.states \cup {"response_started"}
      <3>1. "response_started" \in States /\ Rank["response_started"] = 10
        BY StateValues, Zenon
      <3>2. \A u \in m.states : Rank[u] < Rank["response_started"]
        BY <2>5, <3>1, Zenon
      <3> QED BY <2>4, <3>1, <3>2, NotifiedEffect, Zenon
    <2> HIDE DEF n
    <2>7. /\ b \in TxType /\ b.flags = m.flags /\ b.ordered
          /\ b.states \in {m.states, n.states}
      <3>1. CASE line = "none" /\ ~Has(m, "HTTP09")
        BY <3>1, <2>4, ReturnEffect, Zenon DEF NotifyResponseLine, Statuses
      <3>2. CASE ~(line = "none" /\ ~Has(m, "HTTP09"))
        <4>1. b = [n EXCEPT !.line = (line = "line")]
          BY <3>2, Zenon DEF NotifyResponseLine, n
        <4> QED BY <4>1, <2>6, Zenon DEF TxType
      <3> QED BY <3>1, <3>2, Zenon
    <2> HIDE DEF b
    <2>8. /\ e \in TxType /\ e.states = b.states /\ e.ordered
          /\ e.flags = m.flags \cup {"RES_HAS_DATA", "RES_LINE"}
      BY <2>7, MarkEffect DEF Flags
    <2> HIDE DEF e
    <2>9. \A s \in b.states : FlagOf[s] \in m.flags
      BY <2>1, <2>4, <2>6, <2>7, StateFlags DEF Good, Open
    <2>10. Good(b)
      BY <2>1, <2>3, <2>4, <2>7, <2>9 DEF Good, Open, Ladder, Has
    <2>11. Good(e)
      BY <2>1, <2>3, <2>4, <2>7, <2>8, <2>9 DEF Good, Open, Ladder, Has
    <2>12. ResponseStarted(r, line, fails) \in {b, e}
      BY <1>2, Zenon DEF ResponseStarted, a, m, b, e
    <2> QED
      BY <2>3, <2>4, <2>7, <2>8, <2>10, <2>11, <2>12, Zenon DEF Has
  <1> QED BY <1>1, <1>2, Zenon

(* The response header states. *)
LEMMA ResponseHeaderFinishedGood ==
    ASSUME NEW r, Good(r), NEW fails
    PROVE  /\ Good(ResponseHeaderFinished(r, fails))
           /\ Has(r, "REQ_HAS_DATA") =>
                 /\ Has(ResponseHeaderFinished(r, fails), "RES_HEADER")
                 /\ Has(ResponseHeaderFinished(r, fails), "REQ_HAS_DATA")
           /\ Has(r, "RES_FINISHED") \/
                 ~Has(ResponseHeaderFinished(r, fails), "RES_FINISHED")
  <1> DEFINE a == IF Has(r, "RES_STARTED") THEN r
                  ELSE ResponseStarted(r, "none", fails)
             m == Mark(a, {"RES_HEADER"})
             b == NotifyTx(m, "response_header_finished")
             d == NotifyTx(b, "handle_response_header")
  <1>1. CASE ~Has(r, "REQ_HAS_DATA") \/ Has(r, "RES_HEADER")
    <2>1. ResponseHeaderFinished(r, fails) \in
            {Return(r, "OK"), Return(r, "EINVAL")}
      BY <1>1, Zenon DEF ResponseHeaderFinished
    <2>2. ResponseHeaderFinished(r, fails).flags = r.flags
      BY <2>1, ReturnEffect DEF Good, Statuses
    <2> QED
      BY <1>1, <2>1, <2>2, ReturnGood, Zenon
      DEF Statuses, Has, Good, Open, Ladder
  <1>2. CASE Has(r, "REQ_HAS_DATA") /\ ~Has(r, "RES_HEADER")
    <2>1. /\ Good(a) /\ Has(a, "RES_STARTED") /\ ~Has(a, "RES_HEADER")
          /\ Has(a, "REQ_HAS_DATA")
      BY <1>2, ResponseStartedGood, Zenon DEF ResLines
    <2> HIDE DEF a
    <2>2. /\ m \in TxType /\ m.flags = a.flags \cup {"RES_HEADER"}
          /\ m.states = a.states /\ m.ordered
      BY <2>1, MarkEffect, Zenon DEF Good, Open, Flags
    <2> HIDE DEF m
    <2>3. \A u \in m.states : Rank[u] < 11
      BY <2>1, <2>2, FlagRank DEF Good, Open, Ladder, Has, TxType
    <2>4. /\ b \in TxType /\ b.flags = m.flags /\ b.ordered
          /\ b.states = m.states \cup {"response_header_finished"}
      BY <2>2, <2>3, NotifyTxEffect, StateValues, Zenon
    <2> HIDE DEF b
    <2>5. \A u \in b.states : Rank[u] < 12
      BY <2>2, <2>3, <2>4, FlagRank, StateValues DEF TxType
    <2>6. /\ d \in TxType /\ d.flags = m.flags /\ d.ordered
          /\ d.states = b.states \cup {"handle_response_header"}
      BY <2>4, <2>5, NotifyTxEffect, StateValues, Zenon
    <2> HIDE DEF d
    <2>7. Good(d)
      BY <2>1, <2>2, <2>4, <2>6, StateFlags DEF Good, Open, Ladder, Has
    <2>8. ResponseHeaderFinished(r, fails) = d
      BY <1>2, Zenon DEF ResponseHeaderFinished, a, m, b, d
    <2> QED
      BY <2>1, <2>2, <2>6, <2>7, <2>8 DEF Has, Good, Open, Ladder
  <1> QED BY <1>1, <1>2, Zenon

LEMMA ResponseBodyDataGood ==
    ASSUME NEW r, Good(r), NEW empty \in BOOLEAN, NEW fails
    PROVE  Good(ResponseBodyData(r, empty, fails))
  <1> DEFINE a == IF Has(r, "RES_HEADER") THEN r
                  ELSE ResponseHeaderFinished(r, fails)
  <1>1. Good(a)
    BY ResponseHeaderFinishedGood, Zenon
  <1> HIDE DEF a
  <1>2. Good(BodyData(a, "response", {"RES_HAS_DATA", "RES_BODY"}, fails))
    BY <1>1, BodyDataGood, Zenon DEF Bodies
  <1>3. Good(Return(r, "OK")) /\ Good(Return(r, "EINVAL"))
    BY ReturnGood, Zenon DEF Statuses
  <1> QED BY <1>2, <1>3, Zenon DEF ResponseBodyData, a

(* A flag and the state that goes with it. *)
LEMMA MarkNotifyEffect ==
    ASSUME NEW r \in TxType, r.ordered, NEW f \in Flags, NEW s \in States,
           \A u \in r.states : Rank[u] < Rank[s],
           NEW d, d = NotifyTx(Mark(r, {f}), s)
    PROVE  /\ d \in TxType /\ d.flags = r.flags \cup {f} /\ d.ordered
           /\ d.states = r.states \cup {s}
           /\ \A u \in d.states : Rank[u] <= Rank[s]
  <1> DEFINE m == Mark(r, {f})
  <1>1. /\ m \in TxType /\ m.flags = r.flags \cup {f}
        /\ m.states = r.states /\ m.ordered
    BY MarkEffect, Zenon
  <1> HIDE DEF m
  <1>2. /\ d \in TxType /\ d.flags = m.flags /\ d.ordered
        /\ d.states = m.states \cup {s}
    BY <1>1, NotifyTxEffect, Zenon DEF m
  <1>3. \A u \in d.states : Rank[u] <= Rank[s]
    <2>1. \A u \in States : Rank[u] \in Nat
      BY FlagRank, Zenon
    <2>2. r.states \subseteq States
      BY Zenon DEF TxType
    <2> TAKE u \in d.states
    <2>3. CASE u = s
      BY <2>1, <2>3
    <2>4. CASE u \in r.states
      <3>1. Rank[u] \in Nat /\ Rank[s] \in Nat /\ Rank[u] < Rank[s]
        BY <2>1, <2>2, <2>4, Zenon
      <3> QED BY <3>1
    <2> QED BY <1>1, <1>2, <2>3, <2>4, Zenon
  <1> QED BY <1>1, <1>2, <1>3, Zenon

(* Logging ends what a transaction may be notified of, but for tx_finished *)
(* after a response.                                                       *)
LEMMA LoggingEffect ==
    ASSUME NEW r \in TxType, r.ordered, ~Has(r, "POSTPROCESS"),
           ~Has(r, "LOGGING"), \A u \in r.states : Rank[u] < 15,
           NEW d, d = WithLogging(WithPostprocess(r))
    PROVE  /\ d \in TxType /\ d.ordered
           /\ d.flags = r.flags \cup {"POSTPROCESS", "LOGGING"}
           /\ d.states = r.states \cup {"handle_postprocess",
                                        "handle_logging"}
  <1> DEFINE p == NotifyTx(Mark(r, {"POSTPROCESS"}), "handle_postprocess")
  <1>1. /\ "handle_postprocess" \in States /\ "handle_logging" \in States
        /\ Rank["handle_postprocess"] = 15 /\ Rank["handle_logging"] = 16
        /\ "POSTPROCESS" \in Flags /\ "LOGGING" \in Flags
    BY StateValues, Zenon DEF Flags
  <1>2. \A u \in r.states : Rank[u] < Rank["handle_postprocess"]
    BY <1>1, Zenon
  <1>3. /\ p \in TxType /\ p.flags = r.flags \cup {"POSTPROCESS"}
        /\ p.ordered /\ p.states = r.states \cup {"handle_postprocess"}
        /\ \A u \in p.states : Rank[u] <= Rank["handle_postprocess"]
    BY <1>1, <1>2, MarkNotifyEffect
  <1>4. WithPostprocess(r) = p
    BY Zenon DEF WithPostprocess, Postprocess
  <1> HIDE DEF p
  <1>5. ~Has(p, "LOGGING")
    BY <1>3, Zenon DEF Has
  <1>6. d = NotifyTx(Mark(p, {"LOGGING"}), "handle_logging")
    BY <1>4, <1>5, Zenon DEF WithLogging, Logging
  <1>7. \A u \in p.states : Rank[u] < Rank["handle_logging"]
    BY <1>1, <1>3, FlagRank DEF TxType
  <1>8. /\ d \in TxType /\ d.ordered /\ d.flags = p.flags \cup {"LOGGING"}
        /\ d.states = p.states \cup {"handle_logging"}
    BY <1>1, <1>3, <1>6, <1>7, MarkNotifyEffect
  <1> QED BY <1>3, <1>8, Zenon

LEMMA ResponseFinishedGood ==
    ASSUME NEW r, Good(r), NEW fails
    PROVE  Good(ResponseFinished(r, fails))
  <1> DEFINE a == IF Has(r, "RES_HEADER") THEN r
                  ELSE ResponseHeaderFinished(r, fails)
             b == NotifyTx(Mark(a, {"RES_FINISHED"}), "response_finished")
             g == NotifyTx(b, "handle_response")
             c == WithLogging(WithPostprocess(g))
             d == PumpClose(c, "request", "response_close", fails)
             e == NotifyTx(d, "tx_finished")
  <1>1. CASE \/ ~Has(r, "REQ_HAS_DATA") \/ ~Has(r, "RES_STARTED")
             \/ Has(r, "RES_FINISHED")
    BY <1>1, ReturnGood, Zenon DEF ResponseFinished, Statuses
  <1>2. CASE /\ Has(r, "REQ_HAS_DATA") /\ Has(r, "RES_STARTED")
             /\ ~Has(r, "RES_FINISHED")
    <2>1. /\ Good(a) /\ Has(a, "RES_HEADER") /\ ~Has(a, "RES_FINISHED")
      BY <1>2, ResponseHeaderFinishedGood, Zenon
    <2> HIDE DEF a
    <2>2. ~Has(a, "LOGGING") /\ ~Has(a, "POSTPROCESS") /\ Ladder(a)
      BY <2>1, Zenon DEF Good, Open, Ladder
    <2>3. a \in TxType /\ a.ordered /\ \A u \in a.states : Rank[u] < 13
      BY <2>1, <2>2, FlagRank DEF Good, Open, Has, TxType
    <2>4. /\ {"response_finished", "handle_response", "tx_finished"}
               \subseteq States
          /\ Rank["response_finished"] = 13 /\ Rank["handle_response"] = 14
          /\ Rank["tx_finished"] = 17 /\ Rank["handle_logging"] = 16
          /\ Rank["handle_postprocess"] = 15 /\ "RES_FINISHED" \in Flags
      BY StateValues, Zenon DEF Flags
    <2>5. /\ b \in TxType /\ b.flags = a.flags \cup {"RES_FINISHED"}
          /\ b.ordered /\ b.states = a.states \cup {"response_finished"}
          /\ \A u \in b.states : Rank[u] <= Rank["response_finished"]
      <3>1. \A u \in a.states : Rank[u] < Rank["response_finished"]
        BY <2>3, <2>4, Zenon
      <3> QED BY <2>3, <2>4, <3>1, MarkNotifyEffect
    <2> HIDE DEF b
    <2>6. /\ g \in TxType /\ g.flags = b.flags /\ g.ordered
          /\ g.states = b.states \cup {"handle_response"}
          /\ \A u \in g.states : Rank[u] < 15
      <3>1. \A u \in b.states : Rank[u] < Rank["handle_response"]
        BY <2>4, <2>5, FlagRank DEF TxType
      <3>2. /\ g \in TxType /\ g.flags = b.flags /\ g.ordered
            /\ g.states = b.states \cup {"handle_response"}
        BY <2>4, <2>5, <3>1, NotifyTxEffect
      <3>3. \A u \in g.states : Rank[u] < 15
        BY <2>4, <2>5, <3>1, <3>2, FlagRank DEF TxType
      <3> QED BY <3>2, <3>3, Zenon
    <2> HIDE DEF g
    <2>7. ~Has(g, "LOGGING") /\ ~Has(g, "POSTPROCESS")
      BY <2>2, <2>5, <2>6 DEF Has
    <2>8. /\ c \in TxType /\ c.ordered
          /\ c.flags = g.flags \cup {"POSTPROCESS", "LOGGING"}
          /\ c.states = g.states \cup {"handle_postprocess",
                                       "handle_logging"}
      BY <2>6, <2>7, LoggingEffect, Zenon
    <2> HIDE DEF c
    <2>9. /\ d \in TxType /\ d.flags = c.flags /\ d.ordered
          /\ d.states = c.states
      BY <2>8, PumpCloseEffect, Zenon
    <2> HIDE DEF d
    <2>10. \A u \in d.states : Rank[u] < Rank["tx_finished"]
      BY <2>4, <2>6, <2>8, <2>9, FlagRank DEF TxType
    <2>11. /\ e \in TxType /\ e.flags = d.flags /\ e.ordered
           /\ e.states = d.states \cup {"tx_finished"}
      BY <2>4, <2>9, <2>10, NotifyTxEffect, Zenon
    <2> HIDE DEF e
    <2>12. d.flags = a.flags \cup {"RES_FINISHED", "POSTPROCESS", "LOGGING"}
      BY <2>5, <2>6, <2>8, <2>9, Zenon
    <2>13. d.states = a.states \cup
             {"response_finished", "handle_response", "handle_postprocess",
              "handle_logging"}
      BY <2>5, <2>6, <2>8, <2>9, Zenon
    <2>14. \A s \in e.states : FlagOf[s] \in d.flags
      BY <2>1, <2>11, <2>12, <2>13, StateFlags DEF Good, Open
    <2>15. \A s \in d.states : FlagOf[s] \in d.flags
      BY <2>11, <2>14, Zenon
    <2>16. Ladder(d) /\ Ladder(e)
      BY <2>1, <2>2, <2>11, <2>12, Zenon DEF Ladder, Has
    <2>17. Has(d, "RES_FINISHED") /\ Has(e, "RES_FINISHED")
      BY <2>11, <2>12, Zenon DEF Has
    <2>18. Good(d) /\ Good(e)
      BY <2>9, <2>11, <2>14, <2>15, <2>16, <2>17, Zenon DEF Good, Open
    <2>19. ResponseFinished(r, fails) \in {d, e}
      BY <1>2, Zenon DEF ResponseFinished, a, b, g, c, d, e
    <2> QED BY <2>18, <2>19, Zenon
  <1> QED BY <1>1, <1>2, Zenon

(* What a transaction is when it ends. *)
LEMMA EndedOrdered ==
    ASSUME NEW r, Good(r), NEW d, d = WithLogging(WithPostprocess(r))
    PROVE  /\ d \in TxType /\ d.ordered
           /\ {"POSTPROCESS", "LOGGING"} \subseteq d.flags
  <1>1. CASE Has(r, "POSTPROCESS")
    <2>1. Has(r, "LOGGING") /\ r \in TxType /\ r.ordered
      BY <1>1, Zenon DEF Good, Open, Ladder
    <2>2. d = r
      BY <1>1, <2>1, Zenon DEF WithLogging, WithPostprocess
    <2> QED BY <1>1, <2>1, <2>2, Zenon DEF Has
  <1>2. CASE ~Has(r, "POSTPROCESS")
    <2>1. ~Has(r, "LOGGING") /\ ~Has(r, "RES_FINISHED")
      BY <1>2, Zenon DEF Good, Open, Ladder
    <2>2. \A u \in r.states : Rank[u] < 15
      BY <1>2, <2>1, FlagRank DEF Good, Open, Has, TxType
    <2> QED BY <1>2, <2>1, <2>2, LoggingEffect, Zenon DEF Good, Open
  <1> QED BY <1>1, <1>2, Zenon

LEMMA TxFinishOrdered ==
    ASSUME NEW r, Good(r), NEW fails
    PROVE  /\ TxFinish(r, fails) \in TxType /\ TxFinish(r, fails).ordered
           /\ {"POSTPROCESS", "LOGGING"} \subseteq TxFinish(r, fails).flags
  <1> DEFINE a == IF Has(r, "REQ_FINISHED") THEN r
                  ELSE RequestFinished(r, fails)
             b == IF Has(a, "RES_FINISHED") THEN a
                  ELSE ResponseFinished(a, fails)
  <1>1. Good(a)
    BY RequestFinishedGood, Zenon
  <1> HIDE DEF a
  <1>2. Good(b)
    BY <1>1, ResponseFinishedGood, Zenon
  <1> HIDE DEF b
  <1>3. TxFinish(r, fails) = WithLogging(WithPostprocess(b))
    BY Zenon DEF TxFinish, a, b
  <1> QED BY <1>2, <1>3, EndedOrdered, Zenon

-----------------------------------------------------------------------------
(* The connection's list of transactions. *)

LEMMA RemoveHead ==
    ASSUME NEW S, NEW s \in Seq(S), s # <<>>
    PROVE  Removed(s, 1) = Tail(s)
  <1>1. /\ Len(s) \in Nat /\ Len(s) > 0 /\ Tail(s) \in Seq(S)
        /\ Len(Tail(s)) = Len(s) - 1
        /\ \A i \in 1 .. (Len(s) - 1) : Tail(s)[i] = s[i + 1]
    OBVIOUS
  <1>2. SubSeq(s, 1, 0) = <<>>
    OBVIOUS
  <1>3. PICK u : u = SubSeq(s, 2, Len(s))
    BY Zenon
  <1>4. /\ u \in Seq(S) /\ Len(u) = Len(s) - 1
        /\ \A i \in 1 .. (Len(s) - 1) : u[i] = s[i + 1]
    BY <1>1, <1>3
  <1>5. u = Tail(s)
    BY <1>1, <1>4
  <1>6. <<>> \o u = u
    BY <1>4
  <1> QED BY <1>2, <1>3, <1>5, <1>6 DEF Removed

(* ib_tx_destroy of the connection's first transaction. *)
LEMMA WithoutHead ==
    ASSUME NEW c \in ConnType, c.list # <<>>, IsInjective(c.list),
           NEW d, d = WithoutTx(c, Head(c.list))
    PROVE  /\ d \in ConnType /\ d.flags = c.flags
           /\ IsInjective(d.list) /\ Len(d.list) = Len(c.list) - 1
           /\ Range(d.list) = Range(c.list) \ {Head(c.list)}
           /\ IF d.list = <<>> THEN d.tx = NULL ELSE d.tx \in Range(d.list)
  <1> DEFINE s == c.list
             tl == Tail(s)
  <1>1. s \in Seq(Txs) /\ s # <<>>
    BY Zenon DEF ConnType
  <1>2. /\ tl \in Seq(Txs) /\ Len(tl) = Len(s) - 1
        /\ \A i \in 1 .. Len(tl) : tl[i] = s[i + 1]
    BY <1>1
  <1>3. /\ Len(s) \in Nat /\ Len(s) >= 1 /\ DOMAIN s = 1 .. Len(s)
        /\ DOMAIN tl = 1 .. Len(tl)
    BY <1>1, <1>2
  <1>4. Head(s) = s[1] /\ 1 \in DOMAIN s
    BY <1>1, <1>3
  <1>5. (CHOOSE i \in DOMAIN s : s[i] = Head(s)) = 1
    <2>1. \A i \in DOMAIN s : s[i] = Head(s) => i = 1
      BY <1>4, Zenon DEF IsInjective
    <2> QED BY <1>4, <2>1, Zenon
  <1>6. d = [c EXCEPT !.list = tl,
                      !.tx = IF tl = <<>> THEN NULL ELSE Head(tl)]
    <2>1. Removed(s, 1) = tl
      BY <1>1, RemoveHead, Zenon
    <2>2. d = LET i == CHOOSE i \in DOMAIN s : s[i] = Head(s)
                  list == Removed(s, i)
              IN  [c EXCEPT !.list = list,
                            !.tx = IF list = <<>> THEN NULL ELSE Head(list)]
      BY Zenon DEF WithoutTx
    <2>3. d = LET list == Removed(s, 1)
              IN  [c EXCEPT !.list = list,
                            !.tx = IF list = <<>> THEN NULL ELSE Head(list)]
      BY <1>5, <2>2, Zenon
    <2> QED BY <2>1, <2>3, Zenon
  <1>7. tl # <<>> => Head(tl) = tl[1] /\ 1 \in DOMAIN tl /\ Head(tl) \in Txs
    BY <1>2, <1>3
  <1>8. /\ d \in ConnType /\ d.flags = c.flags /\ d.list = tl
        /\ d.tx = IF tl = <<>> THEN NULL ELSE Head(tl)
    BY <1>2, <1>6, <1>7, Zenon DEF ConnType
  <1>9. IsInjective(tl)
    <2> SUFFICES ASSUME NEW i \in DOMAIN tl, NEW j \in DOMAIN tl,
                        tl[i] = tl[j]
                 PROVE  i = j
      BY Zenon DEF IsInjective
    <2>1. /\ i + 1 \in DOMAIN s /\ j + 1 \in DOMAIN s
          /\ s[i + 1] = s[j + 1] /\ i \in Nat /\ j \in Nat
      BY <1>2, <1>3
    <2>2. i + 1 = j + 1
      BY <2>1, Zenon DEF IsInjective
    <2> QED BY <2>1, <2>2
  <1>10. Range(tl) = Range(s) \ {Head(s)}
    <2>1. ASSUME NEW i \in DOMAIN tl
          PROVE  tl[i] \in Range(s) /\ tl[i] # Head(s)
      <3>1. i + 1 \in DOMAIN s /\ i + 1 # 1 /\ tl[i] = s[i + 1]
        BY <1>2, <1>3
      <3> QED BY <1>4, <3>1, Zenon DEF Range, IsInjective
    <2>2. ASSUME NEW i \in DOMAIN s, s[i] # Head(s)
          PROVE  s[i] \in Range(tl)
      <3>1. i \in Nat /\ i # 1 /\ i >= 1 /\ i <= Len(s)
        BY <1>3, <1>4, <2>2
      <3>2. i - 1 \in DOMAIN tl /\ tl[i - 1] = s[(i - 1) + 1]
        BY <1>2, <1>3, <3>1
      <3>3. (i - 1) + 1 = i
        BY <3>1
      <3> QED BY <3>2, <3>3, Zenon DEF Range
    <2> QED BY <2>1, <2>2, Zenon DEF Range
  <1>11. IF tl = <<>> THEN d.tx = NULL ELSE d.tx \in Range(tl)
    <2>1. tl # <<>> => Head(tl) \in Range(tl)
      BY <1>7, Zenon DEF Range
    <2> QED BY <1>8, <2>1, Zenon
  <1>12. d.list = tl /\ d \in ConnType /\ d.flags = c.flags
    BY <1>8, Zenon
  <1>13. Len(tl) = Len(c.list) - 1
    BY <1>2, Zenon
  <1> HIDE DEF tl
  <1> QED BY <1>9, <1>10, <1>11, <1>12, <1>13, Zenon

(* ib_tx_create. *)
LEMMA AppendFresh ==
    ASSUME NEW s \in Seq(Txs), NEW t \in Txs, t \notin Range(s),
           IsInjective(s), NEW l, l = Append(s, t)
    PROVE  /\ l \in Seq(Txs) /\ l # <<>> /\ Len(l) = Len(s) + 1
           /\ IsInjective(l) /\ Range(l) = Range(s) \cup {t}
           /\ s # <<>> => Head(l) \in Range(s)
  <1>1. /\ l \in Seq(Txs) /\ Len(l) = Len(s) + 1 /\ Len(s) \in Nat
        /\ \A i \in 1 .. Len(s) : l[i] = s[i]
        /\ l[Len(s) + 1] = t
    OBVIOUS
  <1>2. DOMAIN l = 1 .. (Len(s) + 1) /\ DOMAIN s = 1 .. Len(s)
    BY <1>1
  <1>3. \A i \in DOMAIN s : s[i] # t
    BY Zenon DEF Range
  <1>4. IsInjective(l)
    BY <1>1, <1>2, <1>3 DEF IsInjective
  <1>5. Range(l) = Range(s) \cup {t}
    BY <1>1, <1>2 DEF Range
  <1>6. s # <<>> => Head(l) \in Range(s)
    <2> SUFFICES ASSUME s # <<>> PROVE Head(l) \in Range(s)
      BY Zenon
    <2>1. Len(s) >= 1
      BY <1>1
    <2>2. Head(l) = l[1] /\ 1 \in DOMAIN s /\ l[1] = s[1]
      BY <1>1, <1>2, <2>1
    <2> QED BY <2>2, Zenon DEF Range
  <1> QED BY <1>1, <1>4, <1>5, <1>6

-----------------------------------------------------------------------------
(* The inductive invariant. *)

LEMMA InitCore == Init => Core
  <1> SUFFICES ASSUME Init PROVE Core
    BY Zenon
  <1> USE DEF Init
  <1>1. conn.list = <<>> /\ conn.flags = {} /\ conn.tx = NULL
    BY Zenon
  <1>2. TypeOK
    <2>1. <<>> \in Seq(Txs)
      OBVIOUS
    <2>2. conn \in ConnType
      BY <2>1, Zenon DEF ConnType
    <2> QED BY <2>2, Zenon DEF TypeOK, Statuses, Bodies
  <1>3. IsInjective(conn.list) /\ Live = {}
    BY <1>1 DEF IsInjective, Live, Range
  <1>4. InOrder
    BY Zenon DEF InOrder
  <1>5. NoTxLeft
    BY <1>1, Zenon DEF NoTxLeft
  <1>6. DeferredCloses /\ EndedIsLogged
    BY Zenon DEF DeferredCloses, EndedIsLogged
  <1> QED BY <1>1, <1>2, <1>3, <1>4, <1>5, <1>6, Zenon DEF Core, CurrentIsLive

LEMMA LiveTxs ==
    ASSUME NEW s \in Seq(Txs)
    PROVE  Range(s) \subseteq Txs
  <1>1. \A i \in DOMAIN s : s[i] \in Txs
    OBVIOUS
  <1> QED BY <1>1, Zenon DEF Range

(* The end of ib_state_notify_conn_closed. *)
LEMMA ClosedEffect ==
    ASSUME NEW c \in ConnType
    PROVE  /\ Closed(c) \in ConnType /\ Closed(c).list = c.list
           /\ Closed(c).tx = c.tx /\ "CLOSED" \in Closed(c).flags
  <1>1. c.list \in Seq(Txs)
    BY Zenon DEF ConnType
  <1> QED BY <1>1, Zenon DEF ConnType, ConnStates, Closed

(* A call on a transaction, for whatever it makes of a good record. *)
LEMMA CallKeeps ==
    ASSUME Core, NEW t \in Txs, NEW r, Good(r), Call(t, r)
    PROVE  Core'
  <1> DEFINE k == Kept(r)
  <1>1. k \in TxType /\ Open(k) /\ k.ordered
    BY KeptEffect, Zenon DEF Good, Open, Ladder, Has
  <1> HIDE DEF k
  <1>2. /\ Running /\ t \in Live /\ tx' = [tx EXCEPT ![t] = k]
        /\ conn' = [conn EXCEPT !.tx = IF r.current THEN t ELSE conn.tx]
        /\ out' = [tx |-> t, rc |-> r.rc, body |-> r.body] /\ ssn' = ssn
        /\ env' = env
    BY Zenon DEF Call, k
  <1>3. TypeOK
    BY Zenon DEF Core
  <1>4. /\ conn' \in ConnType /\ conn'.list = conn.list
        /\ conn'.flags = conn.flags /\ conn'.tx \in {t, conn.tx}
    BY <1>2, <1>3, Zenon DEF TypeOK, ConnType
  <1>5. out' \in [tx : Txs \cup {NULL}, rc : Statuses, body : Bodies]
    <2>1. r.rc \in Statuses /\ r.body \in Bodies
      BY Zenon DEF Good, TxType
    <2> QED BY <1>2, <2>1, Zenon
  <1>6. /\ tx' \in [Txs -> TxType \cup {NULL}]
        /\ tx'[t] = k /\ \A u \in Txs \ {t} : tx'[u] = tx[u]
    BY <1>1, <1>2, <1>3, Zenon DEF TypeOK
  <1>7. TypeOK'
    BY <1>2, <1>3, <1>4, <1>5, <1>6, Zenon DEF TypeOK
  <1>8. InOrder'
    BY <1>1, <1>2, <1>6, Zenon DEF Core, InOrder
  <1>9. NoTxLeft'
    BY <1>2, <1>4, Zenon DEF Core, NoTxLeft
  <1>10. Live' = Live
    BY <1>4, Zenon DEF Live
  <1>11. conn.list # <<>>
    BY <1>2 DEF Live, Range
  <1>12. CurrentIsLive'
    BY <1>2, <1>4, <1>10, <1>11 DEF Core, CurrentIsLive
  <1>13. IsInjective(conn.list)'
    BY <1>4, Zenon DEF Core
  <1>14. \A u \in Live' : tx'[u] \in TxType /\ Open(tx'[u])
    <2> TAKE u \in Live'
    <2>1. u \in Live /\ u \in Txs
      <3>1. conn.list \in Seq(Txs)
        BY <1>3, Zenon DEF TypeOK, ConnType
      <3> QED BY <1>10, <3>1, LiveTxs, Zenon DEF Live
    <2>2. CASE u = t
      BY <1>1, <1>6, <2>2, Zenon
    <2>3. CASE u # t
      <3>1. tx'[u] = tx[u]
        BY <1>6, <2>1, <2>3, Zenon
      <3>2. "CLOSED" \notin conn.flags
        BY <1>2, Zenon DEF Running
      <3> QED BY <2>1, <3>1, <3>2, Zenon DEF Core
    <2> QED BY <2>2, <2>3, Zenon
  <1>15. DeferredCloses'
    BY <1>4, <1>11, Zenon DEF DeferredCloses
  <1>16. EndedIsLogged'
    BY <1>2, <1>4, <1>6, <1>10, Zenon DEF Core, EndedIsLogged, Running
  <1> QED BY <1>7, <1>8, <1>9, <1>12, <1>13, <1>14, <1>15, <1>16, Zenon DEF Core

(* The end of the connection's first transaction, whether the connection   *)
(* goes on or is closed with it.                                           *)
LEMMA EndKeeps ==
    ASSUME Core, Running, conn.list # <<>>, NEW t, t = Head(conn.list),
           NEW r \in TxType, r.ordered,
           {"POSTPROCESS", "LOGGING"} \subseteq r.flags, tx' = [tx EXCEPT ![t] = Kept(r)],
           NEW d, d = WithoutTx(conn, t),
           \/ conn' = d /\ ssn'.txn_count = ssn.txn_count - 1
           \/ conn' = d /\ env.server # "trafficserver"
           \/ /\ conn' = Closed(d) /\ ssn.txn_count <= 1
              /\ env.server = "trafficserver",
           ssn' \in [closing : BOOLEAN, txn_count : Nat],
           \/ ~ssn'.closing \/ env.server # "trafficserver"
           \/ conn' = Closed(d) \/ ssn.txn_count > 1,
           ConnCall("OK")
    PROVE  Core'
  <1>1. TypeOK /\ conn \in ConnType /\ IsInjective(conn.list)
    BY Zenon DEF Core, TypeOK
  <1>2. /\ d \in ConnType /\ d.flags = conn.flags
        /\ IsInjective(d.list) /\ Len(d.list) = Len(conn.list) - 1
        /\ Range(d.list) = Range(conn.list) \ {t}
        /\ IF d.list = <<>> THEN d.tx = NULL ELSE d.tx \in Range(d.list)
    BY <1>1, WithoutHead, Zenon
  <1>3. /\ conn' \in ConnType /\ conn'.list = d.list /\ conn'.tx = d.tx
        /\ conn' = d \/ "CLOSED" \in conn'.flags
    BY <1>2, ClosedEffect, Zenon
  <1>4. t \in Txs
    BY <1>1 DEF ConnType
  <1>5. /\ Kept(r) \in TxType /\ Kept(r).ordered
        /\ {"POSTPROCESS", "LOGGING"} \subseteq Kept(r).flags
    BY KeptEffect, Zenon
  <1>6. /\ tx' \in [Txs -> TxType \cup {NULL}]
        /\ tx'[t] = Kept(r) /\ \A u \in Txs \ {t} : tx'[u] = tx[u]
    BY <1>1, <1>4, <1>5, Zenon DEF TypeOK
  <1>7. out' \in [tx : Txs \cup {NULL}, rc : Statuses, body : Bodies]
    BY Zenon DEF ConnCall, Statuses, Bodies
  <1> env' = env
    BY Zenon DEF ConnCall
  <1>8. TypeOK'
    BY <1>1, <1>3, <1>6, <1>7, Zenon DEF TypeOK
  <1>9. InOrder'
    BY <1>5, <1>6, Zenon DEF Core, InOrder
  <1>10. Len(conn.list) \in Nat /\ Len(d.list) \in Nat
    <2>1. conn.list \in Seq(Txs) /\ d.list \in Seq(Txs)
      BY <1>1, <1>2, Zenon DEF ConnType
    <2> QED BY <2>1
  <1>11. NoTxLeft'
    <2> SUFFICES ASSUME env.server = "trafficserver"
                 PROVE  /\ "CLOSED" \in conn'.flags => conn'.list = <<>>
                        /\ "CLOSED" \notin conn'.flags =>
                              ssn'.txn_count = Len(conn'.list)
      BY Zenon DEF NoTxLeft
    <2>1. ssn.txn_count = Len(conn.list) /\ "CLOSED" \notin conn.flags
      BY Zenon DEF Core, NoTxLeft, Running
    <2>2. CASE conn' = d /\ ssn'.txn_count = ssn.txn_count - 1
      BY <1>2, <2>1, <2>2, Zenon
    <2>3. CASE conn' = Closed(d) /\ ssn.txn_count <= 1
      <3>1. Len(d.list) = 0
        BY <1>2, <1>10, <2>1, <2>3
      <3>2. d.list = <<>>
        BY <1>2, <3>1 DEF ConnType
      <3>3. "CLOSED" \in conn'.flags
        BY <2>3, <1>2, ClosedEffect, Zenon
      <3> QED BY <1>3, <3>2, <3>3, Zenon
    <2> QED BY <2>2, <2>3, Zenon
  <1>12. CurrentIsLive' /\ IsInjective(conn.list)'
    BY <1>2, <1>3, Zenon DEF CurrentIsLive, Live
  <1>13. ASSUME NEW u \in Live' PROVE tx'[u] \in TxType /\ Open(tx'[u])
    <2>1. u \in Live /\ u # t /\ u \in Txs
      <3>1. conn.list \in Seq(Txs)
        BY <1>1, Zenon DEF ConnType
      <3> QED BY <1>2, <1>3, <3>1, LiveTxs, Zenon DEF Live
    <2>2. tx'[u] = tx[u]
      BY <1>6, <2>1, Zenon
    <2> QED BY <2>1, <2>2, Zenon DEF Core, Running
  <1>14. DeferredCloses'
    <2> SUFFICES ASSUME env.server = "trafficserver", ssn'.closing,
                        conn'.list = <<>>
                 PROVE  "CLOSED" \in conn'.flags
      BY Zenon DEF DeferredCloses
    <2>1. ssn.txn_count = Len(conn.list)
      BY Zenon DEF Core, NoTxLeft, Running
    <2>2. Len(d.list) = 0
      BY <1>3
    <2>3. ~(ssn.txn_count > 1)
      BY <1>2, <1>10, <2>1, <2>2
    <2> QED BY <1>2, <2>3, ClosedEffect, Zenon
  <1>15. EndedIsLogged'
    <2> SUFFICES ASSUME env.server # "nginx", NEW u \in Txs, tx'[u] # NULL,
                        u \notin Live' \/ "CLOSED" \in conn'.flags
                 PROVE  {"POSTPROCESS", "LOGGING"} \subseteq tx'[u].flags
      BY Zenon DEF EndedIsLogged
    <2>1. CASE u = t
      BY <1>5, <1>6, <2>1, Zenon
    <2>2. CASE u # t
      <3>1. conn' = d \/ conn'.list = <<>>
        BY <1>3, <1>11, ClosedEffect, Zenon DEF NoTxLeft
      <3>2. conn' = d => "CLOSED" \notin conn'.flags
        BY <1>2, Zenon DEF Running
      <3>3. u \notin Range(d.list)
        <4>1. CASE conn'.list = <<>>
          BY <1>3, <4>1 DEF Range
        <4>2. CASE conn' = d
          BY <3>2, <4>2, Zenon DEF Live
        <4> QED BY <3>1, <4>1, <4>2, Zenon
      <3>4. u \notin Live
        BY <1>2, <2>2, <3>3, Zenon DEF Live
      <3>5. tx'[u] = tx[u]
        BY <1>6, <2>2, Zenon
      <3> QED BY <3>4, <3>5, Zenon DEF Core, EndedIsLogged
    <2> QED BY <2>1, <2>2, Zenon
  <1> QED BY <1>8, <1>9, <1>11, <1>12, <1>13, <1>14, <1>15, Zenon DEF Core

LEMMA TxCreateKeeps ==
    ASSUME Core, NEW t \in Txs, TxCreate(t)
    PROVE  Core'
  <1> DEFINE list == Append(conn.list, t)
             pipelined == IF conn.list = <<>> THEN {} ELSE {t, Head(list)}
  <1>1. /\ TypeOK /\ conn \in ConnType /\ IsInjective(conn.list)
        /\ conn.list \in Seq(Txs)
    BY Zenon DEF Core, TypeOK, ConnType
  <1>2. /\ Running /\ tx[t] = NULL
        /\ conn' = [conn EXCEPT !.list = list, !.tx = t]
        /\ ssn' = [ssn EXCEPT !.txn_count = @ + 1]
        /\ out' = [tx |-> NULL, rc |-> "OK", body |-> "none"]
        /\ env' = env
        /\ tx' = [u \in Txs |->
              IF u \in pipelined
              THEN Mark(IF u = t THEN NewTx ELSE tx[u], {"PIPELINED"})
              ELSE IF u = t THEN NewTx ELSE tx[u]]
    BY Zenon DEF TxCreate, ConnCall, Fresh
  <1>3. "CLOSED" \notin conn.flags /\ \A u \in Live : Good(tx[u])
    BY <1>2, Zenon DEF Core, Running, Good
  <1>4. t \notin Range(conn.list)
    BY <1>2, <1>3, StateNotifyAssumption, Zenon
    DEF StateNotifyAssumption, Live, Good
  <1>5. /\ list \in Seq(Txs) /\ list # <<>> /\ Len(list) = Len(conn.list) + 1
        /\ IsInjective(list) /\ Range(list) = Range(conn.list) \cup {t}
        /\ conn.list # <<>> => Head(list) \in Range(conn.list)
    BY <1>1, <1>4, AppendFresh, Zenon
  <1> HIDE DEF list
  <1>6. pipelined \subseteq Live \cup {t}
    BY <1>5, Zenon DEF Live
  <1> HIDE DEF pipelined
  <1>7. Good(NewTx)
    <2>1. NewTx \in TxType
      BY Zenon DEF NewTx, TxType, Bodies, Statuses
    <2>2. NewTx.flags = {} /\ NewTx.states = {} /\ NewTx.ordered
      BY Zenon DEF NewTx
    <2>3. Ladder(NewTx) /\ ~Has(NewTx, "LOGGING")
      BY <2>2 DEF Has, Ladder
    <2> QED BY <2>1, <2>2, <2>3, Zenon DEF Good, Open
  <1>8. ASSUME NEW r, Good(r) PROVE Good(Mark(r, {"PIPELINED"}))
    <2> DEFINE m == Mark(r, {"PIPELINED"})
    <2>1. "PIPELINED" \in Flags
      BY Zenon DEF Flags
    <2>2. /\ m \in TxType /\ m.flags = r.flags \cup {"PIPELINED"}
          /\ m.states = r.states /\ m.ordered = r.ordered
      BY <1>8, <2>1, MarkEffect, Zenon DEF Good
    <2> HIDE DEF m
    <2>3. \A f : f # "PIPELINED" => Has(m, f) = Has(r, f)
      BY <2>2 DEF Has
    <2>4. Ladder(m) /\ (Has(m, "LOGGING") => Has(m, "RES_FINISHED"))
      BY <1>8, <2>3, Zenon DEF Good, Open, Ladder
    <2> QED BY <1>8, <2>2, <2>4, Zenon DEF Good, Open, m
  <1>9. \A u \in Live \cup {t} : u \in Txs => Good(tx'[u])
    <2> TAKE u \in Live \cup {t}
    <2> HAVE u \in Txs
    <2>1. Good(IF u = t THEN NewTx ELSE tx[u])
      BY <1>3, <1>7, Zenon
    <2>2. tx'[u] = IF u \in pipelined
                   THEN Mark(IF u = t THEN NewTx ELSE tx[u], {"PIPELINED"})
                   ELSE IF u = t THEN NewTx ELSE tx[u]
      BY <1>2, Zenon
    <2> QED BY <1>8, <2>1, <2>2, Zenon
  <1>10. \A u \in Txs : u \notin Live \cup {t} => tx'[u] = tx[u]
    BY <1>2, <1>6, Zenon
  <1>11. /\ conn' \in ConnType /\ conn'.list = list /\ conn'.tx = t
         /\ conn'.flags = conn.flags /\ Live' = Live \cup {t}
    BY <1>1, <1>2, <1>5, Zenon DEF ConnType, Live
  <1>12. tx' \in [Txs -> TxType \cup {NULL}]
    <2>1. \A u \in Txs : tx'[u] \in TxType \cup {NULL}
      BY <1>1, <1>9, <1>10, Zenon DEF Good, TypeOK
    <2>2. tx' = [u \in Txs |-> tx'[u]]
      BY <1>2, Zenon
    <2> QED BY <2>1, <2>2, Zenon
  <1>13. TypeOK'
    <2>1. ssn' \in [closing : BOOLEAN, txn_count : Nat]
      BY <1>1, <1>2 DEF TypeOK
    <2> QED BY <1>1, <1>2, <1>11, <1>12, <2>1, Zenon DEF TypeOK, Statuses, Bodies
  <1>14. InOrder'
    <2> SUFFICES ASSUME env.server # "nginx", NEW u \in Txs, tx'[u] # NULL
                 PROVE  tx'[u].ordered
      BY <1>2, Zenon DEF InOrder
    <2>1. CASE u \in Live \cup {t}
      BY <1>9, <2>1, Zenon DEF Good, Open
    <2>2. CASE u \notin Live \cup {t}
      BY <1>10, <2>2, Zenon DEF Core, InOrder
    <2> QED BY <2>1, <2>2, Zenon
  <1>15. NoTxLeft'
    <2>1. env.server = "trafficserver" => ssn.txn_count = Len(conn.list)
      BY <1>3, Zenon DEF Core, NoTxLeft
    <2>2. ssn'.txn_count = ssn.txn_count + 1
      BY <1>1, <1>2, Zenon DEF TypeOK
    <2> QED BY <1>2, <1>3, <1>5, <1>11, <2>1, <2>2, Zenon DEF NoTxLeft
  <1>16. CurrentIsLive' /\ IsInjective(conn.list)'
    BY <1>5, <1>11, Zenon DEF CurrentIsLive
  <1>17. \A u \in Live' : tx'[u] \in TxType /\ Open(tx'[u])
    BY <1>1, <1>9, <1>11, LiveTxs, Zenon DEF Live, Good
  <1>18. DeferredCloses'
    BY <1>5, <1>11, Zenon DEF DeferredCloses
  <1>19. EndedIsLogged'
    BY <1>2, <1>3, <1>10, <1>11, Zenon DEF Core, EndedIsLogged
  <1> QED
    BY <1>13, <1>14, <1>15, <1>16, <1>17, <1>18, <1>19, Zenon DEF Core

LEMMA ConnOpenedKeeps ==
    ASSUME Core, NEW fails, ConnOpened(fails)
    PROVE  Core'
  <1>1. TypeOK /\ conn \in ConnType
    BY Zenon DEF Core, TypeOK
  <1>2. /\ conn' \in ConnType /\ conn'.list = conn.list /\ conn'.tx = conn.tx
        /\ "CLOSED" \notin conn.flags /\ "CLOSED" \notin conn'.flags
    BY <1>1, Zenon DEF ConnOpened, ConnType, ConnStates
  <1>3. tx' = tx /\ ssn' = ssn /\ env' = env
    BY Zenon DEF ConnOpened, ConnCall
  <1>4. out' \in [tx : Txs \cup {NULL}, rc : Statuses, body : Bodies]
    BY Zenon DEF ConnOpened, ConnCall, Statuses, Bodies
  <1>5. TypeOK'
    BY <1>1, <1>2, <1>3, <1>4, Zenon DEF TypeOK
  <1>6. Live' = Live
    BY <1>2, Zenon DEF Live
  <1> QED
    BY <1>2, <1>3, <1>5, <1>6, Zenon
    DEF Core, InOrder, NoTxLeft, CurrentIsLive, DeferredCloses,
        EndedIsLogged

(* conn_closed on a connection without transactions. *)
LEMMA CloseEmptyKeeps ==
    ASSUME Core, conn.list = <<>>, conn' = Closed(conn), tx' = tx,
           ssn' = ssn, ConnCall("OK")
    PROVE  Core'
  <1>1. TypeOK /\ conn \in ConnType
    BY Zenon DEF Core, TypeOK
  <1>2. /\ conn' \in ConnType /\ conn'.list = conn.list /\ conn'.tx = conn.tx
        /\ "CLOSED" \in conn'.flags
    BY <1>1, ClosedEffect, Zenon
  <1> env' = env
    BY Zenon DEF ConnCall
  <1>3. out' \in [tx : Txs \cup {NULL}, rc : Statuses, body : Bodies]
    BY Zenon DEF ConnCall, Statuses, Bodies
  <1>4. TypeOK'
    BY <1>1, <1>2, <1>3, Zenon DEF TypeOK
  <1>5. Live' = Live /\ Live = {}
    BY <1>2 DEF Live, Range
  <1>6. EndedIsLogged'
    BY <1>5, Zenon DEF Core, EndedIsLogged
  <1> QED
    BY <1>2, <1>4, <1>5, <1>6, Zenon
    DEF Core, InOrder, NoTxLeft, CurrentIsLive, DeferredCloses

(* SSN_CLOSE with transactions left only notes that the session is closing. *)
LEMMA SsnCloseKeeps ==
    ASSUME Core, SsnClose
    PROVE  Core'
  <1>1. TypeOK /\ env.server = "trafficserver" /\ "CLOSED" \notin conn.flags
    BY Zenon DEF Core, SsnClose, Running
  <1>2. conn.list \in Seq(Txs) /\ ssn.txn_count = Len(conn.list)
    BY <1>1, Zenon DEF Core, NoTxLeft, TypeOK, ConnType
  <1>3. CASE ssn.txn_count = 0
    <2>1. conn.list = <<>>
      <3>1. Len(conn.list) = 0
        BY <1>2, <1>3, Zenon
      <3> QED BY <1>2, <3>1
    <2> QED BY <1>3, <2>1, CloseEmptyKeeps, Zenon DEF SsnClose
  <1>4. CASE ssn.txn_count # 0
    <2>1. /\ ssn' = [ssn EXCEPT !.closing = TRUE] /\ conn' = conn /\ tx' = tx
          /\ ConnCall("OK") /\ env' = env
      BY <1>4, Zenon DEF SsnClose, ConnCall
    <2> conn.list # <<>>
      BY <1>2, <1>4, Zenon
    <2>2. /\ ssn' \in [closing : BOOLEAN, txn_count : Nat]
          /\ ssn'.txn_count = ssn.txn_count
      BY <1>1, <2>1, Zenon DEF TypeOK
    <2>3. TypeOK'
      <3>1. out' \in [tx : Txs \cup {NULL}, rc : Statuses, body : Bodies]
        BY <2>1, Zenon DEF ConnCall, Statuses, Bodies
      <3> QED BY <1>1, <2>1, <2>2, <3>1, Zenon DEF TypeOK
    <2>4. Live' = Live
      BY <2>1, Zenon DEF Live
    <2> QED
      BY <2>1, <2>2, <2>3, <2>4, Zenon
      DEF Core, InOrder, NoTxLeft, CurrentIsLive, DeferredCloses,
        EndedIsLogged
  <1> QED BY <1>3, <1>4, Zenon

LEMMA TxnCloseKeeps ==
    ASSUME Core, NEW t \in Live, NEW fails, TxnClose(t, fails)
    PROVE  Core'
  <1>1. /\ TypeOK /\ Running /\ conn.list # <<>> /\ t = Head(conn.list)
        /\ env.server = "trafficserver" /\ ConnCall("OK")
    BY Zenon DEF Core, TxnClose
  <1>2. Good(tx[t])
    BY <1>1, Zenon DEF Core, Good, Running
  <1> PICK r : r = TxFinish(tx[t], fails)
    BY Zenon
  <1>3. /\ r \in TxType /\ r.ordered
        /\ {"POSTPROCESS", "LOGGING"} \subseteq r.flags
    BY <1>2, TxFinishOrdered, Zenon
  <1> PICK d : d = WithoutTx(conn, t)
    BY Zenon
  <1>4. tx' = [tx EXCEPT ![t] = Kept(r)]
    BY Zenon DEF TxnClose
  <1>5. \/ /\ conn' = Closed(d) /\ ssn' = ssn /\ ssn.txn_count <= 1
        \/ /\ conn' = d /\ ssn' = [ssn EXCEPT !.txn_count = @ - 1]
           /\ ~ssn.closing \/ ~(ssn.txn_count <= 1)
    BY Zenon DEF TxnClose
  <1>6. ssn.txn_count \in Nat /\ ssn.txn_count >= 1
    <2>1. ssn.txn_count = Len(conn.list) /\ conn.list \in Seq(Txs)
      BY <1>1, Zenon DEF Core, NoTxLeft, Running, TypeOK, ConnType
    <2> QED BY <1>1, <2>1
  <1>7. ssn \in [closing : BOOLEAN, txn_count : Nat]
    BY <1>1, Zenon DEF TypeOK
  <1>8. /\ ssn' \in [closing : BOOLEAN, txn_count : Nat]
        /\ \/ conn' = Closed(d) /\ ssn.txn_count <= 1
           \/ /\ conn' = d /\ ssn'.txn_count = ssn.txn_count - 1
              /\ ~ssn'.closing \/ ssn.txn_count > 1
    BY <1>5, <1>6, <1>7
  <1> QED BY <1>1, <1>3, <1>4, <1>8, EndKeeps, Zenon

LEMMA ReqCleanupKeeps ==
    ASSUME Core, NEW t \in Live, ReqCleanup(t)
    PROVE  Core'
  <1>1. /\ TypeOK /\ Running /\ conn.list # <<>> /\ t = Head(conn.list)
        /\ env.server # "trafficserver" /\ ConnCall("OK") /\ ssn' = ssn
    BY Zenon DEF Core, ReqCleanup
  <1>2. Good(tx[t])
    BY <1>1, Zenon DEF Core, Good, Running
  <1> PICK r : r = WithLogging(WithPostprocess(tx[t]))
    BY Zenon
  <1>3. /\ r \in TxType /\ r.ordered
        /\ {"POSTPROCESS", "LOGGING"} \subseteq r.flags
    BY <1>2, EndedOrdered, Zenon
  <1> PICK d : d = WithoutTx(conn, t)
    BY Zenon
  <1>4. tx' = [tx EXCEPT ![t] = Kept(r)] /\ conn' = d
    BY Zenon DEF ReqCleanup
  <1>5. ssn' \in [closing : BOOLEAN, txn_count : Nat]
    BY <1>1, Zenon DEF TypeOK
  <1> QED BY <1>1, <1>3, <1>4, <1>5, EndKeeps, Zenon

(* Every step of a server other than nginx keeps the invariant.  nginx     *)
(* logs a transaction it keeps, after which conn_closed may still notify   *)
(* states that belong before logging.                                      *)
LEMMA NextKeeps ==
    ASSUME env.server # "nginx", Core, [Next]_vars
    PROVE  Core'
  <1>1. TypeOK /\ conn.list \in Seq(Txs)
    BY Zenon DEF Core, TypeOK, ConnType
  <1>2. Live \subseteq Txs
    BY <1>1, LiveTxs, Zenon DEF Live
  <1>3. ASSUME NEW t \in Live, Running PROVE Good(tx[t])
    BY <1>3, Zenon DEF Core, Good, Running
  <1>4. ASSUME NEW fails \in SUBSET env.fails, ConnOpened(fails) PROVE Core'
    BY <1>4, ConnOpenedKeeps, Zenon
  <1>5. CASE ConnOpenedAgain
    <2>1. conn' = conn /\ tx' = tx /\ ssn' = ssn /\ env' = env
      BY <1>5, Zenon DEF ConnOpenedAgain, ConnCall
    <2>2. out' \in [tx : Txs \cup {NULL}, rc : Statuses, body : Bodies]
      BY <1>5, Zenon DEF ConnOpenedAgain, ConnCall, Statuses, Bodies
    <2>3. TypeOK'
      BY <1>1, <2>1, <2>2, Zenon DEF TypeOK
    <2>4. Live' = Live
      BY <2>1, Zenon DEF Live
    <2> QED
      BY <2>1, <2>3, <2>4, Zenon DEF Core, InOrder, NoTxLeft, CurrentIsLive, DeferredCloses,
        EndedIsLogged
  <1>6. ASSUME NEW t \in env.txs, TxCreate(t) PROVE Core'
    <2>1. t \in Txs
      BY <1>1, StateNotifyAssumption, Zenon DEF TypeOK, StateNotifyAssumption
    <2> QED BY <1>6, <2>1, TxCreateKeeps, Zenon
  <1>7. ASSUME NEW t \in Live, NEW line \in ReqLines,
               NotifyRequestStarted(t, line)
        PROVE  Core'
    <2> PICK r : r = RequestStarted(tx[t], line)
      BY Zenon
    <2>1. Call(t, r)
      BY <1>7, Zenon DEF NotifyRequestStarted
    <2>2. Good(r)
      BY <1>3, <2>1, RequestStartedGood, Zenon DEF Call
    <2> QED BY <1>2, <2>1, <2>2, CallKeeps, Zenon
  <1>8. ASSUME NEW t \in Live, NEW fails \in SUBSET env.fails,
               NotifyRequestHeaderFinished(t, fails)
        PROVE  Core'
    <2> PICK r : r = RequestHeaderFinished(tx[t], fails)
      BY Zenon
    <2>1. Call(t, r)
      BY <1>8, Zenon DEF NotifyRequestHeaderFinished
    <2>2. Good(r)
      BY <1>3, <2>1, RequestHeaderFinishedGood, Zenon DEF Call
    <2> QED BY <1>2, <2>1, <2>2, CallKeeps, Zenon
  <1>9. ASSUME NEW t \in Live, NEW fails \in SUBSET env.fails,
               NEW empty \in BOOLEAN, NotifyRequestBodyData(t, empty, fails)
        PROVE  Core'
    <2> PICK r : r = RequestBodyData(tx[t], empty, fails)
      BY Zenon
    <2>1. Call(t, r)
      BY <1>9, Zenon DEF NotifyRequestBodyData
    <2>2. Good(r)
      BY <1>3, <2>1, RequestBodyDataGood, Zenon DEF Call
    <2> QED BY <1>2, <2>1, <2>2, CallKeeps, Zenon
  <1>10. ASSUME NEW t \in Live, NEW fails \in SUBSET env.fails,
                NotifyRequestFinished(t, fails)
         PROVE  Core'
    <2> PICK r : r = RequestFinished(tx[t], fails)
      BY Zenon
    <2>1. Call(t, r)
      BY <1>10, Zenon DEF NotifyRequestFinished
    <2>2. Good(r)
      BY <1>3, <2>1, RequestFinishedGood, Zenon DEF Call
    <2> QED BY <1>2, <2>1, <2>2, CallKeeps, Zenon
  <1>11. ASSUME NEW t \in Live, NEW fails \in SUBSET env.fails,
                NEW line \in ResLines, NotifyResponseStarted(t, line, fails)
         PROVE  Core'
    <2> PICK r : r = ResponseStarted(tx[t], line, fails)
      BY Zenon
    <2>1. Call(t, r)
      BY <1>11, Zenon DEF NotifyResponseStarted
    <2>2. Good(r)
      BY <1>3, <2>1, ResponseStartedGood, Zenon DEF Call
    <2> QED BY <1>2, <2>1, <2>2, CallKeeps, Zenon
  <1>12. ASSUME NEW t \in Live, NEW fails \in SUBSET env.fails,
                NotifyResponseHeaderFinished(t, fails)
         PROVE  Core'
    <2> PICK r : r = ResponseHeaderFinished(tx[t], fails)
      BY Zenon
    <2>1. Call(t, r)
      BY <1>12, Zenon DEF NotifyResponseHeaderFinished
    <2>2. Good(r)
      BY <1>3, <2>1, ResponseHeaderFinishedGood, Zenon DEF Call
    <2> QED BY <1>2, <2>1, <2>2, CallKeeps, Zenon
  <1>13. ASSUME NEW t \in Live, NEW fails \in SUBSET env.fails,
                NEW empty \in BOOLEAN, NotifyResponseBodyData(t, empty, fails)
         PROVE  Core'
    <2> PICK r : r = ResponseBodyData(tx[t], empty, fails)
      BY Zenon
    <2>1. Call(t, r)
      BY <1>13, Zenon DEF NotifyResponseBodyData
    <2>2. Good(r)
      BY <1>3, <2>1, ResponseBodyDataGood, Zenon DEF Call
    <2> QED BY <1>2, <2>1, <2>2, CallKeeps, Zenon
  <1>14. ASSUME NEW t \in Live, NEW fails \in SUBSET env.fails,
                NotifyResponseFinished(t, fails)
         PROVE  Core'
    <2> PICK r : r = ResponseFinished(tx[t], fails)
      BY Zenon
    <2>1. Call(t, r)
      BY <1>14, Zenon DEF NotifyResponseFinished
    <2>2. Good(r)
      BY <1>3, <2>1, ResponseFinishedGood, Zenon DEF Call
    <2> QED BY <1>2, <2>1, <2>2, CallKeeps, Zenon
  <1>15. ASSUME NEW t \in Live, NEW fails \in SUBSET env.fails,
                TxnClose(t, fails)
         PROVE  Core'
    BY <1>15, TxnCloseKeeps, Zenon
  <1>16. ASSUME NEW t \in Live, ReqCleanup(t) \/ BodyOutDone(t) PROVE Core'
    BY <1>16, ReqCleanupKeeps, Zenon DEF BodyOutDone
  <1>17. ASSUME NEW fails \in SUBSET env.fails, ConnEnd(fails) PROVE Core'
    <2>1. conn.list = <<>> /\ conn.tx = NULL
      BY <1>17, Zenon DEF ConnEnd, Core, CurrentIsLive
    <2>2. tx' = [t \in Txs |-> tx[t]]
      BY <1>17, <2>1, StateNotifyAssumption, Zenon
      DEF ConnEnd, StateNotifyAssumption
    <2>3. tx' = tx
      BY <1>1, <2>2, Zenon DEF TypeOK
    <2> QED BY <1>17, <2>1, <2>3, CloseEmptyKeeps, Zenon DEF ConnEnd
  <1>18. CASE SsnClose
    BY <1>18, SsnCloseKeeps, Zenon
  <1>19. CASE UNCHANGED vars
    <2>1. /\ conn' = conn /\ tx' = tx /\ ssn' = ssn /\ out' = out
          /\ env' = env
      BY <1>19, Zenon DEF vars
    <2>2. TypeOK' /\ Live' = Live
      BY <1>1, <2>1, Zenon DEF TypeOK, Live
    <2> QED BY <2>1, <2>2, Zenon DEF Core, InOrder, NoTxLeft, CurrentIsLive, DeferredCloses,
        EndedIsLogged
  <1> QED
    BY <1>4, <1>5, <1>6, <1>7, <1>8, <1>9, <1>10, <1>11, <1>12, <1>13,
       <1>14, <1>15, <1>16, <1>17, <1>18, <1>19, Zenon DEF Next

(* The server, and what may fail, stay the same. *)
LEMMA EnvStays ==
    ASSUME [Next]_vars
    PROVE  env' = env
  <1>1. CASE UNCHANGED vars
    BY <1>1, Zenon DEF vars
  <1>2. \A t, r : Call(t, r) => env' = env
    BY Zenon DEF Call
  <1>3. \A rc : ConnCall(rc) => env' = env
    BY Zenon DEF ConnCall
  <1>4. \A t, line, fails, empty :
          \/ NotifyRequestStarted(t, line)
          \/ NotifyRequestHeaderFinished(t, fails)
          \/ NotifyRequestBodyData(t, empty, fails)
          \/ NotifyRequestFinished(t, fails)
          \/ NotifyResponseStarted(t, line, fails)
          \/ NotifyResponseHeaderFinished(t, fails)
          \/ NotifyResponseBodyData(t, empty, fails)
          \/ NotifyResponseFinished(t, fails)
          \/ BodyOutDone(t)
          => env' = env
    BY <1>2, Zenon
    DEF NotifyRequestStarted, NotifyRequestHeaderFinished,
        NotifyRequestBodyData, NotifyRequestFinished,
        NotifyResponseStarted, NotifyResponseHeaderFinished,
        NotifyResponseBodyData, NotifyResponseFinished, BodyOutDone
  <1>5. ConnOpenedAgain \/ SsnClose => env' = env
    BY <1>3, Zenon DEF ConnOpenedAgain, SsnClose
  <1>6. \A t, fails : ConnOpened(fails) \/ TxCreate(t) => env' = env
    BY <1>3, Zenon DEF ConnOpened, TxCreate
  <1>7. \A t, fails : TxnClose(t, fails) \/ ReqCleanup(t) => env' = env
    BY <1>3, Zenon DEF TxnClose, ReqCleanup
  <1>8. \A fails : ConnEnd(fails) => env' = env
    BY <1>3, Zenon DEF ConnEnd
  <1>9. CASE Next
    BY <1>9, <1>4, <1>5, <1>6, <1>7, <1>8, Zenon DEF Next
  <1> QED BY <1>1, <1>9, Zenon

LEMMA StepKeeps ==
    ASSUME IInv, [Next]_vars
    PROVE  IInv'
  BY EnvStays, NextKeeps, Zenon DEF IInv

(* IInv holds of every reachable state, for any number of transactions and *)
(* any failures, with Traffic Server and with httpd.                       *)
THEOREM StatesInductive == Spec => []IInv
  <1>1. Init => IInv
    BY InitCore, Zenon DEF IInv
  <1>2. IInv /\ [Next]_vars => IInv'
    BY StepKeeps, Zenon
  <1> QED BY <1>1, <1>2, PTL DEF Spec

(* The engine notifies each transaction state at most once, and in the     *)
(* documented order, whatever the server calls and whatever fails.         *)
THEOREM StatesInOrder == Spec => []InOrder
  <1>1. IInv => InOrder
    BY Zenon DEF IInv, Core, InOrder
  <1> QED BY <1>1, StatesInductive, PTL

(* A Traffic Server session is not closed with transactions left. *)
THEOREM SessionCounts == Spec => []NoTxLeft
  <1>1. IInv => NoTxLeft
    BY Zenon DEF IInv, Core, NoTxLeft
  <1> QED BY <1>1, StatesInductive, PTL

(* A Traffic Server session that waits for its transactions is closed with *)
(* the last of them.                                                       *)
THEOREM SessionCloses == Spec => []DeferredCloses
  <1>1. IInv => DeferredCloses
    BY Zenon DEF IInv, Core, DeferredCloses
  <1> QED BY <1>1, StatesInductive, PTL

(* Traffic Server and httpd post-process and log every transaction that    *)
(* ends, whatever failed.                                                  *)
THEOREM EndedAreLogged == Spec => []EndedIsLogged
  <1>1. IInv => EndedIsLogged
    BY Zenon DEF IInv, Core, EndedIsLogged
  <1> QED BY <1>1, StatesInductive, PTL

(* With Traffic Server and httpd the values state_notify.c keeps are of    *)
(* the types the model gives them, and conn->tx never points to a          *)
(* transaction that was destroyed.                                         *)
THEOREM CurrentTxLive ==
    Spec => [](env.server # "nginx" => TypeOK /\ CurrentIsLive)
  <1>1. IInv => (env.server # "nginx" => TypeOK /\ CurrentIsLive)
    BY Zenon DEF IInv, Core
  <1> QED BY <1>1, StatesInductive, PTL
-----------------------------------------------------------------------------
(* The second argument, for every server: whatever is called, and also on  *)
(* a transaction that was logged early, the flags of the request and of    *)
(* the response header keep their order, the header flag comes with its    *)
(* first state, and the context of the transaction with the last.  When    *)
(* its selection is not among the failures that may happen, the context    *)
(* comes with the flag.                                                    *)
Fit(r, may) ==
    /\ r \in TxType
    /\ Has(r, "REQ_HAS_DATA") => Has(r, "REQ_STARTED")
    /\ Has(r, "REQ_FINISHED") => Has(r, "REQ_STARTED")
    /\ Has(r, "REQ_FINISHED") /\ Has(r, "REQ_HAS_DATA") => Has(r, "REQ_HEADER")
    /\ Has(r, "RES_STARTED") => Has(r, "REQ_FINISHED") /\ Has(r, "REQ_HAS_DATA")
    /\ Has(r, "RES_HEADER") => Has(r, "RES_STARTED")
    /\ Has(r, "REQ_HEADER") => "request_header_process" \in r.states
    /\ "handle_context_tx" \in r.states <=> "handle_request_header" \in r.states
    /\ Has(r, "REQ_HEADER") /\ "ctxsel" \notin may => "handle_context_tx" \in r.states

(* The flags and the states that Fit speaks of. *)
Rungs == {"REQ_STARTED", "REQ_HAS_DATA", "REQ_HEADER", "REQ_FINISHED",
          "RES_STARTED", "RES_HEADER"}
Heads == {"request_header_process", "handle_context_tx", "handle_request_header"}

(* s comes from r by a step that adds none of them. *)
Like(r, s) ==
    /\ s \in TxType /\ s.body = r.body
    /\ r.flags \subseteq s.flags /\ s.flags \cap Rungs \subseteq r.flags
    /\ r.states \subseteq s.states /\ s.states \cap Heads \subseteq r.states

LEMMA LikeFit ==
    ASSUME NEW r, NEW s, NEW may, Fit(r, may), Like(r, s)
    PROVE  Fit(s, may) /\ s.body = r.body /\ \A f \in Rungs : Has(s, f) <=> Has(r, f)
  BY Zenon DEF Fit, Like, Has, Rungs, Heads

LEMMA LikeTransitive ==
    ASSUME NEW r, NEW s, NEW u, Like(r, s), Like(s, u)
    PROVE  Like(r, u)
  BY Zenon DEF Like

(* What a notification does, in whatever order it comes. *)
LEMMA NotifiedType ==
    ASSUME NEW r \in TxType, NEW s \in States
    PROVE  /\ Notified(r, s) \in TxType
           /\ Notified(r, s).flags = r.flags
           /\ Notified(r, s).states = r.states \cup {s}
           /\ Notified(r, s).body = r.body
  <1>1. Notified(r, s) \in TxType
    BY Zenon DEF Notified, TxType, Statuses
  <1>2. Notified(r, s).flags = r.flags /\ Notified(r, s).states = r.states \cup {s}
    BY Zenon DEF Notified, TxType, Statuses
  <1>3. Notified(r, s).body = r.body
    BY Zenon DEF Notified, TxType, Statuses
  <1> QED BY <1>1, <1>2, <1>3, Zenon

LEMMA NotifyTxType ==
    ASSUME NEW r \in TxType, NEW s \in States
    PROVE  /\ NotifyTx(r, s) \in TxType
           /\ NotifyTx(r, s).flags = r.flags
           /\ NotifyTx(r, s).states = r.states \cup {s}
           /\ NotifyTx(r, s).body = r.body
  <1> DEFINE n == Notified(r, s)
  <1>1. /\ n \in TxType /\ n.flags = r.flags
        /\ n.states = r.states \cup {s} /\ n.body = r.body
    BY NotifiedType, Zenon
  <1>2. NotifyTx(r, s) = [n EXCEPT !.current = TRUE]
    BY Zenon DEF NotifyTx
  <1> HIDE DEF n
  <1> QED BY <1>1, <1>2, Zenon DEF TxType

LEMMA MarkType ==
    ASSUME NEW r \in TxType, NEW fs \in SUBSET Flags
    PROVE  /\ Mark(r, fs) \in TxType
           /\ Mark(r, fs).flags = r.flags \cup fs
           /\ Mark(r, fs).states = r.states
           /\ Mark(r, fs).body = r.body
  BY Zenon DEF Mark, TxType

(* The steps that keep a record alike. *)
LEMMA ReturnLike ==
    ASSUME NEW r \in TxType, NEW s \in Statuses
    PROVE  Like(r, Return(r, s))
  BY Zenon DEF Like, Return, TxType

LEMMA PumpCloseLike ==
    ASSUME NEW r \in TxType, NEW pump \in {"request", "response"}, NEW fail, NEW fails
    PROVE  Like(r, PumpClose(r, pump, fail, fails))
  <1>1. /\ PumpClose(r, pump, fail, fails) \in TxType
        /\ PumpClose(r, pump, fail, fails).flags = r.flags
        /\ PumpClose(r, pump, fail, fails).states = r.states
    BY PumpCloseEffect
  <1>2. PumpClose(r, pump, fail, fails).body = r.body
    BY Zenon DEF PumpClose, TxType
  <1> QED BY <1>1, <1>2, Zenon DEF Like

LEMMA NotifyLike ==
    ASSUME NEW r \in TxType, NEW s \in States \ Heads
    PROVE  Like(r, NotifyTx(r, s)) /\ Like(r, Notified(r, s))
  BY NotifyTxType, NotifiedType DEF Like

LEMMA MarkLike ==
    ASSUME NEW r \in TxType, NEW fs \in SUBSET (Flags \ Rungs)
    PROVE  Like(r, Mark(r, fs))
  BY MarkType DEF Like

(* A mark that is a rung, then a state that is no head. *)
LEMMA NotifyThreeLike ==
    ASSUME NEW r \in TxType, NEW x \in States \ Heads, NEW y \in States \ Heads,
           NEW z \in States \ Heads
    PROVE  Like(r, NotifyTx(NotifyTx(NotifyTx(r, x), y), z))
  <1> DEFINE a == NotifyTx(r, x)
             b == NotifyTx(a, y)
             c == NotifyTx(b, z)
  <1>1. Like(r, a) /\ a \in TxType
    BY NotifyLike, Zenon DEF Like
  <1> HIDE DEF a
  <1>2. Like(a, b) /\ b \in TxType
    BY <1>1, NotifyLike, Zenon DEF Like
  <1> HIDE DEF b
  <1>3. Like(b, c)
    BY <1>2, NotifyLike, Zenon
  <1> HIDE DEF c
  <1>4. Like(r, c)
    BY <1>1, <1>2, <1>3, LikeTransitive, Zenon
  <1> QED BY <1>4, Zenon DEF a, b, c

-----------------------------------------------------------------------------
LEMMA RequestStartedFit ==
    ASSUME NEW r, NEW may, Fit(r, may), NEW line \in ReqLines
    PROVE  Fit(RequestStarted(r, line), may) /\ RequestStarted(r, line).body = r.body
  <1> DEFINE m == Mark(r, {"REQ_STARTED"})
             a == NotifyTx(m, "tx_started")
             fs == {"REQ_HAS_DATA"} \cup
                   IF line = "http09" THEN {"HTTP09"} ELSE {}
             b == Mark(a, fs)
             c == Notified(b, "request_started")
             d == Mark(c, {"REQ_LINE"})
  <1>0. r \in TxType
    BY Zenon DEF Fit
  <1>1. CASE Has(r, "REQ_STARTED")
    BY <1>0, <1>1, ReturnLike, LikeFit, Zenon DEF RequestStarted, Statuses
  <1>2. CASE ~Has(r, "REQ_STARTED")
    <2>1. /\ m \in TxType /\ m.flags = r.flags \cup {"REQ_STARTED"}
          /\ m.states = r.states /\ m.body = r.body
      BY <1>0, MarkType, Zenon DEF Flags
    <2> HIDE DEF m
    <2>2. /\ a \in TxType /\ a.flags = r.flags \cup {"REQ_STARTED"}
          /\ a.states = r.states \cup {"tx_started"} /\ a.body = r.body
      BY <2>1, NotifyTxType, StateValues, Zenon
    <2> HIDE DEF a
    <2>3. Fit(a, may)
      BY <1>2, <2>2, Zenon DEF Fit, Has
    <2>4. b \in TxType /\ b.flags = a.flags \cup fs /\ b.states = a.states /\ b.body = r.body
      <3>1. fs \in SUBSET Flags
        BY Zenon DEF Flags
      <3> QED BY <2>2, <3>1, MarkType
    <2> HIDE DEF b
    <2>5. /\ c \in TxType /\ c.flags = b.flags /\ c.body = r.body
          /\ c.states = b.states \cup {"request_started"}
      BY <2>4, NotifiedType, StateValues, Zenon
    <2> HIDE DEF c
    <2>6. /\ d \in TxType /\ d.flags = c.flags \cup {"REQ_LINE"} /\ d.body = r.body
          /\ d.states = c.states
      BY <2>5, MarkType, Zenon DEF Flags
    <2> HIDE DEF d
    <2>7. Fit(d, may)
      BY <1>2, <2>2, <2>4, <2>5, <2>6 DEF Fit, Has, fs
    <2>8. RequestStarted(r, line) \in {a, d, Return(a, "EINVAL")}
      BY <1>2, Zenon DEF RequestStarted, m, a, fs, b, c, d
    <2>9. Fit(Return(a, "EINVAL"), may) /\ Return(a, "EINVAL").body = r.body
      BY <2>2, <2>3, ReturnLike, LikeFit, Zenon DEF Statuses
    <2> QED BY <2>2, <2>3, <2>6, <2>7, <2>8, <2>9, Zenon
  <1> QED BY <1>1, <1>2, Zenon

(* The header states come together with their flag. *)
LEMMA RequestHeaderFinishedFit ==
    ASSUME NEW r, NEW may, Fit(r, may), NEW fails \in SUBSET may
    PROVE  /\ Fit(RequestHeaderFinished(r, fails), may)
           /\ RequestHeaderFinished(r, fails).body = r.body
           /\ RequestHeaderFinished(r, fails).flags =
                IF Has(r, "REQ_HAS_DATA") THEN r.flags \cup {"REQ_HEADER"} ELSE r.flags
  <1> DEFINE m == Mark(r, {"REQ_HEADER"})
             a == NotifyTx(m, "request_header_process")
             b == NotifyTx(a, "handle_context_tx")
             c == NotifyTx(b, "request_header_finished")
             d == NotifyTx(c, "handle_request_header")
  <1>0. r \in TxType /\ (Has(r, "REQ_HAS_DATA") => Has(r, "REQ_STARTED"))
    BY Zenon DEF Fit
  <1>1. CASE ~Has(r, "REQ_HAS_DATA") \/ Has(r, "REQ_HEADER")
    <2>1. PICK s \in Statuses : RequestHeaderFinished(r, fails) = Return(r, s)
      BY <1>0, <1>1, Zenon DEF RequestHeaderFinished, Statuses
    <2>2. Like(r, Return(r, s)) /\ Return(r, s).flags = r.flags
      BY <1>0, ReturnLike, ReturnEffect, Zenon
    <2>3. Has(r, "REQ_HAS_DATA") => r.flags = r.flags \cup {"REQ_HEADER"}
      BY <1>1, Zenon DEF Has
    <2> QED BY <2>1, <2>2, <2>3, LikeFit, Zenon
  <1>2. CASE Has(r, "REQ_HAS_DATA") /\ ~Has(r, "REQ_HEADER")
    <2>1. /\ m \in TxType /\ m.flags = r.flags \cup {"REQ_HEADER"}
          /\ m.states = r.states /\ m.body = r.body
      BY <1>0, MarkType, Zenon DEF Flags
    <2> HIDE DEF m
    <2>2. /\ a \in TxType /\ a.flags = m.flags /\ a.body = r.body
          /\ a.states = r.states \cup {"request_header_process"}
      BY <2>1, NotifyTxType, StateValues, Zenon
    <2> HIDE DEF a
    <2>3. /\ b \in TxType /\ b.flags = m.flags /\ b.body = r.body
          /\ b.states = a.states \cup {"handle_context_tx"}
      BY <2>2, NotifyTxType, StateValues, Zenon
    <2> HIDE DEF b
    <2>4. /\ c \in TxType /\ c.flags = m.flags /\ c.body = r.body
          /\ c.states = b.states \cup {"request_header_finished"}
      BY <2>3, NotifyTxType, StateValues, Zenon
    <2> HIDE DEF c
    <2>5. /\ d \in TxType /\ d.flags = m.flags /\ d.body = r.body
          /\ d.states = c.states \cup {"handle_request_header"}
      BY <2>4, NotifyTxType, StateValues, Zenon
    <2> HIDE DEF d
    <2>6. "ctxsel" \in may => Fit(a, may)
      BY <1>2, <2>1, <2>2 DEF Fit, Has
    <2>7. Fit(d, may)
      BY <1>2, <2>1, <2>2, <2>3, <2>4, <2>5 DEF Fit, Has
    <2>8. \/ "ctxsel" \in may /\ RequestHeaderFinished(r, fails) = Return(a, "EOTHER")
          \/ RequestHeaderFinished(r, fails) = d
      BY <1>0, <1>2, Zenon DEF RequestHeaderFinished, m, a, b, c, d
    <2>9. "ctxsel" \in may =>
             /\ Fit(Return(a, "EOTHER"), may) /\ Return(a, "EOTHER").body = r.body
             /\ Return(a, "EOTHER").flags = a.flags
      BY <2>2, <2>6, ReturnLike, ReturnEffect, LikeFit DEF Statuses
    <2> QED BY <1>2, <2>1, <2>2, <2>5, <2>7, <2>8, <2>9, Zenon
  <1> QED BY <1>1, <1>2, Zenon

LEMMA WithRequestHeaderFit ==
    ASSUME NEW r, NEW may, Fit(r, may), NEW fails \in SUBSET may
    PROVE  /\ Fit(WithRequestHeader(r, fails), may)
           /\ WithRequestHeader(r, fails).body = r.body
           /\ r.flags \subseteq WithRequestHeader(r, fails).flags
           /\ WithRequestHeader(r, fails).flags \subseteq r.flags \cup {"REQ_HEADER"}
           /\ Has(r, "REQ_HAS_DATA") => Has(WithRequestHeader(r, fails), "REQ_HEADER")
  <1>1. CASE Has(r, "REQ_HEADER")
    BY <1>1, Zenon DEF WithRequestHeader
  <1>2. CASE ~Has(r, "REQ_HEADER")
    BY <1>2, RequestHeaderFinishedFit, Zenon DEF WithRequestHeader, Has
  <1> QED BY <1>1, <1>2, Zenon

(* A request is finished with its header. *)
LEMMA RequestFinishedFit ==
    ASSUME NEW r, NEW may, Fit(r, may), NEW fails \in SUBSET may
    PROVE  /\ Fit(RequestFinished(r, fails), may)
           /\ RequestFinished(r, fails).body = r.body
           /\ r.flags \subseteq RequestFinished(r, fails).flags
           /\ RequestFinished(r, fails).flags
                \subseteq r.flags \cup {"REQ_HEADER", "REQ_FINISHED"}
           /\ Has(r, "REQ_STARTED") => Has(RequestFinished(r, fails), "REQ_FINISHED")
  <1> DEFINE h == WithRequestHeader(r, fails)
             a == Mark(h, {"REQ_FINISHED"})
             d == NotifyTx(NotifyTx(NotifyTx(a, "request_finished"), "handle_request"),
                           "tx_process")
             e == PumpClose(d, "request", "request_close", fails)
  <1>0. r \in TxType
    BY Zenon DEF Fit
  <1>1. CASE ~Has(r, "REQ_STARTED") \/ Has(r, "REQ_FINISHED")
    <2>1. PICK s \in Statuses : RequestFinished(r, fails) = Return(r, s)
      BY <1>1, Zenon DEF RequestFinished, Statuses
    <2>2. Like(r, Return(r, s)) /\ Return(r, s).flags = r.flags
      BY <1>0, ReturnLike, ReturnEffect, Zenon
    <2> QED BY <1>1, <2>1, <2>2, LikeFit, Zenon DEF Has
  <1>2. CASE Has(r, "REQ_STARTED") /\ ~Has(r, "REQ_FINISHED")
    <2>1. /\ Fit(h, may) /\ h.body = r.body /\ r.flags \subseteq h.flags
          /\ h.flags \subseteq r.flags \cup {"REQ_HEADER"}
          /\ Has(r, "REQ_HAS_DATA") => Has(h, "REQ_HEADER")
      BY WithRequestHeaderFit, Zenon
    <2> HIDE DEF h
    <2>2. /\ a \in TxType /\ a.flags = h.flags \cup {"REQ_FINISHED"}
          /\ a.states = h.states /\ a.body = h.body
      BY <2>1, MarkType, Zenon DEF Flags, Fit
    <2>3. Fit(a, may)
      BY <1>2, <2>1, <2>2, Zenon DEF Fit, Has
    <2> HIDE DEF a
    <2>4. Like(a, d) /\ d \in TxType
      <3>1. {"request_finished", "handle_request", "tx_process"} \subseteq States \ Heads
        BY StateValues, Zenon DEF Heads
      <3>2. /\ "request_finished" \in States \ Heads /\ "handle_request" \in States \ Heads
            /\ "tx_process" \in States \ Heads
        BY <3>1, Zenon
      <3>3. Like(a, d)
        BY <2>2, <3>2, NotifyThreeLike, Zenon
      <3> QED BY <3>3, Zenon DEF Like
    <2> HIDE DEF d
    <2>5. Like(d, e) /\ e.flags = d.flags
      BY <2>4, PumpCloseLike, PumpCloseEffect
    <2>6. d.flags = a.flags
      <3>1. {"request_finished", "handle_request", "tx_process"} \subseteq States
        BY StateValues, Zenon
      <3> DEFINE b == NotifyTx(a, "request_finished")
                 c == NotifyTx(b, "handle_request")
      <3>2. b \in TxType /\ b.flags = a.flags
        BY <2>2, <3>1, NotifyTxType, Zenon
      <3> HIDE DEF b
      <3>3. c \in TxType /\ c.flags = a.flags
        BY <3>1, <3>2, NotifyTxType, Zenon
      <3> HIDE DEF c
      <3>4. NotifyTx(c, "tx_process").flags = a.flags
        BY <3>1, <3>3, NotifyTxType, Zenon
      <3> QED BY <3>4, Zenon DEF d, c, b
    <2>7. Like(a, e)
      BY <2>4, <2>5, LikeTransitive, Zenon
    <2>8. RequestFinished(r, fails) = e
      BY <1>2, Zenon DEF RequestFinished, h, a, d
    <2> HIDE DEF e
    <2>9. Fit(e, may) /\ e.body = a.body
      BY <2>3, <2>7, LikeFit, Zenon
    <2> QED BY <2>1, <2>2, <2>5, <2>6, <2>8, <2>9, Zenon DEF Has
  <1> QED BY <1>1, <1>2, Zenon

LEMMA NotifyResponseLineLike ==
    ASSUME NEW r \in TxType, NEW line
    PROVE  Like(r, NotifyResponseLine(r, line))
  <1> DEFINE n == Notified(r, "response_started")
             v == [n EXCEPT !.line = (line = "line")]
  <1>1. n \in TxType /\ Like(r, n)
    BY NotifyLike, StateValues, Zenon DEF Like, Heads
  <1> HIDE DEF n
  <1>2. v \in TxType
    BY <1>1, Zenon DEF TxType
  <1>3. v.flags = n.flags /\ v.states = n.states /\ v.body = n.body
    BY <1>1, Zenon DEF TxType
  <1>4. Like(n, v)
    BY <1>2, <1>3, Zenon DEF Like
  <1>5. NotifyResponseLine(r, line) \in {Return(r, "OK"), v}
    BY Zenon DEF NotifyResponseLine, n
  <1> HIDE DEF v
  <1>6. Like(r, Return(r, "OK")) /\ Like(r, v)
    BY <1>1, <1>4, ReturnLike, LikeTransitive, Zenon DEF Statuses
  <1> QED BY <1>5, <1>6, Zenon

(* A response is started when its request is finished. *)
LEMMA ResponseStartedFit ==
    ASSUME NEW r, NEW may, Fit(r, may), NEW line \in ResLines, NEW fails \in SUBSET may
    PROVE  /\ Fit(ResponseStarted(r, line, fails), may)
           /\ ResponseStarted(r, line, fails).body = r.body
           /\ r.flags \subseteq ResponseStarted(r, line, fails).flags
           /\ Has(r, "REQ_HAS_DATA") => Has(ResponseStarted(r, line, fails), "RES_STARTED")
           /\ Has(ResponseStarted(r, line, fails), "REQ_HAS_DATA") => Has(r, "REQ_HAS_DATA")
  <1> DEFINE a == IF Has(r, "REQ_FINISHED") THEN r ELSE RequestFinished(r, fails)
             m == Mark(a, {"RES_STARTED"})
             b == NotifyResponseLine(m, line)
             c == Mark(b, {"RES_HAS_DATA", "RES_LINE"})
  <1>0. r \in TxType /\ (Has(r, "REQ_HAS_DATA") => Has(r, "REQ_STARTED"))
    BY Zenon DEF Fit
  <1>1. CASE ~Has(r, "REQ_HAS_DATA") \/ Has(r, "RES_STARTED")
    <2>1. PICK s \in Statuses : ResponseStarted(r, line, fails) = Return(r, s)
      BY <1>0, <1>1, Zenon DEF ResponseStarted, Statuses
    <2>2. Like(r, Return(r, s)) /\ Return(r, s).flags = r.flags
      BY <1>0, ReturnLike, ReturnEffect, Zenon
    <2> QED BY <1>1, <2>1, <2>2, LikeFit, Zenon DEF Has
  <1>2. CASE Has(r, "REQ_HAS_DATA") /\ ~Has(r, "RES_STARTED")
    <2>1. /\ Fit(a, may) /\ a.body = r.body /\ r.flags \subseteq a.flags
          /\ Has(a, "REQ_FINISHED") /\ a.flags \subseteq r.flags \cup {"REQ_HEADER", "REQ_FINISHED"}
      BY <1>0, <1>2, RequestFinishedFit, Zenon
    <2> HIDE DEF a
    <2>2. /\ m \in TxType /\ m.flags = a.flags \cup {"RES_STARTED"}
          /\ m.states = a.states /\ m.body = a.body
      BY <2>1, MarkType, Zenon DEF Flags, Fit
    <2> HIDE DEF m
    <2>3. Fit(m, may)
      BY <1>2, <2>1, <2>2, Zenon DEF Fit, Has
    <2>4. Like(m, b) /\ b \in TxType
      BY <2>2, NotifyResponseLineLike, Zenon DEF Like
    <2> HIDE DEF b
    <2>5. Like(b, c)
      <3>1. {"RES_HAS_DATA", "RES_LINE"} \in SUBSET (Flags \ Rungs)
        BY Zenon DEF Flags, Rungs
      <3> QED BY <2>4, <3>1, MarkLike, Zenon
    <2>6. ResponseStarted(r, line, fails) \in {b, c}
      BY <1>0, <1>2, Zenon DEF ResponseStarted, a, m, b, c
    <2> HIDE DEF c
    <2>7. Like(m, c)
      BY <2>4, <2>5, LikeTransitive, Zenon
    <2>8. \A s : Like(m, s) =>
             /\ Fit(s, may) /\ s.body = r.body /\ r.flags \subseteq s.flags
             /\ Has(s, "RES_STARTED")
      BY <2>1, <2>2, <2>3, LikeFit, Zenon DEF Like, Has
    <2> QED BY <1>2, <2>4, <2>6, <2>7, <2>8, Zenon
  <1> QED BY <1>1, <1>2, Zenon

(* A response header comes with the response, and with the request's. *)
LEMMA ResponseHeaderFinishedFit ==
    ASSUME NEW r, NEW may, Fit(r, may), NEW fails \in SUBSET may
    PROVE  /\ Fit(ResponseHeaderFinished(r, fails), may)
           /\ ResponseHeaderFinished(r, fails).body = r.body
           /\ r.flags \subseteq ResponseHeaderFinished(r, fails).flags
           /\ Has(r, "REQ_HAS_DATA") => Has(ResponseHeaderFinished(r, fails), "REQ_HEADER")
  <1> DEFINE a == IF Has(r, "RES_STARTED") THEN r ELSE ResponseStarted(r, "none", fails)
             m == Mark(a, {"RES_HEADER"})
             b == NotifyTx(m, "response_header_finished")
             c == NotifyTx(b, "handle_response_header")
  <1>0. r \in TxType
    BY Zenon DEF Fit
  <1>1. CASE ~Has(r, "REQ_HAS_DATA") \/ Has(r, "RES_HEADER")
    <2>1. PICK s \in Statuses : ResponseHeaderFinished(r, fails) = Return(r, s)
      BY <1>1, Zenon DEF ResponseHeaderFinished, Statuses
    <2>2. Like(r, Return(r, s)) /\ Return(r, s).flags = r.flags
      BY <1>0, ReturnLike, ReturnEffect, Zenon
    <2>3. Has(r, "REQ_HAS_DATA") => Has(r, "REQ_HEADER")
      BY <1>1, Zenon DEF Fit
    <2> QED BY <2>1, <2>2, <2>3, LikeFit, Zenon DEF Has
  <1>2. CASE Has(r, "REQ_HAS_DATA") /\ ~Has(r, "RES_HEADER")
    <2>1. /\ Fit(a, may) /\ a.body = r.body /\ r.flags \subseteq a.flags
          /\ Has(a, "RES_STARTED")
      BY <1>2, ResponseStartedFit, Zenon DEF ResLines
    <2> HIDE DEF a
    <2>2. /\ m \in TxType /\ m.flags = a.flags \cup {"RES_HEADER"}
          /\ m.states = a.states /\ m.body = a.body
      BY <2>1, MarkType, Zenon DEF Flags, Fit
    <2> HIDE DEF m
    <2>3. Fit(m, may)
      BY <1>2, <2>1, <2>2, Zenon DEF Fit, Has
    <2>4. Like(m, b) /\ b \in TxType
      BY <2>2, NotifyLike, StateValues DEF Like, Heads
    <2> HIDE DEF b
    <2>5. Like(b, c)
      BY <2>4, NotifyLike, StateValues, Zenon DEF Heads
    <2>6. ResponseHeaderFinished(r, fails) = c
      BY <1>2, Zenon DEF ResponseHeaderFinished, a, m, b, c
    <2> HIDE DEF c
    <2>7. Like(m, c)
      BY <2>4, <2>5, LikeTransitive, Zenon
    <2>8. /\ Fit(c, may) /\ c.body = m.body /\ m.flags \subseteq c.flags
      BY <2>3, <2>7, LikeFit, Zenon DEF Like
    <2>9. Has(c, "REQ_HEADER")
      BY <2>2, <2>8, Zenon DEF Fit, Has
    <2> QED BY <2>1, <2>2, <2>6, <2>8, <2>9, Zenon
  <1> QED BY <1>1, <1>2, Zenon

(* What delivering body data keeps, and that it has the header before it. *)
LEMMA BodyDataFit ==
    ASSUME NEW r, NEW may, Fit(r, may), Has(r, "REQ_HEADER"), NEW direction \in Bodies, NEW fails \in SUBSET may,
           NEW fs \in SUBSET {"REQ_BODY", "RES_HAS_DATA", "RES_BODY"}
    PROVE  Fit(BodyData(r, direction, fs, fails), may)
           /\ Has(BodyData(r, direction, fs, fails), "REQ_HEADER")
  <1>1. fs \in SUBSET Flags /\ r \in TxType
    BY Zenon DEF Flags, Fit
  <1>2. /\ BodyData(r, direction, fs, fails) \in TxType
        /\ BodyData(r, direction, fs, fails).flags = r.flags \cup fs
        /\ BodyData(r, direction, fs, fails).states = r.states
    BY <1>1, BodyDataEffect
  <1> QED BY <1>2, Zenon DEF Fit, Has

LEMMA RequestBodyDataFit ==
    ASSUME NEW r, NEW may, Fit(r, may), r.body = "none", NEW empty \in BOOLEAN, NEW fails \in SUBSET may
    PROVE  /\ Fit(RequestBodyData(r, empty, fails), may)
           /\ RequestBodyData(r, empty, fails).body # "none"
                => Has(RequestBodyData(r, empty, fails), "REQ_HEADER")
  <1> DEFINE h == WithRequestHeader(r, fails)
             b == BodyData(h, "request", {"REQ_BODY"}, fails)
  <1>1. CASE \E s \in Statuses : RequestBodyData(r, empty, fails) = Return(r, s)
    BY <1>1, ReturnLike, LikeFit DEF Fit
  <1>2. CASE /\ Has(r, "REQ_HAS_DATA") /\ RequestBodyData(r, empty, fails) = b
    <2>1. Fit(h, may) /\ Has(h, "REQ_HEADER")
      BY <1>2, WithRequestHeaderFit, Zenon
    <2> HIDE DEF h
    <2>2. Fit(b, may) /\ Has(b, "REQ_HEADER")
      BY <2>1, BodyDataFit, Zenon DEF Bodies
    <2> QED BY <1>2, <2>2, Zenon
  <1>3. \/ ~Has(r, "REQ_STARTED") \/ ~Has(r, "REQ_HAS_DATA") \/ empty \/ ~Has(r, "REQ_LINE")
        \/ Has(r, "REQ_HAS_DATA") /\ RequestBodyData(r, empty, fails) = b
    BY Zenon DEF RequestBodyData
  <1>4. {"OK", "EINVAL"} \subseteq Statuses
    BY Zenon DEF Statuses
  <1>5. ~Has(r, "REQ_STARTED") \/ ~Has(r, "REQ_HAS_DATA") \/ empty \/ ~Has(r, "REQ_LINE")
           => RequestBodyData(r, empty, fails) \in {Return(r, "OK"), Return(r, "EINVAL")}
    BY Zenon DEF RequestBodyData
  <1> QED BY <1>1, <1>2, <1>3, <1>4, <1>5, Zenon

LEMMA ResponseBodyDataFit ==
    ASSUME NEW r, NEW may, Fit(r, may), r.body = "none", NEW empty \in BOOLEAN, NEW fails \in SUBSET may
    PROVE  /\ Fit(ResponseBodyData(r, empty, fails), may)
           /\ ResponseBodyData(r, empty, fails).body # "none"
                => Has(ResponseBodyData(r, empty, fails), "REQ_HEADER")
  <1> DEFINE h == IF Has(r, "RES_HEADER") THEN r ELSE ResponseHeaderFinished(r, fails)
             b == BodyData(h, "response", {"RES_HAS_DATA", "RES_BODY"}, fails)
  <1>1. CASE ResponseBodyData(r, empty, fails) \in {Return(r, "OK"), Return(r, "EINVAL")}
    <2>1. {"OK", "EINVAL"} \subseteq Statuses
      BY Zenon DEF Statuses
    <2>2. PICK st \in Statuses : ResponseBodyData(r, empty, fails) = Return(r, st)
      BY <1>1, <2>1, Zenon
    <2>3. Fit(Return(r, st), may) /\ Return(r, st).body = "none"
      BY ReturnLike, LikeFit, Zenon DEF Fit
    <2> QED BY <2>2, <2>3, Zenon
  <1>2. CASE Has(r, "REQ_HAS_DATA") /\ ResponseBodyData(r, empty, fails) = b
    <2>1. Fit(h, may) /\ Has(h, "REQ_HEADER")
      <3>1. CASE Has(r, "RES_HEADER")
        BY <3>1, Zenon DEF Fit
      <3>2. CASE ~Has(r, "RES_HEADER")
        BY <1>2, <3>2, ResponseHeaderFinishedFit, Zenon
      <3> QED BY <3>1, <3>2, Zenon
    <2> HIDE DEF h
    <2>2. Fit(b, may) /\ Has(b, "REQ_HEADER")
      BY <2>1, BodyDataFit, Zenon DEF Bodies
    <2> QED BY <1>2, <2>2, Zenon
  <1> QED BY <1>1, <1>2, Zenon DEF ResponseBodyData

-----------------------------------------------------------------------------
LEMMA PostprocessLike ==
    ASSUME NEW r \in TxType
    PROVE  Like(r, Postprocess(r)) /\ Has(Postprocess(r), "POSTPROCESS")
  <1> DEFINE m == Mark(r, {"POSTPROCESS"})
             n == NotifyTx(m, "handle_postprocess")
  <1>1. CASE Has(r, "POSTPROCESS")
    BY <1>1, ReturnLike, ReturnEffect, Zenon DEF Postprocess, Has, Statuses
  <1>2. CASE ~Has(r, "POSTPROCESS")
    <2>1. m \in TxType /\ Like(r, m) /\ m.flags = r.flags \cup {"POSTPROCESS"}
      BY MarkType, MarkLike, Zenon DEF Flags, Rungs
    <2> HIDE DEF m
    <2>2. Like(m, n) /\ n.flags = m.flags
      BY <2>1, NotifyLike, NotifyTxType, StateValues, Zenon DEF Heads
    <2>3. Postprocess(r) = n
      BY <1>2, Zenon DEF Postprocess, m
    <2> HIDE DEF n
    <2> QED BY <2>1, <2>2, <2>3, LikeTransitive, Zenon DEF Has
  <1> QED BY <1>1, <1>2, Zenon

LEMMA LoggingLike ==
    ASSUME NEW r \in TxType
    PROVE  Like(r, Logging(r)) /\ Has(Logging(r), "LOGGING")
  <1> DEFINE m == Mark(r, {"LOGGING"})
             n == NotifyTx(m, "handle_logging")
  <1>1. CASE Has(r, "LOGGING")
    BY <1>1, ReturnLike, ReturnEffect, Zenon DEF Logging, Has, Statuses
  <1>2. CASE ~Has(r, "LOGGING")
    <2>1. m \in TxType /\ Like(r, m) /\ m.flags = r.flags \cup {"LOGGING"}
      BY MarkType, MarkLike, Zenon DEF Flags, Rungs
    <2> HIDE DEF m
    <2>2. Like(m, n) /\ n.flags = m.flags
      BY <2>1, NotifyLike, NotifyTxType, StateValues, Zenon DEF Heads
    <2>3. Logging(r) = n
      BY <1>2, Zenon DEF Logging, m
    <2> HIDE DEF n
    <2> QED BY <2>1, <2>2, <2>3, LikeTransitive, Zenon DEF Has
  <1> QED BY <1>1, <1>2, Zenon

(* Post-processing and logging, done or made up for. *)
LEMMA LoggedLike ==
    ASSUME NEW r \in TxType
    PROVE  /\ Like(r, WithLogging(WithPostprocess(r)))
           /\ {"POSTPROCESS", "LOGGING"} \subseteq WithLogging(WithPostprocess(r)).flags
           /\ Like(r, Logging(Postprocess(r)))
  <1> DEFINE a == WithPostprocess(r)
             b == WithLogging(a)
             p == Postprocess(r)
  <1>0. Like(r, r)
    BY Zenon DEF Like
  <1>1. Like(r, p) /\ p \in TxType /\ Has(p, "POSTPROCESS")
    BY PostprocessLike, Zenon DEF Like
  <1> HIDE DEF p
  <1>2. Like(r, a) /\ a \in TxType /\ Has(a, "POSTPROCESS")
    BY <1>0, <1>1, Zenon DEF WithPostprocess, p
  <1> HIDE DEF a
  <1>3. Like(a, b) /\ Has(b, "LOGGING")
    <2>1. CASE Has(a, "LOGGING")
      BY <1>2, <2>1, Zenon DEF WithLogging, Like
    <2>2. CASE ~Has(a, "LOGGING")
      BY <1>2, <2>2, LoggingLike, Zenon DEF WithLogging
    <2> QED BY <2>1, <2>2, Zenon
  <1> HIDE DEF b
  <1>4. {"POSTPROCESS", "LOGGING"} \subseteq b.flags
    BY <1>2, <1>3, Zenon DEF Like, Has
  <1>5. Like(p, Logging(p))
    BY <1>1, LoggingLike, Zenon
  <1>6. Like(r, b) /\ Like(r, Logging(p))
    BY <1>1, <1>2, <1>3, <1>5, LikeTransitive, Zenon
  <1> QED BY <1>4, <1>6, Zenon DEF a, b, p

LEMMA ResponseFinishedFit ==
    ASSUME NEW r, NEW may, Fit(r, may), NEW fails \in SUBSET may
    PROVE  Fit(ResponseFinished(r, fails), may) /\ ResponseFinished(r, fails).body = r.body
  <1> DEFINE a == IF Has(r, "RES_HEADER") THEN r ELSE ResponseHeaderFinished(r, fails)
             m == Mark(a, {"RES_FINISHED"})
             b == NotifyTx(m, "response_finished")
             n == NotifyTx(b, "handle_response")
             c == WithLogging(WithPostprocess(n))
             d == PumpClose(c, "request", "response_close", fails)
             e == NotifyTx(d, "tx_finished")
  <1>0. r \in TxType
    BY Zenon DEF Fit
  <1>1. CASE \E s \in Statuses : ResponseFinished(r, fails) = Return(r, s)
    BY <1>0, <1>1, ReturnLike, LikeFit, Zenon
  <1>2. CASE ResponseFinished(r, fails) \in {d, e}
    <2>1. Fit(a, may) /\ a.body = r.body /\ a \in TxType
      BY ResponseHeaderFinishedFit, Zenon DEF Fit
    <2> HIDE DEF a
    <2>2. Like(a, m) /\ m \in TxType
      BY <2>1, MarkLike, Zenon DEF Flags, Rungs, Like
    <2> HIDE DEF m
    <2>3. Like(m, b) /\ b \in TxType
      BY <2>2, NotifyLike, StateValues, Zenon DEF Heads, Like
    <2> HIDE DEF b
    <2>4. Like(b, n) /\ n \in TxType
      BY <2>3, NotifyLike, StateValues, Zenon DEF Heads, Like
    <2> HIDE DEF n
    <2>5. Like(n, c) /\ c \in TxType
      BY <2>4, LoggedLike, Zenon DEF Like
    <2> HIDE DEF c
    <2>6. Like(c, d) /\ d \in TxType
      BY <2>5, PumpCloseLike, Zenon DEF Like
    <2> HIDE DEF d
    <2>7. Like(d, e)
      BY <2>6, NotifyLike, StateValues, Zenon DEF Heads
    <2> HIDE DEF e
    <2>8. Like(a, b) /\ Like(a, n) /\ Like(a, c)
      BY <2>2, <2>3, <2>4, <2>5, LikeTransitive, Zenon
    <2>9. Like(a, d) /\ Like(a, e)
      BY <2>6, <2>7, <2>8, LikeTransitive, Zenon
    <2> QED BY <1>2, <2>1, <2>9, LikeFit, Zenon
  <1>3. ResponseFinished(r, fails) \in {Return(r, "OK"), Return(r, "EINVAL"), d, e}
    BY Zenon DEF ResponseFinished
  <1>4. {"OK", "EINVAL"} \subseteq Statuses
    BY Zenon DEF Statuses
  <1> QED BY <1>1, <1>2, <1>3, <1>4, Zenon

(* The end of a transaction, by the connection or by Traffic Server: it is *)
(* logged.                                                                 *)
LEMMA FinishPendingFit ==
    ASSUME NEW r, NEW may, Fit(r, may), NEW fails \in SUBSET may
    PROVE  /\ Fit(FinishPending(r, fails), may) /\ FinishPending(r, fails).body = r.body
           /\ {"POSTPROCESS", "LOGGING"} \subseteq FinishPending(r, fails).flags
  <1> DEFINE a == IF Has(r, "REQ_STARTED") /\ ~Has(r, "REQ_FINISHED")
                  THEN RequestFinished(r, fails) ELSE r
             b == IF Has(a, "REQ_STARTED") /\ ~Has(a, "RES_STARTED")
                  THEN ResponseStarted(a, "none", fails) ELSE a
             c == IF Has(b, "RES_STARTED") /\ ~Has(b, "RES_FINISHED")
                  THEN ResponseFinished(b, fails) ELSE b
  <1>1. Fit(a, may) /\ a.body = r.body
    BY RequestFinishedFit, Zenon
  <1> HIDE DEF a
  <1>2. Fit(b, may) /\ b.body = r.body
    <2>1. "none" \in ResLines
      BY Zenon DEF ResLines
    <2>2. Fit(ResponseStarted(a, "none", fails), may)
          /\ ResponseStarted(a, "none", fails).body = a.body
      BY <1>1, <2>1, ResponseStartedFit
    <2> QED BY <1>1, <2>2, Zenon
  <1> HIDE DEF b
  <1>3. Fit(c, may) /\ c.body = r.body /\ c \in TxType
    BY <1>2, ResponseFinishedFit, Zenon DEF Fit
  <1> HIDE DEF c
  <1>4. FinishPending(r, fails) = WithLogging(WithPostprocess(c))
    BY Zenon DEF FinishPending, a, b, c
  <1> QED BY <1>3, <1>4, LoggedLike, LikeFit, Zenon

LEMMA TxFinishFit ==
    ASSUME NEW r, NEW may, Fit(r, may), NEW fails \in SUBSET may
    PROVE  Fit(TxFinish(r, fails), may) /\ TxFinish(r, fails).body = r.body
  <1> DEFINE a == IF Has(r, "REQ_FINISHED") THEN r ELSE RequestFinished(r, fails)
             b == IF Has(a, "RES_FINISHED") THEN a ELSE ResponseFinished(a, fails)
  <1>1. Fit(a, may) /\ a.body = r.body
    BY RequestFinishedFit, Zenon
  <1> HIDE DEF a
  <1>2. Fit(b, may) /\ b.body = r.body /\ b \in TxType
    BY <1>1, ResponseFinishedFit, Zenon DEF Fit
  <1> HIDE DEF b
  <1>3. TxFinish(r, fails) = WithLogging(WithPostprocess(b))
    BY Zenon DEF TxFinish, a, b
  <1> QED BY <1>2, <1>3, LoggedLike, LikeFit, Zenon

(* What is kept of a transaction. *)
LEMMA KeptFit ==
    ASSUME NEW r, NEW may, Fit(r, may)
    PROVE  /\ Fit(Kept(r), may) /\ Kept(r).body = "none" /\ Kept(r) # NULL
           /\ Kept(r).flags = r.flags /\ Kept(r).states = r.states
  <1>1. /\ Kept(r) \in TxType /\ Kept(r).flags = r.flags /\ Kept(r).states = r.states
    BY KeptEffect, Zenon DEF Fit
  <1>2. Kept(r).body = "none"
    BY Zenon DEF Kept, Fit, TxType
  <1>3. Kept(r) # NULL
    BY <1>1, StateNotifyAssumption, Zenon DEF StateNotifyAssumption
  <1> QED BY <1>1, <1>2, <1>3, Zenon DEF Fit, Has

-----------------------------------------------------------------------------
(* Every transaction made is fit, those on the connection and conn->tx are *)
(* made, and what the two properties say.                                  *)
NInv ==
    /\ IInv
    /\ TypeOK
    /\ \A t \in Txs : tx[t] # NULL => Fit(tx[t], env.fails) /\ tx[t].body = "none"
    /\ \A t \in Txs : t \in Live \/ t = conn.tx => tx[t] # NULL
    /\ CloseLogsCurrent
    /\ BodyHasContext

LEMMA CallStays ==
    ASSUME NInv, IInv', NEW t \in Txs, NEW r, Fit(r, env.fails), Call(t, r),
           r.body # "none" => Has(r, "REQ_HEADER")
    PROVE  NInv'
  <1> DEFINE k == Kept(r)
  <1>1. /\ Fit(k, env.fails) /\ k.body = "none" /\ k # NULL /\ k \in TxType
        /\ k.flags = r.flags /\ k.states = r.states
    BY KeptFit, Zenon DEF Fit
  <1> HIDE DEF k
  <1>2. /\ Running /\ t \in Live /\ tx' = [tx EXCEPT ![t] = k]
        /\ conn' = [conn EXCEPT !.tx = IF r.current THEN t ELSE conn.tx]
        /\ out' = [tx |-> t, rc |-> r.rc, body |-> r.body] /\ ssn' = ssn
        /\ env' = env
    BY Zenon DEF Call, k
  <1>3. TypeOK
    BY Zenon DEF NInv
  <1>4. /\ conn' \in ConnType /\ conn'.list = conn.list
        /\ conn'.flags = conn.flags /\ conn'.tx \in {t, conn.tx}
    BY <1>2, <1>3, Zenon DEF TypeOK, ConnType
  <1>5. /\ out' \in [tx : Txs \cup {NULL}, rc : Statuses, body : Bodies]
        /\ out'.tx = t /\ out'.body = r.body
    <2>1. r.rc \in Statuses /\ r.body \in Bodies
      BY Zenon DEF Fit, TxType
    <2> QED BY <1>2, <2>1, Zenon
  <1>6. /\ tx' \in [Txs -> TxType \cup {NULL}]
        /\ tx'[t] = k /\ \A u \in Txs \ {t} : tx'[u] = tx[u]
    BY <1>1, <1>2, <1>3, Zenon DEF TypeOK
  <1>7. TypeOK'
    BY <1>2, <1>3, <1>4, <1>5, <1>6, Zenon DEF TypeOK
  <1>8. \A u \in Txs : tx'[u] # NULL => Fit(tx'[u], env.fails) /\ tx'[u].body = "none"
    BY <1>1, <1>6, Zenon DEF NInv
  <1>9. \A u \in Txs : u \in Live' \/ u = conn'.tx => tx'[u] # NULL
    <2>1. Live' = Live
      BY <1>4, Zenon DEF Live
    <2> QED BY <1>1, <1>4, <1>6, <2>1, Zenon DEF NInv
  <1>10. CloseLogsCurrent'
    BY <1>2, <1>4, Zenon DEF CloseLogsCurrent, Running
  <1>11. BodyHasContext'
    <2>1. Has(k, "REQ_HEADER") <=> Has(r, "REQ_HEADER")
      BY <1>1, Zenon DEF Has
    <2> SUFFICES ASSUME out'.body # "none"
                 PROVE  /\ Has(k, "REQ_HEADER") /\ "request_header_process" \in k.states
                        /\ "ctxsel" \notin env.fails => "handle_context_tx" \in k.states
                        /\ "handle_context_tx" \in k.states
                              <=> "handle_request_header" \in k.states
      BY <1>2, <1>5, <1>6 DEF BodyHasContext
    <2> QED BY <1>1, <1>5, <2>1, Zenon DEF Fit
  <1> QED BY <1>2, <1>7, <1>8, <1>9, <1>10, <1>11, Zenon DEF NInv

(* A call whose body is that of the kept transaction. *)
LEMMA PlainCallStays ==
    ASSUME NInv, IInv', NEW t \in Live, NEW r, Call(t, r), Fit(r, env.fails), r.body = tx[t].body
    PROVE  NInv'
  <1>1. t \in Txs
    BY LiveTxs, Zenon DEF Live, NInv, TypeOK, ConnType
  <1>2. r.body = "none"
    BY <1>1, Zenon DEF NInv
  <1> QED BY <1>1, <1>2, CallStays, Zenon

(* Calls that leave the transactions alone. *)
LEMMA OtherStays ==
    ASSUME NInv, IInv', TypeOK', tx' = tx, Live' \subseteq Live,
           conn'.tx = conn.tx \/ conn'.tx \in Live',
           env' = env,
           CloseLogsCurrent' \/ env.server # "nginx",
           out'.body = "none"
    PROVE  NInv'
  <1>1. Live \subseteq Txs
    BY LiveTxs, Zenon DEF Live, NInv, TypeOK, ConnType
  <1>2. \A u \in Txs : u \in Live' \/ u = conn'.tx => tx'[u] # NULL
    BY <1>1, Zenon DEF NInv
  <1>3. CloseLogsCurrent'
    <2>1. CASE env.server # "nginx"
      <3>1. EndedIsLogged' /\ conn'.tx \in Txs \cup {NULL}
        BY <2>1, Zenon DEF IInv, Core, TypeOK, ConnType
      <3> QED BY <1>2, <2>1, <3>1, Zenon DEF EndedIsLogged, CloseLogsCurrent
    <2> QED BY <2>1, Zenon
  <1>4. BodyHasContext'
    BY Zenon DEF BodyHasContext
  <1> QED BY <1>2, <1>3, <1>4, Zenon DEF NInv

(* The end of a transaction, with Traffic Server and with httpd. *)
LEMMA EndStays ==
    ASSUME NInv, IInv', env' = env, env.server # "nginx", NEW t \in Live,
           NEW r, Fit(r, env.fails), tx' = [tx EXCEPT ![t] = Kept(r)], Live' \subseteq Live,
           out'.body = "none"
    PROVE  NInv'
  <1> DEFINE k == Kept(r)
  <1>1. Live \subseteq Txs /\ tx \in [Txs -> TxType \cup {NULL}]
    BY LiveTxs, Zenon DEF Live, NInv, TypeOK, ConnType
  <1>2. Fit(k, env.fails) /\ k.body = "none" /\ k # NULL
    BY KeptFit, Zenon
  <1>3. tx'[t] = k /\ \A u \in Txs \ {t} : tx'[u] = tx[u]
    BY <1>1, Zenon
  <1> HIDE DEF k
  <1>4. TypeOK' /\ CurrentIsLive'
    BY Zenon DEF IInv, Core
  <1>5. \A u \in Txs : tx'[u] # NULL => Fit(tx'[u], env.fails) /\ tx'[u].body = "none"
    BY <1>2, <1>3, Zenon DEF NInv
  <1>6. \A u \in Txs : u \in Live' \/ u = conn'.tx => tx'[u] # NULL
    <2>1. \A u \in Live' : tx'[u] # NULL
      BY <1>1, <1>2, <1>3, Zenon DEF NInv
    <2>2. conn'.tx \in Txs => conn'.tx \in Live'
      BY <1>4, StateNotifyAssumption, Zenon DEF CurrentIsLive, StateNotifyAssumption
    <2> QED BY <2>1, <2>2, Zenon
  <1>7. CloseLogsCurrent'
    <2>1. EndedIsLogged' /\ conn'.tx \in Txs \cup {NULL}
      BY <1>4, Zenon DEF IInv, Core, TypeOK, ConnType
    <2> QED BY <1>6, <2>1, Zenon DEF EndedIsLogged, CloseLogsCurrent
  <1>8. BodyHasContext'
    BY Zenon DEF BodyHasContext
  <1> QED BY <1>4, <1>5, <1>6, <1>7, <1>8, Zenon DEF NInv

LEMMA TxnCloseStays ==
    ASSUME NInv, IInv', env' = env, NEW t \in Live, NEW fails \in SUBSET env.fails, TxnClose(t, fails)
    PROVE  NInv'
  <1>1. /\ env.server = "trafficserver" /\ conn.list # <<>> /\ t = Head(conn.list)
        /\ tx' = [tx EXCEPT ![t] = Kept(TxFinish(tx[t], fails))] /\ out'.body = "none"
    BY Zenon DEF TxnClose, ConnCall
  <1> PICK d : d = WithoutTx(conn, t)
    BY Zenon
  <1>2. conn' = d \/ conn' = Closed(d)
    BY Zenon DEF TxnClose
  <1>3. conn \in ConnType /\ IsInjective(conn.list) /\ Live \subseteq Txs
    BY <1>1, LiveTxs, Zenon DEF NInv, IInv, Core, TypeOK, ConnType, Live
  <1>4. d \in ConnType /\ Range(d.list) \subseteq Range(conn.list)
    BY <1>1, <1>3, WithoutHead, Zenon
  <1>5. conn'.list = d.list
    BY <1>2, <1>4, ClosedEffect, Zenon
  <1>6. Live' \subseteq Live
    BY <1>4, <1>5, Zenon DEF Live
  <1>7. Fit(tx[t], env.fails)
    BY <1>3, Zenon DEF NInv
  <1>8. Fit(TxFinish(tx[t], fails), env.fails)
    BY <1>7, TxFinishFit, Zenon
  <1> QED BY <1>1, <1>6, <1>8, EndStays, Zenon

LEMMA ReqCleanupStays ==
    ASSUME NInv, IInv', env' = env, NEW t \in Live, ReqCleanup(t)
    PROVE  NInv'
  <1>1. /\ env.server = "httpd" /\ conn.list # <<>> /\ t = Head(conn.list)
        /\ tx' = [tx EXCEPT ![t] = Kept(WithLogging(WithPostprocess(tx[t])))]
        /\ out'.body = "none"
    BY Zenon DEF ReqCleanup, ConnCall
  <1> PICK d : d = WithoutTx(conn, t)
    BY Zenon
  <1>2. conn' = d
    BY Zenon DEF ReqCleanup
  <1>3. conn \in ConnType /\ IsInjective(conn.list) /\ Live \subseteq Txs
    BY <1>1, LiveTxs, Zenon DEF NInv, IInv, Core, TypeOK, ConnType, Live
  <1>4. d \in ConnType /\ Range(d.list) \subseteq Range(conn.list)
    BY <1>1, <1>3, WithoutHead, Zenon
  <1>5. Live' \subseteq Live
    BY <1>2, <1>4, Zenon DEF Live
  <1>6. Fit(tx[t], env.fails) /\ tx[t] \in TxType
    BY <1>3, Zenon DEF NInv, Fit
  <1>7. Fit(WithLogging(WithPostprocess(tx[t])), env.fails)
    BY <1>6, LoggedLike, LikeFit, Zenon
  <1> QED BY <1>1, <1>5, <1>7, EndStays, Zenon

LEMMA AppendTx ==
    ASSUME NEW s \in Seq(Txs), NEW t \in Txs, NEW l, l = Append(s, t)
    PROVE  /\ l \in Seq(Txs) /\ Range(l) = Range(s) \cup {t}
           /\ s # <<>> => Head(l) \in Range(s)
  <1>1. /\ l \in Seq(Txs) /\ Len(l) = Len(s) + 1 /\ Len(s) \in Nat
        /\ \A i \in 1 .. Len(s) : l[i] = s[i]
        /\ l[Len(s) + 1] = t
    OBVIOUS
  <1>2. DOMAIN l = 1 .. (Len(s) + 1) /\ DOMAIN s = 1 .. Len(s)
    BY <1>1
  <1>3. Range(l) = Range(s) \cup {t}
    BY <1>1, <1>2 DEF Range
  <1>4. s # <<>> => Head(l) \in Range(s)
    <2> SUFFICES ASSUME s # <<>> PROVE Head(l) \in Range(s)
      BY Zenon
    <2>1. Len(s) >= 1
      BY <1>1
    <2>2. Head(l) = l[1] /\ 1 \in DOMAIN s /\ l[1] = s[1]
      BY <1>1, <1>2, <2>1
    <2> QED BY <2>2, Zenon DEF Range
  <1> QED BY <1>1, <1>3, <1>4, Zenon

LEMMA TxCreateStays ==
    ASSUME NInv, IInv', NEW t \in Txs, TxCreate(t)
    PROVE  NInv'
  <1> DEFINE list == Append(conn.list, t)
             pipelined == IF conn.list = <<>> THEN {} ELSE {t, Head(list)}
             was(u) == IF u = t THEN NewTx ELSE tx[u]
  <1>1. /\ TypeOK /\ conn \in ConnType /\ conn.list \in Seq(Txs)
    BY Zenon DEF NInv, TypeOK, ConnType
  <1>2. /\ Running /\ tx[t] = NULL
        /\ conn' = [conn EXCEPT !.list = list, !.tx = t]
        /\ ssn' = [ssn EXCEPT !.txn_count = @ + 1]
        /\ out' = [tx |-> NULL, rc |-> "OK", body |-> "none"]
        /\ env' = env
        /\ tx' = [u \in Txs |->
              IF u \in pipelined THEN Mark(was(u), {"PIPELINED"}) ELSE was(u)]
    BY Zenon DEF TxCreate, ConnCall, Fresh
  <1>3. /\ list \in Seq(Txs) /\ Range(list) = Range(conn.list) \cup {t}
        /\ conn.list # <<>> => Head(list) \in Range(conn.list)
    BY <1>1, AppendTx, Zenon
  <1> HIDE DEF list
  <1>4. pipelined \subseteq Live \cup {t}
    BY <1>3, Zenon DEF Live
  <1> HIDE DEF pipelined
  <1>5. Fit(NewTx, env.fails) /\ NewTx.body = "none" /\ NewTx # NULL
    <2>1. NewTx \in TxType
      BY Zenon DEF NewTx, TxType, Bodies, Statuses
    <2>2. NewTx.flags = {} /\ NewTx.states = {} /\ NewTx.body = "none"
      BY Zenon DEF NewTx
    <2> QED BY <2>1, <2>2, StateNotifyAssumption, Zenon DEF Fit, Has, StateNotifyAssumption
  <1>6. ASSUME NEW r, Fit(r, env.fails), r.body = "none"
        PROVE  LET m == Mark(r, {"PIPELINED"})
               IN  Fit(m, env.fails) /\ m.body = "none" /\ m # NULL /\ m \in TxType
    <2> DEFINE m == Mark(r, {"PIPELINED"})
    <2>1. Like(r, m)
      BY <1>6, MarkLike, Zenon DEF Flags, Rungs, Fit
    <2> HIDE DEF m
    <2>2. Fit(m, env.fails) /\ m.body = "none" /\ m # NULL /\ m \in TxType
      BY <1>6, <2>1, LikeFit, StateNotifyAssumption, Zenon DEF Fit, StateNotifyAssumption
    <2> QED BY <2>2, Zenon DEF m
  <1>7. \A u \in Txs : was(u) # NULL => Fit(was(u), env.fails) /\ was(u).body = "none"
    <2> TAKE u \in Txs
    <2>1. CASE u = t
      BY <1>5, <2>1, Zenon
    <2>2. CASE u # t
      <3>1. was(u) = tx[u]
        BY <2>2, Zenon
      <3>2. tx[u] # NULL => Fit(tx[u], env.fails) /\ tx[u].body = "none"
        BY Zenon DEF NInv
      <3> HIDE DEF was
      <3> QED BY <3>1, <3>2, Zenon
    <2> QED BY <2>1, <2>2, Zenon
  <1>8. \A u \in Txs : u \in Live \cup {t} => was(u) # NULL
    BY <1>5, Zenon DEF NInv
  <1> HIDE DEF was
  <1>9. \A u \in Txs : tx'[u] # NULL => Fit(tx'[u], env.fails) /\ tx'[u].body = "none"
    <2> TAKE u \in Txs
    <2>1. CASE u \in pipelined
      <3>1. Fit(was(u), env.fails) /\ was(u).body = "none"
        BY <1>4, <1>7, <1>8, <2>1, Zenon
      <3> QED BY <1>2, <1>6, <2>1, <3>1, Zenon
    <2>2. CASE u \notin pipelined
      BY <1>2, <1>7, <2>2, Zenon
    <2> QED BY <2>1, <2>2, Zenon
  <1>10. \A u \in Txs : u \in Live \cup {t} => tx'[u] # NULL
    <2> TAKE u \in Txs
    <2> HAVE u \in Live \cup {t}
    <2>1. Fit(was(u), env.fails) /\ was(u).body = "none" /\ was(u) # NULL
      BY <1>7, <1>8, Zenon
    <2>2. CASE u \in pipelined
      BY <1>2, <1>6, <2>1, <2>2, Zenon
    <2>3. CASE u \notin pipelined
      BY <1>2, <2>1, <2>3, Zenon
    <2> QED BY <2>2, <2>3, Zenon
  <1>11. conn' \in ConnType /\ conn'.tx = t /\ conn'.list = list /\ conn'.flags = conn.flags
    BY <1>1, <1>2, <1>3, Zenon DEF ConnType
  <1>12. TypeOK'
    <2>1. \A u \in Txs : tx'[u] \in TxType \cup {NULL}
      BY <1>9, Zenon DEF Fit
    <2>2. DOMAIN tx' = Txs /\ tx' = [u \in Txs |-> tx'[u]]
      BY <1>2, Zenon
    <2>3. tx' \in [Txs -> TxType \cup {NULL}]
      BY <2>1, <2>2, Zenon
    <2>4. ssn' \in [closing : BOOLEAN, txn_count : Nat]
      BY <1>1, <1>2 DEF TypeOK
    <2>5. out' \in [tx : Txs \cup {NULL}, rc : Statuses, body : Bodies]
      BY <1>2, Zenon DEF Statuses, Bodies
    <2> QED BY <1>1, <1>2, <1>11, <2>3, <2>4, <2>5, Zenon DEF TypeOK
  <1>13. \A u \in Txs : u \in Live' \/ u = conn'.tx => tx'[u] # NULL
    BY <1>3, <1>10, <1>11, Zenon DEF Live
  <1>14. CloseLogsCurrent'
    BY <1>2, <1>11, Zenon DEF CloseLogsCurrent, Running
  <1>15. BodyHasContext'
    BY <1>2, Zenon DEF BodyHasContext
  <1> QED BY <1>2, <1>9, <1>12, <1>13, <1>14, <1>15, Zenon DEF NInv

(* nginx closes a connection that may have transactions left. *)
LEMMA ConnEndStays ==
    ASSUME NInv, IInv', env' = env, NEW fails \in SUBSET env.fails, ConnEnd(fails)
    PROVE  NInv'
  <1>1. /\ TypeOK /\ conn \in ConnType /\ conn.tx \in Txs \cup {NULL}
    BY Zenon DEF NInv, TypeOK, ConnType
  <1>2. /\ conn' = Closed(conn) /\ ssn' = ssn
        /\ out' = [tx |-> NULL, rc |-> "OK", body |-> "none"]
        /\ tx' = [t \in Txs |-> IF t = conn.tx THEN Kept(FinishPending(tx[t], fails))
                                ELSE tx[t]]
    BY Zenon DEF ConnEnd, ConnCall
  <1>3. conn' \in ConnType /\ conn'.list = conn.list /\ conn'.tx = conn.tx
    BY <1>1, <1>2, ClosedEffect, Zenon
  <1>4. ASSUME conn.tx \in Txs
        PROVE  /\ Fit(tx'[conn.tx], env.fails) /\ tx'[conn.tx].body = "none" /\ tx'[conn.tx] # NULL
               /\ {"POSTPROCESS", "LOGGING"} \subseteq tx'[conn.tx].flags
    <2> DEFINE p == FinishPending(tx[conn.tx], fails)
    <2>1. Fit(tx[conn.tx], env.fails)
      BY <1>4, Zenon DEF NInv
    <2>2. Fit(p, env.fails) /\ {"POSTPROCESS", "LOGGING"} \subseteq p.flags
      BY <2>1, FinishPendingFit, Zenon
    <2>3. tx'[conn.tx] = Kept(p)
      BY <1>2, <1>4, Zenon
    <2> HIDE DEF p
    <2> QED BY <2>2, <2>3, KeptFit, Zenon
  <1>5. \A u \in Txs \ {conn.tx} : tx'[u] = tx[u]
    BY <1>2, Zenon
  <1>6. \A u \in Txs : tx'[u] # NULL => Fit(tx'[u], env.fails) /\ tx'[u].body = "none"
    BY <1>4, <1>5, Zenon DEF NInv
  <1>7. \A u \in Txs : u \in Live' \/ u = conn'.tx => tx'[u] # NULL
    BY <1>3, <1>4, <1>5, Zenon DEF NInv, Live
  <1>8. TypeOK'
    <2>1. \A u \in Txs : tx'[u] \in TxType \cup {NULL}
      BY <1>6, Zenon DEF Fit
    <2>2. DOMAIN tx' = Txs /\ tx' = [u \in Txs |-> tx'[u]]
      BY <1>2, Zenon
    <2>3. tx' \in [Txs -> TxType \cup {NULL}]
      BY <2>1, <2>2, Zenon
    <2>4. out' \in [tx : Txs \cup {NULL}, rc : Statuses, body : Bodies]
      BY <1>2, Zenon DEF Statuses, Bodies
    <2> QED BY <1>1, <1>2, <1>3, <2>3, <2>4, Zenon DEF TypeOK
  <1>9. CloseLogsCurrent'
    BY <1>1, <1>3, <1>4, Zenon DEF CloseLogsCurrent
  <1>10. BodyHasContext'
    BY <1>2, Zenon DEF BodyHasContext
  <1> QED BY <1>6, <1>7, <1>8, <1>9, <1>10, Zenon DEF NInv

LEMMA NextStays ==
    ASSUME NInv, [Next]_vars
    PROVE  NInv'
  <1>1. IInv' /\ env' = env
    BY StepKeeps, EnvStays, Zenon DEF NInv
  <1>2. TypeOK /\ conn \in ConnType /\ conn.list \in Seq(Txs)
    BY Zenon DEF NInv, TypeOK, ConnType
  <1>3. Live \subseteq Txs
    BY <1>2, LiveTxs, Zenon DEF Live
  <1>4. \A t \in Live : Fit(tx[t], env.fails) /\ tx[t].body = "none"
    BY <1>3, Zenon DEF NInv
  <1>5. ASSUME NEW fails \in SUBSET env.fails, ConnOpened(fails) PROVE NInv'
    <2>1. /\ conn' \in ConnType /\ conn'.list = conn.list /\ conn'.tx = conn.tx
          /\ "CLOSED" \notin conn'.flags
      BY <1>2, <1>5, Zenon DEF ConnOpened, ConnType, ConnStates
    <2>2. tx' = tx /\ ssn' = ssn
      BY <1>5, Zenon DEF ConnOpened
    <2>3. out' \in [tx : Txs \cup {NULL}, rc : Statuses, body : Bodies]
          /\ out'.body = "none"
      BY <1>5, Zenon DEF ConnOpened, ConnCall, Statuses, Bodies
    <2>4. TypeOK'
      BY <1>1, <1>2, <2>1, <2>2, <2>3, Zenon DEF TypeOK
    <2>5. Live' = Live /\ CloseLogsCurrent'
      BY <2>1, Zenon DEF Live, CloseLogsCurrent
    <2> QED BY <1>1, <2>1, <2>2, <2>3, <2>4, <2>5, OtherStays, Zenon
  <1>6. CASE ConnOpenedAgain
    <2>1. conn' = conn /\ tx' = tx /\ ssn' = ssn
      BY <1>6, Zenon DEF ConnOpenedAgain
    <2>2. out' \in [tx : Txs \cup {NULL}, rc : Statuses, body : Bodies]
          /\ out'.body = "none"
      BY <1>6, Zenon DEF ConnOpenedAgain, ConnCall, Statuses, Bodies
    <2>3. TypeOK'
      BY <1>1, <1>2, <2>1, <2>2, Zenon DEF TypeOK
    <2>4. Live' = Live /\ CloseLogsCurrent'
      BY <2>1, Zenon DEF Live, CloseLogsCurrent, NInv
    <2> QED BY <1>1, <2>1, <2>2, <2>3, <2>4, OtherStays, Zenon
  <1>7. ASSUME NEW t \in env.txs, TxCreate(t) PROVE NInv'
    <2>1. t \in Txs
      BY <1>2, StateNotifyAssumption, Zenon DEF TypeOK, StateNotifyAssumption
    <2> QED BY <1>1, <1>7, <2>1, TxCreateStays, Zenon
  <1>8. ASSUME NEW t \in Live, NEW line \in ReqLines,
               NotifyRequestStarted(t, line)
        PROVE  NInv'
    <2> PICK r : r = RequestStarted(tx[t], line)
      BY Zenon
    <2>1. Call(t, r)
      BY <1>8, Zenon DEF NotifyRequestStarted
    <2>2. Fit(r, env.fails) /\ r.body = tx[t].body
      BY <1>4, RequestStartedFit, Zenon
    <2> QED BY <1>1, <2>1, <2>2, PlainCallStays, Zenon
  <1>9. ASSUME NEW t \in Live, NEW fails \in SUBSET env.fails,
               NotifyRequestHeaderFinished(t, fails)
        PROVE  NInv'
    <2> PICK r : r = RequestHeaderFinished(tx[t], fails)
      BY Zenon
    <2>1. Call(t, r)
      BY <1>9, Zenon DEF NotifyRequestHeaderFinished
    <2>2. Fit(r, env.fails) /\ r.body = tx[t].body
      BY <1>4, RequestHeaderFinishedFit, Zenon
    <2> QED BY <1>1, <2>1, <2>2, PlainCallStays, Zenon
  <1>10. ASSUME NEW t \in Live, NEW fails \in SUBSET env.fails,
               NEW empty \in BOOLEAN,
               NotifyRequestBodyData(t, empty, fails)
        PROVE  NInv'
    <2> PICK r : r = RequestBodyData(tx[t], empty, fails)
      BY Zenon
    <2>1. Call(t, r)
      BY <1>10, Zenon DEF NotifyRequestBodyData
    <2>2. Fit(r, env.fails) /\ (r.body # "none" => Has(r, "REQ_HEADER"))
      BY <1>4, RequestBodyDataFit, Zenon
    <2> QED BY <1>1, <1>3, <2>1, <2>2, CallStays, Zenon
  <1>11. ASSUME NEW t \in Live, NEW fails \in SUBSET env.fails,
               NotifyRequestFinished(t, fails)
        PROVE  NInv'
    <2> PICK r : r = RequestFinished(tx[t], fails)
      BY Zenon
    <2>1. Call(t, r)
      BY <1>11, Zenon DEF NotifyRequestFinished
    <2>2. Fit(r, env.fails) /\ r.body = tx[t].body
      BY <1>4, RequestFinishedFit, Zenon
    <2> QED BY <1>1, <2>1, <2>2, PlainCallStays, Zenon
  <1>12. ASSUME NEW t \in Live, NEW fails \in SUBSET env.fails,
               NEW line \in ResLines,
               NotifyResponseStarted(t, line, fails)
        PROVE  NInv'
    <2> PICK r : r = ResponseStarted(tx[t], line, fails)
      BY Zenon
    <2>1. Call(t, r)
      BY <1>12, Zenon DEF NotifyResponseStarted
    <2>2. Fit(r, env.fails) /\ r.body = tx[t].body
      BY <1>4, ResponseStartedFit
    <2> QED BY <1>1, <2>1, <2>2, PlainCallStays, Zenon
  <1>13. ASSUME NEW t \in Live, NEW fails \in SUBSET env.fails,
               NotifyResponseHeaderFinished(t, fails)
        PROVE  NInv'
    <2> PICK r : r = ResponseHeaderFinished(tx[t], fails)
      BY Zenon
    <2>1. Call(t, r)
      BY <1>13, Zenon DEF NotifyResponseHeaderFinished
    <2>2. Fit(r, env.fails) /\ r.body = tx[t].body
      BY <1>4, ResponseHeaderFinishedFit
    <2> QED BY <1>1, <2>1, <2>2, PlainCallStays, Zenon
  <1>14. ASSUME NEW t \in Live, NEW fails \in SUBSET env.fails,
               NEW empty \in BOOLEAN,
               NotifyResponseBodyData(t, empty, fails)
        PROVE  NInv'
    <2> PICK r : r = ResponseBodyData(tx[t], empty, fails)
      BY Zenon
    <2>1. Call(t, r)
      BY <1>14, Zenon DEF NotifyResponseBodyData
    <2>2. Fit(r, env.fails) /\ (r.body # "none" => Has(r, "REQ_HEADER"))
      BY <1>4, ResponseBodyDataFit, Zenon
    <2> QED BY <1>1, <1>3, <2>1, <2>2, CallStays, Zenon
  <1>15. ASSUME NEW t \in Live, NEW fails \in SUBSET env.fails,
               NotifyResponseFinished(t, fails)
        PROVE  NInv'
    <2> PICK r : r = ResponseFinished(tx[t], fails)
      BY Zenon
    <2>1. Call(t, r)
      BY <1>15, Zenon DEF NotifyResponseFinished
    <2>2. Fit(r, env.fails) /\ r.body = tx[t].body
      BY <1>4, ResponseFinishedFit, Zenon
    <2> QED BY <1>1, <2>1, <2>2, PlainCallStays, Zenon
  <1>16. ASSUME NEW t \in Live, BodyOutDone(t)
        PROVE  NInv'
    <2> PICK r : r = Logging(Postprocess(tx[t]))
      BY Zenon
    <2>1. Call(t, r)
      BY <1>16, Zenon DEF BodyOutDone
    <2>2. Fit(tx[t], env.fails) /\ tx[t] \in TxType
      BY <1>4, Zenon DEF Fit
    <2>3. Fit(r, env.fails) /\ r.body = tx[t].body
      BY <2>2, LoggedLike, LikeFit, Zenon
    <2> QED BY <1>1, <2>1, <2>3, PlainCallStays, Zenon
  <1>17. ASSUME NEW t \in Live, NEW fails \in SUBSET env.fails, TxnClose(t, fails)
         PROVE  NInv'
    BY <1>1, <1>17, TxnCloseStays, Zenon
  <1>18. ASSUME NEW t \in Live, ReqCleanup(t) PROVE NInv'
    BY <1>1, <1>18, ReqCleanupStays, Zenon
  <1>19. ASSUME NEW fails \in SUBSET env.fails, ConnEnd(fails) PROVE NInv'
    BY <1>1, <1>19, ConnEndStays, Zenon
  <1>20. CASE SsnClose
    <2>1. env.server # "nginx" /\ tx' = tx /\ out'.body = "none"
      BY <1>20, Zenon DEF SsnClose, ConnCall
    <2>2. conn'.list = conn.list /\ conn'.tx = conn.tx
      BY <1>2, <1>20, ClosedEffect, Zenon DEF SsnClose
    <2>3. TypeOK' /\ Live' = Live
      BY <1>1, <2>1, <2>2, Zenon DEF IInv, Core, Live
    <2> QED BY <1>1, <2>1, <2>2, <2>3, OtherStays, Zenon
  <1>21. CASE UNCHANGED vars
    <2>1. conn' = conn /\ tx' = tx /\ ssn' = ssn /\ out' = out
      BY <1>21, Zenon DEF vars
    <2>2. TypeOK' /\ Live' = Live
      BY <1>1, <1>2, <2>1, Zenon DEF TypeOK, Live
    <2> QED BY <1>1, <2>1, <2>2, Zenon DEF NInv, CloseLogsCurrent, BodyHasContext
  <1> QED
    BY <1>5, <1>6, <1>7, <1>8, <1>9, <1>10, <1>11, <1>12, <1>13, <1>14, <1>15, <1>16,
       <1>17, <1>18, <1>19, <1>20, <1>21 DEF Next

(* NInv holds of every reachable state, with every server. *)
THEOREM TransactionsFit == Spec => []NInv
  <1>1. Init => NInv
    <2> SUFFICES ASSUME Init PROVE NInv
      BY Zenon
    <2>1. IInv /\ TypeOK
      BY InitCore, Zenon DEF IInv, Core
    <2>2. /\ tx = [t \in Txs |-> NULL] /\ conn.list = <<>> /\ conn.tx = NULL
          /\ out.body = "none"
      BY Zenon DEF Init
    <2>3. Live = {}
      BY <2>2 DEF Live, Range
    <2> QED BY <2>1, <2>2, <2>3, StateNotifyAssumption, Zenon
            DEF NInv, CloseLogsCurrent, BodyHasContext, StateNotifyAssumption
  <1>2. NInv /\ [Next]_vars => NInv'
    BY NextStays, Zenon
  <1> QED BY <1>1, <1>2, PTL DEF Spec

(* When ib_state_notify_conn_closed returns, the transaction conn->tx has  *)
(* been post-processed and logged, with every server and whatever failed,  *)
(* also when the connection still had transactions.                        *)
THEOREM ClosedIsLogged == Spec => []CloseLogsCurrent
  <1>1. NInv => CloseLogsCurrent
    BY Zenon DEF NInv
  <1> QED BY <1>1, TransactionsFit, PTL

(* With every server, body data of either direction is delivered only when *)
(* the header states have been notified up to the selection of the         *)
(* transaction's context; when that cannot fail, with the context; and     *)
(* when it succeeded, all of them.                                         *)
THEOREM BodyAfterHeader == Spec => []BodyHasContext
  <1>1. NInv => BodyHasContext
    BY Zenon DEF NInv
  <1> QED BY <1>1, TransactionsFit, PTL
=============================================================================
