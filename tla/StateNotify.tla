---------------------------- MODULE StateNotify ----------------------------
(***************************************************************************)
(* The states the engine notifies its hooks of (engine/state_notify.c) for *)
(* one connection and its transactions, driven by a server plugin.         *)
(*                                                                         *)
(* The server calls ib_state_notify_* for a transaction in any order; the  *)
(* engine refuses a state it has already notified, ignores one whose       *)
(* prerequisites never came and triggers the states that were skipped.     *)
(* What a server calls at the end of a transaction and of a connection     *)
(* differs; env, fixed at the start, says which one it is (env.server),    *)
(* which transactions it may create and what may fail:                     *)
(*   "trafficserver"  ts_event.c: finishes and destroys a transaction at   *)
(*                    TXN_CLOSE, and defers the end of a session that has  *)
(*                    transactions left to the last TXN_CLOSE;             *)
(*   "httpd"          mod_ironbee.c: runs postprocess and logging and      *)
(*                    destroys the transaction in the request's cleanup;   *)
(*   "nginx"          ngx_ironbee.c: runs postprocess and logging when the *)
(*                    response body has been sent, and destroys nothing    *)
(*                    before the connection.                               *)
(*                                                                         *)
(* A call runs to its end before the next one on the connection starts.    *)
(* A server destroys only the first transaction of the connection, as the  *)
(* contract of ib_tx_destroy asks (engine.h, "MUST be the first            *)
(* transaction"): TxnClose and ReqCleanup take it as their guard, and      *)
(* nothing is shown of a server that breaks it.                            *)
(* Hooks may fail: that is logged, and changes nothing here.  What may     *)
(* fail and matters, the context selection and the pumps of body data, is  *)
(* the set `fails' chosen for each call.                                   *)
(***************************************************************************)
EXTENDS Naturals, Sequences, Functions

CONSTANTS
    Txs,            \* transactions of the connection
    Environments,   \* what env may be
    NULL

Servers      == {"trafficserver", "httpd", "nginx"}
FailureKinds == {"ctxsel", "data", "request_close", "response_close"}

Flags == {"HTTP09", "PIPELINED",
          "REQ_STARTED", "REQ_HAS_DATA", "REQ_LINE", "REQ_HEADER",
          "REQ_BODY", "REQ_FINISHED",
          "RES_STARTED", "RES_HAS_DATA", "RES_LINE", "RES_HEADER",
          "RES_BODY", "RES_FINISHED", "POSTPROCESS", "LOGGING"}

(* The documented place of each transaction state (engine_state.h).        *)
Rank == [tx_started |-> 1, request_started |-> 2,
         request_header_process |-> 3, handle_context_tx |-> 4,
         request_header_finished |-> 5, handle_request_header |-> 6,
         request_finished |-> 7, handle_request |-> 8, tx_process |-> 9,
         response_started |-> 10, response_header_finished |-> 11,
         handle_response_header |-> 12, response_finished |-> 13,
         handle_response |-> 14, handle_postprocess |-> 15,
         handle_logging |-> 16, tx_finished |-> 17]
States == DOMAIN Rank
ConnStates == {"conn_started", "conn_opened", "handle_context_conn",
               "handle_connect", "conn_closed", "handle_disconnect",
               "conn_finished"}

Bodies   == {"none", "request", "response"}
Statuses == {"OK", "EINVAL", "EOTHER"}
ReqLines == {"none", "malformed", "http09", "http1"}
ResLines == {"none", "line"}

(* A transaction and, while a call is running on it, the call's progress:  *)
(*   states   the states notified so far                                   *)
(*   ordered  each of them came after all those documented before it       *)
(*   line     tx->response_line is not NULL                                *)
(*   closed   the body pumps that were sent a close                        *)
(*   current  the call made the transaction conn->tx                       *)
(*   body     the direction of the body data the call delivered            *)
TxType == [flags : SUBSET Flags, states : SUBSET States, ordered : BOOLEAN,
           line : BOOLEAN, closed : SUBSET {"request", "response"},
           current : BOOLEAN, body : Bodies, rc : Statuses]

ASSUME StateNotifyAssumption ==
    /\ Environments \subseteq [server : Servers, txs : SUBSET Txs,
                               fails : SUBSET FailureKinds]
    /\ NULL \notin Txs /\ NULL \notin TxType

ConnType == [flags : SUBSET {"OPENED", "CLOSED"}, list : Seq(Txs),
             tx : Txs \cup {NULL}, states : SUBSET ConnStates]

NewTx == [flags |-> {}, states |-> {}, ordered |-> TRUE, line |-> FALSE,
          closed |-> {}, current |-> FALSE, body |-> "none", rc |-> "OK"]

VARIABLES
    env,    \* the server plugin, its transactions, and what may fail
    conn,   \* the connection: its flags, transactions, conn->tx and states
    tx,     \* the transactions
    ssn,    \* the Traffic Server session
    out     \* the last call: its transaction, status and body direction

vars == <<env, conn, tx, ssn, out>>

Fresh   == {t \in Txs : tx[t] = NULL}
Live    == Range(conn.list)
Running == "OPENED" \in conn.flags /\ "CLOSED" \notin conn.flags

Init ==
    /\ env \in Environments
    /\ conn = [flags |-> {}, list |-> <<>>, tx |-> NULL, states |-> {}]
    /\ tx = [t \in Txs |-> NULL]
    /\ ssn = [closing |-> FALSE, txn_count |-> 0]
    /\ out = [tx |-> NULL, rc |-> "OK", body |-> "none"]

-----------------------------------------------------------------------------
(* The functions of state_notify.c, on a transaction record. *)

Has(r, f)    == f \in r.flags
Mark(r, fs)  == [r EXCEPT !.flags = @ \cup fs]
Return(r, s) == [r EXCEPT !.rc = s]

Notified(r, s) ==
    [r EXCEPT !.states = @ \cup {s}, !.rc = "OK",
              !.ordered = @ /\ \A u \in r.states : Rank[u] < Rank[s]]

(* ib_state_notify_tx makes the transaction the current one. *)
NotifyTx(r, s) == [Notified(r, s) EXCEPT !.current = TRUE]

PumpClose(r, pump, fail, fails) ==
    [r EXCEPT !.closed = @ \cup {pump},
              !.rc = IF fail \in fails THEN "EOTHER" ELSE "OK"]

BodyData(r, direction, flags, fails) ==
    [Mark(r, flags) EXCEPT
        !.current = TRUE, !.body = direction,
        !.rc = IF "data" \in fails THEN "EOTHER" ELSE "OK"]

(* Mutant: the state is notified before the second start is refused. *)
RequestStarted_NotifiedFirst(r, line) ==
    LET a == NotifyTx(Mark(r, {"REQ_STARTED"}), "tx_started")
        b == Mark(a, {"REQ_HAS_DATA"} \cup
                     IF line = "http09" THEN {"HTTP09"} ELSE {})
    IN  IF Has(r, "REQ_STARTED")  THEN Return(a, "EINVAL")
        ELSE IF line = "none"      THEN a
        ELSE IF line = "malformed" THEN Return(a, "EINVAL")
        ELSE Mark(Notified(b, "request_started"), {"REQ_LINE"})

RequestStarted(r, line) ==
    LET a == NotifyTx(Mark(r, {"REQ_STARTED"}), "tx_started")
        b == Mark(a, {"REQ_HAS_DATA"} \cup
                     IF line = "http09" THEN {"HTTP09"} ELSE {})
    IN  IF Has(r, "REQ_STARTED")  THEN Return(r, "EINVAL")
        ELSE IF line = "none"      THEN a
        ELSE IF line = "malformed" THEN Return(a, "EINVAL")
        ELSE Mark(Notified(b, "request_started"), {"REQ_LINE"})

RequestHeaderFinished(r, fails) ==
    LET a == NotifyTx(Mark(r, {"REQ_HEADER"}), "request_header_process")
        b == NotifyTx(a, "handle_context_tx")
        c == NotifyTx(b, "request_header_finished")
    IN  IF ~Has(r, "REQ_STARTED") \/ ~Has(r, "REQ_HAS_DATA")
        THEN Return(r, "OK")
        ELSE IF Has(r, "REQ_HEADER") THEN Return(r, "EINVAL")
        ELSE IF "ctxsel" \in fails   THEN Return(a, "EOTHER")
        ELSE NotifyTx(c, "handle_request_header")

(* The status of the header states triggered here is not looked at. *)
WithRequestHeader(r, fails) ==
    IF Has(r, "REQ_HEADER") THEN r ELSE RequestHeaderFinished(r, fails)

(* Mutant: body data does not wait for the header states. *)
RequestBodyData_NoHeader(r, empty, fails) ==
    IF ~Has(r, "REQ_STARTED") \/ ~Has(r, "REQ_HAS_DATA") \/ empty
    THEN Return(r, "OK")
    ELSE BodyData(r, "request", {"REQ_BODY"}, fails)

(* Without FREQ_LINE it calls request_started, which refuses the second    *)
(* start.                                                                  *)
RequestBodyData(r, empty, fails) ==
    IF ~Has(r, "REQ_STARTED") \/ ~Has(r, "REQ_HAS_DATA") \/ empty
    THEN Return(r, "OK")
    ELSE IF ~Has(r, "REQ_LINE") THEN Return(r, "EINVAL")
    ELSE BodyData(WithRequestHeader(r, fails), "request", {"REQ_BODY"}, fails)

RequestFinished(r, fails) ==
    LET a == Mark(WithRequestHeader(r, fails), {"REQ_FINISHED"})
        b == NotifyTx(a, "request_finished")
        c == NotifyTx(b, "handle_request")
        d == NotifyTx(c, "tx_process")
    IN  IF ~Has(r, "REQ_STARTED")      THEN Return(r, "OK")
        ELSE IF Has(r, "REQ_FINISHED") THEN Return(r, "EINVAL")
        ELSE PumpClose(d, "request", "request_close", fails)

(* ib_state_notify_resp_line: no line, no hooks, except for HTTP/0.9. *)
NotifyResponseLine(r, line) ==
    IF line = "none" /\ ~Has(r, "HTTP09") THEN Return(r, "OK")
    ELSE [Notified(r, "response_started") EXCEPT !.line = (line = "line")]

(* Mutant: a response starts although the request is not finished. *)
ResponseStarted_RequestOpen(r, line, fails) ==
    LET b == NotifyResponseLine(Mark(r, {"RES_STARTED"}), line)
    IN  IF ~Has(r, "REQ_STARTED") \/ ~Has(r, "REQ_HAS_DATA")
        THEN Return(r, "OK")
        ELSE IF Has(r, "RES_STARTED") THEN Return(r, "EINVAL")
        ELSE IF line = "none"         THEN b
        ELSE Mark(b, {"RES_HAS_DATA", "RES_LINE"})

ResponseStarted(r, line, fails) ==
    LET a == IF Has(r, "REQ_FINISHED") THEN r ELSE RequestFinished(r, fails)
        b == NotifyResponseLine(Mark(a, {"RES_STARTED"}), line)
    IN  IF ~Has(r, "REQ_STARTED") \/ ~Has(r, "REQ_HAS_DATA")
        THEN Return(r, "OK")
        ELSE IF Has(r, "RES_STARTED") THEN Return(r, "EINVAL")
        ELSE IF line = "none"         THEN b
        ELSE Mark(b, {"RES_HAS_DATA", "RES_LINE"})

(* Its second test of FRES_STARTED never succeeds: the first has started   *)
(* the response or returned.                                               *)
ResponseHeaderFinished(r, fails) ==
    LET a == IF Has(r, "RES_STARTED") THEN r
             ELSE ResponseStarted(r, "none", fails)
        b == NotifyTx(Mark(a, {"RES_HEADER"}), "response_header_finished")
    IN  IF ~Has(r, "REQ_HAS_DATA")   THEN Return(r, "OK")
        ELSE IF Has(r, "RES_HEADER") THEN Return(r, "EINVAL")
        ELSE NotifyTx(b, "handle_response_header")

ResponseBodyData(r, empty, fails) ==
    LET a == IF Has(r, "RES_HEADER") THEN r
             ELSE ResponseHeaderFinished(r, fails)
    IN  IF ~Has(r, "REQ_HAS_DATA") \/ empty THEN Return(r, "OK")
        ELSE IF ~Has(r, "RES_HEADER") /\ ~Has(r, "HTTP09") /\ ~r.line
        THEN Return(r, "EINVAL")
        ELSE BodyData(a, "response", {"RES_HAS_DATA", "RES_BODY"}, fails)

Postprocess(r) ==
    IF Has(r, "POSTPROCESS") THEN Return(r, "EINVAL")
    ELSE NotifyTx(Mark(r, {"POSTPROCESS"}), "handle_postprocess")

Logging(r) ==
    IF Has(r, "LOGGING") THEN Return(r, "EINVAL")
    ELSE NotifyTx(Mark(r, {"LOGGING"}), "handle_logging")

(* What the end of a response and of a connection, and the servers, do     *)
(* with a transaction that may not have been logged.                       *)
WithPostprocess(r) == IF Has(r, "POSTPROCESS") THEN r ELSE Postprocess(r)
WithLogging(r)     == IF Has(r, "LOGGING") THEN r ELSE Logging(r)

(* The pump that is closed is the request's. *)
ResponseFinished(r, fails) ==
    LET a == IF Has(r, "RES_HEADER") THEN r
             ELSE ResponseHeaderFinished(r, fails)
        b == NotifyTx(Mark(a, {"RES_FINISHED"}), "response_finished")
        c == WithLogging(WithPostprocess(NotifyTx(b, "handle_response")))
        d == PumpClose(c, "request", "response_close", fails)
    IN  IF ~Has(r, "REQ_HAS_DATA") \/ ~Has(r, "RES_STARTED")
        THEN Return(r, "OK")
        ELSE IF Has(r, "RES_FINISHED") THEN Return(r, "EINVAL")
        ELSE IF d.rc # "OK" THEN d ELSE NotifyTx(d, "tx_finished")

(* Mutant: the pending states end with the response. *)
FinishPending_NotLogged(r, fails) ==
    LET a == IF Has(r, "REQ_STARTED") /\ ~Has(r, "REQ_FINISHED")
             THEN RequestFinished(r, fails) ELSE r
        b == IF Has(a, "REQ_STARTED") /\ ~Has(a, "RES_STARTED")
             THEN ResponseStarted(a, "none", fails) ELSE a
    IN  IF Has(b, "RES_STARTED") /\ ~Has(b, "RES_FINISHED")
        THEN ResponseFinished(b, fails) ELSE b

(* The pending states that ib_state_notify_conn_closed notifies. *)
FinishPending(r, fails) ==
    LET a == IF Has(r, "REQ_STARTED") /\ ~Has(r, "REQ_FINISHED")
             THEN RequestFinished(r, fails) ELSE r
        b == IF Has(a, "REQ_STARTED") /\ ~Has(a, "RES_STARTED")
             THEN ResponseStarted(a, "none", fails) ELSE a
        c == IF Has(b, "RES_STARTED") /\ ~Has(b, "RES_FINISHED")
             THEN ResponseFinished(b, fails) ELSE b
    IN  WithLogging(WithPostprocess(c))

(* tx_finish of the Traffic Server plugin. *)
TxFinish(r, fails) ==
    LET a == IF Has(r, "REQ_FINISHED") THEN r ELSE RequestFinished(r, fails)
        b == IF Has(a, "RES_FINISHED") THEN a ELSE ResponseFinished(a, fails)
    IN  WithLogging(WithPostprocess(b))

Removed(s, i) == SubSeq(s, 1, i - 1) \o SubSeq(s, i + 1, Len(s))

(* Mutant: conn->tx still points to the destroyed transaction. *)
WithoutTx_TxKept(c, t) ==
    LET i == CHOOSE i \in DOMAIN c.list : c.list[i] = t
    IN  [c EXCEPT !.list = Removed(c.list, i)]

(* ib_tx_destroy. *)
WithoutTx(c, t) ==
    LET i    == CHOOSE i \in DOMAIN c.list : c.list[i] = t
        list == Removed(c.list, i)
    IN  [c EXCEPT !.list = list,
                  !.tx = IF Head(c.list) # t THEN @
                         ELSE IF list = <<>> THEN NULL ELSE Head(list)]

(* The part of ib_state_notify_conn_closed after the pending states. *)
Closed(c) ==
    [c EXCEPT !.flags = @ \cup {"CLOSED"},
              !.states = @ \cup {"conn_closed", "handle_disconnect",
                                  "conn_finished"}]

-----------------------------------------------------------------------------
(* What is kept of a transaction between two calls. *)
Kept(r) == [r EXCEPT !.current = FALSE, !.body = "none", !.rc = "OK"]

(* A call on transaction t that leaves it as r. *)
Call(t, r) ==
    /\ Running
    /\ t \in Live
    /\ tx' = [tx EXCEPT ![t] = Kept(r)]
    /\ conn' = [conn EXCEPT !.tx = IF r.current THEN t ELSE @]
    /\ out' = [tx |-> t, rc |-> r.rc, body |-> r.body]
    /\ UNCHANGED <<env, ssn>>

ConnCall(rc) ==
    /\ out' = [tx |-> NULL, rc |-> rc, body |-> "none"]
    /\ UNCHANGED env

ConnOpenedAgain ==
    /\ Running
    /\ ConnCall("EINVAL")
    /\ UNCHANGED <<conn, tx, ssn>>

ConnOpened(fails) ==
    /\ conn.flags = {}
    /\ conn' = [conn EXCEPT
          !.flags = {"OPENED"},
          !.states = {"conn_started", "conn_opened"} \cup
                     IF "ctxsel" \in fails THEN {}
                     ELSE {"handle_context_conn", "handle_connect"}]
    /\ ConnCall(IF "ctxsel" \in fails THEN "EOTHER" ELSE "OK")
    /\ UNCHANGED <<tx, ssn>>

TxCreate(t) ==
    LET list == Append(conn.list, t)
        pipelined == IF conn.list = <<>> THEN {} ELSE {t, Head(list)}
    IN  /\ Running
        /\ ~ssn.closing
        /\ t \in Fresh
        /\ conn' = [conn EXCEPT !.list = list, !.tx = t]
        /\ tx' = [u \in Txs |->
             LET r == IF u = t THEN NewTx ELSE tx[u]
             IN  IF u \in pipelined THEN Mark(r, {"PIPELINED"}) ELSE r]
        /\ ssn' = [ssn EXCEPT !.txn_count = @ + 1]
        /\ ConnCall("OK")

NotifyRequestStarted(t, line) == Call(t, RequestStarted(tx[t], line))
NotifyRequestHeaderFinished(t, fails) ==
    Call(t, RequestHeaderFinished(tx[t], fails))
NotifyRequestBodyData(t, empty, fails) ==
    Call(t, RequestBodyData(tx[t], empty, fails))
NotifyRequestFinished(t, fails) == Call(t, RequestFinished(tx[t], fails))
NotifyResponseStarted(t, line, fails) ==
    Call(t, ResponseStarted(tx[t], line, fails))
NotifyResponseHeaderFinished(t, fails) ==
    Call(t, ResponseHeaderFinished(tx[t], fails))
NotifyResponseBodyData(t, empty, fails) ==
    Call(t, ResponseBodyData(tx[t], empty, fails))

(* Only the Traffic Server plugin says that a response is finished. *)
NotifyResponseFinished(t, fails) ==
    env.server = "trafficserver" /\ Call(t, ResponseFinished(tx[t], fails))

(* ib_req_cleanup of the httpd module. *)
ReqCleanup(t) ==
    /\ env.server = "httpd"
    /\ Running
    /\ conn.list # <<>> /\ t = Head(conn.list)
    /\ tx' = [tx EXCEPT ![t] = Kept(WithLogging(WithPostprocess(tx[t])))]
    /\ conn' = WithoutTx(conn, t)
    /\ ConnCall("OK")
    /\ UNCHANGED ssn

(* The end of nginx's response body filter, ironbee_body_out. *)
BodyOutDone(t) ==
    /\ env.server = "nginx"
    /\ t \in Live /\ Has(tx[t], "RES_HEADER")
    /\ Call(t, Logging(Postprocess(tx[t])))

(* conn_end of nginx and ironbee_conn_cleanup of httpd, which runs when    *)
(* the requests are gone.                                                  *)
ConnEnd(fails) ==
    /\ env.server \in {"nginx", "httpd"}
    /\ env.server = "httpd" => conn.list = <<>>
    /\ Running
    /\ tx' = [t \in Txs |-> IF t = conn.tx
                            THEN Kept(FinishPending(tx[t], fails))
                            ELSE tx[t]]
    /\ conn' = Closed(conn)
    /\ ConnCall("OK")
    /\ UNCHANGED ssn

(* tsib_ssn_ctx_destroy: SSN_CLOSE. *)
SsnClose ==
    /\ env.server = "trafficserver"
    /\ Running /\ ~ssn.closing
    /\ IF ssn.txn_count = 0
       THEN conn' = Closed(conn) /\ UNCHANGED ssn
       ELSE ssn' = [ssn EXCEPT !.closing = TRUE] /\ UNCHANGED conn
    /\ ConnCall("OK")
    /\ UNCHANGED tx

(* tsib_txn_ctx_destroy: TXN_CLOSE.  tx_list_destroy finds no transaction  *)
(* left (see NoTxLeft).                                                    *)
TxnClose(t, fails) ==
    /\ env.server = "trafficserver"
    /\ Running
    /\ conn.list # <<>> /\ t = Head(conn.list)
    /\ tx' = [tx EXCEPT ![t] = Kept(TxFinish(tx[t], fails))]
    /\ LET c == WithoutTx(conn, t)
       IN  IF ssn.closing /\ ssn.txn_count <= 1
           THEN conn' = Closed(c) /\ UNCHANGED ssn
           ELSE conn' = c /\ ssn' = [ssn EXCEPT !.txn_count = @ - 1]
    /\ ConnCall("OK")

Next ==
    \/ \E fails \in SUBSET env.fails : ConnOpened(fails)
    \/ ConnOpenedAgain
    \/ \E t \in env.txs : TxCreate(t)
    \/ \E t \in Live, line \in ReqLines : NotifyRequestStarted(t, line)
    \/ \E t \in Live, fails \in SUBSET env.fails :
         \/ NotifyRequestHeaderFinished(t, fails)
         \/ \E empty \in BOOLEAN : NotifyRequestBodyData(t, empty, fails)
         \/ NotifyRequestFinished(t, fails)
         \/ \E line \in ResLines : NotifyResponseStarted(t, line, fails)
         \/ NotifyResponseHeaderFinished(t, fails)
         \/ \E empty \in BOOLEAN : NotifyResponseBodyData(t, empty, fails)
         \/ NotifyResponseFinished(t, fails)
         \/ TxnClose(t, fails)
    \/ \E t \in Live : ReqCleanup(t) \/ BodyOutDone(t)
    \/ \E fails \in SUBSET env.fails : ConnEnd(fails)
    \/ SsnClose

Spec == Init /\ [][Next]_vars

-----------------------------------------------------------------------------
TypeOK ==
    /\ env \in Environments
    /\ conn \in ConnType
    /\ tx \in [Txs -> TxType \cup {NULL}]
    /\ ssn \in [closing : BOOLEAN, txn_count : Nat]
    /\ out \in [tx : Txs \cup {NULL}, rc : Statuses, body : Bodies]

(* Every transaction state is notified at most once, and in the order the  *)
(* state diagram of engine_state.h gives, whatever the server calls, in    *)
(* what order, and whichever states the engine has to trigger itself.      *)
(* (nginx keeps a transaction it has logged: response_finished and         *)
(* handle_response come after handle_logging, when the connection ends.)   *)
InOrder ==
    env.server # "nginx" => \A t \in Txs : tx[t] # NULL => tx[t].ordered

(* The flag that records that a state has been notified. *)
FlagOf == [tx_started |-> "REQ_STARTED", request_started |-> "REQ_HAS_DATA",
           request_header_process |-> "REQ_HEADER",
           handle_context_tx |-> "REQ_HEADER",
           request_header_finished |-> "REQ_HEADER",
           handle_request_header |-> "REQ_HEADER",
           request_finished |-> "REQ_FINISHED",
           handle_request |-> "REQ_FINISHED", tx_process |-> "REQ_FINISHED",
           response_started |-> "RES_STARTED",
           response_header_finished |-> "RES_HEADER",
           handle_response_header |-> "RES_HEADER",
           response_finished |-> "RES_FINISHED",
           handle_response |-> "RES_FINISHED",
           handle_postprocess |-> "POSTPROCESS",
           handle_logging |-> "LOGGING", tx_finished |-> "RES_FINISHED"]

(* How far a transaction has come is a ladder: a flag is set only when     *)
(* those of the steps before it are.                                       *)
Ladder(r) ==
    /\ Has(r, "REQ_HAS_DATA") => Has(r, "REQ_STARTED")
    /\ Has(r, "REQ_HAS_DATA") = Has(r, "REQ_LINE")
    /\ Has(r, "REQ_HEADER") => Has(r, "REQ_HAS_DATA")
    /\ Has(r, "REQ_FINISHED") => Has(r, "REQ_STARTED")
    /\ Has(r, "REQ_FINISHED") /\ Has(r, "REQ_HAS_DATA") => Has(r, "REQ_HEADER")
    /\ Has(r, "RES_STARTED") => Has(r, "REQ_FINISHED") /\ Has(r, "REQ_HAS_DATA")
    /\ Has(r, "RES_HEADER") => Has(r, "RES_STARTED")
    /\ Has(r, "RES_FINISHED") => Has(r, "RES_HEADER") /\ Has(r, "LOGGING")
    /\ Has(r, "LOGGING") = Has(r, "POSTPROCESS")

(* A transaction the server may still make calls on, for the servers that  *)
(* log a transaction only as they destroy it.                              *)
Open(r) ==
    /\ Ladder(r)
    /\ Has(r, "LOGGING") => Has(r, "RES_FINISHED")
    /\ \A s \in r.states : FlagOf[s] \in r.flags
    /\ r.ordered

(* The Traffic Server session counts the transactions on its connection,   *)
(* and closes the connection only when there are none.                     *)
NoTxLeft ==
    env.server = "trafficserver" =>
        /\ "CLOSED" \in conn.flags => conn.list = <<>>
        /\ "CLOSED" \notin conn.flags => ssn.txn_count = Len(conn.list)

(* conn->tx, which conn_closed and the loggers dereference, is one of the  *)
(* connection's transactions as long as it has any, and NULL otherwise.    *)
CurrentIsLive ==
    IF conn.list = <<>> THEN conn.tx = NULL ELSE conn.tx \in Live

(* A session whose close was deferred is closed with its last transaction. *)
DeferredCloses ==
    env.server = "trafficserver" /\ ssn.closing /\ conn.list = <<>> =>
        "CLOSED" \in conn.flags

(* Whatever failed, a transaction is gone, or its connection is, only      *)
(* after post-processing and logging.  (nginx logs the current one only.)  *)
EndedIsLogged ==
    env.server # "nginx" => \A t \in Txs :
        tx[t] # NULL /\ (t \notin Live \/ "CLOSED" \in conn.flags) =>
            {"POSTPROCESS", "LOGGING"} \subseteq tx[t].flags

(* The inductive invariant behind InOrder, NoTxLeft, CurrentIsLive,        *)
(* DeferredCloses and EndedIsLogged: as long as the connection is not      *)
(* closed, each transaction is on it once, and its flags bound the states  *)
(* notified.                                                               *)
Core ==
    /\ TypeOK
    /\ InOrder
    /\ NoTxLeft
    /\ CurrentIsLive
    /\ DeferredCloses
    /\ EndedIsLogged
    /\ IsInjective(conn.list)
    /\ "CLOSED" \notin conn.flags =>
          \A t \in Live : tx[t] \in TxType /\ Open(tx[t])

(* That invariant, for the servers that end a transaction as they log it:  *)
(* Traffic Server and httpd.                                               *)
IInv == env.server # "nginx" => Core

(* No body data reaches a hook or a pump before the header states were     *)
(* notified up to the selection of the context, whatever was skipped and   *)
(* in either direction; where the selection does not fail, the context is  *)
(* the transaction's own ("any transaction data filters will not be called *)
(* until after this point").  After a selection that failed the data goes  *)
(* on without handle_context_tx and the states that follow it, against     *)
(* that text.                                                              *)
BodyHasContext ==
    out.body # "none" =>
        LET states == tx[out.tx].states
        IN  /\ Has(tx[out.tx], "REQ_HEADER")
            /\ "request_header_process" \in states
            /\ "ctxsel" \notin env.fails => "handle_context_tx" \in states
            /\ "handle_context_tx" \in states
                  <=> "handle_request_header" \in states

(* The transaction conn->tx is logged when the connection is closed, with  *)
(* every server, also when transactions are still on it.                   *)
CloseLogsCurrent ==
    "CLOSED" \in conn.flags /\ conn.tx # NULL =>
        {"POSTPROCESS", "LOGGING"} \subseteq tx[conn.tx].flags

(* When tx_finished is notified all data has left both pipelines: each     *)
(* pump has been sent a close.                                             *)
PumpsDrained ==
    \A t \in Txs :
        tx[t] # NULL /\ "tx_finished" \in tx[t].states =>
            tx[t].closed = {"request", "response"}
=============================================================================
