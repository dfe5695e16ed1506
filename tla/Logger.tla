------------------------------- MODULE Logger -------------------------------
(***************************************************************************)
(* The asynchronous part of engine/logger.c: threads log records, each     *)
(* writer of the logger formats them, queues them under its own lock, and  *)
(* calls its record function when its queue goes from empty to non-empty.  *)
(*                                                                         *)
(* Writer w is the w-th element of logger->writers.  Its formatter takes   *)
(* the record types in Accepts[w] and declines the others.  Its record     *)
(* function is one of                                                      *)
(*   "write"  drains the queue and writes each record (the core, default   *)
(*            and pipe loggers);                                           *)
(*   "relog"  drains the queue and logs each record again as an error-log  *)
(*            record, from inside the drain (the transaction log's         *)
(*            log_to_engine);                                              *)
(*   "off"    returns without draining (the Traffic Server transaction     *)
(*            log when its file could not be opened).                      *)
(*                                                                         *)
(* A call of logger_log by thread t is <<t, 0>>; the call made from the    *)
(* handler of a "relog" writer, while <<t, 0>> is in its drain, is         *)
(* <<t, 1>>.  The section between a lock and the next unlock that only     *)
(* touches the writer's queue is one step; the drain, which runs handlers  *)
(* under the lock, is several.                                             *)
(***************************************************************************)
EXTENDS Naturals, Sequences, Functions

CONSTANTS
    Threads,
    NumWriters,
    Accepts,            \* per writer, the record types its formatter takes
    RecordFn,           \* per writer, what its record function does
    MAX_QUEUE_DEPTH,
    DEFAULT_QUEUE_SIZE, \* of the writer's queue (util/queue.c)
    AllocMayFail,       \* whether a formatter or a queue may lack memory
    MaxLogs,            \* bound on the records each thread logs
    NULL

ERRORLOG == "IB_LOGGER_ERRORLOG_TYPE"
TXLOG    == "IB_LOGGER_TXLOG_TYPE"
Types    == {ERRORLOG, TXLOG}
Writers  == 1..NumWriters
Calls    == Threads \X {0, 1}
Records  == [thread : Threads, n : 1..MaxLogs, type : Types]

ASSUME LoggerAssumption ==
    /\ NumWriters \in Nat \ {0}
    /\ Accepts \in [Writers -> SUBSET Types]
    /\ RecordFn \in [Writers -> {"write", "relog", "off"}]
    /\ \A w \in Writers : RecordFn[w] = "relog" => ERRORLOG \notin Accepts[w]
    /\ MAX_QUEUE_DEPTH \in Nat \ {0}
    /\ DEFAULT_QUEUE_SIZE \in Nat /\ DEFAULT_QUEUE_SIZE > 1
    /\ MaxLogs \in Nat
    /\ AllocMayFail \in BOOLEAN
    /\ NULL \notin Calls /\ NULL \notin Records

VARIABLES
    pc,          \* where each call is
    at,          \* the writer each call has reached in logger->writers
    rec,         \* the record each call logs
    pos,         \* the position of a drain in the queue, front first
    records,     \* per writer, its queue
    allocation,  \* per writer, the storage of its queue
    records_lck, \* per writer, the call that holds its lock, or NULL
    written,     \* per writer, what its handler has written, in order
    dropped,     \* per writer, the records it had no memory for (history)
    logged       \* per thread, how many records it has logged

vars == <<pc, at, rec, pos, records, allocation, records_lck, written, dropped,
          logged>>

Init ==
    /\ pc = [c \in Calls |-> "idle"]
    /\ at = [c \in Calls |-> 1]
    /\ rec = [c \in Calls |-> NULL]
    /\ pos = [c \in Calls |-> 1]
    /\ records = [w \in Writers |-> <<>>]
    /\ allocation = [w \in Writers |-> DEFAULT_QUEUE_SIZE]
    /\ records_lck = [w \in Writers |-> NULL]
    /\ written = [w \in Writers |-> <<>>]
    /\ dropped = [w \in Writers |-> {}]
    /\ logged = [t \in Threads |-> 0]
-----------------------------------------------------------------------------
\* for_each_writer: on to the next writer, whatever this one returned.
Advance(c) ==
    IF at[c] < NumWriters
    THEN /\ pc' = [pc EXCEPT ![c] = "format"]
         /\ at' = [at EXCEPT ![c] = @ + 1]
    ELSE /\ pc' = [pc EXCEPT ![c] = "idle"]
         /\ UNCHANGED at

\* A thread logs a record that passes the level filter.
Log(t, type) ==
    LET c == <<t, 0>>
    IN  /\ pc[c] = "idle"
        /\ logged[t] < MaxLogs
        /\ logged' = [logged EXCEPT ![t] = @ + 1]
        /\ rec' = [rec EXCEPT
               ![c] = [thread |-> t, n |-> logged[t] + 1, type |-> type]]
        /\ pc' = [pc EXCEPT ![c] = "format"]
        /\ at' = [at EXCEPT ![c] = 1]
        /\ UNCHANGED <<pos, records, allocation, records_lck, written,
                       dropped>>

\* This writer has no memory for the record.
Drop(c) == dropped' = [dropped EXCEPT ![at[c]] = @ \cup {rec[c]}]

\* The formatter declines the record's type, or has no memory for it.
FormatDeclines(c) ==
    /\ pc[c] = "format"
    /\ IF rec[c].type \in Accepts[at[c]]
       THEN AllocMayFail /\ Drop(c) ELSE UNCHANGED dropped
    /\ Advance(c)
    /\ UNCHANGED <<rec, pos, records, allocation, records_lck, written, logged>>

\* Mutant: the formatter takes every type of record.
Format_AnyType(c) ==
    /\ pc[c] = "format"
    /\ pc' = [pc EXCEPT ![c] = "enqueue"]
    /\ UNCHANGED <<at, rec, pos, records, allocation, records_lck, written,
                   dropped, logged>>

Format(c) ==
    /\ pc[c] = "format"
    /\ rec[c].type \in Accepts[at[c]]
    /\ pc' = [pc EXCEPT ![c] = "enqueue"]
    /\ UNCHANGED <<at, rec, pos, records, allocation, records_lck, written,
                   dropped, logged>>

\* The queue is full: unlock, sleep for a second, lock and look again.
QueueFull(c) ==
    /\ pc[c] = "enqueue"
    /\ records_lck[at[c]] = NULL
    /\ Len(records[at[c]]) >= MAX_QUEUE_DEPTH
    /\ pc' = [pc EXCEPT ![c] = "sleep"]
    /\ UNCHANGED <<at, rec, pos, records, allocation, records_lck, written,
                   dropped, logged>>

Wake(c) ==
    /\ pc[c] = "sleep"
    /\ pc' = [pc EXCEPT ![c] = "enqueue"]
    /\ UNCHANGED <<at, rec, pos, records, allocation, records_lck, written,
                   dropped, logged>>

\* Mutant: the writer is signalled when its queue reaches two records.
Enqueue_SignalsAtTwo(c, mem) ==
    LET w == at[c]
    IN  /\ pc[c] = "enqueue"
        /\ records_lck[w] = NULL
        /\ Len(records[w]) < MAX_QUEUE_DEPTH
        /\ records' = [records EXCEPT ![w] = <<rec[c]>> \o @]
        /\ IF Len(records'[w]) = 2
           THEN pc' = [pc EXCEPT ![c] = "signal"] /\ UNCHANGED at
           ELSE Advance(c)
        /\ UNCHANGED <<rec, pos, allocation, records_lck, written, dropped,
                       logged>>

\* The record goes to the front of the queue, or is lost when the queue
\* cannot grow; the record function is called if the queue now holds one.
Enqueue(c, mem) ==
    LET w    == at[c]
        full == Len(records[w]) = allocation[w]
    IN  /\ pc[c] = "enqueue"
        /\ records_lck[w] = NULL
        /\ Len(records[w]) < MAX_QUEUE_DEPTH
        /\ IF full /\ ~mem
           THEN Drop(c) /\ UNCHANGED <<records, allocation>>
           ELSE /\ UNCHANGED dropped
                /\ records' = [records EXCEPT ![w] = <<rec[c]>> \o @]
                /\ allocation' = [allocation EXCEPT
                                      ![w] = IF full THEN 2 * @ ELSE @]
        /\ IF Len(records'[w]) = 1
           THEN pc' = [pc EXCEPT ![c] = "signal"] /\ UNCHANGED at
           ELSE Advance(c)
        /\ UNCHANGED <<rec, pos, records_lck, written, logged>>

\* The record function of a writer that is off.
SignalIgnored(c) ==
    /\ pc[c] = "signal"
    /\ RecordFn[at[c]] = "off"
    /\ Advance(c)
    /\ UNCHANGED <<rec, pos, records, allocation, records_lck, written,
                   dropped, logged>>

\* The record function drains the queue: take the lock and start.
Dequeue(c) ==
    /\ pc[c] = "signal"
    /\ RecordFn[at[c]] # "off"
    /\ records_lck[at[c]] = NULL
    /\ records_lck' = [records_lck EXCEPT ![at[c]] = c]
    /\ pos' = [pos EXCEPT ![c] = 1]
    /\ pc' = [pc EXCEPT ![c] = "drain"]
    /\ UNCHANGED <<at, rec, records, allocation, written, dropped, logged>>

\* Mutant: the drain does not move on after a record.
Handled_SamePosition(c) ==
    /\ written' = [written EXCEPT ![at[c]] = Append(@, records[at[c]][pos[c]])]
    /\ UNCHANGED pos

\* The handler is done with one record of the queue.
Handled(c) ==
    /\ written' = [written EXCEPT ![at[c]] = Append(@, records[at[c]][pos[c]])]
    /\ pos' = [pos EXCEPT ![c] = @ + 1]

\* The handler writes one record.
Handle(c) ==
    /\ pc[c] = "drain"
    /\ pos[c] <= Len(records[at[c]])
    /\ RecordFn[at[c]] = "write"
    /\ Handled(c)
    /\ UNCHANGED <<pc, at, rec, records, allocation, records_lck, dropped,
                   logged>>

\* The handler logs the record again; that call must return first.
Relog(c) ==
    LET n == <<c[1], 1>>
    IN  /\ pc[c] = "drain"
        /\ c[2] = 0
        /\ pos[c] <= Len(records[at[c]])
        /\ RecordFn[at[c]] = "relog"
        /\ pc' = [pc EXCEPT ![c] = "nested", ![n] = "format"]
        /\ at' = [at EXCEPT ![n] = 1]
        /\ rec' = [rec EXCEPT
               ![n] = [records[at[c]][pos[c]] EXCEPT !.type = ERRORLOG]]
        /\ UNCHANGED <<pos, records, allocation, records_lck, written,
                       dropped, logged>>

RelogReturns(c) ==
    /\ pc[c] = "nested"
    /\ pc[<<c[1], 1>>] = "idle"
    /\ pc' = [pc EXCEPT ![c] = "drain"]
    /\ Handled(c)
    /\ UNCHANGED <<at, rec, records, allocation, records_lck, dropped, logged>>

\* Mutant: the queue is not emptied when its storage cannot be resized.
DequeueDone_KeptOnFailure(c, mem) ==
    /\ pc[c] = "drain"
    /\ pos[c] > Len(records[at[c]])
    /\ records' = IF mem THEN [records EXCEPT ![at[c]] = <<>>] ELSE records
    /\ records_lck' = [records_lck EXCEPT ![at[c]] = NULL]
    /\ Advance(c)
    /\ UNCHANGED <<rec, pos, allocation, written, dropped, logged>>

\* Mutant: the lock is kept.
DequeueDone_NotUnlocked(c, mem) ==
    /\ pc[c] = "drain"
    /\ pos[c] > Len(records[at[c]])
    /\ records' = [records EXCEPT ![at[c]] = <<>>]
    /\ Advance(c)
    /\ UNCHANGED <<rec, pos, allocation, records_lck, written, dropped,
                   logged>>

\* The queue is emptied and brought back to its default storage.
DequeueDone(c, mem) ==
    /\ pc[c] = "drain"
    /\ pos[c] > Len(records[at[c]])
    /\ records' = [records EXCEPT ![at[c]] = <<>>]
    /\ allocation' = IF mem
                     THEN [allocation EXCEPT ![at[c]] = DEFAULT_QUEUE_SIZE]
                     ELSE allocation
    /\ records_lck' = [records_lck EXCEPT ![at[c]] = NULL]
    /\ Advance(c)
    /\ UNCHANGED <<rec, pos, written, dropped, logged>>

Memory == IF AllocMayFail THEN BOOLEAN ELSE {TRUE}

CallStep(c) ==
    \/ FormatDeclines(c) \/ Format(c)
    \/ QueueFull(c) \/ Wake(c)
    \/ \E mem \in Memory : Enqueue(c, mem)
    \/ SignalIgnored(c) \/ Dequeue(c)
    \/ Handle(c) \/ Relog(c) \/ RelogReturns(c)
    \/ \E mem \in Memory : DequeueDone(c, mem)

Next ==
    \/ \E t \in Threads, type \in Types : Log(t, type)
    \/ \E c \in Calls : CallStep(c)

Spec == Init /\ [][Next]_vars

\* A thread that is logging keeps running.  Threads need not log.
FairSpec == Spec /\ \A c \in Calls : WF_vars(CallStep(c))
-----------------------------------------------------------------------------
(* Properties.                                                             *)

TypeOK ==
    /\ pc \in [Calls -> {"idle", "format", "enqueue", "sleep", "signal",
                         "drain", "nested"}]
    /\ at \in [Calls -> Writers]
    /\ rec \in [Calls -> Records \cup {NULL}]
    /\ pos \in [Calls -> Nat \ {0}]
    /\ records \in [Writers -> Seq(Records)]
    /\ allocation \in [Writers -> Nat]
    /\ records_lck \in [Writers -> Calls \cup {NULL}]
    /\ written \in [Writers -> Seq(Records)]
    /\ dropped \in [Writers -> SUBSET Records]
    /\ logged \in [Threads -> 0..MaxLogs]

Signals(c, w) == pc[c] \in {"signal", "drain", "nested"} /\ at[c] = w

\* No wake-up is lost and none is doubled: as long as a writer's queue
\* holds records, exactly one call is on its way to drain it (or is
\* draining it), although the queue is unlocked between the test
\* "size == 1" of logger_write and the lock of ib_logger_dequeue.
OneSignaller ==
    \A w \in Writers :
        /\ \A c, d \in Calls : Signals(c, w) /\ Signals(d, w) => c = d
        /\ (\E c \in Calls : Signals(c, w)) => records[w] # <<>>
        /\ RecordFn[w] # "off" /\ records[w] # <<>>
              => \E c \in Calls : Signals(c, w)

\* The busy-wait of logger_write keeps every queue within MAX_QUEUE_DEPTH
\* although any number of threads wait for the same free place.
DepthBounded == \A w \in Writers : Len(records[w]) <= MAX_QUEUE_DEPTH

\* A drain holds the lock of its writer, and nobody else does; the call
\* made by a handler runs only while that handler waits for it.
NestingInv ==
    /\ \A w \in Writers, c \in Calls :
          records_lck[w] = c => pc[c] \in {"drain", "nested"} /\ at[c] = w
    /\ \A c \in Calls :
          pc[c] \in {"drain", "nested"} => records_lck[at[c]] = c
    /\ \A c \in Calls : pc[c] = "nested" => pos[c] <= Len(records[at[c]])
    /\ \A c \in Calls : c[2] = 0 /\ pc[c] # "nested" => pc[<<c[1], 1>>] = "idle"

\* The inductive invariant behind OneSignaller and DepthBounded.  A full
\* queue holds at least two records, so the record it drops when it cannot
\* grow never makes "size == 1" true.
IInv ==
    /\ TypeOK
    /\ \A w \in Writers : allocation[w] > 1
    /\ \A c \in Calls : pc[c] # "idle" => rec[c] \in Records
    /\ NestingInv
    /\ OneSignaller
    /\ DepthBounded

\* What writer w has accepted and not yet written.  A drain leaves the
\* records it has handled in the queue until it is done.
Unwritten(w) ==
    LET done == {c \in Calls : pc[c] \in {"drain", "nested"} /\ at[c] = w}
    IN  IF done = {} THEN records[w]
        ELSE LET c == CHOOSE d \in done : TRUE
             IN  SubSeq(records[w], pos[c], Len(records[w]))

\* No record is written twice, and none that was written is still to be
\* written, in whatever order threads enqueue and drain.
WrittenOnce ==
    \A w \in Writers : IsInjective(written[w] \o Unwritten(w))

\* A call that waits for a place in the full queue of a writer that never
\* drains, as txlog_record does when transaction logging is off.  It waits
\* for ever.
WaitsForOff(c) ==
    /\ pc[c] \in {"enqueue", "sleep"}
    /\ RecordFn[at[c]] = "off" /\ Len(records[at[c]]) >= MAX_QUEUE_DEPTH

\* No deadlock: once the threads log no more, every call of the logger
\* returns, whether it waited for a full queue, for the lock of a writer
\* whose handler logs in its turn, or for its own handler.  Only a call
\* that waits for the queue of a writer that is off stays.  Nothing is said
\* of threads that log without end: the busy-wait of logger_write is not
\* fair, so they may take the free place from a waiting call each time.
LogReturns ==
    <>[][UNCHANGED logged]_vars =>
        \A c \in Calls : pc[c] # "idle" ~> pc[c] = "idle" \/ WaitsForOff(c)

\* Every record a thread logs is eventually written by every writer that
\* takes its type and drains its queue, unless the writer dropped it for
\* lack of memory.
RecordIsWritten ==
    \A w \in {x \in Writers : RecordFn[x] # "off"} :
        \A r \in {x \in Records : x.type \in Accepts[w]} :
            (\E c \in Calls : pc[c] = "format" /\ rec[c] = r)
                ~> r \in Range(written[w]) \cup dropped[w]
=============================================================================
