---------------------------- MODULE StreamPump ----------------------------
(***************************************************************************)
(* The pump that takes the body of a request or a response through a list  *)
(* of stream processors (engine/stream_pump.c), on the queues of           *)
(* util/stream_io.c.  What is in a queue is a claim on a segment of memory *)
(* with a reference count: every processor that takes an item must pass it *)
(* on, keep it or give the claim back.                                     *)
(*                                                                         *)
(* The processors: "core" (core_stream_processor.c) buffers the body up to *)
(* a limit, and is first if it is there; "inflate" is                      *)
(* modules/stream_inflate.c; "other" is any processor, which can do all    *)
(* that the interface lets it.  Where a processor or the pump returns and  *)
(* forgets a claim, the segment is leaked: it stays until the transaction, *)
(* which owns the pool of the segments, is destroyed.                      *)
(* A pump belongs to one transaction, which one thread runs.               *)
(***************************************************************************)
EXTENDS Integers, Sequences, FiniteSets, SequencesExt, FiniteSetsExt

CONSTANTS
    Segs,      \* numbers: the segments the pool can give at one time
    Lens,      \* the lengths of the pieces of body
    Limit,     \* inst->limit of the core processor
    MaxProcs,  \* bound: processors in the pump
    MaxCalls,  \* bound: calls of the pump
    MaxQueue   \* bound: what a processor puts in its output

ASSUME PumpAssumption ==
    /\ Segs \subseteq Nat /\ Lens \subseteq Nat \ {0}
    /\ {Limit, MaxProcs, MaxCalls, MaxQueue} \subseteq Nat

VARIABLES
    procs,    \* pump->processors
    refs,     \* the references of each segment; 0 when it is not allocated
    input,    \* io_tx->input
    output,   \* io_tx->output
    buffer,   \* the body stream of the transaction, filled by the core processor
    pc,       \* "idle", "setup", "run", "inflate" (in its loop over a piece), "return"
    cur,      \* the processor that runs
    held,     \* stream_data of the inflate processor, taken and not passed on
    irc,      \* the rc of the processor that runs: IB_OK, or any other status
    ended,    \* inflateEnd was called
    sent,     \* how much of the body the pump was given
    calls,    \* how many calls there were
    broken,   \* some of the body did not get through the core processor
    leaked    \* the segments a claim on which was forgotten

vars == <<procs, refs, input, output, buffer, pc, cur, held, irc, ended, sent,
          calls, broken, leaked>>
queues == <<input, output>>
call == <<sent, calls>>

\* "NONE" is no type: what is left of it when something else was written there.
Types == {"DATA", "FLUSH", "CLOSE", "ERROR", "NONE"}
Item == [seg : Segs, type : Types, from : Nat, len : Nat]
(* Segments are alike: the pool gives the first that is not allocated.     *)
FreeIn(rs) == {s \in Segs : rs[s] = 0 /\ \A t \in Segs : t < s => rs[t] > 0}
Free == FreeIn(refs)
NewItem(s, type) == [seg |-> s, type |-> type, from |-> 0, len |-> 0]

SegsOf(q) == {d.seg : d \in ToSet(q)}
Count(s, q) == Len(SelectSeq(q, LAMBDA d : d.seg = s))
\* stream_clear_queue: ib_stream_io_data_unref of each item.
Cleared(q) == [s \in Segs |-> refs[s] - Count(s, q)]

TypeOK ==
    /\ procs \in Seq({"core", "inflate", "other"})
    /\ refs \in [Segs -> Nat]
    /\ {input, output, buffer, held} \subseteq Seq(Item) /\ leaked \subseteq Segs
    /\ pc \in {"idle", "setup", "run", "inflate", "return"}
    /\ cur \in 0..MaxProcs
    /\ irc \in {"OK", "ERR"}
    /\ ended \in BOOLEAN /\ broken \in BOOLEAN
    /\ sent \in Nat /\ calls \in 0..MaxCalls

\* ib_stream_pump_create and ib_stream_io_create.
Init ==
    /\ procs = <<>>
    /\ refs = [s \in Segs |-> 0]
    /\ input = <<>> /\ output = <<>> /\ buffer = <<>> /\ held = <<>> /\ leaked = {}
    /\ pc = "idle" /\ cur = 0
    /\ irc = "OK"
    /\ ended = FALSE /\ broken = FALSE
    /\ sent = 0 /\ calls = 0

-----------------------------------------------------------------------------
(* The list of processors: ib_stream_pump_processor_add puts one last, and *)
(* ib_core_stream_processor_tx_init inserts the core processor at index 0  *)
(* when the context of the transaction is selected, before any body.  If   *)
(* it fails, core_hook_context_tx logs that and the pump has none.         *)
Has(kind) == kind \in ToSet(procs)

ProcessorAdd ==
    /\ pc = "idle" /\ Len(procs) < MaxProcs
    /\ \E kind \in {"inflate", "other"} :
          /\ kind = "inflate" => ~Has("inflate")
          /\ procs' = Append(procs, kind)
    /\ UNCHANGED <<refs, queues, buffer, pc, cur, held, irc, ended, call, broken, leaked>>

TxInit ==
    /\ pc = "idle" /\ Len(procs) < MaxProcs
    /\ ~Has("core") /\ calls = 0
    /\ procs' = InsertAt(procs, 1, "core")
    /\ UNCHANGED <<refs, queues, buffer, pc, cur, held, irc, ended, call, broken, leaked>>

(* A call: ib_stream_io_tx_create makes a new io transaction, and one item *)
(* enters it (ib_stream_io_tx_data_add and its siblings).  The one of an   *)
(* earlier call is forgotten with what is in it.                           *)
Given(s, type, len) ==
    /\ pc = "idle" /\ calls < MaxCalls
    /\ s \in Free
    /\ refs' = [refs EXCEPT ![s] = 1]
    /\ input' = <<[NewItem(s, type) EXCEPT !.from = IF len > 0 THEN sent ELSE 0, !.len = len]>>
    /\ leaked' = leaked \cup SegsOf(input)
    /\ sent' = sent + len
    /\ calls' = calls + 1
    /\ pc' = "setup"
    /\ UNCHANGED <<procs, output, buffer, cur, held, irc, ended, broken>>

\* No memory for the io transaction or for the item.
GivenFails ==
    /\ pc = "idle" /\ calls < MaxCalls
    /\ \E len \in Lens \cup {0} :
          /\ sent' = sent + len
          /\ broken' = (broken \/ len > 0)
    /\ calls' = calls + 1
    /\ UNCHANGED <<procs, refs, queues, buffer, pc, cur, held, irc, ended, leaked>>

\* ib_stream_pump_process.
Process == \E s \in Segs, len \in Lens : Given(s, "DATA", len)
\* ib_stream_pump_flush.
Flush == \E s \in Segs : Given(s, "FLUSH", 0)
\* ib_stream_pump_close.
Close == \E s \in Segs : Given(s, "CLOSE", 0)
(* ib_stream_pump_error: ib_stream_io_tx_error_add makes it an item to     *)
(* flush, then copies the message over the item itself: one of up to 16    *)
(* bytes leaves the type as it is, a longer one does not.  (A message of   *)
(* more than 24 bytes is also written past the item; that is left out.)    *)
Error == \E s \in Segs, type \in {"FLUSH", "NONE"} : Given(s, type, 0)

(* stream_pump_process_setup_and_run: without memory for the evaluation    *)
(* the function returns, and the io transaction is not cleaned up.         *)
Setup ==
    /\ pc = "setup"
    /\ pc' = IF procs = <<>> THEN "return" ELSE "run"
    /\ cur' = Min({1, Len(procs)}) /\ irc' = "OK"
    /\ UNCHANGED <<procs, refs, queues, buffer, held, ended, call, broken, leaked>>

SetupFails ==
    /\ pc = "setup"
    /\ pc' = "idle"
    /\ leaked' = leaked \cup SegsOf(input)
    /\ broken' = (broken \/ Head(input).type = "DATA")
    /\ UNCHANGED <<procs, refs, queues, buffer, cur, held, irc, ended, call>>

(* stream_pump_process, after a processor: the output becomes the input of *)
(* the next one (ib_stream_io_tx_reuse), and what was left is given back;  *)
(* after the last one both queues are cleaned up.  Any status but IB_OK    *)
(* ends the call.  Without processors there is only the cleanup.           *)
\* Mutant: after the last processor the io transaction is not cleaned up.
PumpNext_NoCleanup ==
    /\ pc = "return" /\ irc = "OK"
    /\ input' = output /\ output' = <<>>
    /\ refs' = Cleared(input)
    /\ IF cur < Len(procs) THEN pc' = "run" /\ cur' = cur + 1
       ELSE pc' = "idle" /\ cur' = 0
    /\ UNCHANGED <<procs, buffer, held, irc, ended, call, broken, leaked>>

\* Mutant: the loop starts again from the first processor.
PumpNext_FromFirst ==
    /\ pc = "return" /\ irc = "OK"
    /\ input' = output /\ output' = <<>>
    /\ refs' = Cleared(input)
    /\ pc' = IF procs = <<>> THEN "idle" ELSE "run"
    /\ cur' = Min({1, Len(procs)})
    /\ UNCHANGED <<procs, buffer, held, irc, ended, call, broken, leaked>>

PumpNext ==
    /\ pc = "return" /\ irc = "OK"
    /\ \/ /\ cur < Len(procs)
          /\ input' = output /\ output' = <<>>
          /\ refs' = Cleared(input)
          /\ pc' = "run" /\ cur' = cur + 1
       \/ /\ cur = Len(procs)
          /\ input' = <<>> /\ output' = <<>>
          /\ refs' = Cleared(input \o output)
          /\ pc' = "idle" /\ cur' = 0
    /\ UNCHANGED <<procs, buffer, held, irc, ended, call, broken, leaked>>

PumpFails ==
    /\ pc = "return" /\ irc # "OK"
    /\ input' = <<>> /\ output' = <<>>
    /\ refs' = Cleared(input \o output)
    /\ pc' = "idle" /\ cur' = 0
    /\ UNCHANGED <<procs, buffer, held, irc, ended, call, broken, leaked>>

-----------------------------------------------------------------------------
Running(kind) == pc = "run" /\ procs[cur] = kind

\* slen of the body stream.
Buffered == FoldLeft(LAMBDA n, d : n + d.len, 0, buffer)

(* processor_exec_fn with apply_buffering_to_limit: take the first item,   *)
(* push what the limit leaves of a piece of body on the stream, which is a *)
(* reference of its own, and put the item in the output.                   *)
\* Mutant: a piece that crosses the limit is taken whole.
Piece_WholeItem(d) == d
Piece(d) == [d EXCEPT !.len = Min({@, Limit - Buffered})]
Bufferable(d) == d.type = "DATA" /\ d.len > 0 /\ Buffered < Limit

CorePut ==
    /\ Running("core") /\ input # <<>>
    /\ LET d == Head(input)
       IN  /\ IF Bufferable(d)
              THEN /\ buffer' = Append(buffer, Piece(d))
                   /\ refs' = [refs EXCEPT ![d.seg] = @ + 1]
              ELSE UNCHANGED <<buffer, refs>>
           /\ input' = Tail(input)
           /\ output' = Append(output, d)
    /\ UNCHANGED <<procs, pc, cur, held, irc, ended, call, broken, leaked>>

\* ib_stream_push fails: the item is neither put nor given back.
CoreFails ==
    /\ Running("core") /\ input # <<>>
    /\ LET d == Head(input)
       IN  /\ Bufferable(d)
           /\ refs' = [refs EXCEPT ![d.seg] = @ + 1]
           /\ leaked' = leaked \cup {d.seg}
    /\ input' = Tail(input)
    /\ irc' = "ERR" /\ pc' = "return"
    /\ broken' = TRUE
    /\ UNCHANGED <<procs, output, buffer, cur, held, ended, call>>

CoreReturns ==
    /\ Running("core") /\ input = <<>>
    /\ irc' = "OK" /\ pc' = "return"
    /\ UNCHANGED <<procs, refs, queues, buffer, cur, held, ended, call, broken, leaked>>

-----------------------------------------------------------------------------
(* execute_inflate_processor.  zlib is external: it fails, fills the chunk *)
(* or fills a part of it, and after inflateEnd it only fails.              *)
InflateTake ==
    /\ Running("inflate") /\ input # <<>>
    /\ irc' = "OK"
    /\ input' = Tail(input)
    /\ \/ /\ Head(input).type = "FLUSH"
          /\ output' = Append(output, Head(input))
          /\ UNCHANGED <<held, pc>>
       \/ /\ Head(input).type # "FLUSH"
          /\ held' = <<Head(input)>> /\ pc' = "inflate"
          /\ UNCHANGED output
    /\ UNCHANGED <<procs, refs, buffer, cur, ended, call, broken, leaked>>

\* The queue is empty: the rc of the last piece is returned.
InflateReturns ==
    /\ Running("inflate") /\ input = <<>>
    /\ pc' = "return"
    /\ ended' = (ended \/ irc # "OK")
    /\ UNCHANGED <<procs, refs, queues, buffer, cur, held, irc, call, broken, leaked>>

\* The chunk is full: there may be more.
InflateFull ==
    /\ pc = "inflate" /\ ~ended /\ Len(output) < MaxQueue
    /\ \E s \in Free :
          /\ refs' = [refs EXCEPT ![s] = 1]
          /\ output' = Append(output, NewItem(s, "DATA"))
    /\ UNCHANGED <<procs, input, buffer, pc, cur, held, irc, ended, call, broken, leaked>>

(* A part is filled: a slice of the chunk is put, which is a reference to  *)
(* the same segment, then the chunk and the piece taken are given back.    *)
\* Mutant: the piece that was taken is kept.
InflatePart_Kept ==
    /\ pc = "inflate" /\ ~ended
    /\ \E s \in Free :
          /\ refs' = [refs EXCEPT ![s] = 1]
          /\ output' = Append(output, NewItem(s, "DATA"))
    /\ held' = <<>> /\ pc' = "run"
    /\ UNCHANGED <<procs, input, buffer, cur, irc, ended, call, broken, leaked>>

InflatePart ==
    /\ pc = "inflate" /\ ~ended
    /\ \E s \in Free :
          /\ refs' = [Cleared(held) EXCEPT ![s] = 1]
          /\ output' = Append(output, NewItem(s, "DATA"))
    /\ held' = <<>> /\ pc' = "run"
    /\ UNCHANGED <<procs, input, buffer, cur, irc, ended, call, broken, leaked>>

(* No memory for the chunk, or for its slice: the loop over the piece      *)
(* ends, and the next piece of the queue, if any, sets rc again.           *)
InflateNoMemory ==
    /\ pc = "inflate"
    /\ \/ refs' = Cleared(held) /\ UNCHANGED leaked
       \/ \E s \in Free :
             /\ refs' = [Cleared(held) EXCEPT ![s] = 1]
             /\ leaked' = leaked \cup {s}
    /\ held' = <<>> /\ pc' = "run" /\ irc' = "ERR"
    /\ UNCHANGED <<procs, queues, buffer, cur, ended, call, broken>>

\* zlib fails: an error goes to the output; the piece and the chunk are kept.
InflateFails ==
    /\ pc = "inflate"
    /\ \E s \in Free :
          /\ leaked' = leaked \cup SegsOf(held) \cup {s}
          /\ \/ \E e \in FreeIn([refs EXCEPT ![s] = 1]) :
                   /\ refs' = [refs EXCEPT ![s] = 1, ![e] = 1]
                   /\ output' = Append(output, NewItem(e, "ERROR"))
             \/ refs' = [refs EXCEPT ![s] = 1] /\ UNCHANGED output
    /\ held' = <<>> /\ ended' = TRUE
    /\ pc' = "return" /\ irc' = "ERR"
    /\ UNCHANGED <<procs, input, buffer, cur, call, broken>>

-----------------------------------------------------------------------------
(* Any other processor (ib_stream_processor_execute calls it), through the *)
(* interface: forward (or take and put), discard (or take and unref),      *)
(* insert an item, throw its output away (redo), and return.               *)
OtherForward ==
    /\ Running("other") /\ input # <<>>
    /\ input' = Tail(input)
    /\ output' = Append(output, Head(input))
    /\ UNCHANGED <<procs, refs, buffer, pc, cur, held, irc, ended, call, broken, leaked>>

OtherDiscard ==
    /\ Running("other") /\ input # <<>>
    /\ input' = Tail(input)
    /\ refs' = Cleared(<<Head(input)>>)
    /\ UNCHANGED <<procs, output, buffer, pc, cur, held, irc, ended, call, broken, leaked>>

OtherInsert ==
    /\ Running("other") /\ Len(output) < MaxQueue
    /\ \E s \in Free, type \in Types \ {"NONE"} :
          /\ refs' = [refs EXCEPT ![s] = 1]
          /\ output' = Append(output, NewItem(s, type))
    /\ UNCHANGED <<procs, input, buffer, pc, cur, held, irc, ended, call, broken, leaked>>

(* ib_stream_io_data_slice of the first item, put before it is forwarded:  *)
(* another claim on the same segment.                                      *)
OtherSlice ==
    /\ Running("other") /\ input # <<>> /\ Len(output) < MaxQueue
    /\ Head(input).type = "DATA"
    /\ \E start \in 0..Head(input).len : \E length \in 0..(Head(input).len - start) :
          output' = Append(output, [Head(input) EXCEPT !.from = @ + start, !.len = length])
    /\ refs' = [refs EXCEPT ![Head(input).seg] = @ + 1]
    /\ UNCHANGED <<procs, input, buffer, pc, cur, held, irc, ended, call, broken, leaked>>

OtherRedo ==
    /\ Running("other") /\ output # <<>>
    /\ output' = <<>>
    /\ refs' = Cleared(output)
    /\ UNCHANGED <<procs, input, buffer, pc, cur, held, irc, ended, call, broken, leaked>>

OtherReturns ==
    /\ Running("other")
    /\ irc' \in {"OK", "ERR"} /\ pc' = "return"
    /\ UNCHANGED <<procs, refs, queues, buffer, cur, held, ended, call, broken, leaked>>

-----------------------------------------------------------------------------
Core == CorePut \/ CoreFails \/ CoreReturns
Inflate ==
    \/ InflateTake \/ InflateReturns \/ InflateFull \/ InflatePart
    \/ InflateNoMemory \/ InflateFails
Other ==
    \/ OtherForward \/ OtherDiscard \/ OtherInsert \/ OtherSlice \/ OtherRedo
    \/ OtherReturns
Pump == Setup \/ SetupFails \/ PumpNext \/ PumpFails

Next ==
    \/ ProcessorAdd \/ TxInit
    \/ Process \/ Flush \/ Close \/ Error \/ GivenFails
    \/ Pump \/ Core \/ Inflate \/ Other

Spec == Init /\ [][Next]_vars

(* The thread of the transaction runs the call to its end.  zlib does not  *)
(* fill chunks for ever, and another processor returns.                    *)
Fairness ==
    /\ WF_vars(Pump) /\ WF_vars(Core)
    /\ WF_vars(InflateTake \/ InflateReturns)
    /\ WF_vars(InflatePart \/ InflateNoMemory \/ InflateFails)
    /\ WF_vars(OtherReturns)

FairSpec == Spec /\ Fairness

-----------------------------------------------------------------------------
Claims == input \o output \o held \o buffer

(* A segment lives as long as an item of a queue, the processor that took  *)
(* it or the buffered body points to it (ref, unref, slice and the queues  *)
(* of stream_io.c), and no longer, unless a claim on it was forgotten.     *)
(* stream_io.h asks for an unref of what is taken and not passed on; the   *)
(* places that fail to do it are these: the core processor when            *)
(* ib_stream_push fails, the inflate processor when zlib or the slice      *)
(* fails, and the pump without memory for the evaluation.                  *)
RefsExact ==
    /\ TypeOK
    /\ \A s \in Segs :
          \/ refs[s] = Count(s, Claims)
          \/ refs[s] > Count(s, Claims) /\ s \in leaked

(* Between two calls the only memory that is claimed is the buffered body, *)
(* whatever the processors put, took and left, and whether they succeeded; *)
(* but for the leaks.                                                      *)
OnlyBodyKept ==
    pc = "idle" => \A s \in Segs \ leaked : refs[s] = Count(s, buffer)

(* What is buffered is in the order of the body, without overlap and       *)
(* within the limit; and, unless a piece did not get through or the core   *)
(* processor could not be put in the pump, it is all of the body up to the *)
(* limit, also when more pieces follow the one in which the limit falls    *)
(* (apply_buffering_to_limit).                                             *)
BufferIsPrefix ==
    /\ Buffered <= Limit
    /\ \A i \in 1..(Len(buffer) - 1) :
          buffer[i].from + buffer[i].len <= buffer[i + 1].from
    /\ (pc = "idle" /\ ~broken /\ Has("core")) =>
          /\ Buffered = Min({Limit, sent})
          /\ \A i \in 1..(Len(buffer) - 1) :
                buffer[i].from + buffer[i].len = buffer[i + 1].from

(* A call of the pump returns, whatever the processors do (the loop of     *)
(* stream_pump_process and those of the processors).                       *)
CallReturns == (pc # "idle") ~> (pc = "idle")
=============================================================================
