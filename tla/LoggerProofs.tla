---------------------------- MODULE LoggerProofs ----------------------------
(***************************************************************************)
(* The logger's signalling protocol, for any number of threads, writers    *)
(* and records, any queue depth, and with or without memory: no wake-up is *)
(* lost, none is doubled, and no queue exceeds its depth (IInv).  When     *)
(* one writer at most logs its records again, no writer writes a record    *)
(* twice (WInv).                                                           *)
(***************************************************************************)
EXTENDS Logger, TLAPS

USE SMTT(60)

\* A call is a thread's outer call or the one its handler makes.
LEMMA CallFacts ==
    ASSUME NEW c \in Calls
    PROVE  /\ c[1] \in Threads /\ c[2] \in {0, 1}
           /\ <<c[1], 1>> \in Calls
           /\ c[2] = 0 => <<c[1], 1>> # c
           /\ \A d \in Calls : d[2] = 0 /\ <<d[1], 1>> = <<c[1], 1>>
                                   /\ c[2] = 0 => d = c
           /\ <<c[1], 1>>[2] = 1
BY DEF Calls

\* Leaving a writer moves one call only, and leaves it at no queue.
LEMMA AdvanceFacts ==
    ASSUME TypeOK, NEW c \in Calls, Advance(c)
    PROVE  /\ at' \in [Calls -> Writers]
           /\ pc' \in [Calls -> {"idle", "format", "enqueue", "sleep",
                                 "signal", "drain", "nested"}]
           /\ pc'[c] \in {"format", "idle"}
           /\ pc'[c] = "idle" \/ pc'[c] = "format"
           /\ \A d \in Calls : d # c => pc'[d] = pc[d] /\ at'[d] = at[d]
<1>1. NumWriters \in Nat /\ at[c] \in 1..NumWriters
  BY LoggerAssumption, Zenon DEF LoggerAssumption, TypeOK, Writers
<1>2. CASE at[c] < NumWriters
  <2>1. at[c] + 1 \in Writers
    BY <1>1, <1>2 DEF Writers
  <2> QED
    BY <1>2, <2>1, Zenon DEF TypeOK, Advance
<1>3. CASE ~(at[c] < NumWriters)
  BY <1>3, Zenon DEF TypeOK, Advance
<1> QED
  BY <1>2, <1>3, Zenon

\* A record put in front of a queue makes it one longer.
LEMMA PushFacts ==
    ASSUME NEW s \in Seq(Records), NEW r \in Records
    PROVE  /\ <<r>> \o s \in Seq(Records)
           /\ Len(<<r>> \o s) = Len(s) + 1
           /\ <<r>> \o s # <<>>
           /\ Len(<<r>> \o s) = 1 <=> s = <<>>
           /\ Len(s) \in Nat
<1>1. <<r>> \in Seq(Records) /\ Len(<<r>>) = 1 /\ Len(s) \in Nat
  OBVIOUS
<1>2. <<r>> \o s \in Seq(Records) /\ Len(<<r>> \o s) = Len(s) + 1
  BY <1>1
<1>3. <<r>> \o s # <<>>
  BY <1>1, <1>2
<1>4. Len(s) = 0 <=> s = <<>>
  OBVIOUS
<1> QED
  BY <1>1, <1>2, <1>3, <1>4

\* The record that is dropped is a record.
LEMMA DropFacts ==
    ASSUME TypeOK, NEW c \in Calls, rec[c] \in Records, at[c] \in Writers,
           Drop(c) \/ UNCHANGED dropped
    PROVE  dropped' \in [Writers -> SUBSET Records]
<1>1. CASE UNCHANGED dropped
  BY <1>1, Zenon DEF TypeOK
<1>2. CASE Drop(c)
  <2>0. dropped \in [Writers -> SUBSET Records]
    BY Zenon DEF TypeOK
  <2>1. PICK more \in SUBSET Records : more = dropped[at[c]] \cup {rec[c]}
    BY <2>0, Zenon
  <2>2. dropped' = [dropped EXCEPT ![at[c]] = more]
    BY <1>2, <2>1, Zenon DEF Drop
  <2> QED
    BY <2>0, <2>1, <2>2, Zenon
<1> QED
  BY <1>1, <1>2, Zenon

\* All queues start empty, with nobody at them.
LEMMA InitIInv == Init => IInv
<1> SUFFICES ASSUME Init PROVE IInv
  BY Zenon
<1>1. TypeOK
  BY LoggerAssumption DEF LoggerAssumption, Init, TypeOK, Writers
<1>2. \A w \in Writers : allocation[w] > 1
  BY LoggerAssumption, Zenon DEF LoggerAssumption, Init
<1>3. NestingInv
  <2>1. \A c \in Calls : pc[c] = "idle"
    BY Zenon DEF Init
  <2>2. \A w \in Writers, c \in Calls : records_lck[w] # c
    BY LoggerAssumption, Zenon DEF LoggerAssumption, Init
  <2>3. \A c \in Calls : <<c[1], 1>> \in Calls
    BY CallFacts, Zenon
  <2> QED
    BY <2>1, <2>2, <2>3, Zenon DEF NestingInv
<1>4. OneSignaller
  BY Zenon DEF Init, OneSignaller, Signals
<1>5. DepthBounded
  BY LoggerAssumption DEF LoggerAssumption, Init, DepthBounded
<1> QED
  BY <1>1, <1>2, <1>3, <1>4, <1>5, Zenon DEF IInv, Init

\* Every step keeps the types.  A handler's position lies in its queue.
LEMMA TypeStep ==
    ASSUME IInv, [Next]_vars
    PROVE  TypeOK'
<1>0. CASE UNCHANGED vars
  BY <1>0, Zenon DEF IInv, TypeOK, vars
<1>1. ASSUME NEW t \in Threads, NEW type \in Types, Log(t, type)
      PROVE  TypeOK'
  <2>1. <<t, 0>> \in Calls
    BY Zenon DEF Calls
  <2>2. logged[t] + 1 \in 1..MaxLogs /\ logged[t] + 1 \in 0..MaxLogs
    BY <1>1, LoggerAssumption DEF LoggerAssumption, IInv, TypeOK, Log
  <2>3. [thread |-> t, n |-> logged[t] + 1, type |-> type] \in Records
    BY <2>2, Zenon DEF Records
  <2>4. 1 \in Writers
    BY LoggerAssumption DEF LoggerAssumption, Writers
  <2>5. logged' \in [Threads -> 0..MaxLogs]
    BY <1>1, <2>2, Zenon DEF IInv, TypeOK, Log
  <2>6. rec' \in [Calls -> Records \cup {NULL}]
    BY <1>1, <2>1, <2>3, Zenon DEF IInv, TypeOK, Log
  <2> QED
    BY <1>1, <2>1, <2>4, <2>5, <2>6, Zenon DEF IInv, TypeOK, Log
<1>2. ASSUME NEW c \in Calls, FormatDeclines(c)
      PROVE  TypeOK'
  <2>1. rec[c] \in Records /\ at[c] \in Writers
    BY <1>2, Zenon DEF IInv, TypeOK, FormatDeclines
  <2>2. dropped' \in [Writers -> SUBSET Records]
    BY <1>2, <2>1, DropFacts, Zenon DEF IInv, FormatDeclines
  <2> QED
    BY <1>2, <2>2, AdvanceFacts, Zenon DEF IInv, TypeOK, FormatDeclines
<1>3. ASSUME NEW c \in Calls, Format(c) \/ QueueFull(c) \/ Wake(c)
      PROVE  TypeOK'
  BY <1>3, Zenon DEF IInv, TypeOK, Format, QueueFull, Wake
<1>4. ASSUME NEW c \in Calls, NEW mem \in Memory, Enqueue(c, mem)
      PROVE  TypeOK'
  <2>1. rec[c] \in Records /\ at[c] \in Writers
    BY <1>4, Zenon DEF IInv, TypeOK, Enqueue
  <2>2. records[at[c]] \in Seq(Records) /\ allocation[at[c]] \in Nat
    BY <2>1, Zenon DEF IInv, TypeOK
  <2>3. <<rec[c]>> \o records[at[c]] \in Seq(Records)
    BY <2>1, <2>2, PushFacts, Zenon
  <2>4. records' \in [Writers -> Seq(Records)]
    BY <1>4, <2>1, <2>3, Zenon DEF IInv, TypeOK, Enqueue
  <2>5. allocation' \in [Writers -> Nat]
    BY <1>4, <2>1, <2>2 DEF IInv, TypeOK, Enqueue
  <2>6. /\ at' \in [Calls -> Writers]
        /\ pc' \in [Calls -> {"idle", "format", "enqueue", "sleep",
                              "signal", "drain", "nested"}]
    <3>1. CASE Advance(c)
      BY <3>1, AdvanceFacts, Zenon DEF IInv
    <3>2. CASE pc' = [pc EXCEPT ![c] = "signal"] /\ UNCHANGED at
      BY <3>2, Zenon DEF IInv, TypeOK
    <3> QED
      BY <1>4, <3>1, <3>2, Zenon DEF Enqueue
  <2>7. dropped' \in [Writers -> SUBSET Records]
    BY <1>4, <2>1, DropFacts, Zenon DEF IInv, Enqueue
  <2> QED
    BY <1>4, <2>4, <2>5, <2>6, <2>7, Zenon DEF IInv, TypeOK, Enqueue
<1>5. ASSUME NEW c \in Calls, SignalIgnored(c)
      PROVE  TypeOK'
  BY <1>5, AdvanceFacts, Zenon DEF IInv, TypeOK, SignalIgnored
<1>6. ASSUME NEW c \in Calls, Dequeue(c)
      PROVE  TypeOK'
  BY <1>6 DEF IInv, TypeOK, Dequeue
<1>7. ASSUME NEW c \in Calls, Handled(c), pos[c] <= Len(records[at[c]])
      PROVE  /\ written' \in [Writers -> Seq(Records)]
             /\ pos' \in [Calls -> Nat \ {0}]
  <2>1. /\ at[c] \in Writers /\ records[at[c]] \in Seq(Records)
        /\ pos[c] \in Nat \ {0} /\ written[at[c]] \in Seq(Records)
    BY Zenon DEF IInv, TypeOK
  <2>2. records[at[c]][pos[c]] \in Records
    BY <1>7, <2>1
  <2>3. Append(written[at[c]], records[at[c]][pos[c]]) \in Seq(Records)
    BY <2>1, <2>2
  <2>4. pos[c] + 1 \in Nat \ {0}
    BY <2>1
  <2> QED
    BY <1>7, <2>3, <2>4, Zenon DEF Handled, IInv, TypeOK
<1>8. ASSUME NEW c \in Calls, Handle(c)
      PROVE  TypeOK'
  BY <1>7, <1>8, Zenon DEF IInv, TypeOK, Handle
<1>9. ASSUME NEW c \in Calls, Relog(c)
      PROVE  TypeOK'
  <2>1. /\ at[c] \in Writers /\ records[at[c]] \in Seq(Records)
        /\ pos[c] \in Nat \ {0}
    BY Zenon DEF IInv, TypeOK
  <2>2. records[at[c]][pos[c]] \in Records
    BY <1>9, <2>1 DEF Relog
  <2>3. [records[at[c]][pos[c]] EXCEPT !.type = ERRORLOG] \in Records
    BY <2>2, Zenon DEF Records, Types
  <2>4. 1 \in Writers
    BY LoggerAssumption DEF LoggerAssumption, Writers
  <2>5. <<c[1], 1>> \in Calls
    BY CallFacts, Zenon
  <2>6. rec' \in [Calls -> Records \cup {NULL}]
    BY <1>9, <2>3, <2>5, Zenon DEF Relog, IInv, TypeOK
  <2> QED
    BY <1>9, <2>4, <2>5, <2>6, Zenon DEF Relog, IInv, TypeOK
<1>10. ASSUME NEW c \in Calls, RelogReturns(c)
       PROVE  TypeOK'
  <2>1. pos[c] <= Len(records[at[c]])
    BY <1>10, Zenon DEF IInv, NestingInv, RelogReturns
  <2> QED
    BY <1>7, <1>10, <2>1, Zenon DEF IInv, TypeOK, RelogReturns
<1>11. ASSUME NEW c \in Calls, NEW mem \in Memory, DequeueDone(c, mem)
       PROVE  TypeOK'
  <2>1. <<>> \in Seq(Records) /\ DEFAULT_QUEUE_SIZE \in Nat
    BY LoggerAssumption DEF LoggerAssumption
  <2> QED
    BY <1>11, <2>1, AdvanceFacts, Zenon DEF IInv, TypeOK, DequeueDone
<1> QED
  BY <1>0, <1>1, <1>2, <1>3, <1>4, <1>5, <1>6, <1>8, <1>9, <1>10, <1>11, Zenon
     DEF Next, CallStep

\* Memory of a queue never falls below two cells, and a call that is under
\* way has a record.
LEMMA MiscStep ==
    ASSUME IInv, [Next]_vars
    PROVE  /\ \A w \in Writers : allocation'[w] > 1
           /\ \A c \in Calls : pc'[c] # "idle" => rec'[c] \in Records
<1>1. \A w \in Writers : allocation[w] \in Nat /\ allocation[w] > 1
  BY Zenon DEF IInv, TypeOK
<1>2. \A w \in Writers : allocation'[w] > 1
  <2>1. ASSUME NEW c \in Calls, NEW mem \in Memory, Enqueue(c, mem)
        PROVE  \A w \in Writers : allocation'[w] > 1
    <3>1. at[c] \in Writers /\ allocation \in [Writers -> Nat]
      BY Zenon DEF IInv, TypeOK
    <3>2. \/ allocation' = allocation
          \/ allocation' = [allocation EXCEPT ![at[c]] = 2 * allocation[at[c]]]
      BY <2>1, <3>1, Zenon DEF Enqueue
    <3>3. 2 * allocation[at[c]] > 1
      BY <1>1, <3>1
    <3> QED
      BY <1>1, <3>1, <3>2, <3>3, Zenon
  <2>2. ASSUME NEW c \in Calls, NEW mem \in Memory, DequeueDone(c, mem)
        PROVE  \A w \in Writers : allocation'[w] > 1
    BY <1>1, <2>2, LoggerAssumption, Zenon
       DEF DequeueDone, IInv, TypeOK, LoggerAssumption
  <2>3. CASE allocation' = allocation
    BY <1>1, <2>3, Zenon
  <2> QED
    BY <2>1, <2>2, <2>3, Zenon
       DEF Next, vars, CallStep, Log, FormatDeclines, Format, QueueFull, Wake,
           SignalIgnored, Dequeue, Handle, Relog, RelogReturns
<1>3. \A c \in Calls : pc'[c] # "idle" => rec'[c] \in Records
  <2>1. ASSUME NEW t \in Threads, NEW type \in Types, Log(t, type)
        PROVE  \A c \in Calls : pc'[c] # "idle" => rec'[c] \in Records
    <3>1. logged[t] + 1 \in 1..MaxLogs
      BY <2>1, LoggerAssumption DEF LoggerAssumption, IInv, TypeOK, Log
    <3>2. [thread |-> t, n |-> logged[t] + 1, type |-> type] \in Records
      BY <3>1, Zenon DEF Records
    <3> QED
      BY <2>1, <3>2, Zenon DEF Log, IInv, TypeOK
  <2>2. ASSUME NEW c \in Calls, Relog(c)
        PROVE  \A d \in Calls : pc'[d] # "idle" => rec'[d] \in Records
    <3>1. /\ at[c] \in Writers /\ records[at[c]] \in Seq(Records)
          /\ pos[c] \in Nat \ {0}
      BY Zenon DEF IInv, TypeOK
    <3>2. records[at[c]][pos[c]] \in Records
      BY <2>2, <3>1 DEF Relog
    <3>3. [records[at[c]][pos[c]] EXCEPT !.type = ERRORLOG] \in Records
      BY <3>2, Zenon DEF Records, Types
    <3>4. pc[c] # "idle" /\ <<c[1], 1>> \in Calls
      BY <2>2, CallFacts, Zenon DEF Relog
    <3> QED
      BY <2>2, <3>3, <3>4, Zenon DEF Relog, IInv, TypeOK
  <2>3. ASSUME NEW c \in Calls, rec' = rec, pc[c] # "idle",
               \A d \in Calls : d # c => pc'[d] = pc[d]
        PROVE  \A d \in Calls : pc'[d] # "idle" => rec'[d] \in Records
    BY <2>3, Zenon DEF IInv
  <2>4. ASSUME NEW c \in Calls, FormatDeclines(c) \/ SignalIgnored(c)
                 \/ \E mem \in Memory : DequeueDone(c, mem)
        PROVE  \A d \in Calls : pc'[d] # "idle" => rec'[d] \in Records
    BY <2>3, <2>4, AdvanceFacts, Zenon
       DEF FormatDeclines, SignalIgnored, DequeueDone, IInv
  <2>5. ASSUME NEW c \in Calls, NEW mem \in Memory, Enqueue(c, mem)
        PROVE  \A d \in Calls : pc'[d] # "idle" => rec'[d] \in Records
    <3>1. \A d \in Calls : d # c => pc'[d] = pc[d]
      <4>1. CASE Advance(c)
        BY <4>1, AdvanceFacts, Zenon DEF IInv
      <4>2. CASE pc' = [pc EXCEPT ![c] = "signal"]
        BY <4>2, Zenon DEF IInv, TypeOK
      <4> QED
        BY <2>5, <4>1, <4>2, Zenon DEF Enqueue
    <3> QED
      BY <2>3, <2>5, <3>1, Zenon DEF Enqueue
  <2>6. ASSUME NEW c \in Calls, Format(c) \/ QueueFull(c) \/ Wake(c)
                 \/ Dequeue(c) \/ Handle(c) \/ RelogReturns(c)
        PROVE  \A d \in Calls : pc'[d] # "idle" => rec'[d] \in Records
    BY <2>3, <2>6, Zenon
       DEF Format, QueueFull, Wake, Dequeue, Handle, RelogReturns, IInv, TypeOK
  <2>7. CASE UNCHANGED vars
    BY <2>7, Zenon DEF vars, IInv
  <2> QED
    BY <2>1, <2>2, <2>4, <2>5, <2>6, <2>7, Zenon DEF Next, CallStep
<1> QED
  BY <1>2, <1>3, Zenon

\* A call that moves outside any drain disturbs no lock and no nesting.
LEMMA QuietNesting ==
    ASSUME IInv, NEW c \in Calls,
           \A d \in Calls : d # c =>
               pc'[d] = pc[d] /\ at'[d] = at[d] /\ pos'[d] = pos[d],
           pc[c] \notin {"drain", "nested"}, pc'[c] \notin {"drain", "nested"},
           pc[c] # "idle" \/ c[2] = 0,
           records_lck' = records_lck,
           \A w \in Writers : records_lck[w] # NULL => records'[w] = records[w]
    PROVE  NestingInv'
<1>1. \A w \in Writers, d \in Calls :
          records_lck'[w] = d => pc'[d] \in {"drain", "nested"} /\ at'[d] = w
  BY DEF IInv, NestingInv
<1>2. \A d \in Calls :
          pc'[d] \in {"drain", "nested"} => records_lck'[at'[d]] = d
  BY Zenon DEF IInv, NestingInv
<1>3. ASSUME NEW d \in Calls, pc'[d] = "nested"
      PROVE  pos'[d] <= Len(records'[at'[d]])
  <2>1. d # c /\ pc[d] = "nested" /\ at'[d] = at[d] /\ pos'[d] = pos[d]
    BY <1>3, Zenon
  <2>2. records_lck[at[d]] = d /\ at[d] \in Writers /\ d # NULL
    BY <2>1, LoggerAssumption DEF LoggerAssumption, IInv, NestingInv, TypeOK
  <2>3. records'[at[d]] = records[at[d]]
    BY <2>2, Zenon
  <2> QED
    BY <2>1, <2>3, Zenon DEF IInv, NestingInv
<1>4. ASSUME NEW o \in Calls, o[2] = 0, pc'[o] # "nested"
      PROVE  pc'[<<o[1], 1>>] = "idle"
  <2>1. pc[o] # "nested"
    BY <1>4, Zenon
  <2>2. pc[<<o[1], 1>>] = "idle" /\ <<o[1], 1>> \in Calls
    BY <1>4, <2>1, CallFacts, Zenon DEF IInv, NestingInv
  <2>3. <<o[1], 1>> # c
    <3>1. SUFFICES ASSUME <<o[1], 1>> = c PROVE FALSE
      BY Zenon
    <3>2. c[2] = 1
      BY <3>1, Zenon
    <3> QED
      BY <2>2, <3>1, <3>2
  <2> QED
    BY <2>2, <2>3, Zenon
<1> QED
  BY <1>1, <1>2, <1>3, <1>4, Zenon DEF NestingInv

\* Every step keeps locks with drains and nested calls with their handlers.
LEMMA NestingStep ==
    ASSUME IInv, [Next]_vars
    PROVE  NestingInv'
<1>0. CASE UNCHANGED vars
  BY <1>0, Zenon DEF IInv, NestingInv, vars
<1>1. ASSUME NEW t \in Threads, NEW type \in Types, Log(t, type)
      PROVE  NestingInv'
  <2>1. <<t, 0>> \in Calls /\ <<t, 0>>[2] = 0
    BY Zenon DEF Calls
  <2> QED
    BY <1>1, <2>1, QuietNesting, Zenon DEF Log, IInv, TypeOK
<1>2. ASSUME NEW c \in Calls, FormatDeclines(c) \/ SignalIgnored(c)
      PROVE  NestingInv'
  BY <1>2, AdvanceFacts, QuietNesting DEF FormatDeclines, SignalIgnored, IInv
<1>3. ASSUME NEW c \in Calls, Format(c) \/ QueueFull(c) \/ Wake(c)
      PROVE  NestingInv'
  BY <1>3, QuietNesting, Zenon DEF Format, QueueFull, Wake, IInv, TypeOK
<1>4. ASSUME NEW c \in Calls, NEW mem \in Memory, Enqueue(c, mem)
      PROVE  NestingInv'
  <2>1. /\ pc[c] = "enqueue" /\ records_lck[at[c]] = NULL
        /\ records_lck' = records_lck /\ pos' = pos
    BY <1>4, Zenon DEF Enqueue
  <2>2. /\ \A d \in Calls : d # c => pc'[d] = pc[d] /\ at'[d] = at[d]
        /\ pc'[c] \notin {"drain", "nested"}
    <3>1. CASE Advance(c)
      BY <3>1, AdvanceFacts, Zenon DEF IInv
    <3>2. CASE pc' = [pc EXCEPT ![c] = "signal"] /\ at' = at
      BY <3>2, Zenon DEF IInv, TypeOK
    <3> QED
      BY <1>4, <3>1, <3>2, Zenon DEF Enqueue
  <2>3. \A w \in Writers : records_lck[w] # NULL => records'[w] = records[w]
    BY <1>4, <2>1, Zenon DEF Enqueue, IInv, TypeOK
  <2> QED
    BY <2>1, <2>2, <2>3, QuietNesting, Zenon
<1>5. ASSUME NEW c \in Calls, Dequeue(c)
      PROVE  NestingInv'
  <2>1. /\ pc[c] = "signal" /\ records_lck[at[c]] = NULL
        /\ pc' = [pc EXCEPT ![c] = "drain"] /\ at' = at
        /\ records' = records
        /\ records_lck' = [records_lck EXCEPT ![at[c]] = c]
        /\ pos' = [pos EXCEPT ![c] = 1]
    BY <1>5, Zenon DEF Dequeue
  <2>2. /\ at[c] \in Writers /\ pc = [d \in Calls |-> pc[d]]
        /\ records_lck \in [Writers -> Calls \cup {NULL}]
        /\ pos \in [Calls -> Nat \ {0}]
    BY Zenon DEF IInv, TypeOK
  <2>3. ASSUME NEW w \in Writers, NEW d \in Calls, records_lck'[w] = d
        PROVE  pc'[d] \in {"drain", "nested"} /\ at'[d] = w
    BY <2>1, <2>2, <2>3 DEF IInv, NestingInv
  <2>4. ASSUME NEW d \in Calls, pc'[d] \in {"drain", "nested"}
        PROVE  records_lck'[at'[d]] = d
    <3>1. CASE d = c
      BY <2>1, <2>2, <3>1, Zenon
    <3>2. CASE d # c
      <4>1. records_lck[at[d]] = d /\ d # NULL
        BY <2>1, <2>2, <2>4, <3>2, LoggerAssumption
           DEF LoggerAssumption, IInv, NestingInv
      <4>2. at[d] # at[c] /\ at[d] \in Writers
        BY <2>1, <4>1, Zenon DEF IInv, TypeOK
      <4> QED
        BY <2>1, <2>2, <4>1, <4>2, Zenon
    <3> QED
      BY <3>1, <3>2, Zenon
  <2>5. \A d \in Calls : pc'[d] = "nested" => pos'[d] <= Len(records'[at'[d]])
    BY <2>1, <2>2, Zenon DEF IInv, NestingInv
  <2>6. \A o \in Calls : o[2] = 0 /\ pc'[o] # "nested"
                            => pc'[<<o[1], 1>>] = "idle"
    <3>1. SUFFICES ASSUME NEW o \in Calls, o[2] = 0, pc'[o] # "nested"
                   PROVE  pc'[<<o[1], 1>>] = "idle"
      BY Zenon
    <3>2. pc[o] # "nested"
      BY <2>1, <2>2, <3>1, Zenon
    <3>3. pc[<<o[1], 1>>] = "idle" /\ <<o[1], 1>> \in Calls
      BY <3>1, <3>2, CallFacts, Zenon DEF IInv, NestingInv
    <3> QED
      BY <2>1, <2>2, <3>3, Zenon
  <2> QED
    BY <2>3, <2>4, <2>5, <2>6, Zenon DEF NestingInv
<1>6. ASSUME NEW c \in Calls, Handle(c)
      PROVE  NestingInv'
  <2>1. /\ pc[c] = "drain" /\ pc' = pc /\ at' = at
        /\ records' = records /\ records_lck' = records_lck
        /\ pos' = [pos EXCEPT ![c] = @ + 1]
    BY <1>6, Zenon DEF Handle, Handled
  <2>2. \A d \in Calls : pc[d] = "nested" => pos'[d] = pos[d]
    BY <2>1, Zenon DEF IInv, TypeOK
  <2> QED
    BY <2>1, <2>2 DEF IInv, NestingInv
<1>7. ASSUME NEW c \in Calls, Relog(c)
      PROVE  NestingInv'
  <2> DEFINE n == <<c[1], 1>>
  <2>1. /\ pc[c] = "drain" /\ c[2] = 0 /\ pos[c] <= Len(records[at[c]])
        /\ pc' = [pc EXCEPT ![c] = "nested", ![n] = "format"]
        /\ at' = [at EXCEPT ![n] = 1]
        /\ records' = records /\ records_lck' = records_lck /\ pos' = pos
    BY <1>7, Zenon DEF Relog
  <2>2. n \in Calls /\ n # c /\ n[2] = 1 /\ pc[n] = "idle"
    BY <2>1, CallFacts, Zenon DEF IInv, NestingInv
  <2> HIDE DEF n
  <2>3. /\ pc'[c] = "nested" /\ pc'[n] = "format" /\ at'[c] = at[c]
        /\ \A d \in Calls : d # c /\ d # n => pc'[d] = pc[d] /\ at'[d] = at[d]
    BY <2>1, <2>2, Zenon DEF IInv, TypeOK
  <2>4. ASSUME NEW w \in Writers, NEW d \in Calls, records_lck'[w] = d
        PROVE  pc'[d] \in {"drain", "nested"} /\ at'[d] = w
    <3>1. pc[d] \in {"drain", "nested"} /\ at[d] = w
      BY <2>1, <2>4, Zenon DEF IInv, NestingInv
    <3>2. d # n
      BY <2>2, <3>1, Zenon
    <3> QED
      BY <2>3, <3>1, <3>2, Zenon
  <2>5. \A d \in Calls :
            pc'[d] \in {"drain", "nested"} => records_lck'[at'[d]] = d
    BY <2>1, <2>2, <2>3 DEF IInv, NestingInv
  <2>6. \A d \in Calls : pc'[d] = "nested" => pos'[d] <= Len(records'[at'[d]])
    BY <2>1, <2>2, <2>3 DEF IInv, NestingInv
  <2>7. ASSUME NEW o \in Calls, o[2] = 0, pc'[o] # "nested"
        PROVE  pc'[<<o[1], 1>>] = "idle"
    <3>1. o # c /\ o # n
      BY <2>2, <2>3, <2>7
    <3>2. pc[<<o[1], 1>>] = "idle" /\ <<o[1], 1>> \in Calls
      BY <2>3, <2>7, <3>1, CallFacts DEF IInv, NestingInv
    <3>3. <<o[1], 1>> # n
      BY <2>1, <2>7, <3>1, CallFacts, Zenon DEF n
    <3>4. <<o[1], 1>> # c
      <4>1. <<o[1], 1>>[2] = 1
        BY Zenon
      <4> QED
        BY <2>1, <4>1
    <3> QED
      BY <2>3, <3>2, <3>3, <3>4, Zenon
  <2> QED
    BY <2>4, <2>5, <2>6, <2>7, Zenon DEF NestingInv
<1>8. ASSUME NEW c \in Calls, RelogReturns(c)
      PROVE  NestingInv'
  <2>1. /\ pc[c] = "nested" /\ pc' = [pc EXCEPT ![c] = "drain"] /\ at' = at
        /\ pc[<<c[1], 1>>] = "idle"
        /\ records' = records /\ records_lck' = records_lck
        /\ pos' = [pos EXCEPT ![c] = @ + 1]
    BY <1>8, Zenon DEF RelogReturns, Handled
  <2>2. /\ pc'[c] = "drain"
        /\ \A d \in Calls : d # c => pc'[d] = pc[d] /\ pos'[d] = pos[d]
    BY <2>1, Zenon DEF IInv, TypeOK
  <2>3. \A d \in Calls : pc'[d] = "nested" => pos'[d] <= Len(records'[at'[d]])
    BY <2>1, <2>2, Zenon DEF IInv, NestingInv
  <2>4. ASSUME NEW o \in Calls, o[2] = 0, pc'[o] # "nested"
        PROVE  pc'[<<o[1], 1>>] = "idle"
    <3>1. <<o[1], 1>> \in Calls /\ pc[<<o[1], 1>>] = "idle"
      BY <2>1, <2>2, <2>4, CallFacts DEF IInv, NestingInv
    <3>2. <<o[1], 1>> # c
      BY <2>1, <3>1, Zenon
    <3> QED
      BY <2>2, <3>1, <3>2, Zenon
  <2>5. \A w \in Writers, d \in Calls :
            records_lck'[w] = d => pc'[d] \in {"drain", "nested"} /\ at'[d] = w
    BY <2>1, <2>2 DEF IInv, NestingInv
  <2>6. \A d \in Calls :
            pc'[d] \in {"drain", "nested"} => records_lck'[at'[d]] = d
    BY <2>1, <2>2, Zenon DEF IInv, NestingInv
  <2> QED
    BY <2>3, <2>4, <2>5, <2>6, Zenon DEF NestingInv
<1>9. ASSUME NEW c \in Calls, NEW mem \in Memory, DequeueDone(c, mem)
      PROVE  NestingInv'
  <2>1. /\ pc[c] = "drain" /\ pos' = pos
        /\ records' = [records EXCEPT ![at[c]] = <<>>]
        /\ records_lck' = [records_lck EXCEPT ![at[c]] = NULL]
    BY <1>9, Zenon DEF DequeueDone
  <2>2. /\ pc'[c] \in {"format", "idle"}
        /\ \A d \in Calls : d # c => pc'[d] = pc[d] /\ at'[d] = at[d]
    BY <1>9, AdvanceFacts, Zenon DEF DequeueDone, IInv
  <2>3. /\ at[c] \in Writers /\ records_lck[at[c]] = c
        /\ records_lck \in [Writers -> Calls \cup {NULL}]
        /\ records \in [Writers -> Seq(Records)]
    BY <2>1, Zenon DEF IInv, NestingInv, TypeOK
  <2>4. \A w \in Writers :
            w # at[c] => records_lck'[w] = records_lck[w]
                         /\ records'[w] = records[w]
    BY <2>1, <2>3, Zenon
  <2>5. ASSUME NEW w \in Writers, NEW d \in Calls, records_lck'[w] = d
        PROVE  pc'[d] \in {"drain", "nested"} /\ at'[d] = w
    <3>1. w # at[c] /\ records_lck[w] = d
      BY <2>1, <2>3, <2>4, <2>5, LoggerAssumption, Zenon DEF LoggerAssumption
    <3>2. d # c
      BY <3>1, Zenon DEF IInv, NestingInv
    <3> QED
      BY <2>2, <3>1, <3>2 DEF IInv, NestingInv
  <2>6. ASSUME NEW d \in Calls, pc'[d] \in {"drain", "nested"}
        PROVE  /\ records_lck'[at'[d]] = d /\ d # c
               /\ at'[d] # at[c] /\ at'[d] = at[d] /\ at[d] \in Writers
    <3>1. d # c
      BY <2>2, <2>6, Zenon
    <3>2. records_lck[at[d]] = d /\ at[d] \in Writers /\ at'[d] = at[d]
      BY <2>2, <2>6, <3>1 DEF IInv, NestingInv, TypeOK
    <3>3. at[d] # at[c]
      BY <2>3, <3>1, <3>2, Zenon
    <3> QED
      BY <2>4, <3>1, <3>2, <3>3, Zenon
  <2>7. ASSUME NEW d \in Calls, pc'[d] = "nested"
        PROVE  pos'[d] <= Len(records'[at'[d]])
    BY <2>1, <2>2, <2>4, <2>6, <2>7 DEF IInv, NestingInv
  <2>8. ASSUME NEW o \in Calls, o[2] = 0, pc'[o] # "nested"
        PROVE  pc'[<<o[1], 1>>] = "idle"
    <3>1. <<o[1], 1>> \in Calls /\ pc[<<o[1], 1>>] = "idle"
      BY <2>1, <2>2, <2>8, CallFacts DEF IInv, NestingInv
    <3>2. <<o[1], 1>> # c
      BY <2>1, <3>1, Zenon
    <3> QED
      BY <2>2, <3>1, <3>2, Zenon
  <2> QED
    BY <2>5, <2>6, <2>7, <2>8, Zenon DEF NestingInv
<1> QED
  BY <1>0, <1>1, <1>2, <1>3, <1>4, <1>5, <1>6, <1>7, <1>8, <1>9, Zenon
     DEF Next, CallStep

\* A step that moves no call to or from a queue, and neither fills an empty
\* queue nor empties one, leaves the signalling alone.
LEMMA QuietSignals ==
    ASSUME IInv,
           \A d \in Calls, w \in Writers : Signals(d, w)' <=> Signals(d, w),
           \A w \in Writers : records'[w] = <<>> <=> records[w] = <<>>
    PROVE  OneSignaller'
<1>1. OneSignaller
  BY Zenon DEF IInv
<1>2. ASSUME NEW w \in Writers
      PROVE  /\ \A c, d \in Calls : Signals(c, w)' /\ Signals(d, w)' => c = d
             /\ (\E c \in Calls : Signals(c, w)') => records'[w] # <<>>
             /\ RecordFn[w] # "off" /\ records'[w] # <<>>
                   => \E c \in Calls : Signals(c, w)'
  BY <1>1, Zenon DEF OneSignaller
<1> QED
  BY <1>2, Zenon DEF OneSignaller

\* A call that is at no queue, before and after, signals nobody.
LEMMA AwayFromQueue ==
    ASSUME NEW c \in Calls, \A d \in Calls : d # c =>
               pc'[d] = pc[d] /\ at'[d] = at[d],
           pc[c] \notin {"signal", "drain", "nested"},
           pc'[c] \notin {"signal", "drain", "nested"}
    PROVE  \A d \in Calls, w \in Writers : Signals(d, w)' <=> Signals(d, w)
BY Zenon DEF Signals

\* The call that finds its record alone in the queue becomes the signaller;
\* it stays the only one until its drain has emptied the queue.
LEMMA SignalStep ==
    ASSUME IInv, [Next]_vars
    PROVE  OneSignaller'
<1>0. CASE UNCHANGED vars
  BY <1>0 DEF IInv, OneSignaller, Signals, vars
<1>1. ASSUME NEW t \in Threads, NEW type \in Types, Log(t, type)
      PROVE  OneSignaller'
  <2>1. <<t, 0>> \in Calls
    BY Zenon DEF Calls
  <2>2. /\ pc[<<t, 0>>] = "idle" /\ pc'[<<t, 0>>] = "format"
        /\ \A d \in Calls : d # <<t, 0>> => pc'[d] = pc[d] /\ at'[d] = at[d]
        /\ records' = records
    BY <1>1, <2>1, Zenon DEF Log, IInv, TypeOK
  <2> QED
    BY <2>1, <2>2, AwayFromQueue, QuietSignals, Zenon
<1>2. ASSUME NEW c \in Calls, FormatDeclines(c)
      PROVE  OneSignaller'
  <2>1. /\ pc[c] = "format" /\ pc'[c] \in {"format", "idle"}
        /\ \A d \in Calls : d # c => pc'[d] = pc[d] /\ at'[d] = at[d]
        /\ records' = records
    BY <1>2, AdvanceFacts, Zenon DEF FormatDeclines, IInv
  <2> QED
    BY <2>1, AwayFromQueue, QuietSignals, Zenon
<1>3. ASSUME NEW c \in Calls, Format(c) \/ QueueFull(c) \/ Wake(c)
      PROVE  OneSignaller'
  <2>1. /\ pc[c] \in {"format", "enqueue", "sleep"}
        /\ pc'[c] \in {"enqueue", "sleep"}
        /\ \A d \in Calls : d # c => pc'[d] = pc[d] /\ at'[d] = at[d]
        /\ records' = records
    BY <1>3, Zenon DEF Format, QueueFull, Wake, IInv, TypeOK
  <2> QED
    BY <2>1, AwayFromQueue, QuietSignals, Zenon
<1>4. ASSUME NEW c \in Calls, NEW mem \in Memory, Enqueue(c, mem)
      PROVE  OneSignaller'
  <2>0. PICK w \in Writers : w = at[c]
    BY Zenon DEF IInv, TypeOK
  <2>1. /\ pc[c] = "enqueue" /\ w = at[c] /\ rec[c] \in Records
        /\ records \in [Writers -> Seq(Records)]
        /\ records[w] \in Seq(Records)
        /\ allocation[w] \in Nat /\ allocation[w] > 1
    BY <1>4, <2>0, Zenon DEF Enqueue, IInv, TypeOK
  <2>2. \/ records' = records /\ Len(records[w]) = allocation[w]
        \/ records' = [records EXCEPT ![w] = <<rec[c]>> \o records[w]]
    BY <1>4, <2>0, Zenon DEF Enqueue
  <2>3. \/ Len(records'[w]) = 1 /\ pc' = [pc EXCEPT ![c] = "signal"] /\ at' = at
        \/ Len(records'[w]) # 1 /\ Advance(c)
    BY <1>4, <2>0, Zenon DEF Enqueue
  <2>4. \A v \in Writers : v # w => records'[v] = records[v]
    BY <2>1, <2>2, Zenon
  <2>5. Len(records[w]) \in Nat /\ (Len(records[w]) = 0 <=> records[w] = <<>>)
    BY <2>1
  <2>6. CASE records[w] = <<>>
    <3>1. records'[w] = <<rec[c]>> \o records[w]
      BY <2>1, <2>2, <2>5, <2>6
    <3>2. Len(records'[w]) = 1 /\ records'[w] # <<>>
      BY <2>1, <2>6, <3>1, PushFacts
    <3>3. /\ pc'[c] = "signal" /\ at'[c] = w
          /\ \A d \in Calls : d # c => pc'[d] = pc[d] /\ at'[d] = at[d]
      BY <2>1, <2>3, <3>2, Zenon DEF IInv, TypeOK
    <3>4. \A d \in Calls : ~Signals(d, w)
      BY <2>1, <2>6, Zenon DEF IInv, OneSignaller
    <3>5. \A d \in Calls : Signals(d, w)' <=> d = c
      BY <3>3, <3>4, Zenon DEF Signals
    <3>6. \A d \in Calls, v \in Writers \ {w} : Signals(d, v)' <=> Signals(d, v)
      BY <2>1, <3>3, Zenon DEF Signals
    <3>7. ASSUME NEW v \in Writers \ {w}
          PROVE  /\ \A d, e \in Calls : Signals(d, v)' /\ Signals(e, v)' => d = e
                 /\ (\E d \in Calls : Signals(d, v)') => records'[v] # <<>>
                 /\ RecordFn[v] # "off" /\ records'[v] # <<>>
                       => \E d \in Calls : Signals(d, v)'
      BY <2>4, <3>6, Zenon DEF IInv, OneSignaller
    <3>8. /\ \A d, e \in Calls : Signals(d, w)' /\ Signals(e, w)' => d = e
          /\ \E d \in Calls : Signals(d, w)'
      BY <3>5, Zenon
    <3> QED
      BY <3>2, <3>7, <3>8, Zenon DEF OneSignaller
  <2>7. CASE records[w] # <<>>
    <3>1. Len(records[w]) > 0
      BY <2>5, <2>7
    <3>2. Len(records'[w]) # 1 /\ records'[w] # <<>>
      <4>1. CASE records' = records /\ Len(records[w]) = allocation[w]
        BY <2>1, <2>7, <4>1
      <4>2. CASE records' = [records EXCEPT ![w] = <<rec[c]>> \o records[w]]
        BY <2>1, <2>7, <4>2, PushFacts, Zenon
      <4> QED
        BY <2>2, <4>1, <4>2, Zenon
    <3>3. /\ pc'[c] \in {"format", "idle"}
          /\ \A d \in Calls : d # c => pc'[d] = pc[d] /\ at'[d] = at[d]
      BY <2>3, <3>2, AdvanceFacts, Zenon DEF IInv
    <3>4. \A d \in Calls, v \in Writers : Signals(d, v)' <=> Signals(d, v)
      BY <2>1, <3>3, AwayFromQueue, Zenon
    <3>5. \A v \in Writers : records'[v] = <<>> <=> records[v] = <<>>
      BY <2>4, <2>7, <3>2, Zenon
    <3> QED
      BY <3>4, <3>5, QuietSignals, Zenon
  <2> QED
    BY <2>6, <2>7, Zenon
<1>5. ASSUME NEW c \in Calls, SignalIgnored(c)
      PROVE  OneSignaller'
  <2>1. /\ pc[c] = "signal" /\ RecordFn[at[c]] = "off" /\ records' = records
        /\ pc'[c] \in {"format", "idle"}
        /\ \A d \in Calls : d # c => pc'[d] = pc[d] /\ at'[d] = at[d]
    BY <1>5, AdvanceFacts, Zenon DEF SignalIgnored, IInv
  <2>2. \A d \in Calls, w \in Writers : Signals(d, w)' => Signals(d, w)
    BY <2>1, Zenon DEF Signals
  <2>3. \A d \in Calls, w \in Writers :
            RecordFn[w] # "off" => (Signals(d, w)' <=> Signals(d, w))
    BY <2>1, Zenon DEF Signals
  <2> QED
    BY <2>1, <2>2, <2>3, Zenon DEF IInv, OneSignaller
<1>6. ASSUME NEW c \in Calls, Dequeue(c) \/ Handle(c) \/ RelogReturns(c)
      PROVE  OneSignaller'
  <2>1. /\ pc[c] \in {"signal", "drain", "nested"} /\ pc'[c] = "drain"
        /\ \A d \in Calls : d # c => pc'[d] = pc[d]
        /\ at' = at /\ records' = records
    BY <1>6, Zenon DEF Dequeue, Handle, RelogReturns, IInv, TypeOK
  <2>2. \A d \in Calls, w \in Writers : Signals(d, w)' <=> Signals(d, w)
    BY <2>1, Zenon DEF Signals
  <2> QED
    BY <2>1, <2>2, QuietSignals, Zenon
<1>7. ASSUME NEW c \in Calls, Relog(c)
      PROVE  OneSignaller'
  <2> DEFINE n == <<c[1], 1>>
  <2>1. n \in Calls /\ n # c /\ pc[c] = "drain" /\ pc[n] = "idle"
    BY <1>7, CallFacts, Zenon DEF Relog, IInv, NestingInv
  <2>2. /\ pc'[c] = "nested" /\ pc'[n] = "format" /\ at'[c] = at[c]
        /\ \A d \in Calls : d # c /\ d # n => pc'[d] = pc[d] /\ at'[d] = at[d]
        /\ records' = records
    BY <1>7, <2>1, Zenon DEF Relog, IInv, TypeOK
  <2> HIDE DEF n
  <2>3. \A d \in Calls, w \in Writers : Signals(d, w)' <=> Signals(d, w)
    BY <2>1, <2>2, Zenon DEF Signals
  <2> QED
    BY <2>2, <2>3, QuietSignals, Zenon
<1>8. ASSUME NEW c \in Calls, NEW mem \in Memory, DequeueDone(c, mem)
      PROVE  OneSignaller'
  <2>1. /\ pc[c] = "drain" /\ at[c] \in Writers
        /\ records' = [records EXCEPT ![at[c]] = <<>>]
        /\ records \in [Writers -> Seq(Records)]
    BY <1>8, Zenon DEF DequeueDone, IInv, TypeOK
  <2>2. /\ pc'[c] \in {"format", "idle"}
        /\ \A d \in Calls : d # c => pc'[d] = pc[d] /\ at'[d] = at[d]
    BY <1>8, AdvanceFacts, Zenon DEF DequeueDone, IInv
  <2>3. \A d \in Calls : Signals(d, at[c]) => d = c
    BY <2>1 DEF IInv, OneSignaller, Signals
  <2>0. PICK w \in Writers : w = at[c]
    BY <2>1, Zenon
  <2>4. \A d \in Calls : ~(pc'[d] \in {"signal", "drain", "nested"} /\ at'[d] = w)
    BY <2>0, <2>2, <2>3, Zenon DEF Signals
  <2>5. \A v \in Writers : v # w => records'[v] = records[v]
    BY <2>0, <2>1, Zenon
  <2>6. records'[w] = <<>>
    BY <2>0, <2>1, Zenon
  <2>7. \A d \in Calls, v \in Writers :
            v # w => (Signals(d, v)' <=> Signals(d, v))
    BY <2>0, <2>1, <2>2, Zenon DEF Signals
  <2>8. \A d \in Calls : ~Signals(d, w)'
    BY <2>4, Zenon DEF Signals
  <2>9. ASSUME NEW v \in Writers
        PROVE  /\ \A d, e \in Calls : Signals(d, v)' /\ Signals(e, v)' => d = e
               /\ (\E d \in Calls : Signals(d, v)') => records'[v] # <<>>
               /\ RecordFn[v] # "off" /\ records'[v] # <<>>
                     => \E d \in Calls : Signals(d, v)'
    BY <2>5, <2>6, <2>7, <2>8 DEF IInv, OneSignaller
  <2> QED
    BY <2>9, Zenon DEF OneSignaller
<1> QED
  BY <1>0, <1>1, <1>2, <1>3, <1>4, <1>5, <1>6, <1>7, <1>8, Zenon DEF Next, CallStep

\* A record is queued only under the lock and below the depth.
LEMMA DepthStep ==
    ASSUME IInv, [Next]_vars
    PROVE  DepthBounded'
<1>1. ASSUME NEW c \in Calls, NEW mem \in Memory, Enqueue(c, mem)
      PROVE  DepthBounded'
  <2>1. /\ at[c] \in Writers /\ rec[c] \in Records
        /\ records \in [Writers -> Seq(Records)]
        /\ Len(records[at[c]]) < MAX_QUEUE_DEPTH
    BY <1>1, Zenon DEF Enqueue, IInv, TypeOK
  <2>2. \/ records' = records
        \/ records' = [records EXCEPT ![at[c]] = <<rec[c]>> \o records[at[c]]]
    BY <1>1, Zenon DEF Enqueue
  <2>3. Len(<<rec[c]>> \o records[at[c]]) = Len(records[at[c]]) + 1
    BY <2>1, PushFacts, Zenon
  <2>4. Len(records[at[c]]) \in Nat
    BY <2>1
  <2>5. Len(<<rec[c]>> \o records[at[c]]) <= MAX_QUEUE_DEPTH
    BY <2>1, <2>3, <2>4, LoggerAssumption DEF LoggerAssumption
  <2> QED
    BY <2>1, <2>2, <2>5, Zenon DEF DepthBounded, IInv
<1>2. ASSUME NEW c \in Calls, NEW mem \in Memory, DequeueDone(c, mem)
      PROVE  DepthBounded'
  <2>1. /\ records' = [records EXCEPT ![at[c]] = <<>>]
        /\ records \in [Writers -> Seq(Records)]
    BY <1>2, Zenon DEF DequeueDone, IInv, TypeOK
  <2>2. Len(<<>>) <= MAX_QUEUE_DEPTH
    BY LoggerAssumption DEF LoggerAssumption
  <2> QED
    BY <2>1, <2>2, Zenon DEF DepthBounded, IInv
<1>3. CASE records' = records
  BY <1>3, Zenon DEF DepthBounded, IInv
<1> QED
  BY <1>1, <1>2, <1>3, Zenon
     DEF Next, vars, CallStep, Log, FormatDeclines, Format, QueueFull, Wake,
         SignalIgnored, Dequeue, Handle, Relog, RelogReturns

LEMMA InductiveStep ==
    ASSUME IInv, [Next]_vars
    PROVE  IInv'
BY TypeStep, MiscStep, NestingStep, SignalStep, DepthStep, Zenon DEF IInv

\* The inductive invariant of the logger holds in every reachable state.
THEOREM Inductive == Spec => []IInv
<1>1. ASSUME IInv, [Next]_vars
      PROVE  IInv'
  BY <1>1, InductiveStep, Zenon
<1> QED
  BY <1>1, InitIInv, PTL DEF Spec

\* No wake-up of a writer is lost and none is doubled, for any number of
\* threads and writers: logger_write decides to signal under the lock and
\* signals after it has released it.
THEOREM NoLostWakeup == Spec => []OneSignaller
<1>1. IInv => OneSignaller
  BY Zenon DEF IInv
<1> QED
  BY <1>1, Inductive, PTL

\* No queue of a writer grows beyond MAX_QUEUE_DEPTH, however many threads
\* wait for a place in it.
THEOREM DepthIsBounded == Spec => []DepthBounded
<1>1. IInv => DepthBounded
  BY Zenon DEF IInv
<1> QED
  BY <1>1, Inductive, PTL

\* The variables of the logger keep their types.
THEOREM TypeCorrect == Spec => []TypeOK
<1>1. IInv => TypeOK
  BY Zenon DEF IInv
<1> QED
  BY <1>1, Inductive, PTL
-----------------------------------------------------------------------------
\* The second argument: no record is written twice.  A record is under way
\* in a call or with a writer; a call that has not come to a writer's queue
\* logs a record that writer does not have; and a record that is logged
\* again was handed on by the one writer that logs records again, once.

\* At most one of the writers logs its records again.  (Two of them would
\* both log a transaction record again, and the error log would get it
\* twice.)
OneRelogger ==
    \A v, w \in Writers : RecordFn[v] = "relog" /\ RecordFn[w] = "relog" => v = w

Active(c) == pc[c] # "idle"

\* Call c has not queued its record at writer w, and may still do so.
Ahead(c, w) ==
    /\ Active(c)
    /\ \/ at[c] < w
       \/ at[c] = w /\ pc[c] \in {"format", "enqueue", "sleep"}

Drains(c, w) == pc[c] \in {"drain", "nested"} /\ at[c] = w

\* Writer w has or had record r.
Stored(r, w) == r \in Range(records[w]) \/ r \in Range(written[w])

\* Record r has been logged.
Held(r) ==
    \/ \E c \in Calls : Active(c) /\ rec[c] = r
    \/ \E w \in Writers : Stored(r, w)

\* e is what is logged when r is logged again.
Twin(e, r) ==
    /\ e.thread = r.thread /\ e.n = r.n
    /\ e.type = ERRORLOG /\ r.type = TXLOG

\* Record r has been logged again, or is being logged again.
Passed(r) ==
    \E w \in Writers :
        /\ RecordFn[w] = "relog"
        /\ \/ r \in Range(written[w])
           \/ \E c \in Calls : /\ pc[c] = "nested" /\ at[c] = w
                               /\ records[w][pos[c]] = r

HeldIsOld == \A r \in Records : Held(r) => r.n <= logged[r.thread]

TwinIsPassed ==
    \A e, r \in Records : Held(e) /\ Held(r) /\ Twin(e, r) => Passed(r)

RecsApart ==
    \A c, d \in Calls : Active(c) /\ Active(d) /\ rec[c] = rec[d] => c = d

AheadIsNew ==
    \A c \in Calls, w \in Writers : Ahead(c, w) => ~Stored(rec[c], w)

QueueOnce ==
    \A w \in Writers :
        /\ IsInjective(records[w]) /\ IsInjective(written[w])
        /\ \A j \in DOMAIN records[w] : records[w][j] \in Range(written[w]) =>
               \E c \in Calls : Drains(c, w) /\ j < pos[c]

TakenTypes ==
    /\ \A w \in Writers : \A r \in Records : Stored(r, w) => r.type \in Accepts[w]
    /\ \A c \in Calls :
          pc[c] \in {"enqueue", "sleep"} => rec[c].type \in Accepts[at[c]]

\* The inductive invariant behind WrittenOnce.
WInv ==
    /\ IInv
    /\ HeldIsOld
    /\ TwinIsPassed
    /\ RecsApart
    /\ AheadIsNew
    /\ QueueOnce
    /\ TakenTypes

\* What putting a record in front of a queue, and behind what was written,
\* does to the records in them.
LEMMA PushRange ==
    ASSUME NEW s \in Seq(Records), NEW r \in Records, NEW q, q = <<r>> \o s
    PROVE  /\ q \in Seq(Records) /\ Range(q) = Range(s) \cup {r}
           /\ IsInjective(s) /\ r \notin Range(s) => IsInjective(q)
<1>1. <<r>> \in Seq(Records) /\ Len(<<r>>) = 1 /\ Len(s) \in Nat /\ <<r>>[1] = r
  OBVIOUS
<1>2. q \in Seq(Records) /\ Len(q) = Len(s) + 1
  BY <1>1
<1>3. q[1] = r /\ \A i \in 2..(Len(s) + 1) : q[i] = s[i - 1]
  BY <1>1
<1>4. DOMAIN q = 1..(Len(s) + 1) /\ DOMAIN s = 1..Len(s)
  BY <1>2
<1>5. \A i \in DOMAIN s : i + 1 \in DOMAIN q /\ q[i + 1] = s[i]
  BY <1>1, <1>3, <1>4
<1>6. \A i \in DOMAIN q : i = 1 \/ i - 1 \in DOMAIN s
  BY <1>1, <1>4
<1>7. Range(q) = Range(s) \cup {r}
  <2>1. Range(q) \subseteq Range(s) \cup {r}
    BY <1>1, <1>3, <1>4, <1>6 DEF Range
  <2>2. r \in Range(q)
    BY <1>1, <1>3, <1>4 DEF Range
  <2>3. Range(s) \subseteq Range(q)
    BY <1>5, Zenon DEF Range
  <2> QED
    BY <2>1, <2>2, <2>3, Zenon
<1>8. ASSUME IsInjective(s), r \notin Range(s) PROVE IsInjective(q)
  <2>1. \A i \in DOMAIN s : s[i] # r
    BY <1>8, Zenon DEF Range
  <2>2. SUFFICES ASSUME NEW i \in DOMAIN q, NEW j \in DOMAIN q, q[i] = q[j]
                 PROVE  i = j
    BY Zenon DEF IsInjective
  <2>3. CASE i = 1 \/ j = 1
    BY <1>1, <1>3, <1>4, <1>6, <2>1, <2>2, <2>3
  <2>4. CASE i # 1 /\ j # 1
    <3>1. i - 1 \in DOMAIN s /\ j - 1 \in DOMAIN s
      BY <1>6, <2>4, Zenon
    <3>2. s[i - 1] = s[j - 1]
      BY <1>1, <1>3, <1>4, <2>2, <2>4
    <3>3. i - 1 = j - 1
      BY <1>8, <3>1, <3>2, Zenon DEF IsInjective
    <3> QED
      BY <1>1, <1>4, <3>3
  <2> QED
    BY <2>3, <2>4, Zenon
<1> QED
  BY <1>2, <1>7, <1>8, Zenon

LEMMA AppendRange ==
    ASSUME NEW s \in Seq(Records), NEW r \in Records, NEW q, q = Append(s, r)
    PROVE  /\ q \in Seq(Records) /\ Range(q) = Range(s) \cup {r}
           /\ IsInjective(s) /\ r \notin Range(s) => IsInjective(q)
<1>1. /\ q \in Seq(Records) /\ Len(q) = Len(s) + 1 /\ Len(s) \in Nat
      /\ q[Len(s) + 1] = r
  OBVIOUS
<1>2. \A i \in 1..Len(s) : q[i] = s[i]
  OBVIOUS
<1>3. DOMAIN q = 1..(Len(s) + 1) /\ DOMAIN s = 1..Len(s)
  BY <1>1
<1>4. Range(q) = Range(s) \cup {r}
  BY <1>1, <1>2, <1>3 DEF Range
<1>5. ASSUME IsInjective(s), r \notin Range(s) PROVE IsInjective(q)
  <2>1. \A i \in DOMAIN s : s[i] # r
    BY <1>5, Zenon DEF Range
  <2> QED
    BY <1>1, <1>2, <1>3, <1>5, <2>1 DEF IsInjective
<1> QED
  BY <1>1, <1>4, <1>5, Zenon

LEMMA EmptyRange == Range(<<>>) = {} /\ IsInjective(<<>>)
BY DEF Range, IsInjective

\* A step that logs no new record keeps the ages, the twins and the calls'
\* records apart.
LEMMA NothingNew ==
    ASSUME WInv, rec' = rec, logged' = logged,
           \A c \in Calls : Active(c)' => Active(c),
           \A r \in Records, w \in Writers : Stored(r, w)' => Held(r),
           \A r \in Records : Passed(r) => Passed(r)'
    PROVE  HeldIsOld' /\ TwinIsPassed' /\ RecsApart'
<1>1. \A r \in Records : Held(r)' => Held(r)
  BY Zenon DEF Held
<1>2. HeldIsOld'
  BY <1>1, Zenon DEF WInv, HeldIsOld
<1>3. TwinIsPassed'
  BY <1>1, Zenon DEF WInv, TwinIsPassed
<1>4. RecsApart'
  BY Zenon DEF WInv, RecsApart
<1> QED
  BY <1>2, <1>3, <1>4, Zenon

\* Leaving a writer brings a call to no queue it had come to before.
LEMMA AdvanceAhead ==
    ASSUME TypeOK, NEW c \in Calls, Active(c), Advance(c)
    PROVE  \A w \in Writers : Ahead(c, w)' => Ahead(c, w)
<1>1. at[c] \in Nat /\ \A w \in Writers : w \in Nat
  BY LoggerAssumption DEF LoggerAssumption, TypeOK, Writers
<1>2. \/ pc'[c] = "idle"
      \/ pc'[c] = "format" /\ at'[c] = at[c] + 1
  BY Zenon DEF Advance, TypeOK
<1> QED
  BY <1>1, <1>2 DEF Ahead, Active

\* A call moves between the queues.
LEMMA MoveOnce ==
    ASSUME WInv, NEW c \in Calls, rec' = rec, records' = records,
           written' = written, logged' = logged,
           \A d \in Calls : d # c =>
               pc'[d] = pc[d] /\ at'[d] = at[d] /\ pos'[d] = pos[d],
           pc[c] \notin {"idle", "drain", "nested"},
           \A w \in Writers : Ahead(c, w)' => Ahead(c, w),
           pc'[c] \in {"enqueue", "sleep"} => rec[c].type \in Accepts[at'[c]]
    PROVE  /\ HeldIsOld' /\ TwinIsPassed' /\ RecsApart'
           /\ AheadIsNew' /\ QueueOnce' /\ TakenTypes'
<1>1. \A r, w : Stored(r, w)' <=> Stored(r, w)
  BY Zenon DEF Stored
<1>2. \A r \in Records : Passed(r) => Passed(r)'
  BY DEF Passed
<1>3. HeldIsOld' /\ TwinIsPassed' /\ RecsApart'
  <2>1. \A d \in Calls : Active(d)' => Active(d)
    BY Zenon DEF Active
  <2>2. \A r \in Records, w \in Writers : Stored(r, w)' => Held(r)
    BY <1>1, Zenon DEF Held
  <2> QED
    BY <1>2, <2>1, <2>2, NothingNew, Zenon
<1>4. AheadIsNew'
  <2>1. \A d \in Calls, w \in Writers : Ahead(d, w)' => Ahead(d, w)
    BY Zenon DEF Ahead, Active
  <2> QED
    BY <1>1, <2>1, Zenon DEF WInv, AheadIsNew
<1>5. QueueOnce'
  <2>1. \A d \in Calls, w \in Writers : Drains(d, w) => Drains(d, w)' /\ pos'[d] = pos[d]
    BY Zenon DEF Drains
  <2>2. ASSUME NEW w \in Writers, NEW j \in DOMAIN records[w],
               records[w][j] \in Range(written[w])
        PROVE  \E d \in Calls : Drains(d, w)' /\ j < pos'[d]
    <3>1. PICK d \in Calls : Drains(d, w) /\ j < pos[d]
      BY <2>2, Zenon DEF WInv, QueueOnce
    <3> QED
      BY <2>1, <3>1, Zenon
  <2> QED
    BY <2>2, Zenon DEF WInv, QueueOnce
<1>6. TakenTypes'
  BY <1>1, Zenon DEF WInv, TakenTypes
<1> QED
  BY <1>3, <1>4, <1>5, <1>6, Zenon

\* A thread logs a record: it has the next number.
LEMMA LogOnce ==
    ASSUME WInv, NEW t \in Threads, NEW type \in Types, Log(t, type)
    PROVE  /\ HeldIsOld' /\ TwinIsPassed' /\ RecsApart'
           /\ AheadIsNew' /\ QueueOnce' /\ TakenTypes'
<1>c. PICK c : c = <<t, 0>>
  BY Zenon
<1>x. PICK x : x = [thread |-> t, n |-> logged[t] + 1, type |-> type]
  BY Zenon
<1>0. /\ rec' = [rec EXCEPT ![c] = x] /\ pc' = [pc EXCEPT ![c] = "format"]
      /\ at' = [at EXCEPT ![c] = 1] /\ logged' = [logged EXCEPT ![t] = @ + 1]
  BY <1>c, <1>x, Zenon DEF Log
<1>1. /\ c \in Calls /\ pc[c] = "idle" /\ TypeOK
      /\ x.thread = t /\ x.n = logged[t] + 1
  BY <1>c, <1>x, Zenon DEF Calls, Log, WInv, IInv
<1>2. /\ pos' = pos /\ records' = records /\ written' = written
      /\ logged[t] < MaxLogs
  BY Zenon DEF Log
<1>3. x \in Records
  <2>1. logged[t] + 1 \in 1..MaxLogs
    BY <1>1, <1>2, LoggerAssumption DEF LoggerAssumption, TypeOK
  <2> QED
    BY <1>x, <2>1, Zenon DEF Records
<1>4. /\ rec'[c] = x /\ pc'[c] = "format" /\ at'[c] = 1
      /\ \A d \in Calls : d # c => rec'[d] = rec[d] /\ pc'[d] = pc[d] /\ at'[d] = at[d]
  BY <1>0, <1>1, Zenon DEF TypeOK
<1>5. \A u \in Threads : /\ logged[u] \in Nat /\ logged'[u] \in Nat
                         /\ logged[u] <= logged'[u]
  <2>1. \A u \in Threads : logged[u] \in Nat
    BY <1>1, LoggerAssumption DEF TypeOK, LoggerAssumption
  <2> QED
    BY <1>0, <1>1, <2>1 DEF TypeOK
<1>6. logged'[t] = logged[t] + 1
  BY <1>0, <1>1, Zenon DEF TypeOK
<1>7. \A r \in Records : r.thread \in Threads /\ r.n \in Nat
  BY LoggerAssumption DEF Records, LoggerAssumption
<1>8. \A r \in Records : Held(r) => r.thread # t \/ r.n # logged[t] + 1
  <2> SUFFICES ASSUME NEW r \in Records, Held(r), r.thread = t, r.n = logged[t] + 1
               PROVE  FALSE
    BY Zenon
  <2>1. r.n <= logged[t]
    BY Zenon DEF WInv, HeldIsOld
  <2> QED
    BY <1>5, <2>1
<1>9. \A r, w : Stored(r, w)' <=> Stored(r, w)
  BY <1>2, Zenon DEF Stored
<1>10. \A r \in Records : Held(r)' => Held(r) \/ r = x
  BY <1>4, <1>9, Zenon DEF Held, Active
<1>11. HeldIsOld'
  <2> SUFFICES ASSUME NEW r \in Records, Held(r)'
               PROVE  r.n <= logged'[r.thread]
    BY Zenon DEF HeldIsOld
  <2>1. CASE r = x
    BY <1>1, <1>5, <1>6, <2>1
  <2>2. CASE Held(r)
    <3>1. r.n <= logged[r.thread]
      BY <2>2, Zenon DEF WInv, HeldIsOld
    <3> QED
      BY <1>5, <1>7, <3>1
  <2> QED
    BY <1>10, <2>1, <2>2, Zenon
<1>12. TwinIsPassed'
  <2> SUFFICES ASSUME NEW e \in Records, NEW r \in Records, Held(e)', Held(r)', Twin(e, r)
               PROVE  Passed(r)'
    BY Zenon DEF TwinIsPassed
  <2>1. Held(e) /\ Held(r)
    BY <1>1, <1>8, <1>10, Zenon DEF Twin, ERRORLOG, TXLOG
  <2>2. Passed(r)
    BY <2>1, Zenon DEF WInv, TwinIsPassed
  <2> QED
    BY <1>1, <1>2, <1>4, <2>2 DEF Passed
<1>13. RecsApart'
  <2>1. \A d \in Calls : d # c /\ Active(d) => rec[d] # x
    <3> SUFFICES ASSUME NEW d \in Calls, Active(d), rec[d] = x PROVE FALSE
      BY Zenon
    <3>1. Held(x)
      BY Zenon DEF Held
    <3> QED
      BY <1>1, <1>3, <1>8, <3>1, Zenon
  <2>2. \A d \in Calls : d # c => (Active(d)' <=> Active(d))
    BY <1>4, Zenon DEF Active
  <2> QED
    BY <1>4, <2>1, <2>2, Zenon DEF WInv, RecsApart
<1>14. AheadIsNew'
  <2> SUFFICES ASSUME NEW d \in Calls, NEW w \in Writers, Ahead(d, w)'
               PROVE  ~Stored(rec'[d], w)
    BY <1>9, Zenon DEF AheadIsNew
  <2>1. CASE d = c
    <3>1. ~Held(x)
      BY <1>1, <1>3, <1>8, Zenon
    <3> QED
      BY <1>4, <2>1, <3>1, Zenon DEF Held
  <2>2. CASE d # c
    <3>1. Ahead(d, w)
      BY <1>4, <2>2, Zenon DEF Ahead, Active
    <3> QED
      BY <1>4, <2>2, <3>1, Zenon DEF WInv, AheadIsNew
  <2> QED
    BY <2>1, <2>2, Zenon
<1>15. QueueOnce'
  <2>1. \A d \in Calls, w \in Writers : Drains(d, w) => Drains(d, w)' /\ pos'[d] = pos[d]
    BY <1>1, <1>2, <1>4, Zenon DEF Drains
  <2>2. ASSUME NEW w \in Writers, NEW j \in DOMAIN records[w],
               records[w][j] \in Range(written[w])
        PROVE  \E d \in Calls : Drains(d, w)' /\ j < pos'[d]
    <3>1. PICK d \in Calls : Drains(d, w) /\ j < pos[d]
      BY <2>2, Zenon DEF WInv, QueueOnce
    <3> QED
      BY <2>1, <3>1, Zenon
  <2> QED
    BY <1>2, <2>2, Zenon DEF WInv, QueueOnce
<1>16. TakenTypes'
  BY <1>4, <1>9, Zenon DEF WInv, TakenTypes
<1> QED
  BY <1>11, <1>12, <1>13, <1>14, <1>15, <1>16, Zenon

\* The record goes to the front of a queue that nobody drains.
Pushes(x, w, q) ==
    q = <<x>> \o records[w] /\ records' = [records EXCEPT ![w] = q]

LEMMA PushOnce ==
    ASSUME WInv, NEW c \in Calls, NEW w \in Writers, w = at[c],
           NEW x, x = rec[c], NEW q, Pushes(x, w, q),
           pc[c] = "enqueue", records_lck[w] = NULL, rec' = rec, pos' = pos, written' = written, logged' = logged,
           \A d \in Calls : d # c => pc'[d] = pc[d] /\ at'[d] = at[d],
           pc'[c] \notin {"enqueue", "sleep"},
           ~Ahead(c, w)', \A v \in Writers : Ahead(c, v)' => Ahead(c, v)
    PROVE  /\ HeldIsOld' /\ TwinIsPassed' /\ RecsApart'
           /\ AheadIsNew' /\ QueueOnce' /\ TakenTypes'
<1>1. /\ TypeOK /\ x \in Records /\ Active(c) /\ records[w] \in Seq(Records)
      /\ x.type \in Accepts[w]
  BY Zenon DEF WInv, IInv, TypeOK, Active, TakenTypes
<1>2. ~Stored(x, w)
  <2>1. Ahead(c, w)
    BY <1>1, Zenon DEF Ahead
  <2> QED
    BY <2>1, Zenon DEF WInv, AheadIsNew
<1>3. q \in Seq(Records) /\ Range(q) = Range(records[w]) \cup {x} /\ IsInjective(q)
  <2>1. x \notin Range(records[w]) /\ IsInjective(records[w])
    BY <1>2, Zenon DEF Stored, WInv, QueueOnce
  <2> QED
    BY <1>1, <2>1, PushRange, Zenon DEF Pushes
<1>4. records'[w] = q /\ \A v \in Writers : v # w => records'[v] = records[v]
  BY <1>1, Zenon DEF TypeOK, Pushes
<1>5. \A r : \A v \in Writers : Stored(r, v)' <=> Stored(r, v) \/ (v = w /\ r = x)
  BY <1>3, <1>4, Zenon DEF Stored
<1>6. \A d \in Calls : ~Drains(d, w)
  BY LoggerAssumption DEF WInv, IInv, NestingInv, Drains, LoggerAssumption
<1>7. \A r \in Records : Passed(r) => Passed(r)'
  <2> SUFFICES ASSUME NEW r \in Records, Passed(r) PROVE Passed(r)'
    BY Zenon
  <2>1. PICK v \in Writers :
            /\ RecordFn[v] = "relog"
            /\ \/ r \in Range(written[v])
               \/ \E d \in Calls : /\ pc[d] = "nested" /\ at[d] = v
                                   /\ records[v][pos[d]] = r
    BY Zenon DEF Passed
  <2>2. CASE r \in Range(written[v])
    BY <2>1, <2>2, Zenon DEF Passed
  <2>3. ASSUME NEW d \in Calls, pc[d] = "nested", at[d] = v, records[v][pos[d]] = r
        PROVE  Passed(r)'
    <3>1. d # c /\ v # w
      BY <1>6, <2>3, Zenon DEF Drains
    <3> QED
      BY <1>4, <2>1, <2>3, <3>1 DEF Passed
  <2> QED
    BY <2>1, <2>2, <2>3, Zenon
<1>8. HeldIsOld' /\ TwinIsPassed' /\ RecsApart'
  <2>1. \A d \in Calls : Active(d)' => Active(d)
    BY <1>1, Zenon DEF Active
  <2>2. \A r \in Records, v \in Writers : Stored(r, v)' => Held(r)
    BY <1>1, <1>5, Zenon DEF Held
  <2> QED
    BY <1>7, <2>1, <2>2, NothingNew, Zenon
<1>9. AheadIsNew'
  <2> SUFFICES ASSUME NEW d \in Calls, NEW v \in Writers, Ahead(d, v)'
               PROVE  ~Stored(rec[d], v)'
    BY Zenon DEF AheadIsNew
  <2>1. Ahead(d, v) /\ Active(d) /\ (d = c => v # w)
    BY Zenon DEF Ahead, Active
  <2>2. ~Stored(rec[d], v)
    BY <2>1, Zenon DEF WInv, AheadIsNew
  <2>3. d # c => rec[d] # x
    BY <1>1, <2>1, Zenon DEF WInv, RecsApart
  <2>4. Stored(rec[d], v)' => Stored(rec[d], v)
    BY <1>5, <2>1, <2>3, Zenon
  <2> QED
    BY <2>2, <2>4, Zenon
<1>10. QueueOnce'
  <2>1. \A j \in DOMAIN q : q[j] \notin Range(written[w])
    <3>1. \A j \in DOMAIN records[w] : records[w][j] \notin Range(written[w])
      BY <1>6, Zenon DEF WInv, QueueOnce
    <3>2. \A r \in Range(records[w]) : r \notin Range(written[w])
      BY <3>1, Zenon DEF Range
    <3>3. x \notin Range(written[w])
      BY <1>2, Zenon DEF Stored
    <3>4. \A r \in Range(q) : r \notin Range(written[w])
      BY <1>3, <3>2, <3>3, Zenon
    <3> QED
      BY <3>4, ZenonT(40) DEF Range
  <2>2. ASSUME NEW v \in Writers, NEW j \in DOMAIN records'[v],
               records'[v][j] \in Range(written'[v])
        PROVE  \E d \in Calls : Drains(d, v)' /\ j < pos'[d]
    <3>1. v # w /\ records'[v] = records[v]
      BY <1>4, <2>1, <2>2, Zenon
    <3>2. PICK d \in Calls : Drains(d, v) /\ j < pos[d]
      BY <2>2, <3>1, Zenon DEF WInv, QueueOnce
    <3>3. d # c
      BY <3>2, Zenon DEF Drains
    <3> QED
      BY <3>2, <3>3, Zenon DEF Drains
  <2>3. \A v \in Writers : IsInjective(records'[v]) /\ IsInjective(written'[v])
    BY <1>3, <1>4, Zenon DEF WInv, QueueOnce
  <2> QED
    BY <2>2, <2>3, Zenon DEF QueueOnce
<1>11. TakenTypes'
  <2>1. \A v \in Writers : \A r \in Records : Stored(r, v)' => r.type \in Accepts[v]
    BY <1>1, <1>5, Zenon DEF WInv, TakenTypes
  <2>2. \A d \in Calls :
            pc'[d] \in {"enqueue", "sleep"} => rec'[d].type \in Accepts[at'[d]]
    BY Zenon DEF WInv, TakenTypes
  <2> QED
    BY <2>1, <2>2, Zenon DEF TakenTypes
<1> QED
  BY <1>8, <1>9, <1>10, <1>11, Zenon

\* A drain is done with a record: it was not written before.
LEMMA HandledOnce ==
    ASSUME WInv, NEW c \in Calls, NEW w \in Writers, Drains(c, w),
           pos[c] <= Len(records[w]), Handled(c),
           pc'[c] = "drain", \A d \in Calls : d # c => pc'[d] = pc[d],
           at' = at, rec' = rec, records' = records, logged' = logged
    PROVE  /\ HeldIsOld' /\ TwinIsPassed' /\ RecsApart'
           /\ AheadIsNew' /\ QueueOnce' /\ TakenTypes'
<1> PICK i : i = pos[c]
  BY Zenon
<1> PICK x : x = records[w][i]
  BY Zenon
<1>0. PICK q : q = Append(written[w], x)
  BY Zenon
<1>1. /\ TypeOK /\ records[w] \in Seq(Records) /\ written[w] \in Seq(Records)
      /\ i \in Nat \ {0} /\ at[c] = w
  BY Zenon DEF WInv, IInv, TypeOK, Drains
<1>2. i \in DOMAIN records[w] /\ x \in Records /\ x \in Range(records[w])
  <2>1. i \in DOMAIN records[w]
    BY <1>1
  <2> QED
    BY <1>1, <2>1 DEF Range
<1>3. \A d \in Calls : Drains(d, w) => d = c
  BY DEF WInv, IInv, NestingInv, Drains
<1>4. x \notin Range(written[w])
  <2> SUFFICES ASSUME x \in Range(written[w]) PROVE FALSE
    BY Zenon
  <2>1. PICK d \in Calls : Drains(d, w) /\ i < pos[d]
    BY <1>2, Zenon DEF WInv, QueueOnce
  <2>2. i < i
    BY <1>3, <2>1, Zenon
  <2> QED
    BY <1>1, <2>2
<1>5. q \in Seq(Records) /\ Range(q) = Range(written[w]) \cup {x} /\ IsInjective(q)
  <2>1. IsInjective(written[w])
    BY Zenon DEF WInv, QueueOnce
  <2>2. PICK s \in Seq(Records) : s = written[w]
    BY <1>1, Zenon
  <2>3. q = Append(s, x)
    BY <1>0, <2>2, Zenon
  <2>4. q \in Seq(Records) /\ Range(q) = Range(s) \cup {x}
    BY <1>2, <2>2, <2>3, AppendRange, ZenonT(40)
  <2>5. IsInjective(q)
    BY <1>2, <1>4, <2>1, <2>2, <2>3, AppendRange, Zenon
  <2> QED
    BY <2>2, <2>4, <2>5, Zenon
<1>6. /\ written'[w] = q /\ \A v \in Writers : v # w => written'[v] = written[v]
      /\ pos'[c] = i + 1 /\ \A d \in Calls : d # c => pos'[d] = pos[d]
  BY <1>0, <1>1, Zenon DEF Handled, TypeOK
<1>7. \A r : \A v \in Writers : Stored(r, v)' <=> Stored(r, v)
  BY <1>2, <1>5, <1>6, Zenon DEF Stored
<1>8. \A r \in Records : Passed(r) => Passed(r)'
  <2> SUFFICES ASSUME NEW r \in Records, Passed(r) PROVE Passed(r)'
    BY Zenon
  <2>1. PICK v \in Writers :
            /\ RecordFn[v] = "relog"
            /\ \/ r \in Range(written[v])
               \/ \E d \in Calls : /\ pc[d] = "nested" /\ at[d] = v
                                   /\ records[v][pos[d]] = r
    BY Zenon DEF Passed
  <2>2. CASE r \in Range(written[v])
    <3>1. r \in Range(written'[v])
      BY <1>5, <1>6, <2>2, Zenon
    <3> QED
      BY <2>1, <3>1, Zenon DEF Passed
  <2>3. ASSUME NEW d \in Calls, pc[d] = "nested", at[d] = v, records[v][pos[d]] = r
        PROVE  Passed(r)'
    <3>1. CASE d = c
      <4>1. v = w /\ r = x
        BY <1>1, <2>3, <3>1, Zenon
      <4>2. r \in Range(written'[v])
        BY <1>5, <1>6, <4>1, Zenon
      <4> QED
        BY <2>1, <4>2, Zenon DEF Passed
    <3>2. CASE d # c
      <4>1. pc'[d] = "nested" /\ at'[d] = v /\ records'[v][pos'[d]] = r
        BY <1>6, <2>3, <3>2, Zenon
      <4> QED
        BY <2>1, <4>1, Zenon DEF Passed
    <3> QED
      BY <3>1, <3>2, Zenon
  <2> QED
    BY <2>1, <2>2, <2>3, Zenon
<1>9. HeldIsOld' /\ TwinIsPassed' /\ RecsApart'
  <2>1. \A d \in Calls : Active(d)' => Active(d)
    BY Zenon DEF Active, Drains
  <2>2. \A r \in Records, v \in Writers : Stored(r, v)' => Held(r)
    BY <1>7, Zenon DEF Held
  <2> QED
    BY <1>8, <2>1, <2>2, NothingNew, Zenon
<1>10. AheadIsNew'
  <2>1. \A d \in Calls, v \in Writers : Ahead(d, v)' => Ahead(d, v)
    BY Zenon DEF Ahead, Active, Drains
  <2> QED
    BY <1>7, <2>1, Zenon DEF WInv, AheadIsNew
<1>11. QueueOnce'
  <2>1. ASSUME NEW v \in Writers, NEW j \in DOMAIN records[v],
               records[v][j] \in Range(written'[v])
        PROVE  \E d \in Calls : Drains(d, v)' /\ j < pos'[d]
    <3>1. \A d \in Calls : Drains(d, v) => Drains(d, v)'
      BY Zenon DEF Drains
    <3>2. CASE v = w
      <4>1. j \in Nat
        BY <1>1, <2>1, <3>2
      <4>2. CASE records[w][j] = x
        <5>1. j = i
          BY <1>2, <2>1, <3>2, <4>2 DEF WInv, QueueOnce, IsInjective
        <5> QED
          BY <1>6, <3>1, <3>2, <4>1, <5>1
      <4>3. CASE records[w][j] \in Range(written[w])
        <5>1. PICK d \in Calls : Drains(d, w) /\ j < pos[d]
          BY <2>1, <3>2, <4>3, Zenon DEF WInv, QueueOnce
        <5>2. d = c /\ j < i
          BY <1>3, <5>1, Zenon
        <5>3. j < pos'[c]
          BY <1>1, <1>6, <4>1, <5>2
        <5> QED
          BY <3>1, <3>2, <5>3, Zenon
      <4> QED
        BY <1>5, <1>6, <2>1, <3>2, <4>2, <4>3, Zenon
    <3>3. CASE v # w
      <4>1. PICK d \in Calls : Drains(d, v) /\ j < pos[d]
        BY <1>6, <2>1, <3>3, Zenon DEF WInv, QueueOnce
      <4>2. d # c
        BY <3>3, <4>1, Zenon DEF Drains
      <4> QED
        BY <1>6, <3>1, <4>1, <4>2, Zenon
    <3> QED
      BY <3>2, <3>3, Zenon
  <2>2. \A v \in Writers : IsInjective(records'[v]) /\ IsInjective(written'[v])
    BY <1>5, <1>6, Zenon DEF WInv, QueueOnce
  <2> QED
    BY <2>1, <2>2, Zenon DEF QueueOnce
<1>12. TakenTypes'
  <2>1. \A v \in Writers : \A r \in Records : Stored(r, v)' => r.type \in Accepts[v]
    BY <1>7, Zenon DEF WInv, TakenTypes
  <2>2. \A d \in Calls :
            pc'[d] \in {"enqueue", "sleep"} => rec'[d].type \in Accepts[at'[d]]
    BY Zenon DEF WInv, TakenTypes
  <2> QED
    BY <2>1, <2>2, Zenon DEF TakenTypes
<1> QED
  BY <1>9, <1>10, <1>11, <1>12, Zenon

\* A record is logged again: that was not done before.
LEMMA RelogOnce ==
    ASSUME OneRelogger, WInv, NEW c \in Calls, Relog(c)
    PROVE  /\ HeldIsOld' /\ TwinIsPassed' /\ RecsApart'
           /\ AheadIsNew' /\ QueueOnce' /\ TakenTypes'
<1> PICK w : w = at[c]
  BY Zenon
<1>x. PICK x : x = records[w][pos[c]]
  BY Zenon
<1>m. PICK m : m = <<c[1], 1>>
  BY Zenon
<1>e. PICK e : e = [x EXCEPT !.type = ERRORLOG]
  BY Zenon
<1>0. /\ pc' = [pc EXCEPT ![c] = "nested", ![m] = "format"]
      /\ at' = [at EXCEPT ![m] = 1] /\ rec' = [rec EXCEPT ![m] = e]
  BY <1>x, <1>m, <1>e, Zenon DEF Relog
<1>1. /\ pc[c] = "drain" /\ c[2] = 0 /\ pos[c] <= Len(records[w])
      /\ RecordFn[w] = "relog"
      /\ pos' = pos /\ records' = records /\ written' = written /\ logged' = logged
  BY Zenon DEF Relog
<1>2. /\ TypeOK /\ w \in Writers /\ records[w] \in Seq(Records)
      /\ pos[c] \in Nat \ {0}
  BY Zenon DEF WInv, IInv, TypeOK
<1>3. m \in Calls /\ m # c /\ pc[m] = "idle"
  BY <1>1, <1>m, CallFacts, Zenon DEF WInv, IInv, NestingInv
<1>4. /\ pc'[c] = "nested" /\ pc'[m] = "format" /\ at'[c] = w /\ at'[m] = 1
      /\ rec'[m] = e /\ rec'[c] = rec[c]
      /\ \A d \in Calls : d # c /\ d # m =>
             pc'[d] = pc[d] /\ at'[d] = at[d] /\ rec'[d] = rec[d]
  BY <1>0, <1>2, <1>3, Zenon DEF TypeOK
<1>5. pos[c] \in DOMAIN records[w] /\ x \in Records /\ x \in Range(records[w])
  <2>1. pos[c] \in DOMAIN records[w]
    BY <1>1, <1>2
  <2> QED
    BY <1>2, <1>x, <2>1 DEF Range
<1>6. Stored(x, w) /\ Held(x) /\ x.type = TXLOG
  <2>1. Stored(x, w) /\ Held(x)
    BY <1>2, <1>5, Zenon DEF Stored, Held
  <2>2. x.type \in Accepts[w] /\ x.type \in Types
    BY <1>2, <1>5, <2>1, Zenon DEF WInv, TakenTypes, Records
  <2> QED
    BY <1>1, <1>2, <2>1, <2>2, LoggerAssumption, Zenon DEF LoggerAssumption, Types
<1>7. e \in Records /\ e.thread = x.thread /\ e.n = x.n /\ e.type = ERRORLOG
  BY <1>5, <1>e, Zenon DEF Records, Types
<1>8. Twin(e, x)
  BY <1>6, <1>7, Zenon DEF Twin
<1>9. ~Held(e)
  <2> SUFFICES ASSUME Held(e) PROVE FALSE
    BY Zenon
  <2>1. Passed(x)
    BY <1>5, <1>6, <1>7, <1>8, Zenon DEF WInv, TwinIsPassed
  <2>2. PICK v \in Writers :
            /\ RecordFn[v] = "relog"
            /\ \/ x \in Range(written[v])
               \/ \E d \in Calls : /\ pc[d] = "nested" /\ at[d] = v
                                   /\ records[v][pos[d]] = x
    BY <2>1, Zenon DEF Passed
  <2>3. v = w
    BY <1>1, <1>2, <2>2, Zenon DEF OneRelogger
  <2>4. \A d \in Calls : Drains(d, w) => d = c
    BY <1>1, <1>2 DEF WInv, IInv, NestingInv, Drains
  <2>5. CASE x \in Range(written[w])
    <3>1. PICK d \in Calls : Drains(d, w) /\ pos[c] < pos[d]
      BY <1>2, <1>5, <1>x, <2>5, Zenon DEF WInv, QueueOnce
    <3>2. pos[c] < pos[c]
      BY <2>4, <3>1, Zenon
    <3> QED
      BY <1>2, <3>2
  <2>6. CASE \E d \in Calls : pc[d] = "nested" /\ at[d] = w
    BY <1>1, <2>4, <2>6, Zenon DEF Drains
  <2> QED
    BY <2>2, <2>3, <2>5, <2>6, Zenon
<1>10. \A r : \A v \in Writers : Stored(r, v)' <=> Stored(r, v)
  BY <1>1, Zenon DEF Stored
<1>11. \A d \in Calls : d # m => (Active(d)' <=> Active(d)) /\ rec'[d] = rec[d]
  BY <1>1, <1>4, Zenon DEF Active
<1>12. \A r \in Records : Held(r)' => Held(r) \/ r = e
  BY <1>4, <1>10, <1>11, Zenon DEF Held
<1>13. HeldIsOld'
  BY <1>1, <1>5, <1>6, <1>7, <1>12, Zenon DEF WInv, HeldIsOld
<1>14. TwinIsPassed'
  <2> SUFFICES ASSUME NEW f \in Records, NEW r \in Records, Held(f)', Held(r)', Twin(f, r)
               PROVE  Passed(r)'
    BY Zenon DEF TwinIsPassed
  <2>1. r # e /\ Held(r)
    BY <1>7, <1>12, Zenon DEF Twin, ERRORLOG, TXLOG
  <2>2. CASE f = e
    <3>1. r = x
      <4>1. r.thread = x.thread /\ r.n = x.n /\ r.type = x.type
        BY <1>6, <1>7, <2>2, Zenon DEF Twin
      <4>2. /\ r = [thread |-> r.thread, n |-> r.n, type |-> r.type]
            /\ x = [thread |-> x.thread, n |-> x.n, type |-> x.type]
        BY <1>5, Zenon DEF Records
      <4> QED
        BY <4>1, <4>2, Zenon
    <3>2. pc'[c] = "nested" /\ at'[c] = w /\ records'[w][pos'[c]] = r
      BY <1>1, <1>4, <1>x, <3>1, Zenon
    <3> QED
      BY <1>1, <1>2, <3>2, Zenon DEF Passed
  <2>3. CASE f # e
    <3>1. Passed(r)
      BY <1>12, <2>1, <2>3, Zenon DEF WInv, TwinIsPassed
    <3>2. PICK v \in Writers :
            /\ RecordFn[v] = "relog"
            /\ \/ r \in Range(written[v])
               \/ \E d \in Calls : /\ pc[d] = "nested" /\ at[d] = v
                                   /\ records[v][pos[d]] = r
      BY <3>1, Zenon DEF Passed
    <3>3. ASSUME NEW d \in Calls, pc[d] = "nested", at[d] = v, records[v][pos[d]] = r
          PROVE  Passed(r)'
      <4>1. d # c /\ d # m
        BY <1>1, <1>3, <3>3, Zenon
      <4>2. pc'[d] = "nested" /\ at'[d] = v /\ records'[v][pos'[d]] = r
        BY <1>1, <1>4, <3>3, <4>1, Zenon
      <4> QED
        BY <3>2, <4>2, Zenon DEF Passed
    <3>4. CASE r \in Range(written[v])
      BY <1>1, <3>2, <3>4, Zenon DEF Passed
    <3> QED
      BY <3>2, <3>3, <3>4, Zenon
  <2> QED
    BY <2>2, <2>3, Zenon
<1>15. RecsApart'
  <2>1. \A d \in Calls : Active(d) => rec[d] # e
    BY <1>9, Zenon DEF Held
  <2> QED
    BY <1>3, <1>4, <1>11, <2>1 DEF WInv, RecsApart
<1>16. AheadIsNew'
  <2> SUFFICES ASSUME NEW d \in Calls, NEW v \in Writers, Ahead(d, v)'
               PROVE  ~Stored(rec[d], v)'
    BY Zenon DEF AheadIsNew
  <2> PICK y : y = rec'[d]
    BY Zenon
  <2>0. ~Stored(y, v) => ~Stored(rec[d], v)'
    BY <1>10, Zenon
  <2>1. CASE d = m
    BY <1>4, <1>9, <2>0, <2>1, Zenon DEF Held
  <2>2. CASE d # m
    <3>1. Ahead(d, v)
      <4>1. CASE d = c
        BY <1>1, <1>4, <4>1, Zenon DEF Ahead, Active
      <4>2. CASE d # c
        BY <1>4, <2>2, <4>2, Zenon DEF Ahead, Active
      <4> QED
        BY <4>1, <4>2, Zenon
    <3> QED
      BY <1>11, <2>0, <2>2, <3>1, Zenon DEF WInv, AheadIsNew
  <2> QED
    BY <2>1, <2>2, Zenon
<1>17. QueueOnce'
  <2>1. ASSUME NEW d \in Calls, NEW v \in Writers, Drains(d, v)
        PROVE  Drains(d, v)' /\ pos'[d] = pos[d]
    <3>1. d # m
      BY <1>3, <2>1, Zenon DEF Drains
    <3>2. CASE d = c
      BY <1>1, <1>4, <2>1, <3>2, Zenon DEF Drains
    <3>3. CASE d # c
      BY <1>1, <1>4, <2>1, <3>1, <3>3, Zenon DEF Drains
    <3> QED
      BY <3>2, <3>3, Zenon
  <2>2. ASSUME NEW v \in Writers, NEW j \in DOMAIN records[v],
               records[v][j] \in Range(written[v])
        PROVE  \E d \in Calls : Drains(d, v)' /\ j < pos'[d]
    <3>1. PICK d \in Calls : Drains(d, v) /\ j < pos[d]
      BY <2>2, Zenon DEF WInv, QueueOnce
    <3> QED
      BY <2>1, <3>1, Zenon
  <2> QED
    BY <1>1, <2>2, Zenon DEF WInv, QueueOnce
<1>18. TakenTypes'
  <2>1. \A v \in Writers : \A r \in Records : Stored(r, v)' => r.type \in Accepts[v]
    BY <1>10, Zenon DEF WInv, TakenTypes
  <2>2. \A d \in Calls :
            pc'[d] \in {"enqueue", "sleep"} => rec'[d].type \in Accepts[at'[d]]
    BY <1>4, Zenon DEF WInv, TakenTypes
  <2> QED
    BY <2>1, <2>2, Zenon DEF TakenTypes
<1> QED
  BY <1>13, <1>14, <1>15, <1>16, <1>17, <1>18, Zenon

\* A drain ends: what it emptied is written, and nobody else drained it.
LEMMA DoneOnce ==
    ASSUME WInv, NEW c \in Calls, NEW mem, DequeueDone(c, mem)
    PROVE  /\ HeldIsOld' /\ TwinIsPassed' /\ RecsApart'
           /\ AheadIsNew' /\ QueueOnce' /\ TakenTypes'
<1> PICK w : w = at[c]
  BY Zenon
<1>1. /\ TypeOK /\ w \in Writers /\ Active(c) /\ Drains(c, w) /\ Advance(c)
      /\ pc[c] = "drain" /\ records' = [records EXCEPT ![w] = <<>>]
      /\ rec' = rec /\ pos' = pos /\ written' = written /\ logged' = logged
  BY Zenon DEF DequeueDone, WInv, IInv, TypeOK, Active, Drains
<1>2. /\ pc'[c] \in {"idle", "format"}
      /\ \A d \in Calls : d # c => pc'[d] = pc[d] /\ at'[d] = at[d]
  BY <1>1, AdvanceFacts, Zenon
<1>3. records'[w] = <<>> /\ \A v \in Writers : v # w => records'[v] = records[v]
  BY <1>1, Zenon DEF TypeOK
<1>4. \A r : \A v \in Writers : Stored(r, v)' => Stored(r, v)
  BY <1>1, <1>3, EmptyRange, Zenon DEF Stored
<1>5. \A d \in Calls : Drains(d, w) => d = c
  BY <1>1 DEF WInv, IInv, NestingInv, Drains
<1>6. \A r \in Records : Passed(r) => Passed(r)'
  <2> SUFFICES ASSUME NEW r \in Records, Passed(r) PROVE Passed(r)'
    BY Zenon
  <2>1. PICK v \in Writers :
            /\ RecordFn[v] = "relog"
            /\ \/ r \in Range(written[v])
               \/ \E d \in Calls : /\ pc[d] = "nested" /\ at[d] = v
                                   /\ records[v][pos[d]] = r
    BY Zenon DEF Passed
  <2>2. CASE r \in Range(written[v])
    BY <1>1, <2>1, <2>2, Zenon DEF Passed
  <2>3. ASSUME NEW d \in Calls, pc[d] = "nested", at[d] = v, records[v][pos[d]] = r
        PROVE  Passed(r)'
    <3>1. d # c /\ v # w
      BY <1>1, <1>5, <2>3, Zenon DEF Drains
    <3>2. pc'[d] = "nested" /\ at'[d] = v /\ records'[v][pos'[d]] = r
      BY <1>1, <1>2, <1>3, <2>3, <3>1, Zenon
    <3> QED
      BY <2>1, <3>2, Zenon DEF Passed
  <2> QED
    BY <2>1, <2>2, <2>3, Zenon
<1>7. HeldIsOld' /\ TwinIsPassed' /\ RecsApart'
  <2>1. \A d \in Calls : Active(d)' => Active(d)
    BY <1>1, <1>2, Zenon DEF Active
  <2>2. \A r \in Records, v \in Writers : Stored(r, v)' => Held(r)
    BY <1>4, Zenon DEF Held
  <2> QED
    BY <1>1, <1>6, <2>1, <2>2, NothingNew, Zenon
<1>8. AheadIsNew'
  <2>1. \A v \in Writers : Ahead(c, v)' => Ahead(c, v)
    BY <1>1, AdvanceAhead, Zenon
  <2>2. \A d \in Calls, v \in Writers : d # c /\ Ahead(d, v)' => Ahead(d, v)
    BY <1>2, Zenon DEF Ahead, Active
  <2> QED
    BY <1>1, <1>4, <2>1, <2>2, Zenon DEF WInv, AheadIsNew
<1>9. QueueOnce'
  <2>1. ASSUME NEW v \in Writers, NEW j \in DOMAIN records'[v],
               records'[v][j] \in Range(written'[v])
        PROVE  \E d \in Calls : Drains(d, v)' /\ j < pos'[d]
    <3>1. v # w /\ records'[v] = records[v]
      BY <1>3, <2>1
    <3>2. PICK d \in Calls : Drains(d, v) /\ j < pos[d]
      BY <1>1, <2>1, <3>1, Zenon DEF WInv, QueueOnce
    <3>3. d # c
      BY <1>1, <3>1, <3>2, Zenon DEF Drains
    <3> QED
      BY <1>1, <1>2, <3>2, <3>3, Zenon DEF Drains
  <2>2. \A v \in Writers : IsInjective(records'[v]) /\ IsInjective(written'[v])
    BY <1>1, <1>3, EmptyRange, Zenon DEF WInv, QueueOnce
  <2> QED
    BY <2>1, <2>2, Zenon DEF QueueOnce
<1>10. TakenTypes'
  <2>1. \A v \in Writers : \A r \in Records : Stored(r, v)' => r.type \in Accepts[v]
    BY <1>4, Zenon DEF WInv, TakenTypes
  <2>2. \A d \in Calls :
            pc'[d] \in {"enqueue", "sleep"} => rec'[d].type \in Accepts[at'[d]]
    BY <1>1, <1>2, Zenon DEF WInv, TakenTypes
  <2> QED
    BY <2>1, <2>2, Zenon DEF TakenTypes
<1> QED
  BY <1>7, <1>8, <1>9, <1>10, Zenon

\* A call moves on to the next writer, or returns.
LEMMA AdvanceOnce ==
    ASSUME WInv, NEW c \in Calls, Advance(c), rec' = rec, records' = records,
           written' = written, logged' = logged, pos' = pos,
           pc[c] \notin {"idle", "drain", "nested"}
    PROVE  /\ HeldIsOld' /\ TwinIsPassed' /\ RecsApart'
           /\ AheadIsNew' /\ QueueOnce' /\ TakenTypes'
<1>1. TypeOK /\ Active(c)
  BY Zenon DEF WInv, IInv, Active
<1>2. /\ pc'[c] \notin {"enqueue", "sleep"}
      /\ \A d \in Calls : d # c => pc'[d] = pc[d] /\ at'[d] = at[d]
  BY <1>1, AdvanceFacts, Zenon
<1>3. \A w \in Writers : Ahead(c, w)' => Ahead(c, w)
  BY <1>1, AdvanceAhead, Zenon
<1> QED
  BY <1>2, <1>3, MoveOnce, Zenon

\* A call takes a step at the writer it has come to.
LEMMA StepOnce ==
    ASSUME WInv, NEW c \in Calls,
           Format(c) \/ QueueFull(c) \/ Wake(c) \/ Dequeue(c)
    PROVE  /\ HeldIsOld' /\ TwinIsPassed' /\ RecsApart'
           /\ AheadIsNew' /\ QueueOnce' /\ TakenTypes'
<1>1. /\ TypeOK /\ rec' = rec /\ records' = records /\ at' = at
      /\ written' = written /\ logged' = logged
      /\ \A d \in Calls : d # c => pos'[d] = pos[d] /\ pc'[d] = pc[d]
      /\ pc[c] \in {"format", "enqueue", "sleep", "signal"}
  BY Zenon DEF WInv, IInv, TypeOK, Format, QueueFull, Wake, Dequeue
<1>2. \A w \in Writers : Ahead(c, w)' => Ahead(c, w)
  BY <1>1, Zenon DEF Format, QueueFull, Wake, Dequeue, Ahead, Active, TypeOK
<1>3. pc'[c] \in {"enqueue", "sleep"} => rec[c].type \in Accepts[at'[c]]
  BY <1>1, Zenon DEF WInv, TakenTypes, Format, QueueFull, Wake, Dequeue, TypeOK
<1> QED
  BY <1>1, <1>2, <1>3, MoveOnce, Zenon

\* The record is queued, or dropped for want of memory.
LEMMA EnqueueOnce ==
    ASSUME WInv, NEW c \in Calls, NEW mem, Enqueue(c, mem)
    PROVE  /\ HeldIsOld' /\ TwinIsPassed' /\ RecsApart'
           /\ AheadIsNew' /\ QueueOnce' /\ TakenTypes'
<1> PICK w : w = at[c]
  BY Zenon
<1>0. TypeOK /\ w \in Writers /\ w \in Nat
  BY LoggerAssumption DEF WInv, IInv, TypeOK, Writers, LoggerAssumption
<1>1. /\ TypeOK /\ w \in Writers /\ w \in Nat /\ Active(c)
      /\ pc[c] = "enqueue" /\ records_lck[w] = NULL
      /\ rec' = rec /\ pos' = pos /\ written' = written /\ logged' = logged
      /\ \/ records' = records
         \/ records' = [records EXCEPT ![w] = <<rec[c]>> \o records[w]]
      /\ \/ pc' = [pc EXCEPT ![c] = "signal"] /\ at' = at
         \/ Advance(c)
  BY <1>0, Zenon DEF Enqueue, Active
<1>2. /\ pc'[c] \notin {"enqueue", "sleep"} /\ ~Ahead(c, w)'
      /\ \A d \in Calls : d # c => pc'[d] = pc[d] /\ at'[d] = at[d]
      /\ \A v \in Writers : Ahead(c, v)' => Ahead(c, v)
  <2>1. CASE pc' = [pc EXCEPT ![c] = "signal"] /\ at' = at
    BY <1>1, <2>1 DEF TypeOK, Ahead, Active
  <2>2. CASE Advance(c)
    <3>1. /\ pc'[c] \notin {"enqueue", "sleep"}
          /\ \A d \in Calls : d # c => pc'[d] = pc[d] /\ at'[d] = at[d]
      BY <1>1, <2>2, AdvanceFacts, Zenon
    <3>2. \A v \in Writers : Ahead(c, v)' => Ahead(c, v)
      BY <1>1, <2>2, AdvanceAhead, Zenon
    <3>3. \/ pc'[c] = "idle"
          \/ pc'[c] = "format" /\ at'[c] = w + 1
      BY <1>1, <2>2 DEF Advance, TypeOK
    <3>4. ~Ahead(c, w)'
      BY <1>1, <3>3 DEF Ahead, Active
    <3> QED
      BY <3>1, <3>2, <3>4, Zenon
  <2> QED
    BY <1>1, <2>1, <2>2, Zenon
<1>3. CASE records' = records
  BY <1>1, <1>2, <1>3, MoveOnce, Zenon
<1>4. CASE records' = [records EXCEPT ![w] = <<rec[c]>> \o records[w]]
  <2>1. PICK x, q : x = rec[c] /\ q = <<x>> \o records[w]
    BY Zenon
  <2>2. Pushes(x, w, q)
    BY <1>4, <2>1, Zenon DEF Pushes
  <2> QED
    BY <1>1, <1>2, <2>1, <2>2, PushOnce, Zenon
<1> QED
  BY <1>1, <1>3, <1>4, Zenon

LEMMA InitWInv == Init => WInv
<1> SUFFICES ASSUME Init PROVE WInv
  BY Zenon
<1>1. IInv
  BY InitIInv, Zenon
<1>2. /\ \A c \in Calls : pc[c] = "idle"
      /\ \A w \in Writers : records[w] = <<>> /\ written[w] = <<>>
  BY Zenon DEF Init
<1>3. \A r : \A w \in Writers : ~Stored(r, w)
  BY <1>2, EmptyRange, Zenon DEF Stored
<1>4. \A r : ~Held(r)
  BY <1>2, <1>3, Zenon DEF Held, Active
<1>5. HeldIsOld /\ TwinIsPassed /\ RecsApart
  BY <1>2, <1>4, Zenon DEF HeldIsOld, TwinIsPassed, RecsApart, Active
<1>6. AheadIsNew /\ QueueOnce /\ TakenTypes
  BY <1>2, <1>3, EmptyRange, Zenon DEF AheadIsNew, QueueOnce, TakenTypes, Ahead, Active
<1> QED
  BY <1>1, <1>5, <1>6, Zenon DEF WInv

LEMMA WStep ==
    ASSUME OneRelogger, WInv, [Next]_vars
    PROVE  WInv'
<1> DEFINE Apart == /\ HeldIsOld /\ TwinIsPassed /\ RecsApart
                    /\ AheadIsNew /\ QueueOnce /\ TakenTypes
<1>0. IInv'
  BY InductiveStep, Zenon DEF WInv
<1>1. ASSUME NEW t \in Threads, NEW type \in Types, Log(t, type)
      PROVE  Apart'
  BY <1>1, LogOnce, Zenon
<1>2. ASSUME NEW c \in Calls, FormatDeclines(c) \/ SignalIgnored(c)
      PROVE  Apart'
  <2>1. /\ Advance(c) /\ rec' = rec /\ records' = records
        /\ written' = written /\ logged' = logged /\ pos' = pos
        /\ pc[c] \notin {"idle", "drain", "nested"}
    BY <1>2, Zenon DEF FormatDeclines, SignalIgnored
  <2> QED
    BY <2>1, AdvanceOnce, Zenon
<1>3. ASSUME NEW c \in Calls, Format(c) \/ QueueFull(c) \/ Wake(c) \/ Dequeue(c)
      PROVE  Apart'
  BY <1>3, StepOnce, Zenon
<1>4. ASSUME NEW c \in Calls, NEW mem \in Memory, Enqueue(c, mem)
      PROVE  Apart'
  BY <1>4, EnqueueOnce, Zenon
<1>5. ASSUME NEW c \in Calls, Handle(c) \/ RelogReturns(c)
      PROVE  Apart'
  <2>1. PICK w \in Writers : w = at[c]
    BY Zenon DEF WInv, IInv, TypeOK
  <2>2. /\ Drains(c, w) /\ Handled(c) /\ pos[c] <= Len(records[w])
        /\ at' = at /\ rec' = rec /\ records' = records /\ logged' = logged
    BY <1>5, <2>1, Zenon DEF Handle, RelogReturns, Drains, WInv, IInv, NestingInv
  <2>3. pc'[c] = "drain" /\ \A d \in Calls : d # c => pc'[d] = pc[d]
    BY <1>5, Zenon DEF Handle, RelogReturns, WInv, IInv, TypeOK
  <2> QED
    BY <2>2, <2>3, HandledOnce, Zenon
<1>6. ASSUME NEW c \in Calls, Relog(c)
      PROVE  Apart'
  BY <1>6, RelogOnce, Zenon
<1>7. ASSUME NEW c \in Calls, NEW mem \in Memory, DequeueDone(c, mem)
      PROVE  Apart'
  BY <1>7, DoneOnce, Zenon
<1>8. ASSUME UNCHANGED vars PROVE Apart'
  <2>1. HeldIsOld'
    BY <1>8, Zenon DEF vars, WInv, HeldIsOld, Held, Stored, Active
  <2>2. TwinIsPassed'
    BY <1>8 DEF vars, WInv, TwinIsPassed, Passed, Held, Stored, Active
  <2>3. RecsApart' /\ AheadIsNew'
    BY <1>8, Zenon DEF vars, WInv, RecsApart, AheadIsNew, Ahead, Active, Stored
  <2>4. QueueOnce' /\ TakenTypes'
    BY <1>8, Zenon DEF vars, WInv, QueueOnce, TakenTypes, Drains, Stored
  <2> QED
    BY <2>1, <2>2, <2>3, <2>4, Zenon
<1> HIDE DEF Apart
<1>9. Apart'
  BY <1>1, <1>2, <1>3, <1>4, <1>5, <1>6, <1>7, <1>8, Zenon DEF Next, CallStep
<1> QED
  BY <1>0, <1>9, Zenon DEF WInv, Apart

\* What was written and what a drain has yet to handle make one sequence
\* without repetitions.
LEMMA ConcatApart ==
    ASSUME NEW s \in Seq(Records), NEW u \in Seq(Records),
           IsInjective(s), IsInjective(u),
           \A j \in DOMAIN u : u[j] \notin Range(s)
    PROVE  IsInjective(s \o u)
<1> PICK q : q = s \o u
  BY Zenon
<1>1. /\ Len(s) \in Nat /\ Len(u) \in Nat /\ Len(q) = Len(s) + Len(u)
      /\ q \in Seq(Records)
      /\ DOMAIN s = 1..Len(s) /\ DOMAIN u = 1..Len(u)
  OBVIOUS
<1>2. /\ DOMAIN q = 1..(Len(s) + Len(u))
      /\ \A i \in 1..Len(s) : q[i] = s[i]
      /\ \A i \in 1..Len(u) : q[Len(s) + i] = u[i]
  BY <1>1
<1>3. \A i \in DOMAIN q : i \in DOMAIN s \/ (i - Len(s) \in DOMAIN u /\ q[i] = u[i - Len(s)])
  BY <1>1, <1>2
<1>4. \A i \in DOMAIN s, j \in DOMAIN u : s[i] # u[j]
  BY Zenon DEF Range
<1>5. SUFFICES ASSUME NEW i \in DOMAIN q, NEW j \in DOMAIN q, q[i] = q[j]
               PROVE  i = j
  BY Zenon DEF IsInjective
<1>6. CASE i \in DOMAIN s /\ j \in DOMAIN s
  BY <1>1, <1>2, <1>5, <1>6, Zenon DEF IsInjective
<1>7. CASE i \notin DOMAIN s /\ j \notin DOMAIN s
  <2>1. i - Len(s) = j - Len(s)
    BY <1>3, <1>5, <1>7, Zenon DEF IsInjective
  <2> QED
    BY <1>1, <1>2, <2>1
<1>8. CASE i \in DOMAIN s /\ j \notin DOMAIN s
  BY <1>1, <1>2, <1>3, <1>4, <1>5, <1>8
<1>9. CASE i \notin DOMAIN s /\ j \in DOMAIN s
  BY <1>1, <1>2, <1>3, <1>4, <1>5, <1>9
<1> QED
  BY <1>6, <1>7, <1>8, <1>9, Zenon

LEMMA WInvWrittenOnce == WInv => WrittenOnce
<1> SUFFICES ASSUME WInv, NEW w \in Writers
             PROVE  IsInjective(written[w] \o Unwritten(w))
  BY Zenon DEF WrittenOnce
<1> DEFINE done == {c \in Calls : pc[c] \in {"drain", "nested"} /\ at[c] = w}
<1> PICK q : q = records[w]
  BY Zenon
<1>1. /\ q \in Seq(Records) /\ written[w] \in Seq(Records)
      /\ IsInjective(q) /\ IsInjective(written[w])
      /\ Len(q) \in Nat /\ DOMAIN q = 1..Len(q)
  BY DEF WInv, IInv, TypeOK, QueueOnce
<1>2. CASE done = {}
  <2>1. Unwritten(w) = q
    BY <1>2, Zenon DEF Unwritten
  <2>2. \A j \in DOMAIN q : q[j] \notin Range(written[w])
    BY <1>2, Zenon DEF WInv, QueueOnce, Drains
  <2> QED
    BY <1>1, <2>1, <2>2, ConcatApart, Zenon
<1>3. CASE done # {}
  <2>1. PICK c \in done : c = CHOOSE d \in done : TRUE
    BY <1>3, Zenon
  <2>2. PICK k : k = pos[c]
    BY Zenon
  <2>3. PICK u : u = SubSeq(q, k, Len(q))
    BY Zenon
  <2>4. Unwritten(w) = u
    BY <1>3, <2>1, <2>2, <2>3, Zenon DEF Unwritten
  <2>5. k \in Nat \ {0} /\ \A d \in Calls : Drains(d, w) => d = c
    BY <2>1, <2>2 DEF WInv, IInv, TypeOK, NestingInv, Drains
  <2>6. /\ u \in Seq(Records) /\ DOMAIN u = 1..Len(u)
        /\ \A i \in DOMAIN u : i + k - 1 \in DOMAIN q /\ u[i] = q[i + k - 1]
                               /\ i \in Nat /\ i >= 1
    BY <1>1, <2>3, <2>5
  <2>7. IsInjective(u)
    <3>1. SUFFICES ASSUME NEW i \in DOMAIN u, NEW j \in DOMAIN u, u[i] = u[j]
                   PROVE  i = j
      BY Zenon DEF IsInjective
    <3>2. PICK a \in DOMAIN q : a = i + k - 1 /\ q[a] = u[i]
      BY <2>6, Zenon
    <3>3. PICK b \in DOMAIN q : b = j + k - 1 /\ q[b] = u[j]
      BY <2>6, Zenon
    <3>4. a = b
      BY <1>1, <3>1, <3>2, <3>3, Zenon DEF IsInjective
    <3> QED
      BY <2>5, <2>6, <3>2, <3>3, <3>4
  <2>8. \A j \in DOMAIN u : u[j] \notin Range(written[w])
    <3> SUFFICES ASSUME NEW j \in DOMAIN u, u[j] \in Range(written[w])
                 PROVE  FALSE
      BY Zenon
    <3>1. PICK i \in DOMAIN q : i = j + k - 1 /\ q[i] = u[j]
      BY <2>6, Zenon
    <3>2. PICK d \in Calls : Drains(d, w) /\ i < pos[d]
      BY <3>1, Zenon DEF WInv, QueueOnce
    <3>3. i < k
      BY <2>2, <2>5, <3>2, Zenon
    <3> QED
      BY <2>5, <2>6, <3>1, <3>3
  <2> QED
    BY <1>1, <2>4, <2>6, <2>7, <2>8, ConcatApart, Zenon
<1> QED
  BY <1>2, <1>3, Zenon

\* No writer writes a record twice, or still has one to write that it has
\* written, for any number of threads and writers, when at most one of the
\* writers logs its records again: one call at a time drains a queue, from
\* its front, and a record comes to a queue once.
THEOREM RecordsWrittenOnce ==
    ASSUME OneRelogger
    PROVE  Spec => []WrittenOnce
<1>1. ASSUME WInv, [Next]_vars PROVE WInv'
  BY <1>1, WStep
<1> QED
  BY <1>1, InitWInv, WInvWrittenOnce, PTL DEF Spec
=============================================================================
