------------------------------- MODULE Deque -------------------------------
(***************************************************************************)
(* A double-ended queue is a sequence: a push adds its element at one end  *)
(* or reports that it did not, a pop takes an element from one end, and    *)
(* nothing else moves.  `call' is the last call with its arguments, so     *)
(* that every step says what was asked for and what was done.              *)
(*                                                                         *)
(* Spec is what include/ironbee/queue.h promises.  SpecAsBuilt is the same *)
(* but for the two functions in which util/queue.c departs from it: the    *)
(* ring buffer (module Queue) implements SpecAsBuilt and not Spec.         *)
(***************************************************************************)
EXTENDS Naturals, Sequences

CONSTANT Element

VARIABLES
    never_shrink,   \* the queue was created with IB_QUEUE_NEVER_SHRINK
    contents,       \* the elements, front first
    call,           \* the last call and its arguments
    rc,             \* the status it returned
    out             \* the elements it handed to its caller

vars == <<never_shrink, contents, call, rc, out>>

Init ==
    /\ never_shrink \in BOOLEAN
    /\ contents = <<>>
    /\ call = <<"create">>
    /\ rc = "IB_OK"
    /\ out = <<>>

\* The argument is a position the queue does not have.
Beyond(i) == i \notin 0..(Len(contents) - 1)

\* A push either adds its element or leaves the queue alone and says so.
Push(longer) ==
    /\ \/ contents' = longer /\ rc' = "IB_OK"
       \/ contents' = contents /\ rc' = "IB_EALLOC"
    /\ out' = <<>>

PushBack ==
    \E e \in Element :
        call' = <<"push_back", e>> /\ Push(Append(contents, e))

PushFront ==
    \E e \in Element :
        call' = <<"push_front", e>> /\ Push(<<e>> \o contents)

\* As built: a push at the front that lacks memory drops its element and
\* returns IB_OK (queue.h: "IB_EALLOC If a resize cannot get enough memory").
PushFrontAsBuilt ==
    \E e \in Element :
        /\ call' = <<"push_front", e>>
        /\ contents' \in {<<e>> \o contents, contents}
        /\ rc' = "IB_OK"
        /\ out' = <<>>

\* A pop takes its element even when the storage could not be shrunk.
Pop(shorter, e) ==
    /\ contents' = shorter
    /\ out' = <<e>>
    /\ rc' \in {"IB_OK", "IB_EALLOC"}

PopFront ==
    /\ call' = <<"pop_front">>
    /\ contents # <<>>
    /\ Pop(Tail(contents), Head(contents))

PopBack ==
    /\ call' = <<"pop_back">>
    /\ contents # <<>>
    /\ Pop(SubSeq(contents, 1, Len(contents) - 1), contents[Len(contents)])

Peek ==
    /\ call' = <<"peek">>
    /\ contents # <<>>
    /\ out' = <<Head(contents)>> /\ rc' = "IB_OK" /\ UNCHANGED contents

Get ==
    \E i \in 1..Len(contents) :
        /\ call' = <<"get", i - 1>>
        /\ out' = <<contents[i]>>
        /\ rc' = "IB_OK" /\ UNCHANGED contents

Set ==
    \E i \in 1..Len(contents), e \in Element :
        /\ call' = <<"set", i - 1, e>>
        /\ contents' = [contents EXCEPT ![i] = e]
        /\ rc' = "IB_OK"
        /\ out' = <<>>

\* A call on a position the queue does not have changes nothing.
Refused ==
    /\ \/ /\ call' \in {<<"pop_front">>, <<"pop_back">>} /\ rc' = "IB_ENOENT"
          /\ contents = <<>>
       \/ /\ call' = <<"peek">> /\ rc' = "IB_EINVAL"
          /\ contents = <<>>
       \/ /\ call'[1] \in {"get", "set"} /\ rc' = "IB_EINVAL"
          /\ Beyond(call'[2])
    /\ out' = <<>>
    /\ UNCHANGED contents

\* Reserving no less than the size changes nothing the client can see.
ReserveMore ==
    /\ call'[1] = "reserve" /\ Beyond(call'[2])
    /\ rc' \in {"IB_OK", "IB_EALLOC"}
    /\ out' = <<>>
    /\ UNCHANGED contents

\* Reserving n, less than the size, keeps the first n elements.
Truncate ==
    \E n \in 0..Len(contents) :
        /\ call' = <<"reserve", n>>
        /\ contents' = SubSeq(contents, 1, n)
        /\ rc' \in {"IB_OK", "IB_EALLOC"}
        /\ out' = <<>>

\* "If IB_QUEUE_NEVER_SHRINK is set and allocation is less than the current
\* allocation, no action is taken and IB_OK is returned."
ReserveRefused ==
    /\ never_shrink
    /\ call'[1] = "reserve" /\ ~Beyond(call'[2])
    /\ rc' = "IB_OK"
    /\ out' = <<>>
    /\ UNCHANGED contents

DequeueAll ==
    /\ call' = <<"dequeue_all">>
    /\ contents' = <<>>
    /\ out' = contents
    /\ rc' \in {"IB_OK", "IB_EALLOC"}

Common ==
    \/ PushBack \/ PopFront \/ PopBack \/ Peek \/ Get \/ Set \/ Refused
    \/ ReserveMore \/ DequeueAll

Next ==
    /\ \/ Common
       \/ PushFront
       \/ ~never_shrink /\ Truncate
       \/ ReserveRefused
    /\ UNCHANGED never_shrink

Spec == Init /\ [][Next]_vars

\* As built: ib_queue_reserve truncates whatever the flags of the queue.
NextAsBuilt ==
    /\ Common \/ PushFrontAsBuilt \/ Truncate
    /\ UNCHANGED never_shrink

SpecAsBuilt == Init /\ [][NextAsBuilt]_vars
=============================================================================
