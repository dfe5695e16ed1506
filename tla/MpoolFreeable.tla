--------------------------- MODULE MpoolFreeable ---------------------------
(***************************************************************************)
(* The memory pool of util/mpool_freeable.c, whose allocations are counted *)
(* references.  A small allocation is cut from a page that it shares with  *)
(* others, and the page has the reference count and the cleanup functions  *)
(* of all of them; a large one is a segment of its own, on a circular      *)
(* list.  The memory under stream_io is in such a pool.                    *)
(*                                                                         *)
(* Every function holds mp->mutex while it touches the pool, so each is    *)
(* one step, whichever thread calls it.  Sizes are in units of 8 bytes.    *)
(***************************************************************************)
EXTENDS Integers, Sequences, FiniteSets, Functions, FiniteSetsExt

CONSTANTS
    Allocs,    \* the pointers the users can hold
    Pages,     \* the pages malloc can give
    Cleanups,  \* the cleanup functions, each registered at most once
    Sizes,     \* the sizes the users ask for
    PageSize,  \* IB_MPOOL_FREEABLE_DEFAULT_PAGE_SIZE
    TrackZero, \* the largest size of track 0
    NumTracks, \* IB_MPOOL_FREEABLE_NUM_TRACKS
    Gap,       \* sizeof(tiny_allocation_t) less the offset of alloc in it
    MaxRefs,   \* bound: the references the users take to one allocation
    MaxPage,   \* bound: what is allocated from a page that is overrun
    NULL

ASSUME MpoolAssumption ==
    /\ Sizes \subseteq Nat \ {0}
    /\ {PageSize, TrackZero, NumTracks, Gap, MaxRefs, MaxPage} \subseteq Nat
    /\ NULL \notin Allocs \cup Pages

VARIABLES
    phase,    \* "open", "destroying" (ib_mpool_freeable_destroy runs), "gone"
    tracks,   \* mp->tracks: the pages of each track, the newest first
    page,     \* the live pages
    seg,      \* the live segments
    head,     \* mp->segment_list
    cleanup,  \* mp->cleanup
    loc,      \* where the users' pointers point
    own,      \* how many references the users have to each
    regd,     \* the cleanup functions registered: for which pointer, or NULL
    ran,      \* the cleanup functions that were called, in order
    missed    \* the pages with an allocation that its free did not find

vars == <<phase, tracks, page, seg, head, cleanup, loc, own, regd, ran, missed>>

Tracks == 0..(NumTracks - 1)
PageType == [refs : Nat, allocated : Nat, cleanup : Seq(Cleanups)]
SegType == [refs : Nat, cleanup : Seq(Cleanups), next : Allocs, prev : Allocs]
Tiny(l) == l.page \in Pages

TypeOK ==
    /\ phase \in {"open", "destroying", "gone"}
    /\ tracks \in [Tracks -> Seq(Pages)]
    /\ DOMAIN page \subseteq Pages /\ Range(page) \subseteq PageType
    /\ DOMAIN seg \subseteq Allocs /\ Range(seg) \subseteq SegType
    /\ head \in Allocs \cup {NULL}
    /\ cleanup \in Seq(Cleanups) /\ ran \in Seq(Cleanups)
    /\ DOMAIN loc \subseteq Allocs
    /\ Range(loc) \subseteq [page : Pages \cup {NULL}, off : Nat, size : Nat]
    /\ own \in [Allocs -> 0..MaxRefs]
    /\ DOMAIN regd \subseteq Cleanups /\ Range(regd) \subseteq Allocs \cup {NULL}
    /\ missed \subseteq DOMAIN page

Init ==
    /\ phase = "open"
    /\ tracks = [t \in Tracks |-> <<>>]
    /\ page = <<>> /\ seg = <<>> /\ head = NULL
    /\ cleanup = <<>> /\ regd = <<>> /\ ran = <<>>
    /\ loc = <<>> /\ own = [a \in Allocs |-> 0]
    /\ missed = {}

Without(f, x) == Restrict(f, DOMAIN f \ {x})
With(f, x, v) == [y \in DOMAIN f \cup {x} |-> IF y = x THEN v ELSE f[y]]
Drop(s, x) == SelectSeq(s, LAMBDA y : y # x)

-----------------------------------------------------------------------------
(* compute_track_number: track t takes up to TrackZero * 2^t; NumTracks is *)
(* a large allocation.                                                     *)
Track(size) ==
    IF size > TrackZero * 2^(NumTracks - 1) THEN NumTracks
    ELSE Min({t \in Tracks : size <= TrackZero * 2^t})

(* tiny_alloc: from the first page of the track, if it has room, else from *)
(* a new page.  The subtraction is of size_t, which wraps.                 *)
\* Mutant: the reference count is not incremented for a page in use.
TinyInPage_NotCounted(a, size, p) ==
    /\ page[p].allocated + size <= MaxPage
    /\ page' = [page EXCEPT ![p].allocated = @ + size]
    /\ loc' = With(loc, a, [page |-> p, off |-> page[p].allocated, size |-> size])
    /\ UNCHANGED tracks

\* Mutant: the allocation starts at the beginning of the page.
TinyInPage_AtStart(a, size, p) ==
    /\ page[p].allocated + size <= MaxPage
    /\ page' = [page EXCEPT ![p].allocated = @ + size, ![p].refs = @ + 1]
    /\ loc' = With(loc, a, [page |-> p, off |-> 0, size |-> size])
    /\ UNCHANGED tracks

TinyInPage(a, size, p) ==
    /\ page[p].allocated + size <= MaxPage
    /\ page' = [page EXCEPT ![p].allocated = @ + size, ![p].refs = @ + 1]
    /\ loc' = With(loc, a, [page |-> p, off |-> page[p].allocated, size |-> size])
    /\ UNCHANGED tracks

TinyInNewPage(a, size, t) ==
    \E p \in Pages \ DOMAIN page :
        /\ page' = With(page, p, [refs |-> 1, allocated |-> size, cleanup |-> <<>>])
        /\ tracks' = [tracks EXCEPT ![t] = <<p>> \o @]
        /\ loc' = With(loc, a, [page |-> p, off |-> 0, size |-> size])

HasRoom(p, size) ==
    page[p].allocated > PageSize \/ PageSize - page[p].allocated >= size

TinyAlloc(a, size, t) ==
    IF tracks[t] # <<>> /\ HasRoom(Head(tracks[t]), size)
    THEN TinyInPage(a, size, Head(tracks[t]))
    ELSE TinyInNewPage(a, size, t)

(* segment_create puts a segment before the head of the circular list, and *)
(* makes it the head.  The size of a segment is not looked at again.       *)
Linked(a) ==
    LET s == [refs |-> 1, cleanup |-> <<>>, next |-> head, prev |-> seg[head].prev]
    IN  IF head = NULL
        THEN seg' = With(seg, a, [refs |-> 1, cleanup |-> <<>>, next |-> a, prev |-> a])
        ELSE seg' = [With(seg, a, s) EXCEPT ![s.next].prev = a, ![s.prev].next = a]

SegmentCreate(a) ==
    /\ Linked(a)
    /\ head' = a
    /\ loc' = With(loc, a, [page |-> NULL, off |-> 0, size |-> 0])

(* ib_mpool_freeable_alloc.  A size of 0, which gives a static buffer that *)
(* no other function counts, is left out.                                  *)
Alloc ==
    /\ phase = "open"
    /\ \E a \in Allocs, size \in Sizes :
          /\ own[a] = 0 /\ own' = [own EXCEPT ![a] = 1]
          /\ \/ /\ Track(size) < NumTracks
                /\ TinyAlloc(a, size, Track(size))
                /\ UNCHANGED <<seg, head>>
             \/ /\ Track(size) = NumTracks
                /\ SegmentCreate(a)
                /\ UNCHANGED <<page, tracks>>
    /\ UNCHANGED <<phase, cleanup, regd, ran, missed>>

\* ib_mpool_freeable_segment_alloc: a segment whatever the size.
SegmentAlloc ==
    /\ phase = "open"
    /\ \E a \in Allocs :
          /\ own[a] = 0 /\ own' = [own EXCEPT ![a] = 1]
          /\ SegmentCreate(a)
    /\ UNCHANGED <<phase, tracks, page, cleanup, regd, ran, missed>>

-----------------------------------------------------------------------------
(* tiny_allocation_find_mem looks for the address between the field alloc  *)
(* and alloc + allocated; the allocations start Gap after that field.      *)
Found(l) == Tiny(l) /\ Gap + l.off < page[l.page].allocated

(* segment_destroy and tiny_allocation_destroy: unlink, then the cleanup   *)
(* functions.                                                              *)
SegmentDestroy(a) ==
    LET s == seg[a]
        l == [seg EXCEPT ![s.prev].next = s.next, ![s.next].prev = s.prev]
    IN  /\ seg' = Without(l, a)
        /\ head' = IF head # a THEN head
                   ELSE IF l[a].next # a THEN l[a].next ELSE NULL
        /\ ran' = ran \o s.cleanup

\* Mutant: the tail of the track is lost with the page before it.
TinyDestroy_TailLost(p) ==
    /\ page' = Without(page, p)
    /\ tracks' = [t \in Tracks |->
                     IF p \in Range(tracks[t])
                     THEN SubSeq(tracks[t], 1, (CHOOSE i \in DOMAIN tracks[t] :
                                                   tracks[t][i] = p) - 1)
                     ELSE tracks[t]]
    /\ ran' = ran \o page[p].cleanup

TinyDestroy(p) ==
    /\ page' = Without(page, p)
    /\ tracks' = [t \in Tracks |-> Drop(tracks[t], p)]
    /\ ran' = ran \o page[p].cleanup

(* ib_mpool_freeable_ref.  An allocation that is not found is IB_EINVAL.   *)
Ref ==
    /\ phase = "open"
    /\ \E a \in DOMAIN loc :
          /\ own[a] \in 1..(MaxRefs - 1)
          /\ \/ /\ Found(loc[a])
                /\ page' = [page EXCEPT ![loc[a].page].refs = @ + 1]
                /\ own' = [own EXCEPT ![a] = @ + 1]
                /\ UNCHANGED seg
             \/ /\ Tiny(loc[a]) /\ ~Found(loc[a])
                /\ UNCHANGED <<page, own, seg>>
             \/ /\ ~Tiny(loc[a])
                /\ seg' = [seg EXCEPT ![a].refs = @ + 1]
                /\ own' = [own EXCEPT ![a] = @ + 1]
                /\ UNCHANGED page
    /\ UNCHANGED <<phase, tracks, head, cleanup, loc, regd, ran, missed>>

\* ib_mpool_freeable_segment_ref.
SegmentRef ==
    /\ phase = "open"
    /\ \E a \in DOMAIN seg :
          /\ own[a] \in 1..(MaxRefs - 1)
          /\ seg' = [seg EXCEPT ![a].refs = @ + 1]
          /\ own' = [own EXCEPT ![a] = @ + 1]
    /\ UNCHANGED <<phase, tracks, page, head, cleanup, loc, regd, ran,
                   missed>>

\* The user gives up one reference, and the pointer with the last one.
Given(a) ==
    /\ own' = [own EXCEPT ![a] = @ - 1]
    /\ loc' = IF own[a] = 1 THEN Without(loc, a) ELSE loc

(* ib_mpool_freeable_free.  A small allocation that is not found is taken  *)
(* for a large one, whose header has another pool: nothing happens.        *)
TinyFree(p) ==
    IF page[p].refs = 1 THEN TinyDestroy(p)
    ELSE page' = [page EXCEPT ![p].refs = @ - 1] /\ UNCHANGED <<tracks, ran>>

(* ib_mpool_freeable_segment_free.                                         *)
\* Mutant: a segment is not destroyed with its last reference.
SegmentFree_Kept(a) == seg' = [seg EXCEPT ![a].refs = @ - 1] /\ UNCHANGED <<head, ran>>

SegmentFree(a) ==
    IF seg[a].refs = 1 THEN SegmentDestroy(a)
    ELSE seg' = [seg EXCEPT ![a].refs = @ - 1] /\ UNCHANGED <<head, ran>>

Free ==
    /\ phase = "open"
    /\ \E a \in DOMAIN loc :
          /\ Given(a)
          /\ \/ /\ Found(loc[a])
                /\ TinyFree(loc[a].page)
                /\ UNCHANGED <<seg, head, missed>>
             \/ /\ Tiny(loc[a]) /\ ~Found(loc[a])
                /\ missed' = missed \cup {loc[a].page}
                /\ UNCHANGED <<page, tracks, seg, head, ran>>
             \/ /\ ~Tiny(loc[a])
                /\ SegmentFree(a)
                /\ UNCHANGED <<page, tracks, missed>>
    /\ UNCHANGED <<phase, cleanup, regd>>

-----------------------------------------------------------------------------
(* ib_mpool_freeable_register_cleanup: for the pool.                       *)
RegisterCleanup ==
    /\ phase = "open"
    /\ \E c \in Cleanups \ DOMAIN regd :
          /\ cleanup' = <<c>> \o cleanup
          /\ regd' = With(regd, c, NULL)
    /\ UNCHANGED <<phase, tracks, page, seg, head, loc, own, ran, missed>>

(* ib_mpool_freeable_alloc_register_cleanup: a small allocation puts it on *)
(* its page.                                                               *)
AllocRegisterCleanup ==
    /\ phase = "open"
    /\ \E a \in DOMAIN loc, c \in Cleanups \ DOMAIN regd :
          \/ /\ Found(loc[a])
             /\ page' = [page EXCEPT ![loc[a].page].cleanup = <<c>> \o @]
             /\ regd' = With(regd, c, a)
             /\ UNCHANGED seg
          \/ /\ Tiny(loc[a]) /\ ~Found(loc[a])
             /\ UNCHANGED <<page, seg, regd>>
          \/ /\ ~Tiny(loc[a])
             /\ seg' = [seg EXCEPT ![a].cleanup = <<c>> \o @]
             /\ regd' = With(regd, c, a)
             /\ UNCHANGED page
    /\ UNCHANGED <<phase, tracks, head, cleanup, loc, own, ran, missed>>

\* ib_mpool_freeable_segment_register_cleanup.
SegmentRegisterCleanup ==
    /\ phase = "open"
    /\ \E a \in DOMAIN seg, c \in Cleanups \ DOMAIN regd :
          /\ seg' = [seg EXCEPT ![a].cleanup = <<c>> \o @]
          /\ regd' = With(regd, c, a)
    /\ UNCHANGED <<phase, tracks, page, head, cleanup, loc, own, ran, missed>>

-----------------------------------------------------------------------------
(* ib_mpool_freeable_destroy: the users' references end with the pool.  It *)
(* takes no lock; each round of its loops is a step.                       *)
Destroy ==
    /\ phase = "open"
    /\ phase' = "destroying"
    /\ loc' = <<>> /\ own' = [a \in Allocs |-> 0] /\ missed' = {}
    /\ UNCHANGED <<tracks, page, seg, head, cleanup, regd, ran>>

DestroySegment ==
    /\ phase = "destroying" /\ head # NULL
    /\ SegmentDestroy(head)
    /\ UNCHANGED <<phase, tracks, page, cleanup, loc, own, regd, missed>>

DestroyPage ==
    /\ phase = "destroying" /\ head = NULL
    /\ \E t \in Tracks :
          /\ tracks[t] # <<>>
          /\ \A u \in 0..(t - 1) : tracks[u] = <<>>
          /\ TinyDestroy(Head(tracks[t]))
    /\ UNCHANGED <<phase, seg, head, cleanup, loc, own, regd, missed>>

\* Mutant: the cleanup functions of the pool are not called.
DestroyPool_NoCleanup ==
    /\ phase = "destroying" /\ head = NULL
    /\ \A t \in Tracks : tracks[t] = <<>>
    /\ phase' = "gone" /\ cleanup' = <<>>
    /\ UNCHANGED <<tracks, page, seg, head, loc, own, regd, ran, missed>>

DestroyPool ==
    /\ phase = "destroying" /\ head = NULL
    /\ \A t \in Tracks : tracks[t] = <<>>
    /\ phase' = "gone" /\ cleanup' = <<>>
    /\ ran' = ran \o cleanup
    /\ UNCHANGED <<tracks, page, seg, head, loc, own, regd, missed>>

Next ==
    \/ Alloc \/ SegmentAlloc \/ Ref \/ SegmentRef \/ Free
    \/ RegisterCleanup \/ AllocRegisterCleanup \/ SegmentRegisterCleanup
    \/ Destroy \/ DestroySegment \/ DestroyPage \/ DestroyPool

Spec == Init /\ [][Next]_vars

-----------------------------------------------------------------------------
InPage(p) == {a \in DOMAIN loc : loc[a].page = p}
RefsTo(p) == MapThenSumSet(LAMBDA a : own[a], InPage(p))
Pending ==
    Range(cleanup) \cup UNION {Range(page[p].cleanup) : p \in DOMAIN page}
                   \cup UNION {Range(seg[a].cleanup) : a \in DOMAIN seg}

(* No memory goes while somebody has a reference to it: every pointer is   *)
(* in a page of some track or in a live segment, whose reference count is  *)
(* at least the number of references the users have (references++ in       *)
(* tiny_alloc and ref, --references in free).                              *)
RefsCover ==
    /\ \A p \in DOMAIN page : page[p].refs >= RefsTo(p)
    /\ \A a \in DOMAIN loc :
          IF Tiny(loc[a]) THEN loc[a].page \in DOMAIN page
          ELSE a \in DOMAIN seg /\ seg[a].refs = own[a]

(* The pages of the tracks are the live pages, each in one track once, so  *)
(* that tiny_allocation_find_mem and the loops of destroy reach each.      *)
TracksHoldPages ==
    /\ DOMAIN page = UNION {Range(tracks[t]) : t \in Tracks}
    /\ \A t \in Tracks : IsInjective(tracks[t])
    /\ \A t, u \in Tracks : t # u => Range(tracks[t]) \cap Range(tracks[u]) = {}

(* The segments are one circular list, in which prev undoes next and which *)
(* segment_list enters: segment_create and segment_destroy keep it whole   *)
(* wherever a segment is put in or taken out.                              *)
ListCircular ==
    LET S == DOMAIN seg
    IN  /\ (head = NULL) <=> (S = {})
        /\ head \in S \cup {NULL}
        /\ \A a \in S : /\ seg[a].next \in S /\ seg[a].prev \in S
                         /\ seg[seg[a].next].prev = a
        /\ \A C \in SUBSET S :
              head \in C /\ (\A a \in C : seg[a].next \in C) => C = S

(* Two small allocations of a page have no byte in common, and lie in what *)
(* the page has given out (allocated).                                     *)
AllocationsApart ==
    \A a, b \in DOMAIN loc :
        Tiny(loc[a]) =>
            /\ loc[a].off + loc[a].size <= page[loc[a].page].allocated
            /\ (a # b /\ loc[a].page = loc[b].page) =>
                  \/ loc[a].off + loc[a].size <= loc[b].off
                  \/ loc[b].off + loc[b].size <= loc[a].off

(* A registered cleanup function waits or has been called, never both and  *)
(* never twice, and none waits when the pool is gone (the loops of         *)
(* segment_destroy, tiny_allocation_destroy and destroy).                  *)
CleanupsOnce ==
    /\ Pending \cup Range(ran) = DOMAIN regd
    /\ Pending \cap Range(ran) = {}
    /\ IsInjective(ran)
    /\ phase = "gone" => Pending = {}

(* What nobody has a reference to has been freed: a page or a segment that *)
(* is live is still referenced, and a page counts no reference too many    *)
(* (ib_mpool_freeable_free, "free of equal to 0").  The exception is the   *)
(* page whose last allocation is no larger than Gap: a free of it is lost. *)
FreedWhenUnused ==
    phase = "open" =>
        /\ \A p \in DOMAIN page \ missed :
              RefsTo(p) > 0 /\ page[p].refs = RefsTo(p)
        /\ \A a \in DOMAIN seg : own[a] > 0

(* A page holds what is allocated from it, in every track whose sizes all  *)
(* fit a page.  The others are those compute_track_number allows up to     *)
(* 2^17 bytes, while tiny_allocation_create gives every track pages of     *)
(* IB_MPOOL_FREEABLE_DEFAULT_PAGE_SIZE: there size - allocated wraps, and  *)
(* tiny_alloc goes on to take from the page it has overrun.                *)
PageFits ==
    \A t \in Tracks : TrackZero * 2^t <= PageSize =>
        \A p \in Range(tracks[t]) : page[p].allocated <= PageSize

(* The structures of the pool are whole after every call: tracks of pages, *)
(* the list of segments, and pages no fuller than they are long.           *)
WellFormed == TypeOK /\ TracksHoldPages /\ ListCircular /\ PageFits
=============================================================================
