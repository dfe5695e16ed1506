SPECIFICATION Spec
CONSTANTS
    Allocs = {a1, a2, a3}
    Pages = {p1, p2}
    Cleanups = {c1, c2}
    Sizes = {1, 3, 6, 9}
    PageSize = 4
    TrackZero = 2
    NumTracks = 3
    Gap = 1
    MaxRefs = 2
    MaxPage = 12
    NULL = NULL
SYMMETRY Symmetry
CHECK_DEADLOCK FALSE
INVARIANTS
    RefsCover AllocationsApart CleanupsOnce FreedWhenUnused WellFormed
