SPECIFICATION Spec
CONSTANTS
    Procs = {p1, p2}
    Second = 2
    Expirations = {1, 2, 3}
    MaxSets = 2
    MaxEvents = 4
SYMMETRY Symmetry
CHECK_DEADLOCK FALSE
INVARIANTS
    TwoPhaseCommit FreshRead ReadsLast
