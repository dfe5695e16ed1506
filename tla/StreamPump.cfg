SPECIFICATION FairSpec
CONSTANTS
    Segs = {1, 2, 3}
    Lens = {1, 2}
    Limit = 2
    MaxProcs = 3
    MaxCalls = 3
    MaxQueue = 1
CHECK_DEADLOCK FALSE
INVARIANTS
    RefsExact OnlyBodyKept BufferIsPrefix
PROPERTY
    CallReturns
