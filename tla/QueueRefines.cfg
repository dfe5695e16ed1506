SPECIFICATION Spec
CONSTANTS
    Element = {a, b}
    GARBAGE = GARBAGE
    DEFAULT_QUEUE_SIZE = 1
    ReserveSizes = {0, 3}
    MaxSize = 4
SYMMETRY Symmetry
CHECK_DEADLOCK FALSE
INVARIANTS TypeOK StorageFollowsSize
PROPERTY ImplementsDeque
