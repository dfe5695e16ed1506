SPECIFICATION Spec
CONSTANTS
    Threads = {t1, t2, t3, t4}
    NumWriters = 2
    Accepts <- Taken
    RecordFn <- Relogging
    MAX_QUEUE_DEPTH = 3
    DEFAULT_QUEUE_SIZE = 2
    AllocMayFail = TRUE
    MaxLogs = 1
    NULL = NULL
CHECK_DEADLOCK FALSE
SYMMETRY Symmetry
INVARIANTS OneSignaller WrittenOnce IInv
