SPECIFICATION FairSpec
CONSTANTS
    Threads = {t1, t2}
    NumWriters = 3
    Accepts <- Taken3
    RecordFn <- ThreeKinds
    MAX_QUEUE_DEPTH = 1
    DEFAULT_QUEUE_SIZE = 2
    AllocMayFail = FALSE
    MaxLogs = 3
    NULL = NULL
CHECK_DEADLOCK FALSE
PROPERTIES LogReturns RecordIsWritten
