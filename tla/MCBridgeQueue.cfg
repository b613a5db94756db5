SPECIFICATION FairSpec
CONSTANTS
    Threads = {d1, d2}
    Callers = {c1}
    None = None
    MaxSize = 3
    MaxCopies = 1
INVARIANTS
    TypeOK
    LowWatermarkReported
    DestroyWaitsForDispatch
PROPERTIES
    StopEndsLoop
    OnlyRefusedCopiesAreLost
CHECK_DEADLOCK FALSE
