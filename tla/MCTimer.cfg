SPECIFICATION FairSpec
CONSTANTS
    Timers = {t1, t2}
    Elements = {x1, x2, x3}
    NoElement = NoElement
    Intervals = {1, 2}
    Apps = {}
    QueueThread = queueThread
    MaxQueue = 2
INVARIANTS
    NoUseAfterFree
    ArmedOnce
    IntervalKept
PROPERTIES
    DestroyedIsReported
CHECK_DEADLOCK FALSE
