SPECIFICATION QueueFairSpec
CONSTANTS
    Readers = {r1, r2}
    MaxSize = 3
    InitialSize = 1
    ChunkSize = 2
    MaxEvents = 6
INVARIANTS
    QueueTypeOK
    SemaphoreCountsList
    FifoOrder
    CapacityBound
PROPERTIES
    AcceptedIsDispatched
    ImplementsFifo
CHECK_DEADLOCK FALSE
