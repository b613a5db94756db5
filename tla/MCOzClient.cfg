SPECIFICATION FairSpec
CONSTANTS
    Apps = {main}
    Session = session
    Repliers = {s1, s2}
    Requests = {r1, r2}
    NoRequest = NoRequest
    MaxPubs = 2
    MaxRetries = 1
    Careful = TRUE
INVARIANTS
    TypeOK
    NoUseAfterFree
    UnusedIsRemoved
PROPERTIES
    WaitReplyTellsTheTruth
    AnsweredIsDeleted
CHECK_DEADLOCK FALSE
