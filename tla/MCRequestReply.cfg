SPECIFICATION RequestFairSpec
CONSTANTS
    q1 = q1
    q2 = q2
    i1 = i1
    i2 = i2
    Queues = {q1, q2}
    Servers = {q1}
    Inboxes = {i1, i2}
    InboxQueue <- MCInboxQueue
    Subject = Subject
    NoHandle = NoHandle
    MaxSent = 3
INVARIANTS
    RepliesReachRequester
PROPERTIES
    RequestIsAnswered
CHECK_DEADLOCK FALSE
