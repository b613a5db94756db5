SPECIFICATION FairSpec
CONSTANTS
    Addresses = {a1, a2}
    Queues = {q1, q2}
    Topics <- MCTopics
    Wildcards <- MCWildcards
    Covers <- MCCovers
    Accepts <- MCAccepts
    MaxCreated = 2
    MaxMessages = 2
    MaxTotal = 3
INVARIANTS
    TypeOK
    NoUseAfterFree
    InterestMatchesSubscribers
    DeliveredInOrder
PROPERTIES
    SubscriberHears
CHECK_DEADLOCK FALSE
