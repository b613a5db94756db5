SPECIFICATION TopicsSpec
CONSTANTS
    None = None
    Characters <- MCCharacters
    Subscriptions <- MCSubscriptions
    Publications <- MCPublications
    Dictionary <- MCDictionary
    ReplyHandlePrefix <- MCReplyHandlePrefix
    MaxSubject = 7
INVARIANTS
    PlainHearsItsName
    PrefixHidesNothing
    HierarchyHearsWhatItCovers
CHECK_DEADLOCK FALSE
