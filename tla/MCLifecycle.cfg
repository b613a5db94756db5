SPECIFICATION FairSpec
CONSTANTS
    Unset = Unset
    DefaultRetries = 3
    MinRetries = 2
    Configurations <- MCConfigurations
    Welcomes = 2
    SleepOutlasts = FALSE
INVARIANTS
    TypeOK
    JoinsKnownThreads
PROPERTIES
    DestroyCompletes
    CreateReturns
    WelcomeIsAnnounced
CHECK_DEADLOCK FALSE
