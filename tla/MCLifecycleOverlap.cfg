SPECIFICATION Spec
CONSTANTS
    Unset = Unset
    DefaultRetries = 3
    MinRetries = 2
    Configurations <- MCConfigurations
    Welcomes = 2
    SleepOutlasts = TRUE
INVARIANTS
    NoUseAfterDestroy
CHECK_DEADLOCK FALSE
