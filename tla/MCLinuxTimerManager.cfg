SPECIFICATION FairSpec
CONSTANTS
    MaxTimers = 3
    Intervals = {0, 1}
    MaxDelay = 1
    Horizon = 2
INVARIANTS
    AlarmIsNextDeadline
    NoTimerLost
    OnlyMisuseBreaks
PROPERTIES
    ImplementsTimerService
    DueTimerLeaves
CHECK_DEADLOCK FALSE
