SPECIFICATION FairSpec
CONSTANTS
    Callers = {c1, c2}
    MaxTimers = 2
    Intervals = {0, 2}
    MaxDelay = 1
    Horizon = 2
INVARIANTS
    TimerOwnership
    NoOversleep
PROPERTIES
    FiresOnSchedule
    ImplementsTimerService
    DueTimerLeaves
    DtorReturns
CHECK_DEADLOCK FALSE
