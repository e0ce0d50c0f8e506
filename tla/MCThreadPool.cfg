SPECIFICATION FairSpec
CONSTANTS
    Workers = {w1, w2, w3}
    mNum = 1
    MaxTasks = 3
    MaxCreates = 4
    LateAdd = TRUE
INVARIANTS
    ExactlyOnce
    CancelDrains
    NoLostWakeup
PROPERTIES
    ImplementsTaskService
    EveryTaskRuns
    CancelReturns
