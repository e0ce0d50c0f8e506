SPECIFICATION FairSpec
CONSTANTS
    e1 = e1
    e2 = e2
    e3 = e3
    Events = {e1, e2, e3}
    Fds = {1, 2}
    FdOf <- MCFdOf
    Kinds = {1, 4}
    Masks <- MCMasks
    NoEvent = NoEvent
INVARIANTS
    OnlyMisuseDangles
    Watched
PROPERTIES
    NoLateCallback
    ReadyIsServed
CHECK_DEADLOCK FALSE
