SPECIFICATION Spec
CONSTANTS
    c1 = c1
    c2 = c2
    Clients = {c1, c2}
    NoClient = NoClient
    MaxOffers = 2
    Commands = {"ok", "fail", "disconnect"}
SYMMETRY ClientSymmetry
INVARIANTS
    CrashNeeds
    SessionsAreIsolated
    NewestIsKept
PROPERTIES
    RepliesAreOwn
CHECK_DEADLOCK FALSE
