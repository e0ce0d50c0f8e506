SPECIFICATION FairSpec
CONSTANTS
    Readers = {r1, r2}
    Devs = {d1, d2}
    Clients = {c1, c2}
    None = None
    DEFAULT_FRAME_NUM = 2
    MaxNalu = 1
    MaxShows = 2
    StopFirst = TRUE
    Faults = {"poll", "dqbuf"}
INVARIANTS
    OnlyOverlapsCrash
    FreshSizes
PROPERTIES
    StreamMoves
CHECK_DEADLOCK FALSE
