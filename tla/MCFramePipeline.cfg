SPECIFICATION Spec
CONSTANTS
    Readers = {r1, r2}
    Devs = {d1, d2}
    Clients = {c1, c2}
    None = None
    DEFAULT_FRAME_NUM = 2
    MaxNalu = 0
    MaxShows = 4
    StopFirst = FALSE
    Faults = {"init", "poll", "dqbuf", "qbuf"}
SYMMETRY Symmetry
INVARIANTS
    FrameOwnership
    TasksCoverFrames
    TableMatchesFd
CHECK_DEADLOCK FALSE
