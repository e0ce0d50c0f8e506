SPECIFICATION Spec
CONSTANTS
    Devs = {d1, d2, d3}
    MaxOpens = 3
    Bufs = 4
    Planes = 2
SYMMETRY DevSymmetry
INVARIANTS
    MappingsAreRecorded
    ExitReleases
CHECK_DEADLOCK FALSE
