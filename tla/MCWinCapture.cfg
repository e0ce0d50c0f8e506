SPECIFICATION FairSpec
CONSTANTS
    DEFAULT_FRAME_NUM = 2
    Latency = 1
    MaxSamples = 3
    MaxStarts = 2
INVARIANTS
    SamplesInOrder
    OnlyOvertakenBreaks
PROPERTIES
    TeardownEnds
CHECK_DEADLOCK FALSE
