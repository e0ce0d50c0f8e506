SPECIFICATION RtpSpec
CONSTANTS
    RTP_MAX_PKT_SIZE = 2
    mClockRate = 7
    mFps = 2
    SeqWrap = 4
    TsWrap = 8
    MaxNaluSize = 6
    MaxNaluNum = 2
    mNaluOffset = 4
    MaxBytes = 3
    Encoded <- MCEncoded
    MaxFrames = 2
INVARIANTS
    Numbered
    Reassembles
    ParsedNalus
PROPERTIES
    ImplementsNaluChannel
CHECK_DEADLOCK FALSE
