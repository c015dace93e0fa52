\* Steps of 8: 0 duplicate, 1 in step, 2 gap, 3-5 jump, 6-7 reordered.
SPECIFICATION Spec
CONSTANTS
    NarrowSpace = 8
    NarrowDropout = 3
    WideSpace = 16
    WideDropout = 8
    Misorder = 2
    MaxChunk = 3
    MaxReceived = 5
    None = None
    Chunks <- MCChunks
INVARIANTS TypeOK EventsAreSteps SurplusIsExplained
PROPERTY KeepsThePacketAccount
CHECK_DEADLOCK FALSE
