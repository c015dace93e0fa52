SPECIFICATION Spec
CONSTANTS
    Videos <- MCVideos
    Nano = 1000
    TFrame = 24750
    Clock <- MCClock
    TimestampModulus = 64
    StartFrames = {7, 817}
    Slips = {0, 3}
    Jitters <- MCJitters
    IntLimit = 27010
    MaxPackets = 6
INVARIANTS TypeOK CInstIsTheBucket TrimmingNeverAdds AnchorsNameTheFrame VrxIsTheBuffer ProfileIsEarned
CHECK_DEADLOCK FALSE
