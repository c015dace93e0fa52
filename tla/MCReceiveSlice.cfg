SPECIFICATION SliceSpec
CONSTANTS
    Videos <- MCVideos
    InitialSequences <- MCInitialSequences
    StartFrames <- MCStartFrames
    Half = 16
    MaxRaster = 15
    HeaderSize = 10
    ClockRate = 45
    IntMax = 411
    MaxFrames = 2
    NarrowDropout = 4
    WideDropout = 128
    Misorder = 2
    MaxFlight = 2
    MaxMishaps = 2
INVARIANTS TypeOK WireRunsOn EveryOctetOnce MarkersEndStamps ClockIsExact NothingOverflows CleanIsWhole LossIsTheHoles
CHECK_DEADLOCK FALSE
