\* A second is ten microseconds of this instance's clock: a frame, four.
SPECIFICATION Spec
CONSTANTS
    None = None
    Refused = Refused
    MaxRaster = 7
    MaxPort = 3
    MaxUdp = 9
    MaxCmax = 2
    StandardUdp = 8
    ClockRate = 90
    Second = 10
    Text <- MCText
    Calls <- MCCalls
    Groupings <- MCGroupings
    Connections <- MCConnections
    MaxEdits = 2
INVARIANTS TypeOK WrittenReadsBack FlowsAreTheirSections FormatIsTheVideos
CHECK_DEADLOCK FALSE
