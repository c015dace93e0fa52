\* One IPv6 group in two spellings.
SPECIFICATION Spec
CONSTANTS
    None = None
    Refused = Refused
    MaxRaster = 7
    MaxPort = 3
    MaxUdp = 9
    MaxCmax = 2
    StandardUdp = 8
    ClockRate = 90
    Second = 10
    Text <- MCText
    Calls <- MCSpelledCalls
    Groupings <- MCGroupings
    Connections <- MCConnections
    MaxEdits = 1
INVARIANTS TwoPathsAreWritten
CHECK_DEADLOCK FALSE
