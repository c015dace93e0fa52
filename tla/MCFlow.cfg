\* The narrow space (8) wraps at 8 and both wrap at 16.
SPECIFICATION FlowSpec
CONSTANTS
    NarrowSpace = 8
    NarrowDropout = 3
    WideSpace = 16
    WideDropout = 8
    Misorder = 2
    Starts <- MCStarts
    MaxCount = 23
    MaxFlight = 3
    MaxArrivals = 6
INVARIANTS FlowTypeOK UnwrapsTheCount LossIsExact EventsAreTrue
CHECK_DEADLOCK FALSE
