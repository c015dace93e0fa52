\* The second leg's copy arrives one packet behind the newest.
SPECIFICATION Spec
CONSTANTS
    UnitPackets = 3
    Lag = 1
    MaxCount = 6
    MaxArrivals = 6
INVARIANT FramesAreUnits
CHECK_DEADLOCK FALSE
