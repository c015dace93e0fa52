\* A pair recorded inside one run of the extended number.
SPECIFICATION Spec
CONSTANTS
    WideSpace = 16
    Start = 3
    MaxCount = 2
    MaxDelay = 1
    MaxRepeats = 1
INVARIANTS TypeOK AccountIsTheNetworks SkewIsThePaths
CHECK_DEADLOCK FALSE
