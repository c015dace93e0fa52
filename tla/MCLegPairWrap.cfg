\* A pair recorded across the wrap of the extended number.
SPECIFICATION Spec
CONSTANTS
    WideSpace = 16
    Start = 15
    MaxCount = 2
    MaxDelay = 1
    MaxRepeats = 1
INVARIANTS LostIsWhatNeitherCarried
CHECK_DEADLOCK FALSE
