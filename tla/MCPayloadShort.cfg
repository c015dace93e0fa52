\* One row and a cut at the end of a conforming header.
SPECIFICATION Spec
CONSTANTS
    Packets <- MCPackets
    Rows = {1}
    Cuts = {10}
    Width = 6
    MaxSegments = 3
    MaxChunks = 2
INVARIANTS CutShortIsUnreadable
CHECK_DEADLOCK FALSE
