SPECIFICATION Spec
CONSTANTS
    Packets <- MCPackets
    Rows = {1, 2}
    Cuts = {10, 13, 20}
    Width = 3
    MaxSegments = 3
    MaxChunks = 2
INVARIANTS TypeOK FixedFieldsAreOwn DescriptorsAreTrue NeighboursDoNotInterfere FastPathAgrees
CHECK_DEADLOCK FALSE
