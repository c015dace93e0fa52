\* A second copy straight after the first, as a switch repeats a packet.
SPECIFICATION Spec
CONSTANTS
    UnitPackets = 3
    Lag = 0
    MaxCount = 9
    MaxArrivals = 9
INVARIANTS TypeOK IndexForgetsTheChunks FramesAreUnits PacketsAreFiled EveryStartIsClaimed PairingIsTheFieldBit
CHECK_DEADLOCK FALSE
