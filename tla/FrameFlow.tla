------------------------------ MODULE FrameFlow ------------------------------
(***************************************************************************)
(* An interlaced flow of marked units, captured into chunks that are       *)
(* handed to a FrameTracker and to frame_starts.  Packets are lost, and    *)
(* any packet's second copy may arrive: straight after it, or up to Lag    *)
(* packets behind the newest, as the slower leg of a redundant pair is.    *)
(***************************************************************************)
EXTENDS FrameTracker

CONSTANTS
    UnitPackets,    \* packets of a marked unit
    Lag,            \* how far behind the newest a second copy may be
    MaxCount,       \* bound on the sender's count
    MaxArrivals     \* bound on the packets captured

(* A unit of one packet has no edge to see (every packet is marked); of    *)
(* two, one loss would put two markers side by side.                       *)
ASSUME UnitAssumption ==
    /\ UnitPackets \in Nat /\ UnitPackets > 2
    /\ {Lag, MaxCount, MaxArrivals} \subseteq Nat

VARIABLES
    newest,         \* the sender's count furthest along; -1 before the first
    buffer,         \* packets captured and not yet handed over
    capture,        \* history: packets handed over, in arrival order
    index,          \* history: what observe() answered for each of them
    starts          \* history: what frame_starts() answered for each

vars == <<tracker, newest, buffer, capture, index, starts>>

(* ST 2110-20 section 6.1.2 and 6.1.4: the marker on a unit's last packet,  *)
(* and the F bit on every packet of the second of a frame's two.            *)
IsMarked(count) == (count + 1) % UnitPackets = 0

IsSecond(count) == (count \div UnitPackets) % 2 = 1

Markers(packets) == [i \in DOMAIN packets |-> IsMarked(packets[i])]

Seconds(packets) == [i \in DOMAIN packets |-> IsSecond(packets[i])]

Captured == {capture[i] : i \in DOMAIN capture} \cup {buffer[i] : i \in DOMAIN buffer}

Init ==
    /\ TrackerInit
    /\ newest = -1
    /\ buffer = << >> /\ capture = << >> /\ index = << >> /\ starts = << >>

(* The flow goes on; fewer packets are lost in a row than would leave two  *)
(* markers side by side.                                                   *)
Arrive(count) ==
    /\ newest' = count
    /\ buffer' = Append(buffer, count)
    /\ UNCHANGED <<tracker, capture, index, starts>>

ArriveAgain(count) ==
    /\ count \in Captured
    /\ buffer' = Append(buffer, count)
    /\ UNCHANGED <<tracker, newest, capture, index, starts>>

(* A chunk is handed over: the caller asks frame_starts with the marker    *)
(* the tracker last saw, and the tracker observes it.                      *)
Hand ==
    /\ ObserveMarkers(Markers(buffer))
    /\ index' = index \o Indexed(FrameBoundaries(Markers(buffer), marked), frames)
    /\ starts' = starts \o FrameStarts(Markers(buffer), marked)
    /\ capture' = capture \o buffer
    /\ buffer' = << >>
    /\ UNCHANGED newest

Next ==
    \/ /\ Len(capture \o buffer) < MaxArrivals
       /\ \/ \E count \in newest + 1 .. newest + UnitPackets - 1 :
                count <= MaxCount /\ Arrive(count)
          \/ \E count \in newest - Lag .. newest : ArriveAgain(count)
    \/ Hand

Spec == Init /\ [][Next]_vars

-----------------------------------------------------------------------------
TypeOK ==
    /\ frames \in Nat /\ marked \in BOOLEAN
    /\ newest \in -1 .. MaxCount
    /\ buffer \in Seq(Nat) /\ capture \in Seq(Nat)
    /\ index \in Seq(Nat) /\ starts \in Seq(BOOLEAN)
    /\ Len(index) = Len(capture) /\ Len(starts) = Len(capture)

(* Where a marker rises in the capture as a whole, its chunks forgotten. *)
Rises(i) ==
    /\ i \in DOMAIN capture
    /\ IsMarked(capture[i])
    /\ i = 1 \/ ~IsMarked(capture[i - 1])

(* The index is the capture's, not the chunking's: each packet is numbered *)
(* by the rising edges anywhere before it, and frames counts them all.     *)
IndexForgetsTheChunks ==
    /\ \A i \in DOMAIN capture : index[i] = Cardinality({j \in 1 .. i - 1 : Rises(j)})
    /\ frames = Cardinality({i \in DOMAIN capture : Rises(i)})

(* A unit ends once for its marker, however often that packet arrives.     *)
FramesAreUnits ==
    frames = Cardinality({capture[i] : i \in {j \in DOMAIN capture : IsMarked(capture[j])}})

(* A packet's first copy is filed under the unit it belongs to, counting   *)
(* the units whose marker arrived.                                         *)
PacketsAreFiled ==
    \A i \in DOMAIN capture :
        (\A j \in 1 .. i - 1 : capture[j] # capture[i]) =>
            index[i] = Cardinality({c \in {capture[j] : j \in 1 .. i - 1} :
                                        IsMarked(c) /\ c < capture[i]})

(* Wherever the chunks were cut, the packet after a rising edge is claimed *)
(* as a start, and none is claimed that does not follow a marked packet.   *)
EveryStartIsClaimed ==
    \A i \in DOMAIN capture :
        /\ Rises(i - 1) => starts[i]
        /\ starts[i] => i > 1 /\ IsMarked(capture[i - 1])

(* Of a capture with nothing lost or repeated that opens a frame, pairing  *)
(* the units in arrival order says what the F bits say.                    *)
PairingIsTheFieldBit ==
    (\A i \in DOMAIN capture : capture[i] = i - 1) =>
        PairedStarts(Markers(capture), TRUE)
            = FieldStarts(Markers(capture), Seconds(capture), TRUE)
=============================================================================
