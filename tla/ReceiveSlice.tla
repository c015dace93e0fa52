---------------------------- MODULE ReceiveSlice ----------------------------
(***************************************************************************)
(* The receive slice end to end: FrameHeaders' wire, a network that loses, *)
(* repeats and overtakes, and a receiver that does with each packet what   *)
(* tests/test_receive_slice.py does - counts it, frames it by its marker   *)
(* and places it where its own header says.  Chunking is left out of this  *)
(* composition: every chunk is one packet, the hardest cut there is.       *)
(***************************************************************************)
EXTENDS FrameHeaders, FrameTracker

CONSTANTS
    NarrowDropout, WideDropout, Misorder,   \* as in SequenceSpace
    MaxFlight,          \* bound on the packets in the network
    MaxMishaps          \* bound on the packets lost, repeated and overtaken

ASSUME SliceAssumption ==
    /\ {WideDropout, Misorder, MaxFlight, MaxMishaps} \subseteq Nat
    /\ 1 < WideDropout /\ WideDropout + Misorder <= Modulus

INSTANCE Rfc3550 WITH NarrowSpace <- Half, WideSpace <- Modulus

VARIABLES
    flight,             \* places on the wire of the packets in the network
    mishaps,            \* packets lost, repeated and overtaken
    arrived,            \* history: the places that arrived, in order
    account,            \* the SequenceTracker
    rasters             \* the receiver's frames: the octets each has places for

network == <<flight, mishaps>>
receiver == <<arrived, account, rasters, tracker>>

SliceInit ==
    /\ Init
    /\ flight = {} /\ mishaps = 0
    /\ arrived = << >> /\ account = Fresh /\ rasters = <<{}>>
    /\ TrackerInit

(* What goes on the wire is in the network. *)
Transmit ==
    /\ Cardinality(flight) < MaxFlight
    /\ Next
    /\ flight' = flight \cup (Len(wire) + 1 .. Len(wire'))
    /\ UNCHANGED <<mishaps, receiver>>

Lose(i) ==
    /\ mishaps < MaxMishaps
    /\ mishaps' = mishaps + 1
    /\ flight' = flight \ {i}
    /\ UNCHANGED <<vars, receiver>>

(* frame_starts() of the packet, told the marker before it. *)
Begins(header) ==
    IF video.interlaced THEN FieldStarts(<<header.marked>>, <<header.second>>, marked)[1]
    ELSE FrameStarts(<<header.marked>>, marked)[1]

(* A descriptor is placed where raster_offset puts it, if fits_raster      *)
(* passes it; a packet that begins a frame begins the receiver's next.     *)
Placed(header) == IF FitsRaster(video, header.line, header.offset) THEN {PlacedAt(header)} ELSE {}

Arrive(i, kept) ==
    LET header == wire[i]
        untoward == One(kept) + One(\E j \in flight : j < i)
    IN  /\ mishaps + untoward <= MaxMishaps
        /\ mishaps' = mishaps + untoward
        /\ flight' = IF kept THEN flight ELSE flight \ {i}
        /\ arrived' = Append(arrived, i)
        /\ account' = Admit(account, TRUE, Joined(header))
        /\ ObserveMarkers(<<header.marked>>)
        /\ rasters' = IF Begins(header) THEN Append(rasters, Placed(header))
                      ELSE [rasters EXCEPT ![Len(rasters)] = @ \cup Placed(header)]
        /\ UNCHANGED vars

SliceNext ==
    \/ Transmit
    \/ \E i \in flight : Lose(i)
    \/ \E i \in flight, kept \in BOOLEAN : Arrive(i, kept)

SliceSpec == SliceInit /\ [][SliceNext]_<<vars, network, receiver>>

-----------------------------------------------------------------------------
Frame == {payload * k : k \in Packets}

(* What the receiver can tell by its counters alone: while the account has *)
(* no discontinuity, and the flow was met at a frame's first packet, every *)
(* frame it has closed is whole, and there are as many as were sent.       *)
CleanIsWhole ==
    account.received > 0 /\ account.discontinuities = 0 /\ arrived[1] = 1 =>
        /\ \A n \in 1 .. Len(rasters) - 1 : rasters[n] = Frame
        /\ Len(rasters) = (account.received - 1) \div Count + 1

(* The hole and the loss move together: of a flow met at its first packet, *)
(* whose account knows of losses only and whose frames were all told       *)
(* apart, the packets up to the newest whose place in the raster of their  *)
(* frame is empty are as many as those counted lost.                       *)
LossIsTheHoles ==
    LET newest == arrived[Len(arrived)]
        holes == {i \in 1 .. newest :
                     FrameOffsetOctets((i - 1) % Count) \notin rasters[(i - 1) \div Count + 1]}
    IN  /\ arrived # << >> /\ arrived[1] = 1
        /\ account.reordered = 0 /\ account.duplicated = 0
        /\ Len(rasters) = (newest - 1) \div Count + 1
        => LostOf(account) = Cardinality(holes)
=============================================================================
