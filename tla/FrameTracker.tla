---------------------------- MODULE FrameTracker ----------------------------
(***************************************************************************)
(* framing.FrameTracker and the two functions beside it: what the marker   *)
(* column of a chunk says about the frames it carries.                     *)
(***************************************************************************)
EXTENDS Integers, Sequences, FiniteSets

VARIABLES
    frames,         \* marked units whose last packet has been seen
    marked          \* the marker bit of the last packet seen

tracker == <<frames, marked>>

TrackerInit == frames = 0 /\ marked = FALSE

(* Seeded fault: the column grows instead of shifting. *)
AfterLonger(first, c) == <<first>> \o c

(* Column c shifted one packet later, with first in the place it leaves. *)
After(first, c) == [i \in DOMAIN c |-> IF i = 1 THEN first ELSE c[i - 1]]

(* Seeded fault: a chunk forgets the marker the one before it ended on. *)
BoundariesForgetful(markers, previous) ==
    [i \in DOMAIN markers |-> markers[i] /\ ~After(FALSE, markers)[i]]

(* frame_boundaries(): a packet ends a unit where the marker rises. *)
FrameBoundaries(markers, previous) ==
    [i \in DOMAIN markers |-> markers[i] /\ ~After(previous, markers)[i]]

(* Seeded fault: the first packet of a chunk is never claimed. *)
UnitStartsUnclaimed(markers, previous) ==
    After(FALSE, FrameBoundaries(markers, previous))

UnitStarts(markers, previous) == After(previous, FrameBoundaries(markers, previous))

(* frame_starts(), progressive: the packet after a boundary, and the first *)
(* of a chunk where the packet before it carried the marker.               *)
FrameStarts(markers, previous) == UnitStarts(markers, previous)

(* frame_starts(interlaced=True, field=second): of the units of a frame,   *)
(* the one whose first packet is of the first field.                       *)
FieldStarts(markers, second, previous) ==
    [i \in DOMAIN markers |-> UnitStarts(markers, previous)[i] /\ ~second[i]]

(* Seeded fault: the second unit start of a chunk is kept, not the first. *)
PairedFromSecond(markers, previous) ==
    LET starts == UnitStarts(markers, previous)
    IN  [i \in DOMAIN markers |->
            starts[i] /\ Cardinality({j \in 1 .. i - 1 : starts[j]}) % 2 = 1]

(* frame_starts(interlaced=True) with no F bits: every other unit start.   *)
PairedStarts(markers, previous) ==
    LET starts == UnitStarts(markers, previous)
    IN  [i \in DOMAIN markers |->
            starts[i] /\ Cardinality({j \in 1 .. i - 1 : starts[j]}) % 2 = 0]

(* Seeded fault: the inclusive scan, which files a unit's last packet under *)
(* the unit after it.                                                       *)
IndexedInclusive(edges, before) ==
    [i \in DOMAIN edges |-> before + Cardinality({j \in 1 .. i : edges[j]})]

(* How many units ended before each packet of a chunk. *)
Indexed(edges, before) ==
    [i \in DOMAIN edges |-> before + Cardinality({j \in 1 .. i - 1 : edges[j]})]

(* observe(): an empty chunk is returned from before anything is kept. *)
ObserveMarkers(markers) ==
    LET edges == FrameBoundaries(markers, marked)
    IN  IF markers = << >> THEN UNCHANGED tracker
        ELSE /\ frames' = frames + Cardinality({i \in DOMAIN edges : edges[i]})
             /\ marked' = markers[Len(markers)]
=============================================================================
