---------------------------- MODULE FrameHeaders ----------------------------
(***************************************************************************)
(* transmit.FrameHeaders: one frame's header block, laid out once and      *)
(* stamped in place for each frame, and a caller that puts the headers on  *)
(* the wire.  stamp() hands back the block itself, so a caller still       *)
(* holding the frame before copies it first.                               *)
(***************************************************************************)
EXTENDS Raster, Sequences

CONSTANTS
    Videos,             \* formats
    InitialSequences,
    StartFrames(_),     \* frame indices a caller begins at, given the last
    Half,               \* 2^16: what each half of the sequence counter holds
    MaxRaster,          \* 2^15 - 1: what the row and offset fields hold
    HeaderSize,         \* octets of UDP, RTP and payload header
    ClockRate,          \* RTP_CLOCK_RATE
    IntMax,             \* _INT64_MAX
    MaxFrames           \* bound on the frames stamped

Modulus == Half * Half

(* A format's numbers are counts, and its pgroup and rate are not empty;   *)
(* int64 holds more than a sequence number.                                *)
IsFormat(format) ==
    /\ {format.width, format.height, format.octets, format.pixels,
         format.rate_num, format.rate_den, format.max_udp} \subseteq Nat
    /\ format.interlaced \in BOOLEAN
    /\ format.octets > 0 /\ format.pixels > 0 /\ format.rate_num > 0

ASSUME HeadersAssumption ==
    /\ {Half, MaxRaster, HeaderSize, ClockRate, IntMax} \subseteq Nat
    /\ Half > 0 /\ Modulus <= IntMax
    /\ \A video \in Videos :
        IsFormat(video) /\ IsImage(video) /\ video.max_udp >= HeaderSize + video.octets
    /\ InitialSequences \subseteq 0 .. Modulus - 1

VARIABLES
    video, payload, initial,    \* what the block is laid out for
    stamped,                    \* frame indices stamped, in order
    block,                      \* the header block
    sent,                       \* how many of the block's rows were sent
    held,                       \* copies of the rows of earlier frames
    wire,                       \* history: headers sent, in order
    reach                       \* history: the largest number stamp() computed

vars == <<video, payload, initial, stamped, block, sent, held, wire, reach>>

layout == <<video, payload, initial>>

MaxPayloadSize(format) == format.max_udp - HeaderSize

(* _validate(): the payload sizes a format's headers are laid out for. *)
Accepted(format, size) ==
    /\ size % format.octets = 0
    /\ size < Half
    /\ format.width <= MaxRaster
    /\ Tiles(format, size)
    /\ size <= MaxPayloadSize(format)
    /\ format.height > 0
    /\ RowsPerField(format) <= MaxRaster

-----------------------------------------------------------------------------
(* The layout __init__ works out, packet by packet. *)
Count == PacketsPerFrame(video, payload)

PerLine == PacketsPerLine(video, payload)

Packets == 0 .. Count - 1

(* The first packet of an interlaced frame's second field. *)
Split == IF video.interlaced THEN RowsPerField(video) * PerLine ELSE Count

InSecond(k) == k >= Split

Line(k) == (IF InSecond(k) THEN k - Split ELSE k) \div PerLine

OffsetPixels(k) == SampleOffset(video, (k % PerLine) * payload)

(* Seeded fault: only the frame's last packet is marked. *)
MarkedOnce(k) == k = Count - 1

Marked(k) == k = Split - 1 \/ k = Count - 1

(* frame_offset_octets: where a transmitter reads a packet's payload. *)
FrameOffsetOctets(k) ==
    RasterOffset(video, FrameRow(video, Line(k), InSecond(k)), OffsetPixels(k))

(* A row of the block before any stamp. *)
LaidOut(k) ==
    [low |-> 0, high |-> 0, stamp |-> 0, marked |-> Marked(k), second |-> InSecond(k),
     line |-> Line(k), offset |-> OffsetPixels(k), length |-> payload]

(* Seeded fault: one frame further than the arithmetic holds. *)
LastFrameLate == (IntMax - initial) \div Count

(* The last index whose sequence arithmetic stays inside int64. *)
LastFrame == (IntMax - initial) \div Count - 1

(* Seeded fault: each field adds the same whole number of ticks. *)
TimestampDrifting(index, field) ==
    ((FieldsPerFrame * index + field)
        * ((ClockRate * video.rate_den) \div (FieldsPerFrame * video.rate_num))) % Modulus

(* timestamp(): the RTP clock at the field rate, in whole ticks. *)
Timestamp(index, field) ==
    (((FieldsPerFrame * index + field) * ClockRate * video.rate_den)
        \div (FieldsPerFrame * video.rate_num)) % Modulus

(* Seeded fault: the extended half is written when laid out and kept. *)
StampedLowHalf(row, k, index) ==
    [row EXCEPT !.low = (initial + index * Count + k) % Half,
                !.stamp = Timestamp(index, IF row.second THEN 1 ELSE 0)]

(* What stamp() makes of row k, whatever the row held. *)
Stamped(row, k, index) ==
    LET number == (initial + index * Count + k) % Modulus
    IN  [row EXCEPT !.low = number % Half,
                    !.high = number \div Half,
                    !.stamp = Timestamp(index, IF row.second THEN 1 ELSE 0)]

-----------------------------------------------------------------------------
(* The constructor, for a format and payload size it does not refuse.      *)
Init ==
    /\ video \in Videos
    /\ payload \in {size \in 1 .. MaxPayloadSize(video) : Accepted(video, size)}
    /\ initial \in InitialSequences
    /\ block = [k \in Packets |-> LaidOut(k)]
    /\ stamped = << >> /\ held = << >> /\ wire = << >>
    /\ sent = Count
    /\ reach = initial

(* stamp(index), by a caller with no row of the block left to send; an     *)
(* index past the last is refused.                                         *)
Stamp(index) ==
    /\ sent = Count
    /\ index \in 0 .. LastFrame
    /\ block' = [k \in Packets |-> Stamped(block[k], k, index)]
    /\ stamped' = Append(stamped, index)
    /\ sent' = 0
    /\ reach' = initial + index * Count + Count - 1
    /\ UNCHANGED <<layout, held, wire>>

(* A caller about to hold two frames at once copies the first. *)
Copy ==
    /\ held' = held \o [n \in 1 .. Count - sent |-> block[sent + n - 1]]
    /\ sent' = Count
    /\ UNCHANGED <<layout, stamped, block, wire, reach>>

(* The oldest packet goes on the wire: a copy, or a row of the block. *)
Emit ==
    /\ \/ /\ held # << >>
          /\ wire' = Append(wire, Head(held)) /\ held' = Tail(held)
          /\ UNCHANGED sent
       \/ /\ held = << >> /\ sent < Count
          /\ wire' = Append(wire, block[sent]) /\ sent' = sent + 1
          /\ UNCHANGED held
    /\ UNCHANGED <<layout, stamped, block, reach>>

(* The caller starts anywhere and counts on from there, MaxFrames in all;  *)
(* it holds at most one frame beside the block's.                          *)
Next ==
    \/ /\ stamped = << >>
       /\ \E index \in StartFrames(LastFrame) : Stamp(index)
    \/ /\ stamped # << >> /\ Len(stamped) < MaxFrames
       /\ Stamp(stamped[Len(stamped)] + 1)
    \/ held = << >> /\ sent < Count /\ Copy
    \/ Emit

Spec == Init /\ [][Next]_vars

-----------------------------------------------------------------------------
(* The state's types: no field of a header holds more than its width, and  *)
(* no payload is larger than the one choose_payload_size picks.            *)
Header ==
    [low : 0 .. Half - 1, high : 0 .. Half - 1, stamp : 0 .. Modulus - 1,
     marked : BOOLEAN, second : BOOLEAN, line : 0 .. MaxRaster,
     offset : 0 .. MaxRaster, length : 1 .. Half - 1]

HeadersFit ==
    /\ \A k \in Packets : block[k] \in Header
    /\ \A i \in DOMAIN held : held[i] \in Header
    /\ \A i \in DOMAIN wire : wire[i] \in Header

TypeOK ==
    /\ sent \in 0 .. Count
    /\ LET chosen == ChoosePayloadSize(video, MaxPayloadSize(video))
       IN  Accepted(video, chosen) /\ payload <= chosen
    /\ HeadersFit

Joined(header) == header.high * Half + header.low

(* What a receiver tracks: the joined numbers of the packets on the wire   *)
(* run on by one across frames, across the wrap of the low half into the   *)
(* extended half and across the wrap of both, whatever the caller held     *)
(* back and however it restarted.                                          *)
WireRunsOn ==
    \A i \in DOMAIN wire :
        Joined(wire[i]) = (initial + stamped[1] * Count + i - 1) % Modulus

(* Placed by its header alone, as a receiver places it, the packet at each *)
(* place of a frame lands where the transmitter read it, inside the mask   *)
(* fits_raster sets, and the packets of a frame are the frame, once each.  *)
PlacedAt(header) ==
    RasterOffset(video, FrameRow(video, header.line, header.second), header.offset)

EveryOctetOnce ==
    /\ \A i \in DOMAIN wire :
        /\ FitsRaster(video, wire[i].line, wire[i].offset)
        /\ PlacedAt(wire[i]) = FrameOffsetOctets((i - 1) % Count)
    /\ \A f \in 0 .. Len(wire) \div Count - 1 :
        {PlacedAt(wire[f * Count + k + 1]) : k \in Packets} = {payload * k : k \in Packets}

(* A receiver framing by markers and one framing by timestamps agree: the  *)
(* marker is on the last packet of each run of one media timestamp, so on  *)
(* each field's last when interlaced, and nowhere else.                    *)
MarkersEndStamps ==
    \A i \in 1 .. Len(wire) - 1 : wire[i].marked <=> wire[i].stamp # wire[i + 1].stamp

(* The media clock does not drift: between any two packets on the wire,    *)
(* frames apart, the ticks are the exact rate's to within one.             *)
FieldsFrom(i) ==
    FieldsPerFrame * ((i - 1) \div Count) + (IF InSecond((i - 1) % Count) THEN 1 ELSE 0)

ClockIsExact ==
    \A i, j \in DOMAIN wire : i < j =>
        LET ticks == (wire[j].stamp - wire[i].stamp) % Modulus
            unit == FieldsPerFrame * video.rate_num
            exact == (FieldsFrom(j) - FieldsFrom(i)) * ClockRate * video.rate_den
        IN  ticks * unit - exact \in 1 - unit .. unit - 1

(* No number stamp() computes leaves the integers it computes in.          *)
NothingOverflows == reach <= IntMax
=============================================================================
