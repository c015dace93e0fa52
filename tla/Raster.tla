------------------------------- MODULE Raster -------------------------------
(***************************************************************************)
(* geometry.py: the arithmetic between a raster, its pgroups and the       *)
(* packets that carry it.  A video is a record of the format parameters    *)
(* the arithmetic reads; its pgroup is given as the octets and pixels the  *)
(* table of ST 2110-20 has for its sampling and depth.                     *)
(***************************************************************************)
EXTENDS Integers, FiniteSets, FiniteSetsExt

FieldsPerFrame == 2

LineBytes(video) == (video.width \div video.pixels) * video.octets

(* What line_bytes() refuses. *)
IsImage(video) == video.width > 0 /\ video.width % video.pixels = 0

Tiles(video, payload) == payload > 0 /\ LineBytes(video) % payload = 0

(* Seeded fault: whole pgroups, whether or not they divide the line. *)
ChooseLargest(video, limit) == (limit \div video.octets) * video.octets

(* choose_payload_size(): the most pgroups within the limit that divide a  *)
(* line's; one always does.                                                *)
ChoosePayloadSize(video, limit) ==
    LET groups == LineBytes(video) \div video.octets
    IN  video.octets * Max({n \in 1 .. Min({limit \div video.octets, groups}) :
                                groups % n = 0})

PacketsPerLine(video, payload) == LineBytes(video) \div payload

PacketsPerFrame(video, payload) == PacketsPerLine(video, payload) * video.height

(* Seeded fault: an odd raster's extra row is rounded away. *)
RowsPerFieldHalved(video) ==
    IF video.interlaced THEN video.height \div FieldsPerFrame ELSE video.height

(* Rows of the first field, or of a progressive frame. *)
RowsPerField(video) ==
    IF video.interlaced THEN (video.height + FieldsPerFrame - 1) \div FieldsPerFrame
    ELSE video.height

FitsRaster(video, line, offset) ==
    /\ 0 <= line /\ line < RowsPerField(video)
    /\ 0 <= offset /\ offset < video.width

ByteOffset(video, samples) == (samples \div video.pixels) * video.octets

SampleOffset(video, octets) == (octets \div video.octets) * video.pixels

RasterOffset(video, line, offset) == line * LineBytes(video) + ByteOffset(video, offset)

(* The frame row of a row numbered from the top of its field.  The library *)
(* leaves this sum to the transmitter and to a receiver's consumer.        *)
FrameRow(video, line, second) ==
    IF video.interlaced THEN line * FieldsPerFrame + (IF second THEN 1 ELSE 0) ELSE line
=============================================================================
