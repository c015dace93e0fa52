------------------------------- MODULE Timing -------------------------------
(***************************************************************************)
(* timing.py: the read schedule of ST 2110-21 and the two buckets a sender *)
(* is judged by, over a sender that emits frames early, late and in        *)
(* bursts.  Packets are emitted at whole nanoseconds; every other time is  *)
(* exact, counted in parts, Nano of them to the nanosecond.                *)
(***************************************************************************)
EXTENDS Integers, Sequences, FiniteSets, FiniteSetsExt

CONSTANTS
    Videos,         \* formats: [height, interlaced, packets, kind, troff, rate, max_udp]
    Nano,           \* parts of a nanosecond
    TFrame,         \* parts of a frame period
    Clock,          \* RTP ticks of a frame period, as [num, den]
    TimestampModulus,
    StartFrames,    \* media frame numbers a capture begins at
    Slips,          \* whole frames a sender is late by its own media clock
    Jitters,        \* nanoseconds a packet is late by its own read
    IntLimit,       \* _INT64_LIMIT: int64 holds what lies below it, either way
    MaxPackets      \* bound on the packets emitted

FieldsPerFrame == 2

VARIABLES
    video, edition, slip, origin,   \* the sender, and how it is measured
    start,                          \* media frame and packet the capture begins at
    times,                          \* emission instants, in emission order
    level,                          \* the network bucket, drained to the last packet
    levels                          \* history: its level as each packet entered

vars == <<video, edition, slip, origin, start, times, level, levels>>

setting == <<video, edition, slip, origin, start>>

-----------------------------------------------------------------------------
(* read_schedule(), sections 6.2 to 6.4.                                   *)
InterlacedSystems ==
    <<[top |-> 487, lines |-> 525, added |-> 1],
      [top |-> 576, lines |-> 625, added |-> 2],
      [top |-> 1080, lines |-> 1125, added |-> 0]>>

System(height) ==
    InterlacedSystems[Min({i \in DOMAIN InterlacedSystems : height <= InterlacedSystems[i].top})]

(* R_ACTIVE, as a ratio, and the parts of a frame it and TRO_DEFAULT are.  *)
ActiveRatio(v) ==
    IF v.interlaced THEN [num |-> v.height, den |-> System(v.height).lines]
    ELSE [num |-> 1080, den |-> 1125]

Active(v) == (TFrame * ActiveRatio(v).num) \div ActiveRatio(v).den

DefaultOffset(v) ==
    LET system == System(v.height)
        blanking == (system.lines - v.height) \div FieldsPerFrame
    IN  IF v.interlaced THEN (TFrame * (blanking + system.added)) \div system.lines
        ELSE IF v.height >= 1080 THEN (TFrame * 43) \div 1125
        ELSE (TFrame * 28) \div 750

Gapped(v) == v.kind = "N"

TRead(v) == (IF Gapped(v) THEN Active(v) ELSE TFrame) \div v.packets

TOffset(v) == IF v.troff >= 0 THEN v.troff ELSE DefaultOffset(v)

(* The instance's numbers divide, so that every time is a whole number of  *)
(* parts; an offset of a frame or more is refused, and an interlaced       *)
(* raster taller than the systems there are.                               *)
ASSUME TimingAssumption ==
    /\ {Nano, TFrame, Clock.num, Clock.den} \subseteq Nat \ {0}
    /\ {TimestampModulus, IntLimit, MaxPackets} \subseteq Nat \ {0}
    /\ Slips \cup Jitters \subseteq Int /\ StartFrames \subseteq Nat
    /\ TFrame % FieldsPerFrame = 0
    /\ \A v \in Videos :
        /\ {v.height, v.packets, v.rate, v.max_udp} \subseteq Nat \ {0}
        /\ v.kind \in {"N", "NL", "W"} /\ v.interlaced \in BOOLEAN
        /\ v.interlaced => v.height <= 1080
        /\ TOffset(v) \in 0 .. TFrame - 1
        /\ (TFrame * ActiveRatio(v).num) % ActiveRatio(v).den = 0
        /\ Gapped(v) => Active(v) % (FieldsPerFrame * v.packets) = 0
        /\ ~Gapped(v) => TFrame % v.packets = 0
        /\ v.interlaced => TFrame % (FieldsPerFrame * System(v.height).lines) = 0

(* The read instants from T_VD, as runs of evenly spaced reads: one, or a  *)
(* run for each field where the schedule is gapped and interlaced.         *)
Segments ==
    LET n == video.packets
        first == (n + 1) \div FieldsPerFrame
        half == ((FieldsPerFrame * first - n) * TRead(video)) \div FieldsPerFrame
        line == TFrame \div System(video.height).lines
    IN  IF Gapped(video) /\ video.interlaced
        THEN <<[offset |-> 0, first |-> 0, count |-> first],
               [offset |-> TFrame \div FieldsPerFrame + half
                            + (IF edition = "2022" THEN line \div FieldsPerFrame ELSE 0),
                first |-> first, count |-> n - first]>>
        ELSE <<[offset |-> 0, first |-> 0, count |-> n]>>

(* T_VD of a frame, in parts. *)
Datum(frame) == frame * TFrame + TOffset(video)

(* read_times(): the instant packet j is read, truncated to the nanosecond. *)
ReadTime(datum, j) ==
    LET segment == CHOOSE s \in {Segments[i] : i \in DOMAIN Segments} :
                       s.first <= j /\ j < s.first + s.count
    IN  (datum + segment.offset + (j - segment.first) * TRead(video)) \div Nano

-----------------------------------------------------------------------------
(* Ratios in lowest terms, as Fraction keeps them. *)
Divisor[d \in Nat] == [n \in Nat |-> IF d = 0 THEN n ELSE Divisor[n % d][d]]

Magnitude(n) == IF n < 0 THEN -n ELSE n

Ratio(n, d) == LET g == Divisor[d][Magnitude(n)] IN [num |-> n \div g, den |-> d \div g]

Multiple(a, b) == (a \div Divisor[b][a]) * b

(* int64 arithmetic, where nothing guards it. *)
Wrapped(n) == ((n + IntLimit) % (2 * IntLimit)) - IntLimit

(* Seeded fault: the product is bounded and the phase it is added to is not. *)
FitsByProduct(counts, slope, phase) ==
    LET grid == Multiple(slope.den, phase.den)
        part == (phase.num * (grid \div phase.den)) % grid
    IN  Max({Magnitude(n) : n \in counts} \cup {0}) * slope.num * (grid \div slope.den) + part < IntLimit

(* _split_multiply() and _floor_divide() compute phase + n * slope over one *)
(* denominator, the phase's whole part split off: the product has to fit,  *)
(* and the sum of both, or the call is refused.                            *)
Fits(counts, slope, phase) ==
    LET grid == Multiple(slope.den, phase.den)
        offset == phase.num * (grid \div phase.den)
        peak == Max({Magnitude(n) : n \in counts} \cup {0}) * slope.num * (grid \div slope.den)
                    + (offset % grid)
    IN  /\ peak < IntLimit
        /\ Magnitude(offset \div grid) + peak \div grid + 1 < IntLimit

-----------------------------------------------------------------------------
(* c_inst(): the drain interval is TFrame * 10 / (packets * 11) parts.     *)
DrainRate == Ratio(video.packets * 11 * Nano, TFrame * 10)

DrainParts == DrainRate.den

DrainsPer == DrainRate.num

(* Seeded fault: the phase's own remainder is dropped. *)
FloorDivideWhole(delta, base) ==
    ((base * DrainsPer) \div DrainParts) + ((delta * DrainsPer) \div DrainParts)

(* _floor_divide(): grid index of base + delta, the phase at base split off. *)
FloorDivide(delta, base) ==
    LET phase == base * DrainsPer
    IN  (phase \div DrainParts) + ((delta * DrainsPer + (phase % DrainParts)) \div DrainParts)

(* Seeded fault: the grid is anchored to the capture, whatever the origin. *)
CInstFromFirst(at) ==
    LET walk == [i \in DOMAIN at |-> i - FloorDivide(at[i] - at[1], 0)]
    IN  [i \in DOMAIN at |-> 1 + walk[i] - Min({walk[k] : k \in 1 .. i})]

(* The level at each packet: the walk above its running minimum. *)
CInst(at) ==
    LET walk == [i \in DOMAIN at |->
                    i - FloorDivide(at[i] - at[1], IF origin = "epoch" THEN at[1] ELSE 0)]
    IN  [i \in DOMAIN at |-> 1 + walk[i] - Min({walk[k] : k \in 1 .. i})]

(* Whether the pass is answered, and not refused. *)
CInstFits(at) ==
    at # << >> => Fits({at[i] - at[1] : i \in DOMAIN at}, DrainRate,
                       IF origin = "epoch" THEN Ratio(at[1] * DrainsPer, DrainParts) ELSE Ratio(0, 1))

-----------------------------------------------------------------------------
(* vrx(): a capture's frames, its packets known by where they stand.       *)
Frame(i) == start.frame + (start.packet + i - 1) \div video.packets

Packet(i) == (start.packet + i - 1) % video.packets

(* measure() leaves out the packets before the first frame start.          *)
Kept == {i \in DOMAIN times : Frame(i) > start.frame \/ start.packet = 0}

Opening(i) == i - Packet(i)

(* timestamp(): what the sender stamps its own media frame with.           *)
Stamp(frame) == ((frame * Clock.num) \div Clock.den) % TimestampModulus

(* _datums("ideal"): the frame whose datum is nearest an instant. *)
IdealFrame(t) == (t * Nano - TOffset(video) + TFrame \div 2) \div TFrame

(* Seeded fault: the turn of the timestamp is the estimate's own. *)
UnwrappedUnturned(t, stamp) ==
    LET ticks == ((t * Nano - TOffset(video)) * Clock.num) \div (TFrame * Clock.den)
    IN  stamp + (ticks \div TimestampModulus) * TimestampModulus

(* _datums("rtp"): the tick a timestamp names, on the turn of it nearest   *)
(* the instant, and the frame that tick is nearest; the last of it is      *)
(* int64 arithmetic that nothing bounds.                                   *)
Unwrapped(t, stamp) ==
    LET ticks == ((t * Nano - TOffset(video)) * Clock.num) \div (TFrame * Clock.den)
        turns == (ticks - stamp + TimestampModulus \div 2) \div TimestampModulus
    IN  stamp + turns * TimestampModulus

RtpFrame(t, stamp) ==
    Wrapped(Unwrapped(t, stamp) * 2 * Clock.den + Clock.num) \div (2 * Clock.num)

(* The frame packet i's datum is of, on each anchor that names one. *)
Named(anchor, i) ==
    LET opened == Opening(i)
    IN  IF anchor = "ideal" THEN IdealFrame(times[opened])
        ELSE RtpFrame(times[opened], Stamp(Frame(i)))

(* The datum of packet i's frame. *)
Anchored(anchor, i) ==
    IF anchor = "first-packet"
    THEN times[Min(Kept)] * Nano + (Frame(i) - Frame(Min(Kept))) * TFrame
    ELSE Datum(Named(anchor, i))

Anchors == {"ideal", "rtp", "first-packet"}

(* What _datums hands _split_multiply: frames from the first one's datum.  *)
DatumPhase(anchor) == Ratio(Anchored(anchor, Min(Kept)), Nano)

FramePeriod == Ratio(TFrame, Nano)

(* Whether the anchors are answered: every floor on the way to them fits.  *)
DatumsFit(anchor) ==
    LET first == Min(Kept)
        elapsed == {times[Opening(i)] - times[first] : i \in Kept}
        sinceOffset == times[first] * Nano - TOffset(video)
    IN  /\ anchor = "ideal" =>
            Fits(elapsed, Ratio(Nano, TFrame), Ratio(sinceOffset + TFrame \div 2, TFrame))
        /\ anchor = "rtp" =>
            Fits(elapsed, Ratio(Clock.num * Nano, Clock.den * TFrame),
                 Ratio(sinceOffset * Clock.num, Clock.den * TFrame))
        /\ Fits(IF anchor = "first-packet" THEN {Frame(i) - Frame(first) : i \in Kept}
                ELSE {Named(anchor, i) - Named(anchor, first) : i \in Kept},
                FramePeriod, DatumPhase(anchor))

Clip(n, low, high) == Max({low, Min({n, high})})

Ceiling(n, d) == -((-n) \div d)

(* Seeded fault: a read within the nanosecond has not happened yet. *)
RoomBefore(windowed, part, offset) == windowed * Nano - part - offset

(* What is left of the schedule's run up to the end of a nanosecond. *)
Room(windowed, part, offset) == (windowed + 1) * Nano - part - offset

(* The nanoseconds past a datum among which a run of reads lies. *)
WindowLow(segment) == segment.offset \div Nano - 1

WindowHigh(segment) == Ceiling(segment.offset + segment.count * TRead(video), Nano) + 1

(* Reads of one run that an instant delta nanoseconds past the datum's     *)
(* whole part has passed; outside the run's window they are none or all.   *)
Drained(segment, delta, part) ==
    LET windowed == Clip(delta, WindowLow(segment), WindowHigh(segment))
    IN  Clip(Ceiling(Room(windowed, part, segment.offset), TRead(video)), 0, segment.count)

(* The denominator a run of reads is counted over. *)
Scale(anchor, segment) ==
    LET datum == Multiple(FramePeriod.den, DatumPhase(anchor).den)
    IN  Multiple(datum, Multiple(Ratio(TRead(video), Nano).den, Ratio(segment.offset, Nano).den))

(* Whether vrx() is answered: it is refused a window too wide to scale.    *)
VrxFits(anchor) ==
    /\ DatumsFit(anchor)
    /\ \A s \in DOMAIN Segments :
        LET segment == Segments[s]
            widest == Max({Magnitude(WindowLow(segment)), Magnitude(WindowHigh(segment))})
        IN  (widest + 1) * Scale(anchor, segment) < IntLimit \div 2

(* The buffer's level at packet i, read with the packet counted. *)
Vrx(anchor, i) ==
    LET datum == Anchored(anchor, i)
        drained == [s \in DOMAIN Segments |->
                       Drained(Segments[s], times[i] - datum \div Nano, datum % Nano)]
    IN  Packet(i) + 1 - (IF Len(Segments) = 1 THEN drained[1] ELSE drained[1] + drained[2])

-----------------------------------------------------------------------------
(* sender_limits(), section 7.1. *)
Unbounded == -1

Row(kind) ==
    IF kind = "W" THEN [octets |-> 1500 * 720, vrx |-> 300, floor |-> 16, cmax |-> 21600]
    ELSE [octets |-> 1500 * 8, vrx |-> 27000, floor |-> 4, cmax |-> 43200]

Limits(kind) ==
    LET row == Row(kind)
        packetRate == video.packets * video.rate
        maxudp == IF video.max_udp = 1460 THEN 1500 ELSE video.max_udp
        active == IF kind = "N" THEN ActiveRatio(video) ELSE [num |-> 1, den |-> 1]
    IN  [kind |-> kind,
         vrx_full |-> Max({row.octets \div maxudp, packetRate \div row.vrx}),
         cmax |-> IF kind = "W" /\ packetRate >= 900000 THEN Unbounded
                  ELSE Max({row.floor, (packetRate * active.den) \div (row.cmax * active.num)})]

Inside(limits, cMax, vrxMax) ==
    /\ vrxMax <= limits.vrx_full
    /\ limits.cmax = Unbounded \/ cMax <= limits.cmax

(* Seeded fault: a buffer that ran dry is judged by its peaks. *)
ProfileOfPeaks(cMax, vrxMax, vrxMin) ==
    CASE Inside(Limits(video.kind), cMax, vrxMax) -> video.kind
      [] ~Inside(Limits(video.kind), cMax, vrxMax) /\ Inside(Limits("W"), cMax, vrxMax) -> "W"
      [] OTHER -> "none"

(* _profile(): the best sender type the peaks satisfy.                     *)
Profile(cMax, vrxMax, vrxMin) ==
    CASE vrxMin >= 0 /\ Inside(Limits(video.kind), cMax, vrxMax) -> video.kind
      [] vrxMin >= 0 /\ ~Inside(Limits(video.kind), cMax, vrxMax)
             /\ Inside(Limits("W"), cMax, vrxMax) -> "W"
      [] OTHER -> "none"

(* measure(): both buckets over what is kept of a capture. *)
KeptTimes == SubSeq(times, Min(Kept), Len(times))

Measure(anchor) ==
    LET buckets == {CInst(KeptTimes)[i] : i \in DOMAIN KeptTimes}
        buffer == {Vrx(anchor, i) : i \in Kept}
    IN  [c_inst_max |-> Max(buckets), vrx_max |-> Max(buffer), vrx_min |-> Min(buffer),
         profile |-> Profile(Max(buckets), Max(buffer), Min(buffer))]

-----------------------------------------------------------------------------
Init ==
    /\ video \in Videos /\ edition \in {"2017", "2022"} /\ slip \in Slips
    /\ origin \in {"epoch", "first"}
    /\ edition = "2022" \/ (Gapped(video) /\ video.interlaced)
    /\ start \in [frame : StartFrames, packet : {0, video.packets - 1}]
    /\ times = << >> /\ level = 0 /\ levels = << >>

Last == times[Len(times)]

(* Drain instants after one nanosecond and no later than another: every    *)
(* DrainParts nanoseconds hold DrainsPer of them.                          *)
Drains(after, upTo) ==
    LET anchor == IF origin = "epoch" THEN 0 ELSE times[1]
        fewest == ((after - anchor) \div DrainParts) * DrainsPer
        most == ((upTo - anchor) \div DrainParts + 1) * DrainsPer
    IN  Cardinality({k \in fewest .. most :
            /\ (after - anchor) * DrainsPer < k * DrainParts
            /\ k * DrainParts <= (upTo - anchor) * DrainsPer})

(* The sender's next packet, late by its own read or as soon as the packet *)
(* before it has gone; the network's bucket drains and takes it in.        *)
Emit(jitter) ==
    LET i == Len(times) + 1
        due == ReadTime(Datum(Frame(i) + slip), Packet(i)) + jitter
        t == IF i = 1 THEN due ELSE Max({Last, due})
    IN  /\ i <= MaxPackets
        /\ Packet(i) = 0 => 2 * Magnitude(t * Nano - Datum(Frame(i) + slip)) < TFrame
        /\ times' = Append(times, t)
        /\ level' = (IF i = 1 THEN 0 ELSE Max({0, level - Drains(Last, t)})) + 1
        /\ levels' = Append(levels, level')
        /\ UNCHANGED setting

Next == \E jitter \in Jitters : Emit(jitter)

Spec == Init /\ [][Next]_vars

-----------------------------------------------------------------------------
(* What a property may ask of the senders and the captures, beyond what    *)
(* the code does: a frame is long enough by the media clock for its stamp  *)
(* to name it; a sender is no further from that clock than half a turn of  *)
(* the stamp, all that the stamp alone can tell; and every instant of a    *)
(* capture is int64, as the arrays timing.py is given hold them.           *)
RatesAreTold == 2 * Clock.den - 2 <= Clock.num

SlipsAreNear ==
    \A s \in Slips :
        (2 * Magnitude(s) + 1) * Clock.num + 2 * Clock.den <= Clock.den * TimestampModulus

InstantsAreInt64 ==
    \A f \in StartFrames, s \in Slips, j \in Jitters :
        (f + MaxPackets + Magnitude(s) + 4) * TFrame + (Magnitude(j) + 1) * Nano <= IntLimit * Nano

-----------------------------------------------------------------------------
(* The state's types: instants never go back, a bucket holds at least the  *)
(* packet that was just put in it, and no answer, nor any number on the    *)
(* way to one that is not refused, leaves int64: a drain's index, a datum, *)
(* what is left of a run of reads.                                         *)
IsInt64(n) == -IntLimit <= n /\ n < IntLimit

TypeOK ==
    /\ Len(levels) = Len(times)
    /\ \A i \in DOMAIN times : IsInt64(times[i]) /\ CInst(times)[i] \in 1 .. i
    /\ \A i \in DOMAIN times : i > 1 => times[i - 1] <= times[i]
    /\ CInstFits(times) => \A i \in DOMAIN times :
            IsInt64(FloorDivide(times[i] - times[1], IF origin = "epoch" THEN times[1] ELSE 0))
    /\ \A i \in Kept : \A anchor \in Anchors : VrxFits(anchor) =>
            LET datum == Anchored(anchor, i)
            IN  /\ IsInt64(datum \div Nano)
                /\ \A s \in DOMAIN Segments :
                    LET segment == Segments[s]
                        windowed == Clip(times[i] - datum \div Nano,
                                         WindowLow(segment), WindowHigh(segment))
                    IN  IsInt64((Room(windowed, datum % Nano, segment.offset)
                                    * Scale(anchor, segment)) \div Nano)

(* The closed form is the bucket: drained one packet at each instant of    *)
(* the grid that finds one, and never below empty.                         *)
CInstIsTheBucket == CInstFits(times) => CInst(times) = levels

(* Leaving out a partial leading frame never makes a sender look burstier. *)
TrimmingNeverAdds ==
    origin = "epoch" /\ Kept # {} /\ CInstFits(KeptTimes) =>
        \A i \in DOMAIN KeptTimes : CInst(KeptTimes)[i] <= levels[Min(Kept) + i - 1]

(* Two anchors name the two frames there are: the slot the frame was sent  *)
(* in, and the media frame its timestamp is of, across the stamp's wrap    *)
(* and however many frames the sender has slipped.  The second is so while *)
(* the ticks since the epoch, doubled over the frame's denominator, are    *)
(* int64: nothing refuses them where they are not.                         *)
TicksAreInt64 ==
    \A i \in Kept : IsInt64(Unwrapped(times[Opening(i)], Stamp(Frame(i))) * 2 * Clock.den + Clock.num)

AnchorsNameTheFrame ==
    \A i \in Kept :
        /\ DatumsFit("ideal") => Anchored("ideal", i) = Datum(Frame(i) + slip)
        /\ DatumsFit("rtp") /\ TicksAreInt64 => Anchored("rtp", i) = Datum(Frame(i))

(* On every anchor, the windowed arithmetic is a count of the instants     *)
(* read_times gives: those no later than the packet have drained one each. *)
VrxIsTheBuffer ==
    \A i \in Kept : \A anchor \in Anchors : VrxFits(anchor) =>
        LET datum == Anchored(anchor, i)
        IN  Vrx(anchor, i) = Packet(i) + 1
                - Cardinality({j \in 0 .. video.packets - 1 : ReadTime(datum, j) <= times[i]})

(* A verdict is earned: no packet of a sender given a type was emitted as  *)
(* late as the read of the packet after it, and the bucket never held more *)
(* than the type allows, nor was any packet read more than its buffer late.*)
ReadOf(i, ahead) == ReadTime(Datum(Frame(i) + slip), Packet(i) + ahead)

ProfileIsEarned ==
    Kept # {} /\ start.packet = 0 /\ CInstFits(KeptTimes) /\ VrxFits("ideal") =>
        LET profile == Measure("ideal").profile
        IN  /\ profile = "none" <=>
                   \/ \E i \in Kept : Packet(i) < video.packets - 1 /\ times[i] >= ReadOf(i, 1)
                   \/ \A kind \in {video.kind, "W"} :
                        \E i \in Kept : ~Inside(Limits(kind), levels[i], Vrx("ideal", i))
            /\ profile # "none" => \A i \in Kept :
                   /\ Limits(profile).cmax # Unbounded => levels[i] <= Limits(profile).cmax
                   /\ Packet(i) >= Limits(profile).vrx_full =>
                          times[i] >= ReadOf(i, -Limits(profile).vrx_full)
=============================================================================
