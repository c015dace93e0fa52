---------------------------- MODULE HeaderProofs ----------------------------
(***************************************************************************)
(* The receive slice, for every format, payload size, initial number and   *)
(* width of the fields.  The wire runs on by one, covers each raster once, *)
(* keeps the media clock and marks the end of a field; every header fits   *)
(* its fields, and nothing leaves int64.  Over any network that keeps few  *)
(* enough packets back, the receiver's account tells it what its frames    *)
(* hold.                                                                   *)
(***************************************************************************)
EXTENDS ReceiveSlice, Foundations

-----------------------------------------------------------------------------
(* Quotients and remainders. *)
LEMMA Dividing ==
    ASSUME NEW a \in Nat, NEW m \in Nat, m > 0
    PROVE  /\ a \div m \in Nat
           /\ a % m \in 0 .. m - 1
           /\ a = (a \div m) * m + (a % m)
  BY SMT

(* A number below q whole m's has a quotient below q. *)
LEMMA QuotientBelow ==
    ASSUME NEW a \in Nat, NEW m \in Nat, m > 0, NEW q \in Nat, a < q * m
    PROVE  a \div m < q
<1>1. a \div m \in Nat /\ a = (a \div m) * m + (a % m) /\ a % m >= 0
  BY Dividing
<1> DEFINE d == a \div m
<1>2. d \in Nat /\ d * m <= a
  <2>1. d * m \in Nat
    BY <1>1
  <2> QED  BY <1>1, <2>1, Dividing
<1> HIDE DEF d
<1>3. SUFFICES ASSUME d >= q PROVE FALSE
  BY <1>2 DEF d
<1>4. (d - q) * m >= 0
  BY <1>2, <1>3
<1>5. (d - q) * m = d * m - q * m
  BY <1>2
<1>6. d * m \in Nat /\ q * m \in Nat
  BY <1>2
<1> QED  BY <1>2, <1>4, <1>5, <1>6

(* Products of counts are counts, positive where both are. *)
LEMMA Product ==
    ASSUME NEW a \in Nat, NEW b \in Nat
    PROVE  a * b \in Nat /\ (a > 0 /\ b > 0 => a * b > 0)
  BY SMT

(* A smaller count of m's is at least m short of a larger. *)
LEMMA ProductBelow ==
    ASSUME NEW a \in Nat, NEW b \in Nat, NEW m \in Nat, a < b
    PROVE  a * m + m <= b * m
<1>1. (b - a - 1) * m >= 0
  OBVIOUS
<1>2. (b - a - 1) * m = b * m - a * m - m
  OBVIOUS
<1>3. a * m \in Nat /\ b * m \in Nat
  BY Product
<1> QED  BY <1>1, <1>2, <1>3

-----------------------------------------------------------------------------
(* What a block is laid out for. *)
LayoutHolds ==
    /\ video \in Videos
    /\ payload \in 1 .. MaxPayloadSize(video) /\ Accepted(video, payload)
    /\ initial \in 0 .. Modulus - 1

LEMMA ModulusFacts == Half \in Nat /\ Half > 0 /\ Modulus \in Nat /\ Modulus > 0 /\ IntMax \in Nat
<1>1. Half \in Nat /\ Half > 0 /\ IntMax \in Nat
  BY HeadersAssumption
<1> QED  BY <1>1, Product DEF Modulus

(* The lines of a format hold a whole, positive number of its payloads.    *)
LEMMA LineFacts ==
    ASSUME LayoutHolds
    PROVE  LET groups == video.width \div video.pixels
           IN  /\ groups \in Nat /\ groups > 0 /\ video.width = groups * video.pixels
               /\ LineBytes(video) = groups * video.octets
               /\ PerLine \in Nat /\ PerLine > 0 /\ LineBytes(video) = PerLine * payload
<1> DEFINE groups == video.width \div video.pixels
<1>1. /\ video.width \in Nat /\ video.pixels \in Nat /\ video.pixels > 0
      /\ video.octets \in Nat /\ video.octets > 0
      /\ video.width > 0 /\ video.width % video.pixels = 0
  BY HeadersAssumption DEF LayoutHolds, IsFormat, IsImage
<1>2. payload \in Nat /\ payload > 0 /\ LineBytes(video) % payload = 0
  <2>1. LineBytes(video) % payload = 0 /\ payload > 0
    BY DEF LayoutHolds, Accepted, Tiles
  <2>2. payload \in Int
    BY DEF LayoutHolds
  <2> QED  BY <2>1, <2>2
<1>3. groups \in Nat /\ video.width = groups * video.pixels
  BY <1>1, Dividing
<1>4. groups > 0
  <2> HIDE DEF groups
  <2>1. CASE groups = 0
    <3>1. 0 * video.pixels = 0
      BY <1>1
    <3> QED  BY <1>1, <1>3, <2>1, <3>1
  <2> QED  BY <1>3, <2>1
<1>5. LineBytes(video) = groups * video.octets /\ LineBytes(video) \in Nat /\ LineBytes(video) > 0
  BY <1>1, <1>3, <1>4, Product DEF LineBytes
<1>6. PerLine \in Nat /\ LineBytes(video) = PerLine * payload
  BY <1>2, <1>5, Dividing DEF PerLine, PacketsPerLine
<1>7. PerLine > 0
  <2>1. CASE PerLine = 0
    BY <1>2, <1>5, <1>6, <2>1
  <2> QED  BY <1>6, <2>1
<1> QED  BY <1>3, <1>4, <1>5, <1>6, <1>7

LEMMA CountFacts ==
    ASSUME LayoutHolds
    PROVE  Count \in Nat /\ Count > 0 /\ Count = PerLine * video.height /\ video.height \in Nat
<1>1. video.height \in Nat /\ video.height > 0
  BY HeadersAssumption DEF LayoutHolds, IsFormat, Accepted
<1>2. PerLine \in Nat /\ PerLine > 0
  BY LineFacts
<1>3. Count = PerLine * video.height
  BY DEF Count, PacketsPerFrame, PerLine
<1> QED  BY <1>1, <1>2, <1>3, Product

-----------------------------------------------------------------------------
(* Laid out or stamped, a row is a header.                                 *)
LEMMA PacketFacts ==
    ASSUME LayoutHolds, NEW k \in Packets
    PROVE  /\ k \in Nat
           /\ Line(k) \in 0 .. MaxRaster /\ Line(k) < RowsPerField(video)
           /\ OffsetPixels(k) \in 0 .. MaxRaster /\ OffsetPixels(k) < video.width
<1>1. /\ Count \in Nat /\ Count > 0 /\ Count = PerLine * video.height /\ video.height \in Nat
      /\ PerLine \in Nat /\ PerLine > 0 /\ payload \in Nat /\ payload > 0
  <2>1. payload \in Nat /\ payload > 0
    BY DEF LayoutHolds, Accepted, Tiles
  <2> QED  BY <2>1, CountFacts, LineFacts
<1>2. k \in Nat /\ k < Count
  BY <1>1 DEF Packets
<1>3. MaxRaster \in Nat /\ video.width <= MaxRaster /\ RowsPerField(video) <= MaxRaster
  BY HeadersAssumption DEF LayoutHolds, Accepted
<1>4. /\ RowsPerField(video) \in Nat
      /\ video.interlaced => 2 * RowsPerField(video) >= video.height
      /\ ~video.interlaced => RowsPerField(video) = video.height
  <2>1. video.interlaced \in BOOLEAN
    BY HeadersAssumption DEF LayoutHolds, IsFormat
  <2> QED  BY <1>1, <2>1 DEF RowsPerField, FieldsPerFrame
<1>5. Line(k) \in 0 .. MaxRaster /\ Line(k) < RowsPerField(video)
  <2> DEFINE R == RowsPerField(video)
             within == IF InSecond(k) THEN k - Split ELSE k
  <2>1. within \in Nat /\ within < R * PerLine
    <3>1. R * PerLine \in Nat /\ Count = video.height * PerLine
      BY <1>1, <1>4, Product
    <3>2. CASE ~video.interlaced
      <4>1. Split = Count
        BY <3>2 DEF Split
      <4>2. ~InSecond(k)
        BY <1>2, <4>1, <1>1 DEF InSecond
      <4> QED  BY <1>2, <1>4, <3>1, <3>2, <4>2
    <3>3. CASE video.interlaced
      <4>1. Split = R * PerLine
        BY <3>3 DEF Split
      <4>2. video.height * PerLine <= 2 * (R * PerLine)
        <5>1. (2 * R - video.height) * PerLine >= 0
          BY <1>1, <1>4, <3>3
        <5>2. (2 * R - video.height) * PerLine = 2 * (R * PerLine) - video.height * PerLine
          BY <1>1, <1>4
        <5> QED  BY <1>1, <3>1, <5>1, <5>2
      <4> HIDE DEF R
      <4>3. CASE InSecond(k)
        <5>1. k >= Split
          BY <4>3 DEF InSecond
        <5> QED  BY <1>1, <1>2, <3>1, <4>1, <4>2, <4>3, <5>1
      <4>4. CASE ~InSecond(k)
        <5>1. ~(k >= Split)
          BY <4>4 DEF InSecond
        <5> QED  BY <1>1, <1>2, <3>1, <4>1, <4>4, <5>1
      <4> QED  BY <4>3, <4>4
    <3> QED  BY <3>2, <3>3
  <2>2. Line(k) = within \div PerLine
    BY DEF Line
  <2> HIDE DEF within
  <2>3. within \div PerLine \in Nat /\ within \div PerLine < R
    BY <1>1, <1>4, <2>1, QuotientBelow, Dividing
  <2> QED  BY <1>3, <1>4, <2>2, <2>3
<1>6. OffsetPixels(k) \in 0 .. MaxRaster /\ OffsetPixels(k) < video.width
  <2> DEFINE groups == video.width \div video.pixels
             octets == (k % PerLine) * payload
             g == octets \div video.octets
  <2>1. /\ groups \in Nat /\ groups > 0 /\ video.width = groups * video.pixels
        /\ LineBytes(video) = groups * video.octets
        /\ LineBytes(video) = PerLine * payload
    BY LineFacts
  <2>2. /\ video.pixels \in Nat /\ video.octets \in Nat
        /\ video.pixels > 0 /\ video.octets > 0
    BY HeadersAssumption DEF LayoutHolds, IsFormat
  <2>3. k % PerLine \in Nat /\ k % PerLine < PerLine
    BY <1>1, <1>2, Dividing
  <2>4. octets \in Nat /\ octets + payload <= PerLine * payload
    BY <1>1, <2>3, Product, ProductBelow
  <2> HIDE DEF octets, groups
  <2>5. octets < groups * video.octets
    <3>1. PerLine * payload \in Nat
      BY <1>1, Product
    <3> QED  BY <1>1, <2>1, <2>4, <3>1
  <2>6. g \in Nat /\ g < groups
    BY <2>1, <2>2, <2>4, <2>5, QuotientBelow, Dividing
  <2> HIDE DEF g
  <2>7. g * video.pixels \in Nat /\ g * video.pixels + video.pixels <= groups * video.pixels
    BY <2>1, <2>2, <2>6, Product, ProductBelow
  <2>8. OffsetPixels(k) = g * video.pixels
    BY DEF OffsetPixels, SampleOffset, g, octets
  <2>9. groups * video.pixels = video.width /\ video.width \in Nat
    BY <2>1, <2>2, Product
  <2> QED  BY <1>3, <2>2, <2>7, <2>8, <2>9
<1> QED  BY <1>2, <1>5, <1>6

LEMMA MarksAreBoolean ==
    ASSUME NEW k
    PROVE  Marked(k) \in BOOLEAN /\ InSecond(k) \in BOOLEAN
  BY DEF Marked, InSecond

LEMMA LaidOutFits ==
    ASSUME LayoutHolds, NEW k \in Packets
    PROVE  LaidOut(k) \in Header
<1>1. /\ 0 \in 0 .. Half - 1 /\ 0 \in 0 .. Modulus - 1
  BY ModulusFacts
<1>2. payload \in 1 .. Half - 1
  BY ModulusFacts DEF LayoutHolds, Accepted, Tiles
<1> QED  BY <1>1, <1>2, PacketFacts, MarksAreBoolean DEF LaidOut, Header

(* Stamped, a row carries the number of its place in the flow.             *)
LEMMA StampedFits ==
    ASSUME LayoutHolds, NEW row \in Header, NEW k \in Packets, NEW index \in Nat
    PROVE  /\ Stamped(row, k, index) \in Header
           /\ Joined(Stamped(row, k, index)) = (initial + index * Count + k) % Modulus
<1> DEFINE count == initial + index * Count + k
           number == count % Modulus
           stamp == Timestamp(index, IF row.second THEN 1 ELSE 0)
<1>1. k \in Nat /\ count \in Nat
  <2>1. initial \in Nat
    BY ModulusFacts DEF LayoutHolds
  <2>2. index * Count \in Nat /\ Count \in Nat
    BY CountFacts, Product
  <2> QED  BY <2>1, <2>2 DEF Packets
<1> HIDE DEF count
<1>2. number \in Nat /\ number < Half * Half
  BY <1>1, ModulusFacts, Dividing DEF Modulus
<1> HIDE DEF number
<1>3. number % Half \in 0 .. Half - 1 /\ number \div Half \in 0 .. Half - 1
  BY <1>2, ModulusFacts, Dividing, QuotientBelow
<1>4. number = (number \div Half) * Half + (number % Half)
  <2>1. Half \in Nat /\ Half > 0
    BY ModulusFacts
  <2> QED  BY <1>2, <2>1, Dividing
<1>5. stamp \in 0 .. Modulus - 1
  <2>1. ASSUME NEW field \in {0, 1}
        PROVE  Timestamp(index, field) \in 0 .. Modulus - 1
    <3> DEFINE ticks == (FieldsPerFrame * index + field) * ClockRate * video.rate_den
               unit == FieldsPerFrame * video.rate_num
    <3>1. /\ ClockRate \in Nat /\ video.rate_den \in Nat
          /\ video.rate_num \in Nat /\ video.rate_num > 0
      BY HeadersAssumption DEF LayoutHolds, IsFormat
    <3>2. ticks \in Nat /\ unit \in Nat /\ unit > 0
      <4>1. FieldsPerFrame * index + field \in Nat
        BY DEF FieldsPerFrame
      <4>2. (FieldsPerFrame * index + field) * ClockRate \in Nat
        BY <3>1, <4>1, Product
      <4> QED  BY <3>1, <4>2, Product DEF FieldsPerFrame
    <3> HIDE DEF ticks, unit
    <3>3. (ticks \div unit) % Modulus \in 0 .. Modulus - 1
      BY <3>2, ModulusFacts, Dividing
    <3> QED  BY <3>3 DEF Timestamp, ticks, unit
  <2> QED  BY <2>1
<1>6. Stamped(row, k, index)
        = [row EXCEPT !.low = number % Half, !.high = number \div Half, !.stamp = stamp]
  BY DEF Stamped, number, count
<1> HIDE DEF stamp
<1>7. Stamped(row, k, index) \in Header
  BY <1>3, <1>5, <1>6 DEF Header
<1>8. /\ Stamped(row, k, index).low = number % Half
      /\ Stamped(row, k, index).high = number \div Half
  BY <1>6 DEF Header
<1>9. Joined(Stamped(row, k, index)) = number
  <2>1. Joined(Stamped(row, k, index)) = (number \div Half) * Half + (number % Half)
    BY <1>8 DEF Joined
  <2> QED  BY <1>4, <2>1
<1> QED  BY <1>7, <1>9 DEF number, count

-----------------------------------------------------------------------------
(* The inductive invariant: the whole queue - what is on the wire, what is *)
(* held back, what the block has left - is one run of numbers, and it ends *)
(* with the last packet of the last frame stamped.                         *)
Base == initial + stamped[1] * Count

Rows ==
    /\ sent \in 0 .. Count
    /\ stamped \in Seq(Nat) /\ wire \in Seq(Header) /\ held \in Seq(Header)
    /\ block \in [Packets -> Header]

QueueRunsOn ==
    /\ stamped = << >> => sent = Count /\ wire = << >> /\ held = << >>
    /\ stamped # << >> =>
        /\ stamped[Len(stamped)] = stamped[1] + Len(stamped) - 1
        /\ Len(wire) + Len(held) + (Count - sent) = Len(stamped) * Count
        /\ \A i \in 1 .. Len(wire) : Joined(wire[i]) = (Base + (i - 1)) % Modulus
        /\ \A i \in 1 .. Len(held) : Joined(held[i]) = (Base + (Len(wire) + i - 1)) % Modulus
        /\ \A k \in Packets : k >= sent =>
                Joined(block[k]) = (Base + (Len(wire) + Len(held) + (k - sent))) % Modulus

IInv == LayoutHolds /\ Rows /\ QueueRunsOn /\ NothingOverflows

LEMMA InitHolds == Init => IInv
<1> SUFFICES ASSUME Init PROVE IInv
  OBVIOUS
<1>1. LayoutHolds
  BY HeadersAssumption DEF Init, LayoutHolds
<1>2. Rows
  <2>1. block \in [Packets -> Header]
    BY <1>1, LaidOutFits DEF Init
  <2>2. sent \in 0 .. Count
    BY <1>1, CountFacts DEF Init
  <2> QED  BY <2>1, <2>2, EmptySeq DEF Init, Rows
<1>3. QueueRunsOn
  BY DEF Init, QueueRunsOn
<1>4. NothingOverflows
  <2>1. reach = initial /\ initial <= Modulus - 1
    BY <1>1, ModulusFacts DEF Init, LayoutHolds
  <2>2. Modulus <= IntMax
    BY HeadersAssumption
  <2> QED  BY <1>1, <2>1, <2>2, ModulusFacts DEF NothingOverflows, LayoutHolds
<1> QED  BY <1>1, <1>2, <1>3, <1>4 DEF IInv

(* The layout, and what is made of it, stay as they are. *)
LEMMA LayoutStays ==
    ASSUME LayoutHolds, UNCHANGED layout
    PROVE  LayoutHolds' /\ Count' = Count /\ Packets' = Packets
<1>1. video' = video /\ payload' = payload /\ initial' = initial
  BY DEF layout
<1> QED  BY <1>1 DEF LayoutHolds, MaxPayloadSize, Accepted, Count, PacketsPerFrame, PacketsPerLine,
            LineBytes, Tiles, RowsPerField, Packets

(* A stamp fills the block with the numbers that come next. *)
LEMMA StampHolds ==
    ASSUME IInv, NEW index \in Nat, Stamp(index),
           stamped # << >> => index = stamped[Len(stamped)] + 1
    PROVE  IInv'
<1>1. LayoutHolds' /\ Count' = Count /\ Packets' = Packets /\ initial' = initial
  BY LayoutStays DEF IInv, Stamp, layout
<1>2. /\ Count \in Nat /\ Count > 0 /\ initial \in Nat /\ Packets = 0 .. Count - 1
  BY CountFacts, ModulusFacts DEF IInv, LayoutHolds, Packets
<1>3. /\ sent = Count /\ sent' = 0 /\ wire' = wire /\ held' = held
      /\ stamped' = Append(stamped, index)
      /\ block' = [k \in Packets |-> Stamped(block[k], k, index)]
      /\ reach' = initial + index * Count + Count - 1
      /\ index <= LastFrame
  BY DEF Stamp
<1>4. /\ stamped \in Seq(Nat) /\ wire \in Seq(Header) /\ held \in Seq(Header)
      /\ block \in [Packets -> Header]
      /\ Len(stamped) \in Nat /\ Len(wire) \in Nat /\ Len(held) \in Nat
  BY LenProperties DEF IInv, Rows
<1>5. \A k \in Packets : /\ Stamped(block[k], k, index) \in Header
                         /\ Joined(Stamped(block[k], k, index)) = (initial + index * Count + k) % Modulus
  BY <1>4, StampedFits DEF IInv
<1>6. /\ stamped' \in Seq(Nat) /\ Len(stamped') = Len(stamped) + 1
      /\ stamped' # << >>
      /\ stamped'[Len(stamped) + 1] = index
      /\ stamped # << >> => stamped'[1] = stamped[1] /\ stamped[1] \in Nat
      /\ stamped = << >> => stamped'[1] = index
  <2>1. /\ stamped' \in Seq(Nat) /\ Len(stamped') = Len(stamped) + 1
        /\ \A i \in 1 .. Len(stamped) : stamped'[i] = stamped[i]
        /\ stamped'[Len(stamped) + 1] = index
    BY <1>3, <1>4, AppendProperties
  <2>2. stamped = << >> <=> Len(stamped) = 0
    BY <1>4, EmptySeq
  <2>3. stamped' # << >>
    BY <1>4, <2>1
  <2>4. ASSUME stamped # << >>
        PROVE  stamped'[1] = stamped[1] /\ stamped[1] \in Nat
    <3>1. 1 \in 1 .. Len(stamped)
      BY <1>4, <2>2, <2>4
    <3> QED  BY <1>4, <2>1, <3>1, ElementOfSeq
  <2>5. ASSUME stamped = << >>
        PROVE  stamped'[1] = index
    BY <2>1, <2>2, <2>5
  <2> QED  BY <2>1, <2>3, <2>4, <2>5
<1>7. Rows'
  <2>1. sent' \in 0 .. Count'
    BY <1>1, <1>2, <1>3
  <2>2. block' \in [Packets' -> Header]
    BY <1>1, <1>3, <1>5
  <2> QED  BY <1>3, <1>4, <1>6, <2>1, <2>2 DEF Rows, Header
<1>8. QueueRunsOn'
  <2>1. stamped # << >> =>
            /\ index = stamped[1] + Len(stamped)
            /\ Len(wire) + Len(held) = Len(stamped) * Count
    <3> SUFFICES ASSUME stamped # << >>
                 PROVE  /\ index = stamped[1] + Len(stamped)
                        /\ Len(wire) + Len(held) = Len(stamped) * Count
      OBVIOUS
    <3>1. /\ stamped[Len(stamped)] = stamped[1] + Len(stamped) - 1
          /\ Len(wire) + Len(held) + (Count - sent) = Len(stamped) * Count
      BY DEF IInv, QueueRunsOn
    <3>2. index = stamped[1] + Len(stamped) - 1 + 1
      BY <3>1
    <3>3. stamped[1] \in Nat
      BY <1>6
    <3>4. index = stamped[1] + Len(stamped)
      <4>1. Len(stamped) \in Nat
        BY <1>2, <1>3, <1>4
      <4> QED  BY ONLY <3>2, <3>3, <4>1
    <3>5. Len(wire) + Len(held) = Len(stamped) * Count
      BY <1>2, <1>3, <1>4, <3>1
    <3> QED  BY <3>4, <3>5
  <2>2. stamped = << >> => Len(stamped) = 0 /\ Len(wire) = 0 /\ Len(held) = 0
    BY DEF IInv, QueueRunsOn
  <2>3. stamped'[Len(stamped')] = stamped'[1] + Len(stamped') - 1
    <3>1. CASE stamped = << >>
      BY <1>6, <2>2, <3>1
    <3>2. CASE stamped # << >>
      <4>1. stamped'[1] \in Nat /\ index = stamped'[1] + Len(stamped)
        BY <1>6, <2>1, <3>2
      <4> QED  BY <1>4, <1>6, <4>1
    <3> QED  BY <3>1, <3>2
  <2>4. Len(wire') + Len(held') + (Count' - sent') = Len(stamped') * Count'
    <3>1. Len(wire) + Len(held) = Len(stamped) * Count
      BY <1>2, <2>1, <2>2
    <3>2. Len(stamped') * Count' = Len(stamped) * Count + Count
      <4>1. (Len(stamped) + 1) * Count = Len(stamped) * Count + Count
        BY <1>2, <1>4
      <4> QED  BY <1>1, <1>6, <4>1
    <3>3. Len(wire') + Len(held') + (Count' - sent') = Len(wire) + Len(held) + Count
      BY <1>1, <1>2, <1>3
    <3> QED  BY <3>1, <3>2, <3>3
  <2>5. stamped # << >> => Base' = Base
    BY <1>1, <1>6 DEF Base
  <2>6. \A i \in 1 .. Len(wire') : Joined(wire'[i]) = (Base' + (i - 1)) % Modulus
    <3> SUFFICES ASSUME NEW i \in 1 .. Len(wire)
                 PROVE  Joined(wire[i]) = (Base' + (i - 1)) % Modulus
      BY <1>3
    <3>1. stamped # << >>
      BY <1>4, <2>2
    <3>2. Joined(wire[i]) = (Base + (i - 1)) % Modulus
      BY <3>1 DEF IInv, QueueRunsOn
    <3> QED  BY <2>5, <3>1, <3>2
  <2>7. \A i \in 1 .. Len(held') : Joined(held'[i]) = (Base' + (Len(wire') + i - 1)) % Modulus
    <3> SUFFICES ASSUME NEW i \in 1 .. Len(held)
                 PROVE  Joined(held[i]) = (Base' + (Len(wire) + i - 1)) % Modulus
      BY <1>3
    <3>1. stamped # << >>
      BY <1>4, <2>2
    <3>2. Joined(held[i]) = (Base + (Len(wire) + i - 1)) % Modulus
      BY <3>1 DEF IInv, QueueRunsOn
    <3> QED  BY <2>5, <3>1, <3>2
  <2>8. \A k \in Packets' : k >= sent' =>
            Joined(block'[k]) = (Base' + (Len(wire') + Len(held') + (k - sent'))) % Modulus
    <3> SUFFICES ASSUME NEW k \in Packets
                 PROVE  Joined(block'[k]) = (Base' + (Len(wire) + Len(held) + (k - 0))) % Modulus
      BY <1>1, <1>3
    <3>1. Joined(block'[k]) = (initial + index * Count + k) % Modulus
      BY <1>3, <1>5
    <3>2. Base' = initial + stamped'[1] * Count
      BY <1>1 DEF Base
    <3>3. index * Count = stamped'[1] * Count + (Len(wire) + Len(held))
      <4>1. CASE stamped = << >>
        <5>1. index * Count \in Nat
          BY <1>2, Product
        <5> QED  BY <1>6, <2>2, <4>1, <5>1
      <4>2. CASE stamped # << >>
        <5>1. /\ stamped'[1] \in Nat /\ index = stamped'[1] + Len(stamped)
              /\ Len(wire) + Len(held) = Len(stamped) * Count
          BY <1>6, <2>1, <4>2
        <5>2. (stamped'[1] + Len(stamped)) * Count = stamped'[1] * Count + Len(stamped) * Count
          BY <1>2, <1>4, <5>1
        <5> QED  BY <5>1, <5>2
      <4> QED  BY <4>1, <4>2
    <3>4. stamped'[1] \in Nat /\ k \in Nat
      BY <1>2, <1>6
    <3>5. stamped'[1] * Count \in Nat
      BY <1>2, <3>4, Product
    <3>6. initial + index * Count + k = Base' + (Len(wire) + Len(held) + (k - 0))
      <4> DEFINE X == index * Count
                 Y == stamped'[1] * Count
                 L == Len(wire) + Len(held)
      <4>1. X = Y + L /\ Y \in Nat /\ L \in Nat /\ Base' = initial + Y
        BY <1>4, <3>2, <3>3, <3>5
      <4> HIDE DEF X, Y, L
      <4>2. initial + X + k = Base' + (L + (k - 0))
        BY <1>2, <3>4, <4>1
      <4> QED  BY <4>2 DEF X, L
    <3> QED  BY <3>1, <3>6
  <2> QED  BY <1>6, <2>3, <2>4, <2>6, <2>7, <2>8 DEF QueueRunsOn
<1>9. NothingOverflows'
  <2> DEFINE room == IntMax - initial
  <2>1. room \in Nat /\ IntMax \in Nat
    BY HeadersAssumption, ModulusFacts DEF IInv, LayoutHolds
  <2> HIDE DEF room
  <2>2. index + 1 <= room \div Count /\ room \div Count \in Nat
    BY <1>2, <1>3, <2>1, Dividing DEF LastFrame, room
  <2>3. (room \div Count) * Count <= room
    <3>1. room = (room \div Count) * Count + (room % Count) /\ room % Count \in 0 .. Count - 1
      BY <1>2, <2>1, Dividing
    <3>2. (room \div Count) * Count \in Nat
      BY <1>2, <2>2, Product
    <3> QED  BY <1>2, <3>1, <3>2
  <2>4. index * Count + Count <= (room \div Count) * Count
    <3>1. index < room \div Count
      BY <2>2
    <3> QED  BY <1>2, <2>2, <3>1, ProductBelow
  <2>5. index * Count \in Nat /\ (room \div Count) * Count \in Nat
    BY <1>2, <2>2, Product
  <2>6. index * Count + Count <= IntMax - initial
    BY <1>2, <2>1, <2>3, <2>4, <2>5 DEF room
  <2> QED  BY <1>2, <1>3, <2>1, <2>5, <2>6 DEF NothingOverflows
<1> QED  BY <1>1, <1>7, <1>8, <1>9 DEF IInv

(* Copying a frame's unsent rows moves them from the block to what is held. *)
LEMMA CopyHolds ==
    ASSUME IInv, Copy, held = << >>
    PROVE  IInv'
<1>1. LayoutHolds' /\ Count' = Count /\ Packets' = Packets /\ initial' = initial
  BY LayoutStays DEF IInv, Copy, layout
<1>2. /\ Count \in Nat /\ Count > 0 /\ Packets = 0 .. Count - 1
  BY CountFacts DEF IInv, Packets
<1> DEFINE rest == [n \in 1 .. Count - sent |-> block[sent + n - 1]]
<1>3. /\ sent' = Count /\ wire' = wire /\ stamped' = stamped /\ block' = block /\ reach' = reach
      /\ held' = held \o rest
  BY DEF Copy
<1>4. /\ stamped \in Seq(Nat) /\ wire \in Seq(Header) /\ held \in Seq(Header)
      /\ block \in [Packets -> Header] /\ sent \in 0 .. Count
      /\ Len(wire) \in Nat /\ Len(held) = 0
  BY LenProperties DEF IInv, Rows
<1>5. \A n \in 1 .. Count - sent : sent + n - 1 \in Packets /\ sent + n - 1 >= sent
  BY <1>2, <1>4
<1>6. rest \in [1 .. Count - sent -> Header] /\ Count - sent \in Nat
  BY <1>2, <1>4, <1>5
<1>7. /\ held' \in Seq(Header) /\ Len(held') = Count - sent
      /\ \A n \in 1 .. Count - sent : held'[n] = block[sent + n - 1]
  <2>1. rest \in Seq(Header) /\ Len(rest) = Count - sent
    BY <1>6, FunctionIsSeq
  <2>2. \A n \in 1 .. Count - sent : rest[n] = block[sent + n - 1]
    OBVIOUS
  <2> HIDE DEF rest
  <2>3. held' = rest
    BY <1>3, <1>4, <2>1, ConcatEmptySeq
  <2> QED  BY <2>1, <2>2, <2>3
<1> HIDE DEF rest
<1>8. Rows'
  BY <1>1, <1>2, <1>3, <1>4, <1>7 DEF Rows, Header
<1>9. QueueRunsOn'
  <2>1. CASE stamped = << >>
    <3>1. sent = Count /\ wire = << >> /\ Len(held') = 0
      BY <1>2, <1>7, <2>1 DEF IInv, QueueRunsOn
    <3>2. held' = << >>
      BY <1>7, <3>1, EmptySeq
    <3> QED  BY <1>1, <1>3, <2>1, <3>1, <3>2 DEF QueueRunsOn
  <2>2. CASE stamped # << >>
    <3>1. /\ stamped[Len(stamped)] = stamped[1] + Len(stamped) - 1
          /\ Len(wire) + Len(held) + (Count - sent) = Len(stamped) * Count
          /\ \A i \in 1 .. Len(wire) : Joined(wire[i]) = (Base + (i - 1)) % Modulus
          /\ \A k \in Packets : k >= sent =>
                 Joined(block[k]) = (Base + (Len(wire) + Len(held) + (k - sent))) % Modulus
      BY <2>2 DEF IInv, QueueRunsOn
    <3>2. Base' = Base
      BY <1>1, <1>3 DEF Base
    <3>3. Len(wire') + Len(held') + (Count' - sent') = Len(stamped') * Count'
      <4> DEFINE owed == Len(stamped) * Count
      <4>1. Len(stamped') * Count' = owed
        BY <1>1, <1>3
      <4>2. Len(wire) + Len(held) + (Count - sent) = owed
        BY <3>1
      <4> HIDE DEF owed
      <4>3. Len(wire') = Len(wire)
        BY <1>3
      <4>4. Len(held') = Count - sent
        BY <1>7
      <4>5. Count' - sent' = 0
        BY <1>1, <1>2, <1>3
      <4>6. Len(held) = 0
        BY <1>4
      <4>7. Len(wire) + Len(held) + (Count - sent) = Len(wire) + (Count - sent) + 0
        BY <1>2, <1>4, <4>6
      <4>8. Len(wire') + Len(held') + (Count' - sent') = Len(wire) + (Count - sent) + 0
        BY <4>3, <4>4, <4>5
      <4> QED  BY <4>1, <4>2, <4>7, <4>8
    <3>4. ASSUME NEW n \in 1 .. Count - sent
          PROVE  Joined(held'[n]) = (Base' + (Len(wire') + n - 1)) % Modulus
      <4> DEFINE k == sent + n - 1
      <4>1. k \in Packets /\ k >= sent
        BY <1>5
      <4>2. held'[n] = block[k]
        BY <1>7
      <4>3. Len(wire) + Len(held) + (k - sent) = Len(wire) + n - 1
        BY <1>2, <1>4
      <4> HIDE DEF k
      <4>4. Joined(block[k]) = (Base + (Len(wire) + Len(held) + (k - sent))) % Modulus
        BY <3>1, <4>1
      <4> QED  BY <1>3, <3>2, <4>2, <4>3, <4>4
    <3>5. \A k \in Packets' : ~(k >= sent')
      BY <1>1, <1>2, <1>3
    <3> QED  BY <1>3, <1>7, <2>2, <3>1, <3>2, <3>3, <3>4, <3>5 DEF QueueRunsOn
  <2> QED  BY <2>1, <2>2
<1>10. NothingOverflows'
  BY <1>3 DEF IInv, NothingOverflows
<1> QED  BY <1>1, <1>8, <1>9, <1>10 DEF IInv

(* The oldest packet goes on the wire, and the run of numbers is the same. *)
LEMMA EmitHolds ==
    ASSUME IInv, Emit
    PROVE  IInv'
<1>1. LayoutHolds' /\ Count' = Count /\ Packets' = Packets /\ initial' = initial
  BY LayoutStays DEF IInv, Emit, layout
<1>2. /\ Count \in Nat /\ Count > 0 /\ Packets = 0 .. Count - 1
  BY CountFacts DEF IInv, Packets
<1>3. stamped' = stamped /\ block' = block /\ reach' = reach
  BY DEF Emit
<1>4. /\ stamped \in Seq(Nat) /\ wire \in Seq(Header) /\ held \in Seq(Header)
      /\ block \in [Packets -> Header] /\ sent \in 0 .. Count
      /\ Len(wire) \in Nat /\ Len(held) \in Nat
  BY LenProperties DEF IInv, Rows
<1>5. Base' = Base
  BY <1>1, <1>3 DEF Base
<1>6. NothingOverflows'
  BY <1>3 DEF IInv, NothingOverflows
<1>7. stamped # << >>
  <2>1. stamped = << >> => sent = Count /\ held = << >>
    BY DEF IInv, QueueRunsOn
  <2> QED  BY <1>2, <2>1 DEF Emit
<1>8. /\ stamped[Len(stamped)] = stamped[1] + Len(stamped) - 1
      /\ Len(wire) + Len(held) + (Count - sent) = Len(stamped) * Count
      /\ \A i \in 1 .. Len(wire) : Joined(wire[i]) = (Base + (i - 1)) % Modulus
      /\ \A i \in 1 .. Len(held) : Joined(held[i]) = (Base + (Len(wire) + i - 1)) % Modulus
      /\ \A k \in Packets : k >= sent =>
             Joined(block[k]) = (Base + (Len(wire) + Len(held) + (k - sent))) % Modulus
  BY <1>7 DEF IInv, QueueRunsOn
<1>9. ASSUME NEW header \in Header, wire' = Append(wire, header)
      PROVE  /\ wire' \in Seq(Header) /\ Len(wire') = Len(wire) + 1
             /\ \A i \in 1 .. Len(wire) : wire'[i] = wire[i]
             /\ wire'[Len(wire) + 1] = header
  BY <1>4, <1>9, AppendProperties
<1>10. CASE held # << >> /\ wire' = Append(wire, Head(held)) /\ held' = Tail(held) /\ sent' = sent
  <2>1. Len(held) > 0 /\ Head(held) = held[1] /\ held[1] \in Header
    <3>1. Len(held) > 0
      BY <1>4, <1>10, EmptySeq
    <3>2. 1 \in 1 .. Len(held)
      BY <1>4, <3>1
    <3>3. Head(held) = held[1]
      BY <1>4, <1>10, HeadTailProperties
    <3> QED  BY <1>4, <3>1, <3>2, <3>3, ElementOfSeq
  <2>2. /\ held' \in Seq(Header) /\ Len(held') = Len(held) - 1
        /\ \A i \in 1 .. Len(held) - 1 : held'[i] = held[i + 1]
    BY <1>4, <1>10, HeadTailProperties
  <2>3. /\ wire' \in Seq(Header) /\ Len(wire') = Len(wire) + 1
        /\ \A i \in 1 .. Len(wire) : wire'[i] = wire[i]
        /\ wire'[Len(wire) + 1] = held[1]
    BY <1>9, <1>10, <2>1
  <2>4. Rows'
    BY <1>1, <1>3, <1>4, <1>10, <2>2, <2>3 DEF Rows, Header
  <2>5. \A i \in 1 .. Len(wire') : Joined(wire'[i]) = (Base' + (i - 1)) % Modulus
    <3> SUFFICES ASSUME NEW i \in 1 .. Len(wire) + 1
                 PROVE  Joined(wire'[i]) = (Base + (i - 1)) % Modulus
      BY <1>5, <2>3
    <3>1. CASE i = Len(wire) + 1
      <4>1. 1 \in 1 .. Len(held)
        BY <1>4, <2>1
      <4>2. Joined(held[1]) = (Base + (Len(wire) + 1 - 1)) % Modulus
        BY <1>8, <4>1
      <4> QED  BY <2>3, <3>1, <4>2
    <3>2. CASE i \in 1 .. Len(wire)
      BY <1>8, <2>3, <3>2
    <3> QED  BY <1>4, <3>1, <3>2
  <2>6. \A i \in 1 .. Len(held') : Joined(held'[i]) = (Base' + (Len(wire') + i - 1)) % Modulus
    <3> SUFFICES ASSUME NEW i \in 1 .. Len(held) - 1
                 PROVE  Joined(held'[i]) = (Base + (Len(wire) + 1 + i - 1)) % Modulus
      BY <1>5, <2>2, <2>3
    <3>1. i + 1 \in 1 .. Len(held)
      BY <1>4
    <3>2. Joined(held[i + 1]) = (Base + (Len(wire) + (i + 1) - 1)) % Modulus
      BY <1>8, <3>1
    <3>3. Len(wire) + (i + 1) - 1 = Len(wire) + 1 + i - 1
      BY <1>4
    <3> QED  BY <2>2, <3>2, <3>3
  <2>7. Len(wire') + Len(held') = Len(wire) + Len(held)
    BY <1>4, <2>2, <2>3
  <2> QED  BY <1>1, <1>3, <1>5, <1>6, <1>7, <1>8, <1>10, <2>4, <2>5, <2>6, <2>7 DEF IInv, QueueRunsOn
<1>11. CASE held = << >> /\ sent < Count /\ wire' = Append(wire, block[sent]) /\ sent' = sent + 1
            /\ held' = held
  <2>1. sent \in Packets /\ block[sent] \in Header /\ Len(held) = 0
    BY <1>2, <1>4, <1>11
  <2>2. /\ wire' \in Seq(Header) /\ Len(wire') = Len(wire) + 1
        /\ \A i \in 1 .. Len(wire) : wire'[i] = wire[i]
        /\ wire'[Len(wire) + 1] = block[sent]
    BY <1>9, <1>11, <2>1
  <2>3. Rows'
    <3>1. sent' \in 0 .. Count'
      BY <1>1, <1>2, <1>4, <1>11
    <3> QED  BY <1>1, <1>3, <1>4, <1>11, <2>2, <3>1 DEF Rows, Header
  <2>4. \A i \in 1 .. Len(wire') : Joined(wire'[i]) = (Base' + (i - 1)) % Modulus
    <3> SUFFICES ASSUME NEW i \in 1 .. Len(wire) + 1
                 PROVE  Joined(wire'[i]) = (Base + (i - 1)) % Modulus
      BY <1>5, <2>2
    <3>1. CASE i = Len(wire) + 1
      <4>1. Joined(block[sent]) = (Base + (Len(wire) + Len(held) + (sent - sent))) % Modulus
        BY <1>2, <1>4, <1>8, <2>1
      <4>2. Len(wire) + Len(held) + (sent - sent) = i - 1
        BY <1>2, <1>4, <2>1, <3>1
      <4> QED  BY <2>2, <3>1, <4>1, <4>2
    <3>2. CASE i \in 1 .. Len(wire)
      BY <1>8, <2>2, <3>2
    <3> QED  BY <1>4, <3>1, <3>2
  <2>5. \A k \in Packets' : k >= sent' =>
            Joined(block'[k]) = (Base' + (Len(wire') + Len(held') + (k - sent'))) % Modulus
    <3> SUFFICES ASSUME NEW k \in Packets, k >= sent + 1
                 PROVE  Joined(block[k]) = (Base + (Len(wire) + 1 + Len(held) + (k - (sent + 1)))) % Modulus
      BY <1>1, <1>3, <1>5, <1>11, <2>2
    <3>1. k \in Int /\ sent \in Int /\ k >= sent
      BY <1>2, <1>4
    <3>2. Joined(block[k]) = (Base + (Len(wire) + Len(held) + (k - sent))) % Modulus
      BY <1>8, <3>1
    <3>3. Len(wire) + Len(held) + (k - sent) = Len(wire) + 1 + Len(held) + (k - (sent + 1))
      BY <1>4, <3>1
    <3> QED  BY <3>2, <3>3
  <2>6. Len(wire') + Len(held') + (Count' - sent') = Len(stamped') * Count'
    <3>1. Len(wire') + Len(held') + (Count' - sent') = Len(wire) + Len(held) + (Count - sent)
      BY <1>1, <1>2, <1>4, <1>11, <2>2
    <3> QED  BY <1>1, <1>3, <1>8, <3>1
  <2>7. \A i \in 1 .. Len(held') : Joined(held'[i]) = (Base' + (Len(wire') + i - 1)) % Modulus
    BY <1>11, <2>1
  <2> QED  BY <1>1, <1>3, <1>6, <1>7, <1>8, <2>3, <2>4, <2>5, <2>6, <2>7 DEF IInv, QueueRunsOn
<1> QED  BY <1>10, <1>11 DEF Emit

-----------------------------------------------------------------------------
LEMMA StepHolds == IInv /\ [Next]_vars => IInv'
<1> SUFFICES ASSUME IInv, [Next]_vars PROVE IInv'
  OBVIOUS
<1>1. \A index : Stamp(index) => index \in Nat
  BY DEF Stamp
<1>2. ASSUME NEW index, Stamp(index), stamped = << >>
      PROVE  IInv'
  BY <1>1, <1>2, StampHolds
<1>3. ASSUME stamped # << >>, Stamp(stamped[Len(stamped)] + 1)
      PROVE  IInv'
  BY <1>1, <1>3, StampHolds
<1>4. CASE UNCHANGED vars
  <2>1. UNCHANGED <<video, payload, initial, stamped, block, sent, held, wire, reach>>
    BY <1>4 DEF vars
  <2>2. LayoutHolds' /\ Count' = Count /\ Packets' = Packets
    BY <2>1, LayoutStays DEF IInv, layout
  <2>3. Base' = Base
    BY <2>1, <2>2 DEF Base
  <2> QED  BY <2>1, <2>2, <2>3 DEF IInv, Rows, Header, QueueRunsOn, NothingOverflows
<1> QED  BY <1>2, <1>3, <1>4, CopyHolds, EmitHolds DEF Next

(* The slice is the transmitter with a network and a receiver beside it:   *)
(* its steps are the transmitter's steps, or leave the transmitter alone.  *)
LEMMA SliceInvariant == SliceSpec => []IInv
<1>1. SliceInit => IInv
  BY InitHolds DEF SliceInit
<1>2. SliceNext => Next \/ UNCHANGED vars
  BY DEF SliceNext, Transmit, Lose, Arrive
<1>3. UNCHANGED <<vars, network, receiver>> => UNCHANGED vars
  OBVIOUS
<1>4. IInv /\ [SliceNext]_<<vars, network, receiver>> => IInv'
  BY <1>2, <1>3, StepHolds
<1> QED  BY <1>1, <1>4, PTL DEF SliceSpec

(* Whatever the network does and however the caller holds and copies the   *)
(* rows stamp() fills in place, the joined numbers on the wire run on by   *)
(* one from the initial sequence, over every frame boundary and both wraps *)
(* (transmit.py stamp; SPEC.md 613-617: both derive from a frame index).    *)
THEOREM WireRunsOnHolds == SliceSpec => []WireRunsOn
<1>1. IInv => WireRunsOn
  <2> SUFFICES ASSUME IInv, NEW i \in DOMAIN wire
               PROVE  Joined(wire[i]) = (initial + stamped[1] * Count + i - 1) % Modulus
    BY DEF WireRunsOn
  <2>1. wire \in Seq(Header) /\ stamped \in Seq(Nat)
    BY DEF IInv, Rows
  <2>2. DOMAIN wire = 1 .. Len(wire) /\ Len(wire) \in Nat /\ i \in 1 .. Len(wire)
    BY <2>1, LenProperties
  <2>3. stamped # << >>
    <3>1. stamped = << >> => Len(wire) = 0
      BY <2>1, EmptySeq DEF IInv, QueueRunsOn
    <3> QED  BY <2>2, <3>1
  <2>4. Joined(wire[i]) = (Base + (i - 1)) % Modulus
    BY <2>2, <2>3 DEF IInv, QueueRunsOn
  <2>5. Base + (i - 1) = Base + i - 1
    <3>1. Base \in Int
      <4>1. initial \in Nat /\ Count \in Nat
        BY CountFacts DEF IInv, LayoutHolds
      <4>2. stamped[1] \in Nat
        BY <2>1, <2>3, EmptySeq, LenProperties, ElementOfSeq
      <4>3. stamped[1] * Count \in Nat
        BY <4>1, <4>2, Product
      <4> QED  BY <4>1, <4>3 DEF Base
    <3> QED  BY <2>2, <3>1
  <2> QED  BY <2>4, <2>5 DEF Base
<1> QED  BY <1>1, SliceInvariant, PTL

(* No number stamp() computes leaves the integers it computes in: the      *)
(* refusal of a frame index bounds the first number of the frame, and that *)
(* bounds the last (transmit.py stamp).                                    *)
THEOREM NothingOverflowsHolds == SliceSpec => []NothingOverflows
<1>1. IInv => NothingOverflows
  BY DEF IInv
<1> QED  BY <1>1, SliceInvariant, PTL

(* Every field of every header, in the block, held or sent, is within the  *)
(* width its octets have, for every format, payload size and raster.       *)
THEOREM HeadersFitHolds == SliceSpec => []HeadersFit
<1>1. IInv => HeadersFit
  <2> SUFFICES ASSUME IInv PROVE HeadersFit
    OBVIOUS
  <2>1. wire \in Seq(Header) /\ held \in Seq(Header) /\ block \in [Packets -> Header]
    BY DEF IInv, Rows
  <2>2. DOMAIN wire = 1 .. Len(wire) /\ DOMAIN held = 1 .. Len(held)
    BY <2>1, LenProperties
  <2> QED  BY <2>1, <2>2, ElementOfSeq DEF HeadersFit
<1> QED  BY <1>1, SliceInvariant, PTL


-----------------------------------------------------------------------------
(* What each header on the wire says, beyond its number: the rows of the   *)
(* frames from the first stamped on, each as laid out and stamped once.    *)
(* That the block is filled in place, over what it last held, and that a   *)
(* copy may be sent when the block is a frame further, changes none.       *)
TheRow(k, index) == Stamped(LaidOut(k), k, index)

OnWire(n) == TheRow(n % Count, stamped[1] + (n \div Count))

Contents ==
    /\ stamped = << >> => \A k \in Packets : block[k] = LaidOut(k)
    /\ stamped # << >> =>
        /\ \A k \in Packets : block[k] = TheRow(k, stamped[Len(stamped)])
        /\ \A i \in 1 .. Len(wire) : wire[i] = OnWire(i - 1)
        /\ \A i \in 1 .. Len(held) : held[i] = OnWire(Len(wire) + i - 1)

LEMMA Divided ==
    ASSUME NEW m \in Nat, m > 0, NEW q \in Nat, NEW k \in 0 .. m - 1
    PROVE  (q * m + k) % m = k /\ (q * m + k) \div m = q
<1> DEFINE n == q * m + k
<1>1. q * m \in Nat /\ n \in Nat
  BY Product
<1>2. n % m = k
  BY <1>1, RemainderUnique
<1>3. n \div m \in Nat /\ n = (n \div m) * m + (n % m)
  BY <1>1, Dividing
<1> DEFINE d == n \div m
<1>4. d \in Nat /\ d * m = q * m
  <2>1. d * m \in Nat
    BY <1>3, Product
  <2> QED  BY <1>1, <1>2, <1>3, <2>1
<1> HIDE DEF d
<1>5. d = q
  <2>1. CASE d < q
    <3>1. d * m + m <= q * m
      BY <1>4, <2>1, ProductBelow
    <3> QED  BY <1>1, <1>4, <3>1
  <2>2. CASE q < d
    <3>1. q * m + m <= d * m
      BY <1>4, <2>2, ProductBelow
    <3> QED  BY <1>1, <1>4, <3>1
  <2> QED  BY <1>4, <2>1, <2>2
<1> QED  BY <1>2, <1>5 DEF d

(* The last frame stamped, by its place on the wire. *)
LEMMA InLastFrame ==
    ASSUME IInv, stamped # << >>, NEW k \in Packets
    PROVE  OnWire((Len(stamped) - 1) * Count + k) = TheRow(k, stamped[Len(stamped)])
<1>1. Count \in Nat /\ Count > 0 /\ k \in 0 .. Count - 1
  BY CountFacts DEF IInv, Packets
<1>2. stamped \in Seq(Nat) /\ Len(stamped) \in Nat /\ Len(stamped) > 0
  <2>1. stamped \in Seq(Nat)
    BY DEF IInv, Rows
  <2> QED  BY <2>1, LenProperties, EmptySeq
<1> DEFINE q == Len(stamped) - 1
<1>3. q \in Nat
  BY <1>2
<1>4. stamped[Len(stamped)] = stamped[1] + q
  <2>1. stamped[Len(stamped)] = stamped[1] + Len(stamped) - 1
    BY DEF IInv, QueueRunsOn
  <2>2. stamped[1] \in Nat
    BY <1>2, ElementOfSeq
  <2> QED  BY <1>2, <2>1, <2>2
<1> HIDE DEF q
<1>5. (q * Count + k) % Count = k /\ (q * Count + k) \div Count = q
  BY <1>1, <1>3, Divided
<1>6. OnWire(q * Count + k) = TheRow(k, stamped[Len(stamped)])
  BY <1>4, <1>5 DEF OnWire
<1> QED  BY <1>6 DEF q

LEMMA RowsStay ==
    ASSUME UNCHANGED layout
    PROVE  /\ \A k : LaidOut(k)' = LaidOut(k)
           /\ \A k, index : TheRow(k, index)' = TheRow(k, index)
<1>1. video' = video /\ payload' = payload /\ initial' = initial
  BY DEF layout
<1>2. Count' = Count /\ Split' = Split /\ PerLine' = PerLine
  BY <1>1 DEF Count, Split, PerLine
<1>3. \A k : LaidOut(k)' = LaidOut(k)
  BY <1>1, <1>2 DEF LaidOut, Marked, InSecond, Line, OffsetPixels
<1>4. \A k, index : TheRow(k, index)' = TheRow(k, index)
  BY <1>1, <1>2, <1>3 DEF TheRow, Stamped, Timestamp
<1> QED  BY <1>3, <1>4

(* Stamping a row again leaves nothing of the frame before. *)
LEMMA StampedAgain ==
    ASSUME NEW k, NEW before, NEW index
    PROVE  Stamped(TheRow(k, before), k, index) = TheRow(k, index)
  BY DEF TheRow, Stamped, LaidOut

LEMMA ContentsStamp ==
    ASSUME IInv, Contents, NEW index \in Nat, Stamp(index),
           stamped # << >> => index = stamped[Len(stamped)] + 1
    PROVE  Contents'
<1>1. /\ UNCHANGED layout /\ wire' = wire /\ held' = held
      /\ stamped' = Append(stamped, index)
      /\ block' = [k \in Packets |-> Stamped(block[k], k, index)]
  BY DEF Stamp
<1>2. Count' = Count /\ Packets' = Packets
  BY <1>1, LayoutStays DEF IInv
<1>3. /\ \A k : LaidOut(k)' = LaidOut(k)
      /\ \A k, i : TheRow(k, i)' = TheRow(k, i)
  BY <1>1, RowsStay
<1>4. stamped \in Seq(Nat) /\ Len(stamped) \in Nat
  BY LenProperties DEF IInv, Rows
<1>5. /\ Len(stamped') = Len(stamped) + 1
      /\ stamped'[Len(stamped')] = index
      /\ stamped' # << >>
      /\ stamped # << >> => stamped'[1] = stamped[1]
  <2>1. /\ stamped' \in Seq(Nat) /\ Len(stamped') = Len(stamped) + 1
        /\ \A i \in 1 .. Len(stamped) : stamped'[i] = stamped[i]
        /\ stamped'[Len(stamped) + 1] = index
    BY <1>1, <1>4, AppendProperties
  <2>2. stamped # << >> => 1 \in 1 .. Len(stamped)
    BY <1>4, EmptySeq
  <2>3. stamped' # << >>
    BY <1>4, <2>1, EmptySeq
  <2> QED  BY <2>1, <2>2, <2>3
<1>6. ASSUME NEW k \in Packets PROVE block'[k] = TheRow(k, index)
  <2>1. block'[k] = Stamped(block[k], k, index)
    BY <1>1
  <2>2. CASE stamped = << >>
    BY <2>1, <2>2 DEF Contents, TheRow
  <2>3. CASE stamped # << >>
    BY <2>1, <2>3, StampedAgain DEF Contents
  <2> QED  BY <2>2, <2>3
<1>7. \A k \in Packets' : block'[k] = TheRow(k, stamped[Len(stamped)])'
  BY <1>2, <1>3, <1>5, <1>6
<1>8. stamped # << >> => \A n : OnWire(n)' = OnWire(n)
  BY <1>2, <1>3, <1>5 DEF OnWire
<1>9. stamped = << >> => wire = << >> /\ held = << >>
  BY DEF IInv, QueueRunsOn
<1>10. \A i \in 1 .. Len(wire') : wire'[i] = OnWire(i - 1)'
  <2>1. CASE stamped = << >>
    BY <1>1, <1>9, <2>1, EmptySeq
  <2>2. CASE stamped # << >>
    BY <1>1, <1>8, <2>2 DEF Contents
  <2> QED  BY <2>1, <2>2
<1>11. \A i \in 1 .. Len(held') : held'[i] = OnWire(Len(wire) + i - 1)'
  <2>1. CASE stamped = << >>
    BY <1>1, <1>9, <2>1, EmptySeq
  <2>2. CASE stamped # << >>
    BY <1>1, <1>8, <2>2 DEF Contents
  <2> QED  BY <2>1, <2>2
<1> QED  BY <1>5, <1>7, <1>10, <1>11 DEF Contents

LEMMA OnWireStays ==
    ASSUME IInv, UNCHANGED layout, stamped' = stamped
    PROVE  \A n : OnWire(n)' = OnWire(n)
<1>1. Count' = Count
  BY LayoutStays DEF IInv
<1>2. \A k, index : TheRow(k, index)' = TheRow(k, index)
  BY RowsStay
<1> QED  BY <1>1, <1>2 DEF OnWire

LEMMA BlockStays ==
    ASSUME IInv, Contents, UNCHANGED <<layout, stamped, block>>
    PROVE  /\ stamped' = << >> => \A k \in Packets' : block'[k] = LaidOut(k)'
           /\ stamped' # << >> => \A k \in Packets' : block'[k] = TheRow(k, stamped[Len(stamped)])'
<1>1. Packets' = Packets /\ UNCHANGED layout
  BY LayoutStays DEF IInv, layout
<1>2. /\ \A k : LaidOut(k)' = LaidOut(k)
      /\ \A k, index : TheRow(k, index)' = TheRow(k, index)
  BY <1>1, RowsStay
<1> QED  BY <1>1, <1>2 DEF Contents

LEMMA ContentsCopy ==
    ASSUME IInv, Contents, Copy, held = << >>
    PROVE  Contents'
<1> DEFINE rest == [n \in 1 .. Count - sent |-> block[sent + n - 1]]
<1>1. /\ UNCHANGED layout /\ wire' = wire /\ stamped' = stamped /\ block' = block
      /\ held' = held \o rest
  BY DEF Copy
<1>2. /\ stamped' = << >> => \A k \in Packets' : block'[k] = LaidOut(k)'
      /\ stamped' # << >> => \A k \in Packets' : block'[k] = TheRow(k, stamped[Len(stamped)])'
  BY <1>1, BlockStays
<1>3. /\ Count \in Nat /\ Count > 0 /\ Packets = 0 .. Count - 1
      /\ stamped \in Seq(Nat) /\ wire \in Seq(Header) /\ block \in [Packets -> Header]
      /\ sent \in 0 .. Count /\ Len(wire) \in Nat /\ Len(stamped) \in Nat
  BY CountFacts, LenProperties DEF IInv, Rows, Packets
<1>4. /\ Len(held') = Count - sent
      /\ \A n \in 1 .. Count - sent : held'[n] = block[sent + n - 1]
  <2>1. rest \in [1 .. Count - sent -> Header] /\ Count - sent \in Nat
    BY <1>3
  <2>2. rest \in Seq(Header) /\ Len(rest) = Count - sent
    BY <2>1, FunctionIsSeq
  <2>3. \A n \in 1 .. Count - sent : rest[n] = block[sent + n - 1]
    OBVIOUS
  <2> HIDE DEF rest
  <2>4. held' = rest
    BY <1>1, <2>2, ConcatEmptySeq
  <2> QED  BY <2>2, <2>3, <2>4
<1> HIDE DEF rest
<1>5. ASSUME stamped # << >>
      PROVE  /\ \A i \in 1 .. Len(wire') : wire'[i] = OnWire(i - 1)'
             /\ \A n \in 1 .. Len(held') : held'[n] = OnWire(Len(wire) + n - 1)'
  <2>1. \A n : OnWire(n)' = OnWire(n)
    BY <1>1, OnWireStays
  <2>2. \A i \in 1 .. Len(wire') : wire'[i] = OnWire(i - 1)'
    BY <1>1, <1>5, <2>1 DEF Contents
  <2>3. ASSUME NEW n \in 1 .. Count - sent
        PROVE  held'[n] = OnWire(Len(wire) + n - 1)
    <3> DEFINE k == sent + n - 1
               q == (Len(stamped) - 1) * Count
    <3>1. k \in Packets
      BY <1>3
    <3>2. Len(wire) + n - 1 = q + k
      <4>1. Len(wire) + Len(held) + (Count - sent) = Len(stamped) * Count
        BY <1>5 DEF IInv, QueueRunsOn
      <4>2. Len(held) = 0
        BY EmptySeq
      <4>3. q = Len(stamped) * Count - Count
        BY <1>3
      <4>4. Len(stamped) * Count \in Nat
        BY <1>3, Product
      <4>5. n \in Nat /\ k = sent + n - 1 /\ sent \in Nat
        BY <1>3
      <4> DEFINE total == Len(stamped) * Count
      <4>6. /\ Len(wire) + Len(held) + (Count - sent) = total /\ q = total - Count
            /\ total \in Nat /\ Count \in Nat /\ Len(wire) \in Nat
        BY <1>3, <4>1, <4>3, <4>4
      <4> HIDE DEF q, k, total
      <4> QED  BY ONLY <4>2, <4>5, <4>6
    <3>3. held'[n] = block[k]
      BY <1>4
    <3> HIDE DEF k
    <3>4. block[k] = TheRow(k, stamped[Len(stamped)])
      BY <1>5, <3>1 DEF Contents
    <3>5. OnWire(q + k) = TheRow(k, stamped[Len(stamped)])
      BY <1>5, <3>1, InLastFrame
    <3> QED  BY <3>2, <3>3, <3>4, <3>5
  <2>4. \A n \in 1 .. Len(held') : held'[n] = OnWire(Len(wire) + n - 1)'
    <3> SUFFICES ASSUME NEW n \in 1 .. Len(held')
                 PROVE  held'[n] = OnWire(Len(wire) + n - 1)'
      OBVIOUS
    <3>1. OnWire(Len(wire) + n - 1)' = OnWire(Len(wire) + n - 1)
      BY <1>1, <2>1
    <3> QED  BY <1>4, <2>3, <3>1
  <2> QED  BY <2>2, <2>4
<1>6. \A n \in 1 .. Len(held') : stamped # << >> => held'[n] = OnWire(Len(wire) + n - 1)'
  BY <1>5
<1>7. \A i \in 1 .. Len(wire') : stamped # << >> => wire'[i] = OnWire(i - 1)'
  BY <1>5
<1> QED  BY <1>1, <1>2, <1>6, <1>7 DEF Contents

LEMMA ContentsEmit ==
    ASSUME IInv, Contents, Emit
    PROVE  Contents'
<1>1. UNCHANGED layout /\ stamped' = stamped /\ block' = block
  BY DEF Emit
<1>2. /\ stamped' = << >> => \A k \in Packets' : block'[k] = LaidOut(k)'
      /\ stamped' # << >> => \A k \in Packets' : block'[k] = TheRow(k, stamped[Len(stamped)])'
  BY <1>1, BlockStays
<1>3. /\ Count \in Nat /\ Count > 0 /\ Packets = 0 .. Count - 1
      /\ stamped \in Seq(Nat) /\ wire \in Seq(Header) /\ held \in Seq(Header)
      /\ block \in [Packets -> Header]
      /\ sent \in 0 .. Count /\ Len(wire) \in Nat /\ Len(held) \in Nat /\ Len(stamped) \in Nat
  BY CountFacts, LenProperties DEF IInv, Rows, Packets
<1>4. stamped # << >>
  <2>1. stamped = << >> => sent = Count /\ held = << >>
    BY DEF IInv, QueueRunsOn
  <2> QED  BY <1>3, <2>1 DEF Emit
<1>5. \A n : OnWire(n)' = OnWire(n)
  BY <1>1, OnWireStays
<1>6. /\ \A i \in 1 .. Len(wire) : wire[i] = OnWire(i - 1)
      /\ \A i \in 1 .. Len(held) : held[i] = OnWire(Len(wire) + i - 1)
  BY <1>4 DEF Contents
<1>7. ASSUME NEW header \in Header, wire' = Append(wire, header), header = OnWire(Len(wire))
      PROVE  Len(wire') = Len(wire) + 1 /\ \A i \in 1 .. Len(wire') : wire'[i] = OnWire(i - 1)'
  <2>1. /\ Len(wire') = Len(wire) + 1
        /\ \A i \in 1 .. Len(wire) : wire'[i] = wire[i]
        /\ wire'[Len(wire) + 1] = header
    BY <1>3, <1>7, AppendProperties
  <2>2. Len(wire) = (Len(wire) + 1) - 1
    BY <1>3
  <2>3. ASSUME NEW i \in 1 .. Len(wire')
        PROVE  wire'[i] = OnWire(i - 1)'
    <3>1. OnWire(i - 1)' = OnWire(i - 1)
      BY <1>5
    <3>2. CASE i \in 1 .. Len(wire)
      BY <1>6, <2>1, <3>1, <3>2
    <3>3. CASE i = Len(wire) + 1
      <4>1. i - 1 = Len(wire)
        BY <2>2, <3>3
      <4> QED  BY <1>7, <2>1, <3>1, <3>3, <4>1
    <3> QED  BY <1>3, <2>1, <3>2, <3>3
  <2> QED  BY <2>1, <2>3
<1>8. CASE held # << >> /\ wire' = Append(wire, Head(held)) /\ held' = Tail(held)
  <2>1. 1 \in 1 .. Len(held) /\ Head(held) = held[1] /\ held[1] \in Header
    <3>1. 1 \in 1 .. Len(held)
      BY <1>3, <1>8, EmptySeq
    <3>2. Head(held) = held[1]
      BY <1>3, <1>8, HeadTailProperties
    <3> QED  BY <1>3, <3>1, <3>2, ElementOfSeq
  <2>2. Len(held') = Len(held) - 1 /\ \A i \in 1 .. Len(held) - 1 : held'[i] = held[i + 1]
    BY <1>3, <1>8, HeadTailProperties
  <2>3. held[1] = OnWire(Len(wire))
    <3>1. held[1] = OnWire(Len(wire) + 1 - 1)
      BY <1>6, <2>1
    <3>2. Len(wire) + 1 - 1 = Len(wire)
      BY <1>3
    <3> QED  BY <3>1, <3>2
  <2>4. Len(wire') = Len(wire) + 1 /\ \A i \in 1 .. Len(wire') : wire'[i] = OnWire(i - 1)'
    BY <1>7, <1>8, <2>1, <2>3
  <2>5. ASSUME NEW i \in 1 .. Len(held')
        PROVE  held'[i] = OnWire(Len(wire) + i - 1)'
    <3>1. i \in 1 .. Len(held) - 1 /\ i + 1 \in 1 .. Len(held) /\ i \in Nat
      BY <1>3, <2>2
    <3>2. held'[i] = OnWire(Len(wire) + (i + 1) - 1)
      BY <1>6, <2>2, <3>1
    <3>3. Len(wire) + (i + 1) - 1 = Len(wire') + i - 1
      BY <1>3, <2>4, <3>1
    <3>4. OnWire(Len(wire') + i - 1) = OnWire(Len(wire) + i - 1)'
      BY <1>5
    <3> QED  BY <3>2, <3>3, <3>4
  <2> QED  BY <1>1, <1>2, <1>4, <2>4, <2>5 DEF Contents
<1>9. CASE held = << >> /\ sent < Count /\ wire' = Append(wire, block[sent]) /\ held' = held
  <2>1. sent \in Packets /\ block[sent] \in Header /\ Len(held) = 0
    BY <1>3, <1>9, EmptySeq
  <2>2. block[sent] = OnWire(Len(wire))
    <3> DEFINE q == (Len(stamped) - 1) * Count
    <3>1. Len(wire) = q + sent
      <4>1. Len(wire) + Len(held) + (Count - sent) = Len(stamped) * Count
        BY <1>4 DEF IInv, QueueRunsOn
      <4>2. q = Len(stamped) * Count - Count
        BY <1>3
      <4>3. Len(stamped) * Count \in Nat
        BY <1>3, Product
      <4> HIDE DEF q
      <4> QED  BY <1>3, <2>1, <4>1, <4>2, <4>3
    <3>2. OnWire(q + sent) = TheRow(sent, stamped[Len(stamped)])
      BY <1>4, <2>1, InLastFrame
    <3>3. block[sent] = TheRow(sent, stamped[Len(stamped)])
      BY <1>4, <2>1 DEF Contents
    <3> QED  BY <3>1, <3>2, <3>3
  <2>3. \A i \in 1 .. Len(wire') : wire'[i] = OnWire(i - 1)'
    BY <1>7, <1>9, <2>1, <2>2
  <2>4. \A i \in 1 .. Len(held') : held'[i] = OnWire(Len(wire) + i - 1)'
    BY <1>9, <2>1
  <2> QED  BY <1>1, <1>2, <1>4, <2>3, <2>4 DEF Contents
<1> QED  BY <1>8, <1>9 DEF Emit

(* How many frames the bound lets be stamped. *)
FramesBounded == MaxFrames \in Nat => Len(stamped) <= 1 \/ Len(stamped) <= MaxFrames

WInv == IInv /\ Contents /\ FramesBounded

LEMMA WireInvariant == SliceSpec => []WInv
<1>1. SliceInit => WInv
  BY InitHolds DEF SliceInit, Init, WInv, Contents, FramesBounded
<1>2. ASSUME WInv, Next PROVE WInv'
  <2>1. IInv'
    BY <1>2, StepHolds DEF WInv
  <2>2. \A index : Stamp(index) => index \in Nat
    BY DEF Stamp
  <2>3. stamped \in Seq(Nat) /\ Len(stamped) \in Nat
    BY <1>2, LenProperties DEF WInv, IInv, Rows
  <2>4. \A index \in Nat : Stamp(index) => Len(stamped') = Len(stamped) + 1
    BY <2>3, AppendProperties DEF Stamp
  <2>5. ASSUME NEW index, Stamp(index), stamped = << >> PROVE WInv'
    <3>1. Contents'
      BY <1>2, <2>2, <2>5, ContentsStamp DEF WInv
    <3>2. FramesBounded'
      BY <2>2, <2>4, <2>5, EmptySeq DEF FramesBounded
    <3> QED  BY <2>1, <3>1, <3>2 DEF WInv
  <2>6. ASSUME stamped # << >>, Len(stamped) < MaxFrames, Stamp(stamped[Len(stamped)] + 1) PROVE WInv'
    <3>1. Contents'
      BY <1>2, <2>2, <2>6, ContentsStamp DEF WInv
    <3>2. FramesBounded'
      <4>1. Len(stamped') = Len(stamped) + 1
        BY <2>2, <2>4, <2>6
      <4> QED  BY <2>3, <2>6, <4>1 DEF FramesBounded
    <3> QED  BY <2>1, <3>1, <3>2 DEF WInv
  <2>7. ASSUME Copy, held = << >> PROVE WInv'
    <3>1. Contents'
      BY <1>2, <2>7, ContentsCopy DEF WInv
    <3> QED  BY <1>2, <2>1, <2>7, <3>1 DEF WInv, FramesBounded, Copy
  <2>8. ASSUME Emit PROVE WInv'
    <3>1. Contents'
      BY <1>2, <2>8, ContentsEmit DEF WInv
    <3> QED  BY <1>2, <2>1, <2>8, <3>1 DEF WInv, FramesBounded, Emit
  <2> QED  BY <1>2, <2>5, <2>6, <2>7, <2>8 DEF Next
<1>3. ASSUME WInv, UNCHANGED vars PROVE WInv'
  <2>1. UNCHANGED <<layout, stamped, block>> /\ wire' = wire /\ held' = held
    BY <1>3 DEF vars, layout
  <2>2. IInv'
    BY <1>3, StepHolds DEF WInv
  <2>3. \A n : OnWire(n)' = OnWire(n)
    BY <1>3, <2>1, OnWireStays DEF WInv
  <2>4. Contents'
    BY <1>3, <2>1, <2>3, BlockStays DEF WInv, Contents
  <2> QED  BY <1>3, <2>1, <2>2, <2>4 DEF WInv, FramesBounded
<1>4. SliceNext => Next \/ UNCHANGED vars
  BY DEF SliceNext, Transmit, Lose, Arrive
<1>5. WInv /\ [SliceNext]_<<vars, network, receiver>> => WInv'
  BY <1>2, <1>3, <1>4
<1> QED  BY <1>1, <1>5, PTL DEF SliceSpec

-----------------------------------------------------------------------------
(* Where the packets of a frame lie.  A packet is the c-th of a line of a  *)
(* field, and the fields' lines are the frame's rows, once each.           *)
Within(second, line) == line \in Nat /\ (second => video.interlaced)
                            /\ FrameRow(video, line, second) < video.height

PacketAt(second, line, c) == (IF second THEN Split ELSE 0) + (line * PerLine + c)

(* Twice the rows of a first field is the height, or one more. *)
LEMMA FieldFacts ==
    ASSUME LayoutHolds
    PROVE  LET rows == RowsPerField(video)
           IN  /\ rows \in Nat /\ video.height \in Nat /\ video.height > 0
               /\ video.interlaced \in BOOLEAN
               /\ rows <= video.height
               /\ video.interlaced => /\ video.height <= 2 * rows /\ 2 * rows <= video.height + 1
                                      /\ Split = rows * PerLine
               /\ ~video.interlaced => rows = video.height /\ Split = Count
<1>1. video.height \in Nat /\ video.height > 0 /\ video.interlaced \in BOOLEAN
  BY HeadersAssumption DEF LayoutHolds, IsFormat, Accepted
<1>2. CASE video.interlaced
  <2>1. RowsPerField(video) = (video.height + 2 - 1) \div 2
    BY <1>2 DEF RowsPerField, FieldsPerFrame
  <2>2. Split = RowsPerField(video) * PerLine
    BY <1>2 DEF Split
  <2> QED  BY <1>1, <1>2, <2>1, <2>2
<1>3. CASE ~video.interlaced
  BY <1>1, <1>3 DEF RowsPerField, Split
<1> QED  BY <1>2, <1>3

LEMMA RowIsPacket ==
    ASSUME LayoutHolds, NEW second \in BOOLEAN, NEW line, Within(second, line),
           NEW c \in 0 .. PerLine - 1, NEW k, k = PacketAt(second, line, c)
    PROVE  k \in Packets /\ (InSecond(k) <=> second) /\ Line(k) = line /\ k % PerLine = c
<1> DEFINE rows == RowsPerField(video)
           h == video.height
<1>1. /\ rows \in Nat /\ h \in Nat /\ h > 0 /\ rows <= h /\ video.interlaced \in BOOLEAN
      /\ video.interlaced => h <= 2 * rows /\ 2 * rows <= h + 1 /\ Split = rows * PerLine
      /\ ~video.interlaced => rows = h /\ Split = Count
  BY FieldFacts
<1>2. PerLine \in Nat /\ PerLine > 0 /\ Count \in Nat /\ Count = h * PerLine
  BY LineFacts, CountFacts
<1>3. line \in Nat /\ (second => video.interlaced) /\ FrameRow(video, line, second) < h
  BY DEF Within
<1> HIDE DEF rows, h
<1>4. c \in Nat /\ c < PerLine
  BY <1>2
<1>5. line * PerLine \in Nat /\ rows * PerLine \in Nat /\ rows * PerLine <= h * PerLine
  <2>1. (h - rows) * PerLine >= 0
    BY <1>1, <1>2
  <2>2. (h - rows) * PerLine = h * PerLine - rows * PerLine
    BY <1>1, <1>2
  <2> QED  BY <1>1, <1>2, <1>3, <2>1, <2>2, Product
<1> DEFINE above == line * PerLine
           field == rows * PerLine
           all == h * PerLine
<1>6. above \in Nat /\ field \in Nat /\ all \in Nat /\ field <= all /\ all = Count
  BY <1>2, <1>5
<1>7. (above + c) \div PerLine = line /\ (above + c) % PerLine = c
  BY <1>2, <1>3, Divided
<1>8. Packets = 0 .. all - 1
  BY <1>6 DEF Packets
<1>11. Split \in Nat
  BY <1>1, <1>2, Product
<1>9. CASE second
  <2>1. video.interlaced /\ Split = field /\ line * 2 + 1 < h
    BY <1>1, <1>3, <1>9 DEF FrameRow, FieldsPerFrame
  <2>2. above + PerLine + field <= all
    <3>1. line + 1 + rows <= h
      BY <1>1, <1>3, <2>1
    <3>2. (h - (line + 1 + rows)) * PerLine >= 0
      BY <1>1, <1>2, <1>3, <3>1
    <3>3. (h - (line + 1 + rows)) * PerLine = all - (above + PerLine + field)
      BY <1>1, <1>2, <1>3
    <3> HIDE DEF above, field, all
    <3> QED  BY <1>2, <1>6, <3>2, <3>3
  <2>3. k = field + (above + c)
    BY <1>9, <2>1 DEF PacketAt
  <2>4. k % PerLine = c
    <3>1. (rows + line) * PerLine = field + above
      BY <1>1, <1>2, <1>3
    <3>2. k = (rows + line) * PerLine + c
      <4> HIDE DEF above, field
      <4> QED  BY <1>4, <1>6, <2>3, <3>1
    <3>3. rows + line \in Nat
      BY <1>1, <1>3
    <3> QED  BY <1>2, <3>2, <3>3, Divided
  <2> HIDE DEF above, field, all
  <2>5. k \in Nat /\ k < all /\ k >= field /\ k - field = above + c
    BY <1>2, <1>4, <1>6, <2>2, <2>3
  <2>6. k \in Packets /\ k >= Split /\ k - Split = above + c
    <3>1. Split = field
      BY <2>1
    <3>2. k \in Packets
      BY ONLY <1>6, <1>8, <2>5
    <3> QED  BY ONLY <2>5, <3>1, <3>2
  <2>7. InSecond(k)
    BY <2>6 DEF InSecond
  <2> QED  BY <1>7, <1>9, <2>4, <2>6, <2>7 DEF Line
<1>10. CASE ~second
  <2>1. k = above + c
    BY <1>4, <1>6, <1>10 DEF PacketAt
  <2>2. above + c < Split /\ Split <= all
    <3>1. CASE video.interlaced
      <4>1. line * 2 < h /\ Split = field
        BY <1>1, <1>3, <1>10, <3>1 DEF FrameRow, FieldsPerFrame
      <4>2. line < rows
        BY <1>1, <1>3, <3>1, <4>1
      <4>3. above + PerLine <= field
        BY <1>1, <1>2, <1>3, <4>2, ProductBelow
      <4> HIDE DEF above, field, all
      <4> QED  BY <1>2, <1>4, <1>6, <4>1, <4>3
    <3>2. CASE ~video.interlaced
      <4>1. line < h /\ Split = all
        BY <1>1, <1>3, <1>6, <3>2 DEF FrameRow
      <4>2. above + PerLine <= all
        BY <1>1, <1>2, <1>3, <4>1, ProductBelow
      <4> HIDE DEF above, field, all
      <4> QED  BY <1>2, <1>4, <1>6, <4>1, <4>2
    <3> QED  BY <1>1, <3>1, <3>2
  <2> HIDE DEF above, field, all
  <2>3. Split \in Int
    BY <1>11
  <2>4. k \in Nat /\ k < Split /\ k < all
    <3>1. all \in Nat /\ above + c < Split /\ Split <= all /\ above \in Nat
      BY <1>6, <2>2
    <3> QED  BY ONLY <1>4, <2>1, <2>3, <3>1
  <2>5. k \in Packets
    BY ONLY <1>6, <1>8, <2>4
  <2>6. ~InSecond(k)
    BY <2>3, <2>4 DEF InSecond
  <2> QED  BY <1>7, <1>10, <2>1, <2>5, <2>6 DEF Line
<1> QED  BY <1>9, <1>10

LEMMA PacketIsRow ==
    ASSUME LayoutHolds, NEW k \in Packets
    PROVE  \E c \in 0 .. PerLine - 1 :
               /\ Within(InSecond(k), Line(k))
               /\ k = PacketAt(InSecond(k), Line(k), c)
<1> DEFINE rows == RowsPerField(video)
           h == video.height
           before == IF InSecond(k) THEN Split ELSE 0
           within == k - before
<1>1. /\ rows \in Nat /\ h \in Nat /\ h > 0 /\ rows <= h /\ video.interlaced \in BOOLEAN
      /\ video.interlaced => h <= 2 * rows /\ 2 * rows <= h + 1 /\ Split = rows * PerLine
      /\ ~video.interlaced => rows = h /\ Split = Count
  BY FieldFacts
<1>2. PerLine \in Nat /\ PerLine > 0 /\ Count \in Nat /\ Count = h * PerLine
  BY LineFacts, CountFacts
<1>3. k \in Nat /\ k < Count
  BY <1>2 DEF Packets
<1>4. InSecond(k) \in BOOLEAN /\ (InSecond(k) <=> k >= Split)
  BY DEF InSecond
<1>5. Split \in Nat
  BY <1>1, <1>2, Product
<1>6. ~video.interlaced => ~InSecond(k)
  BY <1>1, <1>2, <1>3, <1>4
<1>7. within \in Nat /\ before \in Nat /\ k = before + within
  BY <1>3, <1>4, <1>5
<1>8. Line(k) = within \div PerLine
  BY <1>3 DEF Line
<1> DEFINE line == within \div PerLine
           c == within % PerLine
<1>9. line \in Nat /\ c \in 0 .. PerLine - 1 /\ within = line * PerLine + c
  BY <1>2, <1>7, Dividing
<1>10. k = PacketAt(InSecond(k), line, c)
  BY <1>7, <1>9 DEF PacketAt
<1>11. FrameRow(video, line, InSecond(k)) < h
  <2>1. CASE ~video.interlaced
    <3>1. within = k
      BY <1>3, <1>6, <2>1
    <3> HIDE DEF within, h
    <3>2. line < h
      BY <1>1, <1>2, <1>3, <1>7, <3>1, QuotientBelow
    <3> QED  BY <2>1, <3>2 DEF FrameRow
  <2>2. CASE video.interlaced /\ InSecond(k)
    <3>1. within < (h - rows) * PerLine
      <4>1. (h - rows) * PerLine = h * PerLine - rows * PerLine
        BY <1>1, <1>2
      <4> DEFINE all == h * PerLine
                 field == rows * PerLine
      <4>2. all \in Nat /\ field \in Nat /\ all = Count /\ Split = field /\ within = k - field
        BY <1>1, <1>2, <2>2, Product
      <4> HIDE DEF within, all, field
      <4>3. within < all - field
        BY <1>2, <1>3, <4>2
      <4> QED  BY <4>1, <4>3 DEF all, field
    <3> HIDE DEF within, h, rows
    <3>2. line < h - rows
      <4>1. h - rows \in Nat
        BY <1>1
      <4> QED  BY <1>2, <1>7, <3>1, <4>1, QuotientBelow
    <3>3. FrameRow(video, line, InSecond(k)) = line * 2 + 1
      BY <2>2 DEF FrameRow, FieldsPerFrame
    <3> HIDE DEF line
    <3>4. h <= 2 * rows /\ rows \in Nat /\ h \in Nat /\ line \in Nat
      BY <1>1, <1>9, <2>2
    <3>5. line * 2 + 1 < h
      BY ONLY <3>2, <3>4
    <3> QED  BY <3>3, <3>5
  <2>3. CASE video.interlaced /\ ~InSecond(k)
    <3>1. within = k /\ k < rows * PerLine
      <4>1. within = k
        BY <1>3, <2>3
      <4>2. k < Split
        BY <1>3, <1>4, <1>5, <2>3
      <4> QED  BY <1>1, <2>3, <4>1, <4>2
    <3> HIDE DEF within, h, rows
    <3>2. line < rows
      BY <1>1, <1>2, <1>7, <3>1, QuotientBelow
    <3>3. FrameRow(video, line, InSecond(k)) = line * 2 + 0
      BY <2>3 DEF FrameRow, FieldsPerFrame
    <3> HIDE DEF line
    <3> QED  BY <1>1, <1>9, <2>3, <3>2, <3>3
  <2> QED  BY <2>1, <2>2, <2>3, Zenon
<1>12. Within(InSecond(k), line)
  <2>1. InSecond(k) => video.interlaced
    BY <1>1, <1>6
  <2> QED  BY <1>9, <1>11, <2>1 DEF Within
<1> QED  BY <1>8, <1>9, <1>10, <1>12

(* The transmitter reads a packet's payload at the octets of its row. *)
LEMMA OffsetIsWhere ==
    ASSUME LayoutHolds, NEW second \in BOOLEAN, NEW line, Within(second, line),
           NEW c \in 0 .. PerLine - 1, NEW k, k = PacketAt(second, line, c)
    PROVE  FrameOffsetOctets(k) = payload * (FrameRow(video, line, second) * PerLine + c)
<1> DEFINE row == FrameRow(video, line, second)
           octets == c * payload
           groups == octets \div video.octets
<1>1. k \in Packets /\ (InSecond(k) <=> second) /\ Line(k) = line /\ k % PerLine = c
  BY RowIsPacket
<1>2. FrameRow(video, Line(k), InSecond(k)) = row
  BY <1>1 DEF FrameRow
<1>3. /\ PerLine \in Nat /\ LineBytes(video) = PerLine * payload
      /\ payload \in Nat /\ payload % video.octets = 0
      /\ video.octets \in Nat /\ video.octets > 0 /\ video.pixels \in Nat /\ video.pixels > 0
      /\ c \in Nat /\ row \in Nat
  <2>1. video.octets \in Nat /\ video.octets > 0 /\ video.pixels \in Nat /\ video.pixels > 0
    BY HeadersAssumption DEF LayoutHolds, IsFormat
  <2>2. payload \in Nat /\ payload % video.octets = 0
    BY DEF LayoutHolds, Accepted, Tiles
  <2>3. row \in Nat
    BY DEF Within, FrameRow, FieldsPerFrame
  <2> QED  BY <2>1, <2>2, <2>3, LineFacts
<1>4. OffsetPixels(k) = groups * video.pixels
  BY <1>1 DEF OffsetPixels, SampleOffset
<1>5. groups \in Nat /\ groups * video.octets = octets
  <2> DEFINE packs == payload \div video.octets
  <2>1. packs \in Nat /\ payload = packs * video.octets
    BY <1>3, Dividing
  <2>2. octets = (c * packs) * video.octets + 0
    <3> HIDE DEF packs
    <3> QED  BY <1>3, <2>1
  <2>3. c * packs \in Nat
    BY <1>3, <2>1, Product
  <2> HIDE DEF packs
  <2>4. groups = c * packs
    BY <1>3, <2>2, <2>3, Divided
  <2> HIDE DEF groups, octets
  <2> QED  BY <1>3, <2>2, <2>3, <2>4
<1>6. (groups * video.pixels) \div video.pixels = groups
  <2> HIDE DEF groups
  <2>1. 0 \in 0 .. video.pixels - 1
    BY <1>3
  <2>2. (groups * video.pixels + 0) \div video.pixels = groups
    BY <1>3, <1>5, <2>1, Divided
  <2>3. groups * video.pixels \in Nat
    BY <1>3, <1>5, Product
  <2> QED  BY <2>2, <2>3
<1>7. FrameOffsetOctets(k) = row * (PerLine * payload) + octets
  <2> HIDE DEF row, groups, octets
  <2> QED  BY <1>2, <1>3, <1>4, <1>5, <1>6 DEF FrameOffsetOctets, RasterOffset, ByteOffset
<1>8. row * (PerLine * payload) + octets = payload * (row * PerLine + c)
  <2> HIDE DEF row
  <2> QED  BY <1>3
<1> QED  BY <1>7, <1>8

(* The packets of a frame are the frame, once each. *)
LEMMA FrameIsCovered ==
    ASSUME LayoutHolds
    PROVE  {FrameOffsetOctets(k) : k \in Packets} = {payload * k : k \in Packets}
<1>1. PerLine \in Nat /\ PerLine > 0 /\ video.height \in Nat /\ Count = video.height * PerLine
  BY LineFacts, CountFacts
<1>2. video.interlaced \in BOOLEAN
  BY FieldFacts
<1>3. ASSUME NEW k \in Packets
      PROVE  \E j \in Packets : FrameOffsetOctets(k) = payload * j
  <2> DEFINE row == FrameRow(video, Line(k), InSecond(k))
  <2>1. PICK c \in 0 .. PerLine - 1 : /\ Within(InSecond(k), Line(k))
                                      /\ k = PacketAt(InSecond(k), Line(k), c)
    BY <1>3, PacketIsRow
  <2>2. InSecond(k) \in BOOLEAN
    BY DEF InSecond
  <2>3. FrameOffsetOctets(k) = payload * (row * PerLine + c)
    BY <2>1, <2>2, OffsetIsWhere
  <2>4. row \in Nat /\ row < video.height
    BY <2>1 DEF Within, FrameRow, FieldsPerFrame
  <2> HIDE DEF row
  <2> DEFINE above == row * PerLine
             all == video.height * PerLine
  <2>5. above + PerLine <= all /\ above \in Nat /\ all \in Nat /\ all = Count
    BY <1>1, <2>4, ProductBelow, Product
  <2> HIDE DEF above, all
  <2>6. c \in Nat /\ c < PerLine
    BY <1>1
  <2>7. above + c \in 0 .. all - 1
    BY ONLY <1>1, <2>5, <2>6
  <2>8. above + c \in Packets
    BY <2>5, <2>7 DEF Packets
  <2> QED  BY <2>3, <2>8 DEF above
<1>4. ASSUME NEW j \in Packets
      PROVE  \E k \in Packets : FrameOffsetOctets(k) = payload * j
  <2> DEFINE row == j \div PerLine
             c == j % PerLine
             second == video.interlaced /\ row % 2 = 1
             line == IF video.interlaced THEN row \div 2 ELSE row
             k == PacketAt(second, line, c)
  <2>1. j \in Nat /\ j < video.height * PerLine
    BY <1>1, Product DEF Packets
  <2>2. row \in Nat /\ c \in 0 .. PerLine - 1 /\ j = row * PerLine + c
    BY <1>1, <2>1, Dividing
  <2>3. row < video.height
    BY <1>1, <2>1, QuotientBelow
  <2> HIDE DEF row, c
  <2>4. second \in BOOLEAN /\ line \in Nat /\ FrameRow(video, line, second) = row
    BY <2>2 DEF FrameRow, FieldsPerFrame
  <2>5. Within(second, line)
    <3>1. second => video.interlaced
      OBVIOUS
    <3> HIDE DEF second, line
    <3> QED  BY <2>3, <2>4, <3>1 DEF Within
  <2> HIDE DEF second, line
  <2>6. k \in Packets
    BY <2>2, <2>4, <2>5, RowIsPacket
  <2>7. FrameOffsetOctets(k) = payload * (row * PerLine + c)
    BY <2>2, <2>4, <2>5, OffsetIsWhere
  <2> HIDE DEF k
  <2> QED  BY <2>2, <2>4, <2>6, <2>7
<1> HIDE DEF FrameOffsetOctets
<1> QED  BY <1>3, <1>4

(* A header on the wire is a row of its frame. *)
LEMMA OnTheWire ==
    ASSUME WInv, NEW i \in DOMAIN wire
    PROVE  /\ stamped # << >> /\ stamped[1] \in Nat /\ i \in 1 .. Len(wire) /\ i - 1 \in Nat
           /\ wire[i] = TheRow((i - 1) % Count, stamped[1] + ((i - 1) \div Count))
           /\ (i - 1) % Count \in Packets /\ (i - 1) \div Count \in Nat
<1>1. wire \in Seq(Header) /\ stamped \in Seq(Nat)
  BY DEF WInv, IInv, Rows
<1>2. DOMAIN wire = 1 .. Len(wire) /\ Len(wire) \in Nat /\ i \in 1 .. Len(wire) /\ i - 1 \in Nat
  BY <1>1, LenProperties
<1>3. stamped # << >>
  <2>1. stamped = << >> => Len(wire) = 0
    BY <1>1, EmptySeq DEF WInv, IInv, QueueRunsOn
  <2> QED  BY <1>2, <2>1
<1>4. stamped[1] \in Nat
  BY <1>1, <1>3, EmptySeq, LenProperties, ElementOfSeq
<1>5. wire[i] = OnWire(i - 1)
  BY <1>2, <1>3 DEF WInv, Contents
<1>6. Count \in Nat /\ Count > 0
  BY CountFacts DEF WInv, IInv
<1>7. (i - 1) % Count \in Packets /\ (i - 1) \div Count \in Nat
  BY <1>2, <1>6, Dividing DEF Packets
<1> QED  BY <1>2, <1>3, <1>4, <1>5, <1>7 DEF OnWire

LEMMA RowSays ==
    ASSUME NEW k, NEW index
    PROVE  /\ TheRow(k, index).line = Line(k) /\ TheRow(k, index).offset = OffsetPixels(k)
           /\ TheRow(k, index).second = InSecond(k) /\ TheRow(k, index).marked = Marked(k)
           /\ TheRow(k, index).stamp = Timestamp(index, IF InSecond(k) THEN 1 ELSE 0)
  BY DEF TheRow, Stamped, LaidOut

(* Placed by its own header alone, a packet lands where it was read. *)
LEMMA PlacedWhereRead ==
    ASSUME WInv, NEW i \in DOMAIN wire
    PROVE  /\ FitsRaster(video, wire[i].line, wire[i].offset)
           /\ PlacedAt(wire[i]) = FrameOffsetOctets((i - 1) % Count)
<1> DEFINE k == (i - 1) % Count
           index == stamped[1] + ((i - 1) \div Count)
<1>1. LayoutHolds
  BY DEF WInv, IInv
<1>2. wire[i] = TheRow(k, index) /\ k \in Packets
  BY OnTheWire
<1> HIDE DEF k, index
<1>3. /\ wire[i].line = Line(k) /\ wire[i].offset = OffsetPixels(k)
      /\ wire[i].second = InSecond(k)
  BY <1>2, RowSays
<1>4. /\ Line(k) \in Nat /\ Line(k) < RowsPerField(video)
      /\ OffsetPixels(k) \in Nat /\ OffsetPixels(k) < video.width
  BY <1>1, <1>2, PacketFacts
<1>5. FitsRaster(video, wire[i].line, wire[i].offset)
  BY <1>3, <1>4 DEF FitsRaster
<1>6. PlacedAt(wire[i]) = FrameOffsetOctets(k)
  BY <1>3, Zenon DEF PlacedAt, FrameOffsetOctets
<1> QED  BY <1>5, <1>6 DEF k

(* Placed by its own header alone, as a receiver places it, a packet lands *)
(* where the transmitter read it, inside what fits_raster passes, and the  *)
(* packets of a frame are the frame once each: for every raster, odd and   *)
(* interlaced ones too, and every payload that tiles its lines             *)
(* (transmit.py _build_layout, frame_offset_octets; geometry.py).          *)
THEOREM EveryOctetOnceHolds == SliceSpec => []EveryOctetOnce
<1>1. ASSUME WInv PROVE EveryOctetOnce
  <2>1. LayoutHolds
    BY <1>1 DEF WInv, IInv
  <2>2. Count \in Nat /\ Count > 0 /\ Packets = 0 .. Count - 1
    BY <2>1, CountFacts DEF Packets
  <2>3. \A i \in DOMAIN wire : /\ FitsRaster(video, wire[i].line, wire[i].offset)
                               /\ PlacedAt(wire[i]) = FrameOffsetOctets((i - 1) % Count)
    BY <1>1, PlacedWhereRead
  <2>4. ASSUME NEW f \in 0 .. Len(wire) \div Count - 1
        PROVE  {PlacedAt(wire[f * Count + k + 1]) : k \in Packets} = {payload * k : k \in Packets}
    <3>1. wire \in Seq(Header)
      BY <1>1 DEF WInv, IInv, Rows
    <3>2. Len(wire) \in Nat /\ DOMAIN wire = 1 .. Len(wire)
      BY <3>1, LenProperties
    <3> DEFINE whole == Len(wire) \div Count
    <3>3. whole \in Nat /\ Len(wire) = whole * Count + (Len(wire) % Count) /\ Len(wire) % Count \in Nat
      <4> DEFINE n == Len(wire)
      <4>1. n \in Nat
        BY <3>2
      <4> HIDE DEF n
      <4>2. n \div Count \in Nat /\ n % Count \in 0 .. Count - 1 /\ n = (n \div Count) * Count + (n % Count)
        BY <2>2, <4>1, Dividing
      <4> QED  BY <2>2, <4>2 DEF n
    <3>4. f \in Nat /\ f < whole
      BY <3>3
    <3> HIDE DEF whole
    <3> DEFINE above == f * Count
               all == whole * Count
    <3>5. above + Count <= all /\ above \in Nat /\ all \in Nat /\ all <= Len(wire)
      <4>1. above + Count <= all /\ above \in Nat /\ all \in Nat
        BY <2>2, <3>3, <3>4, ProductBelow, Product
      <4>2. Len(wire) = all + (Len(wire) % Count)
        BY <3>3
      <4> HIDE DEF above, all
      <4> QED  BY <3>2, <3>3, <4>1, <4>2
    <3>6. ASSUME NEW k \in Packets
          PROVE  PlacedAt(wire[f * Count + k + 1]) = FrameOffsetOctets(k)
      <4>1. k \in 0 .. Count - 1
        BY <2>2
      <4>2. (f * Count + k) % Count = k
        BY <2>2, <3>4, <4>1, Divided
      <4>3. above + k + 1 \in DOMAIN wire /\ (above + k + 1) - 1 = above + k
        <5> HIDE DEF above, all
        <5> QED  BY <2>2, <3>2, <3>5, <4>1
      <4>4. PlacedAt(wire[above + k + 1]) = FrameOffsetOctets(((above + k + 1) - 1) % Count)
        <5> DEFINE i == above + k + 1
        <5>1. i \in DOMAIN wire
          BY <4>3
        <5> HIDE DEF i
        <5>2. PlacedAt(wire[i]) = FrameOffsetOctets((i - 1) % Count)
          BY <2>3, <5>1
        <5> QED  BY <5>2, Zenon DEF i
      <4> QED  BY <4>2, <4>3, <4>4
    <3> HIDE DEF above, all
    <3>7. {PlacedAt(wire[f * Count + k + 1]) : k \in Packets} = {FrameOffsetOctets(k) : k \in Packets}
      BY <3>6
    <3>8. {FrameOffsetOctets(k) : k \in Packets} = {payload * k : k \in Packets}
      BY <2>1, FrameIsCovered
    <3> QED  BY <3>7, <3>8
  <2> QED  BY <2>3, <2>4 DEF EveryOctetOnce
<1> QED  BY <1>1, WireInvariant, PTL

-----------------------------------------------------------------------------
(* The media clock.  Ticks(f) is the RTP clock at the f-th field, in whole *)
(* ticks; a header's timestamp is its remainder by the clock's turn.       *)
Unit == FieldsPerFrame * video.rate_num

PerField == ClockRate * video.rate_den

Ticks(f) == (f * PerField) \div Unit

LEMMA ClockFacts ==
    ASSUME LayoutHolds
    PROVE  PerField \in Nat /\ Unit \in Nat /\ Unit > 0 /\ Unit = 2 * video.rate_num
           /\ video.rate_num \in Nat
<1>1. /\ ClockRate \in Nat /\ video.rate_den \in Nat
      /\ video.rate_num \in Nat /\ video.rate_num > 0
  BY HeadersAssumption DEF LayoutHolds, IsFormat
<1>2. PerField \in Nat
  BY <1>1, Product DEF PerField
<1> QED  BY <1>1, <1>2 DEF Unit, FieldsPerFrame

(* Whole ticks are the exact rate's to within one. *)
LEMMA TicksApart ==
    ASSUME LayoutHolds, NEW f \in Nat, NEW g \in Nat, f <= g,
           NEW d, d = Ticks(g) - Ticks(f)
    PROVE  /\ Ticks(f) \in Nat /\ Ticks(g) \in Nat /\ d \in Nat
           /\ d * Unit - (g - f) * PerField \in 1 - Unit .. Unit - 1
<1> DEFINE x == f * PerField
           y == g * PerField
           s == Ticks(f)
           t == Ticks(g)
           sum == s * Unit
           tum == t * Unit
<1>1. PerField \in Nat /\ Unit \in Nat /\ Unit > 0
  BY ClockFacts
<1>2. x \in Nat /\ y \in Nat
  BY <1>1, Product
<1>3. /\ s \in Nat /\ x = sum + (x % Unit) /\ x % Unit \in 0 .. Unit - 1
      /\ t \in Nat /\ y = tum + (y % Unit) /\ y % Unit \in 0 .. Unit - 1
  <2>1. s = x \div Unit /\ t = y \div Unit
    BY DEF Ticks
  <2> HIDE DEF x, y, s, t
  <2>2. /\ x \div Unit \in Nat /\ x % Unit \in 0 .. Unit - 1 /\ x = (x \div Unit) * Unit + (x % Unit)
        /\ y \div Unit \in Nat /\ y % Unit \in 0 .. Unit - 1 /\ y = (y \div Unit) * Unit + (y % Unit)
    BY <1>1, <1>2, Dividing
  <2> QED  BY <2>1, <2>2
<1>4. (g - f) * PerField = y - x /\ (g - f) * PerField >= 0
  BY <1>1
<1>5. d \in Int /\ d * Unit = tum - sum
  <2>1. d = t - s
    OBVIOUS
  <2> HIDE DEF s, t
  <2>2. (t - s) * Unit = tum - sum
    BY <1>1, <1>3
  <2> QED  BY <1>3, <2>1, <2>2
<1> HIDE DEF x, y, s, t
<1> DEFINE r == x % Unit
           q == y % Unit
<1>6. r \in 0 .. Unit - 1 /\ q \in 0 .. Unit - 1 /\ x = sum + r /\ y = tum + q
  BY <1>3
<1>7. sum \in Nat /\ tum \in Nat
  BY <1>1, <1>3, Product
<1> HIDE DEF r, q, sum, tum
<1>8. (tum - sum) - (y - x) = r - q
  BY <1>2, <1>6, <1>7
<1>9. r - q \in 1 - Unit .. Unit - 1
  BY <1>1, <1>6
<1>10. d * Unit - (g - f) * PerField \in 1 - Unit .. Unit - 1
  BY <1>4, <1>5, <1>8, <1>9
<1>11. d >= 0
  <2>1. SUFFICES ASSUME d <= -1 PROVE FALSE
    BY <1>5
  <2>2. (-1 - d) * Unit >= 0
    BY <1>1, <1>5, <2>1
  <2>3. (-1 - d) * Unit = -Unit - d * Unit
    BY <1>1, <1>5
  <2> DEFINE z == d * Unit
             w == (g - f) * PerField
  <2>4. z - w >= 1 - Unit /\ w >= 0 /\ -Unit - z >= 0 /\ z \in Int /\ w \in Int
    <3>1. z \in Int /\ w \in Int
      BY <1>1, <1>5
    <3> QED  BY <1>1, <1>4, <1>10, <2>2, <2>3, <3>1
  <2> HIDE DEF z, w
  <2> QED  BY <1>1, <2>4
<1> QED  BY <1>3, <1>5, <1>10, <1>11 DEF s, t

(* Ticks no more than a turn of the clock apart, less one, are not hidden  *)
(* by the remainders.                                                      *)
LEMMA WithinTurn ==
    ASSUME LayoutHolds, NEW f \in Nat, NEW g \in Nat, f <= g,
           (g - f) * PerField <= (Modulus - 1) * Unit,
           NEW d, d = Ticks(g) - Ticks(f)
    PROVE  d \in 0 .. Modulus - 1 /\ ((Ticks(g) % Modulus) - (Ticks(f) % Modulus)) % Modulus = d
<1>1. PerField \in Nat /\ Unit \in Nat /\ Unit > 0 /\ Modulus \in Nat /\ Modulus > 0
  BY ClockFacts, ModulusFacts
<1>2. /\ Ticks(f) \in Nat /\ Ticks(g) \in Nat /\ d \in Nat
      /\ d * Unit - (g - f) * PerField \in 1 - Unit .. Unit - 1
  BY TicksApart
<1>3. d < Modulus
  <2>1. SUFFICES ASSUME d >= Modulus PROVE FALSE
    BY <1>1, <1>2
  <2> DEFINE z == d * Unit
             w == (g - f) * PerField
             turn == Modulus * Unit
  <2>2. (d - Modulus) * Unit >= 0 /\ (d - Modulus) * Unit = z - turn
    BY <1>1, <1>2, <2>1
  <2>3. (Modulus - 1) * Unit = turn - Unit
    BY <1>1
  <2>4. z \in Int /\ w \in Int /\ turn \in Int
    BY <1>1, <1>2
  <2>5. w <= turn - Unit /\ z - turn >= 0 /\ z - w <= Unit - 1
    BY <1>1, <1>2, <2>2, <2>3, <2>4
  <2> HIDE DEF z, w, turn
  <2> QED  BY <1>1, <2>4, <2>5
<1> DEFINE s == Ticks(f)
           t == Ticks(g)
<1>4. s \in Nat /\ t \in Nat /\ d = t - s
  BY <1>2
<1> HIDE DEF s, t
<1>5. ((t % Modulus) - (s % Modulus)) % Modulus = d
  <2> DEFINE a == t \div Modulus
             b == s \div Modulus
  <2>1. /\ a \in Nat /\ t % Modulus \in 0 .. Modulus - 1 /\ t = a * Modulus + (t % Modulus)
        /\ b \in Nat /\ s % Modulus \in 0 .. Modulus - 1 /\ s = b * Modulus + (s % Modulus)
    BY <1>1, <1>4, Dividing
  <2> HIDE DEF a, b
  <2> DEFINE r == t % Modulus
             q == s % Modulus
  <2>2. r \in Int /\ q \in Int /\ t = a * Modulus + r /\ s = b * Modulus + q
    BY <1>1, <2>1
  <2> HIDE DEF r, q
  <2>3. (b - a) * Modulus = b * Modulus - a * Modulus
    BY <1>1, <2>1
  <2>4. a * Modulus \in Int /\ b * Modulus \in Int
    BY <1>1, <2>1
  <2>5. r - q = (b - a) * Modulus + d
    <3> DEFINE am == a * Modulus
               bm == b * Modulus
    <3>1. am \in Int /\ bm \in Int /\ t = am + r /\ s = bm + q /\ (b - a) * Modulus = bm - am
      BY <2>2, <2>3, <2>4
    <3> HIDE DEF am, bm
    <3>2. r - q = (bm - am) + d
      BY <1>4, <2>2, <3>1
    <3> QED  BY <3>1, <3>2
  <2>6. (r - q) \in Int /\ (b - a) \in Int /\ d \in 0 .. Modulus - 1
    BY <1>1, <1>2, <1>3, <2>1, <2>2
  <2>7. (r - q) % Modulus = d
    BY <1>1, <2>5, <2>6, RemainderUnique
  <2> QED  BY <2>7 DEF r, q
<1> QED  BY <1>1, <1>2, <1>3, <1>5 DEF s, t

(* Which field of the flow a packet on the wire is of, and its timestamp.  *)
LEMMA WireStamp ==
    ASSUME WInv, NEW i \in DOMAIN wire
    PROVE  /\ FieldsFrom(i) \in Nat /\ 2 * stamped[1] \in Nat
           /\ wire[i].stamp = Ticks(2 * stamped[1] + FieldsFrom(i)) % Modulus
<1> DEFINE q == (i - 1) \div Count
           k == (i - 1) % Count
           field == IF InSecond(k) THEN 1 ELSE 0
<1>1. stamped[1] \in Nat /\ wire[i] = TheRow(k, stamped[1] + q) /\ q \in Nat
  BY OnTheWire
<1>2. FieldsFrom(i) = 2 * q + field
  BY DEF FieldsFrom, FieldsPerFrame
<1> HIDE DEF q, k
<1>3. wire[i].stamp = Timestamp(stamped[1] + q, field)
  BY <1>1, RowSays
<1>4. field \in Nat
  OBVIOUS
<1> HIDE DEF field
<1>5. 2 * (stamped[1] + q) + field = 2 * stamped[1] + FieldsFrom(i)
  BY <1>1, <1>2, <1>4
<1> DEFINE f == 2 * stamped[1] + FieldsFrom(i)
<1>6. f \in Nat /\ FieldsFrom(i) \in Nat /\ 2 * stamped[1] \in Nat
  BY <1>1, <1>2, <1>4
<1>7. Timestamp(stamped[1] + q, field) = ((f * ClockRate * video.rate_den) \div Unit) % Modulus
  BY <1>5, Zenon DEF Timestamp, FieldsPerFrame, Unit
<1> HIDE DEF f
<1>8. f * ClockRate * video.rate_den = f * PerField
  <2>1. ClockRate \in Nat /\ video.rate_den \in Nat
    BY HeadersAssumption DEF WInv, IInv, LayoutHolds, IsFormat
  <2> QED  BY <1>6, <2>1 DEF PerField
<1> QED  BY <1>3, <1>6, <1>7, <1>8, Zenon DEF Ticks, f

(* Later on the wire is no earlier a field. *)
LEMMA FieldsGrow ==
    ASSUME WInv, NEW i \in DOMAIN wire, NEW j \in DOMAIN wire, i < j
    PROVE  FieldsFrom(i) <= FieldsFrom(j) /\ FieldsFrom(j) <= 2 * Len(stamped) - 1
<1> DEFINE p == (i - 1) \div Count
           q == (j - 1) \div Count
           k == (i - 1) % Count
           l == (j - 1) % Count
<1>1. Count \in Nat /\ Count > 0 /\ Split \in Nat
  BY CountFacts, FieldFacts, LineFacts, Product DEF WInv, IInv
<1>2. i \in 1 .. Len(wire) /\ j \in 1 .. Len(wire) /\ i - 1 \in Nat /\ j - 1 \in Nat
  BY OnTheWire
<1>3. /\ p \in Nat /\ k \in 0 .. Count - 1 /\ i - 1 = p * Count + k
      /\ q \in Nat /\ l \in 0 .. Count - 1 /\ j - 1 = q * Count + l
  BY <1>1, <1>2, Dividing
<1>4. /\ FieldsFrom(i) = 2 * p + (IF InSecond(k) THEN 1 ELSE 0)
      /\ FieldsFrom(j) = 2 * q + (IF InSecond(l) THEN 1 ELSE 0)
  BY DEF FieldsFrom, FieldsPerFrame
<1> HIDE DEF p, q, k, l
<1>5. p <= q
  <2>1. SUFFICES ASSUME q < p PROVE FALSE
    BY <1>3
  <2> DEFINE pc == p * Count
             qc == q * Count
  <2>2. qc + Count <= pc /\ pc \in Nat /\ qc \in Nat
    BY <1>1, <1>3, <2>1, ProductBelow, Product
  <2>3. i - 1 = pc + k /\ j - 1 = qc + l
    BY <1>3
  <2> HIDE DEF pc, qc
  <2>4. i \in Nat /\ j \in Nat
    BY <1>2
  <2> QED  BY <1>1, <1>3, <2>2, <2>3, <2>4
<1>6. ASSUME p = q PROVE k < l
  <2> DEFINE pc == p * Count
  <2>1. pc \in Nat /\ i - 1 = pc + k /\ j - 1 = pc + l
    BY <1>1, <1>3, <1>6, Product
  <2> HIDE DEF pc
  <2> QED  BY <1>1, <1>2, <1>3, <2>1
<1>7. FieldsFrom(i) <= FieldsFrom(j)
  <2>1. CASE p = q
    <3>1. InSecond(k) => InSecond(l)
      BY <1>1, <1>3, <1>6, <2>1 DEF InSecond
    <3> QED  BY <1>3, <1>4, <2>1, <3>1
  <2>2. CASE p < q
    BY <1>3, <1>4, <2>2
  <2> QED  BY <1>3, <1>5, <2>1, <2>2
<1>8. q < Len(stamped)
  <2>1. /\ stamped \in Seq(Nat) /\ wire \in Seq(Header) /\ held \in Seq(Header)
        /\ sent \in 0 .. Count
    BY DEF WInv, IInv, Rows
  <2>2. Len(stamped) \in Nat /\ Len(wire) \in Nat /\ Len(held) \in Nat
    BY <2>1, LenProperties
  <2>3. stamped # << >>
    BY OnTheWire
  <2>4. Len(wire) + Len(held) + (Count - sent) = Len(stamped) * Count
    BY <2>3 DEF WInv, IInv, QueueRunsOn
  <2> DEFINE all == Len(stamped) * Count
  <2>5. all \in Nat /\ Len(wire) <= all
    <3>1. all \in Nat /\ Len(wire) + Len(held) + (Count - sent) = all
      BY <1>1, <2>2, <2>4, Product
    <3> HIDE DEF all
    <3> QED  BY <1>1, <2>1, <2>2, <3>1
  <2>6. j - 1 < all
    <3> HIDE DEF all
    <3> QED  BY <1>2, <2>2, <2>5
  <2>7. (j - 1) \div Count < Len(stamped)
    BY <1>1, <1>2, <2>2, <2>6, QuotientBelow
  <2> QED  BY <2>7 DEF q
<1>9. Len(stamped) \in Nat
  <2>1. stamped \in Seq(Nat)
    BY DEF WInv, IInv, Rows
  <2> QED  BY <2>1, LenProperties
<1> QED  BY <1>3, <1>4, <1>7, <1>8, <1>9

(* No capture is as long as the clock's turn (thirteen hours at 90 kHz):   *)
(* beyond it no receiver can tell a duration from one a turn shorter.      *)
ShorterThanTurn ==
    /\ MaxFrames \in Nat \ {0}
    /\ \A format \in Videos :
        MaxFrames * (ClockRate * format.rate_den) <= (Modulus - 1) * format.rate_num

(* The media clock does not drift: between any two packets on the wire,    *)
(* however many frames apart and across the timestamp's wrap, the ticks    *)
(* are the exact rate's to within one, for every rational frame rate       *)
(* (transmit.py timestamp: multiplied out before it is divided).           *)
THEOREM ClockIsExactHolds ==
    ASSUME ShorterThanTurn
    PROVE  SliceSpec => []ClockIsExact
<1>1. ASSUME WInv PROVE ClockIsExact
  <2> SUFFICES ASSUME NEW i \in DOMAIN wire, NEW j \in DOMAIN wire, i < j
               PROVE  LET ticks == (wire[j].stamp - wire[i].stamp) % Modulus
                          unit == FieldsPerFrame * video.rate_num
                          exact == (FieldsFrom(j) - FieldsFrom(i)) * ClockRate * video.rate_den
                      IN  ticks * unit - exact \in 1 - unit .. unit - 1
    BY Zenon DEF ClockIsExact
  <2> DEFINE f == 2 * stamped[1] + FieldsFrom(i)
             g == 2 * stamped[1] + FieldsFrom(j)
             d == Ticks(g) - Ticks(f)
             apart == FieldsFrom(j) - FieldsFrom(i)
  <2>1. LayoutHolds
    BY <1>1 DEF WInv, IInv
  <2>2. /\ FieldsFrom(i) \in Nat /\ FieldsFrom(j) \in Nat /\ 2 * stamped[1] \in Nat
        /\ wire[i].stamp = Ticks(f) % Modulus /\ wire[j].stamp = Ticks(g) % Modulus
    BY <1>1, WireStamp
  <2>3. FieldsFrom(i) <= FieldsFrom(j) /\ FieldsFrom(j) <= 2 * Len(stamped) - 1
    BY <1>1, FieldsGrow
  <2>4. f \in Nat /\ g \in Nat /\ f <= g /\ g - f = apart /\ apart \in Nat
    BY <2>2, <2>3
  <2>5. apart <= 2 * MaxFrames
    <3>1. stamped \in Seq(Nat)
      BY <1>1 DEF WInv, IInv, Rows
    <3>2. Len(stamped) \in Nat
      BY <3>1, LenProperties
    <3>3. MaxFrames \in Nat /\ MaxFrames >= 1
      BY DEF ShorterThanTurn
    <3>4. Len(stamped) <= MaxFrames
      BY <1>1, <3>2, <3>3 DEF WInv, FramesBounded
    <3> QED  BY <2>2, <2>3, <3>2, <3>3, <3>4
  <2>6. PerField \in Nat /\ Unit \in Nat /\ Unit > 0 /\ Unit = 2 * video.rate_num /\ video.rate_num \in Nat
    BY <2>1, ClockFacts
  <2> HIDE DEF f, g, apart
  <2>7. apart * PerField <= (Modulus - 1) * Unit
    <3>1. MaxFrames \in Nat /\ MaxFrames * PerField <= (Modulus - 1) * video.rate_num
      BY <2>1 DEF ShorterThanTurn, LayoutHolds, PerField
    <3>2. (2 * MaxFrames - apart) * PerField >= 0
      BY <2>4, <2>5, <2>6, <3>1
    <3>3. (2 * MaxFrames - apart) * PerField = 2 * (MaxFrames * PerField) - apart * PerField
      BY <2>4, <2>6, <3>1
    <3>4. Modulus \in Nat
      BY ModulusFacts
    <3>5. (Modulus - 1) * Unit = 2 * ((Modulus - 1) * video.rate_num)
      BY <2>6, <3>4
    <3> DEFINE x == MaxFrames * PerField
               y == (Modulus - 1) * video.rate_num
               z == apart * PerField
    <3>6. x \in Int /\ y \in Int /\ z \in Int
      BY <2>4, <2>6, <3>1, <3>4
    <3>7. x <= y /\ 2 * x - z >= 0 /\ (Modulus - 1) * Unit = 2 * y
      BY <3>1, <3>2, <3>3, <3>5
    <3> HIDE DEF x, y
    <3> QED  BY <3>6, <3>7
  <2>8. (g - f) * PerField <= (Modulus - 1) * Unit
    BY <2>4, <2>7
  <2>9. ((Ticks(g) % Modulus) - (Ticks(f) % Modulus)) % Modulus = d
    BY <2>1, <2>4, <2>8, WithinTurn
  <2>10. d * Unit - (g - f) * PerField \in 1 - Unit .. Unit - 1
    BY <2>1, <2>4, TicksApart
  <2>11. (wire[j].stamp - wire[i].stamp) % Modulus = d
    BY <2>2, <2>9
  <2>12. (FieldsFrom(j) - FieldsFrom(i)) * ClockRate * video.rate_den = (g - f) * PerField
    <3>1. ClockRate \in Nat /\ video.rate_den \in Nat
      BY <2>1, HeadersAssumption DEF LayoutHolds, IsFormat
    <3>2. apart * ClockRate * video.rate_den = apart * PerField
      BY <2>4, <3>1 DEF PerField
    <3> QED  BY <2>4, <3>2 DEF apart
  <2> HIDE DEF d
  <2> QED  BY <2>10, <2>11, <2>12, Zenon DEF Unit
<1> QED  BY <1>1, WireInvariant, PTL

(* A field lasts a tick of the clock at least, and a frame less than the   *)
(* clock's turn: of every rate there is a raster for.                      *)
RatesAreTold ==
    \A format \in Videos :
        /\ (IF format.interlaced THEN 2 ELSE 1) * format.rate_num <= ClockRate * format.rate_den
        /\ ClockRate * format.rate_den <= (Modulus - 1) * format.rate_num

(* The packet after a marked one is of a later field, and none other is.   *)
LEMMA MarkersEndFields ==
    ASSUME WInv, NEW i \in 1 .. Len(wire) - 1
    PROVE  /\ i \in DOMAIN wire /\ i + 1 \in DOMAIN wire
           /\ FieldsFrom(i) \in Nat /\ FieldsFrom(i + 1) \in Nat
           /\ ~wire[i].marked => FieldsFrom(i + 1) = FieldsFrom(i)
           /\ wire[i].marked => FieldsFrom(i + 1) \in FieldsFrom(i) + 1 .. FieldsFrom(i) + 2
           /\ wire[i].marked /\ FieldsFrom(i + 1) = FieldsFrom(i) + 1 => video.interlaced
<1> DEFINE q == (i - 1) \div Count
           k == (i - 1) % Count
<1>1. /\ Count \in Nat /\ Count > 0 /\ Split \in Nat /\ Split > 0
      /\ ~video.interlaced => Split = Count
  <2>1. LayoutHolds
    BY DEF WInv, IInv
  <2>2. /\ Count \in Nat /\ Count > 0 /\ PerLine \in Nat /\ PerLine > 0
    BY <2>1, CountFacts, LineFacts
  <2> DEFINE rows == RowsPerField(video)
  <2>3. /\ rows \in Nat /\ video.height \in Nat /\ video.height > 0 /\ video.interlaced \in BOOLEAN
        /\ video.interlaced => video.height <= 2 * rows /\ Split = rows * PerLine
        /\ ~video.interlaced => Split = Count
    BY <2>1, FieldFacts
  <2> HIDE DEF rows
  <2>4. video.interlaced => rows > 0
    BY <2>3
  <2>5. rows > 0 => rows * PerLine \in Nat /\ rows * PerLine > 0
    BY <2>2, <2>3, Product
  <2> QED  BY <2>2, <2>3, <2>4, <2>5
<1>2. wire \in Seq(Header)
  BY DEF WInv, IInv, Rows
<1>3. i \in DOMAIN wire /\ i + 1 \in DOMAIN wire /\ i \in Nat /\ i - 1 \in Nat
  BY <1>2, LenProperties
<1>4. wire[i].marked = Marked(k)
  BY <1>3, OnTheWire, RowSays
<1>5. q \in Nat /\ k \in 0 .. Count - 1 /\ i - 1 = q * Count + k
  BY <1>1, <1>3, Dividing
<1>6. FieldsFrom(i) = 2 * q + (IF InSecond(k) THEN 1 ELSE 0)
  BY DEF FieldsFrom, FieldsPerFrame
<1> HIDE DEF q, k
<1>7. ASSUME NEW p \in Nat, NEW l \in 0 .. Count - 1, i = p * Count + l
      PROVE  FieldsFrom(i + 1) = 2 * p + (IF InSecond(l) THEN 1 ELSE 0)
  <2>1. i % Count = l /\ i \div Count = p
    BY <1>1, <1>7, Divided
  <2>2. (i + 1) - 1 = i
    BY <1>3
  <2> QED  BY <2>1, <2>2 DEF FieldsFrom, FieldsPerFrame
<1>8. CASE k # Count - 1
  <2>1. k + 1 \in 0 .. Count - 1 /\ i = q * Count + (k + 1)
    <3> DEFINE qc == q * Count
    <3>1. qc \in Nat /\ i - 1 = qc + k
      BY <1>1, <1>5, Product
    <3> HIDE DEF qc
    <3> QED  BY <1>1, <1>3, <1>5, <1>8, <3>1 DEF qc
  <2>2. FieldsFrom(i + 1) = 2 * q + (IF InSecond(k + 1) THEN 1 ELSE 0)
    BY <1>5, <1>7, <2>1
  <2>3. Marked(k) <=> k = Split - 1
    BY <1>8 DEF Marked
  <2>4. CASE k = Split - 1
    <3>1. ~InSecond(k) /\ InSecond(k + 1) /\ Marked(k)
      BY <1>1, <1>5, <2>3, <2>4 DEF InSecond
    <3>2. video.interlaced
      BY <1>1, <1>8, <2>4
    <3> QED  BY <1>3, <1>4, <1>5, <1>6, <2>2, <3>1, <3>2
  <2>5. CASE k # Split - 1
    <3>1. InSecond(k) <=> InSecond(k + 1)
      BY <1>1, <1>5, <2>5 DEF InSecond
    <3>2. FieldsFrom(i + 1) = FieldsFrom(i)
      BY <1>6, <2>2, <3>1
    <3>3. FieldsFrom(i) \in Nat /\ ~Marked(k)
      BY <1>5, <1>6, <2>3, <2>5
    <3> QED  BY <1>3, <1>4, <3>2, <3>3
  <2> QED  BY <2>4, <2>5
<1>9. CASE k = Count - 1
  <2>1. 0 \in 0 .. Count - 1 /\ q + 1 \in Nat /\ i = (q + 1) * Count + 0
    <3>1. (q + 1) * Count = q * Count + Count
      BY <1>1, <1>5
    <3> DEFINE qc == q * Count
    <3>2. qc \in Nat /\ i - 1 = qc + k /\ (q + 1) * Count = qc + Count
      BY <1>1, <1>5, <3>1, Product
    <3> HIDE DEF qc
    <3>3. i = (q + 1) * Count + 0
      BY <1>1, <1>3, <1>9, <3>2
    <3> QED  BY <1>1, <1>5, <3>3
  <2>2. FieldsFrom(i + 1) = 2 * (q + 1) + (IF InSecond(0) THEN 1 ELSE 0)
    BY <1>7, <2>1
  <2>3. ~InSecond(0) /\ Marked(k)
    BY <1>1, <1>9 DEF InSecond, Marked
  <2>4. ~video.interlaced => ~InSecond(k)
    BY <1>1, <1>9 DEF InSecond
  <2>5. FieldsFrom(i + 1) = 2 * q + 2
    BY <1>5, <2>2, <2>3
  <2>6. CASE InSecond(k)
    <3>1. FieldsFrom(i) = 2 * q + 1 /\ video.interlaced
      BY <1>6, <2>4, <2>6
    <3> QED  BY <1>3, <1>4, <1>5, <2>3, <2>5, <3>1
  <2>7. CASE ~InSecond(k)
    <3>1. FieldsFrom(i) = 2 * q
      BY <1>5, <1>6, <2>7
    <3> QED  BY <1>3, <1>4, <1>5, <2>3, <2>5, <3>1
  <2> QED  BY <2>6, <2>7
<1> QED  BY <1>8, <1>9

(* A receiver framing by markers and one framing by timestamps agree: the  *)
(* marker is on the last packet of each run of one media timestamp and     *)
(* nowhere else, for every raster, odd and interlaced ones too, and every  *)
(* rate (transmit.py _build_layout, timestamp; SPEC.md's marker per field).*)
THEOREM MarkersEndStampsHolds ==
    ASSUME RatesAreTold
    PROVE  SliceSpec => []MarkersEndStamps
<1>1. ASSUME WInv PROVE MarkersEndStamps
  <2> SUFFICES ASSUME NEW i \in 1 .. Len(wire) - 1
               PROVE  wire[i].marked <=> wire[i].stamp # wire[i + 1].stamp
    BY DEF MarkersEndStamps
  <2> DEFINE a == FieldsFrom(i)
             b == FieldsFrom(i + 1)
             f == 2 * stamped[1] + a
             g == 2 * stamped[1] + b
             d == Ticks(g) - Ticks(f)
  <2>1. LayoutHolds
    BY <1>1 DEF WInv, IInv
  <2>2. /\ i \in DOMAIN wire /\ i + 1 \in DOMAIN wire /\ a \in Nat /\ b \in Nat
        /\ ~wire[i].marked => b = a
        /\ wire[i].marked => b \in a + 1 .. a + 2
        /\ wire[i].marked /\ b = a + 1 => video.interlaced
    BY <1>1, MarkersEndFields
  <2>3. /\ wire[i].stamp = Ticks(f) % Modulus /\ wire[i + 1].stamp = Ticks(g) % Modulus
        /\ 2 * stamped[1] \in Nat
    BY <1>1, <2>2, WireStamp
  <2> HIDE DEF a, b
  <2>4. CASE ~wire[i].marked
    BY <2>2, <2>3, <2>4
  <2>5. CASE wire[i].marked
    <3>1. f \in Nat /\ g \in Nat /\ f <= g /\ g - f \in {1, 2} /\ (g - f = 1 => video.interlaced)
      BY <2>2, <2>3, <2>5
    <3>2. PerField \in Nat /\ Unit \in Nat /\ Unit > 0 /\ Unit = 2 * video.rate_num /\ video.rate_num \in Nat
      BY <2>1, ClockFacts
    <3>3. /\ (IF video.interlaced THEN 2 ELSE 1) * video.rate_num <= PerField
          /\ PerField <= (Modulus - 1) * video.rate_num
      BY <2>1 DEF RatesAreTold, LayoutHolds, PerField
    <3> HIDE DEF f, g
    <3>4. Modulus \in Nat /\ Modulus > 0
      BY ModulusFacts
    <3>5. (Modulus - 1) * Unit = 2 * ((Modulus - 1) * video.rate_num)
      BY <3>2, <3>4
    <3> DEFINE turn == (Modulus - 1) * video.rate_num
    <3>6. turn \in Int /\ PerField <= turn /\ (Modulus - 1) * Unit = 2 * turn
      BY <3>2, <3>3, <3>4, <3>5
    <3>7. (g - f) * PerField = PerField \/ (g - f) * PerField = 2 * PerField
      BY <3>1, <3>2
    <3> HIDE DEF turn
    <3>8. (g - f) * PerField <= (Modulus - 1) * Unit
      BY <3>2, <3>6, <3>7
    <3>9. (g - f) * PerField >= Unit
      <4>1. CASE video.interlaced
        <5>1. Unit <= PerField
          BY <3>2, <3>3, <4>1
        <5> QED  BY <3>2, <3>7, <5>1
      <4>2. CASE ~video.interlaced
        <5>1. video.rate_num <= PerField
          BY <3>2, <3>3, <4>2
        <5>2. g - f = 2
          BY <3>1, <4>2
        <5>3. (g - f) * PerField = 2 * PerField
          BY <3>2, <5>2
        <5> QED  BY <3>2, <5>1, <5>3
      <4> QED  BY <4>1, <4>2
    <3>10. /\ d \in 0 .. Modulus - 1
           /\ ((Ticks(g) % Modulus) - (Ticks(f) % Modulus)) % Modulus = d
      BY <2>1, <3>1, <3>8, WithinTurn
    <3>11. d * Unit - (g - f) * PerField \in 1 - Unit .. Unit - 1
      BY <2>1, <3>1, TicksApart
    <3> HIDE DEF d
    <3>12. d # 0
      <4>1. SUFFICES ASSUME d = 0 PROVE FALSE
        OBVIOUS
      <4>2. d * Unit = 0
        BY <3>2, <4>1
      <4> DEFINE w == (g - f) * PerField
      <4>3. w \in Int /\ w >= Unit /\ 0 - w \in 1 - Unit .. Unit - 1
        BY <3>1, <3>2, <3>9, <3>11, <4>2
      <4> HIDE DEF w
      <4> QED  BY <3>2, <4>3
    <3>13. Ticks(g) % Modulus # Ticks(f) % Modulus
      <4>1. SUFFICES ASSUME Ticks(g) % Modulus = Ticks(f) % Modulus PROVE FALSE
        OBVIOUS
      <4>2. Ticks(f) \in Nat
        BY <2>1, <3>1, TicksApart
      <4> DEFINE r == Ticks(f) % Modulus
      <4>3. r \in Int
        BY <3>4, <4>2, Dividing
      <4>4. (r - r) % Modulus = d
        BY <3>10, <4>1
      <4> HIDE DEF r
      <4>5. (r - r) % Modulus = 0
        BY <3>4, <4>3
      <4> QED  BY <3>12, <4>4, <4>5
    <3> QED  BY <2>3, <2>5, <3>13
  <2> QED  BY <2>4, <2>5
<1> QED  BY <1>1, WireInvariant, PTL

-----------------------------------------------------------------------------
(* What an SDP may declare: a datagram's size is a sixteen-bit number      *)
(* (sdp.py _MAX_UDP_SIZE), as the length field of an SRD header is.        *)
SizesAreDeclared == \A format \in Videos : format.max_udp < Half

(* choose_payload_size() picks a payload the block is laid out for, and    *)
(* the largest such.                                                       *)
LEMMA ChosenIsLargest ==
    ASSUME LayoutHolds, SizesAreDeclared,
           NEW chosen, chosen = ChoosePayloadSize(video, MaxPayloadSize(video))
    PROVE  Accepted(video, chosen) /\ payload <= chosen
<1> DEFINE limit == MaxPayloadSize(video)
           o == video.octets
           groups == video.width \div video.pixels
           room == limit \div o
           bound == Min({room, groups})
           divisors == {n \in 1 .. bound : groups % n = 0}
           m == Max(divisors)
<1>1. /\ o \in Nat /\ o > 0 /\ video.max_udp \in Nat /\ HeaderSize \in Nat /\ Half \in Nat
      /\ video.max_udp >= HeaderSize + o
  BY HeadersAssumption DEF LayoutHolds, IsFormat
<1>2. limit \in Nat /\ limit >= o /\ limit < Half
  BY <1>1 DEF LayoutHolds, SizesAreDeclared, MaxPayloadSize
<1>3. /\ payload \in Nat /\ payload > 0 /\ payload <= limit /\ payload % o = 0
  BY DEF LayoutHolds, Accepted, Tiles
<1>4. /\ groups \in Nat /\ groups > 0 /\ LineBytes(video) = groups * o
      /\ PerLine \in Nat /\ PerLine > 0 /\ LineBytes(video) = PerLine * payload
  BY LineFacts
<1> HIDE DEF limit, o, groups
<1>5. room \in Nat /\ limit = room * o + (limit % o) /\ limit % o \in 0 .. o - 1
  BY <1>1, <1>2, Dividing
<1>6. room >= 1
  <2>1. CASE room = 0
    BY <1>1, <1>2, <1>5, <2>1
  <2> QED  BY <1>5, <2>1
<1>7. LineBytes(video) \div o = groups
  <2>1. 0 \in 0 .. o - 1
    BY <1>1
  <2>2. (groups * o + 0) \div o = groups
    BY <1>1, <1>4, <2>1, Divided
  <2>3. groups * o \in Nat
    BY <1>1, <1>4, Product
  <2> QED  BY <1>4, <2>2, <2>3
<1>8. chosen = o * m
  <2>1. ChoosePayloadSize(video, MaxPayloadSize(video))
            = o * Max({n \in 1 .. Min({room, LineBytes(video) \div o}) :
                           (LineBytes(video) \div o) % n = 0})
    BY Zenon DEF ChoosePayloadSize, o, limit
  <2> QED  BY <1>7, <2>1, Zenon
<1> HIDE DEF room
<1>9. bound \in {room, groups} /\ bound <= room /\ bound <= groups
  <2>1. {room, groups} \subseteq Int /\ {room, groups} # {} /\ \A x \in {room, groups} : 0 <= x
    BY <1>4, <1>5
  <2>2. Min({room, groups}) \in {room, groups} /\ \A x \in {room, groups} : Min({room, groups}) <= x
    <3> DEFINE low == 0
    <3>1. low \in Int /\ \A x \in {room, groups} : low <= x
      BY <2>1
    <3> HIDE DEF low
    <3> QED  BY <2>1, <3>1, MinBounded, Zenon
  <2> QED  BY <2>2
<1> HIDE DEF bound
<1>10. bound \in Nat /\ bound >= 1
  BY <1>4, <1>5, <1>6, <1>9
<1>11. groups % 1 = 0
  BY <1>4
<1>12. m \in divisors /\ \A n \in divisors : n <= m
  <2>1. divisors \subseteq Int /\ \A n \in divisors : n <= bound
    BY <1>10
  <2>2. 1 \in divisors
    BY <1>10, <1>11
  <2>3. divisors # {} /\ bound \in Int
    BY <1>10, <2>2
  <2> HIDE DEF divisors
  <2> QED  BY <2>1, <2>3, MaxBounded, Zenon
<1>13. m \in Nat /\ m >= 1 /\ m <= bound /\ groups % m = 0
  BY <1>10, <1>12
<1>14. payload <= chosen
  <2> DEFINE p == payload \div o
  <2>1. p \in Nat /\ payload = p * o
    BY <1>1, <1>3, Dividing
  <2> HIDE DEF p
  <2>2. p >= 1
    <3>1. CASE p = 0
      BY <1>1, <1>3, <2>1, <3>1
    <3> QED  BY <2>1, <3>1
  <2>3. groups = PerLine * p
    <3>1. (PerLine * p) * o = groups * o
      BY <1>1, <1>3, <1>4, <2>1
    <3>2. PerLine * p \in Nat /\ 0 \in 0 .. o - 1
      BY <1>1, <1>4, <2>1, Product
    <3> DEFINE pp == PerLine * p
    <3>3. pp \in Nat /\ pp * o = groups * o
      BY <3>1, <3>2
    <3> HIDE DEF pp
    <3>4. (pp * o + 0) \div o = pp /\ (groups * o + 0) \div o = groups
      BY <1>1, <1>4, <3>2, <3>3, Divided
    <3>5. pp = groups
      BY <3>3, <3>4, Zenon
    <3> QED  BY <3>5 DEF pp
  <2>4. groups % p = 0
    BY <1>4, <2>1, <2>2, <2>3, MultipleRemainder
  <2>5. p <= groups
    <3>1. (PerLine - 1) * p >= 0
      BY <1>4, <2>1
    <3>2. (PerLine - 1) * p = PerLine * p - p
      BY <1>4, <2>1
    <3> QED  BY <1>4, <2>1, <2>3, <3>1, <3>2
  <2>6. p <= room
    <3>1. SUFFICES ASSUME room < p PROVE FALSE
      BY <1>5, <2>1
    <3>2. room * o + o <= p * o
      BY <1>1, <1>5, <2>1, <3>1, ProductBelow
    <3> DEFINE ro == room * o
    <3>3. ro \in Nat /\ limit = ro + (limit % o) /\ ro + o <= payload
      BY <1>1, <1>5, <2>1, <3>2, Product
    <3> HIDE DEF ro
    <3> QED  BY <1>1, <1>2, <1>3, <1>5, <3>3
  <2>7. p \in divisors
    BY <1>9, <1>10, <2>1, <2>2, <2>4, <2>5, <2>6
  <2>8. p <= m
    BY <1>12, <2>7
  <2> HIDE DEF m
  <2>9. (m - p) * o >= 0
    BY <1>1, <1>13, <2>1, <2>8
  <2>10. (m - p) * o = o * m - p * o
    BY <1>1, <1>13, <2>1
  <2>11. o * m \in Nat /\ p * o \in Nat
    BY <1>1, <1>13, <2>1, Product
  <2> QED  BY <1>8, <2>1, <2>9, <2>10, <2>11
<1>15. chosen \in Nat /\ chosen > 0 /\ chosen % o = 0
  <2> HIDE DEF m
  <2>1. chosen \in Nat /\ chosen > 0 /\ chosen = m * o
    BY <1>1, <1>8, <1>13, Product
  <2> QED  BY <1>1, <1>13, <2>1, MultipleRemainder
<1>16. chosen <= limit
  <2> HIDE DEF m
  <2>1. (room - m) * o >= 0
    BY <1>1, <1>5, <1>9, <1>13, <1>10
  <2>2. (room - m) * o = room * o - o * m
    BY <1>1, <1>5, <1>13
  <2> DEFINE ro == room * o
             mo == o * m
  <2>3. ro \in Nat /\ mo \in Nat /\ limit = ro + (limit % o) /\ ro - mo >= 0 /\ chosen = mo
    BY <1>1, <1>5, <1>8, <1>13, <2>1, <2>2, Product
  <2> HIDE DEF ro, mo
  <2> QED  BY <1>1, <1>2, <1>5, <2>3
<1>17. LineBytes(video) % chosen = 0
  <2> HIDE DEF m
  <2> DEFINE j == groups \div m
  <2>1. j \in Nat /\ groups = j * m
    BY <1>4, <1>13, Dividing
  <2> HIDE DEF j
  <2>2. LineBytes(video) = j * (o * m)
    BY <1>1, <1>4, <1>13, <2>1
  <2>3. LineBytes(video) \in Int
    BY <1>1, <1>4, Product
  <2>4. LineBytes(video) = j * chosen
    BY <1>8, <2>2, Zenon
  <2> DEFINE bytes == LineBytes(video)
  <2>5. bytes \in Int /\ bytes = j * chosen /\ j \in Int /\ chosen \in Nat /\ chosen > 0
    BY <1>15, <2>1, <2>3, <2>4
  <2> HIDE DEF bytes
  <2>6. bytes % chosen = 0
    BY ONLY <2>5, MultipleRemainder
  <2> QED  BY <2>6 DEF bytes
<1>18. /\ video.width <= MaxRaster /\ video.height > 0 /\ RowsPerField(video) <= MaxRaster
  BY DEF LayoutHolds, Accepted
<1>19. chosen < Half
  BY <1>1, <1>2, <1>15, <1>16
<1> QED  BY <1>14, <1>15, <1>16, <1>17, <1>18, <1>19 DEF Accepted, Tiles, o, limit

(* The state's types, and that no payload a block can be laid out for is   *)
(* larger than choose_payload_size's, which a block can be laid out for    *)
(* too: of any sizes an SDP may declare (geometry.py choose_payload_size,  *)
(* transmit.py _validate).                                                 *)
THEOREM HeadersTypeCorrect ==
    ASSUME SizesAreDeclared
    PROVE  SliceSpec => []TypeOK
<1>1. ASSUME WInv, HeadersFit PROVE TypeOK
  <2>1. LayoutHolds /\ sent \in 0 .. Count
    BY <1>1 DEF WInv, IInv, Rows
  <2>2. LET chosen == ChoosePayloadSize(video, MaxPayloadSize(video))
        IN  Accepted(video, chosen) /\ payload <= chosen
    BY <2>1, ChosenIsLargest
  <2> QED  BY <1>1, <2>1, <2>2 DEF TypeOK
<1> QED  BY <1>1, WireInvariant, HeadersFitHolds, PTL

-----------------------------------------------------------------------------
(* The receiver.  What the network has of the wire: what is under way, what *)
(* came, and what is gone; and what each of its mishaps accounts for.      *)
Newest == arrived[Len(arrived)]

Overtook(j) == {x \in Range(arrived) : x > j}

Gone == (1 .. Len(wire)) \ (flight \cup Range(arrived))

Under(j) == {x \in flight : x < j}

(* A packet is gone only by a loss, and overtaken only by as many packets  *)
(* as the network let by; of those under way some is the newest or newer.  *)
Network ==
    /\ arrived \in Seq(Nat) /\ Range(arrived) \subseteq 1 .. Len(wire)
    /\ flight \subseteq 1 .. Len(wire) /\ Cardinality(flight) <= MaxFlight
    /\ mishaps \in 0 .. MaxMishaps
    /\ Cardinality(Gone) <= mishaps
    /\ \A j \in flight : Cardinality(Gone) + Cardinality(Overtook(j)) <= mishaps
    /\ arrived # << >> => Cardinality(Under(Newest)) <= MaxFlight - 1

LEMMA ReceiverConstants ==
    /\ WideDropout \in Nat /\ Misorder \in Nat /\ MaxFlight \in Nat /\ MaxMishaps \in Nat
    /\ Modulus \in Nat /\ Modulus > 0 /\ 1 < WideDropout /\ WideDropout + Misorder <= Modulus
  BY SliceAssumption, ModulusFacts

LEMMA WireIsFinite ==
    ASSUME WInv
    PROVE  /\ Len(wire) \in Nat /\ DOMAIN wire = 1 .. Len(wire)
           /\ IsFiniteSet(1 .. Len(wire)) /\ 1 .. Len(wire) \subseteq Nat
<1>1. wire \in Seq(Header)
  BY DEF WInv, IInv, Rows
<1>2. Len(wire) \in Nat /\ DOMAIN wire = 1 .. Len(wire)
  BY <1>1, LenProperties
<1>3. IsFiniteSet(1 .. Len(wire))
  BY <1>2, FS_Interval
<1> QED  BY <1>2, <1>3

(* One more packet at the end of what came. *)
LEMMA Arriving ==
    ASSUME NEW s \in Seq(Nat), NEW x \in Nat, NEW t, t = Append(s, x)
    PROVE  /\ t \in Seq(Nat) /\ Len(s) \in Nat /\ Len(t) = Len(s) + 1 /\ t # << >>
           /\ t[Len(t)] = x /\ \A n \in 1 .. Len(s) : t[n] = s[n]
           /\ Range(t) = Range(s) \cup {x}
           /\ DOMAIN s = 1 .. Len(s) /\ DOMAIN t = 1 .. Len(s) + 1
           /\ s # << >> => t[1] = s[1] /\ Len(s) \in 1 .. Len(s) /\ 1 \in 1 .. Len(s)
<1>1. /\ t \in Seq(Nat) /\ Len(s) \in Nat /\ Len(t) = Len(s) + 1
      /\ \A n \in 1 .. Len(s) : t[n] = s[n]
      /\ t[Len(s) + 1] = x
  BY AppendProperties, LenProperties
<1>2. DOMAIN s = 1 .. Len(s) /\ DOMAIN t = 1 .. Len(s) + 1
  BY <1>1, LenProperties
<1>3. t # << >> /\ (s # << >> => Len(s) \in 1 .. Len(s) /\ 1 \in 1 .. Len(s))
  BY <1>1, EmptySeq
<1>4. Range(t) = Range(s) \cup {x}
  <2>1. \A y : y \in Range(t) <=> y \in Range(s) \/ y = x
    <3>1. ASSUME NEW y, y \in Range(t) PROVE y \in Range(s) \/ y = x
      <4>1. PICK n \in 1 .. Len(s) + 1 : t[n] = y
        BY <1>2, <3>1 DEF Range
      <4> QED  BY <1>1, <1>2, <4>1 DEF Range
    <3>2. ASSUME NEW y, y \in Range(s) PROVE y \in Range(t)
      <4>1. PICK n \in 1 .. Len(s) : s[n] = y
        BY <1>2, <3>2 DEF Range
      <4>2. n \in 1 .. Len(s) + 1
        BY <1>1
      <4> QED  BY <1>1, <1>2, <4>1, <4>2 DEF Range
    <3>3. x \in Range(t)
      <4>1. Len(s) + 1 \in 1 .. Len(s) + 1
        BY <1>1
      <4> QED  BY <1>1, <1>2, <4>1 DEF Range
    <3> QED  BY <3>1, <3>2, <3>3
  <2> QED  BY <2>1
<1> QED  BY <1>1, <1>2, <1>3, <1>4

LEMMA EmptyArrived ==
    ASSUME Network
    PROVE  /\ Len(arrived) \in Nat /\ DOMAIN arrived = 1 .. Len(arrived)
           /\ arrived = << >> <=> Len(arrived) = 0
           /\ \A n \in 1 .. Len(arrived) : arrived[n] \in Range(arrived)
           /\ arrived # << >> => Newest \in Range(arrived) /\ arrived[1] \in Range(arrived)
<1>1. Len(arrived) \in Nat /\ DOMAIN arrived = 1 .. Len(arrived) /\ (arrived = << >> <=> Len(arrived) = 0)
  BY LenProperties, EmptySeq DEF Network
<1>2. \A n \in 1 .. Len(arrived) : arrived[n] \in Range(arrived)
  BY <1>1 DEF Range
<1> QED  BY <1>1, <1>2 DEF Newest

(* The transmitter's steps, as the network sees them. *)
LEMMA WireGrows ==
    ASSUME WInv, [Next]_vars
    PROVE  /\ UNCHANGED layout
           /\ Len(wire') = Len(wire) \/ Len(wire') = Len(wire) + 1
           /\ stamped # << >> => stamped' # << >> /\ stamped'[1] = stamped[1]
<1>1. wire \in Seq(Header) /\ held \in Seq(Header) /\ stamped \in Seq(Nat) /\ block \in [Packets -> Header]
      /\ Packets = 0 .. Count - 1 /\ sent \in 0 .. Count /\ Count \in Nat
  BY CountFacts DEF WInv, IInv, Rows, Packets
<1>2. ASSUME NEW index, Stamp(index)
      PROVE  /\ UNCHANGED layout /\ wire' = wire
             /\ stamped # << >> => stamped' # << >> /\ stamped'[1] = stamped[1]
  <2>1. index \in Nat /\ stamped' = Append(stamped, index) /\ wire' = wire /\ UNCHANGED layout
    BY <1>2 DEF Stamp
  <2>2. stamped # << >> => stamped' # << >> /\ stamped'[1] = stamped[1]
    BY <1>1, <2>1, Arriving
  <2> QED  BY <2>1, <2>2
<1>3. ASSUME Emit
      PROVE  UNCHANGED layout /\ Len(wire') = Len(wire) + 1 /\ stamped' = stamped
  <2>1. UNCHANGED layout /\ stamped' = stamped
    BY <1>3 DEF Emit
  <2>2. \A header \in Header : wire' = Append(wire, header) => Len(wire') = Len(wire) + 1
    BY <1>1, AppendProperties
  <2>3. held # << >> => Head(held) \in Header
    BY <1>1, HeadTailProperties
  <2>4. sent < Count => block[sent] \in Header
    BY <1>1
  <2> QED  BY <1>3, <2>1, <2>2, <2>3, <2>4 DEF Emit
<1>4. Copy => UNCHANGED layout /\ wire' = wire /\ stamped' = stamped
  BY DEF Copy
<1>5. UNCHANGED vars => UNCHANGED layout /\ wire' = wire /\ stamped' = stamped
  BY DEF vars, layout
<1> QED  BY <1>2, <1>3, <1>4, <1>5 DEF Next


LEMMA OneMore ==
    ASSUME NEW S, NEW x, IsFiniteSet(S)
    PROVE  /\ IsFiniteSet(S \cup {x}) /\ Cardinality(S) \in Nat /\ Cardinality(S \cup {x}) \in Nat
           /\ Cardinality(S \cup {x}) <= Cardinality(S) + 1
<1>1. Cardinality(S) \in Nat
  BY FS_CardinalityType
<1>2. IsFiniteSet(S \cup {x})
      /\ Cardinality(S \cup {x}) = IF x \in S THEN Cardinality(S) ELSE Cardinality(S) + 1
  BY FS_AddElement
<1> QED  BY <1>1, <1>2

(* What the network has and has not is finite. *)
LEMMA NetworkIsFinite ==
    ASSUME WInv, Network
    PROVE  /\ IsFiniteSet(flight) /\ IsFiniteSet(Range(arrived)) /\ IsFiniteSet(Gone)
           /\ Cardinality(flight) \in Nat /\ Cardinality(Gone) \in Nat
           /\ \A j : /\ IsFiniteSet(Overtook(j)) /\ Cardinality(Overtook(j)) \in Nat
                     /\ IsFiniteSet(Under(j)) /\ Cardinality(Under(j)) \in Nat
<1>1. IsFiniteSet(1 .. Len(wire))
  BY WireIsFinite
<1>2. IsFiniteSet(flight) /\ IsFiniteSet(Range(arrived)) /\ IsFiniteSet(Gone)
  BY <1>1, FS_Subset DEF Network, Gone
<1>3. \A j : IsFiniteSet(Overtook(j)) /\ IsFiniteSet(Under(j))
  BY <1>2, FS_Subset DEF Overtook, Under
<1> QED  BY <1>2, <1>3, FS_CardinalityType

LEMMA NetworkTransmits ==
    ASSUME WInv, Network, Transmit
    PROVE  Network'
<1> DEFINE N == Len(wire)
<1>1. N \in Nat /\ (Len(wire') = N \/ Len(wire') = N + 1)
  BY WireIsFinite, WireGrows DEF Transmit
<1>2. /\ flight' = flight \cup (N + 1 .. Len(wire')) /\ Cardinality(flight) < MaxFlight
      /\ arrived' = arrived /\ mishaps' = mishaps
  BY DEF Transmit, receiver
<1>3. flight \subseteq 1 .. N /\ Range(arrived) \subseteq 1 .. N /\ arrived \in Seq(Nat)
  BY DEF Network
<1>4. Range(arrived)' = Range(arrived)
  BY <1>2
<1>5. CASE Len(wire') = N
  <2>1. flight' = flight
    BY <1>1, <1>2, <1>5
  <2>2. Gone' = Gone
    BY <1>2, <1>5, <2>1 DEF Gone
  <2>3. Newest' = Newest /\ \A j : Overtook(j)' = Overtook(j) /\ Under(j)' = Under(j)
    BY <1>2, <2>1 DEF Newest, Overtook, Under
  <2>4. Under(Newest)' = Under(Newest)
    BY <2>1, <2>3 DEF Under
  <2> QED  BY <1>2, <1>5, <2>1, <2>2, <2>3, <2>4 DEF Network
<1>6. CASE Len(wire') = N + 1
  <2>1. flight' = flight \cup {N + 1}
    BY <1>1, <1>2, <1>6
  <2>2. Gone' = Gone
    <3>1. Gone' = (1 .. N + 1) \ (flight' \cup Range(arrived))
      BY <1>2, <1>6 DEF Gone
    <3>2. \A x : x \in 1 .. N + 1 <=> x \in 1 .. N \/ x = N + 1
      BY <1>1
    <3>3. N + 1 \notin 1 .. N
      BY <1>1
    <3> HIDE DEF N
    <3>4. \A x : x \in Gone' <=> x \in (1 .. N) \ (flight \cup Range(arrived))
      BY <1>3, <2>1, <3>1, <3>2, <3>3
    <3>5. Gone = (1 .. N) \ (flight \cup Range(arrived))
      BY DEF Gone, N
    <3> QED  BY <3>4, <3>5
  <2>3. Newest' = Newest /\ \A j : Overtook(j)' = Overtook(j)
    BY <1>2 DEF Newest, Overtook
  <2>4. Overtook(N + 1) = {}
    BY <1>1, <1>3 DEF Overtook
  <2>5. Cardinality(Gone) + Cardinality(Overtook(N + 1)) <= mishaps
    <3>1. Cardinality(Overtook(N + 1)) = 0
      BY <2>4, FS_EmptySet
    <3>2. Cardinality(Gone) <= mishaps /\ Cardinality(Gone) \in Nat
      BY NetworkIsFinite DEF Network
    <3> QED  BY <3>1, <3>2
  <2>6. \A j \in flight' : (Cardinality(Gone) + Cardinality(Overtook(j)) <= mishaps)'
    BY <1>2, <2>1, <2>2, <2>3, <2>5 DEF Network
  <2>7. Cardinality(flight') <= MaxFlight
    <3>1. Cardinality(flight') <= Cardinality(flight) + 1
      BY <2>1, NetworkIsFinite, OneMore
    <3>2. Cardinality(flight) \in Nat /\ MaxFlight \in Nat
      BY NetworkIsFinite, ReceiverConstants
    <3>3. IsFiniteSet(flight') /\ Cardinality(flight') \in Nat
      BY <2>1, NetworkIsFinite, FS_AddElement, FS_CardinalityType
    <3> QED  BY <1>2, <3>1, <3>2, <3>3
  <2>8. arrived # << >> => Under(Newest)' = Under(Newest)
    <3> SUFFICES ASSUME arrived # << >> PROVE Under(Newest)' = Under(Newest)
      OBVIOUS
    <3>1. Newest \in 1 .. N
      BY <1>3, EmptyArrived
    <3>2. ~(N + 1 < Newest)
      BY <1>1, <3>1
    <3>3. Under(Newest)' = {x \in flight \cup {N + 1} : x < Newest}
      BY <2>1, <2>3 DEF Under
    <3> QED  BY <3>2, <3>3 DEF Under
  <2>9. flight' \subseteq 1 .. Len(wire') /\ Range(arrived)' \subseteq 1 .. Len(wire')
    <3>1. flight' \subseteq 1 .. N + 1 /\ Range(arrived) \subseteq 1 .. N + 1
      <4>1. N + 1 \in 1 .. N + 1 /\ \A x \in 1 .. N : x \in 1 .. N + 1
        BY <1>1
      <4> HIDE DEF N
      <4> QED  BY <1>3, <2>1, <4>1
    <3> QED  BY <1>4, <1>6, <3>1
  <2> QED  BY <1>2, <1>3, <2>2, <2>6, <2>7, <2>8, <2>9 DEF Network
<1> QED  BY <1>1, <1>5, <1>6

LEMMA NetworkLoses ==
    ASSUME WInv, Network, NEW i \in flight, Lose(i)
    PROVE  Network'
<1>1. /\ wire' = wire /\ arrived' = arrived /\ flight' = flight \ {i}
      /\ mishaps' = mishaps + 1 /\ mishaps < MaxMishaps
  BY DEF Lose, vars, receiver
<1>2. /\ IsFiniteSet(flight) /\ IsFiniteSet(Gone) /\ Cardinality(flight) \in Nat
      /\ Cardinality(Gone) \in Nat
  BY NetworkIsFinite
<1>3. Newest' = Newest /\ Range(arrived)' = Range(arrived) /\ \A j : Overtook(j)' = Overtook(j)
  BY <1>1 DEF Newest, Overtook
<1>4. Gone' \subseteq Gone \cup {i}
  BY <1>1, <1>3 DEF Gone
<1>5. Cardinality(Gone') \in Nat /\ Cardinality(Gone') <= Cardinality(Gone) + 1
  <2>1. IsFiniteSet(Gone \cup {i}) /\ Cardinality(Gone \cup {i}) <= Cardinality(Gone) + 1
        /\ Cardinality(Gone \cup {i}) \in Nat
    BY <1>2, OneMore
  <2>2. IsFiniteSet(Gone') /\ Cardinality(Gone') <= Cardinality(Gone \cup {i})
    BY <1>4, <2>1, FS_Subset
  <2> QED  BY <1>2, <2>1, <2>2, FS_CardinalityType
<1>6. Cardinality(flight') <= MaxFlight
  <2>1. Cardinality(flight') <= Cardinality(flight) /\ IsFiniteSet(flight')
    BY <1>1, <1>2, FS_Subset
  <2>2. Cardinality(flight') \in Nat /\ MaxFlight \in Nat /\ Cardinality(flight) <= MaxFlight
    BY <2>1, FS_CardinalityType, ReceiverConstants DEF Network
  <2> QED  BY <1>2, <2>1, <2>2
<1>7. mishaps \in Nat /\ mishaps' \in 0 .. MaxMishaps /\ Cardinality(Gone) <= mishaps
  BY <1>1, ReceiverConstants DEF Network
<1>8. ASSUME NEW j \in flight'
      PROVE  Cardinality(Gone') + Cardinality(Overtook(j)') <= mishaps'
  <2>1. Cardinality(Gone) + Cardinality(Overtook(j)) <= mishaps /\ Cardinality(Overtook(j)) \in Nat
    BY <1>1, NetworkIsFinite DEF Network
  <2>2. Cardinality(Overtook(j)') = Cardinality(Overtook(j))
    BY <1>3
  <2> QED  BY <1>1, <1>2, <1>5, <1>7, <2>1, <2>2
<1>9. arrived # << >> => Cardinality(Under(Newest)') <= MaxFlight - 1
  <2> SUFFICES ASSUME arrived # << >> PROVE Cardinality(Under(Newest)') <= MaxFlight - 1
    OBVIOUS
  <2>1. Under(Newest)' \subseteq Under(Newest)
    BY <1>1, <1>3 DEF Under
  <2>2. IsFiniteSet(Under(Newest)) /\ Cardinality(Under(Newest)) \in Nat
    BY NetworkIsFinite
  <2>3. Cardinality(Under(Newest)') <= Cardinality(Under(Newest)) /\ Cardinality(Under(Newest)') \in Nat
    BY <2>1, <2>2, FS_Subset, FS_CardinalityType
  <2>4. Cardinality(Under(Newest)) <= MaxFlight - 1 /\ MaxFlight \in Nat
    BY ReceiverConstants DEF Network
  <2> QED  BY <2>2, <2>3, <2>4
<1>10. Cardinality(Gone') <= mishaps'
  BY <1>1, <1>2, <1>5, <1>7
<1> QED  BY <1>1, <1>3, <1>6, <1>7, <1>8, <1>9, <1>10 DEF Network

(* The receiver's steps: what came has one more at its end. *)
LEMMA Delivered ==
    ASSUME WInv, Network, NEW i \in flight, NEW kept \in BOOLEAN, Arrive(i, kept)
    PROVE  /\ UNCHANGED vars /\ i \in 1 .. Len(wire) /\ i \in Nat /\ i \in DOMAIN wire
           /\ arrived' \in Seq(Nat) /\ Len(arrived) \in Nat /\ Len(arrived') = Len(arrived) + 1
           /\ Newest' = i /\ Range(arrived)' = Range(arrived) \cup {i}
           /\ \A n \in 1 .. Len(arrived) : arrived'[n] = arrived[n]
           /\ arrived'[Len(arrived) + 1] = i
           /\ arrived' # << >>
           /\ arrived # << >> => arrived'[1] = arrived[1]
<1>1. UNCHANGED vars /\ arrived' = Append(arrived, i)
  BY DEF Arrive
<1>2. i \in 1 .. Len(wire) /\ i \in Nat /\ i \in DOMAIN wire /\ arrived \in Seq(Nat)
  BY WireIsFinite DEF Network
<1>3. PICK s, t : s = arrived /\ t = arrived'
  OBVIOUS
<1>4. s \in Seq(Nat) /\ i \in Nat /\ t = Append(s, i)
  BY <1>1, <1>2, <1>3
<1>5. /\ t \in Seq(Nat) /\ Len(s) \in Nat /\ Len(t) = Len(s) + 1 /\ t[Len(t)] = i /\ t # << >>
      /\ \A n \in 1 .. Len(s) : t[n] = s[n]
      /\ s # << >> => t[1] = s[1]
  BY <1>4, Arriving
<1>6. Range(t) = Range(s) \cup {i}
  BY <1>4, Arriving
<1>7. Newest' = t[Len(t)]
  BY <1>3 DEF Newest
<1>8. Range(arrived)' = Range(t) /\ Range(arrived) = Range(s)
  BY <1>3 DEF Range
<1> QED  BY <1>1, <1>2, <1>3, <1>5, <1>6, <1>7, <1>8

LEMMA NetworkDelivers ==
    ASSUME WInv, Network, NEW i \in flight, NEW kept \in BOOLEAN, Arrive(i, kept)
    PROVE  Network'
<1>1. /\ wire' = wire
      /\ flight' = IF kept THEN flight ELSE flight \ {i}
      /\ mishaps' = mishaps + (One(kept) + One(\E j \in flight : j < i))
      /\ mishaps' <= MaxMishaps
  BY DEF Arrive, vars
<1>2. /\ IsFiniteSet(flight) /\ IsFiniteSet(Gone) /\ Cardinality(flight) \in Nat
      /\ Cardinality(Gone) \in Nat
  BY NetworkIsFinite
<1>3. i \in 1 .. Len(wire) /\ i \in Nat
  BY Delivered
<1>4. /\ arrived' \in Seq(Nat) /\ Newest' = i /\ Range(arrived)' = Range(arrived) \cup {i}
  BY Delivered
<1>5. Gone' = Gone
  BY <1>1, <1>4 DEF Gone
<1>6. /\ mishaps \in Nat /\ mishaps' \in 0 .. MaxMishaps /\ mishaps <= mishaps'
      /\ \A j \in flight : j < i => mishaps + 1 <= mishaps'
  <2>1. mishaps \in Nat /\ MaxMishaps \in Nat
    BY ReceiverConstants DEF Network
  <2>2. One(kept) \in 0 .. 1 /\ One(\E j \in flight : j < i) \in 0 .. 1
    BY DEF One
  <2>3. \A j \in flight : j < i => One(\E x \in flight : x < i) = 1
    BY DEF One
  <2> DEFINE copied == One(kept)
             late == One(\E j \in flight : j < i)
  <2>4. /\ mishaps' = mishaps + (copied + late) /\ copied \in 0 .. 1 /\ late \in 0 .. 1
        /\ mishaps' <= MaxMishaps /\ \A j \in flight : j < i => late = 1
    BY <1>1, <2>2, <2>3
  <2> HIDE DEF copied, late
  <2>5. mishaps' \in 0 .. MaxMishaps /\ mishaps <= mishaps' /\ (late = 1 => mishaps + 1 <= mishaps')
    BY ONLY <2>1, <2>4
  <2> QED  BY <2>1, <2>4, <2>5
<1>7. IsFiniteSet(flight') /\ flight' \subseteq flight
  BY <1>1, <1>2, FS_Subset
<1>8. Cardinality(flight') <= MaxFlight
  <2>1. Cardinality(flight') <= Cardinality(flight) /\ Cardinality(flight') \in Nat
    BY <1>2, <1>7, FS_Subset, FS_CardinalityType
  <2> QED  BY <1>2, <2>1, ReceiverConstants DEF Network
<1>9. ASSUME NEW j \in flight'
      PROVE  Cardinality(Gone') + Cardinality(Overtook(j)') <= mishaps'
  <2>1. j \in flight
    BY <1>7
  <2>2. /\ Cardinality(Gone) + Cardinality(Overtook(j)) <= mishaps
        /\ Cardinality(Overtook(j)) \in Nat /\ IsFiniteSet(Overtook(j))
    BY <2>1, NetworkIsFinite DEF Network
  <2>3. CASE j < i
    <3>1. Overtook(j)' \subseteq Overtook(j) \cup {i}
      BY <1>4 DEF Overtook
    <3>2. /\ IsFiniteSet(Overtook(j) \cup {i})
          /\ Cardinality(Overtook(j) \cup {i}) <= Cardinality(Overtook(j)) + 1
          /\ Cardinality(Overtook(j) \cup {i}) \in Nat
      BY <2>2, OneMore
    <3>3. /\ Cardinality(Overtook(j)') <= Cardinality(Overtook(j) \cup {i})
          /\ Cardinality(Overtook(j)') \in Nat
      BY <3>1, <3>2, FS_Subset, FS_CardinalityType
    <3>4. mishaps + 1 <= mishaps'
      BY <1>6, <2>1, <2>3
    <3>5. Cardinality(Gone') = Cardinality(Gone)
      BY <1>5
    <3> QED  BY <1>2, <1>6, <2>2, <3>2, <3>3, <3>4, <3>5
  <2>4. CASE ~(j < i)
    <3>1. ~(i > j)
      BY <1>3, <2>1, <2>4 DEF Network
    <3>2. Overtook(j)' = Overtook(j)
      BY <1>4, <3>1 DEF Overtook
    <3>3. Cardinality(Gone') = Cardinality(Gone) /\ Cardinality(Overtook(j)') = Cardinality(Overtook(j))
      BY <1>5, <3>2
    <3> QED  BY <1>2, <1>6, <2>2, <3>3
  <2> QED  BY <2>3, <2>4
<1>10. Cardinality(Under(Newest)') <= MaxFlight - 1
  <2>1. Under(Newest)' \subseteq flight \ {i}
    <3>1. Under(Newest)' = {x \in flight' : x < i}
      BY <1>4 DEF Under
    <3>2. ~(i < i)
      BY <1>3
    <3> QED  BY <1>7, <3>1, <3>2
  <2>2. IsFiniteSet(flight \ {i}) /\ Cardinality(flight \ {i}) = Cardinality(flight) - 1
    BY <1>2, FS_RemoveElement
  <2>3. /\ Cardinality(Under(Newest)') <= Cardinality(flight \ {i})
        /\ Cardinality(Under(Newest)') \in Nat
    BY <2>1, <2>2, FS_Subset, FS_CardinalityType
  <2>4. Cardinality(flight) <= MaxFlight /\ MaxFlight \in Nat
    BY ReceiverConstants DEF Network
  <2> QED  BY <1>2, <2>2, <2>3, <2>4
<1>11. Cardinality(Gone') <= mishaps'
  <2>1. Cardinality(Gone) <= mishaps /\ Cardinality(Gone') = Cardinality(Gone)
    BY <1>5 DEF Network
  <2> QED  BY <1>2, <1>6, <2>1
<1>12. flight' \subseteq 1 .. Len(wire') /\ Range(arrived)' \subseteq 1 .. Len(wire')
  BY <1>1, <1>3, <1>4, <1>7 DEF Network
<1> QED  BY <1>4, <1>6, <1>8, <1>9, <1>10, <1>11, <1>12 DEF Network

-----------------------------------------------------------------------------
(* One more packet in the account.  What moves in it, by how far, modulo   *)
(* the space, the packet is from the one before.                           *)
Reaches(number, before, step, m) ==
    /\ step \in 0 .. m - 1
    /\ \E q \in Int : before + step = number + q * m
    /\ \E q \in Int : before + (step - m) = number + q * m

LEMMA StepReaches ==
    ASSUME NEW m \in Nat, m > 0, NEW number \in Int, NEW before \in Int,
           NEW step, step = (number - before) % m
    PROVE  Reaches(number, before, step, m)
<1> DEFINE gap == number - before
           d == gap \div m
           dm == d * m
<1>1. gap \in Int /\ step = gap % m
  OBVIOUS
<1>2. d \in Int /\ step \in 0 .. m - 1 /\ gap = dm + step
  <2> HIDE DEF gap
  <2> QED  BY <1>1, Division
<1>3. /\ dm \in Int /\ -d \in Int /\ -d - 1 \in Int
      /\ (-d) * m = -dm /\ (-d - 1) * m = -dm - m
  <2> HIDE DEF gap, d
  <2>1. d \in Int
    BY <1>2
  <2> QED  BY <2>1, SMT DEF dm
<1> HIDE DEF d, dm
<1>4. before + step = number + (-d) * m /\ before + (step - m) = number + (-d - 1) * m
  BY <1>2, <1>3
<1> QED  BY <1>2, <1>3, <1>4 DEF Reaches

(* What a SequenceTracker counts. *)
Accounts ==
    [received : Nat, duplicated : Nat, reordered : Nat, discontinuities : Nat, resyncs : Nat,
     closed : Int, lowest : Int, highest : Int, extended : Int, wide : BOOLEAN]

LEMMA ResyncedIs ==
    ASSUME NEW a \in Accounts, NEW number \in Int, NEW b, b = Resynced(a, number)
    PROVE  b = [received |-> a.received + 1, duplicated |-> a.duplicated,
                reordered |-> a.reordered, discontinuities |-> a.discontinuities + 1,
                resyncs |-> a.resyncs + 1, closed |-> a.closed + a.highest - a.lowest + 1,
                lowest |-> number, highest |-> number, extended |-> number, wide |-> a.wide]
  BY DEF Resynced, Accounts

LEMMA OpenedIs ==
    ASSUME NEW number \in Int, NEW wide \in BOOLEAN, NEW b, b = Opened(wide, number)
    PROVE  b = [received |-> 1, duplicated |-> 0, reordered |-> 0, discontinuities |-> 0,
                resyncs |-> 0, closed |-> 0, lowest |-> number, highest |-> number,
                extended |-> number, wide |-> wide]
  BY DEF Opened, Fresh

LEMMA LandedIs ==
    ASSUME NEW a, NEW step, NEW here, NEW low, NEW high, NEW b, b = Landed(a, step, here, low, high)
    PROVE  /\ b.received = a.received + 1 /\ b.closed = a.closed /\ b.resyncs = a.resyncs
           /\ b.duplicated = a.duplicated + One(IsDuplicate(step))
           /\ b.reordered = a.reordered + One(IsReordered(a.wide, step))
           /\ b.discontinuities = a.discontinuities + One(step # 1)
           /\ b.lowest = low /\ b.highest = high /\ b.extended = here /\ b.wide = a.wide
           /\ b = [received |-> b.received, duplicated |-> b.duplicated, reordered |-> b.reordered,
                   discontinuities |-> b.discontinuities, resyncs |-> b.resyncs, closed |-> b.closed,
                   lowest |-> b.lowest, highest |-> b.highest, extended |-> b.extended,
                   wide |-> b.wide]
  BY DEF Landed

(* What the receiver is told of a packet it admits when the account has    *)
(* no other reason to move: each count says something of the step.         *)
Counting(a) == a \in Accounts /\ a.received > 0 /\ a.wide = TRUE

Alike(x, y) == \E q \in Int : x = y + q * Modulus

Moves(a, b, step) ==
    /\ a.reordered \in Nat /\ a.duplicated \in Nat /\ a.discontinuities \in Nat
    /\ a.reordered <= b.reordered /\ a.duplicated <= b.duplicated
    /\ a.discontinuities <= b.discontinuities
    /\ step # 1 => b.discontinuities > a.discontinuities
    /\ step = 0 => b.duplicated > a.duplicated
    /\ step >= Modulus - Misorder => b.reordered > a.reordered
    /\ 0 < step /\ step < WideDropout =>
           /\ b.closed = a.closed /\ b.extended = a.extended + step
           /\ b.lowest = Lesser(a.lowest, a.extended + step)
           /\ b.highest = Greater(a.highest, a.extended + step)

LEMMA AdmitsOne ==
    ASSUME NEW a, Counting(a), NEW number \in Int, NEW wide \in BOOLEAN, wide = TRUE,
           NEW step, step = (number - a.extended) % Modulus,
           NEW b, b = Admit(a, wide, number)
    PROVE  /\ Counting(b) /\ b.received = a.received + 1
           /\ Alike(b.extended, number) /\ Moves(a, b, step)
<1> DEFINE late == step >= Modulus - Misorder
           signed == IF late THEN step - Modulus ELSE step
           here == a.extended + signed
           low == Lesser(a.lowest, here)
           high == Greater(a.highest, here)
<1>1. /\ Modulus \in Nat /\ Modulus > 0 /\ Misorder \in Nat /\ WideDropout \in Nat
      /\ 1 < WideDropout /\ WideDropout + Misorder <= Modulus
  BY ReceiverConstants
<1>2. /\ a.received \in Nat /\ a.received > 0 /\ a.wide = wide
      /\ a.extended \in Int /\ a.lowest \in Int /\ a.highest \in Int /\ a.closed \in Int
      /\ a.reordered \in Nat /\ a.duplicated \in Nat /\ a.discontinuities \in Nat
      /\ a.resyncs \in Nat
  BY DEF Counting, Accounts
<1>a. PICK before \in Int : before = a.extended
  BY <1>2
<1>b. step = (number - before) % Modulus
  BY <1>a
<1>c. /\ step \in 0 .. Modulus - 1
      /\ \E q \in Int : before + step = number + q * Modulus
      /\ \E q \in Int : before + (step - Modulus) = number + q * Modulus
  <2>1. Modulus \in Nat /\ Modulus > 0
    BY <1>1
  <2>2. Reaches(number, before, step, Modulus)
    BY <1>b, <2>1, StepReaches
  <2> QED  BY <2>2 DEF Reaches
<1>3. step \in 0 .. Modulus - 1
  BY <1>c
<1>4. step = Step(wide, number, a.extended)
  BY DEF Step, Space
<1>5. Signed(wide, step) = signed /\ (IsReordered(wide, step) <=> late)
  BY DEF Signed, IsReordered, Space
<1>6. IsJump(wide, step) <=> signed >= WideDropout
  BY <1>5 DEF IsJump, Dropout
<1>7. b = IF signed >= WideDropout THEN Resynced(a, number) ELSE Landed(a, step, here, low, high)
  <2>1. Admit(a, wide, number) = IF IsJump(wide, step) THEN Resynced(a, number) ELSE Widened(a, step)
    <3>1. a.received # 0 /\ a.wide = wide
      BY <1>2
    <3> QED  BY ONLY <1>4, <3>1 DEF Admit
  <2>2. Widened(a, step) = Landed(a, step, here, low, high)
    BY <1>2, <1>5 DEF Widened
  <2> QED  BY <1>6, <2>1, <2>2
<1>8. signed \in Int /\ here \in Int
  BY <1>1, <1>2, <1>3
<1>9. /\ signed >= WideDropout => step >= WideDropout /\ ~late /\ step # 0
      /\ step < WideDropout => signed = step /\ ~late
  <2> HIDE DEF here, low, high
  <2> QED  BY ONLY <1>1, <1>3
<1>10. \E q \in Int : here = number + q * Modulus
  <2>1. here = before + step \/ here = before + (step - Modulus)
    BY <1>a
  <2> HIDE DEF here
  <2> QED  BY <1>c, <2>1
<1>11. low \in Int /\ high \in Int
  <2> HIDE DEF here
  <2> QED  BY <1>2, <1>8 DEF Lesser, Greater
<1> HIDE DEF late, signed, here
<1>12. CASE signed >= WideDropout
  <2>1. b = Resynced(a, number)
    BY <1>7, <1>12
  <2>2. b = [received |-> a.received + 1, duplicated |-> a.duplicated, reordered |-> a.reordered,
             discontinuities |-> a.discontinuities + 1, resyncs |-> a.resyncs + 1,
             closed |-> a.closed + a.highest - a.lowest + 1,
             lowest |-> number, highest |-> number, extended |-> number, wide |-> a.wide]
    BY <2>1, ResyncedIs DEF Counting
  <2>3. /\ b.received = a.received + 1 /\ b.reordered = a.reordered /\ b.wide = wide
        /\ b.duplicated = a.duplicated /\ b.discontinuities = a.discontinuities + 1
        /\ b.extended = number
    BY <1>2, <2>2
  <2>4. b \in Accounts
    BY <1>2, <2>2 DEF Accounts
  <2>5. number = number + 0 * Modulus /\ 0 \in Int
    BY <1>1
  <2>6. \E q \in Int : b.extended = number + q * Modulus
    BY <2>3, <2>5
  <2>7. ~(step < WideDropout) /\ step # 0 /\ ~(step >= Modulus - Misorder)
    BY <1>1, <1>3, <1>9, <1>12 DEF late
  <2>8. Counting(b) /\ b.received = a.received + 1
    <3>1. b.received > 0
      BY <1>2, <2>3
    <3> QED  BY <1>2, <2>3, <2>4, <3>1 DEF Counting
  <2>9. /\ a.reordered <= b.reordered /\ a.duplicated <= b.duplicated
        /\ a.discontinuities <= b.discontinuities /\ b.discontinuities > a.discontinuities
    BY <1>2, <2>3
  <2> QED  BY <1>2, <2>6, <2>7, <2>8, <2>9 DEF Alike, Moves
<1>13. CASE ~(signed >= WideDropout)
  <2>1. b = Landed(a, step, here, low, high)
    BY <1>7, <1>13
  <2> HIDE DEF low, high
  <2>2. /\ b.received = a.received + 1 /\ b.closed = a.closed /\ b.resyncs = a.resyncs
        /\ b.duplicated = a.duplicated + One(IsDuplicate(step))
        /\ b.reordered = a.reordered + One(IsReordered(a.wide, step))
        /\ b.discontinuities = a.discontinuities + One(step # 1)
        /\ b.lowest = low /\ b.highest = high /\ b.extended = here /\ b.wide = a.wide
        /\ b = [received |-> b.received, duplicated |-> b.duplicated, reordered |-> b.reordered,
                discontinuities |-> b.discontinuities, resyncs |-> b.resyncs, closed |-> b.closed,
                lowest |-> b.lowest, highest |-> b.highest, extended |-> b.extended,
                wide |-> b.wide]
    BY <2>1, LandedIs
  <2>3. /\ One(IsDuplicate(step)) = IF step = 0 THEN 1 ELSE 0
        /\ One(IsReordered(a.wide, step)) = IF late THEN 1 ELSE 0
        /\ One(step # 1) = IF step # 1 THEN 1 ELSE 0
    <3>1. One(IsDuplicate(step)) = IF step = 0 THEN 1 ELSE 0
      BY DEF One, IsDuplicate
    <3>2. IsReordered(a.wide, step) <=> late
      BY <1>2, <1>5
    <3>3. One(IsReordered(a.wide, step)) = IF late THEN 1 ELSE 0
      BY <3>2 DEF One
    <3>4. One(step # 1) = IF step # 1 THEN 1 ELSE 0
      BY DEF One
    <3> QED  BY <3>1, <3>3, <3>4
  <2> DEFINE dup == IF step = 0 THEN 1 ELSE 0
             reo == IF late THEN 1 ELSE 0
             dis == IF step # 1 THEN 1 ELSE 0
  <2>a. /\ b.received = a.received + 1 /\ b.duplicated = a.duplicated + dup
        /\ b.reordered = a.reordered + reo /\ b.discontinuities = a.discontinuities + dis
    BY ONLY <2>2, <2>3
  <2>b. /\ dup \in Nat /\ reo \in Nat /\ dis \in Nat
        /\ (step = 0 => dup = 1) /\ (late => reo = 1) /\ (step # 1 => dis = 1)
    OBVIOUS
  <2> HIDE DEF dup, reo, dis
  <2>4. /\ b.received \in Nat /\ b.received > 0 /\ b.duplicated \in Nat /\ b.reordered \in Nat
        /\ b.discontinuities \in Nat
    BY ONLY <1>2, <2>a, <2>b
  <2>5. b \in Accounts
    BY <1>2, <1>8, <1>11, <2>2, <2>4 DEF Accounts
  <2>6. Counting(b) /\ b.received = a.received + 1
    BY <1>2, <2>2, <2>4, <2>5 DEF Counting
  <2>7. /\ a.reordered <= b.reordered /\ a.duplicated <= b.duplicated
        /\ a.discontinuities <= b.discontinuities
        /\ step # 1 => b.discontinuities > a.discontinuities
        /\ step = 0 => b.duplicated > a.duplicated
        /\ late => b.reordered > a.reordered
    BY ONLY <1>2, <2>a, <2>b
  <2>8. \E q \in Int : b.extended = number + q * Modulus
    BY <1>10, <2>2
  <2>9. step < WideDropout => here = a.extended + step
    BY <1>9 DEF here
  <2>10. step < WideDropout => /\ b.closed = a.closed /\ b.extended = a.extended + step
                               /\ b.lowest = Lesser(a.lowest, a.extended + step)
                               /\ b.highest = Greater(a.highest, a.extended + step)
    BY <2>2, <2>9 DEF low, high
  <2> QED  BY <1>2, <2>6, <2>7, <2>8, <2>10 DEF Alike, late, Moves
<1> QED  BY <1>12, <1>13

LEMMA OpensOne ==
    ASSUME NEW number \in Int, NEW wide \in BOOLEAN, wide = TRUE,
           NEW b, b = Admit(Fresh, wide, number)
    PROVE  /\ Counting(b) /\ b.received = 1 /\ b.extended = number
           /\ b.reordered = 0 /\ b.duplicated = 0 /\ b.discontinuities = 0
           /\ b.closed = 0 /\ b.lowest = number /\ b.highest = number
<1>1. Fresh.received = 0
  BY DEF Fresh
<1>2. b = Opened(wide, number)
  BY <1>1 DEF Admit
<1>3. b = [received |-> 1, duplicated |-> 0, reordered |-> 0, discontinuities |-> 0,
           resyncs |-> 0, closed |-> 0, lowest |-> number, highest |-> number,
           extended |-> number, wide |-> wide]
  BY <1>2, OpenedIs
<1> QED  BY <1>3 DEF Counting, Accounts

-----------------------------------------------------------------------------
(* What the receiver reads of a packet.                                    *)
FrameOf(i) == (i - 1) \div Count

PacketOf(i) == (i - 1) % Count

LEMMA WireSays ==
    ASSUME WInv, NEW i \in 1 .. Len(wire)
    PROVE  /\ wire[i].marked = Marked(PacketOf(i)) /\ wire[i].second = InSecond(PacketOf(i))
           /\ Placed(wire[i]) = {FrameOffsetOctets(PacketOf(i))}
           /\ Joined(wire[i]) = (Base + (i - 1)) % Modulus /\ Base \in Nat
           /\ stamped # << >>
<1>1. i \in DOMAIN wire
  BY WireIsFinite
<1>2. /\ wire[i] = TheRow(PacketOf(i), stamped[1] + FrameOf(i))
      /\ stamped # << >> /\ stamped[1] \in Nat
  BY <1>1, OnTheWire DEF PacketOf, FrameOf
<1>3. wire[i].marked = Marked(PacketOf(i)) /\ wire[i].second = InSecond(PacketOf(i))
  BY <1>2, RowSays
<1>4. Placed(wire[i]) = {FrameOffsetOctets(PacketOf(i))}
  BY <1>1, PlacedWhereRead DEF Placed, PacketOf
<1>5. Joined(wire[i]) = (Base + (i - 1)) % Modulus
  BY <1>2 DEF WInv, IInv, QueueRunsOn
<1>6. Base \in Nat
  <2>1. initial \in Nat /\ Count \in Nat
    BY CountFacts DEF WInv, IInv, LayoutHolds
  <2>2. stamped[1] * Count \in Nat
    BY <1>2, <2>1, Product
  <2> QED  BY <2>1, <2>2 DEF Base
<1> QED  BY <1>2, <1>3, <1>4, <1>5, <1>6

(* A place in the flow is a frame and a packet of it. *)
LEMMA Places ==
    ASSUME WInv, NEW i \in Nat, i > 0
    PROVE  /\ FrameOf(i) \in Nat /\ PacketOf(i) \in Packets /\ PacketOf(i) \in 0 .. Count - 1
           /\ i - 1 = FrameOf(i) * Count + PacketOf(i)
           /\ Count \in Nat /\ Count > 0
<1>1. Count \in Nat /\ Count > 0
  BY CountFacts DEF WInv, IInv
<1>2. i - 1 \in Nat
  OBVIOUS
<1> QED  BY <1>1, <1>2, Dividing DEF FrameOf, PacketOf, Packets

LEMMA FramesInOrder ==
    ASSUME WInv, NEW i \in Nat, NEW j \in Nat, i > 0, i < j
    PROVE  /\ FrameOf(i) <= FrameOf(j)
           /\ FrameOf(i) = FrameOf(j) => PacketOf(i) < PacketOf(j)
           /\ PacketOf(i) = Count - 1 => FrameOf(i) < FrameOf(j)
<1> DEFINE f == FrameOf(i)
           g == FrameOf(j)
           k == PacketOf(i)
           l == PacketOf(j)
           fc == f * Count
           gc == g * Count
<1>1. /\ f \in Nat /\ k \in 0 .. Count - 1 /\ i - 1 = fc + k
      /\ g \in Nat /\ l \in 0 .. Count - 1 /\ j - 1 = gc + l
      /\ Count \in Nat /\ Count > 0
  BY Places
<1> HIDE DEF f, g, k, l
<1>2. fc \in Nat /\ gc \in Nat /\ (g < f => gc + Count <= fc) /\ (f = g => fc = gc)
  BY <1>1, ProductBelow, Product
<1> HIDE DEF fc, gc
<1>3. f <= g
  BY <1>1, <1>2
<1>4. f = g => k < l
  BY <1>1, <1>2
<1>5. k = Count - 1 => f < g
  BY <1>1, <1>3, <1>4
<1> QED  BY <1>3, <1>4, <1>5 DEF f, g, k, l

(* The packet after a frame's last is the next frame's first. *)
LEMMA NextInOrder ==
    ASSUME WInv, NEW i \in Nat, i > 0
    PROVE  /\ PacketOf(i) = Count - 1 => FrameOf(i + 1) = FrameOf(i) + 1 /\ PacketOf(i + 1) = 0
           /\ PacketOf(i) # Count - 1 => FrameOf(i + 1) = FrameOf(i)
<1> DEFINE f == FrameOf(i)
           k == PacketOf(i)
<1>1. /\ f \in Nat /\ k \in 0 .. Count - 1 /\ i - 1 = f * Count + k /\ f + 1 \in Nat
      /\ Count \in Nat /\ Count > 0
  BY Places
<1>2. FrameOf(i + 1) = ((i + 1) - 1) \div Count /\ PacketOf(i + 1) = ((i + 1) - 1) % Count
  BY DEF FrameOf, PacketOf
<1> HIDE DEF f, k
<1>3. CASE k = Count - 1
  <2>1. (i + 1) - 1 = (f + 1) * Count + 0
    BY <1>1, <1>3
  <2>2. 0 \in 0 .. Count - 1
    BY <1>1
  <2>3. ((f + 1) * Count + 0) % Count = 0 /\ ((f + 1) * Count + 0) \div Count = f + 1
    BY ONLY <1>1, <2>2, Divided
  <2> QED  BY <1>1, <1>2, <1>3, <2>1, <2>3 DEF f, k
<1>4. CASE k # Count - 1
  <2>1. (i + 1) - 1 = f * Count + (k + 1) /\ k + 1 \in 0 .. Count - 1
    BY <1>1, <1>4
  <2>2. (f * Count + (k + 1)) \div Count = f
    BY ONLY <1>1, <2>1, Divided
  <2> QED  BY <1>2, <1>4, <2>1, <2>2 DEF f, k
<1> QED  BY <1>3, <1>4

(* One packet to a chunk: it begins a frame when the one before it was     *)
(* marked, unless it is of a second field.                                 *)
LEMMA BeginsIs ==
    ASSUME NEW header, marked \in BOOLEAN
    PROVE  Begins(header) <=> marked /\ (video.interlaced => ~header.second)
<1> DEFINE edges == FrameBoundaries(<<header.marked>>, marked)
           starts == UnitStarts(<<header.marked>>, marked)
<1>1. DOMAIN <<header.marked>> = {1} /\ 1 \in {1} /\ <<header.second>>[1] = header.second
  OBVIOUS
<1>2. DOMAIN edges = {1}
  BY <1>1 DEF FrameBoundaries
<1>3. starts = [i \in {1} |-> IF i = 1 THEN marked ELSE edges[i - 1]]
  BY <1>2 DEF UnitStarts, After
<1> HIDE DEF edges
<1>4. starts[1] = marked
  BY <1>1, <1>3
<1>5. FrameStarts(<<header.marked>>, marked)[1] = marked
  BY <1>4 DEF FrameStarts
<1>6. FieldStarts(<<header.marked>>, <<header.second>>, marked)
        = [i \in {1} |-> starts[i] /\ ~<<header.second>>[i]]
  BY <1>1 DEF FieldStarts
<1> HIDE DEF starts
<1>7. FieldStarts(<<header.marked>>, <<header.second>>, marked)[1] = (marked /\ ~header.second)
  BY <1>1, <1>4, <1>6
<1> QED  BY <1>5, <1>7 DEF Begins

(* The layout, and what is made of it, stay as they are. *)
LEMMA LayoutKeeps ==
    ASSUME UNCHANGED layout
    PROVE  /\ Count' = Count /\ Packets' = Packets /\ Split' = Split
           /\ \A k : FrameOffsetOctets(k)' = FrameOffsetOctets(k) /\ Marked(k)' = Marked(k)
           /\ \A i : FrameOf(i)' = FrameOf(i) /\ PacketOf(i)' = PacketOf(i)
<1>1. video' = video /\ payload' = payload /\ initial' = initial
  BY DEF layout
<1>2. Count' = Count /\ Split' = Split /\ PerLine' = PerLine
  BY <1>1 DEF Count, Split, PerLine
<1>3. \A k : FrameOffsetOctets(k)' = FrameOffsetOctets(k) /\ Marked(k)' = Marked(k)
  BY <1>1, <1>2 DEF FrameOffsetOctets, Marked, InSecond, Line, OffsetPixels
<1>4. \A i : FrameOf(i)' = FrameOf(i) /\ PacketOf(i)' = PacketOf(i)
  BY <1>2 DEF FrameOf, PacketOf
<1> QED  BY <1>2, <1>3, <1>4 DEF Packets

(* A packet later in the flow that begins a frame is of a later frame: the *)
(* one before it ended a frame, or a first field.                          *)
LEMMA BeginsLater ==
    ASSUME WInv, NEW i \in Nat, NEW j \in Nat, i > 0, i < j, Marked(PacketOf(i)),
           video.interlaced => ~InSecond(PacketOf(j))
    PROVE  FrameOf(i) < FrameOf(j)
<1>1. LayoutHolds
  BY DEF WInv, IInv
<1>2. /\ FrameOf(i) <= FrameOf(j)
      /\ FrameOf(i) = FrameOf(j) => PacketOf(i) < PacketOf(j)
      /\ PacketOf(i) = Count - 1 => FrameOf(i) < FrameOf(j)
  BY FramesInOrder
<1>3. /\ FrameOf(i) \in Nat /\ PacketOf(i) \in 0 .. Count - 1
      /\ FrameOf(j) \in Nat /\ PacketOf(j) \in 0 .. Count - 1 /\ Count \in Nat
  BY Places
<1>4. CASE PacketOf(i) = Count - 1
  BY <1>2, <1>4
<1>5. CASE PacketOf(i) # Count - 1
  <2>1. PacketOf(i) = Split - 1
    BY <1>5 DEF Marked
  <2>2. video.interlaced
    BY <1>1, <1>5, <2>1, FieldFacts
  <2>3. ~(PacketOf(j) >= Split)
    BY <2>2 DEF InSecond
  <2>4. Split \in Nat
    BY <1>1, <1>3, <2>2, FieldFacts, LineFacts, Product
  <2> QED  BY <1>2, <1>3, <2>1, <2>3, <2>4
<1> QED  BY <1>4, <1>5

(* The first packet of a frame is of its first field. *)
LEMMA FirstIsFirst ==
    ASSUME LayoutHolds
    PROVE  ~InSecond(0)
<1>1. Split > 0 /\ Split \in Nat
  <2>1. Count \in Nat /\ Count > 0 /\ PerLine \in Nat /\ PerLine > 0
    BY CountFacts, LineFacts
  <2> DEFINE rows == RowsPerField(video)
             h == video.height
  <2>2. /\ rows \in Nat /\ h \in Nat /\ h > 0
        /\ video.interlaced \in BOOLEAN
        /\ video.interlaced => h <= 2 * rows /\ Split = rows * PerLine
        /\ ~video.interlaced => Split = Count
    BY FieldFacts
  <2> HIDE DEF rows, h
  <2>3. video.interlaced => rows > 0
    BY <2>2
  <2> QED  BY <2>1, <2>2, <2>3, Product
<1> QED  BY <1>1 DEF InSecond

-----------------------------------------------------------------------------
(* What the receiver makes of what came.                                   *)
Offsets == {FrameOffsetOctets(k) : k \in Packets}

(* The account has as many packets as came, its running number is the      *)
(* newest packet's but for whole spaces, and the marker kept is its marker. *)
Met ==
    /\ rasters \in Seq(SUBSET Offsets) /\ rasters # << >> /\ marked \in BOOLEAN
    /\ arrived = << >> => account = Fresh /\ rasters = <<{}>> /\ marked = FALSE
    /\ arrived # << >> =>
        /\ Counting(account) /\ account.received = Len(arrived)
        /\ \E q \in Int : account.extended = Base + (Newest - 1) + q * Modulus
        /\ marked = Marked(PacketOf(Newest))

(* The step the account takes is the distance on the wire. *)
LEMMA StepIsDistance ==
    ASSUME NEW m \in Nat, m > 0, NEW base \in Int, NEW i \in Int, NEW p \in Int,
           NEW q \in Int, NEW before \in Int, before = base + (p - 1) + q * m,
           NEW number, number = (base + (i - 1)) % m
    PROVE  number \in Int /\ (number - before) % m = (i - p) % m
<1> DEFINE here == base + (i - 1)
           d == here \div m
           dm == d * m
           qm == q * m
<1>1. here \in Int /\ number = here % m
  OBVIOUS
<1>2. d \in Int /\ number \in 0 .. m - 1 /\ here = dm + number
  <2> HIDE DEF here
  <2> QED  BY <1>1, Division
<1>3. dm \in Int /\ qm \in Int /\ -d - q \in Int /\ (-d - q) * m = -dm - qm
  <2> HIDE DEF here, d
  <2>1. d \in Int
    BY <1>2
  <2> QED  BY <2>1, SMT DEF dm, qm
<1> HIDE DEF d, dm, qm
<1>4. number - before = (i - p) + (-d - q) * m
  <2>1. before = base + (p - 1) + qm
    BY DEF qm
  <2> QED  BY <1>2, <1>3, <2>1
<1>5. i - p \in Int
  OBVIOUS
<1>6. ((i - p) + (-d - q) * m) % m = (i - p) % m
  BY <1>3, <1>5, RemainderShift
<1>7. number \in Int
  BY <1>2
<1> QED  BY <1>4, <1>6, <1>7

LEMMA NewestOnWire ==
    ASSUME WInv, Network, arrived # << >>
    PROVE  Newest \in 1 .. Len(wire) /\ Newest \in Nat /\ Newest > 0
<1>1. Newest \in 1 .. Len(wire) /\ Len(wire) \in Nat
  BY EmptyArrived, WireIsFinite DEF Network
<1> QED  BY <1>1

LEMMA Admitted ==
    ASSUME WInv, Network, Met, NEW i \in flight, NEW kept \in BOOLEAN, Arrive(i, kept),
           arrived # << >>
    PROVE  /\ Moves(account, account', (i - Newest) % Modulus)
           /\ Counting(account') /\ account'.received = account.received + 1
           /\ \E q \in Int : account'.extended = Base + (i - 1) + q * Modulus
<1>1. i \in 1 .. Len(wire) /\ i \in Nat
  BY Delivered
<1>2. PICK wide \in BOOLEAN : wide = TRUE
  OBVIOUS
<1>3. PICK number : number = Joined(wire[i])
  OBVIOUS
<1>4. account' = Admit(account, wide, number)
  BY <1>2, <1>3, Zenon DEF Arrive
<1>5. number = (Base + (i - 1)) % Modulus /\ Base \in Nat
  BY <1>1, <1>3, WireSays
<1>6. PICK q \in Int : account.extended = Base + (Newest - 1) + q * Modulus
  BY DEF Met
<1>7. Modulus \in Nat /\ Modulus > 0 /\ Base \in Int /\ i \in Int
  BY <1>1, <1>5, ModulusFacts
<1>8. Newest \in Int
  BY NewestOnWire
<1>9. PICK before \in Int : before = account.extended
  BY DEF Met, Counting, Accounts
<1>10. number \in Int /\ (number - before) % Modulus = (i - Newest) % Modulus
  <2>1. before = Base + (Newest - 1) + q * Modulus
    BY <1>6, <1>9
  <2> QED  BY <1>5, <1>7, <1>8, <2>1, StepIsDistance
<1>11. PICK step : step = (number - before) % Modulus
  OBVIOUS
<1>12. Counting(account)
  BY DEF Met
<1>13. /\ Counting(account') /\ account'.received = account.received + 1
       /\ \E r \in Int : account'.extended = number + r * Modulus
       /\ Moves(account, account', step)
  <2>1. PICK a, b : a = account /\ b = Admit(a, wide, number)
    OBVIOUS
  <2>2. step = (number - a.extended) % Modulus /\ Counting(a)
    BY <1>9, <1>11, <1>12, <2>1
  <2>3. /\ Counting(b) /\ b.received = a.received + 1
        /\ Alike(b.extended, number) /\ Moves(a, b, step)
    BY ONLY wide \in BOOLEAN, <1>2, <1>10, <2>1, <2>2, AdmitsOne
  <2>4. a = account /\ b = account'
    BY <1>4, <2>1
  <2> QED  BY <2>3, <2>4 DEF Alike
<1>14. \E r \in Int : account'.extended = Base + (i - 1) + r * Modulus
  <2>1. PICK r \in Int : account'.extended = number + r * Modulus
    BY <1>13
  <2> DEFINE here == Base + (i - 1)
             d == here \div Modulus
             dm == d * Modulus
             rm == r * Modulus
  <2>2. here \in Int
    BY <1>7
  <2>3. d \in Int /\ here = dm + number
    <3>1. number = here % Modulus
      BY <1>5
    <3> HIDE DEF here
    <3> QED  BY <1>7, <2>2, <3>1, Division
  <2>4. dm \in Int /\ rm \in Int /\ r - d \in Int /\ (r - d) * Modulus = rm - dm
    <3> HIDE DEF here, d
    <3>1. d \in Int
      BY <2>3
    <3> QED  BY <1>7, <3>1, SMT DEF dm, rm
  <2>5. account'.extended = number + rm
    BY <2>1
  <2> HIDE DEF here, d, dm, rm
  <2>6. account'.extended = here + (r - d) * Modulus
    BY <1>10, <2>2, <2>3, <2>4, <2>5
  <2> QED  BY <2>4, <2>6 DEF here
<1> QED  BY <1>10, <1>11, <1>13, <1>14

(* The first packet opens the account. *)
LEMMA Opening ==
    ASSUME WInv, Network, Met, NEW i \in flight, NEW kept \in BOOLEAN, Arrive(i, kept),
           arrived = << >>
    PROVE  /\ Counting(account') /\ account'.received = 1
           /\ \E q \in Int : account'.extended = Base + (i - 1) + q * Modulus
           /\ account'.reordered = 0 /\ account'.duplicated = 0 /\ account'.discontinuities = 0
           /\ account'.closed = 0 /\ account'.lowest = account'.extended
           /\ account'.highest = account'.extended
<1>1. i \in 1 .. Len(wire) /\ i \in Nat
  BY Delivered
<1>2. PICK wide \in BOOLEAN : wide = TRUE
  OBVIOUS
<1>3. PICK number : number = Joined(wire[i])
  OBVIOUS
<1>4. account' = Admit(account, wide, number)
  BY <1>2, <1>3, Zenon DEF Arrive
<1>5. account = Fresh
  BY DEF Met
<1>6. number = (Base + (i - 1)) % Modulus /\ Base \in Nat
  BY <1>1, <1>3, WireSays
<1> DEFINE here == Base + (i - 1)
           d == here \div Modulus
           dm == d * Modulus
<1>7. Modulus \in Nat /\ Modulus > 0 /\ here \in Int /\ number = here % Modulus
  BY <1>1, <1>6, ModulusFacts
<1>8. d \in Int /\ number \in Int /\ here = dm + number
  <2> HIDE DEF here
  <2> QED  BY <1>7, Division
<1>9. dm \in Int /\ -d \in Int /\ (-d) * Modulus = -dm
  <2> HIDE DEF here, d
  <2>1. d \in Int
    BY <1>8
  <2> QED  BY <1>7, <2>1, SMT DEF dm
<1>10. number = here + (-d) * Modulus
  <2> HIDE DEF here, d, dm
  <2> QED  BY <1>7, <1>8, <1>9
<1> HIDE DEF d, dm
<1>11. PICK b : b = Admit(Fresh, wide, number)
  OBVIOUS
<1>12. /\ Counting(b) /\ b.received = 1 /\ b.extended = number
       /\ b.reordered = 0 /\ b.duplicated = 0 /\ b.discontinuities = 0
       /\ b.closed = 0 /\ b.lowest = number /\ b.highest = number
  BY <1>2, <1>8, <1>11, OpensOne, ZenonT(60)
<1>13. account' = b
  BY <1>4, <1>5, <1>11
<1> QED  BY <1>9, <1>10, <1>12, <1>13 DEF here

LEMMA MetDelivers ==
    ASSUME WInv, Network, Met, NEW i \in flight, NEW kept \in BOOLEAN, Arrive(i, kept)
    PROVE  Met'
<1>1. /\ UNCHANGED vars /\ i \in 1 .. Len(wire) /\ Newest' = i /\ arrived' # << >>
      /\ Len(arrived) \in Nat /\ Len(arrived') = Len(arrived) + 1
  BY Delivered
<1>2. UNCHANGED layout /\ stamped' = stamped
  BY <1>1 DEF vars, layout
<1>3. /\ Count' = Count /\ Packets' = Packets
      /\ \A k : FrameOffsetOctets(k)' = FrameOffsetOctets(k) /\ Marked(k)' = Marked(k)
      /\ PacketOf(i)' = PacketOf(i) /\ Base' = Base
  BY <1>2, LayoutKeeps DEF Base, layout
<1>4. Offsets' = Offsets
  BY <1>3 DEF Offsets
<1>5. Counting(account') /\ account'.received = Len(arrived')
      /\ \E q \in Int : account'.extended = Base + (i - 1) + q * Modulus
  <2>1. arrived # << >> => account.received = Len(arrived)
    BY DEF Met
  <2>2. arrived = << >> => Len(arrived) = 0
    BY EmptyArrived
  <2>3. arrived = << >> => Len(arrived') = 1
    BY <1>1, <2>2
  <2>4. arrived # << >> => account.received + 1 = Len(arrived')
    BY <1>1, <2>1
  <2> QED  BY <2>3, <2>4, Admitted, Opening
<1>6. marked' = Marked(PacketOf(i)) /\ marked' \in BOOLEAN
  <2>1. marked' = wire[i].marked
    BY DEF Arrive, ObserveMarkers
  <2> QED  BY <1>1, <2>1, WireSays, MarksAreBoolean
<1>7. rasters' \in Seq(SUBSET Offsets) /\ rasters' # << >>
  <2>1. Placed(wire[i]) = {FrameOffsetOctets(PacketOf(i))}
    BY <1>1, WireSays
  <2>2. PacketOf(i) \in Packets
    BY <1>1, Places
  <2>3. Placed(wire[i]) \in SUBSET Offsets
    BY <2>1, <2>2 DEF Offsets
  <2>4. rasters' = IF Begins(wire[i]) THEN Append(rasters, Placed(wire[i]))
                   ELSE [rasters EXCEPT ![Len(rasters)] = @ \cup Placed(wire[i])]
    BY DEF Arrive
  <2>5. rasters \in Seq(SUBSET Offsets) /\ rasters # << >>
    BY DEF Met
  <2>6. PICK p : p = Placed(wire[i])
    OBVIOUS
  <2>7. p \in SUBSET Offsets
    BY <2>3, <2>6
  <2>8. Append(rasters, p) \in Seq(SUBSET Offsets) /\ Append(rasters, p) # << >>
    BY <2>5, <2>7, AppendProperties
  <2>9. [rasters EXCEPT ![Len(rasters)] = @ \cup p] \in Seq(SUBSET Offsets)
        /\ [rasters EXCEPT ![Len(rasters)] = @ \cup p] # << >>
    <3>1. Len(rasters) \in Nat /\ Len(rasters) > 0 /\ DOMAIN rasters = 1 .. Len(rasters)
      BY <2>5, EmptySeq, LenProperties
    <3>2. rasters[Len(rasters)] \cup p \in SUBSET Offsets
      BY <2>5, <2>7, <3>1, ElementOfSeq
    <3>3. PICK u : u = rasters[Len(rasters)] \cup p
      OBVIOUS
    <3>4. [rasters EXCEPT ![Len(rasters)] = u] \in Seq(SUBSET Offsets)
          /\ Len([rasters EXCEPT ![Len(rasters)] = u]) = Len(rasters)
      BY <2>5, <3>2, <3>3, ExceptSeq
    <3>5. [rasters EXCEPT ![Len(rasters)] = u] # << >>
      BY <3>1, <3>4, EmptySeq
    <3> QED  BY <3>3, <3>4, <3>5
  <2> QED  BY <2>4, <2>6, <2>8, <2>9
<1> QED  BY <1>1, <1>3, <1>4, <1>5, <1>6, <1>7 DEF Met

-----------------------------------------------------------------------------
(* The frames of a flow met at its first packet and never out of order:    *)
(* each packet is filed by the raster of its frame, while no frame was     *)
(* run into the one before it.                                             *)
Increasing == \A m, n \in 1 .. Len(arrived) : m < n => arrived[m] < arrived[n]

InRow == \A n \in 1 .. Len(arrived) : arrived[n] = n

Filed(n) == {FrameOffsetOctets(PacketOf(i)) : i \in {j \in Range(arrived) : FrameOf(j) + 1 = n}}

Framed ==
    arrived # << >> /\ arrived[1] = 1 /\ Increasing =>
        /\ Len(rasters) <= FrameOf(Newest) + 1
        /\ Len(rasters) = FrameOf(Newest) + 1 => \A n \in 1 .. Len(rasters) : rasters[n] = Filed(n)
        /\ InRow => Len(rasters) = FrameOf(Newest) + 1

LEMMA NewestIsLast ==
    ASSUME Network, Increasing, arrived # << >>
    PROVE  \A x \in Range(arrived) : x \in Nat /\ x <= Newest
<1>1. /\ Len(arrived) \in Nat /\ DOMAIN arrived = 1 .. Len(arrived) /\ Len(arrived) # 0
      /\ arrived \in Seq(Nat)
  BY EmptyArrived DEF Network
<1> SUFFICES ASSUME NEW n \in 1 .. Len(arrived)
             PROVE  arrived[n] \in Nat /\ arrived[n] <= Newest
  BY <1>1 DEF Range
<1>2. arrived[n] \in Nat /\ Len(arrived) \in 1 .. Len(arrived) /\ Newest \in Nat
  BY <1>1, ElementOfSeq DEF Newest
<1>3. CASE n = Len(arrived)
  BY <1>2, <1>3 DEF Newest
<1>4. CASE n # Len(arrived)
  <2>1. n < Len(arrived)
    <3>1. PICK len : len = Len(arrived)
      OBVIOUS
    <3>2. len \in Nat /\ n \in 1 .. len /\ n # len
      BY <1>1, <1>4, <3>1
    <3>3. n < len
      BY ONLY <3>2
    <3> QED  BY <3>1, <3>3
  <2>2. \A m, l \in 1 .. Len(arrived) : m < l => arrived[m] < arrived[l]
    BY DEF Increasing
  <2>3. arrived[n] < arrived[Len(arrived)]
    BY <1>2, <2>1, <2>2
  <2>4. arrived[n] < Newest
    BY <2>3 DEF Newest
  <2> QED  BY <1>2, <2>4
<1> QED  BY <1>3, <1>4

LEMMA RowIsIncreasing ==
    ASSUME Network, InRow, arrived # << >>
    PROVE  Increasing /\ Newest = Len(arrived) /\ Range(arrived) = 1 .. Len(arrived) /\ arrived[1] = 1
<1>1. Len(arrived) \in Nat /\ DOMAIN arrived = 1 .. Len(arrived) /\ Len(arrived) # 0
  BY EmptyArrived
<1>2. Len(arrived) \in 1 .. Len(arrived) /\ 1 \in 1 .. Len(arrived)
  BY <1>1
<1>3. Increasing /\ Newest = Len(arrived) /\ arrived[1] = 1
  BY <1>2 DEF InRow, Increasing, Newest
<1>4. Range(arrived) = 1 .. Len(arrived)
  BY <1>1 DEF Range, InRow
<1> QED  BY <1>3, <1>4

LEMMA OrderDelivers ==
    ASSUME WInv, Network, NEW i \in flight, NEW kept \in BOOLEAN, Arrive(i, kept)
    PROVE  /\ Increasing' <=> Increasing /\ (arrived # << >> => Newest < i)
           /\ InRow' <=> InRow /\ i = Len(arrived) + 1
<1>1. /\ arrived \in Seq(Nat) /\ i \in Nat /\ Len(arrived) \in Nat
      /\ Len(arrived') = Len(arrived) + 1
      /\ \A n \in 1 .. Len(arrived) : arrived'[n] = arrived[n]
      /\ arrived'[Len(arrived) + 1] = i
  BY Delivered DEF Network
<1>2. PICK len, new : len = Len(arrived) /\ new = len + 1
  OBVIOUS
<1>3. /\ len \in Nat /\ new = len + 1 /\ new \in 1 .. new
      /\ \A n : n \in 1 .. new <=> n \in 1 .. len \/ n = new
      /\ Len(arrived') = new /\ arrived'[new] = i
      /\ \A n \in 1 .. len : arrived'[n] = arrived[n] /\ arrived[n] \in Nat
  <2>1. len \in Nat /\ new = len + 1
    BY <1>1, <1>2
  <2>2. new \in 1 .. new /\ \A n : n \in 1 .. new <=> n \in 1 .. len \/ n = new
    BY <2>1
  <2>3. \A n \in 1 .. len : arrived[n] \in Nat
    BY <1>1, <1>2, ElementOfSeq
  <2> QED  BY <1>1, <1>2, <2>1, <2>2, <2>3
<1>4. arrived # << >> => len \in 1 .. len /\ Newest = arrived[len] /\ Newest \in Nat
  <2>1. arrived # << >> => len # 0
    BY <1>1, <1>2, EmptySeq
  <2>2. arrived # << >> => len \in 1 .. len
    BY <1>3, <2>1
  <2> QED  BY <1>2, <1>3, <2>2 DEF Newest
<1>5. arrived = << >> => len = 0
  BY <1>2, EmptyArrived
<1>6. InRow' <=> InRow /\ i = Len(arrived) + 1
  <2>1. InRow' <=> \A n \in 1 .. new : arrived'[n] = n
    BY <1>3 DEF InRow
  <2>2. InRow <=> \A n \in 1 .. len : arrived[n] = n
    BY <1>2 DEF InRow
  <2> QED  BY <1>2, <1>3, <2>1, <2>2
<1>7. Increasing' <=> \A m, n \in 1 .. new : m < n => arrived'[m] < arrived'[n]
  BY <1>3 DEF Increasing
<1>8. Increasing <=> \A m, n \in 1 .. len : m < n => arrived[m] < arrived[n]
  BY <1>2 DEF Increasing
<1>9. ASSUME Increasing' PROVE Increasing /\ (arrived # << >> => Newest < i)
  <2>1. Increasing
    BY <1>3, <1>7, <1>8, <1>9
  <2>2. arrived # << >> => Newest < i
    <3> SUFFICES ASSUME arrived # << >> PROVE Newest < i
      OBVIOUS
    <3>1. len < new /\ len \in 1 .. len
      BY <1>3, <1>4
    <3>2. arrived'[len] < arrived'[new]
      BY <1>3, <1>7, <1>9, <3>1
    <3> QED  BY <1>3, <1>4, <3>1, <3>2
  <2> QED  BY <2>1, <2>2
<1>10. ASSUME Increasing, arrived # << >> => Newest < i PROVE Increasing'
  <2> SUFFICES ASSUME NEW m \in 1 .. new, NEW n \in 1 .. new, m < n
               PROVE  arrived'[m] < arrived'[n]
    BY <1>7
  <2>1. m \in 1 .. len
    BY <1>3
  <2>2. CASE n \in 1 .. len
    BY <1>3, <1>8, <1>10, <2>1, <2>2
  <2>3. CASE n = new
    <3>1. arrived # << >>
      BY <1>5, <2>1
    <3>2. arrived[m] \in Range(arrived)
      BY <1>2, <2>1, EmptyArrived
    <3>3. arrived[m] \in Nat /\ arrived[m] <= Newest
      BY <1>10, <3>1, <3>2, NewestIsLast
    <3>4. arrived[m] < i
      BY <1>1, <1>4, <1>10, <3>1, <3>3
    <3> QED  BY <1>3, <2>1, <2>3, <3>4
  <2> QED  BY <1>3, <2>2, <2>3
<1> QED  BY <1>6, <1>9, <1>10

(* The packet that came, told by the newest before it, begins a frame      *)
(* where the flow does, when it is the next; and only in a later frame.    *)
LEMMA BeginsFrame ==
    ASSUME WInv, Network, Met, NEW i \in flight, arrived # << >>, Newest < i
    PROVE  /\ FrameOf(Newest) \in Nat /\ FrameOf(i) \in Nat /\ FrameOf(Newest) <= FrameOf(i)
           /\ Begins(wire[i]) => FrameOf(Newest) < FrameOf(i)
           /\ i = Newest + 1 /\ FrameOf(Newest) < FrameOf(i) =>
                  Begins(wire[i]) /\ FrameOf(i) = FrameOf(Newest) + 1
<1>1. PICK p : p = Newest
  OBVIOUS
<1>2. /\ p \in Nat /\ p > 0 /\ p \in 1 .. Len(wire) /\ p < i
      /\ i \in Nat /\ i > 0 /\ i \in 1 .. Len(wire)
  <2>1. p \in Nat /\ p > 0 /\ p \in 1 .. Len(wire) /\ p < i
    BY <1>1, NewestOnWire
  <2>2. i \in 1 .. Len(wire) /\ i \in Nat
    BY WireIsFinite DEF Network
  <2>3. i > 0
    BY <2>1, <2>2
  <2> QED  BY <2>1, <2>2, <2>3
<1>3. /\ FrameOf(p) \in Nat /\ FrameOf(i) \in Nat /\ FrameOf(p) <= FrameOf(i)
  BY <1>2, Places, FramesInOrder
<1>4. Begins(wire[i]) <=> Marked(PacketOf(p)) /\ (video.interlaced => ~InSecond(PacketOf(i)))
  <2>1. marked \in BOOLEAN /\ marked = Marked(PacketOf(p))
    BY <1>1 DEF Met
  <2>2. wire[i].second = InSecond(PacketOf(i))
    BY <1>2, WireSays
  <2>3. Begins(wire[i]) <=> marked /\ (video.interlaced => ~wire[i].second)
    BY <2>1, BeginsIs
  <2> QED  BY <2>1, <2>2, <2>3
<1>5. Begins(wire[i]) => FrameOf(p) < FrameOf(i)
  BY <1>2, <1>4, BeginsLater
<1>6. ASSUME i = p + 1, FrameOf(p) < FrameOf(i)
      PROVE  Begins(wire[i]) /\ FrameOf(i) = FrameOf(p) + 1
  <2>1. PacketOf(p) = Count - 1
    BY <1>2, <1>3, <1>6, NextInOrder
  <2>2. FrameOf(i) = FrameOf(p) + 1 /\ PacketOf(i) = 0
    BY <1>2, <1>6, <2>1, NextInOrder
  <2>3. ~InSecond(PacketOf(i))
    BY <2>2, FirstIsFirst DEF WInv, IInv
  <2>4. Marked(PacketOf(p))
    BY <2>1 DEF Marked
  <2> QED  BY <1>4, <2>2, <2>3, <2>4
<1> QED  BY <1>1, <1>3, <1>5, <1>6

LEMMA FiledDelivers ==
    ASSUME WInv, Network, NEW i \in flight, NEW kept \in BOOLEAN, Arrive(i, kept), NEW n
    PROVE  Filed(n)' = IF FrameOf(i) + 1 = n THEN Filed(n) \cup Placed(wire[i]) ELSE Filed(n)
<1>1. /\ UNCHANGED vars /\ i \in 1 .. Len(wire) /\ Range(arrived)' = Range(arrived) \cup {i}
  BY Delivered
<1>2. UNCHANGED layout
  BY <1>1 DEF vars, layout
<1>3. /\ \A k : FrameOffsetOctets(k)' = FrameOffsetOctets(k)
      /\ \A x : FrameOf(x)' = FrameOf(x) /\ PacketOf(x)' = PacketOf(x)
  BY <1>2, LayoutKeeps
<1>4. Placed(wire[i]) = {FrameOffsetOctets(PacketOf(i))}
  BY <1>1, WireSays
<1>5. Filed(n)' = {FrameOffsetOctets(PacketOf(x)) :
                      x \in {j \in Range(arrived) \cup {i} : FrameOf(j) + 1 = n}}
  BY <1>1, <1>3 DEF Filed
<1> QED  BY <1>4, <1>5 DEF Filed

(* Nothing is filed beyond the newest packet's frame. *)
LEMMA NoneFiled ==
    ASSUME WInv, Network, Increasing, arrived # << >>, NEW n \in Nat, n > FrameOf(Newest) + 1
    PROVE  Filed(n) = {}
<1> SUFFICES ASSUME NEW j \in Range(arrived), FrameOf(j) + 1 = n
             PROVE  FALSE
  BY DEF Filed
<1>1. PICK p : p = Newest
  OBVIOUS
<1>2. p \in Nat /\ p > 0
  BY <1>1, NewestOnWire
<1>3. j \in 1 .. Len(wire) /\ j <= p
  BY <1>1, NewestIsLast DEF Network
<1>4. j \in Nat /\ j > 0
  BY <1>3, WireIsFinite
<1>5. FrameOf(j) \in Nat /\ FrameOf(p) \in Nat
  BY <1>2, <1>4, Places
<1>6. FrameOf(j) <= FrameOf(p)
  <2>1. CASE j = p
    BY <1>5, <2>1
  <2>2. CASE j # p
    BY <1>2, <1>3, <1>4, <2>2, FramesInOrder
  <2> QED  BY <2>1, <2>2
<1> QED  BY <1>1, <1>5, <1>6

LEMMA FramedFirst ==
    ASSUME WInv, Network, Met, NEW i \in flight, NEW kept \in BOOLEAN, Arrive(i, kept),
           arrived = << >>, arrived'[1] = 1
    PROVE  i = 1 /\ FrameOf(1) = 0 /\ Len(rasters') = 1 /\ rasters'[1] = Filed(1)'
<1>1. Len(arrived) = 0 /\ DOMAIN arrived = 1 .. Len(arrived)
  BY EmptyArrived
<1>2. i = 1 /\ i \in 1 .. Len(wire)
  <2>1. arrived'[Len(arrived) + 1] = i /\ i \in 1 .. Len(wire)
    BY Delivered
  <2> QED  BY <1>1, <2>1
<1>3. FrameOf(1) = 0
  <2>1. /\ FrameOf(1) \in Nat /\ PacketOf(1) \in Nat /\ Count \in Nat /\ Count > 0
        /\ 0 = FrameOf(1) * Count + PacketOf(1)
    <3>1. /\ FrameOf(1) \in Nat /\ PacketOf(1) \in 0 .. Count - 1 /\ Count \in Nat /\ Count > 0
          /\ 1 - 1 = FrameOf(1) * Count + PacketOf(1)
      BY Places
    <3> QED  BY <3>1
  <2>2. PICK f \in Nat, c \in Nat, k \in Nat : f = FrameOf(1) /\ c = Count /\ k = PacketOf(1)
    BY <2>1
  <2>3. c > 0 /\ 0 = f * c + k /\ f * c \in Nat
    BY <2>1, <2>2, Product
  <2>4. f # 0 => f * c > 0
    BY ONLY f \in Nat, c \in Nat, <2>3, Product
  <2>5. f = 0
    BY <2>3, <2>4
  <2> QED  BY <2>2, <2>5
<1>4. ~Begins(wire[i])
  <2>1. marked \in BOOLEAN /\ marked = FALSE
    BY DEF Met
  <2> QED  BY <2>1, BeginsIs
<1>5. rasters = <<{}>>
  BY DEF Met
<1>6. PICK placed : placed = Placed(wire[i])
  OBVIOUS
<1>7. rasters' = [<<{}>> EXCEPT ![Len(<<{}>>)] = @ \cup placed]
  BY <1>4, <1>5, <1>6 DEF Arrive
<1>8. Len(rasters') = 1 /\ rasters'[1] = placed
  BY <1>7
<1>9. Filed(1) = {}
  BY <1>1 DEF Filed, Range
<1>10. Filed(1)' = placed
  <2>1. FrameOf(i) + 1 = 1
    BY <1>2, <1>3
  <2>2. Filed(1)' = Filed(1) \cup Placed(wire[i])
    BY <2>1, FiledDelivers
  <2> QED  BY <1>6, <1>9, <2>2
<1> QED  BY <1>2, <1>3, <1>8, <1>10

LEMMA FramedDelivers ==
    ASSUME WInv, Network, Met, Framed, NEW i \in flight, NEW kept \in BOOLEAN, Arrive(i, kept)
    PROVE  Framed'
<1> SUFFICES ASSUME arrived'[1] = 1, Increasing'
             PROVE  (/\ Len(rasters) <= FrameOf(Newest) + 1
                     /\ Len(rasters) = FrameOf(Newest) + 1 =>
                            \A n \in 1 .. Len(rasters) : rasters[n] = Filed(n)
                     /\ InRow => Len(rasters) = FrameOf(Newest) + 1)'
  BY DEF Framed
<1>1. /\ UNCHANGED vars /\ i \in 1 .. Len(wire) /\ Newest' = i /\ i \in Nat
      /\ arrived # << >> => arrived'[1] = arrived[1]
  BY Delivered
<1>2. FrameOf(Newest)' = FrameOf(i)
  <2>1. UNCHANGED layout
    BY <1>1 DEF vars, layout
  <2>2. Count' = Count
    BY <2>1, LayoutKeeps
  <2> QED  BY <1>1, <2>2 DEF FrameOf
<1>3. CASE arrived = << >>
  <2>1. i = 1 /\ FrameOf(1) = 0 /\ Len(rasters') = 1 /\ rasters'[1] = Filed(1)'
    BY <1>3, FramedFirst
  <2>2. \A n \in 1 .. 1 : n = 1
    OBVIOUS
  <2> QED  BY <1>2, <2>1, <2>2
<1>4. CASE arrived # << >>
  <2>1. Increasing /\ Newest < i /\ arrived[1] = 1 /\ (InRow' => InRow /\ i = Len(arrived) + 1)
    BY <1>1, <1>4, OrderDelivers
  <2>2. PICK p, fp, fi, L : p = Newest /\ fp = FrameOf(p) /\ fi = FrameOf(i) /\ L = Len(rasters)
    OBVIOUS
  <2>3. /\ L <= fp + 1
        /\ L = fp + 1 => \A n \in 1 .. L : rasters[n] = Filed(n)
        /\ InRow => L = fp + 1
    BY <1>4, <2>1, <2>2 DEF Framed
  <2>4. /\ fp \in Nat /\ fi \in Nat /\ fp <= fi
        /\ Begins(wire[i]) => fp < fi
        /\ i = p + 1 /\ fp < fi => Begins(wire[i]) /\ fi = fp + 1
    BY <1>4, <2>1, <2>2, BeginsFrame
  <2>5. InRow' => InRow /\ i = p + 1
    BY <1>4, <2>1, <2>2, RowIsIncreasing
  <2>6. PICK placed : placed = Placed(wire[i])
    OBVIOUS
  <2>7. \A n : Filed(n)' = IF fi + 1 = n THEN Filed(n) \cup placed ELSE Filed(n)
    BY <2>2, <2>6, FiledDelivers
  <2>8. rasters' = IF Begins(wire[i]) THEN Append(rasters, placed)
                   ELSE [rasters EXCEPT ![Len(rasters)] = @ \cup placed]
    BY <2>6 DEF Arrive
  <2>9. /\ L \in Nat /\ L > 0 /\ DOMAIN rasters = 1 .. L /\ rasters \in Seq(SUBSET Offsets)
    BY <2>2, LenProperties, EmptySeq DEF Met
  <2>10. CASE Begins(wire[i])
    <3>1. /\ Len(rasters') = L + 1 /\ rasters'[L + 1] = placed
          /\ \A n \in 1 .. L : rasters'[n] = rasters[n]
      <4>1. placed \in SUBSET Offsets
        <5>1. placed = {FrameOffsetOctets(PacketOf(i))}
          BY <1>1, <2>6, WireSays
        <5>2. PacketOf(i) \in Packets
          BY <1>1, Places
        <5> QED  BY <5>1, <5>2 DEF Offsets
      <4>2. rasters' = Append(rasters, placed)
        BY <2>8, <2>10
      <4>3. PICK s, t : s \in Seq(SUBSET Offsets) /\ s = rasters /\ t = rasters'
        BY <2>9
      <4>4. Len(t) = Len(s) + 1 /\ t[Len(s) + 1] = placed /\ \A n \in 1 .. Len(s) : t[n] = s[n]
        BY <4>1, <4>2, <4>3, AppendProperties
      <4> QED  BY <2>2, <4>3, <4>4
    <3>2. fp < fi
      BY <2>4, <2>10
    <3>3. L + 1 <= fi + 1
      BY <2>3, <2>4, <2>9, <3>2
    <3>4. ASSUME L + 1 = fi + 1, NEW n \in 1 .. L + 1
          PROVE  rasters'[n] = Filed(n)'
      <4>1. L = fi /\ L = fp + 1
        BY <2>3, <2>4, <2>9, <3>2, <3>4
      <4>2. CASE n = L + 1
        <5>1. n \in Nat /\ n > fp + 1
          BY <2>9, <4>1, <4>2
        <5>2. Filed(n) = {}
          BY <1>4, <2>1, <2>2, <5>1, NoneFiled
        <5> QED  BY <2>7, <3>1, <4>1, <4>2, <5>2
      <4>3. CASE n # L + 1
        <5>1. n \in 1 .. L
          BY <2>9, <4>3
        <5>2. fi + 1 # n
          BY <4>1, <4>3
        <5> QED  BY <2>3, <2>7, <3>1, <4>1, <5>1, <5>2
      <4> QED  BY <4>2, <4>3
    <3>5. InRow' => L + 1 = fi + 1
      BY <2>3, <2>4, <2>5, <2>9, <3>2
    <3> QED  BY <1>2, <2>2, <3>1, <3>3, <3>4, <3>5
  <2>11. CASE ~Begins(wire[i])
    <3>1. rasters' = [rasters EXCEPT ![L] = rasters[L] \cup placed]
      BY <2>2, <2>8, <2>11
    <3>2. /\ Len(rasters') = L /\ rasters'[L] = rasters[L] \cup placed
          /\ \A n \in 1 .. L : n # L => rasters'[n] = rasters[n]
      <4>1. L \in 1 .. L
        BY <2>9
      <4>2. DOMAIN rasters' = 1 .. L /\ rasters' = [n \in 1 .. L |-> rasters'[n]]
        BY <2>9, <3>1
      <4>3. Len(rasters') = L
        BY <2>9, <4>2
      <4> QED  BY <2>9, <3>1, <4>1, <4>3
    <3>3. L <= fi + 1
      BY <2>3, <2>4, <2>9
    <3>4. ASSUME L = fi + 1, NEW n \in 1 .. L
          PROVE  rasters'[n] = Filed(n)'
      <4>1. L = fp + 1
        BY <2>3, <2>4, <2>9, <3>4
      <4> QED  BY <2>3, <2>7, <3>2, <3>4, <4>1
    <3>5. InRow' => L = fi + 1
      BY <2>3, <2>4, <2>5, <2>9, <2>11
    <3> QED  BY <1>2, <2>2, <3>2, <3>3, <3>4, <3>5
  <2> QED  BY <2>10, <2>11
<1> QED  BY <1>3, <1>4

-----------------------------------------------------------------------------
(* How far the packet that comes is from the newest: between them lies     *)
(* only what is under way, what is gone and what overtook.                 *)
LEMMA UnionBound ==
    ASSUME NEW S, NEW T, IsFiniteSet(S), IsFiniteSet(T)
    PROVE  /\ IsFiniteSet(S \cup T) /\ Cardinality(S) \in Nat /\ Cardinality(T) \in Nat
           /\ Cardinality(S \cup T) \in Nat
           /\ Cardinality(S \cup T) <= Cardinality(S) + Cardinality(T)
<1>1. /\ IsFiniteSet(S \cup T)
      /\ Cardinality(S \cup T) = Cardinality(S) + Cardinality(T) - Cardinality(S \cap T)
  BY FS_Union
<1>2. IsFiniteSet(S \cap T)
  BY FS_Subset
<1> QED  BY <1>1, <1>2, FS_CardinalityType

LEMMA BehindBy ==
    ASSUME WInv, Network, NEW i \in flight, arrived # << >>, i < Newest
    PROVE  Newest - i <= MaxFlight + MaxMishaps - 2
<1>1. PICK p : p = Newest
  OBVIOUS
<1>2. p \in Nat /\ p \in 1 .. Len(wire) /\ i \in Nat /\ i \in 1 .. Len(wire) /\ i < p
  BY <1>1, NewestOnWire, WireIsFinite DEF Network
<1> DEFINE near == Under(p) \ {i}
           far == Gone \cup Overtook(i)
<1>3. i + 1 .. p \subseteq near \cup far
  <2> SUFFICES ASSUME NEW x \in i + 1 .. p PROVE x \in near \cup far
    OBVIOUS
  <2>1. x \in Nat /\ x \in 1 .. Len(wire) /\ x > i /\ x # i /\ (x < p \/ x = p)
    BY <1>2, WireIsFinite
  <2>2. x = p => x \in Range(arrived)
    BY <1>1, EmptyArrived
  <2> QED  BY <2>1, <2>2 DEF Under, Gone, Overtook
<1>4. IsFiniteSet(near) /\ Cardinality(near) \in Nat /\ Cardinality(near) <= MaxFlight - 2
  <2>1. IsFiniteSet(Under(p)) /\ Cardinality(Under(p)) \in Nat /\ i \in Under(p)
    BY <1>2, NetworkIsFinite DEF Under
  <2>2. Cardinality(Under(p)) <= MaxFlight - 1
    BY <1>1 DEF Network
  <2>3. IsFiniteSet(near) /\ Cardinality(near) = Cardinality(Under(p)) - 1
    BY <2>1, FS_RemoveElement
  <2> HIDE DEF near
  <2>4. Cardinality(near) \in Nat
    BY <2>3, FS_CardinalityType
  <2> QED  BY <2>1, <2>2, <2>3, <2>4, ReceiverConstants
<1>5. IsFiniteSet(far) /\ Cardinality(far) \in Nat /\ Cardinality(far) <= MaxMishaps
  <2>1. /\ IsFiniteSet(Gone) /\ IsFiniteSet(Overtook(i))
        /\ Cardinality(Gone) \in Nat /\ Cardinality(Overtook(i)) \in Nat
    BY NetworkIsFinite
  <2>2. Cardinality(Gone) + Cardinality(Overtook(i)) <= mishaps /\ mishaps \in 0 .. MaxMishaps
    BY DEF Network
  <2>3. /\ IsFiniteSet(far) /\ Cardinality(far) \in Nat
        /\ Cardinality(far) <= Cardinality(Gone) + Cardinality(Overtook(i))
    BY <2>1, UnionBound
  <2> HIDE DEF far
  <2> QED  BY <2>1, <2>2, <2>3, ReceiverConstants
<1> HIDE DEF near, far
<1>6. /\ IsFiniteSet(near \cup far) /\ Cardinality(near \cup far) \in Nat
      /\ Cardinality(near \cup far) <= Cardinality(near) + Cardinality(far)
  BY <1>4, <1>5, UnionBound
<1>7. Cardinality(i + 1 .. p) = p - i
  <2>1. i + 1 \in Int /\ p \in Int /\ ~(i + 1 > p) /\ p - (i + 1) + 1 = p - i
    BY <1>2
  <2> QED  BY <2>1, FS_Interval
<1>8. Cardinality(i + 1 .. p) <= Cardinality(near \cup far)
  BY <1>3, <1>6, FS_Subset
<1> QED  BY <1>1, <1>2, <1>4, <1>5, <1>6, <1>7, <1>8, ReceiverConstants

LEMMA AheadBy ==
    ASSUME WInv, Network, Increasing, NEW i \in flight, arrived # << >>, Newest < i
    PROVE  i - Newest <= MaxFlight + MaxMishaps
<1>1. PICK p : p = Newest
  OBVIOUS
<1>2. p \in Nat /\ p \in 1 .. Len(wire) /\ i \in Nat /\ i \in 1 .. Len(wire) /\ p < i
  BY <1>1, NewestOnWire, WireIsFinite DEF Network
<1>3. p + 1 .. i \subseteq flight \cup Gone
  <2> SUFFICES ASSUME NEW x \in p + 1 .. i PROVE x \in flight \cup Gone
    OBVIOUS
  <2>1. x \in 1 .. Len(wire) /\ ~(x <= p)
    BY <1>2, WireIsFinite
  <2>2. x \notin Range(arrived)
    BY <1>1, <2>1, NewestIsLast
  <2> QED  BY <2>1, <2>2 DEF Gone
<1>4. /\ IsFiniteSet(flight) /\ IsFiniteSet(Gone)
      /\ Cardinality(flight) \in Nat /\ Cardinality(Gone) \in Nat
      /\ Cardinality(flight) <= MaxFlight /\ Cardinality(Gone) <= MaxMishaps
  <2>1. /\ IsFiniteSet(flight) /\ IsFiniteSet(Gone)
        /\ Cardinality(flight) \in Nat /\ Cardinality(Gone) \in Nat
    BY NetworkIsFinite
  <2>2. Cardinality(flight) <= MaxFlight /\ Cardinality(Gone) <= mishaps /\ mishaps \in 0 .. MaxMishaps
    BY DEF Network
  <2> QED  BY <2>1, <2>2, ReceiverConstants
<1>5. /\ IsFiniteSet(flight \cup Gone) /\ Cardinality(flight \cup Gone) \in Nat
      /\ Cardinality(flight \cup Gone) <= Cardinality(flight) + Cardinality(Gone)
  BY <1>4, UnionBound
<1>6. Cardinality(p + 1 .. i) = i - p
  <2>1. p + 1 \in Int /\ i \in Int /\ ~(p + 1 > i) /\ i - (p + 1) + 1 = i - p
    BY <1>2
  <2> QED  BY <2>1, FS_Interval
<1>7. Cardinality(p + 1 .. i) <= Cardinality(flight \cup Gone)
  BY <1>3, <1>5, FS_Subset
<1> QED  BY <1>1, <1>2, <1>4, <1>5, <1>6, <1>7, ReceiverConstants

(* A step within one space, ahead or behind. *)
LEMMA StepWithin ==
    ASSUME NEW m \in Nat, NEW d \in Int, d < m, -m < d
    PROVE  d % m = IF d >= 0 THEN d ELSE d + m
<1>1. CASE d >= 0
  <2>1. m > 0 /\ d \in 0 .. m - 1 /\ d = 0 * m + d
    BY <1>1
  <2>2. d % m = d
    BY <2>1, RemainderUnique
  <2> QED  BY <1>1, <2>2
<1>2. CASE ~(d >= 0)
  <2>1. m > 0 /\ d + m \in 0 .. m - 1 /\ d = (-1) * m + (d + m) /\ -1 \in Int
    BY <1>2
  <2>2. d % m = d + m
    BY <2>1, RemainderUnique
  <2> QED  BY <1>2, <2>2
<1> QED  BY <1>1, <1>2

-----------------------------------------------------------------------------
(* An account with no discontinuity has seen a row of packets; one with    *)
(* neither a reordering nor a duplicate has seen them in order, in one     *)
(* span from the first to the newest.                                      *)
CleanRun == account.discontinuities = 0 /\ arrived # << >> /\ arrived[1] = 1 => InRow

LossRun ==
    arrived # << >> /\ account.reordered = 0 /\ account.duplicated = 0 =>
        /\ Increasing
        /\ account.closed = 0 /\ account.highest = account.extended
        /\ account.lowest = account.extended - (Newest - arrived[1])

(* The network keeps fewer packets back than the space has numbers. *)
ShortOfASpace == MaxFlight + MaxMishaps < Modulus

(* No packet is further behind than the tracker's window for a reordered   *)
(* one, nor as far ahead as its dropout.                                   *)
WithinTheWindows ==
    MaxFlight + MaxMishaps < WideDropout /\ MaxFlight + MaxMishaps <= Misorder + 2

LEMMA CleanDelivers ==
    ASSUME ShortOfASpace, WInv, Network, Met, CleanRun,
           NEW i \in flight, NEW kept \in BOOLEAN, Arrive(i, kept)
    PROVE  CleanRun'
<1> SUFFICES ASSUME account'.discontinuities = 0, arrived'[1] = 1
             PROVE  InRow'
  BY DEF CleanRun
<1>1. /\ Len(arrived) \in Nat /\ arrived'[Len(arrived) + 1] = i /\ i \in Nat
      /\ arrived # << >> => arrived'[1] = arrived[1]
  BY Delivered
<1>2. CASE arrived = << >>
  <2>1. Len(arrived) = 0
    BY <1>2, EmptyArrived
  <2>2. i = Len(arrived) + 1
    BY <1>1, <2>1
  <2>3. InRow
    BY <2>1 DEF InRow
  <2> QED  BY <2>2, <2>3, OrderDelivers
<1>3. CASE arrived # << >>
  <2>1. PICK p, step : p = Newest /\ step = (i - p) % Modulus
    OBVIOUS
  <2>2. Moves(account, account', step)
    BY <1>3, <2>1, Admitted
  <2>3. account.discontinuities = 0 /\ step = 1
    <3>1. /\ account.discontinuities \in Nat
          /\ account.discontinuities <= account'.discontinuities
          /\ step # 1 => account'.discontinuities > account.discontinuities
      BY <2>2 DEF Moves
    <3> QED  BY <3>1
  <2>4. InRow
    BY <1>1, <1>3, <2>3 DEF CleanRun
  <2>5. Increasing /\ p = Len(arrived) /\ p \in Nat
    BY <1>1, <1>3, <2>1, <2>4, RowIsIncreasing
  <2>6. /\ Modulus \in Nat /\ Modulus > 1 /\ MaxFlight \in Nat /\ MaxMishaps \in Nat
        /\ MaxFlight + MaxMishaps < Modulus
    BY ReceiverConstants DEF ShortOfASpace
  <2>7. i = p + 1
    <3>1. CASE i > p
      <4>1. i - p <= MaxFlight + MaxMishaps
        BY <1>3, <2>1, <2>5, <3>1, AheadBy
      <4>2. i - p \in Int /\ i - p < Modulus /\ -Modulus < i - p /\ i - p >= 0
        BY <1>1, <2>5, <2>6, <3>1, <4>1
      <4>3. step = i - p
        BY <2>1, <2>6, <4>2, StepWithin
      <4> QED  BY <1>1, <2>3, <2>5, <4>3
    <3>2. CASE i = p
      <4>1. 0 \in Int /\ 0 < Modulus /\ -Modulus < 0 /\ i - p = 0
        BY <1>1, <2>6, <3>2
      <4>2. step = 0
        BY <2>1, <2>6, <4>1, StepWithin
      <4> QED  BY <2>3, <4>2
    <3>3. CASE i < p
      <4>1. p - i <= MaxFlight + MaxMishaps - 2
        BY <1>3, <2>1, <3>3, BehindBy
      <4>2. i - p \in Int /\ i - p < Modulus /\ -Modulus < i - p /\ ~(i - p >= 0)
        BY <1>1, <2>5, <2>6, <3>3, <4>1
      <4>3. step = (i - p) + Modulus
        BY <2>1, <2>6, <4>2, StepWithin
      <4> QED  BY <1>1, <2>3, <2>5, <2>6, <4>1, <4>3
    <3> QED  BY <1>1, <2>5, <3>1, <3>2, <3>3
  <2> QED  BY <2>4, <2>5, <2>7, OrderDelivers
<1> QED  BY <1>2, <1>3

LEMMA LossDelivers ==
    ASSUME WithinTheWindows, WInv, Network, Met, LossRun,
           NEW i \in flight, NEW kept \in BOOLEAN, Arrive(i, kept)
    PROVE  LossRun'
<1> SUFFICES ASSUME account'.reordered = 0, account'.duplicated = 0
             PROVE  (/\ Increasing
                     /\ account.closed = 0 /\ account.highest = account.extended
                     /\ account.lowest = account.extended - (Newest - arrived[1]))'
  BY DEF LossRun
<1>1. /\ Len(arrived) \in Nat /\ arrived'[Len(arrived) + 1] = i /\ i \in Nat
      /\ Newest' = i
      /\ arrived # << >> => arrived'[1] = arrived[1]
  BY Delivered
<1>2. CASE arrived = << >>
  <2>1. Len(arrived) = 0
    BY <1>2, EmptyArrived
  <2>2. Increasing'
    <3>1. Increasing
      BY <2>1 DEF Increasing
    <3> QED  BY <1>2, <3>1, OrderDelivers
  <2>3. /\ account'.closed = 0 /\ account'.lowest = account'.extended
        /\ account'.highest = account'.extended /\ Counting(account')
    BY <1>2, Opening
  <2>4. arrived'[1] = i
    BY <1>1, <2>1
  <2>5. account'.extended = account'.extended - (i - i)
    <3>1. account'.extended \in Int
      BY <2>3 DEF Counting, Accounts
    <3> QED  BY <1>1, <3>1
  <2> QED  BY <1>1, <2>2, <2>3, <2>4, <2>5
<1>3. CASE arrived # << >>
  <2>1. PICK p, step : p = Newest /\ step = (i - p) % Modulus
    OBVIOUS
  <2>2. Moves(account, account', step)
    BY <1>3, <2>1, Admitted
  <2>3. /\ account.reordered = 0 /\ account.duplicated = 0
        /\ step # 0 /\ ~(step >= Modulus - Misorder)
    <3>1. /\ account.reordered \in Nat /\ account.duplicated \in Nat
          /\ account.reordered <= account'.reordered /\ account.duplicated <= account'.duplicated
          /\ step = 0 => account'.duplicated > account.duplicated
          /\ step >= Modulus - Misorder => account'.reordered > account.reordered
      BY <2>2 DEF Moves
    <3> QED  BY <3>1
  <2>4. /\ Increasing
        /\ account.closed = 0 /\ account.highest = account.extended
        /\ account.lowest = account.extended - (p - arrived[1])
    BY <1>3, <2>1, <2>3 DEF LossRun
  <2>5. PICK first : first = arrived[1]
    OBVIOUS
  <2>6. p \in Nat /\ first \in Nat /\ first <= p
    BY <1>3, <2>1, <2>4, <2>5, EmptyArrived, NewestIsLast
  <2>7. /\ Modulus \in Nat /\ Misorder \in Nat /\ WideDropout \in Nat
        /\ WideDropout + Misorder <= Modulus /\ 1 < WideDropout
        /\ MaxFlight \in Nat /\ MaxMishaps \in Nat
        /\ MaxFlight + MaxMishaps < WideDropout /\ MaxFlight + MaxMishaps <= Misorder + 2
    BY ReceiverConstants DEF WithinTheWindows
  <2>8. i > p
    <3>1. CASE i = p
      <4>1. 0 \in Int /\ 0 < Modulus /\ -Modulus < 0 /\ i - p = 0
        BY <1>1, <2>7, <3>1
      <4>2. step = 0
        BY <2>1, <2>7, <4>1, StepWithin
      <4> QED  BY <2>3, <4>2
    <3>2. CASE i < p
      <4>1. p - i <= MaxFlight + MaxMishaps - 2
        BY <1>3, <2>1, <3>2, BehindBy
      <4>2. i - p \in Int /\ i - p < Modulus /\ -Modulus < i - p /\ ~(i - p >= 0)
        BY <1>1, <2>6, <2>7, <3>2, <4>1
      <4>3. step = (i - p) + Modulus
        BY <2>1, <2>7, <4>2, StepWithin
      <4> QED  BY <1>1, <2>3, <2>6, <2>7, <4>1, <4>3
    <3> QED  BY <1>1, <2>6, <3>1, <3>2
  <2>9. step = i - p /\ 0 < step /\ step < WideDropout
    <3>1. i - p <= MaxFlight + MaxMishaps
      BY <1>3, <2>1, <2>4, <2>8, AheadBy
    <3>2. i - p \in Int /\ i - p < Modulus /\ -Modulus < i - p /\ i - p >= 0
      BY <1>1, <2>6, <2>7, <2>8, <3>1
    <3>3. step = i - p
      BY <2>1, <2>7, <3>2, StepWithin
    <3> QED  BY <1>1, <2>6, <2>7, <2>8, <3>1, <3>3
  <2>10. /\ account'.closed = account.closed /\ account'.extended = account.extended + step
         /\ account'.lowest = Lesser(account.lowest, account.extended + step)
         /\ account'.highest = Greater(account.highest, account.extended + step)
    BY <2>2, <2>9 DEF Moves
  <2>11. PICK e \in Int : e = account.extended
    BY <1>3 DEF Met, Counting, Accounts
  <2>12. account'.highest = e + step /\ account'.extended = e + step /\ account'.closed = 0
    <3>1. account.highest = e /\ e + step > e
      BY <1>1, <2>4, <2>6, <2>9, <2>11
    <3>2. Greater(e, e + step) = e + step
      BY <1>1, <2>6, <2>9, <2>11 DEF Greater
    <3> QED  BY <2>4, <2>10, <2>11, <3>1, <3>2
  <2>13. account'.lowest = e - (p - first)
    <3>1. account.lowest = e - (p - first)
      BY <2>4, <2>5, <2>11
    <3>2. e - (p - first) < e + step
      BY <1>1, <2>6, <2>9, <2>11
    <3>3. Lesser(e - (p - first), e + step) = e - (p - first)
      BY <3>2 DEF Lesser
    <3> QED  BY <2>10, <2>11, <3>1, <3>3
  <2>14. e - (p - first) = (e + step) - (i - first)
    BY <1>1, <2>6, <2>9, <2>11
  <2>15. Increasing'
    BY <1>3, <2>1, <2>4, <2>8, OrderDelivers
  <2> QED  BY <1>1, <1>3, <2>5, <2>12, <2>13, <2>14, <2>15
<1> QED  BY <1>2, <1>3

-----------------------------------------------------------------------------
(* The receiver keeps its side of the invariant while the wire grows.      *)
LEMMA ReceiverStays ==
    ASSUME WInv, Network, Met, Framed, UNCHANGED receiver, UNCHANGED layout,
           stamped # << >> => stamped'[1] = stamped[1]
    PROVE  Met' /\ Framed' /\ (CleanRun => CleanRun') /\ (LossRun => LossRun')
<1>1. arrived' = arrived /\ account' = account /\ rasters' = rasters /\ marked' = marked
  BY DEF receiver, tracker
<1>2. /\ Packets' = Packets
      /\ \A k : FrameOffsetOctets(k)' = FrameOffsetOctets(k) /\ Marked(k)' = Marked(k)
      /\ \A i : FrameOf(i)' = FrameOf(i) /\ PacketOf(i)' = PacketOf(i)
  BY LayoutKeeps
<1>3. Offsets' = Offsets /\ Newest' = Newest /\ Count' = Count
  BY <1>1, <1>2, LayoutKeeps DEF Offsets, Newest
<1>4. arrived # << >> => Base' = Base
  <2>1. initial' = initial
    BY DEF layout
  <2>2. arrived # << >> => stamped # << >>
    BY NewestOnWire, WireSays
  <2> QED  BY <1>3, <2>1, <2>2 DEF Base
<1>5. Marked(PacketOf(Newest))' = Marked(PacketOf(Newest))
  <2>1. PICK p : p = Newest
    OBVIOUS
  <2>2. Newest' = p /\ PacketOf(p)' = PacketOf(p)
    BY <1>2, <1>3, <2>1
  <2>3. PacketOf(Newest)' = PacketOf(p)
    BY <1>3, <2>1, <2>2 DEF PacketOf
  <2>4. PICK k : k = PacketOf(p)
    OBVIOUS
  <2>5. Marked(k)' = Marked(k)
    BY <1>2
  <2>6. Split' = Split
    BY LayoutKeeps
  <2> QED  BY <1>3, <2>1, <2>3, <2>4, <2>5, <2>6 DEF Marked
<1>6. Met'
  BY <1>1, <1>3, <1>4, <1>5 DEF Met
<1>7. FrameOf(Newest)' = FrameOf(Newest)
  BY <1>3 DEF FrameOf
<1>8. \A n : Filed(n)' = Filed(n)
  BY <1>1, <1>2 DEF Filed
<1>9. Increasing' = Increasing /\ InRow' = InRow
  BY <1>1 DEF Increasing, InRow
<1>10. Framed'
  BY <1>1, <1>3, <1>7, <1>8, <1>9 DEF Framed
<1>11. CleanRun => CleanRun'
  BY <1>1, <1>9 DEF CleanRun
<1>12. LossRun => LossRun'
  BY <1>1, <1>3, <1>9 DEF LossRun
<1> QED  BY <1>6, <1>10, <1>11, <1>12

(* The receiver's inductive invariant, over the wire's. *)
RInv ==
    /\ Network /\ Met /\ Framed
    /\ ShortOfASpace => CleanRun
    /\ WithinTheWindows => LossRun


LEMMA ReceiverBegins == SliceInit => RInv
<1> SUFFICES ASSUME SliceInit PROVE RInv
  OBVIOUS
<1>1. /\ flight = {} /\ mishaps = 0 /\ arrived = << >> /\ account = Fresh /\ rasters = <<{}>>
      /\ marked = FALSE /\ wire = << >>
  BY DEF SliceInit, Init, TrackerInit
<1>2. arrived \in Seq(Nat) /\ Range(arrived) = {} /\ 1 .. Len(wire) = {} /\ Cardinality({}) = 0
  BY <1>1, FS_EmptySet DEF Range
<1>3. Gone = {}
  BY <1>2 DEF Gone
<1>4. Network
  <2>1. 0 <= MaxFlight /\ mishaps \in 0 .. MaxMishaps /\ 0 <= mishaps
    BY <1>1, ReceiverConstants
  <2> QED  BY <1>1, <1>2, <1>3, <2>1 DEF Network
<1>5. Met
  <2>1. <<{}>> \in Seq(SUBSET Offsets) /\ <<{}>> # << >>
    OBVIOUS
  <2> QED  BY <1>1, <2>1 DEF Met
<1>6. Framed /\ CleanRun /\ LossRun
  BY <1>1 DEF Framed, CleanRun, LossRun
<1> QED  BY <1>4, <1>5, <1>6 DEF RInv

LEMMA ReceiverSteps ==
    WInv /\ RInv /\ [SliceNext]_<<vars, network, receiver>> => RInv'
<1> SUFFICES ASSUME WInv, RInv, [SliceNext]_<<vars, network, receiver>> PROVE RInv'
  OBVIOUS
<1>1. Network /\ Met /\ Framed /\ (ShortOfASpace => CleanRun) /\ (WithinTheWindows => LossRun)
  BY DEF RInv
<1>2. ASSUME UNCHANGED receiver, [Next]_vars, Network' PROVE RInv'
  <2>1. UNCHANGED layout /\ (stamped # << >> => stamped'[1] = stamped[1])
    BY <1>2, WireGrows
  <2>2. Met' /\ Framed' /\ (CleanRun => CleanRun') /\ (LossRun => LossRun')
    BY <1>1, <1>2, <2>1, ReceiverStays
  <2> QED  BY <1>1, <1>2, <2>2 DEF RInv, ShortOfASpace, WithinTheWindows
<1>3. CASE Transmit
  <2>1. Network'
    BY <1>1, <1>3, NetworkTransmits
  <2>2. UNCHANGED receiver /\ [Next]_vars
    BY <1>3 DEF Transmit
  <2> QED  BY <1>2, <2>1, <2>2
<1>4. ASSUME NEW i \in flight, Lose(i) PROVE RInv'
  <2>1. Network'
    BY <1>1, <1>4, NetworkLoses
  <2>2. UNCHANGED receiver /\ [Next]_vars
    BY <1>4 DEF Lose
  <2> QED  BY <1>2, <2>1, <2>2
<1>5. ASSUME NEW i \in flight, NEW kept \in BOOLEAN, Arrive(i, kept) PROVE RInv'
  <2>1. Network' /\ Met' /\ Framed'
    BY <1>1, <1>5, NetworkDelivers, MetDelivers, FramedDelivers
  <2>2. ShortOfASpace => CleanRun'
    BY <1>1, <1>5, CleanDelivers
  <2>3. WithinTheWindows => LossRun'
    BY <1>1, <1>5, LossDelivers
  <2> QED  BY <2>1, <2>2, <2>3 DEF RInv, ShortOfASpace, WithinTheWindows
<1>6. CASE UNCHANGED <<vars, network, receiver>>
  <2>1. UNCHANGED receiver /\ UNCHANGED vars /\ UNCHANGED network
    BY <1>6
  <2>2. arrived' = arrived /\ flight' = flight /\ mishaps' = mishaps /\ wire' = wire
    BY <2>1 DEF receiver, network, vars
  <2>3. Range(arrived)' = Range(arrived) /\ Newest' = Newest
    BY <2>2 DEF Newest
  <2>4. Gone' = Gone /\ Under(Newest)' = Under(Newest) /\ \A j : Overtook(j)' = Overtook(j)
    BY <2>2, <2>3 DEF Gone, Under, Overtook
  <2>5. Network'
    BY <1>1, <2>2, <2>3, <2>4 DEF Network
  <2> QED  BY <1>2, <2>1, <2>5
<1> QED  BY <1>3, <1>4, <1>5, <1>6 DEF SliceNext

LEMMA ReceiverInvariant == SliceSpec => [](WInv /\ RInv)
<1>1. SliceInit => RInv
  BY ReceiverBegins
<1>2. WInv /\ RInv /\ [SliceNext]_<<vars, network, receiver>> => RInv'
  BY ReceiverSteps
<1> QED  BY <1>1, <1>2, WireInvariant, PTL DEF SliceSpec

(* What the account's first fields say of what came. *)
LEMMA AccountSays ==
    ASSUME WInv, Network, Met, account.received > 0 \/ arrived # << >>
    PROVE  /\ arrived # << >> /\ account.received = Len(arrived) /\ account.received > 0
           /\ Len(arrived) \in Nat /\ Newest \in Nat /\ Newest > 0
<1>1. arrived # << >>
  <2>1. Fresh.received = 0
    BY DEF Fresh
  <2> QED  BY <2>1 DEF Met
<1>2. account.received = Len(arrived) /\ account.received > 0
  BY <1>1 DEF Met, Counting
<1> QED  BY <1>1, <1>2, EmptyArrived, NewestOnWire

(* A frame of a row of packets that has been left behind is whole. *)
LEMMA WholeInRow ==
    ASSUME WInv, Network, InRow, arrived # << >>, NEW n \in Nat, n > 0, n <= FrameOf(Newest)
    PROVE  Filed(n) = Offsets
<1>1. PICK p : p = Newest
  OBVIOUS
<1>2. p \in Nat /\ p > 0 /\ Range(arrived) = 1 .. p
  BY <1>1, NewestOnWire, RowIsIncreasing
<1>3. /\ FrameOf(p) \in Nat /\ PacketOf(p) \in 0 .. Count - 1 /\ p - 1 = FrameOf(p) * Count + PacketOf(p)
      /\ Count \in Nat /\ Count > 0 /\ Packets = 0 .. Count - 1
  BY <1>2, Places DEF Packets
<1>4. n - 1 \in Nat /\ n - 1 < FrameOf(p)
  BY <1>1, <1>3
<1> DEFINE above == (n - 1) * Count
           all == FrameOf(p) * Count
<1>5. above + Count <= all /\ above \in Nat /\ all \in Nat
  BY <1>3, <1>4, ProductBelow, Product
<1>6. ASSUME NEW k \in Packets
      PROVE  \E j \in Range(arrived) : FrameOf(j) + 1 = n /\ PacketOf(j) = k
  <2>1. k \in 0 .. Count - 1
    BY <1>3
  <2>2. ((n - 1) * Count + k) % Count = k /\ ((n - 1) * Count + k) \div Count = n - 1
    BY <1>3, <1>4, <2>1, Divided
  <2>3. PICK j : j = above + k + 1
    OBVIOUS
  <2>4. j \in 1 .. p /\ j - 1 = above + k
    <3> HIDE DEF above
    <3>1. p - 1 = all + PacketOf(p)
      BY <1>3
    <3> HIDE DEF all
    <3> QED  BY <1>2, <1>3, <1>5, <2>1, <2>3, <3>1
  <2>5. FrameOf(j) = n - 1 /\ PacketOf(j) = k
    BY <2>2, <2>4 DEF FrameOf, PacketOf
  <2>6. (n - 1) + 1 = n
    OBVIOUS
  <2> QED  BY <1>2, <2>4, <2>5, <2>6
<1>7. \A j \in Range(arrived) : PacketOf(j) \in Packets
  <2>1. \A j \in 1 .. p : j \in Nat /\ j > 0
    BY <1>2
  <2> QED  BY <1>2, <2>1, Places
<1>8. Filed(n) \subseteq Offsets
  BY <1>7 DEF Filed, Offsets
<1>9. Offsets \subseteq Filed(n)
  BY <1>6 DEF Filed, Offsets
<1> QED  BY <1>8, <1>9

(* What the receiver can tell by its counters alone, for every format,     *)
(* payload size, network and width of the numbers: while the account has   *)
(* no discontinuity and the flow was met at a frame's first packet, every  *)
(* frame it has left is whole and there are as many as were sent.  The     *)
(* network must hold back fewer packets than the space has numbers: a      *)
(* whole space later a packet is in step again (framing.py observe,        *)
(* frame_starts; tests/test_receive_slice.py).                             *)
THEOREM CleanIsWholeHolds ==
    ASSUME ShortOfASpace
    PROVE  SliceSpec => []CleanIsWhole
<1>1. ASSUME WInv, RInv PROVE CleanIsWhole
  <2> SUFFICES ASSUME account.received > 0, account.discontinuities = 0, arrived[1] = 1
               PROVE  /\ \A n \in 1 .. Len(rasters) - 1 : rasters[n] = Frame
                      /\ Len(rasters) = (account.received - 1) \div Count + 1
    BY DEF CleanIsWhole
  <2>1. Network /\ Met /\ Framed /\ CleanRun
    BY <1>1 DEF RInv
  <2>2. arrived # << >> /\ account.received = Len(arrived) /\ Len(arrived) \in Nat
    BY <1>1, <2>1, AccountSays
  <2>3. InRow
    BY <2>1, <2>2 DEF CleanRun
  <2>4. Increasing /\ Newest = Len(arrived)
    BY <2>1, <2>2, <2>3, RowIsIncreasing
  <2>5. PICK f : f = FrameOf(Newest)
    OBVIOUS
  <2>6. /\ Len(rasters) = f + 1
        /\ \A n \in 1 .. Len(rasters) : rasters[n] = Filed(n)
    BY <2>1, <2>2, <2>3, <2>4, <2>5 DEF Framed
  <2>7. f = (account.received - 1) \div Count
    BY <2>2, <2>4, <2>5 DEF FrameOf
  <2>8. Offsets = Frame
    BY <1>1, FrameIsCovered DEF Offsets, Frame, WInv, IInv
  <2>9. f \in Nat
    BY <1>1, <2>1, <2>2, <2>5, NewestOnWire, Places
  <2>10. ASSUME NEW n \in 1 .. Len(rasters) - 1 PROVE rasters[n] = Frame
    <3>1. n \in Nat /\ n > 0 /\ n <= f /\ n \in 1 .. Len(rasters)
      BY <2>6, <2>9
    <3>2. Filed(n) = Offsets
      BY <1>1, <2>1, <2>2, <2>3, <2>5, <3>1, WholeInRow
    <3> QED  BY <2>6, <2>8, <3>1, <3>2
  <2> QED  BY <2>6, <2>7, <2>10
<1>2. WInv /\ RInv => CleanIsWhole
  BY <1>1
<1> QED  BY <1>2, ReceiverInvariant, PTL


(* Each packet of a frame is read from a place of its own. *)
LEMMA OffsetsApart ==
    ASSUME LayoutHolds, NEW k \in Packets, NEW l \in Packets,
           FrameOffsetOctets(k) = FrameOffsetOctets(l)
    PROVE  k = l
<1> DEFINE s == InSecond(k)
           t == InSecond(l)
           m == Line(k)
           n == Line(l)
           row == FrameRow(video, m, s)
           other == FrameRow(video, n, t)
<1>1. PICK c \in 0 .. PerLine - 1 : Within(s, m) /\ k = PacketAt(s, m, c)
  BY PacketIsRow
<1>2. PICK d \in 0 .. PerLine - 1 : Within(t, n) /\ l = PacketAt(t, n, d)
  BY PacketIsRow
<1>3. s \in BOOLEAN /\ t \in BOOLEAN /\ video.interlaced \in BOOLEAN
  BY FieldFacts DEF InSecond
<1>4. /\ FrameOffsetOctets(k) = payload * (row * PerLine + c)
      /\ FrameOffsetOctets(l) = payload * (other * PerLine + d)
  BY <1>1, <1>2, <1>3, OffsetIsWhere
<1>5. /\ m \in Nat /\ n \in Nat /\ (s => video.interlaced) /\ (t => video.interlaced)
  BY <1>1, <1>2 DEF Within
<1>6. /\ row = (IF video.interlaced THEN m * 2 + (IF s THEN 1 ELSE 0) ELSE m)
      /\ other = (IF video.interlaced THEN n * 2 + (IF t THEN 1 ELSE 0) ELSE n)
  BY DEF FrameRow, FieldsPerFrame
<1> HIDE DEF s, t, m, n, row, other
<1>7. row \in Nat /\ other \in Nat
  BY <1>3, <1>5, <1>6
<1>8. PerLine \in Nat /\ PerLine > 0 /\ payload \in Nat /\ payload > 0
  <2>1. PerLine \in Nat /\ PerLine > 0
    BY LineFacts
  <2>2. payload > 0 /\ payload \in Int
    BY DEF LayoutHolds, Accepted, Tiles
  <2> QED  BY <2>1, <2>2
<1> DEFINE here == row * PerLine + c
           there == other * PerLine + d
<1>9. here \in Nat /\ there \in Nat
  <2>1. row * PerLine \in Nat /\ other * PerLine \in Nat
    BY <1>7, <1>8, Product
  <2> QED  BY <2>1, <1>8
<1>10. here = there
  <2>1. payload * here = payload * there
    BY <1>4
  <2> HIDE DEF here, there
  <2>2. (here * payload) = (there * payload)
    BY <1>8, <1>9, <2>1, SMT
  <2>3. here < there => here * payload + payload <= there * payload
    BY <1>8, <1>9, ProductBelow
  <2>4. there < here => there * payload + payload <= here * payload
    BY <1>8, <1>9, ProductBelow
  <2>5. here * payload \in Nat /\ there * payload \in Nat
    BY <1>8, <1>9, Product
  <2> QED  BY <1>8, <1>9, <2>2, <2>3, <2>4, <2>5
<1>11. row = other /\ c = d
  <2>1. here % PerLine = c /\ here \div PerLine = row
    BY <1>7, <1>8, Divided
  <2>2. there % PerLine = d /\ there \div PerLine = other
    BY <1>7, <1>8, Divided
  <2> HIDE DEF here, there
  <2> QED  BY <1>10, <2>1, <2>2
<1>12. s = t /\ m = n
  <2>1. CASE video.interlaced
    <3>1. m * 2 + (IF s THEN 1 ELSE 0) = n * 2 + (IF t THEN 1 ELSE 0)
      BY <1>6, <1>11, <2>1
    <3>2. m = n /\ (IF s THEN 1 ELSE 0) = (IF t THEN 1 ELSE 0)
      BY <1>3, <1>5, <3>1
    <3>3. s <=> t
      BY <3>2
    <3> QED  BY <1>3, <3>2, <3>3
  <2>2. CASE ~video.interlaced
    <3>1. m = n
      BY <1>6, <1>11, <2>2
    <3>2. s <=> t
      BY <1>5, <2>2
    <3> QED  BY <1>3, <3>1, <3>2
  <2> QED  BY <2>1, <2>2
<1> QED  BY <1>1, <1>2, <1>11, <1>12

LEMMA CountedUp ==
    ASSUME NEW n \in Nat
    PROVE  IsFiniteSet(1 .. n) /\ Cardinality(1 .. n) = n
<1>1. 1 \in Int /\ n \in Int
  OBVIOUS
<1>2. IsFiniteSet(1 .. n) /\ Cardinality(1 .. n) = IF 1 > n THEN 0 ELSE n - 1 + 1
  BY <1>1, FS_Interval, Zenon
<1> QED  BY <1>2

(* Packets that came in order are as many as they are long. *)
LEMMA OrderIsCount ==
    ASSUME Network, Increasing
    PROVE  /\ IsFiniteSet(Range(arrived)) /\ Cardinality(Range(arrived)) = Len(arrived)
           /\ Len(arrived) \in Nat
<1>1. /\ Len(arrived) \in Nat /\ DOMAIN arrived = 1 .. Len(arrived) /\ arrived \in Seq(Nat)
      /\ \A n \in 1 .. Len(arrived) : arrived[n] \in Range(arrived)
  BY EmptyArrived DEF Network
<1>2. PICK len, s : len = Len(arrived) /\ s = arrived
  OBVIOUS
<1>3. IsFiniteSet(1 .. len) /\ Cardinality(1 .. len) = len
  BY <1>1, <1>2, CountedUp
<1>4. s \in [1 .. len -> Range(s)]
  BY <1>1, <1>2 DEF Range
<1>5. s \in Surjection(1 .. len, Range(s))
  BY <1>1, <1>2, <1>4 DEF Surjection, Range
<1>6. s \in Injection(1 .. len, Range(s))
  <2>1. \A m, n \in 1 .. len : m < n => s[m] < s[n]
    BY <1>2 DEF Increasing
  <2>2. \A n \in 1 .. len : s[n] \in Nat
    BY <1>1, <1>2, ElementOfSeq
  <2>3. ASSUME NEW m \in 1 .. len, NEW n \in 1 .. len, s[m] = s[n] PROVE m = n
    BY <1>1, <1>2, <2>1, <2>2, <2>3
  <2> QED  BY <1>1, <1>2, <1>4, <2>3 DEF Injection, IsInjective
<1>7. IsFiniteSet(Range(s)) /\ Cardinality(Range(s)) = Cardinality(1 .. len)
  BY <1>3, <1>5, <1>6, FS_Surjection
<1> QED  BY <1>1, <1>2, <1>3, <1>7

(* The hole and the loss move together, for every format, payload size,    *)
(* network and width of the numbers: of a flow met at its first packet,    *)
(* whose account knows of losses only and whose frames were all told       *)
(* apart, the places left empty up to the newest packet are as many as the *)
(* packets counted lost.  No packet may come further behind than the       *)
(* tracker's window for a reordered one: later, it closes the span as a    *)
(* jump does, and is counted neither reordered nor lost (framing.py        *)
(* observe; geometry.py raster_offset; tests/test_receive_slice.py).       *)
THEOREM LossIsTheHolesHolds ==
    ASSUME WithinTheWindows
    PROVE  SliceSpec => []LossIsTheHoles
<1>1. ASSUME WInv, RInv PROVE LossIsTheHoles
  <2> DEFINE newest == arrived[Len(arrived)]
             holes == {i \in 1 .. newest :
                          FrameOffsetOctets((i - 1) % Count) \notin rasters[(i - 1) \div Count + 1]}
  <2> SUFFICES ASSUME arrived # << >>, arrived[1] = 1,
                      account.reordered = 0, account.duplicated = 0,
                      Len(rasters) = (newest - 1) \div Count + 1
               PROVE  LostOf(account) = Cardinality(holes)
    BY DEF LossIsTheHoles
  <2>1. Network /\ Met /\ Framed /\ LossRun /\ LayoutHolds
    BY <1>1 DEF RInv, WInv, IInv
  <2>2. /\ Increasing /\ account.closed = 0 /\ account.highest = account.extended
        /\ account.lowest = account.extended - (Newest - 1)
    BY <2>1 DEF LossRun
  <2>3. PICK p, f : p = Newest /\ f = FrameOf(p)
    OBVIOUS
  <2>4. newest = p /\ Len(rasters) = f + 1
    BY <2>3 DEF Newest, FrameOf
  <2>5. /\ p \in Nat /\ p > 0 /\ account.received = Len(arrived) /\ account.received > 0
        /\ f \in Nat
    BY <1>1, <2>1, <2>3, AccountSays, Places
  <2>6. \A n \in 1 .. f + 1 : rasters[n] = Filed(n)
    BY <2>1, <2>2, <2>3, <2>4 DEF Framed
  <2>7. holes = {i \in 1 .. p : FrameOffsetOctets(PacketOf(i)) \notin rasters[FrameOf(i) + 1]}
    BY <2>4 DEF FrameOf, PacketOf
  <2> HIDE DEF newest, holes
  <2>8. Range(arrived) \subseteq 1 .. p
    <3>1. \A x \in Range(arrived) : x \in Nat /\ x <= p /\ x \in 1 .. Len(wire)
      BY <2>1, <2>2, <2>3, NewestIsLast DEF Network
    <3>2. Len(wire) \in Nat
      BY <1>1, WireIsFinite
    <3> QED  BY <2>5, <3>1, <3>2
  <2>9. ASSUME NEW i \in 1 .. p
        PROVE  FrameOffsetOctets(PacketOf(i)) \in rasters[FrameOf(i) + 1] <=> i \in Range(arrived)
    <3>1. i \in Nat /\ i > 0 /\ (i < p \/ i = p)
      BY <2>5
    <3>2. FrameOf(i) \in Nat /\ PacketOf(i) \in Packets
      BY <1>1, <3>1, Places
    <3>3. FrameOf(i) <= f
      BY <1>1, <2>3, <2>5, <3>1, <3>2, FramesInOrder
    <3>4. FrameOf(i) + 1 \in 1 .. f + 1
      BY <2>5, <3>2, <3>3
    <3>5. rasters[FrameOf(i) + 1] = Filed(FrameOf(i) + 1)
      BY <2>6, <3>4
    <3>6. ASSUME NEW j \in Range(arrived), FrameOf(j) + 1 = FrameOf(i) + 1,
                 FrameOffsetOctets(PacketOf(j)) = FrameOffsetOctets(PacketOf(i))
          PROVE  i = j
      <4>1. j \in 1 .. p /\ j \in Nat /\ j > 0
        BY <2>5, <2>8
      <4>2. FrameOf(j) \in Nat /\ PacketOf(j) \in Packets
        BY <1>1, <4>1, Places
      <4>3. FrameOf(j) = FrameOf(i)
        BY <3>2, <3>6, <4>2
      <4>4. PacketOf(j) = PacketOf(i)
        BY <2>1, <3>2, <3>6, <4>2, OffsetsApart
      <4>5. i - 1 = FrameOf(i) * Count + PacketOf(i) /\ j - 1 = FrameOf(j) * Count + PacketOf(j)
        BY <1>1, <3>1, <4>1, Places
      <4>6. i - 1 = j - 1
        BY <4>3, <4>4, <4>5
      <4> QED  BY <3>1, <4>1, <4>6
    <3>7. i \in Range(arrived) => FrameOffsetOctets(PacketOf(i)) \in Filed(FrameOf(i) + 1)
      BY DEF Filed
    <3>8. FrameOffsetOctets(PacketOf(i)) \in Filed(FrameOf(i) + 1) => i \in Range(arrived)
      BY <3>6 DEF Filed
    <3> QED  BY <3>5, <3>7, <3>8
  <2>10. holes = (1 .. p) \ Range(arrived)
    BY <2>7, <2>9
  <2>11. Cardinality(holes) = p - Len(arrived)
    <3>1. IsFiniteSet(1 .. p) /\ Cardinality(1 .. p) = p
      BY <2>5, CountedUp
    <3>2. (1 .. p) \cap Range(arrived) = Range(arrived)
      BY <2>8
    <3>3. Cardinality(Range(arrived)) = Len(arrived)
      BY <2>1, <2>2, OrderIsCount
    <3>4. Cardinality((1 .. p) \ Range(arrived))
            = Cardinality(1 .. p) - Cardinality((1 .. p) \cap Range(arrived))
      BY <3>1, FS_Difference
    <3> QED  BY <2>10, <3>1, <3>2, <3>3, <3>4
  <2>12. LostOf(account) = p - Len(arrived)
    <3>1. Counting(account)
      BY <2>1, Zenon DEF Met
    <3>2. PICK e \in Int : e = account.extended
      BY <3>1 DEF Counting, Accounts
    <3>3. account.received \in Nat /\ account.received # 0
      BY <2>5, <3>1 DEF Counting, Accounts
    <3>4. LostOf(account) = (account.closed + account.highest - account.lowest + 1) - account.received
      BY <3>3, Zenon DEF LostOf, ExpectedOf
    <3>5. /\ account.closed = 0 /\ account.highest = e /\ account.lowest = e - (p - 1)
          /\ account.received = Len(arrived) /\ Len(arrived) \in Nat
      BY <2>1, <2>2, <2>3, <2>5, <3>2, EmptyArrived
    <3> QED  BY <2>5, <3>2, <3>4, <3>5
  <2> QED  BY <2>11, <2>12
<1>2. WInv /\ RInv => LossIsTheHoles
  BY <1>1
<1> QED  BY <1>2, ReceiverInvariant, PTL
=============================================================================
