---------------------------- MODULE PayloadProofs ----------------------------
(***************************************************************************)
(* What PayloadWalk answers, for every packet, row, cut and bound: what    *)
(* the receiver's buffers keep of earlier packets never shows.             *)
(***************************************************************************)
EXTENDS PayloadWalk, Foundations

LEMMA ConstantFacts ==
    /\ MaxSegments \in Nat /\ MaxSegments > 0 /\ Width \in Nat /\ Width >= 3
    /\ Rows \subseteq Nat /\ Cuts \subseteq Nat /\ MaxChunks \in Nat
    /\ \A p \in Packets : IsPacket(p)
  BY PayloadAssumption

(* The last segment within the bound. *)
LEMMA LastSegment == Max(Segments) = MaxSegments - 1
<1>1. MaxSegments \in Nat /\ MaxSegments > 0
  BY ConstantFacts
<1>2. Segments \subseteq Int /\ MaxSegments - 1 \in Segments
      /\ \A s \in Segments : s <= MaxSegments - 1
  BY <1>1 DEF Segments
<1> DEFINE m == MaxSegments - 1
<1>3. m \in Segments /\ \A s \in Segments : s <= m
  BY <1>2
<1> HIDE DEF m
<1>4. Max(Segments) = m
  BY <1>2, <1>3, MaxIs
<1> QED  BY <1>4 DEF m

-----------------------------------------------------------------------------
(* Sums of lengths. *)
LEMMA SumIsNat ==
    ASSUME NEW n \in Nat, NEW lengths \in [1 .. n -> Nat], Len(lengths) = n
    PROVE  SumOf(lengths) \in Nat
<1> DEFINE Sums(f) == f = [i \in 0 .. n |-> IF i = 0 THEN 0 ELSE f[i - 1] + lengths[i]]
           sum == CHOOSE f : Sums(f)
<1>1. SumOf(lengths) = sum[n]
  BY Zenon DEF SumOf
<1>2. lengths \in [1 .. n -> Int]
  OBVIOUS
<1>3. \E f : Sums(f)
  <2>1. PICK f \in [0 .. n -> Int] :
            f = [i \in 0 .. n |-> IF i = 0 THEN 0 ELSE f[i - 1] + lengths[i]]
    BY <1>2, RunningSum, Zenon
  <2> QED  BY <2>1, Zenon
<1>4. Sums(sum)
  BY <1>3, Zenon
<1>5. sum = [i \in 0 .. n |-> IF i = 0 THEN 0 ELSE sum[i - 1] + lengths[i]]
  BY <1>4, Zenon
<1> HIDE DEF sum
<1>6. sum[0] = 0 /\ \A i \in 1 .. n : sum[i] = sum[i - 1] + lengths[i]
  BY <1>5
<1> DEFINE T == {i \in 0 .. n : sum[i] \in Nat}
<1>7. 0 \in T
  BY <1>6
<1>8. \A i \in 0 .. n - 1 : i \in T => i + 1 \in T
  <2> SUFFICES ASSUME NEW i \in 0 .. n - 1, sum[i] \in Nat PROVE sum[i + 1] \in Nat
    OBVIOUS
  <2> DEFINE j == i + 1
  <2>1. j \in 1 .. n /\ j - 1 = i
    OBVIOUS
  <2>2. sum[j] = sum[j - 1] + lengths[j]
    BY <1>6, <2>1
  <2>3. lengths[j] \in Nat
    BY <2>1
  <2> HIDE DEF j
  <2>4. sum[j] \in Nat
    BY <2>1, <2>2, <2>3
  <2> QED  BY <2>4 DEF j
<1> HIDE DEF T
<1>9. 0 .. n \subseteq T
  BY <1>7, <1>8, UpTo, Zenon
<1>10. n \in T
  BY <1>9
<1> QED  BY <1>1, <1>10 DEF T

LEMMA SumOfNone ==
    ASSUME NEW lengths, Len(lengths) = 0
    PROVE  SumOf(lengths) = 0
<1> DEFINE Sums(f) == f = [i \in 0 .. 0 |-> IF i = 0 THEN 0 ELSE f[i - 1] + lengths[i]]
           sum == CHOOSE f : Sums(f)
<1>1. SumOf(lengths) = sum[0]
  <2>1. SumOf(lengths) = (CHOOSE f : f = [i \in 0 .. Len(lengths) |->
                              IF i = 0 THEN 0 ELSE f[i - 1] + lengths[i]])[Len(lengths)]
    BY Zenon DEF SumOf
  <2> QED  BY <2>1, Zenon
<1>2. Sums([i \in 0 .. 0 |-> 0])
  OBVIOUS
<1>3. Sums(sum)
  BY <1>2, Zenon
<1>4. sum = [i \in 0 .. 0 |-> IF i = 0 THEN 0 ELSE sum[i - 1] + lengths[i]]
  BY <1>3, Zenon
<1> HIDE DEF sum
<1>5. sum[0] = 0
  BY <1>4
<1> QED  BY <1>1, <1>5

(* The places in a packet: each SRD header after the one before, and the   *)
(* data after them all, within the packet if it came whole.                *)
LEMMA PlaceFacts ==
    ASSUME NEW p, IsPacket(p)
    PROVE  /\ p.csrc \in Nat /\ p.ext \in Nat \cup {-1} /\ p.pad \in BOOLEAN /\ p.lost \in Nat
           /\ Len(p.srds) \in Nat /\ Len(p.srds) > 0 /\ p # Blank
           /\ Start(p) \in Nat /\ Start(p) >= FixedHeader
           /\ \A s \in Nat : SrdPlace(p, s) = Start(p) + 1 + 3 * s
           /\ DataPlace(p) = Start(p) + 1 + 3 * Len(p.srds)
           /\ Size(p) \in Nat
           /\ p.lost = 0 => DataPlace(p) <= Size(p)
<1>1. /\ p.csrc \in Nat /\ p.ext \in Nat \cup {-1} /\ p.pad \in BOOLEAN /\ p.lost \in Nat
      /\ p.srds \in Seq([length : Nat, place : Nat]) /\ p.srds # << >> /\ Size(p) >= 0
  BY DEF IsPacket
<1>2. Len(p.srds) \in Nat /\ Len(p.srds) > 0
  BY <1>1, LenProperties, EmptySeq
<1>3. p # Blank
  BY <1>1 DEF Blank
<1>4. Start(p) \in Nat /\ Start(p) >= FixedHeader
  BY <1>1 DEF Start, FixedHeader, CsrcSize, ExtensionHeader, ExtensionWord
<1>5. \A s \in Nat : SrdPlace(p, s) = Start(p) + 1 + 3 * s
  BY <1>4 DEF SrdPlace, ExtendedSize, SrdSize
<1>6. DataPlace(p) = Start(p) + 1 + 3 * Len(p.srds)
  BY <1>2, <1>5 DEF DataPlace
<1>7. Preceding(p, Len(p.srds)) \in Nat
  <2> DEFINE n == Len(p.srds)
             lengths == [i \in 1 .. n |-> p.srds[i].length]
  <2>1. lengths \in [1 .. n -> Nat]
    <3>1. \A i \in 1 .. n : p.srds[i] \in [length : Nat, place : Nat]
      BY <1>1, ElementOfSeq
    <3> QED  BY <3>1
  <2>2. Len(lengths) = n
    <3>1. n \in Nat
      BY <1>2
    <3> HIDE DEF n, lengths
    <3> QED  BY <2>1, <3>1, FunctionIsSeq
  <2>3. n \in Nat
    BY <1>2
  <2> HIDE DEF n, lengths
  <2>4. SumOf(lengths) \in Nat
    BY <2>1, <2>2, <2>3, SumIsNat
  <2> QED  BY <2>4 DEF Preceding, n, lengths
<1>8. Size(p) \in Nat /\ (p.lost = 0 => DataPlace(p) <= Size(p))
  <2> DEFINE sum == Preceding(p, Len(p.srds))
  <2>1. Size(p) = DataPlace(p) + sum - p.lost /\ sum \in Nat /\ DataPlace(p) \in Nat
    BY <1>2, <1>4, <1>6, <1>7 DEF Size
  <2> HIDE DEF sum
  <2> QED  BY <1>1, <2>1
<1> QED  BY <1>1, <1>2, <1>3, <1>4, <1>5, <1>6, <1>8

-----------------------------------------------------------------------------
(* The walk, without its recursion: it reaches a header that is inside the *)
(* bound and that every header before it continued to.                     *)
HeaderPlace(base, s) == base + ExtendedSize + SrdSize * s

Fits(base, bound, s) == HeaderPlace(base, s) + SrdSize <= bound

Said(words, base, s) == Decode([i \in 1 .. SrdSize |-> words[HeaderPlace(base, s) + i - 1]])

Reached(words, base, bound) ==
    {s \in Segments : /\ Fits(base, bound, s)
                      /\ \A t \in 0 .. s - 1 : Said(words, base, t).more}

WalkOf(words, base, bound) ==
    LET reached == Reached(words, base, bound)
        last == MaxSegments - 1
    IN  [srds |-> [s \in 1 .. Cardinality(reached) |-> Said(words, base, s - 1)],
         overflowed |-> last \in reached /\ Said(words, base, last).more,
         unreadable |-> \E s \in reached : /\ s < last /\ Said(words, base, s).more
                                           /\ ~Fits(base, bound, s + 1)]

(* What is closed downwards is an interval from 0. *)
LEMMA ClosedBelow ==
    ASSUME NEW n \in Nat, NEW T, T \subseteq 0 .. n - 1,
           \A s \in T : \A t \in 0 .. s - 1 : t \in T
    PROVE  Cardinality(T) \in 0 .. n /\ T = 0 .. Cardinality(T) - 1
<1> DEFINE missed == {k \in 0 .. n : k \notin T}
<1>1. n \in missed /\ missed \subseteq Nat
  OBVIOUS
<1>2. PICK k \in missed : \A j \in missed : k <= j
  <2>1. missed # {}
    BY <1>1
  <2> HIDE DEF missed
  <2> QED  BY <1>1, <2>1, LeastNatural, Zenon
<1>3. k \in 0 .. n /\ k \notin T
  BY <1>2
<1>4. ASSUME NEW j \in 0 .. k - 1 PROVE j \in T
  <2>1. j \notin missed
    BY <1>2, <1>3
  <2>2. j \in 0 .. n
    BY <1>3
  <2> QED  BY <2>1, <2>2
<1>5. ASSUME NEW j \in T PROVE j \in 0 .. k - 1
  <2>1. j \in 0 .. n - 1
    OBVIOUS
  <2>2. SUFFICES ASSUME k <= j PROVE FALSE
    BY <1>3, <2>1
  <2>3. k # j
    BY <1>3
  <2>4. k \in 0 .. j - 1
    BY <1>3, <2>1, <2>2, <2>3
  <2> QED  BY <1>3, <2>4
<1>6. T = 0 .. k - 1
  BY <1>4, <1>5
<1>7. Cardinality(0 .. k - 1) = k
  <2>1. 0 \in Int /\ k - 1 \in Int
    BY <1>3
  <2>2. Cardinality(0 .. k - 1) = IF 0 > k - 1 THEN 0 ELSE k - 1 - 0 + 1
    BY <2>1, FS_Interval, Zenon
  <2> QED  BY <1>3, <2>2
<1> QED  BY <1>3, <1>6, <1>7

LEMMA ReachedFacts ==
    ASSUME NEW words, NEW base \in Nat, NEW bound \in Int,
           NEW k, k = Cardinality(Reached(words, base, bound))
    PROVE  /\ k \in 0 .. MaxSegments /\ Reached(words, base, bound) = 0 .. k - 1
           /\ \A s \in 0 .. k - 1 : Fits(base, bound, s)
<1> DEFINE T == Reached(words, base, bound)
<1>1. MaxSegments \in Nat /\ MaxSegments > 0
  BY ConstantFacts
<1>2. T \subseteq 0 .. MaxSegments - 1
  BY DEF Reached, Segments
<1>3. \A s \in T : \A t \in 0 .. s - 1 : t \in T
  <2> SUFFICES ASSUME NEW s \in T, NEW t \in 0 .. s - 1 PROVE t \in T
    OBVIOUS
  <2>1. s \in 0 .. MaxSegments - 1 /\ Fits(base, bound, s)
    BY <1>2 DEF Reached
  <2>2. \A j \in 0 .. s - 1 : Said(words, base, j).more
    BY DEF Reached
  <2>3. t \in Segments /\ \A j \in 0 .. t - 1 : j \in 0 .. s - 1
    BY <1>1, <2>1 DEF Segments
  <2>4. Fits(base, bound, t)
    BY <1>1, <2>1 DEF Fits, HeaderPlace, ExtendedSize, SrdSize
  <2> QED  BY <2>2, <2>3, <2>4 DEF Reached
<1> HIDE DEF T
<1>4. Cardinality(T) \in 0 .. MaxSegments /\ T = 0 .. Cardinality(T) - 1
  BY <1>1, <1>2, <1>3, ClosedBelow
<1>5. \A s \in T : Fits(base, bound, s)
  BY DEF T, Reached
<1> QED  BY <1>4, <1>5 DEF T

(* The code's loop, a header read where the last one continued, is that. *)
LEMMA WalkIs ==
    ASSUME NEW words, NEW base \in Nat, NEW bound \in Int
    PROVE  Walk(words, base, bound) = WalkOf(words, base, bound)
<1> DEFINE said == [s \in {n \in Segments : Fits(base, bound, n)} |-> Said(words, base, s)]
           Reads(f) == f = [s \in Segments |->
                               Fits(base, bound, s) /\ (s = 0 \/ (f[s - 1] /\ said[s - 1].more))]
           present == CHOOSE f : Reads(f)
           reached == Reached(words, base, bound)
<1>1. MaxSegments \in Nat /\ MaxSegments > 0 /\ Segments = 0 .. MaxSegments - 1
  BY ConstantFacts DEF Segments
<1>2. ASSUME NEW s \in Segments, s # 0, Fits(base, bound, s)
      PROVE  s - 1 \in Segments /\ said[s - 1] = Said(words, base, s - 1)
  <2>1. s - 1 \in Segments /\ Fits(base, bound, s - 1)
    BY <1>1, <1>2 DEF Fits, HeaderPlace, ExtendedSize, SrdSize
  <2> QED  BY <2>1
<1>3. ASSUME NEW s \in Segments
      PROVE  s \in reached <=> Fits(base, bound, s)
                               /\ (s = 0 \/ (s - 1 \in reached /\ said[s - 1].more))
  <2>1. CASE s = 0
    BY <1>1, <2>1 DEF Reached
  <2>2. CASE s # 0 /\ ~Fits(base, bound, s)
    BY <2>2 DEF Reached
  <2>3. CASE s # 0 /\ Fits(base, bound, s)
    <3>1. s - 1 \in Segments /\ said[s - 1] = Said(words, base, s - 1)
      BY <1>2, <2>3
    <3>2. Fits(base, bound, s - 1)
      BY <1>1, <2>3 DEF Fits, HeaderPlace, ExtendedSize, SrdSize
    <3>3. \A t : t \in 0 .. s - 1 <=> t \in 0 .. s - 1 - 1 \/ t = s - 1
      BY <1>1, <2>3
    <3> HIDE DEF said
    <3> QED  BY <2>3, <3>1, <3>2, <3>3 DEF Reached
  <2> QED  BY <2>1, <2>2, <2>3
<1> HIDE DEF reached, said
<1>4. Reads([s \in Segments |-> s \in reached])
  <2> DEFINE f == [s \in Segments |-> s \in reached]
  <2>1. ASSUME NEW s \in Segments
        PROVE  (s \in reached) = (Fits(base, bound, s) /\ (s = 0 \/ (f[s - 1] /\ said[s - 1].more)))
    <3>1. CASE s = 0
      BY <1>3, <3>1
    <3>2. CASE s # 0
      <4>1. s - 1 \in Segments
        BY <1>1, <3>2
      <4>2. f[s - 1] <=> s - 1 \in reached
        BY <4>1, Zenon
      <4> HIDE DEF f
      <4> QED  BY <1>3, <3>2, <4>2
    <3> QED  BY <3>1, <3>2
  <2> QED  BY <2>1, Zenon
<1>5. Reads(present)
  BY <1>4, Zenon
<1>6. present = [s \in Segments |->
                    Fits(base, bound, s) /\ (s = 0 \/ (present[s - 1] /\ said[s - 1].more))]
  BY <1>5, Zenon
<1>7. Walk(words, base, bound)
        = LET parsed == {s \in Segments : present[s]}
          IN  [srds |-> [s \in 1 .. Cardinality(parsed) |-> said[s - 1]],
               overflowed |-> Max(Segments) \in parsed /\ said[Max(Segments)].more,
               unreadable |-> \E s \in parsed : s < Max(Segments) /\ said[s].more
                                                 /\ ~Fits(base, bound, s + 1)]
  BY Zenon DEF Walk, said, Said, Fits, HeaderPlace
<1> HIDE DEF present
<1>8. \A s \in Segments : present[s] <=>
          Fits(base, bound, s) /\ (s = 0 \/ (present[s - 1] /\ said[s - 1].more))
  BY <1>6, Zenon
<1> DEFINE same == {s \in 0 .. MaxSegments - 1 : present[s] <=> s \in reached}
<1>9. \A s \in Segments : present[s] <=> s \in reached
  <2>1. 0 \in same
    BY <1>1, <1>3, <1>8
  <2>2. \A s \in 0 .. (MaxSegments - 1) - 1 : s \in same => s + 1 \in same
    <3> SUFFICES ASSUME NEW s \in 0 .. (MaxSegments - 1) - 1, present[s] <=> s \in reached
                 PROVE  s + 1 \in same
      OBVIOUS
    <3> DEFINE t == s + 1
    <3>1. t \in Segments /\ t # 0 /\ t - 1 = s
      BY <1>1
    <3> HIDE DEF t
    <3>2. present[t] <=> t \in reached
      BY <1>3, <1>8, <3>1
    <3> QED  BY <1>1, <3>1, <3>2 DEF t
  <2> HIDE DEF same
  <2>3. MaxSegments - 1 \in Nat
    BY <1>1
  <2>4. 0 .. MaxSegments - 1 \subseteq same
    BY <2>1, <2>2, <2>3, UpTo
  <2> QED  BY <1>1, <2>4 DEF same
<1>10. {s \in Segments : present[s]} = reached
  <2>1. reached \subseteq Segments
    BY DEF reached, Reached
  <2> QED  BY <1>9, <2>1, Zenon
<1> DEFINE k == Cardinality(reached)
<1>11. k \in 0 .. MaxSegments /\ reached = 0 .. k - 1 /\ \A s \in 0 .. k - 1 : Fits(base, bound, s)
  BY ReachedFacts DEF reached
<1>12. \A s \in reached : said[s] = Said(words, base, s)
  BY <1>1, <1>11 DEF said
<1> HIDE DEF k
<1>13. [s \in 1 .. k |-> said[s - 1]] = [s \in 1 .. k |-> Said(words, base, s - 1)]
  <2>1. \A s \in 1 .. k : s - 1 \in reached
    BY <1>11
  <2> QED  BY <1>12, <2>1
<1>14. Max(Segments) = MaxSegments - 1
  BY LastSegment
<1>15. (\E s \in reached : s < MaxSegments - 1 /\ said[s].more /\ ~Fits(base, bound, s + 1))
        <=> (\E s \in reached : s < MaxSegments - 1 /\ Said(words, base, s).more /\ ~Fits(base, bound, s + 1))
  BY <1>12, Zenon
<1>16. (MaxSegments - 1 \in reached /\ said[MaxSegments - 1].more)
        <=> (MaxSegments - 1 \in reached /\ Said(words, base, MaxSegments - 1).more)
  BY <1>12, Zenon
<1>17. Walk(words, base, bound)
        = [srds |-> [s \in 1 .. k |-> said[s - 1]],
           overflowed |-> MaxSegments - 1 \in reached /\ said[MaxSegments - 1].more,
           unreadable |-> \E s \in reached : s < MaxSegments - 1 /\ said[s].more
                                             /\ ~Fits(base, bound, s + 1)]
  BY <1>7, <1>10, <1>14, Zenon DEF k
<1>18. WalkOf(words, base, bound)
        = [srds |-> [s \in 1 .. k |-> Said(words, base, s - 1)],
           overflowed |-> MaxSegments - 1 \in reached /\ Said(words, base, MaxSegments - 1).more,
           unreadable |-> \E s \in reached : s < MaxSegments - 1 /\ Said(words, base, s).more
                                             /\ ~Fits(base, bound, s + 1)]
  BY Zenon DEF WalkOf, k, reached
<1> QED  BY <1>13, <1>15, <1>16, <1>17, <1>18, Zenon

-----------------------------------------------------------------------------
(* What the buffers keep of the packet last written to a row: every word   *)
(* of it they have a place for.  Beyond its end is what others left.       *)
Holds(row) ==
    LET p == packet[row]
    IN  /\ p \in Packets
        /\ \A i \in 0 .. cut - 1 : i < Size(p) => header[row][i] = Word(p, i)
        /\ \A i \in 0 .. Width - 1 : cut + i < Size(p) => payload[row][i] = Word(p, cut + i)

LEMMA BoundFacts ==
    ASSUME cut \in Cuts, NEW row, Holds(row), NEW p, p = packet[row]
    PROVE  /\ cut \in Nat /\ IsPacket(p) /\ Bound(row) \in Nat
           /\ Bound(row) = (IF Size(p) <= cut THEN Size(p) ELSE cut)
           /\ \A i \in Nat : i < Bound(row) => header[row][i] = Word(p, i)
<1>1. cut \in Nat /\ IsPacket(p)
  BY ConstantFacts DEF Holds
<1>2. Size(p) \in Nat
  BY <1>1, PlaceFacts
<1>3. Bound(row) = IF Size(p) <= cut THEN Size(p) ELSE cut
  BY <1>1, <1>2, MinOfTwo DEF Bound
<1>4. ASSUME NEW i \in Nat, i < Bound(row) PROVE header[row][i] = Word(p, i)
  <2>1. i \in 0 .. cut - 1 /\ i < Size(p)
    BY <1>1, <1>2, <1>3, <1>4
  <2> QED  BY <2>1 DEF Holds
<1> QED  BY <1>1, <1>2, <1>3, <1>4

(* No word of a packet is a zero the receiver never wrote. *)
LEMMA NotZero ==
    ASSUME NEW p, IsPacket(p), NEW i
    PROVE  Word(p, i) # Zero /\ Word(p, i).of = p
<1>1. p # Blank
  BY PlaceFacts
<1>2. Word(p, i).of = p /\ Zero.of = Blank
  BY DEF Word, Zero
<1> QED  BY <1>1, <1>2

(* The offset read: the sender's, or the end of the row where the list or  *)
(* the extension's length is beyond it.                                    *)
LEMMA OffsetIs ==
    ASSUME cut \in Cuts, NEW row, Holds(row), NEW p, p = packet[row], Bound(row) >= FixedHeader
    PROVE  OffsetOf(row, p.csrc, p.ext >= 0) = Min({Start(p), Bound(row)})
<1> DEFINE end == FixedHeader + CsrcSize * p.csrc
           b == Bound(row)
           words == IF end + 2 <= b THEN header[row][end + 1].of.ext ELSE 0
           there == end + (IF p.ext >= 0 THEN ExtensionHeader + ExtensionWord * words ELSE 0)
<1>1. /\ IsPacket(p) /\ b \in Nat /\ \A i \in Nat : i < b => header[row][i] = Word(p, i)
  BY BoundFacts
<1>2. p.csrc \in Nat /\ p.ext \in Nat \cup {-1} /\ Start(p) \in Nat
  BY <1>1, PlaceFacts
<1>3. end \in Nat
  BY <1>2 DEF FixedHeader, CsrcSize
<1>4. Start(p) = end + (IF p.ext >= 0 THEN ExtensionHeader + ExtensionWord * p.ext ELSE 0)
  BY DEF Start
<1>5. OffsetOf(row, p.csrc, p.ext >= 0) = Min({there, b})
  BY DEF OffsetOf
<1> HIDE DEF end, b
<1>6. CASE end + 2 <= b
  <2>1. header[row][end + 1] = Word(p, end + 1)
    BY <1>1, <1>3, <1>6
  <2>2. words = p.ext
    BY <1>6, <2>1 DEF Word
  <2>3. there = Start(p)
    BY <1>4, <2>2
  <2> QED  BY <1>5, <2>3 DEF b
<1>7. CASE ~(end + 2 <= b) /\ p.ext >= 0
  <2>1. there \in Nat /\ there > b /\ Start(p) > b
    BY <1>1, <1>2, <1>3, <1>4, <1>7 DEF ExtensionHeader, ExtensionWord
  <2> HIDE DEF there
  <2>2. Min({there, b}) = b /\ Min({Start(p), b}) = b
    BY <1>1, <1>2, <2>1, MinOfTwo
  <2> QED  BY <1>5, <2>2 DEF b
<1>8. CASE ~(p.ext >= 0)
  <2>1. there = end + 0 /\ Start(p) = end + 0
    BY <1>4, <1>8
  <2> QED  BY <1>5, <2>1 DEF b
<1> QED  BY <1>6, <1>7, <1>8

(* What the general parse makes of a row that holds its packet. *)
LEMMA FieldsAreTrue ==
    ASSUME cut \in Cuts, NEW row, Holds(row), NEW p, p = packet[row]
    PROVE  Fields(row) = IF Bound(row) < FixedHeader THEN NoFields(Bound(row))
                         ELSE TrueFields(p, Bound(row))
<1>1. /\ IsPacket(p) /\ Bound(row) \in Nat
      /\ \A i \in Nat : i < Bound(row) => header[row][i] = Word(p, i)
  BY BoundFacts
<1>2. CASE Bound(row) < FixedHeader
  <2>1. \A i : Field(row, i) = Zero
    BY <1>1, <1>2 DEF Field, FixedHeader
  <2>2. Zero.of.csrc = 0 /\ Zero.of.ext = -1 /\ Zero.of.pad = FALSE
    BY DEF Zero, Word, Blank
  <2>3. OffsetOf(row, 0, FALSE) = Bound(row)
    <3>1. OffsetOf(row, 0, FALSE) = Min({FixedHeader + CsrcSize * 0 + 0, Bound(row)})
      BY DEF OffsetOf
    <3>2. FixedHeader + CsrcSize * 0 + 0 = 6
      BY DEF FixedHeader, CsrcSize
    <3>3. Min({6, Bound(row)}) = Bound(row)
      <4>1. 6 \in Int /\ Bound(row) \in Int /\ ~(6 <= Bound(row))
        BY <1>1, <1>2 DEF FixedHeader
      <4> QED  BY <4>1, MinOfTwo
    <3> QED  BY <3>1, <3>2, <3>3
  <2>4. (Zero.of.ext >= 0) = FALSE
    BY <2>2
  <2>5. OffsetOf(row, Zero.of.csrc, Zero.of.ext >= 0) = Bound(row)
    BY <2>2, <2>3, <2>4
  <2> DEFINE b == Bound(row)
             o == OffsetOf(row, Zero.of.csrc, Zero.of.ext >= 0)
  <2>7. /\ Field(row, 0) = Zero /\ Field(row, 1) = Zero /\ Field(row, 2) = Zero
        /\ Field(row, 3) = Zero /\ Field(row, 4) = Zero /\ Field(row, 5) = Zero
    BY <2>1, Zenon
  <2>8. Fields(row) = [version |-> IF Zero = Zero THEN 0 ELSE 2, padding |-> Zero.of.pad,
                       extension |-> Zero.of.ext >= 0, csrc |-> Zero.of.csrc, type |-> Zero,
                       sequence |-> Zero, timestamp |-> <<Zero, Zero>>, ssrc |-> <<Zero, Zero>>,
                       payload_offset |-> o]
    BY <2>7, Zenon DEF Fields
  <2>9. Fields(row) = [version |-> 0, padding |-> FALSE, extension |-> FALSE, csrc |-> 0,
                       type |-> Zero, sequence |-> Zero, timestamp |-> <<Zero, Zero>>,
                       ssrc |-> <<Zero, Zero>>, payload_offset |-> b]
    BY <2>2, <2>4, <2>5, <2>8, Zenon
  <2>6. Fields(row) = NoFields(Bound(row))
    BY <2>9, Zenon DEF NoFields
  <2> QED  BY <1>2, <2>6
<1>3. CASE Bound(row) >= FixedHeader
  <2>1. \A i \in 0 .. 5 : Field(row, i) = Word(p, i)
    BY <1>1, <1>3 DEF Field, FixedHeader
  <2>2. /\ Field(row, 0) = Word(p, 0) /\ Field(row, 1) = Word(p, 1) /\ Field(row, 2) = Word(p, 2)
        /\ Field(row, 3) = Word(p, 3) /\ Field(row, 4) = Word(p, 4) /\ Field(row, 5) = Word(p, 5)
    BY <2>1
  <2>3. Word(p, 0) # Zero /\ Word(p, 0).of = p
    BY <1>1, NotZero
  <2>4. OffsetOf(row, p.csrc, p.ext >= 0) = Min({Start(p), Bound(row)})
    BY <1>3, OffsetIs
  <2>5. Fields(row) = TrueFields(p, Bound(row))
    BY <2>2, <2>3, <2>4 DEF Fields, TrueFields
  <2>6. ~(Bound(row) < FixedHeader)
    BY <1>1, <1>3 DEF FixedHeader
  <2> QED  BY <2>5, <2>6
<1> QED  BY <1>1, <1>2, <1>3 DEF FixedHeader

(* A row the columns may be read from is one the general parse reads the   *)
(* same.                                                                   *)
LEMMA ColumnsAreFields ==
    ASSUME cut \in Cuts, NEW row, Holds(row), IsPlain(row)
    PROVE  ColumnFields(row) = Fields(row)
<1> DEFINE p == packet[row]
           b == Bound(row)
<1>1. /\ IsPacket(p) /\ b \in Nat /\ \A i \in Nat : i < b => header[row][i] = Word(p, i)
  BY BoundFacts
<1>2. b >= FixedHeader
  BY DEF IsPlain
<1> HIDE DEF p, b
<1>3. \A i \in 0 .. 5 : header[row][i] = Word(p, i)
  BY <1>1, <1>2 DEF FixedHeader
<1>4. /\ header[row][0] = Word(p, 0) /\ header[row][1] = Word(p, 1) /\ header[row][2] = Word(p, 2)
      /\ header[row][3] = Word(p, 3) /\ header[row][4] = Word(p, 4) /\ header[row][5] = Word(p, 5)
  BY <1>3
<1>5. Word(p, 0).of = p
  BY <1>1, NotZero
<1>6. p.csrc = 0 /\ p.ext = -1 /\ ~p.pad
  BY <1>4, <1>5 DEF IsPlain
<1>7. p.pad \in BOOLEAN
  BY <1>1, PlaceFacts
<1>8. Min({Start(p), b}) = FixedHeader
  <2>1. Start(p) = 6
    BY <1>6 DEF Start, FixedHeader, CsrcSize
  <2>2. 6 \in Int /\ b \in Int /\ 6 <= b
    BY <1>1, <1>2 DEF FixedHeader
  <2>3. Min({6, b}) = 6
    BY <2>2, MinOfTwo
  <2> QED  BY <2>1, <2>3 DEF FixedHeader
<1>9. Fields(row) = TrueFields(p, b)
  <2>1. ~(b < FixedHeader)
    BY <1>1, <1>2 DEF FixedHeader
  <2> QED  BY <2>1, FieldsAreTrue DEF p, b
<1>10. TrueFields(p, b) = ColumnFields(row)
  <2>1. (p.ext >= 0) = FALSE /\ p.pad = FALSE
    BY <1>6, <1>7
  <2> QED  BY <1>4, <1>6, <1>8, <2>1 DEF TrueFields, ColumnFields
<1> QED  BY <1>9, <1>10

LEMMA ParseRtpIs ==
    ASSUME cut \in Cuts, NEW rows, \A row \in rows : Holds(row)
    PROVE  ParseRtp(rows) = [row \in rows |-> Fields(row)]
<1>1. CASE \A row \in rows : IsPlain(row)
  <2>1. \A row \in rows : ColumnFields(row) = Fields(row)
    BY <1>1, ColumnsAreFields
  <2> QED  BY <1>1, <2>1 DEF ParseRtp
<1>2. CASE ~\A row \in rows : IsPlain(row)
  BY <1>2 DEF ParseRtp
<1> QED  BY <1>1, <1>2

(* Where the payload header is looked for. *)
LEMMA PayloadOffsetIs ==
    ASSUME cut \in Cuts, \A row \in Rows : Holds(row), fixed = ParseRtp(Rows),
           NEW row \in Rows, NEW p, p = packet[row]
    PROVE  /\ PayloadOffset(row) = (IF Start(p) <= Bound(row) THEN Start(p) ELSE Bound(row))
           /\ PayloadOffset(row) \in Nat /\ PayloadOffset(row) <= Bound(row)
<1>1. IsPacket(p) /\ Bound(row) \in Nat
  BY BoundFacts
<1>2. Start(p) \in Nat /\ Start(p) >= FixedHeader
  BY <1>1, PlaceFacts
<1>3. fixed[row] = Fields(row)
  BY ParseRtpIs
<1>4. PayloadOffset(row) = IF Bound(row) < FixedHeader THEN Bound(row) ELSE Min({Start(p), Bound(row)})
  BY <1>3, FieldsAreTrue DEF PayloadOffset, NoFields, TrueFields
<1>5. Min({Start(p), Bound(row)}) = IF Start(p) <= Bound(row) THEN Start(p) ELSE Bound(row)
  BY <1>1, <1>2, MinOfTwo
<1> QED  BY <1>1, <1>2, <1>4, <1>5 DEF FixedHeader

-----------------------------------------------------------------------------
(* An SRD header of a packet, read where it is, says what the sender put   *)
(* there: no other of its headers is at that place.                        *)
LEMMA DecodeIs ==
    ASSUME NEW p, IsPacket(p), NEW s \in 0 .. Len(p.srds) - 1,
           NEW words, words = [i \in 1 .. SrdSize |-> Word(p, SrdPlace(p, s) + i - 1)]
    PROVE  Decode(words) = Says(p, s)
<1> DEFINE n == Len(p.srds)
           Is(t) == words = [i \in 1 .. SrdSize |-> Word(p, SrdPlace(p, t) + i - 1)]
<1>1. n \in Nat /\ Start(p) \in Nat /\ \A t \in Nat : SrdPlace(p, t) = Start(p) + 1 + 3 * t
  BY PlaceFacts
<1>2. words[1].of = p
  BY DEF Word, SrdSize
<1>3. ASSUME NEW t \in 0 .. n - 1, Is(t) PROVE t = s
  <2> DEFINE a == SrdPlace(p, s)
             b == SrdPlace(p, t)
  <2>1. s \in Nat /\ t \in Nat
    BY <1>1
  <2>2. a = Start(p) + 1 + 3 * s /\ b = Start(p) + 1 + 3 * t
    BY <1>1, <2>1
  <2>3. words[1] = Word(p, a + 1 - 1)
    BY DEF SrdSize
  <2>4. words[1] = Word(p, b + 1 - 1)
    BY <1>3 DEF SrdSize
  <2> HIDE DEF a, b
  <2>8. Start(p) \in Int
    BY <1>1
  <2>6. a \in Int /\ b \in Int /\ Start(p) \in Int
    BY ONLY <2>1, <2>2, <2>8
  <2>5. a + 1 - 1 = b + 1 - 1
    BY <2>3, <2>4 DEF Word
  <2>7. a = b
    BY ONLY <2>5, <2>6
  <2> QED  BY ONLY <2>1, <2>2, <2>6, <2>7
<1>4. (CHOOSE t \in 0 .. n - 1 : Is(t)) = s
  <2>1. Is(s) /\ s \in 0 .. n - 1
    OBVIOUS
  <2> HIDE DEF Is, n
  <2> QED  BY <1>3, <2>1
<1>5. \E t \in 0 .. n - 1 : Is(t)
  OBVIOUS
<1>6. Decode(words) = Says(p, CHOOSE t \in 0 .. n - 1 : Is(t))
  <2>1. Decode(words) = LET q == words[1].of
                            is(t) == words = [i \in 1 .. SrdSize |-> Word(q, SrdPlace(q, t) + i - 1)]
                        IN IF \E t \in 0 .. Len(q.srds) - 1 : is(t)
                           THEN Says(q, CHOOSE t \in 0 .. Len(q.srds) - 1 : is(t))
                           ELSE IF words = <<Zero, Zero, Zero>>
                                THEN [length |-> 0, place |-> 0, more |-> FALSE]
                                ELSE [length |-> 1, place |-> 0, more |-> TRUE]
    BY Zenon DEF Decode
  <2> QED  BY <1>2, <1>5, <2>1, Zenon
<1> QED  BY <1>4, <1>6, Zenon

(* The walk over a packet whose words are all there up to `held`: it reads *)
(* what the sender declared, or stops where the bound or the words do.     *)
Short(p, held) ==
    \E s \in 1 .. Len(p.srds) - 1 : s < MaxSegments /\ SrdPlace(p, s + 1) > held

Faithful(words, base, bound, p, held) ==
    \A s \in Segments : s < Len(p.srds) =>
        /\ Fits(base, bound, s) <=> SrdPlace(p, s + 1) <= held
        /\ Fits(base, bound, s) =>
              \A i \in 1 .. SrdSize :
                  words[HeaderPlace(base, s) + i - 1] = Word(p, SrdPlace(p, s) + i - 1)

LEMMA FitsBelow ==
    ASSUME NEW base \in Int, NEW bound \in Int, NEW s \in Int, NEW t \in Int, t <= s,
           Fits(base, bound, s)
    PROVE  Fits(base, bound, t)
  BY DEF Fits, HeaderPlace, ExtendedSize, SrdSize

LEMMA WalkOver ==
    ASSUME NEW words, NEW base \in Nat, NEW bound \in Int, NEW p, IsPacket(p), NEW held \in Int,
           Faithful(words, base, bound, p, held), Fits(base, bound, 0),
           NEW walk, walk = WalkOf(words, base, bound)
    PROVE  /\ walk.unreadable <=> Short(p, held)
           /\ walk.overflowed <=> ~Short(p, held) /\ Len(p.srds) > MaxSegments
           /\ ~Short(p, held) /\ Len(p.srds) <= MaxSegments =>
                  walk.srds = [s \in 1 .. Len(p.srds) |-> Says(p, s - 1)]
<1> DEFINE n == Len(p.srds)
           last == MaxSegments - 1
           reached == Reached(words, base, bound)
           k == Cardinality(reached)
<1>1. MaxSegments \in Nat /\ MaxSegments > 0 /\ Segments = 0 .. MaxSegments - 1
  BY ConstantFacts DEF Segments
<1>2. n \in Nat /\ n > 0 /\ Start(p) \in Nat /\ \A s \in Nat : SrdPlace(p, s) = Start(p) + 1 + 3 * s
  BY PlaceFacts
<1>3. k \in 0 .. MaxSegments /\ reached = 0 .. k - 1 /\ \A s \in 0 .. k - 1 : Fits(base, bound, s)
  BY ReachedFacts
<1>4. /\ walk.srds = [s \in 1 .. k |-> Said(words, base, s - 1)]
      /\ walk.overflowed <=> last \in reached /\ Said(words, base, last).more
      /\ walk.unreadable <=> \E s \in reached : /\ s < last /\ Said(words, base, s).more
                                                /\ ~Fits(base, bound, s + 1)
  BY DEF WalkOf
<1> HIDE DEF n
<1>5. ASSUME NEW s \in Segments, s < n, Fits(base, bound, s)
      PROVE  Said(words, base, s) = Says(p, s) /\ (Said(words, base, s).more <=> s + 1 < n)
  <2> DEFINE w == [i \in 1 .. SrdSize |-> words[HeaderPlace(base, s) + i - 1]]
  <2>1. w = [i \in 1 .. SrdSize |-> Word(p, SrdPlace(p, s) + i - 1)]
    BY <1>5 DEF Faithful, n
  <2>2. s \in 0 .. n - 1
    BY ONLY <1>1, <1>2, <1>5
  <2>3. Decode(w) = Says(p, s)
    BY <2>1, <2>2, DecodeIs DEF n
  <2>4. Said(words, base, s) = Says(p, s)
    BY <2>3 DEF Said
  <2>5. Says(p, s).more = (s + 1 < n)
    BY DEF Says, n
  <2> QED  BY <2>4, <2>5, Zenon
<1>6. \A s \in Segments : s < n => (Fits(base, bound, s) <=> SrdPlace(p, s + 1) <= held)
  BY DEF Faithful, n
<1>7. \A s \in Segments : s \in reached <=>
          Fits(base, bound, s) /\ \A t \in 0 .. s - 1 : Said(words, base, t).more
  BY DEF Reached
<1>20. \A s \in 0 .. n : SrdPlace(p, s) \in Int
  BY <1>2
<1>21. n \in Int
  BY <1>2
<1> HIDE DEF reached, k
<1>8. CASE Short(p, held)
  <2>1. PICK s \in 1 .. n - 1 : s < MaxSegments /\ SrdPlace(p, s + 1) > held
    BY <1>8 DEF Short, n
  <2>2. s \in Segments /\ s < n /\ ~Fits(base, bound, s)
    <3>1. s \in Segments /\ s < n /\ s + 1 \in 0 .. n
      BY <1>1, <1>2, <2>1
    <3> QED  BY <1>6, <1>20, <2>1, <3>1
  <2>3. 0 \in reached
    BY <1>1, <1>7
  <2>4. k >= 1 /\ k <= s
    BY <1>1, <1>3, <1>7, <2>1, <2>2, <2>3
  <2>5. k \in Segments /\ k < n /\ k \notin reached
    <3>1. k \in Int /\ k <= s /\ s \in Int /\ s <= n - 1 /\ s < MaxSegments /\ k >= 1
      BY <1>2, <1>3, <2>1, <2>4
    <3>2. k \in Segments /\ k < n
      BY ONLY <1>1, <1>21, <3>1
    <3>3. k \notin 0 .. k - 1
      BY <3>1
    <3> QED  BY <1>3, <3>2, <3>3, Zenon
  <2>6. \A t \in 0 .. k - 1 : Said(words, base, t).more
    <3> SUFFICES ASSUME NEW t \in 0 .. k - 1 PROVE Said(words, base, t).more
      OBVIOUS
    <3>1. t \in Segments /\ t < n /\ t + 1 < n
      <4>1. t \in 0 .. k - 1 /\ k \in 0 .. MaxSegments - 1 /\ k < n
        BY <1>1, <2>5
      <4> HIDE DEF k, n
      <4>2. k \in Int /\ k <= MaxSegments - 1 /\ t \in Int /\ t >= 0 /\ t <= k - 1
        BY ONLY <1>1, <4>1
      <4>3. t \in 0 .. MaxSegments - 1
        BY ONLY <1>1, <4>2
      <4>4. t < n /\ t + 1 < n
        BY ONLY <1>21, <4>1, <4>2
      <4> QED  BY <1>1, <4>3, <4>4
    <3>2. Fits(base, bound, t)
      BY <1>3
    <3> QED  BY <1>5, <3>1, <3>2
  <2>7. ~Fits(base, bound, k)
    BY <1>7, <2>5, <2>6
  <2>8. k - 1 \in reached /\ k - 1 < last /\ (k - 1) + 1 = k /\ k - 1 \in 0 .. k - 1
    BY <1>1, <1>3, <2>4, <2>5
  <2>9. walk.unreadable
    BY <1>4, <2>6, <2>7, <2>8
  <2>10. ~walk.overflowed
    <3>1. last \notin reached
      BY <1>1, <1>3, <2>5
    <3> QED  BY <1>4, <3>1
  <2> QED  BY <1>8, <2>9, <2>10
<1>9. CASE ~Short(p, held)
  <2>1. \A s \in Segments : s < n => Fits(base, bound, s)
    <3> SUFFICES ASSUME NEW s \in Segments, s < n PROVE Fits(base, bound, s)
      OBVIOUS
    <3>1. CASE s = 0
      BY <3>1
    <3>2. CASE s # 0
      <4>1. s \in 1 .. n - 1 /\ s < MaxSegments /\ s + 1 \in 0 .. n
        BY <1>1, <1>2, <3>2
      <4>2. SrdPlace(p, s + 1) <= held
        BY <1>9, <1>20, <4>1 DEF Short, n
      <4> QED  BY <1>6, <4>2
    <3> QED  BY <3>1, <3>2
  <2>2. \A s \in Segments : s < n => Said(words, base, s) = Says(p, s)
                                     /\ (Said(words, base, s).more <=> s + 1 < n)
    BY <1>5, <2>1
  <2>3. \A s \in Segments : s \in reached <=> s < n
    <3> SUFFICES ASSUME NEW s \in Segments PROVE s \in reached <=> s < n
      OBVIOUS
    <3>1. CASE s < n
      <4>1. \A t \in 0 .. s - 1 : t \in Segments /\ t < n /\ t + 1 < n
        BY <1>1, <1>2, <3>1
      <4> QED  BY <1>7, <2>1, <2>2, <3>1, <4>1
    <3>2. CASE ~(s < n)
      <4>1. n - 1 \in Segments /\ n - 1 < n /\ ~((n - 1) + 1 < n) /\ n - 1 \in 0 .. s - 1
        BY <1>1, <1>2, <3>2
      <4>2. ~Said(words, base, n - 1).more
        BY <2>2, <4>1
      <4> QED  BY <1>7, <3>2, <4>1, <4>2
    <3> QED  BY <3>1, <3>2
  <2>4. last \in Segments
    BY <1>1
  <2>5. walk.overflowed <=> n > MaxSegments
    <3>1. last \in reached => last < n
      BY <2>3, <2>4
    <3>2. last < n => last \in reached /\ (Said(words, base, last).more <=> last + 1 < n)
      BY <2>2, <2>3, <2>4
    <3>3. last + 1 < n <=> n > MaxSegments
      BY <1>1, <1>2
    <3>4. n > MaxSegments => last < n
      BY <1>1, <1>2
    <3> QED  BY <1>4, <3>1, <3>2, <3>3, <3>4
  <2>6. ~walk.unreadable
    <3> SUFFICES ASSUME NEW s \in reached, s < last, Said(words, base, s).more,
                        ~Fits(base, bound, s + 1)
                 PROVE  FALSE
      BY <1>4
    <3>1. s \in Segments
      BY <1>1, <1>3
    <3>2. s < n
      BY <2>3, <3>1
    <3>3. s + 1 < n
      BY <2>2, <3>1, <3>2
    <3>4. s + 1 \in Segments
      BY <1>1, <3>1
    <3> QED  BY <2>1, <3>3, <3>4
  <2>7. ASSUME n <= MaxSegments PROVE walk.srds = [s \in 1 .. n |-> Says(p, s - 1)]
    <3>1. k = n
      <4>1. \A s \in 0 .. MaxSegments - 1 : s < k <=> s < n
        BY <1>1, <1>3, <2>3
      <4>2. k \in 0 .. MaxSegments /\ n \in 0 .. MaxSegments
        BY <1>2, <1>3, <2>7
      <4>3. ~(k < n)
        BY <1>1, <4>1, <4>2
      <4>4. ~(n < k)
        BY <1>1, <4>1, <4>2
      <4> QED  BY <4>2, <4>3, <4>4
    <3>2. \A s \in 1 .. n : s - 1 \in Segments /\ s - 1 < n
      BY <1>1, <1>2, <2>7
    <3>3. \A s \in 1 .. n : Said(words, base, s - 1) = Says(p, s - 1)
      BY <2>2, <3>2
    <3> QED  BY <1>4, <3>1, <3>3
  <2> QED  BY <1>9, <2>5, <2>6, <2>7 DEF n
<1> QED  BY <1>8, <1>9

-----------------------------------------------------------------------------
(* A chunk the parse may be called with: each row holds its packet, and    *)
(* the fixed fields are the chunk's own.                                   *)
Loaded ==
    /\ cut \in Cuts
    /\ \A row \in Rows : Holds(row)
    /\ fixed = ParseRtp(Rows)

LEMMA RowFacts ==
    ASSUME Loaded, NEW row \in Rows, NEW p, p = packet[row],
           NEW b, b = Bound(row), NEW offset, offset = PayloadOffset(row)
    PROVE  /\ cut \in Nat /\ IsPacket(p) /\ b \in Nat /\ Size(p) \in Nat
           /\ b = (IF Size(p) <= cut THEN Size(p) ELSE cut)
           /\ \A i \in Nat : i < b => header[row][i] = Word(p, i)
           /\ offset = (IF Start(p) <= b THEN Start(p) ELSE b)
           /\ offset \in Nat /\ offset <= b /\ Start(p) \in Nat
<1>1. cut \in Cuts /\ Holds(row) /\ fixed = ParseRtp(Rows) /\ \A r \in Rows : Holds(r)
  BY DEF Loaded
<1>2. /\ cut \in Nat /\ IsPacket(p) /\ b \in Nat /\ b = (IF Size(p) <= cut THEN Size(p) ELSE cut)
      /\ \A i \in Nat : i < b => header[row][i] = Word(p, i)
  BY <1>1, BoundFacts
<1>3. offset = (IF Start(p) <= b THEN Start(p) ELSE b) /\ offset \in Nat /\ offset <= b
  BY <1>1, PayloadOffsetIs
<1>4. Start(p) \in Nat /\ Size(p) \in Nat
  BY <1>2, PlaceFacts
<1> QED  BY <1>2, <1>3, <1>4

(* Clipping to the span of the window. *)
LEMMA ClippedIs ==
    ASSUME NEW n \in Int
    PROVE  /\ Span = 1 + 3 * MaxSegments /\ Span \in Nat
           /\ Clipped(n) = (IF n < 0 THEN 0 ELSE IF n <= Span THEN n ELSE Span)
<1>1. MaxSegments \in Nat
  BY ConstantFacts
<1>2. Span = 1 + 3 * MaxSegments /\ Span \in Nat
  BY <1>1 DEF Span, ExtendedSize, SrdSize
<1> DEFINE m == Min({n, Span})
<1>3. m = IF n <= Span THEN n ELSE Span
  BY <1>2, MinOfTwo
<1> HIDE DEF m
<1>4. m \in Int
  BY <1>2, <1>3
<1>5. Max({0, m}) = IF 0 <= m THEN m ELSE 0
  <2>1. 0 \in Int
    OBVIOUS
  <2>2. Max({0, m}) = IF 0 >= m THEN 0 ELSE m
    BY <1>4, <2>1, MaxOfTwo
  <2> QED  BY <1>4, <2>2
<1>6. Clipped(n) = Max({0, m})
  BY DEF Clipped, m
<1> QED  BY <1>2, <1>3, <1>4, <1>5, <1>6

(* One offset and one head, or each row's own: the window is the same.     *)
LEMMA WindowIs ==
    ASSUME Loaded, NEW crossing, crossing \subseteq Rows, NEW row \in crossing
    PROVE  Window(row, crossing) = Gathered(row)
<1> DEFINE p == packet[row]
           b == Bound(row)
           o == PayloadOffset(row)
           k == Keep(row)
<1>0. row \in Rows
  OBVIOUS
<1>1. b \in Nat /\ o \in Nat /\ o <= b
  BY <1>0, RowFacts
<1>2. Span \in Nat /\ k = IF b - o <= Span THEN b - o ELSE Span
  <2>1. b - o \in Int /\ ~(b - o < 0)
    BY <1>1
  <2>2. k = Clipped(b - o)
    BY DEF Keep
  <2> HIDE DEF b, o, k
  <2> QED  BY <2>1, <2>2, ClippedIs
<1>3. Sliced(row, o, k) = Gathered(row)
  <2>1. ASSUME NEW i \in 0 .. Span - 1
        PROVE  (IF i < k THEN header[row][o + i]
                ELSE IF i - k < Width THEN payload[row][i - k] ELSE Zero)
               = (IF (o + i) - b < 0 THEN header[row][o + i]
                  ELSE IF (o + i) - b < Width THEN payload[row][(o + i) - b] ELSE Zero)
    <3> HIDE DEF b, o, k
    <3>1. i < k <=> (o + i) - b < 0
      BY <1>1, <1>2
    <3>2. ~(i < k) => i - k = (o + i) - b
      BY <1>1, <1>2
    <3> QED  BY <3>1, <3>2, Zenon
  <2>2. Sliced(row, o, k) = [i \in 0 .. Span - 1 |->
                                IF i < k THEN header[row][o + i]
                                ELSE IF i - k < Width THEN payload[row][i - k] ELSE Zero]
    BY Zenon DEF Sliced
  <2>3. Gathered(row) = [i \in 0 .. Span - 1 |->
                            IF (o + i) - b < 0 THEN header[row][o + i]
                            ELSE IF (o + i) - b < Width THEN payload[row][(o + i) - b] ELSE Zero]
    BY Zenon DEF Gathered
  <2> HIDE DEF b, o, k
  <2> QED  BY <2>1, <2>2, <2>3, Zenon
<1> DEFINE first == Min(crossing)
<1>4. CASE \A r \in crossing : PayloadOffset(r) = PayloadOffset(first) /\ Keep(r) = Keep(first)
  <2>1. Window(row, crossing) = Sliced(row, PayloadOffset(first), Keep(first))
    BY <1>4, Zenon DEF Window
  <2>2. o = PayloadOffset(first) /\ k = Keep(first)
    BY <1>4, Zenon
  <2> HIDE DEF o, k, first
  <2> QED  BY <1>3, <2>1, <2>2, Zenon
<1>5. CASE ~\A r \in crossing : PayloadOffset(r) = PayloadOffset(first) /\ Keep(r) = Keep(first)
  BY <1>5, Zenon DEF Window
<1> QED  BY <1>4, <1>5, Zenon

(* What the general parse answers for one row is the row's own business.   *)
FirstWalk(row) == WalkOf(header[row], PayloadOffset(row), Bound(row))

Crosses(row, given) == given /\ FirstWalk(row).unreadable

WalkFor(row, given) ==
    IF Crosses(row, given) THEN WalkOf(Gathered(row), 0, Reach(row)) ELSE FirstWalk(row)

LEMMA ReachIs ==
    ASSUME Loaded, NEW row \in Rows, NEW b, b = Bound(row), NEW o, o = PayloadOffset(row)
    PROVE  Reach(row) \in Nat
           /\ Reach(row) = IF b + Width - o <= Span THEN b + Width - o ELSE Span
<1>1. b \in Nat /\ o \in Nat /\ o <= b /\ Width \in Nat
  BY RowFacts, ConstantFacts
<1>2. b + Width - o \in Int /\ ~(b + Width - o < 0)
  BY <1>1
<1>3. Reach(row) = Clipped(b + Width - o)
  BY DEF Reach
<1>4. Span \in Nat
  BY ClippedIs, <1>1
<1> DEFINE n == b + Width - o
<1>5. n \in Int /\ ~(n < 0) /\ Reach(row) = Clipped(n)
  BY <1>2, <1>3
<1> HIDE DEF n
<1>6. Reach(row) = IF n <= Span THEN n ELSE Span
  BY <1>5, ClippedIs
<1>7. Reach(row) \in Nat
  BY <1>4, <1>5, <1>6
<1> QED  BY <1>6, <1>7 DEF n

LEMMA GeneralIs ==
    ASSUME Loaded, NEW rows, rows \subseteq Rows, NEW given \in BOOLEAN
    PROVE  General(rows, given)
             = [row \in rows |-> Assemble(WalkFor(row, given), PayloadOffset(row), Extended(row))]
<1> DEFINE walks == [row \in rows |-> Walk(header[row], PayloadOffset(row), Bound(row))]
           crossing == {row \in rows : given /\ walks[row].unreadable}
<1>1. \A row \in rows : walks[row] = FirstWalk(row)
  <2> SUFFICES ASSUME NEW row \in rows PROVE walks[row] = FirstWalk(row)
    OBVIOUS
  <2>1. PayloadOffset(row) \in Nat /\ Bound(row) \in Int
    <3>1. row \in Rows
      OBVIOUS
    <3>2. PayloadOffset(row) \in Nat /\ Bound(row) \in Nat
      BY <3>1, RowFacts
    <3> QED  BY <3>2
  <2>2. walks[row] = Walk(header[row], PayloadOffset(row), Bound(row))
    BY Zenon
  <2> HIDE DEF walks
  <2> QED  BY <2>1, <2>2, WalkIs DEF FirstWalk
<1> HIDE DEF walks
<1>2. crossing \subseteq Rows /\ \A row \in rows : row \in crossing <=> Crosses(row, given)
  BY <1>1 DEF Crosses
<1> HIDE DEF crossing
<1>3. ASSUME NEW row \in rows
      PROVE  (IF row \in crossing THEN Walk(Window(row, crossing), 0, Reach(row)) ELSE walks[row])
             = WalkFor(row, given)
  <2>1. CASE row \in crossing
    <3>1. Window(row, crossing) = Gathered(row)
      BY <1>2, <2>1, WindowIs
    <3>2. Reach(row) \in Int /\ 0 \in Nat
      <4>1. row \in Rows
        OBVIOUS
      <4>2. Reach(row) \in Nat
        BY <4>1, ReachIs
      <4> QED  BY <4>2
    <3>3. Walk(Window(row, crossing), 0, Reach(row)) = WalkOf(Gathered(row), 0, Reach(row))
      BY <3>1, <3>2, WalkIs
    <3> QED  BY <1>2, <2>1, <3>3 DEF WalkFor
  <2>2. CASE row \notin crossing
    BY <1>1, <1>2, <2>2, Zenon DEF WalkFor
  <2> QED  BY <2>1, <2>2
<1>4. General(rows, given)
        = [row \in rows |->
              Assemble(IF row \in crossing THEN Walk(Window(row, crossing), 0, Reach(row))
                       ELSE walks[row],
                       PayloadOffset(row), Extended(row))]
  BY Zenon DEF General, crossing, walks
<1> QED  BY <1>3, <1>4, Zenon

-----------------------------------------------------------------------------
(* A chunk of one segment a packet, where the fixed header ends, walks to  *)
(* that segment and no further.                                            *)
LEMMA ConformingWalk ==
    ASSUME Loaded, NEW row \in Rows, Bound(row) >= ConformingSize,
           PayloadOffset(row) = FixedHeader, ~First(row).more
    PROVE  FirstWalk(row) = [srds |-> [s \in 1 .. 1 |-> First(row)],
                             overflowed |-> FALSE, unreadable |-> FALSE]
<1> DEFINE words == header[row]
           b == Bound(row)
           reached == Reached(words, 6, b)
           k == Cardinality(reached)
           last == MaxSegments - 1
<1>1. b \in Nat /\ b >= 10
  <2>1. b \in Nat
    BY RowFacts
  <2> QED  BY <2>1 DEF ConformingSize, FixedHeader, ExtendedSize, SrdSize
<1>2. Said(words, 6, 0) = First(row)
  <2>1. HeaderPlace(6, 0) = FixedHeader + ExtendedSize
    BY DEF HeaderPlace, FixedHeader, ExtendedSize, SrdSize
  <2> QED  BY <2>1, Zenon DEF Said, First
<1>3. MaxSegments \in Nat /\ MaxSegments > 0 /\ Segments = 0 .. MaxSegments - 1
  BY ConstantFacts DEF Segments
<1>4. FirstWalk(row) = WalkOf(words, 6, b)
  BY DEF FirstWalk, FixedHeader
<1>5. k \in 0 .. MaxSegments /\ reached = 0 .. k - 1
  BY <1>1, ReachedFacts
<1>6. 0 \in reached
  <2>1. Fits(6, b, 0)
    BY <1>1 DEF Fits, HeaderPlace, ExtendedSize, SrdSize
  <2>2. 0 \in Segments
    BY <1>3
  <2> QED  BY <2>1, <2>2 DEF Reached
<1>7. 1 \notin reached
  <2>1. 0 \in 0 .. 1 - 1 /\ ~Said(words, 6, 0).more
    BY <1>2
  <2> QED  BY <2>1 DEF Reached
<1> HIDE DEF reached
<1>8. k = 1
  <2> HIDE DEF k
  <2>1. k >= 1
    BY <1>5, <1>6
  <2>2. ~(k >= 2)
    BY <1>5, <1>7
  <2> QED  BY <1>5, <2>1, <2>2
<1>9. WalkOf(words, 6, b)
        = [srds |-> [s \in 1 .. k |-> Said(words, 6, s - 1)],
           overflowed |-> last \in reached /\ Said(words, 6, last).more,
           unreadable |-> \E s \in reached : /\ s < last /\ Said(words, 6, s).more
                                             /\ ~Fits(6, b, s + 1)]
  BY Zenon DEF WalkOf, reached, k, last
<1>10. \A s \in reached : ~Said(words, 6, s).more
  <2> SUFFICES ASSUME NEW s \in reached PROVE ~Said(words, 6, s).more
    OBVIOUS
  <2>1. s = 0
    BY <1>5, <1>8
  <2> QED  BY <1>2, <2>1
<1>11. (last \in reached /\ Said(words, 6, last).more) = FALSE
  BY <1>10, Zenon
<1>12. (\E s \in reached : s < last /\ Said(words, 6, s).more /\ ~Fits(6, b, s + 1)) = FALSE
  BY <1>10, Zenon
<1>13. [s \in 1 .. k |-> Said(words, 6, s - 1)] = [s \in 1 .. 1 |-> First(row)]
  <2>1. \A s \in 1 .. 1 : Said(words, 6, s - 1) = First(row)
    <3>1. \A s \in 1 .. 1 : s - 1 = 0
      OBVIOUS
    <3> QED  BY <1>2, <3>1
  <2> HIDE DEF k
  <2> QED  BY <1>8, <2>1, Zenon
<1> QED  BY <1>4, <1>9, <1>11, <1>12, <1>13, Zenon

LEMMA ColumnsAreGeneral ==
    ASSUME Loaded, NEW rows, rows \subseteq Rows, NEW given \in BOOLEAN, Conforms(rows)
    PROVE  Columns(rows) = General(rows, given)
<1>1. ASSUME NEW row \in rows
      PROVE  [descriptors |-> <<[srd |-> First(row), source |-> ConformingSize]>>,
              extended_sequence |-> header[row][FixedHeader],
              data_offset |-> ConformingSize, overflowed |-> FALSE, unreadable |-> FALSE]
             = Assemble(WalkFor(row, given), PayloadOffset(row), Extended(row))
  <2> DEFINE walk == FirstWalk(row)
             one == [s \in 1 .. 1 |-> First(row)]
             lengths == [s \in DOMAIN walk.srds |-> walk.srds[s].length]
             end == PayloadOffset(row) + ExtendedSize + SrdSize * Len(walk.srds)
  <2>1. /\ Bound(row) >= ConformingSize /\ PayloadOffset(row) = FixedHeader /\ ~First(row).more
    BY DEF Conforms
  <2>2. row \in Rows
    OBVIOUS
  <2>3. walk = [srds |-> one, overflowed |-> FALSE, unreadable |-> FALSE]
    BY <2>1, <2>2, ConformingWalk
  <2>4. WalkFor(row, given) = walk
    BY <2>3 DEF WalkFor, Crosses
  <2> HIDE DEF walk
  <2>5. walk.srds = one /\ ~walk.overflowed /\ ~walk.unreadable
        /\ walk.overflowed = FALSE /\ walk.unreadable = FALSE
    BY <2>3
  <2>6. Len(walk.srds) = 1
    <3>1. one = <<First(row)>>
      OBVIOUS
    <3> QED  BY <2>5, <3>1
  <2>7. end = ConformingSize
    BY <2>1, <2>6 DEF ConformingSize, FixedHeader, ExtendedSize, SrdSize
  <2>8. SumOf(SubSeq(lengths, 1, 0)) = 0
    <3>1. SubSeq(lengths, 1, 0) = << >>
      <4> HIDE DEF lengths
      <4> QED  BY SubSeqEmpty
    <3> DEFINE none == << >>
    <3>2. Len(none) = 0
      OBVIOUS
    <3>3. SumOf(none) = 0
      <4> HIDE DEF none
      <4> QED  BY <3>2, SumOfNone
    <3> QED  BY <3>1, <3>3, Zenon
  <2>9. Extended(row) = header[row][FixedHeader]
    <3>1. PayloadOffset(row) + ExtendedSize <= Bound(row)
      <4>1. Bound(row) \in Nat
        BY <2>2, RowFacts
      <4> QED  BY <2>1, <4>1 DEF ConformingSize, FixedHeader, ExtendedSize, SrdSize
    <3> QED  BY <2>1, <3>1 DEF Extended
  <2> HIDE DEF end, lengths
  <2>10. [s \in DOMAIN walk.srds |->
             [srd |-> walk.srds[s], source |-> end + SumOf(SubSeq(lengths, 1, s - 1))]]
           = <<[srd |-> First(row), source |-> ConformingSize]>>
    <3>1. DOMAIN walk.srds = 1 .. 1 /\ walk.srds[1] = First(row)
      BY <2>5
    <3>2. end + SumOf(SubSeq(lengths, 1, 1 - 1)) = ConformingSize
      <4>1. 1 - 1 = 0 /\ ConformingSize + 0 = ConformingSize
        BY DEF ConformingSize, FixedHeader, ExtendedSize, SrdSize
      <4> QED  BY <2>7, <2>8, <4>1
    <3> DEFINE source(s) == end + SumOf(SubSeq(lengths, 1, s - 1))
    <3>3. source(1) = ConformingSize
      BY <3>2
    <3> HIDE DEF source
    <3>4. [s \in DOMAIN walk.srds |-> [srd |-> walk.srds[s], source |-> source(s)]]
             = [s \in 1 .. 1 |-> [srd |-> First(row), source |-> ConformingSize]]
      BY <3>1, <3>3
    <3>5. [s \in 1 .. 1 |-> [srd |-> First(row), source |-> ConformingSize]]
             = <<[srd |-> First(row), source |-> ConformingSize]>>
      OBVIOUS
    <3> QED  BY <3>4, <3>5 DEF source
  <2>11. Assemble(walk, PayloadOffset(row), Extended(row))
           = [descriptors |-> IF walk.overflowed \/ walk.unreadable THEN << >>
                              ELSE [s \in DOMAIN walk.srds |->
                                    [srd |-> walk.srds[s],
                                     source |-> end + SumOf(SubSeq(lengths, 1, s - 1))]],
              extended_sequence |-> Extended(row), data_offset |-> end,
              overflowed |-> walk.overflowed, unreadable |-> walk.unreadable]
    BY Zenon DEF Assemble, end, lengths
  <2> QED  BY <2>4, <2>5, <2>7, <2>9, <2>10, <2>11, Zenon
<1>2. General(rows, given)
        = [row \in rows |-> Assemble(WalkFor(row, given), PayloadOffset(row), Extended(row))]
  BY GeneralIs
<1>3. Columns(rows)
        = [row \in rows |->
              [descriptors |-> <<[srd |-> First(row), source |-> ConformingSize]>>,
               extended_sequence |-> header[row][FixedHeader],
               data_offset |-> ConformingSize, overflowed |-> FALSE, unreadable |-> FALSE]]
  BY Zenon DEF Columns
<1> QED  BY <1>1, <1>2, <1>3, Zenon

(* So which parse ran makes no difference to any row.                      *)
LEMMA AnswersAre ==
    ASSUME Loaded, NEW rows, rows \subseteq Rows, NEW given \in BOOLEAN
    PROVE  /\ ParsePayloadHeaders(rows, given) = General(rows, given)
           /\ \A row \in rows : ParsePayloadHeaders(rows, given)[row]
                  = Assemble(WalkFor(row, given), PayloadOffset(row), Extended(row))
<1>1. ParsePayloadHeaders(rows, given) = General(rows, given)
  BY ColumnsAreGeneral DEF ParsePayloadHeaders
<1>2. General(rows, given)
        = [row \in rows |-> Assemble(WalkFor(row, given), PayloadOffset(row), Extended(row))]
  BY GeneralIs
<1>3. \A row \in rows : General(rows, given)[row]
          = Assemble(WalkFor(row, given), PayloadOffset(row), Extended(row))
  BY <1>2, Zenon
<1> QED  BY <1>1, <1>3, Zenon

(* An answer is of at most so many segments, and is never both flagged.    *)
LEMMA WalkBounds ==
    ASSUME NEW words, NEW base \in Nat, NEW bound \in Int,
           NEW walk, walk = WalkOf(words, base, bound)
    PROVE  /\ Len(walk.srds) \in 0 .. MaxSegments /\ DOMAIN walk.srds = 1 .. Len(walk.srds)
           /\ ~(walk.overflowed /\ walk.unreadable)
<1> DEFINE reached == Reached(words, base, bound)
           k == Cardinality(reached)
           last == MaxSegments - 1
<1>1. MaxSegments \in Nat /\ MaxSegments > 0
  BY ConstantFacts
<1>2. k \in 0 .. MaxSegments /\ reached = 0 .. k - 1 /\ \A s \in 0 .. k - 1 : Fits(base, bound, s)
  BY ReachedFacts
<1>3. /\ walk.srds = [s \in 1 .. k |-> Said(words, base, s - 1)]
      /\ walk.overflowed => last \in reached
      /\ walk.unreadable => \E s \in reached : s < last /\ ~Fits(base, bound, s + 1)
  BY DEF WalkOf
<1> HIDE DEF reached, k
<1>4. Len(walk.srds) = k /\ DOMAIN walk.srds = 1 .. k
  <2>1. k \in Nat
    BY <1>2
  <2> QED  BY <1>3, <2>1
<1>5. ASSUME walk.overflowed, walk.unreadable PROVE FALSE
  <2>1. PICK s \in reached : s < last /\ ~Fits(base, bound, s + 1)
    BY <1>3, <1>5
  <2>2. last \in 0 .. k - 1 /\ s \in 0 .. k - 1
    BY <1>2, <1>3, <1>5
  <2>3. s + 1 \in 0 .. k - 1
    BY <1>1, <1>2, <2>1, <2>2
  <2> QED  BY <1>2, <2>1, <2>3
<1> QED  BY <1>2, <1>4, <1>5

-----------------------------------------------------------------------------
(* The words the payload row adds: where the walk crosses, both rows       *)
(* together hold the packet as far as they reach.                          *)
HeldOf(row, given) == Min({Size(packet[row]), cut + (IF given THEN Width ELSE 0)})

LEMMA GatheredIsTrue ==
    ASSUME Loaded, NEW row \in Rows, NEW p, p = packet[row],
           cut < Size(p), Start(p) <= cut,
           NEW i \in Nat, i < Span, Start(p) + i < Size(p), Start(p) + i < cut + Width
    PROVE  Gathered(row)[i] = Word(p, Start(p) + i)
<1> DEFINE b == Bound(row)
           o == PayloadOffset(row)
           j == o + i
<1>1. /\ cut \in Nat /\ IsPacket(p) /\ b \in Nat /\ Size(p) \in Nat
      /\ b = (IF Size(p) <= cut THEN Size(p) ELSE cut)
      /\ \A n \in Nat : n < b => header[row][n] = Word(p, n)
      /\ o = (IF Start(p) <= b THEN Start(p) ELSE b) /\ Start(p) \in Nat
  BY RowFacts
<1>2. Span \in Nat /\ Width \in Nat
  <2>1. 0 \in Int
    OBVIOUS
  <2> QED  BY ConstantFacts, ClippedIs, <2>1
<1>3. i \in 0 .. Span - 1
  BY <1>2
<1>4. Gathered(row)[i] = IF j - b < 0 THEN header[row][j]
                         ELSE IF j - b < Width THEN payload[row][j - b] ELSE Zero
  BY <1>3, Zenon DEF Gathered
<1> HIDE DEF b, o, j
<1>5. b = cut /\ o = Start(p)
  BY <1>1
<1>6. j = Start(p) + i /\ j \in Nat
  BY <1>1, <1>5 DEF j
<1>7. CASE j < cut
  BY <1>1, <1>4, <1>5, <1>6, <1>7
<1>8. CASE ~(j < cut)
  <2> DEFINE tail == j - cut
  <2>1. tail \in 0 .. Width - 1 /\ cut + tail = j /\ cut + tail < Size(p) /\ tail < Width
        /\ ~(tail < 0)
    BY <1>1, <1>2, <1>6, <1>8
  <2>2. Holds(row)
    BY DEF Loaded
  <2> HIDE DEF tail
  <2>3. payload[row][tail] = Word(p, cut + tail)
    BY <2>1, <2>2 DEF Holds
  <2>4. Gathered(row)[i] = payload[row][tail]
    BY <1>4, <1>5, <2>1 DEF tail
  <2> QED  BY <1>6, <2>1, <2>3, <2>4
<1> QED  BY <1>7, <1>8

(* The walk that answers, over a packet whose first SRD header is in its   *)
(* header row: what it yields is settled by what the buffers hold.         *)
LEMMA WalkIsTrue ==
    ASSUME Loaded, NEW row \in Rows, NEW p, p = packet[row], NEW given \in BOOLEAN,
           SrdPlace(p, 1) <= Bound(row), IsWhole(p) \/ ~given,
           NEW held, held = HeldOf(row, given), NEW walk, walk = WalkFor(row, given)
    PROVE  /\ walk.unreadable <=> Short(p, held)
           /\ walk.overflowed <=> ~Short(p, held) /\ Len(p.srds) > MaxSegments
           /\ ~Short(p, held) /\ Len(p.srds) <= MaxSegments =>
                  walk.srds = [s \in 1 .. Len(p.srds) |-> Says(p, s - 1)]
           /\ PayloadOffset(row) = Start(p) /\ held \in Nat
<1> DEFINE b == Bound(row)
           o == PayloadOffset(row)
           n == Len(p.srds)
           start == Start(p)
           size == Size(p)
<1>1. /\ cut \in Nat /\ IsPacket(p) /\ b \in Nat /\ size \in Nat
      /\ b = (IF size <= cut THEN size ELSE cut)
      /\ \A i \in Nat : i < b => header[row][i] = Word(p, i)
      /\ o = (IF start <= b THEN start ELSE b) /\ start \in Nat
  BY RowFacts
<1>2. /\ n \in Nat /\ n > 0 /\ \A s \in Nat : SrdPlace(p, s) = start + 1 + 3 * s
      /\ p.lost = 0 => DataPlace(p) <= size
      /\ DataPlace(p) = start + 1 + 3 * n
  BY <1>1, PlaceFacts
<1>3. Width \in Nat /\ MaxSegments \in Nat /\ MaxSegments > 0 /\ Segments = 0 .. MaxSegments - 1
  BY ConstantFacts DEF Segments
<1>4. held = (IF size <= cut + (IF given THEN Width ELSE 0) THEN size
              ELSE cut + (IF given THEN Width ELSE 0))
  <2> DEFINE m == cut + (IF given THEN Width ELSE 0)
  <2>1. m \in Int /\ size \in Int
    BY <1>1, <1>3
  <2>2. held = Min({size, m})
    BY DEF HeldOf
  <2> HIDE DEF m
  <2> QED  BY <2>1, <2>2, MinOfTwo DEF m
<1> HIDE DEF b, o, n, start, size
<1>5. held \in Nat
  BY <1>1, <1>3, <1>4
<1>6. start + 4 <= b /\ o = start
  <2>1. SrdPlace(p, 1) = start + 4
    BY <1>1, <1>2
  <2>2. SrdPlace(p, 1) <= b
    BY DEF b
  <2> QED  BY <1>1, <2>1, <2>2
<1>7. \A s \in Nat : SrdPlace(p, s + 1) = start + 4 + 3 * s
  <2> SUFFICES ASSUME NEW s \in Nat PROVE SrdPlace(p, s + 1) = start + 4 + 3 * s
    OBVIOUS
  <2>1. s + 1 \in Nat
    OBVIOUS
  <2>2. SrdPlace(p, s + 1) = start + 1 + 3 * (s + 1)
    BY <1>2, <2>1
  <2> QED  BY <1>1, <2>2
(* The header row alone, which holds the packet up to its bound.           *)
<1>8. Faithful(header[row], o, b, p, b) /\ Fits(o, b, 0)
  <2>1. ASSUME NEW s \in Segments
        PROVE  /\ Fits(o, b, s) <=> SrdPlace(p, s + 1) <= b
               /\ Fits(o, b, s) =>
                     \A i \in 1 .. SrdSize :
                        header[row][HeaderPlace(o, s) + i - 1] = Word(p, SrdPlace(p, s) + i - 1)
    <3>1. s \in Nat
      BY <1>3
    <3>2. SrdPlace(p, s + 1) = start + 4 + 3 * s /\ SrdPlace(p, s) = start + 1 + 3 * s
      BY <1>2, <1>7, <3>1
    <3>3. HeaderPlace(o, s) = start + 1 + 3 * s
      BY <1>1, <1>6, <3>1 DEF HeaderPlace, ExtendedSize, SrdSize
    <3>4. Fits(o, b, s) <=> start + 4 + 3 * s <= b
      BY <1>1, <3>1, <3>3 DEF Fits, SrdSize
    <3>5. ASSUME Fits(o, b, s), NEW i \in 1 .. SrdSize
          PROVE  header[row][HeaderPlace(o, s) + i - 1] = Word(p, SrdPlace(p, s) + i - 1)
      <4> DEFINE j == HeaderPlace(o, s) + i - 1
      <4>1. j \in Nat /\ j < b
        BY <1>1, <3>1, <3>3, <3>4, <3>5 DEF SrdSize
      <4>2. j = SrdPlace(p, s) + i - 1
        BY <3>2, <3>3
      <4> HIDE DEF j
      <4>3. header[row][j] = Word(p, j)
        BY <1>1, <4>1
      <4> QED  BY <4>2, <4>3 DEF j
    <3> QED  BY <3>2, <3>4, <3>5
  <2>2. Fits(o, b, 0)
    BY <1>1, <1>6 DEF Fits, HeaderPlace, ExtendedSize, SrdSize
  <2> QED  BY <2>1, <2>2 DEF Faithful
<1> DEFINE first == FirstWalk(row)
<1>9. /\ first.unreadable <=> Short(p, b)
      /\ first.overflowed <=> ~Short(p, b) /\ Len(p.srds) > MaxSegments
      /\ ~Short(p, b) /\ Len(p.srds) <= MaxSegments =>
             first.srds = [s \in 1 .. Len(p.srds) |-> Says(p, s - 1)]
  <2>1. first = WalkOf(header[row], o, b)
    BY DEF FirstWalk, o, b
  <2>2. o \in Nat /\ b \in Int
    BY <1>1, <1>6
  <2> HIDE DEF first
  <2> QED  BY <1>1, <1>8, <2>1, <2>2, WalkOver
<1> HIDE DEF first
<1>10. CASE ~given
  <2>1. held = b
    BY <1>1, <1>4, <1>10
  <2>2. walk = first
    BY <1>10 DEF WalkFor, Crosses, first
  <2> QED  BY <1>5, <1>6, <1>9, <2>1, <2>2 DEF o, start
<1>11. CASE given /\ ~first.unreadable
  <2>1. walk = first
    BY <1>11 DEF WalkFor, Crosses, first
  <2>2. b <= held
    BY <1>1, <1>3, <1>4, <1>11
  <2>3. ~Short(p, b)
    BY <1>9, <1>11
  <2>4. ~Short(p, held)
    <3> SUFFICES ASSUME NEW s \in 1 .. Len(p.srds) - 1, s < MaxSegments, SrdPlace(p, s + 1) > held
                 PROVE  FALSE
      BY DEF Short
    <3>1. s \in Nat
      BY <1>2 DEF n
    <3>2. SrdPlace(p, s + 1) \in Int
      BY <1>1, <1>7, <3>1
    <3>3. SrdPlace(p, s + 1) > b
      BY <1>1, <1>5, <2>2, <3>2
    <3> QED  BY <2>3, <3>3 DEF Short
  <2> QED  BY <1>5, <1>6, <1>9, <2>1, <2>3, <2>4 DEF o, start
(* The row ran out before a header the packet declared, and the packet is  *)
(* whole: the payload row has the rest.                                    *)
<1>12. CASE given /\ first.unreadable
  <2>1. p.lost = 0
    BY <1>12 DEF IsWhole
  <2>2. PICK s \in 1 .. n - 1 : SrdPlace(p, s + 1) > b
    BY <1>9, <1>12 DEF Short, n
  <2>3. b = cut /\ cut < size
    <3>1. s \in Nat /\ s + 1 <= n
      BY <1>2
    <3>2. SrdPlace(p, s + 1) = start + 4 + 3 * s /\ start + 4 + 3 * s <= size
      BY <1>1, <1>2, <1>7, <2>1, <3>1
    <3> QED  BY <1>1, <2>2, <3>1, <3>2
  <2> DEFINE words == Gathered(row)
             reach == Reach(row)
  <2>4. walk = WalkOf(words, 0, reach)
    BY <1>12 DEF WalkFor, Crosses, first
  <2>5. Span = 1 + 3 * MaxSegments
    <3>1. 0 \in Int
      OBVIOUS
    <3> QED  BY <3>1, ClippedIs
  <2>6. reach \in Nat /\ reach = IF cut + Width - start <= Span THEN cut + Width - start ELSE Span
    <3>1. reach \in Nat /\ reach = IF b + Width - o <= Span THEN b + Width - o ELSE Span
      BY ReachIs DEF b, o
    <3> QED  BY <1>6, <2>3, <3>1
  <2>7. \A i \in Nat : i < Span /\ start + i < size /\ start + i < cut + Width =>
            words[i] = Word(p, start + i)
    <3>1. cut < Size(p) /\ Start(p) <= cut
      BY <1>1, <1>6, <2>3 DEF size, start
    <3> QED  BY <3>1, GatheredIsTrue DEF size, start
  <2> HIDE DEF words, reach
  <2>8. Faithful(words, 0, reach, p, held)
    <3> SUFFICES ASSUME NEW t \in Segments, t < n
                 PROVE  /\ Fits(0, reach, t) <=> SrdPlace(p, t + 1) <= held
                        /\ Fits(0, reach, t) =>
                              \A i \in 1 .. SrdSize :
                                 words[HeaderPlace(0, t) + i - 1] = Word(p, SrdPlace(p, t) + i - 1)
      BY DEF Faithful, n
    <3>9. n \in Nat /\ t < n
      BY <1>2
    <3>10. t \in 0 .. MaxSegments - 1
      BY <1>3
    <3>1. t \in Nat /\ t + 1 <= n /\ t + 1 <= MaxSegments
      BY ONLY <1>3, <3>9, <3>10
    <3>2. SrdPlace(p, t + 1) = start + 4 + 3 * t /\ SrdPlace(p, t) = start + 1 + 3 * t
      BY <1>2, <1>7, <3>1
    <3>3. start + 4 + 3 * t <= size /\ 4 + 3 * t <= Span
      <4>1. start + 1 + 3 * n <= size
        BY <1>2, <2>1
      <4>2. start \in Nat /\ size \in Nat
        BY <1>1
      <4>3. start + 4 + 3 * t <= size
        BY ONLY <3>1, <3>9, <4>1, <4>2
      <4>4. 4 + 3 * t <= Span
        BY ONLY <1>3, <2>5, <3>1
      <4> QED  BY <4>3, <4>4
    <3>4. HeaderPlace(0, t) = 1 + 3 * t
      BY <3>1 DEF HeaderPlace, ExtendedSize, SrdSize
    <3>5. Fits(0, reach, t) <=> 4 + 3 * t <= reach
      BY <2>6, <3>1, <3>4 DEF Fits, SrdSize
    <3>6. 4 + 3 * t <= reach <=> start + 4 + 3 * t <= cut + Width
      BY <1>1, <1>3, <2>5, <2>6, <3>1, <3>3
    <3>7. start + 4 + 3 * t <= cut + Width <=> start + 4 + 3 * t <= held
      BY <1>1, <1>3, <1>4, <1>12, <3>1, <3>3
    <3>8. ASSUME Fits(0, reach, t), NEW i \in 1 .. SrdSize
          PROVE  words[HeaderPlace(0, t) + i - 1] = Word(p, SrdPlace(p, t) + i - 1)
      <4> DEFINE j == HeaderPlace(0, t) + i - 1
      <4>1. start + 4 + 3 * t <= cut + Width
        BY <3>5, <3>6, <3>8
      <4>2. i \in 1 .. 3 /\ j = 1 + 3 * t + i - 1
        BY <3>4 DEF SrdSize
      <4> HIDE DEF j
      <4>3. j \in Nat /\ j < Span
        BY <1>3, <2>5, <3>1, <3>3, <4>2
      <4>6. start + j < size /\ start + j < cut + Width
        BY <1>1, <1>3, <3>1, <3>3, <4>1, <4>2
      <4>4. words[j] = Word(p, start + j)
        BY <2>7, <4>3, <4>6
      <4>5. start + j = SrdPlace(p, t) + i - 1
        BY <1>1, <3>1, <3>2, <4>2
      <4> QED  BY <4>4, <4>5 DEF j
    <3> QED  BY <3>2, <3>5, <3>6, <3>7, <3>8
  <2>9. Fits(0, reach, 0)
    <3>1. 4 <= Span /\ 4 <= cut + Width - start
      BY <1>1, <1>3, <1>6, <2>3, <2>5
    <3>2. 4 <= reach
      BY <2>6, <3>1
    <3> QED  BY <2>6, <3>2 DEF Fits, HeaderPlace, ExtendedSize, SrdSize
  <2>10. 0 \in Nat /\ reach \in Int /\ held \in Int
    BY <1>5, <2>6
  <2>11. /\ walk.unreadable <=> Short(p, held)
         /\ walk.overflowed <=> ~Short(p, held) /\ Len(p.srds) > MaxSegments
         /\ ~Short(p, held) /\ Len(p.srds) <= MaxSegments =>
                walk.srds = [k \in 1 .. Len(p.srds) |-> Says(p, k - 1)]
    BY <1>1, <2>4, <2>8, <2>9, <2>10, WalkOver
  <2> QED  BY <1>5, <1>6, <2>11 DEF o, start
<1> QED  BY <1>10, <1>11, <1>12

-----------------------------------------------------------------------------
(* Data follows the whole payload header, segment after segment.           *)
LEMMA SourcesAreTrue ==
    ASSUME NEW p, IsPacket(p),
           NEW lengths, lengths = [i \in 1 .. Len(p.srds) |-> Says(p, i - 1).length],
           NEW s \in 1 .. Len(p.srds)
    PROVE  SumOf(SubSeq(lengths, 1, s - 1)) = Preceding(p, s - 1)
<1> DEFINE n == Len(p.srds)
           m == s - 1
<1>1. n \in Nat /\ p.srds \in Seq([length : Nat, place : Nat])
  BY PlaceFacts DEF IsPacket
<1>2. m \in Nat /\ m < n
  BY <1>1
<1> HIDE DEF m, n
<1>3. \A i \in 1 .. n : lengths[i] = p.srds[i].length
  <2> SUFFICES ASSUME NEW i \in 1 .. n PROVE lengths[i] = p.srds[i].length
    OBVIOUS
  <2>2. lengths[i] = Says(p, i - 1).length
    BY DEF n
  <2>3. (i - 1) + 1 = i
    BY <1>1
  <2> QED  BY <2>2, <2>3 DEF Says
<1>4. SubSeq(lengths, 1, m) = [i \in 1 .. m |-> lengths[i]]
  BY <1>2
<1>5. \A i \in 1 .. m : i \in 1 .. n
  BY <1>1, <1>2
<1>6. [i \in 1 .. m |-> lengths[i]] = [i \in 1 .. m |-> p.srds[i].length]
  BY <1>3, <1>5
<1>7. Preceding(p, m) = SumOf([i \in 1 .. m |-> p.srds[i].length])
  BY Zenon DEF Preceding
<1> QED  BY <1>4, <1>6, <1>7 DEF m

(* What a row is answered, by the packet that was written to it.           *)
AnswerFor(row, given) == Assemble(WalkFor(row, given), PayloadOffset(row), Extended(row))

ListOf(walk, o) ==
    [s \in DOMAIN walk.srds |->
        [srd |-> walk.srds[s],
         source |-> (o + ExtendedSize + SrdSize * Len(walk.srds))
             + SumOf(SubSeq([t \in DOMAIN walk.srds |-> walk.srds[t].length], 1, s - 1))]]

LEMMA AnswerShape ==
    ASSUME NEW walk, NEW o, NEW e
    PROVE  /\ Assemble(walk, o, e).overflowed = walk.overflowed
           /\ Assemble(walk, o, e).unreadable = walk.unreadable
           /\ Assemble(walk, o, e).extended_sequence = e
           /\ Assemble(walk, o, e).data_offset = o + ExtendedSize + SrdSize * Len(walk.srds)
           /\ walk.overflowed \/ walk.unreadable => Assemble(walk, o, e).descriptors = << >>
           /\ ~walk.overflowed /\ ~walk.unreadable =>
                Assemble(walk, o, e).descriptors = ListOf(walk, o)
<1> DEFINE end == o + ExtendedSize + SrdSize * Len(walk.srds)
           answer == Assemble(walk, o, e)
<1>1. answer = [descriptors |-> IF walk.overflowed \/ walk.unreadable THEN << >> ELSE ListOf(walk, o),
                extended_sequence |-> e, data_offset |-> end,
                overflowed |-> walk.overflowed, unreadable |-> walk.unreadable]
  BY Zenon DEF Assemble, ListOf
<1> HIDE DEF end, answer
<1>2. /\ answer.overflowed = walk.overflowed /\ answer.unreadable = walk.unreadable
      /\ answer.extended_sequence = e /\ answer.data_offset = end
      /\ answer.descriptors = IF walk.overflowed \/ walk.unreadable THEN << >> ELSE ListOf(walk, o)
  BY <1>1
<1> QED  BY <1>2 DEF end, answer

LEMMA ShortIs ==
    ASSUME NEW row, NEW p, p = packet[row], IsPacket(p), NEW held \in Int, held = Held(row)
    PROVE  IsShort(row) <=> Short(p, held)
<1> DEFINE n == Len(p.srds)
           m == Min({n, MaxSegments})
<1>1. n \in Nat /\ n > 0
  BY PlaceFacts
<1>2. MaxSegments \in Nat
  BY ConstantFacts
<1>3. m = IF n <= MaxSegments THEN n ELSE MaxSegments
  BY <1>1, <1>2, MinOfTwo
<1>4. IsShort(row) <=> \E s \in 1 .. m - 1 : s \notin {t \in 0 .. n - 1 : SrdPlace(p, t + 1) <= held}
  <2>1. IsShort(row) <=> \E s \in 1 .. Min({Len(packet[row].srds), MaxSegments}) - 1 :
            s \notin {t \in 0 .. Len(packet[row].srds) - 1 : SrdPlace(packet[row], t + 1) <= Held(row)}
    BY Zenon DEF IsShort, Read
  <2>2. packet[row] = p /\ Held(row) = held
    OBVIOUS
  <2> QED  BY ONLY <2>1, <2>2, Zenon DEF n, m
<1>6. \A t \in Nat : SrdPlace(p, t + 1) \in Int
  BY PlaceFacts
<1> HIDE DEF n, m
<1>5. \A s : s \in 1 .. m - 1 <=> s \in 1 .. n - 1 /\ s < MaxSegments
  BY <1>1, <1>2, <1>3
<1>7. \A s \in 1 .. n - 1 : s \in 0 .. n - 1
  BY <1>1
<1>8. IsShort(row) <=> \E s \in 1 .. n - 1 : s < MaxSegments /\ ~(SrdPlace(p, s + 1) <= held)
  BY <1>4, <1>5, <1>7
<1>9. \A s \in 1 .. n - 1 : ~(SrdPlace(p, s + 1) <= held) <=> SrdPlace(p, s + 1) > held
  <2>1. \A s \in 1 .. n - 1 : SrdPlace(p, s + 1) \in Int
    BY <1>1, <1>6
  <2> QED  BY <2>1
<1> QED  BY <1>8, <1>9 DEF Short, n

LEMMA AnswerIsTrue ==
    ASSUME Loaded, offered \in BOOLEAN, NEW row \in Rows, NEW p, p = packet[row],
           NEW answer, answer = AnswerFor(row, offered),
           NEW over, over = (~IsShort(row) /\ Len(p.srds) > MaxSegments)
    PROVE  /\ answer.extended_sequence = IF Start(p) < Bound(row) THEN Word(p, Start(p)) ELSE Zero
           /\ FirstIsInside(row) /\ (IsWhole(p) \/ ~offered) =>
                /\ answer.unreadable <=> IsShort(row)
                /\ answer.overflowed <=> over
                /\ answer.descriptors = IF IsShort(row) \/ over THEN << >> ELSE TrueDescriptors(p)
           /\ ~FirstIsInside(row) =>
                /\ answer.descriptors = << >> /\ ~answer.overflowed /\ ~answer.unreadable
<1> DEFINE walk == WalkFor(row, offered)
           held == HeldOf(row, offered)
           o == PayloadOffset(row)
           b == Bound(row)
           n == Len(p.srds)
<1>1. /\ IsPacket(p) /\ b \in Nat /\ o = (IF Start(p) <= b THEN Start(p) ELSE b)
      /\ Start(p) \in Nat /\ \A i \in Nat : i < b => header[row][i] = Word(p, i)
  BY RowFacts
<1>2. n \in Nat /\ DataPlace(p) = Start(p) + 1 + 3 * n /\ SrdPlace(p, 1) = Start(p) + 4
  <2>1. n \in Nat /\ DataPlace(p) = Start(p) + 1 + 3 * n
        /\ \A s \in Nat : SrdPlace(p, s) = Start(p) + 1 + 3 * s
    BY <1>1, PlaceFacts
  <2> HIDE DEF n
  <2>2. SrdPlace(p, 1) = Start(p) + 1 + 3 * 1
    BY <2>1
  <2>3. SrdPlace(p, 1) = Start(p) + 4
    BY <1>1, <2>2
  <2> QED  BY <2>1, <2>3
<1>7. /\ answer.overflowed = walk.overflowed /\ answer.unreadable = walk.unreadable
      /\ answer.extended_sequence = Extended(row)
      /\ walk.overflowed \/ walk.unreadable => answer.descriptors = << >>
      /\ ~walk.overflowed /\ ~walk.unreadable => answer.descriptors = ListOf(walk, o)
  <2>1. answer = Assemble(walk, o, Extended(row))
    BY DEF AnswerFor
  <2> HIDE DEF walk, o
  <2> QED  BY ONLY <2>1, AnswerShape
<1>3. IsShort(row) <=> Short(p, held)
  <2> DEFINE m == cut + (IF offered THEN Width ELSE 0)
  <2>1. held = Min({Size(p), m}) /\ held = Held(row)
    BY DEF HeldOf, Held
  <2>2. cut \in Nat /\ Size(p) \in Nat /\ Width \in Nat
    BY RowFacts, ConstantFacts
  <2>3. m \in Int /\ Size(p) \in Int
    BY <2>2
  <2> HIDE DEF held, m
  <2>4. held \in Int
    BY <2>1, <2>3, MinOfTwo
  <2> QED  BY <1>1, <2>1, <2>4, ShortIs
<1>4. answer.extended_sequence = IF Start(p) < b THEN Word(p, Start(p)) ELSE Zero
  <2>1. answer.extended_sequence = Extended(row)
    BY <1>7
  <2>2. o + ExtendedSize <= b <=> Start(p) < b
    BY <1>1 DEF ExtendedSize
  <2>3. Start(p) < b => header[row][o] = Word(p, Start(p))
    BY <1>1
  <2>4. Extended(row) = IF o + ExtendedSize <= b THEN header[row][o] ELSE Zero
    BY DEF Extended
  <2> QED  BY <2>1, <2>2, <2>3, <2>4
<1>5. ASSUME FirstIsInside(row), IsWhole(p) \/ ~offered
      PROVE  /\ answer.unreadable <=> IsShort(row)
             /\ answer.overflowed <=> over
             /\ answer.descriptors = IF IsShort(row) \/ over THEN << >> ELSE TrueDescriptors(p)
  <2>1. SrdPlace(p, 1) <= Bound(row)
    BY <1>5 DEF FirstIsInside
  <2>2. /\ walk.unreadable <=> Short(p, held)
        /\ walk.overflowed <=> ~Short(p, held) /\ Len(p.srds) > MaxSegments
        /\ ~Short(p, held) /\ Len(p.srds) <= MaxSegments =>
               walk.srds = [s \in 1 .. Len(p.srds) |-> Says(p, s - 1)]
        /\ o = Start(p)
    BY <1>5, <2>1, WalkIsTrue
  <2>3. /\ answer.overflowed = walk.overflowed /\ answer.unreadable = walk.unreadable
        /\ walk.overflowed \/ walk.unreadable => answer.descriptors = << >>
    BY <1>7
  <2>4. (answer.unreadable <=> IsShort(row)) /\ (answer.overflowed <=> over)
    <3> HIDE DEF walk
    <3> QED  BY <1>3, <2>2, <2>3
  <2>5. CASE IsShort(row) \/ over
    <3>1. walk.overflowed \/ walk.unreadable
      <4> HIDE DEF walk
      <4> QED  BY <1>3, <2>2, <2>5
    <3> QED  BY <2>3, <2>4, <2>5, <3>1
  <2>6. CASE ~(IsShort(row) \/ over)
    <3> DEFINE srds == walk.srds
               lengths == [t \in DOMAIN srds |-> srds[t].length]
               end == o + ExtendedSize + SrdSize * Len(srds)
    <3> HIDE DEF walk
    <3>1. ~Short(p, held) /\ ~walk.overflowed /\ ~walk.unreadable
      BY <1>3, <2>2, <2>6
    <3>2. Len(p.srds) <= MaxSegments
      <4>1. ~(Len(p.srds) > MaxSegments)
        BY <1>3, <2>6
      <4>2. n \in Nat /\ MaxSegments \in Nat
        BY <1>2, ConstantFacts
      <4> QED  BY <4>1, <4>2
    <3>3. srds = [s \in 1 .. Len(p.srds) |-> Says(p, s - 1)]
      BY <2>2, <3>1, <3>2
    <3>4. answer.descriptors
            = [s \in DOMAIN srds |->
                  [srd |-> srds[s], source |-> end + SumOf(SubSeq(lengths, 1, s - 1))]]
      BY <1>7, <3>1, Zenon DEF ListOf
    <3> HIDE DEF srds, n
    <3>5. DOMAIN srds = 1 .. n /\ Len(srds) = n
      <4>1. srds = [s \in 1 .. n |-> Says(p, s - 1)]
        BY <3>3 DEF n
      <4> QED  BY <1>2, <4>1
    <3>6. end = DataPlace(p)
      BY <1>2, <2>2, <3>5 DEF ExtendedSize, SrdSize
    <3> HIDE DEF end, lengths
    <3>7. ASSUME NEW s \in 1 .. n
          PROVE  srds[s] = Says(p, s - 1)
                 /\ end + SumOf(SubSeq(lengths, 1, s - 1)) = DataPlace(p) + Preceding(p, s - 1)
      <4>1. srds[s] = Says(p, s - 1)
        BY <3>3 DEF n
      <4>2. s \in 1 .. Len(p.srds)
        BY DEF n
      <4>3. SumOf(SubSeq(lengths, 1, s - 1)) = Preceding(p, s - 1)
        <5>1. lengths = [i \in 1 .. Len(p.srds) |-> Says(p, i - 1).length]
          <6>1. lengths = [t \in DOMAIN srds |-> srds[t].length]
            BY DEF lengths
          <6> QED  BY <3>3, <6>1
        <5>2. IsPacket(p)
          BY <1>1
        <5> QED  BY ONLY <4>2, <5>1, <5>2, SourcesAreTrue
      <4> QED  BY <3>6, <4>1, <4>3
    <3>8. answer.descriptors
            = [s \in 1 .. n |-> [srd |-> Says(p, s - 1), source |-> DataPlace(p) + Preceding(p, s - 1)]]
      BY <3>4, <3>5, <3>7, Zenon
    <3>9. answer.descriptors = TrueDescriptors(p)
      BY <3>8 DEF TrueDescriptors, n
    <3> QED  BY <2>4, <2>6, <3>9
  <2> QED  BY <2>5, <2>6
(* No header in the row: the walk is empty, and says nothing ran out.      *)
<1>6. ASSUME ~FirstIsInside(row)
      PROVE  answer.descriptors = << >> /\ ~answer.overflowed /\ ~answer.unreadable
  <2> DEFINE first == FirstWalk(row)
             reached == Reached(header[row], o, b)
             k == Cardinality(reached)
  <2>1. ~(Start(p) + 4 <= b)
    BY <1>2, <1>6 DEF FirstIsInside
  <2>2. o \in Nat /\ b \in Int
    BY <1>1
  <2>3. k \in 0 .. MaxSegments /\ reached = 0 .. k - 1
    BY <2>2, ReachedFacts
  <2>4. 0 \notin reached
    <3>1. ~Fits(o, b, 0)
      <4>1. ~(o + 4 <= b)
        BY <1>1, <2>1
      <4>2. HeaderPlace(o, 0) + SrdSize = o + 4
        BY <2>2 DEF HeaderPlace, ExtendedSize, SrdSize
      <4> HIDE DEF o, b
      <4> QED  BY <4>1, <4>2 DEF Fits
    <3> QED  BY <3>1 DEF Reached
  <2> HIDE DEF reached, k
  <2>5. k = 0 /\ \A s : s \notin reached
    <3>1. MaxSegments \in Nat
      BY ConstantFacts
    <3>2. k = 0
      BY <2>3, <2>4, <3>1
    <3> QED  BY <2>3, <3>2
  <2>6. /\ first.srds = [s \in 1 .. k |-> Said(header[row], o, s - 1)]
        /\ ~first.overflowed /\ ~first.unreadable
    <3>1. first = [srds |-> [s \in 1 .. k |-> Said(header[row], o, s - 1)],
                   overflowed |-> MaxSegments - 1 \in reached /\ Said(header[row], o, MaxSegments - 1).more,
                   unreadable |-> \E s \in reached : /\ s < MaxSegments - 1 /\ Said(header[row], o, s).more
                                                     /\ ~Fits(o, b, s + 1)]
      BY Zenon DEF FirstWalk, WalkOf, reached, k, o, b
    <3> HIDE DEF first
    <3> QED  BY <2>5, <3>1
  <2>7. walk = first
    BY <2>6 DEF WalkFor, Crosses
  <2> HIDE DEF first, walk
  <2>8. DOMAIN walk.srds = 1 .. 0
    BY <2>5, <2>6, <2>7
  <2>9. answer.overflowed = walk.overflowed /\ answer.unreadable = walk.unreadable
    BY <1>7
  <2> DEFINE item(s) == [srd |-> walk.srds[s],
                         source |-> (o + ExtendedSize + SrdSize * Len(walk.srds))
                             + SumOf(SubSeq([t \in DOMAIN walk.srds |-> walk.srds[t].length], 1, s - 1))]
  <2>10. answer.descriptors = [s \in DOMAIN walk.srds |-> item(s)]
    <3>1. ~walk.overflowed /\ ~walk.unreadable
      BY <2>6, <2>7
    <3> QED  BY <1>7, <3>1, Zenon DEF ListOf
  <2> HIDE DEF item
  <2>11. answer.descriptors = << >>
    BY <2>8, <2>10
  <2> QED  BY <2>6, <2>7, <2>9, <2>11
<1> QED  BY <1>4, <1>5, <1>6

-----------------------------------------------------------------------------
(* What is read is settled by the buffers, the cut and the fixed fields.   *)
LEMMA RowsStay ==
    ASSUME UNCHANGED <<cut, memory>>
    PROVE  /\ \A row : Bound(row)' = Bound(row)
           /\ \A row : (Holds(row))' = Holds(row)
           /\ \A rows : ParseRtp(rows)' = ParseRtp(rows)
<1>1. cut' = cut /\ header' = header /\ payload' = payload /\ packet' = packet
  BY DEF memory
<1>2. \A row : Bound(row)' = Bound(row)
  BY <1>1 DEF Bound
<1>3. \A row : Holds(row)' = Holds(row)
  BY <1>1 DEF Holds
<1>4. \A row, i : Field(row, i)' = Field(row, i)
  BY <1>1, <1>2 DEF Field
<1>5. \A row, csrc, extension : OffsetOf(row, csrc, extension)' = OffsetOf(row, csrc, extension)
  BY <1>1, <1>2 DEF OffsetOf
<1>6. \A row : Fields(row)' = Fields(row)
  BY <1>4, <1>5, Zenon DEF Fields
<1>7. \A row : IsPlain(row)' = IsPlain(row) /\ ColumnFields(row)' = ColumnFields(row)
  BY <1>1, <1>2 DEF IsPlain, ColumnFields
<1>8. \A rows : ParseRtp(rows)' = ParseRtp(rows)
  BY <1>6, <1>7, Zenon DEF ParseRtp
<1> QED  BY <1>2, <1>3, <1>8

LEMMA AnswersStay ==
    ASSUME UNCHANGED <<cut, memory, fixed>>
    PROVE  \A rows, given : ParsePayloadHeaders(rows, given)' = ParsePayloadHeaders(rows, given)
<1>1. cut' = cut /\ header' = header /\ payload' = payload /\ packet' = packet /\ fixed' = fixed
  BY DEF memory
<1>2. \A row : Bound(row)' = Bound(row)
  BY <1>1 DEF Bound
<1>3. \A row : PayloadOffset(row)' = PayloadOffset(row)
  BY <1>1 DEF PayloadOffset
<1>4. \A row : /\ Keep(row)' = Keep(row) /\ Reach(row)' = Reach(row)
               /\ Gathered(row)' = Gathered(row) /\ Extended(row)' = Extended(row)
               /\ First(row)' = First(row) /\ IsPlain(row)' = IsPlain(row)
  <2>1. \A row : Keep(row)' = Keep(row) /\ Reach(row)' = Reach(row)
    BY <1>2, <1>3, Zenon DEF Keep, Reach
  <2>2. \A row : Gathered(row)' = Gathered(row)
    BY <1>1, <1>2, <1>3, Zenon DEF Gathered
  <2>3. \A row : Extended(row)' = Extended(row)
    BY <1>1, <1>2, <1>3, Zenon DEF Extended
  <2>4. \A row : First(row)' = First(row)
    BY <1>1, Zenon DEF First
  <2>5. \A row : IsPlain(row)' = IsPlain(row)
    BY <1>1, <1>2 DEF IsPlain
  <2> QED  BY <2>1, <2>2, <2>3, <2>4, <2>5
<1>5. \A row, begin, head : Sliced(row, begin, head)' = Sliced(row, begin, head)
  BY <1>1, Zenon DEF Sliced
<1>6. \A row, crossing : Window(row, crossing)' = Window(row, crossing)
  BY <1>3, <1>4, <1>5, Zenon DEF Window
<1>7. \A rows, given : General(rows, given)' = General(rows, given)
  BY <1>1, <1>2, <1>3, <1>4, <1>6, Zenon DEF General
<1>8. \A rows : Conforms(rows)' = Conforms(rows) /\ Columns(rows)' = Columns(rows)
  <2>1. \A rows : Conforms(rows)' = Conforms(rows)
    BY <1>2, <1>3, <1>4 DEF Conforms
  <2>2. \A rows : Columns(rows)' = Columns(rows)
    BY <1>1, <1>4, Zenon DEF Columns
  <2> QED  BY <2>1, <2>2
<1> QED  BY <1>7, <1>8, Zenon DEF ParsePayloadHeaders

(* Writing a packet to a row leaves the row holding it.                    *)
IsBuffer == /\ header = [row \in Rows |-> header[row]]
            /\ payload = [row \in Rows |-> payload[row]]
            /\ packet = [row \in Rows |-> packet[row]]

LEMMA WrittenHolds ==
    ASSUME IsBuffer, NEW row \in Rows, NEW p \in Packets, Receive(row, p)
    PROVE  /\ IsBuffer' /\ Holds(row)'
           /\ \A r \in Rows : r # row /\ Holds(r) => Holds(r)'
<1> DEFINE head == [i \in 0 .. cut - 1 |-> IF i < Size(p) THEN Word(p, i) ELSE header[row][i]]
           rest == [i \in 0 .. Width - 1 |->
                       IF cut + i < Size(p) THEN Word(p, cut + i) ELSE payload[row][i]]
<1>1. header' = [header EXCEPT ![row] = head]
  BY Zenon DEF Receive
<1>2. payload' = [payload EXCEPT ![row] = rest]
  BY Zenon DEF Receive
<1>3. packet' = [packet EXCEPT ![row] = p] /\ cut' = cut
  BY DEF Receive
<1>4. /\ \A i \in 0 .. cut - 1 : i < Size(p) => head[i] = Word(p, i)
      /\ \A i \in 0 .. Width - 1 : cut + i < Size(p) => rest[i] = Word(p, cut + i)
  OBVIOUS
<1> HIDE DEF head, rest
<1>5. header' = [r \in Rows |-> IF r = row THEN head ELSE header[r]]
      /\ payload' = [r \in Rows |-> IF r = row THEN rest ELSE payload[r]]
      /\ packet' = [r \in Rows |-> IF r = row THEN p ELSE packet[r]]
  BY <1>1, <1>2, <1>3 DEF IsBuffer
<1>6. header'[row] = head /\ payload'[row] = rest /\ packet'[row] = p
  BY <1>5
<1>7. \A r \in Rows : r # row =>
          header'[r] = header[r] /\ payload'[r] = payload[r] /\ packet'[r] = packet[r]
  BY <1>5
<1>8. Holds(row)'
  BY <1>3, <1>4, <1>6 DEF Holds
<1>9. \A r \in Rows : r # row /\ Holds(r) => Holds(r)'
  BY <1>3, <1>7 DEF Holds
<1>10. IsBuffer'
  BY <1>5 DEF IsBuffer
<1> QED  BY <1>8, <1>9, <1>10

-----------------------------------------------------------------------------
(* The inductive invariant: every row written since the last parse, or     *)
(* once a chunk is parsed every row, holds the packet written to it; and   *)
(* what the calls answered is what the rows now say.                       *)
Answered ==
    /\ fixed = ParseRtp(Rows)
    /\ result = ParsePayloadHeaders(Rows, offered)

IInv ==
    /\ cut \in Cuts /\ chunks \in 0 .. MaxChunks /\ fresh \subseteq Rows /\ offered \in BOOLEAN
    /\ IsBuffer
    /\ fresh # {} => chunks < MaxChunks
    /\ \A row \in Rows : row \in fresh \/ chunks > 0 => Holds(row)
    /\ fixed # << >> => fixed = ParseRtp(Rows) /\ (fresh = Rows \/ chunks > 0)
    /\ chunks = 0 => result = << >>
    /\ fresh = {} /\ chunks > 0 => Answered

LEMMA InitHolds == Init => IInv
<1> SUFFICES ASSUME Init PROVE IInv
  OBVIOUS
<1>1. MaxChunks \in Nat
  BY ConstantFacts
<1>2. cut \in Cuts /\ chunks = 0 /\ fresh = {} /\ offered = FALSE /\ fixed = << >> /\ result = << >>
  BY DEF Init
<1>3. IsBuffer
  <2>1. /\ header = [row \in Rows |-> [i \in 0 .. cut - 1 |-> Zero]]
        /\ payload = [row \in Rows |-> [i \in 0 .. Width - 1 |-> Zero]]
        /\ packet = [row \in Rows |-> Blank]
    BY DEF Init
  <2> DEFINE a == [i \in 0 .. cut - 1 |-> Zero]
             c == [i \in 0 .. Width - 1 |-> Zero]
  <2> HIDE DEF a, c
  <2>2. header = [row \in Rows |-> a] /\ payload = [row \in Rows |-> c]
    BY <2>1 DEF a, c
  <2> QED  BY <2>1, <2>2 DEF IsBuffer
<1>4. /\ chunks \in 0 .. MaxChunks /\ ~(chunks > 0) /\ fresh \subseteq Rows
      /\ offered \in BOOLEAN /\ \A row : row \notin fresh
  <2>1. chunks = 0 /\ fresh = {}
    BY DEF Init
  <2>2. chunks \in 0 .. MaxChunks /\ ~(chunks > 0)
    BY <1>1, <2>1
  <2>3. offered \in BOOLEAN
    BY DEF Init
  <2> QED  BY <2>1, <2>2, <2>3
<1> QED  BY <1>2, <1>3, <1>4, Zenon DEF IInv

LEMMA StepHolds == IInv /\ [Next]_vars => IInv'
<1> SUFFICES ASSUME IInv, [Next]_vars PROVE IInv'
  OBVIOUS
<1>0. /\ cut \in Cuts /\ chunks \in 0 .. MaxChunks /\ fresh \subseteq Rows /\ offered \in BOOLEAN
      /\ IsBuffer /\ MaxChunks \in Nat
      /\ fresh # {} => chunks < MaxChunks
      /\ \A row \in Rows : row \in fresh \/ chunks > 0 => Holds(row)
      /\ fixed # << >> => fixed = ParseRtp(Rows) /\ (fresh = Rows \/ chunks > 0)
      /\ chunks = 0 => result = << >>
      /\ fresh = {} /\ chunks > 0 => Answered
  BY ConstantFacts DEF IInv
<1>1. ASSUME chunks < MaxChunks, NEW row \in Rows, NEW p \in Packets, Receive(row, p)
      PROVE  IInv'
  <2>1. /\ cut' = cut /\ chunks' = chunks /\ offered' = offered /\ result' = result
        /\ fresh' = fresh \cup {row} /\ fixed' = << >>
    BY <1>1 DEF Receive
  <2>2. /\ IsBuffer' /\ Holds(row)'
        /\ \A r \in Rows : r # row /\ Holds(r) => Holds(r)'
    BY <1>0, <1>1, WrittenHolds
  <2>3. \A r \in Rows : r \in fresh' \/ chunks' > 0 => Holds(r)'
    BY <1>0, <2>1, <2>2
  <2>4. fresh' # {} /\ fresh' \subseteq Rows
    BY <1>0, <2>1
  <2> QED  BY <1>0, <1>1, <2>1, <2>2, <2>3, <2>4 DEF IInv
<1>2. CASE ReadFixed
  <2>1. /\ fresh = Rows /\ fixed' = ParseRtp(Rows) /\ UNCHANGED <<cut, memory>>
        /\ fresh' = fresh /\ chunks' = chunks /\ offered' = offered /\ result' = result
    BY <1>2 DEF ReadFixed
  <2>2. /\ \A row : Holds(row)' = Holds(row)
        /\ ParseRtp(Rows)' = ParseRtp(Rows)
    BY <2>1, RowsStay
  <2>3. IsBuffer'
    BY <1>0, <2>1 DEF IsBuffer, memory
  <2>4. cut' = cut
    BY <2>1
  <2>5. ASSUME fresh = {}, chunks > 0 PROVE Answered'
    <3>1. Answered
      BY <1>0, <2>5
    <3>2. fixed' = fixed
      BY <2>1, <3>1 DEF Answered
    <3>3. ParsePayloadHeaders(Rows, offered)' = ParsePayloadHeaders(Rows, offered)
      <4>1. UNCHANGED <<cut, memory, fixed>>
        BY <2>1, <3>2
      <4>2. \A rows, given : ParsePayloadHeaders(rows, given)' = ParsePayloadHeaders(rows, given)
        BY <4>1, AnswersStay
      <4> QED  BY <2>1, <4>2
    <3> QED  BY <2>1, <2>2, <3>1, <3>3 DEF Answered
  <2> QED  BY <1>0, <2>1, <2>2, <2>3, <2>4, <2>5 DEF IInv
<1>3. ASSUME NEW given \in BOOLEAN, Parse(given) PROVE IInv'
  <2>1. /\ fresh = Rows /\ fixed # << >> /\ result' = ParsePayloadHeaders(Rows, given)
        /\ offered' = given /\ chunks' = chunks + 1 /\ fresh' = {}
        /\ UNCHANGED <<cut, memory, fixed>> /\ UNCHANGED <<cut, memory>>
    BY <1>3 DEF Parse
  <2>2. \A row : Holds(row)' = Holds(row)
    BY <2>1, RowsStay
  <2>3. ParseRtp(Rows)' = ParseRtp(Rows)
    BY <2>1, RowsStay
  <2>4. ParsePayloadHeaders(Rows, offered)' = ParsePayloadHeaders(Rows, given)
    <3>1. \A rows, g : ParsePayloadHeaders(rows, g)' = ParsePayloadHeaders(rows, g)
      BY <2>1, AnswersStay
    <3> QED  BY <2>1, <3>1
  <2>5. fixed = ParseRtp(Rows) /\ fixed' = fixed /\ cut' = cut
    BY <1>0, <2>1
  <2>6. Answered'
    BY <2>1, <2>3, <2>4, <2>5 DEF Answered
  <2>7. Rows # {}
    <3> SUFFICES ASSUME Rows = {} PROVE FALSE
      OBVIOUS
    <3>1. ParseRtp(Rows) = << >>
      <4>1. ParseRtp({}) = [row \in {} |-> ColumnFields(row)]
        BY Zenon DEF ParseRtp
      <4> DEFINE f(row) == ColumnFields(row)
      <4>2. [row \in {} |-> f(row)] = << >>
        <5> HIDE DEF f
        <5> QED  OBVIOUS
      <4> QED  BY <4>1, <4>2
    <3> QED  BY <2>1, <2>5, <3>1
  <2>8. chunks' \in 0 .. MaxChunks /\ chunks' > 0
    BY <1>0, <2>1, <2>7
  <2>9. IsBuffer'
    BY <1>0, <2>1 DEF IsBuffer, memory
  <2>10. \A row \in Rows : Holds(row)'
    BY <1>0, <2>1, <2>2
  <2> QED  BY <1>0, <2>1, <2>3, <2>5, <2>6, <2>8, <2>9, <2>10 DEF IInv, Answered
<1>4. CASE UNCHANGED vars
  <2>1. /\ UNCHANGED <<cut, memory>> /\ UNCHANGED <<cut, memory, fixed>> /\ fresh' = fresh
        /\ chunks' = chunks /\ offered' = offered /\ result' = result /\ fixed' = fixed /\ cut' = cut
    BY <1>4 DEF vars
  <2>2. /\ \A row : Holds(row)' = Holds(row)
        /\ ParseRtp(Rows)' = ParseRtp(Rows)
    BY <2>1, RowsStay
  <2>3. ParsePayloadHeaders(Rows, offered)' = ParsePayloadHeaders(Rows, offered)
    <3>1. \A rows, g : ParsePayloadHeaders(rows, g)' = ParsePayloadHeaders(rows, g)
      BY <2>1, AnswersStay
    <3> QED  BY <2>1, <3>1
  <2>4. IsBuffer'
    BY <1>0, <2>1 DEF IsBuffer, memory
  <2> QED  BY <1>0, <2>1, <2>2, <2>3, <2>4 DEF IInv, Answered
<1> QED  BY <1>1, <1>2, <1>3, <1>4 DEF Next

LEMMA Invariant == Spec => []IInv
<1>1. Init => IInv
  BY InitHolds
<1>2. IInv /\ [Next]_vars => IInv'
  BY StepHolds
<1> QED  BY <1>1, <1>2, PTL DEF Spec

LEMMA FixedAreLoaded ==
    ASSUME IInv, fixed # << >>
    PROVE  Loaded
  BY DEF IInv, Loaded

LEMMA ParsedIsLoaded ==
    ASSUME IInv, Parsed
    PROVE  /\ Loaded /\ offered \in BOOLEAN /\ result = ParsePayloadHeaders(Rows, offered)
           /\ \A row \in Rows : result[row] = AnswerFor(row, offered)
<1>1. chunks > 0 /\ fresh = {}
  BY DEF IInv, Parsed
<1>2. Answered /\ cut \in Cuts /\ offered \in BOOLEAN /\ \A row \in Rows : Holds(row)
  BY <1>1 DEF IInv
<1>3. Loaded /\ result = ParsePayloadHeaders(Rows, offered)
  BY <1>2 DEF Answered, Loaded
<1>4. \A row \in Rows : ParsePayloadHeaders(Rows, offered)[row] = AnswerFor(row, offered)
  BY <1>2, <1>3, AnswersAre DEF AnswerFor
<1> QED  BY <1>2, <1>3, <1>4

(* rtp.parse_rtp: the fixed fields of every row are its own packet's, each *)
(* from its own place, for every packet, cut and chunk the rows are reused *)
(* for; a packet that ends inside the fixed header reads zero throughout,  *)
(* and none reads what an earlier packet left beyond its end.              *)
THEOREM FixedFieldsHold == Spec => []FixedFieldsAreOwn
<1>1. IInv => FixedFieldsAreOwn
  <2> SUFFICES ASSUME IInv, fixed # << >>, NEW row \in Rows
               PROVE  fixed[row] = IF Bound(row) < FixedHeader THEN NoFields(Bound(row))
                                   ELSE TrueFields(packet[row], Bound(row))
    BY DEF FixedFieldsAreOwn
  <2>1. Loaded
    BY FixedAreLoaded
  <2>2. cut \in Cuts /\ (\A r \in Rows : Holds(r)) /\ fixed = ParseRtp(Rows)
    BY <2>1 DEF Loaded
  <2>3. fixed[row] = Fields(row)
    BY <2>2, ParseRtpIs
  <2> QED  BY <2>2, <2>3, FieldsAreTrue
<1> QED  BY <1>1, Invariant, PTL

(* Both parses' fast paths: which of the two ran, the columns or the       *)
(* general parse, never shows in the answer, in the fixed fields or in the *)
(* payload headers, whatever is beyond the packets' ends.                  *)
THEOREM FastPathHolds == Spec => []FastPathAgrees
<1>1. IInv => FastPathAgrees
  <2> SUFFICES ASSUME IInv PROVE FastPathAgrees
    OBVIOUS
  <2>1. ASSUME fixed # << >> PROVE fixed = [row \in Rows |-> Fields(row)]
    <3>1. Loaded
      BY <2>1, FixedAreLoaded
    <3>2. cut \in Cuts /\ (\A r \in Rows : Holds(r)) /\ fixed = ParseRtp(Rows)
      BY <3>1 DEF Loaded
    <3> QED  BY <3>2, ParseRtpIs
  <2>2. ASSUME Parsed PROVE result = General(Rows, offered)
    <3>1. Loaded /\ offered \in BOOLEAN /\ result = ParsePayloadHeaders(Rows, offered)
      BY <2>2, ParsedIsLoaded
    <3> QED  BY <3>1, AnswersAre
  <2> QED  BY <2>1, <2>2 DEF FastPathAgrees
<1> QED  BY <1>1, Invariant, PTL

(* payload.parse_payload_headers: what a row is answered is what it alone  *)
(* would have been answered.  The chunk chooses which parse runs, and one  *)
(* slice or a gather for all the crossing rows; neither choice shows.      *)
THEOREM NeighboursHold == Spec => []NeighboursDoNotInterfere
<1>1. IInv => NeighboursDoNotInterfere
  <2> SUFFICES ASSUME IInv, Parsed, NEW row \in Rows
               PROVE  result[row] = ParsePayloadHeaders({row}, offered)[row]
    BY DEF NeighboursDoNotInterfere
  <2>1. Loaded /\ offered \in BOOLEAN /\ result[row] = AnswerFor(row, offered)
    BY ParsedIsLoaded
  <2>2. {row} \subseteq Rows /\ row \in {row}
    OBVIOUS
  <2>3. ParsePayloadHeaders({row}, offered)[row] = AnswerFor(row, offered)
    BY <2>1, <2>2, AnswersAre DEF AnswerFor
  <2> QED  BY <2>1, <2>3
<1> QED  BY <1>1, Invariant, PTL

(* The walk and the assembly: a packet whose first SRD header is in its    *)
(* header row yields every segment its sender declared, each where its     *)
(* data is, or none and the flag that says why; one whose is not yields    *)
(* nothing, unflagged.  Of a packet cut short this is while no payload row *)
(* is offered: with one, the words past its end are an earlier packet's.   *)
THEOREM DescriptorsHold == Spec => []DescriptorsAreTrue
<1>1. IInv => DescriptorsAreTrue
  <2> SUFFICES ASSUME IInv, Parsed, NEW row \in Rows
               PROVE  LET p == packet[row]
                          answer == result[row]
                          over == ~IsShort(row) /\ Len(p.srds) > MaxSegments
                      IN  /\ answer.extended_sequence
                               = IF Start(p) < Bound(row) THEN Word(p, Start(p)) ELSE Zero
                          /\ FirstIsInside(row) /\ (IsWhole(p) \/ ~offered) =>
                              /\ answer.unreadable = IsShort(row)
                              /\ answer.overflowed = over
                              /\ answer.descriptors = IF IsShort(row) \/ over THEN << >>
                                                      ELSE TrueDescriptors(p)
                          /\ ~FirstIsInside(row) =>
                              /\ answer.descriptors = << >> /\ ~answer.overflowed /\ ~answer.unreadable
    BY Zenon DEF DescriptorsAreTrue
  <2> DEFINE p == packet[row]
             answer == result[row]
             over == ~IsShort(row) /\ Len(p.srds) > MaxSegments
  <2>1. Loaded /\ offered \in BOOLEAN /\ answer = AnswerFor(row, offered)
    BY ParsedIsLoaded
  <2>2. p = packet[row] /\ over = (~IsShort(row) /\ Len(p.srds) > MaxSegments)
    OBVIOUS
  <2>3. answer.unreadable \in BOOLEAN /\ answer.overflowed \in BOOLEAN
    <3> DEFINE walk == WalkFor(row, offered)
    <3>1. walk.unreadable \in BOOLEAN /\ walk.overflowed \in BOOLEAN
      BY DEF WalkFor, FirstWalk, WalkOf
    <3> HIDE DEF walk
    <3>2. answer.unreadable = walk.unreadable /\ answer.overflowed = walk.overflowed
      BY <2>1, AnswerShape DEF AnswerFor, walk
    <3> QED  BY <3>1, <3>2
  <2> HIDE DEF p, answer, over
  <2>4. /\ answer.extended_sequence = IF Start(p) < Bound(row) THEN Word(p, Start(p)) ELSE Zero
        /\ FirstIsInside(row) /\ (IsWhole(p) \/ ~offered) =>
             /\ answer.unreadable <=> IsShort(row)
             /\ answer.overflowed <=> over
             /\ answer.descriptors = IF IsShort(row) \/ over THEN << >> ELSE TrueDescriptors(p)
        /\ ~FirstIsInside(row) =>
             /\ answer.descriptors = << >> /\ ~answer.overflowed /\ ~answer.unreadable
    BY <2>1, <2>2, AnswerIsTrue
  <2>5. IsShort(row) \in BOOLEAN /\ over \in BOOLEAN
    BY <2>2 DEF IsShort
  <2>6. /\ (answer.unreadable <=> IsShort(row)) => answer.unreadable = IsShort(row)
        /\ (answer.overflowed <=> over) => answer.overflowed = over
    BY <2>3, <2>5
  <2>7. /\ answer.extended_sequence = IF Start(p) < Bound(row) THEN Word(p, Start(p)) ELSE Zero
        /\ FirstIsInside(row) /\ (IsWhole(p) \/ ~offered) =>
             /\ answer.unreadable = IsShort(row)
             /\ answer.overflowed = over
             /\ answer.descriptors = IF IsShort(row) \/ over THEN << >> ELSE TrueDescriptors(p)
        /\ ~FirstIsInside(row) =>
             /\ answer.descriptors = << >> /\ ~answer.overflowed /\ ~answer.unreadable
    BY <2>4, <2>6, Zenon
  <2> QED  BY <2>7, Zenon DEF p, answer, over
<1> QED  BY <1>1, Invariant, PTL

(* The state's types: no answer is of more segments than the bound, ends   *)
(* beyond where a header of that many could, or is both overflowed and     *)
(* unreadable.                                                             *)
THEOREM PayloadTypeCorrect == Spec => []TypeOK
<1>1. IInv => TypeOK
  <2> SUFFICES ASSUME IInv PROVE TypeOK
    OBVIOUS
  <2>1. cut \in Cuts /\ chunks \in 0 .. MaxChunks /\ fresh \subseteq Rows
    BY DEF IInv
  <2>2. ASSUME Parsed, NEW row \in Rows
        PROVE  /\ result[row].data_offset <= ExtendedSize + SrdSize * MaxSegments + cut
               /\ Len(result[row].descriptors) <= MaxSegments
               /\ ~(result[row].overflowed /\ result[row].unreadable)
    <3> DEFINE walk == WalkFor(row, offered)
               o == PayloadOffset(row)
               answer == result[row]
    <3>1. Loaded /\ offered \in BOOLEAN /\ answer = AnswerFor(row, offered)
      BY <2>2, ParsedIsLoaded
    <3>2. o \in Nat /\ Bound(row) \in Nat /\ o <= cut /\ cut \in Nat
      <4>1. /\ cut \in Nat /\ Bound(row) \in Nat /\ Size(packet[row]) \in Nat /\ o \in Nat
            /\ Bound(row) = (IF Size(packet[row]) <= cut THEN Size(packet[row]) ELSE cut)
            /\ o <= Bound(row)
        BY <3>1, RowFacts
      <4> HIDE DEF o
      <4> QED  BY <4>1
    <3>3. /\ Len(walk.srds) \in 0 .. MaxSegments /\ DOMAIN walk.srds = 1 .. Len(walk.srds)
          /\ ~(walk.overflowed /\ walk.unreadable)
      <4>1. Bound(row) \in Int /\ Reach(row) \in Int /\ 0 \in Nat
        <5>1. Reach(row) \in Nat
          BY <3>1, ReachIs
        <5> QED  BY <3>2, <5>1
      <4>2. CASE Crosses(row, offered)
        <5>1. walk = WalkOf(Gathered(row), 0, Reach(row))
          BY <4>2 DEF WalkFor
        <5> HIDE DEF walk
        <5> QED  BY <4>1, <5>1, WalkBounds
      <4>3. CASE ~Crosses(row, offered)
        <5>1. walk = WalkOf(header[row], o, Bound(row))
          BY <4>3 DEF WalkFor, FirstWalk
        <5> HIDE DEF walk, o
        <5> QED  BY <3>2, <4>1, <5>1, WalkBounds
      <4> QED  BY <4>2, <4>3
    <3> HIDE DEF walk, o, answer
    <3>4. /\ answer.overflowed = walk.overflowed /\ answer.unreadable = walk.unreadable
          /\ answer.data_offset = o + ExtendedSize + SrdSize * Len(walk.srds)
          /\ walk.overflowed \/ walk.unreadable => answer.descriptors = << >>
          /\ ~walk.overflowed /\ ~walk.unreadable => answer.descriptors = ListOf(walk, o)
      BY <3>1, AnswerShape DEF AnswerFor, walk, o
    <3>5. MaxSegments \in Nat
      BY ConstantFacts
    <3>6. answer.data_offset <= ExtendedSize + SrdSize * MaxSegments + cut
      <4> DEFINE k == Len(walk.srds)
      <4>1. k \in Nat /\ k <= MaxSegments /\ answer.data_offset = o + 1 + 3 * k
        BY <3>3, <3>4 DEF ExtendedSize, SrdSize
      <4> HIDE DEF k
      <4> QED  BY <3>2, <3>5, <4>1 DEF ExtendedSize, SrdSize
    <3>7. Len(answer.descriptors) <= MaxSegments
      <4>1. CASE walk.overflowed \/ walk.unreadable
        BY <3>4, <3>5, <4>1
      <4>2. CASE ~(walk.overflowed \/ walk.unreadable)
        <5> DEFINE k == Len(walk.srds)
                   item(s) == [srd |-> walk.srds[s],
                               source |-> (o + ExtendedSize + SrdSize * k)
                                 + SumOf(SubSeq([t \in DOMAIN walk.srds |-> walk.srds[t].length], 1, s - 1))]
        <5>1. answer.descriptors = [s \in DOMAIN walk.srds |-> item(s)]
          BY <3>4, <4>2, Zenon DEF ListOf
        <5>2. k \in 0 .. MaxSegments /\ DOMAIN walk.srds = 1 .. k
          BY <3>3
        <5> HIDE DEF item, k
        <5>3. answer.descriptors = [s \in 1 .. k |-> item(s)] /\ k \in Nat
          BY <5>1, <5>2
        <5>4. Len(answer.descriptors) = k
          BY <5>3
        <5> QED  BY <3>5, <5>2, <5>4
      <4> QED  BY <4>1, <4>2
    <3>8. ~(answer.overflowed /\ answer.unreadable)
      BY <3>3, <3>4
    <3> QED  BY <3>6, <3>7, <3>8 DEF answer
  <2> QED  BY <2>1, <2>2 DEF TypeOK
<1> QED  BY <1>1, Invariant, PTL

=============================================================================
