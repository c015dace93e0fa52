---------------------------- MODULE FrameProofs ----------------------------
(***************************************************************************)
(* That frame counting does not see where a capture was cut into chunks,   *)
(* for units of any length, captures of any length and packets repeated    *)
(* any distance apart.                                                     *)
(***************************************************************************)
EXTENDS FrameFlow, Foundations

-----------------------------------------------------------------------------
(* Where the elements of two sequences stand in the one after the other.   *)
LEMMA Joining ==
    ASSUME NEW S, NEW s \in Seq(S), NEW t \in Seq(S), NEW n, n = Len(s), NEW k, k = Len(t)
    PROVE  /\ s \o t \in Seq(S) /\ Len(s \o t) = n + k /\ DOMAIN (s \o t) = 1 .. n + k
           /\ \A i \in 1 .. n : (s \o t)[i] = s[i]
           /\ \A j \in 1 .. k : (s \o t)[n + j] = t[j]
<1>1. /\ s \o t \in Seq(S) /\ Len(s \o t) = n + k
      /\ \A i \in 1 .. n + k : (s \o t)[i] = IF i <= n THEN s[i] ELSE t[i - n]
  BY ConcatProperties
<1>2. DOMAIN (s \o t) = 1 .. n + k /\ n \in Nat /\ k \in Nat
  BY <1>1, LenProperties
<1>3. ASSUME NEW i \in 1 .. n
      PROVE  (s \o t)[i] = s[i]
  BY <1>1, <1>2
<1>4. ASSUME NEW j \in 1 .. k
      PROVE  (s \o t)[n + j] = t[j]
  <2>1. n + j \in 1 .. n + k /\ ~(n + j <= n) /\ n + j - n = j
    BY <1>2
  <2> QED  BY <1>1, <2>1
<1> QED  BY <1>1, <1>2, <1>3, <1>4

(* T is A, of the first N places, and B, of the next K, moved on by N. *)
Joins(T, N, A, K, B) ==
    /\ N \in Nat /\ K \in Nat
    /\ A \in SUBSET (1 .. N) /\ B \in SUBSET (1 .. K) /\ T \in SUBSET Int
    /\ \A i \in Int : i \in T <=> (i \in A \/ i - N \in B)

(* Counting places in two stretches, the second after the first N.         *)
LEMMA CountInStretches ==
    ASSUME NEW T, NEW N, NEW A, NEW K, NEW B, Joins(T, N, A, K, B)
    PROVE  Cardinality(T) = Cardinality(A) + Cardinality(B)
<1> DEFINE shifted == {N + j : j \in B}
           f == [j \in B |-> N + j]
<1>0. /\ N \in Nat /\ K \in Nat
      /\ A \in SUBSET (1 .. N) /\ B \in SUBSET (1 .. K) /\ T \in SUBSET Int
      /\ \A i \in Int : i \in T <=> (i \in A \/ i - N \in B)
  BY DEF Joins
<1>1. IsFiniteSet(A) /\ IsFiniteSet(B)
  <2>1. IsFiniteSet(1 .. N) /\ IsFiniteSet(1 .. K)
    BY <1>0, FS_Interval
  <2> QED  BY <1>0, <2>1, FS_Subset
<1>2. ExistsBijection(B, shifted)
  <2>1. f \in Injection(B, shifted)
    BY <1>0 DEF Injection, IsInjective
  <2>2. f \in Surjection(B, shifted)
    BY <1>0 DEF Surjection
  <2> QED  BY <2>1, <2>2 DEF ExistsBijection, Bijection
<1>3. IsFiniteSet(shifted) /\ Cardinality(shifted) = Cardinality(B)
  BY <1>1, <1>2, FS_Bijection
<1>4. A \cap shifted = {}
  BY <1>0
<1>9. T = A \cup shifted
  <2>1. ASSUME NEW i \in Int
        PROVE  i \in shifted <=> i - N \in B
    <3>1. i = N + (i - N)
      BY <1>0
    <3>2. ASSUME NEW j \in B, i = N + j
          PROVE  j = i - N
      BY <1>0, <3>2
    <3> QED  BY <3>1, <3>2
  <2>2. \A j \in B : N + j \in Int
    BY <1>0
  <2>3. /\ \A i \in A : i \in Int
        /\ \A i \in shifted : i \in Int
    BY <1>0, <2>2
  <2> HIDE DEF shifted
  <2> QED  BY <1>0, <2>1, <2>3
<1>5. Cardinality(A \cap shifted) = 0
  BY <1>4, FS_EmptySet
<1>6. Cardinality(A) \in Nat /\ Cardinality(B) \in Nat
  BY <1>1, FS_CardinalityType
<1> HIDE DEF shifted
<1>7. Cardinality(A \cup shifted) = Cardinality(A) + Cardinality(shifted) - Cardinality(A \cap shifted)
  BY <1>1, <1>3, FS_Union
<1>8. Cardinality(A \cup shifted) = Cardinality(A) + Cardinality(B)
  BY <1>3, <1>5, <1>6, <1>7
<1> QED  BY <1>8, <1>9

-----------------------------------------------------------------------------
(* The inductive invariant: what frame counting says of the capture, with  *)
(* the one fact that carries it over a cut - that the tracker holds the    *)
(* marker bit of the last packet handed over, and none before the first.   *)
HoldsTheLastMarker ==
    marked <=> (Len(capture) > 0 /\ IsMarked(capture[Len(capture)]))

IInv == TypeOK /\ HoldsTheLastMarker /\ IndexForgetsTheChunks /\ EveryStartIsClaimed

LEMMA MarkedIsBoolean ==
    ASSUME NEW count
    PROVE  IsMarked(count) \in BOOLEAN
  BY DEF IsMarked

LEMMA InitHolds == Init => IInv
<1> SUFFICES ASSUME Init PROVE IInv
  OBVIOUS
<1>1. frames = 0 /\ marked = FALSE /\ newest = -1 /\ buffer = << >> /\ capture = << >>
      /\ index = << >> /\ starts = << >>
  BY DEF Init, TrackerInit
<1>2. DOMAIN capture = {} /\ Len(capture) = 0
  BY <1>1
<1>3. TypeOK
  <2>1. -1 \in -1 .. MaxCount
    BY UnitAssumption
  <2>2. << >> \in Seq(Nat) /\ << >> \in Seq(BOOLEAN)
    BY EmptySeq
  <2> QED  BY <1>1, <1>2, <2>1, <2>2 DEF TypeOK
<1>4. HoldsTheLastMarker
  BY <1>1, <1>2 DEF HoldsTheLastMarker
<1>5. {i \in DOMAIN capture : Rises(i)} = {}
  BY <1>2
<1>6. Cardinality({i \in DOMAIN capture : Rises(i)}) = 0
  BY <1>5, FS_EmptySet
<1>7. IndexForgetsTheChunks
  BY <1>1, <1>2, <1>6 DEF IndexForgetsTheChunks
<1>8. EveryStartIsClaimed
  BY <1>2 DEF EveryStartIsClaimed
<1> QED  BY <1>3, <1>4, <1>7, <1>8 DEF IInv

(* A packet captured is handed to nobody yet. *)
LEMMA CapturingHolds ==
    ASSUME IInv, NEW count \in Nat, buffer' = Append(buffer, count),
           newest' \in -1 .. MaxCount, UNCHANGED <<tracker, capture, index, starts>>
    PROVE  IInv'
<1>1. frames' = frames /\ marked' = marked /\ capture' = capture /\ index' = index
      /\ starts' = starts
  BY DEF tracker
<1>2. TypeOK'
  BY <1>1 DEF IInv, TypeOK
<1>3. HoldsTheLastMarker'
  BY <1>1 DEF IInv, HoldsTheLastMarker
<1>4. IndexForgetsTheChunks'
  BY <1>1 DEF IInv, IndexForgetsTheChunks, Rises
<1>5. EveryStartIsClaimed'
  BY <1>1 DEF IInv, EveryStartIsClaimed, Rises
<1> QED  BY <1>2, <1>3, <1>4, <1>5 DEF IInv

(* What a chunk says of itself, as sequences as long as the chunk. *)
LEMMA ChunkFacts ==
    ASSUME buffer \in Seq(Nat), marked \in BOOLEAN
    PROVE  LET K == Len(buffer)
               edges == FrameBoundaries(Markers(buffer), marked)
               claimed == FrameStarts(Markers(buffer), marked)
           IN  /\ K \in Nat /\ DOMAIN buffer = 1 .. K
               /\ edges \in [1 .. K -> BOOLEAN]
               /\ \A j \in 1 .. K : edges[j] <=>
                     /\ IsMarked(buffer[j])
                     /\ IF j = 1 THEN ~marked ELSE ~IsMarked(buffer[j - 1])
               /\ claimed \in [1 .. K -> BOOLEAN]
               /\ \A j \in 1 .. K : claimed[j] <=> IF j = 1 THEN marked ELSE edges[j - 1]
<1> DEFINE K == Len(buffer)
           markers == Markers(buffer)
           edges == FrameBoundaries(markers, marked)
           claimed == FrameStarts(markers, marked)
<1>1. K \in Nat /\ DOMAIN buffer = 1 .. K
  BY LenProperties
<1>2. markers = [j \in 1 .. K |-> IsMarked(buffer[j])]
  BY <1>1 DEF Markers
<1>3. DOMAIN markers = 1 .. K /\ \A j \in 1 .. K : markers[j] = IsMarked(buffer[j])
  BY <1>2
<1> HIDE DEF markers, K
<1>4. edges = [j \in 1 .. K |-> markers[j] /\ ~After(marked, markers)[j]]
  BY <1>3 DEF FrameBoundaries
<1>5. \A j \in 1 .. K : After(marked, markers)[j] = IF j = 1 THEN marked ELSE markers[j - 1]
  BY <1>3 DEF After
<1>6. edges \in [1 .. K -> BOOLEAN]
  BY <1>4
<1>7. ASSUME NEW j \in 1 .. K
      PROVE  edges[j] <=> /\ IsMarked(buffer[j])
                          /\ IF j = 1 THEN ~marked ELSE ~IsMarked(buffer[j - 1])
  <2>1. edges[j] <=> markers[j] /\ ~After(marked, markers)[j]
    BY <1>4
  <2>2. markers[j] = IsMarked(buffer[j])
    BY <1>3
  <2>3. CASE j = 1
    BY <1>5, <2>1, <2>2, <2>3
  <2>4. CASE j # 1
    <3>1. j - 1 \in 1 .. K
      BY <1>1, <2>4 DEF K
    <3>2. markers[j - 1] = IsMarked(buffer[j - 1])
      BY <1>3, <3>1
    <3> QED  BY <1>5, <2>1, <2>2, <2>4, <3>2
  <2> QED  BY <2>3, <2>4
<1> HIDE DEF edges
<1>8. DOMAIN edges = 1 .. K
  BY <1>6
<1>9. claimed = [j \in 1 .. K |-> IF j = 1 THEN marked ELSE edges[j - 1]]
  BY <1>8 DEF FrameStarts, UnitStarts, After, edges
<1>10. claimed \in [1 .. K -> BOOLEAN]
  <2>1. ASSUME NEW j \in 1 .. K
        PROVE  (IF j = 1 THEN marked ELSE edges[j - 1]) \in BOOLEAN
    <3>1. j # 1 => j - 1 \in 1 .. K
      BY <1>1 DEF K
    <3> QED  BY <1>6, <3>1
  <2> QED  BY <1>9, <2>1
<1>11. \A j \in 1 .. K : claimed[j] <=> IF j = 1 THEN marked ELSE edges[j - 1]
  BY <1>9
<1> QED  BY <1>1, <1>6, <1>7, <1>10, <1>11 DEF K, edges, markers

(* Handing a chunk over keeps every part: its boundaries are where the     *)
(* marker rises in the longer capture, and what was answered stands.       *)
LEMMA HandHolds ==
    ASSUME IInv, Hand, NEW N, N = Len(capture), NEW K, K = Len(buffer)
    PROVE  IInv'
<1> DEFINE edges == FrameBoundaries(Markers(buffer), marked)
           claimed == FrameStarts(Markers(buffer), marked)
           numbered == Indexed(edges, frames)
           inChunk(k) == {j \in 1 .. k : edges[j]}
           before(n) == {j \in 1 .. n : Rises(j)}
<1>1. /\ frames \in Nat /\ marked \in BOOLEAN /\ newest \in -1 .. MaxCount
      /\ buffer \in Seq(Nat) /\ capture \in Seq(Nat)
      /\ index \in Seq(Nat) /\ starts \in Seq(BOOLEAN)
      /\ Len(index) = N /\ Len(starts) = N
  BY DEF IInv, TypeOK
<1>2. /\ K \in Nat /\ DOMAIN buffer = 1 .. K
      /\ edges \in [1 .. K -> BOOLEAN]
      /\ \A j \in 1 .. K : edges[j] <=>
            /\ IsMarked(buffer[j])
            /\ IF j = 1 THEN ~marked ELSE ~IsMarked(buffer[j - 1])
      /\ claimed \in [1 .. K -> BOOLEAN]
      /\ \A j \in 1 .. K : claimed[j] <=> IF j = 1 THEN marked ELSE edges[j - 1]
  BY <1>1, ChunkFacts
<1>3. N \in Nat /\ DOMAIN capture = 1 .. N
  BY <1>1, LenProperties
<1>4. /\ ObserveMarkers(Markers(buffer))
      /\ index' = index \o numbered /\ starts' = starts \o claimed
      /\ capture' = capture \o buffer /\ buffer' = << >> /\ newest' = newest
  BY DEF Hand
<1> HIDE DEF edges, claimed
<1>5. numbered = [j \in 1 .. K |-> frames + Cardinality(inChunk(j - 1))]
  BY <1>2 DEF Indexed
<1>6. ASSUME NEW k \in 0 .. K
      PROVE  Cardinality(inChunk(k)) \in Nat
  <2>1. inChunk(k) \in SUBSET (1 .. K)
    BY <1>2
  <2>2. IsFiniteSet(1 .. K)
    BY <1>2, FS_Interval
  <2> HIDE DEF inChunk
  <2> QED  BY <2>1, <2>2, FS_Subset, FS_CardinalityType
<1>7. numbered \in [1 .. K -> Nat]
  <2>1. ASSUME NEW j \in 1 .. K
        PROVE  frames + Cardinality(inChunk(j - 1)) \in Nat
    <3>1. j - 1 \in 0 .. K
      BY <1>2
    <3>2. Cardinality(inChunk(j - 1)) \in Nat
      BY <1>6, <3>1
    <3> HIDE DEF inChunk
    <3> QED  BY <1>1, <3>2
  <2> QED  BY <1>5, <2>1
<1>8. /\ numbered \in Seq(Nat) /\ Len(numbered) = K
      /\ claimed \in Seq(BOOLEAN) /\ Len(claimed) = K
  BY <1>2, <1>7, FunctionIsSeq
<1>9. /\ frames' = frames + Cardinality(inChunk(K))
      /\ K > 0 => marked' = IsMarked(buffer[K])
      /\ K = 0 => marked' = marked
  <2>1. CASE K = 0
    <3>1. Markers(buffer) = << >>
      BY <1>2, <2>1 DEF Markers
    <3>2. frames' = frames /\ marked' = marked
      BY <1>4, <3>1 DEF ObserveMarkers, tracker
    <3>3. inChunk(K) = {}
      BY <2>1
    <3> QED  BY <1>1, <2>1, <3>2, <3>3, FS_EmptySet
  <2>2. CASE K > 0
    <3>1. Markers(buffer) \in [1 .. K -> BOOLEAN]
      BY <1>2, MarkedIsBoolean DEF Markers
    <3>2. Len(Markers(buffer)) = K
      BY <1>2, <3>1, FunctionIsSeq
    <3>3. Markers(buffer) # << >>
      BY <2>2, <3>2
    <3>4. {i \in DOMAIN edges : edges[i]} = inChunk(K)
      BY <1>2
    <3>5. frames' = frames + Cardinality({i \in DOMAIN edges : edges[i]})
      BY <1>4, <3>3 DEF ObserveMarkers, edges
    <3>6. marked' = Markers(buffer)[K]
      BY <1>4, <3>2, <3>3 DEF ObserveMarkers
    <3>7. marked' = IsMarked(buffer[K])
      BY <1>2, <2>2, <3>6 DEF Markers
    <3> HIDE DEF inChunk
    <3>8. frames' = frames + Cardinality(inChunk(K))
      BY <3>4, <3>5
    <3>9. K # 0
      BY <2>2
    <3> QED  BY <2>2, <3>7, <3>8, <3>9, Zenon
  <2> QED  BY <1>2, <2>1, <2>2
<1>10. /\ capture' \in Seq(Nat) /\ Len(capture') = N + K /\ DOMAIN capture' = 1 .. N + K
       /\ \A i \in 1 .. N : capture'[i] = capture[i]
       /\ \A j \in 1 .. K : capture'[N + j] = buffer[j]
  BY <1>1, <1>4, Joining
<1>11. /\ index' \in Seq(Nat) /\ Len(index') = N + K
       /\ \A i \in 1 .. N : index'[i] = index[i]
       /\ \A j \in 1 .. K : index'[N + j] = frames + Cardinality(inChunk(j - 1))
  <2>1. \A j \in 1 .. K : numbered[j] = frames + Cardinality(inChunk(j - 1))
    BY <1>5
  <2> HIDE DEF numbered, inChunk
  <2>2. N = Len(index) /\ K = Len(numbered) /\ index \in Seq(Nat) /\ numbered \in Seq(Nat)
    BY <1>1, <1>8
  <2>3. /\ index' \in Seq(Nat) /\ Len(index') = N + K
        /\ \A i \in 1 .. N : index'[i] = index[i]
        /\ \A j \in 1 .. K : index'[N + j] = numbered[j]
    <3>1. /\ index \o numbered \in Seq(Nat) /\ Len(index \o numbered) = N + K
          /\ \A i \in 1 .. N : (index \o numbered)[i] = index[i]
          /\ \A j \in 1 .. K : (index \o numbered)[N + j] = numbered[j]
      BY <2>2, Joining
    <3> QED  BY <1>4, <3>1
  <2> QED  BY <2>1, <2>3
<1>12. /\ starts' \in Seq(BOOLEAN) /\ Len(starts') = N + K
       /\ \A i \in 1 .. N : starts'[i] = starts[i]
       /\ \A j \in 1 .. K : starts'[N + j] = claimed[j]
  <2> HIDE DEF numbered
  <2>1. N = Len(starts) /\ K = Len(claimed) /\ starts \in Seq(BOOLEAN) /\ claimed \in Seq(BOOLEAN)
    BY <1>1, <1>8
  <2>2. /\ starts \o claimed \in Seq(BOOLEAN) /\ Len(starts \o claimed) = N + K
        /\ \A i \in 1 .. N : (starts \o claimed)[i] = starts[i]
        /\ \A j \in 1 .. K : (starts \o claimed)[N + j] = claimed[j]
    BY <2>1, Joining
  <2> QED  BY <1>4, <2>2
<1>13. marked <=> (N > 0 /\ IsMarked(capture[N]))
  BY DEF IInv, HoldsTheLastMarker
<1> HIDE DEF numbered
<1>14. \A i \in 1 .. N : Rises(i)' <=> Rises(i)
  <2> TAKE i \in 1 .. N
  <2>1. capture'[i] = capture[i] /\ (i # 1 => i - 1 \in 1 .. N)
    BY <1>3, <1>10
  <2>2. i # 1 => capture'[i - 1] = capture[i - 1]
    BY <1>10, <2>1
  <2>3. i \in DOMAIN capture /\ i \in DOMAIN capture'
    BY <1>2, <1>3, <1>10
  <2> QED  BY <2>1, <2>2, <2>3 DEF Rises, IsMarked
<1>15. \A j \in 1 .. K : Rises(N + j)' <=> edges[j]
  <2> TAKE j \in 1 .. K
  <2>1. N + j \in DOMAIN capture' /\ capture'[N + j] = buffer[j]
    BY <1>2, <1>3, <1>10
  <2>2. CASE j # 1
    <3>1. j - 1 \in 1 .. K /\ N + j # 1 /\ N + j - 1 = N + (j - 1)
      BY <1>2, <1>3, <2>2
    <3>2. capture'[N + j - 1] = buffer[j - 1]
      BY <1>10, <3>1
    <3> QED  BY <1>2, <2>1, <2>2, <3>1, <3>2 DEF Rises, IsMarked
  <2>3. CASE j = 1 /\ N = 0
    <3>1. N + j = 1 /\ ~marked
      BY <1>13, <2>3
    <3> QED  BY <1>2, <2>1, <2>3, <3>1 DEF Rises, IsMarked
  <2>4. CASE j = 1 /\ N > 0
    <3>1. N + j # 1 /\ N + j - 1 = N /\ N \in 1 .. N
      BY <1>3, <2>4
    <3>2. capture'[N + j - 1] = capture[N]
      BY <1>10, <3>1
    <3> QED  BY <1>2, <1>13, <2>1, <2>4, <3>1, <3>2 DEF Rises, IsMarked
  <2> QED  BY <1>3, <2>2, <2>3, <2>4
<1>16. ASSUME NEW k \in 0 .. K
       PROVE  Cardinality({i \in 1 .. N + k : Rises(i)'}) = frames + Cardinality(inChunk(k))
  <2> DEFINE T == {i \in 1 .. N + k : Rises(i)'}
  <2>1. ASSUME NEW i \in Int
        PROVE  i \in T <=> (i \in before(N) \/ i - N \in inChunk(k))
    <3>1. CASE i <= N
      <4>1. i - N \notin 1 .. k
        BY <1>3, <3>1
      <4>2. i \in 1 .. N => i \in 1 .. N + k
        BY <1>3
      <4> QED  BY <1>14, <1>3, <3>1, <4>1, <4>2
    <3>2. CASE i > N
      <4>1. i \notin 1 .. N /\ (i \in 1 .. N + k <=> i - N \in 1 .. k)
        BY <1>2, <1>3, <3>2
      <4>2. ASSUME i - N \in 1 .. k
            PROVE  Rises(i)' <=> edges[i - N]
        <5>1. i - N \in 1 .. K /\ N + (i - N) = i
          BY <1>2, <1>3, <4>2
        <5> QED  BY <1>15, <5>1
      <4> QED  BY <4>1, <4>2
    <3> QED  BY <1>3, <3>1, <3>2
  <2>2. before(N) \in SUBSET (1 .. N) /\ inChunk(k) \in SUBSET (1 .. K) /\ T \in SUBSET Int
    BY <1>2, <1>3
  <2>3. Cardinality(T) = Cardinality(before(N)) + Cardinality(inChunk(k))
    <3> HIDE DEF before, inChunk, T
    <3>1. Joins(T, N, before(N), K, inChunk(k))
      BY <1>2, <1>3, <2>1, <2>2 DEF Joins
    <3> QED  BY <3>1, CountInStretches
  <2>4. frames = Cardinality(before(N))
    <3>1. frames = Cardinality({i \in DOMAIN capture : Rises(i)})
      BY DEF IInv, IndexForgetsTheChunks
    <3> QED  BY <1>3, <3>1
  <2> QED  BY <2>3, <2>4
<1>17. TypeOK'
  <2>1. frames' \in Nat
    <3>1. Cardinality(inChunk(K)) \in Nat
      BY <1>2, <1>6
    <3> HIDE DEF inChunk
    <3> QED  BY <1>1, <1>9, <3>1
  <2>2. marked' \in BOOLEAN
    BY <1>1, <1>2, <1>9, MarkedIsBoolean
  <2>3. buffer' \in Seq(Nat)
    BY <1>4, EmptySeq
  <2> QED  BY <1>1, <1>4, <1>10, <1>11, <1>12, <2>1, <2>2, <2>3 DEF TypeOK
<1>18. HoldsTheLastMarker'
  <2>1. CASE K = 0
    <3>1. Len(capture') = N /\ (N > 0 => capture'[N] = capture[N])
      BY <1>3, <1>10, <2>1
    <3> QED  BY <1>9, <1>13, <2>1, <3>1 DEF HoldsTheLastMarker, IsMarked
  <2>2. CASE K > 0
    <3>1. K \in 1 .. K /\ N + K > 0
      BY <1>2, <1>3, <2>2
    <3>2. Len(capture') > 0 /\ Len(capture') = N + K
      BY <1>10, <3>1
    <3>3. capture'[N + K] = buffer[K]
      BY <1>10, <3>1
    <3>4. capture'[Len(capture')] = buffer[K]
      BY <3>2, <3>3
    <3> QED  BY <1>9, <2>2, <3>2, <3>4 DEF HoldsTheLastMarker, IsMarked
  <2> QED  BY <1>2, <2>1, <2>2
<1>19. IndexForgetsTheChunks'
  <2>1. ASSUME NEW i \in 1 .. N + K
        PROVE  index'[i] = Cardinality({j \in 1 .. i - 1 : Rises(j)'})
    <3>1. CASE i <= N
      <4>1. i \in 1 .. N /\ i \in DOMAIN capture /\ index'[i] = index[i]
        BY <1>3, <1>11, <3>1
      <4>2. index[i] = Cardinality({j \in 1 .. i - 1 : Rises(j)})
        BY <4>1 DEF IInv, IndexForgetsTheChunks
      <4>3. \A j \in 1 .. i - 1 : j \in 1 .. N
        BY <1>3, <4>1
      <4>4. {j \in 1 .. i - 1 : Rises(j)'} = {j \in 1 .. i - 1 : Rises(j)}
        BY <1>14, <4>3
      <4> QED  BY <4>1, <4>2, <4>4
    <3>2. CASE i > N
      <4>1. i - N \in 1 .. K /\ i = N + (i - N) /\ i - N - 1 \in 0 .. K
            /\ i - 1 = N + (i - N - 1)
        BY <1>2, <1>3, <3>2
      <4>2. index'[i] = frames + Cardinality(inChunk(i - N - 1))
        BY <1>11, <4>1
      <4>3. Cardinality({j \in 1 .. N + (i - N - 1) : Rises(j)'})
              = frames + Cardinality(inChunk(i - N - 1))
        BY <1>16, <4>1
      <4> QED  BY <4>1, <4>2, <4>3
    <3> QED  BY <1>2, <1>3, <3>1, <3>2
  <2>2. frames' = Cardinality({i \in 1 .. N + K : Rises(i)'})
    BY <1>2, <1>9, <1>16
  <2> QED  BY <1>10, <2>1, <2>2 DEF IndexForgetsTheChunks
<1>20. EveryStartIsClaimed'
  <2>1. ASSUME NEW i \in 1 .. N + K
        PROVE  (Rises(i - 1)' => starts'[i]) /\ (starts'[i] => i > 1 /\ IsMarked(capture'[i - 1]))
    <3>1. CASE i <= N
      <4>1. i \in 1 .. N /\ i \in DOMAIN capture /\ starts'[i] = starts[i]
        BY <1>3, <1>12, <3>1
      <4>2. (Rises(i - 1) => starts[i]) /\ (starts[i] => i > 1 /\ IsMarked(capture[i - 1]))
        BY <4>1 DEF IInv, EveryStartIsClaimed
      <4>3. CASE i = 1
        <5>1. i - 1 \notin DOMAIN capture'
          BY <1>10, <4>3
        <5> QED  BY <4>1, <4>2, <4>3, <5>1 DEF Rises
      <4>4. CASE i # 1
        <5>1. i - 1 \in 1 .. N
          BY <1>3, <4>1, <4>4
        <5> QED  BY <1>10, <1>14, <4>1, <4>2, <5>1
      <4> QED  BY <4>3, <4>4
    <3>2. CASE i = N + 1
      <4>1. 1 \in 1 .. K /\ starts'[i] = claimed[1] /\ i - 1 = N
        BY <1>2, <1>3, <1>12, <3>2
      <4>2. starts'[i] <=> marked
        BY <1>2, <4>1
      <4>3. CASE N = 0
        <5>1. i - 1 \notin DOMAIN capture'
          BY <1>10, <4>1, <4>3
        <5> QED  BY <1>13, <4>2, <4>3, <5>1 DEF Rises
      <4>4. CASE N > 0
        <5>1. N \in 1 .. N /\ i > 1
          BY <1>3, <3>2, <4>4
        <5>2. (Rises(N)' => IsMarked(capture[N])) /\ capture'[N] = capture[N]
          BY <1>10, <1>14, <5>1 DEF Rises
        <5> QED  BY <1>13, <4>1, <4>2, <4>4, <5>1, <5>2
      <4> QED  BY <1>3, <4>3, <4>4
    <3>3. CASE i > N + 1
      <4>1. i - N \in 1 .. K /\ i - N # 1 /\ i - N - 1 \in 1 .. K /\ i = N + (i - N)
            /\ i - 1 = N + (i - N - 1) /\ i > 1
        BY <1>2, <1>3, <3>3
      <4>2. starts'[i] <=> edges[i - N - 1]
        <5>1. starts'[i] = claimed[i - N]
          BY <1>12, <4>1
        <5>2. claimed[i - N] <=> edges[i - N - 1]
          BY <1>2, <4>1
        <5> QED  BY <5>1, <5>2
      <4>3. Rises(i - 1)' <=> edges[i - N - 1]
        BY <1>15, <4>1
      <4>4. edges[i - N - 1] => IsMarked(capture'[i - 1])
        <5>1. capture'[i - 1] = buffer[i - N - 1]
          BY <1>10, <4>1
        <5>2. edges[i - N - 1] => IsMarked(buffer[i - N - 1])
          BY <1>2, <4>1
        <5> QED  BY <5>1, <5>2
      <4> QED  BY <4>1, <4>2, <4>3, <4>4
    <3> QED  BY <1>2, <1>3, <3>1, <3>2, <3>3
  <2> QED  BY <1>10, <2>1 DEF EveryStartIsClaimed
<1> QED  BY <1>17, <1>18, <1>19, <1>20 DEF IInv

LEMMA StepHolds == IInv /\ [Next]_vars => IInv'
<1> SUFFICES ASSUME IInv, [Next]_vars PROVE IInv'
  OBVIOUS
<1>1. ASSUME NEW count \in newest + 1 .. newest + UnitPackets - 1,
             count <= MaxCount, Arrive(count)
      PROVE  IInv'
  <2>1. count \in Nat /\ newest' \in -1 .. MaxCount
    BY <1>1, UnitAssumption DEF IInv, TypeOK, Arrive
  <2> QED  BY <1>1, <2>1, CapturingHolds DEF Arrive
<1>2. ASSUME NEW count \in newest - Lag .. newest, ArriveAgain(count)
      PROVE  IInv'
  <2>1. count \in Captured
    BY <1>2 DEF ArriveAgain
  <2>2. count \in Nat
    BY <2>1, LenProperties, ElementOfSeq DEF IInv, TypeOK, Captured
  <2>3. newest' \in -1 .. MaxCount
    BY <1>2 DEF IInv, TypeOK, ArriveAgain
  <2> QED  BY <1>2, <2>2, <2>3, CapturingHolds DEF ArriveAgain
<1>3. CASE Hand
  BY <1>3, HandHolds
<1>4. CASE UNCHANGED vars
  BY <1>4 DEF IInv, TypeOK, HoldsTheLastMarker, IndexForgetsTheChunks, EveryStartIsClaimed,
              Rises, vars, tracker
<1> QED  BY <1>1, <1>2, <1>3, <1>4 DEF Next

LEMMA Inductive == Spec => []IInv
  BY InitHolds, StepHolds, PTL DEF Spec

(* The state's types: a packet handed over has one index and one start,    *)
(* however many chunks it took.                                            *)
THEOREM FramesTypeCorrect == Spec => []TypeOK
<1>1. IInv => TypeOK
  BY DEF IInv
<1> QED  BY <1>1, Inductive, PTL

(* FrameTracker.observe: the index of every packet, and the count of       *)
(* frames, are those of the rising edges of the whole capture, wherever it *)
(* was cut into chunks and whatever was lost or repeated.                  *)
THEOREM IndexChunkFree == Spec => []IndexForgetsTheChunks
<1>1. IInv => IndexForgetsTheChunks
  BY DEF IInv
<1> QED  BY <1>1, Inductive, PTL

(* frame_starts: the packet after a rising edge is claimed on either side  *)
(* of any cut, and no packet that does not follow a marker is.             *)
THEOREM StartsClaimed == Spec => []EveryStartIsClaimed
<1>1. IInv => EveryStartIsClaimed
  BY DEF IInv
<1> QED  BY <1>1, Inductive, PTL


-----------------------------------------------------------------------------
(* What a network adds that repeats a packet only straight after itself:   *)
(* the capture never goes back, and loses less than a unit at a time.      *)
Steady(s) ==
    /\ \A i, j \in DOMAIN s : i <= j => s[i] <= s[j]
    /\ \A i \in DOMAIN s : i > 1 => s[i] < s[i - 1] + UnitPackets

Reaches(s, last) ==
    /\ \A i \in DOMAIN s : s[i] <= last
    /\ IF Len(s) = 0 THEN last = -1 ELSE s[Len(s)] = last

InOrder == Steady(capture \o buffer) /\ Reaches(capture \o buffer, newest)

LEMMA AppendSteady ==
    ASSUME NEW s \in Seq(Nat), NEW last \in Int, Steady(s), Reaches(s, last),
           NEW count \in Nat, last <= count, count < last + UnitPackets
    PROVE  Steady(Append(s, count)) /\ Reaches(Append(s, count), count)
<1> DEFINE t == Append(s, count)
           n == Len(s)
<1>1. /\ t \in Seq(Nat) /\ n \in Nat /\ DOMAIN s = 1 .. n /\ DOMAIN t = 1 .. n + 1
      /\ Len(t) = n + 1 /\ t[n + 1] = count /\ \A i \in 1 .. n : t[i] = s[i]
  OBVIOUS
<1>2. UnitPackets \in Nat /\ UnitPackets > 2
  BY UnitAssumption
<1> HIDE DEF t, n
<1>3. \A i \in 1 .. n : s[i] \in Nat /\ s[i] <= last
  BY <1>1 DEF Reaches
<1>4. \A i \in 1 .. n + 1 : t[i] <= count
  <2> SUFFICES ASSUME NEW i \in 1 .. n + 1 PROVE t[i] <= count
    OBVIOUS
  <2>1. i # n + 1 => i \in 1 .. n
    BY <1>1
  <2> QED  BY <1>1, <1>3, <2>1
<1>5. ASSUME NEW i \in 1 .. n + 1, NEW j \in 1 .. n + 1, i <= j PROVE t[i] <= t[j]
  <2>1. CASE j = n + 1
    BY <1>1, <1>4, <2>1
  <2>2. CASE j # n + 1
    <3>1. i \in 1 .. n /\ j \in 1 .. n
      BY <1>1, <1>5, <2>2
    <3> QED  BY <1>1, <1>5, <3>1 DEF Steady
  <2> QED  BY <2>1, <2>2
<1>6. ASSUME NEW i \in 1 .. n + 1, i > 1 PROVE t[i] < t[i - 1] + UnitPackets
  <2>1. i - 1 \in 1 .. n /\ t[i - 1] = s[i - 1]
    BY <1>1, <1>6
  <2>2. CASE i = n + 1
    <3>1. n # 0 /\ i - 1 = n
      BY <1>1, <1>6, <2>2
    <3>2. s[n] = last
      BY <3>1 DEF Reaches, n
    <3> QED  BY <1>1, <2>1, <2>2, <3>1, <3>2
  <2>3. CASE i # n + 1
    <3>1. i \in 1 .. n
      BY <1>1, <2>3
    <3> QED  BY <1>1, <1>6, <2>1, <3>1 DEF Steady
  <2> QED  BY <2>2, <2>3
<1>7. Steady(t)
  BY <1>1, <1>5, <1>6 DEF Steady
<1>8. Reaches(t, count)
  <2>1. Len(t) # 0
    BY <1>1
  <2> QED  BY <1>1, <1>4, <2>1 DEF Reaches
<1> QED  BY <1>7, <1>8 DEF t

LEMMA AppendLater ==
    ASSUME NEW s \in Seq(Nat), NEW t \in Seq(Nat), NEW count \in Nat
    PROVE  s \o Append(t, count) = Append(s \o t, count)
<1>1. Append(t, count) = t \o <<count>> /\ <<count>> \in Seq(Nat) /\ s \o t \in Seq(Nat)
  BY AppendIsConcat
<1>2. Append(s \o t, count) = (s \o t) \o <<count>>
  BY <1>1, AppendIsConcat, Zenon
<1>3. (s \o t) \o <<count>> = s \o (t \o <<count>>)
  BY <1>1, ConcatAssociative
<1> QED  BY <1>1, <1>2, <1>3, Zenon

LEMMA OrderInit == Init => InOrder
<1> SUFFICES ASSUME Init PROVE InOrder
  OBVIOUS
<1>1. capture = << >> /\ buffer = << >> /\ newest = -1
  BY DEF Init
<1>2. << >> \o << >> = << >> /\ DOMAIN << >> = {} /\ Len(<< >>) = 0
  OBVIOUS
<1>3. capture \o buffer = << >>
  BY <1>1, <1>2
<1> QED  BY <1>1, <1>2, <1>3 DEF InOrder, Steady, Reaches

LEMMA OrderStep ==
    ASSUME Lag = 0
    PROVE  IInv /\ InOrder /\ [Next]_vars => InOrder'
<1> SUFFICES ASSUME IInv, InOrder, [Next]_vars PROVE InOrder'
  OBVIOUS
<1> DEFINE all == capture \o buffer
<1>1. UnitPackets \in Nat /\ UnitPackets > 2
  BY UnitAssumption
<1>2. capture \in Seq(Nat) /\ buffer \in Seq(Nat) /\ newest \in Int /\ newest >= -1
  BY DEF IInv, TypeOK
<1>3. all \in Seq(Nat)
  BY <1>2
<1>4. ASSUME NEW count \in Nat, newest <= count, count < newest + UnitPackets,
             buffer' = Append(buffer, count), capture' = capture, newest' = count
      PROVE  InOrder'
  <2>1. capture' \o buffer' = Append(all, count)
    BY <1>2, <1>4, AppendLater
  <2> HIDE DEF all
  <2>2. Steady(all) /\ Reaches(all, newest)
    BY DEF InOrder, all
  <2>3. Steady(Append(all, count)) /\ Reaches(Append(all, count), count)
    BY <1>2, <1>3, <1>4, <2>2, AppendSteady
  <2> QED  BY <1>4, <2>1, <2>3 DEF InOrder, Steady, Reaches
<1>5. ASSUME NEW count \in newest + 1 .. newest + UnitPackets - 1, Arrive(count)
      PROVE  InOrder'
  <2>1. count \in Nat /\ newest <= count /\ count < newest + UnitPackets
    BY <1>1, <1>2
  <2> QED  BY <1>4, <1>5, <2>1 DEF Arrive
<1>6. ASSUME NEW count \in newest - Lag .. newest, ArriveAgain(count)
      PROVE  InOrder'
  <2>1. count = newest /\ count < newest + UnitPackets /\ newest <= count
    BY <1>1, <1>2
  <2>2. count \in Captured
    BY <1>6 DEF ArriveAgain
  <2>3. count \in Nat
    BY <1>2, <2>2 DEF Captured
  <2> QED  BY <1>4, <1>6, <2>1, <2>3 DEF ArriveAgain
<1>7. CASE Hand
  <2>1. capture' = all /\ buffer' = << >> /\ newest' = newest
    BY <1>7 DEF Hand
  <2>2. all \o << >> = all
    BY <1>3, ConcatEmptySeq
  <2>3. capture' \o buffer' = all
    BY <2>1, <2>2
  <2> QED  BY <2>1, <2>3 DEF InOrder, Steady, Reaches
<1>8. CASE UNCHANGED vars
  BY <1>8 DEF vars, InOrder, Steady, Reaches
<1> QED  BY <1>5, <1>6, <1>7, <1>8 DEF Next

LEMMA OrderHolds ==
    ASSUME Lag = 0
    PROVE  Spec => [](IInv /\ InOrder)
<1>1. Init => IInv /\ InOrder
  BY InitHolds, OrderInit
<1>2. IInv /\ InOrder /\ [Next]_vars => (IInv /\ InOrder)'
  BY StepHolds, OrderStep
<1> QED  BY <1>1, <1>2, PTL DEF Spec


(* Two markers are a unit apart. *)
LEMMA MarkersApart ==
    ASSUME NEW u \in Nat, NEW v \in Nat, IsMarked(u), IsMarked(v), u < v
    PROVE  v >= u + UnitPackets
<1> DEFINE p == (u + 1) \div UnitPackets
           q == (v + 1) \div UnitPackets
           m == UnitPackets
<1>1. m \in Nat /\ m > 2 /\ u + 1 \in Int /\ v + 1 \in Int
  BY UnitAssumption
<1>2. p \in Int /\ (u + 1) % m = 0 /\ u + 1 = p * m + ((u + 1) % m)
  BY <1>1, Division DEF IsMarked
<1>3. q \in Int /\ (v + 1) % m = 0 /\ v + 1 = q * m + ((v + 1) % m)
  BY <1>1, Division DEF IsMarked
<1> HIDE DEF p, q, m
<1>4. p * m \in Int /\ q * m \in Int
  BY <1>1, <1>2, <1>3
<1>5. u + 1 = p * m /\ v + 1 = q * m
  BY <1>2, <1>3, <1>4
<1>6. q > p
  <2> SUFFICES ASSUME q <= p PROVE FALSE
    BY <1>2, <1>3
  <2>1. q * m <= p * m
    BY <1>1, <1>2, <1>3
  <2> QED  BY <1>4, <1>5, <2>1
<1>7. q * m >= (p + 1) * m
  BY <1>1, <1>2, <1>3, <1>6
<1>8. (p + 1) * m = p * m + m
  BY <1>1, <1>2
<1>9. v >= u + m
  BY <1>1, <1>4, <1>5, <1>7, <1>8
<1> QED  BY <1>9 DEF m

(* In such a capture a marker that rises is a unit's whose marker had not  *)
(* come before, and each unit's marker rises once.                         *)
RisesOf(s, n) == {j \in 1 .. n : IsMarked(s[j]) /\ (j = 1 \/ ~IsMarked(s[j - 1]))}

UnitsOf(s, n) == {s[j] : j \in {k \in 1 .. n : IsMarked(s[k])}}

LEMMA EachUnitRisesOnce ==
    ASSUME NEW s \in Seq(Nat), Steady(s), NEW n \in 0 .. Len(s)
    PROVE  Cardinality(RisesOf(s, n)) = Cardinality(UnitsOf(s, n))
<1> DEFINE rises == RisesOf(s, n)
           units == UnitsOf(s, n)
           f == [j \in rises |-> s[j]]
<1>1. /\ UnitPackets \in Nat /\ n \in Nat /\ 1 .. n \subseteq DOMAIN s
      /\ \A j \in 1 .. n : s[j] \in Nat
  BY UnitAssumption
<1>2. /\ \A i, j \in 1 .. n : i <= j => s[i] <= s[j]
      /\ \A i \in 1 .. n : i > 1 => s[i] < s[i - 1] + UnitPackets
  BY <1>1 DEF Steady
<1>3. f \in [rises -> units]
  BY DEF RisesOf, UnitsOf
<1>4. ASSUME NEW i \in rises, NEW j \in rises, i < j, s[i] = s[j] PROVE FALSE
  <2>1. i \in 1 .. n /\ j \in 1 .. n /\ j - 1 \in 1 .. n /\ i <= j - 1 /\ j - 1 <= j /\ j # 1
    BY <1>1, <1>4 DEF RisesOf
  <2>2. s[i] <= s[j - 1] /\ s[j - 1] <= s[j]
    BY <1>2, <2>1
  <2>3. s[j - 1] = s[j]
    BY <1>1, <1>4, <2>1, <2>2
  <2> QED  BY <2>1, <2>3 DEF RisesOf
<1>5. \A i, j \in rises : f[i] = f[j] => i = j
  <2> SUFFICES ASSUME NEW i \in rises, NEW j \in rises, s[i] = s[j] PROVE i = j
    OBVIOUS
  <2>1. i \in Nat /\ j \in Nat
    BY <1>1 DEF RisesOf
  <2> QED  BY <1>4, <2>1
<1>6. \A v \in units : \E j \in rises : f[j] = v
  <2> SUFFICES ASSUME NEW v \in units PROVE \E j \in rises : s[j] = v
    OBVIOUS
  <2> DEFINE at == {j \in 1 .. n : s[j] = v}
  <2>1. PICK k \in 1 .. n : s[k] = v /\ IsMarked(v)
    BY DEF UnitsOf
  <2>2. at \subseteq Nat /\ k \in at
    BY <2>1
  <2> HIDE DEF at
  <2>3. PICK j \in at : \A i \in at : j <= i
    BY <2>2, LeastNatural, Zenon
  <2>4. j \in 1 .. n /\ s[j] = v
    BY <2>3 DEF at
  <2>5. CASE j = 1
    BY <2>1, <2>4, <2>5 DEF RisesOf
  <2>6. CASE j # 1
    <3>1. j - 1 \in 1 .. n /\ j - 1 <= j /\ j > 1 /\ ~(j <= j - 1)
      BY <1>1, <2>4, <2>6
    <3>2. s[j - 1] # v
      BY <2>3, <3>1 DEF at
    <3>3. s[j - 1] < v /\ v < s[j - 1] + UnitPackets
      BY <1>1, <1>2, <2>4, <3>1, <3>2
    <3>4. ~IsMarked(s[j - 1])
      <4> SUFFICES ASSUME IsMarked(s[j - 1]) PROVE FALSE
        OBVIOUS
      <4>1. v \in Nat /\ s[j - 1] \in Nat
        BY <1>1, <2>4, <3>1
      <4>2. v >= s[j - 1] + UnitPackets
        BY <2>1, <3>3, <4>1, MarkersApart
      <4> QED  BY <1>1, <3>3, <4>1, <4>2
    <3> QED  BY <2>1, <2>4, <3>4 DEF RisesOf
  <2> QED  BY <2>5, <2>6
<1>7. IsFiniteSet(rises)
  <2>1. IsFiniteSet(1 .. n) /\ rises \in SUBSET (1 .. n)
    BY <1>1, FS_Interval DEF RisesOf
  <2> QED  BY <2>1, FS_Subset
<1> HIDE DEF f, rises, units
<1>8. f \in Bijection(rises, units)
  BY <1>3, <1>5, <1>6 DEF Bijection, Injection, Surjection, IsInjective
<1>9. ExistsBijection(rises, units)
  BY <1>8 DEF ExistsBijection
<1>10. Cardinality(units) = Cardinality(rises)
  BY <1>7, <1>9, FS_Bijection
<1> QED  BY <1>10 DEF rises, units

LEMMA CaptureIsSteady ==
    ASSUME IInv, InOrder
    PROVE  Steady(capture)
<1> DEFINE all == capture \o buffer
<1>1. capture \in Seq(Nat) /\ buffer \in Seq(Nat)
  BY DEF IInv, TypeOK
<1>2. /\ DOMAIN capture = 1 .. Len(capture) /\ Len(capture) \in Nat
      /\ DOMAIN capture \subseteq DOMAIN all /\ \A i \in DOMAIN capture : all[i] = capture[i]
  <2>1. /\ DOMAIN all = 1 .. Len(capture) + Len(buffer)
        /\ \A i \in 1 .. Len(capture) : all[i] = capture[i]
    BY <1>1, Joining
  <2>2. DOMAIN capture = 1 .. Len(capture) /\ Len(capture) \in Nat /\ Len(buffer) \in Nat
    BY <1>1
  <2> QED  BY <2>1, <2>2
<1>3. Steady(all)
  BY DEF InOrder
<1> HIDE DEF all
<1>4. \A i \in DOMAIN capture : i > 1 => i - 1 \in DOMAIN capture
  BY <1>2
<1> QED  BY <1>2, <1>3, <1>4 DEF Steady

(* FrameTracker.observe, where a packet is repeated only straight after    *)
(* itself and no loss spans a unit: frames counts the units whose marker   *)
(* arrived, each once, however often its last packet did.  The run of two  *)
(* skewed legs shows that with copies further apart it does not.           *)
THEOREM FramesCountUnits ==
    ASSUME Lag = 0
    PROVE  Spec => []FramesAreUnits
<1>1. IInv /\ InOrder => FramesAreUnits
  <2> SUFFICES ASSUME IInv, InOrder PROVE FramesAreUnits
    OBVIOUS
  <2>1. capture \in Seq(Nat) /\ DOMAIN capture = 1 .. Len(capture) /\ Len(capture) \in 0 .. Len(capture)
    BY LenProperties DEF IInv, TypeOK
  <2>2. Cardinality(RisesOf(capture, Len(capture))) = Cardinality(UnitsOf(capture, Len(capture)))
    BY <2>1, CaptureIsSteady, EachUnitRisesOnce
  <2>3. {i \in DOMAIN capture : Rises(i)} = RisesOf(capture, Len(capture))
    BY <2>1 DEF Rises, RisesOf
  <2>4. frames = Cardinality({i \in DOMAIN capture : Rises(i)})
    BY DEF IInv, IndexForgetsTheChunks
  <2>5. {capture[i] : i \in {j \in DOMAIN capture : IsMarked(capture[j])}}
            = UnitsOf(capture, Len(capture))
    BY <2>1 DEF UnitsOf
  <2> QED  BY <2>2, <2>3, <2>4, <2>5, Zenon DEF FramesAreUnits
<1> QED  BY <1>1, OrderHolds, PTL

(* And a packet's first copy is filed under its own unit: its index counts *)
(* the units before it whose markers arrived, and no other.                *)
THEOREM PacketsFiled ==
    ASSUME Lag = 0
    PROVE  Spec => []PacketsAreFiled
<1>1. IInv /\ InOrder => PacketsAreFiled
  <2> SUFFICES ASSUME IInv, InOrder, NEW i \in DOMAIN capture,
                      \A j \in 1 .. i - 1 : capture[j] # capture[i]
               PROVE  index[i] = Cardinality({c \in {capture[j] : j \in 1 .. i - 1} :
                                                  IsMarked(c) /\ c < capture[i]})
    BY DEF PacketsAreFiled
  <2> DEFINE n == i - 1
             before == {c \in {capture[j] : j \in 1 .. n} : IsMarked(c) /\ c < capture[i]}
  <2>1. capture \in Seq(Nat) /\ DOMAIN capture = 1 .. Len(capture) /\ Len(capture) \in Nat
    BY LenProperties DEF IInv, TypeOK
  <2>2. n \in 0 .. Len(capture) /\ 1 .. n \subseteq DOMAIN capture
    BY <2>1
  <2>3. Steady(capture)
    BY CaptureIsSteady
  <2>4. \A j \in 1 .. n : capture[j] < capture[i]
    <3> SUFFICES ASSUME NEW j \in 1 .. n PROVE capture[j] < capture[i]
      OBVIOUS
    <3>1. j \in DOMAIN capture /\ j <= i
      BY <2>1, <2>2
    <3>2. capture[j] <= capture[i]
      BY <2>3, <3>1 DEF Steady
    <3>3. capture[j] \in Nat /\ capture[i] \in Nat /\ capture[j] # capture[i]
      BY <2>1, <3>1
    <3> QED  BY <3>2, <3>3
  <2>5. before = UnitsOf(capture, n)
    BY <2>4 DEF UnitsOf
  <2>6. {j \in 1 .. n : Rises(j)} = RisesOf(capture, n)
    BY <2>2 DEF Rises, RisesOf
  <2>7. index[i] = Cardinality({j \in 1 .. n : Rises(j)})
    BY DEF IInv, IndexForgetsTheChunks
  <2>8. Cardinality(RisesOf(capture, n)) = Cardinality(UnitsOf(capture, n))
    BY <2>1, <2>2, <2>3, EachUnitRisesOnce
  <2>9. index[i] = Cardinality(before)
    BY <2>5, <2>6, <2>7, <2>8, Zenon
  <2> QED  BY <2>9
<1> QED  BY <1>1, OrderHolds, PTL


-----------------------------------------------------------------------------
(* Where units start in a capture with nothing lost or repeated, and which *)
(* field each is of.                                                       *)
LEMMA MultiplesApart ==
    ASSUME NEW k \in Int, NEW l \in Int, NEW m \in Nat, k < l
    PROVE  k * m \in Int /\ l * m \in Int /\ k * m + m <= l * m
<1>1. k * m \in Int /\ l * m \in Int /\ (k + 1) * m \in Int
  OBVIOUS
<1>2. (k + 1) * m = k * m + m
  OBVIOUS
<1>3. (k + 1) * m <= l * m
  <2>1. k + 1 <= l /\ k + 1 \in Int
    OBVIOUS
  <2>2. \A a, b \in Int : a <= b => a * m <= b * m
    OBVIOUS
  <2> QED  BY <2>1, <2>2
<1> QED  BY <1>1, <1>2, <1>3

(* As many multiples lie below a multiple as it is times.                  *)
LEMMA MultiplesBelow ==
    ASSUME NEW m \in Nat, m > 0, NEW n \in Nat, n % m = 0
    PROVE  Cardinality({j \in 1 .. n : (j - 1) % m = 0}) = n \div m
<1> DEFINE q == n \div m
           below == {j \in 1 .. n : (j - 1) % m = 0}
           f == [k \in 0 .. q - 1 |-> k * m + 1]
<1>1. q \in Int /\ q * m \in Int /\ n = q * m
  <2>1. q \in Int /\ n = q * m + (n % m)
    BY Division
  <2>2. q * m \in Int
    BY <2>1
  <2> HIDE DEF q
  <2> QED  BY <2>1, <2>2
<1> HIDE DEF q
<1>2. q >= 0
  <2> SUFFICES ASSUME q < 0 PROVE FALSE
    BY <1>1
  <2>1. q * m + m <= 0 * m /\ 0 * m = 0
    BY <1>1, MultiplesApart
  <2> QED  BY <1>1, <2>1
<1>3. ASSUME NEW k \in 0 .. q - 1
      PROVE  k * m + 1 \in below
  <2>1. k \in Int /\ k < q
    BY <1>1
  <2>2. k * m \in Int /\ k * m + m <= q * m
    BY <1>1, <2>1, MultiplesApart
  <2>3. 0 <= k * m
    BY <2>1
  <2> DEFINE x == k * m
  <2>4. x % m = 0
    BY <2>1, <2>2, MultipleRemainder
  <2>5. x \in Int /\ 0 <= x /\ x + m <= n
    BY <1>1, <2>2, <2>3
  <2> HIDE DEF x
  <2>6. PICK j \in 1 .. n : j = x + 1 /\ j - 1 = x
    BY <2>5
  <2>7. (j - 1) % m = 0
    BY <2>4, <2>6, Zenon
  <2>8. x + 1 \in below
    BY <2>6, <2>7, Zenon
  <2> QED  BY <2>8 DEF x
<1>4. f \in [0 .. q - 1 -> below]
  BY <1>3
<1>5. \A k, l \in 0 .. q - 1 : f[k] = f[l] => k = l
  <2>1. ASSUME NEW k \in 0 .. q - 1, NEW l \in 0 .. q - 1, k < l PROVE f[k] # f[l]
    <3>1. k \in Int /\ l \in Int
      OBVIOUS
    <3>2. k * m \in Int /\ l * m \in Int /\ k * m + m <= l * m
      BY <2>1, <3>1, MultiplesApart
    <3>3. k * m + 1 # l * m + 1
      BY <3>2
    <3> QED  BY <3>3
  <2> QED  BY <2>1
<1>6. \A j \in below : \E k \in 0 .. q - 1 : f[k] = j
  <2> SUFFICES ASSUME NEW j \in below PROVE \E k \in 0 .. q - 1 : k * m + 1 = j
    OBVIOUS
  <2> DEFINE k == (j - 1) \div m
  <2>1. j \in 1 .. n /\ (j - 1) % m = 0 /\ j - 1 \in Int
    OBVIOUS
  <2>2. k \in Int /\ j - 1 = k * m + ((j - 1) % m)
    BY <2>1, Division
  <2> HIDE DEF k
  <2>3. k * m \in Int
    BY <2>2
  <2>4. j - 1 = k * m
    BY <2>1, <2>2, <2>3
  <2>5. k >= 0
    <3> SUFFICES ASSUME k < 0 PROVE FALSE
      BY <2>2
    <3>1. k * m + m <= 0 * m /\ 0 * m = 0
      BY <2>2, MultiplesApart
    <3> QED  BY <2>1, <2>3, <2>4, <3>1
  <2>6. k < q
    <3> SUFFICES ASSUME q <= k PROVE FALSE
      BY <1>1, <2>2
    <3>1. CASE q = k
      BY <1>1, <2>1, <2>3, <2>4, <3>1
    <3>2. CASE q < k
      <4>1. q * m + m <= k * m
        BY <1>1, <2>2, <3>2, MultiplesApart
      <4> QED  BY <1>1, <2>1, <2>3, <2>4, <4>1
    <3> QED  BY <1>1, <2>2, <3>1, <3>2
  <2>7. k \in 0 .. q - 1 /\ k * m + 1 = j
    BY <1>1, <2>1, <2>2, <2>3, <2>4, <2>5, <2>6
  <2> QED  BY <2>7
<1> HIDE DEF f, below
<1>7. f \in Bijection(0 .. q - 1, below)
  BY <1>4, <1>5, <1>6 DEF Bijection, Injection, Surjection, IsInjective
<1>8. IsFiniteSet(0 .. q - 1) /\ Cardinality(0 .. q - 1) = q
  BY <1>1, <1>2, FS_Interval
<1>9. Cardinality(below) = q
  BY <1>7, <1>8, FS_Bijection DEF ExistsBijection
<1> QED  BY <1>9 DEF below, q

LEMMA UnitsStartAtMultiples ==
    ASSUME capture \in Seq(Nat), \A i \in DOMAIN capture : capture[i] = i - 1
    PROVE  LET starts_ == UnitStarts(Markers(capture), TRUE)
           IN  \A i \in DOMAIN capture : starts_[i] <=> (i - 1) % UnitPackets = 0
<1> DEFINE n == Len(capture)
           markers == Markers(capture)
           edges == FrameBoundaries(markers, TRUE)
<1>1. n \in Nat /\ DOMAIN capture = 1 .. n /\ UnitPackets \in Nat /\ UnitPackets > 2
  BY LenProperties, UnitAssumption
<1>2. DOMAIN markers = 1 .. n /\ \A i \in 1 .. n : markers[i] = IsMarked(i - 1)
  BY <1>1 DEF Markers
<1> HIDE DEF markers
<1>3. DOMAIN edges = 1 .. n
      /\ \A i \in 1 .. n : edges[i] = (markers[i] /\ ~(IF i = 1 THEN TRUE ELSE markers[i - 1]))
  BY <1>2 DEF FrameBoundaries, After
<1> HIDE DEF edges
<1>4. \A i \in 1 .. n : UnitStarts(markers, TRUE)[i] = IF i = 1 THEN TRUE ELSE edges[i - 1]
  BY <1>3 DEF UnitStarts, After, edges
<1>5. ASSUME NEW i \in 1 .. n
      PROVE  UnitStarts(markers, TRUE)[i] <=> (i - 1) % UnitPackets = 0
  <2>1. CASE i = 1
    <3>1. 0 % UnitPackets = 0 /\ i - 1 = 0
      BY <1>1, <2>1
    <3>2. (i - 1) % UnitPackets = 0
      BY <3>1, Zenon
    <3>3. UnitStarts(markers, TRUE)[i]
      BY <1>4, <2>1
    <3> QED  BY <3>2, <3>3, Zenon
  <2>2. CASE i # 1
    <3>1. i - 1 \in 1 .. n /\ i - 2 \in Nat /\ i - 2 + 1 = i - 1 /\ i - 1 - 1 = i - 2
      BY <1>1, <2>2
    <3>2. markers[i - 1] = IsMarked(i - 2)
      BY <1>2, <3>1
    <3>3. IsMarked(i - 2) <=> (i - 1) % UnitPackets = 0
      BY <3>1 DEF IsMarked
    <3>4. UnitStarts(markers, TRUE)[i] = edges[i - 1]
      BY <1>4, <2>2
    <3>5. CASE i = 2
      <4>1. 1 % UnitPackets = 1
        BY <1>1
      <4>2. i - 1 = 1
        BY <3>5
      <4>3. (i - 1) % UnitPackets # 0
        BY <4>1, <4>2
      <4>4. ~edges[i - 1]
        BY <1>3, <3>1, <4>2
      <4> QED  BY <3>4, <4>3, <4>4, Zenon
    <3>6. CASE i # 2
      <4>1. i - 2 \in 1 .. n /\ i - 3 \in Nat /\ i - 2 - 1 = i - 3 /\ i - 3 < i - 2 /\ i - 1 # 1
        BY <1>1, <2>2, <3>6
      <4>2. markers[i - 2] = IsMarked(i - 3)
        BY <1>2, <4>1
      <4>3. edges[i - 1] = (markers[i - 1] /\ ~markers[i - 2])
        BY <1>3, <3>1, <4>1
      <4>4. ~(IsMarked(i - 2) /\ IsMarked(i - 3))
        <5> SUFFICES ASSUME IsMarked(i - 2), IsMarked(i - 3) PROVE FALSE
          OBVIOUS
        <5>1. i - 2 >= i - 3 + UnitPackets
          BY <3>1, <4>1, MarkersApart
        <5> QED  BY <1>1, <5>1
      <4>5. edges[i - 1] <=> IsMarked(i - 2)
        BY <3>2, <4>2, <4>3, <4>4, Zenon
      <4> QED  BY <3>3, <3>4, <4>5, Zenon
    <3> QED  BY <3>5, <3>6
  <2> QED  BY <2>1, <2>2
<1> QED  BY <1>1, <1>5 DEF markers

(* frame_starts, interlaced: where nothing was lost or repeated, pairing   *)
(* the units in arrival order finds the frames the F bits find, however    *)
(* long the units and the capture are.                                     *)
THEOREM PairingAgrees == Spec => []PairingIsTheFieldBit
<1>1. IInv => PairingIsTheFieldBit
  <2> SUFFICES ASSUME IInv, \A i \in DOMAIN capture : capture[i] = i - 1
               PROVE  PairedStarts(Markers(capture), TRUE)
                          = FieldStarts(Markers(capture), Seconds(capture), TRUE)
    BY DEF PairingIsTheFieldBit
  <2> DEFINE n == Len(capture)
             starts_ == UnitStarts(Markers(capture), TRUE)
             count(i) == Cardinality({j \in 1 .. i - 1 : starts_[j]})
  <2>1. /\ n \in Nat /\ DOMAIN capture = 1 .. n /\ UnitPackets \in Nat /\ UnitPackets > 2
        /\ capture \in Seq(Nat)
    BY LenProperties, UnitAssumption DEF IInv, TypeOK
  <2>2. \A i \in 1 .. n : starts_[i] <=> (i - 1) % UnitPackets = 0
    BY <2>1, UnitsStartAtMultiples
  <2>3. DOMAIN Markers(capture) = 1 .. n /\ DOMAIN Seconds(capture) = 1 .. n
        /\ \A i \in 1 .. n : Seconds(capture)[i] = IsSecond(i - 1)
    BY <2>1 DEF Markers, Seconds
  <2> HIDE DEF starts_, n
  <2>4. ASSUME NEW i \in 1 .. n, starts_[i]
        PROVE  count(i) % 2 = 0 <=> ~Seconds(capture)[i]
    <3> DEFINE m == UnitPackets
               q == (i - 1) \div m
    <3>1. i - 1 \in Nat /\ (i - 1) % m = 0 /\ m \in Nat /\ m > 0
      BY <2>1, <2>2, <2>4
    <3>2. {j \in 1 .. i - 1 : starts_[j]} = {j \in 1 .. i - 1 : (j - 1) % m = 0}
      BY <2>1, <2>2
    <3>3. Cardinality({j \in 1 .. i - 1 : (j - 1) % m = 0}) = q
      BY <3>1, MultiplesBelow
    <3>4. count(i) = q
      BY <3>2, <3>3
    <3>5. q \in Int
      BY <3>1, Division
    <3>6. Seconds(capture)[i] <=> q % 2 = 1
      BY <2>3 DEF IsSecond
    <3> HIDE DEF q, count
    <3>7. q % 2 = 0 \/ q % 2 = 1
      BY <3>5
    <3> QED  BY <3>4, <3>6, <3>7
  <2>5. PairedStarts(Markers(capture), TRUE) = [i \in 1 .. n |-> starts_[i] /\ count(i) % 2 = 0]
    BY <2>3 DEF PairedStarts, starts_
  <2>6. FieldStarts(Markers(capture), Seconds(capture), TRUE)
            = [i \in 1 .. n |-> starts_[i] /\ ~Seconds(capture)[i]]
    BY <2>3 DEF FieldStarts, starts_
  <2> HIDE DEF count
  <2>7. \A i \in 1 .. n : (starts_[i] /\ count(i) % 2 = 0) = (starts_[i] /\ ~Seconds(capture)[i])
    BY <2>4
  <2> QED  BY <2>5, <2>6, <2>7
<1> QED  BY <1>1, Inductive, PTL

=============================================================================
