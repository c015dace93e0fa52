------------------------------ MODULE LegProofs ------------------------------
(***************************************************************************)
(* LegPair's invariants for every length of flow, every delay and any      *)
(* number of repeats: what reconstruct() says of two legs is what the two  *)
(* paths did.                                                              *)
(***************************************************************************)
EXTENDS LegPair, Foundations

(* The flow does not cross the wrap of the extended number; the run of two *)
(* legs recorded across it shows that what follows fails there.            *)
InsideOneRun == Start + MaxCount < WideSpace

Copies == [number : 0 .. WideSpace - 1, arrival : Nat]

Counted(cap) == {cap[i].number : i \in DOMAIN cap}

(* A number is in a capture just where its packet was not dropped. *)
Faithful(cap, gone, c) == Start + c \in Counted(cap) <=> c \notin gone

(* What holds of one leg, its path having carried the packets before n and *)
(* dropped those in gone by time t: from the first number it recorded to   *)
(* the last the capture has every packet its path kept, and while it is    *)
(* open that goes on to the packet carried last; and no number but the     *)
(* first was recorded later than its path delivers.                        *)
LegInv(cap, gone, n, win, t) ==
    /\ cap \in Seq(Copies)
    /\ n \in 0 .. MaxCount + 1 /\ t \in Nat /\ gone \subseteq 0 .. n - 1
    /\ n <= t + 1 /\ (n <= MaxCount /\ n <= t => t <= n + MaxDelay)
    /\ win = "before" => cap = << >>
    /\ \A x \in Counted(cap) : Start <= x /\ x < Start + n
    /\ \A x, y \in Counted(cap), c \in 0 .. MaxCount :
           x <= Start + c /\ Start + c <= y => Faithful(cap, gone, c)
    /\ win = "open" =>
           \A x \in Counted(cap), c \in 0 .. n - 1 : x <= Start + c => Faithful(cap, gone, c)
    /\ \A i \in DOMAIN cap :
           /\ cap[i].number - Start <= cap[i].arrival
           /\ \E j \in DOMAIN cap :
                  /\ cap[j].number = cap[i].number
                  /\ j = 1 \/ cap[j].arrival <= cap[j].number - Start + MaxDelay

LEMMA LegConstants ==
    /\ WideSpace \in Nat /\ Start \in Nat /\ MaxCount \in Nat /\ MaxDelay \in Nat
    /\ MaxRepeats \in Nat /\ Start < WideSpace /\ MaxCount < WideSpace
  BY LegAssumption

(* One more copy in a capture. *)
LEMMA AppendCopy ==
    ASSUME NEW cap \in Seq(Copies), NEW copy \in Copies
    PROVE  /\ Append(cap, copy) \in Seq(Copies)
           /\ \A x : x \in Counted(Append(cap, copy)) <=> x \in Counted(cap) \/ x = copy.number
           /\ DOMAIN Append(cap, copy) = 1 .. Len(cap) + 1 /\ DOMAIN cap = 1 .. Len(cap)
           /\ Append(cap, copy)[Len(cap) + 1] = copy
           /\ \A i \in DOMAIN cap : Append(cap, copy)[i] = cap[i]
           /\ Len(cap) \in Nat
<1> DEFINE longer == Append(cap, copy)
           n == Len(cap)
<1>1. /\ longer \in Seq(Copies) /\ n \in Nat /\ DOMAIN longer = 1 .. n + 1
      /\ DOMAIN cap = 1 .. n /\ longer[n + 1] = copy /\ \A i \in 1 .. n : longer[i] = cap[i]
  OBVIOUS
<1> HIDE DEF longer, n
<1>2. \A x : x \in Counted(longer) <=> x \in Counted(cap) \/ x = copy.number
  <2>1. ASSUME NEW x \in Counted(longer) PROVE x \in Counted(cap) \/ x = copy.number
    <3>1. PICK i \in 1 .. n + 1 : x = longer[i].number
      BY <1>1, <2>1 DEF Counted
    <3>2. CASE i = n + 1
      BY <1>1, <3>1, <3>2
    <3>3. CASE i # n + 1
      <4>1. i \in 1 .. n
        BY <1>1, <3>3
      <4> QED  BY <1>1, <3>1, <4>1 DEF Counted
    <3> QED  BY <3>2, <3>3
  <2>2. ASSUME NEW x \in Counted(cap) PROVE x \in Counted(longer)
    <3>1. PICK i \in 1 .. n : x = cap[i].number
      BY <1>1, <2>2 DEF Counted
    <3>2. i \in 1 .. n + 1
      BY <1>1
    <3> QED  BY <1>1, <3>1, <3>2 DEF Counted
  <2>3. copy.number \in Counted(longer)
    <3>1. n + 1 \in 1 .. n + 1
      BY <1>1
    <3> QED  BY <1>1, <3>1 DEF Counted
  <2> QED  BY <2>1, <2>2, <2>3
<1> QED  BY <1>1, <1>2 DEF longer, n

LEMMA CountedTypes ==
    ASSUME NEW cap \in Seq(Copies), NEW x \in Counted(cap)
    PROVE  x \in Int /\ x \in 0 .. WideSpace - 1
<1>1. PICK i \in DOMAIN cap : x = cap[i].number
  BY DEF Counted
<1>2. cap[i] \in Copies
  OBVIOUS
<1>3. WideSpace \in Nat
  BY LegConstants
<1> QED  BY <1>1, <1>2, <1>3 DEF Copies

-----------------------------------------------------------------------------
(* What each step does to a leg. *)

(* The next packet arrives and is recorded. *)
LEMMA RecordKeeps ==
    ASSUME InsideOneRun, NEW cap, NEW gone, NEW n, NEW t, LegInv(cap, gone, n, "open", t),
           n <= MaxCount, n <= t
    PROVE  LegInv(Append(cap, [number |-> Start + n, arrival |-> t]), gone, n + 1, "open", t)
<1> DEFINE copy == [number |-> Start + n, arrival |-> t]
           longer == Append(cap, copy)
           k == Len(cap)
<1>1. /\ WideSpace \in Nat /\ Start \in Nat /\ MaxCount \in Nat /\ MaxDelay \in Nat
      /\ Start + MaxCount < WideSpace
  BY LegConstants DEF InsideOneRun
<1>2. /\ cap \in Seq(Copies) /\ n \in Nat /\ t \in Nat /\ gone \subseteq 0 .. n - 1
      /\ t <= n + MaxDelay
  BY DEF LegInv
<1>3. copy \in Copies
  BY <1>1, <1>2 DEF Copies
<1>4. copy.number = Start + n /\ copy.arrival = t
  OBVIOUS
<1> HIDE DEF copy, k
<1>5. /\ longer \in Seq(Copies)
      /\ \A x : x \in Counted(longer) <=> x \in Counted(cap) \/ x = Start + n
      /\ DOMAIN longer = 1 .. k + 1 /\ DOMAIN cap = 1 .. k /\ longer[k + 1] = copy
      /\ \A i \in DOMAIN cap : longer[i] = cap[i]
      /\ k \in Nat
  BY <1>2, <1>3, <1>4, AppendCopy DEF k
<1> HIDE DEF longer
<1>6. \A x \in Counted(cap) : x \in Int /\ Start <= x /\ x < Start + n
  BY <1>1, <1>2, CountedTypes DEF LegInv
<1>7. \A x \in Counted(longer) : x \in Int /\ Start <= x /\ x < Start + (n + 1)
  BY <1>1, <1>2, <1>5, <1>6
<1>8. ASSUME NEW x \in Counted(longer), NEW c \in 0 .. n, x <= Start + c
      PROVE  Faithful(longer, gone, c)
  <2>1. CASE c = n
    BY <1>2, <1>5, <2>1 DEF Faithful
  <2>2. CASE c # n
    <3>1. c \in 0 .. n - 1 /\ Start + c # Start + n /\ x # Start + n
      BY <1>1, <1>2, <1>8, <2>2
    <3>2. Faithful(cap, gone, c)
      BY <1>5, <1>8, <3>1 DEF LegInv
    <3> QED  BY <1>5, <3>1, <3>2 DEF Faithful
  <2> QED  BY <2>1, <2>2
<1>9. ASSUME NEW x \in Counted(longer), NEW y \in Counted(longer), NEW c \in 0 .. MaxCount,
             x <= Start + c, Start + c <= y
      PROVE  Faithful(longer, gone, c)
  <2>1. c \in 0 .. n
    BY <1>1, <1>2, <1>7, <1>9
  <2> QED  BY <1>8, <1>9, <2>1
<1>10. ASSUME NEW i \in DOMAIN longer
       PROVE  /\ longer[i].number - Start <= longer[i].arrival
              /\ \E j \in DOMAIN longer :
                     /\ longer[j].number = longer[i].number
                     /\ j = 1 \/ longer[j].arrival <= longer[j].number - Start + MaxDelay
  <2>1. CASE i = k + 1
    <3>1. longer[i].number = Start + n /\ longer[i].arrival = t
      BY <1>4, <1>5, <2>1
    <3>2. longer[i].number - Start <= longer[i].arrival
          /\ longer[i].arrival <= longer[i].number - Start + MaxDelay
      BY <1>1, <1>2, <3>1
    <3> QED  BY <3>2
  <2>2. CASE i # k + 1
    <3>1. i \in DOMAIN cap
      BY <1>5, <2>2
    <3>2. /\ cap[i].number - Start <= cap[i].arrival
          /\ \E j \in DOMAIN cap :
                 /\ cap[j].number = cap[i].number
                 /\ j = 1 \/ cap[j].arrival <= cap[j].number - Start + MaxDelay
      BY <3>1 DEF LegInv
    <3>3. DOMAIN cap \subseteq DOMAIN longer
      BY <1>5
    <3> QED  BY <1>5, <3>1, <3>2, <3>3
  <2> QED  BY <2>1, <2>2
<1>11. /\ n + 1 \in 0 .. MaxCount + 1 /\ gone \subseteq 0 .. (n + 1) - 1
       /\ n + 1 <= t + 1 /\ t <= (n + 1) + MaxDelay
  BY <1>1, <1>2
<1>12. \A c \in 0 .. (n + 1) - 1 : c \in 0 .. n
  BY <1>2
<1>13. LegInv(longer, gone, n + 1, "open", t)
  BY <1>2, <1>5, <1>7, <1>8, <1>9, <1>10, <1>11, <1>12 DEF LegInv
<1> QED  BY <1>13 DEF longer, copy


(* A packet arrives, and no capture is open. *)
LEMMA MissKeeps ==
    ASSUME NEW cap, NEW gone, NEW n, NEW win, NEW t, LegInv(cap, gone, n, win, t),
           win # "open", n <= MaxCount, n <= t
    PROVE  LegInv(cap, gone, n + 1, win, t)
<1>1. /\ WideSpace \in Nat /\ Start \in Nat /\ MaxCount \in Nat /\ MaxDelay \in Nat
  BY LegConstants
<1>2. /\ cap \in Seq(Copies) /\ n \in Nat /\ t \in Nat /\ gone \subseteq 0 .. n - 1
      /\ t <= n + MaxDelay
  BY DEF LegInv
<1>3. /\ n + 1 \in 0 .. MaxCount + 1 /\ gone \subseteq 0 .. (n + 1) - 1
      /\ n + 1 <= t + 1 /\ t <= (n + 1) + MaxDelay
  BY <1>1, <1>2
<1>4. \A x \in Counted(cap) : Start <= x /\ x < Start + (n + 1)
  <2>1. \A x \in Counted(cap) : x \in Int /\ Start <= x /\ x < Start + n
    BY <1>2, CountedTypes DEF LegInv
  <2> QED  BY <1>1, <1>2, <2>1
<1> QED  BY <1>2, <1>3, <1>4 DEF LegInv

(* The path drops the next packet. *)
LEMMA DropKeeps ==
    ASSUME NEW cap, NEW gone, NEW n, NEW win, NEW t, LegInv(cap, gone, n, win, t),
           n <= MaxCount, n <= t
    PROVE  LegInv(cap, gone \cup {n}, n + 1, win, t)
<1>1. /\ WideSpace \in Nat /\ Start \in Nat /\ MaxCount \in Nat /\ MaxDelay \in Nat
  BY LegConstants
<1>2. /\ cap \in Seq(Copies) /\ n \in Nat /\ t \in Nat /\ gone \subseteq 0 .. n - 1
      /\ t <= n + MaxDelay
  BY DEF LegInv
<1>3. /\ n + 1 \in 0 .. MaxCount + 1 /\ gone \cup {n} \subseteq 0 .. (n + 1) - 1
      /\ n + 1 <= t + 1 /\ t <= (n + 1) + MaxDelay
  BY <1>1, <1>2
<1>4. \A x \in Counted(cap) : x \in Int /\ Start <= x /\ x < Start + n
  BY <1>2, CountedTypes DEF LegInv
<1>5. \A x \in Counted(cap) : Start <= x /\ x < Start + (n + 1)
  BY <1>1, <1>2, <1>4
<1>6. \A c \in 0 .. MaxCount : c # n /\ Faithful(cap, gone, c) => Faithful(cap, gone \cup {n}, c)
  BY DEF Faithful
<1>7. Faithful(cap, gone \cup {n}, n)
  <2>1. Start + n \notin Counted(cap)
    BY <1>1, <1>2, <1>4
  <2> QED  BY <2>1 DEF Faithful
<1>8. ASSUME NEW x \in Counted(cap), NEW y \in Counted(cap), NEW c \in 0 .. MaxCount,
             x <= Start + c, Start + c <= y
      PROVE  Faithful(cap, gone \cup {n}, c)
  <2>1. Faithful(cap, gone, c)
    BY <1>8 DEF LegInv
  <2>2. c # n
    BY <1>1, <1>2, <1>4, <1>8
  <2> QED  BY <1>6, <2>1, <2>2
<1>9. ASSUME win = "open", NEW x \in Counted(cap), NEW c \in 0 .. (n + 1) - 1, x <= Start + c
      PROVE  Faithful(cap, gone \cup {n}, c)
  <2>1. CASE c = n
    BY <1>7, <2>1
  <2>2. CASE c # n
    <3>1. c \in 0 .. n - 1 /\ c \in 0 .. MaxCount
      BY <1>1, <1>2, <2>2
    <3>2. Faithful(cap, gone, c)
      BY <1>9, <3>1 DEF LegInv
    <3> QED  BY <1>6, <2>2, <3>1, <3>2
  <2> QED  BY <2>1, <2>2
<1>10. win = "before" => cap = << >>
  BY DEF LegInv
<1>11. \A i \in DOMAIN cap :
           /\ cap[i].number - Start <= cap[i].arrival
           /\ \E j \in DOMAIN cap :
                  /\ cap[j].number = cap[i].number
                  /\ j = 1 \/ cap[j].arrival <= cap[j].number - Start + MaxDelay
  BY DEF LegInv
<1>12. n + 1 <= MaxCount /\ n + 1 <= t => t <= n + 1 + MaxDelay
  BY <1>3
<1> QED  BY ONLY <1>2, <1>3, <1>5, <1>8, <1>9, <1>10, <1>11, <1>12 DEF LegInv

(* The packet carried last comes again and is recorded. *)
LEMMA RepeatKeeps ==
    ASSUME InsideOneRun, NEW cap, NEW gone, NEW n, NEW t, LegInv(cap, gone, n, "open", t),
           n > 0, n - 1 \notin gone
    PROVE  LegInv(Append(cap, [number |-> Start + (n - 1), arrival |-> t]), gone, n, "open", t)
<1> DEFINE copy == [number |-> Start + (n - 1), arrival |-> t]
           longer == Append(cap, copy)
           k == Len(cap)
<1>1. /\ WideSpace \in Nat /\ Start \in Nat /\ MaxCount \in Nat /\ MaxDelay \in Nat
      /\ Start + MaxCount < WideSpace
  BY LegConstants DEF InsideOneRun
<1>2. /\ cap \in Seq(Copies) /\ n \in 1 .. MaxCount + 1 /\ t \in Nat /\ gone \subseteq 0 .. n - 1
      /\ n <= t + 1 /\ (n <= MaxCount /\ n <= t => t <= n + MaxDelay)
  BY DEF LegInv
<1>3. copy \in Copies
  BY <1>1, <1>2 DEF Copies
<1>4. copy.number = Start + (n - 1) /\ copy.arrival = t
  OBVIOUS
<1> HIDE DEF copy, k
<1>5. /\ longer \in Seq(Copies)
      /\ \A x : x \in Counted(longer) <=> x \in Counted(cap) \/ x = Start + (n - 1)
      /\ DOMAIN longer = 1 .. k + 1 /\ DOMAIN cap = 1 .. k /\ longer[k + 1] = copy
      /\ \A i \in DOMAIN cap : longer[i] = cap[i]
      /\ k \in Nat
  BY <1>2, <1>3, <1>4, AppendCopy DEF k
<1> HIDE DEF longer
<1>6. \A x \in Counted(cap) : x \in Int /\ Start <= x /\ x < Start + n
  BY <1>1, <1>2, CountedTypes DEF LegInv
<1>7. \A x \in Counted(longer) : x \in Int /\ Start <= x /\ x < Start + n
  BY <1>1, <1>2, <1>5, <1>6
<1>8. ASSUME NEW x \in Counted(longer), NEW c \in 0 .. n - 1, x <= Start + c
      PROVE  Faithful(longer, gone, c)
  <2>1. CASE c = n - 1
    BY <1>2, <1>5, <2>1 DEF Faithful
  <2>2. CASE c # n - 1
    <3>1. Start + c # Start + (n - 1) /\ x # Start + (n - 1)
      BY <1>1, <1>2, <1>8, <2>2
    <3>2. Faithful(cap, gone, c)
      BY <1>5, <1>8, <3>1 DEF LegInv
    <3> QED  BY <1>5, <3>1, <3>2 DEF Faithful
  <2> QED  BY <2>1, <2>2
<1>9. ASSUME NEW x \in Counted(longer), NEW y \in Counted(longer), NEW c \in 0 .. MaxCount,
             x <= Start + c, Start + c <= y
      PROVE  Faithful(longer, gone, c)
  <2>1. c \in 0 .. n - 1
    BY <1>1, <1>2, <1>7, <1>9
  <2> QED  BY <1>8, <1>9, <2>1
<1>10. ASSUME NEW i \in DOMAIN cap
       PROVE  /\ cap[i].number - Start <= cap[i].arrival
              /\ \E j \in DOMAIN longer :
                     /\ longer[j].number = cap[i].number
                     /\ j = 1 \/ longer[j].arrival <= longer[j].number - Start + MaxDelay
  <2>1. /\ cap[i].number - Start <= cap[i].arrival
        /\ \E j \in DOMAIN cap :
               /\ cap[j].number = cap[i].number
               /\ j = 1 \/ cap[j].arrival <= cap[j].number - Start + MaxDelay
    BY <1>10 DEF LegInv
  <2>2. DOMAIN cap \subseteq DOMAIN longer
    BY <1>5
  <2> QED  BY <1>5, <2>1, <2>2
<1>11. ASSUME NEW i \in DOMAIN longer
       PROVE  /\ longer[i].number - Start <= longer[i].arrival
              /\ \E j \in DOMAIN longer :
                     /\ longer[j].number = longer[i].number
                     /\ j = 1 \/ longer[j].arrival <= longer[j].number - Start + MaxDelay
  <2>1. CASE i = k + 1
    <3>1. longer[i].number = Start + (n - 1) /\ longer[i].arrival = t
      BY <1>4, <1>5, <2>1
    <3>2. longer[i].number - Start <= longer[i].arrival
      BY <1>1, <1>2, <3>1
    <3>3. CASE k = 0
      BY <1>5, <3>2, <3>3, <2>1
    <3>4. CASE k # 0
      <4>1. cap[1].number \in Counted(cap)
        BY <1>5, <3>4 DEF Counted
      <4>2. cap[1].number <= Start + (n - 1)
        BY <1>1, <1>2, <1>6, <4>1
      <4>3. n - 1 \in 0 .. n - 1
        BY <1>2
      <4>4. Faithful(cap, gone, n - 1)
        BY <4>1, <4>2, <4>3 DEF LegInv
      <4>5. PICK l \in DOMAIN cap : cap[l].number = Start + (n - 1)
        BY <4>4 DEF Faithful, Counted
      <4> QED  BY <1>10, <3>1, <3>2, <4>5
    <3> QED  BY <3>3, <3>4
  <2>2. CASE i # k + 1
    <3>1. i \in DOMAIN cap
      BY <1>5, <2>2
    <3> QED  BY <1>5, <1>10, <3>1
  <2> QED  BY <2>1, <2>2
<1>12. n \in 0 .. MaxCount + 1
  BY <1>2
<1>13. LegInv(longer, gone, n, "open", t)
  BY <1>2, <1>5, <1>7, <1>8, <1>9, <1>11, <1>12 DEF LegInv
<1> QED  BY <1>13 DEF longer, copy

(* The window turns. *)
LEMMA TurnKeeps ==
    ASSUME NEW cap, NEW gone, NEW n, NEW t
    PROVE  /\ LegInv(cap, gone, n, "before", t) => LegInv(cap, gone, n, "open", t)
           /\ LegInv(cap, gone, n, "open", t) => LegInv(cap, gone, n, "after", t)
<1>1. ASSUME LegInv(cap, gone, n, "before", t) PROVE LegInv(cap, gone, n, "open", t)
  <2>1. cap = << >>
    BY <1>1 DEF LegInv
  <2>2. Counted(cap) = {}
    BY <2>1 DEF Counted
  <2> QED  BY <1>1, <2>2 DEF LegInv
<1>2. ASSUME LegInv(cap, gone, n, "open", t) PROVE LegInv(cap, gone, n, "after", t)
  BY <1>2 DEF LegInv
<1> QED  BY <1>1, <1>2

(* A tick passes, no packet being kept past its delay. *)
LEMMA TickKeeps ==
    ASSUME NEW cap, NEW gone, NEW n, NEW win, NEW t, LegInv(cap, gone, n, win, t),
           n <= MaxCount /\ n <= t => t < n + MaxDelay
    PROVE  LegInv(cap, gone, n, win, t + 1)
<1>1. MaxCount \in Nat /\ MaxDelay \in Nat
  BY LegConstants
<1>2. n \in Nat /\ t \in Nat /\ n <= t + 1
  BY DEF LegInv
<1>3. n <= t + 1 + 1 /\ t + 1 \in Nat /\ (n <= MaxCount /\ n <= t + 1 => t + 1 <= n + MaxDelay)
  BY <1>1, <1>2
<1> QED  BY <1>3 DEF LegInv


-----------------------------------------------------------------------------
(* The types, whether or not the flow wraps. *)
PathTypes ==
    /\ now \in 0 .. MaxCount + MaxDelay
    /\ next \in [Legs -> 0 .. MaxCount + 1]
    /\ dropped \in [Legs -> SUBSET (0 .. MaxCount)]
    /\ repeats \in [Legs -> 0 .. MaxRepeats]
    /\ window \in [Legs -> {"before", "open", "after"}]
    /\ capture \in [Legs -> Seq(Copies)]

LEMMA RecordedTypes ==
    ASSUME NEW leg \in Legs, NEW c \in Nat, PathTypes
    PROVE  Recorded(leg, c) \in Seq(Copies)
<1> DEFINE copy == [number |-> (Start + c) % WideSpace, arrival |-> now]
<1>1. WideSpace \in Nat /\ Start \in Nat /\ WideSpace > 0 /\ MaxCount \in Nat /\ MaxDelay \in Nat
  BY LegConstants
<1>2. (Start + c) % WideSpace \in 0 .. WideSpace - 1
  BY <1>1
<1>3. now \in Nat
  BY <1>1 DEF PathTypes
<1>4. copy \in Copies
  BY <1>2, <1>3 DEF Copies
<1>5. capture[leg] \in Seq(Copies)
  BY DEF PathTypes
<1> HIDE DEF copy
<1>6. Append(capture[leg], copy) \in Seq(Copies)
  BY <1>4, <1>5
<1> QED  BY <1>5, <1>6 DEF Recorded, copy

LEMMA PathTypesInit == Init => PathTypes
<1>1. MaxCount \in Nat /\ MaxDelay \in Nat /\ MaxRepeats \in Nat
  BY LegConstants
<1>2. << >> \in Seq(Copies)
  OBVIOUS
<1> QED  BY <1>1, <1>2 DEF Init, PathTypes

LEMMA PathTypesStep == PathTypes /\ [Next]_vars => PathTypes'
<1> SUFFICES ASSUME PathTypes, [Next]_vars PROVE PathTypes'
  OBVIOUS
<1>1. MaxCount \in Nat /\ MaxDelay \in Nat /\ MaxRepeats \in Nat
  BY LegConstants
<1>2. CASE Tick
  BY <1>1, <1>2 DEF Tick, PathTypes
<1>3. ASSUME NEW leg \in Legs, Arrive(leg) PROVE PathTypes'
  <2>1. next[leg] \in 0 .. MaxCount /\ next[leg] \in Nat
    BY <1>1, <1>3 DEF Arrive, Carries, PathTypes
  <2>2. Recorded(leg, next[leg]) \in Seq(Copies)
    BY <2>1, RecordedTypes
  <2>3. capture' \in [Legs -> Seq(Copies)]
    BY <1>3, <2>2 DEF Arrive, PathTypes
  <2>4. next' \in [Legs -> 0 .. MaxCount + 1]
    BY <1>1, <1>3, <2>1 DEF Arrive, PathTypes
  <2> QED  BY <1>3, <2>3, <2>4 DEF Arrive, PathTypes
<1>4. ASSUME NEW leg \in Legs, Drop(leg) PROVE PathTypes'
  <2>1. next[leg] \in 0 .. MaxCount /\ next[leg] \in Nat
    BY <1>1, <1>4 DEF Drop, Carries, PathTypes
  <2>2. next' \in [Legs -> 0 .. MaxCount + 1]
    BY <1>1, <1>4, <2>1 DEF Drop, PathTypes
  <2>3. dropped' \in [Legs -> SUBSET (0 .. MaxCount)]
    BY <1>4, <2>1 DEF Drop, PathTypes
  <2> QED  BY <1>4, <2>2, <2>3 DEF Drop, PathTypes
<1>5. ASSUME NEW leg \in Legs, Repeat(leg) PROVE PathTypes'
  <2>1. next[leg] - 1 \in Nat
    BY <1>1, <1>5 DEF Repeat, PathTypes
  <2>2. Recorded(leg, next[leg] - 1) \in Seq(Copies)
    BY <2>1, RecordedTypes
  <2>3. capture' \in [Legs -> Seq(Copies)]
    BY <1>5, <2>2 DEF Repeat, PathTypes
  <2>4. repeats' \in [Legs -> 0 .. MaxRepeats]
    BY <1>1, <1>5 DEF Repeat, PathTypes
  <2> QED  BY <1>5, <2>3, <2>4 DEF Repeat, PathTypes
<1>6. ASSUME NEW leg \in Legs, window[leg] # "after", Turn(leg) PROVE PathTypes'
  <2>1. window[leg] = "before" \/ window[leg] = "open"
    BY <1>6 DEF PathTypes
  <2>2. window' \in [Legs -> {"before", "open", "after"}]
    BY <1>6, <2>1 DEF Turn, PathTypes
  <2> QED  BY <1>6, <2>2 DEF Turn, PathTypes
<1>7. CASE UNCHANGED vars
  BY <1>7 DEF vars, PathTypes
<1> QED  BY <1>2, <1>3, <1>4, <1>5, <1>6, <1>7 DEF Next

LEMMA PathsTyped == Spec => []PathTypes
  BY PathTypesInit, PathTypesStep, PTL DEF Spec

-----------------------------------------------------------------------------
(* The span judged lies inside what each leg covers. *)
LEMMA NumbersCounted == \A leg : Numbers(leg) = Counted(capture[leg])
  BY DEF Numbers, Counted

LEMMA SpanCovered ==
    ASSUME PathTypes, Judged
    PROVE  /\ Low \in 0 .. WideSpace - 1 /\ High \in 0 .. WideSpace - 1 /\ Low <= High
           /\ \A leg \in Legs :
                  /\ Numbers(leg) \subseteq 0 .. WideSpace - 1
                  /\ Min(Numbers(leg)) \in Numbers(leg) /\ Min(Numbers(leg)) <= Low
                  /\ Max(Numbers(leg)) \in Numbers(leg) /\ High <= Max(Numbers(leg))
<1>1. WideSpace \in Nat
  BY LegConstants
<1>2. ASSUME NEW leg \in Legs
      PROVE  /\ Numbers(leg) \subseteq 0 .. WideSpace - 1
             /\ Min(Numbers(leg)) \in Numbers(leg) /\ Max(Numbers(leg)) \in Numbers(leg)
  <2>1. capture[leg] \in Seq(Copies)
    BY DEF PathTypes
  <2>2. Numbers(leg) \subseteq 0 .. WideSpace - 1
    BY <2>1, NumbersCounted, CountedTypes
  <2>3. Numbers(leg) # {} /\ Numbers(leg) \subseteq Int
    BY <2>2 DEF Judged
  <2>4. \A x \in Numbers(leg) : 0 <= x /\ x <= WideSpace
    BY <1>1, <2>2
  <2>5. Min(Numbers(leg)) \in Numbers(leg)
    BY <2>3, <2>4, MinBounded
  <2>6. Max(Numbers(leg)) \in Numbers(leg)
    BY <1>1, <2>3, <2>4, MaxBounded
  <2> QED  BY <2>2, <2>5, <2>6
<1> DEFINE lows == {Min(Numbers(leg)) : leg \in Legs}
           highs == {Max(Numbers(leg)) : leg \in Legs}
<1>3. lows \subseteq 0 .. WideSpace - 1 /\ highs \subseteq 0 .. WideSpace - 1
  BY <1>2
<1>4. lows # {} /\ highs # {} /\ \A leg \in Legs : Min(Numbers(leg)) \in lows /\ Max(Numbers(leg)) \in highs
  BY DEF Legs
<1> HIDE DEF lows, highs
<1>5. /\ lows \subseteq Int /\ highs \subseteq Int /\ WideSpace \in Int /\ 0 \in Int
      /\ \A x \in lows : x <= WideSpace
      /\ \A x \in highs : 0 <= x
  BY <1>1, <1>3
<1>6. Max(lows) \in lows /\ \A x \in lows : x <= Max(lows)
  BY <1>4, <1>5, MaxBounded, Zenon
<1>7. Min(highs) \in highs /\ \A x \in highs : Min(highs) <= x
  BY <1>4, <1>5, MinBounded, Zenon
<1>8. Low = Max(lows) /\ High = Min(highs) /\ Low <= High
  BY DEF Low, High, lows, highs, Judged
<1> QED  BY <1>2, <1>3, <1>4, <1>6, <1>7, <1>8

(* A part of the span, counted. *)
LEMMA SpanCounts ==
    ASSUME NEW low \in Int, NEW high \in Int, low <= high
    PROVE  /\ IsFiniteSet(low .. high) /\ Cardinality(low .. high) = high - low + 1
           /\ \A T \in SUBSET (low .. high) :
                  /\ IsFiniteSet(T) /\ Cardinality(T) \in Nat
                  /\ Cardinality(T) <= high - low + 1
<1>1. IsFiniteSet(low .. high) /\ Cardinality(low .. high) = high - low + 1
  BY FS_Interval
<1> DEFINE span == low .. high
<1> HIDE DEF span
<1>2. IsFiniteSet(span) /\ Cardinality(span) = high - low + 1
  BY <1>1 DEF span
<1>3. \A T \in SUBSET span :
          IsFiniteSet(T) /\ Cardinality(T) \in Nat /\ Cardinality(T) <= Cardinality(span)
  BY <1>2, FS_Subset, FS_CardinalityType
<1> QED  BY <1>2, <1>3 DEF span

(* The account's fields. *)
LEMMA AccountFields ==
    ASSUME NEW a, a = Numbers("a") \cap (Low .. High),
           NEW b, b = Numbers("b") \cap (Low .. High)
    PROVE
        /\ Reconstruct.delivered = Cardinality(a \cup b)
        /\ Reconstruct.duplicated = Cardinality(a \cap b)
        /\ Reconstruct.recovered_a = Cardinality(b) - Cardinality(a \cap b)
        /\ Reconstruct.recovered_b = Cardinality(a) - Cardinality(a \cap b)
        /\ Reconstruct.lost = High - Low + 1 - Cardinality(a \cup b)
        /\ Reconstruct.skew_min = IF a \cap b = {} THEN 0 ELSE Min(Skews(a \cap b))
        /\ Reconstruct.skew_max = IF a \cap b = {} THEN 0 ELSE Max(Skews(a \cap b))
  BY DEF Reconstruct

(* The state's types, and the account's: reconstruct() never counts more   *)
(* packets in the span it judges than the span has, wrapped or not.        *)
THEOREM LegsTypeCorrect == Spec => []TypeOK
<1>1. PathTypes => TypeOK
  <2> SUFFICES ASSUME PathTypes PROVE TypeOK
    OBVIOUS
  <2>1. \A leg \in Legs : Numbers(leg) \subseteq 0 .. WideSpace - 1
    <3> SUFFICES ASSUME NEW leg \in Legs PROVE Numbers(leg) \subseteq 0 .. WideSpace - 1
      OBVIOUS
    <3>1. capture[leg] \in Seq(Copies)
      BY DEF PathTypes
    <3> QED  BY <3>1, NumbersCounted, CountedTypes
  <2>2. ASSUME Judged PROVE Reconstruct.lost \in Nat
    <3> DEFINE span == Low .. High
               delivered == (Numbers("a") \cap span) \cup (Numbers("b") \cap span)
    <3>1. Low \in Int /\ High \in Int /\ Low <= High
      BY <2>2, SpanCovered
    <3>2. delivered \in SUBSET span
      OBVIOUS
    <3>3. Cardinality(delivered) \in Nat /\ Cardinality(delivered) <= High - Low + 1
      <4> HIDE DEF delivered
      <4> QED  BY <3>1, <3>2, SpanCounts
    <3>4. Reconstruct.lost = High - Low + 1 - Cardinality(delivered)
      BY AccountFields
    <3> HIDE DEF delivered
    <3> QED  BY <3>1, <3>3, <3>4
  <2> QED  BY <2>1, <2>2 DEF PathTypes, TypeOK
<1> QED  BY <1>1, PathsTyped, PTL


-----------------------------------------------------------------------------
(* The inductive invariant of the two legs. *)
Leg(leg) == LegInv(capture[leg], dropped[leg], next[leg], window[leg], now)

IInv == PathTypes /\ \A leg \in Legs : Leg(leg)

LEMMA Unwrapped ==
    ASSUME InsideOneRun, NEW leg \in Legs, NEW c \in 0 .. MaxCount, window[leg] = "open"
    PROVE  Recorded(leg, c) = Append(capture[leg], [number |-> Start + c, arrival |-> now])
<1>1. WideSpace \in Nat /\ Start \in Nat /\ MaxCount \in Nat /\ Start + MaxCount < WideSpace
  BY LegConstants DEF InsideOneRun
<1>2. Start + c \in 0 .. WideSpace - 1 /\ Start + c = 0 * WideSpace + (Start + c)
      /\ Start + c \in Int /\ WideSpace > 0
  BY <1>1
<1>3. (Start + c) % WideSpace = Start + c
  BY <1>1, <1>2, RemainderUnique
<1> QED  BY <1>3 DEF Recorded

LEMMA LegsInit == Init => IInv
<1> SUFFICES ASSUME Init PROVE IInv
  OBVIOUS
<1>1. MaxCount \in Nat /\ MaxDelay \in Nat
  BY LegConstants
<1>2. ASSUME NEW leg \in Legs PROVE Leg(leg)
  <2>1. capture[leg] = << >> /\ dropped[leg] = {} /\ next[leg] = 0 /\ window[leg] = "before" /\ now = 0
    BY DEF Init
  <2>2. << >> \in Seq(Copies) /\ Counted(<< >>) = {} /\ DOMAIN << >> = {}
    BY DEF Counted
  <2>3. LegInv(<< >>, {}, 0, "before", 0)
    BY <1>1, <2>2 DEF LegInv
  <2> QED  BY <2>1, <2>3 DEF Leg
<1> QED  BY <1>2, PathTypesInit DEF IInv

LEMMA LegsStep ==
    ASSUME InsideOneRun
    PROVE  IInv /\ [Next]_vars => IInv'
<1> SUFFICES ASSUME IInv, [Next]_vars PROVE IInv'
  OBVIOUS
<1>1. PathTypes /\ PathTypes'
  BY PathTypesStep DEF IInv
<1>2. \A leg \in Legs : LegInv(capture[leg], dropped[leg], next[leg], window[leg], now)
  BY DEF IInv, Leg
<1>3. CASE Tick
  <2>1. ASSUME NEW leg \in Legs PROVE Leg(leg)'
    <3>1. next[leg] <= MaxCount /\ next[leg] <= now => now < next[leg] + MaxDelay
      BY <1>3 DEF Tick, Carries
    <3>2. LegInv(capture[leg], dropped[leg], next[leg], window[leg], now + 1)
      BY <1>2, <3>1, TickKeeps
    <3> QED  BY <1>3, <3>2 DEF Tick, Leg
  <2> QED  BY <1>1, <2>1 DEF IInv
<1>4. ASSUME NEW leg \in Legs, Arrive(leg) PROVE IInv'
  <2>1. next[leg] <= MaxCount /\ next[leg] <= now /\ next[leg] \in 0 .. MaxCount
    BY <1>1, <1>4, LegConstants DEF Arrive, Carries, PathTypes
  <2>2. /\ now' = now /\ dropped' = dropped /\ window' = window
        /\ capture'[leg] = Recorded(leg, next[leg]) /\ next'[leg] = next[leg] + 1
        /\ \A other \in Legs : other # leg => capture'[other] = capture[other] /\ next'[other] = next[other]
    BY <1>1, <1>4 DEF Arrive, PathTypes
  <2>3. LegInv(Recorded(leg, next[leg]), dropped[leg], next[leg] + 1, window[leg], now)
    <3>1. CASE window[leg] = "open"
      <4>1. LegInv(capture[leg], dropped[leg], next[leg], "open", now)
        BY <1>2, <3>1
      <4>2. LegInv(Append(capture[leg], [number |-> Start + next[leg], arrival |-> now]),
                   dropped[leg], next[leg] + 1, "open", now)
        BY <2>1, <4>1, RecordKeeps
      <4> QED  BY <2>1, <3>1, <4>2, Unwrapped
    <3>2. CASE window[leg] # "open"
      BY <1>2, <2>1, <3>2, MissKeeps DEF Recorded
    <3> QED  BY <3>1, <3>2
  <2>4. Leg(leg)'
    BY <2>2, <2>3 DEF Leg
  <2>5. \A other \in Legs : other # leg => Leg(other)'
    BY <1>2, <2>2 DEF Leg
  <2> QED  BY <1>1, <2>4, <2>5 DEF IInv
<1>5. ASSUME NEW leg \in Legs, Drop(leg) PROVE IInv'
  <2>1. next[leg] <= MaxCount /\ next[leg] <= now
    BY <1>5 DEF Drop, Carries
  <2>2. /\ now' = now /\ capture' = capture /\ window' = window
        /\ dropped'[leg] = dropped[leg] \cup {next[leg]} /\ next'[leg] = next[leg] + 1
        /\ \A other \in Legs : other # leg => dropped'[other] = dropped[other] /\ next'[other] = next[other]
    BY <1>1, <1>5 DEF Drop, PathTypes
  <2>3. LegInv(capture[leg], dropped[leg] \cup {next[leg]}, next[leg] + 1, window[leg], now)
    BY <1>2, <2>1, DropKeeps
  <2>4. Leg(leg)'
    BY <2>2, <2>3 DEF Leg
  <2>5. \A other \in Legs : other # leg => Leg(other)'
    BY <1>2, <2>2 DEF Leg
  <2> QED  BY <1>1, <2>4, <2>5 DEF IInv
<1>6. ASSUME NEW leg \in Legs, Repeat(leg) PROVE IInv'
  <2>1. /\ next[leg] > 0 /\ next[leg] - 1 \notin dropped[leg]
        /\ next[leg] - 1 \in 0 .. MaxCount
    BY <1>1, <1>6, LegConstants DEF Repeat, PathTypes
  <2>2. /\ now' = now /\ dropped' = dropped /\ window' = window /\ next' = next
        /\ capture'[leg] = Recorded(leg, next[leg] - 1)
        /\ \A other \in Legs : other # leg => capture'[other] = capture[other]
    BY <1>1, <1>6 DEF Repeat, PathTypes
  <2>3. LegInv(Recorded(leg, next[leg] - 1), dropped[leg], next[leg], window[leg], now)
    <3>1. CASE window[leg] = "open"
      <4>1. LegInv(capture[leg], dropped[leg], next[leg], "open", now)
        BY <1>2, <3>1
      <4>2. LegInv(Append(capture[leg], [number |-> Start + (next[leg] - 1), arrival |-> now]),
                   dropped[leg], next[leg], "open", now)
        BY <2>1, <4>1, RepeatKeeps
      <4> QED  BY <2>1, <3>1, <4>2, Unwrapped
    <3>2. CASE window[leg] # "open"
      BY <1>2, <3>2 DEF Recorded
    <3> QED  BY <3>1, <3>2
  <2>4. Leg(leg)'
    BY <2>2, <2>3 DEF Leg
  <2>5. \A other \in Legs : other # leg => Leg(other)'
    BY <1>2, <2>2 DEF Leg
  <2> QED  BY <1>1, <2>4, <2>5 DEF IInv
<1>7. ASSUME NEW leg \in Legs, window[leg] # "after", Turn(leg) PROVE IInv'
  <2>1. /\ now' = now /\ dropped' = dropped /\ capture' = capture /\ next' = next
        /\ \/ window[leg] = "before" /\ window'[leg] = "open"
           \/ window[leg] = "open" /\ window'[leg] = "after"
        /\ \A other \in Legs : other # leg => window'[other] = window[other]
    BY <1>1, <1>7 DEF Turn, PathTypes
  <2>2. Leg(leg)'
    BY <1>2, <2>1, TurnKeeps DEF Leg
  <2>3. \A other \in Legs : other # leg => Leg(other)'
    BY <1>2, <2>1 DEF Leg
  <2> QED  BY <1>1, <2>2, <2>3 DEF IInv
<1>8. CASE UNCHANGED vars
  BY <1>1, <1>2, <1>8 DEF vars, IInv, Leg
<1> QED  BY <1>3, <1>4, <1>5, <1>6, <1>7, <1>8 DEF Next

LEMMA LegsInductive ==
    ASSUME InsideOneRun
    PROVE  Spec => []IInv
  BY LegsInit, LegsStep, PTL DEF Spec

-----------------------------------------------------------------------------
(* What is missing of a span is what was dropped in it. *)
Within(gone, low, high) == {c \in gone : Start + c \in low .. high}

Carried(gone) == {Start + c : c \in gone}

(* Packets as many as their numbers. *)
LEMMA CarriedCounts ==
    ASSUME NEW gone, gone \subseteq 0 .. MaxCount
    PROVE  /\ IsFiniteSet(gone) /\ IsFiniteSet(Carried(gone))
           /\ Cardinality(Carried(gone)) = Cardinality(gone)
           /\ Cardinality(gone) \in Nat
<1> DEFINE numbers == Carried(gone)
           f == [c \in gone |-> Start + c]
<1>1. Start \in Nat /\ MaxCount \in Nat
  BY LegConstants
<1>2. IsFiniteSet(0 .. MaxCount)
  BY <1>1, FS_Interval
<1>3. IsFiniteSet(gone)
  BY <1>2, FS_Subset, Zenon
<1>4. f \in [gone -> numbers] /\ (\A x, y \in gone : f[x] = f[y] => x = y)
      /\ (\A s \in numbers : \E c \in gone : f[c] = s)
  <2>1. f \in [gone -> numbers]
    BY DEF Carried
  <2>2. \A x, y \in gone : x \in Int /\ y \in Int
    OBVIOUS
  <2>3. \A x, y \in gone : f[x] = f[y] => x = y
    BY <1>1, <2>2
  <2>4. \A s \in numbers : \E c \in gone : f[c] = s
    BY DEF Carried
  <2> QED  BY <2>1, <2>3, <2>4
<1> HIDE DEF f, numbers
<1>5. f \in Bijection(gone, numbers)
  BY <1>4 DEF Bijection, Injection, Surjection, IsInjective
<1>6. ExistsBijection(gone, numbers)
  BY <1>5 DEF ExistsBijection
<1>7. IsFiniteSet(numbers) /\ Cardinality(numbers) = Cardinality(gone)
  BY <1>3, <1>6, FS_Bijection
<1>8. Cardinality(gone) \in Nat
  BY <1>3, FS_CardinalityType
<1> QED  BY <1>3, <1>7, <1>8 DEF numbers

(* The rest of a span, when some of its packets are taken out. *)
LEMMA RestCounts ==
    ASSUME NEW low \in Int, NEW high \in Int, low <= high,
           NEW gone, gone \subseteq 0 .. MaxCount, Carried(gone) \subseteq low .. high
    PROVE  Cardinality((low .. high) \ Carried(gone)) = Cardinality(low .. high) - Cardinality(gone)
<1> DEFINE span == low .. high
           out == Carried(gone)
           rest == span \ out
<1>1. /\ IsFiniteSet(span) /\ Cardinality(span) = high - low + 1
      /\ out \in SUBSET span /\ rest \in SUBSET span
  BY SpanCounts
<1>2. Cardinality(out) = Cardinality(gone) /\ Cardinality(gone) \in Nat
  BY CarriedCounts
<1> HIDE DEF span, out
<1>3. IsFiniteSet(out) /\ IsFiniteSet(rest)
  BY <1>1, FS_Subset
<1>4. out \cup rest = span /\ out \cap rest = {}
  BY <1>1
<1>5. Cardinality(rest) \in Nat
  BY <1>3, FS_CardinalityType
<1> HIDE DEF rest
<1>6. Cardinality(out \cup rest) = Cardinality(out) + Cardinality(rest) - Cardinality(out \cap rest)
  BY <1>3, FS_Union
<1>7. Cardinality(span) = Cardinality(gone) + Cardinality(rest)
  <2>1. Cardinality(out \cap rest) = 0
    BY <1>4, FS_EmptySet, Zenon
  <2>2. Cardinality(out \cup rest) = Cardinality(gone) + Cardinality(rest) - 0
    BY <1>2, <1>6, <2>1, Zenon
  <2>3. Cardinality(span) = Cardinality(gone) + Cardinality(rest) - 0
    BY <1>4, <2>2, Zenon
  <2> QED  BY ONLY <1>2, <1>5, <2>3
<1>8. Cardinality(rest) = Cardinality(span) - Cardinality(gone)
  BY <1>2, <1>5, <1>7
<1> QED  BY <1>8 DEF rest, span, out


(* Two sets of packets, their numbers together and apart. *)
LEMMA CarriedTogether ==
    ASSUME NEW A, NEW B, A \subseteq 0 .. MaxCount, B \subseteq 0 .. MaxCount
    PROVE  /\ \A s : s \in Carried(A \cap B) <=> s \in Carried(A) /\ s \in Carried(B)
           /\ \A s : s \in Carried(A \cup B) <=> s \in Carried(A) \/ s \in Carried(B)
<1>1. Start \in Nat /\ MaxCount \in Nat
  BY LegConstants
<1>2. ASSUME NEW s, s \in Carried(A), s \in Carried(B) PROVE s \in Carried(A \cap B)
  <2>1. PICK c \in A : s = Start + c
    BY <1>2 DEF Carried
  <2>2. PICK d \in B : s = Start + d
    BY <1>2 DEF Carried
  <2>3. c \in Int /\ d \in Int
    OBVIOUS
  <2>4. c = d
    BY <1>1, <2>1, <2>2, <2>3
  <2> QED  BY <2>1, <2>2, <2>4 DEF Carried
<1> QED  BY <1>2 DEF Carried

LEMMA ParallelCounts ==
    ASSUME NEW A, NEW B, A \subseteq 0 .. MaxCount, B \subseteq 0 .. MaxCount
    PROVE  /\ Cardinality(A) \in Nat /\ Cardinality(B) \in Nat /\ Cardinality(A \cap B) \in Nat
           /\ Cardinality(A \cup B) = Cardinality(A) + Cardinality(B) - Cardinality(A \cap B)
           /\ Cardinality(A \ B) = Cardinality(A) - Cardinality(A \cap B)
           /\ Cardinality(B \ A) = Cardinality(B) - Cardinality(A \cap B)
<1>1. IsFiniteSet(A) /\ IsFiniteSet(B) /\ Cardinality(A) \in Nat /\ Cardinality(B) \in Nat
  BY CarriedCounts
<1>2. Cardinality(A \cup B) = Cardinality(A) + Cardinality(B) - Cardinality(A \cap B)
  BY <1>1, FS_Union, Zenon
<1>3. ASSUME NEW S, NEW T, IsFiniteSet(S), IsFiniteSet(T)
      PROVE  Cardinality(S \ T) = Cardinality(S) - Cardinality(S \cap T)
             /\ Cardinality(S \cap T) \in Nat
  <2> DEFINE both == S \cap T
             rest == S \ T
  <2>1. IsFiniteSet(both) /\ IsFiniteSet(rest)
    BY <1>3, FS_Subset
  <2>2. both \cap rest = {} /\ both \cup rest = S
    OBVIOUS
  <2> HIDE DEF both, rest
  <2>3. Cardinality(both) \in Nat /\ Cardinality(rest) \in Nat /\ Cardinality({}) = 0
    BY <2>1, FS_CardinalityType, FS_EmptySet
  <2>4. Cardinality(both \cup rest) = Cardinality(both) + Cardinality(rest) - Cardinality(both \cap rest)
    BY <2>1, FS_Union, Zenon
  <2>5. Cardinality(S) = Cardinality(both) + Cardinality(rest) - 0
    BY <2>2, <2>3, <2>4, Zenon
  <2>6. Cardinality(rest) = Cardinality(S) - Cardinality(both)
    BY ONLY <2>3, <2>5
  <2> QED  BY <2>3, <2>6 DEF both, rest
<1>4. Cardinality(A \ B) = Cardinality(A) - Cardinality(A \cap B) /\ Cardinality(A \cap B) \in Nat
  BY <1>1, <1>3
<1>5. Cardinality(B \ A) = Cardinality(B) - Cardinality(B \cap A)
  BY <1>1, <1>3
<1>6. B \cap A = A \cap B
  OBVIOUS
<1> QED  BY <1>1, <1>2, <1>4, <1>5, <1>6, Zenon

LEMMA SpanFaithful ==
    ASSUME IInv, Judged, NEW leg \in Legs
    PROVE  LET by == Within(dropped[leg], Low, High)
           IN  /\ by \subseteq 0 .. MaxCount
               /\ \A s : s \in Carried(by) => s \in Low .. High
               /\ \A s \in Low .. High : s \in Numbers(leg) <=> s \notin Carried(by)
<1> DEFINE by == Within(dropped[leg], Low, High)
           cap == capture[leg]
           n == next[leg]
           least == Min(Numbers(leg))
           most == Max(Numbers(leg))
<1>1. Start \in Nat /\ MaxCount \in Nat /\ WideSpace \in Nat
  BY LegConstants
<1>2. /\ Low \in Nat /\ High \in Nat
      /\ least \in Numbers(leg) /\ least <= Low /\ most \in Numbers(leg) /\ High <= most
      /\ least \in Int /\ most \in Int
  BY <1>1, SpanCovered DEF IInv
<1>3. Numbers(leg) = Counted(cap)
  BY NumbersCounted
<1> HIDE DEF least, most
<1>4. n \in 0 .. MaxCount + 1 /\ Start <= least /\ most < Start + n
      /\ \A c \in 0 .. MaxCount :
             least <= Start + c /\ Start + c <= most => Faithful(cap, dropped[leg], c)
  BY <1>2, <1>3 DEF IInv, Leg, LegInv
<1>5. by \subseteq 0 .. MaxCount
  BY DEF IInv, PathTypes, Within
<1>6. ASSUME NEW s, s \in Carried(by) PROVE s \in Low .. High
  BY <1>6 DEF Carried, Within
<1>7. ASSUME NEW s \in Low .. High
      PROVE  s \in Numbers(leg) <=> s \notin Carried(by)
  <2> DEFINE c == s - Start
  <2>1. c \in 0 .. MaxCount /\ Start + c = s /\ least <= Start + c /\ Start + c <= most
    BY <1>1, <1>2, <1>4
  <2>2. Faithful(cap, dropped[leg], c)
    BY <1>4, <2>1
  <2>3. s \in Numbers(leg) <=> c \notin dropped[leg]
    BY <1>3, <2>1, <2>2 DEF Faithful
  <2>4. c \in dropped[leg] => s \in Carried(by)
    BY <2>1 DEF Carried, Within
  <2>5. s \in Carried(by) => c \in dropped[leg]
    <3> SUFFICES ASSUME s \in Carried(by) PROVE c \in dropped[leg]
      OBVIOUS
    <3>1. PICK d \in by : s = Start + d
      BY DEF Carried
    <3>2. d \in dropped[leg] /\ d \in Int
      BY <1>5 DEF Within
    <3>3. d = c
      BY <1>1, <3>1, <3>2
    <3> QED  BY <3>2, <3>3
  <2> QED  BY <2>3, <2>4, <2>5
<1> QED  BY <1>5, <1>6, <1>7 DEF by

(* The numbers of the account, in terms of what was dropped. *)
LEMMA AccountCounts ==
    ASSUME IInv, Judged
    PROVE  LET by == [leg \in Legs |-> Within(dropped[leg], Low, High)]
               size == Cardinality(Low .. High)
           IN  /\ Reconstruct.lost = Cardinality(by["a"] \cap by["b"])
               /\ Reconstruct.delivered = size - Cardinality(by["a"] \cap by["b"])
               /\ Reconstruct.duplicated = Cardinality((Low .. High) \ Carried(by["a"] \cup by["b"]))
               /\ Reconstruct.recovered_a = Cardinality(by["a"] \ by["b"])
               /\ Reconstruct.recovered_b = Cardinality(by["b"] \ by["a"])
<1> DEFINE A == Within(dropped["a"], Low, High)
           B == Within(dropped["b"], Low, High)
           span == Low .. High
           size == Cardinality(Low .. High)
           a == Numbers("a") \cap span
           b == Numbers("b") \cap span
           by == [leg \in Legs |-> Within(dropped[leg], Low, High)]
<1>1. Low \in Int /\ High \in Int /\ Low <= High /\ size \in Int
      /\ size = High - Low + 1 /\ size = Cardinality(Low .. High)
  <2>1. Low \in Int /\ High \in Int /\ Low <= High
    BY SpanCovered DEF IInv
  <2> QED  BY <2>1, SpanCounts
<1>2. "a" \in Legs /\ "b" \in Legs
  BY DEF Legs
<1>3. by["a"] = A /\ by["b"] = B
  BY <1>2
<1>4. /\ A \subseteq 0 .. MaxCount /\ B \subseteq 0 .. MaxCount
      /\ \A s : s \in Carried(A) => s \in span
      /\ \A s : s \in Carried(B) => s \in span
      /\ \A s \in span : s \in Numbers("a") <=> s \notin Carried(A)
      /\ \A s \in span : s \in Numbers("b") <=> s \notin Carried(B)
  BY <1>2, SpanFaithful
<1> HIDE DEF A, B, size
<1>5. /\ A \cap B \subseteq 0 .. MaxCount /\ A \cup B \subseteq 0 .. MaxCount
      /\ \A s : s \in Carried(A \cap B) <=> s \in Carried(A) /\ s \in Carried(B)
      /\ \A s : s \in Carried(A \cup B) <=> s \in Carried(A) \/ s \in Carried(B)
  BY <1>4, CarriedTogether
<1>6. /\ a = span \ Carried(A) /\ b = span \ Carried(B)
      /\ a \cup b = span \ Carried(A \cap B) /\ a \cap b = span \ Carried(A \cup B)
  BY <1>4, <1>5
<1>7. /\ Carried(A) \subseteq span /\ Carried(B) \subseteq span
      /\ Carried(A \cap B) \subseteq span /\ Carried(A \cup B) \subseteq span
  BY <1>4, <1>5
<1> HIDE DEF a, b
<1>8. /\ Cardinality(a) = size - Cardinality(A) /\ Cardinality(b) = size - Cardinality(B)
      /\ Cardinality(a \cup b) = size - Cardinality(A \cap B)
      /\ Cardinality(a \cap b) = size - Cardinality(A \cup B)
  <2>1. \A S : S \subseteq 0 .. MaxCount /\ Carried(S) \subseteq span
              => Cardinality(span \ Carried(S)) = size - Cardinality(S)
    <3> SUFFICES ASSUME NEW S, S \subseteq 0 .. MaxCount, Carried(S) \subseteq span
                 PROVE  Cardinality(span \ Carried(S)) = size - Cardinality(S)
      OBVIOUS
    <3>1. Low \in Int /\ High \in Int /\ Low <= High
      BY <1>1
    <3>2. Cardinality((Low .. High) \ Carried(S)) = Cardinality(Low .. High) - Cardinality(S)
      BY <3>1, RestCounts
    <3> QED  BY <1>1, <3>2, Zenon
  <2> QED  BY <1>4, <1>5, <1>6, <1>7, <2>1, Zenon
<1>9. /\ Cardinality(A) \in Nat /\ Cardinality(B) \in Nat /\ Cardinality(A \cap B) \in Nat
      /\ Cardinality(A \cup B) = Cardinality(A) + Cardinality(B) - Cardinality(A \cap B)
      /\ Cardinality(A \ B) = Cardinality(A) - Cardinality(A \cap B)
      /\ Cardinality(B \ A) = Cardinality(B) - Cardinality(A \cap B)
  BY <1>4, ParallelCounts
<1>10. /\ Reconstruct.delivered = Cardinality(a \cup b)
       /\ Reconstruct.duplicated = Cardinality(a \cap b)
       /\ Reconstruct.recovered_a = Cardinality(b) - Cardinality(a \cap b)
       /\ Reconstruct.recovered_b = Cardinality(a) - Cardinality(a \cap b)
       /\ Reconstruct.lost = size - Cardinality(a \cup b)
  <2>1. a = Numbers("a") \cap (Low .. High) /\ b = Numbers("b") \cap (Low .. High)
    BY DEF a, b
  <2>2. /\ Reconstruct.delivered = Cardinality(a \cup b)
        /\ Reconstruct.duplicated = Cardinality(a \cap b)
        /\ Reconstruct.recovered_a = Cardinality(b) - Cardinality(a \cap b)
        /\ Reconstruct.recovered_b = Cardinality(a) - Cardinality(a \cap b)
        /\ Reconstruct.lost = High - Low + 1 - Cardinality(a \cup b)
    BY <2>1, AccountFields
  <2>3. High - Low + 1 - Cardinality(a \cup b) = size - Cardinality(a \cup b)
    <3> DEFINE kept == Cardinality(a \cup b)
    <3>1. kept \in Int
      BY <1>1, <1>8, <1>9
    <3> HIDE DEF kept
    <3>2. High - Low + 1 - kept = size - kept
      BY ONLY <1>1, <3>1
    <3> QED  BY <3>2 DEF kept
  <2> QED  BY <2>2, <2>3, Zenon
<1>11. /\ Reconstruct.delivered = size - Cardinality(A \cap B)
       /\ Reconstruct.duplicated = Cardinality(span \ Carried(A \cup B))
  BY <1>6, <1>8, <1>10, Zenon
<1>12. /\ Reconstruct.recovered_a = Cardinality(A \ B)
       /\ Reconstruct.recovered_b = Cardinality(B \ A)
       /\ Reconstruct.lost = Cardinality(A \cap B)
  <2> DEFINE cA == Cardinality(A)
             cB == Cardinality(B)
             cAB == Cardinality(A \cap B)
  <2>1. size \in Int /\ cA \in Int /\ cB \in Int /\ cAB \in Int
    BY <1>1, <1>9
  <2>2. /\ Reconstruct.recovered_a = (size - cB) - (size - (cA + cB - cAB))
        /\ Reconstruct.recovered_b = (size - cA) - (size - (cA + cB - cAB))
        /\ Reconstruct.lost = size - (size - cAB)
    BY <1>8, <1>9, <1>10, Zenon
  <2>3. Cardinality(A \ B) = cA - cAB /\ Cardinality(B \ A) = cB - cAB
    BY <1>9
  <2> HIDE DEF cA, cB, cAB
  <2>4. /\ (size - cB) - (size - (cA + cB - cAB)) = cA - cAB
        /\ (size - cA) - (size - (cA + cB - cAB)) = cB - cAB
        /\ size - (size - cAB) = cAB
    BY ONLY <2>1
  <2> QED  BY <2>2, <2>3, <2>4, Zenon DEF cAB
<1> QED  BY <1>1, <1>3, <1>11, <1>12 DEF size

(* What reconstruct() says of two captures of one run of the extended      *)
(* number is what the two paths did over the packets both reach across:    *)
(* lost is what neither carried, duplicated what both did, and what each   *)
(* leg mended is what the other one dropped alone, whenever each capture   *)
(* opened and closed and whatever the paths repeated.                      *)
THEOREM AccountIsWhatThePathsDid ==
    ASSUME InsideOneRun
    PROVE  Spec => []AccountIsTheNetworks
<1>1. IInv => AccountIsTheNetworks
  <2> SUFFICES ASSUME IInv, Judged
      PROVE  LET account == Reconstruct
                 span == Low .. High
                 by == [leg \in Legs |-> {c \in dropped[leg] : Start + c \in span}]
             IN  /\ account.lost = Cardinality(by["a"] \cap by["b"])
                 /\ account.delivered = Cardinality(span) - account.lost
                 /\ account.duplicated = Cardinality(span \ {Start + c : c \in by["a"] \cup by["b"]})
                 /\ account.recovered_a = Cardinality(by["a"] \ by["b"])
                 /\ account.recovered_b = Cardinality(by["b"] \ by["a"])
    BY DEF AccountIsTheNetworks
  <2> HIDE DEF Reconstruct, Low, High
  <2> QED  BY AccountCounts DEF Within, Carried
<1> QED  BY <1>1, LegsInductive, PTL


(* Inside one run of the extended number no packet is counted lost that    *)
(* either path brought, as redundancy.py's report says of it; the run of   *)
(* two legs recorded across a wrap shows why that run is assumed.          *)
THEOREM LostIsNeithers ==
    ASSUME InsideOneRun
    PROVE  Spec => []LostIsWhatNeitherCarried
<1>1. IInv => LostIsWhatNeitherCarried
  <2> SUFFICES ASSUME IInv, Judged
      PROVE  Reconstruct.lost <= Cardinality(dropped["a"] \cap dropped["b"])
    BY DEF LostIsWhatNeitherCarried
  <2> DEFINE both == dropped["a"] \cap dropped["b"]
             A == Within(dropped["a"], Low, High)
             B == Within(dropped["b"], Low, High)
  <2>1. "a" \in Legs /\ "b" \in Legs
    BY DEF Legs
  <2>2. both \subseteq 0 .. MaxCount
    BY <2>1 DEF IInv, PathTypes
  <2>3. Reconstruct.lost = Cardinality(A \cap B)
    BY <2>1, AccountCounts
  <2>4. A \cap B \in SUBSET both
    BY DEF Within
  <2> HIDE DEF A, B, both
  <2>5. IsFiniteSet(both)
    BY <2>2, CarriedCounts
  <2>6. Cardinality(A \cap B) <= Cardinality(both)
    BY <2>4, <2>5, FS_Subset
  <2> QED  BY <2>3, <2>6 DEF both
<1> QED  BY <1>1, LegsInductive, PTL

-----------------------------------------------------------------------------
(* A leg's first copy of a number, when its capture did not open between a *)
(* packet and its repeat.                                                  *)
LEMMA EarliestIsTimely ==
    ASSUME IInv, NEW leg \in Legs, OpenedOnTime(leg), NEW x \in Numbers(leg)
    PROVE  /\ x \in Int /\ Earliest(leg, x) \in Int
           /\ x - Start <= Earliest(leg, x) /\ Earliest(leg, x) <= x - Start + MaxDelay
<1> DEFINE cap == capture[leg]
           times == Arrivals(leg, x)
<1>1. Start \in Nat /\ MaxDelay \in Nat /\ WideSpace \in Nat
  BY LegConstants
<1>2. cap \in Seq(Copies) /\ \A i \in DOMAIN cap : cap[i].number \in Int /\ cap[i].arrival \in Nat
  <2>1. cap \in Seq(Copies)
    BY DEF IInv, PathTypes
  <2>2. \A i \in DOMAIN cap : cap[i] \in Copies
    BY <2>1
  <2> QED  BY <1>1, <2>1, <2>2 DEF Copies
<1>3. LegInv(cap, dropped[leg], next[leg], window[leg], now)
  BY DEF IInv, Leg
<1> HIDE DEF cap
<1>4. \A i \in DOMAIN cap :
          /\ cap[i].number - Start <= cap[i].arrival
          /\ \E j \in DOMAIN cap :
                 /\ cap[j].number = cap[i].number
                 /\ j = 1 \/ cap[j].arrival <= cap[j].number - Start + MaxDelay
  BY <1>3 DEF LegInv
<1>5. \A y \in times : y \in Nat /\ x - Start <= y
  <2> SUFFICES ASSUME NEW y \in times PROVE y \in Nat /\ x - Start <= y
    OBVIOUS
  <2>1. PICK i \in DOMAIN cap : cap[i].number = x /\ y = cap[i].arrival
    BY DEF Arrivals, cap
  <2> QED  BY <1>2, <1>4, <2>1
<1>6. PICK i \in DOMAIN cap : cap[i].number = x
  BY DEF Numbers, cap
<1>7. PICK j \in DOMAIN cap : /\ cap[j].number = x
                              /\ j = 1 \/ cap[j].arrival <= x - Start + MaxDelay
  BY <1>4, <1>6
<1>8. cap[j].arrival <= x - Start + MaxDelay
  <2>1. CASE j = 1
    <3>1. cap[1].arrival - (cap[1].number - Start) <= MaxDelay
      BY DEF OpenedOnTime, cap
    <3>2. cap[1].arrival - (x - Start) <= MaxDelay /\ cap[1].arrival \in Int /\ x \in Int
      BY <1>2, <1>7, <2>1, <3>1
    <3>3. cap[1].arrival <= x - Start + MaxDelay
      BY <1>1, <3>2
    <3> QED  BY <2>1, <3>3
  <2>2. CASE j # 1
    BY <1>7, <2>2
  <2> QED  BY <2>1, <2>2
<1>9. cap[j].arrival \in times
  BY <1>7 DEF Arrivals, cap
<1>10. times \subseteq Int /\ times # {} /\ 0 \in Int /\ \A y \in times : 0 <= y
  BY <1>5, <1>9
<1> HIDE DEF times
<1>11. Min(times) \in times /\ \A y \in times : Min(times) <= y
  BY <1>10, MinBounded, Zenon
<1>12. Min(times) \in Int /\ x - Start <= Min(times) /\ Min(times) <= cap[j].arrival
  BY <1>5, <1>9, <1>11
<1>13. x \in Int /\ cap[j].arrival \in Int
  BY <1>2, <1>6, <1>7
<1>14. Min(times) <= x - Start + MaxDelay
  BY <1>1, <1>8, <1>12, <1>13
<1>15. Earliest(leg, x) = Min(times)
  BY DEF Earliest, times
<1> QED  BY <1>12, <1>13, <1>14, <1>15

(* The skew reported is no more than what the paths' delays can put        *)
(* between two first copies, at either end: no repeat stretches it.        *)
THEOREM SkewIsNoMoreThanThePaths ==
    ASSUME InsideOneRun
    PROVE  Spec => []SkewIsThePaths
<1>1. IInv => SkewIsThePaths
  <2> SUFFICES ASSUME IInv, Judged, \A leg \in Legs : OpenedOnTime(leg)
      PROVE  Reconstruct.skew_min >= -MaxDelay /\ Reconstruct.skew_max <= MaxDelay
    BY DEF SkewIsThePaths
  <2> DEFINE a == Numbers("a") \cap (Low .. High)
             b == Numbers("b") \cap (Low .. High)
             skews == Skews(a \cap b)
  <2>1. "a" \in Legs /\ "b" \in Legs /\ MaxDelay \in Nat /\ -MaxDelay \in Int /\ Start \in Nat
    BY LegConstants DEF Legs
  <2>2. \A s \in skews : s \in Int /\ -MaxDelay <= s /\ s <= MaxDelay
    <3> SUFFICES ASSUME NEW x \in a \cap b
        PROVE  LET s == Earliest("b", x) - Earliest("a", x)
               IN  s \in Int /\ -MaxDelay <= s /\ s <= MaxDelay
      BY DEF Skews
    <3> DEFINE p == Earliest("a", x)
               q == Earliest("b", x)
    <3>1. x \in Int /\ p \in Int /\ x - Start <= p /\ p <= x - Start + MaxDelay
      BY <2>1, EarliestIsTimely
    <3>2. q \in Int /\ x - Start <= q /\ q <= x - Start + MaxDelay
      BY <2>1, EarliestIsTimely
    <3> HIDE DEF p, q
    <3>3. q - p \in Int /\ -MaxDelay <= q - p /\ q - p <= MaxDelay
      BY ONLY <2>1, <3>1, <3>2
    <3> QED  BY <3>3 DEF p, q
  <2>3. a \cap b # {} => skews # {}
    BY DEF Skews
  <2>4. /\ Reconstruct.skew_min = IF a \cap b = {} THEN 0 ELSE Min(skews)
        /\ Reconstruct.skew_max = IF a \cap b = {} THEN 0 ELSE Max(skews)
    BY AccountFields
  <2> HIDE DEF a, b, skews
  <2>5. CASE a \cap b = {}
    <3>1. Reconstruct.skew_min = 0 /\ Reconstruct.skew_max = 0
      BY <2>4, <2>5
    <3>2. 0 >= -MaxDelay /\ 0 <= MaxDelay
      BY <2>1
    <3> QED  BY <3>1, <3>2
  <2>6. CASE a \cap b # {}
    <3>1. skews # {} /\ skews \subseteq Int /\ MaxDelay \in Int
          /\ (\A s \in skews : -MaxDelay <= s) /\ (\A s \in skews : s <= MaxDelay)
      BY <2>1, <2>2, <2>3, <2>6
    <3>2. Min(skews) \in skews
      BY <2>1, <3>1, MinBounded, Zenon
    <3>3. Max(skews) \in skews
      BY <3>1, MaxBounded, Zenon
    <3>4. Reconstruct.skew_min = Min(skews) /\ Reconstruct.skew_max = Max(skews)
      BY <2>4, <2>6
    <3>5. Min(skews) >= -MaxDelay /\ Max(skews) <= MaxDelay
      BY <2>1, <2>2, <3>2, <3>3
    <3> QED  BY <3>4, <3>5
  <2> QED  BY <2>5, <2>6
<1> QED  BY <1>1, LegsInductive, PTL

=============================================================================
