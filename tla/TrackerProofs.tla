---------------------------- MODULE TrackerProofs ----------------------------
(***************************************************************************)
(* SequenceTracker implements PacketAccount for every value of the         *)
(* constants and every chunk, and the account it comes to is a sound one.  *)
(* Then Flow: over any network that keeps RFC 3550's window, the account a *)
(* tracker keeps of a sender is true of what was sent.                     *)
(***************************************************************************)
EXTENDS SequenceTracker, Flow, Foundations

LEMMA SpaceFacts ==
    ASSUME NEW w \in BOOLEAN
    PROVE  /\ Space(w) \in Nat /\ Dropout(w) \in Nat /\ Misorder \in Nat
           /\ NarrowSpace \in Nat /\ WideSpace \in Nat
           /\ 1 < Dropout(w) /\ Dropout(w) + Misorder <= Space(w) /\ Space(w) > 1
  BY SpaceAssumption DEF Space, Dropout

-----------------------------------------------------------------------------
(* Steps between two packets. *)

(* A step is forward by its size, or backward by what it lacks of a space; *)
(* either way it leads to a number that stands for the packet's own.       *)
LEMMA StepSigned ==
    ASSUME NEW w \in BOOLEAN, NEW number \in Int, NEW here \in Int
    PROVE  LET step == Step(w, number, here)
           IN  /\ step \in 0 .. Space(w) - 1
               /\ Signed(w, step) \in Int
               /\ \E q \in Int : here + Signed(w, step) = number + q * Space(w)
<1> DEFINE S == Space(w)
           s == Step(w, number, here)
           d == (number - here) \div S
<1>1. S \in Nat /\ S > 1 /\ Misorder \in Nat
  BY SpaceFacts
<1>2. d \in Int /\ s \in 0 .. S - 1 /\ number - here = d * S + s
  <2> DEFINE a == number - here
  <2>1. a \in Int /\ s = a % S /\ d = a \div S
    BY DEF Step
  <2> HIDE DEF a, S, s, d
  <2>2. d \in Int /\ s \in 0 .. S - 1 /\ a = d * S + s
    BY <1>1, <2>1, Division
  <2> QED  BY <2>2 DEF a
<1>3. Signed(w, s) = s \/ Signed(w, s) = s - S
  BY DEF Signed
<1> HIDE DEF S, s, d
<1>4. /\ (-d) \in Int /\ (-d) * S = -(d * S)
      /\ (-d - 1) \in Int /\ (-d - 1) * S = -(d * S) - S
  BY <1>1, <1>2
<1>5. d * S \in Int
  BY <1>1, <1>2
<1>6. CASE Signed(w, s) = s
  <2>1. here + Signed(w, s) = number + (-d) * S
    BY <1>1, <1>2, <1>4, <1>5, <1>6
  <2> QED  BY <1>1, <1>2, <1>4, <1>6, <2>1 DEF S, s
<1>7. CASE Signed(w, s) = s - S
  <2>1. here + Signed(w, s) = number + (-d - 1) * S
    BY <1>1, <1>2, <1>4, <1>5, <1>7
  <2> QED  BY <1>1, <1>2, <1>4, <1>7, <2>1 DEF S, s
<1> QED  BY <1>3, <1>6, <1>7

(* Numbers a whole number of spaces apart are as far from the next. *)
LEMMA StepFromAnyTurn ==
    ASSUME NEW w \in BOOLEAN, NEW number \in Int, NEW here \in Int, NEW there \in Int,
           NEW q \in Int, here = there + q * Space(w)
    PROVE  Step(w, number, here) = Step(w, number, there)
<1> DEFINE S == Space(w)
           a == number - here
           b == number - there
<1>1. S \in Nat /\ S > 1
  BY SpaceFacts
<1>2. here = there + q * S
  OBVIOUS
<1>3. (a % S = b % S) => Step(w, number, here) = Step(w, number, there)
  BY DEF Step
<1> HIDE DEF S
<1>4. (-q) \in Int /\ (-q) * S = -(q * S) /\ q * S \in Int
  BY <1>1
<1>5. a \in Int /\ b \in Int /\ a = b + (-q) * S
  BY <1>2, <1>4
<1> DEFINE p == -q
<1>6. p \in Int /\ a = b + p * S
  BY <1>4, <1>5
<1> HIDE DEF a, b, p
<1>7. (b + p * S) % S = b % S
  <2>1. b \in Int /\ S \in Nat /\ S > 0 /\ p \in Int
    BY <1>1, <1>5, <1>6
  <2> QED  BY ONLY <2>1, RemainderShift
<1>8. a % S = b % S
  BY <1>6, <1>7
<1> QED  BY <1>3, <1>8

(* What a step of one is, and what a jump is not. *)
LEMMA StepKinds ==
    ASSUME NEW w \in BOOLEAN, NEW step \in 0 .. Space(w) - 1
    PROVE  /\ IsJump(w, step) => step # 1 /\ ~IsDuplicate(step) /\ ~IsReordered(w, step)
           /\ step = 1 => /\ ~IsJump(w, step) /\ ~IsDuplicate(step)
                          /\ ~IsReordered(w, step) /\ Signed(w, step) = 1
           /\ IsDuplicate(step) => ~IsReordered(w, step) /\ step # 1 /\ Signed(w, step) = 0
           /\ IsReordered(w, step) => /\ step # 1 /\ Signed(w, step) < 0
                                      /\ -Misorder <= Signed(w, step)
           /\ ~IsReordered(w, step) /\ ~IsDuplicate(step) => Signed(w, step) >= 1
  BY SpaceFacts DEF IsReordered, IsJump, IsDuplicate, Signed

-----------------------------------------------------------------------------
(* The account PacketAccount keeps is Rfc3550's. *)
LEMMA PromiseIsRfc3550 ==
    /\ Promise!Fresh = Fresh
    /\ \A a, w, number : Promise!Admit(a, w, number) = Admit(a, w, number)
<1>1. Promise!Fresh = Fresh
  BY DEF Promise!Fresh, Fresh
<1>2. ASSUME NEW a, NEW w, NEW number
      PROVE  Promise!Admit(a, w, number) = Admit(a, w, number)
  <2>1. Promise!Opened(w, number) = Opened(w, number)
    BY <1>1 DEF Promise!Opened, Opened
  <2>2. Promise!Resynced(a, number) = Resynced(a, number)
    BY DEF Promise!Resynced, Resynced
  <2>3. \A v, m, p : Promise!Step(v, m, p) = Step(v, m, p)
    BY DEF Promise!Step, Step, Promise!Space, Space
  <2>4. \A v, s : Promise!Signed(v, s) = Signed(v, s) /\ Promise!IsReordered(v, s) = IsReordered(v, s)
    BY DEF Promise!Signed, Signed, Promise!IsReordered, IsReordered, Promise!Space, Space
  <2>5. \A v, s : Promise!IsJump(v, s) = IsJump(v, s)
    BY <2>4 DEF Promise!IsJump, IsJump, Promise!Dropout, Dropout
  <2>6. \A e : Promise!One(e) = One(e)
    BY DEF Promise!One, One
  <2>7. \A s : Promise!IsDuplicate(s) = IsDuplicate(s)
    BY DEF Promise!IsDuplicate, IsDuplicate
  <2>8. \A x, y : Promise!Lesser(x, y) = Lesser(x, y) /\ Promise!Greater(x, y) = Greater(x, y)
    BY DEF Promise!Lesser, Lesser, Promise!Greater, Greater
  <2>9. \A s : Promise!Widened(a, s) = Widened(a, s)
    BY <2>4, <2>6, <2>7, <2>8 DEF Promise!Widened, Widened, Promise!Landed, Landed
  <2> QED  BY <2>1, <2>2, <2>3, <2>5, <2>9 DEF Promise!Admit, Admit
<1> QED  BY <1>1, <1>2

(* The accounts Admit comes to, one packet of a chunk after another. *)
Follows(after, b, w, chunk) ==
    /\ DOMAIN after = 0 .. Len(chunk)
    /\ after[0] = b
    /\ \A i \in 1 .. Len(chunk) : after[i] = Admit(after[i - 1], w, chunk[i])

(* The last of them is the one AdmitAll comes to. *)
LEMMA AdmitAllIs ==
    ASSUME NEW w, NEW chunk, Len(chunk) \in Nat, NEW b, NEW after,
           Follows(after, b, w, chunk)
    PROVE  Promise!AdmitAll(b, w, chunk) = after[Len(chunk)]
<1>0. /\ DOMAIN after = 0 .. Len(chunk) /\ after[0] = b
      /\ \A i \in 1 .. Len(chunk) : after[i] = Admit(after[i - 1], w, chunk[i])
  BY DEF Follows
<1> DEFINE n == Len(chunk)
           Iterates(f) == f = [i \in 0 .. n |->
                                  IF i = 0 THEN b
                                  ELSE Promise!Admit(f[i - 1], w, chunk[i])]
           own == [i \in 0 .. n |-> after[i]]
           g == CHOOSE h : Iterates(h)
<1>1. Iterates(own)
  <2>1. \A i \in 0 .. n : after[i] = IF i = 0 THEN b
                                     ELSE Promise!Admit(own[i - 1], w, chunk[i])
    <3>1. ASSUME NEW i \in 1 .. n PROVE after[i] = Promise!Admit(own[i - 1], w, chunk[i])
      <4>1. own[i - 1] = after[i - 1]
        OBVIOUS
      <4> QED  BY <1>0, <4>1, PromiseIsRfc3550
    <3> QED  BY <1>0, <3>1
  <2> QED  BY <2>1
<1> HIDE DEF own, Iterates
<1>2. Iterates(g)
  BY <1>1, Zenon
<1> HIDE DEF g
<1>3. DOMAIN g = 0 .. n /\ g[0] = b
  BY <1>2 DEF Iterates
<1>4. \A i \in 1 .. n : g[i] = Admit(g[i - 1], w, chunk[i])
  BY <1>2, PromiseIsRfc3550 DEF Iterates
<1>5. \A i \in 0 .. n : g[i] = after[i]
  <2>1. StepAlike(g, after, n)
    BY <1>0, <1>3, <1>4 DEF StepAlike
  <2> QED  BY <2>1, RecursionUnique
<1>6. g[n] = after[n]
  BY <1>5
<1>7. Promise!AdmitAll(b, w, chunk) = g[n]
  BY DEF Promise!AdmitAll, g, Iterates
<1> QED  BY <1>6, <1>7
-----------------------------------------------------------------------------
(* A chunk's cuts and its cumulative sums. *)
LEMMA CutBeforeIs ==
    ASSUME NEW cuts, cuts \subseteq Nat, NEW i \in Nat
    PROVE  /\ CutBefore(cuts, i) \in cuts \cup {0}
           /\ CutBefore(cuts, i) \in 0 .. i
           /\ \A c \in cuts : c <= i => c <= CutBefore(cuts, i)
<1> DEFINE T == {c \in cuts : c <= i} \cup {0}
<1>1. T \subseteq Int /\ T # {} /\ i \in Int /\ (\A x \in T : x <= i) /\ T \subseteq Nat
  <2>1. \A x \in T : x \in Nat /\ x <= i
    OBVIOUS
  <2>2. 0 \in T
    OBVIOUS
  <2> HIDE DEF T
  <2> QED  BY <2>1, <2>2
<1>2. \A c \in cuts : c <= i => c \in T
  OBVIOUS
<1>3. CutBefore(cuts, i) = Max(T)
  BY DEF CutBefore
<1>4. T \subseteq cuts \cup {0}
  OBVIOUS
<1> HIDE DEF T
<1>5. Max(T) \in T /\ \A x \in T : x <= Max(T)
  BY <1>1, MaxBounded, Zenon
<1>6. Max(T) <= i /\ Max(T) \in 0 .. i
  <2>1. Max(T) \in Nat /\ Max(T) <= i
    BY <1>1, <1>5
  <2> QED  BY <2>1
<1> DEFINE top == Max(T)
<1> HIDE DEF top
<1>7. top \in T /\ top \in 0 .. i /\ (\A x \in T : x <= top) /\ CutBefore(cuts, i) = top
  BY <1>3, <1>5, <1>6 DEF top
<1> QED  BY <1>2, <1>4, <1>7

LEMMA CutBeforeMoves ==
    ASSUME NEW cuts, cuts \subseteq Nat, NEW i \in Nat, i > 0
    PROVE  CutBefore(cuts, i) = IF i \in cuts THEN i ELSE CutBefore(cuts, i - 1)
<1>1. CASE i \in cuts
  <2>1. i <= i => i <= CutBefore(cuts, i)
    BY <1>1, CutBeforeIs
  <2>2. CutBefore(cuts, i) \in 0 .. i
    BY CutBeforeIs
  <2> QED  BY <1>1, <2>1, <2>2
<1>2. CASE i \notin cuts
  <2>1. i - 1 \in Nat
    OBVIOUS
  <2>2. \A c \in cuts : c <= i <=> c <= i - 1
    <3> TAKE c \in cuts
    <3>1. c \in Nat /\ c # i
      BY <1>2
    <3> QED  BY <3>1
  <2>3. {c \in cuts : c <= i} = {c \in cuts : c <= i - 1}
    BY <2>2
  <2> QED  BY <1>2, <2>3 DEF CutBefore
<1> QED  BY <1>1, <1>2

LEMMA CumSumIs ==
    ASSUME NEW w, NEW n \in Nat, NEW steps, \A i \in 1 .. n : Signed(w, steps[i]) \in Int
    PROVE  /\ CumSum(w, steps, n) \in [0 .. n -> Int]
           /\ CumSum(w, steps, n)[0] = 0
           /\ \A i \in 1 .. n :
                  CumSum(w, steps, n)[i] = CumSum(w, steps, n)[i - 1]
                      + (IF IsJump(w, steps[i]) THEN 0 ELSE Signed(w, steps[i]))
<1> DEFINE gap == [i \in 1 .. n |-> IF IsJump(w, steps[i]) THEN 0 ELSE Signed(w, steps[i])]
           Sums(f) == f = [i \in 0 .. n |->
               IF i = 0 THEN 0
               ELSE f[i - 1] + (IF IsJump(w, steps[i]) THEN 0 ELSE Signed(w, steps[i]))]
           sum == CHOOSE f : Sums(f)
<1>1. gap \in [1 .. n -> Int]
  OBVIOUS
<1>2. \A i \in 1 .. n : gap[i] = IF IsJump(w, steps[i]) THEN 0 ELSE Signed(w, steps[i])
  OBVIOUS
<1> HIDE DEF gap
<1>3. \E f : Sums(f)
  <2>1. PICK f \in [0 .. n -> Int] : f = [i \in 0 .. n |-> IF i = 0 THEN 0 ELSE f[i - 1] + gap[i]]
    BY <1>1, RunningSum, Zenon
  <2>2. \A i \in 0 .. n : i # 0 => i \in 1 .. n
    OBVIOUS
  <2>3. Sums(f)
    BY <1>2, <2>1, <2>2
  <2> QED  BY <2>3
<1>4. Sums(sum)
  <2> HIDE DEF Sums
  <2> QED  BY <1>3, Zenon
<1> HIDE DEF sum
<1>5. DOMAIN sum = 0 .. n /\ sum[0] = 0 /\ sum = [i \in 0 .. n |-> sum[i]]
  BY <1>4
<1>6. \A i \in 1 .. n :
          sum[i] = sum[i - 1] + (IF IsJump(w, steps[i]) THEN 0 ELSE Signed(w, steps[i]))
  BY <1>4
<1>7. \A i \in 1 .. n : sum[i] = sum[i - 1] + gap[i]
  BY <1>2, <1>6
<1>8. \A i \in 0 .. n : sum[i] \in Int
  BY <1>1, <1>5, <1>7, RunningSumIs, Zenon
<1>9. sum \in [0 .. n -> Int]
  BY <1>5, <1>8
<1>10. CumSum(w, steps, n) = sum
  BY Zenon DEF CumSum, sum, Sums
<1> QED  BY <1>5, <1>6, <1>9, <1>10

(* What is banked by a packet is banked by the one before it and by the    *)
(* cut it may be.                                                          *)
SpansHaveWidths(cuts, numbers, low, high, n) ==
    \A i \in 1 .. n : i \in cuts =>
        Width(SpanOf(cuts, numbers, low, high, CutBefore(cuts, i - 1))) \in Int

LEMMA BankedIs ==
    ASSUME NEW n \in Nat, NEW cuts, NEW numbers, NEW low, NEW high,
           SpansHaveWidths(cuts, numbers, low, high, n)
    PROVE  LET banked(i) == Banked(cuts, numbers, low, high, i)
           IN  /\ \A i \in 0 .. n : banked(i) \in Int
               /\ banked(0) = 0
               /\ \A i \in 1 .. n :
                      banked(i) = banked(i - 1)
                        + (IF i \in cuts
                           THEN Width(SpanOf(cuts, numbers, low, high, CutBefore(cuts, i - 1)))
                           ELSE 0)
<1> DEFINE Part(i) == IF i \in cuts
                      THEN Width(SpanOf(cuts, numbers, low, high, CutBefore(cuts, i - 1)))
                      ELSE 0
           banked(i) == Banked(cuts, numbers, low, high, i)
           gap == [i \in 1 .. n |-> Part(i)]
           Sums(f, m) == f = [i \in 0 .. m |-> IF i = 0 THEN 0 ELSE f[i - 1] + Part(i)]
<1>1. gap \in [1 .. n -> Int] /\ \A i \in 1 .. n : gap[i] = Part(i)
  BY DEF SpansHaveWidths
<1>2. \A m : banked(m) = (CHOOSE f : Sums(f, m))[m]
  BY Zenon DEF Banked
<1> HIDE DEF gap, Part, banked
<1>3. PICK f \in [0 .. n -> Int] : f = [i \in 0 .. n |-> IF i = 0 THEN 0 ELSE f[i - 1] + gap[i]]
  BY <1>1, RunningSum, Zenon
<1>4. f[0] = 0 /\ \A i \in 1 .. n : f[i] = f[i - 1] + Part(i)
  <2>1. f[0] = 0
    BY <1>3
  <2>2. \A i \in 1 .. n : f[i] = f[i - 1] + gap[i]
    BY <1>3
  <2> QED  BY <1>1, <2>1, <2>2
<1>5. ASSUME NEW m \in 0 .. n PROVE banked(m) = f[m]
  <2> DEFINE g == CHOOSE h : Sums(h, m)
             own == [i \in 0 .. m |-> f[i]]
  <2>1. Sums(own, m)
    <3>1. ASSUME NEW i \in 0 .. m PROVE f[i] = IF i = 0 THEN 0 ELSE own[i - 1] + Part(i)
      <4>1. i # 0 => own[i - 1] = f[i - 1] /\ i \in 1 .. n
        OBVIOUS
      <4> QED  BY <1>4, <4>1
    <3> QED  BY <3>1
  <2>2. Sums(g, m)
    <3> HIDE DEF Sums, own
    <3> QED  BY <2>1, Zenon
  <2>3. banked(m) = g[m]
    BY <1>2
  <2> HIDE DEF g
  <2>4. DOMAIN g = 0 .. m /\ g[0] = 0 /\ \A i \in 1 .. m : g[i] = g[i - 1] + Part(i)
    BY <2>2
  <2>5. DOMAIN own = 0 .. m /\ own[0] = 0
    BY <1>4
  <2>6. \A i \in 1 .. m : own[i] = own[i - 1] + Part(i)
    BY <1>4
  <2>7. own[m] = f[m]
    OBVIOUS
  <2> HIDE DEF own
  <2>8. StepAlike(g, own, m)
    BY <2>4, <2>5, <2>6 DEF StepAlike
  <2>9. m \in Nat
    OBVIOUS
  <2>10. \A i \in 0 .. m : g[i] = own[i]
    BY <2>8, <2>9, RecursionUnique
  <2>11. g[m] = own[m]
    BY <2>9, <2>10
  <2> QED  BY <2>3, <2>7, <2>11
<1>6. \A i \in 0 .. n : banked(i) \in Int
  BY <1>5
<1>7. banked(0) = 0
  BY <1>4, <1>5
<1>8. \A i \in 1 .. n : banked(i) = banked(i - 1) + Part(i)
  BY <1>4, <1>5
<1> QED  BY <1>6, <1>7, <1>8 DEF Part, banked

(* The unwrapped numbers of a chunk: each cut begins again at the packet's *)
(* own number, any other packet moves by its signed step, and the step     *)
(* from the number before is the one the chunk was read to have.           *)
LEMMA NumbersMove ==
    ASSUME NEW w \in BOOLEAN, NEW landed \in Seq(Numbers(w)), NEW base \in Int
    PROVE  LET steps == Steps(w, landed, base)
               cuts == Cuts(w, steps)
               numbers == Unwrapped(w, landed, steps, base)
               n == Len(landed)
           IN  /\ n \in Nat /\ DOMAIN steps = 1 .. n /\ cuts \subseteq 1 .. n
               /\ numbers \in [0 .. n -> Int] /\ numbers[0] = base
               /\ \A i \in 1 .. n :
                      /\ landed[i] \in Int
                      /\ steps[i] \in 0 .. Space(w) - 1
                      /\ steps[i] = Step(w, landed[i], numbers[i - 1])
                      /\ i \in cuts <=> IsJump(w, steps[i])
                      /\ numbers[i] = IF i \in cuts THEN landed[i]
                                      ELSE numbers[i - 1] + Signed(w, steps[i])
<1> DEFINE steps == Steps(w, landed, base)
           cuts == Cuts(w, steps)
           numbers == Unwrapped(w, landed, steps, base)
           n == Len(landed)
           before(i) == IF i = 1 THEN base ELSE landed[i - 1]
           sum == CumSum(w, steps, n)
           from(c) == IF c = 0 THEN base ELSE landed[c]
<1>1. n \in Nat /\ \A i \in 1 .. n : landed[i] \in Int
  <2>1. Numbers(w) \subseteq Int
    BY SpaceFacts DEF Numbers
  <2> QED  BY <2>1
<1>2. DOMAIN steps = 1 .. n /\ \A i \in 1 .. n : steps[i] = Step(w, landed[i], before(i))
  BY DEF Steps
<1>3. cuts \subseteq 1 .. n /\ \A i \in 1 .. n : i \in cuts <=> IsJump(w, steps[i])
  BY <1>2 DEF Cuts
<1>4. numbers = [i \in 0 .. n |-> from(CutBefore(cuts, i)) + sum[i] - sum[CutBefore(cuts, i)]]
  BY DEF Unwrapped
<1> HIDE DEF steps, cuts, numbers, n, sum
<1>5. \A i \in 1 .. n : before(i) \in Int
  BY <1>1
<1>6. ASSUME NEW i \in 1 .. n
      PROVE  /\ steps[i] \in 0 .. Space(w) - 1 /\ Signed(w, steps[i]) \in Int
             /\ \E q \in Int : before(i) + Signed(w, steps[i]) = landed[i] + q * Space(w)
  <2> DEFINE here == before(i)
             number == landed[i]
  <2>1. here \in Int /\ number \in Int /\ steps[i] = Step(w, number, here)
    BY <1>1, <1>2, <1>5
  <2> HIDE DEF here, number
  <2>2. /\ steps[i] \in 0 .. Space(w) - 1 /\ Signed(w, steps[i]) \in Int
        /\ \E q \in Int : here + Signed(w, steps[i]) = number + q * Space(w)
    BY <2>1, StepSigned
  <2> QED  BY <2>2 DEF here, number
<1>7. /\ sum \in [0 .. n -> Int] /\ sum[0] = 0
      /\ \A i \in 1 .. n : sum[i] = sum[i - 1] + (IF IsJump(w, steps[i]) THEN 0 ELSE Signed(w, steps[i]))
  <2>1. n \in Nat /\ \A i \in 1 .. n : Signed(w, steps[i]) \in Int
    BY <1>1, <1>6
  <2>2. \A i \in 1 .. n : CumSum(w, steps, n)[i] = CumSum(w, steps, n)[i - 1]
            + (IF IsJump(w, steps[i]) THEN 0 ELSE Signed(w, steps[i]))
    BY <2>1, CumSumIs
  <2>3. CumSum(w, steps, n) \in [0 .. n -> Int] /\ CumSum(w, steps, n)[0] = 0
    BY <2>1, CumSumIs
  <2> QED  BY <2>2, <2>3 DEF sum
<1>8. \A i \in 0 .. n : /\ CutBefore(cuts, i) \in 0 .. n
                        /\ CutBefore(cuts, i) \in cuts \cup {0}
  <2> TAKE i \in 0 .. n
  <2>1. cuts \subseteq Nat /\ i \in Nat
    BY <1>1, <1>3
  <2>2. CutBefore(cuts, i) \in 0 .. i /\ CutBefore(cuts, i) \in cuts \cup {0}
    BY <2>1, CutBeforeIs
  <2> QED  BY <1>1, <2>2
<1>9. \A c \in 0 .. n : from(c) \in Int
  BY <1>1
<1>10. numbers \in [0 .. n -> Int]
  <2>1. ASSUME NEW i \in 0 .. n
        PROVE  from(CutBefore(cuts, i)) + sum[i] - sum[CutBefore(cuts, i)] \in Int
    <3>1. /\ from(CutBefore(cuts, i)) \in Int /\ sum[i] \in Int
          /\ sum[CutBefore(cuts, i)] \in Int
      BY <1>7, <1>8, <1>9
    <3> HIDE DEF from
    <3> QED  BY <3>1
  <2> HIDE DEF from
  <2> QED  BY <1>4, <2>1
<1>11. CutBefore(cuts, 0) = 0
  <2>1. cuts \subseteq Nat /\ 0 \in Nat
    BY <1>1, <1>3
  <2>2. CutBefore(cuts, 0) \in 0 .. 0
    BY <2>1, CutBeforeIs
  <2> QED  BY <2>2
<1>12. numbers[0] = base
  BY <1>1, <1>4, <1>7, <1>11
<1>13. ASSUME NEW i \in 1 .. n
       PROVE  numbers[i] = IF i \in cuts THEN landed[i]
                           ELSE numbers[i - 1] + Signed(w, steps[i])
  <2>1. cuts \subseteq Nat /\ i \in Nat /\ i > 0 /\ i \in 0 .. n /\ i - 1 \in 0 .. n
    BY <1>1, <1>3
  <2>2. CutBefore(cuts, i) = IF i \in cuts THEN i ELSE CutBefore(cuts, i - 1)
    BY <2>1, CutBeforeMoves
  <2> DEFINE c == CutBefore(cuts, i)
             d == CutBefore(cuts, i - 1)
  <2>3. c \in 0 .. n /\ d \in 0 .. n
    BY <1>8, <2>1
  <2>4. numbers[i] = from(c) + sum[i] - sum[c] /\ numbers[i - 1] = from(d) + sum[i - 1] - sum[d]
    BY <1>4, <2>1
  <2>5. from(c) \in Int /\ from(d) \in Int /\ sum[i] \in Int /\ sum[i - 1] \in Int
        /\ sum[c] \in Int /\ sum[d] \in Int
    BY <1>7, <1>9, <2>1, <2>3
  <2>6. CASE i \in cuts
    <3>1. c = i /\ from(c) = landed[i]
      BY <2>1, <2>2, <2>6
    <3> HIDE DEF from, c, d
    <3> QED  BY <2>4, <2>5, <2>6, <3>1, <1>1
  <2>7. CASE i \notin cuts
    <3>1. c = d
      BY <2>2, <2>7
    <3>2. sum[i] = sum[i - 1] + Signed(w, steps[i])
      BY <1>3, <1>7, <2>7
    <3>3. Signed(w, steps[i]) \in Int
      BY <1>6
    <3> HIDE DEF from, c, d
    <3> QED  BY <2>4, <2>5, <2>7, <3>1, <3>2, <3>3
  <2> QED  BY <2>6, <2>7
<1>14. ASSUME NEW i \in 1 .. n
       PROVE  steps[i] = Step(w, landed[i], numbers[i - 1])
  <2> DEFINE S == Space(w)
             turned == {j \in 0 .. n : j >= 1 => \E q \in Int : numbers[j] = landed[j] + q * S}
  <2>0. S \in Nat
    BY SpaceFacts
  <2>1. 0 \in turned
    BY <1>1
  <2>2. ASSUME NEW j \in 0 .. n - 1, j \in turned
        PROVE  j + 1 \in turned /\ steps[j + 1] = Step(w, landed[j + 1], numbers[j])
    <3>1. j + 1 \in 1 .. n /\ j + 1 \in 0 .. n /\ j + 1 - 1 = j
      BY <1>1
    <3> DEFINE k == j + 1
    <3>2. /\ numbers[k] = IF k \in cuts THEN landed[k] ELSE numbers[j] + Signed(w, steps[k])
          /\ Signed(w, steps[k]) \in Int /\ landed[k] \in Int
          /\ numbers[j] \in Int
      BY <1>1, <1>6, <1>10, <1>13, <3>1
    <3>3. PICK q \in Int : before(k) + Signed(w, steps[k]) = landed[k] + q * S
      BY <1>6, <3>1
    <3>4. PICK p \in Int : numbers[j] = before(k) + p * S
      <4>1. CASE j = 0
        <5>1. numbers[j] = before(k) /\ before(k) \in Int
          BY <1>12, <4>1
        <5>2. 0 * S = 0
          BY <2>0
        <5> QED  BY <5>1, <5>2
      <4>2. CASE j # 0
        BY <2>2, <3>1, <4>2
      <4> QED  BY <4>1, <4>2
    <3>5. before(k) \in Int /\ steps[k] = Step(w, landed[k], before(k))
      BY <1>2, <1>5, <3>1
    <3> HIDE DEF before, S, k
    <3>6. steps[k] = Step(w, landed[k], numbers[j])
      BY <3>2, <3>4, <3>5, StepFromAnyTurn DEF S
    <3>7. \E r \in Int : numbers[k] = landed[k] + r * S
      <4>1. CASE k \in cuts
        <5>1. numbers[k] = landed[k] + 0 * S
          BY <2>0, <3>2, <4>1
        <5> QED  BY <5>1
      <4>2. CASE k \notin cuts
        <5> DEFINE ps == p * S
                   qs == q * S
                   step == Signed(w, steps[k])
        <5>1. ps \in Int /\ qs \in Int /\ (p + q) \in Int /\ (p + q) * S = ps + qs /\ step \in Int
          BY <2>0, <3>2, <3>3, <3>4
        <5>2. numbers[k] = before(k) + ps + step /\ before(k) + step = landed[k] + qs
          BY <3>2, <3>3, <3>4, <4>2
        <5> HIDE DEF ps, qs, step
        <5>3. numbers[k] = landed[k] + (ps + qs)
          <6>1. before(k) \in Int /\ landed[k] \in Int
            BY <3>2, <3>4, <3>5
          <6> QED  BY ONLY <5>1, <5>2, <6>1
        <5> QED  BY <5>1, <5>3
      <4> QED  BY <4>1, <4>2
    <3> QED  BY <3>1, <3>6, <3>7 DEF k
  <2> HIDE DEF turned
  <2>3. 0 .. n \subseteq turned
    BY <1>1, <2>1, <2>2, UpTo, Zenon
  <2>4. i - 1 \in 0 .. n - 1 /\ i - 1 \in turned /\ i - 1 + 1 = i
    BY <1>1, <2>3
  <2> QED  BY <2>2, <2>4
<1> QED  BY <1>1, <1>2, <1>3, <1>6, <1>10, <1>12, <1>13, <1>14 DEF steps, cuts, numbers, n

-----------------------------------------------------------------------------
(* The span a chunk has open at each of its packets. *)
Reach(cuts, numbers, low, high, i) ==
    {numbers[j] : j \in {k \in 0 .. i : CutBefore(cuts, k) = CutBefore(cuts, i)}}
        \cup (IF CutBefore(cuts, i) = 0 THEN {low, high} ELSE {})

(* A cut opens a span anew, and any other packet widens the one before. *)
LEMMA ReachMoves ==
    ASSUME NEW n \in Nat, NEW cuts, cuts \subseteq 1 .. n, NEW i \in 1 .. n,
           NEW numbers \in [0 .. n -> Int], NEW low \in Int, NEW high \in Int
    PROVE  \A x : x \in Reach(cuts, numbers, low, high, i) <=>
                     \/ x = numbers[i]
                     \/ i \notin cuts /\ x \in Reach(cuts, numbers, low, high, i - 1)
<1>1. cuts \subseteq Nat /\ i \in Nat /\ i > 0
  OBVIOUS
<1>2. \A k \in 0 .. i : CutBefore(cuts, k) \in 0 .. k
  <2> TAKE k \in 0 .. i
  <2>1. k \in Nat
    OBVIOUS
  <2> QED  BY <1>1, <2>1, CutBeforeIs
<1>3. CutBefore(cuts, i) = IF i \in cuts THEN i ELSE CutBefore(cuts, i - 1)
  BY <1>1, CutBeforeMoves
<1> DEFINE Before(k) == CutBefore(cuts, k)
           same(k) == {j \in 0 .. k : Before(j) = Before(k)}
<1>4. \A k : Reach(cuts, numbers, low, high, k) =
          {numbers[j] : j \in same(k)} \cup (IF Before(k) = 0 THEN {low, high} ELSE {})
  BY DEF Reach
<1> HIDE DEF Before
<1>5. /\ \A k \in 0 .. i : Before(k) \in 0 .. k
      /\ Before(i) = IF i \in cuts THEN i ELSE Before(i - 1)
  BY <1>2, <1>3 DEF Before
<1>6. CASE i \in cuts
  <2>1. same(i) = {i}
    <3>1. \A j \in 0 .. i : Before(j) = Before(i) <=> j = i
      BY <1>5, <1>6
    <3> QED  BY <3>1
  <2>2. Before(i) # 0
    BY <1>5, <1>6
  <2> HIDE DEF same
  <2> QED  BY <1>4, <1>6, <2>1, <2>2
<1>7. CASE i \notin cuts
  <2>1. same(i) = same(i - 1) \cup {i}
    <3>1. 0 .. i = (0 .. i - 1) \cup {i}
      OBVIOUS
    <3> QED  BY <1>5, <1>7, <3>1
  <2>2. Before(i) = Before(i - 1)
    BY <1>5, <1>7
  <2> HIDE DEF same
  <2>3. {numbers[j] : j \in same(i)} = {numbers[j] : j \in same(i - 1)} \cup {numbers[i]}
    BY <2>1
  <2> QED  BY <1>4, <1>7, <2>2, <2>3
<1> QED  BY <1>6, <1>7

LEMMA ReachStarts ==
    ASSUME NEW n \in Nat, NEW cuts, cuts \subseteq 1 .. n,
           NEW numbers \in [0 .. n -> Int], NEW low \in Int, NEW high \in Int
    PROVE  \A x : x \in Reach(cuts, numbers, low, high, 0) <=> x \in {numbers[0], low, high}
<1>1. cuts \subseteq Nat /\ 0 \in Nat
  OBVIOUS
<1>2. CutBefore(cuts, 0) \in 0 .. 0
  BY <1>1, CutBeforeIs
<1>3. {k \in 0 .. 0 : CutBefore(cuts, k) = CutBefore(cuts, 0)} = {0}
  OBVIOUS
<1> QED  BY <1>2, <1>3 DEF Reach

(* The span a cut banks is the one open at the packet before it, and the   *)
(* span a chunk leaves open the one open at its last packet.               *)
LEMMA SpanIsReach ==
    ASSUME NEW n \in Nat, NEW cuts, cuts \subseteq 1 .. n,
           NEW numbers \in [0 .. n -> Int], NEW low \in Int, NEW high \in Int
    PROVE  /\ \A i \in cuts : \A x :
                  x \in SpanOf(cuts, numbers, low, high, CutBefore(cuts, i - 1))
                    <=> x \in Reach(cuts, numbers, low, high, i - 1)
           /\ \A x : x \in SpanOf(cuts, numbers, low, high, Max(cuts \cup {0}))
                        <=> x \in Reach(cuts, numbers, low, high, n)
<1>1. cuts \subseteq Nat
  OBVIOUS
<1>2. \A k \in 0 .. n : /\ CutBefore(cuts, k) \in 0 .. k
                        /\ \A c \in cuts : c <= k => c <= CutBefore(cuts, k)
  <2> TAKE k \in 0 .. n
  <2>1. k \in Nat
    OBVIOUS
  <2> QED  BY <1>1, <2>1, CutBeforeIs
<1>3. ASSUME NEW i \in cuts
      PROVE  SpanOf(cuts, numbers, low, high, CutBefore(cuts, i - 1))
               = Reach(cuts, numbers, low, high, i - 1)
  <2> DEFINE Before(k) == CutBefore(cuts, k)
  <2>1. i \in 1 .. n
    OBVIOUS
  <2>2. \A k \in 0 .. n : Before(k) \in 0 .. k /\ (i <= k => i <= Before(k))
    BY <1>2
  <2>3. Before(i - 1) \in 0 .. i - 1
    BY <2>1, <2>2
  <2> HIDE DEF Before
  <2>4. {k \in 0 .. n : Before(k) = Before(i - 1)} = {k \in 0 .. i - 1 : Before(k) = Before(i - 1)}
    <3>1. \A k \in 0 .. n : Before(k) = Before(i - 1) => k \in 0 .. i - 1
      BY <2>1, <2>2, <2>3
    <3>2. 0 .. i - 1 \subseteq 0 .. n
      BY <2>1
    <3> QED  BY <3>1, <3>2
  <2> QED  BY <2>4 DEF SpanOf, Reach, Before
<1>4. CutBefore(cuts, n) = Max(cuts \cup {0})
  <2>1. {c \in cuts : c <= n} = cuts
    <3>1. \A c \in cuts : c <= n
      OBVIOUS
    <3> QED  BY <3>1
  <2> QED  BY <2>1 DEF CutBefore
<1> QED  BY <1>3, <1>4 DEF SpanOf, Reach

(* Min and Max of a set with one more number in it. *)
LEMMA EndsWiden ==
    ASSUME NEW T, T \subseteq Int, NEW low \in T, NEW high \in T,
           \A x \in T : low <= x /\ x <= high, NEW y \in Int
    PROVE  /\ Min(T) = low /\ Max(T) = high
           /\ Min(T \cup {y}) = Lesser(low, y) /\ Max(T \cup {y}) = Greater(high, y)
           /\ Lesser(low, y) \in T \cup {y} /\ Greater(high, y) \in T \cup {y}
           /\ \A x \in T \cup {y} : Lesser(low, y) <= x /\ x <= Greater(high, y)
<1>1. Min(T) = low /\ Max(T) = high
  BY MinIs, MaxIs
<1> DEFINE U == T \cup {y}
           l == Lesser(low, y)
           h == Greater(high, y)
<1>2. U \subseteq Int /\ l \in U /\ h \in U /\ \A x \in U : l <= x /\ x <= h
  BY DEF Lesser, Greater
<1> HIDE DEF U, l, h
<1>3. Min(U) = l /\ Max(U) = h
  BY <1>2, MinIs, MaxIs
<1> QED  BY <1>1, <1>2, <1>3 DEF U, l, h

(* How many of the first i packets are in a set of them. *)
Among(T, i) == Cardinality(T \cap (1 .. i))

LEMMA AmongNone ==
    ASSUME NEW T
    PROVE  Among(T, 0) = 0
<1>1. T \cap (1 .. 0) = {}
  OBVIOUS
<1> QED  BY <1>1, FS_EmptySet DEF Among

LEMMA AmongMoves ==
    ASSUME NEW T, NEW i \in Nat, i > 0
    PROVE  /\ Among(T, i) \in Nat
           /\ Among(T, i) = Among(T, i - 1) + One(i \in T)
<1>1. \A k \in Nat : IsFiniteSet(T \cap (1 .. k)) /\ Among(T, k) \in Nat
  <2> TAKE k \in Nat
  <2>1. IsFiniteSet(1 .. k)
    BY FS_Interval
  <2>2. IsFiniteSet(T \cap (1 .. k))
    BY <2>1, FS_Subset
  <2> QED  BY <2>2, FS_CardinalityType DEF Among
<1>2. CASE i \in T
  <2>1. T \cap (1 .. i) = (T \cap (1 .. i - 1)) \cup {i} /\ i \notin T \cap (1 .. i - 1)
    BY <1>2
  <2>2. i - 1 \in Nat
    OBVIOUS
  <2>3. Among(T, i) = Among(T, i - 1) + 1
    BY <1>1, <2>1, <2>2, FS_AddElement DEF Among
  <2> QED  BY <1>1, <1>2, <2>3 DEF One
<1>3. CASE i \notin T
  <2>1. T \cap (1 .. i) = T \cap (1 .. i - 1)
    BY <1>3
  <2>2. i - 1 \in Nat
    OBVIOUS
  <2> QED  BY <1>1, <1>3, <2>1, <2>2 DEF One, Among
<1> QED  BY <1>2, <1>3

(* A span has its ends, and they are those of the packets in it. *)
Bounded(T) == T \subseteq Int /\ \E low, high \in T : \A x \in T : low <= x /\ x <= high

LEMMA ReachBounded ==
    ASSUME NEW n \in Nat, NEW cuts, cuts \subseteq 1 .. n, NEW numbers \in [0 .. n -> Int],
           NEW low \in Int, NEW high \in Int, low <= numbers[0], numbers[0] <= high
    PROVE  \A i \in 0 .. n : Bounded(Reach(cuts, numbers, low, high, i))
<1> DEFINE R(i) == Reach(cuts, numbers, low, high, i)
           bounded == {i \in 0 .. n : Bounded(R(i))}
<1>1. 0 \in bounded
  <2>1. R(0) = {numbers[0], low, high}
    BY ReachStarts
  <2>2. numbers[0] \in Int
    OBVIOUS
  <2>3. R(0) \subseteq Int /\ low \in R(0) /\ high \in R(0) /\ \A x \in R(0) : low <= x /\ x <= high
    BY <2>1, <2>2
  <2> HIDE DEF R
  <2>4. Bounded(R(0))
    BY <2>3 DEF Bounded
  <2> QED  BY <2>4
<1>2. ASSUME NEW i \in 0 .. n - 1, i \in bounded
      PROVE  i + 1 \in bounded
  <2> DEFINE k == i + 1
             y == numbers[k]
  <2>1. k \in 1 .. n /\ k \in 0 .. n /\ k - 1 = i /\ y \in Int
    OBVIOUS
  <2>2. R(k) = IF k \in cuts THEN {y} ELSE R(k - 1) \cup {y}
    <3> HIDE DEF k
    <3>1. \A x : x \in R(k) <=> x = y \/ (k \notin cuts /\ x \in R(k - 1))
      BY <2>1, ReachMoves
    <3> HIDE DEF R, y
    <3> QED  BY <3>1
  <2>3. Bounded(R(i))
    BY <1>2
  <2> HIDE DEF R, k, y
  <2>4. Bounded(R(k))
    <3>1. CASE k \in cuts
      BY <2>1, <2>2, <3>1 DEF Bounded
    <3>2. CASE k \notin cuts
      <4> DEFINE T == R(i)
      <4>1. R(k) = T \cup {y}
        BY <2>1, <2>2, <3>2
      <4> HIDE DEF T
      <4>2. T \subseteq Int /\ Bounded(T)
        BY <2>3 DEF T, Bounded
      <4>3. PICK l \in T, h \in T : \A x \in T : l <= x /\ x <= h
        BY <4>2 DEF Bounded
      <4>4. /\ Lesser(l, y) \in T \cup {y} /\ Greater(h, y) \in T \cup {y}
            /\ \A x \in T \cup {y} : Lesser(l, y) <= x /\ x <= Greater(h, y)
        BY <2>1, <4>2, <4>3, EndsWiden
      <4>5. Bounded(T \cup {y})
        BY <2>1, <4>2, <4>4 DEF Bounded
      <4> QED  BY <4>1, <4>5
    <3> QED  BY <3>1, <3>2
  <2> QED  BY <2>1, <2>4 DEF k
<1> HIDE DEF bounded
<1>3. 0 .. n \subseteq bounded
  BY <1>1, <1>2, UpTo, Zenon
<1> QED  BY <1>3 DEF bounded

LEMMA BoundedEnds ==
    ASSUME NEW T, Bounded(T), NEW y \in Int
    PROVE  /\ Min(T) \in T /\ Max(T) \in T /\ Min(T) \in Int /\ Max(T) \in Int
           /\ Min(T) <= Max(T) /\ \A x \in T : Min(T) <= x /\ x <= Max(T)
           /\ Width(T) \in Nat
           /\ Min(T \cup {y}) = Lesser(Min(T), y) /\ Max(T \cup {y}) = Greater(Max(T), y)
<1>1. PICK l \in T, h \in T : \A x \in T : l <= x /\ x <= h
  BY DEF Bounded
<1>2. T \subseteq Int
  BY DEF Bounded
<1>3. /\ Min(T) = l /\ Max(T) = h
      /\ Min(T \cup {y}) = Lesser(l, y) /\ Max(T \cup {y}) = Greater(h, y)
  BY <1>1, <1>2, EndsWiden, ZenonT(60)
<1>4. l \in Int /\ h \in Int /\ l <= h
  BY <1>1, <1>2
<1>5. Width(T) = h - l + 1
  BY <1>3 DEF Width
<1> QED  BY <1>1, <1>3, <1>4, <1>5

LEMMA SingleEnds ==
    ASSUME NEW y \in Int
    PROVE  Min({y}) = y /\ Max({y}) = y
<1> DEFINE T == {y}
<1>1. T \subseteq Int /\ y \in T /\ \A x \in T : y <= x /\ x <= y
  OBVIOUS
<1> HIDE DEF T
<1>2. Min(T) = y /\ Max(T) = y
  BY <1>1, MinIs, MaxIs
<1> QED  BY <1>2 DEF T

-----------------------------------------------------------------------------
(* Accounts worth the name. *)
Accounts == [received : Nat, duplicated : Nat, reordered : Nat, discontinuities : Nat,
             resyncs : Nat, closed : Int, lowest : Int, highest : Int, extended : Int,
             wide : BOOLEAN]

(* The open span holds the last number; the events are steps between two   *)
(* packets; and what was received beyond the spans, counting the numbers   *)
(* between the last one and the span's end as received, is owed to         *)
(* duplicates and to late packets, a window and a packet each.             *)
Sound(a) ==
    /\ a \in Accounts
    /\ a.received > 0 /\ a.closed >= 0
    /\ a.lowest <= a.extended /\ a.extended <= a.highest
    /\ a.duplicated + a.reordered + a.resyncs <= a.discontinuities
    /\ a.discontinuities < a.received
    /\ a.received - a.closed + a.lowest - a.extended - 1
         <= a.duplicated + a.reordered * (Misorder + 1)

LEMMA OpenedSound ==
    ASSUME NEW w \in BOOLEAN, NEW number \in Int
    PROVE  Sound(Opened(w, number)) /\ Opened(w, number).wide = w
<1>1. Opened(w, number) =
        [received |-> 1, duplicated |-> 0, reordered |-> 0, discontinuities |-> 0,
         resyncs |-> 0, closed |-> 0, lowest |-> number, highest |-> number,
         extended |-> number, wide |-> w]
  <2> SUFFICES ASSUME NEW o, o = Opened(w, number)
               PROVE  o = [received |-> 1, duplicated |-> 0, reordered |-> 0,
                           discontinuities |-> 0, resyncs |-> 0, closed |-> 0,
                           lowest |-> number, highest |-> number,
                           extended |-> number, wide |-> w]
    OBVIOUS
  <2> QED  BY DEF Opened, Fresh
<1>2. 0 * (Misorder + 1) = 0
  BY SpaceFacts
<1> DEFINE a == Opened(w, number)
<1>3. a \in Accounts
  BY <1>1 DEF Accounts
<1>4. /\ a.received = 1 /\ a.duplicated = 0 /\ a.reordered = 0 /\ a.discontinuities = 0
      /\ a.resyncs = 0 /\ a.closed = 0 /\ a.lowest = number /\ a.highest = number
      /\ a.extended = number /\ a.wide = w
  BY <1>1
<1> HIDE DEF a
<1>5. Sound(a)
  BY <1>2, <1>3, <1>4 DEF Sound
<1> QED  BY <1>4, <1>5 DEF a

(* Every further packet leaves the account sound. *)
LEMMA AdmitSound ==
    ASSUME NEW a, Sound(a), NEW w \in BOOLEAN, a.wide = w, NEW number \in Int
    PROVE  Sound(Admit(a, w, number)) /\ Admit(a, w, number).wide = w
<1> DEFINE step == Step(w, number, a.extended)
           move == Signed(w, step)
           next == Admit(a, w, number)
<1>1. /\ a.received \in Nat /\ a.duplicated \in Nat /\ a.reordered \in Nat
      /\ a.discontinuities \in Nat /\ a.resyncs \in Nat /\ a.closed \in Int
      /\ a.lowest \in Int /\ a.highest \in Int /\ a.extended \in Int
  BY DEF Sound, Accounts
<1>2. /\ a.received > 0 /\ a.closed >= 0
      /\ a.lowest <= a.extended /\ a.extended <= a.highest
      /\ a.duplicated + a.reordered + a.resyncs <= a.discontinuities
      /\ a.discontinuities < a.received
  BY DEF Sound
<1>3. step \in 0 .. Space(w) - 1 /\ move \in Int
  BY <1>1, StepSigned
<1>4. Misorder \in Nat
  BY SpaceFacts
<1> DEFINE owed == a.reordered * (Misorder + 1)
<1>5. owed \in Int /\ (a.reordered + 1) * (Misorder + 1) = owed + Misorder + 1
  BY <1>1, <1>4
<1>6. a.received - a.closed + a.lowest - a.extended - 1 <= a.duplicated + owed
  BY DEF Sound
<1>7. next = IF IsJump(w, step) THEN Resynced(a, number) ELSE Widened(a, step)
  BY <1>2 DEF Admit
<1>8. CASE IsJump(w, step)
  <2>1. next =
          [received |-> a.received + 1, duplicated |-> a.duplicated,
           reordered |-> a.reordered, discontinuities |-> a.discontinuities + 1,
           resyncs |-> a.resyncs + 1, closed |-> a.closed + a.highest - a.lowest + 1,
           lowest |-> number, highest |-> number, extended |-> number, wide |-> w]
    <3>1. next = Resynced(a, number)
      BY <1>7, <1>8
    <3>2. a \in Accounts
      BY DEF Sound
    <3> QED  BY <3>1, <3>2 DEF Resynced, Accounts
  <2> HIDE DEF next, owed
  <2>2. next \in Accounts /\ next.wide = w
    BY <1>1, <2>1 DEF Accounts
  <2>3. next.reordered * (Misorder + 1) = owed
    BY <2>1 DEF owed
  <2>4. /\ next.received = a.received + 1 /\ next.duplicated = a.duplicated
        /\ next.reordered = a.reordered /\ next.discontinuities = a.discontinuities + 1
        /\ next.resyncs = a.resyncs + 1 /\ next.closed = a.closed + a.highest - a.lowest + 1
        /\ next.lowest = number /\ next.highest = number /\ next.extended = number
    BY <2>1
  <2>5. Sound(next)
    BY <1>1, <1>2, <1>5, <1>6, <2>2, <2>3, <2>4 DEF Sound
  <2> QED  BY <2>2, <2>5 DEF next
<1>9. CASE ~IsJump(w, step)
  <2> DEFINE here == a.extended + move
  <2>1. next =
          [received |-> a.received + 1,
           duplicated |-> a.duplicated + One(IsDuplicate(step)),
           reordered |-> a.reordered + One(IsReordered(w, step)),
           discontinuities |-> a.discontinuities + One(step # 1),
           resyncs |-> a.resyncs, closed |-> a.closed,
           lowest |-> Lesser(a.lowest, here), highest |-> Greater(a.highest, here),
           extended |-> here, wide |-> w]
    <3>1. next = Widened(a, step)
      BY <1>7, <1>9
    <3> QED  BY <3>1 DEF Widened, Landed
  <2> DEFINE dup == One(IsDuplicate(step))
             late == One(IsReordered(w, step))
             off == One(step # 1)
             low == Lesser(a.lowest, here)
             high == Greater(a.highest, here)
  <2>2. /\ dup \in {0, 1} /\ late \in {0, 1} /\ off \in {0, 1}
        /\ dup + late <= off
        /\ (late = 1 /\ -Misorder <= move /\ move < 0)
           \/ (late = 0 /\ dup = 1 /\ move = 0)
           \/ (late = 0 /\ dup = 0 /\ move >= 1)
    <3>1. /\ step = 1 => ~IsDuplicate(step) /\ ~IsReordered(w, step)
          /\ IsDuplicate(step) => ~IsReordered(w, step) /\ step # 1 /\ move = 0
          /\ IsReordered(w, step) => step # 1 /\ move < 0 /\ -Misorder <= move
          /\ ~IsReordered(w, step) /\ ~IsDuplicate(step) => move >= 1
      BY <1>3, StepKinds
    <3> HIDE DEF step, move
    <3> QED  BY <3>1 DEF One
  <2>3. here \in Int /\ here = a.extended + move
    BY <1>1, <1>3
  <2> HIDE DEF step, move, here
  <2>4. /\ low \in Int /\ low <= a.lowest /\ low <= here
        /\ high \in Int /\ a.highest <= high /\ here <= high
    BY <1>1, <2>3 DEF Lesser, Greater
  <2> HIDE DEF next, dup, late, off, low, high
  <2>5. next \in Accounts /\ next.wide = w
    BY <1>1, <2>1, <2>2, <2>3, <2>4 DEF Accounts, dup, late, off, low, high
  <2>6. /\ next.received = a.received + 1 /\ next.duplicated = a.duplicated + dup
        /\ next.reordered = a.reordered + late /\ next.discontinuities = a.discontinuities + off
        /\ next.resyncs = a.resyncs /\ next.closed = a.closed
        /\ next.lowest = low /\ next.highest = high /\ next.extended = here
    BY <2>1 DEF dup, late, off, low, high
  <2>7. next.reordered * (Misorder + 1) = owed + (IF late = 1 THEN Misorder + 1 ELSE 0)
    <3>1. CASE late = 1
      <4>1. next.reordered = a.reordered + 1
        BY <2>6, <3>1
      <4>2. next.reordered * (Misorder + 1) = (a.reordered + 1) * (Misorder + 1)
        BY <4>1, Zenon
      <4> QED  BY <1>1, <1>4, <1>5, <3>1, <4>2
    <3>2. CASE late = 0
      <4>1. next.reordered = a.reordered
        BY <1>1, <2>6, <3>2
      <4> QED  BY <1>5, <3>2, <4>1 DEF owed
    <3> QED  BY <2>2, <3>1, <3>2
  <2> HIDE DEF owed
  <2>8. next.received - next.closed + next.lowest - next.extended - 1
          <= next.duplicated + next.reordered * (Misorder + 1)
    <3> DEFINE due == next.reordered * (Misorder + 1)
    <3>1. due = owed + (IF late = 1 THEN Misorder + 1 ELSE 0)
      BY <2>7
    <3> HIDE DEF due
    <3>2. (a.received + 1) - a.closed + low - here - 1 <= a.duplicated + dup + due
      <4> DEFINE r == a.received
                 c == a.closed
                 l == a.lowest
                 e == a.extended
                 d == a.duplicated
      <4>1. /\ r \in Int /\ c \in Int /\ l \in Int /\ e \in Int /\ d \in Int
            /\ r - c + l - e - 1 <= d + owed /\ owed \in Int
            /\ low <= l /\ low \in Int /\ here = e + move /\ move \in Int
        BY <1>1, <1>3, <1>5, <1>6, <2>3, <2>4 DEF owed, move, step
      <4> HIDE DEF r, c, l, e, d
      <4>2. (r + 1) - c + low - here - 1 <= d + dup + due
        <5>1. CASE late = 1 /\ -Misorder <= move
          BY <1>4, <2>2, <3>1, <4>1, <5>1
        <5>2. CASE late = 0 /\ dup = 1 /\ move = 0
          BY <3>1, <4>1, <5>2
        <5>3. CASE late = 0 /\ dup = 0 /\ move >= 1
          BY <3>1, <4>1, <5>3
        <5> QED  BY <2>2, <5>1, <5>2, <5>3
      <4> QED  BY <4>2 DEF r, c, l, e, d
    <3> QED  BY <2>6, <3>2 DEF due
  <2>9. Sound(next)
    <3>1. next.received > 0 /\ next.closed >= 0 /\ next.discontinuities < next.received
      BY <1>1, <1>2, <2>2, <2>6
    <3>2. next.lowest <= next.extended /\ next.extended <= next.highest
      BY <2>4, <2>6
    <3>3. next.duplicated + next.reordered + next.resyncs <= next.discontinuities
      BY <1>1, <1>2, <2>2, <2>6
    <3> QED  BY <2>5, <2>8, <3>1, <3>2, <3>3 DEF Sound
  <2> QED  BY <2>5, <2>9 DEF next
<1> QED  BY <1>8, <1>9

-----------------------------------------------------------------------------
(* A chunk is its packets. *)

(* The account at the i-th packet of a chunk, in the terms of the chunk. *)
Prefix(w, landed, b, i) ==
    LET steps == Steps(w, landed, b.extended)
        cuts == Cuts(w, steps)
        numbers == Unwrapped(w, landed, steps, b.extended)
        reach == Reach(cuts, numbers, b.lowest, b.highest, i)
    IN  [received |-> b.received + i,
         duplicated |-> b.duplicated + Among({j \in DOMAIN steps : IsDuplicate(steps[j])}, i),
         reordered |-> b.reordered + Among({j \in DOMAIN steps : IsReordered(w, steps[j])}, i),
         discontinuities |-> b.discontinuities + Among({j \in DOMAIN steps : steps[j] # 1}, i),
         resyncs |-> b.resyncs + Among(cuts, i),
         closed |-> b.closed + Banked(cuts, numbers, b.lowest, b.highest, i),
         lowest |-> Min(reach), highest |-> Max(reach),
         extended |-> numbers[i], wide |-> w]

LEMMA PrefixStarts ==
    ASSUME NEW w \in BOOLEAN, NEW landed \in Seq(Numbers(w)), NEW b, Sound(b), b.wide = w
    PROVE  Prefix(w, landed, b, 0) = b
<1> DEFINE base == b.extended
           low == b.lowest
           high == b.highest
           steps == Steps(w, landed, base)
           cuts == Cuts(w, steps)
           numbers == Unwrapped(w, landed, steps, base)
           n == Len(landed)
           R == Reach(cuts, numbers, low, high, 0)
<1>1. /\ b \in Accounts /\ base \in Int /\ low \in Int /\ high \in Int
      /\ low <= base /\ base <= high
  BY DEF Sound, Accounts
<1>2. /\ n \in Nat /\ cuts \subseteq 1 .. n
      /\ numbers \in [0 .. n -> Int] /\ numbers[0] = base
  <2> HIDE DEF base
  <2> QED  BY <1>1, NumbersMove
<1>3. \A T : Among(T, 0) = 0
  BY AmongNone
<1>4. Banked(cuts, numbers, low, high, 0) = 0
  <2> DEFINE Sums(f) ==
             f = [i \in 0 .. 0 |->
                    IF i = 0 THEN 0
                    ELSE f[i - 1] + (IF i \in cuts
                        THEN Width(SpanOf(cuts, numbers, low, high, CutBefore(cuts, i - 1)))
                        ELSE 0)]
             own == [i \in 0 .. 0 |-> 0]
  <2>1. Sums(own)
    <3>1. \A i \in 0 .. 0 : i = 0
      OBVIOUS
    <3> HIDE DEF cuts, numbers
    <3> QED  BY <3>1
  <2>2. Banked(cuts, numbers, low, high, 0) = (CHOOSE f : Sums(f))[0]
    <3> HIDE DEF cuts, numbers, low, high
    <3> QED  BY Zenon DEF Banked
  <2> DEFINE g == CHOOSE f : Sums(f)
  <2>3. Sums(g)
    <3> HIDE DEF Sums
    <3> QED  BY <2>1, Zenon
  <2>4. Banked(cuts, numbers, low, high, 0) = g[0]
    BY <2>2
  <2> HIDE DEF g, cuts, numbers, low, high
  <2>5. g[0] = 0
    BY <2>3
  <2> QED  BY <2>4, <2>5
<1> HIDE DEF cuts, numbers, steps
<1>5. R = {base, low, high}
  <2> HIDE DEF base, low, high
  <2>1. \A x : x \in R <=> x \in {numbers[0], low, high}
    BY <1>1, <1>2, ReachStarts
  <2> HIDE DEF R
  <2> QED  BY <1>2, <2>1
<1> HIDE DEF R
<1>6. Min(R) = low /\ Max(R) = high
  <2> HIDE DEF base, low, high
  <2>1. R \subseteq Int /\ low \in R /\ high \in R /\ \A x \in R : low <= x /\ x <= high
    BY <1>1, <1>5
  <2> QED  BY <2>1, MinIs, MaxIs
<1>7. Prefix(w, landed, b, 0) =
        [received |-> b.received + 0, duplicated |-> b.duplicated + 0,
         reordered |-> b.reordered + 0, discontinuities |-> b.discontinuities + 0,
         resyncs |-> b.resyncs + 0, closed |-> b.closed + 0,
         lowest |-> low, highest |-> high, extended |-> base, wide |-> w]
  BY <1>2, <1>3, <1>4, <1>6, Zenon DEF Prefix, R, numbers, cuts, steps
<1> HIDE DEF base, low, high
<1>8. Prefix(w, landed, b, 0) =
        [received |-> b.received, duplicated |-> b.duplicated,
         reordered |-> b.reordered, discontinuities |-> b.discontinuities,
         resyncs |-> b.resyncs, closed |-> b.closed,
         lowest |-> low, highest |-> high, extended |-> base, wide |-> w]
  BY <1>1, <1>7 DEF Accounts
<1> QED  BY <1>1, <1>8 DEF Accounts, base, low, high

(* One packet of the chunk does to the account what Admit does to it. *)
LEMMA PrefixMoves ==
    ASSUME NEW w \in BOOLEAN, NEW landed \in Seq(Numbers(w)), NEW b, Sound(b), b.wide = w,
           NEW i \in 1 .. Len(landed)
    PROVE  Prefix(w, landed, b, i) = Admit(Prefix(w, landed, b, i - 1), w, landed[i])
<1> DEFINE base == b.extended
           low == b.lowest
           high == b.highest
           steps == Steps(w, landed, base)
           cuts == Cuts(w, steps)
           numbers == Unwrapped(w, landed, steps, base)
           n == Len(landed)
           R(k) == Reach(cuts, numbers, low, high, k)
           banked(k) == Banked(cuts, numbers, low, high, k)
           again == {j \in DOMAIN steps : IsDuplicate(steps[j])}
           late == {j \in DOMAIN steps : IsReordered(w, steps[j])}
           off == {j \in DOMAIN steps : steps[j] # 1}
           a == Prefix(w, landed, b, i - 1)
           step == steps[i]
           here == numbers[i]
<1>1. /\ b \in Accounts /\ base \in Int /\ low \in Int /\ high \in Int
      /\ low <= base /\ base <= high /\ b.received \in Nat /\ b.received > 0
      /\ b.duplicated \in Nat /\ b.reordered \in Nat /\ b.discontinuities \in Nat
      /\ b.resyncs \in Nat /\ b.closed \in Int
  BY DEF Sound, Accounts
<1>2. /\ n \in Nat /\ DOMAIN steps = 1 .. n /\ cuts \subseteq 1 .. n
      /\ numbers \in [0 .. n -> Int] /\ numbers[0] = base
      /\ \A k \in 1 .. n :
             /\ landed[k] \in Int
             /\ steps[k] \in 0 .. Space(w) - 1
             /\ steps[k] = Step(w, landed[k], numbers[k - 1])
             /\ k \in cuts <=> IsJump(w, steps[k])
             /\ numbers[k] = IF k \in cuts THEN landed[k]
                             ELSE numbers[k - 1] + Signed(w, steps[k])
  <2> HIDE DEF base
  <2> QED  BY <1>1, NumbersMove
<1>3. \A k : Prefix(w, landed, b, k) =
        [received |-> b.received + k, duplicated |-> b.duplicated + Among(again, k),
         reordered |-> b.reordered + Among(late, k),
         discontinuities |-> b.discontinuities + Among(off, k),
         resyncs |-> b.resyncs + Among(cuts, k), closed |-> b.closed + banked(k),
         lowest |-> Min(R(k)), highest |-> Max(R(k)), extended |-> numbers[k], wide |-> w]
  BY Zenon DEF Prefix
<1>4. /\ i \in again <=> IsDuplicate(step)
      /\ i \in late <=> IsReordered(w, step)
      /\ i \in off <=> step # 1
  <2> HIDE DEF steps
  <2> QED  BY <1>2
<1> HIDE DEF steps, cuts, numbers, n, again, late, off, base, low, high
<1>5. i \in Nat /\ i > 0 /\ i \in 1 .. n /\ i - 1 \in 0 .. n /\ i \in 0 .. n
  BY <1>2 DEF n
<1>6. \A T : Among(T, i) = Among(T, i - 1) + One(i \in T)
  BY <1>5, AmongMoves
<1>7. \A k \in 0 .. n : Bounded(R(k))
  BY <1>1, <1>2, ReachBounded
<1>8. here \in Int /\ step \in 0 .. Space(w) - 1 /\ landed[i] \in Int
  BY <1>2, <1>5
<1>9. \A x : x \in R(i) <=> x = here \/ (i \notin cuts /\ x \in R(i - 1))
  BY <1>1, <1>2, <1>5, ReachMoves
<1>10. /\ banked(i) \in Int /\ banked(i - 1) \in Int
       /\ banked(i) = banked(i - 1) + (IF i \in cuts THEN Width(R(i - 1)) ELSE 0)
  <2> DEFINE ends(k) == SpanOf(cuts, numbers, low, high, CutBefore(cuts, k - 1))
  <2>1. ASSUME NEW k \in cuts PROVE ends(k) = R(k - 1)
    <3>1. \A x : x \in ends(k) <=> x \in R(k - 1)
      BY <1>1, <1>2, SpanIsReach
    <3> HIDE DEF ends, R
    <3> QED  BY <3>1
  <2>2. ASSUME NEW k \in cuts PROVE Width(ends(k)) \in Int
    <3>1. k - 1 \in 0 .. n
      BY <1>2
    <3>2. Width(R(k - 1)) \in Nat
      <4> DEFINE T == R(k - 1)
      <4>1. Bounded(T) /\ 0 \in Int
        BY <1>7, <3>1
      <4> HIDE DEF T
      <4>2. Width(T) \in Nat
        BY <4>1, BoundedEnds
      <4> QED  BY <4>2 DEF T
    <3>3. Width(ends(k)) = Width(R(k - 1))
      BY <2>1, Zenon
    <3> QED  BY <3>2, <3>3
  <2>3. /\ banked(i) \in Int /\ banked(i - 1) \in Int
        /\ banked(i) = banked(i - 1) + (IF i \in cuts THEN Width(ends(i)) ELSE 0)
    <3>1. SpansHaveWidths(cuts, numbers, low, high, n)
      BY <2>2 DEF SpansHaveWidths
    <3> QED  BY <1>2, <1>5, <3>1, BankedIs
  <2> HIDE DEF ends, R, banked
  <2> QED  BY <2>1, <2>3
<1>11. a.received # 0 /\ a.wide = w /\ a.extended = numbers[i - 1]
  BY <1>1, <1>3, <1>5
<1>12. Step(a.wide, landed[i], a.extended) = step
  BY <1>2, <1>5, <1>11
<1>13. i \in cuts <=> IsJump(w, step)
  BY <1>2, <1>5
<1>14. /\ Among(again, i - 1) \in Nat /\ Among(late, i - 1) \in Nat
       /\ Among(off, i - 1) \in Nat /\ Among(cuts, i - 1) \in Nat
  <2>1. i - 1 \in Nat /\ \A T : Among(T, i - 1) \in Nat
    BY <1>5, AmongNone, AmongMoves
  <2> QED  BY <2>1
<1>15. Bounded(R(i - 1)) /\ R(i - 1) \subseteq Int
  BY <1>5, <1>7 DEF Bounded
<1> DEFINE T == R(i - 1)
           lowest_ == Min(T)
           highest_ == Max(T)
<1>16. /\ lowest_ \in Int /\ highest_ \in Int /\ Width(T) = highest_ - lowest_ + 1
       /\ Min(T \cup {here}) = Lesser(lowest_, here)
       /\ Max(T \cup {here}) = Greater(highest_, here)
  <2> HIDE DEF T
  <2> QED  BY <1>8, <1>15, BoundedEnds DEF Width, T
<1>17. a = [received |-> b.received + (i - 1), duplicated |-> b.duplicated + Among(again, i - 1),
            reordered |-> b.reordered + Among(late, i - 1),
            discontinuities |-> b.discontinuities + Among(off, i - 1),
            resyncs |-> b.resyncs + Among(cuts, i - 1), closed |-> b.closed + banked(i - 1),
            lowest |-> lowest_, highest |-> highest_, extended |-> numbers[i - 1], wide |-> w]
  BY <1>3
<1> DEFINE next == Admit(a, w, landed[i])
<1>18. next = IF IsJump(w, step) THEN Resynced(a, landed[i]) ELSE Widened(a, step)
  BY <1>11, <1>12 DEF Admit
<1> HIDE DEF R, T, banked, a, step, here, lowest_, highest_
<1>19. CASE i \in cuts
  <2>1. /\ One(i \in again) = 0 /\ One(i \in late) = 0
        /\ One(i \in off) = 1 /\ One(i \in cuts) = 1
    BY <1>4, <1>8, <1>13, <1>19, StepKinds DEF One
  <2>2. here = landed[i]
    BY <1>2, <1>5, <1>19 DEF here
  <2>3. Min(R(i)) = here /\ Max(R(i)) = here
    <3>1. R(i) = {here}
      BY <1>9, <1>19
    <3> QED  BY <1>8, <3>1, SingleEnds
  <2>4. next = [received |-> a.received + 1, duplicated |-> a.duplicated,
                reordered |-> a.reordered, discontinuities |-> a.discontinuities + 1,
                resyncs |-> a.resyncs + 1, closed |-> a.closed + a.highest - a.lowest + 1,
                lowest |-> here, highest |-> here, extended |-> here, wide |-> w]
    <3>1. next = Resynced(a, here)
      BY <1>13, <1>18, <1>19, <2>2
    <3> HIDE DEF next
    <3> QED  BY <1>17, <3>1, ZenonT(60) DEF Resynced
  <2>5. /\ a.received + 1 = b.received + i
        /\ a.duplicated = b.duplicated + Among(again, i)
        /\ a.reordered = b.reordered + Among(late, i)
        /\ a.discontinuities + 1 = b.discontinuities + Among(off, i)
        /\ a.resyncs + 1 = b.resyncs + Among(cuts, i)
        /\ a.closed + a.highest - a.lowest + 1 = b.closed + banked(i)
    <3>1. /\ Among(again, i) = Among(again, i - 1) /\ Among(late, i) = Among(late, i - 1)
          /\ Among(off, i) = Among(off, i - 1) + 1 /\ Among(cuts, i) = Among(cuts, i - 1) + 1
      BY <1>6, <1>14, <2>1
    <3>2. banked(i) = banked(i - 1) + (highest_ - lowest_ + 1)
      BY <1>10, <1>16, <1>19 DEF T
    <3>3. /\ a.received = b.received + (i - 1) /\ a.duplicated = b.duplicated + Among(again, i - 1)
          /\ a.reordered = b.reordered + Among(late, i - 1)
          /\ a.discontinuities = b.discontinuities + Among(off, i - 1)
          /\ a.resyncs = b.resyncs + Among(cuts, i - 1) /\ a.closed = b.closed + banked(i - 1)
          /\ a.lowest = lowest_ /\ a.highest = highest_
      BY <1>17
    <3>4. a.received + 1 = b.received + i
      BY <1>1, <1>5, <3>3
    <3>5. /\ a.duplicated = b.duplicated + Among(again, i)
          /\ a.reordered = b.reordered + Among(late, i)
      BY <3>1, <3>3
    <3>6. a.discontinuities + 1 = b.discontinuities + Among(off, i)
      <4>1. b.discontinuities \in Nat /\ Among(off, i - 1) \in Nat
        BY <1>1, <1>14
      <4> QED  BY ONLY <3>1, <3>3, <4>1
    <3>7. a.resyncs + 1 = b.resyncs + Among(cuts, i)
      <4>1. b.resyncs \in Nat /\ Among(cuts, i - 1) \in Nat
        BY <1>1, <1>14
      <4> QED  BY ONLY <3>1, <3>3, <4>1
    <3>8. a.closed + a.highest - a.lowest + 1 = b.closed + banked(i)
      BY <1>1, <1>10, <1>16, <3>2, <3>3
    <3> QED  BY <3>4, <3>5, <3>6, <3>7, <3>8
  <2>6. Prefix(w, landed, b, i) = next
    <3> HIDE DEF next
    <3> QED  BY <1>3, <2>2, <2>3, <2>4, <2>5, Zenon DEF here
  <2> QED  BY <2>6 DEF a
<1>20. CASE i \notin cuts
  <2>1. /\ One(i \in again) = One(IsDuplicate(step))
        /\ One(i \in late) = One(IsReordered(w, step))
        /\ One(i \in off) = One(step # 1) /\ One(i \in cuts) = 0
    BY <1>4, <1>20 DEF One
  <2>2. here = numbers[i - 1] + Signed(w, step)
    BY <1>2, <1>5, <1>20 DEF here, step
  <2>3. Min(R(i)) = Lesser(lowest_, here) /\ Max(R(i)) = Greater(highest_, here)
    <3>1. R(i) = T \cup {here}
      BY <1>9, <1>20 DEF T
    <3> QED  BY <1>16, <3>1
  <2>4. next =
          [received |-> a.received + 1,
           duplicated |-> a.duplicated + One(IsDuplicate(step)),
           reordered |-> a.reordered + One(IsReordered(w, step)),
           discontinuities |-> a.discontinuities + One(step # 1),
           resyncs |-> a.resyncs, closed |-> a.closed,
           lowest |-> Lesser(lowest_, here), highest |-> Greater(highest_, here),
           extended |-> here, wide |-> w]
    <3>1. next = Widened(a, step)
      BY <1>13, <1>18, <1>20
    <3>2. a.wide = w /\ a.extended = numbers[i - 1] /\ a.lowest = lowest_ /\ a.highest = highest_
      BY <1>17
    <3> HIDE DEF next
    <3> QED  BY <2>2, <3>1, <3>2, Zenon DEF Widened, Landed
  <2>5. /\ a.received + 1 = b.received + i
        /\ a.duplicated + One(IsDuplicate(step)) = b.duplicated + Among(again, i)
        /\ a.reordered + One(IsReordered(w, step)) = b.reordered + Among(late, i)
        /\ a.discontinuities + One(step # 1) = b.discontinuities + Among(off, i)
        /\ a.resyncs = b.resyncs + Among(cuts, i)
        /\ a.closed = b.closed + banked(i)
    <3>1. /\ Among(again, i) = Among(again, i - 1) + One(IsDuplicate(step))
          /\ Among(late, i) = Among(late, i - 1) + One(IsReordered(w, step))
          /\ Among(off, i) = Among(off, i - 1) + One(step # 1)
          /\ Among(cuts, i) = Among(cuts, i - 1)
      BY <1>6, <1>14, <2>1
    <3>2. banked(i) = banked(i - 1)
      BY <1>10, <1>20
    <3>3. /\ a.received = b.received + (i - 1) /\ a.duplicated = b.duplicated + Among(again, i - 1)
          /\ a.reordered = b.reordered + Among(late, i - 1)
          /\ a.discontinuities = b.discontinuities + Among(off, i - 1)
          /\ a.resyncs = b.resyncs + Among(cuts, i - 1) /\ a.closed = b.closed + banked(i - 1)
      BY <1>17
    <3>4. /\ One(IsDuplicate(step)) \in Nat /\ One(IsReordered(w, step)) \in Nat
          /\ One(step # 1) \in Nat
      BY DEF One
    <3>5. a.received + 1 = b.received + i
      BY <1>1, <1>5, <3>3
    <3> DEFINE d == One(IsDuplicate(step))
               l == One(IsReordered(w, step))
               o == One(step # 1)
    <3>10. /\ d \in Nat /\ l \in Nat /\ o \in Nat
           /\ Among(again, i) = Among(again, i - 1) + d
           /\ Among(late, i) = Among(late, i - 1) + l
           /\ Among(off, i) = Among(off, i - 1) + o
      BY <3>1, <3>4, Zenon
    <3> HIDE DEF d, l, o
    <3>6. a.duplicated + d = b.duplicated + Among(again, i)
      <4>1. b.duplicated \in Nat /\ Among(again, i - 1) \in Nat
        BY <1>1, <1>14
      <4> QED  BY ONLY <3>3, <3>10, <4>1
    <3>7. a.reordered + l = b.reordered + Among(late, i)
      <4>1. b.reordered \in Nat /\ Among(late, i - 1) \in Nat
        BY <1>1, <1>14
      <4> QED  BY ONLY <3>3, <3>10, <4>1
    <3>8. a.discontinuities + o = b.discontinuities + Among(off, i)
      <4>1. b.discontinuities \in Nat /\ Among(off, i - 1) \in Nat
        BY <1>1, <1>14
      <4> QED  BY ONLY <3>3, <3>10, <4>1
    <3>9. a.resyncs = b.resyncs + Among(cuts, i) /\ a.closed = b.closed + banked(i)
      BY <3>1, <3>2, <3>3
    <3> QED  BY <3>5, <3>6, <3>7, <3>8, <3>9, Zenon DEF d, l, o
  <2>6. Prefix(w, landed, b, i) = next
    <3> HIDE DEF next
    <3> QED  BY <1>3, <2>3, <2>4, <2>5, Zenon DEF here
  <2> QED  BY <2>6 DEF a
<1> QED  BY <1>19, <1>20

(* A chunk with a break in it. *)
LEMMA BrokenChunk ==
    ASSUME NEW w \in BOOLEAN, NEW landed \in Seq(Numbers(w)), NEW b, Sound(b), b.wide = w
    PROVE  \E after : /\ Follows(after, b, w, landed)
                      /\ after[Len(landed)] = Prefix(w, landed, b, Len(landed))
<1> DEFINE n == Len(landed)
           after == [i \in 0 .. n |-> Prefix(w, landed, b, i)]
<1>1. n \in Nat
  OBVIOUS
<1>2. Prefix(w, landed, b, 0) = b
  BY PrefixStarts
<1>3. \A i \in 1 .. n : Prefix(w, landed, b, i) = Admit(Prefix(w, landed, b, i - 1), w, landed[i])
  BY PrefixMoves
<1>4. DOMAIN after = 0 .. n /\ after[0] = b /\ after[n] = Prefix(w, landed, b, n)
  BY <1>1, <1>2
<1>5. \A i \in 1 .. n : after[i] = Admit(after[i - 1], w, landed[i])
  <2> TAKE i \in 1 .. n
  <2>1. i \in 0 .. n /\ i - 1 \in 0 .. n
    BY <1>1
  <2> QED  BY <1>3, <2>1
<1> HIDE DEF after
<1> QED  BY <1>4, <1>5 DEF Follows

(* The account of i packets each one ahead of the one before it. *)
Run(b, i) ==
    [received |-> b.received + i, duplicated |-> b.duplicated, reordered |-> b.reordered,
     discontinuities |-> b.discontinuities, resyncs |-> b.resyncs, closed |-> b.closed,
     lowest |-> b.lowest, highest |-> Greater(b.highest, b.extended + i),
     extended |-> b.extended + i, wide |-> b.wide]

(* A chunk in step throughout. *)
LEMMA ChunkInStep ==
    ASSUME NEW w \in BOOLEAN, NEW landed \in Seq(Numbers(w)), NEW b, Sound(b), b.wide = w,
           LET steps == Steps(w, landed, b.extended)
           IN  \A i \in DOMAIN steps : steps[i] = 1
    PROVE  \E after : /\ Follows(after, b, w, landed)
                      /\ after[Len(landed)] = Run(b, Len(landed))
<1> DEFINE base == b.extended
           steps == Steps(w, landed, base)
           cuts == Cuts(w, steps)
           numbers == Unwrapped(w, landed, steps, base)
           n == Len(landed)
           after == [i \in 0 .. n |-> Run(b, i)]
<1>0. \A i \in DOMAIN steps : steps[i] = 1
  OBVIOUS
<1>1. /\ b \in Accounts /\ base \in Int /\ b.lowest \in Int /\ b.highest \in Int
      /\ b.lowest <= base /\ base <= b.highest /\ b.received \in Nat /\ b.received > 0
      /\ b.duplicated \in Nat /\ b.reordered \in Nat /\ b.discontinuities \in Nat
  BY DEF Sound, Accounts
<1>2. /\ n \in Nat /\ DOMAIN steps = 1 .. n /\ cuts \subseteq 1 .. n
      /\ numbers \in [0 .. n -> Int] /\ numbers[0] = base
      /\ \A k \in 1 .. n :
             /\ landed[k] \in Int
             /\ steps[k] \in 0 .. Space(w) - 1
             /\ steps[k] = Step(w, landed[k], numbers[k - 1])
             /\ k \in cuts <=> IsJump(w, steps[k])
             /\ numbers[k] = IF k \in cuts THEN landed[k]
                             ELSE numbers[k - 1] + Signed(w, steps[k])
  <2> HIDE DEF base
  <2> QED  BY <1>1, NumbersMove
<1> HIDE DEF steps, cuts, numbers, n, after
<1>3. 1 \in 0 .. Space(w) - 1
  BY SpaceFacts
<1>4. /\ ~IsJump(w, 1) /\ Signed(w, 1) = 1 /\ ~IsDuplicate(1) /\ ~IsReordered(w, 1)
  BY <1>3, StepKinds
<1>5. \A k \in 1 .. n : steps[k] = 1 /\ numbers[k] = numbers[k - 1] + 1
  BY <1>0, <1>2, <1>4
<1>6. \A k \in 0 .. n : numbers[k] = base + k
  <2> DEFINE S == {k \in 0 .. n : numbers[k] = base + k}
  <2> HIDE DEF base
  <2>1. 0 \in S
    BY <1>1, <1>2
  <2>2. \A k \in 0 .. n - 1 : k \in S => k + 1 \in S
    <3> SUFFICES ASSUME NEW k \in 0 .. n - 1, numbers[k] = base + k
                 PROVE  k + 1 \in 0 .. n /\ numbers[k + 1] = base + (k + 1)
      OBVIOUS
    <3>1. k + 1 \in 1 .. n /\ k + 1 - 1 = k /\ k + 1 \in 0 .. n
      BY <1>2
    <3>2. numbers[k + 1] = numbers[k] + 1
      BY <1>5, <3>1
    <3> QED  BY <1>1, <3>1, <3>2
  <2> HIDE DEF S
  <2>3. 0 .. n \subseteq S
    BY <1>2, <2>1, <2>2, UpTo, Zenon
  <2> QED  BY <2>3 DEF S
<1>7. ASSUME NEW i \in 1 .. n
      PROVE  Run(b, i) = Admit(Run(b, i - 1), w, landed[i])
  <2> DEFINE a == Run(b, i - 1)
             low == b.lowest
             high == b.highest
             got == b.received
  <2>1. i \in Nat /\ i > 0 /\ i - 1 \in 0 .. n
    BY <1>2
  <2>2. a = [received |-> got + (i - 1), duplicated |-> b.duplicated,
             reordered |-> b.reordered, discontinuities |-> b.discontinuities,
             resyncs |-> b.resyncs, closed |-> b.closed, lowest |-> low,
             highest |-> Greater(high, base + (i - 1)), extended |-> base + (i - 1),
             wide |-> w]
    BY DEF Run
  <2> HIDE DEF a
  <2>3. Step(a.wide, landed[i], a.extended) = 1 /\ a.wide = w
    <3>1. a.extended = numbers[i - 1] /\ a.wide = w
      BY <1>6, <2>1, <2>2
    <3> QED  BY <1>2, <1>5, <3>1
  <2>4. a.received # 0
    BY <1>1, <2>1, <2>2
  <2>5. Admit(a, w, landed[i]) = Widened(a, 1)
    BY <1>4, <2>3, <2>4 DEF Admit
  <2>6. One(IsDuplicate(1)) = 0 /\ One(IsReordered(w, 1)) = 0 /\ One(1 # 1) = 0
    BY <1>4 DEF One
  <2>7. /\ (got + (i - 1)) + 1 = got + i /\ (base + (i - 1)) + 1 = base + i
        /\ Lesser(low, base + i) = low
        /\ Greater(Greater(high, base + (i - 1)), base + i) = Greater(high, base + i)
    <3> HIDE DEF base, low, high, got
    <3> QED  BY <1>1, <2>1 DEF Lesser, Greater, base, low, high, got
  <2>8. /\ b.duplicated + 0 = b.duplicated /\ b.reordered + 0 = b.reordered
        /\ b.discontinuities + 0 = b.discontinuities
    BY <1>1
  <2>9. Widened(a, 1) =
          [received |-> a.received + 1, duplicated |-> a.duplicated + 0,
           reordered |-> a.reordered + 0, discontinuities |-> a.discontinuities + 0,
           resyncs |-> a.resyncs, closed |-> a.closed,
           lowest |-> Lesser(a.lowest, a.extended + 1),
           highest |-> Greater(a.highest, a.extended + 1),
           extended |-> a.extended + 1, wide |-> w]
    BY <1>4, <2>3, <2>6, Zenon DEF Widened, Landed
  <2>10. /\ a.received = got + (i - 1) /\ a.duplicated = b.duplicated
         /\ a.reordered = b.reordered /\ a.discontinuities = b.discontinuities
         /\ a.resyncs = b.resyncs /\ a.closed = b.closed /\ a.lowest = low
         /\ a.highest = Greater(high, base + (i - 1)) /\ a.extended = base + (i - 1)
    BY <2>2
  <2>11. Widened(a, 1) =
          [received |-> got + i, duplicated |-> b.duplicated,
           reordered |-> b.reordered, discontinuities |-> b.discontinuities,
           resyncs |-> b.resyncs, closed |-> b.closed, lowest |-> low,
           highest |-> Greater(high, base + i), extended |-> base + i, wide |-> w]
    BY <2>7, <2>8, <2>9, <2>10, Zenon
  <2> QED  BY <2>5, <2>11, Zenon DEF Run, a
<1>8. Run(b, 0) = b
  <2>1. /\ b.received + 0 = b.received /\ base + 0 = base
        /\ Greater(b.highest, base + 0) = b.highest
    BY <1>1 DEF Greater
  <2> HIDE DEF base
  <2> QED  BY <1>1, <2>1 DEF Run, Accounts, base
<1>9. DOMAIN after = 0 .. n /\ after[0] = b /\ after[n] = Run(b, n)
  BY <1>2, <1>8 DEF after
<1>10. \A i \in 1 .. n : after[i] = Admit(after[i - 1], w, landed[i])
  <2> TAKE i \in 1 .. n
  <2>1. i \in 0 .. n /\ i - 1 \in 0 .. n
    BY <1>2
  <2> QED  BY <1>7, <2>1 DEF after
<1> QED  BY <1>9, <1>10 DEF Follows, n

(* However a chunk is accounted for, the account stays sound. *)
LEMMA FollowsSound ==
    ASSUME NEW w \in BOOLEAN, NEW landed \in Seq(Numbers(w)), NEW b, Sound(b), b.wide = w,
           NEW after, Follows(after, b, w, landed)
    PROVE  Sound(after[Len(landed)]) /\ after[Len(landed)].wide = w
<1> DEFINE n == Len(landed)
           S == {i \in 0 .. n : Sound(after[i]) /\ after[i].wide = w}
<1>1. n \in Nat /\ \A i \in 1 .. n : landed[i] \in Int
  <2>1. Numbers(w) \subseteq Int
    BY SpaceFacts DEF Numbers
  <2> QED  BY <2>1
<1>2. after[0] = b /\ \A i \in 1 .. n : after[i] = Admit(after[i - 1], w, landed[i])
  BY DEF Follows
<1> HIDE DEF n
<1>3. 0 \in S
  BY <1>1, <1>2
<1>4. \A i \in 0 .. n - 1 : i \in S => i + 1 \in S
  <2> SUFFICES ASSUME NEW i \in 0 .. n - 1, Sound(after[i]), after[i].wide = w
               PROVE  i + 1 \in 0 .. n /\ Sound(after[i + 1]) /\ after[i + 1].wide = w
    OBVIOUS
  <2>1. i + 1 \in 1 .. n /\ i + 1 \in 0 .. n /\ i + 1 - 1 = i
    BY <1>1
  <2>2. after[i + 1] = Admit(after[i], w, landed[i + 1]) /\ landed[i + 1] \in Int
    BY <1>1, <1>2, <2>1
  <2> QED  BY <2>1, <2>2, AdmitSound
<1> HIDE DEF S
<1>5. 0 .. n \subseteq S
  BY <1>1, <1>3, <1>4, UpTo, Zenon
<1>6. n \in S
  BY <1>1, <1>5
<1> QED  BY <1>6 DEF S, n

(* The first packet opens the account the rest of its chunk is taken to. *)
LEMMA FirstChunk ==
    ASSUME NEW w, NEW X, NEW chunk \in Seq(X), chunk # << >>, NEW after,
           Follows(after, Opened(w, chunk[1]), w, Tail(chunk))
    PROVE  \E all : /\ Follows(all, Fresh, w, chunk)
                    /\ all[Len(chunk)] = after[Len(Tail(chunk))]
<1> DEFINE n == Len(chunk)
           all == [i \in 0 .. n |-> IF i = 0 THEN Fresh ELSE after[i - 1]]
<1>1. /\ n \in Nat /\ n > 0 /\ Len(Tail(chunk)) = n - 1
      /\ \A i \in 1 .. n - 1 : Tail(chunk)[i] = chunk[i + 1]
  OBVIOUS
<1>2. /\ after[0] = Opened(w, chunk[1])
      /\ \A i \in 1 .. n - 1 : after[i] = Admit(after[i - 1], w, chunk[i + 1])
  BY <1>1 DEF Follows
<1> HIDE DEF n
<1>3. DOMAIN all = 0 .. n /\ all[0] = Fresh /\ all[n] = after[n - 1]
  BY <1>1
<1>4. ASSUME NEW i \in 1 .. n PROVE all[i] = Admit(all[i - 1], w, chunk[i])
  <2>1. i \in 0 .. n /\ i - 1 \in 0 .. n /\ i \in Int /\ all[i] = after[i - 1]
    BY <1>1
  <2>2. CASE i = 1
    <3>1. Fresh.received = 0
      BY DEF Fresh
    <3>2. all[i - 1] = Fresh /\ all[i] = Opened(w, chunk[1])
      BY <1>2, <1>3, <2>1, <2>2
    <3> HIDE DEF all
    <3> QED  BY <2>2, <3>1, <3>2 DEF Admit
  <2>3. CASE i # 1
    <3>1. i - 1 \in 1 .. n - 1 /\ i - 1 + 1 = i /\ i - 1 # 0
      BY <1>1, <2>1, <2>3
    <3>2. all[i - 1] = after[i - 1 - 1]
      BY <2>1, <3>1
    <3>3. after[i - 1] = Admit(after[i - 1 - 1], w, chunk[i])
      BY <1>2, <3>1
    <3> HIDE DEF all
    <3> QED  BY <2>1, <3>2, <3>3
  <2> QED  BY <2>2, <2>3
<1> HIDE DEF all
<1> QED  BY <1>1, <1>3, <1>4 DEF Follows, n

-----------------------------------------------------------------------------
(* The tracker's attributes as the promise's account. *)
account == [received |-> received, duplicated |-> duplicated, reordered |-> reordered,
            discontinuities |-> discontinuities, resyncs |-> resyncs, closed |-> closed,
            lowest |-> lowest, highest |-> highest,
            extended |-> IF extended = None THEN 0 ELSE extended, wide |-> wide]

(* What holds of the tracker between calls: before the first packet it is  *)
(* as it was built, and from then on its account is a sound one.           *)
IInv ==
    /\ extended \in Int \cup {None} /\ heard \in Seq(Int)
    /\ extended = None => account = Fresh
    /\ extended # None => Sound(account)

(* The account a chunk lands on: the one held, or the one its first packet *)
(* opens.                                                                  *)
Held(w, chunk) == IF extended = None THEN Opened(w, chunk[1]) ELSE account

Rest(chunk) == IF extended = None THEN Tail(chunk) ELSE chunk

(* What observe() does with a chunk is what admitting its packets one at a *)
(* time does, and leaves a sound account.                                  *)
LEMMA AccountAdmitsAll ==
    ASSUME IInv, NEW w \in BOOLEAN, NEW chunk \in Seq(Numbers(w)), chunk # << >>,
           extended = None \/ wide = w, Account(w, chunk)
    PROVE  /\ account' = Promise!AdmitAll(account, w, chunk)
           /\ extended' \in Int /\ Sound(account')
<1> DEFINE b == Held(w, chunk)
           landed == Rest(chunk)
           n == Len(landed)
           steps == Steps(w, landed, b.extended)
<1>0. Numbers(w) \subseteq Int /\ chunk[1] \in Int /\ Len(chunk) \in Nat
  <2>1. Numbers(w) \subseteq Int
    BY SpaceFacts DEF Numbers
  <2> QED  BY <2>1
<1>1. Sound(b) /\ b.wide = w
  <2>1. CASE extended = None
    BY <1>0, <2>1, OpenedSound DEF Held
  <2>2. CASE extended # None
    <3>1. account.wide = w
      BY <2>2 DEF account
    <3> QED  BY <2>2, <3>1 DEF IInv, Held
  <2> QED  BY <2>1, <2>2
<1>2. landed \in Seq(Numbers(w)) /\ n \in Nat /\ b.received + n = received + Len(chunk)
  <2>1. CASE extended = None
    <3>1. received = 0
      BY <2>1 DEF IInv, account, Fresh
    <3>2. b.received = 1
      BY <2>1 DEF Held, Opened, Fresh
    <3>3. landed = Tail(chunk)
      BY <2>1 DEF Rest
    <3> QED  BY <3>1, <3>2, <3>3
  <2>2. CASE extended # None
    BY <2>2 DEF Held, Rest, account
  <2> QED  BY <2>1, <2>2
<1>3. /\ b.duplicated = duplicated /\ b.reordered = reordered
      /\ b.discontinuities = discontinuities /\ b.resyncs = resyncs /\ b.closed = closed
  <2>1. CASE extended = None
    BY <2>1 DEF IInv, account, Held, Opened, Fresh
  <2>2. CASE extended # None
    BY <2>2 DEF Held, account
  <2> QED  BY <2>1, <2>2
<1>4. /\ b.extended = IF extended = None THEN chunk[1] ELSE extended
      /\ b.lowest = IF extended = None THEN chunk[1] ELSE lowest
      /\ b.highest = IF extended = None THEN chunk[1] ELSE highest
  <2>1. CASE extended = None
    BY <2>1 DEF Held, Opened, Fresh
  <2>2. CASE extended # None
    BY <2>2 DEF Held, account
  <2> QED  BY <2>1, <2>2
<1>5. /\ received' = b.received + n /\ wide' = w
      /\ IF \A i \in DOMAIN steps : steps[i] = 1
         THEN Advance(landed, b.extended, b.lowest, b.highest)
         ELSE Widen(w, landed, steps, b.extended, b.lowest, b.highest)
  BY <1>2, <1>4 DEF Account, Rest
<1>6. /\ b \in Accounts /\ b.extended \in Int /\ b.lowest \in Int /\ b.highest \in Int
      /\ b.lowest <= b.extended /\ b.extended <= b.highest /\ None \notin Int
  BY <1>1, TrackerAssumption DEF Sound, Accounts
<1>7. \E after : Follows(after, b, w, landed) /\ account' = after[n] /\ extended' \in Int
  <2>1. CASE \A i \in DOMAIN steps : steps[i] = 1
    <3>1. PICK after : Follows(after, b, w, landed) /\ after[n] = Run(b, n)
      <4> HIDE DEF b, landed
      <4> QED  BY <1>1, <1>2, <2>1, ChunkInStep
    <3>2. Advance(landed, b.extended, b.lowest, b.highest)
      BY <1>5, <2>1
    <3> HIDE DEF b, landed, n, steps
    <3>3. lowest' = b.lowest
      <4> DEFINE ends == {b.lowest, b.extended + 1}
      <4>1. ends \subseteq Int /\ b.lowest \in ends /\ \A x \in ends : b.lowest <= x
        BY <1>6
      <4>2. lowest' = Min(ends)
        BY <3>2 DEF Advance
      <4> HIDE DEF ends
      <4> QED  BY <4>1, <4>2, MinIs
    <3>4. highest' = Greater(b.highest, b.extended + n)
      <4> DEFINE last == b.extended + n
                 ends == {b.highest, last}
      <4>0. last \in Int
        BY <1>2, <1>6 DEF n
      <4>1. highest' = Max(ends)
        BY <3>2 DEF Advance, n
      <4> HIDE DEF last
      <4>2. /\ ends \subseteq Int /\ Greater(b.highest, last) \in ends
            /\ \A x \in ends : x <= Greater(b.highest, last)
        BY <1>6, <4>0 DEF Greater
      <4> HIDE DEF ends
      <4>3. Max(ends) = Greater(b.highest, last)
        BY <4>2, MaxIs
      <4> QED  BY <4>1, <4>3 DEF last
    <3>5. extended' = b.extended + n /\ extended' \in Int /\ extended' # None
      BY <1>2, <1>6, <3>2 DEF Advance, n
    <3>6. /\ duplicated' = b.duplicated /\ reordered' = b.reordered
          /\ discontinuities' = b.discontinuities /\ resyncs' = b.resyncs /\ closed' = b.closed
      BY <1>3, <3>2 DEF Advance
    <3>7. account' = Run(b, n)
      BY <1>1, <1>5, <3>3, <3>4, <3>5, <3>6, Zenon DEF account, Run
    <3> QED  BY <3>1, <3>5, <3>7
  <2>2. CASE ~(\A i \in DOMAIN steps : steps[i] = 1)
    <3> DEFINE cuts == Cuts(w, steps)
               numbers == Unwrapped(w, landed, steps, b.extended)
               open == SpanOf(cuts, numbers, b.lowest, b.highest, Max(cuts \cup {0}))
               reach == Reach(cuts, numbers, b.lowest, b.highest, n)
    <3>1. PICK after : Follows(after, b, w, landed) /\ after[n] = Prefix(w, landed, b, n)
      <4> HIDE DEF b, landed
      <4> QED  BY <1>1, <1>2, BrokenChunk
    <3>2. Widen(w, landed, steps, b.extended, b.lowest, b.highest)
      BY <1>5, <2>2
    <3>3. /\ DOMAIN steps = 1 .. n /\ cuts \subseteq 1 .. n /\ numbers \in [0 .. n -> Int]
      <4> HIDE DEF b, landed
      <4> DEFINE base == b.extended
                 own == Steps(w, landed, base)
      <4>1. base \in Int
        BY <1>6
      <4> HIDE DEF base
      <4>2. /\ DOMAIN own = 1 .. n /\ Cuts(w, own) \subseteq 1 .. n
            /\ Unwrapped(w, landed, own, base) \in [0 .. n -> Int]
        BY <1>2, <4>1, NumbersMove
      <4> QED  BY <4>2 DEF base
    <3> HIDE DEF b, landed, n
    <3>4. open = reach
      <4> HIDE DEF cuts, numbers
      <4>1. n \in Nat
        BY <1>2 DEF n
      <4>2. \A x : x \in open <=> x \in reach
        BY <1>6, <3>3, <4>1, SpanIsReach
      <4> HIDE DEF open, reach
      <4> QED  BY <4>2
    <3>5. /\ discontinuities' = discontinuities + Cardinality({i \in DOMAIN steps : steps[i] # 1})
          /\ duplicated' = duplicated + Cardinality({i \in DOMAIN steps : IsDuplicate(steps[i])})
          /\ reordered' = reordered + Cardinality({i \in DOMAIN steps : IsReordered(w, steps[i])})
          /\ resyncs' = resyncs + Cardinality(cuts)
          /\ closed' = closed + Banked(cuts, numbers, b.lowest, b.highest, Len(landed))
          /\ lowest' = Min(open) /\ highest' = Max(open)
          /\ extended' = numbers[Len(landed)]
      <4> HIDE DEF steps
      <4> QED  BY <3>2 DEF Widen
    <3>6. extended' = numbers[n] /\ extended' \in Int /\ extended' # None
      <4> HIDE DEF numbers
      <4> QED  BY <1>2, <1>6, <3>3, <3>5 DEF n
    <3>7. /\ Cardinality({i \in DOMAIN steps : steps[i] # 1})
                = Among({i \in DOMAIN steps : steps[i] # 1}, n)
          /\ Cardinality({i \in DOMAIN steps : IsDuplicate(steps[i])})
                = Among({i \in DOMAIN steps : IsDuplicate(steps[i])}, n)
          /\ Cardinality({i \in DOMAIN steps : IsReordered(w, steps[i])})
                = Among({i \in DOMAIN steps : IsReordered(w, steps[i])}, n)
          /\ Cardinality(cuts) = Among(cuts, n)
      <4>1. \A T : T \subseteq 1 .. n => Cardinality(T) = Among(T, n)
        <5> SUFFICES ASSUME NEW T, T \subseteq 1 .. n PROVE Cardinality(T) = Among(T, n)
          OBVIOUS
        <5>1. T \cap (1 .. n) = T
          OBVIOUS
        <5> QED  BY <5>1 DEF Among
      <4> HIDE DEF steps, cuts
      <4>2. /\ {i \in DOMAIN steps : steps[i] # 1} \subseteq 1 .. n
            /\ {i \in DOMAIN steps : IsDuplicate(steps[i])} \subseteq 1 .. n
            /\ {i \in DOMAIN steps : IsReordered(w, steps[i])} \subseteq 1 .. n
        BY <3>3
      <4> QED  BY <3>3, <4>1, <4>2, Zenon
    <3>8. account' = Prefix(w, landed, b, n)
      <4>1. account' =
              [received |-> received', duplicated |-> duplicated', reordered |-> reordered',
               discontinuities |-> discontinuities', resyncs |-> resyncs', closed |-> closed',
               lowest |-> lowest', highest |-> highest', extended |-> extended', wide |-> wide']
        BY <3>6, Zenon DEF account
      <4>2. /\ received' = b.received + n /\ wide' = w
            /\ closed' = b.closed + Banked(cuts, numbers, b.lowest, b.highest, n)
            /\ lowest' = Min(reach) /\ highest' = Max(reach)
        <5> HIDE DEF cuts, numbers, open, reach, steps
        <5> QED  BY <1>3, <1>5, <3>4, <3>5, Zenon DEF n
      <4>3. /\ discontinuities' = b.discontinuities + Among({i \in DOMAIN steps : steps[i] # 1}, n)
            /\ duplicated' = b.duplicated + Among({i \in DOMAIN steps : IsDuplicate(steps[i])}, n)
            /\ reordered' = b.reordered + Among({i \in DOMAIN steps : IsReordered(w, steps[i])}, n)
            /\ resyncs' = b.resyncs + Among(cuts, n)
        <5> HIDE DEF cuts, steps
        <5> QED  BY <1>3, <3>5, <3>7, Zenon
      <4> QED  BY <3>6, <4>1, <4>2, <4>3, Zenon DEF Prefix
    <3> QED  BY <3>1, <3>6, <3>8
  <2> QED  BY <2>1, <2>2
<1>8. PICK after : Follows(after, b, w, landed) /\ account' = after[n] /\ extended' \in Int
  BY <1>7
<1> HIDE DEF b, landed, n, steps
<1>9. Sound(account')
  BY <1>1, <1>2, <1>8, FollowsSound DEF n
<1>10. \E all : Follows(all, account, w, chunk) /\ all[Len(chunk)] = account'
  <2>1. CASE extended = None
    <3>1. account = Fresh /\ b = Opened(w, chunk[1]) /\ landed = Tail(chunk)
      BY <2>1 DEF IInv, Held, Rest, b, landed
    <3>2. \E all : Follows(all, Fresh, w, chunk) /\ all[Len(chunk)] = after[Len(Tail(chunk))]
      BY <1>8, <3>1, FirstChunk
    <3> QED  BY <1>8, <3>1, <3>2 DEF n
  <2>2. CASE extended # None
    <3>1. b = account /\ landed = chunk
      BY <2>2 DEF Held, Rest, b, landed
    <3> QED  BY <1>8, <3>1 DEF n
  <2> QED  BY <2>1, <2>2
<1>11. account' = Promise!AdmitAll(account, w, chunk)
  BY <1>0, <1>10, AdmitAllIs
<1> QED  BY <1>8, <1>9, <1>11

LEMMA CutIs ==
    ASSUME NEW s \in Seq(Int), NEW first \in Int, NEW end \in Int,
           1 <= first, first <= end + 1, end <= Len(s)
    PROVE  /\ Len(SubSeq(s, first, end)) = end - first + 1
           /\ \A i \in 1 .. end - first + 1 : SubSeq(s, first, end)[i] = s[first + i - 1]
  OBVIOUS

(* The packets a call adds to the history are the chunk it was given. *)
LEMMA HeardChunk ==
    ASSUME NEW before \in Seq(Int), NEW chunk \in Seq(Int)
    PROVE  SubSeq(before \o chunk, Len(before) + 1, Len(before \o chunk)) = chunk
<1> DEFINE all == before \o chunk
           m == Len(before)
           n == Len(chunk)
           own == SubSeq(all, m + 1, m + n)
<1>1. m \in Nat /\ n \in Nat /\ all \in Seq(Int) /\ Len(all) = m + n
  OBVIOUS
<1>2. \A i \in 1 .. n : all[m + i] = chunk[i]
  OBVIOUS
<1> HIDE DEF all, m, n
<1>3. Len(own) = n /\ \A i \in 1 .. n : own[i] = all[m + 1 + i - 1]
  <2>1. /\ m + 1 \in Int /\ m + n \in Int /\ (m + n) - (m + 1) + 1 = n
        /\ 1 <= m + 1 /\ m + 1 <= m + n + 1 /\ m + n <= Len(all)
    BY <1>1
  <2>2. /\ Len(own) = (m + n) - (m + 1) + 1
        /\ \A i \in 1 .. (m + n) - (m + 1) + 1 : own[i] = all[m + 1 + i - 1]
    BY <1>1, <2>1, CutIs, Zenon
  <2> QED  BY <2>1, <2>2, Zenon
<1>4. own \in Seq(Int)
  BY <1>1
<1>5. \A i \in 1 .. n : own[i] = chunk[i]
  <2> TAKE i \in 1 .. n
  <2>1. m + 1 + i - 1 = m + i
    BY <1>1
  <2> QED  BY <1>2, <1>3, <2>1
<1> HIDE DEF own
<1>6. own = chunk
  BY <1>1, <1>3, <1>4, <1>5, SeqEqual DEF n
<1> QED  BY <1>1, <1>6 DEF own, all, m

LEMMA InitEstablishes ==
    ASSUME Init
    PROVE  IInv /\ Promise!Init
<1>1. account = Fresh /\ heard = << >>
  BY DEF Init, account, Fresh
<1> QED  BY <1>1, PromiseIsRfc3550 DEF Init, IInv, Promise!Init, account

LEMMA FreshAttributes ==
    ASSUME IInv, extended = None
    PROVE  /\ received = 0 /\ duplicated = 0 /\ reordered = 0 /\ discontinuities = 0
           /\ resyncs = 0 /\ closed = 0 /\ lowest = 0 /\ highest = 0 /\ wide = FALSE
  BY DEF IInv, account, Fresh

LEMMA SoundAttributes ==
    ASSUME IInv, extended # None
    PROVE  /\ received \in Nat /\ duplicated \in Nat /\ reordered \in Nat
           /\ discontinuities \in Nat /\ resyncs \in Nat /\ closed \in Nat
           /\ lowest \in Int /\ highest \in Int /\ extended \in Int /\ wide \in BOOLEAN
           /\ extended <= highest
           /\ received - closed + lowest - extended - 1
                <= duplicated + reordered * (Misorder + 1)
<1> DEFINE owed == reordered * (Misorder + 1)
<1>1. /\ account.received = received /\ account.duplicated = duplicated
      /\ account.reordered = reordered /\ account.discontinuities = discontinuities
      /\ account.resyncs = resyncs /\ account.closed = closed
      /\ account.lowest = lowest /\ account.highest = highest
      /\ account.extended = extended /\ account.wide = wide
  BY DEF account
<1>2. account.reordered * (Misorder + 1) = owed
  BY <1>1
<1> HIDE DEF owed
<1>3. Sound(account)
  BY DEF IInv
<1>4. /\ received \in Nat /\ duplicated \in Nat /\ reordered \in Nat
      /\ discontinuities \in Nat /\ resyncs \in Nat /\ closed \in Int
      /\ lowest \in Int /\ highest \in Int /\ extended \in Int /\ wide \in BOOLEAN
  BY <1>1, <1>3 DEF Sound, Accounts
<1>5. closed >= 0 /\ extended <= highest
  BY <1>1, <1>3 DEF Sound
<1>6. received - closed + lowest - extended - 1 <= duplicated + owed
  BY <1>1, <1>2, <1>3 DEF Sound
<1> QED  BY <1>4, <1>5, <1>6 DEF owed

(* An account that is kept is never empty, and keeps its space. *)
LEMMA HeldAccount ==
    ASSUME IInv
    PROVE  account.received > 0 => extended # None /\ account.wide = wide
<1>1. CASE extended = None
  <2>1. account.received = 0
    BY <1>1 DEF IInv, Fresh
  <2> QED  BY <2>1
<1>2. CASE extended # None
  BY <1>2 DEF account
<1> QED  BY <1>1, <1>2

LEMMA NextPreserves ==
    ASSUME IInv, [Next]_vars
    PROVE  IInv' /\ [Promise!Next]_<<heard, account>>
<1>1. CASE UNCHANGED vars
  BY <1>1 DEF vars, counters, span, IInv, Sound, account
<1>2. ASSUME NEW w \in BOOLEAN, NEW chunk \in Chunks(w), Observe(w, chunk)
      PROVE  IInv' /\ [Promise!Next]_<<heard, account>>
  <2>1. CASE chunk = << >> \/ (extended # None /\ wide # w)
    BY <1>1, <1>2, <2>1 DEF Observe
  <2>2. CASE chunk # << >> /\ (extended = None \/ wide = w)
    <3>1. Account(w, chunk)
      BY <1>2, <2>2 DEF Observe
    <3>2. chunk \in Seq(Numbers(w)) /\ chunk \in Seq(Int) /\ heard \in Seq(Int)
      <4>1. Numbers(w) \subseteq Int
        BY SpaceFacts DEF Numbers
      <4> QED  BY <4>1, TrackerAssumption DEF IInv
    <3>3. /\ account' = Promise!AdmitAll(account, w, chunk)
          /\ extended' \in Int /\ Sound(account')
      BY <2>2, <3>1, <3>2, AccountAdmitsAll
    <3>4. heard' = heard \o chunk /\ heard' \in Seq(Int)
      BY <3>1, <3>2 DEF Account
    <3>5. SubSeq(heard', Len(heard) + 1, Len(heard')) = chunk
      BY <3>2, <3>4, HeardChunk
    <3>6. IInv'
      BY <3>3, <3>4, TrackerAssumption DEF IInv
    <3>7. account.received > 0 => account.wide = w
      BY <2>2, HeldAccount
    <3>8. Promise!Receive(w)
      BY <3>3, <3>4, <3>5, <3>7 DEF Promise!Receive, account
    <3> QED  BY <3>6, <3>8 DEF Promise!Next
  <2> QED  BY <2>1, <2>2
<1> QED  BY <1>1, <1>2 DEF Next

(* The tracker is as it was built until the first packet, and from then on *)
(* its account is sound, whatever chunks observe() is called with.         *)
THEOREM AccountIsSound == Spec => []IInv
<1>1. Init => IInv
  BY InitEstablishes
<1>2. IInv /\ [Next]_vars => IInv'
  BY NextPreserves
<1> QED  BY <1>1, <1>2, PTL DEF Spec

(* Observing a capture a chunk at a time, in closed form where every step  *)
(* is one and by cumulative sums where one is not, keeps the account that  *)
(* is kept a packet at a time: where the chunks were cut changes no        *)
(* figure, and a chunk in the other space leaves no trace.                 *)
THEOREM ChunkingChangesNothing == Spec => KeepsThePacketAccount
<1>1. Init => Promise!Init
  BY InitEstablishes
<1>2. IInv /\ [Next]_vars => [Promise!Next]_<<heard, account>>
  BY NextPreserves
<1>3. Spec => []IInv
  BY AccountIsSound
<1> QED  BY <1>1, <1>2, <1>3, PTL DEF Spec, KeepsThePacketAccount, Promise!Spec, account

(* The attributes keep their types: the counters and the banked spans are  *)
(* never negative, however far back the numbers go.                        *)
THEOREM TypesKept == Spec => []TypeOK
<1>1. IInv => TypeOK
  <2>1. ASSUME IInv, extended = None PROVE TypeOK
    BY <2>1, FreshAttributes DEF TypeOK
  <2>2. ASSUME IInv, extended # None PROVE TypeOK
    BY <2>2, SoundAttributes DEF TypeOK
  <2> QED  BY <2>1, <2>2
<1> QED  BY <1>1, AccountIsSound, PTL

(* Duplicates, reorderings and resyncs are never more than the steps that  *)
(* were not one, and those never as many as the packets: the first packet  *)
(* is no event, and no packet is two.                                      *)
THEOREM NoEventIsTwo == Spec => []EventsAreSteps
<1>1. IInv => EventsAreSteps
  BY DEF IInv, EventsAreSteps, Sound, Accounts, account, Fresh
<1> QED  BY <1>1, AccountIsSound, PTL

(* lost is below zero by no more than the duplicates counted and a misorder *)
(* window and a packet for each late packet counted.                        *)
THEOREM SurplusExplained == Spec => []SurplusIsExplained
<1>1. IInv => SurplusIsExplained
  <2> DEFINE owed == reordered * (Misorder + 1)
  <2>1. ASSUME IInv, extended = None PROVE SurplusIsExplained
    <3>1. owed = 0
      <4>1. reordered = 0 /\ Misorder \in Nat
        BY <2>1, FreshAttributes, SpaceFacts
      <4>2. 0 * (Misorder + 1) = 0
        BY <4>1
      <4> QED  BY <4>1, <4>2
    <3> HIDE DEF owed
    <3>2. -Lost <= duplicated + owed
      BY <2>1, <3>1, FreshAttributes DEF Lost, Expected
    <3> QED  BY <3>2 DEF owed, SurplusIsExplained
  <2>2. ASSUME IInv, extended # None PROVE SurplusIsExplained
    <3>1. owed \in Int /\ received - closed + lowest - extended - 1 <= duplicated + owed
      BY <2>2, SoundAttributes, SpaceFacts
    <3> HIDE DEF owed
    <3>2. -Lost <= duplicated + owed
      BY <2>2, <3>1, SoundAttributes DEF Lost, Expected
    <3> QED  BY <3>2 DEF owed, SurplusIsExplained
  <2> QED  BY <2>1, <2>2
<1> QED  BY <1>1, AccountIsSound, PTL

-----------------------------------------------------------------------------
(* Flow: a sender, a network and a tracker, for flows of any length.       *)

(* The fields a packet carries, joined or not, are the sender's count less *)
(* a whole number of spaces.                                               *)
LEMMA CarriedIsCount ==
    ASSUME NEW w \in BOOLEAN, NEW count \in Nat
    PROVE  /\ Carried(w, count) \in 0 .. Space(w) - 1
           /\ \E q \in Int : count = q * Space(w) + Carried(w, count)
<1>0. NarrowSpace \in Nat /\ WideSpace \in Nat /\ NarrowSpace > 0 /\ WideSpace > 0
  <2>1. Space(TRUE) > 1 /\ Space(FALSE) > 1
    BY SpaceFacts
  <2> QED  BY <2>1, SpaceFacts DEF Space
<1>1. CASE ~w
  BY <1>0, <1>1, Division DEF Carried, Low, Space
<1>2. CASE w
  <2> DEFINE K == WideSpace \div NarrowSpace
             c == count \div NarrowSpace
             l == count % NarrowSpace
  <2>1. K \in Int /\ WideSpace = K * NarrowSpace
    BY <1>0, Division, FlowAssumption
  <2>2. K \in Nat /\ K > 0
    <3>1. CASE K <= 0
      <4>1. K * NarrowSpace <= 0
        BY <3>1, <2>1, <1>0
      <4> QED  BY <4>1, <2>1, <1>0
    <3> QED  BY <3>1, <2>1
  <2>3. c \in Int /\ l \in 0 .. NarrowSpace - 1 /\ count = c * NarrowSpace + l
    BY <1>0, Division
  <2>4. c \div K \in Int /\ c % K \in 0 .. K - 1 /\ c = (c \div K) * K + (c % K)
    BY <2>2, <2>3, Division
  <2> HIDE DEF K, c, l
  <2> DEFINE q == c \div K
             h == c % K
  <2>5. q \in Int /\ h \in 0 .. K - 1 /\ c = q * K + h
    BY <2>4
  <2> HIDE DEF q, h
  <2>6. c * NarrowSpace = q * WideSpace + h * NarrowSpace
    <3>1. c * NarrowSpace = (q * K + h) * NarrowSpace
      BY <2>5
    <3>2. (q * K + h) * NarrowSpace = q * (K * NarrowSpace) + h * NarrowSpace
      BY <2>1, <2>5, <1>0
    <3> QED  BY <3>1, <3>2, <2>1
  <2>7. h * NarrowSpace \in Nat /\ h * NarrowSpace <= WideSpace - NarrowSpace
    <3>1. (K - 1 - h) * NarrowSpace >= 0 /\ h * NarrowSpace >= 0
      BY <2>5, <2>2, <1>0
    <3>2. (K - 1 - h) * NarrowSpace = K * NarrowSpace - NarrowSpace - h * NarrowSpace
      BY <2>5, <2>2, <1>0
    <3> QED  BY <3>1, <3>2, <2>1, <2>5, <1>0
  <2>8. Carried(w, count) = h * NarrowSpace + l
    BY <1>2 DEF Carried, Joined, High, Low, K, c, l, q, h
  <2>9. Space(w) = WideSpace
    BY <1>2 DEF Space
  <2>10. q * WideSpace \in Int
    BY <2>5, <1>0
  <2>11. count = q * WideSpace + (h * NarrowSpace + l)
    BY <2>3, <2>6, <2>7, <2>10
  <2> QED  BY <2>7, <2>3, <2>8, <2>9, <2>11, <2>5, <1>0
<1> QED  BY <1>1, <1>2

(* The step the tracker reads between two arrivals is how far the sender's *)
(* count moved: itself forwards, one space more backwards.                 *)
LEMMA StepIsAhead ==
    ASSUME NEW w \in BOOLEAN, NEW count \in Nat, NEW before \in Nat, NEW shift \in Int,
           shift % Space(w) = 0,
           count - before \in -Misorder .. Dropout(w) - 1
    PROVE  Step(w, Carried(w, count), before + shift)
             = IF count - before < 0 THEN count - before + Space(w) ELSE count - before
<1> DEFINE ahead == count - before
           S == Space(w)
           n == Carried(w, count)
<1>1. S \in Nat /\ S > 1 /\ Misorder \in Nat /\ Dropout(w) \in Nat /\ Dropout(w) + Misorder <= S
  BY SpaceFacts
<1>2. n \in 0 .. S - 1
  BY CarriedIsCount
<1>3. PICK q \in Int : count = q * S + n
  BY CarriedIsCount
<1>4. PICK k \in Int : shift = k * S
  <2>1. shift \div S \in Int /\ shift = (shift \div S) * S + (shift % S)
    BY <1>1, Division
  <2> QED  BY <2>1, <1>1
<1> HIDE DEF S, n
<1>5. q * S \in Int /\ k * S \in Int
  BY <1>1, <1>3, <1>4
<1>6. n - (before + shift) = ahead - (q * S) - (k * S)
  BY <1>2, <1>3, <1>4, <1>5
<1>7. CASE ahead >= 0
  <2>1. (-q - k) \in Int /\ (-q - k) * S = -(q * S) - (k * S)
    BY <1>1, <1>3, <1>4
  <2>2. n - (before + shift) = (-q - k) * S + ahead
    BY <2>1, <1>5, <1>6
  <2>3. ahead \in 0 .. S - 1
    BY <1>1, <1>7
  <2>4. (n - (before + shift)) % S = ahead
    BY <2>1, <2>2, <2>3, <1>1, <1>2, RemainderUnique
  <2> QED  BY <2>4, <1>7 DEF Step, S, n
<1>8. CASE ahead < 0
  <2>1. (-q - k - 1) \in Int /\ (-q - k - 1) * S = -(q * S) - (k * S) - S
    BY <1>1, <1>3, <1>4
  <2>2. n - (before + shift) = (-q - k - 1) * S + (ahead + S)
    BY <2>1, <1>5, <1>6, <1>1
  <2>3. ahead + S \in 0 .. S - 1
    BY <1>1, <1>8
  <2> DEFINE t == -q - k - 1
             r == ahead + S
             a == n - (before + shift)
  <2>4. t \in Int /\ r \in 0 .. S - 1 /\ a \in Int /\ a = t * S + r
    BY <2>1, <2>2, <2>3, <1>1, <1>2
  <2> HIDE DEF t, r, a
  <2>5. a % S = r
    BY <2>4, <1>1, RemainderUnique
  <2> QED  BY <2>5, <1>8 DEF Step, S, n, a, r
<1> QED  BY <1>7, <1>8

-----------------------------------------------------------------------------
(* What one packet inside the window does to the account. *)
LEMMA AdmitInWindow ==
    ASSUME NEW w \in BOOLEAN, NEW count \in Nat, NEW before \in Nat,
           count - before \in -Misorder .. Dropout(w) - 1,
           NEW a, a.wide = w, a.received # 0, a.extended \in Int,
           (a.extended - before) % Space(w) = 0
    PROVE  LET ahead == count - before
               here == a.extended + ahead
           IN  Admit(a, w, Carried(w, count)) =
                 [received |-> a.received + 1,
                  duplicated |-> a.duplicated + One(ahead = 0),
                  reordered |-> a.reordered + One(ahead < 0),
                  discontinuities |-> a.discontinuities + One(ahead # 1),
                  resyncs |-> a.resyncs, closed |-> a.closed,
                  lowest |-> Lesser(a.lowest, here),
                  highest |-> Greater(a.highest, here),
                  extended |-> here, wide |-> w]
<1> DEFINE ahead == count - before
           shift == a.extended - before
           step == Step(w, Carried(w, count), a.extended)
<1>1. /\ Space(w) \in Nat /\ Space(w) > 1 /\ Misorder \in Nat /\ Dropout(w) \in Nat
      /\ 1 < Dropout(w) /\ Dropout(w) + Misorder <= Space(w)
  BY SpaceFacts
<1>2. step = IF ahead < 0 THEN ahead + Space(w) ELSE ahead
  <2>1. shift \in Int /\ shift % Space(w) = 0 /\ a.extended = before + shift
    OBVIOUS
  <2> HIDE DEF shift
  <2>2. Step(w, Carried(w, count), before + shift)
          = IF count - before < 0 THEN count - before + Space(w) ELSE count - before
    BY <2>1, StepIsAhead
  <2> QED  BY <2>1, <2>2
<1>3. ahead \in -Misorder .. Dropout(w) - 1
  OBVIOUS
<1> HIDE DEF step, ahead
<1>4. /\ Signed(w, step) = ahead
      /\ IsDuplicate(step) <=> ahead = 0
      /\ IsReordered(w, step) <=> ahead < 0
      /\ step # 1 <=> ahead # 1
      /\ ~IsJump(w, step)
  BY <1>1, <1>2, <1>3 DEF Signed, IsDuplicate, IsReordered, IsJump
<1>5. Admit(a, w, Carried(w, count)) = Widened(a, step)
  BY <1>4 DEF Admit, step
<1>6. /\ One(IsDuplicate(step)) = One(ahead = 0)
      /\ One(IsReordered(w, step)) = One(ahead < 0)
      /\ One(step # 1) = One(ahead # 1)
  BY <1>4 DEF One
<1>7. Widened(a, step) =
        [received |-> a.received + 1,
         duplicated |-> a.duplicated + One(ahead = 0),
         reordered |-> a.reordered + One(ahead < 0),
         discontinuities |-> a.discontinuities + One(ahead # 1),
         resyncs |-> a.resyncs, closed |-> a.closed,
         lowest |-> Lesser(a.lowest, a.extended + ahead),
         highest |-> Greater(a.highest, a.extended + ahead),
         extended |-> a.extended + ahead, wide |-> w]
  BY <1>4, <1>6, Zenon DEF Widened, Landed
<1> QED  BY <1>5, <1>7 DEF ahead

-----------------------------------------------------------------------------
(* The inductive invariant.  UnwrapsTheCount says where the span lies but  *)
(* not that the tracker was opened by the first arrival, in the receiver's *)
(* own space, nor that the last arrival is one of those seen.              *)
Synchronised ==
    /\ IsFiniteSet(seen)
    /\ seen = {} => tracker = Fresh /\ events = [late |-> 0, again |-> 0, broken |-> 0]
    /\ seen # {} => tracker.received > 0 /\ tracker.wide = whole /\ latest \in seen

FlowIInv == FlowTypeOK /\ Synchronised /\ UnwrapsTheCount /\ EventsAreTrue

LEMMA FlowInitEstablishes == FlowInit => FlowIInv
<1> SUFFICES ASSUME FlowInit PROVE FlowIInv
  OBVIOUS
<1>1. sent \in Nat
  BY FlowAssumption DEF FlowInit
<1>2. FlowTypeOK
  BY <1>1 DEF FlowInit, FlowTypeOK, Fresh
<1>3. Synchronised
  BY FS_EmptySet DEF FlowInit, Synchronised
<1> QED  BY <1>2, <1>3 DEF FlowInit, FlowIInv, UnwrapsTheCount, EventsAreTrue, Fresh

(* The first packet to arrive opens the span at its own number. *)
LEMMA FirstArrival ==
    ASSUME FlowIInv, NEW count \in flight, NEW kept \in BOOLEAN, Arrive(count, kept), seen = {}
    PROVE  FlowIInv'
<1> DEFINE number == Carried(whole, count)
<1>1. whole \in BOOLEAN /\ count \in Nat /\ tracker = Fresh
  BY DEF FlowIInv, FlowTypeOK, Synchronised
<1>2. number \in Nat
  BY <1>1, CarriedIsCount, SpaceFacts
<1>3. PICK q \in Int : count = q * Space(whole) + number
  BY <1>1, CarriedIsCount
<1>4. Space(whole) \in Nat /\ Space(whole) > 1
  BY <1>1, SpaceFacts
<1> HIDE DEF number
<1>5. tracker' = Opened(whole, number)
  BY <1>1 DEF Arrive, Admit, number, Fresh
<1>6. tracker' = [received |-> 1, duplicated |-> 0, reordered |-> 0,
                  discontinuities |-> 0, resyncs |-> 0, closed |-> 0,
                  lowest |-> number, highest |-> number, extended |-> number,
                  wide |-> whole]
  BY <1>5 DEF Opened, Fresh
<1>7. /\ seen' = {count} /\ latest' = count /\ events' = events
      /\ whole' = whole /\ sent' = sent /\ flight' \subseteq flight
      /\ events = [late |-> 0, again |-> 0, broken |-> 0]
  BY DEF Arrive, FlowIInv, Synchronised
<1>8. FlowTypeOK'
  BY <1>1, <1>2, <1>6, <1>7 DEF FlowIInv, FlowTypeOK
<1>9. Synchronised'
  <2>1. IsFiniteSet({count})
    BY FS_Singleton
  <2>2. tracker'.received = 1 /\ tracker'.wide = whole
    BY <1>6
  <2> QED  BY <1>7, <2>1, <2>2 DEF Synchronised
<1>10. (number - count) % Space(whole) = 0
  <2> DEFINE a == number - count
             t == -q
  <2>1. t * Space(whole) = -(q * Space(whole)) /\ q * Space(whole) \in Int
    BY <1>3, <1>4
  <2>2. a \in Int /\ t \in Int /\ a = t * Space(whole)
    BY <2>1, <1>1, <1>2, <1>3, <1>4
  <2> HIDE DEF a, t
  <2>3. a % Space(whole) = 0
    BY <2>2, <1>4, MultipleRemainder
  <2> QED  BY <2>3 DEF a
<1>11. UnwrapsTheCount'
  BY <1>1, <1>2, <1>6, <1>7, <1>10 DEF UnwrapsTheCount, Shift
<1>12. EventsAreTrue'
  BY <1>6, <1>7 DEF EventsAreTrue
<1> QED  BY <1>8, <1>9, <1>11, <1>12 DEF FlowIInv

(* A later one moves every figure as its count moved. *)
LEMMA LaterArrival ==
    ASSUME FlowIInv, NEW count \in flight, NEW kept \in BOOLEAN, Arrive(count, kept), seen # {}
    PROVE  FlowIInv'
<1> DEFINE ahead == count - latest
           here == tracker.extended + ahead
<1>1. /\ whole \in BOOLEAN /\ count \in Nat /\ latest \in Nat
      /\ tracker.extended \in Int /\ tracker.wide = whole /\ tracker.received # 0
  BY DEF FlowIInv, FlowTypeOK, Synchronised
<1>2. /\ Space(whole) \in Nat /\ Misorder \in Nat /\ Dropout(whole) \in Nat
  BY <1>1, SpaceFacts
<1>3. ahead \in -Misorder .. Dropout(whole) - 1 /\ ahead \in Int /\ here \in Int
  BY <1>1, <1>2 DEF Arrive, Window
<1>4. (tracker.extended - latest) % Space(whole) = 0
  BY DEF FlowIInv, UnwrapsTheCount, Shift
<1>5. tracker' =
        [received |-> tracker.received + 1,
         duplicated |-> tracker.duplicated + One(ahead = 0),
         reordered |-> tracker.reordered + One(ahead < 0),
         discontinuities |-> tracker.discontinuities + One(ahead # 1),
         resyncs |-> tracker.resyncs, closed |-> tracker.closed,
         lowest |-> Lesser(tracker.lowest, here),
         highest |-> Greater(tracker.highest, here),
         extended |-> here, wide |-> whole]
  BY <1>1, <1>3, <1>4, AdmitInWindow DEF Arrive
<1>6. /\ seen' = seen \cup {count} /\ latest' = count
      /\ whole' = whole /\ sent' = sent /\ flight' \subseteq flight
      /\ events' = [late |-> events.late + One(ahead < 0),
                    again |-> events.again + One(ahead = 0),
                    broken |-> events.broken + One(ahead # 1)]
  BY DEF Arrive
<1> HIDE DEF ahead, here
<1>7. One(ahead < 0) \in Nat /\ One(ahead = 0) \in Nat /\ One(ahead # 1) \in Nat
  BY DEF One
<1>8. FlowTypeOK'
  <2>1. Lesser(tracker.lowest, here) \in Int /\ Greater(tracker.highest, here) \in Int
    BY <1>3 DEF FlowIInv, FlowTypeOK, Lesser, Greater
  <2>2. tracker' \in [received : Nat, duplicated : Nat, reordered : Nat,
                      discontinuities : Nat, resyncs : Nat, closed : Nat,
                      lowest : Int, highest : Int, extended : Int, wide : BOOLEAN]
    BY <1>1, <1>3, <1>5, <1>7, <2>1 DEF FlowIInv, FlowTypeOK
  <2>3. events' \in [late : Nat, again : Nat, broken : Nat]
    BY <1>6, <1>7 DEF FlowIInv, FlowTypeOK
  <2> QED  BY <1>1, <1>6, <2>2, <2>3 DEF FlowIInv, FlowTypeOK
<1>9. Synchronised'
  BY <1>1, <1>5, <1>6, FS_AddElement DEF FlowIInv, Synchronised, FlowTypeOK
<1>10. UnwrapsTheCount'
  <2>1. Shift' = Shift /\ Shift \in Int
    BY <1>1, <1>3, <1>5, <1>6 DEF Shift, here, ahead
  <2>2. here = count + Shift
    BY <1>1 DEF Shift, here, ahead
  <2>3. /\ tracker.lowest \in Int /\ tracker.highest \in Int
        /\ tracker.lowest - Shift \in seen /\ tracker.highest - Shift \in seen
        /\ tracker.resyncs = 0 /\ tracker.closed = 0 /\ Shift % Space(whole) = 0
        /\ \A c \in seen : tracker.lowest <= c + Shift /\ c + Shift <= tracker.highest
        /\ seen \subseteq Nat
    BY DEF FlowIInv, FlowTypeOK, UnwrapsTheCount
  <2>4. /\ tracker'.lowest = Lesser(tracker.lowest, here)
        /\ tracker'.highest = Greater(tracker.highest, here)
        /\ tracker'.resyncs = 0 /\ tracker'.closed = 0
    BY <1>5, <2>3
  <2>5. tracker'.lowest - Shift \in seen' /\ tracker'.highest - Shift \in seen'
    BY <1>1, <1>6, <2>1, <2>2, <2>3, <2>4 DEF Lesser, Greater
  <2>6. \A c \in seen' : tracker'.lowest <= c + Shift /\ c + Shift <= tracker'.highest
    BY <1>1, <1>6, <2>1, <2>2, <2>3, <2>4 DEF Lesser, Greater
  <2>7. (Space(whole))' = Space(whole)
    BY <1>6 DEF Space
  <2> QED  BY <2>1, <2>3, <2>4, <2>5, <2>6, <2>7 DEF UnwrapsTheCount
<1>11. EventsAreTrue'
  BY <1>5, <1>6 DEF FlowIInv, EventsAreTrue
<1> QED  BY <1>8, <1>9, <1>10, <1>11 DEF FlowIInv

LEMMA FlowNextPreserves == FlowIInv /\ [FlowNext]_flowVars => FlowIInv'
<1> SUFFICES ASSUME FlowIInv, [FlowNext]_flowVars PROVE FlowIInv'
  OBVIOUS
<1>1. ASSUME UNCHANGED <<whole, seen, latest, events, tracker>>,
             sent' \in Nat, flight' \subseteq Nat
      PROVE  FlowIInv'
  <2>1. FlowTypeOK'
    BY <1>1 DEF FlowIInv, FlowTypeOK
  <2>2. Synchronised' /\ EventsAreTrue'
    BY <1>1 DEF FlowIInv, Synchronised, EventsAreTrue
  <2>3. UnwrapsTheCount'
    BY <1>1 DEF FlowIInv, UnwrapsTheCount, Shift, Space
  <2> QED  BY <2>1, <2>2, <2>3 DEF FlowIInv
<1>2. CASE Send
  <2>1. sent' \in Nat /\ flight' \subseteq Nat
    <3>1. sent \in Nat /\ flight \subseteq Nat
      BY DEF FlowIInv, FlowTypeOK
    <3>2. sent' = sent + 1 /\ flight' = flight \cup {sent}
      BY <1>2 DEF Send
    <3> QED  BY <3>1, <3>2
  <2>2. UNCHANGED <<whole, seen, latest, events, tracker>>
    BY <1>2 DEF Send
  <2> QED  BY <1>1, <2>1, <2>2
<1>3. ASSUME NEW count \in flight, Lose(count) PROVE FlowIInv'
  BY <1>1, <1>3 DEF Lose, FlowIInv, FlowTypeOK
<1>4. ASSUME NEW count \in flight, NEW kept \in BOOLEAN, Arrive(count, kept) PROVE FlowIInv'
  BY <1>4, FirstArrival, LaterArrival
<1>5. CASE UNCHANGED flowVars
  BY <1>1, <1>5 DEF flowVars, FlowIInv, FlowTypeOK
<1> QED  BY <1>2, <1>3, <1>4, <1>5 DEF FlowNext

(* What the account says is lost is what is missing from the flow. *)
LEMMA SynchronisedIsExact == FlowIInv => LossIsExact
<1> SUFFICES ASSUME FlowIInv, seen # {}
             PROVE  LostOf(tracker) = Cardinality(Missing) - (tracker.received - Cardinality(seen))
  BY DEF LossIsExact
<1> DEFINE low == tracker.lowest - Shift
           high == tracker.highest - Shift
<1>1. /\ tracker.extended \in Int /\ latest \in Nat /\ Shift \in Int
      /\ tracker.lowest \in Int /\ tracker.highest \in Int /\ tracker.received \in Nat
      /\ tracker.received # 0 /\ tracker.closed = 0 /\ seen \subseteq Nat /\ IsFiniteSet(seen)
      /\ low \in seen /\ high \in seen
      /\ \A count \in seen : tracker.lowest <= count + Shift /\ count + Shift <= tracker.highest
  BY DEF FlowIInv, FlowTypeOK, Synchronised, UnwrapsTheCount, Shift
<1>2. low \in Int /\ high \in Int /\ low <= high /\ seen \subseteq low .. high
      /\ high - low + 1 = tracker.highest - tracker.lowest + 1
  BY <1>1
<1>3. Missing = (low .. high) \ seen
  BY DEF Missing
<1> HIDE DEF low, high
<1>4. IsFiniteSet(low .. high) /\ Cardinality(low .. high) = high - low + 1
  BY <1>2, FS_Interval
<1>5. Cardinality((low .. high) \ seen) = Cardinality(low .. high) - Cardinality((low .. high) \cap seen)
  BY <1>4, FS_Difference
<1>6. (low .. high) \cap seen = seen
  BY <1>2
<1>7. Cardinality(seen) \in Nat
  BY <1>1, FS_CardinalityType
<1>8. LostOf(tracker) = tracker.highest - tracker.lowest + 1 - tracker.received
  BY <1>1 DEF LostOf, ExpectedOf
<1>9. Cardinality(Missing) = high - low + 1 - Cardinality(seen)
  <2>1. Cardinality(Missing) = Cardinality((low .. high) \ seen)
    BY <1>3
  <2>2. Cardinality((low .. high) \cap seen) = Cardinality(seen)
    BY <1>6
  <2> QED  BY <2>1, <2>2, <1>2, <1>4, <1>5, <1>7
<1> QED  BY <1>1, <1>2, <1>7, <1>8, <1>9

-----------------------------------------------------------------------------
LEMMA FlowInvariance == FlowSpec => []FlowIInv
<1> QED  BY FlowInitEstablishes, FlowNextPreserves, PTL DEF FlowSpec

(* The account stays typed. *)
THEOREM TypeCorrect == FlowSpec => []FlowTypeOK
<1>1. FlowIInv => FlowTypeOK
  BY DEF FlowIInv
<1> QED  BY <1>1, FlowInvariance, PTL

(* However the flow is lost, repeated and reordered within the window, and *)
(* however often its numbers wrap, the tracker follows the sender's count. *)
THEOREM CountUnwrapped == FlowSpec => []UnwrapsTheCount
<1>1. FlowIInv => UnwrapsTheCount
  BY DEF FlowIInv
<1> QED  BY <1>1, FlowInvariance, PTL

(* lost is what never came, less what came again. *)
THEOREM LossExact == FlowSpec => []LossIsExact
<1> QED  BY SynchronisedIsExact, FlowInvariance, PTL

(* The events counted are the events that happened. *)
THEOREM EventsTrue == FlowSpec => []EventsAreTrue
<1>1. FlowIInv => EventsAreTrue
  BY DEF FlowIInv
<1> QED  BY <1>1, FlowInvariance, PTL
=============================================================================
