----------------------------- MODULE Foundations -----------------------------
(***************************************************************************)
(* What the proofs of several components rest on.  Induction over the      *)
(* naturals as facts about sets, which a proof can cite by name: every set *)
(* of naturals has a least element, so one that holds 0 and with each      *)
(* number the next holds them all.  From it, that recursive functions      *)
(* satisfy their equations and that bounded sets have a Min and a Max.     *)
(* And remainders, which the sequence spaces are counted in.               *)
(***************************************************************************)
EXTENDS Integers, Sequences, FiniteSets, FiniteSetsExt, WellFoundedInduction, FiniteSetTheorems,
        SequenceTheorems, TLAPS

(* The naturals are well ordered. *)
LEMMA LeastNatural ==
    ASSUME NEW T, T \subseteq Nat, T # {}
    PROVE  \E x \in T : \A y \in T : x <= y
<1> DEFINE R == OpToRel(<, Nat)
<1>1. IsWellFoundedOn(R, Nat)
  BY NatLessThanWellFounded, Zenon
<1>2. \A x, y \in Nat : y < x => <<y, x>> \in R
  BY SMT DEF OpToRel
<1> HIDE DEF R
<1>3. PICK x \in T : \A y \in T : ~ (<<y, x>> \in R)
  BY <1>1, WFMin, Zenon
<1>4. \A y \in T : ~(y < x)
  <2> TAKE y \in T
  <2>1. x \in Nat /\ y \in Nat
    OBVIOUS
  <2> QED  BY <1>2, <1>3, <2>1
<1>5. \A y \in T : x <= y
  BY <1>4, SMT
<1> QED  BY <1>5

(* Induction up to n. *)
LEMMA UpTo ==
    ASSUME NEW n \in Nat, NEW S, 0 \in S, \A i \in 0 .. n - 1 : i \in S => i + 1 \in S
    PROVE  0 .. n \subseteq S
<1> DEFINE missed == {i \in 0 .. n : i \notin S}
<1> SUFFICES missed = {}
  OBVIOUS
<1> SUFFICES ASSUME missed # {} PROVE FALSE
  OBVIOUS
<1>1. missed \subseteq Nat
  OBVIOUS
<1> HIDE DEF missed
<1>2. PICK x \in missed : \A y \in missed : x <= y
  BY <1>1, LeastNatural, Zenon
<1>3. x \in 0 .. n /\ x \notin S
  BY <1>2 DEF missed
<1>4. x - 1 \in 0 .. n - 1 /\ x - 1 \in 0 .. n
  BY <1>3
<1>5. x - 1 \in S
  BY <1>2, <1>3, <1>4 DEF missed
<1>6. x - 1 + 1 \in S
  BY <1>4, <1>5
<1> QED  BY <1>3, <1>6

(* A function defined from its value at the place before satisfies its own *)
(* equation, where its steps stay inside a set.                            *)
Stays(S, base, step, n) == base \in S /\ step \in [1 .. n -> [S -> S]]

LEMMA Recursion ==
    ASSUME NEW n \in Nat, NEW S, NEW base, NEW step, Stays(S, base, step, n)
    PROVE  \E f \in [0 .. n -> S] :
               f = [i \in 0 .. n |-> IF i = 0 THEN base ELSE step[i][f[i - 1]]]
<1> DEFINE Follows(f, m) == f[0] = base /\ \A i \in 1 .. m : f[i] = step[i][f[i - 1]]
           reach == {m \in 0 .. n : \E f \in [0 .. m -> S] : Follows(f, m)}
<1>0. base \in S /\ step \in [1 .. n -> [S -> S]]
  BY DEF Stays
<1>1. 0 \in reach
  <2> DEFINE f == [i \in 0 .. 0 |-> base]
  <2>1. f \in [0 .. 0 -> S] /\ f[0] = base
    BY <1>0
  <2>2. \A i \in 1 .. 0 : f[i] = step[i][f[i - 1]]
    OBVIOUS
  <2>3. 0 \in 0 .. n
    OBVIOUS
  <2> HIDE DEF f
  <2> QED  BY <2>1, <2>2, <2>3
<1>2. ASSUME NEW m \in 0 .. n - 1, m \in reach
      PROVE  m + 1 \in reach
  <2>1. PICK f \in [0 .. m -> S] : Follows(f, m)
    BY <1>2
  <2> DEFINE g == [i \in 0 .. m + 1 |-> IF i <= m THEN f[i] ELSE step[m + 1][f[m]]]
  <2>2. g \in [0 .. m + 1 -> S]
    <3>1. f[m] \in S /\ m + 1 \in 1 .. n
      BY <2>1
    <3>2. step[m + 1][f[m]] \in S
      BY <1>0, <3>1
    <3>3. \A i \in 0 .. m + 1 : i <= m => f[i] \in S
      BY <2>1
    <3> QED  BY <3>2, <3>3
  <2>3. g[0] = base
    BY <2>1
  <2>4. ASSUME NEW i \in 1 .. m + 1
        PROVE  g[i] = step[i][g[i - 1]]
    <3>1. i - 1 \in 0 .. m + 1 /\ i - 1 <= m /\ i \in 0 .. m + 1
      OBVIOUS
    <3>2. g[i - 1] = f[i - 1]
      BY <3>1
    <3>3. CASE i <= m
      <4>1. i \in 1 .. m
        BY <3>3
      <4>2. g[i] = f[i]
        BY <3>1, <3>3
      <4> QED  BY <2>1, <3>2, <4>1, <4>2
    <3>4. CASE i = m + 1
      BY <3>2, <3>4
    <3> QED  BY <3>3, <3>4
  <2>5. m + 1 \in 0 .. n
    OBVIOUS
  <2> HIDE DEF g
  <2> QED  BY <2>2, <2>3, <2>4, <2>5
<1> HIDE DEF reach
<1>3. 0 .. n \subseteq reach
  BY <1>1, <1>2, UpTo, Zenon
<1>4. n \in reach
  BY <1>3
<1>5. PICK f \in [0 .. n -> S] : Follows(f, n)
  BY <1>4 DEF reach
<1>6. f = [i \in 0 .. n |-> IF i = 0 THEN base ELSE step[i][f[i - 1]]]
  BY <1>5
<1> QED  BY <1>6

(* Two functions that start alike and step alike are one. *)
StepAlike(f, g, n) == f[0] = g[0] /\ \A i \in 1 .. n : f[i - 1] = g[i - 1] => f[i] = g[i]

LEMMA RecursionUnique ==
    ASSUME NEW n \in Nat, NEW f, NEW g, StepAlike(f, g, n)
    PROVE  \A i \in 0 .. n : f[i] = g[i]
<1> DEFINE alike == {i \in 0 .. n : f[i] = g[i]}
<1>1. 0 \in alike
  BY DEF StepAlike
<1>2. \A i \in 0 .. n - 1 : i \in alike => i + 1 \in alike
  <2> SUFFICES ASSUME NEW i \in 0 .. n - 1, f[i] = g[i] PROVE f[i + 1] = g[i + 1]
    OBVIOUS
  <2>1. i + 1 \in 1 .. n /\ i + 1 - 1 = i
    OBVIOUS
  <2> QED  BY <2>1 DEF StepAlike
<1> HIDE DEF alike
<1>3. 0 .. n \subseteq alike
  BY <1>1, <1>2, UpTo, Zenon
<1> QED  BY <1>3 DEF alike

(* So running sums are defined, and whole numbers. *)
LEMMA RunningSum ==
    ASSUME NEW n \in Nat, NEW gap \in [1 .. n -> Int]
    PROVE  \E f \in [0 .. n -> Int] :
               f = [i \in 0 .. n |-> IF i = 0 THEN 0 ELSE f[i - 1] + gap[i]]
<1> DEFINE step == [i \in 1 .. n |-> [x \in Int |-> x + gap[i]]]
<1>1. step \in [1 .. n -> [Int -> Int]]
  OBVIOUS
<1>2. \A i \in 1 .. n, x \in Int : step[i][x] = x + gap[i]
  OBVIOUS
<1> HIDE DEF step
<1>3. Stays(Int, 0, step, n)
  BY <1>1 DEF Stays
<1>4. PICK f \in [0 .. n -> Int] : f = [i \in 0 .. n |-> IF i = 0 THEN 0 ELSE step[i][f[i - 1]]]
  BY <1>3, Recursion
<1>5. ASSUME NEW i \in 1 .. n PROVE f[i] = f[i - 1] + gap[i]
  <2>1. i \in 0 .. n /\ i # 0 /\ i - 1 \in 0 .. n
    OBVIOUS
  <2>2. f[i] = step[i][f[i - 1]]
    BY <1>4, <2>1
  <2>3. f[i - 1] \in Int
    BY <2>1
  <2> QED  BY <1>2, <2>2, <2>3
<1>6. f[0] = 0
  BY <1>4
<1>7. \A i \in 0 .. n : f[i] = IF i = 0 THEN 0 ELSE f[i - 1] + gap[i]
  BY <1>5, <1>6
<1>8. f = [i \in 0 .. n |-> IF i = 0 THEN 0 ELSE f[i - 1] + gap[i]]
  BY <1>7
<1> QED  BY <1>8

LEMMA RunningSumIs ==
    ASSUME NEW n \in Nat, NEW gap \in [1 .. n -> Int],
           NEW sum, DOMAIN sum = 0 .. n, sum[0] = 0,
           \A i \in 1 .. n : sum[i] = sum[i - 1] + gap[i]
    PROVE  \A i \in 0 .. n : sum[i] \in Int
<1>1. PICK f \in [0 .. n -> Int] : f = [i \in 0 .. n |-> IF i = 0 THEN 0 ELSE f[i - 1] + gap[i]]
  BY RunningSum, Zenon
<1>2. f[0] = 0 /\ \A i \in 1 .. n : f[i] = f[i - 1] + gap[i]
  BY <1>1
<1>3. StepAlike(sum, f, n)
  BY <1>2 DEF StepAlike
<1>4. \A i \in 0 .. n : sum[i] = f[i]
  BY <1>3, RecursionUnique
<1> QED  BY <1>4

(* A set of integers bounded from below has a Min, and one bounded from    *)
(* above a Max.                                                            *)
LEMMA MinBounded ==
    ASSUME NEW T, T \subseteq Int, T # {}, NEW low \in Int, \A x \in T : low <= x
    PROVE  Min(T) \in T /\ \A x \in T : Min(T) <= x
<1> DEFINE above == {x - low : x \in T}
<1>1. above \subseteq Nat /\ above # {}
  <2>1. \A x \in T : x - low \in Nat
    OBVIOUS
  <2>2. PICK x \in T : TRUE
    OBVIOUS
  <2>3. x - low \in above
    OBVIOUS
  <2> QED  BY <2>1, <2>3
<1>2. \A x \in T : x - low \in above
  OBVIOUS
<1>3. \A d \in above : d + low \in T
  OBVIOUS
<1> HIDE DEF above
<1>4. PICK d \in above : \A e \in above : d <= e
  BY <1>1, LeastNatural, Zenon
<1>5. d + low \in T /\ \A x \in T : d + low <= x
  <2>1. ASSUME NEW x \in T PROVE d + low <= x
    <3>1. d <= x - low /\ d \in Nat /\ x \in Int
      BY <1>1, <1>2, <1>4
    <3> QED  BY <3>1
  <2> QED  BY <1>3, <2>1
<1>6. \E m \in T : \A x \in T : m <= x
  BY <1>5
<1> QED  BY <1>6 DEF Min

LEMMA MaxBounded ==
    ASSUME NEW T, T \subseteq Int, T # {}, NEW high \in Int, \A x \in T : x <= high
    PROVE  Max(T) \in T /\ \A x \in T : x <= Max(T)
<1> DEFINE below == {high - x : x \in T}
<1>1. below \subseteq Nat /\ below # {}
  <2>1. \A x \in T : high - x \in Nat
    OBVIOUS
  <2>2. PICK x \in T : TRUE
    OBVIOUS
  <2>3. high - x \in below
    OBVIOUS
  <2> QED  BY <2>1, <2>3
<1>2. \A x \in T : high - x \in below
  OBVIOUS
<1>3. \A d \in below : high - d \in T
  OBVIOUS
<1> HIDE DEF below
<1>4. PICK d \in below : \A e \in below : d <= e
  BY <1>1, LeastNatural, Zenon
<1>5. high - d \in T /\ \A x \in T : x <= high - d
  <2>1. ASSUME NEW x \in T PROVE x <= high - d
    <3>1. d <= high - x /\ d \in Nat /\ x \in Int
      BY <1>1, <1>2, <1>4
    <3> QED  BY <3>1
  <2> QED  BY <1>3, <2>1
<1>6. \E m \in T : \A x \in T : x <= m
  BY <1>5
<1> QED  BY <1>6 DEF Max

(* What is least, or greatest, in a set is its Min, or Max. *)
LEMMA MinIs ==
    ASSUME NEW T, T \subseteq Int, NEW m \in T, \A x \in T : m <= x
    PROVE  Min(T) = m
<1>1. Min(T) \in T /\ \A x \in T : Min(T) <= x
  BY DEF Min
<1>2. Min(T) <= m /\ m <= Min(T) /\ Min(T) \in Int /\ m \in Int
  BY <1>1
<1> QED  BY <1>2

LEMMA MaxIs ==
    ASSUME NEW T, T \subseteq Int, NEW m \in T, \A x \in T : x <= m
    PROVE  Max(T) = m
<1>1. Max(T) \in T /\ \A x \in T : x <= Max(T)
  BY DEF Max
<1>2. Max(T) <= m /\ m <= Max(T) /\ Max(T) \in Int /\ m \in Int
  BY <1>1
<1> QED  BY <1>2

(* The smaller of two numbers. *)
LEMMA MinOfTwo ==
    ASSUME NEW a \in Int, NEW b \in Int
    PROVE  Min({a, b}) = IF a <= b THEN a ELSE b
<1>1. {a, b} \subseteq Int
  OBVIOUS
<1>2. CASE a <= b
  <2>1. a \in {a, b} /\ \A x \in {a, b} : a <= x
    BY <1>2
  <2> QED  BY <1>1, <1>2, <2>1, MinIs
<1>3. CASE b < a
  <2>1. b \in {a, b} /\ \A x \in {a, b} : b <= x
    BY <1>3
  <2> QED  BY <1>1, <1>3, <2>1, MinIs
<1> QED  BY <1>2, <1>3

(* And the larger. *)
LEMMA MaxOfTwo ==
    ASSUME NEW a \in Int, NEW b \in Int
    PROVE  Max({a, b}) = IF a <= b THEN b ELSE a
<1>1. {a, b} \subseteq Int
  OBVIOUS
<1>2. CASE a <= b
  <2>1. b \in {a, b} /\ \A x \in {a, b} : x <= b
    BY <1>2
  <2> QED  BY <1>1, <1>2, <2>1, MaxIs
<1>3. CASE b < a
  <2>1. a \in {a, b} /\ \A x \in {a, b} : x <= a
    BY <1>3
  <2> QED  BY <1>1, <1>3, <2>1, MaxIs
<1> QED  BY <1>2, <1>3

(* A function on 1 .. n is a sequence of n. *)
LEMMA FunctionIsSeq ==
    ASSUME NEW S, NEW n \in Nat, NEW f \in [1 .. n -> S]
    PROVE  f \in Seq(S) /\ Len(f) = n
<1>1. f \in Seq(S)
  BY SeqDef
<1>2. DOMAIN f = 1 .. Len(f) /\ Len(f) \in Nat
  BY <1>1, LenProperties
<1>3. DOMAIN f = 1 .. n
  OBVIOUS
<1>4. Len(f) = n
  BY <1>2, <1>3
<1> QED  BY <1>1, <1>4

-----------------------------------------------------------------------------
(* Modular arithmetic. *)

(* A remainder is known by any quotient that leaves it. *)
LEMMA RemainderUnique ==
    ASSUME NEW a \in Int, NEW m \in Nat, m > 0, NEW q \in Int, NEW r \in 0 .. m - 1,
           a = q * m + r
    PROVE  a % m = r
  BY SMT

(* A multiple leaves no remainder. *)
LEMMA MultipleRemainder ==
    ASSUME NEW a \in Int, NEW m \in Nat, m > 0, NEW q \in Int, a = q * m
    PROVE  a % m = 0
  BY SMT

(* Dividing leaves a quotient and a remainder. *)
LEMMA Division ==
    ASSUME NEW a \in Int, NEW m \in Nat, m > 0
    PROVE  /\ a \div m \in Int
           /\ a % m \in 0 .. m - 1
           /\ a = (a \div m) * m + (a % m)
  BY SMT

(* Numbers a whole number of spaces apart leave the same remainder. *)
LEMMA RemainderShift ==
    ASSUME NEW b \in Int, NEW m \in Nat, m > 0, NEW q \in Int
    PROVE  (b + q * m) % m = b % m
<1> DEFINE r == b % m
           d == b \div m
           a == b + q * m
<1>1. d \in Int /\ r \in 0 .. m - 1 /\ b = d * m + r
  BY Division
<1> HIDE DEF r, d
<1>2. (d + q) \in Int /\ (d + q) * m = d * m + q * m
  BY <1>1
<1>3. d * m \in Int /\ q * m \in Int
  BY <1>1
<1>4. a \in Int /\ a = (d + q) * m + r
  BY <1>1, <1>2, <1>3
<1> HIDE DEF a
<1>5. a % m = r
  BY <1>1, <1>2, <1>4, RemainderUnique
<1> QED  BY <1>5 DEF r, a
=============================================================================
