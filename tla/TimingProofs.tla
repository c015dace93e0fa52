---------------------------- MODULE TimingProofs ----------------------------
(***************************************************************************)
(* The timing of ST 2110-21, for every format, frame rate, grid, capture   *)
(* and width of the integers: what the closed forms of timing.py compute   *)
(* is what the standard's two buckets do, one instant at a time.           *)
(***************************************************************************)
EXTENDS Timing, Foundations

-----------------------------------------------------------------------------
(* Whole quotients.                                                        *)
LEMMA TimesFacts ==
    ASSUME NEW q \in Int, NEW m \in Int
    PROVE  q * m \in Int /\ q * m = m * q /\ (q + 1) * m = q * m + m /\ (-q) * m = -(q * m)
  BY SMT

LEMMA TimesOrder ==
    ASSUME NEW p \in Int, NEW q \in Int, NEW m \in Nat, p <= q
    PROVE  p * m <= q * m
<1>1. q - p \in Nat
  OBVIOUS
<1>2. (q - p) * m \in Nat
  BY <1>1, SMT
<1>3. (q - p) * m = q * m - p * m
  BY SMT
<1> QED  BY <1>2, <1>3, TimesFacts

(* A quotient reaches q as soon as the dividend reaches q times over. *)
LEMMA DivReaches ==
    ASSUME NEW a \in Int, NEW m \in Nat, m > 0, NEW q \in Int
    PROVE  /\ q <= a \div m <=> q * m <= a
           /\ a \div m < q <=> a < q * m
<1> DEFINE d == a \div m
           r == a % m
           dm == d * m
           qm == q * m
<1>1. d \in Int /\ r \in 0 .. m - 1 /\ a = dm + r /\ dm \in Int /\ qm \in Int
  BY Division, TimesFacts
<1>2. q <= d => qm <= dm
  BY <1>1, TimesOrder
<1>3. d + 1 <= q => dm + m <= qm
  <2>1. d + 1 <= q => (d + 1) * m <= qm
    BY <1>1, TimesOrder
  <2>2. (d + 1) * m = dm + m
    BY <1>1, TimesFacts
  <2> QED  BY <2>1, <2>2
<1> HIDE DEF d, r, dm, qm
<1>4. (q <= d <=> qm <= a) /\ (d < q <=> a < qm)
  BY <1>1, <1>2, <1>3
<1> QED  BY <1>4 DEF d, qm

LEMMA DivIs ==
    ASSUME NEW a \in Int, NEW m \in Nat, m > 0, NEW q \in Int, q * m <= a, a < q * m + m
    PROVE  a \div m = q
<1>1. q <= a \div m /\ a \div m < q + 1
  BY DivReaches, TimesFacts
<1>2. a \div m \in Int
  BY Division
<1> QED  BY <1>1, <1>2

LEMMA DivShift ==
    ASSUME NEW b \in Int, NEW m \in Nat, m > 0, NEW q \in Int
    PROVE  (b + q * m) \div m = q + (b \div m)
<1> DEFINE d == b \div m
           a == b + q * m
           qm == q * m
           dm == d * m
<1>1. d \in Int /\ qm \in Int /\ dm \in Int /\ dm <= b /\ b < dm + m
  BY Division, TimesFacts
<1>2. (q + d) * m = qm + dm
  BY <1>1, SMT
<1>3. a \in Int /\ q + d \in Int /\ (q + d) * m <= a /\ a < (q + d) * m + m
  <2> HIDE DEF d, dm, qm
  <2>1. a = b + qm
    BY DEF qm
  <2> QED  BY <1>1, <1>2, <2>1
<1> HIDE DEF a, d
<1>4. a \div m = q + d
  BY <1>3, DivIs
<1> QED  BY <1>4 DEF a, d

LEMMA DivOrder ==
    ASSUME NEW a \in Int, NEW b \in Int, a <= b, NEW m \in Nat, m > 0
    PROVE  a \div m <= b \div m
<1> DEFINE q == a \div m
<1>1. q \in Int /\ q <= a \div m
  BY Division
<1> HIDE DEF q
<1>2. q * m <= a /\ q * m \in Int
  BY <1>1, DivReaches, TimesFacts
<1>3. q <= b \div m
  BY <1>1, <1>2, DivReaches
<1> QED  BY <1>3 DEF q

(* The same ratio has the same quotient. *)
LEMMA DivScaled ==
    ASSUME NEW a \in Int, NEW m \in Nat, m > 0, NEW k \in Nat, k > 0
    PROVE  (a * k) \div (m * k) = a \div m
<1> DEFINE q == a \div m
           qm == q * m
           b == a * k
           mk == m * k
<1>1. q \in Int /\ qm \in Int /\ qm <= a /\ a + 1 <= qm + m
  BY Division, TimesFacts
<1>2. b \in Int /\ mk \in Nat /\ mk > 0
  BY SMT
<1>3. qm * k <= b /\ (a + 1) * k <= (qm + m) * k
  BY <1>1, TimesOrder
<1>4. (a + 1) * k = b + k /\ (qm + m) * k = qm * k + mk /\ qm * k = q * mk
  BY <1>1, SMT
<1>5. q * mk \in Int
  BY <1>1, <1>2, TimesFacts
<1> HIDE DEF q, qm, b, mk
<1>6. q * mk <= b /\ b < q * mk + mk
  BY <1>1, <1>2, <1>3, <1>4, <1>5
<1>7. b \div mk = q
  BY <1>1, <1>2, <1>6, DivIs
<1> QED  BY <1>7 DEF b, mk, q

-----------------------------------------------------------------------------
(* Euclid's recursion, which Ratio and Multiple take lowest terms by.      *)
Divides(k, n) == \E q \in Nat : n = q * k

LEMMA DividesFacts ==
    ASSUME NEW k \in Nat, NEW n \in Nat
    PROVE  /\ Divides(k, k) /\ Divides(k, 0)
           /\ Divides(k, n) /\ n > 0 => k <= n /\ k > 0
<1>1. k = 1 * k /\ 0 = 0 * k
  OBVIOUS
<1>2. ASSUME NEW q \in Nat, n = q * k, n > 0 PROVE k <= n /\ k > 0
  <2>1. q # 0 /\ k # 0
    <3>1. 0 * k = 0 /\ q * 0 = 0
      OBVIOUS
    <3> QED  BY <1>2, <3>1
  <2>2. 1 * k <= q * k
    BY <2>1, TimesOrder
  <2> QED  BY <1>2, <2>1, <2>2
<1> QED  BY <1>1, <1>2 DEF Divides

(* What divides two numbers divides the first and its remainder. *)
LEMMA DividesRemainder ==
    ASSUME NEW k \in Nat, NEW n \in Nat, NEW d \in Nat, d > 0, Divides(k, d)
    PROVE  Divides(k, n) <=> Divides(k, n % d)
<1> DEFINE q == n \div d
           r == n % d
<1>1. q \in Nat /\ r \in Nat /\ n = q * d + r
  <2>1. q \in Int /\ r \in 0 .. d - 1 /\ n = q * d + r
    BY Division
  <2>2. 0 * d = 0 /\ 0 <= q
    BY DivReaches
  <2> HIDE DEF q, r
  <2> QED  BY <2>1, <2>2
<1> HIDE DEF q, r
<1>2. PICK p \in Nat : d = p * k
  BY DEF Divides
<1> DEFINE m == q * p
<1>3. m \in Nat /\ n = m * k + r
  <2>1. q * (p * k) = (q * p) * k
    BY <1>1, SMT
  <2>2. m \in Nat
    BY <1>1, SMT
  <2> QED  BY <1>1, <1>2, <2>1, <2>2
<1> HIDE DEF m
<1>4. ASSUME NEW s \in Nat, r = s * k PROVE Divides(k, n)
  <2>1. (m + s) * k = m * k + s * k
    BY <1>3, SMT
  <2>2. m + s \in Nat /\ n = (m + s) * k
    BY <1>3, <1>4, <2>1
  <2> QED  BY <2>2 DEF Divides
<1>5. ASSUME NEW s \in Nat, n = s * k PROVE Divides(k, r)
  <2>1. (s - m) * k = s * k - m * k
    BY <1>3, SMT
  <2>2. r = (s - m) * k
    BY <1>1, <1>3, <1>5, <2>1, TimesFacts
  <2>3. CASE s >= m
    BY <1>3, <2>2, <2>3 DEF Divides
  <2>4. CASE s < m
    <3>1. (s - m) * k <= 0 * k
      BY <1>3, <2>4, TimesOrder
    <3>2. r = 0 * k
      BY <1>1, <2>2, <3>1
    <3> QED  BY <3>2 DEF Divides
  <2> QED  BY <1>3, <2>3, <2>4
<1> QED  BY <1>4, <1>5 DEF Divides, r

(* The recursion has a solution: the greatest number dividing both. *)
Common(n, d) == {k \in 1 .. n + d : Divides(k, n) /\ Divides(k, d)}

GreatestCommon(n, d) == IF n = 0 /\ d = 0 THEN 0 ELSE Max(Common(n, d))

LEMMA GreatestCommonSteps ==
    ASSUME NEW n \in Nat, NEW d \in Nat
    PROVE  GreatestCommon(n, d) = IF d = 0 THEN n ELSE GreatestCommon(d, n % d)
<1>1. CASE d = 0 /\ n = 0
  BY <1>1 DEF GreatestCommon
<1>2. CASE d = 0 /\ n # 0
  <2>1. n \in Common(n, 0)
    BY <1>2, DividesFacts DEF Common
  <2>2. Common(n, 0) \subseteq Int /\ \A k \in Common(n, 0) : k <= n
    BY <1>2 DEF Common
  <2>3. Max(Common(n, 0)) = n
    BY <2>1, <2>2, MaxIs
  <2> QED  BY <1>2, <2>3 DEF GreatestCommon
<1>3. CASE d > 0
  <2> DEFINE r == n % d
  <2>1. r \in Nat
    BY <1>3, Division
  <2>2. \A k \in Nat : Divides(k, d) => k <= d /\ k > 0
    BY <1>3, DividesFacts
  <2>3. \A k \in Nat : Divides(k, d) => (Divides(k, n) <=> Divides(k, r))
    BY <1>3, DividesRemainder
  <2> HIDE DEF r
  <2>4. Common(n, d) = Common(d, r)
    BY <1>3, <2>1, <2>2, <2>3 DEF Common
  <2>5. GreatestCommon(n, d) = GreatestCommon(d, r)
    BY <1>3, <2>4 DEF GreatestCommon
  <2> QED  BY <1>3, <2>5 DEF r
<1> QED  BY <1>1, <1>2, <1>3

LEMMA DivisorSteps ==
    Divisor = [d \in Nat |-> [n \in Nat |-> IF d = 0 THEN n ELSE Divisor[n % d][d]]]
<1> DEFINE Solves(f) == f = [d \in Nat |-> [n \in Nat |-> IF d = 0 THEN n ELSE f[n % d][d]]]
           D == CHOOSE f : Solves(f)
           g == [d \in Nat |-> [n \in Nat |-> GreatestCommon(n, d)]]
<1>1. Divisor = D
  BY Zenon DEF Divisor
<1>2. Solves(g)
  <2>1. \A d \in Nat, n \in Nat : d # 0 => n % d \in Nat
    BY Division
  <2>2. \A d \in Nat, n \in Nat :
            d # 0 => g[n % d][d] = GreatestCommon(d, n % d)
    BY <2>1
  <2>3. \A d \in Nat, n \in Nat :
            GreatestCommon(n, d) = IF d = 0 THEN n ELSE GreatestCommon(d, n % d)
    BY GreatestCommonSteps
  <2>4. \A d \in Nat, n \in Nat : GreatestCommon(n, d) = IF d = 0 THEN n ELSE g[n % d][d]
    BY <2>2, <2>3, Zenon
  <2> QED  BY <2>4, Zenon
<1>3. Solves(D)
  BY <1>2, Zenon
<1>4. D = [d \in Nat |-> [n \in Nat |-> IF d = 0 THEN n ELSE D[n % d][d]]]
  BY <1>3, Zenon
<1> HIDE DEF D
<1> QED  BY <1>1, <1>4

(* It gives a divisor of both, and a positive one unless both are zero. *)
IsDivisor(g, n, d) ==
    /\ g \in Nat /\ Divides(g, n) /\ Divides(g, d)
    /\ n > 0 \/ d > 0 => g > 0

LEMMA DivisorDivides ==
    ASSUME NEW d \in Nat, NEW n \in Nat
    PROVE  IsDivisor(Divisor[d][n], n, d)
<1>1. \A e, m \in Nat : Divisor[e][m] = IF e = 0 THEN m ELSE Divisor[m % e][e]
  BY DivisorSteps, Zenon
<1> DEFINE S == {e \in Nat : \A c \in 0 .. e : \A m \in Nat : IsDivisor(Divisor[c][m], m, c)}
<1>2. 0 \in S
  <2> SUFFICES ASSUME NEW m \in Nat PROVE IsDivisor(Divisor[0][m], m, 0)
    OBVIOUS
  <2>1. Divisor[0][m] = m
    BY <1>1
  <2>2. IsDivisor(m, m, 0)
    BY DividesFacts DEF IsDivisor
  <2> QED  BY <2>1, <2>2
<1>3. \A e \in 0 .. d - 1 : e \in S => e + 1 \in S
  <2> SUFFICES ASSUME NEW e \in Nat, e \in S PROVE e + 1 \in S
    OBVIOUS
  <2> DEFINE c == e + 1
  <2>1. ASSUME NEW m \in Nat PROVE IsDivisor(Divisor[c][m], m, c)
    <3> DEFINE r == m % c
               g == Divisor[r][c]
    <3>1. c \in Nat /\ c > 0 /\ r \in 0 .. e
      BY Division
    <3>2. Divisor[c][m] = g
      <4>1. c \in Nat /\ c # 0
        BY <3>1
      <4> HIDE DEF c
      <4> QED  BY <1>1, <4>1, Zenon
    <3>3. IsDivisor(g, c, r)
      BY <3>1
    <3> HIDE DEF g
    <3>4. g \in Nat /\ g > 0 /\ Divides(g, c) /\ Divides(g, r)
      BY <3>1, <3>3 DEF IsDivisor
    <3>5. Divides(g, m)
      BY <3>1, <3>4, DividesRemainder
    <3> QED  BY <3>2, <3>4, <3>5 DEF IsDivisor
  <2>2. \A b \in 0 .. c : b = c \/ b \in 0 .. e
    OBVIOUS
  <2>3. \A b \in 0 .. c : \A m \in Nat : IsDivisor(Divisor[b][m], m, b)
    BY <2>1, <2>2
  <2> QED  BY <2>3
<1>4. 0 .. d \subseteq S
  <2> HIDE DEF S
  <2> QED  BY <1>2, <1>3, UpTo
<1> QED  BY <1>4

(* A ratio in lowest terms is the ratio, over a positive denominator. *)
LEMMA RatioIs ==
    ASSUME NEW n \in Int, NEW d \in Nat, d > 0
    PROVE  /\ Ratio(n, d).num \in Int /\ Ratio(n, d).den \in Nat /\ Ratio(n, d).den > 0
           /\ n > 0 => Ratio(n, d).num > 0
           /\ \E g \in Nat : g > 0 /\ n = Ratio(n, d).num * g /\ d = Ratio(n, d).den * g
<1> DEFINE m == Magnitude(n)
           g == Divisor[d][m]
<1>1. m \in Nat /\ (n = m \/ n = -m)
  BY DEF Magnitude
<1>2. IsDivisor(g, m, d)
  BY <1>1, DivisorDivides
<1>3. Ratio(n, d).num = n \div g /\ Ratio(n, d).den = d \div g
  BY DEF Ratio
<1> HIDE DEF g, m
<1>4. g \in Nat /\ g > 0
  BY <1>2 DEF IsDivisor
<1>5. PICK q \in Nat : d = q * g
  BY <1>2 DEF IsDivisor, Divides
<1>6. PICK p \in Nat : m = p * g
  BY <1>2 DEF IsDivisor, Divides
<1>7. PICK s \in Int : n = s * g
  <2>1. (-p) * g = -(p * g)
    BY <1>4, TimesFacts
  <2>2. p \in Int /\ -p \in Int
    OBVIOUS
  <2> QED  BY <1>1, <1>6, <2>1, <2>2
<1>8. n \div g = s /\ d \div g = q
  BY <1>4, <1>5, <1>7, DivIs, TimesFacts
<1>9. q > 0 /\ (n > 0 => s > 0)
  <2>1. q <= 0 => q * g <= 0 * g
    BY <1>4, TimesOrder
  <2>2. s <= 0 => s * g <= 0 * g
    BY <1>4, TimesOrder
  <2> QED  BY <1>4, <1>5, <1>7, <2>1, <2>2
<1> QED  BY <1>3, <1>4, <1>5, <1>7, <1>8, <1>9

(* A common multiple is one of each. *)
LEMMA MultipleIs ==
    ASSUME NEW a \in Nat, a > 0, NEW b \in Nat, b > 0
    PROVE  /\ Multiple(a, b) \in Nat /\ Multiple(a, b) > 0
           /\ \E p \in Nat : p > 0 /\ Multiple(a, b) = p * a
           /\ \E q \in Nat : q > 0 /\ Multiple(a, b) = q * b
<1> DEFINE g == Divisor[b][a]
<1>1. IsDivisor(g, a, b)
  BY DivisorDivides
<1>2. Multiple(a, b) = (a \div g) * b
  BY DEF Multiple
<1> HIDE DEF g
<1>3. g \in Nat /\ g > 0
  BY <1>1 DEF IsDivisor
<1>4. PICK p \in Nat : a = p * g
  BY <1>1 DEF IsDivisor, Divides
<1>5. PICK q \in Nat : b = q * g
  BY <1>1 DEF IsDivisor, Divides
<1>6. a \div g = p
  BY <1>3, <1>4, DivIs, TimesFacts
<1>7. p > 0 /\ q > 0
  <2>1. p <= 0 => p * g <= 0 * g
    BY <1>3, TimesOrder
  <2>2. q <= 0 => q * g <= 0 * g
    BY <1>3, TimesOrder
  <2> QED  BY <1>3, <1>4, <1>5, <2>1, <2>2
<1>8. p * b = q * a
  <2>1. p * (q * g) = q * (p * g)
    BY <1>3, SMT
  <2> QED  BY <1>4, <1>5, <2>1
<1>9. 1 * b <= p * b
  BY <1>7, TimesOrder
<1>10. p * b \in Nat /\ p * b > 0
  BY <1>9, TimesFacts
<1> QED  BY <1>2, <1>6, <1>7, <1>8, <1>10

-----------------------------------------------------------------------------
(* The setting.                                                            *)
SettingOK ==
    /\ video \in Videos /\ edition \in {"2017", "2022"} /\ slip \in Slips
    /\ origin \in {"epoch", "first"}
    /\ start \in [frame : StartFrames, packet : {0, video.packets - 1}]

LEMMA ConstantFacts ==
    /\ Nano \in Nat /\ Nano > 0 /\ TFrame \in Nat /\ TFrame > 0
    /\ Clock.num \in Nat /\ Clock.num > 0 /\ Clock.den \in Nat /\ Clock.den > 0
    /\ TimestampModulus \in Nat /\ TimestampModulus > 0 /\ IntLimit \in Nat /\ IntLimit > 0
    /\ Slips \subseteq Int /\ Jitters \subseteq Int /\ StartFrames \subseteq Nat
    /\ TFrame % 2 = 0
  BY TimingAssumption DEF FieldsPerFrame

LEMMA SettingFacts ==
    ASSUME SettingOK
    PROVE  /\ video.packets \in Nat /\ video.packets > 0
           /\ video.height \in Nat /\ video.height > 0
           /\ video.rate \in Nat /\ video.rate > 0 /\ video.max_udp \in Nat /\ video.max_udp > 0
           /\ slip \in Int /\ start.frame \in Nat /\ start.packet \in 0 .. video.packets - 1
           /\ TOffset(video) \in 0 .. TFrame - 1
<1>1. video \in Videos /\ slip \in Slips /\ start \in [frame : StartFrames, packet : {0, video.packets - 1}]
  BY DEF SettingOK
<1>2. {video.height, video.packets, video.rate, video.max_udp} \subseteq Nat \ {0}
      /\ TOffset(video) \in 0 .. TFrame - 1
  BY <1>1, TimingAssumption
<1>3. start.frame \in StartFrames /\ start.packet \in {0, video.packets - 1}
  BY <1>1
<1>4. slip \in Int
  BY <1>1, ConstantFacts
<1>5. start.frame \in Nat
  BY <1>3, ConstantFacts
<1>6. /\ video.packets \in Nat /\ video.packets > 0
      /\ video.height \in Nat /\ video.height > 0
      /\ video.rate \in Nat /\ video.rate > 0 /\ video.max_udp \in Nat /\ video.max_udp > 0
  BY <1>2
<1>7. start.packet \in 0 .. video.packets - 1
  BY <1>3, <1>6
<1> QED  BY <1>2, <1>4, <1>5, <1>6, <1>7

(* The packets of a schedule drain the frame they are read over. *)
LEMMA DrainFacts ==
    ASSUME SettingOK
    PROVE  DrainsPer \in Nat /\ DrainsPer > 0 /\ DrainParts \in Nat /\ DrainParts > 0
<1> DEFINE n == video.packets * 11 * Nano
           d == TFrame * 10
<1>1. n \in Nat /\ n > 0 /\ d \in Nat /\ d > 0
  <2>1. video.packets * 11 \in Nat /\ 1 <= video.packets * 11 /\ d \in Nat /\ d > 0
    BY SettingFacts, ConstantFacts
  <2>2. 1 * Nano <= n
    BY <2>1, ConstantFacts, TimesOrder
  <2>3. n \in Int
    BY <2>1, ConstantFacts, TimesFacts
  <2> QED  BY <2>1, <2>2, <2>3, ConstantFacts
<1> HIDE DEF n, d
<1>2. Ratio(n, d).num \in Int /\ Ratio(n, d).num > 0 /\ Ratio(n, d).den \in Nat /\ Ratio(n, d).den > 0
  BY <1>1, RatioIs
<1>3. DrainsPer = Ratio(n, d).num /\ DrainParts = Ratio(n, d).den
  BY Zenon DEF DrainsPer, DrainParts, DrainRate, n, d
<1> QED  BY <1>2, <1>3

-----------------------------------------------------------------------------
(* The drain grid: the instants of it up to x, and the walk above it.      *)
Index(x) == (x * DrainsPer) \div DrainParts

Anchor(at) == IF origin = "epoch" THEN 0 ELSE at[1]

Walk(at, i) == i - Index(at[i] - Anchor(at))

Ordered(at) == \A i, j \in 1 .. Len(at) : i <= j => at[i] <= at[j]

LEMMA IndexFacts ==
    ASSUME SettingOK, NEW x \in Int, NEW y \in Int
    PROVE  Index(x) \in Int /\ (x <= y => Index(x) <= Index(y))
<1>1. x * DrainsPer \in Int /\ y * DrainsPer \in Int
      /\ (x <= y => x * DrainsPer <= y * DrainsPer)
  BY DrainFacts, TimesFacts, TimesOrder
<1> DEFINE a == x * DrainsPer
           b == y * DrainsPer
<1> HIDE DEF a, b
<1>2. a \in Int /\ b \in Int /\ (x <= y => a <= b)
  BY <1>1 DEF a, b
<1>3. a \div DrainParts \in Int /\ (a <= b => a \div DrainParts <= b \div DrainParts)
  BY <1>2, DrainFacts, Division, DivOrder
<1> QED  BY <1>2, <1>3 DEF Index, a, b

(* Splitting the phase off changes nothing. *)
LEMMA FloorDivideIs ==
    ASSUME SettingOK, NEW delta \in Int, NEW base \in Int
    PROVE  FloorDivide(delta, base) = Index(base + delta)
<1> DEFINE phase == base * DrainsPer
           part == phase % DrainParts
           whole == phase \div DrainParts
           more == delta * DrainsPer
           all == (base + delta) * DrainsPer
<1>1. phase \in Int /\ more \in Int /\ all = phase + more
  BY DrainFacts, SMT
<1> HIDE DEF phase, more, all
<1>2. whole \in Int /\ part \in Int /\ phase = whole * DrainParts + part /\ whole * DrainParts \in Int
  <2>1. DrainParts \in Nat /\ DrainParts > 0
    BY DrainFacts
  <2>2. whole \in Int /\ part \in 0 .. DrainParts - 1 /\ phase = whole * DrainParts + part
    BY <1>1, <2>1, Division
  <2> HIDE DEF part, whole
  <2>3. whole * DrainParts \in Int
    BY <2>1, <2>2, TimesFacts
  <2> QED  BY <2>1, <2>2, <2>3
<1> HIDE DEF part, whole
<1>3. (more + part) + whole * DrainParts = all
  BY <1>1, <1>2
<1>4. ((more + part) + whole * DrainParts) \div DrainParts = whole + ((more + part) \div DrainParts)
  <2> DEFINE b == more + part
  <2>1. b \in Int
    BY <1>1, <1>2
  <2> HIDE DEF b
  <2>2. (b + whole * DrainParts) \div DrainParts = whole + (b \div DrainParts)
    BY <1>2, <2>1, DrainFacts, DivShift
  <2> QED  BY <2>2 DEF b
<1>5. FloorDivide(delta, base) = whole + ((more + part) \div DrainParts)
  BY Zenon DEF FloorDivide, whole, more, part, phase
<1> QED  BY <1>3, <1>4, <1>5 DEF Index, all

LEMMA WalkFacts ==
    ASSUME SettingOK, NEW at \in Seq(Int), NEW i \in 1 .. Len(at)
    PROVE  Anchor(at) \in Int /\ at[i] - Anchor(at) \in Int /\ Walk(at, i) \in Int
<1>1. at[i] \in Int /\ at[1] \in Int
  BY ElementOfSeq
<1>2. Anchor(at) \in Int
  BY <1>1 DEF Anchor
<1>3. at[i] - Anchor(at) \in Int
  BY <1>1, <1>2
<1>4. Index(at[i] - Anchor(at)) \in Int
  BY <1>3, IndexFacts
<1> QED  BY <1>2, <1>3, <1>4 DEF Walk

(* c_inst's level is how far the walk stands above its lowest so far. *)
LEMMA CInstIs ==
    ASSUME SettingOK, NEW at \in Seq(Int)
    PROVE  CInst(at) = [i \in 1 .. Len(at) |->
                            1 + Walk(at, i) - Min({Walk(at, k) : k \in 1 .. i})]
<1> DEFINE walk == [i \in DOMAIN at |->
                       i - FloorDivide(at[i] - at[1], IF origin = "epoch" THEN at[1] ELSE 0)]
<1>1. CInst(at) = [i \in DOMAIN at |-> 1 + walk[i] - Min({walk[k] : k \in 1 .. i})]
  BY Zenon DEF CInst
<1>2. DOMAIN at = 1 .. Len(at) /\ Len(at) \in Nat
  OBVIOUS
<1>3. ASSUME NEW i \in 1 .. Len(at) PROVE walk[i] = Walk(at, i)
  <2>1. at[i] \in Int /\ at[1] \in Int
    BY <1>2, ElementOfSeq
  <2> DEFINE base == IF origin = "epoch" THEN at[1] ELSE 0
             delta == at[i] - at[1]
  <2>2. base \in Int /\ delta \in Int /\ base + delta = at[i] - Anchor(at)
    BY <2>1 DEF Anchor
  <2>3. walk[i] = i - FloorDivide(delta, base)
    BY <1>2
  <2> HIDE DEF base, delta, walk
  <2>4. FloorDivide(delta, base) = Index(base + delta)
    BY <2>2, FloorDivideIs
  <2> QED  BY <2>2, <2>3, <2>4 DEF Walk
<1> HIDE DEF walk
<1>4. \A i \in 1 .. Len(at) : {walk[k] : k \in 1 .. i} = {Walk(at, k) : k \in 1 .. i}
  <2> SUFFICES ASSUME NEW i \in 1 .. Len(at)
               PROVE  {walk[k] : k \in 1 .. i} = {Walk(at, k) : k \in 1 .. i}
    OBVIOUS
  <2>1. \A k \in 1 .. i : walk[k] = Walk(at, k)
    BY <1>2, <1>3
  <2> QED  BY <2>1
<1> QED  BY <1>1, <1>2, <1>3, <1>4

(* In emission order the walk has a lowest point. *)
LEMMA LowestIs ==
    ASSUME SettingOK, NEW at \in Seq(Int), Ordered(at), NEW i \in 1 .. Len(at)
    PROVE  LET points == {Walk(at, k) : k \in 1 .. i}
           IN  Min(points) \in points /\ \A k \in 1 .. i : Min(points) <= Walk(at, k)
<1> DEFINE points == {Walk(at, k) : k \in 1 .. i}
           low == 1 - Index(at[i] - Anchor(at))
<1>1. Len(at) \in Nat
  OBVIOUS
<1>2. low \in Int
  <2>1. at[i] - Anchor(at) \in Int
    BY WalkFacts
  <2>2. Index(at[i] - Anchor(at)) \in Int
    BY <2>1, IndexFacts
  <2> QED  BY <2>2
<1>3. \A k \in 1 .. i : k \in 1 .. Len(at) /\ Walk(at, k) \in Int
  BY <1>1, WalkFacts
<1>4. ASSUME NEW k \in 1 .. i PROVE low <= Walk(at, k)
  <2>1. at[k] - Anchor(at) \in Int /\ at[i] - Anchor(at) \in Int /\ at[k] <= at[i]
    BY <1>3, WalkFacts DEF Ordered
  <2>2. at[k] - Anchor(at) <= at[i] - Anchor(at)
    BY <1>3, <2>1, WalkFacts, ElementOfSeq
  <2>3. /\ Index(at[k] - Anchor(at)) \in Int /\ Index(at[i] - Anchor(at)) \in Int
        /\ Index(at[k] - Anchor(at)) <= Index(at[i] - Anchor(at))
    BY <2>1, <2>2, IndexFacts
  <2> QED  BY <2>3 DEF Walk
<1>5. points \subseteq Int /\ points # {}
  <2>1. Walk(at, i) \in points
    OBVIOUS
  <2> QED  BY <1>3, <2>1
<1> HIDE DEF low
<1>6. \A x \in points : low <= x
  BY <1>4
<1>7. Min(points) \in points /\ \A x \in points : Min(points) <= x
  <2> HIDE DEF points
  <2> QED  BY <1>2, <1>5, <1>6, MinBounded
<1> QED  BY <1>7, Zenon

(* The instants of the grid between two times are those up to the later    *)
(* and not up to the earlier.                                              *)
LEMMA DrainsIs ==
    ASSUME SettingOK, times \in Seq(Int), times # << >>,
           NEW after \in Int, NEW upTo \in Int, after <= upTo
    PROVE  Drains(after, upTo) = Index(upTo - Anchor(times)) - Index(after - Anchor(times))
<1> DEFINE a == after - Anchor(times)
           u == upTo - Anchor(times)
           low == (a \div DrainParts) * DrainsPer
           high == (u \div DrainParts + 1) * DrainsPer
           ap == a * DrainsPer
           up == u * DrainsPer
           ia == Index(a)
           iu == Index(u)
           passed == {k \in low .. high : ap < k * DrainParts /\ k * DrainParts <= up}
<1>1. Anchor(times) \in Int
  <2>1. Len(times) \in Nat /\ Len(times) > 0
    OBVIOUS
  <2>2. 1 \in 1 .. Len(times)
    BY <2>1
  <2> QED  BY <2>2, WalkFacts
<1>2. a \in Int /\ u \in Int /\ a <= u
  BY <1>1
<1>3. Drains(after, upTo) = Cardinality(passed)
  BY Zenon DEF Drains, passed, low, high, ap, up, a, u, Anchor
<1> HIDE DEF a, u
<1>4. ap \in Int /\ up \in Int
  BY <1>2, DrainFacts, TimesFacts
<1>5. ia = ap \div DrainParts /\ iu = up \div DrainParts
  BY Zenon DEF Index, ap, up, ia, iu
<1>6. ia \in Int /\ iu \in Int /\ ia <= iu
  BY <1>2, IndexFacts
<1>7. low \in Int /\ low <= ia
  <2> DEFINE d == a \div DrainParts
  <2>1. d \in Int /\ d * DrainParts <= a
    BY <1>2, DrainFacts, Division, DivReaches
  <2> HIDE DEF d
  <2>2. low = d * DrainsPer /\ low \in Int
    BY <2>1, DrainFacts, TimesFacts DEF d
  <2>3. d * DrainParts \in Int /\ (d * DrainParts) * DrainsPer <= ap
    BY <1>2, <2>1, DrainFacts, TimesOrder, TimesFacts
  <2>4. (d * DrainParts) * DrainsPer = (d * DrainsPer) * DrainParts
    BY <2>1, DrainFacts, SMT
  <2>5. low * DrainParts <= ap
    BY <2>2, <2>3, <2>4
  <2> HIDE DEF low, ap
  <2>6. low <= ap \div DrainParts
    BY <1>4, <2>2, <2>5, DrainFacts, DivReaches
  <2> QED  BY <1>5, <2>2, <2>6
<1>8. high \in Int /\ iu <= high
  <2> DEFINE d == u \div DrainParts + 1
  <2>1. d \in Int /\ u < d * DrainParts
    <3>1. u \div DrainParts \in Int
      BY <1>2, DrainFacts, Division
    <3>2. d \in Int /\ u \div DrainParts < d
      BY <3>1
    <3> HIDE DEF d
    <3> QED  BY <1>2, <3>2, DrainFacts, DivReaches
  <2> HIDE DEF d
  <2>2. high = d * DrainsPer /\ high \in Int
    BY <2>1, DrainFacts, TimesFacts DEF d
  <2>3. d * DrainParts \in Int /\ up <= (d * DrainParts) * DrainsPer
    BY <1>2, <2>1, DrainFacts, TimesOrder, TimesFacts
  <2>4. (d * DrainParts) * DrainsPer = (d * DrainsPer) * DrainParts
    BY <2>1, DrainFacts, SMT
  <2>5. up <= high * DrainParts /\ high * DrainParts \in Int
    BY <2>2, <2>3, <2>4, DrainFacts, TimesFacts
  <2> HIDE DEF high, up
  <2>6. up < (high + 1) * DrainParts
    BY <1>4, <2>2, <2>5, DrainFacts, TimesFacts
  <2>7. up \div DrainParts < high + 1
    BY <1>4, <2>2, <2>6, DrainFacts, DivReaches
  <2> QED  BY <1>5, <1>6, <2>2, <2>7
<1>9. \A k \in Int : /\ ap < k * DrainParts <=> ia < k
                     /\ k * DrainParts <= up <=> k <= iu
  BY <1>4, <1>5, DrainFacts, DivReaches
<1> HIDE DEF ap, up, ia, iu, low, high
<1>10. passed = (ia + 1) .. iu
  <2>1. \A k \in Int : k \in passed <=> ia + 1 <= k /\ k <= iu
    BY <1>6, <1>7, <1>8, <1>9
  <2>2. passed \subseteq Int /\ (ia + 1) .. iu \subseteq Int
    BY <1>6, <1>7, <1>8
  <2>3. \A k \in Int : k \in (ia + 1) .. iu <=> ia + 1 <= k /\ k <= iu
    BY <1>6
  <2> HIDE DEF passed
  <2> QED  BY <2>1, <2>2, <2>3
<1>11. Cardinality((ia + 1) .. iu) = iu - ia
  <2> DEFINE b == ia + 1
  <2>1. b \in Int
    BY <1>6
  <2> HIDE DEF b
  <2>2. Cardinality(b .. iu) = IF b > iu THEN 0 ELSE iu - b + 1
    BY <1>6, <2>1, FS_Interval
  <2>3. b > iu => iu - ia = 0
    BY <1>6 DEF b
  <2>4. (iu - b) + 1 = iu - ia
    BY <1>6 DEF b
  <2> QED  BY <2>1, <2>2, <2>3, <2>4, <1>6 DEF b
<1>12. Drains(after, upTo) = iu - ia
  <2> HIDE DEF passed
  <2> QED  BY <1>3, <1>10, <1>11
<1> QED  BY <1>12 DEF iu, ia, a, u

LEMMA CInstIsSeq ==
    ASSUME SettingOK, NEW at \in Seq(Int), Ordered(at)
    PROVE  CInst(at) \in Seq(Int) /\ Len(CInst(at)) = Len(at)
<1> DEFINE n == Len(at)
           lowest(i) == Min({Walk(at, k) : k \in 1 .. i})
           c == CInst(at)
<1>1. n \in Nat
  OBVIOUS
<1>2. \A i \in 1 .. n : lowest(i) \in Int /\ Walk(at, i) \in Int
  <2> SUFFICES ASSUME NEW i \in 1 .. n PROVE lowest(i) \in Int /\ Walk(at, i) \in Int
    OBVIOUS
  <2>1. \A k \in 1 .. i : Walk(at, k) \in Int
    BY <1>1, WalkFacts
  <2>2. lowest(i) \in {Walk(at, k) : k \in 1 .. i}
    BY LowestIs
  <2> HIDE DEF lowest
  <2> QED  BY <2>1, <2>2
<1>3. c = [i \in 1 .. n |-> 1 + Walk(at, i) - lowest(i)]
  BY CInstIs
<1> HIDE DEF lowest, c, n
<1>4. c \in [1 .. n -> Int]
  BY <1>2, <1>3
<1> QED  BY <1>1, <1>4, FunctionIsSeq DEF c, n

(* One more packet: the walk's lowest point is kept or is the new one.     *)
LEMMA LowestGrows ==
    ASSUME SettingOK, NEW at \in Seq(Int), Ordered(at), NEW n \in Nat, n > 0, Len(at) = n + 1
    PROVE  LET low == Min({Walk(at, k) : k \in 1 .. n})
           IN  /\ low \in Int
               /\ Min({Walk(at, k) : k \in 1 .. n + 1}) =
                      IF low <= Walk(at, n + 1) THEN low ELSE Walk(at, n + 1)
<1> DEFINE low == Min({Walk(at, k) : k \in 1 .. n})
           w == Walk(at, n + 1)
           points == {Walk(at, k) : k \in 1 .. n + 1}
           m == IF low <= w THEN low ELSE w
<1>1. \A k \in 1 .. n + 1 : Walk(at, k) \in Int
  BY WalkFacts
<1>2. low \in {Walk(at, k) : k \in 1 .. n} /\ \A k \in 1 .. n : low <= Walk(at, k)
  <2>1. n \in 1 .. Len(at)
    OBVIOUS
  <2> QED  BY <2>1, LowestIs
<1> HIDE DEF low
<1>3. PICK h \in 1 .. n : low = Walk(at, h)
  BY <1>2
<1>4. h \in 1 .. n + 1 /\ n + 1 \in 1 .. n + 1 /\ low \in Int /\ w \in Int
  BY <1>1, <1>3
<1>5. m \in points
  BY <1>3, <1>4
<1>6. \A k \in 1 .. n + 1 : m <= Walk(at, k)
  <2> SUFFICES ASSUME NEW k \in 1 .. n + 1 PROVE m <= Walk(at, k)
    OBVIOUS
  <2>1. CASE k = n + 1
    BY <1>4, <2>1
  <2>2. CASE k \in 1 .. n
    BY <1>1, <1>2, <1>4, <2>2
  <2> QED  BY <2>1, <2>2
<1>7. points \subseteq Int /\ \A x \in points : m <= x
  BY <1>1, <1>6
<1> HIDE DEF m, points
<1>8. Min(points) = m
  BY <1>5, <1>7, MinIs
<1> QED  BY <1>4, <1>8 DEF low, points, m, w

LEMMA AppendOrdered ==
    ASSUME NEW at \in Seq(Int), Ordered(at), NEW t \in Int, \A i \in 1 .. Len(at) : at[i] <= t
    PROVE  Ordered(Append(at, t)) /\ Append(at, t) \in Seq(Int) /\ Len(Append(at, t)) = Len(at) + 1
<1> DEFINE b == Append(at, t)
           n == Len(at)
<1>1. /\ b \in Seq(Int) /\ Len(b) = n + 1 /\ n \in Nat
      /\ \A i \in 1 .. n : b[i] = at[i]
      /\ b[n + 1] = t
  BY AppendProperties
<1>2. \A i \in 1 .. n : at[i] \in Int
  BY ElementOfSeq
<1>3. ASSUME NEW i \in 1 .. n + 1, NEW j \in 1 .. n + 1, i <= j PROVE b[i] <= b[j]
  <2> HIDE DEF b
  <2>1. CASE j = n + 1
    BY <1>1, <1>2, <2>1
  <2>2. CASE j \in 1 .. n
    <3>1. i \in 1 .. n
      BY <1>1, <1>3, <2>2
    <3>2. at[i] <= at[j]
      BY <1>3, <2>2, <3>1 DEF Ordered
    <3> QED  BY <1>1, <2>2, <3>1, <3>2
  <2> QED  BY <1>1, <2>1, <2>2
<1> QED  BY <1>1, <1>3 DEF Ordered

(* c_inst over one more packet is the network's bucket, drained since the  *)
(* packet before and never below empty, and the packet put in.             *)
LEMMA CInstGrows ==
    ASSUME SettingOK, times \in Seq(Int), Ordered(times), NEW t \in Int,
           \A i \in 1 .. Len(times) : times[i] <= t, NEW c, c = CInst(times),
           NEW entered,
           entered = (IF times = << >> THEN 0
                      ELSE Max({0, c[Len(times)] - Drains(times[Len(times)], t)})) + 1
    PROVE  CInst(Append(times, t)) = Append(c, entered)
<1> DEFINE n == Len(times)
           at == Append(times, t)
           d == CInst(at)
           low == Min({Walk(at, k) : k \in 1 .. n})
<1>1. /\ n \in Nat /\ (times = << >> <=> n = 0)
      /\ at \in Seq(Int) /\ Len(at) = n + 1 /\ Ordered(at)
      /\ \A i \in 1 .. n : at[i] = times[i]
      /\ at[n + 1] = t
  BY AppendOrdered, AppendProperties, EmptySeq
<1> HIDE DEF at
<1>2. \A k \in 1 .. n : Walk(at, k) = Walk(times, k)
  <2> SUFFICES ASSUME NEW k \in 1 .. n PROVE Walk(at, k) = Walk(times, k)
    OBVIOUS
  <2>1. 1 \in 1 .. n
    BY <1>1
  <2>2. at[k] = times[k] /\ at[1] = times[1]
    BY <1>1, <2>1
  <2> QED  BY <2>2 DEF Walk, Anchor
<1>3. \A i \in 1 .. n : {Walk(at, k) : k \in 1 .. i} = {Walk(times, k) : k \in 1 .. i}
  <2> SUFFICES ASSUME NEW i \in 1 .. n
               PROVE  {Walk(at, k) : k \in 1 .. i} = {Walk(times, k) : k \in 1 .. i}
    OBVIOUS
  <2>1. \A k \in 1 .. i : Walk(at, k) = Walk(times, k)
    BY <1>1, <1>2
  <2> QED  BY <2>1
<1>4. c \in Seq(Int) /\ Len(c) = n
  BY CInstIsSeq
<1>5. d \in Seq(Int) /\ Len(d) = n + 1
  BY <1>1, CInstIsSeq
<1>6. \A i \in 1 .. n : c[i] = 1 + Walk(times, i) - Min({Walk(times, k) : k \in 1 .. i})
  BY CInstIs, Zenon
<1>7. \A i \in 1 .. n + 1 : d[i] = 1 + Walk(at, i) - Min({Walk(at, k) : k \in 1 .. i})
  BY <1>1, CInstIs, Zenon
<1> HIDE DEF d, n, low
<1>8. ASSUME NEW i \in 1 .. n PROVE d[i] = c[i]
  <2>1. i \in 1 .. n + 1
    BY <1>1
  <2> QED  BY <1>2, <1>3, <1>6, <1>7, <2>1, Zenon
<1>9. d[n + 1] = entered /\ entered \in Int
  <2>0. n + 1 \in 1 .. n + 1 /\ Walk(at, n + 1) \in Int
    BY <1>1, WalkFacts
  <2>1. d[n + 1] \in Int
    BY <1>5, <2>0, ElementOfSeq
  <2>2. CASE n = 0
    <3>1. {Walk(at, k) : k \in 1 .. n + 1} = {Walk(at, n + 1)}
      <4>1. 1 .. n + 1 = {n + 1}
        BY <2>2
      <4> QED  BY <4>1
    <3>2. Min({Walk(at, n + 1)}) = Walk(at, n + 1)
      <4> DEFINE w == Walk(at, n + 1)
      <4>1. {w} \subseteq Int /\ w \in {w} /\ \A x \in {w} : w <= x
        BY <2>0
      <4> HIDE DEF w
      <4>2. Min({w}) = w
        BY <4>1, MinIs
      <4> QED  BY <4>2 DEF w
    <3>3. d[n + 1] = 1 + Walk(at, n + 1) - Walk(at, n + 1)
      BY <1>7, <2>0, <3>1, <3>2
    <3>4. entered = 1
      BY <1>1, <2>2
    <3> QED  BY <2>0, <2>1, <3>3, <3>4
  <2>3. CASE n > 0
    <3> DEFINE w == Walk(at, n + 1)
               v == Walk(at, n)
               drains == Drains(times[n], t)
               m == Min({Walk(at, k) : k \in 1 .. n + 1})
    <3>1. low \in Int /\ m = IF low <= w THEN low ELSE w
      BY <1>1, <2>3, LowestGrows DEF low
    <3>2. n \in 1 .. n /\ n \in 1 .. Len(at) /\ v \in Int
      BY <1>1, <2>3, WalkFacts
    <3>3. c[n] = 1 + v - low
      <4>1. Walk(times, n) = v
        BY <1>2, <3>2
      <4>2. Min({Walk(times, k) : k \in 1 .. n}) = low
        BY <1>3, <3>2, Zenon DEF low
      <4> QED  BY <1>6, <3>2, <4>1, <4>2
    <3>4. d[n + 1] = 1 + w - m
      BY <1>7, <2>0
    <3>5. drains \in Int /\ w = (v + 1) - drains
      <4>1. times[n] \in Int /\ times[n] <= t /\ times # << >>
        BY <1>1, <2>3, <3>2, ElementOfSeq DEF n
      <4>2. drains = Index(t - Anchor(times)) - Index(times[n] - Anchor(times))
        BY <4>1, DrainsIs
      <4>3. Anchor(at) = Anchor(times) /\ Anchor(times) \in Int
        <5>1. 1 \in 1 .. n
          BY <3>2
        <5> QED  BY <1>1, <5>1, WalkFacts DEF Anchor, n
      <4>4. v = n - Index(times[n] - Anchor(times))
        BY <1>1, <3>2, <4>3 DEF Walk
      <4>5. w = (n + 1) - Index(t - Anchor(times))
        BY <1>1, <4>3 DEF Walk
      <4> DEFINE x == Index(t - Anchor(times))
                 y == Index(times[n] - Anchor(times))
      <4>6. x \in Int /\ y \in Int
        <5>1. t - Anchor(times) \in Int /\ times[n] - Anchor(times) \in Int
          BY <4>1, <4>3
        <5> QED  BY <5>1, IndexFacts
      <4>7. drains = x - y /\ v = n - y /\ w = (n + 1) - x
        BY <4>2, <4>4, <4>5
      <4> HIDE DEF x, y, drains, v, w
      <4> QED  BY <1>1, <4>6, <4>7
    <3>6. entered = Max({0, c[n] - drains}) + 1
      BY <1>1, <2>3 DEF n
    <3> HIDE DEF w, v, drains, m
    <3>7. c[n] \in Int /\ c[n] - drains \in Int
      BY <3>1, <3>2, <3>3, <3>5
    <3> DEFINE left == c[n] - drains
    <3>8. Max({0, left}) = IF 0 <= left THEN left ELSE 0
      <4>1. left \in Int
        BY <3>7
      <4> HIDE DEF left
      <4> QED  BY <4>1, MaxOfTwo
    <3>9. left = (w - low)
      BY <3>1, <3>2, <3>3, <3>5
    <3> HIDE DEF left
    <3>10. w \in Int
      BY <2>0 DEF w
    <3>11. entered = (IF 0 <= left THEN left ELSE 0) + 1
      BY <3>6, <3>8 DEF left
    <3> QED  BY <3>1, <3>4, <3>9, <3>10, <3>11
  <2> QED  BY <1>1, <2>2, <2>3
<1>10. Append(c, entered) \in Seq(Int) /\ Len(Append(c, entered)) = n + 1
       /\ (\A i \in 1 .. n : Append(c, entered)[i] = c[i]) /\ Append(c, entered)[n + 1] = entered
  BY <1>4, <1>9, AppendProperties
<1>11. \A i \in 1 .. n + 1 : d[i] = Append(c, entered)[i]
  <2> SUFFICES ASSUME NEW i \in 1 .. n + 1 PROVE d[i] = Append(c, entered)[i]
    OBVIOUS
  <2>1. CASE i \in 1 .. n
    BY <1>8, <1>10, <2>1, Zenon
  <2>2. CASE i = n + 1
    <3> DEFINE e == Append(c, entered)
    <3>1. d[n + 1] = entered /\ e[n + 1] = entered
      BY <1>9, <1>10
    <3> HIDE DEF e
    <3>2. d[n + 1] = e[n + 1]
      BY <3>1
    <3>3. d[i] = e[i]
      BY ONLY <2>2, <3>2
    <3> QED  BY <3>3 DEF e
  <2>3. i \in 1 .. n \/ i = n + 1
    BY <1>1
  <2> QED  BY <2>1, <2>2, <2>3, Zenon
<1>12. d = Append(c, entered)
  BY <1>5, <1>10, <1>11, SeqEqual
<1> QED  BY <1>12 DEF d, at

-----------------------------------------------------------------------------
(* The read schedule.                                                      *)
LEMMA SystemFacts ==
    ASSUME NEW height \in Nat, height <= 1080
    PROVE  /\ System(height).lines \in Nat /\ System(height).lines > 0
           /\ height <= System(height).lines
<1> DEFINE tall == {i \in DOMAIN InterlacedSystems : height <= InterlacedSystems[i].top}
<1>1. /\ DOMAIN InterlacedSystems = 1 .. 3
      /\ InterlacedSystems[1].top = 487 /\ InterlacedSystems[1].lines = 525
      /\ InterlacedSystems[2].top = 576 /\ InterlacedSystems[2].lines = 625
      /\ InterlacedSystems[3].top = 1080 /\ InterlacedSystems[3].lines = 1125
  BY DEF InterlacedSystems
<1>2. tall \subseteq Int /\ \A x \in tall : x \in 1 .. 3 /\ height <= InterlacedSystems[x].top
  BY <1>1
<1>3. System(height) = InterlacedSystems[Min(tall)]
  BY Zenon DEF System
<1>4. CASE height <= 487
  <2>1. 1 \in tall /\ \A x \in tall : 1 <= x
    BY <1>1, <1>2, <1>4
  <2> HIDE DEF tall
  <2>2. Min(tall) = 1
    BY <1>2, <2>1, MinIs
  <2> QED  BY <1>1, <1>3, <1>4, <2>2
<1>5. CASE height > 487 /\ height <= 576
  <2>1. 2 \in tall /\ \A x \in tall : 2 <= x
    BY <1>1, <1>2, <1>5
  <2> HIDE DEF tall
  <2>2. Min(tall) = 2
    BY <1>2, <2>1, MinIs
  <2> QED  BY <1>1, <1>3, <1>5, <2>2
<1>6. CASE height > 576
  <2>1. 3 \in tall /\ \A x \in tall : 3 <= x
    BY <1>1, <1>2, <1>6
  <2> HIDE DEF tall
  <2>2. Min(tall) = 3
    BY <1>2, <2>1, MinIs
  <2> QED  BY <1>1, <1>3, <1>6, <2>2
<1> QED  BY <1>4, <1>5, <1>6

LEMMA RatioFacts ==
    ASSUME SettingOK
    PROVE  /\ ActiveRatio(video).num \in Nat /\ ActiveRatio(video).num > 0
           /\ ActiveRatio(video).den \in Nat /\ ActiveRatio(video).num <= ActiveRatio(video).den
<1>1. video.interlaced \in BOOLEAN /\ (video.interlaced => video.height <= 1080)
  BY TimingAssumption DEF SettingOK
<1>2. CASE video.interlaced
  <2>1. video.height \in Nat /\ video.height > 0 /\ video.height <= 1080
    BY <1>1, <1>2, SettingFacts
  <2>2. /\ ActiveRatio(video).num = video.height
        /\ ActiveRatio(video).den = System(video.height).lines
    BY <1>2 DEF ActiveRatio
  <2> QED  BY <2>1, <2>2, SystemFacts
<1>3. CASE ~video.interlaced
  <2>1. ActiveRatio(video).num = 1080 /\ ActiveRatio(video).den = 1125
    BY <1>3 DEF ActiveRatio
  <2> QED  BY <2>1
<1> QED  BY <1>1, <1>2, <1>3

LEMMA ActiveFacts ==
    ASSUME SettingOK
    PROVE  Active(video) \in Nat /\ Active(video) > 0 /\ Active(video) <= TFrame
<1> DEFINE num == ActiveRatio(video).num
           den == ActiveRatio(video).den
           a == TFrame * num
           q == a \div den
<1>1. num \in Nat /\ num > 0 /\ den \in Nat /\ den > 0 /\ num <= den
  BY RatioFacts
<1>2. a % den = 0
  BY TimingAssumption DEF SettingOK
<1>3. Active(video) = q
  BY Zenon DEF Active
<1> HIDE DEF num, den, q
<1>4. 1 * num <= a /\ num * TFrame <= den * TFrame /\ a \in Int
  BY <1>1, ConstantFacts, TimesOrder, TimesFacts
<1>5. a > 0 /\ a <= TFrame * den
  BY <1>1, <1>4, ConstantFacts, TimesFacts
<1>6. (TFrame + 1) * den = TFrame * den + den /\ TFrame * den \in Int
  BY <1>1, ConstantFacts, TimesFacts
<1> HIDE DEF a
<1>7. q \in Int /\ a = q * den + 0
  BY <1>1, <1>2, <1>4, Division DEF q
<1>8. q > 0
  <2>1. q <= 0 => q * den <= 0 * den
    BY <1>1, <1>7, TimesOrder
  <2> QED  BY <1>1, <1>5, <1>7, <2>1
<1>9. q < TFrame + 1
  <2>1. a < (TFrame + 1) * den
    BY <1>1, <1>4, <1>5, <1>6
  <2> QED  BY <1>1, <1>4, <2>1, ConstantFacts, DivReaches DEF q
<1> QED  BY <1>3, <1>7, <1>8, <1>9, ConstantFacts

(* A frame's packets are read within the frame, a gapped one's an even     *)
(* number of parts apart.                                                  *)
LEMMA ReadFacts ==
    ASSUME SettingOK
    PROVE  /\ TRead(video) \in Nat /\ TRead(video) > 0
           /\ video.packets * TRead(video) <= TFrame
           /\ Gapped(video) => \E k \in Nat : TRead(video) = 2 * k
<1> DEFINE n == video.packets
           whole == IF Gapped(video) THEN Active(video) ELSE TFrame
           t == whole \div n
<1>1. n \in Nat /\ n > 0
  BY SettingFacts
<1>2. whole \in Nat /\ whole > 0 /\ whole <= TFrame
  BY ActiveFacts, ConstantFacts
<1>3. TRead(video) = t
  BY Zenon DEF TRead
<1>4. ASSUME NEW k \in Int, whole = k * n PROVE t = k /\ k > 0
  <2> HIDE DEF whole
  <2>1. k * n <= whole /\ whole < k * n + n
    BY <1>1, <1>2, <1>4
  <2>2. t = k
    <3> HIDE DEF n
    <3>1. k * n \in Int
      BY <1>1, TimesFacts
    <3>2. whole \div n = k
      BY <1>1, <1>2, <2>1, <3>1, DivIs
    <3> QED  BY <3>2
  <2>3. k <= 0 => k * n <= 0 * n
    BY <1>1, TimesOrder
  <2> QED  BY <1>1, <1>2, <1>4, <2>2, <2>3
<1>5. CASE Gapped(video)
  <2>1. whole % (2 * n) = 0
    BY <1>5, TimingAssumption DEF SettingOK, FieldsPerFrame
  <2> DEFINE m == 2 * n
             k == whole \div m
  <2>2. m \in Nat /\ m > 0
    BY <1>1
  <2> HIDE DEF m, whole
  <2>3. k \in Int /\ whole = k * m + 0
    BY <1>2, <2>1, <2>2, Division DEF m
  <2> HIDE DEF k
  <2>4. whole = (2 * k) * n /\ 2 * k \in Int
    <3>1. k * (2 * n) = (2 * k) * n
      BY <1>1, <2>3, SMT
    <3> QED  BY <2>2, <2>3, <3>1 DEF m
  <2>5. t = 2 * k /\ 2 * k > 0
    BY <1>4, <2>4
  <2>6. k \in Nat
    BY <2>3, <2>5
  <2>7. n * (2 * k) = whole
    BY <1>1, <2>4, TimesFacts
  <2> QED  BY <1>2, <1>3, <2>5, <2>6, <2>7
<1>6. CASE ~Gapped(video)
  <2>1. whole % n = 0
    BY <1>6, TimingAssumption DEF SettingOK
  <2> HIDE DEF whole
  <2>2. t \in Int /\ whole = t * n + 0
    BY <1>1, <1>2, <2>1, Division
  <2> HIDE DEF t
  <2>3. t > 0 /\ n * t = whole
    <3>1. t * n \in Int /\ t * n = n * t /\ whole = t * n
      BY <1>1, <2>2, TimesFacts
    <3> QED  BY <1>4, <2>2, <3>1 DEF t
  <2> QED  BY <1>2, <1>3, <1>6, <2>2, <2>3
<1> QED  BY <1>5, <1>6

(* The runs of reads: one, or a run for each field.                        *)
Fielded == Gapped(video) /\ video.interlaced

First == IF Fielded THEN (video.packets + 1) \div 2 ELSE video.packets

Second ==
    TFrame \div 2 + ((2 * First - video.packets) * TRead(video)) \div 2
        + (IF edition = "2022" THEN (TFrame \div System(video.height).lines) \div 2 ELSE 0)

LEMMA SegmentsAre ==
    ASSUME SettingOK
    PROVE  Segments = IF Fielded
                      THEN <<[offset |-> 0, first |-> 0, count |-> First],
                             [offset |-> Second, first |-> First, count |-> video.packets - First]>>
                      ELSE <<[offset |-> 0, first |-> 0, count |-> First]>>
  BY DEF Segments, Second, First, Fielded, FieldsPerFrame

(* The second field's reads come after the first's. *)
LEMMA SegmentFacts ==
    ASSUME SettingOK
    PROVE  /\ First \in 1 .. video.packets
           /\ Fielded => Second \in Nat /\ First * TRead(video) <= Second
<1> DEFINE n == video.packets
           t == TRead(video)
           half == ((2 * First - n) * t) \div 2
           line == (TFrame \div System(video.height).lines) \div 2
<1>1. n \in Nat /\ n > 0 /\ t \in Nat /\ t > 0 /\ n * t <= TFrame
  BY SettingFacts, ReadFacts
<1>2. First \in 1 .. n /\ (Fielded => 2 * First >= n)
  <2> HIDE DEF n
  <2>1. (n + 1) \div 2 \in 1 .. n /\ 2 * ((n + 1) \div 2) >= n
    BY <1>1
  <2>2. First = IF Fielded THEN (n + 1) \div 2 ELSE n
    BY DEF First, n
  <2> QED  BY <1>1, <2>1, <2>2
<1>3. ASSUME Fielded PROVE Second \in Nat /\ First * t <= Second
  <2>1. Gapped(video) /\ video.interlaced
    BY <1>3 DEF Fielded
  <2>2. PICK k \in Nat : t = 2 * k
    BY <2>1, ReadFacts
  <2>3. line \in Nat
    <3> DEFINE lines == System(video.height).lines
               q == TFrame \div lines
    <3>1. lines \in Nat /\ lines > 0
      <4>1. video.height \in Nat /\ video.height <= 1080
        BY <2>1, SettingFacts, TimingAssumption DEF SettingOK
      <4> QED  BY <4>1, SystemFacts
    <3> HIDE DEF lines
    <3>2. q \in Int /\ 0 <= q
      <4>1. 0 * lines = 0
        BY <3>1
      <4> QED  BY <3>1, <4>1, ConstantFacts, Division, DivReaches
    <3> HIDE DEF q
    <3>3. q \div 2 \in Nat
      BY <3>2
    <3> QED  BY <3>3 DEF q, lines
  <2> DEFINE over == 2 * First - n
             ok == over * k
             nk == n * k
             fk == First * k
  <2>4. over \in Nat /\ ok \in Nat /\ nk \in Nat /\ fk \in Nat
    <3>1. over \in Nat
      BY <1>1, <1>2, <1>3
    <3> HIDE DEF over
    <3>2. over * k \in Nat /\ n * k \in Nat /\ First * k \in Nat
      BY <1>1, <1>2, <3>1, SMT
    <3> QED  BY <3>1, <3>2
  <2>5. over * t = 2 * ok /\ First * t = 2 * fk /\ n * t = 2 * nk /\ ok = 2 * fk - nk
    <3>1. over * (2 * k) = 2 * (over * k) /\ First * (2 * k) = 2 * (First * k)
          /\ n * (2 * k) = 2 * (n * k)
      BY <1>1, <1>2, <2>4, SMT
    <3>2. (2 * First - n) * k = 2 * (First * k) - n * k
      BY <1>1, <1>2, SMT
    <3> QED  BY <2>2, <3>1, <3>2
  <2> HIDE DEF ok, nk, fk
  <2>6. half = ok
    <3>1. half = (over * t) \div 2
      OBVIOUS
    <3>2. (2 * ok) \div 2 = ok
      BY <2>4
    <3> HIDE DEF half, over
    <3> QED  BY <2>5, <3>1, <3>2
  <2>7. TFrame \div 2 \in Nat /\ nk <= TFrame \div 2
    <3>1. 2 * nk <= TFrame
      BY <1>1, <2>5
    <3> QED  BY <2>4, <3>1, ConstantFacts
  <2>8. Second = TFrame \div 2 + half + (IF edition = "2022" THEN line ELSE 0)
    BY Zenon DEF Second, half, line, n, t
  <2> HIDE DEF half, line
  <2>9. Second \in Nat /\ 2 * fk <= Second
    BY <2>3, <2>4, <2>5, <2>6, <2>7, <2>8
  <2> QED  BY <2>5, <2>9
<1> QED  BY <1>2, <1>3

(* When packet j is read, past its frame's datum. *)
ReadAt(j) ==
    IF j < First THEN j * TRead(video) ELSE Second + (j - First) * TRead(video)

LEMMA ReadAtFacts ==
    ASSUME SettingOK, NEW i \in 0 .. video.packets - 1
    PROVE  /\ ReadAt(i) \in Nat /\ (i >= First => Fielded)
           /\ \A j \in i .. video.packets - 1 : ReadAt(i) <= ReadAt(j)
<1> DEFINE n == video.packets
           t == TRead(video)
<1>1. n \in Nat /\ n > 0 /\ t \in Nat /\ t > 0
  BY SettingFacts, ReadFacts
<1>2. First \in 1 .. n /\ (Fielded => Second \in Nat /\ First * t <= Second) /\ (~Fielded => First = n)
  BY SegmentFacts DEF First
<1> HIDE DEF n, t
<1>3. ASSUME NEW j \in 0 .. n - 1, j >= First
      PROVE  Fielded /\ ReadAt(j) = Second + (j - First) * t /\ (j - First) * t \in Nat
  <2>1. Fielded
    BY <1>1, <1>2, <1>3
  <2>2. j - First \in Nat
    BY <1>1, <1>2, <1>3
  <2>3. (j - First) * t \in Nat
    BY <1>1, <2>2, SMT
  <2>4. ReadAt(j) = Second + (j - First) * t
    BY <1>1, <1>2, <1>3 DEF ReadAt, t
  <2> QED  BY <2>1, <2>3, <2>4
<1>4. ASSUME NEW j \in 0 .. n - 1, j < First PROVE ReadAt(j) = j * t /\ j * t \in Nat
  <2>1. j * t \in Nat
    BY <1>1, SMT
  <2> QED  BY <1>4, <2>1 DEF ReadAt, t
<1>5. i \in 0 .. n - 1
  BY DEF n
<1>6. ReadAt(i) \in Nat /\ (i >= First => Fielded)
  <2>1. CASE i >= First
    <3>1. Fielded /\ ReadAt(i) = Second + (i - First) * t /\ (i - First) * t \in Nat
      BY <1>3, <1>5, <2>1
    <3> DEFINE x == (i - First) * t
    <3> HIDE DEF x
    <3>2. ReadAt(i) = Second + x /\ x \in Nat
      BY <3>1 DEF x
    <3> QED  BY <1>2, <3>1, <3>2
  <2>2. CASE i < First
    <3>1. ReadAt(i) = i * t /\ i * t \in Nat
      BY <1>4, <1>5, <2>2
    <3> QED  BY <1>2, <2>2, <3>1
  <2> QED  BY <1>2, <1>5, <2>1, <2>2
<1>7. ASSUME NEW j \in i .. n - 1 PROVE ReadAt(i) <= ReadAt(j)
  <2>1. j \in 0 .. n - 1 /\ i <= j /\ i \in Int /\ j \in Int
    BY <1>1, <1>5
  <2>2. CASE j < First
    <3>1. ReadAt(i) = i * t /\ ReadAt(j) = j * t
      BY <1>2, <1>4, <1>5, <2>1, <2>2
    <3>2. i * t <= j * t
      BY <1>1, <2>1, TimesOrder
    <3> QED  BY <3>1, <3>2
  <2>3. CASE i >= First
    <3>1. ReadAt(i) = Second + (i - First) * t /\ ReadAt(j) = Second + (j - First) * t
          /\ (i - First) * t \in Nat /\ (j - First) * t \in Nat /\ Fielded
      BY <1>2, <1>3, <1>5, <2>1, <2>3
    <3>2. (i - First) * t <= (j - First) * t
      <4>1. i - First \in Int /\ j - First \in Int /\ i - First <= j - First
        BY <1>2, <2>1
      <4> QED  BY <1>1, <4>1, TimesOrder
    <3> DEFINE x == (i - First) * t
               y == (j - First) * t
    <3> HIDE DEF x, y
    <3>3. ReadAt(i) = Second + x /\ ReadAt(j) = Second + y /\ x \in Nat /\ y \in Nat /\ x <= y
      BY <3>1, <3>2 DEF x, y
    <3> QED  BY <1>2, <3>1, <3>3
  <2>4. CASE i < First /\ j >= First
    <3>1. ReadAt(i) = i * t /\ i * t \in Nat
      BY <1>4, <1>5, <2>4
    <3>2. ReadAt(j) = Second + (j - First) * t /\ (j - First) * t \in Nat /\ Fielded
      BY <1>3, <2>1, <2>4
    <3>3. i * t <= First * t
      BY <1>1, <1>2, <2>1, <2>4, TimesOrder
    <3> DEFINE x == i * t
               y == (j - First) * t
               z == First * t
    <3>4. z \in Int
      BY <1>1, <1>2, TimesFacts
    <3> HIDE DEF x, y, z
    <3>5. ReadAt(i) = x /\ ReadAt(j) = Second + y /\ x \in Nat /\ y \in Nat /\ x <= z
      BY <3>1, <3>2, <3>3 DEF x, y, z
    <3>6. Second \in Nat /\ z <= Second
      BY <1>2, <3>2 DEF z
    <3> QED  BY <3>4, <3>5, <3>6
  <2> QED  BY <1>2, <2>1, <2>2, <2>3, <2>4
<1> QED  BY <1>6, <1>7 DEF n

LEMMA ReadTimeIs ==
    ASSUME SettingOK, NEW datum \in Int, NEW j \in 0 .. video.packets - 1
    PROVE  ReadTime(datum, j) = (datum + ReadAt(j)) \div Nano /\ ReadTime(datum, j) \in Int
<1> DEFINE n == video.packets
           t == TRead(video)
           one == [offset |-> 0, first |-> 0, count |-> First]
           two == [offset |-> Second, first |-> First, count |-> n - First]
           runs == {Segments[i] : i \in DOMAIN Segments}
           Holds(s) == s.first <= j /\ j < s.first + s.count
           segment == CHOOSE s \in runs : Holds(s)
<1>1. n \in Nat /\ n > 0 /\ t \in Nat /\ First \in 1 .. n /\ (~Fielded => First = n)
      /\ (Fielded => Second \in Nat)
  BY SettingFacts, ReadFacts, SegmentFacts DEF First
<1>2. one \in runs /\ (Fielded => two \in runs) /\ \A s \in runs : s = one \/ (Fielded /\ s = two)
  <2>1. CASE Fielded
    <3>1. Segments = <<one, two>>
      BY <2>1, SegmentsAre
    <3> HIDE DEF one, two
    <3>2. DOMAIN Segments = {1, 2} /\ Segments[1] = one /\ Segments[2] = two
      BY <3>1
    <3> QED  BY <2>1, <3>2
  <2>2. CASE ~Fielded
    <3>1. Segments = <<one>>
      BY <2>2, SegmentsAre
    <3> HIDE DEF one, two
    <3>2. DOMAIN Segments = {1} /\ Segments[1] = one
      BY <3>1
    <3> QED  BY <2>2, <3>2
  <2> QED  BY <2>1, <2>2
<1>3. ReadTime(datum, j) = (datum + segment.offset + (j - segment.first) * t) \div Nano
  BY Zenon DEF ReadTime, segment, runs, Holds, t
<1>4. /\ one.offset = 0 /\ one.first = 0 /\ one.count = First
      /\ two.offset = Second /\ two.first = First /\ two.count = n - First
  OBVIOUS
<1>5. (Holds(one) <=> j < First) /\ (Holds(two) <=> j >= First)
  <2> HIDE DEF one, two
  <2>1. First \in Int /\ j \in Int /\ 0 <= j /\ j < n
    BY <1>1
  <2> QED  BY <1>1, <1>4, <2>1
<1> HIDE DEF one, two, runs, Holds, n, t
<1>6. datum + segment.offset + (j - segment.first) * t = datum + ReadAt(j)
  <2>1. CASE j < First
    <3>1. Holds(one) /\ \A s \in runs : Holds(s) => s = one
      BY <1>1, <1>2, <1>5, <2>1
    <3>2. segment = one
      BY <1>2, <3>1
    <3>3. (j - 0) * t = j * t
      BY <1>1
    <3>4. ReadAt(j) = j * t
      BY <2>1 DEF ReadAt, t
    <3> HIDE DEF segment
    <3>5. j * t \in Int
      BY <1>1, TimesFacts
    <3> QED  BY <1>4, <3>2, <3>3, <3>4, <3>5
  <2>2. CASE j >= First
    <3>1. Fielded
      BY <2>2, ReadAtFacts
    <3>2. Holds(two) /\ \A s \in runs : Holds(s) => s = two
      BY <1>1, <1>2, <1>5, <2>2
    <3>3. segment = two
      BY <1>2, <3>1, <3>2
    <3>4. ReadAt(j) = Second + (j - First) * t
      BY <1>1, <2>2 DEF ReadAt, t
    <3> HIDE DEF segment
    <3>5. (j - First) * t \in Int
      <4>1. j - First \in Int
        BY <1>1
      <4> QED  BY <1>1, <4>1, TimesFacts
    <3> QED  BY <1>1, <1>4, <3>1, <3>3, <3>4, <3>5
  <2> QED  BY <1>1, <2>1, <2>2
<1>7. datum + ReadAt(j) \in Int
  BY ReadAtFacts
<1>8. (datum + ReadAt(j)) \div Nano \in Int
  <2> DEFINE x == datum + ReadAt(j)
  <2>1. x \in Int
    BY <1>7
  <2> HIDE DEF x
  <2>2. x \div Nano \in Int
    BY <2>1, ConstantFacts, Division
  <2> QED  BY <2>2 DEF x
<1> HIDE DEF segment
<1> QED  BY <1>3, <1>6, <1>8

-----------------------------------------------------------------------------
(* Frames and the packets of them.                                         *)
LEMMA FrameFacts ==
    ASSUME SettingOK, NEW i \in Nat, i > 0
    PROVE  /\ Frame(i) \in Nat /\ Packet(i) \in 0 .. video.packets - 1
           /\ start.packet + i - 1 = (Frame(i) - start.frame) * video.packets + Packet(i)
           /\ Frame(i) >= start.frame
<1> DEFINE n == video.packets
           x == start.packet + i - 1
           q == x \div n
<1>1. n \in Nat /\ n > 0 /\ x \in Nat /\ start.frame \in Nat
  BY SettingFacts
<1>2. Frame(i) = start.frame + q /\ Packet(i) = x % n
  BY Zenon DEF Frame, Packet, x, q, n
<1> HIDE DEF x, n
<1>3. q \in Int /\ x % n \in 0 .. n - 1 /\ x = q * n + (x % n) /\ 0 <= q
  <2>1. 0 * n = 0
    BY <1>1
  <2> QED  BY <1>1, <2>1, Division, DivReaches
<1> HIDE DEF q
<1>4. Frame(i) - start.frame = q
  BY <1>1, <1>2, <1>3
<1> QED  BY <1>1, <1>2, <1>3, <1>4 DEF x, n

LEMMA FrameIs ==
    ASSUME SettingOK, NEW i \in Nat, i > 0, NEW q \in Int, NEW r \in 0 .. video.packets - 1,
           start.packet + i - 1 = q * video.packets + r
    PROVE  Frame(i) = start.frame + q /\ Packet(i) = r
<1> DEFINE n == video.packets
           x == start.packet + i - 1
<1>1. n \in Nat /\ n > 0 /\ x \in Int
  BY SettingFacts
<1>2. q * n \in Int
  BY <1>1, TimesFacts
<1>3. x = q * n + r /\ r \in 0 .. n - 1
  OBVIOUS
<1>4. Frame(i) = start.frame + (x \div n) /\ Packet(i) = x % n
  BY Zenon DEF Frame, Packet, x, n
<1> HIDE DEF x, n
<1>5. x % n = r
  BY <1>1, <1>3, RemainderUnique
<1>6. x \div n = q
  BY <1>1, <1>2, <1>3, DivIs
<1> QED  BY <1>4, <1>5, <1>6

LEMMA DatumFacts ==
    ASSUME SettingOK, NEW f \in Int
    PROVE  Datum(f) \in Int /\ Datum(f) = f * TFrame + TOffset(video)
<1>1. f * TFrame \in Int /\ TOffset(video) \in Int
  BY SettingFacts, ConstantFacts, TimesFacts
<1> QED  BY <1>1 DEF Datum

-----------------------------------------------------------------------------
(* The inductive invariant.  Instants never go back, c_inst is the levels  *)
(* the network's bucket had, and a frame opens within half a frame of its  *)
(* slot.                                                                   *)
InSlot(t, i) == Packet(i) = 0 => 2 * Magnitude(t * Nano - Datum(Frame(i) + slip)) < TFrame

IInv ==
    /\ SettingOK
    /\ times \in Seq(Int) /\ Ordered(times)
    /\ levels = CInst(times)
    /\ level = IF times = << >> THEN 0 ELSE levels[Len(times)]
    /\ \A i \in 1 .. Len(times) : InSlot(times[i], i)

LEMMA CInstStays ==
    ASSUME UNCHANGED setting
    PROVE  CInst(times)' = CInst(times')
<1>1. video' = video /\ origin' = origin
  BY DEF setting
<1>2. DrainRate' = DrainRate
  BY <1>1 DEF DrainRate
<1>3. DrainsPer' = DrainsPer /\ DrainParts' = DrainParts
  BY <1>2 DEF DrainsPer, DrainParts
<1>4. \A d, b : FloorDivide(d, b)' = FloorDivide(d, b)
  BY <1>3 DEF FloorDivide
<1> QED  BY <1>1, <1>3, Zenon DEF CInst, FloorDivide

LEMMA SlotStays ==
    ASSUME UNCHANGED setting
    PROVE  /\ \A i : InSlot(times[i], i)' <=> InSlot(times'[i], i)
           /\ SettingOK => SettingOK'
<1>1. video' = video /\ edition' = edition /\ slip' = slip /\ origin' = origin /\ start' = start
  BY DEF setting
<1>2. SettingOK => SettingOK'
  BY <1>1 DEF SettingOK
<1>3. \A i : Packet(i)' = Packet(i) /\ Frame(i)' = Frame(i)
  BY <1>1 DEF Packet, Frame
<1>4. TOffset(video)' = TOffset(video)
  BY <1>1 DEF TOffset, DefaultOffset, System
<1>5. ASSUME NEW i PROVE InSlot(times[i], i)' <=> InSlot(times'[i], i)
  BY <1>1, <1>3, <1>4, Zenon DEF InSlot, Datum, Magnitude
<1> QED  BY <1>2, <1>5

LEMMA InitHolds == Init => IInv
<1> SUFFICES ASSUME Init PROVE IInv
  OBVIOUS
<1>1. SettingOK /\ times = << >> /\ levels = << >> /\ level = 0
  BY DEF Init, SettingOK
<1>2. times \in Seq(Int) /\ Len(times) = 0 /\ Ordered(times)
  BY <1>1 DEF Ordered
<1>3. CInst(times) \in Seq(Int) /\ Len(CInst(times)) = 0
  BY <1>1, <1>2, CInstIsSeq
<1>4. CInst(times) = << >>
  BY <1>3, EmptySeq
<1> QED  BY <1>1, <1>2, <1>4 DEF IInv

(* The packet emitted next: when, and how full the bucket it enters.       *)
LEMMA EmitFacts ==
    ASSUME IInv, NEW jitter \in Jitters, Emit(jitter)
    PROVE  \E t \in Int : \E entered :
               /\ times' = Append(times, t) /\ \A i \in 1 .. Len(times) : times[i] <= t
               /\ InSlot(t, Len(times) + 1)
               /\ entered = (IF times = << >> THEN 0
                             ELSE Max({0, levels[Len(times)] - Drains(times[Len(times)], t)})) + 1
               /\ level' = entered /\ levels' = Append(levels, entered)
               /\ UNCHANGED setting
<1> DEFINE n == Len(times)
           i == n + 1
           due == ReadTime(Datum(Frame(i) + slip), Packet(i)) + jitter
           t == IF i = 1 THEN due ELSE Max({Last, due})
           entered == (IF times = << >> THEN 0
                       ELSE Max({0, levels[Len(times)] - Drains(times[Len(times)], t)})) + 1
<1>1. SettingOK /\ times \in Seq(Int) /\ Ordered(times) /\ n \in Nat /\ (times = << >> <=> n = 0)
      /\ level = IF times = << >> THEN 0 ELSE levels[n]
  BY EmptySeq DEF IInv
<1>2. due \in Int
  <2> HIDE DEF i
  <2>0. i \in Nat /\ i > 0
    BY <1>1 DEF i
  <2>1. Frame(i) \in Nat /\ Packet(i) \in 0 .. video.packets - 1 /\ slip \in Int
    BY <1>1, <2>0, FrameFacts, SettingFacts
  <2>2. Frame(i) + slip \in Int
    BY <2>1
  <2>3. Datum(Frame(i) + slip) \in Int
    BY <1>1, <2>2, DatumFacts
  <2>4. ReadTime(Datum(Frame(i) + slip), Packet(i)) \in Int
    BY <1>1, <2>1, <2>3, ReadTimeIs
  <2> QED  BY <2>4, ConstantFacts
<1>3. /\ times' = Append(times, t)
      /\ Packet(i) = 0 => 2 * Magnitude(t * Nano - Datum(Frame(i) + slip)) < TFrame
      /\ level' = (IF i = 1 THEN 0 ELSE Max({0, level - Drains(Last, t)})) + 1
      /\ levels' = Append(levels, level')
      /\ UNCHANGED setting
  BY Zenon DEF Emit, t, due, i, n
<1> HIDE DEF due
<1>4. t \in Int /\ \A k \in 1 .. n : times[k] <= t
  <2>1. CASE n = 0
    BY <1>1, <1>2, <2>1
  <2>2. CASE n > 0
    <3>1. n \in 1 .. n /\ Last = times[n] /\ times[n] \in Int
      BY <1>1, <2>2, ElementOfSeq DEF Last
    <3>2. Max({Last, due}) = IF Last <= due THEN due ELSE Last
      BY <1>2, <3>1, MaxOfTwo
    <3>3. t = IF Last <= due THEN due ELSE Last
      BY <1>1, <2>2, <3>2
    <3>4. \A k \in 1 .. n : times[k] <= times[n] /\ times[k] \in Int
      BY <1>1, <3>1, ElementOfSeq DEF Ordered
    <3> HIDE DEF t, n
    <3> QED  BY <1>2, <3>1, <3>3, <3>4
  <2>3. n = 0 \/ n > 0
    BY <1>1
  <2> QED  BY <2>1, <2>2, <2>3, Zenon
<1>5. entered = level'
  <2>1. times = << >> <=> i = 1
    BY <1>1
  <2>2. times # << >> => level = levels[n]
    BY <1>1
  <2> HIDE DEF t, i
  <2> QED  BY <1>3, <2>1, <2>2, Zenon DEF Last, n
<1>6. InSlot(t, i)
  BY <1>3 DEF InSlot
<1> HIDE DEF t, entered
<1>7. /\ times' = Append(times, t) /\ \A k \in 1 .. Len(times) : times[k] <= t
      /\ InSlot(t, Len(times) + 1)
      /\ entered = (IF times = << >> THEN 0
                    ELSE Max({0, levels[Len(times)] - Drains(times[Len(times)], t)})) + 1
      /\ level' = entered /\ levels' = Append(levels, entered)
      /\ UNCHANGED setting
  <2>1. times' = Append(times, t) /\ levels' = Append(levels, entered) /\ UNCHANGED setting
        /\ level' = entered
    BY <1>3, <1>5
  <2>2. entered = (IF times = << >> THEN 0
                    ELSE Max({0, levels[Len(times)] - Drains(times[Len(times)], t)})) + 1
    BY Zenon DEF entered
  <2> QED  BY <1>4, <1>6, <2>1, <2>2
<1> QED  BY <1>4, <1>7, Zenon

LEMMA StepHolds == IInv /\ [Next]_vars => IInv'
<1> SUFFICES ASSUME IInv, [Next]_vars PROVE IInv'
  OBVIOUS
<1>1. SettingOK /\ times \in Seq(Int) /\ Ordered(times) /\ levels = CInst(times)
      /\ \A i \in 1 .. Len(times) : InSlot(times[i], i)
  BY DEF IInv
<1>2. CASE UNCHANGED vars
  <2>1. UNCHANGED setting /\ times' = times /\ levels' = levels /\ level' = level
    BY <1>2 DEF vars, setting
  <2>2. CInst(times)' = CInst(times)
    <3>1. CInst(times') = CInst(times)
      BY <2>1
    <3> QED  BY <2>1, <3>1, CInstStays
  <2>3. SettingOK'
    BY <1>1, <2>1, SlotStays
  <2>4. \A i \in 1 .. Len(times') : InSlot(times[i], i)'
    <3> SUFFICES ASSUME NEW i \in 1 .. Len(times') PROVE InSlot(times[i], i)'
      OBVIOUS
    <3>1. i \in 1 .. Len(times) /\ times'[i] = times[i]
      BY <2>1
    <3>2. InSlot(times'[i], i)
      BY <1>1, <3>1
    <3> QED  BY <2>1, <3>2, SlotStays
  <2>5. times' \in Seq(Int) /\ Ordered(times)'
    BY <1>1, <2>1 DEF Ordered
  <2>6. levels' = CInst(times)' /\ level' = IF times' = << >> THEN 0 ELSE levels'[Len(times')]
    BY <1>1, <2>1, <2>2 DEF IInv
  <2> QED  BY <2>3, <2>4, <2>5, <2>6 DEF IInv
<1>3. CASE Next
  <2>1. PICK jitter \in Jitters : Emit(jitter)
    BY <1>3 DEF Next
  <2>0. PICK t \in Int : \E entered :
            /\ times' = Append(times, t) /\ \A i \in 1 .. Len(times) : times[i] <= t
            /\ InSlot(t, Len(times) + 1)
            /\ entered = (IF times = << >> THEN 0
                          ELSE Max({0, levels[Len(times)] - Drains(times[Len(times)], t)})) + 1
            /\ level' = entered /\ levels' = Append(levels, entered)
            /\ UNCHANGED setting
    BY <2>1, EmitFacts
  <2>2. PICK entered :
            /\ times' = Append(times, t) /\ \A i \in 1 .. Len(times) : times[i] <= t
            /\ InSlot(t, Len(times) + 1)
            /\ entered = (IF times = << >> THEN 0
                          ELSE Max({0, levels[Len(times)] - Drains(times[Len(times)], t)})) + 1
            /\ level' = entered /\ levels' = Append(levels, entered)
            /\ UNCHANGED setting
    BY <2>0, Zenon
  <2> DEFINE n == Len(times)
  <2>3. n \in Nat /\ times' \in Seq(Int) /\ Len(times') = n + 1 /\ Ordered(times')
        /\ (\A i \in 1 .. n : times'[i] = times[i]) /\ times'[n + 1] = t
    <3>1. Ordered(Append(times, t)) /\ Append(times, t) \in Seq(Int) /\ Len(Append(times, t)) = n + 1
      BY <1>1, <2>2, AppendOrdered
    <3>2. (\A i \in 1 .. n : Append(times, t)[i] = times[i]) /\ Append(times, t)[n + 1] = t
      BY <1>1, AppendProperties
    <3>3. times' = Append(times, t)
      BY <2>2
    <3> QED  BY <1>1, <3>1, <3>2, <3>3
  <2>4. CInst(Append(times, t)) = Append(levels, entered)
    BY <1>1, <2>2, CInstGrows
  <2>5. levels' = CInst(times)'
    <3>1. CInst(times)' = CInst(times')
      BY <2>2, CInstStays
    <3>2. times' = Append(times, t) /\ levels' = Append(levels, entered)
      BY <2>2
    <3> QED  BY <2>4, <3>1, <3>2
  <2>6. level' = IF times' = << >> THEN 0 ELSE levels'[Len(times')]
    <3>1. levels \in Seq(Int) /\ Len(levels) = n
      BY <1>1, CInstIsSeq
    <3>2. levels' \in Seq(Int)
      <4>1. CInst(times') \in Seq(Int)
        BY <1>1, <2>3, CInstIsSeq
      <4>2. CInst(times)' = CInst(times')
        BY <2>2, CInstStays
      <4> QED  BY <2>5, <4>1, <4>2
    <3>3. Append(levels, entered)[n + 1] = entered
      BY <3>1
    <3>4. levels'[n + 1] = level'
      BY <2>2, <3>3
    <3>5. times' # << >>
      BY <2>3
    <3> HIDE DEF n
    <3> QED  BY <2>3, <3>4, <3>5
  <2>7. SettingOK'
    BY <1>1, <2>2, SlotStays
  <2>8. \A i \in 1 .. Len(times') : InSlot(times[i], i)'
    <3> SUFFICES ASSUME NEW i \in 1 .. n + 1 PROVE InSlot(times[i], i)'
      BY <2>3
    <3>1. InSlot(times'[i], i)
      <4>1. CASE i \in 1 .. n
        <5>1. times'[i] = times[i]
          BY <2>3, <4>1
        <5> QED  BY <1>1, <4>1, <5>1
      <4>2. CASE i = n + 1
        <5>1. times'[i] = t
          BY <2>3, <4>2
        <5> QED  BY <2>2, <4>2, <5>1
      <4> QED  BY <2>3, <4>1, <4>2
    <3> QED  BY <2>2, <3>1, SlotStays
  <2>9. Ordered(times)'
    BY <2>3 DEF Ordered
  <2> QED  BY <2>3, <2>5, <2>6, <2>7, <2>8, <2>9 DEF IInv
<1> QED  BY <1>2, <1>3

LEMMA TimingInvariant == Spec => []IInv
<1>1. Init => IInv
  BY InitHolds
<1>2. IInv /\ [Next]_vars => IInv'
  BY StepHolds
<1> QED  BY <1>1, <1>2, PTL DEF Spec

(* The closed form is the bucket: the level c_inst gives every packet is   *)
(* the one it found in a bucket drained at each instant of the grid.       *)
THEOREM BucketHolds == Spec => []CInstIsTheBucket
<1>1. IInv => CInstIsTheBucket
  BY DEF IInv, CInstIsTheBucket
<1> QED  BY <1>1, TimingInvariant, PTL

(* What measure() keeps of a capture is the end of it. *)
LEMMA KeptFacts ==
    ASSUME times \in Seq(Int), Kept # {}
    PROVE  LET m == Min(Kept)
               n == Len(times)
           IN  /\ n \in Nat /\ m \in Kept /\ Kept \subseteq 1 .. n /\ m \in 1 .. n
               /\ \A i \in Kept : m <= i
               /\ KeptTimes \in Seq(Int) /\ Len(KeptTimes) = n - m + 1
               /\ DOMAIN KeptTimes = 1 .. n - m + 1
               /\ \A i \in 1 .. n - m + 1 : KeptTimes[i] = times[m + i - 1]
<1> DEFINE m == Min(Kept)
           n == Len(times)
<1>1. n \in Nat /\ DOMAIN times = 1 .. n
  OBVIOUS
<1>2. Kept \subseteq 1 .. n
  BY <1>1 DEF Kept
<1>3. m \in Kept /\ \A i \in Kept : m <= i
  <2> DEFINE T == Kept
  <2>1. T \subseteq Int /\ T # {} /\ 0 \in Int /\ \A i \in T : 0 <= i
    BY <1>1, <1>2
  <2> HIDE DEF T
  <2>2. Min(T) \in T /\ \A i \in T : Min(T) <= i
    BY <2>1, MinBounded
  <2> QED  BY <2>2 DEF T
<1>4. m \in 1 .. n
  BY <1>2, <1>3
<1>5. KeptTimes = SubSeq(times, m, n)
  BY Zenon DEF KeptTimes, m, n
<1> HIDE DEF m, n
<1>6. SubSeq(times, m, n) \in Seq(Int) /\ Len(SubSeq(times, m, n)) = n - m + 1
      /\ \A i \in 1 .. n - m + 1 : SubSeq(times, m, n)[i] = times[m + i - 1]
  <2>1. m \in 1 .. n + 1 /\ n \in m - 1 .. n
    BY <1>1, <1>4
  <2>2. \A i \in m .. n : times[i] \in Int
    BY <1>1, <1>4, ElementOfSeq DEF n
  <2> QED  BY <1>1, <1>4, <2>1, <2>2, SubSeqProperties DEF n
<1>7. KeptTimes \in Seq(Int) /\ Len(KeptTimes) = n - m + 1
      /\ \A i \in 1 .. n - m + 1 : KeptTimes[i] = times[m + i - 1]
  BY <1>5, <1>6
<1>8. DOMAIN KeptTimes = 1 .. n - m + 1
  BY <1>7
<1> QED  BY <1>1, <1>2, <1>3, <1>4, <1>7, <1>8 DEF m, n

(* On the epoch's grid a capture trimmed of its leading packets walks the  *)
(* same steps, so its lowest point so far is no lower.                     *)
LEMMA TrimmedIsLower ==
    ASSUME IInv, origin = "epoch", Kept # {}, NEW i \in DOMAIN KeptTimes
    PROVE  CInst(KeptTimes)[i] <= levels[Min(Kept) + i - 1]
<1> DEFINE m == Min(Kept)
           n == Len(times)
           j == m + i - 1
           kt == KeptTimes
           lowest == Min({Walk(kt, k) : k \in 1 .. i})
           low == Min({Walk(times, k) : k \in 1 .. j})
<1>1. SettingOK /\ times \in Seq(Int) /\ Ordered(times) /\ levels = CInst(times)
  BY DEF IInv
<1>2. /\ n \in Nat /\ m \in 1 .. n /\ kt \in Seq(Int) /\ Len(kt) = n - m + 1
      /\ i \in 1 .. n - m + 1
      /\ \A k \in 1 .. n - m + 1 : kt[k] = times[m + k - 1]
  BY <1>1, KeptFacts
<1> HIDE DEF m, n, kt
<1>3. j \in 1 .. n /\ i \in Int
  BY <1>2
<1>4. ASSUME NEW k \in 1 .. i
      PROVE  /\ m + k - 1 \in 1 .. j /\ Walk(times, m + k - 1) \in Int
             /\ Walk(kt, k) = Walk(times, m + k - 1) - (m - 1)
  <2>1. m + k - 1 \in 1 .. j /\ k \in 1 .. n - m + 1 /\ m + k - 1 \in 1 .. n
    BY <1>2, <1>3
  <2>2. kt[k] = times[m + k - 1] /\ times[m + k - 1] \in Int
    BY <1>1, <1>2, <2>1, ElementOfSeq DEF n
  <2>3. Walk(kt, k) = k - Index(times[m + k - 1]) /\ Walk(times, m + k - 1) = (m + k - 1) - Index(times[m + k - 1])
    BY <2>2 DEF Walk, Anchor
  <2>4. Index(times[m + k - 1]) \in Int
    BY <1>1, <2>2, IndexFacts
  <2> DEFINE x == Index(times[m + k - 1])
  <2> HIDE DEF x
  <2>5. Walk(kt, k) = k - x /\ Walk(times, m + k - 1) = (m + k - 1) - x /\ x \in Int
    BY <2>3, <2>4 DEF x
  <2> DEFINE y == Walk(times, m + k - 1)
             z == Walk(kt, k)
  <2>6. z = k - x /\ y = (m + k - 1) - x
    BY <2>5
  <2> HIDE DEF y, z
  <2>7. y \in Int /\ z = y - (m - 1)
    BY <1>2, <2>5, <2>6
  <2> QED  BY <2>1, <2>7 DEF y, z
<1>5. Ordered(kt)
  <2> SUFFICES ASSUME NEW a \in 1 .. Len(kt), NEW b \in 1 .. Len(kt), a <= b PROVE kt[a] <= kt[b]
    BY DEF Ordered
  <2>1. /\ m + a - 1 \in 1 .. n /\ m + b - 1 \in 1 .. n /\ m + a - 1 <= m + b - 1
        /\ kt[a] = times[m + a - 1] /\ kt[b] = times[m + b - 1]
    BY <1>2
  <2> QED  BY <1>1, <2>1 DEF Ordered, n
<1>6. lowest \in {Walk(kt, k) : k \in 1 .. i}
  BY <1>1, <1>2, <1>5, LowestIs
<1>7. low \in {Walk(times, k) : k \in 1 .. j} /\ \A k \in 1 .. j : low <= Walk(times, k)
  BY <1>1, <1>3, LowestIs DEF n
<1>8. CInst(kt)[i] = 1 + Walk(kt, i) - lowest
  BY <1>1, <1>2, CInstIs
<1>9. levels[j] = 1 + Walk(times, j) - low
  BY <1>1, <1>3, CInstIs DEF n
<1> HIDE DEF lowest, low
<1>10. PICK h \in 1 .. i : lowest = Walk(kt, h)
  BY <1>6
<1>11. low <= lowest + (m - 1) /\ lowest \in Int
  <2> DEFINE y == Walk(times, m + h - 1)
  <2>1. m + h - 1 \in 1 .. j /\ y \in Int /\ lowest = y - (m - 1)
    BY <1>4, <1>10
  <2>2. low <= y
    BY <1>7, <2>1
  <2>3. low \in Int
    <3>1. PICK k \in 1 .. j : low = Walk(times, k)
      BY <1>7
    <3>2. k \in 1 .. Len(times)
      BY <1>2, <1>3 DEF n
    <3> QED  BY <1>1, <3>1, <3>2, WalkFacts
  <2> HIDE DEF y, j
  <2> QED  BY <1>2, <2>1, <2>2, <2>3
<1>12. low \in Int
  <2>1. PICK k \in 1 .. j : low = Walk(times, k)
    BY <1>7
  <2>2. k \in 1 .. Len(times)
    BY <1>2, <1>3 DEF n
  <2> QED  BY <1>1, <2>1, <2>2, WalkFacts
<1>13. Walk(kt, i) = Walk(times, j) - (m - 1) /\ Walk(times, j) \in Int
  <2>1. i \in 1 .. i
    BY <1>2
  <2> QED  BY <1>4, <2>1
<1>14. CInst(kt)[i] <= levels[j]
  <2> DEFINE w == Walk(times, j)
             v == Walk(kt, i)
  <2>1. v = w - (m - 1) /\ w \in Int
    BY <1>13
  <2>2. CInst(kt)[i] = (1 + v) - lowest /\ levels[j] = (1 + w) - low
    <3>1. CInst(kt)[i] = 1 + v - lowest /\ levels[j] = 1 + w - low
      BY <1>8, <1>9
    <3>2. v \in Int /\ lowest \in Int /\ w \in Int /\ low \in Int
      BY <1>2, <1>11, <1>12, <2>1
    <3> HIDE DEF v, w, j
    <3> QED  BY <3>1, <3>2
  <2> HIDE DEF v, w, j
  <2>3. (1 + v) - lowest <= (1 + w) - low
    BY <1>2, <1>11, <1>12, <2>1
  <2> QED  BY <2>2, <2>3
<1> QED  BY <1>14 DEF kt, m, j

(* Leaving out a partial leading frame never makes a sender look burstier: *)
(* no level of what measure() keeps is above the bucket's.                 *)
THEOREM TrimmingHolds == Spec => []TrimmingNeverAdds
<1>1. IInv => TrimmingNeverAdds
  BY TrimmedIsLower DEF TrimmingNeverAdds
<1> QED  BY <1>1, TimingInvariant, PTL

-----------------------------------------------------------------------------
(* Anchors.  A kept packet's frame opens within the capture.               *)
LEMMA OpeningFacts ==
    ASSUME SettingOK, times \in Seq(Int), NEW i \in Kept
    PROVE  /\ i \in 1 .. Len(times) /\ Frame(i) \in Nat /\ Packet(i) \in 0 .. video.packets - 1
           /\ Opening(i) \in 1 .. Len(times)
           /\ Packet(Opening(i)) = 0 /\ Frame(Opening(i)) = Frame(i)
<1> DEFINE n == video.packets
           q == Frame(i) - start.frame
           r == Packet(i)
           o == i - r
<1>1. Len(times) \in Nat /\ i \in 1 .. Len(times) /\ (Frame(i) > start.frame \/ start.packet = 0)
  BY DEF Kept
<1>2. i \in Nat /\ i > 0
  BY <1>1
<1>3. /\ Frame(i) \in Nat /\ r \in 0 .. n - 1 /\ start.packet + i - 1 = q * n + r
      /\ Frame(i) >= start.frame
  BY <1>2, FrameFacts
<1>4. n \in Nat /\ n > 0 /\ start.frame \in Nat /\ start.packet \in 0 .. n - 1
  BY SettingFacts
<1>5. q \in Nat /\ (q > 0 \/ start.packet = 0)
  BY <1>1, <1>3, <1>4
<1>6. Opening(i) = o
  BY DEF Opening
<1> HIDE DEF q, n
<1>7. q * n \in Int /\ q * n >= start.packet
  <2>1. CASE q > 0
    <3>1. 1 * n <= q * n
      BY <1>4, <1>5, <2>1, TimesOrder
    <3>2. q * n \in Int
      BY <1>4, <1>5, TimesFacts
    <3> QED  BY <1>4, <3>1, <3>2
  <2>2. CASE start.packet = 0
    <3>1. 0 * n <= q * n
      BY <1>4, <1>5, TimesOrder
    <3>2. q * n \in Int
      BY <1>4, <1>5, TimesFacts
    <3> QED  BY <1>4, <2>2, <3>1, <3>2
  <2> QED  BY <1>5, <2>1, <2>2
<1>8. o \in 1 .. Len(times) /\ start.packet + o - 1 = q * n + 0
  <2> DEFINE x == q * n
  <2>1. x \in Int /\ x >= start.packet /\ start.packet + i - 1 = x + r
    BY <1>3, <1>7
  <2>2. r \in Int /\ 0 <= r /\ start.packet \in Int /\ i \in Int /\ 0 < i /\ i <= Len(times)
    BY <1>1, <1>2, <1>3, <1>4
  <2> HIDE DEF x, r
  <2>3. o \in Int /\ 1 <= o /\ o <= Len(times) /\ start.packet + o - 1 = x + 0
    BY <2>1, <2>2, <1>1
  <2> QED  BY <1>1, <2>3 DEF x
<1>9. Frame(o) = start.frame + q /\ Packet(o) = 0
  <2>1. o \in Nat /\ o > 0 /\ q \in Int /\ 0 \in 0 .. n - 1
    BY <1>4, <1>5, <1>8
  <2> HIDE DEF o, q
  <2> QED  BY <1>8, <2>1, FrameIs DEF n
<1>10. start.frame + q = Frame(i)
  BY <1>3, <1>4 DEF q
<1> QED  BY <1>1, <1>3, <1>6, <1>8, <1>9, <1>10 DEF n

(* The slot a kept packet's frame was opened in, to within half a frame. *)
LEMMA SlotOf ==
    ASSUME IInv, NEW i \in Kept
    PROVE  LET e == times[Opening(i)] * Nano - Datum(Frame(i) + slip)
           IN  /\ times[Opening(i)] \in Int /\ Frame(i) + slip \in Int
               /\ e \in Int /\ 2 * e < TFrame /\ -TFrame < 2 * e
<1> DEFINE t == times[Opening(i)]
           f == Frame(i) + slip
           e == t * Nano - Datum(f)
<1>1. SettingOK /\ times \in Seq(Int) /\ \A k \in 1 .. Len(times) : InSlot(times[k], k)
  BY DEF IInv
<1>2. /\ Opening(i) \in 1 .. Len(times) /\ Packet(Opening(i)) = 0 /\ Frame(Opening(i)) = Frame(i)
      /\ Frame(i) \in Nat
  BY <1>1, OpeningFacts
<1>3. t \in Int /\ f \in Int
  BY <1>1, <1>2, SettingFacts, ElementOfSeq
<1>4. 2 * Magnitude(e) < TFrame
  <2>1. InSlot(times[Opening(i)], Opening(i))
    BY <1>1, <1>2
  <2> QED  BY <1>2, <2>1 DEF InSlot
<1>5. e \in Int
  <2> HIDE DEF t, f
  <2>1. t * Nano \in Int /\ Datum(f) \in Int
    BY <1>1, <1>3, ConstantFacts, DatumFacts, TimesFacts
  <2> QED  BY <2>1
<1> HIDE DEF e
<1>6. 2 * e < TFrame /\ -TFrame < 2 * e
  BY <1>4, <1>5, ConstantFacts DEF Magnitude
<1> QED  BY <1>3, <1>5, <1>6 DEF e

(* The nearest datum to it is that slot's. *)
LEMMA IdealIs ==
    ASSUME IInv, NEW i \in Kept
    PROVE  Named("ideal", i) = Frame(i) + slip
<1> DEFINE t == times[Opening(i)]
           f == Frame(i) + slip
           e == t * Nano - Datum(f)
           offset == TOffset(video)
           ff == f * TFrame
           tn == t * Nano
           half == TFrame \div 2
<1>1. t \in Int /\ f \in Int /\ e \in Int /\ 2 * e < TFrame /\ -TFrame < 2 * e
  BY SlotOf
<1>2. SettingOK
  BY DEF IInv
<1>3. Datum(f) = ff + offset /\ offset \in Int /\ ff \in Int /\ tn \in Int
  <2>1. t \in Int /\ f \in Int
    BY <1>1
  <2> HIDE DEF t, f
  <2>2. Datum(f) = f * TFrame + TOffset(video) /\ TOffset(video) \in Int
    BY <1>2, <2>1, DatumFacts, SettingFacts
  <2>3. f * TFrame \in Int /\ t * Nano \in Int
    BY <2>1, ConstantFacts, TimesFacts
  <2> QED  BY <2>2, <2>3
<1>4. e = tn - (ff + offset)
  BY <1>3
<1>5. half \in Int /\ TFrame = 2 * half
  BY ConstantFacts
<1>6. Named("ideal", i) = (tn - offset + half) \div TFrame
  BY DEF Named, IdealFrame
<1> HIDE DEF e, offset, ff, tn, half
<1>7. tn - offset + half \in Int /\ ff <= tn - offset + half /\ tn - offset + half < ff + TFrame
  BY <1>1, <1>3, <1>4, <1>5
<1>8. (tn - offset + half) \div TFrame = f
  <2> DEFINE a == tn - offset + half
  <2>1. a \in Int /\ f * TFrame <= a /\ a < f * TFrame + TFrame
    BY <1>7 DEF ff
  <2> HIDE DEF a
  <2>2. a \div TFrame = f
    BY <1>1, <2>1, ConstantFacts, DivIs
  <2> QED  BY <2>2 DEF a
<1> QED  BY <1>6, <1>8

(* Ticks told from an instant e parts off a frame's datum, k frames or     *)
(* less away, are within half a turn of the ticks at that frame.           *)
LEMMA TicksAreNear ==
    ASSUME NEW a \in Nat, a > 0, NEW num \in Nat, num > 0, NEW den \in Nat, den > 0,
           NEW m \in Nat, NEW k \in Nat, k * num + 2 * den <= den * m,
           NEW f \in Int, NEW e \in Int, 2 * e < k * a, -(k * a) < 2 * e
    PROVE  LET d == (((f * a + e) * num) \div (a * den)) - ((f * num) \div den)
           IN  d \in Int /\ -m < 2 * d /\ 2 * d < m
<1> DEFINE fn == f * num
           q == fn \div den
           r == fn % den
           w == a * den
           en == e * num
           ra == r * a
           y == ra + en
           d == y \div w
<1>1. fn \in Int /\ w \in Nat /\ w > 0 /\ en \in Int
  <2>1. fn \in Int /\ w \in Int /\ en \in Int
    BY TimesFacts
  <2>2. 1 * den <= w
    BY TimesOrder
  <2> QED  BY <2>1, <2>2, TimesFacts
<1> HIDE DEF fn
<1>2. q \in Int /\ r \in 0 .. den - 1 /\ fn = q * den + r
  BY <1>1, Division
<1> HIDE DEF q, r
<1>3. ra \in Int /\ y \in Int
  <2>1. ra \in Int
    BY <1>2, TimesFacts
  <2> HIDE DEF ra, en
  <2> QED  BY <1>1, <2>1
<1>4. (f * a + e) * num = y + q * w
  <2>1. (f * a + e) * num = (f * num) * a + e * num
    BY SMT
  <2>2. (q * den + r) * a = q * (a * den) + r * a
    BY <1>2, SMT
  <2>3. fn * a = q * w + ra
    BY <1>2, <2>2
  <2>4. q * w \in Int
    BY <1>1, <1>2, TimesFacts
  <2> HIDE DEF w, ra, en
  <2>5. (f * a + e) * num = fn * a + en
    BY <2>1 DEF fn, en
  <2> QED  BY <1>1, <1>3, <2>3, <2>4, <2>5
<1> HIDE DEF y
<1>5. ((f * a + e) * num) \div w = q + d
  <2>1. (y + q * w) \div w = q + (y \div w)
    BY <1>1, <1>2, <1>3, DivShift
  <2> QED  BY <1>4, <2>1
<1>6. d \in Int /\ d * w \in Int /\ d * w <= y /\ y < d * w + w
  <2>1. d \in Int /\ d <= y \div w /\ y \div w < d + 1
    BY <1>1, <1>3, Division
  <2> HIDE DEF d, w
  <2>2. d * w <= y /\ y < (d + 1) * w
    BY <1>1, <1>3, <2>1, DivReaches
  <2> QED  BY <1>1, <2>1, <2>2, TimesFacts
<1> DEFINE kan == (k * a) * num
           mw == m * w
<1>7. kan + 2 * w <= mw /\ kan \in Int /\ mw \in Int
  <2>1. (k * num + 2 * den) * a <= (den * m) * a
    BY TimesOrder, TimesFacts
  <2>2. (k * num + 2 * den) * a = kan + 2 * w
    BY SMT
  <2>3. (den * m) * a = mw
    BY SMT
  <2>4. k * a \in Int
    BY TimesFacts
  <2>5. kan \in Int /\ mw \in Int
    BY <1>1, <2>4, TimesFacts
  <2> QED  BY <2>1, <2>2, <2>3, <2>5
<1>8. 2 * en <= kan /\ -kan <= 2 * en
  <2> DEFINE ka == k * a
  <2>1. ka \in Int
    BY TimesFacts
  <2>2. 2 * e < ka /\ -ka < 2 * e
    OBVIOUS
  <2> HIDE DEF ka
  <2>3. (2 * e) * num <= ka * num /\ (-ka) * num <= (2 * e) * num
    BY <2>1, <2>2, TimesOrder
  <2>4. (2 * e) * num = 2 * (e * num) /\ (-ka) * num = -(ka * num)
    BY <2>1, SMT
  <2> QED  BY <2>3, <2>4 DEF ka
<1>9. 0 <= ra /\ ra + a <= w
  <2>1. 0 * a <= r * a /\ (r + 1) * a <= den * a
    BY <1>2, TimesOrder
  <2>2. (r + 1) * a = r * a + a /\ den * a = a * den
    BY <1>2, TimesFacts
  <2>3. 0 * a = 0
    OBVIOUS
  <2> QED  BY <2>1, <2>2, <2>3
<1> HIDE DEF kan, mw, ra, en, w, d
<1>10. 2 * y < mw /\ 2 * w - mw <= 2 * y
  BY <1>1, <1>3, <1>7, <1>8, <1>9 DEF y
<1>11. 2 * d < m
  <2>1. ASSUME m <= 2 * d PROVE FALSE
    <3>1. m * w <= (2 * d) * w
      BY <1>1, <1>6, <2>1, TimesOrder
    <3>2. (2 * d) * w = 2 * (d * w)
      BY <1>1, <1>6, SMT
    <3>3. mw <= 2 * (d * w)
      BY <3>1, <3>2 DEF mw
    <3> QED  BY <1>3, <1>6, <1>7, <1>10, <3>3
  <2> QED  BY <1>6, <2>1
<1>12. -m < 2 * d
  <2>1. ASSUME 2 * d <= -m PROVE FALSE
    <3>1. (2 * d) * w <= (-m) * w
      BY <1>1, <1>6, <2>1, TimesOrder
    <3>2. (2 * d) * w = 2 * (d * w) /\ (-m) * w = -(m * w)
      BY <1>1, <1>6, SMT
    <3>3. 2 * (d * w) <= -mw
      BY <3>1, <3>2 DEF mw
    <3> QED  BY <1>1, <1>3, <1>6, <1>7, <1>10, <3>3
  <2> QED  BY <1>6, <2>1
<1>13. (((f * a + e) * num) \div (a * den)) - ((f * num) \div den) = d
  <2>1. (f * num) \div den = q
    BY DEF q, fn
  <2>2. ((f * a + e) * num) \div (a * den) = q + d
    BY <1>5 DEF w
  <2> QED  BY <1>2, <1>6, <2>1, <2>2
<1> QED  BY <1>6, <1>11, <1>12, <1>13

(* A tick is told from its remainder and one less than half a turn away. *)
LEMMA TurnIs ==
    ASSUME NEW m \in Nat, m > 0, NEW tick \in Int, NEW d \in Int, -m < 2 * d, 2 * d < m
    PROVE  (tick % m) + (((tick + d) - (tick % m) + (m \div 2)) \div m) * m = tick
<1> DEFINE q == tick \div m
           r == tick % m
           qm == q * m
           a == (tick + d) - r + (m \div 2)
<1>1. q \in Int /\ r \in 0 .. m - 1 /\ tick = qm + r /\ qm \in Int
  BY Division, TimesFacts
<1>2. m \div 2 \in Int /\ 0 <= d + (m \div 2) /\ d + (m \div 2) < m
  OBVIOUS
<1> HIDE DEF q, r, qm
<1>3. a \in Int /\ qm <= a /\ a < qm + m
  BY <1>1, <1>2
<1> HIDE DEF a
<1>4. a \div m = q
  BY <1>1, <1>3, DivIs DEF qm
<1>5. r + (a \div m) * m = tick
  BY <1>1, <1>4 DEF qm
<1> QED  BY <1>5 DEF a, r

LEMMA RtpIs ==
    ASSUME IInv, RatesAreTold, SlipsAreNear, NEW i \in Kept,
           LET ticks == Unwrapped(times[Opening(i)], Stamp(Frame(i))) * 2 * Clock.den + Clock.num
           IN  IsInt64(ticks)
    PROVE  Named("rtp", i) = Frame(i)
<1> DEFINE t == times[Opening(i)]
           s == slip
           g == Frame(i)
           f == g + s
           e == t * Nano - Datum(f)
           offset == TOffset(video)
           a == TFrame
           num == Clock.num
           den == Clock.den
           m == TimestampModulus
           k == 2 * Magnitude(s) + 1
           sa == s * a
           x == t * Nano - offset
           far == sa + e
           fn == g * num
           tick == fn \div den
           r == fn % den
           ticks == (x * num) \div (a * den)
           d == ticks - tick
           more == tick * 2 * den + num
<1>1. /\ t \in Int /\ f \in Int /\ e \in Int /\ 2 * e < a /\ -a < 2 * e
  BY SlotOf
<1>2. SettingOK /\ times \in Seq(Int) /\ g \in Nat
  BY OpeningFacts DEF IInv
<1>3. /\ a \in Nat /\ a > 0 /\ num \in Nat /\ num > 0 /\ den \in Nat /\ den > 0 /\ m \in Nat /\ m > 0
      /\ s \in Int /\ k \in Nat /\ k * num + 2 * den <= den * m /\ 2 * den - 2 <= num
  <2>1. s \in Slips /\ s \in Int
    BY <1>2, SettingFacts DEF SettingOK
  <2>2. k \in Nat
    BY <2>1 DEF Magnitude
  <2> QED  BY <2>1, <2>2, ConstantFacts DEF SlipsAreNear, RatesAreTold
<1> HIDE DEF a, num, den, m
<1>4. x = g * a + far /\ far \in Int /\ x \in Int
  <2>1. Datum(f) = f * a + offset /\ offset \in Int
    <3> HIDE DEF f
    <3> QED  BY <1>1, <1>2, DatumFacts, SettingFacts DEF a
  <2>2. f * a = g * a + sa /\ sa \in Int /\ g * a \in Int
    BY <1>2, <1>3, SMT
  <2>3. t * Nano \in Int
    <3> HIDE DEF t
    <3> QED  BY <1>1, ConstantFacts, TimesFacts
  <2> DEFINE tn == t * Nano
             ga == g * a
             fa == f * a
  <2>4. x = tn - offset /\ e = tn - Datum(f)
    OBVIOUS
  <2>5. fa = ga + sa /\ Datum(f) = fa + offset /\ tn \in Int /\ ga \in Int
    BY <2>1, <2>2, <2>3
  <2> HIDE DEF tn, ga, fa, sa, x, e, offset
  <2>6. x = ga + far /\ far \in Int /\ x \in Int
    BY <1>1, <2>1, <2>2, <2>4, <2>5
  <2> QED  BY <2>6 DEF ga
<1>5. 2 * far < k * a /\ -(k * a) < 2 * far
  <2> DEFINE p == Magnitude(s)
             pa == p * a
  <2>1. p \in Nat /\ s <= p /\ -p <= s
    BY <1>3 DEF Magnitude
  <2> HIDE DEF p
  <2>2. sa <= pa /\ -pa <= sa /\ pa \in Int /\ sa \in Int
    <3>1. s * a <= p * a /\ (-p) * a <= s * a
      BY <1>3, <2>1, TimesOrder
    <3> QED  BY <1>3, <2>1, <3>1, TimesFacts
  <2>3. k * a = 2 * pa + a
    <3>1. (2 * p + 1) * a = 2 * (p * a) + a
      BY <1>3, <2>1, SMT
    <3> QED  BY <3>1 DEF p
  <2> HIDE DEF sa, pa, k, e
  <2> QED  BY <1>1, <1>3, <2>2, <2>3
<1> HIDE DEF far, x, k
<1>6. d \in Int /\ -m < 2 * d /\ 2 * d < m
  <2>1. g \in Int
    BY <1>2
  <2> HIDE DEF g
  <2>2. LET c == (((g * a + far) * num) \div (a * den)) - ((g * num) \div den)
        IN  c \in Int /\ -m < 2 * c /\ 2 * c < m
    BY <1>3, <1>4, <1>5, <2>1, TicksAreNear
  <2>3. ticks = ((g * a + far) * num) \div (a * den)
    BY <1>4
  <2> QED  BY <2>2, <2>3
<1>7. fn \in Int /\ tick \in Int /\ r \in 0 .. den - 1 /\ fn = tick * den + r
  <2>1. fn \in Int
    BY <1>2, <1>3, TimesFacts
  <2> HIDE DEF fn
  <2> QED  BY <1>3, <2>1, Division
<1>8. Stamp(g) = tick % m
  BY Zenon DEF Stamp, tick, fn, m, num, den
<1>9. Unwrapped(t, Stamp(g)) = tick
  <2>1. ticks = tick + d /\ ticks \in Int
    <3>1. a * den \in Nat /\ a * den > 0
      <4>1. 1 * den <= a * den /\ a * den \in Int
        BY <1>3, TimesOrder, TimesFacts
      <4> QED  BY <1>3, <4>1
    <3>2. x * num \in Int
      BY <1>3, <1>4, TimesFacts
    <3>3. ticks \in Int
      <4> DEFINE ad == a * den
                 xn == x * num
      <4>1. ad \in Nat /\ ad > 0 /\ xn \in Int
        BY <3>1, <3>2
      <4> HIDE DEF ad, xn
      <4>2. xn \div ad \in Int
        BY <4>1, Division
      <4> QED  BY <4>2 DEF ad, xn
    <3> HIDE DEF ticks, tick
    <3> QED  BY <1>7, <3>3
  <2>2. Unwrapped(t, Stamp(g)) = Stamp(g) + ((ticks - Stamp(g) + (m \div 2)) \div m) * m
    BY Zenon DEF Unwrapped, ticks, x, num, den, m, a, offset
  <2> HIDE DEF d, ticks, tick
  <2>3. (tick % m) + (((tick + d) - (tick % m) + (m \div 2)) \div m) * m = tick
    BY <1>3, <1>6, <1>7, TurnIs
  <2> QED  BY <1>8, <2>1, <2>2, <2>3
<1>10. IsInt64(more)
  <2>1. IsInt64(Unwrapped(t, Stamp(g)) * 2 * den + num)
    BY Zenon DEF num, den, t, g
  <2> QED  BY <1>9, <2>1
<1> DEFINE gn == g * (2 * num)
<1>11. gn \in Int /\ more \in Int /\ gn <= more /\ more < gn + 2 * num
  <2>1. gn = 2 * fn /\ gn \in Int
    <3>1. g * (2 * num) = 2 * (g * num)
      BY <1>2, <1>3, SMT
    <3> QED  BY <1>7, <3>1
  <2> DEFINE td == tick * den
  <2>2. tick * 2 * den = 2 * (tick * den) /\ td \in Int
    <3> HIDE DEF tick
    <3>1. (tick * 2) * den = 2 * (tick * den)
      BY <1>3, <1>7, SMT
    <3>2. tick * den \in Int
      BY <1>3, <1>7, TimesFacts
    <3> QED  BY <3>1, <3>2
  <2>3. more = 2 * td + num /\ fn = td + r
    BY <1>7, <2>2
  <2> HIDE DEF more, gn, fn, td, r
  <2> QED  BY <1>3, <1>7, <2>1, <2>2, <2>3
<1>12. Wrapped(more) = more
  <2> HIDE DEF more
  <2> DEFINE l == IntLimit
             w == 2 * l
             y == more + l
  <2>1. l \in Nat /\ l > 0 /\ -l <= more /\ more < l
    BY <1>10, ConstantFacts DEF IsInt64
  <2>2. w \in Nat /\ w > 0 /\ y \in 0 .. w - 1 /\ y \in Int /\ y = 0 * w + y
    BY <1>11, <2>1
  <2> HIDE DEF w, y
  <2>3. y % w = y
    BY <2>2, RemainderUnique
  <2>4. Wrapped(more) = (y % w) - l
    BY Zenon DEF Wrapped, y, w, l
  <2> QED  BY <1>11, <2>1, <2>3, <2>4 DEF y
<1>13. more \div (2 * num) = g
  <2> DEFINE nn == 2 * num
  <2>1. nn \in Nat /\ nn > 0
    BY <1>3
  <2>2. g \in Int /\ g * nn <= more /\ more < g * nn + nn
    BY <1>2, <1>11
  <2> HIDE DEF nn, more, g
  <2>3. more \div nn = g
    BY <1>11, <2>1, <2>2, DivIs
  <2> QED  BY <2>3 DEF nn
<1>14. Named("rtp", i) = RtpFrame(t, Stamp(g))
  BY DEF Named
<1>15. RtpFrame(t, Stamp(g)) = Wrapped(more) \div (2 * num)
  <2>1. RtpFrame(t, Stamp(g)) = Wrapped(Unwrapped(t, Stamp(g)) * 2 * den + num) \div (2 * num)
    BY Zenon DEF RtpFrame, num, den
  <2> QED  BY <1>9, <2>1
<1> QED  BY <1>12, <1>13, <1>14, <1>15

(* Two anchors name the two frames there are: the nearest datum is that of *)
(* the slot the frame was sent in, however late, and the timestamp's is    *)
(* that of the media frame, across the stamp's wrap and whatever the       *)
(* sender has slipped (timing.py _datums).                                 *)
THEOREM AnchorsHold ==
    ASSUME RatesAreTold, SlipsAreNear
    PROVE  Spec => []AnchorsNameTheFrame
<1>1. IInv => AnchorsNameTheFrame
  <2> SUFFICES ASSUME IInv, NEW i \in Kept
               PROVE  /\ DatumsFit("ideal") => Anchored("ideal", i) = Datum(Frame(i) + slip)
                      /\ DatumsFit("rtp") /\ TicksAreInt64 => Anchored("rtp", i) = Datum(Frame(i))
    BY DEF AnchorsNameTheFrame
  <2>1. Anchored("ideal", i) = Datum(Frame(i) + slip)
    BY IdealIs DEF Anchored
  <2>2. ASSUME TicksAreInt64 PROVE Anchored("rtp", i) = Datum(Frame(i))
    <3>1. Named("rtp", i) = Frame(i)
      BY <2>2, RtpIs DEF TicksAreInt64
    <3> QED  BY <3>1 DEF Anchored
  <2> QED  BY <2>1, <2>2
<1> QED  BY <1>1, TimingInvariant, PTL

-----------------------------------------------------------------------------
(* The buffer's arithmetic.                                                *)
LEMMA ClipIs ==
    ASSUME NEW n \in Int, NEW low \in Int, NEW high \in Int, low <= high
    PROVE  Clip(n, low, high) = IF n < low THEN low ELSE IF n <= high THEN n ELSE high
<1> DEFINE least == Min({n, high})
<1>1. least = IF n <= high THEN n ELSE high
  BY MinOfTwo
<1>2. Clip(n, low, high) = Max({low, least})
  BY Zenon DEF Clip
<1> HIDE DEF least
<1>3. least \in Int
  BY <1>1
<1>4. Max({low, least}) = IF low <= least THEN least ELSE low
  BY <1>3, MaxOfTwo
<1> QED  BY <1>1, <1>2, <1>3, <1>4

LEMMA CeilingReaches ==
    ASSUME NEW n \in Int, NEW d \in Nat, d > 0, NEW k \in Int
    PROVE  /\ Ceiling(n, d) \in Int
           /\ k < Ceiling(n, d) <=> k * d < n
           /\ Ceiling(n, d) <= k <=> n <= k * d
<1> DEFINE m == -n
           q == m \div d
           j == -k
           kd == k * d
<1>1. m \in Int /\ j \in Int
  OBVIOUS
<1>2. Ceiling(n, d) = -q
  BY DEF Ceiling
<1>3. j * d = -kd /\ kd \in Int
  BY TimesFacts
<1> HIDE DEF m, j, kd
<1>4. q \in Int /\ (q < j <=> m < j * d)
  BY <1>1, Division, DivReaches
<1> HIDE DEF q
<1>5. (k < -q <=> kd < n) /\ (-q <= k <=> n <= kd)
  BY <1>1, <1>3, <1>4 DEF m, j
<1> QED  BY <1>2, <1>4, <1>5 DEF kd

(* The reads of a run that some room holds. *)
Held(room, count) == Clip(Ceiling(room, TRead(video)), 0, count)

LEMMA HeldIs ==
    ASSUME SettingOK, NEW room \in Int, NEW count \in Nat
    PROVE  /\ Held(room, count) \in 0 .. count
           /\ \A k \in 0 .. count - 1 : k < Held(room, count) <=> k * TRead(video) < room
<1> DEFINE t == TRead(video)
           c == Ceiling(room, t)
           h == Held(room, count)
<1>1. t \in Nat /\ t > 0
  BY ReadFacts
<1>2. c \in Int /\ \A k \in Int : k < c <=> k * t < room
  <2> HIDE DEF t
  <2> QED  BY <1>1, CeilingReaches
<1>3. h = Clip(c, 0, count)
  BY Zenon DEF Held, c, t
<1> HIDE DEF c, h, t
<1>4. h = IF c < 0 THEN 0 ELSE IF c <= count THEN c ELSE count
  BY <1>2, <1>3, ClipIs
<1>5. h \in 0 .. count /\ \A k \in 0 .. count - 1 : k < h <=> k < c
  BY <1>2, <1>4
<1>6. \A k \in 0 .. count - 1 : k < h <=> k * t < room
  <2> SUFFICES ASSUME NEW k \in 0 .. count - 1 PROVE k < h <=> k * t < room
    OBVIOUS
  <2>1. k \in Int
    OBVIOUS
  <2>2. k < h <=> k < c
    BY <1>5
  <2>3. k < c <=> k * t < room
    BY <1>2, <2>1
  <2> QED  BY <2>2, <2>3, Zenon
<1> QED  BY <1>5, <1>6 DEF h, t

(* No room holds none of them, and room for all of them holds all. *)
LEMMA HeldEdges ==
    ASSUME SettingOK, NEW room \in Int, NEW count \in Nat
    PROVE  /\ room <= 0 => Held(room, count) = 0
           /\ count * TRead(video) <= room => Held(room, count) = count
<1> DEFINE t == TRead(video)
           h == Held(room, count)
<1>1. t \in Nat /\ t > 0
  BY ReadFacts
<1>2. h \in 0 .. count /\ \A k \in 0 .. count - 1 : k < h <=> k * t < room
  BY HeldIs
<1> HIDE DEF t, h
<1>3. ASSUME room <= 0, h # 0 PROVE FALSE
  <2>1. 0 \in 0 .. count - 1 /\ 0 < h
    BY <1>2, <1>3
  <2>2. 0 * t < room
    BY <1>2, <2>1
  <2>3. 0 * t = 0
    BY <1>1
  <2> QED  BY <1>3, <2>2, <2>3
<1>4. ASSUME count * t <= room, h # count PROVE FALSE
  <2> DEFINE k == count - 1
             kt == k * t
             ct == count * t
  <2>1. k \in 0 .. count - 1 /\ ~(k < h)
    BY <1>2, <1>4
  <2>2. ~(kt < room)
    BY <1>2, <2>1
  <2>3. k \in Int /\ (k + 1) * t = kt + t /\ kt \in Int
    <3>1. k \in Int
      OBVIOUS
    <3> HIDE DEF k
    <3> QED  BY <1>1, <3>1, TimesFacts
  <2>4. k + 1 = count
    OBVIOUS
  <2>5. ct = kt + t
    BY <2>3, <2>4
  <2>6. ct <= room
    BY <1>4
  <2> HIDE DEF kt, ct
  <2> QED  BY <1>1, <2>2, <2>3, <2>5, <2>6
<1> QED  BY <1>3, <1>4 DEF h, t

(* Clipped to its window, what is left of a run still holds the same reads. *)
LEMMA DrainedIs ==
    ASSUME SettingOK, NEW segment, segment.offset \in Nat, segment.count \in Nat,
           NEW delta \in Int, NEW part \in 0 .. Nano - 1
    PROVE  LET drained == Drained(segment, delta, part)
               room == (delta + 1) * Nano - part - segment.offset
           IN  /\ drained \in 0 .. segment.count /\ room \in Int
               /\ \A k \in 0 .. segment.count - 1 : k < drained <=> k * TRead(video) < room
<1> DEFINE t == TRead(video)
           offset == segment.offset
           count == segment.count
           ct == count * t
           end == offset + ct
           oq == offset \div Nano
           ec == Ceiling(end, Nano)
           low == oq - 1
           high == ec + 1
           windowed == Clip(delta, low, high)
           RoomAt(d) == (d + 1) * Nano - part - offset
           room == RoomAt(delta)
<1>1. offset \in Nat /\ count \in Nat /\ t \in Nat /\ t > 0 /\ Nano \in Nat /\ Nano > 0
  BY ReadFacts, ConstantFacts
<1>2. Drained(segment, delta, part) = Held(RoomAt(windowed), count)
  BY Zenon DEF Drained, Held, Room, WindowLow, WindowHigh, RoomAt, windowed, low, high, oq, ec,
               end, ct, offset, count, t
<1> HIDE DEF offset, count, t
<1>3. ct \in Nat
  BY <1>1, SMT
<1> HIDE DEF ct
<1>4. end \in Int
  BY <1>1, <1>3
<1>5. oq \in Int /\ oq * Nano \in Int /\ oq * Nano <= offset
  <2>1. oq \in Int
    BY <1>1, Division
  <2> QED  BY <1>1, <2>1, DivReaches, TimesFacts
<1>6. ec \in Int /\ ec * Nano \in Int /\ end <= ec * Nano
  <2> HIDE DEF end
  <2>1. ec \in Int
    BY <1>1, <1>4, CeilingReaches
  <2>2. ec <= ec
    BY <2>1
  <2> QED  BY <1>1, <1>4, <2>1, <2>2, CeilingReaches, TimesFacts
<1>7. low <= high
  <2>1. ASSUME ec + 1 <= oq PROVE FALSE
    <3>1. (ec + 1) * Nano <= oq * Nano /\ (ec + 1) * Nano = ec * Nano + Nano
      BY <1>1, <1>5, <1>6, <2>1, TimesOrder, TimesFacts
    <3> QED  BY <1>1, <1>3, <1>5, <1>6, <3>1
  <2> QED  BY <1>5, <1>6, <2>1
<1> HIDE DEF end, oq, ec
<1>8. low \in Int /\ high \in Int
  BY <1>5, <1>6
<1>9. windowed = IF delta < low THEN low ELSE IF delta <= high THEN delta ELSE high
  BY <1>7, <1>8, ClipIs
<1>10. \A d \in Int : RoomAt(d) \in Int /\ (d + 1) * Nano \in Int
  <2> SUFFICES ASSUME NEW d \in Int PROVE RoomAt(d) \in Int /\ (d + 1) * Nano \in Int
    OBVIOUS
  <2> DEFINE e == d + 1
             en == e * Nano
  <2>1. e \in Int
    OBVIOUS
  <2> HIDE DEF e
  <2>2. en \in Int
    BY <1>1, <2>1, TimesFacts
  <2> HIDE DEF en
  <2> QED  BY <1>1, <2>2 DEF en, e
<1>11. \A d, e \in Int : d <= e => RoomAt(d) <= RoomAt(e)
  <2> SUFFICES ASSUME NEW d \in Int, NEW e \in Int, d <= e PROVE RoomAt(d) <= RoomAt(e)
    OBVIOUS
  <2>1. (d + 1) * Nano <= (e + 1) * Nano /\ (d + 1) * Nano \in Int /\ (e + 1) * Nano \in Int
    <3>1. d + 1 \in Int /\ e + 1 \in Int /\ d + 1 <= e + 1
      OBVIOUS
    <3> QED  BY <1>1, <1>10, <3>1, TimesOrder
  <2> QED  BY <1>1, <2>1
<1>12. RoomAt(low) <= 0
  <2>1. (low + 1) * Nano = oq * Nano
    BY <1>5
  <2> QED  BY <1>1, <1>5, <2>1
<1>13. ct <= RoomAt(high)
  <2>1. (high + 1) * Nano = ec * Nano + 2 * Nano
    <3>1. (ec + 2) * Nano = ec * Nano + 2 * Nano
      BY <1>1, <1>6, SMT
    <3>2. high + 1 = ec + 2
      BY <1>6
    <3> QED  BY <3>1, <3>2
  <2>2. end = offset + ct
    BY DEF end
  <2> QED  BY <1>1, <1>3, <1>6, <2>1, <2>2
<1> HIDE DEF RoomAt, windowed, low, high
<1>14. Held(RoomAt(windowed), count) = Held(room, count)
  <2>1. CASE delta < low
    <3>1. room <= 0 /\ windowed = low
      BY <1>8, <1>9, <1>10, <1>11, <1>12, <2>1
    <3> HIDE DEF room
    <3> QED  BY <1>1, <1>8, <1>10, <1>12, <3>1, HeldEdges DEF room
  <2>2. CASE delta > high
    <3>0. windowed = high
      BY <1>7, <1>8, <1>9, <2>2
    <3>1. ct <= room /\ windowed = high
      <4>1. RoomAt(high) <= room /\ RoomAt(high) \in Int /\ room \in Int
        <5>1. high \in Int /\ delta \in Int /\ high <= delta
          BY <1>8, <2>2
        <5>2. RoomAt(high) <= RoomAt(delta)
          BY <1>11, <5>1, Zenon
        <5>3. RoomAt(high) \in Int /\ RoomAt(delta) \in Int
          BY <1>10, <5>1, Zenon
        <5> QED  BY <5>2, <5>3, Zenon
      <4> HIDE DEF room
      <4> QED  BY <1>3, <1>13, <3>0, <4>1
    <3> HIDE DEF room
    <3> QED  BY <1>1, <1>8, <1>10, <1>13, <3>1, HeldEdges DEF room, ct, t
  <2>3. CASE low <= delta /\ delta <= high
    BY <1>8, <1>9, <2>3
  <2> QED  BY <1>8, <2>1, <2>2, <2>3
<1>15. room \in Int
  BY <1>10
<1> HIDE DEF room
<1>16. Held(room, count) \in 0 .. count
       /\ \A k \in 0 .. count - 1 : k < Held(room, count) <=> k * t < room
  BY <1>1, <1>15, HeldIs DEF t
<1> QED  BY <1>2, <1>14, <1>15, <1>16 DEF room, RoomAt, count, offset, t

(* A read is no later than an instant if it is before the nanosecond ends. *)
LEMMA PassedIs ==
    ASSUME SettingOK, NEW datum \in Int, NEW t \in Int, NEW j \in 0 .. video.packets - 1
    PROVE  ReadTime(datum, j) <= t <=>
               ReadAt(j) < (t - (datum \div Nano) + 1) * Nano - (datum % Nano)
<1> DEFINE q == datum \div Nano
           r == datum % Nano
           a == ReadAt(j)
           x == datum + a
           qn == q * Nano
           d == t - q
<1>1. Nano \in Nat /\ Nano > 0 /\ a \in Nat
  BY ConstantFacts, ReadAtFacts
<1>2. ReadTime(datum, j) = x \div Nano /\ ReadTime(datum, j) \in Int
  BY ReadTimeIs
<1>3. q \in Int /\ r \in 0 .. Nano - 1 /\ datum = qn + r /\ qn \in Int
  BY <1>1, Division, TimesFacts
<1> HIDE DEF a, q, r
<1>4. x \in Int
  BY <1>1
<1> HIDE DEF x
<1>5. t + 1 \in Int /\ (t + 1) * Nano \in Int
  BY <1>1, TimesFacts
<1>6. x \div Nano < t + 1 <=> x < (t + 1) * Nano
  <2> DEFINE u == t + 1
  <2>1. u \in Int
    OBVIOUS
  <2> HIDE DEF u
  <2>2. x \div Nano < u <=> x < u * Nano
    BY <1>1, <1>4, <2>1, DivReaches
  <2> QED  BY <2>2 DEF u
<1>7. (d + 1) * Nano = (t + 1) * Nano - qn
  <2>1. ((t - q) + 1) * Nano = (t + 1) * Nano - q * Nano
    BY <1>1, <1>3, SMT
  <2> QED  BY <2>1
<1>8. x = (qn + r) + a
  BY <1>3 DEF x
<1> DEFINE tn == (t + 1) * Nano
<1> HIDE DEF tn, qn
<1>9. ReadTime(datum, j) <= t <=> x < tn
  BY <1>2, <1>6 DEF tn
<1>10. x < tn <=> a < (tn - qn) - r
  BY <1>1, <1>3, <1>5, <1>8 DEF tn
<1>11. (d + 1) * Nano = tn - qn
  BY <1>7 DEF tn
<1> QED  BY <1>9, <1>10, <1>11, Zenon DEF a, q, r, d

LEMMA IntervalSize ==
    ASSUME NEW a \in Int, NEW n \in Nat
    PROVE  IsFiniteSet(a .. a + n - 1) /\ Cardinality(a .. a + n - 1) = n
<1> DEFINE b == a + n - 1
<1>1. b \in Int
  OBVIOUS
<1> HIDE DEF b
<1>2. IsFiniteSet(a .. b) /\ Cardinality(a .. b) = IF a > b THEN 0 ELSE b - a + 1
  BY <1>1, FS_Interval
<1>3. (a > b => n = 0) /\ (b - a) + 1 = n
  BY DEF b
<1>4. b - a + 1 = n
  BY <1>1, <1>3
<1> QED  BY <1>2, <1>3, <1>4 DEF b

(* What the runs have drained together is a count of reads.                *)
LEMMA DrainedTogether ==
    ASSUME SettingOK, NEW delta \in Int, NEW part \in 0 .. Nano - 1
    PROVE  LET drained == [s \in DOMAIN Segments |-> Drained(Segments[s], delta, part)]
               total == IF Len(Segments) = 1 THEN drained[1] ELSE drained[1] + drained[2]
               room == (delta + 1) * Nano - part
           IN  /\ total \in 0 .. video.packets
               /\ total = Cardinality({j \in 0 .. video.packets - 1 : ReadAt(j) < room})
<1> DEFINE n == video.packets
           t == TRead(video)
           one == [offset |-> 0, first |-> 0, count |-> First]
           two == [offset |-> Second, first |-> First, count |-> n - First]
           drained == [s \in DOMAIN Segments |-> Drained(Segments[s], delta, part)]
           total == IF Len(Segments) = 1 THEN drained[1] ELSE drained[1] + drained[2]
           c == Drained(one, delta, part)
           d == Drained(two, delta, part)
           room == (delta + 1) * Nano - part
           passed == {j \in 0 .. n - 1 : ReadAt(j) < room}
<1>1. /\ n \in Nat /\ n > 0 /\ t \in Nat /\ First \in 1 .. n /\ (~Fielded => First = n)
      /\ (Fielded => Second \in Nat)
  BY SettingFacts, ReadFacts, SegmentFacts DEF First
<1>2. /\ one.offset = 0 /\ one.count = First
      /\ two.offset = Second /\ two.count = n - First
  OBVIOUS
<1>3. room \in Int
  <2>1. delta + 1 \in Int /\ Nano \in Int
    BY ConstantFacts
  <2>2. (delta + 1) * Nano \in Int
    BY <2>1, TimesFacts
  <2> DEFINE x == (delta + 1) * Nano
  <2> HIDE DEF x
  <2> QED  BY <2>1, <2>2 DEF x
<1>4. c \in 0 .. First /\ \A k \in 0 .. First - 1 : k < c <=> k * t < room
  <2> DEFINE off == one.offset
             count == one.count
  <2>1. off \in Nat /\ count \in Nat
    BY <1>1, <1>2
  <2>2. c \in 0 .. count /\ \A k \in 0 .. count - 1 : k < c <=> k * t < (delta + 1) * Nano - part - off
    <3> HIDE DEF one
    <3> QED  BY <2>1, DrainedIs, Zenon DEF c, t, off, count
  <2>3. count = First /\ off = 0
    BY <1>2
  <2> HIDE DEF off, count, c, one
  <2>4. (delta + 1) * Nano - part - off = room
    BY <1>3, <2>3
  <2> HIDE DEF room
  <2> QED  BY <2>2, <2>3, <2>4
<1>5. ASSUME Fielded
      PROVE  d \in 0 .. n - First /\ \A k \in 0 .. n - First - 1 : k < d <=> Second + k * t < room
  <2> DEFINE off == two.offset
             count == two.count
  <2>1. off \in Nat /\ count \in Nat
    BY <1>1, <1>2, <1>5
  <2>2. d \in 0 .. count /\ \A k \in 0 .. count - 1 : k < d <=> k * t < (delta + 1) * Nano - part - off
    <3> HIDE DEF two
    <3> QED  BY <2>1, DrainedIs, Zenon DEF d, t, off, count
  <2>3. count = n - First /\ off = Second
    BY <1>2
  <2> HIDE DEF off, count, d, two
  <2>4. (delta + 1) * Nano - part - off = room - Second
    BY <1>1, <1>3, <1>5, <2>3
  <2> HIDE DEF room
  <2>5. \A k \in 0 .. count - 1 : k * t < room - Second <=> Second + k * t < room
    <3> SUFFICES ASSUME NEW k \in 0 .. count - 1 PROVE k * t < room - Second <=> Second + k * t < room
      OBVIOUS
    <3> DEFINE kt == k * t
    <3>1. kt \in Int
      BY <1>1, TimesFacts
    <3> HIDE DEF kt
    <3>2. kt < room - Second <=> Second + kt < room
      BY <1>1, <1>3, <1>5, <3>1
    <3> QED  BY <3>2 DEF kt
  <2> QED  BY <2>2, <2>3, <2>4, <2>5
<1> HIDE DEF c, d, room, one, two, n, t
<1>6. \A j \in 0 .. n - 1 : j < First => (j \in passed <=> j < c)
  <2> SUFFICES ASSUME NEW j \in 0 .. n - 1, j < First PROVE j \in passed <=> j < c
    OBVIOUS
  <2>1. ReadAt(j) = j * t
    BY DEF ReadAt, t
  <2>2. j \in 0 .. First - 1
    BY <1>1
  <2>3. j < c <=> j * t < room
    BY <1>4, <2>2
  <2> QED  BY <2>1, <2>3
<1>7. ASSUME Fielded
      PROVE  \A j \in 0 .. n - 1 : j >= First => (j \in passed <=> j - First < d)
  <2> SUFFICES ASSUME NEW j \in 0 .. n - 1, j >= First PROVE j \in passed <=> j - First < d
    OBVIOUS
  <2>1. ReadAt(j) = Second + (j - First) * t
    BY <1>1 DEF ReadAt, t
  <2>2. j - First \in 0 .. n - First - 1
    BY <1>1
  <2>3. j - First < d <=> Second + (j - First) * t < room
    BY <1>5, <1>7, <2>2
  <2> QED  BY <2>1, <2>3
<1>8. passed \subseteq 0 .. n - 1
  OBVIOUS
<1> HIDE DEF passed
<1>9. CASE ~Fielded
  <2>1. Segments = <<one>>
    BY <1>9, SegmentsAre DEF one
  <2>2. total = c
    <3>1. Len(Segments) = 1 /\ DOMAIN Segments = {1} /\ Segments[1] = one
      BY <2>1
    <3> QED  BY <3>1 DEF c
  <2>3. passed = 0 .. 0 + c - 1
    <3> DEFINE A == 0 .. 0 + c - 1
    <3>1. \A j \in Int : j \in A <=> 0 <= j /\ j < c
      BY <1>1, <1>4
    <3>2. \A j \in Int : j \in passed <=> j \in A
      BY <1>1, <1>4, <1>6, <1>8, <1>9, <3>1
    <3>3. passed \subseteq Int /\ A \subseteq Int
      BY <1>1, <1>4, <1>8
    <3> HIDE DEF A
    <3>4. passed = A
      BY <3>2, <3>3, Zenon
    <3> QED  BY <3>4 DEF A
  <2>4. Cardinality(0 .. 0 + c - 1) = c
    BY <1>1, <1>4, IntervalSize
  <2>5. total \in 0 .. n /\ total = Cardinality(passed)
    BY <1>1, <1>4, <1>9, <2>2, <2>3, <2>4
  <2> QED  BY <2>5 DEF passed, n, room
<1>10. CASE Fielded
  <2>1. Segments = <<one, two>>
    BY <1>10, SegmentsAre DEF one, two, n
  <2>2. total = c + d
    <3>1. Len(Segments) = 2 /\ DOMAIN Segments = {1, 2} /\ Segments[1] = one /\ Segments[2] = two
      BY <2>1
    <3> QED  BY <3>1 DEF c, d
  <2> DEFINE A == 0 .. 0 + c - 1
             B == First .. First + d - 1
  <2>3. c \in 0 .. First /\ d \in 0 .. n - First
    BY <1>4, <1>5, <1>10
  <2>4. \A j \in Int : j \in A <=> 0 <= j /\ j < c
    BY <2>3, <1>1
  <2>5. \A j \in Int : j \in B <=> First <= j /\ j - First < d
    BY <2>3, <1>1
  <2>6. A \cap B = {} /\ A \subseteq Int /\ B \subseteq Int
    BY <2>3, <1>1
  <2>7. passed = A \cup B
    <3>1. \A j \in Int : j \in passed => j \in A \cup B
      BY <1>1, <1>6, <1>7, <1>8, <1>10, <2>4, <2>5
    <3>2. \A j \in Int : j \in A => j \in passed
      BY <1>1, <1>6, <2>3, <2>4
    <3>3. \A j \in Int : j \in B => j \in passed
      BY <1>1, <1>7, <1>10, <2>3, <2>5
    <3>4. passed \subseteq Int
      BY <1>1, <1>8
    <3> HIDE DEF A, B
    <3> QED  BY <2>6, <3>1, <3>2, <3>3, <3>4, Zenon
  <2>8. IsFiniteSet(A) /\ Cardinality(A) = c /\ IsFiniteSet(B) /\ Cardinality(B) = d
    <3>1. IsFiniteSet(A) /\ Cardinality(A) = c
      <4>1. 0 \in Int /\ c \in Nat
        BY <1>1, <2>3
      <4> QED  BY <4>1, IntervalSize, Zenon
    <3>2. IsFiniteSet(B) /\ Cardinality(B) = d
      <4>1. First \in Int /\ d \in Nat
        BY <1>1, <2>3
      <4> QED  BY <4>1, IntervalSize, Zenon
    <3> QED  BY <3>1, <3>2
  <2> HIDE DEF A, B
  <2>9. Cardinality(A \cup B) = Cardinality(A) + Cardinality(B) - Cardinality(A \cap B)
    BY <2>8, FS_Union
  <2>10. Cardinality(A \cap B) = 0
    BY <2>6, FS_EmptySet
  <2>11. total \in 0 .. n /\ total = Cardinality(passed)
    BY <1>1, <2>2, <2>3, <2>7, <2>8, <2>9, <2>10
  <2> QED  BY <2>11 DEF passed, n, room
<1> QED  BY <1>9, <1>10

LEMMA AnchoredFacts ==
    ASSUME IInv, NEW i \in Kept, NEW anchor \in Anchors
    PROVE  /\ anchor # "first-packet" =>
                  Named(anchor, i) \in Int /\ Anchored(anchor, i) = Datum(Named(anchor, i))
           /\ Anchored(anchor, i) \in Int
           /\ anchor = "first-packet" =>
                  /\ times[Min(Kept)] \in Int /\ Frame(i) - Frame(Min(Kept)) \in Int
                  /\ Anchored(anchor, i) =
                         times[Min(Kept)] * Nano + (Frame(i) - Frame(Min(Kept))) * TFrame
<1>1. SettingOK /\ times \in Seq(Int)
  BY DEF IInv
<1>2. anchor \in {"ideal", "rtp", "first-packet"}
  BY DEF Anchors
<1>3. ASSUME anchor # "first-packet"
      PROVE  Named(anchor, i) \in Int /\ Anchored(anchor, i) = Datum(Named(anchor, i))
  <2>1. Anchored(anchor, i) = Datum(Named(anchor, i))
    BY <1>3 DEF Anchored
  <2>2. CASE anchor = "ideal"
    <3>1. Named("ideal", i) = Frame(i) + slip
      BY IdealIs
    <3>2. Frame(i) + slip \in Int
      BY <1>1, OpeningFacts, SettingFacts
    <3> QED  BY <2>1, <2>2, <3>1, <3>2
  <2>3. CASE anchor = "rtp"
    <3> DEFINE t == times[Opening(i)]
               stamp == Stamp(Frame(i))
               x == (t * Nano - TOffset(video)) * Clock.num
               y == TFrame * Clock.den
               ticks == x \div y
               turns == (ticks - stamp + TimestampModulus \div 2) \div TimestampModulus
               unwrapped == stamp + turns * TimestampModulus
               more == unwrapped * 2 * Clock.den + Clock.num
    <3>1. t \in Int /\ Frame(i) \in Nat
      BY SlotOf, <1>1, OpeningFacts
    <3>2. x \in Int
      <4>1. t * Nano \in Int /\ TOffset(video) \in Int
        <5> HIDE DEF t
        <5> QED  BY <1>1, <3>1, ConstantFacts, SettingFacts, TimesFacts
      <4> DEFINE z == t * Nano - TOffset(video)
      <4>2. z \in Int
        BY <4>1
      <4> HIDE DEF z
      <4>3. z * Clock.num \in Int
        BY <4>2, ConstantFacts, TimesFacts
      <4> QED  BY <4>3 DEF z
    <3>3. y \in Nat /\ y > 0
      <4>1. 1 * Clock.den <= TFrame * Clock.den /\ TFrame * Clock.den \in Int
        BY ConstantFacts, TimesOrder, TimesFacts
      <4> QED  BY <4>1, ConstantFacts
    <3>4. stamp \in Int
      <4> DEFINE g == Frame(i)
                 a == g * Clock.num
                 b == a \div Clock.den
      <4>1. a \in Int
        <5> HIDE DEF g
        <5> QED  BY <3>1, ConstantFacts, TimesFacts DEF g
      <4> HIDE DEF a
      <4>2. b \in Int
        BY <4>1, ConstantFacts, Division
      <4> HIDE DEF b
      <4>3. b % TimestampModulus \in Int
        BY <4>2, ConstantFacts, Division
      <4>4. stamp = b % TimestampModulus
        BY Zenon DEF Stamp, b, a
      <4> QED  BY <4>3, <4>4
    <3> HIDE DEF x, y, stamp
    <3>5. ticks \in Int
      BY <3>2, <3>3, Division
    <3> HIDE DEF ticks
    <3>6. turns \in Int
      <4> DEFINE z == ticks - stamp + TimestampModulus \div 2
      <4>1. z \in Int
        BY <3>4, <3>5, ConstantFacts
      <4> HIDE DEF z
      <4>2. z \div TimestampModulus \in Int
        BY <4>1, ConstantFacts, Division
      <4> QED  BY <4>2 DEF z
    <3> HIDE DEF turns
    <3>7. unwrapped \in Int
      <4>1. turns * TimestampModulus \in Int
        BY <3>6, ConstantFacts, TimesFacts
      <4> QED  BY <3>4, <4>1
    <3> HIDE DEF unwrapped
    <3>8. more \in Int
      <4>1. unwrapped * 2 \in Int
        BY <3>7
      <4> DEFINE z == unwrapped * 2
      <4> HIDE DEF z
      <4>2. z * Clock.den \in Int
        BY <4>1, ConstantFacts, TimesFacts DEF z
      <4>3. z * Clock.den + Clock.num \in Int
        BY <4>2, ConstantFacts
      <4> QED  BY <4>3 DEF z
    <3> HIDE DEF more
    <3>9. Wrapped(more) \in Int
      <4> DEFINE z == more + IntLimit
                 w == 2 * IntLimit
      <4>1. z \in Int /\ w \in Nat /\ w > 0
        BY <3>8, ConstantFacts
      <4> HIDE DEF z, w
      <4>2. z % w \in 0 .. w - 1
        BY <4>1, Division
      <4>3. Wrapped(more) = (z % w) - IntLimit
        BY Zenon DEF Wrapped, z, w
      <4> QED  BY <4>1, <4>2, <4>3, ConstantFacts
    <3> DEFINE wrapped == Wrapped(more)
               nn == 2 * Clock.num
    <3>10. Named("rtp", i) = wrapped \div nn
      BY Zenon DEF Named, RtpFrame, Unwrapped, wrapped, nn, more, unwrapped, turns, ticks, x, y, stamp, t
    <3>11. wrapped \in Int /\ nn \in Nat /\ nn > 0
      BY <3>9, ConstantFacts
    <3> HIDE DEF wrapped, nn
    <3>12. wrapped \div nn \in Int
      BY <3>11, Division
    <3> QED  BY <2>1, <2>3, <3>10, <3>12
  <2> QED  BY <1>2, <1>3, <2>2, <2>3
<1>4. ASSUME anchor = "first-packet"
      PROVE  /\ times[Min(Kept)] \in Int /\ Frame(i) - Frame(Min(Kept)) \in Int
             /\ Anchored(anchor, i) =
                    times[Min(Kept)] * Nano + (Frame(i) - Frame(Min(Kept))) * TFrame
             /\ Anchored(anchor, i) \in Int
  <2> DEFINE m == Min(Kept)
             t == times[m]
             f == Frame(i) - Frame(m)
  <2>1. m \in Kept /\ m \in 1 .. Len(times)
    BY <1>1, KeptFacts
  <2>2. t \in Int /\ f \in Int
    <3> HIDE DEF m
    <3>1. Frame(m) \in Nat /\ Frame(i) \in Nat
      BY <1>1, <2>1, OpeningFacts
    <3> QED  BY <1>1, <2>1, <3>1, ElementOfSeq
  <2>3. Anchored(anchor, i) = t * Nano + f * TFrame
    BY <1>4 DEF Anchored
  <2> HIDE DEF t, f
  <2>4. t * Nano \in Int /\ f * TFrame \in Int
    BY <2>2, ConstantFacts, TimesFacts
  <2>5. Anchored(anchor, i) \in Int
    BY <2>3, <2>4
  <2> QED  BY <2>2, <2>3, <2>5 DEF t, f, m
<1>5. Anchored(anchor, i) \in Int
  <2>1. anchor # "first-packet" => Datum(Named(anchor, i)) \in Int
    BY <1>1, <1>3, DatumFacts
  <2> QED  BY <1>3, <1>4, <2>1
<1> QED  BY <1>3, <1>4, <1>5

(* The windowed arithmetic is the count. *)
LEMMA VrxIs ==
    ASSUME IInv, NEW i \in Kept, NEW anchor \in Anchors
    PROVE  LET datum == Anchored(anchor, i)
               read == {j \in 0 .. video.packets - 1 : ReadTime(datum, j) <= times[i]}
           IN  /\ Vrx(anchor, i) = Packet(i) + 1 - Cardinality(read)
               /\ Cardinality(read) \in 0 .. video.packets
<1> DEFINE datum == Anchored(anchor, i)
           n == video.packets
           t == times[i]
           delta == t - datum \div Nano
           part == datum % Nano
           room == (delta + 1) * Nano - part
           read == {j \in 0 .. n - 1 : ReadTime(datum, j) <= t}
           under == {j \in 0 .. n - 1 : ReadAt(j) < room}
           drained == [s \in DOMAIN Segments |-> Drained(Segments[s], delta, part)]
           total == IF Len(Segments) = 1 THEN drained[1] ELSE drained[1] + drained[2]
<1>1. SettingOK /\ datum \in Int /\ t \in Int
  <2>1. SettingOK /\ times \in Seq(Int)
    BY DEF IInv
  <2>2. i \in 1 .. Len(times)
    BY <2>1, OpeningFacts
  <2> QED  BY <2>1, <2>2, AnchoredFacts, ElementOfSeq
<1> HIDE DEF datum, t
<1>2. delta \in Int /\ part \in 0 .. Nano - 1
  <2>1. datum \div Nano \in Int /\ part \in 0 .. Nano - 1
    BY <1>1, ConstantFacts, Division
  <2> QED  BY <1>1, <2>1
<1>3. Vrx(anchor, i) = Packet(i) + 1 - total
  BY Zenon DEF Vrx, total, drained, delta, part, datum, t
<1>4. read = under
  <2>1. \A j \in 0 .. n - 1 : ReadTime(datum, j) <= t <=> ReadAt(j) < room
    BY <1>1, PassedIs
  <2> HIDE DEF room
  <2> QED  BY <2>1
<1>5. total \in 0 .. n /\ total = Cardinality(under)
  <2> HIDE DEF delta, part
  <2> QED  BY <1>1, <1>2, DrainedTogether
<1> HIDE DEF total, under, read
<1>6. Vrx(anchor, i) = Packet(i) + 1 - Cardinality(read) /\ Cardinality(read) \in 0 .. n
  BY <1>3, <1>4, <1>5
<1> QED  BY <1>6 DEF read, n, datum, t

(* On every anchor the level of the buffer is a count of the instants      *)
(* read_times() gives: each read no later than the packet has drained one. *)
THEOREM BufferHolds == Spec => []VrxIsTheBuffer
<1>1. IInv => VrxIsTheBuffer
  BY VrxIs DEF VrxIsTheBuffer
<1> QED  BY <1>1, TimingInvariant, PTL

-----------------------------------------------------------------------------
(* Levels and limits.                                                      *)
LEMMA LevelRange ==
    ASSUME SettingOK, NEW at \in Seq(Int), Ordered(at), NEW i \in 1 .. Len(at)
    PROVE  CInst(at)[i] \in 1 .. i
<1> DEFINE low == Min({Walk(at, k) : k \in 1 .. i})
           x == Index(at[i] - Anchor(at))
<1>1. CInst(at)[i] = 1 + Walk(at, i) - low
  BY CInstIs
<1>2. low \in {Walk(at, k) : k \in 1 .. i} /\ \A k \in 1 .. i : low <= Walk(at, k)
  BY LowestIs
<1> HIDE DEF low
<1>3. PICK h \in 1 .. i : low = Walk(at, h)
  BY <1>2
<1>4. Len(at) \in Nat /\ i \in 1 .. i /\ h \in 1 .. Len(at) /\ h <= i
  OBVIOUS
<1>5. at[h] - Anchor(at) \in Int /\ at[i] - Anchor(at) \in Int /\ at[h] - Anchor(at) <= at[i] - Anchor(at)
  <2>1. at[h] <= at[i] /\ at[h] \in Int /\ at[i] \in Int
    BY <1>4, ElementOfSeq DEF Ordered
  <2>2. Anchor(at) \in Int
    BY WalkFacts
  <2> QED  BY <2>1, <2>2
<1> DEFINE y == Index(at[h] - Anchor(at))
<1>6. x \in Int /\ y \in Int /\ y <= x
  BY <1>5, IndexFacts
<1>7. Walk(at, i) = i - x /\ low = h - y
  BY <1>3 DEF Walk
<1>8. low <= Walk(at, i)
  BY <1>2, <1>4
<1> HIDE DEF x, y
<1>9. CInst(at)[i] = (1 + Walk(at, i)) - low
  BY <1>1, <1>4, <1>6, <1>7
<1> QED  BY <1>4, <1>6, <1>7, <1>8, <1>9

LEMMA LimitsFacts ==
    ASSUME SettingOK, NEW kind
    PROVE  /\ Limits(kind).kind = kind
           /\ Limits(kind).vrx_full \in Nat
           /\ Limits(kind).cmax \in Int
<1> DEFINE row == Row(kind)
           rate == video.packets * video.rate
           udp == IF video.max_udp = 1460 THEN 1500 ELSE video.max_udp
           active == IF kind = "N" THEN ActiveRatio(video) ELSE [num |-> 1, den |-> 1]
           a == row.octets \div udp
           b == rate \div row.vrx
           c == (rate * active.den) \div (row.cmax * active.num)
<1>1. /\ row.octets \in Nat /\ row.vrx \in Nat /\ row.vrx > 0
      /\ row.floor \in Nat /\ row.cmax \in Nat /\ row.cmax > 0
  BY SMT DEF Row
<1>2. udp \in Nat /\ udp > 0
  BY SettingFacts
<1>3. rate \in Nat
  <2> DEFINE n == video.packets
             r == video.rate
  <2>1. n \in Nat /\ r \in Nat
    BY SettingFacts
  <2> HIDE DEF n, r
  <2>2. n * r \in Nat
    BY <2>1, SMT
  <2> QED  BY <2>2 DEF n, r
<1>4. active.num \in Nat /\ active.num > 0 /\ active.den \in Nat
  <2>1. CASE kind = "N"
    BY <2>1, RatioFacts
  <2>2. CASE kind # "N"
    BY <2>2
  <2> QED  BY <2>1, <2>2
<1>5. /\ Limits(kind).kind = kind
      /\ Limits(kind).vrx_full = Max({a, b})
      /\ Limits(kind).cmax = Unbounded \/ Limits(kind).cmax = Max({row.floor, c})
  BY SMT DEF Limits
<1> HIDE DEF row, rate, udp, active
<1>6. a \in Nat
  <2> DEFINE o == row.octets
  <2>1. o \in Nat
    BY <1>1
  <2> HIDE DEF o
  <2>2. o \div udp \in Int /\ 0 * udp <= o /\ 0 * udp = 0
    BY <1>2, <2>1, Division
  <2>3. 0 <= o \div udp
    BY <1>2, <2>1, <2>2, DivReaches
  <2> QED  BY <2>2, <2>3 DEF o
<1>7. b \in Nat
  <2> DEFINE o == row.vrx
  <2>1. o \in Nat /\ o > 0
    BY <1>1
  <2> HIDE DEF o
  <2>2. rate \div o \in Int /\ 0 * o <= rate /\ 0 * o = 0
    BY <1>3, <2>1, Division
  <2>3. 0 <= rate \div o
    BY <1>3, <2>1, <2>2, DivReaches
  <2> QED  BY <2>2, <2>3 DEF o
<1>8. c \in Int
  <2> DEFINE num == active.num
             den == active.den
             most == row.cmax
             x == rate * den
             y == most * num
  <2>1. num \in Nat /\ num > 0 /\ den \in Nat /\ most \in Nat /\ most > 0
    BY <1>1, <1>4
  <2> HIDE DEF num, den, most
  <2>2. x \in Int /\ y \in Int /\ 1 * num <= y
    BY <1>3, <2>1, TimesFacts, TimesOrder
  <2>3. y \in Nat /\ y > 0
    BY <2>1, <2>2
  <2> HIDE DEF x, y
  <2>4. x \div y \in Int
    BY <2>2, <2>3, Division
  <2> QED  BY <2>4 DEF x, y, num, den, most
<1> HIDE DEF a, b, c
<1>9. Max({a, b}) \in Nat
  <2>1. Max({a, b}) = IF a <= b THEN b ELSE a
    BY <1>6, <1>7, MaxOfTwo
  <2> QED  BY <1>6, <1>7, <2>1
<1>10. Max({row.floor, c}) \in Int
  <2> DEFINE f == row.floor
  <2>1. f \in Int
    BY <1>1
  <2> HIDE DEF f
  <2>2. Max({f, c}) = IF f <= c THEN c ELSE f
    BY <1>8, <2>1, MaxOfTwo
  <2>3. Max({f, c}) \in Int
    BY <1>8, <2>1, <2>2
  <2> QED  BY <2>3 DEF f
<1> QED  BY <1>5, <1>9, <1>10 DEF Unbounded

(* Of a set of instants passed in order, the p-th has passed if more than  *)
(* p of them have.                                                         *)
LEMMA PassedInOrder ==
    ASSUME NEW n \in Nat, NEW S \in SUBSET (0 .. n - 1), NEW p \in 0 .. n - 1,
           \A h \in 0 .. n - 1 : \A j \in 0 .. n - 1 : h <= j /\ j \in S => h \in S
    PROVE  IsFiniteSet(S) /\ Cardinality(S) \in Nat /\ (p \in S <=> p < Cardinality(S))
<1>1. IsFiniteSet(0 .. n - 1)
  BY FS_Interval
<1>2. IsFiniteSet(S)
  BY <1>1, FS_Subset
<1>3. Cardinality(S) \in Nat
  BY <1>2, FS_CardinalityType
<1>4. ASSUME p \in S PROVE p < Cardinality(S)
  <2> DEFINE T == 0 .. 0 + (p + 1) - 1
  <2>1. T \in SUBSET S
    BY <1>4
  <2>2. p + 1 \in Nat /\ 0 \in Int
    OBVIOUS
  <2>3. Cardinality(T) = p + 1
    BY <2>2, IntervalSize, Zenon
  <2> HIDE DEF T
  <2>4. Cardinality(T) <= Cardinality(S)
    BY <1>2, <2>1, FS_Subset
  <2> QED  BY <1>3, <2>3, <2>4
<1>5. ASSUME p \notin S PROVE ~(p < Cardinality(S))
  <2> DEFINE T == 0 .. 0 + p - 1
  <2>1. S \in SUBSET T
    <3>1. \A j \in 0 .. n - 1 : j \in S => j < p
      BY <1>5
    <3> QED  BY <3>1
  <2>2. p \in Nat /\ 0 \in Int
    OBVIOUS
  <2>3. IsFiniteSet(T) /\ Cardinality(T) = p
    BY <2>2, IntervalSize, Zenon
  <2> HIDE DEF T
  <2>4. Cardinality(S) <= Cardinality(T)
    BY <2>1, <2>3, FS_Subset
  <2> QED  BY <1>3, <2>3, <2>4
<1> QED  BY <1>2, <1>3, <1>4, <1>5

(* The buffer at a packet against the reads of its own frame: read j has   *)
(* passed if the level says more than j packets have drained.              *)
LEMMA LevelTells ==
    ASSUME IInv, NEW i \in Kept, NEW j \in 0 .. video.packets - 1
    PROVE  /\ Vrx("ideal", i) \in Packet(i) + 1 - video.packets .. Packet(i) + 1
           /\ times[i] >= ReadTime(Datum(Frame(i) + slip), j)
                  <=> Vrx("ideal", i) <= Packet(i) - j
<1> DEFINE n == video.packets
           datum == Datum(Frame(i) + slip)
           t == times[i]
           read == {k \in 0 .. n - 1 : ReadTime(datum, k) <= t}
           c == Cardinality(read)
           v == Vrx("ideal", i)
           p == Packet(i)
<1>1. SettingOK /\ times \in Seq(Int) /\ i \in 1 .. Len(times) /\ p \in 0 .. n - 1 /\ Frame(i) \in Nat
  <2>1. SettingOK /\ times \in Seq(Int)
    BY DEF IInv
  <2> QED  BY <2>1, OpeningFacts
<1>2. n \in Nat /\ n > 0 /\ t \in Int
  BY <1>1, SettingFacts, ElementOfSeq
<1>3. datum \in Int
  <2>1. Frame(i) + slip \in Int
    BY <1>1, SettingFacts
  <2> QED  BY <1>1, <2>1, DatumFacts
<1>4. Anchored("ideal", i) = datum
  BY IdealIs DEF Anchored
<1>5. v = p + 1 - c /\ c \in 0 .. n
  <2>1. "ideal" \in Anchors
    BY DEF Anchors
  <2> QED  BY <1>4, <2>1, VrxIs
<1> HIDE DEF n, datum, t, v, p
<1>6. \A k \in 0 .. n - 1 : ReadTime(datum, k) \in Int
                            /\ ReadTime(datum, k) = (datum + ReadAt(k)) \div Nano
  BY <1>1, <1>3, ReadTimeIs DEF n
<1>7. \A k, m \in 0 .. n - 1 : k <= m => ReadTime(datum, k) <= ReadTime(datum, m)
  <2> SUFFICES ASSUME NEW k \in 0 .. n - 1, NEW m \in 0 .. n - 1, k <= m
               PROVE  ReadTime(datum, k) <= ReadTime(datum, m)
    OBVIOUS
  <2> DEFINE x == datum + ReadAt(k)
             y == datum + ReadAt(m)
  <2>1. ReadAt(k) \in Nat /\ ReadAt(m) \in Nat /\ ReadAt(k) <= ReadAt(m)
    <3>1. m \in k .. n - 1
      BY <1>2
    <3> QED  BY <1>1, <3>1, ReadAtFacts DEF n
  <2>2. x \in Int /\ y \in Int /\ x <= y
    BY <1>3, <2>1
  <2> HIDE DEF x, y
  <2>3. x \div Nano <= y \div Nano
    BY <2>2, ConstantFacts, DivOrder
  <2> QED  BY <1>6, <2>3 DEF x, y
<1>8. j \in 0 .. n - 1
  BY DEF n
<1>9. read \in SUBSET (0 .. n - 1)
      /\ (\A k, m \in 0 .. n - 1 : k <= m /\ m \in read => k \in read)
  <2>1. ASSUME NEW k \in 0 .. n - 1, NEW m \in 0 .. n - 1, k <= m, m \in read PROVE k \in read
    <3>1. ReadTime(datum, k) <= ReadTime(datum, m) /\ ReadTime(datum, m) <= t
      BY <1>7, <2>1
    <3>2. ReadTime(datum, k) <= t
      BY <1>2, <1>6, <3>1
    <3> QED  BY <3>2
  <2> QED  BY <2>1
<1>10. j \in read <=> ReadTime(datum, j) <= t
  BY <1>8
<1> HIDE DEF read
<1>11. j \in read <=> j < c
  BY <1>2, <1>8, <1>9, PassedInOrder
<1>12. ReadTime(datum, j) \in Int
  BY <1>6, <1>8
<1> HIDE DEF c
<1>13. p \in Int /\ c \in Int /\ j \in Int /\ p + 1 - c = (p + 1) - c
  BY <1>1, <1>2, <1>5, <1>8
<1>14. v \in p + 1 - n .. p + 1
  BY <1>2, <1>5, <1>13
<1>15. t >= ReadTime(datum, j) <=> v <= p - j
  BY <1>2, <1>5, <1>10, <1>11, <1>12, <1>13
<1> QED  BY <1>14, <1>15 DEF v, p, n, t, datum

-----------------------------------------------------------------------------
(* The verdict.  Where a capture begins at a frame start, all of it is     *)
(* kept.                                                                   *)
LEMMA AllIsKept ==
    ASSUME IInv, Kept # {}, start.packet = 0
    PROVE  Kept = 1 .. Len(times) /\ Len(times) \in Nat /\ KeptTimes = times
<1> DEFINE n == Len(times)
           m == Min(Kept)
<1>1. times \in Seq(Int) /\ n \in Nat /\ DOMAIN times = 1 .. n
  BY DEF IInv
<1>2. Kept = 1 .. n
  BY <1>1 DEF Kept
<1>3. /\ m \in 1 .. n /\ \A i \in Kept : m <= i
      /\ KeptTimes \in Seq(Int) /\ Len(KeptTimes) = n - m + 1
      /\ \A i \in 1 .. n - m + 1 : KeptTimes[i] = times[m + i - 1]
  BY <1>1, KeptFacts
<1> HIDE DEF m
<1>4. m = 1
  <2>1. 1 \in Kept /\ m \in Nat /\ m >= 1
    BY <1>1, <1>2, <1>3
  <2>2. m <= 1
    BY <1>3, <2>1
  <2> QED  BY <2>1, <2>2
<1>5. Len(KeptTimes) = n /\ \A i \in 1 .. n : KeptTimes[i] = times[i]
  <2>1. n - m + 1 = n /\ \A i \in 1 .. n : m + i - 1 = i
    BY <1>1, <1>4
  <2> QED  BY <1>3, <2>1
<1> HIDE DEF n
<1>6. KeptTimes = times
  BY <1>1, <1>3, <1>5 DEF n
<1> QED  BY <1>1, <1>2, <1>6 DEF n

(* The peaks measure() judges by are the highest of the levels it is about *)
(* and the highest and lowest of the buffer's.                             *)
LEMMA PeaksAre ==
    ASSUME IInv, Kept # {}, start.packet = 0
    PROVE  LET cMax == Max({CInst(KeptTimes)[i] : i \in DOMAIN KeptTimes})
               vMax == Max({Vrx("ideal", i) : i \in Kept})
               vMin == Min({Vrx("ideal", i) : i \in Kept})
           IN  /\ cMax \in Int /\ vMax \in Int /\ vMin \in Int
               /\ \A i \in Kept : /\ levels[i] \in Int /\ levels[i] <= cMax
                                  /\ Vrx("ideal", i) \in Int
                                  /\ Vrx("ideal", i) <= vMax /\ vMin <= Vrx("ideal", i)
               /\ \E i \in Kept : levels[i] = cMax
               /\ \E i \in Kept : Vrx("ideal", i) = vMax
               /\ \E i \in Kept : Vrx("ideal", i) = vMin
<1> DEFINE n == Len(times)
           z == video.packets
           buckets == {CInst(KeptTimes)[i] : i \in DOMAIN KeptTimes}
           buffer == {Vrx("ideal", i) : i \in Kept}
           cMax == Max(buckets)
           vMax == Max(buffer)
           vMin == Min(buffer)
<1>1. Kept = 1 .. n /\ n \in Nat /\ KeptTimes = times
  BY AllIsKept
<1>2. SettingOK /\ times \in Seq(Int) /\ Ordered(times) /\ levels = CInst(times) /\ DOMAIN times = 1 .. n
  BY DEF IInv
<1>3. z \in Nat
  BY <1>2, SettingFacts
<1>4. buckets = {levels[i] : i \in Kept}
  BY <1>1, <1>2, Zenon
<1>5. \A i \in Kept : levels[i] \in Int /\ levels[i] <= n
  <2> SUFFICES ASSUME NEW i \in Kept PROVE levels[i] \in Int /\ levels[i] <= n
    OBVIOUS
  <2>1. i \in 1 .. Len(times)
    BY <1>1
  <2>2. CInst(times)[i] \in 1 .. i
    BY <1>2, <2>1, LevelRange
  <2> QED  BY <1>1, <1>2, <2>1, <2>2
<1>6. \A i \in Kept : Vrx("ideal", i) \in Int /\ -z <= Vrx("ideal", i) /\ Vrx("ideal", i) <= z
  <2> SUFFICES ASSUME NEW i \in Kept
               PROVE  Vrx("ideal", i) \in Int /\ -z <= Vrx("ideal", i) /\ Vrx("ideal", i) <= z
    OBVIOUS
  <2>1. Packet(i) \in 0 .. z - 1
    BY <1>2, OpeningFacts
  <2>2. 0 \in 0 .. z - 1
    BY <1>2, SettingFacts
  <2>3. Vrx("ideal", i) \in Packet(i) + 1 - z .. Packet(i) + 1
    BY <2>2, LevelTells
  <2> QED  BY <1>3, <2>1, <2>3
<1>7. buckets \subseteq Int /\ buckets # {} /\ buffer \subseteq Int /\ buffer # {}
  BY <1>4, <1>5, <1>6
<1>8. n \in Int /\ z \in Int /\ \A x \in buckets : x <= n
  <2>1. n \in Int /\ z \in Int
    BY <1>1, <1>3
  <2>2. \A x \in buckets : x <= n
    BY <1>4, <1>5, Zenon
  <2> QED  BY <2>1, <2>2
<1>9. -z \in Int /\ \A x \in buffer : -z <= x /\ x <= z
  BY <1>3, <1>6
<1> HIDE DEF buckets, buffer
<1>10. cMax \in buckets /\ \A x \in buckets : x <= cMax
  BY <1>7, <1>8, MaxBounded
<1>11. vMax \in buffer /\ \A x \in buffer : x <= vMax
  BY <1>7, <1>8, <1>9, MaxBounded
<1>12. vMin \in buffer /\ \A x \in buffer : vMin <= x
  BY <1>7, <1>9, MinBounded
<1> HIDE DEF cMax, vMax, vMin
<1>13. cMax \in Int /\ vMax \in Int /\ vMin \in Int
  BY <1>7, <1>10, <1>11, <1>12
<1>14. (\E i \in Kept : levels[i] = cMax) /\ \A i \in Kept : levels[i] \in buckets
  BY <1>4, <1>10
<1>15. (\E i \in Kept : Vrx("ideal", i) = vMax) /\ (\E i \in Kept : Vrx("ideal", i) = vMin)
       /\ \A i \in Kept : Vrx("ideal", i) \in buffer
  BY <1>11, <1>12 DEF buffer
<1>16. \A i \in Kept : /\ levels[i] \in Int /\ levels[i] <= cMax
                       /\ Vrx("ideal", i) \in Int
                       /\ Vrx("ideal", i) <= vMax /\ vMin <= Vrx("ideal", i)
  BY <1>5, <1>6, <1>10, <1>11, <1>12, <1>14, <1>15
<1> QED  BY <1>13, <1>14, <1>15, <1>16 DEF cMax, vMax, vMin, buckets, buffer

(* Peaks are inside a type's limits if every packet's levels are.          *)
LEMMA InsideThroughout ==
    ASSUME NEW S, NEW bucket, NEW buffer, NEW limits, NEW cMax \in Int, NEW vMax \in Int,
           limits.vrx_full \in Int, limits.cmax \in Int,
           \A i \in S : /\ bucket[i] \in Int /\ bucket[i] <= cMax
                        /\ buffer[i] \in Int /\ buffer[i] <= vMax,
           \E i \in S : bucket[i] = cMax,
           \E i \in S : buffer[i] = vMax
    PROVE  Inside(limits, cMax, vMax) <=> \A i \in S : Inside(limits, bucket[i], buffer[i])
<1> DEFINE full == limits.vrx_full
           most == limits.cmax
<1>1. \A c, v : Inside(limits, c, v) <=> v <= full /\ (most = Unbounded \/ c <= most)
  BY DEF Inside
<1>2. full \in Int /\ most \in Int
  OBVIOUS
<1> HIDE DEF full, most
<1>3. ASSUME Inside(limits, cMax, vMax), NEW i \in S
      PROVE  Inside(limits, bucket[i], buffer[i])
  BY <1>1, <1>2, <1>3
<1>4. ASSUME \A i \in S : Inside(limits, bucket[i], buffer[i])
      PROVE  Inside(limits, cMax, vMax)
  <2>1. PICK h \in S : bucket[h] = cMax
    OBVIOUS
  <2>2. PICK k \in S : buffer[k] = vMax
    OBVIOUS
  <2>3. Inside(limits, bucket[h], buffer[h]) /\ Inside(limits, bucket[k], buffer[k])
    BY <1>4
  <2> QED  BY <1>1, <2>1, <2>2, <2>3
<1> QED  BY <1>3, <1>4

(* A packet was late for the read after its own if the buffer ran dry.     *)
LEMMA LateIsDry ==
    ASSUME IInv, NEW i \in Kept
    PROVE  Vrx("ideal", i) < 0 <=>
               Packet(i) < video.packets - 1 /\ times[i] >= ReadOf(i, 1)
<1> DEFINE z == video.packets
           p == Packet(i)
           v == Vrx("ideal", i)
<1>1. SettingOK /\ times \in Seq(Int)
  BY DEF IInv
<1>2. z \in Nat /\ z > 0 /\ p \in 0 .. z - 1
  BY <1>1, SettingFacts, OpeningFacts
<1>3. v \in p + 1 - z .. p + 1
  <2>1. 0 \in 0 .. z - 1
    BY <1>2
  <2> QED  BY <2>1, LevelTells
<1>4. CASE p < z - 1
  <2>1. p + 1 \in 0 .. z - 1
    BY <1>2, <1>4
  <2>2. times[i] >= ReadTime(Datum(Frame(i) + slip), p + 1) <=> v <= p - (p + 1)
    BY <2>1, LevelTells
  <2>3. times[i] >= ReadOf(i, 1) <=> v <= p - (p + 1)
    BY <2>2 DEF ReadOf
  <2> HIDE DEF p, v, z
  <2>4. v \in Int /\ p - (p + 1) = -1
    BY <1>2, <1>3
  <2>5. v < 0 <=> v <= p - (p + 1)
    BY <2>4
  <2> QED  BY <1>4, <2>3, <2>5 DEF p, v, z
<1>5. CASE ~(p < z - 1)
  <2>1. ~(v < 0)
    <3> HIDE DEF p, v, z
    <3> QED  BY <1>2, <1>3, <1>5
  <2> QED  BY <1>5, <2>1
<1> QED  BY <1>4, <1>5

(* Of a buffer no fuller than vrx_full, no packet is later than vrx_full   *)
(* reads before its own.                                                   *)
LEMMA FullIsEarly ==
    ASSUME IInv, NEW i \in Kept, NEW full \in Nat, Vrx("ideal", i) <= full, Packet(i) >= full
    PROVE  times[i] >= ReadOf(i, -full)
<1> DEFINE z == video.packets
           p == Packet(i)
           v == Vrx("ideal", i)
<1>1. SettingOK /\ times \in Seq(Int)
  BY DEF IInv
<1>2. z \in Nat /\ z > 0 /\ p \in 0 .. z - 1
  BY <1>1, SettingFacts, OpeningFacts
<1>3. p - full \in 0 .. z - 1
  BY <1>2
<1>4. times[i] >= ReadTime(Datum(Frame(i) + slip), p - full) <=> v <= p - (p - full)
  BY <1>3, LevelTells
<1>5. p - (p - full) = full /\ p + (-full) = p - full
  BY <1>2
<1> QED  BY <1>4, <1>5 DEF ReadOf

(* What Profile answers: "none" where the buffer ran dry or neither type's *)
(* limits hold the peaks, and otherwise a type whose limits do.            *)
LEMMA ProfileIs ==
    ASSUME SettingOK, NEW cMax, NEW vMax, NEW vMin \in Int
    PROVE  LET profile == Profile(cMax, vMax, vMin)
           IN  /\ profile = "none" <=>
                      \/ vMin < 0
                      \/ /\ ~Inside(Limits(video.kind), cMax, vMax)
                         /\ ~Inside(Limits("W"), cMax, vMax)
               /\ profile # "none" => /\ profile \in {video.kind, "W"}
                                      /\ Inside(Limits(profile), cMax, vMax)
<1> DEFINE own == Inside(Limits(video.kind), cMax, vMax)
           wide == Inside(Limits("W"), cMax, vMax)
           profile == Profile(cMax, vMax, vMin)
<1>1. video.kind # "none" /\ "W" # "none"
  <2>1. video.kind \in {"N", "NL", "W"}
    BY TimingAssumption DEF SettingOK
  <2> QED  BY <2>1
<1>2. profile = CASE vMin >= 0 /\ own -> video.kind
                  [] vMin >= 0 /\ ~own /\ wide -> "W"
                  [] OTHER -> "none"
  BY Zenon DEF Profile
<1> HIDE DEF profile
<1>3. CASE vMin >= 0 /\ own
  <2>1. profile = video.kind
    <3> HIDE DEF own, wide
    <3> QED  BY <1>2, <1>3
  <2>2. ~(vMin < 0)
    BY <1>3
  <2> QED  BY <1>1, <1>3, <2>1, <2>2, Zenon DEF profile
<1>4. CASE vMin >= 0 /\ ~own /\ wide
  <2>1. profile = "W"
    <3> HIDE DEF own, wide
    <3> QED  BY <1>2, <1>4
  <2>2. ~(vMin < 0)
    BY <1>4
  <2> QED  BY <1>1, <1>4, <2>1, <2>2, Zenon DEF profile
<1>5. CASE vMin < 0 \/ (~own /\ ~wide)
  <2>1. profile = "none"
    <3>1. ~(vMin >= 0 /\ own) /\ ~(vMin >= 0 /\ ~own /\ wide)
      BY <1>5
    <3> HIDE DEF own, wide
    <3> QED  BY <1>2, <3>1
  <2> QED  BY <1>5, <2>1, Zenon DEF profile
<1>6. \/ vMin >= 0 /\ own
      \/ vMin >= 0 /\ ~own /\ wide
      \/ vMin < 0 \/ (~own /\ ~wide)
  <2>1. vMin >= 0 \/ vMin < 0
    OBVIOUS
  <2> HIDE DEF own, wide
  <2> QED  BY <2>1
<1> QED  BY <1>3, <1>4, <1>5, <1>6, Zenon

LEMMA EarnedIs == IInv => ProfileIsEarned
<1> SUFFICES ASSUME IInv, Kept # {}, start.packet = 0
             PROVE  LET profile == Measure("ideal").profile
                    IN  /\ profile = "none" <=>
                               \/ \E i \in Kept : Packet(i) < video.packets - 1 /\ times[i] >= ReadOf(i, 1)
                               \/ \A kind \in {video.kind, "W"} :
                                    \E i \in Kept : ~Inside(Limits(kind), levels[i], Vrx("ideal", i))
                        /\ profile # "none" => \A i \in Kept :
                               /\ Limits(profile).cmax # Unbounded => levels[i] <= Limits(profile).cmax
                               /\ Packet(i) >= Limits(profile).vrx_full =>
                                      times[i] >= ReadOf(i, -Limits(profile).vrx_full)
  BY Zenon DEF ProfileIsEarned
<1> DEFINE buckets == {CInst(KeptTimes)[i] : i \in DOMAIN KeptTimes}
           buffer == {Vrx("ideal", i) : i \in Kept}
           cMax == Max(buckets)
           vMax == Max(buffer)
           vMin == Min(buffer)
           v == [i \in Kept |-> Vrx("ideal", i)]
           profile == Measure("ideal").profile
<1>1. SettingOK
  BY DEF IInv
<1>2. /\ cMax \in Int /\ vMax \in Int /\ vMin \in Int
      /\ \A i \in Kept : /\ levels[i] \in Int /\ levels[i] <= cMax
                         /\ v[i] \in Int
                         /\ v[i] <= vMax /\ vMin <= v[i]
      /\ \E i \in Kept : levels[i] = cMax
      /\ \E i \in Kept : v[i] = vMax
      /\ \E i \in Kept : v[i] = vMin
  BY PeaksAre, Zenon
<1>3. profile = Profile(cMax, vMax, vMin)
  BY Zenon DEF Measure
<1>4. \A i \in Kept : v[i] = Vrx("ideal", i)
  BY Zenon
<1> HIDE DEF buckets, buffer, cMax, vMax, vMin, v, profile
<1>5. ASSUME NEW kind
      PROVE  Inside(Limits(kind), cMax, vMax)
                 <=> \A i \in Kept : Inside(Limits(kind), levels[i], v[i])
  <2> DEFINE limits == Limits(kind)
  <2>1. limits.vrx_full \in Nat /\ limits.cmax \in Int
    BY <1>1, LimitsFacts
  <2> HIDE DEF limits
  <2>2. Inside(limits, cMax, vMax) <=> \A i \in Kept : Inside(limits, levels[i], v[i])
    <3>1. limits.vrx_full \in Int
      BY <2>1
    <3> QED  BY <1>2, <2>1, <3>1, InsideThroughout
  <2> QED  BY <2>2 DEF limits
<1>6. vMin < 0 <=> \E i \in Kept : Packet(i) < video.packets - 1 /\ times[i] >= ReadOf(i, 1)
  <2>1. vMin < 0 <=> \E i \in Kept : v[i] < 0
    BY <1>2
  <2>2. \A i \in Kept : v[i] < 0 <=> Packet(i) < video.packets - 1 /\ times[i] >= ReadOf(i, 1)
    BY <1>4, LateIsDry
  <2> QED  BY <2>1, <2>2, Zenon
<1>7. /\ profile = "none" <=>
             \/ vMin < 0
             \/ /\ ~Inside(Limits(video.kind), cMax, vMax)
                /\ ~Inside(Limits("W"), cMax, vMax)
      /\ profile # "none" => Inside(Limits(profile), cMax, vMax)
  BY <1>1, <1>2, <1>3, ProfileIs, Zenon
<1>8. profile = "none" <=>
             \/ \E i \in Kept : Packet(i) < video.packets - 1 /\ times[i] >= ReadOf(i, 1)
             \/ \A kind \in {video.kind, "W"} :
                  \E i \in Kept : ~Inside(Limits(kind), levels[i], Vrx("ideal", i))
  <2>1. \A kind : ~Inside(Limits(kind), cMax, vMax)
                      <=> \E i \in Kept : ~Inside(Limits(kind), levels[i], Vrx("ideal", i))
    BY <1>4, <1>5, Zenon
  <2>2. (\A kind \in {video.kind, "W"} : ~Inside(Limits(kind), cMax, vMax))
           <=> ~Inside(Limits(video.kind), cMax, vMax) /\ ~Inside(Limits("W"), cMax, vMax)
    BY Zenon
  <2> QED  BY <1>6, <1>7, <2>1, <2>2, Zenon
<1>9. ASSUME profile # "none", NEW i \in Kept
      PROVE  /\ Limits(profile).cmax # Unbounded => levels[i] <= Limits(profile).cmax
             /\ Packet(i) >= Limits(profile).vrx_full =>
                    times[i] >= ReadOf(i, -Limits(profile).vrx_full)
  <2> DEFINE limits == Limits(profile)
             full == limits.vrx_full
  <2>1. Inside(limits, levels[i], v[i])
    BY <1>5, <1>7, <1>9, Zenon
  <2>2. full \in Nat
    BY <1>1, LimitsFacts
  <2> HIDE DEF limits
  <2>3. v[i] <= full /\ (limits.cmax # Unbounded => levels[i] <= limits.cmax)
    BY <2>1 DEF Inside
  <2> HIDE DEF full
  <2>4. Packet(i) >= full => times[i] >= ReadOf(i, -full)
    BY <1>4, <2>2, <2>3, FullIsEarly
  <2> QED  BY <2>3, <2>4 DEF limits, full
<1> QED  BY <1>8, <1>9, Zenon DEF profile

(* _profile() earns its verdict: no type is given to a sender one of whose *)
(* packets went as late as the next packet's read or whose peaks leave the *)
(* type's limits, none is withheld from any other sender, and the packets  *)
(* of a sender given one were sent within its bucket and its buffer.       *)
THEOREM ProfileHolds == Spec => []ProfileIsEarned
<1> QED  BY EarnedIs, TimingInvariant, PTL

-----------------------------------------------------------------------------
(* What the refusals keep in int64.  Equal ratios have equal floors.       *)
LEMMA SameFloor ==
    ASSUME NEW x \in Int, NEW a \in Nat, a > 0, NEW y \in Int, NEW b \in Nat, b > 0, x * b = y * a
    PROVE  x \div a = y \div b
<1> DEFINE xb == x * b
           ya == y * a
           ab == a * b
<1>1. xb \div ab = x \div a
  BY DivScaled
<1>2. b * a = ab
  BY TimesFacts
<1>3. ya \div (b * a) = y \div b
  BY DivScaled
<1> QED  BY <1>1, <1>2, <1>3

LEMMA RatioValue ==
    ASSUME NEW n \in Int, NEW d \in Nat, d > 0
    PROVE  n * Ratio(n, d).den = Ratio(n, d).num * d
<1> DEFINE p == Ratio(n, d).num
           q == Ratio(n, d).den
<1>1. p \in Int /\ q \in Nat
  BY RatioIs
<1>2. PICK g \in Nat : n = p * g /\ d = q * g
  BY RatioIs
<1> HIDE DEF p, q
<1>3. (p * g) * q = p * (q * g)
  BY <1>1, SMT
<1> QED  BY <1>2, <1>3 DEF p, q

LEMMA MagnitudeFacts ==
    ASSUME NEW n \in Int
    PROVE  Magnitude(n) \in Nat /\ n <= Magnitude(n) /\ -Magnitude(n) <= n
  BY DEF Magnitude

(* Finitely many integers have a bound.                                    *)
LEMMA HasBound ==
    ASSUME NEW n \in Nat, NEW f, \A i \in 1 .. n : f[i] \in Int
    PROVE  \E high \in Int : \A i \in 1 .. n : f[i] <= high
<1> DEFINE S == {k \in 0 .. n : \E high \in Int : \A i \in 1 .. k : f[i] <= high}
<1>1. 0 \in S
  <2>1. \A i \in 1 .. 0 : f[i] <= 0
    OBVIOUS
  <2>2. 0 \in Int /\ 0 \in 0 .. n
    OBVIOUS
  <2> QED  BY <2>1, <2>2
<1>2. \A k \in 0 .. n - 1 : k \in S => k + 1 \in S
  <2> SUFFICES ASSUME NEW k \in 0 .. n - 1, k \in S PROVE k + 1 \in S
    OBVIOUS
  <2>1. PICK high \in Int : \A i \in 1 .. k : f[i] <= high
    OBVIOUS
  <2>2. f[k + 1] \in Int /\ k + 1 \in 0 .. n
    OBVIOUS
  <2> DEFINE top == IF high <= f[k + 1] THEN f[k + 1] ELSE high
  <2>3. top \in Int /\ high <= top /\ f[k + 1] <= top
    BY <2>2
  <2> HIDE DEF top
  <2>4. \A i \in 1 .. k + 1 : f[i] <= top
    <3> SUFFICES ASSUME NEW i \in 1 .. k + 1 PROVE f[i] <= top
      OBVIOUS
    <3>1. CASE i = k + 1
      BY <2>3, <3>1
    <3>2. CASE i # k + 1
      <4>1. i \in 1 .. k /\ f[i] \in Int
        BY <3>2
      <4> QED  BY <2>1, <2>3, <4>1
    <3> QED  BY <3>1, <3>2
  <2> QED  BY <2>2, <2>3, <2>4
<1>3. 0 .. n \subseteq S
  <2> HIDE DEF S
  <2> QED  BY <1>1, <1>2, UpTo
<1>4. n \in S
  <2>1. n \in 0 .. n
    OBVIOUS
  <2> HIDE DEF S
  <2> QED  BY <1>3, <2>1
<1> QED  BY <1>4

(* Of the counts a call is given, the peak it is refused by is no less     *)
(* than any one's.                                                         *)
LEMMA TopIs ==
    ASSUME NEW n \in Nat, NEW f, \A i \in 1 .. n : f[i] \in Int, NEW S,
           S \subseteq 1 .. n
    PROVE  LET top == Max({Magnitude(c) : c \in {f[i] : i \in S}} \cup {0})
           IN  top \in Nat /\ \A i \in S : Magnitude(f[i]) <= top
<1> DEFINE g == [i \in 1 .. n |-> Magnitude(f[i])]
           T == {Magnitude(c) : c \in {f[i] : i \in S}} \cup {0}
<1>1. \A i \in 1 .. n : g[i] = Magnitude(f[i]) /\ Magnitude(f[i]) \in Nat
  BY MagnitudeFacts
<1> HIDE DEF g
<1>2. PICK high \in Int : \A i \in 1 .. n : g[i] <= high
  <2>1. \A i \in 1 .. n : g[i] \in Int
    BY <1>1
  <2> QED  BY <2>1, HasBound
<1> DEFINE top == IF high <= 0 THEN 0 ELSE high
<1>3. top \in Int /\ 0 <= top /\ high <= top
  OBVIOUS
<1> HIDE DEF top
<1>4. \A x \in T : x \in Nat /\ (x = 0 \/ \E i \in S : x = Magnitude(f[i]))
  BY <1>1
<1>5. T \subseteq Int /\ T # {} /\ 0 \in T
  BY <1>4
<1>6. \A i \in S : Magnitude(f[i]) \in T
  OBVIOUS
<1>7. \A x \in T : x <= top
  <2> SUFFICES ASSUME NEW x \in T PROVE x <= top
    OBVIOUS
  <2>1. CASE x = 0
    BY <1>3, <2>1
  <2>2. CASE x # 0
    <3>1. PICK i \in S : x = Magnitude(f[i])
      BY <1>4, <2>2
    <3>2. g[i] <= high /\ g[i] = x /\ x \in Nat
      BY <1>1, <1>2, <3>1
    <3> QED  BY <1>3, <3>2
  <2> QED  BY <2>1, <2>2
<1> HIDE DEF T
<1>8. Max(T) \in T /\ \A x \in T : x <= Max(T)
  BY <1>3, <1>5, <1>7, MaxBounded
<1>9. Max(T) \in Nat
  BY <1>4, <1>8
<1> QED  BY <1>6, <1>8, <1>9 DEF T

(* A call that is not refused answers in int64: phase plus n steps of      *)
(* slope, both of m parts, floored.                                        *)
LEMMA FitsHolds ==
    ASSUME NEW counts, NEW n \in Int, NEW m \in Nat, m > 0, NEW x \in Int, NEW s \in Nat,
           NEW slope, slope.num \in Nat, slope.den \in Nat, slope.den > 0,
           NEW phase, phase.num \in Int, phase.den \in Nat, phase.den > 0,
           s * slope.den = slope.num * m, x * phase.den = phase.num * m,
           Max({Magnitude(c) : c \in counts} \cup {0}) \in Nat,
           Magnitude(n) <= Max({Magnitude(c) : c \in counts} \cup {0}),
           Fits(counts, slope, phase), IntLimit \in Nat
    PROVE  IsInt64((x + n * s) \div m)
<1> DEFINE sn == slope.num
           sd == slope.den
           pn == phase.num
           pd == phase.den
           top == Max({Magnitude(c) : c \in counts} \cup {0})
           grid == Multiple(sd, pd)
           g == grid \div sd
           h == grid \div pd
           off == pn * h
           q == off \div grid
           r == off % grid
           peak == top * sn * g + r
<1>1. sn \in Nat /\ sd \in Nat /\ sd > 0 /\ pn \in Int /\ pd \in Nat /\ pd > 0
      /\ s * sd = sn * m /\ x * pd = pn * m
  OBVIOUS
<1>2. top \in Nat /\ Magnitude(n) <= top /\ Magnitude(n) \in Nat
      /\ n <= Magnitude(n) /\ -Magnitude(n) <= n
  BY MagnitudeFacts
<1>3. peak < IntLimit /\ Magnitude(q) + peak \div grid + 1 < IntLimit
  BY Zenon DEF Fits
<1> HIDE DEF sn, sd, pn, pd, top
<1>4. /\ grid \in Nat /\ grid > 0
      /\ \E a \in Nat : a > 0 /\ grid = a * sd
      /\ \E b \in Nat : b > 0 /\ grid = b * pd
  BY <1>1, MultipleIs
<1> HIDE DEF grid
<1>5. PICK a \in Nat : a > 0 /\ grid = a * sd
  BY <1>4
<1>6. PICK b \in Nat : b > 0 /\ grid = b * pd
  BY <1>4
<1>7. g = a
  <2>1. a * sd <= grid /\ grid < a * sd + sd
    BY <1>1, <1>4, <1>5
  <2> QED  BY <1>1, <1>4, <2>1, DivIs
<1>8. h = b
  <2>1. b * pd <= grid /\ grid < b * pd + pd
    BY <1>1, <1>4, <1>6
  <2> QED  BY <1>1, <1>4, <2>1, DivIs
<1> HIDE DEF g, h
<1> DEFINE step == sn * a
           ns == n * step
           ts == top * step
<1>9. step \in Nat /\ ns \in Int /\ ts \in Nat /\ -ts <= ns /\ ns <= ts
  <2>1. step \in Nat
    BY <1>1, SMT
  <2> HIDE DEF step
  <2>2. -top \in Int /\ -top <= n /\ n <= top
    BY <1>2
  <2>3. (-top) * step <= n * step /\ n * step <= top * step /\ (-top) * step = -(top * step)
        /\ n * step \in Int /\ top * step \in Int /\ 0 * step <= top * step /\ 0 * step = 0
    BY <1>2, <2>1, <2>2, TimesFacts, TimesOrder
  <2> QED  BY <2>1, <2>3
<1>10. off \in Int /\ q \in Int /\ r \in 0 .. grid - 1 /\ off = q * grid + r /\ q * grid \in Int
  <2>1. off \in Int
    BY <1>1, <1>8, TimesFacts
  <2> HIDE DEF off
  <2>2. q \in Int /\ r \in 0 .. grid - 1 /\ off = q * grid + r
    BY <1>4, <2>1, Division
  <2> HIDE DEF q
  <2> QED  BY <1>4, <2>1, <2>2, TimesFacts
<1>11. peak = ts + r
  <2>1. (top * sn) * a = top * (sn * a)
    BY <1>1, <1>2, SMT
  <2> QED  BY <1>7, <2>1
<1>12. ((off + ns) * m = (x + n * s) * grid) /\ x + n * s \in Int /\ off + ns \in Int
  <2>1. off * m = x * grid
    <3>1. (pn * b) * m = (pn * m) * b
      BY <1>1, SMT
    <3>2. (x * pd) * b = x * (b * pd)
      BY <1>1, SMT
    <3> QED  BY <1>1, <1>6, <1>8, <3>1, <3>2
  <2>2. ns * m = (n * s) * grid
    <3>1. (n * (sn * a)) * m = (n * a) * (sn * m)
      BY <1>1, SMT
    <3>2. (n * a) * (s * sd) = (n * s) * (a * sd)
      BY <1>1, SMT
    <3> QED  BY <1>1, <1>5, <3>1, <3>2
  <2> DEFINE y == n * s
  <2>3. y \in Int
    BY TimesFacts
  <2> HIDE DEF off, ns, y
  <2>4. (off + ns) * m = off * m + ns * m /\ (x + y) * grid = x * grid + y * grid
    BY <1>4, <1>9, <1>10, <2>3, SMT
  <2> QED  BY <1>9, <1>10, <2>1, <2>2, <2>3, <2>4 DEF y
<1> HIDE DEF ns, ts, off, q, r, peak, step
<1> DEFINE all == x + n * s
           rest == r + ns
           w == rest \div grid
           k == peak \div grid
<1>13. all \div m = (off + ns) \div grid
  <2> HIDE DEF all
  <2> QED  BY <1>4, <1>12, SameFloor DEF all
<1>14. off + ns = rest + q * grid /\ rest \in Int
  BY <1>9, <1>10
<1>15. all \div m = q + w
  <2> HIDE DEF rest
  <2>1. (rest + q * grid) \div grid = q + (rest \div grid)
    BY <1>4, <1>10, <1>14, DivShift
  <2> QED  BY <1>13, <1>14, <2>1
<1>16. peak \in Int /\ rest <= peak /\ -peak <= rest
  BY <1>4, <1>9, <1>10, <1>11
<1> HIDE DEF rest, all
<1>17. w \in Int /\ k \in Int /\ w <= k /\ -k - 1 <= w
  <2>1. w \in Int /\ k \in Int /\ w <= k
    BY <1>4, <1>14, <1>16, Division, DivOrder
  <2> HIDE DEF w
  <2>2. k * grid + grid > peak /\ k * grid \in Int
    <3>1. peak \div grid < k + 1
      BY <2>1
    <3>2. peak < (k + 1) * grid
      BY <1>4, <1>16, <2>1, <3>1, DivReaches
    <3> HIDE DEF k
    <3> QED  BY <1>4, <2>1, <3>2, TimesFacts
  <2> HIDE DEF k
  <2>3. (-k - 1) * grid = -(k * grid) - grid
    BY <1>4, <2>1, SMT
  <2>4. (-k - 1) * grid <= rest /\ -k - 1 \in Int
    BY <1>4, <1>14, <1>16, <2>1, <2>2, <2>3
  <2>5. -k - 1 <= rest \div grid
    BY <1>4, <1>14, <2>4, DivReaches
  <2> QED  BY <2>1, <2>5 DEF w
<1>18. Magnitude(q) \in Nat /\ q <= Magnitude(q) /\ -Magnitude(q) <= q
  BY <1>10, MagnitudeFacts
<1> HIDE DEF w
<1>19. Magnitude(q) + k + 1 < IntLimit
  BY <1>3
<1> HIDE DEF k
<1>20. -IntLimit <= q + w /\ q + w < IntLimit
  BY <1>10, <1>17, <1>18, <1>19
<1> QED  BY <1>15, <1>20 DEF IsInt64, all

(* c_inst: every drain's index, where the pass is not refused.             *)
LEMMA IndicesFit ==
    ASSUME IInv, CInstFits(times), NEW i \in DOMAIN times
    PROVE  IsInt64(FloorDivide(times[i] - times[1], IF origin = "epoch" THEN times[1] ELSE 0))
<1> DEFINE z == Len(times)
           base == IF origin = "epoch" THEN times[1] ELSE 0
           f == [k \in 1 .. z |-> times[k] - times[1]]
           n == times[i] - times[1]
           phase == IF origin = "epoch" THEN Ratio(times[1] * DrainsPer, DrainParts) ELSE Ratio(0, 1)
           counts == {f[k] : k \in 1 .. z}
           x == base * DrainsPer
<1>1. SettingOK /\ times \in Seq(Int) /\ z \in Nat /\ DOMAIN times = 1 .. z /\ i \in 1 .. z
  BY DEF IInv
<1>2. \A k \in 1 .. z : times[k] \in Int
  BY <1>1, ElementOfSeq
<1>3. times[1] \in Int /\ n \in Int /\ base \in Int /\ times # << >>
  <2>1. 1 \in 1 .. z
    BY <1>1
  <2>2. times # << >>
    BY <1>1, EmptySeq
  <2> QED  BY <1>1, <1>2, <2>1, <2>2
<1>4. /\ DrainsPer \in Nat /\ DrainParts \in Nat /\ DrainParts > 0
      /\ DrainRate.num = DrainsPer /\ DrainRate.den = DrainParts
  BY <1>1, DrainFacts DEF DrainsPer, DrainParts
<1>5. Fits(counts, DrainRate, phase)
  <2>1. {times[k] - times[1] : k \in DOMAIN times} = counts
    BY <1>1
  <2>2. Fits({times[k] - times[1] : k \in DOMAIN times}, DrainRate, phase)
    BY <1>3, Zenon DEF CInstFits
  <2> QED  BY <2>1, <2>2, Zenon
<1>6. x \in Int
  BY <1>3, <1>4, TimesFacts
<1>7. phase.num \in Int /\ phase.den \in Nat /\ phase.den > 0 /\ x * phase.den = phase.num * DrainParts
  <2>1. CASE origin = "epoch"
    <3>1. phase = Ratio(x, DrainParts)
      BY <2>1
    <3> HIDE DEF x, phase
    <3> QED  BY <1>4, <1>6, <3>1, RatioIs, RatioValue
  <2>2. CASE origin # "epoch"
    <3> DEFINE p == Ratio(0, 1)
    <3>1. phase = p /\ x = 0
      BY <1>4, <2>2
    <3>2. p.num \in Int /\ p.den \in Nat /\ p.den > 0 /\ 0 * p.den = p.num * 1
      BY RatioIs, RatioValue
    <3> HIDE DEF p, phase, x
    <3>3. p.num = 0 /\ 0 * p.den = 0 /\ 0 * DrainParts = 0
      BY <1>4, <3>2
    <3> QED  BY <3>1, <3>2, <3>3
  <2> QED  BY <2>1, <2>2
<1>8. /\ Max({Magnitude(c) : c \in counts} \cup {0}) \in Nat
      /\ Magnitude(n) <= Max({Magnitude(c) : c \in counts} \cup {0})
  <2>1. \A k \in 1 .. z : f[k] = times[k] - times[1] /\ f[k] \in Int
    BY <1>2, <1>3
  <2> DEFINE top == Max({Magnitude(c) : c \in {f[k] : k \in 1 .. z}} \cup {0})
  <2> HIDE DEF f
  <2>2. top \in Nat /\ \A k \in 1 .. z : Magnitude(f[k]) <= top
    BY <1>1, <2>1, TopIs
  <2>3. f[i] = n
    BY <1>1, <2>1
  <2> QED  BY <1>1, <2>2, <2>3
<1>9. DrainsPer * DrainRate.den = DrainRate.num * DrainParts
  BY <1>4
<1> HIDE DEF counts, phase, x, n, base
<1>10. IsInt64((x + n * DrainsPer) \div DrainParts)
  BY <1>3, <1>4, <1>5, <1>6, <1>7, <1>8, <1>9, ConstantFacts, FitsHolds
<1>11. FloorDivide(n, base) = (x + n * DrainsPer) \div DrainParts
  <2>1. FloorDivide(n, base) = ((base + n) * DrainsPer) \div DrainParts
    BY <1>1, <1>3, FloorDivideIs DEF Index
  <2>2. (base + n) * DrainsPer = base * DrainsPer + n * DrainsPer
    BY <1>3, <1>4, SMT
  <2> QED  BY <2>1, <2>2 DEF x
<1> QED  BY <1>10, <1>11 DEF n, base

(* The datums: of every frame, where the anchor is not refused.            *)
LEMMA DatumsAreFit ==
    ASSUME IInv, NEW anchor \in Anchors, NEW i \in Kept, DatumsFit(anchor)
    PROVE  IsInt64(Anchored(anchor, i) \div Nano)
<1> DEFINE z == Len(times)
           m == Min(Kept)
           x == Anchored(anchor, m)
           far(k) == IF anchor = "first-packet" THEN Frame(k) - Frame(m)
                     ELSE Named(anchor, k) - Named(anchor, m)
           f == [k \in 1 .. z |-> IF k \in Kept THEN far(k) ELSE 0]
           counts == {f[k] : k \in Kept}
           given == IF anchor = "first-packet" THEN {Frame(k) - Frame(m) : k \in Kept}
                    ELSE {Named(anchor, k) - Named(anchor, m) : k \in Kept}
           phase == DatumPhase(anchor)
           n == far(i)
<1>1. SettingOK /\ times \in Seq(Int) /\ z \in Nat /\ DOMAIN times = 1 .. z
  BY DEF IInv
<1>2. m \in Kept /\ Kept \subseteq 1 .. z
  BY <1>1, KeptFacts
<1>3. \A k \in Kept : far(k) \in Int /\ Anchored(anchor, k) = x + far(k) * TFrame
  <2> SUFFICES ASSUME NEW k \in Kept
               PROVE  far(k) \in Int /\ Anchored(anchor, k) = x + far(k) * TFrame
    OBVIOUS
  <2>1. CASE anchor = "first-packet"
    <3> DEFINE c == Frame(k) - Frame(m)
               d == Frame(m) - Frame(m)
               tn == times[m] * Nano
    <3>1. /\ times[m] \in Int /\ c \in Int /\ d \in Int
          /\ Anchored(anchor, k) = tn + c * TFrame
          /\ x = tn + d * TFrame
      BY <1>2, <2>1, AnchoredFacts
    <3>2. Frame(m) \in Nat
      BY <1>1, <1>2, OpeningFacts
    <3>3. tn \in Int /\ c * TFrame \in Int /\ d = 0 /\ 0 * TFrame = 0
      BY <3>1, <3>2, ConstantFacts, TimesFacts
    <3>4. far(k) = c
      BY <2>1
    <3> HIDE DEF tn, c, d, x, far
    <3> QED  BY <3>1, <3>3, <3>4
  <2>2. CASE anchor # "first-packet"
    <3> DEFINE a == Named(anchor, k)
               b == Named(anchor, m)
               o == TOffset(video)
    <3>1. a \in Int /\ b \in Int /\ Anchored(anchor, k) = Datum(a) /\ x = Datum(b)
      BY <1>2, <2>2, AnchoredFacts
    <3> HIDE DEF a, b, x
    <3>2. Datum(a) = a * TFrame + o /\ Datum(b) = b * TFrame + o
      BY <1>1, <3>1, DatumFacts
    <3>3. (a - b) * TFrame = a * TFrame - b * TFrame /\ a * TFrame \in Int /\ b * TFrame \in Int
      BY <3>1, ConstantFacts, SMT
    <3>4. o \in Int
      BY <1>1, SettingFacts
    <3>5. far(k) = a - b
      BY <2>2 DEF a, b
    <3> HIDE DEF far, o
    <3> QED  BY <3>1, <3>2, <3>3, <3>4, <3>5
  <2> QED  BY <2>1, <2>2
<1>4. x \in Int
  BY <1>2, AnchoredFacts
<1>5. \A k \in Kept : f[k] = far(k)
  BY <1>2
<1>6. counts = given
  <2>1. CASE anchor = "first-packet"
    <3>1. \A k \in Kept : f[k] = Frame(k) - Frame(m)
      BY <1>5, <2>1
    <3> HIDE DEF f
    <3> QED  BY <2>1, <3>1, Zenon
  <2>2. CASE anchor # "first-packet"
    <3>1. \A k \in Kept : f[k] = Named(anchor, k) - Named(anchor, m)
      BY <1>5, <2>2
    <3> HIDE DEF f
    <3> QED  BY <2>2, <3>1, Zenon
  <2> QED  BY <2>1, <2>2
<1>7. Fits(counts, FramePeriod, phase)
  <2>1. Fits(given, FramePeriod, phase)
    BY Zenon DEF DatumsFit
  <2> QED  BY <1>6, <2>1, Zenon
<1>8. \A k \in 1 .. z : f[k] \in Int
  BY <1>3
<1> HIDE DEF f, far
<1>9. /\ Max({Magnitude(c) : c \in counts} \cup {0}) \in Nat
      /\ Magnitude(n) <= Max({Magnitude(c) : c \in counts} \cup {0})
  <2> DEFINE top == Max({Magnitude(c) : c \in {f[k] : k \in Kept}} \cup {0})
  <2>1. top \in Nat /\ \A k \in Kept : Magnitude(f[k]) <= top
    BY <1>1, <1>2, <1>8, TopIs
  <2> QED  BY <1>5, <2>1
<1>10. /\ phase.num \in Int /\ phase.den \in Nat /\ phase.den > 0 /\ x * phase.den = phase.num * Nano
  <2>1. phase = Ratio(x, Nano)
    BY Zenon DEF DatumPhase
  <2> HIDE DEF x, phase
  <2> QED  BY <1>4, <2>1, ConstantFacts, RatioIs, RatioValue
<1>11. /\ FramePeriod.num \in Nat /\ FramePeriod.den \in Nat /\ FramePeriod.den > 0
       /\ TFrame * FramePeriod.den = FramePeriod.num * Nano
  <2>1. TFrame \in Int
    BY ConstantFacts
  <2> QED  BY <2>1, ConstantFacts, RatioIs, RatioValue DEF FramePeriod
<1>12. n \in Int
  BY <1>3
<1> HIDE DEF n, x, phase, counts
<1>13. IsInt64((x + n * TFrame) \div Nano)
  BY <1>4, <1>7, <1>9, <1>10, <1>11, <1>12, ConstantFacts, FitsHolds
<1>14. Anchored(anchor, i) = x + n * TFrame
  BY <1>3 DEF n
<1> QED  BY <1>13, <1>14

(* vrx: what is left of a run of reads, scaled to the run's denominator,   *)
(* wherever the window it is counted in is not refused.                    *)
LEMMA RoomFits ==
    ASSUME SettingOK, NEW segment, segment.offset \in Nat, segment.count \in Nat,
           NEW delta \in Int, NEW part \in 0 .. Nano - 1, NEW scale \in Nat, scale > 0,
           (Max({Magnitude(WindowLow(segment)), Magnitude(WindowHigh(segment))}) + 1) * scale
               < IntLimit \div 2
    PROVE  IsInt64((Room(Clip(delta, WindowLow(segment), WindowHigh(segment)), part, segment.offset)
                        * scale) \div Nano)
<1> DEFINE offset == segment.offset
           ct == segment.count * TRead(video)
           end == offset + ct
           oq == offset \div Nano
           on == oq * Nano
           ec == Ceiling(end, Nano)
           low == WindowLow(segment)
           high == WindowHigh(segment)
           widest == Max({Magnitude(low), Magnitude(high)})
           y == (widest + 1) * scale
           w == Clip(delta, low, high)
           wn == (w + 1) * Nano
           room == Room(w, part, offset)
           rs == room * scale
<1>1. offset \in Nat /\ ct \in Nat /\ end \in Int /\ Nano \in Nat /\ Nano > 0
  <2>1. segment.count \in Nat /\ TRead(video) \in Nat
    BY ReadFacts
  <2> DEFINE c == segment.count
             t == TRead(video)
  <2> HIDE DEF c, t
  <2>2. c * t \in Nat
    BY <2>1, SMT DEF c, t
  <2> QED  BY <2>2, ConstantFacts DEF c, t
<1>2. low = oq - 1 /\ high = ec + 1
  BY DEF WindowLow, WindowHigh
<1>3. y < IntLimit \div 2
  OBVIOUS
<1> HIDE DEF low, high, offset, ct
<1>4. oq \in Int /\ on \in Int /\ on <= offset /\ offset < on + Nano /\ 0 <= oq
  <2>1. oq \in Int /\ offset = oq * Nano + (offset % Nano) /\ offset % Nano \in 0 .. Nano - 1
    BY <1>1, Division
  <2>2. 0 * Nano = 0 /\ 0 \in Int
    BY <1>1
  <2>3. 0 <= oq
    BY <1>1, <2>2, DivReaches
  <2> HIDE DEF oq
  <2>4. oq * Nano \in Int
    BY <1>1, <2>1, TimesFacts
  <2> QED  BY <1>1, <2>1, <2>3, <2>4
<1> HIDE DEF oq
<1>5. ec \in Int /\ oq <= ec
  <2>1. oq - 1 \in Int /\ (oq - 1) * Nano = on - Nano
    BY <1>1, <1>4, SMT
  <2>2. (oq - 1) * Nano < end
    BY <1>1, <1>4, <2>1
  <2> HIDE DEF end
  <2>3. ec \in Int /\ (oq - 1 < ec <=> (oq - 1) * Nano < end)
    BY <1>1, <2>1, CeilingReaches
  <2> HIDE DEF ec
  <2> QED  BY <1>4, <2>2, <2>3
<1> HIDE DEF ec, end, on
<1>6. low \in Int /\ high \in Int /\ low <= high /\ high >= 1
  BY <1>2, <1>4, <1>5
<1>7. widest \in Int /\ high <= widest /\ 1 <= widest
  <2>1. Magnitude(low) \in Nat /\ Magnitude(high) = high
    BY <1>6, MagnitudeFacts DEF Magnitude
  <2>2. widest = IF Magnitude(low) <= Magnitude(high) THEN Magnitude(high) ELSE Magnitude(low)
    BY <1>6, <2>1, MaxOfTwo
  <2> HIDE DEF widest
  <2> QED  BY <1>6, <2>1, <2>2
<1>8. w \in Int /\ low <= w /\ w <= high
  <2>1. w = IF delta < low THEN low ELSE IF delta <= high THEN delta ELSE high
    BY <1>6, ClipIs
  <2> HIDE DEF w
  <2> QED  BY <1>6, <2>1
<1> HIDE DEF widest, w
<1>9. y \in Int /\ 2 * scale <= y
  <2>1. widest + 1 \in Int /\ 2 <= widest + 1
    BY <1>7
  <2> QED  BY <2>1, TimesFacts, TimesOrder
<1>10. room = wn - part - offset
  BY DEF Room
<1>11. wn \in Int /\ on <= wn /\ wn <= (widest + 1) * Nano /\ (widest + 1) * Nano \in Int
  <2>1. w + 1 \in Int /\ oq <= w + 1 /\ w + 1 <= widest + 1 /\ widest + 1 \in Int
    BY <1>2, <1>4, <1>6, <1>7, <1>8
  <2> QED  BY <1>1, <1>4, <2>1, TimesFacts, TimesOrder DEF on
<1> DEFINE top == (widest + 1) * Nano
           bottom == (-2) * Nano
<1> HIDE DEF wn, room, top
<1>12. room \in Int /\ bottom \in Int /\ bottom <= room /\ room <= top /\ top \in Int
  BY <1>1, <1>4, <1>10, <1>11 DEF top
<1> HIDE DEF bottom
<1>13. rs \in Int /\ bottom * scale <= rs /\ rs <= top * scale
  BY <1>12, TimesFacts, TimesOrder
<1>14. top * scale = y * Nano /\ y * Nano \in Int
  <2>1. ((widest + 1) * Nano) * scale = ((widest + 1) * scale) * Nano
    BY <1>1, <1>7, SMT
  <2> HIDE DEF y
  <2> QED  BY <1>1, <1>9, <2>1, TimesFacts DEF top, y
<1>15. bottom * scale = (-2 * scale) * Nano
  BY <1>1, SMT DEF bottom
<1> HIDE DEF y, rs
<1>16. rs \div Nano <= y /\ rs \div Nano \in Int
  <2>1. y * Nano <= y * Nano /\ y * Nano < y * Nano + Nano
    BY <1>1, <1>14
  <2>2. (y * Nano) \div Nano = y
    BY <1>1, <1>9, <1>14, <2>1, DivIs
  <2>3. rs \div Nano <= (y * Nano) \div Nano
    BY <1>1, <1>13, <1>14, DivOrder
  <2> QED  BY <1>1, <1>13, <2>2, <2>3, Division
<1>17. -2 * scale <= rs \div Nano
  <2>1. -2 * scale \in Int /\ (-2 * scale) * Nano <= rs
    BY <1>13, <1>15
  <2> QED  BY <1>1, <1>13, <2>1, DivReaches
<1> DEFINE answer == rs \div Nano
<1> HIDE DEF answer
<1>18. answer \in Int /\ answer <= y /\ -(2 * scale) <= answer
  BY <1>16, <1>17 DEF answer
<1>19. IntLimit \div 2 <= IntLimit /\ IntLimit \div 2 \in Int /\ IntLimit \in Nat
  BY ConstantFacts
<1>20. -IntLimit <= answer /\ answer < IntLimit
  BY <1>3, <1>9, <1>18, <1>19
<1> QED  BY <1>20 DEF IsInt64, answer, rs, room, w, low, high, offset

LEMMA ScaleIs ==
    ASSUME IInv, NEW anchor \in Anchors, Kept # {}, NEW segment, segment.offset \in Nat
    PROVE  Scale(anchor, segment) \in Nat /\ Scale(anchor, segment) > 0
<1> DEFINE x == Anchored(anchor, Min(Kept))
           a == FramePeriod.den
           b == DatumPhase(anchor).den
           c == Ratio(TRead(video), Nano).den
           d == Ratio(segment.offset, Nano).den
<1>1. SettingOK /\ times \in Seq(Int)
  BY DEF IInv
<1>2. x \in Int
  <2>1. Min(Kept) \in Kept
    BY <1>1, KeptFacts
  <2> QED  BY <2>1, AnchoredFacts
<1>3. a \in Nat /\ a > 0
  BY ConstantFacts, RatioIs DEF FramePeriod
<1>4. b \in Nat /\ b > 0
  <2>1. b = Ratio(x, Nano).den
    BY DEF DatumPhase
  <2> HIDE DEF x, b
  <2> QED  BY <1>2, <2>1, ConstantFacts, RatioIs
<1>5. c \in Nat /\ c > 0 /\ d \in Nat /\ d > 0
  <2>1. TRead(video) \in Int /\ segment.offset \in Int
    BY <1>1, ReadFacts
  <2> QED  BY <2>1, ConstantFacts, RatioIs
<1>6. Scale(anchor, segment) = Multiple(Multiple(a, b), Multiple(c, d))
  BY Zenon DEF Scale
<1> HIDE DEF a, b, c, d
<1>7. Multiple(a, b) \in Nat /\ Multiple(a, b) > 0 /\ Multiple(c, d) \in Nat /\ Multiple(c, d) > 0
  BY <1>3, <1>4, <1>5, MultipleIs
<1> QED  BY <1>6, <1>7, MultipleIs

(* The runs' offsets and counts. *)
LEMMA RunsAre ==
    ASSUME SettingOK, NEW s \in DOMAIN Segments
    PROVE  Segments[s].offset \in Nat /\ Segments[s].count \in Nat
<1>1. /\ First \in 1 .. video.packets /\ video.packets \in Nat
      /\ Fielded => Second \in Nat
  BY SegmentFacts, SettingFacts
<1>2. CASE Fielded
  BY <1>1, <1>2, SegmentsAre
<1>3. CASE ~Fielded
  BY <1>1, <1>3, SegmentsAre
<1> QED  BY <1>2, <1>3

(* A read is within three frames of its datum; the schedule's own bound is *)
(* tighter, and nothing here turns on it.                                  *)
LEMMA ReadAtBound ==
    ASSUME SettingOK, NEW j \in 0 .. video.packets - 1
    PROVE  ReadAt(j) \in Nat /\ ReadAt(j) <= 3 * TFrame
<1> DEFINE n == video.packets
           t == TRead(video)
           half == ((2 * First - n) * t) \div 2
           line == (TFrame \div System(video.height).lines) \div 2
<1>1. n \in Nat /\ n > 0 /\ t \in Nat /\ t > 0 /\ n * t <= TFrame /\ First \in 1 .. n
      /\ TFrame \in Nat
  BY SettingFacts, ReadFacts, SegmentFacts, ConstantFacts
<1>2. ReadAt(j) \in Nat /\ (j >= First => Fielded)
  BY ReadAtFacts
<1>3. \A k \in 0 .. n : k * t \in Nat /\ k * t <= TFrame
  <2> SUFFICES ASSUME NEW k \in 0 .. n PROVE k * t \in Nat /\ k * t <= TFrame
    OBVIOUS
  <2> HIDE DEF n, t
  <2>1. k \in Nat /\ k <= n
    BY <1>1
  <2>2. k * t \in Nat /\ n * t \in Int
    BY <1>1, <2>1, SMT
  <2>3. k * t <= n * t
    BY <1>1, <2>1, TimesOrder
  <2> QED  BY <1>1, <2>2, <2>3
<1>4. CASE j < First
  <2>1. ReadAt(j) = j * t
    BY <1>4 DEF ReadAt
  <2>2. j \in 0 .. n
    BY <1>1
  <2>3. j * t <= TFrame /\ j * t \in Nat
    BY <1>3, <2>2
  <2> HIDE DEF t
  <2> QED  BY <1>1, <2>1, <2>3
<1>5. CASE ~(j < First)
  <2>1. Fielded /\ j - First \in 0 .. n /\ 2 * First - n \in Int /\ 2 * First - n <= n
    BY <1>1, <1>2, <1>5
  <2> DEFINE late == (j - First) * t
             over == 2 * First - n
             ot == over * t
             nt == n * t
  <2>2. ReadAt(j) = Second + late
    BY <1>5 DEF ReadAt
  <2>3. late \in Nat /\ late <= TFrame
    BY <1>3, <2>1
  <2>4. half \in Int /\ 2 * half <= TFrame
    <3> HIDE DEF over, t
    <3>1. ot \in Int /\ nt \in Int /\ ot <= nt
      BY <1>1, <2>1, TimesFacts, TimesOrder DEF over
    <3>2. half = ot \div 2
      BY DEF over
    <3> HIDE DEF ot, half
    <3> QED  BY <1>1, <3>1, <3>2
  <2>5. line \in Int /\ line <= TFrame
    <3> DEFINE lines == System(video.height).lines
               q == TFrame \div lines
    <3>1. lines \in Nat /\ lines > 0
      <4>1. video.height \in Nat /\ video.height <= 1080
        BY <2>1, SettingFacts, TimingAssumption DEF SettingOK, Fielded
      <4> QED  BY <4>1, SystemFacts
    <3> HIDE DEF lines
    <3>2. q \in Int /\ q * lines <= TFrame
      <4>1. q \in Int /\ TFrame = q * lines + (TFrame % lines) /\ TFrame % lines \in 0 .. lines - 1
        BY <1>1, <3>1, Division
      <4> HIDE DEF q
      <4>2. q * lines \in Int
        BY <3>1, <4>1, TimesFacts
      <4> QED  BY <1>1, <3>1, <4>1, <4>2
    <3>3. 0 <= q
      <4>1. 0 * lines = 0
        BY <3>1
      <4> QED  BY <1>1, <3>1, <4>1, DivReaches
    <3> HIDE DEF q
    <3>4. q <= TFrame
      <4>1. q * 1 <= q * lines
        <5>1. 1 * q <= lines * q /\ q \in Nat
          <6>1. q \in Nat /\ 1 <= lines /\ lines \in Int
            BY <3>1, <3>2, <3>3
          <6> QED  BY <6>1, TimesOrder
        <5> QED  BY <3>1, <5>1, TimesFacts
      <4>2. q * 1 = q /\ q * lines \in Int
        BY <3>1, <3>2, TimesFacts
      <4> QED  BY <1>1, <3>2, <4>1, <4>2
    <3>5. line = q \div 2
      BY DEF q, lines
    <3> HIDE DEF line
    <3> QED  BY <1>1, <3>2, <3>3, <3>4, <3>5
  <2>6. Second = TFrame \div 2 + half + (IF edition = "2022" THEN line ELSE 0)
    BY Zenon DEF Second, half, line, n, t
  <2> HIDE DEF half, line, late
  <2>7. Second \in Int /\ Second <= 2 * TFrame
    <3>1. TFrame \div 2 \in Int /\ 2 * (TFrame \div 2) <= TFrame
      BY <1>1
    <3> QED  BY <1>1, <2>4, <2>5, <2>6, <3>1
  <2> QED  BY <1>1, <1>2, <2>2, <2>3, <2>7
<1>6. j < First \/ ~(j < First)
  OBVIOUS
<1> QED  BY <1>2, <1>4, <1>5, <1>6, Zenon

LEMMA DueFits ==
    ASSUME SettingOK, InstantsAreInt64, NEW jitter \in Jitters, NEW i \in 1 .. MaxPackets
    PROVE  LET due == ReadTime(Datum(Frame(i) + slip), Packet(i)) + jitter
           IN  due \in Int /\ IsInt64(due)
<1> DEFINE n == video.packets
           f == start.frame
           p == Packet(i)
           g == Frame(i) - f
           s == slip
           abs == Magnitude(s)
           big == Magnitude(jitter)
           b == f + MaxPackets + abs + 4
           x == Datum(Frame(i) + s) + ReadAt(p)
           bt == b * TFrame
           o == TOffset(video)
<1>1. MaxPackets \in Nat /\ i \in Nat /\ i > 0 /\ i <= MaxPackets
  BY TimingAssumption
<1>2. /\ n \in Nat /\ n > 0 /\ f \in Nat /\ start.packet \in 0 .. n - 1 /\ s \in Int
      /\ o \in 0 .. TFrame - 1 /\ f \in StartFrames /\ s \in Slips
  <2>1. f \in StartFrames /\ s \in Slips
    BY DEF SettingOK
  <2> QED  BY <2>1, SettingFacts
<1>3. Frame(i) \in Nat /\ p \in 0 .. n - 1 /\ start.packet + i - 1 = g * n + p /\ g \in Nat
  <2>1. /\ Frame(i) \in Nat /\ p \in 0 .. n - 1
        /\ start.packet + i - 1 = g * n + p /\ Frame(i) >= f
    BY <1>1, FrameFacts
  <2> QED  BY <1>2, <2>1
<1>4. TFrame \in Nat /\ TFrame > 0 /\ Nano \in Nat /\ Nano > 0 /\ IntLimit \in Nat /\ jitter \in Int
  BY ConstantFacts
<1>5. g <= i
  <2> SUFFICES ASSUME g > i PROVE FALSE
    BY <1>1, <1>3
  <2> HIDE DEF g, n, p
  <2>1. (i + 1) * n <= g * n /\ g * n \in Int
    BY <1>1, <1>2, <1>3, TimesOrder, TimesFacts
  <2>2. (i + 1) * n = i * n + n /\ i * n \in Int /\ i * 1 <= i * n
    <3>1. 1 * i <= n * i /\ n * i = i * n /\ i * n \in Int /\ (i + 1) * n = i * n + n
      BY <1>1, <1>2, TimesOrder, TimesFacts
    <3> QED  BY <1>1, <3>1
  <2> QED  BY <1>1, <1>2, <1>3, <2>1, <2>2
<1>6. ReadTime(Datum(Frame(i) + s), p) = x \div Nano /\ x \in Int
      /\ Datum(Frame(i) + s) = (Frame(i) + s) * TFrame + o
      /\ Datum(Frame(i) + s) \in Int /\ ReadAt(p) \in Nat /\ ReadAt(p) <= 3 * TFrame
  <2>1. Frame(i) + s \in Int
    BY <1>2, <1>3
  <2> DEFINE d == Datum(Frame(i) + s)
  <2>2. d \in Int /\ d = (Frame(i) + s) * TFrame + o
    BY <2>1, DatumFacts
  <2>3. ReadAt(p) \in Nat /\ ReadAt(p) <= 3 * TFrame
    BY <1>3, ReadAtBound
  <2> HIDE DEF d
  <2>4. ReadTime(d, p) = (d + ReadAt(p)) \div Nano
    BY <1>3, <2>2, ReadTimeIs
  <2> QED  BY <2>2, <2>3, <2>4 DEF d
<1>7. abs \in Nat /\ s <= abs /\ -abs <= s /\ big \in Nat /\ jitter <= big /\ -big <= jitter
  BY <1>2, <1>4, MagnitudeFacts
<1>8. bt + (big + 1) * Nano <= IntLimit * Nano
  BY <1>2 DEF InstantsAreInt64
<1> HIDE DEF g, n, p, f, s, abs, big, o
<1> DEFINE h == f + g + s
           ht == h * TFrame
<1>9. Frame(i) = f + g /\ h \in Int /\ b \in Int /\ h + 4 <= b /\ -b <= h
  <2>1. Frame(i) = f + g
    BY <1>2, <1>3 DEF g
  <2> QED  BY <1>1, <1>2, <1>3, <1>5, <1>7, <2>1
<1> HIDE DEF b, h
<1>10. ht \in Int /\ bt \in Int /\ ht + 4 * TFrame <= bt /\ -bt <= ht
  <2>1. (h + 4) * TFrame <= b * TFrame /\ (-b) * TFrame <= h * TFrame
        /\ (-b) * TFrame = -(b * TFrame) /\ h * TFrame \in Int /\ b * TFrame \in Int
    BY <1>4, <1>9, TimesFacts, TimesOrder
  <2>2. (h + 4) * TFrame = h * TFrame + 4 * TFrame
    BY <1>4, <1>9, SMT
  <2> QED  BY <1>4, <2>1, <2>2
<1>11. x < bt /\ -bt <= x
  <2> DEFINE r == ReadAt(p)
             d == Datum(Frame(i) + s)
  <2>1. d = ht + o
    BY <1>6, <1>9 DEF h
  <2>2. x = d + r
    OBVIOUS
  <2>3. r \in Nat /\ r <= 3 * TFrame
    BY <1>6
  <2> HIDE DEF r, d, ht, bt, x
  <2>4. o \in Int /\ 0 <= o /\ o < TFrame
    BY <1>2, <1>4
  <2> QED  BY <1>4, <1>10, <2>1, <2>2, <2>3, <2>4
<1> HIDE DEF x, bt, ht
<1> DEFINE q == x \div Nano
           ln == IntLimit * Nano
           kn == (big + 1) * Nano
           un == (IntLimit - jitter) * Nano
           dn == (-IntLimit - jitter) * Nano
<1>12. /\ ln \in Int /\ kn \in Int /\ un \in Int /\ dn \in Int
       /\ ln - kn <= un /\ dn <= -(ln - kn)
  <2> DEFINE jn == jitter * Nano
             an == big * Nano
  <2>1. jn \in Int /\ an \in Int /\ ln \in Int /\ jn <= an /\ -an <= jn
    <3>1. -big \in Int /\ (-big) * Nano <= jitter * Nano /\ (-big) * Nano = -(big * Nano)
          /\ jitter * Nano <= big * Nano
      BY <1>4, <1>7, TimesOrder, TimesFacts
    <3> QED  BY <1>4, <1>7, <3>1, TimesFacts
  <2>2. kn = an + Nano /\ un = ln - jn /\ dn = -ln - jn
    BY <1>4, <1>7, SMT
  <2> HIDE DEF jn, an, ln, kn, un, dn
  <2> QED  BY <1>4, <2>1, <2>2
<1> HIDE DEF ln, kn
<1>13. bt <= ln - kn
  BY <1>8, <1>10, <1>12 DEF ln, kn
<1>14. x < un /\ dn <= x
  <2> HIDE DEF un, dn
  <2> QED  BY <1>6, <1>10, <1>11, <1>12, <1>13
<1>15. q \in Int /\ q < IntLimit - jitter /\ -IntLimit - jitter <= q
  <2>1. IntLimit - jitter \in Int /\ -IntLimit - jitter \in Int
    BY <1>4
  <2> QED  BY <1>4, <1>6, <1>14, <2>1, Division, DivReaches
<1> HIDE DEF q
<1>16. q + jitter \in Int /\ -IntLimit <= q + jitter /\ q + jitter < IntLimit
  BY <1>4, <1>15
<1>17. ReadTime(Datum(Frame(i) + s), p) + jitter = q + jitter
  BY <1>6 DEF q
<1> QED  BY <1>16, <1>17 DEF IsInt64, s, p

(* Every instant of a capture is one.                                      *)
TimesFit == \A i \in 1 .. Len(times) : IsInt64(times[i])

LEMMA TimesFitHolds ==
    ASSUME InstantsAreInt64
    PROVE  Spec => []TimesFit
<1>1. Init => TimesFit
  BY DEF Init, TimesFit
<1>2. IInv /\ TimesFit /\ [Next]_vars => TimesFit'
  <2> SUFFICES ASSUME IInv, TimesFit, [Next]_vars PROVE TimesFit'
    OBVIOUS
  <2>1. CASE UNCHANGED vars
    BY <2>1 DEF vars, TimesFit, IsInt64
  <2>2. CASE Next
    <3>1. PICK jitter \in Jitters : Emit(jitter)
      BY <2>2 DEF Next
    <3> DEFINE n == Len(times)
               i == n + 1
               due == ReadTime(Datum(Frame(i) + slip), Packet(i)) + jitter
               t == IF i = 1 THEN due ELSE Max({Last, due})
    <3>2. i <= MaxPackets /\ times' = Append(times, t)
      BY <3>1, Zenon DEF Emit
    <3>3. SettingOK /\ times \in Seq(Int) /\ n \in Nat
      BY DEF IInv
    <3>4. i \in 1 .. MaxPackets
      BY <3>2, <3>3, TimingAssumption
    <3>5. due \in Int /\ IsInt64(due)
      <4> HIDE DEF i
      <4> QED  BY <3>3, <3>4, DueFits
    <3> HIDE DEF due
    <3>6. IsInt64(t) /\ t \in Int
      <4>1. CASE n = 0
        BY <3>5, <4>1
      <4>2. CASE n # 0
        <5>1. n \in 1 .. n /\ Last = times[n] /\ times[n] \in Int
          BY <3>3, <4>2, ElementOfSeq DEF Last
        <5>2. Max({Last, due}) = IF Last <= due THEN due ELSE Last
          BY <3>5, <5>1, MaxOfTwo
        <5>3. t = IF Last <= due THEN due ELSE Last
          BY <3>3, <4>2, <5>2
        <5>4. IsInt64(Last)
          BY <5>1 DEF TimesFit
        <5> HIDE DEF t, n
        <5> QED  BY <3>5, <5>1, <5>3, <5>4
      <4> QED  BY <4>1, <4>2
    <3> HIDE DEF t
    <3>7. /\ Len(Append(times, t)) = n + 1
          /\ \A k \in 1 .. n : Append(times, t)[k] = times[k]
          /\ Append(times, t)[n + 1] = t
      BY <3>3, <3>6, AppendProperties
    <3>8. \A k \in 1 .. n + 1 : IsInt64(Append(times, t)[k])
      <4> SUFFICES ASSUME NEW k \in 1 .. n + 1 PROVE IsInt64(Append(times, t)[k])
        OBVIOUS
      <4>1. CASE k = n + 1
        BY <3>6, <3>7, <4>1
      <4>2. CASE k # n + 1
        <5>1. k \in 1 .. n
          BY <3>3, <4>2
        <5> QED  BY <3>7, <5>1 DEF TimesFit
      <4> QED  BY <4>1, <4>2
    <3>9. \A k \in 1 .. Len(times') : IsInt64(times'[k])
      BY <3>2, <3>7, <3>8
    <3> QED  BY <3>9 DEF TimesFit, IsInt64
  <2> QED  BY <2>1, <2>2
<1> QED  BY <1>1, <1>2, TimingInvariant, PTL DEF Spec

(* Instants never go back, a bucket holds at least the packet just put in  *)
(* it, and no number on the way to an answer that is not refused leaves    *)
(* int64: the two checks of _split_multiply and vrx's own on its window    *)
(* are enough, whatever the rates are, for instants that are int64.        *)
THEOREM TimingTypeCorrect ==
    ASSUME InstantsAreInt64
    PROVE  Spec => []TypeOK
<1>1. IInv /\ TimesFit => TypeOK
  <2> SUFFICES ASSUME IInv, TimesFit PROVE TypeOK
    OBVIOUS
  <2> DEFINE n == Len(times)
  <2>1. SettingOK /\ times \in Seq(Int) /\ Ordered(times) /\ levels = CInst(times)
        /\ n \in Nat /\ DOMAIN times = 1 .. n
    BY DEF IInv
  <2>2. Len(levels) = Len(times)
    BY <2>1, CInstIsSeq
  <2>3. \A i \in DOMAIN times : IsInt64(times[i]) /\ CInst(times)[i] \in 1 .. i
    BY <2>1, LevelRange DEF TimesFit
  <2>4. \A i \in DOMAIN times : i > 1 => times[i - 1] <= times[i]
    <3> SUFFICES ASSUME NEW i \in 1 .. n, i > 1 PROVE times[i - 1] <= times[i]
      BY <2>1
    <3>1. i - 1 \in 1 .. n /\ i - 1 <= i
      BY <2>1
    <3> QED  BY <2>1, <3>1 DEF Ordered
  <2>5. CInstFits(times) => \A i \in DOMAIN times :
            IsInt64(FloorDivide(times[i] - times[1], IF origin = "epoch" THEN times[1] ELSE 0))
    BY IndicesFit
  <2>6. ASSUME NEW i \in Kept, NEW anchor \in Anchors, VrxFits(anchor)
        PROVE  LET datum == Anchored(anchor, i)
               IN  /\ IsInt64(datum \div Nano)
                   /\ \A s \in DOMAIN Segments :
                       LET segment == Segments[s]
                           windowed == Clip(times[i] - datum \div Nano,
                                            WindowLow(segment), WindowHigh(segment))
                       IN  IsInt64((Room(windowed, datum % Nano, segment.offset)
                                       * Scale(anchor, segment)) \div Nano)
    <3> DEFINE datum == Anchored(anchor, i)
               part == datum % Nano
               delta == times[i] - datum \div Nano
    <3>1. IsInt64(datum \div Nano)
      BY <2>6, DatumsAreFit DEF VrxFits
    <3>2. datum \in Int /\ Nano \in Nat /\ Nano > 0
      BY AnchoredFacts, ConstantFacts
    <3> HIDE DEF datum
    <3>3. part \in 0 .. Nano - 1 /\ delta \in Int
      <4>1. datum \div Nano \in Int /\ datum % Nano \in 0 .. Nano - 1
        BY <3>2, Division
      <4>2. i \in 1 .. Len(times)
        BY <2>1, OpeningFacts
      <4> QED  BY <2>1, <4>1, <4>2, ElementOfSeq
    <3> HIDE DEF part, delta
    <3>4. ASSUME NEW s \in DOMAIN Segments
          PROVE  IsInt64((Room(Clip(delta, WindowLow(Segments[s]), WindowHigh(Segments[s])),
                               part, Segments[s].offset) * Scale(anchor, Segments[s])) \div Nano)
      <4> DEFINE segment == Segments[s]
                 scale == Scale(anchor, segment)
      <4>1. segment.offset \in Nat /\ segment.count \in Nat
        BY <2>1, RunsAre
      <4>2. (Max({Magnitude(WindowLow(segment)), Magnitude(WindowHigh(segment))}) + 1) * scale
                < IntLimit \div 2
        BY <2>6, Zenon DEF VrxFits
      <4> HIDE DEF segment
      <4>3. scale \in Nat /\ scale > 0
        BY <4>1, ScaleIs
      <4> HIDE DEF scale
      <4>4. IsInt64((Room(Clip(delta, WindowLow(segment), WindowHigh(segment)), part, segment.offset)
                        * scale) \div Nano)
        BY <2>1, <3>3, <4>1, <4>2, <4>3, RoomFits
      <4> QED  BY <4>4 DEF segment, scale
    <3> QED  BY <3>1, <3>4, Zenon DEF datum, part, delta
  <2> QED  BY <2>2, <2>3, <2>4, <2>5, <2>6, Zenon DEF TypeOK
<1> QED  BY <1>1, TimingInvariant, TimesFitHolds, PTL

=============================================================================
