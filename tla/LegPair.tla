------------------------------- MODULE LegPair -------------------------------
(***************************************************************************)
(* redundancy.reconstruct, over two paths carrying one flow.  The sender   *)
(* puts packet c on both paths at tick c; each path delivers in order and  *)
(* within MaxDelay ticks, drops what it drops, and may repeat a packet     *)
(* late.  Each leg's capture opens and closes when it likes.               *)
(***************************************************************************)
EXTENDS Integers, Sequences, FiniteSets, FiniteSetsExt

CONSTANTS
    WideSpace,      \* 2^32: the extended sequence number's
    Start,          \* the number packet 0 carries
    MaxCount,       \* bound on the packets sent
    MaxDelay,       \* ticks a path takes at most
    MaxRepeats      \* bound on the packets each path repeats

Legs == {"a", "b"}

ASSUME LegAssumption ==
    /\ {WideSpace, Start, MaxCount, MaxDelay, MaxRepeats} \subseteq Nat
    /\ Start < WideSpace /\ MaxCount < WideSpace

VARIABLES
    now,            \* ticks; the packets sent are those numbered up to it
    next,           \* per leg, the packet its path carries next
    dropped,        \* per leg, history: the packets its path dropped
    repeats,        \* per leg, how many packets its path repeated
    window,         \* per leg, "before", "open" or "after"
    capture         \* per leg, what it recorded, in arrival order

vars == <<now, next, dropped, repeats, window, capture>>

-----------------------------------------------------------------------------
(* What a leg hands over: extended sequence numbers, and arrival times.    *)
Numbers(leg) == {capture[leg][i].number : i \in DOMAIN capture[leg]}

Arrivals(leg, number) ==
    {capture[leg][i].arrival : i \in {j \in DOMAIN capture[leg] : capture[leg][j].number = number}}

(* Seeded fault: a number keeps the time of its last copy. *)
EarliestIsLast(leg, number) == Max(Arrivals(leg, number))

(* _earliest(): one arrival for each number, the first copy's. *)
Earliest(leg, number) == Min(Arrivals(leg, number))

(* Seeded fault: the numbers either leg covers. *)
LowOfEither == Min({Min(Numbers(leg)) : leg \in Legs})

(* The span judged is what both legs cover, first number to last. *)
Low == Max({Min(Numbers(leg)) : leg \in Legs})

High == Min({Max(Numbers(leg)) : leg \in Legs})

(* Seeded fault: two recordings of different windows are judged. *)
JudgedApart == \A leg \in Legs : Numbers(leg) # {}

(* What is not refused: an empty leg is, and so are two windows apart. *)
Judged == (\A leg \in Legs : Numbers(leg) # {}) /\ Low <= High

(* How much later the second leg brought each of the numbers. *)
Skews(numbers) == {Earliest("b", number) - Earliest("a", number) : number \in numbers}

Reconstruct ==
    LET span == Low .. High
        a == Numbers("a") \cap span
        b == Numbers("b") \cap span
        both == a \cap b
        skews == Skews(both)
    IN  [delivered |-> Cardinality(a \cup b),
         duplicated |-> Cardinality(both),
         recovered_a |-> Cardinality(b) - Cardinality(both),
         recovered_b |-> Cardinality(a) - Cardinality(both),
         lost |-> High - Low + 1 - Cardinality(a \cup b),
         skew_min |-> IF both = {} THEN 0 ELSE Min(skews),
         skew_max |-> IF both = {} THEN 0 ELSE Max(skews)]

-----------------------------------------------------------------------------
Init ==
    /\ now = 0
    /\ next = [leg \in Legs |-> 0]
    /\ dropped = [leg \in Legs |-> {}]
    /\ repeats = [leg \in Legs |-> 0]
    /\ window = [leg \in Legs |-> "before"]
    /\ capture = [leg \in Legs |-> << >>]

(* A path is due to carry its next packet: sent, and not past the bound. *)
Carries(leg) == next[leg] <= MaxCount /\ next[leg] <= now

Tick ==
    /\ now < MaxCount + MaxDelay
    /\ \A leg \in Legs : Carries(leg) => now < next[leg] + MaxDelay
    /\ now' = now + 1
    /\ UNCHANGED <<next, dropped, repeats, window, capture>>

Recorded(leg, c) ==
    IF window[leg] = "open"
    THEN Append(capture[leg], [number |-> (Start + c) % WideSpace, arrival |-> now])
    ELSE capture[leg]

Arrive(leg) ==
    /\ Carries(leg)
    /\ capture' = [capture EXCEPT ![leg] = Recorded(leg, next[leg])]
    /\ next' = [next EXCEPT ![leg] = @ + 1]
    /\ UNCHANGED <<now, dropped, repeats, window>>

Drop(leg) ==
    /\ Carries(leg)
    /\ dropped' = [dropped EXCEPT ![leg] = @ \cup {next[leg]}]
    /\ next' = [next EXCEPT ![leg] = @ + 1]
    /\ UNCHANGED <<now, repeats, window, capture>>

(* The packet carried last comes again, before the one after it. *)
Repeat(leg) ==
    /\ repeats[leg] < MaxRepeats
    /\ next[leg] > 0 /\ next[leg] - 1 \notin dropped[leg]
    /\ capture' = [capture EXCEPT ![leg] = Recorded(leg, next[leg] - 1)]
    /\ repeats' = [repeats EXCEPT ![leg] = @ + 1]
    /\ UNCHANGED <<now, next, dropped, window>>

Turn(leg) ==
    /\ window' = [window EXCEPT ![leg] =
                      CASE @ = "before" -> "open" [] @ = "open" -> "after"]
    /\ UNCHANGED <<now, next, dropped, repeats, capture>>

Next ==
    \/ Tick
    \/ \E leg \in Legs :
        \/ Arrive(leg)
        \/ Drop(leg)
        \/ Repeat(leg)
        \/ window[leg] # "after" /\ Turn(leg)

Spec == Init /\ [][Next]_vars

-----------------------------------------------------------------------------
(* The state's types, and the account's: nothing judged is negative.       *)
TypeOK ==
    /\ now \in 0 .. MaxCount + MaxDelay
    /\ next \in [Legs -> 0 .. MaxCount + 1]
    /\ dropped \in [Legs -> SUBSET (0 .. MaxCount)]
    /\ repeats \in [Legs -> 0 .. MaxRepeats]
    /\ window \in [Legs -> {"before", "open", "after"}]
    /\ Judged => Reconstruct.lost \in Nat
    /\ \A leg \in Legs : Numbers(leg) \subseteq 0 .. WideSpace - 1

(* What the pair delivered, mended and lost is what the two paths did over *)
(* the packets both captures reach across: whatever the windows cut off at *)
(* either end is not loss, and a path's own repeats are not the pair's.    *)
AccountIsTheNetworks ==
    Judged =>
        LET account == Reconstruct
            span == Low .. High
            by == [leg \in Legs |-> {c \in dropped[leg] : Start + c \in span}]
        IN  /\ account.lost = Cardinality(by["a"] \cap by["b"])
            /\ account.delivered = Cardinality(span) - account.lost
            /\ account.duplicated = Cardinality(span \ {Start + c : c \in by["a"] \cup by["b"]})
            /\ account.recovered_a = Cardinality(by["a"] \ by["b"])
            /\ account.recovered_b = Cardinality(by["b"] \ by["a"])

(* The path differential is the paths': neither end of it is further apart *)
(* than their delays put two first copies, so no repeat stretches it, save *)
(* where a capture opened between a packet and its repeat.                 *)
OpenedOnTime(leg) == capture[leg][1].arrival - (capture[leg][1].number - Start) <= MaxDelay

SkewIsThePaths ==
    Judged /\ (\A leg \in Legs : OpenedOnTime(leg)) =>
        LET account == Reconstruct
        IN  account.skew_min >= -MaxDelay /\ account.skew_max <= MaxDelay

(* "Numbers neither leg carried": no more are lost than both paths dropped. *)
LostIsWhatNeitherCarried ==
    Judged => Reconstruct.lost <= Cardinality(dropped["a"] \cap dropped["b"])
=============================================================================
