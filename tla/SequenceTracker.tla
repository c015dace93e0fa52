--------------------------- MODULE SequenceTracker ---------------------------
(***************************************************************************)
(* framing.SequenceTracker as the code computes it: a chunk of sequence    *)
(* numbers at a time, the ordinary chunk in closed form and the broken one *)
(* by cumulative sums between its resyncs.  It implements PacketAccount.   *)
(***************************************************************************)
EXTENDS SequenceSpace, Sequences, FiniteSets, FiniteSetsExt

CONSTANTS
    Chunks(_),      \* the chunks that may be observed in each space
    MaxReceived,    \* bound on the packets of a behaviour
    None            \* Python's None

ASSUME TrackerAssumption ==
    /\ MaxReceived \in Nat
    /\ None \notin Int
    /\ \A w \in BOOLEAN : \A chunk \in Chunks(w) : chunk \in Seq(Numbers(w))

VARIABLES
    received, duplicated, reordered, discontinuities, resyncs,
    closed,         \* packets of the spans already banked
    lowest, highest,\* ends of the open span, unwrapped
    extended,       \* last number seen, unwrapped; None before the first
    wide,           \* which space this tracker counts in
    heard           \* history: the numbers accounted for, in arrival order

counters == <<received, duplicated, reordered, discontinuities, resyncs>>
span == <<closed, lowest, highest, extended>>
vars == <<counters, span, wide, heard>>

Init ==
    /\ received = 0 /\ duplicated = 0 /\ reordered = 0
    /\ discontinuities = 0 /\ resyncs = 0
    /\ closed = 0 /\ lowest = 0 /\ highest = 0
    /\ extended = None
    /\ wide = FALSE
    /\ heard = << >>

-----------------------------------------------------------------------------
(* Each packet's forward distance from the one before it; the one before   *)
(* the first is the last of the previous chunk.                            *)
Steps(w, landed, previous) ==
    [i \in 1 .. Len(landed) |->
        Step(w, landed[i], IF i = 1 THEN previous ELSE landed[i - 1])]

(* Where a chunk jumps. *)
Cuts(w, steps) == {i \in DOMAIN steps : IsJump(w, steps[i])}

(* The cut whose span packet i lies in; 0 is the span the chunk found open. *)
CutBefore(cuts, i) == Max({c \in cuts : c <= i} \cup {0})

(* np.cumsum of the signed steps over the whole chunk, the jumps left out. *)
CumSum(w, steps, n) ==
    LET sum[i \in 0 .. n] ==
            IF i = 0 THEN 0
            ELSE sum[i - 1] + (IF IsJump(w, steps[i]) THEN 0 ELSE Signed(w, steps[i]))
    IN  sum

(* The unwrapped number of every packet of a chunk, counted from the cut   *)
(* its span opened at (index 0 is the base the chunk leads from).          *)
Unwrapped(w, landed, steps, base) ==
    LET cuts == Cuts(w, steps)
        sum == CumSum(w, steps, Len(landed))
        from(i) == LET c == CutBefore(cuts, i) IN IF c = 0 THEN base ELSE landed[c]
    IN  [i \in 0 .. Len(landed) |-> from(i) + sum[i] - sum[CutBefore(cuts, i)]]

(* The numbers of the span that cut c opened, the inherited one with both  *)
(* of its ends.                                                            *)
SpanOf(cuts, numbers, low, high, c) ==
    {numbers[i] : i \in {j \in DOMAIN numbers : CutBefore(cuts, j) = c}}
        \cup (IF c = 0 THEN {low, high} ELSE {})

(* Seeded fault: the ends of a span the wrong way about. *)
WidthSwapped(numbers) == Min(numbers) - Max(numbers) + 1

Width(numbers) == Max(numbers) - Min(numbers) + 1

(* Seeded fault: a resync forgets the span before it. *)
BankedNothing(cuts, numbers, low, high, n) == 0

(* The packets of the spans closed by the n-th packet of a chunk: a cut    *)
(* banks the span that lies before it.                                     *)
Banked(cuts, numbers, low, high, n) ==
    LET banked[i \in 0 .. n] ==
            IF i = 0 THEN 0
            ELSE banked[i - 1]
                     + (IF i \in cuts
                        THEN Width(SpanOf(cuts, numbers, low, high, CutBefore(cuts, i - 1)))
                        ELSE 0)
    IN  banked[n]

-----------------------------------------------------------------------------
(* Seeded fault: a chunk in step after a late packet pulls the span in. *)
AdvanceForgetsHighest(landed, previous, low, high) ==
    /\ lowest' = Min({low, previous + 1})
    /\ highest' = previous + Len(landed)
    /\ extended' = previous + Len(landed)
    /\ UNCHANGED <<duplicated, reordered, discontinuities, resyncs, closed>>

(* A chunk that stepped by one throughout, in closed form: its numbers are *)
(* the run previous + 1 .. previous + Len(landed).                         *)
Advance(landed, previous, low, high) ==
    /\ lowest' = Min({low, previous + 1})
    /\ highest' = Max({high, previous + Len(landed)})
    /\ extended' = previous + Len(landed)
    /\ UNCHANGED <<duplicated, reordered, discontinuities, resyncs, closed>>

(* A chunk with a break in it: count the breaks, then grow the span        *)
(* through the chunk, banking it at every jump.                            *)
Widen(w, landed, steps, previous, low, high) ==
    LET cuts == Cuts(w, steps)
        numbers == Unwrapped(w, landed, steps, previous)
        open == SpanOf(cuts, numbers, low, high, Max(cuts \cup {0}))
        Count(Test(_)) == Cardinality({i \in DOMAIN steps : Test(steps[i])})
    IN  /\ discontinuities' = discontinuities + Count(LAMBDA s : s # 1)
        /\ duplicated' = duplicated + Count(IsDuplicate)
        /\ reordered' = reordered + Count(LAMBDA s : IsReordered(w, s))
        /\ resyncs' = resyncs + Cardinality(cuts)
        /\ closed' = closed + Banked(cuts, numbers, low, high, Len(landed))
        /\ lowest' = Min(open)
        /\ highest' = Max(open)
        /\ extended' = numbers[Len(landed)]

(* Seeded fault: the first packet too is read as a step. *)
AccountStepsFromZero(w, chunk) ==
    LET first == extended = None
        previous == IF first THEN 0 ELSE extended
        low == IF first THEN chunk[1] ELSE lowest
        high == IF first THEN chunk[1] ELSE highest
        steps == Steps(w, chunk, previous)
    IN  /\ received' = received + Len(chunk)
        /\ wide' = w
        /\ heard' = heard \o chunk
        /\ IF \A i \in DOMAIN steps : steps[i] = 1
           THEN Advance(chunk, previous, low, high)
           ELSE Widen(w, chunk, steps, previous, low, high)

(* A chunk with packets in it, in the tracker's own space.  The first      *)
(* packet a tracker ever sees opens the span and has no step.              *)
Account(w, chunk) ==
    LET first == extended = None
        previous == IF first THEN chunk[1] ELSE extended
        low == IF first THEN previous ELSE lowest
        high == IF first THEN previous ELSE highest
        landed == IF first THEN Tail(chunk) ELSE chunk
        steps == Steps(w, landed, previous)
    IN  /\ received' = received + Len(chunk)
        /\ wide' = w
        /\ heard' = heard \o chunk
        /\ IF \A i \in DOMAIN steps : steps[i] = 1
           THEN Advance(landed, previous, low, high)
           ELSE Widen(w, landed, steps, previous, low, high)

(* observe(): an empty chunk is returned from before anything is settled,  *)
(* and one in the other space is refused before anything is counted.       *)
Observe(w, chunk) ==
    IF chunk = << >> \/ (extended # None /\ wide # w)
    THEN UNCHANGED vars
    ELSE Account(w, chunk)

Next ==
    \E w \in BOOLEAN : \E chunk \in Chunks(w) :
        /\ received + Len(chunk) <= MaxReceived
        /\ Observe(w, chunk)

Spec == Init /\ [][Next]_vars

-----------------------------------------------------------------------------
(* The properties expected and lost. *)
Expected == IF extended = None THEN 0 ELSE closed + highest - lowest + 1

Lost == Expected - received

-----------------------------------------------------------------------------
TypeOK ==
    /\ \A n \in {received, duplicated, reordered, discontinuities, resyncs, closed} :
            n \in Nat
    /\ {lowest, highest} \subseteq Int
    /\ extended \in Int \cup {None}
    /\ wide \in BOOLEAN

(* Observing a capture a chunk at a time, in closed form or by cumulative  *)
(* sums, comes to the account kept a packet at a time: where the chunks    *)
(* were cut changes no figure, and a refused chunk leaves no trace.        *)
Promise == INSTANCE PacketAccount WITH
    account <- [received |-> received, duplicated |-> duplicated,
                reordered |-> reordered, discontinuities |-> discontinuities,
                resyncs |-> resyncs, closed |-> closed,
                lowest |-> lowest, highest |-> highest,
                extended |-> IF extended = None THEN 0 ELSE extended,
                wide |-> wide]

KeepsThePacketAccount == Promise!Spec

(* Every event the tracker counts is one step between two packets: the     *)
(* three kinds never overlap, and the first packet is never one of them.   *)
EventsAreSteps ==
    /\ duplicated + reordered + resyncs <= discontinuities
    /\ received > 0 => discontinuities < received

(* A negative loss is owed to duplicates and late packets that were        *)
(* counted as such, and to no more than one misorder window each.          *)
SurplusIsExplained == -Lost <= duplicated + reordered * (Misorder + 1)
=============================================================================
