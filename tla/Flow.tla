-------------------------------- MODULE Flow --------------------------------
(***************************************************************************)
(* A sender, a network and a SequenceTracker.  The sender counts packets   *)
(* without end and puts in each what a stamper puts there (transmit.py,    *)
(* stamp()); the network loses, repeats and reorders them; the receiver    *)
(* joins the two fields again and accounts for each packet.  Chunking is   *)
(* left out: SequenceTracker shows it changes nothing.                     *)
(*                                                                         *)
(* The network keeps RFC 3550's window: an arrival is no further ahead of  *)
(* the one before it than a gap may be, and no further behind than a       *)
(* reordering may.  Within it the tracker should never be wrong.           *)
(***************************************************************************)
EXTENDS Rfc3550, FiniteSets

CONSTANTS
    Starts,         \* initial_sequence: where a sender may begin
    MaxCount,       \* bound on the sender's count
    MaxFlight,      \* bound on the packets in the network at once
    MaxArrivals     \* bound on the packets that arrive, repeats included

ASSUME FlowAssumption ==
    /\ Starts \subseteq Nat
    /\ {MaxCount, MaxFlight, MaxArrivals} \subseteq Nat
    /\ NarrowSpace > 0 /\ WideSpace % NarrowSpace = 0

VARIABLES
    whole,          \* is the receiver handed the extended number?
    sent,           \* the sender's count
    flight,         \* counts of the packets in the network
    seen,           \* counts that have arrived
    latest,         \* count of the last packet to arrive
    events,         \* what truly happened between consecutive arrivals
    tracker         \* what SequenceTracker holds

flowVars == <<whole, sent, flight, seen, latest, events, tracker>>

(* The two fields a packet carries, and the number observe() makes of them. *)
Low(count) == count % NarrowSpace

High(count) == (count \div NarrowSpace) % (WideSpace \div NarrowSpace)

Joined(high, low) == high * NarrowSpace + low

Carried(w, count) == IF w THEN Joined(High(count), Low(count)) ELSE Low(count)

FlowInit ==
    /\ whole \in BOOLEAN
    /\ sent \in Starts
    /\ flight = {} /\ seen = {}
    /\ latest = sent
    /\ events = [late |-> 0, again |-> 0, broken |-> 0]
    /\ tracker = Fresh

Send ==
    /\ sent < MaxCount /\ Cardinality(flight) < MaxFlight
    /\ sent' = sent + 1
    /\ flight' = flight \cup {sent}
    /\ UNCHANGED <<whole, seen, latest, events, tracker>>

Lose(count) ==
    /\ flight' = flight \ {count}
    /\ UNCHANGED <<whole, sent, seen, latest, events, tracker>>

(* The window the network keeps, in packets ahead of the last arrival. *)
Window == -Misorder .. Dropout(whole) - 1

(* A packet arrives; the network may keep a copy that arrives again. *)
Arrive(count, kept) ==
    LET first == seen = {}
        ahead == count - latest
    IN  /\ tracker.received < MaxArrivals
        /\ first \/ ahead \in Window
        /\ flight' = IF kept THEN flight ELSE flight \ {count}
        /\ seen' = seen \cup {count}
        /\ latest' = count
        /\ events' = IF first THEN events
                     ELSE [late |-> events.late + One(ahead < 0),
                           again |-> events.again + One(ahead = 0),
                           broken |-> events.broken + One(ahead # 1)]
        /\ tracker' = Admit(tracker, whole, Carried(whole, count))
        /\ UNCHANGED <<whole, sent>>

FlowNext ==
    \/ Send
    \/ \E count \in flight : Lose(count)
    \/ \E count \in flight, kept \in BOOLEAN : Arrive(count, kept)

FlowSpec == FlowInit /\ [][FlowNext]_flowVars

-----------------------------------------------------------------------------
(* The tracker's number for a count, while the two keep step. *)
Shift == tracker.extended - latest

FlowTypeOK ==
    /\ whole \in BOOLEAN
    /\ {sent, latest} \subseteq Nat
    /\ flight \subseteq Nat /\ seen \subseteq Nat
    /\ events \in [late : Nat, again : Nat, broken : Nat]
    /\ tracker \in [received : Nat, duplicated : Nat, reordered : Nat,
                    discontinuities : Nat, resyncs : Nat, closed : Nat,
                    lowest : Int, highest : Int, extended : Int, wide : BOOLEAN]

(* Through any number of wraps the tracker's unwrapped numbers run a whole *)
(* number of spaces from the sender's count, its span ends at the oldest   *)
(* and the newest packet that arrived, and it never gives up on the span.  *)
UnwrapsTheCount ==
    seen # {} =>
        /\ Shift % Space(whole) = 0
        /\ tracker.lowest - Shift \in seen /\ tracker.highest - Shift \in seen
        /\ \A count \in seen : tracker.lowest <= count + Shift /\ count + Shift <= tracker.highest
        /\ tracker.resyncs = 0 /\ tracker.closed = 0

(* The packets between the oldest and the newest arrival that never came. *)
Missing ==
    {count \in tracker.lowest - Shift .. tracker.highest - Shift : count \notin seen}

(* lost is exactly the packets that never came, less the copies that came  *)
(* again, in whatever order the packets arrived.                           *)
LossIsExact ==
    seen # {} =>
        LostOf(tracker) = Cardinality(Missing) - (tracker.received - Cardinality(seen))

(* What the tracker calls reordered, duplicated and discontinuous is what  *)
(* happened to the flow, arrival by arrival.                               *)
EventsAreTrue ==
    /\ tracker.reordered = events.late
    /\ tracker.duplicated = events.again
    /\ tracker.discontinuities = events.broken
=============================================================================
