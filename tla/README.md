# A formal model of pyst2110

pyst2110 turns SMPTE ST 2110-20 packets into arrays and arrays into packets. It
opens no socket and starts no thread: each function reads a chunk of packets
and returns arrays, and three classes keep state between calls. What is hard in
it is what that state and those arrays say of a *flow*: packets that a network
lost, repeated and reordered, numbers that wrap, buffers that are reused, and
chunks cut wherever the receiver's ring happened to end.

These modules state what the library promises of a flow, model the code that
has to keep the promise, and check the one against the other. Paths below are
under `src/`; `framing.py` and its neighbours are in `src/src/pyst2110/`.

## Inventory

| Component | State | Operations | Correct when |
|---|---|---|---|
| `framing.SequenceTracker` | counters, banked packets, span ends, running unwrapped number, space | `observe`, `expected`, `lost` | its figures are those of RFC 3550 A.3 whatever the chunking; loss and events are the flow's |
| `framing.FrameTracker`, `frame_boundaries`, `frame_starts` | units ended, last marker bit | `observe`, the two functions | a unit ends once for its marker; no answer depends on a chunk cut |
| `geometry` | none | pgroup, line, packet and raster arithmetic | packets tile the raster; masked positions are inside it |
| `transmit.FrameHeaders` | one header block, rewritten in place | constructor, `stamp`, `timestamp` | the wire carries one continuous numbering, a steady clock and every octet once |
| `redundancy.reconstruct` | none | one function | the account is what the two paths did over what both captures cover |
| `rtp.parse_rtp` | none (reads reused buffers) | column read, general read | every field is the packet's own, or zero of a runt; the payload offset is where the payload starts |
| `payload.parse_payload_headers` | none (reads reused buffers) | column read, general walk, second walk over a window | descriptors are the packet's own, all or none, flagged by cause |
| `timing` | none | schedules, two buckets, limits, `measure` | the closed forms are the buckets of ST 2110-21, the verdict follows |
| `sdp` | none | `format_sdp`, `format_dup_sdp`; `parse_sdp`, `parse_dup_sdp`, `parse_video_format` | what was written reads back; a flow read is the one a single section describes |

How they interact: `transmit` stamps the fields that `rtp` and `payload` read
back; `framing` counts over the sequence number of the first joined with the
extended number of the second; `redundancy` takes that number from two legs;
`timing.measure` takes frame starts from `framing` and timestamps that
`transmit` derives; `geometry` is used on both sides, to place packets and to
refuse rows outside the raster. All of it is array in, array out: no callback,
no lock, nothing persisted. `sdp` stands apart: it says where the packets are
and in what format, and shares with `timing` and `transmit` the numbers of
`SdpVideo`. The concurrency is outside, in the sender, the
network, the second path and the ring, and that is where the models put it.

The hard behaviours are listed one by one, at their lines, under "hazards" in
`PROJECT.json`: wraps of two spaces, duplicates and reorderings, chunk cuts, a
vectorized closed form beside a general one, buffers that keep earlier packets,
a block that is handed out twice, exact arithmetic on epoch-sized times, lines
of a document that belong to one section or are inherited from the session.

## Modules

    SequenceSpace <- Rfc3550 <- PacketAccount       what a tracker promises
                  <- SequenceTracker                what the code does; implements it
                     Rfc3550 <- Flow                the account over a network
    SequenceTracker, Flow <- TrackerProofs          proofs of the two of them
    FrameTracker  <- FrameFlow <- FrameProofs       markers over a network, in chunks
    Raster        <- FrameHeaders                   a stamped block and a transmitter
    FrameHeaders, FrameTracker, Rfc3550
                  <- ReceiveSlice <- HeaderProofs   the three of them over a network
    LegPair       <- LegProofs                      two paths and two captures
    PayloadWalk   <- PayloadProofs                  a ring, a cut and both parses
    Timing        <- TimingProofs                   a sender and the two buckets
    Sdp           <- Offers <- OfferProofs          documents between writer and reader
    Foundations   <- every proof module
                                                    induction, Min and Max, remainders

`SequenceSpace` and `Rfc3550` hold the operators both sides share, as records
and functions without recursion, so that proofs can use them. An operator named
in a comment as a *seeded fault* is a plausible bug of that code; no
specification uses it, and each property is known to fail with one of them put
in its place.

**SequenceTracker** has the attributes of the class as variables. `Observe` is
`observe`: its two early outcomes (an empty chunk, a chunk in the other space)
change nothing, and `Account` does the rest, by `Advance` where every step is
one and by `Widen` otherwise. `Widen` is the loop over resyncs put as a
function of where the chunk jumps: cumulative sums from the last cut, each
earlier span banked (`Banked`, a function defined from one cut to the next). **PacketAccount** is the abstract specification: the same
account one packet at a time. The refinement mapping is the record of the
attributes, with `None` for the running number read as zero; `heard` carries
the numbers so that the abstract step can be given the chunk the concrete one
took. A refused or empty chunk is a stuttering step.

**Flow** puts the account behind a sender that joins its count into the two
fields as `stamp` does and a network that loses, keeps copies and reorders. Its
one assumption is `Window`, RFC 3550's own: an arrival is at most `Misorder`
behind the one before it and less than `Dropout` ahead. Outside it the
protocol is ambiguous and the code says so (`framing.py:35-56`).

**FrameTracker** is the marker-bit code; **FrameFlow** a flow of marked units
whose packets are lost (fewer in a row than leave two markers side by side) and
repeated, gathered in a buffer that `Hand` gives to the tracker and to
`frame_starts` at any moment. `Lag` is how far behind the newest packet a
second copy may be: 0 for a switch's repeat, 1 for the slower leg of a pair.

**Raster** is `geometry.py` function by function. **FrameHeaders** is the
constructor (`Init`, with `_validate` as `Accepted`), `stamp` (`Stamp`) and a
transmitter: `Emit` sends the oldest unsent row, `Copy` is what the class asks
of a caller that holds two frames at once (`transmit.py:94-96`).

**ReceiveSlice** composes the three modules a receiver of this library is made
of, as `tests/test_receive_slice.py` does: `Transmit` is any step of
`FrameHeaders`, whose packets go into a network that loses them, keeps a copy
back or lets one overtake another, and `Arrive` hands one packet to the
account, to the `FrameTracker` and `frame_starts`, and to `fits_raster` and
`raster_offset`, in that order. Every chunk is one packet: `FrameFlow` shows
that cuts change nothing, and the finest cut is where they would.

**LegPair** lets each path carry, drop and repeat the packets of one flow
within a bounded delay, and each capture open and close at will; `Reconstruct`
is the function over the two captures. Its assumption is that the flow is
shorter than the space of its numbers; whether it crosses the wrap is open.

**PayloadWalk** has the ring as its state: `header[row]` and `payload[row]` are
words, each known by the packet it came from and its place there, so that a
stale word can be told from a true one. `Receive` writes a packet over what the
row held; `ReadFixed` is `parse_rtp`, whose payload offset the caller hands on;
`Parse` is `parse_payload_headers`, with or without the payload rows, with the
conforming column read, the general walk, the second walk over a window of both
buffers and the assembly. Packets come whole or cut short: inside the fixed
header, inside an extension, inside an SRD header. Places are counted in
sixteen-bit words, which every field of the headers is a whole number of. A
word says what it is a word of, so `Decode` names the one SRD header six of
them spell, and `IsPacket`, an assumption on the constant, says which packets
can be on a wire at all.

**Timing** counts in parts of a nanosecond chosen so that every schedule of the
instance is a whole number of them (its assumption says which divisions are
exact); the emission instants and reads are truncated to nanoseconds where the
code does it. `Divisor` is Euclid's recursion, from which ratios come in
lowest terms as `Fraction` keeps them. int64 is `IntLimit`: `Fits` is `_bound_phase`'s refusal, the sum
of the product and the split-off phase, and `CInstFits`, `DatumsFit` and
`VrxFits` say which calls it lets through; a product nothing guards is
`Wrapped`. `Emit` sends the next packet early, on time or late, in order, and a
frame's first within half a frame of its slot, since beyond it no reader could
say which slot was meant; it also keeps `level`, the network bucket drained an instant at a time, as the
definition the closed form is held to.

**Sdp** is the writer and the three readers of `sdp.py`. A document is a
sequence of lines, each a record of its kind and of what a reader takes from
it; a section is what lies between two `m=` lines, and the readers take of it
what the code takes: the last line of a kind, the session's where the section
says nothing, an address no one can read as no address. The refusals of both
sides are there in their order, and an address keeps the spelling it was given
in beside the host it names, because the writer compares before it renders.
**Offers** hands a reader what a reader is handed: a document the writer wrote,
and what a controller makes of it, one edit at a time - a line withdrawn, moved
up to the session or added, the first section put last, an audio section put before or
after, a port set to zero, another grouping, another encoding.

## Runs

| Run | Instance | States | Shows |
|---|---|---|---|
| tracker | spaces 8 and 16, chunks to 3, 5 packets | 75 k | chunking and the closed form change no figure (`KeepsThePacketAccount`); events are single steps; a surplus is owed to repeats |
| flow | wraps at 8 and 16 crossed, 3 in flight, 6 arrivals | 3.4 M | the count is unwrapped, loss exact, events true |
| frames | units of 3, three units, 9 arrivals | 184 k | cuts change nothing; packets filed with their unit; pairing is the F bit |
| slice | five rasters, three initial numbers, 2 frames, 2 in flight, 2 mishaps | 533 k | numbering, placement, markers, clock, integer range, payload choice; a clean account means whole frames, and a loss is the holes it left |
| legs | 3 packets, delay 1, a repeat each | 755 k | the account is the paths'; the differential is bounded by their delays |
| payload | ten packets, 2 rows, 3 cuts, 2 chunks | 139 k | fixed fields and descriptors true or none; neighbours and fast paths agree |
| timing | five senders, 2 frames, three jitters, int64 near its end | 85 k | closed forms are the buckets wherever they are answered; what leaves int64 is refused; anchors and verdicts are right |
| offers | nine flows and pairs, three formats, two edits | 23 k | written reads back; a flow is its section's; a format is the video's |
| frame_skew, pair_wrap, payload_short, offer_spelling | as above: copies a packet late; a start below the wrap; one row; one address in two spellings | | see Findings |

Why the bounds are enough. The spaces keep the shape of the code's: the wide
one is a multiple of the narrow, its dropout half of it, the narrow one's less
than half, and a misorder window at its end; all classes of step (duplicate, in
step, gap, jump, reordered, and each edge) occur, and the chosen numbers start
or land on both sides of each wrap. Chunks of three hold a step into, inside and out of a
jump, and five packets hold two chunks of that size or a first packet and more.
A frame run needs two units and a cut anywhere in them. In `slice` the low
half wraps inside a frame and at its edges, both halves wrap together, the
timestamp wraps, and the index runs to the last the block stamps; two
frames of two to six packets with two mishaps lose a whole frame's end and its
marker, or a marker and a packet beside it. In `payload`
the cut falls at the end of a conforming header, inside a second SRD header and
past every packet, a packet goes over the bound of three, three packets end
before their headers do, and a second chunk finds the first one's words. In
`offers` two edits suffice for a line to be lost in one section and found in
another, for a hoisted line to be overridden, and for a group and a tag to
disagree. In `timing` the schedules are gapped, linear and
interlaced with an odd number of packets, read at whole and fractional
nanoseconds, two frames lie either side of the timestamp's wrap, and the later
of the two start frames is where the drains since the epoch of the sender with
the shortest interval leave the integers. The
unbounded arrival and frame counters stop at the `Max...` constants, which is
why every run has `CHECK_DEADLOCK FALSE`: at the bound the system stops, and
nothing in the library waits for anything.

No fairness is assumed and no liveness is stated. Every operation is a call
that returns; the library has no loop that waits, no retry and no timer, and
whether the next packet comes is the network's affair.

## Findings

Each violated run states what the source says of itself and is refuted by what
the code does; the quotes are in `PROJECT.json`.

* `frame_skew`: a final packet's second copy ends the frame again unless it
  arrives directly behind the first, so two unmerged legs with any skew count
  frames twice.
* `pair_wrap`: `reconstruct` compares extended numbers without unwrapping, so
  a pair recorded across 2^32 is charged with almost the whole space.
* `payload_short`: a packet cut off inside a later SRD header is walked on into
  what its payload row held before, and yields descriptors nobody sent,
  unflagged, where the docs say it is unreadable.
* `offer_spelling`: two legs that spell one address differently pass the
  writer's comparison, are rendered alike, and are refused by the reader as one
  path described twice.

Observed while modelling, modelled as the code has it, and contradicted by no
line of the repository clearly enough to be a run:

* `frame_starts` judges a chunk's first packet by the marker *bit* before it,
  every other by the edge, so a repeated final packet cut off from the next
  frame gives that frame two starts. `EveryStartIsClaimed` therefore says what
  is never missed, and of a claim only that a marked packet came before.
* `fits_raster` of an interlaced raster of odd height bounds both fields by the
  first field's rows, one more than the second has.
* A packet whose *first* SRD header is past the cut is neither read from its
  payload row nor flagged unreadable; `DescriptorsAreTrue` says so.
* The `rtp` datum's ticks (`timing.py:741-744`) are int64 and nothing bounds
  them, although SPEC.md:757 calls the arithmetic exact. `AnchorsNameTheFrame`
  is stated where they fit (`TicksAreInt64`).

## Proofs

Seven modules prove facts of the specifications, for every value of the
constants their named assumptions allow, and of the forty properties the passing
runs check they prove all forty; a run shows each on an instance, a theorem for
every one. Each rests on an inductive invariant, `IInv`
unless said otherwise, that TLC checks the conjuncts or consequences of first;
where an invariant holds of part of the constants only, the theorem names the
hypothesis (`ASSUME ... PROVE Spec => []Inv`) and the text below says why it is
needed.

**Foundations** is what they share. The library's induction theorems take an
operator, which no prover installed can supply, so induction is stated here of
sets: a non-empty set of naturals has a least member (`LeastNatural`, from the
library's theorem that `<` on the naturals is well founded), and one with 0 and
each successor holds all (`UpTo`). From these: a recursive function is the
function its equation describes (`Recursion`, `RecursionUnique`,
`RunningSumIs`), `Min` and `Max` of bounded sets are in them (`MinBounded`,
`MaxBounded`), and remainders. That puts the models' recursive functions
(`CumSum`, `Banked`, `AdmitAll`, `Walk`, `Divisor`, `SumOf`, `CInst`) within
reach of a proof for every input.

**TrackerProofs** proves that `SequenceTracker` implements `PacketAccount`
(`ChunkingChangesNothing`), for every chunk and both spaces, and the three
invariants of its run. The refinement is the heart of it: `observe` computes
cumulative sums of the steps since the last jump and banks each closed span,
the abstract account takes a packet at a time. `NumbersMove` says how the
cumulative sums move with one packet, `ReachMoves` and `SpanIsReach` that the
span the code takes the ends of is the set of numbers one packet at a time
would have reached (`Reach`), `BankedIs` that what the code banks is the
widths of the spans closed, `AdmitAllIs` that the recursion over a chunk is any
sequence of accounts each an `Admit` from the last; the account after every
packet of a chunk follows, by `UpTo`. `IInv` says that the tracker is fresh
until its first packet and that its account is `Sound` from then on: counters
are natural, events no more than the steps that are not one, and the surplus
within `SurplusIsExplained`'s bound. Soundness is proved of one `Admit` and
carried over a chunk by the refinement.

Its second half proves the four invariants of `Flow`: any two spaces of which
the narrow divides the wide, any dropout and misorder windows that do not
overlap in them (`SpaceAssumption`), any start, any number of packets. The
code's 2^16, 2^32, 3000, 2^31 and 100 are one case.

    FlowIInv == FlowTypeOK /\ Synchronised /\ UnwrapsTheCount /\ EventsAreTrue

`UnwrapsTheCount` alone is not inductive: it says the running number and the
sender's count differ by a whole number of spaces (`Shift`), but a next arrival
could then be read in the wrong space, or be the first of an account that is
not fresh. `Synchronised` adds that nothing has been seen exactly when the
account is new, that the account counts in the receiver's space, and that the
last packet is among the seen, which are finitely many. The fields a packet
carries are its count less a multiple of the space (`CarriedIsCount`, from
three lemmas on quotients and remainders); so the step the tracker takes is the
true distance modulo the space, and inside the window its signed form is the
distance itself (`StepIsAhead`); so admitting a packet moves the running number
by the true distance, is never a jump, and counts exactly what happened
(`AdmitInWindow`). `LossIsExact` then follows from `FlowIInv` by the cardinality of
an interval less a finite set.

**FrameProofs** proves, for units of three packets and more and any capture,
all six invariants of `FrameFlow`: four for second copies any distance late
(`IndexForgetsTheChunks`, `EveryStartIsClaimed`, `PairingIsTheFieldBit`,
`TypeOK`), and two for copies straight after their packets (`Lag = 0`), which
the run `frame_skew` shows is needed: `FramesAreUnits`, `PacketsAreFiled`.

    IInv == TypeOK /\ HoldsTheLastMarker /\ IndexForgetsTheChunks /\ EveryStartIsClaimed

`HoldsTheLastMarker` is what makes it inductive: all the tracker knows of the
packets before a chunk is one bit, and that bit is the last captured packet's
marker, also over empty chunks. With it the rising edges of a chunk, judged
from that bit, are those of the capture at the same places (`ChunkFacts`); an
index is the count before the chunk and the edges of the chunk before the
packet, and `CountInStretches` joins the two counts into the one over the whole
capture. Under `Lag = 0` a second invariant, `InOrder`, says the capture never
goes back and never skips a whole unit; so two marked packets side by side are
one packet twice (`MarkersApart`), and the rising edges are in bijection with
the units whose marker came (`EachUnitRisesOnce`).

**HeaderProofs** proves of `FrameHeaders` inside the slice, for every format
`IsFormat` describes, every accepted payload size, initial number, width of the
fields and size of the integers, all eight invariants of `slice`. Six are about
the transmitter: the joined numbers on the wire run on by one (`WireRunsOn`), no
number `stamp` computes leaves the integers (`NothingOverflows`), a frame's
packets cover its raster once each (`EveryOctetOnce`), the clock is exact to a
tick (`ClockIsExact`), a marker ends each run of one timestamp and nothing else
does (`MarkersEndStamps`), and `TypeOK`, of which that every field fits its
octets is a part (`HeadersFit`).

    IInv == LayoutHolds /\ Rows /\ QueueRunsOn /\ NothingOverflows
    WInv == IInv /\ Contents /\ FramesBounded

The wire alone says nothing of what comes next: a stamp rewrites the block
whose rows the caller may not have sent. `QueueRunsOn` is about the whole queue,
the wire, then the rows held apart, then the unsent rows of the block: it is
one run of numbers from the first, and as long as the frames stamped. `Stamp`
appends a frame to it, and may because nothing of the block was unsent or all
of it was copied; `Copy` and `Emit` move rows along it. `LayoutHolds` gives the
raster's arithmetic (`LineFacts`, `CountFacts`, `PacketFacts`), from which a
header fits its fields as laid out and as stamped (`LaidOutFits`,
`StampedFits`); that the index was not refused bounds the product
`NothingOverflows` is about. `Contents` says more than the number of a header:
the i-th on the wire is row `(i - 1) % Count` as laid out and as stamped for
its own frame, never what a later stamp left in the block. Placement, clock and
markers are then arithmetic of a row: the division of a raster into fields,
lines and packets for the first, floors of a rational clock for the others.
The slice's steps are the transmitter's or leave it alone (`SliceInvariant`),
so the theorems hold of the specification the run `slice` checks.

The receiver's two properties, `CleanIsWhole` and `LossIsTheHoles`, have an
invariant of their own over that one:

    RInv == Network /\ Met /\ Framed
            /\ (ShortOfASpace => CleanRun) /\ (WithinTheWindows => LossRun)

`Network` says what each mishap the network spent accounts for: a packet that
is neither under way nor arrived is a loss, and each that came ahead of one
still under way is an overtaking; so how far from the newest arrival the next
can be is bounded (`BehindBy`, `AheadBy`). `Met` ties the tracker's running
number to the newest arrival's place on the wire, modulo the space, and the
marker kept to its marker; the step the account takes is then a distance on the
wire (`StepIsDistance`). `CleanRun` says an account without a discontinuity has
seen the wire's first packets in a row, `LossRun` that one without a reordering
or a duplicate has seen packets in order in one span. `Framed` says that, met at
its first packet and in order, no more frames are begun than the flow has
(`BeginsLater`: the packet after a marked one is of a later frame, unless of a
second field), and that each raster holds its own frame's packets when as many
are. `LossIsTheHoles` also needs that a frame's packets have places of their own
(`OffsetsApart`).

Five theorems carry a hypothesis on constants:

* `CleanIsWhole`: `ShortOfASpace`, the network keeps back fewer packets than the
  space has numbers, 2^32; the packet a whole space later is in step again.
* `LossIsTheHoles`: `WithinTheWindows`, no packet comes further behind than the
  tracker takes for reordered, or as far ahead as it takes for a jump. The bound
  is sharp: with one mishap more than the run allows, TLC finds a packet three
  behind the newest under a window of two, which closes the span as a jump does.
* `ClockIsExact`: `ShorterThanTurn`, the run of frames is no longer than a turn
  of the timestamp, which is 13 hours; beyond it a difference of stamps no
  longer says how much time passed.
* `MarkersEndStamps`: `RatesAreTold`, a field is at least a tick of the media
  clock and at most a turn, or two fields would carry one stamp.
* `TypeOK`: `SizesAreDeclared`, the sizes an SDP may declare are below the
  narrow space, as `sdp.py` bounds them. The scaled-down spaces of the run do
  not meet it; there TLC checks `TypeOK` itself.

**LegProofs** proves the three invariants of `LegPair` for flows of any length,
any delay and any number of repeats. `IInv` says of each leg, alone: between
the first number its capture recorded and the last, the capture has exactly
what its path did not drop; while it is open that reaches to the packet the
path carried last; and of every number but the first recorded, the first copy
came within the path's delay (the first may be a repeat whose original came
before the capture opened). The account is then the cardinalities of two
intervals less two finite sets, over the span both reach; and the skew's bound
holds at the first number too because the *other* leg's bound applies to it.
`AccountIsTheNetworks` and `SkewIsThePaths` are proved under `InsideOneRun`,
that the flow does not cross the wrap of the extended number: the run
`pair_wrap` shows they fail across it. `TypeOK` needs no hypothesis.

**PayloadProofs** proves all five invariants of `PayloadWalk`, for every set of
packets, of rows and of cuts and every bound on segments. `Holds(row)` says that
a row's two buffers have every word of the packet last written to it that they
have a place for, and nothing of what is beyond its end; `IInv`, that every row
written since the last parse holds its packet, and that what the two calls
answered is what the rows say. The walk is put without its recursion
(`WalkOf`): the headers reached are those that lie within the bound and that
every header before them continued to (`WalkIs`, `WalkOver`). So a walk is a
function of the words it reads; where the words up to a bound are the packet's,
it is the sender's list or stops with its flag (`Faithful`, `Short`); and it
sees no other row (`AnswerFor`), from which that neighbours do not interfere,
whether the second walk gathers rows or slices them, and that the column reads
agree with the general parses, whichever ran.

**TimingProofs** proves all six invariants of `Timing`, for any format, rate,
grid, capture and width of the integers.

    IInv == SettingOK /\ instants in order /\ levels = CInst(times)
                /\ level the last of them /\ each frame opens in its slot

`CInst` is a closed form: packets so far less drain instants passed, less the
running minimum of that, plus one. `CInstGrows` says how one more packet
changes it; that this is how a bucket drained an instant at a time changes is
`BucketHolds`. Leaving out a leading partial frame raises the minimum
(`TrimmedIsLower`). For the virtual receiver, `VrxIs`, `DrainedIs` and
`PassedIs` make of the closed form a count of read instants no later than the
packet, segment by segment. That the two anchors name the right frame
(`IdealIs`, `RtpIs`) is nearest-integer arithmetic from `InSlot` and from the
floor of the stamp. The verdict (`ProfileHolds`) follows from the levels by
three lemmas: a negative level is a late packet and no other is (`LateIsDry`),
a full buffer an early one (`FullIsEarly`), and the peaks are those of the
capture (`PeaksAre`). `TypeOK` is the refusals' worth: whatever passes the two
checks of `_split_multiply`'s bound and `vrx`'s own leaves no number outside
int64 (`FitsHolds`, `RoomFits`, `TimesFit`). Hypotheses:

* `RatesAreTold`, `AnchorsNameTheFrame` only: about two ticks of the media clock
  to a frame. The stamp is floored, and at shorter frames (above 45 kHz) the
  frame nearest to a floored stamp can be the one before.
* `SlipsAreNear`, likewise: a sender is within half a turn of the stamp of the
  media clock, all the stamp alone can tell.
* `InstantsAreInt64`, `TypeOK` only: the instants a capture can hold are int64, as the
  arrays `timing.py` is given are.

`MCTiming` asserts that its instance meets all three.

**OfferProofs** proves all four invariants of `Offers`, for any calls, any
addresses and group lines an edit may bring and any number of edits.

    IInv == call \in Calls /\ Accepted(call) /\ edits \in 0 .. MaxEdits
            /\ Sound(call, doc) /\ (edits = 0 => doc = Offer(call, Format))

A document is `Sound` when it is a sequence of `Lines(call)`, the lines this
writer or an edit of it can have made, and its first line is still the first;
one lemma says so of each edit (`WithdrawIsSound` to `RegroupIsSound`). The
parameters of a format line are thereby the call's or an audio section's, never
a mixture. That much is simple; what takes the work is that it is enough, since
an invariant says nothing of how a document is laid out. `OwnedIs` joins the
two descriptions of a section: the readers cut blocks (`Block`, `Session`) and
search them, the properties ask of each line which media line it comes after
(`Owner`). From it a reader's last line of a kind is its section's last
(`LastIs`, `AttributesAre`, `SectionIs`), the first grouping is the session's
first (`GroupedTagsAre`), and a tag that one video section bears names one
block (`PairIs`, `BothIs`); `FlowsAreTheirSections` is the conjunction. For
`FormatIsTheVideos`, parameters that describe a frame can only be the call's,
and `VideoRoundTrips` says of the writer's choice what to leave out that the
reader's defaults put it back: integers, sender type, offset and limit alike.
`WrittenReadsBack` is of the one document of `edits = 0`: where each of its
lines stands (`LegIs`, `SingleOfferIs`, `PairedOfferIs`), which of them a
reader stops at (`EndsAre`, `OnlyOne`), and what it makes of them (`LegReads`).

It is proved under `DistinctOnceRendered`: no accepted pair is one flow spelled
in two ways. The run `offer_spelling` has the counterexample, a call the writer
takes and the reader refuses; the calls of the run `offers` have none such.

What stays with TLC is the instances themselves, among them the four runs that
refute something, and the seeded faults. Liveness and ENABLED are out of the
prover's reach, and none is claimed.

## Not modelled

* `sdp.py`: TTL, session name and id, the `o=` line, letter case, and how a
  number or a token is spelled. A line either has a value or is one nothing can
  be read from.
* Contiguity and stride of numpy buffers: they choose between copies and views
  that say the same. `parse_payload_headers` without `sizes`.
* `timing`: the histograms, and the `ValueError`s for arguments of the wrong
  shape. Captures with packets lost before the analyzer: `vrx` documents
  emission instants.
* `summary` strings; re-exports in `__init__.py`; benchmark and CI tools.
* Sample data a re-walk reads as an SRD header is one value that continues:
  what any particular octets would say is not claimed.

## Plan

Done, in order of importance: sequence accounting, its abstract specification,
the refinement and its composition with a sender and a network, proved; frames,
proved; transmit headers, geometry and the receive slice, proved; legs, proved;
both parses, proved; timing with its refusals, proved; offers, proved.

Next:

1. A pair under the slice: two `LegPair` paths between `FrameHeaders` and the
   receiver, to state that a frame both paths complete between them is placed
   whole.
2. Reorderings on one path in `LegPair`.
