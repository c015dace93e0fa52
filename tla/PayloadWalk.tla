----------------------------- MODULE PayloadWalk -----------------------------
(***************************************************************************)
(* rtp.parse_rtp and payload.parse_payload_headers over a receiver's       *)
(* buffers.  The receiver cuts each packet at a fixed place: what is       *)
(* before the cut is written to the packet's header row, what is after it  *)
(* to its payload row, and the rows keep what earlier packets left beyond  *)
(* that.  Places are counted in sixteen-bit words; a word is known by the  *)
(* packet it came from and its place there, and what it says by what the   *)
(* sender put there.                                                       *)
(***************************************************************************)
EXTENDS Integers, Sequences, FiniteSets, FiniteSetsExt

CONSTANTS
    Packets,        \* packets that arrive: [csrc, ext, pad, srds, lost]
    Rows,           \* rows of a chunk, numbered from 1
    Cuts,           \* places a receiver cuts at
    Width,          \* words of a payload row
    MaxSegments,    \* max_segments
    MaxChunks       \* bound on the chunks parsed

(* _layout.py and rtp.py, in words. *)
FixedHeader == 6
CsrcSize == 2
ExtensionHeader == 2
ExtensionWord == 2
ExtendedSize == 1
SrdSize == 3
ConformingSize == FixedHeader + ExtendedSize + SrdSize

VARIABLES
    cut,            \* words of a header row
    header,         \* header[row]: the words it holds, from place 0
    payload,        \* payload[row]: the words it holds, from place 0
    packet,         \* packet[row]: the packet last written there
    fresh,          \* rows written since the last parse
    chunks,         \* chunks parsed
    offered,        \* whether the last parse was given the payload rows
    fixed,          \* what parse_rtp answered for the chunk, once called
    result          \* what parse_payload_headers answered

memory == <<header, payload, packet>>
vars == <<cut, memory, fresh, chunks, offered, fixed, result>>

-----------------------------------------------------------------------------
(* The sender's packet: where its payload starts, its SRD headers, what    *)
(* each says, and its size in all, less the words its end was cut short by.*)
Start(p) ==
    FixedHeader + CsrcSize * p.csrc
        + (IF p.ext >= 0 THEN ExtensionHeader + ExtensionWord * p.ext ELSE 0)

SrdPlace(p, s) == Start(p) + ExtendedSize + SrdSize * s

SumOf(lengths) ==
    LET sum[i \in 0 .. Len(lengths)] == IF i = 0 THEN 0 ELSE sum[i - 1] + lengths[i]
    IN  sum[Len(lengths)]

Preceding(p, s) == SumOf([i \in 1 .. s |-> p.srds[i].length])

DataPlace(p) == SrdPlace(p, Len(p.srds))

Size(p) == DataPlace(p) + Preceding(p, Len(p.srds)) - p.lost

(* A packet counts its lists, declares a segment at least, and cannot have *)
(* lost more than it was.                                                  *)
IsPacket(p) ==
    /\ {p.csrc, p.lost} \subseteq Nat /\ p.ext \in Nat \cup {-1} /\ p.pad \in BOOLEAN
    /\ p.srds \in Seq([length : Nat, place : Nat]) /\ p.srds # << >>
    /\ Size(p) >= 0

ASSUME PayloadAssumption ==
    /\ {MaxSegments, Width, MaxChunks} \subseteq Nat /\ MaxSegments > 0 /\ Width >= 3
    /\ Rows \cup Cuts \subseteq Nat
    /\ \A p \in Packets : IsPacket(p)

Says(p, s) ==
    [length |-> p.srds[s + 1].length, place |-> p.srds[s + 1].place, more |-> s + 1 < Len(p.srds)]

Blank == [csrc |-> 0, ext |-> -1, pad |-> FALSE, srds |-> << >>, lost |-> 0]

Word(p, i) == [of |-> p, at |-> i]

Zero == Word(Blank, 0)

(* Three words read as an SRD header: a header of some packet, or zeros,   *)
(* or sample data that says whatever it says, here that it continues.      *)
Decode(words) ==
    LET p == words[1].of
        is(s) == words = [i \in 1 .. SrdSize |-> Word(p, SrdPlace(p, s) + i - 1)]
        srds == 0 .. Len(p.srds) - 1
    IN  IF \E s \in srds : is(s) THEN Says(p, CHOOSE s \in srds : is(s))
        ELSE IF words = <<Zero, Zero, Zero>> THEN [length |-> 0, place |-> 0, more |-> FALSE]
        ELSE [length |-> 1, place |-> 0, more |-> TRUE]

-----------------------------------------------------------------------------
(* _chunk.limits(): the usable length of a header row.                     *)
Bound(row) == Min({Size(packet[row]), cut})

(* rtp._payload_offset(): the extension's length counts where it is inside *)
(* the row, and the offset is never past the row's end.                    *)
OffsetOf(row, csrc, extension) ==
    LET csrcEnd == FixedHeader + CsrcSize * csrc
        words == IF csrcEnd + 2 <= Bound(row) THEN header[row][csrcEnd + 1].of.ext ELSE 0
    IN  Min({csrcEnd + (IF extension THEN ExtensionHeader + ExtensionWord * words ELSE 0),
             Bound(row)})

(* Seeded fault: the fields are read whether or not the packet has them. *)
FieldUnmasked(row, i) == header[row][i]

(* rtp._fixed_u16(), and each half of _fixed_u32(): a packet that ends     *)
(* inside the fixed header has none of it.                                 *)
Field(row, i) == IF Bound(row) >= FixedHeader THEN header[row][i] ELSE Zero

(* rtp._general(): a field by the words it is read from; the first word is *)
(* the flags octet and the marker and payload type after it.               *)
Fields(row) ==
    LET first == Field(row, 0)
        csrc == first.of.csrc
        extension == first.of.ext >= 0
    IN  [version |-> IF first = Zero THEN 0 ELSE 2, padding |-> first.of.pad,
         extension |-> extension, csrc |-> csrc, type |-> first,
         sequence |-> Field(row, 1), timestamp |-> <<Field(row, 2), Field(row, 3)>>,
         ssrc |-> <<Field(row, 4), Field(row, 5)>>,
         payload_offset |-> OffsetOf(row, csrc, extension)]

(* rtp._conforming(): one flags octet, VERSION_2, settles four fields and  *)
(* the offset.                                                             *)
IsPlain(row) ==
    /\ Bound(row) >= FixedHeader
    /\ LET first == header[row][0].of IN first.csrc = 0 /\ first.ext = -1 /\ ~first.pad

ColumnFields(row) ==
    [version |-> 2, padding |-> FALSE, extension |-> FALSE, csrc |-> 0, type |-> header[row][0],
     sequence |-> header[row][1], timestamp |-> <<header[row][2], header[row][3]>>,
     ssrc |-> <<header[row][4], header[row][5]>>, payload_offset |-> FixedHeader]

ParseRtp(rows) ==
    IF \A row \in rows : IsPlain(row) THEN [row \in rows |-> ColumnFields(row)]
    ELSE [row \in rows |-> Fields(row)]

(* payload_offset, as the caller hands it on. *)
PayloadOffset(row) == fixed[row].payload_offset

(* Seeded fault: the walk takes a segment more than the bound. *)
SegmentsToBound == 0 .. MaxSegments

Segments == 0 .. MaxSegments - 1

(* _walk() over one row of memory: an SRD header is present where the one  *)
(* before it continues and it is inside the bound.  No row is active past  *)
(* the segment the walk breaks off at.                                     *)
Walk(words, base, bound) ==
    LET place(s) == base + ExtendedSize + SrdSize * s
        fits(s) == place(s) + SrdSize <= bound
        said == [s \in {n \in Segments : fits(n)} |->
                    Decode([i \in 1 .. SrdSize |-> words[place(s) + i - 1]])]
        present[s \in Segments] ==
            fits(s) /\ (s = 0 \/ (present[s - 1] /\ said[s - 1].more))
        parsed == {s \in Segments : present[s]}
        last == Max(Segments)
    IN  [srds |-> [s \in 1 .. Cardinality(parsed) |-> said[s - 1]],
         overflowed |-> last \in parsed /\ said[last].more,
         unreadable |-> \E s \in parsed : s < last /\ said[s].more /\ ~fits(s + 1)]

Span == ExtendedSize + SrdSize * MaxSegments

Clipped(n) == Max({0, Min({n, Span})})

(* The window a crossing packet is walked over again: its own words from   *)
(* the payload offset on, the header row's up to its bound and the payload *)
(* row's after it.                                                         *)
Gathered(row) ==
    [i \in 0 .. Span - 1 |->
        LET logical == PayloadOffset(row) + i
            tail == logical - Bound(row)
        IN  IF tail < 0 THEN header[row][logical]
            ELSE IF tail < Width THEN payload[row][tail] ELSE Zero]

(* The same window where one offset and one head serve every crossing row. *)
Sliced(row, begin, head) ==
    [i \in 0 .. Span - 1 |->
        IF i < head THEN header[row][begin + i]
        ELSE IF i - head < Width THEN payload[row][i - head] ELSE Zero]

Keep(row) == Clipped(Bound(row) - PayloadOffset(row))

(* Seeded fault: the first crossing row's numbers serve every row. *)
WindowOfFirst(row, crossing) ==
    LET first == Min(crossing)
    IN  Sliced(row, PayloadOffset(first), Keep(first))

Window(row, crossing) ==
    LET first == Min(crossing)
    IN  IF \A r \in crossing :
              PayloadOffset(r) = PayloadOffset(first) /\ Keep(r) = Keep(first)
        THEN Sliced(row, PayloadOffset(first), Keep(first))
        ELSE Gathered(row)

(* Seeded fault: the window is walked as though both rows were full. *)
ReachOfSpan(row) == Span

Reach(row) == Clipped(Bound(row) + Width - PayloadOffset(row))

(* _assemble(): data follows the whole payload header, segment after       *)
(* segment; a packet with a header nobody read has no descriptors.         *)
Assemble(walk, start, sequence) ==
    LET end == start + ExtendedSize + SrdSize * Len(walk.srds)
        lengths == [s \in DOMAIN walk.srds |-> walk.srds[s].length]
    IN  [descriptors |-> IF walk.overflowed \/ walk.unreadable THEN << >>
                         ELSE [s \in DOMAIN walk.srds |->
                              [srd |-> walk.srds[s], source |-> end + SumOf(SubSeq(lengths, 1, s - 1))]],
         extended_sequence |-> sequence,
         data_offset |-> end,
         overflowed |-> walk.overflowed,
         unreadable |-> walk.unreadable]

(* _general(): a walk of the header rows, and where the payload rows are   *)
(* offered, another of the rows that ran out; the extended sequence stays  *)
(* the first walk's.                                                       *)
Extended(row) ==
    IF PayloadOffset(row) + ExtendedSize <= Bound(row) THEN header[row][PayloadOffset(row)] ELSE Zero

General(rows, given) ==
    LET walks == [row \in rows |-> Walk(header[row], PayloadOffset(row), Bound(row))]
        crossing == {row \in rows : given /\ walks[row].unreadable}
    IN  [row \in rows |->
            Assemble(IF row \in crossing THEN Walk(Window(row, crossing), 0, Reach(row))
                     ELSE walks[row],
                     PayloadOffset(row), Extended(row))]

First(row) == Decode([i \in 1 .. SrdSize |-> header[row][FixedHeader + ExtendedSize + i - 1]])

(* Seeded fault: the flags octet alone chooses the column read. *)
ConformsByOctet(rows) ==
    \A row \in rows : Bound(row) >= ConformingSize /\ IsPlain(row)

(* _conforming(): one segment a packet, where the fixed header ends.       *)
Conforms(rows) ==
    \A row \in rows :
        /\ Bound(row) >= ConformingSize
        /\ IsPlain(row)
        /\ PayloadOffset(row) = FixedHeader
        /\ ~First(row).more

Columns(rows) ==
    [row \in rows |->
        [descriptors |-> <<[srd |-> First(row), source |-> ConformingSize]>>,
         extended_sequence |-> header[row][FixedHeader],
         data_offset |-> ConformingSize, overflowed |-> FALSE, unreadable |-> FALSE]]

ParsePayloadHeaders(rows, given) ==
    IF Conforms(rows) THEN Columns(rows) ELSE General(rows, given)

-----------------------------------------------------------------------------
Init ==
    /\ cut \in Cuts
    /\ header = [row \in Rows |-> [i \in 0 .. cut - 1 |-> Zero]]
    /\ payload = [row \in Rows |-> [i \in 0 .. Width - 1 |-> Zero]]
    /\ packet = [row \in Rows |-> Blank]
    /\ fresh = {} /\ chunks = 0 /\ offered = FALSE
    /\ fixed = << >> /\ result = << >>

(* The receiver writes a packet; the next chunk reuses the rows of the     *)
(* last, and what the packet does not reach is left as it was.             *)
Receive(row, p) ==
    /\ row \notin fresh /\ \A r \in Rows \ fresh : r >= row
    /\ header' = [header EXCEPT ![row] =
                      [i \in 0 .. cut - 1 |-> IF i < Size(p) THEN Word(p, i) ELSE @[i]]]
    /\ payload' = [payload EXCEPT ![row] =
                      [i \in 0 .. Width - 1 |-> IF cut + i < Size(p) THEN Word(p, cut + i) ELSE @[i]]]
    /\ packet' = [packet EXCEPT ![row] = p]
    /\ fresh' = fresh \cup {row}
    /\ fixed' = << >>
    /\ UNCHANGED <<cut, chunks, offered, result>>

ReadFixed ==
    /\ fresh = Rows /\ fixed = << >>
    /\ fixed' = ParseRtp(Rows)
    /\ UNCHANGED <<cut, memory, fresh, chunks, offered, result>>

Parse(given) ==
    /\ fresh = Rows /\ fixed # << >>
    /\ result' = ParsePayloadHeaders(Rows, given)
    /\ offered' = given
    /\ chunks' = chunks + 1
    /\ fresh' = {}
    /\ UNCHANGED <<cut, memory, fixed>>

Next ==
    \/ /\ chunks < MaxChunks
       /\ \E row \in Rows, p \in Packets : Receive(row, p)
    \/ ReadFixed
    \/ \E given \in BOOLEAN : Parse(given)

Spec == Init /\ [][Next]_vars

-----------------------------------------------------------------------------
(* The state's types: a result is one answer for each row.                 *)
Parsed == result # << >> /\ fresh = {}

TypeOK ==
    /\ cut \in Cuts /\ chunks \in 0 .. MaxChunks /\ fresh \subseteq Rows
    /\ Parsed => \A row \in Rows :
                    /\ result[row].data_offset <= ExtendedSize + SrdSize * MaxSegments + cut
                    /\ Len(result[row].descriptors) <= MaxSegments
                    /\ ~(result[row].overflowed /\ result[row].unreadable)

(* A row's fixed fields are its own packet's, each from its own place, and *)
(* the payload starts where the sender's does or where the packet ends; of *)
(* a packet that ends inside the fixed header every field reads zero, and  *)
(* none reads what an earlier packet left.                                 *)
TrueFields(p, bound) ==
    [version |-> 2, padding |-> p.pad, extension |-> p.ext >= 0, csrc |-> p.csrc,
     type |-> Word(p, 0), sequence |-> Word(p, 1), timestamp |-> <<Word(p, 2), Word(p, 3)>>,
     ssrc |-> <<Word(p, 4), Word(p, 5)>>, payload_offset |-> Min({Start(p), bound})]

NoFields(bound) ==
    [version |-> 0, padding |-> FALSE, extension |-> FALSE, csrc |-> 0,
     type |-> Zero, sequence |-> Zero, timestamp |-> <<Zero, Zero>>,
     ssrc |-> <<Zero, Zero>>, payload_offset |-> bound]

FixedFieldsAreOwn ==
    fixed # << >> => \A row \in Rows :
        fixed[row] = IF Bound(row) < FixedHeader THEN NoFields(Bound(row))
                     ELSE TrueFields(packet[row], Bound(row))

(* Whether a packet came whole, and the words of it that the buffers       *)
(* handed over hold.                                                       *)
IsWhole(p) == p.lost = 0

Held(row) == Min({Size(packet[row]), cut + (IF offered THEN Width ELSE 0)})

FirstIsInside(row) == SrdPlace(packet[row], 1) <= Bound(row)

Read(row) == {s \in 0 .. Len(packet[row].srds) - 1 : SrdPlace(packet[row], s + 1) <= Held(row)}

(* The walk over the packet needs a header that nothing holds. *)
IsShort(row) ==
    \E s \in 1 .. Min({Len(packet[row].srds), MaxSegments}) - 1 : s \notin Read(row)

TrueDescriptors(p) ==
    [s \in 1 .. Len(p.srds) |-> [srd |-> Says(p, s - 1), source |-> DataPlace(p) + Preceding(p, s - 1)]]

(* All or nothing: a packet whose first SRD header is in its header row    *)
(* yields every segment its sender declared, each at its own place, never  *)
(* a word an earlier packet left; or it yields none, and is overflowed     *)
(* where the bound stopped the walk and unreadable where the buffers did.  *)
(* One that has no SRD header in its header row yields nothing, unflagged. *)
(* Of a packet cut short this holds while no payload row is offered.       *)
DescriptorsAreTrue ==
    Parsed => \A row \in Rows :
        LET p == packet[row]
            answer == result[row]
            over == ~IsShort(row) /\ Len(p.srds) > MaxSegments
        IN  /\ answer.extended_sequence = IF Start(p) < Bound(row) THEN Word(p, Start(p)) ELSE Zero
            /\ FirstIsInside(row) /\ (IsWhole(p) \/ ~offered) =>
                /\ answer.unreadable = IsShort(row)
                /\ answer.overflowed = over
                /\ answer.descriptors = IF IsShort(row) \/ over THEN << >> ELSE TrueDescriptors(p)
            /\ ~FirstIsInside(row) =>
                /\ answer.descriptors = << >> /\ ~answer.overflowed /\ ~answer.unreadable

(* What a packet yields is its own: a chunk answers for each row what that *)
(* row alone would have been answered.                                     *)
NeighboursDoNotInterfere ==
    Parsed => \A row \in Rows : result[row] = ParsePayloadHeaders({row}, offered)[row]

(* Which parse ran is the chunk's business: both answer the same, the      *)
(* fixed fields and the payload headers alike.                             *)
FastPathAgrees ==
    /\ fixed # << >> => fixed = [row \in Rows |-> Fields(row)]
    /\ Parsed => result = General(Rows, offered)

(* What the flag says of itself: a packet whose size ends before a header  *)
(* it declared is unreadable, with its payload row offered or without.     *)
CutShortIsUnreadable ==
    Parsed => \A row \in Rows :
        FirstIsInside(row) /\ ~IsWhole(packet[row]) /\ IsShort(row) => result[row].unreadable
=============================================================================
