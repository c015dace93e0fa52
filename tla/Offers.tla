------------------------------- MODULE Offers -------------------------------
(***************************************************************************)
(* Offers on their way from the writer to the readers of sdp.py.  What a   *)
(* reader is handed was written by this library, by it and then rewritten  *)
(* by a controller, or by another sender that lays its documents out       *)
(* otherwise: the writer's document, and every document a few edits away.  *)
(***************************************************************************)
EXTENDS Sdp

CONSTANTS
    Text,           \* what a name, a tag or a token may be
    Calls,          \* calls of format_sdp and format_dup_sdp
    Groupings,      \* group lines a document may come to have
    Connections,    \* c= lines, and None for one with no address
    MaxEdits        \* bound on the edits

Format == 96        \* payload type of the video
AudioFormat == 97

(* What the writer takes and a line may say, of the types it is.           *)
Addresses == [host : Text, text : Text, version : {4, 6}, multicast : BOOLEAN]

Flows == [destination : Addresses, port : Int, source : Addresses \cup {None}]

Videos ==
    [width : Int, height : Int, frame_rate : [num : Int, den : Nat \ {0}],
     depth : Int, sampling : Text \cup {None}, colorimetry : Text \cup {None},
     interlaced : BOOLEAN, max_udp : Int, sender_type : Text,
     tr_offset_us : Int \cup {None}, cmax : Int \cup {None}]

Groups == [kind : {"group"}, semantics : Text, tags : Seq(Text)]

ASSUME OffersAssumption ==
    /\ MaxPort \in Nat \ {0} /\ ClockRate \in Int /\ MaxEdits \in Nat
    /\ ToSet(DupTags) \cup {"DUP", "plain", "raw", "coded", "L24"} \subseteq Text
    /\ \A c \in Calls :
        /\ c.flows \in Seq(Flows) /\ Len(c.flows) \in 1 .. 2
        /\ c.video \in Videos /\ c.sender_type \in Text \cup {None}
    /\ Connections \subseteq Addresses \cup {None}
    /\ Groupings \subseteq Groups
    /\ None \notin Addresses \cup Seq(Text) \cup Text \cup Int

VARIABLES
    call,           \* the call that wrote the document
    doc,            \* the document
    edits           \* edits made to it

vars == <<call, doc, edits>>

Init ==
    /\ call \in {c \in Calls : Accepted(c)}
    /\ doc = Offer(call, Format)
    /\ edits = 0

Rewrite(lines) ==
    /\ edits < MaxEdits
    /\ doc' = lines /\ doc' # doc
    /\ edits' = edits + 1
    /\ UNCHANGED call

Attributes == {i \in DOMAIN doc : doc[i].kind \in {"c", "source-filter", "mid", "rtpmap", "fmtp"}}

Withdraw(i) == Rewrite(RemoveAt(doc, i))

(* RFC 7104's first example: what the blocks share is said once, above.    *)
Hoist(i) ==
    Rewrite(LET rest == RemoveAt(doc, i)
            IN  InsertAt(rest, Len(Session(rest)) + 1, doc[i]))

(* The same sections in another order: the first of them comes last. *)
Exchange ==
    LET first == Min(MediaLines(doc))
        block == Block(doc, first)
    IN  /\ MediaLines(doc) # {}
        /\ Rewrite(Session(doc) \o SubSeq(doc, first + Len(block), Len(doc)) \o block)

(* A media section of another essence, with lines of its own, before or    *)
(* after the video; or the video sent to no port.                          *)
Audio(address) ==
    <<Media("audio", 1, AudioFormat), Connection(address), Mid(DupTags[1]),
      Rtpmap(AudioFormat, "L24", 48), Fmtp(AudioFormat, [ptime |-> 1])>>

Interpose(address, first) ==
    Rewrite(IF first THEN Session(doc) \o Audio(address) \o SubSeq(doc, Len(Session(doc)) + 1, Len(doc))
            ELSE doc \o Audio(address))

Disable(m) == Rewrite([doc EXCEPT ![m] = Media(@.media, 0, @.format)])

(* One line more in a block, after what it has: another address, or none;  *)
(* a filter that excludes; the other leg's tag.                            *)
Lengthen(m, line) ==
    Rewrite(InsertAt(doc, m + Len(Block(doc, m)), line))

(* Another group line where there was one, or one where there was none. *)
Regroup(group) ==
    Rewrite(IF Of(doc, "group") = {} THEN InsertAt(doc, Len(Session(doc)) + 1, group)
            ELSE ReplaceAt(doc, Min(Of(doc, "group")), group))

(* Another payload type, encoding or clock on the same line. *)
Recode(i) ==
    \E other \in {Rtpmap(AudioFormat, "raw", ClockRate), Rtpmap(Format, "coded", ClockRate),
                  Rtpmap(Format, "raw", 48)} :
        Rewrite(ReplaceAt(doc, i, other))

Next ==
    \/ \E i \in Attributes : Withdraw(i)
    \/ \E i \in Attributes : i > Len(Session(doc)) /\ Hoist(i)
    \/ Exchange
    \/ \E address \in Connections, first \in BOOLEAN : Interpose(address, first)
    \/ \E m \in MediaLines(doc) : Disable(m)
    \/ \E m \in MediaLines(doc), address \in Connections : Lengthen(m, Connection(address))
    \/ \E m \in MediaLines(doc) : Lengthen(m, SourceFilter("excl", None))
    \/ \E m \in MediaLines(doc), tag \in ToSet(DupTags) : Lengthen(m, Mid(tag))
    \/ \E group \in Groupings : Regroup(group)
    \/ \E i \in Attributes : doc[i].kind = "rtpmap" /\ Recode(i)

Spec == Init /\ [][Next]_vars

-----------------------------------------------------------------------------
(* The state's types, and of every answer: a flow has an address and a     *)
(* port packets can be sent to.                                            *)
IsFlow(flow) == flow.destination # None /\ flow.port \in 1 .. MaxPort

TypeOK ==
    /\ edits \in 0 .. MaxEdits /\ Len(doc) > 0
    /\ ParseSdp(doc) # Refused => IsFlow(ParseSdp(doc))
    /\ ParseDupSdp(doc) # Refused => \A leg \in ToSet(ParseDupSdp(doc)) : IsFlow(leg)

(* Reader and writer agree: every document the writer writes is answered   *)
(* by the one reader that is for it, with the flows it was written from in *)
(* the order they were passed, and the format, without a warning.          *)
AsRendered(flow) ==
    [flow EXCEPT !.destination = Rendered(@), !.source = Rendered(@)]

WrittenReadsBack ==
    edits = 0 =>
        LET flows == [i \in DOMAIN call.flows |-> AsRendered(call.flows[i])]
        IN  /\ ParseSdp(doc) = IF Len(flows) = 1 THEN flows[1] ELSE Refused
            /\ ParseDupSdp(doc) = IF Len(flows) = 2 THEN flows ELSE Refused
            /\ ParseVideoFormat(doc) =
                   [video |-> [call.video EXCEPT !.sender_type = SenderType(call)], warned |-> FALSE]

(* A line belongs to the media line last before it, or to the session.     *)
Owner(d, i) == Max({0} \cup {m \in MediaLines(d) : m <= i})

Owned(d, kind, owner) == {i \in DOMAIN d : d[i].kind = kind /\ Owner(d, i) = owner}

(* What the last line of a kind that one owner has says.                   *)
Said(line) ==
    CASE line.kind = "c" -> line.address
      [] line.kind = "mid" -> line.tag
      [] OTHER -> IF line.mode = "incl" THEN line.source ELSE None

LastOf(d, kind, owner) ==
    IF Owned(d, kind, owner) = {} THEN None ELSE Said(d[Max(Owned(d, kind, owner))])

(* The flow a media line's section describes, by its own lines and, where  *)
(* those say nothing, by the session's; no other section's come into it.   *)
Described(d, m) ==
    [destination |-> IF LastOf(d, "c", m) # None THEN LastOf(d, "c", m) ELSE LastOf(d, "c", 0),
     port |-> d[m].port,
     source |-> IF LastOf(d, "source-filter", m) # None THEN LastOf(d, "source-filter", m)
                ELSE LastOf(d, "source-filter", 0)]

IsVideo(d, m) == d[m].kind = "m" /\ d[m].media = "video"

IsFirstVideo(d, m) == IsVideo(d, m) /\ \A n \in 1 .. m - 1 : ~IsVideo(d, n)

(* However a document came to be laid out, each flow read out of it is the *)
(* one a single section describes: the first video section's, or that of   *)
(* the one video section that carries the tag; a group of two legs with a  *)
(* section each is read as two, and read as one by nobody.                 *)
FlowsAreTheirSections ==
    LET flow == ParseSdp(doc)
        legs == ParseDupSdp(doc)
        duplicated == {i \in Owned(doc, "group", 0) : doc[i].semantics = "DUP"}
        bearers(tag) == {m \in DOMAIN doc : IsVideo(doc, m) /\ LastOf(doc, "mid", m) = tag}
    IN  /\ flow # Refused =>
            /\ duplicated = {}
            /\ \E m \in DOMAIN doc : IsFirstVideo(doc, m) /\ flow = Described(doc, m)
        /\ legs # Refused =>
            LET tags == doc[Min(duplicated)].tags
            IN  /\ \A m \in DOMAIN doc : IsVideo(doc, m) => \E i \in 1 .. 2 : m \in bearers(tags[i])
                /\ \A i \in 1 .. 2 : \E m \in DOMAIN doc :
                        bearers(tags[i]) = {m} /\ legs[i] = Described(doc, m)

(* A format that is answered is the first video section's, as the writer   *)
(* wrote it, and never another section's or another essence's; an encoding *)
(* that is not raw is never read as a raster, and one that is not stated   *)
(* is read as raw with a warning.                                          *)
FormatIsTheVideos ==
    LET read == ParseVideoFormat(doc)
    IN  read # Refused =>
            /\ read.video = [call.video EXCEPT !.sender_type = SenderType(call)]
            /\ \E m \in DOMAIN doc :
                    /\ IsFirstVideo(doc, m)
                    /\ \E i \in Owned(doc, "fmtp", m) : doc[i].format = Format
                    /\ read.warned <=> ~\E i \in Owned(doc, "rtpmap", m) :
                            doc[i] = Rtpmap(Format, "raw", ClockRate)

(* What format_dup_sdp says of itself: the pair it writes is two paths. *)
TwoPathsAreWritten ==
    edits = 0 /\ Len(call.flows) = 2 => ParseDupSdp(doc) # Refused
=============================================================================
