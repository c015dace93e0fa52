--------------------------------- MODULE Sdp ---------------------------------
(***************************************************************************)
(* sdp.py: the writer of an offer and the three readers of one.  A         *)
(* document is the sequence of its lines, each a record of its kind and of *)
(* what a reader takes from it.  An address is its host, the spelling it   *)
(* was given in, its version and whether it is multicast; two spellings of *)
(* one host are two different strings.                                     *)
(***************************************************************************)
EXTENDS Integers, SequencesExt

CONSTANTS
    None,           \* an empty string, an absent parameter
    Refused,        \* the answer of a call that raised ValueError
    MaxRaster,      \* 2^15 - 1
    MaxPort,        \* 2^16 - 1
    MaxUdp,         \* 2^16 - 1
    MaxCmax,        \* 2^32 - 1
    StandardUdp,    \* STANDARD_UDP_SIZE_LIMIT
    ClockRate,      \* RTP_CLOCK_RATE
    Second          \* _MICROSECONDS_PER_SECOND

SenderTypes == {"2110TPN", "2110TPNL", "2110TPW"}

Depths == {8, 10, 12, 16}

DupTags == <<"1", "2">>

(* Every line an offer is written in or read by. *)
Header(name) == [kind |-> name]
Group(semantics, tags) == [kind |-> "group", semantics |-> semantics, tags |-> tags]
Media(media, port, format) == [kind |-> "m", media |-> media, port |-> port, format |-> format]
Connection(address) == [kind |-> "c", address |-> address]
SourceFilter(mode, source) == [kind |-> "source-filter", mode |-> mode, source |-> source]
Mid(tag) == [kind |-> "mid", tag |-> tag]
Rtpmap(format, encoding, clock) ==
    [kind |-> "rtpmap", format |-> format, encoding |-> encoding, clock |-> clock]
Fmtp(format, parameters) == [kind |-> "fmtp", format |-> format, parameters |-> parameters]

-----------------------------------------------------------------------------
(* What reader and writer refuse alike. *)
IsFrameRate(rate) == 0 < rate.num /\ rate.num <= ClockRate * rate.den

(* TROFF lies inside one frame period; CMAX and it may be absent. *)
IsTrOffset(offset, rate) == offset = None \/ (0 <= offset /\ offset * rate.num < Second * rate.den)

IsCmax(cmax) == cmax = None \/ cmax \in 1 .. MaxCmax

DescribesAFrame(width, height, rate, max_udp, sender_type, tr_offset_us, cmax) ==
    /\ width \in 1 .. MaxRaster /\ height \in 1 .. MaxRaster
    /\ max_udp \in 1 .. MaxUdp
    /\ IsFrameRate(rate)
    /\ sender_type \in SenderTypes
    /\ IsTrOffset(tr_offset_us, rate)
    /\ IsCmax(cmax)

-----------------------------------------------------------------------------
(* A call of format_sdp or format_dup_sdp: one flow or two, the format,    *)
(* the sender type that overrides the format's, and any_source.            *)
SenderType(call) == IF call.sender_type = None THEN call.video.sender_type ELSE call.sender_type

(* ipaddress renders a host in one spelling, whichever it was given in. *)
Rendered(address) == IF address = None THEN None ELSE [address EXCEPT !.text = "plain"]

(* Who may send: a multicast flow names a sender or offers any, not both,  *)
(* and a sender is of its group's family.                                  *)
Filtered(flow, any_source) ==
    IF flow.source = None THEN flow.destination.multicast => any_source
    ELSE ~any_source /\ flow.source.version = flow.destination.version

(* What _offer and _media_type_parameters refuse to write. *)
Accepted(call) ==
    LET video == call.video
    IN  /\ \A flow \in ToSet(call.flows) :
            flow.port \in 1 .. MaxPort /\ Filtered(flow, call.any_source)
        /\ IsInjective(call.flows)
        /\ video.sampling # None /\ video.colorimetry # None
        /\ video.depth \in Depths
        /\ DescribesAFrame(video.width, video.height, video.frame_rate, video.max_udp,
                           SenderType(call), video.tr_offset_us, video.cmax)

Parameters(video, sender_type) ==
    [sampling |-> video.sampling, width |-> video.width, height |-> video.height,
     exactframerate |-> video.frame_rate, depth |-> video.depth,
     colorimetry |-> video.colorimetry, PM |-> "2110GPM",
     SSN |-> IF video.colorimetry = "ALPHA" THEN "ST2110-20:2022" ELSE "ST2110-20:2017",
     TP |-> sender_type, TROFF |-> video.tr_offset_us, CMAX |-> video.cmax,
     interlace |-> None, MAXUDP |-> video.max_udp]

(* Seeded fault: TROFF is written where it is true, so never where it is 0. *)
WrittenWhereTrue(video, sender_type) ==
    Restrict(Parameters(video, sender_type),
        DOMAIN Parameters(video, sender_type) \
            {name \in {"TROFF", "CMAX", "interlace", "MAXUDP"} :
                \/ name = "TROFF" /\ video.tr_offset_us \in {None, 0}
                \/ name = "CMAX" /\ video.cmax = None
                \/ name = "interlace" /\ ~video.interlaced
                \/ name = "MAXUDP" /\ video.max_udp = StandardUdp})

(* A parameter is written where it differs from what its absence means. *)
MediaTypeParameters(video, sender_type) ==
    Restrict(Parameters(video, sender_type),
        DOMAIN Parameters(video, sender_type) \
            {name \in {"TROFF", "CMAX", "interlace", "MAXUDP"} :
                \/ name = "TROFF" /\ video.tr_offset_us = None
                \/ name = "CMAX" /\ video.cmax = None
                \/ name = "interlace" /\ ~video.interlaced
                \/ name = "MAXUDP" /\ video.max_udp = StandardUdp})

(* One leg's media section. *)
Leg(flow, tag, format, parameters) ==
    <<Media("video", flow.port, format), Connection(Rendered(flow.destination))>>
        \o (IF flow.source = None THEN << >>
            ELSE <<SourceFilter("incl", Rendered(flow.source))>>)
        \o (IF tag = None THEN << >> ELSE <<Mid(tag)>>)
        \o <<Rtpmap(format, "raw", ClockRate), Fmtp(format, parameters)>>

(* _offer(): the document of a call it does not refuse. *)
Offer(call, format) ==
    LET leg(i, tag) ==
            Leg(call.flows[i], tag, format, MediaTypeParameters(call.video, SenderType(call)))
    IN  <<Header("v"), Header("o"), Header("s"), Header("t")>>
            \o IF Len(call.flows) = 1 THEN leg(1, None)
               ELSE <<Group("DUP", DupTags)>> \o leg(1, DupTags[1]) \o leg(2, DupTags[2])

-----------------------------------------------------------------------------
(* _sections(): what comes before the first media line is session level,   *)
(* and what comes after one is that section's until the next.              *)
MediaLines(doc) == {i \in DOMAIN doc : doc[i].kind = "m"}

Session(doc) == SubSeq(doc, 1, Min(MediaLines(doc) \cup {Len(doc) + 1}) - 1)

Block(doc, m) == SubSeq(doc, m, Min({i \in MediaLines(doc) : i > m} \cup {Len(doc) + 1}) - 1)

VideoLines(doc) == {m \in MediaLines(doc) : doc[m].media = "video"}

Of(lines, kind) == {i \in DOMAIN lines : lines[i].kind = kind}

(* _attribute(): the last line of a kind, read, or nothing. *)
Attribute(lines, kind, Read(_)) ==
    IF Of(lines, kind) = {} THEN None ELSE Read(lines[Max(Of(lines, kind))])

Address(line) == line.address

(* A filter that excludes names no sender. *)
Source(line) == IF line.mode = "incl" THEN line.source ELSE None

Tag(line) == line.tag

Either(own, inherited) == IF own = None THEN inherited ELSE own

(* _video_sections(): every video block, by where it begins, with what it  *)
(* inherits.                                                               *)
VideoSections(doc) ==
    LET session == Session(doc)
        section(block) ==
            [port |-> block[1].port,
             connection |-> Either(Attribute(block, "c", Address), Attribute(session, "c", Address)),
             source |-> Either(Attribute(block, "source-filter", Source),
                               Attribute(session, "source-filter", Source)),
             mid |-> Attribute(block, "mid", Tag)]
    IN  [m \in VideoLines(doc) |-> section(Block(doc, m))]

(* _dup_tags(): the first session-level group of DUP semantics. *)
GroupedTags(doc) ==
    LET groups == {i \in Of(Session(doc), "group") : doc[i].semantics = "DUP"}
    IN  IF groups = {} THEN None ELSE doc[Min(groups)].tags

(* Seeded fault: a disabled block is read as a flow. *)
UsableAtAnyPort(section) == section.connection # None

Usable(section) == section.connection # None /\ section.port # 0

FlowOf(section) ==
    [destination |-> section.connection, port |-> section.port, source |-> section.source]

(* parse_sdp(): the first video block of an offer that is not a pair. *)
ParseSdp(doc) ==
    LET first == VideoSections(doc)[Min(VideoLines(doc))]
    IN  IF GroupedTags(doc) = None /\ VideoLines(doc) # {} /\ Usable(first)
        THEN FlowOf(first)
        ELSE Refused

(* Tags and blocks name each other, one to one, and there are two. *)
IsPair(tags, sections) ==
    LET mids == [m \in DOMAIN sections |-> sections[m].mid]
    IN  /\ tags # None
        /\ Len(tags) = Cardinality(DOMAIN sections) /\ Len(tags) = Len(DupTags)
        /\ IsInjective(tags) /\ IsInjective(mids)
        /\ ToSet(tags) \subseteq Range(mids)

(* Seeded fault: the legs come back in the order of the blocks. *)
LegsByBlock(tags, sections) ==
    <<sections[Min(DOMAIN sections)], sections[Max(DOMAIN sections)]>>

(* The sections a pair's tags name, in the order of the tags. *)
Legs(tags, sections) ==
    [i \in DOMAIN tags |-> sections[CHOOSE m \in DOMAIN sections : sections[m].mid = tags[i]]]

(* parse_dup_sdp(): both legs, or none. *)
ParseDupSdp(doc) ==
    LET tags == GroupedTags(doc)
        sections == VideoSections(doc)
        legs == Legs(tags, sections)
    IN  IF ~IsPair(tags, sections) THEN Refused
        ELSE IF Usable(legs[1]) /\ Usable(legs[2]) /\ FlowOf(legs[1]) # FlowOf(legs[2])
        THEN <<FlowOf(legs[1]), FlowOf(legs[2])>>
        ELSE Refused

-----------------------------------------------------------------------------
(* Seeded fault: the reader does not stop where the next section begins. *)
FromVideoOn(doc) == SubSeq(doc, Min(VideoLines(doc)), Len(doc))

(* The first video section, whose format it is. *)
VideoBlock(doc) == Block(doc, Min(VideoLines(doc)))

(* _format_parameters(): its first format line. *)
FormatLine(doc) ==
    LET lines == VideoBlock(doc)
    IN  lines[Min(Of(lines, "fmtp"))]

HasFormat(doc) == VideoLines(doc) # {} /\ Of(VideoBlock(doc), "fmtp") # {}

(* _video_payload_mapping(): the encodings of the payload type it formats. *)
Mappings(doc) ==
    {i \in Of(VideoBlock(doc), "rtpmap") : VideoBlock(doc)[i].format = FormatLine(doc).format}

(* _require_raw(): an offer that maps nothing is read as raw. *)
IsRaw(doc) ==
    LET mapping == VideoBlock(doc)[Min(Mappings(doc))]
    IN  Mappings(doc) = {} \/ (mapping.encoding = "raw" /\ mapping.clock = ClockRate)

Given(parameters, name, default) ==
    IF name \in DOMAIN parameters THEN parameters[name] ELSE default

(* The format a parameter line says, absences meaning what they mean. *)
VideoOf(parameters) ==
    [width |-> parameters["width"], height |-> parameters["height"],
     frame_rate |-> parameters["exactframerate"],
     depth |-> Given(parameters, "depth", 10),
     sampling |-> Given(parameters, "sampling", None),
     colorimetry |-> Given(parameters, "colorimetry", "UNSPECIFIED"),
     interlaced |-> "interlace" \in DOMAIN parameters,
     max_udp |-> Given(parameters, "MAXUDP", StandardUdp),
     sender_type |-> Given(parameters, "TP", "2110TPN"),
     tr_offset_us |-> Given(parameters, "TROFF", None),
     cmax |-> Given(parameters, "CMAX", None)]

(* parse_video_format(): the format, and whether a warning came with it. *)
ParseVideoFormat(doc) ==
    LET parameters == FormatLine(doc).parameters
        video == VideoOf(parameters)
    IN  IF /\ HasFormat(doc) /\ IsRaw(doc)
           /\ {"width", "height", "exactframerate"} \subseteq DOMAIN parameters
           /\ DescribesAFrame(video.width, video.height, video.frame_rate, video.max_udp,
                              video.sender_type, video.tr_offset_us, video.cmax)
        THEN [video |-> video, warned |-> Mappings(doc) = {}]
        ELSE Refused
=============================================================================
