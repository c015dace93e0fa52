----------------------------- MODULE OfferProofs -----------------------------
(***************************************************************************)
(* Offers's invariants for every value of the constants: offers written by *)
(* any call and edited any number of times.                                *)
(***************************************************************************)
EXTENDS Offers, Foundations

-----------------------------------------------------------------------------
(* Sequences, cut and joined. *)

LEMMA Cut ==
    ASSUME NEW S, NEW d \in Seq(S), NEW a \in Int, NEW b \in Int,
           1 <= a, a <= b + 1, b <= Len(d)
    PROVE  /\ SubSeq(d, a, b) \in Seq(S)
           /\ Len(SubSeq(d, a, b)) = b - a + 1
           /\ \A i \in 1 .. b - a + 1 : SubSeq(d, a, b)[i] = d[a + i - 1]
  OBVIOUS

LEMMA Join ==
    ASSUME NEW S, NEW s \in Seq(S), NEW t \in Seq(S)
    PROVE  /\ s \o t \in Seq(S)
           /\ Len(s \o t) = Len(s) + Len(t)
           /\ \A i \in 1 .. Len(s) : (s \o t)[i] = s[i]
           /\ \A i \in Len(s) + 1 .. Len(s) + Len(t) : (s \o t)[i] = t[i - Len(s)]
  OBVIOUS

LEMMA Joined ==
    ASSUME NEW S, NEW s \in Seq(S), NEW t \in Seq(S), NEW d, d = s \o t
    PROVE  /\ d \in Seq(S) /\ Len(d) = Len(s) + Len(t)
           /\ \A i \in 1 .. Len(s) : d[i] = s[i]
           /\ \A i \in 1 .. Len(t) : d[Len(s) + i] = t[i]
<1>1. \A i \in Len(s) + 1 .. Len(s) + Len(t) : d[i] = t[i - Len(s)]
  BY Join
<1>2. PICK m \in Nat, n \in Nat : m = Len(s) /\ n = Len(t)
  OBVIOUS
<1>3. \A i \in 1 .. n : d[m + i] = t[i]
  <2>1. \A i \in m + 1 .. m + n : d[i] = t[i - m]
    BY <1>1, <1>2, Zenon
  <2> QED  BY ONLY <2>1, m \in Nat, n \in Nat
<1> QED  BY <1>2, <1>3, Join

LEMMA JoinFour ==
    ASSUME NEW S, NEW p \in Seq(S), NEW q \in Seq(S), NEW r \in Seq(S), NEW t \in Seq(S),
           NEW s, s = p \o q \o r \o t
    PROVE  /\ s \in Seq(S) /\ Len(s) = Len(p) + Len(q) + Len(r) + Len(t)
           /\ \A i \in 1 .. Len(p) : s[i] = p[i]
           /\ \A i \in 1 .. Len(q) : s[Len(p) + i] = q[i]
           /\ \A i \in 1 .. Len(r) : s[Len(p) + Len(q) + i] = r[i]
           /\ \A i \in 1 .. Len(t) : s[Len(p) + Len(q) + Len(r) + i] = t[i]
<1>1. PICK u : u = p \o q
  OBVIOUS
<1>2. PICK v : v = u \o r
  OBVIOUS
<1>3. s = v \o t
  BY <1>1, <1>2
<1>4. PICK a \in Nat, b \in Nat, c \in Nat, e \in Nat :
        a = Len(p) /\ b = Len(q) /\ c = Len(r) /\ e = Len(t)
  OBVIOUS
<1>5. /\ u \in Seq(S) /\ Len(u) = a + b
      /\ \A i \in 1 .. a : u[i] = p[i]
      /\ \A i \in a + 1 .. a + b : u[i] = q[i - a]
  BY <1>1, <1>4, Join
<1>6. u \in Seq(S)
  BY <1>5
<1>7. /\ v \in Seq(S) /\ Len(v) = Len(u) + c
      /\ \A i \in 1 .. Len(u) : v[i] = u[i]
      /\ \A i \in Len(u) + 1 .. Len(u) + c : v[i] = r[i - Len(u)]
  BY <1>2, <1>4, <1>6, Join
<1>8. v \in Seq(S)
  BY <1>7
<1>9. /\ s \in Seq(S) /\ Len(s) = Len(v) + e
      /\ \A i \in 1 .. Len(v) : s[i] = v[i]
      /\ \A i \in Len(v) + 1 .. Len(v) + e : s[i] = t[i - Len(v)]
  BY <1>3, <1>4, <1>8, Join
<1>10. /\ s \in Seq(S) /\ Len(s) = a + b + c + e
       /\ \A i \in 1 .. a : s[i] = p[i]
       /\ \A i \in 1 .. b : s[a + i] = q[i]
       /\ \A i \in 1 .. c : s[a + b + i] = r[i]
       /\ \A i \in 1 .. e : s[a + b + c + i] = t[i]
  BY ONLY <1>5, <1>7, <1>9, a \in Nat, b \in Nat, c \in Nat, e \in Nat
<1> QED  BY <1>4, <1>10

LEMMA Inserted ==
    ASSUME NEW S, NEW d \in Seq(S), NEW i \in 2 .. Len(d) + 1, NEW e \in S
    PROVE  InsertAt(d, i, e) \in Seq(S) /\ Len(InsertAt(d, i, e)) > 0 /\ InsertAt(d, i, e)[1] = d[1]
  BY DEF InsertAt

LEMMA Removed ==
    ASSUME NEW S, NEW d \in Seq(S), NEW i \in 2 .. Len(d)
    PROVE  RemoveAt(d, i) \in Seq(S) /\ Len(RemoveAt(d, i)) = Len(d) - 1 /\ RemoveAt(d, i)[1] = d[1]
  BY DEF RemoveAt

LEMMA Replaced ==
    ASSUME NEW S, NEW d \in Seq(S), NEW i \in 2 .. Len(d), NEW e \in S
    PROVE  ReplaceAt(d, i, e) \in Seq(S) /\ Len(ReplaceAt(d, i, e)) = Len(d) /\ ReplaceAt(d, i, e)[1] = d[1]
  BY DEF ReplaceAt


-----------------------------------------------------------------------------
(* Sections.  A section runs from its media line, and the session from the *)
(* top, to the next media line or to the end.                              *)
Ends(d, m) == Min({i \in MediaLines(d) : i > m} \cup {Len(d) + 1})

LEMMA EndsIs ==
    ASSUME NEW S, NEW d \in Seq(S), NEW m \in 0 .. Len(d)
    PROVE  /\ Ends(d, m) \in m + 1 .. Len(d) + 1
           /\ Ends(d, m) \in MediaLines(d) \cup {Len(d) + 1}
           /\ \A i \in MediaLines(d) : i > m => Ends(d, m) <= i
<1> DEFINE T == {i \in MediaLines(d) : i > m} \cup {Len(d) + 1}
<1>1. MediaLines(d) \subseteq 1 .. Len(d) /\ Len(d) \in Nat
  BY DEF MediaLines
<1>2. T \subseteq Int /\ T # {} /\ \A x \in T : m + 1 <= x
  BY <1>1
<1>3. Min(T) \in T /\ \A x \in T : Min(T) <= x
  <2> HIDE DEF T
  <2>1. m + 1 \in Int
    OBVIOUS
  <2> QED  BY <1>2, <2>1, MinBounded
<1>4. Ends(d, m) = Min(T)
  BY DEF Ends
<1> QED  BY <1>1, <1>3, <1>4

LEMMA SessionIs ==
    ASSUME NEW S, NEW d \in Seq(S)
    PROVE  /\ Session(d) \in Seq(S)
           /\ Len(Session(d)) = Ends(d, 0) - 1
           /\ \A i \in 1 .. Ends(d, 0) - 1 : Session(d)[i] = d[i]
<1>1. Ends(d, 0) \in 1 .. Len(d) + 1 /\ Len(d) \in Nat
  BY EndsIs
<1>2. Session(d) = SubSeq(d, 1, Ends(d, 0) - 1)
  <2>1. {i \in MediaLines(d) : i > 0} = MediaLines(d)
    BY DEF MediaLines
  <2> QED  BY <2>1 DEF Session, Ends
<1> HIDE DEF Ends
<1> QED  BY <1>1, <1>2, Cut

LEMMA BlockIs ==
    ASSUME NEW S, NEW d \in Seq(S), NEW m \in 1 .. Len(d)
    PROVE  /\ Block(d, m) \in Seq(S)
           /\ Len(Block(d, m)) = Ends(d, m) - m
           /\ \A i \in 1 .. Ends(d, m) - m : Block(d, m)[i] = d[m + i - 1]
<1>1. Ends(d, m) \in m + 1 .. Len(d) + 1 /\ Len(d) \in Nat
  BY EndsIs
<1>2. Block(d, m) = SubSeq(d, m, Ends(d, m) - 1)
  BY DEF Block, Ends
<1>3. PICK b \in Int : b = Ends(d, m) - 1
  BY <1>1
<1>4. /\ SubSeq(d, m, b) \in Seq(S)
      /\ Len(SubSeq(d, m, b)) = b - m + 1
      /\ \A i \in 1 .. b - m + 1 : SubSeq(d, m, b)[i] = d[m + i - 1]
  BY <1>1, <1>3, Cut
<1> QED  BY <1>1, <1>2, <1>3, <1>4

-----------------------------------------------------------------------------
(* The lines of a document whose first writer was called as c: each of its *)
(* kind, of the values that kind may have, and every format line the       *)
(* writer's own or another essence's.                                      *)
Lines(c) ==
    [kind : {"v", "o", "s", "t"}]
        \cup Groups
        \cup [kind : {"m"}, media : {"video", "audio"}, port : 0 .. MaxPort, format : Int]
        \cup [kind : {"c"}, address : Addresses \cup {None}]
        \cup [kind : {"source-filter"}, mode : {"incl", "excl"}, source : Addresses \cup {None}]
        \cup [kind : {"mid"}, tag : Text]
        \cup [kind : {"rtpmap"}, format : Int, encoding : Text, clock : Int]
        \cup {Fmtp(AudioFormat, [ptime |-> 1]),
              Fmtp(Format, MediaTypeParameters(c.video, SenderType(c)))}

(* The first line stays first, so a document always has one and its        *)
(* session is never empty.                                                 *)
Sound(c, d) == d \in Seq(Lines(c)) /\ Len(d) > 0 /\ d[1].kind = "v"

(* The inductive invariant: an accepted call, a sound document of its      *)
(* lines, and while nothing has been edited the one the writer wrote.      *)
IInv ==
    /\ call \in Calls /\ Accepted(call)
    /\ edits \in 0 .. MaxEdits
    /\ Sound(call, doc)
    /\ edits = 0 => doc = Offer(call, Format)

LEMMA HeaderIsALine ==
    ASSUME NEW c, NEW name \in {"v", "o", "s", "t"}
    PROVE  Header(name) \in Lines(c)
  BY DEF Header, Lines

LEMMA MediaIsALine ==
    ASSUME NEW c, NEW media \in {"video", "audio"}, NEW port \in 0 .. MaxPort, NEW format \in Int
    PROVE  Media(media, port, format) \in Lines(c)
  BY DEF Media, Lines

LEMMA ConnectionIsALine ==
    ASSUME NEW c, NEW address \in Addresses \cup {None}
    PROVE  Connection(address) \in Lines(c)
  BY DEF Connection, Lines

LEMMA SourceFilterIsALine ==
    ASSUME NEW c, NEW mode \in {"incl", "excl"}, NEW source \in Addresses \cup {None}
    PROVE  SourceFilter(mode, source) \in Lines(c)
  BY DEF SourceFilter, Lines

LEMMA MidIsALine ==
    ASSUME NEW c, NEW tag \in Text
    PROVE  Mid(tag) \in Lines(c)
  BY DEF Mid, Lines

LEMMA RtpmapIsALine ==
    ASSUME NEW c, NEW format \in Int, NEW encoding \in Text, NEW clock \in Int
    PROVE  Rtpmap(format, encoding, clock) \in Lines(c)
  BY DEF Rtpmap, Lines

LEMMA FmtpIsALine ==
    ASSUME NEW c
    PROVE  /\ Fmtp(AudioFormat, [ptime |-> 1]) \in Lines(c)
           /\ Fmtp(Format, MediaTypeParameters(c.video, SenderType(c))) \in Lines(c)
  BY DEF Lines

LEMMA GroupIsALine ==
    ASSUME NEW c, NEW group \in Groups
    PROVE  group \in Lines(c)
  BY DEF Lines


LEMMA KindTells ==
    ASSUME NEW c, NEW line \in Lines(c)
    PROVE  /\ line.kind = "m" =>
                /\ line.media \in {"video", "audio"} /\ line.port \in 0 .. MaxPort
                /\ line.format \in Int
           /\ line.kind = "group" => line \in Groups
           /\ line.kind = "c" => line.address \in Addresses \cup {None}
           /\ line.kind = "source-filter" => line.source \in Addresses \cup {None}
           /\ line.kind = "mid" => line.tag \in Text
           /\ line.kind = "rtpmap" =>
                line \in [kind : {"rtpmap"}, format : Int, encoding : Text, clock : Int]
           /\ line.kind = "fmtp" =>
                line \in {Fmtp(AudioFormat, [ptime |-> 1]),
                          Fmtp(Format, MediaTypeParameters(c.video, SenderType(c)))}
<1> DEFINE fmtps == {Fmtp(AudioFormat, [ptime |-> 1]),
                     Fmtp(Format, MediaTypeParameters(c.video, SenderType(c)))}
<1>1. \A l \in fmtps : l.kind = "fmtp"
  BY DEF Fmtp
<1> HIDE DEF fmtps
<1>2. Lines(c) =
        [kind : {"v", "o", "s", "t"}]
            \cup Groups
            \cup [kind : {"m"}, media : {"video", "audio"}, port : 0 .. MaxPort, format : Int]
            \cup [kind : {"c"}, address : Addresses \cup {None}]
            \cup [kind : {"source-filter"}, mode : {"incl", "excl"}, source : Addresses \cup {None}]
            \cup [kind : {"mid"}, tag : Text]
            \cup [kind : {"rtpmap"}, format : Int, encoding : Text, clock : Int]
            \cup fmtps
  BY DEF Lines, fmtps
<1>3. line.kind = "fmtp" => line \in fmtps
  BY <1>2 DEF Groups
<1>4. line.kind # "fmtp" => line \notin fmtps
  BY <1>1
<1>5. line.kind = "m" =>
        line \in [kind : {"m"}, media : {"video", "audio"}, port : 0 .. MaxPort, format : Int]
  BY <1>2, <1>4 DEF Groups
<1>6. line.kind = "group" => line \in Groups
  BY <1>2, <1>4
<1>7. line.kind = "c" => line \in [kind : {"c"}, address : Addresses \cup {None}]
  BY <1>2, <1>4 DEF Groups
<1>8. line.kind = "source-filter" =>
        line \in [kind : {"source-filter"}, mode : {"incl", "excl"}, source : Addresses \cup {None}]
  BY <1>2, <1>4 DEF Groups
<1>9. line.kind = "mid" => line \in [kind : {"mid"}, tag : Text]
  BY <1>2, <1>4 DEF Groups
<1>10. line.kind = "rtpmap" =>
        line \in [kind : {"rtpmap"}, format : Int, encoding : Text, clock : Int]
  BY <1>2, <1>4 DEF Groups
<1> QED  BY <1>3, <1>5, <1>6, <1>7, <1>8, <1>9, <1>10 DEF fmtps

-----------------------------------------------------------------------------
(* What the writer writes. *)

LEMMA RenderedIs ==
    ASSUME NEW address \in Addresses
    PROVE  Rendered(address) \in Addresses
<1>1. address # None
  BY OffersAssumption
<1>2. Rendered(address) = [address EXCEPT !.text = "plain"]
  BY <1>1 DEF Rendered
<1> DEFINE plain == [host |-> address.host, text |-> "plain", version |-> address.version,
                      multicast |-> address.multicast]
<1>3. [address EXCEPT !.text = "plain"] = plain
  BY DEF Addresses
<1>4. plain \in Addresses
  BY OffersAssumption DEF Addresses
<1> QED  BY <1>2, <1>3, <1>4

LEMMA RenderedOrNone ==
    ASSUME NEW address \in Addresses \cup {None}
    PROVE  /\ Rendered(address) \in Addresses \cup {None}
           /\ Rendered(address) = None <=> address = None
<1>1. CASE address = None
  BY <1>1 DEF Rendered
<1>2. CASE address # None
  <2>1. Rendered(address) \in Addresses
    BY <1>2, RenderedIs
  <2> QED  BY <2>1, <1>2, OffersAssumption
<1> QED  BY <1>1, <1>2

(* A leg's lines, one by one: the media line, its address, its sender's    *)
(* filter and its tag if it has them, the encoding and the format.         *)
LEMMA LegIs ==
    ASSUME NEW S, NEW source, NEW tag,
           NEW media \in S, NEW connection \in S,
           NEW filter, source # None => filter \in S,
           NEW mid, tag # None => mid \in S,
           NEW rtpmap \in S, NEW fmtp \in S,
           NEW filters, filters = IF source = None THEN 0 ELSE 1,
           NEW mids, mids = IF tag = None THEN 0 ELSE 1,
           NEW leg,
           leg = <<media, connection>> \o (IF source = None THEN << >> ELSE <<filter>>)
                    \o (IF tag = None THEN << >> ELSE <<mid>>) \o <<rtpmap, fmtp>>
    PROVE  /\ leg \in Seq(S)
           /\ Len(leg) = 4 + filters + mids
           /\ leg[1] = media /\ leg[2] = connection
           /\ source # None => leg[3] = filter
           /\ tag # None => leg[3 + filters] = mid
           /\ leg[3 + filters + mids] = rtpmap
           /\ leg[4 + filters + mids] = fmtp
<1>1. PICK p, q, r, t :
        /\ p = <<media, connection>>
        /\ q = IF source = None THEN << >> ELSE <<filter>>
        /\ r = IF tag = None THEN << >> ELSE <<mid>>
        /\ t = <<rtpmap, fmtp>>
  OBVIOUS
<1>2. leg = p \o q \o r \o t
  BY <1>1, Zenon
<1>3. filters \in {0, 1} /\ mids \in {0, 1}
  OBVIOUS
<1>4. p \in Seq(S) /\ Len(p) = 2 /\ p[1] = media /\ p[2] = connection
  BY <1>1
<1>5. q \in Seq(S) /\ Len(q) = filters /\ (source # None => q[1] = filter)
  BY <1>1
<1>6. r \in Seq(S) /\ Len(r) = mids /\ (tag # None => r[1] = mid)
  BY <1>1
<1>7. t \in Seq(S) /\ Len(t) = 2 /\ t[1] = rtpmap /\ t[2] = fmtp
  BY <1>1
<1>8. (source # None => filters = 1) /\ (tag # None => mids = 1)
  OBVIOUS
<1>9. /\ leg \in Seq(S) /\ Len(leg) = Len(p) + Len(q) + Len(r) + Len(t)
      /\ \A i \in 1 .. Len(p) : leg[i] = p[i]
      /\ \A i \in 1 .. Len(q) : leg[Len(p) + i] = q[i]
      /\ \A i \in 1 .. Len(r) : leg[Len(p) + Len(q) + i] = r[i]
      /\ \A i \in 1 .. Len(t) : leg[Len(p) + Len(q) + Len(r) + i] = t[i]
  <2>1. p \in Seq(S) /\ q \in Seq(S) /\ r \in Seq(S) /\ t \in Seq(S)
    BY <1>4, <1>5, <1>6, <1>7
  <2> QED  BY ONLY <1>2, <2>1, JoinFour
<1>10. PICK a \in Nat, b \in Nat, c \in Nat, e \in Nat :
        a = Len(p) /\ b = Len(q) /\ c = Len(r) /\ e = Len(t)
  BY <1>4, <1>5, <1>6, <1>7
<1>11. /\ Len(leg) = a + b + c + e
       /\ \A i \in 1 .. a : leg[i] = p[i]
       /\ \A i \in 1 .. b : leg[a + i] = q[i]
       /\ \A i \in 1 .. c : leg[a + b + i] = r[i]
       /\ \A i \in 1 .. e : leg[a + b + c + i] = t[i]
  <2>1. a \in Nat /\ b \in Nat /\ c \in Nat /\ e \in Nat
    OBVIOUS
  <2>2. \A i \in 1 .. Len(q) : leg[Len(p) + i] = q[i]
    BY <1>9
  <2>3. \A i \in 1 .. Len(r) : leg[Len(p) + Len(q) + i] = r[i]
    BY <1>9
  <2>4. \A i \in 1 .. Len(t) : leg[Len(p) + Len(q) + Len(r) + i] = t[i]
    BY <1>9
  <2>5. \A i \in 1 .. b : leg[a + i] = q[i]
    BY ONLY <2>1, <2>2, <1>10
  <2>6. \A i \in 1 .. c : leg[a + b + i] = r[i]
    BY ONLY <2>1, <2>3, <1>10
  <2>7. \A i \in 1 .. e : leg[a + b + c + i] = t[i]
    BY ONLY <2>1, <2>4, <1>10
  <2>8. Len(leg) = a + b + c + e /\ \A i \in 1 .. a : leg[i] = p[i]
    BY <1>9, <1>10
  <2> QED  BY <2>5, <2>6, <2>7, <2>8
<1>12. a = 2 /\ b = filters /\ c = mids /\ e = 2
  BY <1>10, <1>4, <1>5, <1>6, <1>7
<1>13. /\ Len(leg) = 4 + filters + mids
       /\ leg[1] = p[1] /\ leg[2] = p[2]
       /\ filters = 1 => leg[3] = q[1]
       /\ mids = 1 => leg[3 + filters] = r[1]
       /\ leg[3 + filters + mids] = t[1]
       /\ leg[4 + filters + mids] = t[2]
  BY ONLY <1>3, <1>11, <1>12, a \in Nat, b \in Nat, c \in Nat, e \in Nat
<1> QED  BY <1>4, <1>5, <1>6, <1>7, <1>8, <1>9, <1>13

(* The legs of an accepted call are lines of its documents. *)
LegOf(c, i, tag) == Leg(c.flows[i], tag, Format, MediaTypeParameters(c.video, SenderType(c)))

LEMMA CallIs ==
    ASSUME NEW c \in Calls
    PROVE  /\ c.flows \in Seq(Flows) /\ Len(c.flows) \in 1 .. 2
           /\ c.video \in Videos /\ c.sender_type \in Text \cup {None}
           /\ \A i \in 1 .. Len(c.flows) : c.flows[i] \in Flows
<1>1. c.flows \in Seq(Flows) /\ Len(c.flows) \in 1 .. 2
      /\ c.video \in Videos /\ c.sender_type \in Text \cup {None}
  BY OffersAssumption, Zenon
<1> QED  BY <1>1

(* A leg's lines, those that are there only sometimes counted. *)
LaidOut(c, leg, flow, tag, filters, mids) ==
    /\ leg \in Seq(Lines(c))
    /\ Len(leg) = 4 + filters + mids
    /\ leg[1] = Media("video", flow.port, Format)
    /\ leg[2] = Connection(Rendered(flow.destination))
    /\ flow.source # None => leg[3] = SourceFilter("incl", Rendered(flow.source))
    /\ tag # None => leg[3 + filters] = Mid(tag)
    /\ leg[3 + filters + mids] = Rtpmap(Format, "raw", ClockRate)
    /\ leg[4 + filters + mids] = Fmtp(Format, MediaTypeParameters(c.video, SenderType(c)))
    /\ flow \in Flows /\ flow.port \in 1 .. MaxPort

LEMMA LegOfIs ==
    ASSUME NEW c \in Calls, Accepted(c), NEW i \in 1 .. Len(c.flows), NEW tag \in Text \cup {None},
           NEW leg, leg = LegOf(c, i, tag),
           NEW flow, flow = c.flows[i],
           NEW filters, filters = IF flow.source = None THEN 0 ELSE 1,
           NEW mids, mids = IF tag = None THEN 0 ELSE 1
    PROVE  LaidOut(c, leg, flow, tag, filters, mids)
<1> DEFINE parameters == MediaTypeParameters(c.video, SenderType(c))
           S == Lines(c)
<1>1. flow \in Flows
  BY CallIs
<1>2. flow.port \in 1 .. MaxPort
  <2>1. DOMAIN c.flows = 1 .. Len(c.flows)
    BY CallIs
  <2>2. flow \in ToSet(c.flows)
    BY <2>1 DEF ToSet
  <2> QED  BY <2>2, Zenon DEF Accepted
<1>3. flow.destination \in Addresses /\ flow.source \in Addresses \cup {None}
  BY <1>1 DEF Flows
<1>4. Media("video", flow.port, Format) \in S
  <2>1. flow.port \in 0 .. MaxPort /\ Format \in Int
    BY <1>2, OffersAssumption DEF Format
  <2> QED  BY <2>1, MediaIsALine
<1>5. Connection(Rendered(flow.destination)) \in S
  BY <1>3, RenderedOrNone, ConnectionIsALine
<1>6. flow.source # None => SourceFilter("incl", Rendered(flow.source)) \in S
  BY <1>3, RenderedOrNone, SourceFilterIsALine
<1>7. tag # None => Mid(tag) \in S
  BY MidIsALine
<1>8. Rtpmap(Format, "raw", ClockRate) \in S
  <2>1. Format \in Int /\ "raw" \in Text /\ ClockRate \in Int
    BY OffersAssumption DEF Format
  <2> QED  BY <2>1, RtpmapIsALine
<1>9. Fmtp(Format, parameters) \in S
  BY FmtpIsALine
<1>10. leg = Leg(flow, tag, Format, parameters)
  BY DEF LegOf
<1> HIDE DEF parameters, S
<1>11. PICK media, connection, filter, mid, rtpmap, fmtp :
        /\ media = Media("video", flow.port, Format)
        /\ connection = Connection(Rendered(flow.destination))
        /\ filter = SourceFilter("incl", Rendered(flow.source))
        /\ mid = Mid(tag)
        /\ rtpmap = Rtpmap(Format, "raw", ClockRate)
        /\ fmtp = Fmtp(Format, parameters)
  OBVIOUS
<1>12. leg = <<media, connection>> \o (IF flow.source = None THEN << >> ELSE <<filter>>)
                \o (IF tag = None THEN << >> ELSE <<mid>>) \o <<rtpmap, fmtp>>
  BY <1>10, <1>11, Zenon DEF Leg
<1>13. /\ media \in S /\ connection \in S /\ (flow.source # None => filter \in S)
       /\ (tag # None => mid \in S) /\ rtpmap \in S /\ fmtp \in S
  BY <1>4, <1>5, <1>6, <1>7, <1>8, <1>9, <1>11, Zenon
<1>14. /\ filters = IF flow.source = None THEN 0 ELSE 1
       /\ mids = IF tag = None THEN 0 ELSE 1
  OBVIOUS
<1>15. /\ leg \in Seq(S)
       /\ Len(leg) = 4 + filters + mids
       /\ leg[1] = media /\ leg[2] = connection
       /\ flow.source # None => leg[3] = filter
       /\ tag # None => leg[3 + filters] = mid
       /\ leg[3 + filters + mids] = rtpmap
       /\ leg[4 + filters + mids] = fmtp
  BY ONLY <1>12, <1>13, <1>14, LegIs
<1> QED  BY <1>1, <1>2, <1>11, <1>15, Zenon DEF parameters, S, LaidOut

LEMMA LegOfTyped ==
    ASSUME NEW c \in Calls, Accepted(c), NEW i \in 1 .. Len(c.flows), NEW tag \in Text \cup {None}
    PROVE  LegOf(c, i, tag) \in Seq(Lines(c))
<1>1. PICK leg, flow : leg = LegOf(c, i, tag) /\ flow = c.flows[i]
  OBVIOUS
<1>2. PICK filters : filters = IF flow.source = None THEN 0 ELSE 1
  OBVIOUS
<1>3. PICK mids : mids = IF tag = None THEN 0 ELSE 1
  OBVIOUS
<1> QED  BY <1>1, <1>2, <1>3, LegOfIs, Zenon DEF LaidOut

(* The lines every offer begins with. *)
Top == <<Header("v"), Header("o"), Header("s"), Header("t")>>

LEMMA TopIs ==
    ASSUME NEW c
    PROVE  /\ Top \in Seq(Lines(c)) /\ Len(Top) = 4
           /\ Top[1].kind = "v" /\ Top[2].kind = "o" /\ Top[3].kind = "s" /\ Top[4].kind = "t"
<1>1. /\ Header("v") \in Lines(c) /\ Header("o") \in Lines(c)
      /\ Header("s") \in Lines(c) /\ Header("t") \in Lines(c)
  BY HeaderIsALine
<1>2. Top \in Seq(Lines(c)) /\ Len(Top) = 4
  BY <1>1 DEF Top
<1>3. Top[1] = Header("v") /\ Top[2] = Header("o") /\ Top[3] = Header("s") /\ Top[4] = Header("t")
  BY DEF Top
<1>4. Top[1].kind = "v" /\ Top[2].kind = "o" /\ Top[3].kind = "s" /\ Top[4].kind = "t"
  BY <1>3 DEF Header
<1> QED  BY <1>2, <1>4, Zenon

LEMMA SingleOfferIs ==
    ASSUME NEW c \in Calls, Accepted(c), Len(c.flows) = 1
    PROVE  LET d == Offer(c, Format)
               leg == LegOf(c, 1, None)
           IN  /\ d \in Seq(Lines(c)) /\ Len(d) = 4 + Len(leg)
               /\ \A i \in 1 .. 4 : d[i] = Top[i]
               /\ \A i \in 1 .. Len(leg) : d[4 + i] = leg[i]
<1>1. PICK leg : leg = LegOf(c, 1, None)
  OBVIOUS
<1>2. Offer(c, Format) = Top \o leg
  BY <1>1, Zenon DEF Offer, LegOf, Top
<1>3. leg \in Seq(Lines(c))
  <2>1. 1 \in 1 .. Len(c.flows)
    OBVIOUS
  <2> QED  BY <1>1, <2>1, LegOfTyped
<1>4. PICK top : top = Top
  OBVIOUS
<1>5. top \in Seq(Lines(c)) /\ Len(top) = 4
  BY <1>4, TopIs
<1>6. PICK d : d = Offer(c, Format)
  OBVIOUS
<1>7. d = top \o leg
  BY <1>2, <1>4, <1>6, Zenon
<1>8. /\ d \in Seq(Lines(c)) /\ Len(d) = Len(top) + Len(leg)
      /\ \A i \in 1 .. Len(top) : d[i] = top[i]
      /\ \A i \in 1 .. Len(leg) : d[Len(top) + i] = leg[i]
  <2>1. top \in Seq(Lines(c))
    BY <1>5
  <2> QED  BY ONLY <2>1, <1>3, <1>7, Joined
<1>9. /\ d \in Seq(Lines(c)) /\ Len(d) = 4 + Len(leg)
      /\ \A i \in 1 .. 4 : d[i] = Top[i]
      /\ \A i \in 1 .. Len(leg) : d[4 + i] = leg[i]
  BY <1>4, <1>5, <1>8, Zenon
<1> QED  BY <1>1, <1>6, <1>9, Zenon

LEMMA PairedOfferIs ==
    ASSUME NEW c \in Calls, Accepted(c), Len(c.flows) = 2
    PROVE  LET d == Offer(c, Format)
               one == LegOf(c, 1, DupTags[1])
               two == LegOf(c, 2, DupTags[2])
           IN  /\ d \in Seq(Lines(c)) /\ Len(d) = 5 + Len(one) + Len(two)
               /\ \A i \in 1 .. 4 : d[i] = Top[i]
               /\ d[5] = Group("DUP", DupTags)
               /\ \A i \in 1 .. Len(one) : d[5 + i] = one[i]
               /\ \A i \in 1 .. Len(two) : d[5 + Len(one) + i] = two[i]

<1>1. PICK one, two, g : one = LegOf(c, 1, DupTags[1]) /\ two = LegOf(c, 2, DupTags[2])
                             /\ g = <<Group("DUP", DupTags)>>
  OBVIOUS
<1>2. PICK d : d = Offer(c, Format)
  OBVIOUS
<1>3. PICK top : top = Top
  OBVIOUS
<1>4. d = top \o (g \o one \o two)
  BY <1>1, <1>2, <1>3 DEF Offer, LegOf, Top
<1>5. DupTags[1] \in Text /\ DupTags[2] \in Text /\ DupTags \in Seq(Text)
  <2>1. DupTags[1] \in ToSet(DupTags) /\ DupTags[2] \in ToSet(DupTags)
    BY DEF ToSet, DupTags
  <2>2. DupTags[1] \in Text /\ DupTags[2] \in Text
    BY <2>1, OffersAssumption, Zenon
  <2>3. DupTags = <<DupTags[1], DupTags[2]>>
    BY DEF DupTags
  <2>4. \A x, y \in Text : <<x, y>> \in Seq(Text)
    OBVIOUS
  <2> QED  BY <2>2, <2>3, <2>4, Zenon
<1>6. one \in Seq(Lines(c)) /\ two \in Seq(Lines(c))
  <2>1. \A i \in 1 .. 2, tag \in Text \cup {None} : LegOf(c, i, tag) \in Seq(Lines(c))
    BY LegOfTyped
  <2> QED  BY <1>1, <1>5, <2>1
<1>7. g \in Seq(Lines(c)) /\ Len(g) = 1 /\ g[1] = Group("DUP", DupTags)
  <2>1. Group("DUP", DupTags) \in Lines(c)
    <3>1. "DUP" \in Text
      BY OffersAssumption
    <3>2. Group("DUP", DupTags) \in Groups
      BY <3>1, <1>5 DEF Group, Groups
    <3> QED  BY <3>2, GroupIsALine
  <2> QED  BY <2>1, <1>1
<1>8. top \in Seq(Lines(c)) /\ Len(top) = 4
  BY <1>3, TopIs
<1>9. PICK s : s = g \o one
  OBVIOUS
<1>10. /\ s \in Seq(Lines(c)) /\ Len(s) = Len(g) + Len(one)
       /\ \A i \in 1 .. Len(g) : s[i] = g[i]
       /\ \A i \in 1 .. Len(one) : s[Len(g) + i] = one[i]
  <2>1. g \in Seq(Lines(c)) /\ one \in Seq(Lines(c))
    BY <1>6, <1>7
  <2> QED  BY ONLY <2>1, <1>9, Joined
<1>11. PICK t : t = s \o two
  OBVIOUS
<1>12. s \in Seq(Lines(c))
  BY <1>10
<1>13. /\ t \in Seq(Lines(c)) /\ Len(t) = Len(s) + Len(two)
       /\ \A i \in 1 .. Len(s) : t[i] = s[i]
       /\ \A i \in 1 .. Len(two) : t[Len(s) + i] = two[i]
  BY ONLY <1>6, <1>12, <1>11, Joined
<1>14. t \in Seq(Lines(c)) /\ d = top \o t
  BY <1>4, <1>9, <1>11, <1>13, Zenon
<1>15. /\ d \in Seq(Lines(c)) /\ Len(d) = Len(top) + Len(t)
       /\ \A i \in 1 .. Len(top) : d[i] = top[i]
       /\ \A i \in 1 .. Len(t) : d[Len(top) + i] = t[i]
  <2>1. top \in Seq(Lines(c))
    BY <1>8
  <2> QED  BY ONLY <2>1, <1>14, Joined
<1>16. PICK m \in Nat, n \in Nat : m = Len(one) /\ n = Len(two)
  BY <1>6
<1>17. /\ Len(d) = 5 + m + n /\ d[5] = g[1]
       /\ \A i \in 1 .. 4 : d[i] = top[i]
       /\ \A i \in 1 .. m : d[5 + i] = one[i]
       /\ \A i \in 1 .. n : d[5 + m + i] = two[i]
  <2>1. /\ Len(s) = 1 + m /\ s[1] = g[1]
        /\ \A i \in 1 .. m : s[1 + i] = one[i]
    <3>1. /\ Len(s) = 1 + m
          /\ \A i \in 1 .. 1 : s[i] = g[i]
          /\ \A i \in 1 .. m : s[1 + i] = one[i]
      BY <1>7, <1>10, <1>16, Zenon
    <3> QED  BY <3>1
  <2>2. /\ Len(t) = 1 + m + n
        /\ \A i \in 1 .. 1 + m : t[i] = s[i]
        /\ \A i \in 1 .. n : t[1 + m + i] = two[i]
    BY <1>13, <1>16, <2>1, Zenon
  <2>3. /\ Len(d) = 4 + (1 + m + n)
        /\ \A i \in 1 .. 4 : d[i] = top[i]
        /\ \A i \in 1 .. 1 + m + n : d[4 + i] = t[i]
    BY <1>8, <1>15, <2>2, Zenon
  <2>4. d[5] = g[1]
    BY ONLY <2>1, <2>2, <2>3, m \in Nat, n \in Nat
  <2>5. \A i \in 1 .. m : d[5 + i] = one[i]
    <3>1. \A i \in 1 .. m : t[1 + i] = s[1 + i] /\ d[4 + (1 + i)] = t[1 + i]
      BY ONLY <2>2, <2>3, m \in Nat, n \in Nat
    <3>2. \A i \in 1 .. m : 4 + (1 + i) = 5 + i
      OBVIOUS
    <3> QED  BY <2>1, <3>1, <3>2
  <2>6. \A i \in 1 .. n : d[5 + m + i] = two[i]
    <3>1. \A i \in 1 .. n : d[4 + (1 + m + i)] = t[1 + m + i]
      BY ONLY <2>3, m \in Nat, n \in Nat
    <3>2. \A i \in 1 .. n : 4 + (1 + m + i) = 5 + m + i
      OBVIOUS
    <3> QED  BY <2>2, <3>1, <3>2
  <2>7. 4 + (1 + m + n) = 5 + m + n
    OBVIOUS
  <2> QED  BY <2>3, <2>4, <2>5, <2>6, <2>7, Zenon
<1>18. d \in Seq(Lines(c))
  BY <1>15
<1> QED  BY <1>1, <1>2, <1>3, <1>7, <1>16, <1>17, <1>18, Zenon


LEMMA OfferIsSound ==
    ASSUME NEW c \in Calls, Accepted(c)
    PROVE  Sound(c, Offer(c, Format))
<1>1. PICK d : d = Offer(c, Format)
  OBVIOUS
<1>2. DupTags[1] \in Text /\ DupTags[2] \in Text
  <2>1. DupTags[1] \in ToSet(DupTags) /\ DupTags[2] \in ToSet(DupTags)
    BY DEF ToSet, DupTags
  <2> QED  BY <2>1, OffersAssumption, Zenon
<1>3. d \in Seq(Lines(c)) /\ Len(d) \in Nat /\ Len(d) >= 4 /\ \A i \in 1 .. 4 : d[i] = Top[i]
  <2>1. CASE Len(c.flows) = 1
    <3>1. PICK leg : leg = LegOf(c, 1, None)
      OBVIOUS
    <3>2. leg \in Seq(Lines(c))
      BY <2>1, <3>1, LegOfTyped
    <3>3. PICK n \in Nat : n = Len(leg)
      BY <3>2
    <3>4. d \in Seq(Lines(c)) /\ Len(d) = 4 + n /\ \A i \in 1 .. 4 : d[i] = Top[i]
      BY <1>1, <2>1, <3>1, <3>3, SingleOfferIs, Zenon
    <3> QED  BY <3>4
  <2>2. CASE Len(c.flows) = 2
    <3>1. PICK one, two : one = LegOf(c, 1, DupTags[1]) /\ two = LegOf(c, 2, DupTags[2])
      OBVIOUS
    <3>2. one \in Seq(Lines(c)) /\ two \in Seq(Lines(c))
      <4>1. 1 \in 1 .. Len(c.flows) /\ 2 \in 1 .. Len(c.flows)
        BY <2>2
      <4>2. DupTags[1] \in Text \cup {None} /\ DupTags[2] \in Text \cup {None}
        BY <1>2
      <4> QED  BY <4>1, <4>2, <3>1, LegOfTyped, Zenon
    <3>3. PICK m \in Nat, n \in Nat : m = Len(one) /\ n = Len(two)
      BY <3>2
    <3>4. d \in Seq(Lines(c)) /\ Len(d) = 5 + m + n /\ \A i \in 1 .. 4 : d[i] = Top[i]
      BY <1>1, <2>2, <3>1, <3>3, PairedOfferIs, Zenon
    <3> QED  BY <3>4
  <2> QED  BY <2>1, <2>2, CallIs
<1>4. d[1].kind = "v"
  BY <1>3, TopIs
<1> QED  BY <1>1, <1>3, <1>4 DEF Sound

(* The session holds the first line. *)
LEMMA SessionHoldsTheTop ==
    ASSUME NEW c, NEW d, Sound(c, d)
    PROVE  /\ Len(d) \in Nat /\ Ends(d, 0) \in 2 .. Len(d) + 1
           /\ Len(Session(d)) = Ends(d, 0) - 1
<1>1. d \in Seq(Lines(c)) /\ Len(d) \in Nat /\ Len(d) > 0
  BY DEF Sound
<1>2. Ends(d, 0) \in 1 .. Len(d) + 1 /\ Ends(d, 0) \in MediaLines(d) \cup {Len(d) + 1}
  BY <1>1, EndsIs
<1>3. Ends(d, 0) # 1
  BY <1>1, <1>2 DEF MediaLines, Sound
<1>4. Len(Session(d)) = Ends(d, 0) - 1
  BY <1>1, SessionIs
<1> QED  BY <1>1, <1>2, <1>3, <1>4

LEMMA WithdrawIsSound ==
    ASSUME NEW c, NEW d, Sound(c, d), NEW i \in DOMAIN d, d[i].kind # "v"
    PROVE  Sound(c, RemoveAt(d, i))
<1>1. d \in Seq(Lines(c)) /\ Len(d) \in Nat /\ i \in 2 .. Len(d)
  BY DEF Sound
<1>2. PICK r : r = RemoveAt(d, i)
  OBVIOUS
<1>3. r \in Seq(Lines(c)) /\ Len(r) = Len(d) - 1 /\ r[1] = d[1]
  BY <1>1, <1>2, Removed
<1> QED  BY <1>1, <1>2, <1>3 DEF Sound

LEMMA InsertIsSound ==
    ASSUME NEW c, NEW d, Sound(c, d), NEW i \in 2 .. Len(d) + 1, NEW line \in Lines(c)
    PROVE  Sound(c, InsertAt(d, i, line))
<1>1. d \in Seq(Lines(c))
  BY DEF Sound
<1>2. PICK r : r = InsertAt(d, i, line)
  OBVIOUS
<1>3. r \in Seq(Lines(c)) /\ Len(r) > 0 /\ r[1] = d[1]
  BY <1>1, <1>2, Inserted
<1> QED  BY <1>2, <1>3 DEF Sound

LEMMA ReplaceIsSound ==
    ASSUME NEW c, NEW d, Sound(c, d), NEW i \in DOMAIN d, d[i].kind # "v", NEW line \in Lines(c)
    PROVE  Sound(c, ReplaceAt(d, i, line))
<1>1. d \in Seq(Lines(c)) /\ Len(d) \in Nat /\ i \in 2 .. Len(d)
  BY DEF Sound
<1>2. PICK r : r = ReplaceAt(d, i, line)
  OBVIOUS
<1>3. r \in Seq(Lines(c)) /\ Len(r) = Len(d) /\ r[1] = d[1]
  BY <1>1, <1>2, Replaced
<1> QED  BY <1>1, <1>2, <1>3 DEF Sound

LEMMA AppendIsSound ==
    ASSUME NEW c, NEW d, Sound(c, d), NEW lines \in Seq(Lines(c))
    PROVE  Sound(c, d \o lines)
<1>1. d \in Seq(Lines(c)) /\ Len(d) \in Nat /\ Len(d) > 0 /\ Len(lines) \in Nat
  BY DEF Sound
<1>2. PICK r : r = d \o lines
  OBVIOUS
<1>3. r \in Seq(Lines(c)) /\ Len(r) = Len(d) + Len(lines) /\ r[1] = d[1]
  BY <1>1, <1>2, Joined
<1> QED  BY <1>1, <1>2, <1>3 DEF Sound

LEMMA SessionIsSound ==
    ASSUME NEW c, NEW d, Sound(c, d)
    PROVE  Sound(c, Session(d))
<1>1. d \in Seq(Lines(c))
  BY DEF Sound
<1>2. PICK r : r = Session(d)
  OBVIOUS
<1>3. /\ r \in Seq(Lines(c)) /\ Len(r) = Ends(d, 0) - 1
      /\ \A i \in 1 .. Ends(d, 0) - 1 : r[i] = d[i]
  BY <1>1, <1>2, SessionIs
<1>4. Ends(d, 0) \in Int /\ Ends(d, 0) >= 2
  BY SessionHoldsTheTop
<1>5. r[1] = d[1] /\ Len(r) > 0
  BY <1>3, <1>4
<1> QED  BY <1>2, <1>3, <1>5 DEF Sound


-----------------------------------------------------------------------------
(* Every edit leaves a sound document sound. *)

LEMMA SoundIs ==
    ASSUME NEW c, NEW d, Sound(c, d)
    PROVE  /\ d \in Seq(Lines(c)) /\ Len(d) \in Nat /\ DOMAIN d = 1 .. Len(d)
           /\ \A i \in DOMAIN d : d[i] \in Lines(c)
  BY DEF Sound

LEMMA LineOfIs ==
    ASSUME NEW c, NEW d, Sound(c, d), NEW i \in DOMAIN d
    PROVE  d[i] \in Lines(c)
  BY SoundIs, Zenon

LEMMA HoistIsSound ==
    ASSUME NEW c, NEW d, Sound(c, d), NEW i \in DOMAIN d, d[i].kind # "v",
           NEW rest, rest = RemoveAt(d, i)
    PROVE  Sound(c, InsertAt(rest, Len(Session(rest)) + 1, d[i]))
<1>1. Sound(c, rest)
  BY WithdrawIsSound
<1>2. PICK k : k = Len(Session(rest)) + 1
  OBVIOUS
<1>3. k \in 2 .. Len(rest) + 1
  BY <1>1, <1>2, SessionHoldsTheTop
<1>4. d[i] \in Lines(c)
  BY LineOfIs
<1>5. PICK line \in Lines(c) : line = d[i]
  BY <1>4
<1>6. Sound(c, InsertAt(rest, k, line))
  BY <1>1, <1>3, InsertIsSound
<1> QED  BY <1>2, <1>5, <1>6, Zenon

LEMMA MediaLineIs ==
    ASSUME NEW c, NEW d, Sound(c, d), NEW m \in MediaLines(d)
    PROVE  /\ m \in DOMAIN d /\ m \in 1 .. Len(d) /\ d[m].kind = "m" /\ d[m].kind # "v"
           /\ d[m].media \in {"video", "audio"} /\ d[m].port \in 0 .. MaxPort
           /\ d[m].format \in Int
<1>1. m \in DOMAIN d /\ d[m].kind = "m"
  BY DEF MediaLines
<1>2. m \in 1 .. Len(d)
  BY <1>1, SoundIs
<1>3. PICK line \in Lines(c) : line = d[m]
  BY <1>1, LineOfIs
<1>4. line.media \in {"video", "audio"} /\ line.port \in 0 .. MaxPort /\ line.format \in Int
  BY <1>1, <1>3, KindTells
<1> QED  BY <1>1, <1>2, <1>3, <1>4

LEMMA ExchangeIsSound ==
    ASSUME NEW c, NEW d, Sound(c, d), MediaLines(d) # {},
           NEW first, first = Min(MediaLines(d)), NEW block, block = Block(d, first)
    PROVE  Sound(c, Session(d) \o SubSeq(d, first + Len(block), Len(d)) \o block)
<1>1. d \in Seq(Lines(c)) /\ Len(d) \in Nat
  BY SoundIs
<1>2. MediaLines(d) \subseteq Int /\ \A m \in MediaLines(d) : 1 <= m
  BY <1>1 DEF MediaLines
<1>3. first \in MediaLines(d)
  <2>1. 1 \in Int
    OBVIOUS
  <2> QED  BY <1>2, <2>1, MinBounded
<1>4. first \in 1 .. Len(d)
  BY <1>3, MediaLineIs
<1>5. /\ block \in Seq(Lines(c)) /\ Len(block) = Ends(d, first) - first
      /\ Ends(d, first) \in first + 1 .. Len(d) + 1
  <2>1. first \in 0 .. Len(d)
    BY <1>1, <1>4
  <2> QED  BY <1>1, <1>4, <2>1, BlockIs, EndsIs
<1>6. PICK e \in Int : e = Ends(d, first) /\ first + Len(block) = e /\ 1 <= e /\ e <= Len(d) + 1
  <2>1. PICK e \in Int : e = Ends(d, first)
    BY <1>5, <1>1
  <2> QED  BY <1>1, <1>4, <1>5, <2>1
<1>7. SubSeq(d, e, Len(d)) \in Seq(Lines(c))
  <2>1. PICK n \in Int : n = Len(d)
    BY <1>1
  <2>2. SubSeq(d, e, n) \in Seq(Lines(c))
    BY <1>1, <1>6, <2>1, Cut
  <2> QED  BY <2>1, <2>2
<1>8. PICK s, t : s = Session(d) /\ t = SubSeq(d, e, Len(d))
  OBVIOUS
<1>9. Sound(c, s \o t)
  BY <1>7, <1>8, SessionIsSound, AppendIsSound
<1>10. Sound(c, (s \o t) \o block)
  BY <1>5, <1>9, AppendIsSound
<1> QED  BY <1>6, <1>8, <1>10, Zenon

LEMMA AudioIs ==
    ASSUME NEW c, NEW address \in Connections
    PROVE  Audio(address) \in Seq(Lines(c))
<1>1. Connections \subseteq Addresses \cup {None} /\ "L24" \in Text /\ DupTags[1] \in Text
  <2>1. DupTags[1] \in ToSet(DupTags)
    BY DEF ToSet, DupTags
  <2> QED  BY <2>1, OffersAssumption, Zenon
<1>2. Media("audio", 1, AudioFormat) \in Lines(c)
  <2>1. 1 \in 0 .. MaxPort /\ AudioFormat \in Int
    BY OffersAssumption DEF AudioFormat
  <2> QED  BY <2>1, MediaIsALine
<1>3. Connection(address) \in Lines(c)
  BY <1>1, ConnectionIsALine
<1>4. Mid(DupTags[1]) \in Lines(c)
  BY <1>1, MidIsALine
<1>5. Rtpmap(AudioFormat, "L24", 48) \in Lines(c)
  BY <1>1, RtpmapIsALine DEF AudioFormat
<1>6. Fmtp(AudioFormat, [ptime |-> 1]) \in Lines(c)
  BY FmtpIsALine
<1>7. PICK a, b, e, f, g :
        /\ a = Media("audio", 1, AudioFormat) /\ b = Connection(address)
        /\ e = Mid(DupTags[1]) /\ f = Rtpmap(AudioFormat, "L24", 48)
        /\ g = Fmtp(AudioFormat, [ptime |-> 1])
  OBVIOUS
<1>8. Audio(address) = <<a, b, e, f, g>>
  BY <1>7, Zenon DEF Audio
<1>9. a \in Lines(c) /\ b \in Lines(c) /\ e \in Lines(c) /\ f \in Lines(c) /\ g \in Lines(c)
  BY <1>2, <1>3, <1>4, <1>5, <1>6, <1>7, Zenon
<1>10. <<a, b, e, f, g>> \in Seq(Lines(c))
  BY ONLY <1>9
<1> QED  BY <1>8, <1>10, Zenon

LEMMA InterposeIsSound ==
    ASSUME NEW c, NEW d, Sound(c, d), NEW address \in Connections
    PROVE  /\ Sound(c, d \o Audio(address))
           /\ Sound(c, Session(d) \o Audio(address) \o SubSeq(d, Len(Session(d)) + 1, Len(d)))
<1>1. PICK audio \in Seq(Lines(c)) : audio = Audio(address)
  BY AudioIs
<1>2. Sound(c, d \o audio)
  BY AppendIsSound
<1>3. d \in Seq(Lines(c)) /\ Len(d) \in Nat
  BY SoundIs
<1>4. PICK e \in Int, n \in Int : e = Ends(d, 0) /\ n = Len(d)
  BY <1>3, SessionHoldsTheTop
<1>5. 1 <= e /\ e <= n + 1 /\ Len(Session(d)) + 1 = e
  BY <1>4, SessionHoldsTheTop
<1>6. SubSeq(d, e, n) \in Seq(Lines(c))
  BY <1>3, <1>4, <1>5, Cut
<1>7. PICK s, t : s = Session(d) /\ t = SubSeq(d, e, n)
  OBVIOUS
<1>8. Sound(c, s \o audio)
  BY <1>7, SessionIsSound, AppendIsSound
<1>9. Sound(c, (s \o audio) \o t)
  BY <1>6, <1>7, <1>8, AppendIsSound
<1> QED  BY <1>1, <1>2, <1>4, <1>5, <1>7, <1>9, Zenon

LEMMA LengthenIsSound ==
    ASSUME NEW c, NEW d, Sound(c, d), NEW m \in MediaLines(d), NEW line \in Lines(c)
    PROVE  Sound(c, InsertAt(d, m + Len(Block(d, m)), line))
<1>1. d \in Seq(Lines(c)) /\ Len(d) \in Nat /\ m \in 1 .. Len(d)
  BY SoundIs, MediaLineIs
<1>2. m \in 0 .. Len(d)
  BY <1>1
<1>3. Len(Block(d, m)) = Ends(d, m) - m /\ Ends(d, m) \in m + 1 .. Len(d) + 1
  BY <1>1, <1>2, BlockIs, EndsIs
<1>4. PICK k : k = m + Len(Block(d, m))
  OBVIOUS
<1>5. k \in 2 .. Len(d) + 1
  <2>1. PICK e \in Int : e = Ends(d, m) /\ e >= m + 1 /\ e <= Len(d) + 1
    BY <1>1, <1>3
  <2> QED  BY <1>1, <1>3, <1>4, <2>1
<1> QED  BY <1>4, <1>5, InsertIsSound

LEMMA RegroupIsSound ==
    ASSUME NEW c, NEW d, Sound(c, d), NEW group \in Groupings
    PROVE  /\ Sound(c, InsertAt(d, Len(Session(d)) + 1, group))
           /\ Of(d, "group") # {} => Sound(c, ReplaceAt(d, Min(Of(d, "group")), group))
<1>1. group \in Lines(c)
  BY OffersAssumption, GroupIsALine
<1>2. Sound(c, InsertAt(d, Len(Session(d)) + 1, group))
  <2>1. PICK k : k = Len(Session(d)) + 1
    OBVIOUS
  <2>2. k \in 2 .. Len(d) + 1
    BY <2>1, SessionHoldsTheTop
  <2> QED  BY <1>1, <2>1, <2>2, InsertIsSound
<1>3. ASSUME Of(d, "group") # {} PROVE Sound(c, ReplaceAt(d, Min(Of(d, "group")), group))
  <2>1. PICK i : i = Min(Of(d, "group"))
    OBVIOUS
  <2>2. Of(d, "group") \subseteq Int /\ \A j \in Of(d, "group") : 1 <= j
    BY SoundIs DEF Of
  <2>3. i \in Of(d, "group")
    <3>1. 1 \in Int
      OBVIOUS
    <3> QED  BY <1>3, <2>1, <2>2, <3>1, MinBounded
  <2>4. i \in DOMAIN d /\ d[i].kind # "v"
    BY <2>3 DEF Of
  <2> QED  BY <1>1, <2>1, <2>4, ReplaceIsSound
<1> QED  BY <1>2, <1>3


-----------------------------------------------------------------------------
(* The invariant is inductive. *)

LEMMA InitEstablishes == Init => IInv
<1> SUFFICES ASSUME Init PROVE IInv
  OBVIOUS
<1>1. call \in Calls /\ Accepted(call) /\ doc = Offer(call, Format) /\ edits = 0
  BY DEF Init
<1>2. Sound(call, doc)
  <2>1. PICK c : c = call
    OBVIOUS
  <2>2. c \in Calls /\ Accepted(c) /\ doc = Offer(c, Format)
    BY <1>1, <2>1, Zenon
  <2>3. Sound(c, doc)
    BY <2>2, OfferIsSound, Zenon
  <2> QED  BY <2>1, <2>3, Zenon
<1>3. edits \in 0 .. MaxEdits
  BY <1>1, OffersAssumption
<1> QED  BY <1>1, <1>2, <1>3, Zenon DEF IInv

LEMMA RewritePreserves ==
    ASSUME IInv, NEW lines, Sound(call, lines), Rewrite(lines)
    PROVE  IInv'
<1>1. call' = call /\ doc' = lines /\ edits \in 0 .. MaxEdits /\ edits < MaxEdits /\ edits' = edits + 1
  BY DEF IInv, Rewrite
<1>2. edits' \in 0 .. MaxEdits /\ edits' # 0
  BY <1>1, OffersAssumption
<1>3. call \in Calls /\ Accepted(call)
  BY DEF IInv
<1>4. PICK c : c = call
  OBVIOUS
<1>5. c \in Calls /\ Accepted(c) /\ Sound(c, lines) /\ call' = c
  BY <1>1, <1>3, <1>4, Zenon
<1>6. Accepted(call') /\ call' \in Calls /\ Sound(call', doc')
  BY <1>1, <1>5, Zenon
<1> QED  BY <1>2, <1>6, Zenon DEF IInv

LEMMA NextPreserves == IInv /\ [Next]_vars => IInv'
<1> SUFFICES ASSUME IInv, [Next]_vars PROVE IInv'
  OBVIOUS
<1>1. PICK c, d : c = call /\ d = doc
  OBVIOUS
<1>2. Sound(c, d) /\ Sound(call, doc)
  BY <1>1, Zenon DEF IInv
<1>3. ASSUME NEW i \in Attributes, Withdraw(i) PROVE IInv'
  <2>1. i \in DOMAIN d /\ d[i].kind # "v"
    BY <1>1, <1>3 DEF Attributes
  <2>2. Sound(call, RemoveAt(doc, i))
    BY <1>1, <1>2, <2>1, WithdrawIsSound, Zenon
  <2>3. PICK lines : lines = RemoveAt(doc, i)
    OBVIOUS
  <2>4. Sound(call, lines) /\ Rewrite(lines)
    BY <1>3, <2>2, <2>3, Zenon DEF Withdraw
  <2> QED  BY <2>4, RewritePreserves, Zenon
<1>4. ASSUME NEW i \in Attributes, Hoist(i) PROVE IInv'
  <2>1. i \in DOMAIN d /\ d[i].kind # "v"
    BY <1>1, <1>4 DEF Attributes
  <2>2. PICK rest : rest = RemoveAt(d, i)
    OBVIOUS
  <2>3. PICK lines : lines = InsertAt(rest, Len(Session(rest)) + 1, d[i])
    OBVIOUS
  <2>4. Sound(c, lines)
    BY <1>2, <2>1, <2>2, <2>3, HoistIsSound, Zenon
  <2>5. Rewrite(lines)
    BY <1>1, <1>4, <2>2, <2>3, Zenon DEF Hoist
  <2> QED  BY <1>1, <2>4, <2>5, RewritePreserves, Zenon
<1>5. ASSUME Exchange PROVE IInv'
  <2>1. PICK first : first = Min(MediaLines(d))
    OBVIOUS
  <2>2. PICK block : block = Block(d, first)
    OBVIOUS
  <2>3. PICK lines : lines = Session(d) \o SubSeq(d, first + Len(block), Len(d)) \o block
    OBVIOUS
  <2>4. MediaLines(d) # {} /\ Rewrite(lines)
    BY <1>1, <1>5, <2>1, <2>2, <2>3, Zenon DEF Exchange
  <2>5. Sound(c, lines)
    BY <1>2, <2>1, <2>2, <2>3, <2>4, ExchangeIsSound, Zenon
  <2> QED  BY <1>1, <2>4, <2>5, RewritePreserves, Zenon
<1>6. ASSUME NEW address \in Connections, NEW first \in BOOLEAN, Interpose(address, first) PROVE IInv'
  <2>1. PICK lines :
            lines = IF first
                    THEN Session(d) \o Audio(address) \o SubSeq(d, Len(Session(d)) + 1, Len(d))
                    ELSE d \o Audio(address)
    OBVIOUS
  <2>2. Rewrite(lines)
    BY <1>1, <1>6, <2>1, Zenon DEF Interpose
  <2>3. Sound(c, lines)
    BY <1>2, <2>1, InterposeIsSound, Zenon
  <2> QED  BY <1>1, <2>2, <2>3, RewritePreserves, Zenon
<1>7. ASSUME NEW m \in MediaLines(doc), Disable(m) PROVE IInv'
  <2>1. PICK line : line = Media(d[m].media, 0, d[m].format)
    OBVIOUS
  <2>2. m \in MediaLines(d) /\ 0 \in 0 .. MaxPort
    BY <1>1, OffersAssumption
  <2>3. /\ m \in DOMAIN d /\ d[m].kind # "v"
        /\ d[m].media \in {"video", "audio"} /\ d[m].format \in Int
    BY <1>2, <2>2, MediaLineIs
  <2>4. line \in Lines(c)
    BY <2>1, <2>2, <2>3, MediaIsALine, Zenon
  <2>5. PICK lines : lines = ReplaceAt(d, m, line)
    OBVIOUS
  <2>6. Sound(c, lines)
    BY <1>2, <2>3, <2>4, <2>5, ReplaceIsSound, Zenon
  <2>7. Rewrite(lines)
    BY <1>1, <1>7, <2>1, <2>5, Zenon DEF Disable, ReplaceAt
  <2> QED  BY <1>1, <2>6, <2>7, RewritePreserves, Zenon
<1>8. ASSUME NEW m \in MediaLines(doc), NEW line \in Lines(c), Lengthen(m, line) PROVE IInv'
  <2>1. PICK lines : lines = InsertAt(d, m + Len(Block(d, m)), line)
    OBVIOUS
  <2>2. Rewrite(lines)
    BY <1>1, <1>8, <2>1, Zenon DEF Lengthen
  <2>3. Sound(c, lines)
    BY <1>1, <1>2, <2>1, LengthenIsSound, Zenon
  <2> QED  BY <1>1, <2>2, <2>3, RewritePreserves, Zenon
<1>9. ASSUME NEW group \in Groupings, Regroup(group) PROVE IInv'
  <2>1. PICK lines :
            lines = IF Of(d, "group") = {} THEN InsertAt(d, Len(Session(d)) + 1, group)
                    ELSE ReplaceAt(d, Min(Of(d, "group")), group)
    OBVIOUS
  <2>2. Rewrite(lines)
    BY <1>1, <1>9, <2>1, Zenon DEF Regroup
  <2>3. Sound(c, lines)
    BY <1>2, <2>1, RegroupIsSound, Zenon
  <2> QED  BY <1>1, <2>2, <2>3, RewritePreserves, Zenon
<1>10. ASSUME NEW i \in Attributes, Recode(i) PROVE IInv'
  <2>1. i \in DOMAIN d /\ d[i].kind # "v"
    BY <1>1, <1>10 DEF Attributes
  <2>2. PICK other \in {Rtpmap(AudioFormat, "raw", ClockRate), Rtpmap(Format, "coded", ClockRate),
                        Rtpmap(Format, "raw", 48)} : Rewrite(ReplaceAt(doc, i, other))
    BY <1>10, Zenon DEF Recode
  <2>3. AudioFormat \in Int /\ Format \in Int /\ "raw" \in Text /\ "coded" \in Text
        /\ ClockRate \in Int /\ 48 \in Int
    BY OffersAssumption DEF AudioFormat, Format
  <2>4. other \in Lines(c)
    BY <2>2, <2>3, RtpmapIsALine, Zenon
  <2>5. PICK lines : lines = ReplaceAt(d, i, other)
    OBVIOUS
  <2>6. Sound(c, lines)
    BY <1>2, <2>1, <2>4, <2>5, ReplaceIsSound, Zenon
  <2>7. Rewrite(lines)
    BY <1>1, <2>2, <2>5, Zenon
  <2> QED  BY <1>1, <2>6, <2>7, RewritePreserves, Zenon
<1>11. ASSUME UNCHANGED vars PROVE IInv'
  BY <1>11, Zenon DEF IInv, vars
<1>12. \A address \in Connections : Connection(address) \in Lines(c)
  BY OffersAssumption, ConnectionIsALine
<1>13. SourceFilter("excl", None) \in Lines(c)
  BY SourceFilterIsALine
<1>14. \A tag \in ToSet(DupTags) : Mid(tag) \in Lines(c)
  BY OffersAssumption, MidIsALine
<1> QED  BY <1>3, <1>4, <1>5, <1>6, <1>7, <1>8, <1>9, <1>10, <1>11, <1>12, <1>13, <1>14, Zenon DEF Next

-----------------------------------------------------------------------------
(* Whose a line is.  The session's lines, or a media line's, are those from *)
(* its first to the next media line, and are the segment a reader cuts.    *)

LEMMA OwnerIs ==
    ASSUME NEW c, NEW d, Sound(c, d), NEW m \in MediaLines(d) \cup {0}, NEW i \in DOMAIN d
    PROVE  Owner(d, i) = m <=> m <= i /\ i < Ends(d, m)
<1> DEFINE T == {0} \cup {x \in MediaLines(d) : x <= i}
<1>1. d \in Seq(Lines(c)) /\ Len(d) \in Nat /\ DOMAIN d = 1 .. Len(d)
  BY SoundIs
<1>2. MediaLines(d) \subseteq 1 .. Len(d) /\ i \in 1 .. Len(d)
  BY <1>1 DEF MediaLines
<1>3. m \in 0 .. Len(d)
  BY <1>1, <1>2
<1>4. /\ Ends(d, m) \in m + 1 .. Len(d) + 1
      /\ Ends(d, m) \in MediaLines(d) \cup {Len(d) + 1}
      /\ \A x \in MediaLines(d) : x > m => Ends(d, m) <= x
  BY <1>1, <1>3, EndsIs
<1>5. T \subseteq Int /\ T # {} /\ i \in Int /\ \A x \in T : x <= i
  BY <1>2
<1>6. Owner(d, i) = Max(T)
  BY DEF Owner
<1>7. ASSUME Max(T) = m PROVE m <= i /\ i < Ends(d, m)
  <2>1. m \in T /\ \A x \in T : x <= m
    <3> HIDE DEF T
    <3> QED  BY <1>5, <1>7, MaxBounded
  <2>2. ASSUME Ends(d, m) <= i PROVE FALSE
    <3>1. Ends(d, m) \in T
      BY <1>1, <1>2, <1>4, <2>2
    <3>2. Ends(d, m) <= m
      BY <2>1, <3>1, Zenon
    <3> QED  BY <1>1, <1>3, <1>4, <3>2
  <2> QED  BY <1>1, <1>2, <1>3, <1>4, <2>1, <2>2
<1>8. ASSUME m <= i, i < Ends(d, m) PROVE Max(T) = m
  <2>1. m \in T
    BY <1>8
  <2>2. \A x \in T : x <= m
    BY <1>1, <1>2, <1>3, <1>4, <1>8
  <2> HIDE DEF T
  <2> QED  BY <1>5, <2>1, <2>2, MaxIs
<1> QED  BY <1>6, <1>7, <1>8

(* A section by where it begins, the session at 0, and the line above it. *)
Segment(d, m) == IF m = 0 THEN Session(d) ELSE Block(d, m)

Above(m) == IF m = 0 THEN 0 ELSE m - 1

LEMMA SegmentIs ==
    ASSUME NEW c, NEW d, Sound(c, d), NEW m \in MediaLines(d) \cup {0},
           NEW segment, segment = Segment(d, m), NEW above, above = Above(m)
    PROVE  /\ above \in Nat /\ Len(segment) \in Nat /\ DOMAIN segment = 1 .. Len(segment)
           /\ segment \in Seq(Lines(c)) /\ Len(segment) > 0
           /\ \A j \in DOMAIN segment :
                /\ above + j \in DOMAIN d /\ segment[j] = d[above + j]
                /\ Owner(d, above + j) = m
           /\ \A i \in DOMAIN d : Owner(d, i) = m => i - above \in DOMAIN segment
<1>1. d \in Seq(Lines(c)) /\ Len(d) \in Nat /\ DOMAIN d = 1 .. Len(d)
  BY SoundIs
<1>2. MediaLines(d) \subseteq 1 .. Len(d)
  BY <1>1 DEF MediaLines
<1>3. m \in 0 .. Len(d)
  BY <1>1, <1>2
<1>4. PICK n \in Nat, e \in Int : n = Len(d) /\ e = Ends(d, m) /\ e \in m + 1 .. n + 1
  <2>1. Ends(d, m) \in m + 1 .. Len(d) + 1
    BY <1>1, <1>3, EndsIs
  <2>2. Ends(d, m) \in Int
    BY <1>1, <1>3, <2>1
  <2> QED  BY <1>1, <2>1, <2>2, Zenon
<1>5. above \in Nat
  BY <1>3 DEF Above
<1>6. /\ segment \in Seq(Lines(c)) /\ Len(segment) = e - 1 - above
      /\ \A j \in 1 .. e - 1 - above : segment[j] = d[above + j]
      /\ e - 1 - above >= 1
      /\ \A i \in 1 .. n : m <= i <=> above + 1 <= i
  <2>1. CASE m = 0
    <3>1. above = 0 /\ segment = Session(d)
      BY <2>1 DEF Above, Segment
    <3>2. segment \in Seq(Lines(c)) /\ Len(segment) = e - 1 /\ \A j \in 1 .. e - 1 : segment[j] = d[j]
      BY <1>1, <1>4, <2>1, <3>1, SessionIs
    <3>3. e >= 2
      BY <1>4, <2>1, SessionHoldsTheTop
    <3> QED  BY <1>4, <2>1, <3>1, <3>2, <3>3
  <2>2. CASE m # 0
    <3>1. above = m - 1 /\ segment = Block(d, m)
      BY <2>2 DEF Above, Segment
    <3>2. m \in 1 .. Len(d)
      BY <1>3, <2>2
    <3>3. /\ segment \in Seq(Lines(c)) /\ Len(segment) = e - m
          /\ \A j \in 1 .. e - m : segment[j] = d[m + j - 1]
      BY <1>1, <1>4, <3>1, <3>2, BlockIs
    <3>4. \A j \in 1 .. e - m : m + j - 1 = above + j
      BY <3>1, <3>2
    <3>5. e - 1 - above = e - m
      BY <3>1, <3>2, <1>4
    <3>6. \A j \in 1 .. e - m : segment[j] = d[above + j]
      BY <3>3, <3>4
    <3>7. e - m >= 1 /\ \A i \in 1 .. n : m <= i <=> above + 1 <= i
      BY <1>4, <3>1, <3>2
    <3> QED  BY <3>3, <3>5, <3>6, <3>7, Zenon
  <2> QED  BY <2>1, <2>2
<1>7. Len(segment) \in Nat /\ DOMAIN segment = 1 .. Len(segment)
  BY <1>6
<1>8. ASSUME NEW i \in DOMAIN d PROVE Owner(d, i) = m <=> above + 1 <= i /\ i < e
  <2>1. Owner(d, i) = m <=> m <= i /\ i < e
    BY <1>4, OwnerIs
  <2> QED  BY <1>1, <1>4, <1>6, <2>1
<1>9. \A j \in DOMAIN segment :
            /\ above + j \in DOMAIN d /\ segment[j] = d[above + j]
            /\ Owner(d, above + j) = m
  <2> TAKE j \in DOMAIN segment
  <2>1. j \in 1 .. e - 1 - above
    BY <1>6, <1>7
  <2>2. above + j \in DOMAIN d /\ above + 1 <= above + j /\ above + j < e
    BY <1>1, <1>4, <1>5, <2>1
  <2> QED  BY <1>6, <1>8, <2>1, <2>2
<1>10. \A i \in DOMAIN d : Owner(d, i) = m => i - above \in DOMAIN segment
  <2> SUFFICES ASSUME NEW i \in DOMAIN d, Owner(d, i) = m PROVE i - above \in DOMAIN segment
    OBVIOUS
  <2>1. above + 1 <= i /\ i < e /\ i \in Int
    BY <1>1, <1>8
  <2> QED  BY <1>4, <1>5, <1>6, <1>7, <2>1
<1> QED  BY <1>4, <1>5, <1>6, <1>7, <1>9, <1>10

(* The lines of a kind that are one owner's are its segment's, as far      *)
(* below the top of the document as the segment is.                        *)
LEMMA OwnedIs ==
    ASSUME NEW c, NEW d, Sound(c, d), NEW m \in MediaLines(d) \cup {0}, NEW kind,
           NEW segment, segment = Segment(d, m), NEW above, above = Above(m)
    PROVE  /\ above \in Nat /\ Of(segment, kind) \subseteq Int
           /\ \A j \in Of(segment, kind) : above + j \in Owned(d, kind, m) /\ segment[j] = d[above + j]
           /\ \A i \in Owned(d, kind, m) : i \in Int /\ i - above \in Of(segment, kind)
<1>1. /\ above \in Nat /\ Len(segment) \in Nat /\ DOMAIN segment = 1 .. Len(segment)
      /\ \A j \in DOMAIN segment :
            /\ above + j \in DOMAIN d /\ segment[j] = d[above + j]
            /\ Owner(d, above + j) = m
      /\ \A i \in DOMAIN d : Owner(d, i) = m => i - above \in DOMAIN segment
  BY SegmentIs
<1>2. DOMAIN d \subseteq Int
  BY SoundIs
<1>3. \A j \in Of(segment, kind) : above + j \in Owned(d, kind, m) /\ segment[j] = d[above + j]
  BY <1>1 DEF Of, Owned
<1>4. \A i \in Owned(d, kind, m) : i \in Int /\ i - above \in Of(segment, kind)
  <2> TAKE i \in Owned(d, kind, m)
  <2>1. i \in DOMAIN d /\ Owner(d, i) = m /\ d[i].kind = kind
    BY DEF Owned
  <2>2. i \in Int /\ i - above \in DOMAIN segment
    BY <1>1, <1>2, <2>1
  <2>3. segment[i - above] = d[above + (i - above)] /\ above + (i - above) = i
    BY <1>1, <2>2
  <2>4. segment[i - above].kind = kind
    BY <2>1, <2>3
  <2> QED  BY <2>2, <2>4 DEF Of
<1>5. Of(segment, kind) \subseteq Int
  BY <1>1 DEF Of
<1> QED  BY <1>1, <1>3, <1>4, <1>5

LEMMA LastIs ==
    ASSUME NEW c, NEW d, Sound(c, d), NEW m \in MediaLines(d) \cup {0}, NEW kind,
           NEW segment, segment = Segment(d, m)
    PROVE  /\ Of(segment, kind) = {} <=> Owned(d, kind, m) = {}
           /\ Of(segment, kind) # {} =>
                /\ Max(Owned(d, kind, m)) \in Owned(d, kind, m)
                /\ segment[Max(Of(segment, kind))] = d[Max(Owned(d, kind, m))]
<1>1. PICK above : above = Above(m)
  OBVIOUS
<1>2. PICK own, of : own = Owned(d, kind, m) /\ of = Of(segment, kind)
  OBVIOUS
<1>3. /\ above \in Nat /\ of \subseteq Int
      /\ \A j \in of : above + j \in own /\ segment[j] = d[above + j]
      /\ \A i \in own : i \in Int /\ i - above \in of
  <2>1. /\ above \in Nat /\ Of(segment, kind) \subseteq Int
        /\ \A j \in Of(segment, kind) :
                above + j \in Owned(d, kind, m) /\ segment[j] = d[above + j]
        /\ \A i \in Owned(d, kind, m) : i \in Int /\ i - above \in Of(segment, kind)
    BY <1>1, OwnedIs
  <2> QED  BY <1>2, <2>1, Zenon
<1>4. of = {} <=> own = {}
  BY <1>3
<1>5. Len(d) \in Int /\ \A i \in own : i <= Len(d)
  <2>1. Len(d) \in Nat /\ DOMAIN d = 1 .. Len(d)
    BY SoundIs
  <2>2. own \subseteq DOMAIN d
    BY <1>2 DEF Owned
  <2> QED  BY <2>1, <2>2
<1>6. ASSUME of # {}
      PROVE  Max(own) \in own /\ segment[Max(of)] = d[Max(own)]
  <2>1. own \subseteq Int /\ own # {}
    BY <1>3, <1>4, <1>6
  <2>2. PICK k : k = Max(own)
    OBVIOUS
  <2>3. k \in own /\ \A i \in own : i <= k
    BY <1>5, <2>1, <2>2, MaxBounded
  <2>4. PICK j \in of : j = k - above
    BY <1>3, <2>3
  <2>5. above + j = k
    BY <1>3, <2>1, <2>3, <2>4
  <2>6. \A x \in of : x <= j
    <3> TAKE x \in of
    <3>1. above + x \in own /\ above + x \in Int /\ x \in Int
      BY <1>3
    <3>2. above + x <= k
      BY <2>3, <3>1, Zenon
    <3> QED  BY <1>3, <2>1, <2>3, <2>4, <3>1, <3>2
  <2>7. Max(of) = j
    BY <1>3, <2>4, <2>6, MaxIs
  <2> QED  BY <1>3, <2>2, <2>3, <2>5, <2>7
<1> QED  BY <1>2, <1>4, <1>6, Zenon

LEMMA FirstIs ==
    ASSUME NEW c, NEW d, Sound(c, d), NEW m \in MediaLines(d) \cup {0}, NEW kind,
           NEW segment, segment = Segment(d, m), Of(segment, kind) # {}
    PROVE  \E i \in Owned(d, kind, m) : segment[Min(Of(segment, kind))] = d[i]
<1>1. /\ Of(segment, kind) \subseteq Int
      /\ \A j \in Of(segment, kind) :
            Above(m) + j \in Owned(d, kind, m) /\ segment[j] = d[Above(m) + j]
  BY OwnedIs
<1>2. \A j \in Of(segment, kind) : 1 <= j
  BY SegmentIs DEF Of
<1>3. PICK of : of = Of(segment, kind)
  OBVIOUS
<1>4. Min(of) \in of
  <2>1. 1 \in Int
    OBVIOUS
  <2> QED  BY <1>1, <1>2, <1>3, <2>1, MinBounded
<1> QED  BY <1>1, <1>3, <1>4, Zenon

(* So the attribute a reader finds is what the last such line says. *)
LEMMA AttributesAre ==
    ASSUME NEW c, NEW d, Sound(c, d), NEW m \in MediaLines(d) \cup {0},
           NEW segment, segment = Segment(d, m)
    PROVE  /\ Attribute(segment, "c", Address) = LastOf(d, "c", m)
           /\ Attribute(segment, "source-filter", Source) = LastOf(d, "source-filter", m)
           /\ Attribute(segment, "mid", Tag) = LastOf(d, "mid", m)
<1>1. ASSUME NEW kind, NEW last, last = Max(Owned(d, kind, m)), Of(segment, kind) # {}
      PROVE  d[last].kind = kind /\ segment[Max(Of(segment, kind))] = d[last]
             /\ Owned(d, kind, m) # {}
  <2>1. /\ last \in Owned(d, kind, m)
        /\ segment[Max(Of(segment, kind))] = d[last]
    BY <1>1, LastIs
  <2> QED  BY <2>1 DEF Owned
<1>2. \A kind : Of(segment, kind) = {} <=> Owned(d, kind, m) = {}
  BY LastIs
<1>3. Attribute(segment, "c", Address) = LastOf(d, "c", m)
  <2>1. CASE Of(segment, "c") = {}
    BY <1>2, <2>1, Zenon DEF Attribute, LastOf
  <2>2. CASE Of(segment, "c") # {}
    <3>1. PICK last : last = Max(Owned(d, "c", m))
      OBVIOUS
    <3>2. PICK line : line = d[last]
      OBVIOUS
    <3>3. line.kind = "c" /\ segment[Max(Of(segment, "c"))] = line /\ Owned(d, "c", m) # {}
      BY <1>1, <2>2, <3>1, <3>2, Zenon
    <3>4. Said(line) = line.address
      BY <3>3 DEF Said
    <3> QED  BY <2>2, <3>1, <3>2, <3>3, <3>4, Zenon DEF Attribute, LastOf, Address
  <2> QED  BY <2>1, <2>2
<1>4. Attribute(segment, "source-filter", Source) = LastOf(d, "source-filter", m)
  <2>1. CASE Of(segment, "source-filter") = {}
    BY <1>2, <2>1, Zenon DEF Attribute, LastOf
  <2>2. CASE Of(segment, "source-filter") # {}
    <3>1. PICK last : last = Max(Owned(d, "source-filter", m))
      OBVIOUS
    <3>2. PICK line : line = d[last]
      OBVIOUS
    <3>3. /\ line.kind = "source-filter" /\ segment[Max(Of(segment, "source-filter"))] = line
          /\ Owned(d, "source-filter", m) # {}
      BY <1>1, <2>2, <3>1, <3>2, Zenon
    <3>4. Said(line) = Source(line)
      BY <3>3 DEF Said, Source
    <3> QED  BY <2>2, <3>1, <3>2, <3>3, <3>4, Zenon DEF Attribute, LastOf
  <2> QED  BY <2>1, <2>2
<1>5. Attribute(segment, "mid", Tag) = LastOf(d, "mid", m)
  <2>1. CASE Of(segment, "mid") = {}
    BY <1>2, <2>1, Zenon DEF Attribute, LastOf
  <2>2. CASE Of(segment, "mid") # {}
    <3>1. PICK last : last = Max(Owned(d, "mid", m))
      OBVIOUS
    <3>2. PICK line : line = d[last]
      OBVIOUS
    <3>3. line.kind = "mid" /\ segment[Max(Of(segment, "mid"))] = line /\ Owned(d, "mid", m) # {}
      BY <1>1, <2>2, <3>1, <3>2, Zenon
    <3>4. Said(line) = line.tag
      BY <3>3 DEF Said
    <3> QED  BY <2>2, <3>1, <3>2, <3>3, <3>4, Zenon DEF Attribute, LastOf, Tag
  <2> QED  BY <2>1, <2>2
<1> QED  BY <1>3, <1>4, <1>5

-----------------------------------------------------------------------------
(* What the readers read. *)

(* The lines a section may say its own from are lines of the document's.   *)
LEMMA SaidIs ==
    ASSUME NEW c, NEW d, Sound(c, d), NEW m \in MediaLines(d) \cup {0}
    PROVE  /\ LastOf(d, "c", m) \in Addresses \cup {None}
           /\ LastOf(d, "source-filter", m) \in Addresses \cup {None}
           /\ LastOf(d, "mid", m) \in Text \cup {None}
<1>1. PICK segment : segment = Segment(d, m)
  OBVIOUS
<1>2. ASSUME NEW kind, NEW last, last = Max(Owned(d, kind, m)), Owned(d, kind, m) # {}
      PROVE  d[last] \in Lines(c) /\ d[last].kind = kind
  <2>1. last \in Owned(d, kind, m)
    <3>1. Of(segment, kind) # {}
      BY <1>1, <1>2, LastIs
    <3> QED  BY <1>1, <1>2, <3>1, LastIs
  <2>2. last \in DOMAIN d /\ d[last].kind = kind
    BY <2>1 DEF Owned
  <2> QED  BY <2>2, LineOfIs
<1>3. LastOf(d, "c", m) \in Addresses \cup {None}
  <2>1. CASE Owned(d, "c", m) = {}
    BY <2>1, Zenon DEF LastOf
  <2>2. CASE Owned(d, "c", m) # {}
    <3>1. PICK last : last = Max(Owned(d, "c", m))
      OBVIOUS
    <3>2. PICK line : line = d[last]
      OBVIOUS
    <3>3. line \in Lines(c) /\ line.kind = "c"
      BY <1>2, <2>2, <3>1, <3>2, Zenon
    <3>4. Said(line) = line.address
      BY <3>3 DEF Said
    <3>5. line.address \in Addresses \cup {None}
      BY <3>3, KindTells
    <3> QED  BY <2>2, <3>1, <3>2, <3>4, <3>5, Zenon DEF LastOf
  <2> QED  BY <2>1, <2>2
<1>4. LastOf(d, "source-filter", m) \in Addresses \cup {None}
  <2>1. CASE Owned(d, "source-filter", m) = {}
    BY <2>1, Zenon DEF LastOf
  <2>2. CASE Owned(d, "source-filter", m) # {}
    <3>1. PICK last : last = Max(Owned(d, "source-filter", m))
      OBVIOUS
    <3>2. PICK line : line = d[last]
      OBVIOUS
    <3>3. line \in Lines(c) /\ line.kind = "source-filter"
      BY <1>2, <2>2, <3>1, <3>2, Zenon
    <3>4. Said(line) = IF line.mode = "incl" THEN line.source ELSE None
      BY <3>3 DEF Said
    <3>5. line.source \in Addresses \cup {None}
      BY <3>3, KindTells
    <3>6. Said(line) \in Addresses \cup {None}
      BY <3>4, <3>5
    <3> QED  BY <2>2, <3>1, <3>2, <3>6, Zenon DEF LastOf
  <2> QED  BY <2>1, <2>2
<1>5. LastOf(d, "mid", m) \in Text \cup {None}
  <2>1. CASE Owned(d, "mid", m) = {}
    BY <2>1, Zenon DEF LastOf
  <2>2. CASE Owned(d, "mid", m) # {}
    <3>1. PICK last : last = Max(Owned(d, "mid", m))
      OBVIOUS
    <3>2. PICK line : line = d[last]
      OBVIOUS
    <3>3. line \in Lines(c) /\ line.kind = "mid"
      BY <1>2, <2>2, <3>1, <3>2, Zenon
    <3>4. Said(line) = line.tag
      BY <3>3 DEF Said
    <3>5. line.tag \in Text
      BY <3>3, KindTells
    <3> QED  BY <2>2, <3>1, <3>2, <3>4, <3>5, Zenon DEF LastOf
  <2> QED  BY <2>1, <2>2
<1> QED  BY <1>3, <1>4, <1>5

LEMMA VideoLineIs ==
    ASSUME NEW c, NEW d, Sound(c, d)
    PROVE  /\ VideoLines(d) \subseteq MediaLines(d) /\ VideoLines(d) \subseteq 1 .. Len(d)
           /\ \A m \in DOMAIN d : m \in VideoLines(d) <=> IsVideo(d, m)
           /\ DOMAIN VideoSections(d) = VideoLines(d)
<1>1. VideoLines(d) \subseteq MediaLines(d)
  BY DEF VideoLines
<1>2. VideoLines(d) \subseteq 1 .. Len(d)
  BY <1>1, MediaLineIs
<1>3. \A m \in DOMAIN d : m \in VideoLines(d) <=> IsVideo(d, m)
  BY DEF VideoLines, MediaLines, IsVideo
<1>4. DOMAIN VideoSections(d) = VideoLines(d)
  BY Zenon DEF VideoSections
<1> QED  BY <1>1, <1>2, <1>3, <1>4

(* A section as it is read: the flow its media line describes, its tag.    *)
LEMMA SectionIs ==
    ASSUME NEW c, NEW d, Sound(c, d), NEW m \in VideoLines(d),
           NEW section, section = VideoSections(d)[m]
    PROVE  /\ FlowOf(section) = Described(d, m)
           /\ section.connection = Described(d, m).destination
           /\ section.port = d[m].port /\ section.port \in 0 .. MaxPort
           /\ section.mid = LastOf(d, "mid", m)
           /\ Usable(section) => IsFlow(FlowOf(section))
<1>1. m \in MediaLines(d) /\ m \in 1 .. Len(d) /\ m # 0
  BY VideoLineIs
<1>2. PICK session, block : session = Session(d) /\ block = Block(d, m)
  OBVIOUS
<1>3. session = Segment(d, 0) /\ block = Segment(d, m)
  BY <1>1, <1>2, Zenon DEF Segment
<1>4. section = [port |-> block[1].port,
                 connection |-> Either(Attribute(block, "c", Address), Attribute(session, "c", Address)),
                 source |-> Either(Attribute(block, "source-filter", Source),
                                   Attribute(session, "source-filter", Source)),
                 mid |-> Attribute(block, "mid", Tag)]
  BY <1>2, Zenon DEF VideoSections
<1>5. PICK own, ownSource, mid, shared, sharedSource :
        /\ own = LastOf(d, "c", m) /\ ownSource = LastOf(d, "source-filter", m)
        /\ mid = LastOf(d, "mid", m)
        /\ shared = LastOf(d, "c", 0) /\ sharedSource = LastOf(d, "source-filter", 0)
  OBVIOUS
<1>6. /\ Attribute(block, "c", Address) = own /\ Attribute(block, "source-filter", Source) = ownSource
      /\ Attribute(block, "mid", Tag) = mid
  BY <1>1, <1>3, <1>5, AttributesAre
<1>7. /\ Attribute(session, "c", Address) = shared
      /\ Attribute(session, "source-filter", Source) = sharedSource
  BY <1>3, <1>5, AttributesAre
<1>8. block[1] = d[m]
  <2>1. m \in 0 .. Len(d) /\ d \in Seq(Lines(c)) /\ Len(d) \in Nat
    BY <1>1, SoundIs
  <2>2. /\ Ends(d, m) \in m + 1 .. Len(d) + 1
        /\ \A i \in 1 .. Ends(d, m) - m : block[i] = d[m + i - 1]
    BY <1>1, <1>2, <2>1, EndsIs, BlockIs
  <2>3. 1 \in 1 .. Ends(d, m) - m /\ m + 1 - 1 = m
    BY <1>1, <2>1, <2>2
  <2> QED  BY <2>2, <2>3, Zenon
<1>9. section = [port |-> d[m].port, connection |-> Either(own, shared),
                 source |-> Either(ownSource, sharedSource), mid |-> mid]
  BY <1>4, <1>6, <1>7, <1>8, Zenon
<1>10. /\ section.port = d[m].port /\ section.connection = Either(own, shared)
       /\ section.source = Either(ownSource, sharedSource) /\ section.mid = mid
  BY <1>9
<1>11. Described(d, m) =
        [destination |-> Either(own, shared), port |-> d[m].port,
         source |-> Either(ownSource, sharedSource)]
  BY <1>5 DEF Described, Either
<1>12. d[m].port \in 0 .. MaxPort
  BY <1>1, MediaLineIs
<1>13. FlowOf(section) = Described(d, m) /\ section.connection = Described(d, m).destination
  BY <1>10, <1>11 DEF FlowOf
<1>14. Usable(section) => IsFlow(FlowOf(section))
  <2>1. FlowOf(section).destination = section.connection /\ FlowOf(section).port = section.port
    BY DEF FlowOf
  <2> QED  BY <1>10, <1>12, <2>1, OffersAssumption DEF Usable, IsFlow
<1> QED  BY <1>5, <1>10, <1>12, <1>13, <1>14

LEMMA FirstVideoIs ==
    ASSUME NEW c, NEW d, Sound(c, d), VideoLines(d) # {}, NEW m, m = Min(VideoLines(d))
    PROVE  m \in VideoLines(d) /\ m \in DOMAIN d /\ m \in MediaLines(d) /\ IsFirstVideo(d, m)
<1>1. VideoLines(d) \subseteq 1 .. Len(d) /\ Len(d) \in Nat /\ DOMAIN d = 1 .. Len(d)
  BY VideoLineIs, SoundIs
<1>2. m \in VideoLines(d) /\ \A n \in VideoLines(d) : m <= n
  <2>1. 1 \in Int /\ VideoLines(d) \subseteq Int /\ \A n \in VideoLines(d) : 1 <= n
    BY <1>1
  <2> QED  BY <2>1, MinBounded
<1>3. m \in DOMAIN d /\ m \in MediaLines(d)
  BY <1>1, <1>2, VideoLineIs
<1>4. \A n \in 1 .. m - 1 : ~IsVideo(d, n)
  <2> SUFFICES ASSUME NEW n \in 1 .. m - 1, IsVideo(d, n) PROVE FALSE
    OBVIOUS
  <2>1. n \in DOMAIN d /\ n \in Int /\ n < m
    BY <1>1, <1>3
  <2>2. n \in VideoLines(d)
    BY <2>1, VideoLineIs
  <2> QED  BY <1>1, <1>2, <1>3, <2>1, <2>2
<1> QED  BY <1>2, <1>3, <1>4, VideoLineIs DEF IsFirstVideo

(* The tags of the first group of two legs, if there is one. *)
Duplicated(d) == {i \in Owned(d, "group", 0) : d[i].semantics = "DUP"}

LEMMA GroupedTagsAre ==
    ASSUME NEW c, NEW d, Sound(c, d)
    PROVE  /\ Duplicated(d) = {} => GroupedTags(d) = None
           /\ Duplicated(d) # {} =>
                /\ GroupedTags(d) = d[Min(Duplicated(d))].tags
                /\ GroupedTags(d) \in Seq(Text) /\ GroupedTags(d) # None
<1>1. PICK session : session = Session(d)
  OBVIOUS
<1>2. session = Segment(d, 0) /\ Above(0) = 0
  BY <1>1, Zenon DEF Segment, Above
<1>3. /\ Of(session, "group") \subseteq Int
      /\ \A j \in Of(session, "group") : 0 + j \in Owned(d, "group", 0)
      /\ \A i \in Owned(d, "group", 0) : i \in Int /\ i - 0 \in Of(session, "group")
  BY <1>2, OwnedIs
<1>4. Of(session, "group") = Owned(d, "group", 0)
  BY <1>3
<1>5. PICK groups : groups = Duplicated(d)
  OBVIOUS
<1>6. GroupedTags(d) = IF groups = {} THEN None ELSE d[Min(groups)].tags
  BY <1>1, <1>4, <1>5, Zenon DEF GroupedTags, Duplicated
<1>7. ASSUME groups # {}
      PROVE  d[Min(groups)].tags \in Seq(Text)
  <2>1. groups \subseteq DOMAIN d /\ \A i \in groups : d[i].kind = "group"
    BY <1>5 DEF Duplicated, Owned
  <2>2. groups \subseteq Int /\ \A i \in groups : 1 <= i
    BY <2>1, SoundIs
  <2>3. Min(groups) \in groups
    <3>1. 1 \in Int
      OBVIOUS
    <3> QED  BY <1>7, <2>2, <3>1, MinBounded
  <2>4. PICK line : line = d[Min(groups)]
    OBVIOUS
  <2>5. line \in Lines(c) /\ line.kind = "group"
    BY <2>1, <2>3, <2>4, LineOfIs
  <2>6. line \in Groups
    BY <2>5, KindTells
  <2>7. line.tags \in Seq(Text)
    BY <2>6 DEF Groups
  <2> QED  BY <2>4, <2>7
<1>8. None \notin Seq(Text)
  BY OffersAssumption
<1> QED  BY <1>5, <1>6, <1>7, <1>8, Zenon

-----------------------------------------------------------------------------
(* The one flow, and the two. *)

LEMMA SingleIs ==
    ASSUME NEW c, NEW d, Sound(c, d), ParseSdp(d) # Refused
    PROVE  /\ Duplicated(d) = {}
           /\ \E m \in DOMAIN d : IsFirstVideo(d, m) /\ ParseSdp(d) = Described(d, m)
           /\ IsFlow(ParseSdp(d))
<1>1. PICK m, flow : m = Min(VideoLines(d)) /\ flow = ParseSdp(d)
  OBVIOUS
<1>2. PICK section : section = VideoSections(d)[m]
  OBVIOUS
<1>3. /\ GroupedTags(d) = None /\ VideoLines(d) # {} /\ Usable(section)
      /\ flow = FlowOf(section)
  BY <1>1, <1>2, Zenon DEF ParseSdp
<1>4. m \in VideoLines(d) /\ m \in DOMAIN d /\ IsFirstVideo(d, m)
  BY <1>1, <1>3, FirstVideoIs
<1>5. FlowOf(section) = Described(d, m) /\ IsFlow(FlowOf(section))
  BY <1>2, <1>3, <1>4, SectionIs
<1> QED  BY <1>1, <1>3, <1>4, <1>5, GroupedTagsAre, Zenon

LEMMA TwoElements ==
    ASSUME NEW T, IsFiniteSet(T), Cardinality(T) = 2, NEW x \in T, NEW y \in T, x # y
    PROVE  T = {x, y}
<1>1. IsFiniteSet(T \ {x}) /\ Cardinality(T \ {x}) = 1
  BY FS_RemoveElement
<1>2. PICK z : T \ {x} = {z}
  BY <1>1, FS_Singleton, Zenon
<1> QED  BY <1>2

LEMMA PairIs ==
    ASSUME NEW c, NEW d, Sound(c, d), NEW tags, tags = GroupedTags(d),
           NEW sections, sections = VideoSections(d), IsPair(tags, sections)
    PROVE  /\ Duplicated(d) # {} /\ tags = d[Min(Duplicated(d))].tags
           /\ DOMAIN tags = {1, 2}
           /\ \E x, y \in VideoLines(d) :
                /\ VideoLines(d) = {x, y}
                /\ LastOf(d, "mid", x) = tags[1] /\ LastOf(d, "mid", y) = tags[2]
                /\ tags[1] # tags[2]
                /\ Legs(tags, sections)[1] = sections[x] /\ Legs(tags, sections)[2] = sections[y]
<1>1. PICK V, mids : V = VideoLines(d) /\ mids = [m \in DOMAIN sections |-> sections[m].mid]
  OBVIOUS
<1>2. DOMAIN sections = V
  BY <1>1, VideoLineIs
<1>3. /\ tags # None /\ Len(tags) = Cardinality(V) /\ Len(tags) = Len(DupTags)
      /\ IsInjective(tags) /\ IsInjective(mids) /\ ToSet(tags) \subseteq Range(mids)
  BY <1>1, <1>2, Zenon DEF IsPair
<1>4. Duplicated(d) # {} /\ tags = d[Min(Duplicated(d))].tags /\ tags \in Seq(Text)
  <2>1. Duplicated(d) # {}
    BY <1>3, GroupedTagsAre
  <2>2. /\ GroupedTags(d) = d[Min(Duplicated(d))].tags
        /\ GroupedTags(d) \in Seq(Text)
    BY <2>1, GroupedTagsAre
  <2> QED  BY <2>1, <2>2, Zenon
<1>5. Len(tags) = 2 /\ DOMAIN tags = 1 .. 2 /\ DOMAIN tags = {1, 2}
  <2>1. Len(DupTags) = 2
    BY DEF DupTags
  <2>2. DOMAIN tags = 1 .. 2
    BY <1>3, <1>4, <2>1
  <2>3. 1 .. 2 = {1, 2}
    OBVIOUS
  <2> QED  BY <1>3, <2>1, <2>2, <2>3
<1>6. tags[1] # tags[2]
  BY <1>3, <1>5 DEF IsInjective
<1>7. DOMAIN mids = V /\ \A m \in V : mids[m] = sections[m].mid
  BY <1>1, <1>2
<1>8. \A m \in V : mids[m] = LastOf(d, "mid", m)
  BY <1>1, <1>7, SectionIs
<1>9. \A i \in 1 .. 2 : \E m \in V : mids[m] = tags[i]
  <2> TAKE i \in 1 .. 2
  <2>1. tags[i] \in ToSet(tags)
    BY <1>5 DEF ToSet
  <2> QED  BY <1>3, <1>7, <2>1 DEF Range
<1>10. PICK x \in V, y \in V : mids[x] = tags[1] /\ mids[y] = tags[2]
  BY <1>9
<1>11. x # y
  BY <1>6, <1>10
<1>12. V = {x, y}
  <2>1. IsFiniteSet(V)
    <3>1. V \subseteq 1 .. Len(d) /\ Len(d) \in Nat
      BY <1>1, VideoLineIs, SoundIs
    <3>2. IsFiniteSet(1 .. Len(d))
      BY <3>1, FS_Interval
    <3> QED  BY <3>1, <3>2, FS_Subset
  <2>2. Cardinality(V) = 2
    BY <1>3, <1>5
  <2> QED  BY <1>11, <2>1, <2>2, TwoElements
<1>13. \A i \in 1 .. 2 : Legs(tags, sections)[i] = sections[CHOOSE m \in V : sections[m].mid = tags[i]]
  BY <1>2, <1>5, Zenon DEF Legs
<1>14. ASSUME NEW i \in 1 .. 2, NEW z \in V, mids[z] = tags[i]
       PROVE  Legs(tags, sections)[i] = sections[z]
  <2>1. PICK w : w = CHOOSE m \in V : sections[m].mid = tags[i]
    OBVIOUS
  <2>2. sections[z].mid = tags[i]
    BY <1>7, <1>14
  <2>3. w \in V /\ sections[w].mid = tags[i]
    BY <2>1, <2>2, Zenon
  <2>4. mids[w] = mids[z]
    BY <1>7, <1>14, <2>3
  <2>5. w = z
    BY <1>3, <1>7, <2>3, <2>4 DEF IsInjective
  <2> QED  BY <1>13, <2>1, <2>5
<1>15. Legs(tags, sections)[1] = sections[x] /\ Legs(tags, sections)[2] = sections[y]
  <2>1. Legs(tags, sections)[1] = sections[x]
    BY <1>10, <1>14
  <2>2. Legs(tags, sections)[2] = sections[y]
    BY <1>10, <1>14
  <2> QED  BY <2>1, <2>2
<1> QED  BY <1>1, <1>4, <1>5, <1>6, <1>8, <1>10, <1>12, <1>15, Zenon

LEMMA BothIs ==
    ASSUME NEW c, NEW d, Sound(c, d), ParseDupSdp(d) # Refused,
           NEW tags, tags = d[Min(Duplicated(d))].tags
    PROVE  \E x, y \in VideoLines(d) :
                /\ VideoLines(d) = {x, y}
                /\ LastOf(d, "mid", x) = tags[1] /\ LastOf(d, "mid", y) = tags[2]
                /\ tags[1] # tags[2]
                /\ ParseDupSdp(d) = <<Described(d, x), Described(d, y)>>
                /\ IsFlow(Described(d, x)) /\ IsFlow(Described(d, y))
<1>1. PICK t, sections : t = GroupedTags(d) /\ sections = VideoSections(d)
  OBVIOUS
<1>2. PICK legs : legs = Legs(t, sections)
  OBVIOUS
<1>3. /\ IsPair(t, sections) /\ Usable(legs[1]) /\ Usable(legs[2])
      /\ ParseDupSdp(d) = <<FlowOf(legs[1]), FlowOf(legs[2])>>
  BY <1>1, <1>2, Zenon DEF ParseDupSdp
<1>4. t = tags
  BY <1>1, <1>3, PairIs
<1>5. PICK x \in VideoLines(d), y \in VideoLines(d) :
        /\ VideoLines(d) = {x, y}
        /\ LastOf(d, "mid", x) = tags[1] /\ LastOf(d, "mid", y) = tags[2]
        /\ tags[1] # tags[2]
        /\ legs[1] = sections[x] /\ legs[2] = sections[y]
  <2>1. \E x, y \in VideoLines(d) :
            /\ VideoLines(d) = {x, y}
            /\ LastOf(d, "mid", x) = t[1] /\ LastOf(d, "mid", y) = t[2]
            /\ t[1] # t[2]
            /\ Legs(t, sections)[1] = sections[x] /\ Legs(t, sections)[2] = sections[y]
    BY <1>1, <1>3, PairIs
  <2> QED  BY <1>2, <1>4, <2>1, Zenon
<1>6. \A m \in VideoLines(d) :
        /\ FlowOf(sections[m]) = Described(d, m)
        /\ Usable(sections[m]) => IsFlow(FlowOf(sections[m]))
  BY <1>1, SectionIs
<1>7. /\ FlowOf(legs[1]) = Described(d, x) /\ FlowOf(legs[2]) = Described(d, y)
      /\ IsFlow(Described(d, x)) /\ IsFlow(Described(d, y))
  BY <1>3, <1>5, <1>6, Zenon
<1> QED  BY <1>3, <1>5, <1>7, Zenon

-----------------------------------------------------------------------------
(* The state's types hold. *)
LEMMA TypesHold == IInv => TypeOK
<1> SUFFICES ASSUME IInv PROVE TypeOK
  OBVIOUS
<1>1. PICK c, d : c = call /\ d = doc
  OBVIOUS
<1>2. Sound(c, d) /\ edits \in 0 .. MaxEdits
  BY <1>1, Zenon DEF IInv
<1>3. Len(d) > 0
  BY <1>2 DEF Sound
<1>4. ParseSdp(d) # Refused => IsFlow(ParseSdp(d))
  BY <1>2, SingleIs
<1>5. ParseDupSdp(d) # Refused => \A leg \in ToSet(ParseDupSdp(d)) : IsFlow(leg)
  <2> SUFFICES ASSUME ParseDupSdp(d) # Refused, NEW leg \in ToSet(ParseDupSdp(d))
               PROVE  IsFlow(leg)
    OBVIOUS
  <2>1. PICK x \in VideoLines(d), y \in VideoLines(d) :
            /\ ParseDupSdp(d) = <<Described(d, x), Described(d, y)>>
            /\ IsFlow(Described(d, x)) /\ IsFlow(Described(d, y))
    BY <1>2, BothIs, Zenon
  <2>2. PICK one, two : one = Described(d, x) /\ two = Described(d, y)
    OBVIOUS
  <2>3. leg \in ToSet(<<one, two>>)
    BY <2>1, <2>2, Zenon
  <2>4. leg = one \/ leg = two
    BY <2>3 DEF ToSet
  <2> QED  BY <2>1, <2>2, <2>4, Zenon
<1> QED  BY <1>1, <1>2, <1>3, <1>4, <1>5, Zenon DEF TypeOK

(* In every state of every offer's way, the types are right, and a flow    *)
(* that is read has an address and a port it can be received at: Offers's  *)
(* TypeOK.                                                                 *)
THEOREM OfferTypesHold == Spec => []TypeOK
<1>1. Init => IInv
  BY InitEstablishes
<1>2. IInv /\ [Next]_vars => IInv'
  BY NextPreserves
<1>3. IInv => TypeOK
  BY TypesHold
<1> QED  BY <1>1, <1>2, <1>3, PTL DEF Spec

(* Flows are their sections', said of a document. *)
FlowsOfSections(d) ==
    LET flow == ParseSdp(d)
        legs == ParseDupSdp(d)
        duplicated == Duplicated(d)
        bearers(tag) == {m \in DOMAIN d : IsVideo(d, m) /\ LastOf(d, "mid", m) = tag}
    IN  /\ flow # Refused =>
            /\ duplicated = {}
            /\ \E m \in DOMAIN d : IsFirstVideo(d, m) /\ flow = Described(d, m)
        /\ legs # Refused =>
            LET tags == d[Min(duplicated)].tags
            IN  /\ \A m \in DOMAIN d : IsVideo(d, m) => \E i \in 1 .. 2 : m \in bearers(tags[i])
                /\ \A i \in 1 .. 2 : \E m \in DOMAIN d :
                        bearers(tags[i]) = {m} /\ legs[i] = Described(d, m)

LEMMA FlowsAre == IInv => FlowsAreTheirSections
<1> SUFFICES ASSUME IInv PROVE FlowsAreTheirSections
  OBVIOUS
<1>1. PICK c, d : c = call /\ d = doc
  OBVIOUS
<1>2. Sound(c, d)
  BY <1>1, Zenon DEF IInv
<1> DEFINE bearers(tag) == {m \in DOMAIN d : IsVideo(d, m) /\ LastOf(d, "mid", m) = tag}
           tags == d[Min(Duplicated(d))].tags
<1>3. ParseSdp(d) # Refused =>
        /\ Duplicated(d) = {}
        /\ \E m \in DOMAIN d : IsFirstVideo(d, m) /\ ParseSdp(d) = Described(d, m)
  BY <1>2, SingleIs
<1>4. ASSUME ParseDupSdp(d) # Refused
      PROVE  /\ \A m \in DOMAIN d : IsVideo(d, m) => \E i \in 1 .. 2 : m \in bearers(tags[i])
             /\ \A i \in 1 .. 2 : \E m \in DOMAIN d :
                    bearers(tags[i]) = {m} /\ ParseDupSdp(d)[i] = Described(d, m)
  <2>1. PICK t : t = tags
    OBVIOUS
  <2>2. PICK x \in VideoLines(d), y \in VideoLines(d) :
            /\ VideoLines(d) = {x, y}
            /\ LastOf(d, "mid", x) = t[1] /\ LastOf(d, "mid", y) = t[2]
            /\ t[1] # t[2]
            /\ ParseDupSdp(d) = <<Described(d, x), Described(d, y)>>
    BY <1>2, <1>4, <2>1, BothIs, Zenon
  <2>3. /\ \A m \in DOMAIN d : IsVideo(d, m) <=> m = x \/ m = y
        /\ x \in DOMAIN d /\ y \in DOMAIN d
    <3>1. VideoLines(d) \subseteq DOMAIN d
      BY <1>2, VideoLineIs, SoundIs
    <3>2. \A m \in DOMAIN d : m \in VideoLines(d) <=> IsVideo(d, m)
      BY <1>2, VideoLineIs
    <3> QED  BY <2>2, <3>1, <3>2
  <2>4. bearers(t[1]) = {x} /\ bearers(t[2]) = {y}
    BY <2>2, <2>3
  <2>5. PICK one, two, legs : one = Described(d, x) /\ two = Described(d, y) /\ legs = ParseDupSdp(d)
    OBVIOUS
  <2>6. legs = <<one, two>>
    BY <2>2, <2>5, Zenon
  <2>7. legs[1] = one /\ legs[2] = two
    BY <2>6
  <2>8. \A i \in 1 .. 2 : i = 1 \/ i = 2
    OBVIOUS
  <2>9. \A m \in DOMAIN d : IsVideo(d, m) => \E i \in 1 .. 2 : m \in bearers(t[i])
    <3>1. 1 \in 1 .. 2 /\ 2 \in 1 .. 2
      OBVIOUS
    <3> QED  BY <2>3, <2>4, <3>1
  <2>10. \A i \in 1 .. 2 : \E m \in DOMAIN d : bearers(t[i]) = {m} /\ legs[i] = Described(d, m)
    <3> HIDE DEF bearers
    <3> QED  BY <2>3, <2>4, <2>5, <2>7, <2>8, Zenon
  <2> QED  BY <2>1, <2>5, <2>9, <2>10, Zenon
<1>5. FlowsOfSections(d)
  BY <1>3, <1>4, Zenon DEF FlowsOfSections
<1>6. FlowsOfSections(doc)
  BY <1>1, <1>5, Zenon
<1>7. FlowsOfSections(doc) <=> FlowsAreTheirSections
  BY Zenon DEF FlowsOfSections, FlowsAreTheirSections, Duplicated
<1> QED  BY <1>6, <1>7

(* Whatever was withdrawn, said again, said above, put in another order or *)
(* interposed, a flow read out of a document is the one that one section   *)
(* describes, and a pair is the two sections its tags name, in the order   *)
(* of the tags: parse_sdp, parse_dup_sdp, _video_sections and _dup_tags.   *)
THEOREM FlowsAreTheirSectionsHolds == Spec => []FlowsAreTheirSections
<1>1. Init => IInv
  BY InitEstablishes
<1>2. IInv /\ [Next]_vars => IInv'
  BY NextPreserves
<1>3. IInv => FlowsAreTheirSections
  BY FlowsAre
<1> QED  BY <1>1, <1>2, <1>3, PTL DEF Spec

-----------------------------------------------------------------------------
(* The format.  What is left out of the line is what its absence means, so *)
(* the parameters are read as the format they were written from.           *)

LEMMA VideoRoundTrips ==
    ASSUME NEW video \in Videos, NEW sender_type, NEW p, p = MediaTypeParameters(video, sender_type)
    PROVE  /\ {"width", "height", "exactframerate"} \subseteq DOMAIN p
           /\ VideoOf(p) = [video EXCEPT !.sender_type = sender_type]
<1>1. PICK P : P = Parameters(video, sender_type)
  OBVIOUS
<1>2. PICK absent :
        absent = {name \in {"TROFF", "CMAX", "interlace", "MAXUDP"} :
                    \/ name = "TROFF" /\ video.tr_offset_us = None
                    \/ name = "CMAX" /\ video.cmax = None
                    \/ name = "interlace" /\ ~video.interlaced
                    \/ name = "MAXUDP" /\ video.max_udp = StandardUdp}
  OBVIOUS
<1>3. p = Restrict(P, DOMAIN P \ absent)
  BY <1>1, <1>2, Zenon DEF MediaTypeParameters
<1>4. DOMAIN p = DOMAIN P \ absent /\ \A name \in DOMAIN p : p[name] = P[name]
  BY <1>3, Zenon DEF Restrict
<1>5. /\ DOMAIN P = {"sampling", "width", "height", "exactframerate", "depth", "colorimetry", "PM",
                     "SSN", "TP", "TROFF", "CMAX", "interlace", "MAXUDP"}
      /\ P["sampling"] = video.sampling /\ P["width"] = video.width /\ P["height"] = video.height
      /\ P["exactframerate"] = video.frame_rate /\ P["depth"] = video.depth
      /\ P["colorimetry"] = video.colorimetry /\ P["TP"] = sender_type
      /\ P["TROFF"] = video.tr_offset_us /\ P["CMAX"] = video.cmax /\ P["MAXUDP"] = video.max_udp
  BY <1>1 DEF Parameters
<1>6. /\ {"sampling", "width", "height", "exactframerate", "depth", "colorimetry", "TP"}
            \subseteq DOMAIN p
      /\ "TROFF" \in DOMAIN p <=> video.tr_offset_us # None
      /\ "CMAX" \in DOMAIN p <=> video.cmax # None
      /\ "interlace" \in DOMAIN p <=> video.interlaced
      /\ "MAXUDP" \in DOMAIN p <=> video.max_udp # StandardUdp
  BY <1>2, <1>4, <1>5
<1>7. /\ p["width"] = video.width /\ p["height"] = video.height
      /\ p["exactframerate"] = video.frame_rate
      /\ Given(p, "depth", 10) = video.depth
      /\ Given(p, "sampling", None) = video.sampling
      /\ Given(p, "colorimetry", "UNSPECIFIED") = video.colorimetry
      /\ Given(p, "TP", "2110TPN") = sender_type
  BY <1>4, <1>5, <1>6 DEF Given
<1>8. /\ Given(p, "MAXUDP", StandardUdp) = video.max_udp
      /\ Given(p, "TROFF", None) = video.tr_offset_us
      /\ Given(p, "CMAX", None) = video.cmax
  BY <1>4, <1>5, <1>6 DEF Given
<1>9. ("interlace" \in DOMAIN p) = video.interlaced
  <2>1. video.interlaced \in BOOLEAN
    BY DEF Videos
  <2> QED  BY <1>6, <2>1
<1>10. VideoOf(p) =
        [width |-> video.width, height |-> video.height, frame_rate |-> video.frame_rate,
         depth |-> video.depth, sampling |-> video.sampling, colorimetry |-> video.colorimetry,
         interlaced |-> video.interlaced, max_udp |-> video.max_udp, sender_type |-> sender_type,
         tr_offset_us |-> video.tr_offset_us, cmax |-> video.cmax]
  BY <1>7, <1>8, <1>9, Zenon DEF VideoOf
<1>11. [video EXCEPT !.sender_type = sender_type] =
        [width |-> video.width, height |-> video.height, frame_rate |-> video.frame_rate,
         depth |-> video.depth, sampling |-> video.sampling, colorimetry |-> video.colorimetry,
         interlaced |-> video.interlaced, max_udp |-> video.max_udp, sender_type |-> sender_type,
         tr_offset_us |-> video.tr_offset_us, cmax |-> video.cmax]
  BY DEF Videos
<1> QED  BY <1>6, <1>10, <1>11, Zenon

(* A format line with a raster's parameters is the writer's own, and a     *)
(* line of the first video section.                                        *)
LEMMA FormatLineIs ==
    ASSUME NEW c \in Calls, NEW d, Sound(c, d), HasFormat(d),
           NEW line, line = FormatLine(d), NEW m, m = Min(VideoLines(d))
    PROVE  /\ m \in MediaLines(d) /\ m \in DOMAIN d /\ IsFirstVideo(d, m)
           /\ VideoBlock(d) = Segment(d, m)
           /\ \E i \in Owned(d, "fmtp", m) : d[i] = line
           /\ "width" \in DOMAIN line.parameters =>
                line = Fmtp(Format, MediaTypeParameters(c.video, SenderType(c)))
<1>1. PICK block : block = VideoBlock(d)
  OBVIOUS
<1>2. VideoLines(d) # {} /\ Of(block, "fmtp") # {}
  BY <1>1, Zenon DEF HasFormat
<1>3. m \in VideoLines(d) /\ m \in DOMAIN d /\ m \in MediaLines(d) /\ IsFirstVideo(d, m)
  BY <1>2, FirstVideoIs
<1>4. m # 0
  BY <1>3, SoundIs
<1>5. block = Segment(d, m)
  BY <1>1, <1>4, Zenon DEF VideoBlock, Segment
<1>6. line = block[Min(Of(block, "fmtp"))]
  BY <1>1, Zenon DEF FormatLine
<1>7. PICK i \in Owned(d, "fmtp", m) : line = d[i]
  <2>1. \E i \in Owned(d, "fmtp", m) : block[Min(Of(block, "fmtp"))] = d[i]
    BY <1>2, <1>3, <1>5, FirstIs
  <2> QED  BY <1>6, <2>1, Zenon
<1>8. line \in Lines(c) /\ line.kind = "fmtp"
  <2>1. i \in DOMAIN d /\ d[i].kind = "fmtp"
    BY DEF Owned
  <2> QED  BY <1>7, <2>1, LineOfIs
<1>9. PICK other, own : other = Fmtp(AudioFormat, [ptime |-> 1])
                        /\ own = Fmtp(Format, MediaTypeParameters(c.video, SenderType(c)))
  OBVIOUS
<1>10. line = other \/ line = own
  <2>1. line \in {Fmtp(AudioFormat, [ptime |-> 1]),
                  Fmtp(Format, MediaTypeParameters(c.video, SenderType(c)))}
    BY <1>8, KindTells
  <2> QED  BY <1>9, <2>1, Zenon
<1>11. "width" \notin DOMAIN other.parameters
  BY <1>9 DEF Fmtp
<1> QED  BY <1>1, <1>3, <1>5, <1>7, <1>9, <1>10, <1>11, Zenon

(* A document read as raw maps its payload type to raw, or to nothing.     *)
LEMMA MappingsAre ==
    ASSUME NEW c \in Calls, NEW d, Sound(c, d), HasFormat(d), FormatLine(d).format = Format,
           NEW m, m = Min(VideoLines(d)), IsRaw(d)
    PROVE  Mappings(d) = {} <=>
                ~\E i \in Owned(d, "rtpmap", m) : d[i] = Rtpmap(Format, "raw", ClockRate)
<1>1. PICK block, line : block = VideoBlock(d) /\ line = FormatLine(d)
  OBVIOUS
<1>2. m \in MediaLines(d) /\ m \in DOMAIN d /\ block = Segment(d, m)
  BY <1>1, FormatLineIs, Zenon
<1>3. PICK maps, of : maps = Mappings(d) /\ of = Of(block, "rtpmap")
  OBVIOUS
<1>4. maps = {i \in of : block[i].format = Format}
  BY <1>1, <1>3, Zenon DEF Mappings
<1>5. PICK above : above = Above(m)
  OBVIOUS
<1>6. /\ above \in Nat /\ of \subseteq Int
      /\ \A j \in of : above + j \in Owned(d, "rtpmap", m) /\ block[j] = d[above + j]
      /\ \A i \in Owned(d, "rtpmap", m) : i \in Int /\ i - above \in of
  <2>1. /\ above \in Nat /\ Of(block, "rtpmap") \subseteq Int
        /\ \A j \in Of(block, "rtpmap") :
                above + j \in Owned(d, "rtpmap", m) /\ block[j] = d[above + j]
        /\ \A i \in Owned(d, "rtpmap", m) : i \in Int /\ i - above \in Of(block, "rtpmap")
    BY <1>2, <1>5, OwnedIs
  <2> QED  BY <1>3, <2>1, Zenon
<1>7. PICK raw : raw = Rtpmap(Format, "raw", ClockRate)
  OBVIOUS
<1>8. raw.format = Format
  BY <1>7 DEF Rtpmap
<1>9. ASSUME NEW i \in Owned(d, "rtpmap", m), d[i] = raw
      PROVE  maps # {}
  <2>1. i - above \in of /\ i \in Int
    BY <1>6
  <2>2. block[i - above] = d[above + (i - above)] /\ above + (i - above) = i
    BY <1>6, <2>1
  <2>3. block[i - above].format = Format
    BY <1>8, <1>9, <2>2
  <2> QED  BY <1>4, <2>1, <2>3
<1>10. ASSUME maps # {}
       PROVE  \E i \in Owned(d, "rtpmap", m) : d[i] = raw
  <2>1. PICK j : j = Min(maps)
    OBVIOUS
  <2>2. maps \subseteq Int /\ \A x \in maps : 1 <= x
    <3>1. \A x \in of : 1 <= x
      <4>1. DOMAIN block = 1 .. Len(block) /\ Len(block) \in Nat
        BY <1>2, SegmentIs
      <4> QED  BY <1>3, <4>1 DEF Of
    <3> QED  BY <1>4, <1>6, <3>1
  <2>3. j \in maps
    <3>1. 1 \in Int
      OBVIOUS
    <3> QED  BY <1>10, <2>1, <2>2, <3>1, MinBounded
  <2>4. PICK mapping : mapping = block[j]
    OBVIOUS
  <2>5. mapping.encoding = "raw" /\ mapping.clock = ClockRate
    BY <1>1, <1>3, <1>10, <2>1, <2>4, Zenon DEF IsRaw
  <2>6. mapping.format = Format /\ j \in of
    BY <1>4, <2>3, <2>4
  <2>7. above + j \in Owned(d, "rtpmap", m) /\ mapping = d[above + j]
    BY <1>6, <2>4, <2>6
  <2>8. mapping \in Lines(c) /\ mapping.kind = "rtpmap"
    <3>1. above + j \in DOMAIN d /\ d[above + j].kind = "rtpmap"
      BY <2>7 DEF Owned
    <3> QED  BY <2>7, <3>1, LineOfIs
  <2>9. mapping \in [kind : {"rtpmap"}, format : Int, encoding : Text, clock : Int]
    BY <2>8, KindTells
  <2>10. mapping = [kind |-> "rtpmap", format |-> Format, encoding |-> "raw", clock |-> ClockRate]
    BY <2>5, <2>6, <2>9
  <2>11. mapping = raw
    BY <1>7, <2>10, Zenon DEF Rtpmap
  <2> QED  BY <2>7, <2>11
<1> QED  BY <1>3, <1>7, <1>9, <1>10, Zenon

(* The format answered is the first video's, said of a document.           *)
FormatOfTheVideo(c, d) ==
    LET read == ParseVideoFormat(d)
    IN  read # Refused =>
            /\ read.video = [c.video EXCEPT !.sender_type = SenderType(c)]
            /\ \E m \in DOMAIN d :
                    /\ IsFirstVideo(d, m)
                    /\ \E i \in Owned(d, "fmtp", m) : d[i].format = Format
                    /\ read.warned <=> ~\E i \in Owned(d, "rtpmap", m) :
                            d[i] = Rtpmap(Format, "raw", ClockRate)

LEMMA FormatIs ==
    ASSUME NEW c \in Calls, NEW d, Sound(c, d)
    PROVE  FormatOfTheVideo(c, d)
<1>1. PICK read, line, m :
        read = ParseVideoFormat(d) /\ line = FormatLine(d) /\ m = Min(VideoLines(d))
  OBVIOUS
<1> SUFFICES ASSUME read # Refused
             PROVE  /\ read.video = [c.video EXCEPT !.sender_type = SenderType(c)]
                    /\ m \in DOMAIN d /\ IsFirstVideo(d, m)
                    /\ \E i \in Owned(d, "fmtp", m) : d[i].format = Format
                    /\ read.warned <=> ~\E i \in Owned(d, "rtpmap", m) :
                            d[i] = Rtpmap(Format, "raw", ClockRate)
  BY <1>1, Zenon DEF FormatOfTheVideo
<1>2. PICK p : p = line.parameters
  OBVIOUS
<1>3. /\ HasFormat(d) /\ IsRaw(d) /\ {"width", "height", "exactframerate"} \subseteq DOMAIN p
      /\ read = [video |-> VideoOf(p), warned |-> Mappings(d) = {}]
  BY <1>1, <1>2, Zenon DEF ParseVideoFormat
<1>4. "width" \in DOMAIN p
  BY <1>3
<1>5. PICK own, parameters, sender_type :
        /\ own = Fmtp(Format, parameters)
        /\ parameters = MediaTypeParameters(c.video, sender_type)
        /\ sender_type = SenderType(c)
  OBVIOUS
<1>6. m \in DOMAIN d /\ IsFirstVideo(d, m) /\ line = own
      /\ \E i \in Owned(d, "fmtp", m) : d[i] = line
  <2>1. /\ m \in DOMAIN d /\ IsFirstVideo(d, m)
        /\ \E i \in Owned(d, "fmtp", m) : d[i] = line
        /\ "width" \in DOMAIN line.parameters =>
                line = Fmtp(Format, MediaTypeParameters(c.video, SenderType(c)))
    BY <1>1, <1>3, FormatLineIs
  <2> QED  BY <1>2, <1>4, <1>5, <2>1, Zenon
<1>7. own.format = Format /\ own.parameters = parameters
  BY <1>5 DEF Fmtp
<1>8. VideoOf(p) = [c.video EXCEPT !.sender_type = sender_type]
  <2>1. c.video \in Videos
    BY CallIs
  <2>2. p = parameters
    BY <1>2, <1>6, <1>7
  <2> QED  BY <1>5, <2>1, <2>2, VideoRoundTrips
<1>9. Mappings(d) = {} <=>
        ~\E i \in Owned(d, "rtpmap", m) : d[i] = Rtpmap(Format, "raw", ClockRate)
  <2>1. FormatLine(d).format = Format
    BY <1>1, <1>6, <1>7, Zenon
  <2> QED  BY <1>1, <1>3, <2>1, MappingsAre, Zenon
<1>10. PICK video, unmapped : video = VideoOf(p) /\ unmapped = (Mappings(d) = {})
  OBVIOUS
<1>11. read = [video |-> video, warned |-> unmapped]
  BY <1>3, <1>10, Zenon
<1>12. read.video = video /\ read.warned = unmapped
  BY <1>11
<1> QED  BY <1>5, <1>6, <1>7, <1>8, <1>9, <1>10, <1>12, Zenon

LEMMA FormatsAre == IInv => FormatIsTheVideos
<1> SUFFICES ASSUME IInv PROVE FormatIsTheVideos
  OBVIOUS
<1>1. PICK c, d : c = call /\ d = doc
  OBVIOUS
<1>2. c \in Calls /\ Sound(c, d)
  BY <1>1, Zenon DEF IInv
<1>3. FormatOfTheVideo(c, d)
  BY <1>2, FormatIs
<1>4. FormatOfTheVideo(call, doc)
  BY <1>1, <1>3, Zenon
<1> QED  BY <1>4, Zenon DEF FormatOfTheVideo, FormatIsTheVideos

(* A format that is answered is the first video section's, as the writer   *)
(* wrote it, whatever lines of another essence a document has and wherever *)
(* its own have gone; it comes with a warning exactly where no line maps   *)
(* it to raw: parse_video_format and _require_raw.                         *)
THEOREM FormatIsTheVideosHolds == Spec => []FormatIsTheVideos
<1>1. Init => IInv
  BY InitEstablishes
<1>2. IInv /\ [Next]_vars => IInv'
  BY NextPreserves
<1>3. IInv => FormatIsTheVideos
  BY FormatsAre
<1> QED  BY <1>1, <1>2, <1>3, PTL DEF Spec

-----------------------------------------------------------------------------
(* What is written is read.  Where each line of a leg is. *)

LEMMA LegKinds ==
    ASSUME NEW c \in Calls, Accepted(c), NEW i \in 1 .. Len(c.flows), NEW tag \in Text \cup {None},
           NEW leg, leg = LegOf(c, i, tag),
           NEW flow, flow = c.flows[i],
           NEW filters, filters = IF flow.source = None THEN 0 ELSE 1,
           NEW n, n = Len(leg)
    PROVE  /\ n \in Nat /\ n >= 4
           /\ Of(leg, "m") = {1} /\ Of(leg, "c") = {2}
           /\ Of(leg, "source-filter") = IF flow.source = None THEN {} ELSE {3}
           /\ Of(leg, "mid") = IF tag = None THEN {} ELSE {3 + filters}
           /\ Of(leg, "rtpmap") = {n - 1} /\ Of(leg, "fmtp") = {n}
           /\ Of(leg, "group") = {}
<1>1. PICK mids : mids = IF tag = None THEN 0 ELSE 1
  OBVIOUS
<1>2. /\ leg \in Seq(Lines(c)) /\ Len(leg) = 4 + filters + mids
      /\ leg[1] = Media("video", flow.port, Format)
      /\ leg[2] = Connection(Rendered(flow.destination))
      /\ flow.source # None => leg[3] = SourceFilter("incl", Rendered(flow.source))
      /\ tag # None => leg[3 + filters] = Mid(tag)
      /\ leg[3 + filters + mids] = Rtpmap(Format, "raw", ClockRate)
      /\ leg[4 + filters + mids] = Fmtp(Format, MediaTypeParameters(c.video, SenderType(c)))
  <2>1. LaidOut(c, leg, flow, tag, filters, mids)
    BY <1>1, LegOfIs, Zenon
  <2> QED  BY <2>1, Zenon DEF LaidOut
<1>3. /\ leg[1].kind = "m" /\ leg[2].kind = "c"
      /\ flow.source # None => leg[3].kind = "source-filter"
      /\ tag # None => leg[3 + filters].kind = "mid"
      /\ leg[3 + filters + mids].kind = "rtpmap" /\ leg[4 + filters + mids].kind = "fmtp"
  <2> HIDE DEF MediaTypeParameters
  <2> QED  BY <1>2 DEF Media, Connection, SourceFilter, Mid, Rtpmap, Fmtp
<1>4. filters \in {0, 1} /\ mids \in {0, 1} /\ (filters = 0 <=> flow.source = None)
      /\ (mids = 0 <=> tag = None)
  BY <1>1
<1>5. DOMAIN leg = 1 .. n /\ n = 4 + filters + mids /\ n \in Nat
  <2>1. DOMAIN leg = 1 .. Len(leg)
    BY <1>2
  <2> QED  BY <1>2, <1>4, <2>1
<1>6. PICK kinds : kinds = [j \in 1 .. n |-> leg[j].kind]
  OBVIOUS
<1>7. \A kind : Of(leg, kind) = {j \in 1 .. n : kinds[j] = kind}
  BY <1>5, <1>6 DEF Of
<1>8. \A j \in 1 .. n :
        \/ j = 1 /\ kinds[j] = "m"
        \/ j = 2 /\ kinds[j] = "c"
        \/ j = 3 /\ filters = 1 /\ kinds[j] = "source-filter"
        \/ j = 3 + filters /\ mids = 1 /\ kinds[j] = "mid"
        \/ j = n - 1 /\ kinds[j] = "rtpmap"
        \/ j = n /\ kinds[j] = "fmtp"
  <2> TAKE j \in 1 .. n
  <2>1. kinds[j] = leg[j].kind
    BY <1>6
  <2>2. \/ j = 1 \/ j = 2
        \/ j = 3 /\ filters = 1
        \/ j = 3 + filters /\ mids = 1
        \/ j = 3 + filters + mids
        \/ j = 4 + filters + mids
    BY <1>4, <1>5
  <2>3. n - 1 = 3 + filters + mids /\ n = 4 + filters + mids
    BY <1>4, <1>5
  <2> QED  BY <1>3, <1>4, <2>1, <2>2, <2>3
<1>9. 1 \in 1 .. n /\ 2 \in 1 .. n /\ (filters = 1 => 3 \in 1 .. n)
      /\ (mids = 1 => 3 + filters \in 1 .. n) /\ n - 1 \in 1 .. n /\ n \in 1 .. n
  BY <1>4, <1>5
<1>10. /\ kinds[1] = "m" /\ kinds[2] = "c" /\ (filters = 1 => kinds[3] = "source-filter")
       /\ (mids = 1 => kinds[3 + filters] = "mid") /\ kinds[n - 1] = "rtpmap" /\ kinds[n] = "fmtp"
  <2>1. n - 1 = 3 + filters + mids /\ n = 4 + filters + mids
    BY <1>4, <1>5
  <2>2. kinds[n - 1] = leg[3 + filters + mids].kind /\ kinds[n] = leg[4 + filters + mids].kind
    BY <1>6, <1>9, <2>1
  <2>3. /\ kinds[1] = leg[1].kind /\ kinds[2] = leg[2].kind
        /\ (filters = 1 => kinds[3] = leg[3].kind)
        /\ (mids = 1 => kinds[3 + filters] = leg[3 + filters].kind)
    BY <1>6, <1>9
  <2> QED  BY <1>3, <1>4, <2>2, <2>3
<1>11. Of(leg, "m") = {1} /\ Of(leg, "c") = {2} /\ Of(leg, "group") = {}
  BY <1>7, <1>8, <1>9, <1>10
<1>12. Of(leg, "rtpmap") = {n - 1} /\ Of(leg, "fmtp") = {n}
  BY <1>7, <1>8, <1>9, <1>10
<1>13. Of(leg, "source-filter") = IF flow.source = None THEN {} ELSE {3}
  BY <1>4, <1>7, <1>8, <1>9, <1>10
<1>14. Of(leg, "mid") = IF tag = None THEN {} ELSE {3 + filters}
  BY <1>4, <1>7, <1>8, <1>9, <1>10
<1>15. n >= 4
  BY <1>4, <1>5
<1> QED  BY <1>5, <1>11, <1>12, <1>13, <1>14, <1>15

(* A set of one is its own greatest and least. *)
LEMMA OnlyOne ==
    ASSUME NEW x \in Int
    PROVE  Max({x}) = x /\ Min({x}) = x
<1>1. {x} \subseteq Int /\ x \in {x} /\ (\A y \in {x} : y <= x) /\ (\A y \in {x} : x <= y)
  OBVIOUS
<1> QED  BY <1>1, MaxIs, MinIs

(* A leg is read as the flow it was written from, tag and format with it.  *)
ReadsAs(c, leg, session, flow, tag) ==
    /\ leg[1].port = flow.port /\ leg[1].media = "video"
    /\ Either(Attribute(leg, "c", Address), Attribute(session, "c", Address))
         = Rendered(flow.destination)
    /\ Either(Attribute(leg, "source-filter", Source),
              Attribute(session, "source-filter", Source)) = Rendered(flow.source)
    /\ Attribute(leg, "mid", Tag) = tag
    /\ leg[Min(Of(leg, "fmtp"))] = Fmtp(Format, MediaTypeParameters(c.video, SenderType(c)))
    /\ \E j \in Nat : /\ Of(leg, "rtpmap") = {j}
                      /\ leg[j] = Rtpmap(Format, "raw", ClockRate)

LEMMA LegReads ==
    ASSUME NEW c \in Calls, Accepted(c), NEW i \in 1 .. Len(c.flows), NEW tag \in Text \cup {None},
           NEW leg, leg = LegOf(c, i, tag),
           NEW flow, flow = c.flows[i],
           NEW session, Of(session, "source-filter") = {}
    PROVE  ReadsAs(c, leg, session, flow, tag)
<1>1. PICK filters : filters = IF flow.source = None THEN 0 ELSE 1
  OBVIOUS
<1>2. PICK mids : mids = IF tag = None THEN 0 ELSE 1
  OBVIOUS
<1>3. PICK n : n = Len(leg)
  OBVIOUS
<1>4. /\ n \in Nat /\ n >= 4
      /\ Of(leg, "c") = {2}
      /\ Of(leg, "source-filter") = IF flow.source = None THEN {} ELSE {3}
      /\ Of(leg, "mid") = IF tag = None THEN {} ELSE {3 + filters}
      /\ Of(leg, "rtpmap") = {n - 1} /\ Of(leg, "fmtp") = {n}
  BY <1>1, <1>3, LegKinds
<1>5. /\ n = 4 + filters + mids
      /\ leg[1] = Media("video", flow.port, Format)
      /\ leg[2] = Connection(Rendered(flow.destination))
      /\ flow.source # None => leg[3] = SourceFilter("incl", Rendered(flow.source))
      /\ tag # None => leg[3 + filters] = Mid(tag)
      /\ leg[3 + filters + mids] = Rtpmap(Format, "raw", ClockRate)
      /\ leg[4 + filters + mids] = Fmtp(Format, MediaTypeParameters(c.video, SenderType(c)))
      /\ flow \in Flows
  <2>1. LaidOut(c, leg, flow, tag, filters, mids)
    BY <1>1, <1>2, LegOfIs, Zenon
  <2> QED  BY <1>3, <2>1, Zenon DEF LaidOut
<1>6. filters \in {0, 1} /\ mids \in {0, 1}
  BY <1>1, <1>2
<1>7. leg[1].port = flow.port /\ leg[1].media = "video"
  BY <1>5 DEF Media
<1>8. PICK destination, source :
        destination = Rendered(flow.destination) /\ source = Rendered(flow.source)
  OBVIOUS
<1>9. destination # None /\ (source = None <=> flow.source = None)
  <2>1. flow.destination \in Addresses /\ flow.source \in Addresses \cup {None}
    BY <1>5 DEF Flows
  <2> QED  BY <1>8, <2>1, RenderedIs, RenderedOrNone, OffersAssumption
<1>10. Attribute(leg, "c", Address) = destination
  <2>1. Max({2}) = 2 /\ {2} # {}
    BY OnlyOne
  <2>2. leg[2].address = destination
    BY <1>5, <1>8 DEF Connection
  <2> QED  BY <1>4, <2>1, <2>2, Zenon DEF Attribute, Address
<1>11. Either(Attribute(leg, "c", Address), Attribute(session, "c", Address)) = destination
  BY <1>9, <1>10, Zenon DEF Either
<1>12. Attribute(session, "source-filter", Source) = None
  BY Zenon DEF Attribute
<1>13. Attribute(leg, "source-filter", Source) = source
  <2>1. CASE flow.source = None
    BY <1>4, <1>9, <2>1, Zenon DEF Attribute
  <2>2. CASE flow.source # None
    <3>1. Max({3}) = 3 /\ {3} # {}
      BY OnlyOne
    <3>2. PICK line : line = leg[3]
      OBVIOUS
    <3>3. line.mode = "incl" /\ line.source = source
      BY <1>5, <1>8, <2>2, <3>2 DEF SourceFilter
    <3> QED  BY <1>4, <2>2, <3>1, <3>2, <3>3, Zenon DEF Attribute, Source
  <2> QED  BY <2>1, <2>2
<1>14. Either(Attribute(leg, "source-filter", Source),
              Attribute(session, "source-filter", Source)) = source
  BY <1>12, <1>13, Zenon DEF Either
<1>15. Attribute(leg, "mid", Tag) = tag
  <2>1. CASE tag = None
    BY <1>4, <2>1, Zenon DEF Attribute
  <2>2. CASE tag # None
    <3>1. PICK k \in Int : k = 3 + filters
      BY <1>6
    <3>2. Max({k}) = k /\ {k} # {}
      BY OnlyOne
    <3>3. leg[k].tag = tag
      BY <1>5, <2>2, <3>1 DEF Mid
    <3> QED  BY <1>4, <2>2, <3>1, <3>2, <3>3, Zenon DEF Attribute, Tag
  <2> QED  BY <2>1, <2>2
<1>16. leg[Min(Of(leg, "fmtp"))] = Fmtp(Format, MediaTypeParameters(c.video, SenderType(c)))
  <2>1. n \in Int
    BY <1>4
  <2>2. Min({n}) = n
    BY <2>1, OnlyOne, Zenon
  <2> QED  BY <1>4, <1>5, <2>2, Zenon
<1>17. \E j \in Nat : Of(leg, "rtpmap") = {j} /\ leg[j] = Rtpmap(Format, "raw", ClockRate)
  <2>1. n - 1 = 3 + filters + mids /\ n - 1 \in Nat
    BY <1>4, <1>5, <1>6
  <2> QED  BY <1>4, <1>5, <2>1, Zenon
<1> QED  BY <1>7, <1>8, <1>11, <1>14, <1>15, <1>16, <1>17, Zenon DEF ReadsAs

(* Where a section is, by where the next one begins. *)
LEMMA EndsAre ==
    ASSUME NEW S, NEW d \in Seq(S), NEW m \in 0 .. Len(d), NEW e \in Int, m < e,
           e \in MediaLines(d) \cup {Len(d) + 1}, \A x \in MediaLines(d) : x > m => e <= x
    PROVE  Ends(d, m) = e
<1>1. MediaLines(d) \subseteq 1 .. Len(d) /\ Len(d) \in Nat
  BY DEF MediaLines
<1>2. PICK f : f = Ends(d, m)
  OBVIOUS
<1>3. /\ f \in m + 1 .. Len(d) + 1 /\ f \in MediaLines(d) \cup {Len(d) + 1}
      /\ \A i \in MediaLines(d) : i > m => f <= i
  BY <1>2, EndsIs
<1>4. f <= e /\ e <= f
  BY <1>1, <1>3
<1>5. f \in Int
  BY <1>1, <1>3
<1> QED  BY <1>2, <1>4, <1>5

LEMMA SameSeq ==
    ASSUME NEW S, NEW s \in Seq(S), NEW t \in Seq(S), Len(s) = Len(t),
           \A i \in 1 .. Len(t) : s[i] = t[i]
    PROVE  s = t
  OBVIOUS

(* The lines of a leg are the document's from one line on. *)
Below(d, above, leg, n) == \A j \in 1 .. n : d[above + j] = leg[j]

LEMMA BlockEquals ==
    ASSUME NEW S, NEW d \in Seq(S), NEW leg \in Seq(S), NEW n \in Nat, n = Len(leg),
           NEW m \in 1 .. Len(d), NEW above \in Nat, above = m - 1, NEW e, e = m + n,
           Ends(d, m) = e, Below(d, above, leg, n)
    PROVE  Block(d, m) = leg
<1>1. PICK block : block = Block(d, m)
  OBVIOUS
<1>2. /\ block \in Seq(S) /\ Len(block) = m + n - m
      /\ \A i \in 1 .. m + n - m : block[i] = d[m + i - 1]
  <2>1. /\ block \in Seq(S) /\ Len(block) = Ends(d, m) - m
        /\ \A i \in 1 .. Ends(d, m) - m : block[i] = d[m + i - 1]
    BY <1>1, BlockIs
  <2> QED  BY <2>1
<1>3. m + n - m = n /\ \A i \in 1 .. n : m + i - 1 = above + i
  OBVIOUS
<1>4. Len(block) = n /\ \A i \in 1 .. n : block[i] = leg[i]
  BY <1>2, <1>3 DEF Below
<1>5. block \in Seq(S)
  BY <1>2
<1>6. block = leg
  BY <1>4, <1>5, SameSeq
<1> QED  BY <1>1, <1>6

(* The parts of an offer of one flow: no media line in its top, no group   *)
(* and no sender there, and one section.                                   *)
LEMMA SingleParts ==
    ASSUME NEW c \in Calls, Accepted(c), Len(c.flows) = 1,
           NEW d, d = Offer(c, Format), NEW leg, leg = LegOf(c, 1, None)
    PROVE  /\ VideoLines(d) = {5} /\ Block(d, 5) = leg
           /\ Of(Session(d), "group") = {} /\ Of(Session(d), "source-filter") = {}
<1>1. /\ d \in Seq(Lines(c)) /\ Len(d) = 4 + Len(leg)
      /\ \A i \in 1 .. 4 : d[i] = Top[i]
      /\ \A i \in 1 .. Len(leg) : d[4 + i] = leg[i]
  BY SingleOfferIs
<1>2. leg \in Seq(Lines(c))
  BY LegOfTyped
<1>3. PICK n \in Nat : n = Len(leg)
  BY <1>2
<1>4. n >= 4 /\ Of(leg, "m") = {1} /\ leg[1].media = "video"
  <2>1. PICK flow : flow = c.flows[1]
    OBVIOUS
  <2>2. PICK filters : filters = IF flow.source = None THEN 0 ELSE 1
    OBVIOUS
  <2>3. n >= 4 /\ Of(leg, "m") = {1}
    <3>1. 1 \in 1 .. Len(c.flows)
      OBVIOUS
    <3> QED  BY <1>3, <2>1, <2>2, <3>1, LegKinds
  <2>4. Of(<< >>, "source-filter") = {}
    BY DEF Of
  <2>5. PICK empty : empty = << >>
    OBVIOUS
  <2>6. leg[1].media = "video"
    <3>1. 1 \in 1 .. Len(c.flows) /\ None \in Text \cup {None}
      OBVIOUS
    <3>2. ReadsAs(c, leg, empty, flow, None)
      BY <2>1, <2>4, <2>5, <3>1, LegReads, Zenon
    <3> QED  BY <3>2, Zenon DEF ReadsAs
  <2> QED  BY <2>3, <2>6
<1>5. /\ Len(d) = 4 + n /\ DOMAIN d = 1 .. 4 + n
      /\ \A i \in 1 .. 4 : d[i].kind \in {"v", "o", "s", "t"}
      /\ \A i \in 1 .. n : d[4 + i] = leg[i]
  <2>1. \A i \in 1 .. 4 : Top[i].kind \in {"v", "o", "s", "t"}
    BY TopIs
  <2> QED  BY <1>1, <1>3, <2>1
<1>6. \A i \in 1 .. n : leg[i].kind = "m" <=> i = 1
  <2>1. DOMAIN leg = 1 .. n
    BY <1>2, <1>3
  <2> QED  BY <1>4, <2>1 DEF Of
<1>7. MediaLines(d) = {5}
  <2>1. \A i \in DOMAIN d : d[i].kind = "m" <=> i = 5
    <3> TAKE i \in DOMAIN d
    <3>1. CASE i <= 4
      BY <1>5, <3>1
    <3>2. CASE i > 4
      <4>1. i - 4 \in 1 .. n /\ 4 + (i - 4) = i
        BY <1>5, <3>2
      <4>2. d[i] = leg[i - 4]
        BY <1>5, <4>1
      <4>3. d[i].kind = "m" <=> i - 4 = 1
        BY <1>6, <4>1, <4>2
      <4> QED  BY <1>5, <4>3
    <3> QED  BY <1>5, <3>1, <3>2
  <2>2. 5 \in DOMAIN d
    BY <1>4, <1>5
  <2> QED  BY <2>1, <2>2 DEF MediaLines
<1>8. VideoLines(d) = {5}
  <2>1. d[4 + 1] = leg[1]
    BY <1>4, <1>5
  <2> QED  BY <1>4, <1>7, <2>1 DEF VideoLines
<1>9. Block(d, 5) = leg
  <2>1. Ends(d, 5) = 5 + n
    <3>1. 5 \in 0 .. Len(d) /\ 5 + n \in Int /\ 5 < 5 + n /\ Len(d) + 1 = 5 + n
      BY <1>4, <1>5
    <3>2. \A x \in MediaLines(d) : x > 5 => 5 + n <= x
      BY <1>7
    <3> QED  BY <1>1, <3>1, <3>2, EndsAre
  <2>2. PICK m, above : m = 5 /\ above = 4
    OBVIOUS
  <2>3. m \in 1 .. Len(d) /\ above \in Nat /\ above = m - 1
    BY <1>4, <1>5, <2>2
  <2>4. Below(d, above, leg, n)
    BY <1>5, <2>2, Zenon DEF Below
  <2>5. PICK e : e = m + n /\ Ends(d, m) = e
    BY <2>1, <2>2
  <2>6. Block(d, m) = leg
    <3>1. d \in Seq(Lines(c)) /\ leg \in Seq(Lines(c)) /\ n \in Nat /\ n = Len(leg)
      BY <1>1, <1>2, <1>3
    <3> QED  BY ONLY <3>1, <2>3, <2>4, <2>5, BlockEquals
  <2> QED  BY <2>2, <2>6
<1>10. /\ Len(Session(d)) = 4 /\ DOMAIN Session(d) = 1 .. 4
       /\ \A i \in 1 .. 4 : Session(d)[i] = d[i]
  <2>1. Ends(d, 0) = 5
    <3>1. 0 \in 0 .. Len(d) /\ 5 \in Int /\ 0 < 5
      BY <1>5
    <3>2. 5 \in MediaLines(d) /\ \A x \in MediaLines(d) : x > 0 => 5 <= x
      BY <1>7
    <3> QED  BY <1>1, <3>1, <3>2, EndsAre
  <2>2. /\ Session(d) \in Seq(Lines(c)) /\ Len(Session(d)) = Ends(d, 0) - 1
        /\ \A i \in 1 .. Ends(d, 0) - 1 : Session(d)[i] = d[i]
    BY <1>1, SessionIs
  <2>3. Ends(d, 0) - 1 = 4
    BY <2>1
  <2> QED  BY <2>2, <2>3
<1>11. Of(Session(d), "group") = {} /\ Of(Session(d), "source-filter") = {}
  BY <1>5, <1>10 DEF Of
<1> QED  BY <1>8, <1>9, <1>11

(* The parts of an offer of two: the pair's group in its session, and the  *)
(* two sections one after the other.                                       *)
LEMMA PairedParts ==
    ASSUME NEW c \in Calls, Accepted(c), Len(c.flows) = 2,
           NEW d, d = Offer(c, Format),
           NEW one, one = LegOf(c, 1, DupTags[1]), NEW two, two = LegOf(c, 2, DupTags[2])
    PROVE  /\ Of(Session(d), "source-filter") = {}
           /\ Of(Session(d), "group") = {5} /\ d[5] = Group("DUP", DupTags)
           /\ \E k \in Nat : /\ k > 6 /\ VideoLines(d) = {6, k}
                             /\ Block(d, 6) = one /\ Block(d, k) = two
<1>0. DupTags[1] \in Text /\ DupTags[2] \in Text
  <2>1. DupTags[1] \in ToSet(DupTags) /\ DupTags[2] \in ToSet(DupTags)
    BY DEF ToSet, DupTags
  <2> QED  BY <2>1, OffersAssumption, Zenon
<1>1. /\ d \in Seq(Lines(c)) /\ Len(d) = 5 + Len(one) + Len(two)
      /\ \A i \in 1 .. 4 : d[i] = Top[i]
      /\ d[5] = Group("DUP", DupTags)
      /\ \A i \in 1 .. Len(one) : d[5 + i] = one[i]
      /\ \A i \in 1 .. Len(two) : d[5 + Len(one) + i] = two[i]
  BY PairedOfferIs
<1>2. one \in Seq(Lines(c)) /\ two \in Seq(Lines(c))
  <2>1. 1 \in 1 .. Len(c.flows) /\ 2 \in 1 .. Len(c.flows)
    OBVIOUS
  <2>2. DupTags[1] \in Text \cup {None} /\ DupTags[2] \in Text \cup {None}
    BY <1>0
  <2> QED  BY <2>1, <2>2, LegOfTyped, Zenon
<1>3. PICK m \in Nat, n \in Nat : m = Len(one) /\ n = Len(two)
  BY <1>2
<1>4. ASSUME NEW i \in 1 .. 2, NEW tag \in Text, NEW leg, leg = LegOf(c, i, tag)
      PROVE  Len(leg) >= 4 /\ Of(leg, "m") = {1} /\ leg[1].media = "video"
  <2>1. PICK flow, empty : flow = c.flows[i] /\ empty = << >>
    OBVIOUS
  <2>2. PICK filters : filters = IF flow.source = None THEN 0 ELSE 1
    OBVIOUS
  <2>3. i \in 1 .. Len(c.flows) /\ tag \in Text \cup {None}
    OBVIOUS
  <2>4. Len(leg) >= 4 /\ Of(leg, "m") = {1}
    BY <1>4, <2>1, <2>2, <2>3, LegKinds
  <2>5. Of(empty, "source-filter") = {}
    BY <2>1 DEF Of
  <2>6. ReadsAs(c, leg, empty, flow, tag)
    BY <1>4, <2>1, <2>3, <2>5, LegReads, Zenon
  <2> QED  BY <2>4, <2>6, Zenon DEF ReadsAs
<1>5. /\ m >= 4 /\ Of(one, "m") = {1} /\ one[1].media = "video"
      /\ n >= 4 /\ Of(two, "m") = {1} /\ two[1].media = "video"
  <2>1. 1 \in 1 .. 2 /\ 2 \in 1 .. 2
    OBVIOUS
  <2> QED  BY <1>0, <1>3, <1>4, <2>1, Zenon
<1>6. /\ Len(d) = 5 + m + n /\ DOMAIN d = 1 .. 5 + m + n
      /\ \A i \in 1 .. m : d[5 + i] = one[i]
      /\ \A i \in 1 .. n : d[5 + m + i] = two[i]
  <2>1. Len(d) = 5 + m + n
    BY <1>1, <1>3, Zenon
  <2>2. DOMAIN d = 1 .. Len(d)
    BY <1>1
  <2> QED  BY <1>1, <1>3, <2>1, <2>2, Zenon
<1>7. \A i \in 1 .. 5 : d[i].kind \in {"v", "o", "s", "t", "group"} /\ (d[i].kind = "group" <=> i = 5)
  <2>1. d[5].kind = "group"
    BY <1>1 DEF Group
  <2>2. \A i \in 1 .. 4 : Top[i].kind \in {"v", "o", "s", "t"}
    BY TopIs
  <2>3. \A i \in 1 .. 4 : d[i].kind \in {"v", "o", "s", "t"}
    BY <1>1, <2>2
  <2> QED  BY <2>1, <2>3
<1>8. /\ \A i \in 1 .. m : one[i].kind = "m" <=> i = 1
      /\ \A i \in 1 .. n : two[i].kind = "m" <=> i = 1
  <2>1. DOMAIN one = 1 .. m /\ DOMAIN two = 1 .. n
    BY <1>2, <1>3
  <2> QED  BY <1>5, <2>1 DEF Of
<1>9. PICK k \in Nat : k = 6 + m
  OBVIOUS
<1>10. MediaLines(d) = {6, k}
  <2>1. \A i \in DOMAIN d : d[i].kind = "m" <=> i = 6 \/ i = k
    <3> TAKE i \in DOMAIN d
    <3>1. CASE i <= 5
      BY <1>5, <1>6, <1>7, <1>9, <3>1
    <3>2. CASE i > 5 /\ i <= 5 + m
      <4>1. i - 5 \in 1 .. m /\ 5 + (i - 5) = i
        BY <1>6, <3>2
      <4>2. d[i] = one[i - 5]
        BY <1>6, <4>1
      <4>3. d[i].kind = "m" <=> i - 5 = 1
        BY <1>8, <4>1, <4>2
      <4> QED  BY <1>6, <1>9, <3>2, <4>3
    <3>3. CASE i > 5 + m
      <4>1. i - (5 + m) \in 1 .. n /\ 5 + m + (i - (5 + m)) = i
        BY <1>6, <3>3
      <4>2. d[i] = two[i - (5 + m)]
        BY <1>6, <4>1
      <4>3. d[i].kind = "m" <=> i - (5 + m) = 1
        BY <1>8, <4>1, <4>2
      <4> QED  BY <1>5, <1>6, <1>9, <3>3, <4>3
    <3> QED  BY <1>6, <3>1, <3>2, <3>3
  <2>2. 6 \in DOMAIN d /\ k \in DOMAIN d
    BY <1>5, <1>6, <1>9
  <2> QED  BY <2>1, <2>2 DEF MediaLines
<1>11. VideoLines(d) = {6, k}
  <2>1. d[5 + 1] = one[1] /\ d[5 + m + 1] = two[1] /\ 5 + 1 = 6 /\ 5 + m + 1 = k
    BY <1>5, <1>6, <1>9
  <2>2. d[6].media = "video" /\ d[k].media = "video"
    BY <1>5, <2>1
  <2> QED  BY <1>10, <2>2 DEF VideoLines
<1>12. Block(d, 6) = one
  <2>1. PICK six, above : six = 6 /\ above = 5
    OBVIOUS
  <2>2. Ends(d, six) = six + m
    <3>1. six \in 0 .. Len(d) /\ six + m \in Int /\ six < six + m /\ six + m = k
      BY <1>5, <1>6, <1>9, <2>1
    <3>2. k \in MediaLines(d) /\ \A x \in MediaLines(d) : x > six => k <= x
      BY <1>10, <2>1, <1>9
    <3> QED  BY <1>1, <3>1, <3>2, EndsAre
  <2>3. six \in 1 .. Len(d) /\ above \in Nat /\ above = six - 1
    BY <1>5, <1>6, <2>1
  <2>4. Below(d, above, one, m)
    BY <1>6, <2>1, Zenon DEF Below
  <2>5. PICK e : e = six + m /\ Ends(d, six) = e
    BY <2>2
  <2>6. Block(d, six) = one
    <3>1. d \in Seq(Lines(c)) /\ one \in Seq(Lines(c)) /\ m \in Nat /\ m = Len(one)
      BY <1>1, <1>2, <1>3
    <3> QED  BY ONLY <3>1, <2>3, <2>4, <2>5, BlockEquals
  <2> QED  BY <2>1, <2>6
<1>13. Block(d, k) = two
  <2>1. PICK above : above = 5 + m
    OBVIOUS
  <2>2. Ends(d, k) = k + n
    <3>1. k \in 0 .. Len(d) /\ k + n \in Int /\ k < k + n /\ k + n = Len(d) + 1
      <4>1. Len(d) = 5 + m + n /\ n >= 4
        BY <1>5, <1>6
      <4> QED  BY ONLY <4>1, <1>9, k \in Nat, m \in Nat, n \in Nat
    <3>2. \A x \in MediaLines(d) : x > k => k + n <= x
      <4>1. ~(6 > k) /\ ~(k > k)
        BY <1>5, <1>9
      <4>2. \A x \in MediaLines(d) : x = 6 \/ x = k
        BY <1>10
      <4> QED  BY <4>1, <4>2
    <3> QED  BY <1>1, <3>1, <3>2, EndsAre
  <2>3. k \in 1 .. Len(d) /\ above \in Nat /\ above = k - 1
    BY <1>5, <1>6, <1>9, <2>1
  <2>4. Below(d, above, two, n)
    BY <1>6, <2>1, Zenon DEF Below
  <2>5. PICK e : e = k + n /\ Ends(d, k) = e
    BY <2>2
  <2>6. Block(d, k) = two
    <3>1. d \in Seq(Lines(c)) /\ two \in Seq(Lines(c)) /\ n \in Nat /\ n = Len(two)
      BY <1>1, <1>2, <1>3
    <3> QED  BY ONLY <3>1, <2>3, <2>4, <2>5, BlockEquals
  <2> QED  BY <2>6
<1>14. /\ Len(Session(d)) = 5 /\ DOMAIN Session(d) = 1 .. 5
       /\ \A i \in 1 .. 5 : Session(d)[i] = d[i]
  <2>1. Ends(d, 0) = 6
    <3>1. 0 \in 0 .. Len(d) /\ 6 \in Int /\ 0 < 6
      BY <1>6
    <3>2. 6 \in MediaLines(d) /\ \A x \in MediaLines(d) : x > 0 => 6 <= x
      BY <1>9, <1>10
    <3> QED  BY <1>1, <3>1, <3>2, EndsAre
  <2>2. /\ Session(d) \in Seq(Lines(c)) /\ Len(Session(d)) = Ends(d, 0) - 1
        /\ \A i \in 1 .. Ends(d, 0) - 1 : Session(d)[i] = d[i]
    BY <1>1, SessionIs
  <2>3. Ends(d, 0) - 1 = 5
    BY <2>1
  <2> QED  BY <2>2, <2>3
<1>15. Of(Session(d), "group") = {5} /\ Of(Session(d), "source-filter") = {}
  BY <1>7, <1>14 DEF Of
<1>16. k > 6
  BY <1>5, <1>9
<1> QED  BY <1>1, <1>11, <1>12, <1>13, <1>15, <1>16, Zenon

LEMMA AsRenderedIs ==
    ASSUME NEW flow \in Flows
    PROVE  AsRendered(flow) = [destination |-> Rendered(flow.destination), port |-> flow.port,
                               source |-> Rendered(flow.source)]
<1>1. PICK destination, source :
        destination = Rendered(flow.destination) /\ source = Rendered(flow.source)
  OBVIOUS
<1>2. AsRendered(flow) = [flow EXCEPT !.destination = destination, !.source = source]
  <2>1. [flow EXCEPT !.destination = destination].source = flow.source
    BY DEF Flows
  <2> QED  BY <1>1, <2>1 DEF AsRendered
<1>3. [flow EXCEPT !.destination = destination, !.source = source]
        = [destination |-> destination, port |-> flow.port, source |-> source]
  <2>1. PICK moved : moved = [destination |-> destination, port |-> flow.port, source |-> flow.source]
    OBVIOUS
  <2>2. [flow EXCEPT !.destination = destination] = moved
    BY <2>1 DEF Flows
  <2>3. [moved EXCEPT !.source = source]
            = [destination |-> destination, port |-> flow.port, source |-> source]
    BY <2>1
  <2> QED  BY <2>2, <2>3, Zenon
<1> QED  BY <1>1, <1>2, <1>3, Zenon

(* A section that is a written leg is read as its flow and its tag. *)
IsLegsSection(c, i, tag, section) ==
    FlowOf(section) = AsRendered(c.flows[i]) /\ Usable(section) /\ section.mid = tag

LEMMA SectionReads ==
    ASSUME NEW c \in Calls, Accepted(c), NEW i \in 1 .. Len(c.flows), NEW tag \in Text \cup {None},
           NEW d, NEW m \in VideoLines(d), Block(d, m) = LegOf(c, i, tag),
           Of(Session(d), "source-filter") = {},
           NEW section, section = VideoSections(d)[m]
    PROVE  IsLegsSection(c, i, tag, section)
<1>1. PICK leg, flow, session : leg = LegOf(c, i, tag) /\ flow = c.flows[i] /\ session = Session(d)
  OBVIOUS
<1>2. ReadsAs(c, leg, session, flow, tag)
  BY <1>1, LegReads, Zenon
<1>3. section = [port |-> leg[1].port,
                 connection |-> Either(Attribute(leg, "c", Address), Attribute(session, "c", Address)),
                 source |-> Either(Attribute(leg, "source-filter", Source),
                                   Attribute(session, "source-filter", Source)),
                 mid |-> Attribute(leg, "mid", Tag)]
  BY <1>1, Zenon DEF VideoSections
<1>4. PICK destination, source :
        destination = Rendered(flow.destination) /\ source = Rendered(flow.source)
  OBVIOUS
<1>5. section = [port |-> flow.port, connection |-> destination, source |-> source, mid |-> tag]
  BY <1>2, <1>3, <1>4, Zenon DEF ReadsAs
<1>6. flow \in Flows /\ flow.port \in 1 .. MaxPort
  <2>1. PICK filters : filters = IF flow.source = None THEN 0 ELSE 1
    OBVIOUS
  <2>2. PICK mids : mids = IF tag = None THEN 0 ELSE 1
    OBVIOUS
  <2>3. LaidOut(c, leg, flow, tag, filters, mids)
    BY <1>1, <2>1, <2>2, LegOfIs, Zenon
  <2> QED  BY <2>3, Zenon DEF LaidOut
<1>7. destination # None
  <2>1. flow.destination \in Addresses
    BY <1>6 DEF Flows
  <2> QED  BY <1>4, <2>1, RenderedIs, OffersAssumption
<1>8. /\ section.port = flow.port /\ section.connection = destination
      /\ section.source = source /\ section.mid = tag
  BY <1>5
<1>9. FlowOf(section) = [destination |-> destination, port |-> flow.port, source |-> source]
  BY <1>8, Zenon DEF FlowOf
<1>10. AsRendered(flow) = [destination |-> destination, port |-> flow.port, source |-> source]
  BY <1>4, <1>6, AsRenderedIs, Zenon
<1>11. Usable(section)
  BY <1>6, <1>7, <1>8, OffersAssumption DEF Usable
<1> QED  BY <1>1, <1>8, <1>9, <1>10, <1>11, Zenon DEF IsLegsSection

(* A document whose first video section is a written leg has its format.   *)
LEMMA FormatReadsBack ==
    ASSUME NEW c \in Calls, Accepted(c), NEW i \in 1 .. Len(c.flows), NEW tag \in Text \cup {None},
           NEW d, VideoLines(d) # {}, Block(d, Min(VideoLines(d))) = LegOf(c, i, tag)
    PROVE  ParseVideoFormat(d) =
               [video |-> [c.video EXCEPT !.sender_type = SenderType(c)], warned |-> FALSE]
<1>1. PICK leg, flow, empty :
        leg = LegOf(c, i, tag) /\ flow = c.flows[i] /\ empty = << >>
  OBVIOUS
<1>2. PICK filters : filters = IF flow.source = None THEN 0 ELSE 1
  OBVIOUS
<1>3. PICK n : n = Len(leg)
  OBVIOUS
<1>4. ReadsAs(c, leg, empty, flow, tag)
  <2>1. Of(empty, "source-filter") = {}
    BY <1>1 DEF Of
  <2> QED  BY <1>1, <2>1, LegReads, Zenon
<1>5. Of(leg, "fmtp") # {}
  <2>1. Of(leg, "fmtp") = {n}
    BY <1>1, <1>2, <1>3, LegKinds
  <2> QED  BY <2>1
<1>6. VideoBlock(d) = leg
  BY <1>1, Zenon DEF VideoBlock
<1>7. PICK p, sender_type, line :
        /\ sender_type = SenderType(c)
        /\ p = MediaTypeParameters(c.video, sender_type)
        /\ line = Fmtp(Format, p)
  OBVIOUS
<1>8. FormatLine(d) = line
  BY <1>4, <1>6, <1>7, Zenon DEF FormatLine, ReadsAs
<1>9. line.parameters = p /\ line.format = Format
  BY <1>7 DEF Fmtp
<1>10. HasFormat(d)
  BY <1>5, <1>6, Zenon DEF HasFormat
<1>11. PICK j \in Nat : Of(leg, "rtpmap") = {j} /\ leg[j] = Rtpmap(Format, "raw", ClockRate)
  BY <1>4, Zenon DEF ReadsAs
<1>12. PICK mapping : mapping = leg[j]
  OBVIOUS
<1>13. mapping.format = Format /\ mapping.encoding = "raw" /\ mapping.clock = ClockRate
  BY <1>11, <1>12 DEF Rtpmap
<1>14. Mappings(d) = {j}
  <2>1. Mappings(d) = {x \in {j} : leg[x].format = Format}
    BY <1>6, <1>8, <1>9, <1>11, Zenon DEF Mappings
  <2> QED  BY <1>12, <1>13, <2>1
<1>15. IsRaw(d)
  <2>1. j \in Int
    OBVIOUS
  <2>2. Min({j}) = j
    BY <2>1, OnlyOne, Zenon
  <2> QED  BY <1>6, <1>12, <1>13, <1>14, <2>2, Zenon DEF IsRaw
<1>16. PICK video : video = [c.video EXCEPT !.sender_type = sender_type]
  OBVIOUS
<1>17. c.video \in Videos
  BY CallIs
<1>18. {"width", "height", "exactframerate"} \subseteq DOMAIN p /\ VideoOf(p) = video
  BY <1>7, <1>16, <1>17, VideoRoundTrips
<1>19. /\ video.width = c.video.width /\ video.height = c.video.height
       /\ video.frame_rate = c.video.frame_rate /\ video.max_udp = c.video.max_udp
       /\ video.sender_type = sender_type /\ video.tr_offset_us = c.video.tr_offset_us
       /\ video.cmax = c.video.cmax
  BY <1>16, <1>17 DEF Videos
<1>20. DescribesAFrame(video.width, video.height, video.frame_rate, video.max_udp,
                       video.sender_type, video.tr_offset_us, video.cmax)
  <2>1. DescribesAFrame(c.video.width, c.video.height, c.video.frame_rate, c.video.max_udp,
                        sender_type, c.video.tr_offset_us, c.video.cmax)
    <3>1. DescribesAFrame(c.video.width, c.video.height, c.video.frame_rate, c.video.max_udp,
                          SenderType(c), c.video.tr_offset_us, c.video.cmax)
      BY DEF Accepted
    <3> QED  BY <1>7, <3>1, Zenon
  <2> QED  BY <1>19, <2>1, Zenon
<1>21. Mappings(d) # {}
  BY <1>14
<1>22. PICK unmapped : unmapped = (Mappings(d) = {})
  OBVIOUS
<1>23. unmapped = FALSE
  BY <1>21, <1>22
<1>24. ParseVideoFormat(d) = [video |-> video, warned |-> unmapped]
  BY <1>8, <1>9, <1>10, <1>15, <1>18, <1>20, <1>22, Zenon DEF ParseVideoFormat
<1> QED  BY <1>7, <1>16, <1>23, <1>24, Zenon

LEMMA SingleReadsBack ==
    ASSUME NEW c \in Calls, Accepted(c), Len(c.flows) = 1, NEW d, d = Offer(c, Format)
    PROVE  /\ ParseSdp(d) = AsRendered(c.flows[1])
           /\ ParseDupSdp(d) = Refused
           /\ ParseVideoFormat(d) =
                   [video |-> [c.video EXCEPT !.sender_type = SenderType(c)], warned |-> FALSE]
<1>1. PICK leg : leg = LegOf(c, 1, None)
  OBVIOUS
<1>2. /\ VideoLines(d) = {5} /\ Block(d, 5) = leg
      /\ Of(Session(d), "group") = {} /\ Of(Session(d), "source-filter") = {}
  BY <1>1, SingleParts
<1>3. Min({5}) = 5
  BY OnlyOne
<1>4. 1 \in 1 .. Len(c.flows) /\ None \in Text \cup {None}
  OBVIOUS
<1>5. GroupedTags(d) = None
  <2>1. {i \in Of(Session(d), "group") : d[i].semantics = "DUP"} = {}
    BY <1>2
  <2> QED  BY <2>1, Zenon DEF GroupedTags
<1>6. PICK section : section = VideoSections(d)[5]
  OBVIOUS
<1>7. FlowOf(section) = AsRendered(c.flows[1]) /\ Usable(section)
  <2>1. 5 \in VideoLines(d) /\ Block(d, 5) = LegOf(c, 1, None)
    BY <1>1, <1>2
  <2>2. Of(Session(d), "source-filter") = {} /\ 1 \in 1 .. Len(c.flows)
    BY <1>2, <1>4
  <2>3. None \in Text \cup {None}
    OBVIOUS
  <2>4. IsLegsSection(c, 1, None, section)
    BY <1>6, <2>1, <2>2, <2>3, SectionReads, Zenon
  <2> QED  BY <2>4, Zenon DEF IsLegsSection
<1>8. ParseSdp(d) = AsRendered(c.flows[1])
  <2>1. VideoLines(d) # {}
    BY <1>2
  <2> QED  BY <1>2, <1>3, <1>5, <1>6, <1>7, <2>1, Zenon DEF ParseSdp
<1>9. ParseDupSdp(d) = Refused
  <2>1. ~IsPair(GroupedTags(d), VideoSections(d))
    BY <1>5, Zenon DEF IsPair
  <2> QED  BY <2>1, Zenon DEF ParseDupSdp
<1>10. ParseVideoFormat(d) =
           [video |-> [c.video EXCEPT !.sender_type = SenderType(c)], warned |-> FALSE]
  <2>1. VideoLines(d) # {}
    BY <1>2
  <2>2. Block(d, Min(VideoLines(d))) = LegOf(c, 1, None)
    BY <1>1, <1>2, <1>3, Zenon
  <2> QED  BY <1>4, <2>1, <2>2, FormatReadsBack, Zenon
<1> QED  BY <1>8, <1>9, <1>10, Zenon

(* The hypothesis of the theorem below: no accepted pair is one flow in    *)
(* two spellings.  Without it the run MCOfferSpelling has a counterexample. *)
DistinctOnceRendered ==
    \A c \in Calls :
        Accepted(c) /\ Len(c.flows) = 2 => AsRendered(c.flows[1]) # AsRendered(c.flows[2])

LEMMA PairedReadsBack ==
    ASSUME DistinctOnceRendered,
           NEW c \in Calls, Accepted(c), Len(c.flows) = 2, NEW d, d = Offer(c, Format)
    PROVE  /\ ParseSdp(d) = Refused
           /\ ParseDupSdp(d) = <<AsRendered(c.flows[1]), AsRendered(c.flows[2])>>
           /\ ParseVideoFormat(d) =
                   [video |-> [c.video EXCEPT !.sender_type = SenderType(c)], warned |-> FALSE]
<1>0. /\ DupTags[1] \in Text /\ DupTags[2] \in Text /\ DupTags \in Seq(Text)
      /\ Len(DupTags) = 2 /\ DupTags[1] # DupTags[2] /\ DOMAIN DupTags = {1, 2}
  <2>1. DupTags[1] \in ToSet(DupTags) /\ DupTags[2] \in ToSet(DupTags)
    BY DEF ToSet, DupTags
  <2>2. DupTags[1] \in Text /\ DupTags[2] \in Text
    BY <2>1, OffersAssumption, Zenon
  <2>3. DupTags = <<DupTags[1], DupTags[2]>> /\ Len(DupTags) = 2 /\ DupTags[1] # DupTags[2]
    BY DEF DupTags
  <2>4. \A x, y \in Text : <<x, y>> \in Seq(Text)
    OBVIOUS
  <2>5. DupTags \in Seq(Text)
    BY <2>2, <2>3, <2>4, Zenon
  <2>6. DOMAIN DupTags = 1 .. 2
    BY <2>3, <2>5
  <2> QED  BY <2>2, <2>3, <2>5, <2>6
<1>1. PICK one, two, tags : one = LegOf(c, 1, DupTags[1]) /\ two = LegOf(c, 2, DupTags[2])
                             /\ tags = DupTags
  OBVIOUS
<1>2. /\ Of(Session(d), "source-filter") = {}
      /\ Of(Session(d), "group") = {5} /\ d[5] = Group("DUP", DupTags)
      /\ \E k \in Nat : /\ k > 6 /\ VideoLines(d) = {6, k}
                        /\ Block(d, 6) = one /\ Block(d, k) = two
  BY <1>1, PairedParts
<1>3. PICK k \in Nat : k > 6 /\ VideoLines(d) = {6, k} /\ Block(d, 6) = one /\ Block(d, k) = two
  BY <1>2
<1>4. 1 \in 1 .. Len(c.flows) /\ 2 \in 1 .. Len(c.flows)
      /\ DupTags[1] \in Text \cup {None} /\ DupTags[2] \in Text \cup {None}
  BY <1>0
<1>5. GroupedTags(d) = tags /\ tags # None
  <2>1. PICK group : group = d[5]
    OBVIOUS
  <2>2. group.semantics = "DUP" /\ group.tags = tags
    BY <1>1, <1>2, <2>1 DEF Group
  <2>3. {i \in Of(Session(d), "group") : d[i].semantics = "DUP"} = {5}
    BY <1>2, <2>1, <2>2
  <2>4. Min({5}) = 5 /\ {5} # {}
    BY OnlyOne
  <2>5. None \notin Seq(Text)
    BY OffersAssumption
  <2> QED  BY <1>0, <1>1, <2>1, <2>2, <2>3, <2>4, <2>5, Zenon DEF GroupedTags
<1>6. PICK sections : sections = VideoSections(d)
  OBVIOUS
<1>7. DOMAIN sections = {6, k} /\ 6 # k
  <2>1. DOMAIN sections = VideoLines(d)
    BY <1>6, Zenon DEF VideoSections
  <2> QED  BY <1>3, <2>1
<1>8. /\ FlowOf(sections[6]) = AsRendered(c.flows[1]) /\ Usable(sections[6])
      /\ sections[6].mid = tags[1]
  <2>1. PICK section : section = VideoSections(d)[6]
    OBVIOUS
  <2>2. 6 \in VideoLines(d) /\ Block(d, 6) = LegOf(c, 1, tags[1])
    BY <1>1, <1>3
  <2>3. Of(Session(d), "source-filter") = {} /\ 1 \in 1 .. Len(c.flows)
    BY <1>2, <1>4
  <2>4. tags[1] \in Text \cup {None}
    BY <1>1, <1>4
  <2>5. IsLegsSection(c, 1, tags[1], section)
    BY <2>1, <2>2, <2>3, <2>4, SectionReads, Zenon
  <2> QED  BY <1>6, <2>1, <2>5, Zenon DEF IsLegsSection
<1>9. /\ FlowOf(sections[k]) = AsRendered(c.flows[2]) /\ Usable(sections[k])
      /\ sections[k].mid = tags[2]
  <2>1. PICK section : section = VideoSections(d)[k]
    OBVIOUS
  <2>2. k \in VideoLines(d) /\ Block(d, k) = LegOf(c, 2, tags[2])
    BY <1>1, <1>3
  <2>3. Of(Session(d), "source-filter") = {} /\ 2 \in 1 .. Len(c.flows)
    BY <1>2, <1>4
  <2>4. tags[2] \in Text \cup {None}
    BY <1>1, <1>4
  <2>5. IsLegsSection(c, 2, tags[2], section)
    BY <2>1, <2>2, <2>3, <2>4, SectionReads, Zenon
  <2> QED  BY <1>6, <2>1, <2>5, Zenon DEF IsLegsSection
<1>10. DOMAIN tags = {1, 2} /\ Len(tags) = Len(DupTags) /\ Len(tags) = 2 /\ tags[1] # tags[2]
  BY <1>0, <1>1
<1>11. PICK mids : mids = [m \in DOMAIN sections |-> sections[m].mid]
  OBVIOUS
<1>12. DOMAIN mids = {6, k} /\ mids[6] = tags[1] /\ mids[k] = tags[2]
  BY <1>7, <1>8, <1>9, <1>11
<1>13. IsPair(tags, sections)
  <2>1. Cardinality(DOMAIN sections) = 2
    <3>1. IsFiniteSet({6}) /\ Cardinality({6}) = 1 /\ k \notin {6}
      BY <1>7, FS_Singleton
    <3>2. {6, k} = {6} \cup {k}
      OBVIOUS
    <3>3. Cardinality({6} \cup {k}) = Cardinality({6}) + 1
      BY <3>1, FS_AddElement
    <3> QED  BY <1>7, <3>1, <3>2, <3>3
  <2>2. IsInjective(tags) /\ IsInjective(mids)
    BY <1>7, <1>10, <1>12 DEF IsInjective
  <2>3. ToSet(tags) \subseteq Range(mids)
    BY <1>10, <1>12 DEF ToSet, Range
  <2> QED  BY <1>5, <1>10, <1>11, <2>1, <2>2, <2>3, Zenon DEF IsPair
<1>14. PICK legs : legs = Legs(tags, sections)
  OBVIOUS
<1>15. legs[1] = sections[6] /\ legs[2] = sections[k]
  <2>1. \A i \in DOMAIN tags :
            legs[i] = sections[CHOOSE m \in DOMAIN sections : sections[m].mid = tags[i]]
    BY <1>14, Zenon DEF Legs
  <2>2. ASSUME NEW i \in DOMAIN tags, NEW z \in DOMAIN sections, sections[z].mid = tags[i]
        PROVE  legs[i] = sections[z]
    <3>1. PICK w : w = CHOOSE m \in DOMAIN sections : sections[m].mid = tags[i]
      OBVIOUS
    <3>2. w \in DOMAIN sections /\ sections[w].mid = tags[i]
      BY <2>2, <3>1, Zenon
    <3>3. w = z
      BY <1>7, <1>8, <1>9, <1>10, <2>2, <3>2
    <3> QED  BY <2>1, <3>1, <3>3
  <2>3. 1 \in DOMAIN tags /\ 2 \in DOMAIN tags /\ 6 \in DOMAIN sections /\ k \in DOMAIN sections
    BY <1>7, <1>10
  <2> QED  BY <1>8, <1>9, <2>2, <2>3, Zenon
<1>16. PICK first, second : first = AsRendered(c.flows[1]) /\ second = AsRendered(c.flows[2])
  OBVIOUS
<1>17. first # second
  BY <1>16, Zenon DEF DistinctOnceRendered
<1>18. /\ FlowOf(legs[1]) = first /\ FlowOf(legs[2]) = second
       /\ Usable(legs[1]) /\ Usable(legs[2])
  BY <1>8, <1>9, <1>15, <1>16, Zenon
<1>19. ParseDupSdp(d) = <<first, second>>
  BY <1>5, <1>6, <1>13, <1>14, <1>17, <1>18, Zenon DEF ParseDupSdp
<1>20. ParseSdp(d) = Refused
  BY <1>5, Zenon DEF ParseSdp
<1>21. Min(VideoLines(d)) = 6
  <2>1. {6, k} \subseteq Int /\ 6 \in {6, k} /\ \A x \in {6, k} : 6 <= x
    BY <1>3
  <2> QED  BY <1>3, <2>1, MinIs
<1>22. ParseVideoFormat(d) =
           [video |-> [c.video EXCEPT !.sender_type = SenderType(c)], warned |-> FALSE]
  <2>1. VideoLines(d) # {}
    BY <1>3
  <2>2. Block(d, Min(VideoLines(d))) = LegOf(c, 1, DupTags[1])
    BY <1>1, <1>3, <1>21, Zenon
  <2> QED  BY <1>4, <2>1, <2>2, FormatReadsBack, Zenon
<1> QED  BY <1>16, <1>19, <1>20, <1>22, Zenon

(* What the writer wrote is read back, said of a call and its document.    *)
ReadsBack(c, d) ==
    LET flows == [i \in DOMAIN c.flows |-> AsRendered(c.flows[i])]
    IN  /\ ParseSdp(d) = IF Len(flows) = 1 THEN flows[1] ELSE Refused
        /\ ParseDupSdp(d) = IF Len(flows) = 2 THEN flows ELSE Refused
        /\ ParseVideoFormat(d) =
               [video |-> [c.video EXCEPT !.sender_type = SenderType(c)], warned |-> FALSE]

LEMMA WrittenIsRead ==
    ASSUME DistinctOnceRendered, NEW c \in Calls, Accepted(c), NEW d, d = Offer(c, Format)
    PROVE  ReadsBack(c, d)
<1>1. PICK flows : flows = [i \in DOMAIN c.flows |-> AsRendered(c.flows[i])]
  OBVIOUS
<1>2. PICK k \in Nat : k = Len(c.flows) /\ k \in 1 .. 2
  BY CallIs
<1>3. /\ DOMAIN c.flows = 1 .. k /\ DOMAIN flows = 1 .. k /\ Len(flows) = k
      /\ \A i \in 1 .. k : flows[i] = AsRendered(c.flows[i])
  <2>1. DOMAIN c.flows = 1 .. k
    BY <1>2, CallIs
  <2>2. DOMAIN flows = 1 .. k /\ \A i \in 1 .. k : flows[i] = AsRendered(c.flows[i])
    BY <1>1, <2>1
  <2>3. flows = [i \in 1 .. k |-> AsRendered(c.flows[i])]
    BY <1>1, <2>1, Zenon
  <2>4. Len(flows) = k
    BY <2>3
  <2> QED  BY <2>1, <2>2, <2>4
<1>4. CASE k = 1
  <2>1. /\ ParseSdp(d) = AsRendered(c.flows[1])
        /\ ParseDupSdp(d) = Refused
        /\ ParseVideoFormat(d) =
                [video |-> [c.video EXCEPT !.sender_type = SenderType(c)], warned |-> FALSE]
    BY <1>2, <1>4, SingleReadsBack, Zenon
  <2>2. flows[1] = AsRendered(c.flows[1]) /\ Len(flows) = 1 /\ Len(flows) # 2
    BY <1>3, <1>4
  <2> QED  BY <1>1, <2>1, <2>2, Zenon DEF ReadsBack
<1>5. CASE k = 2
  <2>1. PICK first, second : first = AsRendered(c.flows[1]) /\ second = AsRendered(c.flows[2])
    OBVIOUS
  <2>2. /\ ParseSdp(d) = Refused
        /\ ParseDupSdp(d) = <<first, second>>
        /\ ParseVideoFormat(d) =
                [video |-> [c.video EXCEPT !.sender_type = SenderType(c)], warned |-> FALSE]
    BY <1>2, <1>5, <2>1, PairedReadsBack, Zenon
  <2>3. Len(flows) = 2 /\ Len(flows) # 1
    BY <1>3, <1>5
  <2>4. flows = <<first, second>>
    <3>1. DOMAIN flows = 1 .. 2 /\ flows[1] = first /\ flows[2] = second
      BY <1>3, <1>5, <2>1
    <3>2. flows = [i \in 1 .. 2 |-> flows[i]]
      BY <1>1, <3>1
    <3>3. PICK pair : pair = <<first, second>>
      OBVIOUS
    <3>4. pair = [i \in 1 .. 2 |-> pair[i]] /\ pair[1] = first /\ pair[2] = second
      BY <3>3
    <3>5. \A i \in 1 .. 2 : flows[i] = pair[i]
      <4>1. \A i \in 1 .. 2 : i = 1 \/ i = 2
        OBVIOUS
      <4> QED  BY <3>1, <3>4, <4>1
    <3>6. flows = pair
      BY <3>2, <3>4, <3>5
    <3> QED  BY <3>3, <3>6
  <2> QED  BY <1>1, <2>2, <2>3, <2>4, Zenon DEF ReadsBack
<1> QED  BY <1>2, <1>4, <1>5

LEMMA WritingHolds ==
    ASSUME DistinctOnceRendered
    PROVE  IInv => WrittenReadsBack
<1> SUFFICES ASSUME IInv, edits = 0 PROVE ReadsBack(call, doc)
  BY Zenon DEF WrittenReadsBack, ReadsBack
<1>1. PICK c, d : c = call /\ d = doc
  OBVIOUS
<1>2. c \in Calls /\ Accepted(c) /\ d = Offer(c, Format)
  BY <1>1, Zenon DEF IInv
<1>3. ReadsBack(c, d)
  BY <1>2, WrittenIsRead
<1> QED  BY <1>1, <1>3, Zenon

(* Reader and writer agree: what format_sdp writes parse_sdp reads, what   *)
(* format_dup_sdp writes parse_dup_sdp reads in the order it was passed,   *)
(* neither reads the other's, and parse_video_format reads the format with *)
(* its sender type and without a warning.  Flow for flow it holds of pairs *)
(* that are two flows however their addresses are spelled.                 *)
THEOREM WrittenReadsBackHolds ==
    ASSUME DistinctOnceRendered
    PROVE  Spec => []WrittenReadsBack
<1>1. Init => IInv
  BY InitEstablishes
<1>2. IInv /\ [Next]_vars => IInv'
  BY NextPreserves
<1>3. IInv => WrittenReadsBack
  BY WritingHolds
<1> QED  BY <1>1, <1>2, <1>3, PTL DEF Spec

=============================================================================
