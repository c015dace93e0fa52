---------------------------- MODULE MCPayloadWalk ----------------------------
(* Packets of one to four segments, with and without a CSRC list, an       *)
(* extension and padding; one that ends inside its fixed header, one       *)
(* inside its second SRD header and one inside its extension.  The cuts    *)
(* are a conforming header's end, a place inside a second SRD header, and  *)
(* one past every packet.                                                  *)
EXTENDS PayloadWalk

Srd(length, place) == [length |-> length, place |-> place]

Bare(srds) == [csrc |-> 0, ext |-> -1, pad |-> FALSE, srds |-> srds, lost |-> 0]

Short(p, size) == [p EXCEPT !.lost = Size(p) - size]

One == Bare(<<Srd(1, 1)>>)
Two == Bare(<<Srd(2, 3), Srd(1, 4)>>)
Carrying == [Bare(<<Srd(2, 10)>>) EXCEPT !.ext = 1]

MCPackets ==
    {One, Two, Carrying,
     [Bare(<<Srd(9, 2)>>) EXCEPT !.pad = TRUE],
     Bare(<<Srd(1, 5), Srd(2, 6), Srd(3, 7)>>),
     Bare(<<Srd(1, 11), Srd(1, 12), Srd(1, 13), Srd(1, 14)>>),
     [Bare(<<Srd(1, 8), Srd(4, 9)>>) EXCEPT !.csrc = 1],
     Short(One, FixedHeader - 2), Short(Two, SrdPlace(Two, 2) - 1),
     Short(Carrying, FixedHeader + 1)}
=============================================================================
