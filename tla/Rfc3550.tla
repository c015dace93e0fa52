------------------------------- MODULE Rfc3550 -------------------------------
(***************************************************************************)
(* RFC 3550 Appendix A.3's account of a flow, as SequenceTracker keeps it: *)
(* its attributes as one record, and what one more packet does to them.    *)
(***************************************************************************)
EXTENDS SequenceSpace

Fresh == [received |-> 0, duplicated |-> 0, reordered |-> 0,
          discontinuities |-> 0, resyncs |-> 0, closed |-> 0,
          lowest |-> 0, highest |-> 0, extended |-> 0, wide |-> FALSE]

Lesser(a, b) == IF a < b THEN a ELSE b
Greater(a, b) == IF a > b THEN a ELSE b

(* The first packet only opens the span, and settles the space. *)
Opened(wide, number) ==
    [Fresh EXCEPT !.received = 1, !.lowest = number, !.highest = number,
                  !.extended = number, !.wide = wide]

(* A jump banks the span and opens another where the packet landed. *)
Resynced(a, number) ==
    [a EXCEPT !.received = @ + 1, !.discontinuities = @ + 1, !.resyncs = @ + 1,
              !.closed = @ + a.highest - a.lowest + 1,
              !.lowest = number, !.highest = number, !.extended = number]

One(event) == IF event THEN 1 ELSE 0

(* Seeded fault: the backward steps are summed, not counted. *)
LandedSummed(a, step, here, low, high) ==
    [received |-> a.received + 1,
     duplicated |-> a.duplicated + One(IsDuplicate(step)),
     reordered |-> a.reordered + (IF IsReordered(a.wide, step) THEN Signed(a.wide, step) ELSE 0),
     discontinuities |-> a.discontinuities + One(step # 1),
     resyncs |-> a.resyncs, closed |-> a.closed,
     lowest |-> low, highest |-> high, extended |-> here, wide |-> a.wide]

(* Any other packet lands at a number inside the span or widens it. *)
Landed(a, step, here, low, high) ==
    [received |-> a.received + 1,
     duplicated |-> a.duplicated + One(IsDuplicate(step)),
     reordered |-> a.reordered + One(IsReordered(a.wide, step)),
     discontinuities |-> a.discontinuities + One(step # 1),
     resyncs |-> a.resyncs, closed |-> a.closed,
     lowest |-> low, highest |-> high, extended |-> here, wide |-> a.wide]

(* Seeded fault: every packet moves the span's end, a late one back. *)
WidenedByLast(a, step) ==
    LET here == a.extended + Signed(a.wide, step)
    IN  Landed(a, step, here, Lesser(a.lowest, here), here)

Widened(a, step) ==
    LET here == a.extended + Signed(a.wide, step)
    IN  Landed(a, step, here, Lesser(a.lowest, here), Greater(a.highest, here))

Admit(a, wide, number) ==
    IF a.received = 0 THEN Opened(wide, number)
    ELSE LET step == Step(a.wide, number, a.extended)
         IN  IF IsJump(a.wide, step) THEN Resynced(a, number) ELSE Widened(a, step)

(* RFC 3550's count of the packets the sender appears to have sent. *)
ExpectedOf(a) == IF a.received = 0 THEN 0 ELSE a.closed + a.highest - a.lowest + 1

LostOf(a) == ExpectedOf(a) - a.received
=============================================================================
