---------------------------- MODULE SequenceSpace ----------------------------
(***************************************************************************)
(* The two sequence spaces a tracker can count in (framing.py, lines 25    *)
(* and 49-57): the sixteen-bit RTP field alone ("narrow"), and that field  *)
(* joined with RFC 4175's extended sequence number ("wide").  The sizes    *)
(* and RFC 3550 Appendix A.1's two thresholds are parameters, so TLC can   *)
(* run a few bits of them and a proof covers the values the code has.      *)
(***************************************************************************)
EXTENDS Integers

CONSTANTS
    NarrowSpace,    \* _SEQUENCE_SPACE, 2^16 in the code
    NarrowDropout,  \* _MAX_DROPOUT, 3000
    WideSpace,      \* _EXTENDED_SPACE, 2^32
    WideDropout,    \* _EXTENDED_MAX_DROPOUT, 2^31
    Misorder        \* _MAX_MISORDER, 100

Space(wide) == IF wide THEN WideSpace ELSE NarrowSpace

Dropout(wide) == IF wide THEN WideDropout ELSE NarrowDropout

(* A step of one is never a jump, and the forward and the backward window  *)
(* do not overlap.                                                         *)
ASSUME SpaceAssumption ==
    /\ {NarrowSpace, NarrowDropout, WideSpace, WideDropout, Misorder} \subseteq Nat
    /\ \A wide \in BOOLEAN : /\ 1 < Dropout(wide)
                             /\ Dropout(wide) + Misorder <= Space(wide)

(* The numbers one packet can carry in each space. *)
Numbers(wide) == 0 .. Space(wide) - 1

(* How far forward, modulo the space, a packet lies from the one before. *)
Step(wide, number, previous) == (number - previous) % Space(wide)

(* Seeded fault: a packet seen again is taken for one in step. *)
IsDuplicateInStep(step) == step = 1

IsDuplicate(step) == step = 0

IsReordered(wide, step) == step >= Space(wide) - Misorder

(* Seeded fault: a packet exactly Misorder behind falls out of the window. *)
SignedShort(wide, step) ==
    IF step > Space(wide) - Misorder THEN step - Space(wide) ELSE step

(* A step landing just behind is a small negative one. *)
Signed(wide, step) == IF IsReordered(wide, step) THEN step - Space(wide) ELSE step

(* Neither a gap nor a reordering: the span closes and a new one opens. *)
IsJump(wide, step) == Signed(wide, step) >= Dropout(wide)
=============================================================================
