-------------------------- MODULE MCSequenceTracker --------------------------
(***************************************************************************)
(* Every chunk of at most MaxChunk packets: any numbers in the narrow      *)
(* space, and in the wide one those either side of its ends and middle,    *)
(* between which every distance of the space occurs.                       *)
(***************************************************************************)
EXTENDS SequenceTracker

CONSTANT MaxChunk

MCNumbers(w) == IF w THEN {0, 1, 2, 7, 8, 9, 14, 15} ELSE Numbers(w)

MCChunks(w) == UNION {[1 .. n -> MCNumbers(w)] : n \in 0 .. MaxChunk}
=============================================================================
