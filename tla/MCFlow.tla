------------------------------- MODULE MCFlow -------------------------------
(* A sender that begins just below the wrap of both spaces. *)
EXTENDS Flow

MCStarts == {WideSpace - 3}
=============================================================================
