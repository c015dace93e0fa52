---------------------------- MODULE PacketAccount ----------------------------
(***************************************************************************)
(* What a SequenceTracker promises: RFC 3550 Appendix A.3's account, kept  *)
(* one packet at a time.  The code keeps it a chunk at a time, in closed   *)
(* form where it can; SequenceTracker models that and implements this.     *)
(***************************************************************************)
EXTENDS Rfc3550, Sequences

CONSTANT Chunks(_)  \* the chunks that may arrive in each space

VARIABLES
    heard,          \* every packet admitted so far, in arrival order
    account

(* A chunk is its packets in arrival order. *)
AdmitAll(a, wide, chunk) ==
    LET after[i \in 0 .. Len(chunk)] ==
            IF i = 0 THEN a ELSE Admit(after[i - 1], wide, chunk[i])
    IN  after[Len(chunk)]

Init == heard = << >> /\ account = Fresh

(* A chunk in the other space is refused whole, so only one in the space   *)
(* the first packet settled is ever admitted.                              *)
Receive(wide) ==
    LET chunk == SubSeq(heard', Len(heard) + 1, Len(heard'))
    IN  /\ account.received > 0 => account.wide = wide
        /\ chunk \in Chunks(wide)
        /\ heard' = heard \o chunk
        /\ account' = AdmitAll(account, wide, chunk)

Next == \E wide \in BOOLEAN : Receive(wide)

Spec == Init /\ [][Next]_<<heard, account>>
=============================================================================
