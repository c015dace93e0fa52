------------------------------ MODULE MCTiming ------------------------------
(* Gapped and linear schedules of a few packets, a whole and a fractional  *)
(* number of nanoseconds apart, fields of an odd number of packets, and a  *)
(* frame of packets less than a nanosecond apart: of the last the drains   *)
(* since the epoch outgrow the integers at the later of the start frames.  *)
EXTENDS Timing

Video(height, interlaced, packets, kind, troff, rate, max_udp) ==
    [height |-> height, interlaced |-> interlaced, packets |-> packets, kind |-> kind,
     troff |-> troff, rate |-> rate, max_udp |-> max_udp]

MCVideos ==
    {Video(1080, FALSE, 4, "N", -1, 60, 8960),
     Video(720, FALSE, 3, "NL", 877, 60, 1460),
     Video(1080, TRUE, 3, "N", -1, 30, 1460),
     Video(1080, FALSE, 3, "W", 0, 300000, 1460),
     Video(1080, FALSE, 30, "NL", 0, 60, 1460)}

MCJitters == {-6, 0, 7}

MCClock == [num |-> 17, den |-> 2]

(* The instance is one the theorems are about. *)
ASSUME TheoremsApply == RatesAreTold /\ SlipsAreNear /\ InstantsAreInt64
=============================================================================
