--------------------------- MODULE MCReceiveSlice ---------------------------
(* Rasters of a few pgroups: progressive, interlaced, and interlaced of an *)
(* odd height; limits that divide their lines evenly and that do not.      *)
EXTENDS ReceiveSlice

Raster(width, height, interlaced, max_udp) ==
    [width |-> width, height |-> height, interlaced |-> interlaced, octets |-> 5,
     pixels |-> 2, rate_num |-> 7, rate_den |-> 2, max_udp |-> max_udp]

MCVideos ==
    {Raster(4, 3, FALSE, 17), Raster(4, 2, TRUE, 22), Raster(4, 3, TRUE, 18),
     Raster(12, 1, FALSE, 33), Raster(8, 1, TRUE, 27)}

(* Sequence numbers below the wrap of one half and of both. *)
MCInitialSequences == {0, Half - 2, Modulus - 2}

(* The first frame, one on either side of the timestamp's wrap, and the    *)
(* last before the block refuses.                                          *)
MCStartFrames(last) == {0, 9, last - 1, last}
=============================================================================
