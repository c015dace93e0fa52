------------------------------ MODULE MCOffers ------------------------------
(* Single and paired flows: two groups, one group from two senders, any    *)
(* source, unicast, and calls the writer refuses; formats with every       *)
(* optional parameter and with none.                                       *)
EXTENDS Offers

MCText == STRING

Host(name, version, multicast) ==
    [host |-> name, text |-> "plain", version |-> version, multicast |-> multicast]

Red == Host("red", 4, TRUE)
Blue == Host("blue", 4, TRUE)
Long == [Host("six", 6, TRUE) EXCEPT !.text = "long"]
Six == Host("six", 6, TRUE)
Camera == Host("camera", 4, FALSE)
Standby == Host("standby", 4, FALSE)
Host6 == Host("host6", 6, FALSE)

Flow(destination, source) == [destination |-> destination, port |-> 3, source |-> source]

MCFlows ==
    {<<Flow(Red, Camera)>>, <<Flow(Red, None)>>, <<Flow(Camera, None)>>, <<Flow(Long, Host6)>>,
     <<Flow(Red, Host6)>>,
     <<Flow(Red, Camera), Flow(Blue, Standby)>>, <<Flow(Red, Camera), Flow(Red, Standby)>>,
     <<Flow(Red, None), Flow(Blue, None)>>, <<Flow(Red, Camera), Flow(Red, Camera)>>}

SpelledFlows == {<<Flow(Six, Host6), Flow(Long, Host6)>>}

Plain ==
    [width |-> 4, height |-> 2, frame_rate |-> [num |-> 5, den |-> 2], depth |-> 10,
     sampling |-> "s", colorimetry |-> "BT2020", interlaced |-> FALSE, max_udp |-> 8,
     sender_type |-> "2110TPN", tr_offset_us |-> None, cmax |-> None]

Full ==
    [Plain EXCEPT !.colorimetry = "ALPHA", !.interlaced = TRUE, !.max_udp = 9,
                  !.sender_type = "2110TPNL", !.tr_offset_us = 0, !.cmax = 1]

Late == [Plain EXCEPT !.tr_offset_us = 4]

MCVideos == {Plain, Full, Late}

Called(flows, videos) ==
    {[flows |-> f, video |-> v, sender_type |-> t, any_source |-> any] :
        f \in flows, v \in videos, t \in {None, "2110TPW"}, any \in BOOLEAN}

MCCalls == Called(MCFlows, MCVideos)

MCSpelledCalls == Called(SpelledFlows, {Plain})

MCGroupings ==
    {Group("DUP", <<"2", "1">>), Group("DUP", <<"1", "1">>), Group("DUP", <<"1">>),
     Group("DUP", <<"1", "2">>), Group("LS", <<"1", "2">>)}

MCConnections == {Blue, None}
=============================================================================
