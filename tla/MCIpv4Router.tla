---------------------------- MODULE MCIpv4Router ----------------------------
(* Instances of Ipv4Router for TLC: addresses of four bits, of which 14 is *)
(* multicast and 15 the broadcast; MAC addresses 2 and 4 are hosts, 3 is a *)
(* group.                                                                  *)
EXTENDS Ipv4Router

\* A default route, and two prefixes one inside the other, the longer one
\* with host bits set; a connected route replaces one through a gateway.
MCRouteOffers == {<<0, 0, 9, 1>>, <<8, 1, 14, 2>>, <<8, 1, 9, 2>>,
                  <<11, 3, NoIp, 3>>}

MCNeighborOffers == {<<9, 2>>, <<9, 3>>, <<14, 2>>}

MCArpMessages == {<<TRUE, "request", 2, 10, 0>>, <<TRUE, "request", 2, 10, 4>>,
                  <<TRUE, "reply", 4, 15, 2>>, <<TRUE, "reply", 3, 10, 2>>,
                  <<FALSE, "reply", 4, 9, 2>>}

MCStationKeys == {<<1, 2>>, <<1, 4>>}

MCPackets == {<<1, 10, 5, 3, TRUE, 2>>, <<2, 6, 0, 2, FALSE, 7>>}

MCFlips == {<<w, b>> : w \in 1..HeaderWords, b \in 0 .. WordBits - 1}
=============================================================================
