----------------------------- MODULE MCRegistry -----------------------------
(* Values of the constants of Registry for TLC: the transports of the        *)
(* repository, a second one of low priority, a datagram transport, one with  *)
(* the invalid priority and one whose namespace is not Jingle's.             *)
EXTENDS Registry

CONSTANTS ft, rtp, ibb, s5b, other, udp, invalid, foreign

ModuleType == [x \in Apps \cup Transports |-> IF x \in {rtp, udp} THEN "datagram" ELSE "streaming"]
TransportPriority ==
  [x \in Transports |-> CASE x = s5b -> 3 [] x \in {udp, foreign} -> 2 [] x = invalid -> 0
                          [] OTHER -> 1]
OurNamespaces == (Apps \cup Transports) \ {foreign}
=============================================================================
