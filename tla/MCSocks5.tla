------------------------------ MODULE MCSocks5 ------------------------------
(* Values of the constants of Socks5 for TLC: a host of two bytes, a shorter *)
(* one and one that is too long for the client's buffer, an address of each  *)
(* type and 5.0.0.1, which begins like a reply, and offers with the method   *)
(* we take in every place.                                                   *)
EXTENDS Socks5

OurHost == <<104, 49>>
LongHost == [i \in 1 .. 254 |-> 104]
SomeHosts == {OurHost, <<104>>, LongHost}
OurAddresses == {<<10, 0, 0, 1>>, <<5, 0, 0, 1>>, <<254, 128, 0, 0, 0, 0, 0, 0, 0, 0, 0, 0, 0, 0, 0, 1>>}
SomeOffers == {<<0>>, <<0, 2>>, <<2, 0>>, <<0, 1, 2>>, <<1, 0, 2>>}
AllPairs == {{"client", "server"}, {"client"}, {"server"}}
=============================================================================
