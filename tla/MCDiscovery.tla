---------------------------- MODULE MCDiscovery ----------------------------
(* Three nodes that may end up in a triangle, one of which was also given  *)
(* its own address, and a spare port for a second call.                    *)
EXTENDS Discovery

CONSTANTS na, nb, nc, p1, p2, p3

MCNodes == {na, nb, nc}
MCPorts == {p1, p2, p3}
MCBootstrap == {<<nb, na>>, <<nc, nb>>, <<nc, na>>, <<na, na>>}
MCVersion == [n \in MCNodes |-> 1]
MCLoopback == {p3}
=============================================================================
