---------------------------- MODULE MCVnsSession ----------------------------
(***************************************************************************)
(* Two routers for TLC: an ordinary one, and one that is started with -T   *)
(* or with a route through an interface the switch lacks.  The switch may  *)
(* come back with one port less and another MAC.                           *)
(***************************************************************************)
EXTENDS VnsSession

CONSTANTS a, b, eth1, eth2, eth9, m1, m2, m3, ip1, ip2

Port(n, m, i) == [name |-> n, mac |-> m, ip |-> i]
Started(t, f) == [template |-> t, rt |-> f]

MCSwitches == {<<Port(eth2, m2, ip2), Port(eth1, m1, ip1)>>, <<Port(eth1, m3, ip1)>>}
MCOptions == [c \in Conns |->
    IF c = a THEN {Started(FALSE, <<eth1, eth2>>)}
             ELSE {Started(FALSE, <<eth1, eth9>>), Started(TRUE, None)}]
MCServed == {<<eth1>>}

-----------------------------------------------------------------------------
(* What an assertion says of the session and the code does not keep.       *)

\* sr_vns_comm.c:656: assert(iface) in sr_arp_req_not_for_us
AssertIface == \A c \in Conns : pc[c] # "abort"
=============================================================================
