------------------------------ MODULE MCRouter ------------------------------
(***************************************************************************)
(* A router with two interfaces on two networks, a host on each, and an    *)
(* address without a route.  The router's own addresses are covered too,   *)
(* one of them through a gateway.                                          *)
(***************************************************************************)
EXTENDS Router

CONSTANTS eth1, eth2, r1, r2, h1, h2, x

MCIfIP == [i \in Ifaces |-> IF i = eth1 THEN r1 ELSE r2]
MCRoute == [ip \in IPs |-> CASE ip \in {h1, r1} -> [iface |-> eth1, hop |-> ip]
                             [] ip = h2         -> [iface |-> eth2, hop |-> ip]
                             [] ip = r2         -> [iface |-> eth1, hop |-> h1]
                             [] OTHER           -> None]
=============================================================================
