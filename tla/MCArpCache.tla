----------------------------- MODULE MCArpCache -----------------------------
(* Small instances of ArpCache for TLC.                                    *)
EXTENDS ArpCache

CONSTANTS c, s, m1, m2, r1, r2

MCReqs == {r1, r2}
MCIPs == {c, s}
MCMACs == {m1, m2}
\* The server may change its interface card.
MCClaims == {<<c, m1>>, <<s, m1>>, <<s, m2>>}
\* One address each, for the liveness run: waiting does not depend on addresses.
MCOneClaimEach == {<<c, m1>>, <<s, m2>>}
\* Two packets to the server, the second from a source without a route back,
\* then packets to the client.
MCNextHop == [p \in 1..NumPackets |-> IF p <= 2 THEN s ELSE c]
MCBackHop == [p \in 1..NumPackets |-> CASE p = 1 -> c [] p = 2 -> None [] OTHER -> s]
-----------------------------------------------------------------------------
(* What the documentation says of the request queue and the code does not  *)
(* do.  Each of these is violated.                                         *)

\* sr_arpcache.h:51: "ARP requests are sent every second until we send 5 ARP
\* requests, then we send ICMP host unreachable"
RetryLimit == \A r \in live : asked[r] <= MaxTries

\* PROJECT_README.md:864: "Proper synchronization for concurrent access"
NoUseAfterFree == mpc \in {"check", "setsent", "settimes"} => mreq \in live
=============================================================================
