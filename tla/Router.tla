------------------------------- MODULE Router -------------------------------
(***************************************************************************)
(* The packet handlers of sr_router.c: what the router does with each ARP  *)
(* and IP packet that sr_read_from_server passes on, and with the packets  *)
(* whose next hop the sweeper gives up (sr_arpcache.c).  Module ArpCache   *)
(* has the threads, the retries and the times; here the cache is the set   *)
(* of addresses it knows and the packets that wait for the others.         *)
(*                                                                         *)
(* A packet is its addresses, its TTL and what kind of packet it is; a     *)
(* frame is the packet, the interface whose MAC address is its source and  *)
(* the interface it leaves through.                                        *)
(***************************************************************************)
EXTENDS Integers, FiniteSets

CONSTANTS
    Ifaces,      \* interfaces
    IfIP,        \* IfIP[i]: IP address of interface i
    IPs,         \* all IP addresses, those of the interfaces included
    Route,       \* Route[ip]: what lpm_lookup finds: [iface, hop], or None
    InitTTL,     \* 64, the TTL of the router's own packets
    MaxTTL,      \* bound on the TTL of the packets received
    MaxWaiting,  \* bound on the packets that wait
    None

Own == {IfIP[i] : i \in Ifaces}

ASSUME TtlAssumption == InitTTL \in Nat /\ MaxTTL \in Nat /\ InitTTL >= 1
ASSUME RouteAssumption ==
    /\ IfIP \in [Ifaces -> IPs]
    /\ \A i, j \in Ifaces : IfIP[i] = IfIP[j] => i = j
    /\ Route \in [IPs -> [iface : Ifaces, hop : IPs] \cup {None}]
    /\ None \notin [iface : Ifaces, hop : IPs]

\* ICMP echo requests, echo replies and errors; "data": another protocol
Kinds == {"echo", "reply", "error", "data"}

\* An IP packet.  Three fields are history: its TTL when it was received, how
\* many errors of the router in a row led to it since a packet was received,
\* and whether the router made it.
Packet == [src : IPs, dst : IPs, ttl : 0..(MaxTTL + InitTTL), kind : Kinds,
           oldttl : 0..(MaxTTL + InitTTL), nth : Nat, by : {"host", "router"}]

\* What may arrive.  No source address is tested: it may be one of the router's
\* own, forged or in a packet of the router that a gateway sends back.
Received == {[src |-> s, dst |-> d, ttl |-> t, kind |-> k, oldttl |-> t, nth |-> 0,
              by |-> "host"] : s \in IPs, d \in IPs, t \in 0..MaxTTL, k \in Kinds}

VARIABLES
    known,    \* IP addresses in the ARP cache
    waiting,  \* queued packets, with their next hop and interface
    sent      \* the frames the last step passed to sr_send_packet

vars == <<known, waiting, sent>>

\* An IP packet, an ARP request and an ARP reply
Frame(from, via, p) == [shost |-> from, via |-> via, pkt |-> p]
ArpRequest(via) == Frame(via, via, None)
ArpReply(from, via) == Frame(from, via, None)

Init ==
    /\ known = {}
    /\ waiting = {}
    /\ sent = {}

Drop == sent' = {} /\ UNCHANGED waiting

\* The end of forward_ip_packet and of send_icmp_t3: send the packet if the
\* address of its next hop is known; otherwise queue it, and ask if nobody has.
Resolve(p, r) ==
    IF r.hop \in known
    THEN sent' = {Frame(r.iface, r.iface, p)} /\ UNCHANGED waiting
    ELSE /\ waiting' = waiting \cup {[hop |-> r.hop, iface |-> r.iface, pkt |-> p]}
         /\ sent' = IF \E w \in waiting : w.hop = r.hop THEN {}
                    ELSE {ArpRequest(r.iface)}

\* An ICMP error about p, to its source; p may be an error itself.
Error(from, p) == [src |-> from, dst |-> p.src, ttl |-> InitTTL, kind |-> "error",
                   oldttl |-> InitTTL, nth |-> p.nth + 1, by |-> "router"]

\* send_icmp_t3: an error about p goes where the routing table sends packets
\* for its source, or nowhere.
SendError(p) ==
    LET r == Route[p.src]
    IN  IF r = None THEN Drop ELSE Resolve(Error(IfIP[r.iface], p), r)

-----------------------------------------------------------------------------
(* ARP packets.                                                            *)

\* the filter of sr_vns_comm.c is missing
FaultyForUs(i, tip) == TRUE

\* sr_arp_req_not_for_us drops what asks for another address than that of the
\* interface it came through.
ForUs(i, tip) == tip = IfIP[i]

\* send_arp_reply: the MAC address is that of the interface which has the
\* target address; the reply leaves through the one the request came through.
\* The cache does not learn the address of the sender.
ReceiveArpRequest(i, tip) ==
    /\ sent' = IF ForUs(i, tip) /\ tip \in Own
               THEN {ArpReply(j, i) : j \in {k \in Ifaces : IfIP[k] = tip}}
               ELSE {}
    /\ UNCHANGED <<known, waiting>>

\* handle_arp_packet on a reply: learn the address, be it the router's own, and
\* send what waits for it.
ReceiveArpReply(ip) ==
    /\ known' = known \cup {ip}
    /\ sent' = {Frame(w.iface, w.iface, w.pkt) : w \in {v \in waiting : v.hop = ip}}
    /\ waiting' = {w \in waiting : w.hop # ip}

-----------------------------------------------------------------------------
(* IP packets.                                                             *)

\* sr_handlepacket drops what is too short or neither ARP nor IP.
IgnoreFrame == Drop /\ UNCHANGED known

\* handle_ip_packet looks at no field but addresses, protocol and TTL: the test
\* of the checksum is commented out.
Receives ==
    /\ Cardinality(waiting) < MaxWaiting
    /\ UNCHANGED known

\* For one of the router's addresses: send_icmp_echo_reply swaps the addresses
\* and answers through the interface the request came through.
ReceiveEcho(p, i) ==
    /\ Receives
    /\ p.dst \in Own /\ p.kind = "echo"
    /\ sent' = {Frame(i, i, [p EXCEPT !.src = p.dst, !.dst = p.src, !.kind = "reply",
                                      !.ttl = InitTTL, !.oldttl = InitTTL,
                                      !.by = "router"])}
    /\ UNCHANGED waiting

\* Other ICMP messages for the router are ignored.
ReceiveOtherIcmp(p) ==
    /\ Receives
    /\ p.dst \in Own /\ p.kind \in {"reply", "error"}
    /\ Drop

\* Port unreachable
ReceiveForUs(p) ==
    /\ Receives
    /\ p.dst \in Own /\ p.kind = "data"
    /\ SendError(p)

FaultyNever(p) == FALSE \* the TTL is not tested

\* a TTL of 1 is forwarded as 0
FaultyExpires(p) == p.ttl < 1
Expires(p) == p.ttl <= 1

\* forward_ip_packet, the TTL runs out: time exceeded
TtlExpires(p) ==
    /\ Receives
    /\ p.dst \notin Own
    /\ Expires(p)
    /\ SendError(p)

\* forward_ip_packet, no route: net unreachable.  The TTL has already been
\* decremented in the packet that the error quotes.
NoRoute(p) ==
    /\ Receives
    /\ p.dst \notin Own /\ ~Expires(p)
    /\ Route[p.dst] = None
    /\ SendError(p)

\* forward_ip_packet: the checksum is filled in again, right or not
Forward(p) ==
    /\ Receives
    /\ p.dst \notin Own /\ ~Expires(p)
    /\ Route[p.dst] # None
    /\ Resolve([p EXCEPT !.ttl = @ - 1], Route[p.dst])

-----------------------------------------------------------------------------
(* The sweeper.                                                            *)

\* send_icmp_host_unreachable for one waiting packet
Bounce(w) ==
    LET r == Route[w.pkt.src]
    IN  IF r = None \/ r.hop \notin known THEN {}
        ELSE {Frame(r.iface, r.iface, Error(IfIP[w.iface], w.pkt))}

\* send_arp_request_for_req: ask again, through the interface of the request's
\* first packet.  The packets of a next hop are a set here, so any may be first.
Retry(hop) ==
    /\ \E w \in waiting : w.hop = hop /\ sent' = {ArpRequest(w.iface)}
    /\ UNCHANGED <<known, waiting>>

\* an error whose next hop is not known is queued
FaultyGiveUp(hop) ==
    LET given == {w \in waiting : w.hop = hop}
        Lost(w) == Route[w.pkt.src] # None /\ Bounce(w) = {}
    IN  /\ given # {}
        /\ sent' = UNION {Bounce(w) : w \in given}
        /\ waiting' = (waiting \ given) \cup
               {[hop |-> Route[w.pkt.src].hop, iface |-> Route[w.pkt.src].iface,
                 pkt |-> Error(IfIP[w.iface], w.pkt)] : w \in {v \in given : Lost(v)}}
        /\ UNCHANGED known

\* handle_arpreq: nobody has answered for hop.
GiveUp(hop) ==
    /\ \E w \in waiting : w.hop = hop
    /\ sent' = UNION {Bounce(w) : w \in {v \in waiting : v.hop = hop}}
    /\ waiting' = {w \in waiting : w.hop # hop}
    /\ UNCHANGED known

\* sr_arpcache_timeout invalidates an entry.
Expire(ip) ==
    /\ ip \in known
    /\ known' = known \ {ip}
    /\ sent' = {}
    /\ UNCHANGED waiting

Next ==
    \/ \E i \in Ifaces, tip \in IPs : ReceiveArpRequest(i, tip)
    \/ \E ip \in IPs : ReceiveArpReply(ip) \/ Retry(ip) \/ GiveUp(ip) \/ Expire(ip)
    \/ \E p \in Received :
          \/ \E i \in Ifaces : ReceiveEcho(p, i)
          \/ ReceiveOtherIcmp(p) \/ ReceiveForUs(p)
          \/ TtlExpires(p) \/ NoRoute(p) \/ Forward(p)
    \/ IgnoreFrame

Spec == Init /\ [][Next]_vars

-----------------------------------------------------------------------------
(* Correctness properties.                                                 *)

\* The packets of the frames just sent, and all packets in the router
Leaving == {f.pkt : f \in {g \in sent : g.pkt # None}}
Carried == Leaving \cup {w.pkt : w \in waiting}

\* Frames and queued packets are well formed.
TypeOK ==
    /\ known \subseteq IPs
    /\ waiting \subseteq [hop : IPs, iface : Ifaces, pkt : Packet]
    /\ sent \subseteq [shost : Ifaces, via : Ifaces, pkt : Packet \cup {None}]

\* sr_send_packet refuses no frame: the source address that eight places in two
\* files fill in is always that of the interface the frame leaves through.  The
\* ARP reply depends on the filter of another file.
FramesAccepted == \A f \in sent : f.shost = f.via

\* What is forwarded has lost one unit of its TTL and has one left, also when
\* it waited for its next hop.
TtlDecreases ==
    \A p \in Carried : p.by = "host" => p.ttl = p.oldttl - 1 /\ p.ttl >= 1

\* The router's errors wait in the same queue as other packets and are given up
\* in the same way, and no source address is tested.  A packet received
\* nevertheless leads to at most one error that waits and one more about that
\* error, which goes to the router itself: no host is told about an error of the
\* router, and no packet keeps the queue busy for ever ("don't create infinite
\* loop", sr_arpcache.c:220), whoever forges a source or answers for whom.
ErrorChainEnds ==
    /\ \A w \in waiting : w.pkt.nth <= 1
    /\ \A p \in Carried : p.nth > 1 => p.nth = 2 /\ p.dst \in Own
=============================================================================
