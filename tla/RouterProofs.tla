---------------------------- MODULE RouterProofs -----------------------------
(***************************************************************************)
(* Theorems about the packet handlers of Router, for any interfaces, any   *)
(* routing table and any number of packets that wait.                      *)
(***************************************************************************)
EXTENDS Router, TLAPS

Waiter == [hop : IPs, iface : Ifaces, pkt : Packet]
AnyFrame == [shost : Ifaces, via : Ifaces, pkt : Packet \cup {None}]

\* What TtlDecreases and ErrorChainEnds say of one packet
Good(p) ==
    /\ p.by = "host" => p.ttl = p.oldttl - 1 /\ p.ttl >= 1
    /\ p.nth > 1 => p.nth = 2 /\ p.dst \in Own

\* What may be queued: a packet received, or an error about one, which has an
\* address of the router as its source
First(p) == p.nth = 0 \/ (p.nth = 1 /\ p.src \in Own)

KnownOK == known \subseteq IPs

WaitingOK == \A w \in waiting : w \in Waiter /\ Good(w.pkt) /\ First(w.pkt)

FrameOK(f) == f \in AnyFrame /\ f.shost = f.via /\ (f.pkt # None => Good(f.pkt))

SentOK == \A f \in sent : FrameOK(f)

RouterInv == KnownOK /\ WaitingOK /\ SentOK

LEMMA RouterInvImplies ==
  RouterInv => TypeOK /\ FramesAccepted /\ TtlDecreases /\ ErrorChainEnds
<1> SUFFICES ASSUME RouterInv
             PROVE  TypeOK /\ FramesAccepted /\ TtlDecreases /\ ErrorChainEnds
  OBVIOUS
<1>1. TypeOK
  BY DEF RouterInv, KnownOK, WaitingOK, SentOK, FrameOK, TypeOK, Waiter, AnyFrame
<1>2. FramesAccepted
  BY DEF RouterInv, SentOK, FrameOK, FramesAccepted
<1>3. \A p \in Carried : Good(p)
  BY DEF RouterInv, WaitingOK, SentOK, FrameOK, Carried, Leaving
<1>4. TtlDecreases
  BY <1>3 DEF Good, TtlDecreases
<1>5. \A w \in waiting : w.pkt.nth <= 1
  BY DEF RouterInv, WaitingOK, First
<1>6. ErrorChainEnds
  BY <1>3, <1>5 DEF Good, ErrorChainEnds
<1> QED
  BY <1>1, <1>2, <1>4, <1>6

LEMMA RouterInvInit == Init => RouterInv
  BY DEF Init, RouterInv, KnownOK, WaitingOK, SentOK

-----------------------------------------------------------------------------
(* The operators the handlers share.                                       *)

LEMMA RouteFact ==
  ASSUME NEW ip \in IPs, Route[ip] # None
  PROVE  Route[ip].iface \in Ifaces /\ Route[ip].hop \in IPs
         /\ IfIP[Route[ip].iface] \in IPs /\ IfIP[Route[ip].iface] \in Own
  BY RouteAssumption DEF RouteAssumption, Own

\* An error about a packet that may be queued is the first in its row, or the
\* second and addressed to the router; about a packet received it is the first.
LEMMA ErrorFact ==
  ASSUME NEW p \in Packet, NEW i \in Ifaces, First(p)
  PROVE  /\ Error(IfIP[i], p) \in Packet /\ Good(Error(IfIP[i], p))
         /\ p.nth = 0 => First(Error(IfIP[i], p))
<1> DEFINE e == Error(IfIP[i], p)
<1>1. IfIP[i] \in IPs /\ IfIP[i] \in Own /\ InitTTL \in 0..(MaxTTL + InitTTL)
  BY RouteAssumption, TtlAssumption DEF RouteAssumption, TtlAssumption, Own
<1>2. p.src \in IPs /\ p.nth \in Nat
  BY DEF Packet
<1>3. e \in Packet
  <2>1. p.nth + 1 \in Nat
    BY <1>2
  <2> QED
    BY <1>1, <1>2, <2>1 DEF Error, Packet, Kinds
<1>4. e.by = "router" /\ e.src = IfIP[i] /\ e.dst = p.src /\ e.nth = p.nth + 1
  BY DEF Error
<1> HIDE DEF e
<1>5. Good(e) /\ (p.nth = 0 => First(e))
  BY <1>1, <1>2, <1>4 DEF Good, First
<1> QED
  BY <1>3, <1>5 DEF e

\* A packet goes out, or waits with an ARP request for its next hop.
LEMMA ResolveOK ==
  ASSUME RouterInv, NEW p \in Packet, Good(p), First(p),
         NEW ip \in IPs, Route[ip] # None, Resolve(p, Route[ip])
  PROVE  WaitingOK' /\ SentOK'
<1> DEFINE r == Route[ip]
<1>1. r.iface \in Ifaces /\ r.hop \in IPs
  BY RouteFact
<1> HIDE DEF r
<1>2. Resolve(p, r)
  BY DEF r
<1>3. CASE r.hop \in known
  <2>1. sent' = {Frame(r.iface, r.iface, p)} /\ waiting' = waiting
    BY <1>2, <1>3 DEF Resolve
  <2>2. FrameOK(Frame(r.iface, r.iface, p))
    BY <1>1 DEF FrameOK, Frame, AnyFrame
  <2> QED
    BY <2>1, <2>2 DEF RouterInv, WaitingOK, SentOK
<1>4. CASE r.hop \notin known
  <2> DEFINE w == [hop |-> r.hop, iface |-> r.iface, pkt |-> p]
  <2>1. waiting' = waiting \cup {w} /\ sent' \subseteq {ArpRequest(r.iface)}
    BY <1>2, <1>4 DEF Resolve
  <2>2. w \in Waiter /\ w.pkt = p
    BY <1>1 DEF Waiter
  <2> HIDE DEF w
  <2>3. WaitingOK'
    BY <2>1, <2>2 DEF RouterInv, WaitingOK
  <2>4. FrameOK(ArpRequest(r.iface))
    BY <1>1 DEF FrameOK, ArpRequest, Frame, AnyFrame
  <2> QED
    BY <2>1, <2>3, <2>4 DEF SentOK
<1> QED
  BY <1>3, <1>4

LEMMA DropOK ==
  ASSUME RouterInv, Drop
  PROVE  WaitingOK' /\ SentOK'
  BY DEF RouterInv, Drop, WaitingOK, SentOK

\* An error about a packet received
LEMMA SendErrorOK ==
  ASSUME RouterInv, NEW p \in Packet, p.nth = 0, SendError(p)
  PROVE  WaitingOK' /\ SentOK'
<1>1. p.src \in IPs
  BY DEF Packet
<1>2. CASE Route[p.src] = None
  BY <1>2, DropOK DEF SendError
<1>3. CASE Route[p.src] # None
  <2> DEFINE i == Route[p.src].iface
  <2>1. i \in Ifaces
    BY <1>1, <1>3, RouteFact
  <2>2. Resolve(Error(IfIP[i], p), Route[p.src])
    BY <1>3 DEF SendError
  <2> HIDE DEF i
  <2>3. First(p)
    BY DEF First
  <2>4. /\ Error(IfIP[i], p) \in Packet /\ Good(Error(IfIP[i], p))
        /\ First(Error(IfIP[i], p))
    BY <2>1, <2>3, ErrorFact
  <2> QED
    BY <1>1, <1>3, <2>2, <2>4, ResolveOK
<1> QED
  BY <1>2, <1>3

LEMMA ReceivedFact ==
  ASSUME NEW p \in Received
  PROVE  p \in Packet /\ p.nth = 0 /\ p.by = "host" /\ p.oldttl = p.ttl /\ p.ttl \in Nat
         /\ p.dst \in IPs
<1>1. PICK s \in IPs, d \in IPs, t \in 0..MaxTTL, k \in Kinds :
          p = [src |-> s, dst |-> d, ttl |-> t, kind |-> k, oldttl |-> t, nth |-> 0,
               by |-> "host"]
  BY DEF Received
<1>2. t \in Nat /\ t \in 0..(MaxTTL + InitTTL)
  BY TtlAssumption DEF TtlAssumption
<1> QED
  BY <1>1, <1>2 DEF Packet

-----------------------------------------------------------------------------
LEMMA RouterInvNext == RouterInv /\ [Next]_vars => RouterInv'
<1> SUFFICES ASSUME RouterInv, [Next]_vars PROVE RouterInv'
  OBVIOUS
<1>1. ASSUME NEW i \in Ifaces, NEW tip \in IPs, ReceiveArpRequest(i, tip) PROVE RouterInv'
  <2>1. UNCHANGED <<known, waiting>>
    BY <1>1 DEF ReceiveArpRequest
  <2>2. ASSUME NEW f \in sent' PROVE FrameOK(f)
    <3>1. tip = IfIP[i]
      BY <1>1, <2>2 DEF ReceiveArpRequest, ForUs
    <3>2. PICK j \in Ifaces : IfIP[j] = tip /\ f = ArpReply(j, i)
      BY <1>1, <2>2 DEF ReceiveArpRequest
    <3>3. j = i
      BY <3>1, <3>2, RouteAssumption DEF RouteAssumption
    <3> QED
      BY <3>2, <3>3 DEF FrameOK, ArpReply, Frame, AnyFrame
  <2> QED
    BY <2>1, <2>2 DEF RouterInv, KnownOK, WaitingOK, SentOK
<1>2. ASSUME NEW ip \in IPs, ReceiveArpReply(ip) PROVE RouterInv'
  <2>1. KnownOK'
    BY <1>2 DEF ReceiveArpReply, RouterInv, KnownOK
  <2>2. WaitingOK'
    BY <1>2 DEF ReceiveArpReply, RouterInv, WaitingOK
  <2>3. ASSUME NEW f \in sent' PROVE FrameOK(f)
    <3>1. PICK w \in waiting : f = Frame(w.iface, w.iface, w.pkt)
      BY <1>2, <2>3 DEF ReceiveArpReply
    <3>2. w.iface \in Ifaces /\ w.pkt \in Packet /\ Good(w.pkt)
      BY DEF RouterInv, WaitingOK, Waiter
    <3> QED
      BY <3>1, <3>2 DEF FrameOK, Frame, AnyFrame
  <2> QED
    BY <2>1, <2>2, <2>3 DEF RouterInv, SentOK
<1>3. ASSUME NEW hop \in IPs, GiveUp(hop) PROVE RouterInv'
  <2>1. KnownOK'
    BY <1>3 DEF GiveUp, RouterInv, KnownOK
  <2>2. WaitingOK'
    BY <1>3 DEF GiveUp, RouterInv, WaitingOK
  <2>3. ASSUME NEW f \in sent' PROVE FrameOK(f)
    <3>1. PICK w \in waiting : f \in Bounce(w)
      BY <1>3, <2>3 DEF GiveUp
    <3>2. w.pkt \in Packet /\ w.iface \in Ifaces /\ w.pkt.src \in IPs /\ First(w.pkt)
      BY DEF RouterInv, WaitingOK, Waiter, Packet
    <3> DEFINE r == Route[w.pkt.src]
               e == Error(IfIP[w.iface], w.pkt)
    <3>3. r # None /\ r.hop \in known /\ f = Frame(r.iface, r.iface, e)
      BY <3>1 DEF Bounce
    <3>4. r.iface \in Ifaces
      BY <3>2, <3>3, RouteFact
    <3>5. e \in Packet /\ Good(e)
      BY <3>2, ErrorFact
    <3> HIDE DEF r, e
    <3> QED
      BY <3>3, <3>4, <3>5 DEF FrameOK, Frame, AnyFrame
  <2> QED
    BY <2>1, <2>2, <2>3 DEF RouterInv, SentOK
<1>4. ASSUME NEW ip \in IPs, Expire(ip) PROVE RouterInv'
  BY <1>4 DEF Expire, RouterInv, KnownOK, WaitingOK, SentOK
<1>5. ASSUME NEW p \in Received, NEW i \in Ifaces, ReceiveEcho(p, i) PROVE RouterInv'
  <2> DEFINE e == [p EXCEPT !.src = p.dst, !.dst = p.src, !.kind = "reply",
                            !.ttl = InitTTL, !.oldttl = InitTTL, !.by = "router"]
  <2>1. UNCHANGED <<known, waiting>> /\ sent' = {Frame(i, i, e)}
    BY <1>5 DEF ReceiveEcho, Receives
  <2>2. e \in Packet
    <3>1. p \in Packet /\ InitTTL \in 0..(MaxTTL + InitTTL)
      BY ReceivedFact, TtlAssumption DEF TtlAssumption
    <3> QED
      BY <3>1 DEF Packet, Kinds
  <2>3. e.by = "router" /\ e.nth = 0
    <3>1. p \in Packet /\ p.nth = 0
      BY ReceivedFact
    <3> QED
      BY <3>1 DEF Packet
  <2> HIDE DEF e
  <2>4. FrameOK(Frame(i, i, e))
    BY <2>2, <2>3 DEF FrameOK, Frame, AnyFrame, Good
  <2> QED
    BY <2>1, <2>4 DEF RouterInv, KnownOK, WaitingOK, SentOK
<1>6. ASSUME NEW p \in Received, ReceiveOtherIcmp(p) PROVE RouterInv'
  BY <1>6, DropOK DEF ReceiveOtherIcmp, Receives, RouterInv, KnownOK
<1>7. ASSUME NEW p \in Received, ReceiveForUs(p) \/ TtlExpires(p) \/ NoRoute(p) PROVE RouterInv'
  <2>1. SendError(p) /\ UNCHANGED known
    BY <1>7 DEF ReceiveForUs, TtlExpires, NoRoute, Receives
  <2>2. WaitingOK' /\ SentOK'
    BY <2>1, ReceivedFact, SendErrorOK
  <2> QED
    BY <2>1, <2>2 DEF RouterInv, KnownOK
<1>8. ASSUME NEW p \in Received, Forward(p) PROVE RouterInv'
  <2> DEFINE e == [p EXCEPT !.ttl = @ - 1]
  <2>1. /\ UNCHANGED known /\ ~(p.ttl <= 1)
        /\ Route[p.dst] # None /\ Resolve(e, Route[p.dst])
    BY <1>8 DEF Forward, Receives, Expires
  <2>2. /\ p \in Packet /\ p.nth = 0 /\ p.by = "host" /\ p.oldttl = p.ttl /\ p.ttl \in Nat
        /\ p.dst \in IPs
    BY ReceivedFact
  <2>3. e.nth = 0 /\ e.by = "host" /\ e.ttl = p.ttl - 1 /\ e.oldttl = p.ttl
    BY <2>2 DEF Packet
  <2>4. e \in Packet
    <3>1. p.ttl - 1 \in 0..(MaxTTL + InitTTL)
      BY <2>1, <2>2, TtlAssumption DEF Packet, TtlAssumption
    <3> QED
      BY <2>2, <3>1 DEF Packet
  <2> HIDE DEF e
  <2>5. Good(e) /\ First(e)
    <3>1. e.ttl = e.oldttl - 1 /\ e.ttl >= 1
      BY <2>1, <2>2, <2>3
    <3> QED
      BY <2>3, <3>1 DEF Good, First
  <2>6. WaitingOK' /\ SentOK'
    BY <2>1, <2>2, <2>4, <2>5, ResolveOK
  <2> QED
    BY <2>1, <2>6 DEF RouterInv, KnownOK
<1>9. CASE UNCHANGED vars
  BY <1>9 DEF vars, RouterInv, KnownOK, WaitingOK, SentOK
<1>10. CASE IgnoreFrame
  BY <1>10, DropOK DEF IgnoreFrame, RouterInv, KnownOK
<1>11. ASSUME NEW hop \in IPs, Retry(hop) PROVE RouterInv'
  <2>1. UNCHANGED <<known, waiting>>
    BY <1>11 DEF Retry
  <2>2. PICK w \in waiting : sent' = {ArpRequest(w.iface)}
    BY <1>11 DEF Retry
  <2>3. w.iface \in Ifaces
    BY DEF RouterInv, WaitingOK, Waiter
  <2>4. FrameOK(ArpRequest(w.iface))
    BY <2>3 DEF FrameOK, ArpRequest, Frame, AnyFrame
  <2> QED
    BY <2>1, <2>2, <2>4 DEF RouterInv, KnownOK, WaitingOK, SentOK
<1> QED
  BY <1>1, <1>2, <1>3, <1>4, <1>5, <1>6, <1>7, <1>8, <1>9, <1>10, <1>11 DEF Next

LEMMA RouterInvariant == Spec => []RouterInv
  BY RouterInvInit, RouterInvNext, PTL DEF Spec

\* Frames and queued packets are well formed, whatever is received.
THEOREM RouterTyped == Spec => []TypeOK
  BY RouterInvariant, RouterInvImplies, PTL

\* sr_send_packet refuses no frame of any handler: its source is always the
\* address of the interface it leaves through.
THEOREM NoFrameRefused == Spec => []FramesAccepted
  BY RouterInvariant, RouterInvImplies, PTL

\* What forward_ip_packet sends, at once or from the queue, has lost exactly one
\* unit of its TTL and has one left.
THEOREM ForwardedTtl == Spec => []TtlDecreases
  BY RouterInvariant, RouterInvImplies, PTL

\* Whatever arrives, with forged sources and ARP replies for the router's own
\* addresses too: at most one error waits because of a packet, at most one more
\* is sent about that error, and only to the router itself.
THEOREM ErrorsEnd == Spec => []ErrorChainEnds
  BY RouterInvariant, RouterInvImplies, PTL
=============================================================================
