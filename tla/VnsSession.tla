----------------------------- MODULE VnsSession -----------------------------
(***************************************************************************)
(* The session between router processes (sr_main.c, sr_vns_comm.c, sr_rt.c,*)
(* sr_if.c) and the controller (srhandler.py, ofhandler.py): startup,      *)
(* authentication, hardware info, packets, end of the connection.          *)
(*                                                                         *)
(* A connection is a pair of message streams.  The controller has two      *)
(* threads: POX handles the switch (RouterInfo, PacketIn) and broadcasts   *)
(* packets to every client; the Twisted reactor accepts clients and        *)
(* handles their messages.  Both write to the same connections.  A router  *)
(* that is started again is another connection.  The client also knows the *)
(* messages of a VNS server with topology templates (TemplateServer).      *)
(***************************************************************************)
EXTENDS Integers, Sequences, FiniteSets, Functions

CONSTANTS
    Conns,       \* router processes, each with one connection
    Options,     \* Options[c]: what process c may be started with: with -T or not,
                 \* and the interface of each line of its routing table file;
                 \* None: the file is the one the server sends (rtable.vrhost)
    Switches,    \* the ports with an IP that the switch may have when it connects:
                 \* sequences of [name, mac, ip], in dict order
    Served,      \* the routing tables a server with templates may send
    MaxPackets,  \* bound on the PacketIn events
    MaxUp,       \* bound on packets a router has on the way to the controller
    None

ASSUME ConnAssumption == None \notin Conns
ASSUME BoundAssumption == MaxPackets \in Nat /\ MaxUp \in Nat
ASSUME SwitchAssumption ==
    \A P \in Switches :
        /\ Len(P) \in Nat
        /\ P = [i \in 1..Len(P) |-> [name |-> P[i].name, mac |-> P[i].mac, ip |-> P[i].ip]]
        /\ \A i, j \in DOMAIN P : P[i].name = P[j].name => i = j
ASSUME OptionAssumption ==
    /\ DOMAIN Options = Conns
    /\ \A c \in Conns : \A o \in Options[c] :
           o.template \in BOOLEAN /\ (o.rt = None => o.template)

\* The names of the interfaces in a list of ports or of struct sr_if
Names(l) == {l[i].name : i \in DOMAIN l}

AllNames == UNION {Names(P) : P \in Switches}

VARIABLES
    pc,          \* pc[c]: where process c is
    opt,         \* opt[c]: the options c was started with
    table,       \* sr->routing_table: the interface of each route
    ifs,         \* sr->if_list: name, addr and ip of each interface
    down,        \* messages from the controller to c
    up,          \* messages from c to the controller
    link,        \* link[c]: "none", "open", or "closed" by the controller's side
    srclients,   \* the clients that get every packet, in the order of their arrival
    greeting,    \* the client the reactor has appended but not yet greeted
    interfaces,  \* self.interfaces, None until the switch has connected
    known,       \* the keys of intfname_to_port
    bcast,       \* what the POX thread broadcasts and to which client next
    packets,     \* PacketIn events so far
    unanswered   \* history: the clients whose OPEN came before the switch, or
                 \* whose OPEN_TEMPLATE found no handler, and that stay connected

routerVars == <<pc, opt, table, ifs>>
poxVars == <<interfaces, known, bcast, packets>>
ctlVars == <<srclients, greeting, poxVars, unanswered>>
vars == <<routerVars, down, up, link, ctlVars>>

Msg(t) == [type |-> t, intf |-> None]
Packet(i) == [type |-> "PACKET", intf |-> i]
Hwinfo(P) == [type |-> "HWINFO", intf |-> P]
Rtable(f) == [type |-> "RTABLE", intf |-> f]
Idle == [msg |-> None, next |-> 0]

\* What sr_read_from_server_expect waits for at each point; None: anything
Expected(c) == CASE pc[c] = "auth"   -> "AUTH_REQUEST"
                 [] pc[c] = "status" -> "AUTH_STATUS"
                 [] pc[c] = "rtable" -> "RTABLE"
                 [] OTHER            -> None

Reading == {"auth", "status", "rtable", "run"}
Ended == {"exit", "abort"}
Gone == Ended \cup {"spin"}

\* What is sent to a process that has ended is discarded.
SendDown(c, m) == down' = [down EXCEPT ![c] = IF pc[c] \in Ended THEN @ ELSE Append(@, m)]
SendUp(c, m)   == up' = [up EXCEPT ![c] = Append(@, m)]
Goto(c, l)     == pc' = [pc EXCEPT ![c] = l]

\* The process ends: its memory and what it has not read are gone.
End(c, l) ==
    /\ Goto(c, l)
    /\ opt' = [opt EXCEPT ![c] = None]
    /\ table' = [table EXCEPT ![c] = <<>>]
    /\ ifs' = [ifs EXCEPT ![c] = <<>>]
    /\ down' = [down EXCEPT ![c] = <<>>]

Init ==
    /\ pc = [c \in Conns |-> "off"]
    /\ opt = [c \in Conns |-> None]
    /\ table = [c \in Conns |-> <<>>]
    /\ ifs = [c \in Conns |-> <<>>]
    /\ down = [c \in Conns |-> <<>>]
    /\ up = [c \in Conns |-> <<>>]
    /\ link = [c \in Conns |-> "none"]
    /\ srclients = <<>>
    /\ greeting = None
    /\ interfaces = None /\ known = {}
    /\ bcast = Idle
    /\ packets = 0 /\ unanswered = {}

-----------------------------------------------------------------------------
(* The router process.                                                     *)

\* sr_load_rt: the first line clears the table, each line is added at its end,
\* so a file without lines leaves the table as it was.
LoadRt(t, f) == IF f = <<>> THEN t ELSE f

\* main up to sr_connect_to_server
Start(c) ==
    /\ pc[c] = "off"
    /\ \E o \in Options[c] :
           /\ opt' = [opt EXCEPT ![c] = o]
           /\ table' = [table EXCEPT ![c] = IF o.template THEN @ ELSE LoadRt(@, o.rt)]
    /\ Goto(c, "connect")
    /\ UNCHANGED <<ifs, down, up, link, ctlVars>>

Connect(c) ==
    /\ pc[c] = "connect"
    /\ link' = [link EXCEPT ![c] = "open"]
    /\ Goto(c, "auth")
    /\ UNCHANGED <<opt, table, ifs, down, up, ctlVars>>

\* The routing table or the log file cannot be opened; gethostbyname, socket or
\* connect fails.
SetupFails(c) ==
    /\ pc[c] \in {"off", "connect"}
    /\ End(c, "exit")
    /\ UNCHANGED <<up, link, ctlVars>>

\* The next message, and taking it off the stream
Incoming(c) == Head(down[c])
Receive(c)  == down' = [down EXCEPT ![c] = Tail(@)]

CanRead(c) == pc[c] \in Reading /\ down[c] # <<>>

\* Another command than the expected one, or a length above 10000: -1, and
\* the process ends.
Refuse(c) ==
    /\ CanRead(c)
    /\ \/ Expected(c) # None /\ Incoming(c).type \notin {Expected(c), "CLOSE"}
       \/ Incoming(c).type = "LONG"
    /\ End(c, "exit")
    /\ UNCHANGED <<up, link, ctlVars>>

\* VNSCLOSE is accepted at any time: 0 is returned, and the process ends.
ReadClose(c) ==
    /\ CanRead(c)
    /\ Incoming(c).type = "CLOSE"
    /\ End(c, "exit")
    /\ UNCHANGED <<up, link, ctlVars>>

\* VNSBANNER is only printed.
ReadBanner(c) ==
    /\ CanRead(c) /\ pc[c] = "run"
    /\ Incoming(c).type = "BANNER"
    /\ Receive(c)
    /\ UNCHANGED <<routerVars, up, link, ctlVars>>

\* sr_handle_auth_request: read the key, send the salted hash
ReadAuthRequest(c) ==
    /\ CanRead(c) /\ pc[c] = "auth"
    /\ Incoming(c).type = "AUTH_REQUEST"
    /\ Receive(c)
    /\ SendUp(c, Msg("AUTH_REPLY"))
    /\ Goto(c, "status")
    /\ UNCHANGED <<opt, table, ifs, link, ctlVars>>

\* The expected message arrives, but the key or the routing table cannot be read
\* or the answer cannot be sent.
HandshakeFails(c) ==
    /\ CanRead(c) /\ pc[c] \in {"auth", "status", "rtable"}
    /\ Incoming(c).type = Expected(c)
    /\ End(c, "exit")
    /\ UNCHANGED <<up, link, ctlVars>>

\* sr_handle_auth_status and the rest of sr_connect_to_server; without -T
\* main then loads the routing table a second time and starts the sweeper.
ReadAuthStatus(c) ==
    /\ CanRead(c) /\ pc[c] = "status"
    /\ Incoming(c).type = "AUTH_STATUS"
    /\ Receive(c)
    /\ IF opt[c].template
       THEN SendUp(c, Msg("OPEN_TEMPLATE")) /\ Goto(c, "rtable") /\ UNCHANGED table
       ELSE /\ SendUp(c, Msg("OPEN"))
            /\ Goto(c, "run")
            /\ table' = [table EXCEPT ![c] = LoadRt(@, opt[c].rt)]
    /\ UNCHANGED <<opt, ifs, link, ctlVars>>

\* sr_handle_rtable writes the table to rtable.vrhost; main then loads that file
\* if it is the one of -r, otherwise the file of -r.
ReadRtable(c) ==
    /\ CanRead(c) /\ pc[c] = "rtable"
    /\ Incoming(c).type = "RTABLE"
    /\ Receive(c)
    /\ LET f == IF opt[c].rt = None THEN Incoming(c).intf ELSE opt[c].rt
       IN  table' = [table EXCEPT ![c] = LoadRt(@, f)]
    /\ Goto(c, "run")
    /\ UNCHANGED <<opt, ifs, up, link, ctlVars>>

-----------------------------------------------------------------------------
(* The interface list, sr_if.c.                                            *)

\* VNSInterface.pack: the entries a port becomes in the message
Entries(p) == << <<"HWINTERFACE", p.name>>, <<"HWSPEED", 0>>, <<"HWETHER", p.mac>>,
                 <<"HWETHIP", p.ip>>, <<"HWSUBNET", 0>>, <<"HWMASK", 0>> >>

\* sr_add_interface: a new record at the end; its addresses are not set
AddInterface(l, n) == Append(l, [name |-> n, mac |-> None, ip |-> None])

\* the walk to the end of the list is missing
FaultySetEtherAddr(l, v) == [l EXCEPT ![1].mac = v]

\* sr_set_ether_addr and sr_set_ether_ip: the LAST interface of the list.  They
\* assert that there is one: HWINTERFACE is the first entry of a port.
SetEtherAddr(l, v) == [l EXCEPT ![Len(l)].mac = v]
SetEtherIp(l, v)   == [l EXCEPT ![Len(l)].ip = v]

\* The switch of sr_handle_hwinfo
HandleEntry(l, e) == CASE e[1] = "HWINTERFACE" -> AddInterface(l, e[2])
                       [] e[1] = "HWETHER"     -> SetEtherAddr(l, e[2])
                       [] e[1] = "HWETHIP"     -> SetEtherIp(l, e[2])
                       [] OTHER                -> l

\* The k-th entry of the message about the ports P; each port has six
Entry(P, k) == Entries(P[((k - 1) \div 6) + 1])[((k - 1) % 6) + 1]

\* What the loop of sr_handle_hwinfo builds from the ports P, round by round:
\* each port starts a record of its own, so the records that are there already
\* stay as they are.
Built[P \in Switches] ==
    LET list[k \in 0..(6 * Len(P))] ==
            IF k = 0 THEN <<>> ELSE HandleEntry(list[k - 1], Entry(P, k))
    IN  list[6 * Len(P)]

\* sr_handle_hwinfo
HandleHwinfo(l, P) == l \o Built[P]

\* sr_get_interface finds one with this name
HasInterface(l, n) == n \in Names(l)

\* every interface of the routing table is in the list: not checked
FaultyVerified(t, l) == t # <<>> /\ l # <<>>

\* sr_verify_routing_table returns 0
Verified(t, l) == t # <<>> /\ l # <<>> /\ \A n \in Range(t) : HasInterface(l, n)

\* VNSHWINFO: the interfaces are appended to the list.
ReadHwinfo(c) ==
    /\ CanRead(c) /\ pc[c] = "run"
    /\ Incoming(c).type = "HWINFO"
    /\ LET l == HandleHwinfo(ifs[c], Incoming(c).intf)
       IN  IF Verified(table[c], l)
           THEN Receive(c) /\ ifs' = [ifs EXCEPT ![c] = l] /\ UNCHANGED <<pc, opt, table>>
           ELSE End(c, "exit")
    /\ UNCHANGED <<up, link, ctlVars>>

\* VNSPACKET: sr_arp_req_not_for_us asserts that the interface exists, unless
\* the frame is shorter than an ARP packet; then it goes to sr_handlepacket.
\* What the handlers send in answer depends on the frame: see SendPacket.
ReadPacket(c) ==
    /\ CanRead(c) /\ pc[c] = "run"
    /\ Incoming(c).type = "PACKET"
    /\ \/ Receive(c) /\ UNCHANGED routerVars
       \/ ~HasInterface(ifs[c], Incoming(c).intf) /\ End(c, "abort")
    /\ UNCHANGED <<up, link, ctlVars>>

\* the interface is that of a route, whether it exists or not
FaultySendPacket(c, i) ==
    /\ pc[c] = "run" /\ i \in Range(table[c]) /\ link[c] = "open"
    /\ Len(up[c]) < MaxUp
    /\ SendUp(c, Packet(i))
    /\ UNCHANGED <<routerVars, down, link, ctlVars>>

\* sr_send_packet, from a handler or from the sweeper: the packet must leave
\* through an interface of the list.
SendPacket(c, i) ==
    /\ pc[c] = "run"
    /\ HasInterface(ifs[c], i)
    /\ link[c] = "open"
    /\ Len(up[c]) < MaxUp
    /\ SendUp(c, Packet(i))
    /\ UNCHANGED <<routerVars, down, link, ctlVars>>

\* recv returns 0 at the end of the stream, for ever: the loop never ends.
ReadEof(c) ==
    /\ pc[c] \in Reading
    /\ link[c] = "closed" /\ down[c] = <<>>
    /\ Goto(c, "spin")
    /\ UNCHANGED <<opt, table, ifs, down, up, link, ctlVars>>

\* recv fails, for instance because the connection was reset
ReadError(c) ==
    /\ pc[c] \in Reading
    /\ link[c] = "closed"
    /\ End(c, "exit")
    /\ UNCHANGED <<up, link, ctlVars>>

\* A write to a connection that is gone raises SIGPIPE, even while the main
\* thread is stuck at the end of the stream.
BrokenPipe(c) ==
    /\ pc[c] \in {"run", "spin"}
    /\ ifs[c] # <<>>
    /\ link[c] = "closed"
    /\ End(c, "exit")
    /\ UNCHANGED <<up, link, ctlVars>>

-----------------------------------------------------------------------------
(* The controller: the reactor thread.                                     *)

\* a client is appended whenever it shows up
FaultyAccept(c) ==
    /\ greeting = None /\ link[c] = "open"
    /\ srclients' = Append(srclients, c)
    /\ greeting' = c
    /\ UNCHANGED <<routerVars, down, up, link, poxVars, unanswered>>

\* _handle_new_client appends the client ...
Accept(c) ==
    /\ greeting = None
    /\ link[c] = "open" /\ c \notin Range(srclients)
    /\ srclients' = Append(srclients, c)
    /\ greeting' = c
    /\ UNCHANGED <<routerVars, down, up, link, poxVars, unanswered>>

\* ... and then sends the request that drives its state machine.
Greet(c) ==
    /\ greeting = c
    /\ greeting' = None
    /\ IF link[c] = "open" THEN SendDown(c, Msg("AUTH_REQUEST")) ELSE UNCHANGED down
    /\ UNCHANGED <<routerVars, up, link, srclients, poxVars, unanswered>>

\* _handle_recv_msg runs for the next message of c
Handles(c, t) ==
    /\ greeting = None
    /\ link[c] = "open" /\ c \in Range(srclients)
    /\ up[c] # <<>> /\ Head(up[c]).type = t
    /\ up' = [up EXCEPT ![c] = Tail(@)]

\* the reply is checked and the status not sent
FaultyHandleAuthReply(c) ==
    /\ Handles(c, "AUTH_REPLY")
    /\ UNCHANGED <<routerVars, down, link, ctlVars>>

HandleAuthReply(c) ==
    /\ Handles(c, "AUTH_REPLY")
    /\ SendDown(c, Msg("AUTH_STATUS"))
    /\ UNCHANGED <<routerVars, link, ctlVars>>

\* nothing is sent to the client that asks
FaultyHandleOpen(c) ==
    /\ Handles(c, "OPEN")
    /\ UNCHANGED <<routerVars, down, link, ctlVars>>

\* Without interfaces the exception is logged and nothing is sent.
HandleOpen(c) ==
    /\ Handles(c, "OPEN")
    /\ IF interfaces # None
       THEN SendDown(c, Hwinfo(interfaces)) /\ UNCHANGED unanswered
       ELSE unanswered' = unanswered \cup {c} /\ UNCHANGED down
    /\ UNCHANGED <<routerVars, link, srclients, greeting, poxVars>>

\* There is no _handle_open_template_msg: the exception leaves the handler,
\* and the library keeps or closes the connection.
HandleOpenTemplate(c) ==
    /\ Handles(c, "OPEN_TEMPLATE")
    /\ \/ unanswered' = unanswered \cup {c} /\ UNCHANGED link
       \/ link' = [link EXCEPT ![c] = "closed"] /\ UNCHANGED unanswered
    /\ UNCHANGED <<routerVars, down, srclients, greeting, poxVars>>

\* A server that has topology templates answers with the routing table, then
\* with the interfaces, and may end the session at once or later.
TemplateServer(c) ==
    /\ Handles(c, "OPEN_TEMPLATE")
    /\ interfaces # None
    /\ \E f \in Served :
       \E answer \in {<<Rtable(f), Msg("BANNER"), Hwinfo(interfaces)>>,
                      <<Rtable(f), Hwinfo(interfaces), Msg("CLOSE")>>, <<Msg("CLOSE")>>} :
           down' = [down EXCEPT ![c] = IF pc[c] \in Ended THEN @ ELSE @ \o answer]
    /\ UNCHANGED <<routerVars, link, ctlVars>>

HandlePacket(c) ==
    /\ Handles(c, "PACKET")
    /\ UNCHANGED <<routerVars, down, link, ctlVars>>

-----------------------------------------------------------------------------
(* The controller: the POX thread.                                         *)

\* ofhandler.py raises RouterInfo whenever the switch connects.  Nothing is
\* removed from the tables.  The reactor reads self.interfaces and, for a packet,
\* intfname_to_port, which the loop has filled before it sets self.interfaces: a
\* name that reached a router is in the map, so the loop is one step.
RouterInfo(P) ==
    /\ bcast = Idle
    /\ interfaces' = P
    /\ known' = known \cup Names(P)
    /\ UNCHANGED <<routerVars, down, up, link, srclients, greeting, bcast, packets, unanswered>>

\* A frame from the switch, under the name port_to_intfname has for its port,
\* which may be from an earlier RouterInfo; without one the frame is dropped.
PacketIn(i) ==
    /\ bcast = Idle
    /\ i \in known
    /\ packets < MaxPackets
    /\ packets' = packets + 1
    /\ \E m \in {Packet(i), Msg("LONG")} : bcast' = [msg |-> m, next |-> 1]
    /\ UNCHANGED <<routerVars, down, up, link, srclients, greeting, interfaces, known, unanswered>>

\* One iteration of the loop of broadcast, over the list as it is now; a closed
\* connection swallows the message.
BroadcastStep ==
    /\ bcast # Idle
    /\ IF bcast.next <= Len(srclients)
       THEN LET c == srclients[bcast.next] IN
            /\ bcast' = [bcast EXCEPT !.next = @ + 1]
            /\ IF link[c] = "open" THEN SendDown(c, bcast.msg) ELSE UNCHANGED down
       ELSE bcast' = Idle /\ UNCHANGED down
    /\ UNCHANGED <<routerVars, up, link, srclients, greeting, interfaces, known, packets, unanswered>>

\* The connection ends on the controller's side, because it stops or because
\* the client is gone; what it has sent before is still delivered, or lost.
\* _handle_client_disconnected leaves the client in srclients.
HangUp(c) ==
    /\ link[c] = "open"
    /\ link' = [link EXCEPT ![c] = "closed"]
    /\ UNCHANGED <<routerVars, down, up, ctlVars>>

Reads(c) ==
    \/ Refuse(c) \/ ReadAuthRequest(c) \/ HandshakeFails(c) \/ ReadAuthStatus(c)
    \/ ReadRtable(c) \/ ReadHwinfo(c) \/ ReadPacket(c) \/ ReadBanner(c) \/ ReadClose(c)
    \/ ReadEof(c) \/ ReadError(c)

Router(c) ==
    \/ Start(c) \/ Connect(c) \/ SetupFails(c)
    \/ Reads(c)
    \/ \E i \in AllNames : SendPacket(c, i)
    \/ BrokenPipe(c)

Reactor(c) ==
    \/ Accept(c) \/ Greet(c)
    \/ HandleAuthReply(c) \/ HandleOpen(c) \/ HandleOpenTemplate(c)
    \/ TemplateServer(c) \/ HandlePacket(c)

SwitchConnects == \E P \in Switches : RouterInfo(P)

Pox == SwitchConnects \/ (\E i \in AllNames : PacketIn(i)) \/ BroadcastStep

Next == Pox \/ \E c \in Conns : Router(c) \/ Reactor(c) \/ HangUp(c)

Spec == Init /\ [][Next]_vars

(***************************************************************************)
(* Fairness: a process that can read does, and the reactor handles what    *)
(* has arrived on each connection.  Nothing is assumed about the POX       *)
(* thread, the switch, packets or hang-ups.                                *)
(***************************************************************************)
Fairness == \A c \in Conns : WF_vars(Reads(c)) /\ WF_vars(Reactor(c))

FairSpec == Spec /\ Fairness

-----------------------------------------------------------------------------
(* Correctness properties.                                                 *)

DownTypes == {"AUTH_REQUEST", "AUTH_STATUS", "RTABLE", "HWINFO", "PACKET", "LONG",
              "BANNER", "CLOSE"}
UpTypes == {"AUTH_REPLY", "OPEN", "OPEN_TEMPLATE", "PACKET"}

\* Processes, streams and the controller's tables are what the code declares.
TypeOK ==
    /\ pc \in [Conns -> {"off", "connect"} \cup Reading \cup Gone]
    /\ \A c \in Conns : opt[c] \in Options[c] \cup {None}
    /\ \A c \in Conns : \A i \in DOMAIN ifs[c] : ifs[c][i].name \in AllNames
    /\ \A c \in Conns : \A i \in DOMAIN down[c] : down[c][i].type \in DownTypes
    /\ \A c \in Conns : \A i \in DOMAIN up[c] : up[c][i].type \in UpTypes
    /\ link \in [Conns -> {"none", "open", "closed"}]
    /\ Range(srclients) \subseteq Conns /\ IsInjective(srclients)
    /\ greeting \in Conns \cup {None}
    /\ interfaces \in Switches \cup {None} /\ known \subseteq AllNames
    /\ bcast.next \in 0..Len(srclients) + 1
    /\ packets \in 0..MaxPackets
    /\ unanswered \subseteq Range(srclients)

\* A router forwards only through interfaces that exist: once the hardware info
\* is there, every route names one of them, and the table is that of the file or
\* of the server, although main loads it twice.  The packet handlers rely on this
\* when they take the interface of a route.
ReadyConsistent ==
    \A c \in Conns : pc[c] = "run" /\ ifs[c] # <<>> =>
        /\ IF opt[c].rt = None THEN table[c] \in Served ELSE table[c] = opt[c].rt
        /\ Range(table[c]) \subseteq Names(ifs[c])

\* The interfaces of a router are those of one announcement of the switch, each
\* with the MAC and the IP of its own port, although they come one entry at a
\* time and the switch may connect again with other ports at any moment.  The
\* sweeper and sr_send_packet compare these addresses with every frame.
InterfacesAnnounced ==
    \A c \in Conns : ifs[c] \in Switches \cup {<<>>}

\* Every packet a router sends names an interface the controller can map to a
\* port: the except branch of _handle_packet_msg, which uses out_port before
\* it is set, is never taken, whenever and however often the switch connects.
PacketOutKnown ==
    \A c \in Conns : \A i \in DOMAIN up[c] :
        up[c][i].type = "PACKET" => up[c][i].intf \in known

\* The messages of the handshake in a stream
Steps(q) == {i \in DOMAIN q : q[i].type \notin {"PACKET", "LONG"}}

\* The handshake is a token that client and controller pass to each other: as
\* long as the connection stands, exactly one side is to move, so they never
\* wait for each other and no step is sent twice, whatever is broadcast
\* meanwhile.
HandshakeToken ==
    \A c \in Conns : link[c] = "open" /\ pc[c] \in {"auth", "status"} =>
        Cardinality(Steps(up[c])) + Cardinality(Steps(down[c]))
        + (IF c \notin Range(srclients) \/ greeting = c THEN 1 ELSE 0) = 1

\* A router that has connected becomes ready to process packets, unless it
\* stops, whatever is broadcast and whenever the connection is lost: it is not
\* left in the authentication, not waiting for a routing table and not without
\* interfaces.  Excused are only the two requests this controller loses: an
\* OPEN that came before the switch had connected, and an OPEN_TEMPLATE whose
\* exception left the connection standing.
ReadyOrGone ==
    \A c \in Conns : []<>(\/ pc[c] \in {"off", "connect"} \cup Gone
                          \/ ifs[c] # <<>>
                          \/ c \in unanswered)
=============================================================================
