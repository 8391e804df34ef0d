-------------------------- MODULE VnsSessionProofs ---------------------------
(***************************************************************************)
(* Theorems about the session of VnsSession, for any number of router      *)
(* processes, any switches and any number of packets on the way.           *)
(***************************************************************************)
EXTENDS VnsSession, SequenceTheorems, FiniteSetTheorems, TLAPS

-----------------------------------------------------------------------------
(* What the loop of sr_handle_hwinfo builds.                               *)

\* The list after the ports up to j and r entries of the next one
Partial(P, j, r) ==
    [i \in 1..(IF r = 0 THEN j ELSE j + 1) |->
        IF i <= j THEN P[i]
        ELSE [name |-> P[i].name,
              mac  |-> IF r >= 3 THEN P[i].mac ELSE None,
              ip   |-> IF r >= 4 THEN P[i].ip ELSE None]]

LEMMA PortFact ==
  ASSUME NEW P \in Switches
  PROVE  /\ Len(P) \in Nat /\ DOMAIN P = 1..Len(P) /\ P = [i \in 1..Len(P) |-> P[i]]
         /\ \A i \in 1..Len(P) : P[i] = [name |-> P[i].name, mac |-> P[i].mac, ip |-> P[i].ip]
  BY SwitchAssumption DEF SwitchAssumption

LEMMA SetLast ==
  ASSUME NEW f, NEW m \in Nat, m >= 1, f = [i \in 1..m |-> f[i]], NEW v
  PROVE  [f EXCEPT ![m] = v] = [i \in 1..m |-> IF i = m THEN v ELSE f[i]]
  OBVIOUS

\* One round of the loop
LEMMA EntryStep ==
  ASSUME NEW P \in Switches, NEW j \in Nat, j < Len(P), NEW r \in 1..6
  PROVE  HandleEntry(Partial(P, j, r - 1), Entries(P[j + 1])[r]) =
             IF r = 6 THEN Partial(P, j + 1, 0) ELSE Partial(P, j, r)
<1> DEFINE p == P[j + 1]
           e == Entries(p)
           old == Partial(P, j, r - 1)
<1>0. Len(P) \in Nat /\ j + 1 \in 1..Len(P) /\ p = [name |-> p.name, mac |-> p.mac, ip |-> p.ip]
  BY PortFact
<1>1. CASE r = 1
  <2>1. e[1] = <<"HWINTERFACE", p.name>> /\ r - 1 = 0
    BY <1>1 DEF Entries
  <2>2. HandleEntry(old, e[1]) = Append(old, [name |-> p.name, mac |-> None, ip |-> None])
    BY <2>1 DEF HandleEntry, AddInterface
  <2>3. old = [i \in 1..j |-> P[i]]
    BY <2>1 DEF Partial
  <2>4. Append([i \in 1..j |-> P[i]], [name |-> p.name, mac |-> None, ip |-> None]) = Partial(P, j, 1)
    BY DEF Partial
  <2>5. HandleEntry(old, e[1]) = Partial(P, j, 1)
    BY ONLY <2>2, <2>3, <2>4, Zenon
  <2> QED
    BY <1>1, <2>5
<1>2. CASE r = 2
  <2>1. e[2] = <<"HWSPEED", 0>> /\ r - 1 = 1
    BY <1>2 DEF Entries
  <2>2. HandleEntry(old, e[2]) = old
    BY <2>1 DEF HandleEntry
  <2>3. old = Partial(P, j, 2)
    BY <2>1 DEF Partial
  <2> QED
    BY <1>2, <2>2, <2>3
<1>3. CASE r = 3
  <2>1. e[3] = <<"HWETHER", p.mac>> /\ r - 1 = 2
    BY <1>3 DEF Entries
  <2>2. HandleEntry(old, e[3]) = [old EXCEPT ![Len(old)].mac = p.mac]
    BY <2>1 DEF HandleEntry, SetEtherAddr
  <2>3. Len(old) = j + 1 /\ DOMAIN old = 1..(j + 1)
    BY <2>1 DEF Partial
  <2>4. [old EXCEPT ![j + 1].mac = p.mac] = Partial(P, j, 3)
    <3> DEFINE new == [name |-> p.name, mac |-> p.mac, ip |-> None]
    <3>1. old = [i \in 1..(j + 1) |-> IF i <= j THEN P[i]
                                      ELSE [name |-> P[i].name, mac |-> None, ip |-> None]]
      BY <2>1 DEF Partial
    <3>2. old[j + 1] = [name |-> p.name, mac |-> None, ip |-> None] /\ \A i \in 1..j : old[i] = P[i]
      BY <3>1
    <3>a. old = [i \in 1..(j + 1) |-> old[i]]
      BY <3>1
    <3>3. [old[j + 1] EXCEPT !.mac = p.mac] = new
      BY <3>2
    <3>4. Partial(P, j, 3) = [i \in 1..(j + 1) |-> IF i = j + 1 THEN new ELSE P[i]]
      BY DEF Partial
    <3> HIDE DEF old, new
    <3>5. [old EXCEPT ![j + 1].mac = p.mac] = [old EXCEPT ![j + 1] = new]
      BY <3>3
    <3>6. [old EXCEPT ![j + 1] = new] = [i \in 1..(j + 1) |-> IF i = j + 1 THEN new ELSE P[i]]
      <4>1. j + 1 \in Nat /\ j + 1 >= 1 /\ \A i \in 1..(j + 1) : i # j + 1 => i \in 1..j
        OBVIOUS
      <4>2. [old EXCEPT ![j + 1] = new] = [i \in 1..(j + 1) |-> IF i = j + 1 THEN new ELSE old[i]]
        BY ONLY <3>a, <4>1, SetLast
      <4>3. \A i \in 1..(j + 1) : i # j + 1 => old[i] = P[i]
        BY ONLY <3>2, <4>1
      <4> QED
        BY ONLY <4>2, <4>3
    <3> QED
      BY <3>4, <3>5, <3>6
  <2>5. HandleEntry(old, e[3]) = Partial(P, j, 3)
    BY ONLY <2>2, <2>3, <2>4, Zenon
  <2> QED
    BY <1>3, <2>5
<1>4. CASE r = 4
  <2>1. e[4] = <<"HWETHIP", p.ip>> /\ r - 1 = 3
    BY <1>4 DEF Entries
  <2>2. HandleEntry(old, e[4]) = [old EXCEPT ![Len(old)].ip = p.ip]
    BY <2>1 DEF HandleEntry, SetEtherIp
  <2>3. Len(old) = j + 1 /\ DOMAIN old = 1..(j + 1)
    BY <2>1 DEF Partial
  <2>4. [old EXCEPT ![j + 1].ip = p.ip] = Partial(P, j, 4)
    <3> DEFINE new == [name |-> p.name, mac |-> p.mac, ip |-> p.ip]
    <3>1. old = [i \in 1..(j + 1) |-> IF i <= j THEN P[i]
                                      ELSE [name |-> P[i].name, mac |-> P[i].mac, ip |-> None]]
      BY <2>1 DEF Partial
    <3>2. old[j + 1] = [name |-> p.name, mac |-> p.mac, ip |-> None] /\ \A i \in 1..j : old[i] = P[i]
      BY <3>1
    <3>a. old = [i \in 1..(j + 1) |-> old[i]]
      BY <3>1
    <3>3. [old[j + 1] EXCEPT !.ip = p.ip] = new
      BY <3>2
    <3>4. Partial(P, j, 4) = [i \in 1..(j + 1) |-> IF i = j + 1 THEN new ELSE P[i]]
      BY DEF Partial
    <3> HIDE DEF old, new
    <3>5. [old EXCEPT ![j + 1].ip = p.ip] = [old EXCEPT ![j + 1] = new]
      BY <3>3
    <3>6. [old EXCEPT ![j + 1] = new] = [i \in 1..(j + 1) |-> IF i = j + 1 THEN new ELSE P[i]]
      <4>1. j + 1 \in Nat /\ j + 1 >= 1 /\ \A i \in 1..(j + 1) : i # j + 1 => i \in 1..j
        OBVIOUS
      <4>2. [old EXCEPT ![j + 1] = new] = [i \in 1..(j + 1) |-> IF i = j + 1 THEN new ELSE old[i]]
        BY ONLY <3>a, <4>1, SetLast
      <4>3. \A i \in 1..(j + 1) : i # j + 1 => old[i] = P[i]
        BY ONLY <3>2, <4>1
      <4> QED
        BY ONLY <4>2, <4>3
    <3> QED
      BY <3>4, <3>5, <3>6
  <2>5. HandleEntry(old, e[4]) = Partial(P, j, 4)
    BY ONLY <2>2, <2>3, <2>4, Zenon
  <2> QED
    BY <1>4, <2>5
<1>5. CASE r = 5
  <2>1. e[5] = <<"HWSUBNET", 0>> /\ r - 1 = 4
    BY <1>5 DEF Entries
  <2>2. HandleEntry(old, e[5]) = old
    BY <2>1 DEF HandleEntry
  <2>3. old = Partial(P, j, 5)
    BY <2>1 DEF Partial
  <2> QED
    BY <1>5, <2>2, <2>3
<1>6. CASE r = 6
  <2>1. e[6] = <<"HWMASK", 0>> /\ r - 1 = 5
    BY <1>6 DEF Entries
  <2>2. HandleEntry(old, e[6]) = old
    BY <2>1 DEF HandleEntry
  <2>3. old = Partial(P, j + 1, 0)
    BY <1>0, <2>1 DEF Partial
  <2> QED
    BY <1>6, <2>2, <2>3
<1> QED
  BY <1>1, <1>2, <1>3, <1>4, <1>5, <1>6

\* Induction: a property of numbers that fails somewhere fails for a least number.
LEMMA LeastNumber ==
  ASSUME NEW T \in SUBSET Nat, T # {}
  PROVE  \E n \in T : \A m \in T : n <= m
<1> DEFINE R == OpToRel(<, Nat)
<1>1. IsWellFoundedOn(R, Nat)
  BY NatLessThanWellFounded
<1>2. \A x, y \in Nat : <<y, x>> \in R <=> y < x
  BY DEF OpToRel
<1> HIDE DEF R
<1>3. PICK x \in T : \A y \in T : ~(<<y, x>> \in R)
  BY <1>1, WFMin
<1>4. \A y \in T : y \in Nat /\ x \in Nat /\ ~(y < x)
  BY <1>2, <1>3
<1> QED
  BY <1>4

LEMMA BuiltIsAnnounced == ASSUME NEW P \in Switches PROVE Built[P] = P
<1> DEFINE n == 6 * Len(P)
           Body(l, k) == IF k = 0 THEN <<>> ELSE HandleEntry(l[k - 1], Entry(P, k))
           Rounds(l) == l = [k \in 0..n |-> Body(l, k)]
           g == [k \in 0..n |-> Partial(P, k \div 6, k % 6)]
<1>0. Len(P) \in Nat /\ n \in Nat
  BY PortFact
<1>1. ASSUME NEW k \in 0..n PROVE g[k] = Body(g, k)
  <2>1. CASE k = 0
    <3>1. g[k] = Partial(P, 0, 0)
      BY <2>1
    <3> QED
      BY <2>1, <3>1 DEF Partial
  <2>2. CASE k # 0
    <3> DEFINE j == (k - 1) \div 6
               r == ((k - 1) % 6) + 1
    <3>1. /\ k - 1 \in 0..n /\ j \in Nat /\ j < Len(P) /\ r \in 1..6 /\ r - 1 = (k - 1) % 6
          /\ r = 6 => k \div 6 = j + 1 /\ k % 6 = 0
          /\ r # 6 => k \div 6 = j /\ k % 6 = r
      BY <1>0, <2>2
    <3>2. g[k - 1] = Partial(P, j, r - 1) /\ g[k] = Partial(P, k \div 6, k % 6)
      BY <3>1
    <3>3. Entry(P, k) = Entries(P[j + 1])[r]
      BY DEF Entry
    <3> HIDE DEF g, j, r
    <3>4. HandleEntry(g[k - 1], Entry(P, k)) = IF r = 6 THEN Partial(P, j + 1, 0) ELSE Partial(P, j, r)
      BY <3>1, <3>2, <3>3, EntryStep
    <3>5. g[k] = IF r = 6 THEN Partial(P, j + 1, 0) ELSE Partial(P, j, r)
      BY <3>1, <3>2
    <3> QED
      BY <2>2, <3>4, <3>5
  <2> QED
    BY <2>1, <2>2
<1>2. g[n] = P
  <2>1. n \in 0..n /\ n \div 6 = Len(P) /\ n % 6 = 0
    BY <1>0
  <2>2. g[n] = Partial(P, Len(P), 0)
    BY <2>1
  <2>3. P = [i \in 1..Len(P) |-> P[i]]
    BY PortFact
  <2>4. ASSUME NEW l \in Nat PROVE Partial(P, l, 0) = [i \in 1..l |-> P[i]]
    BY DEF Partial
  <2>5. Partial(P, Len(P), 0) = [i \in 1..Len(P) |-> P[i]]
    BY <1>0, <2>4
  <2> QED
    BY ONLY <2>2, <2>3, <2>5, Zenon
<1>3. Rounds(g)
  <2>1. g = [k \in 0..n |-> g[k]]
    OBVIOUS
  <2> HIDE DEF g
  <2> QED
    BY <1>1, <2>1
<1> DEFINE h == CHOOSE l : Rounds(l)
<1>4. Rounds(h)
  <2> HIDE DEF Rounds
  <2> QED
    BY <1>3
<1>5. Built[P] = h[n]
  BY DEF Built
<1> HIDE DEF g, h
<1>6. \A k \in 0..n : h[k] = g[k]
  <2> DEFINE T == {k \in 0..n : h[k] # g[k]}
  <2> SUFFICES ASSUME T # {} PROVE FALSE
    OBVIOUS
  <2>1. T \in SUBSET Nat
    BY <1>0
  <2>2. PICK m \in T : \A k \in T : m <= k
    BY <2>1, LeastNumber
  <2>3. m \in 0..n /\ h[m] # g[m]
    OBVIOUS
  <2>4. h[m] = Body(h, m) /\ g[m] = Body(g, m)
    BY <1>3, <1>4, <2>3
  <2>5. m # 0
    BY <2>3, <2>4
  <2>6. m - 1 \in 0..n /\ ~(m <= m - 1)
    BY <1>0, <2>3, <2>5
  <2>7. h[m - 1] = g[m - 1]
    BY <2>2, <2>6
  <2> QED
    BY <2>3, <2>4, <2>7
<1> QED
  BY <1>0, <1>2, <1>5, <1>6

-----------------------------------------------------------------------------
(* The inductive invariant.                                                *)

\* Messages on the way, when the controller knows the names K
DownMsg(K) ==
    {m \in [type : DownTypes, intf : Switches \cup Served \cup AllNames \cup {None}] :
        /\ m.type = "HWINFO" => m.intf \in Switches /\ Names(m.intf) \subseteq K
        /\ m.type = "RTABLE" => m.intf \in Served}
UpMsg(K) ==
    {m \in [type : UpTypes, intf : AllNames \cup {None}] : m.type = "PACKET" => m.intf \in K}

\* There is a value for each connection.
Total(f) == f = [c \in Conns |-> f[c]]

Domains ==
    /\ Total(pc) /\ Total(opt) /\ Total(table) /\ Total(ifs)
    /\ Total(down) /\ Total(up) /\ Total(link)

ConnTypes(c) ==
    /\ pc[c] \in {"off", "connect"} \cup Reading \cup Gone
    /\ link[c] \in {"none", "open", "closed"}
    /\ opt[c] \in Options[c] \cup {None}
    /\ ifs[c] \in Switches \cup {<<>>} /\ Names(ifs[c]) \subseteq known
    /\ down[c] \in Seq(DownMsg(known))
    /\ up[c] \in Seq(UpMsg(known))

\* c is among the clients that get every packet.
Client(c) == \E i \in 1..Len(srclients) : srclients[i] = c

ControllerOK ==
    /\ srclients \in Seq(Conns)
    /\ \A i, j \in 1..Len(srclients) : srclients[i] = srclients[j] => i = j
    /\ greeting \in Conns \cup {None} /\ (greeting # None => Client(greeting))
    /\ interfaces \in Switches \cup {None}
    /\ interfaces # None => Names(interfaces) \subseteq known
    /\ known \subseteq AllNames
    /\ \/ bcast = Idle
       \/ /\ bcast = [msg |-> bcast.msg, next |-> bcast.next]
          /\ bcast.next \in 1..(Len(srclients) + 1)
          /\ bcast.msg \in DownMsg(known) /\ bcast.msg.type \in {"PACKET", "LONG"}
    /\ packets \in 0..MaxPackets
    /\ \A c \in unanswered : Client(c)

\* The routing table is the file's or the server's from the moment it is loaded.
TableOK(c) ==
    /\ pc[c] \notin {"off"} \cup Ended => opt[c] \in Options[c]
    /\ pc[c] = "off" => table[c] = <<>>
    /\ pc[c] \in {"connect", "auth", "status"} =>
           table[c] = IF opt[c].template THEN <<>> ELSE opt[c].rt
    /\ pc[c] = "rtable" => table[c] = <<>> /\ ifs[c] = <<>>
    /\ pc[c] = "run" => IF opt[c].rt = None THEN table[c] \in Served ELSE table[c] = opt[c].rt
    /\ pc[c] = "run" /\ ifs[c] # <<>> => Range(table[c]) \subseteq Names(ifs[c])

\* Messages of the types T in a stream: none, and one at most
Lacks(q, T) == \A i \in 1..Len(q) : q[i].type \notin T
AtMostOne(q, T) == \A i, j \in 1..Len(q) : q[i].type \in T /\ q[j].type \in T => i = j

StepTypes == (DownTypes \cup UpTypes) \ {"PACKET", "LONG"}

\* One message of the handshake, of type t
OneStep(q, t) == AtMostOne(q, StepTypes) /\ ~Lacks(q, {t})

\* Before and after the handshake
Outside(c) ==
    /\ pc[c] \in {"off", "connect"} =>
           /\ ~Client(c) /\ link[c] = "none"
           /\ up[c] = <<>> /\ down[c] = <<>> /\ ifs[c] = <<>>
    /\ pc[c] \in Ended => down[c] = <<>> /\ ifs[c] = <<>>
    /\ pc[c] = "spin" => down[c] = <<>> /\ link[c] = "closed"

\* The request is still to come, or it is on the way.
InAuth(c) ==
    pc[c] = "auth" =>
        /\ ifs[c] = <<>> /\ Lacks(up[c], StepTypes)
        /\ ~Client(c) \/ greeting = c => Lacks(down[c], StepTypes)
        /\ Client(c) /\ greeting # c =>
               \/ OneStep(down[c], "AUTH_REQUEST")
               \/ link[c] # "open" /\ Lacks(down[c], StepTypes)

\* The reply is on the way, or the status is.
InStatus(c) ==
    pc[c] = "status" =>
        /\ ifs[c] = <<>> /\ Client(c) /\ greeting # c
        /\ \/ OneStep(up[c], "AUTH_REPLY") /\ Lacks(down[c], StepTypes)
           \/ Lacks(up[c], StepTypes) /\ OneStep(down[c], "AUTH_STATUS")

\* Hardware info comes once: it is asked for, on the way or processed.
InRun(c) ==
    pc[c] \in {"rtable", "run"} =>
        /\ Client(c) /\ greeting # c
        /\ Lacks(up[c], {"AUTH_REPLY"}) /\ AtMostOne(up[c], StepTypes)
        /\ AtMostOne(down[c], {"HWINFO"})
        /\ Lacks(up[c], StepTypes) \/ (Lacks(down[c], {"HWINFO"}) /\ ifs[c] = <<>>)
        /\ Lacks(down[c], {"HWINFO"}) \/ ifs[c] = <<>>

Phase(c) == Outside(c) /\ InAuth(c) /\ InStatus(c) /\ InRun(c)

ConnOK(c) == ConnTypes(c) /\ TableOK(c) /\ Phase(c)

SessionInv == Domains /\ ControllerOK /\ \A c \in Conns : ConnOK(c)

-----------------------------------------------------------------------------
(* Streams of messages.                                                    *)

LEMMA AppendFact ==
  ASSUME NEW S, NEW q \in Seq(S), NEW m \in S
  PROVE  /\ Append(q, m) \in Seq(S)
         /\ \A T : Lacks(q, T) /\ m.type \notin T => Lacks(Append(q, m), T)
         /\ \A T : AtMostOne(q, T) /\ m.type \notin T => AtMostOne(Append(q, m), T)
         /\ \A T : Lacks(q, T) => AtMostOne(Append(q, m), T)
         /\ \A T : ~Lacks(q, T) \/ m.type \in T => ~Lacks(Append(q, m), T)
<1> DEFINE n == Len(q)
           p == Append(q, m)
<1>1. /\ p \in Seq(S) /\ Len(p) = n + 1 /\ n \in Nat /\ p[n + 1] = m
      /\ \A i \in 1..n : p[i] = q[i]
  OBVIOUS
<1>2. 1..Len(p) = 1..n \cup {n + 1} /\ 1..Len(q) = 1..n
  BY <1>1
<1> HIDE DEF n, p
<1>3. p \in Seq(S) /\ \A T : Lacks(q, T) /\ m.type \notin T => Lacks(p, T)
  BY <1>1, <1>2 DEF Lacks
<1>4. \A T : AtMostOne(q, T) /\ m.type \notin T => AtMostOne(p, T)
  BY <1>1, <1>2 DEF AtMostOne
<1>5. \A T : Lacks(q, T) => AtMostOne(p, T)
  BY <1>1, <1>2 DEF Lacks, AtMostOne
<1>6. \A T : ~Lacks(q, T) \/ m.type \in T => ~Lacks(p, T)
  BY <1>1, <1>2 DEF Lacks
<1> QED
  BY <1>3, <1>4, <1>5, <1>6 DEF p

LEMMA TailFact ==
  ASSUME NEW S, NEW q \in Seq(S), q # <<>>
  PROVE  /\ Head(q) \in S /\ Tail(q) \in Seq(S)
         /\ \A T : Lacks(q, T) => Lacks(Tail(q), T) /\ Head(q).type \notin T
         /\ \A T : AtMostOne(q, T) => AtMostOne(Tail(q), T)
         /\ \A T : AtMostOne(q, T) /\ Head(q).type \in T => Lacks(Tail(q), T)
         /\ \A T : ~Lacks(q, T) /\ Head(q).type \notin T => ~Lacks(Tail(q), T)
<1> DEFINE n == Len(q) - 1
           p == Tail(q)
<1>1. /\ p \in Seq(S) /\ Len(p) = n /\ n \in Nat /\ Head(q) = q[1] /\ Head(q) \in S
      /\ \A i \in 1..n : p[i] = q[i + 1]
      /\ Len(q) = n + 1
  OBVIOUS
<1> HIDE DEF n, p
<1>2. \A i \in 1..n : i + 1 \in 1..Len(q) /\ i + 1 # 1
  BY <1>1
<1>3. 1 \in 1..Len(q) /\ \A i \in 1..Len(q) : i # 1 => i - 1 \in 1..n /\ (i - 1) + 1 = i
  BY <1>1
<1>4. \A T : Lacks(q, T) => Lacks(p, T) /\ Head(q).type \notin T
  BY <1>1, <1>2, <1>3 DEF Lacks
<1>5. ASSUME NEW T, AtMostOne(q, T) PROVE AtMostOne(p, T)
  <2> SUFFICES ASSUME NEW i \in 1..n, NEW j \in 1..n, p[i].type \in T, p[j].type \in T PROVE i = j
    BY <1>1 DEF AtMostOne
  <2>1. i + 1 = j + 1
    BY <1>1, <1>2, <1>5 DEF AtMostOne
  <2> QED
    BY <2>1
<1>6. ASSUME NEW T, AtMostOne(q, T), Head(q).type \in T PROVE Lacks(p, T)
  BY <1>1, <1>2, <1>3, <1>6 DEF AtMostOne, Lacks
<1>7. ASSUME NEW T, ~Lacks(q, T), Head(q).type \notin T PROVE ~Lacks(p, T)
  <2>1. PICK i \in 1..Len(q) : q[i].type \in T
    BY <1>7 DEF Lacks
  <2>2. i # 1
    BY <1>1, <1>7, <2>1
  <2>3. PICK k \in 1..n : k + 1 = i
    BY <1>3, <2>2
  <2> QED
    BY <1>1, <2>1, <2>3 DEF Lacks
<1> QED
  BY <1>1, <1>4, <1>5, <1>6, <1>7 DEF p

LEMMA EmptyFact ==
  \A T : Lacks(<<>>, T) /\ AtMostOne(<<>>, T)
  BY DEF Lacks, AtMostOne

\* Learning more names invalidates no message.
LEMMA MsgGrow ==
  ASSUME NEW K, NEW L, K \subseteq L
  PROVE  DownMsg(K) \subseteq DownMsg(L) /\ UpMsg(K) \subseteq UpMsg(L)
  BY DEF DownMsg, UpMsg

-----------------------------------------------------------------------------
(* The invariant holds at the start.                                       *)

LEMMA SessionInvInit == Init => SessionInv
<1> SUFFICES ASSUME Init PROVE SessionInv
  OBVIOUS
<1> USE DEF Init
<1>1. Domains
  BY DEF Domains, Total
<1>2. ControllerOK
  BY BoundAssumption, ConnAssumption DEF ControllerOK, BoundAssumption, ConnAssumption
<1>3. ASSUME NEW c \in Conns PROVE ConnOK(c)
  <2>1. ConnTypes(c)
    BY DEF ConnTypes, Names
  <2>2. TableOK(c)
    BY DEF TableOK, Ended
  <2>3. Phase(c)
    <3>1. ~Client(c)
      BY DEF Client
    <3> QED
      BY <3>1 DEF Phase, Outside, InAuth, InStatus, InRun, Ended
  <2> QED
    BY <2>1, <2>2, <2>3 DEF ConnOK
<1> QED
  BY <1>1, <1>2, <1>3 DEF SessionInv

-----------------------------------------------------------------------------
(* What a step leaves alone.                                               *)

\* The state of one connection
Local(c) == <<pc[c], opt[c], table[c], ifs[c], down[c], up[c], link[c]>>

\* A step that does not touch a connection keeps what is said about it.
LEMMA Frame ==
  ASSUME NEW c \in Conns, ConnOK(c), Local(c)' = Local(c), known \subseteq known',
         Client(c)' <=> Client(c), (greeting' = c) <=> (greeting = c)
  PROVE  ConnOK(c)'
<1>0. /\ pc'[c] = pc[c] /\ opt'[c] = opt[c] /\ table'[c] = table[c] /\ ifs'[c] = ifs[c]
      /\ down'[c] = down[c] /\ up'[c] = up[c] /\ link'[c] = link[c]
  BY DEF Local
<1>1. ConnTypes(c)'
  <2>1. down'[c] \in Seq(DownMsg(known')) /\ up'[c] \in Seq(UpMsg(known'))
    <3>1. DownMsg(known) \subseteq DownMsg(known') /\ UpMsg(known) \subseteq UpMsg(known')
      BY MsgGrow
    <3>2. down[c] \in Seq(DownMsg(known)) /\ up[c] \in Seq(UpMsg(known))
      BY DEF ConnOK, ConnTypes
    <3>3. Seq(DownMsg(known)) \subseteq Seq(DownMsg(known')) /\ Seq(UpMsg(known)) \subseteq Seq(UpMsg(known'))
      BY <3>1
    <3> QED
      BY <1>0, <3>2, <3>3
  <2>2. Names(ifs'[c]) \subseteq known'
    BY <1>0 DEF ConnOK, ConnTypes
  <2> QED
    BY <1>0, <2>1, <2>2 DEF ConnOK, ConnTypes
<1>2. TableOK(c)'
  BY <1>0 DEF ConnOK, TableOK
<1>3. Phase(c)'
  <2>1. Phase(c)
    BY DEF ConnOK
  <2>2. Outside(c)'
    BY <1>0, <2>1 DEF Phase, Outside
  <2>3. InAuth(c)'
    BY <1>0, <2>1 DEF Phase, InAuth
  <2>4. InStatus(c)'
    BY <1>0, <2>1 DEF Phase, InStatus
  <2>5. InRun(c)'
    BY <1>0, <2>1 DEF Phase, InRun
  <2> QED
    BY <2>2, <2>3, <2>4, <2>5 DEF Phase
<1> QED
  BY <1>1, <1>2, <1>3 DEF ConnOK

\* A step of one connection only, which leaves the controller's state alone,
\* except that the client may be noted as unanswered
LEMMA LocalStep ==
  ASSUME SessionInv, NEW c \in Conns, Domains', ConnOK(c)',
         \A d \in Conns \ {c} : Local(d)' = Local(d),
         UNCHANGED <<srclients, greeting, poxVars>>,
         \/ UNCHANGED unanswered
         \/ unanswered' = unanswered \cup {c} /\ Client(c)
  PROVE  SessionInv'
<1>0. /\ srclients' = srclients /\ greeting' = greeting /\ interfaces' = interfaces
      /\ known' = known /\ bcast' = bcast /\ packets' = packets
  BY DEF poxVars
<1>1. \A d : Client(d)' <=> Client(d)
  BY <1>0 DEF Client
<1>2. ControllerOK'
  <2>1. \A d \in unanswered' : Client(d)'
    BY <1>1 DEF SessionInv, ControllerOK
  <2>2. greeting' # None => Client(greeting)'
    BY <1>0, <1>1 DEF SessionInv, ControllerOK, Client
  <2> QED
    BY <1>0, <2>1, <2>2 DEF SessionInv, ControllerOK
<1>3. ASSUME NEW d \in Conns PROVE ConnOK(d)'
  <2>1. CASE d = c
    BY <2>1
  <2>2. CASE d # c
    BY <1>0, <1>1, <2>2, Frame DEF SessionInv
  <2> QED
    BY <2>1, <2>2
<1> QED
  BY <1>2, <1>3 DEF SessionInv

\* f becomes g, which differs only in the value v for c.
Becomes(f, g, c, v) == Total(g) /\ g[c] = v /\ \A d \in Conns \ {c} : g[d] = f[d]

LEMMA Changed ==
  ASSUME NEW f, NEW c \in Conns, NEW v, Total(f)
  PROVE  Becomes(f, [f EXCEPT ![c] = v], c, v)
<1>1. DOMAIN f = Conns
  BY DEF Total
<1>2. [f EXCEPT ![c] = v] = [d \in Conns |-> IF d = c THEN v ELSE f[d]]
  BY <1>1
<1> QED
  BY <1>2 DEF Total, Becomes

\* A process that ends keeps nothing, so nothing is asked of it.
LEMMA EndStep ==
  ASSUME SessionInv, NEW c \in Conns, NEW l \in Ended, End(c, l), UNCHANGED <<up, link, ctlVars>>
  PROVE  SessionInv'
<1>0. Domains /\ ConnOK(c)
  BY DEF SessionInv
<1>1. /\ Becomes(pc, pc', c, l)
      /\ Becomes(opt, opt', c, None)
  BY <1>0, Changed, Zenon DEF End, Goto, Domains
<1>2. /\ Becomes(table, table', c, <<>>)
      /\ Becomes(ifs, ifs', c, <<>>)
      /\ Becomes(down, down', c, <<>>)
  BY <1>0, Changed, Zenon DEF End, Domains
<1> USE DEF Becomes
<1>3. up' = up /\ link' = link /\ known' = known
  BY DEF ctlVars, poxVars
<1>4. Domains' /\ \A d \in Conns \ {c} : Local(d)' = Local(d)
  BY <1>0, <1>1, <1>2, <1>3 DEF Domains, Local, Total
<1>5. ConnOK(c)'
  <2>1. ConnTypes(c)'
    BY <1>0, <1>1, <1>2, <1>3 DEF ConnOK, ConnTypes, Names, Gone
  <2>2. TableOK(c)'
    BY <1>1 DEF TableOK, Ended
  <2>3. Phase(c)'
    BY <1>1, <1>2 DEF Phase, Outside, InAuth, InStatus, InRun, Ended
  <2> QED
    BY <2>1, <2>2, <2>3 DEF ConnOK
<1> QED
  BY <1>4, <1>5, LocalStep DEF ctlVars

LEMMA EndSteps ==
  ASSUME SessionInv, NEW c \in Conns,
         \/ SetupFails(c) \/ Refuse(c) \/ ReadClose(c) \/ HandshakeFails(c)
         \/ ReadError(c) \/ BrokenPipe(c)
  PROVE  SessionInv'
<1>1. End(c, "exit") /\ UNCHANGED <<up, link, ctlVars>>
  BY DEF SetupFails, Refuse, ReadClose, HandshakeFails, ReadError, BrokenPipe
<1> QED
  BY <1>1, EndStep DEF Ended

-----------------------------------------------------------------------------
(* The router process.                                                     *)

LEMMA StartStep ==
  ASSUME SessionInv, NEW c \in Conns, Start(c) PROVE SessionInv'
<1>0. Domains /\ ConnOK(c) /\ pc[c] = "off"
  BY DEF SessionInv, Start
<1>1. PICK o \in Options[c] :
          /\ opt' = [opt EXCEPT ![c] = o]
          /\ table' = [table EXCEPT ![c] = IF o.template THEN @ ELSE LoadRt(@, o.rt)]
  BY DEF Start
<1> DEFINE t == IF o.template THEN table[c] ELSE LoadRt(table[c], o.rt)
<1>2. /\ Becomes(pc, pc', c, "connect")
      /\ Becomes(opt, opt', c, o)
      /\ Becomes(table, table', c, t)
  BY <1>0, <1>1, Changed, Zenon DEF Start, Goto, Domains
<1> USE DEF Becomes
<1>3. UNCHANGED <<ifs, down, up, link, ctlVars>> /\ known' = known
  BY DEF Start, ctlVars, poxVars
<1>4. Domains' /\ \A d \in Conns \ {c} : Local(d)' = Local(d)
  BY <1>0, <1>2, <1>3 DEF Domains, Local, Total
<1>5. t = IF o.template THEN <<>> ELSE o.rt
  BY <1>0 DEF ConnOK, TableOK, LoadRt
<1>6. Client(c)' <=> Client(c)
  BY <1>3 DEF Client, ctlVars
<1> HIDE DEF t
<1>7. ConnOK(c)'
  <2>1. ConnTypes(c)'
    BY <1>0, <1>2, <1>3 DEF ConnOK, ConnTypes
  <2>2. TableOK(c)'
    BY <1>2, <1>5 DEF TableOK
  <2>3. Phase(c)'
    BY <1>0, <1>2, <1>3, <1>6 DEF ConnOK, Phase, Outside, InAuth, InStatus, InRun, Ended
  <2> QED
    BY <2>1, <2>2, <2>3 DEF ConnOK
<1> QED
  BY <1>3, <1>4, <1>7, LocalStep DEF ctlVars

LEMMA ConnectStep ==
  ASSUME SessionInv, NEW c \in Conns, Connect(c) PROVE SessionInv'
<1>0. Domains /\ ConnOK(c) /\ pc[c] = "connect"
  BY DEF SessionInv, Connect
<1>1. /\ Becomes(pc, pc', c, "auth")
      /\ Becomes(link, link', c, "open")
  BY <1>0, Changed, Zenon DEF Connect, Goto, Domains
<1> USE DEF Becomes
<1>2. UNCHANGED <<opt, table, ifs, down, up, ctlVars>> /\ known' = known
  BY DEF Connect, ctlVars, poxVars
<1>3. Domains' /\ \A d \in Conns \ {c} : Local(d)' = Local(d)
  BY <1>0, <1>1, <1>2 DEF Domains, Local, Total
<1>4. Client(c)' <=> Client(c)
  BY <1>2 DEF Client, ctlVars
<1>5. ConnOK(c)'
  <2>1. ConnTypes(c)'
    BY <1>0, <1>1, <1>2 DEF ConnOK, ConnTypes, Reading
  <2>2. TableOK(c)'
    BY <1>0, <1>1, <1>2 DEF ConnOK, TableOK, Ended
  <2>3. Phase(c)'
    BY <1>0, <1>1, <1>2, <1>4, EmptyFact DEF ConnOK, Phase, Outside, InAuth, InStatus, InRun, Ended
  <2> QED
    BY <2>1, <2>2, <2>3 DEF ConnOK
<1> QED
  BY <1>2, <1>3, <1>5, LocalStep DEF ctlVars

LEMMA MsgFact ==
  ASSUME NEW K
  PROVE  /\ \A t \in {"AUTH_REQUEST", "AUTH_STATUS", "LONG", "BANNER", "CLOSE"} :
                Msg(t) \in DownMsg(K) /\ Msg(t).type = t
         /\ \A t \in {"AUTH_REPLY", "OPEN", "OPEN_TEMPLATE"} :
                Msg(t) \in UpMsg(K) /\ Msg(t).type = t
         /\ \A P \in Switches : Names(P) \subseteq K =>
                Hwinfo(P) \in DownMsg(K) /\ Hwinfo(P).type = "HWINFO"
         /\ \A f \in Served : Rtable(f) \in DownMsg(K) /\ Rtable(f).type = "RTABLE"
         /\ \A i \in AllNames :
                Packet(i) \in DownMsg(K) /\ Packet(i).type = "PACKET" /\ (i \in K => Packet(i) \in UpMsg(K))
<1>1. \A t \in {"AUTH_REQUEST", "AUTH_STATUS", "LONG", "BANNER", "CLOSE"} :
          Msg(t) \in DownMsg(K) /\ Msg(t).type = t
  BY DEF Msg, DownMsg, DownTypes
<1>2. \A t \in {"AUTH_REPLY", "OPEN", "OPEN_TEMPLATE"} : Msg(t) \in UpMsg(K) /\ Msg(t).type = t
  BY DEF Msg, UpMsg, UpTypes
<1>3. \A P \in Switches : Names(P) \subseteq K =>
          Hwinfo(P) \in DownMsg(K) /\ Hwinfo(P).type = "HWINFO"
  BY DEF Hwinfo, DownMsg, DownTypes
<1>4. \A f \in Served : Rtable(f) \in DownMsg(K) /\ Rtable(f).type = "RTABLE"
  BY DEF Rtable, DownMsg, DownTypes
<1>5. \A i \in AllNames : Packet(i) \in DownMsg(K) /\ Packet(i).type = "PACKET"
  BY DEF Packet, DownMsg, DownTypes
<1>6. \A i \in AllNames : i \in K => Packet(i) \in UpMsg(K)
  BY DEF Packet, UpMsg, UpTypes
<1> QED
  BY <1>1, <1>2, <1>3, <1>4, <1>5, <1>6

LEMMA ReadAuthRequestStep ==
  ASSUME SessionInv, NEW c \in Conns, ReadAuthRequest(c) PROVE SessionInv'
<1>0. Domains /\ ConnOK(c) /\ pc[c] = "auth" /\ down[c] # <<>> /\ Head(down[c]).type = "AUTH_REQUEST"
  BY DEF SessionInv, ReadAuthRequest, CanRead, Incoming
<1>1. /\ Becomes(pc, pc', c, "status")
      /\ Becomes(down, down', c, Tail(down[c]))
      /\ Becomes(up, up', c, Append(up[c], Msg("AUTH_REPLY")))
  BY <1>0, Changed, Zenon DEF ReadAuthRequest, Receive, SendUp, Goto, Domains
<1> USE DEF Becomes
<1>2. UNCHANGED <<opt, table, ifs, link, ctlVars>> /\ known' = known
  BY DEF ReadAuthRequest, ctlVars, poxVars
<1>3. Domains' /\ \A d \in Conns \ {c} : Local(d)' = Local(d)
  BY <1>0, <1>1, <1>2 DEF Domains, Local, Total
<1>4. (Client(c)' <=> Client(c)) /\ greeting' = greeting
  BY <1>2 DEF Client, ctlVars
<1>5. down[c] \in Seq(DownMsg(known)) /\ up[c] \in Seq(UpMsg(known))
  BY <1>0 DEF ConnOK, ConnTypes
<1>6. Msg("AUTH_REPLY") \in UpMsg(known) /\ Msg("AUTH_REPLY").type = "AUTH_REPLY"
  BY MsgFact
<1>7. down'[c] \in Seq(DownMsg(known)) /\ up'[c] \in Seq(UpMsg(known))
  BY <1>0, <1>1, <1>5, <1>6, TailFact, AppendFact
<1>8. /\ ifs[c] = <<>> /\ Client(c) /\ greeting # c
      /\ Lacks(up[c], StepTypes) /\ AtMostOne(down[c], StepTypes)
  <2>1. "AUTH_REQUEST" \in StepTypes
    BY DEF StepTypes, DownTypes
  <2>2. ~Lacks(down[c], StepTypes)
    BY <1>0, <1>5, <2>1, TailFact
  <2> QED
    BY <1>0, <2>2 DEF ConnOK, Phase, InAuth, OneStep
<1>9. Lacks(down'[c], StepTypes)
  <2>1. "AUTH_REQUEST" \in StepTypes
    BY DEF StepTypes, DownTypes
  <2> QED
    BY <1>0, <1>1, <1>5, <1>8, <2>1, TailFact
<1>10. OneStep(up'[c], "AUTH_REPLY")
  BY <1>1, <1>5, <1>6, <1>8, AppendFact DEF OneStep
<1>11. ConnOK(c)'
  <2>1. ConnTypes(c)'
    BY <1>0, <1>1, <1>2, <1>7 DEF ConnOK, ConnTypes, Reading
  <2>2. TableOK(c)'
    BY <1>0, <1>1, <1>2 DEF ConnOK, TableOK, Ended
  <2>3. Phase(c)'
    BY <1>1, <1>2, <1>4, <1>8, <1>9, <1>10 DEF Phase, Outside, InAuth, InStatus, InRun, Ended
  <2> QED
    BY <2>1, <2>2, <2>3 DEF ConnOK
<1> QED
  BY <1>2, <1>3, <1>11, LocalStep DEF ctlVars

LEMMA Fewer ==
  ASSUME NEW q, NEW T, NEW S, S \subseteq T
  PROVE  /\ Lacks(q, T) => Lacks(q, S) /\ AtMostOne(q, S)
         /\ AtMostOne(q, T) => AtMostOne(q, S)
  BY DEF Lacks, AtMostOne

LEMMA ReadAuthStatusStep ==
  ASSUME SessionInv, NEW c \in Conns, ReadAuthStatus(c) PROVE SessionInv'
<1> DEFINE temp == opt[c].template
           m == IF temp THEN Msg("OPEN_TEMPLATE") ELSE Msg("OPEN")
           t == IF temp THEN table[c] ELSE LoadRt(table[c], opt[c].rt)
           l == IF temp THEN "rtable" ELSE "run"
<1>0. Domains /\ ConnOK(c) /\ pc[c] = "status" /\ down[c] # <<>> /\ Head(down[c]).type = "AUTH_STATUS"
  BY DEF SessionInv, ReadAuthStatus, CanRead, Incoming
<1>1. /\ Becomes(down, down', c, Tail(down[c]))
      /\ Becomes(up, up', c, Append(up[c], m))
      /\ Becomes(pc, pc', c, l)
      /\ Becomes(table, table', c, t)
  <2>1. Becomes(down, down', c, Tail(down[c]))
    BY <1>0, Changed, Zenon DEF ReadAuthStatus, Receive, Domains
  <2>2. CASE temp
    <3>0. SendUp(c, Msg("OPEN_TEMPLATE")) /\ Goto(c, "rtable") /\ table' = table
      BY <2>2 DEF ReadAuthStatus
    <3>1. Becomes(up, up', c, Append(up[c], Msg("OPEN_TEMPLATE"))) /\ Becomes(pc, pc', c, "rtable") /\ table' = table
      BY <1>0, <3>0, Changed, Zenon DEF SendUp, Goto, Domains
    <3>2. Becomes(table, table', c, table[c])
      BY <1>0, <3>1 DEF Becomes, Domains
    <3> QED
      BY <2>1, <2>2, <3>1, <3>2
  <2>3. CASE ~temp
    <3>0. SendUp(c, Msg("OPEN")) /\ Goto(c, "run")
      BY <2>3 DEF ReadAuthStatus
    <3>1. Becomes(up, up', c, Append(up[c], Msg("OPEN"))) /\ Becomes(pc, pc', c, "run")
      BY <1>0, <3>0, Changed, Zenon DEF SendUp, Goto, Domains
    <3>2. Becomes(table, table', c, LoadRt(table[c], opt[c].rt))
      BY <1>0, <2>3, Changed, Zenon DEF ReadAuthStatus, Domains
    <3> QED
      BY <2>1, <2>3, <3>1, <3>2
  <2> QED
    BY <2>2, <2>3
<1> USE DEF Becomes
<1>2. UNCHANGED <<opt, ifs, link, ctlVars>> /\ known' = known
  BY DEF ReadAuthStatus, ctlVars, poxVars
<1>3. Domains' /\ \A d \in Conns \ {c} : Local(d)' = Local(d)
  BY <1>0, <1>1, <1>2 DEF Domains, Local, Total
<1>4. (Client(c)' <=> Client(c)) /\ greeting' = greeting
  BY <1>2 DEF Client, ctlVars
<1>5. down[c] \in Seq(DownMsg(known)) /\ up[c] \in Seq(UpMsg(known))
  BY <1>0 DEF ConnOK, ConnTypes
<1>6. m \in UpMsg(known) /\ m.type \in {"OPEN_TEMPLATE", "OPEN"}
  BY MsgFact
<1>a. pc'[c] = l /\ table'[c] = t /\ l \in {"rtable", "run"}
  BY <1>1
<1>b. /\ l = "rtable" => t = <<>>
      /\ l = "run" => IF opt[c].rt = None THEN t \in Served ELSE t = opt[c].rt
  <2>1. /\ opt[c] \in Options[c]
        /\ table[c] = IF opt[c].template THEN <<>> ELSE opt[c].rt
    BY <1>0 DEF ConnOK, TableOK, Ended
  <2>2. opt[c].template \in BOOLEAN /\ (opt[c].rt = None => opt[c].template)
    BY <2>1, OptionAssumption DEF OptionAssumption
  <2> QED
    BY <2>1, <2>2 DEF LoadRt
<1> HIDE DEF m, l, t
<1>7. down'[c] \in Seq(DownMsg(known)) /\ up'[c] \in Seq(UpMsg(known))
  BY <1>0, <1>1, <1>5, <1>6, TailFact, AppendFact
<1>8. /\ ifs[c] = <<>> /\ Client(c) /\ greeting # c
      /\ Lacks(up[c], StepTypes) /\ Lacks(down'[c], StepTypes)
  <2>1. "AUTH_STATUS" \in StepTypes
    BY DEF StepTypes, DownTypes
  <2>2. ~Lacks(down[c], StepTypes)
    BY <1>0, <1>5, <2>1, TailFact
  <2>3. /\ ifs[c] = <<>> /\ Client(c) /\ greeting # c
        /\ Lacks(up[c], StepTypes) /\ AtMostOne(down[c], StepTypes)
    BY <1>0, <2>2 DEF ConnOK, Phase, InStatus, OneStep
  <2> QED
    BY <1>0, <1>1, <1>5, <2>1, <2>3, TailFact
<1>9. Lacks(up'[c], {"AUTH_REPLY"}) /\ AtMostOne(up'[c], StepTypes)
  <2>1. Lacks(up[c], {"AUTH_REPLY"})
    <3>1. {"AUTH_REPLY"} \subseteq StepTypes
      BY DEF StepTypes, UpTypes
    <3> QED
      BY <1>8, <3>1, Fewer
  <2>2. m.type \notin {"AUTH_REPLY"}
    BY <1>6
  <2> QED
    BY <1>1, <1>5, <1>6, <1>8, <2>1, <2>2, AppendFact
<1>10. Lacks(down'[c], {"HWINFO"}) /\ AtMostOne(down'[c], {"HWINFO"})
  <2>1. {"HWINFO"} \subseteq StepTypes
    BY DEF StepTypes, DownTypes
  <2> QED
    BY <1>8, <2>1, Fewer
<1>11. ConnOK(c)'
  <2>1. ConnTypes(c)'
    BY <1>0, <1>2, <1>7, <1>a DEF ConnOK, ConnTypes, Reading
  <2>2. TableOK(c)'
    BY <1>0, <1>2, <1>8, <1>a, <1>b DEF ConnOK, TableOK, Ended
  <2>3. Phase(c)'
    BY <1>2, <1>4, <1>8, <1>9, <1>10, <1>a DEF Phase, Outside, InAuth, InStatus, InRun, Ended
  <2> QED
    BY <2>1, <2>2, <2>3 DEF ConnOK
<1> QED
  BY <1>2, <1>3, <1>11, LocalStep DEF ctlVars

\* A message that is only taken off the stream
LEMMA TakeStep ==
  ASSUME SessionInv, NEW c \in Conns, pc[c] = "run", down[c] # <<>>, Receive(c),
         UNCHANGED <<routerVars, up, link, ctlVars>>
  PROVE  SessionInv'
<1>0. Domains /\ ConnOK(c)
  BY DEF SessionInv
<1>1. Becomes(down, down', c, Tail(down[c]))
  BY <1>0, Changed, Zenon DEF Receive, Domains
<1> USE DEF Becomes
<1>2. UNCHANGED <<pc, opt, table, ifs, up, link, ctlVars>> /\ known' = known
  BY DEF routerVars, ctlVars, poxVars
<1>3. Domains' /\ \A d \in Conns \ {c} : Local(d)' = Local(d)
  BY <1>0, <1>1, <1>2 DEF Domains, Local, Total
<1>4. (Client(c)' <=> Client(c)) /\ greeting' = greeting
  BY <1>2 DEF Client, ctlVars
<1>5. down[c] \in Seq(DownMsg(known))
  BY <1>0 DEF ConnOK, ConnTypes
<1>6. /\ down'[c] \in Seq(DownMsg(known))
      /\ Lacks(down[c], {"HWINFO"}) => Lacks(down'[c], {"HWINFO"})
      /\ AtMostOne(down[c], {"HWINFO"}) => AtMostOne(down'[c], {"HWINFO"})
  BY <1>1, <1>5, TailFact
<1>7. ConnOK(c)'
  <2>1. ConnTypes(c)'
    BY <1>0, <1>2, <1>6 DEF ConnOK, ConnTypes
  <2>2. TableOK(c)'
    BY <1>0, <1>2 DEF ConnOK, TableOK
  <2>3. Phase(c)'
    BY <1>0, <1>2, <1>4, <1>6 DEF ConnOK, Phase, Outside, InAuth, InStatus, InRun, Ended
  <2> QED
    BY <2>1, <2>2, <2>3 DEF ConnOK
<1> QED
  BY <1>2, <1>3, <1>7, LocalStep DEF ctlVars

LEMMA ReadPacketStep ==
  ASSUME SessionInv, NEW c \in Conns, ReadBanner(c) \/ ReadPacket(c) PROVE SessionInv'
<1>1. CASE ReadBanner(c)
  BY <1>1, TakeStep DEF ReadBanner, CanRead
<1>2. CASE ReadPacket(c)
  <2>1. CASE Receive(c) /\ UNCHANGED routerVars
    BY <1>2, <2>1, TakeStep DEF ReadPacket, CanRead
  <2>2. CASE End(c, "abort")
    BY <1>2, <2>2, EndStep DEF ReadPacket, Ended
  <2> QED
    BY <1>2, <2>1, <2>2 DEF ReadPacket
<1> QED
  BY <1>1, <1>2

LEMMA ReadRtableStep ==
  ASSUME SessionInv, NEW c \in Conns, ReadRtable(c) PROVE SessionInv'
<1> DEFINE f == IF opt[c].rt = None THEN Head(down[c]).intf ELSE opt[c].rt
<1>0. Domains /\ ConnOK(c) /\ pc[c] = "rtable" /\ down[c] # <<>> /\ Head(down[c]).type = "RTABLE"
  BY DEF SessionInv, ReadRtable, CanRead, Incoming
<1>1. /\ Becomes(down, down', c, Tail(down[c]))
      /\ Becomes(pc, pc', c, "run")
      /\ Becomes(table, table', c, LoadRt(table[c], f))
  <2>1. Receive(c) /\ Goto(c, "run") /\ table' = [table EXCEPT ![c] = LoadRt(@, f)]
    BY DEF ReadRtable, Incoming
  <2> HIDE DEF f
  <2> QED
    BY <1>0, <2>1, Changed, Zenon DEF Receive, Goto, Domains
<1> USE DEF Becomes
<1>2. UNCHANGED <<opt, ifs, up, link, ctlVars>> /\ known' = known
  BY DEF ReadRtable, ctlVars, poxVars
<1>3. Domains' /\ \A d \in Conns \ {c} : Local(d)' = Local(d)
  BY <1>0, <1>1, <1>2 DEF Domains, Local, Total
<1>4. (Client(c)' <=> Client(c)) /\ greeting' = greeting
  BY <1>2 DEF Client, ctlVars
<1>5. down[c] \in Seq(DownMsg(known))
  BY <1>0 DEF ConnOK, ConnTypes
<1>6. /\ down'[c] \in Seq(DownMsg(known)) /\ Head(down[c]) \in DownMsg(known)
      /\ Lacks(down[c], {"HWINFO"}) => Lacks(down'[c], {"HWINFO"})
      /\ AtMostOne(down[c], {"HWINFO"}) => AtMostOne(down'[c], {"HWINFO"})
  BY <1>0, <1>1, <1>5, TailFact
<1>7. /\ pc'[c] = "run" /\ ifs[c] = <<>> /\ opt[c] \in Options[c]
      /\ IF opt[c].rt = None THEN table'[c] \in Served ELSE table'[c] = opt[c].rt
  <2>1. table[c] = <<>> /\ ifs[c] = <<>> /\ opt[c] \in Options[c]
    BY <1>0 DEF ConnOK, TableOK, Ended
  <2>2. Head(down[c]).intf \in Served
    BY <1>0, <1>6 DEF DownMsg
  <2>3. LoadRt(<<>>, f) = f
    BY DEF LoadRt
  <2> QED
    BY <1>1, <2>1, <2>2, <2>3
<1>8. ConnOK(c)'
  <2>1. ConnTypes(c)'
    BY <1>0, <1>2, <1>6, <1>7 DEF ConnOK, ConnTypes, Reading
  <2>2. TableOK(c)'
    BY <1>2, <1>7 DEF TableOK
  <2>3. Phase(c)'
    BY <1>0, <1>2, <1>4, <1>6, <1>7 DEF ConnOK, Phase, Outside, InAuth, InStatus, InRun, Ended
  <2> QED
    BY <2>1, <2>2, <2>3 DEF ConnOK
<1> QED
  BY <1>2, <1>3, <1>8, LocalStep DEF ctlVars

LEMMA ReadEofStep ==
  ASSUME SessionInv, NEW c \in Conns, ReadEof(c) PROVE SessionInv'
<1>0. Domains /\ ConnOK(c) /\ pc[c] \in Reading /\ link[c] = "closed" /\ down[c] = <<>>
  BY DEF SessionInv, ReadEof
<1>1. Becomes(pc, pc', c, "spin")
  BY <1>0, Changed, Zenon DEF ReadEof, Goto, Domains
<1> USE DEF Becomes
<1>2. UNCHANGED <<opt, table, ifs, down, up, link, ctlVars>> /\ known' = known
  BY DEF ReadEof, ctlVars, poxVars
<1>3. Domains' /\ \A d \in Conns \ {c} : Local(d)' = Local(d)
  BY <1>0, <1>1, <1>2 DEF Domains, Local, Total
<1>4. ConnOK(c)'
  <2>1. ConnTypes(c)'
    BY <1>0, <1>1, <1>2 DEF ConnOK, ConnTypes, Gone
  <2>2. TableOK(c)'
    BY <1>0, <1>1, <1>2 DEF ConnOK, TableOK, Ended, Reading
  <2>3. Phase(c)'
    BY <1>0, <1>1, <1>2 DEF Phase, Outside, InAuth, InStatus, InRun, Ended
  <2> QED
    BY <2>1, <2>2, <2>3 DEF ConnOK
<1> QED
  BY <1>2, <1>3, <1>4, LocalStep DEF ctlVars

\* Hardware info finds the list empty, so the list becomes the announcement.
LEMMA ReadHwinfoStep ==
  ASSUME SessionInv, NEW c \in Conns, ReadHwinfo(c) PROVE SessionInv'
<1> DEFINE P == Head(down[c]).intf
           l == HandleHwinfo(ifs[c], P)
<1>0. /\ Domains /\ ConnOK(c) /\ pc[c] = "run" /\ down[c] # <<>>
      /\ Head(down[c]).type = "HWINFO" /\ UNCHANGED <<up, link, ctlVars>>
  BY DEF SessionInv, ReadHwinfo, CanRead, Incoming
<1>1. CASE ~Verified(table[c], l)
  <2>1. End(c, "exit")
    BY <1>1 DEF ReadHwinfo, Incoming
  <2> QED
    BY <1>0, <2>1, EndStep DEF Ended
<1>2. CASE Verified(table[c], l)
  <2>1. Receive(c) /\ ifs' = [ifs EXCEPT ![c] = l] /\ UNCHANGED <<pc, opt, table>>
    BY <1>2 DEF ReadHwinfo, Incoming
  <2>2. down[c] \in Seq(DownMsg(known))
    BY <1>0 DEF ConnOK, ConnTypes
  <2>3. /\ Tail(down[c]) \in Seq(DownMsg(known)) /\ Head(down[c]) \in DownMsg(known)
        /\ ~Lacks(down[c], {"HWINFO"})
        /\ AtMostOne(down[c], {"HWINFO"}) => Lacks(Tail(down[c]), {"HWINFO"})
    <3>1. Head(down[c]).type \in {"HWINFO"}
      BY <1>0
    <3>2. Tail(down[c]) \in Seq(DownMsg(known)) /\ Head(down[c]) \in DownMsg(known)
      BY <1>0, <2>2, TailFact
    <3>3. ~Lacks(down[c], {"HWINFO"})
      BY <1>0, <2>2, <3>1, TailFact
    <3>4. AtMostOne(down[c], {"HWINFO"}) => Lacks(Tail(down[c]), {"HWINFO"})
      BY <1>0, <2>2, <3>1, TailFact
    <3> QED
      BY <3>2, <3>3, <3>4
  <2>4. P \in Switches /\ Names(P) \subseteq known
    BY <1>0, <2>3 DEF DownMsg
  <2>5. ifs[c] = <<>> /\ Client(c) /\ greeting # c /\ AtMostOne(down[c], {"HWINFO"})
        /\ Lacks(up[c], {"AUTH_REPLY"}) /\ Lacks(up[c], StepTypes) /\ AtMostOne(up[c], StepTypes)
    BY <1>0, <2>3 DEF ConnOK, Phase, InRun
  <2>6. l = P
    <3>1. Built[P] = P
      BY <2>4, BuiltIsAnnounced
    <3>2. <<>> \o P = P
      <4>1. Len(P) \in Nat /\ P = [i \in 1..Len(P) |-> P[i]]
        BY <2>4, PortFact
      <4>2. P \in Seq({P[i] : i \in 1..Len(P)})
        BY <4>1
      <4> QED
        BY <4>2, ConcatEmptySeq
    <3> QED
      BY <2>5, <3>1, <3>2 DEF HandleHwinfo
  <2> HIDE DEF l, P
  <2>7. Becomes(down, down', c, Tail(down[c])) /\ Becomes(ifs, ifs', c, P)
    BY <1>0, <2>1, <2>6, Changed, Zenon DEF Receive, Domains
  <2> USE DEF Becomes
  <2>8. Range(table[c]) \subseteq Names(P)
    BY <1>2, <2>6 DEF Verified, HasInterface
  <2>9. /\ UNCHANGED <<pc, opt, table, up, link, ctlVars>> /\ known' = known
        /\ (Client(c)' <=> Client(c)) /\ greeting' = greeting
    BY <1>0, <2>1 DEF Client, ctlVars, poxVars
  <2>10. Domains' /\ \A d \in Conns \ {c} : Local(d)' = Local(d)
    BY <1>0, <2>7, <2>9 DEF Domains, Local, Total
  <2>11. Lacks(down'[c], {"HWINFO"}) /\ AtMostOne(down'[c], {"HWINFO"})
    BY <2>3, <2>5, <2>7, Fewer
  <2>12. ConnOK(c)'
    <3>1. ConnTypes(c)'
      BY <1>0, <2>3, <2>4, <2>7, <2>9 DEF ConnOK, ConnTypes
    <3>2. TableOK(c)'
      BY <1>0, <2>7, <2>8, <2>9 DEF ConnOK, TableOK
    <3>3. Phase(c)'
      BY <1>0, <2>5, <2>9, <2>11 DEF Phase, Outside, InAuth, InStatus, InRun, Ended
    <3> QED
      BY <3>1, <3>2, <3>3 DEF ConnOK
  <2> QED
    BY <2>9, <2>10, <2>12, LocalStep DEF ctlVars
<1> QED
  BY <1>1, <1>2

\* A packet leaves through an interface of an announcement, whose names the
\* controller knows since then.
LEMMA SendPacketStep ==
  ASSUME SessionInv, NEW c \in Conns, NEW i \in AllNames, SendPacket(c, i) PROVE SessionInv'
<1>0. Domains /\ ConnOK(c) /\ pc[c] = "run" /\ i \in Names(ifs[c])
  BY DEF SessionInv, SendPacket, HasInterface
<1>1. Becomes(up, up', c, Append(up[c], Packet(i)))
  BY <1>0, Changed, Zenon DEF SendPacket, SendUp, Domains
<1> USE DEF Becomes
<1>2. UNCHANGED <<pc, opt, table, ifs, down, link, ctlVars>> /\ known' = known
  BY DEF SendPacket, routerVars, ctlVars, poxVars
<1>3. Domains' /\ \A d \in Conns \ {c} : Local(d)' = Local(d)
  BY <1>0, <1>1, <1>2 DEF Domains, Local, Total
<1>4. (Client(c)' <=> Client(c)) /\ greeting' = greeting
  BY <1>2 DEF Client, ctlVars
<1>5. up[c] \in Seq(UpMsg(known)) /\ i \in known
  BY <1>0 DEF ConnOK, ConnTypes
<1>6. Packet(i) \in UpMsg(known) /\ Packet(i).type = "PACKET"
  BY <1>5, MsgFact
<1>7. Packet(i).type \notin StepTypes /\ Packet(i).type \notin {"AUTH_REPLY"}
  BY <1>6 DEF StepTypes
<1>8. /\ up'[c] \in Seq(UpMsg(known))
      /\ Lacks(up[c], StepTypes) => Lacks(up'[c], StepTypes)
      /\ Lacks(up[c], {"AUTH_REPLY"}) => Lacks(up'[c], {"AUTH_REPLY"})
      /\ AtMostOne(up[c], StepTypes) => AtMostOne(up'[c], StepTypes)
  BY <1>1, <1>5, <1>6, <1>7, AppendFact
<1>9. ConnOK(c)'
  <2>1. ConnTypes(c)'
    BY <1>0, <1>2, <1>8 DEF ConnOK, ConnTypes
  <2>2. TableOK(c)'
    BY <1>0, <1>2 DEF ConnOK, TableOK
  <2>3. Phase(c)'
    BY <1>0, <1>2, <1>4, <1>8 DEF ConnOK, Phase, Outside, InAuth, InStatus, InRun, Ended
  <2> QED
    BY <2>1, <2>2, <2>3 DEF ConnOK
<1> QED
  BY <1>2, <1>3, <1>9, LocalStep DEF ctlVars

-----------------------------------------------------------------------------
(* The controller: the reactor thread.                                     *)

LEMMA HangUpStep ==
  ASSUME SessionInv, NEW c \in Conns, HangUp(c) PROVE SessionInv'
<1>0. Domains /\ ConnOK(c) /\ link[c] = "open"
  BY DEF SessionInv, HangUp
<1>1. Becomes(link, link', c, "closed")
  BY <1>0, Changed, Zenon DEF HangUp, Domains
<1> USE DEF Becomes
<1>2. UNCHANGED <<pc, opt, table, ifs, down, up, ctlVars>> /\ known' = known
  BY DEF HangUp, routerVars, ctlVars, poxVars
<1>3. Domains' /\ \A d \in Conns \ {c} : Local(d)' = Local(d)
  BY <1>0, <1>1, <1>2 DEF Domains, Local, Total
<1>4. (Client(c)' <=> Client(c)) /\ greeting' = greeting
  BY <1>2 DEF Client, ctlVars
<1>5. ConnOK(c)'
  <2>1. ConnTypes(c)'
    BY <1>0, <1>1, <1>2 DEF ConnOK, ConnTypes
  <2>2. TableOK(c)'
    BY <1>0, <1>2 DEF ConnOK, TableOK
  <2>3. Outside(c)' /\ InAuth(c)'
    BY <1>0, <1>1, <1>2, <1>4 DEF ConnOK, Phase, Outside, InAuth
  <2>4. InStatus(c)' /\ InRun(c)'
    BY <1>0, <1>2, <1>4 DEF ConnOK, Phase, InStatus, InRun
  <2> QED
    BY <2>1, <2>2, <2>3, <2>4 DEF ConnOK, Phase
<1> QED
  BY <1>2, <1>3, <1>5, LocalStep DEF ctlVars

LEMMA AcceptStep ==
  ASSUME SessionInv, NEW c \in Conns, Accept(c) PROVE SessionInv'
<1>0. /\ Domains /\ ControllerOK /\ ConnOK(c)
      /\ greeting = None /\ link[c] = "open" /\ c \notin Range(srclients)
      /\ srclients' = Append(srclients, c) /\ greeting' = c
  BY DEF SessionInv, Accept
<1>1. /\ UNCHANGED <<pc, opt, table, ifs, down, up, link>>
      /\ UNCHANGED <<interfaces, known, bcast, packets, unanswered>>
  BY DEF Accept, routerVars, poxVars
<1> DEFINE n == Len(srclients)
<1>2. /\ srclients' \in Seq(Conns) /\ n \in Nat /\ Len(srclients') = n + 1
      /\ \A i \in 1..n : srclients'[i] = srclients[i]
      /\ srclients'[n + 1] = c /\ DOMAIN srclients = 1..n
  BY <1>0 DEF ControllerOK
<1>3. \A i \in 1..n : srclients[i] # c
  BY <1>0, <1>2 DEF Range
<1>4. 1..Len(srclients') = 1..n \cup {n + 1} /\ 1..n \subseteq 1..(n + 1) /\ n + 1 \notin 1..n
  BY <1>2
<1>a. /\ \A i, j \in 1..n : srclients[i] = srclients[j] => i = j
      /\ \A d : Client(d) <=> \E i \in 1..n : srclients[i] = d
  BY <1>0 DEF ControllerOK, Client
<1> HIDE DEF n
<1>5. ~Client(c) /\ \A d : Client(d)' <=> Client(d) \/ d = c
  <2>1. ~Client(c)
    BY <1>3, <1>a
  <2>2. ASSUME NEW d PROVE Client(d)' <=> Client(d) \/ d = c
    <3>1. Client(d)' <=> \E i \in 1..n \cup {n + 1} : srclients'[i] = d
      BY <1>4 DEF Client
    <3> QED
      BY <1>2, <1>a, <3>1
  <2> QED
    BY <2>1, <2>2
<1>6. ControllerOK'
  <2>1. \A i, j \in 1..Len(srclients') : srclients'[i] = srclients'[j] => i = j
    BY <1>2, <1>3, <1>4, <1>a
  <2>2. \A i \in 1..(n + 1) : i \in 1..(Len(srclients') + 1)
    BY <1>2
  <2>3. greeting' \in Conns \cup {None} /\ (greeting' # None => Client(c)')
    BY <1>0, <1>5
  <2>4. (greeting' # None => Client(greeting)')
    BY <1>0, <2>3 DEF Client
  <2>5. \A d \in unanswered' : Client(d)'
    BY <1>0, <1>1, <1>5 DEF ControllerOK
  <2>6. (bcast = Idle \/ (/\ bcast = [msg |-> bcast.msg, next |-> bcast.next]
                          /\ bcast.next \in 1..(n + 1)
                          /\ bcast.msg \in DownMsg(known) /\ bcast.msg.type \in {"PACKET", "LONG"}))
    BY <1>0 DEF ControllerOK, n
  <2>7. /\ interfaces \in Switches \cup {None}
        /\ interfaces # None => Names(interfaces) \subseteq known
        /\ known \subseteq AllNames /\ packets \in 0..MaxPackets
    BY <1>0 DEF ControllerOK
  <2> QED
    BY <1>1, <1>2, <2>1, <2>2, <2>3, <2>4, <2>5, <2>6, <2>7 DEF ControllerOK
<1>7. ASSUME NEW d \in Conns PROVE ConnOK(d)'
  <2>1. CASE d # c
    <3>1. Local(d)' = Local(d) /\ known \subseteq known'
      BY <1>1 DEF Local
    <3>2. (greeting' = d) <=> (greeting = d)
      BY <1>0, <2>1, ConnAssumption DEF ConnAssumption
    <3> QED
      BY <1>5, <2>1, <3>1, <3>2, Frame DEF SessionInv
  <2>2. CASE d = c
    <3>1. ConnTypes(c)'
      BY <1>0, <1>1 DEF ConnOK, ConnTypes
    <3>2. TableOK(c)'
      BY <1>0, <1>1 DEF ConnOK, TableOK
    <3>3. Phase(c)'
      BY <1>0, <1>1, <1>5 DEF ConnOK, Phase, Outside, InAuth, InStatus, InRun
    <3> QED
      BY <2>2, <3>1, <3>2, <3>3 DEF ConnOK
  <2> QED
    BY <2>1, <2>2
<1>8. Domains'
  BY <1>0, <1>1 DEF Domains, Total
<1> QED
  BY <1>6, <1>7, <1>8 DEF SessionInv

LEMMA SendDownFact ==
  ASSUME Domains, NEW c \in Conns, NEW m, SendDown(c, m)
  PROVE  Becomes(down, down', c, IF pc[c] \in Ended THEN down[c] ELSE Append(down[c], m))
  BY Changed, Zenon DEF SendDown, Domains

LEMMA GreetStep ==
  ASSUME SessionInv, NEW c \in Conns, Greet(c) PROVE SessionInv'
<1> DEFINE m == Msg("AUTH_REQUEST")
           q == IF link[c] = "open" /\ pc[c] \notin Ended THEN Append(down[c], m) ELSE down[c]
<1>0. /\ Domains /\ ControllerOK /\ ConnOK(c)
      /\ greeting = c /\ greeting' = None /\ Client(c) /\ c # None
  <2>1. c # None
    BY ConnAssumption DEF ConnAssumption
  <2>2. greeting = c /\ greeting' = None /\ (greeting # None => Client(greeting))
    BY DEF SessionInv, ControllerOK, Greet
  <2>3. Client(c)
    BY <2>1, <2>2 DEF Client
  <2> QED
    BY <2>1, <2>2, <2>3 DEF SessionInv
<1>1. Becomes(down, down', c, q)
  <2>1. CASE link[c] = "open"
    <3>1. SendDown(c, m)
      BY <2>1 DEF Greet
    <3> QED
      BY <1>0, <2>1, <3>1, SendDownFact
  <2>2. CASE link[c] # "open"
    <3>1. down' = down
      BY <2>2 DEF Greet
    <3> QED
      BY <1>0, <2>2, <3>1 DEF Domains, Becomes
  <2> QED
    BY <2>1, <2>2
<1>2. /\ UNCHANGED <<pc, opt, table, ifs, up, link>>
      /\ UNCHANGED <<srclients, interfaces, known, bcast, packets, unanswered>>
  BY DEF Greet, routerVars, poxVars
<1>3. \A d : Client(d)' <=> Client(d)
  BY <1>2 DEF Client
<1>4. down[c] \in Seq(DownMsg(known)) /\ m \in DownMsg(known) /\ m.type = "AUTH_REQUEST"
  BY <1>0, MsgFact DEF ConnOK, ConnTypes
<1>5. ControllerOK'
  BY <1>0, <1>2, <1>3 DEF ControllerOK
<1>6. q \in Seq(DownMsg(known))
  <2>1. Append(down[c], m) \in Seq(DownMsg(known))
    BY <1>4, AppendFact
  <2> QED
    BY <1>4, <2>1
<1>7. Lacks(down[c], StepTypes) /\ link[c] = "open" /\ pc[c] \notin Ended => OneStep(q, "AUTH_REQUEST")
  <2>1. Lacks(down[c], StepTypes) => AtMostOne(Append(down[c], m), StepTypes)
    BY <1>4, AppendFact
  <2>2. ~Lacks(Append(down[c], m), {"AUTH_REQUEST"})
    BY <1>4, AppendFact
  <2> QED
    BY <2>1, <2>2 DEF OneStep
<1>8. link[c] # "open" \/ pc[c] \in Ended => q = down[c]
  OBVIOUS
<1> HIDE DEF q, m
<1> USE DEF Becomes
<1>9. ConnOK(c)'
  <2>1. ConnTypes(c)'
    BY <1>0, <1>1, <1>2, <1>6 DEF ConnOK, ConnTypes
  <2>2. TableOK(c)'
    BY <1>0, <1>2 DEF ConnOK, TableOK
  <2>3. pc[c] \notin {"off", "connect", "status", "rtable", "run"}
    BY <1>0 DEF ConnOK, Phase, Outside, InStatus, InRun
  <2>4. Outside(c)'
    BY <1>0, <1>1, <1>2, <1>8, <2>3 DEF ConnOK, Phase, Outside
  <2>5. InAuth(c)'
    BY <1>0, <1>1, <1>2, <1>3, <1>7, <1>8 DEF ConnOK, Phase, InAuth, Ended
  <2>6. InStatus(c)' /\ InRun(c)'
    BY <1>2, <2>3 DEF InStatus, InRun
  <2> QED
    BY <2>1, <2>2, <2>4, <2>5, <2>6 DEF ConnOK, Phase
<1>10. ASSUME NEW d \in Conns \ {c} PROVE ConnOK(d)'
  <2>1. Local(d)' = Local(d) /\ known \subseteq known'
    BY <1>1, <1>2 DEF Local
  <2>2. (greeting' = d) <=> (greeting = d)
    BY <1>0, ConnAssumption DEF ConnAssumption
  <2> QED
    BY <1>3, <2>1, <2>2, Frame DEF SessionInv
<1>11. Domains'
  BY <1>0, <1>1, <1>2 DEF Domains, Total
<1> QED
  BY <1>5, <1>9, <1>10, <1>11 DEF SessionInv

\* The next message of the client is taken from its stream.
LEMMA HandlesFact ==
  ASSUME SessionInv, NEW c \in Conns, NEW t, Handles(c, t)
  PROVE  /\ greeting = None /\ greeting # c /\ link[c] = "open" /\ Client(c)
         /\ pc[c] \notin {"off", "connect", "spin"}
         /\ Becomes(up, up', c, Tail(up[c])) /\ up'[c] \in Seq(UpMsg(known))
         /\ up[c] \in Seq(UpMsg(known)) /\ up[c] # <<>> /\ Head(up[c]).type = t
<1>1. /\ greeting = None /\ link[c] = "open" /\ c \in Range(srclients)
      /\ up[c] # <<>> /\ Head(up[c]).type = t /\ up' = [up EXCEPT ![c] = Tail(@)]
      /\ Domains /\ ControllerOK /\ ConnOK(c)
  BY DEF Handles, SessionInv
<1>2. Becomes(up, up', c, Tail(up[c]))
  BY <1>1, Changed, Zenon DEF Domains
<1>3. up[c] \in Seq(UpMsg(known))
  BY <1>1 DEF ConnOK, ConnTypes
<1>4. up'[c] \in Seq(UpMsg(known))
  BY <1>1, <1>2, <1>3, TailFact DEF Becomes
<1>5. Client(c)
  BY <1>1 DEF ControllerOK, Range, Client
<1>6. pc[c] \notin {"off", "connect", "spin"}
  BY <1>1 DEF ConnOK, Phase, Outside
<1>7. greeting # c
  BY <1>1, ConnAssumption DEF ConnAssumption
<1> QED
  BY <1>1, <1>2, <1>3, <1>4, <1>5, <1>6, <1>7

\* Of one step, the first message of the handshake is that one.
LEMMA OneStepHead ==
  ASSUME NEW S, NEW q \in Seq(S), q # <<>>, NEW t, t \in StepTypes,
         OneStep(q, t), Head(q).type \in StepTypes
  PROVE  Head(q).type = t
<1>1. Lacks(Tail(q), StepTypes)
  BY TailFact DEF OneStep
<1>2. Lacks(Tail(q), {t})
  BY <1>1, Fewer
<1>3. ~Lacks(q, {t})
  BY DEF OneStep
<1>4. Head(q).type \in {t}
  BY <1>2, <1>3, TailFact
<1> QED
  BY <1>4

LEMMA HandleAuthReplyStep ==
  ASSUME SessionInv, NEW c \in Conns, HandleAuthReply(c) PROVE SessionInv'
<1> DEFINE m == Msg("AUTH_STATUS")
           q == IF pc[c] \in Ended THEN down[c] ELSE Append(down[c], m)
<1>0. Domains /\ ConnOK(c) /\ Handles(c, "AUTH_REPLY")
  BY DEF SessionInv, HandleAuthReply
<1>1. /\ greeting # c /\ Client(c) /\ pc[c] \notin {"off", "connect", "spin"}
      /\ Becomes(up, up', c, Tail(up[c])) /\ up'[c] \in Seq(UpMsg(known))
      /\ up[c] \in Seq(UpMsg(known)) /\ up[c] # <<>> /\ Head(up[c]).type = "AUTH_REPLY"
  BY <1>0, HandlesFact
<1>2. Becomes(down, down', c, q)
  BY <1>0, SendDownFact DEF HandleAuthReply
<1>3. down[c] \in Seq(DownMsg(known)) /\ m \in DownMsg(known) /\ m.type = "AUTH_STATUS"
  BY <1>0, MsgFact DEF ConnOK, ConnTypes
<1>4. q \in Seq(DownMsg(known))
  <2>1. Append(down[c], m) \in Seq(DownMsg(known))
    BY <1>3, AppendFact
  <2> QED
    BY <1>3, <2>1
<1>5. Lacks(down[c], StepTypes) /\ pc[c] \notin Ended => OneStep(q, "AUTH_STATUS")
  <2>1. Lacks(down[c], StepTypes) => AtMostOne(Append(down[c], m), StepTypes)
    BY <1>3, AppendFact
  <2>2. ~Lacks(Append(down[c], m), {"AUTH_STATUS"})
    BY <1>3, AppendFact
  <2> QED
    BY <2>1, <2>2 DEF OneStep
<1>6. pc[c] \in Ended => q = down[c]
  OBVIOUS
<1> HIDE DEF m, q
<1>7. ~Lacks(up[c], {"AUTH_REPLY"}) /\ ~Lacks(up[c], StepTypes)
      /\ (AtMostOne(up[c], StepTypes) => Lacks(Tail(up[c]), StepTypes))
  <2>1. Head(up[c]).type \in {"AUTH_REPLY"} /\ Head(up[c]).type \in StepTypes
    BY <1>1 DEF StepTypes, UpTypes
  <2> QED
    BY <1>1, <2>1, TailFact
<1> USE DEF Becomes
<1>8. UNCHANGED <<pc, opt, table, ifs, link, ctlVars>> /\ known' = known
  BY DEF HandleAuthReply, routerVars, ctlVars, poxVars
<1>9. Domains' /\ \A d \in Conns \ {c} : Local(d)' = Local(d)
  BY <1>0, <1>1, <1>2, <1>8 DEF Domains, Local, Total
<1>10. (Client(c)' <=> Client(c)) /\ greeting' = greeting
  BY <1>8 DEF Client, ctlVars
<1>11. ConnOK(c)'
  <2>1. ConnTypes(c)'
    BY <1>0, <1>1, <1>2, <1>4, <1>8 DEF ConnOK, ConnTypes
  <2>2. TableOK(c)'
    BY <1>0, <1>8 DEF ConnOK, TableOK
  <2>3. pc[c] \notin {"auth", "rtable", "run"}
    BY <1>0, <1>7 DEF ConnOK, Phase, InAuth, InRun
  <2>4. Outside(c)'
    BY <1>0, <1>1, <1>2, <1>6, <1>8 DEF ConnOK, Phase, Outside
  <2>5. InStatus(c)'
    BY <1>0, <1>1, <1>2, <1>5, <1>7, <1>8, <1>10 DEF ConnOK, Phase, InStatus, OneStep, Ended
  <2>6. InAuth(c)' /\ InRun(c)'
    BY <1>8, <2>3 DEF InAuth, InRun
  <2> QED
    BY <2>1, <2>2, <2>4, <2>5, <2>6 DEF ConnOK, Phase
<1> QED
  BY <1>8, <1>9, <1>11, LocalStep DEF ctlVars

LEMMA HandlePacketStep ==
  ASSUME SessionInv, NEW c \in Conns, HandlePacket(c) PROVE SessionInv'
<1>0. Domains /\ ConnOK(c) /\ Handles(c, "PACKET")
  BY DEF SessionInv, HandlePacket
<1>1. /\ greeting # c /\ Client(c) /\ pc[c] \notin {"off", "connect", "spin"}
      /\ Becomes(up, up', c, Tail(up[c])) /\ up'[c] \in Seq(UpMsg(known))
      /\ up[c] \in Seq(UpMsg(known)) /\ up[c] # <<>> /\ Head(up[c]).type = "PACKET"
  BY <1>0, HandlesFact
<1> USE DEF Becomes
<1>2. /\ Lacks(up[c], StepTypes) => Lacks(up'[c], StepTypes)
      /\ Lacks(up[c], {"AUTH_REPLY"}) => Lacks(up'[c], {"AUTH_REPLY"})
      /\ AtMostOne(up[c], StepTypes) => AtMostOne(up'[c], StepTypes)
  BY <1>1, TailFact
<1>3. OneStep(up[c], "AUTH_REPLY") => OneStep(up'[c], "AUTH_REPLY")
  <2>1. Head(up[c]).type \notin {"AUTH_REPLY"}
    BY <1>1
  <2>2. ~Lacks(up[c], {"AUTH_REPLY"}) => ~Lacks(up'[c], {"AUTH_REPLY"})
    BY <1>1, <2>1, TailFact
  <2> QED
    BY <1>2, <2>2 DEF OneStep
<1>4. UNCHANGED <<pc, opt, table, ifs, down, link, ctlVars>> /\ known' = known
  BY DEF HandlePacket, routerVars, ctlVars, poxVars
<1>5. Domains' /\ \A d \in Conns \ {c} : Local(d)' = Local(d)
  BY <1>0, <1>1, <1>4 DEF Domains, Local, Total
<1>6. (Client(c)' <=> Client(c)) /\ greeting' = greeting
  BY <1>4 DEF Client, ctlVars
<1>7. ConnOK(c)'
  <2>1. ConnTypes(c)'
    BY <1>0, <1>1, <1>4 DEF ConnOK, ConnTypes
  <2>2. TableOK(c)'
    BY <1>0, <1>4 DEF ConnOK, TableOK
  <2>3. Outside(c)' /\ InAuth(c)'
    BY <1>0, <1>1, <1>2, <1>4, <1>6 DEF ConnOK, Phase, Outside, InAuth
  <2>4. InStatus(c)' /\ InRun(c)'
    BY <1>0, <1>2, <1>3, <1>4, <1>6 DEF ConnOK, Phase, InStatus, InRun
  <2> QED
    BY <2>1, <2>2, <2>3, <2>4 DEF ConnOK, Phase
<1> QED
  BY <1>4, <1>5, <1>7, LocalStep DEF ctlVars

\* When the client asks to open, nothing about interfaces has been sent to it.
LEMMA OpenFact ==
  ASSUME SessionInv, NEW c \in Conns, NEW t \in {"OPEN", "OPEN_TEMPLATE"}, Handles(c, t)
  PROVE  /\ pc[c] \notin {"off", "connect", "spin", "auth", "status"}
         /\ pc[c] \in {"rtable", "run"} =>
                /\ Lacks(up'[c], StepTypes) /\ Lacks(up'[c], {"AUTH_REPLY"})
                /\ AtMostOne(up'[c], StepTypes)
                /\ Lacks(down[c], {"HWINFO"}) /\ ifs[c] = <<>>
<1>0. ConnOK(c)
  BY DEF SessionInv
<1>1. /\ pc[c] \notin {"off", "connect", "spin"} /\ up'[c] = Tail(up[c])
      /\ up[c] \in Seq(UpMsg(known)) /\ up[c] # <<>> /\ Head(up[c]).type = t
  BY HandlesFact DEF Becomes
<1>2. t \in StepTypes /\ "AUTH_REPLY" \in StepTypes /\ t # "AUTH_REPLY"
  BY DEF StepTypes, UpTypes
<1>3. ~Lacks(up[c], StepTypes) /\ (AtMostOne(up[c], StepTypes) => Lacks(up'[c], StepTypes))
  BY <1>1, <1>2, TailFact
<1>4. ~OneStep(up[c], "AUTH_REPLY")
  BY <1>1, <1>2, OneStepHead
<1>5. pc[c] \notin {"auth", "status"}
  BY <1>0, <1>3, <1>4 DEF ConnOK, Phase, InAuth, InStatus
<1>6. pc[c] \in {"rtable", "run"} =>
          Lacks(up'[c], StepTypes) /\ Lacks(down[c], {"HWINFO"}) /\ ifs[c] = <<>>
  BY <1>0, <1>3 DEF ConnOK, Phase, InRun
<1>7. Lacks(up'[c], StepTypes) => Lacks(up'[c], {"AUTH_REPLY"}) /\ AtMostOne(up'[c], StepTypes)
  BY <1>2, Fewer
<1> QED
  BY <1>1, <1>5, <1>6, <1>7

\* An answer with hardware info at most once
LEMMA AnswerStep ==
  ASSUME SessionInv, NEW c \in Conns, NEW t \in {"OPEN", "OPEN_TEMPLATE"}, Handles(c, t),
         NEW q, Becomes(down, down', c, q), q \in Seq(DownMsg(known)),
         pc[c] \in Ended => q = down[c],
         Lacks(down[c], {"HWINFO"}) => AtMostOne(q, {"HWINFO"}),
         NEW l \in {"open", "closed"}, Becomes(link, link', c, l),
         UNCHANGED <<routerVars, srclients, greeting, poxVars>>,
         \/ UNCHANGED unanswered
         \/ unanswered' = unanswered \cup {c}
  PROVE  SessionInv'
<1>0. Domains /\ ConnOK(c)
  BY DEF SessionInv
<1>1. /\ greeting # c /\ Client(c)
      /\ Becomes(up, up', c, Tail(up[c])) /\ up'[c] \in Seq(UpMsg(known))
  BY HandlesFact
<1>2. /\ pc[c] \notin {"off", "connect", "spin", "auth", "status"}
      /\ pc[c] \in {"rtable", "run"} =>
             /\ Lacks(up'[c], StepTypes) /\ Lacks(up'[c], {"AUTH_REPLY"})
             /\ AtMostOne(up'[c], StepTypes)
             /\ Lacks(down[c], {"HWINFO"}) /\ ifs[c] = <<>>
  BY OpenFact
<1> USE DEF Becomes
<1>3. UNCHANGED <<pc, opt, table, ifs, srclients, greeting>> /\ known' = known
  BY DEF routerVars, poxVars
<1>4. Domains' /\ \A d \in Conns \ {c} : Local(d)' = Local(d)
  BY <1>0, <1>1, <1>3 DEF Domains, Local, Total
<1>5. (Client(c)' <=> Client(c)) /\ greeting' = greeting
  BY <1>3 DEF Client
<1>6. ConnOK(c)'
  <2>1. ConnTypes(c)'
    BY <1>0, <1>1, <1>3 DEF ConnOK, ConnTypes
  <2>2. TableOK(c)'
    BY <1>0, <1>3 DEF ConnOK, TableOK
  <2>3. Outside(c)'
    BY <1>0, <1>2, <1>3 DEF ConnOK, Phase, Outside
  <2>4. InAuth(c)' /\ InStatus(c)'
    BY <1>2, <1>3 DEF InAuth, InStatus
  <2>5. InRun(c)'
    BY <1>1, <1>2, <1>3, <1>5 DEF InRun
  <2> QED
    BY <2>1, <2>2, <2>3, <2>4, <2>5 DEF ConnOK, Phase
<1> QED
  BY <1>1, <1>4, <1>6, LocalStep

LEMMA HandleOpenStep ==
  ASSUME SessionInv, NEW c \in Conns, HandleOpen(c) PROVE SessionInv'
<1>0. /\ Domains /\ ControllerOK /\ Handles(c, "OPEN")
      /\ UNCHANGED <<routerVars, link, srclients, greeting, poxVars>>
  BY DEF SessionInv, HandleOpen
<1>1. down[c] \in Seq(DownMsg(known)) /\ link[c] = "open"
  BY <1>0, HandlesFact DEF SessionInv, ConnOK, ConnTypes
<1>2. Becomes(link, link', c, "open")
  BY <1>0, <1>1 DEF Domains, Becomes
<1>3. CASE interfaces # None
  <2> DEFINE m == Hwinfo(interfaces)
             q == IF pc[c] \in Ended THEN down[c] ELSE Append(down[c], m)
  <2>1. m \in DownMsg(known)
    BY <1>0, <1>3, MsgFact DEF ControllerOK
  <2>2. SendDown(c, m) /\ UNCHANGED unanswered
    BY <1>3 DEF HandleOpen
  <2>3. Becomes(down, down', c, q)
    BY <1>0, <2>2, SendDownFact
  <2>4. /\ q \in Seq(DownMsg(known)) /\ (pc[c] \in Ended => q = down[c])
        /\ Lacks(down[c], {"HWINFO"}) => AtMostOne(q, {"HWINFO"})
    <3>1. Append(down[c], m) \in Seq(DownMsg(known))
      BY <1>1, <2>1, AppendFact
    <3>2. Lacks(down[c], {"HWINFO"}) => AtMostOne(Append(down[c], m), {"HWINFO"})
      BY <1>1, <2>1, AppendFact
    <3>3. Lacks(down[c], {"HWINFO"}) => AtMostOne(down[c], {"HWINFO"})
      BY Fewer
    <3> QED
      BY <1>1, <3>1, <3>2, <3>3
  <2> HIDE DEF q, m
  <2> QED
    BY <1>0, <1>2, <2>2, <2>3, <2>4, AnswerStep
<1>4. CASE interfaces = None
  <2>1. unanswered' = unanswered \cup {c} /\ down' = down
    BY <1>4 DEF HandleOpen
  <2>2. Becomes(down, down', c, down[c])
    BY <1>0, <2>1 DEF Domains, Becomes
  <2>3. Lacks(down[c], {"HWINFO"}) => AtMostOne(down[c], {"HWINFO"})
    BY Fewer
  <2> QED
    BY <1>0, <1>1, <1>2, <2>1, <2>2, <2>3, AnswerStep
<1> QED
  BY <1>3, <1>4

LEMMA HandleOpenTemplateStep ==
  ASSUME SessionInv, NEW c \in Conns, HandleOpenTemplate(c) PROVE SessionInv'
<1>0. /\ Domains /\ Handles(c, "OPEN_TEMPLATE") /\ down' = down
      /\ UNCHANGED <<routerVars, srclients, greeting, poxVars>>
      /\ link' = link \/ link' = [link EXCEPT ![c] = "closed"]
      /\ UNCHANGED unanswered \/ unanswered' = unanswered \cup {c}
  BY DEF SessionInv, HandleOpenTemplate
<1>1. down[c] \in Seq(DownMsg(known)) /\ link[c] = "open"
  BY <1>0, HandlesFact DEF SessionInv, ConnOK, ConnTypes
<1>2. Becomes(down, down', c, down[c])
  BY <1>0 DEF Domains, Becomes
<1>3. PICK l \in {"open", "closed"} : Becomes(link, link', c, l)
  <2>1. CASE link' = link
    <3>1. Becomes(link, link', c, "open")
      BY <1>0, <1>1, <2>1 DEF Domains, Becomes
    <3> QED
      BY <3>1
  <2>2. CASE link' = [link EXCEPT ![c] = "closed"]
    <3>1. Becomes(link, link', c, "closed")
      BY <1>0, <2>2, Changed, Zenon DEF Domains
    <3> QED
      BY <3>1
  <2> QED
    BY <1>0, <2>1, <2>2
<1>4. Lacks(down[c], {"HWINFO"}) => AtMostOne(down[c], {"HWINFO"})
  BY Fewer
<1> QED
  BY <1>0, <1>1, <1>2, <1>3, <1>4, AnswerStep

LEMMA TemplateServerStep ==
  ASSUME SessionInv, NEW c \in Conns, TemplateServer(c) PROVE SessionInv'
<1> DEFINE r(f) == Rtable(f)
           b == Msg("BANNER")
           x == Msg("CLOSE")
           h == Hwinfo(interfaces)
           K == DownMsg(known)
           T == {"HWINFO"}
           p == down[c]
<1>0. /\ Domains /\ ControllerOK /\ Handles(c, "OPEN_TEMPLATE") /\ interfaces # None
      /\ UNCHANGED <<routerVars, link, srclients, greeting, poxVars, unanswered>>
  BY DEF SessionInv, TemplateServer, ctlVars
<1>1. p \in Seq(K) /\ link[c] = "open"
  BY <1>0, HandlesFact DEF SessionInv, ConnOK, ConnTypes
<1>2. Becomes(link, link', c, "open")
  BY <1>0, <1>1 DEF Domains, Becomes
<1>3. PICK f \in Served : \E answer \in {<<r(f), b, h>>, <<r(f), h, x>>, <<x>>} :
          down' = [down EXCEPT ![c] = IF pc[c] \in Ended THEN @ ELSE @ \o answer]
  BY DEF TemplateServer
<1>4. PICK a \in {<<r(f), b, h>>, <<r(f), h, x>>, <<x>>} :
          down' = [down EXCEPT ![c] = IF pc[c] \in Ended THEN @ ELSE @ \o a]
  BY <1>3
<1> DEFINE q == IF pc[c] \in Ended THEN p ELSE p \o a
<1>5. Becomes(down, down', c, q)
  BY <1>0, <1>4, Changed, Zenon DEF Domains
<1>6. /\ r(f) \in K /\ b \in K /\ x \in K /\ h \in K
      /\ r(f).type \notin T /\ b.type \notin T /\ x.type \notin T
  <2>1. r(f) \in K /\ r(f).type = "RTABLE"
    BY MsgFact
  <2>2. b \in K /\ b.type = "BANNER" /\ x \in K /\ x.type = "CLOSE"
    BY MsgFact
  <2>3. h \in K
    BY <1>0, MsgFact DEF ControllerOK
  <2> QED
    BY <2>1, <2>2, <2>3
<1> HIDE DEF r, b, x, h, K, T, p
<1>7. p \o a \in Seq(K) /\ (Lacks(p, T) => AtMostOne(p \o a, T))
  <2>0. ASSUME NEW u \in K, NEW v \in K, NEW w \in K
        PROVE  p \o <<u, v, w>> = Append(Append(Append(p, u), v), w)
    BY <1>1
  <2>1. CASE a = <<r(f), b, h>>
    <3>1. p \o a = Append(Append(Append(p, r(f)), b), h)
      BY <1>6, <2>0, <2>1
    <3>2. Append(p, r(f)) \in Seq(K) /\ (Lacks(p, T) => Lacks(Append(p, r(f)), T))
      BY <1>1, <1>6, AppendFact
    <3>3. /\ Append(Append(p, r(f)), b) \in Seq(K)
          /\ (Lacks(p, T) => Lacks(Append(Append(p, r(f)), b), T))
      BY <1>6, <3>2, AppendFact
    <3>4. /\ Append(Append(Append(p, r(f)), b), h) \in Seq(K)
          /\ (Lacks(p, T) => AtMostOne(Append(Append(Append(p, r(f)), b), h), T))
      BY <1>6, <3>3, AppendFact
    <3> QED
      BY ONLY <3>1, <3>4, Zenon
  <2>2. CASE a = <<r(f), h, x>>
    <3>1. p \o a = Append(Append(Append(p, r(f)), h), x)
      BY <1>6, <2>0, <2>2
    <3>2. Append(p, r(f)) \in Seq(K) /\ (Lacks(p, T) => Lacks(Append(p, r(f)), T))
      BY <1>1, <1>6, AppendFact
    <3>3. /\ Append(Append(p, r(f)), h) \in Seq(K)
          /\ (Lacks(p, T) => AtMostOne(Append(Append(p, r(f)), h), T))
      BY <1>6, <3>2, AppendFact
    <3>4. /\ Append(Append(Append(p, r(f)), h), x) \in Seq(K)
          /\ (Lacks(p, T) => AtMostOne(Append(Append(Append(p, r(f)), h), x), T))
      BY <1>6, <3>3, AppendFact
    <3> QED
      BY ONLY <3>1, <3>4, Zenon
  <2>3. CASE a = <<x>>
    <3>1. p \o a = Append(p, x)
      BY <1>1, <1>6, <2>3
    <3>2. Append(p, x) \in Seq(K) /\ (Lacks(p, T) => AtMostOne(Append(p, x), T))
      BY <1>1, <1>6, AppendFact
    <3> QED
      BY ONLY <3>1, <3>2, Zenon
  <2> QED
    BY <2>1, <2>2, <2>3
<1>8. /\ q \in Seq(DownMsg(known)) /\ (pc[c] \in Ended => q = down[c])
      /\ Lacks(down[c], {"HWINFO"}) => AtMostOne(q, {"HWINFO"})
  <2>1. Lacks(p, T) => AtMostOne(p, T)
    BY Fewer
  <2>2. /\ q \in Seq(K) /\ (pc[c] \in Ended => q = p) /\ (Lacks(p, T) => AtMostOne(q, T))
    BY <1>1, <1>7, <2>1
  <2> QED
    BY <2>2 DEF K, T, p
<1> HIDE DEF q
<1> QED
  BY <1>0, <1>2, <1>5, <1>8, AnswerStep

-----------------------------------------------------------------------------
(* The controller: the POX thread.                                         *)

LEMMA RouterInfoStep ==
  ASSUME SessionInv, NEW P \in Switches, RouterInfo(P) PROVE SessionInv'
<1>0. /\ Domains /\ ControllerOK /\ interfaces' = P /\ known' = known \cup Names(P) /\ bcast = Idle
      /\ UNCHANGED <<pc, opt, table, ifs, down, up, link>>
      /\ UNCHANGED <<srclients, greeting, bcast, packets, unanswered>>
  BY DEF SessionInv, RouterInfo, routerVars
<1>1. \A d : Client(d)' <=> Client(d)
  BY <1>0 DEF Client
<1>2. ControllerOK'
  <2>1. known' \subseteq AllNames /\ interfaces' \in Switches /\ Names(interfaces') \subseteq known'
    BY <1>0 DEF ControllerOK, AllNames
  <2>2. greeting' # None => Client(greeting)'
    BY <1>0 DEF ControllerOK, Client
  <2> QED
    BY <1>0, <1>1, <2>1, <2>2 DEF ControllerOK
<1>3. ASSUME NEW d \in Conns PROVE ConnOK(d)'
  <2>1. Local(d)' = Local(d) /\ known \subseteq known' /\ greeting' = greeting
    BY <1>0 DEF Local
  <2> QED
    BY <1>1, <2>1, Frame DEF SessionInv
<1> QED
  BY <1>0, <1>2, <1>3 DEF SessionInv, Domains, Total

LEMMA PacketInStep ==
  ASSUME SessionInv, NEW i \in AllNames, PacketIn(i) PROVE SessionInv'
<1>0. /\ Domains /\ ControllerOK
      /\ packets < MaxPackets /\ packets' = packets + 1
      /\ UNCHANGED <<pc, opt, table, ifs, down, up, link>>
      /\ UNCHANGED <<srclients, greeting, interfaces, known, unanswered>>
  BY DEF SessionInv, PacketIn, routerVars
<1>1. PICK m \in {Packet(i), Msg("LONG")} : bcast' = [msg |-> m, next |-> 1]
  BY DEF PacketIn
<1>2. \A d : Client(d)' <=> Client(d)
  BY <1>0 DEF Client
<1>3. m \in DownMsg(known) /\ m.type \in {"PACKET", "LONG"}
  BY MsgFact
<1>4. ControllerOK'
  <2>1. packets' \in 0..MaxPackets
    BY <1>0, BoundAssumption DEF ControllerOK, BoundAssumption
  <2>2. greeting' # None => Client(greeting)'
    BY <1>0 DEF ControllerOK, Client
  <2>3. 1 \in 1..(Len(srclients) + 1)
    BY <1>0 DEF ControllerOK
  <2>4. /\ bcast' = [msg |-> bcast'.msg, next |-> bcast'.next]
        /\ bcast'.next \in 1..(Len(srclients') + 1)
        /\ bcast'.msg \in DownMsg(known') /\ bcast'.msg.type \in {"PACKET", "LONG"}
    BY <1>0, <1>1, <1>3, <2>3
  <2> QED
    BY <1>0, <1>2, <2>1, <2>2, <2>4 DEF ControllerOK
<1>5. ASSUME NEW d \in Conns PROVE ConnOK(d)'
  <2>1. Local(d)' = Local(d) /\ known \subseteq known' /\ greeting' = greeting
    BY <1>0 DEF Local
  <2> QED
    BY <1>2, <2>1, Frame DEF SessionInv
<1> QED
  BY <1>0, <1>4, <1>5 DEF SessionInv, Domains, Total

\* A packet on an open connection is no step of its handshake.
LEMMA BroadcastOne ==
  ASSUME SessionInv, NEW c \in Conns, NEW m \in DownMsg(known), m.type \in {"PACKET", "LONG"},
         link[c] = "open", SendDown(c, m),
         UNCHANGED <<pc, opt, table, ifs, up, link, srclients, greeting, known>>
  PROVE  ConnOK(c)' /\ Total(down') /\ \A d \in Conns \ {c} : down'[d] = down[d]
<1> DEFINE q == IF pc[c] \in Ended THEN down[c] ELSE Append(down[c], m)
<1>0. Domains /\ ConnOK(c)
  BY DEF SessionInv
<1>1. Becomes(down, down', c, q)
  BY <1>0, SendDownFact
<1> USE DEF Becomes
<1>2. down[c] \in Seq(DownMsg(known))
  BY <1>0 DEF ConnOK, ConnTypes
<1>3. m.type \notin StepTypes /\ m.type \notin {"HWINFO"}
  BY DEF StepTypes
<1>4. /\ q \in Seq(DownMsg(known)) /\ (pc[c] \in Ended => q = down[c])
      /\ Lacks(down[c], StepTypes) => Lacks(q, StepTypes)
      /\ Lacks(down[c], {"HWINFO"}) => Lacks(q, {"HWINFO"})
      /\ AtMostOne(down[c], {"HWINFO"}) => AtMostOne(q, {"HWINFO"})
      /\ \A t : OneStep(down[c], t) => OneStep(q, t)
  <2>1. CASE pc[c] \in Ended
    BY <1>2, <2>1
  <2>2. CASE pc[c] \notin Ended
    <3>1. /\ q \in Seq(DownMsg(known))
          /\ Lacks(down[c], StepTypes) => Lacks(q, StepTypes)
          /\ Lacks(down[c], {"HWINFO"}) => Lacks(q, {"HWINFO"})
          /\ AtMostOne(down[c], {"HWINFO"}) => AtMostOne(q, {"HWINFO"})
      BY <1>2, <1>3, <2>2, AppendFact
    <3>2. AtMostOne(down[c], StepTypes) => AtMostOne(q, StepTypes)
      BY <1>2, <1>3, <2>2, AppendFact
    <3>3. \A t : ~Lacks(down[c], {t}) => ~Lacks(q, {t})
      BY <1>2, <2>2, AppendFact
    <3> QED
      BY <2>2, <3>1, <3>2, <3>3 DEF OneStep
  <2> QED
    BY <2>1, <2>2
<1> HIDE DEF q
<1>5. Client(c)' <=> Client(c)
  BY DEF Client
<1>6. ConnTypes(c)'
  BY <1>0, <1>1, <1>4 DEF ConnOK, ConnTypes
<1>7. TableOK(c)'
  BY <1>0 DEF ConnOK, TableOK
<1>8. Outside(c)' /\ InAuth(c)'
  BY <1>0, <1>1, <1>4, <1>5 DEF ConnOK, Phase, Outside, InAuth
<1>9. InStatus(c)' /\ InRun(c)'
  BY <1>0, <1>1, <1>4, <1>5 DEF ConnOK, Phase, InStatus, InRun
<1> QED
  BY <1>1, <1>6, <1>7, <1>8, <1>9 DEF ConnOK, Phase

LEMMA BroadcastSteps ==
  ASSUME SessionInv, BroadcastStep PROVE SessionInv'
<1>0. /\ Domains /\ ControllerOK /\ bcast # Idle
      /\ UNCHANGED <<pc, opt, table, ifs, up, link>>
      /\ UNCHANGED <<srclients, greeting, interfaces, known, packets, unanswered>>
  BY DEF SessionInv, BroadcastStep, routerVars
<1>1. /\ bcast = [msg |-> bcast.msg, next |-> bcast.next]
      /\ bcast.next \in 1..(Len(srclients) + 1)
      /\ bcast.msg \in DownMsg(known) /\ bcast.msg.type \in {"PACKET", "LONG"}
      /\ srclients \in Seq(Conns)
  BY <1>0 DEF ControllerOK
<1>2. \A d : Client(d)' <=> Client(d)
  BY <1>0 DEF Client
<1>3. ASSUME NEW d \in Conns, down'[d] = down[d] PROVE ConnOK(d)'
  <2>1. Local(d)' = Local(d) /\ known \subseteq known' /\ greeting' = greeting
    BY <1>0, <1>3 DEF Local
  <2> QED
    BY <1>2, <2>1, Frame DEF SessionInv
<1>4. ASSUME \/ bcast' = Idle
             \/ /\ bcast' = [msg |-> bcast.msg, next |-> bcast.next + 1]
                /\ bcast.next + 1 \in 1..(Len(srclients) + 1)
      PROVE  ControllerOK'
  <2>1. greeting' # None => Client(greeting)'
    BY <1>0 DEF ControllerOK, Client
  <2>2. \/ bcast' = Idle
        \/ /\ bcast' = [msg |-> bcast'.msg, next |-> bcast'.next]
           /\ bcast'.next \in 1..(Len(srclients') + 1)
           /\ bcast'.msg \in DownMsg(known') /\ bcast'.msg.type \in {"PACKET", "LONG"}
    BY <1>0, <1>1, <1>4
  <2> QED
    BY <1>0, <1>2, <2>1, <2>2 DEF ControllerOK
<1>5. CASE bcast.next <= Len(srclients)
  <2>0. srclients[bcast.next] \in Conns /\ bcast.next + 1 \in 1..(Len(srclients) + 1)
    BY <1>1, <1>5
  <2>1. PICK c \in Conns : c = srclients[bcast.next]
    BY <2>0
  <2>2. bcast' = [msg |-> bcast.msg, next |-> bcast.next + 1]
    <3>1. bcast' = [bcast EXCEPT !.next = @ + 1]
      BY <1>5 DEF BroadcastStep
    <3> QED
      BY <1>1, <3>1
  <2>3. ControllerOK'
    BY <1>4, <2>0, <2>2
  <2>4. CASE link[c] = "open"
    <3>1. SendDown(c, bcast.msg)
      BY <1>5, <2>1, <2>4 DEF BroadcastStep
    <3>2. ConnOK(c)' /\ Total(down') /\ \A d \in Conns \ {c} : down'[d] = down[d]
      BY <1>0, <1>1, <2>4, <3>1, BroadcastOne
    <3>3. Domains'
      BY <1>0, <3>2 DEF Domains, Total
    <3> QED
      BY <1>3, <2>3, <3>2, <3>3 DEF SessionInv
  <2>5. CASE link[c] # "open"
    <3>1. down' = down
      BY <1>5, <2>1, <2>5 DEF BroadcastStep
    <3>2. Domains'
      BY <1>0, <3>1 DEF Domains, Total
    <3> QED
      BY <1>3, <2>3, <3>1, <3>2 DEF SessionInv
  <2> QED
    BY <2>4, <2>5
<1>6. CASE ~(bcast.next <= Len(srclients))
  <2>1. bcast' = Idle /\ down' = down
    BY <1>6 DEF BroadcastStep
  <2>2. Domains'
    BY <1>0, <2>1 DEF Domains, Total
  <2> QED
    BY <1>3, <1>4, <2>1, <2>2 DEF SessionInv
<1> QED
  BY <1>5, <1>6

-----------------------------------------------------------------------------
(* The invariant is inductive.                                             *)

LEMMA SessionInvNext ==
  ASSUME SessionInv, [Next]_vars PROVE SessionInv'
<1>1. CASE UNCHANGED vars
  <2>1. /\ UNCHANGED <<pc, opt, table, ifs, down, up, link>>
        /\ UNCHANGED <<srclients, greeting, interfaces, known, bcast, packets, unanswered>>
    BY <1>1 DEF vars, routerVars, ctlVars, poxVars
  <2>2. \A d : Client(d)' <=> Client(d)
    BY <2>1 DEF Client
  <2>3. ASSUME NEW d \in Conns PROVE ConnOK(d)'
    <3>1. Local(d)' = Local(d) /\ known \subseteq known' /\ greeting' = greeting
      BY <2>1 DEF Local
    <3> QED
      BY <2>2, <3>1, Frame DEF SessionInv
  <2>4. ControllerOK'
    <3>1. greeting' # None => Client(greeting)'
      BY <2>1 DEF SessionInv, ControllerOK, Client
    <3> QED
      BY <2>1, <2>2, <3>1 DEF SessionInv, ControllerOK
  <2> QED
    BY <2>1, <2>3, <2>4 DEF SessionInv, Domains, Total
<1>2. CASE Pox
  BY <1>2, RouterInfoStep, PacketInStep, BroadcastSteps DEF Pox, SwitchConnects
<1>3. ASSUME NEW c \in Conns, Router(c) PROVE SessionInv'
  <2>1. CASE Reads(c)
    BY <2>1, EndSteps, ReadAuthRequestStep, ReadAuthStatusStep, ReadRtableStep, ReadHwinfoStep,
       ReadPacketStep, ReadEofStep DEF Reads
  <2>2. CASE \E i \in AllNames : SendPacket(c, i)
    BY <2>2, SendPacketStep
  <2> QED
    BY <1>3, <2>1, <2>2, StartStep, ConnectStep, EndSteps DEF Router
<1>4. ASSUME NEW c \in Conns, Reactor(c) PROVE SessionInv'
  BY <1>4, AcceptStep, GreetStep, HandleAuthReplyStep, HandleOpenStep, HandleOpenTemplateStep,
     TemplateServerStep, HandlePacketStep DEF Reactor
<1> QED
  BY <1>1, <1>2, <1>3, <1>4, HangUpStep DEF Next

\* Every reachable state satisfies the inductive invariant.
LEMMA SessionInvariant == Spec => []SessionInv
  BY SessionInvInit, SessionInvNext, PTL DEF Spec

-----------------------------------------------------------------------------
(* What the invariant implies.                                             *)

LEMMA StreamFact ==
  ASSUME SessionInv, NEW c \in Conns
  PROVE  /\ DOMAIN down[c] = 1..Len(down[c]) /\ DOMAIN up[c] = 1..Len(up[c])
         /\ down[c] \in Seq(DownMsg(known)) /\ up[c] \in Seq(UpMsg(known))
         /\ \A i \in 1..Len(down[c]) : down[c][i] \in DownMsg(known)
         /\ \A i \in 1..Len(up[c]) : up[c][i] \in UpMsg(known)
<1>1. down[c] \in Seq(DownMsg(known)) /\ up[c] \in Seq(UpMsg(known))
  BY DEF SessionInv, ConnOK, ConnTypes
<1> QED
  BY <1>1

LEMMA ClientFact ==
  ASSUME SessionInv, NEW c PROVE Client(c) <=> c \in Range(srclients)
<1>1. srclients \in Seq(Conns)
  BY DEF SessionInv, ControllerOK
<1>2. DOMAIN srclients = 1..Len(srclients)
  BY <1>1
<1> QED
  BY <1>2 DEF Client, Range

LEMMA SessionInvTyped == ASSUME SessionInv PROVE TypeOK
<1>0. Domains /\ ControllerOK /\ \A c \in Conns : ConnTypes(c)
  BY DEF SessionInv, ConnOK
<1>1. /\ pc \in [Conns -> {"off", "connect"} \cup Reading \cup Gone]
      /\ link \in [Conns -> {"none", "open", "closed"}]
      /\ \A c \in Conns : opt[c] \in Options[c] \cup {None}
  BY <1>0 DEF Domains, Total, ConnTypes
<1>2. ASSUME NEW c \in Conns, NEW i \in DOMAIN ifs[c] PROVE ifs[c][i].name \in AllNames
  <2>1. ifs[c][i].name \in Names(ifs[c])
    BY <1>2 DEF Names
  <2> QED
    BY <1>0, <2>1 DEF ConnTypes, ControllerOK
<1>3. \A c \in Conns : \A i \in DOMAIN down[c] : down[c][i].type \in DownTypes
  BY StreamFact DEF DownMsg
<1>4. \A c \in Conns : \A i \in DOMAIN up[c] : up[c][i].type \in UpTypes
  BY StreamFact DEF UpMsg
<1>5. Range(srclients) \subseteq Conns /\ IsInjective(srclients)
  <2>1. DOMAIN srclients = 1..Len(srclients)
    BY <1>0 DEF ControllerOK
  <2>2. /\ \A i \in 1..Len(srclients) : srclients[i] \in Conns
        /\ \A i, j \in 1..Len(srclients) : srclients[i] = srclients[j] => i = j
    BY <1>0 DEF ControllerOK
  <2> QED
    BY <2>1, <2>2 DEF Range, IsInjective
<1>6. bcast.next \in 0..(Len(srclients) + 1)
  <2>1. Len(srclients) \in Nat
    BY <1>0 DEF ControllerOK
  <2>2. CASE bcast = Idle
    BY <2>1, <2>2 DEF Idle
  <2>3. CASE bcast # Idle
    <3>1. bcast.next \in 1..(Len(srclients) + 1)
      BY <1>0, <2>3 DEF ControllerOK
    <3> QED
      BY <2>1, <3>1
  <2> QED
    BY <2>2, <2>3
<1>7. unanswered \subseteq Range(srclients)
  BY <1>0, ClientFact DEF ControllerOK
<1> QED
  BY <1>0, <1>1, <1>2, <1>3, <1>4, <1>5, <1>6, <1>7 DEF TypeOK, ControllerOK

\* The steps of the handshake in a stream are counted by the invariant.
LEMMA StepsFact ==
  ASSUME NEW S, NEW q \in Seq(S), \A m \in S : m.type \in DownTypes \cup UpTypes
  PROVE  /\ Lacks(q, StepTypes) => Cardinality(Steps(q)) = 0
         /\ \A t \in StepTypes : OneStep(q, t) => Cardinality(Steps(q)) = 1
<1>1. DOMAIN q = 1..Len(q) /\ \A i \in 1..Len(q) : q[i] \in S
  OBVIOUS
<1>2. \A i \in 1..Len(q) : q[i].type \notin {"PACKET", "LONG"} <=> q[i].type \in StepTypes
  BY <1>1 DEF StepTypes
<1>3. Steps(q) = {i \in 1..Len(q) : q[i].type \in StepTypes}
  BY <1>1, <1>2 DEF Steps
<1>4. Lacks(q, StepTypes) => Cardinality(Steps(q)) = 0
  <2>1. Lacks(q, StepTypes) => Steps(q) = {}
    BY <1>3 DEF Lacks
  <2> QED
    BY <2>1, FS_EmptySet
<1>5. ASSUME NEW t \in StepTypes, OneStep(q, t) PROVE Cardinality(Steps(q)) = 1
  <2>1. PICK i \in 1..Len(q) : q[i].type \in {t}
    BY <1>5 DEF OneStep, Lacks
  <2>2. Steps(q) = {i}
    BY <1>3, <1>5, <2>1 DEF OneStep, AtMostOne
  <2> QED
    BY <2>2, FS_Singleton
<1> QED
  BY <1>4, <1>5

LEMMA SessionInvToken == ASSUME SessionInv PROVE HandshakeToken
<1> SUFFICES ASSUME NEW c \in Conns, link[c] = "open", pc[c] \in {"auth", "status"}
             PROVE  Cardinality(Steps(up[c])) + Cardinality(Steps(down[c]))
                    + (IF c \notin Range(srclients) \/ greeting = c THEN 1 ELSE 0) = 1
  BY DEF HandshakeToken
<1>0. Phase(c)
  BY DEF SessionInv, ConnOK
<1>1. \A m \in DownMsg(known) \cup UpMsg(known) : m.type \in DownTypes \cup UpTypes
  BY DEF DownMsg, UpMsg
<1>2. {"AUTH_REQUEST", "AUTH_REPLY", "AUTH_STATUS"} \subseteq StepTypes
  BY DEF StepTypes, DownTypes, UpTypes
<1>3. /\ Lacks(up[c], StepTypes) => Cardinality(Steps(up[c])) = 0
      /\ OneStep(up[c], "AUTH_REPLY") => Cardinality(Steps(up[c])) = 1
  BY <1>1, <1>2, StreamFact, StepsFact
<1>4. /\ Lacks(down[c], StepTypes) => Cardinality(Steps(down[c])) = 0
      /\ OneStep(down[c], "AUTH_REQUEST") => Cardinality(Steps(down[c])) = 1
      /\ OneStep(down[c], "AUTH_STATUS") => Cardinality(Steps(down[c])) = 1
  BY <1>1, <1>2, StreamFact, StepsFact
<1>5. Client(c) <=> c \in Range(srclients)
  BY ClientFact
<1>6. CASE pc[c] = "auth"
  BY <1>0, <1>3, <1>4, <1>5, <1>6 DEF Phase, InAuth
<1>7. CASE pc[c] = "status"
  BY <1>0, <1>3, <1>4, <1>5, <1>7 DEF Phase, InStatus
<1> QED
  BY <1>6, <1>7

-----------------------------------------------------------------------------
(* The theorems.                                                           *)

\* Processes, streams and the controller's tables are always what the code
\* declares; no client is twice in srclients, so no packet is sent to it twice.
THEOREM SessionTyped == Spec => []TypeOK
  BY SessionInvariant, SessionInvTyped, PTL

\* Once the hardware info is there, every route of a router names one of its
\* interfaces, and its table is the file's or the server's (sr_verify_routing_table
\* and the two calls of sr_load_rt), for any number of routers and any switches.
THEOREM ReadyTables == Spec => []ReadyConsistent
<1>1. ASSUME SessionInv PROVE ReadyConsistent
  BY <1>1 DEF SessionInv, ConnOK, TableOK, ReadyConsistent
<1> QED
  BY <1>1, SessionInvariant, PTL

\* The interface list of a router is one whole announcement of the switch, entry
\* by entry, each with its own addresses (sr_handle_hwinfo, sr_add_interface,
\* sr_set_ether_addr, sr_set_ether_ip).
THEOREM AnnouncedOnly == Spec => []InterfacesAnnounced
<1>1. ASSUME SessionInv PROVE InterfacesAnnounced
  BY <1>1 DEF SessionInv, ConnOK, ConnTypes, InterfacesAnnounced
<1> QED
  BY <1>1, SessionInvariant, PTL

\* Every packet on the way to the controller names an interface it can map to a
\* port (_handle_packet_msg), whenever and however often the switch connects.
THEOREM PacketsMapped == Spec => []PacketOutKnown
<1>1. ASSUME SessionInv PROVE PacketOutKnown
  <2>1. \A c \in Conns : \A i \in DOMAIN up[c] : up[c][i] \in UpMsg(known)
    BY <1>1, StreamFact
  <2> QED
    BY <2>1 DEF PacketOutKnown, UpMsg
<1> QED
  BY <1>1, SessionInvariant, PTL

\* While the connection stands, client and controller never wait for each other
\* in the authentication, and no step of it is sent twice, whatever the POX
\* thread broadcasts in between.
THEOREM TokenPassed == Spec => []HandshakeToken
  BY SessionInvariant, SessionInvToken, PTL

=============================================================================
