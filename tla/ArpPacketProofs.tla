--------------------------- MODULE ArpPacketProofs ---------------------------
(***************************************************************************)
(* Theorems about what becomes of a packet in ArpCache, for every number   *)
(* of slots, hosts, packets and requests: each queued packet hangs on one  *)
(* list, leaves for an address its next hop claimed, and meets one end.    *)
(***************************************************************************)
EXTENDS ArpCacheProofs

\* Packet p is on the list q; no packet is on it twice.
On(q, p) == \E i \in DOMAIN q : q[i] = p
Once(q) == \A i, j \in DOMAIN q : q[i] = q[j] => i = j

\* Every queued packet is on some list.
QueuedSomewhere ==
    \A p \in Packets : fate[p] = "queued" =>
        (\E r \in requests : On(cell[r].packets, p)) \/ On(mlist, p)

\* The list of a queued request: its packets wait for the address it asks for.
ListOK(r) ==
    /\ Once(cell[r].packets)
    /\ \A p \in Packets : On(cell[r].packets, p) =>
          /\ NextHop[p] = cell[r].ip
          /\ IF Settled(r) THEN fate[p] \in Final ELSE fate[p] = "queued"

\* The list the main thread walks: it asks for none of its addresses any more,
\* and each of its packets is to leave for an address that was claimed.
WalkOK ==
    /\ mpc # "drain" => mlist = <<>>
    /\ Once(mlist)
    /\ \A p \in Packets : On(mlist, p) =>
          /\ fate[p] = "queued"
          /\ <<NextHop[p], mmac>> \in Claims
          /\ \A r \in requests : cell[r].ip # NextHop[p]

\* The packet the main thread has in hand is the only one that is held; after
\* a lookup that hit no request asks for its next hop.
HeldOK ==
    /\ \A p \in Packets : fate[p] = "held" <=> mpc \in {"hit", "queue"} /\ mpkt = p
    /\ mpc = "hit" => /\ <<NextHop[mpkt], mmac>> \in Claims
                      /\ \A r \in requests : cell[r].ip # NextHop[mpkt]

\* The cache holds only what ARP replies claimed.
EntriesClaimed ==
    \A s \in Slots : entries[s] # None => <<entries[s].ip, entries[s].mac>> \in Claims

\* Packets arrive in order.
InOrder == \A p, q \in Packets : p < q /\ fate[p] = "new" => fate[q] = "new"

PacketInv ==
    /\ QueuedSomewhere
    /\ \A r \in requests : ListOK(r)
    /\ WalkOK
    /\ HeldOK
    /\ EntriesClaimed
    /\ InOrder

-----------------------------------------------------------------------------
(* Lists: what pushing a packet at the head and taking it off do.          *)

LEMMA EmptyList == \A p : ~ On(<<>>, p) /\ Once(<<>>)
  BY DEF On, Once

LEMMA SingleList ==
  ASSUME NEW p \in Packets
  PROVE  Once(<<p>>) /\ \A q : On(<<p>>, q) <=> q = p
  BY DEF On, Once

LEMMA PushList ==
  ASSUME NEW p \in Packets, NEW l \in Seq(Packets), Once(l), ~ On(l, p)
  PROVE  /\ Once(<<p>> \o l)
         /\ \A q : On(<<p>> \o l, q) <=> q = p \/ On(l, q)
<1> DEFINE m == <<p>> \o l
<1>1. /\ Len(m) = Len(l) + 1 /\ m \in Seq(Packets) /\ Len(l) \in Nat
      /\ m[1] = p
      /\ \A i \in 1..Len(l) : m[i + 1] = l[i]
      /\ \A i \in 2..Len(m) : i - 1 \in 1..Len(l) /\ m[i] = l[i - 1]
  BY SingletonSeq, ConcatProperties
<1>2. DOMAIN m = 1..Len(m) /\ DOMAIN l = 1..Len(l)
  BY <1>1
<1>3. \A q : On(m, q) <=> q = p \/ On(l, q)
  <2> TAKE q
  <2>1. ASSUME On(m, q) PROVE q = p \/ On(l, q)
    <3>1. PICK i \in 1..Len(m) : m[i] = q
      BY <2>1, <1>2 DEF On
    <3>2. CASE i = 1
      BY <3>1, <3>2, <1>1
    <3>3. CASE i # 1
      <4>1. i \in 2..Len(m)
        BY <3>3, <1>1
      <4> QED
        BY <3>1, <4>1, <1>1, <1>2 DEF On
    <3> QED
      BY <3>2, <3>3
  <2>2. ASSUME q = p PROVE On(m, q)
    <3>1. 1 \in 1..Len(m)
      BY <1>1
    <3> QED
      BY <2>2, <3>1, <1>1, <1>2 DEF On
  <2>3. ASSUME On(l, q) PROVE On(m, q)
    <3>1. PICK i \in 1..Len(l) : l[i] = q
      BY <2>3, <1>2 DEF On
    <3>2. i + 1 \in 1..Len(m) /\ m[i + 1] = q
      BY <3>1, <1>1
    <3> QED
      BY <3>2, <1>2 DEF On
  <2> QED
    BY <2>1, <2>2, <2>3
<1>4. Once(m)
  <2> SUFFICES ASSUME NEW i \in 1..Len(m), NEW j \in 1..Len(m), m[i] = m[j]
               PROVE  i = j
    BY <1>2 DEF Once
  <2>1. \A k \in 2..Len(m) : m[k] # p
    BY <1>1, <1>2 DEF On
  <2>2. CASE i = 1 \/ j = 1
    BY <2>1, <2>2, <1>1
  <2>3. CASE i # 1 /\ j # 1
    <3>1. i \in 2..Len(m) /\ j \in 2..Len(m)
      BY <2>3, <1>1
    <3>2. l[i - 1] = l[j - 1] /\ i - 1 \in 1..Len(l) /\ j - 1 \in 1..Len(l)
      BY <3>1, <1>1
    <3>3. i - 1 = j - 1
      BY <3>2, <1>2 DEF Once
    <3> QED
      BY <3>1, <3>3, <1>1
  <2> QED
    BY <2>2, <2>3
<1> QED
  BY <1>3, <1>4

LEMMA TailList ==
  ASSUME NEW l \in Seq(Packets), l # <<>>, Once(l)
  PROVE  /\ Head(l) \in Packets /\ On(l, Head(l))
         /\ Once(Tail(l))
         /\ \A q : On(Tail(l), q) <=> On(l, q) /\ q # Head(l)
<1> DEFINE t == Tail(l)
<1>1. /\ Len(l) \in Nat /\ Len(l) >= 1 /\ Len(t) = Len(l) - 1
      /\ Head(l) = l[1] /\ l[1] \in Packets
      /\ DOMAIN t = 1..Len(t) /\ DOMAIN l = 1..Len(l)
      /\ \A i \in 1..Len(t) : t[i] = l[i + 1] /\ i + 1 \in 2..Len(l)
      /\ \A i \in 2..Len(l) : l[i] = t[i - 1] /\ i - 1 \in 1..Len(t)
  BY HeadTailProperties, EmptySeq
<1>2. 1 \in 1..Len(l)
  BY <1>1
<1>3. \A i \in 2..Len(l) : l[i] # Head(l) /\ i \in 1..Len(l)
  BY <1>1, <1>2 DEF Once
<1>4. ASSUME NEW q, On(t, q) PROVE On(l, q) /\ q # Head(l)
  BY <1>1, <1>3, <1>4 DEF On
<1>5. ASSUME NEW q, On(l, q), q # Head(l) PROVE On(t, q)
  <2>1. PICK i \in 1..Len(l) : l[i] = q
    BY <1>1, <1>5 DEF On
  <2>2. i \in 2..Len(l)
    BY <2>1, <1>1, <1>5
  <2> QED
    BY <2>1, <2>2, <1>1 DEF On
<1>6. Once(t)
  <2> SUFFICES ASSUME NEW i \in 1..Len(t), NEW j \in 1..Len(t), t[i] = t[j]
               PROVE  i = j
    BY <1>1 DEF Once
  <2>1. l[i + 1] = l[j + 1] /\ i + 1 \in 1..Len(l) /\ j + 1 \in 1..Len(l)
    BY <1>1, <1>3
  <2>2. i + 1 = j + 1
    BY <2>1, <1>1 DEF Once
  <2> QED
    BY <2>2, <1>1
<1> QED
  BY <1>1, <1>2, <1>4, <1>5, <1>6 DEF On

LEMMA NonemptyList ==
  ASSUME NEW l \in Seq(Packets), l # <<>>
  PROVE  \E p \in Packets : On(l, p)
  BY HeadTailProperties, EmptySeq DEF On
-----------------------------------------------------------------------------
(* The invariant.                                                          *)

LEMMA PacketInit == Init => PacketInv
<1> SUFFICES ASSUME Init PROVE PacketInv
  OBVIOUS
<1> USE EmptyList DEF Init
<1>1. QueuedSomewhere /\ InOrder
  BY DEF QueuedSomewhere, InOrder
<1>2. WalkOK
  BY DEF WalkOK
<1>3. HeldOK /\ EntriesClaimed
  BY DEF HeldOK, EntriesClaimed
<1> QED
  BY <1>1, <1>2, <1>3 DEF PacketInv

\* The contents of the queued requests that matter to packets stay.
SameLists == \A r \in requests : /\ cell'[r].packets = cell[r].packets
                                 /\ cell'[r].ip = cell[r].ip

\* What the steps that move no packet have in common.
Still ==
    /\ UNCHANGED <<fate, mlist, requests>>
    /\ SameLists
    /\ (spc = "destroy" \/ spc' = "destroy") => UNCHANGED <<spc, cur>>
    /\ \/ UNCHANGED <<mpc, mpkt, mmac>>
       \/ {mpc, mpc'} \cap {"hit", "queue"} = {} /\ mpc' # "drain" /\ mlist = <<>>

LEMMA PacketStill ==
  ASSUME PacketInv, Still, EntriesClaimed'
  PROVE  PacketInv'
<1>1. QueuedSomewhere'
  BY DEF PacketInv, QueuedSomewhere, Still, SameLists, On
<1>2. ASSUME NEW r \in requests' PROVE ListOK(r)'
  <2>1. r \in requests /\ fate' = fate /\ cell'[r].packets = cell[r].packets
        /\ cell'[r].ip = cell[r].ip /\ (Settled(r)' <=> Settled(r))
    BY <1>2 DEF Still, SameLists, Settled
  <2>2. ListOK(r)
    BY <2>1 DEF PacketInv
  <2> QED
    BY <2>1, <2>2 DEF ListOK, On, Once
<1>3. WalkOK'
  <2>1. WalkOK /\ UNCHANGED <<fate, mlist, requests>> /\ SameLists
    BY DEF PacketInv, Still
  <2>2. CASE UNCHANGED <<mpc, mpkt, mmac>>
    BY <2>1, <2>2 DEF WalkOK, SameLists, On, Once
  <2>3. CASE mpc' # "drain" /\ mlist = <<>>
    BY <2>1, <2>3, EmptyList DEF WalkOK
  <2> QED
    BY <2>2, <2>3 DEF Still
<1>4. HeldOK'
  <2>1. HeldOK /\ UNCHANGED <<fate, requests>> /\ SameLists
    BY DEF PacketInv, Still
  <2>2. CASE UNCHANGED <<mpc, mpkt, mmac>>
    BY <2>1, <2>2 DEF HeldOK, SameLists
  <2>3. CASE {mpc, mpc'} \cap {"hit", "queue"} = {}
    <3>1. mpc \notin {"hit", "queue"} /\ mpc' \notin {"hit", "queue"}
      BY <2>3
    <3> QED
      BY <2>1, <3>1 DEF HeldOK
  <2> QED
    BY <2>2, <2>3 DEF Still
<1>5. InOrder'
  BY DEF PacketInv, InOrder, Still
<1> QED
  BY <1>1, <1>2, <1>3, <1>4, <1>5 DEF PacketInv

LEMMA ClaimPair == \A c \in Claims : <<c[1], c[2]>> = c
  BY AddressAssumption

\* Only insert adds to the cache, and only what a reply claimed.
LEMMA ClaimedNext ==
  ASSUME TypeInv, EntriesClaimed, [Next]_vars
  PROVE  EntriesClaimed'
<1>1. CASE entries' = entries
  BY <1>1 DEF EntriesClaimed
<1>2. ASSUME NEW c \in Claims, StoreMapping(c[1], c[2]) PROVE EntriesClaimed'
  <2>1. <<c[1], c[2]>> \in Claims
    BY ClaimPair
  <2>2. ASSUME NEW s \in Slots, entries'[s] # None
        PROVE  <<entries'[s].ip, entries'[s].mac>> \in Claims
    <3>1. CASE s \in InsertSlot
      BY <1>2, <2>1, <3>1 DEF StoreMapping
    <3>2. CASE s \notin InsertSlot
      BY <1>2, <2>2, <3>2 DEF StoreMapping, EntriesClaimed
    <3> QED
      BY <3>1, <3>2
  <2> QED
    BY <2>2 DEF EntriesClaimed
<1>3. CASE SweepStart
  BY <1>3 DEF SweepStart, EntriesClaimed
<1>4. CASE Tick
  <2>1. ASSUME NEW s \in Slots, entries'[s] # None
        PROVE  entries[s] # None /\ entries'[s].ip = entries[s].ip
               /\ entries'[s].mac = entries[s].mac
    BY <1>4, <2>1, AddressAssumption DEF Tick, Entry, TypeInv, TypeOK
  <2> QED
    BY <2>1 DEF EntriesClaimed
<1>5. \/ entries' = entries
      \/ \E c \in Claims : StoreMapping(c[1], c[2])
      \/ SweepStart \/ Tick
  BY DEF Next, Main, Sweeper, vars, cacheVars, LookupHit, LookupMiss, SendForwarded,
         QueueNew, QueueOn, ReadTimes, SendArpRequest, WriteSent, WriteTimes,
         InsertUnasked, InsertAnswer, SendQueued, DestroyAnswered, Visit, CheckTimes,
         Resend, SetSent, LoadTimes, StoreTimes, HostUnreachable, DestroyExhausted, SweepEnd
<1> QED
  BY <1>1, <1>2, <1>3, <1>4, <1>5

\* The steps that move a packet.
Moves ==
    \/ \E p \in Packets : LookupHit(p) \/ LookupMiss(p)
    \/ SendForwarded
    \/ \E r \in Reqs : QueueNew(r) \/ QueueOn(r)
    \/ \E c \in Claims : InsertAnswer(c[1], c[2])
    \/ SendQueued \/ HostUnreachable \/ DestroyExhausted

LEMMA StillSteps ==
  ASSUME TypeInv, OwnInv, PacketInv, [Next]_vars, ~ Moves
  PROVE  Still
<1>0. /\ cell \in [Reqs -> Cell] /\ requests \subseteq Reqs
      /\ mpc # "drain" => mlist = <<>>
  BY DEF TypeInv, TypeOK, PacketInv, WalkOK
<1>1. CASE ReadTimes \/ SendArpRequest
  <2>1. /\ UNCHANGED <<fate, requests, cell, spc, cur>>
        /\ mpc \in Window /\ mpc' \in {"ask", "setsent", "idle"}
        /\ mlist' = mlist \/ mlist' = <<>>
    BY <1>1 DEF ReadTimes, SendArpRequest, MainReturns, cacheVars, sweepVars, Window
  <2> QED
    BY <1>0, <2>1 DEF Still, SameLists, Window
<1>2. CASE WriteSent \/ WriteTimes
  <2>1. /\ UNCHANGED <<fate, requests, spc, cur>>
        /\ mpc \in {"setsent", "settimes"} /\ mpc' \in {"settimes", "idle"}
        /\ mlist' = mlist \/ mlist' = <<>>
        /\ cell' = cell \/ cell' = SetAge(mreq, 0) \/ cell' = SetTimes(mreq, 1)
        /\ mreq \in Reqs
    BY <1>2 DEF WriteSent, WriteTimes, MainReturns, sweepVars, TypeInv, Window
  <2>2. 0 \in 0..1 /\ 1 \in 0..MaxTries
    BY SizesAssumption
  <2>3. SameLists
    BY <1>0, <2>1, <2>2, SetAgeFact, SetTimesFact DEF SameLists
  <2> QED
    BY <1>0, <2>1, <2>3 DEF Still
<1>3. ASSUME NEW ip, NEW mac, InsertUnasked(ip, mac) PROVE Still
  BY <1>3 DEF InsertUnasked, Still, SameLists, mainVars, sweepVars
<1>4. CASE DestroyAnswered
  <2>1. /\ UNCHANGED <<fate, spc, cur>> /\ mpc = "drain" /\ mpc' = "idle"
        /\ mlist = <<>> /\ mlist' = <<>> /\ Destroy(mreq)
    BY <1>4 DEF DestroyAnswered, MainReturns, sweepVars
  <2>2. mreq \notin requests
    BY <2>1 DEF OwnInv, RequestOwnership, Answered
  <2>3. requests' = requests /\ \A r \in requests : cell'[r] = cell[r]
    BY <1>0, <2>1, <2>2 DEF Destroy
  <2> QED
    BY <2>1, <2>3 DEF Still, SameLists
<1>5. CASE SweepStart \/ CheckTimes \/ Resend \/ LoadTimes \/ SweepEnd
  BY <1>5 DEF SweepStart, CheckTimes, Resend, LoadTimes, SweepEnd, Still, SameLists, mainVars,
              cacheVars
<1>6. ASSUME NEW r \in Reqs, Visit(r) PROVE Still
  BY <1>6 DEF Visit, Still, SameLists, mainVars, cacheVars
<1>7. CASE SetSent
  <2>1. cur \in Reqs /\ cell' = SetAge(cur, nowAge) /\ nowAge \in 0..1
    BY <1>7 DEF SetSent, TypeInv, TypeOK
  <2>2. SameLists
    BY <1>0, <2>1, SetAgeFact DEF SameLists
  <2> QED
    BY <1>7, <2>2 DEF SetSent, Still, mainVars
<1>8. CASE StoreTimes
  <2>1. cur \in Reqs /\ cell' = SetTimes(cur, tmp + 1) /\ tmp + 1 \in 0..MaxTries
    BY <1>8, SizesAssumption DEF StoreTimes, TypeInv, TypeOK
  <2>2. SameLists
    BY <1>0, <2>1, SetTimesFact DEF SameLists
  <2> QED
    BY <1>8, <2>2 DEF StoreTimes, Still, mainVars
<1>9. CASE Tick
  <2>1. cell' = Aged
    BY <1>9 DEF Tick
  <2>2. SameLists
    BY <1>0, <2>1, AgedFact DEF SameLists
  <2> QED
    BY <1>9, <2>2 DEF Tick, Still, mainVars
<1>10. CASE UNCHANGED vars
  BY <1>10 DEF vars, cacheVars, mainVars, sweepVars, Still, SameLists
<1> QED
  BY <1>1, <1>2, <1>3, <1>4, <1>5, <1>6, <1>7, <1>8, <1>9, <1>10
  DEF Moves, Next, Main, Sweeper

LEMMA LookupMoves ==
  ASSUME TypeInv, PendInv, PacketInv, EntriesClaimed', NEW p \in Packets,
         LookupHit(p) \/ LookupMiss(p)
  PROVE  PacketInv'
<1>0. /\ mpc = "idle" /\ mpc' \in {"hit", "queue"} /\ mpkt' = p
      /\ fate[p] = "new" /\ fate' = [fate EXCEPT ![p] = "held"]
      /\ UNCHANGED <<entries, requests, cell, spc, cur, mlist>>
      /\ \A q \in Packets : q < p => fate[q] # "new"
      /\ fate \in [Packets -> {"new", "held", "queued"} \cup Final]
  BY DEF LookupHit, LookupMiss, Arrives, cacheVars, sweepVars, TypeInv, TypeOK
<1>1. /\ fate'[p] = "held"
      /\ \A q \in Packets : q # p => fate'[q] = fate[q]
  BY <1>0
<1>2. QueuedSomewhere'
  BY <1>0, <1>1 DEF PacketInv, QueuedSomewhere, On
<1>3. ASSUME NEW r \in requests' PROVE ListOK(r)'
  <2>1. ListOK(r) /\ (Settled(r)' <=> Settled(r))
    BY <1>0, <1>3 DEF PacketInv, Settled
  <2>2. \A q \in Packets : On(cell[r].packets, q) => fate'[q] = fate[q]
    BY <1>0, <1>1, <2>1 DEF ListOK, Final
  <2> QED
    BY <1>0, <2>1, <2>2 DEF ListOK, On, Once
<1>4. WalkOK'
  BY <1>0, EmptyList DEF PacketInv, WalkOK
<1>5. HeldOK'
  <2>1. \A q \in Packets : (fate[q] = "held")' <=> q = p
    BY <1>0, <1>1 DEF PacketInv, HeldOK
  <2>2. ASSUME mpc' = "hit"
        PROVE  /\ <<NextHop[p], mmac'>> \in Claims
               /\ \A r \in requests : cell[r].ip # NextHop[p]
    <3>1. PICK s \in LookupSlot(NextHop[p]) : mmac' = entries[s].mac
      BY <2>2 DEF LookupHit, LookupMiss
    <3>2. s \in Matches(NextHop[p])
      BY <3>1 DEF LookupSlot
    <3>3. s \in Slots /\ entries[s] # None /\ entries[s].ip = NextHop[p]
      BY <3>2 DEF Matches
    <3>4. <<NextHop[p], mmac'>> \in Claims
      BY <3>1, <3>3 DEF PacketInv, EntriesClaimed
    <3>5. \A r \in requests : cell[r].ip # NextHop[p]
      BY <3>2 DEF PendInv, ResolvedNotPending
    <3> QED
      BY <3>4, <3>5
  <2> QED
    BY <1>0, <2>1, <2>2 DEF HeldOK
<1>6. InOrder'
  <2> SUFFICES ASSUME NEW a \in Packets, NEW b \in Packets, a < b, fate'[a] = "new"
               PROVE  fate'[b] = "new"
    BY DEF InOrder
  <2>1. a # p /\ fate[a] = "new"
    BY <1>0, <1>1
  <2>2. fate[b] = "new" /\ b # p
    BY <1>0, <2>1 DEF PacketInv, InOrder
  <2> QED
    BY <2>2, <1>1
<1> QED
  BY <1>2, <1>3, <1>4, <1>5, <1>6 DEF PacketInv

\* A step that only settles or queues one packet keeps the order of arrival.
LEMMA OrderKept ==
  ASSUME PacketInv, \A p \in Packets : fate'[p] = "new" <=> fate[p] = "new"
  PROVE  InOrder'
  BY DEF PacketInv, InOrder

LEMMA ForwardMoves ==
  ASSUME TypeInv, PacketInv, EntriesClaimed', SendForwarded
  PROVE  PacketInv'
<1>0. /\ mpc = "hit" /\ mpc' = "idle" /\ mlist' = <<>> /\ mlist = <<>> /\ mpkt \in Packets
      /\ fate[mpkt] = "held" /\ fate' = [fate EXCEPT ![mpkt] = "sent"]
      /\ UNCHANGED <<requests, cell, spc, cur>>
      /\ fate \in [Packets -> {"new", "held", "queued"} \cup Final]
  BY DEF SendForwarded, MainReturns, cacheVars, sweepVars, TypeInv, TypeOK, PacketInv, HeldOK, WalkOK
<1>1. /\ fate'[mpkt] = "sent"
      /\ \A q \in Packets : q # mpkt => fate'[q] = fate[q]
  BY <1>0
<1>2. QueuedSomewhere'
  BY <1>0, <1>1 DEF PacketInv, QueuedSomewhere, On
<1>3. ASSUME NEW r \in requests' PROVE ListOK(r)'
  <2>1. ListOK(r) /\ (Settled(r)' <=> Settled(r))
    BY <1>0, <1>3 DEF PacketInv, Settled
  <2>2. \A q \in Packets : On(cell[r].packets, q) => fate'[q] = fate[q]
    BY <1>0, <1>1, <2>1 DEF ListOK, Final
  <2> QED
    BY <1>0, <2>1, <2>2 DEF ListOK, On, Once
<1>4. WalkOK'
  BY <1>0, EmptyList DEF WalkOK
<1>5. HeldOK'
  BY <1>0, <1>1 DEF PacketInv, HeldOK
<1>6. InOrder'
  BY <1>0, <1>1, OrderKept
<1> QED
  BY <1>2, <1>3, <1>4, <1>5, <1>6 DEF PacketInv

\* queuereq: the packet in hand goes to the head of the list of r, which holds
\* the packets that waited already or none.
LEMMA QueueMoves ==
  ASSUME TypeInv, OwnInv, PacketInv, EntriesClaimed', NEW r \in Reqs,
         QueueNew(r) \/ QueueOn(r)
  PROVE  PacketInv'
<1>0. /\ mpc = "queue" /\ mpc' = "check" /\ mlist' = mlist /\ mlist = <<>> /\ mpkt \in Packets
      /\ fate[mpkt] = "held" /\ fate' = [fate EXCEPT ![mpkt] = "queued"]
      /\ spc = "sleep" /\ UNCHANGED <<spc, cur>>
      /\ cell \in [Reqs -> Cell] /\ requests \subseteq Reqs
      /\ fate \in [Packets -> {"new", "held", "queued"} \cup Final]
  BY AddressAssumption
  DEF QueueNew, QueueOn, CanLock, sweepVars, TypeInv, TypeOK, PacketInv, HeldOK, WalkOK
<1>1. /\ fate'[mpkt] = "queued"
      /\ \A q \in Packets : q # mpkt => fate'[q] = fate[q]
  BY <1>0
<1>2. \A q \in requests : ~ On(cell[q].packets, mpkt)
  <2>1. \A q \in requests : ListOK(q) /\ ~ Settled(q)
    BY <1>0 DEF PacketInv, Settled
  <2> QED
    BY <1>0, <2>1 DEF ListOK
<1>3. /\ r \in requests' /\ requests' = requests \cup {r}
      /\ \A q \in requests : q # r => /\ cell'[q].packets = cell[q].packets
                                      /\ cell'[q].ip = cell[q].ip
      /\ cell'[r].ip = NextHop[mpkt]
      /\ Once(cell'[r].packets)
      /\ \A q \in Packets : On(cell'[r].packets, q) <=>
             q = mpkt \/ (r \in requests /\ On(cell[r].packets, q))
  <2>1. CASE QueueNew(r)
    <3>1. /\ cell' = [cell EXCEPT ![r] = NewReq(NextHop[mpkt], mpkt)]
          /\ requests' = requests \cup {r} /\ r \notin live
      BY <2>1 DEF QueueNew
    <3>2. r \notin requests
      BY <3>1 DEF OwnInv, RequestOwnership
    <3>3. cell'[r].ip = NextHop[mpkt] /\ cell'[r].packets = <<mpkt>>
          /\ \A q \in requests : q # r => cell'[q] = cell[q]
      BY <1>0, <3>1 DEF NewReq
    <3> QED
      BY <1>0, <3>1, <3>2, <3>3, SingleList
  <2>2. CASE QueueOn(r)
    <3>1. /\ cell' = PushPacket(r, mpkt) /\ requests' = requests
          /\ r \in requests /\ cell[r].ip = NextHop[mpkt]
      BY <2>2 DEF QueueOn, Pending
    <3>2. /\ cell'[r].packets = <<mpkt>> \o cell[r].packets
          /\ \A q \in Reqs : cell'[q].ip = cell[q].ip
          /\ \A q \in Reqs : q # r => cell'[q].packets = cell[q].packets
      BY <1>0, <3>1, PushFact
    <3>3. cell[r].packets \in Seq(Packets) /\ Once(cell[r].packets)
          /\ ~ On(cell[r].packets, mpkt)
      BY <1>0, <1>2, <3>1 DEF Cell, PacketInv, ListOK
    <3>4. /\ Once(<<mpkt>> \o cell[r].packets)
          /\ \A q : On(<<mpkt>> \o cell[r].packets, q) <=> q = mpkt \/ On(cell[r].packets, q)
      BY <1>0, <3>3, PushList
    <3> QED
      BY <1>0, <3>1, <3>2, <3>4
  <2> QED
    BY <2>1, <2>2
<1>4. QueuedSomewhere'
  <2> SUFFICES ASSUME NEW p \in Packets, fate'[p] = "queued"
               PROVE  \E q \in requests' : On(cell'[q].packets, p)
    BY DEF QueuedSomewhere, On
  <2>1. CASE p = mpkt
    BY <1>3, <2>1
  <2>2. CASE p # mpkt
    <3>1. PICK q \in requests : On(cell[q].packets, p)
      BY <1>0, <1>1, <2>2, EmptyList DEF PacketInv, QueuedSomewhere
    <3> QED
      BY <1>3, <3>1
  <2> QED
    BY <2>1, <2>2
<1>5. ASSUME NEW q \in requests' PROVE ListOK(q)'
  <2>1. ~ Settled(q)'
    BY <1>0 DEF Settled
  <2>2. ASSUME NEW p \in Packets, On(cell'[q].packets, p)
        PROVE  NextHop[p] = cell'[q].ip /\ fate'[p] = "queued"
    <3>1. CASE p = mpkt
      <4>1. q = r
        BY <1>2, <1>3, <1>5, <2>2, <3>1
      <4> QED
        BY <1>1, <1>3, <3>1, <4>1
    <3>2. CASE p # mpkt
      <4>1. q \in requests /\ On(cell[q].packets, p)
        BY <1>3, <1>5, <2>2, <3>2
      <4>2. ListOK(q) /\ ~ Settled(q)
        BY <1>0, <4>1 DEF PacketInv, Settled
      <4>3. NextHop[p] = cell[q].ip /\ fate[p] = "queued"
        BY <4>1, <4>2 DEF ListOK
      <4>4. cell'[q].ip = cell[q].ip
        <5>1. CASE q # r
          BY <1>3, <4>1, <5>1
        <5>2. CASE q = r
          <6>1. cell[r].ip = NextHop[mpkt]
            BY <4>1, <5>2 DEF QueueNew, QueueOn, Pending, OwnInv, RequestOwnership
          <6> QED
            BY <1>3, <5>2, <6>1
        <5> QED
          BY <5>1, <5>2
      <4> QED
        BY <1>1, <3>2, <4>3, <4>4
    <3> QED
      BY <3>1, <3>2
  <2>3. Once(cell'[q].packets)
    <3>1. CASE q = r
      BY <1>3, <3>1
    <3>2. CASE q # r
      BY <1>3, <1>5, <3>2 DEF PacketInv, ListOK, Once
    <3> QED
      BY <3>1, <3>2
  <2> QED
    BY <2>1, <2>2, <2>3 DEF ListOK, On, Once
<1>6. WalkOK'
  BY <1>0, EmptyList DEF WalkOK
<1>7. HeldOK'
  BY <1>0, <1>1 DEF PacketInv, HeldOK
<1>8. InOrder'
  BY <1>0, <1>1, OrderKept
<1> QED
  BY <1>4, <1>5, <1>6, <1>7, <1>8 DEF PacketInv

\* insert hands the list of one request to the main thread.
LEMMA AnswerMoves ==
  ASSUME TypeInv, PendInv, PacketInv, EntriesClaimed', NEW c \in Claims,
         InsertAnswer(c[1], c[2])
  PROVE  PacketInv'
<1>0. /\ mpc = "idle" /\ mpc' = "drain" /\ mlist = <<>> /\ mmac' = c[2]
      /\ spc = "sleep" /\ UNCHANGED <<spc, cur, fate, cell, mpkt>>
      /\ <<c[1], c[2]>> \in Claims
  BY AddressAssumption, ClaimPair
  DEF InsertAnswer, CanLock, sweepVars, TypeInv, PacketInv, WalkOK
<1>1. PICK r \in Pending(c[1]) : requests' = requests \ {r} /\ mlist' = cell[r].packets
  BY DEF InsertAnswer
<1>2. /\ r \in requests /\ cell[r].ip = c[1] /\ ListOK(r) /\ ~ Settled(r)
      /\ \A q \in requests' : cell[q].ip # c[1]
  BY <1>0, <1>1 DEF Pending, PendInv, OneRequestPerIP, PacketInv, Settled
<1>3. QueuedSomewhere'
  <2> SUFFICES ASSUME NEW p \in Packets, fate[p] = "queued"
               PROVE  (\E q \in requests' : On(cell[q].packets, p)) \/ On(mlist', p)
    BY <1>0 DEF QueuedSomewhere, On
  <2>1. PICK q \in requests : On(cell[q].packets, p)
    BY <1>0, EmptyList DEF PacketInv, QueuedSomewhere
  <2> QED
    BY <1>1, <2>1
<1>4. ASSUME NEW q \in requests' PROVE ListOK(q)'
  <2>1. ListOK(q) /\ (Settled(q)' <=> Settled(q))
    BY <1>0, <1>1, <1>4 DEF PacketInv, Settled
  <2> QED
    BY <1>0, <2>1 DEF ListOK, On, Once
<1>5. WalkOK'
  <2>1. \A p \in Packets : On(mlist', p) =>
           /\ fate[p] = "queued"
           /\ NextHop[p] = c[1]
    BY <1>1, <1>2 DEF ListOK
  <2>2. Once(mlist')
    BY <1>1, <1>2 DEF ListOK
  <2> QED
    BY <1>0, <1>2, <2>1, <2>2 DEF WalkOK, On, Once
<1>6. HeldOK'
  BY <1>0 DEF PacketInv, HeldOK
<1>7. InOrder'
  BY <1>0, OrderKept
<1> QED
  BY <1>3, <1>4, <1>5, <1>6, <1>7 DEF PacketInv

\* One packet of the list leaves.
LEMMA SendMoves ==
  ASSUME TypeInv, PacketInv, EntriesClaimed', SendQueued
  PROVE  PacketInv'
<1> DEFINE h == Head(mlist)
<1>0. /\ mpc = "drain" /\ mlist # <<>> /\ mlist \in Seq(Packets) /\ Once(mlist)
      /\ mlist' = Tail(mlist) /\ fate' = [fate EXCEPT ![h] = "sent"]
      /\ UNCHANGED <<requests, cell, spc, cur, mpc, mpkt, mmac>>
      /\ fate \in [Packets -> {"new", "held", "queued"} \cup Final]
  BY DEF SendQueued, cacheVars, sweepVars, TypeInv, TypeOK, PacketInv, WalkOK
<1>1. /\ h \in Packets /\ On(mlist, h) /\ Once(mlist')
      /\ \A q : On(mlist', q) <=> On(mlist, q) /\ q # h
  BY <1>0, TailList
<1>2. /\ fate[h] = "queued" /\ fate'[h] = "sent"
      /\ \A q \in Packets : q # h => fate'[q] = fate[q]
      /\ \A r \in requests : cell[r].ip # NextHop[h]
  BY <1>0, <1>1 DEF PacketInv, WalkOK
<1>3. QueuedSomewhere'
  <2> SUFFICES ASSUME NEW p \in Packets, fate'[p] = "queued"
               PROVE  (\E q \in requests : On(cell[q].packets, p)) \/ On(mlist', p)
    BY <1>0 DEF QueuedSomewhere, On
  <2>1. p # h /\ fate[p] = "queued"
    BY <1>2
  <2> QED
    BY <1>1, <2>1 DEF PacketInv, QueuedSomewhere
<1>4. ASSUME NEW r \in requests' PROVE ListOK(r)'
  <2>1. ListOK(r) /\ (Settled(r)' <=> Settled(r)) /\ r \in requests
    BY <1>0, <1>4 DEF PacketInv, Settled
  <2>2. \A q \in Packets : On(cell[r].packets, q) => fate'[q] = fate[q]
    BY <1>2, <2>1 DEF ListOK
  <2> QED
    BY <1>0, <2>1, <2>2 DEF ListOK, On, Once
<1>5. WalkOK'
  <2>1. \A p \in Packets : On(mlist', p) =>
           /\ fate'[p] = "queued"
           /\ <<NextHop[p], mmac>> \in Claims
           /\ \A r \in requests : cell[r].ip # NextHop[p]
    BY <1>1, <1>2 DEF PacketInv, WalkOK
  <2> QED
    BY <1>0, <1>1, <2>1 DEF WalkOK, On, Once
<1>6. HeldOK'
  BY <1>0, <1>1, <1>2 DEF PacketInv, HeldOK
<1>7. InOrder'
  BY <1>0, <1>1, <1>2, OrderKept
<1> QED
  BY <1>3, <1>4, <1>5, <1>6, <1>7 DEF PacketInv

\* The sweeper settles the packets of the request in its hand.
LEMMA BounceMoves ==
  ASSUME TypeInv, OwnInv, PendInv, PacketInv, EntriesClaimed', HostUnreachable
  PROVE  PacketInv'
<1>0. /\ spc = "bounce" /\ spc' = "destroy" /\ cur \in requests
      /\ UNCHANGED <<requests, cell, cur, mlist, mpc, mpkt, mmac>>
  BY DEF HostUnreachable, cacheVars, mainVars, OwnInv, RequestOwnership
<1>1. \A p \in Packets : IF On(cell[cur].packets, p) THEN fate'[p] \in Final
                                                     ELSE fate'[p] = fate[p]
  BY DEF HostUnreachable, On, Final
<1>2. \A p \in Packets : On(cell[cur].packets, p) => fate[p] = "queued" /\ NextHop[p] = cell[cur].ip
  <2>1. ListOK(cur) /\ ~ Settled(cur)
    BY <1>0 DEF PacketInv, Settled
  <2> QED
    BY <2>1 DEF ListOK
<1>3. QueuedSomewhere'
  BY <1>0, <1>1 DEF PacketInv, QueuedSomewhere, On, Final
<1>4. ASSUME NEW r \in requests' PROVE ListOK(r)'
  <2>0. ListOK(r) /\ r \in requests
    BY <1>0, <1>4 DEF PacketInv
  <2>1. CASE r = cur
    <3>1. Settled(r)'
      BY <1>0, <2>1 DEF Settled
    <3>2. \A p \in Packets : On(cell[r].packets, p) => fate'[p] \in Final
      BY <1>1, <2>1
    <3> QED
      BY <1>0, <2>0, <3>1, <3>2 DEF ListOK, On, Once
  <2>2. CASE r # cur
    <3>1. ~ Settled(r)' /\ ~ Settled(r)
      BY <1>0, <2>2 DEF Settled
    <3>2. cell[r].ip # cell[cur].ip
      BY <1>0, <2>0, <2>2 DEF PendInv, OneRequestPerIP
    <3>3. \A p \in Packets : On(cell[r].packets, p) => fate'[p] = "queued"
      BY <1>1, <1>2, <2>0, <3>1, <3>2 DEF ListOK
    <3> QED
      BY <1>0, <2>0, <3>1, <3>3 DEF ListOK, On, Once
  <2> QED
    BY <2>1, <2>2
<1>5. WalkOK'
  <2>1. \A p \in Packets : On(mlist, p) => fate'[p] = "queued"
    BY <1>0, <1>1, <1>2 DEF PacketInv, WalkOK
  <2> QED
    BY <1>0, <2>1 DEF PacketInv, WalkOK, On, Once
<1>6. HeldOK'
  <2>1. \A p \in Packets : fate'[p] = "held" <=> fate[p] = "held"
    BY <1>1, <1>2 DEF Final
  <2> QED
    BY <1>0, <2>1 DEF PacketInv, HeldOK
<1>7. InOrder'
  BY <1>1, <1>2, OrderKept DEF Final
<1> QED
  BY <1>3, <1>4, <1>5, <1>6, <1>7 DEF PacketInv

\* The request is freed with its packets settled.
LEMMA ExhaustedMoves ==
  ASSUME TypeInv, OwnInv, PacketInv, EntriesClaimed', DestroyExhausted
  PROVE  PacketInv'
<1>0. /\ spc = "destroy" /\ spc' = "walk" /\ cur \in requests
      /\ requests' = requests \ {cur}
      /\ \A r \in requests' : cell'[r] = cell[r]
      /\ UNCHANGED <<mlist, mpc, mpkt, mmac, fate>>
  BY DEF DestroyExhausted, Destroy, mainVars, OwnInv, RequestOwnership, TypeInv, TypeOK
<1>1. \A p \in Packets : On(cell[cur].packets, p) => fate[p] # "queued"
  <2>1. ListOK(cur) /\ Settled(cur)
    BY <1>0 DEF PacketInv, Settled
  <2> QED
    BY <2>1 DEF ListOK, Final
<1>2. QueuedSomewhere'
  BY <1>0, <1>1 DEF PacketInv, QueuedSomewhere, On
<1>3. ASSUME NEW r \in requests' PROVE ListOK(r)'
  <2>1. ListOK(r) /\ ~ Settled(r)' /\ ~ Settled(r)
    BY <1>0, <1>3 DEF PacketInv, Settled
  <2> QED
    BY <1>0, <1>3, <2>1 DEF ListOK, On, Once
<1>4. WalkOK'
  BY <1>0 DEF PacketInv, WalkOK, On, Once
<1>5. HeldOK'
  BY <1>0 DEF PacketInv, HeldOK
<1>6. InOrder'
  BY <1>0, OrderKept
<1> QED
  BY <1>2, <1>3, <1>4, <1>5, <1>6 DEF PacketInv

LEMMA PacketNext ==
  TypeInv /\ OwnInv /\ PendInv /\ PacketInv /\ [Next]_vars => PacketInv'
<1> SUFFICES ASSUME TypeInv, OwnInv, PendInv, PacketInv, [Next]_vars PROVE PacketInv'
  OBVIOUS
<1>1. EntriesClaimed'
  BY ClaimedNext DEF PacketInv
<1>2. CASE Moves
  BY <1>1, <1>2, LookupMoves, ForwardMoves, QueueMoves, AnswerMoves, SendMoves, BounceMoves,
     ExhaustedMoves DEF Moves
<1>3. CASE ~ Moves
  BY <1>1, <1>3, StillSteps, PacketStill
<1> QED
  BY <1>2, <1>3

\* The invariants of this and of the preceding module together.
CacheInv == TypeInv /\ OwnInv /\ PendInv /\ CountInv /\ PacketInv

LEMMA CacheInductive == Spec => []CacheInv
<1>1. Init => CacheInv
  BY TypeInit, OwnInit, PendInit, CountInit, PacketInit DEF CacheInv
<1>2. CacheInv /\ [Next]_vars => CacheInv'
  <2> SUFFICES ASSUME CacheInv, [Next]_vars PROVE CacheInv'
    OBVIOUS
  <2>1. TypeInv'
    BY TypeNext DEF CacheInv
  <2>2. OwnInv'
    BY OwnNext DEF CacheInv
  <2>3. PendInv'
    BY <2>2, PendNext DEF CacheInv
  <2>4. CountInv'
    BY <2>1, <2>2, CountNext DEF CacheInv
  <2>5. PacketInv'
    BY PacketNext DEF CacheInv
  <2> QED
    BY <2>1, <2>2, <2>3, <2>4, <2>5 DEF CacheInv
<1> QED
  BY <1>1, <1>2, PTL DEF Spec

\* There is never more than one request for an address, so one reply releases
\* every packet that waits for it (sr_arpcache_queuereq).
THEOREM OneRequest == Spec => []OneRequestPerIP
<1>1. CacheInv => OneRequestPerIP
  BY DEF CacheInv, PendInv
<1> QED
  BY <1>1, CacheInductive, PTL

\* The pointer forward_ip_packet and send_icmp_t3 use after queuereq has
\* released the mutex names a freed cell or the request of their own packet.
THEOREM PointerSafe == Spec => []PointerNotRecycled
<1>1. CacheInv => PointerNotRecycled
  BY DEF CacheInv, PendInv
<1> QED
  BY <1>1, CacheInductive, PTL

\* handle_arpreq gives up no request before MaxTries ARP requests were sent.
THEOREM GivesUpLate == Spec => []NoEarlyGiveUp
<1>1. CacheInv => NoEarlyGiveUp
  BY DEF CacheInv, CountInv
<1> QED
  BY <1>1, CacheInductive, PTL

\* However lookups, queueing, replies and the sweeper interleave, each queued
\* packet hangs on exactly one list, once, and no other packet hangs on any.
THEOREM NoPacketLost == Spec => []QueuedExactlyOnce
<1>1. CacheInv => QueuedExactlyOnce
  <2> SUFFICES ASSUME CacheInv PROVE QueuedExactlyOnce
    OBVIOUS
  <2>0. /\ \A r \in requests : cell[r].packets \in Seq(Packets)
        /\ mlist \in Seq(Packets)
    BY DEF CacheInv, TypeInv, TypeOK, Cell
  <2>1. ASSUME NEW p \in Packets, fate[p] = "queued"
        PROVE  \/ \E r \in requests : \E i \in DOMAIN cell[r].packets : cell[r].packets[i] = p
               \/ \E i \in DOMAIN mlist : mlist[i] = p
    BY <2>1 DEF CacheInv, PacketInv, QueuedSomewhere, On
  <2>2. ASSUME NEW r \in requests, NEW i \in DOMAIN cell[r].packets
        PROVE  /\ Settled(r) \/ fate[cell[r].packets[i]] = "queued"
               /\ NextHop[cell[r].packets[i]] = cell[r].ip
               /\ \A j \in DOMAIN cell[r].packets :
                     cell[r].packets[i] = cell[r].packets[j] => i = j
    <3>1. ListOK(r) /\ cell[r].packets[i] \in Packets
      BY <2>0, <2>2 DEF CacheInv, PacketInv
    <3> QED
      BY <2>2, <3>1 DEF ListOK, On, Once
  <2>3. ASSUME NEW i \in DOMAIN mlist
        PROVE  /\ fate[mlist[i]] = "queued"
               /\ \A j \in DOMAIN mlist : mlist[i] = mlist[j] => i = j
    <3>1. WalkOK /\ mlist[i] \in Packets
      BY <2>0, <2>3 DEF CacheInv, PacketInv
    <3> QED
      BY <2>3, <3>1 DEF WalkOK, On, Once
  <2> QED
    BY <2>1, <2>2, <2>3 DEF QueuedExactlyOnce
<1> QED
  BY <1>1, CacheInductive, PTL

\* Every packet leaves for a MAC address that a reply claimed for its own next
\* hop, from the cache or from the list of an answered request.
THEOREM RightAddress == Spec => []SentToClaimant
<1>1. CacheInv => SentToClaimant
  <2> SUFFICES ASSUME CacheInv, mpc = "drain", NEW i \in DOMAIN mlist
               PROVE  <<NextHop[mlist[i]], mmac>> \in Claims
    BY DEF SentToClaimant, CacheInv, PacketInv, HeldOK
  <2>1. mlist[i] \in Packets /\ On(mlist, mlist[i])
    BY DEF CacheInv, TypeInv, TypeOK, On
  <2> QED
    BY <2>1 DEF CacheInv, PacketInv, WalkOK
<1> QED
  BY <1>1, CacheInductive, PTL

-----------------------------------------------------------------------------
(* What a step may never do to a packet.                                   *)

\* The only changes of a packet's fate.
LEMMA FateSteps ==
  ASSUME CacheInv, [Next]_vars
  PROVE  \/ UNCHANGED fate
         \/ \E p \in Packets :
               /\ \/ fate[p] = "new" /\ fate' = [fate EXCEPT ![p] = "held"]
                  \/ fate[p] = "held" /\ fate' = [fate EXCEPT ![p] = "queued"]
                  \/ fate[p] = "held" /\ mpc = "hit" /\ mpkt = p /\ SendForwarded
                     /\ fate' = [fate EXCEPT ![p] = "sent"]
                  \/ fate[p] = "queued" /\ p = Head(mlist) /\ SendQueued
                     /\ fate' = [fate EXCEPT ![p] = "sent"]
         \/ /\ spc = "bounce" /\ cur \in requests
            /\ \A p \in Packets : IF On(cell[cur].packets, p)
                                  THEN fate[p] = "queued" /\ fate'[p] \in {"bounced", "dropped"}
                                  ELSE fate'[p] = fate[p]
<1>1. CASE ~ Moves
  BY <1>1, StillSteps DEF CacheInv, Still
<1>2. ASSUME NEW p \in Packets, LookupHit(p) \/ LookupMiss(p)
      PROVE  fate[p] = "new" /\ fate' = [fate EXCEPT ![p] = "held"]
  BY <1>2 DEF LookupHit, LookupMiss, Arrives
<1>3. CASE SendForwarded
  <2>1. mpc = "hit" /\ mpkt \in Packets /\ fate' = [fate EXCEPT ![mpkt] = "sent"]
    BY <1>3 DEF SendForwarded, CacheInv, TypeInv
  <2>2. fate[mpkt] = "held"
    BY <2>1 DEF CacheInv, PacketInv, HeldOK
  <2> QED
    BY <1>3, <2>1, <2>2
<1>4. ASSUME NEW r \in Reqs, QueueNew(r) \/ QueueOn(r)
      PROVE  \E p \in Packets : fate[p] = "held" /\ fate' = [fate EXCEPT ![p] = "queued"]
  <2>1. mpc = "queue" /\ mpkt \in Packets /\ fate' = [fate EXCEPT ![mpkt] = "queued"]
    BY <1>4 DEF QueueNew, QueueOn, CacheInv, TypeInv
  <2>2. fate[mpkt] = "held"
    BY <2>1 DEF CacheInv, PacketInv, HeldOK
  <2> QED
    BY <2>1, <2>2
<1>5. CASE SendQueued
  <2>1. mlist # <<>> /\ mlist \in Seq(Packets) /\ WalkOK /\ fate' = [fate EXCEPT ![Head(mlist)] = "sent"]
    BY <1>5 DEF SendQueued, CacheInv, TypeInv, TypeOK, PacketInv
  <2>2. Head(mlist) \in Packets /\ On(mlist, Head(mlist))
    BY <2>1, TailList DEF WalkOK
  <2>3. fate[Head(mlist)] = "queued"
    BY <2>1, <2>2 DEF WalkOK
  <2> QED
    BY <1>5, <2>1, <2>2, <2>3
<1>6. CASE HostUnreachable
  <2>1. spc = "bounce" /\ cur \in requests
    BY <1>6 DEF HostUnreachable, CacheInv, OwnInv, RequestOwnership
  <2>2. ListOK(cur) /\ ~ Settled(cur)
    BY <2>1 DEF CacheInv, PacketInv, Settled
  <2>3. \A p \in Packets : IF On(cell[cur].packets, p)
                           THEN fate[p] = "queued" /\ fate'[p] \in {"bounced", "dropped"}
                           ELSE fate'[p] = fate[p]
    BY <1>6, <2>2 DEF HostUnreachable, On, ListOK
  <2> QED
    BY <2>1, <2>3
<1>7. CASE DestroyExhausted \/ \E c \in Claims : InsertAnswer(c[1], c[2])
  BY <1>7 DEF DestroyExhausted, InsertAnswer
<1> QED
  BY <1>1, <1>2, <1>3, <1>4, <1>5, <1>6, <1>7 DEF Moves

\* Nothing happens to a packet once it was sent, bounced or dropped, by
\* whichever of the two threads.
THEOREM OneEnd == Spec => FateIsFinal
<1>1. CacheInv /\ [Next]_vars => [\A p \in Packets : fate[p] \in Final => fate'[p] = fate[p]]_vars
  <2> SUFFICES ASSUME CacheInv, [Next]_vars, NEW p \in Packets, fate[p] \in Final
               PROVE  fate'[p] = fate[p]
    OBVIOUS
  <2>1. fate \in [Packets -> {"new", "held", "queued"} \cup Final]
    BY DEF CacheInv, TypeInv, TypeOK
  <2> QED
    BY <2>1, FateSteps DEF Final
<1> QED
  BY <1>1, CacheInductive, PTL DEF Spec, FateIsFinal

\* A packet never leaves while an earlier one to the same next hop still waits,
\* except as a member of the batch the same reply has released.
THEOREM OrderAcrossBatches == Spec => OvertakesOnlyInBatch
<1> DEFINE Batch == \A p, q \in Packets :
                      /\ p < q /\ NextHop[p] = NextHop[q]
                      /\ fate[q] # "sent" /\ fate'[q] = "sent"
                      /\ fate[p] \notin Final
                      => \E i, j \in DOMAIN mlist : mlist[i] = q /\ mlist[j] = p
<1>1. CacheInv /\ [Next]_vars => [Batch]_vars
  <2> SUFFICES ASSUME CacheInv, [Next]_vars, NEW p \in Packets, NEW q \in Packets,
                      p < q, NextHop[p] = NextHop[q],
                      fate[q] # "sent", fate'[q] = "sent", fate[p] \notin Final
               PROVE  \E i, j \in DOMAIN mlist : mlist[i] = q /\ mlist[j] = p
    OBVIOUS
  <2>0. fate \in [Packets -> {"new", "held", "queued"} \cup Final]
    BY DEF CacheInv, TypeInv, TypeOK
  <2>1. \/ fate[q] = "held" /\ mpc = "hit" /\ mpkt = q
        \/ fate[q] = "queued" /\ q = Head(mlist) /\ mpc = "drain" /\ mlist # <<>>
    BY <2>0, FateSteps DEF SendQueued
  <2>2. p # q /\ fate[p] = "queued"
    <3>1. fate[p] # "new"
      BY <2>1 DEF CacheInv, PacketInv, InOrder
    <3>2. p # q /\ p \in Nat /\ q \in Nat
      BY SizesAssumption DEF Packets
    <3>3. fate[p] # "held"
      BY <2>1, <3>2 DEF CacheInv, PacketInv, HeldOK
    <3> QED
      BY <2>0, <3>1, <3>2, <3>3
  <2>3. (\E r \in requests : On(cell[r].packets, p)) \/ On(mlist, p)
    BY <2>2 DEF CacheInv, PacketInv, QueuedSomewhere
  <2>4. ASSUME NEW r \in requests, On(cell[r].packets, p) PROVE cell[r].ip = NextHop[q]
    BY <2>4 DEF CacheInv, PacketInv, ListOK
  <2>5. CASE mpc = "hit" /\ mpkt = q
    BY <2>3, <2>4, <2>5, EmptyList DEF CacheInv, PacketInv, HeldOK, WalkOK
  <2>6. CASE q = Head(mlist) /\ mlist # <<>>
    <3>1. On(mlist, q)
      BY <2>6, TailList DEF CacheInv, TypeInv, TypeOK, PacketInv, WalkOK
    <3>2. \A r \in requests : cell[r].ip # NextHop[q]
      BY <3>1 DEF CacheInv, PacketInv, WalkOK
    <3>3. On(mlist, p)
      BY <2>3, <2>4, <3>2
    <3> QED
      BY <3>1, <3>3 DEF On
  <2> QED
    BY <2>1, <2>5, <2>6
<1> QED
  BY <1>1, CacheInductive, PTL DEF Spec, OvertakesOnlyInBatch

-----------------------------------------------------------------------------
(* The two threads implement ArpResolution.                                *)

\* The refinement mapping, packet by packet.
LEMMA DestinyOf ==
  /\ Destiny \in [Packets -> {IF fate[p] # "queued" THEN fate[p] ELSE
                              IF On(mlist, p) THEN "resolved" ELSE "waiting" : p \in Packets}]
  /\ \A p \in Packets : Destiny[p] = IF fate[p] # "queued" THEN fate[p] ELSE
                                     IF On(mlist, p) THEN "resolved" ELSE "waiting"
  BY DEF Destiny, On

LEMMA DestinyOfNext ==
  /\ DOMAIN Destiny' = Packets /\ Destiny' = [p \in Packets |-> Destiny'[p]]
  /\ \A p \in Packets : Destiny'[p] = IF fate'[p] # "queued" THEN fate'[p] ELSE
                                      IF On(mlist', p) THEN "resolved" ELSE "waiting"
  BY DEF Destiny, On

\* A step that changes the destiny of one packet.
LEMMA DestinyExcept ==
  ASSUME NEW p \in Packets, NEW v, Destiny'[p] = v,
         \A q \in Packets : q # p => Destiny'[q] = Destiny[q]
  PROVE  Destiny' = [Destiny EXCEPT ![p] = v]
  BY DestinyOf, DestinyOfNext

LEMMA ResolutionInit == Init => Resolution!Init
  BY DEF Init, Resolution!Init, Destiny

LEMMA ResolutionStep ==
  ASSUME CacheInv, [Next]_vars
  PROVE  [Resolution!Next]_Destiny
<1> USE DestinyOf, DestinyOfNext
<1>0. /\ fate \in [Packets -> {"new", "held", "queued"} \cup Final]
      /\ mlist \in Seq(Packets)
      /\ mpc # "drain" => mlist = <<>>
  BY DEF CacheInv, TypeInv, TypeOK, PacketInv, WalkOK
<1>1. CASE UNCHANGED <<fate, mlist>>
  BY <1>1 DEF Destiny
<1>2. ASSUME NEW p \in Packets, LookupHit(p) \/ LookupMiss(p) PROVE Resolution!Accept(p)
  <2>1. fate[p] = "new" /\ fate' = [fate EXCEPT ![p] = "held"] /\ mlist' = mlist
    BY <1>2 DEF LookupHit, LookupMiss, Arrives
  <2>2. Destiny[p] = "new" /\ Destiny'[p] = "held"
        /\ \A q \in Packets : q # p => Destiny'[q] = Destiny[q]
    BY <1>0, <2>1
  <2> QED
    BY <2>2, DestinyExcept DEF Resolution!Accept
<1>3. ASSUME SendForwarded PROVE mpkt \in Packets /\ Resolution!Forward(mpkt)
  <2>1. /\ mpkt \in Packets /\ mpc = "hit" /\ mlist' = <<>>
        /\ fate' = [fate EXCEPT ![mpkt] = "sent"]
    BY <1>3 DEF SendForwarded, MainReturns, CacheInv, TypeInv
  <2>2. fate[mpkt] = "held" /\ mlist' = mlist
    BY <1>0, <2>1 DEF CacheInv, PacketInv, HeldOK
  <2>3. Destiny[mpkt] = "held" /\ Destiny'[mpkt] = "sent"
        /\ \A q \in Packets : q # mpkt => Destiny'[q] = Destiny[q]
    BY <1>0, <2>1, <2>2
  <2> QED
    BY <2>1, <2>3, DestinyExcept DEF Resolution!Forward
<1>4. ASSUME NEW r \in Reqs, QueueNew(r) \/ QueueOn(r)
      PROVE  mpkt \in Packets /\ Resolution!Enqueue(mpkt)
  <2>1. /\ mpkt \in Packets /\ mpc = "queue" /\ mlist' = mlist
        /\ fate' = [fate EXCEPT ![mpkt] = "queued"]
    BY <1>4 DEF QueueNew, QueueOn, CacheInv, TypeInv
  <2>2. fate[mpkt] = "held" /\ mlist = <<>> /\ ~ On(mlist', mpkt)
    BY <1>0, <2>1, EmptyList DEF CacheInv, PacketInv, HeldOK
  <2>3. Destiny[mpkt] = "held" /\ Destiny'[mpkt] = "waiting"
        /\ \A q \in Packets : q # mpkt => Destiny'[q] = Destiny[q]
    BY <1>0, <2>1, <2>2
  <2> QED
    BY <2>1, <2>3, DestinyExcept DEF Resolution!Enqueue
<1>5. ASSUME SendQueued PROVE \E p \in Packets : Resolution!Deliver(p)
  <2> DEFINE h == Head(mlist)
  <2>1. mlist # <<>> /\ Once(mlist) /\ mlist' = Tail(mlist) /\ fate' = [fate EXCEPT ![h] = "sent"]
    BY <1>5 DEF SendQueued, CacheInv, PacketInv, WalkOK
  <2>2. h \in Packets /\ On(mlist, h) /\ \A q : On(mlist', q) <=> On(mlist, q) /\ q # h
    BY <1>0, <2>1, TailList
  <2>3. fate[h] = "queued"
    BY <2>2 DEF CacheInv, PacketInv, WalkOK
  <2>4. Destiny[h] = "resolved" /\ Destiny'[h] = "sent"
        /\ \A q \in Packets : q # h => Destiny'[q] = Destiny[q]
    BY <1>0, <2>1, <2>2, <2>3
  <2> QED
    BY <2>2, <2>4, DestinyExcept DEF Resolution!Deliver
<1>6. ASSUME NEW c \in Claims, InsertAnswer(c[1], c[2])
      PROVE  \E hop \in Resolution!Hops : Resolution!Learn(hop)
  <2>1. PICK r \in Pending(c[1]) : mlist' = cell[r].packets
    BY <1>6 DEF InsertAnswer
  <2>2. /\ fate' = fate /\ mlist = <<>> /\ r \in requests /\ spc = "sleep"
    BY <1>0, <1>6, AddressAssumption DEF InsertAnswer, Pending, CanLock, CacheInv, TypeInv
  <2>3. ListOK(r) /\ ~ Settled(r) /\ cell[r].packets \in Seq(Packets) /\ cell[r].packets # <<>>
    BY <2>2 DEF CacheInv, PacketInv, Settled, CountInv, TypeInv, TypeOK, Cell
  <2>4. \A p \in Packets : On(mlist', p) <=> fate[p] = "queued" /\ NextHop[p] = cell[r].ip
    <3>1. ASSUME NEW p \in Packets, fate[p] = "queued", NextHop[p] = cell[r].ip
          PROVE  On(mlist', p)
      <4>1. PICK q \in requests : On(cell[q].packets, p)
        BY <2>2, <3>1, EmptyList DEF CacheInv, PacketInv, QueuedSomewhere
      <4>2. cell[q].ip = NextHop[p]
        BY <4>1 DEF CacheInv, PacketInv, ListOK
      <4>3. q = r
        BY <2>2, <3>1, <4>2 DEF CacheInv, PendInv, OneRequestPerIP
      <4> QED
        BY <2>1, <4>1, <4>3
    <3> QED
      BY <2>1, <2>3, <3>1 DEF ListOK
  <2>5. \A p \in Packets : ~ On(mlist, p)
    BY <2>2, EmptyList
  <2>6. PICK p \in Packets : On(mlist', p)
    BY <2>1, <2>3, NonemptyList
  <2> DEFINE hop == NextHop[p]
  <2>7. hop = cell[r].ip /\ hop \in Resolution!Hops
    BY <2>4, <2>6 DEF Resolution!Hops
  <2>8. Resolution!Waiting(hop) = {q \in Packets : On(mlist', q)}
    <3>1. \A q \in Packets : Destiny[q] = "waiting" <=> fate[q] = "queued"
      BY <1>0, <2>5 DEF Final
    <3> QED
      BY <2>4, <2>7, <3>1 DEF Resolution!Waiting
  <2>9. \A q \in Packets : Destiny'[q] = IF q \in Resolution!Waiting(hop) THEN "resolved"
                                                                       ELSE Destiny[q]
    BY <2>2, <2>4, <2>5, <2>8
  <2>10. Resolution!Learn(hop)
    BY <2>6, <2>8, <2>9 DEF Resolution!Learn
  <2> QED
    BY <2>7, <2>10
<1>7. ASSUME HostUnreachable PROVE \E hop \in Resolution!Hops : Resolution!GiveUp(hop)
  <2>1. /\ mlist' = mlist /\ cur \in requests /\ spc = "bounce"
    BY <1>7 DEF HostUnreachable, mainVars, CacheInv, OwnInv, RequestOwnership
  <2>2. ListOK(cur) /\ ~ Settled(cur) /\ cell[cur].packets \in Seq(Packets) /\ cell[cur].packets # <<>>
    BY <2>1 DEF CacheInv, PacketInv, Settled, CountInv, TypeInv, TypeOK, Cell
  <2>3. \A p \in Packets : IF On(cell[cur].packets, p)
                           THEN fate[p] = "queued" /\ fate'[p] \in {"bounced", "dropped"}
                           ELSE fate'[p] = fate[p]
    BY <1>7, <2>2 DEF HostUnreachable, On, ListOK
  <2>4. ASSUME NEW p \in Packets
        PROVE  On(cell[cur].packets, p) <=> Destiny[p] = "waiting" /\ NextHop[p] = cell[cur].ip
    <3>1. ASSUME On(cell[cur].packets, p) PROVE Destiny[p] = "waiting" /\ NextHop[p] = cell[cur].ip
      <4>1. fate[p] = "queued" /\ NextHop[p] = cell[cur].ip
        BY <2>2, <3>1 DEF ListOK
      <4>2. ~ On(mlist, p)
        BY <2>1, <4>1 DEF CacheInv, PacketInv, WalkOK
      <4> QED
        BY <4>1, <4>2
    <3>2. ASSUME Destiny[p] = "waiting", NextHop[p] = cell[cur].ip PROVE On(cell[cur].packets, p)
      <4>1. fate[p] = "queued" /\ ~ On(mlist, p)
        BY <1>0, <3>2 DEF Final
      <4>2. PICK q \in requests : On(cell[q].packets, p)
        BY <4>1 DEF CacheInv, PacketInv, QueuedSomewhere
      <4>3. cell[q].ip = NextHop[p]
        BY <4>2 DEF CacheInv, PacketInv, ListOK
      <4>4. q = cur
        BY <2>1, <3>2, <4>3 DEF CacheInv, PendInv, OneRequestPerIP
      <4> QED
        BY <4>2, <4>4
    <3> QED
      BY <3>1, <3>2
  <2>5. PICK p \in Packets : On(cell[cur].packets, p)
    BY <2>2, NonemptyList
  <2> DEFINE hop == NextHop[p]
  <2>6. hop = cell[cur].ip /\ hop \in Resolution!Hops
    BY <2>4, <2>5 DEF Resolution!Hops
  <2>7. Resolution!Waiting(hop) = {q \in Packets : On(cell[cur].packets, q)}
    BY <2>4, <2>6 DEF Resolution!Waiting
  <2>8. \A q \in Packets : IF q \in Resolution!Waiting(hop)
                           THEN Destiny'[q] \in {"bounced", "dropped"}
                           ELSE Destiny'[q] = Destiny[q]
    BY <2>1, <2>3, <2>7
  <2>9. Destiny' \in [Packets -> {"bounced", "dropped"} \cup {Destiny[q] : q \in Packets}]
    <3>1. \A q \in Packets : Destiny'[q] \in {"bounced", "dropped"} \cup {Destiny[x] : x \in Packets}
      BY <2>8
    <3> QED
      BY <3>1
  <2>10. Resolution!GiveUp(hop)
    BY <2>5, <2>7, <2>8, <2>9 DEF Resolution!GiveUp
  <2> QED
    BY <2>6, <2>10
<1>8. CASE ~ Moves \/ DestroyExhausted
  BY <1>1, <1>8, StillSteps DEF CacheInv, Still, DestroyExhausted, mainVars
<1> QED
  BY <1>2, <1>3, <1>4, <1>5, <1>6, <1>7, <1>8 DEF Moves, Resolution!Next

\* The cache, the queue and the two threads do with the packets only what
\* ArpResolution allows: packets that wait for one next hop are answered
\* together or given up together, in one step, and no answered packet is given
\* up.
THEOREM Refinement == Spec => Resolution!Safe
  BY ResolutionInit, ResolutionStep, CacheInductive, PTL DEF Spec, Resolution!Safe
=============================================================================
