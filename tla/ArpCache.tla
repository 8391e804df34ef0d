------------------------------ MODULE ArpCache ------------------------------
(***************************************************************************)
(* The ARP cache and request queue of the router (sr_arpcache.c) together  *)
(* with the code of sr_router.c that uses them.                            *)
(*                                                                         *)
(* Two threads share the cache.  The MAIN thread handles one packet at a   *)
(* time: an IP packet that needs the MAC address of its next hop           *)
(* (forward_ip_packet, send_icmp_t3) or an ARP reply (handle_arp_packet).  *)
(* The SWEEPER (sr_arpcache_timeout) wakes up after each one-second sleep, *)
(* expires cache entries and retries or gives up pending requests.         *)
(*                                                                         *)
(* A section of the main thread between pthread_mutex_lock and             *)
(* pthread_mutex_unlock is one action, enabled when the mutex is free; the *)
(* sweeper holds the mutex over many actions.  What the main thread does   *)
(* to a request OUTSIDE the mutex is one action per memory access.         *)
(*                                                                         *)
(* Time is kept as ages instead of clock values: the code only asks        *)
(* whether a request was sent at least one second ago and whether an entry *)
(* is more than SR_ARPCACHE_TO seconds old, so ages saturate there.        *)
(***************************************************************************)
EXTENDS Integers, Sequences

CONSTANTS
    NumSlots,    \* SR_ARPCACHE_SZ, the number of entries of the cache
    Timeout,     \* SR_ARPCACHE_TO, the age in seconds after which an entry expires
    MaxTries,    \* the 5 of handle_arpreq
    IPs,         \* next-hop IP addresses
    MACs,        \* hardware addresses
    Claims,      \* the <<ip, mac>> pairs ARP replies may carry
    NumPackets,  \* IP packets the main thread handles, in this order
    NextHop,     \* NextHop[p]: where the routing table sends packet p
    BackHop,     \* BackHop[p]: next hop towards the source of p, or None
    Reqs,        \* addresses of heap cells that can hold a struct sr_arpreq
    None         \* NULL

Slots == 1..NumSlots
Packets == 1..NumPackets

\* A valid struct sr_arpentry; age: seconds since added.
Entry == [ip : IPs, mac : MACs, age : 0..(Timeout + 1)]

ASSUME SizesAssumption ==
    /\ NumSlots \in Nat
    /\ Timeout \in Nat
    /\ MaxTries \in Nat /\ MaxTries >= 2
    /\ NumPackets \in Nat

ASSUME AddressAssumption ==
    /\ None \notin IPs \cup MACs \cup Reqs
    /\ None \notin Int \cup {"main", "sweeper"}
    /\ None \notin Entry
    /\ Claims \subseteq IPs \X MACs
    /\ NextHop \in [Packets -> IPs]
    /\ BackHop \in [Packets -> IPs \cup {None}]

VARIABLES
    entries,   \* cache->entries: None where valid is 0
    requests,  \* cache->requests: the cells linked into the request queue
    cell,      \* contents of the request cells
    live,      \* the cells allocated and not yet freed
    lock,      \* holder of cache->lock over several steps, or None
    mpc,       \* where the main thread is
    mpkt,      \* the packet it is resolving
    mreq,      \* its pointer req
    mmac,      \* the MAC address it took from a cache entry or an ARP reply
    mlist,     \* its pointer pkt: the rest of the list that it walks
    spc,       \* where the sweeper is
    todo,      \* requests its walk has still to reach
    cur,       \* its pointer req
    nowAge,    \* seconds since its now = time(NULL), up to 1
    tmp,       \* the register of its times_sent++
    slept,     \* seconds since it went to sleep, up to 1
    fate,      \* history: what has become of each packet
    asked      \* history: ARP requests sent on behalf of each live request

cacheVars == <<entries, requests, cell, live>>
mainVars  == <<mpc, mpkt, mreq, mmac, mlist>>
sweepVars == <<lock, spc, todo, cur, nowAge, tmp, slept>>
vars == <<cacheVars, mainVars, sweepVars, fate, asked>>

Final == {"sent", "bounced", "dropped"}

\* A struct sr_arpreq; age: seconds since sent, up to 1.
Cell == [ip : IPs \cup {None}, age : 0..1, times : 0..MaxTries,
         packets : Seq(Packets)]

\* What calloc returns: sent is 0, the epoch, more than a second ago.
Blank == [ip |-> None, age |-> 1, times |-> 0, packets |-> <<>>]

FaultyNewReq(ip, p) == [ip |-> ip, age |-> 1, times |-> 1, packets |-> <<p>>] \* malloc
NewReq(ip, p) == [ip |-> ip, age |-> 1, times |-> 0, packets |-> <<p>>]

-----------------------------------------------------------------------------
(* Definitions whose names begin with Faulty are plausible bugs, each next *)
(* to the definition it stands in for when a run is tested for             *)
(* sensitivity.  The specification does not use them.                      *)

FaultyCanLock(t) == lock = None \* a mutex that is not recursive

(* The mutex is PTHREAD_MUTEX_RECURSIVE: its holder may lock it again.     *)
CanLock(t) == lock \in {None, t}

Matches(ip) == {s \in Slots : entries[s] # None /\ entries[s].ip = ip}
FreeSlots   == {s \in Slots : entries[s] = None}
FaultyPending(ip) == requests \* the IP is not compared

Pending(ip) == {r \in requests : cell[r].ip = ip}

\* the last valid slot, whatever its IP
FaultyLookupSlot(ip) == {s \in Slots \ FreeSlots : \A t \in Slots \ FreeSlots : t <= s}

(* sr_arpcache_lookup scans all slots and keeps the last that matches.     *)
LookupSlot(ip) == {s \in Matches(ip) : \A t \in Matches(ip) : t <= s}

(* sr_arpcache_insert stops at the first slot that is not valid; when      *)
(* every slot is valid the mapping is not stored.                          *)
InsertSlot == {s \in FreeSlots : \A t \in FreeSlots : s <= t}

StoreMapping(ip, mac) ==
    entries' = [s \in Slots |-> IF s \in InsertSlot
                                THEN [ip |-> ip, mac |-> mac, age |-> 0]
                                ELSE entries[s]]

(* Writes to the fields of a request.                                      *)
SetAge(r, a)   == [cell EXCEPT ![r].age = a]
SetTimes(r, n) == [cell EXCEPT ![r].times = n]
FaultyPush(r, p) == [cell EXCEPT ![r].packets = <<p>>] \* next is not set
PushPacket(r, p) == [cell EXCEPT ![r].packets = <<p>> \o @]

(* sr_arpreq_destroy: unlink the request if it is queued, free its packets *)
(* and the request itself.                                                 *)
Destroy(r) ==
    /\ requests' = requests \ {r}
    /\ live' = live \ {r}
    /\ cell' = [cell EXCEPT ![r] = Blank]
    /\ asked' = [asked EXCEPT ![r] = 0]

MainReturns ==
    /\ mpc' = "idle"
    /\ mpkt' = None
    /\ mreq' = None
    /\ mmac' = None
    /\ mlist' = <<>>

-----------------------------------------------------------------------------
Init ==
    /\ entries = [s \in Slots |-> None]
    /\ requests = {}
    /\ cell = [r \in Reqs |-> Blank]
    /\ live = {}
    /\ lock = None
    /\ mpc = "idle" /\ mpkt = None /\ mreq = None /\ mmac = None /\ mlist = <<>>
    /\ spc = "sleep" /\ todo = {} /\ cur = None
    /\ nowAge = 0 /\ tmp = 0 /\ slept = 0
    /\ fate = [p \in Packets |-> "new"]
    /\ asked = [r \in Reqs |-> 0]

-----------------------------------------------------------------------------
(* The main thread: a packet that needs the MAC address of its next hop.   *)

\* The packets are numbered in the order in which they arrive.
Arrives(p) ==
    /\ mpc = "idle"
    /\ fate[p] = "new"
    /\ \A q \in Packets : q < p => fate[q] # "new"

\* sr_arpcache_lookup returns a copy of an entry.
LookupHit(p) ==
    /\ Arrives(p)
    /\ CanLock("main")
    /\ \E s \in LookupSlot(NextHop[p]) : mmac' = entries[s].mac
    /\ mpc' = "hit"
    /\ mpkt' = p
    /\ fate' = [fate EXCEPT ![p] = "held"]
    /\ UNCHANGED <<cacheVars, sweepVars, mreq, mlist, asked>>

\* The copy is used after the mutex was released.
SendForwarded ==
    /\ mpc = "hit"
    /\ fate' = [fate EXCEPT ![mpkt] = "sent"]
    /\ MainReturns
    /\ UNCHANGED <<cacheVars, sweepVars, asked>>

LookupMiss(p) ==
    /\ Arrives(p)
    /\ CanLock("main")
    /\ Matches(NextHop[p]) = {}
    /\ mpc' = "queue"
    /\ mpkt' = p
    /\ fate' = [fate EXCEPT ![p] = "held"]
    /\ UNCHANGED <<cacheVars, sweepVars, mreq, mmac, mlist, asked>>

\* a new request for every packet
FaultyQueueNew(r) ==
    /\ mpc = "queue" /\ CanLock("main") /\ r \notin live
    /\ live' = live \cup {r}
    /\ requests' = requests \cup {r}
    /\ cell' = [cell EXCEPT ![r] = NewReq(NextHop[mpkt], mpkt)]
    /\ mreq' = r
    /\ mpc' = "check"
    /\ fate' = [fate EXCEPT ![mpkt] = "queued"]
    /\ UNCHANGED <<entries, sweepVars, mpkt, mmac, mlist, asked>>

\* sr_arpcache_queuereq, no request for this IP yet: calloc one, push it.
QueueNew(r) ==
    /\ mpc = "queue"
    /\ CanLock("main")
    /\ Pending(NextHop[mpkt]) = {}
    /\ r \notin live
    /\ live' = live \cup {r}
    /\ requests' = requests \cup {r}
    /\ cell' = [cell EXCEPT ![r] = NewReq(NextHop[mpkt], mpkt)]
    /\ mreq' = r
    /\ mpc' = "check"
    /\ fate' = [fate EXCEPT ![mpkt] = "queued"]
    /\ UNCHANGED <<entries, sweepVars, mpkt, mmac, mlist, asked>>

\* sr_arpcache_queuereq, a request exists: push the packet on its list.
QueueOn(r) ==
    /\ mpc = "queue"
    /\ CanLock("main")
    /\ r \in Pending(NextHop[mpkt])
    /\ cell' = PushPacket(r, mpkt)
    /\ mreq' = r
    /\ mpc' = "check"
    /\ fate' = [fate EXCEPT ![mpkt] = "queued"]
    /\ UNCHANGED <<entries, requests, live, sweepVars, mpkt, mmac, mlist, asked>>

\* if (req->times_sent == 0), without the mutex.  The sweeper may have freed
\* the request, and then the read returns anything.
ReadTimes ==
    /\ mpc = "check"
    /\ \E t \in IF mreq \in live THEN {cell[mreq].times} ELSE 0..MaxTries :
          IF t = 0 THEN mpc' = "ask" /\ UNCHANGED <<mpkt, mreq, mmac, mlist>>
                   ELSE MainReturns
    /\ UNCHANGED <<cacheVars, sweepVars, fate, asked>>

\* send_arp_request(sr, next_hop, out_iface->name)
SendArpRequest ==
    /\ mpc = "ask"
    /\ asked' = IF mreq \in live THEN [asked EXCEPT ![mreq] = @ + 1] ELSE asked
    /\ mpc' = "setsent"
    /\ UNCHANGED <<cacheVars, sweepVars, mpkt, mreq, mmac, mlist, fate>>

\* req->sent = time(NULL), without the mutex; a write to a freed cell changes
\* nothing that is read again, because calloc clears the cell.
WriteSent ==
    /\ mpc = "setsent"
    /\ cell' = IF mreq \in live THEN SetAge(mreq, 0) ELSE cell
    /\ mpc' = "settimes"
    /\ UNCHANGED <<entries, requests, live, sweepVars, mpkt, mreq, mmac, mlist,
                   fate, asked>>

\* req->times_sent = 1, without the mutex.
WriteTimes ==
    /\ mpc = "settimes"
    /\ cell' = IF mreq \in live THEN SetTimes(mreq, 1) ELSE cell
    /\ MainReturns
    /\ UNCHANGED <<entries, requests, live, sweepVars, fate, asked>>

-----------------------------------------------------------------------------
(* The main thread: an ARP reply that says that mac has address ip.        *)

\* the request that waits for ip is overlooked
FaultyInsertUnasked(ip, mac) ==
    /\ mpc = "idle" /\ CanLock("main")
    /\ StoreMapping(ip, mac)
    /\ UNCHANGED <<requests, cell, live, mainVars, sweepVars, fate, asked>>

\* sr_arpcache_insert finds no request for ip.
InsertUnasked(ip, mac) ==
    /\ mpc = "idle"
    /\ CanLock("main")
    /\ Pending(ip) = {}
    /\ StoreMapping(ip, mac)
    /\ UNCHANGED <<requests, cell, live, mainVars, sweepVars, fate, asked>>

\* the request is returned but stays on the queue
FaultyInsertAnswer(ip, mac) ==
    /\ mpc = "idle" /\ CanLock("main")
    /\ StoreMapping(ip, mac)
    /\ \E r \in Pending(ip) : mreq' = r /\ mlist' = cell[r].packets
    /\ mmac' = mac
    /\ mpc' = "drain"
    /\ UNCHANGED <<requests, cell, live, mpkt, sweepVars, fate, asked>>

\* sr_arpcache_insert unlinks the request for ip and returns it.
InsertAnswer(ip, mac) ==
    /\ mpc = "idle"
    /\ CanLock("main")
    /\ StoreMapping(ip, mac)
    /\ \E r \in Pending(ip) :
          /\ requests' = requests \ {r}
          /\ mreq' = r
          /\ mlist' = cell[r].packets
    /\ mmac' = mac
    /\ mpc' = "drain"
    /\ UNCHANGED <<cell, live, mpkt, sweepVars, fate, asked>>

\* One round of the loop over req->packets, without the mutex.
SendQueued ==
    /\ mpc = "drain"
    /\ mlist # <<>>
    /\ fate' = [fate EXCEPT ![Head(mlist)] = "sent"]
    /\ mlist' = Tail(mlist)
    /\ UNCHANGED <<cacheVars, sweepVars, mpc, mpkt, mreq, mmac, asked>>

\* the request is not freed
FaultyDestroyAnswered ==
    /\ mpc = "drain" /\ mlist = <<>>
    /\ MainReturns
    /\ UNCHANGED <<cacheVars, sweepVars, fate, asked>>

\* sr_arpreq_destroy after the loop.
DestroyAnswered ==
    /\ mpc = "drain"
    /\ mlist = <<>>
    /\ CanLock("main")
    /\ Destroy(mreq)
    /\ MainReturns
    /\ UNCHANGED <<entries, sweepVars, fate>>

-----------------------------------------------------------------------------
(* The sweeper.                                                            *)

FaultyExpired(e) == FALSE \* entries are never invalidated
Expired(e) == e # None /\ e.age > Timeout

\* sleep(1.0) is over: take the mutex and invalidate the old entries.
SweepStart ==
    /\ spc = "sleep"
    /\ slept >= 1
    /\ CanLock("sweeper")
    /\ lock' = "sweeper"
    /\ entries' = [s \in Slots |-> IF Expired(entries[s]) THEN None ELSE entries[s]]
    /\ todo' = requests
    /\ spc' = "walk"
    /\ slept' = 0
    /\ UNCHANGED <<requests, cell, live, mainVars, cur, nowAge, tmp, fate, asked>>

\* sr_arpcache_sweepreqs goes on to the next request.  The list cannot change
\* under the mutex except by destroying the request just visited, whose next
\* pointer was saved, so the walk meets every request once; which one comes
\* first is left open.
Visit(r) ==
    /\ spc = "walk"
    /\ r \in todo
    /\ todo' = todo \ {r}
    /\ IF cell[r].age >= 1 THEN spc' = "times" /\ cur' = r
                      ELSE UNCHANGED <<spc, cur>>
    /\ UNCHANGED <<cacheVars, mainVars, lock, nowAge, tmp, slept, fate, asked>>

\* if (req->times_sent > 5)
FaultyCheckTimes ==
    /\ spc = "times"
    /\ spc' = IF cell[cur].times > MaxTries THEN "bounce" ELSE "resend"
    /\ UNCHANGED <<cacheVars, mainVars, lock, todo, cur, nowAge, tmp, slept, fate, asked>>

\* if (req->times_sent >= 5)
CheckTimes ==
    /\ spc = "times"
    /\ spc' = IF cell[cur].times >= MaxTries THEN "bounce" ELSE "resend"
    /\ UNCHANGED <<cacheVars, mainVars, lock, todo, cur, nowAge, tmp, slept, fate, asked>>

\* send_arp_request_for_req sends on the interface of the first packet.
Resend ==
    /\ spc = "resend"
    /\ asked' = IF cell[cur].packets # <<>> THEN [asked EXCEPT ![cur] = @ + 1]
                                            ELSE asked
    /\ spc' = "sent"
    /\ UNCHANGED <<cacheVars, mainVars, lock, todo, cur, nowAge, tmp, slept, fate>>

\* req->sent = now, the time at which the request was visited
SetSent ==
    /\ spc = "sent"
    /\ cell' = SetAge(cur, nowAge)
    /\ nowAge' = 0
    /\ spc' = "load"
    /\ UNCHANGED <<entries, requests, live, mainVars, lock, todo, cur, tmp, slept,
                   fate, asked>>

\* req->times_sent++ reads ...
LoadTimes ==
    /\ spc = "load"
    /\ tmp' = cell[cur].times
    /\ spc' = "store"
    /\ UNCHANGED <<cacheVars, mainVars, lock, todo, cur, nowAge, slept, fate, asked>>

\* the increment is forgotten
FaultyStoreTimes ==
    /\ spc = "store"
    /\ tmp' = 0 /\ cur' = None /\ spc' = "walk"
    /\ UNCHANGED <<cacheVars, mainVars, lock, todo, nowAge, slept, fate, asked>>

\* ... and writes back.
StoreTimes ==
    /\ spc = "store"
    /\ cell' = SetTimes(cur, tmp + 1)
    /\ tmp' = 0
    /\ cur' = None
    /\ spc' = "walk"
    /\ UNCHANGED <<entries, requests, live, mainVars, lock, todo, nowAge, slept,
                   fate, asked>>

\* send_icmp_host_unreachable: the source of a waiting packet is told only if
\* there is a route to it and the MAC address of that hop is in the cache.
HostUnreachable ==
    /\ spc = "bounce"
    /\ CanLock("sweeper")
    /\ fate' = [p \in Packets |->
                  IF \E i \in DOMAIN cell[cur].packets : cell[cur].packets[i] = p
                  THEN IF BackHop[p] # None /\ Matches(BackHop[p]) # {}
                       THEN "bounced" ELSE "dropped"
                  ELSE fate[p]]
    /\ spc' = "destroy"
    /\ nowAge' = 0
    /\ UNCHANGED <<cacheVars, mainVars, lock, todo, cur, tmp, slept, asked>>

\* sr_arpreq_destroy on a request that is still queued
DestroyExhausted ==
    /\ spc = "destroy"
    /\ CanLock("sweeper")
    /\ Destroy(cur)
    /\ cur' = None
    /\ spc' = "walk"
    /\ UNCHANGED <<entries, mainVars, lock, todo, nowAge, tmp, slept, fate>>

\* The walk is over: release the mutex and go to sleep.
SweepEnd ==
    /\ spc = "walk"
    /\ todo = {}
    /\ lock' = None
    /\ spc' = "sleep"
    /\ UNCHANGED <<cacheVars, mainVars, todo, cur, nowAge, tmp, slept, fate, asked>>

-----------------------------------------------------------------------------
(* A second passes.                                                        *)
Aged == [r \in Reqs |-> [cell[r] EXCEPT !.age = 1]]

Tick ==
    /\ entries' = [s \in Slots |->
                     IF entries[s] # None /\ entries[s].age <= Timeout
                     THEN [entries[s] EXCEPT !.age = @ + 1] ELSE entries[s]]
    /\ cell' = Aged
    /\ nowAge' = IF spc \in {"times", "resend", "sent"} THEN 1 ELSE nowAge
    /\ slept' = IF spc = "sleep" THEN 1 ELSE slept
    /\ UNCHANGED <<requests, live, mainVars, lock, spc, todo, cur, tmp, fate, asked>>

Main ==
    \/ \E p \in Packets : LookupHit(p) \/ LookupMiss(p)
    \/ SendForwarded
    \/ \E r \in Reqs : QueueNew(r) \/ QueueOn(r)
    \/ ReadTimes \/ SendArpRequest \/ WriteSent \/ WriteTimes
    \/ \E c \in Claims : InsertUnasked(c[1], c[2]) \/ InsertAnswer(c[1], c[2])
    \/ SendQueued \/ DestroyAnswered

Sweeper ==
    \/ SweepStart
    \/ \E r \in Reqs : Visit(r)
    \/ CheckTimes \/ Resend \/ SetSent \/ LoadTimes \/ StoreTimes
    \/ HostUnreachable \/ DestroyExhausted \/ SweepEnd

Next == Main \/ Sweeper \/ Tick

Spec == Init /\ [][Next]_vars

(***************************************************************************)
(* Fairness.  Packets and ARP replies arrive or do not: nothing is assumed *)
(* about an idle main thread.  Both threads are scheduled and time passes. *)
(* The two steps of the main thread that need the mutex are strongly fair: *)
(* the sweeper leaves it free during a sleep of a whole second, again and  *)
(* again, and the main thread waits for it.                                *)
(***************************************************************************)
MainRuns == SendForwarded \/ ReadTimes \/ SendArpRequest \/ WriteSent
            \/ WriteTimes \/ SendQueued
MainLocks == DestroyAnswered \/ \E r \in Reqs : QueueNew(r) \/ QueueOn(r)

Fairness ==
    /\ WF_vars(MainRuns)
    /\ SF_vars(MainLocks)
    /\ WF_vars(Sweeper)
    /\ WF_vars(Tick)

FairSpec == Spec /\ Fairness

-----------------------------------------------------------------------------
(* Correctness properties.                                                 *)

MainPc == {"idle", "hit", "queue", "check", "ask", "setsent", "settimes", "drain"}
SweepPc == {"sleep", "walk", "times", "resend", "sent", "load", "store",
            "bounce", "destroy"}

\* Every variable has the type of the C object it stands for.
TypeOK ==
    /\ entries \in [Slots -> Entry \cup {None}]
    /\ requests \subseteq Reqs
    /\ cell \in [Reqs -> Cell]
    /\ live \subseteq Reqs
    /\ lock \in {None, "sweeper"}
    /\ mpc \in MainPc
    /\ mpkt \in Packets \cup {None}
    /\ mreq \in Reqs \cup {None}
    /\ mmac \in MACs \cup {None}
    /\ mlist \in Seq(Packets)
    /\ spc \in SweepPc
    /\ todo \subseteq Reqs
    /\ cur \in Reqs \cup {None}
    /\ nowAge \in 0..1
    /\ tmp \in 0..(MaxTries - 1)
    /\ slept \in 0..1
    /\ fate \in [Packets -> {"new", "held", "queued"} \cup Final]
    /\ asked \in [Reqs -> Nat]

\* A packet never waits for an address the cache knows: no valid entry has the
\* IP of a queued request, although lookup and queuereq, and insert and the
\* unlinking of the request, are reached by two threads.
ResolvedNotPending ==
    \A r \in requests : Matches(cell[r].ip) = {}

\* sr_arpcache_queuereq never queues two requests for one IP, so one reply
\* releases every packet that waits for it.
OneRequestPerIP ==
    \A r1, r2 \in requests : cell[r1].ip = cell[r2].ip => r1 = r2

\* The request the main thread owns while it handles a reply, if any
Answered == IF mpc = "drain" THEN {mreq} ELSE {}

\* Every allocated request has exactly one owner, the queue or the main thread
\* that took it off to answer it: none leaks, and sr_arpreq_destroy frees no
\* request twice and none that is on the queue of the other thread's walk.
RequestOwnership ==
    /\ live = requests \cup Answered
    /\ requests \cap Answered = {}
    /\ todo \subseteq requests
    /\ spc \notin {"sleep", "walk"} => cur \in requests

\* The cell is about to be freed with its packets already settled
Settled(r) == spc = "destroy" /\ cur = r

\* A queued packet hangs on exactly one list, once, and is neither sent twice
\* nor freed unsent: the lists of the queued requests and what is left of the
\* list the main thread walks hold each queued packet once and no other packet.
QueuedExactlyOnce ==
    /\ \A p \in Packets : fate[p] = "queued" =>
          \/ \E r \in requests : \E i \in DOMAIN cell[r].packets : cell[r].packets[i] = p
          \/ \E i \in DOMAIN mlist : mlist[i] = p
    /\ \A r \in requests : \A i \in DOMAIN cell[r].packets :
          /\ Settled(r) \/ fate[cell[r].packets[i]] = "queued"
          /\ NextHop[cell[r].packets[i]] = cell[r].ip
          /\ \A j \in DOMAIN cell[r].packets :
                cell[r].packets[i] = cell[r].packets[j] => i = j
    /\ \A i \in DOMAIN mlist :
          /\ fate[mlist[i]] = "queued"
          /\ \A j \in DOMAIN mlist : mlist[i] = mlist[j] => i = j

\* A packet leaves for a MAC address that an ARP reply claimed for its own next
\* hop, whether it found the address in the cache or waited for it.
SentToClaimant ==
    /\ mpc = "hit" => <<NextHop[mpkt], mmac>> \in Claims
    /\ mpc = "drain" => \A i \in DOMAIN mlist : <<NextHop[mlist[i]], mmac>> \in Claims

\* While the main thread uses the pointer sr_arpcache_queuereq returned after
\* the mutex is released, the cell may be freed, but it is never the request
\* of another IP: the unlocked writes cannot reset somebody else's retries.
PointerNotRecycled ==
    mpc \in {"check", "ask", "setsent", "settimes"} /\ mreq \in live =>
        mreq \in requests /\ cell[mreq].ip = NextHop[mpkt]

\* handle_arpreq gives a request up only after MaxTries ARP requests were
\* really sent for it, whatever the unlocked writes of the main thread do to
\* the counter.
NoEarlyGiveUp ==
    spc \in {"bounce", "destroy"} => asked[cur] >= MaxTries

\* The unlocked write times_sent = 1 can undo the sweeper's count at most once:
\* a request is never asked for more than 2 * MaxTries times.
AskedBounded ==
    \A r \in live : asked[r] <= 2 * MaxTries

\* Nothing happens to a packet after it was sent, bounced or dropped: the
\* sweeper never gives up a packet the main thread has sent, nor the reverse.
FateIsFinal ==
    [][\A p \in Packets : fate[p] \in Final => fate'[p] = fate[p]]_vars

\* A packet overtakes an earlier one to the same next hop only inside one batch:
\* the list of a request is kept last in, first out (sr_arpcache_queuereq pushes
\* at its head), so the packets one reply releases leave in reverse order, but
\* no packet leaves while an earlier one still waits for a reply, neither from
\* the cache nor from another request.
OvertakesOnlyInBatch ==
    [][\A p, q \in Packets :
          /\ p < q /\ NextHop[p] = NextHop[q]
          /\ fate[q] # "sent" /\ fate'[q] = "sent"
          /\ fate[p] \notin Final
          => \E i, j \in DOMAIN mlist : mlist[i] = q /\ mlist[j] = p]_vars

\* A queued packet counts as resolved once sr_arpcache_insert has handed its
\* list to the main thread.
Destiny == [p \in Packets |->
    IF fate[p] # "queued" THEN fate[p]
    ELSE IF \E i \in DOMAIN mlist : mlist[i] = p THEN "resolved" ELSE "waiting"]

Resolution == INSTANCE ArpResolution WITH fate <- Destiny

\* The two threads together keep the promise of ArpResolution: packets waiting
\* for one next hop are answered or given up together, at one instant, and
\* every packet that was answered is sent.
ImplementsResolution == Resolution!Spec

\* Every packet the router accepts is sent or given up: no retry loop runs for
\* ever and nothing stays on a queue that nobody visits.
EveryPacketSettled ==
    \A p \in Packets : fate[p] \in {"held", "queued"} ~> fate[p] \in Final

\* Every request is freed again.
EveryRequestFreed ==
    \A r \in Reqs : r \in live ~> r \notin live

\* Every cache entry is invalidated in the end, so a host that changed its
\* address is asked again.
EveryEntryExpires ==
    \A s \in Slots : entries[s] # None ~> entries[s] = None
=============================================================================
