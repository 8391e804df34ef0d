--------------------------- MODULE ArpCacheProofs ---------------------------
(***************************************************************************)
(* Theorems about ArpCache, for every number of slots, packets, requests   *)
(* and retries.                                                            *)
(***************************************************************************)
EXTENDS ArpCache, SequenceTheorems, TLAPS

(* What the writes to a request cell change and what they leave alone.     *)

LEMMA SingletonSeq ==
  ASSUME NEW p \in Packets PROVE <<p>> \in Seq(Packets)
  OBVIOUS

LEMMA PushSeq ==
  ASSUME NEW p \in Packets, NEW q \in Seq(Packets)
  PROVE  <<p>> \o q \in Seq(Packets)
  BY SingletonSeq, ConcatProperties

LEMMA SetAgeFact ==
  ASSUME cell \in [Reqs -> Cell], NEW r \in Reqs, NEW a \in 0..1
  PROVE  /\ SetAge(r, a) \in [Reqs -> Cell]
         /\ \A q \in Reqs : /\ SetAge(r, a)[q].ip = cell[q].ip
                            /\ SetAge(r, a)[q].times = cell[q].times
                            /\ SetAge(r, a)[q].packets = cell[q].packets
  BY DEF Cell, SetAge

LEMMA SetTimesFact ==
  ASSUME cell \in [Reqs -> Cell], NEW r \in Reqs, NEW n \in 0..MaxTries
  PROVE  /\ SetTimes(r, n) \in [Reqs -> Cell]
         /\ \A q \in Reqs : /\ SetTimes(r, n)[q].ip = cell[q].ip
                            /\ SetTimes(r, n)[q].packets = cell[q].packets
                            /\ SetTimes(r, n)[q].times = IF q = r THEN n ELSE cell[q].times
  BY DEF Cell, SetTimes

LEMMA PushFact ==
  ASSUME cell \in [Reqs -> Cell], NEW r \in Reqs, NEW p \in Packets
  PROVE  /\ PushPacket(r, p) \in [Reqs -> Cell]
         /\ \A q \in Reqs : /\ PushPacket(r, p)[q].ip = cell[q].ip
                            /\ PushPacket(r, p)[q].times = cell[q].times
                            /\ q # r => PushPacket(r, p)[q].packets = cell[q].packets
         /\ PushPacket(r, p)[r].packets = <<p>> \o cell[r].packets
<1>1. cell[r] \in Cell
  OBVIOUS
<1>2. <<p>> \o cell[r].packets \in Seq(Packets)
  BY <1>1, PushSeq DEF Cell
<1> QED
  BY <1>1, <1>2 DEF Cell, PushPacket

LEMMA AgedEntry ==
  ASSUME NEW e \in Entry, e.age <= Timeout
  PROVE  [e EXCEPT !.age = @ + 1] \in Entry
  BY SizesAssumption DEF Entry

LEMMA AgedCell ==
  ASSUME NEW d \in Cell
  PROVE  LET e == [d EXCEPT !.age = 1]
         IN  e \in Cell /\ e.ip = d.ip /\ e.times = d.times /\ e.packets = d.packets
  BY DEF Cell

LEMMA AgedFact ==
  ASSUME cell \in [Reqs -> Cell]
  PROVE  /\ Aged \in [Reqs -> Cell]
         /\ \A q \in Reqs : /\ Aged[q].ip = cell[q].ip
                            /\ Aged[q].times = cell[q].times
                            /\ Aged[q].packets = cell[q].packets
<1>1. \A q \in Reqs : Aged[q] = [cell[q] EXCEPT !.age = 1] /\ cell[q] \in Cell
  BY DEF Aged
<1>2. \A q \in Reqs : /\ Aged[q] \in Cell
                       /\ Aged[q].ip = cell[q].ip
                       /\ Aged[q].times = cell[q].times
                       /\ Aged[q].packets = cell[q].packets
  BY <1>1, AgedCell
<1> QED
  BY <1>2 DEF Aged

LEMMA CellValues ==
  /\ Blank \in Cell
  /\ \A ip \in IPs, p \in Packets : NewReq(ip, p) \in Cell
  BY SizesAssumption, SingletonSeq DEF Cell, Blank, NewReq

-----------------------------------------------------------------------------
Window == {"check", "ask", "setsent", "settimes"}

\* What TypeOK needs to be inductive: who holds the mutex, which registers of
\* the two threads hold a value where, and that the sweeper only counts up a
\* request below the limit.
TypeInv ==
    /\ TypeOK
    /\ lock = IF spc = "sleep" THEN None ELSE "sweeper"
    /\ mpc \in {"hit", "queue"} \cup Window => mpkt \in Packets
    /\ mpc \in Window \cup {"drain"} => mreq \in Reqs
    /\ spc \notin {"sleep", "walk"} => cur \in Reqs
    /\ spc \in {"resend", "sent", "load"} => cell[cur].times < MaxTries

LEMMA TypeInit == Init => TypeInv
  BY SizesAssumption, AddressAssumption, CellValues
  DEF Init, TypeInv, TypeOK, Window, MainPc, SweepPc, Final

LEMMA TypeNext == TypeInv /\ [Next]_vars => TypeInv'
<1> SUFFICES ASSUME TypeInv, [Next]_vars PROVE TypeInv'
  OBVIOUS
<1> USE SizesAssumption, AddressAssumption
    DEF TypeInv, TypeOK, Window, MainPc, SweepPc, Final, CanLock
<1>00. cell \in [Reqs -> Cell]
  OBVIOUS
<1>0. \A r \in Reqs : cell[r].times \in 0..MaxTries /\ cell[r].packets \in Seq(Packets)
  BY DEF Cell
<1>1. ASSUME NEW p \in Packets, LookupHit(p) PROVE TypeInv'
  BY <1>1 DEF LookupHit, Arrives, LookupSlot, Matches, Entry, cacheVars, sweepVars
<1>2. ASSUME NEW p \in Packets, LookupMiss(p) PROVE TypeInv'
  BY <1>2 DEF LookupMiss, Arrives, cacheVars, sweepVars
<1>3. CASE SendForwarded
  BY <1>3 DEF SendForwarded, MainReturns, cacheVars, sweepVars
<1>4. ASSUME NEW r \in Reqs, QueueNew(r) PROVE TypeInv'
  <2>1. cell' \in [Reqs -> Cell]
    BY <1>4, CellValues DEF QueueNew
  <2> QED
    BY <1>4, <2>1 DEF QueueNew, sweepVars
<1>5. ASSUME NEW r \in Reqs, QueueOn(r) PROVE TypeInv'
  <2>1. cell' \in [Reqs -> Cell] /\ \A q \in Reqs : cell'[q].times = cell[q].times
    <3>1. mpkt \in Packets
      BY <1>5 DEF QueueOn
    <3>2. cell' = PushPacket(r, mpkt)
      BY <1>5 DEF QueueOn
    <3> QED
      BY ONLY <1>00, <1>5, <3>1, <3>2, PushFact
  <2> QED
    BY <1>5, <2>1 DEF QueueOn, sweepVars
<1>6. CASE ReadTimes
  <2>1. \/ mpc' = "ask" /\ UNCHANGED <<mpkt, mreq, mmac, mlist>>
        \/ MainReturns
    BY <1>6 DEF ReadTimes
  <2>2. UNCHANGED <<cacheVars, sweepVars, fate, asked>> /\ mpc = "check"
    BY <1>6 DEF ReadTimes
  <2>3. CASE mpc' = "ask" /\ UNCHANGED <<mpkt, mreq, mmac, mlist>>
    BY <2>3, <2>2 DEF cacheVars, sweepVars
  <2>4. CASE MainReturns
    BY <2>4, <2>2 DEF MainReturns, cacheVars, sweepVars
  <2> QED
    BY <2>1, <2>3, <2>4
<1>7. CASE SendArpRequest
  BY <1>7 DEF SendArpRequest, cacheVars, sweepVars
<1>8. CASE WriteSent
  <2>1. cell' \in [Reqs -> Cell] /\ \A q \in Reqs : cell'[q].times = cell[q].times
    BY <1>8, SetAgeFact DEF WriteSent
  <2> QED
    BY <1>8, <2>1 DEF WriteSent, sweepVars
<1>9. CASE WriteTimes
  <2>1. cell' \in [Reqs -> Cell] /\ \A q \in Reqs : cell[q].times < MaxTries => cell'[q].times < MaxTries
    <3>1. mreq \in Reqs
      BY <1>9 DEF WriteTimes
    <3>2. 1 \in 0..MaxTries /\ 1 < MaxTries
      OBVIOUS
    <3>3. cell' = SetTimes(mreq, 1) \/ cell' = cell
      BY <1>9 DEF WriteTimes
    <3> QED
      BY ONLY <1>00, <3>1, <3>2, <3>3, SetTimesFact
  <2>2. (spc \in {"resend", "sent", "load"} => cell[cur].times < MaxTries)'
    BY <1>9, <2>1 DEF WriteTimes, sweepVars
  <2> QED
    BY <1>9, <2>1, <2>2 DEF WriteTimes, MainReturns, sweepVars
<1>10. ASSUME NEW ip \in IPs, NEW mac \in MACs, InsertUnasked(ip, mac) PROVE TypeInv'
  BY <1>10 DEF InsertUnasked, StoreMapping, Entry, mainVars, sweepVars
<1>11. ASSUME NEW ip \in IPs, NEW mac \in MACs, InsertAnswer(ip, mac) PROVE TypeInv'
  BY <1>11, <1>0 DEF InsertAnswer, StoreMapping, Pending, Entry, sweepVars
<1>12. CASE SendQueued
  BY <1>12 DEF SendQueued, cacheVars, sweepVars
<1>13. CASE DestroyAnswered
  <2>1. cell' \in [Reqs -> Cell]
    BY <1>13, CellValues DEF DestroyAnswered, Destroy
  <2> QED
    BY <1>13, <2>1 DEF DestroyAnswered, Destroy, MainReturns, sweepVars
<1>14. CASE SweepStart
  BY <1>14 DEF SweepStart, mainVars
<1>15. ASSUME NEW r \in Reqs, Visit(r) PROVE TypeInv'
  BY <1>15 DEF Visit, cacheVars, mainVars
<1>16. CASE CheckTimes
  BY <1>16, <1>0 DEF CheckTimes, cacheVars, mainVars
<1>17. CASE Resend
  BY <1>17 DEF Resend, cacheVars, mainVars
<1>18. CASE SetSent
  <2>1. cell' \in [Reqs -> Cell] /\ \A q \in Reqs : cell'[q].times = cell[q].times
    BY <1>18, SetAgeFact DEF SetSent
  <2> QED
    BY <1>18, <2>1 DEF SetSent, mainVars
<1>19. CASE LoadTimes
  BY <1>19, <1>0 DEF LoadTimes, cacheVars, mainVars
<1>20. CASE StoreTimes
  <2>1. cell' \in [Reqs -> Cell]
    <3>1. tmp + 1 \in 0..MaxTries /\ cur \in Reqs
      BY <1>20 DEF StoreTimes
    <3> QED
      BY <1>20, <3>1, SetTimesFact DEF StoreTimes
  <2> QED
    BY <1>20, <2>1 DEF StoreTimes, mainVars
<1>21. CASE HostUnreachable
  BY <1>21 DEF HostUnreachable, cacheVars, mainVars
<1>22. CASE DestroyExhausted
  BY <1>22, CellValues DEF DestroyExhausted, Destroy, mainVars
<1>23. CASE SweepEnd
  BY <1>23 DEF SweepEnd, cacheVars, mainVars
<1>24. CASE Tick
  <2>1. cell' \in [Reqs -> Cell] /\ \A q \in Reqs : cell'[q].times = cell[q].times
    BY <1>24, AgedFact DEF Tick
  <2>2. entries' \in [Slots -> Entry \cup {None}]
    <3>1. entries \in [Slots -> Entry \cup {None}]
      OBVIOUS
    <3> QED
      BY ONLY <3>1, <1>24, SizesAssumption, AgedEntry DEF Tick
  <2>3. nowAge' \in 0..1 /\ slept' \in 0..1
    BY <1>24 DEF Tick
  <2>4. (spc \in {"resend", "sent", "load"} => cell[cur].times < MaxTries)'
    BY <1>24, <2>1 DEF Tick
  <2> QED
    BY <1>24, <2>1, <2>2, <2>3, <2>4 DEF Tick, mainVars
<1>25. CASE UNCHANGED vars
  BY <1>25 DEF vars, cacheVars, mainVars, sweepVars
<1>26. ASSUME NEW c \in Claims, InsertUnasked(c[1], c[2]) \/ InsertAnswer(c[1], c[2])
       PROVE  TypeInv'
  BY <1>26, <1>10, <1>11
<1> QED
  BY <1>1, <1>2, <1>3, <1>4, <1>5, <1>6, <1>7, <1>8, <1>9, <1>12, <1>13, <1>14,
     <1>15, <1>16, <1>17, <1>18, <1>19, <1>20, <1>21, <1>22, <1>23, <1>24, <1>25, <1>26
  DEF Next, Main, Sweeper

\* Every reachable state of both threads is well typed (TypeOK), with the
\* mutex held by the sweeper exactly while it is awake.
THEOREM TypeCorrect == Spec => [](TypeOK /\ TypeInv)
  BY TypeInit, TypeNext, PTL DEF Spec, TypeInv

-----------------------------------------------------------------------------
(* Who owns a request.                                                     *)

\* RequestOwnership is inductive once the sweeper's walk is known to be over
\* when it sleeps and never to come back to the request it has in hand.
OwnInv ==
    /\ RequestOwnership
    /\ spc = "sleep" => todo = {}
    /\ spc \notin {"sleep", "walk"} => cur \notin todo

LEMMA OwnInit == Init => OwnInv
  BY DEF Init, OwnInv, RequestOwnership, Answered

\* An action that changes neither the queue nor the heap, and moves neither
\* thread into or out of the ownership of a request, keeps the invariant.
LEMMA OwnQuiet ==
  ASSUME OwnInv, UNCHANGED <<requests, live, todo, cur, spc>>,
         mpc # "drain", mpc' # "drain"
  PROVE  OwnInv'
  BY DEF OwnInv, RequestOwnership, Answered

LEMMA OwnNext == TypeInv /\ OwnInv /\ [Next]_vars => OwnInv'
<1> SUFFICES ASSUME TypeInv, OwnInv, [Next]_vars PROVE OwnInv'
  OBVIOUS
<1>0. lock = (IF spc = "sleep" THEN None ELSE "sweeper") /\ None \notin {"main", "sweeper"}
  BY AddressAssumption DEF TypeInv
<1>1. ASSUME NEW p \in Packets, LookupHit(p) PROVE OwnInv'
  BY <1>1, OwnQuiet DEF LookupHit, Arrives, cacheVars, sweepVars
<1>2. ASSUME NEW p \in Packets, LookupMiss(p) PROVE OwnInv'
  BY <1>2, OwnQuiet DEF LookupMiss, Arrives, cacheVars, sweepVars
<1>3. CASE SendForwarded
  BY <1>3, OwnQuiet DEF SendForwarded, MainReturns, cacheVars, sweepVars
<1>4. ASSUME NEW r \in Reqs, QueueNew(r) PROVE OwnInv'
  BY <1>4, <1>0 DEF QueueNew, CanLock, OwnInv, RequestOwnership, Answered, sweepVars
<1>5. ASSUME NEW r \in Reqs, QueueOn(r) PROVE OwnInv'
  BY <1>5, OwnQuiet DEF QueueOn, sweepVars
<1>6. CASE ReadTimes
  BY <1>6, OwnQuiet DEF ReadTimes, MainReturns, cacheVars, sweepVars
<1>7. CASE SendArpRequest
  BY <1>7, OwnQuiet DEF SendArpRequest, cacheVars, sweepVars
<1>8. CASE WriteSent
  BY <1>8, OwnQuiet DEF WriteSent, sweepVars
<1>9. CASE WriteTimes
  BY <1>9, OwnQuiet DEF WriteTimes, MainReturns, sweepVars
<1>10. ASSUME NEW ip, NEW mac, InsertUnasked(ip, mac) PROVE OwnInv'
  BY <1>10, OwnQuiet DEF InsertUnasked, mainVars, sweepVars
<1>11. ASSUME NEW ip, NEW mac, InsertAnswer(ip, mac) PROVE OwnInv'
  BY <1>11, <1>0 DEF InsertAnswer, Pending, CanLock, OwnInv, RequestOwnership, Answered,
                     sweepVars
<1>12. CASE SendQueued
  BY <1>12 DEF SendQueued, OwnInv, RequestOwnership, Answered, cacheVars, sweepVars
<1>13. CASE DestroyAnswered
  BY <1>13, <1>0 DEF DestroyAnswered, Destroy, MainReturns, CanLock, OwnInv,
                     RequestOwnership, Answered, sweepVars
<1>14. CASE SweepStart
  BY <1>14 DEF SweepStart, OwnInv, RequestOwnership, Answered, mainVars
<1>15. ASSUME NEW r \in Reqs, Visit(r) PROVE OwnInv'
  BY <1>15 DEF Visit, OwnInv, RequestOwnership, Answered, cacheVars, mainVars
<1>16. CASE CheckTimes
  BY <1>16 DEF CheckTimes, OwnInv, RequestOwnership, Answered, cacheVars, mainVars
<1>17. CASE Resend
  BY <1>17 DEF Resend, OwnInv, RequestOwnership, Answered, cacheVars, mainVars
<1>18. CASE SetSent
  BY <1>18 DEF SetSent, OwnInv, RequestOwnership, Answered, mainVars
<1>19. CASE LoadTimes
  BY <1>19 DEF LoadTimes, OwnInv, RequestOwnership, Answered, cacheVars, mainVars
<1>20. CASE StoreTimes
  BY <1>20 DEF StoreTimes, OwnInv, RequestOwnership, Answered, mainVars
<1>21. CASE HostUnreachable
  BY <1>21 DEF HostUnreachable, OwnInv, RequestOwnership, Answered, cacheVars, mainVars
<1>22. CASE DestroyExhausted
  BY <1>22 DEF DestroyExhausted, Destroy, OwnInv, RequestOwnership, Answered, mainVars
<1>23. CASE SweepEnd
  BY <1>23 DEF SweepEnd, OwnInv, RequestOwnership, Answered, cacheVars, mainVars
<1>24. CASE Tick
  BY <1>24 DEF Tick, OwnInv, RequestOwnership, Answered, mainVars
<1>25. CASE UNCHANGED vars
  BY <1>25 DEF vars, cacheVars, mainVars, sweepVars, OwnInv, RequestOwnership, Answered
<1> QED
  BY <1>1, <1>2, <1>3, <1>4, <1>5, <1>6, <1>7, <1>8, <1>9, <1>10, <1>11, <1>12, <1>13,
     <1>14, <1>15, <1>16, <1>17, <1>18, <1>19, <1>20, <1>21, <1>22, <1>23, <1>24, <1>25
  DEF Next, Main, Sweeper

\* No request leaks and none is freed twice: at every moment each allocated
\* request belongs to the queue or to the main thread that answers it, never
\* to both, and the sweeper only touches requests on the queue.
THEOREM Ownership == Spec => []RequestOwnership
<1>1. Spec => []TypeInv
  BY TypeCorrect, PTL
<1>2. TypeInv /\ OwnInv /\ [Next]_vars => OwnInv'
  BY OwnNext
<1>3. OwnInv => RequestOwnership
  BY DEF OwnInv
<1> QED
  BY OwnInit, <1>1, <1>2, <1>3, PTL DEF Spec

-----------------------------------------------------------------------------
(* Pending requests and known addresses.                                   *)

\* ResolvedNotPending is inductive together with what the main thread knows
\* between a lookup that missed and queuereq: only the sweeper can run then,
\* and it takes entries away but adds none.
PendInv ==
    /\ ResolvedNotPending
    /\ OneRequestPerIP
    /\ PointerNotRecycled
    /\ mpc = "queue" => Matches(NextHop[mpkt]) = {}

LEMMA PendInit == Init => PendInv
  BY DEF Init, PendInv, ResolvedNotPending, OneRequestPerIP, PointerNotRecycled

\* What the steps that are neither queuereq nor insert have in common: no
\* request is added, a queued request keeps its IP, no mapping is added.
Quiet ==
    /\ requests' \subseteq requests
    /\ \A r \in requests' : cell'[r].ip = cell[r].ip
    /\ \A ip : Matches(ip)' \subseteq Matches(ip)

\* A quiet step keeps the first two parts of the invariant.
LEMMA PendQuiet ==
  ASSUME PendInv, Quiet
  PROVE  ResolvedNotPending' /\ OneRequestPerIP'
<1>1. ResolvedNotPending'
  BY DEF PendInv, Quiet, ResolvedNotPending
<1>2. OneRequestPerIP'
  BY DEF PendInv, Quiet, OneRequestPerIP
<1> QED
  BY <1>1, <1>2

LEMMA SameMatches ==
  ASSUME entries' = entries
  PROVE  \A ip : Matches(ip)' = Matches(ip)
  BY DEF Matches

LEMMA ExpiredMatches ==
  ASSUME TypeInv, SweepStart
  PROVE  \A ip : Matches(ip)' \subseteq Matches(ip)
  BY DEF SweepStart, Matches

LEMMA AgedMatches ==
  ASSUME TypeInv, Tick
  PROVE  \A ip : Matches(ip)' \subseteq Matches(ip)
<1>1. ASSUME NEW s \in Slots, entries'[s] # None
      PROVE  entries[s] # None /\ entries'[s].ip = entries[s].ip
  BY <1>1, AddressAssumption DEF Tick, Entry, TypeInv, TypeOK
<1> QED
  BY <1>1 DEF Matches

\* Every step is quiet except the three that queue a request or store a
\* mapping.
LEMMA QuietSteps ==
  ASSUME TypeInv, [Next]_vars,
         \A r \in Reqs : ~ QueueNew(r),
         \A ip, mac : ~ InsertUnasked(ip, mac) /\ ~ InsertAnswer(ip, mac)
  PROVE  Quiet
<1>0. cell \in [Reqs -> Cell] /\ requests \subseteq Reqs
  BY DEF TypeInv, TypeOK
<1>1. CASE UNCHANGED <<entries, requests, cell>>
  BY <1>1, SameMatches DEF Quiet
<1>2. ASSUME NEW r \in Reqs, QueueOn(r) PROVE Quiet
  <2>1. mpkt \in Packets /\ cell' = PushPacket(r, mpkt) /\ requests' = requests
    BY <1>2 DEF QueueOn, TypeInv
  <2>2. \A q \in Reqs : cell'[q].ip = cell[q].ip
    BY <1>0, <2>1, PushFact
  <2> QED
    BY <1>0, <1>2, <2>1, <2>2, SameMatches DEF Quiet, QueueOn
<1>3. CASE WriteSent
  <2>1. mreq \in Reqs /\ (cell' = SetAge(mreq, 0) \/ cell' = cell) /\ 0 \in 0..1
    BY <1>3 DEF WriteSent, TypeInv, Window
  <2>2. \A q \in Reqs : cell'[q].ip = cell[q].ip
    BY <1>0, <2>1, SetAgeFact
  <2> QED
    BY <1>0, <1>3, <2>2, SameMatches DEF Quiet, WriteSent
<1>4. CASE WriteTimes
  <2>1. mreq \in Reqs /\ (cell' = SetTimes(mreq, 1) \/ cell' = cell) /\ 1 \in 0..MaxTries
    BY <1>4, SizesAssumption DEF WriteTimes, TypeInv, Window
  <2>2. \A q \in Reqs : cell'[q].ip = cell[q].ip
    BY <1>0, <2>1, SetTimesFact
  <2> QED
    BY <1>0, <1>4, <2>2, SameMatches DEF Quiet, WriteTimes
<1>5. ASSUME NEW r, Destroy(r), entries' = entries PROVE Quiet
  BY <1>0, <1>5, SameMatches DEF Destroy, Quiet
<1>6. CASE SweepStart
  BY <1>6, ExpiredMatches DEF SweepStart, Quiet
<1>7. CASE SetSent
  <2>1. cur \in Reqs /\ cell' = SetAge(cur, nowAge) /\ nowAge \in 0..1
    BY <1>7 DEF SetSent, TypeInv, TypeOK
  <2>2. \A q \in Reqs : cell'[q].ip = cell[q].ip
    BY <1>0, <2>1, SetAgeFact
  <2> QED
    BY <1>0, <1>7, <2>2, SameMatches DEF Quiet, SetSent
<1>8. CASE StoreTimes
  <2>1. cur \in Reqs /\ cell' = SetTimes(cur, tmp + 1) /\ tmp + 1 \in 0..MaxTries
    BY <1>8, SizesAssumption DEF StoreTimes, TypeInv, TypeOK
  <2>2. \A q \in Reqs : cell'[q].ip = cell[q].ip
    BY <1>0, <2>1, SetTimesFact
  <2> QED
    BY <1>0, <1>8, <2>2, SameMatches DEF Quiet, StoreTimes
<1>9. CASE Tick
  <2>1. cell' = Aged /\ requests' = requests
    BY <1>9 DEF Tick
  <2>2. \A q \in Reqs : cell'[q].ip = cell[q].ip
    BY <1>0, <2>1, AgedFact
  <2> QED
    BY <1>0, <1>9, <2>1, <2>2, AgedMatches DEF Quiet
<1>10. \/ UNCHANGED <<entries, requests, cell>>
       \/ \E r \in Reqs : QueueOn(r)
       \/ WriteSent \/ WriteTimes
       \/ DestroyAnswered \/ DestroyExhausted
       \/ SweepStart \/ SetSent \/ StoreTimes \/ Tick
  BY DEF Next, Main, Sweeper, vars, cacheVars, LookupHit, LookupMiss, SendForwarded,
         ReadTimes, SendArpRequest, SendQueued, Visit, CheckTimes, Resend, LoadTimes,
         HostUnreachable, SweepEnd
<1> QED
  BY <1>1, <1>2, <1>3, <1>4, <1>5, <1>6, <1>7, <1>8, <1>9, <1>10
  DEF DestroyAnswered, DestroyExhausted

\* How the main thread gets into the part of its code that uses the pointer
\* returned by queuereq, and into the part between lookup and queuereq.
LEMMA MainMoves ==
  ASSUME [Next]_vars
  PROVE  /\ mpc' \in Window => \/ mpc \in Window /\ UNCHANGED <<mreq, mpkt>>
                               \/ \E r \in Reqs : QueueNew(r) \/ QueueOn(r)
         /\ mpc' = "queue" => \/ mpc = "queue" /\ UNCHANGED mpkt
                              \/ \E p \in Packets : LookupMiss(p)
<1> USE DEF Window
<1>1. CASE Main
  <2>1. CASE \E p \in Packets : LookupHit(p) \/ LookupMiss(p)
    <3>1. mpc' \in {"hit", "queue"}
      BY <2>1 DEF LookupHit, LookupMiss
    <3>2. mpc' = "hit" \/ \E p \in Packets : LookupMiss(p)
      BY <2>1 DEF LookupHit
    <3> QED
      BY <3>1, <3>2
  <2>2. CASE SendForwarded \/ ReadTimes \/ SendArpRequest \/ WriteSent \/ WriteTimes
    BY <2>2 DEF SendForwarded, ReadTimes, SendArpRequest, WriteSent, WriteTimes, MainReturns
  <2>3. CASE \E r \in Reqs : QueueNew(r) \/ QueueOn(r)
    BY <2>3 DEF QueueNew, QueueOn
  <2>4. CASE \E c \in Claims : InsertUnasked(c[1], c[2]) \/ InsertAnswer(c[1], c[2])
    BY <2>4 DEF InsertUnasked, InsertAnswer, mainVars
  <2>5. CASE SendQueued \/ DestroyAnswered
    BY <2>5 DEF SendQueued, DestroyAnswered, MainReturns
  <2> QED
    BY <1>1, <2>1, <2>2, <2>3, <2>4, <2>5 DEF Main
<1>2. CASE Sweeper \/ Tick \/ UNCHANGED vars
  BY <1>2 DEF Sweeper, SweepStart, Visit, CheckTimes, Resend, SetSent, LoadTimes, StoreTimes,
              HostUnreachable, DestroyExhausted, SweepEnd, Tick, vars, mainVars
<1> QED
  BY <1>1, <1>2 DEF Next

LEMMA PendNext == TypeInv /\ OwnInv /\ OwnInv' /\ PendInv /\ [Next]_vars => PendInv'
<1> SUFFICES ASSUME TypeInv, OwnInv, OwnInv', PendInv, [Next]_vars PROVE PendInv'
  OBVIOUS
<1>0. cell \in [Reqs -> Cell] /\ requests \subseteq Reqs
  BY DEF TypeInv, TypeOK
<1>1. ASSUME NEW r \in Reqs, QueueNew(r) PROVE PendInv'
  <2>1. /\ cell'[r].ip = NextHop[mpkt]
        /\ \A q \in requests : q # r => cell'[q].ip = cell[q].ip
        /\ requests' = requests \cup {r}
        /\ mpc = "queue" /\ mpc' = "check" /\ mreq' = r /\ mpkt' = mpkt
        /\ entries' = entries
    BY <1>0, <1>1 DEF QueueNew, NewReq
  <2>2. \A q \in requests : cell[q].ip # NextHop[mpkt] /\ q # r
    BY <1>1 DEF QueueNew, Pending, OwnInv, RequestOwnership
  <2>3. ResolvedNotPending'
    BY <2>1, <2>2, SameMatches DEF PendInv, ResolvedNotPending
  <2>4. OneRequestPerIP'
    BY <2>1, <2>2 DEF PendInv, OneRequestPerIP
  <2> QED
    BY <2>1, <2>3, <2>4 DEF PendInv, PointerNotRecycled
<1>2. ASSUME NEW ip, NEW mac, InsertUnasked(ip, mac) PROVE PendInv'
  <2>1. UNCHANGED <<requests, cell, mpc>> /\ mpc = "idle" /\ \A q \in requests : cell[q].ip # ip
    BY <1>2 DEF InsertUnasked, Pending, mainVars
  <2>2. \A s \in Slots : entries'[s] # None => entries'[s] = entries[s] \/ entries'[s].ip = ip
    BY <1>2 DEF InsertUnasked, StoreMapping
  <2>3. ResolvedNotPending'
    BY <2>1, <2>2 DEF PendInv, ResolvedNotPending, Matches
  <2> QED
    BY <2>1, <2>3 DEF PendInv, OneRequestPerIP, PointerNotRecycled
<1>3. ASSUME NEW ip, NEW mac, InsertAnswer(ip, mac) PROVE PendInv'
  <2>1. PICK r \in Pending(ip) : requests' = requests \ {r}
    BY <1>3 DEF InsertAnswer
  <2>2. cell' = cell /\ mpc' = "drain" /\ \A q \in requests' : cell[q].ip # ip
    BY <1>3, <2>1 DEF InsertAnswer, Pending, PendInv, OneRequestPerIP
  <2>3. \A s \in Slots : entries'[s] # None => entries'[s] = entries[s] \/ entries'[s].ip = ip
    BY <1>3 DEF InsertAnswer, StoreMapping
  <2>4. ResolvedNotPending'
    BY <2>1, <2>2, <2>3 DEF PendInv, ResolvedNotPending, Matches
  <2> QED
    BY <2>1, <2>2, <2>4 DEF PendInv, OneRequestPerIP, PointerNotRecycled
<1>4. ASSUME \A r \in Reqs : ~ QueueNew(r),
             \A ip, mac : ~ InsertUnasked(ip, mac) /\ ~ InsertAnswer(ip, mac)
      PROVE  PendInv'
  <2>1. Quiet
    BY <1>4, QuietSteps
  <2>2. ResolvedNotPending' /\ OneRequestPerIP'
    BY <2>1, PendQuiet
  <2>3. PointerNotRecycled'
    <3> SUFFICES ASSUME mpc' \in Window, mreq' \in live'
                 PROVE  mreq' \in requests' /\ cell'[mreq'].ip = NextHop[mpkt']
      BY DEF PointerNotRecycled, Window
    <3>1. mreq' \in requests'
      BY DEF OwnInv, RequestOwnership, Answered, Window
    <3>2. CASE mpc \in Window /\ UNCHANGED <<mreq, mpkt>>
      BY <3>1, <3>2, <2>1 DEF Quiet, PendInv, PointerNotRecycled, Window, OwnInv,
                              RequestOwnership
    <3>3. ASSUME NEW r \in Reqs, QueueOn(r) PROVE cell'[mreq'].ip = NextHop[mpkt']
      BY <3>1, <3>3, <2>1 DEF QueueOn, Pending, Quiet
    <3> QED
      BY <1>4, <3>1, <3>2, <3>3, MainMoves
  <2>4. mpc' = "queue" => Matches(NextHop[mpkt])' = {}
    <3>1. CASE mpc = "queue" /\ UNCHANGED mpkt
      BY <3>1, <2>1 DEF Quiet, PendInv
    <3>2. ASSUME NEW p \in Packets, LookupMiss(p) PROVE Matches(NextHop[mpkt])' = {}
      BY <3>2 DEF LookupMiss, Matches, cacheVars
    <3> QED
      BY <3>1, <3>2, MainMoves
  <2> QED
    BY <2>2, <2>3, <2>4 DEF PendInv
<1> QED
  BY <1>1, <1>2, <1>3, <1>4

\* For any number of slots, hosts and packets: a packet never waits for an
\* address the cache knows, there is one request per address, and the pointer
\* used outside the mutex never names the request of another address.
THEOREM QueueConsistent ==
  Spec => [](ResolvedNotPending /\ OneRequestPerIP /\ PointerNotRecycled)
<1>1. Spec => [](TypeInv /\ OwnInv)
  <2>1. Spec => []TypeInv
    BY TypeCorrect, PTL
  <2>2. TypeInv /\ OwnInv /\ [Next]_vars => OwnInv'
    BY OwnNext
  <2> QED
    BY OwnInit, <2>1, <2>2, PTL DEF Spec
<1>2. TypeInv /\ OwnInv /\ OwnInv' /\ PendInv /\ [Next]_vars => PendInv'
  BY PendNext
<1>3. PendInv => ResolvedNotPending /\ OneRequestPerIP /\ PointerNotRecycled
  BY DEF PendInv
<1> QED
  BY PendInit, <1>1, <1>2, <1>3, PTL DEF Spec

-----------------------------------------------------------------------------
(* Counting the ARP requests sent for a request.                           *)

\* times_sent as it will be when the sweeper's increment under way is stored
Count(r) ==
    IF spc \in {"sent", "load"} /\ cur = r THEN cell[r].times + 1
    ELSE IF spc = "store" /\ cur = r THEN tmp + 1
    ELSE cell[r].times

\* The main thread has sent an ARP request for r that it has not counted yet.
MainAsked(r) == mpc \in {"setsent", "settimes"} /\ mreq = r

\* The main thread has not written times_sent of r, or is about to.
Fresh(r) == cell[r].times = 0 \/ (mpc \in {"ask", "setsent", "settimes"} /\ mreq = r)

\* times_sent never exceeds the ARP requests sent.  Until the main thread has
\* written it, it also lags behind them by at most the main thread's own; that
\* one write can throw away at most MaxTries of them.
CountOK(r) ==
    /\ Count(r) <= asked[r]
    /\ asked[r] <= MaxTries + Count(r)
    /\ Fresh(r) => asked[r] <= Count(r) + (IF MainAsked(r) THEN 1 ELSE 0)
    /\ MainAsked(r) => asked[r] >= IF spc \in {"sent", "load"} /\ cur = r THEN 2 ELSE 1

CountInv ==
    /\ \A r \in live : CountOK(r)
    /\ \A r \in Reqs \ live : asked[r] = 0
    /\ \A r \in requests : cell[r].packets # <<>>
    /\ NoEarlyGiveUp

LEMMA CountInit == Init => CountInv
  BY DEF Init, CountInv, NoEarlyGiveUp

\* The steps that count nothing: the sweeper stands still, and the main thread
\* does not change whether it is about to ask, or has asked, on behalf of r.
LEMMA CountQuiet ==
  ASSUME CountInv, requests' \subseteq requests,
         UNCHANGED <<live, asked, spc, cur, tmp>>,
         \A r \in Reqs : /\ cell'[r].times = cell[r].times
                         /\ cell[r].packets # <<>> => cell'[r].packets # <<>>
                         /\ MainAsked(r)' <=> MainAsked(r)
                         /\ Fresh(r)' => Fresh(r),
         requests \subseteq Reqs, live \subseteq Reqs
  PROVE  CountInv'
<1>1. \A r \in live : Count(r)' = Count(r)
  BY DEF Count
<1>2. \A r \in live' : CountOK(r)'
  BY <1>1 DEF CountInv, CountOK
<1> QED
  BY <1>2 DEF CountInv, NoEarlyGiveUp

LEMMA CountNext == TypeInv /\ TypeInv' /\ OwnInv /\ OwnInv' /\ CountInv /\ [Next]_vars => CountInv'
<1> SUFFICES ASSUME TypeInv, TypeInv', OwnInv, OwnInv', CountInv, [Next]_vars
             PROVE  CountInv'
  OBVIOUS
<1>0. /\ cell \in [Reqs -> Cell] /\ asked \in [Reqs -> Nat] /\ tmp \in Nat /\ tmp < MaxTries
      /\ requests \subseteq Reqs /\ live \subseteq Reqs /\ requests \subseteq live
      /\ MaxTries \in Nat /\ MaxTries >= 2
      /\ \A q \in Reqs : cell[q].times \in Nat /\ cell[q].times <= MaxTries
  <2>1. cell \in [Reqs -> Cell]
    BY DEF TypeInv, TypeOK
  <2>2. \A q \in Reqs : cell[q].times \in 0..MaxTries
    BY <2>1 DEF Cell
  <2> QED
    BY <2>1, <2>2, SizesAssumption DEF TypeInv, TypeOK, OwnInv, RequestOwnership
<1>00. lock = (IF spc = "sleep" THEN None ELSE "sweeper") /\ None \notin {"main", "sweeper"}
  BY AddressAssumption DEF TypeInv
<1>1. ASSUME NEW p \in Packets, LookupHit(p) \/ LookupMiss(p) PROVE CountInv'
  <2>1. /\ UNCHANGED <<requests, cell, live, asked, spc, cur, tmp>>
        /\ mpc = "idle" /\ mpc' \in {"hit", "queue"}
    BY <1>1 DEF LookupHit, LookupMiss, Arrives, cacheVars, sweepVars
  <2> QED
    BY <1>0, <2>1, CountQuiet DEF MainAsked, Fresh
<1>2. CASE SendForwarded
  BY <1>0, <1>2, CountQuiet DEF SendForwarded, MainReturns, cacheVars, sweepVars,
                                MainAsked, Fresh
<1>3. ASSUME NEW r \in Reqs, QueueNew(r) PROVE CountInv'
  <2>1. /\ spc = "sleep" /\ spc' = "sleep" /\ UNCHANGED <<cur, tmp, asked>>
        /\ mpc' = "check" /\ mpc = "queue" /\ mreq' = r
        /\ live' = live \cup {r} /\ requests' = requests \cup {r} /\ r \notin live
    BY <1>3, <1>00 DEF QueueNew, CanLock, sweepVars
  <2>2. /\ cell'[r].times = 0 /\ cell'[r].packets = <<mpkt>>
        /\ \A q \in Reqs : q # r => cell'[q] = cell[q]
    BY <1>0, <1>3 DEF QueueNew, NewReq
  <2>3. asked[r] = 0
    BY <2>1 DEF CountInv
  <2>4. CountOK(r)'
    BY <1>0, <2>1, <2>2, <2>3 DEF CountOK, Count, Fresh, MainAsked
  <2>5. ASSUME NEW q \in live PROVE CountOK(q)'
    BY <1>0, <2>1, <2>2, <2>5 DEF CountInv, CountOK, Count, Fresh, MainAsked
  <2>6. \A q \in requests' : cell'[q].packets # <<>>
    <3>1. <<mpkt>> # <<>>
      OBVIOUS
    <3>2. \A q \in requests : cell[q].packets # <<>>
      BY DEF CountInv
    <3> QED
      BY <1>0, <2>1, <2>2, <3>1, <3>2
  <2> QED
    BY <1>0, <2>1, <2>4, <2>5, <2>6 DEF CountInv, NoEarlyGiveUp
<1>4. ASSUME NEW r \in Reqs, QueueOn(r) PROVE CountInv'
  <2>1. mpkt \in Packets /\ cell' = PushPacket(r, mpkt)
    BY <1>4 DEF QueueOn, TypeInv
  <2>2. \A q \in Reqs : /\ cell'[q].times = cell[q].times
                        /\ q # r => cell'[q].packets = cell[q].packets
    BY <1>0, <2>1, PushFact
  <2>3. cell'[r].packets # <<>>
    <3>1. cell'[r].packets = <<mpkt>> \o cell[r].packets
      BY <1>0, <2>1, PushFact
    <3>2. cell[r].packets \in Seq(Packets)
      BY <1>0 DEF Cell
    <3> QED
      BY <2>1, <3>1, <3>2, SingletonSeq, ConcatProperties
  <2> QED
    BY <1>0, <1>4, <2>2, <2>3, CountQuiet DEF QueueOn, sweepVars, MainAsked, Fresh
<1>5. CASE ReadTimes
  <2>1. mpc = "check" /\ UNCHANGED <<cacheVars, sweepVars, asked>>
    BY <1>5 DEF ReadTimes
  <2>2. CASE mpc' = "ask" /\ mreq' = mreq
    <3>1. mreq \in live => cell[mreq].times = 0
      BY <1>5, <2>2 DEF ReadTimes, MainReturns
    <3>2. \A r \in live : CountOK(r)'
      BY <1>0, <2>1, <2>2, <3>1 DEF CountInv, CountOK, Count, Fresh, MainAsked, cacheVars, sweepVars
    <3> QED
      BY <2>1, <3>2 DEF CountInv, NoEarlyGiveUp, cacheVars, sweepVars
  <2>3. CASE MainReturns
    BY <1>0, <2>1, <2>3, CountQuiet DEF MainReturns, cacheVars, sweepVars, MainAsked, Fresh
  <2> QED
    BY <1>5, <2>2, <2>3 DEF ReadTimes
<1>6. CASE SendArpRequest
  <2>1. /\ mpc = "ask" /\ mpc' = "setsent" /\ mreq' = mreq /\ mreq \in Reqs
        /\ UNCHANGED <<cell, live, requests, spc, cur, tmp>>
        /\ \A q \in live : asked'[q] = IF q = mreq THEN asked[q] + 1 ELSE asked[q]
        /\ \A q \in Reqs \ live : asked'[q] = asked[q]
    BY <1>0, <1>6 DEF SendArpRequest, TypeInv, Window, cacheVars, sweepVars
  <2>2. ASSUME NEW r \in live PROVE CountOK(r)'
    BY <1>0, <2>1, <2>2 DEF CountInv, CountOK, Count, Fresh, MainAsked
  <2>3. NoEarlyGiveUp'
    BY <1>0, <2>1 DEF CountInv, NoEarlyGiveUp, OwnInv, RequestOwnership
  <2> QED
    BY <2>1, <2>2, <2>3 DEF CountInv
<1>7. CASE WriteSent
  <2>1. mreq \in Reqs /\ (cell' = SetAge(mreq, 0) \/ cell' = cell) /\ 0 \in 0..1
    BY <1>7 DEF WriteSent, TypeInv, Window
  <2>2. \A q \in Reqs : cell'[q].times = cell[q].times /\ cell'[q].packets = cell[q].packets
    BY <1>0, <2>1, SetAgeFact
  <2> QED
    BY <1>0, <1>7, <2>2, CountQuiet DEF WriteSent, sweepVars, MainAsked, Fresh
<1>8. CASE WriteTimes
  <2>1. /\ mreq \in Reqs /\ 1 \in 0..MaxTries /\ mpc = "settimes" /\ mpc' = "idle"
        /\ UNCHANGED <<live, requests, asked, spc, cur, tmp>>
        /\ cell' = IF mreq \in live THEN SetTimes(mreq, 1) ELSE cell
    BY <1>0, <1>8 DEF WriteTimes, MainReturns, TypeInv, Window, sweepVars
  <2>2. \A q \in live : /\ cell'[q].times = IF q = mreq THEN 1 ELSE cell[q].times
                        /\ cell'[q].packets = cell[q].packets
    BY <1>0, <2>1, SetTimesFact
  <2>3. ASSUME NEW r \in live PROVE CountOK(r)'
    <3>1. CASE r = mreq
      <4>1. /\ asked[r] <= Count(r) + 1 /\ Count(r) <= asked[r]
            /\ asked[r] >= IF spc \in {"sent", "load"} /\ cur = r THEN 2 ELSE 1
        BY <2>1, <3>1 DEF CountInv, CountOK, Fresh, MainAsked
      <4>2. Count(r) <= MaxTries
        BY <1>0, <2>3, SizesAssumption DEF Count, TypeInv
      <4> QED
        BY <1>0, <2>1, <2>2, <3>1, <4>1, <4>2 DEF CountOK, Count, Fresh, MainAsked
    <3>2. CASE r # mreq
      BY <1>0, <2>1, <2>2, <3>2 DEF CountInv, CountOK, Count, Fresh, MainAsked
    <3> QED
      BY <3>1, <3>2
  <2> QED
    BY <1>0, <2>1, <2>2, <2>3 DEF CountInv, NoEarlyGiveUp
<1>9. ASSUME NEW ip, NEW mac, InsertUnasked(ip, mac) \/ InsertAnswer(ip, mac) PROVE CountInv'
  BY <1>0, <1>9, CountQuiet DEF InsertUnasked, InsertAnswer, mainVars, sweepVars,
                                MainAsked, Fresh
<1>10. CASE SendQueued
  BY <1>0, <1>10, CountQuiet DEF SendQueued, cacheVars, sweepVars, MainAsked, Fresh
<1>11. ASSUME NEW r \in Reqs, Destroy(r), UNCHANGED tmp,
              \A q \in live : q # r => (Fresh(q)' => Fresh(q)) /\ (MainAsked(q)' <=> MainAsked(q)),
              \/ spc' = "walk" /\ spc = "destroy" /\ cur = r
              \/ spc' = "sleep" /\ spc = "sleep"
       PROVE  CountInv'
  <2>1. /\ live' = live \ {r} /\ requests' = requests \ {r}
        /\ \A q \in Reqs : q # r => cell'[q] = cell[q] /\ asked'[q] = asked[q]
        /\ asked'[r] = 0
    BY <1>0, <1>11 DEF Destroy
  <2>2. ASSUME NEW q \in live' PROVE CountOK(q)'
    <3>1. Count(q)' = Count(q)
      BY <1>0, <1>11, <2>1, <2>2 DEF Count
    <3> QED
      BY <1>0, <1>11, <2>1, <2>2, <3>1 DEF CountInv, CountOK
  <2> QED
    BY <1>0, <1>11, <2>1, <2>2 DEF CountInv, NoEarlyGiveUp
<1>12. CASE DestroyAnswered
  <2>1. /\ mreq \in Reqs /\ Destroy(mreq) /\ UNCHANGED tmp
        /\ spc = "sleep" /\ spc' = "sleep" /\ mpc = "drain" /\ mpc' = "idle"
    BY <1>12, <1>00 DEF DestroyAnswered, MainReturns, CanLock, TypeInv, sweepVars
  <2>2. \A q \in live : q # mreq => (Fresh(q)' => Fresh(q)) /\ (MainAsked(q)' <=> MainAsked(q))
    BY <1>0, <2>1 DEF Fresh, MainAsked, Destroy
  <2> QED
    BY <1>11, <2>1, <2>2
<1>13. CASE SweepStart
  <2>1. \A r \in live : CountOK(r)'
    BY <1>0, <1>13 DEF SweepStart, CountInv, CountOK, Count, Fresh, MainAsked, mainVars
  <2> QED
    BY <1>13, <2>1 DEF SweepStart, CountInv, NoEarlyGiveUp
<1>14. ASSUME NEW r \in Reqs, Visit(r) PROVE CountInv'
  <2>1. \A q \in live : CountOK(q)'
    BY <1>0, <1>14 DEF Visit, CountInv, CountOK, Count, Fresh, MainAsked, cacheVars, mainVars
  <2> QED
    BY <1>14, <2>1 DEF Visit, CountInv, NoEarlyGiveUp, cacheVars
<1>15. CASE CheckTimes
  <2>1. \A q \in live : CountOK(q)'
    BY <1>0, <1>15 DEF CheckTimes, CountInv, CountOK, Count, Fresh, MainAsked, cacheVars, mainVars
  <2>2. NoEarlyGiveUp'
    <3>1. cur \in live
      BY <1>0, <1>15 DEF CheckTimes, OwnInv, RequestOwnership
    <3>2. cell[cur].times <= asked[cur]
      BY <3>1, <1>15 DEF CheckTimes, CountInv, CountOK, Count
    <3> QED
      BY <1>0, <1>15, <3>1, <3>2 DEF CheckTimes, NoEarlyGiveUp
  <2> QED
    BY <1>15, <2>1, <2>2 DEF CheckTimes, CountInv, cacheVars
<1>16. CASE Resend
  <2>1. cur \in requests /\ cell[cur].packets # <<>>
    BY <1>16 DEF Resend, OwnInv, RequestOwnership, CountInv
  <2>2. \A q \in Reqs : asked'[q] = IF q = cur THEN asked[q] + 1 ELSE asked[q]
    BY <1>0, <1>16, <2>1 DEF Resend
  <2>3. ASSUME NEW q \in live PROVE CountOK(q)'
    BY <1>0, <1>16, <2>2, <2>3 DEF Resend, CountInv, CountOK, Count, Fresh, MainAsked, cacheVars,
                                   mainVars
  <2> QED
    BY <1>0, <1>16, <2>1, <2>2, <2>3 DEF Resend, CountInv, NoEarlyGiveUp, cacheVars
<1>17. CASE SetSent
  <2>1. cur \in Reqs /\ cell' = SetAge(cur, nowAge) /\ nowAge \in 0..1
    BY <1>17 DEF SetSent, TypeInv, TypeOK
  <2>2. \A q \in Reqs : cell'[q].times = cell[q].times /\ cell'[q].packets = cell[q].packets
    BY <1>0, <2>1, SetAgeFact
  <2>3. ASSUME NEW q \in live PROVE CountOK(q)'
    BY <1>0, <1>17, <2>2, <2>3 DEF SetSent, CountInv, CountOK, Count, Fresh, MainAsked, mainVars
  <2> QED
    BY <1>0, <1>17, <2>2, <2>3 DEF SetSent, CountInv, NoEarlyGiveUp
<1>18. CASE LoadTimes
  <2>1. ASSUME NEW q \in live PROVE CountOK(q)'
    BY <1>0, <1>18, <2>1 DEF LoadTimes, CountInv, CountOK, Count, Fresh, MainAsked, cacheVars,
                             mainVars
  <2> QED
    BY <1>18, <2>1 DEF LoadTimes, CountInv, NoEarlyGiveUp, cacheVars
<1>19. CASE StoreTimes
  <2>1. cur \in Reqs /\ cell' = SetTimes(cur, tmp + 1) /\ tmp + 1 \in 0..MaxTries
    BY <1>0, <1>19 DEF StoreTimes, TypeInv, TypeOK
  <2>2. \A q \in Reqs : /\ cell'[q].times = IF q = cur THEN tmp + 1 ELSE cell[q].times
                        /\ cell'[q].packets = cell[q].packets
    BY <1>0, <2>1, SetTimesFact
  <2>3. ASSUME NEW q \in live PROVE CountOK(q)'
    BY <1>0, <1>19, <2>2, <2>3 DEF StoreTimes, CountInv, CountOK, Count, Fresh, MainAsked, mainVars
  <2> QED
    BY <1>0, <1>19, <2>2, <2>3 DEF StoreTimes, CountInv, NoEarlyGiveUp
<1>20. CASE HostUnreachable
  <2>1. ASSUME NEW q \in live PROVE CountOK(q)'
    BY <1>0, <1>20, <2>1 DEF HostUnreachable, CountInv, CountOK, Count, Fresh, MainAsked,
                             cacheVars, mainVars
  <2> QED
    BY <1>20, <2>1 DEF HostUnreachable, CountInv, NoEarlyGiveUp, cacheVars
<1>21. CASE DestroyExhausted
  BY <1>21, <1>11, <1>0 DEF DestroyExhausted, Fresh, MainAsked, Destroy, mainVars, TypeInv
<1>22. CASE SweepEnd
  <2>1. ASSUME NEW q \in live PROVE CountOK(q)'
    BY <1>0, <1>22, <2>1 DEF SweepEnd, CountInv, CountOK, Count, Fresh, MainAsked, cacheVars,
                             mainVars
  <2> QED
    BY <1>22, <2>1 DEF SweepEnd, CountInv, NoEarlyGiveUp, cacheVars
<1>23. CASE Tick
  <2>1. \A q \in Reqs : cell'[q].times = cell[q].times /\ cell'[q].packets = cell[q].packets
    BY <1>0, <1>23, AgedFact DEF Tick
  <2> QED
    BY <1>0, <1>23, <2>1, CountQuiet DEF Tick, mainVars, MainAsked, Fresh
<1>24. CASE UNCHANGED vars
  BY <1>0, <1>24, CountQuiet DEF vars, cacheVars, mainVars, sweepVars, MainAsked, Fresh
<1> QED
  BY <1>1, <1>2, <1>3, <1>4, <1>5, <1>6, <1>7, <1>8, <1>9, <1>10, <1>12, <1>13, <1>14, <1>15,
     <1>16, <1>17, <1>18, <1>19, <1>20, <1>21, <1>22, <1>23, <1>24
  DEF Next, Main, Sweeper

\* However the two threads interleave, a request is given up only after at
\* least MaxTries ARP requests were sent for it, and never more than
\* 2 * MaxTries are sent.
THEOREM RetriesBounded == Spec => [](NoEarlyGiveUp /\ AskedBounded)
<1>1. Spec => [](TypeInv /\ OwnInv)
  <2>1. Spec => []TypeInv
    BY TypeCorrect, PTL
  <2>2. TypeInv /\ OwnInv /\ [Next]_vars => OwnInv'
    BY OwnNext
  <2> QED
    BY OwnInit, <2>1, <2>2, PTL DEF Spec
<1>2. TypeInv /\ TypeInv' /\ OwnInv /\ OwnInv' /\ CountInv /\ [Next]_vars => CountInv'
  BY CountNext
<1>3. TypeInv /\ CountInv => NoEarlyGiveUp /\ AskedBounded
  <2> SUFFICES ASSUME TypeInv, CountInv PROVE AskedBounded
    BY DEF CountInv
  <2>1. ASSUME NEW r \in live PROVE Count(r) \in Nat /\ Count(r) <= MaxTries /\ asked[r] \in Nat
    BY <2>1, SizesAssumption DEF Count, TypeInv, TypeOK, Cell
  <2> QED
    BY <2>1, SizesAssumption DEF AskedBounded, CountInv, CountOK
<1> QED
  BY CountInit, <1>1, <1>2, <1>3, PTL DEF Spec
=============================================================================
