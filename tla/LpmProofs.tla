----------------------------- MODULE LpmProofs -----------------------------
(***************************************************************************)
(* Longest prefix match is right for every routing table and every address,*)
(* of any length and width.                                                *)
(***************************************************************************)
EXTENDS Lpm, TLAPS

\* What the loop knows of the routes it has examined.  The parts about best
\* and best_mask make it inductive: the code never looks at the best route
\* again, only at its mask.
LoopInv ==
    /\ TypeOK
    /\ best = None => best_mask = 0
    /\ best # None => /\ best < pos
                      /\ best_mask = table[best].mask
                      /\ Covers(table[best])
    /\ \A j \in 1..(pos - 1) : Covers(table[j]) =>
          /\ table[j].mask <= best_mask
          /\ best # None /\ table[j].mask = best_mask => best <= j

\* The loop invariant holds when a lookup starts: nothing has been examined.
LEMMA LoopInit == Init => LoopInv
  BY AddrAssumption, TableAssumption, NoneAssumption
     DEF AddrAssumption, TableAssumption, NoneAssumption, Init, LoopInv, TypeOK

\* Each round of the loop, and the start of the next lookup, keep it.
LEMMA LoopStep == LoopInv /\ [Next]_vars => LoopInv'
<1> SUFFICES ASSUME LoopInv, [Next]_vars PROVE LoopInv'
  OBVIOUS
<1> USE AddrAssumption, NoneAssumption DEF AddrAssumption, NoneAssumption
<1>1. CASE Examine
  <2>1. pos \in 1..Len(table) /\ table[pos] \in Route
    BY <1>1 DEF Examine, LoopInv, TypeOK
  <2>2. /\ best_mask \in Nat /\ pos \in Nat /\ table[pos].mask \in Nat
        /\ best # None => best \in Nat /\ best < pos
        /\ \A j \in 1..(pos - 1) : table[j].mask \in Nat
    <3>1. \A j \in 1..Len(table) : table[j] \in Route
      BY DEF LoopInv, TypeOK
    <3>2. \A j \in 1..Len(table) : table[j].mask \in Nat
      BY <3>1 DEF Route
    <3>3. 1..(pos - 1) \subseteq 1..Len(table) /\ pos \in Nat
      BY <2>1 DEF LoopInv, TypeOK
    <3> QED
      BY <3>2, <3>3, <2>1 DEF LoopInv, TypeOK
  <2>3. CASE Covers(table[pos]) /\ Better(table[pos])
    <3>1. /\ best' = pos /\ best_mask' = table[pos].mask /\ pos' = pos + 1
          /\ table' = table /\ dst' = dst
      BY <1>1, <2>3 DEF Examine
    <3>2. TypeOK'
      BY <2>1, <3>1 DEF LoopInv, TypeOK, Route
    <3>3. \A r : Covers(r)' <=> Covers(r)
      BY <3>1 DEF Covers
    <3>4. best_mask < table[pos].mask
      BY <2>3 DEF Better
    <3>5. ASSUME NEW j \in 1..(pos' - 1), Covers(table[j])
          PROVE  /\ table[j].mask <= best_mask'
                 /\ table[j].mask = best_mask' => best' <= j
      <4>1. CASE j = pos
        BY <4>1, <2>2, <3>1
      <4>2. CASE j # pos
        <5>1. j \in 1..(pos - 1)
          BY <4>2, <3>1, <2>2
        <5>2. table[j].mask <= best_mask
          BY <5>1, <3>5 DEF LoopInv
        <5> QED
          BY <5>1, <5>2, <3>4, <3>1, <2>2
      <4> QED
        BY <4>1, <4>2
    <3> QED
      BY <3>1, <3>2, <3>3, <3>5, <2>1, <2>3 DEF LoopInv, Covers
  <2>4. CASE ~(Covers(table[pos]) /\ Better(table[pos]))
    <3>1. /\ best' = best /\ best_mask' = best_mask /\ pos' = pos + 1
          /\ table' = table /\ dst' = dst
      BY <1>1, <2>4 DEF Examine
    <3>2. TypeOK'
      BY <2>1, <3>1 DEF LoopInv, TypeOK
    <3>3. \A r : Covers(r)' <=> Covers(r)
      BY <3>1 DEF Covers
    <3>4. ASSUME NEW j \in 1..(pos' - 1), Covers(table[j])
          PROVE  /\ table[j].mask <= best_mask
                 /\ best # None /\ table[j].mask = best_mask => best <= j
      <4>1. CASE j = pos
        BY <4>1, <3>4, <2>2, <2>4 DEF Better
      <4>2. CASE j # pos
        <5>1. j \in 1..(pos - 1)
          BY <4>2, <3>1, <2>2
        <5> QED
          BY <5>1, <3>4 DEF LoopInv
      <4> QED
        BY <4>1, <4>2
    <3> QED
      BY <3>1, <3>2, <3>3, <3>4, <2>1 DEF LoopInv, Covers, TypeOK
  <2> QED
    BY <2>3, <2>4
<1>2. ASSUME NEW d \in Addr, Lookup(d) PROVE LoopInv'
  BY <1>2 DEF Lookup, LoopInv, TypeOK
<1>3. CASE UNCHANGED vars
  BY <1>3 DEF vars, LoopInv, TypeOK, Covers
<1> QED
  BY <1>1, <1>2, <1>3 DEF Next

\* The walk of lpm_lookup stays inside the routing table.
THEOREM LookupTyped == Spec => []TypeOK
<1>1. LoopInv => TypeOK
  BY DEF LoopInv
<1> QED
  BY <1>1, LoopInit, LoopStep, PTL DEF Spec

\* lpm_lookup returns the most specific route: the first one with the largest
\* mask among all routes of the table that cover the address.
THEOREM BestRoute == Spec => []MostSpecific
<1>1. LoopInv => MostSpecific
  BY NoneAssumption DEF NoneAssumption, LoopInv, MostSpecific, Found, TypeOK
<1> QED
  BY <1>1, LoopInit, LoopStep, PTL DEF Spec

\* lpm_lookup returns NULL only if no route covers the address, but for routes
\* whose mask is zero.
THEOREM NothingMissed == Spec => []NoRouteMissed
<1>1. LoopInv => NoRouteMissed
  <2> SUFFICES ASSUME LoopInv, NotFound, NEW j \in 1..Len(table), Covers(table[j])
               PROVE  table[j].mask = 0
    BY DEF NoRouteMissed
  <2>1. table[j] \in Route /\ j \in 1..(pos - 1)
    BY DEF LoopInv, TypeOK, NotFound
  <2>2. table[j].mask <= 0
    BY <2>1 DEF LoopInv, NotFound
  <2> QED
    BY <2>1, <2>2, AddrAssumption DEF AddrAssumption, Route
<1> QED
  BY <1>1, LoopInit, LoopStep, PTL DEF Spec
=============================================================================
