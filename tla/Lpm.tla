-------------------------------- MODULE Lpm --------------------------------
(***************************************************************************)
(* Longest prefix match: the loop of lpm_lookup (sr_router.c), which       *)
(* send_icmp_host_unreachable (sr_arpcache.c) repeats word for word.       *)
(* Addresses and masks are numbers in host order; the code compares        *)
(* ntohl(mask), and bitwise AND does not depend on the byte order.         *)
(***************************************************************************)
EXTENDS Integers, Sequences

CONSTANTS
    Addr,        \* IP addresses, and masks
    Tables,      \* routing tables
    BitAnd(_, _),  \* bitwise AND
    None         \* NULL

Route == [dest : Addr, mask : Addr]

ASSUME AddrAssumption == Addr \subseteq Nat /\ 0 \in Addr
ASSUME TableAssumption == Tables \subseteq Seq(Route)
ASSUME NoneAssumption == None \notin Nat

VARIABLES
    table,     \* sr->routing_table
    dst,       \* the address looked up
    pos,       \* the route rt points to; Len(table) + 1: NULL
    best,      \* the route best points to
    best_mask

vars == <<table, dst, pos, best, best_mask>>

Covers(r) == BitAnd(dst, r.mask) = BitAnd(r.dest, r.mask)

FaultyBetter(r) == r.mask >= best_mask \* the last of several equal routes
Better(r) == r.mask > best_mask

Init ==
    /\ table \in Tables
    /\ dst \in Addr
    /\ pos = 1
    /\ best = None
    /\ best_mask = 0

\* the loop ends at the first route that does not cover the address
FaultyExamine ==
    /\ pos <= Len(table)
    /\ pos' = IF Covers(table[pos]) THEN pos + 1 ELSE Len(table) + 1
    /\ IF Covers(table[pos]) /\ Better(table[pos])
       THEN best' = pos /\ best_mask' = table[pos].mask
       ELSE UNCHANGED <<best, best_mask>>
    /\ UNCHANGED <<table, dst>>

\* One round of the loop
Examine ==
    /\ pos <= Len(table)
    /\ pos' = pos + 1
    /\ IF Covers(table[pos]) /\ Better(table[pos])
       THEN best' = pos /\ best_mask' = table[pos].mask
       ELSE UNCHANGED <<best, best_mask>>
    /\ UNCHANGED <<table, dst>>

\* the walk starts before the head of the list
FaultyLookup(d) ==
    /\ pos > Len(table)
    /\ dst' = d
    /\ pos' = 0
    /\ best' = None
    /\ best_mask' = 0
    /\ UNCHANGED table

\* The next call
Lookup(d) ==
    /\ pos > Len(table)
    /\ dst' = d
    /\ pos' = 1
    /\ best' = None
    /\ best_mask' = 0
    /\ UNCHANGED table

Next == Examine \/ \E d \in Addr : Lookup(d)

Spec == Init /\ [][Next]_vars

-----------------------------------------------------------------------------
Found == pos > Len(table) /\ best # None
NotFound == pos > Len(table) /\ best = None

\* The loop's variables have the types of the C variables.
TypeOK ==
    /\ table \in Seq(Route)
    /\ dst \in Addr
    /\ pos \in 1..(Len(table) + 1)
    /\ best \in (1..Len(table)) \cup {None}
    /\ best_mask \in Addr

\* The route returned covers the address; no covering route has a larger mask
\* and the first of several such routes is taken, whatever the order of the
\* table.
MostSpecific ==
    Found =>
        /\ Covers(table[best])
        /\ \A j \in 1..Len(table) : Covers(table[j]) =>
              /\ table[j].mask <= table[best].mask
              /\ table[j].mask = table[best].mask => best <= j

\* Net unreachable is reported only for an address that no route but a default
\* route covers.
NoRouteMissed ==
    NotFound => \A j \in 1..Len(table) : Covers(table[j]) => table[j].mask = 0
=============================================================================
