------------------------------- MODULE MCLpm -------------------------------
(***************************************************************************)
(* Addresses of three bits, all prefix masks, all tables of up to three    *)
(* routes whose destination has no bits outside its mask.                  *)
(***************************************************************************)
EXTENDS Lpm, Bitwise

MCAddr == 0..7
MCAnd(x, y) == x & y
Prefixes == {r \in [dest : MCAddr, mask : {0, 4, 6, 7}] : r.dest & r.mask = r.dest}
MCTables == UNION {[1..n -> Prefixes] : n \in 0..3}
=============================================================================
