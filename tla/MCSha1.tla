------------------------------- MODULE MCSha1 -------------------------------
(***************************************************************************)
(* Blocks of 12 octets, of which the length takes 8, and length words of   *)
(* 16 values: a message fills up to four blocks with its padding, and 32   *)
(* octets are too many.  Every octet of the data is different.             *)
(***************************************************************************)
EXTENDS Sha1

CONSTANT MaxData

MCData == [k \in 1..MaxData |-> k]
=============================================================================
