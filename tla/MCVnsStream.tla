---------------------------- MODULE MCVnsStream -----------------------------
(***************************************************************************)
(* A length field of two octets, so that it can be split, messages of      *)
(* three to five octets of which the longest is refused, and a buffer that *)
(* a message and a half fills.                                             *)
(***************************************************************************)
EXTENDS VnsStream
=============================================================================
