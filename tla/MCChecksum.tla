----------------------------- MODULE MCChecksum -----------------------------
(* Bytes of four values, and messages of four to six bytes. *)
EXTENDS Checksum

-----------------------------------------------------------------------------
\* PROJECT_README.md:225: "Decrements TTL and recalculates IP checksum (RFC 791
\* compliant)".  Violated on a little-endian host, where htons swaps the bytes
\* of a sum that was already in memory order.
MainVerifies == filler = "main" => Verifies(packet)
=============================================================================
