------------------------------ MODULE Checksum ------------------------------
(***************************************************************************)
(* The two checksum functions of the router: ip_checksum (sr_router.c),    *)
(* used for everything the main thread sends, and cksum (sr_utils.c), used *)
(* for the ICMP messages of the sweeper.  A header is a sequence of bytes; *)
(* a 16-bit word is two of them, in the order of the host where the code   *)
(* reads memory as uint16_t.  Byte is the number of values of a byte: 256  *)
(* in the code, smaller for TLC; no step depends on it.                    *)
(***************************************************************************)
EXTENDS Integers, Sequences

CONSTANTS
    Byte,     \* values of a byte
    Lengths,  \* lengths of headers and messages, in bytes
    Orders    \* byte orders of the host: a subset of {"little", "big"}

ASSUME ByteAssumption == Byte \in Nat /\ Byte >= 2

Word == Byte * Byte
Bytes == 0..(Byte - 1)

\* The checksum itself is part of the header, and no message is so long that the
\* 32 bits of sum are not enough for its words.
ASSUME LengthsAssumption == \A n \in Lengths : n \in Nat /\ n >= 2 /\ n <= 2 * Word

VARIABLES
    order,   \* byte order of the host
    packet,  \* the header, its checksum in the first two bytes
    filler   \* who has filled in the checksum, "none" before

vars == <<order, packet, filler>>

-----------------------------------------------------------------------------
Hi(w) == w \div Byte
Lo(w) == w % Byte
Net(b1, b2) == b1 * Byte + b2

\* *(uint16_t *) on bytes b1, b2
Load(b1, b2) == IF order = "big" THEN Net(b1, b2) ELSE Net(b2, b1)

\* The bytes of a uint16_t that is stored
Store(w) == IF order = "big" THEN <<Hi(w), Lo(w)>> ELSE <<Lo(w), Hi(w)>>

\* htons
Swap(w) == IF order = "big" THEN w ELSE Net(Lo(w), Hi(w))

\* Add the carries until 16 bits are left.
Fold(s) ==
    LET f[x \in Nat] == IF x < Word THEN x ELSE f[(x % Word) + (x \div Word)]
    IN  f[s]

\* The sum of the words of p; odd(b) stands for a last byte without partner.
SumWords(p, word(_, _), odd(_)) ==
    LET f[i \in 1..(Len(p) + 2)] ==
          CASE i > Len(p) -> 0
            [] i = Len(p) -> odd(p[i])
            [] OTHER      -> word(p[i], p[i + 1]) + f[i + 2]
    IN  f[1]

FaultyComplement(w) == Word - w \* two's complement
Complement(w) == (Word - 1) - w

\* Words are read in host order, and so is the odd byte.
ip_checksum(p) == LET last(b) == b IN Complement(Fold(SumWords(p, Load, last)))

\* an odd byte is taken for the low one
FaultyCksum(p) == LET last(b) == b IN Swap(Complement(Fold(SumWords(p, Net, last))))

\* Words are put together from bytes; a result of zero becomes all ones.
cksum(p) ==
    LET last(b) == b * Byte
        sum     == Swap(Complement(Fold(SumWords(p, Net, last))))
    IN  IF sum = 0 THEN Word - 1 ELSE sum

-----------------------------------------------------------------------------
\* the old checksum is not cleared
FaultyCleared(p) == p

\* ip_sum = 0
Cleared(p) == <<0, 0>> \o SubSeq(p, 3, Len(p))

WithSum(p, w) == Store(w) \o SubSeq(p, 3, Len(p))

\* A packet as it was received or built, whatever its checksum
Init ==
    /\ order \in Orders
    /\ packet \in UNION {[1..n -> Bytes] : n \in Lengths}
    /\ filler = "none"

\* forward_ip_packet, send_icmp_echo_reply and send_icmp_t3:
\* ip_sum = htons(ip_checksum(...))
MainFills ==
    /\ packet' = WithSum(packet, Swap(ip_checksum(Cleared(packet))))
    /\ filler' = "main"
    /\ UNCHANGED order

\* send_icmp_host_unreachable: ip_sum = cksum(...)
SweeperFills ==
    /\ packet' = WithSum(packet, cksum(Cleared(packet)))
    /\ filler' = "sweeper"
    /\ UNCHANGED order

Next == MainFills \/ SweeperFills

Spec == Init /\ [][Next]_vars

-----------------------------------------------------------------------------
(* The reference: RFC 791 asks the receiver to add the words of the header *)
(* as they are on the wire, with end-around carry, and to get all ones.    *)

WireSum(p) == LET last(b) == b * Byte IN SumWords(p, Net, last)
Verifies(p) == WireSum(p) % (Word - 1) = 0 /\ WireSum(p) > 0

\* Headers are sequences of bytes with room for the checksum.
TypeOK ==
    /\ order \in Orders
    /\ packet \in Seq(Bytes) /\ Len(packet) \in Lengths
    /\ filler \in {"none", "main", "sweeper"}

\* The ICMP messages of the sweeper arrive with a checksum the receiver accepts,
\* for every content, length and byte order of the host, a sum of zero and odd
\* lengths included.
SweeperVerifies == filler = "sweeper" => Verifies(packet)

\* On a host whose byte order is that of the network the main thread's
\* checksums are right too, for even lengths.
MainVerifiesBig ==
    filler = "main" /\ order = "big" /\ Len(packet) % 2 = 0 => Verifies(packet)
=============================================================================
