-------------------------------- MODULE Sha1 --------------------------------
(***************************************************************************)
(* The message scheduling of sha1.c: how the octets given to SHA1Input,    *)
(* in calls of any length, become the blocks that are hashed, with the     *)
(* padding and the 64-bit length that SHA1Result adds.                     *)
(*                                                                         *)
(* The compression function is abstracted: the digest is a function of the *)
(* sequence of blocks processed since SHA1Reset, and hashed is that        *)
(* sequence.  The sizes are parameters: BlockSize is 64 in the code, and a *)
(* length word has four octets of LenBase values (256 in the code).        *)
(***************************************************************************)
EXTENDS Integers, Sequences

CONSTANTS
    BlockSize,   \* octets of a block
    LenBase,     \* values of an octet of the length
    Data,        \* the octets a caller hashes: the message is a prefix
    Junk,        \* what the block holds before the first write
    None

ASSUME BlockAssumption == BlockSize \in Nat /\ BlockSize > 8
ASSUME LenAssumption == LenBase \in Nat /\ LenBase > 1 /\ LenBase % 2 = 0
ASSUME DataAssumption == Data \in Seq(Nat)
ASSUME NoneAssumption == None \notin Nat

\* Values of Length_Low and of Length_High (2^32 in the code)
Word == LenBase * LenBase * LenBase * LenBase

VARIABLES
    Message_Block,        \* the block, with what earlier blocks left in it
    Message_Block_Index,  \* where the next octet goes
    Length_Low,           \* length in bits, low word
    Length_High,          \* length in bits, high word
    Computed, Corrupted,  \* the flags, 0 or 1
    hashed,               \* the octets of the blocks processed since SHA1Reset
    input,                \* what SHA1Input has still to read of its argument
    offered,              \* octets offered since SHA1Reset (history)
    atResult,             \* offered at the first SHA1Result (history), or None
    ret                   \* what SHA1Result has just returned, or None

block == <<Message_Block, Message_Block_Index, hashed>>
flags == <<Computed, Corrupted>>
history == <<offered, atResult, ret>>
vars == <<block, Length_Low, Length_High, flags, input, history>>

\* The message so far
Message == SubSeq(Data, 1, offered)

\* A context after its first SHA1Reset: the block is not initialised.
Init ==
    /\ Message_Block_Index = 0 /\ Length_Low = 0 /\ Length_High = 0
    /\ Computed = 0 /\ Corrupted = 0 /\ hashed = <<>>
    /\ Message_Block = [k \in 0..BlockSize-1 |-> Junk]
    /\ input = <<>>
    /\ offered = 0 /\ atResult = None /\ ret = None

-----------------------------------------------------------------------------
\* Everything but the block is reset.
SHA1Reset ==
    /\ input = <<>>
    /\ Message_Block_Index' = 0 /\ Length_Low' = 0 /\ Length_High' = 0
    /\ Computed' = 0 /\ Corrupted' = 0 /\ hashed' = <<>>
    /\ offered' = 0 /\ atResult' = None /\ ret' = None
    /\ UNCHANGED <<Message_Block, input>>

\* SHA1Input up to its loop, with the next n octets of the data
SHA1Input(n) ==
    /\ input = <<>>
    /\ offered' = offered + n
    /\ ret' = None
    /\ IF n = 0 \/ (Computed = 0 /\ Corrupted = 0)
       THEN input' = SubSeq(Data, offered + 1, offered + n) /\ UNCHANGED Corrupted
       ELSE Corrupted' = 1 /\ UNCHANGED input
    /\ UNCHANGED <<block, Length_Low, Length_High, Computed, atResult>>

Octets(b) == [k \in 1..BlockSize |-> b[k - 1]]

\* the index is not reset
FaultyProcessBlock(b) ==
    /\ hashed' = hashed \o Octets(b)
    /\ Message_Block_Index' = BlockSize

\* SHA1ProcessMessageBlock on block b
ProcessBlock(b) ==
    /\ hashed' = hashed \o Octets(b)
    /\ Message_Block_Index' = 0

\* the high word is not advanced
FaultyCountOctet ==
    /\ Length_Low' = (Length_Low + 8) % Word
    /\ UNCHANGED <<Length_High, Corrupted>>

\* The 64-bit length in bits, in two words
CountOctet ==
    LET low  == (Length_Low + 8) % Word
        high == IF low = 0 THEN (Length_High + 1) % Word ELSE Length_High
    IN  /\ Length_Low' = low
        /\ Length_High' = high
        /\ Corrupted' = IF low = 0 /\ high = 0 THEN 1 ELSE Corrupted

\* One iteration of the loop of SHA1Input; when the message gets too long the
\* loop ends after it.
InputOctet ==
    /\ input # <<>>
    /\ Message_Block' = [Message_Block EXCEPT ![Message_Block_Index] = Head(input)]
    /\ CountOctet
    /\ IF Message_Block_Index + 1 = BlockSize
       THEN ProcessBlock(Message_Block')
       ELSE Message_Block_Index' = Message_Block_Index + 1 /\ UNCHANGED hashed
    /\ input' = IF Corrupted' = 1 THEN <<>> ELSE Tail(input)
    /\ UNCHANGED <<Computed, history>>

-----------------------------------------------------------------------------
(* SHA1PadMessage.  The length is in the last eight octets of a block.     *)

LenAt == BlockSize - 8

\* The j-th of the four octets of a length word, 0 the highest
WordOctet(w, j) ==
    (w \div (CASE j = 0 -> LenBase * LenBase * LenBase
               [] j = 1 -> LenBase * LenBase
               [] j = 2 -> LenBase
               [] j = 3 -> 1)) % LenBase

LengthOctet(k) == IF k < LenAt + 4 THEN WordOctet(Length_High, k - LenAt)
                                   ELSE WordOctet(Length_Low, k - LenAt - 4)

\* What the message block holds, then 0x80, then zeros
Closed(i) == [k \in 0..BlockSize-1 |-> CASE k < i -> Message_Block[k]
                                         [] k = i -> 128
                                         [] k > i -> 0]

WithLength(b) == [k \in 0..BlockSize-1 |-> IF k < LenAt THEN b[k] ELSE LengthOctet(k)]

\* In a block that holds more than limit octets, 0x80 and the length do not fit:
\* it is closed and processed, and a block of zeros takes the length.
PadAbove(limit) ==
    IF Message_Block_Index > limit
    THEN LET last == WithLength([k \in 0..BlockSize-1 |-> 0])
         IN  /\ hashed' = hashed \o Octets(Closed(Message_Block_Index)) \o Octets(last)
             /\ Message_Block' = last
             /\ Message_Block_Index' = 0
    ELSE /\ Message_Block' = WithLength(Closed(Message_Block_Index))
         /\ ProcessBlock(Message_Block')

\* one octet too few is kept for 0x80 and the length
FaultySHA1PadMessage == PadAbove(LenAt)

\* The limit is 55 in the code.
SHA1PadMessage == PadAbove(LenAt - 1)

\* a corrupted context is padded before 0 is returned
FaultySHA1Result ==
    /\ input = <<>>
    /\ ret' = IF Corrupted = 1 THEN 0 ELSE 1
    /\ atResult' = IF atResult = None THEN offered ELSE atResult
    /\ IF Corrupted = 1 \/ Computed = 0
       THEN SHA1PadMessage /\ Computed' = 1
       ELSE UNCHANGED <<block, Computed>>
    /\ UNCHANGED <<Length_Low, Length_High, Corrupted, input, offered>>

SHA1Result ==
    /\ input = <<>>
    /\ ret' = IF Corrupted = 1 THEN 0 ELSE 1
    /\ atResult' = IF atResult = None THEN offered ELSE atResult
    /\ IF Corrupted = 0 /\ Computed = 0
       THEN SHA1PadMessage /\ Computed' = 1
       ELSE UNCHANGED <<block, Computed>>
    /\ UNCHANGED <<Length_Low, Length_High, Corrupted, input, offered>>

Next ==
    \/ SHA1Reset
    \/ \E n \in 0..(Len(Data) - offered) : SHA1Input(n)
    \/ InputOctet
    \/ SHA1Result

Spec == Init /\ [][Next]_vars

-----------------------------------------------------------------------------
(* Correctness properties.                                                 *)

\* Between two octets the index is inside the block: no write to Message_Block
\* is out of bounds, and the flags and length words are in their ranges.
TypeOK ==
    /\ DOMAIN Message_Block = 0..BlockSize-1
    /\ Message_Block_Index \in 0..BlockSize-1
    /\ Length_Low \in 0..Word-1 /\ Length_High \in 0..Word-1
    /\ Computed \in {0, 1} /\ Corrupted \in {0, 1}
    /\ Len(hashed) % BlockSize = 0
    /\ offered \in 0..Len(Data)
    /\ ret \in {0, 1, None}

\* What one unit of each of the eight octets of a number counts, the highest first
Places == LET b == LenBase IN
    <<Word * b * b * b, Word * b * b, Word * b, Word, b * b * b, b * b, b, 1>>

\* The padded message of the standard: 0x80, as few zeros as fill a block, and
\* the number of bits in eight octets, the highest first.
Padded(m) ==
    LET n == Len(m)
        zeros == (BlockSize - ((n + 9) % BlockSize)) % BlockSize
    IN  m \o <<128>> \o [k \in 1..zeros |-> 0]
          \o [k \in 1..8 |-> ((8 * n) \div Places[k]) % LenBase]

\* Input after a result, or a message of 2^64 bits or more
Misused == \/ atResult # None /\ offered > atResult
           \/ 8 * offered >= Word * Word

\* However the message is cut into SHA1Input calls and however often the result
\* is asked for, SHA1Result returns 1 with the digest of exactly the padded
\* message, and returns 0 exactly when the message was too long or continued
\* after its result: the digest of a truncated message is never handed out.
ResultCorrect ==
    ret # None => IF Misused THEN ret = 0
                             ELSE ret = 1 /\ hashed = Padded(Message)

\* The two length words never wrap unnoticed: in a context that is not corrupted
\* they are the number of bits read.
LengthExact ==
    Corrupted = 0 => Length_High * Word + Length_Low = 8 * (offered - Len(input))

\* A digest that was computed stays what it was, whatever is called on the
\* context, until SHA1Reset; so does the flag that says it was computed.
DigestStable ==
    [][Computed = 1 => SHA1Reset \/ UNCHANGED <<hashed, Computed>>]_vars
=============================================================================
