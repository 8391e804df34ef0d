----------------------------- MODULE VnsStream ------------------------------
(***************************************************************************)
(* The octet streams below the router's messages: how the messages that    *)
(* VnsSession takes for granted are framed, and the packets in the log     *)
(* file.  A message is a length field of HdrSize octets and a body.        *)
(*                                                                         *)
(* "down": the controller's library queues whole messages, and             *)
(* sr_read_from_server_expect reads them in pieces of any size.            *)
(* "up": the main thread (packet handlers) and the sweeper both call       *)
(* sr_send_packet, whose write has no lock.  A write that finds room for   *)
(* all its octets is one step of the kernel; one that does not waits for   *)
(* room in the middle of its message, and the other thread may write       *)
(* then.  The controller's library frames the octets in the same way.      *)
(* "log": the same threads call sr_dump, which writes a packet with two    *)
(* calls of fwrite, its header (with the length) and its octets; whoever   *)
(* opens the file reads it record by record.                               *)
(*                                                                         *)
(* Octet <<i, k>> is the k-th octet of the i-th message.                   *)
(***************************************************************************)
EXTENDS Integers, Sequences

CONSTANTS
    Threads,   \* the router's threads that send packets
    HdrSize,   \* octets of the length field (4)
    MaxLen,    \* greatest length the reader accepts (10000)
    Lens,      \* lengths of the messages sent
    Cap,       \* octets the router's socket buffers
    DumpSize,  \* octets of a packet that are logged (PACKET_DUMP_SIZE, 1024)
    MaxMsgs    \* bound on the messages sent

ASSUME SizeAssumption ==
    /\ HdrSize \in Nat \ {0} /\ MaxLen \in Nat /\ Cap \in Nat \ {0} /\ MaxMsgs \in Nat
    /\ DumpSize \in Nat \ {0}
    /\ \A n \in Lens : n \in Nat /\ n > HdrSize

VARIABLES
    dir,        \* which stream
    sent,       \* the lengths of the messages, in the order their writes started
    buf,        \* octets sent and not yet read
    rest,       \* rest[t]: what thread t has still to write of its message
    overlap,    \* a write started in the middle of another one (history)
    ended,      \* the sender has gone
    reader,     \* "len", "body": what the reader reads; how it has ended
    hdr,        \* octets of the length read so far
    body,       \* octets of the body read so far
    delivered   \* the messages handed over, as sequences of octets

sender == <<sent, rest, overlap, ended>>
vars == <<dir, sender, buf, reader, hdr, body, delivered>>

\* Octets lo..hi of message i
Octets(i, lo, hi) == [k \in 1..(hi - lo + 1) |-> <<i, lo + k - 1>>]

Take(s, n) == SubSeq(s, 1, n)
Drop(s, n) == SubSeq(s, n + 1, Len(s))
Least(m, n) == IF m < n THEN m ELSE n

Init ==
    /\ dir \in {"up", "down", "log"}
    /\ sent = <<>> /\ buf = <<>>
    /\ rest = [t \in Threads |-> <<>>]
    /\ overlap = FALSE /\ ended = FALSE
    /\ reader = "len" /\ hdr = <<>> /\ body = <<>>
    /\ delivered = <<>>

-----------------------------------------------------------------------------
(* The sender.                                                             *)

CanSend == ~ended /\ Len(sent) < MaxMsgs

\* The controller's library queues a whole message, whichever thread sends it.
Send(n) ==
    /\ dir = "down" /\ CanSend
    /\ sent' = Append(sent, n)
    /\ buf' = buf \o Octets(Len(sent'), 1, n)
    /\ UNCHANGED <<dir, rest, overlap, ended, reader, hdr, body, delivered>>

\* Thread t gets n octets of s into the stream.
Put(t, s, n) ==
    /\ buf' = buf \o Take(s, n)
    /\ rest' = [rest EXCEPT ![t] = Drop(s, n)]

\* A call that starts now starts in the middle of another thread's message.
Overlaps == overlap' = (overlap \/ \E u \in Threads : rest[u] # <<>>)

\* What the kernel takes of m octets
Room(m) == Least(m, Cap - Len(buf))

\* write in sr_send_packet; a router never sends more than it may receive
Write(t, n) ==
    /\ dir = "up" /\ CanSend /\ rest[t] = <<>>
    /\ n <= MaxLen
    /\ sent' = Append(sent, n)
    /\ Put(t, Octets(Len(sent'), 1, n), Room(n))
    /\ Overlaps
    /\ UNCHANGED <<dir, ended, reader, hdr, body, delivered>>

\* There is room again for a write that waits.
Resume(t) ==
    /\ dir = "up" /\ rest[t] # <<>> /\ Len(buf) < Cap /\ ~ended
    /\ Put(t, rest[t], Room(Len(rest[t])))
    /\ UNCHANGED <<dir, sent, overlap, ended, reader, hdr, body, delivered>>

\* sr_log_packet: min(PACKET_DUMP_SIZE, len)
Captured(n) == HdrSize + Least(n - HdrSize, DumpSize)

\* sr_dump: the first fwrite ...
LogHeader(t, n) ==
    /\ dir = "log" /\ CanSend /\ rest[t] = <<>>
    /\ n <= MaxLen
    /\ sent' = Append(sent, Captured(n))
    /\ Put(t, Octets(Len(sent'), 1, Captured(n)), HdrSize)
    /\ Overlaps
    /\ UNCHANGED <<dir, ended, reader, hdr, body, delivered>>

\* ... and the second
LogData(t) ==
    /\ dir = "log" /\ rest[t] # <<>> /\ ~ended
    /\ Put(t, rest[t], Len(rest[t]))
    /\ UNCHANGED <<dir, sent, overlap, ended, reader, hdr, body, delivered>>

\* The sender closes the connection or is gone.
HangUp ==
    /\ ~ended
    /\ ended' = TRUE
    /\ UNCHANGED <<dir, sent, buf, rest, overlap, reader, hdr, body, delivered>>

-----------------------------------------------------------------------------
(* The reader: sr_read_from_server_expect up to its switch.  recv and read *)
(* return any number of octets there are, up to what is wanted, and are    *)
(* called again when a signal interrupts them.                             *)

\* The octets are the length of a message, and not something in its middle.
IsLength(h) == h = Octets(h[1][1], 1, HdrSize)

\* the limit itself is refused
FaultyTooLong(n) == n >= MaxLen

TooLong(n) == n > MaxLen

\* What the reader does after the length h; reading goes astray when h is none.
\* The test for a negative length and the end after a failed malloc are not
\* here: a length is that of a message sent, and memory does not run out.
AfterLength(h) ==
    CASE ~IsLength(h)            -> "astray"
      [] TooLong(sent[h[1][1]])  -> "closed"
      [] OTHER                   -> "body"

\* whatever the first recv returns is the length
FaultyReadLength(n) ==
    /\ reader = "len" /\ n <= HdrSize - Len(hdr)
    /\ hdr' = Octets(buf[1][1], 1, HdrSize)
    /\ buf' = Drop(buf, n)
    /\ reader' = AfterLength(hdr')
    /\ UNCHANGED <<dir, sender, body, delivered>>

\* recv of what is missing of the length
ReadLength(n) ==
    /\ reader = "len" /\ n <= HdrSize - Len(hdr)
    /\ hdr' = hdr \o Take(buf, n)
    /\ buf' = Drop(buf, n)
    /\ reader' = IF Len(hdr') < HdrSize THEN "len" ELSE AfterLength(hdr')
    /\ UNCHANGED <<dir, sender, body, delivered>>

\* the length is taken for that of the body
FaultyWanted == sent[hdr[1][1]]

\* The octets of the body; the length counts its own octets
Wanted == sent[hdr[1][1]] - HdrSize

\* one more octet than there is in the body is waited for
FaultyReadBody(n) ==
    /\ reader = "body" /\ n <= Wanted - Len(body)
    /\ body' = body \o Take(buf, n)
    /\ buf' = Drop(buf, n)
    /\ UNCHANGED <<dir, sender, reader, hdr, delivered>>

\* read of what is missing of the body; with the last octet the message is
\* complete and goes to the switch
ReadBody(n) ==
    /\ reader = "body" /\ n <= Wanted - Len(body)
    /\ buf' = Drop(buf, n)
    /\ LET b == body \o Take(buf, n)
       IN  IF Len(b) < Wanted
           THEN body' = b /\ UNCHANGED <<reader, hdr, delivered>>
           ELSE /\ delivered' = Append(delivered, hdr \o b)
                /\ reader' = "len" /\ hdr' = <<>> /\ body' = <<>>
    /\ UNCHANGED <<dir, sender>>

\* recv returns 0 at the end of the stream and the router's loop goes on for
\* ever; the controller's library reports the end.
ReadEof ==
    /\ reader \in {"len", "body"} /\ ended /\ buf = <<>>
    /\ reader' = IF dir = "down" THEN "spin" ELSE "closed"
    /\ UNCHANGED <<dir, sender, buf, hdr, body, delivered>>

\* recv or read fails, with octets still in the buffer or not.
ReadError ==
    /\ reader \in {"len", "body"} /\ ended
    /\ reader' = "closed"
    /\ UNCHANGED <<dir, sender, buf, hdr, body, delivered>>

Read == \/ \E n \in 1..Len(buf) : ReadLength(n) \/ ReadBody(n)
        \/ ReadEof
        \/ ReadError

Next ==
    \/ \E n \in Lens : Send(n)
    \/ \E t \in Threads, n \in Lens : Write(t, n) \/ LogHeader(t, n)
    \/ \E t \in Threads : Resume(t) \/ LogData(t)
    \/ HangUp
    \/ Read

Spec == Init /\ [][Next]_vars

\* The reader reads what there is, and a thread goes on with what it has begun:
\* the kernel wakes a write that waits.
FairSpec == Spec /\ WF_vars(Read) /\ \A t \in Threads : WF_vars(Resume(t) \/ LogData(t))

-----------------------------------------------------------------------------
(* Correctness properties.                                                 *)

\* Lengths of messages and of records of the log
Messages == Lens \cup {Captured(n) : n \in Lens}

\* The buffers hold octets of messages sent; the reader's stay within the size
\* it allocates, and the socket's within its capacity.
TypeOK ==
    /\ dir \in {"up", "down", "log"}
    /\ sent \in Seq(Messages) /\ Len(sent) <= MaxMsgs
    /\ \A s \in {buf, hdr, body} \cup {rest[t] : t \in Threads} :
           \A k \in DOMAIN s : s[k][1] \in DOMAIN sent /\ s[k][2] \in 1..sent[s[k][1]]
    /\ dir = "up" => Len(buf) <= Cap
    /\ overlap \in BOOLEAN /\ ended \in BOOLEAN
    /\ reader \in {"len", "body", "closed", "spin", "astray"}
    /\ Len(hdr) <= HdrSize
    /\ reader = "body" => Len(body) <= sent[hdr[1][1]] - HdrSize

\* However the stream is cut into reads, what is handed over are the messages
\* sent, whole and in order, and the reader never takes the middle of a message
\* for a length.  Towards the controller, and in the log, this needs that no
\* thread starts to write while the other is in the middle of its message.
FramesWhole ==
    ~overlap =>
        /\ reader # "astray"
        /\ Len(delivered) <= Len(sent)
        /\ \A i \in DOMAIN delivered : delivered[i] = Octets(i, 1, sent[i])

\* Without a second thread in the middle of a write the reader gives up for two
\* reasons only: the sender has gone, or the next message is longer than the
\* reader accepts.  In particular nothing a router sends makes the controller
\* give it up, however full its buffers are.
ClosedForReason ==
    reader = "closed" /\ ~overlap =>
        ended \/ (dir = "down" /\ sent[Len(delivered) + 1] > MaxLen)

\* The stream as a channel of messages: it breaks when a connection ends and
\* when one write starts in the middle of another.
C == INSTANCE Channel WITH
        received <- Len(delivered),
        broken   <- overlap \/ ended \/ reader \notin {"len", "body"}

\* Whatever the sizes of the reads and the room for the writes, the stream
\* implements a channel that hands over every message, once and in order, and
\* does so eventually.
ImplementsChannel == C!Spec
=============================================================================
