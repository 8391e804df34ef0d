--------------------------- MODULE VnsStreamProofs ---------------------------
(***************************************************************************)
(* Theorems about the octet streams of VnsStream, for messages of any      *)
(* number and length, buffers of any size, reads and writes cut anywhere.  *)
(***************************************************************************)
EXTENDS VnsStream, SequenceTheorems, TLAPS

Octet == Nat \X Nat

\* A sequence s of octets of messages with the lengths q
Valid(q, s) ==
    /\ s \in Seq(Octet)
    /\ \A k \in 1..Len(s) : s[k][1] \in 1..Len(q) /\ s[k][2] \in 1..q[s[k][1]]

-----------------------------------------------------------------------------
(* Octets, and cutting sequences of them.                                  *)

LEMMA OctetsFact ==
  ASSUME NEW i \in Nat, NEW lo \in Nat, NEW hi \in Nat, lo <= hi + 1
  PROVE  /\ Octets(i, lo, hi) \in Seq(Octet)
         /\ Len(Octets(i, lo, hi)) = hi - lo + 1
         /\ \A k \in 1..(hi - lo + 1) : Octets(i, lo, hi)[k] = <<i, lo + k - 1>>
<1>1. \A k \in 1..(hi - lo + 1) : <<i, lo + k - 1>> \in Octet
  BY DEF Octet
<1>2. hi - lo + 1 \in Nat
  OBVIOUS
<1> QED
  BY <1>1, <1>2 DEF Octets

\* The same for a number of octets
LEMMA OctetsRun ==
  ASSUME NEW i \in Nat, NEW a \in Nat, a >= 1, NEW m \in Nat
  PROVE  /\ Octets(i, a, a + m - 1) \in Seq(Octet)
         /\ Len(Octets(i, a, a + m - 1)) = m
         /\ \A k \in 1..m : Octets(i, a, a + m - 1)[k] = <<i, a + k - 1>>
<1> DEFINE h == a + m - 1
<1>1. h \in Nat /\ a <= h + 1 /\ h - a + 1 = m
  OBVIOUS
<1> HIDE DEF h
<1>2. /\ Octets(i, a, h) \in Seq(Octet) /\ Len(Octets(i, a, h)) = h - a + 1
      /\ \A k \in 1..(h - a + 1) : Octets(i, a, h)[k] = <<i, a + k - 1>>
  BY <1>1, OctetsFact
<1> QED
  BY <1>1, <1>2 DEF h

LEMMA TakeDrop ==
  ASSUME NEW s \in Seq(Octet), NEW n \in 0..Len(s)
  PROVE  /\ Take(s, n) \in Seq(Octet) /\ Drop(s, n) \in Seq(Octet)
         /\ Len(Take(s, n)) = n /\ Len(Drop(s, n)) = Len(s) - n
         /\ \A k \in 1..n : Take(s, n)[k] = s[k]
         /\ \A k \in 1..(Len(s) - n) : Drop(s, n)[k] = s[n + k]
  BY DEF Take, Drop

LEMMA TakeOctets ==
  ASSUME NEW i \in Nat, NEW lo \in Nat, NEW hi \in Nat, lo <= hi + 1, lo >= 1,
         NEW n \in 0..(hi - lo + 1)
  PROVE  /\ Take(Octets(i, lo, hi), n) = Octets(i, lo, lo + n - 1)
         /\ Drop(Octets(i, lo, hi), n) = Octets(i, lo + n, hi)
<1> DEFINE s == Octets(i, lo, hi)
           t == Octets(i, lo, lo + n - 1)
           d == Octets(i, lo + n, hi)
<1>1. s \in Seq(Octet) /\ Len(s) = hi - lo + 1
      /\ \A k \in 1..(hi - lo + 1) : s[k] = <<i, lo + k - 1>>
  BY OctetsFact
<1>2. t \in Seq(Octet) /\ Len(t) = n /\ \A k \in 1..n : t[k] = <<i, lo + k - 1>>
  <2>1. n \in Nat
    OBVIOUS
  <2> QED
    BY <2>1, OctetsRun
<1>3. d \in Seq(Octet) /\ Len(d) = hi - lo + 1 - n
      /\ \A k \in 1..(hi - lo + 1 - n) : d[k] = <<i, lo + n + k - 1>>
  <2> DEFINE l == lo + n
  <2>1. l \in Nat /\ l <= hi + 1 /\ hi - l + 1 = hi - lo + 1 - n
    OBVIOUS
  <2> HIDE DEF l
  <2>2. /\ Octets(i, l, hi) \in Seq(Octet) /\ Len(Octets(i, l, hi)) = hi - l + 1
        /\ \A k \in 1..(hi - l + 1) : Octets(i, l, hi)[k] = <<i, l + k - 1>>
    BY <2>1, OctetsFact
  <2> QED
    BY <2>1, <2>2 DEF l
<1>4. /\ Take(s, n) \in Seq(Octet) /\ Drop(s, n) \in Seq(Octet)
      /\ Len(Take(s, n)) = n /\ Len(Drop(s, n)) = Len(s) - n
      /\ \A k \in 1..n : Take(s, n)[k] = s[k]
      /\ \A k \in 1..(Len(s) - n) : Drop(s, n)[k] = s[n + k]
  BY <1>1, TakeDrop
<1> HIDE DEF s, t, d
<1>5. Take(s, n) = t
  <2>1. ASSUME NEW k \in 1..n PROVE Take(s, n)[k] = t[k]
    <3>1. k \in 1..(hi - lo + 1)
      OBVIOUS
    <3> QED
      BY <1>1, <1>2, <1>4, <3>1
  <2> QED
    BY <1>2, <1>4, <2>1, SeqEqual
<1>6. Drop(s, n) = d
  <2>1. ASSUME NEW k \in 1..(hi - lo + 1 - n) PROVE Drop(s, n)[k] = d[k]
    <3>1. n + k \in 1..(hi - lo + 1) /\ lo + (n + k) - 1 = lo + n + k - 1
      OBVIOUS
    <3>2. Drop(s, n)[k] = s[n + k]
      <4>1. Len(s) = hi - lo + 1 /\ \A j \in 1..(Len(s) - n) : Drop(s, n)[j] = s[n + j]
        BY ONLY <1>1, <1>4, Zenon
      <4>2. k \in 1..(Len(s) - n)
        BY <4>1
      <4> QED
        BY ONLY <4>1, <4>2, Zenon
    <3>3. s[n + k] = <<i, lo + (n + k) - 1>>
      BY <1>1, <3>1
    <3> QED
      BY <1>3, <3>1, <3>2, <3>3
  <2> QED
    BY <1>1, <1>3, <1>4, <2>1, SeqEqual
<1> QED
  BY <1>5, <1>6 DEF s, t, d

LEMMA ValidConcat ==
  ASSUME NEW q, NEW s, NEW t, Valid(q, s), Valid(q, t)
  PROVE  Valid(q, s \o t)
<1>1. /\ s \o t \in Seq(Octet) /\ Len(s \o t) = Len(s) + Len(t)
      /\ Len(s) \in Nat /\ Len(t) \in Nat
      /\ \A k \in 1..(Len(s) + Len(t)) : (s \o t)[k] = IF k <= Len(s) THEN s[k] ELSE t[k - Len(s)]
  BY ConcatProperties DEF Valid
<1>2. ASSUME NEW k \in 1..Len(s \o t)
      PROVE  (s \o t)[k][1] \in 1..Len(q) /\ (s \o t)[k][2] \in 1..q[(s \o t)[k][1]]
  <2>1. CASE k <= Len(s)
    <3>1. (s \o t)[k] = s[k] /\ k \in 1..Len(s)
      BY <1>1, <2>1
    <3> QED
      BY <3>1 DEF Valid
  <2>2. CASE ~(k <= Len(s))
    <3>1. (s \o t)[k] = t[k - Len(s)] /\ k - Len(s) \in 1..Len(t)
      BY <1>1, <2>2
    <3> QED
      BY <3>1 DEF Valid
  <2> QED
    BY <2>1, <2>2
<1> QED
  BY <1>1, <1>2 DEF Valid

LEMMA ValidCut ==
  ASSUME NEW q, NEW s, Valid(q, s), NEW n \in 0..Len(s)
  PROVE  Valid(q, Take(s, n)) /\ Valid(q, Drop(s, n))
<1>0. s \in Seq(Octet) /\ Len(s) \in Nat
  BY DEF Valid
<1>1. /\ Take(s, n) \in Seq(Octet) /\ Drop(s, n) \in Seq(Octet)
      /\ Len(Take(s, n)) = n /\ Len(Drop(s, n)) = Len(s) - n
      /\ \A k \in 1..n : Take(s, n)[k] = s[k]
      /\ \A k \in 1..(Len(s) - n) : Drop(s, n)[k] = s[n + k]
  BY <1>0, TakeDrop
<1>2. /\ \A k \in 1..n : k \in 1..Len(s)
      /\ \A k \in 1..(Len(s) - n) : n + k \in 1..Len(s)
  BY <1>0
<1> QED
  BY <1>1, <1>2 DEF Valid

LEMMA ValidOctets ==
  ASSUME NEW q \in Seq(Nat), NEW i \in 1..Len(q), NEW lo \in Nat, NEW hi \in Nat,
         1 <= lo, lo <= hi + 1, hi <= q[i]
  PROVE  Valid(q, Octets(i, lo, hi))
<1>0. Len(q) \in Nat /\ i \in Nat /\ q[i] \in Nat
  OBVIOUS
<1>1. /\ Octets(i, lo, hi) \in Seq(Octet) /\ Len(Octets(i, lo, hi)) = hi - lo + 1
      /\ \A k \in 1..(hi - lo + 1) : Octets(i, lo, hi)[k] = <<i, lo + k - 1>>
  <2>1. i \in Nat /\ lo \in Nat /\ hi \in Nat /\ lo <= hi + 1
    BY <1>0
  <2> QED
    BY ONLY <2>1, OctetsFact, Zenon
<1>2. \A k \in 1..(hi - lo + 1) : lo + k - 1 \in 1..q[i]
  BY <1>0
<1>3. ASSUME NEW k \in 1..Len(Octets(i, lo, hi))
      PROVE  /\ Octets(i, lo, hi)[k][1] \in 1..Len(q)
             /\ Octets(i, lo, hi)[k][2] \in 1..q[Octets(i, lo, hi)[k][1]]
  <2>1. Octets(i, lo, hi)[k] = <<i, lo + k - 1>> /\ lo + k - 1 \in 1..q[i]
    BY <1>1, <1>2
  <2> QED
    BY <2>1
<1> QED
  BY <1>1, <1>3 DEF Valid

LEMMA ValidMore ==
  ASSUME NEW q \in Seq(Nat), NEW m \in Nat, NEW s, Valid(q, s)
  PROVE  Valid(Append(q, m), s)
<1>1. /\ Len(Append(q, m)) = Len(q) + 1
      /\ \A i \in 1..Len(q) : Append(q, m)[i] = q[i] /\ i \in 1..(Len(q) + 1)
  OBVIOUS
<1> QED
  BY <1>1 DEF Valid

LEMMA ValidEmpty == \A q : Valid(q, <<>>)
  BY DEF Valid

-----------------------------------------------------------------------------
(* Types.                                                                  *)

\* The lengths of the messages sent: above that of a length field, and up to
\* what a reader accepts unless they come from the controller.
LengthsOK ==
    /\ sent \in Seq(Messages) /\ sent \in Seq(Nat) /\ Len(sent) <= MaxMsgs
    /\ \A i \in 1..Len(sent) : sent[i] > HdrSize /\ (dir # "down" => sent[i] <= MaxLen)

BuffersOK ==
    /\ Valid(sent, buf) /\ Valid(sent, hdr) /\ Valid(sent, body)
    /\ rest \in [Threads -> Seq(Octet)] /\ \A t \in Threads : Valid(sent, rest[t])
    /\ dir = "up" => Len(buf) <= Cap

\* Where the reader is in a message.
ReaderOK ==
    /\ reader \in {"len", "body", "closed", "spin", "astray"}
    /\ Len(hdr) <= HdrSize
    /\ reader = "len" => Len(hdr) < HdrSize /\ body = <<>>
    /\ reader = "body" => Len(hdr) = HdrSize /\ Len(body) < Wanted
    /\ delivered \in Seq(Seq(Octet))

FlagsOK == overlap \in BOOLEAN /\ ended \in BOOLEAN /\ dir \in {"up", "down", "log"}

StreamType == LengthsOK /\ BuffersOK /\ ReaderOK /\ FlagsOK

LEMMA SizeFact ==
  /\ HdrSize \in Nat /\ HdrSize >= 1 /\ MaxLen \in Nat /\ Cap \in Nat /\ Cap >= 1
  /\ \A n \in Lens : /\ n \in Nat /\ n > HdrSize /\ n \in Messages
                     /\ Captured(n) \in Nat /\ Captured(n) > HdrSize /\ Captured(n) <= n
                     /\ Captured(n) \in Messages
  BY SizeAssumption DEF SizeAssumption, Captured, Least, Messages

LEMMA StreamTypeImplies == StreamType => TypeOK
<1> SUFFICES ASSUME StreamType PROVE TypeOK
  OBVIOUS
<1>1. \A s \in {buf, hdr, body} \cup {rest[t] : t \in Threads} : Valid(sent, s)
  BY DEF StreamType, BuffersOK
<1>2. \A s \in {buf, hdr, body} \cup {rest[t] : t \in Threads} :
         \A k \in DOMAIN s : s[k][1] \in DOMAIN sent /\ s[k][2] \in 1..sent[s[k][1]]
  <2>1. ASSUME NEW s, Valid(sent, s) PROVE DOMAIN s = 1..Len(s)
    BY <2>1 DEF Valid
  <2>2. DOMAIN sent = 1..Len(sent)
    BY DEF StreamType, LengthsOK
  <2> QED
    BY <1>1, <2>1, <2>2 DEF Valid
<1>3. reader = "body" => Len(body) <= sent[hdr[1][1]] - HdrSize
  <2> SUFFICES ASSUME reader = "body" PROVE Len(body) <= sent[hdr[1][1]] - HdrSize
    OBVIOUS
  <2>1. Len(hdr) = HdrSize /\ Len(body) < Wanted /\ Valid(sent, hdr) /\ Valid(sent, body)
    BY DEF StreamType, ReaderOK, BuffersOK
  <2>2. 1 \in 1..Len(hdr) /\ sent \in Seq(Nat)
    BY <2>1, SizeFact DEF StreamType, LengthsOK
  <2>3. hdr[1][1] \in 1..Len(sent)
    BY <2>1, <2>2 DEF Valid
  <2>4. sent[hdr[1][1]] \in Nat /\ Len(body) \in Nat /\ HdrSize \in Nat
    BY <2>1, <2>2, <2>3, SizeFact DEF Valid
  <2> QED
    BY <2>1, <2>4 DEF Wanted
<1> QED
  BY <1>2, <1>3 DEF TypeOK, StreamType, LengthsOK, BuffersOK, ReaderOK, FlagsOK

LEMMA StreamTypeInit == Init => StreamType
<1> SUFFICES ASSUME Init PROVE StreamType
  OBVIOUS
<1> USE DEF Init
<1>1. LengthsOK
  BY SizeAssumption DEF SizeAssumption, LengthsOK
<1>2. BuffersOK
  BY ValidEmpty, SizeFact DEF BuffersOK
<1>3. ReaderOK
  BY SizeFact DEF ReaderOK
<1>4. FlagsOK
  BY DEF FlagsOK
<1> QED
  BY <1>1, <1>2, <1>3, <1>4 DEF StreamType

\* One more message is sent.
LEMMA GrowSent ==
  ASSUME StreamType, UNCHANGED dir, NEW m \in Messages, m \in Nat, m > HdrSize,
         dir # "down" => m <= MaxLen, Len(sent) < MaxMsgs, sent' = Append(sent, m)
  PROVE  /\ LengthsOK'
         /\ Valid(sent', buf) /\ Valid(sent', hdr) /\ Valid(sent', body)
         /\ \A t \in Threads : Valid(sent', rest[t])
         /\ Len(sent') = Len(sent) + 1 /\ sent'[Len(sent')] = m
         /\ \A i \in 1..Len(sent) : sent'[i] = sent[i]
<1>1. sent \in Seq(Nat) /\ sent \in Seq(Messages) /\ Len(sent) \in Nat /\ MaxMsgs \in Nat
  BY SizeAssumption DEF SizeAssumption, StreamType, LengthsOK
<1>2. /\ sent' \in Seq(Nat) /\ sent' \in Seq(Messages)
      /\ Len(sent') = Len(sent) + 1 /\ sent'[Len(sent')] = m
      /\ \A i \in 1..Len(sent) : sent'[i] = sent[i]
  BY <1>1
<1>3. LengthsOK'
  BY <1>1, <1>2 DEF StreamType, LengthsOK
<1> QED
  BY <1>1, <1>2, <1>3, ValidMore DEF StreamType, BuffersOK

\* A thread gets n octets of s into the stream.
LEMMA PutBuffers ==
  ASSUME NEW t \in Threads, NEW s, NEW n \in 0..Len(s), Put(t, s, n),
         rest \in [Threads -> Seq(Octet)], UNCHANGED <<hdr, body, dir>>,
         Valid(sent', s), Valid(sent', buf), Valid(sent', hdr), Valid(sent', body),
         \A u \in Threads : Valid(sent', rest[u]),
         dir = "up" => Len(buf) + n <= Cap
  PROVE  BuffersOK'
<1>1. /\ Valid(sent', Take(s, n)) /\ Valid(sent', Drop(s, n))
      /\ buf' = buf \o Take(s, n) /\ rest' = [rest EXCEPT ![t] = Drop(s, n)]
  BY ValidCut DEF Put
<1>2. Valid(sent', buf')
  BY <1>1, ValidConcat
<1>3. /\ rest' \in [Threads -> Seq(Octet)]
      /\ \A u \in Threads : rest'[u] = IF u = t THEN Drop(s, n) ELSE rest[u]
  BY <1>1 DEF Valid
<1>4. Len(buf') = Len(buf) + n
  <2>1. s \in Seq(Octet) /\ buf \in Seq(Octet)
    BY DEF Valid
  <2>2. Take(s, n) \in Seq(Octet) /\ Len(Take(s, n)) = n
    BY <2>1, TakeDrop
  <2> QED
    BY <1>1, <2>1, <2>2, ConcatProperties
<1> QED
  BY <1>1, <1>2, <1>3, <1>4 DEF BuffersOK

\* The reader notices nothing of what is sent.
LEMMA ReaderKept ==
  ASSUME StreamType, UNCHANGED <<reader, hdr, body, delivered>>,
         \A i \in 1..Len(sent) : sent'[i] = sent[i]
  PROVE  ReaderOK'
<1>1. ASSUME reader = "body" PROVE sent'[hdr[1][1]] = sent[hdr[1][1]]
  <2>1. Len(hdr) = HdrSize /\ Valid(sent, hdr)
    BY <1>1 DEF StreamType, ReaderOK, BuffersOK
  <2>2. 1 \in 1..Len(hdr)
    BY <2>1, SizeFact
  <2> QED
    BY <2>1, <2>2 DEF Valid
<1> QED
  BY <1>1 DEF StreamType, ReaderOK, Wanted

LEMMA RoomFact ==
  ASSUME StreamType, dir = "up", NEW m \in Nat
  PROVE  Room(m) \in 0..m /\ Len(buf) + Room(m) <= Cap
  BY SizeFact DEF StreamType, BuffersOK, Valid, Room, Least

\* What the reader takes.
LEMMA TakeBuffers ==
  ASSUME StreamType, NEW n \in 1..Len(buf), buf' = Drop(buf, n),
         UNCHANGED <<dir, sent, rest>>, Valid(sent, hdr'), Valid(sent, body')
  PROVE  BuffersOK'
<1>1. Valid(sent, buf) /\ Len(buf) \in Nat
  BY DEF StreamType, BuffersOK, Valid
<1>2. Valid(sent, buf') /\ Len(buf') = Len(buf) - n
  <2>1. n \in 0..Len(buf) /\ buf \in Seq(Octet)
    BY <1>1 DEF Valid
  <2> QED
    BY <1>1, <2>1, ValidCut, TakeDrop
<1> QED
  BY <1>1, <1>2, SizeFact DEF StreamType, BuffersOK

\* The octets read go behind those that were read before.
LEMMA Gather ==
  ASSUME StreamType, NEW n \in 1..Len(buf), NEW s, Valid(sent, s)
  PROVE  /\ Valid(sent, s \o Take(buf, n)) /\ Len(s \o Take(buf, n)) = Len(s) + n
         /\ Len(s) \in Nat /\ n \in Nat
         /\ \A k \in 1..Len(s) : (s \o Take(buf, n))[k] = s[k]
         /\ \A k \in 1..n : (s \o Take(buf, n))[Len(s) + k] = buf[k]
<1>1. Valid(sent, buf) /\ Len(buf) \in Nat /\ buf \in Seq(Octet) /\ n \in 0..Len(buf)
      /\ s \in Seq(Octet) /\ Len(s) \in Nat
  BY DEF StreamType, BuffersOK, Valid
<1>2. /\ Valid(sent, Take(buf, n)) /\ Take(buf, n) \in Seq(Octet) /\ Len(Take(buf, n)) = n
      /\ \A k \in 1..n : Take(buf, n)[k] = buf[k]
  BY <1>1, ValidCut, TakeDrop
<1>3. /\ Len(s \o Take(buf, n)) = Len(s) + n
      /\ \A i \in 1..(Len(s) + n) : (s \o Take(buf, n))[i] =
             IF i <= Len(s) THEN s[i] ELSE Take(buf, n)[i - Len(s)]
  <2> DEFINE b == Take(buf, n)
  <2>1. b \in Seq(Octet) /\ Len(b) = n
    BY <1>2
  <2> HIDE DEF b
  <2>2. /\ Len(s \o b) = Len(s) + n
        /\ \A i \in 1..(Len(s) + n) : (s \o b)[i] = IF i <= Len(s) THEN s[i] ELSE b[i - Len(s)]
    BY <1>1, <2>1, ConcatProperties
  <2> QED
    BY <2>2 DEF b
<1>4. ASSUME NEW k \in 1..n PROVE (s \o Take(buf, n))[Len(s) + k] = buf[k]
  <2>1. Len(s) + k \in 1..(Len(s) + n) /\ ~(Len(s) + k <= Len(s)) /\ Len(s) + k - Len(s) = k
    BY <1>1
  <2> QED
    BY <1>2, <1>3, <2>1
<1>5. \A k \in 1..Len(s) : (s \o Take(buf, n))[k] = s[k]
  BY <1>1, <1>3
<1> QED
  BY <1>1, <1>2, <1>3, <1>4, <1>5, ValidConcat

\* A write or a record of the log: m octets of a new message are to be written,
\* n of them at once.
LEMMA StartType ==
  ASSUME StreamType, NEW t \in Threads, NEW m \in Messages, m \in Nat, m > HdrSize,
         dir # "down", m <= MaxLen, Len(sent) < MaxMsgs, sent' = Append(sent, m),
         NEW n \in 0..m, Put(t, Octets(Len(sent'), 1, m), n),
         dir = "up" => Len(buf) + n <= Cap,
         UNCHANGED <<dir, reader, hdr, body, delivered>>
  PROVE  LengthsOK' /\ BuffersOK' /\ ReaderOK'
<1>1. /\ LengthsOK'
      /\ Valid(sent', buf) /\ Valid(sent', hdr) /\ Valid(sent', body)
      /\ \A u \in Threads : Valid(sent', rest[u])
      /\ Len(sent') = Len(sent) + 1 /\ sent'[Len(sent')] = m
      /\ \A i \in 1..Len(sent) : sent'[i] = sent[i]
  BY GrowSent
<1>2. sent' \in Seq(Nat) /\ Len(sent') \in 1..Len(sent') /\ Len(sent') \in Nat
  BY <1>1 DEF LengthsOK, StreamType
<1> DEFINE i == Len(sent')
           o == Octets(i, 1, m)
<1>3. o \in Seq(Octet) /\ Len(o) = m
  <2>1. 1 \in Nat /\ 1 <= m + 1 /\ m - 1 + 1 = m
    OBVIOUS
  <2> HIDE DEF i
  <2>2. i \in Nat
    BY <1>2 DEF i
  <2> QED
    BY <2>1, <2>2, OctetsFact
<1>4. Valid(sent', o)
  <2>1. 1 \in Nat /\ 1 <= 1 /\ 1 <= m + 1 /\ m <= sent'[i] /\ i \in 1..Len(sent')
    BY <1>1, <1>2
  <2> QED
    BY <1>2, <2>1, ValidOctets
<1>5. BuffersOK'
  <2>1. n \in 0..Len(o) /\ Put(t, o, n) /\ rest \in [Threads -> Seq(Octet)]
    BY <1>3 DEF StreamType, BuffersOK
  <2> HIDE DEF o
  <2> QED
    BY <1>1, <1>4, <2>1, PutBuffers
<1> QED
  BY <1>1, <1>5, ReaderKept

\* The first octet of the length names a message that was sent.
LEMMA HeadOfLength ==
  ASSUME StreamType, NEW h, Valid(sent, h), Len(h) = HdrSize
  PROVE  /\ h[1][1] \in 1..Len(sent) /\ h[1][1] \in Nat
         /\ sent[h[1][1]] \in Nat /\ sent[h[1][1]] > HdrSize
<1>1. 1 \in 1..Len(h) /\ sent \in Seq(Nat) /\ Len(sent) \in Nat
  BY SizeFact DEF StreamType, LengthsOK
<1>2. h[1][1] \in 1..Len(sent)
  BY <1>1 DEF Valid
<1> QED
  BY <1>1, <1>2 DEF StreamType, LengthsOK

LEMMA StreamTypeNext == StreamType /\ [Next]_vars => StreamType'
<1> SUFFICES ASSUME StreamType, [Next]_vars PROVE StreamType'
  OBVIOUS
<1>1. ASSUME NEW n \in Lens, Send(n) PROVE StreamType'
  <2>1. /\ n \in Nat /\ n > HdrSize /\ n \in Messages /\ dir = "down"
        /\ Len(sent) < MaxMsgs /\ sent' = Append(sent, n)
        /\ buf' = buf \o Octets(Len(sent'), 1, n)
        /\ UNCHANGED <<dir, rest, overlap, ended, reader, hdr, body, delivered>>
    BY <1>1, SizeFact DEF Send, CanSend
  <2>2. /\ LengthsOK'
        /\ Valid(sent', buf) /\ Valid(sent', hdr) /\ Valid(sent', body)
        /\ \A u \in Threads : Valid(sent', rest[u])
        /\ Len(sent') = Len(sent) + 1 /\ sent'[Len(sent')] = n
        /\ \A i \in 1..Len(sent) : sent'[i] = sent[i]
    BY <2>1, GrowSent
  <2>3. sent' \in Seq(Nat) /\ Len(sent') \in 1..Len(sent') /\ 1 \in Nat /\ 1 <= 1 /\ 1 <= n + 1
        /\ n <= sent'[Len(sent')]
    BY <2>1, <2>2 DEF LengthsOK, StreamType
  <2>4. Valid(sent', buf')
    BY <2>1, <2>2, <2>3, ValidOctets, ValidConcat
  <2>5. BuffersOK'
    BY <2>1, <2>2, <2>4 DEF StreamType, BuffersOK
  <2>6. FlagsOK'
    BY <2>1 DEF StreamType, FlagsOK
  <2> QED
    BY <2>1, <2>2, <2>5, <2>6, ReaderKept DEF StreamType
<1>2. ASSUME NEW t \in Threads, NEW n \in Lens, Write(t, n) PROVE StreamType'
  <2>1. /\ n \in Nat /\ n > HdrSize /\ n \in Messages /\ dir = "up" /\ n <= MaxLen
        /\ Len(sent) < MaxMsgs /\ sent' = Append(sent, n)
        /\ Put(t, Octets(Len(sent'), 1, n), Room(n))
        /\ UNCHANGED <<dir, reader, hdr, body, delivered>>
    BY <1>2, SizeFact DEF Write, CanSend
  <2>2. Room(n) \in 0..n /\ Len(buf) + Room(n) <= Cap
    BY <2>1, RoomFact
  <2>3. LengthsOK' /\ BuffersOK' /\ ReaderOK'
    BY <2>1, <2>2, StartType
  <2>4. FlagsOK'
    BY <1>2, Zenon DEF Write, Overlaps, StreamType, FlagsOK
  <2> QED
    BY <2>3, <2>4 DEF StreamType
<1>3. ASSUME NEW t \in Threads, NEW n \in Lens, LogHeader(t, n) PROVE StreamType'
  <2> DEFINE m == Captured(n)
  <2>1. /\ m \in Nat /\ m > HdrSize /\ m \in Messages /\ dir = "log" /\ m <= MaxLen
        /\ Len(sent) < MaxMsgs /\ sent' = Append(sent, m)
        /\ Put(t, Octets(Len(sent'), 1, m), HdrSize)
        /\ UNCHANGED <<dir, reader, hdr, body, delivered>>
    BY <1>3, SizeFact DEF LogHeader, CanSend
  <2>2. HdrSize \in 0..m /\ dir # "up" /\ dir # "down"
    BY <2>1, SizeFact
  <2>3. LengthsOK' /\ BuffersOK' /\ ReaderOK'
    BY <2>1, <2>2, StartType
  <2>4. FlagsOK'
    BY <1>3, Zenon DEF LogHeader, Overlaps, StreamType, FlagsOK
  <2> QED
    BY <2>3, <2>4 DEF StreamType
<1>4. ASSUME NEW t \in Threads, Resume(t) \/ LogData(t) PROVE StreamType'
  <2>1. Valid(sent, rest[t]) /\ Len(rest[t]) \in Nat /\ rest \in [Threads -> Seq(Octet)]
    BY DEF StreamType, BuffersOK, Valid
  <2>2. UNCHANGED <<dir, sent, overlap, ended, reader, hdr, body, delivered>>
    BY <1>4 DEF Resume, LogData
  <2>3. PICK n \in 0..Len(rest[t]) : Put(t, rest[t], n) /\ (dir = "up" => Len(buf) + n <= Cap)
    <3>1. CASE Resume(t)
      BY <2>1, <3>1, RoomFact DEF Resume
    <3>2. CASE LogData(t)
      BY <2>1, <3>2 DEF LogData
    <3> QED
      BY <1>4, <3>1, <3>2
  <2>4. BuffersOK'
    BY <2>1, <2>2, <2>3, PutBuffers DEF StreamType, BuffersOK
  <2> QED
    BY <2>2, <2>4, ReaderKept DEF StreamType, LengthsOK, FlagsOK
<1>5. CASE HangUp
  <2>1. UNCHANGED <<dir, sent, buf, rest, overlap, reader, hdr, body, delivered>> /\ ended' = TRUE
    BY <1>5 DEF HangUp
  <2> QED
    BY <2>1, ReaderKept DEF StreamType, LengthsOK, BuffersOK, FlagsOK
<1>6. ASSUME NEW n \in 1..Len(buf), ReadLength(n) PROVE StreamType'
  <2>1. /\ reader = "len" /\ n <= HdrSize - Len(hdr) /\ body = <<>>
        /\ hdr' = hdr \o Take(buf, n) /\ buf' = Drop(buf, n)
        /\ reader' = IF Len(hdr') < HdrSize THEN "len" ELSE AfterLength(hdr')
        /\ UNCHANGED <<dir, sender, body, delivered>> /\ Valid(sent, hdr)
    BY <1>6 DEF ReadLength, StreamType, ReaderOK, BuffersOK
  <2>2. Valid(sent, hdr') /\ Len(hdr') = Len(hdr) + n /\ Len(hdr) \in Nat /\ n \in Nat
    BY <2>1, Gather
  <2>3. UNCHANGED <<dir, sent, rest, overlap, ended>> /\ Valid(sent, body')
    BY <2>1, ValidEmpty DEF sender
  <2>4. BuffersOK'
    BY <2>1, <2>2, <2>3, TakeBuffers
  <2>5. Len(hdr') <= HdrSize /\ HdrSize \in Nat
    BY <2>1, <2>2, SizeFact
  <2>6. reader' \in {"len", "body", "closed", "astray"} /\ (reader' = "len" <=> Len(hdr') < HdrSize)
    BY <2>1 DEF AfterLength
  <2>7. ReaderOK'
    <3>1. ASSUME reader' = "body" PROVE Len(hdr') = HdrSize /\ Len(body') < Wanted'
      <4>1. Len(hdr') = HdrSize
        BY <2>2, <2>5, <2>6, <3>1
      <4>2. sent[hdr'[1][1]] \in Nat /\ sent[hdr'[1][1]] > HdrSize
        BY <2>2, <4>1, HeadOfLength
      <4> QED
        BY <2>1, <2>3, <2>5, <4>1, <4>2 DEF Wanted
    <3> QED
      BY <2>1, <2>5, <2>6, <3>1 DEF ReaderOK, StreamType
  <2> QED
    BY <2>3, <2>4, <2>7 DEF StreamType, LengthsOK, FlagsOK
<1>7. ASSUME NEW n \in 1..Len(buf), ReadBody(n) PROVE StreamType'
  <2> DEFINE b == body \o Take(buf, n)
  <2>1. /\ reader = "body" /\ n <= Wanted - Len(body) /\ Len(hdr) = HdrSize
        /\ buf' = Drop(buf, n) /\ Valid(sent, hdr) /\ Valid(sent, body)
        /\ UNCHANGED <<dir, sent, rest, overlap, ended>>
        /\ delivered \in Seq(Seq(Octet))
    BY <1>7 DEF ReadBody, StreamType, ReaderOK, BuffersOK, sender
  <2>2. Valid(sent, b) /\ Len(b) = Len(body) + n /\ Len(body) \in Nat /\ n \in Nat
    BY <2>1, Gather
  <2>3. CASE Len(b) < Wanted
    <3>1. body' = b /\ UNCHANGED <<reader, hdr, delivered>>
      BY <1>7, <2>3 DEF ReadBody
    <3>2. BuffersOK'
      BY <2>1, <2>2, <3>1, TakeBuffers
    <3>3. ReaderOK'
      BY <2>1, <2>3, <3>1 DEF StreamType, ReaderOK, Wanted
    <3> QED
      BY <2>1, <3>2, <3>3 DEF StreamType, LengthsOK, FlagsOK
  <2>4. CASE ~(Len(b) < Wanted)
    <3>1. /\ delivered' = Append(delivered, hdr \o b)
          /\ reader' = "len" /\ hdr' = <<>> /\ body' = <<>>
      BY <1>7, <2>4 DEF ReadBody
    <3>2. BuffersOK'
      BY <2>1, <3>1, ValidEmpty, TakeBuffers
    <3>3. hdr \o b \in Seq(Octet)
      BY <2>1, <2>2, ConcatProperties DEF Valid
    <3>4. ReaderOK'
      BY <2>1, <3>1, <3>3, SizeFact DEF ReaderOK
    <3> QED
      BY <2>1, <3>2, <3>4 DEF StreamType, LengthsOK, FlagsOK
  <2> QED
    BY <2>3, <2>4
<1>8. CASE ReadEof \/ ReadError
  <2>1. UNCHANGED <<dir, sent, rest, overlap, ended, buf, hdr, body, delivered>>
        /\ reader' \in {"spin", "closed"}
    BY <1>8 DEF ReadEof, ReadError, sender
  <2>2. ReaderOK'
    BY <2>1 DEF StreamType, ReaderOK
  <2> QED
    BY <2>1, <2>2 DEF StreamType, LengthsOK, BuffersOK, FlagsOK
<1>9. CASE UNCHANGED vars
  <2>1. UNCHANGED <<dir, sent, rest, overlap, ended, buf, hdr, body, delivered, reader>>
    BY <1>9 DEF vars, sender
  <2> QED
    BY <2>1, ReaderKept DEF StreamType, LengthsOK, BuffersOK, FlagsOK
<1> QED
  BY <1>1, <1>2, <1>3, <1>4, <1>5, <1>6, <1>7, <1>8, <1>9 DEF Next, Read

\* The buffers of both sides hold octets of messages that were sent, within the
\* sizes allocated, whatever the threads write and however reads are cut.
THEOREM StreamTyped == Spec => []TypeOK
  BY StreamTypeInit, StreamTypeNext, StreamTypeImplies, PTL DEF Spec

-----------------------------------------------------------------------------
(* Streams in which no message is mixed with another.                      *)

\* The octets of the message of octet x that come after it
Gap(q, x) == q[x[1]] - x[2]

\* Octet y may come n places after octet x in a stream of whole messages with
\* the lengths q.  This is stated for any distance, and not for neighbours
\* only, so that what a read of many octets returns follows without induction.
Apart(q, x, y, n) ==
    /\ n <= Gap(q, x) => y = <<x[1], x[2] + n>>
    /\ n = Gap(q, x) + 1 => y = <<x[1] + 1, 1>>
    /\ n > Gap(q, x) => y[1] > x[1]

\* The octets of s, and then o, follow each other.
Straight(q, s, o) ==
    /\ \A j, k \in 1..Len(s) : j < k => Apart(q, s[j], s[k], k - j)
    /\ \A j \in 1..Len(s) : Apart(q, s[j], o, Len(s) + 1 - j)

\* Where a stream starts
First(s, o) == IF s = <<>> THEN o ELSE s[1]

\* What follows the octets of message i up to the k-th
After(q, i, k) == IF k < q[i] THEN <<i, k + 1>> ELSE <<i + 1, 1>>

\* Some octets on in the same message, and into the next.
LEMMA ApartLater ==
  ASSUME NEW q, NEW x, x[1] \in Nat, x[2] \in Nat, q[x[1]] \in Nat,
         NEW i \in Nat, NEW a \in Nat, q[i] \in Nat, NEW n \in Nat, NEW d \in Nat,
         Apart(q, x, <<i, a>>, n)
  PROVE  /\ a + d <= q[i] => Apart(q, x, <<i, a + d>>, n + d)
         /\ a + d = q[i] + 1 /\ d > 0 => Apart(q, x, <<i + 1, 1>>, n + d)
<1> DEFINE g == Gap(q, x)
<1>0. g = q[x[1]] - x[2] /\ g \in Int
  BY DEF Gap
<1>1. CASE n <= g
  <2>1. i = x[1] /\ a = x[2] + n
    BY <1>1 DEF Apart
  <2>2. g = q[i] - x[2]
    BY <1>0, <2>1
  <2> HIDE DEF g
  <2>3. a + d <= q[i] => n + d <= g /\ x[2] + (n + d) = a + d
    BY <1>0, <2>1, <2>2
  <2>4. a + d = q[i] + 1 => n + d = g + 1
    BY <1>0, <2>1, <2>2
  <2> QED
    BY <1>0, <2>1, <2>3, <2>4 DEF Apart, g
<1>2. CASE ~(n <= g)
  <2>1. i > x[1] /\ n > g
    BY <1>0, <1>2 DEF Apart
  <2>2. d = 0 => a + d = a /\ n + d = n
    OBVIOUS
  <2> HIDE DEF g
  <2>3. d > 0 => n + d > g + 1 /\ i + 1 > x[1]
    BY <1>0, <2>1
  <2>4. ~(n + d <= g) /\ n + d > g
    BY <1>0, <2>1
  <2> QED
    BY <1>0, <2>1, <2>2, <2>3, <2>4 DEF Apart, g
<1> QED
  BY <1>0, <1>1, <1>2

LEMMA Inside ==
  ASSUME NEW q \in Seq(Nat), NEW s, Valid(q, s), NEW k \in 1..Len(s)
  PROVE  /\ s[k][1] \in 1..Len(q) /\ s[k][1] \in Nat
         /\ s[k][2] \in 1..q[s[k][1]] /\ s[k][2] \in Nat /\ q[s[k][1]] \in Nat
<1>1. s[k][1] \in 1..Len(q) /\ s[k][2] \in 1..q[s[k][1]]
  BY DEF Valid
<1>2. q[s[k][1]] \in Nat
  BY <1>1
<1> QED
  BY <1>1, <1>2

\* The writer goes on with octets a to a + m - 1 of message i.
LEMMA Extend ==
  ASSUME NEW q \in Seq(Nat), NEW s, Valid(q, s), NEW i \in 1..Len(q), NEW a \in 1..q[i],
         NEW m \in Nat, a + m - 1 <= q[i], Straight(q, s, <<i, a>>)
  PROVE  LET t == s \o Octets(i, a, a + m - 1)
             w == After(q, i, a + m - 1)
         IN  Straight(q, t, w) /\ First(t, w) = First(s, <<i, a>>)
<1> DEFINE e == Octets(i, a, a + m - 1)
           t == s \o e
           w == After(q, i, a + m - 1)
           n == Len(s)
<1>00. q[i] \in Nat /\ i \in Nat /\ s \in Seq(Octet)
  BY DEF Valid
<1>0. n \in Nat /\ q[i] \in Nat /\ i \in Nat /\ a \in Nat /\ a >= 1
  BY <1>00
<1>1. e \in Seq(Octet) /\ Len(e) = m /\ \A k \in 1..m : e[k] = <<i, a + k - 1>>
  BY <1>0, OctetsRun
<1> HIDE DEF e
<1>2. /\ t \in Seq(Octet) /\ Len(t) = n + m
      /\ \A k \in 1..(n + m) : t[k] = IF k <= n THEN s[k] ELSE e[k - n]
  BY <1>00, <1>1, ConcatProperties
<1>s. /\ \A j, k \in 1..n : j < k => Apart(q, s[j], s[k], k - j)
      /\ \A j \in 1..n : Apart(q, s[j], <<i, a>>, n + 1 - j)
      /\ \A j \in 1..n : s[j][1] \in Nat /\ s[j][2] \in Nat /\ q[s[j][1]] \in Nat
  BY Inside DEF Straight
<1>e. n = 0 <=> s = <<>>
  BY <1>00
<1> HIDE DEF t, n
<1>3. /\ \A k \in 1..n : t[k] = s[k]
      /\ \A k \in 1..m : t[n + k] = <<i, a + (k - 1)>>
  <2>1. \A k \in 1..n : k \in 1..(n + m) /\ k <= n
    BY <1>0
  <2>2. ASSUME NEW k \in 1..m PROVE t[n + k] = <<i, a + (k - 1)>>
    <3> DEFINE c == n + k
    <3>1. c \in 1..(n + m) /\ ~(c <= n) /\ c - n = k /\ a + k - 1 = a + (k - 1)
      BY <1>0
    <3> HIDE DEF c
    <3>2. t[c] = e[c - n] /\ c - n = k
      BY ONLY <1>2, <3>1
    <3>3. t[n + k] = e[k]
      BY ONLY <3>2 DEF c
    <3> QED
      BY <1>1, <3>1, <3>3
  <2> QED
    BY <1>2, <2>1, <2>2
<1>4. ASSUME NEW j \in 1..n, NEW k \in 1..m PROVE Apart(q, s[j], t[n + k], n + k - j)
  <2> DEFINE d == k - 1
             b == n + 1 - j
  <2>1. d \in Nat /\ b \in Nat /\ a + d <= q[i] /\ n + k - j = b + d
    BY <1>0
  <2> HIDE DEF b
  <2>2. Apart(q, s[j], <<i, a>>, b)
    BY <1>s DEF b
  <2>3. Apart(q, s[j], <<i, a + d>>, b + d)
    <3> HIDE DEF d
    <3> QED
      BY <1>0, <1>s, <2>1, <2>2, ApartLater
  <2> QED
    BY <1>3, <2>1, <2>3
<1>5. ASSUME NEW j \in 1..m, NEW k \in 1..m, j < k
      PROVE  Apart(q, t[n + j], t[n + k], k - j)
  <2>1. k - j <= q[i] - (a + (j - 1)) /\ a + (k - 1) = a + (j - 1) + (k - j)
        /\ k - j \in Int /\ q[i] - (a + (j - 1)) \in Int
    BY <1>0, <1>5
  <2>2. Apart(q, <<i, a + (j - 1)>>, <<i, a + (k - 1)>>, k - j)
    BY <2>1 DEF Apart, Gap
  <2> QED
    BY <1>3, <2>2
<1>6. ASSUME NEW j \in 1..(n + m), NEW k \in 1..(n + m), j < k
      PROVE  Apart(q, t[j], t[k], k - j)
  <2>1. CASE k <= n
    <3>1. j \in 1..n /\ k \in 1..n
      BY <1>0, <1>6, <2>1
    <3> QED
      BY <1>3, <1>6, <1>s, <3>1
  <2>2. CASE j <= n /\ ~(k <= n)
    <3> DEFINE c == k - n
    <3>1. j \in 1..n /\ c \in 1..m /\ n + c = k /\ n + c - j = k - j
      BY <1>0, <2>2
    <3> HIDE DEF c
    <3>2. Apart(q, s[j], t[n + c], n + c - j)
      BY <1>4, <3>1
    <3>3. t[j] = s[j]
      BY <1>3, <3>1
    <3> QED
      BY ONLY <3>1, <3>2, <3>3, Zenon
  <2>3. CASE ~(j <= n) /\ ~(k <= n)
    <3> DEFINE c == k - n
               b == j - n
    <3>1. b \in 1..m /\ c \in 1..m /\ n + c = k /\ n + b = j /\ b < c /\ c - b = k - j
      BY <1>0, <1>6, <2>3
    <3> HIDE DEF c, b
    <3>2. Apart(q, t[n + b], t[n + c], c - b)
      BY <1>5, <3>1
    <3> QED
      BY ONLY <3>1, <3>2, Zenon
  <2> QED
    BY <1>0, <1>6, <2>1, <2>2, <2>3
<1>7. ASSUME NEW j \in 1..(n + m) PROVE Apart(q, t[j], w, n + m + 1 - j)
  <2>0. \/ a + m <= q[i] /\ w = <<i, a + m>>
        \/ a + m = q[i] + 1 /\ m > 0 /\ w = <<i + 1, 1>>
    <3>1. a + m - 1 + 1 = a + m /\ (a + m - 1 < q[i] <=> a + m <= q[i])
          /\ (~(a + m <= q[i]) => a + m = q[i] + 1 /\ m > 0)
      BY <1>0
    <3> QED
      BY <3>1 DEF After
  <2> HIDE DEF w
  <2>1. CASE j <= n
    <3> DEFINE b == n + 1 - j
    <3>0. j \in 1..n /\ b \in Nat /\ n + m + 1 - j = b + m
      BY <1>0, <2>1
    <3> HIDE DEF b
    <3>1. Apart(q, s[j], <<i, a>>, b) /\ t[j] = s[j]
      BY <1>3, <1>s, <3>0 DEF b
    <3>2. Apart(q, s[j], w, b + m)
      <4>1. s[j][1] \in Nat /\ s[j][2] \in Nat /\ q[s[j][1]] \in Nat
        BY <1>s, <3>0
      <4>2. /\ a + m <= q[i] => Apart(q, s[j], <<i, a + m>>, b + m)
            /\ a + m = q[i] + 1 /\ m > 0 => Apart(q, s[j], <<i + 1, 1>>, b + m)
        BY <1>0, <3>0, <3>1, <4>1, ApartLater
      <4> QED
        BY ONLY <2>0, <4>2, Zenon
    <3> QED
      BY <3>0, <3>1, <3>2
  <2>2. CASE ~(j <= n)
    <3> DEFINE b == j - n
    <3>1. b \in 1..m /\ n + b = j /\ n + m + 1 - j = m + 1 - b
      BY <1>0, <2>2
    <3> HIDE DEF b
    <3>2. t[j] = <<i, a + (b - 1)>>
      BY <1>3, <3>1
    <3>3. Apart(q, <<i, a + (b - 1)>>, w, m + 1 - b)
      BY <1>0, <2>0, <3>1 DEF Apart, Gap
    <3> QED
      BY <3>1, <3>2, <3>3
  <2> QED
    BY <2>1, <2>2
<1>8. Straight(q, t, w)
  BY <1>2, <1>6, <1>7 DEF Straight
<1>9. First(t, w) = First(s, <<i, a>>)
  <2>1. CASE n > 0
    <3>1. 1 \in 1..n /\ s # <<>> /\ Len(t) > 0 /\ t[1] = s[1]
      BY <1>0, <1>2, <1>3, <1>e, <2>1
    <3> QED
      BY <1>2, <3>1 DEF First
  <2>2. CASE n = 0 /\ m > 0
    <3>1. s = <<>> /\ Len(t) > 0 /\ 1 \in 1..m /\ n + 1 = 1 /\ a + (1 - 1) = a
      BY <1>0, <1>2, <1>e, <2>2
    <3>2. t[1] = <<i, a>>
      BY <1>3, <3>1
    <3> QED
      BY <1>2, <3>1, <3>2 DEF First
  <2>3. CASE n = 0 /\ m = 0
    <3>1. s = <<>> /\ Len(t) = 0 /\ w = <<i, a>>
      BY <1>0, <1>2, <1>e, <2>3 DEF After
    <3> QED
      BY <1>2, <3>1 DEF First
  <2> QED
    BY <1>0, <2>1, <2>2, <2>3
<1> QED
  BY <1>8, <1>9 DEF t, e

-----------------------------------------------------------------------------
(* What the reader and the writers know of a stream nobody has mixed.      *)

\* The octets of message i after the first a
IsRun(s, i, a) == \A k \in 1..Len(s) : s[k] = <<i, a + k>>

\* o is the octet that the next write brings: where the one thread that is in
\* the middle of its message goes on, or the first of a new message.
NextOctet(o) ==
    /\ (\A t \in Threads : rest[t] = <<>>) => o = <<Len(sent) + 1, 1>>
    /\ \A t \in Threads : rest[t] # <<>> =>
           /\ o[1] = Len(sent) /\ Len(sent) >= 1
           /\ o[2] \in 1..sent[Len(sent)]
           /\ rest[t] = Octets(Len(sent), o[2], sent[Len(sent)])
           /\ \A u \in Threads \ {t} : rest[u] = <<>>

\* The reader has the octets of the next message so far, and the stream goes on
\* where it has stopped.
Reading ==
    /\ IsRun(hdr, Len(delivered) + 1, 0)
    /\ IsRun(body, Len(delivered) + 1, HdrSize)
    /\ \E o \in Octet :
           /\ NextOctet(o)
           /\ Straight(sent, buf, o)
           /\ First(buf, o) = <<Len(delivered) + 1, Len(hdr) + Len(body) + 1>>

Whole ==
    /\ reader # "astray"
    /\ Len(delivered) <= Len(sent)
    /\ \A i \in 1..Len(delivered) : delivered[i] = Octets(i, 1, sent[i])

Reason ==
    reader = "closed" =>
        ended \/ (dir = "down" /\ Len(delivered) < Len(sent) /\ sent[Len(delivered) + 1] > MaxLen)

Line == Whole /\ Reason /\ (reader \in {"len", "body"} => Reading)

LineInv ==
    /\ dir = "down" => \A t \in Threads : rest[t] = <<>>
    /\ ~overlap => Line

LEMMA RunIsOctets ==
  ASSUME NEW s \in Seq(Octet), NEW i \in Nat, NEW m \in Nat, IsRun(s, i, 0), Len(s) = m
  PROVE  s = Octets(i, 1, m)
<1> DEFINE e == Octets(i, 1, m)
<1>1. e \in Seq(Octet) /\ Len(e) = m /\ \A k \in 1..m : e[k] = <<i, k>>
  <2>1. e = [k \in 1..m |-> <<i, k>>]
    BY DEF Octets
  <2> HIDE DEF e
  <2>2. \A k \in 1..m : <<i, k>> \in Octet
    BY DEF Octet
  <2> QED
    BY <2>1, <2>2
<1> HIDE DEF e
<1>2. \A k \in 1..m : s[k] = <<i, k>>
  BY DEF IsRun
<1>3. s = e
  BY <1>1, <1>2, SeqEqual
<1> QED
  BY <1>3 DEF e

LEMMA RunConcat ==
  ASSUME NEW s \in Seq(Octet), NEW e \in Seq(Octet), NEW i, NEW a \in Nat, NEW b \in Nat,
         b = a + Len(s), IsRun(s, i, a), IsRun(e, i, b)
  PROVE  IsRun(s \o e, i, a)
<1> DEFINE n == Len(s)
           m == Len(e)
           t == s \o e
<1>1. n \in Nat /\ m \in Nat
  OBVIOUS
<1>2. Len(t) = n + m /\ \A k \in 1..(n + m) : t[k] = IF k <= n THEN s[k] ELSE e[k - n]
  BY ConcatProperties
<1>3. /\ \A k \in 1..n : s[k] = <<i, a + k>>
      /\ \A k \in 1..m : e[k] = <<i, b + k>>
  BY DEF IsRun
<1>4. b = a + n
  OBVIOUS
<1> HIDE DEF n, m, t
<1>5. ASSUME NEW k \in 1..(n + m) PROVE t[k] = <<i, a + k>>
  <2>1. CASE k <= n
    BY <1>1, <1>2, <1>3, <2>1
  <2>2. CASE ~(k <= n)
    <3> DEFINE c == k - n
    <3>1. c \in 1..m /\ b + c = a + k
      BY <1>1, <1>4, <2>2
    <3>2. t[k] = e[c]
      BY <1>2, <2>2
    <3> HIDE DEF c
    <3> QED
      BY <1>3, <3>1, <3>2
  <2> QED
    BY <2>1, <2>2
<1>6. \A k \in 1..Len(t) : t[k] = <<i, a + k>>
  BY <1>2, <1>5
<1> QED
  BY <1>6 DEF t, IsRun

\* One more message changes nothing in what is in the stream.
LEMMA StraightMore ==
  ASSUME NEW q \in Seq(Nat), NEW m \in Nat, NEW s, Valid(q, s), NEW o, Straight(q, s, o)
  PROVE  Straight(Append(q, m), s, o)
<1> DEFINE p == Append(q, m)
<1>1. \A j \in 1..Len(s) : p[s[j][1]] = q[s[j][1]]
  <2>1. \A i \in 1..Len(q) : p[i] = q[i]
    OBVIOUS
  <2> QED
    BY <2>1 DEF Valid
<1> HIDE DEF p
<1>2. ASSUME NEW j \in 1..Len(s), NEW y, NEW n, Apart(q, s[j], y, n)
      PROVE  Apart(p, s[j], y, n)
  BY <1>1, <1>2 DEF Apart, Gap
<1>3. Straight(p, s, o)
  BY <1>2 DEF Straight
<1> QED
  BY <1>3 DEF p

\* The reader takes n octets that belong to the message it reads.
LEMMA Advance ==
  ASSUME NEW q \in Seq(Nat), NEW s, Valid(q, s), NEW o, Straight(q, s, o),
         NEW i \in Nat, NEW r \in Nat, First(s, o) = <<i, r + 1>>,
         NEW n \in 1..Len(s), r + n <= q[i]
  PROVE  /\ i \in 1..Len(q) /\ q[i] \in Nat
         /\ IsRun(Take(s, n), i, r)
         /\ Straight(q, Drop(s, n), o)
         /\ First(Drop(s, n), o) = After(q, i, r + n)
<1> DEFINE l == Len(s)
           u == Take(s, n)
           v == Drop(s, n)
<1>0. s \in Seq(Octet) /\ l \in Nat /\ n \in 0..l /\ n \in Nat /\ n >= 1 /\ l >= n /\ 1 \in 1..l
  BY DEF Valid
<1>1. s[1] = <<i, r + 1>>
  BY <1>0 DEF First
<1>2. i \in 1..Len(q) /\ q[i] \in Nat
  BY <1>0, <1>1, Inside
<1>3. /\ u \in Seq(Octet) /\ v \in Seq(Octet) /\ Len(u) = n /\ Len(v) = l - n
      /\ \A k \in 1..n : u[k] = s[k]
      /\ \A k \in 1..(l - n) : v[k] = s[n + k]
  BY <1>0, TakeDrop
<1>4. /\ \A j, k \in 1..l : j < k => Apart(q, s[j], s[k], k - j)
      /\ \A j \in 1..l : Apart(q, s[j], o, l + 1 - j)
  BY DEF Straight
<1> HIDE DEF l, u, v
<1>r. r + n <= q[i] /\ r \in Nat
  OBVIOUS
<1>g. Gap(q, s[1]) = q[i] - (r + 1)
  BY <1>1 DEF Gap
<1>5. ASSUME NEW k \in 1..n PROVE s[k] = <<i, r + k>>
  <2>1. CASE k = 1
    BY <1>1, <2>1
  <2>2. CASE k > 1
    <3>1. k \in 1..l /\ k - 1 <= q[i] - (r + 1) /\ r + 1 + (k - 1) = r + k
      BY <1>0, <1>2, <2>2
    <3>2. Apart(q, s[1], s[k], k - 1)
      BY <1>0, <1>4, <2>2, <3>1
    <3>3. s[k] = <<s[1][1], s[1][2] + (k - 1)>>
      BY ONLY <1>g, <3>1, <3>2 DEF Apart
    <3>4. s[1][1] = i /\ s[1][2] = r + 1
      BY <1>1
    <3> QED
      BY ONLY <3>1, <3>3, <3>4, Zenon
  <2> QED
    BY <2>1, <2>2
<1>6. IsRun(u, i, r)
  BY <1>3, <1>5 DEF IsRun
<1>7. Straight(q, v, o)
  <2>1. ASSUME NEW j \in 1..(l - n), NEW k \in 1..(l - n), j < k
        PROVE  Apart(q, v[j], v[k], k - j)
    <3> DEFINE b == n + j
               c == n + k
    <3>1. b \in 1..l /\ c \in 1..l /\ b < c /\ c - b = k - j
      BY <1>0, <2>1
    <3>2. v[j] = s[b] /\ v[k] = s[c]
      BY <1>3
    <3> HIDE DEF b, c
    <3>3. Apart(q, s[b], s[c], c - b)
      BY <1>4, <3>1
    <3> QED
      BY ONLY <3>1, <3>2, <3>3, Zenon
  <2>2. ASSUME NEW j \in 1..(l - n) PROVE Apart(q, v[j], o, l - n + 1 - j)
    <3> DEFINE b == n + j
    <3>1. b \in 1..l /\ l + 1 - b = l - n + 1 - j
      BY <1>0
    <3>2. v[j] = s[b]
      BY <1>3
    <3> HIDE DEF b
    <3>3. Apart(q, s[b], o, l + 1 - b)
      BY <1>4, <3>1
    <3> QED
      BY ONLY <3>1, <3>2, <3>3, Zenon
  <2> QED
    BY <1>3, <2>1, <2>2 DEF Straight
<1>8. First(v, o) = After(q, i, r + n)
  <2>1. Apart(q, s[1], First(v, o), n)
    <3>1. CASE n = l
      <4>1. v = <<>>
        BY <1>0, <1>3, <3>1
      <4>2. Apart(q, s[1], o, l + 1 - 1) /\ l + 1 - 1 = n
        BY <1>0, <1>4, <3>1
      <4> QED
        BY ONLY <4>1, <4>2, Zenon DEF First
    <3>2. CASE n < l
      <4> DEFINE c == n + 1
      <4>1. 1 \in 1..(l - n) /\ c \in 1..l /\ 1 < c /\ c - 1 = n /\ Len(v) > 0
        BY <1>0, <1>3, <3>2
      <4>2. v[1] = s[c] /\ v # <<>>
        BY <1>3, <4>1
      <4> HIDE DEF c
      <4>3. Apart(q, s[1], s[c], c - 1)
        BY <1>0, <1>4, <4>1
      <4> QED
        BY ONLY <4>1, <4>2, <4>3, Zenon DEF First
    <3> QED
      BY <1>0, <3>1, <3>2
  <2> DEFINE f == First(v, o)
  <2> HIDE DEF f
  <2>2. Apart(q, s[1], f, n) /\ s[1][1] = i /\ s[1][2] = r + 1
    BY <1>1, <2>1 DEF f
  <2>3. CASE r + n < q[i]
    <3>1. n <= q[i] - (r + 1) /\ r + 1 + n = r + n + 1
      BY <1>0, <1>2, <2>3
    <3>2. f = <<s[1][1], s[1][2] + n>>
      BY ONLY <1>g, <2>2, <3>1 DEF Apart
    <3>3. f = <<i, r + n + 1>>
      BY ONLY <2>2, <3>1, <3>2, Zenon
    <3> QED
      BY <2>3, <3>3 DEF After, f
  <2>4. CASE ~(r + n < q[i])
    <3>1. n = q[i] - (r + 1) + 1
      BY ONLY <1>0, <1>2, <1>r, <2>4
    <3>2. f = <<s[1][1] + 1, 1>>
      BY ONLY <1>g, <2>2, <3>1 DEF Apart
    <3> QED
      BY <2>2, <2>4, <3>2 DEF After, f
  <2> QED
    BY <2>3, <2>4
<1> QED
  BY <1>2, <1>6, <1>7, <1>8 DEF u, v

\* A thread brings m octets more of the last message.
LEMMA PutLine ==
  ASSUME NEW q \in Seq(Nat), sent' = q, NEW i \in 1..Len(q), i = Len(q),
         NEW a \in 1..q[i], NEW m \in 0..(q[i] - a + 1), NEW t \in Threads,
         rest \in [Threads -> Seq(Octet)], Put(t, Octets(i, a, q[i]), m),
         \A u \in Threads \ {t} : rest[u] = <<>>,
         Valid(q, buf), Straight(q, buf, <<i, a>>)
  PROVE  \E w \in Octet : /\ NextOctet(w)' /\ Straight(q, buf', w)
                          /\ First(buf', w) = First(buf, <<i, a>>)
<1> DEFINE h == q[i]
           w == After(q, i, a + m - 1)
           b == a + m
<1>0. h \in Nat /\ i \in Nat /\ i >= 1
  OBVIOUS
<1>1. a \in Nat /\ a >= 1 /\ a <= h /\ m \in Nat /\ a + m - 1 <= h /\ a <= h + 1
      /\ m \in 0..(h - a + 1)
  BY <1>0
<1>2. Take(Octets(i, a, h), m) = Octets(i, a, a + m - 1) /\ Drop(Octets(i, a, h), m) = Octets(i, b, h)
  <2> HIDE DEF h
  <2>1. i \in Nat /\ a \in Nat /\ h \in Nat /\ a <= h + 1 /\ a >= 1 /\ m \in 0..(h - a + 1)
    BY ONLY <1>0, <1>1
  <2> QED
    BY ONLY <2>1, TakeOctets
<1>3. buf' = buf \o Octets(i, a, a + m - 1) /\ rest' = [rest EXCEPT ![t] = Octets(i, b, h)]
  BY <1>2 DEF Put
<1>4. Straight(q, buf', w) /\ First(buf', w) = First(buf, <<i, a>>)
  BY <1>1, <1>3, Extend
<1>5. rest'[t] = Octets(i, b, h) /\ \A u \in Threads \ {t} : rest'[u] = <<>>
  BY <1>3
<1>6. b \in Nat /\ b >= 1 /\ b <= h + 1 /\ (a + m - 1 < h <=> b <= h) /\ a + m - 1 + 1 = b
  BY <1>0, <1>1
<1>7. /\ Octets(i, b, h) \in Seq(Octet) /\ Len(Octets(i, b, h)) = h - b + 1
  <2> HIDE DEF b, h
  <2> QED
    BY <1>0, <1>6, OctetsFact
<1>8. CASE b <= h
  <2>1. w = <<i, b>>
    BY <1>6, <1>8 DEF After
  <2>2. Len(Octets(i, b, h)) > 0 /\ b \in 1..h
    <3> HIDE DEF b, h
    <3> QED
      BY <1>0, <1>6, <1>7, <1>8
  <2>3. rest'[t] # <<>>
    BY <1>5, <2>2
  <2> HIDE DEF b, w
  <2>4. w \in Octet /\ w[1] = i /\ w[2] = b
    BY <1>0, <1>6, <2>1 DEF Octet
  <2>5. NextOctet(w)'
    <3>1. ~(\A u \in Threads : rest'[u] = <<>>)
      BY <2>3
    <3>2. \A u \in Threads : rest'[u] # <<>> => u = t
      BY <1>5
    <3> QED
      BY <1>0, <1>5, <2>2, <2>4, <3>1, <3>2 DEF NextOctet
  <2> QED
    BY <1>4, <2>4, <2>5
<1>9. CASE ~(b <= h)
  <2>1. w = <<i + 1, 1>>
    BY <1>6, <1>9 DEF After
  <2>2. Len(Octets(i, b, h)) = 0
    <3> HIDE DEF b, h
    <3> QED
      BY <1>0, <1>6, <1>7, <1>9
  <2>3. rest'[t] = <<>>
    BY <1>5, <1>7, <2>2
  <2> HIDE DEF w
  <2>4. w \in Octet
    BY <1>0, <2>1 DEF Octet
  <2>5. NextOctet(w)'
    <3>1. \A u \in Threads : rest'[u] = <<>>
      BY <1>5, <2>3
    <3> QED
      BY <2>1, <3>1 DEF NextOctet
  <2> QED
    BY <1>4, <2>4, <2>5
<1> QED
  BY <1>8, <1>9

\* What writers do is of no concern to the reader, if the stream stays straight.
LEMMA WriterKeeps ==
  ASSUME StreamType, Line, UNCHANGED <<dir, ended, reader, hdr, body, delivered>>,
         sent' \in Seq(Nat), Len(sent) <= Len(sent'),
         \A i \in 1..Len(sent) : sent'[i] = sent[i],
         \A o \in Octet : NextOctet(o) /\ Straight(sent, buf, o) =>
             \E w \in Octet : /\ NextOctet(w)' /\ Straight(sent', buf', w)
                              /\ First(buf', w) = First(buf, o)
  PROVE  Line'
<1>0. Len(sent) \in Nat /\ Len(sent') \in Nat /\ Len(delivered) \in Nat
  BY DEF StreamType, LengthsOK, ReaderOK
<1>1. Whole'
  <2>1. Whole
    BY DEF Line
  <2> QED
    BY <1>0, <2>1 DEF Whole
<1>2. Reason'
  <2>1. Reason
    BY DEF Line
  <2>2. Len(delivered) < Len(sent) => Len(delivered) < Len(sent') /\ Len(delivered) + 1 \in 1..Len(sent)
    BY <1>0
  <2> QED
    BY <2>1, <2>2 DEF Reason
<1>3. ASSUME reader \in {"len", "body"} PROVE Reading'
  <2>1. Reading
    BY <1>3 DEF Line
  <2>2. PICK o \in Octet : /\ NextOctet(o) /\ Straight(sent, buf, o)
           /\ First(buf, o) = <<Len(delivered) + 1, Len(hdr) + Len(body) + 1>>
    BY <2>1 DEF Reading
  <2>3. PICK w \in Octet : NextOctet(w)' /\ Straight(sent', buf', w) /\ First(buf', w) = First(buf, o)
    BY <2>2
  <2> QED
    BY <2>1, <2>2, <2>3 DEF Reading
<1> QED
  BY <1>1, <1>2, <1>3 DEF Line

LEMMA LineInit == Init => LineInv
<1> SUFFICES ASSUME Init PROVE LineInv
  OBVIOUS
<1>1. \A t \in Threads : rest[t] = <<>>
  BY DEF Init
<1>2. Whole /\ Reason
  BY DEF Init, Whole, Reason
<1>3. Reading
  <2> DEFINE o == <<Len(sent) + 1, 1>>
  <2>1. Len(sent) = 0 /\ Len(delivered) = 0 /\ Len(hdr) = 0 /\ Len(body) = 0 /\ buf = <<>>
    BY DEF Init
  <2>2. NextOctet(o)
    BY <1>1 DEF NextOctet
  <2>3. Straight(sent, buf, o)
    BY <2>1 DEF Straight
  <2>4. o \in Octet /\ First(buf, o) = <<Len(delivered) + 1, Len(hdr) + Len(body) + 1>>
    BY <2>1 DEF Octet, First
  <2>5. IsRun(hdr, Len(delivered) + 1, 0) /\ IsRun(body, Len(delivered) + 1, HdrSize)
    BY <2>1 DEF IsRun
  <2> QED
    BY <2>2, <2>3, <2>4, <2>5 DEF Reading
<1> QED
  BY <1>1, <1>2, <1>3, Zenon DEF LineInv, Line

\* A thread starts a message of m octets and writes n of them.
LEMMA StartLine ==
  ASSUME StreamType, LengthsOK', Line, \A u \in Threads : rest[u] = <<>>,
         NEW t \in Threads, NEW m \in Nat, m > HdrSize, sent' = Append(sent, m),
         NEW n \in 0..m, Put(t, Octets(Len(sent'), 1, m), n),
         UNCHANGED <<dir, ended, reader, hdr, body, delivered>>
  PROVE  Line'
<1> DEFINE q == sent'
           i == Len(q)
<1>1. sent \in Seq(Nat) /\ Len(sent) \in Nat /\ Valid(sent, buf) /\ rest \in [Threads -> Seq(Octet)]
  BY DEF StreamType, LengthsOK, BuffersOK
<1>2. /\ q \in Seq(Nat) /\ i = Len(sent) + 1 /\ q[i] = m /\ i \in 1..Len(q)
      /\ \A k \in 1..Len(sent) : q[k] = sent[k]
  BY <1>1
<1>3. Valid(q, buf)
  BY <1>1, ValidMore
<1>4. 1 \in 1..m /\ n \in 0..(m - 1 + 1) /\ Len(sent) <= i
  BY <1>1, <1>2, SizeFact
<1>5. ASSUME NEW o \in Octet, NextOctet(o), Straight(sent, buf, o)
      PROVE  \E w \in Octet : /\ NextOctet(w)' /\ Straight(q, buf', w)
                              /\ First(buf', w) = First(buf, o)
  <2>1. o = <<i, 1>>
    BY <1>2, <1>5 DEF NextOctet
  <2>2. Straight(q, buf, <<i, 1>>)
    BY <1>1, <1>5, <2>1, StraightMore
  <2>3. Put(t, Octets(i, 1, q[i]), n) /\ \A u \in Threads \ {t} : rest[u] = <<>>
    BY <1>2
  <2>4. PICK a : a = 1
    OBVIOUS
  <2>5. a \in 1..q[i] /\ n \in 0..(q[i] - a + 1) /\ Put(t, Octets(i, a, q[i]), n)
        /\ Straight(q, buf, <<i, a>>) /\ o = <<i, a>>
    BY <1>2, <1>4, <2>1, <2>2, <2>3, <2>4
  <2>6. PICK p : p = q
    OBVIOUS
  <2>7. PICK l : l = i
    OBVIOUS
  <2>8. /\ p \in Seq(Nat) /\ sent' = p /\ l \in 1..Len(p) /\ l = Len(p) /\ a \in 1..p[l]
        /\ n \in 0..(p[l] - a + 1) /\ Put(t, Octets(l, a, p[l]), n)
        /\ Valid(p, buf) /\ Straight(p, buf, <<l, a>>)
    BY <1>2, <1>3, <2>5, <2>6, <2>7
  <2> HIDE DEF q, i
  <2>9. \E w \in Octet : NextOctet(w)' /\ Straight(p, buf', w) /\ First(buf', w) = First(buf, <<l, a>>)
    BY ONLY <1>1, <2>3, <2>8, t \in Threads, PutLine
  <2> QED
    BY <2>5, <2>6, <2>7, <2>9
<1> QED
  BY <1>2, <1>4, <1>5, WriterKeeps

LEMMA ResumeLine ==
  ASSUME StreamType, Line, NEW t \in Threads, rest[t] # <<>>,
         NEW n \in 0..Len(rest[t]), Put(t, rest[t], n),
         UNCHANGED <<dir, sent, ended, reader, hdr, body, delivered>>
  PROVE  Line'
<1>1. sent \in Seq(Nat) /\ Len(sent) \in Nat /\ Valid(sent, buf) /\ rest \in [Threads -> Seq(Octet)]
  BY DEF StreamType, LengthsOK, BuffersOK
<1>5. ASSUME NEW o \in Octet, NextOctet(o), Straight(sent, buf, o)
      PROVE  \E w \in Octet : /\ NextOctet(w)' /\ Straight(sent', buf', w)
                              /\ First(buf', w) = First(buf, o)
  <2>1. PICK p, l, a : p = sent /\ l = Len(sent) /\ a = o[2]
    OBVIOUS
  <2>2. /\ o[1] = l /\ l >= 1 /\ a \in 1..p[l] /\ rest[t] = Octets(l, a, p[l])
        /\ \A u \in Threads \ {t} : rest[u] = <<>>
    BY <1>5, <2>1 DEF NextOctet
  <2>3. o = <<l, a>>
    BY <2>1, <2>2 DEF Octet
  <2>4. p \in Seq(Nat) /\ l \in 1..Len(p) /\ l = Len(p) /\ sent' = p /\ l \in Nat
        /\ Valid(p, buf) /\ Straight(p, buf, <<l, a>>)
    BY <1>1, <1>5, <2>1, <2>2, <2>3
  <2>5. p[l] \in Nat
    BY <2>4
  <2>6. PICK h : h = p[l]
    OBVIOUS
  <2>7. h \in Nat /\ a \in Nat /\ a >= 1 /\ a <= h + 1
    BY ONLY <2>2, <2>5, <2>6
  <2>8. Len(Octets(l, a, h)) = h - a + 1
    BY ONLY <2>4, <2>7, OctetsFact
  <2>9. n \in 0..(p[l] - a + 1) /\ Put(t, Octets(l, a, p[l]), n)
    BY <2>2, <2>6, <2>8
  <2>10. \E w \in Octet : NextOctet(w)' /\ Straight(p, buf', w) /\ First(buf', w) = First(buf, <<l, a>>)
    BY ONLY <1>1, <2>2, <2>4, <2>9, t \in Threads, PutLine
  <2> QED
    BY <2>3, <2>4, <2>10
<1> QED
  BY <1>1, <1>5, WriterKeeps

\* The controller queues a whole message.
LEMMA SendLine ==
  ASSUME StreamType, Line, \A u \in Threads : rest[u] = <<>>,
         NEW m \in Nat, m > HdrSize, sent' = Append(sent, m),
         buf' = buf \o Octets(Len(sent'), 1, m),
         UNCHANGED <<dir, rest, ended, reader, hdr, body, delivered>>
  PROVE  Line'
<1>1. sent \in Seq(Nat) /\ Len(sent) \in Nat /\ Valid(sent, buf)
  BY DEF StreamType, LengthsOK, BuffersOK
<1>2. PICK q, i : q = sent' /\ i = Len(sent')
  OBVIOUS
<1>3. /\ q \in Seq(Nat) /\ i = Len(sent) + 1 /\ q[i] = m /\ i \in 1..Len(q) /\ i \in Nat
      /\ \A k \in 1..Len(sent) : q[k] = sent[k]
  BY <1>1, <1>2
<1>4. Valid(q, buf) /\ Len(sent) <= i
  BY <1>1, <1>2, <1>3, ValidMore
<1>5. ASSUME NEW o \in Octet, NextOctet(o), Straight(sent, buf, o)
      PROVE  \E w \in Octet : /\ NextOctet(w)' /\ Straight(q, buf', w)
                              /\ First(buf', w) = First(buf, o)
  <2>1. o = <<i, 1>>
    BY <1>3, <1>5 DEF NextOctet
  <2>2. Straight(q, buf, <<i, 1>>)
    BY <1>1, <1>2, <1>5, <2>1, StraightMore
  <2>3. PICK a : a = 1
    OBVIOUS
  <2>4. a \in 1..q[i] /\ a + m - 1 = m /\ a + m - 1 <= q[i]
    BY <1>3, <2>3, SizeFact
  <2> DEFINE w == After(q, i, a + m - 1)
  <2>5. buf' = buf \o Octets(i, a, a + m - 1)
    BY <1>2, <2>3, <2>4
  <2>6. Straight(q, buf', w) /\ First(buf', w) = First(buf, <<i, a>>)
    <3>1. Straight(q, buf, <<i, a>>)
      BY <2>2, <2>3
    <3>2. /\ Straight(q, buf \o Octets(i, a, a + m - 1), w)
          /\ First(buf \o Octets(i, a, a + m - 1), w) = First(buf, <<i, a>>)
      <4>1. q \in Seq(Nat) /\ Valid(q, buf) /\ i \in 1..Len(q) /\ m \in Nat
        BY <1>3, <1>4
      <4> QED
        BY ONLY <2>4, <3>1, <4>1, Extend, Zenon
    <3> QED
      BY ONLY <2>5, <3>2, Zenon
  <2>7. w = <<i + 1, 1>>
    BY <1>3, <2>4 DEF After
  <2> HIDE DEF w
  <2>8. w \in Octet /\ NextOctet(w)'
    BY <1>2, <1>3, <2>7 DEF Octet, NextOctet
  <2> QED
    BY <2>1, <2>3, <2>6, <2>8
<1> QED
  BY <1>2, <1>3, <1>4, <1>5, WriterKeeps

\* The next n octets are those of the message that the reader reads.
LEMMA ReadAhead ==
  ASSUME StreamType, Line, reader \in {"len", "body"}, NEW n \in 1..Len(buf),
         buf' = Drop(buf, n), UNCHANGED <<sent, rest>>,
         NEW i, i = Len(delivered) + 1, NEW r, r = Len(hdr) + Len(body), r + n <= sent[i]
  PROVE  /\ i \in 1..Len(sent) /\ sent[i] \in Nat /\ i \in Nat /\ r \in Nat
         /\ IsRun(Take(buf, n), i, r)
         /\ \E o \in Octet : /\ NextOctet(o)' /\ Straight(sent, buf', o)
                             /\ First(buf', o) = After(sent, i, r + n)
<1>1. sent \in Seq(Nat) /\ Valid(sent, buf) /\ i \in Nat /\ r \in Nat
  BY DEF StreamType, LengthsOK, BuffersOK, ReaderOK, Valid
<1>2. PICK o \in Octet : NextOctet(o) /\ Straight(sent, buf, o) /\ First(buf, o) = <<i, r + 1>>
  BY DEF Line, Reading
<1>3. NextOctet(o)'
  BY <1>2 DEF NextOctet
<1>4. /\ i \in 1..Len(sent) /\ sent[i] \in Nat
      /\ IsRun(Take(buf, n), i, r)
      /\ Straight(sent, Drop(buf, n), o)
      /\ First(Drop(buf, n), o) = After(sent, i, r + n)
  BY <1>1, <1>2, Advance
<1> QED
  BY <1>1, <1>3, <1>4

\* Any octet of the stream is one of the message that the reader reads.
LEMMA ReadsNext ==
  ASSUME StreamType, Line, reader \in {"len", "body"}, NEW n \in 1..Len(buf)
  PROVE  Len(delivered) + 1 \in 1..Len(sent)
<1>1. sent \in Seq(Nat) /\ Valid(sent, buf) /\ 1 \in 1..Len(buf)
  BY DEF StreamType, LengthsOK, BuffersOK, Valid
<1>2. PICK o \in Octet : First(buf, o) = <<Len(delivered) + 1, Len(hdr) + Len(body) + 1>>
  BY DEF Line, Reading
<1>3. buf[1] = <<Len(delivered) + 1, Len(hdr) + Len(body) + 1>>
  BY <1>1, <1>2 DEF First
<1> QED
  BY <1>1, <1>3, Inside

LEMMA ReadLengthLine ==
  ASSUME StreamType, StreamType', Line, NEW n \in 1..Len(buf), ReadLength(n)
  PROVE  Line'
<1>1. /\ reader = "len" /\ n <= HdrSize - Len(hdr) /\ body = <<>> /\ body' = <<>>
      /\ hdr' = hdr \o Take(buf, n) /\ buf' = Drop(buf, n)
      /\ reader' = IF Len(hdr') < HdrSize THEN "len" ELSE AfterLength(hdr')
      /\ UNCHANGED <<dir, sent, rest, ended, delivered>>
      /\ Valid(sent, hdr)
  BY DEF ReadLength, StreamType, ReaderOK, BuffersOK, sender
<1>2. PICK i, r : i = Len(delivered) + 1 /\ r = Len(hdr) + Len(body)
  OBVIOUS
<1>3. /\ Len(hdr) \in Nat /\ n \in Nat /\ r = Len(hdr) /\ HdrSize \in Nat /\ HdrSize >= 1
      /\ i \in 1..Len(sent) /\ sent[i] \in Nat /\ sent[i] > HdrSize
  <2>1. i \in 1..Len(sent)
    BY <1>1, <1>2, ReadsNext
  <2>2. sent[i] \in Nat /\ sent[i] > HdrSize
    BY <2>1 DEF StreamType, LengthsOK
  <2> QED
    BY <1>1, <1>2, <2>1, <2>2, SizeFact DEF Valid
<1>4. r + n <= HdrSize /\ r + n < sent[i] /\ r + n <= sent[i]
  BY <1>1, <1>3
<1>5. /\ i \in Nat /\ r \in Nat /\ IsRun(Take(buf, n), i, r)
  BY <1>1, <1>2, <1>4, ReadAhead
<1>6. PICK o \in Octet : NextOctet(o)' /\ Straight(sent, buf', o) /\ First(buf', o) = <<i, r + n + 1>>
  <2>1. \E o \in Octet : NextOctet(o)' /\ Straight(sent, buf', o) /\ First(buf', o) = After(sent, i, r + n)
    BY <1>1, <1>2, <1>4, ReadAhead
  <2> QED
    BY <1>4, <2>1 DEF After
<1>7. Len(hdr') = r + n /\ hdr' \in Seq(Octet)
  BY <1>1, <1>3, Gather DEF Valid
<1>8. IsRun(hdr', i, 0)
  <2>1. hdr \in Seq(Octet) /\ IsRun(hdr, i, 0) /\ 0 \in Nat /\ r = 0 + Len(hdr)
    BY <1>1, <1>2, <1>3 DEF Valid, Line, Reading
  <2>2. Take(buf, n) \in Seq(Octet)
    BY TakeDrop DEF StreamType, BuffersOK, Valid
  <2> QED
    BY <1>1, <1>5, <2>1, <2>2, RunConcat
<1>9. Reading'
  <2>1. IsRun(body', i, HdrSize)
    BY <1>1 DEF IsRun
  <2>2. Len(hdr') + Len(body') + 1 = r + n + 1
    BY <1>1, <1>3, <1>7
  <2> QED
    BY <1>1, <1>2, <1>6, <1>8, <2>1, <2>2 DEF Reading
<1>10. ASSUME ~(Len(hdr') < HdrSize)
       PROVE  reader' = IF sent[i] > MaxLen THEN "closed" ELSE "body"
  <2>1. Len(hdr') = HdrSize /\ 1 \in 1..Len(hdr')
    BY <1>3, <1>4, <1>7, <1>10
  <2>2. hdr'[1] = <<i, 0 + 1>>
    BY <1>8, <2>1 DEF IsRun
  <2>3. hdr'[1][1] = i
    BY <2>2
  <2>4. hdr' = Octets(i, 1, HdrSize)
    BY <1>3, <1>5, <1>7, <1>8, <2>1, RunIsOctets
  <2>5. AfterLength(hdr') = IF sent[i] > MaxLen THEN "closed" ELSE "body"
    BY ONLY <2>3, <2>4, <1>1 DEF AfterLength, IsLength, TooLong
  <2> QED
    BY <1>1, <1>10, <2>5
<1>11. reader' \in {"len", "closed", "body"}
       /\ (reader' = "closed" => sent[i] > MaxLen)
  BY <1>1, <1>10
<1>12. Whole'
  BY <1>1, <1>11 DEF Line, Whole
<1>13. Reason'
  <2> SUFFICES ASSUME reader' = "closed"
               PROVE  dir = "down" /\ Len(delivered) < Len(sent) /\ sent[Len(delivered) + 1] > MaxLen
    BY <1>1 DEF Reason
  <2>1. sent[i] > MaxLen
    BY <1>11
  <2>2. dir # "down" => sent[i] <= MaxLen
    BY <1>3 DEF StreamType, LengthsOK
  <2>3. dir = "down"
    BY <1>3, <2>1, <2>2, SizeFact
  <2>4. Len(delivered) < Len(sent)
    BY <1>2, <1>3 DEF StreamType, LengthsOK, ReaderOK
  <2> QED
    BY <1>2, <2>1, <2>3, <2>4
<1> QED
  BY <1>9, <1>12, <1>13 DEF Line

LEMMA ReadBodyLine ==
  ASSUME StreamType, StreamType', Line, NEW n \in 1..Len(buf), ReadBody(n)
  PROVE  /\ Line'
         /\ delivered' # delivered =>
                Len(delivered') = Len(delivered) + 1 /\ Len(delivered) < Len(sent)
<1> DEFINE b == body \o Take(buf, n)
<1>1. /\ reader = "body" /\ n <= Wanted - Len(body) /\ Len(hdr) = HdrSize
      /\ buf' = Drop(buf, n) /\ UNCHANGED <<dir, sent, rest, ended>>
      /\ Valid(sent, hdr) /\ Valid(sent, body)
  BY DEF ReadBody, StreamType, ReaderOK, BuffersOK, sender
<1>2. PICK i, r : i = Len(delivered) + 1 /\ r = Len(hdr) + Len(body)
  OBVIOUS
<1>3. i \in 1..Len(sent) /\ sent[i] \in Nat /\ sent[i] > HdrSize
  <2>1. i \in 1..Len(sent)
    BY <1>1, <1>2, ReadsNext
  <2> QED
    BY <2>1 DEF StreamType, LengthsOK
<1>4. /\ Len(hdr) \in Nat /\ Len(body) \in Nat /\ n \in Nat /\ HdrSize \in Nat /\ HdrSize >= 1
      /\ r = HdrSize + Len(body) /\ hdr \in Seq(Octet) /\ body \in Seq(Octet)
      /\ Take(buf, n) \in Seq(Octet)
  <2>1. buf \in Seq(Octet) /\ n \in 0..Len(buf)
    BY DEF StreamType, BuffersOK, Valid
  <2> QED
    BY <1>1, <1>2, <2>1, SizeFact, TakeDrop DEF Valid
<1>5. IsRun(hdr, i, 0) /\ IsRun(body, i, HdrSize)
  BY <1>1, <1>2 DEF Line, Reading
<1>6. Wanted = sent[i] - HdrSize
  <2>1. 1 \in 1..Len(hdr)
    BY <1>1, <1>4
  <2>2. hdr[1] = <<i, 0 + 1>>
    BY <1>5, <2>1 DEF IsRun
  <2> QED
    BY <2>2 DEF Wanted
<1>7. r + n <= sent[i]
  BY <1>1, <1>3, <1>4, <1>6
<1>8. i \in Nat /\ r \in Nat /\ IsRun(Take(buf, n), i, r)
  BY <1>1, <1>2, <1>7, ReadAhead
<1>9. PICK o \in Octet : /\ NextOctet(o)' /\ Straight(sent, buf', o)
                         /\ First(buf', o) = After(sent, i, r + n)
  <2>1. \E o \in Octet : NextOctet(o)' /\ Straight(sent, buf', o) /\ First(buf', o) = After(sent, i, r + n)
    BY <1>1, <1>2, <1>7, ReadAhead
  <2> QED
    BY <2>1
<1>10. b \in Seq(Octet) /\ Len(b) = Len(body) + n
  BY <1>1, Gather DEF Valid
<1>11. IsRun(b, i, HdrSize)
  BY <1>4, <1>5, <1>8, RunConcat
<1>12. Whole /\ Len(delivered) \in Nat /\ Len(sent) \in Nat
  BY DEF Line, StreamType, LengthsOK, ReaderOK
<1> HIDE DEF b
<1>w. (Len(b) < Wanted <=> r + n < sent[i]) /\ HdrSize + Len(b) = r + n
  <2>1. PICK w, l, m, q : w = Wanted /\ l = Len(body) /\ m = Len(b) /\ q = sent[i]
    OBVIOUS
  <2>2. l \in Nat /\ n \in Nat /\ HdrSize \in Nat /\ q \in Nat /\ r = HdrSize + l /\ m = l + n
        /\ w = q - HdrSize
    BY <1>3, <1>4, <1>6, <1>10, <2>1
  <2>3. (m < w <=> r + n < q) /\ HdrSize + m = r + n
    BY ONLY <2>2
  <2> QED
    BY <2>1, <2>3
<1>13. CASE Len(b) < Wanted
  <2>1. body' = b /\ UNCHANGED <<reader, hdr, delivered>>
    BY <1>13 DEF ReadBody, b
  <2>2. r + n < sent[i] /\ Len(hdr') + Len(body') + 1 = r + n + 1
    <3>1. Len(hdr') = HdrSize /\ Len(body') = Len(b)
      BY <1>1, <2>1
    <3> QED
      BY <1>w, <1>13, <3>1
  <2>3. First(buf', o) = <<i, r + n + 1>>
    BY <1>9, <2>2 DEF After
  <2>4. Reading'
    BY <1>1, <1>2, <1>5, <1>9, <1>11, <2>1, <2>2, <2>3 DEF Reading
  <2>5. Whole' /\ Reason'
    BY <1>1, <1>12, <2>1 DEF Whole, Reason
  <2> QED
    BY <2>1, <2>4, <2>5 DEF Line
<1>14. CASE ~(Len(b) < Wanted)
  <2>1. /\ delivered' = Append(delivered, hdr \o b)
        /\ reader' = "len" /\ hdr' = <<>> /\ body' = <<>>
    BY <1>14 DEF ReadBody, b
  <2>2. r + n = sent[i] /\ HdrSize + Len(b) = sent[i]
    <3>1. PICK q : q = sent[i]
      OBVIOUS
    <3>2. ~(r + n < q) /\ r + n <= q /\ q \in Nat /\ r \in Nat /\ n \in Nat
      BY <1>3, <1>4, <1>7, <1>8, <1>w, <1>14, <3>1, Zenon
    <3>3. r + n = q
      BY ONLY <3>2
    <3> QED
      BY <1>w, <3>1, <3>3, Zenon
  <2>3. First(buf', o) = <<i + 1, 1>>
    BY <1>3, <1>9, <2>2 DEF After
  <2>4. hdr \o b \in Seq(Octet) /\ Len(hdr \o b) = sent[i]
    BY <1>1, <1>4, <1>10, <2>2, ConcatProperties
  <2>5. IsRun(hdr \o b, i, 0)
    <3>1. HdrSize = 0 + Len(hdr) /\ 0 \in Nat
      BY <1>1, <1>4
    <3> QED
      BY <1>4, <1>5, <1>10, <1>11, <3>1, RunConcat
  <2>6. hdr \o b = Octets(i, 1, sent[i])
    BY <1>3, <1>8, <2>4, <2>5, RunIsOctets
  <2>7. delivered \in Seq(Seq(Octet))
    BY DEF StreamType, ReaderOK
  <2>8. /\ Len(delivered') = i /\ delivered'[i] = Octets(i, 1, sent[i])
        /\ \A k \in 1..Len(delivered) : delivered'[k] = delivered[k]
    BY <1>2, <2>1, <2>4, <2>6, <2>7
  <2>9. \A k \in 1..i : k = i \/ k \in 1..Len(delivered)
    BY <1>2, <1>12
  <2>10. Whole'
    BY <1>1, <1>3, <1>12, <2>1, <2>8, <2>9 DEF Whole
  <2>11. Len(hdr') + Len(body') + 1 = 1
    BY <2>1
  <2>12. Reading'
    BY <1>1, <1>9, <2>1, <2>3, <2>8, <2>11 DEF Reading, IsRun
  <2>13. Len(delivered) < Len(sent)
    BY <1>2, <1>3, <1>12
  <2> QED
    BY <1>2, <2>1, <2>8, <2>10, <2>12, <2>13 DEF Line, Reason
<1> QED
  BY <1>13, <1>14

LEMMA LineNext == StreamType /\ StreamType' /\ LineInv /\ [Next]_vars => LineInv'
<1> SUFFICES ASSUME StreamType, StreamType', LineInv, [Next]_vars PROVE LineInv'
  OBVIOUS
<1>0. /\ dir = "down" => \A t \in Threads : rest[t] = <<>>
      /\ ~overlap => Line
      /\ LengthsOK'
  BY DEF LineInv, StreamType
<1>1. ASSUME NEW n \in Lens, Send(n) PROVE LineInv'
  <2>1. /\ dir = "down" /\ sent' = Append(sent, n) /\ buf' = buf \o Octets(Len(sent'), 1, n)
        /\ UNCHANGED <<dir, rest, ended, reader, hdr, body, delivered, overlap>>
        /\ n \in Nat /\ n > HdrSize
    BY <1>1, SizeFact DEF Send
  <2>2. ~overlap => Line'
    BY <1>0, <2>1, SendLine
  <2> QED
    BY <1>0, <2>1, <2>2, Zenon DEF LineInv
<1>2. ASSUME NEW t \in Threads, NEW n \in Lens, Write(t, n) PROVE LineInv'
  <2>1. /\ dir = "up" /\ sent' = Append(sent, n) /\ Put(t, Octets(Len(sent'), 1, n), Room(n))
        /\ UNCHANGED <<dir, ended, reader, hdr, body, delivered>>
        /\ n \in Nat /\ n > HdrSize
    BY <1>2, SizeFact DEF Write
  <2>2. Room(n) \in 0..n
    BY <2>1, RoomFact
  <2>3. ~overlap' => ~overlap /\ \A u \in Threads : rest[u] = <<>>
    BY <1>2, Zenon DEF Write, Overlaps
  <2>4. ~overlap' => Line'
    BY <1>0, <2>1, <2>2, <2>3, StartLine
  <2> QED
    BY <2>1, <2>4 DEF LineInv
<1>3. ASSUME NEW t \in Threads, NEW n \in Lens, LogHeader(t, n) PROVE LineInv'
  <2>1. PICK m : m = Captured(n)
    OBVIOUS
  <2>2. /\ dir = "log" /\ sent' = Append(sent, m) /\ Put(t, Octets(Len(sent'), 1, m), HdrSize)
        /\ UNCHANGED <<dir, ended, reader, hdr, body, delivered>>
        /\ m \in Nat /\ m > HdrSize /\ HdrSize \in 0..m
    BY <1>3, <2>1, SizeFact DEF LogHeader
  <2>3. ~overlap' => ~overlap /\ \A u \in Threads : rest[u] = <<>>
    BY <1>3, Zenon DEF LogHeader, Overlaps
  <2>4. ~overlap' => Line'
    BY <1>0, <2>2, <2>3, StartLine
  <2> QED
    BY <2>2, <2>4 DEF LineInv
<1>4. ASSUME NEW t \in Threads, Resume(t) \/ LogData(t) PROVE LineInv'
  <2>1. Valid(sent, rest[t]) /\ Len(rest[t]) \in Nat
    BY DEF StreamType, BuffersOK, Valid
  <2>2. UNCHANGED <<dir, sent, overlap, ended, reader, hdr, body, delivered>>
        /\ rest[t] # <<>> /\ dir # "down"
    BY <1>4 DEF Resume, LogData
  <2>3. PICK n \in 0..Len(rest[t]) : Put(t, rest[t], n)
    <3>1. CASE Resume(t)
      BY <2>1, <3>1, RoomFact DEF Resume
    <3>2. CASE LogData(t)
      BY <2>1, <3>2 DEF LogData
    <3> QED
      BY <1>4, <3>1, <3>2
  <2>4. ~overlap => Line'
    BY <1>0, <2>2, <2>3, ResumeLine
  <2> QED
    BY <2>2, <2>4, Zenon DEF LineInv
<1>5. CASE HangUp
  <2>1. UNCHANGED <<dir, sent, buf, rest, overlap, reader, hdr, body, delivered>> /\ ended'
    BY <1>5 DEF HangUp
  <2>2. ASSUME Line PROVE Line'
    <3>1. Reading => Reading'
      BY <2>1 DEF Reading, NextOctet
    <3>2. Whole' /\ Reason'
      BY <2>1, <2>2 DEF Line, Whole, Reason
    <3> QED
      BY <2>1, <2>2, <3>1, <3>2 DEF Line
  <2> QED
    BY <1>0, <2>1, <2>2, Zenon DEF LineInv
<1>6. ASSUME NEW n \in 1..Len(buf), ReadLength(n) PROVE LineInv'
  <2>1. UNCHANGED <<dir, rest, overlap>>
    BY <1>6 DEF ReadLength, sender
  <2>2. ~overlap => Line'
    BY <1>0, <1>6, ReadLengthLine
  <2> QED
    BY <1>0, <2>1, <2>2, Zenon DEF LineInv
<1>7. ASSUME NEW n \in 1..Len(buf), ReadBody(n) PROVE LineInv'
  <2>1. UNCHANGED <<dir, rest, overlap>>
    BY <1>7 DEF ReadBody, sender
  <2>2. ~overlap => Line'
    BY <1>0, <1>7, ReadBodyLine
  <2> QED
    BY <1>0, <2>1, <2>2, Zenon DEF LineInv
<1>8. CASE ReadEof \/ ReadError
  <2>1. UNCHANGED <<dir, sent, rest, overlap, ended, buf, hdr, body, delivered>>
        /\ reader' \in {"spin", "closed"} /\ ended
    BY <1>8 DEF ReadEof, ReadError, sender
  <2>2. ASSUME Line PROVE Line'
    BY <2>1, <2>2 DEF Line, Whole, Reason
  <2> QED
    BY <1>0, <2>1, <2>2, Zenon DEF LineInv
<1>9. CASE UNCHANGED vars
  <2>1. UNCHANGED <<dir, sent, rest, overlap, ended, buf, hdr, body, delivered, reader>>
    BY <1>9 DEF vars, sender
  <2>2. ASSUME Line PROVE Line'
    BY <2>1, <2>2 DEF Line, Whole, Reason, Reading, NextOctet
  <2> QED
    BY <1>0, <2>1, <2>2, Zenon DEF LineInv
<1> QED
  BY <1>1, <1>2, <1>3, <1>4, <1>5, <1>6, <1>7, <1>8, <1>9 DEF Next, Read

StreamInv == StreamType /\ LineInv

LEMMA StreamInvariant == Spec => []StreamInv
<1>1. Init => StreamInv
  BY StreamTypeInit, LineInit DEF StreamInv
<1>2. StreamInv /\ [Next]_vars => StreamInv'
  BY StreamTypeNext, LineNext DEF StreamInv
<1> QED
  BY <1>1, <1>2, PTL DEF Spec

\* What sr_read_from_server_expect and the controller's library hand over are
\* the messages sent, whole and in order, as long as no thread starts a write
\* in the middle of another's: for any number of threads and messages, any
\* room in the socket, and reads and writes cut anywhere.
THEOREM MessagesWhole == Spec => []FramesWhole
<1>1. StreamInv => FramesWhole
  <2> SUFFICES ASSUME StreamInv, ~overlap
               PROVE  /\ reader # "astray"
                      /\ Len(delivered) <= Len(sent)
                      /\ \A i \in DOMAIN delivered : delivered[i] = Octets(i, 1, sent[i])
    BY DEF FramesWhole
  <2>1. Whole
    BY Zenon DEF StreamInv, LineInv, Line
  <2>2. DOMAIN delivered = 1..Len(delivered)
    BY DEF StreamInv, StreamType, ReaderOK
  <2> QED
    BY <2>1, <2>2 DEF Whole
<1> QED
  BY <1>1, StreamInvariant, PTL

\* The reader gives a connection up only when the sender has gone or when the
\* next message from the controller is longer than it accepts (the test of len
\* in sr_read_from_server_expect), unless threads have mixed their writes.
THEOREM GivesUpForReason == Spec => []ClosedForReason
<1>1. StreamInv => ClosedForReason
  BY Zenon DEF StreamInv, LineInv, Line, Reason, ClosedForReason
<1> QED
  BY <1>1, StreamInvariant, PTL

-----------------------------------------------------------------------------
(* The stream is a channel.                                                *)

Broken == overlap \/ ended \/ reader \notin {"len", "body"}

\* What a step of the stream is to the channel, while the channel is whole.
LEMMA ChannelSteps ==
  ASSUME StreamInv, StreamInv', [Next]_vars, ~Broken'
  PROVE  /\ ~Broken
         /\ \/ delivered' = delivered /\ \E m \in Messages : sent' = Append(sent, m)
            \/ /\ Len(delivered) < Len(sent) /\ Len(delivered') = Len(delivered) + 1
               /\ sent' = sent
            \/ UNCHANGED <<sent, delivered>>
<1> DEFINE Step == \/ delivered' = delivered /\ \E m \in Messages : sent' = Append(sent, m)
                   \/ /\ Len(delivered) < Len(sent) /\ Len(delivered') = Len(delivered) + 1
                      /\ sent' = sent
                   \/ UNCHANGED <<sent, delivered>>
<1>0. ~overlap' /\ ~ended' /\ reader' \in {"len", "body"}
  BY Zenon DEF Broken
<1>i. StreamType /\ StreamType' /\ (~overlap => Line)
  BY Zenon DEF StreamInv, LineInv
<1>1. ASSUME NEW n \in Lens, Send(n) PROVE ~Broken /\ Step
  <2>1. UNCHANGED <<overlap, ended, reader, delivered>> /\ sent' = Append(sent, n) /\ n \in Messages
    BY <1>1, SizeFact DEF Send
  <2>2. ~Broken
    BY <1>0, <2>1, Zenon DEF Broken
  <2> QED
    BY <2>1, <2>2, Zenon
<1>2. ASSUME NEW t \in Threads, NEW n \in Lens, Write(t, n) \/ LogHeader(t, n) PROVE ~Broken /\ Step
  <2>1. PICK m \in Messages : sent' = Append(sent, m)
    BY <1>2, SizeFact DEF Write, LogHeader
  <2>2. UNCHANGED <<ended, reader, delivered>>
    BY <1>2 DEF Write, LogHeader
  <2>3. ~overlap
    BY <1>0, <1>2, Zenon DEF Write, LogHeader, Overlaps
  <2>4. ~Broken
    BY <1>0, <2>2, <2>3, Zenon DEF Broken
  <2> QED
    BY <2>1, <2>2, <2>4, Zenon
<1>3. ASSUME NEW t \in Threads, Resume(t) \/ LogData(t) PROVE ~Broken /\ Step
  <2>1. UNCHANGED <<sent, overlap, ended, reader, delivered>>
    BY <1>3 DEF Resume, LogData
  <2>2. ~Broken
    BY <1>0, <2>1, Zenon DEF Broken
  <2> QED
    BY <2>1, <2>2, Zenon
<1>4. ASSUME HangUp \/ ReadEof \/ ReadError PROVE FALSE
  <2>1. ended' = TRUE \/ reader' \in {"spin", "closed"}
    BY <1>4 DEF HangUp, ReadEof, ReadError
  <2> QED
    BY <1>0, <2>1
<1>5. ASSUME NEW n \in 1..Len(buf), ReadLength(n) PROVE ~Broken /\ Step
  <2>1. UNCHANGED <<sent, overlap, ended, delivered>> /\ reader = "len"
    BY <1>5 DEF ReadLength, sender
  <2>2. ~Broken
    BY <1>0, <2>1, Zenon DEF Broken
  <2> QED
    BY <2>1, <2>2, Zenon
<1>6. ASSUME NEW n \in 1..Len(buf), ReadBody(n) PROVE ~Broken /\ Step
  <2>1. UNCHANGED <<sent, overlap, ended>> /\ reader = "body"
    BY <1>6 DEF ReadBody, sender
  <2>2. ~Broken /\ ~overlap
    BY <1>0, <2>1, Zenon DEF Broken
  <2>3. Line
    BY <1>i, <2>2, Zenon
  <2>4. delivered' # delivered => Len(delivered') = Len(delivered) + 1 /\ Len(delivered) < Len(sent)
    BY <1>i, <1>6, <2>3, ReadBodyLine
  <2> QED
    BY <2>1, <2>2, <2>4, Zenon
<1>7. CASE UNCHANGED vars
  <2>1. UNCHANGED <<sent, overlap, ended, delivered, reader>>
    BY <1>7 DEF vars, sender
  <2>2. ~Broken
    BY <1>0, <2>1, Zenon DEF Broken
  <2> QED
    BY <2>1, <2>2, Zenon
<1> QED
  BY <1>1, <1>2, <1>3, <1>4, <1>5, <1>6, <1>7, Zenon DEF Next, Read

\* Whatever the sizes of the reads and the room for the writes, one direction of
\* the connection, and the log, is a channel that hands over every message once
\* and in order.  (That it does so eventually needs fairness.)
THEOREM StreamIsChannel == Spec => C!Safe
<1>1. Init => C!Init
  <2> SUFFICES ASSUME Init PROVE C!Init
    OBVIOUS
  <2>1. sent = <<>> /\ Len(delivered) = 0
    BY DEF Init
  <2>2. ~Broken
    BY DEF Init, Broken
  <2>3. (overlap \/ ended \/ reader \notin {"len", "body"}) = FALSE
    BY <2>2, Zenon DEF Broken
  <2> QED
    BY <2>1, <2>3, Zenon DEF C!Init
<1>2. StreamInv /\ StreamInv' /\ [Next]_vars => [C!Next]_(C!vars)
  <2> SUFFICES ASSUME StreamInv, StreamInv', [Next]_vars PROVE [C!Next]_(C!vars)
    OBVIOUS
  <2>1. CASE Broken'
    BY <2>1, Zenon DEF Broken, C!Next, C!Break
  <2>2. CASE ~Broken'
    <3>1. ~Broken
      BY <2>2, ChannelSteps
    <3>2. /\ (overlap \/ ended \/ reader \notin {"len", "body"}) = FALSE
          /\ (overlap \/ ended \/ reader \notin {"len", "body"})' = FALSE
      BY <2>2, <3>1, Zenon DEF Broken
    <3>3. CASE delivered' = delivered /\ \E m \in Messages : sent' = Append(sent, m)
      BY <3>2, <3>3, Zenon DEF C!Next, C!Send
    <3>4. CASE /\ Len(delivered) < Len(sent) /\ Len(delivered') = Len(delivered) + 1
               /\ sent' = sent
      BY <3>2, <3>4, Zenon DEF C!Next, C!Receive
    <3>5. CASE UNCHANGED <<sent, delivered>>
      BY <3>2, <3>5, Zenon DEF C!vars
    <3> QED
      BY <2>2, <3>3, <3>4, <3>5, ChannelSteps
  <2> QED
    BY <2>1, <2>2
<1> QED
  BY <1>1, <1>2, StreamInvariant, PTL DEF Spec, C!Safe

=============================================================================
