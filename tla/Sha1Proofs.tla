----------------------------- MODULE Sha1Proofs -----------------------------
(***************************************************************************)
(* SHA1Result hands out the digest of exactly the padded message, for every*)
(* size of a block and of a length octet, every message and every way to   *)
(* cut it into calls.                                                      *)
(***************************************************************************)
EXTENDS Sha1, SequenceTheorems, TLAPS

-----------------------------------------------------------------------------
(* Division.                                                               *)

LEMMA Times ==
  ASSUME NEW a \in Int, NEW b \in Int, NEW d \in Nat, a <= b
  PROVE  a * d <= b * d /\ a * d \in Int /\ b * d \in Int
  OBVIOUS

LEMMA DivMod ==
  ASSUME NEW q \in Nat, NEW d \in Nat, d > 0, NEW r \in 0..(d - 1)
  PROVE  (q * d + r) \div d = q /\ (q * d + r) % d = r
<1> DEFINE x == q * d + r
           p == x \div d
           s == x % d
<1>1. x \in Nat
  OBVIOUS
<1>2. p \in Int /\ s \in 0..(d - 1) /\ x = p * d + s
  OBVIOUS
<1> HIDE DEF p, s
<1>3. ~(p < q)
  <2> SUFFICES ASSUME p < q PROVE FALSE
    OBVIOUS
  <2>1. (p + 1) * d <= q * d
    BY <1>2, Times
  <2>2. (p + 1) * d = p * d + d
    BY <1>2
  <2> QED
    BY <1>2, <2>1, <2>2
<1>4. ~(q < p)
  <2> SUFFICES ASSUME q < p PROVE FALSE
    OBVIOUS
  <2>1. (q + 1) * d <= p * d
    BY <1>2, Times
  <2>2. (q + 1) * d = q * d + d
    OBVIOUS
  <2> QED
    BY <1>2, <2>1, <2>2
<1>5. p = q
  BY <1>2, <1>3, <1>4
<1> QED
  BY <1>2, <1>5 DEF p, s

LEMMA DivModFact ==
  ASSUME NEW x \in Nat, NEW d \in Nat, d > 0
  PROVE  \E q \in Nat : \E r \in 0..(d - 1) : x = q * d + r /\ x \div d = q /\ x % d = r
<1>1. (x \div d) \in Int /\ (x % d) \in 0..(d - 1) /\ x = (x \div d) * d + (x % d)
  OBVIOUS
<1>2. PICK q \in Int : q = x \div d
  BY <1>1
<1>3. PICK r \in 0..(d - 1) : r = x % d
  BY <1>1
<1>4. x = q * d + r
  BY <1>1, <1>2, <1>3
<1>5. q \in Nat
  <2> SUFFICES ASSUME q < 0 PROVE FALSE
    OBVIOUS
  <2>1. q * d <= (-1) * d
    BY Times
  <2> QED
    BY <1>4, <2>1
<1> QED
  BY <1>2, <1>3, <1>4, <1>5

\* A digit of the high word of a number of two words
LEMMA HighDigit ==
  ASSUME NEW H \in Nat, NEW W \in Nat, W > 0, NEW L \in 0..(W - 1), NEW p \in Nat, p > 0
  PROVE  (H * W + L) \div (W * p) = H \div p
<1>1. PICK h \in Nat, s \in 0..(p - 1) : H = h * p + s /\ H \div p = h
  BY DivModFact
<1>2. PICK d \in Nat : d = W * p
  OBVIOUS
<1>3. PICK r \in Nat : r = s * W + L
  <2>1. s * W \in Nat
    OBVIOUS
  <2> QED
    BY <2>1
<1>4. s * W <= (p - 1) * W /\ (p - 1) * W = d - W
  BY <1>2, Times
<1>5. d > 0 /\ r \in 0..(d - 1)
  <2>1. s * W \in Nat /\ (p - 1) * W \in Nat
    OBVIOUS
  <2> QED
    BY <1>3, <1>4, <2>1
<1>6. H * W + L = h * d + r
  BY <1>1, <1>2, <1>3
<1>7. (h * d + r) \div d = h
  BY <1>5, DivMod
<1> QED
  BY <1>1, <1>2, <1>6, <1>7

-----------------------------------------------------------------------------
(* The length.                                                             *)

LEMMA WordFact ==
  /\ LenBase \in Nat /\ LenBase > 0 /\ Word \in Nat /\ Word > 0
  /\ LenBase * LenBase \in Nat /\ LenBase * LenBase > 0
  /\ LenBase * LenBase * LenBase \in Nat /\ LenBase * LenBase * LenBase > 0
  /\ \E w \in Nat : Word = 8 * w /\ w > 0
<1>1. PICK h \in Nat : LenBase = 2 * h /\ h > 0
  BY LenAssumption DEF LenAssumption
<1>2. PICK k \in Nat : k = h * h /\ k > 0
  BY <1>1
<1>3. PICK m \in Nat : m = k * k /\ m > 0
  BY <1>2
<1>4. LenBase * LenBase = 4 * k
  BY <1>1, <1>2
<1>5. LenBase * LenBase * LenBase = 4 * k * LenBase /\ 4 * k * LenBase \in Nat /\ 4 * k * LenBase > 0
  BY <1>1, <1>2, <1>4
<1>6. Word = 16 * m
  <2>1. Word = (4 * k) * (4 * k)
    BY <1>1, <1>2, <1>4 DEF Word
  <2> QED
    BY <1>2, <1>3, <2>1
<1>7. Word = 8 * (2 * m) /\ 2 * m \in Nat /\ 2 * m > 0
  BY <1>3, <1>6
<1> QED
  BY <1>1, <1>2, <1>3, <1>4, <1>5, <1>6, <1>7

\* The octets that SHA1PadMessage takes from the two words are those of the
\* 64-bit number.
LEMMA LengthDigits ==
  ASSUME NEW n \in Nat, Length_High \in 0..(Word - 1), Length_Low \in 0..(Word - 1),
         Length_High * Word + Length_Low = n, NEW j \in 1..8
  PROVE  LengthOctet(LenAt + j - 1) = (n \div Places[j]) % LenBase
<1>0. LenAt \in Int
  BY BlockAssumption DEF BlockAssumption, LenAt
<1>1. PICK b \in Nat : b = LenBase /\ b > 0
  BY WordFact
<1>2. PICK W \in Nat : W = Word /\ W > 0
  BY WordFact
<1>3. PICK b2 \in Nat : b2 = b * b /\ b2 > 0
  BY <1>1, WordFact
<1>4. PICK b3 \in Nat : b3 = b * b * b /\ b3 > 0
  BY <1>1, WordFact
<1>5. PICK H \in Nat : H = Length_High
  BY <1>2
<1>6. PICK L \in 0..(W - 1) : L = Length_Low
  BY <1>2
<1>7. n = H * W + L
  BY <1>2, <1>5, <1>6
<1>8. /\ Places[1] = W * b * b * b /\ Places[2] = W * b * b /\ Places[3] = W * b /\ Places[4] = W
      /\ Places[5] = b3 /\ Places[6] = b2 /\ Places[7] = b /\ Places[8] = 1
  BY <1>1, <1>2, <1>3, <1>4 DEF Places
<1>9. Places[1] = W * b3 /\ Places[2] = W * b2 /\ Places[3] = W * b /\ Places[4] = W * 1
  BY <1>3, <1>4, <1>8
<1>10. W = 1 * b * b3 /\ W = b * b * b2 /\ W = b2 * b * b /\ W = b3 * b * 1
  BY <1>1, <1>2, <1>3, <1>4 DEF Word
<1>11. CASE j \in 1..4
  <2>1. LengthOctet(LenAt + j - 1) = WordOctet(Length_High, j - 1)
    <3>1. LenAt + j - 1 < LenAt + 4 /\ (LenAt + j - 1) - LenAt = j - 1
      BY <1>0, <1>11
    <3> QED
      BY <3>1 DEF LengthOctet
  <2>2. /\ j = 1 => WordOctet(Length_High, j - 1) = (H \div b3) % b
        /\ j = 2 => WordOctet(Length_High, j - 1) = (H \div b2) % b
        /\ j = 3 => WordOctet(Length_High, j - 1) = (H \div b) % b
        /\ j = 4 => WordOctet(Length_High, j - 1) = (H \div 1) % b
    BY <1>1, <1>3, <1>4, <1>5 DEF WordOctet
  <2>3. /\ (H * W + L) \div (W * b3) = H \div b3
        /\ (H * W + L) \div (W * b2) = H \div b2
    BY <1>2, <1>3, <1>4, HighDigit
  <2>4. /\ (H * W + L) \div (W * b) = H \div b
        /\ (H * W + L) \div (W * 1) = H \div 1
    <3>1. (H * W + L) \div (W * b) = H \div b
      BY <1>1, <1>2, HighDigit
    <3>2. PICK one \in Nat : one = 1
      OBVIOUS
    <3>3. (H * W + L) \div (W * one) = H \div one
      BY <1>2, <3>2, HighDigit
    <3> QED
      BY <3>1, <3>2, <3>3
  <2>5. j \in {1, 2, 3, 4}
    BY <1>11
  <2> QED
    BY <1>1, <1>7, <1>9, <2>1, <2>2, <2>3, <2>4, <2>5
<1>12. CASE j \in 5..8
  <2>1. LengthOctet(LenAt + j - 1) = WordOctet(Length_Low, j - 5)
    <3>1. ~(LenAt + j - 1 < LenAt + 4) /\ (LenAt + j - 1) - LenAt - 4 = j - 5
      BY <1>0, <1>12
    <3> QED
      BY <3>1 DEF LengthOctet
  <2>2. /\ j = 5 => WordOctet(Length_Low, j - 5) = (L \div b3) % b
        /\ j = 6 => WordOctet(Length_Low, j - 5) = (L \div b2) % b
        /\ j = 7 => WordOctet(Length_Low, j - 5) = (L \div b) % b
        /\ j = 8 => WordOctet(Length_Low, j - 5) = (L \div 1) % b
    BY <1>1, <1>3, <1>4, <1>6 DEF WordOctet
  <2>0. b \in Nat /\ b2 \in Nat /\ b3 \in Nat /\ H \in Nat /\ W \in Nat /\ 1 \in Nat /\ 1 > 0
    OBVIOUS
  <2>3. L \in Nat
    OBVIOUS
  <2>9. ASSUME NEW p \in Nat, p > 0, NEW c \in Nat, W = c * b * p
        PROVE  (n \div p) % b = (L \div p) % b
    <3>1. PICK l \in Nat, s \in 0..(p - 1) : L = l * p + s /\ L \div p = l
      BY <1>1, <2>3, <2>9, DivModFact
    <3>2. PICK u \in Nat, v \in 0..(b - 1) : l = u * b + v /\ l % b = v
      BY ONLY <1>1, l \in Nat, b \in Nat, DivModFact
    <3>3. PICK k \in Nat : k = H * c
      OBVIOUS
    <3>4. PICK m \in Nat : m = k * b + l
      <4>1. k * b \in Nat
        OBVIOUS
      <4> QED
        BY <4>1
    <3>5. H * W + L = m * p + s
      <4>1. H * W = (k * b) * p
        BY <2>9, <3>3
      <4>2. m * p = (k * b) * p + l * p
        BY <3>4
      <4> QED
        BY <3>1, <4>1, <4>2
    <3>6. (m * p + s) \div p = m
      BY <1>1, <2>9, DivMod
    <3>7. PICK y \in Nat : y = k + u
      OBVIOUS
    <3>8. m = y * b + v
      BY <3>2, <3>4, <3>7
    <3>9. (y * b + v) % b = v
      BY <1>1, <2>9, DivMod
    <3> QED
      BY <1>7, <3>1, <3>2, <3>5, <3>6, <3>8, <3>9
  <2>a. PICK one \in Nat : one = 1
    OBVIOUS
  <2>b. W = one * b * b3 /\ W = b3 * b * one /\ one > 0
    BY <1>10, <2>a
  <2>4. (n \div b3) % b = (L \div b3) % b
    BY ONLY <1>4, <2>0, <2>9, <2>b, Zenon
  <2>5. (n \div b2) % b = (L \div b2) % b
    BY ONLY <1>3, <1>10, <2>0, <2>9, Zenon
  <2>6. (n \div b) % b = (L \div b) % b
    BY ONLY <1>1, <1>10, <2>0, <2>9, Zenon
  <2>7. (n \div one) % b = (L \div one) % b
    BY ONLY <2>0, <2>9, <2>b, Zenon
  <2>8. j \in {5, 6, 7, 8}
    BY <1>12
  <2> QED
    BY <1>1, <1>8, <2>1, <2>2, <2>4, <2>5, <2>6, <2>7, <2>8, <2>a
<1> QED
  BY <1>11, <1>12

-----------------------------------------------------------------------------
(* The inductive invariant.                                                *)

Blocks(n) == \E a \in 0..n : n = a * BlockSize

Types ==
    /\ Message_Block = [k \in 0..(BlockSize - 1) |-> Message_Block[k]]
    /\ Message_Block_Index \in 0..(BlockSize - 1)
    /\ Length_Low \in 0..(Word - 1) /\ Length_High \in 0..(Word - 1)
    /\ Computed \in {0, 1} /\ Corrupted \in {0, 1}
    /\ hashed \in Seq(Nat) /\ Blocks(Len(hashed))
    /\ offered \in 0..Len(Data)
    /\ input \in Seq(Nat) /\ Len(input) <= offered
    /\ atResult \in Nat \cup {None}
    /\ ret \in {0, 1, None}

\* What is still to be read is the end of what was offered.
Reading == \A k \in 1..Len(input) : input[k] = Data[offered - Len(input) + k]

\* The octets read are those of the blocks processed and those in the block.
Content ==
    /\ Len(hashed) + Message_Block_Index = offered - Len(input)
    /\ \A k \in 1..Len(hashed) : hashed[k] = Data[k]
    /\ \A k \in 0..(Message_Block_Index - 1) : Message_Block[k] = Data[Len(hashed) + k + 1]

\* The flags say where the context is: taking input, done, or misused.
Flags ==
    /\ input # <<>> => Computed = 0 /\ Corrupted = 0 /\ ret = None
    /\ Corrupted = 0 /\ Computed = 0 => atResult = None /\ Content
    /\ Corrupted = 0 /\ Computed = 1 => atResult = offered /\ hashed = Padded(Message)
    /\ Corrupted = 1 => Misused
    /\ ret = 1 => Corrupted = 0 /\ Computed = 1
    /\ ret = 0 => Corrupted = 1

Sha1Inv == Types /\ Reading /\ LengthExact /\ Flags

-----------------------------------------------------------------------------
(* Counting an octet, and padding.                                         *)

LEMMA CountFact ==
  ASSUME Length_Low \in 0..(Word - 1), Length_High \in 0..(Word - 1), Corrupted = 0,
         NEW c \in Nat, Length_High * Word + Length_Low = 8 * c, CountOctet
  PROVE  /\ Length_Low' \in 0..(Word - 1) /\ Length_High' \in 0..(Word - 1) /\ Corrupted' \in {0, 1}
         /\ Corrupted' = 0 => Length_High' * Word + Length_Low' = 8 * (c + 1)
         /\ Corrupted' = 1 => 8 * (c + 1) = Word * Word
<1>1. PICK w \in Nat : Word = 8 * w /\ w > 0
  BY WordFact
<1>2. PICK W \in Nat : W = Word /\ W = 8 * w /\ W > 0
  BY <1>1
<1>3. PICK L \in 0..(W - 1) : L = Length_Low
  BY <1>2
<1>4. PICK H \in 0..(W - 1) : H = Length_High
  BY <1>2
<1>5. PICK hw \in Nat : hw = H * w
  BY <1>2
<1>6. H * W = 8 * hw
  BY <1>2, <1>5
<1>7. 8 * hw + L = 8 * c
  BY <1>2, <1>3, <1>4, <1>6
<1>8. L + 8 <= W
  BY <1>2, <1>7
<1> DEFINE low == (L + 8) % W
           high == IF low = 0 THEN (H + 1) % W ELSE H
<1>9. Length_Low' = low /\ Length_High' = high /\ Corrupted' = IF low = 0 /\ high = 0 THEN 1 ELSE 0
  BY <1>2, <1>3, <1>4 DEF CountOctet
<1>10. low = IF L + 8 = W THEN 0 ELSE L + 8
  <2>1. CASE L + 8 = W
    <3>1. (1 * W + 0) % W = 0
      BY <1>2, DivMod
    <3> QED
      BY <2>1, <3>1
  <2>2. CASE L + 8 # W
    <3>1. L + 8 \in 0..(W - 1)
      BY <1>8, <2>2
    <3>2. (0 * W + (L + 8)) % W = L + 8
      BY <1>2, <3>1, DivMod
    <3> QED
      BY <2>2, <3>2
  <2> QED
    BY <2>1, <2>2
<1>11. (H + 1) % W = IF H + 1 = W THEN 0 ELSE H + 1
  <2>1. CASE H + 1 = W
    <3>1. (1 * W + 0) % W = 0
      BY <1>2, DivMod
    <3> QED
      BY <2>1, <3>1
  <2>2. CASE H + 1 # W
    <3>1. H + 1 \in 0..(W - 1)
      BY <2>2
    <3>2. (0 * W + (H + 1)) % W = H + 1
      BY <1>2, <3>1, DivMod
    <3> QED
      BY <2>2, <3>2
  <2> QED
    BY <2>1, <2>2
<1> HIDE DEF low, high
<1>12. (H + 1) * W = 8 * hw + W
  BY <1>2, <1>6
<1>13. CASE L + 8 # W
  <2>1. low = L + 8 /\ high = H /\ low # 0
    BY <1>3, <1>10, <1>13 DEF high
  <2>2. H * W + (L + 8) = 8 * (c + 1)
    BY <1>6, <1>7
  <2> QED
    BY <1>2, <1>8, <1>9, <1>13, <2>1, <2>2
<1>14. CASE L + 8 = W /\ H + 1 # W
  <2>1. low = 0 /\ high = H + 1 /\ high # 0
    BY <1>10, <1>11, <1>14 DEF high
  <2>2. (H + 1) * W + 0 = 8 * (c + 1)
    BY <1>7, <1>12, <1>14
  <2> QED
    BY <1>2, <1>9, <1>14, <2>1, <2>2
<1>15. CASE L + 8 = W /\ H + 1 = W
  <2>1. low = 0 /\ high = 0
    BY <1>10, <1>11, <1>15 DEF high
  <2>2. W * W = 8 * (c + 1)
    BY <1>7, <1>12, <1>15
  <2> QED
    BY <1>2, <1>9, <2>1, <2>2
<1> QED
  BY <1>13, <1>14, <1>15

LEMMA Join ==
  ASSUME NEW s \in Seq(Nat), NEW t \in Seq(Nat), NEW x, x = s \o t,
         NEW l \in Nat, l = Len(s), NEW w \in Nat, w = Len(t)
  PROVE  /\ x \in Seq(Nat) /\ Len(x) = l + w
         /\ \A k \in 1..l : x[k] = s[k]
         /\ \A k \in 1..w : x[l + k] = t[k]
<1>1. /\ x \in Seq(Nat) /\ Len(x) = l + w
      /\ \A k \in 1..(l + w) : x[k] = IF k <= l THEN s[k] ELSE t[k - l]
  BY ConcatProperties
<1>2. ASSUME NEW k \in 1..w PROVE x[l + k] = t[k]
  <2>1. l + k \in 1..(l + w) /\ ~(l + k <= l) /\ (l + k) - l = k
    OBVIOUS
  <2> QED
    BY <1>1, <2>1
<1>3. ASSUME NEW k \in 1..l PROVE x[k] = s[k]
  <2>1. k \in 1..(l + w) /\ k <= l
    OBVIOUS
  <2> QED
    BY <1>1, <2>1
<1> QED
  BY <1>1, <1>2, <1>3

LEMMA DigitFact ==
  ASSUME NEW n \in Nat, NEW k \in 1..8
  PROVE  (n \div Places[k]) % LenBase \in Nat
<1>1. PICK b \in Nat : b = LenBase /\ b > 0
  BY WordFact
<1>2. PICK W \in Nat : W = Word /\ W > 0
  BY WordFact
<1>3. \A x \in Nat, y \in Nat : y > 0 /\ x > 0 => x * y \in Nat /\ x * y > 0
  OBVIOUS
<1>4. W * b \in Nat /\ W * b > 0 /\ b * b \in Nat /\ b * b > 0
  BY <1>1, <1>2, <1>3
<1>5. W * b * b \in Nat /\ W * b * b > 0 /\ b * b * b \in Nat /\ b * b * b > 0
  BY <1>1, <1>3, <1>4
<1>6. W * b * b * b \in Nat /\ W * b * b * b > 0
  BY <1>1, <1>3, <1>5
<1>7. Places[k] \in Nat /\ Places[k] > 0
  <2>1. k \in {1, 2, 3, 4, 5, 6, 7, 8}
    OBVIOUS
  <2> QED
    BY <1>1, <1>2, <1>4, <1>5, <1>6, <2>1 DEF Places
<1>8. n \div Places[k] \in Nat
  BY <1>7, DivModFact
<1>9. PICK x \in Nat : x = n \div Places[k]
  BY <1>8
<1>10. x % b \in Nat
  BY <1>1
<1> QED
  BY <1>1, <1>9, <1>10

\* The padded message, octet by octet
LEMMA PaddedAt ==
  ASSUME NEW m \in Seq(Nat), NEW z \in Nat,
         z = (BlockSize - ((Len(m) + 9) % BlockSize)) % BlockSize
  PROVE  /\ Padded(m) \in Seq(Nat) /\ Len(Padded(m)) = Len(m) + z + 9
         /\ \A k \in 1..Len(m) : Padded(m)[k] = m[k]
         /\ Padded(m)[Len(m) + 1] = 128
         /\ \A k \in 1..z : Padded(m)[Len(m) + 1 + k] = 0
         /\ \A j \in 1..8 : Padded(m)[Len(m) + 1 + z + j] = ((8 * Len(m)) \div Places[j]) % LenBase
<1>0. PICK n \in Nat : n = Len(m)
  OBVIOUS
<1> DEFINE zz == [k \in 1..z |-> 0]
           dd == [k \in 1..8 |-> ((8 * n) \div Places[k]) % LenBase]
<1>1. Padded(m) = m \o <<128>> \o zz \o dd
  BY <1>0 DEF Padded
<1>2. <<128>> \in Seq(Nat) /\ Len(<<128>>) = 1 /\ <<128>>[1] = 128
  OBVIOUS
<1>3. zz \in Seq(Nat) /\ Len(zz) = z /\ \A k \in 1..z : zz[k] = 0
  OBVIOUS
<1>4. dd \in Seq(Nat) /\ Len(dd) = 8 /\ \A k \in 1..8 : dd[k] = ((8 * n) \div Places[k]) % LenBase
  <2>1. \A k \in 1..8 : ((8 * n) \div Places[k]) % LenBase \in Nat
    <3>1. 8 * n \in Nat
      OBVIOUS
    <3> QED
      BY <3>1, DigitFact
  <2> QED
    BY <2>1
<1> HIDE DEF dd, zz
<1>5. PICK s1 : s1 = m \o <<128>>
  OBVIOUS
<1>6. PICK s2 : s2 = s1 \o zz
  OBVIOUS
<1>7. PICK s3 : s3 = s2 \o dd
  OBVIOUS
<1>a. 1 \in Nat /\ 8 \in Nat /\ n + 1 \in Nat /\ n + 1 + z \in Nat
  OBVIOUS
<1>8. /\ s1 \in Seq(Nat) /\ Len(s1) = n + 1
      /\ \A k \in 1..n : s1[k] = m[k]
      /\ \A k \in 1..1 : s1[n + k] = <<128>>[k]
  BY ONLY <1>0, <1>2, <1>5, <1>a, m \in Seq(Nat), n \in Nat, Join
<1>9. /\ s2 \in Seq(Nat) /\ Len(s2) = n + 1 + z
      /\ \A k \in 1..(n + 1) : s2[k] = s1[k]
      /\ \A k \in 1..z : s2[n + 1 + k] = zz[k]
  BY ONLY <1>3, <1>6, <1>8, <1>a, z \in Nat, Join
<1>10. /\ s3 \in Seq(Nat) /\ Len(s3) = n + 1 + z + 8
       /\ \A k \in 1..(n + 1 + z) : s3[k] = s2[k]
       /\ \A j \in 1..8 : s3[n + 1 + z + j] = dd[j]
  <2>1. PICK l \in Nat : l = n + 1 + z
    BY <1>a
  <2>2. /\ s3 \in Seq(Nat) /\ Len(s3) = l + 8
        /\ \A k \in 1..l : s3[k] = s2[k]
        /\ \A j \in 1..8 : s3[l + j] = dd[j]
    <3>1. /\ s2 \in Seq(Nat) /\ dd \in Seq(Nat) /\ s3 = s2 \o dd
          /\ l \in Nat /\ l = Len(s2)
      BY <1>4, <1>7, <1>9, <2>1
    <3>2. PICK w \in Nat : w = Len(dd)
      BY <1>4
    <3>3. /\ s3 \in Seq(Nat) /\ Len(s3) = l + w
          /\ \A k \in 1..l : s3[k] = s2[k]
          /\ \A j \in 1..w : s3[l + j] = dd[j]
      BY ONLY <3>1, <3>2, w \in Nat, Join
    <3>4. Len(dd) = 8
      BY <1>4
    <3> QED
      BY ONLY <3>2, <3>3, <3>4
  <2> QED
    BY ONLY <2>1, <2>2
<1>11. \A k \in 1..n : s3[k] = m[k]
  <2>1. \A k \in 1..n : k \in 1..(n + 1) /\ k \in 1..(n + 1 + z)
    OBVIOUS
  <2> QED
    BY <1>8, <1>9, <1>10, <2>1
<1>12. s3[n + 1] = 128
  <2>1. n + 1 \in 1..(n + 1) /\ n + 1 \in 1..(n + 1 + z) /\ 1 \in 1..1
    OBVIOUS
  <2>2. s1[n + 1] = 128
    BY ONLY <1>2, <1>8, <2>1
  <2>3. s2[n + 1] = 128
    BY ONLY <1>9, <2>1, <2>2
  <2> QED
    BY ONLY <1>10, <2>1, <2>3
<1>13. \A k \in 1..z : s3[n + 1 + k] = 0
  <2>1. \A k \in 1..z : n + 1 + k \in 1..(n + 1 + z)
    OBVIOUS
  <2> QED
    BY <1>3, <1>9, <1>10, <2>1
<1>14. Padded(m) = s3
  BY <1>1, <1>5, <1>6, <1>7
<1>15. n + 1 + z + 8 = n + z + 9
  OBVIOUS
<1> QED
  BY ONLY <1>0, <1>4, <1>10, <1>11, <1>12, <1>13, <1>14, <1>15

\* How many zeros: they fill the block, or the next one
LEMMA ZerosFact ==
  ASSUME NEW a \in Nat, NEW i \in 0..(BlockSize - 1), NEW n \in Nat, n = a * BlockSize + i
  PROVE  (BlockSize - ((n + 9) % BlockSize)) % BlockSize
             = IF i <= BlockSize - 9 THEN BlockSize - 9 - i ELSE (BlockSize - 9 - i) + BlockSize
<1>1. PICK B \in Nat : B = BlockSize /\ B > 8
  BY BlockAssumption DEF BlockAssumption
<1>2. PICK ab \in Nat : ab = a * B
  BY <1>1
<1>3. (a + 1) * B = ab + B /\ n = ab + i /\ i \in 0..(B - 1)
  BY <1>1, <1>2
<1>4. \A r \in 0..(B - 1) : r % B = r
  <2> SUFFICES ASSUME NEW r \in 0..(B - 1) PROVE r % B = r
    OBVIOUS
  <2>1. (0 * B + r) % B = r
    BY <1>1, DivMod
  <2> QED
    BY <2>1
<1>5. B % B = 0
  <2>1. (1 * B + 0) % B = 0
    BY <1>1, DivMod
  <2> QED
    BY <2>1
<1>6. CASE i + 9 < B
  <2>1. (a * B + (i + 9)) % B = i + 9
    <3>1. i + 9 \in 0..(B - 1)
      BY <1>3, <1>6
    <3> QED
      BY <1>1, <3>1, DivMod
  <2>2. (n + 9) % B = i + 9
    <3>1. a * B + (i + 9) = n + 9
      BY <1>2, <1>3
    <3> QED
      BY <2>1, <3>1
  <2>3. B - (i + 9) \in 0..(B - 1)
    BY <1>3, <1>6
  <2> QED
    BY <1>1, <1>3, <1>4, <1>6, <2>2, <2>3
<1>7. CASE i + 9 = B
  <2>1. ((a + 1) * B + 0) % B = 0
    BY <1>1, DivMod
  <2>2. (n + 9) % B = 0
    <3>1. (a + 1) * B + 0 = n + 9
      BY <1>3, <1>7
    <3> QED
      BY <2>1, <3>1
  <2> QED
    BY <1>1, <1>3, <1>5, <1>7, <2>2
<1>8. CASE i + 9 > B
  <2>1. ((a + 1) * B + (i + 9 - B)) % B = i + 9 - B
    <3>1. i + 9 - B \in 0..(B - 1) /\ a + 1 \in Nat
      BY <1>1, <1>3, <1>8
    <3>2. PICK r \in 0..(B - 1) : r = i + 9 - B
      BY <3>1
    <3>3. PICK q \in Nat : q = a + 1
      BY <3>1
    <3>4. (q * B + r) % B = r
      BY <1>1, DivMod
    <3> QED
      BY <3>2, <3>3, <3>4
  <2>2. (n + 9) % B = i + 9 - B
    <3>1. (a + 1) * B + (i + 9 - B) = n + 9
      BY <1>3
    <3> QED
      BY <2>1, <3>1
  <2>3. B - (i + 9 - B) \in 0..(B - 1)
    BY <1>1, <1>3, <1>8
  <2> QED
    BY <1>1, <1>3, <1>4, <1>8, <2>2, <2>3
<1> QED
  BY <1>3, <1>6, <1>7, <1>8

\* Octets of a block with octets in it
LEMMA OctetsFact ==
  ASSUME NEW b, \A k \in 0..(BlockSize - 1) : b[k] \in Nat
  PROVE  /\ Octets(b) \in Seq(Nat) /\ Len(Octets(b)) = BlockSize
         /\ \A k \in 1..BlockSize : Octets(b)[k] = b[k - 1]
<1>1. BlockSize \in Nat /\ \A k \in 1..BlockSize : k - 1 \in 0..(BlockSize - 1)
  BY BlockAssumption DEF BlockAssumption
<1>2. \A k \in 1..BlockSize : b[k - 1] \in Nat
  BY <1>1
<1> QED
  BY <1>1, <1>2 DEF Octets

LEMMA BlocksGrow ==
  ASSUME NEW h \in Nat, Blocks(h) PROVE Blocks(h + BlockSize) /\ Blocks(h + BlockSize + BlockSize)
<1>1. PICK B \in Nat : B = BlockSize /\ B > 8
  BY BlockAssumption DEF BlockAssumption
<1>2. PICK a \in 0..h : h = a * B
  BY <1>1 DEF Blocks
<1>3. (a + 1) * B = h + B /\ (a + 2) * B = h + B + B
  BY <1>2
<1>4. a + 1 \in 0..(h + B) /\ a + 2 \in 0..(h + B + B)
  BY <1>1
<1> QED
  BY <1>1, <1>3, <1>4 DEF Blocks

\* SHA1PadMessage makes the padded message of what is in the blocks processed
\* and in the block, whether one block is enough for it or not.
LEMMA Pad ==
  ASSUME Types, LengthExact, Corrupted = 0, Content, input = <<>>, SHA1PadMessage
  PROVE  /\ hashed' = Padded(Message) /\ hashed' \in Seq(Nat) /\ Blocks(Len(hashed'))
         /\ Message_Block_Index' = 0
         /\ Message_Block' = [k \in 0..(BlockSize - 1) |-> Message_Block'[k]]
<1>1. PICK B \in Nat : B = BlockSize /\ B > 8
  BY BlockAssumption DEF BlockAssumption
<1>2. PICK h \in Nat : h = Len(hashed)
  BY DEF Types
<1>3. PICK i \in 0..(B - 1) : i = Message_Block_Index
  BY <1>1 DEF Types
<1>4. PICK n \in Nat : n = offered
  BY DataAssumption DEF DataAssumption, Types
<1>5. n = h + i /\ Len(input) = 0
  BY <1>2, <1>3, <1>4 DEF Content
<1>6. hashed \in Seq(Nat) /\ Blocks(h) /\ \A k \in 1..h : hashed[k] = Data[k]
  BY <1>2 DEF Types, Content
<1>7. PICK m : m = Message
  OBVIOUS
<1>8. m \in Seq(Nat) /\ Len(m) = n /\ \A k \in 1..n : m[k] = Data[k] /\ Data[k] \in Nat
  <2>1. n \in 0..Len(Data) /\ Data \in Seq(Nat)
    BY <1>4, DataAssumption DEF Types, DataAssumption
  <2> QED
    BY <1>4, <1>7, <2>1 DEF Message
<1>9. PICK cl : cl = Closed(i)
  OBVIOUS
<1>10. /\ \A k \in 0..(i - 1) : cl[k] = Data[h + k + 1]
       /\ cl[i] = 128
       /\ \A k \in (i + 1)..(B - 1) : cl[k] = 0
       /\ \A k \in 0..(B - 1) : cl[k] \in Nat
  <2>1. \A k \in 0..(i - 1) : Message_Block[k] = Data[h + k + 1] /\ k \in 0..(B - 1) /\ k < i
    BY <1>2, <1>3 DEF Content
  <2>2. cl = [k \in 0..(B - 1) |-> CASE k < i -> Message_Block[k] [] k = i -> 128 [] k > i -> 0]
    BY <1>1, <1>9 DEF Closed
  <2>3. \A k \in 0..(i - 1) : cl[k] = Data[h + k + 1]
    BY <2>1, <2>2
  <2>4. cl[i] = 128
    BY <2>2
  <2>5. \A k \in (i + 1)..(B - 1) : cl[k] = 0
    <3> SUFFICES ASSUME NEW k \in (i + 1)..(B - 1) PROVE cl[k] = 0
      OBVIOUS
    <3>1. k \in 0..(B - 1) /\ ~(k < i) /\ k # i /\ k > i
      OBVIOUS
    <3> QED
      BY <2>2, <3>1
  <2>6. \A k \in 0..(B - 1) : cl[k] \in Nat
    <3> SUFFICES ASSUME NEW k \in 0..(B - 1) PROVE cl[k] \in Nat
      OBVIOUS
    <3>1. CASE k < i
      <4>1. k \in 0..(i - 1) /\ h + k + 1 \in 1..n
        BY <1>5, <3>1
      <4> QED
        BY <1>8, <2>3, <4>1
    <3>2. CASE k = i
      BY <2>4, <3>2
    <3>3. CASE k > i
      BY <2>5, <3>3
    <3> QED
      BY <3>1, <3>2, <3>3
  <2> QED
    BY <2>3, <2>4, <2>5, <2>6
<1>11. PICK d : d = [j \in 1..8 |-> ((8 * n) \div Places[j]) % LenBase]
  OBVIOUS
<1>12. \A j \in 1..8 : d[j] \in Nat /\ LengthOctet((B - 8) + j - 1) = d[j]
  <2>1. 8 * n \in Nat
    OBVIOUS
  <2>2. Length_High * Word + Length_Low = 8 * n
    BY <1>4, <1>5 DEF LengthExact
  <2>3. \A j \in 1..8 : LengthOctet(LenAt + j - 1) = ((8 * n) \div Places[j]) % LenBase
    BY <2>1, <2>2, LengthDigits DEF Types
  <2>4. \A j \in 1..8 : ((8 * n) \div Places[j]) % LenBase \in Nat
    BY <2>1, DigitFact
  <2>5. LenAt = B - 8
    BY <1>1 DEF LenAt
  <2> QED
    BY ONLY <1>11, <2>3, <2>4, <2>5
<1> DEFINE zs == IF i <= B - 9 THEN B - 9 - i ELSE (B - 9 - i) + B
<1>13. PICK z \in Nat : z = zs
  <2>1. zs \in Nat
    <3>1. CASE i <= B - 9
      BY <3>1
    <3>2. CASE ~(i <= B - 9)
      BY <1>1, <3>2
    <3> QED
      BY <3>1, <3>2
  <2> HIDE DEF zs
  <2> QED
    BY <2>1
<1>14. z = (BlockSize - ((n + 9) % BlockSize)) % BlockSize
  <2>1. PICK a \in Nat : h = a * BlockSize
    BY <1>6 DEF Blocks
  <2>2. n = a * BlockSize + i /\ i \in 0..(BlockSize - 1)
    BY <1>1, <1>5, <2>1
  <2>3. (BlockSize - ((n + 9) % BlockSize)) % BlockSize
            = IF i <= BlockSize - 9 THEN BlockSize - 9 - i ELSE (BlockSize - 9 - i) + BlockSize
    BY ONLY <2>2, n \in Nat, a \in Nat, ZerosFact
  <2> QED
    BY <1>1, <1>13, <2>3
<1>15. PICK P : P = Padded(m)
  OBVIOUS
<1>16. /\ P \in Seq(Nat) /\ Len(P) = n + z + 9
       /\ \A k \in 1..n : P[k] = m[k]
       /\ P[n + 1] = 128
       /\ \A k \in 1..z : P[n + 1 + k] = 0
       /\ \A j \in 1..8 : P[n + 1 + z + j] = d[j]
  <2>1. z = (BlockSize - ((Len(m) + 9) % BlockSize)) % BlockSize
    BY <1>8, <1>14
  <2>2. /\ Padded(m) \in Seq(Nat) /\ Len(Padded(m)) = Len(m) + z + 9
        /\ \A k \in 1..Len(m) : Padded(m)[k] = m[k]
        /\ Padded(m)[Len(m) + 1] = 128
        /\ \A k \in 1..z : Padded(m)[Len(m) + 1 + k] = 0
        /\ \A j \in 1..8 : Padded(m)[Len(m) + 1 + z + j] = ((8 * Len(m)) \div Places[j]) % LenBase
    <3>1. m \in Seq(Nat) /\ z \in Nat
      BY <1>8
    <3> QED
      BY ONLY <2>1, <3>1, PaddedAt, Zenon
  <2>3. \A j \in 1..8 : d[j] = ((8 * n) \div Places[j]) % LenBase
    BY ONLY <1>11
  <2>4. Len(m) = n
    BY <1>8
  <2> QED
    BY ONLY <1>15, <2>2, <2>3, <2>4
<1>17. /\ LenAt = B - 8
       /\ \A b : WithLength(b) = [k \in 0..(B - 1) |-> IF k < B - 8 THEN b[k] ELSE LengthOctet(k)]
  BY <1>1 DEF WithLength, LenAt
<1>18. ASSUME NEW b, \A k \in 0..(B - 1) : b[k] \in Nat
       PROVE  /\ \A k \in 0..(B - 1) : WithLength(b)[k] \in Nat
              /\ \A k \in 0..(B - 9) : WithLength(b)[k] = b[k]
              /\ \A j \in 1..8 : WithLength(b)[(B - 8) + j - 1] = d[j]
  <2>1. PICK w : w = WithLength(b)
    OBVIOUS
  <2>2. \A k \in 0..(B - 1) : w[k] = IF k < B - 8 THEN b[k] ELSE LengthOctet(k)
    BY <1>17, <2>1
  <2>3. \A k \in 0..(B - 9) : w[k] = b[k]
    <3>1. \A k \in 0..(B - 9) : k \in 0..(B - 1) /\ k < B - 8
      OBVIOUS
    <3> QED
      BY ONLY <2>2, <3>1
  <2>4. \A j \in 1..8 : w[(B - 8) + j - 1] = d[j]
    <3>1. \A j \in 1..8 : (B - 8) + j - 1 \in 0..(B - 1) /\ ~((B - 8) + j - 1 < B - 8)
      BY <1>1
    <3> QED
      BY ONLY <1>12, <2>2, <3>1
  <2>5. ASSUME NEW k \in 0..(B - 1) PROVE w[k] \in Nat
    <3>1. CASE k < B - 8
      BY <1>18, <2>2, <3>1
    <3>2. CASE ~(k < B - 8)
      <4>1. k - (B - 9) \in 1..8 /\ (B - 8) + (k - (B - 9)) - 1 = k
        BY <1>1, <3>2
      <4>2. PICK j \in 1..8 : (B - 8) + j - 1 = k
        BY <4>1
      <4> QED
        BY <1>12, <2>4, <4>2
    <3> QED
      BY <3>1, <3>2
  <2> QED
    BY <2>1, <2>3, <2>4, <2>5
<1>19. CASE i <= B - 9
  <2>1. /\ Message_Block' = WithLength(cl) /\ hashed' = hashed \o Octets(Message_Block')
        /\ Message_Block_Index' = 0
    <3>1. ~(Message_Block_Index > LenAt - 1)
      BY <1>1, <1>3, <1>17, <1>19
    <3> QED
      BY <1>3, <1>9, <3>1 DEF SHA1PadMessage, PadAbove, ProcessBlock
  <2>2. PICK w : w = WithLength(cl)
    OBVIOUS
  <2>3. /\ \A k \in 0..(B - 1) : w[k] \in Nat
        /\ \A k \in 0..(B - 9) : w[k] = cl[k]
        /\ \A j \in 1..8 : w[(B - 8) + j - 1] = d[j]
    BY ONLY <1>10, <1>18, <2>2
  <2>4. PICK x : x = Octets(w)
    OBVIOUS
  <2>5. x \in Seq(Nat) /\ Len(x) = B /\ \A k \in 1..B : x[k] = w[k - 1]
    BY ONLY <1>1, <2>3, <2>4, OctetsFact
  <2>6. PICK y : y = hashed \o x
    OBVIOUS
  <2>7. /\ y \in Seq(Nat) /\ Len(y) = h + B
        /\ \A k \in 1..h : y[k] = hashed[k]
        /\ \A k \in 1..B : y[h + k] = x[k]
    <3>1. /\ hashed \in Seq(Nat) /\ x \in Seq(Nat) /\ h \in Nat /\ h = Len(hashed)
          /\ B \in Nat /\ B = Len(x)
      BY <1>2, <1>6, <2>5
    <3> QED
      BY ONLY <2>6, <3>1, Join
  <2>8. Len(P) = h + B
    BY <1>5, <1>13, <1>16, <1>19
  <2>9. ASSUME NEW k \in 1..(h + B) PROVE y[k] = P[k]
    <3>1. CASE k <= h
      <4>1. k \in 1..h /\ k \in 1..n
        BY <1>5, <3>1
      <4>2. y[k] = Data[k]
        BY ONLY <1>6, <2>7, <4>1
      <4>3. P[k] = Data[k]
        BY ONLY <1>8, <1>16, <4>1
      <4> QED
        BY <4>2, <4>3
    <3>2. CASE k > h
      <4>1. PICK e \in 0..(B - 1) : k = h + e + 1
        <5>1. k - h - 1 \in 0..(B - 1) /\ k = h + (k - h - 1) + 1
          BY <3>2
        <5> QED
          BY <5>1
      <4>2. y[k] = w[e]
        <5>1. e + 1 \in 1..B /\ h + (e + 1) = k /\ (e + 1) - 1 = e
          BY <4>1
        <5> QED
          BY ONLY <2>5, <2>7, <5>1
      <4>3. CASE e < i
        <5>1. e \in 0..(i - 1) /\ e \in 0..(B - 9) /\ k \in 1..n
          BY <1>5, <1>19, <4>1, <4>3
        <5>2. y[k] = Data[h + e + 1]
          BY ONLY <1>10, <2>3, <4>2, <5>1
        <5>3. P[k] = Data[k]
          BY ONLY <1>8, <1>16, <5>1
        <5> QED
          BY <4>1, <5>2, <5>3
      <4>4. CASE e = i
        <5>1. e \in 0..(B - 9) /\ k = n + 1
          BY <1>5, <1>19, <4>1, <4>4
        <5> QED
          BY ONLY <1>10, <1>16, <2>3, <4>2, <4>4, <5>1
      <4>5. CASE e > i /\ e <= B - 9
        <5>1. e \in (i + 1)..(B - 1) /\ e \in 0..(B - 9)
          BY <1>1, <4>5
        <5>2. e - i \in 1..z /\ n + 1 + (e - i) = k
          BY <1>5, <1>13, <1>19, <4>1, <4>5
        <5>3. y[k] = 0
          BY ONLY <1>10, <2>3, <4>2, <5>1
        <5>4. P[k] = 0
          BY ONLY <1>16, <5>2
        <5> QED
          BY <5>3, <5>4
      <4>6. CASE e > B - 9
        <5>1. /\ e - (B - 9) \in 1..8 /\ (B - 8) + (e - (B - 9)) - 1 = e
              /\ n + 1 + z + (e - (B - 9)) = k
          BY <1>1, <1>5, <1>13, <1>19, <4>1, <4>6
        <5> QED
          BY ONLY <1>16, <2>3, <4>2, <5>1
      <4> QED
        BY <4>3, <4>4, <4>5, <4>6
    <3> QED
      BY <3>1, <3>2
  <2>10. y = P
    BY ONLY <1>16, <2>7, <2>8, <2>9, SeqEqual
  <2>11. hashed' = P /\ hashed' = y /\ Message_Block' = w
    BY <2>1, <2>2, <2>4, <2>6, <2>10
  <2>12. w = [k \in 0..(B - 1) |-> w[k]]
    BY <1>17, <2>2
  <2>13. Blocks(Len(hashed'))
    BY <1>1, <1>6, <2>7, <2>11, BlocksGrow
  <2> QED
    BY ONLY <1>1, <1>7, <1>15, <2>1, <2>7, <2>11, <2>12, <2>13
<1>20. CASE i > B - 9
  <2>0. PICK zero : zero = [k \in 0..(B - 1) |-> 0]
    OBVIOUS
  <2>1. /\ Message_Block' = WithLength(zero)
        /\ hashed' = hashed \o Octets(cl) \o Octets(WithLength(zero))
        /\ Message_Block_Index' = 0
    <3>1. Message_Block_Index > LenAt - 1
      BY <1>1, <1>3, <1>17, <1>20
    <3> QED
      BY <1>1, <1>3, <1>9, <2>0, <3>1 DEF SHA1PadMessage, PadAbove
  <2>2. PICK w : w = WithLength(zero)
    OBVIOUS
  <2>3. /\ \A k \in 0..(B - 1) : w[k] \in Nat
        /\ \A k \in 0..(B - 9) : w[k] = 0
        /\ \A j \in 1..8 : w[(B - 8) + j - 1] = d[j]
    <3>1. \A k \in 0..(B - 1) : zero[k] = 0 /\ zero[k] \in Nat
      BY ONLY <2>0
    <3>2. /\ \A k \in 0..(B - 1) : w[k] \in Nat
          /\ \A k \in 0..(B - 9) : w[k] = zero[k]
          /\ \A j \in 1..8 : w[(B - 8) + j - 1] = d[j]
      BY ONLY <1>18, <2>2, <3>1
    <3>3. \A k \in 0..(B - 9) : k \in 0..(B - 1)
      OBVIOUS
    <3> QED
      BY ONLY <3>1, <3>2, <3>3
  <2>4. PICK x : x = Octets(cl)
    OBVIOUS
  <2>5. x \in Seq(Nat) /\ Len(x) = B /\ \A k \in 1..B : x[k] = cl[k - 1]
    <3>1. \A k \in 0..(BlockSize - 1) : cl[k] \in Nat
      BY <1>1, <1>10
    <3> QED
      BY ONLY <1>1, <2>4, <3>1, OctetsFact
  <2>6. PICK u : u = Octets(w)
    OBVIOUS
  <2>7. u \in Seq(Nat) /\ Len(u) = B /\ \A k \in 1..B : u[k] = w[k - 1]
    BY ONLY <1>1, <2>3, <2>6, OctetsFact
  <2>8. PICK v : v = hashed \o x
    OBVIOUS
  <2>9. /\ v \in Seq(Nat) /\ Len(v) = h + B
        /\ \A k \in 1..h : v[k] = hashed[k]
        /\ \A k \in 1..B : v[h + k] = x[k]
    <3>1. /\ hashed \in Seq(Nat) /\ x \in Seq(Nat) /\ h \in Nat /\ h = Len(hashed)
          /\ B \in Nat /\ B = Len(x)
      BY <1>2, <1>6, <2>5
    <3> QED
      BY ONLY <2>8, <3>1, Join
  <2>10. PICK y : y = v \o u
    OBVIOUS
  <2>11. PICK l \in Nat : l = h + B
    OBVIOUS
  <2>12. /\ y \in Seq(Nat) /\ Len(y) = l + B
         /\ \A k \in 1..l : y[k] = v[k]
         /\ \A k \in 1..B : y[l + k] = u[k]
    <3>1. /\ v \in Seq(Nat) /\ u \in Seq(Nat) /\ l \in Nat /\ l = Len(v)
          /\ B \in Nat /\ B = Len(u)
      BY <2>7, <2>9, <2>11
    <3> QED
      BY ONLY <2>10, <3>1, Join
  <2>13. Len(P) = l + B
    BY <1>1, <1>5, <1>13, <1>16, <1>20, <2>11
  <2>14. ASSUME NEW k \in 1..(l + B) PROVE y[k] = P[k]
    <3>1. CASE k <= h
      <4>1. k \in 1..h /\ k \in 1..n /\ k \in 1..l
        BY <1>5, <2>11, <3>1
      <4>2. y[k] = Data[k]
        BY ONLY <1>6, <2>9, <2>12, <4>1
      <4>3. P[k] = Data[k]
        BY ONLY <1>8, <1>16, <4>1
      <4> QED
        BY <4>2, <4>3
    <3>2. CASE k > h /\ k <= l
      <4>1. PICK e \in 0..(B - 1) : k = h + e + 1
        <5>1. k - h - 1 \in 0..(B - 1) /\ k = h + (k - h - 1) + 1
          BY <2>11, <3>2
        <5> QED
          BY <5>1
      <4>2. y[k] = cl[e]
        <5>1. e + 1 \in 1..B /\ h + (e + 1) = k /\ (e + 1) - 1 = e /\ k \in 1..l
          BY <3>2, <4>1
        <5>2. y[k] = v[k]
          BY ONLY <2>12, <5>1
        <5> QED
          BY ONLY <2>5, <2>9, <5>1, <5>2
      <4>3. CASE e < i
        <5>1. e \in 0..(i - 1) /\ k \in 1..n
          BY <1>5, <4>1, <4>3
        <5>2. y[k] = Data[h + e + 1]
          BY ONLY <1>10, <4>2, <5>1
        <5>3. P[k] = Data[k]
          BY ONLY <1>8, <1>16, <5>1
        <5> QED
          BY <4>1, <5>2, <5>3
      <4>4. CASE e = i
        <5>1. k = n + 1
          BY <1>5, <4>1, <4>4
        <5> QED
          BY ONLY <1>10, <1>16, <4>2, <4>4, <5>1
      <4>5. CASE e > i
        <5>1. e \in (i + 1)..(B - 1)
          BY <4>5
        <5>2. e - i \in 1..z /\ n + 1 + (e - i) = k
          BY <1>1, <1>5, <1>13, <1>20, <4>1, <4>5
        <5>3. y[k] = 0
          BY ONLY <1>10, <4>2, <5>1
        <5>4. P[k] = 0
          BY ONLY <1>16, <5>2
        <5> QED
          BY <5>3, <5>4
      <4> QED
        BY <4>3, <4>4, <4>5
    <3>3. CASE k > l
      <4>1. PICK e \in 0..(B - 1) : k = l + e + 1
        <5>1. k - l - 1 \in 0..(B - 1) /\ k = l + (k - l - 1) + 1
          BY <3>3
        <5> QED
          BY <5>1
      <4>2. y[k] = w[e]
        <5>1. e + 1 \in 1..B /\ l + (e + 1) = k /\ (e + 1) - 1 = e
          BY <4>1
        <5> QED
          BY ONLY <2>7, <2>12, <5>1
      <4>3. CASE e <= B - 9
        <5>1. e \in 0..(B - 9)
          BY <4>3
        <5>2. B + e - i \in 1..z /\ n + 1 + (B + e - i) = k
          BY <1>1, <1>5, <1>13, <1>20, <2>11, <4>1, <4>3
        <5>3. y[k] = 0
          BY ONLY <2>3, <4>2, <5>1
        <5>4. P[k] = 0
          BY ONLY <1>16, <5>2
        <5> QED
          BY <5>3, <5>4
      <4>4. CASE e > B - 9
        <5>1. /\ e - (B - 9) \in 1..8 /\ (B - 8) + (e - (B - 9)) - 1 = e
              /\ n + 1 + z + (e - (B - 9)) = k
          BY <1>1, <1>5, <1>13, <1>20, <2>11, <4>1, <4>4
        <5> QED
          BY ONLY <1>16, <2>3, <4>2, <5>1
      <4> QED
        BY <4>3, <4>4
    <3> QED
      BY <3>1, <3>2, <3>3
  <2>15. y = P
    BY ONLY <1>16, <2>12, <2>13, <2>14, SeqEqual
  <2>16. hashed' = P /\ hashed' = y /\ Message_Block' = w
    BY <2>1, <2>2, <2>4, <2>6, <2>8, <2>10, <2>15
  <2>17. w = [k \in 0..(B - 1) |-> w[k]]
    BY <1>17, <2>2
  <2>18. Blocks(Len(hashed'))
    BY <1>1, <1>6, <2>11, <2>12, <2>16, BlocksGrow
  <2> QED
    BY ONLY <1>1, <1>7, <1>15, <2>1, <2>12, <2>16, <2>17, <2>18
<1> QED
  BY <1>19, <1>20

-----------------------------------------------------------------------------
(* The invariant is inductive.                                             *)

LEMMA EmptyContext ==
  ASSUME hashed = <<>>, Message_Block_Index = 0, Length_Low = 0, Length_High = 0, offered = 0,
         input = <<>>, Computed = 0, Corrupted = 0, atResult = None, ret = None,
         Message_Block = [k \in 0..(BlockSize - 1) |-> Message_Block[k]]
  PROVE  Sha1Inv
<1>0. /\ Len(hashed) = 0 /\ Len(input) = 0 /\ hashed \in Seq(Nat) /\ input \in Seq(Nat)
      /\ offered - Len(input) = 0 /\ Len(hashed) + Message_Block_Index = 0
  <2>1. hashed \in Seq(Nat) /\ input \in Seq(Nat) /\ Len(hashed) = 0 /\ Len(input) = 0
    BY EmptySeq
  <2>2. 0 - 0 = 0 /\ 0 + 0 = 0
    OBVIOUS
  <2> QED
    BY <2>1, <2>2, Zenon
<1>1. Blocks(Len(hashed))
  <2>1. Len(hashed) = 0 /\ 0 \in 0..0 /\ 0 = 0 * BlockSize
    BY BlockAssumption DEF BlockAssumption
  <2> QED
    BY <2>1 DEF Blocks
<1>2. Types
  BY <1>1, WordFact, BlockAssumption, DataAssumption DEF Types, BlockAssumption, DataAssumption
<1>3. Reading /\ Content
  <2>1. 1..Len(input) = {} /\ 1..Len(hashed) = {} /\ 0..(Message_Block_Index - 1) = {}
    BY <1>0
  <2> QED
    BY <1>0, <2>1, Zenon DEF Reading, Content
<1>4. LengthExact
  BY <1>0, WordFact DEF LengthExact
<1>5. Flags
  BY <1>3, NoneAssumption DEF Flags, NoneAssumption
<1> QED
  BY <1>2, <1>3, <1>4, <1>5 DEF Sha1Inv

LEMMA Sha1Init == Init => Sha1Inv
<1> SUFFICES ASSUME Init PROVE Sha1Inv
  OBVIOUS
<1>1. Message_Block = [k \in 0..(BlockSize - 1) |-> Message_Block[k]]
  BY DEF Init
<1> QED
  BY <1>1, EmptyContext DEF Init

LEMMA ResetStep == ASSUME Sha1Inv, SHA1Reset PROVE Sha1Inv'
<1> USE DEF SHA1Reset
<1>0. /\ hashed' = <<>> /\ input' = <<>> /\ Message_Block_Index' = 0 /\ offered' = 0
      /\ Len(hashed') = 0 /\ Len(input') = 0 /\ hashed' \in Seq(Nat) /\ input' \in Seq(Nat)
      /\ offered' - Len(input') = 0 /\ Len(hashed') + Message_Block_Index' = 0
  <2>1. hashed' \in Seq(Nat) /\ input' \in Seq(Nat) /\ Len(hashed') = 0 /\ Len(input') = 0
    BY EmptySeq
  <2>2. 0 - 0 = 0 /\ 0 + 0 = 0
    OBVIOUS
  <2> QED
    BY <2>1, <2>2, Zenon
<1>1. Blocks(Len(hashed'))
  <2>1. Len(hashed') = 0 /\ 0 \in 0..0 /\ 0 = 0 * BlockSize
    BY <1>0, BlockAssumption DEF BlockAssumption
  <2> QED
    BY <2>1 DEF Blocks
<1>2. Types'
  <2>1. 0 \in 0..(Word - 1) /\ 0 \in 0..(BlockSize - 1) /\ 0 \in 0..Len(Data)
    BY WordFact, BlockAssumption, DataAssumption DEF BlockAssumption, DataAssumption
  <2>2. Message_Block' = [k \in 0..(BlockSize - 1) |-> Message_Block'[k]]
    BY DEF Sha1Inv, Types
  <2>3. Len(input') <= offered'
    BY <1>0
  <2> QED
    BY <1>0, <1>1, <2>1, <2>2, <2>3, Zenon DEF Types
<1>3. Reading' /\ Content'
  <2>1. 1..Len(input') = {} /\ 1..Len(hashed') = {} /\ 0..(Message_Block_Index' - 1) = {}
    BY <1>0
  <2> QED
    BY <1>0, <2>1, Zenon DEF Reading, Content
<1>4. LengthExact'
  BY <1>0, WordFact DEF LengthExact
<1>5. Flags'
  BY <1>3, NoneAssumption DEF Flags, NoneAssumption
<1> QED
  BY <1>2, <1>3, <1>4, <1>5 DEF Sha1Inv

LEMMA MisusedLater ==
  ASSUME Misused, offered \in Nat, offered' \in Nat, offered' >= offered,
         atResult \in Nat \cup {None}, atResult # None => atResult' = atResult
  PROVE  Misused'
<1>1. PICK w : w = Word * Word /\ w \in Nat
  BY WordFact
<1>2. CASE atResult # None /\ offered > atResult
  BY <1>2 DEF Misused
<1>3. CASE 8 * offered >= w
  <2>1. 8 * offered' >= w
    BY <1>1, <1>3
  <2> QED
    BY <1>1, <2>1 DEF Misused
<1> QED
  BY <1>1, <1>2, <1>3 DEF Misused

LEMMA InputStep ==
  ASSUME Sha1Inv, NEW n \in 0..(Len(Data) - offered), SHA1Input(n) PROVE Sha1Inv'
<1>0. /\ Types /\ Reading /\ LengthExact /\ Flags /\ input = <<>> /\ Len(input) = 0
      /\ offered' = offered + n /\ ret' = None
      /\ UNCHANGED <<Message_Block, Message_Block_Index, hashed, Length_Low, Length_High, Computed, atResult>>
  BY DEF Sha1Inv, SHA1Input, block
<1>1. /\ Data \in Seq(Nat) /\ offered \in 0..Len(Data) /\ Len(Data) \in Nat
      /\ n \in Nat /\ offered \in Nat /\ offered' \in 0..Len(Data) /\ offered' \in Nat
  BY <1>0, DataAssumption DEF Types, DataAssumption
<1>2. CASE n = 0 \/ (Computed = 0 /\ Corrupted = 0)
  <2>1. input' = SubSeq(Data, offered + 1, offered + n) /\ Corrupted' = Corrupted
    BY <1>2 DEF SHA1Input
  <2>2. /\ input' \in Seq(Nat) /\ Len(input') = n
        /\ \A k \in 1..n : input'[k] = Data[offered + k]
    <3>1. PICK lo \in Nat, hi \in Nat : lo = offered + 1 /\ hi = offered + n
      BY <1>1
    <3>2. \A k \in lo..hi : k \in 1..Len(Data) /\ Data[k] \in Nat
      BY <1>1, <3>1
    <3>3. PICK s : s = SubSeq(Data, lo, hi)
      OBVIOUS
    <3>4. /\ s \in Seq(Nat) /\ Len(s) = IF lo <= hi THEN hi - lo + 1 ELSE 0
          /\ \A k \in 1..(hi - lo + 1) : s[k] = Data[lo + k - 1]
      BY ONLY <3>1, <3>2, <3>3, SubSeqProperties
    <3>5. hi - lo + 1 = n /\ (lo <= hi \/ n = 0) /\ \A k \in 1..n : lo + k - 1 = offered + k
      BY <1>1, <3>1
    <3>6. Len(s) = n /\ \A k \in 1..n : s[k] = Data[offered + k]
      BY ONLY <3>1, <3>4, <3>5, <1>1
    <3> QED
      BY <2>1, <3>1, <3>3, <3>4, <3>6
  <2>a. offered' - Len(input') = offered /\ Len(input') <= offered' /\ offered - Len(input) = offered
    BY <1>0, <1>1, <2>2
  <2>3. Types'
    BY <1>0, <1>1, <2>1, <2>2, <2>a, Zenon DEF Types
  <2>4. Reading'
    BY <2>2, <2>a DEF Reading
  <2>5. LengthExact'
    BY <1>0, <2>1, <2>a, Zenon DEF LengthExact
  <2>6. Flags'
    <3>1. input' # <<>> => n # 0
      BY <1>1, <2>2
    <3>2. Content => Content'
      BY <1>0, <2>a, Zenon DEF Content
    <3>3. Corrupted' = 1 => Misused'
      BY <1>0, <1>1, <2>1, MisusedLater DEF Flags, Types
    <3>4. Corrupted' = 0 /\ Computed' = 1 => atResult' = offered' /\ hashed' = Padded(Message')
      <4>1. n = 0 => offered' = offered /\ Message' = Message
        BY <1>0, <1>1 DEF Message
      <4> QED
        BY <1>0, <1>2, <2>1, <4>1 DEF Flags
    <3>5. ret' # 1 /\ ret' # 0
      BY <1>0, NoneAssumption DEF NoneAssumption
    <3> QED
      BY <1>0, <1>2, <2>1, <3>1, <3>2, <3>3, <3>4, <3>5 DEF Flags
  <2> QED
    BY <2>3, <2>4, <2>5, <2>6 DEF Sha1Inv
<1>3. CASE ~(n = 0 \/ (Computed = 0 /\ Corrupted = 0))
  <2>1. input' = input /\ Corrupted' = 1
    BY <1>3 DEF SHA1Input
  <2>2. Types'
    BY <1>0, <1>1, <2>1 DEF Types
  <2>3. Reading' /\ LengthExact'
    BY <1>0, <2>1 DEF Reading, LengthExact
  <2>4. Misused'
    <3>1. CASE Corrupted = 1
      BY <1>0, <1>1, <3>1, MisusedLater DEF Flags, Types
    <3>2. CASE Corrupted = 0 /\ Computed = 1
      <4>1. atResult' = offered /\ offered' > offered /\ atResult' # None
        BY <1>0, <1>1, <1>3, <3>2, NoneAssumption DEF Flags, NoneAssumption
      <4> QED
        BY <4>1 DEF Misused
    <3> QED
      BY <1>0, <1>3, <3>1, <3>2 DEF Types
  <2>5. ret' # 1 /\ ret' # 0
    BY <1>0, NoneAssumption DEF NoneAssumption
  <2>6. Flags'
    BY <1>0, <2>1, <2>4, <2>5 DEF Flags
  <2> QED
    BY <2>2, <2>3, <2>6 DEF Sha1Inv
<1> QED
  BY <1>2, <1>3

\* An octet goes to its place, in the block or at the end of the block that is
\* processed with it.
LEMMA FillOctet ==
  ASSUME Types, Content, NEW c \in Nat, c = offered - Len(input), c + 1 <= Len(Data),
         InputOctet, Head(input) = Data[c + 1]
  PROVE  /\ Message_Block' = [k \in 0..(BlockSize - 1) |-> Message_Block'[k]]
         /\ Message_Block_Index' \in 0..(BlockSize - 1)
         /\ hashed' \in Seq(Nat) /\ Blocks(Len(hashed'))
         /\ Len(hashed') + Message_Block_Index' = c + 1
         /\ \A k \in 1..Len(hashed') : hashed'[k] = Data[k]
         /\ \A k \in 0..(Message_Block_Index' - 1) : Message_Block'[k] = Data[Len(hashed') + k + 1]
<1>1. PICK B \in Nat : B = BlockSize /\ B > 8
  BY BlockAssumption DEF BlockAssumption
<1>2. PICK h \in Nat : h = Len(hashed)
  <2>1. hashed \in Seq(Nat)
    BY DEF Types
  <2> QED
    BY ONLY <2>1
<1>3. PICK i \in 0..(B - 1) : i = Message_Block_Index
  BY <1>1 DEF Types
<1>4. h + i = c /\ hashed \in Seq(Nat) /\ Blocks(h) /\ \A k \in 1..h : hashed[k] = Data[k]
  BY <1>2, <1>3 DEF Types, Content
<1>5. Data \in Seq(Nat) /\ Len(Data) \in Nat /\ \A k \in 1..(c + 1) : Data[k] \in Nat
  BY DataAssumption DEF DataAssumption
<1>6. PICK mb : mb = Message_Block'
  OBVIOUS
<1>7. PICK x : x = Data[c + 1]
  OBVIOUS
<1>8. mb = [Message_Block EXCEPT ![i] = x]
  BY <1>3, <1>6, <1>7 DEF InputOctet
<1>9. PICK ob : ob = Message_Block
  OBVIOUS
<1>10. ob = [k \in 0..(B - 1) |-> ob[k]] /\ \A k \in 0..(i - 1) : ob[k] = Data[h + k + 1]
  BY <1>1, <1>2, <1>3, <1>9 DEF Types, Content
<1>11. mb = [k \in 0..(B - 1) |-> mb[k]] /\ \A k \in 0..(B - 1) : mb[k] = IF k = i THEN x ELSE ob[k]
  BY ONLY <1>8, <1>9, <1>10
<1>12. \A k \in 0..i : mb[k] = Data[h + k + 1]
  <2> SUFFICES ASSUME NEW k \in 0..i PROVE mb[k] = Data[h + k + 1]
    OBVIOUS
  <2>1. k \in 0..(B - 1) /\ (k = i => h + k + 1 = c + 1) /\ (k # i => k \in 0..(i - 1))
    BY <1>4
  <2> QED
    BY ONLY <1>7, <1>10, <1>11, <2>1
<1>13. CASE i + 1 = B
  <2>1. hashed' = hashed \o Octets(mb) /\ Message_Block_Index' = 0
    BY <1>1, <1>3, <1>6, <1>13 DEF InputOctet, ProcessBlock
  <2>2. PICK u : u = Octets(mb)
    OBVIOUS
  <2>3. \A k \in 0..(B - 1) : mb[k] \in Nat /\ mb[k] = Data[h + k + 1]
    <3> SUFFICES ASSUME NEW k \in 0..(B - 1) PROVE mb[k] \in Nat /\ mb[k] = Data[h + k + 1]
      OBVIOUS
    <3>1. k \in 0..i /\ h + k + 1 \in 1..(c + 1)
      BY <1>4, <1>13
    <3> QED
      BY ONLY <1>5, <1>12, <3>1
  <2>4. u \in Seq(Nat) /\ Len(u) = B /\ \A k \in 1..B : u[k] = mb[k - 1]
    BY ONLY <1>1, <2>2, <2>3, OctetsFact
  <2>5. PICK y : y = hashed \o u
    OBVIOUS
  <2>6. /\ y \in Seq(Nat) /\ Len(y) = h + B
        /\ \A k \in 1..h : y[k] = hashed[k]
        /\ \A k \in 1..B : y[h + k] = u[k]
    <3>1. /\ hashed \in Seq(Nat) /\ u \in Seq(Nat) /\ h \in Nat /\ h = Len(hashed)
          /\ B \in Nat /\ B = Len(u)
      BY <1>2, <1>4, <2>4
    <3> QED
      BY ONLY <2>5, <3>1, Join
  <2>7. \A k \in 1..(h + B) : y[k] = Data[k]
    <3> SUFFICES ASSUME NEW k \in 1..(h + B) PROVE y[k] = Data[k]
      OBVIOUS
    <3>1. CASE k <= h
      <4>1. k \in 1..h
        BY <3>1
      <4> QED
        BY ONLY <1>4, <2>6, <4>1
    <3>2. CASE k > h
      <4>1. PICK e \in 1..B : k = h + e
        <5>1. k - h \in 1..B /\ k = h + (k - h)
          BY <3>2
        <5> QED
          BY <5>1
      <4>2. e - 1 \in 0..(B - 1) /\ h + (e - 1) + 1 = k
        BY <4>1
      <4>3. y[k] = mb[e - 1]
        BY ONLY <2>4, <2>6, <4>1
      <4> QED
        BY ONLY <2>3, <4>2, <4>3
    <3> QED
      BY <3>1, <3>2
  <2>8. hashed' = y /\ Len(hashed') = h + B /\ h + B = c + 1
    BY <1>4, <1>13, <2>1, <2>2, <2>5, <2>6
  <2>9. Blocks(Len(hashed'))
    BY <1>1, <1>4, <2>8, BlocksGrow
  <2>10. Message_Block_Index' = 0 /\ 0 \in 0..(B - 1) /\ 0..(Message_Block_Index' - 1) = {}
         /\ Len(hashed') + 0 = c + 1
    BY <1>1, <2>1, <2>8
  <2> QED
    BY ONLY <1>1, <1>6, <1>11, <2>6, <2>7, <2>8, <2>9, <2>10
<1>14. CASE i + 1 # B
  <2>1. hashed' = hashed /\ Message_Block_Index' = i + 1
    BY <1>1, <1>3, <1>14 DEF InputOctet
  <2>2. i + 1 \in 0..(B - 1) /\ (i + 1) - 1 = i /\ h + (i + 1) = c + 1
    BY <1>4, <1>14
  <2> QED
    BY ONLY <1>1, <1>2, <1>4, <1>6, <1>11, <1>12, <2>1, <2>2
<1> QED
  BY <1>13, <1>14

LEMMA OctetStep == ASSUME Sha1Inv, InputOctet PROVE Sha1Inv'
<1>0. /\ Types /\ Reading /\ LengthExact /\ Flags /\ input # <<>>
      /\ offered' = offered /\ atResult' = atResult /\ ret' = ret /\ Computed' = Computed
  BY DEF Sha1Inv, InputOctet, history
<1>1. Computed = 0 /\ Corrupted = 0 /\ ret = None /\ atResult = None /\ Content
  BY <1>0 DEF Flags
<1>2. PICK l \in Nat : l = Len(input) /\ l > 0
  <2>1. input \in Seq(Nat) /\ input # <<>>
    BY <1>0 DEF Types
  <2>2. Len(input) \in Nat \ {0}
    BY ONLY <2>1, EmptySeq
  <2> QED
    BY ONLY <2>2
<1>3. PICK o \in Nat : o = offered /\ o <= Len(Data) /\ l <= o /\ Len(Data) \in Nat
  BY <1>0, <1>2, DataAssumption DEF Types, DataAssumption
<1>4. PICK c \in Nat : c = o - l /\ c = offered - Len(input) /\ c + 1 <= o
  BY <1>2, <1>3
<1>5. input \in Seq(Nat) /\ \A k \in 1..l : input[k] = Data[c + k]
  BY <1>0, <1>2, <1>4 DEF Types, Reading
<1>6. Head(input) = Data[c + 1]
  BY <1>0, <1>2, <1>5
<1>7. PICK t : t = Tail(input)
  OBVIOUS
<1>8. t \in Seq(Nat) /\ Len(t) = l - 1 /\ \A k \in 1..(l - 1) : t[k] = Data[(c + 1) + k]
  <2>1. t \in Seq(Nat) /\ Len(t) = l - 1 /\ \A k \in 1..(l - 1) : t[k] = input[k + 1]
    BY <1>0, <1>2, <1>5, <1>7, HeadTailProperties
  <2>2. \A k \in 1..(l - 1) : k + 1 \in 1..l /\ c + (k + 1) = (c + 1) + k
    OBVIOUS
  <2> QED
    BY <1>5, <2>1, <2>2
<1>9. /\ Message_Block' = [k \in 0..(BlockSize - 1) |-> Message_Block'[k]]
      /\ Message_Block_Index' \in 0..(BlockSize - 1)
      /\ hashed' \in Seq(Nat) /\ Blocks(Len(hashed'))
      /\ Len(hashed') + Message_Block_Index' = c + 1
      /\ \A k \in 1..Len(hashed') : hashed'[k] = Data[k]
      /\ \A k \in 0..(Message_Block_Index' - 1) : Message_Block'[k] = Data[Len(hashed') + k + 1]
  <2>1. c + 1 <= Len(Data) /\ c = offered - Len(input)
    BY <1>3, <1>4
  <2> QED
    BY ONLY <1>0, <1>1, <1>6, <2>1, InputOctet, FillOctet
<1>10. /\ Length_Low' \in 0..(Word - 1) /\ Length_High' \in 0..(Word - 1) /\ Corrupted' \in {0, 1}
       /\ Corrupted' = 0 => Length_High' * Word + Length_Low' = 8 * (c + 1)
       /\ Corrupted' = 1 => 8 * (c + 1) = Word * Word
  <2>1. Length_High * Word + Length_Low = 8 * c
    BY <1>0, <1>1, <1>4, Zenon DEF LengthExact
  <2>2. Length_Low \in 0..(Word - 1) /\ Length_High \in 0..(Word - 1) /\ CountOctet
    BY <1>0 DEF Types, InputOctet
  <2> QED
    BY ONLY <1>1, <2>1, <2>2, CountFact
<1>11. CASE Corrupted' = 1
  <2>1. input' = <<>> /\ Len(input') = 0 /\ input' \in Seq(Nat)
    BY <1>11, EmptySeq DEF InputOctet
  <2>2. Types'
    <3>1. Len(input') <= offered' /\ offered' \in 0..Len(Data)
      BY <1>0, <1>3, <2>1
    <3> QED
      BY <1>0, <1>9, <1>10, <2>1, <3>1, Zenon DEF Types
  <2>3. Reading' /\ LengthExact'
    <3>1. 1..Len(input') = {}
      BY <2>1
    <3>2. Corrupted' # 0
      BY <1>11
    <3> QED
      BY <3>1, <3>2, Zenon DEF Reading, LengthExact
  <2>4. Misused'
    <3>1. PICK w : w = Word * Word /\ w \in Nat
      BY WordFact
    <3>2. 8 * offered' >= w
      BY <1>0, <1>3, <1>4, <1>10, <1>11, <3>1
    <3> QED
      BY <3>1, <3>2 DEF Misused
  <2>5. Flags'
    BY <1>0, <1>1, <1>11, <2>1, <2>4, NoneAssumption DEF Flags, NoneAssumption
  <2> QED
    BY <2>2, <2>3, <2>5 DEF Sha1Inv
<1>12. CASE Corrupted' = 0
  <2>1. input' = t /\ input' \in Seq(Nat) /\ Len(input') = l - 1
    BY <1>7, <1>8, <1>12 DEF InputOctet
  <2>2. offered' - Len(input') = c + 1 /\ Len(input') <= offered' /\ offered' \in 0..Len(Data)
    BY <1>0, <1>3, <1>4, <2>1
  <2>3. Types'
    BY <1>0, <1>9, <1>10, <2>1, <2>2, Zenon DEF Types
  <2>4. Reading'
    BY <1>8, <2>1, <2>2, Zenon DEF Reading
  <2>5. LengthExact'
    BY <1>10, <1>12, <2>2, Zenon DEF LengthExact
  <2>6. Content'
    BY <1>9, <2>2, Zenon DEF Content
  <2>7. Flags'
    BY <1>0, <1>1, <1>12, <2>6, NoneAssumption DEF Flags, NoneAssumption
  <2> QED
    BY <2>3, <2>4, <2>5, <2>7 DEF Sha1Inv
<1> QED
  BY <1>10, <1>11, <1>12

LEMMA ResultStep == ASSUME Sha1Inv, SHA1Result PROVE Sha1Inv'
<1>0. /\ Types /\ Reading /\ LengthExact /\ Flags /\ input = <<>> /\ input' = input
      /\ offered' = offered /\ Corrupted' = Corrupted
      /\ Length_Low' = Length_Low /\ Length_High' = Length_High
      /\ ret' = (IF Corrupted = 1 THEN 0 ELSE 1)
      /\ atResult' = (IF atResult = None THEN offered ELSE atResult)
  BY DEF Sha1Inv, SHA1Result
<1>1. offered \in Nat /\ Message' = Message
  BY <1>0, DataAssumption DEF Types, DataAssumption, Message
<1>2. Reading' /\ LengthExact'
  BY <1>0, Zenon DEF Reading, LengthExact
<1>3. CASE Corrupted = 0 /\ Computed = 0
  <2>1. Content /\ atResult = None /\ SHA1PadMessage /\ Computed' = 1
    BY <1>0, <1>3 DEF Flags, SHA1Result
  <2>2. /\ hashed' = Padded(Message) /\ hashed' \in Seq(Nat) /\ Blocks(Len(hashed'))
        /\ Message_Block_Index' = 0
        /\ Message_Block' = [k \in 0..(BlockSize - 1) |-> Message_Block'[k]]
    BY ONLY <1>0, <1>3, <2>1, Pad
  <2>3. Types'
    <3>1. 0 \in 0..(BlockSize - 1)
      BY BlockAssumption DEF BlockAssumption
    <3> QED
      BY <1>0, <1>1, <1>3, <2>1, <2>2, <3>1, Zenon DEF Types
  <2>4. Flags'
    BY <1>0, <1>1, <1>3, <2>1, <2>2 DEF Flags
  <2> QED
    BY <1>2, <2>3, <2>4 DEF Sha1Inv
<1>4. CASE ~(Corrupted = 0 /\ Computed = 0)
  <2>1. UNCHANGED <<Message_Block, Message_Block_Index, hashed, Computed>>
    BY <1>4 DEF SHA1Result, block
  <2>2. Types'
    BY <1>0, <1>1, <2>1, Zenon DEF Types
  <2>3. Corrupted' = 1 => Misused'
    BY <1>0, <1>1, MisusedLater DEF Flags, Types
  <2>4. Flags'
    <3>1. Corrupted \in {0, 1} /\ Computed \in {0, 1}
      BY <1>0 DEF Types
    <3>2. atResult = offered => atResult # None
      BY <1>1, NoneAssumption DEF NoneAssumption
    <3> QED
      BY <1>0, <1>1, <1>4, <2>1, <2>3, <3>1, <3>2 DEF Flags
  <2> QED
    BY <1>2, <2>2, <2>4 DEF Sha1Inv
<1> QED
  BY <1>3, <1>4

LEMMA Sha1Next == ASSUME Sha1Inv, [Next]_vars PROVE Sha1Inv'
<1>1. CASE SHA1Reset
  BY <1>1, ResetStep
<1>2. CASE \E n \in 0..(Len(Data) - offered) : SHA1Input(n)
  BY <1>2, InputStep
<1>3. CASE InputOctet
  BY <1>3, OctetStep
<1>4. CASE SHA1Result
  BY <1>4, ResultStep
<1>5. CASE UNCHANGED vars
  <2>1. UNCHANGED <<Message_Block, Message_Block_Index, hashed, Length_Low, Length_High, Computed,
                    Corrupted, input, offered, atResult, ret>>
    BY <1>5 DEF vars, block, flags, history
  <2> QED
    BY <2>1, Zenon DEF Sha1Inv, Types, Reading, LengthExact, Flags, Content, Misused, Message
<1> QED
  BY <1>1, <1>2, <1>3, <1>4, <1>5 DEF Next

\* The context is always taking input, done or misused, and what it holds is
\* what was offered to it.
LEMMA Sha1Invariant == Spec => []Sha1Inv
<1>1. Init => Sha1Inv
  BY Sha1Init
<1>2. Sha1Inv /\ [Next]_vars => Sha1Inv'
  BY Sha1Next
<1> QED
  BY <1>1, <1>2, PTL DEF Spec

-----------------------------------------------------------------------------
(* What SHA1Result promises.                                               *)

LEMMA DoneInTime ==
  ASSUME Sha1Inv, Corrupted = 0, input = <<>>, atResult = offered \/ atResult = None PROVE ~Misused
<1>1. PICK W \in Nat : W = Word /\ W > 0
  BY WordFact
<1>2. PICK H \in 0..(W - 1), L \in 0..(W - 1) : H = Length_High /\ L = Length_Low
  BY <1>1 DEF Sha1Inv, Types
<1>3. PICK o \in Nat : o = offered
  BY DataAssumption DEF Sha1Inv, Types, DataAssumption
<1>4. Len(input) = 0
  BY EmptySeq
<1>5. H * W + L = 8 * o
  BY <1>1, <1>2, <1>3, <1>4 DEF Sha1Inv, LengthExact
<1>6. H * W <= (W - 1) * W /\ (W - 1) * W = W * W - W
  BY Times
<1>7. 8 * o < W * W
  <2>1. PICK hw \in Nat, ww \in Nat : hw = H * W /\ ww = W * W
    OBVIOUS
  <2> QED
    BY <1>5, <1>6, <2>1
<1>8. ~(8 * offered >= Word * Word)
  <2>1. PICK ww \in Nat : ww = W * W
    OBVIOUS
  <2> QED
    BY <1>1, <1>3, <1>7, <2>1
<1>9. ~(atResult # None /\ offered > atResult)
  BY <1>3
<1> QED
  BY <1>8, <1>9 DEF Misused

\* Between two calls and between two octets of a call the index of the context
\* is inside the block and the words and flags are in their ranges: no write to
\* Message_Block in SHA1Input or SHA1PadMessage is out of bounds.
THEOREM Sha1Typed == Spec => []TypeOK
<1>1. Sha1Inv => TypeOK
  <2> SUFFICES ASSUME Sha1Inv PROVE TypeOK
    OBVIOUS
  <2>1. Types
    BY DEF Sha1Inv
  <2>2. DOMAIN Message_Block = 0..(BlockSize - 1)
    BY <2>1 DEF Types
  <2>3. Len(hashed) % BlockSize = 0
    <3>1. PICK B \in Nat : B = BlockSize /\ B > 0
      BY BlockAssumption DEF BlockAssumption
    <3>2. PICK a \in Nat : Len(hashed) = a * B
      BY <2>1, <3>1 DEF Types, Blocks
    <3>3. (a * B + 0) % B = 0
      BY <3>1, DivMod
    <3> QED
      BY <3>1, <3>2, <3>3
  <2> QED
    BY <2>1, <2>2, <2>3 DEF Types, TypeOK
<1> QED
  BY <1>1, Sha1Invariant, PTL

\* However the message is cut into SHA1Input calls, SHA1Result returns 1 with the
\* digest of exactly the padded message, and 0 exactly when the message was too
\* long or went on after its result.
THEOREM DigestOfMessage == Spec => []ResultCorrect
<1>1. Sha1Inv => ResultCorrect
  <2> SUFFICES ASSUME Sha1Inv, ret # None PROVE ResultCorrect
    BY DEF ResultCorrect
  <2>0. Types /\ Flags /\ ret \in {0, 1} /\ input = <<>>
    BY DEF Sha1Inv, Types, Flags
  <2>1. CASE ret = 0
    BY <2>0, <2>1 DEF Flags, ResultCorrect
  <2>2. CASE ret = 1
    <3>1. Corrupted = 0 /\ atResult = offered /\ hashed = Padded(Message)
      BY <2>0, <2>2 DEF Flags
    <3>2. ~Misused
      BY <2>0, <3>1, DoneInTime
    <3> QED
      BY <2>2, <3>1, <3>2 DEF ResultCorrect
  <2> QED
    BY <2>0, <2>1, <2>2
<1> QED
  BY <1>1, Sha1Invariant, PTL

\* The two length words never wrap unnoticed: SHA1Input marks the context as
\* corrupted in the very step in which the high word becomes 0 again.
THEOREM LengthNeverWraps == Spec => []LengthExact
<1>1. Sha1Inv => LengthExact
  BY DEF Sha1Inv
<1> QED
  BY <1>1, Sha1Invariant, PTL

\* No call but SHA1Reset changes a digest that was computed: SHA1Input only
\* marks the context, and SHA1Result does not pad it again.
THEOREM DigestKept == Spec => DigestStable
<1>1. Sha1Inv /\ [Next]_vars => [Computed = 1 => SHA1Reset \/ UNCHANGED <<hashed, Computed>>]_vars
  <2> SUFFICES ASSUME Sha1Inv, Next, Computed = 1, ~SHA1Reset PROVE UNCHANGED <<hashed, Computed>>
    OBVIOUS
  <2>1. CASE \E n \in 0..(Len(Data) - offered) : SHA1Input(n)
    BY <2>1 DEF SHA1Input, block
  <2>2. CASE InputOctet
    <3>1. input # <<>> /\ Flags
      BY <2>2 DEF InputOctet, Sha1Inv
    <3>2. Computed = 0
      BY <3>1 DEF Flags
    <3> QED
      BY <3>2
  <2>3. CASE SHA1Result
    BY <2>3 DEF SHA1Result, block
  <2> QED
    BY <2>1, <2>2, <2>3 DEF Next
<1> QED
  BY <1>1, Sha1Invariant, PTL DEF Spec, DigestStable

=============================================================================
