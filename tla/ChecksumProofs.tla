--------------------------- MODULE ChecksumProofs ---------------------------
(***************************************************************************)
(* The checksums of the router verify, for every number of values of a     *)
(* byte, every content and every length that the 32-bit sum has room for.  *)
(***************************************************************************)
EXTENDS Checksum, SequenceTheorems, WellFoundedInduction, TLAPS

-----------------------------------------------------------------------------
(* Numbers.                                                                *)

LEMMA Times ==
  ASSUME NEW a \in Int, NEW b \in Int, NEW d \in Nat, a <= b
  PROVE  a * d <= b * d /\ a * d \in Int /\ b * d \in Int
  OBVIOUS

LEMMA DivMod ==
  ASSUME NEW q \in Nat, NEW d \in Nat, d > 0, NEW r \in 0..(d - 1)
  PROVE  (q * d + r) \div d = q /\ (q * d + r) % d = r
<1> DEFINE x == q * d + r
           p == x \div d
           s == x % d
<1>1. x \in Nat
  OBVIOUS
<1>2. p \in Int /\ s \in 0..(d - 1) /\ x = p * d + s
  OBVIOUS
<1> HIDE DEF p, s
<1>3. ~(p < q)
  <2> SUFFICES ASSUME p < q PROVE FALSE
    OBVIOUS
  <2>1. (p + 1) * d <= q * d
    BY <1>2, Times
  <2>2. (p + 1) * d = p * d + d
    BY <1>2
  <2> QED
    BY <1>2, <2>1, <2>2
<1>4. ~(q < p)
  <2> SUFFICES ASSUME q < p PROVE FALSE
    OBVIOUS
  <2>1. (q + 1) * d <= p * d
    BY <1>2, Times
  <2>2. (q + 1) * d = q * d + d
    OBVIOUS
  <2> QED
    BY <1>2, <2>1, <2>2
<1>5. p = q
  BY <1>2, <1>3, <1>4
<1> QED
  BY <1>2, <1>5 DEF p, s

LEMMA DivModFact ==
  ASSUME NEW x \in Nat, NEW d \in Nat, d > 0
  PROVE  \E q \in Nat : \E r \in 0..(d - 1) : x = q * d + r /\ x \div d = q /\ x % d = r
<1>1. (x \div d) \in Int /\ (x % d) \in 0..(d - 1) /\ x = (x \div d) * d + (x % d)
  OBVIOUS
<1>2. PICK q \in Int : q = x \div d
  BY <1>1
<1>3. PICK r \in 0..(d - 1) : r = x % d
  BY <1>1
<1>4. x = q * d + r
  BY <1>1, <1>2, <1>3
<1>5. q \in Nat
  <2> SUFFICES ASSUME q < 0 PROVE FALSE
    OBVIOUS
  <2>1. q * d <= (-1) * d
    BY Times
  <2> QED
    BY <1>4, <2>1
<1> QED
  BY <1>2, <1>3, <1>4, <1>5

LEMMA LeastNumber ==
  ASSUME NEW T \in SUBSET Nat, T # {}
  PROVE  \E n \in T : \A m \in T : n <= m
<1> DEFINE R == OpToRel(<, Nat)
<1>1. IsWellFoundedOn(R, Nat)
  BY NatLessThanWellFounded
<1>2. \A x, y \in Nat : <<y, x>> \in R <=> y < x
  BY DEF OpToRel
<1> HIDE DEF R
<1>3. PICK x \in T : \A y \in T : ~(<<y, x>> \in R)
  BY <1>1, WFMin
<1>4. \A y \in T : y \in Nat /\ x \in Nat /\ ~(y < x)
  BY <1>2, <1>3
<1> QED
  BY <1>4

-----------------------------------------------------------------------------
(* Words and bytes.                                                        *)

LEMMA WordFact == Byte \in Nat /\ Byte >= 2 /\ Word \in Nat /\ Word >= 4
<1>1. Byte \in Nat /\ Byte >= 2
  BY ByteAssumption DEF ByteAssumption
<1>2. 2 * Byte <= Byte * Byte
  BY <1>1, Times
<1> QED
  BY <1>1, <1>2 DEF Word

LEMMA NetFact ==
  ASSUME NEW x \in Bytes, NEW y \in Bytes
  PROVE  Net(x, y) \in 0..(Word - 1) /\ Hi(Net(x, y)) = x /\ Lo(Net(x, y)) = y
<1>1. PICK b \in Nat : b = Byte /\ b > 0
  BY WordFact
<1>2. x \in 0..(b - 1) /\ y \in 0..(b - 1) /\ x \in Nat
  BY <1>1 DEF Bytes
<1>3. (x * b + y) \div b = x /\ (x * b + y) % b = y
  BY <1>1, <1>2, DivMod
<1>4. x * b <= (b - 1) * b /\ (b - 1) * b = b * b - b /\ x * b \in Nat
  BY <1>1, <1>2, Times
<1>5. PICK w \in Nat : w = b * b
  BY <1>1
<1>6. x * b + y \in 0..(w - 1)
  BY <1>1, <1>2, <1>4, <1>5
<1> QED
  BY <1>1, <1>3, <1>5, <1>6 DEF Net, Hi, Lo, Word

LEMMA BytesFact ==
  ASSUME NEW w \in 0..(Word - 1)
  PROVE  Hi(w) \in Bytes /\ Lo(w) \in Bytes /\ Net(Hi(w), Lo(w)) = w
<1>1. PICK b \in Nat : b = Byte /\ b > 0
  BY WordFact
<1>2. w \in Nat /\ w < b * b
  BY <1>1, WordFact DEF Word
<1>3. PICK q \in Nat : \E r \in 0..(b - 1) : w = q * b + r /\ w \div b = q /\ w % b = r
  BY <1>1, <1>2, DivModFact
<1>4. PICK r \in 0..(b - 1) : w = q * b + r /\ w \div b = q /\ w % b = r
  BY <1>3
<1>5. q < b
  <2> SUFFICES ASSUME b <= q PROVE FALSE
    OBVIOUS
  <2>1. b * b <= q * b /\ b * b \in Int /\ q * b \in Int
    BY Times
  <2> QED
    BY <1>2, <1>4, <2>1
<1> QED
  BY <1>1, <1>4, <1>5 DEF Hi, Lo, Net, Bytes

\* htons twice is nothing, and it maps zero and all ones to themselves.
LEMMA SwapFact ==
  /\ \A w \in 0..(Word - 1) : Swap(w) \in 0..(Word - 1) /\ Swap(Swap(w)) = w
  /\ Swap(Word - 1) = Word - 1 /\ Swap(0) = 0
<1>1. ASSUME NEW w \in 0..(Word - 1) PROVE Swap(w) \in 0..(Word - 1) /\ Swap(Swap(w)) = w
  <2>1. CASE order = "big"
    BY <2>1 DEF Swap
  <2>2. CASE order # "big"
    <3>1. PICK x \in Bytes, y \in Bytes : x = Hi(w) /\ y = Lo(w) /\ Net(x, y) = w
      BY BytesFact
    <3>2. PICK s : s = Net(y, x)
      OBVIOUS
    <3>3. s \in 0..(Word - 1) /\ Hi(s) = y /\ Lo(s) = x
      BY <3>2, NetFact
    <3>4. Swap(w) = s
      BY <2>2, <3>1, <3>2 DEF Swap
    <3>5. Swap(s) = w
      BY <2>2, <3>1, <3>3 DEF Swap
    <3> QED
      BY <3>3, <3>4, <3>5
  <2> QED
    BY <2>1, <2>2
<1>2. Swap(Word - 1) = Word - 1 /\ Swap(0) = 0
  <2>1. PICK b \in Nat : b = Byte /\ b >= 2
    BY WordFact
  <2>2. b - 1 \in Bytes /\ 0 \in Bytes
    BY <2>1 DEF Bytes
  <2>3. Net(b - 1, b - 1) = Word - 1 /\ Net(0, 0) = 0
    <3>1. (b - 1) * b = b * b - b /\ 0 * b = 0
      BY <2>1
    <3>2. PICK w \in Nat : w = b * b
      BY <2>1
    <3> QED
      BY <2>1, <3>1, <3>2 DEF Net, Word
  <2>4. /\ Hi(Word - 1) = b - 1 /\ Lo(Word - 1) = b - 1
        /\ Hi(0) = 0 /\ Lo(0) = 0
    BY ONLY <2>2, <2>3, NetFact
  <2> QED
    BY <2>3, <2>4 DEF Swap
<1> QED
  BY <1>1, <1>2

\* What is stored is read from the wire as the swapped word.
LEMMA StoreFact ==
  ASSUME NEW w \in 0..(Word - 1)
  PROVE  \E x \in Bytes, y \in Bytes : Store(w) = <<x, y>> /\ Net(x, y) = Swap(w)
<1>1. Hi(w) \in Bytes /\ Lo(w) \in Bytes /\ Net(Hi(w), Lo(w)) = w
  BY BytesFact
<1>2. CASE order = "big"
  BY <1>1, <1>2 DEF Store, Swap
<1>3. CASE order # "big"
  BY <1>1, <1>3 DEF Store, Swap
<1> QED
  BY <1>2, <1>3

-----------------------------------------------------------------------------
(* The carries.                                                            *)

\* Folding adds the end-around carries: it keeps the sum modulo Word - 1.
LEMMA FoldFact ==
  ASSUME NEW s \in Nat
  PROVE  /\ Fold(s) \in 0..(Word - 1)
         /\ \E k \in Nat : s = Fold(s) + k * (Word - 1)
<1>1. PICK W \in Nat : W = Word /\ W >= 4
  BY WordFact
<1>2. PICK M \in Nat : M = W - 1 /\ M > 0
  BY <1>1
<1> DEFINE Body(f, x) == IF x < Word THEN x ELSE f[(x % Word) + (x \div Word)]
           Folds(f) == f = [x \in Nat |-> Body(f, x)]
           g == [x \in Nat |-> IF x = 0 THEN 0 ELSE ((x - 1) % M) + 1]
<1>3. ASSUME NEW x \in Nat, ~(x < W)
      PROVE  \E q \in Nat, y \in Nat : /\ y = (x % W) + (x \div W) /\ x = y + q * M
                                       /\ y > 0 /\ y < x
  <2>1. PICK q \in Nat : \E r \in 0..(W - 1) : x = q * W + r /\ x \div W = q /\ x % W = r
    BY <1>1, DivModFact
  <2>2. PICK r \in 0..(W - 1) : x = q * W + r /\ x \div W = q /\ x % W = r
    BY <2>1
  <2>3. q > 0
    <3> SUFFICES ASSUME q = 0 PROVE FALSE
      OBVIOUS
    <3>1. q * W = 0
      BY <1>1
    <3> QED
      BY <1>3, <2>2, <3>1
  <2>4. q * W = q * M + q /\ q * M \in Nat /\ 1 * M <= q * M
    BY <1>2, <2>3, Times
  <2>5. /\ r + q = (x % W) + (x \div W) /\ x = (r + q) + q * M
        /\ r + q \in Nat /\ r + q > 0 /\ r + q < x
    BY <1>2, <2>2, <2>3, <2>4
  <2> QED
    BY <2>5
<1>4. ASSUME NEW x \in Nat PROVE g[x] = Body(g, x)
  <2>1. CASE x = 0
    BY <1>1, <2>1
  <2>2. CASE x # 0 /\ x < W
    <3>1. x - 1 \in 0..(M - 1)
      BY <1>2, <2>2
    <3>2. (0 * M + (x - 1)) % M = x - 1
      BY <1>2, <3>1, DivMod
    <3>3. g[x] = x
      BY <2>2, <3>2
    <3> QED
      BY <1>1, <2>2, <3>3
  <2>3. CASE ~(x < W)
    <3>1. PICK q \in Nat, y \in Nat : /\ y = (x % W) + (x \div W) /\ x = y + q * M
                                      /\ y > 0 /\ y < x
      BY <1>3, <2>3
    <3>2. y - 1 \in Nat
      BY <3>1
    <3>3. PICK a \in Nat : \E r \in 0..(M - 1) : y - 1 = a * M + r /\ (y - 1) % M = r
      BY <1>2, <3>2, DivModFact
    <3>4. PICK r \in 0..(M - 1) : y - 1 = a * M + r /\ (y - 1) % M = r
      BY <3>3
    <3>5. PICK c \in Nat : c = a + q
      OBVIOUS
    <3>6. (c * M + r) % M = r
      BY <1>2, DivMod
    <3>7. c * M + r = x - 1
      <4>1. c * M = a * M + q * M
        BY <3>5
      <4>2. a * M \in Nat /\ q * M \in Nat
        OBVIOUS
      <4> QED
        BY <3>1, <3>4, <4>1, <4>2
    <3>8. (x - 1) % M = (y - 1) % M
      BY <3>4, <3>6, <3>7
    <3>9. g[x] = g[y]
      BY <2>3, <1>1, <3>1, <3>8
    <3> HIDE DEF g
    <3> QED
      BY <1>1, <2>3, <3>1, <3>9
  <2> QED
    BY <2>1, <2>2, <2>3
<1>5. Folds(g)
  <2>1. g = [x \in Nat |-> g[x]]
    OBVIOUS
  <2> HIDE DEF g
  <2> QED
    BY <1>4, <2>1
<1> DEFINE h == CHOOSE f : Folds(f)
<1>6. Folds(h)
  <2> HIDE DEF Folds
  <2> QED
    BY <1>5
<1>7. Fold(s) = h[s]
  BY DEF Fold
<1>8. \A x \in Nat : h[x] = Body(h, x)
  <2> HIDE DEF h
  <2> QED
    BY <1>6
<1> HIDE DEF g, h, Folds
<1> DEFINE Right(x) == h[x] \in 0..(W - 1) /\ \E k \in Nat : x = h[x] + k * M
<1>9. \A x \in Nat : Right(x)
  <2> DEFINE T == {x \in Nat : ~Right(x)}
  <2> SUFFICES ASSUME T # {} PROVE FALSE
    OBVIOUS
  <2>1. PICK x \in T : \A y \in T : x <= y
    BY LeastNumber
  <2>2. x \in Nat /\ ~Right(x)
    OBVIOUS
  <2>3. CASE x < W
    <3>1. h[x] = x
      BY <1>1, <1>8, <2>2, <2>3
    <3>2. x = h[x] + 0 * M
      BY <2>2, <3>1
    <3> QED
      BY <2>2, <2>3, <3>1, <3>2
  <2>4. CASE ~(x < W)
    <3>1. PICK q \in Nat, y \in Nat : /\ y = (x % W) + (x \div W) /\ x = y + q * M
                                      /\ y > 0 /\ y < x
      BY <1>3, <2>2, <2>4
    <3>2. h[x] = h[y]
      BY <1>1, <1>8, <2>2, <2>4, <3>1
    <3>3. Right(y)
      <4>1. ~(x <= y)
        BY <2>2, <3>1
      <4>2. y \notin T
        BY ONLY <2>1, <4>1
      <4> QED
        BY <4>2
    <3>4. PICK k \in Nat : y = h[y] + k * M
      BY <3>3
    <3>5. (k + q) * M = k * M + q * M /\ k * M \in Nat /\ q * M \in Nat /\ h[y] \in Nat
      BY <3>3
    <3>6. x = h[x] + (k + q) * M
      <4>1. PICK a \in Nat, b \in Nat, c \in Nat :
              a = k * M /\ b = q * M /\ c = h[y] /\ (k + q) * M = a + b
        BY ONLY <3>5, Zenon
      <4>2. x = c + (a + b)
        <5>1. y = c + a
          BY ONLY <3>4, <4>1, Zenon
        <5>2. x = y + b
          BY ONLY <3>1, <4>1, Zenon
        <5> QED
          BY ONLY <5>1, <5>2
      <4>3. h[x] = c
        BY ONLY <3>2, <4>1, Zenon
      <4> QED
        BY ONLY <4>1, <4>2, <4>3, Zenon
    <3>7. k + q \in Nat
      OBVIOUS
    <3> QED
      BY <2>2, <3>2, <3>3, <3>6, <3>7
  <2> QED
    BY <2>3, <2>4
<1>10. Right(s)
  BY <1>9
<1> QED
  BY ONLY <1>1, <1>2, <1>7, <1>10

-----------------------------------------------------------------------------
(* The sum of words v, of which an odd byte at the end counts d.           *)

Rest(f, n, v, d, i) == IF i > n THEN 0 ELSE IF i = n THEN d ELSE v[i] + f[i + 2]

Summed(f, n, v, d) == f = [i \in 1..(n + 2) |-> Rest(f, n, v, d, i)]

LEMMA SumExists ==
  ASSUME NEW n \in Nat, NEW v, NEW d PROVE \E f : Summed(f, n, v, d)
<1> DEFINE D == 1..(n + 2)
           Part(f, k) == f = [i \in D |-> IF i > n + 2 - k THEN Rest(f, n, v, d, i) ELSE 0]
           T == {k \in 0..(n + 2) : ~(\E f : Part(f, k))}
<1>1. \E f : Part(f, 0)
  <2> DEFINE z == [i \in D |-> 0]
  <2>1. \A i \in D : ~(i > n + 2 - 0)
    OBVIOUS
  <2>2. Part(z, 0)
    BY <2>1
  <2> QED
    BY <2>2
<1>2. ASSUME NEW k \in 0..(n + 1), NEW f, Part(f, k) PROVE \E h : Part(h, k + 1)
  <2>1. PICK j \in D : j = n + 2 - k
    OBVIOUS
  <2> DEFINE h == [i \in D |-> IF i = j THEN Rest(f, n, v, d, i) ELSE f[i]]
  <2>2. \A i \in D : f[i] = IF i > j THEN Rest(f, n, v, d, i) ELSE 0
    BY <1>2, <2>1
  <2>3. \A i \in D : h[i] = IF i = j THEN Rest(f, n, v, d, i) ELSE f[i]
    OBVIOUS
  <2>4. h = [i \in D |-> h[i]]
    OBVIOUS
  <2> HIDE DEF h
  <2>5. ASSUME NEW i \in D, i >= j PROVE Rest(h, n, v, d, i) = Rest(f, n, v, d, i)
    <3>1. CASE i < n
      <4>1. i + 2 \in D /\ i + 2 # j
        BY <2>5, <3>1
      <4>2. h[i + 2] = f[i + 2]
        BY <2>3, <4>1
      <4> QED
        BY <3>1, <4>2 DEF Rest
    <3>2. CASE ~(i < n)
      BY <3>2 DEF Rest
    <3> QED
      BY <3>1, <3>2
  <2>6. ASSUME NEW i \in D
        PROVE  h[i] = IF i > n + 2 - (k + 1) THEN Rest(h, n, v, d, i) ELSE 0
    <3>1. (i > n + 2 - (k + 1)) <=> i >= j
      BY <2>1
    <3>2. CASE i = j
      BY <2>1, <2>3, <2>5, <3>1, <3>2
    <3>3. CASE i > j
      <4>1. i >= j /\ i # j
        BY <3>3
      <4>2. h[i] = Rest(f, n, v, d, i)
        BY <2>2, <2>3, <3>3, <4>1
      <4> QED
        BY <2>5, <3>1, <4>1, <4>2
    <3>4. CASE i < j
      BY <2>2, <2>3, <3>1, <3>4
    <3> QED
      BY <3>2, <3>3, <3>4
  <2>7. Part(h, k + 1)
    BY <2>4, <2>6
  <2> QED
    BY <2>7
<1>3. T = {}
  <2> SUFFICES ASSUME T # {} PROVE FALSE
    OBVIOUS
  <2>1. T \in SUBSET Nat
    OBVIOUS
  <2>2. PICK k \in T : \A m \in T : k <= m
    BY <2>1, LeastNumber
  <2>3. k \in 0..(n + 2) /\ ~(\E f : Part(f, k))
    BY <2>2
  <2>4. k # 0
    BY <1>1, <2>3
  <2>5. PICK m \in 0..(n + 1) : m + 1 = k
    <3>1. k - 1 \in 0..(n + 1) /\ (k - 1) + 1 = k
      BY <2>3, <2>4
    <3> QED
      BY <3>1
  <2>6. m \in 0..(n + 2) /\ ~(k <= m)
    BY <2>5
  <2>7. \E f : Part(f, m)
    BY <2>2, <2>6
  <2> HIDE DEF Part
  <2>8. \E f : Part(f, m + 1)
    BY <1>2, <2>7
  <2> QED
    BY <2>3, <2>5, <2>8
<1>4. n + 2 \in 0..(n + 2)
  OBVIOUS
<1>5. PICK f : Part(f, n + 2)
  BY <1>3, <1>4
<1>6. \A i \in D : i > n + 2 - (n + 2)
  OBVIOUS
<1>7. Summed(f, n, v, d)
  BY <1>5, <1>6 DEF Summed
<1> QED
  BY <1>7


LEMMA SumAt ==
  ASSUME NEW n \in Nat, NEW v, NEW d, NEW f, Summed(f, n, v, d), NEW i \in 1..(n + 2)
  PROVE  /\ i > n => f[i] = 0
         /\ i = n => f[i] = d
         /\ i < n => f[i] = v[i] + f[i + 2] /\ i + 2 \in 1..(n + 2)
<1>1. f[i] = Rest(f, n, v, d, i)
  BY DEF Summed
<1>2. CASE i > n
  BY <1>1, <1>2 DEF Rest
<1>3. CASE i = n
  BY <1>1, <1>3 DEF Rest
<1>4. CASE i < n
  BY <1>1, <1>4 DEF Rest
<1> QED
  BY <1>2, <1>3, <1>4

\* A sum of words has room in two words, unless there are very many of them.
LEMMA SumBounded ==
  ASSUME NEW n \in Nat, NEW v, NEW d, NEW f, Summed(f, n, v, d), NEW M \in Nat,
         \A i \in 1..(n - 1) : v[i] \in 0..M, n > 0 => d \in 0..M
  PROVE  \A i \in 1..(n + 2) : f[i] \in Nat /\ 2 * f[i] <= (n + 2 - i) * M
<1> DEFINE Fits(i) == f[i] \in Nat /\ 2 * f[i] <= (n + 2 - i) * M
           T == {k \in 0..(n + 1) : ~Fits(n + 2 - k)}
<1>1. T = {}
  <2> SUFFICES ASSUME T # {} PROVE FALSE
    OBVIOUS
  <2>1. T \in SUBSET Nat
    OBVIOUS
  <2>2. PICK k \in T : \A m \in T : k <= m
    BY <2>1, LeastNumber
  <2>3. k \in 0..(n + 1) /\ ~Fits(n + 2 - k)
    BY <2>2
  <2>4. PICK i \in 1..(n + 2) : i = n + 2 - k
    BY <2>3
  <2>5. k = n + 2 - i /\ ~Fits(i)
    BY <2>3, <2>4
  <2> HIDE DEF T
  <2>6. k * M \in Nat /\ (k >= 2 => k * M >= 2 * M)
    <3>1. k \in Nat
      BY <2>3
    <3>2. k >= 2 => 2 * M <= k * M
      BY <3>1, Times
    <3> QED
      BY <3>1, <3>2
  <2>7. CASE i > n
    <3>1. f[i] = 0
      BY <2>7, SumAt
    <3> QED
      BY <2>5, <2>6, <3>1
  <2>8. CASE i = n
    <3>1. f[i] = d /\ k = 2 /\ d \in 0..M
      BY <2>4, <2>5, <2>8, SumAt
    <3> QED
      BY <2>5, <3>1
  <2>9. CASE i < n
    <3>1. f[i] = v[i] + f[i + 2] /\ i + 2 \in 1..(n + 2) /\ v[i] \in 0..M
      BY <2>9, SumAt
    <3>2. k - 2 \in 0..(n + 1) /\ n + 2 - (k - 2) = i + 2 /\ ~(k <= k - 2)
      BY <2>3, <2>5, <2>9
    <3>3. Fits(n + 2 - (k - 2))
      BY <2>2, <3>2 DEF T
    <3>4. f[i + 2] \in Nat /\ 2 * f[i + 2] <= (n + 2 - (i + 2)) * M
      BY <3>2, <3>3
    <3>5. (n + 2 - (i + 2)) * M = k * M - 2 * M
      BY <2>5
    <3>6. PICK a \in Nat, b \in Nat, c \in 0..M : a = f[i + 2] /\ b = k * M /\ c = v[i]
      BY <2>6, <3>1, <3>4
    <3>7. 2 * a <= b - 2 * M
      BY <3>4, <3>5, <3>6
    <3>8. f[i] = c + a /\ c + a \in Nat /\ 2 * (c + a) <= b
      BY <3>1, <3>6, <3>7
    <3> QED
      BY <2>5, <3>6, <3>8
  <2> QED
    BY <2>7, <2>8, <2>9
<1>2. ASSUME NEW i \in 1..(n + 2) PROVE Fits(i)
  <2>1. n + 2 - i \in 0..(n + 1) /\ n + 2 - (n + 2 - i) = i
    OBVIOUS
  <2>2. Fits(n + 2 - (n + 2 - i))
    BY <1>1, <2>1
  <2> QED
    BY <2>1, <2>2
<1> QED
  BY <1>2

\* Sums of the same words are the same from there on.
LEMMA SumSame ==
  ASSUME NEW n \in Nat, n >= 2, NEW v, NEW d, NEW f, Summed(f, n, v, d),
         NEW w, NEW e, NEW g, Summed(g, n, w, e),
         \A i \in 3..(n - 1) : v[i] = w[i], n > 2 => (d = e \/ n % 2 = 0)
  PROVE  f[3] = g[3]
<1> DEFINE T == {k \in 0..(n - 1) : (n + 2 - k) % 2 = 1 /\ f[n + 2 - k] # g[n + 2 - k]}
<1>1. T = {}
  <2> SUFFICES ASSUME T # {} PROVE FALSE
    OBVIOUS
  <2>1. T \in SUBSET Nat
    OBVIOUS
  <2>2. PICK k \in T : \A m \in T : k <= m
    BY <2>1, LeastNumber
  <2>3. k \in 0..(n - 1) /\ (n + 2 - k) % 2 = 1 /\ f[n + 2 - k] # g[n + 2 - k]
    BY <2>2
  <2>4. PICK i \in 3..(n + 2) : i = n + 2 - k
    BY <2>3
  <2>5. k = n + 2 - i /\ i % 2 = 1 /\ f[i] # g[i] /\ i \in 1..(n + 2)
    BY <2>3, <2>4
  <2> HIDE DEF T
  <2>7. CASE i > n
    BY <2>5, <2>7, SumAt
  <2>8. CASE i = n
    <3>1. n > 2 /\ n % 2 # 0
      BY <2>5, <2>8
    <3>2. d = e
      BY <3>1
    <3>3. f[i] = d /\ g[i] = e
      BY <2>5, <2>8, SumAt
    <3> QED
      BY <2>5, <3>2, <3>3
  <2>9. CASE i < n
    <3>1. f[i] = v[i] + f[i + 2] /\ g[i] = w[i] + g[i + 2] /\ i + 2 \in 1..(n + 2)
      BY <2>5, <2>9, SumAt
    <3>2. /\ k - 2 \in 0..(n - 1) /\ n + 2 - (k - 2) = i + 2 /\ ~(k <= k - 2)
          /\ (i + 2) % 2 = 1 /\ i \in 3..(n - 1)
      BY <2>3, <2>5, <2>9
    <3>3. f[i + 2] = g[i + 2]
      BY <2>2, <3>2 DEF T
    <3>4. v[i] = w[i]
      BY <3>2
    <3> QED
      BY <2>5, <3>1, <3>3, <3>4
  <2> QED
    BY <2>7, <2>8, <2>9
<1>2. PICK k \in 0..(n - 1) : k = n - 1 /\ n + 2 - k = 3 /\ (n + 2 - k) % 2 = 1
  <2>1. n - 1 \in 0..(n - 1) /\ n + 2 - (n - 1) = 3 /\ 3 % 2 = 1
    OBVIOUS
  <2> QED
    BY <2>1
<1>3. f[n + 2 - k] = g[n + 2 - k]
  BY <1>1, <1>2
<1> QED
  BY <1>2, <1>3

-----------------------------------------------------------------------------
(* The sums of the code.                                                   *)

\* The words as the network and as the host read them
NetWords(p) == [i \in 1..Len(p) |-> Net(p[i], p[i + 1])]
LoadWords(p) == [i \in 1..Len(p) |-> Load(p[i], p[i + 1])]

LEMMA WireSumFact ==
  ASSUME NEW p \in Seq(Bytes), NEW n \in Nat, n = Len(p)
  PROVE  \E f : Summed(f, n, NetWords(p), p[n] * Byte) /\ WireSum(p) = f[1]
<1> DEFINE Eq(f) == f = [i \in 1..(Len(p) + 2) |->
                           CASE i > Len(p) -> 0
                             [] i = Len(p) -> p[i] * Byte
                             [] OTHER      -> Net(p[i], p[i + 1]) + f[i + 2]]
           h == CHOOSE f : Eq(f)
<1>1. ASSUME NEW f PROVE Eq(f) <=> Summed(f, n, NetWords(p), p[n] * Byte)
  <2>1. ASSUME NEW i \in 1..(n + 2)
        PROVE  (CASE i > n -> 0
                  [] i = n -> p[i] * Byte
                  [] OTHER -> Net(p[i], p[i + 1]) + f[i + 2]) = Rest(f, n, NetWords(p), p[n] * Byte, i)
    <3>1. CASE i > n
      BY <3>1 DEF Rest
    <3>2. CASE i = n
      BY <3>2 DEF Rest
    <3>3. CASE i < n
      <4>1. NetWords(p)[i] = Net(p[i], p[i + 1])
        BY <3>3 DEF NetWords
      <4> QED
        BY <3>3, <4>1 DEF Rest
    <3> QED
      BY <3>1, <3>2, <3>3
  <2> QED
    BY <2>1 DEF Summed
<1>2. \E f : Eq(f)
  <2> HIDE DEF Eq
  <2> QED
    BY <1>1, SumExists
<1>3. Eq(h)
  <2> HIDE DEF Eq
  <2> QED
    BY <1>2
<1>4. WireSum(p) = h[1]
  BY DEF WireSum, SumWords
<1> HIDE DEF Eq, h
<1> QED
  BY <1>1, <1>3, <1>4


\* sum in ip_checksum, before the carries are added
HostSum(p) == LET last(b) == b IN SumWords(p, Load, last)

LEMMA HostSumFact ==
  ASSUME NEW p \in Seq(Bytes), NEW n \in Nat, n = Len(p)
  PROVE  \E f : /\ Summed(f, n, LoadWords(p), p[n])
                /\ HostSum(p) = f[1] /\ ip_checksum(p) = Complement(Fold(f[1]))
<1> DEFINE Eq(f) == f = [i \in 1..(Len(p) + 2) |->
                           CASE i > Len(p) -> 0
                             [] i = Len(p) -> p[i]
                             [] OTHER      -> Load(p[i], p[i + 1]) + f[i + 2]]
           h == CHOOSE f : Eq(f)
<1>1. ASSUME NEW f PROVE Eq(f) <=> Summed(f, n, LoadWords(p), p[n])
  <2>1. ASSUME NEW i \in 1..(n + 2)
        PROVE  (CASE i > n -> 0
                  [] i = n -> p[i]
                  [] OTHER -> Load(p[i], p[i + 1]) + f[i + 2]) = Rest(f, n, LoadWords(p), p[n], i)
    <3>1. CASE i > n
      BY <3>1 DEF Rest
    <3>2. CASE i = n
      BY <3>2 DEF Rest
    <3>3. CASE i < n
      <4>1. LoadWords(p)[i] = Load(p[i], p[i + 1])
        BY <3>3 DEF LoadWords
      <4> QED
        BY <3>3, <4>1 DEF Rest
    <3> QED
      BY <3>1, <3>2, <3>3
  <2> QED
    BY <2>1 DEF Summed
<1>2. \E f : Eq(f)
  <2> HIDE DEF Eq
  <2> QED
    BY <1>1, SumExists
<1>3. Eq(h)
  <2> HIDE DEF Eq
  <2> QED
    BY <1>2
<1>4. HostSum(p) = h[1] /\ ip_checksum(p) = Complement(Fold(h[1]))
  BY DEF ip_checksum, HostSum, SumWords
<1> HIDE DEF Eq, h
<1> QED
  BY <1>1, <1>3, <1>4

LEMMA CksumFact ==
  ASSUME NEW p
  PROVE  cksum(p) = LET sum == Swap(Complement(Fold(WireSum(p)))) IN IF sum = 0 THEN Word - 1 ELSE sum
  BY DEF cksum, WireSum

\* Words read from bytes, in either order, are words.
LEMMA WordsFact ==
  ASSUME NEW p \in Seq(Bytes), NEW n \in Nat, n = Len(p)
  PROVE  /\ \A i \in 1..(n - 1) : NetWords(p)[i] \in 0..(Word - 1) /\ LoadWords(p)[i] \in 0..(Word - 1)
         /\ n > 0 => p[n] * Byte \in 0..(Word - 1) /\ p[n] \in 0..(Word - 1)
<1>1. \A i \in 1..n : p[i] \in Bytes
  OBVIOUS
<1>2. ASSUME NEW i \in 1..(n - 1)
      PROVE  NetWords(p)[i] \in 0..(Word - 1) /\ LoadWords(p)[i] \in 0..(Word - 1)
  <2>1. i \in 1..n /\ i + 1 \in 1..n
    OBVIOUS
  <2>2. p[i] \in Bytes /\ p[i + 1] \in Bytes
    BY ONLY <1>1, <2>1
  <2>3. Net(p[i], p[i + 1]) \in 0..(Word - 1) /\ Net(p[i + 1], p[i]) \in 0..(Word - 1)
    BY ONLY <2>2, NetFact
  <2>4. NetWords(p)[i] = Net(p[i], p[i + 1]) /\ LoadWords(p)[i] = Load(p[i], p[i + 1])
    BY <2>1 DEF NetWords, LoadWords
  <2> QED
    BY <2>3, <2>4 DEF Load
<1>3. ASSUME n > 0 PROVE p[n] * Byte \in 0..(Word - 1) /\ p[n] \in 0..(Word - 1)
  <2>1. PICK b \in Nat : b = Byte /\ b >= 2
    BY WordFact
  <2>2. PICK x \in 0..(b - 1) : x = p[n]
    BY <1>1, <1>3, <2>1 DEF Bytes
  <2>3. x * b <= (b - 1) * b /\ (b - 1) * b = b * b - b /\ 0 * b <= x * b /\ 0 * b = 0 /\ x <= x * b
    BY <2>1, Times
  <2>4. PICK w \in Nat, y \in Nat : w = b * b /\ y = x * b
    OBVIOUS
  <2>5. y \in 0..(w - 1) /\ x \in 0..(w - 1)
    BY <2>1, <2>3, <2>4
  <2> QED
    BY <2>1, <2>2, <2>4, <2>5 DEF Word
<1> QED
  BY <1>2, <1>3

\* A sum has room in the 32 bits of the code, and its first word apart it is
\* the sum of the rest.
LEMMA SumRoom ==
  ASSUME NEW n \in Nat, n >= 2, n <= 2 * Word, NEW v, NEW d, NEW f, Summed(f, n, v, d),
         \A i \in 1..(n - 1) : v[i] \in 0..(Word - 1), n > 0 => d \in 0..(Word - 1)
  PROVE  f[1] \in Nat /\ f[3] \in Nat /\ f[1] < Word * Word /\ f[1] = v[1] + f[3]
<1>1. PICK W \in Nat : W = Word /\ W >= 4
  BY WordFact
<1>2. PICK M \in Nat : M = W - 1
  BY <1>1
<1>3. \A i \in 1..(n + 2) : f[i] \in Nat /\ 2 * f[i] <= (n + 2 - i) * M
  BY <1>1, <1>2, SumBounded
<1>4. 1 \in 1..(n + 2) /\ 3 \in 1..(n + 2)
  OBVIOUS
<1>5. f[1] \in Nat /\ f[3] \in Nat /\ 2 * f[1] <= (n + 2 - 1) * M
  BY ONLY <1>3, <1>4
<1>6. (n + 2 - 1) * M <= (2 * W + 1) * M
  BY <1>1, Times
<1>7. (2 * W + 1) * M = 2 * (W * W) - W - 1
  BY <1>1, <1>2
<1>8. PICK s \in Nat : s = f[1]
  BY <1>5
<1>9. PICK ww \in Nat : ww = W * W
  OBVIOUS
<1>10. s < ww
  BY <1>1, <1>5, <1>6, <1>7, <1>8, <1>9
<1>11. f[1] < Word * Word
  BY <1>1, <1>8, <1>9, <1>10
<1>12. f[1] = v[1] + f[3]
  BY <1>4, SumAt
<1> QED
  BY <1>5, <1>11, <1>12


-----------------------------------------------------------------------------
(* Filling in a checksum.                                                  *)

\* Two bytes are put in front of what follows the checksum.
LEMMA HeadFact ==
  ASSUME NEW p \in Seq(Bytes), NEW n \in Nat, n = Len(p), n >= 2, NEW x \in Bytes, NEW y \in Bytes,
         NEW q, q = <<x, y>> \o SubSeq(p, 3, Len(p))
  PROVE  /\ q \in Seq(Bytes) /\ Len(q) = n /\ q[1] = x /\ q[2] = y
         /\ \A k \in 3..n : q[k] = p[k]
<1>1. \A k \in 3..n : p[k] \in Bytes
  OBVIOUS
<1>2. PICK three \in Int : three = 3
  OBVIOUS
<1>3. PICK t : t = SubSeq(p, three, n)
  OBVIOUS
<1>4. /\ t \in Seq(Bytes) /\ Len(t) = IF three <= n THEN n - three + 1 ELSE 0
      /\ \A k \in 1..(n - three + 1) : t[k] = p[three + k - 1]
  BY ONLY <1>1, <1>2, <1>3, SubSeqProperties
<1>5. Len(t) = n - 2 /\ \A k \in 1..(n - 2) : t[k] = p[k + 2]
  <2>1. n - three + 1 = n - 2 /\ (three <= n \/ n - 2 = 0)
    BY <1>2
  <2>2. \A k \in 1..(n - 2) : three + k - 1 = k + 2
    BY <1>2
  <2>3. Len(t) = n - 2
    BY <1>4, <2>1
  <2> QED
    BY ONLY <1>4, <2>1, <2>2, <2>3
<1>6. PICK h : h = <<x, y>>
  OBVIOUS
<1>7. h \in Seq(Bytes) /\ Len(h) = 2 /\ h[1] = x /\ h[2] = y
  BY <1>6
<1>8. q = h \o t
  BY <1>2, <1>3, <1>6
<1>9. /\ q \in Seq(Bytes) /\ Len(q) = Len(h) + Len(t)
      /\ \A k \in 1..(Len(h) + Len(t)) : q[k] = IF k <= Len(h) THEN h[k] ELSE t[k - Len(h)]
  BY ONLY <1>4, <1>7, <1>8, ConcatProperties
<1>10. Len(h) + Len(t) = n
  BY <1>5, <1>7
<1>11. \A k \in 1..n : q[k] = IF k <= 2 THEN h[k] ELSE t[k - 2]
  BY ONLY <1>7, <1>9, <1>10, Zenon
<1>12. q[1] = x /\ q[2] = y
  BY <1>7, <1>11
<1>13. ASSUME NEW k \in 3..n PROVE q[k] = p[k]
  <2>1. k \in 1..n /\ ~(k <= 2) /\ k - 2 \in 1..(n - 2) /\ (k - 2) + 2 = k
    OBVIOUS
  <2>2. q[k] = t[k - 2]
    BY ONLY <1>11, <2>1
  <2>3. t[k - 2] = p[(k - 2) + 2]
    BY ONLY <1>5, <2>1
  <2> QED
    BY ONLY <2>1, <2>2, <2>3
<1> QED
  BY ONLY <1>9, <1>10, <1>12, <1>13

LEMMA ClearedFact ==
  ASSUME NEW p \in Seq(Bytes), NEW n \in Nat, n = Len(p), n >= 2
  PROVE  /\ Cleared(p) \in Seq(Bytes) /\ Len(Cleared(p)) = n /\ Cleared(p)[1] = 0 /\ Cleared(p)[2] = 0
         /\ \A k \in 3..n : Cleared(p)[k] = p[k]
<1>1. 0 \in Bytes
  BY WordFact DEF Bytes
<1>2. Cleared(p) = <<0, 0>> \o SubSeq(p, 3, Len(p))
  BY DEF Cleared
<1> QED
  BY ONLY <1>1, <1>2, HeadFact, n = Len(p), n >= 2

LEMMA WithSumFact ==
  ASSUME NEW p \in Seq(Bytes), NEW n \in Nat, n = Len(p), n >= 2, NEW w \in 0..(Word - 1)
  PROVE  /\ WithSum(p, w) \in Seq(Bytes) /\ Len(WithSum(p, w)) = n
         /\ Net(WithSum(p, w)[1], WithSum(p, w)[2]) = Swap(w)
         /\ \A k \in 3..n : WithSum(p, w)[k] = p[k]
<1>1. PICK x \in Bytes, y \in Bytes : Store(w) = <<x, y>> /\ Net(x, y) = Swap(w)
  BY StoreFact
<1>2. PICK q : q = WithSum(p, w)
  OBVIOUS
<1>3. q = <<x, y>> \o SubSeq(p, 3, Len(p))
  BY <1>1, <1>2 DEF WithSum
<1>4. /\ q \in Seq(Bytes) /\ Len(q) = n /\ q[1] = x /\ q[2] = y
      /\ \A k \in 3..n : q[k] = p[k]
  BY ONLY <1>3, HeadFact, n = Len(p), n >= 2
<1> QED
  BY ONLY <1>1, <1>2, <1>4

\* Packet p with a cleared checksum, and q with s in its place: f adds words v
\* and odd byte d, which are those of p on the wire where they matter.
Filled(n, p, q, v, d, f, c, s) ==
    /\ n >= 2 /\ n <= 2 * Word /\ Len(p) = n /\ Len(q) = n
    /\ \A k \in 3..n : q[k] = p[k]
    /\ Summed(f, n, v, d)
    /\ \A i \in 1..(n - 1) : v[i] \in 0..(Word - 1)
    /\ n > 0 => d \in 0..(Word - 1)
    /\ v[1] = 0
    /\ \A i \in 3..(n - 1) : v[i] = NetWords(p)[i]
    /\ n > 2 => (d = p[n] * Byte \/ n % 2 = 0)
    /\ c = Complement(Fold(f[1]))
    /\ s = Net(q[1], q[2])
    /\ s = c \/ (c = 0 /\ s = Word - 1)

\* The complement of the folded sum of the rest makes the sum a multiple of
\* all ones; so does all ones in the place of zero.
LEMMA SumVerifies ==
  ASSUME NEW n \in Nat, NEW p \in Seq(Bytes), NEW q \in Seq(Bytes), NEW v, NEW d, NEW f, NEW c,
         NEW s \in Nat, Filled(n, p, q, v, d, f, c, s)
  PROVE  Verifies(q)
<1> USE DEF Filled
<1>1. PICK W \in Nat : W = Word /\ W >= 4
  BY WordFact
<1>2. PICK M \in Nat : M = W - 1 /\ M > 0
  BY <1>1
<1>3. f[1] \in Nat /\ f[3] \in Nat /\ f[1] = v[1] + f[3]
  BY SumRoom
<1>4. PICK t \in Nat : t = f[3] /\ t = f[1]
  BY <1>3
<1>5. PICK e \in 0..M, k \in Nat : e = Fold(t) /\ t = e + k * M
  <2>1. Fold(t) \in 0..(Word - 1) /\ \E k \in Nat : t = Fold(t) + k * (Word - 1)
    BY FoldFact
  <2> QED
    BY ONLY <1>1, <1>2, <2>1
<1>6. c = M - e
  BY <1>1, <1>2, <1>4, <1>5 DEF Complement
<1>7. PICK g : Summed(g, n, NetWords(q), q[n] * Byte) /\ WireSum(q) = g[1]
  BY WireSumFact
<1>8. /\ \A i \in 1..(n - 1) : NetWords(q)[i] \in 0..(Word - 1)
      /\ n > 0 => q[n] * Byte \in 0..(Word - 1)
  BY WordsFact
<1>9. g[1] = NetWords(q)[1] + g[3]
  BY <1>7, <1>8, SumRoom
<1>10. NetWords(q)[1] = s
  BY DEF NetWords
<1>11. g[3] = f[3]
  <2>1. \A i \in 3..(n - 1) : v[i] = NetWords(q)[i]
    <3> SUFFICES ASSUME NEW i \in 3..(n - 1) PROVE v[i] = NetWords(q)[i]
      OBVIOUS
    <3>1. i \in 3..n /\ i + 1 \in 3..n /\ i \in 1..n
      OBVIOUS
    <3>2. q[i] = p[i] /\ q[i + 1] = p[i + 1]
      BY <3>1
    <3>3. NetWords(q)[i] = Net(q[i], q[i + 1]) /\ NetWords(p)[i] = Net(p[i], p[i + 1])
      BY <3>1 DEF NetWords
    <3> QED
      BY <3>2, <3>3
  <2>2. n > 2 => (d = q[n] * Byte \/ n % 2 = 0)
    <3> SUFFICES ASSUME n > 2 PROVE d = q[n] * Byte \/ n % 2 = 0
      OBVIOUS
    <3>1. q[n] = p[n]
      OBVIOUS
    <3> QED
      BY <3>1
  <2> QED
    <3>1. n >= 2 /\ Summed(f, n, v, d)
      OBVIOUS
    <3> QED
      BY ONLY <1>7, <2>1, <2>2, <3>1, SumSame
<1>12. WireSum(q) = s + t
  BY ONLY <1>4, <1>7, <1>9, <1>10, <1>11, Zenon
<1>13. PICK m \in Nat : s + t = m * M /\ m > 0
  <2>1. PICK a \in Nat : a = k * M
    OBVIOUS
  <2>2. (k + 1) * M = a + M /\ (k + 2) * M = a + M + M
    BY <2>1
  <2>3. t = e + a
    BY ONLY <1>5, <2>1, Zenon
  <2>4. CASE s = c
    <3>1. s + t = a + M
      BY ONLY <1>2, <1>6, <2>3, <2>4
    <3>2. s + t = (k + 1) * M
      BY ONLY <2>2, <3>1, Zenon
    <3>3. k + 1 \in Nat /\ k + 1 > 0
      OBVIOUS
    <3> QED
      BY ONLY <3>2, <3>3, Zenon
  <2>5. CASE c = 0 /\ s = Word - 1
    <3>1. s + t = a + M + M
      BY ONLY <1>1, <1>2, <1>6, <2>3, <2>5
    <3>2. s + t = (k + 2) * M
      BY ONLY <2>2, <3>1, Zenon
    <3>3. k + 2 \in Nat /\ k + 2 > 0
      OBVIOUS
    <3> QED
      BY ONLY <3>2, <3>3, Zenon
  <2> QED
    BY <2>4, <2>5
<1>14. (m * M + 0) % M = 0 /\ m * M > 0 /\ m * M \in Nat
  <2>1. (m * M + 0) % M = 0
    BY <1>2, DivMod
  <2>2. 1 * M <= m * M
    BY <1>13, Times
  <2> QED
    BY <1>2, <2>1, <2>2
<1>15. (s + t) % M = 0 /\ s + t > 0
  <2>1. PICK z \in Nat : z = m * M
    BY <1>14
  <2>2. (z + 0) % M = 0 /\ z > 0 /\ s + t = z
    BY ONLY <1>13, <1>14, <2>1, Zenon
  <2> QED
    BY ONLY <2>2
<1> QED
  BY ONLY <1>1, <1>2, <1>12, <1>15 DEF Verifies


-----------------------------------------------------------------------------
(* The invariants.                                                         *)

\* A length for which the sum has room
LEMMA LengthFact ==
  ASSUME TypeOK
  PROVE  \E n \in Nat : /\ n = Len(packet) /\ n \in Lengths /\ n >= 2 /\ n <= 2 * Word
                        /\ packet \in Seq(Bytes)
  BY LengthsAssumption DEF TypeOK, LengthsAssumption

\* A sum that was folded and complemented is a word.
LEMMA ComplementFact ==
  ASSUME NEW t \in Nat PROVE Complement(Fold(t)) \in 0..(Word - 1)
<1>1. PICK W \in Nat : W = Word /\ W >= 4
  BY WordFact
<1>2. PICK e \in 0..(W - 1) : e = Fold(t)
  BY <1>1, FoldFact
<1> QED
  BY <1>1, <1>2 DEF Complement

\* What the main thread computes is a word, on any host.
LEMMA HostFact ==
  ASSUME NEW n \in Nat, n >= 2, n <= 2 * Word, NEW p \in Seq(Bytes), n = Len(p)
  PROVE  \E f : /\ Summed(f, n, LoadWords(p), p[n]) /\ f[1] \in Nat /\ f[1] < Word * Word
                /\ HostSum(p) = f[1]
                /\ ip_checksum(p) = Complement(Fold(f[1])) /\ ip_checksum(p) \in 0..(Word - 1)
<1>1. PICK f : /\ Summed(f, n, LoadWords(p), p[n])
               /\ HostSum(p) = f[1] /\ ip_checksum(p) = Complement(Fold(f[1]))
  BY HostSumFact
<1>2. /\ \A i \in 1..(n - 1) : LoadWords(p)[i] \in 0..(Word - 1)
      /\ n > 0 => p[n] \in 0..(Word - 1)
  BY WordsFact
<1>3. f[1] \in Nat /\ f[1] < Word * Word
  BY ONLY <1>1, <1>2, SumRoom, n \in Nat, n >= 2, n <= 2 * Word
<1> QED
  BY <1>1, <1>3, ComplementFact

\* The same for the sum that the sweeper and the receiver take.
LEMMA WireFact ==
  ASSUME NEW n \in Nat, n >= 2, n <= 2 * Word, NEW p \in Seq(Bytes), n = Len(p)
  PROVE  \E f : /\ Summed(f, n, NetWords(p), p[n] * Byte) /\ f[1] \in Nat /\ f[1] < Word * Word
                /\ WireSum(p) = f[1] /\ Complement(Fold(f[1])) \in 0..(Word - 1)
<1>1. PICK f : Summed(f, n, NetWords(p), p[n] * Byte) /\ WireSum(p) = f[1]
  BY WireSumFact
<1>2. /\ \A i \in 1..(n - 1) : NetWords(p)[i] \in 0..(Word - 1)
      /\ n > 0 => p[n] * Byte \in 0..(Word - 1)
  BY WordsFact
<1>3. f[1] \in Nat /\ f[1] < Word * Word
  BY ONLY <1>1, <1>2, SumRoom, n \in Nat, n >= 2, n <= 2 * Word
<1> QED
  BY <1>1, <1>3, ComplementFact

\* The main thread's checksum is a word of two bytes; what follows it stays.
LEMMA MainStep ==
  ASSUME TypeOK, MainFills
  PROVE  TypeOK' /\ (order = "big" /\ Len(packet') % 2 = 0 => Verifies(packet'))
<1>1. PICK n \in Nat : /\ n = Len(packet) /\ n \in Lengths /\ n >= 2 /\ n <= 2 * Word
                       /\ packet \in Seq(Bytes)
  BY LengthFact
<1>2. PICK p : p = Cleared(packet)
  OBVIOUS
<1>3. /\ p \in Seq(Bytes) /\ Len(p) = n /\ p[1] = 0 /\ p[2] = 0
      /\ \A k \in 3..n : p[k] = packet[k]
  BY ONLY <1>1, <1>2, ClearedFact
<1>4. PICK f : /\ Summed(f, n, LoadWords(p), p[n]) /\ f[1] \in Nat /\ f[1] < Word * Word
               /\ ip_checksum(p) = Complement(Fold(f[1])) /\ ip_checksum(p) \in 0..(Word - 1)
  BY ONLY <1>1, <1>3, HostFact
<1>5. PICK c \in 0..(Word - 1) : c = ip_checksum(p)
  BY <1>4
<1>6. PICK w \in 0..(Word - 1) : w = Swap(c) /\ Swap(w) = c
  BY SwapFact
<1>7. PICK q : q = WithSum(packet, w)
  OBVIOUS
<1>8. /\ q \in Seq(Bytes) /\ Len(q) = n /\ Net(q[1], q[2]) = c
      /\ \A k \in 3..n : q[k] = packet[k]
  <2>1. /\ q \in Seq(Bytes) /\ Len(q) = n /\ Net(q[1], q[2]) = Swap(w)
        /\ \A k \in 3..n : q[k] = packet[k]
    BY ONLY <1>1, <1>7, WithSumFact
  <2> QED
    BY <1>6, <2>1
<1>9. packet' = q /\ filler' = "main" /\ order' = order
  BY <1>2, <1>5, <1>6, <1>7 DEF MainFills
<1>10. TypeOK'
  BY <1>1, <1>8, <1>9 DEF TypeOK
<1>11. ASSUME order = "big", n % 2 = 0 PROVE Verifies(q)
  <2>1. PICK v : v = LoadWords(p)
    OBVIOUS
  <2>2. \A i \in 1..n : v[i] = NetWords(p)[i]
    BY <1>3, <1>11, <2>1 DEF LoadWords, NetWords, Load
  <2>3. v[1] = 0
    <3>1. 1 \in 1..n
      BY <1>1
    <3>2. NetWords(p)[1] = Net(p[1], p[2])
      BY <1>3, <3>1 DEF NetWords
    <3>3. Net(0, 0) = 0
      BY WordFact DEF Net
    <3> QED
      BY <1>3, <2>2, <3>1, <3>2, <3>3
  <2>4. \A i \in 3..(n - 1) : v[i] = NetWords(p)[i]
    BY <2>2
  <2>5. /\ \A i \in 1..(n - 1) : v[i] \in 0..(Word - 1)
        /\ n > 0 => p[n] \in 0..(Word - 1)
    BY ONLY <1>1, <1>3, <2>1, WordsFact
  <2>6. PICK d : d = p[n]
    OBVIOUS
  <2>7. Summed(f, n, v, d) /\ (n > 0 => d \in 0..(Word - 1))
    BY <1>4, <2>1, <2>5, <2>6
  <2>8. PICK s \in Nat : s = Net(q[1], q[2]) /\ s = c
    BY <1>8
  <2>9. c = Complement(Fold(f[1])) /\ (s = c \/ (c = 0 /\ s = Word - 1))
    BY <1>4, <1>5, <2>8
  <2>10. \A k \in 3..n : q[k] = p[k]
    BY <1>3, <1>8
  <2>11. n > 2 => (d = p[n] * Byte \/ n % 2 = 0)
    BY <1>11
  <2>12. Filled(n, p, q, v, d, f, c, s)
    BY ONLY <1>1, <1>3, <1>8, <2>3, <2>4, <2>5, <2>7, <2>8, <2>9, <2>10, <2>11, Zenon DEF Filled
  <2> QED
    BY ONLY <1>3, <1>8, <2>12, SumVerifies
<1> QED
  BY <1>8, <1>9, <1>10, <1>11

\* The sweeper's checksum verifies.
LEMMA SweeperStep ==
  ASSUME TypeOK, SweeperFills PROVE TypeOK' /\ Verifies(packet')
<1>1. PICK n \in Nat : /\ n = Len(packet) /\ n \in Lengths /\ n >= 2 /\ n <= 2 * Word
                       /\ packet \in Seq(Bytes)
  BY LengthFact
<1>2. PICK p : p = Cleared(packet)
  OBVIOUS
<1>3. /\ p \in Seq(Bytes) /\ Len(p) = n /\ p[1] = 0 /\ p[2] = 0
      /\ \A k \in 3..n : p[k] = packet[k]
  BY ONLY <1>1, <1>2, ClearedFact
<1>4. PICK f : /\ Summed(f, n, NetWords(p), p[n] * Byte) /\ f[1] \in Nat /\ f[1] < Word * Word
               /\ WireSum(p) = f[1] /\ Complement(Fold(f[1])) \in 0..(Word - 1)
  BY ONLY <1>1, <1>3, WireFact
<1>5. PICK c \in 0..(Word - 1) : c = Complement(Fold(f[1]))
  BY <1>4
<1>6. PICK w \in 0..(Word - 1) : w = cksum(p) /\ (Swap(w) = c \/ (c = 0 /\ Swap(w) = Word - 1))
  <2>1. cksum(p) = IF Swap(c) = 0 THEN Word - 1 ELSE Swap(c)
    BY <1>4, <1>5, CksumFact
  <2>2. Swap(c) \in 0..(Word - 1) /\ Swap(Swap(c)) = c /\ Swap(Word - 1) = Word - 1 /\ Swap(0) = 0
    BY SwapFact
  <2>3. Word - 1 \in 0..(Word - 1)
    BY WordFact
  <2>4. CASE Swap(c) = 0
    <3>1. c = 0
      BY <2>2, <2>4
    <3> QED
      BY <2>1, <2>2, <2>3, <2>4, <3>1
  <2>5. CASE Swap(c) # 0
    BY <2>1, <2>2, <2>5
  <2> QED
    BY <2>4, <2>5
<1>7. PICK q : q = WithSum(packet, w)
  OBVIOUS
<1>8. /\ q \in Seq(Bytes) /\ Len(q) = n /\ Net(q[1], q[2]) = Swap(w)
      /\ \A k \in 3..n : q[k] = packet[k]
  BY ONLY <1>1, <1>7, WithSumFact
<1>9. packet' = q /\ filler' = "sweeper" /\ order' = order
  BY <1>2, <1>6, <1>7 DEF SweeperFills
<1>10. TypeOK'
  BY <1>1, <1>8, <1>9 DEF TypeOK
<1>11. Verifies(q)
  <2>1. PICK v : v = NetWords(p)
    OBVIOUS
  <2>2. v[1] = 0
    <3>1. 1 \in 1..Len(p)
      BY <1>1, <1>3
    <3>2. v[1] = Net(p[1], p[2])
      BY <2>1, <3>1 DEF NetWords
    <3>3. Net(0, 0) = 0
      BY WordFact DEF Net
    <3> QED
      BY <1>3, <3>2, <3>3
  <2>3. \A i \in 3..(n - 1) : v[i] = NetWords(p)[i]
    BY <2>1
  <2>4. PICK d : d = p[n] * Byte
    OBVIOUS
  <2>5. /\ \A i \in 1..(n - 1) : v[i] \in 0..(Word - 1)
        /\ n > 0 => d \in 0..(Word - 1)
    BY ONLY <1>1, <1>3, <2>1, <2>4, WordsFact
  <2>6. Summed(f, n, v, d)
    BY <1>4, <2>1, <2>4
  <2>7. PICK s \in Nat : s = Net(q[1], q[2]) /\ (s = c \/ (c = 0 /\ s = Word - 1))
    BY <1>6, <1>8, WordFact
  <2>8. \A k \in 3..n : q[k] = p[k]
    BY <1>3, <1>8
  <2>9. n > 2 => (d = p[n] * Byte \/ n % 2 = 0)
    BY <2>4
  <2>10. Filled(n, p, q, v, d, f, c, s)
    BY ONLY <1>1, <1>3, <1>5, <1>8, <2>2, <2>3, <2>5, <2>6, <2>7, <2>8, <2>9, Zenon DEF Filled
  <2> QED
    BY ONLY <1>3, <1>8, <2>10, SumVerifies
<1> QED
  BY <1>9, <1>10, <1>11

SumInv == TypeOK /\ SweeperVerifies /\ MainVerifiesBig

LEMMA SumInvariant == Spec => []SumInv
<1>1. Init => SumInv
  <2> SUFFICES ASSUME Init PROVE SumInv
    OBVIOUS
  <2>1. PICK n \in Lengths : packet \in [1..n -> Bytes]
    BY DEF Init
  <2>2. n \in Nat
    BY LengthsAssumption DEF LengthsAssumption
  <2>3. packet \in Seq(Bytes) /\ Len(packet) = n
    BY <2>1, <2>2
  <2> QED
    BY <2>3 DEF Init, SumInv, TypeOK, SweeperVerifies, MainVerifiesBig
<1>2. SumInv /\ [Next]_vars => SumInv'
  <2> SUFFICES ASSUME SumInv, [Next]_vars PROVE SumInv'
    OBVIOUS
  <2>0. TypeOK
    BY DEF SumInv
  <2>1. CASE MainFills
    <3>1. TypeOK' /\ (order = "big" /\ Len(packet') % 2 = 0 => Verifies(packet'))
      BY <2>0, <2>1, MainStep
    <3>2. filler' = "main" /\ order' = order
      BY <2>1 DEF MainFills
    <3>3. SweeperVerifies'
      BY <3>2 DEF SweeperVerifies
    <3>4. MainVerifiesBig'
      BY <3>1, <3>2 DEF MainVerifiesBig
    <3> QED
      BY <3>1, <3>3, <3>4 DEF SumInv
  <2>2. CASE SweeperFills
    <3>1. TypeOK' /\ Verifies(packet')
      BY <2>0, <2>2, SweeperStep
    <3>2. filler' = "sweeper"
      BY <2>2 DEF SweeperFills
    <3>3. SweeperVerifies'
      BY <3>1 DEF SweeperVerifies
    <3>4. MainVerifiesBig'
      BY <3>2 DEF MainVerifiesBig
    <3> QED
      BY <3>1, <3>3, <3>4 DEF SumInv
  <2>3. CASE UNCHANGED vars
    BY <2>3 DEF vars, SumInv, TypeOK, SweeperVerifies, MainVerifiesBig
  <2> QED
    BY <2>1, <2>2, <2>3 DEF Next
<1> QED
  BY <1>1, <1>2, PTL DEF Spec

\* Filling in a checksum leaves a header of the same length, of bytes.
THEOREM HeadersTyped == Spec => []TypeOK
<1>1. SumInv => TypeOK
  BY DEF SumInv
<1> QED
  BY <1>1, SumInvariant, PTL

\* Whatever the content, the length and the byte order of the host, the receiver
\* accepts the checksum that cksum gives the sweeper's messages.
THEOREM SweeperRight == Spec => []SweeperVerifies
<1>1. SumInv => SweeperVerifies
  BY DEF SumInv
<1> QED
  BY <1>1, SumInvariant, PTL

\* Where the order of the host is that of the network, the receiver accepts
\* what ip_checksum gives the main thread's headers.
THEOREM MainRightBig == Spec => []MainVerifiesBig
<1>1. SumInv => MainVerifiesBig
  BY DEF SumInv
<1> QED
  BY <1>1, SumInvariant, PTL

\* Neither function loses a carry in its 32 bits, when a header is checked as it
\* was received or summed with its checksum cleared.
THEOREM SumsFit ==
  Spec => [](\A p \in {packet, Cleared(packet)} : HostSum(p) < Word * Word /\ WireSum(p) < Word * Word)
<1>1. SumInv => \A p \in {packet, Cleared(packet)} : HostSum(p) < Word * Word /\ WireSum(p) < Word * Word
  <2> SUFFICES ASSUME SumInv, NEW p \in {packet, Cleared(packet)}
               PROVE  HostSum(p) < Word * Word /\ WireSum(p) < Word * Word
    OBVIOUS
  <2>1. PICK n \in Nat : /\ n = Len(packet) /\ n \in Lengths /\ n >= 2 /\ n <= 2 * Word
                         /\ packet \in Seq(Bytes)
    BY LengthFact DEF SumInv
  <2>2. p \in Seq(Bytes) /\ n = Len(p)
    BY <2>1, ClearedFact
  <2>3. HostSum(p) < Word * Word
    BY <2>1, <2>2, HostFact
  <2>4. WireSum(p) < Word * Word
    BY <2>1, <2>2, WireFact
  <2> QED
    BY <2>3, <2>4
<1> QED
  BY <1>1, SumInvariant, PTL
=============================================================================
