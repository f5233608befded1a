------------------------- MODULE ReplayWindowProofs -------------------------
(***************************************************************************)
(* Proofs about ReplayWindow, for every size of the bitmap, every number   *)
(* of threads and every MaxCounter: the window is exact, no counter is     *)
(* delivered twice, and the validator implements AntiReplay.               *)
(*                                                                         *)
(* The first lemmas are arithmetic (residues modulo N_BITS of counters     *)
(* less than N_BITS apart are different); the next show that the loops     *)
(* which clear by bit and by word clear exactly the skipped counters; the  *)
(* last part is the inductive invariant and the refinement.                *)
(***************************************************************************)
EXTENDS ReplayWindow, FiniteSetTheorems, TLAPS

(***************************************************************************)
(* Division by a positive number                                           *)
(***************************************************************************)
\* Quotient and remainder are integers, the remainder is less than n.
LEMMA DivMod ==
  ASSUME NEW n \in Nat \ {0}, NEW a \in Nat
  PROVE  /\ a \div n \in Nat
         /\ a % n \in 0..(n - 1)
         /\ a = n * (a \div n) + (a % n)
  BY Z3

\* Multiplication by a natural keeps the order.
LEMMA MulMono ==
  ASSUME NEW n \in Nat \ {0}, NEW p \in Int, NEW q \in Int, p < q
  PROVE  n * p + n <= n * q
<1>1. PICK d \in Nat : q = p + 1 + d
  <2>1. \E d \in Nat : q = p + 1 + d
    <3>1. q - p - 1 \in Nat /\ q = p + 1 + (q - p - 1)
      OBVIOUS
    <3> QED BY <3>1
  <2> QED BY <2>1
<1>2. n * d \in Nat
  BY Z3
<1>3. n * q = n * p + n + n * d
  BY <1>1, Z3
<1> QED BY <1>2, <1>3, Z3

\* A product of integers is an integer.
LEMMA MulInt ==
  ASSUME NEW n \in Int, NEW p \in Int
  PROVE  n * p \in Int
  OBVIOUS

\* Multiplication is associative.
LEMMA MulAssoc ==
  ASSUME NEW a \in Int, NEW b \in Int, NEW c \in Int
  PROVE  (a * b) * c = a * (b * c)
  OBVIOUS

\* Multiplication distributes over subtraction.
LEMMA MulMinus ==
  ASSUME NEW a \in Int, NEW b \in Int, NEW c \in Int
  PROVE  a * (b - c) = a * b - a * c
  OBVIOUS

\* Quotient and remainder are unique.
LEMMA QuotientUnique ==
  ASSUME NEW n \in Nat \ {0}, NEW p \in Int, NEW q \in Int,
         NEW r \in 0..(n - 1), NEW s \in 0..(n - 1),
         n * p + r = n * q + s
  PROVE  p = q /\ r = s
<1>1. ~(p < q)
  <2>1. SUFFICES ASSUME p < q PROVE FALSE
    OBVIOUS
  <2>2. n * p + n <= n * q
    BY <2>1, MulMono
  <2> QED BY <2>2, MulInt
<1>2. ~(q < p)
  <2>1. SUFFICES ASSUME q < p PROVE FALSE
    OBVIOUS
  <2>2. n * q + n <= n * p
    BY <2>1, MulMono
  <2> QED BY <2>2, MulInt
<1>3. p = q
  BY <1>1, <1>2
<1> QED BY <1>3, MulInt

\* Two naturals less than n apart have different residues modulo n.
LEMMA ResiduesDiffer ==
  ASSUME NEW n \in Nat \ {0}, NEW a \in Nat, NEW b \in Nat, a < b, b - a < n
  PROVE  a % n # b % n
<1> DEFINE p == a \div n
           q == b \div n
<1>1. /\ p \in Nat /\ q \in Nat
      /\ a % n \in 0..(n - 1) /\ b % n \in 0..(n - 1)
      /\ a = n * p + (a % n) /\ b = n * q + (b % n)
  BY DivMod
<1> HIDE DEF p, q
<1>2. SUFFICES ASSUME a % n = b % n PROVE FALSE
  OBVIOUS
<1>3. n * p \in Int /\ n * q \in Int
  BY <1>1, MulInt
<1>4. n * p < n * q /\ n * q < n * p + n
  BY <1>1, <1>2, <1>3
<1>5. ~(p < q)
  BY <1>1, <1>3, <1>4, MulMono
<1>6. ~(q < p)
  <2>1. SUFFICES ASSUME q < p PROVE FALSE
    OBVIOUS
  <2>2. n * q + n <= n * p
    BY <1>1, <2>1, MulMono
  <2> QED BY <2>2, <1>3, <1>4
<1> QED BY <1>1, <1>4, <1>5, <1>6

\* A residue grows with its number as long as it stays below n.
LEMMA ResidueShift ==
  ASSUME NEW n \in Nat \ {0}, NEW a \in Nat, NEW d \in Nat, (a % n) + d < n
  PROVE  (a + d) % n = (a % n) + d
<1>1. /\ a \div n \in Nat /\ a % n \in 0..(n - 1)
      /\ a = n * (a \div n) + (a % n)
  BY DivMod
<1>2. /\ (a + d) \div n \in Nat /\ (a + d) % n \in 0..(n - 1)
      /\ a + d = n * ((a + d) \div n) + ((a + d) % n)
  BY DivMod
<1>3. n * (a \div n) \in Int /\ n * ((a + d) \div n) \in Int
  BY <1>1, <1>2, MulInt
<1>4. (a % n) + d \in 0..(n - 1)
  BY <1>1
<1>5. n * (a \div n) + ((a % n) + d) = n * ((a + d) \div n) + ((a + d) % n)
  BY <1>1, <1>2, <1>3
<1> QED BY <1>1, <1>2, <1>4, <1>5, QuotientUnique

\* Residues repeat after n.
LEMMA ResiduePeriod ==
  ASSUME NEW n \in Nat \ {0}, NEW a \in Nat, NEW b \in Nat, b = a + n
  PROVE  b % n = a % n
<1> DEFINE p == a \div n
           q == b \div n
           r == a % n
           s == b % n
<1>1. p \in Nat /\ r \in 0..(n - 1) /\ a = n * p + r
  BY DivMod
<1>2. q \in Nat /\ s \in 0..(n - 1) /\ b = n * q + s
  BY DivMod
<1> HIDE DEF p, q, r, s
<1>3. n * (p + 1) = n * p + n /\ n * p \in Int /\ n * q \in Int
  BY <1>1, <1>2, MulInt
<1>4. PICK k \in Int : k = p + 1
  BY <1>1
<1>5. n * k + r = n * q + s
  BY <1>1, <1>2, <1>3, <1>4
<1>6. q \in Int /\ r \in 0..(n - 1) /\ s \in 0..(n - 1)
  BY <1>1, <1>2
<1>7. r = s
  BY <1>5, <1>6, QuotientUnique
<1> QED BY <1>7 DEF r, s

(***************************************************************************)
(* The clearing loops                                                      *)
(***************************************************************************)
\* The bitmap has at least one bit, and its size is a natural.
LEMMA NBitsPositive == N_BITS \in Nat \ {0}
<1>1. WORD_SIZE \in Nat \ {0} /\ N_WORDS \in Nat \ {0}
  BY SizesAssumption
<1>2. WORD_SIZE * 0 + WORD_SIZE <= WORD_SIZE * N_WORDS
  <2>1. WORD_SIZE * 0 + WORD_SIZE <= WORD_SIZE * N_WORDS
    <3>1. 0 \in Int /\ N_WORDS \in Int /\ 0 < N_WORDS
      BY <1>1
    <3> QED BY <1>1, <3>1, MulMono
  <2> QED BY <2>1
<1>3. WORD_SIZE * N_WORDS \in Int /\ WORD_SIZE * 0 = 0
  BY <1>1, MulInt
<1> QED BY <1>1, <1>2, <1>3 DEF N_BITS

\* set_bit and clear_bit stay within the bitmap.
LEMMA BitRange ==
  ASSUME NEW c \in Nat
  PROVE  Bit(c) \in 0..(N_BITS - 1)
  BY NBitsPositive, DivMod DEF Bit

\* The word of an aligned counter k holds the bits of the WORD_SIZE counters
\* from k on.
LEMMA WordOfAligned ==
  ASSUME NEW k \in Nat, k % WORD_SIZE = 0
  PROVE  WordOf(k) = {Bit(c) : c \in k..(k + WORD_SIZE - 1)}
<1> DEFINE W == WORD_SIZE
           q == k \div W
           p == k \div N_BITS
           m == q - N_WORDS * p
<1>1. W \in Nat \ {0} /\ N_WORDS \in Nat \ {0} /\ N_BITS \in Nat \ {0}
  BY SizesAssumption, NBitsPositive
<1>2. q \in Nat /\ k = W * q
  <2>1. q \in Nat /\ k = W * q + (k % W)
    BY <1>1, DivMod
  <2> QED BY <2>1, <1>1, MulInt
<1>3. p \in Nat /\ Bit(k) \in 0..(N_BITS - 1) /\ k = N_BITS * p + Bit(k)
  BY <1>1, DivMod DEF Bit
<1> HIDE DEF p, q
<1>4. N_BITS * p = W * (N_WORDS * p)
  BY <1>1, <1>3, MulAssoc DEF N_BITS
<1>5. m \in Int /\ Bit(k) = W * m
  <2>1. N_WORDS * p \in Int
    BY <1>1, <1>3, MulInt
  <2>2. W * (q - N_WORDS * p) = W * q - W * (N_WORDS * p)
    BY <1>1, <1>2, <2>1, MulMinus
  <2>3. Bit(k) = k - N_BITS * p
    <3>1. N_BITS * p \in Int /\ Bit(k) \in Int
      BY <1>1, <1>3, MulInt
    <3> QED BY <1>3, <3>1
  <2> QED BY <1>2, <1>4, <2>1, <2>2, <2>3
<1> HIDE DEF m
<1>6. W * m + W <= N_BITS
  <2>1. m < N_WORDS
    <3>1. SUFFICES ASSUME ~(m < N_WORDS) PROVE FALSE
      OBVIOUS
    <3>2. CASE m = N_WORDS
      BY <3>2, <1>3, <1>5, <1>1 DEF N_BITS
    <3>3. CASE N_WORDS < m
      <4>1. W * N_WORDS + W <= W * m
        BY <3>3, <1>1, <1>5, MulMono
      <4> QED BY <4>1, <1>1, <1>3, <1>5 DEF N_BITS
    <3> QED BY <3>1, <3>2, <3>3, <1>1, <1>5
  <2> QED BY <2>1, <1>1, <1>5, MulMono DEF N_BITS
<1>7. W * m \in 0..(N_BITS - 1)
  BY <1>3, <1>5
<1>8. ASSUME NEW b \in 0..(N_BITS - 1)
      PROVE  b \div W = m <=> b \in (W * m)..(W * m + W - 1)
  <2>0. b \in Nat
    BY <1>1
  <2>1. b \div W \in Nat /\ b % W \in 0..(W - 1) /\ b = W * (b \div W) + (b % W)
    BY <2>0, <1>1, DivMod
  <2>2. W * (b \div W) \in Int /\ W * m \in Int
    BY <1>1, <1>5, <2>1, MulInt
  <2>3. ASSUME b \div W = m PROVE b \in (W * m)..(W * m + W - 1)
    BY <1>1, <2>1, <2>2, <2>3
  <2>4. ASSUME b \in (W * m)..(W * m + W - 1) PROVE b \div W = m
    <3>1. b - W * m \in 0..(W - 1) /\ W * m + (b - W * m) = W * (b \div W) + (b % W)
      BY <1>1, <2>1, <2>2, <2>4
    <3> QED BY <3>1, <2>1, <1>1, <1>5, QuotientUnique
  <2> QED BY <2>3, <2>4
<1>9. Bit(k) \div W = m
  BY <1>1, <1>5, <1>7, <1>8
<1>10. WordOf(k) = (W * m)..(W * m + W - 1)
  <2>1. WordOf(k) = {b \in 0..(N_BITS - 1) : b \div W = m}
    BY <1>9 DEF WordOf
  <2>2. (W * m)..(W * m + W - 1) \subseteq 0..(N_BITS - 1)
    BY <1>1, <1>6, <1>7
  <2> QED BY <1>8, <2>1, <2>2
<1>11. ASSUME NEW d \in 0..(W - 1) PROVE Bit(k + d) = W * m + d
  <2>1. Bit(k) + d < N_BITS
    BY <1>1, <1>5, <1>6, <1>7
  <2>2. d \in Nat
    BY <1>1
  <2>3. (k + d) % N_BITS = (k % N_BITS) + d
    BY <1>1, <2>1, <2>2, ResidueShift DEF Bit
  <2> QED BY <1>5, <2>3 DEF Bit
<1>12. ASSUME NEW b \in WordOf(k) PROVE b \in {Bit(c) : c \in k..(k + W - 1)}
  <2> DEFINE d == b - W * m
  <2>1. d \in 0..(W - 1) /\ b = W * m + d
    BY <1>1, <1>7, <1>10
  <2>2. k + d \in k..(k + W - 1)
    BY <1>1, <2>1
  <2>3. b = Bit(k + d)
    BY <1>11, <2>1
  <2> QED BY <2>2, <2>3
<1>13. ASSUME NEW c \in k..(k + W - 1) PROVE Bit(c) \in WordOf(k)
  <2> DEFINE d == c - k
  <2>1. d \in 0..(W - 1) /\ c = k + d
    BY <1>1
  <2>2. Bit(c) = W * m + d
    BY <1>11, <2>1
  <2> HIDE DEF d
  <2> QED BY <1>1, <1>7, <1>10, <2>1, <2>2
<1> QED BY <1>12, <1>13

\* What the bounds of the loops of mark_did_receive are: how far they round up or
\* down, and that they stay in order.
LEMMA AlignFacts ==
  ASSUME NEW c \in Nat
  PROVE  /\ AlignUp(c) \in Nat /\ AlignUp(c) >= c /\ AlignUp(c) % WORD_SIZE = 0
         /\ AlignDown(c) \in Nat /\ AlignDown(c) <= c
         /\ c <= AlignDown(c) + WORD_SIZE - 1 /\ AlignDown(c) % WORD_SIZE = 0
<1> DEFINE W == WORD_SIZE
<1>1. W \in Nat \ {0}
  BY SizesAssumption
<1>2. ASSUME NEW q \in Nat PROVE (q * W) % W = 0 /\ q * W = W * q /\ q * W \in Nat
  <2>1. q * W = W * q /\ q * W \in Nat
    BY <1>1, Z3
  <2>2. /\ (q * W) \div W \in Nat /\ (q * W) % W \in 0..(W - 1)
        /\ q * W = W * ((q * W) \div W) + ((q * W) % W)
    BY <1>1, <2>1, DivMod
  <2>3. W * q + 0 = W * ((q * W) \div W) + ((q * W) % W)
    BY <2>1, <2>2, <1>1, MulInt
  <2>4. 0 \in 0..(W - 1)
    BY <1>1
  <2> QED BY <1>1, <2>1, <2>2, <2>3, <2>4, QuotientUnique
<1>3. /\ c \div W \in Nat /\ c % W \in 0..(W - 1) /\ c = W * (c \div W) + (c % W)
  BY <1>1, DivMod
<1>4. (c \div W) * W = W * (c \div W) /\ (c \div W) * W \in Nat
  BY <1>2, <1>3
<1> DEFINE u == c + W - 1
<1>5. u \in Nat
  BY <1>1
<1>6. /\ u \div W \in Nat /\ u % W \in 0..(W - 1) /\ u = W * (u \div W) + (u % W)
  BY <1>1, <1>5, DivMod
<1>7. (u \div W) * W = W * (u \div W) /\ (u \div W) * W \in Nat
  BY <1>2, <1>6
<1>8. AlignDown(c) % W = 0 /\ AlignUp(c) % W = 0
  BY <1>2, <1>3, <1>6 DEF AlignDown, AlignUp
<1>9. AlignDown(c) \in Nat /\ AlignDown(c) <= c /\ c <= AlignDown(c) + W - 1
  BY <1>1, <1>3, <1>4 DEF AlignDown
<1>10. AlignUp(c) \in Nat /\ AlignUp(c) >= c
  BY <1>1, <1>6, <1>7 DEF AlignUp
<1> QED BY <1>8, <1>9, <1>10

\* The three loops clear the bits of the skipped counters and no others.
LEMMA ClearedBitsExact ==
  ASSUME NEW first \in Nat, NEW last \in Nat, first <= last
  PROVE  ClearedBits(first, last) = {Bit(c) : c \in first..(last - 1)}
<1> DEFINE W == WORD_SIZE
           i == headEnd(first, last)
           j == wordsEnd(first, last)
           Aligned == {k \in i..(j - 1) : k % W = 0}
           Words == UNION {WordOf(c) : c \in Aligned}
<1>1. W \in Nat \ {0}
  BY SizesAssumption
<1>2. i \in Nat /\ first <= i /\ i <= last /\ (i < last => i % W = 0)
  BY AlignFacts DEF headEnd
<1>3. /\ j \in Nat /\ i <= j /\ j <= last
      /\ i < j => i % W = 0 /\ j % W = 0
  <2>1. CASE i + W < last
    <3>1. last - 1 \in Nat
      BY <1>1, <1>2, <2>1
    <3>2. j = AlignDown(last - 1)
      BY <2>1 DEF wordsEnd
    <3>3. /\ AlignDown(last - 1) \in Nat /\ AlignDown(last - 1) <= last - 1
          /\ last - 1 <= AlignDown(last - 1) + W - 1
          /\ AlignDown(last - 1) % W = 0
      BY <3>1, AlignFacts
    <3> QED BY <1>1, <1>2, <2>1, <3>2, <3>3
  <2>2. CASE ~(i + W < last)
    <3>1. j = i
      BY <2>2 DEF wordsEnd
    <3> QED BY <1>2, <3>1
  <2> QED BY <2>1, <2>2
<1>4. ClearedBits(first, last) =
        {Bit(c) : c \in first..(i - 1)} \union Words \union {Bit(c) : c \in j..(last - 1)}
  BY DEF ClearedBits
<1> HIDE DEF i, j
<1>5. ASSUME NEW k \in Nat, k % W = 0, NEW c \in k..(k + W - 1), k < j, j % W = 0
      PROVE  c < j
  <2>1. /\ k \div W \in Nat /\ k = W * (k \div W) + (k % W)
        /\ j \div W \in Nat /\ j = W * (j \div W) + (j % W)
    BY <1>1, <1>3, <1>5, DivMod
  <2>2. W * (k \div W) \in Int /\ W * (j \div W) \in Int
    BY <1>1, <2>1, MulInt
  <2>3. k = W * (k \div W) /\ j = W * (j \div W)
    BY <1>5, <2>1, <2>2
  <2>4. k \div W < j \div W
    <3>1. SUFFICES ASSUME ~(k \div W < j \div W) PROVE FALSE
      OBVIOUS
    <3>2. j \div W < k \div W \/ j \div W = k \div W
      BY <2>1, <3>1
    <3>3. ~(j \div W < k \div W)
      <4>1. SUFFICES ASSUME j \div W < k \div W PROVE FALSE
        OBVIOUS
      <4>2. W * (j \div W) + W <= W * (k \div W)
        BY <1>1, <2>1, <4>1, MulMono
      <4> QED BY <4>2, <2>3, <1>1, <1>3, <1>5
    <3>4. j = k
      BY <3>2, <3>3, <2>3
    <3> QED BY <3>4, <1>3, <1>5
  <2>5. W * (k \div W) + W <= W * (j \div W)
    BY <1>1, <2>1, <2>4, MulMono
  <2> QED BY <1>1, <1>3, <2>3, <2>5
<1>6. Words = {Bit(c) : c \in i..(j - 1)}
  <2>1. ASSUME NEW b \in Words PROVE b \in {Bit(c) : c \in i..(j - 1)}
    <3>1. PICK k \in Aligned : b \in WordOf(k)
      BY <2>1
    <3>2. k \in Nat /\ i <= k /\ k < j /\ k % W = 0
      BY <1>2, <1>3, <3>1
    <3>3. PICK c \in k..(k + W - 1) : b = Bit(c)
      BY <3>1, <3>2, WordOfAligned
    <3>4. j % W = 0
      BY <1>2, <1>3, <3>2
    <3>5. c < j
      BY <1>5, <3>2, <3>3, <3>4
    <3>6. c \in i..(j - 1)
      BY <1>1, <1>2, <1>3, <3>2, <3>3, <3>5
    <3> QED BY <3>3, <3>6
  <2>2. ASSUME NEW c \in i..(j - 1) PROVE Bit(c) \in Words
    <3>1. c \in Nat /\ i <= c /\ c < j /\ i % W = 0
      BY <1>2, <1>3, <2>2
    <3> DEFINE k == AlignDown(c)
    <3>2. /\ k \in Nat /\ k <= c /\ c <= k + W - 1 /\ k % W = 0
      BY <3>1, AlignFacts
    <3> HIDE DEF k
    <3>3. i <= k
      <4>1. SUFFICES ASSUME k < i PROVE FALSE
        BY <1>2, <3>2
      <4>2. /\ k \div W \in Nat /\ k = W * (k \div W) + (k % W)
            /\ i \div W \in Nat /\ i = W * (i \div W) + (i % W)
        BY <1>1, <1>2, <3>2, DivMod
      <4>3. W * (k \div W) \in Int /\ W * (i \div W) \in Int
        BY <1>1, <4>2, MulInt
      <4>4. k = W * (k \div W) /\ i = W * (i \div W)
        BY <3>1, <3>2, <4>2, <4>3
      <4>5. k \div W < i \div W
        <5>1. SUFFICES ASSUME ~(k \div W < i \div W) PROVE FALSE
          OBVIOUS
        <5>2. CASE k \div W = i \div W
          BY <4>1, <4>4, <5>2, <1>2, <3>2
        <5>3. CASE i \div W < k \div W
          <6>1. W * (i \div W) + W <= W * (k \div W)
            BY <1>1, <4>2, <5>3, MulMono
          <6> QED BY <6>1, <4>1, <4>4, <1>1, <1>2, <3>2
        <5> QED BY <5>1, <5>2, <5>3, <4>2
      <4>6. W * (k \div W) + W <= W * (i \div W)
        BY <1>1, <4>2, <4>5, MulMono
      <4> QED BY <1>1, <1>2, <3>1, <3>2, <4>4, <4>6
    <3>4. k \in Aligned
      BY <1>2, <1>3, <3>1, <3>2, <3>3
    <3>5. c \in k..(k + W - 1)
      BY <1>1, <3>1, <3>2
    <3>6. Bit(c) \in WordOf(k)
      BY <3>2, <3>5, WordOfAligned
    <3> QED BY <3>4, <3>6
  <2> QED BY <2>1, <2>2
<1>7. first..(last - 1) = (first..(i - 1)) \union (i..(j - 1)) \union (j..(last - 1))
  BY <1>2, <1>3
<1> QED BY <1>4, <1>6, <1>7

(***************************************************************************)
(* The inductive invariant.  NextExact and the finiteness of delivered are *)
(* what WindowExact and AtMostOnce need to be preserved.                   *)
(***************************************************************************)
IInv == TypeOK /\ NextExact /\ WindowExact /\ AtMostOnce

\* The bit of a counter of the window is set exactly when it was delivered.
LEMMA BitMeansDelivered ==
  ASSUME TypeOK, WindowExact, NEW c \in Counters, InWindow(c)
  PROVE  check_bit(bitmap, c) <=> c \in delivered
<1>1. N_BITS \in Nat \ {0} /\ MaxCounter \in Nat
  BY NBitsPositive, SizesAssumption
<1>2. ASSUME c \in delivered PROVE Bit(c) \in bitmap
  BY <1>2 DEF WindowExact
<1>3. ASSUME Bit(c) \in bitmap PROVE c \in delivered
  <2>1. PICK d \in delivered : InWindow(d) /\ Bit(c) = Bit(d)
    BY <1>3 DEF WindowExact
  <2>2. c \in Nat /\ d \in Nat /\ next \in Nat
    BY <1>1 DEF TypeOK, Counters
  <2>3. c - d < N_BITS /\ d - c < N_BITS
    BY <1>1, <2>1, <2>2 DEF InWindow
  <2>4. ~(c < d) /\ ~(d < c)
    BY <1>1, <2>1, <2>2, <2>3, ResiduesDiffer DEF Bit
  <2> QED BY <2>1, <2>2, <2>4
<1> QED BY <1>2, <1>3 DEF check_bit

\* The test of the second, locked check is the freshness of the abstract
\* window, and so is that of the quick check.
LEMMA ChecksAreFresh ==
  ASSUME IInv, NEW c \in Counters
  PROVE  /\ Markable(c) <=> Abstract!Fresh(c)
         /\ will_accept(c) <=> Abstract!Fresh(c)
<1>1. N_BITS \in Nat \ {0} /\ c \in Nat /\ next \in Nat
  BY NBitsPositive, SizesAssumption DEF IInv, TypeOK, Counters
<1>2. CASE c >= next
  <2>1. c \notin delivered
    BY <1>1, <1>2 DEF IInv, NextExact
  <2> QED BY <1>1, <1>2, <2>1 DEF Markable, will_accept, TooFarBack, Abstract!Fresh
<1>3. CASE c < next
  <2>1. CASE c + N_BITS < next
    BY <1>1, <1>3, <2>1 DEF Markable, will_accept, TooFarBack, Abstract!Fresh
  <2>2. CASE ~(c + N_BITS < next)
    <3>1. InWindow(c)
      BY <1>1, <1>3, <2>2 DEF InWindow
    <3>2. check_bit(bitmap, c) <=> c \in delivered
      BY <3>1, BitMeansDelivered DEF IInv
    <3> QED BY <1>1, <1>3, <2>2, <3>2 DEF Markable, will_accept, TooFarBack, Abstract!Fresh
  <2> QED BY <2>1, <2>2
<1> QED BY <1>1, <1>2, <1>3

\* A new session satisfies the inductive invariant.
LEMMA InitIInv == Init => IInv
<1>1. SUFFICES ASSUME Init PROVE IInv
  OBVIOUS
<1>2. TypeOK
  BY <1>1, NBitsPositive, SizesAssumption DEF Init, TypeOK, Counters
<1>3. NextExact
  BY <1>1 DEF Init, NextExact
<1>4. WindowExact
  BY <1>1 DEF Init, WindowExact
<1>5. AtMostOnce
  BY <1>1, FS_EmptySet DEF Init, AtMostOnce
<1> QED BY <1>2, <1>3, <1>4, <1>5 DEF IInv

\* A fresh counter leaves the bitmap exact.
LEMMA MarkKeepsWindow ==
  ASSUME TypeOK, NextExact, WindowExact, NEW c \in Counters, Markable(c),
         mark_did_receive(c), delivered' = delivered \union {c}
  PROVE  WindowExact'
<1> DEFINE InWindowNow(d) == d < next' /\ d + N_BITS >= next'
           Kept == {Bit(d) : d \in {e \in delivered : InWindowNow(e)}}
           Skipped == {Bit(d) : d \in next..(c - 1)}
<1>1. /\ N_BITS \in Nat \ {0} /\ c \in Nat /\ next \in Nat
      /\ \A d \in delivered : d \in Nat /\ d < next
  BY NBitsPositive, SizesAssumption DEF TypeOK, Counters, NextExact
<1>2. next' \in Nat /\ next' >= next /\ next' > c /\ InWindowNow(c)
  BY <1>1 DEF mark_did_receive, Markable, TooFarBack
<1>3. WindowExact' <=> bitmap' = Kept \union {Bit(c)}
  <2>1. WindowExact' <=> bitmap' = {Bit(d) : d \in {e \in delivered' : InWindowNow(e)}}
    BY DEF WindowExact, InWindow, Bit, N_BITS
  <2>2. {e \in delivered' : InWindowNow(e)} = {e \in delivered : InWindowNow(e)} \union {c}
    BY <1>2
  <2> QED BY <2>1, <2>2
<1>4. CASE c < next
  <2>1. bitmap' = bitmap \union {Bit(c)} /\ next' = next
    BY <1>1, <1>4 DEF mark_did_receive, set_bit
  <2>2. bitmap = Kept
    BY <2>1 DEF WindowExact, InWindow
  <2> QED BY <1>3, <2>1, <2>2
<1>5. CASE c >= next /\ c - next >= N_BITS
  <2>1. bitmap' = {Bit(c)} /\ next' = c + 1
    BY <1>1, <1>5 DEF mark_did_receive, ClearSkipped, set_bit
  <2>2. Kept = {}
    BY <1>1, <1>5, <2>1
  <2> QED BY <1>3, <2>1, <2>2
<1>6. CASE c >= next /\ c - next < N_BITS
  <2>1. bitmap' = (bitmap \ Skipped) \union {Bit(c)} /\ next' = c + 1
    <3>1. CASE c = next
      <4>1. Skipped = {}
        BY <1>1, <3>1
      <4> QED BY <1>1, <3>1, <4>1 DEF mark_did_receive, set_bit
    <3>2. CASE c # next
      <4>1. ClearedBits(next, c) = Skipped
        BY <1>1, <1>6, ClearedBitsExact
      <4> QED BY <1>1, <1>6, <3>2, <4>1 DEF mark_did_receive, ClearSkipped, set_bit
    <3> QED BY <3>1, <3>2
  <2>2. ASSUME NEW b \in bitmap, b \notin Skipped, b # Bit(c) PROVE b \in Kept
    <3>1. PICK d \in delivered : InWindow(d) /\ b = Bit(d)
      BY <2>2 DEF WindowExact
    <3>2. d \in Nat /\ d < next /\ d + N_BITS >= next
      BY <1>1, <3>1 DEF InWindow
    <3>3. Bit(d + N_BITS) = b
      <4>1. d + N_BITS \in Nat
        BY <1>1, <3>2
      <4> QED BY <1>1, <3>1, <3>2, <4>1, ResiduePeriod DEF Bit
    <3>4. d + N_BITS > c
      <4>1. SUFFICES ASSUME d + N_BITS <= c PROVE FALSE
        BY <1>1, <3>2
      <4>2. d + N_BITS = c \/ d + N_BITS \in next..(c - 1)
        BY <1>1, <3>2, <4>1
      <4> QED BY <2>2, <3>3, <4>2
    <3>5. InWindowNow(d)
      BY <1>1, <1>6, <2>1, <3>2, <3>4
    <3> QED BY <3>1, <3>5
  <2>3. ASSUME NEW d \in delivered, InWindowNow(d) PROVE Bit(d) \in bitmap \ Skipped
    <3>1. d \in Nat /\ d < next /\ d + N_BITS > c
      BY <1>1, <2>1, <2>3
    <3>2. InWindow(d)
      BY <1>1, <1>6, <3>1 DEF InWindow
    <3>3. Bit(d) \in bitmap
      BY <3>2 DEF WindowExact
    <3>4. ASSUME NEW x \in next..(c - 1) PROVE Bit(x) # Bit(d)
      <4>1. x \in Nat /\ d < x /\ x - d < N_BITS
        BY <1>1, <3>1
      <4> QED BY <1>1, <3>1, <4>1, ResiduesDiffer DEF Bit
    <3> QED BY <3>3, <3>4
  <2>4. Kept \subseteq bitmap \ Skipped
    BY <2>3
  <2>5. bitmap \ Skipped \subseteq Kept \union {Bit(c)}
    BY <2>2
  <2> QED BY <1>3, <2>1, <2>4, <2>5
<1> QED BY <1>1, <1>4, <1>5, <1>6

\* Every step keeps the types.
LEMMA StepTypeOK == TypeOK /\ [Next]_vars => TypeOK'
<1>1. SUFFICES ASSUME TypeOK, [Next]_vars PROVE TypeOK'
  OBVIOUS
<1>2. N_BITS \in Nat \ {0} /\ MaxCounter \in Nat
  BY NBitsPositive, SizesAssumption
<1> USE DEF TypeOK, Counters
<1>3. ASSUME NEW t \in Receivers, NEW c \in Counters, QuickCheckPass(t, c) PROVE TypeOK'
  BY <1>1, <1>3 DEF QuickCheckPass
<1>4. ASSUME NEW t \in Receivers, NEW c \in Counters, QuickCheckFail(t, c) PROVE TypeOK'
  BY <1>1, <1>4 DEF QuickCheckFail, Judge
<1>5. ASSUME NEW t \in Receivers, OpenFail(t) PROVE TypeOK'
  BY <1>1, <1>5 DEF OpenFail
<1>6. ASSUME NEW t \in Receivers, MarkOk(t) PROVE TypeOK'
  <2> DEFINE c == opening[t]
  <2>1. c \in Counters /\ c \in Nat
    BY <1>1, <1>2, <1>6 DEF MarkOk
  <2> HIDE DEF c
  <2>2. mark_did_receive(c) /\ receive_cnt' = receive_cnt + 1
        /\ delivered' = delivered \union {c} /\ Judge(c, TRUE)
        /\ opening' = [opening EXCEPT ![t] = NoPacket]
    BY <1>6 DEF MarkOk, c
  <2>3. next' \in 0..(MaxCounter + 1)
    BY <1>1, <1>2, <2>1, <2>2 DEF mark_did_receive
  <2>4. bitmap' \in SUBSET (0..N_BITS - 1)
    <3>1. bitmap' \subseteq bitmap \union {Bit(c)}
      BY <2>2 DEF mark_did_receive, set_bit, ClearSkipped
    <3> QED BY <1>1, <2>1, <3>1, BitRange
  <2> QED BY <1>1, <2>1, <2>2, <2>3, <2>4 DEF Judge
<1>7. ASSUME NEW t \in Receivers, MarkFail(t) PROVE TypeOK'
  BY <1>1, <1>7 DEF MarkFail, Judge
<1>8. CASE UNCHANGED vars
  BY <1>1, <1>8 DEF vars
<1> QED BY <1>1, <1>3, <1>4, <1>5, <1>6, <1>7, <1>8 DEF Next

\* Every step of every receiving thread keeps the inductive invariant.
LEMMA StepIInv == IInv /\ [Next]_vars => IInv'
<1>1. SUFFICES ASSUME IInv, [Next]_vars PROVE IInv'
  OBVIOUS
<1>2. TypeOK'
  BY <1>1, StepTypeOK DEF IInv
<1>3. ASSUME UNCHANGED <<next, receive_cnt, bitmap, delivered>>
      PROVE  NextExact' /\ WindowExact' /\ AtMostOnce'
  BY <1>1, <1>3 DEF IInv, NextExact, WindowExact, AtMostOnce, InWindow, Bit, N_BITS
<1>4. ASSUME NEW t \in Receivers, MarkOk(t)
      PROVE  NextExact' /\ WindowExact' /\ AtMostOnce'
  <2> DEFINE c == opening[t]
  <2>1. c \in Counters /\ c \in Nat /\ next \in Nat /\ MaxCounter \in Nat
    BY <1>1, <1>4, SizesAssumption DEF MarkOk, IInv, TypeOK, Counters
  <2> HIDE DEF c
  <2>2. Markable(c) /\ mark_did_receive(c) /\ receive_cnt' = receive_cnt + 1
        /\ delivered' = delivered \union {c}
    BY <1>4 DEF MarkOk, c
  <2>3. NextExact'
    <3>1. next' = IF c >= next THEN c + 1 ELSE next
      BY <2>2 DEF mark_did_receive
    <3>2. \A d \in delivered : d \in Nat
      BY <1>1, SizesAssumption DEF IInv, TypeOK, Counters
    <3> QED BY <1>1, <2>1, <2>2, <3>1, <3>2 DEF IInv, NextExact
  <2>4. WindowExact'
    BY <1>1, <2>1, <2>2, MarkKeepsWindow DEF IInv
  <2>5. AtMostOnce'
    <3>1. c \notin delivered
      BY <1>1, <2>1, <2>2, ChecksAreFresh DEF Abstract!Fresh
    <3>2. IsFiniteSet(delivered)
      <4>1. delivered \subseteq 0..MaxCounter
        BY <1>1 DEF IInv, TypeOK, Counters
      <4>2. IsFiniteSet(0..MaxCounter)
        BY <2>1, FS_Interval
      <4> QED BY <4>1, <4>2, FS_Subset
    <3>3. Cardinality(delivered \union {c}) = Cardinality(delivered) + 1
      BY <3>1, <3>2, FS_AddElement
    <3> QED BY <1>1, <2>2, <3>3 DEF IInv, AtMostOnce
  <2> QED BY <2>3, <2>4, <2>5
<1>5. CASE UNCHANGED vars
  BY <1>2, <1>3, <1>5 DEF vars, IInv
<1>6. CASE Next
  <2>1. PICK t \in Receivers :
          \/ \E c \in Counters : QuickCheckPass(t, c) \/ QuickCheckFail(t, c)
          \/ OpenFail(t) \/ MarkOk(t) \/ MarkFail(t)
    BY <1>6 DEF Next
  <2>2. MarkOk(t) \/ UNCHANGED <<next, receive_cnt, bitmap, delivered>>
    BY <2>1 DEF QuickCheckPass, QuickCheckFail, OpenFail, MarkFail
  <2> QED BY <1>2, <1>3, <1>4, <2>2 DEF IInv
<1> QED BY <1>1, <1>5, <1>6

(***************************************************************************)
(* Theorems                                                                *)
(***************************************************************************)
\* The validator's variables keep their types on every behaviour: every bit
\* that set_bit writes lies in the bitmap.
THEOREM TypeCorrect == Spec => []TypeOK
<1>1. Init => TypeOK
  BY InitIInv DEF IInv
<1> QED BY <1>1, StepTypeOK, PTL DEF Spec

\* The inductive invariant holds on every behaviour.
THEOREM Inductive == Spec => []IInv
  BY InitIInv, StepIInv, PTL DEF Spec

\* The bitmap of session.rs is exact: the bits that are set are those of the
\* counters delivered within the window, whatever was skipped and cleared.
THEOREM WindowIsExact == Spec => []WindowExact
<1>1. IInv => WindowExact
  BY DEF IInv
<1> QED BY <1>1, Inductive, PTL

\* No packet counter is delivered twice, however many threads decrypt at once.
THEOREM DeliveredAtMostOnce == Spec => []AtMostOnce
<1>1. IInv => AtMostOnce
  BY DEF IInv
<1> QED BY <1>1, Inductive, PTL

\* The bitmap and the two checks around decryption implement the abstract
\* sliding window: every answer is the one the abstract window gives.
THEOREM Implements == Spec => ImplementsAntiReplay
<1>1. Init => Abstract!Init
  BY DEF Init, Abstract!Init
<1>2. ASSUME IInv, [Next]_vars PROVE [Abstract!Next]_(Abstract!vars)
  <2>1. ASSUME NEW t \in Receivers, NEW c \in Counters, QuickCheckFail(t, c)
        PROVE  Abstract!Refuse(c)
    BY <1>2, <2>1, ChecksAreFresh DEF QuickCheckFail, Judge, Abstract!Refuse
  <2>2. ASSUME NEW t \in Receivers, MarkFail(t) PROVE Abstract!Refuse(opening[t])
    <3>1. opening[t] \in Counters
      BY <1>2, <2>2 DEF MarkFail, IInv, TypeOK
    <3> QED BY <1>2, <2>2, <3>1, ChecksAreFresh DEF MarkFail, Judge, Abstract!Refuse
  <2>3. ASSUME NEW t \in Receivers, MarkOk(t) PROVE Abstract!Accept(opening[t])
    <3>1. opening[t] \in Counters
      BY <1>2, <2>3 DEF MarkOk, IInv, TypeOK
    <3> QED BY <1>2, <2>3, <3>1, ChecksAreFresh
           DEF MarkOk, mark_did_receive, Judge, Abstract!Accept
  <2>4. ASSUME NEW t \in Receivers, NEW c \in Counters, QuickCheckPass(t, c) \/ OpenFail(t)
        PROVE  UNCHANGED Abstract!vars
    BY <2>4 DEF QuickCheckPass, OpenFail, Abstract!vars
  <2>5. ASSUME NEW t \in Receivers, OpenFail(t) PROVE UNCHANGED Abstract!vars
    BY <2>5 DEF OpenFail, Abstract!vars
  <2>6. CASE UNCHANGED vars
    BY <2>6 DEF vars, Abstract!vars
  <2>7. ASSUME NEW t \in Receivers, opening[t] # NoPacket PROVE opening[t] \in Abstract!Counters
    BY <1>2, <2>7 DEF IInv, TypeOK, Counters, Abstract!Counters
  <2> QED BY <1>2, <2>1, <2>2, <2>3, <2>4, <2>5, <2>6, <2>7
        DEF Next, MarkOk, MarkFail, Abstract!Next, Counters, Abstract!Counters
<1> QED BY <1>1, <1>2, Inductive, PTL DEF Spec, ImplementsAntiReplay, Abstract!Spec
=============================================================================
