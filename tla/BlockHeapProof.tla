--------------------------- MODULE BlockHeapProof ---------------------------
(***************************************************************************)
(* What the operations of a heap of blocks preserve, for any memory and    *)
(* chunk size: lemmas for the heap of the kernel, whose state it is, and   *)
(* for the words of mm.c, which represent such a heap.                     *)
(***************************************************************************)
EXTENDS BlockHeap, SequenceTheorems, FiniteSetTheorems, FunctionTheorems, TLAPS

USE DEF ALIGNMENT, DSIZE

Aligned(x) == x % ALIGNMENT = 0

\* A heap has these three parts and no other.
IsHeap(h) == h = [blk |-> h.blk, free |-> h.free, brk |-> h.brk]

Taken(h) == {b \in DOMAIN h.blk : h.blk[b].alloc}

\* The blocks follow each other from FirstBlock to the break.
Tiles(h) ==
  /\ h.blk \in [DOMAIN h.blk -> [size : Nat, alloc : BOOLEAN]]
  /\ DOMAIN h.blk \subseteq Nat
  /\ h.brk \in Nat /\ Aligned(h.brk)
  /\ FirstBlock \in DOMAIN h.blk \cup {h.brk}
  /\ \A b \in DOMAIN h.blk :
       /\ b >= FirstBlock /\ Aligned(b)
       /\ Aligned(Size(h, b)) /\ Size(h, b) >= 2 * DSIZE
       /\ End(h, b) \in DOMAIN h.blk \cup {h.brk} /\ End(h, b) <= h.brk
  /\ \A b, c \in DOMAIN h.blk : b < c => End(h, b) <= c

\* q holds each block of S once, sizes ascending.
Listing(q, S, blk) ==
  /\ q \in Seq(Nat) /\ Range(q) = S
  /\ \A i, j \in DOMAIN q : q[i] = q[j] => i = j
  /\ \A i, j \in DOMAIN q : i < j => blk[q[i]].size <= blk[q[j]].size

\* The state of the heap between two steps of an operation.
Tiled(h) == IsHeap(h) /\ Tiles(h) /\ Listing(h.free, FreeBlocks(h), h.blk)

\* Two neighbours are free only if x is one of them.
MergedBut(h, x) ==
  \A b \in FreeBlocks(h) : End(h, b) \in FreeBlocks(h) => b = x \/ End(h, b) = x

Sound(h) == Tiled(h) /\ \A b \in FreeBlocks(h) : End(h, b) \notin FreeBlocks(h)

\* b is free but in no list.
Loose(h, b) ==
  /\ IsHeap(h) /\ Tiles(h) /\ b \in FreeBlocks(h)
  /\ Listing(h.free, FreeBlocks(h) \ {b}, h.blk)

\* r is q with b put at place pos; r is q without what is at place pos.
Inserted(q, pos, b, r) ==
  /\ r \in Seq(Nat) /\ Len(r) = Len(q) + 1
  /\ \A j \in 1..(Len(q) + 1) :
       r[j] = IF j < pos THEN q[j] ELSE IF j = pos THEN b ELSE q[j - 1]

\* Its place is the one its size gives it.
Entered(q, blk, b, pos, r) ==
  /\ pos \in 1..(Len(q) + 1) /\ Inserted(q, pos, b, r)
  /\ \A i \in 1..Len(q) : i < pos <=> blk[q[i]].size < blk[b].size

Removed(q, pos, r) ==
  /\ pos \in 1..Len(q) /\ r \in Seq(Nat) /\ Len(r) = Len(q) - 1
  /\ \A j \in 1..(Len(q) - 1) : r[j] = IF j < pos THEN q[j] ELSE q[j + 1]

-----------------------------------------------------------------------------
(* Numbers and sequences                                                   *)

LEMMA AlignedSums ==
  \A x, y \in Int : Aligned(x) /\ Aligned(y) => Aligned(x + y) /\ Aligned(x - y)
BY DEF Aligned

LEMMA LeastElement ==
  ASSUME NEW T \in SUBSET Nat, T # {}
  PROVE  \E x \in T : \A y \in T : x <= y
<1>1. IsWellFoundedOn(OpToRel(<, Nat), Nat)
  BY NatLessThanWellFounded
<1>2. PICK x \in T : \A y \in T : ~ (<<y, x>> \in OpToRel(<, Nat))
  BY <1>1, WFMin
<1>3. \A y \in T : ~(y < x)
  BY <1>2 DEF OpToRel
<1> QED
  BY <1>3

LEMMA MinIs ==
  ASSUME NEW S \in SUBSET Int, NEW x \in S, \A y \in S : x <= y
  PROVE  Min(S) = x
<1>1. \A z \in S : (\A y \in S : z <= y) => z = x
  OBVIOUS
<1> QED
  BY <1>1 DEF Min

LEMMA MaxIs ==
  ASSUME NEW S \in SUBSET Int, NEW x \in S, \A y \in S : x >= y
  PROVE  Max(S) = x
<1>1. \A z \in S : (\A y \in S : z >= y) => z = x
  OBVIOUS
<1> QED
  BY <1>1 DEF Max

\* A set that is closed downwards is an interval.
LEMMA CountBelow ==
  ASSUME NEW n \in Nat, NEW S \in SUBSET (1..n),
         \A i \in S, j \in 1..n : j < i => j \in S
  PROVE  \E m \in 0..n : Cardinality(S) = m /\ S = 1..m
<1> DEFINE T == {k \in Nat : k + 1 \notin S}
<1>1. n \in T
  OBVIOUS
<1>2. PICK m \in T : \A k \in T : m <= k
  BY <1>1, LeastElement
<1>3. m \in 0..n
  BY <1>1, <1>2
<1>4. \A i \in 1..m : i \in S
  <2> SUFFICES ASSUME NEW i \in 1..m, i \notin S PROVE FALSE
    OBVIOUS
  <2>1. i - 1 \in T
    BY <1>3
  <2> QED
    BY <1>2, <2>1
<1>5. \A i \in S : i \in 1..m
  <2> SUFFICES ASSUME NEW i \in S, i > m PROVE FALSE
    BY <1>3
  <2>1. m + 1 \in 1..n /\ m + 1 \notin S /\ (m + 1 = i \/ m + 1 < i)
    BY <1>2, <1>3
  <2> QED
    BY <2>1
<1>6. S = 1..m
  BY <1>4, <1>5
<1>7. Cardinality(1..m) = m
  BY <1>3, FS_Interval
<1> QED
  BY <1>3, <1>6, <1>7

LEMMA SameInterval ==
  ASSUME NEW m \in Nat, NEW n \in Nat, 1..m = 1..n
  PROVE  m = n
<1>1. m <= n
  <2>1. m = 0 \/ m \in 1..n
    OBVIOUS
  <2> QED
    BY <2>1
<1>2. n <= m
  <2>1. n = 0 \/ n \in 1..m
    OBVIOUS
  <2> QED
    BY <2>1
<1> QED
  BY <1>1, <1>2

LEMMA InsertAtIs ==
  ASSUME NEW S, NEW q \in Seq(S), NEW e \in S, NEW i \in 1..(Len(q) + 1)
  PROVE  /\ InsertAt(q, i, e) \in Seq(S)
         /\ DOMAIN InsertAt(q, i, e) = 1..(Len(q) + 1)
         /\ \A j \in 1..(Len(q) + 1) :
              InsertAt(q, i, e)[j] = IF j < i THEN q[j] ELSE IF j = i THEN e ELSE q[j - 1]
<1> DEFINE n == Len(q)
           front == SubSeq(q, 1, i - 1)
           back == SubSeq(q, i, n)
           first == front \o <<e>>
           r == first \o back
<1>1. n \in Nat /\ i \in 1..(n + 1) /\ \A j \in 1..n : q[j] \in S
  BY LenProperties, ElementOfSeq
<1>2. /\ front \in Seq(S) /\ Len(front) = i - 1 /\ \A j \in 1..(i - 1) : front[j] = q[j]
  <2>1. 1 \in Int /\ i - 1 \in Int /\ \A j \in 1..(i - 1) : q[j] \in S
    BY <1>1
  <2>2. /\ front \in Seq(S) /\ Len(front) = IF 1 <= i - 1 THEN (i - 1) - 1 + 1 ELSE 0
        /\ \A j \in 1..((i - 1) - 1 + 1) : front[j] = q[1 + j - 1]
    BY <2>1, SubSeqProperties
  <2> QED
    BY <1>1, <2>2
<1>3. /\ back \in Seq(S) /\ Len(back) = n + 1 - i /\ \A j \in 1..(n + 1 - i) : back[j] = q[i + j - 1]
  <2>1. i \in Int /\ n \in Int /\ \A j \in i..n : q[j] \in S
    BY <1>1
  <2>2. /\ back \in Seq(S) /\ Len(back) = IF i <= n THEN n - i + 1 ELSE 0
        /\ \A j \in 1..(n - i + 1) : back[j] = q[i + j - 1]
    BY <2>1, SubSeqProperties
  <2> HIDE DEF n, back
  <2> QED
    BY <1>1, <2>2
<1>4. <<e>> \in Seq(S) /\ Len(<<e>>) = 1 /\ <<e>>[1] = e
  OBVIOUS
<1> HIDE DEF n, front, back
<1>5. /\ first \in Seq(S) /\ Len(first) = i
      /\ \A j \in 1..i : first[j] = IF j <= i - 1 THEN front[j] ELSE <<e>>[j - (i - 1)]
  <2>1. /\ first \in Seq(S) /\ Len(first) = Len(front) + Len(<<e>>)
        /\ \A j \in 1..(Len(front) + Len(<<e>>)) :
             first[j] = IF j <= Len(front) THEN front[j] ELSE <<e>>[j - Len(front)]
    BY <1>2, <1>4, ConcatProperties
  <2>2. Len(front) + Len(<<e>>) = i
    BY <1>1, <1>2, <1>4
  <2> QED
    BY <1>2, <2>1, <2>2
<1> HIDE DEF first
<1>6. /\ r \in Seq(S) /\ Len(r) = n + 1
      /\ \A j \in 1..(n + 1) : r[j] = IF j <= i THEN first[j] ELSE back[j - i]
  <2>1. /\ r \in Seq(S) /\ Len(r) = Len(first) + Len(back)
        /\ \A j \in 1..(Len(first) + Len(back)) :
             r[j] = IF j <= Len(first) THEN first[j] ELSE back[j - Len(first)]
    BY <1>3, <1>5, ConcatProperties
  <2>2. Len(first) + Len(back) = n + 1
    BY <1>1, <1>3, <1>5
  <2> QED
    BY <1>5, <2>1, <2>2
<1>7. DOMAIN r = 1..(n + 1)
  BY <1>6, LenProperties
<1> HIDE DEF r
<1>8. ASSUME NEW j \in 1..(n + 1)
      PROVE  r[j] = IF j < i THEN q[j] ELSE IF j = i THEN e ELSE q[j - 1]
  <2>1. CASE j < i
    <3>1. j \in 1..(i - 1) /\ j \in 1..i /\ j <= i - 1 /\ j <= i
      BY <1>1, <2>1
    <3> QED
      BY <1>2, <1>5, <1>6, <2>1, <3>1
  <2>2. CASE j = i
    <3>1. i \in 1..i /\ ~(i <= i - 1) /\ i - (i - 1) = 1 /\ i <= i
      BY <1>1
    <3> QED
      BY <1>4, <1>5, <1>6, <2>2, <3>1
  <2>3. CASE j > i
    <3>1. j - i \in 1..(n + 1 - i) /\ i + (j - i) - 1 = j - 1 /\ ~(j <= i) /\ ~(j < i) /\ j # i
      BY <1>1, <2>3
    <3> QED
      BY <1>3, <1>6, <3>1
  <2> QED
    BY <1>1, <2>1, <2>2, <2>3
<1>9. InsertAt(q, i, e) = r
  BY DEF InsertAt, r, first, front, back, n
<1> QED
  BY <1>6, <1>7, <1>8, <1>9 DEF n

LEMMA RemoveAtIs ==
  ASSUME NEW S, NEW q \in Seq(S), NEW k \in 1..Len(q)
  PROVE  /\ RemoveAt(q, k) \in Seq(S)
         /\ DOMAIN RemoveAt(q, k) = 1..(Len(q) - 1)
         /\ \A j \in 1..(Len(q) - 1) :
              RemoveAt(q, k)[j] = IF j < k THEN q[j] ELSE q[j + 1]
<1> DEFINE n == Len(q)
           front == SubSeq(q, 1, k - 1)
           back == SubSeq(q, k + 1, n)
           r == front \o back
<1>1. n \in Nat /\ k \in 1..n /\ \A j \in 1..n : q[j] \in S
  BY LenProperties, ElementOfSeq
<1>2. /\ front \in Seq(S) /\ Len(front) = k - 1 /\ \A j \in 1..(k - 1) : front[j] = q[j]
  <2>1. 1 \in Int /\ k - 1 \in Int /\ \A j \in 1..(k - 1) : q[j] \in S
    BY <1>1
  <2>2. /\ front \in Seq(S) /\ Len(front) = IF 1 <= k - 1 THEN (k - 1) - 1 + 1 ELSE 0
        /\ \A j \in 1..((k - 1) - 1 + 1) : front[j] = q[1 + j - 1]
    BY <2>1, SubSeqProperties
  <2> QED
    BY <1>1, <2>2
<1>3. /\ back \in Seq(S) /\ Len(back) = n - k /\ \A j \in 1..(n - k) : back[j] = q[k + j]
  <2>1. k + 1 \in Int /\ n \in Int /\ \A j \in (k + 1)..n : q[j] \in S
    BY <1>1
  <2>2. /\ back \in Seq(S) /\ Len(back) = IF k + 1 <= n THEN n - (k + 1) + 1 ELSE 0
        /\ \A j \in 1..(n - (k + 1) + 1) : back[j] = q[(k + 1) + j - 1]
    BY <2>1, SubSeqProperties
  <2> HIDE DEF n, back
  <2>3. n - (k + 1) + 1 = n - k /\ \A j \in Int : (k + 1) + j - 1 = k + j
    BY <1>1
  <2>4. Len(back) = n - k
    BY <1>1, <2>2
  <2>5. ASSUME NEW j \in 1..(n - k) PROVE back[j] = q[k + j]
    BY <2>2, <2>3
  <2> QED
    BY <2>2, <2>4, <2>5
<1> HIDE DEF n, front, back
<1>4. /\ r \in Seq(S) /\ Len(r) = n - 1
      /\ \A j \in 1..(n - 1) : r[j] = IF j <= k - 1 THEN front[j] ELSE back[j - (k - 1)]
  <2>1. /\ r \in Seq(S) /\ Len(r) = Len(front) + Len(back)
        /\ \A j \in 1..(Len(front) + Len(back)) :
             r[j] = IF j <= Len(front) THEN front[j] ELSE back[j - Len(front)]
    BY <1>2, <1>3, ConcatProperties
  <2>2. Len(front) + Len(back) = n - 1
    BY <1>1, <1>2, <1>3
  <2> QED
    BY <1>2, <2>1, <2>2
<1>5. DOMAIN r = 1..(n - 1)
  BY <1>4, LenProperties
<1> HIDE DEF r
<1>6. ASSUME NEW j \in 1..(n - 1)
      PROVE  r[j] = IF j < k THEN q[j] ELSE q[j + 1]
  <2>1. CASE j < k
    <3>1. j \in 1..(k - 1) /\ j <= k - 1
      BY <1>1, <2>1
    <3> QED
      BY <1>2, <1>4, <2>1, <3>1
  <2>2. CASE ~(j < k)
    <3>1. j - (k - 1) \in 1..(n - k) /\ k + (j - (k - 1)) = j + 1 /\ ~(j <= k - 1)
      BY <1>1, <2>2
    <3> QED
      BY <1>3, <1>4, <2>2, <3>1
  <2> QED
    BY <2>1, <2>2
<1>7. RemoveAt(q, k) = r
  BY DEF RemoveAt, r, front, back, n
<1> QED
  BY <1>4, <1>5, <1>6, <1>7 DEF n

-----------------------------------------------------------------------------
(* The free lists                                                          *)

LEMMA ListingShape ==
  ASSUME NEW q, NEW S, NEW blk, Listing(q, S, blk)
  PROVE  /\ Len(q) \in Nat /\ DOMAIN q = 1..Len(q) /\ S \subseteq Nat
         /\ \A i \in 1..Len(q) : q[i] \in S
         /\ \A x \in S : \E i \in 1..Len(q) : q[i] = x
<1>1. Len(q) \in Nat /\ DOMAIN q = 1..Len(q) /\ \A i \in 1..Len(q) : q[i] \in Nat
  BY LenProperties, ElementOfSeq DEF Listing
<1> QED
  BY <1>1 DEF Listing, Range

\* A free list lists as many blocks as there are.
LEMMA ListingCounts ==
  ASSUME NEW q, NEW S, NEW blk, Listing(q, S, blk)
  PROVE  IsFiniteSet(S) /\ Len(q) = Cardinality(S)
<1>1. /\ Len(q) \in Nat /\ DOMAIN q = 1..Len(q)
      /\ \A i \in 1..Len(q) : q[i] \in S
      /\ \A x \in S : \E i \in 1..Len(q) : q[i] = x
  BY ListingShape
<1>2. q \in [1..Len(q) -> S] /\ \A i, j \in 1..Len(q) : q[i] = q[j] => i = j
  <2>1. q \in [1..Len(q) -> Nat]
    BY LenProperties DEF Listing
  <2> QED
    BY <1>1, <2>1 DEF Listing
<1>3. q \in Bijection(1..Len(q), S)
  BY <1>1, <1>2, Fun_IsInj, Fun_IsBij
<1>4. IsFiniteSet(1..Len(q)) /\ Cardinality(1..Len(q)) = Len(q)
  BY <1>1, FS_Interval
<1> QED
  BY <1>3, <1>4, Fun_ExistsBij, FS_Bijection

LEMMA ListingSame ==
  ASSUME NEW q, NEW S, NEW blk, NEW new, Listing(q, S, blk),
         \A b \in S : new[b].size = blk[b].size
  PROVE  Listing(q, S, new)
<1>1. DOMAIN q = 1..Len(q) /\ \A i \in 1..Len(q) : q[i] \in S
  BY ListingShape
<1>2. \A i \in 1..Len(q) : new[q[i]].size = blk[q[i]].size
  BY <1>1
<1> QED
  BY <1>1, <1>2 DEF Listing

LEMMA RemoveListed ==
  ASSUME NEW q, NEW S, NEW blk, Listing(q, S, blk), NEW k \in DOMAIN q
  PROVE  Listing(RemoveAt(q, k), S \ {q[k]}, blk) /\ Removed(q, k, RemoveAt(q, k))
<1> DEFINE r == RemoveAt(q, k)
           n == Len(q)
<1>1. /\ n \in Nat /\ DOMAIN q = 1..n /\ k \in 1..n
      /\ \A i \in 1..n : q[i] \in S
      /\ \A x \in S : \E i \in 1..n : q[i] = x
  BY ListingShape
<1>2. /\ r \in Seq(Nat) /\ DOMAIN r = 1..(n - 1)
      /\ \A j \in 1..(n - 1) : r[j] = IF j < k THEN q[j] ELSE q[j + 1]
  <2>1. q \in Seq(Nat) /\ k \in 1..Len(q)
    BY <1>1 DEF Listing
  <2>2. /\ RemoveAt(q, k) \in Seq(Nat) /\ DOMAIN RemoveAt(q, k) = 1..(Len(q) - 1)
        /\ \A j \in 1..(Len(q) - 1) : RemoveAt(q, k)[j] = IF j < k THEN q[j] ELSE q[j + 1]
    BY <2>1, RemoveAtIs
  <2> QED
    BY <2>2
<1>3. /\ \A i, j \in 1..n : q[i] = q[j] => i = j
      /\ \A i, j \in 1..n : i < j => blk[q[i]].size <= blk[q[j]].size
  BY <1>1 DEF Listing
<1> HIDE DEF r, n
<1>4. \A j \in 1..(n - 1) : \E i \in 1..n : i # k /\ r[j] = q[i] /\ i = IF j < k THEN j ELSE j + 1
  <2> TAKE j \in 1..(n - 1)
  <2>1. CASE j < k
    BY <1>1, <1>2, <2>1
  <2>2. CASE ~(j < k)
    <3>1. j + 1 \in 1..n /\ j + 1 # k
      BY <1>1, <2>2
    <3> QED
      BY <1>1, <1>2, <2>2, <3>1
  <2> QED
    BY <2>1, <2>2
<1>5. \A i \in 1..n : i # k => \E j \in 1..(n - 1) : r[j] = q[i]
  <2> TAKE i \in 1..n
  <2> HAVE i # k
  <2>1. CASE i < k
    <3>1. i \in 1..(n - 1)
      BY <1>1, <2>1
    <3> QED
      BY <1>2, <2>1, <3>1
  <2>2. CASE i > k
    <3>1. i - 1 \in 1..(n - 1) /\ ~(i - 1 < k) /\ (i - 1) + 1 = i
      BY <1>1, <2>2
    <3> QED
      BY <1>2, <3>1
  <2> QED
    BY <1>1, <2>1, <2>2
<1>6. Range(r) = S \ {q[k]}
  <2>1. \A x : x \in Range(r) <=> \E j \in 1..(n - 1) : x = r[j]
    BY <1>2 DEF Range
  <2>2. \A x : x \in S \ {q[k]} <=> \E i \in 1..n : i # k /\ x = q[i]
    BY <1>1, <1>3
  <2> QED
    BY <1>4, <1>5, <2>1, <2>2
<1>7. \A i, j \in 1..(n - 1) : r[i] = r[j] => i = j
  <2> TAKE i, j \in 1..(n - 1)
  <2> HAVE r[i] = r[j]
  <2>1. PICK a \in 1..n : r[i] = q[a] /\ a = IF i < k THEN i ELSE i + 1
    BY <1>4
  <2>2. PICK c \in 1..n : r[j] = q[c] /\ c = IF j < k THEN j ELSE j + 1
    BY <1>4
  <2>3. a = c
    BY <1>3, <2>1, <2>2
  <2> QED
    BY <1>1, <2>1, <2>2, <2>3
<1>8. \A i, j \in 1..(n - 1) : i < j => blk[r[i]].size <= blk[r[j]].size
  <2> TAKE i, j \in 1..(n - 1)
  <2> HAVE i < j
  <2>1. PICK a \in 1..n : r[i] = q[a] /\ a = IF i < k THEN i ELSE i + 1
    BY <1>4
  <2>2. PICK c \in 1..n : r[j] = q[c] /\ c = IF j < k THEN j ELSE j + 1
    BY <1>4
  <2>3. a < c
    BY <1>1, <2>1, <2>2
  <2> QED
    BY <1>3, <2>1, <2>2, <2>3
<1>9. Len(r) = n - 1
  <2>1. Len(r) \in Nat /\ DOMAIN r = 1..Len(r) /\ n - 1 \in Nat
    BY <1>1, <1>2, LenProperties
  <2> QED
    BY <1>2, <2>1, SameInterval
<1>10. Removed(q, k, r)
  BY <1>1, <1>2, <1>9 DEF Removed, n
<1> QED
  BY <1>2, <1>6, <1>7, <1>8, <1>10 DEF Listing, r

LEMMA InsertListed ==
  ASSUME NEW q, NEW S, NEW blk, Listing(q, S, blk), NEW b \in Nat, b \notin S,
         \A c \in S \cup {b} : blk[c].size \in Int
  PROVE  \E r, pos :
           /\ r = InsertAt(q, Cardinality({i \in DOMAIN q : blk[q[i]].size < blk[b].size}) + 1, b)
           /\ Listing(r, S \cup {b}, blk) /\ Entered(q, blk, b, pos, r)
<1> DEFINE n == Len(q)
           below == {i \in DOMAIN q : blk[q[i]].size < blk[b].size}
<1>1. /\ n \in Nat /\ DOMAIN q = 1..n
      /\ \A i \in 1..n : q[i] \in S
      /\ \A x \in S : \E i \in 1..n : q[i] = x
  BY ListingShape
<1>2. /\ \A i, j \in 1..n : q[i] = q[j] => i = j
      /\ \A i, j \in 1..n : i < j => blk[q[i]].size <= blk[q[j]].size
      /\ \A i \in 1..n : blk[q[i]].size \in Int
  BY <1>1 DEF Listing
<1>3. below \subseteq 1..n /\ \A i \in below, j \in 1..n : j < i => j \in below
  BY <1>1, <1>2
<1> HIDE DEF n
<1>4. PICK m \in 0..n : Cardinality(below) = m /\ below = 1..m
  <2> HIDE DEF below
  <2> QED
    BY <1>1, <1>3, CountBelow
<1>5. \A i \in 1..n : IF i <= m THEN blk[q[i]].size < blk[b].size ELSE blk[b].size <= blk[q[i]].size
  <2> TAKE i \in 1..n
  <2>1. i \in below <=> blk[q[i]].size < blk[b].size
    BY <1>1
  <2>2. i \in below <=> i <= m
    BY <1>1, <1>4
  <2> QED
    BY <1>2, <2>1, <2>2
<1> DEFINE r == InsertAt(q, m + 1, b)
<1>6. /\ r \in Seq(Nat) /\ DOMAIN r = 1..(n + 1)
      /\ \A j \in 1..(n + 1) : r[j] = IF j < m + 1 THEN q[j] ELSE IF j = m + 1 THEN b ELSE q[j - 1]
  <2> DEFINE Address == Nat
  <2>1. q \in Seq(Address) /\ b \in Address /\ m + 1 \in 1..(Len(q) + 1)
    BY <1>1, <1>4 DEF Listing, n
  <2> HIDE DEF Address, n, below
  <2>2. /\ r \in Seq(Address) /\ DOMAIN r = 1..(Len(q) + 1)
        /\ \A j \in 1..(Len(q) + 1) :
             r[j] = IF j < m + 1 THEN q[j] ELSE IF j = m + 1 THEN b ELSE q[j - 1]
    <3> DEFINE i == m + 1
    <3> HIDE DEF r
    <3>1. i \in 1..(Len(q) + 1)
      BY <2>1
    <3> HIDE DEF i
    <3>2. InsertAt(q, i, b) \in Seq(Address)
      BY <2>1, <3>1, InsertAtIs
    <3>3. DOMAIN InsertAt(q, i, b) = 1..(Len(q) + 1)
      BY <2>1, <3>1, InsertAtIs
    <3>4. \A j \in 1..(Len(q) + 1) :
             InsertAt(q, i, b)[j] = IF j < i THEN q[j] ELSE IF j = i THEN b ELSE q[j - 1]
      BY <2>1, <3>1, InsertAtIs
    <3> QED
      BY <3>2, <3>3, <3>4 DEF r, i
  <2> QED
    BY <2>2 DEF n, Address
<1> HIDE DEF r, below
<1>7. \A j \in 1..(n + 1) :
        \/ j = m + 1 /\ r[j] = b
        \/ j # m + 1 /\ \E i \in 1..n : r[j] = q[i] /\ i = IF j < m + 1 THEN j ELSE j - 1
  <2> TAKE j \in 1..(n + 1)
  <2>1. CASE j < m + 1
    <3>1. j \in 1..n
      BY <1>1, <1>4, <2>1
    <3> QED
      BY <1>6, <2>1, <3>1
  <2>2. CASE j = m + 1
    BY <1>6, <2>2
  <2>3. CASE j > m + 1
    <3>1. j - 1 \in 1..n /\ ~(j < m + 1)
      BY <1>1, <1>4, <2>3
    <3> QED
      BY <1>6, <2>3, <3>1
  <2> QED
    BY <1>1, <1>4, <2>1, <2>2, <2>3
<1>8. \A i \in 1..n : \E j \in 1..(n + 1) : r[j] = q[i]
  <2> TAKE i \in 1..n
  <2>1. CASE i <= m
    <3>1. i \in 1..(n + 1) /\ i < m + 1
      BY <1>1, <1>4, <2>1
    <3> QED
      BY <1>6, <3>1
  <2>2. CASE ~(i <= m)
    <3>1. i + 1 \in 1..(n + 1) /\ ~(i + 1 < m + 1) /\ i + 1 # m + 1 /\ (i + 1) - 1 = i
      BY <1>1, <1>4, <2>2
    <3> QED
      BY <1>6, <3>1
  <2> QED
    BY <2>1, <2>2
<1>9. Range(r) = S \cup {b}
  <2>1. \A x : x \in Range(r) <=> \E j \in 1..(n + 1) : x = r[j]
    BY <1>6 DEF Range
  <2>2. m + 1 \in 1..(n + 1) /\ r[m + 1] = b
    BY <1>1, <1>4, <1>6, SMTT(30)
  <2>3. \A x : x \in S <=> \E i \in 1..n : x = q[i]
    BY <1>1
  <2> QED
    BY <1>7, <1>8, <2>1, <2>2, <2>3
<1>10. \A i, j \in 1..(n + 1) : r[i] = r[j] => i = j
  <2> TAKE i, j \in 1..(n + 1)
  <2> HAVE r[i] = r[j]
  <2>1. CASE i = m + 1 \/ j = m + 1
    BY <1>1, <1>7, <2>1
  <2>2. CASE i # m + 1 /\ j # m + 1
    <3>1. PICK a \in 1..n : r[i] = q[a] /\ a = IF i < m + 1 THEN i ELSE i - 1
      BY <1>7, <2>2
    <3>2. PICK c \in 1..n : r[j] = q[c] /\ c = IF j < m + 1 THEN j ELSE j - 1
      BY <1>7, <2>2
    <3>3. a = c
      BY <1>2, <3>1, <3>2
    <3> QED
      BY <1>1, <1>4, <2>2, <3>1, <3>2, <3>3
  <2> QED
    BY <2>1, <2>2
<1>11. \A i, j \in 1..(n + 1) : i < j => blk[r[i]].size <= blk[r[j]].size
  <2> TAKE i, j \in 1..(n + 1)
  <2> HAVE i < j
  <2>1. CASE i = m + 1
    <3>1. PICK c \in 1..n : r[j] = q[c] /\ c = IF j < m + 1 THEN j ELSE j - 1
      BY <1>7, <2>1
    <3>2. ~(c <= m) /\ r[i] = b
      BY <1>1, <1>4, <1>6, <2>1, <3>1
    <3> QED
      BY <1>5, <3>1, <3>2
  <2>2. CASE j = m + 1
    <3>1. PICK a \in 1..n : r[i] = q[a] /\ a = IF i < m + 1 THEN i ELSE i - 1
      BY <1>7, <2>2
    <3>2. a <= m /\ r[j] = b
      BY <1>1, <1>4, <1>6, <2>2, <3>1
    <3> QED
      BY <1>2, <1>5, <3>1, <3>2
  <2>3. CASE i # m + 1 /\ j # m + 1
    <3>1. PICK a \in 1..n : r[i] = q[a] /\ a = IF i < m + 1 THEN i ELSE i - 1
      BY <1>7, <2>3
    <3>2. PICK c \in 1..n : r[j] = q[c] /\ c = IF j < m + 1 THEN j ELSE j - 1
      BY <1>7, <2>3
    <3>3. a < c
      BY <1>1, <1>4, <2>3, <3>1, <3>2
    <3> QED
      BY <1>2, <3>1, <3>2, <3>3
  <2> QED
    BY <2>1, <2>2, <2>3
<1>12. Listing(r, S \cup {b}, blk)
  BY <1>6, <1>9, <1>10, <1>11 DEF Listing
<1>13. Len(r) = n + 1
  <2>1. Len(r) \in Nat /\ DOMAIN r = 1..Len(r) /\ n + 1 \in Nat
    BY <1>1, <1>6, LenProperties
  <2> QED
    BY <1>6, <2>1, SameInterval
<1>14. Entered(q, blk, b, m + 1, r)
  <2>1. m + 1 \in 1..(n + 1) /\ \A i \in 1..n : i < m + 1 <=> i <= m
    BY <1>1, <1>4
  <2>2. blk[b].size \in Int
    OBVIOUS
  <2>3. \A i \in 1..n : i < m + 1 <=> blk[q[i]].size < blk[b].size
    BY <1>2, <1>5, <2>1, <2>2
  <2>4. Inserted(q, m + 1, b, r)
    BY <1>6, <1>13 DEF Inserted, n
  <2> QED
    BY <2>1, <2>3, <2>4 DEF Entered, n
<1>15. r = InsertAt(q, Cardinality({i \in DOMAIN q : blk[q[i]].size < blk[b].size}) + 1, b)
  BY <1>4 DEF r, below
<1> QED
  BY <1>12, <1>14, <1>15

LEMMA NodeAdded ==
  ASSUME NEW h, IsHeap(h), NEW S, Listing(h.free, S, h.blk), NEW b \in Nat, b \notin S,
         \A c \in S \cup {b} : Size(h, c) \in Int
  PROVE  /\ IsHeap(node_add(h, b))
         /\ node_add(h, b).blk = h.blk /\ node_add(h, b).brk = h.brk
         /\ Listing(node_add(h, b).free, S \cup {b}, h.blk)
         /\ \E pos : Entered(h.free, h.blk, b, pos, node_add(h, b).free)
<1>1. PICK q, pos :
        /\ q = InsertAt(h.free, Cardinality({i \in DOMAIN h.free : h.blk[h.free[i]].size < h.blk[b].size}) + 1, b)
        /\ Listing(q, S \cup {b}, h.blk) /\ Entered(h.free, h.blk, b, pos, q)
  BY InsertListed DEF Size
<1>2. node_add(h, b) = [h EXCEPT !.free = q]
  BY <1>1 DEF node_add, Size
<1>3. [h EXCEPT !.free = q] = [blk |-> h.blk, free |-> q, brk |-> h.brk]
  BY DEF IsHeap
<1>4. IsHeap(node_add(h, b)) /\ node_add(h, b).free = q /\ node_add(h, b).blk = h.blk /\ node_add(h, b).brk = h.brk
  BY <1>2, <1>3 DEF IsHeap
<1> QED
  BY <1>1, <1>4

LEMMA NodeRemoved ==
  ASSUME NEW h, IsHeap(h), NEW S, Listing(h.free, S, h.blk), NEW b \in S
  PROVE  /\ IsHeap(node_remove(h, b))
         /\ node_remove(h, b).blk = h.blk /\ node_remove(h, b).brk = h.brk
         /\ Listing(node_remove(h, b).free, S \ {b}, h.blk)
         /\ \E pos : h.free[pos] = b /\ Removed(h.free, pos, node_remove(h, b).free)
<1> DEFINE k == CHOOSE i \in DOMAIN h.free : h.free[i] = b
           q == RemoveAt(h.free, k)
<1>1. k \in DOMAIN h.free /\ h.free[k] = b
  <2>1. \E i \in DOMAIN h.free : h.free[i] = b
    BY ListingShape
  <2> QED
    BY <2>1
<1>2. node_remove(h, b) = [h EXCEPT !.free = q]
  BY DEF node_remove
<1> HIDE DEF k
<1>3. Listing(q, S \ {b}, h.blk) /\ Removed(h.free, k, q)
  BY <1>1, RemoveListed
<1> HIDE DEF q
<1>4. [h EXCEPT !.free = q] = [blk |-> h.blk, free |-> q, brk |-> h.brk]
  BY DEF IsHeap
<1>5. IsHeap(node_remove(h, b)) /\ node_remove(h, b).free = q /\ node_remove(h, b).blk = h.blk /\ node_remove(h, b).brk = h.brk
  BY <1>2, <1>4 DEF IsHeap
<1> QED
  BY <1>1, <1>3, <1>5

LEMMA NeighborDropped ==
  ASSUME NEW h, IsHeap(h), NEW S, Listing(h.free, S, h.blk), NEW B \in SUBSET S,
         \A c, d \in B : c = d
  PROVE  /\ IsHeap(Drop(h, B))
         /\ Drop(h, B).blk = h.blk /\ Drop(h, B).brk = h.brk
         /\ Listing(Drop(h, B).free, S \ B, h.blk)
<1>1. CASE B = {}
  BY <1>1 DEF Drop
<1>2. CASE B # {}
  <2>1. PICK c \in B : B = {c} /\ (CHOOSE x \in B : TRUE) = c
    BY <1>2
  <2>2. Drop(h, B) = node_remove(h, c)
    BY <1>2, <2>1 DEF Drop
  <2> QED
    BY <2>1, <2>2, NodeRemoved
<1> QED
  BY <1>1, <1>2

-----------------------------------------------------------------------------
(* Merging                                                                 *)

LEMMA SameTiles ==
  ASSUME NEW h, NEW g, Tiles(h), g.blk = h.blk, g.brk = h.brk
  PROVE  /\ Tiles(g) /\ FreeBlocks(g) = FreeBlocks(h) /\ Taken(g) = Taken(h)
         /\ \A b : Size(g, b) = Size(h, b) /\ End(g, b) = End(h, b)
BY DEF Tiles, FreeBlocks, Taken, Size, End

\* What Tiles says of one block, and of two.
LEMMA BlockShape ==
  ASSUME NEW h, Tiles(h), NEW b \in DOMAIN h.blk
  PROVE  /\ b \in Nat /\ b >= FirstBlock /\ Aligned(b)
         /\ Size(h, b) \in Nat /\ Aligned(Size(h, b)) /\ Size(h, b) >= 32
         /\ End(h, b) = b + Size(h, b) /\ End(h, b) \in Nat /\ End(h, b) <= h.brk
         /\ End(h, b) \in DOMAIN h.blk \cup {h.brk}
         /\ h.blk[b] = [size |-> Size(h, b), alloc |-> h.blk[b].alloc]
         /\ h.blk[b].alloc \in BOOLEAN
         /\ \A c \in DOMAIN h.blk : b < c => End(h, b) <= c
<1>1. h.blk[b] \in [size : Nat, alloc : BOOLEAN] /\ b \in Nat
  BY DEF Tiles
<1>2. /\ b >= FirstBlock /\ Aligned(b)
      /\ Aligned(Size(h, b)) /\ Size(h, b) >= 2 * DSIZE
      /\ End(h, b) \in DOMAIN h.blk \cup {h.brk} /\ End(h, b) <= h.brk
      /\ \A c \in DOMAIN h.blk : b < c => End(h, b) <= c
  BY DEF Tiles
<1>3. /\ Size(h, b) \in Nat /\ End(h, b) = b + Size(h, b)
      /\ h.blk[b] = [size |-> Size(h, b), alloc |-> h.blk[b].alloc] /\ h.blk[b].alloc \in BOOLEAN
  BY <1>1 DEF Size, End
<1> QED
  BY <1>1, <1>2, <1>3

LEMMA FreeOrTaken ==
  ASSUME NEW h, Tiles(h)
  PROVE  /\ FreeBlocks(h) \cup Taken(h) = DOMAIN h.blk
         /\ FreeBlocks(h) \cap Taken(h) = {}
BY DEF FreeBlocks, Taken

LEMMA Extent ==
  /\ HeapMemory \in Nat \ {0} /\ Aligned(HeapMemory)
  /\ HeapMemorySize \in Nat /\ Aligned(HeapMemorySize)
  /\ CHUNKSIZE \in Nat /\ Aligned(CHUNKSIZE) /\ CHUNKSIZE > 32
  /\ HeapMemoryEnd \in Nat /\ HeapMemoryEnd = HeapMemory + HeapMemorySize
  /\ FirstBlock \in Nat /\ FirstBlock = HeapMemory + 32
  /\ FirstBlock + CHUNKSIZE <= HeapMemoryEnd
<1>1. /\ HeapMemory \in Nat \ {0} /\ HeapMemory % 16 = 0
      /\ HeapMemorySize \in Nat /\ HeapMemorySize % 16 = 0
      /\ CHUNKSIZE \in Nat /\ CHUNKSIZE % 16 = 0
  BY BlockHeapAssumption
<1>2. CHUNKSIZE > 2 * 16 /\ HeapMemorySize >= CHUNKSIZE + 2 * 16
  BY BlockHeapAssumption
<1> QED
  BY <1>1, <1>2 DEF HeapMemoryEnd, FirstBlock, Aligned

LEMMA HeapStart == FirstBlock \in Nat /\ FirstBlock = HeapMemory + 32 /\ Aligned(FirstBlock)
<1>1. HeapMemory \in Nat /\ HeapMemory % 16 = 0
  BY BlockHeapAssumption
<1> QED
  BY <1>1 DEF FirstBlock, Aligned

\* Every block but the first starts where another ends.
LEMMA Preceded ==
  ASSUME NEW h, Tiles(h), NEW b \in DOMAIN h.blk \cup {h.brk}, b # FirstBlock
  PROVE  \E c \in DOMAIN h.blk : c < b /\ End(h, c) = b
<1>1. h.brk \in Nat /\ DOMAIN h.blk \subseteq Nat /\ FirstBlock \in Nat
  BY HeapStart DEF Tiles
<1>2. \A c \in DOMAIN h.blk :
        /\ c >= FirstBlock /\ c < End(h, c) /\ End(h, c) \in Nat /\ End(h, c) <= h.brk
        /\ End(h, c) \in DOMAIN h.blk \cup {h.brk}
        /\ \A d \in DOMAIN h.blk : c < d => End(h, c) <= d
  <2> SUFFICES ASSUME NEW c \in DOMAIN h.blk
               PROVE  /\ c >= FirstBlock /\ c < End(h, c) /\ End(h, c) \in Nat /\ End(h, c) <= h.brk
                      /\ End(h, c) \in DOMAIN h.blk \cup {h.brk}
                      /\ \A d \in DOMAIN h.blk : c < d => End(h, c) <= d
    OBVIOUS
  <2>1. /\ c \in Nat /\ c >= FirstBlock /\ Size(h, c) \in Nat /\ Size(h, c) >= 32
        /\ End(h, c) = c + Size(h, c) /\ End(h, c) \in Nat /\ End(h, c) <= h.brk
        /\ End(h, c) \in DOMAIN h.blk \cup {h.brk}
        /\ \A d \in DOMAIN h.blk : c < d => End(h, c) <= d
    BY BlockShape
  <2> QED
    BY <2>1
<1>3. FirstBlock \in DOMAIN h.blk /\ FirstBlock < b /\ b \in Nat /\ b <= h.brk
  <2>1. FirstBlock \in DOMAIN h.blk \cup {h.brk}
    BY DEF Tiles
  <2>2. CASE b \in DOMAIN h.blk
    <3>1. b \in Nat /\ b >= FirstBlock /\ b < h.brk
      BY <1>1, <1>2, <2>2
    <3> QED
      BY <1>1, <2>1, <3>1
  <2>3. CASE b = h.brk
    <3>1. FirstBlock \in DOMAIN h.blk
      BY <2>1, <2>3
    <3> QED
      BY <1>1, <1>2, <2>3, <3>1
  <2> QED
    BY <2>2, <2>3
<1> DEFINE T == {k \in Nat : b - k \in DOMAIN h.blk /\ b - k < b}
<1>4. PICK k \in T : \A j \in T : k <= j
  <2>1. b - FirstBlock \in T
    <3>1. b - FirstBlock \in Nat /\ b - (b - FirstBlock) = FirstBlock
      BY <1>1, <1>3
    <3> QED
      BY <1>3, <3>1
  <2>2. T \in SUBSET Nat
    OBVIOUS
  <2> HIDE DEF T
  <2> QED
    BY <2>1, <2>2, LeastElement
<1> DEFINE c == b - k
<1>5. c \in DOMAIN h.blk /\ c < b /\ k \in Nat /\ c \in Nat
  BY <1>1, <1>4
<1>6. End(h, c) = b
  <2> SUFFICES ASSUME End(h, c) # b PROVE FALSE
    OBVIOUS
  <2> DEFINE e == End(h, c)
  <2>1. e \in Nat /\ c < e /\ e < b /\ e \in DOMAIN h.blk
    <3>1. CASE b = h.brk
      BY <1>2, <1>5, <3>1, <1>3
    <3>2. CASE b # h.brk
      <4>1. b \in DOMAIN h.blk
        BY <3>2
      <4> HIDE DEF c
      <4>2. e <= b /\ e \in Nat /\ c < e /\ e \in DOMAIN h.blk \cup {h.brk}
        BY <1>2, <1>5, <4>1
      <4>3. b < h.brk
        BY <1>1, <1>3, <3>2
      <4> QED
        BY <1>1, <1>3, <4>2, <4>3
    <3> QED
      BY <3>1, <3>2
  <2> HIDE DEF e
  <2>2. b - e \in Nat /\ b - (b - e) = e /\ ~(k <= b - e)
    BY <1>3, <1>5, <2>1
  <2>3. b - e \in T
    BY <2>1, <2>2
  <2> HIDE DEF T
  <2> QED
    BY <1>4, <2>2, <2>3
<1> QED
  BY <1>5, <1>6

\* g is h with the free blocks near, from lo to hi, made one.
OneBlock(h, near, lo, hi, g) ==
  /\ IsHeap(g) /\ Tiles(g) /\ g.brk = h.brk
  /\ Size(g, lo) = End(h, hi) - lo /\ Size(g, lo) \in Nat
  /\ DOMAIN g.blk = (DOMAIN h.blk \ near) \cup {lo}
  /\ \A c \in DOMAIN h.blk \ near : g.blk[c] = h.blk[c]
  /\ FreeBlocks(g) = (FreeBlocks(h) \ near) \cup {lo}
  /\ Taken(g) = Taken(h)
  /\ Listing(g.free, FreeBlocks(h) \ near, g.blk)

LEMMA RunMerged ==
  ASSUME NEW h, IsHeap(h), Tiles(h), NEW near, near \subseteq FreeBlocks(h),
         NEW lo \in near, NEW hi \in near,
         \A c \in near : lo <= c /\ c <= hi,
         \A c \in DOMAIN h.blk : lo <= c /\ c <= hi => c \in near,
         Listing(h.free, FreeBlocks(h) \ near, h.blk),
         NEW g, g = Merged(h, near)
  PROVE  OneBlock(h, near, lo, hi, g) /\ g.free = h.free
<1> DEFINE blk == [b \in (DOMAIN h.blk \ near) \cup {lo} |->
                     IF b = lo THEN [size |-> End(h, hi) - lo, alloc |-> FALSE] ELSE h.blk[b]]
<1>1. /\ near \subseteq DOMAIN h.blk /\ near \subseteq Int
      /\ \A c \in near : h.blk[c].alloc = FALSE
  <2>1. near \subseteq DOMAIN h.blk /\ \A c \in near : ~h.blk[c].alloc
    BY DEF FreeBlocks
  <2>2. \A c \in near : c \in Nat /\ h.blk[c].alloc \in BOOLEAN
    BY <2>1, BlockShape
  <2> QED
    BY <2>1, <2>2
<1>2. Min(near) = lo /\ Max(near) = hi
  <2>1. \A y \in near : lo <= y /\ hi >= y
    BY <1>1
  <2> QED
    BY <1>1, <2>1, MinIs, MaxIs
<1>3. g = [blk |-> blk, free |-> h.free, brk |-> h.brk]
  <2>1. g = [h EXCEPT !.blk = blk]
    BY <1>2 DEF Merged
  <2> HIDE DEF blk
  <2> QED
    BY <2>1 DEF IsHeap
<1>4. IsHeap(g) /\ g.brk = h.brk /\ g.free = h.free /\ g.blk = blk
  BY <1>3 DEF IsHeap
<1>5. /\ lo \in Nat /\ hi \in Nat /\ lo <= hi /\ Aligned(lo) /\ lo >= FirstBlock
      /\ End(h, hi) \in Nat /\ End(h, hi) >= hi + 32 /\ Aligned(End(h, hi))
      /\ End(h, hi) <= h.brk /\ End(h, hi) \in (DOMAIN h.blk \cup {h.brk}) \ near
      /\ \A c \in DOMAIN h.blk : hi < c => End(h, hi) <= c
  <2>1. lo \in DOMAIN h.blk /\ hi \in DOMAIN h.blk
    BY <1>1
  <2>2. End(h, hi) \in Nat /\ End(h, hi) >= hi + 32 /\ Aligned(End(h, hi))
    <3>1. /\ hi \in Nat /\ Size(h, hi) \in Nat /\ Size(h, hi) >= 32 /\ End(h, hi) = hi + Size(h, hi)
          /\ Aligned(hi) /\ Aligned(Size(h, hi))
      BY <2>1, BlockShape
    <3>2. Aligned(hi + Size(h, hi))
      BY <3>1, AlignedSums
    <3> QED
      BY <3>1, <3>2
  <2>3. hi \in Nat /\ End(h, hi) \notin near
    <3>1. hi \in Nat
      BY <2>1, BlockShape
    <3> QED
      BY <2>2, <3>1
  <2> QED
    BY <2>1, <2>2, <2>3, BlockShape
<1>6. /\ DOMAIN g.blk = (DOMAIN h.blk \ near) \cup {lo}
      /\ g.blk[lo] = [size |-> End(h, hi) - lo, alloc |-> FALSE]
      /\ \A c \in DOMAIN h.blk \ near : g.blk[c] = h.blk[c]
  BY <1>4
<1> HIDE DEF blk
<1>7. Size(g, lo) = End(h, hi) - lo /\ Size(g, lo) \in Nat /\ End(g, lo) = End(h, hi) /\ Size(g, lo) >= 32
  <2>1. g.blk[lo].size = End(h, hi) - lo
    BY <1>6
  <2>2. Size(g, lo) = End(h, hi) - lo /\ End(g, lo) = lo + (End(h, hi) - lo)
    BY <2>1 DEF Size, End
  <2> QED
    BY <1>5, <2>2
<1>8. \A c \in DOMAIN h.blk \ near : Size(g, c) = Size(h, c) /\ End(g, c) = End(h, c)
  BY <1>6 DEF Size, End
<1>9. Tiles(g)
  <2>1. g.blk \in [DOMAIN g.blk -> [size : Nat, alloc : BOOLEAN]]
    <3>1. g.blk[lo] \in [size : Nat, alloc : BOOLEAN]
      BY <1>6, <1>7
    <3>2. \A c \in DOMAIN h.blk \ near : g.blk[c] \in [size : Nat, alloc : BOOLEAN]
      BY <1>6 DEF Tiles
    <3>3. g.blk = [c \in DOMAIN g.blk |-> g.blk[c]]
      BY <1>4 DEF blk
    <3> QED
      BY <1>6, <3>1, <3>2, <3>3
  <2>2. DOMAIN g.blk \subseteq Nat /\ g.brk \in Nat /\ Aligned(g.brk)
    BY <1>4, <1>5, <1>6 DEF Tiles
  <2>3. FirstBlock \in DOMAIN g.blk \cup {g.brk}
    <3>1. FirstBlock \in near => FirstBlock = lo
      BY <1>5, HeapStart
    <3>2. FirstBlock \in DOMAIN h.blk \cup {h.brk}
      BY DEF Tiles
    <3> QED
      BY <1>4, <1>6, <3>1, <3>2
  <2>4. ASSUME NEW b \in DOMAIN g.blk
        PROVE  /\ b >= FirstBlock /\ Aligned(b)
               /\ Aligned(Size(g, b)) /\ Size(g, b) >= 2 * DSIZE
               /\ End(g, b) \in DOMAIN g.blk \cup {g.brk} /\ End(g, b) <= g.brk
    <3>1. CASE b = lo
      <4>1. Aligned(Size(g, lo))
        BY <1>5, <1>7, AlignedSums
      <4>2. End(g, lo) \in DOMAIN g.blk \cup {g.brk}
        BY <1>4, <1>5, <1>6, <1>7
      <4> QED
        BY <1>4, <1>5, <1>7, <3>1, <4>1, <4>2
    <3>2. CASE b \in DOMAIN h.blk \ near
      <4>1. /\ b \in Nat /\ b >= FirstBlock /\ Aligned(b)
            /\ Aligned(Size(h, b)) /\ Size(h, b) >= 32 /\ Size(h, b) \in Nat
            /\ End(h, b) \in DOMAIN h.blk \cup {h.brk} /\ End(h, b) <= h.brk
            /\ End(h, b) = b + Size(h, b)
            /\ \A c \in DOMAIN h.blk : b < c => End(h, b) <= c
        BY <3>2, BlockShape
      <4>2. End(h, b) \in near => End(h, b) = lo
        <5> HAVE End(h, b) \in near
        <5>1. lo <= End(h, b) /\ End(h, b) <= hi /\ ~(lo <= b /\ b <= hi)
          BY <3>2
        <5>2. b < lo
          BY <1>5, <4>1, <5>1
        <5>3. End(h, b) <= lo
          BY <1>1, <4>1, <5>2
        <5> QED
          BY <1>5, <4>1, <5>1, <5>3
      <4> QED
        BY <1>4, <1>6, <1>8, <3>2, <4>1, <4>2
    <3> QED
      BY <1>6, <3>1, <3>2
  <2>5. ASSUME NEW b \in DOMAIN g.blk, NEW c \in DOMAIN g.blk, b < c
        PROVE  End(g, b) <= c
    <3>1. CASE b = lo
      <4>1. c \in DOMAIN h.blk \ near /\ c \in Nat
        BY <1>5, <1>6, <2>2, <2>5, <3>1
      <4>2. hi < c
        BY <1>5, <2>5, <3>1, <4>1
      <4> QED
        BY <1>5, <1>7, <3>1, <4>1, <4>2
    <3>2. CASE b \in DOMAIN h.blk \ near
      <4>1. c \in DOMAIN h.blk
        BY <1>1, <1>6
      <4>2. End(h, b) <= c
        BY <2>5, <3>2, <4>1, BlockShape
      <4> QED
        BY <1>8, <3>2, <4>2
    <3> QED
      BY <1>6, <3>1, <3>2
  <2> QED
    BY <2>1, <2>2, <2>3, <2>4, <2>5 DEF Tiles
<1>10. FreeBlocks(g) = (FreeBlocks(h) \ near) \cup {lo} /\ Taken(g) = Taken(h)
  <2>1. g.blk[lo].alloc = FALSE
    BY <1>6
  <2> QED
    BY <1>1, <1>6, <2>1 DEF FreeBlocks, Taken
<1>11. Listing(g.free, FreeBlocks(h) \ near, g.blk)
  <2>1. \A c \in FreeBlocks(h) \ near : g.blk[c].size = h.blk[c].size
    BY <1>6 DEF FreeBlocks
  <2> QED
    BY <1>4, <2>1, ListingSame
<1> QED
  BY <1>4, <1>6, <1>7, <1>9, <1>10, <1>11 DEF OneBlock

\* A block that is in no list enters its list.
LEMMA LooseListed ==
  ASSUME NEW w, NEW b, Loose(w, b), NEW g, g = node_add(w, b)
  PROVE  /\ Tiled(g) /\ g.blk = w.blk /\ g.brk = w.brk
         /\ FreeBlocks(g) = FreeBlocks(w) /\ Taken(g) = Taken(w)
         /\ \A c : Size(g, c) = Size(w, c) /\ End(g, c) = End(w, c)
         /\ \E pos : Entered(w.free, w.blk, b, pos, g.free)
<1>1. IsHeap(w) /\ Tiles(w) /\ b \in FreeBlocks(w) /\ Listing(w.free, FreeBlocks(w) \ {b}, w.blk)
  BY DEF Loose
<1>2. \A c \in FreeBlocks(w) : c \in Nat /\ Size(w, c) \in Int
  <2> SUFFICES ASSUME NEW c \in FreeBlocks(w) PROVE c \in Nat /\ Size(w, c) \in Nat
    OBVIOUS
  <2>1. c \in DOMAIN w.blk
    BY DEF FreeBlocks
  <2> QED
    BY <1>1, <2>1, BlockShape
<1>3. (FreeBlocks(w) \ {b}) \cup {b} = FreeBlocks(w)
  BY <1>1
<1>4. /\ IsHeap(g) /\ g.blk = w.blk /\ g.brk = w.brk
      /\ Listing(g.free, FreeBlocks(w), w.blk)
      /\ \E pos : Entered(w.free, w.blk, b, pos, g.free)
  <2> DEFINE S == FreeBlocks(w) \ {b}
  <2>1. b \in Nat /\ b \notin S /\ (\A c \in S \cup {b} : Size(w, c) \in Int) /\ Listing(w.free, S, w.blk)
    BY <1>1, <1>2
  <2>2. S \cup {b} = FreeBlocks(w)
    BY <1>3
  <2> HIDE DEF S
  <2>3. /\ IsHeap(node_add(w, b))
        /\ node_add(w, b).blk = w.blk /\ node_add(w, b).brk = w.brk
        /\ Listing(node_add(w, b).free, S \cup {b}, w.blk)
        /\ \E pos : Entered(w.free, w.blk, b, pos, node_add(w, b).free)
    BY <1>1, <2>1, NodeAdded
  <2> QED
    BY <2>2, <2>3
<1>5. /\ Tiles(g) /\ FreeBlocks(g) = FreeBlocks(w) /\ Taken(g) = Taken(w)
      /\ \A c : Size(g, c) = Size(w, c) /\ End(g, c) = End(w, c)
  BY <1>1, <1>4, SameTiles
<1> QED
  BY <1>4, <1>5 DEF Tiled

\* What coalesce does to b when the free blocks near it are not only b: they are
\* taken off their lists, which leaves r, and made one in m.
Joint(h, b, near, lo, hi, r, m) ==
  /\ near = {b} \cup Before(h, b) \cup After(h, b) /\ near \subseteq FreeBlocks(h)
  /\ lo \in near /\ hi \in near /\ \A c \in near : lo <= c /\ c <= hi
  /\ Before(h, b) = (IF lo = b THEN {} ELSE {lo}) /\ (lo # b => End(h, lo) = b)
  /\ After(h, b) = (IF hi = b THEN {} ELSE {hi}) /\ (hi # b => End(h, b) = hi)
  /\ r = Drop(Drop(node_remove(h, b), Before(h, b)), After(h, b))
  /\ r.blk = h.blk /\ r.brk = h.brk /\ m.free = r.free
  /\ OneBlock(h, near, lo, hi, m) /\ Loose(m, lo)
  /\ coalesce(h, b) = node_add(m, lo)

LEMMA Joining ==
  ASSUME NEW h, Tiled(h), NEW b \in FreeBlocks(h),
         {b} \cup Before(h, b) \cup After(h, b) # {b}
  PROVE  \E near, lo, hi, r, m : Joint(h, b, near, lo, hi, r, m)
<1> DEFINE B == Before(h, b)
           A == After(h, b)
           near == {b} \cup B \cup A
           F == FreeBlocks(h)
<1>1. IsHeap(h) /\ Tiles(h) /\ Listing(h.free, F, h.blk)
  BY DEF Tiled
<1>2. \A c \in F :
        /\ c \in DOMAIN h.blk /\ c \in Nat /\ Size(h, c) \in Nat /\ Size(h, c) >= 32
        /\ End(h, c) = c + Size(h, c) /\ End(h, c) \in Nat
        /\ \A d \in DOMAIN h.blk : d \in Nat /\ (c < d => End(h, c) <= d)
  <2> SUFFICES ASSUME NEW c \in F, NEW d \in DOMAIN h.blk
               PROVE  /\ c \in DOMAIN h.blk /\ c \in Nat /\ Size(h, c) \in Nat /\ Size(h, c) >= 32
                      /\ End(h, c) = c + Size(h, c) /\ End(h, c) \in Nat
                      /\ d \in Nat /\ (c < d => End(h, c) <= d)
    BY DEF FreeBlocks
  <2>1. c \in DOMAIN h.blk
    BY DEF FreeBlocks
  <2> QED
    BY <1>1, <2>1, BlockShape
<1>3. /\ B \subseteq F /\ A \subseteq F
      /\ \A c \in B : End(h, c) = b /\ c < b
      /\ \A c \in A : End(h, b) = c /\ b < c
      /\ (B = {} => \A c \in F : End(h, c) # b)
      /\ (A = {} => End(h, b) \notin F)
  <2>1. /\ B \subseteq F /\ A \subseteq F
        /\ \A c \in B : End(h, c) = b
        /\ \A c \in A : c = End(h, b)
        /\ (B = {} => \A c \in F : End(h, c) # b)
        /\ (A = {} => End(h, b) \notin F)
    BY DEF Before, After
  <2>2. b \in F
    OBVIOUS
  <2> HIDE DEF A, B, F
  <2>3. \A c \in B : c < b
    BY <1>2, <2>1, <2>2
  <2>4. b < End(h, b)
    BY <1>2, <2>2
  <2> QED
    BY <2>1, <2>3, <2>4
<1>4. b \in F
  OBVIOUS
<1> HIDE DEF A, B, F
<1>5. (\A c, d \in B : c = d) /\ (\A c, d \in A : c = d)
  <2>1. \A c, d \in B : ~(c < d)
    BY <1>2, <1>3
  <2> QED
    BY <1>2, <1>3, <2>1
<1>6. near # {b}
  BY DEF A, B
<1>11. PICK lo \in near : (B = {} /\ lo = b) \/ lo \in B
  OBVIOUS
<1>12. PICK hi \in near : (A = {} /\ hi = b) \/ hi \in A
  OBVIOUS
<1>13. near \subseteq F /\ b \in near
  BY <1>3, <1>4
<1>14. \A c \in near : lo <= c /\ c <= hi
  <2>1. lo <= b /\ b <= hi /\ lo \in Nat /\ hi \in Nat /\ b \in Nat
    BY <1>2, <1>3, <1>4, <1>11, <1>12
  <2>2. \A c \in B : c = lo
    BY <1>5, <1>11
  <2>3. \A c \in A : c = hi
    BY <1>5, <1>12
  <2> QED
    BY <2>1, <2>2, <2>3
<1>15. \A c \in DOMAIN h.blk : lo <= c /\ c <= hi => c \in near
  <2> SUFFICES ASSUME NEW c \in DOMAIN h.blk, lo <= c, c <= hi, c \notin near PROVE FALSE
    OBVIOUS
  <2>1. c \in Nat /\ c # b /\ c # lo /\ c # hi /\ lo \in F /\ hi \in F
    BY <1>2, <1>4, <1>13
  <2>2. CASE c < b
    <3>1. lo \in B /\ lo < c
      BY <1>2, <1>4, <1>11, <2>1, <2>2
    <3>2. b <= c
      BY <1>2, <1>3, <2>1, <3>1
    <3> QED
      BY <1>2, <1>4, <2>1, <2>2, <3>2
  <2>3. CASE b < c
    <3>1. hi \in A /\ c < hi
      BY <1>2, <1>4, <1>12, <2>1, <2>3
    <3>2. hi <= c
      BY <1>2, <1>3, <1>4, <2>3, <3>1
    <3> QED
      BY <1>2, <2>1, <3>1, <3>2
  <2> QED
    BY <1>2, <1>4, <2>1, <2>2, <2>3
<1> DEFINE h1 == node_remove(h, b)
           h2 == Drop(h1, B)
           h3 == Drop(h2, A)
           m == Merged(h3, near)
<1>16. IsHeap(h3) /\ h3.blk = h.blk /\ h3.brk = h.brk /\ Listing(h3.free, F \ near, h.blk)
  <2>1. IsHeap(h1) /\ h1.blk = h.blk /\ h1.brk = h.brk /\ Listing(h1.free, F \ {b}, h.blk)
    BY <1>1, <1>4, NodeRemoved
  <2> HIDE DEF h1
  <2>2. B \subseteq F \ {b} /\ A \subseteq (F \ {b}) \ B
    BY <1>2, <1>3, <1>4
  <2>3. Listing(h1.free, F \ {b}, h1.blk)
    BY <2>1
  <2>4. IsHeap(h2) /\ h2.blk = h1.blk /\ h2.brk = h1.brk /\ Listing(h2.free, (F \ {b}) \ B, h1.blk)
    BY <1>5, <2>1, <2>2, <2>3, NeighborDropped
  <2> HIDE DEF h2
  <2>5. Listing(h2.free, (F \ {b}) \ B, h2.blk)
    BY <2>4
  <2>6. IsHeap(h3) /\ h3.blk = h2.blk /\ h3.brk = h2.brk /\ Listing(h3.free, ((F \ {b}) \ B) \ A, h2.blk)
    BY <1>5, <2>2, <2>4, <2>5, NeighborDropped
  <2>7. ((F \ {b}) \ B) \ A = F \ near
    OBVIOUS
  <2> QED
    BY <2>1, <2>4, <2>6, <2>7
<1> HIDE DEF h3
<1>17. /\ Tiles(h3) /\ FreeBlocks(h3) = F /\ Taken(h3) = Taken(h)
      /\ \A c : Size(h3, c) = Size(h, c) /\ End(h3, c) = End(h, c)
  BY <1>1, <1>16, SameTiles DEF F
<1> HIDE DEF near
<1>18. OneBlock(h, near, lo, hi, m) /\ m.free = h3.free
  <2>1. near \in SUBSET FreeBlocks(h3) /\ Listing(h3.free, FreeBlocks(h3) \ near, h3.blk)
    BY <1>13, <1>16, <1>17
  <2>2. \A c \in DOMAIN h3.blk : lo <= c /\ c <= hi => c \in near
    BY <1>15, <1>16
  <2>0. m = Merged(h3, near)
    OBVIOUS
  <2> HIDE DEF m
  <2>3. /\ IsHeap(h3) /\ Tiles(h3) /\ near \subseteq FreeBlocks(h3) /\ lo \in near /\ hi \in near
        /\ \A c \in near : lo <= c /\ c <= hi
        /\ \A c \in DOMAIN h3.blk : lo <= c /\ c <= hi => c \in near
        /\ Listing(h3.free, FreeBlocks(h3) \ near, h3.blk)
    BY <1>14, <1>16, <1>17, <2>1, <2>2
  <2>4. OneBlock(h3, near, lo, hi, m) /\ m.free = h3.free
    BY <2>0, <2>3, RunMerged
  <2> QED
    BY <1>16, <1>17, <2>4 DEF OneBlock, F
<1>19. coalesce(h, b) = node_add(m, lo)
  <2>1. Min(near) = lo
    <3>1. near \subseteq Int /\ \A c \in near : lo <= c
      BY <1>2, <1>13, <1>14
    <3> QED
      BY <3>1, MinIs
  <2>2. coalesce(h, b) = node_add(Merged(Drop(Drop(node_remove(h, b), B), A), near), Min(near))
    BY <1>6 DEF coalesce, near, A, B
  <2> QED
    BY <2>1, <2>2 DEF h3
<1> HIDE DEF m
<1>20. lo \in F /\ hi \in F /\ lo \in Nat /\ hi \in Nat /\ b \in Nat
  BY <1>2, <1>4, <1>13
<1>21. /\ B = (IF lo = b THEN {} ELSE {lo}) /\ (lo # b => End(h, lo) = b)
       /\ A = (IF hi = b THEN {} ELSE {hi}) /\ (hi # b => End(h, b) = hi)
  <2>1. b \notin B /\ b \notin A
    BY <1>2, <1>3, <1>20
  <2>2. /\ (lo = b => B = {}) /\ (lo # b => lo \in B)
        /\ (hi = b => A = {}) /\ (hi # b => hi \in A)
    BY <1>11, <1>12, <2>1
  <2> QED
    BY <1>3, <1>5, <2>2
<1>22. Loose(m, lo)
  <2>1. IsHeap(m) /\ Tiles(m) /\ lo \in FreeBlocks(m) /\ Listing(m.free, F \ near, m.blk)
    BY <1>18 DEF OneBlock, F
  <2>2. FreeBlocks(m) \ {lo} = F \ near
    BY <1>18 DEF OneBlock, F
  <2> QED
    BY <2>1, <2>2 DEF Loose
<1>23. h3 = Drop(Drop(node_remove(h, b), B), A) /\ near = {b} \cup B \cup A
  BY DEF h3, near
<1> HIDE DEF h1, h2
<1>24. near \subseteq F /\ near = {b} \cup Before(h, b) \cup After(h, b)
  BY <1>13, <1>23 DEF A, B
<1>25. Joint(h, b, near, lo, hi, h3, m)
  BY <1>14, <1>16, <1>18, <1>19, <1>21, <1>22, <1>23, <1>24 DEF Joint, A, B, F
<1> QED
  BY <1>25

\* coalesce leaves no two free neighbours, if only those of b could be.
LEMMA Coalesced ==
  ASSUME NEW h, Tiled(h), NEW b \in FreeBlocks(h), MergedBut(h, b),
         NEW g, g = coalesce(h, b)
  PROVE  /\ Sound(g) /\ g.brk = h.brk
         /\ Taken(g) = Taken(h) /\ \A c \in Taken(h) : g.blk[c] = h.blk[c]
         /\ \E c \in FreeBlocks(g) : Size(g, c) >= Size(h, b)
<1> DEFINE F == FreeBlocks(h)
<1>1. IsHeap(h) /\ Tiles(h)
  BY DEF Tiled
<1>2. \A c \in F :
        /\ c \in DOMAIN h.blk /\ c \in Nat /\ Size(h, c) \in Nat /\ Size(h, c) >= 32
        /\ End(h, c) = c + Size(h, c) /\ End(h, c) \in Nat
        /\ \A d \in DOMAIN h.blk : c < d => End(h, c) <= d
  <2>1. \A c \in F : c \in DOMAIN h.blk
    BY DEF FreeBlocks
  <2> QED
    BY <1>1, <2>1, BlockShape
<1>3. b \in F
  OBVIOUS
<1>4. CASE {b} \cup Before(h, b) \cup After(h, b) = {b}
  <2>1. g = h
    BY <1>4 DEF coalesce
  <2>2. \A c \in F : End(h, c) # b /\ End(h, b) \notin F
    <3>1. Before(h, b) \subseteq {b} /\ After(h, b) \subseteq {b}
      BY <1>4
    <3>2. End(h, b) # b
      BY <1>2, <1>3
    <3>3. \A c \in F : End(h, c) = b => c = b
      BY <3>1 DEF Before
    <3>4. End(h, b) \in F => End(h, b) = b
      BY <3>1 DEF After
    <3> QED
      BY <3>2, <3>3, <3>4
  <2>3. \A c \in F : End(h, c) \notin F
    BY <2>2 DEF MergedBut
  <2>4. Size(h, b) >= Size(h, b)
    BY <1>2, <1>3
  <2> QED
    BY <1>3, <2>1, <2>3, <2>4 DEF Sound
<1>5. CASE {b} \cup Before(h, b) \cup After(h, b) # {b}
  <2>1. PICK near, lo, hi, r, m : Joint(h, b, near, lo, hi, r, m)
    BY <1>5, Joining
  <2>2. /\ near \subseteq F /\ b \in near /\ lo \in near /\ hi \in near
        /\ \A c \in near : lo <= c /\ c <= hi
        /\ OneBlock(h, near, lo, hi, m) /\ Loose(m, lo) /\ g = node_add(m, lo)
    BY <2>1 DEF Joint
  <2>3. /\ Tiled(g) /\ g.blk = m.blk /\ g.brk = m.brk
        /\ FreeBlocks(g) = FreeBlocks(m) /\ Taken(g) = Taken(m)
        /\ \A c : Size(g, c) = Size(m, c) /\ End(g, c) = End(m, c)
    BY <2>2, LooseListed
  <2>4. /\ m.brk = h.brk /\ Taken(m) = Taken(h)
        /\ Size(m, lo) = End(h, hi) - lo /\ Size(m, lo) \in Nat
        /\ FreeBlocks(m) = (F \ near) \cup {lo}
        /\ \A c \in DOMAIN h.blk \ near : m.blk[c] = h.blk[c]
    BY <2>2 DEF OneBlock
  <2>5. /\ lo \in F /\ hi \in F /\ lo \in Nat /\ hi \in Nat /\ b \in Nat
        /\ lo <= hi /\ lo <= b /\ b <= hi
    BY <1>2, <2>2
  <2>6. \A c \in FreeBlocks(g) : End(g, c) \notin FreeBlocks(g)
    <3> SUFFICES ASSUME NEW c \in (F \ near) \cup {lo}, End(g, c) \in (F \ near) \cup {lo}
                 PROVE  FALSE
      BY <2>3, <2>4
    <3>2. CASE c = lo
      <4>1. End(g, lo) = End(h, hi)
        <5>1. End(g, lo) = lo + Size(g, lo)
          BY DEF End, Size
        <5> QED
          BY <1>2, <2>3, <2>4, <2>5, <5>1
      <4>2. End(h, hi) > hi /\ End(h, hi) \in F \ near
        BY <1>2, <2>5, <3>2, <4>1
      <4>3. hi = b \/ End(h, hi) = b
        BY <2>5, <4>2 DEF MergedBut
      <4>4. hi = b
        BY <1>2, <2>5, <4>2, <4>3
      <4>5. End(h, b) \notin F
        BY <1>3, <2>1, <4>2, <4>4 DEF Joint, After
      <4> QED
        BY <4>2, <4>4, <4>5
    <3>3. CASE c # lo
      <4>1. c \in F \ near /\ End(g, c) = End(h, c)
        <5>1. c \in F \ near /\ c \in DOMAIN h.blk \ near
          BY <1>2, <3>3
        <5> QED
          BY <2>3, <2>4, <5>1 DEF End
      <4>2. End(h, c) \in F /\ (End(h, c) = lo \/ End(h, c) \notin near)
        BY <2>5, <4>1
      <4>3. c = b \/ End(h, c) = b
        BY <4>1, <4>2 DEF MergedBut
      <4>4. End(h, c) = b /\ c # b
        BY <2>2, <4>1, <4>3
      <4>5. c \in Before(h, b) /\ Before(h, b) \subseteq near
        BY <2>1, <4>1, <4>4 DEF Before, Joint
      <4> QED
        BY <4>1, <4>5
    <3> QED
      BY <3>2, <3>3
  <2>7. \A c \in Taken(h) : g.blk[c] = h.blk[c]
    <3>1. \A c \in Taken(h) : c \in DOMAIN h.blk \ near
      BY <1>1, <2>2, FreeOrTaken
    <3> QED
      BY <2>3, <2>4, <3>1
  <2>8. lo \in FreeBlocks(g) /\ Size(g, lo) >= Size(h, b)
    <3>2. End(h, hi) >= End(h, b)
      <4>1. hi \in DOMAIN h.blk /\ (b = hi \/ b < hi)
        BY <1>2, <2>5
      <4> QED
        BY <1>2, <1>3, <2>5, <4>1
    <3> QED
      BY <1>2, <1>3, <2>3, <2>4, <2>5, <3>2
  <2> QED
    BY <2>3, <2>4, <2>6, <2>7, <2>8 DEF Sound
<1> QED
  BY <1>4, <1>5

-----------------------------------------------------------------------------
(* Extending, placing, freeing                                             *)

\* g is h with the tags of b written.
Written(h, b, size, alloc, g) ==
  /\ IsHeap(g) /\ g.free = h.free /\ g.brk = h.brk
  /\ DOMAIN g.blk = DOMAIN h.blk \cup {b}
  /\ g.blk = [c \in DOMAIN g.blk |-> g.blk[c]]
  /\ g.blk[b] = [size |-> size, alloc |-> alloc]
  /\ \A c \in DOMAIN h.blk \ {b} : g.blk[c] = h.blk[c]

LEMMA BlockWritten ==
  ASSUME NEW h, IsHeap(h), NEW b, NEW size, NEW alloc
  PROVE  Written(h, b, size, alloc, WithBlock(h, b, size, alloc))
<1> DEFINE g == WithBlock(h, b, size, alloc)
           blk == [c \in DOMAIN h.blk \cup {b} |->
                     IF c = b THEN [size |-> size, alloc |-> alloc] ELSE h.blk[c]]
<1>1. g = [h EXCEPT !.blk = blk]
  BY DEF WithBlock
<1>2. /\ DOMAIN blk = DOMAIN h.blk \cup {b} /\ blk = [c \in DOMAIN blk |-> blk[c]]
      /\ blk[b] = [size |-> size, alloc |-> alloc]
      /\ \A c \in DOMAIN h.blk \ {b} : blk[c] = h.blk[c]
  OBVIOUS
<1> HIDE DEF blk, g
<1>3. g = [blk |-> blk, free |-> h.free, brk |-> h.brk]
  BY <1>1 DEF IsHeap
<1>4. IsHeap(g) /\ g.free = h.free /\ g.brk = h.brk /\ g.blk = blk
  BY <1>3 DEF IsHeap
<1>5. Written(h, b, size, alloc, g)
  BY <1>2, <1>4 DEF Written
<1> QED
  BY <1>5 DEF g

\* Tiles looks at sizes and flags, whatever the flags are.
LEMMA Retagged ==
  ASSUME NEW h, Tiles(h), NEW g, g.brk = h.brk, DOMAIN g.blk = DOMAIN h.blk,
         g.blk = [c \in DOMAIN g.blk |-> g.blk[c]],
         \A c \in DOMAIN h.blk : \E alloc \in BOOLEAN :
           g.blk[c] = [size |-> Size(h, c), alloc |-> alloc]
  PROVE  Tiles(g)
<1>1. \A c \in DOMAIN h.blk : Size(g, c) = Size(h, c) /\ End(g, c) = End(h, c)
  <2> SUFFICES ASSUME NEW c \in DOMAIN h.blk PROVE Size(g, c) = Size(h, c) /\ End(g, c) = End(h, c)
    OBVIOUS
  <2>1. PICK alloc \in BOOLEAN : g.blk[c] = [size |-> Size(h, c), alloc |-> alloc]
    OBVIOUS
  <2>2. g.blk[c].size = Size(h, c)
    BY <2>1
  <2>3. Size(g, c) = Size(h, c)
    BY <2>2 DEF Size
  <2> QED
    BY <2>3 DEF End, Size
<1>2. g.blk \in [DOMAIN g.blk -> [size : Nat, alloc : BOOLEAN]]
  <2>1. \A c \in DOMAIN h.blk : Size(h, c) \in Nat
    BY BlockShape
  <2>2. \A c \in DOMAIN g.blk : g.blk[c] \in [size : Nat, alloc : BOOLEAN]
    <3> SUFFICES ASSUME NEW c \in DOMAIN h.blk PROVE g.blk[c] \in [size : Nat, alloc : BOOLEAN]
      OBVIOUS
    <3>1. PICK alloc \in BOOLEAN : g.blk[c] = [size |-> Size(h, c), alloc |-> alloc]
      OBVIOUS
    <3> QED
      BY <2>1, <3>1
  <2> QED
    BY <2>2
<1> QED
  BY <1>1, <1>2 DEF Tiles

\* w is h with size more bytes, which are a free block in no list.
Appended(h, size, w) ==
  /\ Loose(w, h.brk) /\ MergedBut(w, h.brk)
  /\ w.free = h.free /\ w.brk = h.brk + size /\ Size(w, h.brk) = size
  /\ h.brk \notin DOMAIN h.blk /\ DOMAIN w.blk = DOMAIN h.blk \cup {h.brk}
  /\ \A c \in DOMAIN h.blk : w.blk[c] = h.blk[c]
  /\ FreeBlocks(w) = FreeBlocks(h) \cup {h.brk} /\ Taken(w) = Taken(h)

LEMMA Appending ==
  ASSUME NEW h, Sound(h), h.brk >= FirstBlock,
         NEW size \in Nat, Aligned(size), size >= 32
  PROVE  \E w : /\ Appended(h, size, w)
                /\ extend_heap(h, size) = coalesce(node_add(w, h.brk), h.brk)
<1> DEFINE b == h.brk
           h0 == [h EXCEPT !.brk = @ + size]
           w == WithBlock(h0, b, size, FALSE)
<1>1. IsHeap(h) /\ Tiles(h) /\ Listing(h.free, FreeBlocks(h), h.blk)
  BY DEF Sound, Tiled
<1>2. /\ b \in Nat /\ Aligned(b) /\ b \notin DOMAIN h.blk /\ b >= FirstBlock
      /\ \A c \in DOMAIN h.blk : c \in Nat /\ c < b /\ End(h, c) <= b
  <2>1. b \in Nat /\ Aligned(b)
    BY <1>1 DEF Tiles
  <2>2. \A c \in DOMAIN h.blk : c \in Nat /\ c < b /\ End(h, c) <= b
    <3> SUFFICES ASSUME NEW c \in DOMAIN h.blk PROVE c \in Nat /\ c < b /\ End(h, c) <= b
      OBVIOUS
    <3>1. /\ c \in Nat /\ Size(h, c) \in Nat /\ Size(h, c) >= 32
          /\ End(h, c) = c + Size(h, c) /\ End(h, c) <= h.brk
      BY <1>1, BlockShape
    <3> QED
      BY <2>1, <3>1
  <2> QED
    BY <2>1, <2>2
<1>3. IsHeap(h0) /\ h0.blk = h.blk /\ h0.free = h.free /\ h0.brk = b + size
  <2>1. h0 = [blk |-> h.blk, free |-> h.free, brk |-> b + size]
    BY <1>1 DEF IsHeap
  <2> HIDE DEF h0
  <2> QED
    BY <2>1 DEF IsHeap
<1> HIDE DEF h0
<1>4. /\ IsHeap(w) /\ w.free = h.free /\ w.brk = b + size
      /\ DOMAIN w.blk = DOMAIN h.blk \cup {b}
      /\ w.blk = [c \in DOMAIN w.blk |-> w.blk[c]]
      /\ w.blk[b] = [size |-> size, alloc |-> FALSE]
      /\ \A c \in DOMAIN h.blk : w.blk[c] = h.blk[c]
  <2>1. Written(h0, b, size, FALSE, w)
    BY <1>3, BlockWritten
  <2> HIDE DEF w
  <2>2. DOMAIN h.blk \ {b} = DOMAIN h.blk
    BY <1>2
  <2> HIDE DEF b
  <2> QED
    BY <1>3, <2>1, <2>2 DEF Written
<1> HIDE DEF w
<1>5. /\ Size(w, b) = size /\ End(w, b) = b + size
      /\ \A c \in DOMAIN h.blk : Size(w, c) = Size(h, c) /\ End(w, c) = End(h, c)
  <2>1. w.blk[b].size = size
    BY <1>4
  <2> QED
    BY <1>4, <2>1 DEF Size, End
<1>6. Tiles(w)
  <2>1. w.blk \in [DOMAIN w.blk -> [size : Nat, alloc : BOOLEAN]]
    <3>1. w.blk[b] \in [size : Nat, alloc : BOOLEAN]
      BY <1>4
    <3>2. \A c \in DOMAIN h.blk : w.blk[c] \in [size : Nat, alloc : BOOLEAN]
      BY <1>1, <1>4 DEF Tiles
    <3> QED
      BY <1>4, <3>1, <3>2
  <2>2. DOMAIN w.blk \subseteq Nat /\ w.brk \in Nat /\ Aligned(w.brk)
    <3> HIDE DEF b
    <3>1. b + size \in Nat /\ Aligned(b + size)
      <4>1. b \in Nat /\ Aligned(b) /\ b \in Int /\ size \in Int
        BY <1>2
      <4> QED
        BY <4>1 DEF Aligned
    <3>2. DOMAIN w.blk \subseteq Nat
      BY <1>2, <1>4
    <3> QED
      BY <1>4, <3>1, <3>2
  <2>3. FirstBlock \in DOMAIN w.blk \cup {w.brk}
    BY <1>1, <1>4 DEF Tiles
  <2>4. ASSUME NEW c \in DOMAIN w.blk
        PROVE  /\ c >= FirstBlock /\ Aligned(c)
               /\ Aligned(Size(w, c)) /\ Size(w, c) >= 2 * DSIZE
               /\ End(w, c) \in DOMAIN w.blk \cup {w.brk} /\ End(w, c) <= w.brk
    <3>1. CASE c = b
      BY <1>2, <1>4, <1>5, <3>1
    <3>2. CASE c \in DOMAIN h.blk
      <4>1. /\ c >= FirstBlock /\ Aligned(c)
            /\ Aligned(Size(h, c)) /\ Size(h, c) >= 32
            /\ End(h, c) \in DOMAIN h.blk \cup {h.brk} /\ End(h, c) <= h.brk /\ End(h, c) \in Nat
        BY <1>1, <3>2, BlockShape
      <4> QED
        BY <1>2, <1>4, <1>5, <3>2, <4>1
    <3> QED
      BY <1>4, <3>1, <3>2
  <2>5. ASSUME NEW c \in DOMAIN w.blk, NEW d \in DOMAIN w.blk, c < d
        PROVE  End(w, c) <= d
    <3>1. c \in DOMAIN h.blk
      BY <1>2, <1>4, <2>5
    <3>2. CASE d = b
      BY <1>2, <1>5, <3>1, <3>2
    <3>3. CASE d \in DOMAIN h.blk
      <4>1. End(h, c) <= d
        BY <1>1, <2>5, <3>1, <3>3, BlockShape
      <4> QED
        BY <1>5, <3>1, <4>1
    <3> QED
      BY <1>4, <3>2, <3>3
  <2> QED
    BY <2>1, <2>2, <2>3, <2>4, <2>5 DEF Tiles
<1>7. FreeBlocks(w) = FreeBlocks(h) \cup {b} /\ Taken(w) = Taken(h)
  <2>1. w.blk[b].alloc = FALSE
    BY <1>4
  <2> QED
    BY <1>2, <1>4, <2>1 DEF FreeBlocks, Taken
<1>8. \A c \in FreeBlocks(h) : c \in DOMAIN h.blk
  BY DEF FreeBlocks
<1>9. Loose(w, b)
  <2>1. Listing(w.free, FreeBlocks(h), w.blk)
    BY <1>1, <1>4, <1>8, ListingSame
  <2>2. FreeBlocks(w) \ {b} = FreeBlocks(h)
    BY <1>2, <1>7, <1>8
  <2> QED
    BY <1>4, <1>6, <1>7, <2>1, <2>2 DEF Loose
<1>10. MergedBut(w, b)
  <2> SUFFICES ASSUME NEW c \in FreeBlocks(w), End(w, c) \in FreeBlocks(w), c # b, End(w, c) # b
               PROVE  FALSE
    BY DEF MergedBut
  <2>1. c \in FreeBlocks(h) /\ c \in DOMAIN h.blk
    BY <1>7, <1>8
  <2>2. End(h, c) \in FreeBlocks(h)
    BY <1>5, <1>7, <2>1
  <2> QED
    BY <2>1, <2>2 DEF Sound
<1>11. extend_heap(h, size) = coalesce(node_add(w, b), b)
  BY DEF extend_heap, w, h0
<1>12. Appended(h, size, w)
  BY <1>2, <1>4, <1>5, <1>7, <1>9, <1>10 DEF Appended
<1> QED
  BY <1>11, <1>12

\* The heap grows by a free block, which swallows a free one before it.
LEMMA Extended ==
  ASSUME NEW h, Sound(h), h.brk >= FirstBlock,
         NEW size \in Nat, Aligned(size), size >= 32,
         NEW g, g = extend_heap(h, size)
  PROVE  /\ Sound(g) /\ g.brk = h.brk + size
         /\ Taken(g) = Taken(h) /\ \A c \in Taken(h) : g.blk[c] = h.blk[c]
         /\ \E c \in FreeBlocks(g) : Size(g, c) >= size
<1>1. PICK w : Appended(h, size, w) /\ g = coalesce(node_add(w, h.brk), h.brk)
  BY Appending
<1>2. /\ Loose(w, h.brk) /\ MergedBut(w, h.brk)
      /\ w.brk = h.brk + size /\ Size(w, h.brk) = size
      /\ \A c \in DOMAIN h.blk : w.blk[c] = h.blk[c]
      /\ h.brk \in FreeBlocks(w) /\ Taken(w) = Taken(h)
  BY <1>1 DEF Appended
<1>3. PICK a : a = node_add(w, h.brk)
  OBVIOUS
<1>4. /\ Tiled(a) /\ a.blk = w.blk /\ a.brk = w.brk
      /\ FreeBlocks(a) = FreeBlocks(w) /\ Taken(a) = Taken(w)
      /\ \A c : Size(a, c) = Size(w, c) /\ End(a, c) = End(w, c)
  BY <1>2, <1>3, LooseListed
<1>5. MergedBut(a, h.brk)
  BY <1>2, <1>4 DEF MergedBut
<1>6. /\ Sound(g) /\ g.brk = a.brk
      /\ Taken(g) = Taken(a) /\ \A c \in Taken(a) : g.blk[c] = a.blk[c]
      /\ \E c \in FreeBlocks(g) : Size(g, c) >= Size(a, h.brk)
  BY <1>1, <1>2, <1>3, <1>4, <1>5, Coalesced
<1>7. \A c \in Taken(h) : c \in DOMAIN h.blk
  BY DEF Taken
<1> QED
  BY <1>2, <1>4, <1>6, <1>7

\* w is h with b free, in no list.
Untaken(h, b, w) ==
  /\ Loose(w, b) /\ MergedBut(w, b)
  /\ w.free = h.free /\ w.brk = h.brk /\ DOMAIN w.blk = DOMAIN h.blk
  /\ \A c \in DOMAIN h.blk : Size(w, c) = Size(h, c) /\ End(w, c) = End(h, c)
  /\ \A c \in DOMAIN h.blk \ {b} : w.blk[c] = h.blk[c]
  /\ FreeBlocks(w) = FreeBlocks(h) \cup {b} /\ Taken(w) = Taken(h) \ {b}

LEMMA Untaking ==
  ASSUME NEW h, Sound(h), NEW b \in Taken(h)
  PROVE  \E w : Untaken(h, b, w) /\ free(h, b) = coalesce(node_add(w, b), b)
<1> DEFINE w == WithBlock(h, b, Size(h, b), FALSE)
<1>1. IsHeap(h) /\ Tiles(h) /\ Listing(h.free, FreeBlocks(h), h.blk)
  BY DEF Sound, Tiled
<1>2. b \in DOMAIN h.blk /\ b \notin FreeBlocks(h) /\ b \in Nat
  <2>1. b \in DOMAIN h.blk
    BY DEF Taken
  <2> QED
    BY <1>1, <2>1, BlockShape, FreeOrTaken
<1>3. /\ IsHeap(w) /\ w.free = h.free /\ w.brk = h.brk
      /\ DOMAIN w.blk = DOMAIN h.blk
      /\ w.blk = [c \in DOMAIN w.blk |-> w.blk[c]]
      /\ w.blk[b] = [size |-> Size(h, b), alloc |-> FALSE]
      /\ \A c \in DOMAIN h.blk \ {b} : w.blk[c] = h.blk[c]
  <2>1. Written(h, b, Size(h, b), FALSE, w)
    BY <1>1, BlockWritten
  <2> HIDE DEF w
  <2>2. DOMAIN h.blk \cup {b} = DOMAIN h.blk
    BY <1>2
  <2> QED
    BY <2>1, <2>2 DEF Written
<1> HIDE DEF w
<1>4. Tiles(w)
  <2>1. \A c \in DOMAIN h.blk : \E alloc \in BOOLEAN :
           w.blk[c] = [size |-> Size(h, c), alloc |-> alloc]
    <3> SUFFICES ASSUME NEW c \in DOMAIN h.blk
                 PROVE  \E alloc \in BOOLEAN : w.blk[c] = [size |-> Size(h, c), alloc |-> alloc]
      OBVIOUS
    <3>1. h.blk[c] = [size |-> Size(h, c), alloc |-> h.blk[c].alloc] /\ h.blk[c].alloc \in BOOLEAN
      BY <1>1, BlockShape
    <3>2. CASE c = b
      BY <1>3, <3>2
    <3>3. CASE c # b
      BY <1>3, <3>1, <3>3
    <3> QED
      BY <3>2, <3>3
  <2> QED
    BY <1>1, <1>3, <2>1, Retagged
<1>5. FreeBlocks(w) = FreeBlocks(h) \cup {b} /\ Taken(w) = Taken(h) \ {b}
  <2>1. w.blk[b].alloc = FALSE
    BY <1>3
  <2> QED
    BY <1>2, <1>3, <2>1 DEF FreeBlocks, Taken
<1>6. \A c \in DOMAIN h.blk : Size(w, c) = Size(h, c) /\ End(w, c) = End(h, c)
  <2>1. w.blk[b].size = Size(h, b)
    BY <1>3
  <2> QED
    BY <1>3, <2>1 DEF Size, End
<1>7. \A c \in FreeBlocks(h) : c \in DOMAIN h.blk \ {b}
  BY <1>2 DEF FreeBlocks
<1>8. Loose(w, b)
  <2>1. Listing(w.free, FreeBlocks(h), w.blk)
    BY <1>1, <1>3, <1>7, ListingSame
  <2>2. FreeBlocks(w) \ {b} = FreeBlocks(h)
    BY <1>5, <1>7
  <2> QED
    BY <1>3, <1>4, <1>5, <2>1, <2>2 DEF Loose
<1>9. MergedBut(w, b)
  <2> SUFFICES ASSUME NEW c \in FreeBlocks(w), End(w, c) \in FreeBlocks(w), c # b, End(w, c) # b
               PROVE  FALSE
    BY DEF MergedBut
  <2>1. c \in FreeBlocks(h) /\ c \in DOMAIN h.blk
    BY <1>5, <1>7
  <2>2. End(h, c) \in FreeBlocks(h)
    BY <1>5, <1>6, <2>1
  <2> QED
    BY <2>1, <2>2 DEF Sound
<1>10. free(h, b) = coalesce(node_add(w, b), b)
  BY DEF free, w
<1>11. Untaken(h, b, w)
  BY <1>3, <1>5, <1>6, <1>8, <1>9 DEF Untaken
<1> QED
  BY <1>10, <1>11

LEMMA Freed ==
  ASSUME NEW h, Sound(h), NEW b \in Taken(h), NEW g, g = free(h, b)
  PROVE  /\ Sound(g) /\ g.brk = h.brk
         /\ Taken(g) = Taken(h) \ {b}
         /\ \A c \in Taken(h) \ {b} : g.blk[c] = h.blk[c]
<1>1. PICK w : Untaken(h, b, w) /\ g = coalesce(node_add(w, b), b)
  BY Untaking
<1>2. /\ Loose(w, b) /\ MergedBut(w, b) /\ w.brk = h.brk
      /\ \A c \in DOMAIN h.blk \ {b} : w.blk[c] = h.blk[c]
      /\ b \in FreeBlocks(w) /\ Taken(w) = Taken(h) \ {b}
  BY <1>1 DEF Untaken
<1>3. PICK a : a = node_add(w, b)
  OBVIOUS
<1>4. /\ Tiled(a) /\ a.blk = w.blk /\ a.brk = w.brk
      /\ FreeBlocks(a) = FreeBlocks(w) /\ Taken(a) = Taken(w)
      /\ \A c : Size(a, c) = Size(w, c) /\ End(a, c) = End(w, c)
  BY <1>2, <1>3, LooseListed
<1>5. MergedBut(a, b)
  BY <1>2, <1>4 DEF MergedBut
<1>6. /\ Sound(g) /\ g.brk = a.brk
      /\ Taken(g) = Taken(a) /\ \A c \in Taken(a) : g.blk[c] = a.blk[c]
  BY <1>1, <1>2, <1>3, <1>4, <1>5, Coalesced
<1>7. \A c \in Taken(h) : c \in DOMAIN h.blk
  BY DEF Taken
<1> QED
  BY <1>2, <1>4, <1>6, <1>7

\* What place leaves behind: the block is taken, the rest of it free.
Placed(h, b, asize, g) ==
  /\ Sound(g) /\ g.brk = h.brk
  /\ Taken(g) = Taken(h) \cup {b}
  /\ \A c \in Taken(h) : g.blk[c] = h.blk[c]
  /\ Size(g, b) \in Nat /\ Size(g, b) >= asize

LEMMA PlacedWhole ==
  ASSUME NEW h, Sound(h), NEW b \in FreeBlocks(h), NEW asize \in Nat,
         Size(h, b) >= asize, Size(h, b) - asize <= 32,
         NEW g, g = place(h, b, asize)
  PROVE  Placed(h, b, asize, g)
<1> DEFINE r == node_remove(h, b)
<1>1. IsHeap(h) /\ Tiles(h) /\ Listing(h.free, FreeBlocks(h), h.blk)
  BY DEF Sound, Tiled
<1>2. b \in DOMAIN h.blk /\ b \in Nat /\ b \notin Taken(h)
  <2>1. b \in DOMAIN h.blk
    BY DEF FreeBlocks
  <2> QED
    BY <1>1, <2>1, BlockShape, FreeOrTaken
<1>3. /\ IsHeap(r) /\ r.blk = h.blk /\ r.brk = h.brk
      /\ Listing(r.free, FreeBlocks(h) \ {b}, h.blk)
  BY <1>1, NodeRemoved
<1> HIDE DEF r
<1>4. g = WithBlock(r, b, Size(h, b), TRUE)
  BY DEF place, r
<1>5. Written(r, b, Size(h, b), TRUE, g)
  BY <1>3, <1>4, BlockWritten
<1>6. /\ IsHeap(g) /\ g.free = r.free /\ g.brk = h.brk
      /\ DOMAIN g.blk = DOMAIN h.blk
      /\ g.blk = [c \in DOMAIN g.blk |-> g.blk[c]]
      /\ g.blk[b] = [size |-> Size(h, b), alloc |-> TRUE]
      /\ \A c \in DOMAIN h.blk \ {b} : g.blk[c] = h.blk[c]
  <2>1. DOMAIN h.blk \cup {b} = DOMAIN h.blk
    BY <1>2
  <2> QED
    BY <1>3, <1>5, <2>1 DEF Written
<1>7. Tiles(g)
  <2>1. \A c \in DOMAIN h.blk : \E alloc \in BOOLEAN :
           g.blk[c] = [size |-> Size(h, c), alloc |-> alloc]
    <3> SUFFICES ASSUME NEW c \in DOMAIN h.blk
                 PROVE  \E alloc \in BOOLEAN : g.blk[c] = [size |-> Size(h, c), alloc |-> alloc]
      OBVIOUS
    <3>1. h.blk[c] = [size |-> Size(h, c), alloc |-> h.blk[c].alloc] /\ h.blk[c].alloc \in BOOLEAN
      BY <1>1, BlockShape
    <3>2. CASE c = b
      BY <1>6, <3>2
    <3>3. CASE c # b
      BY <1>6, <3>1, <3>3
    <3> QED
      BY <3>2, <3>3
  <2> QED
    BY <1>1, <1>6, <2>1, Retagged
<1>8. FreeBlocks(g) = FreeBlocks(h) \ {b} /\ Taken(g) = Taken(h) \cup {b}
  <2>1. g.blk[b].alloc = TRUE
    BY <1>6
  <2> QED
    BY <1>2, <1>6, <2>1 DEF FreeBlocks, Taken
<1>9. \A c \in DOMAIN h.blk : Size(g, c) = Size(h, c) /\ End(g, c) = End(h, c)
  <2>1. g.blk[b].size = Size(h, b)
    BY <1>6
  <2> QED
    BY <1>6, <2>1 DEF Size, End
<1>10. Tiled(g)
  <2>1. \A c \in FreeBlocks(h) \ {b} : c \in DOMAIN h.blk
    BY DEF FreeBlocks
  <2>2. Listing(g.free, FreeBlocks(h) \ {b}, g.blk)
    BY <1>3, <1>6, <2>1, ListingSame
  <2> QED
    BY <1>6, <1>7, <1>8, <2>2 DEF Tiled
<1>11. Sound(g)
  <2> SUFFICES ASSUME NEW c \in FreeBlocks(g), End(g, c) \in FreeBlocks(g)
               PROVE  FALSE
    BY <1>10 DEF Sound
  <2>1. c \in FreeBlocks(h) /\ c \in DOMAIN h.blk
    BY <1>8 DEF FreeBlocks
  <2>2. End(h, c) \in FreeBlocks(h)
    BY <1>8, <1>9, <2>1
  <2> QED
    BY <2>1, <2>2 DEF Sound
<1>12. \A c \in Taken(h) : c \in DOMAIN h.blk \ {b}
  BY <1>2 DEF Taken
<1>13. Size(g, b) \in Nat /\ Size(g, b) >= asize
  BY <1>1, <1>2, <1>9, BlockShape
<1> QED
  BY <1>6, <1>8, <1>11, <1>12, <1>13 DEF Placed

\* w is h with b, off its list, taken for asize bytes; the rest of it is a free
\* block in no list.
Parted(h, b, asize, w) ==
  /\ Loose(w, b + asize) /\ w.brk = h.brk /\ w.free = node_remove(h, b).free
  /\ b + asize \notin DOMAIN h.blk /\ DOMAIN w.blk = DOMAIN h.blk \cup {b + asize}
  /\ w.blk[b] = [size |-> asize, alloc |-> TRUE]
  /\ Size(w, b + asize) = Size(h, b) - asize /\ End(w, b + asize) = End(h, b)
  /\ \A c \in DOMAIN h.blk \ {b} : w.blk[c] = h.blk[c]
  /\ FreeBlocks(w) = (FreeBlocks(h) \ {b}) \cup {b + asize} /\ Taken(w) = Taken(h) \cup {b}

LEMMA Parting ==
  ASSUME NEW h, Sound(h), NEW b \in FreeBlocks(h),
         NEW asize \in Nat, Aligned(asize), asize >= 32,
         Size(h, b) - asize > 32
  PROVE  \E w : Parted(h, b, asize, w) /\ place(h, b, asize) = node_add(w, b + asize)
<1> DEFINE x == b + asize
           rest == Size(h, b) - asize
           r == node_remove(h, b)
           v == WithBlock(r, b, asize, TRUE)
           w == WithBlock(v, x, rest, FALSE)
<1>1. IsHeap(h) /\ Tiles(h) /\ Listing(h.free, FreeBlocks(h), h.blk)
  BY DEF Sound, Tiled
<1>2. /\ b \in DOMAIN h.blk /\ b \in Nat /\ b \notin Taken(h)
      /\ b >= FirstBlock /\ Aligned(b)
      /\ Size(h, b) \in Nat /\ Aligned(Size(h, b))
      /\ End(h, b) = b + Size(h, b) /\ End(h, b) <= h.brk /\ End(h, b) \in Nat
      /\ End(h, b) \in DOMAIN h.blk \cup {h.brk}
      /\ \A c \in DOMAIN h.blk : b < c => End(h, b) <= c
  <2>1. b \in DOMAIN h.blk
    BY DEF FreeBlocks
  <2> QED
    BY <1>1, <2>1, BlockShape, FreeOrTaken
<1>3. /\ x \in Nat /\ Aligned(x) /\ rest \in Nat /\ rest > 32 /\ Aligned(rest)
      /\ b < x /\ x < End(h, b) /\ x + rest = End(h, b) /\ b + asize = x /\ x >= FirstBlock
  <2>1. Aligned(x) /\ Aligned(rest)
    BY <1>2 DEF Aligned
  <2> QED
    BY <1>2, <2>1, HeapStart
<1>4. x \notin DOMAIN h.blk /\ x # h.brk /\ x # b
  <2> HIDE DEF x
  <2>1. h.brk \in Nat
    BY <1>1 DEF Tiles
  <2>2. x \notin DOMAIN h.blk
    <3> SUFFICES ASSUME x \in DOMAIN h.blk PROVE FALSE
      OBVIOUS
    <3>1. End(h, b) <= x
      BY <1>2, <1>3
    <3> QED
      BY <1>2, <1>3, <3>1
  <2> QED
    BY <1>2, <1>3, <2>1, <2>2
<1> HIDE DEF x, rest
<1>5. /\ IsHeap(r) /\ r.blk = h.blk /\ r.brk = h.brk
      /\ Listing(r.free, FreeBlocks(h) \ {b}, h.blk)
  BY <1>1, NodeRemoved
<1> HIDE DEF r
<1>6. Written(r, b, asize, TRUE, v)
  BY <1>5, BlockWritten
<1> HIDE DEF v
<1>7. Written(v, x, rest, FALSE, w)
  <2>1. IsHeap(v)
    BY <1>6 DEF Written
  <2> QED
    BY <2>1, BlockWritten
<1> HIDE DEF w
<1>8. /\ IsHeap(w) /\ w.free = r.free /\ w.brk = h.brk
      /\ DOMAIN w.blk = DOMAIN h.blk \cup {x}
      /\ w.blk = [c \in DOMAIN w.blk |-> w.blk[c]]
      /\ w.blk[b] = [size |-> asize, alloc |-> TRUE]
      /\ w.blk[x] = [size |-> rest, alloc |-> FALSE]
      /\ \A c \in DOMAIN h.blk \ {b} : w.blk[c] = h.blk[c]
  <2>1. /\ v.free = r.free /\ v.brk = h.brk /\ DOMAIN v.blk = DOMAIN h.blk
        /\ v.blk[b] = [size |-> asize, alloc |-> TRUE]
        /\ \A c \in DOMAIN h.blk \ {b} : v.blk[c] = h.blk[c]
    <3>1. DOMAIN h.blk \cup {b} = DOMAIN h.blk
      BY <1>2
    <3> QED
      BY <1>5, <1>6, <3>1 DEF Written
  <2>2. \A c \in DOMAIN h.blk : c # x /\ w.blk[c] = v.blk[c]
    BY <1>4, <1>7, <2>1 DEF Written
  <2> QED
    BY <1>2, <1>7, <2>1, <2>2 DEF Written
<1>9. /\ Size(w, b) = asize /\ End(w, b) = x
      /\ Size(w, x) = rest /\ End(w, x) = End(h, b)
      /\ \A c \in DOMAIN h.blk \ {b} : Size(w, c) = Size(h, c) /\ End(w, c) = End(h, c)
  <2>1. w.blk[b].size = asize /\ w.blk[x].size = rest
    BY <1>8
  <2>2. Size(w, b) = asize /\ End(w, b) = b + asize /\ Size(w, x) = rest /\ End(w, x) = x + rest
    BY <2>1 DEF Size, End
  <2>3. \A c \in DOMAIN h.blk \ {b} : Size(w, c) = Size(h, c) /\ End(w, c) = End(h, c)
    BY <1>8 DEF Size, End
  <2> QED
    BY <1>3, <2>2, <2>3
<1>10. Tiles(w)
  <2>1. w.blk \in [DOMAIN w.blk -> [size : Nat, alloc : BOOLEAN]]
    <3>1. /\ w.blk[b] \in [size : Nat, alloc : BOOLEAN]
          /\ w.blk[x] \in [size : Nat, alloc : BOOLEAN]
      BY <1>3, <1>8
    <3>2. \A c \in DOMAIN h.blk \ {b} : w.blk[c] \in [size : Nat, alloc : BOOLEAN]
      BY <1>1, <1>8 DEF Tiles
    <3> QED
      BY <1>8, <3>1, <3>2
  <2>2. DOMAIN w.blk \subseteq Nat /\ w.brk \in Nat /\ Aligned(w.brk)
    BY <1>1, <1>3, <1>8 DEF Tiles
  <2>3. FirstBlock \in DOMAIN w.blk \cup {w.brk}
    BY <1>1, <1>8 DEF Tiles
  <2>4. ASSUME NEW c \in DOMAIN w.blk
        PROVE  /\ c >= FirstBlock /\ Aligned(c)
               /\ Aligned(Size(w, c)) /\ Size(w, c) >= 2 * DSIZE
               /\ End(w, c) \in DOMAIN w.blk \cup {w.brk} /\ End(w, c) <= w.brk
    <3>1. CASE c = b
      <4>1. x <= h.brk
        BY <1>1, <1>2, <1>3 DEF Tiles
      <4> QED
        BY <1>2, <1>8, <1>9, <3>1, <4>1
    <3>2. CASE c = x
      BY <1>2, <1>3, <1>8, <1>9, <3>2
    <3>3. CASE c \in DOMAIN h.blk \ {b}
      <4>1. /\ c >= FirstBlock /\ Aligned(c)
            /\ Aligned(Size(h, c)) /\ Size(h, c) >= 32
            /\ End(h, c) \in DOMAIN h.blk \cup {h.brk} /\ End(h, c) <= h.brk
        BY <1>1, <3>3, BlockShape
      <4> QED
        BY <1>8, <1>9, <3>3, <4>1
    <3> QED
      BY <1>8, <3>1, <3>2, <3>3
  <2>5. ASSUME NEW c \in DOMAIN w.blk, NEW d \in DOMAIN w.blk, c < d
        PROVE  End(w, c) <= d
    <3>1. CASE c = b /\ d = x
      BY <1>3, <1>9, <3>1
    <3>2. CASE c = b /\ d # x
      <4>1. d \in DOMAIN h.blk /\ d \in Nat
        BY <1>8, <2>2, <3>2
      <4>2. End(h, b) <= d
        BY <1>2, <2>5, <3>2, <4>1
      <4> QED
        BY <1>2, <1>3, <1>9, <3>2, <4>1, <4>2
    <3>3. CASE c = x
      <4>1. d \in DOMAIN h.blk /\ d \in Nat
        BY <1>3, <1>8, <2>2, <2>5, <3>3
      <4>2. b < d
        BY <1>2, <1>3, <2>5, <3>3, <4>1
      <4>3. End(h, b) <= d
        BY <1>2, <4>1, <4>2
      <4> QED
        BY <1>9, <3>3, <4>3
    <3>4. CASE c \in DOMAIN h.blk \ {b} /\ d = x
      <4>1. /\ c \in Nat /\ End(h, c) \in Nat /\ \A e \in DOMAIN h.blk : c < e => End(h, c) <= e
        BY <1>1, <3>4, BlockShape
      <4>2. c < b
        <5>1. b < c => End(h, b) <= c
          BY <1>2, <3>4
        <5> QED
          BY <1>2, <1>3, <2>5, <3>4, <4>1, <5>1
      <4>3. End(h, c) <= b
        BY <1>2, <4>1, <4>2
      <4>4. End(h, c) <= x
        BY <1>2, <1>3, <4>1, <4>3
      <4> QED
        BY <1>9, <3>4, <4>4
    <3>5. CASE c \in DOMAIN h.blk \ {b} /\ d # x
      <4>1. d \in DOMAIN h.blk
        BY <1>8, <3>5
      <4>2. End(h, c) <= d
        BY <1>1, <2>5, <3>5, <4>1, BlockShape
      <4> QED
        BY <1>9, <3>5, <4>2
    <3> QED
      BY <1>8, <3>1, <3>2, <3>3, <3>4, <3>5
  <2> QED
    BY <2>1, <2>2, <2>3, <2>4, <2>5 DEF Tiles
<1>11. FreeBlocks(w) = (FreeBlocks(h) \ {b}) \cup {x} /\ Taken(w) = Taken(h) \cup {b}
  <2>1. w.blk[b].alloc = TRUE /\ w.blk[x].alloc = FALSE
    BY <1>8
  <2> QED
    BY <1>2, <1>4, <1>8, <2>1 DEF FreeBlocks, Taken
<1>12. place(h, b, asize) = node_add(w, x)
  <2>1. ~(Size(h, b) - asize <= 32)
    BY <1>2
  <2> QED
    BY <2>1 DEF place, w, v, r, x, rest
<1>13. Loose(w, x)
  <2>1. \A c \in FreeBlocks(h) \ {b} : c \in DOMAIN h.blk \ {b} /\ c # x
    BY <1>4 DEF FreeBlocks
  <2>2. Listing(w.free, FreeBlocks(h) \ {b}, w.blk)
    BY <1>5, <1>8, <2>1, ListingSame
  <2>3. FreeBlocks(w) \ {x} = FreeBlocks(h) \ {b}
    BY <1>11, <2>1
  <2> QED
    BY <1>8, <1>10, <1>11, <2>2, <2>3 DEF Loose
<1>14. x = b + asize /\ rest = Size(h, b) - asize
  BY DEF x, rest
<1>15. r = node_remove(h, b)
  BY DEF r
<1>16. Parted(h, b, asize, w)
  BY <1>4, <1>8, <1>9, <1>11, <1>13, <1>14, <1>15 DEF Parted
<1> QED
  BY <1>12, <1>14, <1>16

LEMMA PlacedSplit ==
  ASSUME NEW h, Sound(h), NEW b \in FreeBlocks(h),
         NEW asize \in Nat, Aligned(asize), asize >= 32,
         Size(h, b) - asize > 32,
         NEW g, g = place(h, b, asize)
  PROVE  Placed(h, b, asize, g)
<1> DEFINE x == b + asize
<1>1. PICK w : Parted(h, b, asize, w) /\ g = node_add(w, x)
  BY Parting
<1>2. /\ Loose(w, x) /\ w.brk = h.brk /\ x \notin DOMAIN h.blk
      /\ w.blk[b] = [size |-> asize, alloc |-> TRUE] /\ End(w, x) = End(h, b)
      /\ \A c \in DOMAIN h.blk \ {b} : w.blk[c] = h.blk[c]
      /\ FreeBlocks(w) = (FreeBlocks(h) \ {b}) \cup {x} /\ Taken(w) = Taken(h) \cup {b}
  BY <1>1 DEF Parted
<1>3. /\ Tiled(g) /\ g.blk = w.blk /\ g.brk = w.brk
      /\ FreeBlocks(g) = FreeBlocks(w) /\ Taken(g) = Taken(w)
      /\ \A c : Size(g, c) = Size(w, c) /\ End(g, c) = End(w, c)
  <2> HIDE DEF x
  <2> QED
    BY <1>1, <1>2, LooseListed
<1>4. Tiles(h) /\ b \in DOMAIN h.blk /\ b \notin Taken(h)
  BY DEF Sound, Tiled, FreeBlocks, Taken
<1>5. b \in Nat /\ Size(h, b) \in Nat /\ End(h, b) = b + Size(h, b)
  BY <1>4, BlockShape
<1>6. x \in Nat /\ End(h, b) \in Nat /\ x < End(h, b)
  BY <1>5
<1> HIDE DEF x
<1>7. Sound(g)
  <2> SUFFICES ASSUME NEW c \in FreeBlocks(g), End(g, c) \in FreeBlocks(g)
               PROVE  FALSE
    BY <1>3 DEF Sound
  <2>1. CASE c = x
    <3>1. End(h, b) \in FreeBlocks(h)
      BY <1>2, <1>3, <1>6, <2>1
    <3> QED
      BY <3>1 DEF Sound
  <2>2. CASE c # x
    <3>1. c \in FreeBlocks(h) /\ c \in DOMAIN h.blk \ {b}
      BY <1>2, <1>3, <2>2 DEF FreeBlocks
    <3>2. End(g, c) = End(h, c)
      BY <1>2, <1>3, <3>1 DEF End
    <3>3. End(h, c) # x
      <4>1. End(h, c) \in DOMAIN h.blk \cup {h.brk}
        BY <1>4, <3>1, BlockShape
      <4>2. x # h.brk
        <5>1. End(h, b) <= h.brk /\ h.brk \in Nat
          BY <1>4, BlockShape DEF Tiles
        <5> QED
          BY <1>6, <5>1
      <4> QED
        BY <1>2, <4>1, <4>2
    <3>4. End(h, c) \in FreeBlocks(h)
      BY <1>2, <1>3, <3>2, <3>3
    <3> QED
      BY <3>1, <3>4 DEF Sound
  <2> QED
    BY <2>1, <2>2
<1>8. \A c \in Taken(h) : c \in DOMAIN h.blk \ {b}
  BY <1>4 DEF Taken
<1>9. \A c \in Taken(h) : g.blk[c] = h.blk[c]
  BY <1>2, <1>3, <1>8
<1>10. Size(g, b) \in Nat /\ Size(g, b) >= asize
  <2>1. w.blk[b].size = asize
    BY <1>2
  <2> QED
    BY <1>3, <2>1 DEF Size
<1> QED
  BY <1>2, <1>3, <1>7, <1>9, <1>10 DEF Placed

LEMMA PlacedIs ==
  ASSUME NEW h, Sound(h), NEW b \in FreeBlocks(h),
         NEW asize \in Nat, Aligned(asize), asize >= 32, Size(h, b) >= asize
  PROVE  Placed(h, b, asize, place(h, b, asize))
<1>1. Size(h, b) \in Nat
  <2>1. Tiles(h) /\ b \in DOMAIN h.blk
    BY DEF Sound, Tiled, FreeBlocks
  <2> QED
    BY <2>1, BlockShape
<1>2. CASE Size(h, b) - asize <= 32
  BY <1>2, PlacedWhole
<1>3. CASE ~(Size(h, b) - asize <= 32)
  <2>1. Size(h, b) - asize > 32
    BY <1>1, <1>3
  <2> QED
    BY <2>1, PlacedSplit
<1> QED
  BY <1>2, <1>3

-----------------------------------------------------------------------------
(* Allocating                                                              *)

\* What malloc hands out of h.
Given(h, asize, got) ==
  /\ Sound(got.heap)
  /\ got.heap.brk >= h.brk /\ got.heap.brk <= h.brk + Larger(asize, CHUNKSIZE)
  /\ got.heap.brk <= HeapMemoryEnd
  /\ got.bp \notin Taken(h) /\ Taken(got.heap) = Taken(h) \cup {got.bp}
  /\ \A c \in Taken(h) : got.heap.blk[c] = h.blk[c]
  /\ Size(got.heap, got.bp) \in Nat /\ Size(got.heap, got.bp) >= asize

LEMMA GrownIs ==
  ASSUME NEW h, Sound(h), h.brk >= FirstBlock, h.brk <= HeapMemoryEnd,
         NEW asize \in Nat, Aligned(asize), asize >= 32, ~OutOfMemory(h, asize),
         NEW g, g = Grown(h, asize)
  PROVE  /\ Sound(g) /\ g.brk \in Nat
         /\ g.brk >= h.brk /\ g.brk <= h.brk + Larger(asize, CHUNKSIZE)
         /\ g.brk <= HeapMemoryEnd
         /\ Taken(g) = Taken(h) /\ \A c \in Taken(h) : g.blk[c] = h.blk[c]
         /\ \E c \in FreeBlocks(g) : Size(g, c) >= asize
<1> DEFINE more == Larger(asize, CHUNKSIZE)
<1>1. more \in Nat /\ Aligned(more) /\ more >= 32 /\ more >= asize
  <2>1. CHUNKSIZE \in Nat /\ Aligned(CHUNKSIZE) /\ CHUNKSIZE > 32
    BY Extent
  <2> QED
    BY <2>1 DEF Larger
<1>2. h.brk \in Nat
  BY DEF Sound, Tiled, Tiles
<1>3. CASE Fits(h, asize) = {}
  <2>1. ~(h.brk + more > HeapMemoryEnd)
    BY <1>3 DEF OutOfMemory, Refused
  <2>2. g = extend_heap(h, more)
    BY <1>3 DEF Grown
  <2> HIDE DEF more
  <2>3. /\ Sound(g) /\ g.brk = h.brk + more
        /\ Taken(g) = Taken(h) /\ \A c \in Taken(h) : g.blk[c] = h.blk[c]
        /\ \E c \in FreeBlocks(g) : Size(g, c) >= more
    BY <1>1, <2>2, Extended
  <2>4. PICK c \in FreeBlocks(g) : Size(g, c) >= more
    BY <2>3
  <2>5. Size(g, c) \in Nat
    <3>1. Tiles(g) /\ c \in DOMAIN g.blk
      BY <2>3 DEF Sound, Tiled, FreeBlocks
    <3> QED
      BY <3>1, BlockShape
  <2>6. Size(g, c) >= asize
    BY <1>1, <2>4, <2>5
  <2>7. g.brk \in Nat /\ g.brk >= h.brk /\ g.brk <= h.brk + more /\ g.brk <= HeapMemoryEnd
    <3>1. HeapMemoryEnd \in Nat
      BY Extent
    <3> QED
      BY <1>1, <1>2, <2>1, <2>3, <3>1
  <2> QED
    BY <2>3, <2>6, <2>7 DEF more
<1>4. CASE Fits(h, asize) # {}
  <2>1. g = h
    BY <1>4 DEF Grown
  <2>2. PICK i \in DOMAIN h.free : Size(h, h.free[i]) >= asize
    BY <1>4 DEF Fits
  <2>3. h.free[i] \in FreeBlocks(h)
    BY <2>2, ListingShape DEF Sound, Tiled
  <2> QED
    BY <1>1, <1>2, <2>1, <2>2, <2>3
<1> QED
  BY <1>3, <1>4

LEMMA FitIs ==
  ASSUME NEW g, Sound(g), NEW asize \in Nat, \E c \in FreeBlocks(g) : Size(g, c) >= asize
  PROVE  Fit(g, asize) \in FreeBlocks(g) /\ Size(g, Fit(g, asize)) >= asize
<1>1. Listing(g.free, FreeBlocks(g), g.blk)
  BY DEF Sound, Tiled
<1>2. /\ Len(g.free) \in Nat /\ DOMAIN g.free = 1..Len(g.free)
      /\ \A i \in 1..Len(g.free) : g.free[i] \in FreeBlocks(g)
      /\ \A x \in FreeBlocks(g) : \E i \in 1..Len(g.free) : g.free[i] = x
  BY <1>1, ListingShape
<1>3. Fits(g, asize) # {} /\ Fits(g, asize) \in SUBSET Nat
  <2>1. PICK c \in FreeBlocks(g) : Size(g, c) >= asize
    OBVIOUS
  <2>2. PICK i \in 1..Len(g.free) : g.free[i] = c
    BY <1>2
  <2> QED
    BY <1>2, <2>1, <2>2 DEF Fits
<1>4. PICK i \in Fits(g, asize) : \A j \in Fits(g, asize) : i <= j
  BY <1>3, LeastElement
<1>5. Min(Fits(g, asize)) = i
  <2>1. Fits(g, asize) \subseteq Int
    BY <1>3
  <2> QED
    BY <1>4, <2>1, MinIs
<1>6. Fit(g, asize) = g.free[i] /\ i \in 1..Len(g.free) /\ Size(g, g.free[i]) >= asize
  BY <1>2, <1>5 DEF Fit, Fits
<1> QED
  BY <1>2, <1>6

LEMMA ServedIs ==
  ASSUME NEW h, Sound(h), h.brk >= FirstBlock, h.brk <= HeapMemoryEnd,
         NEW asize \in Nat, Aligned(asize), asize >= 32, ~OutOfMemory(h, asize)
  PROVE  Given(h, asize, malloc(Grown(h, asize), asize))
<1> DEFINE g == Grown(h, asize)
           b == Fit(g, asize)
           p == place(g, b, asize)
<1>1. /\ Sound(g) /\ g.brk \in Nat
      /\ g.brk >= h.brk /\ g.brk <= h.brk + Larger(asize, CHUNKSIZE)
      /\ g.brk <= HeapMemoryEnd
      /\ Taken(g) = Taken(h) /\ \A c \in Taken(h) : g.blk[c] = h.blk[c]
      /\ \E c \in FreeBlocks(g) : Size(g, c) >= asize
  BY GrownIs
<1>2. malloc(g, asize) = [heap |-> p, bp |-> b]
  BY DEF malloc
<1> HIDE DEF g
<1>3. b \in FreeBlocks(g) /\ Size(g, b) >= asize
  BY <1>1, FitIs
<1>4. b \notin Taken(g)
  BY <1>3 DEF FreeBlocks, Taken
<1> HIDE DEF b
<1>5. Placed(g, b, asize, p)
  BY <1>1, <1>3, PlacedIs
<1> HIDE DEF p
<1>6. malloc(g, asize).heap = p /\ malloc(g, asize).bp = b
  BY <1>2
<1>7. Given(h, asize, malloc(g, asize))
  BY <1>1, <1>4, <1>5, <1>6 DEF Given, Placed
<1> QED
  BY <1>7 DEF g
=============================================================================
