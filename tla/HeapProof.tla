------------------------------ MODULE HeapProof -----------------------------
(***************************************************************************)
(* Theorems about mm.c, for any memory, chunk size, number of lists and    *)
(* requests.  The words of memory represent a heap of blocks (BlockHeap),  *)
(* and what mm.c does to the words is what the operations of such a heap   *)
(* do to the blocks: the tags tile the heap, the free lists are exact,     *)
(* malloc finds a best fit, and the program implements its allocator.      *)
(***************************************************************************)
EXTENDS Heap, SequenceTheorems, FiniteSetTheorems, FunctionTheorems, TLAPS

B == INSTANCE BlockHeapProof WITH HeapMemory <- HeapLo, HeapMemorySize <- HeapSize

USE DEF ALIGNMENT, WSIZE, DSIZE, B!ALIGNMENT, B!DSIZE, B!Aligned

-----------------------------------------------------------------------------
(* Words                                                                   *)

Lists == 0..(MAX_LEN - 1)

\* The state of mm.c has these three parts and no other.
IsWords(h) ==
  /\ h = [mem |-> h.mem, seg_list |-> h.seg_list, mem_brk |-> h.mem_brk]
  /\ h.mem = [x \in WordAddress |-> h.mem[x]]
  /\ h.seg_list = [l \in Lists |-> h.seg_list[l]]

LEMMA Extents ==
  /\ HeapLo \in Nat \ {0} /\ HeapLo % 16 = 0 /\ HeapLo >= 16
  /\ HeapSize \in Nat /\ HeapSize % 16 = 0
  /\ CHUNKSIZE \in Nat /\ CHUNKSIZE % 16 = 0 /\ CHUNKSIZE > 32
  /\ Limit \in Nat /\ Limit % 16 = 0 /\ Limit = HeapLo + HeapSize /\ HeapLo + CHUNKSIZE + 32 <= Limit
  /\ MAX_LEN \in Nat /\ MAX_LEN > 0 /\ NULL = 0 /\ Request \subseteq Nat
<1>1. /\ HeapLo \in Nat \ {0} /\ HeapLo % 16 = 0
      /\ CHUNKSIZE \in Nat /\ CHUNKSIZE % 16 = 0 /\ CHUNKSIZE > 2 * 16
      /\ HeapSize \in Nat /\ HeapSize % 16 = 0 /\ HeapSize >= CHUNKSIZE + 4 * 8
      /\ MAX_LEN \in Nat \ {0} /\ Request \subseteq Nat
  BY HeapAssumption
<1> QED
  BY <1>1 DEF Limit, NULL

LEMMA BlocksAssumed == B!BlockHeapAssumption
BY Extents DEF B!BlockHeapAssumption, Limit

LEMMA WordsAre ==
  /\ \A x \in WordAddress : x \in Nat /\ x % 8 = 0 /\ HeapLo <= x /\ x + 8 <= Limit /\ x # 0
  /\ \A x \in Int : x % 8 = 0 /\ HeapLo <= x /\ x < Limit => x \in WordAddress
<1>1. ASSUME NEW x \in WordAddress
      PROVE  x \in Nat /\ x % 8 = 0 /\ HeapLo <= x /\ x + 8 <= Limit /\ x # 0
  <2>1. PICK k \in 0..(HeapSize \div 8 - 1) : x = HeapLo + 8 * k
    BY DEF WordAddress
  <2>2. HeapSize \div 8 \in Nat /\ 8 * (HeapSize \div 8) <= HeapSize
    BY Extents
  <2> QED
    BY <2>1, <2>2, Extents
<1>2. ASSUME NEW x \in Int, x % 8 = 0, HeapLo <= x, x < Limit
      PROVE  x \in WordAddress
  <2> DEFINE k == (x - HeapLo) \div 8
  <2>1. k \in Int /\ x = HeapLo + 8 * k
    BY <1>2, Extents
  <2>2. k >= 0 /\ k <= HeapSize \div 8 - 1
    <3> HIDE DEF k
    <3>1. 8 * (HeapSize \div 8) = HeapSize /\ HeapSize \div 8 \in Nat
      BY Extents
    <3> QED
      BY <1>2, <2>1, <3>1, Extents
  <2> HIDE DEF k
  <2> QED
    BY <2>1, <2>2, Extents DEF WordAddress
<1> QED
  BY <1>1, <1>2

\* Everything but the words is as in h.
Beside(h, g) == IsWords(g) /\ g.seg_list = h.seg_list /\ g.mem_brk = h.mem_brk

LEMMA PutIs ==
  ASSUME NEW h, IsWords(h), NEW a \in WordAddress, NEW v, NEW g, g = PUT(h, a, v)
  PROVE  Beside(h, g) /\ \A x \in WordAddress : g.mem[x] = IF x = a THEN v ELSE h.mem[x]
<1> DEFINE m == [h.mem EXCEPT ![a] = v]
<1>1. m = [x \in WordAddress |-> IF x = a THEN v ELSE h.mem[x]]
  BY DEF IsWords
<1>2. g = [mem |-> m, seg_list |-> h.seg_list, mem_brk |-> h.mem_brk]
  <2>1. g = [h EXCEPT !.mem = m]
    BY DEF PUT
  <2> HIDE DEF m
  <2> QED
    BY <2>1 DEF IsWords
<1> HIDE DEF m
<1> QED
  BY <1>1, <1>2 DEF IsWords, Beside

LEMMA SetPrevIs ==
  ASSUME NEW h, IsWords(h), NEW bp \in WordAddress \cup {NULL}, NEW v, NEW g, g = SET_PREV(h, bp, v)
  PROVE  Beside(h, g) /\ \A x \in WordAddress : g.mem[x] = IF x = bp THEN v ELSE h.mem[x]
<1>1. CASE bp = NULL
  BY <1>1, Extents, WordsAre DEF SET_PREV, Beside
<1>2. CASE bp # NULL
  <2>1. bp \in WordAddress /\ g = PUT(h, bp, v)
    BY <1>2 DEF SET_PREV, PREV_PTR
  <2> QED
    BY <2>1, PutIs
<1> QED
  BY <1>1, <1>2

LEMMA SetNextIs ==
  ASSUME NEW h, IsWords(h), NEW bp, bp = NULL \/ bp + 8 \in WordAddress,
         NEW v, NEW g, g = SET_NEXT(h, bp, v)
  PROVE  Beside(h, g) /\ \A x \in WordAddress : g.mem[x] = IF x = bp + 8 THEN v ELSE h.mem[x]
<1>1. CASE bp = NULL
  <2>1. \A x \in WordAddress : x # bp + 8
    BY <1>1, Extents, WordsAre
  <2> QED
    BY <1>1, <2>1 DEF SET_NEXT, Beside
<1>2. CASE bp # NULL
  <2>1. bp + 8 \in WordAddress /\ g = PUT(h, bp + 8, v)
    BY <1>2 DEF SET_NEXT, NEXT_PTR
  <2> QED
    BY <2>1, PutIs
<1> QED
  BY <1>1, <1>2

\* A place for a free block: its two links are words.
Site(x) == x \in Nat /\ x % 16 = 0 /\ x \in WordAddress /\ x + 8 \in WordAddress

LEMMA SitesApart ==
  /\ \A x : Site(x) => x # NULL /\ x \in WordAddress /\ x + 8 \in WordAddress
  /\ \A x, y : Site(x) /\ (Site(y) \/ y = NULL) => x # y + 8 /\ x + 8 # y /\ (x + 8 = y + 8 => x = y)
<1>1. \A x : Site(x) => x # NULL /\ x \in Nat /\ x % 16 = 0
  BY Extents, WordsAre DEF Site
<1>2. \A x, y \in Nat : x % 16 = 0 /\ y % 16 = 0 =>
        x # y + 8 /\ x + 8 # y /\ (x + 8 = y + 8 => x = y)
  OBVIOUS
<1>3. NULL \in Nat /\ NULL % 16 = 0
  BY Extents
<1> QED
  BY <1>1, <1>2, <1>3 DEF Site

WithHead(h, l, v) == [h EXCEPT !.seg_list[l] = v]

LEMMA HeadIs ==
  ASSUME NEW h, IsWords(h), NEW l \in Lists, NEW v, NEW g, g = WithHead(h, l, v)
  PROVE  /\ IsWords(g) /\ g.mem = h.mem /\ g.mem_brk = h.mem_brk
         /\ \A k \in Lists : g.seg_list[k] = IF k = l THEN v ELSE h.seg_list[k]
<1> DEFINE s == [h.seg_list EXCEPT ![l] = v]
<1>1. s = [k \in Lists |-> IF k = l THEN v ELSE h.seg_list[k]]
  BY DEF IsWords
<1>2. g = [mem |-> h.mem, seg_list |-> s, mem_brk |-> h.mem_brk]
  <2>1. g = [h EXCEPT !.seg_list = s]
    BY DEF WithHead
  <2> HIDE DEF s
  <2> QED
    BY <2>1 DEF IsWords
<1> HIDE DEF s
<1> QED
  BY <1>1, <1>2 DEF IsWords

\* g is h with ptr linked into list l between in and cur.
LinkedIn(h, l, ptr, in, cur, g) ==
  /\ IsWords(g) /\ g.mem_brk = h.mem_brk
  /\ \A x \in WordAddress :
       g.mem[x] = IF x = in THEN ptr ELSE IF x = cur + 8 THEN ptr
                  ELSE IF x = ptr + 8 THEN in ELSE IF x = ptr THEN cur ELSE h.mem[x]
  /\ \A k \in Lists :
       g.seg_list[k] = IF k = l /\ in = NULL THEN ptr ELSE h.seg_list[k]

LEMMA LinkNodeIs ==
  ASSUME NEW h, IsWords(h), NEW l \in Lists, NEW ptr, Site(ptr),
         NEW in, Site(in) \/ in = NULL, NEW cur, Site(cur) \/ cur = NULL,
         NEW g, g = LinkNode(h, l, ptr, in, cur)
  PROVE  LinkedIn(h, l, ptr, in, cur, g)
<1> DEFINE a1 == SET_PREV(h, ptr, cur)
           a2 == SET_NEXT(a1, ptr, in)
           a3 == SET_NEXT(a2, cur, ptr)
           a4 == SET_PREV(a3, in, ptr)
<1>0. g = IF in = NULL THEN [a4 EXCEPT !.seg_list[l] = ptr] ELSE a4
  BY DEF LinkNode
<1>1. /\ ptr \in WordAddress \cup {NULL} /\ ptr + 8 \in WordAddress
      /\ in \in WordAddress \cup {NULL} /\ (cur = NULL \/ cur + 8 \in WordAddress)
  BY DEF Site
<1>a. a1 = SET_PREV(h, ptr, cur)
  OBVIOUS
<1> HIDE DEF a1
<1>2. Beside(h, a1) /\ \A x \in WordAddress : a1.mem[x] = IF x = ptr THEN cur ELSE h.mem[x]
  BY <1>a, <1>1, SetPrevIs, SMTT(40)
<1>3. Beside(a1, a2) /\ \A x \in WordAddress : a2.mem[x] = IF x = ptr + 8 THEN in ELSE a1.mem[x]
  BY <1>1, <1>2, SetNextIs DEF Beside
<1> HIDE DEF a2
<1>4. Beside(a2, a3) /\ \A x \in WordAddress : a3.mem[x] = IF x = cur + 8 THEN ptr ELSE a2.mem[x]
  BY <1>1, <1>3, SetNextIs DEF Beside
<1> HIDE DEF a3
<1>5. Beside(a3, a4) /\ \A x \in WordAddress : a4.mem[x] = IF x = in THEN ptr ELSE a3.mem[x]
  BY <1>1, <1>4, SetPrevIs DEF Beside
<1> HIDE DEF a4
<1>6. /\ IsWords(a4) /\ a4.mem_brk = h.mem_brk /\ a4.seg_list = h.seg_list
      /\ \A x \in WordAddress :
           a4.mem[x] = IF x = in THEN ptr ELSE IF x = cur + 8 THEN ptr
                       ELSE IF x = ptr + 8 THEN in ELSE IF x = ptr THEN cur ELSE h.mem[x]
  BY <1>2, <1>3, <1>4, <1>5 DEF Beside
<1>7. CASE in = NULL
  <2>1. g = WithHead(a4, l, ptr)
    BY <1>0, <1>7 DEF WithHead
  <2>2. /\ IsWords(g) /\ g.mem = a4.mem /\ g.mem_brk = a4.mem_brk
        /\ \A k \in Lists : g.seg_list[k] = IF k = l THEN ptr ELSE a4.seg_list[k]
    BY <1>6, <2>1, HeadIs
  <2> QED
    BY <1>6, <1>7, <2>2 DEF LinkedIn
<1>8. CASE in # NULL
  BY <1>0, <1>6, <1>8 DEF LinkedIn
<1> QED
  BY <1>7, <1>8

\* g is h with the node between back and larger taken off list l.
Unlinked(h, l, larger, back, g) ==
  /\ IsWords(g) /\ g.mem_brk = h.mem_brk
  /\ \A x \in WordAddress :
       g.mem[x] = IF x = back THEN larger ELSE IF x = larger + 8 THEN back ELSE h.mem[x]
  /\ \A k \in Lists :
       g.seg_list[k] = IF k = l /\ back = NULL THEN larger ELSE h.seg_list[k]

LEMMA UnlinkIs ==
  ASSUME NEW h, IsWords(h), NEW ptr, NEW l \in Lists, l = select_list(BlockSize(h, ptr)),
         NEW larger, larger = PREV_BLK(h, ptr), Site(larger) \/ larger = NULL,
         NEW back, back = NEXT_BLK(h, ptr), Site(back) \/ back = NULL,
         NEW g, g = node_remove(h, ptr)
  PROVE  Unlinked(h, l, larger, back, g)
<1> DEFINE a1 == SET_NEXT(h, larger, back)
           a2 == SET_PREV(a1, back, larger)
<1>0. g = IF back = NULL THEN [a2 EXCEPT !.seg_list[l] = larger] ELSE a2
  BY DEF node_remove
<1>1. back \in WordAddress \cup {NULL} /\ (larger = NULL \/ larger + 8 \in WordAddress)
  BY DEF Site
<1>2. Beside(h, a1) /\ \A x \in WordAddress : a1.mem[x] = IF x = larger + 8 THEN back ELSE h.mem[x]
  BY <1>1, SetNextIs
<1> HIDE DEF a1
<1>3. Beside(a1, a2) /\ \A x \in WordAddress : a2.mem[x] = IF x = back THEN larger ELSE a1.mem[x]
  BY <1>1, <1>2, SetPrevIs DEF Beside
<1> HIDE DEF a2
<1>4. /\ IsWords(a2) /\ a2.mem_brk = h.mem_brk /\ a2.seg_list = h.seg_list
      /\ \A x \in WordAddress :
           a2.mem[x] = IF x = back THEN larger ELSE IF x = larger + 8 THEN back ELSE h.mem[x]
  BY <1>2, <1>3 DEF Beside
<1>5. CASE back = NULL
  <2>1. g = WithHead(a2, l, larger)
    BY <1>0, <1>5 DEF WithHead
  <2>2. /\ IsWords(g) /\ g.mem = a2.mem /\ g.mem_brk = a2.mem_brk
        /\ \A k \in Lists : g.seg_list[k] = IF k = l THEN larger ELSE a2.seg_list[k]
    BY <1>4, <2>1, HeadIs
  <2> QED
    BY <1>4, <1>5, <2>2 DEF Unlinked
<1>6. CASE back # NULL
  BY <1>0, <1>4, <1>6 DEF Unlinked
<1> QED
  BY <1>5, <1>6

-----------------------------------------------------------------------------
(* Size classes                                                            *)

LEMMA Least ==
  ASSUME NEW T \in SUBSET Nat, T # {}
  PROVE  \E x \in T : \A y \in T : x <= y
BY BlocksAssumed, B!LeastElement

\* A function can be iterated as often as one likes.
Iterated(f, s, D, nx, m) ==
  f \in [0..m -> D] /\ f = [k \in 0..m |-> IF k = 0 THEN s ELSE nx[f[k - 1]]]

LEMMA Iterates ==
  ASSUME NEW D, NEW s \in D, NEW nx \in [D -> D], NEW N \in Nat
  PROVE  \E f : Iterated(f, s, D, nx, N)
<1> DEFINE Has(m) == \E f : Iterated(f, s, D, nx, m)
           Bad == {m \in Nat : ~Has(m)}
<1>1. Bad = {}
  <2> SUFFICES ASSUME Bad # {} PROVE FALSE
    OBVIOUS
  <2> HIDE DEF Has
  <2>1. PICK m \in Bad : \A k \in Bad : m <= k
    <3>1. Bad \in SUBSET Nat
      OBVIOUS
    <3> HIDE DEF Bad
    <3> QED
      BY <3>1, Least
  <2>2. CASE m = 0
    <3> DEFINE f == [k \in 0..0 |-> s]
    <3>1. Iterated(f, s, D, nx, m)
      BY <2>2 DEF Iterated
    <3> HIDE DEF f
    <3>2. Has(m)
      BY <3>1 DEF Has
    <3> QED
      BY <2>1, <3>2
  <2>3. CASE m > 0
    <3>1. m \in Nat /\ m - 1 \in Nat /\ ~(m <= m - 1)
      BY <2>1, <2>3
    <3>2. Has(m - 1)
      BY <2>1, <3>1
    <3>3. PICK f : Iterated(f, s, D, nx, m - 1)
      BY <3>2 DEF Has
    <3> DEFINE g == [k \in 0..m |-> IF k = m THEN nx[f[m - 1]] ELSE f[k]]
    <3>4. /\ f \in [0..(m - 1) -> D]
          /\ \A k \in 0..(m - 1) : f[k] = IF k = 0 THEN s ELSE nx[f[k - 1]]
      BY <3>3 DEF Iterated
    <3>5. \A k \in 0..m : /\ k = m \/ k \in 0..(m - 1)
                          /\ k # 0 => k - 1 \in 0..(m - 1) /\ k - 1 # m
      BY <3>1
    <3>6. m - 1 \in 0..(m - 1) /\ m # 0
      BY <3>1, <2>3
    <3>7. nx[f[m - 1]] \in D
      BY <3>4, <3>6
    <3>8. g \in [0..m -> D]
      <4>1. \A k \in 0..m : (IF k = m THEN nx[f[m - 1]] ELSE f[k]) \in D
        BY <3>4, <3>5, <3>7
      <4> QED
        BY <4>1
    <3>9. g = [k \in 0..m |-> IF k = 0 THEN s ELSE nx[g[k - 1]]]
      <4>1. \A k \in 0..m : k # 0 => g[k - 1] = f[k - 1]
        BY <3>5
      <4>2. \A k \in 0..m :
              (IF k = m THEN nx[f[m - 1]] ELSE f[k]) = IF k = 0 THEN s ELSE nx[f[k - 1]]
        BY <3>4, <3>5, <3>6
      <4> QED
        BY <4>1, <4>2
    <3> HIDE DEF g
    <3>10. Iterated(g, s, D, nx, m)
      BY <3>8, <3>9 DEF Iterated
    <3>11. Has(m)
      BY <3>10 DEF Has
    <3> QED
      BY <2>1, <3>11
  <2> QED
    BY <2>1, <2>2, <2>3
<1> HIDE DEF Has
<1>2. Has(N)
  BY <1>1
<1> QED
  BY <1>2 DEF Has

IsHalves(f, size) == f = [k \in Lists |-> IF k = 0 THEN size ELSE f[k - 1] \div 2]
Halves(size) == CHOOSE f : IsHalves(f, size)

LEMMA HalvesExist ==
  ASSUME NEW size \in Nat
  PROVE  \E f : IsHalves(f, size)
<1> DEFINE nx == [x \in Nat |-> x \div 2]
           N == MAX_LEN - 1
<1>1. nx \in [Nat -> Nat] /\ N \in Nat
  BY Extents
<1>2. PICK f : Iterated(f, size, Nat, nx, N)
  <2> HIDE DEF nx, N
  <2> QED
    BY <1>1, Iterates
<1>3. /\ f \in [0..N -> Nat]
      /\ f = [k \in 0..N |-> IF k = 0 THEN size ELSE nx[f[k - 1]]]
  BY <1>2 DEF Iterated
<1> HIDE DEF N
<1>4. \A k \in 0..N : k # 0 => f[k - 1] \in Nat /\ nx[f[k - 1]] = f[k - 1] \div 2
  <2>1. \A k \in 0..N : k # 0 => k - 1 \in 0..N
    BY <1>1
  <2>2. \A k \in 0..N : k # 0 => f[k - 1] \in Nat
    BY <1>3, <2>1
  <2> QED
    BY <2>2
<1>5. f = [k \in 0..N |-> IF k = 0 THEN size ELSE f[k - 1] \div 2]
  BY <1>3, <1>4
<1> QED
  BY <1>5 DEF IsHalves, Lists, N

LEMMA HalvesAre ==
  ASSUME NEW size \in Nat, NEW f, f = Halves(size)
  PROVE  /\ \A k \in Lists : f[k] \in Nat /\ (k = 0 => f[k] = size)
         /\ \A k \in Lists : k # 0 => k - 1 \in Lists /\ f[k] = f[k - 1] \div 2
<1>1. IsHalves(f, size)
  BY HalvesExist DEF Halves
<1>2. \A k \in Lists : k \in Nat /\ (k # 0 => k - 1 \in Lists)
  BY Extents DEF Lists
<1>3. \A k \in Lists : f[k] = IF k = 0 THEN size ELSE f[k - 1] \div 2
  BY <1>1 DEF IsHalves
<1> DEFINE Bad == {k \in Lists : f[k] \notin Nat}
<1>4. Bad = {}
  <2> SUFFICES ASSUME Bad # {} PROVE FALSE
    OBVIOUS
  <2>1. Bad \in SUBSET Nat
    BY <1>2
  <2>2. PICK k \in Bad : \A j \in Bad : k <= j
    <3> HIDE DEF Bad
    <3> QED
      BY <2>1, Least
  <2>3. k # 0
    BY <1>3, <2>2
  <2>4. k - 1 \in Lists /\ ~(k <= k - 1)
    BY <1>2, <2>2, <2>3
  <2>5. f[k - 1] \in Nat
    BY <2>2, <2>4
  <2>6. f[k - 1] \div 2 \in Nat
    BY <2>5
  <2> QED
    BY <1>3, <2>2, <2>3, <2>6
<1> QED
  BY <1>2, <1>3, <1>4

LEMMA SelectIs ==
  ASSUME NEW size \in Nat
  PROVE  /\ select_list(size) \in Lists
         /\ Halves(size)[select_list(size)] <= 1 \/ select_list(size) = MAX_LEN - 1
         /\ \A k \in Lists : k < select_list(size) => Halves(size)[k] > 1
<1> DEFINE Stop(l) == Halves(size)[l] <= 1 \/ l = MAX_LEN - 1
           Is(l) == l \in Lists /\ Stop(l) /\ \A k \in 0..(l - 1) : Halves(size)[k] > 1
           T == {l \in Lists : Stop(l)}
<1>0. MAX_LEN \in Nat /\ MAX_LEN > 0
  BY Extents
<1>1. \A k \in Lists : Halves(size)[k] \in Nat
  BY HalvesAre
<1>2. PICK l \in T : \A k \in T : l <= k
  <2>1. T \in SUBSET Nat /\ MAX_LEN - 1 \in T
    BY <1>0 DEF Lists
  <2> HIDE DEF T
  <2> QED
    BY <2>1, Least
<1>3. Is(l)
  <2> SUFFICES ASSUME NEW k \in 0..(l - 1) PROVE Halves(size)[k] > 1
    BY <1>2
  <2>1. k \in Lists /\ ~(l <= k)
    BY <1>0, <1>2 DEF Lists
  <2>2. ~(Halves(size)[k] <= 1)
    BY <1>2, <2>1
  <2> QED
    BY <1>1, <2>1, <2>2
<1>4. select_list(size) = CHOOSE x \in Lists : Stop(x) /\ \A k \in 0..(x - 1) : Halves(size)[k] > 1
  BY DEF select_list, Halves, IsHalves, Lists
<1>5. Is(select_list(size))
  BY <1>3, <1>4
<1>6. \A k \in Lists : k < select_list(size) => k \in 0..(select_list(size) - 1)
  BY <1>0, <1>5 DEF Lists
<1> QED
  BY <1>5, <1>6

\* Larger blocks are in later lists.
LEMMA SelectOrder ==
  ASSUME NEW s \in Nat, NEW t \in Nat
  PROVE  /\ select_list(s) \in Nat /\ select_list(s) \in Lists
         /\ s <= t => select_list(s) <= select_list(t)
         /\ select_list(s) < select_list(t) => s < t
<1>1. ASSUME NEW x \in Nat, NEW y \in Nat, x <= y PROVE select_list(x) <= select_list(y)
  <2> DEFINE f == Halves(x)
             g == Halves(y)
             Bad == {k \in Lists : ~(f[k] <= g[k])}
  <2>1. /\ \A k \in Lists : f[k] \in Nat /\ (k = 0 => f[k] = x)
        /\ \A k \in Lists : k # 0 => k - 1 \in Lists /\ f[k] = f[k - 1] \div 2
    BY HalvesAre
  <2>2. /\ \A k \in Lists : g[k] \in Nat /\ (k = 0 => g[k] = y)
        /\ \A k \in Lists : k # 0 => k - 1 \in Lists /\ g[k] = g[k - 1] \div 2
    BY HalvesAre
  <2> HIDE DEF f, g
  <2>3. Bad = {}
    <3> SUFFICES ASSUME Bad # {} PROVE FALSE
      OBVIOUS
    <3>1. Bad \in SUBSET Nat
      BY Extents DEF Lists
    <3>2. PICK k \in Bad : \A j \in Bad : k <= j
      <4> HIDE DEF Bad
      <4> QED
        BY <3>1, Least
    <3>3. k \in Lists /\ k \in Nat /\ k # 0
      BY <1>1, <2>1, <2>2, <3>1, <3>2
    <3>4. k - 1 \in Lists /\ ~(k <= k - 1)
      BY <2>1, <3>3
    <3>5. f[k - 1] <= g[k - 1] /\ f[k - 1] \in Nat /\ g[k - 1] \in Nat
      BY <2>1, <2>2, <3>2, <3>4
    <3>6. f[k - 1] \div 2 <= g[k - 1] \div 2
      BY <3>5
    <3> QED
      BY <2>1, <2>2, <3>2, <3>3, <3>6
  <2>4. /\ select_list(x) \in Lists /\ select_list(y) \in Lists
        /\ g[select_list(y)] <= 1 \/ select_list(y) = MAX_LEN - 1
        /\ \A k \in Lists : k < select_list(x) => f[k] > 1
    BY SelectIs DEF f, g
  <2> SUFFICES ASSUME select_list(y) < select_list(x) PROVE FALSE
    BY <2>4, Extents DEF Lists
  <2>5. select_list(y) # MAX_LEN - 1
    BY <2>4, Extents DEF Lists
  <2>6. g[select_list(y)] <= 1 /\ f[select_list(y)] > 1 /\ f[select_list(y)] <= g[select_list(y)]
    BY <2>3, <2>4, <2>5
  <2> QED
    BY <2>1, <2>2, <2>4, <2>6
<1>2. select_list(s) \in Lists /\ select_list(t) \in Lists
  BY SelectIs
<1>3. select_list(s) \in Nat /\ select_list(t) \in Nat
  BY <1>2, Extents DEF Lists
<1>4. s <= t => select_list(s) <= select_list(t)
  BY <1>1
<1>5. t <= s => select_list(t) <= select_list(s)
  BY <1>1
<1> QED
  BY <1>2, <1>3, <1>4, <1>5

-----------------------------------------------------------------------------
(* The segregated lists: runs of one ascending sequence of blocks          *)

Cl(blk, b) == select_list(blk[b].size)

\* The block at place i of q, if it is in list l.
At(q, blk, l, i) == IF i \in 1..Len(q) /\ Cl(blk, q[i]) = l THEN q[i] ELSE NULL

\* List l is what follows place n - 1 of q.
Starts(q, blk, l, n) ==
  n \in 1..(Len(q) + 1) /\ \A i \in 1..Len(q) : i < n <=> Cl(blk, q[i]) < l

\* The links and heads say that the lists are the runs of q.
Linked(h, q, blk) ==
  /\ \A i \in 1..Len(q) : /\ h.mem[q[i]] = At(q, blk, Cl(blk, q[i]), i + 1)
                          /\ h.mem[q[i] + 8] = At(q, blk, Cl(blk, q[i]), i - 1)
  /\ \A l \in Lists, n \in 1..(Len(q) + 1) : Starts(q, blk, l, n) => h.seg_list[l] = At(q, blk, l, n)

\* q lists the blocks of S, which have room for their links.
Shelf(q, S, blk) ==
  B!Listing(q, S, blk) /\ \A x \in S : Site(x) /\ blk[x].size \in Nat

LEMMA ShelfIs ==
  ASSUME NEW q, NEW S, NEW blk, Shelf(q, S, blk)
  PROVE  /\ q \in Seq(Nat) /\ Len(q) \in Nat /\ DOMAIN q = 1..Len(q)
         /\ \A i \in 1..Len(q) : q[i] \in S /\ Site(q[i]) /\ blk[q[i]].size \in Nat
         /\ \A x \in S : \E i \in 1..Len(q) : q[i] = x
         /\ \A i, j \in 1..Len(q) : q[i] = q[j] => i = j
         /\ \A i, j \in 1..Len(q) : i < j => blk[q[i]].size <= blk[q[j]].size
         /\ \A x \in S : Cl(blk, x) \in Nat /\ Cl(blk, x) \in Lists
         /\ \A i, j \in 1..Len(q) : i < j => Cl(blk, q[i]) <= Cl(blk, q[j])
<1>1. /\ Len(q) \in Nat /\ DOMAIN q = 1..Len(q) /\ S \subseteq Nat
      /\ \A i \in 1..Len(q) : q[i] \in S
      /\ \A x \in S : \E i \in 1..Len(q) : q[i] = x
  BY BlocksAssumed, B!ListingShape DEF Shelf
<1>2. /\ q \in Seq(Nat)
      /\ \A i, j \in 1..Len(q) : q[i] = q[j] => i = j
      /\ \A i, j \in 1..Len(q) : i < j => blk[q[i]].size <= blk[q[j]].size
  BY <1>1 DEF Shelf, B!Listing
<1>3. \A x \in S : Site(x) /\ blk[x].size \in Nat
  BY DEF Shelf
<1>4. \A x \in S : Cl(blk, x) \in Nat /\ Cl(blk, x) \in Lists
  BY <1>3, SelectOrder DEF Cl
<1>5. ASSUME NEW i \in 1..Len(q), NEW j \in 1..Len(q), i < j
      PROVE  Cl(blk, q[i]) <= Cl(blk, q[j])
  <2>1. blk[q[i]].size \in Nat /\ blk[q[j]].size \in Nat /\ blk[q[i]].size <= blk[q[j]].size
    BY <1>1, <1>2, <1>3, <1>5
  <2> QED
    BY <2>1, SelectOrder DEF Cl
<1> QED
  BY <1>1, <1>2, <1>3, <1>4, <1>5

LEMMA StartsExist ==
  ASSUME NEW q, NEW S, NEW blk, Shelf(q, S, blk), NEW l \in Nat
  PROVE  \E n \in 1..(Len(q) + 1) : Starts(q, blk, l, n)
<1> DEFINE T == {i \in 1..Len(q) : Cl(blk, q[i]) < l}
<1>1. /\ Len(q) \in Nat
      /\ \A i \in 1..Len(q) : Cl(blk, q[i]) \in Nat
      /\ \A i, j \in 1..Len(q) : i < j => Cl(blk, q[i]) <= Cl(blk, q[j])
  BY ShelfIs
<1>2. T \in SUBSET (1..Len(q)) /\ \A i \in T, j \in 1..Len(q) : j < i => j \in T
  BY <1>1
<1>3. PICK m \in 0..Len(q) : T = 1..m
  <2>1. PICK n \in Nat : n = Len(q)
    BY <1>1
  <2> HIDE DEF T
  <2>2. T \in SUBSET (1..n) /\ \A i \in T, j \in 1..n : j < i => j \in T
    BY <1>2, <2>1
  <2>3. \E m \in 0..n : B!Cardinality(T) = m /\ T = 1..m
    BY <2>2, BlocksAssumed, B!CountBelow
  <2> QED
    BY <2>1, <2>3
<1>4. m + 1 \in 1..(Len(q) + 1) /\ \A i \in 1..Len(q) : i < m + 1 <=> i \in T
  <2> HIDE DEF T
  <2> QED
    BY <1>1, <1>3
<1>5. Starts(q, blk, l, m + 1)
  BY <1>4 DEF Starts
<1> QED
  BY <1>4, <1>5

LEMMA AtIs ==
  ASSUME NEW q, NEW S, NEW blk, Shelf(q, S, blk), NEW l, NEW i
  PROVE  Site(At(q, blk, l, i)) \/ At(q, blk, l, i) = NULL
BY ShelfIs DEF At

LEMMA AtInserted ==
  ASSUME NEW q \in Seq(Nat), NEW blk, NEW ptr, NEW pos, NEW r, B!Entered(q, blk, ptr, pos, r)
  PROVE  /\ Len(q) \in Nat /\ pos \in 1..(Len(q) + 1) /\ Len(r) = Len(q) + 1
         /\ \A j \in 1..(Len(q) + 1) : r[j] = IF j < pos THEN q[j] ELSE IF j = pos THEN ptr ELSE q[j - 1]
         /\ \A k, j \in Int :
              At(r, blk, k, j) = IF j < pos THEN At(q, blk, k, j)
                                 ELSE IF j = pos THEN IF Cl(blk, ptr) = k THEN ptr ELSE NULL
                                 ELSE At(q, blk, k, j - 1)
<1>1. /\ Len(q) \in Nat /\ pos \in 1..(Len(q) + 1) /\ Len(r) = Len(q) + 1
      /\ \A j \in 1..(Len(q) + 1) : r[j] = IF j < pos THEN q[j] ELSE IF j = pos THEN ptr ELSE q[j - 1]
  BY LenProperties DEF B!Entered, B!Inserted
<1>3. ASSUME NEW k \in Int, NEW j \in Int
      PROVE  At(r, blk, k, j) = IF j < pos THEN At(q, blk, k, j)
                                ELSE IF j = pos THEN IF Cl(blk, ptr) = k THEN ptr ELSE NULL
                                ELSE At(q, blk, k, j - 1)
  <2>1. CASE j < pos
    <3>1. j \in 1..Len(r) <=> j \in 1..Len(q)
      BY <1>1, <2>1
    <3>2. j \in 1..Len(q) => r[j] = q[j]
      BY <1>1, <2>1
    <3> QED
      BY <2>1, <3>1, <3>2 DEF At
  <2>2. CASE j = pos
    <3>1. j \in 1..Len(r) /\ r[j] = ptr /\ ~(j < pos)
      BY <1>1, <2>2
    <3> QED
      BY <2>2, <3>1 DEF At
  <2>3. CASE j > pos
    <3>1. (j \in 1..Len(r) <=> j - 1 \in 1..Len(q)) /\ ~(j < pos) /\ j # pos
      BY <1>1, <2>3
    <3>2. j \in 1..Len(r) => r[j] = q[j - 1]
      BY <1>1, <2>3
    <3> QED
      BY <3>1, <3>2 DEF At
  <2> QED
    BY <1>1, <2>1, <2>2, <2>3
<1> QED
  BY <1>1, <1>3

\* r is q without place pos.
Without(q, blk, pos, r) ==
  /\ Len(q) \in Nat /\ pos \in 1..Len(q) /\ Len(r) = Len(q) - 1
  /\ \A j \in 1..(Len(q) - 1) : r[j] = IF j < pos THEN q[j] ELSE q[j + 1]
  /\ \A k, j \in Int :
       At(r, blk, k, j) = IF j < pos THEN At(q, blk, k, j) ELSE At(q, blk, k, j + 1)

LEMMA AtRemoved ==
  ASSUME NEW q \in Seq(Nat), NEW blk, NEW pos, NEW r, B!Removed(q, pos, r)
  PROVE  Without(q, blk, pos, r)
<1>1. /\ Len(q) \in Nat /\ pos \in 1..Len(q) /\ Len(r) = Len(q) - 1
      /\ \A j \in 1..(Len(q) - 1) : r[j] = IF j < pos THEN q[j] ELSE q[j + 1]
  BY LenProperties DEF B!Removed
<1>3. ASSUME NEW k \in Int, NEW j \in Int
      PROVE  At(r, blk, k, j) = IF j < pos THEN At(q, blk, k, j) ELSE At(q, blk, k, j + 1)
  <2>1. CASE j < pos
    <3>1. j \in 1..Len(r) <=> j \in 1..Len(q)
      BY <1>1, <2>1
    <3>2. j \in 1..Len(q) => r[j] = q[j]
      BY <1>1, <2>1
    <3> QED
      BY <2>1, <3>1, <3>2 DEF At
  <2>2. CASE ~(j < pos)
    <3>0. Len(q) \in Nat /\ pos \in Nat /\ pos >= 1 /\ Len(r) = Len(q) - 1
      BY <1>1
    <3>1. j \in 1..Len(r) <=> j + 1 \in 1..Len(q)
      BY <2>2, <3>0
    <3>2. j \in 1..Len(r) => r[j] = q[j + 1]
      BY <1>1, <2>2
    <3> QED
      BY <2>2, <3>1, <3>2 DEF At
  <2> QED
    BY <1>1, <2>1, <2>2
<1> QED
  BY <1>1, <1>3 DEF Without

\* Nothing but the links of the blocks of S differs.
LinksOnly(h, g, S) ==
  /\ IsWords(g) /\ g.mem_brk = h.mem_brk
  /\ \A x \in WordAddress : (\A b \in S : x # b /\ x # b + 8) => g.mem[x] = h.mem[x]

\* What Linked says of the block at place i.
LEMMA LinksAre ==
  ASSUME NEW h, NEW q, NEW S, NEW blk, Shelf(q, S, blk), Linked(h, q, blk), NEW i \in 1..Len(q)
  PROVE  /\ h.mem[q[i]] = At(q, blk, Cl(blk, q[i]), i + 1)
         /\ h.mem[q[i] + 8] = At(q, blk, Cl(blk, q[i]), i - 1)
BY DEF Linked

LEMMA LinkedInserted ==
  ASSUME NEW h, IsWords(h), NEW q, NEW S, NEW blk, Shelf(q, S, blk), Linked(h, q, blk),
         NEW ptr, Site(ptr), ptr \notin S, blk[ptr].size \in Nat,
         NEW pos, NEW r, B!Entered(q, blk, ptr, pos, r), B!Listing(r, S \cup {ptr}, blk),
         NEW l, l = Cl(blk, ptr),
         NEW g, g = LinkNode(h, l, ptr, At(q, blk, l, pos - 1), At(q, blk, l, pos))
  PROVE  /\ Shelf(r, S \cup {ptr}, blk) /\ Linked(g, r, blk)
         /\ LinksOnly(h, g, S \cup {ptr})
<1> DEFINE in == At(q, blk, l, pos - 1)
           cur == At(q, blk, l, pos)
<1>1. /\ q \in Seq(Nat) /\ Len(q) \in Nat
      /\ \A i \in 1..Len(q) : q[i] \in S /\ Site(q[i]) /\ blk[q[i]].size \in Nat
      /\ \A i, j \in 1..Len(q) : q[i] = q[j] => i = j
      /\ \A i \in 1..Len(q) : Cl(blk, q[i]) \in Nat /\ Cl(blk, q[i]) \in Lists
      /\ \A i, j \in 1..Len(q) : i < j => Cl(blk, q[i]) <= Cl(blk, q[j])
  BY ShelfIs
<1>2. l \in Lists /\ l \in Nat
  BY SelectOrder DEF Cl
<1>3. /\ pos \in 1..(Len(q) + 1) /\ pos \in Nat /\ pos >= 1 /\ Len(r) = Len(q) + 1
      /\ \A j \in 1..(Len(q) + 1) : r[j] = IF j < pos THEN q[j] ELSE IF j = pos THEN ptr ELSE q[j - 1]
      /\ \A k, j \in Int :
           At(r, blk, k, j) = IF j < pos THEN At(q, blk, k, j)
                              ELSE IF j = pos THEN IF l = k THEN ptr ELSE NULL
                              ELSE At(q, blk, k, j - 1)
  BY <1>1, AtInserted
<1>4. /\ \A i \in 1..Len(q) : i < pos => Cl(blk, q[i]) <= l
      /\ \A i \in 1..Len(q) : ~(i < pos) => l <= Cl(blk, q[i])
  <2> SUFFICES ASSUME NEW i \in 1..Len(q)
               PROVE  IF i < pos THEN Cl(blk, q[i]) <= l ELSE l <= Cl(blk, q[i])
    OBVIOUS
  <2>1. IF i < pos THEN blk[q[i]].size <= blk[ptr].size ELSE blk[ptr].size <= blk[q[i]].size
    BY <1>1, SMTT(40) DEF B!Entered
  <2>2. blk[q[i]].size \in Nat
    BY <1>1
  <2> QED
    BY <2>1, <2>2, SelectOrder DEF Cl
<1>5. (Site(in) \/ in = NULL) /\ (Site(cur) \/ cur = NULL)
  BY AtIs
<1>6. /\ in = (IF pos - 1 \in 1..Len(q) /\ Cl(blk, q[pos - 1]) = l THEN q[pos - 1] ELSE NULL)
      /\ cur = (IF pos \in 1..Len(q) /\ Cl(blk, q[pos]) = l THEN q[pos] ELSE NULL)
  BY DEF At
<1>7. g = LinkNode(h, l, ptr, in, cur) /\ in = At(q, blk, l, pos - 1) /\ cur = At(q, blk, l, pos)
  OBVIOUS
<1> HIDE DEF in, cur
<1>8. /\ IsWords(g) /\ g.mem_brk = h.mem_brk
      /\ \A x \in WordAddress :
           g.mem[x] = IF x = in THEN ptr ELSE IF x = cur + 8 THEN ptr
                      ELSE IF x = ptr + 8 THEN in ELSE IF x = ptr THEN cur ELSE h.mem[x]
      /\ \A k \in Lists :
           g.seg_list[k] = IF k = l /\ in = NULL THEN ptr ELSE h.seg_list[k]
  <2>1. LinkedIn(h, l, ptr, in, cur, g)
    BY <1>2, <1>5, <1>7, LinkNodeIs
  <2> QED
    BY <2>1 DEF LinkedIn
<1>9. \A i \in 1..Len(q) : q[i] # ptr /\ q[i] # NULL
  BY <1>1, SitesApart
<1>10. /\ (in # NULL => pos - 1 \in 1..Len(q) /\ Cl(blk, q[pos - 1]) = l /\ in = q[pos - 1])
       /\ (in = NULL => ~(pos - 1 \in 1..Len(q) /\ Cl(blk, q[pos - 1]) = l))
       /\ (cur # NULL => pos \in 1..Len(q) /\ Cl(blk, q[pos]) = l /\ cur = q[pos])
       /\ (cur = NULL => ~(pos \in 1..Len(q) /\ Cl(blk, q[pos]) = l))
       /\ in # ptr /\ cur # ptr /\ ptr # NULL
  BY <1>6, <1>9, SitesApart
\* The two words of ptr.
<1>11. g.mem[ptr] = cur /\ g.mem[ptr + 8] = in
  <2>1. ptr \in WordAddress /\ ptr + 8 \in WordAddress /\ ptr # ptr + 8 /\ ptr # in
        /\ ptr # cur + 8 /\ ptr + 8 # in /\ ptr + 8 # cur + 8
    BY <1>5, <1>10, SitesApart
  <2> QED
    BY <1>8, <2>1
\* The two words of another block.
<1>12. ASSUME NEW i \in 1..Len(q)
       PROVE  /\ g.mem[q[i]] = IF q[i] = in THEN ptr ELSE At(q, blk, Cl(blk, q[i]), i + 1)
              /\ g.mem[q[i] + 8] = IF q[i] = cur THEN ptr ELSE At(q, blk, Cl(blk, q[i]), i - 1)
  <2>1. Site(q[i]) /\ q[i] # ptr
    BY <1>1, <1>9
  <2>2. /\ q[i] \in WordAddress /\ q[i] + 8 \in WordAddress
        /\ q[i] # cur + 8 /\ q[i] # ptr + 8 /\ q[i] + 8 # in /\ q[i] + 8 # ptr /\ q[i] + 8 # ptr + 8
        /\ (q[i] + 8 = cur + 8 <=> q[i] = cur)
    BY <1>5, <2>1, SitesApart
  <2>3. /\ h.mem[q[i]] = At(q, blk, Cl(blk, q[i]), i + 1)
        /\ h.mem[q[i] + 8] = At(q, blk, Cl(blk, q[i]), i - 1)
    BY LinksAre
  <2> QED
    BY <1>8, <2>1, <2>2, <2>3
<1>13. ASSUME NEW j \in 1..Len(r)
       PROVE  /\ g.mem[r[j]] = At(r, blk, Cl(blk, r[j]), j + 1)
              /\ g.mem[r[j] + 8] = At(r, blk, Cl(blk, r[j]), j - 1)
  <2>1. CASE j = pos
    <3>1. r[j] = ptr
      BY <1>3, <2>1
    <3>2. At(r, blk, l, pos + 1) = cur /\ At(r, blk, l, pos - 1) = in
      <4>1. pos + 1 \in Int /\ ~(pos + 1 < pos) /\ pos + 1 # pos /\ (pos + 1) - 1 = pos
            /\ pos - 1 \in Int /\ pos - 1 < pos /\ l \in Int
        BY <1>2, <1>3
      <4> QED
        BY <1>3, <1>7, <4>1
    <3> QED
      BY <1>11, <2>1, <3>1, <3>2
  <2>2. CASE j < pos
    <3>1. j \in 1..Len(q) /\ r[j] = q[j] /\ j + 1 \in Int /\ j - 1 \in Int /\ j - 1 < pos
      BY <1>1, <1>3, <2>2
    <3> DEFINE k == Cl(blk, q[j])
    <3>2. k \in Nat /\ k <= l
      BY <1>1, <1>4, <2>2, <3>1
    <3>3. g.mem[q[j] + 8] = At(r, blk, k, j - 1)
      <4>1. q[j] # cur
        BY <1>1, <1>9, <1>10, <2>2, <3>1, SMTT(40)
      <4>2. At(r, blk, k, j - 1) = At(q, blk, k, j - 1)
        BY <1>3, <3>1, <3>2
      <4> QED
        BY <1>12, <3>1, <4>1, <4>2
    <3>4. CASE q[j] = in
      <4>1. j = pos - 1 /\ k = l
        BY <1>1, <1>9, <1>10, <3>1, <3>4
      <4>2. j + 1 = pos
        BY <1>3, <4>1
      <4>3. At(r, blk, k, j + 1) = ptr
        BY <1>3, <3>1, <3>2, <4>1, <4>2
      <4> QED
        BY <1>12, <3>1, <3>3, <3>4, <4>3
    <3>5. CASE q[j] # in
      <4>1. At(r, blk, k, j + 1) = At(q, blk, k, j + 1)
        <5>1. CASE j + 1 < pos
          BY <1>3, <3>1, <3>2, <5>1
        <5>2. CASE ~(j + 1 < pos)
          <6>1. j + 1 = pos /\ pos - 1 = j
            BY <1>3, <2>2, <3>1, <5>2
          <6>2. k # l
            BY <1>10, <3>1, <3>5, <6>1
          <6>3. At(r, blk, k, j + 1) = NULL
            BY <1>3, <3>1, <3>2, <6>1, <6>2
          <6>4. pos \in 1..Len(q) => Cl(blk, q[pos]) # k
            BY <1>1, <1>2, <1>3, <1>4, <3>2, <6>2
          <6> QED
            BY <6>1, <6>3, <6>4 DEF At
        <5> QED
          BY <5>1, <5>2
      <4> QED
        BY <1>12, <3>1, <3>3, <3>5, <4>1
    <3> QED
      BY <3>4, <3>5
  <2>3. CASE j > pos
    <3> DEFINE i == j - 1
    <3>1. i \in 1..Len(q) /\ r[j] = q[i] /\ ~(i < pos) /\ i + 1 = j /\ j \in Int /\ i \in Int
          /\ j + 1 \in Int /\ ~(j + 1 < pos) /\ j + 1 # pos /\ (j + 1) - 1 = j
      BY <1>1, <1>3, <2>3
    <3> HIDE DEF i
    <3> DEFINE k == Cl(blk, q[i])
    <3>2. k \in Nat /\ l <= k
      BY <1>1, <1>4, <3>1
    <3>3. g.mem[q[i]] = At(r, blk, k, j + 1)
      <4>1. q[i] # in
        <5>1. i # pos - 1
          BY <1>3, <3>1
        <5> QED
          BY <1>1, <1>9, <1>10, <3>1, <5>1
      <4>2. At(r, blk, k, j + 1) = At(q, blk, k, j)
        BY <1>3, <3>1, <3>2
      <4> QED
        BY <1>12, <3>1, <4>1, <4>2
    <3>4. CASE q[i] = cur
      <4>1. i = pos /\ k = l
        BY <1>1, <1>9, <1>10, <3>1, <3>4
      <4>2. At(r, blk, k, j - 1) = ptr
        BY <1>3, <3>1, <3>2, <4>1 DEF i
      <4> QED
        BY <1>12, <3>1, <3>3, <3>4, <4>2
    <3>5. CASE q[i] # cur
      <4>1. At(r, blk, k, i) = At(q, blk, k, i - 1)
        <5>1. CASE i # pos
          BY <1>3, <3>1, <3>2, <5>1
        <5>2. CASE i = pos
          <6>1. k # l
            BY <1>10, <3>1, <3>5, <5>2
          <6>2. At(r, blk, k, i) = NULL
            BY <1>3, <3>1, <3>2, <5>2, <6>1
          <6>3. i - 1 \in 1..Len(q) => i - 1 < pos
            BY <3>1, <5>2
          <6>4. i - 1 \in 1..Len(q) => Cl(blk, q[i - 1]) # k
            <7> SUFFICES ASSUME i - 1 \in 1..Len(q), Cl(blk, q[i - 1]) = k PROVE FALSE
              OBVIOUS
            <7>1. Cl(blk, q[i - 1]) <= l
              BY <1>4, <6>3
            <7> QED
              BY <1>2, <3>2, <6>1, <7>1
          <6> QED
            BY <6>2, <6>4 DEF At
        <5> QED
          BY <5>1, <5>2
      <4>2. j - 1 = i
        BY DEF i
      <4> QED
        BY <1>12, <3>1, <3>3, <3>5, <4>1, <4>2
    <3> QED
      BY <3>4, <3>5
  <2> QED
    BY <1>3, <2>1, <2>2, <2>3
<1>14. ASSUME NEW k \in Lists, NEW n \in 1..(Len(r) + 1), Starts(r, blk, k, n)
       PROVE  g.seg_list[k] = At(r, blk, k, n)
  <2>1. \A i \in 1..Len(r) : i < n <=> Cl(blk, r[i]) < k
    BY <1>14 DEF Starts
  <2>2. k \in Nat /\ n \in Int /\ k \in Int
    BY Extents DEF Lists
  <2>3. \A i \in 1..Len(q) : i < pos => i \in 1..Len(r) /\ r[i] = q[i]
    BY <1>1, <1>3, SMTT(40)
  <2>4. \A i \in 1..Len(q) : ~(i < pos) => i + 1 \in 1..Len(r) /\ r[i + 1] = q[i]
    <3> SUFFICES ASSUME NEW i \in 1..Len(q), ~(i < pos)
                 PROVE  i + 1 \in 1..Len(r) /\ r[i + 1] = q[i]
      OBVIOUS
    <3>1. i + 1 \in 1..(Len(q) + 1) /\ ~(i + 1 < pos) /\ i + 1 # pos /\ (i + 1) - 1 = i
      BY <1>1, <1>3
    <3> QED
      BY <1>3, <3>1
  <2>5. pos \in 1..Len(r) /\ r[pos] = ptr
    BY <1>3
  <2>6. CASE k <= l
    <3>1. n <= pos
      <4>1. ~(l < k)
        BY <1>2, <2>2, <2>6
      <4>2. ~(pos < n)
        BY <2>1, <2>5, <4>1
      <4> QED
        BY <1>3, <2>2, <4>2
    <3>2. n \in 1..(Len(q) + 1)
      BY <1>1, <1>3, <3>1
    <3>3. ASSUME NEW i \in 1..Len(q) PROVE i < n <=> Cl(blk, q[i]) < k
      <4>1. CASE i < pos
        BY <2>1, <2>3, <4>1
      <4>2. CASE ~(i < pos)
        <5>1. ~(i < n)
          BY <1>3, <2>2, <3>1, <4>2
        <5>2. ~(Cl(blk, q[i]) < k)
          BY <1>1, <1>2, <1>4, <2>2, <2>6, <4>2
        <5> QED
          BY <5>1, <5>2
      <4> QED
        BY <4>1, <4>2
    <3>4. Starts(q, blk, k, n)
      BY <3>2, <3>3 DEF Starts
    <3>5. h.seg_list[k] = At(q, blk, k, n)
      BY <3>2, <3>4 DEF Linked
    <3>6. CASE k = l /\ in = NULL
      <4>1. n = pos
        <5> SUFFICES ASSUME n < pos PROVE FALSE
          BY <1>3, <2>2, <3>1
        <5>1. pos - 1 \in 1..Len(q) /\ ~(pos - 1 < n) /\ pos - 1 < pos
          BY <1>1, <1>3, <2>2
        <5>2. ~(Cl(blk, q[pos - 1]) < k) /\ Cl(blk, q[pos - 1]) <= l /\ Cl(blk, q[pos - 1]) \in Nat
          BY <1>1, <1>4, <3>3, <5>1
        <5>3. Cl(blk, q[pos - 1]) = l
          BY <1>2, <3>6, <5>2
        <5> QED
          BY <1>10, <3>6, <5>1, <5>3
      <4>2. At(r, blk, k, n) = ptr
        BY <1>3, <2>2, <3>6, <4>1
      <4> QED
        BY <1>8, <3>6, <4>2
    <3>7. CASE k = l /\ in # NULL
      <4>1. pos - 1 \in 1..Len(q) /\ ~(Cl(blk, q[pos - 1]) < k)
        BY <1>2, <1>10, <3>7
      <4>2. ~(pos - 1 < n)
        BY <3>3, <4>1
      <4>3. n < pos
        BY <1>3, <2>2, <4>2
      <4>4. At(r, blk, k, n) = At(q, blk, k, n)
        BY <1>3, <2>2, <4>3
      <4> QED
        BY <1>8, <3>5, <3>7, <4>4
    <3>8. CASE k # l
      <4>1. At(r, blk, k, n) = At(q, blk, k, n)
        <5>1. CASE n < pos
          BY <1>3, <2>2, <5>1
        <5>2. CASE n = pos
          <6>1. At(r, blk, k, n) = NULL
            BY <1>3, <2>2, <3>8, <5>2
          <6>2. pos \in 1..Len(q) => Cl(blk, q[pos]) # k
            <7> SUFFICES ASSUME pos \in 1..Len(q), Cl(blk, q[pos]) = k PROVE FALSE
              OBVIOUS
            <7>1. l <= Cl(blk, q[pos])
              BY <1>3, <1>4
            <7> QED
              BY <1>2, <2>2, <2>6, <3>8, <7>1
          <6> QED
            BY <5>2, <6>1, <6>2 DEF At
        <5> QED
          BY <1>3, <2>2, <3>1, <5>1, <5>2
      <4> QED
        BY <1>8, <3>5, <3>8, <4>1
    <3> QED
      BY <3>6, <3>7, <3>8
  <2>7. CASE l < k
    <3>1. pos < n
      BY <2>1, <2>5, <2>7
    <3>2. n - 1 \in 1..(Len(q) + 1)
      BY <1>1, <1>3, <3>1
    <3>3. ASSUME NEW i \in 1..Len(q) PROVE i < n - 1 <=> Cl(blk, q[i]) < k
      <4>1. CASE i < pos
        <5>1. i < n - 1 /\ i < n
          BY <1>3, <2>2, <3>1, <4>1
        <5> QED
          BY <2>1, <2>3, <4>1, <5>1
      <4>2. CASE ~(i < pos)
        <5>1. i < n - 1 <=> i + 1 < n
          BY <2>2
        <5> QED
          BY <2>1, <2>4, <4>2, <5>1
      <4> QED
        BY <4>1, <4>2
    <3>4. Starts(q, blk, k, n - 1)
      BY <3>2, <3>3 DEF Starts
    <3>5. h.seg_list[k] = At(q, blk, k, n - 1)
      BY <3>2, <3>4 DEF Linked
    <3>6. At(r, blk, k, n) = At(q, blk, k, n - 1)
      <4>1. ~(n < pos) /\ n # pos
        BY <1>3, <2>2, <3>1
      <4> QED
        BY <1>3, <2>2, <4>1
    <3>7. k # l
      BY <1>2, <2>2, <2>7
    <3> QED
      BY <1>8, <3>5, <3>6, <3>7
  <2> QED
    BY <1>2, <2>2, <2>6, <2>7
<1>15. Linked(g, r, blk)
  BY <1>13, <1>14 DEF Linked
<1>16. Shelf(r, S \cup {ptr}, blk)
  BY DEF Shelf
<1>17. LinksOnly(h, g, S \cup {ptr})
  <2> SUFFICES ASSUME NEW x \in WordAddress, \A b \in S \cup {ptr} : x # b /\ x # b + 8
               PROVE  g.mem[x] = h.mem[x]
    BY <1>8 DEF LinksOnly
  <2>1. x # ptr /\ x # ptr + 8
    OBVIOUS
  <2>2. x # in
    <3>1. CASE in = NULL
      BY <3>1, WordsAre, Extents
    <3>2. CASE in # NULL
      BY <1>1, <1>10, <3>2
    <3> QED
      BY <3>1, <3>2
  <2>3. x # cur + 8
    <3>1. CASE cur = NULL
      <4>1. x # 8
        BY WordsAre, Extents
      <4> QED
        BY <3>1, <4>1, Extents
    <3>2. CASE cur # NULL
      BY <1>1, <1>10, <3>2
    <3> QED
      BY <3>1, <3>2
  <2> QED
    BY <1>8, <2>1, <2>2, <2>3
<1> QED
  BY <1>15, <1>16, <1>17

LEMMA LinkedRemoved ==
  ASSUME NEW h, IsWords(h), NEW q, NEW S, NEW blk, Shelf(q, S, blk), Linked(h, q, blk),
         NEW pos, NEW r, NEW ptr, ptr = q[pos], B!Removed(q, pos, r), B!Listing(r, S \ {ptr}, blk),
         BlockSize(h, ptr) = blk[ptr].size,
         NEW g, g = node_remove(h, ptr)
  PROVE  /\ Shelf(r, S \ {ptr}, blk) /\ Linked(g, r, blk)
         /\ LinksOnly(h, g, S \ {ptr})
<1> DEFINE l == Cl(blk, ptr)
           back == At(q, blk, l, pos - 1)
           larger == At(q, blk, l, pos + 1)
<1>1. /\ q \in Seq(Nat) /\ Len(q) \in Nat
      /\ \A i \in 1..Len(q) : q[i] \in S /\ Site(q[i]) /\ blk[q[i]].size \in Nat
      /\ \A i, j \in 1..Len(q) : q[i] = q[j] => i = j
      /\ \A i \in 1..Len(q) : Cl(blk, q[i]) \in Nat /\ Cl(blk, q[i]) \in Lists
      /\ \A i, j \in 1..Len(q) : i < j => Cl(blk, q[i]) <= Cl(blk, q[j])
  BY ShelfIs
<1>2. /\ pos \in 1..Len(q) /\ pos \in Nat /\ pos >= 1 /\ Len(r) = Len(q) - 1
      /\ \A j \in 1..(Len(q) - 1) : r[j] = IF j < pos THEN q[j] ELSE q[j + 1]
      /\ \A k, j \in Int :
           At(r, blk, k, j) = IF j < pos THEN At(q, blk, k, j) ELSE At(q, blk, k, j + 1)
  <2>1. q \in Seq(Nat)
    BY <1>1
  <2>2. /\ Len(q) \in Nat /\ pos \in 1..Len(q) /\ Len(r) = Len(q) - 1
        /\ \A j \in 1..(Len(q) - 1) : r[j] = IF j < pos THEN q[j] ELSE q[j + 1]
        /\ \A k, j \in Int :
             At(r, blk, k, j) = IF j < pos THEN At(q, blk, k, j) ELSE At(q, blk, k, j + 1)
    <3>1. Without(q, blk, pos, r)
      BY <2>1, AtRemoved
    <3> QED
      BY <3>1 DEF Without
  <2>3. pos \in Nat /\ pos >= 1
    BY <2>2
  <2> QED
    BY <2>2, <2>3
<1>a. Len(q) \in Nat /\ Len(r) = Len(q) - 1 /\ pos \in Int /\ pos >= 1 /\ pos <= Len(q)
  BY <1>1, <1>2
<1>3. l \in Lists /\ l \in Nat
  BY <1>1, <1>2
<1>4. /\ \A i \in 1..Len(q) : i < pos => Cl(blk, q[i]) <= l
      /\ \A i \in 1..Len(q) : ~(i < pos) => l <= Cl(blk, q[i])
  <2> SUFFICES ASSUME NEW i \in 1..Len(q)
               PROVE  IF i < pos THEN Cl(blk, q[i]) <= l ELSE l <= Cl(blk, q[i])
    OBVIOUS
  <2>1. i = pos \/ i < pos \/ pos < i
    BY <1>a
  <2>2. /\ i < pos => Cl(blk, q[i]) <= Cl(blk, q[pos])
        /\ pos < i => Cl(blk, q[pos]) <= Cl(blk, q[i])
        /\ i = pos => Cl(blk, q[pos]) = Cl(blk, q[i])
        /\ Cl(blk, q[i]) \in Nat
    BY <1>1, <1>2
  <2>3. l = Cl(blk, q[pos])
    OBVIOUS
  <2> HIDE DEF l
  <2>4. ~(i < pos) => i = pos \/ pos < i
    BY <2>1
  <2> QED
    BY <1>3, <2>2, <2>3, <2>4
<1>5. (Site(back) \/ back = NULL) /\ (Site(larger) \/ larger = NULL)
  BY AtIs
<1>6. /\ back = (IF pos - 1 \in 1..Len(q) /\ Cl(blk, q[pos - 1]) = l THEN q[pos - 1] ELSE NULL)
      /\ larger = (IF pos + 1 \in 1..Len(q) /\ Cl(blk, q[pos + 1]) = l THEN q[pos + 1] ELSE NULL)
  BY DEF At
<1>7. /\ l = Cl(blk, q[pos]) /\ l = select_list(BlockSize(h, ptr))
      /\ back = At(q, blk, l, pos - 1) /\ larger = At(q, blk, l, pos + 1)
  BY DEF Cl
<1> HIDE DEF back, larger, l
<1>8. larger = PREV_BLK(h, ptr) /\ back = NEXT_BLK(h, ptr)
  <2>1. /\ h.mem[q[pos]] = At(q, blk, Cl(blk, q[pos]), pos + 1)
        /\ h.mem[q[pos] + 8] = At(q, blk, Cl(blk, q[pos]), pos - 1)
    BY <1>2 DEF Linked
  <2> QED
    BY <1>7, <2>1 DEF PREV_BLK, NEXT_BLK, PREV_PTR, NEXT_PTR
<1>9. /\ IsWords(g) /\ g.mem_brk = h.mem_brk
      /\ \A x \in WordAddress :
           g.mem[x] = IF x = back THEN larger ELSE IF x = larger + 8 THEN back ELSE h.mem[x]
      /\ \A k \in Lists :
           g.seg_list[k] = IF k = l /\ back = NULL THEN larger ELSE h.seg_list[k]
  <2>1. Unlinked(h, l, larger, back, g)
    BY <1>3, <1>5, <1>7, <1>8, UnlinkIs
  <2> QED
    BY <2>1 DEF Unlinked
<1>10. /\ (back # NULL => pos - 1 \in 1..Len(q) /\ Cl(blk, q[pos - 1]) = l /\ back = q[pos - 1])
       /\ (back = NULL => ~(pos - 1 \in 1..Len(q) /\ Cl(blk, q[pos - 1]) = l))
       /\ (larger # NULL => pos + 1 \in 1..Len(q) /\ Cl(blk, q[pos + 1]) = l /\ larger = q[pos + 1])
       /\ (larger = NULL => ~(pos + 1 \in 1..Len(q) /\ Cl(blk, q[pos + 1]) = l))
       /\ \A i \in 1..Len(q) : q[i] # NULL
  BY <1>1, <1>6, SitesApart
\* The two words of a block that stays.
<1>11. ASSUME NEW i \in 1..Len(q)
       PROVE  /\ g.mem[q[i]] = IF q[i] = back THEN larger ELSE At(q, blk, Cl(blk, q[i]), i + 1)
              /\ g.mem[q[i] + 8] = IF q[i] = larger THEN back ELSE At(q, blk, Cl(blk, q[i]), i - 1)
  <2>1. Site(q[i])
    BY <1>1
  <2>2. /\ q[i] \in WordAddress /\ q[i] + 8 \in WordAddress
        /\ q[i] # larger + 8 /\ q[i] + 8 # back
        /\ (q[i] + 8 = larger + 8 <=> q[i] = larger)
    BY <1>5, <2>1, SitesApart
  <2>3. /\ h.mem[q[i]] = At(q, blk, Cl(blk, q[i]), i + 1)
        /\ h.mem[q[i] + 8] = At(q, blk, Cl(blk, q[i]), i - 1)
    BY LinksAre
  <2> QED
    BY <1>9, <2>1, <2>2, <2>3
<1>12. At(q, blk, l, pos - 1) = back /\ At(q, blk, l, pos + 1) = larger
  BY <1>7
<1>13. ASSUME NEW j \in 1..Len(r)
       PROVE  /\ g.mem[r[j]] = At(r, blk, Cl(blk, r[j]), j + 1)
              /\ g.mem[r[j] + 8] = At(r, blk, Cl(blk, r[j]), j - 1)
  <2>1. CASE j < pos
    <3>0. j \in 1..Len(q) /\ j \in 1..(Len(q) - 1) /\ j \in Int /\ j + 1 \in Int
          /\ j - 1 \in Int /\ j - 1 < pos
      BY <1>a, <2>1
    <3>1. j \in 1..Len(q) /\ r[j] = q[j] /\ j \in Int /\ j + 1 \in Int /\ j - 1 \in Int /\ j - 1 < pos
      BY <1>2, <2>1, <3>0
    <3> DEFINE k == Cl(blk, q[j])
    <3>2. k \in Nat /\ k <= l
      BY <1>1, <1>4, <2>1, <3>1
    <3>3. g.mem[q[j] + 8] = At(r, blk, k, j - 1)
      <4>1. q[j] # larger
        <5>1. j # pos + 1
          BY <1>2, <2>1, <3>1
        <5> QED
          BY <1>1, <1>10, <3>1, <5>1
      <4>2. At(r, blk, k, j - 1) = At(q, blk, k, j - 1)
        BY <1>2, <3>1, <3>2
      <4> QED
        BY <1>11, <3>1, <4>1, <4>2
    <3>4. CASE q[j] = back
      <4>1. j = pos - 1 /\ k = l
        BY <1>1, <1>10, <3>1, <3>4
      <4>2. j + 1 = pos /\ ~(j + 1 < pos) /\ (j + 1) + 1 = pos + 1
        BY <1>2, <4>1
      <4>3. At(r, blk, k, j + 1) = At(q, blk, l, pos + 1)
        BY <1>2, <3>1, <3>2, <4>1, <4>2
      <4> QED
        BY <1>11, <1>12, <3>1, <3>3, <3>4, <4>3
    <3>5. CASE q[j] # back
      <4>1. At(r, blk, k, j + 1) = At(q, blk, k, j + 1)
        <5>1. CASE j + 1 < pos
          BY <1>2, <3>1, <3>2, <5>1
        <5>2. CASE ~(j + 1 < pos)
          <6>1. j + 1 = pos /\ pos - 1 = j /\ pos + 1 \in Int
            BY <1>2, <2>1, <3>1, <5>2
          <6>2. k # l
            BY <1>10, <3>1, <3>5, <6>1
          <6>3. At(r, blk, k, j + 1) = At(q, blk, k, pos + 1)
            BY <1>2, <3>1, <3>2, <6>1
          <6>4. At(q, blk, k, pos) = NULL
            BY <1>7, <6>2 DEF At
          <6>5. pos + 1 \in 1..Len(q) => Cl(blk, q[pos + 1]) # k
            <7> SUFFICES ASSUME pos + 1 \in 1..Len(q), Cl(blk, q[pos + 1]) = k PROVE FALSE
              OBVIOUS
            <7>1. ~(pos + 1 < pos)
              BY <1>2
            <7>2. l <= Cl(blk, q[pos + 1])
              BY <1>4, <7>1
            <7> QED
              BY <1>3, <3>2, <6>2, <7>2
          <6>6. At(q, blk, k, pos + 1) = NULL
            BY <6>5 DEF At
          <6> QED
            BY <6>1, <6>3, <6>4, <6>6
        <5> QED
          BY <5>1, <5>2
      <4> QED
        BY <1>11, <3>1, <3>3, <3>5, <4>1
    <3> QED
      BY <3>4, <3>5
  <2>2. CASE ~(j < pos)
    <3> DEFINE i == j + 1
    <3>0. j \in Int /\ Len(q) \in Nat /\ Len(r) = Len(q) - 1 /\ pos \in Int /\ pos >= 1
      BY <1>1, <1>2
    <3>1. i \in 1..Len(q) /\ i > pos /\ i \in Int /\ i + 1 \in Int
          /\ j + 1 = i /\ ~(i < pos) /\ j \in 1..(Len(q) - 1)
      BY <2>2, <3>0
    <3>2. r[j] = q[i]
      BY <1>2, <2>2, <3>1
    <3> HIDE DEF i
    <3> DEFINE k == Cl(blk, q[i])
    <3>3. k \in Nat /\ l <= k
      BY <1>1, <1>4, <3>1
    <3>4. g.mem[q[i]] = At(r, blk, k, j + 1)
      <4>1. q[i] # back
        <5>1. i # pos - 1
          BY <3>0, <3>1
        <5> QED
          BY <1>1, <1>10, <3>1, <5>1
      <4>2. At(r, blk, k, i) = At(q, blk, k, i + 1)
        BY <1>2, <3>1, <3>3
      <4> QED
        BY <1>11, <3>1, <4>1, <4>2
    <3>5. CASE q[i] = larger
      <4>1. i = pos + 1 /\ k = l
        BY <1>1, <1>10, <3>1, <3>5
      <4>2. j - 1 < pos /\ j - 1 \in Int /\ j - 1 = pos - 1
        BY <3>0, <3>1, <4>1
      <4>3. At(r, blk, k, j - 1) = At(q, blk, l, pos - 1)
        BY <1>2, <3>3, <4>1, <4>2
      <4> QED
        BY <1>11, <1>12, <3>1, <3>2, <3>4, <3>5, <4>3
    <3>6. CASE q[i] # larger
      <4>1. At(r, blk, k, j - 1) = At(q, blk, k, i - 1)
        <5>1. CASE i # pos + 1
          <6>1. ~(j - 1 < pos) /\ j - 1 \in Int /\ (j - 1) + 1 = i - 1
            BY <3>0, <3>1, <5>1
          <6> QED
            BY <1>2, <3>3, <6>1
        <5>2. CASE i = pos + 1
          <6>1. k # l
            BY <1>10, <3>1, <3>6, <5>2
          <6>2. j - 1 < pos /\ j - 1 \in Int /\ j - 1 = pos - 1 /\ i - 1 = pos
            BY <3>0, <3>1, <5>2
          <6>3. At(r, blk, k, j - 1) = At(q, blk, k, pos - 1)
            BY <1>2, <3>3, <6>2
          <6>4. At(q, blk, k, pos) = NULL
            BY <1>7, <6>1 DEF At
          <6>5. pos - 1 \in 1..Len(q) => Cl(blk, q[pos - 1]) # k
            <7> SUFFICES ASSUME pos - 1 \in 1..Len(q), Cl(blk, q[pos - 1]) = k PROVE FALSE
              OBVIOUS
            <7>1. pos - 1 < pos
              BY <1>2
            <7>2. Cl(blk, q[pos - 1]) <= l
              BY <1>4, <7>1
            <7> QED
              BY <1>3, <3>3, <6>1, <7>2
          <6>6. At(q, blk, k, pos - 1) = NULL
            BY <6>5 DEF At
          <6> QED
            BY <6>2, <6>3, <6>4, <6>6
        <5> QED
          BY <5>1, <5>2
      <4> QED
        BY <1>11, <3>1, <3>2, <3>4, <3>6, <4>1
    <3> QED
      BY <3>5, <3>6
  <2> QED
    BY <2>1, <2>2
<1>14. ASSUME NEW k \in Lists, NEW n \in 1..(Len(r) + 1), Starts(r, blk, k, n)
       PROVE  g.seg_list[k] = At(r, blk, k, n)
  <2>0. Len(q) \in Nat /\ Len(r) = Len(q) - 1 /\ pos \in Int /\ pos >= 1 /\ pos <= Len(q)
    BY <1>1, <1>2
  <2>1. \A i \in 1..Len(r) : i < n <=> Cl(blk, r[i]) < k
    BY <1>14 DEF Starts
  <2>2. k \in Nat /\ n \in Int /\ k \in Int
    BY Extents DEF Lists
  <2>3. \A i \in 1..Len(q) : i < pos => i \in 1..Len(r) /\ r[i] = q[i]
    <3> SUFFICES ASSUME NEW i \in 1..Len(q), i < pos PROVE i \in 1..Len(r) /\ r[i] = q[i]
      OBVIOUS
    <3>1. i \in 1..(Len(q) - 1)
      BY <2>0
    <3> QED
      BY <1>2, <3>1
  <2>4. \A i \in 1..Len(q) : i > pos => i - 1 \in 1..Len(r) /\ r[i - 1] = q[i]
    <3> SUFFICES ASSUME NEW i \in 1..Len(q), i > pos
                 PROVE  i - 1 \in 1..Len(r) /\ r[i - 1] = q[i]
      OBVIOUS
    <3>1. i - 1 \in 1..(Len(q) - 1) /\ ~(i - 1 < pos) /\ (i - 1) + 1 = i
      BY <2>0
    <3> QED
      BY <1>2, <3>1
  <2>5. \A i \in 1..Len(q) : IF i = pos THEN Cl(blk, q[i]) = l
                             ELSE IF i < pos THEN Cl(blk, q[i]) <= l ELSE l <= Cl(blk, q[i])
    BY <1>4, <1>7
  <2>6. CASE k <= l
    <3>1. n <= pos
      <4> SUFFICES ASSUME n > pos PROVE FALSE
        BY <2>0, <2>2
      <4>1. n \in 1..Len(q) /\ n - 1 < n
        BY <2>0, <2>2
      <4>2. n - 1 \in 1..Len(r) /\ r[n - 1] = q[n]
        BY <2>4, <4>1
      <4>3. Cl(blk, q[n]) < k
        BY <2>1, <4>1, <4>2
      <4>4. l <= Cl(blk, q[n]) /\ Cl(blk, q[n]) \in Nat
        BY <1>1, <1>4, <2>0, <2>2, <4>1
      <4> QED
        BY <1>3, <2>2, <2>6, <4>3, <4>4
    <3>2. n \in 1..(Len(q) + 1)
      BY <2>0, <3>1
    <3>3. ASSUME NEW i \in 1..Len(q) PROVE i < n <=> Cl(blk, q[i]) < k
      <4>1. CASE i < pos
        BY <2>1, <2>3, <4>1
      <4>2. CASE ~(i < pos)
        <5>1. ~(i < n)
          BY <2>0, <2>2, <3>1, <4>2
        <5>2. ~(Cl(blk, q[i]) < k)
          BY <1>1, <1>3, <1>4, <2>2, <2>6, <4>2, SMTT(40)
        <5> QED
          BY <5>1, <5>2
      <4> QED
        BY <4>1, <4>2
    <3>4. Starts(q, blk, k, n)
      BY <3>2, <3>3 DEF Starts
    <3>5. h.seg_list[k] = At(q, blk, k, n)
      BY <3>2, <3>4 DEF Linked
    <3>6. CASE k = l /\ back = NULL
      <4>1. n = pos
        <5> SUFFICES ASSUME n < pos PROVE FALSE
          BY <2>0, <2>2, <3>1
        <5>1. pos - 1 \in 1..Len(q) /\ ~(pos - 1 < n) /\ pos - 1 < pos
          BY <2>0, <2>2
        <5>2. ~(Cl(blk, q[pos - 1]) < k) /\ Cl(blk, q[pos - 1]) <= l /\ Cl(blk, q[pos - 1]) \in Nat
          BY <1>1, <1>4, <3>3, <5>1
        <5>3. Cl(blk, q[pos - 1]) = l
          BY <1>3, <3>6, <5>2
        <5> QED
          BY <1>10, <3>6, <5>1, <5>3
      <4>2. At(r, blk, k, n) = larger
        <5>1. ~(n < pos)
          BY <2>0, <4>1
        <5> QED
          BY <1>2, <1>12, <2>2, <3>6, <4>1, <5>1
      <4> QED
        BY <1>9, <3>6, <4>2
    <3>7. CASE k = l /\ back # NULL
      <4>1. pos - 1 \in 1..Len(q) /\ ~(Cl(blk, q[pos - 1]) < k)
        BY <1>3, <1>10, <3>7
      <4>2. ~(pos - 1 < n)
        BY <3>3, <4>1
      <4>3. n < pos
        BY <2>0, <2>2, <4>2
      <4>4. At(r, blk, k, n) = At(q, blk, k, n)
        BY <1>2, <2>2, <4>3
      <4> QED
        BY <1>9, <3>5, <3>7, <4>4
    <3>8. CASE k # l
      <4>1. At(r, blk, k, n) = At(q, blk, k, n)
        <5>1. CASE n < pos
          BY <1>2, <2>2, <5>1
        <5>2. CASE n = pos
          <6>1. At(r, blk, k, n) = At(q, blk, k, pos + 1)
            BY <1>2, <2>0, <2>2, <5>2
          <6>2. At(q, blk, k, pos) = NULL
            BY <1>7, <3>8 DEF At
          <6>3. pos + 1 \in 1..Len(q) => Cl(blk, q[pos + 1]) # k
            <7> SUFFICES ASSUME pos + 1 \in 1..Len(q), Cl(blk, q[pos + 1]) = k PROVE FALSE
              OBVIOUS
            <7>1. ~(pos + 1 < pos)
              BY <2>0
            <7>2. l <= Cl(blk, q[pos + 1])
              BY <1>4, <7>1
            <7> QED
              BY <1>3, <2>2, <2>6, <3>8, <7>2
          <6>4. At(q, blk, k, pos + 1) = NULL
            BY <6>3 DEF At
          <6> QED
            BY <5>2, <6>1, <6>2, <6>4
        <5> QED
          BY <2>0, <2>2, <3>1, <5>1, <5>2
      <4> QED
        BY <1>9, <3>5, <3>8, <4>1
    <3> QED
      BY <3>6, <3>7, <3>8
  <2>7. CASE l < k
    <3>1. ~(n < pos)
      <4> SUFFICES ASSUME n < pos PROVE FALSE
        OBVIOUS
      <4>1. n \in 1..Len(q) /\ n \in 1..Len(r) /\ ~(n < n)
        BY <2>0, <2>2
      <4>2. r[n] = q[n] /\ Cl(blk, q[n]) <= l /\ Cl(blk, q[n]) \in Nat
        BY <1>1, <1>4, <2>3, <4>1
      <4>3. ~(Cl(blk, q[n]) < k)
        BY <2>1, <4>1, <4>2
      <4> QED
        BY <1>3, <2>2, <2>7, <4>2, <4>3
    <3>2. n + 1 \in 1..(Len(q) + 1)
      BY <2>0, <2>2
    <3>3. ASSUME NEW i \in 1..Len(q) PROVE i < n + 1 <=> Cl(blk, q[i]) < k
      <4>1. CASE i < pos
        <5>1. i < n + 1 /\ i < n
          BY <2>0, <2>2, <3>1, <4>1
        <5> QED
          BY <2>1, <2>3, <4>1, <5>1
      <4>2. CASE i = pos
        <5>1. i < n + 1
          BY <2>0, <2>2, <3>1, <4>2
        <5>2. Cl(blk, q[i]) < k
          BY <1>7, <2>7, <4>2
        <5> QED
          BY <5>1, <5>2
      <4>3. CASE i > pos
        <5>1. i < n + 1 <=> i - 1 < n
          BY <2>2
        <5> QED
          BY <2>1, <2>4, <4>3, <5>1
      <4> QED
        BY <2>0, <4>1, <4>2, <4>3
    <3>4. Starts(q, blk, k, n + 1)
      BY <3>2, <3>3 DEF Starts
    <3>5. h.seg_list[k] = At(q, blk, k, n + 1)
      BY <3>2, <3>4 DEF Linked
    <3>6. At(r, blk, k, n) = At(q, blk, k, n + 1)
      BY <1>2, <2>2, <3>1
    <3>7. k # l
      BY <1>3, <2>2, <2>7
    <3> QED
      BY <1>9, <3>5, <3>6, <3>7
  <2> QED
    BY <1>3, <2>2, <2>6, <2>7
<1>15. Linked(g, r, blk)
  BY <1>13, <1>14 DEF Linked
<1>16. Shelf(r, S \ {ptr}, blk)
  BY DEF Shelf
<1>17. LinksOnly(h, g, S \ {ptr})
  <2> SUFFICES ASSUME NEW x \in WordAddress, \A b \in S \ {ptr} : x # b /\ x # b + 8
               PROVE  g.mem[x] = h.mem[x]
    BY <1>9 DEF LinksOnly
  <2>1. \A i \in 1..Len(q) : i # pos => q[i] \in S \ {ptr}
    BY <1>1, <1>2
  <2>2. x # back
    <3>1. CASE back = NULL
      BY <3>1, WordsAre, Extents
    <3>2. CASE back # NULL
      <4>1. pos - 1 # pos
        BY <1>2
      <4> QED
        BY <1>10, <2>1, <3>2, <4>1
    <3> QED
      BY <3>1, <3>2
  <2>3. x # larger + 8
    <3>1. CASE larger = NULL
      <4>1. x # 8
        BY WordsAre, Extents
      <4> QED
        BY <3>1, <4>1, Extents
    <3>2. CASE larger # NULL
      <4>1. pos + 1 # pos
        BY <1>2
      <4> QED
        BY <1>10, <2>1, <3>2, <4>1
    <3> QED
      BY <3>1, <3>2
  <2> QED
    BY <1>9, <2>2, <2>3
<1> QED
  BY <1>15, <1>16, <1>17

\* Only the sizes of the listed blocks matter.
LEMMA LinkedSame ==
  ASSUME NEW h, NEW q, NEW S, NEW blk, Shelf(q, S, blk), Linked(h, q, blk),
         NEW new, \A b \in S : new[b].size = blk[b].size
  PROVE  Linked(h, q, new)
<1>1. \A i \in 1..Len(q) : Cl(new, q[i]) = Cl(blk, q[i])
  BY ShelfIs DEF Cl
<1>2. \A l, i : At(q, new, l, i) = At(q, blk, l, i)
  BY <1>1 DEF At
<1>3. \A l, n : Starts(q, new, l, n) <=> Starts(q, blk, l, n)
  BY <1>1 DEF Starts
<1> QED
  BY <1>1, <1>2, <1>3 DEF Linked

\* Only the heads and the words of the listed blocks matter.
LEMMA LinkedElsewhere ==
  ASSUME NEW h, NEW q, NEW S, NEW blk, Shelf(q, S, blk), Linked(h, q, blk),
         NEW g, g.seg_list = h.seg_list,
         \A b \in S : g.mem[b] = h.mem[b] /\ g.mem[b + 8] = h.mem[b + 8]
  PROVE  Linked(g, q, blk)
<1>1. \A i \in 1..Len(q) : g.mem[q[i]] = h.mem[q[i]] /\ g.mem[q[i] + 8] = h.mem[q[i] + 8]
  BY ShelfIs
<1> QED
  BY <1>1 DEF Linked

\* Distinct multiples of 16 in the memory: no more than it has room for.
LEMMA Few ==
  ASSUME NEW q, NEW S, NEW blk, Shelf(q, S, blk)
  PROVE  Len(q) <= HeapSize \div 16
<1> DEFINE N == HeapSize \div 16
           f == [i \in 1..Len(q) |-> (q[i] - HeapLo) \div 16]
<1>1. /\ Len(q) \in Nat
      /\ \A i \in 1..Len(q) : Site(q[i])
      /\ \A i, j \in 1..Len(q) : q[i] = q[j] => i = j
  BY ShelfIs
<1>2. N \in Nat /\ HeapSize = 16 * N
  BY Extents
<1> HIDE DEF N
<1>3. ASSUME NEW i \in 1..Len(q)
      PROVE  f[i] \in 0..(N - 1) /\ q[i] = HeapLo + 16 * f[i]
  <2>1. q[i] \in Nat /\ q[i] % 16 = 0 /\ HeapLo <= q[i] /\ q[i] + 8 <= Limit
    BY <1>1, WordsAre DEF Site
  <2>2. PICK y \in Nat : y = q[i]
    BY <2>1
  <2>3. y % 16 = 0 /\ HeapLo <= y /\ y + 8 <= Limit
    BY <2>1, <2>2
  <2> DEFINE x == y - HeapLo
  <2>4. x \in Nat /\ x % 16 = 0 /\ x < 16 * N /\ y = HeapLo + x
    <3>1. Limit = HeapLo + 16 * N /\ HeapLo \in Nat /\ HeapLo % 16 = 0
      BY <1>2, Extents
    <3> QED
      BY <1>2, <2>3, <3>1
  <2>5. f[i] = x \div 16
    BY <2>2
  <2> HIDE DEF x, f
  <2>6. x \div 16 \in 0..(N - 1) /\ x = 16 * (x \div 16)
    BY <1>2, <2>4
  <2> QED
    BY <2>2, <2>4, <2>5, <2>6
<1>4. f \in [1..Len(q) -> 0..(N - 1)]
  BY <1>3
<1>5. \A i, j \in 1..Len(q) : f[i] = f[j] => i = j
  BY <1>1, <1>3
<1> HIDE DEF f
<1>6. f \in Injection(1..Len(q), 0..(N - 1))
  BY <1>4, <1>5 DEF Injection, IsInjective
<1>7. IsFiniteSet(0..(N - 1)) /\ Cardinality(0..(N - 1)) = N
  BY <1>2, FS_Interval
<1>8. Cardinality(1..Len(q)) <= Cardinality(0..(N - 1))
  BY <1>6, <1>7, FS_Injection
<1>9. Cardinality(1..Len(q)) = Len(q)
  <2>1. PICK n \in Nat : n = Len(q)
    BY <1>1
  <2>2. Cardinality(1..n) = n
    BY FS_Interval
  <2> QED
    BY <2>1, <2>2
<1> QED
  BY <1>7, <1>8, <1>9 DEF N

\* What Nodes follows from the head of list l.
IsWalk(at, h, l) ==
  at = [k \in 0..(HeapSize \div 16) |->
          IF k = 0 THEN h.seg_list[l]
          ELSE LET before == at[k - 1]
               IN  IF before = NULL THEN NULL ELSE PREV_BLK(h, before)]
Walk(h, l) == CHOOSE at : IsWalk(at, h, l)

\* There is one such walk.
LEMMA WalkIs ==
  ASSUME NEW h, NEW l, NEW f, IsWalk(f, h, l)
  PROVE  Walk(h, l) = f
<1> DEFINE at == Walk(h, l)
           N == HeapSize \div 16
           Bad == {k \in 0..N : at[k] # f[k]}
<1>1. IsWalk(at, h, l)
  BY DEF Walk
<1> HIDE DEF at
<1>2. N \in Nat
  BY Extents
<1>3. /\ at = [k \in 0..N |-> at[k]] /\ f = [k \in 0..N |-> f[k]]
      /\ at[0] = h.seg_list[l] /\ f[0] = h.seg_list[l]
      /\ \A k \in 0..N : k # 0 =>
           /\ at[k] = IF at[k - 1] = NULL THEN NULL ELSE PREV_BLK(h, at[k - 1])
           /\ f[k] = IF f[k - 1] = NULL THEN NULL ELSE PREV_BLK(h, f[k - 1])
  BY <1>1, <1>2 DEF IsWalk
<1>4. Bad = {}
  <2> SUFFICES ASSUME Bad # {} PROVE FALSE
    OBVIOUS
  <2>1. Bad \in SUBSET Nat
    OBVIOUS
  <2>2. PICK k \in Bad : \A j \in Bad : k <= j
    <3> HIDE DEF Bad
    <3> QED
      BY <2>1, Least
  <2>3. k # 0 /\ k \in 0..N
    BY <1>3, <2>2
  <2>4. k - 1 \in 0..N /\ ~(k <= k - 1)
    BY <1>2, <2>3
  <2>5. at[k - 1] = f[k - 1]
    BY <2>2, <2>4
  <2> QED
    BY <1>3, <2>2, <2>3, <2>5
<1>5. at = f
  BY <1>3, <1>4
<1> QED
  BY <1>5 DEF at

\* The nodes of list l are the places p to e - 1 of q.
Run(h, q, blk, l, p, e) ==
  /\ p \in Nat /\ e \in Nat /\ 1 <= p /\ p <= e /\ e <= Len(q) + 1
  /\ Nodes(h, l) = [k \in 1..(e - p) |-> q[p + k - 1]]
  /\ \A i \in 1..Len(q) : p <= i /\ i < e <=> Cl(blk, q[i]) = l

LEMMA NodesAre ==
  ASSUME NEW h, NEW q, NEW S, NEW blk, Shelf(q, S, blk), Linked(h, q, blk),
         NEW l \in Lists, NEW p, Starts(q, blk, l, p), NEW e, Starts(q, blk, l + 1, e)
  PROVE  Run(h, q, blk, l, p, e)
<1> DEFINE N == HeapSize \div 16
           f == [k \in 0..N |-> IF p + k < e THEN q[p + k] ELSE NULL]
<1>1. /\ Len(q) \in Nat /\ Len(q) <= N
      /\ \A i \in 1..Len(q) : Site(q[i]) /\ Cl(blk, q[i]) \in Nat
  BY ShelfIs, Few
<1>2. N \in Nat /\ l \in Nat
  BY Extents DEF Lists
<1>3. /\ p \in 1..(Len(q) + 1) /\ \A i \in 1..Len(q) : i < p <=> Cl(blk, q[i]) < l
      /\ e \in 1..(Len(q) + 1) /\ \A i \in 1..Len(q) : i < e <=> Cl(blk, q[i]) < l + 1
  BY DEF Starts
<1>4. p \in Nat /\ e \in Nat /\ 1 <= p /\ 1 <= e /\ p <= Len(q) + 1 /\ e <= Len(q) + 1
  BY <1>1, <1>3
<1>5. p <= e
  <2> SUFFICES ASSUME e < p PROVE FALSE
    BY <1>4
  <2>1. e \in 1..Len(q) /\ ~(e < e)
    BY <1>1, <1>4
  <2>2. Cl(blk, q[e]) < l /\ ~(Cl(blk, q[e]) < l + 1) /\ Cl(blk, q[e]) \in Nat
    BY <1>1, <1>3, <2>1
  <2> QED
    BY <1>2, <2>2
<1>6. ASSUME NEW i \in 1..Len(q) PROVE p <= i /\ i < e <=> Cl(blk, q[i]) = l
  <2>1. Cl(blk, q[i]) \in Nat /\ (i < p <=> Cl(blk, q[i]) < l) /\ (i < e <=> Cl(blk, q[i]) < l + 1)
    BY <1>1, <1>3
  <2>2. p <= i <=> ~(i < p)
    BY <1>4
  <2> QED
    BY <1>2, <2>1, <2>2
<1>7. ASSUME NEW n \in Nat, p <= n
      PROVE  At(q, blk, l, n) = IF n < e THEN q[n] ELSE NULL
  <2>1. CASE n < e
    <3>1. n \in 1..Len(q)
      BY <1>1, <1>4, <1>7, <2>1
    <3>2. Cl(blk, q[n]) = l
      BY <1>6, <1>7, <2>1, <3>1
    <3> QED
      BY <2>1, <3>1, <3>2 DEF At
  <2>2. CASE ~(n < e)
    <3>1. n \in 1..Len(q) => Cl(blk, q[n]) # l
      BY <1>6, <2>2
    <3> QED
      BY <2>2, <3>1 DEF At
  <2> QED
    BY <2>1, <2>2
<1>8. \A n \in Nat : p <= n /\ n < e => n \in 1..Len(q) /\ q[n] # NULL
  <2> SUFFICES ASSUME NEW n \in Nat, p <= n, n < e PROVE n \in 1..Len(q) /\ q[n] # NULL
    OBVIOUS
  <2>1. n \in 1..Len(q)
    BY <1>1, <1>4
  <2> QED
    BY <1>1, <2>1, SitesApart
<1>9. IsWalk(f, h, l)
  <2>1. h.seg_list[l] = IF p + 0 < e THEN q[p + 0] ELSE NULL
    <3>1. h.seg_list[l] = At(q, blk, l, p)
      BY <1>3 DEF Linked
    <3>2. p + 0 = p /\ p <= p
      BY <1>4
    <3> QED
      BY <1>4, <1>7, <3>1, <3>2
  <2>2. ASSUME NEW k \in 0..N, k # 0
        PROVE  (IF p + k < e THEN q[p + k] ELSE NULL)
                 = IF f[k - 1] = NULL THEN NULL ELSE PREV_BLK(h, f[k - 1])
    <3>0. k \in Int /\ k - 1 \in 0..N /\ k >= 1
      BY <1>2, <2>2
    <3>1. PICK n \in Nat : n = p + (k - 1)
      BY <1>4, <3>0
    <3>2. p <= n /\ n + 1 = p + k /\ n + 1 \in Nat /\ p <= n + 1
      BY <1>4, <3>0, <3>1
    <3>3. f[k - 1] = IF n < e THEN q[n] ELSE NULL
      BY <3>0, <3>1
    <3> HIDE DEF f
    <3>4. CASE n < e
      <4>1. n \in 1..Len(q) /\ q[n] # NULL /\ Cl(blk, q[n]) = l
        BY <1>6, <1>8, <3>2, <3>4
      <4>2. PREV_BLK(h, q[n]) = At(q, blk, l, n + 1)
        BY <4>1 DEF Linked, PREV_BLK, PREV_PTR
      <4>3. At(q, blk, l, n + 1) = IF n + 1 < e THEN q[n + 1] ELSE NULL
        BY <1>7, <3>2
      <4> QED
        BY <3>2, <3>3, <3>4, <4>1, <4>2, <4>3
    <3>5. CASE ~(n < e)
      <4>1. ~(n + 1 < e)
        BY <1>4, <3>5
      <4> QED
        BY <3>2, <3>3, <3>5, <4>1
    <3> QED
      BY <3>4, <3>5
  <2>3. f = [k \in 0..N |-> IF k = 0 THEN h.seg_list[l]
                            ELSE IF f[k - 1] = NULL THEN NULL ELSE PREV_BLK(h, f[k - 1])]
    BY <2>1, <2>2
  <2> HIDE DEF f
  <2> QED
    BY <2>3 DEF IsWalk
<1>10. Walk(h, l) = f
  <2> HIDE DEF f
  <2> QED
    BY <1>9, WalkIs
<1> DEFINE steps == {k \in DOMAIN f : f[k] # NULL}
<1>11. steps = 0..(e - p - 1)
  <2>1. \A k \in 0..N : f[k] # NULL <=> p + k < e
    <3> SUFFICES ASSUME NEW k \in 0..N PROVE f[k] # NULL <=> p + k < e
      OBVIOUS
    <3>1. PICK n \in Nat : n = p + k
      BY <1>4
    <3>2. p <= n
      BY <1>4, <3>1
    <3>3. f[k] = IF n < e THEN q[n] ELSE NULL
      BY <3>1
    <3> HIDE DEF f
    <3> QED
      BY <1>8, <3>1, <3>2, <3>3
  <2>2. DOMAIN f = 0..N
    OBVIOUS
  <2> HIDE DEF f
  <2>3. \A k : k \in steps <=> k \in 0..N /\ p + k < e
    BY <2>1, <2>2
  <2>4. \A k : k \in 0..N /\ p + k < e <=> k \in 0..(e - p - 1)
    BY <1>1, <1>2, <1>4
  <2> QED
    BY <2>3, <2>4
<1>12. Cardinality(steps) = e - p
  <2> HIDE DEF steps
  <2>1. e - p - 1 \in Int /\ (0 > e - p - 1 => e - p = 0)
    BY <1>4, <1>5
  <2> QED
    BY <1>4, <1>11, <2>1, FS_Interval
<1>13. Nodes(h, l) = [k \in 1..Cardinality(steps) |-> f[k - 1]]
  <2>1. Nodes(h, l) = [k \in 1..Cardinality({j \in DOMAIN Walk(h, l) : Walk(h, l)[j] # NULL}) |->
                         Walk(h, l)[k - 1]]
    BY DEF Nodes, Walk, IsWalk
  <2> HIDE DEF f
  <2> QED
    BY <1>10, <2>1
<1>14. ASSUME NEW k \in 1..(e - p) PROVE f[k - 1] = q[p + k - 1]
  <2>1. k - 1 \in 0..N /\ p + (k - 1) < e /\ p + (k - 1) = p + k - 1
    BY <1>1, <1>2, <1>4
  <2> QED
    BY <2>1
<1>15. Nodes(h, l) = [k \in 1..(e - p) |-> q[p + k - 1]]
  <2> HIDE DEF f, steps
  <2> QED
    BY <1>12, <1>13, <1>14
<1> QED
  BY <1>4, <1>5, <1>6, <1>15 DEF Run

-----------------------------------------------------------------------------
(* Blocks and the words that represent them                                *)

LEMMA WordsEqual ==
  ASSUME NEW h, IsWords(h), NEW g, Beside(h, g), \A x \in WordAddress : g.mem[x] = h.mem[x]
  PROVE  g = h
<1>1. g.mem = h.mem
  BY DEF IsWords, Beside
<1>2. /\ g = [mem |-> g.mem, seg_list |-> g.seg_list, mem_brk |-> g.mem_brk]
      /\ h = [mem |-> h.mem, seg_list |-> h.seg_list, mem_brk |-> h.mem_brk]
      /\ g.seg_list = h.seg_list /\ g.mem_brk = h.mem_brk
  BY DEF IsWords, Beside
<1> HIDE DEF IsWords, Beside
<1> QED
  BY <1>1, <1>2

\* A heap of blocks within the simulated memory.
InMemory(w) ==
  B!IsHeap(w) /\ B!Tiles(w) /\ FirstBlock <= w.brk /\ w.brk <= Limit

\* What holds of each of its blocks.
IsBlock(w, b) ==
  /\ b \in Nat /\ b % 16 = 0 /\ HeapLo + 32 <= b
  /\ B!Size(w, b) \in Nat /\ B!Size(w, b) % 16 = 0 /\ B!Size(w, b) >= 32
  /\ B!End(w, b) = b + B!Size(w, b) /\ B!End(w, b) \in Nat
  /\ B!End(w, b) <= w.brk /\ w.brk \in Nat /\ w.brk % 16 = 0 /\ w.brk <= Limit
  /\ B!End(w, b) \in DOMAIN w.blk \cup {w.brk}
  /\ w.blk[b].alloc \in BOOLEAN
  /\ \A c \in DOMAIN w.blk : b < c => B!End(w, b) <= c

LEMMA BrkIs ==
  ASSUME NEW w, InMemory(w)
  PROVE  /\ w.brk \in Nat /\ w.brk % 16 = 0 /\ HeapLo + 32 <= w.brk /\ w.brk <= Limit
         /\ FirstBlock = HeapLo + 32 /\ B!FirstBlock = HeapLo + 32
<1>1. w.brk \in Nat /\ w.brk % 16 = 0 /\ FirstBlock <= w.brk /\ w.brk <= Limit
  BY DEF InMemory, B!Tiles
<1>2. B!FirstBlock = HeapLo + 32
  BY BlocksAssumed, B!HeapStart
<1> QED
  BY <1>1, <1>2 DEF FirstBlock

LEMMA BlockIs ==
  ASSUME NEW w, InMemory(w), NEW b \in DOMAIN w.blk
  PROVE  IsBlock(w, b)
<1>1. /\ b \in Nat /\ b >= B!FirstBlock /\ b % 16 = 0
      /\ B!Size(w, b) \in Nat /\ B!Size(w, b) % 16 = 0 /\ B!Size(w, b) >= 32
      /\ B!End(w, b) = b + B!Size(w, b) /\ B!End(w, b) \in Nat /\ B!End(w, b) <= w.brk
      /\ B!End(w, b) \in DOMAIN w.blk \cup {w.brk}
      /\ w.blk[b].alloc \in BOOLEAN
      /\ \A c \in DOMAIN w.blk : b < c => B!End(w, b) <= c
  <2>1. B!Tiles(w)
    BY DEF InMemory
  <2> QED
    BY <2>1, BlocksAssumed, B!BlockShape
<1>2. w.brk \in Nat /\ w.brk % 16 = 0 /\ w.brk <= Limit /\ B!FirstBlock = HeapLo + 32
  BY BrkIs
<1> QED
  BY <1>1, <1>2 DEF IsBlock

\* The words of a block that the allocator uses.
BlockWords(w, b) ==
  /\ Site(b) /\ b - 8 \in WordAddress
  /\ B!End(w, b) - 16 \in WordAddress /\ B!End(w, b) - 16 \in Nat /\ B!End(w, b) >= b + 32

LEMMA WordsOf ==
  ASSUME NEW w, InMemory(w), NEW b \in DOMAIN w.blk
  PROVE  BlockWords(w, b)
<1> DEFINE e == B!End(w, b)
           s == B!Size(w, b)
<1>1. /\ b \in Nat /\ b % 16 = 0 /\ HeapLo + 32 <= b
      /\ s \in Nat /\ s % 16 = 0 /\ s >= 32 /\ e = b + s /\ e \in Nat /\ e <= Limit
  <2>1. IsBlock(w, b)
    BY BlockIs
  <2>2. /\ b \in Nat /\ b % 16 = 0 /\ HeapLo + 32 <= b
        /\ s \in Nat /\ s % 16 = 0 /\ s >= 32 /\ e = b + s /\ e \in Nat
        /\ e <= w.brk /\ w.brk \in Nat /\ w.brk <= Limit
    BY <2>1 DEF IsBlock
  <2>3. Limit \in Nat
    BY Extents
  <2> HIDE DEF e, s
  <2> QED
    BY <2>2, <2>3
<1> HIDE DEF e, s
<1>2. HeapLo \in Nat /\ HeapLo >= 16 /\ Limit \in Nat
  BY Extents
<1>3. \A x \in Int : x % 16 = 0 => x % 8 = 0 /\ (x + 8) % 8 = 0 /\ (x - 8) % 8 = 0 /\ (x - 16) % 8 = 0
  OBVIOUS
<1>4. e % 16 = 0
  BY <1>1
<1>5. b \in WordAddress /\ b + 8 \in WordAddress /\ b - 8 \in WordAddress
  <2>1. /\ HeapLo <= b /\ b < Limit /\ HeapLo <= b + 8 /\ b + 8 < Limit
        /\ HeapLo <= b - 8 /\ b - 8 < Limit
    BY <1>1, <1>2
  <2> QED
    BY <1>1, <1>3, <2>1, WordsAre
<1>6. e - 16 \in WordAddress /\ e - 16 \in Nat /\ e >= b + 32
  <2>1. HeapLo <= e - 16 /\ e - 16 < Limit /\ e - 16 \in Nat /\ e >= b + 32
    BY <1>1, <1>2
  <2> QED
    BY <1>1, <1>3, <1>4, <2>1, WordsAre
<1> QED
  BY <1>1, <1>5, <1>6 DEF BlockWords, Site, e

LEMMA Apart ==
  ASSUME NEW w, InMemory(w), NEW b \in DOMAIN w.blk, NEW c \in DOMAIN w.blk, b # c
  PROVE  B!End(w, b) <= c \/ B!End(w, c) <= b
<1>1. IsBlock(w, b) /\ IsBlock(w, c)
  BY BlockIs
<1>2. b < c \/ c < b
  BY <1>1 DEF IsBlock
<1> QED
  BY <1>1, <1>2 DEF IsBlock

\* The words around the blocks.
LEMMA EdgeWords ==
  ASSUME NEW w, InMemory(w)
  PROVE  /\ HeapLo + 8 \in WordAddress /\ HeapLo + 16 \in WordAddress
         /\ w.brk - 8 \in WordAddress /\ w.brk - 8 \in Nat /\ w.brk - 8 >= HeapLo + 24
<1>1. w.brk \in Nat /\ w.brk % 16 = 0 /\ HeapLo + 32 <= w.brk /\ w.brk <= Limit
  BY BrkIs
<1>2. HeapLo \in Nat /\ HeapLo % 16 = 0 /\ HeapLo >= 16 /\ Limit \in Nat
  BY Extents
<1>3. /\ (HeapLo + 8) % 8 = 0 /\ (HeapLo + 16) % 8 = 0 /\ (w.brk - 8) % 8 = 0
      /\ HeapLo + 8 < Limit /\ HeapLo + 16 < Limit /\ w.brk - 8 < Limit
      /\ w.brk - 8 \in Nat /\ w.brk - 8 >= HeapLo + 24
  BY <1>1, <1>2
<1> QED
  BY <1>2, <1>3, WordsAre

-----------------------------------------------------------------------------
(* Tags                                                                    *)

Bit(w, b) == IF w.blk[b].alloc THEN 1 ELSE 0
Tag(w, b) == B!Size(w, b) + Bit(w, b)

LEMMA TagReads ==
  ASSUME NEW s \in Nat, s % 16 = 0, NEW t \in {0, 1}
  PROVE  8 * ((s + t) \div 8) = s /\ (s + t) % 2 = t /\ 2 * (((s + t) \div 2) % 2) = 0
<1>1. PICK k \in Nat : s = 16 * k
  <2>1. s = 16 * (s \div 16) /\ s \div 16 \in Nat
    OBVIOUS
  <2> QED
    BY <2>1
<1>2. CASE t = 0
  <2>1. (16 * k) \div 8 = 2 * k /\ (16 * k) % 2 = 0 /\ (16 * k) \div 2 = 8 * k /\ (8 * k) % 2 = 0
    OBVIOUS
  <2> QED
    BY <1>1, <1>2, <2>1
<1>3. CASE t = 1
  <2>1. /\ (16 * k + 1) \div 8 = 2 * k /\ (16 * k + 1) % 2 = 1
        /\ (16 * k + 1) \div 2 = 8 * k /\ (8 * k) % 2 = 0
    OBVIOUS
  <2> QED
    BY <1>1, <1>3, <2>1
<1> QED
  BY <1>2, <1>3

\* The header and the footer of the blocks of O.
Tagged(h, w, O) ==
  \A b \in O : h.mem[b - 8] = Tag(w, b) /\ h.mem[B!End(w, b) - 16] = Tag(w, b)

\* The prologue, the epilogue and the break.
Edges(h, w) ==
  /\ h.mem_brk = w.brk
  /\ h.mem[HeapLo + 8] = 17 /\ h.mem[HeapLo + 16] = 17 /\ h.mem[w.brk - 8] = 1

\* What the macros read in the header of b.
Read(h, w, b) ==
  /\ BlockSize(h, b) = B!Size(w, b) /\ NEXT_BLKP(h, b) = B!End(w, b)
  /\ IsFree(h, b) <=> b \in B!FreeBlocks(w)
  /\ GET_TAG(h, HDRP(b)) = 0

LEMMA HeaderRead ==
  ASSUME NEW w, InMemory(w), NEW O \in SUBSET DOMAIN w.blk, NEW h, Tagged(h, w, O), NEW b \in O
  PROVE  Read(h, w, b)
<1>1. B!Size(w, b) \in Nat /\ B!Size(w, b) % 16 = 0 /\ w.blk[b].alloc \in BOOLEAN
      /\ B!End(w, b) = b + B!Size(w, b)
  BY BlockIs DEF IsBlock
<1>2. h.mem[b - 8] = B!Size(w, b) + Bit(w, b)
  BY DEF Tagged, Tag
<1>3. Bit(w, b) \in {0, 1} /\ (Bit(w, b) = 0 <=> b \in B!FreeBlocks(w))
  BY <1>1 DEF Bit, B!FreeBlocks
<1>4. /\ 8 * ((B!Size(w, b) + Bit(w, b)) \div 8) = B!Size(w, b)
      /\ (B!Size(w, b) + Bit(w, b)) % 2 = Bit(w, b)
      /\ 2 * (((B!Size(w, b) + Bit(w, b)) \div 2) % 2) = 0
  BY <1>1, <1>3, TagReads
<1> QED
  BY <1>1, <1>2, <1>3, <1>4
     DEF Read, BlockSize, NEXT_BLKP, IsFree, GET_SIZE, GET_ALLOC, GET_TAG, HDRP

\* g is h with the two tags of b.
TagsPut(h, b, size, t, g) ==
  /\ Beside(h, g)
  /\ \A x \in WordAddress :
       g.mem[x] = IF x = b - 8 \/ x = b + size - 16 THEN size + t ELSE h.mem[x]

LEMMA SetTagsIs ==
  ASSUME NEW h, IsWords(h), NEW b \in Nat, NEW size \in Nat, size % 16 = 0, size >= 32,
         NEW t \in {0, 1}, b - 8 \in WordAddress, b + size - 16 \in WordAddress,
         NEW g, g = SetTags(h, b, size, t)
  PROVE  TagsPut(h, b, size, t, g)
<1> DEFINE h1 == PUT(h, b - 8, size + t)
<1>1. Beside(h, h1) /\ \A x \in WordAddress : h1.mem[x] = IF x = b - 8 THEN size + t ELSE h.mem[x]
  BY PutIs
<1>2. FTRP(h1, b) = b + size - 16
  <2>1. h1.mem[b - 8] = size + t /\ 8 * ((size + t) \div 8) = size
    BY <1>1, TagReads
  <2> HIDE DEF h1
  <2> QED
    BY <2>1 DEF FTRP, HDRP, GET_SIZE
<1>3. g = PUT(h1, b + size - 16, size + t)
  BY <1>2 DEF SetTags, HDRP
<1> HIDE DEF h1
<1>4. Beside(h1, g) /\ \A x \in WordAddress : g.mem[x] = IF x = b + size - 16 THEN size + t ELSE h1.mem[x]
  BY <1>1, <1>3, PutIs DEF Beside
<1> QED
  BY <1>1, <1>4 DEF Beside, TagsPut

-----------------------------------------------------------------------------
(* The words represent the blocks                                          *)

\* The words of the blocks that hold links or payload are the same; those that
\* hold the payload of the caller are.
Bodies(h, g, w) ==
  \A b \in DOMAIN w.blk, x \in WordAddress :
    b <= x /\ x < B!End(w, b) - 16 => g.mem[x] = h.mem[x]
Payloads(h, g, w) ==
  \A b \in B!Taken(w), x \in WordAddress :
    b <= x /\ x < B!End(w, b) - 16 => g.mem[x] = h.mem[x]

\* The words of h represent w, but for the tags of blocks that are not in O and
\* for the free blocks that are not in F, which are in no list.
Built(h, w, O, F) ==
  /\ IsWords(h) /\ InMemory(w) /\ Edges(h, w)
  /\ O \in SUBSET DOMAIN w.blk /\ Tagged(h, w, O)
  /\ F \in SUBSET B!FreeBlocks(w)
  /\ B!Listing(w.free, F, w.blk) /\ Linked(h, w.free, w.blk)

LEMMA ShelfOf ==
  ASSUME NEW h, NEW w, NEW O, NEW F, Built(h, w, O, F)
  PROVE  Shelf(w.free, F, w.blk)
<1>1. F \subseteq DOMAIN w.blk /\ InMemory(w) /\ B!Listing(w.free, F, w.blk)
  BY DEF Built, B!FreeBlocks
<1>2. ASSUME NEW x \in F PROVE Site(x) /\ w.blk[x].size \in Nat
  <2>1. BlockWords(w, x) /\ IsBlock(w, x)
    BY <1>1, WordsOf, BlockIs
  <2> QED
    BY <2>1 DEF BlockWords, IsBlock, B!Size
<1> QED
  BY <1>1, <1>2 DEF Shelf

\* The same words, seen as blocks of which those of P are the same.
LEMMA Rebase ==
  ASSUME NEW h, NEW a, NEW O, NEW F, Built(h, a, O, F),
         NEW w, InMemory(w), w.brk = a.brk, w.free = a.free,
         F \in SUBSET B!FreeBlocks(w), \A c \in F : w.blk[c].size = a.blk[c].size,
         NEW P \in SUBSET (O \cap DOMAIN w.blk), \A c \in P : w.blk[c] = a.blk[c]
  PROVE  Built(h, w, P, F)
<1>1. /\ IsWords(h) /\ Edges(h, a) /\ Tagged(h, a, O)
      /\ B!Listing(a.free, F, a.blk) /\ Linked(h, a.free, a.blk)
  BY DEF Built
<1>2. Edges(h, w)
  BY <1>1 DEF Edges
<1>3. Tagged(h, w, P)
  BY <1>1 DEF Tagged, Tag, Bit, B!Size, B!End
<1>4. B!Listing(w.free, F, w.blk)
  <2>1. B!Listing(w.free, F, a.blk)
    BY <1>1
  <2> QED
    BY <2>1, BlocksAssumed, B!ListingSame
<1>5. Linked(h, w.free, w.blk)
  <2>1. Shelf(w.free, F, a.blk) /\ Linked(h, w.free, a.blk)
    BY <1>1, ShelfOf
  <2> QED
    BY <2>1, LinkedSame
<1> QED
  BY <1>1, <1>2, <1>3, <1>4, <1>5 DEF Built

\* The header and the footer of b are written.
LEMMA TagSet ==
  ASSUME NEW h, NEW w, NEW O, NEW F, Built(h, w, O, F), NEW b \in DOMAIN w.blk,
         NEW g, g = SetTags(h, b, B!Size(w, b), Bit(w, b))
  PROVE  Built(g, w, O \cup {b}, F) /\ Bodies(h, g, w)
<1>1. /\ IsWords(h) /\ InMemory(w) /\ Edges(h, w)
      /\ O \in SUBSET DOMAIN w.blk /\ Tagged(h, w, O)
      /\ F \in SUBSET B!FreeBlocks(w)
      /\ B!Listing(w.free, F, w.blk) /\ Linked(h, w.free, w.blk)
  BY DEF Built
<1>2. IsBlock(w, b) /\ BlockWords(w, b)
  BY <1>1, BlockIs, WordsOf
<1>3. /\ Beside(h, g)
      /\ \A x \in WordAddress :
           g.mem[x] = IF x = b - 8 \/ x = B!End(w, b) - 16 THEN Tag(w, b) ELSE h.mem[x]
  <2>1. /\ b \in Nat /\ B!Size(w, b) \in Nat /\ B!Size(w, b) % 16 = 0 /\ B!Size(w, b) >= 32
        /\ B!End(w, b) = b + B!Size(w, b) /\ b - 8 \in WordAddress
        /\ b + B!Size(w, b) - 16 \in WordAddress
    BY <1>2 DEF IsBlock, BlockWords
  <2>2. Bit(w, b) \in {0, 1}
    BY DEF Bit
  <2>3. TagsPut(h, b, B!Size(w, b), Bit(w, b), g)
    BY <1>1, <2>1, <2>2, SetTagsIs
  <2> QED
    BY <2>1, <2>3 DEF Tag, TagsPut
<1>4. b \in Nat /\ B!End(w, b) \in Nat /\ B!End(w, b) >= b + 32 /\ B!End(w, b) <= w.brk
      /\ HeapLo + 32 <= b /\ w.brk \in Nat /\ HeapLo \in Nat
  BY <1>2, Extents DEF IsBlock, BlockWords
<1>5. ASSUME NEW c \in DOMAIN w.blk, c # b
      PROVE  /\ c \in Nat /\ B!End(w, c) \in Nat /\ B!End(w, c) >= c + 32
             /\ B!End(w, b) <= c \/ B!End(w, c) <= b
             /\ c - 8 \in WordAddress /\ B!End(w, c) - 16 \in WordAddress
  <2>1. IsBlock(w, c) /\ BlockWords(w, c)
    BY <1>1, BlockIs, WordsOf
  <2> QED
    BY <1>1, <1>5, <2>1, Apart DEF IsBlock, BlockWords
<1>6. Tagged(g, w, O \cup {b})
  <2> SUFFICES ASSUME NEW c \in O \cup {b}
               PROVE  g.mem[c - 8] = Tag(w, c) /\ g.mem[B!End(w, c) - 16] = Tag(w, c)
    BY DEF Tagged
  <2>1. CASE c = b
    BY <1>2, <1>3, <2>1 DEF BlockWords
  <2>2. CASE c # b
    <3>1. c \in DOMAIN w.blk /\ h.mem[c - 8] = Tag(w, c) /\ h.mem[B!End(w, c) - 16] = Tag(w, c)
      BY <1>1, <2>2 DEF Tagged
    <3>2. /\ c - 8 # b - 8 /\ c - 8 # B!End(w, b) - 16
          /\ B!End(w, c) - 16 # b - 8 /\ B!End(w, c) - 16 # B!End(w, b) - 16
      BY <1>4, <1>5, <2>2, <3>1
    <3>3. c - 8 \in WordAddress /\ B!End(w, c) - 16 \in WordAddress
      BY <1>5, <2>2, <3>1
    <3> QED
      BY <1>3, <3>1, <3>2, <3>3
  <2> QED
    BY <2>1, <2>2
<1>7. Bodies(h, g, w)
  <2> SUFFICES ASSUME NEW c \in DOMAIN w.blk, NEW x \in WordAddress,
                      c <= x, x < B!End(w, c) - 16
               PROVE  x # b - 8 /\ x # B!End(w, b) - 16
    BY <1>3 DEF Bodies
  <2>1. x \in Nat
    BY WordsAre
  <2>2. CASE c = b
    BY <1>4, <2>1, <2>2
  <2>3. CASE c # b
    BY <1>4, <1>5, <2>1, <2>3
  <2> QED
    BY <2>2, <2>3
<1>8. Edges(g, w)
  <2>1. /\ HeapLo + 8 \in WordAddress /\ HeapLo + 16 \in WordAddress /\ w.brk - 8 \in WordAddress
    BY <1>1, EdgeWords
  <2>2. /\ HeapLo + 8 # b - 8 /\ HeapLo + 16 # b - 8 /\ w.brk - 8 # b - 8
        /\ HeapLo + 8 # B!End(w, b) - 16 /\ HeapLo + 16 # B!End(w, b) - 16
        /\ w.brk - 8 # B!End(w, b) - 16
    BY <1>4
  <2> QED
    BY <1>1, <1>3, <2>1, <2>2 DEF Edges, Beside
<1>9. Linked(g, w.free, w.blk)
  <2>1. Shelf(w.free, F, w.blk)
    BY ShelfOf
  <2>2. ASSUME NEW c \in F PROVE g.mem[c] = h.mem[c] /\ g.mem[c + 8] = h.mem[c + 8]
    <3>1. c \in DOMAIN w.blk
      BY <1>1 DEF B!FreeBlocks
    <3>2. /\ c \in Nat /\ c \in WordAddress /\ c + 8 \in WordAddress
          /\ B!End(w, c) \in Nat /\ B!End(w, c) >= c + 32
      <4>1. IsBlock(w, c) /\ BlockWords(w, c)
        BY <1>1, <3>1, BlockIs, WordsOf
      <4> QED
        BY <4>1 DEF IsBlock, BlockWords, Site
    <3>3. c <= c /\ c < B!End(w, c) - 16 /\ c <= c + 8 /\ c + 8 < B!End(w, c) - 16
      BY <3>2
    <3> QED
      BY <1>7, <3>1, <3>2, <3>3 DEF Bodies
  <2>3. g.seg_list = h.seg_list
    BY <1>3 DEF Beside
  <2> QED
    BY <1>1, <2>1, <2>2, <2>3, LinkedElsewhere
<1> QED
  BY <1>1, <1>3, <1>6, <1>7, <1>8, <1>9 DEF Built, Beside

\* Links are neither tags nor payload.
LEMMA LinksSpare ==
  ASSUME NEW h, NEW w, InMemory(w), Edges(h, w), NEW O \in SUBSET DOMAIN w.blk, Tagged(h, w, O),
         NEW S \in SUBSET B!FreeBlocks(w), NEW g, LinksOnly(h, g, S)
  PROVE  Edges(g, w) /\ Tagged(g, w, O) /\ Payloads(h, g, w)
<1>1. S \subseteq DOMAIN w.blk
  BY DEF B!FreeBlocks
<1>2. ASSUME NEW b \in DOMAIN w.blk
      PROVE  /\ b \in Nat /\ B!End(w, b) \in Nat /\ B!End(w, b) >= b + 32
             /\ B!End(w, b) <= w.brk /\ HeapLo + 32 <= b
             /\ b - 8 \in WordAddress /\ B!End(w, b) - 16 \in WordAddress
             /\ \A c \in DOMAIN w.blk : c # b => B!End(w, b) <= c \/ B!End(w, c) <= b
  <2>1. IsBlock(w, b) /\ BlockWords(w, b)
    BY BlockIs, WordsOf
  <2>2. \A c \in DOMAIN w.blk : c # b => B!End(w, b) <= c \/ B!End(w, c) <= b
    BY Apart
  <2> QED
    BY <2>1, <2>2 DEF IsBlock, BlockWords
<1>3. w.brk \in Nat /\ HeapLo \in Nat
  BY BrkIs, Extents
<1>4. \A x \in WordAddress : (\A b \in S : x # b /\ x # b + 8) => g.mem[x] = h.mem[x]
  BY DEF LinksOnly
<1>5. Edges(g, w)
  <2>1. HeapLo + 8 \in WordAddress /\ HeapLo + 16 \in WordAddress /\ w.brk - 8 \in WordAddress
    BY EdgeWords
  <2>2. ASSUME NEW b \in S
        PROVE  /\ HeapLo + 8 # b /\ HeapLo + 16 # b /\ w.brk - 8 # b
               /\ HeapLo + 8 # b + 8 /\ HeapLo + 16 # b + 8 /\ w.brk - 8 # b + 8
    BY <1>1, <1>2, <1>3
  <2> QED
    BY <1>4, <2>1, <2>2 DEF Edges, LinksOnly
<1>6. Tagged(g, w, O)
  <2> SUFFICES ASSUME NEW c \in O
               PROVE  g.mem[c - 8] = h.mem[c - 8] /\ g.mem[B!End(w, c) - 16] = h.mem[B!End(w, c) - 16]
    BY DEF Tagged
  <2>1. ASSUME NEW b \in S
        PROVE  /\ c - 8 # b /\ c - 8 # b + 8
               /\ B!End(w, c) - 16 # b /\ B!End(w, c) - 16 # b + 8
    <3>1. b \in DOMAIN w.blk /\ c \in DOMAIN w.blk
      BY <1>1
    <3>2. /\ b \in Nat /\ B!End(w, b) \in Nat /\ B!End(w, b) >= b + 32
          /\ c \in Nat /\ B!End(w, c) \in Nat /\ B!End(w, c) >= c + 32
          /\ c # b => B!End(w, b) <= c \/ B!End(w, c) <= b
      BY <1>2, <3>1
    <3> QED
      BY <3>2
  <2> QED
    BY <1>2, <1>4, <2>1
<1>7. Payloads(h, g, w)
  <2> SUFFICES ASSUME NEW c \in B!Taken(w), NEW x \in WordAddress,
                      c <= x, x < B!End(w, c) - 16
               PROVE  \A b \in S : x # b /\ x # b + 8
    BY <1>4 DEF Payloads
  <2> SUFFICES ASSUME NEW b \in S PROVE x # b /\ x # b + 8
    OBVIOUS
  <2>1. b \in DOMAIN w.blk /\ c \in DOMAIN w.blk /\ c # b /\ x \in Nat
    BY <1>1, WordsAre DEF B!Taken, B!FreeBlocks
  <2>2. /\ b \in Nat /\ B!End(w, b) \in Nat /\ B!End(w, b) >= b + 32
        /\ c \in Nat /\ B!End(w, c) \in Nat /\ B!End(w, c) >= c + 32
        /\ B!End(w, b) <= c \/ B!End(w, c) <= b
    BY <1>2, <2>1
  <2> QED
    BY <2>1, <2>2
<1> QED
  BY <1>5, <1>6, <1>7

\* node_remove takes b off its list.
Unlisted(h, a, F, b, g, r) ==
  /\ r.blk = a.blk /\ r.brk = a.brk
  /\ Built(g, r, DOMAIN r.blk, F \ {b}) /\ Payloads(h, g, a)

LEMMA NodeRemoveIs ==
  ASSUME NEW h, NEW a, NEW F, Built(h, a, DOMAIN a.blk, F), NEW b \in F,
         NEW g, g = node_remove(h, b), NEW r, r = B!node_remove(a, b)
  PROVE  Unlisted(h, a, F, b, g, r)
<1>1. /\ IsWords(h) /\ InMemory(a) /\ Edges(h, a) /\ Tagged(h, a, DOMAIN a.blk)
      /\ F \in SUBSET B!FreeBlocks(a) /\ F \subseteq DOMAIN a.blk
      /\ B!Listing(a.free, F, a.blk) /\ Linked(h, a.free, a.blk)
      /\ B!IsHeap(a) /\ B!Tiles(a)
  BY DEF Built, InMemory, B!FreeBlocks
<1>2. /\ B!IsHeap(r) /\ r.blk = a.blk /\ r.brk = a.brk
      /\ B!Listing(r.free, F \ {b}, a.blk)
      /\ \E pos : a.free[pos] = b /\ B!Removed(a.free, pos, r.free)
  BY <1>1, BlocksAssumed, B!NodeRemoved
<1>3. PICK pos : a.free[pos] = b /\ B!Removed(a.free, pos, r.free)
  BY <1>2
<1>4. BlockSize(h, b) = a.blk[b].size
  <2>1. Read(h, a, b)
    BY <1>1, HeaderRead
  <2> QED
    BY <2>1 DEF Read, B!Size
<1>5. /\ Shelf(r.free, F \ {b}, a.blk) /\ Linked(g, r.free, a.blk)
      /\ LinksOnly(h, g, F \ {b})
  <2>1. Shelf(a.free, F, a.blk)
    BY ShelfOf
  <2>2. PICK q, s : q = a.free /\ s = r.free
    OBVIOUS
  <2>3. /\ Shelf(s, F \ {b}, a.blk) /\ Linked(g, s, a.blk)
        /\ LinksOnly(h, g, F \ {b})
    BY <1>1, <1>2, <1>3, <1>4, <2>1, <2>2, LinkedRemoved
  <2> QED
    BY <2>2, <2>3
<1>6. Edges(g, a) /\ Tagged(g, a, DOMAIN a.blk) /\ Payloads(h, g, a)
  BY <1>1, <1>5, LinksSpare
<1>7. InMemory(r)
  BY <1>1, <1>2, BlocksAssumed, B!SameTiles DEF InMemory
<1>8. Edges(g, r) /\ Tagged(g, r, DOMAIN r.blk)
  BY <1>2, <1>6 DEF Edges, Tagged, Tag, Bit, B!Size, B!End
<1>9. F \ {b} \in SUBSET B!FreeBlocks(r)
  BY <1>1, <1>2 DEF B!FreeBlocks
<1>10. IsWords(g)
  BY <1>5 DEF LinksOnly
<1>11. Built(g, r, DOMAIN r.blk, F \ {b})
  BY <1>2, <1>5, <1>7, <1>8, <1>9, <1>10 DEF Built
<1> QED
  BY <1>2, <1>6, <1>11 DEF Unlisted

\* Where node_add puts a block of list l whose place in q is pos.
Neighbours(h, q, blk, l, size, pos) ==
  LET nodes == Nodes(h, l)
      smaller == {k \in DOMAIN nodes : \A j \in 1..k : size > BlockSize(h, nodes[j])}
      n == Cardinality(smaller)
  IN  /\ (IF n = 0 THEN NULL ELSE nodes[n]) = At(q, blk, l, pos - 1)
      /\ (IF n = Len(nodes) THEN NULL ELSE nodes[n + 1]) = At(q, blk, l, pos)

LEMMA NeighboursAre ==
  ASSUME NEW h, NEW q, NEW S, NEW blk, Shelf(q, S, blk), Linked(h, q, blk),
         \A x \in S : BlockSize(h, x) = blk[x].size,
         NEW size \in Nat, NEW l, l = select_list(size),
         NEW pos \in 1..(Len(q) + 1), \A i \in 1..Len(q) : i < pos <=> blk[q[i]].size < size
  PROVE  Neighbours(h, q, blk, l, size, pos)
<1>1. /\ Len(q) \in Nat
      /\ \A i \in 1..Len(q) : q[i] \in S /\ blk[q[i]].size \in Nat /\ Cl(blk, q[i]) \in Nat
  BY ShelfIs
<1>2. l \in Lists /\ l \in Nat /\ l + 1 \in Nat
  BY SelectOrder
<1>3. PICK p \in 1..(Len(q) + 1) : Starts(q, blk, l, p)
  BY <1>2, StartsExist
<1>4. PICK e \in 1..(Len(q) + 1) : Starts(q, blk, l + 1, e)
  BY <1>2, StartsExist
<1> DEFINE nodes == Nodes(h, l)
<1>5. /\ p \in Nat /\ e \in Nat /\ 1 <= p /\ p <= e /\ e <= Len(q) + 1
      /\ nodes = [k \in 1..(e - p) |-> q[p + k - 1]]
      /\ \A i \in 1..Len(q) : p <= i /\ i < e <=> Cl(blk, q[i]) = l
  <2>1. Run(h, q, blk, l, p, e)
    BY <1>2, <1>3, <1>4, NodesAre
  <2> QED
    BY <2>1 DEF Run
<1>6. pos \in Nat /\ pos >= 1 /\ pos <= Len(q) + 1
  BY <1>1
<1>7. ASSUME NEW i \in 1..Len(q) PROVE Cl(blk, q[i]) < l => i < pos
  <2>1. blk[q[i]].size \in Nat
    BY <1>1
  <2>2. select_list(blk[q[i]].size) < select_list(size) => blk[q[i]].size < size
    BY <2>1, SelectOrder
  <2> QED
    BY <2>2 DEF Cl
<1>8. ASSUME NEW i \in 1..Len(q) PROVE i < pos => Cl(blk, q[i]) <= l
  <2>1. blk[q[i]].size \in Nat
    BY <1>1
  <2>2. blk[q[i]].size <= size => select_list(blk[q[i]].size) <= select_list(size)
    BY <2>1, SelectOrder
  <2>3. i < pos => blk[q[i]].size <= size
    BY <2>1
  <2> QED
    BY <2>2, <2>3 DEF Cl
<1>9. p <= pos
  <2> SUFFICES ASSUME pos < p PROVE FALSE
    BY <1>5, <1>6
  <2>1. pos \in 1..Len(q) /\ ~(pos < pos)
    BY <1>1, <1>5, <1>6
  <2>2. Cl(blk, q[pos]) < l
    BY <1>3, <2>1 DEF Starts
  <2> QED
    BY <1>7, <2>1, <2>2
<1>10. pos <= e
  <2> SUFFICES ASSUME e < pos PROVE FALSE
    BY <1>5, <1>6
  <2>1. e \in 1..Len(q) /\ ~(e < e)
    BY <1>1, <1>5, <1>6
  <2>2. ~(Cl(blk, q[e]) < l + 1) /\ Cl(blk, q[e]) \in Nat
    BY <1>1, <1>4, <2>1 DEF Starts
  <2>3. Cl(blk, q[e]) <= l
    BY <1>8, <2>1
  <2> QED
    BY <1>2, <2>2, <2>3
<1> HIDE DEF nodes
<1>11. DOMAIN nodes = 1..(e - p) /\ e - p \in Nat
       /\ \A k \in 1..(e - p) : p + k - 1 \in 1..Len(q) /\ nodes[k] = q[p + k - 1]
  <2>1. \A k \in 1..(e - p) : p + k - 1 \in 1..Len(q)
    BY <1>1, <1>5
  <2>2. DOMAIN nodes = 1..(e - p) /\ \A k \in 1..(e - p) : nodes[k] = q[p + k - 1]
    BY <1>5
  <2>3. e - p \in Nat
    BY <1>5
  <2> QED
    BY <2>1, <2>2, <2>3
<1>12. Len(nodes) = e - p
  <2>1. nodes \in Seq(S)
    <3>0. PICK m \in Nat : m = e - p
      BY <1>11
    <3>1. nodes = [k \in 1..m |-> nodes[k]]
      BY <1>5, <3>0
    <3>2. \A k \in 1..m : nodes[k] \in S
      BY <1>1, <1>11, <3>0
    <3>3. nodes \in [1..m -> S]
      BY <3>1, <3>2
    <3> QED
      BY <3>3
  <2>2. DOMAIN nodes = 1..Len(nodes) /\ Len(nodes) \in Nat
    BY <2>1
  <2>3. PICK m \in Nat, n \in Nat : m = Len(nodes) /\ n = e - p
    BY <1>11, <2>2
  <2>4. 1..m = 1..n
    BY <1>11, <2>2, <2>3
  <2> QED
    BY <2>3, <2>4, BlocksAssumed, B!SameInterval
<1> DEFINE smaller == {k \in DOMAIN nodes : \A j \in 1..k : size > BlockSize(h, nodes[j])}
<1>13. smaller = 1..(pos - p)
  <2>1. ASSUME NEW k \in 1..(e - p) PROVE size > BlockSize(h, nodes[k]) <=> p + k - 1 < pos
    <3>1. PICK i \in 1..Len(q) : i = p + k - 1
      BY <1>11
    <3>2. nodes[k] = q[i] /\ q[i] \in S /\ blk[q[i]].size \in Nat
      BY <1>1, <1>11, <3>1
    <3>3. BlockSize(h, nodes[k]) = blk[q[i]].size
      BY <3>2
    <3>4. size > blk[q[i]].size <=> i < pos
      BY <3>2
    <3> QED
      BY <3>1, <3>3, <3>4
  <2>2. ASSUME NEW k \in 1..(e - p)
        PROVE  (\A j \in 1..k : size > BlockSize(h, nodes[j])) <=> p + k - 1 < pos
    <3>1. k \in 1..k /\ \A j \in 1..k : j \in 1..(e - p) /\ j <= k /\ j \in Int
      BY <1>11
    <3>2. p + k - 1 < pos => \A j \in 1..k : p + j - 1 < pos
      BY <1>5, <1>6, <3>1
    <3> QED
      BY <2>1, <3>1, <3>2
  <2>3. \A k : k \in 1..(e - p) /\ p + k - 1 < pos <=> k \in 1..(pos - p)
    BY <1>5, <1>6, <1>10
  <2> QED
    BY <1>11, <2>2, <2>3
<1> DEFINE n == Cardinality(smaller)
<1>14. n = pos - p /\ n \in Nat
  <2> HIDE DEF smaller
  <2>1. PICK m \in Nat : m = pos - p
    BY <1>5, <1>6, <1>9
  <2>2. Cardinality(1..m) = m
    BY FS_Interval
  <2> QED
    BY <1>13, <2>1, <2>2
<1> HIDE DEF n
<1>15. (IF n = 0 THEN NULL ELSE nodes[n]) = At(q, blk, l, pos - 1)
  <2>1. CASE n = 0
    <3>1. pos = p
      BY <1>5, <1>6, <1>14, <2>1
    <3>2. pos - 1 \in 1..Len(q) => ~(p <= pos - 1)
      BY <1>5, <3>1
    <3>3. pos - 1 \in 1..Len(q) => Cl(blk, q[pos - 1]) # l
      BY <1>5, <3>2
    <3> QED
      BY <2>1, <3>3 DEF At
  <2>2. CASE n # 0
    <3>1. n \in 1..(e - p) /\ p + n - 1 = pos - 1 /\ p <= pos - 1 /\ pos - 1 < e
      BY <1>5, <1>6, <1>10, <1>14, <2>2
    <3>2. pos - 1 \in 1..Len(q) /\ nodes[n] = q[pos - 1]
      BY <1>11, <3>1
    <3>3. Cl(blk, q[pos - 1]) = l
      BY <1>5, <3>1, <3>2
    <3> QED
      BY <2>2, <3>2, <3>3 DEF At
  <2> QED
    BY <2>1, <2>2
<1>16. (IF n = Len(nodes) THEN NULL ELSE nodes[n + 1]) = At(q, blk, l, pos)
  <2>1. CASE n = Len(nodes)
    <3>1. pos = e
      BY <1>5, <1>6, <1>12, <1>14, <2>1
    <3>2. pos \in 1..Len(q) => Cl(blk, q[pos]) # l
      BY <1>5, <3>1
    <3> QED
      BY <2>1, <3>2 DEF At
  <2>2. CASE n # Len(nodes)
    <3>1. n + 1 \in 1..(e - p) /\ p + (n + 1) - 1 = pos /\ p <= pos /\ pos < e
      BY <1>5, <1>6, <1>9, <1>10, <1>12, <1>14, <2>2
    <3>2. pos \in 1..Len(q) /\ nodes[n + 1] = q[pos]
      BY <1>11, <3>1
    <3>3. Cl(blk, q[pos]) = l
      BY <1>5, <3>1, <3>2
    <3> QED
      BY <2>2, <3>2, <3>3 DEF At
  <2> QED
    BY <2>1, <2>2
<1> QED
  BY <1>15, <1>16 DEF Neighbours, n, nodes

\* node_add puts b in its list.
Listed(h, w, F, b, g, k) ==
  /\ k.blk = w.blk /\ k.brk = w.brk
  /\ Built(g, k, DOMAIN k.blk, F \cup {b}) /\ Payloads(h, g, w)

LEMMA NodeAddIs ==
  ASSUME NEW h, NEW w, NEW F, Built(h, w, DOMAIN w.blk, F),
         NEW b \in B!FreeBlocks(w), b \notin F,
         NEW g, g = node_add(h, b, B!Size(w, b)), NEW k, k = B!node_add(w, b)
  PROVE  Listed(h, w, F, b, g, k)
<1>1. /\ IsWords(h) /\ InMemory(w) /\ Edges(h, w) /\ Tagged(h, w, DOMAIN w.blk)
      /\ F \in SUBSET B!FreeBlocks(w) /\ F \subseteq DOMAIN w.blk /\ b \in DOMAIN w.blk
      /\ B!Listing(w.free, F, w.blk) /\ Linked(h, w.free, w.blk)
      /\ B!IsHeap(w) /\ B!Tiles(w)
  BY DEF Built, InMemory, B!FreeBlocks
<1>2. IsBlock(w, b) /\ BlockWords(w, b)
  BY <1>1, BlockIs, WordsOf
<1>3. b \in Nat /\ Site(b) /\ B!Size(w, b) \in Nat /\ w.blk[b].size = B!Size(w, b)
  BY <1>2 DEF IsBlock, BlockWords, B!Size
<1>4. /\ B!IsHeap(k) /\ k.blk = w.blk /\ k.brk = w.brk
      /\ B!Listing(k.free, F \cup {b}, w.blk)
      /\ \E pos : B!Entered(w.free, w.blk, b, pos, k.free)
  <2>1. \A c \in F \cup {b} : B!Size(w, c) \in Int
    <3> SUFFICES ASSUME NEW c \in F \cup {b} PROVE B!Size(w, c) \in Int
      OBVIOUS
    <3>1. IsBlock(w, c)
      BY <1>1, BlockIs
    <3> QED
      BY <3>1 DEF IsBlock
  <2> QED
    BY <1>1, <1>3, <2>1, BlocksAssumed, B!NodeAdded
<1>5. PICK pos : B!Entered(w.free, w.blk, b, pos, k.free)
  BY <1>4
<1> DEFINE l == select_list(B!Size(w, b))
<1>6. Neighbours(h, w.free, w.blk, l, B!Size(w, b), pos)
  <2>1. Shelf(w.free, F, w.blk)
    BY ShelfOf
  <2>2. \A x \in F : BlockSize(h, x) = w.blk[x].size
    <3> SUFFICES ASSUME NEW x \in F PROVE BlockSize(h, x) = w.blk[x].size
      OBVIOUS
    <3>1. Read(h, w, x)
      BY <1>1, HeaderRead
    <3> QED
      BY <3>1 DEF Read, B!Size
  <2>3. /\ pos \in 1..(Len(w.free) + 1)
        /\ \A i \in 1..Len(w.free) : i < pos <=> w.blk[w.free[i]].size < B!Size(w, b)
    BY <1>3, <1>5 DEF B!Entered
  <2>4. PICK q, size : q = w.free /\ size = B!Size(w, b)
    OBVIOUS
  <2>5. /\ pos \in 1..(Len(q) + 1)
        /\ \A i \in 1..Len(q) : i < pos <=> w.blk[q[i]].size < size
    BY <2>3, <2>4
  <2>6. Neighbours(h, q, w.blk, l, size, pos)
    BY <1>1, <1>3, <2>1, <2>2, <2>4, <2>5, NeighboursAre
  <2> QED
    BY <2>4, <2>6
<1>7. g = LinkNode(h, l, b, At(w.free, w.blk, l, pos - 1), At(w.free, w.blk, l, pos))
  BY <1>6 DEF node_add, Neighbours
<1>8. l = Cl(w.blk, b)
  BY <1>3 DEF Cl
<1> HIDE DEF l
<1>9. /\ Shelf(k.free, F \cup {b}, w.blk) /\ Linked(g, k.free, w.blk)
      /\ LinksOnly(h, g, F \cup {b})
  <2>1. Shelf(w.free, F, w.blk)
    BY ShelfOf
  <2>2. PICK q, s : q = w.free /\ s = k.free
    OBVIOUS
  <2>3. w.blk[b].size \in Nat
    BY <1>3
  <2>4. B!Entered(q, w.blk, b, pos, s) /\ B!Listing(s, F \cup {b}, w.blk)
    BY <1>4, <1>5, <2>2
  <2>5. /\ Shelf(s, F \cup {b}, w.blk) /\ Linked(g, s, w.blk)
        /\ LinksOnly(h, g, F \cup {b})
    BY <1>1, <1>3, <1>7, <1>8, <2>1, <2>2, <2>3, <2>4, LinkedInserted
  <2> QED
    BY <2>2, <2>5
<1>10. F \cup {b} \in SUBSET B!FreeBlocks(w)
  BY <1>1
<1>11. Edges(g, w) /\ Tagged(g, w, DOMAIN w.blk) /\ Payloads(h, g, w)
  BY <1>1, <1>9, <1>10, LinksSpare
<1>12. InMemory(k)
  BY <1>1, <1>4, BlocksAssumed, B!SameTiles DEF InMemory
<1>13. Edges(g, k) /\ Tagged(g, k, DOMAIN k.blk)
  BY <1>4, <1>11 DEF Edges, Tagged, Tag, Bit, B!Size, B!End
<1>14. F \cup {b} \in SUBSET B!FreeBlocks(k)
  BY <1>4, <1>10 DEF B!FreeBlocks
<1>15. IsWords(g)
  BY <1>9 DEF LinksOnly
<1>16. Built(g, k, DOMAIN k.blk, F \cup {b})
  BY <1>4, <1>9, <1>12, <1>13, <1>14, <1>15 DEF Built
<1> QED
  BY <1>4, <1>11, <1>16 DEF Listed

-----------------------------------------------------------------------------
(* The operations                                                          *)

Rep(h, a) == Built(h, a, DOMAIN a.blk, B!FreeBlocks(a))

LEMMA RepIs ==
  ASSUME NEW h, NEW a, Rep(h, a)
  PROVE  /\ IsWords(h) /\ InMemory(a) /\ Edges(h, a) /\ Tagged(h, a, DOMAIN a.blk)
         /\ Built(h, a, DOMAIN a.blk, B!FreeBlocks(a))
         /\ B!Tiled(a) /\ B!IsHeap(a) /\ B!Tiles(a)
BY DEF Rep, Built, InMemory, B!Tiled

LEMMA PayloadsSame ==
  ASSUME NEW h, NEW g, NEW r, NEW a, Payloads(h, g, r), B!Taken(a) \subseteq B!Taken(r),
         \A c \in B!Taken(a) : r.blk[c] = a.blk[c]
  PROVE  Payloads(h, g, a)
BY DEF Payloads, B!End

\* The block before b, when it is free, is where the footer before b says.
PrevIs(h, a, b) ==
  LET prev == PREV_BLKP(h, b)
  IN  IF B!Before(a, b) = {} THEN ~IsFree(h, prev)
      ELSE IsFree(h, prev) /\ B!Before(a, b) = {prev} /\ BlockSize(h, prev) = B!Size(a, prev)

LEMMA PrevRead ==
  ASSUME NEW h, NEW a, Rep(h, a), NEW b \in DOMAIN a.blk
  PROVE  PrevIs(h, a, b)
<1>1. /\ InMemory(a) /\ Edges(h, a) /\ Tagged(h, a, DOMAIN a.blk) /\ B!Tiles(a)
  BY RepIs
<1>2. ASSUME NEW d \in DOMAIN a.blk
      PROVE  /\ d \in Nat /\ HeapLo + 32 <= d /\ B!End(a, d) \in Nat /\ d < B!End(a, d)
             /\ B!Size(a, d) \in Nat /\ B!Size(a, d) % 16 = 0 /\ B!End(a, d) = d + B!Size(a, d)
             /\ Read(h, a, d)
  <2>1. IsBlock(a, d) /\ Read(h, a, d)
    BY <1>1, BlockIs, HeaderRead
  <2> QED
    BY <2>1 DEF IsBlock
<1>3. HeapLo \in Nat /\ B!FirstBlock = HeapLo + 32
  BY <1>1, BrkIs, Extents
<1>4. CASE b = HeapLo + 32
  <2>1. h.mem[b - 16] = 17 /\ h.mem[b - 16 - 8] = 17
    <3>1. b - 16 = HeapLo + 16 /\ b - 16 - 8 = HeapLo + 8
      BY <1>3, <1>4
    <3> QED
      BY <1>1, <3>1 DEF Edges
  <2>2. 8 * (17 \div 8) = 16 /\ 17 % 2 = 1
    OBVIOUS
  <2>3. PREV_BLKP(h, b) = b - 16
    BY <2>1, <2>2 DEF PREV_BLKP, GET_SIZE
  <2>4. ~IsFree(h, b - 16)
    BY <2>1, <2>2 DEF IsFree, GET_ALLOC, HDRP
  <2>5. B!Before(a, b) = {}
    <3> SUFFICES ASSUME NEW d \in B!Before(a, b) PROVE FALSE
      OBVIOUS
    <3>1. d \in DOMAIN a.blk /\ B!End(a, d) = b
      BY DEF B!Before, B!FreeBlocks
    <3> QED
      BY <1>2, <1>3, <1>4, <3>1
  <2> QED
    BY <2>3, <2>4, <2>5 DEF PrevIs
<1>5. CASE b # HeapLo + 32
  <2>1. PICK c \in DOMAIN a.blk : c < b /\ B!End(a, c) = b
    BY <1>1, <1>3, <1>5, BlocksAssumed, B!Preceded
  <2>2. PREV_BLKP(h, b) = c
    <3>1. h.mem[b - 16] = B!Size(a, c) + Bit(a, c)
      BY <1>1, <2>1 DEF Tagged, Tag
    <3>2. Bit(a, c) \in {0, 1} /\ B!Size(a, c) \in Nat /\ B!Size(a, c) % 16 = 0
      BY <1>2 DEF Bit
    <3>3. 8 * ((B!Size(a, c) + Bit(a, c)) \div 8) = B!Size(a, c)
      BY <3>2, TagReads
    <3>4. PREV_BLKP(h, b) = b - B!Size(a, c)
      BY <3>1, <3>3 DEF PREV_BLKP, GET_SIZE
    <3> QED
      BY <1>2, <2>1, <3>4
  <2>3. (IsFree(h, c) <=> c \in B!FreeBlocks(a)) /\ BlockSize(h, c) = B!Size(a, c)
    BY <1>2 DEF Read
  <2>4. \A d \in DOMAIN a.blk : B!End(a, d) = b => d = c
    <3> SUFFICES ASSUME NEW d \in DOMAIN a.blk, B!End(a, d) = b, d # c PROVE FALSE
      OBVIOUS
    <3>1. B!End(a, d) <= c \/ B!End(a, c) <= d
      BY <1>1, Apart
    <3> QED
      BY <1>2, <2>1, <3>1
  <2>5. B!Before(a, b) = IF c \in B!FreeBlocks(a) THEN {c} ELSE {}
    BY <2>1, <2>4 DEF B!Before, B!FreeBlocks
  <2> QED
    BY <2>2, <2>3, <2>5 DEF PrevIs
<1> QED
  BY <1>4, <1>5

NextIs(h, a, b) ==
  LET next == NEXT_BLKP(h, b)
  IN  IF B!After(a, b) = {} THEN ~IsFree(h, next)
      ELSE IsFree(h, next) /\ B!After(a, b) = {next} /\ BlockSize(h, next) = B!Size(a, next)

LEMMA NextRead ==
  ASSUME NEW h, NEW a, Rep(h, a), NEW b \in DOMAIN a.blk
  PROVE  NextIs(h, a, b)
<1>1. /\ InMemory(a) /\ Edges(h, a) /\ Tagged(h, a, DOMAIN a.blk)
  BY RepIs
<1>2. Read(h, a, b) /\ IsBlock(a, b)
  BY <1>1, HeaderRead, BlockIs
<1>3. NEXT_BLKP(h, b) = B!End(a, b) /\ B!End(a, b) \in DOMAIN a.blk \cup {a.brk}
  BY <1>2 DEF Read, IsBlock
<1>4. B!After(a, b) = IF B!End(a, b) \in B!FreeBlocks(a) THEN {B!End(a, b)} ELSE {}
  BY DEF B!After
<1>5. CASE B!End(a, b) \in DOMAIN a.blk
  <2>1. Read(h, a, B!End(a, b))
    BY <1>1, <1>5, HeaderRead
  <2> QED
    BY <1>3, <1>4, <2>1 DEF NextIs, Read
<1>6. CASE B!End(a, b) \notin DOMAIN a.blk
  <2>1. B!End(a, b) = a.brk /\ B!End(a, b) \notin B!FreeBlocks(a)
    BY <1>3, <1>6 DEF B!FreeBlocks
  <2>2. h.mem[B!End(a, b) - 8] = 1 /\ 1 % 2 = 1
    BY <1>1, <2>1 DEF Edges
  <2>3. ~IsFree(h, B!End(a, b))
    BY <2>2 DEF IsFree, GET_ALLOC, HDRP
  <2> QED
    BY <1>3, <1>4, <2>1, <2>3 DEF NextIs
<1> QED
  BY <1>5, <1>6

\* A neighbour leaves its list when there is a free one.
Dropped(h, a, F, X, g, r) ==
  /\ r.blk = a.blk /\ r.brk = a.brk
  /\ Built(g, r, DOMAIN r.blk, F \ X) /\ Payloads(h, g, a)

LEMMA DropIs ==
  ASSUME NEW h, NEW a, NEW F, Built(h, a, DOMAIN a.blk, F),
         NEW c, NEW X, X = {} \/ (X = {c} /\ c \in F),
         NEW g, g = IF X = {} THEN h ELSE node_remove(h, c),
         NEW r, r = B!Drop(a, X)
  PROVE  Dropped(h, a, F, X, g, r)
<1>1. CASE X = {}
  <2>1. g = h /\ r = a /\ F \ X = F
    BY <1>1 DEF B!Drop
  <2>2. Payloads(h, g, a)
    BY <2>1 DEF Payloads
  <2> QED
    BY <2>1, <2>2 DEF Dropped
<1>2. CASE X # {}
  <2>1. X = {c} /\ c \in F /\ g = node_remove(h, c) /\ r = B!node_remove(a, c)
    BY <1>2 DEF B!Drop
  <2>2. Unlisted(h, a, F, c, g, r)
    BY <2>1, NodeRemoveIs
  <2> QED
    BY <2>1, <2>2 DEF Unlisted, Dropped
<1> QED
  BY <1>1, <1>2

\* coalesce leaves b, or what it becomes part of, free.
Joined(h, a, b, got, g) ==
  /\ Rep(got.heap, g) /\ Payloads(h, got.heap, a)
  /\ got.bp \in B!FreeBlocks(g) /\ B!Size(g, got.bp) >= B!Size(a, b)

LEMMA CoalesceIs ==
  ASSUME NEW h, NEW a, Rep(h, a), NEW b \in B!FreeBlocks(a),
         NEW got, got = coalesce(h, b), NEW g, g = B!coalesce(a, b)
  PROVE  Joined(h, a, b, got, g)
<1> DEFINE F == B!FreeBlocks(a)
           prev == PREV_BLKP(h, b)
           next == NEXT_BLKP(h, b)
<1>1. /\ InMemory(a) /\ Tagged(h, a, DOMAIN a.blk) /\ Built(h, a, DOMAIN a.blk, F)
      /\ B!Tiled(a) /\ B!IsHeap(a) /\ B!Tiles(a) /\ b \in DOMAIN a.blk /\ F \subseteq DOMAIN a.blk
  BY RepIs DEF B!FreeBlocks
<1>2. PrevIs(h, a, b) /\ NextIs(h, a, b) /\ Read(h, a, b)
  BY <1>1, PrevRead, NextRead, HeaderRead
<1>3. /\ IsFree(h, prev) <=> B!Before(a, b) # {}
      /\ B!Before(a, b) # {} => B!Before(a, b) = {prev} /\ BlockSize(h, prev) = B!Size(a, prev)
      /\ IsFree(h, next) <=> B!After(a, b) # {}
      /\ B!After(a, b) # {} => B!After(a, b) = {next} /\ BlockSize(h, next) = B!Size(a, next)
      /\ BlockSize(h, b) = B!Size(a, b)
  BY <1>2 DEF PrevIs, NextIs, Read
<1>4. ASSUME NEW c \in DOMAIN a.blk
      PROVE  /\ c \in Nat /\ B!Size(a, c) \in Nat /\ B!Size(a, c) >= 32
             /\ B!End(a, c) = c + B!Size(a, c) /\ B!End(a, c) \in Nat
  <2>1. IsBlock(a, c)
    BY <1>1, BlockIs
  <2> QED
    BY <2>1 DEF IsBlock
<1> HIDE DEF F, prev, next
<1>5. CASE B!Before(a, b) = {} /\ B!After(a, b) = {}
  <2>1. got = [heap |-> h, bp |-> b]
    BY <1>3, <1>5 DEF coalesce, prev, next
  <2>2. g = a
    BY <1>5 DEF B!coalesce
  <2>3. Payloads(h, h, a)
    BY DEF Payloads
  <2>4. B!Size(a, b) >= B!Size(a, b)
    BY <1>1, <1>4
  <2> QED
    BY <2>1, <2>2, <2>3, <2>4 DEF Joined
<1>6. CASE ~(B!Before(a, b) = {} /\ B!After(a, b) = {})
  <2>1. {b} \cup B!Before(a, b) \cup B!After(a, b) # {b}
    <3>1. b \notin B!Before(a, b) /\ b \notin B!After(a, b)
      BY <1>1, <1>4 DEF B!Before, B!After
    <3> QED
      BY <1>6, <3>1
  <2>2. PICK near, lo, hi, r, m : B!Joint(a, b, near, lo, hi, r, m)
    BY <1>1, <2>1, BlocksAssumed, B!Joining
  <2>3. /\ near = {b} \cup B!Before(a, b) \cup B!After(a, b) /\ near \subseteq F
        /\ lo \in near /\ hi \in near
        /\ B!Before(a, b) = (IF lo = b THEN {} ELSE {lo}) /\ (lo # b => B!End(a, lo) = b)
        /\ B!After(a, b) = (IF hi = b THEN {} ELSE {hi}) /\ (hi # b => B!End(a, b) = hi)
        /\ r = B!Drop(B!Drop(B!node_remove(a, b), B!Before(a, b)), B!After(a, b))
        /\ r.blk = a.blk /\ r.brk = a.brk /\ m.free = r.free
        /\ B!OneBlock(a, near, lo, hi, m)
        /\ g = B!node_add(m, lo)
    BY <2>2 DEF B!Joint, F
  <2>4. /\ B!IsHeap(m) /\ B!Tiles(m) /\ m.brk = a.brk
        /\ B!Size(m, lo) = B!End(a, hi) - lo /\ B!Size(m, lo) \in Nat
        /\ DOMAIN m.blk = (DOMAIN a.blk \ near) \cup {lo}
        /\ \A c \in DOMAIN a.blk \ near : m.blk[c] = a.blk[c]
        /\ B!FreeBlocks(m) = (F \ near) \cup {lo}
        /\ B!Taken(m) = B!Taken(a)
    BY <2>3 DEF B!OneBlock, F
  \* Which neighbours there are, and the sizes read.
  <2>5. /\ IsFree(h, prev) <=> lo # b
        /\ lo # b => prev = lo /\ BlockSize(h, prev) = B!Size(a, lo)
        /\ IsFree(h, next) <=> hi # b
        /\ hi # b => next = hi /\ BlockSize(h, next) = B!Size(a, hi)
        /\ lo # b \/ hi # b
    BY <1>3, <1>6, <2>3
  <2> DEFINE h0 == node_remove(h, b)
             h1 == IF B!Before(a, b) = {} THEN h0 ELSE node_remove(h0, lo)
             h2 == IF B!After(a, b) = {} THEN h1 ELSE node_remove(h1, hi)
             r0 == B!node_remove(a, b)
             r1 == B!Drop(r0, B!Before(a, b))
             size == B!Size(m, lo)
             h3 == SetTags(h2, lo, size, 0)
             h4 == node_add(h3, lo, size)
  <2>6. got = [heap |-> h4, bp |-> lo]
    <3> DEFINE SizeIfFree(c) == IF IsFree(h, c) THEN BlockSize(h, c) ELSE 0
               RemoveIfFree(k, c) == IF IsFree(h, c) THEN node_remove(k, c) ELSE k
               first == IF IsFree(h, prev) THEN prev ELSE b
               sum == BlockSize(h, b) + SizeIfFree(prev) + SizeIfFree(next)
               k1 == RemoveIfFree(RemoveIfFree(node_remove(h, b), prev), next)
    <3>1. got = [heap |-> node_add(SetTags(k1, first, sum, 0), first, sum), bp |-> first]
      BY <2>5 DEF coalesce, prev, next
    <3>2. first = lo
      BY <2>5
    <3>3. k1 = h2
      BY <1>3, <2>5
    <3>4. sum = size
      <4>1. /\ lo \in DOMAIN a.blk /\ hi \in DOMAIN a.blk
        BY <1>1, <2>3
      <4>2. sum = B!Size(a, b) + (IF lo = b THEN 0 ELSE B!Size(a, lo))
                    + (IF hi = b THEN 0 ELSE B!Size(a, hi))
        BY <1>3, <2>5
      <4>3. /\ lo \in Nat /\ hi \in Nat /\ b \in Nat
            /\ B!Size(a, b) \in Nat /\ B!Size(a, lo) \in Nat /\ B!Size(a, hi) \in Nat
            /\ B!End(a, b) = b + B!Size(a, b) /\ B!End(a, lo) = lo + B!Size(a, lo)
            /\ B!End(a, hi) = hi + B!Size(a, hi)
        BY <1>1, <1>4, <4>1
      <4>4. size = B!End(a, hi) - lo
        BY <2>4
      <4> HIDE DEF sum, size
      <4>5. CASE lo = b /\ hi # b
        BY <2>3, <4>2, <4>3, <4>4, <4>5
      <4>6. CASE lo # b /\ hi = b
        BY <2>3, <4>2, <4>3, <4>4, <4>6
      <4>7. CASE lo # b /\ hi # b
        BY <2>3, <4>2, <4>3, <4>4, <4>7
      <4> QED
        BY <2>5, <4>5, <4>6, <4>7
    <3> HIDE DEF first, k1, sum, h2, size
    <3> QED
      BY <3>1, <3>2, <3>3, <3>4
  \* The lists are left one by one.
  <2>7. Unlisted(h, a, F, b, h0, r0)
    <3>1. b \in F
      BY DEF F
    <3> QED
      BY <1>1, <3>1, NodeRemoveIs
  <2>8. /\ r0.blk = a.blk /\ r0.brk = a.brk
        /\ Built(h0, r0, DOMAIN r0.blk, F \ {b}) /\ Payloads(h, h0, a)
    BY <2>7 DEF Unlisted
  <2>9. Dropped(h0, r0, F \ {b}, B!Before(a, b), h1, r1)
    <3>1. B!Before(a, b) = {} \/ (B!Before(a, b) = {lo} /\ lo \in F \ {b})
      BY <2>3
    <3> HIDE DEF h0, r0
    <3> QED
      BY <2>8, <3>1, DropIs
  <2>10. /\ r1.blk = a.blk /\ r1.brk = a.brk
         /\ Built(h1, r1, DOMAIN r1.blk, (F \ {b}) \ B!Before(a, b)) /\ Payloads(h0, h1, r0)
    BY <2>8, <2>9 DEF Dropped
  <2>11. Dropped(h1, r1, (F \ {b}) \ B!Before(a, b), B!After(a, b), h2, r)
    <3>1. B!After(a, b) = {} \/ (B!After(a, b) = {hi} /\ hi \in (F \ {b}) \ B!Before(a, b))
      <4>1. hi # b => hi \notin B!Before(a, b)
        <5> SUFFICES ASSUME hi # b, lo # b, hi = lo PROVE FALSE
          BY <2>3
        <5> QED
          BY <1>1, <1>4, <2>3
      <4> QED
        BY <2>3, <4>1
    <3>2. r = B!Drop(r1, B!After(a, b))
      BY <2>3
    <3> HIDE DEF h1, r1
    <3> QED
      BY <2>10, <3>1, <3>2, DropIs
  <2>12. Built(h2, r, DOMAIN a.blk, F \ near) /\ Payloads(h1, h2, r1)
    <3>1. ((F \ {b}) \ B!Before(a, b)) \ B!After(a, b) = F \ near
      BY <2>3
    <3> HIDE DEF h2, r1
    <3> QED
      BY <2>3, <2>11, <3>1 DEF Dropped
  <2> HIDE DEF h0, h1, h2, r0, r1
  <2>13. Payloads(h, h2, a)
    BY <2>8, <2>10, <2>12 DEF Payloads, B!Taken, B!End
  \* They become one block, which gets its tags and enters its list.
  <2>14. Built(h2, m, DOMAIN a.blk \ near, F \ near)
    <3>1. InMemory(m)
      BY <1>1, <2>4 DEF InMemory
    <3>2. F \ near \in SUBSET B!FreeBlocks(m)
      BY <2>4
    <3>3. \A c \in F \ near : m.blk[c].size = r.blk[c].size
      BY <1>1, <2>3, <2>4
    <3>4. DOMAIN a.blk \ near \in SUBSET (DOMAIN a.blk \cap DOMAIN m.blk)
      BY <2>4
    <3>5. \A c \in DOMAIN a.blk \ near : m.blk[c] = r.blk[c]
      BY <2>3, <2>4
    <3>6. m.brk = r.brk /\ m.free = r.free
      BY <2>3, <2>4
    <3> QED
      BY <2>12, <3>1, <3>2, <3>3, <3>4, <3>5, <3>6, Rebase
  <2>15. lo \in DOMAIN m.blk /\ lo \in B!FreeBlocks(m) /\ Bit(m, lo) = 0
    BY <2>4 DEF B!FreeBlocks, Bit
  <2>16. Built(h3, m, (DOMAIN a.blk \ near) \cup {lo}, F \ near) /\ Bodies(h2, h3, m)
    <3>1. h3 = SetTags(h2, lo, B!Size(m, lo), Bit(m, lo))
      BY <2>15
    <3> HIDE DEF h3
    <3> QED
      BY <2>14, <2>15, <3>1, TagSet
  <2>17. Built(h3, m, DOMAIN m.blk, F \ near)
    BY <2>4, <2>16
  <2>18. Listed(h3, m, F \ near, lo, h4, g)
    <3>1. lo \notin F \ near
      BY <2>3
    <3> HIDE DEF h3
    <3> QED
      BY <2>3, <2>15, <2>17, <3>1, NodeAddIs
  <2> HIDE DEF h3, h4
  <2>19. /\ g.blk = m.blk /\ g.brk = m.brk /\ Payloads(h3, h4, m)
         /\ Built(h4, g, DOMAIN g.blk, (F \ near) \cup {lo})
    BY <2>18 DEF Listed
  <2>20. B!FreeBlocks(g) = B!FreeBlocks(m) /\ B!Size(g, lo) = B!Size(m, lo)
    BY <2>19 DEF B!FreeBlocks, B!Size
  <2>21. Rep(h4, g)
    BY <2>4, <2>19, <2>20 DEF Rep
  <2>22. Payloads(h, h4, a)
    <3>1. \A c \in B!Taken(a) : c \in DOMAIN m.blk /\ c \in B!Taken(m) /\ m.blk[c] = a.blk[c]
      BY <2>3, <2>4 DEF B!Taken, B!FreeBlocks, F
    <3>2. Payloads(h2, h3, a)
      BY <2>16, <3>1 DEF Payloads, Bodies, B!End
    <3>3. Payloads(h3, h4, a)
      BY <2>19, <3>1 DEF Payloads, B!End
    <3> QED
      BY <2>13, <3>2, <3>3 DEF Payloads
  <2>23. B!Size(m, lo) >= B!Size(a, b)
    <3>1. lo \in DOMAIN a.blk /\ hi \in DOMAIN a.blk
      BY <1>1, <2>3
    <3>2. lo \in Nat /\ hi \in Nat /\ b \in Nat
          /\ B!Size(a, b) \in Nat /\ B!Size(a, lo) \in Nat /\ B!Size(a, hi) \in Nat
          /\ B!End(a, b) = b + B!Size(a, b) /\ B!End(a, lo) = lo + B!Size(a, lo)
          /\ B!End(a, hi) = hi + B!Size(a, hi)
      BY <1>1, <1>4, <3>1
    <3>3. lo <= b /\ b + B!Size(a, b) <= B!End(a, hi)
      BY <2>3, <3>2
    <3> QED
      BY <2>4, <3>2, <3>3
  <2> QED
    BY <2>6, <2>15, <2>20, <2>21, <2>22, <2>23 DEF Joined
<1> QED
  BY <1>5, <1>6

\* extend_heap fails without a trace, or makes a free block of size bytes.
Stretched(h, a, size, got, g) ==
  IF a.brk + size > Limit THEN got = [heap |-> h, bp |-> NULL]
  ELSE /\ Rep(got.heap, g) /\ Payloads(h, got.heap, a)
       /\ got.bp \in B!FreeBlocks(g) /\ B!Size(g, got.bp) >= size

LEMMA ExtendIs ==
  ASSUME NEW h, NEW a, Rep(h, a), B!Sound(a),
         NEW size \in Nat, size % 16 = 0, size >= 32,
         NEW got, got = extend_heap(h, size \div 8), NEW g, g = B!extend_heap(a, size)
  PROVE  Stretched(h, a, size, got, g)
<1> DEFINE F == B!FreeBlocks(a)
<1>1. /\ IsWords(h) /\ InMemory(a) /\ Edges(h, a) /\ Tagged(h, a, DOMAIN a.blk)
      /\ Built(h, a, DOMAIN a.blk, F) /\ F \subseteq DOMAIN a.blk
      /\ B!Listing(a.free, F, a.blk) /\ Linked(h, a.free, a.blk)
  BY RepIs DEF B!FreeBlocks, Rep, Built
<1>a. PICK bp \in Nat : bp = a.brk
  BY <1>1, BrkIs
<1>2. /\ bp % 16 = 0 /\ HeapLo + 32 <= bp /\ B!FirstBlock = HeapLo + 32
      /\ h.mem_brk = bp /\ HeapLo \in Nat /\ Limit \in Nat /\ bp # NULL /\ bp = a.brk
  BY <1>1, <1>a, BrkIs, Extents DEF Edges
<1>3. (IF (size \div 8) % 2 = 1 THEN (size \div 8 + 1) * 8 ELSE (size \div 8) * 8) = size
  <2>1. PICK k \in Nat : size = 16 * k
    <3>1. size = 16 * (size \div 16) /\ size \div 16 \in Nat
      OBVIOUS
    <3> QED
      BY <3>1
  <2>2. (16 * k) \div 8 = 2 * k /\ (2 * k) % 2 = 0 /\ (2 * k) * 8 = 16 * k
    OBVIOUS
  <2> QED
    BY <2>1, <2>2
<1> DEFINE h0 == [h EXCEPT !.mem_brk = h.mem_brk + size]
           h1 == SetTags(h0, bp, size, 0)
           h2 == PUT(h1, HDRP(NEXT_BLKP(h1, bp)), 0 + 1)
           h3 == node_add(h2, bp, size)
<1>4. CASE a.brk + size > Limit
  <2>1. got = [heap |-> h, bp |-> NULL]
    BY <1>2, <1>3, <1>4 DEF extend_heap, mem_sbrk
  <2> QED
    BY <1>4, <2>1 DEF Stretched
<1>5. CASE ~(a.brk + size > Limit)
  <2>1. got = coalesce(h3, bp)
    BY <1>2, <1>3, <1>5 DEF extend_heap, mem_sbrk
  <2>2. PICK w : /\ B!Appended(a, size, w)
                 /\ g = B!coalesce(B!node_add(w, bp), bp)
    <3>1. a.brk >= B!FirstBlock
      BY <1>2
    <3>2. \E w : /\ B!Appended(a, size, w)
                 /\ B!extend_heap(a, size) = B!coalesce(B!node_add(w, a.brk), a.brk)
      BY <3>1, BlocksAssumed, B!Appending
    <3> QED
      BY <1>2, <3>2
  <2>3. /\ B!IsHeap(w) /\ B!Tiles(w) /\ bp \in B!FreeBlocks(w)
        /\ B!Listing(w.free, B!FreeBlocks(w) \ {bp}, w.blk)
        /\ w.free = a.free /\ w.brk = bp + size /\ B!Size(w, bp) = size
        /\ bp \notin DOMAIN a.blk /\ DOMAIN w.blk = DOMAIN a.blk \cup {bp}
        /\ \A c \in DOMAIN a.blk : w.blk[c] = a.blk[c]
        /\ B!FreeBlocks(w) = F \cup {bp} /\ B!Taken(w) = B!Taken(a)
    BY <1>2, <2>2 DEF B!Appended, B!Loose
  <2>4. InMemory(w)
    BY <1>2, <1>5, <2>3 DEF InMemory, FirstBlock
  <2>5. /\ bp - 8 \in WordAddress /\ bp + size - 16 \in WordAddress /\ bp + size - 8 \in WordAddress
        /\ HeapLo + 8 \in WordAddress /\ HeapLo + 16 \in WordAddress
    <3>1. BlockWords(w, bp)
      BY <2>3, <2>4, WordsOf
    <3>2. B!End(w, bp) = bp + size
      BY <2>3 DEF B!End, B!Size
    <3>3. bp - 8 \in WordAddress /\ bp + size - 16 \in WordAddress
      BY <3>1, <3>2 DEF BlockWords
    <3>4. /\ HeapLo + 8 \in WordAddress /\ HeapLo + 16 \in WordAddress
          /\ w.brk - 8 \in WordAddress
      BY <2>4, EdgeWords
    <3> QED
      BY <2>3, <3>3, <3>4
  <2>6. IsWords(h0) /\ h0.mem = h.mem /\ h0.seg_list = h.seg_list /\ h0.mem_brk = bp + size
    <3>1. h0 = [mem |-> h.mem, seg_list |-> h.seg_list, mem_brk |-> bp + size]
      BY <1>1, <1>2 DEF IsWords
    <3> HIDE DEF h0
    <3> QED
      BY <1>1, <3>1 DEF IsWords
  <2> HIDE DEF h0
  <2>7. /\ Beside(h0, h1)
        /\ \A x \in WordAddress :
             h1.mem[x] = IF x = bp - 8 \/ x = bp + size - 16 THEN size + 0 ELSE h0.mem[x]
    <3>1. 0 \in {0, 1}
      OBVIOUS
    <3>2. TagsPut(h0, bp, size, 0, h1)
      BY <1>2, <2>5, <2>6, <3>1, SetTagsIs
    <3> HIDE DEF h1
    <3> QED
      BY <3>2 DEF TagsPut
  <2> HIDE DEF h1
  <2>8. HDRP(NEXT_BLKP(h1, bp)) = bp + size - 8
    <3>1. h1.mem[bp - 8] = size + 0 /\ 8 * ((size + 0) \div 8) = size
      BY <2>5, <2>7, TagReads
    <3>2. NEXT_BLKP(h1, bp) = bp + size
      BY <3>1 DEF NEXT_BLKP, GET_SIZE
    <3> QED
      BY <3>2 DEF HDRP
  <2>9. /\ Beside(h1, h2)
        /\ \A x \in WordAddress : h2.mem[x] = IF x = bp + size - 8 THEN 1 ELSE h1.mem[x]
    <3>1. h2 = PUT(h1, bp + size - 8, 1)
      BY <2>8
    <3> HIDE DEF h2
    <3> QED
      BY <2>5, <2>7, <3>1, PutIs DEF Beside
  <2> HIDE DEF h2
  <2>10. /\ IsWords(h2) /\ h2.seg_list = h.seg_list /\ h2.mem_brk = bp + size
         /\ \A x \in WordAddress :
              h2.mem[x] = IF x = bp + size - 8 THEN 1
                          ELSE IF x = bp - 8 \/ x = bp + size - 16 THEN size ELSE h.mem[x]
    BY <2>6, <2>7, <2>9 DEF Beside
  <2>11. ASSUME NEW c \in DOMAIN a.blk
         PROVE  /\ c \in Nat /\ c \in WordAddress /\ c + 8 \in WordAddress
                /\ c - 8 \in WordAddress /\ B!End(a, c) - 16 \in WordAddress
                /\ B!End(a, c) \in Nat /\ B!End(a, c) >= c + 32 /\ B!End(a, c) <= bp
                /\ h.mem[c - 8] = Tag(a, c) /\ h.mem[B!End(a, c) - 16] = Tag(a, c)
    <3>1. IsBlock(a, c) /\ BlockWords(a, c)
      BY <1>1, BlockIs, WordsOf
    <3>2. h.mem[c - 8] = Tag(a, c) /\ h.mem[B!End(a, c) - 16] = Tag(a, c)
      BY <1>1 DEF Tagged
    <3> QED
      BY <1>2, <3>1, <3>2 DEF IsBlock, BlockWords, Site
  <2>12. \A x \in WordAddress : x < bp - 8 => h2.mem[x] = h.mem[x]
    <3> SUFFICES ASSUME NEW x \in WordAddress, x < bp - 8
                 PROVE  x # bp + size - 8 /\ x # bp - 8 /\ x # bp + size - 16
      BY <2>10
    <3>1. x \in Nat
      BY WordsAre
    <3> QED
      BY <1>2, <3>1
  <2>13. Edges(h2, w)
    <3>1. /\ HeapLo + 8 < bp - 8 /\ HeapLo + 16 < bp - 8
      BY <1>2
    <3>2. h2.mem[HeapLo + 8] = 17 /\ h2.mem[HeapLo + 16] = 17
      BY <1>1, <2>5, <2>12, <3>1 DEF Edges
    <3>3. h2.mem[bp + size - 8] = 1
      BY <2>5, <2>10
    <3>4. w.brk - 8 = bp + size - 8 /\ h2.mem_brk = w.brk
      BY <2>3, <2>10
    <3> QED
      BY <3>2, <3>3, <3>4 DEF Edges
  <2>14. Tagged(h2, w, DOMAIN w.blk)
    <3> SUFFICES ASSUME NEW c \in DOMAIN w.blk
                 PROVE  h2.mem[c - 8] = Tag(w, c) /\ h2.mem[B!End(w, c) - 16] = Tag(w, c)
      BY DEF Tagged
    <3>1. CASE c = bp
      <4>1. Tag(w, bp) = size /\ B!End(w, bp) = bp + size
        <5>1. w.blk[bp].size = size /\ ~w.blk[bp].alloc
          BY <2>3 DEF B!FreeBlocks, B!Size
        <5> QED
          BY <5>1 DEF Tag, Bit, B!End, B!Size
      <4>2. bp - 8 # bp + size - 8 /\ bp + size - 16 # bp + size - 8
        BY <1>2
      <4> QED
        <5>1. h2.mem[bp - 8] = size /\ h2.mem[bp + size - 16] = size
          BY <2>5, <2>10, <4>2
        <5> QED
          BY <3>1, <4>1, <5>1
    <3>2. CASE c # bp
      <4>1. c \in DOMAIN a.blk /\ w.blk[c] = a.blk[c]
        BY <2>3, <3>2
      <4>2. Tag(w, c) = Tag(a, c) /\ B!End(w, c) = B!End(a, c)
        BY <4>1 DEF Tag, Bit, B!End, B!Size
      <4>3. c - 8 < bp - 8 /\ B!End(a, c) - 16 < bp - 8
        BY <1>2, <2>11, <4>1
      <4> QED
        BY <2>11, <2>12, <4>1, <4>2, <4>3
    <3> QED
      BY <3>1, <3>2
  <2>15. Linked(h2, w.free, w.blk)
    <3>1. Shelf(a.free, F, a.blk)
      BY <1>1, ShelfOf
    <3>2. ASSUME NEW c \in F PROVE h2.mem[c] = h.mem[c] /\ h2.mem[c + 8] = h.mem[c + 8]
      <4>1. c \in DOMAIN a.blk
        BY <1>1
      <4>2. c \in WordAddress /\ c + 8 \in WordAddress /\ c < bp - 8 /\ c + 8 < bp - 8
        BY <1>2, <2>11, <4>1
      <4> QED
        BY <2>12, <4>2
    <3>3. Linked(h2, a.free, a.blk)
      BY <1>1, <2>10, <3>1, <3>2, LinkedElsewhere
    <3>4. \A c \in F : w.blk[c].size = a.blk[c].size
      BY <1>1, <2>3
    <3> HIDE DEF F
    <3>5. Linked(h2, a.free, w.blk)
      BY <3>1, <3>3, <3>4, LinkedSame
    <3> QED
      BY <2>3, <3>5
  <2>16. bp \notin F /\ B!FreeBlocks(w) \ {bp} = F /\ F \in SUBSET B!FreeBlocks(w)
    BY <1>1, <2>3
  <2>17. Built(h2, w, DOMAIN w.blk, F)
    BY <2>3, <2>4, <2>10, <2>13, <2>14, <2>15, <2>16 DEF Built
  <2> DEFINE k == B!node_add(w, bp)
  <2>18. Listed(h2, w, F, bp, h3, k)
    <3>1. h3 = node_add(h2, bp, B!Size(w, bp))
      BY <2>3
    <3> HIDE DEF h3, k, F
    <3> QED
      BY <2>3, <2>16, <2>17, <3>1, NodeAddIs DEF k
  <2> HIDE DEF h3, k
  <2>19. /\ k.blk = w.blk /\ k.brk = w.brk /\ Payloads(h2, h3, w)
         /\ Built(h3, k, DOMAIN k.blk, F \cup {bp})
    BY <2>18 DEF Listed
  <2>20. B!FreeBlocks(k) = F \cup {bp} /\ B!Size(k, bp) = size /\ B!Taken(k) = B!Taken(a)
    BY <2>3, <2>19 DEF B!FreeBlocks, B!Size, B!Taken
  <2>21. Rep(h3, k)
    BY <2>19, <2>20 DEF Rep
  <2>22. Joined(h3, k, bp, got, g)
    <3>1. bp \in B!FreeBlocks(k)
      BY <2>20
    <3>2. g = B!coalesce(k, bp)
      BY <2>2 DEF k
    <3> QED
      BY <2>1, <2>21, <3>1, <3>2, CoalesceIs
  <2>23. Payloads(h, got.heap, a)
    <3>1. Payloads(h, h2, a)
      <4> SUFFICES ASSUME NEW c \in B!Taken(a), NEW x \in WordAddress,
                          c <= x, x < B!End(a, c) - 16
                   PROVE  x < bp - 8
        BY <2>12 DEF Payloads
      <4>1. c \in DOMAIN a.blk /\ x \in Nat
        BY WordsAre DEF B!Taken
      <4> QED
        BY <1>2, <2>11, <4>1
    <3>2. \A c \in B!Taken(a) : /\ c \in B!Taken(w) /\ w.blk[c] = a.blk[c]
                                /\ c \in B!Taken(k) /\ k.blk[c] = a.blk[c]
      BY <2>3, <2>19, <2>20 DEF B!Taken
    <3>3. Payloads(h2, h3, a) /\ Payloads(h3, got.heap, a)
      BY <2>19, <2>22, <3>2 DEF Payloads, B!End, Joined
    <3> QED
      BY <3>1, <3>3 DEF Payloads
  <2> QED
    BY <1>5, <2>20, <2>22, <2>23 DEF Joined, Stretched
<1> QED
  BY <1>4, <1>5


-----------------------------------------------------------------------------
(* free                                                                    *)

\* The header after b says that no block is tagged.
LEMMA NextUntagged ==
  ASSUME NEW h, NEW a, Rep(h, a), NEW b \in DOMAIN a.blk, NEW x, x = B!End(a, b) - 8
  PROVE  GET_TAG(h, x) = 0 /\ h.mem[x] \in Nat /\ x \in WordAddress
<1>1. /\ InMemory(a) /\ Edges(h, a) /\ Tagged(h, a, DOMAIN a.blk)
  BY RepIs
<1>2. B!End(a, b) \in DOMAIN a.blk \cup {a.brk}
  BY <1>1, BlockIs DEF IsBlock
<1>3. CASE B!End(a, b) \in DOMAIN a.blk
  <2> DEFINE c == B!End(a, b)
  <2>1. Read(h, a, c) /\ IsBlock(a, c) /\ BlockWords(a, c)
    BY <1>1, <1>3, HeaderRead, BlockIs, WordsOf
  <2>2. h.mem[c - 8] = Tag(a, c)
    BY <1>1, <1>3 DEF Tagged
  <2>3. GET_TAG(h, c - 8) = 0
    BY <2>1 DEF Read, HDRP
  <2>4. Tag(a, c) \in Nat /\ c - 8 \in WordAddress
    BY <2>1 DEF IsBlock, BlockWords, Tag, Bit
  <2> HIDE DEF c
  <2>5. x = c - 8
    BY DEF c
  <2> QED
    BY <2>2, <2>3, <2>4, <2>5
<1>4. CASE B!End(a, b) = a.brk
  <2>1. x = a.brk - 8 /\ h.mem[x] = 1 /\ x \in WordAddress
    BY <1>1, <1>4, EdgeWords DEF Edges
  <2>2. 2 * ((1 \div 2) % 2) = 0
    OBVIOUS
  <2> QED
    BY <2>1, <2>2 DEF GET_TAG
<1> QED
  BY <1>2, <1>3, <1>4

\* The three writes are those of SetTags.
LEMMA TagsCleared ==
  ASSUME NEW h, NEW a, Rep(h, a), NEW b \in DOMAIN a.blk,
         NEW h1, h1 = TAG_REMOVE(h, HDRP(NEXT_BLKP(h, b))),
         NEW size, size = BlockSize(h, b),
         NEW h2, h2 = PUT_TAG(h1, HDRP(b), size),
         NEW h3, h3 = PUT_TAG(h2, FTRP(h2, b), size)
  PROVE  size = B!Size(a, b) /\ h3 = SetTags(h, b, size, 0)
<1>1. /\ InMemory(a) /\ Edges(h, a) /\ Tagged(h, a, DOMAIN a.blk) /\ IsWords(h)
  BY RepIs
<1>2. Read(h, a, b) /\ IsBlock(a, b) /\ BlockWords(a, b)
  BY <1>1, HeaderRead, BlockIs, WordsOf
<1>3. /\ size = B!Size(a, b) /\ size \in Nat /\ size % 16 = 0 /\ size >= 32
      /\ B!End(a, b) = b + size /\ NEXT_BLKP(h, b) = b + size /\ GET_TAG(h, b - 8) = 0
      /\ b \in Nat /\ b - 8 \in WordAddress /\ b + size - 16 \in WordAddress
      /\ b - 8 # b + size - 16
  <2>1. /\ size = B!Size(a, b) /\ size \in Nat /\ size % 16 = 0 /\ size >= 32
        /\ B!End(a, b) = b + size /\ b \in Nat
    BY <1>2 DEF Read, IsBlock
  <2>2. NEXT_BLKP(h, b) = b + size /\ GET_TAG(h, b - 8) = 0
    BY <1>2, <2>1 DEF Read, HDRP
  <2>3. b - 8 \in WordAddress /\ b + size - 16 \in WordAddress
    BY <1>2, <2>1 DEF BlockWords
  <2> QED
    BY <2>1, <2>2, <2>3
<1> DEFINE x == b + size - 8
<1>4. h1 = h
  <2>1. GET_TAG(h, x) = 0 /\ h.mem[x] \in Nat /\ x \in WordAddress
    BY <1>3, NextUntagged
  <2>2. h1 = PUT(h, x, h.mem[x])
    <3>1. HDRP(NEXT_BLKP(h, b)) = x
      BY <1>3 DEF HDRP
    <3>2. h.mem[x] - 0 = h.mem[x]
      BY <2>1
    <3> HIDE DEF x
    <3> QED
      BY <2>1, <3>1, <3>2 DEF TAG_REMOVE
  <2> HIDE DEF x
  <2>3. Beside(h, h1) /\ \A y \in WordAddress : h1.mem[y] = IF y = x THEN h.mem[x] ELSE h.mem[y]
    BY <1>1, <2>1, <2>2, PutIs
  <2> QED
    BY <1>1, <2>3, WordsEqual
<1> HIDE DEF x
<1>5. h2 = PUT(h, b - 8, size + 0)
  BY <1>3, <1>4 DEF PUT_TAG, HDRP
<1>6. Beside(h, h2) /\ \A y \in WordAddress : h2.mem[y] = IF y = b - 8 THEN size + 0 ELSE h.mem[y]
  <2>1. PICK z, v : z \in WordAddress /\ z = b - 8 /\ v = size + 0
    BY <1>3
  <2>2. h2 = PUT(h, z, v)
    BY <1>5, <2>1
  <2>3. Beside(h, h2) /\ \A y \in WordAddress : h2.mem[y] = IF y = z THEN v ELSE h.mem[y]
    BY <1>1, <2>1, <2>2, PutIs
  <2> QED
    BY <2>1, <2>3
<1>7. FTRP(h2, b) = b + size - 16
  <2>1. 8 * ((size + 0) \div 8) = size
    BY <1>3, TagReads
  <2>2. h2.mem[b - 8] = size + 0
    BY <1>3, <1>6
  <2> QED
    BY <1>3, <2>1, <2>2 DEF FTRP, HDRP, GET_SIZE
<1>8. GET_TAG(h2, b + size - 16) = 0
  <2>1. h2.mem[b + size - 16] = h.mem[b + size - 16]
    BY <1>3, <1>6
  <2>2. h.mem[b + size - 16] = Tag(a, b) /\ h.mem[b - 8] = Tag(a, b)
    BY <1>1, <1>3 DEF Tagged
  <2> QED
    BY <1>3, <2>1, <2>2 DEF GET_TAG
<1>9. h3 = PUT(h2, b + size - 16, size + 0)
  BY <1>7, <1>8 DEF PUT_TAG
<1>10. h3 = SetTags(h, b, size, 0)
  BY <1>5, <1>7, <1>9 DEF SetTags, HDRP
<1> QED
  BY <1>3, <1>10

\* free leaves the blocks of B!free and what the others hold.
Returned(h, new, g) == Rep(new, g) /\ Payloads(h, new, g)

LEMMA FreeIs ==
  ASSUME NEW h, NEW a, Rep(h, a), B!Sound(a), NEW b \in B!Taken(a),
         NEW g, g = B!free(a, b), NEW new, new = free(h, b)
  PROVE  Returned(h, new, g)
<1> DEFINE F == B!FreeBlocks(a)
           h3 == SetTags(h, b, B!Size(a, b), 0)
           h4 == node_add(h3, b, B!Size(a, b))
<1>1. /\ InMemory(a) /\ Built(h, a, DOMAIN a.blk, F) /\ IsWords(h)
      /\ b \in DOMAIN a.blk /\ b \notin F /\ F \subseteq DOMAIN a.blk
  BY RepIs DEF B!Taken, B!FreeBlocks
<1>2. new = coalesce(h4, b).heap
  <2>1. \A h1, size, h2, g3 :
          /\ h1 = TAG_REMOVE(h, HDRP(NEXT_BLKP(h, b))) /\ size = BlockSize(h, b)
          /\ h2 = PUT_TAG(h1, HDRP(b), size) /\ g3 = PUT_TAG(h2, FTRP(h2, b), size)
          => size = B!Size(a, b) /\ g3 = SetTags(h, b, size, 0)
    BY <1>1, TagsCleared
  <2> QED
    BY <2>1 DEF free
<1>3. PICK w : /\ B!Untaken(a, b, w)
               /\ g = B!coalesce(B!node_add(w, b), b)
  BY BlocksAssumed, B!Untaking
<1>4. /\ B!IsHeap(w) /\ B!Tiles(w) /\ b \in B!FreeBlocks(w)
      /\ w.free = a.free /\ w.brk = a.brk /\ DOMAIN w.blk = DOMAIN a.blk
      /\ \A c \in DOMAIN a.blk : B!Size(w, c) = B!Size(a, c)
      /\ \A c \in DOMAIN a.blk \ {b} : w.blk[c] = a.blk[c]
      /\ B!FreeBlocks(w) = F \cup {b} /\ B!Taken(w) = B!Taken(a) \ {b}
  BY <1>3 DEF B!Untaken, B!Loose
<1>5. InMemory(w)
  BY <1>1, <1>4 DEF InMemory
<1> DEFINE P == DOMAIN w.blk \ {b}
<1>6. Built(h, w, P, F)
  <2>1. F \in SUBSET B!FreeBlocks(w)
    BY <1>4
  <2>2. \A c \in F : w.blk[c].size = a.blk[c].size
    BY <1>1, <1>4 DEF B!Size
  <2>3. P \in SUBSET (DOMAIN a.blk \cap DOMAIN w.blk) /\ \A c \in P : w.blk[c] = a.blk[c]
    BY <1>4
  <2> HIDE DEF P, F
  <2> QED
    BY <1>1, <1>4, <1>5, <2>1, <2>2, <2>3, Rebase
<1>7. Built(h3, w, DOMAIN w.blk, F) /\ Bodies(h, h3, w)
  <2>1. Bit(w, b) = 0 /\ B!Size(w, b) = B!Size(a, b) /\ b \in DOMAIN w.blk
    BY <1>1, <1>4 DEF Bit, B!FreeBlocks
  <2>2. P \cup {b} = DOMAIN w.blk
    BY <2>1
  <2>3. h3 = SetTags(h, b, B!Size(w, b), Bit(w, b))
    BY <2>1
  <2> HIDE DEF h3, P, F
  <2>4. Built(h3, w, P \cup {b}, F) /\ Bodies(h, h3, w)
    BY <1>6, <2>1, <2>3, TagSet
  <2> QED
    BY <2>2, <2>4
<1> DEFINE k == B!node_add(w, b)
<1>8. Listed(h3, w, F, b, h4, k)
  <2>1. h4 = node_add(h3, b, B!Size(w, b))
    BY <1>1, <1>4
  <2> HIDE DEF h3, h4, k, F
  <2> QED
    BY <1>1, <1>4, <1>7, <2>1, NodeAddIs DEF k
<1> HIDE DEF h3, h4, k, F
<1>9. /\ k.blk = w.blk /\ k.brk = w.brk /\ Payloads(h3, h4, w)
      /\ Built(h4, k, DOMAIN k.blk, F \cup {b})
  BY <1>8 DEF Listed
<1>10. B!FreeBlocks(k) = B!FreeBlocks(w) /\ B!Taken(k) = B!Taken(w)
  BY <1>9 DEF B!FreeBlocks, B!Taken
<1>11. Rep(h4, k)
  BY <1>4, <1>9, <1>10 DEF Rep
<1>12. Joined(h4, k, b, coalesce(h4, b), g)
  <2>1. b \in B!FreeBlocks(k) /\ g = B!coalesce(k, b)
    BY <1>3, <1>4, <1>10 DEF k
  <2> DEFINE got == coalesce(h4, b)
  <2>2. got = coalesce(h4, b)
    OBVIOUS
  <2> HIDE DEF got
  <2> QED
    BY <1>11, <2>1, <2>2, CoalesceIs
<1>13. /\ B!Taken(g) = B!Taken(a) \ {b}
       /\ \A c \in B!Taken(a) \ {b} : g.blk[c] = a.blk[c]
  BY BlocksAssumed, B!Freed
<1>14. \A c \in B!Taken(g) : c \in DOMAIN a.blk \ {b} /\ g.blk[c] = w.blk[c] /\ c \in B!Taken(w)
  BY <1>4, <1>13 DEF B!Taken
<1>15. Payloads(h, new, g)
  <2>1. Payloads(h, h3, g)
    BY <1>4, <1>7, <1>14 DEF Bodies, Payloads, B!End
  <2>2. Payloads(h3, h4, g)
    BY <1>9, <1>14 DEF Payloads, B!End
  <2>3. Payloads(h4, new, g)
    <3>1. Payloads(h4, new, k)
      BY <1>2, <1>12 DEF Joined
    <3> QED
      BY <1>9, <1>10, <1>14, <3>1 DEF Payloads, B!End
  <2> QED
    BY <2>1, <2>2, <2>3 DEF Payloads
<1> QED
  BY <1>2, <1>12, <1>15 DEF Joined, Returned

-----------------------------------------------------------------------------
(* place                                                                   *)

\* place leaves the blocks of B!place and what the others hold.
Taking(h, a, new, g) == Rep(new, g) /\ Payloads(h, new, a)

LEMMA PlaceWhole ==
  ASSUME NEW h, NEW a, Rep(h, a), B!Sound(a), NEW b \in B!FreeBlocks(a),
         NEW asize \in Nat, asize % 16 = 0, asize >= 32, B!Size(a, b) >= asize,
         B!Size(a, b) - asize <= 32,
         NEW g, g = B!place(a, b, asize), NEW new, new = place(h, b, asize)
  PROVE  Taking(h, a, new, g)
<1> DEFINE F == B!FreeBlocks(a)
           h1 == node_remove(h, b)
           r == B!node_remove(a, b)
<1>1. /\ InMemory(a) /\ Built(h, a, DOMAIN a.blk, F) /\ b \in DOMAIN a.blk /\ F \subseteq DOMAIN a.blk
      /\ Tagged(h, a, DOMAIN a.blk) /\ DOMAIN a.blk \in SUBSET DOMAIN a.blk
  BY RepIs DEF B!FreeBlocks
<1>2. Unlisted(h, a, F, b, h1, r)
  <2> HIDE DEF F, h1, r
  <2>1. b \in F
    BY DEF F
  <2> QED
    BY <1>1, <2>1, NodeRemoveIs DEF h1, r
<1>3. new = SetTags(h1, b, B!Size(a, b), 1)
  <2>1. BlockSize(h, b) = B!Size(a, b)
    BY <1>1, HeaderRead DEF Read
  <2> QED
    BY <2>1 DEF place
<1>4. g = B!WithBlock(r, b, B!Size(a, b), TRUE)
  BY DEF B!place
<1> HIDE DEF h1, r, F
<1>5. /\ r.blk = a.blk /\ r.brk = a.brk /\ Payloads(h, h1, a)
      /\ Built(h1, r, DOMAIN r.blk, F \ {b}) /\ B!IsHeap(r)
  BY <1>2 DEF Unlisted, Built, InMemory
<1>6. /\ g.free = r.free /\ g.brk = r.brk /\ DOMAIN g.blk = DOMAIN a.blk
      /\ g.blk[b] = [size |-> B!Size(a, b), alloc |-> TRUE]
      /\ \A c \in DOMAIN a.blk \ {b} : g.blk[c] = a.blk[c]
  <2>1. B!Written(r, b, B!Size(a, b), TRUE, B!WithBlock(r, b, B!Size(a, b), TRUE))
    BY <1>5, BlocksAssumed, B!BlockWritten
  <2> QED
    BY <1>1, <1>4, <1>5, <2>1 DEF B!Written
<1>7. B!Sound(g) /\ B!Taken(g) = B!Taken(a) \cup {b} /\ \A c \in B!Taken(a) : g.blk[c] = a.blk[c]
  <2>1. B!Placed(a, b, asize, B!place(a, b, asize))
    BY BlocksAssumed, B!PlacedIs
  <2> QED
    BY <2>1 DEF B!Placed
<1>8. InMemory(g)
  BY <1>1, <1>5, <1>6, <1>7 DEF InMemory, B!Sound, B!Tiled
<1>9. B!FreeBlocks(g) = F \ {b}
  BY <1>6 DEF B!FreeBlocks, F
<1> DEFINE P == DOMAIN a.blk \ {b}
           G == F \ {b}
<1>10. Built(h1, g, P, G)
  <2>1. G \in SUBSET B!FreeBlocks(g) /\ \A c \in G : g.blk[c].size = r.blk[c].size
    BY <1>1, <1>5, <1>6, <1>9
  <2>2. P \in SUBSET (DOMAIN r.blk \cap DOMAIN g.blk) /\ \A c \in P : g.blk[c] = r.blk[c]
    BY <1>5, <1>6
  <2>3. Built(h1, r, DOMAIN r.blk, G)
    BY <1>5
  <2> HIDE DEF P, G
  <2> QED
    BY <1>6, <1>8, <2>1, <2>2, <2>3, Rebase
<1>11. Built(new, g, DOMAIN g.blk, G) /\ Bodies(h1, new, g)
  <2>1. Bit(g, b) = 1 /\ B!Size(g, b) = B!Size(a, b) /\ b \in DOMAIN g.blk
    BY <1>1, <1>6 DEF Bit, B!Size
  <2>2. P \cup {b} = DOMAIN g.blk
    BY <1>1, <1>6
  <2>3. new = SetTags(h1, b, B!Size(g, b), Bit(g, b))
    BY <1>3, <2>1
  <2> HIDE DEF P, G
  <2>4. Built(new, g, P \cup {b}, G) /\ Bodies(h1, new, g)
    BY <1>10, <2>1, <2>3, TagSet
  <2> QED
    BY <2>2, <2>4
<1>12. Payloads(h, new, a)
  <2>1. Payloads(h1, new, a)
    BY <1>6, <1>7, <1>11 DEF Bodies, Payloads, B!End, B!Taken
  <2> QED
    BY <1>5, <2>1 DEF Payloads
<1> QED
  BY <1>9, <1>11, <1>12 DEF Taking, Rep

LEMMA PlaceSplit ==
  ASSUME NEW h, NEW a, Rep(h, a), B!Sound(a), NEW b \in B!FreeBlocks(a),
         NEW asize \in Nat, asize % 16 = 0, asize >= 32, B!Size(a, b) - asize > 32,
         NEW g, g = B!place(a, b, asize), NEW new, new = place(h, b, asize)
  PROVE  Taking(h, a, new, g)
<1> DEFINE F == B!FreeBlocks(a)
           h1 == node_remove(h, b)
           h2 == SetTags(h1, b, asize, 1)
           r == B!node_remove(a, b)
           rest == b + asize
           rem == B!Size(a, b) - asize
           h3 == SetTags(h2, rest, rem, 0)
<1>1. /\ InMemory(a) /\ Built(h, a, DOMAIN a.blk, F) /\ b \in DOMAIN a.blk /\ F \subseteq DOMAIN a.blk
      /\ Tagged(h, a, DOMAIN a.blk) /\ DOMAIN a.blk \in SUBSET DOMAIN a.blk
  BY RepIs DEF B!FreeBlocks
<1>2. Unlisted(h, a, F, b, h1, r)
  <2> HIDE DEF F, h1, r
  <2>1. b \in F
    BY DEF F
  <2> QED
    BY <1>1, <2>1, NodeRemoveIs DEF h1, r
<1>3. /\ r.blk = a.blk /\ r.brk = a.brk /\ Payloads(h, h1, a)
      /\ Built(h1, r, DOMAIN r.blk, F \ {b}) /\ B!IsHeap(r)
  <2> HIDE DEF F, h1, r
  <2> QED
    BY <1>2 DEF Unlisted, Built, InMemory
<1>4. PICK w : B!Parted(a, b, asize, w) /\ g = B!node_add(w, rest)
  BY BlocksAssumed, B!Parting
<1>5. /\ B!IsHeap(w) /\ B!Tiles(w) /\ rest \in B!FreeBlocks(w)
      /\ w.brk = a.brk /\ w.free = r.free
      /\ rest \notin DOMAIN a.blk /\ DOMAIN w.blk = DOMAIN a.blk \cup {rest}
      /\ w.blk[b] = [size |-> asize, alloc |-> TRUE] /\ B!Size(w, rest) = rem
      /\ \A c \in DOMAIN a.blk \ {b} : w.blk[c] = a.blk[c]
      /\ B!FreeBlocks(w) = (F \ {b}) \cup {rest} /\ B!Taken(w) = B!Taken(a) \cup {b}
  BY <1>4 DEF B!Parted, B!Loose
<1>6. InMemory(w)
  BY <1>1, <1>5 DEF InMemory
<1> DEFINE P == DOMAIN a.blk \ {b}
           G == F \ {b}
<1>7. Built(h1, w, P, G)
  <2>1. G \in SUBSET B!FreeBlocks(w) /\ \A c \in G : w.blk[c].size = r.blk[c].size
    BY <1>1, <1>3, <1>5
  <2>2. P \in SUBSET (DOMAIN r.blk \cap DOMAIN w.blk) /\ \A c \in P : w.blk[c] = r.blk[c]
    BY <1>3, <1>5
  <2>3. Built(h1, r, DOMAIN r.blk, G) /\ w.free = r.free /\ w.brk = r.brk
    BY <1>3, <1>5
  <2> HIDE DEF P, G, r, h1
  <2> QED
    BY <1>6, <2>1, <2>2, <2>3, Rebase
<1>8. Built(h2, w, DOMAIN a.blk, G) /\ Bodies(h1, h2, w)
  <2>1. Bit(w, b) = 1 /\ B!Size(w, b) = asize /\ b \in DOMAIN w.blk
    BY <1>1, <1>5 DEF Bit, B!Size
  <2>2. P \cup {b} = DOMAIN a.blk
    BY <1>1
  <2>3. h2 = SetTags(h1, b, B!Size(w, b), Bit(w, b))
    BY <2>1
  <2> HIDE DEF P, G, h1, h2
  <2>4. Built(h2, w, P \cup {b}, G) /\ Bodies(h1, h2, w)
    BY <1>7, <2>1, <2>3, TagSet
  <2> QED
    BY <2>2, <2>4
<1>9. NEXT_BLKP(h2, b) = rest
  <2>1. Tagged(h2, w, DOMAIN a.blk) /\ DOMAIN a.blk \in SUBSET DOMAIN w.blk
    <3> HIDE DEF h2, G
    <3> QED
      BY <1>8 DEF Built
  <2> HIDE DEF h2
  <2>2. Read(h2, w, b)
    BY <1>1, <1>6, <2>1, HeaderRead
  <2>3. B!End(w, b) = b + asize
    BY <1>5 DEF B!End
  <2> QED
    BY <2>2, <2>3 DEF Read
<1>10. new = node_add(h3, rest, rem)
  <2>1. BlockSize(h, b) = B!Size(a, b)
    BY <1>1, HeaderRead DEF Read
  <2>2. B!Size(a, b) \in Nat
    BY <1>1, BlockIs DEF IsBlock
  <2>3. ~(B!Size(a, b) - asize <= 2 * 16)
    BY <2>2
  <2> QED
    BY <1>9, <2>1, <2>3 DEF place
<1>11. Built(h3, w, DOMAIN w.blk, G) /\ Bodies(h2, h3, w)
  <2>1. Bit(w, rest) = 0 /\ B!Size(w, rest) = rem /\ rest \in DOMAIN w.blk
    BY <1>5 DEF Bit, B!FreeBlocks
  <2>2. DOMAIN a.blk \cup {rest} = DOMAIN w.blk
    BY <1>5
  <2>3. h3 = SetTags(h2, rest, B!Size(w, rest), Bit(w, rest))
    BY <2>1
  <2> HIDE DEF G, h2, h3, rest
  <2>4. Built(h3, w, DOMAIN a.blk \cup {rest}, G) /\ Bodies(h2, h3, w)
    BY <1>8, <2>1, <2>3, TagSet
  <2> QED
    BY <2>2, <2>4
<1>12. Listed(h3, w, G, rest, new, g)
  <2>1. new = node_add(h3, rest, B!Size(w, rest)) /\ rest \notin G
    BY <1>1, <1>5, <1>10
  <2> HIDE DEF G, h3, rest
  <2> QED
    BY <1>4, <1>5, <1>11, <2>1, NodeAddIs
<1> HIDE DEF h1, h2, h3, r, F
<1>13. /\ g.blk = w.blk /\ g.brk = w.brk /\ Payloads(h3, new, w)
       /\ Built(new, g, DOMAIN g.blk, G \cup {rest})
  BY <1>12 DEF Listed
<1>14. Rep(new, g)
  <2>1. B!FreeBlocks(g) = G \cup {rest}
    BY <1>5, <1>13 DEF B!FreeBlocks
  <2> QED
    BY <1>13, <2>1 DEF Rep
<1>15. Payloads(h, new, a)
  <2>1. \A c \in B!Taken(a) : /\ c \in DOMAIN w.blk /\ w.blk[c] = a.blk[c]
                              /\ c \in B!Taken(w)
    BY <1>5 DEF B!Taken, B!FreeBlocks
  <2>2. Payloads(h1, h2, a) /\ Payloads(h2, h3, a)
    BY <1>8, <1>11, <2>1 DEF Bodies, Payloads, B!End
  <2>3. Payloads(h3, new, a)
    BY <1>13, <2>1 DEF Payloads, B!End
  <2> QED
    BY <1>3, <2>2, <2>3 DEF Payloads
<1> QED
  BY <1>14, <1>15 DEF Taking

LEMMA PlaceIs ==
  ASSUME NEW h, NEW a, Rep(h, a), B!Sound(a), NEW b \in B!FreeBlocks(a),
         NEW asize \in Nat, asize % 16 = 0, asize >= 32, B!Size(a, b) >= asize,
         NEW g, g = B!place(a, b, asize), NEW new, new = place(h, b, asize)
  PROVE  Taking(h, a, new, g)
<1>1. B!Size(a, b) \in Nat
  BY RepIs, BlockIs DEF IsBlock, B!FreeBlocks
<1>2. B!Size(a, b) - asize <= 32 \/ B!Size(a, b) - asize > 32
  BY <1>1
<1> QED
  BY <1>2, PlaceWhole, PlaceSplit

-----------------------------------------------------------------------------
(* find_fit                                                                *)

\* The nodes of list l are its blocks, in ascending order, linked both ways.
ListIs(h, a, l) ==
  /\ Len(Nodes(h, l)) \in Nat /\ DOMAIN Nodes(h, l) = 1..Len(Nodes(h, l))
  /\ \A i \in DOMAIN Nodes(h, l) :
       Nodes(h, l)[i] \in B!FreeBlocks(a) /\ Cl(a.blk, Nodes(h, l)[i]) = l
  /\ \A b \in B!FreeBlocks(a) :
       Cl(a.blk, b) = l => \E i \in DOMAIN Nodes(h, l) : Nodes(h, l)[i] = b
  /\ \A i, j \in DOMAIN Nodes(h, l) :
       i < j => /\ Nodes(h, l)[i] # Nodes(h, l)[j]
                /\ B!Size(a, Nodes(h, l)[i]) <= B!Size(a, Nodes(h, l)[j])
  /\ \A i \in DOMAIN Nodes(h, l) :
       NEXT_BLK(h, Nodes(h, l)[i]) = IF i = 1 THEN NULL ELSE Nodes(h, l)[i - 1]

LEMMA ListsAre ==
  ASSUME NEW h, NEW a, Rep(h, a), NEW l \in Lists
  PROVE  ListIs(h, a, l)
<1> DEFINE F == B!FreeBlocks(a)
<1>1. PICK q, blk : q = a.free /\ blk = a.blk
  OBVIOUS
<1>2. Shelf(q, F, blk) /\ Linked(h, q, blk)
  <2>1. Built(h, a, DOMAIN a.blk, F)
    BY DEF Rep
  <2> HIDE DEF F
  <2> QED
    BY <1>1, <2>1, ShelfOf DEF Built
<1>3. l \in Nat /\ l + 1 \in Nat
  BY Extents DEF Lists
<1> HIDE DEF F
<1>4. PICK p \in 1..(Len(q) + 1) : Starts(q, blk, l, p)
  BY <1>2, <1>3, StartsExist
<1>5. PICK e \in 1..(Len(q) + 1) : Starts(q, blk, l + 1, e)
  BY <1>2, <1>3, StartsExist
<1>6. Run(h, q, blk, l, p, e)
  BY <1>2, <1>4, <1>5, NodesAre
<1>7. PICK nodes : nodes = Nodes(h, l)
  OBVIOUS
<1>8. /\ p \in Nat /\ e \in Nat /\ 1 <= p /\ p <= e /\ e <= Len(q) + 1
      /\ nodes = [k \in 1..(e - p) |-> q[p + k - 1]]
      /\ \A i \in 1..Len(q) : p <= i /\ i < e <=> Cl(blk, q[i]) = l
  BY <1>6, <1>7 DEF Run
<1>9. /\ Len(q) \in Nat
      /\ \A i \in 1..Len(q) : q[i] \in F
      /\ \A x \in F : \E i \in 1..Len(q) : q[i] = x
      /\ \A i, j \in 1..Len(q) : q[i] = q[j] => i = j
      /\ \A i, j \in 1..Len(q) : i < j => blk[q[i]].size <= blk[q[j]].size
  BY <1>2, ShelfIs
<1>10. e - p \in Nat /\ DOMAIN nodes = 1..(e - p) /\ Len(nodes) = e - p
  <2>1. e - p \in Nat /\ DOMAIN nodes = 1..(e - p)
    BY <1>8
  <2> QED
    BY <2>1, LenProperties, <1>8
<1>11. ASSUME NEW k \in 1..(e - p)
       PROVE  /\ p + k - 1 \in 1..Len(q) /\ nodes[k] = q[p + k - 1]
              /\ p <= p + k - 1 /\ p + k - 1 < e
  BY <1>8, <1>9
<1>12. \A i \in DOMAIN nodes : nodes[i] \in F /\ Cl(blk, nodes[i]) = l
  BY <1>8, <1>9, <1>10, <1>11
<1>13. ASSUME NEW b \in F, Cl(blk, b) = l PROVE \E i \in DOMAIN nodes : nodes[i] = b
  <2>1. PICK i \in 1..Len(q) : q[i] = b
    BY <1>9
  <2>2. p <= i /\ i < e
    BY <1>8, <1>13, <2>1
  <2>3. i - p + 1 \in 1..(e - p) /\ p + (i - p + 1) - 1 = i
    BY <1>8, <1>9, <2>2
  <2> QED
    BY <1>10, <1>11, <2>1, <2>3
<1>14. ASSUME NEW i \in DOMAIN nodes, NEW j \in DOMAIN nodes, i < j
       PROVE  nodes[i] # nodes[j] /\ blk[nodes[i]].size <= blk[nodes[j]].size
  <2>1. p + i - 1 \in 1..Len(q) /\ p + j - 1 \in 1..Len(q) /\ p + i - 1 < p + j - 1
    BY <1>8, <1>10, <1>11, <1>14
  <2>2. nodes[i] = q[p + i - 1] /\ nodes[j] = q[p + j - 1]
    BY <1>10, <1>11
  <2>3. p + i - 1 # p + j - 1
    BY <2>1
  <2> QED
    BY <1>9, <2>1, <2>2, <2>3
<1>15. ASSUME NEW i \in DOMAIN nodes
       PROVE  NEXT_BLK(h, nodes[i]) = IF i = 1 THEN NULL ELSE nodes[i - 1]
  <2>1. PICK x \in 1..Len(q) : x = p + i - 1 /\ nodes[i] = q[x]
    BY <1>10, <1>11
  <2>2. h.mem[q[x] + 8] = At(q, blk, Cl(blk, q[x]), x - 1)
    BY <1>2, LinksAre
  <2>3. NEXT_BLK(h, nodes[i]) = At(q, blk, l, x - 1)
    BY <1>12, <2>1, <2>2 DEF NEXT_BLK, NEXT_PTR
  <2>4. CASE i = 1
    <3>1. x - 1 = p - 1
      BY <1>8, <2>1, <2>4
    <3>2. x - 1 \in 1..Len(q) => Cl(blk, q[x - 1]) # l
      BY <1>8, <3>1
    <3> QED
      BY <2>3, <2>4, <3>2 DEF At
  <2>5. CASE i # 1
    <3>1. i - 1 \in 1..(e - p) /\ x - 1 = p + (i - 1) - 1
      BY <1>8, <1>10, <2>1, <2>5
    <3>2. nodes[i - 1] = q[x - 1] /\ x - 1 \in 1..Len(q)
      BY <1>11, <3>1
    <3>3. Cl(blk, q[x - 1]) = l
      BY <1>10, <1>12, <3>1, <3>2
    <3> QED
      BY <2>3, <2>5, <3>2, <3>3 DEF At
  <2> QED
    BY <2>4, <2>5
<1> QED
  BY <1>1, <1>7, <1>10, <1>12, <1>13, <1>14, <1>15 DEF ListIs, F, B!Size

\* find_fit finds a smallest of the free blocks that are large enough.
FitFound(a, asize, fit) ==
  IF \A c \in B!FreeBlocks(a) : B!Size(a, c) < asize THEN fit = NULL
  ELSE /\ fit \in B!FreeBlocks(a) /\ B!Size(a, fit) >= asize /\ fit # NULL
       /\ \A c \in B!FreeBlocks(a) : B!Size(a, c) >= asize => B!Size(a, fit) <= B!Size(a, c)

LEMMA FindFitIs ==
  ASSUME NEW h, NEW a, Rep(h, a), NEW asize \in Nat, NEW fit, fit = find_fit(h, asize)
  PROVE  FitFound(a, asize, fit)
<1> DEFINE F == B!FreeBlocks(a)
           s0 == select_list(asize)
           fits == {l \in s0..(MAX_LEN - 1) :
                      \E bp \in Range(Nodes(h, l)) : asize <= BlockSize(h, bp)}
<1>1. /\ InMemory(a) /\ Tagged(h, a, DOMAIN a.blk) /\ DOMAIN a.blk \in SUBSET DOMAIN a.blk
  BY RepIs
<1>2. ASSUME NEW b \in F
      PROVE  /\ b \in Nat /\ b # NULL /\ B!Size(a, b) \in Nat /\ BlockSize(h, b) = B!Size(a, b)
             /\ Cl(a.blk, b) = select_list(B!Size(a, b))
  <2>1. b \in DOMAIN a.blk
    BY DEF B!FreeBlocks
  <2>2. IsBlock(a, b) /\ Read(h, a, b)
    BY <1>1, <2>1, BlockIs, HeaderRead
  <2>3. b \in Nat /\ b # NULL /\ B!Size(a, b) \in Nat
    BY <2>2, Extents DEF IsBlock
  <2> QED
    BY <2>2, <2>3 DEF Read, Cl, B!Size
<1>3. ASSUME NEW l \in Lists PROVE ListIs(h, a, l)
  BY ListsAre
<1>4. s0 \in Nat /\ s0 \in Lists /\ Lists = 0..(MAX_LEN - 1) /\ MAX_LEN \in Nat
  BY Extents, SelectOrder DEF Lists
<1> HIDE DEF s0
<1>5. fits \subseteq Lists /\ fits \subseteq Nat
  BY <1>4
<1>6. ASSUME NEW l \in fits
      PROVE  \E c \in F : Cl(a.blk, c) = l /\ B!Size(a, c) >= asize
  <2>1. ListIs(h, a, l)
    BY <1>3, <1>5
  <2>2. PICK i \in DOMAIN Nodes(h, l) : asize <= BlockSize(h, Nodes(h, l)[i])
    BY DEF Range
  <2>3. Nodes(h, l)[i] \in F /\ Cl(a.blk, Nodes(h, l)[i]) = l
    BY <2>1 DEF ListIs
  <2> QED
    BY <1>2, <2>2, <2>3
<1>7. ASSUME NEW c \in F, B!Size(a, c) >= asize
      PROVE  Cl(a.blk, c) \in fits
  <2> DEFINE l == Cl(a.blk, c)
  <2>1. l \in Nat /\ l \in Lists /\ s0 <= l
    BY <1>2, <1>4, <1>7, SelectOrder DEF s0
  <2>2. PICK i \in DOMAIN Nodes(h, l) : Nodes(h, l)[i] = c
    BY <1>3, <2>1 DEF ListIs
  <2>3. c \in Range(Nodes(h, l)) /\ asize <= BlockSize(h, c)
    BY <1>2, <1>7, <2>2 DEF Range
  <2>4. l \in s0..(MAX_LEN - 1)
    BY <1>4, <2>1
  <2> QED
    BY <2>3, <2>4
<1>8. fit = LET l == CHOOSE x \in fits : \A y \in fits : x <= y
                nodes == Nodes(h, l)
                k == CHOOSE x \in DOMAIN nodes :
                       /\ asize <= BlockSize(h, nodes[x])
                       /\ \A y \in 1..(x - 1) : asize > BlockSize(h, nodes[y])
            IN  IF fits = {} THEN NULL ELSE nodes[k]
  BY DEF find_fit, s0
<1> HIDE DEF fits
<1>9. CASE \A c \in F : B!Size(a, c) < asize
  <2>1. fits = {}
    <3> SUFFICES ASSUME NEW l \in fits PROVE FALSE
      OBVIOUS
    <3> QED
      BY <1>2, <1>6, <1>9
  <2> QED
    BY <1>8, <1>9, <2>1 DEF FitFound
<1>10. CASE ~(\A c \in F : B!Size(a, c) < asize)
  <2>1. fits # {}
    BY <1>2, <1>7, <1>10
  <2> DEFINE l == CHOOSE x \in fits : \A y \in fits : x <= y
  <2>2. l \in fits /\ \A y \in fits : l <= y
    BY <1>5, <2>1, Least
  <2> HIDE DEF l
  <2>3. PICK nodes : nodes = Nodes(h, l)
    OBVIOUS
  <2>4. /\ Len(nodes) \in Nat /\ DOMAIN nodes = 1..Len(nodes)
        /\ \A i \in DOMAIN nodes : nodes[i] \in F /\ Cl(a.blk, nodes[i]) = l
        /\ \A b \in F : Cl(a.blk, b) = l => \E i \in DOMAIN nodes : nodes[i] = b
        /\ \A i, j \in DOMAIN nodes : i < j => B!Size(a, nodes[i]) <= B!Size(a, nodes[j])
    BY <1>3, <1>5, <2>2, <2>3 DEF ListIs
  <2> DEFINE T == {x \in DOMAIN nodes : asize <= BlockSize(h, nodes[x])}
             First(x) == /\ asize <= BlockSize(h, nodes[x])
                         /\ \A y \in 1..(x - 1) : asize > BlockSize(h, nodes[y])
             k == CHOOSE x \in DOMAIN nodes : First(x)
  <2>5. T # {} /\ T \in SUBSET Nat
    BY <1>2, <1>6, <2>2, <2>4
  <2>6. PICK x \in T : \A y \in T : x <= y
    <3> HIDE DEF T
    <3> QED
      BY <2>5, Least
  <2>7. x \in DOMAIN nodes /\ First(x)
    <3> SUFFICES ASSUME NEW y \in 1..(x - 1) PROVE asize > BlockSize(h, nodes[y])
      BY <2>6
    <3>1. y \in DOMAIN nodes /\ x \in Nat /\ y < x
      BY <2>4, <2>6
    <3>2. y \notin T
      BY <2>4, <2>6, <3>1
    <3>3. BlockSize(h, nodes[y]) \in Nat
      BY <1>2, <2>4, <3>1
    <3> QED
      BY <3>1, <3>2, <3>3
  <2>8. k \in DOMAIN nodes /\ First(k)
    <3> HIDE DEF First
    <3> QED
      BY <2>7
  <2> HIDE DEF k
  <2>9. fit = nodes[k]
    BY <1>8, <2>1, <2>3 DEF k, l
  <2>10. fit \in F /\ B!Size(a, fit) >= asize /\ Cl(a.blk, fit) = l /\ B!Size(a, fit) \in Nat
    BY <1>2, <2>4, <2>8, <2>9
  <2>11. ASSUME NEW c \in F, B!Size(a, c) >= asize PROVE B!Size(a, fit) <= B!Size(a, c)
    <3>1. Cl(a.blk, c) \in fits /\ B!Size(a, c) \in Nat /\ Cl(a.blk, c) = select_list(B!Size(a, c))
      BY <1>2, <1>7, <2>11
    <3>2. l <= Cl(a.blk, c) /\ l \in Nat /\ Cl(a.blk, c) \in Nat
      BY <1>5, <2>2, <3>1
    <3>3. CASE l = Cl(a.blk, c)
      <4>1. PICK j \in DOMAIN nodes : nodes[j] = c
        BY <2>4, <3>3
      <4>2. k \in Nat /\ j \in Nat /\ j >= 1
        BY <2>4, <2>8
      <4>3. ~(j < k)
        <5> SUFFICES ASSUME j < k PROVE FALSE
          OBVIOUS
        <5>1. j \in 1..(k - 1)
          BY <4>2
        <5>2. asize > BlockSize(h, nodes[j])
          BY <2>8, <5>1
        <5> QED
          BY <1>2, <2>11, <3>1, <4>1, <5>2
      <4>4. CASE j = k
        BY <2>9, <2>10, <4>1, <4>4
      <4>5. CASE k < j
        BY <2>4, <2>8, <2>9, <4>1, <4>5
      <4> QED
        BY <4>2, <4>3, <4>4, <4>5
    <3>4. CASE l < Cl(a.blk, c)
      <4>1. l = select_list(B!Size(a, fit))
        BY <1>2, <2>10
      <4>2. B!Size(a, fit) < B!Size(a, c)
        BY <2>10, <3>1, <3>4, <4>1, SelectOrder
      <4> QED
        BY <2>10, <3>1, <4>2
    <3> QED
      BY <3>2, <3>3, <3>4
  <2> QED
    BY <1>2, <1>10, <2>10, <2>11 DEF FitFound
<1> QED
  BY <1>9, <1>10

-----------------------------------------------------------------------------
(* mm_init and malloc                                                      *)

\* The heap of mm_init has no block of the caller.
Started(h, g) == Rep(h, g) /\ B!Sound(g) /\ B!Taken(g) = {}

LEMMA EmptyHeap ==
  ASSUME NEW a, a = [blk |-> [x \in {} |-> 0], free |-> <<>>, brk |-> HeapLo + 32]
  PROVE  /\ B!Sound(a) /\ B!FreeBlocks(a) = {} /\ B!Taken(a) = {} /\ DOMAIN a.blk = {}
         /\ InMemory(a) /\ B!Listing(a.free, {}, a.blk) /\ a.brk = HeapLo + 32 /\ a.free = <<>>
<1>1. /\ a.blk = [x \in {} |-> 0] /\ a.free = <<>> /\ a.brk = HeapLo + 32 /\ B!IsHeap(a)
  BY DEF B!IsHeap
<1>2. DOMAIN a.blk = {} /\ B!FreeBlocks(a) = {} /\ B!Taken(a) = {}
  BY <1>1 DEF B!FreeBlocks, B!Taken
<1>3. B!FirstBlock = HeapLo + 32 /\ FirstBlock = HeapLo + 32 /\ HeapLo + 32 \in Nat
      /\ (HeapLo + 32) % 16 = 0 /\ HeapLo + 32 <= Limit
  <2>1. B!FirstBlock = HeapLo + 32
    BY BlocksAssumed, B!HeapStart
  <2>2. (HeapLo + 32) % 16 = 0
    BY Extents
  <2> QED
    BY <2>1, <2>2, Extents DEF FirstBlock
<1>4. B!Listing(a.free, {}, a.blk)
  <2>1. <<>> \in Seq(Nat) /\ DOMAIN <<>> = {}
    OBVIOUS
  <2>2. B!Range(<<>>) = {}
    BY <2>1 DEF B!Range
  <2> QED
    BY <1>1, <2>1, <2>2 DEF B!Listing
<1>5. a.blk \in [DOMAIN a.blk -> [size : Nat, alloc : BOOLEAN]]
  BY <1>1, <1>2
<1>6. B!Tiles(a)
  BY <1>1, <1>2, <1>3, <1>5 DEF B!Tiles
<1> QED
  <2>1. B!Tiled(a) /\ InMemory(a)
    <3>1. B!Listing(a.free, B!FreeBlocks(a), a.blk)
      BY <1>2, <1>4
    <3>2. B!Tiled(a)
      BY <1>1, <1>6, <3>1 DEF B!Tiled
    <3>3. FirstBlock <= a.brk /\ a.brk <= Limit
      BY <1>1, <1>3
    <3> QED
      BY <1>1, <1>6, <3>2, <3>3 DEF InMemory
  <2>2. B!Sound(a)
    BY <1>2, <2>1 DEF B!Sound
  <2> QED
    BY <1>1, <1>2, <1>4, <2>1, <2>2

LEMMA InitIs ==
  ASSUME NEW mem, mem = [x \in WordAddress |-> mem[x]]
  PROVE  \E g : Started(mm_init(mem), g)
<1> DEFINE h0 == [mem |-> mem, seg_list |-> [l \in Lists |-> NULL], mem_brk |-> HeapLo]
           h1 == [mem |-> mem, seg_list |-> [l \in Lists |-> NULL], mem_brk |-> HeapLo + 32]
           h2 == PUT(h1, HeapLo, 0)
           h3 == PUT(h2, HeapLo + 8, 17)
           h4 == PUT(h3, HeapLo + 16, 17)
           h5 == PUT(h4, HeapLo + 24, 1)
           got == extend_heap(h5, CHUNKSIZE \div 8)
           a == [blk |-> [x \in {} |-> 0], free |-> <<>>, brk |-> HeapLo + 32]
           g == B!extend_heap(a, CHUNKSIZE)
<1>1. /\ HeapLo \in Nat /\ HeapLo # 0 /\ Limit \in Nat /\ HeapLo + 32 + CHUNKSIZE <= Limit
      /\ CHUNKSIZE \in Nat /\ CHUNKSIZE % 16 = 0 /\ CHUNKSIZE >= 32
  BY Extents
<1>2. mm_init(mem) = got.heap
  <2>1. mem_sbrk(h0, 32) = [heap |-> h1, bp |-> HeapLo]
    BY <1>1 DEF mem_sbrk
  <2>2. HeapLo + 2 * 8 = HeapLo + 16 /\ HeapLo + 3 * 8 = HeapLo + 24 /\ 16 + 1 = 17 /\ 0 + 1 = 1 /\ 4 * 8 = 32
    BY <1>1
  <2>3. mm_init(mem) =
          LET s == mem_sbrk(h0, 4 * 8)
          IN  extend_heap(PUT(PUT(PUT(PUT(s.heap, s.bp, 0), s.bp + 8, 16 + 1),
                                  s.bp + 2 * 8, 16 + 1), s.bp + 3 * 8, 0 + 1),
                          CHUNKSIZE \div 8).heap
    BY DEF mm_init, Lists
  <2>4. PICK s : s = mem_sbrk(h0, 4 * 8)
    OBVIOUS
  <2> HIDE DEF h0, h1
  <2>5. s.heap = h1 /\ s.bp = HeapLo
    BY <2>1, <2>2, <2>4
  <2> QED
    BY <2>2, <2>3, <2>4, <2>5
<1>3. /\ HeapLo \in WordAddress /\ HeapLo + 8 \in WordAddress
      /\ HeapLo + 16 \in WordAddress /\ HeapLo + 24 \in WordAddress
  <2>1. HeapLo % 8 = 0 /\ (HeapLo + 8) % 8 = 0 /\ (HeapLo + 16) % 8 = 0 /\ (HeapLo + 24) % 8 = 0
    BY Extents
  <2> QED
    BY <1>1, <2>1, WordsAre
<1>4. IsWords(h1)
  BY DEF IsWords
<1> HIDE DEF h1
<1>5. Beside(h1, h2) /\ \A x \in WordAddress : h2.mem[x] = IF x = HeapLo THEN 0 ELSE h1.mem[x]
  BY <1>3, <1>4, PutIs
<1> HIDE DEF h2
<1>6. Beside(h2, h3) /\ \A x \in WordAddress : h3.mem[x] = IF x = HeapLo + 8 THEN 17 ELSE h2.mem[x]
  BY <1>3, <1>5, PutIs DEF Beside
<1> HIDE DEF h3
<1>7. Beside(h3, h4) /\ \A x \in WordAddress : h4.mem[x] = IF x = HeapLo + 16 THEN 17 ELSE h3.mem[x]
  BY <1>3, <1>6, PutIs DEF Beside
<1> HIDE DEF h4
<1>8. Beside(h4, h5) /\ \A x \in WordAddress : h5.mem[x] = IF x = HeapLo + 24 THEN 1 ELSE h4.mem[x]
  BY <1>3, <1>7, PutIs DEF Beside
<1> HIDE DEF h5
<1>9. /\ IsWords(h5) /\ h5.seg_list = [l \in Lists |-> NULL] /\ h5.mem_brk = HeapLo + 32
      /\ h5.mem[HeapLo + 8] = 17 /\ h5.mem[HeapLo + 16] = 17 /\ h5.mem[HeapLo + 24] = 1
  <2>1. h1.seg_list = [l \in Lists |-> NULL] /\ h1.mem_brk = HeapLo + 32
    BY DEF h1
  <2>2. HeapLo + 8 # HeapLo + 16 /\ HeapLo + 8 # HeapLo + 24 /\ HeapLo + 16 # HeapLo + 24
    BY <1>1
  <2> QED
    BY <1>3, <1>5, <1>6, <1>7, <1>8, <2>1, <2>2 DEF Beside
<1>10. /\ B!Sound(a) /\ B!FreeBlocks(a) = {} /\ B!Taken(a) = {} /\ DOMAIN a.blk = {}
       /\ InMemory(a) /\ B!Listing(a.free, {}, a.blk) /\ a.brk = HeapLo + 32 /\ a.free = <<>>
  BY EmptyHeap
<1> HIDE DEF a
<1>11. Rep(h5, a)
  <2>1. Edges(h5, a)
    <3>1. a.brk - 8 = HeapLo + 24
      BY <1>1, <1>10
    <3> QED
      BY <1>9, <1>10, <3>1 DEF Edges
  <2>2. Tagged(h5, a, DOMAIN a.blk)
    BY <1>10 DEF Tagged
  <2>3. Linked(h5, a.free, a.blk)
    <3>1. Len(a.free) = 0 /\ 1..Len(a.free) = {}
      BY <1>10
    <3> HIDE DEF h5
    <3> QED
      BY <1>9, <3>1 DEF Linked, At
  <2> QED
    BY <1>9, <1>10, <2>1, <2>2, <2>3 DEF Rep, Built
<1>12. Stretched(h5, a, CHUNKSIZE, got, g)
  <2> HIDE DEF got, g
  <2> QED
    BY <1>1, <1>10, <1>11, ExtendIs DEF got, g
<1>13. Rep(got.heap, g)
  BY <1>1, <1>10, <1>12 DEF Stretched
<1>14. B!Sound(g) /\ B!Taken(g) = {}
  <2>1. a.brk >= B!FirstBlock /\ B!Aligned(CHUNKSIZE)
    BY <1>1, <1>10, BlocksAssumed, B!HeapStart
  <2> HIDE DEF g
  <2>2. B!Sound(g) /\ B!Taken(g) = B!Taken(a)
    BY <1>1, <1>10, <2>1, BlocksAssumed, B!Extended DEF g
  <2> QED
    BY <1>10, <2>2
<1> QED
  BY <1>2, <1>13, <1>14 DEF Started

\* What malloc did: it had no room, or it made a block of the caller's.
Refusal(h, a, asize, got) ==
  /\ got = [heap |-> h, bp |-> NULL]
  /\ \A c \in B!FreeBlocks(a) : B!Size(a, c) < asize
  /\ a.brk + Bigger(asize, CHUNKSIZE) > Limit

Best(a, asize, bp, g) ==
  \/ \A c \in B!FreeBlocks(a) : B!Size(a, c) < asize
  \/ /\ g.brk = a.brk /\ bp \in B!FreeBlocks(a) /\ B!Size(a, bp) >= asize
     /\ \A c \in B!FreeBlocks(a) : B!Size(a, c) >= asize => B!Size(a, bp) <= B!Size(a, c)

Granted(h, a, asize, got, g) ==
  /\ got.bp # NULL /\ Rep(got.heap, g) /\ B!Sound(g) /\ Payloads(h, got.heap, a)
  /\ got.bp \notin B!Taken(a) /\ B!Taken(g) = B!Taken(a) \cup {got.bp}
  /\ \A c \in B!Taken(a) : g.blk[c] = a.blk[c]
  /\ B!Size(g, got.bp) >= asize
  /\ Best(a, asize, got.bp, g)

\* What place does to a free block that was found.
LEMMA PlacedGranted ==
  ASSUME NEW h, NEW a, Rep(h, a), B!Sound(a), NEW b \in B!FreeBlocks(a),
         NEW asize \in Nat, asize % 16 = 0, asize >= 32, B!Size(a, b) >= asize,
         NEW got, got = [heap |-> place(h, b, asize), bp |-> b],
         NEW g, g = B!place(a, b, asize)
  PROVE  /\ got.bp = b /\ b # NULL /\ Rep(got.heap, g) /\ B!Sound(g) /\ g.brk = a.brk
         /\ Payloads(h, got.heap, a) /\ b \notin B!Taken(a) /\ B!Taken(g) = B!Taken(a) \cup {b}
         /\ \A c \in B!Taken(a) : g.blk[c] = a.blk[c]
         /\ B!Size(g, b) >= asize
<1>1. got.heap = place(h, b, asize) /\ got.bp = b
  OBVIOUS
<1>2. Taking(h, a, place(h, b, asize), g)
  BY PlaceIs
<1>3. B!Placed(a, b, asize, g)
  BY BlocksAssumed, B!PlacedIs
<1>4. b # NULL /\ b \notin B!Taken(a)
  <2>1. b \in DOMAIN a.blk /\ InMemory(a)
    BY RepIs DEF B!FreeBlocks
  <2>2. b \in Nat /\ HeapLo + 32 <= b
    BY <2>1, BlockIs DEF IsBlock
  <2> QED
    BY <2>2, Extents DEF B!FreeBlocks, B!Taken
<1> QED
  BY <1>1, <1>2, <1>3, <1>4 DEF Taking, B!Placed

LEMMA MallocIs ==
  ASSUME NEW h, NEW a, Rep(h, a), B!Sound(a), NEW n \in Nat,
         NEW asize, asize = AdjustedSize(n), asize \in Nat, asize % 16 = 0, asize >= 32,
         NEW got, got = malloc(h, n)
  PROVE  Refusal(h, a, asize, got) \/ \E g : Granted(h, a, asize, got, g)
<1> DEFINE fit == find_fit(h, asize)
<1>1. FitFound(a, asize, fit)
  BY FindFitIs
<1>2. got = Placed(IF fit # NULL THEN [heap |-> h, bp |-> fit]
                   ELSE extend_heap(h, Bigger(asize, CHUNKSIZE) \div 8), asize)
  BY DEF malloc
<1> HIDE DEF fit
<1>3. InMemory(a) /\ a.brk \in Nat /\ a.brk >= B!FirstBlock
  BY RepIs, BrkIs
<1>4. CASE ~ \A c \in B!FreeBlocks(a) : B!Size(a, c) < asize
  <2>1. /\ fit \in B!FreeBlocks(a) /\ B!Size(a, fit) >= asize /\ fit # NULL
        /\ \A c \in B!FreeBlocks(a) : B!Size(a, c) >= asize => B!Size(a, fit) <= B!Size(a, c)
    BY <1>1, <1>4 DEF FitFound
  <2>2. got = [heap |-> place(h, fit, asize), bp |-> fit]
    BY <1>2, <2>1 DEF Placed
  <2> DEFINE g == B!place(a, fit, asize)
  <2>3. /\ got.bp = fit /\ fit # NULL /\ Rep(got.heap, g) /\ B!Sound(g) /\ g.brk = a.brk
        /\ Payloads(h, got.heap, a) /\ fit \notin B!Taken(a) /\ B!Taken(g) = B!Taken(a) \cup {fit}
        /\ \A c \in B!Taken(a) : g.blk[c] = a.blk[c]
        /\ B!Size(g, fit) >= asize
    <3> HIDE DEF g
    <3> QED
      BY <2>1, <2>2, PlacedGranted DEF g
  <2> HIDE DEF g
  <2>4. Best(a, asize, fit, g)
    BY <2>1, <2>3 DEF Best
  <2> QED
    BY <2>3, <2>4 DEF Granted
<1>5. CASE \A c \in B!FreeBlocks(a) : B!Size(a, c) < asize
  <2> DEFINE size == Bigger(asize, CHUNKSIZE)
             ext == extend_heap(h, size \div 8)
             m == B!extend_heap(a, size)
  <2>1. fit = NULL
    BY <1>1, <1>5 DEF FitFound
  <2>2. got = IF ext.bp = NULL THEN ext ELSE [heap |-> place(ext.heap, ext.bp, asize), bp |-> ext.bp]
    BY <1>2, <2>1 DEF Placed
  <2>3. size \in Nat /\ size % 16 = 0 /\ size >= 32 /\ size >= asize
    BY Extents DEF Bigger
  <2>4. Stretched(h, a, size, ext, m)
    <3> HIDE DEF size, ext, m
    <3> QED
      BY <2>3, ExtendIs DEF ext, m
  <2>5. CASE a.brk + size > Limit
    <3>1. ext = [heap |-> h, bp |-> NULL]
      BY <2>4, <2>5 DEF Stretched
    <3>2. got = [heap |-> h, bp |-> NULL]
      BY <2>2, <3>1
    <3> QED
      BY <1>5, <2>5, <3>2 DEF Refusal
  <2>6. CASE ~(a.brk + size > Limit)
    <3>1. /\ Rep(ext.heap, m) /\ Payloads(h, ext.heap, a)
          /\ ext.bp \in B!FreeBlocks(m) /\ B!Size(m, ext.bp) >= size
      BY <2>4, <2>6 DEF Stretched
    <3> HIDE DEF size, ext, m
    <3>2. /\ B!Sound(m) /\ B!Taken(m) = B!Taken(a) /\ \A c \in B!Taken(a) : m.blk[c] = a.blk[c]
      <4>1. B!Aligned(size)
        BY <2>3
      <4> QED
        BY <1>3, <2>3, <4>1, BlocksAssumed, B!Extended DEF m
    <3> DEFINE b == ext.bp
               g == B!place(m, b, asize)
               end == [heap |-> place(ext.heap, b, asize), bp |-> b]
    <3>3. B!Size(m, b) >= asize
      <4>1. B!Size(m, b) \in Nat
        BY <3>1, RepIs, BlockIs DEF IsBlock, B!FreeBlocks
      <4> QED
        BY <2>3, <3>1, <4>1
    <3> HIDE DEF b, end, g
    <3>4. /\ end.bp = b /\ b # NULL /\ Rep(end.heap, g) /\ B!Sound(g) /\ g.brk = m.brk
          /\ Payloads(ext.heap, end.heap, m) /\ b \notin B!Taken(m)
          /\ B!Taken(g) = B!Taken(m) \cup {b}
          /\ \A c \in B!Taken(m) : g.blk[c] = m.blk[c]
          /\ B!Size(g, b) >= asize
      <4>1. b \in B!FreeBlocks(m)
        BY <3>1 DEF b
      <4>2. end = [heap |-> place(ext.heap, b, asize), bp |-> b]
        BY DEF end
      <4>3. g = B!place(m, b, asize)
        BY DEF g
      <4> QED
        BY <3>1, <3>2, <3>3, <4>1, <4>2, <4>3, PlacedGranted
    <3>5. got = end
      BY <2>2, <3>4 DEF b, end
    <3>6. Payloads(h, got.heap, a)
      BY <3>1, <3>2, <3>4, <3>5 DEF Payloads, B!End
    <3>7. Best(a, asize, b, g)
      BY <1>5 DEF Best
    <3> QED
      BY <3>2, <3>4, <3>5, <3>6, <3>7 DEF Granted
  <2> QED
    BY <2>5, <2>6
<1> QED
  BY <1>4, <1>5

-----------------------------------------------------------------------------
(* The walk over the headers meets the blocks                              *)

IsTour(at, h) ==
  at = [k \in 0..(HeapSize \div 16) |->
          IF k = 0 THEN FirstBlock
          ELSE LET b == at[k - 1]
               IN  IF b \notin WordAddress \/ b >= h.mem_brk \/ BlockSize(h, b) <= 0
                   THEN NULL ELSE NEXT_BLKP(h, b)]
Tour(h) == CHOOSE at : IsTour(at, h)

\* Where the walk goes from a block, the break or NULL.
Onwards(h, a, b) ==
  (IF b \notin WordAddress \/ b >= h.mem_brk \/ BlockSize(h, b) <= 0
   THEN NULL ELSE NEXT_BLKP(h, b)) = IF b \in DOMAIN a.blk THEN B!End(a, b) ELSE NULL

LEMMA OnwardsIs ==
  ASSUME NEW h, NEW a, Rep(h, a), NEW b \in DOMAIN a.blk \cup {a.brk, NULL}
  PROVE  Onwards(h, a, b)
<1>1. /\ InMemory(a) /\ Edges(h, a) /\ Tagged(h, a, DOMAIN a.blk) /\ DOMAIN a.blk \in SUBSET DOMAIN a.blk
  BY RepIs
<1>2. a.brk \in Nat /\ h.mem_brk = a.brk
  BY <1>1, BrkIs DEF Edges
<1>3. CASE b \in DOMAIN a.blk
  <2>1. IsBlock(a, b) /\ BlockWords(a, b) /\ Read(h, a, b)
    BY <1>1, <1>3, BlockIs, WordsOf, HeaderRead
  <2>2. /\ b \in WordAddress /\ BlockSize(h, b) = B!Size(a, b) /\ NEXT_BLKP(h, b) = B!End(a, b)
    BY <2>1 DEF BlockWords, Site, Read
  <2>3. ~(B!Size(a, b) <= 0) /\ ~(b >= a.brk)
    BY <1>2, <2>1 DEF IsBlock
  <2> QED
    BY <1>2, <1>3, <2>2, <2>3 DEF Onwards
<1>4. CASE b \notin DOMAIN a.blk
  <2>1. b = a.brk \/ b = NULL
    BY <1>4
  <2>2. NULL \notin WordAddress
    BY WordsAre, Extents
  <2>3. b \notin WordAddress \/ b >= h.mem_brk
    BY <1>2, <2>1, <2>2
  <2> QED
    BY <1>4, <2>3 DEF Onwards
<1> QED
  BY <1>3, <1>4

\* The tour stays among the blocks until it has met the break.
LEMMA TourIs ==
  ASSUME NEW h, NEW a, Rep(h, a), NEW at, at = Tour(h), NEW N, N = HeapSize \div 16
  PROVE  /\ N \in Nat /\ DOMAIN at = 0..N /\ at[0] = FirstBlock
         /\ \A k \in 0..N : at[k] \in DOMAIN a.blk \cup {a.brk, NULL}
         /\ \A k \in 0..N : k + 1 \in 0..N /\ at[k] \in DOMAIN a.blk => at[k + 1] = B!End(a, at[k])
<1> DEFINE D == DOMAIN a.blk \cup {a.brk, NULL}
           nx == [b \in D |-> IF b \in DOMAIN a.blk THEN B!End(a, b) ELSE NULL]
<1>1. N \in Nat
  BY Extents
<1>2. FirstBlock \in D
  <2>1. B!FirstBlock \in DOMAIN a.blk \cup {a.brk} /\ B!FirstBlock = FirstBlock
    BY RepIs, BrkIs DEF B!Tiles
  <2> QED
    BY <2>1
<1>3. \A b \in DOMAIN a.blk : B!End(a, b) \in D
  BY RepIs, BlockIs DEF IsBlock
<1>4. nx \in [D -> D]
  BY <1>3
<1>5. \A b \in D : Onwards(h, a, b)
  BY OnwardsIs
<1>6. \E f : IsTour(f, h)
  <2> HIDE DEF D, nx
  <2>1. PICK f : Iterated(f, FirstBlock, D, nx, N)
    BY <1>1, <1>2, <1>4, Iterates
  <2>2. /\ f \in [0..N -> D]
        /\ f = [k \in 0..N |-> IF k = 0 THEN FirstBlock ELSE nx[f[k - 1]]]
    BY <2>1 DEF Iterated
  <2>3. \A k \in 0..N : k # 0 => k - 1 \in 0..N
    BY <1>1
  <2>4. \A k \in 0..N : k # 0 => f[k - 1] \in D
    BY <2>2, <2>3
  <2>5. \A b \in D :
          nx[b] = IF b \notin WordAddress \/ b >= h.mem_brk \/ BlockSize(h, b) <= 0
                  THEN NULL ELSE NEXT_BLKP(h, b)
    BY <1>5 DEF Onwards, nx
  <2>6. f = [k \in 0..N |->
               IF k = 0 THEN FirstBlock
               ELSE LET b == f[k - 1]
                    IN  IF b \notin WordAddress \/ b >= h.mem_brk \/ BlockSize(h, b) <= 0
                        THEN NULL ELSE NEXT_BLKP(h, b)]
    BY <2>2, <2>4, <2>5
  <2> QED
    BY <2>6 DEF IsTour
<1>7. IsTour(at, h)
  BY <1>6 DEF Tour
<1>8. /\ DOMAIN at = 0..N /\ at[0] = FirstBlock
      /\ \A k \in 0..N : k # 0 =>
           at[k] = LET b == at[k - 1]
                   IN  IF b \notin WordAddress \/ b >= h.mem_brk \/ BlockSize(h, b) <= 0
                       THEN NULL ELSE NEXT_BLKP(h, b)
  BY <1>1, <1>7 DEF IsTour
<1>9. ASSUME NEW k \in 0..N, k # 0, at[k - 1] \in D
      PROVE  at[k] = IF at[k - 1] \in DOMAIN a.blk THEN B!End(a, at[k - 1]) ELSE NULL
  <2>1. Onwards(h, a, at[k - 1])
    BY <1>5, <1>9
  <2> HIDE DEF D
  <2> QED
    BY <1>8, <1>9, <2>1 DEF Onwards
<1>10. ASSUME NEW k \in 0..N PROVE at[k] \in D
  <2> DEFINE Bad == {j \in 0..N : at[j] \notin D}
  <2> SUFFICES ASSUME Bad # {} PROVE FALSE
    OBVIOUS
  <2>1. Bad \in SUBSET Nat
    OBVIOUS
  <2>2. PICK j \in Bad : \A i \in Bad : j <= i
    <3> HIDE DEF Bad
    <3> QED
      BY <2>1, Least
  <2> HIDE DEF D
  <2>3. j # 0 /\ j \in 0..N
    BY <1>2, <1>8, <2>2
  <2>4. j - 1 \in 0..N /\ ~(j <= j - 1)
    BY <1>1, <2>3
  <2>5. at[j - 1] \in D
    BY <2>2, <2>4
  <2>6. at[j] = IF at[j - 1] \in DOMAIN a.blk THEN B!End(a, at[j - 1]) ELSE NULL
    BY <1>9, <2>3, <2>5
  <2>7. at[j] \in D
    BY <1>3, <2>6 DEF D
  <2> QED
    BY <2>2, <2>7
<1>11. ASSUME NEW k \in 0..N, k + 1 \in 0..N, at[k] \in DOMAIN a.blk
       PROVE  at[k + 1] = B!End(a, at[k])
  <2>1. PICK j \in 0..N : j = k + 1 /\ j # 0 /\ j - 1 = k
    BY <1>1, <1>11
  <2> QED
    BY <1>9, <1>11, <2>1
<1> QED
  BY <1>1, <1>8, <1>10, <1>11

\* Every block is met in time.
LEMMA BlocksAre ==
  ASSUME NEW h, NEW a, Rep(h, a)
  PROVE  Blocks(h) = DOMAIN a.blk
<1> DEFINE N == HeapSize \div 16
           at == Tour(h)
           Met(b) == \E k \in 0..N : at[k] = b /\ 16 * k <= b - FirstBlock
           Bad == {b \in DOMAIN a.blk : ~Met(b)}
<1>1. InMemory(a) /\ B!Tiles(a) /\ h.mem_brk = a.brk
  BY RepIs DEF Edges
<1>2. a.brk \in Nat /\ a.brk <= Limit /\ FirstBlock = HeapLo + 32 /\ B!FirstBlock = FirstBlock
  BY <1>1, BrkIs
<1>3. /\ N \in Nat /\ DOMAIN at = 0..N /\ at[0] = FirstBlock
      /\ \A k \in 0..N : at[k] \in DOMAIN a.blk \cup {a.brk, NULL}
      /\ \A k \in 0..N : k + 1 \in 0..N /\ at[k] \in DOMAIN a.blk => at[k + 1] = B!End(a, at[k])
  <2> HIDE DEF N, at
  <2> QED
    BY TourIs DEF N, at
<1>4. ASSUME NEW b \in DOMAIN a.blk
      PROVE  /\ b \in Nat /\ HeapLo + 32 <= b /\ b + 32 <= a.brk /\ b \in WordAddress
             /\ B!End(a, b) \in Nat /\ B!End(a, b) >= b + 32
  <2>1. IsBlock(a, b) /\ BlockWords(a, b)
    BY <1>1, BlockIs, WordsOf
  <2> QED
    BY <1>2, <2>1 DEF IsBlock, BlockWords, Site
<1>5. HeapLo \in Nat /\ HeapSize \in Nat /\ 16 * N = HeapSize /\ Limit = HeapLo + HeapSize
  <2>1. 16 * (HeapSize \div 16) = HeapSize
    BY Extents
  <2> QED
    BY <2>1, Extents
<1> HIDE DEF N, at
<1>6. Bad = {}
  <2> SUFFICES ASSUME Bad # {} PROVE FALSE
    OBVIOUS
  <2>1. PICK b \in Bad : \A c \in Bad : b <= c
    <3>1. Bad \in SUBSET Nat
      BY <1>4
    <3> HIDE DEF Bad
    <3> QED
      BY <3>1, Least
  <2> HIDE DEF Met
  <2>2. b \in DOMAIN a.blk /\ ~Met(b)
    BY <2>1
  <2>3. b # FirstBlock
    <3>1. 0 \in 0..N /\ 16 * 0 <= FirstBlock - FirstBlock
      BY <1>2, <1>3, <1>5
    <3>2. Met(FirstBlock)
      BY <1>3, <3>1 DEF Met
    <3> QED
      BY <2>2, <3>2
  <2>4. PICK c \in DOMAIN a.blk : c < b /\ B!End(a, c) = b
    <3>1. b \in DOMAIN a.blk \cup {a.brk} /\ b # B!FirstBlock
      BY <1>2, <2>2, <2>3
    <3> QED
      BY <1>1, <3>1, BlocksAssumed, B!Preceded
  <2>5. Met(c)
    <3>1. ~(b <= c)
      BY <1>4, <2>2, <2>4
    <3> QED
      BY <2>1, <2>4, <3>1
  <2>6. PICK k \in 0..N : at[k] = c /\ 16 * k <= c - FirstBlock
    BY <2>5 DEF Met
  <2>7. k \in Nat /\ k + 1 \in 0..N /\ 16 * (k + 1) <= b - FirstBlock
    <3>1. /\ k \in Nat /\ c \in Nat /\ b \in Nat /\ b >= c + 32 /\ b + 32 <= a.brk
          /\ FirstBlock \in Nat /\ FirstBlock = HeapLo + 32
      BY <1>2, <1>3, <1>4, <1>5, <2>2, <2>4
    <3>2. 16 * (k + 1) = 16 * k + 16 /\ 16 * k <= c - FirstBlock
      BY <2>6, <3>1
    <3>3. 16 * (k + 1) <= b - FirstBlock
      BY <3>1, <3>2, <2>6
    <3>4. 16 * (k + 1) <= 16 * N
      BY <1>2, <1>5, <3>1, <3>3
    <3>5. k + 1 <= N
      BY <1>3, <3>1, <3>4
    <3> QED
      BY <1>3, <3>1, <3>3, <3>5
  <2>8. at[k + 1] = b
    BY <1>3, <2>4, <2>6, <2>7
  <2>9. Met(b)
    BY <2>7, <2>8 DEF Met
  <2> QED
    BY <2>2, <2>9
<1>7. Blocks(h) = {b \in Range(at) : b \in WordAddress /\ b < h.mem_brk}
  BY DEF Blocks, at, Tour, IsTour
<1>8. \A b \in DOMAIN a.blk : b \in Range(at) /\ b \in WordAddress /\ b < h.mem_brk
  <2> SUFFICES ASSUME NEW b \in DOMAIN a.blk
               PROVE  b \in Range(at) /\ b \in WordAddress /\ b < h.mem_brk
    OBVIOUS
  <2>1. Met(b)
    BY <1>6
  <2>2. b \in Range(at)
    BY <1>3, <2>1 DEF Range
  <2> QED
    BY <1>1, <1>2, <1>4, <2>2
<1>9. \A b \in Range(at) : b \in WordAddress /\ b < h.mem_brk => b \in DOMAIN a.blk
  <2> SUFFICES ASSUME NEW b \in Range(at), b \in WordAddress, b < h.mem_brk
               PROVE  b \in DOMAIN a.blk
    OBVIOUS
  <2>1. b \in DOMAIN a.blk \cup {a.brk, NULL}
    BY <1>3 DEF Range
  <2>2. b # a.brk
    BY <1>1, <1>2
  <2>3. b # NULL
    BY WordsAre, Extents
  <2> QED
    BY <2>1, <2>2, <2>3
<1> QED
  BY <1>7, <1>8, <1>9

-----------------------------------------------------------------------------
(* The caller's words                                                      *)

\* The sizes that malloc and realloc compute from the caller's n.
Sizes(n) ==
  /\ Stored(n) \in Nat \ {0}
  /\ AdjustedSize(n) \in Nat /\ AdjustedSize(n) % 16 = 0 /\ AdjustedSize(n) >= 32
  /\ 8 * Stored(n) + 16 <= AdjustedSize(n)
  /\ \A old \in Nat : old % 16 = 0 =>
       /\ old < (IF n <= 16 THEN 2 * 16 ELSE align(n)) => old + 16 <= AdjustedSize(n)
       /\ old >= (IF n <= 16 THEN 2 * 16 ELSE align(n)) => 8 * Stored(n) <= old

LEMMA SizesAre ==
  ASSUME NEW n \in Nat, n > 0
  PROVE  Sizes(n)
<1>1. PICK s \in Nat : s = Stored(n) /\ s = (n + 7) \div 8 /\ s # 0 /\ 8 * s <= n + 7 /\ 8 * s >= n
  <2>1. (n + 8 - 1) \div 8 \in Nat /\ n + 8 - 1 = n + 7
    OBVIOUS
  <2>2. 8 * ((n + 7) \div 8) <= n + 7 /\ 8 * ((n + 7) \div 8) >= n /\ (n + 7) \div 8 # 0
    OBVIOUS
  <2> QED
    BY <2>1, <2>2 DEF Stored
<1>2. CASE n <= 16
  <2>1. AdjustedSize(n) = 32
    BY <1>2 DEF AdjustedSize
  <2>2. s <= 2
    BY <1>1, <1>2
  <2>3. ASSUME NEW old \in Nat, old % 16 = 0, old < 32 PROVE old + 16 <= 32
    BY <2>3
  <2> QED
    BY <1>1, <1>2, <2>1, <2>2, <2>3 DEF Sizes
<1>3. CASE n > 16
  <2>1. PICK t \in Nat : t = (n + 15) \div 16 /\ 16 * t >= n /\ 16 * t <= n + 15
    BY <1>3
  <2>2. align(n) = 16 * t
    BY <2>1 DEF align
  <2>3. AdjustedSize(n) = 16 * t + 16
    <3>1. n + 16 + 16 - 1 = (n + 15) + 16 /\ ((n + 15) + 16) \div 16 = (n + 15) \div 16 + 1
      OBVIOUS
    <3>2. align(n + 16) = 16 * (t + 1)
      BY <2>1, <3>1 DEF align
    <3> QED
      BY <1>3, <3>2 DEF AdjustedSize
  <2>4. 8 * s <= 16 * t
    BY <1>1, <2>1
  <2>5. (16 * t + 16) % 16 = 0 /\ 16 * t + 16 >= 32 /\ ~(n <= 16)
    BY <1>3, <2>1
  <2>6. ASSUME NEW old \in Nat
        PROVE  /\ old < 16 * t => old + 16 <= 16 * t + 16
               /\ old >= 16 * t => 8 * s <= old
    BY <2>4
  <2> QED
    BY <1>1, <2>2, <2>3, <2>4, <2>5, <2>6 DEF Sizes
<1> QED
  BY <1>2, <1>3

\* The blocks have room for what the caller holds.
Holds(a, payloads) ==
  /\ payloads = [p \in DOMAIN payloads |-> payloads[p]]
  /\ DOMAIN payloads = B!Taken(a)
  /\ \A p \in DOMAIN payloads :
       payloads[p] \in Nat \ {0} /\ 8 * payloads[p] + 16 <= B!Size(a, p)

\* The i-th word of the payload at p.
Cell(h, p, i) == h.mem[p + 8 * (i - 1)]

\* Where it is.
CellAt(a, p, i) ==
  /\ p + 8 * (i - 1) \in WordAddress /\ p + 8 * (i - 1) \in Nat
  /\ p <= p + 8 * (i - 1) /\ p + 8 * (i - 1) < B!End(a, p) - 16

LEMMA CellIs ==
  ASSUME NEW a, InMemory(a), NEW p \in DOMAIN a.blk, NEW n \in Nat, 8 * n + 16 <= B!Size(a, p),
         NEW i \in 1..n
  PROVE  CellAt(a, p, i)
<1>1. /\ p \in Nat /\ p % 16 = 0 /\ HeapLo + 32 <= p /\ B!Size(a, p) \in Nat
      /\ B!End(a, p) = p + B!Size(a, p) /\ B!End(a, p) \in Nat
      /\ B!End(a, p) <= a.brk /\ a.brk \in Nat /\ a.brk <= Limit
  BY BlockIs DEF IsBlock
<1>2. PICK x \in Nat : x = p + 8 * (i - 1)
  BY <1>1
<1>3. /\ p <= x /\ x < B!End(a, p) - 16
  BY <1>1, <1>2
<1>4. x % 8 = 0
  <2>1. PICK k \in Nat : p = 16 * k
    <3>1. p = 16 * (p \div 16) /\ p \div 16 \in Nat
      BY <1>1
    <3> QED
      BY <3>1
  <2>2. x = 8 * (2 * k + i - 1)
    BY <1>2, <2>1
  <2> QED
    BY <1>2, <2>1, <2>2
<1>5. HeapLo <= x /\ x < Limit
  BY <1>1, <1>3, Extents
<1> QED
  BY <1>2, <1>3, <1>4, <1>5, WordsAre DEF CellAt

\* What the allocator keeps of the caller's payloads.
LEMMA PayloadWords ==
  ASSUME NEW h, NEW g, NEW a, InMemory(a), NEW payloads, Holds(a, payloads), Payloads(h, g, a)
  PROVE  \A p \in DOMAIN payloads : \A i \in 1..payloads[p] : Cell(g, p, i) = Cell(h, p, i)
<1> SUFFICES ASSUME NEW p \in DOMAIN payloads, NEW i \in 1..payloads[p]
             PROVE  Cell(g, p, i) = Cell(h, p, i)
  OBVIOUS
<1>1. /\ p \in B!Taken(a) /\ p \in DOMAIN a.blk
      /\ payloads[p] \in Nat /\ 8 * payloads[p] + 16 <= B!Size(a, p)
  BY DEF Holds, B!Taken
<1>2. CellAt(a, p, i)
  BY <1>1, CellIs
<1> QED
  BY <1>1, <1>2 DEF CellAt, Payloads, Cell

\* The caller wrote to the payload of b only.
Wrote(h, g, a, b) ==
  /\ Beside(h, g)
  /\ \A x \in WordAddress : ~(b <= x /\ x < B!End(a, b) - 16) => g.mem[x] = h.mem[x]

\* That leaves the tags and the lists, and the other payloads.
LEMMA WroteIs ==
  ASSUME NEW h, NEW a, Rep(h, a), NEW b \in B!Taken(a), NEW g, Wrote(h, g, a, b)
  PROVE  /\ Rep(g, a)
         /\ \A c \in B!Taken(a), x \in WordAddress :
              c # b /\ c <= x /\ x < B!End(a, c) - 16 => g.mem[x] = h.mem[x]
<1>1. /\ InMemory(a) /\ Edges(h, a) /\ Tagged(h, a, DOMAIN a.blk) /\ IsWords(h)
      /\ Built(h, a, DOMAIN a.blk, B!FreeBlocks(a)) /\ Linked(h, a.free, a.blk)
      /\ B!Listing(a.free, B!FreeBlocks(a), a.blk)
      /\ b \in DOMAIN a.blk /\ b \notin B!FreeBlocks(a) /\ B!FreeBlocks(a) \subseteq DOMAIN a.blk
  BY RepIs DEF Built, B!Taken, B!FreeBlocks
<1>2. ASSUME NEW c \in DOMAIN a.blk
      PROVE  /\ c \in Nat /\ B!End(a, c) \in Nat /\ B!End(a, c) >= c + 32
             /\ B!End(a, c) <= a.brk /\ HeapLo + 32 <= c
             /\ c - 8 \in WordAddress /\ B!End(a, c) - 16 \in WordAddress
             /\ c # b => B!End(a, b) <= c \/ B!End(a, c) <= b
  <2>1. IsBlock(a, c) /\ BlockWords(a, c)
    BY <1>1, BlockIs, WordsOf
  <2>2. c # b => B!End(a, b) <= c \/ B!End(a, c) <= b
    BY <1>1, Apart
  <2> QED
    BY <2>1, <2>2 DEF IsBlock, BlockWords
<1>3. IsWords(g) /\ g.seg_list = h.seg_list /\ g.mem_brk = h.mem_brk
  BY DEF Wrote, Beside
<1>4. b \in Nat /\ B!End(a, b) \in Nat /\ B!End(a, b) <= a.brk /\ HeapLo + 32 <= b
      /\ a.brk \in Nat /\ HeapLo \in Nat
  BY <1>1, <1>2, BrkIs, Extents
<1>5. Edges(g, a)
  <2>1. /\ HeapLo + 8 \in WordAddress /\ HeapLo + 16 \in WordAddress /\ a.brk - 8 \in WordAddress
    BY <1>1, EdgeWords
  <2>2. /\ ~(b <= HeapLo + 8) /\ ~(b <= HeapLo + 16) /\ ~(a.brk - 8 < B!End(a, b) - 16)
    BY <1>4
  <2> QED
    BY <1>1, <1>3, <2>1, <2>2 DEF Edges, Wrote
<1>6. Tagged(g, a, DOMAIN a.blk)
  <2> SUFFICES ASSUME NEW c \in DOMAIN a.blk
               PROVE  /\ ~(b <= c - 8 /\ c - 8 < B!End(a, b) - 16)
                      /\ ~(b <= B!End(a, c) - 16 /\ B!End(a, c) - 16 < B!End(a, b) - 16)
    BY <1>1, <1>2 DEF Tagged, Wrote
  <2> QED
    BY <1>2, <1>4
<1>7. Linked(g, a.free, a.blk)
  <2>1. ASSUME NEW c \in B!FreeBlocks(a) PROVE g.mem[c] = h.mem[c] /\ g.mem[c + 8] = h.mem[c + 8]
    <3>1. c \in DOMAIN a.blk /\ c # b
      BY <1>1
    <3>2. /\ ~(b <= c /\ c < B!End(a, b) - 16) /\ ~(b <= c + 8 /\ c + 8 < B!End(a, b) - 16)
      BY <1>2, <1>4, <3>1
    <3>3. c \in WordAddress /\ c + 8 \in WordAddress
      BY <1>1, <3>1, WordsOf DEF BlockWords, Site
    <3> QED
      BY <3>2, <3>3 DEF Wrote
  <2>2. Shelf(a.free, B!FreeBlocks(a), a.blk)
    BY <1>1, ShelfOf
  <2> QED
    BY <1>1, <1>3, <2>1, <2>2, LinkedElsewhere
<1>8. Rep(g, a)
  BY <1>1, <1>3, <1>5, <1>6, <1>7 DEF Rep, Built
<1>9. ASSUME NEW c \in B!Taken(a), NEW x \in WordAddress, c # b, c <= x, x < B!End(a, c) - 16
      PROVE  g.mem[x] = h.mem[x]
  <2>1. c \in DOMAIN a.blk /\ x \in Nat
    BY WordsAre DEF B!Taken
  <2>2. ~(b <= x /\ x < B!End(a, b) - 16)
    BY <1>2, <1>4, <1>9, <2>1
  <2> QED
    BY <2>2 DEF Wrote
<1> QED
  BY <1>8, <1>9

\* randomize_block fills the last words of b's payload.
LEMMA FillIs ==
  ASSUME NEW h, NEW a, Rep(h, a), NEW payloads, Holds(a, payloads), NEW b \in DOMAIN payloads,
         NEW from \in Nat, from > 0, NEW d, NEW g, g = Fill(h, b, from, payloads[b], d)
  PROVE  /\ Rep(g, a)
         /\ \A p \in DOMAIN payloads : \A i \in 1..payloads[p] :
              Cell(g, p, i) = IF p = b /\ i >= from THEN d ELSE Cell(h, p, i)
<1>1. InMemory(a) /\ IsWords(h)
  BY RepIs
<1>2. PICK n \in Nat : n = payloads[b] /\ 8 * n + 16 <= B!Size(a, b) /\ n # 0
  BY DEF Holds
<1>3. b \in B!Taken(a) /\ b \in DOMAIN a.blk
  BY DEF Holds, B!Taken
<1>4. /\ b \in Nat /\ B!Size(a, b) \in Nat /\ B!End(a, b) = b + B!Size(a, b)
  BY <1>1, <1>3, BlockIs DEF IsBlock
<1> DEFINE m == [x \in WordAddress |-> IF b + 8 * (from - 1) <= x /\ x < b + 8 * n THEN d ELSE h.mem[x]]
<1>5. g = [mem |-> m, seg_list |-> h.seg_list, mem_brk |-> h.mem_brk]
  <2>1. DOMAIN h.mem = WordAddress
    BY <1>1 DEF IsWords
  <2>2. g = [h EXCEPT !.mem = m]
    BY <1>2, <2>1 DEF Fill
  <2>3. h = [mem |-> h.mem, seg_list |-> h.seg_list, mem_brk |-> h.mem_brk]
    BY <1>1 DEF IsWords
  <2> HIDE DEF m
  <2> QED
    BY <2>2, <2>3
<1>6. /\ Beside(h, g)
      /\ \A x \in WordAddress :
           g.mem[x] = IF b + 8 * (from - 1) <= x /\ x < b + 8 * n THEN d ELSE h.mem[x]
  BY <1>1, <1>5 DEF Beside, IsWords
<1>7. Wrote(h, g, a, b)
  <2> SUFFICES ASSUME NEW x \in WordAddress, ~(b <= x /\ x < B!End(a, b) - 16)
               PROVE  ~(b + 8 * (from - 1) <= x /\ x < b + 8 * n)
    BY <1>6 DEF Wrote
  <2>1. x \in Nat
    BY WordsAre
  <2> QED
    BY <1>2, <1>4, <2>1
<1>8. Rep(g, a) /\ \A c \in B!Taken(a), x \in WordAddress :
                     c # b /\ c <= x /\ x < B!End(a, c) - 16 => g.mem[x] = h.mem[x]
  BY <1>3, <1>7, WroteIs
<1>9. ASSUME NEW p \in DOMAIN payloads, NEW i \in 1..payloads[p]
      PROVE  Cell(g, p, i) = IF p = b /\ i >= from THEN d ELSE Cell(h, p, i)
  <2>1. /\ p \in B!Taken(a) /\ p \in DOMAIN a.blk
        /\ payloads[p] \in Nat /\ 8 * payloads[p] + 16 <= B!Size(a, p)
    BY DEF Holds, B!Taken
  <2>2. CellAt(a, p, i)
    BY <1>1, <2>1, CellIs
  <2>3. CASE p # b
    BY <1>8, <2>1, <2>2, <2>3 DEF CellAt, Cell
  <2>4. CASE p = b
    <3>1. i \in Nat /\ i >= 1 /\ i <= n
      BY <1>2, <2>4
    <3>2. (b + 8 * (from - 1) <= b + 8 * (i - 1) /\ b + 8 * (i - 1) < b + 8 * n) <=> i >= from
      BY <1>4, <3>1
    <3> QED
      BY <1>6, <2>2, <2>4, <3>2 DEF CellAt, Cell
  <2> QED
    BY <2>3, <2>4
<1> QED
  BY <1>8, <1>9

\* memcpy moves the words of p to b.
LEMMA CopyIs ==
  ASSUME NEW h, NEW a, Rep(h, a), NEW payloads, Holds(a, payloads),
         NEW p \in DOMAIN payloads, NEW b \in DOMAIN payloads, p # b,
         NEW bytes \in Nat, bytes + 16 <= B!Size(a, b), bytes + 16 <= B!Size(a, p),
         NEW g, g = Copy(h, p, b, bytes)
  PROVE  /\ Rep(g, a)
         /\ \A q \in DOMAIN payloads : \A i \in 1..payloads[q] : q # b => Cell(g, q, i) = Cell(h, q, i)
         /\ \A i \in Nat \ {0} : 8 * i <= bytes => Cell(g, b, i) = Cell(h, p, i)
<1>1. InMemory(a) /\ IsWords(h)
  BY RepIs
<1>2. b \in B!Taken(a) /\ b \in DOMAIN a.blk
  BY DEF Holds, B!Taken
<1>3. /\ b \in Nat /\ B!Size(a, b) \in Nat /\ B!End(a, b) = b + B!Size(a, b)
  BY <1>1, <1>2, BlockIs DEF IsBlock
<1>4. p \in Nat
  <2>1. p \in DOMAIN a.blk
    BY DEF Holds, B!Taken
  <2> QED
    BY <1>1, <2>1, BlockIs DEF IsBlock
<1> DEFINE m == [x \in WordAddress |-> IF b <= x /\ x < b + bytes THEN h.mem[p + (x - b)] ELSE h.mem[x]]
<1>5. g = [mem |-> m, seg_list |-> h.seg_list, mem_brk |-> h.mem_brk]
  <2>1. DOMAIN h.mem = WordAddress
    BY <1>1 DEF IsWords
  <2>2. g = [h EXCEPT !.mem = m]
    BY <2>1 DEF Copy
  <2>3. h = [mem |-> h.mem, seg_list |-> h.seg_list, mem_brk |-> h.mem_brk]
    BY <1>1 DEF IsWords
  <2> HIDE DEF m
  <2> QED
    BY <2>2, <2>3
<1>6. /\ Beside(h, g)
      /\ \A x \in WordAddress :
           g.mem[x] = IF b <= x /\ x < b + bytes THEN h.mem[p + (x - b)] ELSE h.mem[x]
  BY <1>1, <1>5 DEF Beside, IsWords
<1>7. Wrote(h, g, a, b)
  <2> SUFFICES ASSUME NEW x \in WordAddress, ~(b <= x /\ x < B!End(a, b) - 16)
               PROVE  ~(b <= x /\ x < b + bytes)
    BY <1>6 DEF Wrote
  <2>1. x \in Nat
    BY WordsAre
  <2> QED
    BY <1>3, <2>1
<1>8. Rep(g, a) /\ \A c \in B!Taken(a), x \in WordAddress :
                     c # b /\ c <= x /\ x < B!End(a, c) - 16 => g.mem[x] = h.mem[x]
  BY <1>2, <1>7, WroteIs
<1>9. ASSUME NEW q \in DOMAIN payloads, NEW i \in 1..payloads[q], q # b
      PROVE  Cell(g, q, i) = Cell(h, q, i)
  <2>1. /\ q \in B!Taken(a) /\ q \in DOMAIN a.blk
        /\ payloads[q] \in Nat /\ 8 * payloads[q] + 16 <= B!Size(a, q)
    BY DEF Holds, B!Taken
  <2>2. CellAt(a, q, i)
    BY <1>1, <2>1, CellIs
  <2> QED
    BY <1>8, <1>9, <2>1, <2>2 DEF CellAt, Cell
<1>10. ASSUME NEW i \in Nat \ {0}, 8 * i <= bytes
       PROVE  Cell(g, b, i) = Cell(h, p, i)
  <2>1. 8 * i + 16 <= B!Size(a, b) /\ i \in 1..i
    BY <1>3, <1>10
  <2>2. CellAt(a, b, i)
    BY <1>1, <1>2, <2>1, CellIs
  <2>3. b <= b + 8 * (i - 1) /\ b + 8 * (i - 1) < b + bytes /\ p + ((b + 8 * (i - 1)) - b) = p + 8 * (i - 1)
    BY <1>3, <1>4, <1>10
  <2> QED
    BY <1>6, <2>2, <2>3 DEF CellAt, Cell
<1> QED
  BY <1>8, <1>9, <1>10

-----------------------------------------------------------------------------
(* The requests                                                            *)

\* The blocks a are what the words say and what the caller holds.
Serves(h, payloads, a) == Rep(h, a) /\ B!Sound(a) /\ Holds(a, payloads)

\* The words of the payloads are what they were.
Unmoved(h, g, payloads) ==
  \A p \in DOMAIN payloads : \A i \in 1..payloads[p] : Cell(g, p, i) = Cell(h, p, i)

\* more has a payload of n bytes at b beside those of "payloads".
With(payloads, b, n, more) ==
  /\ more = [p \in DOMAIN more |-> more[p]]
  /\ DOMAIN more = DOMAIN payloads \cup {b} /\ b \notin DOMAIN payloads
  /\ more[b] = Stored(n) /\ \A p \in DOMAIN payloads : more[p] = payloads[p]

LEMMA HoldingIs ==
  ASSUME NEW payloads, NEW b, b \notin DOMAIN payloads, NEW n,
         NEW more, more = Holding(payloads, b, n)
  PROVE  With(payloads, b, n, more)
BY DEF Holding, With

LEMMA MallocServes ==
  ASSUME NEW h, NEW payloads, NEW a, Serves(h, payloads, a), NEW n \in Nat, n > 0,
         NEW got, NEW g, Granted(h, a, AdjustedSize(n), got, g),
         NEW more, more = Holding(payloads, got.bp, n)
  PROVE  /\ Serves(got.heap, more, g) /\ With(payloads, got.bp, n, more)
         /\ Unmoved(h, got.heap, payloads)
<1>1. InMemory(a) /\ Holds(a, payloads)
  BY RepIs DEF Serves
<1>2. /\ Rep(got.heap, g) /\ B!Sound(g) /\ Payloads(h, got.heap, a)
      /\ got.bp \notin B!Taken(a) /\ B!Taken(g) = B!Taken(a) \cup {got.bp}
      /\ \A c \in B!Taken(a) : g.blk[c] = a.blk[c]
      /\ B!Size(g, got.bp) >= AdjustedSize(n)
  BY DEF Granted
<1>3. With(payloads, got.bp, n, more)
  BY <1>1, <1>2, HoldingIs DEF Holds
<1>4. Unmoved(h, got.heap, payloads)
  BY <1>1, <1>2, PayloadWords DEF Unmoved
<1>5. Holds(g, more)
  <2>1. B!Size(g, got.bp) \in Nat
    BY <1>2, RepIs, BlockIs DEF B!Taken, IsBlock
  <2>2. 8 * Stored(n) + 16 <= AdjustedSize(n) /\ AdjustedSize(n) \in Nat /\ Stored(n) \in Nat \ {0}
    BY SizesAre DEF Sizes
  <2>3. Stored(n) \in Nat \ {0} /\ 8 * Stored(n) + 16 <= B!Size(g, got.bp)
    BY <1>2, <2>1, <2>2
  <2>4. \A p \in DOMAIN payloads :
          more[p] \in Nat \ {0} /\ 8 * more[p] + 16 <= B!Size(g, p)
    BY <1>1, <1>2, <1>3 DEF Holds, With, B!Size
  <2> QED
    BY <1>1, <1>2, <1>3, <2>3, <2>4 DEF Holds, With
<1> QED
  BY <1>2, <1>3, <1>4, <1>5 DEF Serves

\* fewer lacks the payload at p.
Less(payloads, p, fewer) ==
  /\ fewer = [q \in DOMAIN fewer |-> fewer[q]]
  /\ DOMAIN fewer = DOMAIN payloads \ {p} /\ \A q \in DOMAIN fewer : fewer[q] = payloads[q]

LEMMA FreeServes ==
  ASSUME NEW h, NEW payloads, NEW a, Serves(h, payloads, a), NEW p \in DOMAIN payloads,
         NEW new, new = free(h, p), NEW fewer, Less(payloads, p, fewer)
  PROVE  \E g : Serves(new, fewer, g) /\ Unmoved(h, new, fewer)
<1>1. Rep(h, a) /\ B!Sound(a) /\ Holds(a, payloads) /\ p \in B!Taken(a)
  BY DEF Serves, Holds
<1> DEFINE g == B!free(a, p)
<1>2. Returned(h, new, g)
  <2> HIDE DEF g
  <2> QED
    BY <1>1, FreeIs DEF g
<1>3. /\ B!Sound(g) /\ B!Taken(g) = B!Taken(a) \ {p}
      /\ \A c \in B!Taken(a) \ {p} : g.blk[c] = a.blk[c]
  BY <1>1, BlocksAssumed, B!Freed
<1> HIDE DEF g
<1>4. Holds(g, fewer)
  BY <1>1, <1>3 DEF Holds, Less, B!Size
<1>5. Unmoved(h, new, fewer)
  BY <1>2, <1>4, RepIs, PayloadWords DEF Returned, Unmoved
<1> QED
  BY <1>2, <1>3, <1>4, <1>5 DEF Serves, Returned

\* Where the payloads are.
Seat(h, payloads, p) ==
  /\ p \in WordAddress /\ p \in Nat /\ p % 16 = 0 /\ HeapLo <= p
  /\ p + 8 * payloads[p] <= h.mem_brk
  /\ \A q \in DOMAIN payloads :
       q # p => p + 8 * payloads[p] <= q \/ q + 8 * payloads[q] <= p

LEMMA SeatsAre ==
  ASSUME NEW h, NEW payloads, NEW a, Serves(h, payloads, a), NEW p \in DOMAIN payloads
  PROVE  Seat(h, payloads, p)
<1>1. InMemory(a) /\ Edges(h, a) /\ Holds(a, payloads)
  BY RepIs DEF Serves
<1>2. ASSUME NEW q \in DOMAIN payloads
      PROVE  /\ q \in DOMAIN a.blk /\ q \in Nat /\ q % 16 = 0 /\ HeapLo + 32 <= q
             /\ payloads[q] \in Nat /\ q + 8 * payloads[q] <= B!End(a, q)
             /\ B!End(a, q) \in Nat /\ B!End(a, q) <= a.brk /\ a.brk \in Nat /\ q \in WordAddress
  <2>1. q \in DOMAIN a.blk /\ payloads[q] \in Nat /\ 8 * payloads[q] + 16 <= B!Size(a, q)
    BY <1>1 DEF Holds, B!Taken
  <2>2. IsBlock(a, q) /\ BlockWords(a, q)
    BY <1>1, <2>1, BlockIs, WordsOf
  <2>3. /\ q \in Nat /\ q % 16 = 0 /\ HeapLo + 32 <= q /\ B!Size(a, q) \in Nat
        /\ B!End(a, q) = q + B!Size(a, q) /\ B!End(a, q) \in Nat /\ B!End(a, q) <= a.brk
        /\ a.brk \in Nat /\ q \in WordAddress
    BY <2>2 DEF IsBlock, BlockWords, Site
  <2> QED
    BY <2>1, <2>3
<1>3. h.mem_brk = a.brk /\ HeapLo \in Nat
  BY <1>1, Extents DEF Edges
<1>4. ASSUME NEW q \in DOMAIN payloads, q # p
      PROVE  p + 8 * payloads[p] <= q \/ q + 8 * payloads[q] <= p
  <2>1. B!End(a, p) <= q \/ B!End(a, q) <= p
    BY <1>1, <1>2, <1>4, Apart
  <2>2. /\ p \in Nat /\ q \in Nat /\ payloads[p] \in Nat /\ payloads[q] \in Nat
        /\ p + 8 * payloads[p] <= B!End(a, p) /\ q + 8 * payloads[q] <= B!End(a, q)
        /\ B!End(a, p) \in Nat /\ B!End(a, q) \in Nat
    BY <1>2
  <2> QED
    BY <2>1, <2>2
<1>5. p + 8 * payloads[p] <= h.mem_brk /\ HeapLo <= p
  BY <1>2, <1>3
<1> QED
  BY <1>2, <1>4, <1>5 DEF Seat

\* The payload at p gets another length, for which its block has room.
LEMMA KeepServes ==
  ASSUME NEW h, NEW payloads, NEW a, Serves(h, payloads, a), NEW p \in DOMAIN payloads,
         NEW s \in Nat \ {0}, 8 * s + 16 <= B!Size(a, p),
         NEW more, more = [payloads EXCEPT ![p] = s]
  PROVE  /\ Serves(h, more, a) /\ more = [q \in DOMAIN more |-> more[q]]
         /\ DOMAIN more = DOMAIN payloads /\ more[p] = s
         /\ \A q \in DOMAIN payloads : q # p => more[q] = payloads[q]
<1>1. payloads = [q \in DOMAIN payloads |-> payloads[q]]
  BY DEF Serves, Holds
<1>2. /\ DOMAIN more = DOMAIN payloads /\ more[p] = s
      /\ \A q \in DOMAIN payloads : q # p => more[q] = payloads[q]
      /\ more = [q \in DOMAIN more |-> more[q]]
  BY <1>1
<1>3. Holds(a, more)
  <2> SUFFICES ASSUME NEW q \in DOMAIN payloads
               PROVE  more[q] \in Nat \ {0} /\ 8 * more[q] + 16 <= B!Size(a, q)
    BY <1>2 DEF Serves, Holds
  <2> QED
    BY <1>2 DEF Serves, Holds
<1> QED
  BY <1>2, <1>3 DEF Serves

\* The header of the caller's block.
LEMMA OldSize ==
  ASSUME NEW h, NEW payloads, NEW a, Serves(h, payloads, a), NEW p \in DOMAIN payloads,
         NEW old, old = BlockSize(h, p) - 16
  PROVE  /\ old \in Nat /\ old % 16 = 0 /\ B!Size(a, p) = old + 16
         /\ payloads[p] \in Nat \ {0} /\ 8 * payloads[p] <= old
<1>1. /\ InMemory(a) /\ Tagged(h, a, DOMAIN a.blk) /\ DOMAIN a.blk \in SUBSET DOMAIN a.blk
      /\ p \in DOMAIN a.blk
      /\ payloads[p] \in Nat \ {0} /\ 8 * payloads[p] + 16 <= B!Size(a, p)
  BY RepIs DEF Serves, Holds, B!Taken
<1>2. IsBlock(a, p) /\ Read(h, a, p)
  BY <1>1, BlockIs, HeaderRead
<1>3. BlockSize(h, p) = B!Size(a, p)
  BY <1>2 DEF Read
<1>4. B!Size(a, p) \in Nat /\ B!Size(a, p) % 16 = 0 /\ B!Size(a, p) >= 32
  BY <1>2 DEF IsBlock
<1> QED
  BY <1>1, <1>3, <1>4

\* realloc: the payload of p is at b, what it gained is filled.
Moved(h, payloads, p, b, n, d, new, more) ==
  /\ b \notin DOMAIN payloads \ {p}
  /\ DOMAIN more = (DOMAIN payloads \ {p}) \cup {b}
  /\ more[b] = Stored(n) /\ \A q \in DOMAIN payloads \ {p} : more[q] = payloads[q]
  /\ \A q \in DOMAIN payloads \ {p} : \A i \in 1..payloads[q] : Cell(new, q, i) = Cell(h, q, i)
  /\ \A i \in 1..Stored(n) :
       Cell(new, b, i) = IF i >= payloads[p] + 1 THEN d ELSE Cell(h, p, i)

LEMMA MoveServes ==
  ASSUME NEW h, NEW payloads, NEW a, Serves(h, payloads, a), NEW p \in DOMAIN payloads,
         NEW n \in Nat, n > 0, NEW d, NEW got, NEW g, Granted(h, a, AdjustedSize(n), got, g),
         NEW old, old = BlockSize(h, p) - 16, old < (IF n <= 16 THEN 2 * 16 ELSE align(n)),
         NEW more, more = Holding(Restrict(payloads, DOMAIN payloads \ {p}), got.bp, n),
         NEW new, new = Fill(free(Copy(got.heap, p, got.bp, old), p),
                             got.bp, payloads[p] + 1, Stored(n), d)
  PROVE  /\ \E f : Serves(new, more, f)
         /\ Moved(h, payloads, p, got.bp, n, d, new, more)
<1> DEFINE b == got.bp
           h1 == got.heap
           both == Holding(payloads, b, n)
           h2 == Copy(h1, p, b, old)
           h3 == free(h2, p)
<1>1. Serves(h1, both, g) /\ With(payloads, b, n, both) /\ Unmoved(h, h1, payloads)
  <2> HIDE DEF both
  <2> QED
    BY MallocServes DEF both
<1>2. /\ old \in Nat /\ old % 16 = 0 /\ B!Size(a, p) = old + 16
      /\ payloads[p] \in Nat \ {0} /\ 8 * payloads[p] <= old
  BY OldSize
<1>3. Stored(n) \in Nat \ {0} /\ old + 16 <= AdjustedSize(n) /\ AdjustedSize(n) \in Nat
  BY <1>2, SizesAre DEF Sizes
<1> HIDE DEF b, h1, both, h2, h3
<1>4. /\ DOMAIN both = DOMAIN payloads \cup {b} /\ b \notin DOMAIN payloads
      /\ both[b] = Stored(n) /\ \A q \in DOMAIN payloads : both[q] = payloads[q]
      /\ both = [q \in DOMAIN both |-> both[q]] /\ p # b
  BY <1>1 DEF With
<1>5. old + 16 <= B!Size(g, b) /\ old + 16 <= B!Size(g, p)
  <2>1. B!Size(g, b) >= AdjustedSize(n)
    BY DEF Granted, b
  <2>2. B!Size(g, b) \in Nat
    <3>1. InMemory(g) /\ b \in DOMAIN g.blk
      BY <1>1, <1>4, RepIs DEF Serves, Holds, B!Taken
    <3> QED
      BY <3>1, BlockIs DEF IsBlock
  <2>3. B!Size(g, p) = B!Size(a, p)
    BY DEF Granted, Serves, Holds, B!Size
  <2> QED
    BY <1>2, <1>3, <2>1, <2>2, <2>3
<1>6. /\ Rep(h2, g)
      /\ \A q \in DOMAIN both : \A i \in 1..both[q] : q # b => Cell(h2, q, i) = Cell(h1, q, i)
      /\ \A i \in Nat \ {0} : 8 * i <= old => Cell(h2, b, i) = Cell(h1, p, i)
  <2>1. Rep(h1, g) /\ Holds(g, both) /\ p \in DOMAIN both /\ b \in DOMAIN both
    BY <1>1, <1>4 DEF Serves
  <2> QED
    BY <1>2, <1>4, <1>5, <2>1, CopyIs DEF h2
<1>7. Serves(h2, both, g)
  BY <1>1, <1>6 DEF Serves
<1>8. Less(both, p, more)
  <2> DEFINE fewer == Restrict(payloads, DOMAIN payloads \ {p})
  <2>1. DOMAIN fewer = DOMAIN payloads \ {p} /\ \A q \in DOMAIN fewer : fewer[q] = payloads[q]
    BY DEF Restrict
  <2> HIDE DEF fewer
  <2>2. more = [q \in DOMAIN fewer \cup {b} |-> IF q = b THEN Stored(n) ELSE fewer[q]]
    BY DEF Holding, b, fewer
  <2>3. DOMAIN fewer \cup {b} = DOMAIN both \ {p}
    BY <1>4, <2>1
  <2> QED
    BY <1>4, <2>1, <2>2, <2>3 DEF Less
<1>9. PICK f : Serves(h3, more, f) /\ Unmoved(h2, h3, more)
  <2>1. p \in DOMAIN both
    BY <1>4
  <2> QED
    BY <1>7, <1>8, <2>1, FreeServes DEF h3
<1>10. /\ DOMAIN more = (DOMAIN payloads \ {p}) \cup {b} /\ more[b] = Stored(n)
       /\ \A q \in DOMAIN payloads \ {p} : more[q] = payloads[q] /\ more[q] = both[q]
       /\ more[b] = both[b]
  BY <1>4, <1>8 DEF Less
<1>11. /\ Rep(new, f)
       /\ \A q \in DOMAIN more : \A i \in 1..more[q] :
            Cell(new, q, i) = IF q = b /\ i >= payloads[p] + 1 THEN d ELSE Cell(h3, q, i)
  <2>1. Rep(h3, f) /\ Holds(f, more) /\ b \in DOMAIN more
    BY <1>9, <1>10 DEF Serves
  <2>2. new = Fill(h3, b, payloads[p] + 1, more[b], d)
    BY <1>10 DEF h3, h2, h1, b
  <2>3. payloads[p] + 1 \in Nat /\ payloads[p] + 1 > 0
    BY <1>2
  <2> QED
    BY <2>1, <2>2, <2>3, FillIs
<1>12. Serves(new, more, f)
  BY <1>9, <1>11 DEF Serves
<1>13. ASSUME NEW q \in DOMAIN payloads \ {p}, NEW i \in 1..payloads[q]
       PROVE  Cell(new, q, i) = Cell(h, q, i)
  <2>1. q # b /\ q \in DOMAIN more /\ q \in DOMAIN both /\ i \in 1..more[q] /\ i \in 1..both[q]
    BY <1>4, <1>10
  <2>2. Cell(new, q, i) = Cell(h3, q, i)
    BY <1>11, <2>1
  <2>3. Cell(h3, q, i) = Cell(h2, q, i)
    BY <1>9, <2>1 DEF Unmoved
  <2>4. Cell(h2, q, i) = Cell(h1, q, i)
    BY <1>6, <2>1
  <2>5. Cell(h1, q, i) = Cell(h, q, i)
    BY <1>1 DEF Unmoved
  <2> QED
    BY <2>2, <2>3, <2>4, <2>5
<1>14. ASSUME NEW i \in 1..Stored(n)
       PROVE  Cell(new, b, i) = IF i >= payloads[p] + 1 THEN d ELSE Cell(h, p, i)
  <2>1. b \in DOMAIN more /\ i \in 1..more[b]
    BY <1>10
  <2>2. CASE i >= payloads[p] + 1
    BY <1>11, <2>1, <2>2
  <2>3. CASE ~(i >= payloads[p] + 1)
    <3>1. i \in Nat \ {0} /\ i \in 1..payloads[p] /\ 8 * i <= old
      BY <1>2, <1>3, <2>3
    <3>2. Cell(new, b, i) = Cell(h3, b, i)
      BY <1>11, <2>1, <2>3
    <3>3. Cell(h3, b, i) = Cell(h2, b, i)
      BY <1>9, <2>1 DEF Unmoved
    <3>4. Cell(h2, b, i) = Cell(h1, p, i)
      BY <1>6, <3>1
    <3>5. Cell(h1, p, i) = Cell(h, p, i)
      BY <1>1, <3>1 DEF Unmoved
    <3> QED
      BY <2>3, <3>2, <3>3, <3>4, <3>5
  <2> QED
    BY <2>2, <2>3
<1> QED
  BY <1>4, <1>10, <1>12, <1>13, <1>14 DEF Moved, b

-----------------------------------------------------------------------------
(* The invariant                                                           *)

\* Some heap of blocks is what the words say and has room for the payloads.
Inv ==
  /\ \E a : Serves(heap, live, a)
  /\ fault \in {"none", "free", "realloc"}

ContentOf(h, payloads) ==
  [p \in DOMAIN payloads |-> [i \in 1..payloads[p] |-> Cell(h, p, i)]]

LEMMA ContentIs == Content = ContentOf(heap, live) /\ Content' = ContentOf(heap', live')
BY DEF Content, ContentOf, Cell

\* A payload of the new state is where the allocator may put one.
LEMMA FreshIs ==
  ASSUME NEW g, Serves(heap', live', g), NEW b \in DOMAIN live', NEW n, live'[b] = Stored(n),
         NEW others, DOMAIN others \subseteq DOMAIN live', b \notin DOMAIN others,
         \A q \in DOMAIN others : Len(others[q]) = live'[q]
  PROVE  Alloc!Fresh(b, Alloc!Words(n) * WSIZE, others)
<1>1. Seat(heap', live', b)
  BY SeatsAre
<1>2. live'[b] \in Nat
  BY DEF Serves, Holds
<1>3. Alloc!Words(n) = live'[b] /\ Alloc!Words(n) * 8 = 8 * live'[b]
  BY <1>2 DEF Alloc!Words, Stored
<1>4. \A q \in DOMAIN others : b + 8 * live'[b] <= q \/ q + 8 * Len(others[q]) <= b
  BY <1>1 DEF Seat
<1>5. /\ b % 16 = 0 /\ HeapLo <= b /\ b + 8 * live'[b] <= heap'.mem_brk
  BY <1>1 DEF Seat
<1> QED
  BY <1>3, <1>4, <1>5 DEF Alloc!Fresh

\* c has the words of the payloads.
Contains(h, payloads, c) ==
  /\ DOMAIN c = DOMAIN payloads /\ c = [p \in DOMAIN c |-> c[p]]
  /\ \A p \in DOMAIN payloads :
       /\ payloads[p] \in Nat /\ Len(c[p]) = payloads[p] /\ DOMAIN c[p] = 1..payloads[p]
       /\ c[p] = [i \in 1..payloads[p] |-> Cell(h, p, i)]
       /\ \A i \in 1..payloads[p] : c[p][i] = Cell(h, p, i)

LEMMA ContentHas ==
  ASSUME NEW h, NEW payloads, NEW a, Serves(h, payloads, a),
         NEW c, c = ContentOf(h, payloads)
  PROVE  Contains(h, payloads, c)
<1>1. DOMAIN c = DOMAIN payloads /\ c = [p \in DOMAIN c |-> c[p]]
  BY DEF ContentOf
<1>2. ASSUME NEW p \in DOMAIN payloads
      PROVE  /\ payloads[p] \in Nat /\ Len(c[p]) = payloads[p] /\ DOMAIN c[p] = 1..payloads[p]
             /\ c[p] = [i \in 1..payloads[p] |-> Cell(h, p, i)]
             /\ \A i \in 1..payloads[p] : c[p][i] = Cell(h, p, i)
  <2>1. payloads[p] \in Nat
    BY DEF Serves, Holds
  <2>2. c[p] = [i \in 1..payloads[p] |-> Cell(h, p, i)]
    BY DEF ContentOf
  <2> QED
    BY <2>1, <2>2
<1> QED
  BY <1>1, <1>2 DEF Contains

-----------------------------------------------------------------------------
(* The steps                                                               *)

\* Each request leaves the invariant, and is one of the allocator's.
Stepped == Inv' /\ (Alloc!AllocNext \/ Content' = Content)

LEMMA RequestIs ==
  ASSUME NEW n \in Request, n > 0
  PROVE  /\ n \in Nat /\ Sizes(n) /\ AdjustedSize(n) \in Nat /\ AdjustedSize(n) % 16 = 0
         /\ AdjustedSize(n) >= 32
<1>1. n \in Nat
  BY Extents
<1>2. Sizes(n)
  BY <1>1, SizesAre
<1> QED
  BY <1>1, <1>2 DEF Sizes

LEMMA MallocStep ==
  ASSUME Inv, NEW n \in Request, NEW d \in Data, Malloc(n, d)
  PROVE  Stepped
<1>1. PICK a : Serves(heap, live, a)
  BY DEF Inv
<1>2. n > 0 /\ fault' = fault
  BY DEF Malloc
<1>3. n \in Nat /\ AdjustedSize(n) \in Nat /\ AdjustedSize(n) % 16 = 0 /\ AdjustedSize(n) >= 32
      /\ Stored(n) \in Nat
  BY <1>2, RequestIs DEF Sizes
<1>4. PICK got : /\ got = malloc(heap, n)
                 /\ IF got.bp = NULL THEN heap' = got.heap /\ live' = live
                    ELSE /\ live' = Holding(live, got.bp, n)
                         /\ heap' = Fill(got.heap, got.bp, 1, Stored(n), d)
  BY DEF Malloc
<1>5. PICK asize : asize = AdjustedSize(n)
  OBVIOUS
<1>6. Refusal(heap, a, asize, got) \/ \E g : Granted(heap, a, asize, got, g)
  BY <1>1, <1>3, <1>4, <1>5, MallocIs DEF Serves
<1>7. CASE Refusal(heap, a, asize, got)
  <2>1. heap' = heap /\ live' = live
    BY <1>4, <1>7 DEF Refusal
  <2>2. Content' = Content
    BY <2>1, ContentIs
  <2>3. Inv'
    BY <1>1, <1>2, <2>1 DEF Inv
  <2> QED
    BY <2>2, <2>3 DEF Stepped
<1>8. ASSUME NEW g, Granted(heap, a, asize, got, g) PROVE Stepped
  <2> DEFINE b == got.bp
  <2>1. live' = Holding(live, b, n) /\ heap' = Fill(got.heap, b, 1, Stored(n), d)
    BY <1>4, <1>8 DEF Granted
  <2>2. PICK h1, more : h1 = got.heap /\ more = live'
    OBVIOUS
  <2>3. Serves(h1, more, g) /\ With(live, b, n, more) /\ Unmoved(heap, h1, live)
    BY <1>1, <1>2, <1>3, <1>5, <1>8, <2>1, <2>2, MallocServes
  <2> HIDE DEF b
  <2>4. /\ DOMAIN more = DOMAIN live \cup {b} /\ b \notin DOMAIN live /\ more[b] = Stored(n)
        /\ \A q \in DOMAIN live : more[q] = live[q]
    BY <2>3 DEF With
  <2>5. PICK new : new = Fill(h1, b, 1, more[b], d) /\ new = heap'
    BY <2>1, <2>2, <2>4
  <2>6. /\ Rep(new, g)
        /\ \A q \in DOMAIN more : \A i \in 1..more[q] :
             Cell(new, q, i) = IF q = b /\ i >= 1 THEN d ELSE Cell(h1, q, i)
    BY <2>3, <2>4, <2>5, FillIs DEF Serves
  <2>7. Serves(new, more, g)
    BY <2>3, <2>6 DEF Serves
  <2>8. Inv'
    BY <1>2, <2>2, <2>5, <2>7 DEF Inv
  <2> DEFINE old == ContentOf(heap, live)
             next == ContentOf(new, more)
             ws == [i \in 1..Stored(n) |-> d]
  <2>9. /\ DOMAIN next = DOMAIN old \cup {b} /\ b \notin DOMAIN old
        /\ next[b] = ws /\ \A q \in DOMAIN old : next[q] = old[q]
    <3>1. \A q \in DOMAIN live : \A i \in 1..live[q] : Cell(new, q, i) = Cell(heap, q, i)
      BY <2>3, <2>4, <2>6 DEF Unmoved
    <3>2. \A i \in 1..Stored(n) : Cell(new, b, i) = d
      BY <1>3, <2>4, <2>6
    <3> QED
      BY <2>4, <3>1, <3>2 DEF ContentOf
  <2>10. next = [q \in DOMAIN old \cup {b} |-> IF q = b THEN ws ELSE old[q]]
    <3>1. next = [q \in DOMAIN next |-> next[q]]
      BY DEF ContentOf
    <3> HIDE DEF next, old, ws
    <3> QED
      BY <2>9, <3>1
  <2>11. Alloc!Fresh(b, Alloc!Words(n) * WSIZE, old)
    <3>1. /\ DOMAIN old = DOMAIN live /\ \A q \in DOMAIN live : Len(old[q]) = live[q]
      <4>1. Contains(heap, live, old)
        BY <1>1, ContentHas
      <4> HIDE DEF old
      <4> QED
        BY <4>1 DEF Contains
    <3>2. Serves(heap', live', g) /\ b \in DOMAIN live' /\ live'[b] = Stored(n)
      BY <2>2, <2>4, <2>5, <2>7
    <3>3. DOMAIN old \subseteq DOMAIN live' /\ b \notin DOMAIN old
          /\ \A q \in DOMAIN old : Len(old[q]) = live'[q]
      BY <2>2, <2>4, <3>1
    <3> HIDE DEF old
    <3> QED
      BY <3>2, <3>3, FreshIs
  <2>12. Content = old /\ Content' = next
    BY <2>2, <2>5, ContentIs
  <2> HIDE DEF old, next, ws
  <2>13. Alloc!Obtain(n, d)
    <3>1. b \in DOMAIN Content' \ DOMAIN Content
      BY <2>9, <2>12
    <3>2. ws = [i \in 1..Alloc!Words(n) |-> d]
      BY DEF ws, Alloc!Words, Stored
    <3>3. Content' = Alloc!With(Content, b, [i \in 1..Alloc!Words(n) |-> d])
      BY <2>10, <2>12, <3>2 DEF Alloc!With
    <3> QED
      BY <2>11, <2>12, <3>1, <3>3 DEF Alloc!Obtain
  <2> QED
    BY <2>8, <2>13 DEF Stepped, Alloc!AllocNext
<1> QED
  BY <1>6, <1>7, <1>8

LEMMA FreeStep ==
  ASSUME Inv, NEW p \in DOMAIN live, Free(p)
  PROVE  Stepped
<1>1. PICK a : Serves(heap, live, a)
  BY DEF Inv
<1>2. fault' = fault /\ live' = Restrict(live, DOMAIN live \ {p}) /\ heap' = free(heap, p)
  BY DEF Free
<1>3. PICK new, fewer : new = heap' /\ fewer = live'
  OBVIOUS
<1>4. Less(live, p, fewer)
  BY <1>2, <1>3 DEF Restrict, Less
<1>5. PICK g : Serves(new, fewer, g) /\ Unmoved(heap, new, fewer)
  BY <1>1, <1>2, <1>3, <1>4, FreeServes
<1>6. Inv'
  BY <1>2, <1>3, <1>5 DEF Inv
<1> DEFINE old == ContentOf(heap, live)
           next == ContentOf(new, fewer)
<1>7. next = [q \in DOMAIN old \ {p} |-> old[q]]
  <2>1. DOMAIN fewer = DOMAIN live \ {p} /\ \A q \in DOMAIN fewer : fewer[q] = live[q]
    BY <1>4 DEF Less
  <2>2. Contains(heap, live, old) /\ Contains(new, fewer, next)
    BY <1>1, <1>5, ContentHas
  <2> HIDE DEF old, next
  <2>3. ASSUME NEW q \in DOMAIN fewer PROVE next[q] = old[q]
    <3>1. \A i \in 1..live[q] : Cell(new, q, i) = Cell(heap, q, i)
      BY <1>5, <2>1 DEF Unmoved
    <3>2. /\ next[q] = [i \in 1..live[q] |-> Cell(new, q, i)]
          /\ old[q] = [i \in 1..live[q] |-> Cell(heap, q, i)]
      BY <2>1, <2>2 DEF Contains
    <3> QED
      BY <3>1, <3>2
  <2>4. DOMAIN old = DOMAIN live /\ DOMAIN next = DOMAIN fewer /\ next = [q \in DOMAIN next |-> next[q]]
    BY <2>2 DEF Contains
  <2> QED
    BY <2>1, <2>3, <2>4
<1>8. Content = old /\ Content' = next
  BY <1>3, ContentIs
<1>9. p \in DOMAIN Content
  BY <1>8 DEF ContentOf
<1> HIDE DEF old, next
<1>10. Content' = Alloc!Without(p)
  BY <1>7, <1>8 DEF Alloc!Without, Alloc!Restrict
<1> QED
  BY <1>6, <1>9, <1>10 DEF Stepped, Alloc!AllocNext, Alloc!Release

\* realloc is a step of the allocator wherever the payload ends up.
LEMMA ResizeIs ==
  ASSUME NEW a, Serves(heap, live, a), NEW g, Serves(heap', live', g),
         NEW p \in DOMAIN live, NEW b, NEW n \in Request, NEW d \in Data,
         Moved(heap, live, p, b, n, d, heap', live')
  PROVE  Alloc!AllocNext
<1>1. PICK new, more : new = heap' /\ more = live'
  OBVIOUS
<1> DEFINE old == ContentOf(heap, live)
           next == ContentOf(new, more)
           rest == [q \in DOMAIN old \ {p} |-> old[q]]
<1>2. /\ DOMAIN more = (DOMAIN live \ {p}) \cup {b} /\ b \notin DOMAIN live \ {p}
      /\ more[b] = Stored(n) /\ \A q \in DOMAIN live \ {p} : more[q] = live[q]
      /\ \A q \in DOMAIN live \ {p} : \A i \in 1..live[q] : Cell(new, q, i) = Cell(heap, q, i)
      /\ \A i \in 1..Stored(n) :
           Cell(new, b, i) = IF i >= live[p] + 1 THEN d ELSE Cell(heap, p, i)
  BY <1>1 DEF Moved
<1>a. Contains(heap, live, old) /\ Contains(new, more, next)
  BY <1>1, ContentHas
<1> HIDE DEF old, next
<1>b. b \in DOMAIN more
  BY <1>2
<1>3. /\ DOMAIN old = DOMAIN live /\ DOMAIN next = DOMAIN more
      /\ next = [q \in DOMAIN next |-> next[q]]
      /\ \A q \in DOMAIN more : next[q] = [i \in 1..more[q] |-> Cell(new, q, i)]
      /\ \A q \in DOMAIN live : old[q] = [i \in 1..live[q] |-> Cell(heap, q, i)]
  BY <1>a DEF Contains
<1>4. /\ \A q \in DOMAIN live : live[q] \in Nat /\ Len(old[q]) = live[q]
      /\ DOMAIN old[p] = 1..live[p] /\ \A i \in 1..live[p] : old[p][i] = Cell(heap, p, i)
  BY <1>a DEF Contains
<1>5. /\ more[b] \in Nat /\ Len(next[b]) = more[b] /\ DOMAIN next[b] = 1..more[b]
      /\ \A i \in 1..more[b] : next[b][i] = Cell(new, b, i)
  BY <1>a, <1>b DEF Contains
<1>6. next = [q \in DOMAIN rest \cup {b} |-> IF q = b THEN next[b] ELSE rest[q]]
  <2>1. \A q \in DOMAIN live \ {p} : next[q] = old[q]
    BY <1>2, <1>3
  <2>2. DOMAIN rest = DOMAIN live \ {p} /\ \A q \in DOMAIN rest : rest[q] = old[q]
    BY <1>3
  <2> HIDE DEF rest
  <2> QED
    BY <1>2, <1>3, <2>1, <2>2
<1>7. Alloc!Fresh(b, Alloc!Words(n) * WSIZE, rest)
  <2>1. /\ Serves(heap', live', g) /\ b \in DOMAIN live' /\ live'[b] = Stored(n)
    BY <1>1, <1>2
  <2>2. /\ DOMAIN rest \subseteq DOMAIN live' /\ b \notin DOMAIN rest
        /\ \A q \in DOMAIN rest : Len(rest[q]) = live'[q]
    BY <1>1, <1>2, <1>3, <1>4
  <2> HIDE DEF rest
  <2> QED
    BY <2>1, <2>2, FreshIs
<1>8. Content = old /\ Content' = next
  BY <1>1, ContentIs DEF old, next
<1>9. Alloc!Without(p) = rest
  BY <1>8 DEF Alloc!Without, Alloc!Restrict
<1> HIDE DEF rest
<1>10. Alloc!Same(Content[p], Content'[b])
  <2> SUFFICES ASSUME NEW i \in DOMAIN old[p] \cap DOMAIN next[b]
               PROVE  next[b][i] = old[p][i]
    BY <1>8 DEF Alloc!Same
  <2>1. i \in 1..live[p] /\ i \in 1..Stored(n) /\ live[p] \in Nat
    BY <1>2, <1>3, <1>4, <1>5
  <2>2. next[b][i] = Cell(new, b, i) /\ old[p][i] = Cell(heap, p, i)
    BY <1>2, <1>4, <1>5, <2>1
  <2>3. ~(i >= live[p] + 1)
    BY <2>1
  <2> QED
    BY <1>2, <2>1, <2>2, <2>3
<1>11. \A i \in DOMAIN Content'[b] \ DOMAIN Content[p] : Content'[b][i] = d
  <2> SUFFICES ASSUME NEW i \in DOMAIN next[b] \ DOMAIN old[p]
               PROVE  next[b][i] = d
    BY <1>8
  <2>1. i \in 1..Stored(n) /\ i \notin 1..live[p] /\ live[p] \in Nat /\ i >= 1 /\ i \in Int
    BY <1>2, <1>3, <1>4, <1>5
  <2>2. next[b][i] = Cell(new, b, i)
    BY <1>2, <1>5, <2>1
  <2>3. i >= live[p] + 1
    BY <2>1
  <2> QED
    BY <1>2, <2>1, <2>2, <2>3
<1>12. Alloc!Resize(p, n, d)
  <2>1. b \in DOMAIN Content'
    BY <1>2, <1>3, <1>8
  <2>2. Content' = Alloc!With(Alloc!Without(p), b, Content'[b])
    BY <1>6, <1>8, <1>9 DEF Alloc!With
  <2>3. Len(Content'[b]) = Alloc!Words(n)
    BY <1>2, <1>5, <1>8 DEF Alloc!Words, Stored
  <2>4. Alloc!Fresh(b, Alloc!Words(n) * WSIZE, Alloc!Without(p))
    BY <1>7, <1>9
  <2> QED
    BY <1>10, <1>11, <2>1, <2>2, <2>3, <2>4 DEF Alloc!Resize
<1>13. p \in DOMAIN Content
  BY <1>3, <1>8
<1> QED
  BY <1>12, <1>13 DEF Alloc!AllocNext

LEMMA ReallocStep ==
  ASSUME Inv, NEW p \in DOMAIN live, NEW n \in Request, NEW d \in Data, Realloc(p, n, d)
  PROVE  Stepped
<1>1. PICK a : Serves(heap, live, a)
  BY DEF Inv
<1>2. n > 0
  BY DEF Realloc
<1>3. /\ n \in Nat /\ AdjustedSize(n) \in Nat /\ AdjustedSize(n) % 16 = 0 /\ AdjustedSize(n) >= 32
      /\ Sizes(n) /\ Stored(n) \in Nat \ {0}
  BY <1>2, RequestIs DEF Sizes
<1>4. PICK old : old = BlockSize(heap, p) - 16
  OBVIOUS
<1>5. /\ old \in Nat /\ old % 16 = 0 /\ B!Size(a, p) = old + 16
      /\ live[p] \in Nat \ {0} /\ 8 * live[p] <= old
  BY <1>1, <1>4, OldSize
<1>6. PICK need : need = IF n <= 16 THEN 2 * 16 ELSE align(n)
  OBVIOUS
<1>7. \/ /\ old >= need /\ live' = [live EXCEPT ![p] = Stored(n)]
         /\ heap' = Fill(heap, p, live[p] + 1, Stored(n), d) /\ fault' = fault
      \/ \E got \in {malloc(heap, n)} :
           /\ old < need
           /\ \/ got.bp = NULL /\ fault' = "realloc" /\ heap' = heap /\ live' = live
              \/ /\ got.bp # NULL
                 /\ live' = Holding(Restrict(live, DOMAIN live \ {p}), got.bp, n)
                 /\ heap' = Fill(free(Copy(got.heap, p, got.bp, old), p),
                                 got.bp, live[p] + 1, Stored(n), d)
                 /\ fault' = fault
  BY <1>4, <1>6 DEF Realloc
<1>8. CASE /\ old >= need /\ live' = [live EXCEPT ![p] = Stored(n)]
           /\ heap' = Fill(heap, p, live[p] + 1, Stored(n), d) /\ fault' = fault
  <2>1. 8 * Stored(n) <= old
    BY <1>3, <1>5, <1>6, <1>8 DEF Sizes
  <2>2. PICK more : more = [live EXCEPT ![p] = Stored(n)] /\ more = live'
    BY <1>8
  <2>3. PICK s \in Nat \ {0} : s = Stored(n) /\ 8 * s + 16 <= B!Size(a, p)
    BY <1>3, <1>5, <2>1
  <2>4. /\ Serves(heap, more, a) /\ DOMAIN more = DOMAIN live /\ more[p] = s
        /\ \A q \in DOMAIN live : q # p => more[q] = live[q]
    <3>1. more = [live EXCEPT ![p] = s]
      BY <2>2, <2>3
    <3> QED
      BY <1>1, <2>3, <3>1, KeepServes
  <2>5. PICK new : new = heap' /\ new = Fill(heap, p, live[p] + 1, more[p], d)
    BY <1>8, <2>3, <2>4
  <2>6. live[p] + 1 \in Nat /\ live[p] + 1 > 0 /\ p \in DOMAIN more
    BY <1>5, <2>4
  <2>7. /\ Rep(new, a)
        /\ \A q \in DOMAIN more : \A i \in 1..more[q] :
             Cell(new, q, i) = IF q = p /\ i >= live[p] + 1 THEN d ELSE Cell(heap, q, i)
    BY <2>4, <2>5, <2>6, FillIs DEF Serves
  <2>8. Serves(new, more, a)
    BY <2>4, <2>7 DEF Serves
  <2>9. Moved(heap, live, p, p, n, d, new, more)
    BY <2>3, <2>4, <2>6, <2>7 DEF Moved
  <2>10. Alloc!AllocNext
    BY <1>1, <2>2, <2>5, <2>8, <2>9, ResizeIs, ZenonT(40)
  <2>11. Inv'
    BY <1>8, <2>2, <2>5, <2>8 DEF Inv
  <2> QED
    BY <2>10, <2>11 DEF Stepped
<1>9. ASSUME NEW got, got = malloc(heap, n), old < need,
             got.bp = NULL /\ fault' = "realloc" /\ heap' = heap /\ live' = live
      PROVE  Stepped
  <2>1. Inv'
    BY <1>1, <1>9 DEF Inv
  <2>2. Content' = Content
    BY <1>9, ContentIs
  <2> QED
    BY <2>1, <2>2 DEF Stepped
<1>10. ASSUME NEW got, got = malloc(heap, n), old < need, got.bp # NULL,
              live' = Holding(Restrict(live, DOMAIN live \ {p}), got.bp, n),
              heap' = Fill(free(Copy(got.heap, p, got.bp, old), p),
                           got.bp, live[p] + 1, Stored(n), d),
              fault' = fault
       PROVE  Stepped
  <2>1. PICK asize : asize = AdjustedSize(n)
    OBVIOUS
  <2>2. Refusal(heap, a, asize, got) \/ \E g : Granted(heap, a, asize, got, g)
    BY <1>1, <1>3, <1>10, <2>1, MallocIs DEF Serves
  <2>3. PICK g : Granted(heap, a, AdjustedSize(n), got, g)
    BY <1>10, <2>1, <2>2 DEF Refusal
  <2>4. PICK new, more : new = heap' /\ more = live'
    OBVIOUS
  <2>5. /\ \E f : Serves(new, more, f)
        /\ Moved(heap, live, p, got.bp, n, d, new, more)
    BY <1>1, <1>2, <1>3, <1>4, <1>6, <1>10, <2>3, <2>4, MoveServes
  <2>6. Inv'
    BY <1>10, <2>4, <2>5 DEF Inv
  <2>7. Alloc!AllocNext
    BY <1>1, <2>4, <2>5, ResizeIs
  <2> QED
    BY <2>6, <2>7 DEF Stepped
<1> QED
  BY <1>7, <1>8, <1>9, <1>10

\* mm_init leaves a heap that serves nobody.
LEMMA StartServes ==
  ASSUME NEW mem, mem = [x \in WordAddress |-> mem[x]]
  PROVE  \E a : Serves(mm_init(mem), <<>>, a)
<1>1. PICK a : Started(mm_init(mem), a)
  BY InitIs
<1>2. Holds(a, <<>>)
  <2>1. DOMAIN <<>> = {} /\ <<>> = [p \in {} |-> <<>>[p]]
    OBVIOUS
  <2> QED
    BY <1>1, <2>1 DEF Started, Holds
<1> QED
  BY <1>1, <1>2 DEF Started, Serves

LEMMA RestartStep ==
  ASSUME Inv, Restart
  PROVE  Stepped
<1>1. PICK a : Serves(heap, live, a)
  BY DEF Inv
<1>2. heap' = mm_init(heap.mem) /\ live' = <<>> /\ fault' = fault
  BY DEF Restart
<1>3. heap.mem = [x \in WordAddress |-> heap.mem[x]]
  BY <1>1, RepIs DEF Serves, IsWords
<1>4. \E g : Serves(heap', live', g)
  BY <1>2, <1>3, StartServes
<1>5. Content' = <<>>
  BY <1>2 DEF Content
<1> QED
  BY <1>2, <1>4, <1>5 DEF Inv, Stepped, Alloc!AllocNext, Alloc!StartOver

LEMMA InitInv == Init => Inv /\ Alloc!AllocInit
<1> SUFFICES ASSUME Init PROVE Inv /\ Alloc!AllocInit
  OBVIOUS
<1> DEFINE zero == [x \in WordAddress |-> 0]
<1>1. heap = mm_init(zero) /\ live = <<>> /\ fault = "none"
  BY DEF Init
<1>2. zero = [x \in WordAddress |-> zero[x]]
  OBVIOUS
<1> HIDE DEF zero
<1>3. \E a : Serves(heap, live, a)
  BY <1>1, <1>2, StartServes
<1>4. Content = <<>>
  BY <1>1 DEF Content
<1> QED
  BY <1>1, <1>3, <1>4 DEF Inv, Alloc!AllocInit

LEMMA NextInv == Inv /\ [Next]_vars => Stepped
<1> SUFFICES ASSUME Inv, [Next]_vars PROVE Stepped
  OBVIOUS
<1>1. CASE \E n \in Request, d \in Data : Malloc(n, d)
  BY <1>1, MallocStep
<1>2. CASE \E p \in DOMAIN live : Free(p)
  BY <1>2, FreeStep
<1>3. CASE FreeNull
  BY <1>3, ContentIs DEF FreeNull, Inv, Stepped
<1>4. CASE \E p \in DOMAIN live, n \in Request, d \in Data : Realloc(p, n, d)
  BY <1>4, ReallocStep
<1>5. CASE Restart
  BY <1>5, RestartStep
<1>6. CASE UNCHANGED vars
  BY <1>6, ContentIs DEF vars, Inv, Stepped
<1> QED
  BY <1>1, <1>2, <1>3, <1>4, <1>5, <1>6 DEF Next

LEMMA AlwaysInv == Spec => []Inv
<1>1. Inv /\ [Next]_vars => Inv'
  BY NextInv DEF Stepped
<1>2. Init => Inv
  BY InitInv
<1> QED
  BY <1>1, <1>2, PTL DEF Spec

\* mm.c implements the allocator of mm.h, whatever is requested of it.
THEOREM HeapIsAllocator == Spec => ImplementsAllocator
<1>1. Init => Alloc!AllocInit
  BY InitInv
<1>2. Inv /\ [Next]_vars => [Alloc!AllocNext]_Content
  BY NextInv DEF Stepped
<1> QED
  BY <1>1, <1>2, AlwaysInv, PTL DEF Spec, ImplementsAllocator, Alloc!AllocSpec

-----------------------------------------------------------------------------
(* What the invariant says of the words                                    *)

\* The free blocks that the walk over the headers meets.
LEMMA FreeBlocksAre ==
  ASSUME NEW h, NEW a, Rep(h, a)
  PROVE  /\ Blocks(h) = DOMAIN a.blk /\ FreeBlocks(h) = B!FreeBlocks(a)
         /\ \A b \in DOMAIN a.blk : Read(h, a, b)
<1>1. /\ InMemory(a) /\ Tagged(h, a, DOMAIN a.blk) /\ DOMAIN a.blk \in SUBSET DOMAIN a.blk
  BY RepIs
<1>2. \A b \in DOMAIN a.blk : Read(h, a, b)
  BY <1>1, HeaderRead
<1>3. Blocks(h) = DOMAIN a.blk
  BY BlocksAre
<1>4. FreeBlocks(h) = {b \in DOMAIN a.blk : b \in B!FreeBlocks(a)}
  BY <1>2, <1>3 DEF FreeBlocks, Read
<1> QED
  BY <1>2, <1>3, <1>4 DEF B!FreeBlocks

LEMMA HeadsAre ==
  ASSUME NEW h, NEW a, Rep(h, a), NEW l \in Lists
  PROVE  h.seg_list[l] \in WordAddress \cup {NULL}
<1>1. PICK q, S, blk : q = a.free /\ S = B!FreeBlocks(a) /\ blk = a.blk
  OBVIOUS
<1>2. Shelf(q, S, blk) /\ Linked(h, q, blk)
  <2>1. Built(h, a, DOMAIN a.blk, S)
    BY <1>1 DEF Rep
  <2> QED
    BY <1>1, <2>1, ShelfOf DEF Built
<1>3. l \in Nat
  BY Extents DEF Lists
<1>4. PICK n \in 1..(Len(q) + 1) : Starts(q, blk, l, n)
  BY <1>2, <1>3, StartsExist
<1>5. h.seg_list[l] = At(q, blk, l, n)
  BY <1>2, <1>4 DEF Linked
<1>6. Site(At(q, blk, l, n)) \/ At(q, blk, l, n) = NULL
  BY <1>2, AtIs
<1> QED
  BY <1>5, <1>6 DEF Site

LEMMA InvType == Inv => TypeOK
<1> SUFFICES ASSUME Inv PROVE TypeOK
  OBVIOUS
<1>1. PICK a : Serves(heap, live, a)
  BY DEF Inv
<1>2. InMemory(a) /\ Edges(heap, a) /\ IsWords(heap) /\ Rep(heap, a)
  BY <1>1, RepIs DEF Serves
<1>3. heap.mem_brk \in HeapLo..Limit
  BY <1>2, BrkIs, Extents DEF Edges
<1>4. DOMAIN heap.mem = WordAddress
  BY <1>2 DEF IsWords
<1>5. \A l \in 0..(MAX_LEN - 1) : heap.seg_list[l] \in WordAddress \cup {NULL}
  BY <1>2, HeadsAre DEF Lists
<1>6. DOMAIN live \subseteq WordAddress
  BY <1>1, SeatsAre DEF Seat
<1> QED
  BY <1>3, <1>4, <1>5, <1>6 DEF Inv, TypeOK

LEMMA InvTiled == Inv => HeapTiled
<1> SUFFICES ASSUME Inv PROVE HeapTiled
  OBVIOUS
<1>1. PICK a : Serves(heap, live, a)
  BY DEF Inv
<1>2. /\ InMemory(a) /\ Edges(heap, a) /\ Rep(heap, a) /\ B!Sound(a) /\ Holds(a, live)
      /\ Tagged(heap, a, DOMAIN a.blk)
  BY <1>1, RepIs DEF Serves
<1>3. TypeOK
  BY InvType
<1>4. /\ Blocks(heap) = DOMAIN a.blk /\ FreeBlocks(heap) = B!FreeBlocks(a)
      /\ \A b \in DOMAIN a.blk : Read(heap, a, b)
  BY <1>2, FreeBlocksAre
<1>5. ASSUME NEW b \in Blocks(heap)
      PROVE  /\ b % ALIGNMENT = 0
             /\ BlockSize(heap, b) % DSIZE = 0 /\ BlockSize(heap, b) >= 2 * DSIZE
             /\ NEXT_BLKP(heap, b) \in Blocks(heap) \cup {heap.mem_brk}
             /\ heap.mem[FTRP(heap, b)] = heap.mem[HDRP(b)]
             /\ GET_TAG(heap, HDRP(b)) = 0
  <2>1. IsBlock(a, b) /\ Read(heap, a, b) /\ b \in DOMAIN a.blk
    BY <1>2, <1>4, BlockIs
  <2>2. /\ BlockSize(heap, b) = B!Size(a, b) /\ NEXT_BLKP(heap, b) = B!End(a, b)
        /\ GET_TAG(heap, HDRP(b)) = 0 /\ FTRP(heap, b) = NEXT_BLKP(heap, b) - 16
    <3>1. /\ BlockSize(heap, b) = B!Size(a, b) /\ NEXT_BLKP(heap, b) = B!End(a, b)
          /\ GET_TAG(heap, HDRP(b)) = 0
      BY <2>1 DEF Read
    <3>2. FTRP(heap, b) = b + BlockSize(heap, b) - 16
      BY DEF FTRP, BlockSize
    <3>3. B!End(a, b) = b + B!Size(a, b)
      BY <2>1 DEF IsBlock
    <3>4. b \in Nat /\ B!Size(a, b) \in Nat
      BY <2>1 DEF IsBlock
    <3>5. b + B!Size(a, b) - 16 = (b + B!Size(a, b)) - 16
      BY <3>4
    <3> QED
      BY <3>1, <3>2, <3>3, <3>4, <3>5
  <2>3. heap.mem[FTRP(heap, b)] = heap.mem[HDRP(b)]
    BY <1>2, <2>1, <2>2 DEF Tagged, HDRP
  <2>4. B!End(a, b) \in DOMAIN a.blk \cup {a.brk} /\ heap.mem_brk = a.brk
    BY <1>2, <2>1 DEF IsBlock, Edges
  <2>5. b % 16 = 0 /\ B!Size(a, b) % 16 = 0 /\ B!Size(a, b) >= 2 * 16
    BY <2>1 DEF IsBlock
  <2> QED
    BY <1>4, <2>2, <2>3, <2>4, <2>5
<1>6. Blocks(heap) \ FreeBlocks(heap) = DOMAIN live
  <2>1. DOMAIN live = B!Taken(a)
    BY <1>2 DEF Holds
  <2> QED
    BY <1>4, <2>1 DEF B!FreeBlocks, B!Taken
<1>7. \A b \in FreeBlocks(heap) : NEXT_BLKP(heap, b) \notin FreeBlocks(heap)
  <2> SUFFICES ASSUME NEW b \in B!FreeBlocks(a)
               PROVE  NEXT_BLKP(heap, b) \notin B!FreeBlocks(a)
    BY <1>4
  <2>1. b \in DOMAIN a.blk
    BY DEF B!FreeBlocks
  <2>2. NEXT_BLKP(heap, b) = B!End(a, b)
    BY <1>4, <2>1 DEF Read
  <2> QED
    BY <1>2, <2>2 DEF B!Sound
<1>8. /\ heap.mem[HeapLo + WSIZE] = DSIZE + 1 /\ heap.mem[HeapLo + 2 * WSIZE] = DSIZE + 1
      /\ heap.mem[heap.mem_brk - WSIZE] = 1
  BY <1>2 DEF Edges
<1> QED
  BY <1>3, <1>5, <1>6, <1>7, <1>8 DEF HeapTiled

LEMMA InvLists == Inv => FreeListsExact
<1> SUFFICES ASSUME Inv, NEW l \in Lists
             PROVE  LET nodes == Nodes(heap, l)
                    IN  /\ Range(nodes) = {b \in FreeBlocks(heap) : select_list(BlockSize(heap, b)) = l}
                        /\ \A i, j \in DOMAIN nodes : i < j =>
                             nodes[i] # nodes[j] /\ BlockSize(heap, nodes[i]) <= BlockSize(heap, nodes[j])
                        /\ \A i \in DOMAIN nodes :
                             NEXT_BLK(heap, nodes[i]) = IF i = 1 THEN NULL ELSE nodes[i - 1]
  BY DEF FreeListsExact, Lists
<1>1. PICK a : Serves(heap, live, a)
  BY DEF Inv
<1>2. Rep(heap, a)
  BY <1>1 DEF Serves
<1>3. /\ FreeBlocks(heap) = B!FreeBlocks(a)
      /\ \A b \in B!FreeBlocks(a) :
           /\ BlockSize(heap, b) = B!Size(a, b)
           /\ Cl(a.blk, b) = select_list(BlockSize(heap, b))
  <2>1. /\ FreeBlocks(heap) = B!FreeBlocks(a) /\ \A b \in DOMAIN a.blk : Read(heap, a, b)
    BY <1>2, FreeBlocksAre
  <2> SUFFICES ASSUME NEW b \in B!FreeBlocks(a)
               PROVE  /\ BlockSize(heap, b) = B!Size(a, b)
                      /\ Cl(a.blk, b) = select_list(BlockSize(heap, b))
    BY <2>1
  <2>2. BlockSize(heap, b) = B!Size(a, b)
    BY <2>1 DEF B!FreeBlocks, Read
  <2> QED
    BY <2>2 DEF Cl, B!Size
<1>4. PICK nodes : nodes = Nodes(heap, l)
  OBVIOUS
<1>5. ListIs(heap, a, l)
  BY <1>2, ListsAre
<1>6. /\ \A i \in DOMAIN nodes : nodes[i] \in B!FreeBlocks(a) /\ Cl(a.blk, nodes[i]) = l
      /\ \A b \in B!FreeBlocks(a) : Cl(a.blk, b) = l => \E i \in DOMAIN nodes : nodes[i] = b
      /\ \A i, j \in DOMAIN nodes :
           i < j => nodes[i] # nodes[j] /\ B!Size(a, nodes[i]) <= B!Size(a, nodes[j])
      /\ \A i \in DOMAIN nodes :
           NEXT_BLK(heap, nodes[i]) = IF i = 1 THEN NULL ELSE nodes[i - 1]
  BY <1>4, <1>5 DEF ListIs
<1>7. Range(nodes) = {b \in FreeBlocks(heap) : select_list(BlockSize(heap, b)) = l}
  <2>1. \A b \in Range(nodes) : b \in FreeBlocks(heap) /\ select_list(BlockSize(heap, b)) = l
    BY <1>3, <1>6 DEF Range
  <2>2. \A b \in FreeBlocks(heap) : select_list(BlockSize(heap, b)) = l => b \in Range(nodes)
    BY <1>3, <1>6 DEF Range
  <2> QED
    BY <2>1, <2>2
<1>8. \A i, j \in DOMAIN nodes : i < j =>
        nodes[i] # nodes[j] /\ BlockSize(heap, nodes[i]) <= BlockSize(heap, nodes[j])
  BY <1>3, <1>6
<1> QED
  BY <1>4, <1>6, <1>7, <1>8

LEMMA InvBest == Inv => BestFit
<1> SUFFICES ASSUME Inv, NEW n \in Request \ {0}, NEW got, got = malloc(heap, n)
             PROVE  LET fits == {b \in FreeBlocks(heap) : BlockSize(heap, b) >= AdjustedSize(n)}
                    IN  IF fits = {}
                        THEN got.bp = NULL => heap.mem_brk + Bigger(AdjustedSize(n), CHUNKSIZE) > Limit
                        ELSE /\ got.heap.mem_brk = heap.mem_brk
                             /\ got.bp \in fits
                             /\ \A c \in fits : BlockSize(heap, got.bp) <= BlockSize(heap, c)
  BY DEF BestFit
<1>1. PICK a : Serves(heap, live, a)
  BY DEF Inv
<1>2. Rep(heap, a) /\ B!Sound(a) /\ Edges(heap, a) /\ InMemory(a)
  BY <1>1, RepIs DEF Serves
<1>3. PICK asize : asize = AdjustedSize(n)
  OBVIOUS
<1>4. n \in Nat /\ asize \in Nat /\ asize % 16 = 0 /\ asize >= 32
  <2>1. n \in Request /\ n \in Nat /\ n > 0
    BY Extents
  <2> QED
    BY <1>3, <2>1, RequestIs
<1>5. FreeBlocks(heap) = B!FreeBlocks(a) /\ \A b \in DOMAIN a.blk : Read(heap, a, b)
  BY <1>2, FreeBlocksAre
<1>6. \A b \in B!FreeBlocks(a) : BlockSize(heap, b) = B!Size(a, b) /\ B!Size(a, b) \in Nat
  <2> SUFFICES ASSUME NEW b \in B!FreeBlocks(a)
               PROVE  BlockSize(heap, b) = B!Size(a, b) /\ B!Size(a, b) \in Nat
    OBVIOUS
  <2>1. b \in DOMAIN a.blk
    BY DEF B!FreeBlocks
  <2> QED
    BY <1>2, <1>5, <2>1, BlockIs DEF Read, IsBlock
<1> DEFINE fits == {b \in FreeBlocks(heap) : BlockSize(heap, b) >= asize}
<1>7. fits = {b \in B!FreeBlocks(a) : B!Size(a, b) >= asize}
  BY <1>5, <1>6
<1>8. heap.mem_brk = a.brk
  BY <1>2 DEF Edges
<1> HIDE DEF fits
<1>9. Refusal(heap, a, asize, got) \/ \E g : Granted(heap, a, asize, got, g)
  BY <1>2, <1>3, <1>4, MallocIs
<1>10. CASE Refusal(heap, a, asize, got)
  <2>1. fits = {}
    BY <1>4, <1>6, <1>7, <1>10 DEF Refusal
  <2>2. heap.mem_brk + Bigger(asize, CHUNKSIZE) > Limit
    BY <1>8, <1>10 DEF Refusal
  <2> QED
    BY <1>3, <2>1, <2>2 DEF fits
<1>11. ASSUME NEW g, Granted(heap, a, asize, got, g)
       PROVE  /\ got.bp # NULL
              /\ fits # {} => /\ got.heap.mem_brk = heap.mem_brk /\ got.bp \in fits
                              /\ \A c \in fits : BlockSize(heap, got.bp) <= BlockSize(heap, c)
  <2>1. got.bp # NULL /\ Rep(got.heap, g) /\ Best(a, asize, got.bp, g)
    BY <1>11 DEF Granted
  <2>2. got.heap.mem_brk = g.brk
    BY <2>1, RepIs DEF Edges
  <2>3. ASSUME fits # {}
        PROVE  /\ got.heap.mem_brk = heap.mem_brk /\ got.bp \in fits
               /\ \A c \in fits : BlockSize(heap, got.bp) <= BlockSize(heap, c)
    <3>1. ~ \A c \in B!FreeBlocks(a) : B!Size(a, c) < asize
      BY <1>4, <1>6, <1>7, <2>3
    <3>2. /\ g.brk = a.brk /\ got.bp \in B!FreeBlocks(a) /\ B!Size(a, got.bp) >= asize
          /\ \A c \in B!FreeBlocks(a) : B!Size(a, c) >= asize => B!Size(a, got.bp) <= B!Size(a, c)
      BY <2>1, <3>1 DEF Best
    <3> QED
      BY <1>6, <1>7, <1>8, <2>2, <3>2
  <2> QED
    BY <2>1, <2>3
<1> QED
  BY <1>3, <1>9, <1>10, <1>11 DEF fits

\* The boundary tags tile the heap, no two neighbours are free and the allocated
\* blocks are those the caller holds, after any history of requests.
THEOREM TagsTileTheHeap == Spec => []HeapTiled
BY AlwaysInv, InvTiled, PTL

\* Every free block is in the one list of its class, in ascending order, with
\* links that agree both ways.
THEOREM ListsAreExact == Spec => []FreeListsExact
BY AlwaysInv, InvLists, PTL

\* malloc takes a smallest free block that is large enough, and extends the heap
\* or fails only when there is none.
THEOREM FirstFitIsBestFit == Spec => []BestFit
BY AlwaysInv, InvBest, PTL
=============================================================================
