-------------------------------- MODULE Heap --------------------------------
(***************************************************************************)
(* src/p1-memory-management/mm.c over the simulated memory of memlib.c:    *)
(* segregated free lists, boundary tags, splitting and coalescing.  Memory *)
(* is an array of 8-byte words, so that headers, footers, list links and   *)
(* the caller's payload share it as they do in the program.  The caller is *)
(* mdriver.c, which fills each payload it gets.                            *)
(***************************************************************************)
EXTENDS Integers, Sequences, FiniteSets, Functions

CONSTANTS HeapLo,     \* address of the first heap byte
          HeapSize,   \* MAX_HEAP_SIZE
          CHUNKSIZE,  \* smallest extension of the heap
          MAX_LEN,    \* number of segregated lists
          Request,    \* the sizes the caller asks for, in bytes
          Data        \* the words the caller stores

WSIZE == 8
DSIZE == 16
ALIGNMENT == 16
NULL == 0

ASSUME HeapAssumption ==
  /\ HeapLo \in Nat \ {0} /\ HeapLo % ALIGNMENT = 0
  /\ CHUNKSIZE \in Nat /\ CHUNKSIZE % DSIZE = 0 /\ CHUNKSIZE > 2 * DSIZE
  /\ HeapSize \in Nat /\ HeapSize % DSIZE = 0 /\ HeapSize >= CHUNKSIZE + 4 * WSIZE
  /\ MAX_LEN \in Nat \ {0}
  /\ Request \subseteq Nat

VARIABLES heap,    \* [mem, seg_list, mem_brk]: the state of memlib.c and mm.c
          live,    \* the caller's payloads: words asked for, by address
          fault    \* where a NULL pointer was dereferenced, or "none"

vars == <<heap, live, fault>>

WordAddress == {HeapLo + WSIZE * k : k \in 0..(HeapSize \div WSIZE - 1)}
Limit == HeapLo + HeapSize    \* mem_max_addr

-----------------------------------------------------------------------------
\* Words, tags and neighbours.

align(x) == ALIGNMENT * ((x + ALIGNMENT - 1) \div ALIGNMENT)
Bigger(x, y) == IF x > y THEN x ELSE y

GET_SIZE(h, a) == 8 * (h.mem[a] \div 8)
GET_ALLOC(h, a) == h.mem[a] % 2
GET_TAG(h, a) == 2 * ((h.mem[a] \div 2) % 2)
PUT(h, a, v) == [h EXCEPT !.mem[a] = v]
PUT_TAG(h, a, v) == PUT(h, a, v + GET_TAG(h, a))
TAG_REMOVE(h, a) == PUT(h, a, h.mem[a] - GET_TAG(h, a))

HDRP(bp) == bp - WSIZE
FTRP(h, bp) == bp + GET_SIZE(h, HDRP(bp)) - DSIZE
NEXT_BLKP(h, bp) == bp + GET_SIZE(h, bp - WSIZE)
PREV_BLKP(h, bp) == bp - GET_SIZE(h, bp - DSIZE)
BlockSize(h, bp) == GET_SIZE(h, HDRP(bp))
IsFree(h, bp) == GET_ALLOC(h, HDRP(bp)) = 0

\* Header, then the footer that the new header's size locates.
SetTags(h, bp, size, alloc) ==
  LET h1 == PUT(h, HDRP(bp), size + alloc)
  IN  PUT(h1, FTRP(h1, bp), size + alloc)

-----------------------------------------------------------------------------
\* The segregated lists.  A node's first word (PREV_PTR) leads towards larger
\* blocks, its second (NEXT_PTR) back towards the head.

PREV_PTR(bp) == bp
NEXT_PTR(bp) == bp + WSIZE
PREV_BLK(h, bp) == h.mem[PREV_PTR(bp)]
NEXT_BLK(h, bp) == h.mem[NEXT_PTR(bp)]
SET_PREV(h, bp, v) == IF bp = NULL THEN h ELSE PUT(h, PREV_PTR(bp), v)
SET_NEXT(h, bp, v) == IF bp = NULL THEN h ELSE PUT(h, NEXT_PTR(bp), v)

\* How often size is halved before 1 is left, clamped to the last list.
select_list(size) ==
  LET half[k \in 0..(MAX_LEN - 1)] == IF k = 0 THEN size ELSE half[k - 1] \div 2
  IN  CHOOSE l \in 0..(MAX_LEN - 1) :
        /\ half[l] <= 1 \/ l = MAX_LEN - 1
        /\ \A k \in 0..(l - 1) : half[k] > 1

\* The nodes of list l, head first (at most one per two double words).
Nodes(h, l) ==
  LET at[k \in 0..(HeapSize \div DSIZE)] ==
        IF k = 0 THEN h.seg_list[l]
        ELSE LET before == at[k - 1]
             IN  IF before = NULL THEN NULL ELSE PREV_BLK(h, before)
      steps == {k \in DOMAIN at : at[k] # NULL}
  IN  [k \in 1..Cardinality(steps) |-> at[k - 1]]

\* Mutant: LIFO insertion, as if the order did not matter.
node_add_lifo(h, ptr, size) ==
  LET l == select_list(size)
      h1 == SET_NEXT(SET_PREV(h, ptr, h.seg_list[l]), ptr, NULL)
  IN  [SET_NEXT(h1, h.seg_list[l], ptr) EXCEPT !.seg_list[l] = ptr]

\* ptr enters list l between insert_loc, towards the head, and curr_list.
LinkNode(h, l, ptr, insert_loc, curr_list) ==
  LET h1 == SET_NEXT(SET_PREV(h, ptr, curr_list), ptr, insert_loc)
      h2 == SET_PREV(SET_NEXT(h1, curr_list, ptr), insert_loc, ptr)
  IN  IF insert_loc = NULL THEN [h2 EXCEPT !.seg_list[l] = ptr] ELSE h2

\* Before the first node that is not smaller.
node_add(h, ptr, size) ==
  LET l == select_list(size)
      nodes == Nodes(h, l)
      smaller == {k \in DOMAIN nodes : \A j \in 1..k : size > BlockSize(h, nodes[j])}
      n == Cardinality(smaller)
  IN  LinkNode(h, l, ptr, IF n = 0 THEN NULL ELSE nodes[n],
               IF n = Len(nodes) THEN NULL ELSE nodes[n + 1])

node_remove(h, ptr) ==
  LET l == select_list(BlockSize(h, ptr))
      larger == PREV_BLK(h, ptr)
      back == NEXT_BLK(h, ptr)
      h1 == SET_PREV(SET_NEXT(h, larger, back), back, larger)
  IN  IF back = NULL THEN [h1 EXCEPT !.seg_list[l] = larger] ELSE h1

-----------------------------------------------------------------------------
\* Coalescing, extending, fitting and placing: [heap, bp] results.

\* Mutant: the previous block is merged only when the next one is allocated.
coalesce_one_side(h, bp) ==
  LET prev == PREV_BLKP(h, bp)
      next == NEXT_BLKP(h, bp)
      size == BlockSize(h, bp)
  IN  IF ~IsFree(h, next) /\ ~IsFree(h, prev) THEN [heap |-> h, bp |-> bp]
      ELSE LET other == IF IsFree(h, next) THEN next ELSE prev
               first == IF IsFree(h, next) THEN bp ELSE prev
               sum == size + BlockSize(h, other)
               h1 == node_remove(node_remove(h, bp), other)
           IN  [heap |-> node_add(SetTags(h1, first, sum, 0), first, sum), bp |-> first]

\* Mutant: the merged block goes to the list of the size before the merge.
coalesce_old_class(h, bp) ==
  LET next == NEXT_BLKP(h, bp)
      merged == IF IsFree(h, next) THEN {next} ELSE {}
      first == IF IsFree(h, PREV_BLKP(h, bp)) THEN PREV_BLKP(h, bp) ELSE bp
      sum == BlockSize(h, bp) + (IF first = bp THEN 0 ELSE BlockSize(h, first))
               + (IF merged = {} THEN 0 ELSE BlockSize(h, next))
      h1 == node_remove(h, bp)
      h2 == IF first = bp THEN h1 ELSE node_remove(h1, first)
      h3 == IF merged = {} THEN h2 ELSE node_remove(h2, next)
  IN  IF first = bp /\ merged = {} THEN [heap |-> h, bp |-> bp]
      ELSE [heap |-> node_add(SetTags(h3, first, sum, 0), first, BlockSize(h, bp)),
            bp |-> first]

\* bp is free and in its list; its free neighbours join it.
coalesce(h, bp) ==
  LET prev == PREV_BLKP(h, bp)
      next == NEXT_BLKP(h, bp)
      SizeIfFree(b) == IF IsFree(h, b) THEN BlockSize(h, b) ELSE 0
      RemoveIfFree(g, b) == IF IsFree(h, b) THEN node_remove(g, b) ELSE g
      first == IF IsFree(h, prev) THEN prev ELSE bp
      size == BlockSize(h, bp) + SizeIfFree(prev) + SizeIfFree(next)
      h1 == RemoveIfFree(RemoveIfFree(node_remove(h, bp), prev), next)
  IN  IF IsFree(h, prev) \/ IsFree(h, next)
      THEN [heap |-> node_add(SetTags(h1, first, size, 0), first, size), bp |-> first]
      ELSE [heap |-> h, bp |-> bp]

\* The old break, or NULL for (void * )-1.
mem_sbrk(h, incr) ==
  IF h.mem_brk + incr > Limit THEN [heap |-> h, bp |-> NULL]
  ELSE [heap |-> [h EXCEPT !.mem_brk = h.mem_brk + incr], bp |-> h.mem_brk]

extend_heap(h, words) ==
  LET size == IF words % 2 = 1 THEN (words + 1) * WSIZE ELSE words * WSIZE
      got == mem_sbrk(h, size)
      bp == got.bp
      h1 == SetTags(got.heap, bp, size, 0)
      h2 == PUT(h1, HDRP(NEXT_BLKP(h1, bp)), 0 + 1)
  IN  IF bp = NULL THEN got ELSE coalesce(node_add(h2, bp, size), bp)

find_fit(h, asize) ==
  LET fits == {l \in select_list(asize)..(MAX_LEN - 1) :
                 \E bp \in Range(Nodes(h, l)) : asize <= BlockSize(h, bp)}
      l == CHOOSE x \in fits : \A y \in fits : x <= y
      nodes == Nodes(h, l)
      k == CHOOSE x \in DOMAIN nodes :
             /\ asize <= BlockSize(h, nodes[x])
             /\ \A y \in 1..(x - 1) : asize > BlockSize(h, nodes[y])
  IN  IF fits = {} THEN NULL ELSE nodes[k]

place(h, bp, asize) ==
  LET psize == BlockSize(h, bp)
      rem == psize - asize
      h1 == node_remove(h, bp)
      h2 == SetTags(h1, bp, asize, 1)
      rest == NEXT_BLKP(h2, bp)
  IN  IF rem <= 2 * DSIZE THEN SetTags(h1, bp, psize, 1)
      ELSE node_add(SetTags(h2, rest, rem, 0), rest, rem)

AdjustedSize(size) == IF size <= DSIZE THEN 2 * DSIZE ELSE align(size + ALIGNMENT)

\* malloc's end, once a block is found or none is left.
Placed(got, asize) ==
  IF got.bp = NULL THEN got
  ELSE [heap |-> place(got.heap, got.bp, asize), bp |-> got.bp]

\* malloc of a size that is not 0.
malloc(h, size) ==
  LET asize == AdjustedSize(size)
      fit == find_fit(h, asize)
  IN  Placed(IF fit # NULL THEN [heap |-> h, bp |-> fit]
             ELSE extend_heap(h, Bigger(asize, CHUNKSIZE) \div WSIZE), asize)

free(h, bp) ==
  LET size == BlockSize(h, bp)
      h1 == TAG_REMOVE(h, HDRP(NEXT_BLKP(h, bp)))
      h2 == PUT_TAG(h1, HDRP(bp), size)
      h3 == PUT_TAG(h2, FTRP(h2, bp), size)
  IN  coalesce(node_add(h3, bp, size), bp).heap

\* mem_reset_brk and mm_init: the words below the limit keep what they held.
mm_init(mem) ==
  LET h0 == [mem |-> mem, seg_list |-> [l \in 0..(MAX_LEN - 1) |-> NULL],
             mem_brk |-> HeapLo]
      got == mem_sbrk(h0, 4 * WSIZE)
      base == got.bp
      h1 == PUT(PUT(got.heap, base, 0), base + WSIZE, DSIZE + 1)
      h2 == PUT(PUT(h1, base + 2 * WSIZE, DSIZE + 1), base + 3 * WSIZE, 0 + 1)
  IN  extend_heap(h2, CHUNKSIZE \div WSIZE).heap

-----------------------------------------------------------------------------
FirstBlock == HeapLo + 4 * WSIZE

\* The blocks met by walking the headers from the prologue to the break.
Blocks(h) ==
  LET at[k \in 0..(HeapSize \div DSIZE)] ==
        IF k = 0 THEN FirstBlock
        ELSE LET b == at[k - 1]
             IN  IF b \notin WordAddress \/ b >= h.mem_brk \/ BlockSize(h, b) <= 0
                 THEN NULL ELSE NEXT_BLKP(h, b)
  IN  {b \in Range(at) : b \in WordAddress /\ b < h.mem_brk}

FreeBlocks(h) == {b \in Blocks(h) : IsFree(h, b)}

-----------------------------------------------------------------------------
\* The caller: mdriver.c replaying a trace.

Stored(n) == (n + WSIZE - 1) \div WSIZE

\* randomize_block: words from..to of the payload at p become d.
Fill(h, p, from, to, d) ==
  [h EXCEPT !.mem = [a \in DOMAIN h.mem |->
     IF p + WSIZE * (from - 1) <= a /\ a < p + WSIZE * to THEN d ELSE h.mem[a]]]

Init ==
  /\ heap = mm_init([a \in WordAddress |-> 0])
  /\ live = <<>>
  /\ fault = "none"

\* The caller's payloads once it has n bytes at p.
Holding(payloads, p, n) ==
  [q \in DOMAIN payloads \cup {p} |-> IF q = p THEN Stored(n) ELSE payloads[q]]

Malloc(n, d) ==
  /\ fault = "none"
  /\ n > 0
  /\ \E got \in {malloc(heap, n)} :
       IF got.bp = NULL THEN heap' = got.heap /\ UNCHANGED live
       ELSE /\ live' = Holding(live, got.bp, n)
            /\ heap' = Fill(got.heap, got.bp, 1, Stored(n), d)
  /\ UNCHANGED fault

Free(p) ==
  /\ fault = "none"
  /\ live' = Restrict(live, DOMAIN live \ {p})
  /\ heap' = free(heap, p)
  /\ UNCHANGED fault

\* A trace's "f -1": HDRP(NULL) is read.
FreeNull ==
  /\ fault = "none"
  /\ fault' = "free"
  /\ UNCHANGED <<heap, live>>

Copy(h, from, to, bytes) ==    \* memcpy
  [h EXCEPT !.mem = [a \in DOMAIN h.mem |->
     IF to <= a /\ a < to + bytes THEN h.mem[from + (a - to)] ELSE h.mem[a]]]

\* Mutant: the old block is freed first, to make room for the new one.
ReallocFreeFirst(p, n, d) ==
  LET got == malloc(free(heap, p), n)
  IN  /\ fault = "none"
      /\ n > 0 /\ got.bp # NULL
      /\ live' = Holding(Restrict(live, DOMAIN live \ {p}), got.bp, n)
      /\ heap' = Fill(Copy(got.heap, p, got.bp, BlockSize(heap, p) - ALIGNMENT),
                      got.bp, live[p] + 1, Stored(n), d)
      /\ UNCHANGED fault

\* realloc(p, n), n > 0 (with 0 it is free).  The new block is taken before the
\* old one is freed; when none is left memcpy writes to NULL.
Realloc(p, n, d) ==
  LET oldsize == BlockSize(heap, p) - ALIGNMENT
      asize == IF n <= DSIZE THEN 2 * DSIZE ELSE align(n)
      Keep == /\ oldsize >= asize
              /\ live' = [live EXCEPT ![p] = Stored(n)]
              /\ heap' = Fill(heap, p, live[p] + 1, Stored(n), d)
              /\ UNCHANGED fault
      Crash(got) == /\ got.bp = NULL
                    /\ fault' = "realloc"
                    /\ UNCHANGED <<heap, live>>
      Move(got) ==
              /\ got.bp # NULL
              /\ live' = Holding(Restrict(live, DOMAIN live \ {p}), got.bp, n)
              /\ heap' = Fill(free(Copy(got.heap, p, got.bp, oldsize), p),
                              got.bp, live[p] + 1, Stored(n), d)
              /\ UNCHANGED fault
  IN  /\ fault = "none"
      /\ n > 0
      /\ \/ Keep
         \/ /\ oldsize < asize
            /\ \E got \in {malloc(heap, n)} : Crash(got) \/ Move(got)

\* The next trace: mem_reset_brk(), mm_init().
Restart ==
  /\ fault = "none"
  /\ heap' = mm_init(heap.mem)
  /\ live' = <<>>
  /\ UNCHANGED fault

Next ==
  \/ \E n \in Request, d \in Data : Malloc(n, d)
  \/ \E p \in DOMAIN live : Free(p)
  \/ FreeNull
  \/ \E p \in DOMAIN live, n \in Request, d \in Data : Realloc(p, n, d)
  \/ Restart

Spec == Init /\ [][Next]_vars

-----------------------------------------------------------------------------
TypeOK ==
  /\ heap.mem_brk \in HeapLo..Limit
  /\ DOMAIN heap.mem = WordAddress
  /\ \A l \in 0..(MAX_LEN - 1) : heap.seg_list[l] \in WordAddress \cup {NULL}
  /\ DOMAIN live \subseteq WordAddress
  /\ fault \in {"none", "free", "realloc"}

\* The boundary tags tile the heap: every block has room for its tags and two
\* links, a footer equal to its header and no tag bit, the walk ends exactly at
\* the epilogue, and the allocated blocks are exactly those the caller holds.
\* No two neighbours are both free after any history of requests: every path
\* that frees or adds a block coalesces it, and the remainder of a split never
\* has a free neighbour (mm.c:257-363, 433-441).
HeapTiled ==
  /\ TypeOK
  /\ heap.mem[HeapLo + WSIZE] = DSIZE + 1
  /\ heap.mem[HeapLo + 2 * WSIZE] = DSIZE + 1
  /\ heap.mem[heap.mem_brk - WSIZE] = 1
  /\ \A b \in Blocks(heap) :
       /\ b % ALIGNMENT = 0
       /\ BlockSize(heap, b) % DSIZE = 0 /\ BlockSize(heap, b) >= 2 * DSIZE
       /\ NEXT_BLKP(heap, b) \in Blocks(heap) \cup {heap.mem_brk}
       /\ heap.mem[FTRP(heap, b)] = heap.mem[HDRP(b)]
       /\ GET_TAG(heap, HDRP(b)) = 0
  /\ Blocks(heap) \ FreeBlocks(heap) = DOMAIN live
  /\ \A b \in FreeBlocks(heap) : NEXT_BLKP(heap, b) \notin FreeBlocks(heap)

\* A free block is in the one list of its size class, a list holds nothing
\* else, its sizes ascend and its links agree both ways, although every list is
\* threaded through memory the caller had (mm.c:175-254).
FreeListsExact ==
  \A l \in 0..(MAX_LEN - 1) :
    LET nodes == Nodes(heap, l)
    IN  /\ Range(nodes) = {b \in FreeBlocks(heap) : select_list(BlockSize(heap, b)) = l}
        /\ \A i, j \in DOMAIN nodes : i < j =>
             nodes[i] # nodes[j] /\ BlockSize(heap, nodes[i]) <= BlockSize(heap, nodes[j])
        /\ \A i \in DOMAIN nodes :
             NEXT_BLK(heap, nodes[i]) = IF i = 1 THEN NULL ELSE nodes[i - 1]

\* First fit over ascending lists of ascending blocks is best fit: malloc takes
\* a smallest free block that is large enough; it extends the heap only when
\* none is, and fails only when the extension does not fit either
\* (mm.c:321-340, 398-428; "Best-fit search across size classes", README.md:39).
BestFit ==
  \A n \in Request \ {0} :
    LET fits == {b \in FreeBlocks(heap) : BlockSize(heap, b) >= AdjustedSize(n)}
    IN  \A got \in {malloc(heap, n)} :
        IF fits = {}
        THEN got.bp = NULL => heap.mem_brk + Bigger(AdjustedSize(n), CHUNKSIZE) > Limit
        ELSE /\ got.heap.mem_brk = heap.mem_brk
             /\ got.bp \in fits
             /\ \A c \in fits : BlockSize(heap, got.bp) <= BlockSize(heap, c)

Content == [p \in DOMAIN live |-> [i \in 1..live[p] |-> heap.mem[p + WSIZE * (i - 1)]]]

Alloc == INSTANCE Allocator WITH
  Align <- ALIGNMENT, Word <- WSIZE, content <- Content,
  lo <- HeapLo, hi <- heap.mem_brk

\* mm.c implements the allocator of mm.h: payloads aligned, inside the heap,
\* disjoint, and with the content their owner gave them, whatever is
\* allocated, moved or freed around them.
ImplementsAllocator == Alloc!AllocSpec
=============================================================================
