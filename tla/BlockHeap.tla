----------------------------- MODULE BlockHeap ------------------------------
(***************************************************************************)
(* A heap of blocks, as kernel_extra.c keeps it: a block is known by its   *)
(* payload's address; its tags and the links of the segregated lists are   *)
(* modelled by what they describe.  A heap is [blk, free, brk]: blk is     *)
(* what the headers say, free the concatenation of the lists, whose        *)
(* classes ascend as the blocks within each do, and brk the break.  mm.c   *)
(* keeps the same heap word by word (Heap).                                *)
(***************************************************************************)
EXTENDS Integers, Sequences, FiniteSets, SequencesExt

CONSTANTS HeapMemory,      \* where the memory starts
          HeapMemorySize,  \* KERNEL_HEAP_SIZE
          CHUNKSIZE        \* smallest extension of the heap

ALIGNMENT == 16
DSIZE == 16
NULL == 0
HeapMemoryEnd == HeapMemory + HeapMemorySize
FirstBlock == HeapMemory + 2 * DSIZE    \* after the padding and the prologue

ASSUME BlockHeapAssumption ==
  /\ HeapMemory \in Nat \ {0} /\ HeapMemory % ALIGNMENT = 0
  /\ HeapMemorySize \in Nat /\ HeapMemorySize % DSIZE = 0
  /\ CHUNKSIZE \in Nat /\ CHUNKSIZE % DSIZE = 0 /\ CHUNKSIZE > 2 * DSIZE
  /\ HeapMemorySize >= CHUNKSIZE + 2 * DSIZE

-----------------------------------------------------------------------------
\* Blocks and free lists.

FreeBlocks(h) == {b \in DOMAIN h.blk : ~h.blk[b].alloc}
Size(h, b) == h.blk[b].size
End(h, b) == b + h.blk[b].size

\* Before the first block of the lists that is not smaller.
node_add(h, b) ==
  [h EXCEPT !.free =
     InsertAt(@, Cardinality({i \in DOMAIN @ : Size(h, @[i]) < Size(h, b)}) + 1, b)]

node_remove(h, b) ==
  [h EXCEPT !.free = RemoveAt(@, CHOOSE i \in DOMAIN @ : @[i] = b)]

\* The free block that ends where b starts, the one that starts where b ends.
Before(h, b) == {c \in FreeBlocks(h) : End(h, c) = b}
After(h, b) == {c \in FreeBlocks(h) : c = End(h, b)}

Drop(h, blocks) == IF blocks = {} THEN h ELSE node_remove(h, CHOOSE c \in blocks : TRUE)

\* The first of the neighbours "near" gets their sizes.
Merged(h, near) ==
  [h EXCEPT !.blk =
     [b \in (DOMAIN @ \ near) \cup {Min(near)} |->
        IF b = Min(near)
        THEN [size |-> End(h, Max(near)) - Min(near), alloc |-> FALSE]
        ELSE @[b]]]

\* Mutant: only the block before is looked at.
coalesce_back(h, b) ==
  LET near == {b} \cup Before(h, b)
  IN  IF near = {b} THEN h
      ELSE node_add(Merged(Drop(node_remove(h, b), Before(h, b)), near), Min(near))

coalesce(h, b) ==
  LET near == {b} \cup Before(h, b) \cup After(h, b)
  IN  IF near = {b} THEN h
      ELSE node_add(Merged(Drop(Drop(node_remove(h, b), Before(h, b)), After(h, b)), near),
                    Min(near))

WithBlock(h, b, size, alloc) ==
  [h EXCEPT !.blk =
     [c \in DOMAIN @ \cup {b} |-> IF c = b THEN [size |-> size, alloc |-> alloc] ELSE @[c]]]

\* mem_sbrk refuses to pass the end of the memory.
Refused(h, incr) == h.brk + incr > HeapMemoryEnd

\* The new block starts where the epilogue's header was.
extend_heap(h, size) ==
  coalesce(node_add(WithBlock([h EXCEPT !.brk = @ + size], h.brk, size, FALSE), h.brk), h.brk)

place(h, b, asize) ==
  IF Size(h, b) - asize <= 2 * DSIZE
  THEN WithBlock(node_remove(h, b), b, Size(h, b), TRUE)
  ELSE node_add(WithBlock(WithBlock(node_remove(h, b), b, asize, TRUE),
                          b + asize, Size(h, b) - asize, FALSE), b + asize)

\* Mutant: the two tags are forgotten.
AdjustedSize_payload(n) ==
  IF n < DSIZE THEN 2 * DSIZE ELSE ALIGNMENT * ((n + ALIGNMENT - 1) \div ALIGNMENT)

AdjustedSize(n) ==
  IF n <= DSIZE THEN 2 * DSIZE
  ELSE ALIGNMENT * ((n + ALIGNMENT + ALIGNMENT - 1) \div ALIGNMENT)

Larger(x, y) == IF x > y THEN x ELSE y

\* find_fit: the lists ascend, so the first block that is large enough.
Fits(h, asize) == {i \in DOMAIN h.free : Size(h, h.free[i]) >= asize}

\* Nothing fits and the extension is refused.
OutOfMemory(h, asize) == Fits(h, asize) = {} /\ Refused(h, Larger(asize, CHUNKSIZE))

Grown(h, asize) ==
  IF Fits(h, asize) = {} THEN extend_heap(h, Larger(asize, CHUNKSIZE)) ELSE h

Fit(h, asize) == h.free[Min(Fits(h, asize))]

\* malloc of n > 0 bytes, one block to be had: the heap and the block.
malloc(h, asize) == [heap |-> place(h, Fit(h, asize), asize), bp |-> Fit(h, asize)]

free(h, b) == coalesce(node_add(WithBlock(h, b, Size(h, b), FALSE), b), b)
=============================================================================
