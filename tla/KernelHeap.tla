----------------------------- MODULE KernelHeap -----------------------------
(***************************************************************************)
(* The heap of the kernel: kernel_extra.c over the fixed block of memory   *)
(* that kernel_malloc.c hands out, the boot-time test mem_extra_test and   *)
(* any callers after it.  Its blocks and its 61 lists are those of         *)
(* BlockHeap.  What it has to say goes to the console, which user programs *)
(* print on as well.                                                       *)
(***************************************************************************)
EXTENDS Console, BlockHeap

CONSTANTS Request,   \* the sizes any caller asks for, in bytes
          TestSize,  \* the three sizes mem_extra_test asks for
          Data,      \* what callers store
          Message    \* the texts of kernel_malloc.c, by name

Pattern == CHOOSE d \in Data : TRUE     \* 0xAA

ASSUME KernelHeapAssumption ==
  /\ Request \subseteq Nat
  /\ TestSize \in [1..3 -> Nat \ {0}]
  /\ TestSize[3] = TestSize[1]
  /\ Data # {} /\ "own" \notin Data
  /\ Message \in [{"too much", "0/40", "40/40", "buggy", "corrupted"} -> Seq(Char)]

VARIABLES heap,    \* [blk, free, brk]: block sizes and flags, free lists, break
          memory,  \* each 16-byte unit: a caller's data, or "own" for the heap's
          live,    \* the callers' payloads: [bytes, stored] by address
          ptr,     \* the three pointers of mem_extra_test
          pc       \* where the kernel is; "ready" after mem_extra_test

vars == <<heap, memory, live, ptr, pc, consoleVars>>

Units == {HeapMemory + DSIZE * i : i \in 0..(HeapMemorySize \div DSIZE - 1)}

-----------------------------------------------------------------------------
\* Memory.  What is in a block that is free, or has just been handed out, is not
\* told apart from the tags and links around and in it.

Overwritten(m, first, last, d) ==
  [u \in DOMAIN m |-> IF first <= u /\ u <= last THEN d ELSE m[u]]

Owned(m, b, size) == Overwritten(m, b - DSIZE, b + size - DSIZE, "own")
UnitsOf(n) == (n + DSIZE - 1) \div DSIZE
Stored(m, b, n, d) == Overwritten(m, b, b + DSIZE * (UnitsOf(n) - 1), d)
Bytes(m, b, n) == [i \in 1..UnitsOf(n) |-> m[b + DSIZE * (i - 1)]]

-----------------------------------------------------------------------------
Served(n) == malloc(Grown(heap, AdjustedSize(n)), AdjustedSize(n))

\* A caller gets n bytes and stores d in all of them, or nothing yet if d is
\* "own".
Allocate(n, d, got) ==
  /\ heap' = got.heap
  /\ memory' = Stored(Owned(memory, got.bp, Size(got.heap, got.bp)), got.bp, n, d)
  /\ live' = [b \in DOMAIN live \cup {got.bp} |->
                IF b = got.bp THEN [bytes |-> n, stored |-> d # "own"] ELSE live[b]]

Release(b) ==
  /\ heap' = free(heap, b)
  /\ memory' = Owned(memory, b, Size(heap, b))
  /\ live' = Restrict(live, DOMAIN live \ {b})

\* kernel_start up to kernel_init: fb_init and mem_init.
kernel_start ==
  /\ pc = "boot"
  /\ fb_init
  /\ pc' = IF console'.fault THEN "fault" ELSE "mm_init"
  /\ UNCHANGED <<heap, memory, live, ptr>>

mm_init ==
  /\ pc = "mm_init"
  /\ heap' = extend_heap([heap EXCEPT !.brk = @ + 2 * DSIZE], CHUNKSIZE)
  /\ pc' = "malloc1"
  /\ UNCHANGED <<memory, live, ptr, consoleVars>>

\* p1 is filled with 0xAA; the test ends without the first block and hangs
\* without another.
TestMalloc(i, here, next) ==
  /\ pc = here
  /\ IF OutOfMemory(heap, AdjustedSize(TestSize[i]))
     THEN /\ printf(Message["too much"] \o Message[IF i = 1 THEN "0/40" ELSE "buggy"])
          /\ pc' = IF i = 1 THEN "ready" ELSE "hang"
          /\ UNCHANGED <<heap, memory, live, ptr>>
     ELSE \E got \in {Served(TestSize[i])} :
            /\ Allocate(TestSize[i], IF i = 1 THEN Pattern ELSE "own", got)
            /\ ptr' = [ptr EXCEPT ![i] = got.bp]
            /\ pc' = next
            /\ UNCHANGED consoleVars

TestFree(i, here, next) ==
  /\ pc = here
  /\ Release(ptr[i])
  /\ pc' = next
  /\ IF next = "ready" THEN printf(Message["40/40"]) ELSE UNCHANGED consoleVars
  /\ UNCHANGED ptr

TestCopy ==    \* memcpy(p3, p1, 1024)
  /\ pc = "copy"
  /\ memory' = [u \in DOMAIN memory |->
       IF ptr[3] <= u /\ u < ptr[3] + TestSize[1] THEN memory[ptr[1] + (u - ptr[3])] ELSE memory[u]]
  /\ live' = [live EXCEPT ![ptr[3]].stored = TRUE]
  /\ pc' = "free1"
  /\ UNCHANGED <<heap, ptr, consoleVars>>

TestCheck ==
  /\ pc = "check"
  /\ IF \A i \in 1..UnitsOf(TestSize[1]) : Bytes(memory, ptr[3], TestSize[1])[i] = Pattern
     THEN pc' = "free3" /\ UNCHANGED consoleVars
     ELSE pc' = "hang" /\ printf(Message["corrupted"])
  /\ UNCHANGED <<heap, memory, live, ptr>>

mem_extra_test ==
  \/ mm_init
  \/ TestMalloc(1, "malloc1", "malloc2") \/ TestMalloc(2, "malloc2", "malloc3")
  \/ TestMalloc(3, "malloc3", "free2")
  \/ TestFree(2, "free2", "copy") \/ TestCopy \/ TestFree(1, "free1", "check")
  \/ TestCheck \/ TestFree(3, "free3", "ready")

\* Any kernel code that allocates, and the user's system call 1.
Malloc(n, d) ==
  /\ pc = "ready" /\ n > 0
  /\ IF OutOfMemory(heap, AdjustedSize(n))
     THEN printf(Message["too much"]) /\ UNCHANGED <<heap, memory, live>>
     ELSE \E got \in {Served(n)} : Allocate(n, d, got) /\ UNCHANGED consoleVars
  /\ UNCHANGED <<ptr, pc>>

Free(b) == pc = "ready" /\ Release(b) /\ UNCHANGED <<ptr, pc, consoleVars>>

Say(char) == pc = "ready" /\ printf(<<char>>) /\ UNCHANGED <<heap, memory, live, ptr, pc>>

Init ==
  /\ ConsoleInit
  /\ heap = [blk |-> <<>>, free |-> <<>>, brk |-> HeapMemory]    \* mem_init
  /\ memory = [u \in Units |-> "own"]
  /\ live = <<>>
  /\ ptr = [i \in 1..3 |-> NULL]
  /\ pc = "boot"

Next ==
  \/ kernel_start
  \/ mem_extra_test
  \/ \E n \in Request, d \in Data : Malloc(n, d)
  \/ \E b \in DOMAIN live : Free(b)
  \/ \E char \in Char : Say(char)

Spec == Init /\ [][Next]_vars

-----------------------------------------------------------------------------
\* From the first chunk on the blocks follow each other from the prologue to the
\* break, each with room for its tags and links; no two neighbours are free; the
\* lists hold each free block once, sizes ascending; no caller's store has
\* reached a tag or a free block; and mem_extra_test, which stops the kernel when
\* it finds otherwise, never does (kernel_extra.c:120-307, kernel_malloc.c:45-76).
BlocksTiled ==
  pc \notin {"boot", "mm_init", "fault"} =>
    /\ FirstBlock \in DOMAIN heap.blk
    /\ \A b \in DOMAIN heap.blk :
         /\ b >= FirstBlock /\ b % ALIGNMENT = 0
         /\ Size(heap, b) % DSIZE = 0 /\ Size(heap, b) >= 2 * DSIZE
         /\ End(heap, b) \in DOMAIN heap.blk \cup {heap.brk}
         /\ b \in FreeBlocks(heap) => End(heap, b) \notin FreeBlocks(heap)
         /\ \A u \in Units : \/ u = End(heap, b) - DSIZE
                             \/ b \in FreeBlocks(heap) /\ b <= u /\ u < End(heap, b)
                             => memory[u] = "own"
    /\ heap.brk <= HeapMemoryEnd /\ pc # "hang"
    /\ DOMAIN heap.blk \ FreeBlocks(heap) = DOMAIN live
    /\ Range(heap.free) = FreeBlocks(heap) /\ Len(heap.free) = Cardinality(FreeBlocks(heap))
    /\ \A i, j \in DOMAIN heap.free :
         i < j => Size(heap, heap.free[i]) <= Size(heap, heap.free[j])

Content ==
  [b \in {c \in DOMAIN live : live[c].stored} |-> Bytes(memory, b, live[b].bytes)]

Alloc == INSTANCE Allocator WITH
  Align <- ALIGNMENT, Word <- DSIZE, content <- Content,
  lo <- HeapMemory, hi <- heap.brk, Request <- Request \cup {TestSize[i] : i \in 1..3}

\* The kernel's heap implements the same allocator as mm.c: aligned, disjoint
\* payloads inside the memory, their content untouched by anything but their
\* owner (kernel_extra.c:337-376).
ImplementsAllocator == Alloc!AllocSpec
=============================================================================
