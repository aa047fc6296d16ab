# TLA+ models of the CMPSC 473 projects

The repository holds three programs: a dynamic memory allocator with the driver
that tests it (`src/p1-memory-management`), a small kernel that builds page
tables and enters user space (`src/p2-page-tables`), and bounded channels for
threads with two programs that stress them (`src/p3-concurrent-channels`).
This directory models them in TLA+, checks the models with TLC on small
instances, and proves with TLAPS, for any number of threads, channels and
slots, that the channels are the queues that the two programs which use them
rely on, for page tables of any size that kernel and
user are kept apart, and for any memory and any requests that both allocators,
the one of `mm.c` down to its words, are the allocator their callers expect.

Contents: [the system](#1-the-system), [the modules](#2-the-modules),
[the runs](#3-the-runs-and-what-they-show), [bounds](#4-bounds),
[fairness and deadlock](#5-fairness-and-deadlock), [proofs](#6-proofs),
[where code and documents differ](#7-where-the-code-and-its-documents-differ),
[what is not modelled](#8-what-is-not-modelled), [plan](#9-plan).

## 1. The system

### Channels (P3)

A channel is a bounded queue of pointers for threads. Its parts:

| part | file | state | operations |
|---|---|---|---|
| message buffer | `buffer.c` | array, `capacity`, `size`, `next` | create, add, remove |
| semaphore list | `linked_list.c` | doubly linked nodes, `head`, `count` | find, insert at the head, remove, foreach (posts every semaphore) |
| channel | `channel.c` | a buffer, semaphores `available`, `used` and `mutex`, flag `closed`, lists `send_list` and `recv_list`, each with a pthread mutex | create, send, receive (blocking or not), close, destroy, select |

They interact through shared memory only. A sender takes a permit from
`available`, takes `mutex`, adds, gives `mutex` back, posts `used`, and then
wakes every select on `send_list`; a receiver does the same the other way
round. A close sets `closed`, posts one permit of each kind and wakes both
lists; every thread that wakes up and finds the channel closed passes its
permit on, so that one post wakes all. A select registers a local semaphore on
a list of each channel it names, tries each entry as a non-blocking call, sleeps
on the semaphore when all would block, and unregisters before it returns.

What is hard here: nothing above is atomic. Between a permit and the mutex the
channel may be closed; between a message and its notification a select may scan
and fall asleep; one early return that keeps the mutex or a permit stops or
shrinks the channel for good; a semaphore left on a list is a pointer into a
stack frame that is gone.

Two programs use the channels:

* `stress_send_recv.c`: a ring of workers passes messages on; the main thread
  feeds them, starts them, stops them after a sleep, collects every message,
  tells the workers to stop and tears everything down. Hard: blocking sends
  around a nearly full ring, start messages and messages in one queue, a flag
  read before a blocking send and acted on after it.
* `stress.c`: routers compute shortest distances by sending each other pointers
  to their distance vectors. A router has four vectors and rewrites the oldest
  one without asking whether anybody still reads it; the main thread decides by
  two rounds of questions whether all have converged, and reads its answers
  through such pointers. Hard: stale reads, a verdict that comes too early,
  cycles of full one-slot channels.

### Allocator (P1)

| part | file | state | operations |
|---|---|---|---|
| allocator | `mm.c` | heap words (boundary tags, links in free payloads), `seg_list[MAX_LEN]` | `mm_init`, `malloc`, `free`, `realloc`, `calloc` |
| simulated memory | `memlib.c` | bytes, `mem_brk` | `mem_sbrk`, `mem_reset_brk`, `mem_memcpy`, ... |
| splay tree | `stree.c` | nodes with parent links, `root`, `node_count` | insert, find, find nearest, remove |
| driver | `mdriver.c` | a list of ranges linked in address order and found through the tree, the trace, what was written into each payload | `add_range`, `remove_range`, `randomize_block`, `check_index`, `eval_mm_valid`, `eval_mm_util` |

All sequential. Hard: tags, links and the caller's data live in the same words,
which are never cleared; the right thing to do depends on the neighbours that
earlier requests left; `realloc` is a malloc, a copy and a free; the tree's
rotations change up to six pointers; the driver writes and reads back only the
two ends of a payload, whose place changes with its size.

### Kernel (P2)

| part | file | state | operations |
|---|---|---|---|
| page tables | `kernel_code.c` | tables in physical memory, `page_table`, `user_stack`, `user_program` | `kernel_init` |
| system calls | `kernel_asm.S`, `kernel_code.c`, `syscall.h` | kernel stack, `user_stack`, registers | `user_jump`, `syscall_entry_asm`, `syscall_entry` |
| kernel heap | `kernel_malloc.c`, `kernel_extra.c` | blocks and lists like those of `mm.c`, in a fixed block | `mem_init`, `mem_sbrk`, `mm_init`, `malloc`, `free`, the boot-time `mem_extra_test` |
| console | `fb.c` | cursor, framebuffer | `fb_init`, `fb_output`, `fb_scrollup` |
| start, formatting | `kernel_entry.S`, `kernel.c`, `printf.c`, `string.c` | | |

One processor, no interrupts while in the kernel. Hard: the tables are built in
memory nobody has cleared, and one entry that is wrong or was forgotten opens the
kernel to the user or loses it a page, which shows only at an access; the user's
stack pointer passes through a global, and registers through the kernel stack,
around C code that may change every one of them. The console wraps a line only when
the next character comes and scrolls by copying pixels; the kernel's heap runs
for as long as the machine does, and its test prints on the same console.

### What makes each part correct

| part | properties |
|---|---|
| channel | a bounded first-in first-out queue whose calls take effect at one instant, and are refused only when all there is belongs to other calls; permits conserved; close final and waking everybody; no lost wakeup; nobody sleeps beside work |
| buffer, list | implement a sequence |
| ring program | no message lost or duplicated, its assertions hold, it ends, nothing is left over |
| routers | no vector changes while it may be read; "done" is final and correct; the program ends |
| allocator | the heap is tiled, merged, indexed exactly by its lists; payloads are aligned, disjoint, keep their content; best fit |
| splay tree | a search tree that answers as an ordered map |
| range set | the tree holds the payloads, linked to their neighbours; the list reaches them all unless one came below the others; overlaps from below reported, and only overlaps |
| driver | a changed byte is found where the checks look, which is along the list; an allocator that changed nothing is not accused |
| kernel heap | blocks tile the heap, free neighbours merged, lists exact; the boot-time test never stops the kernel; the same allocator as `mm.c` |
| console | every pixel shows the last lines printed |
| page tables | the kernel has all memory at its own addresses, the user its two pages and nothing else, for good |
| system calls | the caller gets back everything but the result, unless the string it names runs into an unmapped page |

## 2. The modules

| module | models | role |
|---|---|---|
| `ChannelTypes` | `channel.h` | statuses, calls and outcomes |
| `ChannelSpec` | what `channel.h` announces, as far as the code keeps it | abstract: queues; each call begins, is let in or refused, takes effect at one instant and ends |
| `Channels` | `channel.c` | detailed; implements `ChannelSpec` |
| `BoundedFifo`, `RingBuffer` | `buffer.h`, `buffer.c` | abstract and detailed |
| `SemList`, `LinkedList` | what `channel.c` uses of a list, `linked_list.c` | abstract and detailed |
| `StressRing` | `stress_send_recv.c` | over channels as `ChannelSpec` has them |
| `Router` | `stress.c` | the same, one slot per channel |
| `Allocator`, `Heap` | what `mdriver.c` checks, `mm.c` and `memlib.c` | abstract and detailed |
| `OrderedMap`, `SplayTree` | `stree.h`, `stree.c` | abstract and detailed |
| `RangeList` | the walk along the driver's list | an operator for the two that follow |
| `RangeSet` | the range set of `mdriver.c` | extends `SplayTree` |
| `Driver` | the requests, payload checks, list of ranges and totals of `mdriver.c` | |
| `Kernel` | `kernel_code.c`, `kernel_asm.S`, `syscall.h`, the start of `kernel.c` | page tables, the processor's walk, a user program that stores, pushes and calls at will |
| `Console` | `fb.c` | |
| `BlockHeap` | `kernel_extra.c`, and `mem_sbrk` of `kernel_malloc.c` | what its functions do to a heap of blocks, as operators; no state of its own |
| `KernelHeap` | `kernel_malloc.c`, the callers of `kernel_extra.c`, the calls of `kernel_start` up to `kernel_init` | extends `BlockHeap` and `Console`, on which its messages appear; implements `Allocator` |
| `DataStructuresProof` | | theorems about `RingBuffer` and `LinkedList` |
| `ChannelsProof` | | theorems about `Channels`: types; locks, permits and closing; selects; and, on top of them, the refinement |
| `DriverProof` | | theorems about `SplayTree`, about `RangeSet`, resting on those, and about `Driver` |
| `BlockHeapProof` | | lemmas about `BlockHeap`, for the two proofs that follow |
| `HeapProof` | | theorems about `Heap`, whose words represent a heap of `BlockHeap` |
| `KernelProof` | | theorems about `Kernel`, and about `KernelHeap` and its console |
| `StressRingProof`, `RouterProof` | | theorems about `StressRing`, `Router` |
| `MC...` | | instances for TLC; `MCRouter` and `MCRecycle` also restrict scheduling; `MCRefused` adds what a call saw to `Channels`; `MCDataStructures`, `MCDriver` and `MCKernel` hold independent parts, one of which each behaviour is about |

**Channels.** A thread's program counter `pc[t]` names the next block of
`channel.c` between two synchronisation operations; every block is one action,
with everything it changes, and is named after it: `SendTake` (the wait on
`available`), `SendMiss...` (the path after a failed `sem_trywait`), `SendLock`,
`SendClosed`, `SendGiveBack`, `SendAdd`, `SendPost`, `SendNotifyLock`,
`SendNotify`, and so on for receive, close, select and destroy. The body of a
critical section is one action with the post that ends it: nobody else can see
its inside. A select runs the same actions for its entry `idx[t]`; `Return`
holds what happens when the inner call returns (unregister, next entry, wait).
`buf` is the sequence that `RingBuffer` shows the array to be, and `list` the
sequence that `LinkedList` shows the nodes to be. The client may make any call
of `Menu[t]`; it obeys the contract of `channel.h:97` (destroy only after close
and when nobody else uses the channel), which the two programs and the tests
obey. A NULL handle is an action of its own. A thread in `Failing` may find no
memory in `list_insert`, which says nothing: its select goes on without being
registered there, and the later removal finds nothing.

**Refinement.** A call is let in (`granted`) when it takes its permit, takes effect
in `SendAdd`, `RecvRemove` or `CloseSet`, and `owes` what it has added or emptied
until it posts the other semaphore; `absPhase` and `absOutcome` say so. A failed
`sem_trywait` is the instant at which a call is refused, and the look at `closed`
that follows decides between WOULDBLOCK and CLOSED_ERROR. `ChannelSpec` allows a
refusal at one kind of instant only: the messages, the sends let in and the
receives that owe a place make up the capacity, or the receives let in and the
sends that owe a message make up the messages (`NothingFor`). Calls that are merely
in progress excuse nothing. This is exactly as much as the semaphores give, and
less than `channel.h` says, which asks for a full or an empty channel: what is
missing is not hidden in the refinement but stated by `RefusedOnlyWhenEmpty` and
found violated (`channels_refused`, section 7).

**StressRing and Router** do not instantiate `Channels`: their calls only see
the queue, and `Channels` is shown to implement it. A blocking call is an action
enabled when the queue lets it through. In `Router` a scan by `channel_select`
is two actions, because a message may arrive between the look at the router's
own channel and the looks at its neighbors'. A vector is identified by its owner
and its slot, so that a pointer stays valid while what it points to changes; the
order in which the send entries stand in `select_list` is abstracted to a set.

**Heap.** `heap.mem` is an array of 8-byte words; every macro of `mm.c` is an
operator on it. A NULL dereference sets `fault` and stops the program. The
caller fills each payload with a word that, read as a tag, would be an allocated
block of absurd size. `Restart` is the next trace: the break goes back, the words
stay. `Blocks` (the walk over headers) and `Nodes` (the walk along a list) are
used by the properties, `Nodes` also by `node_add` and `find_fit`. `select_list` halves
the size as the loop of the code does; no block has size 0, which is the code's -1.

**RangeSet** plays `add_range` and `remove_range` against an allocator that may
return any address, since the question is whether the driver notices.
A payload outside the heap or off its alignment is reported like an overlap.
`SecondPass` is the second call of `eval_mm_valid` on the same trace. `OnList` is
what the walk from `ranges->list` reaches; `cut` records that a payload has been
recorded below all the others, which makes it the list and takes the ranges above
it off (`mdriver.c:709`, `729-735`): from then on they are found in the tree only.

**Driver** is the other half of the same loop: a payload is a function from its
positions to the bytes in it, each request of a trace is one action with the
checks that precede it, the allocator's answer and the checks that follow, and
`Spoil` is the allocator changing a byte that is not its own. `spoiled` and
`overlooked` record what it did and what a check went past; the driver never
reads them. Of a payload's address only its place among the others matters here:
an allocated payload comes above any of the live ones or below them all, and
`RangeAdded` and `RangeRemoved` link it as `add_range` and `remove_range` do. The
expensive check looks at the payloads that `ranges->list` leads to (`Walked`),
not at the live ones (`Due`); `lowered` records that the two may differ, and the
field `cut` of what was overlooked that they did. In the mode `util` the same actions keep the totals of `eval_mm_util`
instead; the heap is then that of an ideal allocator, which is what the totals
are to be compared with.

**Console and KernelHeap.** A pixel shows a piece of a glyph, by the glyph's name
and the piece's place in it, or is dark; `lines` is what a reader expects to see
and is not read by the code. `fb_output` takes one character, and a user program
may print any. The heap is modelled by blocks, their sizes and flags, and by one
sequence that concatenates the lists of all classes (class and order within it both
ascend with the size); `Heap` models the same kind of list word by word. `memory`
is what each double word holds, a caller's data or the heap's own, so that a store
past a payload would be seen. `mem_extra_test` is a sequence of actions that stops
the kernel at the first disagreement, as the code does.

**Kernel.** Physical memory is a function from words to table entries, since a
word of memory is what the walk reads as one; the user's stores write entries
too. `kernel_init` is one action, as nothing can interrupt it: it applies the
code's loops, one operator each (`PTE`, `PDE`, `PDPE`, `PML4E`, `Cleared`,
`MapUser`), to memory with arbitrary contents. The fields of `struct pte` that
are always cleared are one field, `other`, which makes a page unusable if it is
not 0. `Walk` is the processor's and knows nothing of how tables are built: it
goes through four levels from `cr3`. The user program stores to any page, pushes
and makes system calls, in any order; what it computes, and instructions that set
the stack pointer otherwise, are left out. An access the tables do not allow
stops the machine, which has no fault handler. A system call is three actions
along `syscall_entry_asm`: switch stacks and push, call (every scratch register
changes), pop and return. Its argument `a1` is any string of the constant `String`,
known by its first and last byte and wherever it lies: the code does not look at
the pointer, and `printf` stops the kernel at the first page that is not mapped.

Each module's mutants, definitions whose comment begins with "Mutant", are the
bugs a property is meant to notice: a dropped guard, a missing post, an
off-by-one. They are not part of any specification.

## 3. The runs and what they show

Each `.cfg` is checked with `tlc -config X.cfg M`. States are distinct states.

| run | configuration | shows | states |
|---|---|---|---|
| `channels_plain` | `Plain.cfg`, `MCChannels` | three threads, every call but select: type, mutex, permits, room, close is final, the wake-up chain, and that each step is a step of the queue of `ChannelSpec` | 766,980 |
| `channels_select` | `Select.cfg`, `MCChannels` | a select over two channels, one naming a channel three times, against senders, receivers, a second select that may not get registered, a closer and a destroyer: no lost wakeup, lists hold the live selects only, the select acts once and reports the entry it acted on | 1,151,839 |
| `channels_live` | `Live.cfg`, `MCChannels` | under fairness: close returns every call, nobody sleeps beside work, two selects can serve each other, one of them perhaps without its registration | 122,406 |
| `channels_refused` | `Refused.cfg`, `MCRefused` | two threads on one channel of two slots: a receive is refused beside a message sent before it began; a **violation** | about 1,200 |
| `data_structures` | `DataStructures.cfg`, `MCDataStructures` | each for itself: the wrapping array implements the queue from any `next` and any initial contents; any history of inserts (malloc may fail), removals and walks keeps the list's links and implements the sequence; every reachable tree over five keys is a search tree and answers as a map | 74,685 |
| `stress_ring` | `StressRing.cfg` | three workers, five messages for six places: conservation, assertions, clean end, termination | 160,422 |
| `router` | `Router.cfg` | four routers: buffers are not rewritten too early, the verdict is final and correct, termination | 539,952 |
| `router_recycled` | `Recycle.cfg` | a schedule on which the epoch check is fooled; a **violation** | 148 |
| `heap` | `Heap.cfg` | every history of requests on a heap of two chunks: tiling, merging, exact lists, best fit, and the allocator the driver expects | 59,201 |
| `trace_driver` | `Driver.cfg`, `MCDriver` | the range set: neighbours in the tree are linked and the list reaches all of them unless a payload came below the others, no false alarm in either pass, lower overlaps found; the payload checks: only an allocator that changed a byte is accused, what is overlooked lies where the checks do not look or was cut off the list, and the totals are right | 1,493,380 |
| `range_overlap` | `RangeOverlap.cfg`, `MCDriver` | a payload that starts below every recorded one is accepted although it overlaps; a **violation** | about 800 |
| `kernel` | `Kernel.cfg`, `MCKernel` | over tables built in dirty memory, stores, pushes and system calls with mapped and unmapped strings: both address spaces are right and stay so, a system call gives back everything but the result, or stops on an unmapped string; boot, the test of the heap, then any requests and any printing: blocks, lists and memory agree, the test never stops the kernel, the heap is the allocator of `Allocator`, the screen shows the last lines | 155,538 |

The properties, beyond the type invariants:

* `MutexIsALock`: on every path, early returns included, the mutex is up exactly
  when nobody is between its wait and its post.
* `PermitsConserved`: while a channel is open, free permits, permits in hands and
  messages add up to the capacity; the same for messages and their permits.
* `PermitMeansRoom`: so the OTHER_ERROR exits, which would leak a permit, are
  never taken.
* `ClosedIsFrozen`: a call that took its permit before the close changes nothing
  after it.
* `DominoAlive` (safety) and `CloseReturnsEveryCall` (liveness): the chain by
  which one post wakes everybody never breaks.
* `NoLostWakeup` (safety) and `NobodySleepsBesideWork` (liveness): a select or a
  thread blocked beside something to do is owed a notification, and gets on.
* `ListsHoldLiveSelects`: once per select and list even for a repeated channel.
* `RefusedOnlyWhenEmpty` (violated): a receive that reports WOULDBLOCK found the
  channel empty at some instant of its call, messages still being sent left aside.
* `ImplementsChannelSpec`, `ImplementsFifo`, `ImplementsSemList`,
  `ImplementsAllocator`, `ImplementsOrderedMap`: refinements.
* `EachMessageOnce` (which includes the program's two assertions),
  `QuietAtCleanup`, `Terminates`: the ring.
* `NobodyReadsNext`: four vectors are just enough for one-slot channels (three
  are not: that is its mutant). `VerdictIsFinal`, `VerdictReadsCurrent`: two
  rounds of questions suffice where the epoch check is not fooled.
  `AssertionsHold`: the programs' own assertions.
* `HeapTiled` (free neighbours merged included), `FreeListsExact`, `BestFit`: the
  heap's structure, none of which the driver can see except by luck.
* `SearchTree`, `NoFalseAlarm`, `LowerOverlapFound`; `RangesLinked`, which says of
  the list that it reaches every range as long as none was recorded below the rest.
* `JudgesByTheFacts`: "garbled" is said only of an allocator that changed a byte,
  through any reallocation between sizes below, between and above `maxfill` and
  twice `maxfill`; a changed byte that a check goes past lies between the two ends,
  or behind the first `maxfill` bytes of a payload that has just moved, or in a
  payload which a lower one has cut off the list.
* `BlocksTiled`, `ScreenShowsTail`: the kernel's heap and console.
* `AddressSpaces`, `UserStaysInside`: isolation as a property of the walk at every
  state and of every store of the user; `SyscallTransparent`: what a call gives back, and that it
  faults exactly when the string to be printed runs into an unmapped page.

The type invariants of the list, the tree, the heap, the ring and the routers are
the first conjuncts of `WellLinked`, `SearchTree`, `HeapTiled`, `EachMessageOnce`
and `NobodyReadsNext`.

## 4. Bounds

* `channels_plain`: three threads with two calls each, a channel of two slots and
  one whose size is 0. Two slots let a message be taken with the permit of another.
  Three is the least number at which two threads can be
  blocked while a third closes, and at which a permit is stolen between a post
  and the thread it woke. `calls[t] < MaxCalls[t]` is the only bound in a guard.
* `channels_select`: the selecting thread makes three calls (two creations and a
  select), another one, the third two, so that a select meets a change from either
  side and a closer or a destroyer in addition. The thread with one call may select
  too and is in `Failing`: its registration may be missing. In `channels_plain`
  `Failing` is empty, as nobody selects.
* `channels_refused`: the thread that is refused creates, sends, receives and asks
  again, the other sends once; two slots hold both messages.
* `channels_live`: one channel, two threads with two calls and one with one; the
  creator counts as one of them.
* `data_structures`: a buffer of three slots wraps from every position; three list
  nodes are a first, a middle and a last, of two semaphores, either possibly twice;
  five keys reach every rotation case and a removal whose successor is deep.
* `stress_ring`: one message less than there are places is the tightest ring that
  still moves (`StressAssumption`; with all places full nothing can, and the
  tests call it with a load below 1). `SleepEnough` assumes that `usleep` returns
  after the workers have taken their start messages, see section 7.
* `router`: two topologies, a ring in which one router improves its vector twice
  and may run ahead of a slow neighbor, and a line with an isolated node.
  Distances above `Inf` are not needed. `Polls` would allow failed polls between
  exchanges: with 0 the first poll still comes at any moment from the start of
  the program, and a later one when the routers have finished. Routers 3 and 4
  act as soon as they can (`PromptSpec`): a part of the behaviours of `Spec`,
  with 1, 2 and main interleaved freely. All of `Spec` on three routers in a
  line was also explored once (79,528 states) and has the same properties.
* `heap`: a heap of 176 bytes with chunks of 64, two sizes of request which give
  blocks of 32 and 48 bytes: blocks fit, split, leave a remainder too small to
  split, merge on one side and both, and the heap is exhausted.
* `trace_driver`: four addresses and payloads of every length. Two payloads of 1, 3
  and 5 bytes with `maxfill` 2: all of the payload is written, the two ends meet, or
  there is a gap between them; at most one byte changes before it is found
  (`Intact`), as a second one cannot hide the first. Two random bytes
  (`RANDOM_DATA_LEN`) tell a byte from its neighbour. `range_overlap` is the same
  instance.
* `kernel`: tables of three entries (a first, one between, a last) and two page
  directories, so that entries are absent in the upper tables and present in all
  of the kernel's lower ones; 18 pages of memory, 13 of them tables; two orders of
  the loader's pages and three initial contents: zeros, entries that would give
  the user a page, and entries that would make a page unusable. Strings: across
  stack and program, in the kernel, across the end of memory, and across the page
  below the stack; the first two are printed and the others stop the kernel.
  And a heap of two chunks of ten double words, requests of two and
  four of them: blocks fit, split, leave too little to split, merge on either side,
  and the second chunk is refused when the first has to grow twice. Three screens:
  two lines of two glyphs with pixels to spare each way, two lines of one glyph
  (every glyph wraps), and one line.

## 5. Fairness and deadlock

`FairSpec` of `Channels` assumes weak fairness of each thread's step inside a
call: the operating system runs a thread that can run. It assumes nothing about
which of several threads a semaphore wakes (that would be strong fairness), and
nothing about the client, who may stop calling. `StressRing` and `Router` have
weak fairness of each thread as a whole, which the same scheduling gives.
`PromptSpec` has it for each thread's turn; what it finds holds for the prompt
schedules only.

Deadlock is not checked where the system really may stop: in the channel runs
(threads whose calls are used up, or blocked for want of a partner), `heap` (a
fault ends the program), `data_structures` (the list is destroyed), `kernel` (a
page fault stops the machine, and a one-line screen makes the console run away), `trace_driver` and `range_overlap` (the driver stops at its
first report) and `router_recycled` (the schedule ends). The ring and the routers have a final step
that stutters, so that there a deadlock is an error.

## 6. Proofs

Theorems hold for every value of the constants that satisfies the named
assumptions of the modules. Three assume in addition, as a hypothesis in their
statement, that no message equals BUFFER_EMPTY (`PermitsAreConserved`,
`PermitsMeanRoom`, `ChannelsAreQueues`), and the two about the ring that `usleep`
was long enough (`SleepEnough`); section 7 says what happens otherwise.
`KernelBlocksTiled` assumes `RoomForTest`: the memory is large enough for each of
the three requests of `mem_extra_test` to extend the heap. The megabyte of
`kernel_malloc.c` is, by far (each extends it by at most 16 KB). The instance of
`kernel` is not: there the test has the last byte it needs, and TLC finds
it served all the same.

Three theorems about the routers' verdict assume `NeverRecycled`: a router does not
come back to a vector that main keeps a pointer to from the first round of
`check_done`. It is an action property of its own, and what the code fails to
ensure: TLC finds it kept on all of `router`'s instance, and broken on the schedule
of `router_recycled`, where the assertion of `stress.c:293` then fails (section 7).
For networks in which a router has at most four current vectors it is not assumed but proved
(`EasyNetworks`), so that the verdict is right on every network of two or three
routers, whatever its links and the schedule.

| theorem | module | statement |
|---|---|---|
| `IndicesInBounds` | `DataStructuresProof` | `Spec => []TypeOK`: every index stays in the array, for every capacity |
| `RingBufferImplementsFifo` | `DataStructuresProof` | `Spec => ImplementsFifo` |
| `ListStaysLinked` | `DataStructuresProof` | `ListSpec => []WellLinked`, for any finite memory |
| `ListIsASequence` | `DataStructuresProof` | `ListSpec => ImplementsSemList` |
| `LinksAreASearchTree` | `DriverProof` | `TreeSpec => []SearchTree`, for any finite set of keys |
| `TreeIsAnOrderedMap` | `DriverProof` | `TreeSpec => ImplementsOrderedMap` |
| `ChannelsTyped` | `ChannelsProof` | `Spec => []TypeOK` for `Channels` |
| `MutexProtects` | `ChannelsProof` | `Spec => []MutexIsALock` |
| `CloseIsFinal` | `ChannelsProof` | `Spec => ClosedIsFrozen` |
| `PermitsAreConserved` | `ChannelsProof` | `Spec => []PermitsConserved` |
| `PermitsMeanRoom` | `ChannelsProof` | `Spec => []PermitMeansRoom` |
| `CloseWakesAll` | `ChannelsProof` | `Spec => []DominoAlive` |
| `OnlyLiveSelects` | `ChannelsProof` | `Spec => []ListsHoldLiveSelects` |
| `NoWakeupIsLost` | `ChannelsProof` | `Spec => []NoLostWakeup` |
| `ChannelsAreQueues` | `ChannelsProof` | `Spec => ImplementsChannelSpec`: every step of `channel.c` is one of `ChannelSpec`'s queue, or none |
| `EveryMessageOnce` | `StressRingProof` | `Spec => []EachMessageOnce` |
| `QuietAtTheEnd` | `StressRingProof` | `Spec => []QuietAtCleanup` |
| `FourVectorsSuffice` | `RouterProof` | `Spec => []NobodyReadsNext`, for any network |
| `NeighborAssertionHolds` | `RouterProof` | the assertion of `stress.c:186` never fails |
| `QuietRoutersAreDone` | `RouterProof` | `Spec => []QuietIsSolved`: routers with nothing left to do have `floyd_warshall`'s distances, for any network |
| `VerdictIsRight` | `RouterProof` | `Spec /\ NeverRecycled => []VerdictIsFinal`, for any network |
| `NoAssertionFails` | `RouterProof` | `Spec /\ NeverRecycled => []AssertionsHold` |
| `ComparedIsCurrent` | `RouterProof` | `Spec /\ NeverRecycled => []VerdictReadsCurrent` |
| `EasyNetworksAreJudged` | `RouterProof` | `EasyNetworks` gives `Spec =>` the same three, always |
| `ThreeRoutersAreJudged` | `RouterProof` | `Nodes <= 3` gives `Spec =>` the same three, always |
| `RangesStayLinked` | `DriverProof` | `Spec => []RangesLinked` of `RangeSet`, what the list reaches included, for any allocator and heap |
| `AlarmsAreTrue` | `DriverProof` | `Spec => []NoFalseAlarm` |
| `LowerOverlapsAreFound` | `DriverProof` | `Spec => LowerOverlapFound` |
| `DriverJudgesByTheFacts` | `DriverProof` | `DriverSpec => []JudgesByTheFacts`, for any trace and any places of the payloads |
| `TagsTileTheHeap` | `HeapProof` | `Spec => []HeapTiled` of `Heap`, for any memory, chunk, number of lists and requests |
| `ListsAreExact` | `HeapProof` | `Spec => []FreeListsExact` |
| `FirstFitIsBestFit` | `HeapProof` | `Spec => []BestFit` |
| `HeapIsAllocator` | `HeapProof` | `Spec => ImplementsAllocator`: every step of `mm.c` is one of the allocator, or none |
| `SpacesAreSeparate` | `KernelProof` | `PagingSpec => []AddressSpaces`, for tables of any size |
| `UserIsConfined` | `KernelProof` | `PagingSpec => UserStaysInside` |
| `SyscallsReturn` | `KernelProof` | `PagingSpec => SyscallTransparent`, for any strings |
| `KernelBlocksTiled` | `KernelProof` | `RoomForTest => (Spec => []BlocksTiled)` |
| `KernelHeapIsAllocator` | `KernelProof` | `Spec => ImplementsAllocator` of `KernelHeap` |
| `KernelScreenShowsTail` | `KernelProof` | `Spec => []ScreenShowsTail`, for any text and screen |

*Ring buffer.* `TypeOK` is inductive once `WrapInIndex` bounds the position. For
the refinement, `Contents` reads the array from `next`; `AddAppends` and
`RemoveTakesHead` show what an add and a remove do to that sequence, from the
fact that wrapping is injective on positions less than `capacity` apart
(`WrapInjective`).

*The list.* `WellLinked` walks from the head; its invariant `ListInv` says instead
that there is a sequence of nodes, each once, which `next` and `prev` describe
(`Chained`), so that an insert puts a node in front of it and a removal takes one
out of its middle. `WalkIs` shows that the recursive walk of `LinkedList` visits
that sequence, by a least step at which it would not (`LeastElement`, from the
well-foundedness of `<`), and `ElemsRead` that the walk reads off the abstract
sequence; with both, each operation is seen to be the one of `SemList`.

*The tree.* `SearchTree` says what is below a node by walking up from every other one;
its invariant `TreeInv` says instead that every node can be given two bounds
(`Bounded`): a left child has its parent's lower bound and its parent for the upper
one, a right child the other way round, the root has 0 and a number above all keys,
and a node has a child on each side on which there is a node between its bounds.
Bounds are a witness that a rotation changes for two nodes only (`RightTurn`,
`LeftTurn`), an insertion gives to one node, and a removal changes for the successor
and those that had the removed key for a bound (`CutBoth`). They also replace
induction over the tree: those of two nodes are nested or apart (`Laminar`), and the
number of keys between them, `Width`, shrinks at each step down. So a search ends
within as many steps as there are keys and finds what is there (`Finds`), the
greatest node below a missing key is on its path (`FindsNearest`), and splaying, each
turn of which widens the bounds of the node it lifts, makes it the root
(`SplayRoots`). The searches and the loop of `splay` are functions given by a CHOOSE;
`Iterates` shows once that such a function exists.

*Types of the channels.* `Typed` strengthens `TypeOK`: it also matches the program
counter with the operation and the side of the entry a call works on, without
which `idx` could leave the array of a select. `StepChan`, `StepList` and
`StepThread` take the three groups of variables one by one, one step per action.

*Permits.* The invariants count threads at a set of places, so the lemmas first
say how such a count changes when one thread moves (`CountMoves`), where a step
may move it (`StepMoves`), and that nobody else moves (`StepCounts`). The
inductive invariant `ChannelInv` adds to `Typed` and `MutexIsALock` what the code
relies on without saying so: nobody works on a channel that is not created, no
two threads create the same one, and one that was never created is not closed
(`Lives`); a closer that posts, or a receiver that gives its permit back, works
on a closed channel (`KnowsClosed`). `MutexProtects` follows; `CloseIsFinal`
does too, because only a creation resets the flag and a thread that finds the
flag set leaves the buffer alone. `PermitsConserved` is inductive relative to
`ChannelInv`; `PermitsMeanRoom` follows from it by counting: a sender at the
buffer is one of the threads counted. For `CloseWakesAll` the invariant `Domino`
tells the closer's two posts apart: until the first the closer itself keeps both
chains alive, until the second only one.

*Selects.* `NoLostWakeup` speaks of a select asleep; its invariant has to speak of
one at every step of its loop: whatever it has gone past since its registration,
or since it last took a permit from its semaphore, and finds ready now, somebody
is about to post for. `ListsHoldLiveSelects` says who is on a list and is what
ties a notification to a select; the entries of the array it has registered so
far are counted along its loop.

*The refinement.* `ChannelsAreQueues` maps each thread to a call that has begun, was
let in, owes what it has changed, was refused, or is decided. Its invariant `RefInv`
relates what a thread remembers (`absOutcome`) to what it will return. One lemma per
action shows the step of `ChannelSpec` it is: `TakeSteps` of the waits, `Succeeds` of
`SendAdd` and `RecvRemove`, `PostSteps` of the posts, and most are none. For a refusal
the permits have to be counted: whoever holds a place of an open channel has a permit to
add or owes one (`HoldersAre`), so by `PermitsConserved` a semaphore that is down
means that all the places, or all the messages, are held (`PermitsLeft`). The same
count gives the guard under which a call is let in.

*The ring.* `OnePlace` says of each message that it is at exactly one place: an
entry of a queue, a worker's hand, what main still has to send or what it has
counted; a step moves it from one to another. Start messages share the queues with
messages in an order nobody chooses, so `StartOrders` counts them: those in main's
own channel and the workers that have started make up the orders sent. With
`SleepEnough` all of them are taken before main collects, so that what it receives
is a message, and one it has not counted yet (`Collected`). `OrdersToStop` and
`Joined` follow the other orders, which gives `QuietAtTheEnd`.

*The routers.* The argument is about one link. What router `r` sent to `n` last
is its current vector, or the one before while `n` is still in `pending[r]`
(`LastSent`); it lies in `n`'s channel or has been received. `n` reads that one, or
the one sent before it (`BeforeLast`) and then its channel is full (`Reads`), so
that `r` cannot send again and therefore not change its vectors. `RoundFlow` shows
what the end of a round does to this. The slots of all these are at most three
changes old, and the one being written is the fourth.

*The routers' distances.* `Solution` is `floyd_warshall`'s table of tables. `BestIs`
shows that the function it is defined by exists, `SolutionIs` that the result is no
greater than the links and that no way over a neighbor is shorter (`IsRelaxed`), and
`SolutionGreatest` that it is the greatest table of which this is true; each by the
least intermediate node that does not do. `Descent` is the invariant of the
exchange: no vector of a router is below the solution (`NeverLess`), an unchanged
router's next vector has the distances of its current one, and a neighbor whom the
current vector has reached has taken all of it (`Relaxed`). When nothing is under way
this is `IsRelaxed` of the current vectors, so that they are the solution
(`DescentSolves`).

*The verdict.* `PollInv` counts the poll: the requests out and the answer waiting make
up what main has asked and not heard (`Counted`), and each router is asked once a
round. A router whose answer is a pointer is at rest, and at rest it stays as long
as it keeps that vector (`Idle`). In the second round one of two is true.
`Doubt`: the round fails already, or a router that has yet to answer is no longer at
the vector of the first round. Or `Settled`: all are, and no message is in the
channel or the hands of a router that has answered. From `Settled` only a message can
wake a router, but one to a router that has answered would come from a router at
rest, which sends nothing; one that has not answered may take a message and move on,
which is `Doubt`. `Doubt` ends in a failed poll, because a router which
moves on does not come back (`NeverRecycled`) and because two vectors of a router
in different slots have different epochs (`Epochs`). So a poll that succeeds ends in
`Settled`, with all at rest and nothing under way, and `DescentSolves` does the rest.

*Networks without recycling.* A router becomes current with a vector only if a
distance in it is better (`Ahead`). If every distance written is the link's or the
solution's (`OneStep`), a router that can improve three distances has at most four
current vectors, of epochs 2 to 5 (`Bounded`, `FewEpochs`), which lie in different
slots (`SlotsApart`). `ThreeAreEasy` shows both conditions of three routers: they
need no more than two links, and the table of the ways of two links is relaxed.

*The range set.* `RangeInv` is `RangesLinked` with the tree's own invariant in place
of `SearchTree` and two facts more: the links are NULL or a range, and a range does
not end before it starts. `NearestIs` takes from the tree that `tree_find_nearest`
returns the greatest range at or below an address, or NULL when there is none.
`LinkChains` and `UnlinkChains` show that a range which clashes with neither
neighbour keeps the links in order when it is put between them, and that its
neighbours become each other's when it is freed. The list need not be one chain:
below every other range a new one starts a chain of its own, so that order is said
of a range and its own two neighbours. `AlarmsAreTrue` needs that the follower of the
nearest range starts above the new one (`NeighboursOf`); `LowerOverlapsAreFound`, that
of two disjoint payloads that start at or below an address only the higher can reach
it (`AcceptsAbove`).

*The walk along the list.* `Reached` is the smallest set that holds the first range
and the successor of each of its own, so that no recursion has to be unfolded. Where
`next` and `prev` undo each other (`Strung`) three lemmas say what becomes of it:
a range put behind a reached one is reached and nothing is lost (`LinkReach`), one
put in front when there are none is all there is (`FrontReach`), and one taken out is
all that is lost (`UnlinkReach`). From them `LinkListed` and `UnlinkListed` show of
`RangeSet`, and `RangesKeep` of `Driver`, that the walk comes to every range until one
is put below the others.

*The payload checks.* Their invariant says of every live payload that the bytes somebody
changed, and no others, differ from what was written (`Filled`), so that a check
fails exactly when it looks at one of them; after a move only the first bytes are
looked at, and `MoveRightly` is the argument that this is no false alarm either. `Ranged`
adds that the walk stays among the live payloads, and reaches them all while `lowered` is
false, so that only then it can leave out a payload that is due (`OverlooksRightly`). The
totals of `eval_mm_util` are a fold over the payloads: `Totals` shows that it is the
sum in whatever order the fold takes them, by a smallest set for which it would not
be, and `SumChanges` what one payload more, less or resized does to it.

*The allocator of `mm.c`.* None of its properties is inductive as it stands: what the
words say has to be followed through states in which a block has its tags and not yet
its links. The invariant `Inv` says instead that *some* heap of
blocks `a`, a value as `KernelHeap` has it, is what the words represent and is sound, and
that its taken blocks are the caller's payloads with room for them (`Serves`: `Rep`,
`Sound`, `Holds`). `Rep` is made of three parts which disturb each other as little as the
code lets them: the two tags of each block (`Tagged`), the prologue, the epilogue and the
break (`Edges`), and the links and heads, as what one ascending sequence of all free
blocks makes them when it is cut into the runs of the size classes (`Linked`, `Starts`,
`At`); `Built` lets tags and links be those of different sets of blocks, as they are in the
middle of an operation. What a write does is then a matter of which words it meets: two
blocks that differ do not overlap (`Apart`), and a word inside a payload is neither a tag
nor a link (`WordsOf`).

For each function of `mm.c` one lemma says that from words that represent `a` it gives words
that represent what the function of the same name in `BlockHeap` makes of `a`, and
leaves the payloads alone: `NodeAddIs`, `NodeRemoveIs`, `CoalesceIs`, `ExtendIs`,
`PlaceIs`, `FreeIs`, `InitIs`, `MallocIs`. So soundness is proved once, in `BlockHeapProof`,
for this heap and the kernel's. What is special to words comes before that. `HalvesAre` and
`SelectOrder` show that larger blocks are in later lists; `NeighboursAre` shows that the place which
`node_add` finds in its list is the one the size has in the whole sequence; `LinkedInserted` and
`LinkedRemoved` are the four to six pointers of a list changed one by one, `NodesAre` the
walk along a list and `BlocksAre` the walk over the headers (each shown to exist, and to
visit what it should, by a least place at which it would not). `PrevRead` is
the look at the footer before a block, or at the prologue's; `TagsCleared` shows that the tag
bit, which `free` clears and nothing ever sets, changes nothing.

A request is the operation and what the caller writes then: `FillIs` and `CopyIs` keep
every other payload, `KeepServes` is `realloc` in place and `MoveServes` a malloc, a copy
of the old block's words and a free, and `MallocStep`, `FreeStep`, `ReallocStep` and `RestartStep`
show both the invariant and the step of `Allocator`. A failed `malloc` leaves the heap as
it was; the two ways in which the program dies (section 7) leave the invariant as it was.
`InvTiled`, `InvLists` and `InvBest` read the three properties off the invariant; for
`BestFit`, `FindFitIs` says that the first block that is large enough in the first list that has
one is a smallest in the heap.

*The page tables.* `IndexOf` and `IndicesOf` identify a virtual page with its four
indices; they rest on a few lemmas about quotients. `WalkEntries` unfolds the
processor's walk, whose recursion ends after four levels. `TablesBuilt` reads off
what the twelve writes of `kernel_init` leave in every table (`Tables`), whatever
was there before; `KernelWalk` and `UserWalk` follow a page through them. The
invariant `KernelInv` adds that the stack pointer stays in the last two pages
(it cannot get below them, since the first push that would is a page fault) and
where the caller's registers are at each step of a system call. That the tables
survive is then a consequence of what they say: a store is let through only to a
frame that is not theirs (`StoreKept`). `NothingElse` says that a page which is neither
memory nor one of the user's two is not mapped, whence a string can be printed exactly
if it lies in those (`SyscallsReturn`).

*The kernel's heap.* `Sound` says of a heap, as a value, what `BlocksTiled` says of
it between two operations: `Tiles` of the blocks, `Listing` of the free lists, and
that no two neighbours are free. One lemma per helper of `kernel_extra.c` says what
it does to a heap that is `Tiled` but for one block: a block is inserted behind the
smaller ones (`InsertListed`; how many there are is counted by `CountBelow`), taken
out (`RemoveListed`), merged with those around it (`RunMerged`, `Coalesced`), split
or handed out whole (`PlacedSplit`, `PlacedWhole`), appended to the heap
(`Extended`). The invariant of the system, `Inv`, adds what callers own: every
payload lies in a taken block of its own that has room for it and its tags, and a
unit of memory that is not the heap's lies in a payload (`KeptIn`); and which
pointers `mem_extra_test` holds at each of its steps and where its pattern is
(`TestInv`). What a step does to content follows from `Apart`: two blocks that
differ do not overlap.

*The console.* A text goes through `FoldLeft`, which is recursive in the set of
places still to be folded; `ConsoleFold` shows that the function it is defined by
exists (were there a least length without one, the function for one place less could
be extended) and that it follows the text character by character. `OutputAgrees` says
that a character keeps the screen and the expected lines together: a new line moves
pixel `k` up to where `k + Across` was, in the same column and one row of text
higher (`RowBelow`, from facts about quotients), and a glyph covers the pixels of
one cell (`InCell`). `ConsoleAssumption` requires a screen that a glyph fits on: on
a smaller one `fb_output` writes outside the framebuffer, which the model has no
place for. No firmware's screen is that small.

What is only model-checked: all liveness properties and everything that needs
ENABLED (outside the prover's reach). And `VerdictIsFinal`, `VerdictReadsCurrent` and
`AssertionsHold` where a router may recycle a vector that main still points to: there
they need not hold (section 7, `router_recycled`), and `router` checks them on networks
of four routers without the hypothesis of the theorems.

## 7. Where the code and its documents differ

Shown by a run:

* `router_recycled`: `check_done` compares epochs through pointers it kept
  (`stress.c:284`, "ensure epoch hasn't changed since first validation",
  `stress.c:269`). A router that changes exactly four times in between has
  recycled the very vector, which compares equal with itself; the verdict comes
  too early and the assertion of `stress.c:293` fails. It takes five routers and
  a long schedule; `MCRecycle` holds it step by step.

* `range_overlap`: when no recorded range starts at or below the new payload,
  `add_range` looks at no neighbour (`mdriver.c:709`): the overlap is accepted,
  and the ranges above are cut off the list, against `mdriver.c:661-662` ("We use
  the range list to detect any overlapping allocated blocks").

* `channels_refused`: a non-blocking receive decides by its permit alone
  (`channel.c:188`). A sender adds its message before it posts `used`
  (`channel.c:140-154`); a receive in between takes that message with the permit of
  a second one, and a third call is then told WOULDBLOCK although the second message,
  whose send returned long ago, is there all the time. `channel.h:84` says
  "WOULDBLOCK if the channel is empty"; `channel.h:74` says the like of a send.

Met while modelling, each taken over into the model or excluded by an assumption
that is named:

* `channel_create(0)` returns NULL (`channel.c:42-49`) although `channel.h:66`
  announces an unbuffered channel and `stress.c:304` admits the size.
* A message equal to `(void *) -1` is taken for an empty buffer (`buffer.c:35`,
  `channel.c:233`), against `buffer.h:25-26`; the configurations and theorems
  leave that value out of `Msg`.
* `stress_send_recv.c:96-109`: if `usleep` returns before every worker has taken
  its start message, main receives one itself and its assertion fails; with
  `SleepEnough = FALSE` TLC finds it at once.
* `realloc` does not look at what `malloc` returned (`mm.c:475-480`); without
  memory it copies to NULL, while `mdriver.c:1104-1106` expects NULL and reports
  "mm_realloc failed.". The run `heap` reaches this (`fault = "realloc"`).
* `user_stack` starts at the last byte of the address space (`kernel_code.c:267`),
  in the program page, and not at the end of the stack page below it, as the
  comments of lines 35 and 265-266 say: in the run `kernel` the first pushes write
  over the end of the program.
* `free(NULL)` reads below address 0 (`mm.c:435`), while the driver issues that
  call for index -1 (`mdriver.c:57`, `1145-1151`).
* Lists are kept in order of size (`mm.c:181`), not LIFO as `README.md:28` says.
* `mm_checkheap`, compiled with DEBUG, rejects every heap (`mm.c:542`), also the
  one `mm_init` builds.
* The ranges are not cleared before the second run of a trace
  (`mdriver.c:1038`, "free any records in the range list"), so payloads still
  allocated at the end of the first are recorded in the second (`SecondPass`).
* The range list does not keep "track of the extent of every allocated block payload"
  (`mdriver.c:660-661`), nor does the expensive check look at "all our allocated
  blocks" (`mdriver.c:1062`): after payloads at a low and at a high address are
  allocated, the low one freed and another allocated in its place, the list holds that
  one only. The run `trace_driver` reaches it: `RangesLinked` promises the whole list
  only until `cut`, and `JudgesByTheFacts` says which changed bytes are missed.
* `syscall_entry` prints the string at `a1` without a look at the pointer
  (`kernel_code.c:291-296`): one in an unmapped page stops the kernel, and one in
  the kernel's memory is printed. `SyscallTransparent` says when a call does not return.
* `list_insert` does not say that its `malloc` failed (`linked_list.c:91-93`):
  `channel_select` then waits for a notification nobody will give, although a close
  "informs all the blocking send/receive/select calls to return"
  (`channel.c:258`). The liveness properties leave out that select (`Abandoned`)
  and show that it harms no other.
* On a screen of a single line of text `fb_scrollup` starts its loop at 0 and
  counts down past it (`fb.c:48`): `console.fault`.
* `kernel_init` takes `memorySize` and never looks at it: `KernelAssumption` says
  that the tables (about 8 MB) fit.

## 8. What is not modelled

* Data: message contents beyond identity, byte order, addresses as such. The heap
  has words, not bytes; `calloc` is a malloc and a memset.
* Overflow of `size + ALIGNMENT` in `malloc`: the requests are small.
* Failure of `malloc` in a creation: `channel_create` answers NULL for its own, and
  `buffer_create` and `list_create` have no answer to theirs. That of `list_insert`
  is modelled (`Failing`).
* Memory-model effects beyond sequential consistency: every shared access of
  `channel.c` is under a lock or a semaphore, except the read of `closed` in
  `channel_destroy`, which the contract protects.
* `test.c`, `grade.py`, the driver's parsing of traces, timing and scoring, `fcyc.c`,
  `clock.c`, and the scripts: no state a property could be about.
* Of the driver's bytes: equal random bytes (one in 256), which let a change pass,
  and DBG_NONE, which checks nothing.
* Of the kernel: the setup of the segment and model-specific registers, `printf`
  beyond the characters it sends to the console. `load_page_table` comes as an object file
  without source; it is taken to load the table it is given.

## 9. Plan

Done: every module of section 2, and the proofs of section 6: the buffer, the list,
the tree, the channels with their permits, closing, selects and refinement, the ring, the
routers, the page tables and system calls, the kernel's heap and console, the
allocator of `mm.c`, the driver's range set and payload checks.

Every safety and action property and every refinement that a run checks is a theorem of
section 6, those of the verdict under `NeverRecycled`. What could come next is to prove
that hypothesis of more networks than those of three routers: `EasyNetworks` asks that no
distance is improved twice, which a longer ring breaks although its routers may still have
too few vectors to recycle one.

The number of runs is kept small: a new part gets one configuration for its safety
and liveness together where its instance allows it.
