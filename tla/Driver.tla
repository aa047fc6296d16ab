------------------------------- MODULE Driver -------------------------------
(***************************************************************************)
(* src/p1-memory-management/mdriver.c replaying a trace: what it writes    *)
(* into the payloads it is given, when it reads it back, and how it counts *)
(* them.  The addresses of payloads are RangeSet's matter: here a payload  *)
(* is its bytes and its place in the list of ranges.  The allocator under  *)
(* test is anything that returns payloads; now and then it changes a byte  *)
(* it should have left alone.  "mode" is eval_mm_valid with debug_mode     *)
(* DBG_CHEAP or DBG_EXPENSIVE, or eval_mm_util: one run on a trace, on an  *)
(* emptied range list.                                                     *)
(***************************************************************************)
EXTENDS Integers, FiniteSets, FiniteSetsExt, Functions, RangeList

CONSTANTS Index,           \* the trace's block indices, numbers
          Request,         \* the sizes it asks for, none of them 0
          maxfill,         \* bytes written at either end of a payload, at least 1
          RANDOM_DATA_LEN  \* at least 1

\* What a trace file and config.h make of them.
ASSUME TraceAssumption ==
  /\ Index \subseteq Nat /\ IsFiniteSet(Index) /\ Request \subseteq Nat \ {0}
  /\ maxfill \in Nat \ {0} /\ RANDOM_DATA_LEN \in Nat \ {0}

VARIABLES mode,
          live,             \* the indices that have a payload
          ranges,           \* range_set_t: the list, and prev and next of each
                            \* live index's range
          blocks,           \* the bytes of each live payload
          block_sizes, block_rand_base,
          verdict,          \* what the driver has said: nothing so far is "ok"
          total_size, max_total_size, max_heap_size,
          spoiled,          \* bytes the allocator has changed since they were written
          overlooked,       \* [at, size, moved, cut]: those the last check went past
          lowered           \* a payload has been recorded below all the others

traceVars == <<live, ranges, lowered, blocks, block_sizes, block_rand_base>>
utilVars == <<total_size, max_total_size, max_heap_size>>
driverVars == <<mode, traceVars, verdict, utilVars, spoiled, overlooked>>

None == -1                               \* no range
Junk == -1                               \* a byte nobody has written
Base == 0..(RANDOM_DATA_LEN - 1)
\* The random bytes are told apart by their place: a change to an equal byte, one
\* in 256, is none.
random_data(k) == k % RANDOM_DATA_LEN
Nowhere == <<>>
Fresh(n) == [k \in 0..(n - 1) |-> Junk]

Smaller(m, n) == IF m < n THEN m ELSE n

\* How many bytes are written at the end of a payload of n bytes, in addition to
\* the first maxfill of them.
fsize_end(n) ==
  IF n <= maxfill THEN 0 ELSE IF n > 2 * maxfill THEN maxfill ELSE n - maxfill

\* The bytes that should be found in a payload of n bytes: where, and which.
Pattern(n, base, end) ==
  [k \in {j \in 0..(n - 1) : j < maxfill \/ j >= n - end} |->
     random_data(IF k < maxfill THEN base + k ELSE base + (k - (n - end)))]

randomize_block(bytes, n, base) ==
  [k \in DOMAIN bytes |->
     IF k \in DOMAIN Pattern(n, base, fsize_end(n))
     THEN Pattern(n, base, fsize_end(n))[k] ELSE bytes[k]]

\* Mutant: the end is looked at after a realloc as well.
check_index_end(bytes, n, base, realloc) ==
  \A k \in DOMAIN Pattern(n, base, fsize_end(n)) :
    bytes[k] = Pattern(n, base, fsize_end(n))[k]

\* After a realloc the end of the payload is not looked at.
check_index(bytes, n, base, realloc) ==
  LET end == IF realloc THEN 0 ELSE fsize_end(n)
  IN  \A k \in DOMAIN Pattern(n, base, end) : bytes[k] = Pattern(n, base, end)[k]

Passes(x) == check_index(blocks[x], block_sizes[x], block_rand_base[x], FALSE)

\* The payloads to be checked before an operation on x: that of x, and in
\* expensive mode "all our allocated blocks".
Due(x) ==
  CASE mode = "util" -> {}
    [] mode = "cheap" -> {x} \cap live
    [] mode = "expensive" -> live

\* Those that are: in expensive mode the walk goes along the list.
Walked == Reached(Index, ranges.list, ranges.next, None)
Checked(x) ==
  CASE mode = "util" -> {}
    [] mode = "cheap" -> {x} \cap live
    [] mode = "expensive" -> Walked \cup ({x} \cap live)

\* The checks of an operation have failed: the driver says so and stops.
Complain(x) ==
  /\ \E y \in Checked(x) : ~Passes(y)
  /\ verdict' = "garbled"
  /\ overlooked' = {}
  /\ UNCHANGED <<traceVars, utilVars, spoiled>>

Overlooked(x) ==
  UNION {{[at |-> k, size |-> block_sizes[y], moved |-> FALSE, cut |-> y \notin Checked(x)] :
            k \in spoiled[y]} : y \in Due(x)}

-----------------------------------------------------------------------------
\* add_range: x is linked behind the range of the next lower payload, or becomes
\* the list; "next" is looked for behind prev only.
RangeAdded(r, x, prev) ==
  LET next == IF prev = None THEN None ELSE r.next[prev]
  IN  [list |-> IF prev = None THEN x ELSE r.list,
       prev |-> [y \in Index |-> IF y = x THEN prev ELSE IF y = next THEN x ELSE r.prev[y]],
       next |-> [y \in Index |-> IF y = x THEN next ELSE IF y = prev THEN x ELSE r.next[y]]]

\* remove_range
RangeRemoved(r, x) ==
  LET prev == r.prev[x]
      next == r.next[x]
  IN  [list |-> IF prev = None THEN next ELSE r.list,
       prev |-> [y \in Index |-> IF y = x THEN None ELSE IF y = next THEN prev ELSE r.prev[y]],
       next |-> [y \in Index |-> IF y = x THEN None ELSE IF y = prev THEN next ELSE r.next[y]]]

\* The payload x had is removed, and one of n bytes added if n is not 0: above
\* any of the others, or below them all.  eval_mm_util keeps no ranges.
Ranges(x, n) ==
  IF mode = "util" THEN UNCHANGED <<ranges, lowered>>
  ELSE \E r \in {IF x \in live THEN RangeRemoved(ranges, x) ELSE ranges} :
         IF n = 0 THEN ranges' = r /\ UNCHANGED lowered
         ELSE \E prev \in (live \ {x}) \cup {None} :
                /\ ranges' = RangeAdded(r, x, prev)
                /\ lowered' = (lowered \/ (prev = None /\ live \ {x} # {}))

\* What an ideal allocator, without gaps or tags, has taken from the heap.
Held(payloads) == FoldFunction(+, 0, [x \in Index |-> Cardinality(DOMAIN payloads[x])])

\* The totals of eval_mm_util once the live payloads have changed by "more".
Count(more) ==
  IF mode # "util" THEN UNCHANGED utilVars
  ELSE /\ total_size' = total_size + more
       /\ max_total_size' = Max({max_total_size, total_size'})
       /\ max_heap_size' = Max({max_heap_size, Held(blocks')})

Store(x, bytes, n, base) ==
  /\ blocks' = [blocks EXCEPT ![x] =
                  IF mode = "util" THEN bytes ELSE randomize_block(bytes, n, base)]
  /\ block_sizes' = [block_sizes EXCEPT ![x] = n]
  /\ block_rand_base' = IF mode = "util" THEN block_rand_base
                        ELSE [block_rand_base EXCEPT ![x] = base]
  /\ spoiled' = [spoiled EXCEPT ![x] = {}]

\* ALLOC: mm_malloc returns a payload or NULL.
Alloc(x, n, base) ==
  /\ verdict = "ok" /\ x \notin live
  /\ \/ Complain(x)
     \/ /\ \A y \in Checked(x) : Passes(y)
        /\ overlooked' = Overlooked(x)
        /\ \/ /\ verdict' = "failed"
              /\ UNCHANGED <<traceVars, utilVars, spoiled>>
           \/ /\ Store(x, Fresh(n), n, base)
              /\ live' = live \cup {x}
              /\ Ranges(x, n)
              /\ Count(n)
              /\ UNCHANGED verdict
  /\ UNCHANGED mode

\* The allocator has one byte changed at most, and that still to be found.
Intact == \A x \in Index : spoiled[x] = {}

\* REALLOC, of an index that has a payload or the null pointer.  The allocator
\* moves the payload, losing the bytes in "lost"; or it fails, returning NULL or,
\* for size 0, something else (eval_mm_util does not look for the latter).
Realloc(x, n, base, lost) ==
  LET m == Smaller(block_sizes[x], n)
      moved == [k \in 0..(n - 1) |-> IF k < m /\ k \notin lost THEN blocks[x][k] ELSE Junk]
      found == check_index(moved, m, block_rand_base[x], TRUE)
  IN  /\ verdict = "ok" /\ (x \in live \/ block_sizes[x] = 0)
      /\ lost \subseteq 0..(m - 1) /\ (lost # {} => Intact)
      /\ \/ lost = {} /\ Complain(x)
         \/ /\ \A y \in Checked(x) : Passes(y)
            /\ lost = {} /\ ~(mode = "util" /\ n = 0)
            /\ verdict' = "failed"
            /\ overlooked' = Overlooked(x)
            /\ UNCHANGED <<traceVars, utilVars, spoiled>>
         \/ /\ \A y \in Checked(x) : Passes(y)
            /\ mode # "util" /\ ~found
            /\ verdict' = "garbled"
            /\ spoiled' = [spoiled EXCEPT ![x] = @ \cup lost]
            /\ overlooked' = {}
            /\ UNCHANGED <<traceVars, utilVars>>
         \/ /\ \A y \in Checked(x) : Passes(y)
            /\ mode = "util" \/ found
            /\ Store(x, moved, n, base)
            /\ live' = IF n = 0 THEN live \ {x} ELSE live \cup {x}
            /\ Ranges(x, n)
            /\ overlooked' = Overlooked(x) \cup
                 IF mode = "util" THEN {}
                 ELSE {[at |-> k, size |-> m, moved |-> TRUE, cut |-> FALSE] : k \in lost}
            /\ Count(n - block_sizes[x])
            /\ UNCHANGED verdict
      /\ UNCHANGED mode

\* FREE.  The payload's size stays in block_sizes; index -1 frees NULL.
Free(x) ==
  /\ verdict = "ok" /\ x \in live \cup {-1}
  /\ \/ Complain(x)
     \/ /\ \A y \in Checked(x) : Passes(y)
        /\ overlooked' = Overlooked(x)
        /\ live' = live \ {x}
        /\ Ranges(x, 0)
        /\ blocks' = [y \in Index |-> IF y = x THEN Nowhere ELSE blocks[y]]
        /\ spoiled' = [y \in Index |-> IF y = x THEN {} ELSE spoiled[y]]
        /\ Count(IF x = -1 THEN 0 ELSE -block_sizes[x])
        /\ UNCHANGED <<verdict, block_sizes, block_rand_base>>
  /\ UNCHANGED mode

\* A byte of a payload changes although nobody was asked to.
Spoil(x, k, byte) ==
  /\ verdict = "ok" /\ mode # "util" /\ Intact
  /\ k \in DOMAIN blocks[x] /\ byte # blocks[x][k]
  /\ blocks' = [blocks EXCEPT ![x][k] = byte]
  /\ spoiled' = [spoiled EXCEPT ![x] = {k}]
  /\ overlooked' = {}
  /\ UNCHANGED <<mode, live, ranges, lowered, block_sizes, block_rand_base, verdict, utilVars>>

DriverInit ==
  /\ mode \in {"cheap", "expensive", "util"}
  /\ live = {}
  /\ ranges = [list |-> None, prev |-> [x \in Index |-> None], next |-> [x \in Index |-> None]]
  /\ lowered = FALSE
  /\ blocks = [x \in Index |-> Nowhere]
  /\ block_sizes = [x \in Index |-> 0]
  /\ block_rand_base = [x \in Index |-> 0]
  /\ verdict = "ok"
  /\ total_size = 0 /\ max_total_size = 0 /\ max_heap_size = 0
  /\ spoiled = [x \in Index |-> {}]
  /\ overlooked = {}

Lost == {{}} \cup {{k} : k \in 0..(Max(Request) - 1)}

DriverNext ==
  \/ \E x \in Index, n \in Request, base \in Base : Alloc(x, n, base)
  \/ \E x \in Index, n \in Request \cup {0}, base \in Base, lost \in Lost : Realloc(x, n, base, lost)
  \/ \E x \in Index \cup {-1} : Free(x)
  \/ \E x \in Index, byte \in Base : \E k \in DOMAIN blocks[x] : Spoil(x, k, byte)

DriverSpec == DriverInit /\ [][DriverNext]_driverVars

-----------------------------------------------------------------------------
\* The driver judges the allocator by what it did: it speaks of garbled bytes
\* only when one was changed, whatever sizes a payload went through; what it goes
\* past was in the middle of a payload, or beyond the first maxfill bytes of one
\* that moved, or in a payload that a lower one has cut off the list it walks to
\* "check that all our allocated blocks have the right data" (mdriver.c:1062-1068),
\* and without such a lower payload never; and an allocator that wastes nothing
\* has a utilization of 1 (mdriver.c:707-762, 788-893, 1097-1143, 1172-1262).
JudgesByTheFacts ==
  /\ verdict = "garbled" => ~Intact
  /\ \A o \in overlooked :
       \/ o.at >= maxfill /\ (o.moved \/ o.at < o.size - maxfill)
       \/ o.cut /\ lowered
  /\ max_total_size = max_heap_size
  /\ total_size = IF mode = "util" THEN Held(blocks) ELSE 0
=============================================================================
