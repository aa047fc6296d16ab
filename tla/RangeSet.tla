------------------------------ MODULE RangeSet ------------------------------
(***************************************************************************)
(* The range set of src/p1-memory-management/mdriver.c: how the driver     *)
(* decides whether the allocator it tests hands out overlapping payloads.  *)
(* The ranges are linked in a list and found through the splay tree; a     *)
(* range and its tree node are known by the payload's first address.  The  *)
(* allocator under test may return anything: Key holds the aligned         *)
(* addresses of the heap 1..Last.                                          *)
(***************************************************************************)
EXTENDS SplayTree, RangeList

CONSTANT Last    \* the heap's last address

\* The record of a node is its range_t, which its first address names.
ASSUME RangeAssumption ==
  /\ Last \in Nat /\ \A k \in Key : k <= Last
  /\ Record = Key

VARIABLES list,    \* range_set_t: the first range
          range,   \* the range_t at each payload address
          held,    \* the payloads handed out and accepted, as <<lo, hi>>
          reported,\* the payload eval_mm_valid has reported and stopped at
          pass,    \* which of its two runs on the trace
          cut      \* a payload has been recorded below all the others

rangeVars == <<list, range>>
vars == <<tree, ret, rangeVars, held, reported, pass, cut>>

NoRange == [prev |-> NULL, next |-> NULL, hi |-> NULL]

Init ==
  /\ TreeInit
  /\ list = NULL
  /\ range = [k \in Key |-> NoRange]
  /\ held = {}
  /\ reported = {}
  /\ pass = 1
  /\ cut = FALSE

Overlap(p, q) == p[1] <= q[2] /\ q[1] <= p[2]

\* p is linked between prev and prev's successor, or becomes the list.
Link(p, hi, prev, next) ==
  /\ list' = IF prev = NULL THEN p ELSE list
  /\ range' = [k \in Key |->
       IF k = p THEN [prev |-> prev, next |-> next, hi |-> hi]
       ELSE [range[k] EXCEPT !.next = IF k = prev THEN p ELSE @,
                             !.prev = IF k = next THEN p ELSE @]]

\* Mutant: the range before keeps its link to the freed one.
UnlinkOneWay(p) ==
  LET prev == range[p].prev
      next == range[p].next
  IN  /\ list' = IF prev = NULL THEN next ELSE list
      /\ range' = [k \in Key |->
           IF k = p THEN NoRange
           ELSE [range[k] EXCEPT !.prev = IF k = next THEN prev ELSE @]]

Unlink(p) ==
  LET prev == range[p].prev
      next == range[p].next
  IN  /\ list' = IF prev = NULL THEN next ELSE list
      /\ range' = [k \in Key |->
           IF k = p THEN NoRange
           ELSE [range[k] EXCEPT !.next = IF k = prev THEN next ELSE @,
                                 !.prev = IF k = next THEN prev ELSE @]]

\* Mutant: a payload may start on the last byte of the one below.
ClashStrict(lo, hi, prev, next) ==
  \/ prev # NULL /\ lo < range[prev].hi
  \/ next # NULL /\ hi >= next

\* Mutant: hi is taken for the first byte after the payload.
ClashTouching(lo, hi, prev, next) ==
  \/ prev # NULL /\ lo <= range[prev].hi
  \/ next # NULL /\ hi + 1 >= next

Clash(lo, hi, prev, next) ==
  \/ prev # NULL /\ lo <= range[prev].hi
  \/ next # NULL /\ hi >= next

Misplaced(lo, hi) == lo \notin Key \/ hi > Last

Reject(lo, hi) == reported' = {<<lo, hi>>} /\ UNCHANGED <<tree, rangeVars, held, cut>>

Accept(lo, hi, prev, next) ==
  /\ Link(lo, hi, prev, next)
  /\ tree' = tree_insert(tree, lo, lo).tree
  /\ held' = held \cup {<<lo, hi>>}
  /\ cut' = (cut \/ (tree.nodes # {} /\ \A k \in tree.nodes : lo < k))
  /\ UNCHANGED reported

\* The allocator returns lo for a request of hi - lo + 1 bytes; add_range.
add_range(lo, hi) ==
  /\ reported = {} /\ lo <= hi
  /\ IF Misplaced(lo, hi) THEN Reject(lo, hi)
     ELSE \E prev \in {tree_find_nearest(tree, lo)} :
          \E next \in {IF prev = NULL THEN NULL ELSE range[prev].next} :
            IF Clash(lo, hi, prev, next) THEN Reject(lo, hi) ELSE Accept(lo, hi, prev, next)
  /\ UNCHANGED <<ret, pass>>

\* The trace frees the payload at lo: remove_range, then the allocator's free.
remove_range(lo, hi) ==
  /\ reported = {}
  /\ <<lo, hi>> \in held
  /\ held' = held \ {<<lo, hi>>}
  /\ \E done \in {tree_remove(tree, lo)} :
       /\ tree' = done.tree
       /\ IF done.ret = NULL THEN UNCHANGED rangeVars ELSE Unlink(done.ret)
  /\ UNCHANGED <<ret, reported, pass, cut>>

\* eval_mm_valid starts again on an emptied heap; it is handed the same ranges.
SecondPass ==
  /\ reported = {} /\ pass = 1
  /\ pass' = 2
  /\ held' = {}
  /\ UNCHANGED <<tree, ret, rangeVars, reported, cut>>

Next ==
  \/ \E lo \in Key, hi \in 1..Last : add_range(lo, hi) \/ remove_range(lo, hi)
  \/ \E lo \in 1..(Last + 1) : (lo \notin Key /\ add_range(lo, lo)) \/ add_range(lo, Last + 1)
  \/ SecondPass

Spec == Init /\ [][Next]_vars

-----------------------------------------------------------------------------
\* What "r = ranges->list; while (r) r = r->next" comes to.
OnList == Reached(Key, list, [k \in Key |-> range[k].next], NULL)

Disjoint(payloads) == \A p, q \in payloads : p # q => ~Overlap(p, q)

\* Through every add and remove the tree stays a search tree over the ranges,
\* their prev and next undo each other and ascend without overlap, nothing links
\* to a freed range, and in the first pass the ranges are the payloads the
\* allocator has handed out (mdriver.c:681-762).  The list holds every range of
\* the tree as long as none was recorded below all the others: that one becomes
\* the list with no successor, and those above it are in the tree alone, although
\* "the range list ... keeps track of the extent of every allocated block
\* payload" (mdriver.c:660-661, 709, 729-735).
RangesLinked ==
  /\ SearchTree
  /\ list # NULL => list \in tree.nodes /\ range[list].prev = NULL
  /\ \A k \in tree.nodes :
       LET r == range[k]
       IN  /\ tree.record[k] = k
           /\ r.next # NULL =>
                r.next \in tree.nodes /\ range[r.next].prev = k /\ r.hi < r.next
           /\ r.prev # NULL => r.prev \in tree.nodes /\ range[r.prev].next = k
  /\ ~cut => OnList = tree.nodes
  /\ pass = 1 => {<<k, range[k].hi>> : k \in tree.nodes} = held

\* An allocator is called wrong only with a reason: a payload reported is not
\* aligned, leaves the heap, or overlaps one that is recorded, and in the first
\* pass those are the ones allocated (mdriver.c:688-722).
NoFalseAlarm ==
  \A p \in reported :
    \/ Misplaced(p[1], p[2])
    \/ \E k \in tree.nodes :
         Overlap(p, <<k, range[k].hi>>) /\ (pass = 1 => <<k, range[k].hi>> \in held)

\* A payload that starts inside one of so far disjoint payloads is never
\* accepted, wherever the nearest-key search ends in the tree (mdriver.c:707-716).
LowerOverlapFound ==
  [][pass' = 1 /\ Disjoint(held) =>
       \A p \in held' \ held, q \in held : ~(q[1] <= p[1] /\ p[1] <= q[2])]_vars

\* While the payloads accepted so far are disjoint the next one accepted is too
\* ("We use the range list to detect any overlapping allocated blocks",
\* mdriver.c:661-662).  It is not so: below every recorded range add_range finds
\* no predecessor and looks at no successor, and it cuts the new range off from
\* the ranges above it (mdriver.c:708-733).
OverlapFound ==
  [][pass' = 1 /\ Disjoint(held) => Disjoint(held')]_vars
=============================================================================
