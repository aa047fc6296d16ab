----------------------------- MODULE SplayTree ------------------------------
(***************************************************************************)
(* src/p1-memory-management/stree.c: the splay tree in which mdriver.c     *)
(* keeps the extent of every payload.  A node is known by its key: a key   *)
(* is in the tree at most once.  malloc succeeds (tree_insert and tree_new *)
(* exit the program otherwise); the comparison count is left out.          *)
(***************************************************************************)
EXTENDS Integers, FiniteSets, Functions, FiniteSetsExt

CONSTANTS Key,      \* tkey_t
          Record    \* void *

NULL == 0

ASSUME KeyAssumption ==
  Key \subseteq Nat \ {0} /\ IsFiniteSet(Key) /\ NULL \notin Record

VARIABLES tree,   \* tree_t with its nodes
          ret     \* the last call and its result

NoTree ==
  [root |-> NULL, node_count |-> 0, nodes |-> {},
   left |-> [k \in Key |-> NULL], right |-> [k \in Key |-> NULL],
   parent |-> [k \in Key |-> NULL], record |-> [k \in Key |-> NULL]]

-----------------------------------------------------------------------------
\* The node v takes the place of u below u's parent (or at the root).
InPlaceOf(t, u, v) ==
  LET p == t.parent[u]
  IN  IF p = NULL THEN [t EXCEPT !.root = v]
      ELSE IF t.left[p] = u THEN [t EXCEPT !.left[p] = v]
      ELSE [t EXCEPT !.right[p] = v]

SetParent(t, u, p) == IF u = NULL THEN t ELSE [t EXCEPT !.parent[u] = p]

left_rotate(t, x) ==
  LET y == t.right[x]
      t1 == IF y = NULL THEN t
            ELSE [SetParent(t, t.left[y], x)
                    EXCEPT !.right[x] = t.left[y], !.parent[y] = t.parent[x]]
      t2 == InPlaceOf(t1, x, y)
      t3 == IF y = NULL THEN t2 ELSE [t2 EXCEPT !.left[y] = x]
  IN  [t3 EXCEPT !.parent[x] = y]

\* Mutant: the subtree that changes sides keeps its old parent.
right_rotate_orphan(t, x) ==
  LET y == t.left[x]
      t1 == [t EXCEPT !.left[x] = t.right[y], !.parent[y] = t.parent[x]]
      t2 == InPlaceOf(t1, x, y)
  IN  [t2 EXCEPT !.right[y] = x, !.parent[x] = y]

right_rotate(t, x) ==
  LET y == t.left[x]
      t1 == IF y = NULL THEN t
            ELSE [SetParent(t, t.right[y], x)
                    EXCEPT !.left[x] = t.right[y], !.parent[y] = t.parent[x]]
      t2 == InPlaceOf(t1, x, y)
      t3 == IF y = NULL THEN t2 ELSE [t2 EXCEPT !.right[y] = x]
  IN  [t3 EXCEPT !.parent[x] = y]

\* One turn of splay's loop: x has a parent.
SplayStep(t, x) ==
  LET p == t.parent[x]
      g == t.parent[p]
      IsLeft(u, v) == t.left[v] = u
  IN  IF g = NULL
      THEN IF IsLeft(x, p) THEN right_rotate(t, p) ELSE left_rotate(t, p)
      ELSE IF IsLeft(x, p) /\ IsLeft(p, g) THEN right_rotate(right_rotate(t, g), p)
      ELSE IF ~IsLeft(x, p) /\ ~IsLeft(p, g) THEN left_rotate(left_rotate(t, g), p)
      ELSE IF IsLeft(x, p) THEN LET u == right_rotate(t, p) IN left_rotate(u, u.parent[x])
      ELSE LET u == left_rotate(t, p) IN right_rotate(u, u.parent[x])

splay(t, x) ==
  LET after[n \in 0..Cardinality(Key)] ==
        IF n = 0 THEN t
        ELSE LET u == after[n - 1]
             IN  IF u.parent[x] = NULL THEN u ELSE SplayStep(u, x)
  IN  after[Cardinality(Key)]

replace(t, u, v) == SetParent(InPlaceOf(t, u, v), v, t.parent[u])

\* The nodes a search for key visits, in order, then NULL.
Path(t, key) ==
  LET at[n \in 0..Cardinality(Key)] ==
        IF n = 0 THEN t.root
        ELSE LET z == at[n - 1]
             IN  IF z = NULL \/ z = key THEN NULL
                 ELSE IF key > z THEN t.right[z] ELSE t.left[z]
  IN  at

Visited(t, key) == Range(Path(t, key)) \ {NULL}

LastVisited(t, key) ==
  LET path == Path(t, key)
      steps == {n \in DOMAIN path : path[n] # NULL}
  IN  IF steps = {} THEN NULL ELSE path[Max(steps)]

subtree_minimum(t, u) ==
  LET at[n \in 0..Cardinality(Key)] ==
        IF n = 0 THEN u
        ELSE LET v == at[n - 1] IN IF t.left[v] = NULL THEN v ELSE t.left[v]
  IN  at[Cardinality(Key)]

-----------------------------------------------------------------------------
\* The calls: [tree, ret] results.

tree_insert(t, key, rec) ==
  LET p == LastVisited(t, key)
      z == [t EXCEPT !.nodes = @ \cup {key}, !.record[key] = rec,
                     !.parent[key] = p, !.left[key] = NULL, !.right[key] = NULL]
      linked == IF p = NULL THEN [z EXCEPT !.root = key]
                ELSE IF p < key THEN [z EXCEPT !.right[p] = key]
                ELSE [z EXCEPT !.left[p] = key]
  IN  IF key \in Visited(t, key) THEN [tree |-> t, ret |-> 0]
      ELSE [tree |-> [splay(linked, key) EXCEPT !.node_count = @ + 1], ret |-> 1]

tree_find(t, key) == IF key \in Visited(t, key) THEN t.record[key] ELSE NULL

\* Mutant: the last node visited is taken for the nearest.
tree_find_nearest_last(t, key) ==
  LET z == LastVisited(t, key) IN IF z = NULL \/ z > key THEN NULL ELSE t.record[z]

tree_find_nearest(t, key) ==
  LET smaller == {z \in Visited(t, key) : z < key}
  IN  IF key \in Visited(t, key) THEN t.record[key]
      ELSE IF smaller = {} THEN NULL ELSE t.record[Max(smaller)]

free(t, z) ==
  [t EXCEPT !.nodes = @ \ {z}, !.node_count = @ - 1,
            !.left[z] = NULL, !.right[z] = NULL, !.parent[z] = NULL, !.record[z] = NULL]

\* Mutant: the successor's right subtree is not handed to its parent.
CutOut_lost(s, key) ==
  LET l == s.left[key]
      r == s.right[key]
      y == subtree_minimum(s, r)
      s1 == IF s.parent[y] = key THEN s
            ELSE SetParent([replace(s, y, NULL) EXCEPT !.right[y] = r], r, y)
  IN  IF l = NULL THEN replace(s, key, r)
      ELSE IF r = NULL THEN replace(s, key, l)
      ELSE SetParent([replace(s1, key, y) EXCEPT !.left[y] = l], l, y)

\* The root key of s gives way to a child or to its successor.
CutOut(s, key) ==
  LET l == s.left[key]
      r == s.right[key]
      y == subtree_minimum(s, r)
      above == replace(s, y, s.right[y])
      s1 == IF s.parent[y] = key THEN s
            ELSE [above EXCEPT !.right[y] = above.right[key],
                               !.parent[above.right[key]] = y]
  IN  IF l = NULL THEN replace(s, key, r)
      ELSE IF r = NULL THEN replace(s, key, l)
      ELSE SetParent([replace(s1, key, y) EXCEPT !.left[y] = l], l, y)

tree_remove(t, key) ==
  IF key \notin Visited(t, key) THEN [tree |-> t, ret |-> NULL]
  ELSE [tree |-> free(CutOut(splay(t, key), key), key), ret |-> t.record[key]]

-----------------------------------------------------------------------------
Result(op, k, value) == [op |-> op, key |-> k, value |-> value]

TreeInit == tree = NoTree /\ ret = Result("new", NULL, NULL)

Insert(k, r) ==
  LET done == tree_insert(tree, k, r)
  IN  tree' = done.tree /\ ret' = Result("insert", k, done.ret)

Find(k) ==
  ret' = Result("find", k, tree_find(tree, k)) /\ UNCHANGED tree

FindNearest(k) ==
  ret' = Result("find_nearest", k, tree_find_nearest(tree, k)) /\ UNCHANGED tree

Remove(k) ==
  LET done == tree_remove(tree, k)
  IN  tree' = done.tree /\ ret' = Result("remove", k, done.ret)

TreeNext ==
  \E k \in Key :
    \/ \E r \in Record : Insert(k, r)
    \/ Find(k) \/ FindNearest(k) \/ Remove(k)

TreeSpec == TreeInit /\ [][TreeNext]_<<tree, ret>>

-----------------------------------------------------------------------------
NodeOrNull == Key \cup {NULL}

TreeTyped ==
  /\ tree.root \in NodeOrNull /\ tree.nodes \subseteq Key /\ tree.node_count \in Nat
  /\ tree.left \in [Key -> NodeOrNull] /\ tree.right \in [Key -> NodeOrNull]
  /\ tree.parent \in [Key -> NodeOrNull]
  /\ tree.record \in [Key -> Record \cup {NULL}]

\* The nodes at and below u, by the parent links.
Below(u) ==
  {v \in tree.nodes :
     LET up[n \in 0..Cardinality(Key)] ==
           IF n = 0 THEN v
           ELSE LET w == up[n - 1] IN IF w = NULL THEN NULL ELSE tree.parent[w]
     IN  u \in Range(up)}

\* Whatever was inserted and removed, the links are those of one search tree
\* over exactly the allocated nodes: child and parent links agree, no freed
\* node is linked, all smaller keys are on the left and all larger ones on the
\* right, and node_count is their number (stree.c:41-140, 164-223).
SearchTree ==
  /\ TreeTyped
  /\ tree.node_count = Cardinality(tree.nodes)
  /\ (tree.root = NULL) = (tree.nodes = {})
  /\ tree.root # NULL => tree.parent[tree.root] = NULL /\ Below(tree.root) = tree.nodes
  /\ \A u \in tree.nodes :
       /\ tree.left[u] # NULL =>
            /\ tree.left[u] \in tree.nodes /\ tree.parent[tree.left[u]] = u
            /\ \A v \in Below(tree.left[u]) : v < u
       /\ tree.right[u] # NULL =>
            /\ tree.right[u] \in tree.nodes /\ tree.parent[tree.right[u]] = u
            /\ \A v \in Below(tree.right[u]) : v > u
       /\ u # tree.root => tree.parent[u] # NULL /\ u \in {tree.left[tree.parent[u]],
                                                           tree.right[tree.parent[u]]}

Map == INSTANCE OrderedMap WITH
  None <- NULL, map <- [k \in tree.nodes |-> tree.record[k]]

\* The tree implements the ordered map: find_nearest, which leaves the search
\* path at a leaf, still answers with the closest key below.
ImplementsOrderedMap == Map!MapSpec
=============================================================================
