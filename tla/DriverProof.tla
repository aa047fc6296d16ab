---------------------------- MODULE DriverProof ----------------------------
(***************************************************************************)
(* Theorems about the trace driver and the splay tree of its range set.    *)
(*                                                                         *)
(* The splay tree: what makes links a search tree is said by two bounds    *)
(* for every node, between which it and all nodes below it lie: a left     *)
(* child inherits the lower one and has its parent for the upper, a right  *)
(* child the other way round.  A rotation, an insertion and a removal      *)
(* change few of them.                                                     *)
(*                                                                         *)
(* The driver, for any heap, trace, sizes and fill: the range set stays    *)
(* linked and keeps to the tree, says an allocator is wrong only when it   *)
(* is, and lets no payload start inside another; and the bytes and totals  *)
(* are judged by what the allocator did to them.                           *)
(***************************************************************************)
EXTENDS RangeSet, Driver, FiniteSetTheorems, WellFoundedInduction, TLAPS

-----------------------------------------------------------------------------
(* Least and greatest elements                                             *)

LEMMA LeastElement ==
  ASSUME NEW T \in SUBSET Nat, T # {}
  PROVE  \E x \in T : \A y \in T : x <= y
<1>1. IsWellFoundedOn(OpToRel(<, Nat), Nat)
  BY NatLessThanWellFounded
<1>2. PICK x \in T : \A y \in T : ~ (<<y, x>> \in OpToRel(<, Nat))
  BY <1>1, WFMin
<1>3. \A y \in T : ~(y < x)
  BY <1>2 DEF OpToRel
<1> QED
  BY <1>3

\* A set of finite sets that is not empty has one that contains no other.
LEMMA SmallestSet ==
  ASSUME NEW S, IsFiniteSet(S), NEW B \in SUBSET (SUBSET S), B # {}
  PROVE  \E T \in B : \A U \in SUBSET T : U # T => U \notin B
<1> DEFINE sizes == {n \in Nat : \E T \in B : Cardinality(T) = n}
<1>1. \A T \in SUBSET S : IsFiniteSet(T) /\ Cardinality(T) \in Nat
  BY FS_Subset, FS_CardinalityType
<1>2. PICK n \in sizes : \A k \in sizes : n <= k
  <2>1. sizes \in SUBSET Nat /\ sizes # {}
    BY <1>1
  <2> HIDE DEF sizes
  <2> QED
    BY <2>1, LeastElement
<1>3. PICK T \in B : Cardinality(T) = n
  BY <1>2
<1>4. ASSUME NEW U \in SUBSET T, U # T, U \in B PROVE FALSE
  <2>1. Cardinality(U) \in Nat /\ Cardinality(U) <= n /\ Cardinality(U) # n
    BY <1>1, <1>3, <1>4, FS_Subset
  <2>2. Cardinality(U) \in sizes
    BY <1>4, <2>1
  <2> QED
    BY <1>2, <2>1, <2>2
<1> QED
  BY <1>3, <1>4

LEMMA GreatestElement ==
  ASSUME NEW T \in SUBSET Nat, IsFiniteSet(T), T # {}
  PROVE  Max(T) \in T /\ \A y \in T : y <= Max(T)
<1> DEFINE above(x) == {y \in T : y > x}
           Tails == {above(x) : x \in T}
<1>1. PICK U \in Tails : \A V \in SUBSET U : V # U => V \notin Tails
  <2>1. Tails \in SUBSET (SUBSET T) /\ Tails # {}
    OBVIOUS
  <2> HIDE DEF Tails
  <2> QED
    BY <2>1, SmallestSet
<1>2. PICK x \in T : U = above(x)
  BY <1>1
<1>3. ASSUME NEW y \in T, y > x PROVE FALSE
  <2>1. \A z \in T : z > y => z > x
    BY <1>3
  <2>2. {z \in T : z > y} \subseteq {z \in T : z > x}
    BY <2>1
  <2>3. y \in {z \in T : z > x} /\ y \notin {z \in T : z > y}
    BY <1>3
  <2>4. above(y) \in Tails
    OBVIOUS
  <2>5. above(y) \in SUBSET U /\ y \in U /\ y \notin above(y)
    BY <1>2, <2>2, <2>3
  <2> HIDE DEF above, Tails
  <2> QED
    BY <1>1, <2>4, <2>5
<1>4. \A y \in T : x >= y
  BY <1>3
<1>5. \E m \in T : \A y \in T : m >= y
  BY <1>4
<1> QED
  BY <1>5 DEF Max

-----------------------------------------------------------------------------
(* Functions that are defined step by step                                 *)

\* Induction up to N.
LEMMA UpTo ==
  ASSUME NEW N \in Nat, NEW G, 0 \in G, \A n \in 1..N : n - 1 \in G => n \in G
  PROVE  \A n \in 0..N : n \in G
<1> DEFINE Bad == {n \in 0..N : n \notin G}
<1> SUFFICES ASSUME Bad # {} PROVE FALSE
  OBVIOUS
<1>1. PICK m \in Bad : \A k \in Bad : m <= k
  <2>1. Bad \in SUBSET Nat
    OBVIOUS
  <2> HIDE DEF Bad
  <2> QED
    BY <2>1, LeastElement
<1>2. m \in 1..N /\ m - 1 \in 0..N /\ ~(m <= m - 1)
  BY <1>1
<1>3. m - 1 \in G
  BY <1>1, <1>2
<1> QED
  BY <1>1, <1>2, <1>3

\* N steps of F from a.
Steps(f, F, a, N) == f = [n \in 0..N |-> IF n = 0 THEN a ELSE F[f[n - 1]]]

\* A function that is defined by such steps exists.
LEMMA Iterates ==
  ASSUME NEW S, NEW F \in [S -> S], NEW a \in S, NEW N \in Nat
  PROVE  \E f \in [0..N -> S] : Steps(f, F, a, N)
<1> DEFINE Iter(f, m) == f \in [0..m -> S] /\ f = [n \in 0..m |-> IF n = 0 THEN a ELSE F[f[n - 1]]]
           Has(m) == \E f : Iter(f, m)
           Bad == {m \in Nat : ~Has(m)}
<1> SUFFICES ASSUME Bad # {} PROVE FALSE
  BY DEF Steps
<1> HIDE DEF Has
<1>1. PICK m \in Bad : \A k \in Bad : m <= k
  <2>1. Bad \in SUBSET Nat
    OBVIOUS
  <2> HIDE DEF Bad
  <2> QED
    BY <2>1, LeastElement
<1>2. CASE m = 0
  <2> DEFINE f == [n \in 0..0 |-> a]
  <2>1. Iter(f, m)
    BY <1>2
  <2> HIDE DEF f
  <2>2. Has(m)
    BY <2>1 DEF Has
  <2> QED
    BY <1>1, <2>2
<1>3. CASE m > 0
  <2>1. m - 1 \in Nat /\ m - 1 < m
    BY <1>1, <1>3
  <2>2. PICK g : Iter(g, m - 1)
    <3>1. Has(m - 1)
      BY <1>1, <2>1
    <3> QED
      BY <3>1 DEF Has
  <2> DEFINE f == [n \in 0..m |-> IF n < m THEN g[n] ELSE F[g[m - 1]]]
  <2>3. \A n \in 0..(m - 1) : f[n] = g[n] /\ g[n] \in S
    BY <1>1, <2>1, <2>2
  <2>4. f[m] = F[g[m - 1]] /\ g[m - 1] \in S
    BY SMTT(30), <1>1, <2>1, <2>2
  <2>5. f \in [0..m -> S]
    BY <1>1, <2>2, <2>4
  <2>6. ASSUME NEW n \in 0..m PROVE f[n] = IF n = 0 THEN a ELSE F[f[n - 1]]
    <3>1. CASE n = 0
      BY <2>3, <1>3, <2>2, <3>1
    <3>2. CASE n \in 1..(m - 1)
      <4>1. n - 1 \in 0..(m - 1) /\ n \in 0..(m - 1) /\ n # 0
        BY <1>1, <3>2
      <4>2. g[n] = F[g[n - 1]]
        BY <2>2, <4>1
      <4> QED
        BY <2>3, <4>1, <4>2
    <3>3. CASE n = m
      <4>1. m - 1 \in 0..(m - 1)
        BY <1>1, <2>1
      <4> QED
        BY <1>3, <2>3, <2>4, <3>3, <4>1
    <3> QED
      BY <1>1, <1>3, <3>1, <3>2, <3>3
  <2>7. Iter(f, m)
    BY <2>5, <2>6
  <2> HIDE DEF f
  <2>8. Has(m)
    BY <2>7 DEF Has
  <2> QED
    BY <1>1, <2>8
<1> QED
  BY <1>1, <1>2, <1>3

-----------------------------------------------------------------------------
(* The bounds                                                              *)

\* A number above all keys.
Top == CHOOSE n \in Nat : \A k \in Key : k < n

LEMMA TopAbove == Top \in Nat /\ \A k \in Key : k < Top
<1>1. Key \in SUBSET Nat /\ IsFiniteSet(Key)
  BY KeyAssumption
<1>2. CASE Key = {}
  BY <1>2 DEF Top
<1>3. CASE Key # {}
  <2>1. PICK m \in Key : \A y \in Key : y <= m
    BY <1>1, <1>3, GreatestElement
  <2>2. m + 1 \in Nat /\ \A y \in Key : y < m + 1
    BY <1>1, <2>1
  <2>3. \E n \in Nat : \A k \in Key : k < n
    BY <2>2
  <2> QED
    BY <2>3 DEF Top
<1> QED
  BY <1>2, <1>3

\* The keys between two bounds, and how many they are.
Between(low, high) == {k \in Key : low < k /\ k < high}
Width(low, high) == Cardinality(Between(low, high))

LEMMA Widths ==
  ASSUME NEW a, NEW b
  PROVE  /\ Width(a, b) \in Nat /\ Width(a, b) <= Cardinality(Key) /\ Cardinality(Key) \in Nat
         /\ \A c, d : Between(a, b) \subseteq Between(c, d) => Width(a, b) <= Width(c, d)
         /\ \A c, d : /\ Between(a, b) \subseteq Between(c, d) /\ Between(a, b) # Between(c, d)
                      => Width(a, b) < Width(c, d)
<1>1. \A c, d : Between(c, d) \in SUBSET Key
  BY DEF Between
<1>2. IsFiniteSet(Key) /\ Cardinality(Key) \in Nat
  BY KeyAssumption, FS_CardinalityType
<1>3. \A c, d : IsFiniteSet(Between(c, d)) /\ Cardinality(Between(c, d)) \in Nat
        /\ Cardinality(Between(c, d)) <= Cardinality(Key)
  BY <1>1, <1>2, FS_Subset, FS_CardinalityType
<1>4. ASSUME NEW c, NEW d, Between(a, b) \subseteq Between(c, d)
      PROVE  /\ Width(a, b) <= Width(c, d)
             /\ Between(a, b) # Between(c, d) => Width(a, b) < Width(c, d)
  <2>1. Cardinality(Between(a, b)) <= Cardinality(Between(c, d))
    BY <1>3, <1>4, FS_Subset
  <2>2. Cardinality(Between(a, b)) = Cardinality(Between(c, d)) => Between(a, b) = Between(c, d)
    BY <1>3, <1>4, FS_Subset
  <2> QED
    BY <1>3, <2>1, <2>2 DEF Width
<1> QED
  BY <1>2, <1>3, <1>4 DEF Width

LEMMA Narrower ==
  ASSUME NEW a \in Int, NEW b \in Int, NEW c \in Int, NEW d \in Int, c <= a, b <= d
  PROVE  Between(a, b) \subseteq Between(c, d)
<1>1. \A k \in Key : k \in Int
  BY KeyAssumption
<1>2. \A k \in Key : a < k /\ k < b => c < k /\ k < d
  BY <1>1
<1> QED
  BY <1>2 DEF Between

\* The fields of a tree.
Record8(t) ==
  t = [root |-> t.root, node_count |-> t.node_count, nodes |-> t.nodes,
       left |-> t.left, right |-> t.right, parent |-> t.parent, record |-> t.record]

Typed(t) ==
  /\ Record8(t)
  /\ t.root \in NodeOrNull /\ t.nodes \subseteq Key
  /\ t.left \in [Key -> NodeOrNull] /\ t.right \in [Key -> NodeOrNull]
  /\ t.parent \in [Key -> NodeOrNull] /\ t.record \in [Key -> Record \cup {NULL}]

Rooted(t, low, high) ==
  /\ (t.root = NULL) <=> (t.nodes = {})
  /\ t.root # NULL => /\ t.root \in t.nodes /\ t.parent[t.root] = NULL
                      /\ low[t.root] = 0 /\ high[t.root] = Top

\* The node u lies between its bounds, its children inherit them, and there is
\* a child on each side on which there is a node between them.
Placed(t, low, high, u) ==
  /\ low[u] < u /\ u < high[u]
  /\ t.left[u] # NULL =>
       /\ t.left[u] \in t.nodes /\ t.parent[t.left[u]] = u
       /\ low[t.left[u]] = low[u] /\ high[t.left[u]] = u
  /\ t.right[u] # NULL =>
       /\ t.right[u] \in t.nodes /\ t.parent[t.right[u]] = u
       /\ low[t.right[u]] = u /\ high[t.right[u]] = high[u]
  /\ u # t.root => t.parent[u] \in t.nodes /\ u \in {t.left[t.parent[u]], t.right[t.parent[u]]}
  /\ \A v \in t.nodes : /\ low[u] < v /\ v < u => t.left[u] # NULL
                        /\ u < v /\ v < high[u] => t.right[u] # NULL

Bounded(t, low, high) ==
  /\ Typed(t) /\ low \in [Key -> Int] /\ high \in [Key -> Int]
  /\ Rooted(t, low, high)
  /\ \A u \in t.nodes : Placed(t, low, high, u)

-----------------------------------------------------------------------------
(* Who is below whom                                                       *)

\* k lies between the bounds of u.
Holds(low, high, u, k) == low[u] < k /\ k < high[u]

ChildTo(t, u, k) == IF k < u THEN t.left[u] ELSE t.right[u]

LEMMA Numbers ==
  ASSUME NEW t, NEW low, NEW high, Bounded(t, low, high), NEW u \in t.nodes
  PROVE  /\ u \in Key /\ u \in Nat /\ u > 0 /\ u # NULL /\ u < Top /\ Top \in Nat
         /\ low[u] \in Int /\ high[u] \in Int
         /\ Holds(low, high, u, u) /\ Width(low[u], high[u]) \in Nat
<1>1. u \in Key /\ low[u] \in Int /\ high[u] \in Int /\ Placed(t, low, high, u)
  BY DEF Bounded, Typed
<1> QED
  BY <1>1, KeyAssumption, TopAbove, Widths DEF Placed, Holds, NULL

LEMMA WidthPositive ==
  ASSUME NEW t, NEW low, NEW high, Bounded(t, low, high), NEW u \in t.nodes
  PROVE  Width(low[u], high[u]) >= 1
<1>1. \A k \in Key : ~(0 < k /\ k < 0)
  BY KeyAssumption
<1>2. Between(0, 0) = {}
  BY <1>1 DEF Between
<1>3. u \in Between(low[u], high[u])
  BY Numbers DEF Between, Holds
<1>4. Width(0, 0) < Width(low[u], high[u])
  BY <1>2, <1>3, Widths
<1> QED
  BY <1>4, Widths

LEMMA ChildHolds ==
  ASSUME NEW t, NEW low, NEW high, Bounded(t, low, high), NEW u \in t.nodes,
         NEW k \in Int, Holds(low, high, u, k), k # u,
         NEW c, c = ChildTo(t, u, k), c # NULL
  PROVE  /\ c \in t.nodes /\ t.parent[c] = u
         /\ Holds(low, high, c, k) /\ Holds(low, high, u, c) /\ ~Holds(low, high, c, u)
         /\ low[u] <= low[c] /\ high[c] <= high[u]
         /\ Width(low[c], high[c]) < Width(low[u], high[u])
<1>1. Placed(t, low, high, u) /\ u \in Nat /\ low[u] \in Int /\ high[u] \in Int /\ u \in Key
  BY Numbers DEF Bounded
<1>2. c \in t.nodes
  BY <1>1 DEF Placed, ChildTo
<1>3. c \in Nat /\ low[c] \in Int /\ high[c] \in Int /\ low[c] < c /\ c < high[c]
  BY <1>2, Numbers DEF Holds
<1>4. k < u \/ u < k
  BY <1>1
<1>5. /\ t.parent[c] = u
      /\ Holds(low, high, c, k) /\ Holds(low, high, u, c) /\ ~Holds(low, high, c, u)
      /\ low[u] <= low[c] /\ high[c] <= high[u]
  <2>1. CASE k < u
    <3>1. c = t.left[u] /\ low[c] = low[u] /\ high[c] = u /\ t.parent[c] = u
      BY <1>1, <2>1 DEF ChildTo, Placed
    <3> QED
      BY <1>1, <1>3, <2>1, <3>1 DEF Holds, Placed
  <2>2. CASE u < k
    <3>1. c = t.right[u] /\ low[c] = u /\ high[c] = high[u] /\ t.parent[c] = u
      BY <1>1, <2>2 DEF ChildTo, Placed
    <3> QED
      BY <1>1, <1>3, <2>2, <3>1 DEF Holds, Placed
  <2> QED
    BY <1>4, <2>1, <2>2
<1>6. Between(low[c], high[c]) \subseteq Between(low[u], high[u])
  BY <1>1, <1>3, <1>5, Narrower
<1>7. u \in Between(low[u], high[u]) /\ u \notin Between(low[c], high[c])
  BY <1>1, <1>5 DEF Between, Holds, Placed
<1>8. Width(low[c], high[c]) < Width(low[u], high[u])
  BY <1>6, <1>7, Widths
<1> QED
  BY <1>2, <1>5, <1>8

LEMMA ChildThere ==
  ASSUME NEW t, NEW low, NEW high, Bounded(t, low, high), NEW u \in t.nodes,
         NEW v \in t.nodes, Holds(low, high, u, v), v # u
  PROVE  ChildTo(t, u, v) # NULL
<1>1. Placed(t, low, high, u) /\ u \in Nat /\ v \in Nat
  BY Numbers DEF Bounded
<1> QED
  BY <1>1 DEF Placed, ChildTo, Holds

\* Of some nodes, one with the fewest keys between its bounds.
LEMMA Narrowest ==
  ASSUME NEW t, NEW low, NEW high, Bounded(t, low, high), NEW B \in SUBSET t.nodes, B # {}
  PROVE  \E w \in B : \A x \in B : Width(low[w], high[w]) <= Width(low[x], high[x])
<1> DEFINE W == {Width(low[x], high[x]) : x \in B}
<1>1. W \in SUBSET Nat /\ W # {}
  BY Numbers
<1>2. \E n \in W : \A k \in W : n <= k
  <2> HIDE DEF W
  <2> QED
    BY <1>1, LeastElement
<1> QED
  BY <1>2

\* Bounds that are below one another are nested.
LEMMA Nested ==
  ASSUME NEW t, NEW low, NEW high, Bounded(t, low, high), NEW u \in t.nodes,
         NEW v \in t.nodes, Holds(low, high, u, v), v # u
  PROVE  /\ low[u] <= low[v] /\ high[v] <= high[u]
         /\ t.parent[v] \in t.nodes /\ Holds(low, high, u, t.parent[v])
<1> DEFINE Good(w, x) == /\ low[w] <= low[x] /\ high[x] <= high[w]
                         /\ t.parent[x] \in t.nodes /\ Holds(low, high, w, t.parent[x])
           Bad == {w \in t.nodes : Holds(low, high, w, v) /\ v # w /\ ~Good(w, v)}
<1> SUFFICES ASSUME u \in Bad PROVE FALSE
  OBVIOUS
<1>1. PICK w \in Bad : \A x \in Bad : Width(low[w], high[w]) <= Width(low[x], high[x])
  <2>1. Bad \in SUBSET t.nodes /\ Bad # {}
    OBVIOUS
  <2> HIDE DEF Bad
  <2> QED
    BY <2>1, Narrowest
<1>2. PICK c : c = ChildTo(t, w, v)
  OBVIOUS
<1>3. w \in t.nodes /\ Holds(low, high, w, v) /\ v # w /\ ~Good(w, v) /\ v \in Int /\ c # NULL
  BY <1>1, <1>2, Numbers, ChildThere
<1>4. /\ c \in t.nodes /\ t.parent[c] = w /\ Holds(low, high, c, v)
      /\ low[w] <= low[c] /\ high[c] <= high[w]
      /\ Width(low[c], high[c]) < Width(low[w], high[w])
  BY <1>2, <1>3, ChildHolds
<1>5. /\ low[w] \in Int /\ low[c] \in Int /\ low[v] \in Int /\ high[w] \in Int
      /\ high[c] \in Int /\ high[v] \in Int /\ Holds(low, high, w, w)
      /\ Width(low[c], high[c]) \in Nat /\ Width(low[w], high[w]) \in Nat
  BY <1>3, <1>4, Numbers
<1>6. CASE c = v
  BY <1>3, <1>4, <1>6, <1>5
<1>7. CASE c # v
  <2>1. c \notin Bad
    BY <1>1, <1>4, <1>5
  <2>2. Good(c, v)
    BY <2>1, <1>4, <1>7
  <2>3. t.parent[v] \in Int
    BY <2>2, Numbers
  <2>4. Good(w, v)
    BY <1>4, <1>5, <2>2, <2>3 DEF Holds
  <2> QED
    BY <1>3, <2>4
<1> QED
  BY <1>6, <1>7

\* The bounds of two nodes are nested or apart.
LEMMA Laminar ==
  ASSUME NEW t, NEW low, NEW high, Bounded(t, low, high), NEW u \in t.nodes, NEW v \in t.nodes
  PROVE  \/ Holds(low, high, u, v) \/ Holds(low, high, v, u)
         \/ high[u] <= low[v] \/ high[v] <= low[u]
<1> SUFFICES ASSUME ~Holds(low, high, u, v), ~Holds(low, high, v, u)
             PROVE  high[u] <= low[v] \/ high[v] <= low[u]
  OBVIOUS
<1> DEFINE Both == {w \in t.nodes : Holds(low, high, w, u) /\ Holds(low, high, w, v)}
<1>1. t.root \in Both
  <2>1. t.root \in t.nodes /\ low[t.root] = 0 /\ high[t.root] = Top
    BY DEF Bounded, Rooted
  <2> QED
    BY <2>1, Numbers DEF Holds
<1>2. PICK w \in Both : \A x \in Both : Width(low[w], high[w]) <= Width(low[x], high[x])
  <2>1. Both \in SUBSET t.nodes /\ Both # {}
    BY <1>1
  <2> HIDE DEF Both
  <2> QED
    BY <2>1, Narrowest
<1>3. w \in t.nodes /\ Holds(low, high, w, u) /\ Holds(low, high, w, v) /\ w # u /\ w # v
  BY <1>2
<1>4. PICK c, d : c = ChildTo(t, w, u) /\ d = ChildTo(t, w, v)
  OBVIOUS
<1>5. u \in Int /\ v \in Int /\ w \in Int
  BY <1>3, Numbers
<1>6. /\ c \in t.nodes /\ Holds(low, high, c, u)
      /\ Width(low[c], high[c]) < Width(low[w], high[w])
  BY <1>3, <1>4, <1>5, ChildHolds, ChildThere
<1>7. d \in t.nodes /\ Holds(low, high, d, v)
  BY <1>3, <1>4, <1>5, ChildHolds, ChildThere
<1>8. c # d
  <2>1. SUFFICES ASSUME c = d PROVE FALSE
    OBVIOUS
  <2>2. c \in Both
    BY <1>6, <1>7, <2>1
  <2>3. Width(low[c], high[c]) \in Nat /\ Width(low[w], high[w]) \in Nat
    BY <1>3, <1>6, Numbers
  <2> QED
    BY <1>2, <1>6, <2>2, <2>3
<1>9. \A x \in {c, d, u, v} : low[x] \in Int /\ high[x] \in Int /\ Holds(low, high, x, x)
  BY <1>6, <1>7, Numbers
<1>10. low[c] <= low[u] /\ high[u] <= high[c]
  BY <1>6, <1>9, Nested
<1>11. low[d] <= low[v] /\ high[v] <= high[d]
  BY <1>7, <1>9, Nested
<1>12. c \in {t.left[w], t.right[w]} /\ d \in {t.left[w], t.right[w]} /\ c # NULL /\ d # NULL
  BY <1>3, <1>4, <1>6, <1>7, Numbers DEF ChildTo
<1>13. Placed(t, low, high, w)
  BY <1>3 DEF Bounded
<1>14. CASE c = t.left[w] /\ d = t.right[w]
  <2>1. high[c] = w /\ low[d] = w
    BY <1>12, <1>13, <1>14 DEF Placed
  <2> QED
    BY <1>5, <1>9, <1>10, <1>11, <2>1
<1>15. CASE c = t.right[w] /\ d = t.left[w]
  <2>1. low[c] = w /\ high[d] = w
    BY <1>12, <1>13, <1>15 DEF Placed
  <2> QED
    BY <1>5, <1>9, <1>10, <1>11, <2>1
<1> QED
  BY <1>8, <1>12, <1>14, <1>15

-----------------------------------------------------------------------------
(* Below, by the parent links                                              *)

Up(v) ==
  LET up[n \in 0..Cardinality(Key)] ==
        IF n = 0 THEN v
        ELSE LET w == up[n - 1] IN IF w = NULL THEN NULL ELSE tree.parent[w]
  IN  up

LEMMA UpIs ==
  ASSUME Typed(tree), NEW v \in tree.nodes
  PROVE  /\ Up(v) \in [0..Cardinality(Key) -> NodeOrNull] /\ Up(v)[0] = v
         /\ \A n \in 1..Cardinality(Key) :
              Up(v)[n] = IF Up(v)[n - 1] = NULL THEN NULL ELSE tree.parent[Up(v)[n - 1]]
<1> DEFINE N == Cardinality(Key)
           F == [w \in NodeOrNull |-> IF w = NULL THEN NULL ELSE tree.parent[w]]
           Is(f) == f = [n \in 0..N |-> IF n = 0 THEN v
                           ELSE IF f[n - 1] = NULL THEN NULL ELSE tree.parent[f[n - 1]]]
<1>1. N \in Nat
  BY Widths
<1>2. F \in [NodeOrNull -> NodeOrNull] /\ v \in NodeOrNull
  BY DEF Typed, NodeOrNull
<1>3. PICK f \in [0..N -> NodeOrNull] : Steps(f, F, v, N)
  <2> HIDE DEF F, N
  <2> QED
    BY <1>1, <1>2, Iterates
<1>4. Is(f)
  <2>1. \A n \in 0..N : n # 0 => f[n - 1] \in NodeOrNull
    BY <1>1, <1>3
  <2>2. \A n \in 0..N : n # 0 =>
          F[f[n - 1]] = IF f[n - 1] = NULL THEN NULL ELSE tree.parent[f[n - 1]]
    BY <2>1
  <2>3. f = [n \in 0..N |-> IF n = 0 THEN v ELSE F[f[n - 1]]]
    BY <1>3 DEF Steps
  <2> HIDE DEF F, N
  <2> QED
    BY <2>2, <2>3
<1>5. Is(Up(v))
  <2>1. Up(v) = CHOOSE g : Is(g)
    BY DEF Up
  <2> HIDE DEF Is
  <2> QED
    BY <1>4, <2>1
<1> DEFINE g == Up(v)
           G == {n \in 0..N : g[n] \in NodeOrNull}
<1>6. /\ g[0] = v
      /\ \A n \in 1..N : g[n] = IF g[n - 1] = NULL THEN NULL ELSE tree.parent[g[n - 1]]
      /\ DOMAIN g = 0..N
  <2>1. ASSUME NEW h, Is(h)
        PROVE  /\ h[0] = v
               /\ \A n \in 1..N : h[n] = IF h[n - 1] = NULL THEN NULL ELSE tree.parent[h[n - 1]]
               /\ DOMAIN h = 0..N
    <3> HIDE DEF N
    <3>1. \A n \in 1..N : n \in 0..N /\ n # 0
      BY <1>1
    <3>2. 0 \in 0..N
      BY <1>1
    <3> QED
      BY <2>1, <3>1, <3>2
  <2> QED
    BY <1>5, <2>1
<1>7. \A n \in 0..N : n \in G
  <2>1. 0 \in G
    BY <1>1, <1>2, <1>6
  <2>2. ASSUME NEW n \in 1..N, n - 1 \in G PROVE n \in G
    <3>1. g[n - 1] \in NodeOrNull /\ n \in 0..N
      BY <2>2, <1>1
    <3>2. g[n] = F[g[n - 1]]
      BY <1>6, <3>1
    <3>3. g[n] \in NodeOrNull
      BY <1>2, <3>1, <3>2
    <3> QED
      BY <3>1, <3>3
  <2> HIDE DEF G, N
  <2> QED
    BY <1>1, <2>1, <2>2, UpTo
<1>8. \A n \in 0..N : g[n] \in NodeOrNull
  BY <1>7
<1>9. g = [n \in 0..N |-> g[n]]
  BY <1>5
<1>10. g \in [0..N -> NodeOrNull]
  <2> HIDE DEF g, N
  <2> QED
    BY <1>8, <1>9
<1> QED
  BY <1>6, <1>10

\* The nodes below u are those between its bounds.
LEMMA BelowIs ==
  ASSUME NEW low, NEW high, Bounded(tree, low, high), NEW u \in tree.nodes
  PROVE  Below(u) = {v \in tree.nodes : Holds(low, high, u, v)}
<1> DEFINE N == Cardinality(Key)
<1>1. N \in Nat
  BY Widths
<1>2. Below(u) = {v \in tree.nodes : u \in Range(Up(v))}
  BY DEF Below, Up
<1>3. ASSUME NEW v \in tree.nodes PROVE u \in Range(Up(v)) <=> Holds(low, high, u, v)
  <2> DEFINE g == Up(v)
  <2>1. /\ g \in [0..N -> NodeOrNull] /\ g[0] = v
        /\ \A n \in 1..N : g[n] = IF g[n - 1] = NULL THEN NULL ELSE tree.parent[g[n - 1]]
    BY UpIs DEF Bounded
  <2> HIDE DEF g, N
  <2>2. ASSUME u \in Range(Up(v)) PROVE Holds(low, high, u, v)
    <3> DEFINE G == {n \in 0..N : g[n] # NULL => g[n] \in tree.nodes /\ Holds(low, high, g[n], v)}
    <3>1. 0 \in G
      BY <1>1, <2>1, Numbers
    <3>2. ASSUME NEW n \in 1..N, n - 1 \in G PROVE n \in G
      <4>1. n - 1 \in 0..N /\ n \in 0..N
        BY <1>1
      <4> SUFFICES ASSUME g[n] # NULL
                   PROVE  g[n] \in tree.nodes /\ Holds(low, high, g[n], v)
        BY <4>1
      <4>2. g[n - 1] # NULL /\ g[n] = tree.parent[g[n - 1]]
        BY <2>1
      <4>3. g[n - 1] \in tree.nodes /\ Holds(low, high, g[n - 1], v)
        BY <3>2, <4>1, <4>2
      <4> DEFINE w == g[n - 1]
      <4> HIDE DEF w
      <4>4. w \in tree.nodes /\ Holds(low, high, w, v) /\ tree.parent[w] # NULL
            /\ g[n] = tree.parent[w]
        BY <4>2, <4>3 DEF w
      <4>5. w # tree.root
        BY <4>4 DEF Bounded, Rooted
      <4>6. PICK p : p = tree.parent[w]
        OBVIOUS
      <4>7. p \in tree.nodes /\ w \in {tree.left[p], tree.right[p]} /\ w # NULL
        BY <4>4, <4>5, <4>6, Numbers DEF Bounded, Placed
      <4>8. \/ low[w] = low[p] /\ high[w] = p
            \/ low[w] = p /\ high[w] = high[p]
        BY <4>7 DEF Bounded, Placed
      <4>9. /\ low[w] \in Int /\ high[w] \in Int /\ low[p] \in Int /\ high[p] \in Int
            /\ v \in Int /\ p \in Int /\ low[p] < p /\ p < high[p]
        BY <4>4, <4>7, Numbers DEF Holds
      <4>10. Holds(low, high, p, v)
        BY <4>4, <4>8, <4>9 DEF Holds
      <4> QED
        BY <4>4, <4>6, <4>7, <4>10
    <3>3. \A n \in 0..N : n \in G
      <4> HIDE DEF G
      <4> QED
        BY <1>1, <3>1, <3>2, UpTo
    <3>4. PICK n \in 0..N : g[n] = u
      BY <2>1, <2>2 DEF Range, g
    <3> QED
      BY <3>3, <3>4, Numbers
  <2>3. ASSUME Holds(low, high, u, v) PROVE u \in Range(Up(v))
    <3> SUFFICES ASSUME \A n \in 0..N : g[n] # u PROVE FALSE
      BY <2>1 DEF Range, g
    <3> DEFINE Fine(n) == /\ g[n] \in tree.nodes /\ Holds(low, high, u, g[n])
                          /\ Width(low[g[n]], high[g[n]]) >= n + 1
               G == {n \in 0..N : Fine(n)}
    <3>1. 0 \in G
      <4>1. Fine(0)
        BY <2>1, <2>3, WidthPositive
      <4> QED
        BY <1>1, <4>1
    <3>2. ASSUME NEW n \in 1..N, n - 1 \in G PROVE n \in G
      <4>1. n - 1 \in 0..N /\ n \in 0..N
        BY <1>1
      <4> DEFINE w == g[n - 1]
      <4>2. w \in tree.nodes /\ Holds(low, high, u, w) /\ Width(low[w], high[w]) >= n /\ w # u
        BY <3>2, <4>1
      <4>3. g[n] = tree.parent[w]
        BY <2>1, <4>2, Numbers
      <4> HIDE DEF w
      <4> DEFINE p == tree.parent[w]
      <4>4. p \in tree.nodes /\ Holds(low, high, u, p)
        BY <4>2, Nested
      <4>5. w # tree.root
        <5>1. SUFFICES ASSUME w = tree.root PROVE FALSE
          OBVIOUS
        <5>2. tree.parent[w] = NULL
          BY <4>2, <5>1, Numbers DEF Bounded, Rooted
        <5> QED
          BY <4>4, <5>2, Numbers
      <4>6. w \in {tree.left[p], tree.right[p]} /\ w # NULL
        BY <4>2, <4>5, Numbers DEF Bounded, Placed
      <4>7. w \in Int /\ p \in Int /\ Placed(tree, low, high, p)
        BY <4>2, <4>4, Numbers DEF Bounded
      <4>8. w = ChildTo(tree, p, w) /\ Holds(low, high, p, w) /\ w # p
        <5>1. low[w] \in Int /\ high[w] \in Int /\ low[p] \in Int /\ high[p] \in Int
              /\ low[w] < w /\ w < high[w] /\ low[p] < p /\ p < high[p]
          BY <4>2, <4>4, Numbers DEF Holds
        <5>2. CASE w = tree.left[p]
          <6>1. low[w] = low[p] /\ high[w] = p
            BY <4>6, <4>7, <5>2 DEF Placed
          <6> QED
            BY <4>7, <5>1, <5>2, <6>1 DEF ChildTo, Holds
        <5>3. CASE w = tree.right[p]
          <6>1. low[w] = p /\ high[w] = high[p]
            BY <4>6, <4>7, <5>3 DEF Placed
          <6> QED
            BY <4>7, <5>1, <5>3, <6>1 DEF ChildTo, Holds
        <5> QED
          BY <4>6, <5>2, <5>3
      <4>9. Width(low[w], high[w]) < Width(low[p], high[p])
        BY <4>4, <4>6, <4>7, <4>8, ChildHolds
      <4>10. Width(low[w], high[w]) \in Nat /\ Width(low[p], high[p]) \in Nat
        BY <4>2, <4>4, Numbers
      <4>11. Width(low[p], high[p]) >= n + 1
        BY <4>2, <4>9, <4>10
      <4>12. Fine(n)
        BY <4>3, <4>4, <4>11
      <4> QED
        BY <4>1, <4>12
    <3>3. \A n \in 0..N : n \in G
      <4> HIDE DEF G
      <4> QED
        BY <1>1, <3>1, <3>2, UpTo
    <3>4. Fine(N)
      BY <1>1, <3>3
    <3>5. Width(low[g[N]], high[g[N]]) \in Nat /\ Width(low[g[N]], high[g[N]]) <= N
      BY Widths DEF N
    <3> QED
      BY <1>1, <3>4, <3>5
  <2> QED
    BY <2>2, <2>3
<1> QED
  BY <1>2, <1>3

-----------------------------------------------------------------------------
(* What a rotation does to the links                                       *)

\* One field of a tree assigned.
WithRoot(t, v) == [t EXCEPT !.root = v]
WithLeft(t, u, v) == [t EXCEPT !.left[u] = v]
WithRight(t, u, v) == [t EXCEPT !.right[u] = v]
WithParent(t, u, v) == [t EXCEPT !.parent[u] = v]

LEMMA RootSet ==
  ASSUME NEW t, Typed(t), NEW v \in NodeOrNull, NEW s, s = WithRoot(t, v)
  PROVE  /\ Typed(s) /\ s.root = v /\ s.node_count = t.node_count /\ s.nodes = t.nodes
         /\ s.left = t.left /\ s.right = t.right /\ s.parent = t.parent /\ s.record = t.record
<1>1. /\ s = [root |-> v, node_count |-> t.node_count, nodes |-> t.nodes, left |-> t.left,
              right |-> t.right, parent |-> t.parent, record |-> t.record]
  BY DEF Typed, Record8, WithRoot
<1> QED
  BY <1>1 DEF Typed, Record8

LEMMA LeftSet ==
  ASSUME NEW t, Typed(t), NEW u \in Key, NEW v \in NodeOrNull,
         NEW s, s = WithLeft(t, u, v)
  PROVE  /\ Typed(s) /\ s.root = t.root /\ s.node_count = t.node_count /\ s.nodes = t.nodes
         /\ s.left = [t.left EXCEPT ![u] = v] /\ s.right = t.right
         /\ s.parent = t.parent /\ s.record = t.record
<1>1. /\ s = [root |-> t.root, node_count |-> t.node_count, nodes |-> t.nodes,
              left |-> [t.left EXCEPT ![u] = v], right |-> t.right, parent |-> t.parent,
              record |-> t.record]
  BY DEF Typed, Record8, WithLeft
<1>2. [t.left EXCEPT ![u] = v] \in [Key -> NodeOrNull]
  BY DEF Typed
<1> QED
  BY <1>1, <1>2 DEF Typed, Record8

LEMMA RightSet ==
  ASSUME NEW t, Typed(t), NEW u \in Key, NEW v \in NodeOrNull,
         NEW s, s = WithRight(t, u, v)
  PROVE  /\ Typed(s) /\ s.root = t.root /\ s.node_count = t.node_count /\ s.nodes = t.nodes
         /\ s.left = t.left /\ s.right = [t.right EXCEPT ![u] = v]
         /\ s.parent = t.parent /\ s.record = t.record
<1>1. /\ s = [root |-> t.root, node_count |-> t.node_count, nodes |-> t.nodes, left |-> t.left,
              right |-> [t.right EXCEPT ![u] = v], parent |-> t.parent, record |-> t.record]
  BY DEF Typed, Record8, WithRight
<1>2. [t.right EXCEPT ![u] = v] \in [Key -> NodeOrNull]
  BY DEF Typed
<1> QED
  BY <1>1, <1>2 DEF Typed, Record8

LEMMA ParentSet ==
  ASSUME NEW t, Typed(t), NEW u \in Key, NEW v \in NodeOrNull,
         NEW s, s = WithParent(t, u, v)
  PROVE  /\ Typed(s) /\ s.root = t.root /\ s.node_count = t.node_count /\ s.nodes = t.nodes
         /\ s.left = t.left /\ s.right = t.right
         /\ s.parent = [t.parent EXCEPT ![u] = v] /\ s.record = t.record
<1>1. /\ s = [root |-> t.root, node_count |-> t.node_count, nodes |-> t.nodes, left |-> t.left,
              right |-> t.right, parent |-> [t.parent EXCEPT ![u] = v], record |-> t.record]
  BY DEF Typed, Record8, WithParent
<1>2. [t.parent EXCEPT ![u] = v] \in [Key -> NodeOrNull]
  BY DEF Typed
<1> QED
  BY <1>1, <1>2 DEF Typed, Record8

\* The node v hangs where u hung.
LEMMA InPlaceFields ==
  ASSUME NEW t, Typed(t), NEW u \in Key, NEW v \in NodeOrNull,
         NEW s, s = InPlaceOf(t, u, v), NEW p, p = t.parent[u]
  PROVE  /\ Typed(s) /\ s.node_count = t.node_count /\ s.nodes = t.nodes
         /\ s.parent = t.parent /\ s.record = t.record
         /\ s.root = IF p = NULL THEN v ELSE t.root
         /\ s.left = IF p # NULL /\ t.left[p] = u THEN [t.left EXCEPT ![p] = v] ELSE t.left
         /\ s.right = IF p # NULL /\ t.left[p] # u THEN [t.right EXCEPT ![p] = v] ELSE t.right
<1>1. CASE p = NULL
  <2>1. s = WithRoot(t, v)
    BY <1>1 DEF InPlaceOf, WithRoot
  <2> QED
    BY <1>1, <2>1, RootSet
<1>2. CASE p # NULL /\ t.left[p] = u
  <2>1. s = WithLeft(t, p, v) /\ p \in Key
    BY <1>2 DEF InPlaceOf, WithLeft, Typed, NodeOrNull
  <2> QED
    BY <1>2, <2>1, LeftSet
<1>3. CASE p # NULL /\ t.left[p] # u
  <2>1. s = WithRight(t, p, v) /\ p \in Key
    BY <1>3 DEF InPlaceOf, WithRight, Typed, NodeOrNull
  <2> QED
    BY <1>3, <2>1, RightSet
<1> QED
  BY <1>1, <1>2, <1>3

LEMMA SetParentFields ==
  ASSUME NEW t, Typed(t), NEW u \in NodeOrNull, NEW p \in NodeOrNull,
         NEW s, s = SetParent(t, u, p)
  PROVE  /\ Typed(s) /\ s.root = t.root /\ s.node_count = t.node_count /\ s.nodes = t.nodes
         /\ s.left = t.left /\ s.right = t.right /\ s.record = t.record
         /\ s.parent = IF u = NULL THEN t.parent ELSE [t.parent EXCEPT ![u] = p]
<1>1. CASE u = NULL
  BY <1>1 DEF SetParent
<1>2. CASE u # NULL
  <2>1. s = WithParent(t, u, p) /\ u \in Key
    BY <1>2 DEF WithParent, SetParent, NodeOrNull
  <2> QED
    BY <1>2, <2>1, ParentSet
<1> QED
  BY <1>1, <1>2

SameNodes(s, t) == s.nodes = t.nodes /\ s.node_count = t.node_count /\ s.record = t.record

\* x goes down to the right below y; b changes sides; y takes the place below p.
RightTurned(s, t, x, y, b, p) ==
  /\ Typed(s) /\ SameNodes(s, t)
  /\ s.root = IF p = NULL THEN y ELSE t.root
  /\ s.parent[x] = y /\ s.parent[y] = p /\ (b # NULL => s.parent[b] = x)
  /\ \A k \in Key \ {x, y, b} : s.parent[k] = t.parent[k]
  /\ s.left[x] = b /\ s.right[y] = x
  /\ p # NULL => /\ t.left[p] = x => s.left[p] = y
                 /\ t.right[p] = x => s.right[p] = y
  /\ \A k \in Key : k # x /\ (k = p => t.left[p] # x) => s.left[k] = t.left[k]
  /\ \A k \in Key : k # y /\ (k = p => t.right[p] # x) => s.right[k] = t.right[k]

LEMMA RightFields ==
  ASSUME NEW t, Typed(t), NEW x \in Key, NEW y \in Key, y = t.left[x],
         NEW b, b = t.right[y], NEW p, p = t.parent[x],
         NULL \notin Key, x # y, b # x, b # y, p # x, p # y, b # NULL => b # p,
         p # NULL => (t.left[p] = x <=> t.right[p] # x)
  PROVE  RightTurned(right_rotate(t, x), t, x, y, b, p)
<1>1. b \in NodeOrNull /\ p \in NodeOrNull /\ x \in NodeOrNull /\ y \in NodeOrNull /\ y # NULL
  BY SMTT(30) DEF Typed, NodeOrNull
<1> DEFINE t0 == SetParent(t, b, x)
           ta == WithLeft(t0, x, b)
           t1 == WithParent(ta, y, p)
           t2 == InPlaceOf(t1, x, y)
           t3 == WithRight(t2, y, x)
           s == WithParent(t3, x, y)
<1>2. right_rotate(t, x) = s
  <2>1. [t0 EXCEPT !.left[x] = b, !.parent[y] = p] = t1
    BY DEF WithLeft, WithParent
  <2> HIDE DEF t0, t1
  <2> QED
    BY <1>1, <2>1 DEF right_rotate, t0, WithRight, WithParent
<1>3. /\ Typed(t0) /\ t0.root = t.root /\ SameNodes(t0, t)
      /\ t0.left = t.left /\ t0.right = t.right
      /\ t0.parent = IF b = NULL THEN t.parent ELSE [t.parent EXCEPT ![b] = x]
  BY <1>1, SetParentFields DEF SameNodes
<1> HIDE DEF t0
<1>4. /\ Typed(ta) /\ ta.root = t.root /\ SameNodes(ta, t)
      /\ ta.left = [t.left EXCEPT ![x] = b] /\ ta.right = t.right /\ ta.parent = t0.parent
  BY <1>1, <1>3, LeftSet, RightSet DEF SameNodes
<1> HIDE DEF ta
<1>5. /\ Typed(t1) /\ t1.root = t.root /\ SameNodes(t1, t)
      /\ t1.left = ta.left /\ t1.right = t.right /\ t1.parent = [t0.parent EXCEPT ![y] = p]
  BY <1>1, <1>4, ParentSet DEF SameNodes
<1> HIDE DEF t1
<1>6. t1.parent[x] = p /\ (p # NULL => p \in Key /\ t1.left[p] = t.left[p])
  BY <1>1, <1>3, <1>4, <1>5 DEF Typed, NodeOrNull
<1>7. /\ Typed(t2) /\ SameNodes(t2, t) /\ t2.parent = t1.parent
      /\ t2.root = IF p = NULL THEN y ELSE t.root
      /\ t2.left = IF p # NULL /\ t.left[p] = x THEN [t1.left EXCEPT ![p] = y] ELSE t1.left
      /\ t2.right = IF p # NULL /\ t.left[p] # x THEN [t.right EXCEPT ![p] = y] ELSE t.right
  <2>3. t2 = InPlaceOf(t1, x, y) /\ p = t1.parent[x] /\ Typed(t1)
    BY <1>5, <1>6
  <2> HIDE DEF t2
  <2>4. /\ Typed(t2) /\ t2.node_count = t1.node_count /\ t2.nodes = t1.nodes
        /\ t2.parent = t1.parent /\ t2.record = t1.record
        /\ t2.root = IF p = NULL THEN y ELSE t1.root
        /\ t2.left = IF p # NULL /\ t1.left[p] = x THEN [t1.left EXCEPT ![p] = y] ELSE t1.left
        /\ t2.right = IF p # NULL /\ t1.left[p] # x THEN [t1.right EXCEPT ![p] = y] ELSE t1.right
    BY <1>1, <2>3, InPlaceFields
  <2>1. /\ Typed(t2) /\ SameNodes(t2, t) /\ t2.parent = t1.parent
        /\ t2.root = IF p = NULL THEN y ELSE t.root
        /\ t2.left = IF p # NULL /\ t1.left[p] = x THEN [t1.left EXCEPT ![p] = y] ELSE t1.left
        /\ t2.right = IF p # NULL /\ t1.left[p] # x THEN [t1.right EXCEPT ![p] = y] ELSE t1.right
    BY <1>5, <2>4 DEF SameNodes
  <2>2. p # NULL => (t1.left[p] = x <=> t.left[p] = x)
    BY <1>5, <1>6
  <2> QED
    BY <1>5, <2>1, <2>2
<1> HIDE DEF t2
<1>8. /\ Typed(t3) /\ SameNodes(t3, t) /\ t3.parent = t1.parent /\ t3.root = t2.root
      /\ t3.left = t2.left /\ t3.right = [t2.right EXCEPT ![y] = x]
  BY SMTT(30), <1>1, <1>7, LeftSet, RightSet DEF SameNodes
<1> HIDE DEF t3
<1>9. /\ Typed(s) /\ SameNodes(s, t) /\ s.root = t2.root
      /\ s.left = t2.left /\ s.right = t3.right /\ s.parent = [t1.parent EXCEPT ![x] = y]
  BY <1>1, <1>8, ParentSet DEF SameNodes
<1> HIDE DEF s
<1>10. \A k \in Key : s.parent[k] = IF k = x THEN y ELSE IF k = y THEN p
                                    ELSE IF k = b THEN x ELSE t.parent[k]
  BY <1>1, <1>3, <1>5, <1>9 DEF Typed, NodeOrNull
<1>11. \A k \in Key : s.left[k] = IF k = p /\ t.left[p] = x THEN y
                                ELSE IF k = x THEN b ELSE t.left[k]
  BY <1>1, <1>4, <1>5, <1>7, <1>9 DEF Typed, NodeOrNull
<1>12. \A k \in Key : s.right[k] = IF k = y THEN x
                                ELSE IF k = p /\ t.right[p] = x THEN y ELSE t.right[k]
  BY <1>1, <1>7, <1>8, <1>9 DEF Typed, NodeOrNull
<1>13. p # NULL => p \in Key
  BY <1>1 DEF NodeOrNull
<1>14. RightTurned(s, t, x, y, b, p)
  <2>1. Typed(s) /\ SameNodes(s, t) /\ s.root = IF p = NULL THEN y ELSE t.root
    BY <1>7, <1>9
  <2>2. s.parent[x] = y /\ s.parent[y] = p /\ (b # NULL => s.parent[b] = x)
    BY <1>1, <1>10 DEF NodeOrNull
  <2>3. \A k \in Key \ {x, y, b} : s.parent[k] = t.parent[k]
    BY <1>10
  <2>4. s.left[x] = b /\ s.right[y] = x
    BY <1>11, <1>12
  <2>5. p # NULL => /\ t.left[p] = x => s.left[p] = y
                    /\ t.right[p] = x => s.right[p] = y
    BY <1>11, <1>12, <1>13
  <2>6. \A k \in Key : k # x /\ (k = p => t.left[p] # x) => s.left[k] = t.left[k]
    BY <1>11
  <2>7. \A k \in Key : k # y /\ (k = p => t.right[p] # x) => s.right[k] = t.right[k]
    BY <1>12
  <2> QED
    BY <2>1, <2>2, <2>3, <2>4, <2>5, <2>6, <2>7 DEF RightTurned
<1> QED
  BY <1>2, <1>14

\* x goes down to the left below y; b changes sides; y takes the place below p.
LeftTurned(s, t, x, y, b, p) ==
  /\ Typed(s) /\ SameNodes(s, t)
  /\ s.root = IF p = NULL THEN y ELSE t.root
  /\ s.parent[x] = y /\ s.parent[y] = p /\ (b # NULL => s.parent[b] = x)
  /\ \A k \in Key \ {x, y, b} : s.parent[k] = t.parent[k]
  /\ s.right[x] = b /\ s.left[y] = x
  /\ p # NULL => /\ t.right[p] = x => s.right[p] = y
                 /\ t.left[p] = x => s.left[p] = y
  /\ \A k \in Key : k # x /\ (k = p => t.right[p] # x) => s.right[k] = t.right[k]
  /\ \A k \in Key : k # y /\ (k = p => t.left[p] # x) => s.left[k] = t.left[k]

LEMMA LeftFields ==
  ASSUME NEW t, Typed(t), NEW x \in Key, NEW y \in Key, y = t.right[x],
         NEW b, b = t.left[y], NEW p, p = t.parent[x],
         NULL \notin Key, x # y, b # x, b # y, p # x, p # y, b # NULL => b # p,
         p # NULL => (t.right[p] = x <=> t.left[p] # x)
  PROVE  LeftTurned(left_rotate(t, x), t, x, y, b, p)
<1>1. b \in NodeOrNull /\ p \in NodeOrNull /\ x \in NodeOrNull /\ y \in NodeOrNull /\ y # NULL
  BY SMTT(30) DEF Typed, NodeOrNull
<1> DEFINE t0 == SetParent(t, b, x)
           ta == WithRight(t0, x, b)
           t1 == WithParent(ta, y, p)
           t2 == InPlaceOf(t1, x, y)
           t3 == WithLeft(t2, y, x)
           s == WithParent(t3, x, y)
<1>2. left_rotate(t, x) = s
  <2>1. [t0 EXCEPT !.right[x] = b, !.parent[y] = p] = t1
    BY DEF WithRight, WithParent
  <2> HIDE DEF t0, t1
  <2> QED
    BY <1>1, <2>1 DEF left_rotate, t0, WithLeft, WithParent
<1>3. /\ Typed(t0) /\ t0.root = t.root /\ SameNodes(t0, t)
      /\ t0.left = t.left /\ t0.right = t.right
      /\ t0.parent = IF b = NULL THEN t.parent ELSE [t.parent EXCEPT ![b] = x]
  BY <1>1, SetParentFields DEF SameNodes
<1> HIDE DEF t0
<1>4. /\ Typed(ta) /\ ta.root = t.root /\ SameNodes(ta, t)
      /\ ta.right = [t.right EXCEPT ![x] = b] /\ ta.left = t.left /\ ta.parent = t0.parent
  BY <1>1, <1>3, LeftSet, RightSet DEF SameNodes
<1> HIDE DEF ta
<1>5. /\ Typed(t1) /\ t1.root = t.root /\ SameNodes(t1, t)
      /\ t1.right = ta.right /\ t1.left = t.left /\ t1.parent = [t0.parent EXCEPT ![y] = p]
  BY <1>1, <1>4, ParentSet DEF SameNodes
<1> HIDE DEF t1
<1>6. t1.parent[x] = p /\ (p # NULL => p \in Key /\ t1.right[p] = t.right[p])
  BY <1>1, <1>3, <1>4, <1>5 DEF Typed, NodeOrNull
<1>7. /\ Typed(t2) /\ SameNodes(t2, t) /\ t2.parent = t1.parent
      /\ t2.root = IF p = NULL THEN y ELSE t.root
      /\ t2.right = IF p # NULL /\ t.right[p] = x THEN [t1.right EXCEPT ![p] = y] ELSE t1.right
      /\ t2.left = IF p # NULL /\ t.right[p] # x THEN [t.left EXCEPT ![p] = y] ELSE t.left
  <2>3. t2 = InPlaceOf(t1, x, y) /\ p = t1.parent[x] /\ Typed(t1)
    BY <1>5, <1>6
  <2> HIDE DEF t2
  <2>4. /\ Typed(t2) /\ t2.node_count = t1.node_count /\ t2.nodes = t1.nodes
        /\ t2.parent = t1.parent /\ t2.record = t1.record
        /\ t2.root = IF p = NULL THEN y ELSE t1.root
        /\ t2.left = IF p # NULL /\ t1.left[p] = x THEN [t1.left EXCEPT ![p] = y] ELSE t1.left
        /\ t2.right = IF p # NULL /\ t1.left[p] # x THEN [t1.right EXCEPT ![p] = y] ELSE t1.right
    BY <1>1, <2>3, InPlaceFields
  <2>1. /\ Typed(t2) /\ SameNodes(t2, t) /\ t2.parent = t1.parent
        /\ t2.root = IF p = NULL THEN y ELSE t.root
        /\ t2.left = IF p # NULL /\ t1.left[p] = x THEN [t1.left EXCEPT ![p] = y] ELSE t1.left
        /\ t2.right = IF p # NULL /\ t1.left[p] # x THEN [t1.right EXCEPT ![p] = y] ELSE t1.right
    BY <1>5, <2>4 DEF SameNodes
  <2>2. p # NULL => (t1.left[p] = x <=> t.left[p] = x)
    BY <1>5, <1>6
  <2> QED
    BY <1>5, <2>1, <2>2
<1> HIDE DEF t2
<1>8. /\ Typed(t3) /\ SameNodes(t3, t) /\ t3.parent = t1.parent /\ t3.root = t2.root
      /\ t3.right = t2.right /\ t3.left = [t2.left EXCEPT ![y] = x]
  BY SMTT(30), <1>1, <1>7, LeftSet, RightSet DEF SameNodes
<1> HIDE DEF t3
<1>9. /\ Typed(s) /\ SameNodes(s, t) /\ s.root = t2.root
      /\ s.right = t2.right /\ s.left = t3.left /\ s.parent = [t1.parent EXCEPT ![x] = y]
  BY <1>1, <1>8, ParentSet DEF SameNodes
<1> HIDE DEF s
<1>10. \A k \in Key : s.parent[k] = IF k = x THEN y ELSE IF k = y THEN p
                                    ELSE IF k = b THEN x ELSE t.parent[k]
  BY <1>1, <1>3, <1>5, <1>9 DEF Typed, NodeOrNull
<1>11. \A k \in Key : s.right[k] = IF k = p /\ t.right[p] = x THEN y
                                ELSE IF k = x THEN b ELSE t.right[k]
  BY <1>1, <1>4, <1>5, <1>7, <1>9 DEF Typed, NodeOrNull
<1>12. \A k \in Key : s.left[k] = IF k = y THEN x
                                ELSE IF k = p /\ t.left[p] = x THEN y ELSE t.left[k]
  BY <1>1, <1>7, <1>8, <1>9 DEF Typed, NodeOrNull
<1>13. p # NULL => p \in Key
  BY <1>1 DEF NodeOrNull
<1>14. LeftTurned(s, t, x, y, b, p)
  <2>1. Typed(s) /\ SameNodes(s, t) /\ s.root = IF p = NULL THEN y ELSE t.root
    BY <1>7, <1>9
  <2>2. s.parent[x] = y /\ s.parent[y] = p /\ (b # NULL => s.parent[b] = x)
    BY <1>1, <1>10 DEF NodeOrNull
  <2>3. \A k \in Key \ {x, y, b} : s.parent[k] = t.parent[k]
    BY <1>10
  <2>4. s.right[x] = b /\ s.left[y] = x
    BY <1>11, <1>12
  <2>5. p # NULL => /\ t.right[p] = x => s.right[p] = y
                    /\ t.left[p] = x => s.left[p] = y
    BY <1>11, <1>12, <1>13
  <2>6. \A k \in Key : k # x /\ (k = p => t.right[p] # x) => s.right[k] = t.right[k]
    BY <1>11
  <2>7. \A k \in Key : k # y /\ (k = p => t.left[p] # x) => s.left[k] = t.left[k]
    BY <1>12
  <2> QED
    BY <2>1, <2>2, <2>3, <2>4, <2>5, <2>6, <2>7 DEF LeftTurned
<1> QED
  BY <1>2, <1>14

-----------------------------------------------------------------------------
(* A rotation leaves a search tree                                         *)

\* A node and its parent.
LEMMA ParentOf ==
  ASSUME NEW t, NEW low, NEW high, Bounded(t, low, high), NEW x \in t.nodes,
         NEW p, p = t.parent[x]
  PROVE  \/ x = t.root /\ p = NULL /\ low[x] = 0 /\ high[x] = Top
         \/ /\ x # t.root /\ p \in t.nodes /\ p # NULL /\ p # x
            /\ ~Holds(low, high, x, p) /\ Holds(low, high, p, x)
            /\ Width(low[x], high[x]) < Width(low[p], high[p])
            /\ \/ t.left[p] = x /\ t.right[p] # x /\ x < p /\ low[x] = low[p] /\ high[x] = p
               \/ t.right[p] = x /\ t.left[p] # x /\ p < x /\ low[x] = p /\ high[x] = high[p]
<1>1. CASE x = t.root
  BY <1>1, Numbers DEF Bounded, Rooted
<1>2. CASE x # t.root
  <2>1. p \in t.nodes /\ x \in {t.left[p], t.right[p]} /\ x # NULL
    BY <1>2, Numbers DEF Bounded, Placed
  <2>2. /\ x \in Int /\ p \in Int /\ low[x] \in Int /\ high[x] \in Int /\ low[p] \in Int
        /\ high[p] \in Int /\ low[x] < x /\ x < high[x] /\ low[p] < p /\ p < high[p] /\ p # NULL
    BY <2>1, Numbers DEF Holds
  <2>3. Placed(t, low, high, p)
    BY <2>1 DEF Bounded
  <2>4. /\ t.left[p] = x => low[x] = low[p] /\ high[x] = p
        /\ t.right[p] = x => low[x] = p /\ high[x] = high[p]
    BY <2>1, <2>3 DEF Placed
  <2>5. \/ t.left[p] = x /\ t.right[p] # x /\ x < p /\ low[x] = low[p] /\ high[x] = p
        \/ t.right[p] = x /\ t.left[p] # x /\ p < x /\ low[x] = p /\ high[x] = high[p]
    BY <2>1, <2>2, <2>4
  <2>6. p # x /\ ~Holds(low, high, x, p) /\ Holds(low, high, p, x) /\ x = ChildTo(t, p, x)
    BY <2>2, <2>5 DEF Holds, ChildTo
  <2>7. Width(low[x], high[x]) < Width(low[p], high[p])
    BY <2>1, <2>2, <2>6, ChildHolds
  <2> QED
    BY <1>2, <2>1, <2>2, <2>5, <2>6, <2>7
<1> QED
  BY <1>1, <1>2

\* The bound u is moved to v.
Moved(bound, u, v) == [bound EXCEPT ![u] = v]

LEMMA RightTurn ==
  ASSUME NEW t, NEW low, NEW high, Bounded(t, low, high), NEW x \in t.nodes,
         NEW y, y = t.left[x], y # NULL, NEW b, b = t.right[y], NEW p, p = t.parent[x],
         NEW s, s = right_rotate(t, x),
         NEW low2, low2 = Moved(low, x, y),
         NEW high2, high2 = Moved(high, y, high[x])
  PROVE  RightTurned(s, t, x, y, b, p) /\ Bounded(s, low2, high2)
<1>1. /\ Typed(t) /\ low \in [Key -> Int] /\ high \in [Key -> Int] /\ t.nodes \subseteq Key
      /\ \A u \in t.nodes : Placed(t, low, high, u)
  BY DEF Bounded, Typed
<1>2. /\ x \in Key /\ x \in Int /\ x # NULL /\ low[x] \in Int /\ high[x] \in Int
      /\ low[x] < x /\ x < high[x]
  BY Numbers DEF Holds
<1>3. y \in t.nodes /\ t.parent[y] = x /\ low[y] = low[x] /\ high[y] = x
  BY <1>1 DEF Placed
<1>4. y \in Key /\ y \in Int /\ low[y] < y /\ y < high[y] /\ low[y] \in Int /\ high[y] \in Int
  BY <1>3, Numbers DEF Holds
<1>5. y < x /\ y # x
  BY <1>2, <1>3, <1>4
<1>6. b # NULL => /\ b \in t.nodes /\ t.parent[b] = y /\ low[b] = y /\ high[b] = x
                  /\ b \in Int /\ b \in Key /\ y < b /\ b < x
  <2>1. b # NULL => b \in t.nodes /\ t.parent[b] = y /\ low[b] = y /\ high[b] = x
    BY <1>1, <1>3 DEF Placed
  <2>2. b # NULL => b \in Int /\ b \in Key /\ low[b] < b /\ b < high[b]
    BY <2>1, Numbers DEF Holds
  <2> QED
    BY <2>1, <2>2
<1>7. b # x /\ b # y
  BY <1>2, <1>4, <1>5, <1>6, Numbers
<1>8. \/ x = t.root /\ p = NULL /\ low[x] = 0 /\ high[x] = Top
      \/ /\ x # t.root /\ p \in t.nodes /\ p # NULL /\ p # x /\ p \in Int
         /\ ~Holds(low, high, x, p)
         /\ \/ t.left[p] = x /\ t.right[p] # x /\ low[x] = low[p] /\ high[x] = p
            \/ t.right[p] = x /\ t.left[p] # x /\ low[x] = p /\ high[x] = high[p]
  BY ParentOf, Numbers
<1>9. p # x /\ p # y /\ (b # NULL => b # p)
  <2>1. Holds(low, high, x, y)
    BY <1>2, <1>3, <1>4, <1>5 DEF Holds
  <2>2. b # NULL => Holds(low, high, x, b)
    BY <1>2, <1>3, <1>4, <1>5, <1>6 DEF Holds
  <2> QED
    BY <1>2, <1>3, <1>8, <2>1, <2>2, Numbers
<1>10. NULL \notin Key /\ (p # NULL => (t.left[p] = x <=> t.right[p] # x))
  <2>1. NULL \notin Key
    BY KeyAssumption DEF NULL
  <2>2. p # NULL => (t.left[p] = x <=> t.right[p] # x)
    BY <1>8
  <2> QED
    BY <2>1, <2>2
<1>11. RightTurned(s, t, x, y, b, p)
  BY <1>1, <1>2, <1>4, <1>5, <1>7, <1>9, <1>10, RightFields
<1>12. low2 \in [Key -> Int] /\ high2 \in [Key -> Int] /\ s.nodes = t.nodes /\ Typed(s)
  BY <1>1, <1>2, <1>4, <1>11 DEF RightTurned, SameNodes, Moved
<1>13. /\ low2[x] = y /\ high2[y] = high[x]
       /\ \A u \in Key : u # x => low2[u] = low[u]
       /\ \A u \in Key : u # y => high2[u] = high[u]
  BY <1>1, <1>2, <1>4 DEF Moved
<1>14. \A c \in t.nodes : c # x /\ c # y /\ c # b =>
         s.parent[c] = t.parent[c] /\ low2[c] = low[c] /\ high2[c] = high[c]
  BY <1>1, <1>11, <1>13 DEF RightTurned
<1>15. Rooted(s, low2, high2)
  <2>1. t.root \in t.nodes /\ t.nodes # {} /\ t.parent[t.root] = NULL
        /\ low[t.root] = 0 /\ high[t.root] = Top /\ t.root # NULL
    BY Numbers DEF Bounded, Rooted
  <2>2. CASE p = NULL
    <3>1. s.root = y /\ s.parent[y] = NULL
      BY <1>11, <2>2 DEF RightTurned
    <3>2. low2[y] = 0 /\ high2[y] = Top
      BY <1>3, <1>4, <1>5, <1>8, <1>13, <2>2
    <3> QED
      BY <1>3, <1>12, <2>1, <3>1, <3>2 DEF Rooted
  <2>3. CASE p # NULL
    <3>1. s.root = t.root
      BY <1>11, <2>3 DEF RightTurned
    <3>2. t.root # x /\ t.root # y /\ t.root # b
      BY <1>2, <1>3, <1>4, <1>6, <1>8, <2>1, <2>3, Numbers
    <3> QED
      BY <1>12, <1>14, <2>1, <3>1, <3>2 DEF Rooted
  <2> QED
    BY <2>2, <2>3
<1>16. Placed(s, low2, high2, x)
  <2> DEFINE c == t.right[x]
  <2>1. s.left[x] = b /\ s.right[x] = c /\ s.parent[x] = y /\ s.right[y] = x
    BY <1>2, <1>5, <1>9, <1>11 DEF RightTurned
  <2>2. low2[x] < x /\ x < high2[x] /\ high2[x] = high[x]
    BY <1>2, <1>5, <1>13
  <2>3. b # NULL => b \in s.nodes /\ s.parent[b] = x /\ low2[b] = low2[x] /\ high2[b] = x
    BY <1>6, <1>7, <1>11, <1>12, <1>13 DEF RightTurned
  <2>4. c # NULL => c \in s.nodes /\ s.parent[c] = x /\ low2[c] = x /\ high2[c] = high2[x]
    <3> SUFFICES ASSUME c # NULL
                 PROVE  c \in s.nodes /\ s.parent[c] = x /\ low2[c] = x /\ high2[c] = high2[x]
      OBVIOUS
    <3>1. c \in t.nodes /\ t.parent[c] = x /\ low[c] = x /\ high[c] = high[x]
      BY <1>1 DEF Placed
    <3>2. c \in Int /\ low[c] < c /\ c < high[c] /\ low[c] \in Int /\ high[c] \in Int
      BY <3>1, Numbers DEF Holds
    <3>3. c # x /\ c # y /\ c # b
      BY <1>2, <1>4, <1>5, <1>6, <3>1, <3>2, Numbers
    <3> QED
      BY <1>12, <1>14, <2>2, <3>1, <3>3
  <2>5. ASSUME NEW v \in s.nodes
        PROVE  /\ low2[x] < v /\ v < x => s.left[x] # NULL
               /\ x < v /\ v < high2[x] => s.right[x] # NULL
    <3>1. v \in t.nodes /\ Placed(t, low, high, x) /\ Placed(t, low, high, y)
      BY <1>1, <1>3, <1>12
    <3>2. y < v /\ v < x => b # NULL
      BY <1>3, <3>1 DEF Placed
    <3>3. x < v /\ v < high[x] => c # NULL
      BY <3>1 DEF Placed
    <3> QED
      BY <1>13, <2>1, <2>2, <3>2, <3>3
  <2>6. s.parent[x] \in s.nodes /\ x \in {s.left[s.parent[x]], s.right[s.parent[x]]}
    BY <1>3, <1>12, <2>1
  <2> HIDE DEF c
  <2> QED
    BY <1>13, <2>1, <2>2, <2>3, <2>4, <2>5, <2>6 DEF Placed
<1>17. Placed(s, low2, high2, y)
  <2> DEFINE d == t.left[y]
  <2>1. s.left[y] = d /\ s.right[y] = x /\ s.parent[y] = p
    BY <1>4, <1>5, <1>9, <1>11 DEF RightTurned
  <2>2. low2[y] < y /\ y < high2[y] /\ low2[y] = low[y]
    BY <1>2, <1>3, <1>4, <1>5, <1>13
  <2>3. d # NULL => d \in s.nodes /\ s.parent[d] = y /\ low2[d] = low2[y] /\ high2[d] = y
    <3> SUFFICES ASSUME d # NULL
                 PROVE  d \in s.nodes /\ s.parent[d] = y /\ low2[d] = low2[y] /\ high2[d] = y
      OBVIOUS
    <3>1. d \in t.nodes /\ t.parent[d] = y /\ low[d] = low[y] /\ high[d] = y
      BY <1>1, <1>3 DEF Placed
    <3>2. d \in Int /\ low[d] < d /\ d < high[d] /\ low[d] \in Int /\ high[d] \in Int
      BY <3>1, Numbers DEF Holds
    <3>3. d # x /\ d # y /\ d # b
      BY <1>2, <1>4, <1>5, <1>6, <3>1, <3>2, Numbers
    <3> QED
      BY <1>12, <1>14, <2>2, <3>1, <3>3
  <2>4. x \in s.nodes /\ s.parent[x] = y /\ low2[x] = y /\ high2[x] = high2[y]
    BY <1>2, <1>5, <1>11, <1>12, <1>13 DEF RightTurned
  <2>5. ASSUME NEW v \in s.nodes
        PROVE  low2[y] < v /\ v < y => d # NULL
    <3>1. v \in t.nodes /\ Placed(t, low, high, y)
      BY <1>1, <1>3, <1>12
    <3> QED
      BY <2>2, <3>1 DEF Placed
  <2>6. y # s.root => /\ s.parent[y] \in s.nodes
                      /\ y \in {s.left[s.parent[y]], s.right[s.parent[y]]}
    <3>1. y # s.root => p # NULL
      BY <1>11 DEF RightTurned
    <3> QED
      BY <1>8, <1>11, <1>12, <2>1, <3>1 DEF RightTurned
  <2> HIDE DEF d
  <2> QED
    BY <1>2, <2>1, <2>2, <2>3, <2>4, <2>5, <2>6 DEF Placed
<1>18. ASSUME NEW u \in t.nodes, u # x, u # y PROVE Placed(s, low2, high2, u)
  <2>1. /\ u \in Key /\ u # NULL /\ low2[u] = low[u] /\ high2[u] = high[u]
        /\ Placed(t, low, high, u)
    BY <1>1, <1>13, <1>18, Numbers
  <2>2. ASSUME s.left[u] # NULL
        PROVE  /\ s.left[u] \in s.nodes /\ s.parent[s.left[u]] = u
               /\ low2[s.left[u]] = low2[u] /\ high2[s.left[u]] = u
    <3>1. CASE u = p /\ t.left[p] = x
      <4>1. s.left[u] = y /\ s.parent[y] = u
        BY <1>11, <2>1, <3>1 DEF RightTurned
      <4>2. low[x] = low[p] /\ high[x] = p
        BY <1>8, <2>1, <3>1
      <4> QED
        BY <1>3, <1>4, <1>5, <1>12, <1>13, <2>1, <3>1, <4>1, <4>2
    <3>2. CASE ~(u = p /\ t.left[p] = x)
      <4> DEFINE c == t.left[u]
      <4>1. s.left[u] = c
        BY <1>11, <1>18, <2>1, <3>2 DEF RightTurned
      <4>2. c \in t.nodes /\ t.parent[c] = u /\ low[c] = low[u] /\ high[c] = u
        BY <2>1, <2>2, <4>1 DEF Placed
      <4>3. c # x /\ c # y /\ c # b
        BY <1>3, <1>6, <1>18, <2>2, <3>2, <4>1, <4>2
      <4> QED
        BY <1>12, <1>14, <2>1, <4>1, <4>2, <4>3
    <3> QED
      BY <3>1, <3>2
  <2>3. ASSUME s.right[u] # NULL
        PROVE  /\ s.right[u] \in s.nodes /\ s.parent[s.right[u]] = u
               /\ low2[s.right[u]] = u /\ high2[s.right[u]] = high2[u]
    <3>1. CASE u = p /\ t.right[p] = x
      <4>1. s.right[u] = y /\ s.parent[y] = u
        BY <1>11, <2>1, <3>1 DEF RightTurned
      <4>2. low[x] = p /\ high[x] = high[p]
        BY <1>8, <2>1, <3>1
      <4> QED
        BY <1>3, <1>4, <1>5, <1>12, <1>13, <2>1, <3>1, <4>1, <4>2
    <3>2. CASE ~(u = p /\ t.right[p] = x)
      <4> DEFINE c == t.right[u]
      <4>1. s.right[u] = c
        BY <1>11, <1>18, <2>1, <3>2 DEF RightTurned
      <4>2. c \in t.nodes /\ t.parent[c] = u /\ low[c] = u /\ high[c] = high[u]
        BY <2>1, <2>3, <4>1 DEF Placed
      <4>3. c # x /\ c # y /\ c # b
        BY <1>3, <1>6, <1>18, <2>3, <3>2, <4>1, <4>2
      <4> QED
        BY <1>12, <1>14, <2>1, <4>1, <4>2, <4>3
    <3> QED
      BY <3>1, <3>2
  <2>4. ASSUME u # s.root
        PROVE  s.parent[u] \in s.nodes /\ u \in {s.left[s.parent[u]], s.right[s.parent[u]]}
    <3>1. u # t.root
      BY <1>8, <1>11, <1>18, <2>4 DEF RightTurned
    <3> DEFINE q == t.parent[u]
    <3>2. q \in t.nodes /\ q \in Key /\ u \in {t.left[q], t.right[q]}
      BY <1>1, <2>1, <3>1 DEF Placed
    <3>3. CASE u = b
      <4>1. s.parent[u] = x /\ s.left[x] = u
        BY <1>11, <2>1, <3>3 DEF RightTurned
      <4> QED
        BY <1>12, <4>1
    <3>4. CASE u # b
      <4>1. s.parent[u] = q
        BY <1>14, <1>18, <3>4
      <4>2. t.left[q] = u => s.left[q] = u
        <5>1. t.left[q] = u => q # x /\ (q = p => t.left[p] # x)
          BY <1>18
        <5> QED
          BY <1>11, <3>2, <5>1 DEF RightTurned
      <4>3. t.right[q] = u => s.right[q] = u
        <5>1. t.right[q] = u => q # y /\ (q = p => t.right[p] # x)
          BY <1>18, <3>4
        <5> QED
          BY <1>11, <3>2, <5>1 DEF RightTurned
      <4> QED
        BY <1>12, <3>2, <4>1, <4>2, <4>3
    <3> QED
      BY <3>3, <3>4
  <2>5. /\ t.left[u] # NULL => s.left[u] # NULL
        /\ t.right[u] # NULL => s.right[u] # NULL
    BY <1>11, <1>18, <2>1 DEF RightTurned
  <2>6. \A v \in s.nodes : /\ low2[u] < v /\ v < u => s.left[u] # NULL
                           /\ u < v /\ v < high2[u] => s.right[u] # NULL
    BY <1>12, <2>1, <2>5 DEF Placed
  <2>7. low2[u] < u /\ u < high2[u]
    BY <2>1 DEF Placed
  <2> QED
    BY <2>2, <2>3, <2>4, <2>6, <2>7 DEF Placed
<1> QED
  BY <1>11, <1>12, <1>15, <1>16, <1>17, <1>18 DEF Bounded

LEMMA LeftTurn ==
  ASSUME NEW t, NEW low, NEW high, Bounded(t, low, high), NEW x \in t.nodes,
         NEW y, y = t.right[x], y # NULL, NEW b, b = t.left[y], NEW p, p = t.parent[x],
         NEW s, s = left_rotate(t, x),
         NEW high2, high2 = Moved(high, x, y),
         NEW low2, low2 = Moved(low, y, low[x])
  PROVE  LeftTurned(s, t, x, y, b, p) /\ Bounded(s, low2, high2)
<1>1. /\ Typed(t) /\ low \in [Key -> Int] /\ high \in [Key -> Int] /\ t.nodes \subseteq Key
      /\ \A u \in t.nodes : Placed(t, low, high, u)
  BY DEF Bounded, Typed
<1>2. /\ x \in Key /\ x \in Int /\ x # NULL /\ low[x] \in Int /\ high[x] \in Int
      /\ low[x] < x /\ x < high[x]
  BY Numbers DEF Holds
<1>3. y \in t.nodes /\ t.parent[y] = x /\ high[y] = high[x] /\ low[y] = x
  BY <1>1 DEF Placed
<1>4. y \in Key /\ y \in Int /\ low[y] < y /\ y < high[y] /\ low[y] \in Int /\ high[y] \in Int
  BY <1>3, Numbers DEF Holds
<1>5. x < y /\ y # x
  BY <1>2, <1>3, <1>4
<1>6. b # NULL => /\ b \in t.nodes /\ t.parent[b] = y /\ high[b] = y /\ low[b] = x
                  /\ b \in Int /\ b \in Key /\ b < y /\ x < b
  <2>1. b # NULL => b \in t.nodes /\ t.parent[b] = y /\ high[b] = y /\ low[b] = x
    BY <1>1, <1>3 DEF Placed
  <2>2. b # NULL => b \in Int /\ b \in Key /\ low[b] < b /\ b < high[b]
    BY <2>1, Numbers DEF Holds
  <2> QED
    BY <2>1, <2>2
<1>7. b # x /\ b # y
  BY <1>2, <1>4, <1>5, <1>6, Numbers
<1>8. \/ x = t.root /\ p = NULL /\ low[x] = 0 /\ high[x] = Top
      \/ /\ x # t.root /\ p \in t.nodes /\ p # NULL /\ p # x /\ p \in Int
         /\ ~Holds(low, high, x, p)
         /\ \/ t.left[p] = x /\ t.right[p] # x /\ low[x] = low[p] /\ high[x] = p
            \/ t.right[p] = x /\ t.left[p] # x /\ low[x] = p /\ high[x] = high[p]
  BY ParentOf, Numbers
<1>9. p # x /\ p # y /\ (b # NULL => b # p)
  <2>1. Holds(low, high, x, y)
    BY <1>2, <1>3, <1>4, <1>5 DEF Holds
  <2>2. b # NULL => Holds(low, high, x, b)
    BY <1>2, <1>3, <1>4, <1>5, <1>6 DEF Holds
  <2> QED
    BY <1>2, <1>3, <1>8, <2>1, <2>2, Numbers
<1>10. NULL \notin Key /\ (p # NULL => (t.right[p] = x <=> t.left[p] # x))
  <2>1. NULL \notin Key
    BY KeyAssumption DEF NULL
  <2>2. p # NULL => (t.right[p] = x <=> t.left[p] # x)
    BY <1>8
  <2> QED
    BY <2>1, <2>2
<1>11. LeftTurned(s, t, x, y, b, p)
  BY <1>1, <1>2, <1>4, <1>5, <1>7, <1>9, <1>10, LeftFields
<1>12. low2 \in [Key -> Int] /\ high2 \in [Key -> Int] /\ s.nodes = t.nodes /\ Typed(s)
  BY <1>1, <1>2, <1>4, <1>11 DEF LeftTurned, SameNodes, Moved
<1>13. /\ high2[x] = y /\ low2[y] = low[x]
       /\ \A u \in Key : u # x => high2[u] = high[u]
       /\ \A u \in Key : u # y => low2[u] = low[u]
  BY <1>1, <1>2, <1>4 DEF Moved
<1>14. \A c \in t.nodes : c # x /\ c # y /\ c # b =>
         s.parent[c] = t.parent[c] /\ low2[c] = low[c] /\ high2[c] = high[c]
  BY <1>1, <1>11, <1>13 DEF LeftTurned
<1>15. Rooted(s, low2, high2)
  <2>1. t.root \in t.nodes /\ t.nodes # {} /\ t.parent[t.root] = NULL
        /\ low[t.root] = 0 /\ high[t.root] = Top /\ t.root # NULL
    BY Numbers DEF Bounded, Rooted
  <2>2. CASE p = NULL
    <3>1. s.root = y /\ s.parent[y] = NULL
      BY <1>11, <2>2 DEF LeftTurned
    <3>2. low2[y] = 0 /\ high2[y] = Top
      BY <1>3, <1>4, <1>5, <1>8, <1>13, <2>2
    <3> QED
      BY <1>3, <1>12, <2>1, <3>1, <3>2 DEF Rooted
  <2>3. CASE p # NULL
    <3>1. s.root = t.root
      BY <1>11, <2>3 DEF LeftTurned
    <3>2. t.root # x /\ t.root # y /\ t.root # b
      BY <1>2, <1>3, <1>4, <1>6, <1>8, <2>1, <2>3, Numbers
    <3> QED
      BY <1>12, <1>14, <2>1, <3>1, <3>2 DEF Rooted
  <2> QED
    BY <2>2, <2>3
<1>16. Placed(s, low2, high2, x)
  <2> DEFINE c == t.left[x]
  <2>1. s.right[x] = b /\ s.left[x] = c /\ s.parent[x] = y /\ s.left[y] = x
    BY <1>2, <1>5, <1>9, <1>11 DEF LeftTurned
  <2>2. low2[x] < x /\ x < high2[x] /\ low2[x] = low[x]
    BY <1>2, <1>5, <1>13
  <2>3. b # NULL => b \in s.nodes /\ s.parent[b] = x /\ high2[b] = high2[x] /\ low2[b] = x
    BY <1>6, <1>7, <1>11, <1>12, <1>13 DEF LeftTurned
  <2>4. c # NULL => c \in s.nodes /\ s.parent[c] = x /\ high2[c] = x /\ low2[c] = low2[x]
    <3> SUFFICES ASSUME c # NULL
                 PROVE  c \in s.nodes /\ s.parent[c] = x /\ high2[c] = x /\ low2[c] = low2[x]
      OBVIOUS
    <3>1. c \in t.nodes /\ t.parent[c] = x /\ high[c] = x /\ low[c] = low[x]
      BY <1>1 DEF Placed
    <3>2. c \in Int /\ low[c] < c /\ c < high[c] /\ low[c] \in Int /\ high[c] \in Int
      BY <3>1, Numbers DEF Holds
    <3>3. c # x /\ c # y /\ c # b
      BY <1>2, <1>4, <1>5, <1>6, <3>1, <3>2, Numbers
    <3> QED
      BY <1>12, <1>14, <2>2, <3>1, <3>3
  <2>5. ASSUME NEW v \in s.nodes
        PROVE  /\ low2[x] < v /\ v < x => s.left[x] # NULL
               /\ x < v /\ v < high2[x] => s.right[x] # NULL
    <3>1. v \in t.nodes /\ Placed(t, low, high, x) /\ Placed(t, low, high, y)
      BY <1>1, <1>3, <1>12
    <3>2. v < y /\ x < v => b # NULL
      BY <1>3, <3>1 DEF Placed
    <3>3. v < x /\ low[x] < v => c # NULL
      BY <3>1 DEF Placed
    <3> QED
      BY <1>13, <2>1, <2>2, <3>2, <3>3
  <2>6. s.parent[x] \in s.nodes /\ x \in {s.left[s.parent[x]], s.right[s.parent[x]]}
    BY <1>3, <1>12, <2>1
  <2> HIDE DEF c
  <2> QED
    BY <1>13, <2>1, <2>2, <2>3, <2>4, <2>5, <2>6 DEF Placed
<1>17. Placed(s, low2, high2, y)
  <2> DEFINE d == t.right[y]
  <2>1. s.right[y] = d /\ s.left[y] = x /\ s.parent[y] = p
    BY <1>4, <1>5, <1>9, <1>11 DEF LeftTurned
  <2>2. low2[y] < y /\ y < high2[y] /\ high2[y] = high[y]
    BY <1>2, <1>3, <1>4, <1>5, <1>13
  <2>3. d # NULL => d \in s.nodes /\ s.parent[d] = y /\ high2[d] = high2[y] /\ low2[d] = y
    <3> SUFFICES ASSUME d # NULL
                 PROVE  d \in s.nodes /\ s.parent[d] = y /\ high2[d] = high2[y] /\ low2[d] = y
      OBVIOUS
    <3>1. d \in t.nodes /\ t.parent[d] = y /\ high[d] = high[y] /\ low[d] = y
      BY <1>1, <1>3 DEF Placed
    <3>2. d \in Int /\ low[d] < d /\ d < high[d] /\ low[d] \in Int /\ high[d] \in Int
      BY <3>1, Numbers DEF Holds
    <3>3. d # x /\ d # y /\ d # b
      BY <1>2, <1>4, <1>5, <1>6, <3>1, <3>2, Numbers
    <3> QED
      BY <1>12, <1>14, <2>2, <3>1, <3>3
  <2>4. x \in s.nodes /\ s.parent[x] = y /\ high2[x] = y /\ low2[x] = low2[y]
    BY <1>2, <1>5, <1>11, <1>12, <1>13 DEF LeftTurned
  <2>5. ASSUME NEW v \in s.nodes
        PROVE  v < high2[y] /\ y < v => d # NULL
    <3>1. v \in t.nodes /\ Placed(t, low, high, y)
      BY <1>1, <1>3, <1>12
    <3> QED
      BY <2>2, <3>1 DEF Placed
  <2>6. y # s.root => /\ s.parent[y] \in s.nodes
                      /\ y \in {s.left[s.parent[y]], s.right[s.parent[y]]}
    <3>1. y # s.root => p # NULL
      BY <1>11 DEF LeftTurned
    <3> QED
      BY <1>8, <1>11, <1>12, <2>1, <3>1 DEF LeftTurned
  <2> HIDE DEF d
  <2> QED
    BY <1>2, <2>1, <2>2, <2>3, <2>4, <2>5, <2>6 DEF Placed
<1>18. ASSUME NEW u \in t.nodes, u # x, u # y PROVE Placed(s, low2, high2, u)
  <2>1. /\ u \in Key /\ u # NULL /\ low2[u] = low[u] /\ high2[u] = high[u]
        /\ Placed(t, low, high, u)
    BY <1>1, <1>13, <1>18, Numbers
  <2>2. ASSUME s.right[u] # NULL
        PROVE  /\ s.right[u] \in s.nodes /\ s.parent[s.right[u]] = u
               /\ high2[s.right[u]] = high2[u] /\ low2[s.right[u]] = u
    <3>1. CASE u = p /\ t.right[p] = x
      <4>1. s.right[u] = y /\ s.parent[y] = u
        BY <1>11, <2>1, <3>1 DEF LeftTurned
      <4>2. high[x] = high[p] /\ low[x] = p
        BY <1>8, <2>1, <3>1
      <4> QED
        BY <1>3, <1>4, <1>5, <1>12, <1>13, <2>1, <3>1, <4>1, <4>2
    <3>2. CASE ~(u = p /\ t.right[p] = x)
      <4> DEFINE c == t.right[u]
      <4>1. s.right[u] = c
        BY <1>11, <1>18, <2>1, <3>2 DEF LeftTurned
      <4>2. c \in t.nodes /\ t.parent[c] = u /\ high[c] = high[u] /\ low[c] = u
        BY <2>1, <2>2, <4>1 DEF Placed
      <4>3. c # x /\ c # y /\ c # b
        BY <1>3, <1>6, <1>18, <2>2, <3>2, <4>1, <4>2
      <4> QED
        BY <1>12, <1>14, <2>1, <4>1, <4>2, <4>3
    <3> QED
      BY <3>1, <3>2
  <2>3. ASSUME s.left[u] # NULL
        PROVE  /\ s.left[u] \in s.nodes /\ s.parent[s.left[u]] = u
               /\ high2[s.left[u]] = u /\ low2[s.left[u]] = low2[u]
    <3>1. CASE u = p /\ t.left[p] = x
      <4>1. s.left[u] = y /\ s.parent[y] = u
        BY <1>11, <2>1, <3>1 DEF LeftTurned
      <4>2. high[x] = p /\ low[x] = low[p]
        BY <1>8, <2>1, <3>1
      <4> QED
        BY <1>3, <1>4, <1>5, <1>12, <1>13, <2>1, <3>1, <4>1, <4>2
    <3>2. CASE ~(u = p /\ t.left[p] = x)
      <4> DEFINE c == t.left[u]
      <4>1. s.left[u] = c
        BY <1>11, <1>18, <2>1, <3>2 DEF LeftTurned
      <4>2. c \in t.nodes /\ t.parent[c] = u /\ high[c] = u /\ low[c] = low[u]
        BY <2>1, <2>3, <4>1 DEF Placed
      <4>3. c # x /\ c # y /\ c # b
        BY <1>3, <1>6, <1>18, <2>3, <3>2, <4>1, <4>2
      <4> QED
        BY <1>12, <1>14, <2>1, <4>1, <4>2, <4>3
    <3> QED
      BY <3>1, <3>2
  <2>4. ASSUME u # s.root
        PROVE  s.parent[u] \in s.nodes /\ u \in {s.left[s.parent[u]], s.right[s.parent[u]]}
    <3>1. u # t.root
      BY <1>8, <1>11, <1>18, <2>4 DEF LeftTurned
    <3> DEFINE q == t.parent[u]
    <3>2. q \in t.nodes /\ q \in Key /\ u \in {t.left[q], t.right[q]}
      BY <1>1, <2>1, <3>1 DEF Placed
    <3>3. CASE u = b
      <4>1. s.parent[u] = x /\ s.right[x] = u
        BY <1>11, <2>1, <3>3 DEF LeftTurned
      <4> QED
        BY <1>12, <4>1
    <3>4. CASE u # b
      <4>1. s.parent[u] = q
        BY <1>14, <1>18, <3>4
      <4>2. t.right[q] = u => s.right[q] = u
        <5>1. t.right[q] = u => q # x /\ (q = p => t.right[p] # x)
          BY <1>18
        <5> QED
          BY <1>11, <3>2, <5>1 DEF LeftTurned
      <4>3. t.left[q] = u => s.left[q] = u
        <5>1. t.left[q] = u => q # y /\ (q = p => t.left[p] # x)
          BY <1>18, <3>4
        <5> QED
          BY <1>11, <3>2, <5>1 DEF LeftTurned
      <4> QED
        BY <1>12, <3>2, <4>1, <4>2, <4>3
    <3> QED
      BY <3>3, <3>4
  <2>5. /\ t.right[u] # NULL => s.right[u] # NULL
        /\ t.left[u] # NULL => s.left[u] # NULL
    BY <1>11, <1>18, <2>1 DEF LeftTurned
  <2>6. \A v \in s.nodes : /\ low2[u] < v /\ v < u => s.left[u] # NULL
                           /\ u < v /\ v < high2[u] => s.right[u] # NULL
    BY <1>12, <2>1, <2>5 DEF Placed
  <2>7. low2[u] < u /\ u < high2[u]
    BY <2>1 DEF Placed
  <2> QED
    BY <2>2, <2>3, <2>4, <2>6, <2>7 DEF Placed
<1> QED
  BY <1>11, <1>12, <1>15, <1>16, <1>17, <1>18 DEF Bounded

-----------------------------------------------------------------------------
(* A step of splay leaves a search tree and widens the node's bounds       *)

\* The child that a rotation lifts takes over its parent's bounds.
LEMMA RightLift ==
  ASSUME NEW t, NEW low, NEW high, Bounded(t, low, high), NEW p \in t.nodes,
         NEW x, x = t.left[p], x # NULL, NEW s, s = right_rotate(t, p)
  PROVE  /\ x \in t.nodes /\ x # p
         /\ RightTurned(s, t, p, x, t.right[x], t.parent[p])
         /\ \E low2, high2 :
              /\ Bounded(s, low2, high2) /\ low2[x] = low[p] /\ high2[x] = high[p]
              /\ \A u \in t.nodes : u # x /\ u # p => low2[u] = low[u] /\ high2[u] = high[u]
<1>1. x \in t.nodes /\ p \in Key /\ low[x] = low[p] /\ high[x] = p
  BY Numbers DEF Bounded, Placed
<1>2. low \in [Key -> Int] /\ high \in [Key -> Int] /\ x \in Key /\ t.nodes \subseteq Key
  BY <1>1, Numbers DEF Bounded, Typed
<1>3. x # p
  BY <1>1, Numbers DEF Holds
<1> DEFINE low2 == [low EXCEPT ![p] = x]
           high2 == [high EXCEPT ![x] = high[p]]
<1>4. low2[x] = low[p] /\ high2[x] = high[p]
  BY <1>1, <1>2, <1>3
<1>5. \A u \in t.nodes : u # x /\ u # p => low2[u] = low[u] /\ high2[u] = high[u]
  BY <1>2
<1>6. low2 = Moved(low, p, x) /\ high2 = Moved(high, x, high[p])
  BY DEF Moved
<1> HIDE DEF low2, high2
<1>7. RightTurned(s, t, p, x, t.right[x], t.parent[p]) /\ Bounded(s, low2, high2)
  <2>1. PICK b, q : b = t.right[x] /\ q = t.parent[p]
    OBVIOUS
  <2>2. RightTurned(s, t, p, x, b, q) /\ Bounded(s, low2, high2)
    BY <1>6, <2>1, RightTurn
  <2> QED
    BY <2>1, <2>2
<1> QED
  BY <1>1, <1>3, <1>4, <1>5, <1>7

\* The child that a rotation lifts takes over its parent's bounds.
LEMMA LeftLift ==
  ASSUME NEW t, NEW low, NEW high, Bounded(t, low, high), NEW p \in t.nodes,
         NEW x, x = t.right[p], x # NULL, NEW s, s = left_rotate(t, p)
  PROVE  /\ x \in t.nodes /\ x # p
         /\ LeftTurned(s, t, p, x, t.left[x], t.parent[p])
         /\ \E low2, high2 :
              /\ Bounded(s, low2, high2) /\ low2[x] = low[p] /\ high2[x] = high[p]
              /\ \A u \in t.nodes : u # x /\ u # p => low2[u] = low[u] /\ high2[u] = high[u]
<1>1. x \in t.nodes /\ p \in Key /\ high[x] = high[p] /\ low[x] = p
  BY Numbers DEF Bounded, Placed
<1>2. low \in [Key -> Int] /\ high \in [Key -> Int] /\ x \in Key /\ t.nodes \subseteq Key
  BY <1>1, Numbers DEF Bounded, Typed
<1>3. x # p
  BY <1>1, Numbers DEF Holds
<1> DEFINE high2 == [high EXCEPT ![p] = x]
           low2 == [low EXCEPT ![x] = low[p]]
<1>4. high2[x] = high[p] /\ low2[x] = low[p]
  BY <1>1, <1>2, <1>3
<1>5. \A u \in t.nodes : u # x /\ u # p => high2[u] = high[u] /\ low2[u] = low[u]
  BY <1>2
<1>6. high2 = Moved(high, p, x) /\ low2 = Moved(low, x, low[p])
  BY DEF Moved
<1> HIDE DEF high2, low2
<1>7. LeftTurned(s, t, p, x, t.left[x], t.parent[p]) /\ Bounded(s, low2, high2)
  <2>1. PICK b, q : b = t.left[x] /\ q = t.parent[p]
    OBVIOUS
  <2>2. LeftTurned(s, t, p, x, b, q) /\ Bounded(s, low2, high2)
    BY <1>6, <2>1, LeftTurn
  <2> QED
    BY <2>1, <2>2
<1> QED
  BY <1>1, <1>3, <1>4, <1>5, <1>7

\* What splay's loop does to the tree t: s is a search tree of the same nodes in
\* which x has wider bounds.
Splayed(s, t, low, high, x) ==
  \E low2, high2 : /\ Bounded(s, low2, high2) /\ SameNodes(s, t)
                   /\ Width(low2[x], high2[x]) > Width(low[x], high[x])

\* x is the left child of p, and p is the root.
LEMMA ZigRight ==
  ASSUME NEW t, NEW low, NEW high, Bounded(t, low, high), NEW x \in t.nodes,
         NEW p \in t.nodes, t.left[p] = x,
         Width(low[x], high[x]) < Width(low[p], high[p])
  PROVE  Splayed(right_rotate(t, p), t, low, high, x)
<1>1. x # NULL
  BY Numbers
<1>2. PICK s : s = right_rotate(t, p)
  OBVIOUS
<1>3. PICK low2, high2 : Bounded(s, low2, high2) /\ low2[x] = low[p] /\ high2[x] = high[p]
  BY <1>1, <1>2, RightLift
<1>4. SameNodes(s, t)
  BY <1>1, <1>2, RightLift DEF RightTurned
<1>5. Width(low2[x], high2[x]) > Width(low[x], high[x])
  BY <1>3, Numbers
<1> QED
  BY <1>2, <1>3, <1>4, <1>5 DEF Splayed

\* x is the left child of p, and p that of g.
LEMMA ZigZigRight ==
  ASSUME NEW t, NEW low, NEW high, Bounded(t, low, high), NEW x \in t.nodes,
         NEW p \in t.nodes, t.left[p] = x, NEW g \in t.nodes, t.left[g] = p,
         x # p, x # g, p # g, t.parent[g] # p,
         Width(low[x], high[x]) < Width(low[p], high[p]),
         Width(low[p], high[p]) < Width(low[g], high[g])
  PROVE  Splayed(right_rotate(right_rotate(t, g), p), t, low, high, x)
<1>1. x # NULL /\ p # NULL /\ p \in Key
  BY Numbers
<1>2. PICK s : s = right_rotate(t, g)
  OBVIOUS
<1>3. PICK low1, high1 :
        /\ Bounded(s, low1, high1) /\ low1[p] = low[g] /\ high1[p] = high[g]
        /\ low1[x] = low[x] /\ high1[x] = high[x]
  <2>1. \E low1, high1 :
          /\ Bounded(s, low1, high1) /\ low1[p] = low[g] /\ high1[p] = high[g]
          /\ \A u \in t.nodes : u # p /\ u # g => low1[u] = low[u] /\ high1[u] = high[u]
    BY <1>1, <1>2, RightLift
  <2> QED
    BY <2>1
<1>4. RightTurned(s, t, g, p, t.right[p], t.parent[g])
  BY <1>1, <1>2, RightLift
<1>5. SameNodes(s, t) /\ s.left[p] = x
  BY <1>1, <1>4 DEF RightTurned
<1>6. x \in s.nodes /\ p \in s.nodes
  BY <1>5 DEF SameNodes
<1>7. Width(low[p], high[p]) \in Nat /\ Width(low[g], high[g]) \in Nat
      /\ Width(low[x], high[x]) \in Nat
  BY Numbers
<1>8. Width(low1[x], high1[x]) < Width(low1[p], high1[p])
  BY <1>3, <1>7
<1>9. Splayed(right_rotate(s, p), s, low1, high1, x)
  BY <1>3, <1>5, <1>6, <1>8, ZigRight
<1> QED
  BY <1>2, <1>3, <1>5, <1>9 DEF Splayed, SameNodes

\* x is the right child of p, and p is the root.
LEMMA ZigLeft ==
  ASSUME NEW t, NEW low, NEW high, Bounded(t, low, high), NEW x \in t.nodes,
         NEW p \in t.nodes, t.right[p] = x,
         Width(low[x], high[x]) < Width(low[p], high[p])
  PROVE  Splayed(left_rotate(t, p), t, low, high, x)
<1>1. x # NULL
  BY Numbers
<1>2. PICK s : s = left_rotate(t, p)
  OBVIOUS
<1>3. PICK low2, high2 : Bounded(s, low2, high2) /\ low2[x] = low[p] /\ high2[x] = high[p]
  BY <1>1, <1>2, LeftLift
<1>4. SameNodes(s, t)
  BY <1>1, <1>2, LeftLift DEF LeftTurned
<1>5. Width(low2[x], high2[x]) > Width(low[x], high[x])
  BY <1>3, Numbers
<1> QED
  BY <1>2, <1>3, <1>4, <1>5 DEF Splayed

\* x is the right child of p, and p that of g.
LEMMA ZigZigLeft ==
  ASSUME NEW t, NEW low, NEW high, Bounded(t, low, high), NEW x \in t.nodes,
         NEW p \in t.nodes, t.right[p] = x, NEW g \in t.nodes, t.right[g] = p,
         x # p, x # g, p # g, t.parent[g] # p,
         Width(low[x], high[x]) < Width(low[p], high[p]),
         Width(low[p], high[p]) < Width(low[g], high[g])
  PROVE  Splayed(left_rotate(left_rotate(t, g), p), t, low, high, x)
<1>1. x # NULL /\ p # NULL /\ p \in Key
  BY Numbers
<1>2. PICK s : s = left_rotate(t, g)
  OBVIOUS
<1>3. PICK low1, high1 :
        /\ Bounded(s, low1, high1) /\ low1[p] = low[g] /\ high1[p] = high[g]
        /\ low1[x] = low[x] /\ high1[x] = high[x]
  <2>1. \E low1, high1 :
          /\ Bounded(s, low1, high1) /\ low1[p] = low[g] /\ high1[p] = high[g]
          /\ \A u \in t.nodes : u # p /\ u # g => low1[u] = low[u] /\ high1[u] = high[u]
    BY <1>1, <1>2, LeftLift
  <2> QED
    BY <2>1
<1>4. LeftTurned(s, t, g, p, t.left[p], t.parent[g])
  BY <1>1, <1>2, LeftLift
<1>5. SameNodes(s, t) /\ s.right[p] = x
  BY <1>1, <1>4 DEF LeftTurned
<1>6. x \in s.nodes /\ p \in s.nodes
  BY <1>5 DEF SameNodes
<1>7. Width(low[p], high[p]) \in Nat /\ Width(low[g], high[g]) \in Nat
      /\ Width(low[x], high[x]) \in Nat
  BY Numbers
<1>8. Width(low1[x], high1[x]) < Width(low1[p], high1[p])
  BY <1>3, <1>7
<1>9. Splayed(left_rotate(s, p), s, low1, high1, x)
  BY <1>3, <1>5, <1>6, <1>8, ZigLeft
<1> QED
  BY <1>2, <1>3, <1>5, <1>9 DEF Splayed, SameNodes

\* x is the left child of p, and p the right child of g.
LEMMA ZigZagRight ==
  ASSUME NEW t, NEW low, NEW high, Bounded(t, low, high), NEW x \in t.nodes,
         NEW p \in t.nodes, t.left[p] = x, NEW g \in t.nodes, t.right[g] = p,
         x # p, x # g, p # g, t.parent[p] = g,
         Width(low[x], high[x]) < Width(low[p], high[p]),
         Width(low[p], high[p]) < Width(low[g], high[g])
  PROVE  LET u == right_rotate(t, p) IN Splayed(left_rotate(u, u.parent[x]), t, low, high, x)
<1>1. x # NULL /\ p # NULL /\ g # NULL /\ g \in Key /\ x \in Key
  BY Numbers
<1>2. PICK s : s = right_rotate(t, p)
  OBVIOUS
<1>3. PICK low1, high1 :
        /\ Bounded(s, low1, high1) /\ low1[x] = low[p] /\ high1[x] = high[p]
        /\ low1[g] = low[g] /\ high1[g] = high[g]
  <2>1. \E low1, high1 :
          /\ Bounded(s, low1, high1) /\ low1[x] = low[p] /\ high1[x] = high[p]
          /\ \A u \in t.nodes : u # x /\ u # p => low1[u] = low[u] /\ high1[u] = high[u]
    BY <1>1, <1>2, RightLift
  <2> QED
    BY <2>1
<1>4. RightTurned(s, t, p, x, t.right[x], t.parent[p])
  BY <1>1, <1>2, RightLift
<1>5. SameNodes(s, t) /\ s.parent[x] = g /\ s.right[g] = x
  BY <1>1, <1>4 DEF RightTurned
<1>6. x \in s.nodes /\ g \in s.nodes
  BY <1>5 DEF SameNodes
<1>7. Width(low[p], high[p]) \in Nat /\ Width(low[g], high[g]) \in Nat
      /\ Width(low[x], high[x]) \in Nat
  BY Numbers
<1>8. Width(low1[x], high1[x]) < Width(low1[g], high1[g])
  BY <1>3, <1>7
<1>9. PICK r : r = left_rotate(s, g)
  OBVIOUS
<1>10. Splayed(r, s, low1, high1, x)
  BY <1>3, <1>5, <1>6, <1>8, <1>9, ZigLeft
<1>11. PICK low2, high2 : /\ Bounded(r, low2, high2) /\ SameNodes(r, s)
                          /\ Width(low2[x], high2[x]) > Width(low1[x], high1[x])
  BY <1>10 DEF Splayed
<1>12. Width(low2[x], high2[x]) \in Nat
  BY Widths
<1>13. Width(low2[x], high2[x]) > Width(low[x], high[x])
  BY <1>3, <1>7, <1>11, <1>12
<1> QED
  BY <1>2, <1>5, <1>9, <1>11, <1>13 DEF Splayed, SameNodes

\* x is the right child of p, and p the left child of g.
LEMMA ZigZagLeft ==
  ASSUME NEW t, NEW low, NEW high, Bounded(t, low, high), NEW x \in t.nodes,
         NEW p \in t.nodes, t.right[p] = x, NEW g \in t.nodes, t.left[g] = p,
         x # p, x # g, p # g, t.parent[p] = g,
         Width(low[x], high[x]) < Width(low[p], high[p]),
         Width(low[p], high[p]) < Width(low[g], high[g])
  PROVE  LET u == left_rotate(t, p) IN Splayed(right_rotate(u, u.parent[x]), t, low, high, x)
<1>1. x # NULL /\ p # NULL /\ g # NULL /\ g \in Key /\ x \in Key
  BY Numbers
<1>2. PICK s : s = left_rotate(t, p)
  OBVIOUS
<1>3. PICK low1, high1 :
        /\ Bounded(s, low1, high1) /\ low1[x] = low[p] /\ high1[x] = high[p]
        /\ low1[g] = low[g] /\ high1[g] = high[g]
  <2>1. \E low1, high1 :
          /\ Bounded(s, low1, high1) /\ low1[x] = low[p] /\ high1[x] = high[p]
          /\ \A u \in t.nodes : u # x /\ u # p => low1[u] = low[u] /\ high1[u] = high[u]
    BY <1>1, <1>2, LeftLift
  <2> QED
    BY <2>1
<1>4. LeftTurned(s, t, p, x, t.left[x], t.parent[p])
  BY <1>1, <1>2, LeftLift
<1>5. SameNodes(s, t) /\ s.parent[x] = g /\ s.left[g] = x
  BY <1>1, <1>4 DEF LeftTurned
<1>6. x \in s.nodes /\ g \in s.nodes
  BY <1>5 DEF SameNodes
<1>7. Width(low[p], high[p]) \in Nat /\ Width(low[g], high[g]) \in Nat
      /\ Width(low[x], high[x]) \in Nat
  BY Numbers
<1>8. Width(low1[x], high1[x]) < Width(low1[g], high1[g])
  BY <1>3, <1>7
<1>9. PICK r : r = right_rotate(s, g)
  OBVIOUS
<1>10. Splayed(r, s, low1, high1, x)
  BY <1>3, <1>5, <1>6, <1>8, <1>9, ZigRight
<1>11. PICK low2, high2 : /\ Bounded(r, low2, high2) /\ SameNodes(r, s)
                          /\ Width(low2[x], high2[x]) > Width(low1[x], high1[x])
  BY <1>10 DEF Splayed
<1>12. Width(low2[x], high2[x]) \in Nat
  BY Widths
<1>13. Width(low2[x], high2[x]) > Width(low[x], high[x])
  BY <1>3, <1>7, <1>11, <1>12
<1> QED
  BY <1>2, <1>5, <1>9, <1>11, <1>13 DEF Splayed, SameNodes

LEMMA StepSplays ==
  ASSUME NEW t, NEW low, NEW high, Bounded(t, low, high), NEW x \in t.nodes, t.parent[x] # NULL
  PROVE  Splayed(SplayStep(t, x), t, low, high, x)
<1> DEFINE p == t.parent[x]
           g == t.parent[p]
<1>1. /\ p \in t.nodes /\ x # p
      /\ Width(low[x], high[x]) < Width(low[p], high[p])
      /\ \/ t.left[p] = x /\ t.right[p] # x
         \/ t.right[p] = x /\ t.left[p] # x
  BY ParentOf
<1>2. CASE g = NULL
  <2>1. CASE t.left[p] = x
    <3>1. SplayStep(t, x) = right_rotate(t, p)
      BY <1>2, <2>1 DEF SplayStep
    <3> HIDE DEF p, g
    <3> QED
      BY <1>1, <2>1, <3>1, ZigRight
  <2>2. CASE t.left[p] # x
    <3>1. SplayStep(t, x) = left_rotate(t, p)
      BY <1>2, <2>2 DEF SplayStep
    <3> HIDE DEF p, g
    <3> QED
      BY <1>1, <2>2, <3>1, ZigLeft
  <2> QED
    BY <2>1, <2>2
<1>3. CASE g # NULL
  <2>1. /\ g \in t.nodes /\ p # g
        /\ Width(low[p], high[p]) < Width(low[g], high[g])
        /\ \/ t.left[g] = p /\ t.right[g] # p
           \/ t.right[g] = p /\ t.left[g] # p
    BY <1>1, <1>3, ParentOf
  <2>2. /\ Width(low[x], high[x]) \in Nat /\ Width(low[p], high[p]) \in Nat
        /\ Width(low[g], high[g]) \in Nat
    BY Widths
  <2>3. x # g
    BY <1>1, <2>1, <2>2
  <2>4. t.parent[g] # p
    <3>1. SUFFICES ASSUME t.parent[g] = p PROVE FALSE
      OBVIOUS
    <3>2. p # NULL
      OBVIOUS
    <3>3. Width(low[g], high[g]) < Width(low[p], high[p])
      BY <2>1, <3>1, <3>2, ParentOf
    <3> QED
      BY <2>1, <2>2, <3>3
  <2>5. CASE t.left[p] = x /\ t.left[g] = p
    <3>1. SplayStep(t, x) = right_rotate(right_rotate(t, g), p)
      BY <1>3, <2>5 DEF SplayStep
    <3> HIDE DEF p, g
    <3> QED
      BY <1>1, <2>1, <2>3, <2>4, <2>5, <3>1, ZigZigRight
  <2>6. CASE t.left[p] # x /\ t.left[g] # p
    <3>1. SplayStep(t, x) = left_rotate(left_rotate(t, g), p)
      BY <1>3, <2>6 DEF SplayStep
    <3> HIDE DEF p, g
    <3> QED
      BY <1>1, <2>1, <2>3, <2>4, <2>6, <3>1, ZigZigLeft
  <2>7. CASE t.left[p] = x /\ t.left[g] # p
    <3> DEFINE u == right_rotate(t, p)
    <3>1. SplayStep(t, x) = left_rotate(u, u.parent[x])
      BY <1>3, <2>7 DEF SplayStep
    <3>2. t.parent[p] = g
      OBVIOUS
    <3> HIDE DEF p, g
    <3> QED
      BY <1>1, <2>1, <2>3, <2>4, <2>7, <3>1, <3>2, ZigZagRight
  <2>8. CASE t.left[p] # x /\ t.left[g] = p
    <3> DEFINE u == left_rotate(t, p)
    <3>1. SplayStep(t, x) = right_rotate(u, u.parent[x])
      BY <1>3, <2>8 DEF SplayStep
    <3>2. t.parent[p] = g
      OBVIOUS
    <3> HIDE DEF p, g
    <3> QED
      BY <1>1, <2>1, <2>3, <2>4, <2>8, <3>1, <3>2, ZigZagLeft
  <2> QED
    BY <2>5, <2>6, <2>7, <2>8
<1> QED
  BY <1>2, <1>3

-----------------------------------------------------------------------------
(* Splaying makes the node the root                                        *)

Turns(t, x) ==
  LET after[n \in 0..Cardinality(Key)] ==
        IF n = 0 THEN t
        ELSE LET u == after[n - 1]
             IN  IF u.parent[x] = NULL THEN u ELSE SplayStep(u, x)
  IN  after

\* The search trees of t's nodes.
TreesOf(t) ==
  {u \in [root : NodeOrNull, node_count : {t.node_count}, nodes : {t.nodes},
          left : [Key -> NodeOrNull], right : [Key -> NodeOrNull],
          parent : [Key -> NodeOrNull], record : {t.record}] :
     \E low, high : Bounded(u, low, high)}

LEMMA TreesOfAre ==
  ASSUME NEW t, NEW u
  PROVE  u \in TreesOf(t) <=> SameNodes(u, t) /\ \E low, high : Bounded(u, low, high)
<1>1. ASSUME u \in TreesOf(t) PROVE SameNodes(u, t) /\ \E low, high : Bounded(u, low, high)
  BY <1>1 DEF TreesOf, SameNodes
<1>2. ASSUME SameNodes(u, t), NEW low, NEW high, Bounded(u, low, high) PROVE u \in TreesOf(t)
  <2>1. /\ u = [root |-> u.root, node_count |-> u.node_count, nodes |-> u.nodes,
                left |-> u.left, right |-> u.right, parent |-> u.parent, record |-> u.record]
        /\ u.root \in NodeOrNull /\ u.left \in [Key -> NodeOrNull]
        /\ u.right \in [Key -> NodeOrNull] /\ u.parent \in [Key -> NodeOrNull]
    BY <1>2 DEF Bounded, Typed, Record8
  <2>2. u.node_count = t.node_count /\ u.nodes = t.nodes /\ u.record = t.record
    BY <1>2 DEF SameNodes
  <2>3. u \in [root : NodeOrNull, node_count : {t.node_count}, nodes : {t.nodes},
               left : [Key -> NodeOrNull], right : [Key -> NodeOrNull],
               parent : [Key -> NodeOrNull], record : {t.record}]
    BY <2>1, <2>2
  <2> QED
    BY <1>2, <2>3 DEF TreesOf
<1> QED
  BY <1>1, <1>2

LEMMA TurnsAre ==
  ASSUME NEW t, NEW low, NEW high, Bounded(t, low, high), NEW x \in t.nodes
  PROVE  /\ Turns(t, x)[0] = t
         /\ \A n \in 1..Cardinality(Key) :
              Turns(t, x)[n] = IF Turns(t, x)[n - 1].parent[x] = NULL THEN Turns(t, x)[n - 1]
                               ELSE SplayStep(Turns(t, x)[n - 1], x)
<1> DEFINE N == Cardinality(Key)
           S == TreesOf(t)
           F == [u \in S |-> IF u.parent[x] = NULL THEN u ELSE SplayStep(u, x)]
           Is(f) == f = [n \in 0..N |-> IF n = 0 THEN t
                           ELSE IF f[n - 1].parent[x] = NULL THEN f[n - 1]
                           ELSE SplayStep(f[n - 1], x)]
<1>1. N \in Nat
  BY Widths
<1>2. F \in [S -> S] /\ t \in S
  <2>1. t \in S
    BY TreesOfAre DEF SameNodes
  <2>2. ASSUME NEW u \in S, u.parent[x] # NULL PROVE SplayStep(u, x) \in S
    <3>1. PICK low1, high1 : Bounded(u, low1, high1) /\ SameNodes(u, t)
      BY TreesOfAre
    <3>2. x \in u.nodes
      BY <3>1 DEF SameNodes
    <3>3. Splayed(SplayStep(u, x), u, low1, high1, x)
      BY <2>2, <3>1, <3>2, StepSplays
    <3>4. SameNodes(SplayStep(u, x), t) /\ \E l, h : Bounded(SplayStep(u, x), l, h)
      BY <3>1, <3>3 DEF Splayed, SameNodes
    <3> QED
      BY <3>4, TreesOfAre
  <2> HIDE DEF S
  <2> QED
    BY <2>1, <2>2
<1>3. PICK f \in [0..N -> S] : Steps(f, F, t, N)
  <2> HIDE DEF F, N, S
  <2> QED
    BY <1>1, <1>2, Iterates
<1>4. Is(f)
  <2>1. \A n \in 0..N : n # 0 => f[n - 1] \in S
    BY <1>1, <1>3
  <2>2. \A n \in 0..N : n # 0 =>
          F[f[n - 1]] = IF f[n - 1].parent[x] = NULL THEN f[n - 1] ELSE SplayStep(f[n - 1], x)
    BY <2>1
  <2>3. f = [n \in 0..N |-> IF n = 0 THEN t ELSE F[f[n - 1]]]
    BY <1>3 DEF Steps
  <2> HIDE DEF F, N
  <2> QED
    BY <2>2, <2>3
<1>5. Is(Turns(t, x))
  <2>1. Turns(t, x) = CHOOSE g : Is(g)
    BY DEF Turns
  <2> HIDE DEF Is
  <2> QED
    BY <1>4, <2>1
<1>6. ASSUME NEW h, Is(h)
      PROVE  /\ h[0] = t
             /\ \A n \in 1..N : h[n] = IF h[n - 1].parent[x] = NULL THEN h[n - 1]
                                       ELSE SplayStep(h[n - 1], x)
  <2> HIDE DEF N
  <2>1. \A n \in 1..N : n \in 0..N /\ n # 0
    BY <1>1
  <2>2. 0 \in 0..N
    BY <1>1
  <2> QED
    BY <1>6, <2>1, <2>2
<1> QED
  BY <1>5, <1>6

LEMMA SplayRoots ==
  ASSUME NEW t, NEW low, NEW high, Bounded(t, low, high), NEW x \in t.nodes
  PROVE  /\ SameNodes(splay(t, x), t) /\ splay(t, x).root = x
         /\ \E low2, high2 : Bounded(splay(t, x), low2, high2)
<1> DEFINE N == Cardinality(Key)
           g == Turns(t, x)
           Fine(n) == \E low2, high2 :
             /\ Bounded(g[n], low2, high2) /\ SameNodes(g[n], t)
             /\ g[n].parent[x] = NULL \/ Width(low2[x], high2[x]) >= n + 1
           G == {n \in 0..N : Fine(n)}
<1>1. N \in Nat /\ splay(t, x) = g[N]
  BY Widths DEF splay, Turns
<1>2. /\ g[0] = t
      /\ \A n \in 1..N : g[n] = IF g[n - 1].parent[x] = NULL THEN g[n - 1]
                                ELSE SplayStep(g[n - 1], x)
  BY TurnsAre
<1> HIDE DEF g
<1>3. 0 \in G
  <2>1. Width(low[x], high[x]) >= 0 + 1
    BY WidthPositive
  <2>2. Fine(0)
    BY <1>2, <2>1 DEF SameNodes
  <2> QED
    BY <1>1, <2>2
<1>4. ASSUME NEW n \in 1..N, n - 1 \in G PROVE n \in G
  <2>1. n \in 0..N /\ n - 1 \in 0..N
    BY <1>1
  <2>2. PICK u : u = g[n - 1]
    OBVIOUS
  <2>3. PICK low1, high1 :
          /\ Bounded(u, low1, high1) /\ SameNodes(u, t)
          /\ u.parent[x] = NULL \/ Width(low1[x], high1[x]) >= n
    BY <1>4, <2>1, <2>2
  <2>4. CASE u.parent[x] = NULL
    <3>1. g[n] = u
      BY <1>2, <2>2, <2>4
    <3> QED
      BY <2>1, <2>3, <2>4, <3>1
  <2>5. CASE u.parent[x] # NULL
    <3>1. g[n] = SplayStep(u, x) /\ Width(low1[x], high1[x]) >= n /\ x \in u.nodes
      BY <1>2, <2>2, <2>3, <2>5 DEF SameNodes
    <3>2. Splayed(SplayStep(u, x), u, low1, high1, x)
      BY <2>3, <2>5, <3>1, StepSplays
    <3>3. PICK low2, high2 :
            /\ Bounded(g[n], low2, high2) /\ SameNodes(g[n], u)
            /\ Width(low2[x], high2[x]) > Width(low1[x], high1[x])
      BY <3>1, <3>2 DEF Splayed
    <3>4. Width(low2[x], high2[x]) \in Nat /\ Width(low1[x], high1[x]) \in Nat
      BY Widths
    <3>5. Width(low2[x], high2[x]) >= n + 1
      BY <2>1, <3>1, <3>3, <3>4
    <3>6. SameNodes(g[n], t)
      BY <2>3, <3>3 DEF SameNodes
    <3>7. Fine(n)
      BY <3>3, <3>5, <3>6
    <3> QED
      BY <2>1, <3>7
  <2> QED
    BY <2>4, <2>5
<1>5. \A n \in 0..N : n \in G
  <2> HIDE DEF G
  <2> QED
    BY <1>1, <1>3, <1>4, UpTo
<1>6. PICK s, low2, high2 :
        /\ s = g[N] /\ Bounded(s, low2, high2) /\ SameNodes(s, t)
        /\ s.parent[x] = NULL \/ Width(low2[x], high2[x]) >= N + 1
  BY <1>1, <1>5
<1>7. Width(low2[x], high2[x]) \in Nat /\ Width(low2[x], high2[x]) <= N
  BY Widths
<1>8. s.parent[x] = NULL /\ x \in s.nodes
  BY <1>1, <1>6, <1>7 DEF SameNodes
<1>9. s.root = x
  BY <1>6, <1>8, ParentOf
<1> QED
  BY <1>1, <1>6, <1>9

-----------------------------------------------------------------------------
(* What a search visits                                                    *)

LEMMA PathIs ==
  ASSUME NEW t, Typed(t), NEW key \in Key
  PROVE  /\ Path(t, key) \in [0..Cardinality(Key) -> NodeOrNull] /\ Path(t, key)[0] = t.root
         /\ \A n \in 1..Cardinality(Key) :
              Path(t, key)[n] = IF Path(t, key)[n - 1] \in {NULL, key} THEN NULL
                                ELSE ChildTo(t, Path(t, key)[n - 1], key)
<1> DEFINE N == Cardinality(Key)
           F == [z \in NodeOrNull |-> IF z \in {NULL, key} THEN NULL ELSE ChildTo(t, z, key)]
           Is(f) == f = [n \in 0..N |-> IF n = 0 THEN t.root
                           ELSE IF f[n - 1] = NULL \/ f[n - 1] = key THEN NULL
                           ELSE IF key > f[n - 1] THEN t.right[f[n - 1]] ELSE t.left[f[n - 1]]]
<1>1. N \in Nat
  BY Widths
<1>2. F \in [NodeOrNull -> NodeOrNull] /\ t.root \in NodeOrNull
  BY DEF Typed, NodeOrNull, ChildTo
<1>3. \A z \in NodeOrNull : F[z] = IF z = NULL \/ z = key THEN NULL
                                   ELSE IF key > z THEN t.right[z] ELSE t.left[z]
  <2>1. \A z \in NodeOrNull : z # NULL /\ z # key => (key > z <=> ~(key < z))
    BY KeyAssumption DEF NodeOrNull
  <2> QED
    BY <2>1 DEF ChildTo
<1>4. PICK f \in [0..N -> NodeOrNull] : Steps(f, F, t.root, N)
  <2> HIDE DEF F, N
  <2> QED
    BY <1>1, <1>2, Iterates
<1>5. Is(f)
  <2>1. \A n \in 0..N : n # 0 => f[n - 1] \in NodeOrNull
    BY <1>1, <1>4
  <2>2. f = [n \in 0..N |-> IF n = 0 THEN t.root ELSE F[f[n - 1]]]
    BY <1>4 DEF Steps
  <2> HIDE DEF F, N
  <2> QED
    BY <1>3, <2>1, <2>2
<1>6. Is(Path(t, key))
  <2>1. Path(t, key) = CHOOSE g : Is(g)
    BY DEF Path
  <2> HIDE DEF Is
  <2> QED
    BY <1>5, <2>1
<1>7. ASSUME NEW h, Is(h)
      PROVE  /\ h[0] = t.root /\ DOMAIN h = 0..N /\ h = [n \in 0..N |-> h[n]]
             /\ \A n \in 1..N : h[n - 1] \in NodeOrNull => h[n] = F[h[n - 1]]
  <2>1. \A n \in 1..N : n \in 0..N /\ n # 0
    BY <1>1
  <2>2. 0 \in 0..N
    BY <1>1
  <2> HIDE DEF F, N
  <2> QED
    BY <1>3, <1>7, <2>1, <2>2
<1>8. PICK g : g = Path(t, key)
  OBVIOUS
<1>9. /\ g[0] = t.root /\ g = [n \in 0..N |-> g[n]]
      /\ \A n \in 1..N : g[n - 1] \in NodeOrNull => g[n] = F[g[n - 1]]
  BY <1>6, <1>7, <1>8
<1> DEFINE G == {n \in 0..N : g[n] \in NodeOrNull}
<1>10. \A n \in 0..N : n \in G
  <2>1. 0 \in G
    BY <1>1, <1>2, <1>9
  <2>2. ASSUME NEW n \in 1..N, n - 1 \in G PROVE n \in G
    <3>1. g[n - 1] \in NodeOrNull /\ n \in 0..N
      BY <2>2, <1>1
    <3>2. g[n] \in NodeOrNull
      BY <1>2, <1>9, <3>1
    <3> QED
      BY <3>1, <3>2
  <2> HIDE DEF G, N
  <2> QED
    BY <1>1, <2>1, <2>2, UpTo
<1>11. \A n \in 1..N : n - 1 \in 0..N
  BY <1>1
<1>12. \A n \in 0..N : g[n] \in NodeOrNull
  BY <1>10
<1>13. g \in [0..N -> NodeOrNull]
  <2> HIDE DEF N
  <2> QED
    BY <1>9, <1>12
<1>14. \A n \in 1..N : g[n] = F[g[n - 1]] /\ g[n - 1] \in NodeOrNull
  BY <1>9, <1>11, <1>12
<1> QED
  BY <1>8, <1>9, <1>13, <1>14

\* The nodes on the path hold the key, and its end is NULL.
LEMMA PathHolds ==
  ASSUME NEW t, NEW low, NEW high, Bounded(t, low, high), NEW key \in Key
  PROVE  /\ \A n \in 0..Cardinality(Key) : Path(t, key)[n] # NULL =>
              Path(t, key)[n] \in t.nodes /\ Holds(low, high, Path(t, key)[n], key)
         /\ Path(t, key)[Cardinality(Key)] = NULL
<1> DEFINE N == Cardinality(Key)
<1>1. N \in Nat /\ key \in Int /\ Typed(t)
  BY Widths, KeyAssumption DEF Bounded
<1>2. PICK g : g = Path(t, key)
  OBVIOUS
<1>3. /\ g[0] = t.root
      /\ \A n \in 1..N : g[n] = IF g[n - 1] \in {NULL, key} THEN NULL
                                ELSE ChildTo(t, g[n - 1], key)
  BY <1>1, <1>2, PathIs
<1> DEFINE Fine(n) == g[n] # NULL => /\ g[n] \in t.nodes /\ Holds(low, high, g[n], key)
                                     /\ Width(low[g[n]], high[g[n]]) <= N - n
           G == {n \in 0..N : Fine(n)}
<1>4. 0 \in G
  <2>1. Fine(0)
    <3>1. SUFFICES ASSUME g[0] # NULL PROVE Fine(0)
      OBVIOUS
    <3>2. g[0] \in t.nodes /\ low[g[0]] = 0 /\ high[g[0]] = Top
      BY <1>3, <3>1 DEF Bounded, Rooted
    <3>3. Holds(low, high, g[0], key)
      BY <3>2, KeyAssumption, TopAbove DEF Holds
    <3>4. Width(low[g[0]], high[g[0]]) <= N
      BY Widths
    <3> QED
      BY <1>1, <3>2, <3>3, <3>4
  <2> QED
    BY <1>1, <2>1
<1>5. ASSUME NEW n \in 1..N, n - 1 \in G PROVE n \in G
  <2>1. n \in 0..N /\ n - 1 \in 0..N /\ N - (n - 1) = (N - n) + 1 /\ N - n \in Int
    BY <1>1
  <2>2. PICK z, c : z = g[n - 1] /\ c = g[n]
    OBVIOUS
  <2>3. SUFFICES ASSUME c # NULL
                 PROVE  /\ c \in t.nodes /\ Holds(low, high, c, key)
                        /\ Width(low[c], high[c]) <= N - n
    BY <2>1, <2>2
  <2>4. z # NULL /\ z # key /\ c = ChildTo(t, z, key)
    BY <1>3, <2>2, <2>3
  <2>5. /\ z \in t.nodes /\ Holds(low, high, z, key)
        /\ Width(low[z], high[z]) <= (N - n) + 1
    BY <1>5, <2>1, <2>2, <2>4
  <2>6. /\ c \in t.nodes /\ Holds(low, high, c, key)
        /\ Width(low[c], high[c]) < Width(low[z], high[z])
    BY <1>1, <2>3, <2>4, <2>5, ChildHolds
  <2>7. Width(low[c], high[c]) \in Nat /\ Width(low[z], high[z]) \in Nat
    BY Widths
  <2> QED
    BY <2>1, <2>5, <2>6, <2>7
<1>6. \A n \in 0..N : n \in G
  <2> HIDE DEF G
  <2> QED
    BY <1>1, <1>4, <1>5, UpTo
<1>7. \A n \in 0..N : g[n] # NULL => g[n] \in t.nodes /\ Holds(low, high, g[n], key)
  BY <1>6
<1>8. g[N] = NULL
  <2>1. SUFFICES ASSUME g[N] # NULL PROVE FALSE
    OBVIOUS
  <2>2. g[N] \in t.nodes /\ Width(low[g[N]], high[g[N]]) <= 0
    BY <1>1, <1>6, <2>1
  <2>3. Width(low[g[N]], high[g[N]]) >= 1 /\ Width(low[g[N]], high[g[N]]) \in Nat
    BY <2>2, WidthPositive, Widths
  <2> QED
    BY <2>2, <2>3
<1> QED
  BY <1>2, <1>7, <1>8

LEMMA VisitedHold ==
  ASSUME NEW t, NEW low, NEW high, Bounded(t, low, high), NEW key \in Key,
         NEW z \in Visited(t, key)
  PROVE  z \in t.nodes /\ Holds(low, high, z, key)
<1>1. DOMAIN Path(t, key) = 0..Cardinality(Key)
  BY PathIs DEF Bounded
<1>2. PICK n \in 0..Cardinality(Key) : z = Path(t, key)[n] /\ z # NULL
  BY <1>1 DEF Visited, Range
<1> QED
  BY <1>2, PathHolds

\* A search comes by a node that no other node separates from the key.
LEMMA VisitsNear ==
  ASSUME NEW t, NEW low, NEW high, Bounded(t, low, high), NEW key \in Key, NEW v \in t.nodes,
         \A z \in t.nodes \ {v} : z # key /\ (key < z <=> v < z)
  PROVE  v \in Visited(t, key)
<1> DEFINE N == Cardinality(Key)
<1>1. N \in Nat /\ key \in Int /\ Typed(t) /\ v \in Int /\ v # NULL
  BY Widths, KeyAssumption, Numbers DEF Bounded
<1>2. PICK g : g = Path(t, key)
  OBVIOUS
<1>3. /\ g[0] = t.root /\ DOMAIN g = 0..N
      /\ \A n \in 1..N : g[n] = IF g[n - 1] \in {NULL, key} THEN NULL
                                ELSE ChildTo(t, g[n - 1], key)
  BY <1>1, <1>2, PathIs
<1> SUFFICES ASSUME \A n \in 0..N : g[n] # v PROVE FALSE
  BY <1>1, <1>2, <1>3 DEF Visited, Range
<1> DEFINE Fine(n) == g[n] \in t.nodes /\ Holds(low, high, g[n], v)
           G == {n \in 0..N : Fine(n)}
<1>4. 0 \in G
  <2>1. /\ t.root \in t.nodes /\ low[t.root] = 0 /\ high[t.root] = Top
    BY DEF Bounded, Rooted
  <2>2. Holds(low, high, t.root, v)
    BY <2>1, Numbers DEF Holds
  <2> QED
    BY <1>1, <1>3, <2>1, <2>2
<1>5. ASSUME NEW n \in 1..N, n - 1 \in G PROVE n \in G
  <2>1. n \in 0..N /\ n - 1 \in 0..N
    BY <1>1
  <2>2. PICK z, c : z = g[n - 1] /\ c = g[n]
    OBVIOUS
  <2>3. z \in t.nodes /\ Holds(low, high, z, v) /\ z # v
    BY <1>5, <2>1, <2>2
  <2>4. z # NULL /\ z # key /\ c = ChildTo(t, z, key)
    BY <1>3, <2>2, <2>3, Numbers
  <2>5. c = ChildTo(t, z, v)
    BY <2>3, <2>4 DEF ChildTo
  <2>6. c # NULL
    BY <2>3, <2>5, ChildThere
  <2>7. c \in t.nodes /\ Holds(low, high, c, v)
    BY <1>1, <2>3, <2>5, <2>6, ChildHolds
  <2> QED
    BY <2>1, <2>2, <2>7
<1>6. \A n \in 0..N : n \in G
  <2> HIDE DEF G
  <2> QED
    BY <1>1, <1>4, <1>5, UpTo
<1>7. g[N] \in t.nodes /\ g[N] = NULL
  BY <1>1, <1>2, <1>6, PathHolds
<1> QED
  BY <1>7, Numbers

LEMMA Finds ==
  ASSUME NEW t, NEW low, NEW high, Bounded(t, low, high), NEW key \in Key
  PROVE  key \in Visited(t, key) <=> key \in t.nodes
<1>1. ASSUME key \in t.nodes PROVE key \in Visited(t, key)
  BY <1>1, VisitsNear
<1> QED
  BY <1>1, VisitedHold

\* The greatest key below that a search comes by is the greatest there is.
LEMMA FindsNearest ==
  ASSUME NEW t, NEW low, NEW high, Bounded(t, low, high), NEW key \in Key, key \notin t.nodes,
         NEW S, S = {z \in Visited(t, key) : z < key}, NEW T, T = {z \in t.nodes : z < key}
  PROVE  /\ S = {} <=> T = {}
         /\ T # {} => Max(S) = Max(T) /\ Max(T) \in T
<1>1. S \subseteq T /\ T \subseteq t.nodes /\ \A z \in T : z < key
  BY VisitedHold
<1>2. CASE T = {}
  BY <1>1, <1>2
<1>3. CASE T # {}
  <2>1. Key \in SUBSET Nat /\ IsFiniteSet(Key) /\ t.nodes \subseteq Key
    BY KeyAssumption DEF Bounded, Typed
  <2>2. S \in SUBSET Nat /\ T \in SUBSET Nat /\ IsFiniteSet(S) /\ IsFiniteSet(T)
    BY <1>1, <2>1, FS_Subset
  <2>3. Max(T) \in T /\ \A y \in T : y <= Max(T)
    BY <1>3, <2>2, GreatestElement
  <2>4. PICK v \in T : v = Max(T) /\ \A y \in T : y <= v
    BY <2>3
  <2>5. v \in t.nodes /\ v < key /\ v \in Int /\ key \in Int
    <3>1. v \in t.nodes /\ v < key
      BY <1>1, <2>4
    <3>2. \A k \in Key : k \in Int
      BY KeyAssumption
    <3> QED
      BY <2>1, <3>1, <3>2
  <2>6. ASSUME NEW z \in t.nodes \ {v} PROVE z # key /\ (key < z <=> v < z)
    <3>1. z \in Int /\ z # key /\ z # v
      BY <2>1
    <3>2. z < key => z <= v
      BY <2>4
    <3> QED
      BY <2>5, <3>1, <3>2
  <2>7. v \in S
    BY <2>5, <2>6, VisitsNear
  <2>8. Max(S) \in S /\ \A y \in S : y <= Max(S)
    BY <2>2, <2>7, GreatestElement
  <2>9. Max(S) <= v /\ v <= Max(S) /\ Max(S) \in Int
    BY <1>1, <2>2, <2>4, <2>7, <2>8
  <2> QED
    BY <1>3, <2>3, <2>4, <2>5, <2>7, <2>9
<1> QED
  BY <1>2, <1>3

\* A search for a key that is not in the tree ends where the key belongs.
LEMMA LastIs ==
  ASSUME NEW t, NEW low, NEW high, Bounded(t, low, high), NEW key \in Key, key \notin t.nodes,
         NEW p, p = LastVisited(t, key)
  PROVE  /\ t.root = NULL => p = NULL
         /\ t.root # NULL => /\ p \in t.nodes /\ Holds(low, high, p, key)
                             /\ ChildTo(t, p, key) = NULL
<1> DEFINE N == Cardinality(Key)
<1>1. N \in Nat /\ Typed(t)
  BY Widths DEF Bounded
<1>2. PICK g : g = Path(t, key)
  OBVIOUS
<1>3. /\ g[0] = t.root /\ DOMAIN g = 0..N
      /\ \A n \in 1..N : g[n] = IF g[n - 1] \in {NULL, key} THEN NULL
                                ELSE ChildTo(t, g[n - 1], key)
  BY <1>1, <1>2, PathIs
<1>4. /\ \A n \in 0..N : g[n] # NULL => g[n] \in t.nodes /\ Holds(low, high, g[n], key)
      /\ g[N] = NULL
  BY <1>2, PathHolds
<1> DEFINE steps == {n \in 0..N : g[n] # NULL}
<1>5. p = IF steps = {} THEN NULL ELSE g[Max(steps)]
  BY <1>2, <1>3 DEF LastVisited
<1>6. CASE t.root = NULL
  <2>1. \A n \in 0..N : g[n] = NULL
    <3>1. t.nodes = {}
      BY <1>6 DEF Bounded, Rooted
    <3> QED
      BY <1>4, <3>1
  <2> QED
    BY <1>5, <1>6, <2>1
<1>7. CASE t.root # NULL
  <2>1. 0 \in steps
    BY <1>1, <1>3, <1>7
  <2>2. steps \in SUBSET Nat /\ IsFiniteSet(steps)
    <3>1. IsFiniteSet(0..N)
      BY <1>1, FS_Interval
    <3>2. steps \subseteq 0..N
      OBVIOUS
    <3>3. steps \in SUBSET Nat
      BY <1>1
    <3> HIDE DEF steps
    <3> QED
      BY <3>1, <3>2, <3>3, FS_Subset
  <2> HIDE DEF steps
  <2>3. PICK m \in steps : m = Max(steps) /\ \A y \in steps : y <= m
    BY <2>1, <2>2, GreatestElement
  <2>4. p = g[m]
    BY <1>5, <2>1, <2>3
  <2>5. m \in 0..N /\ g[m] # NULL
    BY DEF steps
  <2>6. m # N
    BY <1>4, <2>5
  <2>7. m + 1 \in 1..N /\ m + 1 \in 0..N /\ (m + 1) - 1 = m /\ ~(m + 1 <= m)
    BY <1>1, <2>5, <2>6
  <2>8. g[m + 1] = NULL
    BY <2>3, <2>7 DEF steps
  <2>9. p \in t.nodes /\ Holds(low, high, p, key) /\ p # NULL /\ p # key
    BY <1>4, <2>4, <2>5
  <2>10. ChildTo(t, p, key) = NULL
    BY <1>3, <2>4, <2>7, <2>8, <2>9
  <2> QED
    BY <1>7, <2>9, <2>10
<1> QED
  BY <1>6, <1>7

-----------------------------------------------------------------------------
(* A new node                                                              *)

\* A node lies on one side of each other one, with its bounds.
LEMMA Side ==
  ASSUME NEW t, NEW low, NEW high, Bounded(t, low, high), NEW u \in t.nodes,
         NEW v \in t.nodes, Holds(low, high, u, v), v # u
  PROVE  /\ v < u => high[v] <= u
         /\ u < v => u <= low[v]
<1>1. PICK c : c = ChildTo(t, u, v)
  OBVIOUS
<1>2. u \in Int /\ v \in Int /\ c # NULL
  BY <1>1, Numbers, ChildThere
<1>3. c \in t.nodes /\ Holds(low, high, c, v)
  BY <1>1, <1>2, ChildHolds
<1>4. /\ low[v] \in Int /\ high[v] \in Int /\ low[c] \in Int /\ high[c] \in Int
      /\ Placed(t, low, high, u)
  BY <1>3, Numbers DEF Bounded
<1>5. low[c] <= low[v] /\ high[v] <= high[c]
  <2>1. CASE c = v
    BY <1>4, <2>1
  <2>2. CASE c # v
    BY <1>3, <2>2, Nested
  <2> QED
    BY <2>1, <2>2
<1>6. v < u => high[c] = u
  BY <1>1, <1>2, <1>4 DEF ChildTo, Placed
<1>7. u < v => low[c] = u
  BY <1>1, <1>2, <1>4 DEF ChildTo, Placed
<1> QED
  BY <1>2, <1>4, <1>5, <1>6, <1>7

\* There is one free place for a key.
LEMMA OnePlace ==
  ASSUME NEW t, NEW low, NEW high, Bounded(t, low, high), NEW key \in Key, key \notin t.nodes,
         NEW p \in t.nodes, Holds(low, high, p, key), ChildTo(t, p, key) = NULL,
         NEW u \in t.nodes, Holds(low, high, u, key), ChildTo(t, u, key) = NULL
  PROVE  u = p
<1>1. ASSUME NEW v \in t.nodes, NEW w \in t.nodes, v # w, Holds(low, high, v, w),
             Holds(low, high, v, key), ChildTo(t, v, key) = NULL, Holds(low, high, w, key)
      PROVE  FALSE
  <2>1. /\ v \in Int /\ w \in Int /\ key \in Int /\ v # key
        /\ low[v] \in Int /\ high[v] \in Int /\ low[w] \in Int /\ high[w] \in Int
        /\ Placed(t, low, high, v)
    BY <1>1, Numbers, KeyAssumption DEF Bounded
  <2>2. CASE key < v
    <3>1. t.left[v] = NULL
      BY <1>1, <2>2 DEF ChildTo
    <3>2. ~(w < v)
      BY <1>1, <2>1, <3>1 DEF Placed, Holds
    <3>3. v <= low[w]
      BY <1>1, <2>1, <3>2, Side
    <3> QED
      BY <1>1, <2>1, <2>2, <3>3 DEF Holds
  <2>3. CASE v < key
    <3>1. t.right[v] = NULL
      BY <1>1, <2>1, <2>3 DEF ChildTo
    <3>2. ~(v < w)
      BY <1>1, <2>1, <3>1 DEF Placed, Holds
    <3>3. high[w] <= v
      BY <1>1, <2>1, <3>2, Side
    <3> QED
      BY <1>1, <2>1, <2>3, <3>3 DEF Holds
  <2> QED
    BY <2>1, <2>2, <2>3
<1>2. /\ low[u] \in Int /\ high[u] \in Int /\ low[p] \in Int /\ high[p] \in Int /\ key \in Int
  BY Numbers, KeyAssumption
<1>3. Holds(low, high, u, p) \/ Holds(low, high, p, u)
  BY <1>2, Laminar DEF Holds
<1> QED
  BY <1>1, <1>3

\* The tree once tree_insert has linked the new node below p.
Planted(t, key, rec, p) ==
  [t EXCEPT !.nodes = @ \cup {key}, !.record[key] = rec,
            !.parent[key] = p, !.left[key] = NULL, !.right[key] = NULL]
Linked(t, key, rec, p) ==
  IF p = NULL THEN [Planted(t, key, rec, p) EXCEPT !.root = key]
  ELSE IF p < key THEN [Planted(t, key, rec, p) EXCEPT !.right[p] = key]
  ELSE [Planted(t, key, rec, p) EXCEPT !.left[p] = key]

LEMMA LinkedFields ==
  ASSUME NEW t, Typed(t), NEW key \in Key, NEW rec \in Record, NEW p \in NodeOrNull, p # key,
         NEW s, s = Linked(t, key, rec, p)
  PROVE  /\ Typed(s) /\ s.nodes = t.nodes \cup {key} /\ s.node_count = t.node_count
         /\ s.record = [t.record EXCEPT ![key] = rec]
         /\ s.parent = [t.parent EXCEPT ![key] = p]
         /\ s.root = IF p = NULL THEN key ELSE t.root
         /\ \A k \in Key : /\ s.left[k] = IF k = key THEN NULL
                                          ELSE IF k = p /\ key < p THEN key ELSE t.left[k]
                           /\ s.right[k] = IF k = key THEN NULL
                                           ELSE IF k = p /\ p < key THEN key ELSE t.right[k]
<1>1. key \in NodeOrNull /\ NULL \in NodeOrNull
  BY DEF NodeOrNull
<1>2. PICK z : z = Planted(t, key, rec, p)
  OBVIOUS
<1>3. z = [root |-> t.root, node_count |-> t.node_count, nodes |-> t.nodes \cup {key},
           left |-> [t.left EXCEPT ![key] = NULL], right |-> [t.right EXCEPT ![key] = NULL],
           parent |-> [t.parent EXCEPT ![key] = p], record |-> [t.record EXCEPT ![key] = rec]]
  BY <1>2 DEF Typed, Record8, Planted
<1>4. /\ z.root = t.root /\ z.node_count = t.node_count /\ z.nodes = t.nodes \cup {key}
      /\ z.left = [t.left EXCEPT ![key] = NULL] /\ z.right = [t.right EXCEPT ![key] = NULL]
      /\ z.parent = [t.parent EXCEPT ![key] = p] /\ z.record = [t.record EXCEPT ![key] = rec]
      /\ Record8(z)
  BY <1>3 DEF Record8
<1>5. Typed(z)
  BY <1>1, <1>4 DEF Typed
<1>6. CASE p = NULL
  <2>1. s = WithRoot(z, key)
    BY <1>2, <1>6 DEF Linked, WithRoot
  <2>2. /\ Typed(s) /\ s.root = key /\ s.node_count = z.node_count /\ s.nodes = z.nodes
        /\ s.left = z.left /\ s.right = z.right /\ s.parent = z.parent /\ s.record = z.record
    BY SMTT(30), <1>1, <1>5, <2>1, RootSet
  <2> QED
    <3>1. NULL \notin Key
      BY KeyAssumption DEF NULL
    <3> QED
      BY <1>1, <1>4, <1>6, <2>2, <3>1 DEF Typed
<1>7. CASE p # NULL /\ p < key
  <2>1. s = WithRight(z, p, key) /\ p \in Key
    BY <1>2, <1>7 DEF Linked, WithRight, NodeOrNull
  <2>2. /\ Typed(s) /\ s.root = z.root /\ s.node_count = z.node_count /\ s.nodes = z.nodes
        /\ s.left = z.left /\ s.right = [z.right EXCEPT ![p] = key]
        /\ s.parent = z.parent /\ s.record = z.record
    BY <1>1, <1>5, <2>1, RightSet
  <2>3. ~(key < p)
    BY <1>7, <2>1, KeyAssumption
  <2>4. \A k \in Key : s.left[k] = IF k = key THEN NULL ELSE t.left[k]
    BY <1>4, <2>2 DEF Typed
  <2>5. \A k \in Key : s.right[k] = IF k = key THEN NULL ELSE IF k = p THEN key ELSE t.right[k]
    BY <1>4, <2>1, <2>2 DEF Typed
  <2> QED
    BY <1>4, <1>7, <2>2, <2>3, <2>4, <2>5
<1>8. CASE p # NULL /\ ~(p < key)
  <2>1. s = WithLeft(z, p, key) /\ p \in Key
    BY <1>2, <1>8 DEF Linked, WithLeft, NodeOrNull
  <2>2. /\ Typed(s) /\ s.root = z.root /\ s.node_count = z.node_count /\ s.nodes = z.nodes
        /\ s.left = [z.left EXCEPT ![p] = key] /\ s.right = z.right
        /\ s.parent = z.parent /\ s.record = z.record
    BY <1>1, <1>5, <2>1, LeftSet
  <2>3. key < p
    BY <1>8, <2>1, KeyAssumption
  <2>4. \A k \in Key : s.left[k] = IF k = key THEN NULL ELSE IF k = p THEN key ELSE t.left[k]
    BY <1>4, <2>1, <2>2 DEF Typed
  <2>5. \A k \in Key : s.right[k] = IF k = key THEN NULL ELSE t.right[k]
    BY <1>4, <2>2 DEF Typed
  <2> QED
    BY <1>4, <1>8, <2>2, <2>3, <2>4, <2>5
<1> QED
  BY <1>6, <1>7, <1>8

LEMMA LinkedBounded ==
  ASSUME NEW t, NEW low, NEW high, Bounded(t, low, high), NEW key \in Key, key \notin t.nodes,
         NEW rec \in Record, NEW p, p = LastVisited(t, key), NEW s, s = Linked(t, key, rec, p)
  PROVE  \E low2, high2 : Bounded(s, low2, high2)
<1>1. /\ Typed(t) /\ low \in [Key -> Int] /\ high \in [Key -> Int] /\ t.nodes \subseteq Key
      /\ \A u \in t.nodes : Placed(t, low, high, u) /\ u # NULL
  BY Numbers DEF Bounded, Typed
<1>2. /\ t.root = NULL => p = NULL
      /\ t.root # NULL => /\ p \in t.nodes /\ Holds(low, high, p, key) /\ p # NULL
                          /\ ChildTo(t, p, key) = NULL
  BY <1>1, LastIs
<1>3. p \in NodeOrNull /\ p # key /\ key # NULL /\ key \in Int /\ key > 0
  BY <1>1, <1>2, KeyAssumption DEF NodeOrNull, NULL
<1>4. /\ Typed(s) /\ s.nodes = t.nodes \cup {key} /\ s.node_count = t.node_count
      /\ s.record = [t.record EXCEPT ![key] = rec]
      /\ s.parent = [t.parent EXCEPT ![key] = p]
      /\ s.root = IF p = NULL THEN key ELSE t.root
      /\ \A k \in Key : /\ s.left[k] = IF k = key THEN NULL
                                       ELSE IF k = p /\ key < p THEN key ELSE t.left[k]
                        /\ s.right[k] = IF k = key THEN NULL
                                        ELSE IF k = p /\ p < key THEN key ELSE t.right[k]
  <2>1. Typed(t) /\ p \in NodeOrNull /\ p # key
    BY <1>1, <1>3
  <2> QED
    BY <2>1, LinkedFields
<1>5. \A k \in Key : /\ s.left[k] = IF k = key THEN NULL
                                    ELSE IF k = p /\ key < p THEN key ELSE t.left[k]
                     /\ s.right[k] = IF k = key THEN NULL
                                     ELSE IF k = p /\ p < key THEN key ELSE t.right[k]
  BY <1>4
<1>6. s.parent[key] = p /\ \A k \in t.nodes : s.parent[k] = t.parent[k]
  BY <1>1, <1>4 DEF Typed
<1> DEFINE lo == IF p = NULL THEN 0 ELSE IF p < key THEN p ELSE low[p]
           hi == IF p = NULL THEN Top ELSE IF p < key THEN high[p] ELSE p
           low2 == [low EXCEPT ![key] = lo]
           high2 == [high EXCEPT ![key] = hi]
<1>7. /\ lo \in Int /\ hi \in Int /\ lo < key /\ key < hi
  BY <1>2, <1>3, TopAbove, Numbers DEF Holds
<1>8. /\ low2 \in [Key -> Int] /\ high2 \in [Key -> Int] /\ low2[key] = lo /\ high2[key] = hi
      /\ \A u \in t.nodes : low2[u] = low[u] /\ high2[u] = high[u]
  BY <1>1, <1>7
<1>9. p # NULL => /\ p < key => lo = p /\ hi = high[p] /\ t.right[p] = NULL
                  /\ key < p => lo = low[p] /\ hi = p /\ t.left[p] = NULL
                  /\ p \in t.nodes /\ p \in Int /\ p \in Key
                  /\ (p < key \/ key < p) /\ ~(p < key /\ key < p)
  BY <1>1, <1>2, <1>3, Numbers DEF ChildTo
<1>10. p = NULL => lo = 0 /\ hi = Top
  OBVIOUS
<1> HIDE DEF lo, hi, low2, high2
<1>11. p = NULL => t.nodes = {}
  BY <1>2 DEF Bounded, Rooted
<1>12. Rooted(s, low2, high2)
  <2>1. CASE p = NULL
    BY <1>3, <1>4, <1>6, <1>8, <1>10, <2>1 DEF Rooted
  <2>2. CASE p # NULL
    <3>1. s.root = t.root /\ t.root # NULL
      BY <1>2, <1>4, <2>2
    <3>2. t.root \in t.nodes /\ t.parent[t.root] = NULL /\ low[t.root] = 0 /\ high[t.root] = Top
      BY <3>1 DEF Bounded, Rooted
    <3> QED
      BY <1>4, <1>6, <1>8, <3>1, <3>2 DEF Rooted
  <2> QED
    BY <2>1, <2>2
<1>13. Placed(s, low2, high2, key)
  <2>1. s.left[key] = NULL /\ s.right[key] = NULL
    BY <1>5
  <2>2. ASSUME key # s.root
        PROVE  s.parent[key] \in s.nodes /\ key \in {s.left[s.parent[key]], s.right[s.parent[key]]}
    <3>1. p # NULL
      BY <1>4, <2>2
    <3>2. p < key => s.right[p] = key
      BY <1>3, <1>5, <1>9, <3>1
    <3>3. key < p => s.left[p] = key
      BY <1>3, <1>5, <1>9, <3>1
    <3> QED
      BY <1>4, <1>6, <1>9, <3>1, <3>2, <3>3
  <2>3. ASSUME NEW v \in s.nodes PROVE ~(lo < v /\ v < hi) \/ v = key
    <3>1. SUFFICES ASSUME v \in t.nodes, p # NULL PROVE ~(lo < v /\ v < hi)
      BY <1>4, <1>11
    <3>2. Placed(t, low, high, p) /\ v \in Int /\ low[p] \in Int /\ high[p] \in Int
      BY <1>1, <1>9, <3>1, Numbers
    <3> QED
      BY <1>9, <3>1, <3>2 DEF Placed
  <2>4. ~(key < key)
    BY <1>3
  <2>5. \A v \in s.nodes : ~(lo < v /\ v < key) /\ ~(key < v /\ v < hi)
    <3>1. \A v \in s.nodes : v \in Int
      <4>1. s.nodes \subseteq Key
        BY <1>1, <1>4
      <4>2. \A k \in Key : k \in Int
        BY KeyAssumption
      <4> QED
        BY <4>1, <4>2
    <3> QED
      BY <1>3, <1>7, <2>3, <2>4, <3>1
  <2> QED
    BY <1>7, <1>8, <2>1, <2>2, <2>5 DEF Placed
<1>14. ASSUME NEW u \in t.nodes PROVE Placed(s, low2, high2, u)
  <2>1. /\ Placed(t, low, high, u) /\ u \in Key /\ u # key /\ u # NULL /\ u \in Int
        /\ low2[u] = low[u] /\ high2[u] = high[u] /\ p # NULL
    BY <1>1, <1>8, <1>11, Numbers
  <2>2. low2[u] < u /\ u < high2[u]
    BY <2>1 DEF Placed
  <2>3. ASSUME s.left[u] # NULL
        PROVE  /\ s.left[u] \in s.nodes /\ s.parent[s.left[u]] = u
               /\ low2[s.left[u]] = low2[u] /\ high2[s.left[u]] = u
    <3>1. CASE u = p /\ key < p
      BY <1>4, <1>5, <1>6, <1>8, <1>9, <2>1, <3>1
    <3>2. CASE ~(u = p /\ key < p)
      <4>1. s.left[u] = t.left[u]
        BY <1>5, <2>1, <3>2
      <4>2. /\ t.left[u] \in t.nodes /\ t.parent[t.left[u]] = u
            /\ low[t.left[u]] = low[u] /\ high[t.left[u]] = u
        BY <2>1, <2>3, <4>1 DEF Placed
      <4> QED
        BY <1>4, <1>6, <1>8, <2>1, <4>1, <4>2
    <3> QED
      BY <3>1, <3>2
  <2>4. ASSUME s.right[u] # NULL
        PROVE  /\ s.right[u] \in s.nodes /\ s.parent[s.right[u]] = u
               /\ low2[s.right[u]] = u /\ high2[s.right[u]] = high2[u]
    <3>1. CASE u = p /\ p < key
      BY <1>4, <1>5, <1>6, <1>8, <1>9, <2>1, <3>1
    <3>2. CASE ~(u = p /\ p < key)
      <4>1. s.right[u] = t.right[u]
        BY <1>5, <2>1, <3>2
      <4>2. /\ t.right[u] \in t.nodes /\ t.parent[t.right[u]] = u
            /\ low[t.right[u]] = u /\ high[t.right[u]] = high[u]
        BY <2>1, <2>4, <4>1 DEF Placed
      <4> QED
        BY <1>4, <1>6, <1>8, <2>1, <4>1, <4>2
    <3> QED
      BY <3>1, <3>2
  <2>5. ASSUME u # s.root
        PROVE  s.parent[u] \in s.nodes /\ u \in {s.left[s.parent[u]], s.right[s.parent[u]]}
    <3>1. u # t.root
      BY <1>4, <2>1, <2>5
    <3>2. PICK q : q = t.parent[u]
      OBVIOUS
    <3>3. q \in t.nodes /\ u \in {t.left[q], t.right[q]} /\ q \in Key /\ q # key
      BY <1>1, <2>1, <3>1, <3>2 DEF Placed
    <3>4. s.parent[u] = q
      BY <1>6, <3>2
    <3>5. t.left[q] = u => s.left[q] = u
      BY <1>5, <1>9, <2>1, <3>3
    <3>6. t.right[q] = u => s.right[q] = u
      BY <1>5, <1>9, <2>1, <3>3
    <3> QED
      BY <1>4, <3>3, <3>4, <3>5, <3>6
  <2>6. /\ t.left[u] # NULL => s.left[u] # NULL
        /\ t.right[u] # NULL => s.right[u] # NULL
    BY <1>3, <1>5, <2>1
  <2>7. ASSUME NEW v \in s.nodes
        PROVE  /\ low2[u] < v /\ v < u => s.left[u] # NULL
               /\ u < v /\ v < high2[u] => s.right[u] # NULL
    <3>1. CASE v \in t.nodes
      BY <2>1, <2>6, <3>1 DEF Placed
    <3>2. CASE v = key
      <4>1. CASE u = p
        BY <1>3, <1>5, <2>1, <3>2, <4>1
      <4>2. CASE u # p
        <5>1. Holds(low, high, u, key) => ChildTo(t, u, key) # NULL
          BY <1>2, <2>1, <4>2, OnePlace
        <5>2. low[u] \in Int /\ high[u] \in Int /\ low[u] < u /\ u < high[u]
          BY Numbers DEF Holds
        <5>3. low[u] < key /\ key < u => t.left[u] # NULL
          BY <1>3, <2>1, <5>1, <5>2 DEF Holds, ChildTo
        <5>4. u < key /\ key < high[u] => t.right[u] # NULL
          BY <1>3, <2>1, <5>1, <5>2 DEF Holds, ChildTo
        <5> QED
          BY <2>1, <2>6, <3>2, <5>3, <5>4
      <4> QED
        BY <4>1, <4>2
    <3> QED
      BY <1>4, <3>1, <3>2
  <2> QED
    BY <2>2, <2>3, <2>4, <2>5, <2>7 DEF Placed
<1>15. Bounded(s, low2, high2)
  BY <1>4, <1>8, <1>12, <1>13, <1>14 DEF Bounded
<1> QED
  BY <1>15

\* Neither the count nor the records matter for the shape.
LEMMA CountSet ==
  ASSUME NEW t, NEW low, NEW high, Bounded(t, low, high), NEW n,
         NEW s, s = [t EXCEPT !.node_count = n]
  PROVE  /\ Bounded(s, low, high) /\ s.node_count = n /\ s.nodes = t.nodes
         /\ s.record = t.record
<1>1. s = [root |-> t.root, node_count |-> n, nodes |-> t.nodes, left |-> t.left,
           right |-> t.right, parent |-> t.parent, record |-> t.record]
  BY DEF Bounded, Typed, Record8
<1>2. /\ s.root = t.root /\ s.node_count = n /\ s.nodes = t.nodes /\ s.left = t.left
      /\ s.right = t.right /\ s.parent = t.parent /\ s.record = t.record /\ Record8(s)
  BY <1>1 DEF Record8
<1>3. Typed(s) /\ Rooted(s, low, high)
  BY <1>2 DEF Bounded, Typed, Rooted
<1>4. \A u \in s.nodes : Placed(s, low, high, u)
  BY <1>2 DEF Bounded, Placed
<1> QED
  BY <1>2, <1>3, <1>4 DEF Bounded

LEMMA Inserts ==
  ASSUME NEW t, NEW low, NEW high, Bounded(t, low, high), NEW key \in Key, key \notin t.nodes,
         NEW rec \in Record, NEW s, s = tree_insert(t, key, rec).tree
  PROVE  /\ tree_insert(t, key, rec).ret = 1
         /\ s.nodes = t.nodes \cup {key} /\ s.node_count = t.node_count + 1
         /\ s.record = [t.record EXCEPT ![key] = rec]
         /\ \E low2, high2 : Bounded(s, low2, high2)
<1>1. key \notin Visited(t, key)
  BY Finds
<1>2. PICK p : p = LastVisited(t, key)
  OBVIOUS
<1>3. PICK u : u = Linked(t, key, rec, p)
  OBVIOUS
<1>4. tree_insert(t, key, rec) =
        [tree |-> [splay(u, key) EXCEPT !.node_count = @ + 1], ret |-> 1]
  BY <1>1, <1>2, <1>3 DEF tree_insert, Linked, Planted
<1>5. \E low1, high1 : Bounded(u, low1, high1)
  BY <1>2, <1>3, LinkedBounded
<1>6. /\ u.nodes = t.nodes \cup {key} /\ u.node_count = t.node_count
      /\ u.record = [t.record EXCEPT ![key] = rec]
  <2>1. p \in NodeOrNull /\ p # key /\ Typed(t)
    <3>1. p = NULL \/ p \in t.nodes
      BY <1>2, LastIs
    <3> QED
      BY <3>1, KeyAssumption DEF NodeOrNull, Bounded, Typed, NULL
  <2>2. /\ Typed(u) /\ u.nodes = t.nodes \cup {key} /\ u.node_count = t.node_count
        /\ u.record = [t.record EXCEPT ![key] = rec]
        /\ u.parent = [t.parent EXCEPT ![key] = p]
        /\ u.root = IF p = NULL THEN key ELSE t.root
        /\ \A k \in Key : /\ u.left[k] = IF k = key THEN NULL
                                         ELSE IF k = p /\ key < p THEN key ELSE t.left[k]
                          /\ u.right[k] = IF k = key THEN NULL
                                          ELSE IF k = p /\ p < key THEN key ELSE t.right[k]
    BY <1>3, <2>1, LinkedFields
  <2> QED
    BY <2>2
<1>7. PICK w : w = splay(u, key)
  OBVIOUS
<1>8. PICK low2, high2 : Bounded(w, low2, high2) /\ SameNodes(w, u)
  BY <1>5, <1>6, <1>7, SplayRoots
<1>9. s = [w EXCEPT !.node_count = t.node_count + 1]
  BY <1>4, <1>6, <1>7, <1>8 DEF SameNodes
<1>10. /\ Bounded(s, low2, high2) /\ s.node_count = t.node_count + 1 /\ s.nodes = w.nodes
       /\ s.record = w.record
  BY <1>8, <1>9, CountSet
<1> QED
  BY <1>4, <1>6, <1>8, <1>10 DEF SameNodes

-----------------------------------------------------------------------------
(* A node leaves                                                           *)

\* What free does to each field.
Freed(s, t, z) ==
  /\ Typed(s) /\ s.root = t.root /\ s.node_count = t.node_count - 1
  /\ s.nodes = t.nodes \ {z}
  /\ s.left = [t.left EXCEPT ![z] = NULL] /\ s.right = [t.right EXCEPT ![z] = NULL]
  /\ s.parent = [t.parent EXCEPT ![z] = NULL]
  /\ s.record = [t.record EXCEPT ![z] = NULL]

LEMMA FreeFields ==
  ASSUME NEW t, Typed(t), NEW z \in Key, NEW s, s = free(t, z)
  PROVE  Freed(s, t, z)
<1>1. s = [root |-> t.root, node_count |-> t.node_count - 1, nodes |-> t.nodes \ {z},
           left |-> [t.left EXCEPT ![z] = NULL], right |-> [t.right EXCEPT ![z] = NULL],
           parent |-> [t.parent EXCEPT ![z] = NULL], record |-> [t.record EXCEPT ![z] = NULL]]
  BY DEF Typed, Record8, free
<1>2. /\ s.root = t.root /\ s.node_count = t.node_count - 1
      /\ s.nodes = t.nodes \ {z}
      /\ s.left = [t.left EXCEPT ![z] = NULL] /\ s.right = [t.right EXCEPT ![z] = NULL]
      /\ s.parent = [t.parent EXCEPT ![z] = NULL]
      /\ s.record = [t.record EXCEPT ![z] = NULL]
      /\ Record8(s)
  BY <1>1 DEF Record8
<1>3. Typed(s)
  BY <1>2 DEF Typed, NodeOrNull
<1> QED
  BY <1>2, <1>3 DEF Freed

\* What replace does to each field, p being u's parent.
Replaced(s, t, u, v, p) ==
  /\ Typed(s) /\ s.node_count = t.node_count /\ s.nodes = t.nodes /\ s.record = t.record
  /\ s.root = IF p = NULL THEN v ELSE t.root
  /\ s.left = IF p # NULL /\ t.left[p] = u THEN [t.left EXCEPT ![p] = v] ELSE t.left
  /\ s.right = IF p # NULL /\ t.left[p] # u THEN [t.right EXCEPT ![p] = v] ELSE t.right
  /\ s.parent = IF v = NULL THEN t.parent ELSE [t.parent EXCEPT ![v] = p]

LEMMA ReplaceFields ==
  ASSUME NEW t, Typed(t), NEW u \in Key, NEW v \in NodeOrNull,
         NEW s, s = replace(t, u, v), NEW p, p = t.parent[u]
  PROVE  Replaced(s, t, u, v, p)
<1>1. PICK w : w = InPlaceOf(t, u, v)
  OBVIOUS
<1>2. s = SetParent(w, v, p) /\ p \in NodeOrNull
  BY <1>1 DEF replace, Typed
<1>3. /\ Typed(w) /\ w.node_count = t.node_count /\ w.nodes = t.nodes
      /\ w.parent = t.parent /\ w.record = t.record
      /\ w.root = IF p = NULL THEN v ELSE t.root
      /\ w.left = IF p # NULL /\ t.left[p] = u THEN [t.left EXCEPT ![p] = v] ELSE t.left
      /\ w.right = IF p # NULL /\ t.left[p] # u THEN [t.right EXCEPT ![p] = v] ELSE t.right
  BY <1>1, InPlaceFields
<1>4. /\ Typed(s) /\ s.root = w.root /\ s.node_count = w.node_count /\ s.nodes = w.nodes
      /\ s.left = w.left /\ s.right = w.right /\ s.record = w.record
      /\ s.parent = IF v = NULL THEN w.parent ELSE [w.parent EXCEPT ![v] = p]
  BY <1>2, <1>3, SetParentFields
<1> QED
  BY <1>3, <1>4 DEF Replaced

\* The tree t without the node key.
Without(s, t, key) ==
  /\ s.nodes = t.nodes \ {key} /\ s.node_count = t.node_count - 1
  /\ s.record = [t.record EXCEPT ![key] = NULL]

\* The root key of s is replaced by c, or by nothing.
RootCut(f, s, key, c) ==
  /\ Typed(f) /\ f.root = c /\ f.nodes = s.nodes \ {key}
  /\ \A k \in f.nodes : f.left[k] = s.left[k] /\ f.right[k] = s.right[k]
  /\ \A k \in f.nodes : k # c => f.parent[k] = s.parent[k]
  /\ c # NULL /\ c # key => f.parent[c] = NULL

LEMMA RootCutFields ==
  ASSUME NEW s, Typed(s), NEW key \in Key, NEW c \in NodeOrNull,
         NEW w, w = replace(s, key, c), NEW p, p = s.parent[key], p = NULL,
         NEW g, g = free(w, key)
  PROVE  Without(g, s, key) /\ RootCut(g, s, key, c)
<1>1. Replaced(w, s, key, c, p)
  BY ReplaceFields
<1>4. /\ Typed(w) /\ w.node_count = s.node_count /\ w.nodes = s.nodes /\ w.record = s.record
      /\ w.root = c /\ w.left = s.left /\ w.right = s.right
      /\ w.parent = IF c = NULL THEN s.parent ELSE [s.parent EXCEPT ![c] = NULL]
  BY <1>1 DEF Replaced
<1>5. Freed(g, w, key)
  BY <1>4, FreeFields
<1>6. /\ Typed(g) /\ g.root = w.root /\ g.node_count = w.node_count - 1
      /\ g.nodes = w.nodes \ {key}
      /\ g.left = [w.left EXCEPT ![key] = NULL] /\ g.right = [w.right EXCEPT ![key] = NULL]
      /\ g.parent = [w.parent EXCEPT ![key] = NULL]
      /\ g.record = [w.record EXCEPT ![key] = NULL]
  BY <1>5 DEF Freed
<1>7. g.nodes \subseteq Key /\ key \notin g.nodes
  BY <1>6 DEF Typed
<1>8. \A k \in g.nodes : g.left[k] = s.left[k] /\ g.right[k] = s.right[k]
  BY <1>4, <1>6, <1>7 DEF Typed
<1>9. \A k \in g.nodes : k # c => g.parent[k] = s.parent[k]
  BY <1>4, <1>6, <1>7 DEF Typed
<1>10. c # NULL /\ c # key => g.parent[c] = NULL
  BY <1>4, <1>6 DEF Typed, NodeOrNull
<1>11. Without(g, s, key)
  BY <1>4, <1>6 DEF Without
<1>12. RootCut(g, s, key, c)
  BY <1>4, <1>6, <1>8, <1>9, <1>10 DEF RootCut
<1> QED
  BY <1>11, <1>12

LEMMA CutRightBounded ==
  ASSUME NEW s, NEW low, NEW high, Bounded(s, low, high), NEW key \in Key, s.root = key,
         s.left[key] = NULL, NEW c, c = s.right[key], NEW f, RootCut(f, s, key, c)
  PROVE  \E low2, high2 : Bounded(f, low2, high2)
<1>1. /\ Typed(s) /\ low \in [Key -> Int] /\ high \in [Key -> Int] /\ s.nodes \subseteq Key
      /\ \A u \in s.nodes : Placed(s, low, high, u) /\ u # NULL
  BY Numbers DEF Bounded, Typed
<1>2. /\ key \in s.nodes /\ s.parent[key] = NULL /\ low[key] = 0 /\ high[key] = Top
      /\ key # NULL /\ NULL \notin Key /\ key \in Int /\ Top \in Int
  BY Numbers, KeyAssumption DEF Bounded, Rooted, NULL
<1>3. \A v \in s.nodes : v \in Int /\ v > 0 /\ v < Top /\ low[v] \in Int /\ high[v] \in Int
                         /\ low[v] < v /\ v < high[v]
  BY Numbers DEF Holds
<1>4. c # NULL => /\ c \in s.nodes /\ s.parent[c] = key /\ c # key
                  /\ low[c] = key /\ high[c] = Top
  <2>1. c # NULL => c \in s.nodes /\ s.parent[c] = key /\ low[c] = key /\ high[c] = high[key]
    BY <1>1, <1>2 DEF Placed
  <2> QED
    BY <1>2, <2>1
<1>5. \A v \in s.nodes : v # key => key < v /\ c # NULL
  <2>1. Placed(s, low, high, key)
    BY <1>1, <1>2
  <2> QED
    BY <1>2, <1>3, <2>1 DEF Placed
<1>6. /\ Typed(f) /\ f.root = c /\ f.nodes = s.nodes \ {key}
      /\ \A k \in f.nodes : f.left[k] = s.left[k] /\ f.right[k] = s.right[k]
      /\ \A k \in f.nodes : k # c => f.parent[k] = s.parent[k]
      /\ c # NULL => c \in f.nodes /\ f.parent[c] = NULL
  BY <1>4 DEF RootCut
<1> DEFINE low2 == [u \in Key |-> IF low[u] = key THEN 0 ELSE low[u]]
           high2 == high
<1>7. /\ low2 \in [Key -> Int] /\ high2 \in [Key -> Int]
      /\ \A u \in Key : high2[u] = high[u]
      /\ \A u \in Key : low2[u] = IF low[u] = key THEN 0 ELSE low[u]
  BY <1>1, <1>2
<1> HIDE DEF low2, high2
<1>8. Rooted(f, low2, high2)
  <2>1. c = NULL => f.nodes = {}
    BY <1>5, <1>6
  <2>2. c # NULL => low2[c] = 0 /\ high2[c] = Top
    BY <1>1, <1>4, <1>7
  <2> QED
    BY <1>6, <2>1, <2>2 DEF Rooted
<1>9. ASSUME NEW u \in f.nodes PROVE Placed(f, low2, high2, u)
  <2>1. /\ u \in s.nodes /\ u # key /\ u \in Key /\ u # NULL /\ Placed(s, low, high, u)
        /\ key < u
    BY <1>1, <1>5, <1>6
  <2>2. low2[u] < u /\ u < high2[u]
    BY <1>1, <1>2, <1>3, <1>7, <2>1
  <2>3. ASSUME f.left[u] # NULL
        PROVE  /\ f.left[u] \in f.nodes /\ f.parent[f.left[u]] = u
               /\ low2[f.left[u]] = low2[u] /\ high2[f.left[u]] = u
    <3>1. PICK d : d = f.left[u]
      OBVIOUS
    <3>2. d = s.left[u] /\ d # NULL
      BY <1>6, <2>3, <3>1
    <3>3. d \in s.nodes /\ s.parent[d] = u /\ low[d] = low[u] /\ high[d] = u
      BY <2>1, <3>2 DEF Placed
    <3>4. d # key /\ d # c /\ d \in f.nodes /\ d \in Key
      BY <1>1, <1>2, <1>4, <1>6, <2>1, <3>2, <3>3
    <3>5. low2[d] = low2[u]
      BY <1>1, <1>2, <1>7, <2>1, <3>3, <3>4
    <3>6. high2[d] = u
      BY <1>1, <1>2, <1>7, <2>1, <3>3, <3>4
    <3>7. f.parent[d] = u
      BY <1>6, <3>3, <3>4
    <3> QED
      BY <3>1, <3>4, <3>5, <3>6, <3>7
  <2>4. ASSUME f.right[u] # NULL
        PROVE  /\ f.right[u] \in f.nodes /\ f.parent[f.right[u]] = u
               /\ low2[f.right[u]] = u /\ high2[f.right[u]] = high2[u]
    <3>1. PICK d : d = f.right[u]
      OBVIOUS
    <3>2. d = s.right[u] /\ d # NULL
      BY <1>6, <2>4, <3>1
    <3>3. d \in s.nodes /\ s.parent[d] = u /\ low[d] = u /\ high[d] = high[u]
      BY <2>1, <3>2 DEF Placed
    <3>4. d # key /\ d # c /\ d \in f.nodes /\ d \in Key
      BY <1>1, <1>2, <1>4, <1>6, <2>1, <3>2, <3>3
    <3>5. low2[d] = u
      BY <1>1, <1>2, <1>7, <2>1, <3>3, <3>4
    <3>6. high2[d] = high2[u]
      BY <1>1, <1>2, <1>7, <2>1, <3>3, <3>4
    <3>7. f.parent[d] = u
      BY <1>6, <3>3, <3>4
    <3> QED
      BY <3>1, <3>4, <3>5, <3>6, <3>7
  <2>5. ASSUME u # f.root
        PROVE  f.parent[u] \in f.nodes /\ u \in {f.left[f.parent[u]], f.right[f.parent[u]]}
    <3>1. PICK q : q = s.parent[u]
      OBVIOUS
    <3>2. q \in s.nodes /\ u \in {s.left[q], s.right[q]} /\ u # c
      BY <1>6, <2>1, <2>5, <3>1 DEF Placed
    <3>3. q # key
      BY <2>1, <3>2
    <3> QED
      BY <1>6, <3>1, <3>2, <3>3
  <2>6. ASSUME NEW v \in f.nodes
        PROVE  /\ low2[u] < v /\ v < u => f.left[u] # NULL
               /\ u < v /\ v < high2[u] => f.right[u] # NULL
    <3>1. v \in s.nodes /\ key < v
      BY <1>5, <1>6
    <3>2. low2[u] < v => low[u] < v
      BY <1>1, <1>2, <1>3, <1>7, <2>1, <3>1
    <3>3. high2[u] = high[u]
      BY <1>7, <2>1
    <3> QED
      BY <1>6, <2>1, <3>1, <3>2, <3>3 DEF Placed
  <2> QED
    BY <2>2, <2>3, <2>4, <2>5, <2>6 DEF Placed
<1>10. Bounded(f, low2, high2)
  BY <1>6, <1>7, <1>8, <1>9 DEF Bounded
<1> QED
  BY <1>10

\* The root has no left child: the other one takes its place.
LEMMA CutRight ==
  ASSUME NEW s, NEW low, NEW high, Bounded(s, low, high), NEW key \in Key, s.root = key,
         s.left[key] = NULL, NEW f, f = free(replace(s, key, s.right[key]), key)
  PROVE  Without(f, s, key) /\ \E low2, high2 : Bounded(f, low2, high2)
<1>1. PICK c : c = s.right[key]
  OBVIOUS
<1>2. c \in NodeOrNull
  BY <1>1 DEF Bounded, Typed
<1>3. Without(f, s, key) /\ RootCut(f, s, key, c)
  <2>1. Typed(s) /\ s.parent[key] = NULL /\ s.nodes \subseteq Key
    BY KeyAssumption DEF Bounded, Rooted, Typed, NULL
  <2>2. PICK w : w = replace(s, key, c)
    OBVIOUS
  <2>3. PICK p : p = s.parent[key]
    OBVIOUS
  <2>4. p = NULL /\ f = free(w, key)
    BY <1>1, <2>1, <2>2, <2>3
  <2> QED
    BY <1>2, <2>1, <2>2, <2>3, <2>4, RootCutFields
<1> QED
  BY <1>1, <1>3, CutRightBounded

LEMMA CutLeftBounded ==
  ASSUME NEW s, NEW low, NEW high, Bounded(s, low, high), NEW key \in Key, s.root = key,
         s.right[key] = NULL, NEW c, c = s.left[key], NEW f, RootCut(f, s, key, c)
  PROVE  \E low2, high2 : Bounded(f, low2, high2)
<1>1. /\ Typed(s) /\ low \in [Key -> Int] /\ high \in [Key -> Int] /\ s.nodes \subseteq Key
      /\ \A u \in s.nodes : Placed(s, low, high, u) /\ u # NULL
  BY Numbers DEF Bounded, Typed
<1>2. /\ key \in s.nodes /\ s.parent[key] = NULL /\ low[key] = 0 /\ high[key] = Top
      /\ key # NULL /\ NULL \notin Key /\ key \in Int /\ Top \in Int
  BY Numbers, KeyAssumption DEF Bounded, Rooted, NULL
<1>3. \A v \in s.nodes : v \in Int /\ v > 0 /\ v < Top /\ low[v] \in Int /\ high[v] \in Int
                         /\ low[v] < v /\ v < high[v]
  BY Numbers DEF Holds
<1>4. c # NULL => /\ c \in s.nodes /\ s.parent[c] = key /\ c # key
                  /\ high[c] = key /\ low[c] = 0
  <2>1. c # NULL => c \in s.nodes /\ s.parent[c] = key /\ high[c] = key /\ low[c] = low[key]
    BY <1>1, <1>2 DEF Placed
  <2> QED
    BY <1>2, <2>1
<1>5. \A v \in s.nodes : v # key => v < key /\ c # NULL
  <2>1. Placed(s, low, high, key)
    BY <1>1, <1>2
  <2> QED
    BY <1>2, <1>3, <2>1 DEF Placed
<1>6. /\ Typed(f) /\ f.root = c /\ f.nodes = s.nodes \ {key}
      /\ \A k \in f.nodes : f.left[k] = s.left[k] /\ f.right[k] = s.right[k]
      /\ \A k \in f.nodes : k # c => f.parent[k] = s.parent[k]
      /\ c # NULL => c \in f.nodes /\ f.parent[c] = NULL
  BY <1>4 DEF RootCut
<1> DEFINE high2 == [u \in Key |-> IF high[u] = key THEN Top ELSE high[u]]
           low2 == low
<1>7. /\ low2 \in [Key -> Int] /\ high2 \in [Key -> Int]
      /\ \A u \in Key : low2[u] = low[u]
      /\ \A u \in Key : high2[u] = IF high[u] = key THEN Top ELSE high[u]
  BY <1>1, <1>2
<1> HIDE DEF low2, high2
<1>8. Rooted(f, low2, high2)
  <2>1. c = NULL => f.nodes = {}
    BY <1>5, <1>6
  <2>2. c # NULL => high2[c] = Top /\ low2[c] = 0
    BY <1>1, <1>4, <1>7
  <2> QED
    BY <1>6, <2>1, <2>2 DEF Rooted
<1>9. ASSUME NEW u \in f.nodes PROVE Placed(f, low2, high2, u)
  <2>1. /\ u \in s.nodes /\ u # key /\ u \in Key /\ u # NULL /\ Placed(s, low, high, u)
        /\ u < key
    BY <1>1, <1>5, <1>6
  <2>2. low2[u] < u /\ u < high2[u]
    BY <1>1, <1>2, <1>3, <1>7, <2>1
  <2>3. ASSUME f.right[u] # NULL
        PROVE  /\ f.right[u] \in f.nodes /\ f.parent[f.right[u]] = u
               /\ high2[f.right[u]] = high2[u] /\ low2[f.right[u]] = u
    <3>1. PICK d : d = f.right[u]
      OBVIOUS
    <3>2. d = s.right[u] /\ d # NULL
      BY <1>6, <2>3, <3>1
    <3>3. d \in s.nodes /\ s.parent[d] = u /\ high[d] = high[u] /\ low[d] = u
      BY <2>1, <3>2 DEF Placed
    <3>4. d # key /\ d # c /\ d \in f.nodes /\ d \in Key
      BY <1>1, <1>2, <1>4, <1>6, <2>1, <3>2, <3>3
    <3>5. high2[d] = high2[u]
      BY <1>1, <1>2, <1>7, <2>1, <3>3, <3>4
    <3>6. low2[d] = u
      BY <1>1, <1>2, <1>7, <2>1, <3>3, <3>4
    <3>7. f.parent[d] = u
      BY <1>6, <3>3, <3>4
    <3> QED
      BY <3>1, <3>4, <3>5, <3>6, <3>7
  <2>4. ASSUME f.left[u] # NULL
        PROVE  /\ f.left[u] \in f.nodes /\ f.parent[f.left[u]] = u
               /\ high2[f.left[u]] = u /\ low2[f.left[u]] = low2[u]
    <3>1. PICK d : d = f.left[u]
      OBVIOUS
    <3>2. d = s.left[u] /\ d # NULL
      BY <1>6, <2>4, <3>1
    <3>3. d \in s.nodes /\ s.parent[d] = u /\ high[d] = u /\ low[d] = low[u]
      BY <2>1, <3>2 DEF Placed
    <3>4. d # key /\ d # c /\ d \in f.nodes /\ d \in Key
      BY <1>1, <1>2, <1>4, <1>6, <2>1, <3>2, <3>3
    <3>5. high2[d] = u
      BY <1>1, <1>2, <1>7, <2>1, <3>3, <3>4
    <3>6. low2[d] = low2[u]
      BY <1>1, <1>2, <1>7, <2>1, <3>3, <3>4
    <3>7. f.parent[d] = u
      BY <1>6, <3>3, <3>4
    <3> QED
      BY <3>1, <3>4, <3>5, <3>6, <3>7
  <2>5. ASSUME u # f.root
        PROVE  f.parent[u] \in f.nodes /\ u \in {f.left[f.parent[u]], f.right[f.parent[u]]}
    <3>1. PICK q : q = s.parent[u]
      OBVIOUS
    <3>2. q \in s.nodes /\ u \in {s.left[q], s.right[q]} /\ u # c
      BY <1>6, <2>1, <2>5, <3>1 DEF Placed
    <3>3. q # key
      BY <2>1, <3>2
    <3> QED
      BY <1>6, <3>1, <3>2, <3>3
  <2>6. ASSUME NEW v \in f.nodes
        PROVE  /\ v < high2[u] /\ u < v => f.right[u] # NULL
               /\ v < u /\ low2[u] < v => f.left[u] # NULL
    <3>1. v \in s.nodes /\ v < key
      BY <1>5, <1>6
    <3>2. v < high2[u] => v < high[u]
      BY <1>1, <1>2, <1>3, <1>7, <2>1, <3>1
    <3>3. low2[u] = low[u]
      BY <1>7, <2>1
    <3> QED
      BY <1>6, <2>1, <3>1, <3>2, <3>3 DEF Placed
  <2> QED
    BY <2>2, <2>3, <2>4, <2>5, <2>6 DEF Placed
<1>10. Bounded(f, low2, high2)
  BY <1>6, <1>7, <1>8, <1>9 DEF Bounded
<1> QED
  BY <1>10

\* The root has no right child: the other one takes its place.
LEMMA CutLeft ==
  ASSUME NEW s, NEW low, NEW high, Bounded(s, low, high), NEW key \in Key, s.root = key,
         s.right[key] = NULL, NEW f, f = free(replace(s, key, s.left[key]), key)
  PROVE  Without(f, s, key) /\ \E low2, high2 : Bounded(f, low2, high2)
<1>1. PICK c : c = s.left[key]
  OBVIOUS
<1>2. c \in NodeOrNull
  BY <1>1 DEF Bounded, Typed
<1>3. Without(f, s, key) /\ RootCut(f, s, key, c)
  <2>1. Typed(s) /\ s.parent[key] = NULL /\ s.nodes \subseteq Key
    BY KeyAssumption DEF Bounded, Rooted, Typed, NULL
  <2>2. PICK w : w = replace(s, key, c)
    OBVIOUS
  <2>3. PICK p : p = s.parent[key]
    OBVIOUS
  <2>4. p = NULL /\ f = free(w, key)
    BY <1>1, <2>1, <2>2, <2>3
  <2> QED
    BY <1>2, <2>1, <2>2, <2>3, <2>4, RootCutFields
<1> QED
  BY <1>1, <1>3, CutLeftBounded

\* The nodes that going left from u visits.
Leftwards(t, u) ==
  LET at[n \in 0..Cardinality(Key)] ==
        IF n = 0 THEN u
        ELSE LET v == at[n - 1] IN IF t.left[v] = NULL THEN v ELSE t.left[v]
  IN  at

LEMMA LeftwardsIs ==
  ASSUME NEW t, Typed(t), NEW u \in Key
  PROVE  /\ Leftwards(t, u)[0] = u
         /\ \A n \in 1..Cardinality(Key) :
              Leftwards(t, u)[n] = IF t.left[Leftwards(t, u)[n - 1]] = NULL
                                   THEN Leftwards(t, u)[n - 1]
                                   ELSE t.left[Leftwards(t, u)[n - 1]]
<1> DEFINE N == Cardinality(Key)
           F == [z \in Key |-> IF t.left[z] = NULL THEN z ELSE t.left[z]]
           Is(f) == f = [n \in 0..N |-> IF n = 0 THEN u
                           ELSE IF t.left[f[n - 1]] = NULL THEN f[n - 1] ELSE t.left[f[n - 1]]]
<1>1. N \in Nat
  BY Widths
<1>2. F \in [Key -> Key]
  BY DEF Typed, NodeOrNull
<1>3. PICK f \in [0..N -> Key] : Steps(f, F, u, N)
  <2> HIDE DEF F, N
  <2> QED
    BY <1>1, <1>2, Iterates
<1>4. Is(f)
  <2>1. \A n \in 0..N : n # 0 => f[n - 1] \in Key
    BY <1>1, <1>3
  <2>2. \A n \in 0..N : n # 0 =>
          F[f[n - 1]] = IF t.left[f[n - 1]] = NULL THEN f[n - 1] ELSE t.left[f[n - 1]]
    BY <2>1
  <2>3. f = [n \in 0..N |-> IF n = 0 THEN u ELSE F[f[n - 1]]]
    BY <1>3 DEF Steps
  <2> HIDE DEF F, N
  <2> QED
    BY <2>2, <2>3
<1>5. Is(Leftwards(t, u))
  <2>1. Leftwards(t, u) = CHOOSE g : Is(g)
    BY DEF Leftwards
  <2> HIDE DEF Is
  <2> QED
    BY <1>4, <2>1
<1>6. ASSUME NEW h, Is(h)
      PROVE  /\ h[0] = u
             /\ \A n \in 1..N : h[n] = IF t.left[h[n - 1]] = NULL THEN h[n - 1]
                                       ELSE t.left[h[n - 1]]
  <2> HIDE DEF N
  <2>1. \A n \in 1..N : n \in 0..N /\ n # 0
    BY <1>1
  <2>2. 0 \in 0..N
    BY <1>1
  <2> QED
    BY <1>6, <2>1, <2>2
<1> QED
  BY <1>5, <1>6

LEMMA MinimumIs ==
  ASSUME NEW t, NEW low, NEW high, Bounded(t, low, high), NEW r \in t.nodes,
         NEW y, y = subtree_minimum(t, r)
  PROVE  y \in t.nodes /\ low[y] = low[r] /\ t.left[y] = NULL
<1> DEFINE N == Cardinality(Key)
           g == Leftwards(t, r)
           G == {n \in 0..N : /\ g[n] \in t.nodes /\ low[g[n]] = low[r]
                              /\ t.left[g[n]] = NULL \/ Width(low[g[n]], high[g[n]]) <= N - n}
<1>1. N \in Nat /\ y = g[N] /\ r \in Key /\ Typed(t)
  BY Widths DEF subtree_minimum, Leftwards, Bounded, Typed
<1>2. /\ g[0] = r
      /\ \A n \in 1..N : g[n] = IF t.left[g[n - 1]] = NULL THEN g[n - 1] ELSE t.left[g[n - 1]]
  BY <1>1, LeftwardsIs
<1> HIDE DEF g
<1>3. 0 \in G
  <2>1. Width(low[r], high[r]) \in Nat /\ Width(low[r], high[r]) <= N
    BY Widths
  <2> QED
    BY <1>1, <1>2, <2>1
<1>4. ASSUME NEW n \in 1..N, n - 1 \in G PROVE n \in G
  <2>1. n \in 0..N /\ n - 1 \in 0..N /\ N - (n - 1) = (N - n) + 1 /\ N - n \in Int
    BY <1>1
  <2>2. PICK v : v = g[n - 1]
    OBVIOUS
  <2>3. /\ v \in t.nodes /\ low[v] = low[r]
        /\ t.left[v] = NULL \/ Width(low[v], high[v]) <= N - (n - 1)
    BY <1>4, <2>2
  <2>4. CASE t.left[v] = NULL
    <3>1. g[n] = v
      BY <1>2, <2>2, <2>4
    <3> QED
      BY <2>1, <2>3, <2>4, <3>1
  <2>5. CASE t.left[v] # NULL
    <3>1. PICK c : c = t.left[v]
      OBVIOUS
    <3>2. g[n] = c /\ Width(low[v], high[v]) <= N - (n - 1)
      BY <1>2, <2>2, <2>3, <2>5, <3>1
    <3>3. low[v] < v /\ v < high[v] /\ low[v] \in Int /\ v \in Int /\ high[v] \in Int
      BY <2>3, Numbers DEF Holds
    <3>4. c \in t.nodes /\ low[c] = low[v] /\ high[c] = v
      <4>1. Placed(t, low, high, v)
        BY <2>3 DEF Bounded
      <4> QED
        BY <4>1, <2>5, <3>1 DEF Placed
    <3>5. c < v /\ low[v] < c /\ c \in Int
      BY <3>4, Numbers DEF Holds
    <3>6. Holds(low, high, v, c) /\ c = ChildTo(t, v, c) /\ c # v /\ c # NULL
      BY <2>5, <3>1, <3>3, <3>5 DEF Holds, ChildTo
    <3>7. Width(low[c], high[c]) < Width(low[v], high[v])
      BY <2>3, <3>5, <3>6, ChildHolds
    <3>8. Width(low[c], high[c]) \in Nat /\ Width(low[v], high[v]) \in Nat
      BY Widths
    <3>9. Width(low[c], high[c]) <= N - n
      BY <2>1, <3>2, <3>7, <3>8
    <3> QED
      BY <2>1, <2>3, <3>2, <3>4, <3>9
  <2> QED
    BY <2>4, <2>5
<1>5. \A n \in 0..N : n \in G
  <2> HIDE DEF G
  <2> QED
    BY <1>1, <1>3, <1>4, UpTo
<1>6. N \in G
  BY <1>1, <1>5
<1>7. y \in t.nodes /\ low[y] = low[r] /\ (t.left[y] = NULL \/ Width(low[y], high[y]) <= N - N)
  BY <1>1, <1>6
<1>8. Width(low[y], high[y]) >= 1 /\ Width(low[y], high[y]) \in Nat
  BY <1>7, WidthPositive, Widths
<1> QED
  BY <1>1, <1>7, <1>8

\* The root key of s has the children l and r; y is the least node above key,
\* b its only child, q its parent.
Succession(s, low, high, key, l, r, y, b, q) ==
  /\ s.root = key /\ s.left[key] = l /\ s.right[key] = r
  /\ key \in s.nodes /\ l \in s.nodes /\ r \in s.nodes /\ y \in s.nodes
  /\ l # key /\ r # key /\ y # key /\ y # l /\ l # r
  /\ s.parent[key] = NULL /\ s.parent[l] = key /\ s.parent[r] = key
  /\ low[l] = 0 /\ high[l] = key /\ low[r] = key /\ high[r] = Top
  /\ s.left[y] = NULL /\ low[y] = key /\ s.right[y] = b /\ s.parent[y] = q
  /\ b # NULL => /\ b \in s.nodes /\ s.parent[b] = y /\ low[b] = y /\ high[b] = high[y]
                 /\ b # y /\ b # key /\ b # l /\ b # r /\ b # q
  /\ y = r => q = key
  /\ y # r => /\ q \in s.nodes /\ q # key /\ q # y /\ q # NULL /\ s.left[q] = y
              /\ s.right[q] # y /\ low[q] = key /\ high[y] = q

LEMMA Succeeds ==
  ASSUME NEW s, NEW low, NEW high, Bounded(s, low, high), NEW key \in Key, s.root = key,
         NEW l, l = s.left[key], l # NULL, NEW r, r = s.right[key], r # NULL,
         NEW y, y = subtree_minimum(s, r), NEW b, b = s.right[y], NEW q, q = s.parent[y]
  PROVE  /\ Succession(s, low, high, key, l, r, y, b, q)
         /\ l < key /\ key < y
         /\ \A v \in s.nodes : v # y /\ key < v => y < v
<1>1. /\ key \in s.nodes /\ s.parent[key] = NULL /\ low[key] = 0 /\ high[key] = Top
      /\ key # NULL
  BY KeyAssumption DEF Bounded, Rooted, NULL
<1>2. Placed(s, low, high, key)
  BY <1>1 DEF Bounded
<1>3. /\ l \in s.nodes /\ s.parent[l] = key /\ low[l] = 0 /\ high[l] = key
      /\ r \in s.nodes /\ s.parent[r] = key /\ low[r] = key /\ high[r] = Top
  BY <1>1, <1>2 DEF Placed
<1>4. y \in s.nodes /\ low[y] = key /\ s.left[y] = NULL
  BY <1>3, MinimumIs
<1>5. \A v \in s.nodes : /\ v \in Int /\ low[v] \in Int /\ high[v] \in Int
                         /\ low[v] < v /\ v < high[v] /\ v # NULL
  BY Numbers DEF Holds
<1>6. key \in Int /\ l < key /\ key < y /\ key < r
  BY <1>1, <1>3, <1>4, <1>5
<1>7. l # key /\ r # key /\ y # key /\ y # l /\ l # r
  BY <1>1, <1>3, <1>4, <1>5, <1>6
<1>8. ASSUME NEW v \in s.nodes, v # y, key < v PROVE y < v
  <2>1. ~(low[y] < v /\ v < y)
    <3>1. Placed(s, low, high, y)
      BY <1>4 DEF Bounded
    <3> QED
      BY <1>4, <3>1 DEF Placed
  <2> QED
    BY <1>4, <1>5, <1>8, <2>1
<1>9. \/ y = s.root /\ q = NULL /\ low[y] = 0 /\ high[y] = Top
      \/ /\ y # s.root /\ q \in s.nodes /\ q # NULL /\ q # y
         /\ ~Holds(low, high, y, q) /\ Holds(low, high, q, y)
         /\ Width(low[y], high[y]) < Width(low[q], high[q])
         /\ \/ s.left[q] = y /\ s.right[q] # y /\ y < q /\ low[y] = low[q] /\ high[y] = q
            \/ s.right[q] = y /\ s.left[q] # y /\ q < y /\ low[y] = q /\ high[y] = high[q]
  BY <1>4, ParentOf
<1>10. q \in s.nodes /\ q # NULL /\ q # y
  BY <1>7, <1>9
<1>11. y = r => q = key
  BY <1>3
<1>12. y # r => /\ q \in s.nodes /\ q # key /\ q # y /\ q # NULL /\ s.left[q] = y
                /\ s.right[q] # y /\ low[q] = key /\ high[y] = q
  BY <1>4, <1>7, <1>9
<1>13. b # NULL => /\ b \in s.nodes /\ s.parent[b] = y /\ low[b] = y /\ high[b] = high[y]
  <2>1. Placed(s, low, high, y)
    BY <1>4 DEF Bounded
  <2> QED
    BY <2>1 DEF Placed
<1>14. b # NULL => b # y /\ b # key /\ b # l /\ b # r
  BY <1>1, <1>3, <1>4, <1>5, <1>7, <1>13
<1>15. b # NULL => b # q
  <2>1. y = r /\ b # NULL => b # q
    BY <1>11, <1>14, <1>13
  <2>2. y # r /\ b # NULL => b < high[b] /\ high[b] = q
    BY <1>5, <1>12, <1>13
  <2> QED
    BY <1>5, <1>10, <1>13, <2>1, <2>2
<1>16. Succession(s, low, high, key, l, r, y, b, q)
  BY <1>1, <1>3, <1>4, <1>7, <1>11, <1>12, <1>13, <1>14, <1>15 DEF Succession
<1> QED
  BY <1>6, <1>8, <1>16

\* The fields after the successor y has taken the place of the root key.
Succeeded(f, s, key, l, r, y, b, q) ==
  /\ Typed(f) /\ f.root = y /\ f.nodes = s.nodes \ {key}
  /\ \A k \in f.nodes :
       /\ f.left[k] = IF k = y THEN l ELSE IF y # r /\ k = q THEN b ELSE s.left[k]
       /\ f.right[k] = IF k = y /\ y # r THEN r ELSE s.right[k]
       /\ f.parent[k] = IF k = y THEN NULL
                        ELSE IF k = l \/ k = r THEN y
                        ELSE IF y # r /\ k = b THEN q ELSE s.parent[k]

\* y replaces the root key and takes l for its left child.
HasCrowned(f, s, key, y, l) ==
  /\ Without(f, s, key) /\ Typed(f) /\ f.root = y
  /\ \A k \in f.nodes :
       /\ f.left[k] = IF k = y THEN l ELSE s.left[k]
       /\ f.right[k] = s.right[k]
       /\ f.parent[k] = IF k = y THEN NULL ELSE IF k = l THEN y ELSE s.parent[k]

\* y, which may have been lifted out of the right subtree before, becomes the root.
LEMMA Crowned ==
  ASSUME NEW s, Typed(s), NEW key \in Key, s.parent[key] = NULL, NEW y \in Key, y # key,
         NEW l \in Key, l # key, l # y,
         NEW f, f = free(SetParent([replace(s, key, y) EXCEPT !.left[y] = l], l, y), key)
  PROVE  HasCrowned(f, s, key, y, l)
<1>1. PICK w : w = replace(s, key, y)
  OBVIOUS
<1>2. PICK p : p = s.parent[key]
  OBVIOUS
<1>3. PICK v : v = [w EXCEPT !.left[y] = l]
  OBVIOUS
<1>4. PICK x : x = SetParent(v, l, y)
  OBVIOUS
<1>5. f = free(x, key)
  BY <1>1, <1>3, <1>4
<1>6. y \in NodeOrNull /\ y # NULL /\ l # NULL
  BY KeyAssumption DEF NodeOrNull, NULL
<1>7. Replaced(w, s, key, y, p)
  BY <1>1, <1>2, <1>6, ReplaceFields
<1>8. /\ Typed(w) /\ w.node_count = s.node_count /\ w.nodes = s.nodes /\ w.record = s.record
      /\ w.root = y /\ w.left = s.left /\ w.right = s.right
      /\ w.parent = [s.parent EXCEPT ![y] = NULL]
  BY <1>2, <1>6, <1>7 DEF Replaced
<1>9. /\ Typed(v) /\ v.root = w.root /\ v.node_count = w.node_count /\ v.nodes = w.nodes
      /\ v.left = [w.left EXCEPT ![y] = l] /\ v.right = w.right /\ v.parent = w.parent
      /\ v.record = w.record
  <2>1. v = [root |-> w.root, node_count |-> w.node_count, nodes |-> w.nodes,
             left |-> [w.left EXCEPT ![y] = l], right |-> w.right, parent |-> w.parent,
             record |-> w.record]
    BY <1>3, <1>8 DEF Typed, Record8
  <2>2. /\ v.root = w.root /\ v.node_count = w.node_count /\ v.nodes = w.nodes
        /\ v.left = [w.left EXCEPT ![y] = l] /\ v.right = w.right /\ v.parent = w.parent
        /\ v.record = w.record /\ Record8(v)
    BY <2>1 DEF Record8
  <2> QED
    BY <1>8, <2>2 DEF Typed, NodeOrNull
<1>10. /\ Typed(x) /\ x.root = v.root /\ x.node_count = v.node_count /\ x.nodes = v.nodes
       /\ x.left = v.left /\ x.right = v.right /\ x.record = v.record
       /\ x.parent = IF l = NULL THEN v.parent ELSE [v.parent EXCEPT ![l] = y]
  <2>1. l \in NodeOrNull /\ y \in NodeOrNull
    BY DEF NodeOrNull
  <2> QED
    BY <1>4, <1>9, <2>1, SetParentFields
<1>11. Freed(f, x, key)
  BY <1>5, <1>10, FreeFields
<1>12. /\ Typed(f) /\ f.root = y /\ f.node_count = s.node_count - 1 /\ f.nodes = s.nodes \ {key}
       /\ f.left = [[s.left EXCEPT ![y] = l] EXCEPT ![key] = NULL]
       /\ f.right = [s.right EXCEPT ![key] = NULL]
       /\ f.parent = [[[s.parent EXCEPT ![y] = NULL] EXCEPT ![l] = y] EXCEPT ![key] = NULL]
       /\ f.record = [s.record EXCEPT ![key] = NULL]
  BY <1>6, <1>8, <1>9, <1>10, <1>11 DEF Freed
<1>13. /\ s.left \in [Key -> NodeOrNull] /\ s.right \in [Key -> NodeOrNull]
       /\ s.parent \in [Key -> NodeOrNull] /\ f.nodes \subseteq Key /\ key \notin f.nodes
  BY <1>12 DEF Typed
<1>14. \A k \in f.nodes :
         /\ f.left[k] = IF k = y THEN l ELSE s.left[k]
         /\ f.right[k] = s.right[k]
         /\ f.parent[k] = IF k = y THEN NULL ELSE IF k = l THEN y ELSE s.parent[k]
  BY <1>12, <1>13
<1> QED
  BY <1>12, <1>14 DEF Without, HasCrowned

\* The least node of the right subtree is lifted out of it.
Lifted(s, key, y) ==
  LET above == replace(s, y, s.right[y])
  IN  [above EXCEPT !.right[y] = above.right[key], !.parent[above.right[key]] = y]

\* What that does to each field.
LiftedOut(v, s, r, y, b, q) ==
  /\ Typed(v) /\ v.root = s.root /\ v.node_count = s.node_count /\ v.nodes = s.nodes
  /\ v.record = s.record
  /\ v.left = [s.left EXCEPT ![q] = b] /\ v.right = [s.right EXCEPT ![y] = r]
  /\ v.parent = [IF b = NULL THEN s.parent ELSE [s.parent EXCEPT ![b] = q] EXCEPT ![r] = y]

LEMMA LiftedFields ==
  ASSUME NEW s, NEW low, NEW high, Bounded(s, low, high), NEW key, NEW l, NEW r, NEW y, NEW b, NEW q,
         Succession(s, low, high, key, l, r, y, b, q), y # r, NEW v, v = Lifted(s, key, y)
  PROVE  LiftedOut(v, s, r, y, b, q)
<1>1. /\ s.right[key] = r /\ s.right[y] = b /\ s.parent[y] = q /\ s.left[q] = y
      /\ q # NULL /\ r # NULL /\ Typed(s)
  BY Numbers DEF Succession, Bounded
<1>2. y \in Key /\ key \in Key /\ r \in Key /\ q \in Key /\ b \in NodeOrNull
  BY <1>1 DEF Succession, Typed
<1>3. PICK w : w = replace(s, y, b)
  OBVIOUS
<1>4. Replaced(w, s, y, b, q)
  BY <1>1, <1>2, <1>3, ReplaceFields
<1>5. /\ Typed(w) /\ w.root = s.root /\ w.node_count = s.node_count /\ w.nodes = s.nodes
      /\ w.record = s.record /\ w.left = [s.left EXCEPT ![q] = b] /\ w.right = s.right
      /\ w.parent = IF b = NULL THEN s.parent ELSE [s.parent EXCEPT ![b] = q]
  BY <1>1, <1>4 DEF Replaced
<1>6. v = [w EXCEPT !.right[y] = r, !.parent[r] = y]
  BY <1>1, <1>3, <1>5 DEF Lifted
<1>7. v = [root |-> w.root, node_count |-> w.node_count, nodes |-> w.nodes,
           left |-> w.left, right |-> [w.right EXCEPT ![y] = r],
           parent |-> [w.parent EXCEPT ![r] = y], record |-> w.record]
  BY <1>5, <1>6 DEF Typed, Record8
<1>8. /\ v.root = w.root /\ v.node_count = w.node_count /\ v.nodes = w.nodes
      /\ v.left = w.left /\ v.right = [w.right EXCEPT ![y] = r]
      /\ v.parent = [w.parent EXCEPT ![r] = y] /\ v.record = w.record /\ Record8(v)
  BY <1>7 DEF Record8
<1>9. Typed(v)
  BY <1>2, <1>5, <1>8 DEF Typed, NodeOrNull
<1> QED
  BY <1>5, <1>8, <1>9 DEF LiftedOut

LEMMA SucceededFields ==
  ASSUME NEW s, NEW low, NEW high, Bounded(s, low, high), NEW key, NEW l, NEW r, NEW y, NEW b, NEW q,
         Succession(s, low, high, key, l, r, y, b, q), l # NULL, r # NULL,
         y = subtree_minimum(s, r), NEW f, f = free(CutOut(s, key), key)
  PROVE  Without(f, s, key) /\ Succeeded(f, s, key, l, r, y, b, q)
<1>1. /\ s.left[key] = l /\ s.right[key] = r /\ s.right[y] = b /\ s.parent[y] = q
      /\ s.parent[key] = NULL /\ s.parent[r] = key /\ y # key /\ l # key /\ y # l /\ r # key
      /\ l # r /\ Typed(s)
  BY DEF Succession, Bounded
<1>2. y \in Key /\ key \in Key /\ l \in Key /\ r \in Key
  BY <1>1 DEF Succession, Typed
<1>3. PICK v : v = IF q = key THEN s ELSE Lifted(s, key, y)
  OBVIOUS
<1>4. f = free(SetParent([replace(v, key, y) EXCEPT !.left[y] = l], l, y), key)
  BY <1>1, <1>3 DEF CutOut, Lifted
<1>5. y = r <=> q = key
  BY DEF Succession
<1>6. CASE y = r
  <2>1. v = s
    BY <1>3, <1>5, <1>6
  <2>2. /\ Without(f, s, key) /\ Typed(f) /\ f.root = y
        /\ \A k \in f.nodes :
             /\ f.left[k] = IF k = y THEN l ELSE s.left[k]
             /\ f.right[k] = s.right[k]
             /\ f.parent[k] = IF k = y THEN NULL ELSE IF k = l THEN y ELSE s.parent[k]
    <3>1. HasCrowned(f, s, key, y, l)
      BY <1>1, <1>2, <1>4, <2>1, Crowned
    <3> QED
      BY <3>1 DEF HasCrowned
  <2> QED
    BY <1>6, <2>2 DEF Succeeded, Without
<1>7. CASE y # r
  <2>1. v = Lifted(s, key, y)
    BY <1>3, <1>5, <1>7
  <2>2. /\ Typed(v) /\ v.root = s.root /\ v.node_count = s.node_count /\ v.nodes = s.nodes
        /\ v.record = s.record
        /\ v.left = [s.left EXCEPT ![q] = b] /\ v.right = [s.right EXCEPT ![y] = r]
        /\ v.parent = [IF b = NULL THEN s.parent ELSE [s.parent EXCEPT ![b] = q] EXCEPT ![r] = y]
    <3>1. LiftedOut(v, s, r, y, b, q)
      BY <1>7, <2>1, LiftedFields
    <3> QED
      BY <3>1 DEF LiftedOut
  <2>3. b # NULL => b # key /\ b # r
    BY DEF Succession
  <2>4. /\ s.left \in [Key -> NodeOrNull] /\ s.right \in [Key -> NodeOrNull]
        /\ s.parent \in [Key -> NodeOrNull] /\ NULL \notin Key
    BY <1>1, KeyAssumption DEF Typed, NULL
  <2>5. \A k \in Key : /\ v.left[k] = IF k = q THEN b ELSE s.left[k]
                       /\ v.right[k] = IF k = y THEN r ELSE s.right[k]
                       /\ v.parent[k] = IF k = r THEN y ELSE IF k = b THEN q ELSE s.parent[k]
    BY <2>2, <2>4
  <2>6. v.parent[key] = NULL
    BY <1>1, <1>2, <2>3, <2>4, <2>5
  <2>7. /\ Without(f, v, key) /\ Typed(f) /\ f.root = y
        /\ \A k \in f.nodes :
             /\ f.left[k] = IF k = y THEN l ELSE v.left[k]
             /\ f.right[k] = v.right[k]
             /\ f.parent[k] = IF k = y THEN NULL ELSE IF k = l THEN y ELSE v.parent[k]
    <3>1. HasCrowned(f, v, key, y, l)
      BY <1>1, <1>2, <1>4, <2>2, <2>6, Crowned
    <3> QED
      BY <3>1 DEF HasCrowned
  <2>8. Without(f, s, key)
    BY <2>2, <2>7 DEF Without
  <2>9. f.nodes = s.nodes \ {key} /\ f.nodes \subseteq Key
    BY <2>7, <2>8 DEF Without, Typed
  <2>10. \A k \in f.nodes :
           /\ f.left[k] = IF k = y THEN l ELSE IF y # r /\ k = q THEN b ELSE s.left[k]
           /\ f.right[k] = IF k = y /\ y # r THEN r ELSE s.right[k]
           /\ f.parent[k] = IF k = y THEN NULL
                            ELSE IF k = l \/ k = r THEN y
                            ELSE IF y # r /\ k = b THEN q ELSE s.parent[k]
    BY <1>7, <2>5, <2>7, <2>9
  <2> QED
    BY <2>7, <2>8, <2>9, <2>10 DEF Succeeded
<1> QED
  BY <1>6, <1>7

\* The bounds once y is the root: what had the root key for a bound has y.
Below2(low, key, y) == [u \in Key |-> IF u = y THEN 0 ELSE IF low[u] = key THEN y ELSE low[u]]
Above2(high, key, y) == [u \in Key |-> IF u = y THEN Top ELSE IF high[u] = key THEN y ELSE high[u]]

\* The facts about numbers and links that placing the nodes needs.
Ready(f, s, low, high, low2, high2, key, l, r, y, b, q) ==
  /\ Typed(s) /\ Succession(s, low, high, key, l, r, y, b, q)
  /\ Succeeded(f, s, key, l, r, y, b, q)
  /\ low \in [Key -> Int] /\ high \in [Key -> Int]
  /\ low2 \in [Key -> Int] /\ high2 \in [Key -> Int]
  /\ key \in Int /\ y \in Int /\ Top \in Int /\ 0 < key /\ key < Top /\ key < y /\ l < key
  /\ \A v \in s.nodes : v \in Key /\ v \in Int /\ v # NULL /\ v > 0 /\ v < Top
                        /\ (v # y /\ key < v => y < v)
  /\ \A u \in Key : /\ low2[u] = IF u = y THEN 0 ELSE IF low[u] = key THEN y ELSE low[u]
                    /\ high2[u] = IF u = y THEN Top ELSE IF high[u] = key THEN y ELSE high[u]
  /\ f.nodes = s.nodes \ {key}

\* A node other than y and its parent keeps its left child, and a node other
\* than y its right child, with their bounds.
LEMMA KeepsChildren ==
  ASSUME NEW s, NEW low, NEW high, Bounded(s, low, high), NEW f, NEW low2, NEW high2,
         NEW key, NEW l, NEW r, NEW y, NEW b, NEW q,
         Ready(f, s, low, high, low2, high2, key, l, r, y, b, q), NEW u \in f.nodes, u # y
  PROVE  /\ ~(y # r /\ u = q) /\ f.left[u] # NULL =>
              /\ f.left[u] \in f.nodes /\ f.parent[f.left[u]] = u
              /\ low2[f.left[u]] = low2[u] /\ high2[f.left[u]] = u
         /\ f.right[u] # NULL =>
              /\ f.right[u] \in f.nodes /\ f.parent[f.right[u]] = u
              /\ low2[f.right[u]] = u /\ high2[f.right[u]] = high2[u]
<1>1. u \in s.nodes /\ u # key /\ u # NULL /\ u \in Key /\ f.nodes = s.nodes \ {key}
  BY DEF Ready
<1>2. Placed(s, low, high, u)
  BY <1>1 DEF Bounded
<1>3. /\ s.parent[key] = NULL /\ s.parent[l] = key /\ s.parent[r] = key /\ s.parent[y] = q
      /\ b # NULL => s.parent[b] = y
      /\ y = r => q = key
      /\ y # r => s.left[q] = y /\ s.right[q] # y
  BY DEF Ready, Succession
<1>4. \A k \in f.nodes :
        /\ f.left[k] = IF k = y THEN l ELSE IF y # r /\ k = q THEN b ELSE s.left[k]
        /\ f.right[k] = IF k = y /\ y # r THEN r ELSE s.right[k]
        /\ f.parent[k] = IF k = y THEN NULL
                         ELSE IF k = l \/ k = r THEN y
                         ELSE IF y # r /\ k = b THEN q ELSE s.parent[k]
  BY DEF Ready, Succeeded
<1>5. \A v \in Key :
        /\ v # y => low2[v] = IF low[v] = key THEN y ELSE low[v]
        /\ v # y => high2[v] = IF high[v] = key THEN y ELSE high[v]
  BY DEF Ready
<1>6. \A v \in s.nodes : v \in Key /\ v # NULL
  BY DEF Ready
<1>7. ASSUME NEW d \in s.nodes, s.parent[d] = u, d # y
      PROVE  d \in f.nodes /\ f.parent[d] = u /\ d \in Key
  <2>1. d # key /\ d # l /\ d # r /\ d # b
    BY <1>1, <1>3, <1>6, <1>7
  <2>2. d \in f.nodes
    BY <1>1, <1>7, <2>1
  <2> QED
    BY <1>4, <1>6, <1>7, <2>1, <2>2
<1>8. ASSUME ~(y # r /\ u = q), f.left[u] # NULL
      PROVE  /\ f.left[u] \in f.nodes /\ f.parent[f.left[u]] = u
             /\ low2[f.left[u]] = low2[u] /\ high2[f.left[u]] = u
  <2>1. PICK d : d = f.left[u]
    OBVIOUS
  <2>2. d = s.left[u] /\ d # NULL
    BY <1>4, <1>8, <2>1
  <2>3. d \in s.nodes /\ s.parent[d] = u /\ low[d] = low[u] /\ high[d] = u
    BY <1>2, <2>2 DEF Placed
  <2>4. d # y
    BY <1>1, <1>3, <1>8, <2>3
  <2>5. d \in f.nodes /\ f.parent[d] = u /\ d \in Key
    BY <1>7, <2>3, <2>4
  <2>6. low2[d] = low2[u]
    BY <1>1, <1>5, <2>3, <2>4, <2>5
  <2>7. high2[d] = u
    BY <1>1, <1>5, <2>3, <2>4, <2>5
  <2> QED
    BY <2>1, <2>5, <2>6, <2>7
<1>9. ASSUME f.right[u] # NULL
      PROVE  /\ f.right[u] \in f.nodes /\ f.parent[f.right[u]] = u
             /\ low2[f.right[u]] = u /\ high2[f.right[u]] = high2[u]
  <2>1. PICK d : d = f.right[u]
    OBVIOUS
  <2>2. d = s.right[u] /\ d # NULL
    BY <1>4, <1>9, <2>1
  <2>3. d \in s.nodes /\ s.parent[d] = u /\ low[d] = u /\ high[d] = high[u]
    BY <1>2, <2>2 DEF Placed
  <2>4. d # y
    BY <1>1, <1>3, <2>2, <2>3
  <2>5. d \in f.nodes /\ f.parent[d] = u /\ d \in Key
    BY <1>7, <2>3, <2>4
  <2>6. low2[d] = u
    BY <1>1, <1>5, <2>3, <2>4, <2>5
  <2>7. high2[d] = high2[u]
    BY <1>1, <1>5, <2>3, <2>4, <2>5
  <2> QED
    BY <2>1, <2>5, <2>6, <2>7
<1> QED
  BY <1>8, <1>9

\* The parent q of y, from which y was lifted, takes y's right child for its left one.
LEMMA TakesChild ==
  ASSUME NEW s, NEW low, NEW high, Bounded(s, low, high), NEW f, NEW low2, NEW high2,
         NEW key, NEW l, NEW r, NEW y, NEW b, NEW q,
         Ready(f, s, low, high, low2, high2, key, l, r, y, b, q), y # r
  PROVE  /\ f.left[q] # NULL =>
              /\ f.left[q] \in f.nodes /\ f.parent[f.left[q]] = q
              /\ low2[f.left[q]] = low2[q] /\ high2[f.left[q]] = q
         /\ low2[q] = y
         /\ \A v \in f.nodes : y < v /\ v < q => f.left[q] # NULL
<1>1. /\ q \in s.nodes /\ q # key /\ q # y /\ low[q] = key /\ high[y] = q /\ s.right[y] = b
      /\ b # NULL => /\ b \in s.nodes /\ low[b] = y /\ high[b] = high[y]
                     /\ b # y /\ b # key /\ b # l /\ b # r
      /\ y # key /\ y \in s.nodes
  BY DEF Ready, Succession
<1>2. f.nodes = s.nodes \ {key} /\ q \in Key /\ \A v \in s.nodes : v \in Key
  BY <1>1 DEF Ready
<1>3. f.left[q] = b /\ (b # NULL => f.parent[b] = q)
  <2>1. q \in f.nodes
    BY <1>1, <1>2
  <2>2. f.left[q] = b
    BY <1>1, <2>1 DEF Ready, Succeeded
  <2>3. b # NULL => b \in f.nodes
    BY <1>1, <1>2
  <2>4. b # NULL => f.parent[b] = q
    BY <1>1, <2>3 DEF Ready, Succeeded
  <2> QED
    BY <2>2, <2>4
<1>4. \A v \in Key :
        /\ v # y => low2[v] = IF low[v] = key THEN y ELSE low[v]
        /\ v # y => high2[v] = IF high[v] = key THEN y ELSE high[v]
  BY DEF Ready
<1>5. low2[q] = y
  BY <1>1, <1>2, <1>4
<1>6. b # NULL => low2[b] = y /\ high2[b] = q
  BY <1>1, <1>2, <1>4
<1>7. ASSUME NEW v \in f.nodes, y < v, v < q PROVE b # NULL
  <2>1. Placed(s, low, high, y) /\ v \in s.nodes
    BY <1>1, <1>2 DEF Bounded
  <2> QED
    BY <1>1, <1>7, <2>1 DEF Placed
<1> QED
  BY <1>1, <1>2, <1>3, <1>5, <1>6, <1>7

LEMMA PlacesSuccessor ==
  ASSUME NEW s, NEW low, NEW high, Bounded(s, low, high), NEW f, NEW low2, NEW high2,
         NEW key, NEW l, NEW r, NEW y, NEW b, NEW q,
         Ready(f, s, low, high, low2, high2, key, l, r, y, b, q), l # NULL, r # NULL
  PROVE  Rooted(f, low2, high2) /\ Placed(f, low2, high2, y)
<1>1. /\ y \in s.nodes /\ l \in s.nodes /\ r \in s.nodes /\ key \in s.nodes
      /\ y # key /\ l # key /\ r # key /\ l # y /\ l # r
      /\ low[l] = 0 /\ high[l] = key /\ low[r] = key /\ high[r] = Top
      /\ s.right[y] = b
      /\ b # NULL => /\ b \in s.nodes /\ s.parent[b] = y /\ low[b] = y /\ high[b] = high[y]
                     /\ b # y /\ b # key /\ b # l /\ b # r
  BY DEF Ready, Succession
<1>2. /\ f.nodes = s.nodes \ {key} /\ key \in Int /\ y \in Int /\ Top \in Int
      /\ 0 < key /\ key < Top /\ key < y
      /\ \A v \in s.nodes : v \in Key /\ v \in Int /\ v # NULL /\ v > 0 /\ v < Top
      /\ key # 0 /\ key # Top /\ f.root = y
  BY DEF Ready, Succeeded
<1>3. y \in f.nodes /\ l \in f.nodes /\ r \in f.nodes /\ y # NULL /\ l \in Key /\ r \in Key /\ y \in Key
  BY <1>1, <1>2
<1>4. \A v \in Key :
        /\ low2[v] = IF v = y THEN 0 ELSE IF low[v] = key THEN y ELSE low[v]
        /\ high2[v] = IF v = y THEN Top ELSE IF high[v] = key THEN y ELSE high[v]
  BY DEF Ready
<1>5. low2[y] = 0 /\ high2[y] = Top
  BY <1>3, <1>4
<1>6. \A k \in f.nodes :
        /\ f.left[k] = IF k = y THEN l ELSE IF y # r /\ k = q THEN b ELSE s.left[k]
        /\ f.right[k] = IF k = y /\ y # r THEN r ELSE s.right[k]
        /\ f.parent[k] = IF k = y THEN NULL
                         ELSE IF k = l \/ k = r THEN y
                         ELSE IF y # r /\ k = b THEN q ELSE s.parent[k]
  BY DEF Ready, Succeeded
<1>7. f.left[y] = l /\ f.parent[l] = y /\ f.parent[y] = NULL
  BY <1>1, <1>3, <1>6
<1>8. low2[l] = 0 /\ high2[l] = y
  BY <1>1, <1>2, <1>3, <1>4
<1>9. ASSUME f.right[y] # NULL
      PROVE  /\ f.right[y] \in f.nodes /\ f.parent[f.right[y]] = y
             /\ low2[f.right[y]] = y /\ high2[f.right[y]] = Top
  <2>1. CASE y # r
    <3>1. f.right[y] = r /\ f.parent[r] = y
      BY <1>3, <1>6, <2>1
    <3>2. low2[r] = y /\ high2[r] = Top
      BY <1>1, <1>2, <1>3, <1>4, <2>1
    <3> QED
      BY <1>3, <3>1, <3>2
  <2>2. CASE y = r
    <3>1. f.right[y] = b /\ b # NULL
      BY <1>1, <1>3, <1>6, <1>9, <2>2
    <3>2. b \in f.nodes /\ b \in Key
      BY <1>1, <1>2, <3>1
    <3>3. f.parent[b] = y
      BY <1>1, <1>6, <2>2, <3>1, <3>2
    <3>4. low2[b] = y /\ high2[b] = Top
      <4>1. low[b] = y /\ high[b] = Top /\ b # y
        BY <1>1, <2>2, <3>1
      <4> QED
        BY <1>1, <1>2, <1>4, <3>2, <4>1
    <3> QED
      BY <3>1, <3>2, <3>3, <3>4
  <2> QED
    BY <2>1, <2>2
<1>10. ASSUME NEW v \in f.nodes, y < v, v < Top PROVE f.right[y] # NULL
  <2>1. CASE y # r
    BY <1>3, <1>6, <2>1
  <2>2. CASE y = r
    <3>1. Placed(s, low, high, y) /\ v \in s.nodes /\ high[y] = Top
      BY <1>1, <1>2, <2>2 DEF Bounded
    <3>2. b # NULL
      BY <1>1, <1>10, <3>1 DEF Placed
    <3> QED
      BY <1>1, <1>3, <1>6, <2>2, <3>2
  <2> QED
    BY <2>1, <2>2
<1>11. 0 < y /\ y < Top
  BY <1>1, <1>2
<1>12. Placed(f, low2, high2, y)
  BY <1>2, <1>3, <1>5, <1>7, <1>8, <1>9, <1>10, <1>11 DEF Placed
<1>13. Rooted(f, low2, high2)
  BY <1>2, <1>3, <1>5, <1>7 DEF Rooted
<1> QED
  BY <1>12, <1>13

\* The parent of a node other than y is still one that has it for a child.
LEMMA KeepsParent ==
  ASSUME NEW s, NEW low, NEW high, Bounded(s, low, high), NEW f, NEW low2, NEW high2,
         NEW key, NEW l, NEW r, NEW y, NEW b, NEW q,
         Ready(f, s, low, high, low2, high2, key, l, r, y, b, q), NEW u \in f.nodes, u # y
  PROVE  f.parent[u] \in f.nodes /\ u \in {f.left[f.parent[u]], f.right[f.parent[u]]}
<1>1. /\ s.root = key /\ s.left[key] = l /\ s.right[key] = r /\ y \in s.nodes /\ y # key
      /\ s.left[y] = NULL /\ s.right[y] = b
      /\ y # r => q \in s.nodes /\ q # key /\ q # y /\ s.left[q] = y
  BY DEF Ready, Succession
<1>2. f.nodes = s.nodes \ {key} /\ u \in s.nodes /\ u # key /\ u # NULL /\ y \in f.nodes
  BY <1>1 DEF Ready
<1>3. \A k \in f.nodes :
        /\ f.left[k] = IF k = y THEN l ELSE IF y # r /\ k = q THEN b ELSE s.left[k]
        /\ f.right[k] = IF k = y /\ y # r THEN r ELSE s.right[k]
        /\ f.parent[k] = IF k = y THEN NULL
                         ELSE IF k = l \/ k = r THEN y
                         ELSE IF y # r /\ k = b THEN q ELSE s.parent[k]
  BY DEF Ready, Succeeded
<1>4. CASE u = l
  BY <1>2, <1>3, <1>4
<1>5. CASE u = r /\ u # l
  BY <1>2, <1>3, <1>5
<1>6. CASE u # l /\ u # r /\ y # r /\ u = b
  <2>1. f.parent[u] = q /\ q \in f.nodes
    BY <1>1, <1>2, <1>3, <1>6
  <2>2. f.left[q] = b
    BY <1>1, <1>3, <1>6, <2>1
  <2> QED
    BY <1>6, <2>1, <2>2
<1>7. CASE u # l /\ u # r /\ ~(y # r /\ u = b)
  <2>1. PICK p : p = s.parent[u]
    OBVIOUS
  <2>2. f.parent[u] = p
    BY <1>3, <1>7, <2>1
  <2>3. p \in s.nodes /\ u \in {s.left[p], s.right[p]}
    <3>1. Placed(s, low, high, u)
      BY <1>2 DEF Bounded
    <3> QED
      BY <1>1, <1>2, <2>1, <3>1 DEF Placed
  <2>4. p \in f.nodes
    BY <1>1, <1>2, <1>7, <2>3
  <2>5. CASE p = y
    <3>1. u = b /\ y = r
      BY <1>1, <1>2, <1>7, <2>3, <2>5
    <3>2. f.right[p] = b
      BY <1>1, <1>3, <2>4, <2>5, <3>1
    <3> QED
      BY <2>2, <2>4, <3>1, <3>2
  <2>6. CASE p # y /\ s.right[p] = u
    <3>1. f.right[p] = u
      BY <1>3, <2>4, <2>6
    <3> QED
      BY <2>2, <2>4, <3>1
  <2>7. CASE p # y /\ s.right[p] # u
    <3>1. s.left[p] = u
      BY <2>3, <2>7
    <3>2. ~(y # r /\ p = q)
      BY <1>1, <3>1
    <3>3. f.left[p] = u
      BY <1>3, <2>4, <2>7, <3>1, <3>2
    <3> QED
      BY <2>2, <2>4, <3>3
  <2> QED
    BY <2>5, <2>6, <2>7
<1> QED
  BY <1>4, <1>5, <1>6, <1>7

LEMMA PlacesOthers ==
  ASSUME NEW s, NEW low, NEW high, Bounded(s, low, high), NEW f, NEW low2, NEW high2,
         NEW key, NEW l, NEW r, NEW y, NEW b, NEW q,
         Ready(f, s, low, high, low2, high2, key, l, r, y, b, q), NEW u \in f.nodes, u # y
  PROVE  Placed(f, low2, high2, u)
<1>1. /\ key \in Int /\ y \in Int /\ key < y /\ f.nodes = s.nodes \ {key}
      /\ \A v \in s.nodes : v \in Key /\ v \in Int /\ v # NULL /\ (v # y /\ key < v => y < v)
      /\ low \in [Key -> Int] /\ high \in [Key -> Int]
  BY DEF Ready
<1>2. u \in s.nodes /\ u # key /\ u \in Int /\ u \in Key /\ low[u] \in Int /\ high[u] \in Int
  BY <1>1
<1>3. Placed(s, low, high, u) /\ low[u] < u /\ u < high[u]
  BY <1>2 DEF Bounded, Placed
<1>4. /\ low2[u] = IF low[u] = key THEN y ELSE low[u]
      /\ high2[u] = IF high[u] = key THEN y ELSE high[u]
  BY <1>2 DEF Ready
<1>5. y < u \/ u < key
  BY <1>1, <1>2
<1>6. low2[u] < u /\ u < high2[u]
  BY <1>1, <1>2, <1>3, <1>4, <1>5
<1>7. ASSUME NEW v \in f.nodes
      PROVE  /\ low2[u] < v => low[u] < v
             /\ v < high2[u] => v < high[u]
             /\ v \in s.nodes
  <2>1. v \in s.nodes /\ v \in Int /\ v # key /\ (v # y /\ key < v => y < v)
    BY <1>1
  <2> QED
    BY <1>1, <1>2, <1>4, <2>1
<1>8. /\ f.right[u] = s.right[u]
      /\ ~(y # r /\ u = q) => f.left[u] = s.left[u]
  BY DEF Ready, Succeeded
<1>9. /\ ~(y # r /\ u = q) /\ f.left[u] # NULL =>
           /\ f.left[u] \in f.nodes /\ f.parent[f.left[u]] = u
           /\ low2[f.left[u]] = low2[u] /\ high2[f.left[u]] = u
      /\ f.right[u] # NULL =>
           /\ f.right[u] \in f.nodes /\ f.parent[f.right[u]] = u
           /\ low2[f.right[u]] = u /\ high2[f.right[u]] = high2[u]
  BY KeepsChildren
<1>10. y # r /\ u = q =>
         /\ f.left[u] # NULL =>
              /\ f.left[u] \in f.nodes /\ f.parent[f.left[u]] = u
              /\ low2[f.left[u]] = low2[u] /\ high2[f.left[u]] = u
         /\ low2[u] = y
         /\ \A v \in f.nodes : y < v /\ v < u => f.left[u] # NULL
  BY TakesChild
<1>11. f.left[u] # NULL =>
         /\ f.left[u] \in f.nodes /\ f.parent[f.left[u]] = u
         /\ low2[f.left[u]] = low2[u] /\ high2[f.left[u]] = u
  BY <1>9, <1>10
<1>12. f.parent[u] \in f.nodes /\ u \in {f.left[f.parent[u]], f.right[f.parent[u]]}
  BY KeepsParent
<1>13. ASSUME NEW v \in f.nodes
       PROVE  /\ low2[u] < v /\ v < u => f.left[u] # NULL
              /\ u < v /\ v < high2[u] => f.right[u] # NULL
  BY <1>3, <1>7, <1>8, <1>10 DEF Placed
<1> QED
  BY <1>6, <1>9, <1>11, <1>12, <1>13 DEF Placed

\* The root has two children: its successor takes its place.
LEMMA CutBoth ==
  ASSUME NEW s, NEW low, NEW high, Bounded(s, low, high), NEW key \in Key, s.root = key,
         NEW l, l = s.left[key], l # NULL, NEW r, r = s.right[key], r # NULL,
         NEW f, f = free(CutOut(s, key), key)
  PROVE  Without(f, s, key) /\ \E low2, high2 : Bounded(f, low2, high2)
<1>1. PICK y, b, q : y = subtree_minimum(s, r) /\ b = s.right[y] /\ q = s.parent[y]
  <2>1. PICK y : y = subtree_minimum(s, r)
    OBVIOUS
  <2>2. PICK b, q : b = s.right[y] /\ q = s.parent[y]
    OBVIOUS
  <2> QED
    BY <2>1, <2>2
<1>2. /\ Succession(s, low, high, key, l, r, y, b, q) /\ l < key /\ key < y
      /\ \A v \in s.nodes : v # y /\ key < v => y < v
  BY <1>1, Succeeds
<1>3. Without(f, s, key) /\ Succeeded(f, s, key, l, r, y, b, q)
  BY <1>1, <1>2, SucceededFields
<1>4. PICK low2, high2 : low2 = Below2(low, key, y) /\ high2 = Above2(high, key, y)
  OBVIOUS
<1>5. y \in s.nodes /\ key \in s.nodes
  BY <1>2 DEF Succession
<1>6. /\ Typed(s) /\ low \in [Key -> Int] /\ high \in [Key -> Int]
      /\ \A v \in s.nodes : v \in Key /\ v \in Int /\ v # NULL /\ v > 0 /\ v < Top /\ Top \in Int
  BY Numbers DEF Bounded
<1>7. /\ low2 \in [Key -> Int] /\ high2 \in [Key -> Int]
      /\ \A u \in Key : /\ low2[u] = IF u = y THEN 0 ELSE IF low[u] = key THEN y ELSE low[u]
                        /\ high2[u] = IF u = y THEN Top ELSE IF high[u] = key THEN y ELSE high[u]
  BY <1>4, <1>5, <1>6 DEF Below2, Above2
<1>8. f.nodes = s.nodes \ {key} /\ Typed(f)
  BY <1>3 DEF Without, Succeeded
<1>9. Ready(f, s, low, high, low2, high2, key, l, r, y, b, q)
  BY <1>2, <1>3, <1>5, <1>6, <1>7, <1>8 DEF Ready
<1>10. Rooted(f, low2, high2) /\ Placed(f, low2, high2, y)
  BY <1>9, PlacesSuccessor
<1>11. ASSUME NEW u \in f.nodes PROVE Placed(f, low2, high2, u)
  BY <1>9, <1>10, PlacesOthers
<1>12. Bounded(f, low2, high2)
  BY <1>7, <1>8, <1>10, <1>11 DEF Bounded
<1> QED
  BY <1>3, <1>12

LEMMA Removes ==
  ASSUME NEW t, NEW low, NEW high, Bounded(t, low, high), NEW key \in Key, key \in t.nodes,
         NEW s, s = tree_remove(t, key).tree
  PROVE  /\ tree_remove(t, key).ret = t.record[key] /\ Without(s, t, key)
         /\ \E low2, high2 : Bounded(s, low2, high2)
<1>1. PICK u : u = splay(t, key)
  OBVIOUS
<1>2. key \in Visited(t, key)
  BY Finds
<1>3. tree_remove(t, key) = [tree |-> free(CutOut(u, key), key), ret |-> t.record[key]]
  BY <1>1, <1>2 DEF tree_remove
<1>4. s = free(CutOut(u, key), key) /\ tree_remove(t, key).ret = t.record[key]
  BY <1>3
<1>5. SameNodes(u, t) /\ u.root = key
  BY <1>1, SplayRoots
<1>6. PICK low1, high1 : Bounded(u, low1, high1)
  BY <1>1, SplayRoots
<1>7. PICK l, r : l = u.left[key] /\ r = u.right[key]
  OBVIOUS
<1>8. Without(s, u, key) /\ \E low2, high2 : Bounded(s, low2, high2)
  <2>1. CASE l = NULL
    <3>1. s = free(replace(u, key, u.right[key]), key)
      BY <1>4, <1>7, <2>1 DEF CutOut
    <3> QED
      BY <1>5, <1>6, <1>7, <2>1, <3>1, CutRight
  <2>2. CASE l # NULL /\ r = NULL
    <3>1. s = free(replace(u, key, u.left[key]), key)
      BY <1>4, <1>7, <2>2 DEF CutOut
    <3> QED
      BY <1>5, <1>6, <1>7, <2>2, <3>1, CutLeft
  <2>3. CASE l # NULL /\ r # NULL
    BY <1>4, <1>5, <1>6, <1>7, <2>3, CutBoth
  <2> QED
    BY <2>1, <2>2, <2>3
<1>9. Without(s, t, key)
  BY <1>5, <1>8 DEF Without, SameNodes
<1> QED
  BY <1>4, <1>8, <1>9

-----------------------------------------------------------------------------
(* The invariant                                                           *)

\* Bounds exist, and the count is right.
TreeInv ==
  /\ \E low, high : Bounded(tree, low, high)
  /\ tree.node_count = Cardinality(tree.nodes)

LEMMA FiniteNodes ==
  ASSUME NEW t, Typed(t)
  PROVE  IsFiniteSet(t.nodes) /\ Cardinality(t.nodes) \in Nat
<1>1. t.nodes \in SUBSET Key /\ IsFiniteSet(Key)
  BY KeyAssumption DEF Typed
<1> QED
  BY <1>1, FS_Subset, FS_CardinalityType

\* What tree_insert makes of t, and what it returns.
InsertedInto(s, a, t, key, rec) ==
  /\ \E low, high : Bounded(s, low, high)
  /\ s.node_count = Cardinality(s.nodes)
  /\ key \in t.nodes => s = t /\ a = 0
  /\ key \notin t.nodes => /\ s.nodes = t.nodes \cup {key} /\ a = 1
                           /\ s.record = [t.record EXCEPT ![key] = rec]

LEMMA InsertKeeps ==
  ASSUME NEW t, NEW low, NEW high, Bounded(t, low, high), t.node_count = Cardinality(t.nodes),
         NEW key \in Key, NEW rec \in Record, NEW s, s = tree_insert(t, key, rec).tree,
         NEW a, a = tree_insert(t, key, rec).ret
  PROVE  InsertedInto(s, a, t, key, rec)
<1>1. CASE key \in t.nodes
  <2>1. key \in Visited(t, key)
    BY <1>1, Finds
  <2>2. tree_insert(t, key, rec) = [tree |-> t, ret |-> 0]
    BY <2>1 DEF tree_insert
  <2> QED
    BY <1>1, <2>2 DEF InsertedInto
<1>2. CASE key \notin t.nodes
  <2>1. /\ tree_insert(t, key, rec).ret = 1
        /\ s.nodes = t.nodes \cup {key} /\ s.node_count = t.node_count + 1
        /\ s.record = [t.record EXCEPT ![key] = rec]
        /\ \E low2, high2 : Bounded(s, low2, high2)
    BY <1>2, Inserts
  <2>2. Cardinality(t.nodes \cup {key}) = Cardinality(t.nodes) + 1
    <3>1. IsFiniteSet(t.nodes)
      BY FiniteNodes DEF Bounded
    <3> QED
      BY <1>2, <3>1, FS_AddElement
  <2> QED
    BY <1>2, <2>1, <2>2 DEF InsertedInto
<1> QED
  BY <1>1, <1>2

\* What tree_remove makes of t, and what it returns.
RemovedFrom(s, a, t, key) ==
  /\ \E low, high : Bounded(s, low, high)
  /\ s.node_count = Cardinality(s.nodes)
  /\ key \notin t.nodes => s = t /\ a = NULL
  /\ key \in t.nodes => /\ s.nodes = t.nodes \ {key} /\ a = t.record[key]
                        /\ s.record = [t.record EXCEPT ![key] = NULL]

LEMMA RemoveKeeps ==
  ASSUME NEW t, NEW low, NEW high, Bounded(t, low, high), t.node_count = Cardinality(t.nodes),
         NEW key \in Key, NEW s, s = tree_remove(t, key).tree,
         NEW a, a = tree_remove(t, key).ret
  PROVE  RemovedFrom(s, a, t, key)
<1>1. CASE key \notin t.nodes
  <2>1. key \notin Visited(t, key)
    BY <1>1, Finds
  <2>2. tree_remove(t, key) = [tree |-> t, ret |-> NULL]
    BY <2>1 DEF tree_remove
  <2> QED
    BY <1>1, <2>2 DEF RemovedFrom
<1>2. CASE key \in t.nodes
  <2>1. /\ tree_remove(t, key).ret = t.record[key] /\ Without(s, t, key)
        /\ \E low2, high2 : Bounded(s, low2, high2)
    BY <1>2, Removes
  <2>2. Cardinality(t.nodes \ {key}) = Cardinality(t.nodes) - 1
    <3>1. IsFiniteSet(t.nodes)
      BY FiniteNodes DEF Bounded
    <3> QED
      BY <1>2, <3>1, FS_RemoveElement
  <2> QED
    BY <1>2, <2>1, <2>2 DEF Without, RemovedFrom
<1> QED
  BY <1>1, <1>2

LEMMA InitTreeInv == TreeInit => TreeInv
<1> SUFFICES ASSUME TreeInit PROVE TreeInv
  OBVIOUS
<1>1. PICK zero : zero = [k \in Key |-> 0]
  OBVIOUS
<1>2. zero \in [Key -> Int]
  BY <1>1
<1>3. /\ tree.root = NULL /\ tree.node_count = 0 /\ tree.nodes = {}
      /\ tree.left = [k \in Key |-> NULL] /\ tree.right = [k \in Key |-> NULL]
      /\ tree.parent = [k \in Key |-> NULL] /\ tree.record = [k \in Key |-> NULL]
      /\ Record8(tree)
  BY DEF TreeInit, NoTree, Record8
<1>4. Typed(tree)
  BY <1>3 DEF Typed, NodeOrNull
<1>5. Rooted(tree, zero, zero)
  BY <1>3 DEF Rooted
<1>6. Bounded(tree, zero, zero)
  BY <1>2, <1>3, <1>4, <1>5 DEF Bounded
<1>7. Cardinality(tree.nodes) = 0
  BY <1>3, FS_EmptySet
<1> QED
  BY <1>3, <1>6, <1>7 DEF TreeInv

LEMMA NextTreeInv == TreeInv /\ [TreeNext]_<<tree, ret>> => TreeInv'
<1> SUFFICES ASSUME TreeInv, [TreeNext]_<<tree, ret>> PROVE TreeInv'
  OBVIOUS
<1>1. PICK low, high : Bounded(tree, low, high)
  BY DEF TreeInv
<1>2. tree.node_count = Cardinality(tree.nodes)
  BY DEF TreeInv
<1>3. ASSUME NEW k \in Key, NEW r \in Record, Insert(k, r) PROVE TreeInv'
  <2>1. PICK s, a : s = tree_insert(tree, k, r).tree /\ a = tree_insert(tree, k, r).ret
    OBVIOUS
  <2>2. tree' = s
    BY <1>3, <2>1 DEF Insert
  <2>3. InsertedInto(s, a, tree, k, r)
    BY <1>1, <1>2, <2>1, InsertKeeps
  <2> QED
    BY <2>2, <2>3 DEF TreeInv, InsertedInto
<1>4. ASSUME NEW k \in Key, Remove(k) PROVE TreeInv'
  <2>1. PICK s, a : s = tree_remove(tree, k).tree /\ a = tree_remove(tree, k).ret
    OBVIOUS
  <2>2. tree' = s
    BY <1>4, <2>1 DEF Remove
  <2>3. RemovedFrom(s, a, tree, k)
    BY <1>1, <1>2, <2>1, RemoveKeeps
  <2> QED
    BY <2>2, <2>3 DEF TreeInv, RemovedFrom
<1>5. ASSUME UNCHANGED tree PROVE TreeInv'
  BY <1>5 DEF TreeInv
<1> QED
  BY <1>3, <1>4, <1>5 DEF TreeNext, Find, FindNearest

LEMMA TreeInvariant == TreeSpec => []TreeInv
BY InitTreeInv, NextTreeInv, PTL DEF TreeSpec

\* The bounds make it a search tree by its links alone.
LEMMA BoundsOrder == TreeInv => SearchTree
<1> SUFFICES ASSUME TreeInv PROVE SearchTree
  OBVIOUS
<1>1. PICK low, high : Bounded(tree, low, high)
  BY DEF TreeInv
<1>2. Typed(tree) /\ Rooted(tree, low, high) /\ \A u \in tree.nodes : Placed(tree, low, high, u)
  BY <1>1 DEF Bounded
<1>3. tree.node_count = Cardinality(tree.nodes) /\ tree.node_count \in Nat
  BY <1>2, FiniteNodes DEF TreeInv
<1>4. \A u \in tree.nodes : /\ u \in Int /\ u > 0 /\ u < Top /\ u # NULL
                            /\ Below(u) = {v \in tree.nodes : Holds(low, high, u, v)}
  BY <1>1, Numbers, BelowIs
<1>5. TreeTyped
  BY <1>2, <1>3 DEF TreeTyped, Typed
<1>6. tree.root # NULL => tree.parent[tree.root] = NULL /\ Below(tree.root) = tree.nodes
  <2> SUFFICES ASSUME tree.root # NULL
               PROVE  tree.parent[tree.root] = NULL /\ Below(tree.root) = tree.nodes
    OBVIOUS
  <2>1. /\ tree.root \in tree.nodes /\ tree.parent[tree.root] = NULL
        /\ low[tree.root] = 0 /\ high[tree.root] = Top
    BY <1>2 DEF Rooted
  <2>2. \A v \in tree.nodes : Holds(low, high, tree.root, v)
    BY <1>4, <2>1 DEF Holds
  <2> QED
    BY <1>4, <2>1, <2>2
<1>7. ASSUME NEW u \in tree.nodes, tree.left[u] # NULL
      PROVE  /\ tree.left[u] \in tree.nodes /\ tree.parent[tree.left[u]] = u
             /\ \A v \in Below(tree.left[u]) : v < u
  <2>1. PICK c : c = tree.left[u]
    OBVIOUS
  <2>2. c \in tree.nodes /\ tree.parent[c] = u /\ high[c] = u
    BY <1>2, <1>7, <2>1 DEF Placed
  <2>3. \A v \in Below(c) : v < u
    BY <1>4, <2>2 DEF Holds
  <2> QED
    BY <2>1, <2>2, <2>3
<1>8. ASSUME NEW u \in tree.nodes, tree.right[u] # NULL
      PROVE  /\ tree.right[u] \in tree.nodes /\ tree.parent[tree.right[u]] = u
             /\ \A v \in Below(tree.right[u]) : v > u
  <2>1. PICK c : c = tree.right[u]
    OBVIOUS
  <2>2. c \in tree.nodes /\ tree.parent[c] = u /\ low[c] = u
    BY <1>2, <1>8, <2>1 DEF Placed
  <2>3. \A v \in Below(c) : u < v /\ v \in Int
    BY <1>4, <2>2 DEF Holds
  <2>4. \A v \in Below(c) : v > u
    BY <1>4, <2>3
  <2> QED
    BY <2>1, <2>2, <2>4
<1>9. ASSUME NEW u \in tree.nodes, u # tree.root
      PROVE  tree.parent[u] # NULL /\ u \in {tree.left[tree.parent[u]],
                                             tree.right[tree.parent[u]]}
  BY <1>2, <1>4, <1>9 DEF Placed
<1>10. (tree.root = NULL) = (tree.nodes = {})
  BY <1>2 DEF Rooted
<1> QED
  BY <1>3, <1>5, <1>6, <1>7, <1>8, <1>9, <1>10 DEF SearchTree

\* Whatever is inserted, found and removed, in whatever order, rotations and
\* removals leave the links of one search tree over exactly the allocated nodes,
\* and node_count is their number (stree.c:41-140, 164-223).
THEOREM LinksAreASearchTree == TreeSpec => []SearchTree
BY TreeInvariant, BoundsOrder, PTL


-----------------------------------------------------------------------------
(* The ordered map                                                         *)

LEMMA MaxIsMax == \A S : Map!Max(S) = Max(S)
BY DEF Map!Max, Max

\* The greatest of the nodes below a key.
LEMMA MaxBelow ==
  ASSUME NEW T \in SUBSET Key, T # {}
  PROVE  Max(T) \in T /\ \A z \in T : z <= Max(T)
<1>1. T \in SUBSET Nat /\ IsFiniteSet(T)
  BY KeyAssumption, FS_Subset
<1> QED
  BY <1>1, GreatestElement

MapOf(t) == [k \in t.nodes |-> t.record[k]]

LEMMA InsertMaps ==
  ASSUME TreeInv, NEW k \in Key, NEW r \in Record, Insert(k, r)
  PROVE  Map!Insert(k, r)
<1>1. PICK low, high : Bounded(tree, low, high)
  BY DEF TreeInv
<1>2. PICK s, a : s = tree_insert(tree, k, r).tree /\ a = tree_insert(tree, k, r).ret
  OBVIOUS
<1>3. InsertedInto(s, a, tree, k, r)
  BY <1>1, <1>2, InsertKeeps DEF TreeInv
<1>4. tree' = s /\ ret' = [op |-> "insert", key |-> k, value |-> a]
  BY <1>2 DEF Insert, Result
<1>5. PICK m : m = MapOf(tree)
  OBVIOUS
<1>6. DOMAIN m = tree.nodes /\ \A j \in tree.nodes : m[j] = tree.record[j]
  BY <1>5 DEF MapOf
<1>7. MapOf(s) = IF k \in DOMAIN m THEN m
                 ELSE [j \in DOMAIN m \cup {k} |-> IF j = k THEN r ELSE m[j]]
  <2>1. CASE k \in tree.nodes
    BY <1>3, <1>5, <1>6, <2>1 DEF InsertedInto
  <2>2. CASE k \notin tree.nodes
    <3>1. s.nodes = tree.nodes \cup {k} /\ s.record = [tree.record EXCEPT ![k] = r]
      BY <1>3, <2>2 DEF InsertedInto
    <3>2. DOMAIN tree.record = Key /\ tree.nodes \subseteq Key
      BY <1>1 DEF Bounded, Typed
    <3>3. \A j \in s.nodes : s.record[j] = IF j = k THEN r ELSE m[j]
      BY <1>6, <2>2, <3>1, <3>2
    <3> QED
      BY <1>6, <2>2, <3>1, <3>3 DEF MapOf
  <2> QED
    BY <2>1, <2>2
<1>8. a = IF k \in DOMAIN m THEN 0 ELSE 1
  BY <1>3, <1>6 DEF InsertedInto
<1> QED
  BY <1>4, <1>5, <1>7, <1>8 DEF Map!Insert, Map!Result, MapOf

LEMMA FindMaps ==
  ASSUME TreeInv, NEW k \in Key, Find(k)
  PROVE  Map!Find(k)
<1>1. PICK low, high : Bounded(tree, low, high)
  BY DEF TreeInv
<1>2. k \in Visited(tree, k) <=> k \in tree.nodes
  BY <1>1, Finds
<1>3. tree_find(tree, k) = IF k \in tree.nodes THEN MapOf(tree)[k] ELSE NULL
  BY <1>2 DEF tree_find, MapOf
<1>4. DOMAIN MapOf(tree) = tree.nodes
  BY DEF MapOf
<1>5. tree' = tree /\ ret' = [op |-> "find", key |-> k, value |-> tree_find(tree, k)]
  BY DEF Find, Result
<1> QED
  BY <1>3, <1>4, <1>5 DEF Map!Find, Map!Result, Map!At, MapOf

LEMMA FindNearestMaps ==
  ASSUME TreeInv, NEW k \in Key, FindNearest(k)
  PROVE  Map!FindNearest(k)
<1>1. PICK low, high : Bounded(tree, low, high)
  BY DEF TreeInv
<1>2. k \in Visited(tree, k) <=> k \in tree.nodes
  BY <1>1, Finds
<1>3. PICK m : m = MapOf(tree)
  OBVIOUS
<1>4. DOMAIN m = tree.nodes /\ \A j \in tree.nodes : m[j] = tree.record[j]
  BY <1>3 DEF MapOf
<1>5. tree.nodes \subseteq Key /\ \A j \in Key : j \in Int
  BY <1>1, KeyAssumption DEF Bounded, Typed
<1>6. PICK B : B = {j \in DOMAIN m : j <= k}
  OBVIOUS
<1>7. B \in SUBSET Key
  BY <1>4, <1>5, <1>6
<1>8. tree_find_nearest(tree, k) = IF B = {} THEN NULL ELSE m[Max(B)]
  <2>1. CASE k \in tree.nodes
    <3>1. tree_find_nearest(tree, k) = tree.record[k]
      BY <1>2, <2>1 DEF tree_find_nearest
    <3>2. k \in B /\ \A j \in B : j <= k
      BY <1>4, <1>5, <1>6, <2>1
    <3>3. Max(B) \in B /\ k <= Max(B)
      BY <1>7, <3>2, MaxBelow
    <3>4. Max(B) = k
      BY <1>5, <1>7, <3>2, <3>3
    <3> QED
      BY <1>4, <2>1, <3>1, <3>2, <3>4
  <2>2. CASE k \notin tree.nodes
    <3>1. PICK S, T : S = {z \in Visited(tree, k) : z < k} /\ T = {z \in tree.nodes : z < k}
      <4>1. PICK S : S = {z \in Visited(tree, k) : z < k}
        OBVIOUS
      <4>2. PICK T : T = {z \in tree.nodes : z < k}
        OBVIOUS
      <4> QED
        BY <4>1, <4>2
    <3>2. (S = {} <=> T = {}) /\ (T # {} => Max(S) = Max(T) /\ Max(T) \in T)
      BY <1>1, <2>2, <3>1, FindsNearest
    <3>3. tree_find_nearest(tree, k) = IF S = {} THEN NULL ELSE tree.record[Max(S)]
      BY <1>2, <2>2, <3>1 DEF tree_find_nearest
    <3>4. \A j \in tree.nodes : j <= k <=> j < k
      BY <1>5, <2>2
    <3>5. B = T
      BY <1>4, <1>6, <3>1, <3>4
    <3>6. T # {} => m[Max(T)] = tree.record[Max(T)]
      BY <1>4, <3>1, <3>2
    <3> QED
      BY <3>2, <3>3, <3>5, <3>6
  <2> QED
    BY <2>1, <2>2
<1>9. tree' = tree /\ ret' = [op |-> "find_nearest", key |-> k,
                              value |-> tree_find_nearest(tree, k)]
  BY DEF FindNearest, Result
<1>10. ret' = [op |-> "find_nearest", key |-> k,
               value |-> IF {j \in DOMAIN MapOf(tree) : j <= k} = {} THEN NULL
                         ELSE MapOf(tree)[Map!Max({j \in DOMAIN MapOf(tree) : j <= k})]]
  BY <1>3, <1>6, <1>8, <1>9, MaxIsMax
<1> QED
  BY <1>9, <1>10 DEF Map!FindNearest, Map!Result, MapOf

LEMMA RemoveMaps ==
  ASSUME TreeInv, NEW k \in Key, Remove(k)
  PROVE  Map!Remove(k)
<1>1. PICK low, high : Bounded(tree, low, high)
  BY DEF TreeInv
<1>2. PICK s, a : s = tree_remove(tree, k).tree /\ a = tree_remove(tree, k).ret
  OBVIOUS
<1>3. RemovedFrom(s, a, tree, k)
  BY <1>1, <1>2, RemoveKeeps DEF TreeInv
<1>4. tree' = s /\ ret' = [op |-> "remove", key |-> k, value |-> a]
  BY <1>2 DEF Remove, Result
<1>5. PICK m : m = MapOf(tree)
  OBVIOUS
<1>6. DOMAIN m = tree.nodes /\ \A j \in tree.nodes : m[j] = tree.record[j]
  BY <1>5 DEF MapOf
<1>7. MapOf(s) = [j \in DOMAIN m \ {k} |-> m[j]]
  <2>1. CASE k \notin tree.nodes
    <3>1. s = tree /\ tree.nodes \ {k} = tree.nodes
      BY <1>3, <2>1 DEF RemovedFrom
    <3> QED
      BY <1>6, <3>1 DEF MapOf
  <2>2. CASE k \in tree.nodes
    <3>1. s.nodes = tree.nodes \ {k} /\ s.record = [tree.record EXCEPT ![k] = NULL]
      BY <1>3, <2>2 DEF RemovedFrom
    <3>2. DOMAIN tree.record = Key /\ tree.nodes \subseteq Key
      BY <1>1 DEF Bounded, Typed
    <3>3. \A j \in s.nodes : s.record[j] = m[j]
      BY <1>6, <3>1, <3>2
    <3> QED
      BY <1>6, <3>1, <3>3 DEF MapOf
  <2> QED
    BY <2>1, <2>2
<1>8. a = IF k \in DOMAIN m THEN m[k] ELSE NULL
  BY <1>3, <1>6 DEF RemovedFrom
<1> QED
  BY <1>4, <1>5, <1>7, <1>8 DEF Map!Remove, Map!Result, Map!At, Map!Restrict, MapOf

\* The tree behaves as the map from keys to records of stree.h: what is found,
\* found nearest and removed is what was inserted, and find_nearest, whose search
\* ends at a leaf, answers with the greatest key at or below the one asked for
\* (stree.c:75-140, stree.h:26-39).
THEOREM TreeIsAnOrderedMap == TreeSpec => ImplementsOrderedMap
<1>1. TreeInit => Map!MapInit
  <2> SUFFICES ASSUME TreeInit PROVE [k \in tree.nodes |-> tree.record[k]] = <<>>
    BY DEF TreeInit, Result, Map!MapInit, Map!Result
  <2>1. tree.nodes = {}
    BY DEF TreeInit, NoTree
  <2> QED
    BY <2>1
<1>2. TreeInv /\ [TreeNext]_<<tree, ret>> =>
        [Map!MapNext]_<<[k \in tree.nodes |-> tree.record[k]], ret>>
  <2> SUFFICES ASSUME TreeInv, [TreeNext]_<<tree, ret>>
               PROVE  [Map!MapNext]_<<[k \in tree.nodes |-> tree.record[k]], ret>>
    OBVIOUS
  <2>1. ASSUME NEW k \in Key, NEW r \in Record, Insert(k, r) PROVE Map!MapNext
    BY <2>1, InsertMaps DEF Map!MapNext
  <2>2. ASSUME NEW k \in Key, Find(k) PROVE Map!MapNext
    BY <2>2, FindMaps DEF Map!MapNext
  <2>3. ASSUME NEW k \in Key, FindNearest(k) PROVE Map!MapNext
    BY <2>3, FindNearestMaps DEF Map!MapNext
  <2>4. ASSUME NEW k \in Key, Remove(k) PROVE Map!MapNext
    BY <2>4, RemoveMaps DEF Map!MapNext
  <2>5. CASE UNCHANGED <<tree, ret>>
    BY <2>5
  <2> QED
    BY <2>1, <2>2, <2>3, <2>4, <2>5 DEF TreeNext
<1> QED
  BY <1>1, <1>2, TreeInvariant, PTL DEF TreeSpec, ImplementsOrderedMap, Map!MapSpec

-----------------------------------------------------------------------------
(* A walk along a list                                                     *)

\* The links next and prev of the nodes undo each other; the list starts at first.
Strung(nodes, first, next, prev, null) ==
  /\ first # null => first \in nodes /\ prev[first] = null
  /\ \A k \in nodes :
       /\ next[k] # null => next[k] \in nodes /\ prev[next[k]] = k
       /\ prev[k] # null => prev[k] \in nodes /\ next[prev[k]] = k

\* What a walk that has come to W is still to come to is in W.
Closed(W, first, next, null) ==
  /\ first # null => first \in W
  /\ \A j \in W : next[j] # null => next[j] \in W

LEMMA ReachedIn ==
  ASSUME NEW S, NEW first, NEW next, NEW null, NEW W \in SUBSET S, Closed(W, first, next, null)
  PROVE  Reached(S, first, next, null) \subseteq W
BY DEF Reached, Closed

LEMMA ReachedHolds ==
  ASSUME NEW S, NEW first, NEW next, NEW null, NEW k \in S,
         \A W \in SUBSET S : Closed(W, first, next, null) => k \in W
  PROVE  k \in Reached(S, first, next, null)
BY DEF Reached, Closed

\* Behind a node that the walk comes to it comes to the one linked there.
LEMMA LinkReach ==
  ASSUME NEW S, NEW null, null \notin S, NEW nodes \in SUBSET S,
         NEW first, NEW next, NEW prv, Strung(nodes, first, next, prv, null),
         Reached(S, first, next, null) = nodes,
         NEW p \in S \ nodes, NEW prev \in nodes,
         NEW after, after[prev] = p, after[p] = next[prev],
         \A j \in nodes \ {prev} : after[j] = next[j]
  PROVE  Reached(S, first, after, null) = nodes \cup {p}
<1>1. Closed(nodes \cup {p}, first, after, null)
  BY DEF Strung, Closed
<1>2. Reached(S, first, after, null) \subseteq nodes \cup {p}
  BY <1>1, ReachedIn
<1>3. ASSUME NEW W \in SUBSET S, Closed(W, first, after, null) PROVE nodes \cup {p} \subseteq W
  <2>1. Closed(W \cap nodes, first, next, null)
    BY <1>3 DEF Strung, Closed
  <2>2. nodes \subseteq W \cap nodes
    BY <2>1, ReachedIn
  <2> QED
    BY <1>3, <2>2 DEF Closed
<1>4. nodes \cup {p} \subseteq Reached(S, first, after, null)
  BY <1>3, ReachedHolds
<1> QED
  BY <1>2, <1>4

\* A list of one.
LEMMA FrontReach ==
  ASSUME NEW S, NEW null, null \notin S, NEW p \in S, NEW after, after[p] = null
  PROVE  Reached(S, p, after, null) = {p}
<1>1. Closed({p}, p, after, null)
  BY DEF Closed
<1>2. Reached(S, p, after, null) \subseteq {p}
  BY <1>1, ReachedIn
<1>3. p \in Reached(S, p, after, null)
  BY ReachedHolds DEF Closed
<1> QED
  BY <1>2, <1>3

\* The walk comes to every node but the one taken out.
LEMMA UnlinkReach ==
  ASSUME NEW S, NEW null, null \notin S, NEW nodes \in SUBSET S,
         NEW first, NEW next, NEW prv, Strung(nodes, first, next, prv, null),
         Reached(S, first, next, null) = nodes,
         NEW p \in nodes, NEW prev, prev = prv[p], NEW rest, rest = next[p],
         NEW front, front = IF prev = null THEN rest ELSE first,
         NEW after, \A j \in nodes \ {p} : after[j] = IF j = prev THEN rest ELSE next[j]
  PROVE  Reached(S, front, after, null) = nodes \ {p}
<1>1. /\ first = p => prev = null
      /\ prev # null => prev \in nodes /\ next[prev] = p
      /\ \A j \in nodes : next[j] = p => j = prev
      /\ \A j \in nodes : next[j] # null => next[j] \in nodes
      /\ first # null => first \in nodes
      /\ p # null
  BY DEF Strung
<1>2. (prev = null => first = p) /\ prev # p
  <2> SUFFICES ASSUME first # p, prev \notin nodes \ {p} PROVE FALSE
    BY <1>1
  <2>1. Closed(nodes \ {p}, first, next, null)
    BY <1>1 DEF Closed
  <2>2. nodes \subseteq nodes \ {p}
    BY <2>1, ReachedIn
  <2> QED
    BY <2>2
<1>3. rest # p
  BY <1>1, <1>2
<1>4. Closed(nodes \ {p}, front, after, null)
  BY <1>1, <1>2, <1>3 DEF Closed
<1>5. Reached(S, front, after, null) \subseteq nodes \ {p}
  BY <1>4, ReachedIn
<1>6. ASSUME NEW W \in SUBSET S, Closed(W, front, after, null) PROVE nodes \ {p} \subseteq W
  <2>1. PICK V : V = {j \in nodes : IF j = p THEN prev = null \/ prev \in W ELSE j \in W}
    OBVIOUS
  <2>2. first # null => first \in V
    BY <1>1, <1>2, <1>6, <2>1 DEF Closed
  <2>3. ASSUME NEW j \in V, next[j] # null PROVE next[j] \in V
    BY <1>1, <1>2, <1>3, <1>6, <2>1, <2>3 DEF Closed
  <2>4. nodes \subseteq V
    BY <2>1, <2>2, <2>3, ReachedIn DEF Closed
  <2> QED
    BY <2>1, <2>4
<1>7. nodes \ {p} \subseteq Reached(S, front, after, null)
  BY <1>6, ReachedHolds
<1> QED
  BY <1>5, <1>7

-----------------------------------------------------------------------------
(* The range set: its links                                                *)

Extent == [prev : NodeOrNull, next : NodeOrNull, hi : Nat]

\* Node k of the ranges r and its neighbours know each other, in ascending order.
Neighbours(nodes, r, k) ==
  /\ k <= r[k].hi
  /\ r[k].next # NULL =>
       r[k].next \in nodes /\ r[r[k].next].prev = k /\ r[k].hi < r[k].next
  /\ r[k].prev # NULL => r[k].prev \in nodes /\ r[r[k].prev].next = k

Chained(nodes, first, r) ==
  /\ nodes \subseteq Key /\ first \in NodeOrNull /\ r \in [Key -> Extent]
  /\ first # NULL => first \in nodes /\ r[first].prev = NULL
  /\ \A k \in nodes : Neighbours(nodes, r, k)

Extents(nodes, r) == {<<k, r[k].hi>> : k \in nodes}

\* The node that tree_find_nearest finds for lo.
Nearest(nodes, lo, prev) ==
  /\ prev = NULL => \A k \in nodes : lo < k
  /\ prev # NULL => prev \in nodes /\ prev <= lo /\ \A k \in nodes : k <= lo => k <= prev

Follower(r, prev, next) == next = IF prev = NULL THEN NULL ELSE r[prev].next

\* The ranges once lo has been linked after prev.
LinkedAfter(s, r, lo, hi, prev, next) ==
  /\ s \in [Key -> Extent]
  /\ s[lo] = [prev |-> prev, next |-> next, hi |-> hi]
  /\ \A k \in Key \ {lo} :
       /\ s[k].hi = r[k].hi
       /\ s[k].next = IF k = prev THEN lo ELSE r[k].next
       /\ s[k].prev = IF k = next THEN lo ELSE r[k].prev

LEMMA LinkFields ==
  ASSUME NEW r \in [Key -> Extent], NEW lo \in Key, NEW hi \in Nat,
         NEW prev \in NodeOrNull, NEW next \in NodeOrNull,
         NEW s, s = [k \in Key |->
                       IF k = lo THEN [prev |-> prev, next |-> next, hi |-> hi]
                       ELSE [r[k] EXCEPT !.next = IF k = prev THEN lo ELSE @,
                                         !.prev = IF k = next THEN lo ELSE @]]
  PROVE  LinkedAfter(s, r, lo, hi, prev, next)
<1>1. lo \in NodeOrNull /\ \A k \in Key : r[k] \in Extent
  BY DEF NodeOrNull
<1>2. s[lo] = [prev |-> prev, next |-> next, hi |-> hi]
  OBVIOUS
<1>3. ASSUME NEW k \in Key, k # lo
      PROVE  /\ s[k] \in Extent
             /\ s[k].hi = r[k].hi
             /\ s[k].next = IF k = prev THEN lo ELSE r[k].next
             /\ s[k].prev = IF k = next THEN lo ELSE r[k].prev
  <2>1. s[k] = [r[k] EXCEPT !.next = IF k = prev THEN lo ELSE @,
                            !.prev = IF k = next THEN lo ELSE @]
    BY <1>3
  <2> QED
    BY <1>1, <1>3, <2>1 DEF Extent
<1>4. s \in [Key -> Extent]
  <2>1. s[lo] \in Extent
    BY <1>2 DEF Extent
  <2>2. \A k \in Key : s[k] \in Extent
    BY <1>3, <2>1
  <2>3. s = [k \in Key |-> s[k]]
    OBVIOUS
  <2> HIDE DEF Extent
  <2> QED
    BY <2>2, <2>3
<1> QED
  BY <1>2, <1>3, <1>4 DEF LinkedAfter

\* The ranges r and one from lo to hi are chained: by s, from f on.
Joined(nodes, r, lo, hi, f, s) ==
  /\ Chained(nodes \cup {lo}, f, s)
  /\ Extents(nodes \cup {lo}, s) = Extents(nodes, r) \cup {<<lo, hi>>}

\* A range that clashes with neither neighbour takes its place between them.
LEMMA LinkChains ==
  ASSUME NEW nodes, NEW first, NEW r, Chained(nodes, first, r),
         NEW lo \in Key, NEW hi \in Nat, lo <= hi, lo \notin nodes,
         NEW prev \in NodeOrNull, prev # NULL => prev \in nodes /\ r[prev].hi < lo,
         NEW next, Follower(r, prev, next), next # NULL => hi < next,
         NEW s, LinkedAfter(s, r, lo, hi, prev, next),
         NEW f, f = IF prev = NULL THEN lo ELSE first
  PROVE  Joined(nodes, r, lo, hi, f, s)
<1>1. /\ nodes \subseteq Key /\ first \in NodeOrNull /\ r \in [Key -> Extent]
      /\ first # NULL => first \in nodes /\ r[first].prev = NULL
      /\ \A k \in nodes : Neighbours(nodes, r, k)
  BY DEF Chained
<1>2. /\ \A k \in Key : k \in Int /\ k # NULL
      /\ \A k \in Key : r[k].hi \in Nat /\ r[k].next \in NodeOrNull /\ r[k].prev \in NodeOrNull
  <2>1. \A k \in Key : k \in Int /\ k # NULL
    <3>1. \A k \in Key : k \in Nat \ {0}
      BY KeyAssumption
    <3> QED
      BY <3>1 DEF NULL
  <2>2. \A k \in Key : r[k] \in Extent
    BY <1>1
  <2> QED
    BY <2>1, <2>2 DEF Extent
<1>3. /\ s \in [Key -> Extent] /\ s[lo] = [prev |-> prev, next |-> next, hi |-> hi]
      /\ \A k \in Key \ {lo} :
           /\ s[k].hi = r[k].hi
           /\ s[k].next = IF k = prev THEN lo ELSE r[k].next
           /\ s[k].prev = IF k = next THEN lo ELSE r[k].prev
  BY DEF LinkedAfter
<1>4. /\ prev = NULL => next = NULL
      /\ prev # NULL => next = r[prev].next /\ prev # lo /\ prev < lo
      /\ next # NULL => next \in nodes /\ r[next].prev = prev /\ next # lo /\ next # prev
  BY <1>1, <1>2 DEF Follower, Neighbours
<1>5. f \in NodeOrNull /\ (f # NULL => f \in nodes \cup {lo} /\ s[f].prev = NULL)
  <2>1. CASE prev = NULL
    BY <1>3, <2>1 DEF NodeOrNull
  <2>2. CASE prev # NULL
    <3>1. f = first
      BY <2>2
    <3>2. first # NULL => first \in nodes /\ first # lo /\ first # next /\ first \in Key
      BY <1>1, <1>2, <1>4, <2>2
    <3> QED
      BY <1>1, <1>3, <3>1, <3>2
  <2> QED
    BY <2>1, <2>2
<1>6. Neighbours(nodes \cup {lo}, s, lo)
  <2>1. next # NULL => s[next].prev = lo
    BY <1>1, <1>3, <1>4
  <2>2. prev # NULL => s[prev].next = lo
    BY <1>1, <1>3, <1>4
  <2> QED
    BY <1>3, <1>4, <2>1, <2>2 DEF Neighbours
<1>7. ASSUME NEW k \in nodes PROVE Neighbours(nodes \cup {lo}, s, k)
  <2>1. k \in Key \ {lo} /\ Neighbours(nodes, r, k)
    BY <1>1
  <2>2. PICK n, p : n = r[k].next /\ p = r[k].prev
    OBVIOUS
  <2>3. /\ s[k].hi = r[k].hi
        /\ s[k].next = IF k = prev THEN lo ELSE n
        /\ s[k].prev = IF k = next THEN lo ELSE p
    BY <1>3, <2>1, <2>2
  <2>4. /\ k <= r[k].hi
        /\ n # NULL => n \in nodes /\ r[n].prev = k /\ r[k].hi < n
        /\ p # NULL => p \in nodes /\ r[p].next = k
    BY <2>1, <2>2 DEF Neighbours
  <2>5. s[k].next # NULL =>
          s[k].next \in nodes \cup {lo} /\ s[s[k].next].prev = k /\ s[k].hi < s[k].next
    <3>1. CASE k = prev
      <4>1. s[lo].prev = k /\ r[k].hi < lo
        BY <1>2, <1>3, <2>1, <3>1
      <4> QED
        BY <2>3, <3>1, <4>1
    <3>2. CASE k # prev /\ n # NULL
      <4>1. n # next /\ n \in Key \ {lo}
        BY <1>1, <1>4, <2>4, <3>2
      <4>2. s[n].prev = r[n].prev
        BY <1>3, <4>1
      <4> QED
        BY <2>3, <2>4, <3>2, <4>2
    <3> QED
      BY <2>3, <3>1, <3>2
  <2>6. s[k].prev # NULL => s[k].prev \in nodes \cup {lo} /\ s[s[k].prev].next = k
    <3>1. CASE k = next
      BY <1>3, <2>3, <3>1
    <3>2. CASE k # next /\ p # NULL
      <4>1. p \in Key \ {lo} /\ p \in nodes /\ r[p].next = k
        BY <1>1, <2>4, <3>2
      <4>2. p # prev
        BY <1>2, <1>4, <2>1, <3>2, <4>1
      <4>3. s[p].next = k
        BY <1>3, <4>1, <4>2
      <4> QED
        BY <2>3, <3>2, <4>1, <4>3
    <3> QED
      BY <2>3, <3>1, <3>2
  <2> QED
    BY <2>3, <2>4, <2>5, <2>6 DEF Neighbours
<1>8. Chained(nodes \cup {lo}, f, s)
  BY <1>1, <1>3, <1>5, <1>6, <1>7 DEF Chained
<1>9. Extents(nodes \cup {lo}, s) = Extents(nodes, r) \cup {<<lo, hi>>}
  <2>1. \A k \in nodes : s[k].hi = r[k].hi
    BY <1>1, <1>3
  <2>2. s[lo].hi = hi
    BY <1>3
  <2> QED
    BY <2>1, <2>2 DEF Extents
<1> QED
  BY <1>8, <1>9 DEF Joined

\* The ranges once p has been taken out from between its neighbours.
UnlinkedFrom(s, r, p, prev, next) ==
  /\ s \in [Key -> Extent]
  /\ \A k \in Key \ {p} :
       /\ s[k].hi = r[k].hi
       /\ s[k].next = IF k = prev THEN next ELSE r[k].next
       /\ s[k].prev = IF k = next THEN prev ELSE r[k].prev

LEMMA UnlinkFields ==
  ASSUME NEW r \in [Key -> Extent], NEW p \in Key,
         NEW prev \in NodeOrNull, NEW next \in NodeOrNull,
         NEW s, s = [k \in Key |->
                       IF k = p THEN NoRange
                       ELSE [r[k] EXCEPT !.next = IF k = prev THEN next ELSE @,
                                         !.prev = IF k = next THEN prev ELSE @]]
  PROVE  UnlinkedFrom(s, r, p, prev, next)
<1>1. \A k \in Key : r[k] \in Extent
  OBVIOUS
<1>2. NoRange \in Extent
  BY DEF NoRange, Extent, NodeOrNull, NULL
<1>3. ASSUME NEW k \in Key, k # p
      PROVE  /\ s[k] \in Extent
             /\ s[k].hi = r[k].hi
             /\ s[k].next = IF k = prev THEN next ELSE r[k].next
             /\ s[k].prev = IF k = next THEN prev ELSE r[k].prev
  <2>1. s[k] = [r[k] EXCEPT !.next = IF k = prev THEN next ELSE @,
                            !.prev = IF k = next THEN prev ELSE @]
    BY <1>3
  <2> QED
    BY <1>1, <1>3, <2>1 DEF Extent
<1>4. s \in [Key -> Extent]
  <2>1. \A k \in Key : s[k] \in Extent
    BY <1>2, <1>3
  <2>2. s = [k \in Key |-> s[k]]
    OBVIOUS
  <2> HIDE DEF Extent
  <2> QED
    BY <2>1, <2>2, ZenonT(40)
<1> QED
  BY <1>3, <1>4 DEF UnlinkedFrom

Followers(r) == [k \in Key |-> r[k].next]

LEMMA ChainIsStrung ==
  ASSUME NEW nodes, NEW first, NEW r, Chained(nodes, first, r)
  PROVE  /\ Strung(nodes, first, Followers(r), [k \in Key |-> r[k].prev], NULL)
         /\ nodes \in SUBSET Key /\ NULL \notin Key
<1>1. /\ nodes \subseteq Key
      /\ first # NULL => first \in nodes /\ r[first].prev = NULL
      /\ \A k \in nodes : Neighbours(nodes, r, k)
  BY DEF Chained
<1>2. NULL \notin Key
  BY KeyAssumption DEF NULL
<1>3. \A k \in nodes :
        /\ r[k].next # NULL => r[k].next \in nodes /\ r[r[k].next].prev = k
        /\ r[k].prev # NULL => r[k].prev \in nodes /\ r[r[k].prev].next = k
  BY <1>1 DEF Neighbours
<1> QED
  BY <1>1, <1>2, <1>3 DEF Strung, Followers

\* Linked behind another, a range is on the list if that one is.
LEMMA LinkListed ==
  ASSUME NEW nodes, NEW first, NEW r, Chained(nodes, first, r),
         Reached(Key, first, Followers(r), NULL) = nodes,
         NEW lo \in Key, lo \notin nodes, NEW hi, NEW prev \in nodes,
         NEW next, next = Followers(r)[prev], NEW s, LinkedAfter(s, r, lo, hi, prev, next)
  PROVE  Reached(Key, first, Followers(s), NULL) = nodes \cup {lo}
<1>1. /\ Strung(nodes, first, Followers(r), [k \in Key |-> r[k].prev], NULL)
      /\ nodes \in SUBSET Key /\ NULL \notin Key
  BY ChainIsStrung
<1>2. /\ Followers(s)[prev] = lo /\ Followers(s)[lo] = Followers(r)[prev]
      /\ \A j \in nodes \ {prev} : Followers(s)[j] = Followers(r)[j]
  BY <1>1 DEF LinkedAfter, Followers
<1> QED
  BY <1>1, <1>2, LinkReach

\* A range taken out leaves the others on the list.
LEMMA UnlinkListed ==
  ASSUME NEW nodes, NEW first, NEW r, Chained(nodes, first, r),
         Reached(Key, first, Followers(r), NULL) = nodes, NEW p \in nodes,
         NEW prev, prev = r[p].prev, NEW next, next = r[p].next,
         NEW s, UnlinkedFrom(s, r, p, prev, next),
         NEW f, f = IF prev = NULL THEN next ELSE first
  PROVE  Reached(Key, f, Followers(s), NULL) = nodes \ {p}
<1>1. PICK back : back = [k \in Key |-> r[k].prev]
  OBVIOUS
<1>2. /\ Strung(nodes, first, Followers(r), back, NULL)
      /\ nodes \in SUBSET Key /\ NULL \notin Key
  BY <1>1, ChainIsStrung
<1>3. /\ prev = back[p] /\ next = Followers(r)[p]
      /\ \A j \in nodes \ {p} : Followers(s)[j] = IF j = prev THEN next ELSE Followers(r)[j]
  BY <1>1, <1>2 DEF UnlinkedFrom, Followers
<1> QED
  BY <1>2, <1>3, UnlinkReach

\* The ranges r without p are chained again: by s, from f on.
Parted(nodes, r, p, f, s) ==
  /\ Chained(nodes \ {p}, f, s)
  /\ Extents(nodes \ {p}, s) = Extents(nodes, r) \ {<<p, r[p].hi>>}

\* The neighbours of a range that is freed become each other's.
LEMMA UnlinkChains ==
  ASSUME NEW nodes, NEW first, NEW r, Chained(nodes, first, r), NEW p \in nodes,
         NEW prev, prev = r[p].prev, NEW next, next = r[p].next,
         NEW s, UnlinkedFrom(s, r, p, prev, next),
         NEW f, f = IF prev = NULL THEN next ELSE first
  PROVE  Parted(nodes, r, p, f, s)
<1>1. /\ nodes \subseteq Key /\ first \in NodeOrNull /\ r \in [Key -> Extent] /\ p \in Key
      /\ first # NULL => first \in nodes /\ r[first].prev = NULL
      /\ \A k \in nodes : Neighbours(nodes, r, k)
  BY DEF Chained
<1>2. /\ \A k \in Key : k \in Int /\ k # NULL
      /\ \A k \in Key : r[k].hi \in Nat /\ r[k].next \in NodeOrNull /\ r[k].prev \in NodeOrNull
  <2>1. \A k \in Key : k \in Int /\ k # NULL
    <3>1. \A k \in Key : k \in Nat \ {0}
      BY KeyAssumption
    <3> QED
      BY <3>1 DEF NULL
  <2>2. \A k \in Key : r[k] \in Extent
    BY <1>1
  <2> QED
    BY <2>1, <2>2 DEF Extent
<1>3. /\ s \in [Key -> Extent]
      /\ \A k \in Key \ {p} :
           /\ s[k].hi = r[k].hi
           /\ s[k].next = IF k = prev THEN next ELSE r[k].next
           /\ s[k].prev = IF k = next THEN prev ELSE r[k].prev
  BY DEF UnlinkedFrom
<1>4. /\ prev \in NodeOrNull /\ next \in NodeOrNull
      /\ next # NULL => next \in nodes \ {p} /\ r[next].prev = p /\ r[p].hi < next
      /\ prev # NULL => prev \in nodes \ {p} /\ r[prev].next = p /\ r[prev].hi < p
      /\ p <= r[p].hi
  <2>1. /\ p <= r[p].hi /\ p \in Int /\ r[p].hi \in Nat
        /\ next # NULL => next \in nodes /\ r[next].prev = p /\ r[p].hi < next
        /\ prev # NULL => prev \in nodes /\ r[prev].next = p
    BY <1>1, <1>2 DEF Neighbours
  <2>2. next # NULL => next # p
    BY <2>1
  <2>3. prev # NULL => r[prev].hi < p /\ prev <= r[prev].hi /\ prev \in Int /\ r[prev].hi \in Nat
    BY <1>1, <1>2, <2>1 DEF Neighbours
  <2>4. prev # NULL => prev # p
    BY <2>1, <2>3
  <2> QED
    BY <1>1, <1>2, <2>1, <2>2, <2>3, <2>4
<1>5. f \in NodeOrNull /\ (f # NULL => f \in nodes \ {p} /\ s[f].prev = NULL)
  <2>1. CASE prev = NULL
    BY <1>1, <1>3, <1>4, <2>1
  <2>2. CASE prev # NULL
    <3>1. f = first
      BY <2>2
    <3>2. first # NULL => first \in nodes \ {p} /\ first # next /\ first \in Key
      BY <1>1, <1>2, <1>4, <2>2
    <3> QED
      BY <1>1, <1>3, <3>1, <3>2
  <2> QED
    BY <2>1, <2>2
<1>6. ASSUME NEW k \in nodes \ {p} PROVE Neighbours(nodes \ {p}, s, k)
  <2>1. k \in Key \ {p} /\ k \in nodes /\ Neighbours(nodes, r, k)
    BY <1>1
  <2>2. PICK n, b : n = r[k].next /\ b = r[k].prev
    OBVIOUS
  <2>3. /\ s[k].hi = r[k].hi
        /\ s[k].next = IF k = prev THEN next ELSE n
        /\ s[k].prev = IF k = next THEN prev ELSE b
    BY <1>3, <2>1, <2>2
  <2>4. /\ k <= r[k].hi
        /\ n # NULL => n \in nodes /\ r[n].prev = k /\ r[k].hi < n
        /\ b # NULL => b \in nodes /\ r[b].next = k
    BY <2>1, <2>2 DEF Neighbours
  <2>5. /\ n = p => k = prev
        /\ b = p => k = next
    BY <1>2, <1>1, <2>4
  <2>6. s[k].next # NULL =>
          s[k].next \in nodes \ {p} /\ s[s[k].next].prev = k /\ s[k].hi < s[k].next
    <3>1. CASE k = prev /\ next # NULL
      <4>1. next \in Key \ {p} /\ s[next].prev = prev
        BY <1>1, <1>3, <1>4, <3>1
      <4>2. r[k].hi < next
        BY <1>1, <1>2, <1>4, <2>1, <3>1
      <4> QED
        BY <1>4, <2>3, <3>1, <4>1, <4>2
    <3>2. CASE k # prev /\ n # NULL
      <4>1. n # p /\ n # next /\ n \in Key \ {p}
        BY <1>1, <1>4, <2>1, <2>4, <2>5, <3>2
      <4>2. s[n].prev = k
        BY <1>3, <2>4, <3>2, <4>1
      <4> QED
        BY <2>3, <2>4, <3>2, <4>1, <4>2
    <3> QED
      BY <2>3, <3>1, <3>2
  <2>7. s[k].prev # NULL => s[k].prev \in nodes \ {p} /\ s[s[k].prev].next = k
    <3>1. CASE k = next /\ prev # NULL
      <4>1. prev \in Key \ {p} /\ s[prev].next = next
        BY <1>1, <1>3, <1>4, <3>1
      <4> QED
        BY <1>4, <2>3, <3>1, <4>1
    <3>2. CASE k # next /\ b # NULL
      <4>1. b # p /\ b # prev /\ b \in Key \ {p}
        BY <1>1, <1>4, <2>1, <2>4, <2>5, <3>2
      <4>2. s[b].next = k
        BY <1>3, <2>4, <3>2, <4>1
      <4> QED
        BY <2>3, <2>4, <3>2, <4>1, <4>2
    <3> QED
      BY <2>3, <3>1, <3>2
  <2> QED
    BY <2>3, <2>4, <2>6, <2>7 DEF Neighbours
<1>7. Chained(nodes \ {p}, f, s)
  BY <1>1, <1>3, <1>5, <1>6 DEF Chained
<1>8. Extents(nodes \ {p}, s) = Extents(nodes, r) \ {<<p, r[p].hi>>}
  <2>1. \A k \in nodes \ {p} : s[k].hi = r[k].hi
    BY <1>1, <1>3
  <2> QED
    BY <2>1 DEF Extents
<1> QED
  BY <1>7, <1>8 DEF Parted

-----------------------------------------------------------------------------
(* The range set: what it accepts, and what it reports                     *)

\* Where the invariant needs more than RangesLinked says: the tree has bounds,
\* a range does not end before it starts, and the ranges have their fields.
RangeInv ==
  /\ TreeInv
  /\ \A k \in tree.nodes : tree.record[k] = k
  /\ Chained(tree.nodes, list, range)
  /\ pass = 1 => Extents(tree.nodes, range) = held
  /\ ~cut => OnList = tree.nodes

LEMMA NearestIs ==
  ASSUME RangeInv, NEW lo \in Key, NEW prev, prev = tree_find_nearest(tree, lo)
  PROVE  prev \in NodeOrNull /\ Nearest(tree.nodes, lo, prev)
<1>1. PICK low, high : Bounded(tree, low, high)
  BY DEF RangeInv, TreeInv
<1>2. lo \in Visited(tree, lo) <=> lo \in tree.nodes
  BY <1>1, Finds
<1>3. /\ tree.nodes \subseteq Key /\ \A k \in Key : k \in Int /\ k # NULL
      /\ \A k \in tree.nodes : tree.record[k] = k
  BY <1>1, KeyAssumption DEF Bounded, Typed, RangeInv, NULL
<1>4. CASE lo \in tree.nodes
  <2>1. prev = lo
    BY <1>2, <1>3, <1>4 DEF tree_find_nearest
  <2> QED
    BY <1>3, <1>4, <2>1 DEF Nearest, NodeOrNull
<1>5. CASE lo \notin tree.nodes
  <2>1. PICK S : S = {z \in Visited(tree, lo) : z < lo}
    OBVIOUS
  <2>2. PICK T : T = {z \in tree.nodes : z < lo}
    OBVIOUS
  <2>3. (S = {} <=> T = {}) /\ (T # {} => Max(S) = Max(T) /\ Max(T) \in T)
    BY <1>1, <1>5, <2>1, <2>2, FindsNearest
  <2>4. prev = IF S = {} THEN NULL ELSE tree.record[Max(S)]
    BY <1>2, <1>5, <2>1 DEF tree_find_nearest
  <2>5. T \in SUBSET Key /\ \A k \in tree.nodes : k <= lo => k \in T
    BY <1>3, <1>5, <2>2
  <2>6. CASE T = {}
    <3>1. \A k \in tree.nodes : lo < k
      BY <1>3, <2>5, <2>6
    <3> QED
      BY <2>3, <2>4, <2>6, <3>1 DEF Nearest, NodeOrNull
  <2>7. CASE T # {}
    <3>1. Max(T) \in T /\ \A z \in T : z <= Max(T)
      BY <2>5, <2>7, MaxBelow
    <3>2. prev = Max(T)
      BY <1>3, <2>2, <2>3, <2>4, <2>7, <3>1
    <3> QED
      BY <1>3, <2>2, <2>5, <3>1, <3>2 DEF Nearest, NodeOrNull
  <2> QED
    BY <2>6, <2>7
<1> QED
  BY <1>4, <1>5


LEMMA InitRangeInv == Init => RangeInv
<1> SUFFICES ASSUME Init PROVE RangeInv
  OBVIOUS
<1>1. TreeInv
  BY InitTreeInv DEF Init
<1>2. tree.nodes = {} /\ list = NULL /\ held = {} /\ range = [k \in Key |-> NoRange]
  BY DEF Init, TreeInit, NoTree
<1>3. NoRange \in Extent /\ NULL \in NodeOrNull
  BY DEF NoRange, Extent, NodeOrNull, NULL
<1>4. range \in [Key -> Extent]
  BY <1>2, <1>3
<1>5. Chained(tree.nodes, list, range)
  BY <1>2, <1>3, <1>4 DEF Chained
<1>6. OnList = tree.nodes
  <2>1. PICK none \in SUBSET Key : none = {}
    OBVIOUS
  <2>2. Reached(Key, list, Followers(range), NULL) \subseteq none
    <3>1. Closed(none, list, Followers(range), NULL)
      BY <1>2, <2>1 DEF Closed
    <3> QED
      BY <3>1, ReachedIn
  <2> QED
    BY <1>2, <2>1, <2>2 DEF OnList, Followers
<1> QED
  BY <1>1, <1>2, <1>5, <1>6 DEF RangeInv, Extents

\* The neighbours between which add_range looks for a place.
LEMMA NeighboursOf ==
  ASSUME RangeInv, NEW lo \in Key, NEW hi \in Nat, lo <= hi,
         NEW prev, prev = tree_find_nearest(tree, lo),
         NEW next, Follower(range, prev, next)
  PROVE  /\ prev \in NodeOrNull /\ next \in NodeOrNull
         /\ Nearest(tree.nodes, lo, prev)
         /\ prev # NULL => prev \in tree.nodes /\ prev <= range[prev].hi /\ range[prev].hi \in Nat
         /\ next # NULL => /\ next \in tree.nodes /\ next <= range[next].hi /\ lo < next
                           /\ range[next].hi \in Nat
<1>1. prev \in NodeOrNull /\ Nearest(tree.nodes, lo, prev)
  BY NearestIs
<1>2. /\ tree.nodes \subseteq Key /\ range \in [Key -> Extent]
      /\ \A k \in tree.nodes : Neighbours(tree.nodes, range, k)
      /\ \A k \in Key : k \in Int /\ k # NULL
  BY KeyAssumption DEF RangeInv, Chained, NULL
<1>3. \A k \in Key : range[k] \in Extent
  BY <1>2
<1>4. \A k \in Key : range[k].hi \in Nat /\ range[k].next \in NodeOrNull
  BY <1>3 DEF Extent
<1>5. prev # NULL => /\ prev \in tree.nodes /\ prev <= lo /\ prev <= range[prev].hi
                     /\ range[prev].hi \in Nat /\ next = range[prev].next
  BY <1>1, <1>2, <1>4 DEF Nearest, Neighbours, Follower
<1>6. prev = NULL => next = NULL
  BY DEF Follower
<1>7. next # NULL => next \in tree.nodes /\ range[prev].hi < next
  BY <1>2, <1>5, <1>6 DEF Neighbours
<1>8. next # NULL => next <= range[next].hi /\ range[next].hi \in Nat /\ prev < next
  BY <1>2, <1>4, <1>5, <1>6, <1>7 DEF Neighbours
<1>9. next # NULL => lo < next
  BY <1>1, <1>2, <1>5, <1>6, <1>7, <1>8 DEF Nearest
<1>10. next \in NodeOrNull
  BY <1>2, <1>6, <1>7 DEF NodeOrNull
<1> QED
  BY <1>1, <1>5, <1>7, <1>8, <1>9, <1>10

\* What add_range does with a payload that is neither misplaced nor clashes.
LEMMA AcceptInv ==
  ASSUME RangeInv, NEW lo \in Key, NEW hi \in Nat, lo <= hi,
         NEW prev, prev = tree_find_nearest(tree, lo),
         NEW next, Follower(range, prev, next),
         ~Clash(lo, hi, prev, next), Accept(lo, hi, prev, next), pass' = pass
  PROVE  RangeInv'
<1>1. /\ prev \in NodeOrNull /\ next \in NodeOrNull
      /\ Nearest(tree.nodes, lo, prev)
      /\ prev # NULL => prev \in tree.nodes /\ prev <= range[prev].hi /\ range[prev].hi \in Nat
      /\ next # NULL => /\ next \in tree.nodes /\ next <= range[next].hi /\ lo < next
                        /\ range[next].hi \in Nat
  BY NeighboursOf
<1>2. /\ Chained(tree.nodes, list, range) /\ tree.nodes \subseteq Key
      /\ range \in [Key -> Extent] /\ \A k \in tree.nodes : Neighbours(tree.nodes, range, k)
  BY DEF RangeInv, Chained
<1>3. \A k \in Key : k \in Int /\ k # NULL /\ k \in NodeOrNull
  BY KeyAssumption DEF NULL, NodeOrNull
<1>4. /\ prev # NULL => range[prev].hi < lo
      /\ next # NULL => hi < next
  BY <1>1, <1>2, <1>3 DEF Clash
<1>5. lo \notin tree.nodes
  <2> SUFFICES ASSUME lo \in tree.nodes PROVE FALSE
    OBVIOUS
  <2>1. prev # NULL /\ lo <= prev
    BY <1>1, <1>3 DEF Nearest
  <2> QED
    BY <1>1, <1>2, <1>3, <1>4, <2>1
<1>6. LinkedAfter(range', range, lo, hi, prev, next)
  <2>1. range' = [k \in Key |->
                    IF k = lo THEN [prev |-> prev, next |-> next, hi |-> hi]
                    ELSE [range[k] EXCEPT !.next = IF k = prev THEN lo ELSE @,
                                          !.prev = IF k = next THEN lo ELSE @]]
    BY DEF Accept, Link
  <2> QED
    BY <1>1, <1>2, <2>1, LinkFields
<1>7. list' = IF prev = NULL THEN lo ELSE list
  BY DEF Accept, Link
<1>8. PICK after : after = tree.nodes \cup {lo}
  OBVIOUS
<1>9. /\ Chained(after, list', range')
      /\ Extents(after, range') = Extents(tree.nodes, range) \cup {<<lo, hi>>}
  <2>1. Joined(tree.nodes, range, lo, hi, list', range')
    BY <1>1, <1>2, <1>4, <1>5, <1>6, <1>7, LinkChains
  <2> QED
    BY <1>8, <2>1 DEF Joined
<1>10. PICK low, high : Bounded(tree, low, high)
  BY DEF RangeInv, TreeInv
<1>11. PICK s : s = tree_insert(tree, lo, lo).tree
  OBVIOUS
<1>12. PICK a : a = tree_insert(tree, lo, lo).ret
  OBVIOUS
<1>13. lo \in Record
  BY RangeAssumption
<1>14. InsertedInto(s, a, tree, lo, lo)
  BY <1>10, <1>11, <1>12, <1>13, InsertKeeps DEF RangeInv, TreeInv
<1>15. tree' = s /\ held' = held \cup {<<lo, hi>>}
  BY <1>11 DEF Accept
<1>16. TreeInv' /\ tree'.nodes = after /\ tree'.record = [tree.record EXCEPT ![lo] = lo]
  BY <1>5, <1>8, <1>14, <1>15 DEF InsertedInto, TreeInv
<1>17. \A k \in after : tree'.record[k] = k
  <2>1. DOMAIN tree.record = Key /\ \A k \in tree.nodes : tree.record[k] = k
    BY <1>10 DEF Bounded, Typed, RangeInv
  <2> QED
    BY <1>2, <1>8, <1>16, <2>1
<1>18. pass' = 1 => Extents(after, range') = held'
  BY <1>9, <1>15 DEF RangeInv
<1>19. ~cut' => OnList' = after
  <2> SUFFICES ASSUME ~cut' PROVE Reached(Key, list', Followers(range'), NULL) = after
    BY DEF OnList, Followers
  <2>1. ~cut /\ (tree.nodes = {} \/ ~ \A k \in tree.nodes : lo < k)
    BY DEF Accept
  <2>2. CASE prev = NULL
    <3>1. tree.nodes = {} /\ next = NULL /\ list' = lo
      BY <1>1, <1>7, <2>1, <2>2 DEF Nearest, Follower
    <3>2. Followers(range')[lo] = NULL /\ NULL \notin Key
      BY <1>3, <1>6, <3>1 DEF LinkedAfter, Followers
    <3> QED
      BY <1>8, <3>1, <3>2, FrontReach
  <2>3. CASE prev # NULL
    <3>1. prev \in tree.nodes /\ next = range[prev].next /\ list' = list
      BY <1>1, <1>7, <2>3 DEF Follower
    <3>2. Reached(Key, list, Followers(range), NULL) = tree.nodes
      BY <2>1 DEF RangeInv, OnList, Followers
    <3>3. PICK nodes : nodes = tree.nodes
      OBVIOUS
    <3>4. /\ Chained(nodes, list, range) /\ lo \notin nodes /\ prev \in nodes
          /\ Reached(Key, list, Followers(range), NULL) = nodes
      BY <1>2, <1>5, <3>1, <3>2, <3>3
    <3>5. PICK new : new = range'
      OBVIOUS
    <3>6. LinkedAfter(new, range, lo, hi, prev, next) /\ next = Followers(range)[prev]
      BY <1>2, <1>6, <3>1, <3>5 DEF Followers
    <3>7. Reached(Key, list, Followers(new), NULL) = nodes \cup {lo}
      BY <3>4, <3>6, LinkListed
    <3> QED
      BY <1>8, <3>1, <3>3, <3>5, <3>7
  <2> QED
    BY <2>2, <2>3
<1> QED
  BY <1>9, <1>16, <1>17, <1>18, <1>19 DEF RangeInv

LEMMA RejectInv ==
  ASSUME RangeInv, NEW lo, NEW hi, Reject(lo, hi), pass' = pass
  PROVE  RangeInv'
<1>1. tree' = tree /\ list' = list /\ range' = range /\ held' = held /\ cut' = cut
  BY DEF Reject, rangeVars
<1> QED
  BY <1>1 DEF RangeInv, TreeInv, OnList

\* The three ways of add_range.
LEMMA Adds ==
  ASSUME NEW lo, NEW hi, add_range(lo, hi)
  PROVE  /\ reported = {} /\ lo <= hi /\ pass' = pass
         /\ \/ Misplaced(lo, hi) /\ Reject(lo, hi)
            \/ \E prev, next :
                 /\ ~Misplaced(lo, hi)
                 /\ prev = tree_find_nearest(tree, lo) /\ Follower(range, prev, next)
                 /\ \/ Clash(lo, hi, prev, next) /\ Reject(lo, hi)
                    \/ ~Clash(lo, hi, prev, next) /\ Accept(lo, hi, prev, next)
<1>1. reported = {} /\ lo <= hi /\ pass' = pass
  BY DEF add_range
<1>2. CASE Misplaced(lo, hi)
  BY <1>1, <1>2 DEF add_range
<1>3. CASE ~Misplaced(lo, hi)
  <2>1. PICK prev \in {tree_find_nearest(tree, lo)} :
          \E next \in {IF prev = NULL THEN NULL ELSE range[prev].next} :
            IF Clash(lo, hi, prev, next) THEN Reject(lo, hi) ELSE Accept(lo, hi, prev, next)
    BY <1>3 DEF add_range
  <2>2. PICK next \in {IF prev = NULL THEN NULL ELSE range[prev].next} :
            IF Clash(lo, hi, prev, next) THEN Reject(lo, hi) ELSE Accept(lo, hi, prev, next)
    BY <2>1
  <2>3. prev = tree_find_nearest(tree, lo) /\ Follower(range, prev, next)
    BY DEF Follower
  <2>4. \/ Clash(lo, hi, prev, next) /\ Reject(lo, hi)
        \/ ~Clash(lo, hi, prev, next) /\ Accept(lo, hi, prev, next)
    BY <2>2
  <2> QED
    BY <1>1, <1>3, <2>3, <2>4
<1> QED
  BY <1>2, <1>3

LEMMA AddInv ==
  ASSUME RangeInv, NEW lo, NEW hi \in Nat, add_range(lo, hi)
  PROVE  RangeInv'
<1>1. lo <= hi /\ pass' = pass
  BY Adds
<1>2. CASE Reject(lo, hi)
  BY <1>1, <1>2, RejectInv
<1>3. CASE ~Reject(lo, hi)
  <2>1. PICK prev, next :
          /\ ~Misplaced(lo, hi)
          /\ prev = tree_find_nearest(tree, lo) /\ Follower(range, prev, next)
          /\ ~Clash(lo, hi, prev, next) /\ Accept(lo, hi, prev, next)
    BY <1>3, Adds
  <2>2. lo \in Key
    BY <2>1 DEF Misplaced
  <2> QED
    BY <1>1, <2>1, <2>2, AcceptInv
<1> QED
  BY <1>2, <1>3

\* remove_range frees the range that it finds.
LEMMA RemoveInv ==
  ASSUME RangeInv, NEW lo \in Key, NEW hi, remove_range(lo, hi)
  PROVE  RangeInv'
<1>1. PICK s : s = tree_remove(tree, lo).tree
  OBVIOUS
<1>2. PICK a : a = tree_remove(tree, lo).ret
  OBVIOUS
<1>3. PICK low, high : Bounded(tree, low, high)
  BY DEF RangeInv, TreeInv
<1>4. RemovedFrom(s, a, tree, lo)
  BY <1>1, <1>2, <1>3, RemoveKeeps DEF RangeInv, TreeInv
<1>5. /\ tree' = s /\ held' = held \ {<<lo, hi>>} /\ pass' = pass /\ <<lo, hi>> \in held
      /\ cut' = cut
      /\ IF a = NULL THEN UNCHANGED rangeVars ELSE Unlink(a)
  BY <1>1, <1>2 DEF remove_range
<1>6. TreeInv'
  BY <1>4, <1>5 DEF RemovedFrom, TreeInv
<1>7. /\ Chained(tree.nodes, list, range) /\ tree.nodes \subseteq Key
      /\ range \in [Key -> Extent] /\ \A k \in tree.nodes : tree.record[k] = k
      /\ DOMAIN tree.record = Key /\ lo # NULL
  BY <1>3, KeyAssumption DEF RangeInv, Chained, Bounded, Typed, NULL
<1>8. CASE lo \in tree.nodes
  <2>1. a = lo /\ s.nodes = tree.nodes \ {lo} /\ s.record = [tree.record EXCEPT ![lo] = NULL]
    BY <1>4, <1>7, <1>8 DEF RemovedFrom
  <2>2. Unlink(lo)
    BY <1>5, <1>7, <2>1
  <2>3. PICK prev : prev = range[lo].prev
    OBVIOUS
  <2>4. PICK next : next = range[lo].next
    OBVIOUS
  <2>5. prev \in NodeOrNull /\ next \in NodeOrNull
    <3>1. range[lo] \in Extent
      BY <1>7
    <3> QED
      BY <2>3, <2>4, <3>1 DEF Extent
  <2>6. list' = IF prev = NULL THEN next ELSE list
    BY <2>2, <2>3, <2>4 DEF Unlink
  <2>7. UnlinkedFrom(range', range, lo, prev, next)
    <3>1. range' = [k \in Key |->
                      IF k = lo THEN NoRange
                      ELSE [range[k] EXCEPT !.next = IF k = prev THEN next ELSE @,
                                            !.prev = IF k = next THEN prev ELSE @]]
      BY <2>2, <2>3, <2>4 DEF Unlink
    <3> QED
      BY <1>7, <2>5, <3>1, UnlinkFields
  <2>8. PICK after : after = tree.nodes \ {lo}
    OBVIOUS
  <2>9. /\ Chained(after, list', range')
        /\ Extents(after, range') = Extents(tree.nodes, range) \ {<<lo, range[lo].hi>>}
    <3>1. Chained(tree.nodes, list, range) /\ UnlinkedFrom(range', range, lo, prev, next)
      BY <1>7, <2>7
    <3>2. Parted(tree.nodes, range, lo, list', range')
      BY <1>8, <2>3, <2>4, <2>6, <3>1, UnlinkChains
    <3> QED
      BY <2>8, <3>2 DEF Parted
  <2>10. \A k \in after : s.record[k] = k
    BY <1>7, <2>1, <2>8
  <2>11. pass = 1 => range[lo].hi = hi
    <3>1. pass = 1 => <<lo, hi>> \in Extents(tree.nodes, range)
      BY <1>5 DEF RangeInv
    <3> QED
      BY <3>1 DEF Extents
  <2>12. pass' = 1 => Extents(after, range') = held'
    BY <1>5, <2>9, <2>11 DEF RangeInv
  <2>13. ~cut' => OnList' = after
    <3> SUFFICES ASSUME ~cut PROVE Reached(Key, list', Followers(range'), NULL) = after
      BY <1>5 DEF OnList, Followers
    <3>1. Reached(Key, list, Followers(range), NULL) = tree.nodes
      BY DEF RangeInv, OnList, Followers
    <3> QED
      BY <1>7, <1>8, <2>3, <2>4, <2>6, <2>7, <2>8, <3>1, UnlinkListed
  <2> QED
    BY <1>5, <1>6, <2>1, <2>8, <2>9, <2>10, <2>12, <2>13 DEF RangeInv
<1>9. CASE lo \notin tree.nodes
  <2>1. s = tree /\ a = NULL
    BY <1>4, <1>9 DEF RemovedFrom
  <2>2. tree' = tree /\ list' = list /\ range' = range
    BY <1>5, <2>1 DEF rangeVars
  <2>3. pass # 1
    <3> SUFFICES ASSUME pass = 1 PROVE FALSE
      OBVIOUS
    <3>1. <<lo, hi>> \in Extents(tree.nodes, range)
      BY <1>5 DEF RangeInv
    <3> QED
      BY <1>9, <3>1 DEF Extents
  <2> QED
    BY <1>5, <1>6, <2>2, <2>3 DEF RangeInv, OnList
<1> QED
  BY <1>8, <1>9

LEMMA NextRangeInv == RangeInv /\ [Next]_vars => RangeInv'
<1> SUFFICES ASSUME RangeInv, [Next]_vars PROVE RangeInv'
  OBVIOUS
<1>1. ASSUME NEW lo \in Key, NEW hi \in 1..Last, add_range(lo, hi) PROVE RangeInv'
  <2>1. hi \in Nat
    BY RangeAssumption
  <2> QED
    BY <1>1, <2>1, AddInv
<1>2. ASSUME NEW lo \in Key, NEW hi \in 1..Last, remove_range(lo, hi) PROVE RangeInv'
  BY <1>2, RemoveInv
<1>3. ASSUME NEW lo \in 1..(Last + 1), lo \notin Key, add_range(lo, lo) PROVE RangeInv'
  <2>1. lo \in Nat
    BY RangeAssumption
  <2> QED
    BY <1>3, <2>1, AddInv
<1>4. ASSUME NEW lo \in 1..(Last + 1), add_range(lo, Last + 1) PROVE RangeInv'
  <2>1. Last + 1 \in Nat
    BY RangeAssumption
  <2> QED
    BY <1>4, <2>1, AddInv
<1>5. CASE SecondPass
  BY <1>5 DEF SecondPass, RangeInv, TreeInv, rangeVars, OnList
<1>6. CASE UNCHANGED vars
  BY <1>6 DEF vars, rangeVars, RangeInv, TreeInv, OnList
<1> QED
  BY <1>1, <1>2, <1>3, <1>4, <1>5, <1>6 DEF Next

LEMMA RangeInvariant == Spec => []RangeInv
BY InitRangeInv, NextRangeInv, PTL DEF Spec

\* Through every add_range and remove_range, whatever the allocator returns, the
\* tree stays a search tree over the ranges, whose links undo each other and
\* ascend without overlap; a walk along the list comes to all of them unless one
\* was recorded below all the others; and in the first pass the ranges are the
\* payloads handed out (mdriver.c:660-762).
THEOREM RangesStayLinked == Spec => []RangesLinked
<1>1. RangeInv => RangesLinked
  <2> SUFFICES ASSUME RangeInv PROVE RangesLinked
    OBVIOUS
  <2>1. SearchTree
    BY BoundsOrder DEF RangeInv
  <2>2. \A k \in tree.nodes : Neighbours(tree.nodes, range, k) /\ tree.record[k] = k
    BY DEF RangeInv, Chained
  <2>3. list # NULL => list \in tree.nodes /\ range[list].prev = NULL
    BY DEF RangeInv, Chained
  <2>4. pass = 1 => {<<k, range[k].hi>> : k \in tree.nodes} = held
    BY DEF RangeInv, Extents
  <2>5. ~cut => OnList = tree.nodes
    BY DEF RangeInv
  <2> QED
    BY <2>1, <2>2, <2>3, <2>4, <2>5 DEF RangesLinked, Neighbours
<1> QED
  BY <1>1, RangeInvariant, PTL

-----------------------------------------------------------------------------
(* The range set: its verdicts                                             *)

\* A payload that is refused for a clash overlaps one of its neighbours.
LEMMA ClashOverlaps ==
  ASSUME RangeInv, NEW lo \in Key, NEW hi \in Nat, lo <= hi,
         NEW prev, prev = tree_find_nearest(tree, lo),
         NEW next, Follower(range, prev, next), Clash(lo, hi, prev, next)
  PROVE  \E k \in tree.nodes : Overlap(<<lo, hi>>, <<k, range[k].hi>>)
<1>1. /\ Nearest(tree.nodes, lo, prev)
      /\ prev # NULL => prev \in tree.nodes /\ prev <= range[prev].hi /\ range[prev].hi \in Nat
      /\ next # NULL => /\ next \in tree.nodes /\ next <= range[next].hi /\ lo < next
                        /\ range[next].hi \in Nat
  BY NeighboursOf
<1>2. tree.nodes \subseteq Key /\ \A k \in Key : k \in Int
  BY KeyAssumption DEF RangeInv, Chained
<1>3. CASE prev # NULL /\ lo <= range[prev].hi
  <2>1. prev <= hi
    BY <1>1, <1>2, <1>3 DEF Nearest
  <2> QED
    BY <1>1, <1>3, <2>1 DEF Overlap
<1>4. CASE next # NULL /\ hi >= next
  <2>1. next <= hi /\ lo <= range[next].hi
    BY <1>1, <1>2, <1>4
  <2> QED
    BY <1>1, <1>4, <2>1 DEF Overlap
<1> QED
  BY <1>3, <1>4 DEF Clash

LEMMA AddJudges ==
  ASSUME RangeInv, NEW lo, NEW hi \in Nat, add_range(lo, hi)
  PROVE  NoFalseAlarm'
<1>1. reported = {} /\ lo <= hi /\ pass' = pass
  BY Adds
<1>2. CASE Reject(lo, hi)
  <2>1. reported' = {<<lo, hi>>} /\ tree' = tree /\ range' = range /\ held' = held
    BY <1>2 DEF Reject, rangeVars
  <2>2. CASE Misplaced(lo, hi)
    <3>1. Misplaced(lo, hi)'
      BY <2>2 DEF Misplaced
    <3> QED
      BY <2>1, <3>1 DEF NoFalseAlarm
  <2>3. CASE ~Misplaced(lo, hi)
    <3>1. lo \in Key
      BY <2>3 DEF Misplaced
    <3>2. \E k \in tree.nodes : Overlap(<<lo, hi>>, <<k, range[k].hi>>)
      <4>1. CASE \E prev, next :
                   /\ prev = tree_find_nearest(tree, lo) /\ Follower(range, prev, next)
                   /\ Clash(lo, hi, prev, next)
        BY <1>1, <3>1, <4>1, ClashOverlaps
      <4>2. CASE \E prev, next : Accept(lo, hi, prev, next)
        <5>1. reported' = reported
          BY <4>2 DEF Accept
        <5> QED
          BY <1>1, <2>1, <5>1
      <4> QED
        BY <2>3, <4>1, <4>2, Adds
    <3>3. \A k \in tree.nodes : pass = 1 => <<k, range[k].hi>> \in held
      BY DEF RangeInv, Extents
    <3> QED
      BY <1>1, <2>1, <3>2, <3>3 DEF NoFalseAlarm, Overlap
  <2> QED
    BY <2>2, <2>3
<1>3. CASE ~Reject(lo, hi)
  <2>1. reported' = {}
    BY <1>1, <1>3, Adds DEF Accept
  <2> QED
    BY <2>1 DEF NoFalseAlarm
<1> QED
  BY <1>2, <1>3

LEMMA NextJudges == RangeInv /\ NoFalseAlarm /\ [Next]_vars => NoFalseAlarm'
<1> SUFFICES ASSUME RangeInv, NoFalseAlarm, [Next]_vars PROVE NoFalseAlarm'
  OBVIOUS
<1>1. ASSUME NEW lo, NEW hi \in Nat, add_range(lo, hi) PROVE NoFalseAlarm'
  BY <1>1, AddJudges
<1>2. ASSUME reported' = {} PROVE NoFalseAlarm'
  BY <1>2 DEF NoFalseAlarm
<1>3. ASSUME NEW lo, NEW hi, remove_range(lo, hi) PROVE NoFalseAlarm'
  BY <1>2, <1>3 DEF remove_range
<1>4. CASE SecondPass
  BY <1>2, <1>4 DEF SecondPass
<1>5. CASE UNCHANGED vars
  <2>1. tree' = tree /\ range' = range /\ held' = held /\ reported' = reported /\ pass' = pass
    BY <1>5 DEF vars, rangeVars
  <2> QED
    BY <2>1 DEF NoFalseAlarm, Misplaced, Overlap
<1>6. Last \in Nat
  BY RangeAssumption
<1>7. CASE \E lo \in Key, hi \in 1..Last : add_range(lo, hi) \/ remove_range(lo, hi)
  BY <1>1, <1>3, <1>6, <1>7
<1>8. CASE \E lo \in 1..(Last + 1) :
             (lo \notin Key /\ add_range(lo, lo)) \/ add_range(lo, Last + 1)
  BY <1>1, <1>6, <1>8
<1> QED
  BY <1>4, <1>5, <1>7, <1>8 DEF Next

\* An allocator is called wrong only with a reason: a payload reported is not
\* aligned, leaves the heap, or overlaps one that is recorded and, in the first
\* pass, allocated (mdriver.c:688-722).
THEOREM AlarmsAreTrue == Spec => []NoFalseAlarm
<1>1. Init => NoFalseAlarm
  BY DEF Init, NoFalseAlarm
<1> QED
  BY <1>1, NextJudges, RangeInvariant, PTL DEF Spec

\* A payload accepted does not start in one of disjoint payloads.
LEMMA AcceptsAbove ==
  ASSUME RangeInv, NEW lo \in Key, NEW hi \in Nat, lo <= hi,
         NEW prev, prev = tree_find_nearest(tree, lo),
         NEW next, ~Clash(lo, hi, prev, next), pass = 1, Disjoint(held), NEW q \in held
  PROVE  ~(q[1] <= lo /\ lo <= q[2])
<1>1. Nearest(tree.nodes, lo, prev)
  BY NearestIs
<1>2. /\ tree.nodes \subseteq Key /\ range \in [Key -> Extent]
      /\ \A k \in tree.nodes : Neighbours(tree.nodes, range, k)
      /\ \A k \in Key : k \in Int
  BY KeyAssumption DEF RangeInv, Chained
<1>3. \A k \in Key : range[k].hi \in Nat
  <2>1. \A k \in Key : range[k] \in Extent
    BY <1>2
  <2> QED
    BY <2>1 DEF Extent
<1>4. Extents(tree.nodes, range) = held
  BY DEF RangeInv
<1>5. PICK k \in tree.nodes : q = <<k, range[k].hi>>
  BY <1>4 DEF Extents
<1> SUFFICES ASSUME k <= lo, lo <= range[k].hi PROVE FALSE
  BY <1>5
<1>6. prev # NULL /\ prev \in tree.nodes /\ k <= prev /\ prev <= lo
  BY <1>1, <1>2, <1>5 DEF Nearest
<1>7. range[prev].hi < lo
  BY <1>2, <1>3, <1>6 DEF Clash
<1>8. k # prev
  BY <1>2, <1>3, <1>6, <1>7
<1>9. PICK w : w = <<prev, range[prev].hi>>
  OBVIOUS
<1>10. w \in held /\ w # q
  BY <1>4, <1>5, <1>6, <1>8, <1>9 DEF Extents
<1>11. ~Overlap(q, w)
  BY <1>10 DEF Disjoint
<1>12. prev <= range[prev].hi
  BY <1>2, <1>6 DEF Neighbours
<1> QED
  BY <1>2, <1>3, <1>5, <1>6, <1>9, <1>11, <1>12 DEF Overlap

\* A payload that starts inside one of so far disjoint payloads is never
\* accepted, wherever the search for the nearest key ends (mdriver.c:707-716).
THEOREM LowerOverlapsAreFound == Spec => LowerOverlapFound
<1>1. ASSUME RangeInv, [Next]_vars, pass' = 1, Disjoint(held),
             NEW p \in held' \ held, NEW q \in held
      PROVE  ~(q[1] <= p[1] /\ p[1] <= q[2])
  <2>1. ASSUME NEW lo, NEW hi \in Nat, add_range(lo, hi)
        PROVE  ~(q[1] <= p[1] /\ p[1] <= q[2])
    <3>1. lo <= hi /\ pass = 1
      BY <1>1, <2>1, Adds
    <3>2. ~Reject(lo, hi)
      BY <1>1 DEF Reject
    <3>3. PICK prev, next :
            /\ ~Misplaced(lo, hi)
            /\ prev = tree_find_nearest(tree, lo) /\ Follower(range, prev, next)
            /\ ~Clash(lo, hi, prev, next) /\ Accept(lo, hi, prev, next)
      BY <2>1, <3>2, Adds
    <3>4. lo \in Key /\ p = <<lo, hi>>
      BY <1>1, <3>3 DEF Misplaced, Accept
    <3>5. ~(q[1] <= lo /\ lo <= q[2])
      BY <1>1, <2>1, <3>1, <3>3, <3>4, AcceptsAbove
    <3> QED
      BY <3>4, <3>5
  <2>2. ASSUME NEW lo, NEW hi, remove_range(lo, hi) PROVE FALSE
    BY <1>1, <2>2 DEF remove_range
  <2>3. ASSUME SecondPass PROVE FALSE
    BY <1>1, <2>3 DEF SecondPass
  <2>4. ASSUME UNCHANGED vars PROVE FALSE
    BY <1>1, <2>4 DEF vars
  <2>5. Last \in Nat
    BY RangeAssumption
  <2>6. CASE \E lo \in Key, hi \in 1..Last : add_range(lo, hi) \/ remove_range(lo, hi)
    BY <2>1, <2>2, <2>5, <2>6
  <2>7. CASE \E lo \in 1..(Last + 1) :
               (lo \notin Key /\ add_range(lo, lo)) \/ add_range(lo, Last + 1)
    BY <2>1, <2>5, <2>7
  <2> QED
    BY <1>1, <2>3, <2>4, <2>6, <2>7 DEF Next
<1>2. RangeInv /\ [Next]_vars =>
        [pass' = 1 /\ Disjoint(held) =>
           \A p \in held' \ held, q \in held : ~(q[1] <= p[1] /\ p[1] <= q[2])]_vars
  BY <1>1
<1> QED
  BY <1>2, RangeInvariant, PTL DEF Spec, LowerOverlapFound

-----------------------------------------------------------------------------
(* Sums                                                                    *)

Summed(f) == FoldFunction(+, 0, f)

\* total[T] is the sum of f over T.
IsTotal(total, S, f) ==
  /\ total \in [SUBSET S -> Int]
  /\ total[{}] = 0
  /\ \A T \in SUBSET S : \A x \in T : total[T] = total[T \ {x}] + f[x]
  /\ Summed(f) = total[S]

LEMMA Totals ==
  ASSUME NEW S, IsFiniteSet(S), NEW f \in [S -> Int]
  PROVE  \E total : IsTotal(total, S, f)
<1> DEFINE First(s) == CHOOSE x \in s : TRUE
           AtMost(n) == {s \in SUBSET S : Cardinality(s) <= n}
           Iter(g, D) == g = [s \in D |-> IF s = {} THEN 0 ELSE f[First(s)] + g[s \ {First(s)}]]
           Has(n) == \E g : Iter(g, AtMost(n))
           Bad == {n \in Nat : ~Has(n)}
<1>1. \A s \in SUBSET S : IsFiniteSet(s) /\ Cardinality(s) \in Nat
  BY FS_Subset, FS_CardinalityType
<1>2. \A s : s # {} => First(s) \in s
  OBVIOUS
<1>3. ASSUME NEW s \in SUBSET S, NEW x \in s
      PROVE  s \ {x} \in SUBSET S /\ Cardinality(s \ {x}) = Cardinality(s) - 1
  BY <1>1, FS_RemoveElement
<1> HIDE DEF First, Has
<1>4. \A n \in Nat : Has(n)
  <2> SUFFICES ASSUME Bad # {} PROVE FALSE
    OBVIOUS
  <2>1. PICK n \in Bad : \A k \in Bad : n <= k
    <3>1. Bad \in SUBSET Nat
      OBVIOUS
    <3> HIDE DEF Bad
    <3> QED
      BY <3>1, LeastElement
  <2>2. CASE n = 0
    <3>1. AtMost(n) = {{}}
      BY <1>1, <2>2, FS_EmptySet
    <3>2. Iter([s \in {{}} |-> 0], {{}})
      OBVIOUS
    <3>3. Has(n)
      BY <3>1, <3>2 DEF Has
    <3> QED
      BY <2>1, <3>3
  <2>3. CASE n > 0
    <3>1. n - 1 \in Nat /\ n - 1 < n
      BY <2>1, <2>3
    <3>2. PICK g : Iter(g, AtMost(n - 1))
      <4>1. Has(n - 1)
        BY <2>1, <3>1
      <4> QED
        BY <4>1 DEF Has
    <3> DEFINE h == [s \in AtMost(n) |-> IF s = {} THEN 0 ELSE f[First(s)] + g[s \ {First(s)}]]
    <3>3. ASSUME NEW s \in AtMost(n), s # {} PROVE h[s \ {First(s)}] = g[s \ {First(s)}]
      <4> DEFINE r == s \ {First(s)}
      <4>1. r \in AtMost(n - 1) /\ r \in AtMost(n)
        BY <1>1, <1>2, <1>3, <2>1, <3>1, <3>3
      <4> HIDE DEF r
      <4>2. g[r] = IF r = {} THEN 0 ELSE f[First(r)] + g[r \ {First(r)}]
        BY <3>2, <4>1
      <4>3. h[r] = IF r = {} THEN 0 ELSE f[First(r)] + g[r \ {First(r)}]
        BY <4>1
      <4> QED
        BY <4>2, <4>3 DEF r
    <3>4. Iter(h, AtMost(n))
      BY <3>3
    <3>5. Has(n)
      <4> HIDE DEF h
      <4> QED
        BY <3>4 DEF Has
    <3> QED
      BY <2>1, <3>5
  <2> QED
    BY <2>1, <2>2, <2>3
<1>5. \E g : Iter(g, SUBSET S)
  <2>1. AtMost(Cardinality(S)) = SUBSET S /\ Cardinality(S) \in Nat
    BY <1>1, FS_Subset
  <2>2. Has(Cardinality(S))
    BY <1>4, <2>1
  <2> QED
    BY <2>1, <2>2 DEF Has
<1>6. Summed(f) = (CHOOSE g : Iter(g, SUBSET S))[S]
  BY DEF Summed, FoldFunction, FoldFunctionOnSet, MapThenFoldSet, First
<1>7. PICK g : Iter(g, SUBSET S) /\ Summed(f) = g[S]
  BY <1>5, <1>6
<1> DEFINE Good(T) == g[T] \in Int /\ \A x \in T : g[T] = g[T \ {x}] + f[x]
           Worst == {T \in SUBSET S : ~Good(T)}
<1>8. \A T \in SUBSET S : Good(T)
  <2> SUFFICES ASSUME Worst # {} PROVE FALSE
    OBVIOUS
  <2>1. PICK T \in Worst : \A U \in SUBSET T : U # T => U \notin Worst
    <3>1. Worst \in SUBSET (SUBSET S)
      OBVIOUS
    <3> HIDE DEF Worst
    <3> QED
      BY <3>1, SmallestSet
  <2>2. CASE T = {}
    BY <1>7, <2>1, <2>2
  <2>3. CASE T # {}
    <3> DEFINE c == First(T)
    <3>1. c \in T /\ f[c] \in Int
      BY <1>2, <2>1, <2>3
    <3>2. g[T] = f[c] + g[T \ {c}]
      BY <1>7, <2>1, <2>3
    <3>3. \A y \in T : Good(T \ {y})
      BY <2>1
    <3> HIDE DEF c, Good
    <3>4. g[T \ {c}] \in Int
      BY <3>1, <3>3 DEF Good
    <3>5. ASSUME NEW x \in T PROVE g[T] = g[T \ {x}] + f[x]
      <4>1. f[x] \in Int /\ g[T \ {x}] \in Int
        BY <2>1, <3>3 DEF Good
      <4>2. CASE x = c
        <5>1. f[c] + g[T \ {c}] = g[T \ {c}] + f[c]
          BY <3>1, <3>4
        <5>2. g[T] = g[T \ {c}] + f[c]
          BY <3>2, <5>1
        <5> QED
          BY <4>2, <5>2
      <4>3. CASE x # c
        <5>1. g[T \ {c}] = g[(T \ {c}) \ {x}] + f[x]
          BY <3>1, <3>3, <4>3 DEF Good
        <5>2. g[T \ {x}] = g[(T \ {x}) \ {c}] + f[c]
          BY <3>1, <3>3, <4>3 DEF Good
        <5>3. (T \ {c}) \ {x} = (T \ {x}) \ {c}
          OBVIOUS
        <5>4. g[(T \ {x}) \ {c}] \in Int
          <6>1. (T \ {x}) \ {c} \in SUBSET T /\ (T \ {x}) \ {c} # T
            OBVIOUS
          <6>2. Good((T \ {x}) \ {c})
            BY <2>1, <6>1
          <6> QED
            BY <6>2 DEF Good
        <5>5. g[T \ {c}] = g[(T \ {x}) \ {c}] + f[x]
          BY <5>1, <5>3
        <5>6. f[c] + (g[(T \ {x}) \ {c}] + f[x]) = (g[(T \ {x}) \ {c}] + f[c]) + f[x]
          BY <3>1, <4>1, <5>4
        <5> QED
          BY <3>2, <5>2, <5>5, <5>6
      <4> QED
        BY <4>2, <4>3
    <3>6. Good(T)
      BY <3>1, <3>2, <3>4, <3>5, SMTT(30) DEF Good
    <3> QED
      BY <2>1, <3>6
  <2> QED
    BY <2>2, <2>3
<1>9. g \in [SUBSET S -> Int]
  <2>1. g = [s \in SUBSET S |-> g[s]]
    BY <1>7
  <2> QED
    BY <1>8, <2>1
<1>10. g[{}] = 0
  BY <1>7
<1>11. IsTotal(g, S, f)
  BY <1>7, <1>8, <1>9, <1>10 DEF IsTotal
<1> QED
  BY <1>11

\* Two families of numbers that differ only at x.
LEMMA SumChanges ==
  ASSUME NEW S, IsFiniteSet(S), NEW f \in [S -> Int], NEW h \in [S -> Int], NEW x \in S,
         \A y \in S : y # x => f[y] = h[y]
  PROVE  Summed(f) \in Int /\ Summed(h) = Summed(f) + (h[x] - f[x])
<1>1. PICK p :
        /\ p \in [SUBSET S -> Int] /\ p[{}] = 0 /\ Summed(f) = p[S]
        /\ \A T \in SUBSET S : \A y \in T : p[T] = p[T \ {y}] + f[y]
  <2>1. PICK p : IsTotal(p, S, f)
    BY Totals
  <2> QED
    BY <2>1, ZenonT(40) DEF IsTotal
<1>2. PICK q :
        /\ q \in [SUBSET S -> Int] /\ q[{}] = 0 /\ Summed(h) = q[S]
        /\ \A T \in SUBSET S : \A y \in T : q[T] = q[T \ {y}] + h[y]
  <2>1. PICK q : IsTotal(q, S, h)
    BY Totals
  <2> QED
    BY <2>1, ZenonT(40) DEF IsTotal
<1> DEFINE Differ == {T \in SUBSET S : x \notin T /\ p[T] # q[T]}
<1>3. Differ = {}
  <2> SUFFICES ASSUME Differ # {} PROVE FALSE
    OBVIOUS
  <2>1. PICK T \in Differ : \A U \in SUBSET T : U # T => U \notin Differ
    <3>1. Differ \in SUBSET (SUBSET S)
      OBVIOUS
    <3> HIDE DEF Differ
    <3> QED
      BY <3>1, SmallestSet
  <2>2. PICK y \in T : TRUE
    BY <1>1, <1>2, <2>1
  <2>3. p[T \ {y}] = q[T \ {y}]
    BY <2>1
  <2>4. p[T] = p[T \ {y}] + f[y] /\ q[T] = q[T \ {y}] + h[y] /\ f[y] = h[y]
    BY <1>1, <1>2, <2>1
  <2> QED
    BY <2>1, <2>3, <2>4
<1>4. p[S \ {x}] = q[S \ {x}]
  BY <1>3
<1>5. p[S] = p[S \ {x}] + f[x] /\ q[S] = q[S \ {x}] + h[x]
  BY <1>1, <1>2
<1>6. p[S] \in Int /\ p[S \ {x}] \in Int /\ f[x] \in Int /\ h[x] \in Int
  BY <1>1
<1> QED
  BY <1>1, <1>2, <1>4, <1>5, <1>6

LEMMA SumOfNothing ==
  ASSUME NEW S, IsFiniteSet(S), NEW f \in [S -> Int], \A x \in S : f[x] = 0
  PROVE  Summed(f) = 0
<1>1. PICK p :
        /\ p \in [SUBSET S -> Int] /\ p[{}] = 0 /\ Summed(f) = p[S]
        /\ \A T \in SUBSET S : \A y \in T : p[T] = p[T \ {y}] + f[y]
  <2>1. PICK p : IsTotal(p, S, f)
    BY Totals
  <2> QED
    BY <2>1, ZenonT(40) DEF IsTotal
<1> DEFINE Other == {T \in SUBSET S : p[T] # 0}
<1>2. Other = {}
  <2> SUFFICES ASSUME Other # {} PROVE FALSE
    OBVIOUS
  <2>1. PICK T \in Other : \A U \in SUBSET T : U # T => U \notin Other
    <3>1. Other \in SUBSET (SUBSET S)
      OBVIOUS
    <3> HIDE DEF Other
    <3> QED
      BY <3>1, SmallestSet
  <2>2. PICK y \in T : TRUE
    BY <1>1, <2>1
  <2>3. p[T \ {y}] = 0 /\ p[T] = p[T \ {y}] + f[y] /\ f[y] = 0
    BY <1>1, <2>1
  <2> QED
    BY <2>1, <2>3
<1> QED
  BY <1>1, <1>2

-----------------------------------------------------------------------------
(* The inductive invariant                                                 *)

DriverTyped ==
  /\ mode \in {"cheap", "expensive", "util"} /\ live \subseteq Index
  /\ block_sizes \in [Index -> Nat] /\ block_rand_base \in [Index -> Base]
  /\ blocks = [x \in Index |-> blocks[x]] /\ spoiled = [x \in Index |-> spoiled[x]]
  /\ \A x \in Index : /\ DOMAIN blocks[x] = IF x \in live THEN 0..(block_sizes[x] - 1) ELSE {}
                      /\ spoiled[x] \subseteq DOMAIN blocks[x]

\* Between two operations the bytes that were changed, and no others, differ
\* from what was written.
Written(x) ==
  LET filled == Pattern(block_sizes[x], block_rand_base[x], fsize_end(block_sizes[x]))
  IN  \A k \in DOMAIN filled : k \in spoiled[x] <=> blocks[x][k] # filled[k]

Filled == mode # "util" /\ verdict = "ok" => \A x \in live : Written(x)

\* The links of the ranges are right, and until a payload was recorded below all
\* the others the walk along the list comes to all of them.
IndexOrNone == Index \cup {None}
RangeLinks == [list : IndexOrNone, prev : [Index -> IndexOrNone], next : [Index -> IndexOrNone]]
Threaded(nodes, r) == Strung(nodes, r.list, r.next, r.prev, None)
Ranged ==
  /\ ranges \in RangeLinks
  /\ mode # "util" => Threaded(live, ranges) /\ (~lowered => Walked = live)

Garbled == verdict = "garbled" => ~Intact
Excused(o, low) ==
  \/ o.at >= maxfill /\ (o.moved \/ o.at < o.size - maxfill)
  \/ o.cut /\ low
Unseen(over, low) == \A o \in over : Excused(o, low)
Totalled ==
  /\ total_size \in Int /\ max_total_size \in Int /\ max_total_size = max_heap_size
  /\ total_size = IF mode = "util" THEN Held(blocks) ELSE 0

Inv == DriverTyped /\ Filled /\ Ranged /\ Garbled /\ Unseen(overlooked, lowered) /\ Totalled

-----------------------------------------------------------------------------
(* The pattern of a payload                                                *)

LEMMA EndsOf ==
  ASSUME NEW n \in Nat
  PROVE  /\ fsize_end(n) \in 0..n
         /\ \A k \in 0..(n - 1) : k >= maxfill /\ k < n - fsize_end(n) => k < n - maxfill
BY TraceAssumption DEF fsize_end

LEMMA PatternOf ==
  ASSUME NEW n \in Nat, NEW base \in Base, NEW end \in 0..n
  PROVE  /\ DOMAIN Pattern(n, base, end) = {j \in 0..(n - 1) : j < maxfill \/ j >= n - end}
         /\ \A k \in 0..(n - 1) : k < maxfill =>
              Pattern(n, base, end)[k] = random_data(base + k) /\ random_data(base + k) # Junk
<1>1. \A k \in Nat : random_data(base + k) \in Nat
  <2> SUFFICES ASSUME NEW k \in Nat PROVE random_data(base + k) \in Nat
    OBVIOUS
  <2>1. base + k \in Nat /\ RANDOM_DATA_LEN \in Nat \ {0}
    BY TraceAssumption DEF Base
  <2> QED
    BY <2>1 DEF random_data
<1>2. 0..(n - 1) \subseteq Nat
  OBVIOUS
<1>3. ASSUME NEW k \in 0..(n - 1), k < maxfill
      PROVE  Pattern(n, base, end)[k] = random_data(base + k) /\ random_data(base + k) # Junk
  BY <1>1, <1>2, <1>3 DEF Pattern, Junk
<1> QED
  BY <1>3 DEF Pattern

\* What a payload looks like once both its ends are written.
LEMMA RandomizeWrites ==
  ASSUME NEW n, NEW base, NEW bytes, DOMAIN bytes = 0..(n - 1)
  PROVE  /\ DOMAIN randomize_block(bytes, n, base) = 0..(n - 1)
         /\ \A k \in DOMAIN Pattern(n, base, fsize_end(n)) :
              randomize_block(bytes, n, base)[k] = Pattern(n, base, fsize_end(n))[k]
BY DEF randomize_block, Pattern

-----------------------------------------------------------------------------
(* What the live payloads hold                                             *)

Size(b) == [x \in Index |-> Cardinality(DOMAIN b[x])]

LEMMA HeldIs == ASSUME NEW b PROVE Held(b) = Summed(Size(b))
BY DEF Held, Summed, Size

LEMMA SizeOf ==
  ASSUME NEW n \in Nat
  PROVE  Cardinality(0..(n - 1)) = n
BY FS_Interval

LEMMA HeldChanges ==
  ASSUME NEW x \in Index, NEW m \in Nat, NEW n \in Nat,
         NEW b, NEW c,
         \A y \in Index : \E k \in Nat : DOMAIN b[y] = 0..(k - 1),
         \A y \in Index : y # x => c[y] = b[y],
         DOMAIN b[x] = 0..(m - 1), DOMAIN c[x] = 0..(n - 1)
  PROVE  Held(b) \in Int /\ Held(c) = Held(b) + (n - m)
<1>1. IsFiniteSet(Index)
  BY TraceAssumption
<1>2. ASSUME NEW y \in Index PROVE Cardinality(DOMAIN b[y]) \in Int
  <2>1. PICK k \in Nat : DOMAIN b[y] = 0..(k - 1)
    OBVIOUS
  <2>2. Cardinality(0..(k - 1)) = k
    BY SizeOf
  <2> QED
    BY <2>1, <2>2
<1>3. Cardinality(DOMAIN b[x]) = m /\ Cardinality(DOMAIN c[x]) = n
  BY SizeOf
<1>4. \A y \in Index : Cardinality(DOMAIN c[y]) \in Int
  BY <1>2, <1>3
<1>5. Size(b) \in [Index -> Int] /\ Size(c) \in [Index -> Int]
  BY <1>2, <1>4 DEF Size
<1>6. \A y \in Index : y # x => Size(b)[y] = Size(c)[y]
  BY DEF Size
<1>7. Size(b)[x] = m /\ Size(c)[x] = n
  BY <1>3 DEF Size
<1>8. Summed(Size(b)) \in Int /\ Summed(Size(c)) = Summed(Size(b)) + (Size(c)[x] - Size(b)[x])
  BY <1>1, <1>5, <1>6, SumChanges
<1> QED
  BY <1>7, <1>8, HeldIs

LEMMA MaxOfTwo ==
  ASSUME NEW a \in Int, NEW b \in Int
  PROVE  Max({a, b}) \in Int
<1>1. PICK m \in {a, b} : \A y \in {a, b} : m >= y
  OBVIOUS
<1> QED
  BY <1>1 DEF Max

\* A step that changes the payload of x from m to n bytes counts right.
LEMMA CountsRight ==
  ASSUME DriverTyped, Totalled, NEW x \in Index, NEW m \in Nat, NEW n \in Nat,
         NEW more, more = n - m, Count(more), mode' = mode,
         \A y \in Index : y # x => blocks'[y] = blocks[y],
         DOMAIN blocks[x] = 0..(m - 1), DOMAIN blocks'[x] = 0..(n - 1)
  PROVE  Totalled'
<1>1. CASE mode # "util"
  BY <1>1 DEF Totalled, Count, utilVars
<1>2. CASE mode = "util"
  <2>1. \A y \in Index : \E k \in Nat : DOMAIN blocks[y] = 0..(k - 1)
    <3>1. 0..(0 - 1) = {}
      OBVIOUS
    <3> QED
      BY <3>1 DEF DriverTyped
  <2>2. Held(blocks) \in Int /\ Held(blocks') = Held(blocks) + (n - m)
    <3>1. PICK b : b = blocks
      OBVIOUS
    <3>2. PICK c : c = blocks'
      OBVIOUS
    <3>3. /\ \A y \in Index : \E k \in Nat : DOMAIN b[y] = 0..(k - 1)
          /\ \A y \in Index : y # x => c[y] = b[y]
          /\ DOMAIN b[x] = 0..(m - 1) /\ DOMAIN c[x] = 0..(n - 1)
      BY <2>1, <3>1, <3>2
    <3> QED
      BY <3>1, <3>2, <3>3, HeldChanges
  <2>3. /\ total_size' = total_size + more /\ total_size = Held(blocks)
        /\ max_total_size' = Max({max_total_size, total_size'})
        /\ max_heap_size' = Max({max_heap_size, Held(blocks')})
        /\ max_total_size \in Int /\ max_total_size = max_heap_size
    BY <1>2 DEF Count, Totalled
  <2>4. total_size' = Held(blocks') /\ total_size' \in Int
    BY <2>2, <2>3
  <2>5. max_total_size' \in Int /\ max_total_size' = max_heap_size'
    BY <2>3, <2>4, MaxOfTwo
  <2> QED
    BY <1>2, <2>4, <2>5 DEF Totalled
<1> QED
  BY <1>1, <1>2

-----------------------------------------------------------------------------
(* Every step preserves it                                                 *)

LEMMA InitInv == ASSUME DriverInit PROVE Inv
<1>1. DriverTyped
  <2>1. 0 \in Base
    BY TraceAssumption DEF Base
  <2> QED
    BY <2>1 DEF DriverInit, DriverTyped, Nowhere
<1>2. Held(blocks) = 0
  <2>1. \A x \in Index : Cardinality(DOMAIN blocks[x]) = 0
    BY FS_EmptySet DEF DriverInit, Nowhere
  <2>2. Size(blocks) \in [Index -> Int] /\ \A x \in Index : Size(blocks)[x] = 0
    BY <2>1 DEF Size
  <2> QED
    BY <2>2, SumOfNothing, HeldIs, TraceAssumption
<1>3. /\ live = {} /\ lowered = FALSE
      /\ ranges = [list |-> None, prev |-> [x \in Index |-> None], next |-> [x \in Index |-> None]]
  BY DEF DriverInit
<1>4. Ranged
  <2>1. ranges \in RangeLinks
    BY <1>3 DEF IndexOrNone, RangeLinks
  <2>2. Threaded(live, ranges)
    BY <1>3 DEF Threaded, Strung
  <2>3. PICK none \in SUBSET Index : none = {}
    OBVIOUS
  <2>4. Walked \subseteq none
    <3>1. Closed(none, ranges.list, ranges.next, None)
      BY <1>3, <2>3 DEF Closed
    <3> QED
      BY <3>1, ReachedIn DEF Walked
  <2> QED
    BY <1>3, <2>1, <2>2, <2>3, <2>4 DEF Ranged
<1> QED
  BY <1>1, <1>2, <1>4 DEF Inv, DriverInit, Filled, Garbled, Unseen, Totalled

\* Nothing the invariant is about changes but what was said and seen.
LEMMA OnlyTalk ==
  ASSUME Inv, UNCHANGED <<mode, traceVars, utilVars, spoiled>>, verdict' # "ok",
         verdict' = "garbled" => ~Intact, Unseen(overlooked', lowered')
  PROVE  Inv'
<1>1. DriverTyped'
  BY DEF Inv, DriverTyped, traceVars
<1>2. Filled'
  BY DEF Filled
<1>3. Garbled'
  BY DEF Garbled, Intact
<1>4. Totalled'
  BY DEF Inv, Totalled, traceVars, utilVars
<1>5. Ranged'
  BY DEF Inv, Ranged, Walked, traceVars
<1> QED
  BY <1>1, <1>2, <1>3, <1>4, <1>5 DEF Inv, Unseen

\* Only payloads are checked, and all that are due until a range was cut off.
LEMMA ChecksAre ==
  ASSUME Inv, NEW x
  PROVE  /\ \A y \in Checked(x) : y \in live /\ mode # "util" /\ y \in Index
         /\ \A y \in Due(x) : y \in live /\ mode # "util" /\ y \in Index
         /\ ~lowered => Due(x) \subseteq Checked(x)
<1>1. DriverTyped /\ Ranged
  BY DEF Inv
<1>2. mode # "util" => Walked \subseteq live
  <2> SUFFICES ASSUME mode # "util" PROVE Walked \subseteq live
    OBVIOUS
  <2>1. live \in SUBSET Index
    BY <1>1 DEF DriverTyped
  <2>2. Closed(live, ranges.list, ranges.next, None)
    BY <1>1 DEF Ranged, Threaded, Strung, Closed
  <2> QED
    BY <2>1, <2>2, ReachedIn DEF Walked
<1> QED
  BY <1>1, <1>2 DEF Checked, Due, DriverTyped, Ranged

\* A check that fails has met a byte that was changed.
LEMMA FailsRightly ==
  ASSUME Inv, verdict = "ok", NEW x, NEW y \in Checked(x), ~Passes(y)
  PROVE  ~Intact
<1>1. y \in live /\ mode # "util" /\ y \in Index
  BY ChecksAre
<1>2. Written(y)
  BY <1>1 DEF Inv, Filled
<1>3. \E k : k \in spoiled[y]
  BY <1>2 DEF Written, Passes, check_index
<1> QED
  BY <1>1, <1>3 DEF Intact

LEMMA ComplainInv ==
  ASSUME Inv, verdict = "ok", NEW x, Complain(x), UNCHANGED mode
  PROVE  Inv'
<1>1. ~Intact
  BY FailsRightly DEF Complain
<1>2. Unseen(overlooked', lowered')
  BY DEF Complain, Unseen
<1> QED
  BY <1>1, <1>2, OnlyTalk DEF Complain, Inv

\* What a check that succeeds goes past.
LEMMA PassesRightly ==
  ASSUME Inv, verdict = "ok", NEW x, NEW y \in Checked(x), NEW k \in spoiled[y], Passes(y)
  PROVE  k >= maxfill /\ k < block_sizes[y] - maxfill
<1>1. y \in live /\ mode # "util" /\ y \in Index
  BY ChecksAre
<1>2. Written(y) /\ Passes(y)
  BY <1>1 DEF Inv, Filled
<1> DEFINE n == block_sizes[y]
           base == block_rand_base[y]
<1>3. n \in Nat /\ base \in Base /\ fsize_end(n) \in 0..n
  BY <1>1, EndsOf DEF Inv, DriverTyped
<1>4. k \in 0..(n - 1)
  BY <1>1 DEF Inv, DriverTyped
<1>5. k \notin DOMAIN Pattern(n, base, fsize_end(n))
  BY <1>2 DEF Written, Passes, check_index
<1>6. ~(k < maxfill \/ k >= n - fsize_end(n))
  <2>1. DOMAIN Pattern(n, base, fsize_end(n)) =
          {j \in 0..(n - 1) : j < maxfill \/ j >= n - fsize_end(n)}
    BY <1>3, PatternOf
  <2> HIDE DEF n, base
  <2> QED
    BY <1>4, <1>5, <2>1
<1>7. maxfill \in Nat /\ fsize_end(n) \in Nat /\ k \in Nat
  BY <1>3, <1>4, TraceAssumption
<1>8. k >= maxfill /\ k < n - fsize_end(n)
  <2> HIDE DEF n
  <2> QED
    BY <1>3, <1>6, <1>7
<1> QED
  BY <1>3, <1>4, <1>8, EndsOf

\* So that is excused which the checks do not look at, and that which they do
\* not come to.
LEMMA OverlooksRightly ==
  ASSUME Inv, verdict = "ok", NEW x, \A y \in Checked(x) : Passes(y), NEW low, lowered => low
  PROVE  Unseen(Overlooked(x), low)
<1> SUFFICES ASSUME NEW y \in Due(x), NEW k \in spoiled[y]
             PROVE  \/ k >= maxfill /\ k < block_sizes[y] - maxfill
                    \/ y \notin Checked(x) /\ low
  <2>1. ASSUME NEW y \in Due(x), NEW k \in spoiled[y], NEW o,
               o = [at |-> k, size |-> block_sizes[y], moved |-> FALSE, cut |-> y \notin Checked(x)]
        PROVE  Excused(o, low)
    <3>1. o.at = k /\ o.size = block_sizes[y] /\ (y \notin Checked(x) => o.cut)
      BY <2>1, Zenon
    <3> QED
      BY <3>1 DEF Excused
  <2> QED
    BY <2>1 DEF Unseen, Overlooked
<1>1. CASE y \in Checked(x)
  BY <1>1, PassesRightly
<1>2. CASE y \notin Checked(x)
  BY <1>2, ChecksAre
<1> QED
  BY <1>1, <1>2

-----------------------------------------------------------------------------
(* The ranges of the payloads                                              *)

LEMMA NoneIsNoIndex == Index \subseteq Nat /\ None \notin Index
BY TraceAssumption DEF None

LEMMA RangeAddedIs ==
  ASSUME NEW r, NEW x, NEW prev, NEW next, next = IF prev = None THEN None ELSE r.next[prev]
  PROVE  RangeAdded(r, x, prev) =
           [list |-> IF prev = None THEN x ELSE r.list,
            prev |-> [y \in Index |-> IF y = x THEN prev ELSE IF y = next THEN x ELSE r.prev[y]],
            next |-> [y \in Index |-> IF y = x THEN next ELSE IF y = prev THEN x ELSE r.next[y]]]
BY DEF RangeAdded

\* The range of x is linked behind prev, or becomes the list.
LEMMA LinkThreads ==
  ASSUME NEW nodes \in SUBSET Index, NEW r, Threaded(nodes, r),
         r \in RangeLinks,
         NEW x \in Index, x \notin nodes, NEW prev \in nodes \cup {None},
         NEW s, s = RangeAdded(r, x, prev), NEW after, after = nodes \cup {x}
  PROVE  /\ s \in RangeLinks
         /\ Threaded(after, s)
         /\ Reached(Index, r.list, r.next, None) = nodes /\ (prev = None => nodes = {}) =>
              Reached(Index, s.list, s.next, None) = after
<1>1. None \notin Index
  BY NoneIsNoIndex
<1>2. PICK next : next = IF prev = None THEN None ELSE r.next[prev]
  OBVIOUS
<1>3. /\ s.list = IF prev = None THEN x ELSE r.list
      /\ s.prev = [y \in Index |-> IF y = x THEN prev ELSE IF y = next THEN x ELSE r.prev[y]]
      /\ s.next = [y \in Index |-> IF y = x THEN next ELSE IF y = prev THEN x ELSE r.next[y]]
      /\ s = [list |-> s.list, prev |-> s.prev, next |-> s.next]
  <2>1. s = [list |-> IF prev = None THEN x ELSE r.list,
             prev |-> [y \in Index |-> IF y = x THEN prev ELSE IF y = next THEN x ELSE r.prev[y]],
             next |-> [y \in Index |-> IF y = x THEN next ELSE IF y = prev THEN x ELSE r.next[y]]]
    BY <1>2, RangeAddedIs
  <2> QED
    BY <2>1
<1>4. /\ r.list # None => r.list \in nodes /\ r.prev[r.list] = None
      /\ \A k \in nodes :
           /\ r.next[k] # None => r.next[k] \in nodes /\ r.prev[r.next[k]] = k
           /\ r.prev[k] # None => r.prev[k] \in nodes /\ r.next[r.prev[k]] = k
  BY DEF Threaded, Strung
<1>5. next # None => prev \in nodes /\ next \in nodes /\ r.next[prev] = next /\ r.prev[next] = prev
  BY <1>1, <1>2, <1>4
<1>6. s \in RangeLinks
  <2>1. r.list \in IndexOrNone /\ r.prev \in [Index -> IndexOrNone] /\ r.next \in [Index -> IndexOrNone]
    BY DEF RangeLinks
  <2>2. x \in IndexOrNone /\ prev \in IndexOrNone /\ next \in IndexOrNone
    BY <1>5 DEF IndexOrNone
  <2>3. s.list \in IndexOrNone /\ s.prev \in [Index -> IndexOrNone] /\ s.next \in [Index -> IndexOrNone]
    BY <1>3, <2>1, <2>2
  <2> QED
    BY <1>3, <2>3 DEF RangeLinks
<1>7. Threaded(after, s)
  <2>1. s.list # None => s.list \in after /\ s.prev[s.list] = None
    BY <1>1, <1>3, <1>4, <1>5
  <2>2. ASSUME NEW k \in after, s.next[k] # None
        PROVE  s.next[k] \in after /\ s.prev[s.next[k]] = k
    BY <1>1, <1>3, <1>4, <1>5, <2>2
  <2>3. ASSUME NEW k \in after, s.prev[k] # None
        PROVE  s.prev[k] \in after /\ s.next[s.prev[k]] = k
    <3>1. prev = None \/ (prev \in nodes /\ r.next[prev] = next)
      BY <1>2
    <3>2. CASE k = x
      BY <1>1, <1>3, <2>3, <3>1, <3>2
    <3>3. CASE k # x /\ k = next
      BY <1>3, <3>3
    <3>4. CASE k # x /\ k # next
      <4>1. k \in nodes /\ s.prev[k] = r.prev[k]
        BY <1>3, <3>4
      <4>2. s.prev[k] \in nodes /\ r.next[s.prev[k]] = k
        BY <1>4, <2>3, <4>1
      <4>3. s.prev[k] # prev
        BY <1>1, <3>1, <3>4, <4>2
      <4> QED
        BY <1>3, <4>2, <4>3
    <3> QED
      BY <3>2, <3>3, <3>4
  <2> QED
    BY <2>1, <2>2, <2>3 DEF Threaded, Strung
<1>8. ASSUME Reached(Index, r.list, r.next, None) = nodes, prev = None => nodes = {}
      PROVE  Reached(Index, s.list, s.next, None) = after
  <2>1. CASE prev = None
    <3>1. s.list = x /\ s.next[x] = None /\ after = {x}
      BY <1>2, <1>3, <1>8, <2>1
    <3> QED
      BY <1>1, <3>1, FrontReach
  <2>2. CASE prev # None
    <3>1. PICK f : f = s.list
      OBVIOUS
    <3>2. PICK old : old = r.next
      OBVIOUS
    <3>3. PICK new : new = s.next
      OBVIOUS
    <3>4. PICK back : back = r.prev
      OBVIOUS
    <3>5. f = r.list /\ prev \in nodes /\ Strung(nodes, f, old, back, None)
      BY <1>3, <2>2, <3>1, <3>2, <3>4 DEF Threaded
    <3>6. new[prev] = x /\ new[x] = old[prev] /\ \A j \in nodes \ {prev} : new[j] = old[j]
      BY <1>2, <1>3, <2>2, <3>2, <3>3, <3>5
    <3>7. Reached(Index, f, new, None) = nodes \cup {x}
      BY <1>1, <1>8, <3>2, <3>5, <3>6, LinkReach
    <3> QED
      BY <3>1, <3>3, <3>7
  <2> QED
    BY <2>1, <2>2
<1> QED
  BY <1>6, <1>7, <1>8

\* The range of x is taken out.
LEMMA UnlinkThreads ==
  ASSUME NEW nodes \in SUBSET Index, NEW r, Threaded(nodes, r),
         r \in RangeLinks,
         NEW x \in nodes, NEW s, s = RangeRemoved(r, x), NEW after, after = nodes \ {x}
  PROVE  /\ s \in RangeLinks
         /\ Threaded(after, s)
         /\ Reached(Index, r.list, r.next, None) = nodes =>
              Reached(Index, s.list, s.next, None) = after
<1>1. None \notin Index
  BY NoneIsNoIndex
<1>2. PICK prev : prev = r.prev[x]
  OBVIOUS
<1>3. PICK next : next = r.next[x]
  OBVIOUS
<1>4. /\ s.list = IF prev = None THEN next ELSE r.list
      /\ s.prev = [y \in Index |-> IF y = x THEN None ELSE IF y = next THEN prev ELSE r.prev[y]]
      /\ s.next = [y \in Index |-> IF y = x THEN None ELSE IF y = prev THEN next ELSE r.next[y]]
      /\ s = [list |-> s.list, prev |-> s.prev, next |-> s.next]
  BY <1>2, <1>3 DEF RangeRemoved
<1>5. /\ r.list # None => r.list \in nodes /\ r.prev[r.list] = None
      /\ \A k \in nodes :
           /\ r.next[k] # None => r.next[k] \in nodes /\ r.prev[r.next[k]] = k
           /\ r.prev[k] # None => r.prev[k] \in nodes /\ r.next[r.prev[k]] = k
  BY DEF Threaded, Strung
<1>6. s \in RangeLinks
  <2>1. r.list \in IndexOrNone /\ r.prev \in [Index -> IndexOrNone] /\ r.next \in [Index -> IndexOrNone]
    BY DEF RangeLinks
  <2>2. prev \in IndexOrNone /\ next \in IndexOrNone /\ None \in IndexOrNone
    BY <1>2, <1>3, <2>1 DEF IndexOrNone
  <2>3. s.list \in IndexOrNone /\ s.prev \in [Index -> IndexOrNone] /\ s.next \in [Index -> IndexOrNone]
    BY <1>4, <2>1, <2>2
  <2> QED
    BY <1>4, <2>3 DEF RangeLinks
<1>7. Threaded(after, s)
  <2>1. s.list # None => s.list \in after /\ s.prev[s.list] = None
    BY <1>1, <1>2, <1>3, <1>4, <1>5
  <2>2. ASSUME NEW k \in after, s.next[k] # None
        PROVE  s.next[k] \in after /\ s.prev[s.next[k]] = k
    BY <1>1, <1>2, <1>3, <1>4, <1>5, <2>2
  <2>3. ASSUME NEW k \in after, s.prev[k] # None
        PROVE  s.prev[k] \in after /\ s.next[s.prev[k]] = k
    BY <1>1, <1>2, <1>3, <1>4, <1>5, <2>3
  <2> QED
    BY <2>1, <2>2, <2>3 DEF Threaded, Strung
<1>8. ASSUME Reached(Index, r.list, r.next, None) = nodes
      PROVE  Reached(Index, s.list, s.next, None) = after
  <2>1. PICK first : first = r.list
    OBVIOUS
  <2>2. PICK old : old = r.next
    OBVIOUS
  <2>3. PICK back : back = r.prev
    OBVIOUS
  <2>4. PICK new : new = s.next
    OBVIOUS
  <2>5. PICK front : front = s.list
    OBVIOUS
  <2>6. Strung(nodes, first, old, back, None) /\ Reached(Index, first, old, None) = nodes
    BY <1>8, <2>1, <2>2, <2>3 DEF Threaded
  <2>7. prev = back[x] /\ next = old[x] /\ front = IF prev = None THEN next ELSE first
    BY <1>2, <1>3, <1>4, <2>1, <2>2, <2>3, <2>5
  <2>8. \A j \in nodes \ {x} : new[j] = IF j = prev THEN next ELSE old[j]
    BY <1>2, <1>3, <1>4, <2>2, <2>4
  <2>9. Reached(Index, front, new, None) = nodes \ {x}
    BY <1>1, <2>6, <2>7, <2>8, UnlinkReach
  <2> QED
    BY <2>4, <2>5, <2>9
<1> QED
  BY <1>6, <1>7, <1>8

\* What is added and removed keeps the ranges those of the payloads.
LEMMA RangesKeep ==
  ASSUME DriverTyped, Ranged, NEW x \in Index, NEW n, Ranges(x, n), mode' = mode,
         live' = IF n = 0 THEN live \ {x} ELSE live \cup {x}
  PROVE  Ranged' /\ (lowered => lowered')
<1>1. CASE mode = "util"
  BY <1>1 DEF Ranges, Ranged
<1>2. CASE mode # "util"
  <2>1. PICK r : /\ r = IF x \in live THEN RangeRemoved(ranges, x) ELSE ranges
                 /\ IF n = 0 THEN ranges' = r /\ UNCHANGED lowered
                    ELSE \E prev \in (live \ {x}) \cup {None} :
                           /\ ranges' = RangeAdded(r, x, prev)
                           /\ lowered' = (lowered \/ (prev = None /\ live \ {x} # {}))
    BY <1>2 DEF Ranges
  <2>2. PICK rest : rest = live \ {x}
    OBVIOUS
  <2>3. /\ r \in RangeLinks
        /\ Threaded(rest, r) /\ live \in SUBSET Index
        /\ ~lowered => Reached(Index, r.list, r.next, None) = rest
    <3>1. /\ ranges \in RangeLinks
          /\ Threaded(live, ranges) /\ live \in SUBSET Index
          /\ ~lowered => Reached(Index, ranges.list, ranges.next, None) = live
      BY <1>2 DEF Ranged, DriverTyped, Walked
    <3>2. CASE x \in live
      BY <2>1, <2>2, <3>1, <3>2, UnlinkThreads
    <3>3. CASE x \notin live
      BY <2>1, <2>2, <3>1, <3>3
    <3> QED
      BY <3>2, <3>3
  <2>4. CASE n = 0
    <3>1. ranges' = r /\ lowered' = lowered /\ live' = rest
      BY <2>1, <2>2, <2>4
    <3>2. ~lowered' => Walked' = live'
      BY <2>3, <3>1 DEF Walked
    <3> QED
      BY <1>2, <2>3, <3>1, <3>2 DEF Ranged, Threaded
  <2>5. CASE n # 0
    <3>1. PICK prev \in rest \cup {None} :
            /\ ranges' = RangeAdded(r, x, prev)
            /\ lowered' = (lowered \/ (prev = None /\ rest # {}))
      BY <2>1, <2>2, <2>5
    <3>2. rest \in SUBSET Index /\ x \notin rest /\ live' = rest \cup {x}
      BY <2>2, <2>3, <2>5
    <3>3. PICK s : s = ranges'
      OBVIOUS
    <3>4. PICK after : after = rest \cup {x}
      OBVIOUS
    <3>5. /\ s \in RangeLinks /\ Threaded(after, s)
          /\ Reached(Index, r.list, r.next, None) = rest /\ (prev = None => rest = {}) =>
               Reached(Index, s.list, s.next, None) = after
      <4>1. s = RangeAdded(r, x, prev)
        BY <3>1, <3>3
      <4>2. r \in RangeLinks /\ Threaded(rest, r) /\ rest \in SUBSET Index /\ x \notin rest
        BY <2>3, <3>2
      <4> QED
        BY <3>4, <4>1, <4>2, LinkThreads
    <3>6. ~lowered' => Walked' = live'
      BY <2>3, <3>1, <3>2, <3>3, <3>4, <3>5 DEF Walked
    <3> QED
      BY <1>2, <3>1, <3>2, <3>3, <3>4, <3>5, <3>6 DEF Ranged, Threaded
  <2> QED
    BY <2>4, <2>5
<1> QED
  BY <1>1, <1>2

\* A payload that is returned has its two ends written.
LEMMA StoreKeeps ==
  ASSUME Inv, NEW x \in Index, NEW n \in Nat, NEW base \in Base, NEW bytes,
         DOMAIN bytes = 0..(n - 1), Store(x, bytes, n, base),
         live' = IF n = 0 THEN live \ {x} ELSE live \cup {x},
         mode' = mode, verdict' = verdict, verdict = "ok"
  PROVE  /\ DriverTyped' /\ Filled'
         /\ \A y \in Index : y # x => blocks'[y] = blocks[y]
         /\ DOMAIN blocks'[x] = 0..(n - 1)
<1> DEFINE new == IF mode = "util" THEN bytes ELSE randomize_block(bytes, n, base)
<1>1. DOMAIN new = 0..(n - 1)
  BY RandomizeWrites
<1>2. /\ blocks' = [blocks EXCEPT ![x] = new]
      /\ block_sizes' = [block_sizes EXCEPT ![x] = n]
      /\ mode # "util" => block_rand_base' = [block_rand_base EXCEPT ![x] = base]
      /\ mode = "util" => block_rand_base' = block_rand_base
      /\ spoiled' = [spoiled EXCEPT ![x] = {}]
  BY DEF Store
<1>3. DriverTyped
  BY DEF Inv
<1> HIDE DEF new
<1>4. /\ blocks'[x] = new /\ block_sizes'[x] = n /\ spoiled'[x] = {}
      /\ mode # "util" => block_rand_base'[x] = base
  BY <1>2, <1>3 DEF DriverTyped
<1>5. ASSUME NEW y \in Index, y # x
      PROVE  /\ blocks'[y] = blocks[y] /\ block_sizes'[y] = block_sizes[y]
             /\ spoiled'[y] = spoiled[y] /\ block_rand_base'[y] = block_rand_base[y]
             /\ y \in live' <=> y \in live
  BY <1>2, <1>3, <1>5 DEF DriverTyped
<1>6. ASSUME NEW y \in Index
      PROVE  /\ DOMAIN blocks'[y] = IF y \in live' THEN 0..(block_sizes'[y] - 1) ELSE {}
             /\ spoiled'[y] \subseteq DOMAIN blocks'[y]
  <2>1. CASE y # x
    BY <1>3, <1>5, <2>1 DEF DriverTyped
  <2>2. CASE y = x
    <3>1. 0..(0 - 1) = {}
      OBVIOUS
    <3>2. x \in live' <=> n # 0
      OBVIOUS
    <3> QED
      BY <1>1, <1>4, <2>2, <3>1, <3>2
  <2> QED
    BY <2>1, <2>2
<1>7. DriverTyped'
  <2>1. block_sizes' \in [Index -> Nat] /\ block_rand_base' \in [Index -> Base]
    BY <1>2, <1>3 DEF DriverTyped
  <2>2. /\ blocks' = [y \in Index |-> blocks'[y]]
        /\ spoiled' = [y \in Index |-> spoiled'[y]]
    BY <1>2, <1>3 DEF DriverTyped
  <2>3. live' \subseteq Index
    BY <1>3 DEF DriverTyped
  <2> QED
    BY <1>3, <1>6, <2>1, <2>2, <2>3 DEF DriverTyped
<1>8. Filled'
  <2> SUFFICES ASSUME mode # "util", NEW y \in live' PROVE Written(y)'
    BY DEF Filled
  <2>1. y \in Index
    BY <1>7 DEF DriverTyped
  <2>2. CASE y # x
    <3>1. Written(y)
      BY <1>5, <2>1, <2>2 DEF Inv, Filled
    <3> QED
      BY <1>5, <2>1, <2>2, <3>1 DEF Written
  <2>3. CASE y = x
    <3>1. new = randomize_block(bytes, n, base)
      BY DEF new
    <3>2. \A k \in DOMAIN Pattern(n, base, fsize_end(n)) :
            new[k] = Pattern(n, base, fsize_end(n))[k]
      BY <3>1, RandomizeWrites
    <3> QED
      BY <1>4, <2>3, <3>2 DEF Written
  <2> QED
    BY <2>2, <2>3
<1> QED
  BY <1>1, <1>4, <1>5, <1>7, <1>8

LEMMA AllocInv ==
  ASSUME Inv, NEW x \in Index, NEW n \in Request, NEW base \in Base,
         Alloc(x, n, base)
  PROVE  Inv'
<1>1. CASE Complain(x)
  BY <1>1, ComplainInv DEF Alloc
<1>2. CASE /\ \A y \in Checked(x) : Passes(y)
           /\ overlooked' = Overlooked(x)
           /\ verdict' = "failed"
           /\ UNCHANGED <<traceVars, utilVars, spoiled>>
  <2>1. Unseen(overlooked', lowered')
    BY <1>2, OverlooksRightly DEF Alloc, traceVars
  <2> QED
    BY <1>2, <2>1, OnlyTalk DEF Alloc
<1>3. CASE /\ \A y \in Checked(x) : Passes(y)
           /\ overlooked' = Overlooked(x)
           /\ Store(x, Fresh(n), n, base)
           /\ live' = live \cup {x}
           /\ Ranges(x, n)
           /\ Count(n)
           /\ UNCHANGED verdict
  <2>1. n \in Nat /\ n # 0
    BY TraceAssumption
  <2>2. DOMAIN Fresh(n) = 0..(n - 1)
    BY DEF Fresh
  <2>3. live' = IF n = 0 THEN live \ {x} ELSE live \cup {x}
    BY <1>3, <2>1
  <2>4. mode' = mode /\ verdict = "ok" /\ x \notin live
    BY DEF Alloc
  <2>5. /\ DriverTyped' /\ Filled'
        /\ \A y \in Index : y # x => blocks'[y] = blocks[y]
        /\ DOMAIN blocks'[x] = 0..(n - 1)
    BY <1>3, <2>1, <2>2, <2>3, <2>4, StoreKeeps
  <2>6. DriverTyped /\ Ranged /\ Totalled
    BY DEF Inv
  <2>7. Ranged' /\ (lowered => lowered')
    BY <1>3, <2>3, <2>4, <2>6, RangesKeep
  <2>8. Unseen(overlooked', lowered')
    BY <1>3, <2>4, <2>7, OverlooksRightly
  <2>9. DOMAIN blocks[x] = 0..(0 - 1)
    <3>1. 0..(0 - 1) = {}
      OBVIOUS
    <3> QED
      BY <2>4, <3>1 DEF Inv, DriverTyped
  <2>10. n = n - 0
    BY <2>1
  <2>11. Totalled'
    BY <1>3, <2>1, <2>4, <2>5, <2>9, <2>10, <2>6, CountsRight
  <2> QED
    BY <1>3, <2>4, <2>5, <2>7, <2>11, <2>8 DEF Inv, Garbled
<1> QED
  BY <1>1, <1>2, <1>3 DEF Alloc

\* The bytes the payload of x has after it moved to n bytes, and the two checks
\* that say whether what arrived is what was written.
MovedBytes(x, n, lost) ==
  [k \in 0..(n - 1) |->
     IF k < Smaller(block_sizes[x], n) /\ k \notin lost THEN blocks[x][k] ELSE Junk]

LEMMA MoveRightly ==
  ASSUME Inv, verdict = "ok", mode # "util",
         NEW x \in Index, x \in live \/ block_sizes[x] = 0, NEW n \in Nat, NEW lost,
         NEW m, m = Smaller(block_sizes[x], n), lost \subseteq 0..(m - 1)
  PROVE  IF check_index(MovedBytes(x, n, lost), m, block_rand_base[x], TRUE)
         THEN \A k \in lost : k >= maxfill
         ELSE spoiled[x] \cup lost # {}
<1> DEFINE s == block_sizes[x]
           base == block_rand_base[x]
           found == check_index(MovedBytes(x, n, lost), m, block_rand_base[x], TRUE)
<1>1. s \in Nat /\ base \in Base /\ m \in Nat /\ m <= s /\ m <= n /\ 0 \in 0..m
  BY DEF Inv, DriverTyped, Smaller
<1>2. fsize_end(s) \in 0..s
  BY <1>1, EndsOf
<1>3. /\ DOMAIN Pattern(m, base, 0) = {j \in 0..(m - 1) : j < maxfill \/ j >= m - 0}
      /\ \A k \in 0..(m - 1) : k < maxfill =>
           Pattern(m, base, 0)[k] = random_data(base + k) /\ random_data(base + k) # Junk
  BY <1>1, PatternOf
<1>4. /\ DOMAIN Pattern(s, base, fsize_end(s)) =
            {j \in 0..(s - 1) : j < maxfill \/ j >= s - fsize_end(s)}
      /\ \A k \in 0..(s - 1) : k < maxfill =>
           Pattern(s, base, fsize_end(s))[k] = random_data(base + k)
  <2> DEFINE end == fsize_end(s)
  <2> HIDE DEF s, base, end
  <2>1. s \in Nat /\ base \in Base /\ end \in 0..s
    BY <1>1, <1>2 DEF end
  <2>2. /\ DOMAIN Pattern(s, base, end) = {j \in 0..(s - 1) : j < maxfill \/ j >= s - end}
        /\ \A k \in 0..(s - 1) : k < maxfill =>
             Pattern(s, base, end)[k] = random_data(base + k)
    BY <2>1, PatternOf
  <2> QED
    BY <2>2 DEF end
<1>5. found <=> \A k \in DOMAIN Pattern(m, base, 0) :
                  MovedBytes(x, n, lost)[k] = Pattern(m, base, 0)[k]
  BY DEF check_index
<1>6. ASSUME NEW k \in 0..(m - 1)
      PROVE  /\ k \in 0..(s - 1)
             /\ MovedBytes(x, n, lost)[k] = IF k \in lost THEN Junk ELSE blocks[x][k]
  <2> HIDE DEF s
  <2>1. k \in 0..(s - 1) /\ k \in 0..(n - 1) /\ k < m
    BY <1>1
  <2> QED
    BY <2>1 DEF MovedBytes
<1>7. maxfill \in Nat
  BY TraceAssumption
<1> HIDE DEF base, found
<1>8. ASSUME found, NEW k \in lost PROVE k >= maxfill
  <2>1. k \in 0..(m - 1) /\ k \in Nat
    BY <1>1
  <2> SUFFICES ASSUME k < maxfill PROVE FALSE
    BY <1>7, <2>1
  <2>2. k \in DOMAIN Pattern(m, base, 0)
    BY <1>3, <2>1
  <2>3. MovedBytes(x, n, lost)[k] = Pattern(m, base, 0)[k]
    BY <1>5, <1>8, <2>2
  <2> QED
    BY <1>3, <1>6, <1>8, <2>1, <2>3
<1>9. ASSUME ~found, lost = {} PROVE spoiled[x] # {}
  <2>1. PICK k \in DOMAIN Pattern(m, base, 0) : MovedBytes(x, n, lost)[k] # Pattern(m, base, 0)[k]
    BY <1>5, <1>9
  <2>2. k \in 0..(m - 1) /\ k < maxfill
    <3>1. k \in 0..(m - 1) /\ (k < maxfill \/ k >= m - 0)
      BY <1>3
    <3> QED
      BY <1>1, <3>1
  <2>3. k \in 0..(s - 1) /\ blocks[x][k] # random_data(base + k)
    BY <1>3, <1>6, <1>9, <2>1, <2>2
  <2>4. k \in DOMAIN Pattern(s, base, fsize_end(s))
        /\ blocks[x][k] # Pattern(s, base, fsize_end(s))[k]
    BY <1>4, <2>2, <2>3
  <2>5. x \in live
    BY <2>3
  <2>6. Written(x)
    BY <2>5 DEF Inv, Filled
  <2>7. k \in spoiled[x]
    BY <2>4, <2>6 DEF Written, base
  <2> QED
    BY <2>7
<1> QED
  BY <1>8, <1>9 DEF found

LEMMA ReallocInv ==
  ASSUME Inv, NEW x \in Index, NEW n \in Request \cup {0}, NEW base \in Base,
         NEW lost, Realloc(x, n, base, lost)
  PROVE  Inv'
<1> DEFINE m == Smaller(block_sizes[x], n)
           found == check_index(MovedBytes(x, n, lost), m, block_rand_base[x], TRUE)
<1>1. n \in Nat /\ DriverTyped /\ Totalled
  BY TraceAssumption DEF Inv
<1>2. m \in Nat /\ m <= block_sizes[x] /\ block_sizes[x] \in Nat
  BY <1>1 DEF DriverTyped, Smaller
<1>3. /\ verdict = "ok" /\ (x \in live \/ block_sizes[x] = 0) /\ mode' = mode
      /\ lost \subseteq 0..(m - 1)
  BY DEF Realloc
<1>4. mode # "util" => /\ ~found => spoiled[x] \cup lost # {}
                       /\ found => \A k \in lost : k >= maxfill
  <2> SUFFICES ASSUME mode # "util"
               PROVE  /\ ~found => spoiled[x] \cup lost # {}
                      /\ found => \A k \in lost : k >= maxfill
    OBVIOUS
  <2> HIDE DEF m
  <2>1. m = Smaller(block_sizes[x], n)
    BY DEF m
  <2> QED
    BY <1>1, <1>3, <2>1, MoveRightly
<1>5. DOMAIN blocks[x] = 0..(block_sizes[x] - 1)
  <2>1. 0..(0 - 1) = {}
    OBVIOUS
  <2> QED
    BY <1>1, <1>3, <2>1 DEF DriverTyped
<1>6. CASE Complain(x)
  BY <1>3, <1>6, ComplainInv
<1>7. CASE /\ \A y \in Checked(x) : Passes(y)
           /\ verdict' = "failed"
           /\ overlooked' = Overlooked(x)
           /\ UNCHANGED <<traceVars, utilVars, spoiled>>
  <2>1. Unseen(overlooked', lowered')
    BY <1>3, <1>7, OverlooksRightly DEF traceVars
  <2> QED
    BY <1>3, <1>7, <2>1, OnlyTalk
<1>8. CASE /\ mode # "util" /\ ~found
           /\ verdict' = "garbled"
           /\ spoiled' = [spoiled EXCEPT ![x] = @ \cup lost]
           /\ overlooked' = {}
           /\ UNCHANGED <<traceVars, utilVars>>
  <2>1. spoiled'[x] = spoiled[x] \cup lost /\ \A y \in Index : y # x => spoiled'[y] = spoiled[y]
    BY <1>1, <1>8 DEF DriverTyped
  <2>2. lost \subseteq DOMAIN blocks[x]
    <3> HIDE DEF m
    <3> QED
      BY <1>2, <1>3, <1>5
  <2>3. \A y \in Index : spoiled'[y] \subseteq DOMAIN blocks[y]
    BY <1>1, <2>1, <2>2 DEF DriverTyped
  <2>4. spoiled' = [y \in Index |-> spoiled'[y]]
    BY <1>1, <1>8 DEF DriverTyped
  <2>5. DriverTyped'
    BY <1>1, <1>3, <1>8, <2>3, <2>4 DEF DriverTyped, traceVars
  <2>6. Garbled'
    BY <1>4, <1>8, <2>1 DEF Garbled, Intact
  <2>7. Totalled'
    BY <1>1, <1>3, <1>8 DEF Totalled, traceVars, utilVars
  <2>8. Ranged'
    BY <1>3, <1>8 DEF Inv, Ranged, Walked, traceVars
  <2> QED
    BY <1>8, <2>5, <2>6, <2>7, <2>8 DEF Inv, Filled, Unseen
<1>9. CASE /\ \A y \in Checked(x) : Passes(y)
           /\ mode = "util" \/ found
           /\ Store(x, MovedBytes(x, n, lost), n, base)
           /\ live' = IF n = 0 THEN live \ {x} ELSE live \cup {x}
           /\ Ranges(x, n)
           /\ overlooked' = Overlooked(x) \cup
                IF mode = "util" THEN {}
                ELSE {[at |-> k, size |-> m, moved |-> TRUE, cut |-> FALSE] : k \in lost}
           /\ Count(n - block_sizes[x])
           /\ UNCHANGED verdict
  <2>1. DOMAIN MovedBytes(x, n, lost) = 0..(n - 1)
    BY DEF MovedBytes
  <2>2. /\ DriverTyped' /\ Filled'
        /\ \A y \in Index : y # x => blocks'[y] = blocks[y]
        /\ DOMAIN blocks'[x] = 0..(n - 1)
    BY <1>1, <1>3, <1>9, <2>1, StoreKeeps
  <2>3. Totalled'
    BY <1>1, <1>2, <1>3, <1>5, <1>9, <2>2, CountsRight
  <2>4. Ranged' /\ (lowered => lowered')
    <3>1. Ranged
      BY DEF Inv
    <3> QED
      BY <1>1, <1>3, <1>9, <3>1, RangesKeep
  <2>5. Unseen(Overlooked(x), lowered')
    BY <1>3, <1>9, <2>4, OverlooksRightly
  <2>6. ASSUME mode # "util", NEW k \in lost, NEW o,
               o = [at |-> k, size |-> m, moved |-> TRUE, cut |-> FALSE]
        PROVE  Excused(o, lowered')
    BY <1>4, <1>9, <2>6 DEF Excused
  <2>7. Unseen(overlooked', lowered')
    <3> HIDE DEF m, found
    <3> QED
      BY <1>9, <2>5, <2>6 DEF Unseen
  <2> QED
    BY <1>3, <1>9, <2>2, <2>3, <2>4, <2>7 DEF Inv, Garbled
<1> QED
  BY <1>6, <1>7, <1>8, <1>9 DEF Realloc, MovedBytes

LEMMA FreeInv ==
  ASSUME Inv, NEW x \in Index \cup {-1}, Free(x)
  PROVE  Inv'
<1>1. DriverTyped /\ Totalled /\ verdict = "ok" /\ x \in live \cup {-1} /\ mode' = mode
  BY DEF Inv, Free
<1>2. CASE Complain(x)
  BY <1>1, <1>2, ComplainInv
<1>3. CASE /\ \A y \in Checked(x) : Passes(y)
           /\ overlooked' = Overlooked(x)
           /\ live' = live \ {x}
           /\ Ranges(x, 0)
           /\ blocks' = [y \in Index |-> IF y = x THEN Nowhere ELSE blocks[y]]
           /\ spoiled' = [y \in Index |-> IF y = x THEN {} ELSE spoiled[y]]
           /\ Count(IF x = -1 THEN 0 ELSE -block_sizes[x])
           /\ UNCHANGED <<verdict, block_sizes, block_rand_base>>
  <2>1. Ranged' /\ (lowered => lowered')
    <3>1. Ranged
      BY DEF Inv
    <3>2. CASE x \in Index
      BY <1>1, <1>3, <3>1, <3>2, RangesKeep
    <3>3. CASE x \notin Index
      <4>1. x \notin live /\ live' = live
        BY <1>1, <1>3, <3>3 DEF DriverTyped
      <4>2. UNCHANGED <<ranges, lowered>>
        BY <1>3, <4>1 DEF Ranges
      <4> QED
        BY <1>1, <3>1, <4>1, <4>2 DEF Ranged, Walked
    <3> QED
      BY <3>2, <3>3
  <2>2. DOMAIN Nowhere = {} /\ 0..(0 - 1) = {}
    BY DEF Nowhere
  <2>3. ASSUME NEW y \in Index, y # x
        PROVE  /\ blocks'[y] = blocks[y] /\ spoiled'[y] = spoiled[y]
               /\ y \in live' <=> y \in live
    BY <1>3, <2>3
  <2>4. DriverTyped'
    <3>1. ASSUME NEW y \in Index
          PROVE  /\ DOMAIN blocks'[y] = IF y \in live' THEN 0..(block_sizes'[y] - 1) ELSE {}
                 /\ spoiled'[y] \subseteq DOMAIN blocks'[y]
      <4>1. CASE y = x
        <5>1. blocks'[y] = Nowhere /\ spoiled'[y] = {} /\ y \notin live'
          BY <1>3, <4>1
        <5> QED
          BY <2>2, <5>1
      <4>2. CASE y # x
        BY <1>1, <1>3, <2>3, <4>2 DEF DriverTyped
      <4> QED
        BY <4>1, <4>2
    <3>2. blocks' = [y \in Index |-> blocks'[y]] /\ spoiled' = [y \in Index |-> spoiled'[y]]
      BY <1>3
    <3> QED
      BY <1>1, <1>3, <3>1, <3>2 DEF DriverTyped
  <2>5. Filled'
    <3> SUFFICES ASSUME mode # "util", NEW y \in live' PROVE Written(y)'
      BY <1>1 DEF Filled
    <3>1. y \in Index /\ y # x /\ y \in live
      BY <1>1, <1>3 DEF DriverTyped
    <3>2. Written(y)
      BY <1>1, <1>3, <3>1 DEF Inv, Filled
    <3> QED
      BY <1>3, <2>3, <3>1, <3>2 DEF Written
  <2>6. Totalled'
    <3>1. CASE x \in Index
      <4>1. x # -1 /\ x \in live /\ block_sizes[x] \in Nat
        BY <1>1, <3>1, TraceAssumption DEF DriverTyped
      <4>2. DOMAIN blocks[x] = 0..(block_sizes[x] - 1)
        BY <1>1, <3>1, <4>1 DEF DriverTyped
      <4>3. DOMAIN blocks'[x] = 0..(0 - 1)
        BY <1>3, <2>2, <3>1
      <4>4. Count(-block_sizes[x]) /\ -block_sizes[x] = 0 - block_sizes[x]
        BY <1>3, <4>1
      <4> QED
        BY <1>1, <2>3, <3>1, <4>1, <4>2, <4>3, <4>4, CountsRight
    <3>2. CASE x \notin Index
      <4>1. blocks' = blocks /\ x = -1
        BY <1>1, <1>3, <3>2 DEF DriverTyped
      <4>2. CASE mode # "util"
        BY <1>1, <1>3, <4>2 DEF Totalled, Count, utilVars
      <4>3. CASE mode = "util"
        <5>1. /\ total_size' = total_size + 0 /\ total_size = Held(blocks)
              /\ max_total_size' = Max({max_total_size, total_size'})
              /\ max_heap_size' = Max({max_heap_size, Held(blocks)})
              /\ total_size \in Int /\ max_total_size \in Int
              /\ max_total_size = max_heap_size
          BY <1>1, <1>3, <4>1, <4>3 DEF Totalled, Count
        <5>2. total_size' = Held(blocks) /\ total_size' \in Int
          BY <5>1
        <5>3. max_total_size' \in Int /\ max_total_size' = max_heap_size'
          BY <5>1, <5>2, MaxOfTwo
        <5> QED
          BY <1>1, <4>1, <4>3, <5>2, <5>3 DEF Totalled
      <4> QED
        BY <4>2, <4>3
    <3> QED
      BY <3>1, <3>2
  <2>7. Unseen(overlooked', lowered')
    BY <1>1, <1>3, <2>1, OverlooksRightly
  <2> QED
    BY <1>1, <1>3, <2>1, <2>4, <2>5, <2>6, <2>7 DEF Inv, Garbled
<1> QED
  BY <1>2, <1>3 DEF Free

LEMMA SpoilInv ==
  ASSUME Inv, NEW x \in Index, NEW byte, NEW k \in DOMAIN blocks[x],
         Spoil(x, k, byte)
  PROVE  Inv'
<1>1. DriverTyped /\ Totalled /\ Intact /\ verdict = "ok" /\ mode # "util" /\ x \in live
  BY DEF Inv, Spoil, DriverTyped
<1>2. /\ blocks' = [blocks EXCEPT ![x][k] = byte] /\ byte # blocks[x][k]
      /\ spoiled' = [spoiled EXCEPT ![x] = {k}] /\ overlooked' = {}
      /\ UNCHANGED <<mode, live, ranges, lowered, block_sizes, block_rand_base, verdict, utilVars>>
  BY DEF Spoil
<1>3. /\ blocks'[x] = [blocks[x] EXCEPT ![k] = byte] /\ spoiled'[x] = {k}
      /\ \A y \in Index : y # x => blocks'[y] = blocks[y] /\ spoiled'[y] = spoiled[y]
  BY <1>1, <1>2 DEF DriverTyped
<1>4. DOMAIN blocks'[x] = DOMAIN blocks[x] /\ blocks'[x][k] = byte
      /\ \A j \in DOMAIN blocks[x] : j # k => blocks'[x][j] = blocks[x][j]
  BY <1>3
<1>5. DriverTyped'
  <2>1. ASSUME NEW y \in Index
        PROVE  /\ DOMAIN blocks'[y] = IF y \in live' THEN 0..(block_sizes'[y] - 1) ELSE {}
               /\ spoiled'[y] \subseteq DOMAIN blocks'[y]
    BY <1>1, <1>2, <1>3, <1>4 DEF DriverTyped
  <2>2. blocks' = [y \in Index |-> blocks'[y]] /\ spoiled' = [y \in Index |-> spoiled'[y]]
    BY <1>1, <1>2 DEF DriverTyped
  <2> QED
    BY <1>1, <1>2, <2>1, <2>2 DEF DriverTyped
<1>6. Filled'
  <2> SUFFICES ASSUME NEW y \in live PROVE Written(y)'
    BY <1>2 DEF Filled
  <2>1. y \in Index /\ Written(y)
    BY <1>1 DEF Inv, Filled, DriverTyped
  <2>2. CASE y # x
    BY <1>2, <1>3, <2>1, <2>2 DEF Written
  <2>3. CASE y = x
    <3> DEFINE filled == Pattern(block_sizes[x], block_rand_base[x], fsize_end(block_sizes[x]))
    <3>1. spoiled[x] = {}
      BY <1>1 DEF Intact
    <3>2. DOMAIN filled \subseteq DOMAIN blocks[x]
      <4>1. DOMAIN filled \subseteq 0..(block_sizes[x] - 1)
        BY DEF Pattern
      <4> QED
        BY <1>1, <4>1 DEF DriverTyped
    <3>3. \A j \in DOMAIN filled : blocks[x][j] = filled[j]
      BY <2>1, <2>3, <3>1 DEF Written
    <3> HIDE DEF filled
    <3>4. \A j \in DOMAIN filled : j \in spoiled'[x] <=> blocks'[x][j] # filled[j]
      BY <1>2, <1>3, <1>4, <3>2, <3>3
    <3> QED
      BY <1>2, <2>3, <3>4 DEF Written, filled
  <2> QED
    BY <2>2, <2>3
<1>7. Totalled'
  BY <1>1, <1>2 DEF Totalled, utilVars
<1>8. Ranged'
  BY <1>2 DEF Inv, Ranged, Walked
<1> QED
  BY <1>1, <1>2, <1>5, <1>6, <1>7, <1>8 DEF Inv, Garbled, Unseen

LEMMA NextInv == Inv /\ [DriverNext]_driverVars => Inv'
<1> SUFFICES ASSUME Inv, [DriverNext]_driverVars PROVE Inv'
  OBVIOUS
<1>1. ASSUME NEW x \in Index, NEW n \in Request, NEW base \in Base, Alloc(x, n, base) PROVE Inv'
  BY <1>1, AllocInv
<1>2. ASSUME NEW x \in Index, NEW n \in Request \cup {0}, NEW base \in Base, NEW lost \in Lost,
             Realloc(x, n, base, lost)
      PROVE  Inv'
  BY <1>2, ReallocInv
<1>3. ASSUME NEW x \in Index \cup {-1}, Free(x) PROVE Inv'
  BY <1>3, FreeInv
<1>4. ASSUME NEW x \in Index, NEW byte \in Base, NEW k \in DOMAIN blocks[x], Spoil(x, k, byte)
      PROVE  Inv'
  BY <1>4, SpoilInv
<1>5. CASE UNCHANGED driverVars
  <2>1. DriverTyped' /\ Garbled' /\ Totalled' /\ Unseen(overlooked, lowered)'
    BY <1>5 DEF driverVars, traceVars, utilVars, Inv, DriverTyped, Garbled, Intact, Totalled, Unseen
  <2>2. Filled'
    BY <1>5 DEF driverVars, traceVars, Inv, Filled, Written
  <2>3. Ranged'
    BY <1>5 DEF driverVars, traceVars, Inv, Ranged, Walked
  <2> QED
    BY <2>1, <2>2, <2>3 DEF Inv
<1> QED
  BY <1>1, <1>2, <1>3, <1>4, <1>5 DEF DriverNext

\* Whatever the trace asks for and however much is filled, the driver says that
\* bytes were garbled only when the allocator changed one; goes past none but
\* those it does not look at, as long as no payload was recorded below all the
\* others, and after that also past those of ranges no longer on its list; and
\* finds a utilization of 1 for an allocator that wastes nothing
\* (mdriver.c:707-762, 788-893, 1062-1068, 1097-1143, 1172-1262).
THEOREM DriverJudgesByTheFacts ==
  DriverSpec => []JudgesByTheFacts
<1>1. DriverInit => Inv
  BY InitInv
<1>2. Inv /\ [DriverNext]_driverVars => Inv'
  BY NextInv
<1>3. Inv => JudgesByTheFacts
  BY DEF Inv, Garbled, Unseen, Excused, Totalled, JudgesByTheFacts
<1> QED
  BY <1>1, <1>2, <1>3, PTL DEF DriverSpec
=============================================================================
