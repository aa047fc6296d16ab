------------------------------ MODULE KernelProof ------------------------------
(***************************************************************************)
(* Theorems about the two parts of the kernel.                             *)
(*                                                                         *)
(* The address spaces kernel_init builds, and the system calls, proved for *)
(* tables of any size (the processor's have 512 entries, the checked       *)
(* instance 3), any number of kernel directories, any placement of the     *)
(* pages, and whatever memory held at first.  A virtual page is its four   *)
(* indices: v = ((i0*E + i1)*E + i2)*E + i3.  The content of the tables    *)
(* (Tables) is what kernel_init leaves, and no user program can disturb    *)
(* it, since the walks it makes end outside them.                          *)
(*                                                                         *)
(* The kernel's heap, for any memory, chunk size, requests and console:    *)
(* blocks, lists and memory always agree, the boot-time test never stops   *)
(* the kernel when it has room, and what the heap hands out is what        *)
(* callers of an allocator expect; and the console, for any text and       *)
(* screen: what it shows is the end of what has been printed.              *)
(***************************************************************************)
EXTENDS Kernel, KernelHeap, BlockHeapProof

-----------------------------------------------------------------------------
(* Quotients and remainders                                                *)

LEMMA ProductBound ==
  ASSUME NEW b \in Nat, NEW d \in Int
  PROVE  (d >= 1 => b * d >= b) /\ (d <= -1 => b * d <= -b)
OBVIOUS

LEMMA IntQuotient ==
  ASSUME NEW b \in Nat \ {0}, NEW x \in Int
  PROVE  x \div b \in Int /\ x % b \in 0..(b - 1) /\ x = (x \div b) * b + (x % b)
<1>1. x \div b \in Int
  OBVIOUS
<1>2. x % b \in 0..(b - 1)
  OBVIOUS
<1>3. x = b * (x \div b) + (x % b)
  OBVIOUS
<1> QED
  BY <1>1, <1>2, <1>3

LEMMA IntQuotientIs ==
  ASSUME NEW b \in Nat \ {0}, NEW q \in Int, NEW r \in 0..(b - 1)
  PROVE  (q * b + r) \div b = q /\ (q * b + r) % b = r
<1> DEFINE y == q * b + r
           e == y \div b
<1>1. y \in Int /\ e \in Int /\ y % b \in 0..(b - 1) /\ y = e * b + (y % b)
  BY IntQuotient
<1>2. b * (q - e) = (y % b) - r
  BY <1>1
<1> HIDE DEF y, e
<1>3. q - e \in Int /\ ~(q - e >= 1) /\ ~(q - e <= -1)
  BY <1>1, <1>2, ProductBound
<1>4. q = e
  BY <1>1, <1>3
<1>5. y % b = r
  BY <1>1, <1>2, <1>4
<1> QED
  BY <1>4, <1>5 DEF y, e

\* A word of a table is in the table's frame, and each index has a word.
LEMMA WordOf ==
  ASSUME NEW b \in Nat \ {0}, NEW n \in Nat, NEW q \in 0..(n - 1), NEW r \in 0..(b - 1)
  PROVE  q * b + r \in 0..(n * b - 1)
<1>1. b * (n - 1 - q) \in Nat
  <2>1. n - 1 - q \in Nat
    OBVIOUS
  <2> QED
    BY <2>1
<1>2. n * b = b * (n - 1 - q) + q * b + b /\ q * b \in Nat /\ n * b \in Nat
  OBVIOUS
<1> QED
  BY <1>1, <1>2

-----------------------------------------------------------------------------
(* Virtual pages and their indices                                         *)

PageOf(i0, i1, i2, i3) == ((i0 * E + i1) * E + i2) * E + i3

LEMMA SizesTyped ==
  /\ E \in Nat /\ E > 1 /\ E \in Nat \ {0} /\ PDs \in Nat /\ PDs >= 1 /\ PDs <= E
  /\ E * E \in Nat \ {0} /\ E * E * E \in Nat \ {0} /\ E * E * E * E \in Nat \ {0}
<1>1. E \in Nat /\ E > 1 /\ E \in Nat \ {0} /\ PDs \in Nat /\ PDs >= 1 /\ PDs <= E
  BY KernelAssumption
<1>2. \A a, b \in Nat \ {0} : a * b \in Nat \ {0}
  OBVIOUS
<1> QED
  BY <1>1, <1>2

LEMMA IndexOf ==
  ASSUME NEW i0 \in 0..(E - 1), NEW i1 \in 0..(E - 1), NEW i2 \in 0..(E - 1), NEW i3 \in 0..(E - 1)
  PROVE  LET v == PageOf(i0, i1, i2, i3)
         IN  /\ v \in Page
             /\ Index(v, 0) = i0 /\ Index(v, 1) = i1 /\ Index(v, 2) = i2 /\ Index(v, 3) = i3
<1> DEFINE v == PageOf(i0, i1, i2, i3)
           a2 == i0 * E + i1
           a3 == a2 * E + i2
           r1 == i2 * E + i3
           r0 == (i1 * E + i2) * E + i3
<1>1. /\ E \in Nat \ {0} /\ E * E \in Nat \ {0} /\ E * E * E \in Nat \ {0}
      /\ i0 \in Int /\ i1 \in Int /\ i2 \in Int /\ i3 \in Int
  BY SizesTyped
<1>2. a2 \in 0..(E * E - 1)
  BY <1>1, WordOf
<1>3. a3 \in 0..(E * E * E - 1)
  <2> HIDE DEF a2
  <2>1. E * E \in Nat /\ a2 * E + i2 \in 0..((E * E) * E - 1)
    BY <1>1, <1>2, WordOf
  <2> QED
    BY <2>1
<1>4. v \in 0..(E * E * E * E - 1)
  <2> HIDE DEF a3
  <2>1. E * E * E \in Nat /\ a3 * E + i3 \in 0..((E * E * E) * E - 1)
    BY <1>1, <1>3, WordOf
  <2>2. v = a3 * E + i3
    BY DEF PageOf, a3
  <2> QED
    BY <2>1, <2>2
<1>5. r1 \in 0..(E * E - 1)
  BY <1>1, WordOf
<1>6. r0 \in 0..(E * E * E - 1)
  <2>1. i1 * E + i2 \in 0..(E * E - 1)
    BY <1>1, WordOf
  <2>2. E * E \in Nat /\ (i1 * E + i2) * E + i3 \in 0..((E * E) * E - 1)
    BY <1>1, <2>1, WordOf
  <2> QED
    BY <2>2
<1>7. v = i0 * (E * E * E) + r0 /\ v = a2 * (E * E) + r1 /\ v = a3 * E + i3 /\ v = v * 1 + 0
  BY <1>1 DEF PageOf
<1>8. v \div (E * E * E) = i0 /\ v \div (E * E) = a2 /\ v \div E = a3 /\ v \div 1 = v
  <2>1. a2 \in Int /\ a3 \in Int /\ v \in Int
    BY <1>2, <1>3, <1>4
  <2> HIDE DEF a2, a3, v, r0, r1
  <2>2. v \div (E * E * E) = i0
    <3> DEFINE b == E * E * E
    <3>1. b \in Nat \ {0} /\ r0 \in 0..(b - 1) /\ v = i0 * b + r0
      BY <1>1, <1>6, <1>7
    <3> HIDE DEF b
    <3>2. v \div b = i0
      BY <1>1, <3>1, IntQuotientIs
    <3> QED
      BY <3>2 DEF b
  <2>3. v \div (E * E) = a2
    BY ZenonT(60), <1>1, <1>5, <1>7, <2>1, IntQuotientIs
  <2>4. v \div E = a3
    BY <1>1, <1>7, <2>1, IntQuotientIs
  <2>5. v \div 1 = v
    BY <2>1
  <2> QED
    BY <2>2, <2>3, <2>4, <2>5
<1>9. i0 % E = i0 /\ a2 % E = i1 /\ a3 % E = i2 /\ v % E = i3
  <2>1. i0 = 0 * E + i0
    BY <1>1
  <2>2. i0 % E = i0
    BY <1>1, <2>1, IntQuotientIs
  <2>3. a2 \in Int /\ a3 \in Int
    BY <1>2, <1>3
  <2>4. a2 % E = i1
    BY <1>1, IntQuotientIs
  <2> HIDE DEF a2
  <2>5. a3 % E = i2
    BY <1>1, <2>3, IntQuotientIs
  <2> HIDE DEF a3, v
  <2>6. v % E = i3
    BY <1>1, <1>7, <2>3, IntQuotientIs
  <2> QED
    BY <2>2, <2>4, <2>5, <2>6
<1>10. Index(v, 0) = i0 /\ Index(v, 1) = i1 /\ Index(v, 2) = i2 /\ Index(v, 3) = i3
  <2> HIDE DEF v, a2, a3
  <2> QED
    BY <1>8, <1>9 DEF Index
<1> HIDE DEF v
<1> QED
  BY <1>4, <1>10 DEF Page, v

LEMMA IndicesOf ==
  ASSUME NEW v \in Page
  PROVE  \E i0, i1, i2, i3 \in 0..(E - 1) : v = PageOf(i0, i1, i2, i3)
<1> DEFINE q1 == v \div E
           q2 == q1 \div E
           q3 == q2 \div E
<1>1. /\ E \in Nat \ {0} /\ E * E * E \in Nat \ {0} /\ v \in Int /\ v >= 0 /\ v < E * E * E * E
  BY SizesTyped DEF Page
<1>2. q1 \in Int /\ v % E \in 0..(E - 1) /\ v = q1 * E + (v % E)
  BY <1>1, IntQuotient
<1> HIDE DEF q1
<1>3. q2 \in Int /\ q1 % E \in 0..(E - 1) /\ q1 = q2 * E + (q1 % E)
  BY <1>1, <1>2, IntQuotient
<1> HIDE DEF q2
<1>4. q3 \in Int /\ q2 % E \in 0..(E - 1) /\ q2 = q3 * E + (q2 % E)
  BY <1>1, <1>3, IntQuotient
<1> HIDE DEF q3
<1>5. v = PageOf(q3, q2 % E, q1 % E, v % E)
  BY <1>2, <1>3, <1>4 DEF PageOf
<1>6. q3 \in 0..(E - 1)
  <2> DEFINE r == ((q2 % E) * E + (q1 % E)) * E + (v % E)
  <2>1. r \in 0..(E * E * E - 1)
    <3>1. (q2 % E) * E + (q1 % E) \in 0..(E * E - 1)
      BY <1>1, <1>3, <1>4, WordOf
    <3>2. E * E \in Nat /\ r \in 0..((E * E) * E - 1)
      BY <1>1, <1>2, <3>1, WordOf
    <3> QED
      BY <3>2
  <2>2. v = q3 * (E * E * E) + r
    BY <1>1, <1>2, <1>3, <1>4, <1>5 DEF PageOf
  <2> DEFINE b == E * E * E
  <2>3. b \in Nat \ {0} /\ v < E * b /\ v = q3 * b + r /\ r \in 0..(b - 1)
    BY <1>1, <2>1, <2>2
  <2> HIDE DEF b, r
  <2>4. ~(q3 <= -1)
    BY <1>1, <1>4, <2>3, ProductBound
  <2>5. ~(q3 - E >= 0)
    <3>1. (q3 - E >= 0) => b * (q3 - E) >= 0
      BY <1>1, <1>4, <2>3
    <3>2. b * (q3 - E) = q3 * b - E * b
      BY <1>1, <1>4, <2>3
    <3> QED
      BY <1>1, <1>4, <2>3, <3>1, <3>2
  <2> QED
    BY <1>1, <1>4, <2>4, <2>5
<1> QED
  BY <1>2, <1>3, <1>4, <1>5, <1>6

-----------------------------------------------------------------------------
(* The walk                                                                *)

\* Entry i of the table in frame f, as the processor reads it.
Read(f, i) == IF f * E + i \notin DOMAIN mem THEN Absent ELSE mem[f * E + i]

Follow(entry, v, l) == IF entry.p = 0 THEN Absent ELSE Read(entry.page_addr, Index(v, l))

LEMMA WalkEntries ==
  ASSUME NEW v
  PROVE  /\ Walk(v)[0] = Read(cr3, Index(v, 0))
         /\ Walk(v)[1] = Follow(Walk(v)[0], v, 1)
         /\ Walk(v)[2] = Follow(Walk(v)[1], v, 2)
         /\ Walk(v)[3] = Follow(Walk(v)[2], v, 3)
<1> DEFINE Entry(w, l) ==
             LET table == IF l = 0 THEN cr3 ELSE w[l - 1].page_addr
                 word == table * E + Index(v, l)
             IN  IF (l > 0 /\ w[l - 1].p = 0) \/ word \notin DOMAIN mem THEN Absent
                 ELSE mem[word]
           e0 == Read(cr3, Index(v, 0))
           e1 == Follow(e0, v, 1)
           e2 == Follow(e1, v, 2)
           e3 == Follow(e2, v, 3)
           e == [l \in 0..3 |-> IF l = 0 THEN e0 ELSE IF l = 1 THEN e1 ELSE IF l = 2 THEN e2 ELSE e3]
<1>1. \A w : /\ Entry(w, 0) = e0
             /\ Entry(w, 1) = Follow(w[0], v, 1)
             /\ Entry(w, 2) = Follow(w[1], v, 2)
             /\ Entry(w, 3) = Follow(w[2], v, 3)
  BY DEF Read, Follow
<1>2. e = [l \in 0..3 |-> Entry(e, l)]
  <2>1. e[0] = e0 /\ e[1] = e1 /\ e[2] = e2 /\ e[3] = e3
    <3> HIDE DEF e0, e1, e2, e3
    <3> QED
      OBVIOUS
  <2>2. e = [l \in 0..3 |-> e[l]]
    <3> HIDE DEF e0, e1, e2, e3
    <3> QED
      OBVIOUS
  <2> HIDE DEF e
  <2>3. Entry(e, 0) = e0 /\ Entry(e, 1) = e1 /\ Entry(e, 2) = e2 /\ Entry(e, 3) = e3
    BY <1>1, <2>1
  <2> HIDE DEF e0, e1, e2, e3, Entry
  <2>4. \A l \in 0..3 : e[l] = Entry(e, l)
    BY <2>1, <2>3
  <2> QED
    BY <2>2, <2>4
<1>3. Walk(v) = [l \in 0..3 |-> Entry(Walk(v), l)]
  <2> HIDE DEF e
  <2> QED
    BY <1>2, Zenon DEF Walk
<1> HIDE DEF Entry, e
<1>4. /\ Walk(v)[0] = Entry(Walk(v), 0) /\ Walk(v)[1] = Entry(Walk(v), 1)
      /\ Walk(v)[2] = Entry(Walk(v), 2) /\ Walk(v)[3] = Entry(Walk(v), 3)
  BY <1>3
<1> QED
  BY <1>1, <1>4, Zenon

-----------------------------------------------------------------------------
(* The tables kernel_init leaves                                           *)

\* The frames of the tables; the user's are the three after the root.
Directories == at.memory + PDs * E
Pointers == Directories + PDs
Root == Pointers + 1

UserEntry(frame) == [p |-> 1, rw |-> 1, us |-> 1, other |-> 0, page_addr |-> frame]

Tables ==
  /\ \A i \in 0..(PDs * E * E - 1) : mem[at.memory * E + i] = KernelEntry(i)
  /\ \A i \in 0..(PDs * E - 1) : mem[Directories * E + i] = KernelEntry(at.memory + i)
  /\ \A i \in 0..(E - 1) :
       /\ mem[Pointers * E + i] = IF i < PDs THEN KernelEntry(Directories + i) ELSE Absent
       /\ mem[Root * E + i] = IF i = 0 THEN KernelEntry(Pointers)
                              ELSE IF i = E - 1 THEN UserEntry(Root + 1) ELSE Absent
       /\ mem[(Root + 1) * E + i] = IF i = E - 1 THEN UserEntry(Root + 2) ELSE Absent
       /\ mem[(Root + 2) * E + i] = IF i = E - 1 THEN UserEntry(Root + 3) ELSE Absent
       /\ mem[(Root + 3) * E + i] = IF i = E - 1 THEN UserEntry(at.uprogram)
                                    ELSE IF i = E - 2 THEN UserEntry(at.ustack) ELSE Absent

Memory == at \in Placement /\ DOMAIN mem = 0..(PDs * E * E * E - 1)

LEMMA FramesTyped ==
  ASSUME Memory
  PROVE  /\ at.memory \in Nat /\ Directories \in Nat /\ Pointers \in Nat /\ Root \in Nat
         /\ PDs * E \in Nat /\ PDs * E * E \in Nat /\ PDs * E * E * E \in Nat
         /\ Directories = at.memory + PDs * E /\ Pointers = Directories + PDs /\ Root = Pointers + 1
         /\ Root + 3 < PDs * E * E
         /\ at.ustack \in 0..(PDs * E * E - 1) \ (at.memory..(Root + 3))
         /\ at.uprogram \in 0..(PDs * E * E - 1) \ (at.memory..(Root + 3))
<1>1. /\ {at.memory, at.memory + TablePages - 1, at.ustack, at.uprogram} \subseteq Frame
      /\ {at.ustack, at.uprogram} \cap (at.memory..(at.memory + TablePages - 1)) = {}
  BY KernelAssumption DEF Memory
<1>2. \A a, b \in Nat : a * b \in Nat
  OBVIOUS
<1>3. PDs * E \in Nat /\ PDs * E * E \in Nat /\ PDs * E * E * E \in Nat
  BY <1>2, SizesTyped
<1>4. at.memory \in Nat /\ at.memory + TablePages - 1 = Root + 3
  BY <1>1, <1>3, SizesTyped DEF Frame, TablePages, Root, Pointers, Directories
<1> QED
  BY <1>1, <1>3, <1>4, SizesTyped DEF Frame, Root, Pointers, Directories

\* Every entry of every table is in memory.
LEMMA Readable ==
  ASSUME Memory, NEW f \in 0..(PDs * E * E - 1), NEW i \in 0..(E - 1)
  PROVE  Read(f, i) = mem[f * E + i]
<1>1. f * E + i \in 0..((PDs * E * E) * E - 1)
  BY FramesTyped, SizesTyped, WordOf
<1> QED
  BY <1>1 DEF Read, Memory

\* The kernel's pages: all of memory, at its own address, for the kernel only.
LEMMA KernelWalk ==
  ASSUME Memory, Tables, cr3 = Root, NEW f \in Frame
  PROVE  Translate(f) = f /\ ~UserMay(f) /\ f \in Page
<1>1. f \in Page
  <2>1. PDs * E * E * E \in Nat /\ f \in Nat /\ f < PDs * E * E
    BY FramesTyped DEF Frame
  <2>2. \A a \in Nat, b \in Nat \ {0} : a * b >= a
    OBVIOUS
  <2>3. \A a, b, c \in Nat : a <= b => a * c <= b * c
    OBVIOUS
  <2>4. PDs * E <= E * E /\ PDs * E * E <= E * E * E /\ E * E * E <= E * E * E * E
    BY <2>2, <2>3, SizesTyped, FramesTyped
  <2> QED
    BY <2>1, <2>4, SizesTyped DEF Page
<1>2. PICK i0, i1, i2, i3 \in 0..(E - 1) : f = PageOf(i0, i1, i2, i3)
  BY <1>1, IndicesOf
<1>3. Index(f, 0) = i0 /\ Index(f, 1) = i1 /\ Index(f, 2) = i2 /\ Index(f, 3) = i3
  BY <1>2, IndexOf
<1>4. i0 = 0 /\ i1 < PDs
  <2> DEFINE a == i0 * E + i1
             c == E * E
  <2>1. c \in Nat \ {0} /\ a \in Int /\ E \in Nat /\ PDs \in Nat /\ i1 \in Int /\ i0 \in Int
    BY SizesTyped
  <2>2. i2 * E + i3 \in 0..(c - 1)
    BY SizesTyped, WordOf
  <2>3. f = a * c + (i2 * E + i3) /\ f < PDs * c
    BY <1>2, SizesTyped DEF PageOf, Frame
  <2> HIDE DEF a, c
  <2>4. ~(a - PDs >= 0)
    <3>1. a - PDs \in Int /\ (a - PDs >= 0 => c * (a - PDs) >= 0) /\ c * (a - PDs) = a * c - PDs * c
      BY <2>1
    <3> QED
      BY <2>1, <2>2, <2>3, <3>1
  <2>5. ~(i0 >= 1)
    <3>1. i0 >= 1 => E * i0 >= E
      BY <2>1, ProductBound
    <3> QED
      BY <2>1, <2>4, <3>1, SizesTyped DEF a
  <2> QED
    BY <2>1, <2>4, <2>5 DEF a
<1> DEFINE a2 == i1 * E + i2
           a3 == a2 * E + i3
<1>5. a2 \in 0..(PDs * E - 1) /\ a3 \in 0..(PDs * E * E - 1) /\ f = a3
  <2>1. a2 \in 0..(PDs * E - 1)
    BY <1>4, SizesTyped, WordOf
  <2>2. f = a3
    BY <1>2, <1>4, SizesTyped DEF PageOf
  <2> QED
    BY <2>1, <2>2 DEF Frame
<1>6. Walk(f)[0] = KernelEntry(Pointers)
  <2>1. Root \in 0..(PDs * E * E - 1) /\ 0 \in 0..(E - 1)
    BY FramesTyped, SizesTyped
  <2>2. Walk(f)[0] = mem[Root * E + 0]
    BY <1>3, <1>4, <2>1, WalkEntries, Readable
  <2> QED
    BY <2>1, <2>2 DEF Tables
<1>7. Walk(f)[1] = KernelEntry(Directories + i1)
  <2>1. Walk(f)[1] = Read(Pointers, i1)
    BY <1>3, <1>6, WalkEntries DEF Follow, KernelEntry
  <2>2. Pointers \in 0..(PDs * E * E - 1)
    BY FramesTyped, SizesTyped
  <2>3. Walk(f)[1] = mem[Pointers * E + i1]
    BY <2>1, <2>2, Readable
  <2> QED
    BY <1>4, <2>3 DEF Tables
<1>8. Walk(f)[2] = KernelEntry(at.memory + a2)
  <2>1. Walk(f)[2] = Read(Directories + i1, i2)
    BY <1>3, <1>7, WalkEntries DEF Follow, KernelEntry
  <2>2. Directories + i1 \in 0..(PDs * E * E - 1)
    BY <1>4, FramesTyped, SizesTyped
  <2>3. (Directories + i1) * E + i2 = Directories * E + a2
    BY FramesTyped, SizesTyped
  <2> HIDE DEF a2
  <2> QED
    BY <1>5, <2>1, <2>2, <2>3, Readable DEF Tables
<1>9. Walk(f)[3] = KernelEntry(f)
  <2>1. Walk(f)[3] = Read(at.memory + a2, i3)
    BY <1>3, <1>8, WalkEntries DEF Follow, KernelEntry
  <2>2. at.memory + a2 \in 0..(PDs * E * E - 1)
    BY <1>5, FramesTyped, SizesTyped
  <2>3. (at.memory + a2) * E + i3 = at.memory * E + a3
    BY <1>5, FramesTyped, SizesTyped
  <2> HIDE DEF a2, a3
  <2> QED
    BY <1>5, <2>1, <2>2, <2>3, Readable DEF Tables
<1> QED
  BY <1>1, <1>6, <1>7, <1>8, <1>9 DEF Translate, UserMay, Mapped, KernelEntry

\* The user's pages: a walk that never leaves the last entries ends in the
\* program or the stack, and no other is open to the user.
LEMMA UserWalk ==
  ASSUME Memory, Tables, cr3 = Root,
         NEW i0 \in 0..(E - 1), NEW i1 \in 0..(E - 1), NEW i2 \in 0..(E - 1), NEW i3 \in 0..(E - 1)
  PROVE  LET v == PageOf(i0, i1, i2, i3)
             inside == i0 = E - 1 /\ i1 = E - 1 /\ i2 = E - 1
         IN  /\ UserMay(v) <=> inside /\ i3 \in {E - 1, E - 2}
             /\ inside /\ i3 = E - 1 => Translate(v) = at.uprogram
             /\ inside /\ i3 = E - 2 => Translate(v) = at.ustack
<1> DEFINE v == PageOf(i0, i1, i2, i3)
           e0 == Walk(v)[0]
           e1 == Walk(v)[1]
           e2 == Walk(v)[2]
           e3 == Walk(v)[3]
<1>1. /\ e0 = Read(Root, i0) /\ e1 = Follow(e0, v, 1) /\ e2 = Follow(e1, v, 2) /\ e3 = Follow(e2, v, 3)
      /\ Index(v, 1) = i1 /\ Index(v, 2) = i2 /\ Index(v, 3) = i3
  BY IndexOf, WalkEntries, SMTT(40)
<1>2. UserMay(v) <=> /\ e0.p = 1 /\ e0.other = 0 /\ e0.us = 1 /\ e0.rw = 1
                     /\ e1.p = 1 /\ e1.other = 0 /\ e1.us = 1 /\ e1.rw = 1
                     /\ e2.p = 1 /\ e2.other = 0 /\ e2.us = 1 /\ e2.rw = 1
                     /\ e3.p = 1 /\ e3.other = 0 /\ e3.us = 1 /\ e3.rw = 1
  <2> HIDE DEF v
  <2>1. \A l : l \in 0..3 <=> l = 0 \/ l = 1 \/ l = 2 \/ l = 3
    OBVIOUS
  <2> QED
    BY <2>1, Zenon DEF UserMay, Mapped
<1>3. /\ e0.p = 1 /\ e0.other = 0 /\ e1.p = 1 /\ e1.other = 0
      /\ e2.p = 1 /\ e2.other = 0 /\ e3.p = 1 /\ e3.other = 0
      => Translate(v) = e3.page_addr
  <2> HIDE DEF v
  <2>1. \A l : l \in 0..3 <=> l = 0 \/ l = 1 \/ l = 2 \/ l = 3
    OBVIOUS
  <2> QED
    BY <2>1, Zenon DEF Translate, Mapped
<1> HIDE DEF v, e0, e1, e2, e3
<1>4. /\ E - 1 # 0 /\ E - 1 # E - 2
      /\ Root \in 0..(PDs * E * E - 1) /\ Root + 1 \in 0..(PDs * E * E - 1)
      /\ Root + 2 \in 0..(PDs * E * E - 1) /\ Root + 3 \in 0..(PDs * E * E - 1)
  BY FramesTyped, SizesTyped
<1>5. e0 = IF i0 = 0 THEN KernelEntry(Pointers)
           ELSE IF i0 = E - 1 THEN UserEntry(Root + 1) ELSE Absent
  BY <1>1, <1>4, Readable DEF Tables
<1>6. ASSUME i0 = E - 1
      PROVE  e1 = IF i1 = E - 1 THEN UserEntry(Root + 2) ELSE Absent
  <2>1. e1 = Read(Root + 1, i1)
    BY <1>1, <1>4, <1>5, <1>6 DEF Follow, UserEntry
  <2> QED
    BY <1>4, <2>1, Readable DEF Tables
<1>7. ASSUME i0 = E - 1, i1 = E - 1
      PROVE  e2 = IF i2 = E - 1 THEN UserEntry(Root + 3) ELSE Absent
  <2>1. e2 = Read(Root + 2, i2)
    BY <1>1, <1>6, <1>7 DEF Follow, UserEntry
  <2> QED
    BY <1>4, <2>1, Readable DEF Tables
<1>8. ASSUME i0 = E - 1, i1 = E - 1, i2 = E - 1
      PROVE  e3 = IF i3 = E - 1 THEN UserEntry(at.uprogram)
                  ELSE IF i3 = E - 2 THEN UserEntry(at.ustack) ELSE Absent
  <2>1. e3 = Read(Root + 3, i3)
    BY <1>1, <1>7, <1>8 DEF Follow, UserEntry
  <2> QED
    BY <1>4, <2>1, Readable DEF Tables
<1>9. ASSUME UserMay(v)
      PROVE  i0 = E - 1 /\ i1 = E - 1 /\ i2 = E - 1 /\ i3 \in {E - 1, E - 2}
  <2>1. e0.us = 1 /\ e1.us = 1 /\ e2.us = 1 /\ e3.us = 1
    BY <1>2, <1>9
  <2>2. i0 = E - 1
    BY <1>5, <2>1 DEF KernelEntry, Absent
  <2>3. i1 = E - 1
    BY <1>6, <2>1, <2>2 DEF Absent
  <2>4. i2 = E - 1
    BY <1>7, <2>1, <2>2, <2>3 DEF Absent
  <2>5. i3 \in {E - 1, E - 2}
    BY <1>8, <2>1, <2>2, <2>3, <2>4 DEF Absent
  <2> QED
    BY <2>2, <2>3, <2>4, <2>5
<1>10. ASSUME i0 = E - 1, i1 = E - 1, i2 = E - 1, i3 \in {E - 1, E - 2}
       PROVE  UserMay(v) /\ Translate(v) = IF i3 = E - 1 THEN at.uprogram ELSE at.ustack
  <2>1. e0 = UserEntry(Root + 1) /\ e1 = UserEntry(Root + 2) /\ e2 = UserEntry(Root + 3)
    BY <1>4, <1>5, <1>6, <1>7, <1>10
  <2>2. e3 = UserEntry(IF i3 = E - 1 THEN at.uprogram ELSE at.ustack)
    BY <1>4, <1>8, <1>10
  <2> QED
    BY <1>2, <1>3, <2>1, <2>2 DEF UserEntry
<1> QED
  BY <1>4, <1>9, <1>10 DEF v

LastPage == E * E * E * E - 1

LEMMA UserPages ==
  ASSUME Memory, Tables, cr3 = Root, NEW v \in Page
  PROVE  /\ UserMay(v) <=> v \in {LastPage, LastPage - 1}
         /\ v = LastPage => Translate(v) = at.uprogram
         /\ v = LastPage - 1 => Translate(v) = at.ustack
<1>1. PICK i0, i1, i2, i3 \in 0..(E - 1) : v = PageOf(i0, i1, i2, i3)
  BY IndicesOf
<1> DEFINE inside == i0 = E - 1 /\ i1 = E - 1 /\ i2 = E - 1
<1>2. /\ UserMay(v) <=> inside /\ i3 \in {E - 1, E - 2}
      /\ inside /\ i3 = E - 1 => Translate(v) = at.uprogram
      /\ inside /\ i3 = E - 2 => Translate(v) = at.ustack
  BY <1>1, UserWalk
<1>3. /\ PageOf(E - 1, E - 1, E - 1, E - 1) = LastPage
      /\ PageOf(E - 1, E - 1, E - 1, E - 2) = LastPage - 1
      /\ E - 1 \in 0..(E - 1) /\ E - 2 \in 0..(E - 1) /\ E - 1 # E - 2
  BY SizesTyped DEF PageOf, LastPage
<1>4. v = LastPage <=> inside /\ i3 = E - 1
  BY <1>1, <1>3, IndexOf
<1>5. v = LastPage - 1 <=> inside /\ i3 = E - 2
  BY <1>1, <1>3, IndexOf
<1> QED
  BY <1>2, <1>3, <1>4, <1>5

LEMMA LastPages ==
  /\ Cardinality(Page) - 1 = LastPage /\ Cardinality(Page) - 2 = LastPage - 1
  /\ LastPage \in Page /\ LastPage - 1 \in Page
<1>1. E * E * E * E - 1 \in Int /\ E * E * E * E \in Nat /\ E * E * E * E >= 2
  <2>1. E * E * E \in Nat \ {0} /\ (E * E * E) * E >= E
    <3>1. \A a \in Nat \ {0} : a * E >= E
      BY SizesTyped
    <3> QED
      BY <3>1, SizesTyped
  <2> QED
    BY <2>1, SizesTyped
<1>2. Cardinality(Page) = E * E * E * E
  BY <1>1, FS_Interval DEF Page
<1> QED
  BY <1>1, <1>2 DEF LastPage, Page

\* A page that is neither memory nor the user's is not mapped.
LEMMA NothingElse ==
  ASSUME Memory, Tables, cr3 = Root, NEW v \in Page, Translate(v) # NoFrame
  PROVE  v \in Frame \cup {LastPage, LastPage - 1}
<1>1. PICK i0, i1, i2, i3 \in 0..(E - 1) : v = PageOf(i0, i1, i2, i3)
  BY IndicesOf
<1> DEFINE e0 == Walk(v)[0]
           e1 == Walk(v)[1]
           e2 == Walk(v)[2]
           e3 == Walk(v)[3]
<1>2. /\ e0 = Read(Root, i0) /\ e1 = Follow(e0, v, 1) /\ e2 = Follow(e1, v, 2) /\ e3 = Follow(e2, v, 3)
      /\ Index(v, 1) = i1 /\ Index(v, 2) = i2 /\ Index(v, 3) = i3
  BY <1>1, IndexOf, WalkEntries, SMTT(40)
<1>3. e0.p = 1 /\ e1.p = 1 /\ e2.p = 1 /\ e3.p = 1
  <2>1. Mapped(Walk(v))
    BY DEF Translate
  <2>2. 0 \in 0..3 /\ 1 \in 0..3 /\ 2 \in 0..3 /\ 3 \in 0..3
    OBVIOUS
  <2> QED
    BY <2>1, <2>2, Zenon DEF Mapped
<1> HIDE DEF e0, e1, e2, e3
<1>4. /\ E - 1 # 0 /\ E - 1 # E - 2 /\ Absent.p = 0
      /\ Root \in 0..(PDs * E * E - 1) /\ Root + 1 \in 0..(PDs * E * E - 1)
      /\ Root + 2 \in 0..(PDs * E * E - 1) /\ Root + 3 \in 0..(PDs * E * E - 1)
      /\ Pointers \in 0..(PDs * E * E - 1)
  BY FramesTyped, SizesTyped DEF Absent
<1>5. e0 = IF i0 = 0 THEN KernelEntry(Pointers)
           ELSE IF i0 = E - 1 THEN UserEntry(Root + 1) ELSE Absent
  BY <1>2, <1>4, Readable DEF Tables
<1>6. CASE i0 = 0
  <2>1. e1 = Read(Pointers, i1)
    BY <1>2, <1>5, <1>6 DEF Follow, KernelEntry
  <2>2. e1 = IF i1 < PDs THEN KernelEntry(Directories + i1) ELSE Absent
    BY <1>4, <2>1, Readable DEF Tables
  <2>3. i1 < PDs
    BY <1>3, <1>4, <2>2
  <2>4. i1 * E + i2 \in 0..(PDs * E - 1)
    BY <2>3, SizesTyped, WordOf
  <2>5. (i1 * E + i2) * E + i3 \in 0..(PDs * E * E - 1)
    BY <2>4, FramesTyped, SizesTyped, WordOf
  <2>6. v = (i1 * E + i2) * E + i3
    BY <1>1, <1>6, SizesTyped DEF PageOf
  <2> QED
    BY <2>5, <2>6 DEF Frame
<1>7. CASE i0 = E - 1
  <2>1. e1 = Read(Root + 1, i1)
    BY <1>2, <1>4, <1>5, <1>7 DEF Follow, UserEntry
  <2>2. e1 = IF i1 = E - 1 THEN UserEntry(Root + 2) ELSE Absent
    BY <1>4, <2>1, Readable DEF Tables
  <2>3. i1 = E - 1 /\ e1 = UserEntry(Root + 2)
    BY <1>3, <1>4, <2>2
  <2>4. e2 = Read(Root + 2, i2)
    BY <1>2, <2>3 DEF Follow, UserEntry
  <2>5. e2 = IF i2 = E - 1 THEN UserEntry(Root + 3) ELSE Absent
    BY <1>4, <2>4, Readable DEF Tables
  <2>6. i2 = E - 1 /\ e2 = UserEntry(Root + 3)
    BY <1>3, <1>4, <2>5
  <2>7. e3 = Read(Root + 3, i3)
    BY <1>2, <2>6 DEF Follow, UserEntry
  <2>8. e3 = IF i3 = E - 1 THEN UserEntry(at.uprogram)
             ELSE IF i3 = E - 2 THEN UserEntry(at.ustack) ELSE Absent
    BY <1>4, <2>7, Readable DEF Tables
  <2>9. i3 \in {E - 1, E - 2}
    BY <1>3, <1>4, <2>8
  <2>10. UserMay(v)
    BY <1>1, <1>7, <2>3, <2>6, <2>9, UserWalk
  <2> QED
    BY <2>10, UserPages
<1> QED
  BY <1>3, <1>4, <1>5, <1>6, <1>7

LEMMA TablesMeanSpaces ==
  ASSUME Memory, Tables, cr3 = Root
  PROVE  AddressSpaces
<1>1. Cardinality(Page) - 1 = LastPage /\ Cardinality(Page) - 2 = LastPage - 1
      /\ LastPage \in Page /\ LastPage - 1 \in Page
  BY LastPages
<1>2. \A f \in Frame : Translate(f) = f /\ ~UserMay(f)
  BY KernelWalk
<1>3. {v \in Page : UserMay(v)} = {LastPage, LastPage - 1}
  BY <1>1, UserPages
<1>4. Translate(LastPage) = at.uprogram /\ Translate(LastPage - 1) = at.ustack
  BY <1>1, UserPages
<1> QED
  BY <1>1, <1>2, <1>3, <1>4 DEF AddressSpaces

-----------------------------------------------------------------------------
(* kernel_init                                                             *)

LEMMA WriteReads ==
  ASSUME NEW m, NEW base, NEW table
  PROVE  /\ DOMAIN Write(m, base, table) = DOMAIN m
         /\ \A a \in DOMAIN m :
              Write(m, base, table)[a] = IF a - base \in DOMAIN table THEN table[a - base] ELSE m[a]
BY DEF Write

LEMMA MapUserReads ==
  ASSUME NEW m, NEW a \in DOMAIN m, m[a] = Absent, NEW frame
  PROVE  /\ DOMAIN MapUser(m, a, frame) = DOMAIN m
         /\ MapUser(m, a, frame)[a] = UserEntry(frame)
         /\ \A b \in DOMAIN m \ {a} : MapUser(m, a, frame)[b] = m[b]
<1> DEFINE entry == [p |-> 1, rw |-> 1, us |-> 1, other |-> m[a].other, page_addr |-> frame]
<1>1. entry = UserEntry(frame)
  BY DEF Absent, UserEntry
<1>2. MapUser(m, a, frame) = [m EXCEPT ![a] = entry]
  BY DEF MapUser
<1> HIDE DEF entry
<1> QED
  BY <1>1, <1>2

\* Where the tables are, as words.
LEMMA Addresses ==
  ASSUME Memory
  PROVE  /\ at.memory * E + PDs * E * E = Directories * E
         /\ Directories * E + PDs * E = Pointers * E
         /\ Pointers * E + E = Root * E /\ Root * E + E = (Root + 1) * E
         /\ (Root + 1) * E + E = (Root + 2) * E /\ (Root + 2) * E + E = (Root + 3) * E
         /\ (Root + 3) * E + E - 1 <= PDs * E * E * E - 1
         /\ at.memory * E \in Nat
BY FramesTyped, SizesTyped

LEMMA FramesOf ==
  ASSUME NEW f \in Nat
  PROVE  (f * E) \div E = f
<1>1. (f * E + 0) \div E = f /\ f * E + 0 = f * E
  BY SizesTyped, IntQuotientIs
<1> QED
  BY <1>1

LEMMA NextFrame ==
  ASSUME NEW f \in Nat, NEW i \in Nat
  PROVE  f * E + E * i = (f + i) * E /\ f + i \in Nat /\ (f * E + E * i) \div E = f + i
<1>1. f * E + E * i = (f + i) * E /\ f + i \in Nat
  BY SizesTyped
<1> QED
  BY <1>1, FramesOf

LEMMA TablesBuilt ==
  ASSUME Memory, kernel_init
  PROVE  Memory' /\ Tables'
<1> DEFINE p == at.memory * E
           pd == p + PDs * E * E
           pdp == pd + PDs * E
           pml == pdp + E
           k1 == Write(mem, p, PTE)
           k2 == Write(k1, pd, PDE(p))
           k3 == Write(k2, pdp, PDPE(pd))
           k4 == Write(k3, pml, PML4E(pdp))
           c1 == Write(k4, pml + E, Cleared)
           c2 == Write(c1, pml + E + E, Cleared)
           c3 == Write(c2, pml + E + E + E, Cleared)
           u1 == MapUser(c3, pml + E - 1, (pml + E) \div E)
           u2 == MapUser(u1, pml + E + E - 1, (pml + E + E) \div E)
           u3 == MapUser(u2, pml + E + E + E - 1, (pml + E + E + E) \div E)
           u4 == MapUser(u3, pml + E + E + E + E - 1, (at.uprogram * E) \div E)
           u5 == MapUser(u4, pml + E + E + E + E - 2, ((at.ustack + 1) * E - E) \div E)
           Word == DOMAIN mem
<1>1. mem' = u5 /\ at' = at
  BY DEF kernel_init, UserTables, KernelTables
<1>2. /\ pd = Directories * E /\ pdp = Pointers * E /\ pml = Root * E
      /\ pml + E = (Root + 1) * E /\ pml + E + E = (Root + 2) * E /\ pml + E + E + E = (Root + 3) * E
      /\ Word = 0..(PDs * E * E * E - 1) /\ pml + E + E + E + E - 1 \in Word /\ p \in Nat
      /\ p \in Int /\ pd \in Int /\ pdp \in Int /\ pml \in Int
  <2>1. /\ pd = Directories * E /\ pdp = Pointers * E /\ pml = Root * E /\ p \in Nat
    BY Addresses
  <2>2. Word = 0..(PDs * E * E * E - 1)
    BY DEF Memory
  <2>3. /\ Directories * E \in Nat /\ Pointers * E \in Nat /\ Root * E \in Nat /\ E \in Nat
        /\ PDs * E * E * E \in Nat
    BY FramesTyped, SizesTyped
  <2> HIDE DEF p, pd, pdp, pml, Word
  <2>4. pml + E = (Root + 1) * E /\ pml + E + E = (Root + 2) * E /\ pml + E + E + E = (Root + 3) * E
    BY <2>1, Addresses
  <2>5. pml + E + E + E + E - 1 \in Word
    <3> DEFINE size == PDs * E * E * E
               last == (Root + 3) * E
    <3>1. last + E - 1 <= size - 1 /\ pml + E + E + E = last /\ Word = 0..(size - 1)
      BY <2>2, <2>4, Addresses
    <3>2. size \in Nat /\ E \in Nat /\ E > 1 /\ pml \in Nat
      BY <2>1, <2>3, SizesTyped
    <3> HIDE DEF size, last
    <3> QED
      BY <3>1, <3>2
  <2> QED
    BY <2>1, <2>2, <2>3, <2>4, <2>5
<1>3. /\ DOMAIN PTE = 0..(PDs * E * E - 1) /\ DOMAIN PDE(p) = 0..(PDs * E - 1)
      /\ DOMAIN PDPE(pd) = 0..(E - 1) /\ DOMAIN PML4E(pdp) = 0..(E - 1) /\ DOMAIN Cleared = 0..(E - 1)
  BY DEF PTE, PDE, PDPE, PML4E, Cleared
<1> HIDE DEF Word, p, pd, pdp, pml
<1>4. ASSUME NEW m, DOMAIN m = Word, NEW base, NEW table
      PROVE  /\ DOMAIN Write(m, base, table) = Word
             /\ \A a \in Word :
                  Write(m, base, table)[a] = IF a - base \in DOMAIN table THEN table[a - base] ELSE m[a]
  BY <1>4, WriteReads
<1>5. /\ DOMAIN k1 = Word /\ DOMAIN k2 = Word /\ DOMAIN k3 = Word /\ DOMAIN k4 = Word
      /\ DOMAIN c1 = Word /\ DOMAIN c2 = Word /\ DOMAIN c3 = Word
      /\ \A a \in Word : k1[a] = IF a - (p) \in DOMAIN PTE THEN PTE[a - (p)] ELSE mem[a]
      /\ \A a \in Word : k2[a] = IF a - (pd) \in DOMAIN PDE(p) THEN PDE(p)[a - (pd)] ELSE k1[a]
      /\ \A a \in Word : k3[a] = IF a - (pdp) \in DOMAIN PDPE(pd) THEN PDPE(pd)[a - (pdp)] ELSE k2[a]
      /\ \A a \in Word : k4[a] = IF a - (pml) \in DOMAIN PML4E(pdp) THEN PML4E(pdp)[a - (pml)] ELSE k3[a]
      /\ \A a \in Word : c1[a] = IF a - (pml + E) \in DOMAIN Cleared THEN Cleared[a - (pml + E)] ELSE k4[a]
      /\ \A a \in Word : c2[a] = IF a - (pml + E + E) \in DOMAIN Cleared THEN Cleared[a - (pml + E + E)] ELSE c1[a]
      /\ \A a \in Word : c3[a] = IF a - (pml + E + E + E) \in DOMAIN Cleared THEN Cleared[a - (pml + E + E + E)] ELSE c2[a]
  <2>1. /\ DOMAIN k1 = Word
        /\ \A a \in Word : k1[a] = IF a - (p) \in DOMAIN PTE THEN PTE[a - (p)] ELSE mem[a]
    BY <1>4 DEF Word
  <2> HIDE DEF k1
  <2>2. /\ DOMAIN k2 = Word
        /\ \A a \in Word : k2[a] = IF a - (pd) \in DOMAIN PDE(p) THEN PDE(p)[a - (pd)] ELSE k1[a]
    BY <1>4, <2>1
  <2> HIDE DEF k2
  <2>3. /\ DOMAIN k3 = Word
        /\ \A a \in Word : k3[a] = IF a - (pdp) \in DOMAIN PDPE(pd) THEN PDPE(pd)[a - (pdp)] ELSE k2[a]
    BY <1>4, <2>2
  <2> HIDE DEF k3
  <2>4. /\ DOMAIN k4 = Word
        /\ \A a \in Word : k4[a] = IF a - (pml) \in DOMAIN PML4E(pdp) THEN PML4E(pdp)[a - (pml)] ELSE k3[a]
    BY <1>4, <2>3
  <2> HIDE DEF k4
  <2>5. /\ DOMAIN c1 = Word
        /\ \A a \in Word : c1[a] = IF a - (pml + E) \in DOMAIN Cleared THEN Cleared[a - (pml + E)] ELSE k4[a]
    BY <1>4, <2>4
  <2> HIDE DEF c1
  <2>6. /\ DOMAIN c2 = Word
        /\ \A a \in Word : c2[a] = IF a - (pml + E + E) \in DOMAIN Cleared THEN Cleared[a - (pml + E + E)] ELSE c1[a]
    BY <1>4, <2>5
  <2> HIDE DEF c2
  <2>7. /\ DOMAIN c3 = Word
        /\ \A a \in Word : c3[a] = IF a - (pml + E + E + E) \in DOMAIN Cleared THEN Cleared[a - (pml + E + E + E)] ELSE c2[a]
    BY <1>4, <2>6
  <2> HIDE DEF c3
  <2> QED
    BY <2>1, <2>2, <2>3, <2>4, <2>5, <2>6, <2>7
<1> DEFINE sizeP == PDs * E * E
           sizeD == PDs * E
<1>6. /\ pd = p + sizeP /\ pdp = pd + sizeD /\ pml = pdp + E
      /\ sizeP \in Nat /\ sizeD \in Nat /\ E \in Nat /\ E > 1 /\ p \in Nat
      /\ \A a : a \in Int /\ p <= a /\ a < pml + E + E + E + E => a \in Word
      /\ DOMAIN PTE = 0..(sizeP - 1) /\ DOMAIN PDE(p) = 0..(sizeD - 1)
  <2>1. pd = p + sizeP /\ pdp = pd + sizeD /\ pml = pdp + E
    BY DEF pd, pdp, pml
  <2>2. sizeP \in Nat /\ sizeD \in Nat /\ E \in Nat /\ E > 1
    BY FramesTyped, SizesTyped
  <2>3. DOMAIN PTE = 0..(sizeP - 1) /\ DOMAIN PDE(p) = 0..(sizeD - 1)
    BY <1>3
  <2>4. PICK n \in Int : Word = 0..n
    BY <1>2, FramesTyped
  <2> HIDE DEF sizeP, sizeD
  <2>5. ASSUME NEW a \in Int, p <= a, a < pml + E + E + E + E
        PROVE  a \in Word
    <3>1. p \in Nat /\ pml \in Int /\ pml + E + E + E + E - 1 \in Word
      BY <1>2
    <3> QED
      BY <2>2, <2>4, <2>5, <3>1
  <2> QED
    BY <1>2, <2>1, <2>2, <2>3, <2>5
<1> HIDE DEF k1, k2, k3, k4, c1, c2, c3, sizeP, sizeD
\* What the tables hold before the user's entries.
<1>7. ASSUME NEW a \in Int, p <= a, a < pml + E + E + E + E
      PROVE  c3[a] = IF a < pd THEN PTE[a - p]
                     ELSE IF a < pdp THEN PDE(p)[a - pd]
                     ELSE IF a < pml THEN PDPE(pd)[a - pdp]
                     ELSE IF a < pml + E THEN PML4E(pdp)[a - pml]
                     ELSE Absent
  <2>1. a \in Word
    BY <1>6, <1>7
  <2>2. /\ p \in Int /\ pd \in Int /\ pdp \in Int /\ pml \in Int /\ E \in Int
        /\ sizeP \in Int /\ sizeD \in Int /\ pd = p + sizeP /\ pdp = pd + sizeD /\ pml = pdp + E
        /\ p <= pd /\ pd <= pdp /\ pdp < pml
    BY <1>6
  <2>3. DOMAIN PDPE(pd) = 0..(E - 1) /\ DOMAIN PML4E(pdp) = 0..(E - 1)
    BY <1>3
  <2>4. a - p \in DOMAIN PTE <=> a < pd
    BY <1>6, <1>7, <2>2
  <2>5. a - pd \in DOMAIN PDE(p) <=> (pd <= a /\ a < pdp)
    BY <1>6, <1>7, <2>2
  <2>6. a - pdp \in DOMAIN PDPE(pd) <=> (pdp <= a /\ a < pml)
    BY <1>7, <2>2, <2>3
  <2>7. a - pml \in DOMAIN PML4E(pdp) <=> (pml <= a /\ a < pml + E)
    BY <1>7, <2>2, <2>3
  <2>8. /\ a - (pml + E) \in DOMAIN Cleared <=> pml + E <= a /\ a < pml + E + E
        /\ a - (pml + E + E) \in DOMAIN Cleared <=> pml + E + E <= a /\ a < pml + E + E + E
        /\ a - (pml + E + E + E) \in DOMAIN Cleared <=> pml + E + E + E <= a
    BY <1>3, <1>6, <1>7
  <2>9. /\ k1[a] = IF a - p \in DOMAIN PTE THEN PTE[a - p] ELSE mem[a]
        /\ k2[a] = IF a - pd \in DOMAIN PDE(p) THEN PDE(p)[a - pd] ELSE k1[a]
        /\ k3[a] = IF a - pdp \in DOMAIN PDPE(pd) THEN PDPE(pd)[a - pdp] ELSE k2[a]
        /\ k4[a] = IF a - pml \in DOMAIN PML4E(pdp) THEN PML4E(pdp)[a - pml] ELSE k3[a]
    BY <1>5, <2>1
  <2>10. /\ c1[a] = IF a - (pml + E) \in DOMAIN Cleared THEN Cleared[a - (pml + E)] ELSE k4[a]
         /\ c2[a] = IF a - (pml + E + E) \in DOMAIN Cleared THEN Cleared[a - (pml + E + E)] ELSE c1[a]
         /\ c3[a] = IF a - (pml + E + E + E) \in DOMAIN Cleared
                    THEN Cleared[a - (pml + E + E + E)] ELSE c2[a]
    BY <1>5, <2>1
  <2>11. \A i \in DOMAIN Cleared : Cleared[i] = Absent
    BY DEF Cleared
  <2>12. k4[a] = IF a < pd THEN PTE[a - p]
                 ELSE IF a < pdp THEN PDE(p)[a - pd]
                 ELSE IF a < pml THEN PDPE(pd)[a - pdp]
                 ELSE IF a < pml + E THEN PML4E(pdp)[a - pml]
                 ELSE k3[a]
    BY <1>7, <2>2, <2>9, <2>4, <2>5, <2>6, <2>7
  <2>13. c3[a] = IF a < pml + E THEN k4[a] ELSE Absent
    BY <1>6, <1>7, <2>8, <2>10, <2>11, SMTT(40)
  <2> QED
    BY <1>6, <2>12, <2>13
<1>8. /\ \A i \in 0..(sizeP - 1) : c3[p + i] = PTE[i]
      /\ \A i \in 0..(sizeD - 1) : c3[pd + i] = PDE(p)[i]
      /\ \A i \in 0..(E - 1) :
           /\ c3[pdp + i] = PDPE(pd)[i] /\ c3[pml + i] = PML4E(pdp)[i]
           /\ c3[pml + E + i] = Absent /\ c3[pml + E + E + i] = Absent
           /\ c3[pml + E + E + E + i] = Absent
  <2>1. ASSUME NEW i \in 0..(sizeP - 1)
        PROVE  c3[p + i] = PTE[i]
    <3>1. p + i \in Int /\ p <= p + i /\ p + i < pd /\ p + i < pml + E + E + E + E /\ (p + i) - p = i
      BY <1>6
    <3> QED
      BY <1>7, <3>1
  <2>2. ASSUME NEW i \in 0..(sizeD - 1)
        PROVE  c3[pd + i] = PDE(p)[i]
    <3>1. /\ pd + i \in Int /\ p <= pd + i /\ ~(pd + i < pd) /\ pd + i < pdp
          /\ pd + i < pml + E + E + E + E /\ (pd + i) - pd = i
      BY <1>6
    <3> QED
      BY <1>7, <3>1
  <2>3. ASSUME NEW i \in 0..(E - 1)
        PROVE  c3[pdp + i] = PDPE(pd)[i] /\ c3[pml + i] = PML4E(pdp)[i]
    <3>1. /\ pdp + i \in Int /\ p <= pdp + i /\ ~(pdp + i < pd) /\ ~(pdp + i < pdp) /\ pdp + i < pml
          /\ pdp + i < pml + E + E + E + E /\ (pdp + i) - pdp = i
      BY <1>6
    <3>2. /\ pml + i \in Int /\ p <= pml + i /\ ~(pml + i < pd) /\ ~(pml + i < pdp) /\ ~(pml + i < pml)
          /\ pml + i < pml + E /\ pml + i < pml + E + E + E + E /\ (pml + i) - pml = i
      BY <1>6
    <3> QED
      BY <1>7, <3>1, <3>2
  <2>4. ASSUME NEW a \in Int, pml + E <= a, a < pml + E + E + E + E
        PROVE  c3[a] = Absent
    <3>1. p <= a /\ ~(a < pd) /\ ~(a < pdp) /\ ~(a < pml) /\ ~(a < pml + E)
      BY <1>6, <2>4
    <3> QED
      BY <1>7, <2>4, <3>1
  <2>5. ASSUME NEW i \in 0..(E - 1)
        PROVE  /\ c3[pml + E + i] = Absent /\ c3[pml + E + E + i] = Absent
               /\ c3[pml + E + E + E + i] = Absent
    BY <1>6, <2>4
  <2> QED
    BY <2>1, <2>2, <2>3, <2>5
\* The user's entries.
<1> DEFINE x1 == pml + E - 1
           x2 == pml + E + E - 1
           x3 == pml + E + E + E - 1
           x4 == pml + E + E + E + E - 1
           x5 == pml + E + E + E + E - 2
<1>9. /\ x1 \in Word /\ x2 \in Word /\ x3 \in Word /\ x4 \in Word /\ x5 \in Word
      /\ x1 < x2 /\ x2 < x3 /\ x3 < x5 /\ x5 < x4
      /\ x1 \in Int /\ x2 \in Int /\ x3 \in Int /\ x4 \in Int /\ x5 \in Int
      /\ c3[x1] = Absent /\ c3[x2] = Absent /\ c3[x3] = Absent /\ c3[x4] = Absent /\ c3[x5] = Absent
  <2>1. /\ x1 = pml + (E - 1) /\ x2 = pml + E + (E - 1) /\ x3 = pml + E + E + (E - 1)
        /\ x4 = pml + E + E + E + (E - 1) /\ x5 = pml + E + E + E + (E - 2)
        /\ E - 1 \in 0..(E - 1) /\ E - 2 \in 0..(E - 1)
    BY <1>6
  <2>2. c3[x1] = Absent
    <3>1. PML4E(pdp)[E - 1] = Absent
      BY <1>6, <2>1 DEF PML4E
    <3> QED
      BY <1>8, <2>1, <3>1
  <2>3. c3[x2] = Absent /\ c3[x3] = Absent /\ c3[x4] = Absent /\ c3[x5] = Absent
    BY <1>8, <2>1
  <2>4. x1 \in Word /\ x2 \in Word /\ x3 \in Word /\ x4 \in Word /\ x5 \in Word
    BY <1>6
  <2>5. /\ x1 < x2 /\ x2 < x3 /\ x3 < x5 /\ x5 < x4
        /\ x1 \in Int /\ x2 \in Int /\ x3 \in Int /\ x4 \in Int /\ x5 \in Int
    BY <1>6
  <2> QED
    BY <2>2, <2>3, <2>4, <2>5
<1>10. /\ u1 = MapUser(c3, x1, Root + 1) /\ u2 = MapUser(u1, x2, Root + 2) /\ u3 = MapUser(u2, x3, Root + 3)
       /\ u4 = MapUser(u3, x4, at.uprogram) /\ u5 = MapUser(u4, x5, at.ustack)
  <2>1. (pml + E) \div E = Root + 1 /\ (pml + E + E) \div E = Root + 2 /\ (pml + E + E + E) \div E = Root + 3
    <3>1. Root \in Nat
      BY FramesTyped
    <3>2. Root + 1 \in Nat /\ Root + 2 \in Nat /\ Root + 3 \in Nat
      BY <3>1
    <3>3. /\ ((Root + 1) * E) \div E = Root + 1 /\ ((Root + 2) * E) \div E = Root + 2
          /\ ((Root + 3) * E) \div E = Root + 3
      BY <3>2, FramesOf, Zenon
    <3> QED
      BY <1>2, <3>3, Zenon
  <2>2. (at.uprogram * E) \div E = at.uprogram /\ ((at.ustack + 1) * E - E) \div E = at.ustack
    <3>1. (at.ustack + 1) * E - E = at.ustack * E /\ at.ustack \in Nat /\ at.uprogram \in Nat
      BY FramesTyped, SizesTyped
    <3> QED
      BY <3>1, FramesOf
  <2> HIDE DEF u1, u2, u3, u4, u5
  <2> QED
    BY <2>1, <2>2, Zenon DEF u1, u2, u3, u4, u5
<1> HIDE DEF x1, x2, x3, x4, x5, u1, u2, u3, u4, u5
<1>11. /\ DOMAIN u5 = Word
       /\ u5[x1] = UserEntry(Root + 1) /\ u5[x2] = UserEntry(Root + 2) /\ u5[x3] = UserEntry(Root + 3)
       /\ u5[x4] = UserEntry(at.uprogram) /\ u5[x5] = UserEntry(at.ustack)
       /\ \A a \in Word \ {x1, x2, x3, x4, x5} : u5[a] = c3[a]
  <2>1. DOMAIN u1 = Word /\ u1[x1] = UserEntry(Root + 1) /\ \A a \in Word \ {x1} : u1[a] = c3[a]
    BY <1>5, <1>9, <1>10, MapUserReads
  <2>2. DOMAIN u2 = Word /\ u2[x2] = UserEntry(Root + 2) /\ \A a \in Word \ {x2} : u2[a] = u1[a]
    BY <1>9, <1>10, <2>1, MapUserReads
  <2>3. DOMAIN u3 = Word /\ u3[x3] = UserEntry(Root + 3) /\ \A a \in Word \ {x3} : u3[a] = u2[a]
    BY <1>9, <1>10, <2>1, <2>2, MapUserReads
  <2>4. DOMAIN u4 = Word /\ u4[x4] = UserEntry(at.uprogram) /\ \A a \in Word \ {x4} : u4[a] = u3[a]
    BY <1>9, <1>10, <2>1, <2>2, <2>3, MapUserReads
  <2>5. DOMAIN u5 = Word /\ u5[x5] = UserEntry(at.ustack) /\ \A a \in Word \ {x5} : u5[a] = u4[a]
    BY <1>9, <1>10, <2>1, <2>2, <2>3, <2>4, MapUserReads
  <2> QED
    BY <1>9, <2>1, <2>2, <2>3, <2>4, <2>5
<1>12. Memory'
  BY <1>1, <1>11 DEF Memory, Word
<1>13. /\ \A i \in 0..(sizeP - 1) : u5[p + i] = KernelEntry(i)
       /\ \A i \in 0..(sizeD - 1) : u5[pd + i] = KernelEntry(at.memory + i)
  <2>1. ASSUME NEW a \in Int, p <= a, a < pml
        PROVE  u5[a] = c3[a]
    <3>1. a \in Word /\ a < x1 /\ a \notin {x1, x2, x3, x4, x5}
      BY <1>6, <1>9, <2>1, SMTT(40) DEF x1
    <3> QED
      BY <1>11, <3>1
  <2>2. ASSUME NEW i \in 0..(sizeP - 1)
        PROVE  u5[p + i] = KernelEntry(i)
    <3>1. u5[p + i] = c3[p + i]
      <4>1. p + i \in Int /\ p <= p + i /\ p + i < pml
        BY <1>6
      <4> HIDE DEF u5, c3, p, pml
      <4> QED
        BY <2>1, <4>1
    <3>2. PTE[i] = KernelEntry(i)
      BY DEF PTE, sizeP
    <3> QED
      BY <1>8, <3>1, <3>2
  <2>3. ASSUME NEW i \in 0..(sizeD - 1)
        PROVE  u5[pd + i] = KernelEntry(at.memory + i)
    <3>1. u5[pd + i] = c3[pd + i]
      <4>1. pd + i \in Int /\ p <= pd + i /\ pd + i < pdp /\ pdp \in Int /\ pml = pdp + E /\ E \in Nat
        BY <1>6
      <4>2. pd + i < pml
        BY <4>1
      <4> HIDE DEF u5, c3, p, pd, pml, pdp
      <4> QED
        BY <2>1, <4>1, <4>2
    <3>2. i \in Nat /\ at.memory \in Nat
      BY <1>6, FramesTyped
    <3>3. (p + E * i) \div E = at.memory + i
      BY <3>2, NextFrame DEF p
    <3>4. PDE(p)[i] = KernelEntry((p + E * i) \div E)
      BY DEF PDE, sizeD
    <3> QED
      BY <1>8, <3>1, <3>3, <3>4
  <2> QED
    BY <2>2, <2>3
<1>14. ASSUME NEW i \in 0..(E - 1)
       PROVE  /\ u5[pdp + i] = IF i < PDs THEN KernelEntry(Directories + i) ELSE Absent
              /\ u5[pml + i] = IF i = 0 THEN KernelEntry(Pointers)
                               ELSE IF i = E - 1 THEN UserEntry(Root + 1) ELSE Absent
  <2>1. u5[pdp + i] = c3[pdp + i]
    <3>1. pdp + i \in Word /\ pdp + i < x1 /\ pdp + i \notin {x1, x2, x3, x4, x5}
      BY <1>6, <1>9 DEF x1
    <3> QED
      BY <1>11, <3>1
  <2>2. PDPE(pd)[i] = IF i < PDs THEN KernelEntry(Directories + i) ELSE Absent
    <3>1. i \in Nat /\ Directories \in Nat /\ pd = Directories * E
      BY <1>2, <1>6, FramesTyped
    <3>2. (pd + E * i) \div E = Directories + i
      BY <3>1, NextFrame
    <3> QED
      BY <3>2 DEF PDPE
  <2>3. i # E - 1 => u5[pml + i] = c3[pml + i]
    <3>1. i # E - 1 => pml + i \in Word /\ pml + i < x1 /\ pml + i \notin {x1, x2, x3, x4, x5}
      BY <1>6, <1>9 DEF x1
    <3> QED
      BY <1>11, <3>1
  <2>4. PML4E(pdp)[i] = IF i = 0 THEN KernelEntry(Pointers) ELSE Absent
    <3>1. i < 1 <=> i = 0
      BY <1>6
    <3>2. i = 0 => pdp + E * i = Pointers * E
      BY <1>2, SizesTyped
    <3>3. (Pointers * E) \div E = Pointers
      BY FramesTyped, FramesOf
    <3> QED
      BY <3>1, <3>2, <3>3 DEF PML4E
  <2>5. pml + (E - 1) = x1 /\ E - 1 # 0
    BY <1>6 DEF x1
  <2> QED
    BY <1>8, <1>11, <2>1, <2>2, <2>3, <2>4, <2>5
<1>15. ASSUME NEW i \in 0..(E - 1)
       PROVE  /\ u5[pml + E + i] = IF i = E - 1 THEN UserEntry(Root + 2) ELSE Absent
              /\ u5[pml + E + E + i] = IF i = E - 1 THEN UserEntry(Root + 3) ELSE Absent
              /\ u5[pml + E + E + E + i] = IF i = E - 1 THEN UserEntry(at.uprogram)
                                           ELSE IF i = E - 2 THEN UserEntry(at.ustack) ELSE Absent
  <2>1. /\ pml + E + (E - 1) = x2 /\ pml + E + E + (E - 1) = x3
        /\ pml + E + E + E + (E - 1) = x4 /\ pml + E + E + E + (E - 2) = x5 /\ E - 1 # E - 2
    BY <1>6 DEF x2, x3, x4, x5
  <2>2. i # E - 1 => u5[pml + E + i] = c3[pml + E + i]
    <3>1. i # E - 1 => pml + E + i \in Word /\ x1 < pml + E + i /\ pml + E + i < x2
      BY <1>6 DEF x1, x2
    <3> QED
      BY <1>6, <1>9, <1>11, <3>1, SMTT(40)
  <2>3. i # E - 1 => u5[pml + E + E + i] = c3[pml + E + E + i]
    <3>1. i # E - 1 => pml + E + E + i \in Word /\ x2 < pml + E + E + i /\ pml + E + E + i < x3
      BY <1>6 DEF x2, x3
    <3> QED
      BY <1>6, <1>9, <1>11, <3>1
  <2>4. i # E - 1 /\ i # E - 2 => u5[pml + E + E + E + i] = c3[pml + E + E + E + i]
    <3>1. i # E - 1 /\ i # E - 2 =>
            pml + E + E + E + i \in Word /\ x3 < pml + E + E + E + i /\ pml + E + E + E + i < x5
      BY <1>6 DEF x3, x5
    <3> QED
      BY <1>6, <1>9, <1>11, <3>1, SMTT(40)
  <2> QED
    BY <1>8, <1>11, <2>1, <2>2, <2>3, <2>4
<1>16. Tables'
  <2>1. /\ Directories' = Directories /\ Pointers' = Pointers /\ Root' = Root
        /\ at'.memory = at.memory /\ at'.uprogram = at.uprogram /\ at'.ustack = at.ustack
    BY <1>1 DEF Directories, Pointers, Root
  <2> QED
    BY <1>1, <1>2, <1>13, <1>14, <1>15, <2>1, SMTT(40) DEF Tables, p, sizeP, sizeD
<1> QED
  BY <1>12, <1>16

-----------------------------------------------------------------------------
(* What the user reaches                                                   *)

\* The addresses of the last two pages.
UserBytes == (Top - 2 * PAGE)..(Top - 1)

LEMMA SpacesTyped ==
  /\ PAGE \in Nat \ {0} /\ PAGE >= 16 /\ Top = (LastPage + 1) * PAGE /\ LastPage \in Nat /\ LastPage >= 2
  /\ Top \in Nat /\ Top - 2 * PAGE = (LastPage - 1) * PAGE /\ Top - PAGE = LastPage * PAGE
  /\ Top - 2 * PAGE >= 8
<1>1. PAGE \in Nat \ {0} /\ PAGE >= 16
  BY SizesTyped DEF PAGE
<1>2. LastPage \in Nat /\ LastPage >= 2
  <2>1. \A a \in Nat \ {0} : E * a >= 2 * a
    BY SizesTyped
  <2>2. E * E \in Nat \ {0} /\ E * E >= 4
    BY SizesTyped, <2>1
  <2>3. E * (E * E) >= 2 * (E * E)
    BY <2>1, <2>2
  <2>4. E * (E * E * E) >= 2 * (E * E * E)
    BY <2>1, SizesTyped
  <2> QED
    BY <2>2, <2>3, <2>4, SizesTyped DEF LastPage
<1>3. Top = (LastPage + 1) * PAGE
  BY SizesTyped DEF Top, LastPage
<1>4. Top \in Nat /\ Top - 2 * PAGE = (LastPage - 1) * PAGE /\ Top - PAGE = LastPage * PAGE
  BY <1>1, <1>2, <1>3
<1>5. (LastPage - 1) * PAGE >= PAGE
  <2>1. PAGE * (LastPage - 1) >= PAGE
    BY <1>1, <1>2, ProductBound
  <2> QED
    BY <1>1, <1>2, <2>1
<1> QED
  BY <1>1, <1>2, <1>3, <1>4, <1>5

LEMMA PageOfByte ==
  ASSUME NEW a \in 0..(Top - 1)
  PROVE  /\ a \div PAGE \in Page
         /\ a \div PAGE \in {LastPage, LastPage - 1} <=> a \in UserBytes
<1> DEFINE q == a \div PAGE
           r == a % PAGE
<1>1. q \in Int /\ r \in 0..(PAGE - 1) /\ a = q * PAGE + r /\ a \in Int /\ PAGE \in Nat
  BY IntQuotient, SpacesTyped
<1> HIDE DEF q, r
<1>2. q >= 0
  <2>1. q <= -1 => PAGE * q <= -PAGE
    BY <1>1, ProductBound
  <2> QED
    BY <1>1, <2>1
<1>3. ASSUME NEW k \in Int, q >= k
      PROVE  a >= k * PAGE
  <2>1. PAGE * (q - k) >= 0
    BY <1>1, <1>3
  <2>2. PAGE * (q - k) = q * PAGE - k * PAGE
    BY <1>1
  <2> QED
    BY <1>1, <2>1, <2>2
<1>4. ASSUME NEW k \in Int, q < k
      PROVE  a < k * PAGE
  <2>1. PAGE * (k - q) >= PAGE
    BY <1>1, <1>4, ProductBound
  <2>2. PAGE * (k - q) = k * PAGE - q * PAGE
    BY <1>1
  <2> QED
    BY <1>1, <2>1, <2>2
<1>5. q <= LastPage
  BY <1>1, <1>3, SpacesTyped
<1>6. q \in Page
  BY <1>1, <1>2, <1>5 DEF Page, LastPage
<1>7. q \in {LastPage, LastPage - 1} <=> a \in UserBytes
  BY <1>1, <1>3, <1>4, <1>5, SpacesTyped DEF UserBytes
<1> QED
  BY <1>6, <1>7 DEF q

LEMMA PhysicalOf ==
  ASSUME Memory, Tables, cr3 = Root, NEW a \in Int, a \div PAGE \in Page, UserMay(a \div PAGE)
  PROVE  \E f \in {at.uprogram, at.ustack}, i \in 0..(E - 1) : Physical(a) = f * E + i
<1>1. Translate(a \div PAGE) \in {at.uprogram, at.ustack}
  BY UserPages
<1>2. (a % PAGE) \div 8 \in 0..(E - 1)
  <2> DEFINE r == a % PAGE
             q == r \div 8
  <2>1. r \in 0..(8 * E - 1)
    BY IntQuotient, SpacesTyped DEF PAGE
  <2> HIDE DEF r
  <2>2. r \in Int /\ 8 \in Nat \ {0}
    BY <2>1
  <2>3. q \in Int /\ r % 8 \in 0..(8 - 1) /\ r = q * 8 + (r % 8)
    BY <2>2, IntQuotient
  <2> HIDE DEF q
  <2>4. q \in 0..(E - 1)
    BY <2>1, <2>3, SizesTyped
  <2> QED
    BY <2>4 DEF q, r
<1> QED
  BY <1>1, <1>2 DEF Physical

\* A word of a user's page is no word of the tables, and is in its own frame.
LEMMA UserWords ==
  ASSUME Memory, NEW f \in {at.uprogram, at.ustack}, NEW i \in 0..(E - 1)
  PROVE  /\ f * E + i < at.memory * E \/ f * E + i >= (Root + 3) * E + E
         /\ (f * E + i) \div E = f /\ f * E + i \in Int
<1>1. f \in Nat /\ (f < at.memory \/ f > Root + 3) /\ at.memory \in Nat /\ Root \in Nat
  BY FramesTyped
<1>2. ASSUME NEW g \in Nat, f < g
      PROVE  f * E + i < g * E
  <2>1. E * (g - f) >= E
    BY <1>1, <1>2, SizesTyped, ProductBound
  <2>2. E * (g - f) = g * E - f * E
    BY <1>1, SizesTyped
  <2> QED
    BY <1>1, <2>1, <2>2, SizesTyped
<1>3. ASSUME f > Root + 3
      PROVE  f * E + i >= (Root + 3) * E + E
  <2>1. Root + 3 \in Nat /\ f - (Root + 3) \in Int /\ f - (Root + 3) >= 1
    BY <1>1, <1>3
  <2> DEFINE g == Root + 3
  <2> HIDE DEF g
  <2>2. E * (f - g) >= E /\ E * (f - g) = f * E - g * E
    BY <1>1, <2>1, SizesTyped, ProductBound DEF g
  <2>3. f * E + i >= g * E + E
    BY <1>1, <2>1, <2>2, SizesTyped DEF g
  <2> QED
    BY <2>3 DEF g
<1>4. f \in Int /\ f * E + i \in Int
  BY <1>1, SizesTyped
<1>5. (f * E + i) \div E = f
  BY <1>4, SizesTyped, IntQuotientIs
<1> QED
  BY <1>1, <1>2, <1>3, <1>4, <1>5

LEMMA TablesKept ==
  ASSUME Memory, Tables, UNCHANGED at,
         \A a \in Int : at.memory * E <= a /\ a < (Root + 3) * E + E => mem'[a] = mem[a]
  PROVE  Tables'
<1>1. /\ Directories' = Directories /\ Pointers' = Pointers /\ Root' = Root
      /\ at'.memory = at.memory /\ at'.uprogram = at.uprogram /\ at'.ustack = at.ustack
  BY DEF Directories, Pointers, Root
<1> DEFINE p == at.memory * E
           pd == Directories * E
           pdp == Pointers * E
           r == Root * E
           r1 == (Root + 1) * E
           r2 == (Root + 2) * E
           r3 == (Root + 3) * E
           sizeP == PDs * E * E
           sizeD == PDs * E
<1>2. /\ pd = p + sizeP /\ pdp = pd + sizeD /\ r = pdp + E /\ r1 = r + E /\ r2 = r1 + E /\ r3 = r2 + E
      /\ p \in Nat /\ sizeP \in Nat /\ sizeD \in Nat /\ E \in Nat
  BY Addresses, FramesTyped, SizesTyped
<1>3. \A a \in Int : p <= a /\ a < r3 + E => mem'[a] = mem[a]
  OBVIOUS
<1> HIDE DEF p, pd, pdp, r, r1, r2, r3, sizeP, sizeD
<1>4. \A i \in 0..(sizeP - 1) : mem'[p + i] = mem[p + i]
  BY <1>2, <1>3
<1>5. \A i \in 0..(sizeD - 1) : mem'[pd + i] = mem[pd + i]
  BY <1>2, <1>3
<1>6. \A i \in 0..(E - 1) : mem'[pdp + i] = mem[pdp + i] /\ mem'[r + i] = mem[r + i]
  BY <1>2, <1>3
<1>7. \A i \in 0..(E - 1) :
        mem'[r1 + i] = mem[r1 + i] /\ mem'[r2 + i] = mem[r2 + i] /\ mem'[r3 + i] = mem[r3 + i]
  BY <1>2, <1>3
<1>8. /\ \A i \in 0..(PDs * E * E - 1) : mem'[at.memory * E + i] = KernelEntry(i)
      /\ \A i \in 0..(PDs * E - 1) : mem'[Directories * E + i] = KernelEntry(at.memory + i)
  BY <1>4, <1>5 DEF Tables, p, pd, sizeP, sizeD
<1>9. ASSUME NEW i \in 0..(E - 1)
      PROVE  /\ mem'[Pointers * E + i] = mem[Pointers * E + i]
             /\ mem'[Root * E + i] = mem[Root * E + i]
             /\ mem'[(Root + 1) * E + i] = mem[(Root + 1) * E + i]
             /\ mem'[(Root + 2) * E + i] = mem[(Root + 2) * E + i]
             /\ mem'[(Root + 3) * E + i] = mem[(Root + 3) * E + i]
  BY <1>6, <1>7 DEF pdp, r, r1, r2, r3
<1> QED
  BY <1>1, <1>8, <1>9, ZenonT(60) DEF Tables

-----------------------------------------------------------------------------
(* The inductive invariant                                                 *)

IsCpu(c) == c = [regs |-> c.regs, rsp |-> c.rsp, rip |-> c.rip, rax |-> c.rax]

\* The system call under way: where it came from, and the string it names.
CallMade ==
  /\ asked.string \in String
  /\ IsCpu(asked.cpu) /\ asked.cpu.rsp \in UserBytes
  /\ asked.cpu.regs = [r \in Register |-> asked.cpu.regs[r]]
  /\ asked.cpu.regs["rcx"] = "next"

\* The caller's registers and stack pointer, where the kernel has put them.
CallSaved ==
  /\ user_stack = asked.cpu.rsp
  /\ kstack = [i \in DOMAIN Saved |-> asked.cpu.regs[Saved[i]]]

PagingOn == Tables /\ page_table = Root /\ user_program = Top - PAGE

KernelInv ==
  /\ Memory /\ IsCpu(cpu)
  /\ phase \in {"init", "load", "jump", "user", "entry", "call", "return", "fault"}
  /\ phase \in {"init", "load"} => cr3 = NoFrame
  /\ phase # "init" => PagingOn
  /\ phase \notin {"init", "load"} => cr3 = Root
  /\ phase \in {"load", "jump"} => user_stack = Top - 1
  /\ phase = "user" => cpu.rsp \in UserBytes
  /\ phase \in {"entry", "call", "return"} => CallMade
  /\ phase = "entry" => cpu = asked.cpu
  /\ phase \in {"call", "return"} => CallSaved

LEMMA KernelStarts ==
  ASSUME PagingInit
  PROVE  KernelInv
<1>1. Memory
  BY DEF PagingInit, Memory
<1>2. IsCpu(cpu)
  BY DEF PagingInit, IsCpu
<1> QED
  BY <1>1, <1>2 DEF PagingInit, KernelInv

LEMMA InvMeansSpaces ==
  ASSUME KernelInv
  PROVE  AddressSpaces
<1>1. CASE cr3 = NoFrame
  BY <1>1 DEF AddressSpaces
<1>2. CASE cr3 # NoFrame
  <2>1. Memory /\ Tables /\ cr3 = Root
    BY <1>2 DEF KernelInv, PagingOn
  <2> QED
    BY <2>1, TablesMeanSpaces
<1> QED
  BY <1>1, <1>2

\* What the user stores lands in its own two pages, or nowhere.
LEMMA StoreKept ==
  ASSUME Memory, Tables, cr3 = Root, UNCHANGED at,
         NEW first \in Int, NEW last \in Int, first \div PAGE \in Page, last \div PAGE \in Page,
         StoreBytes(first, last)
  PROVE  /\ Memory' /\ Tables'
         /\ \A a \in DOMAIN mem : mem'[a] # mem[a] => a \div E \in {at.uprogram, at.ustack}
         /\ (phase' = phase /\ UserMay(first \div PAGE)) \/ phase' = "fault"
<1>1. CASE ~ \A a \in {first, last} : UserMay(a \div PAGE)
  <2>1. UNCHANGED <<mem, at>> /\ phase' = "fault"
    BY <1>1 DEF StoreBytes
  <2>2. Tables'
    BY <2>1, TablesKept
  <2> QED
    BY <2>1, <2>2 DEF Memory
<1>2. CASE \A a \in {first, last} : UserMay(a \div PAGE)
  <2>1. /\ UserMay(first \div PAGE) /\ UserMay(last \div PAGE) /\ UNCHANGED phase
        /\ mem' = [mem EXCEPT ![Physical(first)] = UserWord, ![Physical(last)] = UserWord]
    BY <1>2, Zenon DEF StoreBytes
  <2>2. PICK f \in {at.uprogram, at.ustack}, i \in 0..(E - 1) : Physical(first) = f * E + i
    BY <2>1, PhysicalOf
  <2>3. PICK g \in {at.uprogram, at.ustack}, j \in 0..(E - 1) : Physical(last) = g * E + j
    BY <2>1, PhysicalOf
  <2> DEFINE x == Physical(first)
             y == Physical(last)
  <2> HIDE DEF x, y
  <2>4. /\ x < at.memory * E \/ x >= (Root + 3) * E + E
        /\ y < at.memory * E \/ y >= (Root + 3) * E + E
        /\ x \div E \in {at.uprogram, at.ustack} /\ y \div E \in {at.uprogram, at.ustack}
        /\ x \in Int /\ y \in Int
    BY <2>2, <2>3, UserWords DEF x, y
  <2>5. \A a : a # x /\ a # y => mem'[a] = mem[a] \/ a \notin DOMAIN mem
    BY <2>1 DEF x, y
  <2>6. DOMAIN mem' = DOMAIN mem
    BY <2>1
  <2>7. Memory'
    BY <2>6 DEF Memory
  <2>8. ASSUME NEW a \in Int, at.memory * E <= a, a < (Root + 3) * E + E
        PROVE  mem'[a] = mem[a]
    <3> DEFINE lo == at.memory * E
               hi == (Root + 3) * E + E
    <3>1. lo \in Nat /\ hi \in Nat /\ hi - 1 <= PDs * E * E * E - 1 /\ PDs * E * E * E \in Nat
      BY Addresses, FramesTyped, SizesTyped
    <3>2. a \in DOMAIN mem
      <4> DEFINE size == PDs * E * E * E
      <4> HIDE DEF lo, hi, size
      <4>1. lo <= a /\ a < hi /\ DOMAIN mem = 0..(size - 1) /\ size \in Nat /\ hi - 1 <= size - 1
        BY <2>8, <3>1 DEF lo, hi, size, Memory
      <4> QED
        BY <3>1, <4>1
    <3> HIDE DEF lo, hi
    <3>3. a # x /\ a # y
      BY <2>4, <2>8, <3>1 DEF lo, hi
    <3> QED
      BY <2>5, <3>2, <3>3
  <2>9. Tables'
    BY <2>8, TablesKept
  <2>10. \A a \in DOMAIN mem : mem'[a] # mem[a] => a \div E \in {at.uprogram, at.ustack}
    BY <2>4, <2>5
  <2> QED
    BY <2>1, <2>7, <2>9, <2>10
<1> QED
  BY <1>1, <1>2

\* The registers come off the stack as they went on it.
LEMMA RegisterIs ==
  /\ Register = {"rcx", "r11", "rdi", "rsi", "rdx", "r8", "r9", "r10"}
  /\ DOMAIN Saved = 1..8 /\ DOMAIN Restored = 1..8
<1>1. DOMAIN Saved = 1..8 /\ DOMAIN Restored = 1..8
  BY DEF Saved, Restored
<1>2. Register = {Saved[i] : i \in 1..8}
  BY <1>1, Zenon DEF Register, Range
<1>3. \A i : i \in 1..8 <=> i \in {1, 2, 3, 4, 5, 6, 7, 8}
  OBVIOUS
<1>4. {Saved[i] : i \in 1..8} = {Saved[1], Saved[2], Saved[3], Saved[4], Saved[5], Saved[6], Saved[7], Saved[8]}
  BY <1>3
<1> QED
  BY <1>1, <1>2, <1>4 DEF Saved

LEMMA RestoredIsSaved ==
  ASSUME CallMade, CallSaved
  PROVE  [r \in Register |-> kstack[Len(kstack) + 1 - (CHOOSE i \in DOMAIN Restored : Restored[i] = r)]]
         = asked.cpu.regs
<1>1. kstack = [i \in 1..8 |-> asked.cpu.regs[Saved[i]]]
  BY RegisterIs DEF CallSaved
<1>2. Len(kstack) = 8
  BY <1>1
<1>3. ASSUME NEW r \in Register
      PROVE  kstack[Len(kstack) + 1 - (CHOOSE i \in DOMAIN Restored : Restored[i] = r)] = asked.cpu.regs[r]
  <2> DEFINE j == CHOOSE i \in DOMAIN Restored : Restored[i] = r
  <2>1. PICK k \in 1..8 : Restored[k] = r
    BY RegisterIs DEF Restored
  <2>2. j \in 1..8 /\ Restored[j] = r
    BY <2>1, RegisterIs
  <2> HIDE DEF j
  <2>3. Len(kstack) + 1 - j \in 1..8 /\ Saved[Len(kstack) + 1 - j] = r
    BY <1>2, <2>2 DEF Saved, Restored
  <2>4. kstack[Len(kstack) + 1 - j] = asked.cpu.regs[r]
    BY <1>1, <2>3
  <2> QED
    BY <2>4 DEF j
<1>4. asked.cpu.regs = [r \in Register |-> asked.cpu.regs[r]]
  BY DEF CallMade
<1> QED
  BY <1>3, <1>4, Zenon

LEMMA ReturnIs ==
  ASSUME CallMade, CallSaved, syscall_return
  PROVE  /\ cpu' = [cpu EXCEPT !.regs = asked.cpu.regs, !.rsp = asked.cpu.rsp, !.rip = "next"]
         /\ kstack' = <<>> /\ phase' = "user" /\ UNCHANGED <<mem, at, cr3, globals, asked>>
<1>1. PICK regs : /\ regs = asked.cpu.regs
                  /\ cpu' = [cpu EXCEPT !.regs = regs, !.rsp = user_stack, !.rip = regs["rcx"]]
  BY RestoredIsSaved, Zenon DEF syscall_return
<1>2. user_stack = asked.cpu.rsp /\ asked.cpu.regs["rcx"] = "next"
  BY DEF CallMade, CallSaved
<1> QED
  BY <1>1, <1>2, Zenon DEF syscall_return

-----------------------------------------------------------------------------
(* Every step                                                              *)

\* What no step but kernel_init and the user's stores touches.
LEMMA SameTables ==
  ASSUME UNCHANGED <<mem, at>>
  PROVE  (Memory => Memory') /\ (Tables => Tables') /\ Root' = Root /\ UserBytes' = UserBytes
<1>1. Directories' = Directories /\ Pointers' = Pointers /\ Root' = Root
  BY DEF Directories, Pointers, Root
<1> QED
  BY <1>1 DEF Memory, Tables, UserBytes

\* A store of the user's, in a place where it was running.
LEMMA UserStep ==
  ASSUME KernelInv, phase = "user", NEW first \in 0..(Top - 1), NEW last \in 0..(Top - 1),
         StoreBytes(first, last), UNCHANGED <<at, cr3, globals, kstack, asked>>
  PROVE  /\ Memory' /\ PagingOn' /\ cr3' = Root'
         /\ \A a \in DOMAIN mem : mem'[a] # mem[a] => a \div E \in {at.uprogram, at.ustack}
         /\ (phase' = "user" /\ first \in UserBytes) \/ phase' = "fault"
<1>1. Memory /\ Tables /\ cr3 = Root /\ page_table = Root /\ user_program = Top - PAGE
  BY DEF KernelInv, PagingOn
<1>2. first \in Int /\ last \in Int /\ first \div PAGE \in Page /\ last \div PAGE \in Page
  BY PageOfByte, SpacesTyped
<1>3. /\ Memory' /\ Tables'
      /\ \A a \in DOMAIN mem : mem'[a] # mem[a] => a \div E \in {at.uprogram, at.ustack}
      /\ (phase' = phase /\ UserMay(first \div PAGE)) \/ phase' = "fault"
  BY <1>1, <1>2, StoreKept
<1>4. UserMay(first \div PAGE) => first \in UserBytes
  BY <1>1, <1>2, UserPages, PageOfByte
<1>5. Root' = Root
  BY DEF Root, Pointers, Directories
<1> QED
  BY <1>1, <1>3, <1>4, <1>5 DEF PagingOn, globals

LEMMA TopByte == Top - 1 \in UserBytes /\ Top - PAGE \in UserBytes /\ UserBytes \subseteq 8..(Top - 1)
BY SpacesTyped DEF UserBytes

LEMMA InitStep ==
  ASSUME KernelInv, kernel_init
  PROVE  KernelInv'
<1>1. Memory' /\ Tables'
  BY TablesBuilt DEF KernelInv
<1>2. page_table' = Root'
  <2>1. page_table' = (at.memory * E + PDs * E * E + PDs * E + E) \div E /\ Root' = Root
    BY DEF kernel_init, Root, Pointers, Directories
  <2>2. at.memory * E + PDs * E * E + PDs * E + E = Root * E /\ Root \in Nat
    <3>1. Memory
      BY DEF KernelInv
    <3> QED
      BY <3>1, Addresses, FramesTyped
  <2> QED
    BY <2>1, <2>2, FramesOf
<1>3. /\ user_program' = Top - PAGE /\ user_stack' = Top - 1 /\ phase' = "load" /\ cr3' = NoFrame
      /\ IsCpu(cpu)'
  BY DEF kernel_init, KernelInv, IsCpu
<1> QED
  BY <1>1, <1>2, <1>3 DEF KernelInv, PagingOn

LEMMA LoadStep ==
  ASSUME KernelInv, load_page_table
  PROVE  KernelInv'
<1>1. UNCHANGED <<mem, at, globals, cpu>> /\ phase = "load" /\ phase' = "jump" /\ cr3' = page_table
  BY DEF load_page_table
<1> QED
  BY <1>1, SameTables DEF KernelInv, PagingOn, globals, IsCpu

LEMMA JumpStep ==
  ASSUME KernelInv, user_jump
  PROVE  KernelInv'
<1>1. /\ UNCHANGED <<mem, at, cr3, page_table, user_program>> /\ phase = "jump" /\ phase' = "user"
      /\ user_stack = Top - 1
  BY DEF user_jump, globals, KernelInv
<1>2. cpu'.rsp = user_stack /\ IsCpu(cpu)'
  BY DEF user_jump, KernelInv, IsCpu
<1>3. cpu'.rsp \in UserBytes'
  BY <1>1, <1>2, TopByte, SameTables
<1> QED
  BY <1>1, <1>2, <1>3, SameTables DEF KernelInv, PagingOn

LEMMA StoreStep ==
  ASSUME KernelInv, NEW v \in Page, Store(v)
  PROVE  /\ KernelInv'
         /\ \A a \in DOMAIN mem : mem'[a] # mem[a] => a \div E \in {at.uprogram, at.ustack}
<1>1. v * PAGE \in 0..(Top - 1)
  <2>1. v \in 0..((LastPage + 1) - 1) /\ 0 \in 0..(PAGE - 1) /\ LastPage + 1 \in Nat
    BY SpacesTyped DEF Page, LastPage
  <2>2. v * PAGE + 0 \in 0..((LastPage + 1) * PAGE - 1)
    BY <2>1, SpacesTyped, WordOf
  <2> QED
    BY <2>1, <2>2, SpacesTyped
<1>2. /\ Memory' /\ PagingOn' /\ cr3' = Root' /\ phase' \in {"user", "fault"}
      /\ \A a \in DOMAIN mem : mem'[a] # mem[a] => a \div E \in {at.uprogram, at.ustack}
  BY <1>1, UserStep DEF Store
<1>3. UNCHANGED cpu /\ cpu.rsp \in UserBytes /\ UserBytes' = UserBytes
  BY DEF Store, KernelInv, UserBytes
<1> QED
  BY <1>2, <1>3 DEF KernelInv, IsCpu

LEMMA PushStep ==
  ASSUME KernelInv, Push
  PROVE  /\ KernelInv'
         /\ \A a \in DOMAIN mem : mem'[a] # mem[a] => a \div E \in {at.uprogram, at.ustack}
<1>1. cpu.rsp \in UserBytes /\ phase = "user" /\ IsCpu(cpu) /\ UserBytes' = UserBytes
  BY DEF Push, KernelInv, UserBytes
<1>2. cpu.rsp - 8 \in 0..(Top - 1) /\ cpu.rsp - 1 \in 0..(Top - 1)
  <2>1. cpu.rsp \in 8..(Top - 1)
    BY <1>1, TopByte
  <2>2. Top \in Int
    BY SpacesTyped
  <2> QED
    BY <2>1, <2>2
<1>3. /\ Memory' /\ PagingOn' /\ cr3' = Root'
      /\ (phase' = "user" /\ cpu.rsp - 8 \in UserBytes) \/ phase' = "fault"
      /\ \A a \in DOMAIN mem : mem'[a] # mem[a] => a \div E \in {at.uprogram, at.ustack}
  BY <1>1, <1>2, UserStep DEF Push
<1>4. cpu' = [cpu EXCEPT !.rsp = cpu.rsp - 8]
  BY DEF Push
<1>5. IsCpu(cpu)' /\ cpu'.rsp = cpu.rsp - 8
  BY <1>1, <1>4 DEF IsCpu
<1> QED
  BY <1>1, <1>3, <1>5 DEF KernelInv

LEMMA SyscallStep ==
  ASSUME KernelInv, NEW n, NEW string \in String, Syscall(n, string)
  PROVE  KernelInv'
<1>1. /\ UNCHANGED <<mem, at, cr3, globals>> /\ phase = "user" /\ phase' = "entry"
      /\ cpu.rsp \in UserBytes /\ user_program = Top - PAGE /\ IsCpu(cpu)
  BY DEF Syscall, KernelInv, PagingOn
<1> DEFINE regs == [[r \in Register |-> r] EXCEPT !["rcx"] = "next", !["r11"] = "flags"]
<1>2. cpu' = [cpu EXCEPT !.regs = regs, !.rip = "syscall_entry_asm"] /\ asked' = [n |-> n, string |-> string, cpu |-> cpu']
  BY Zenon DEF Syscall
<1>3. regs = [r \in Register |-> regs[r]] /\ regs["rcx"] = "next"
  BY RegisterIs
<1> HIDE DEF regs
<1>4. IsCpu(cpu)' /\ cpu'.regs = regs /\ cpu'.rsp = cpu.rsp
  BY <1>1, <1>2 DEF IsCpu
<1>5. asked'.string = string /\ asked'.cpu = cpu'
  BY <1>2
<1>6. UserBytes' = UserBytes
  BY <1>1, SameTables
<1>7. CallMade'
  BY <1>1, <1>3, <1>4, <1>5, <1>6 DEF CallMade, IsCpu
<1> QED
  BY <1>1, <1>4, <1>5, <1>7, SameTables DEF KernelInv, PagingOn, globals

LEMMA EntryStep ==
  ASSUME KernelInv, syscall_entry_asm
  PROVE  KernelInv' /\ phase' # "fault"
<1>1. /\ UNCHANGED <<mem, at, cr3, page_table, user_program, asked>> /\ phase = "entry"
      /\ phase' \in {"return", "call"} /\ user_stack' = cpu.rsp
      /\ kstack' = [i \in DOMAIN Saved |-> cpu.regs[Saved[i]]]
      /\ CallMade /\ cpu = asked.cpu
  BY DEF syscall_entry_asm, KernelInv
<1>2. IsCpu(cpu)'
  BY DEF syscall_entry_asm, KernelInv, IsCpu
<1>3. CallMade' /\ CallSaved'
  BY <1>1, SameTables DEF CallMade, CallSaved, IsCpu
<1> QED
  BY <1>1, <1>2, <1>3, SameTables DEF KernelInv, PagingOn

LEMMA CallStep ==
  ASSUME KernelInv, syscall_entry
  PROVE  /\ KernelInv'
         /\ phase = "call"
         /\ phase' = "fault" <=> asked.n = 1 /\ ~Printable(asked.string)
<1>1. /\ UNCHANGED <<mem, at, cr3, globals, kstack, asked>> /\ phase = "call"
      /\ phase' = IF asked.n = 1 /\ \E v \in PagesOf(asked.string) : Translate(v) = NoFrame
                  THEN "fault" ELSE "return"
      /\ CallMade /\ CallSaved /\ Memory /\ Tables /\ cr3 = Root
  BY DEF syscall_entry, KernelInv, PagingOn
<1>2. PagesOf(asked.string) \subseteq Page
  <2> DEFINE first == asked.string.first
             last == asked.string.last
  <2>1. first \in 0..(Top - 1) /\ last \in 0..(Top - 1)
    <3>1. first \in 0..(Top - 1) /\ last \in first..(Top - 1)
      BY <1>1, KernelAssumption DEF CallMade
    <3> QED
      BY <3>1, SpacesTyped
  <2>2. first \div PAGE \in Page /\ last \div PAGE \in Page
    BY <2>1, PageOfByte
  <2>3. E * E * E * E \in Nat
    BY SizesTyped
  <2> QED
    BY <2>2, <2>3 DEF PagesOf, Page
<1>3. \A v \in Page : Translate(v) = NoFrame <=> v \notin Frame \cup {LastPage, LastPage - 1}
  <2>1. ASSUME NEW v \in Page, v \in Frame PROVE Translate(v) # NoFrame
    <3>1. Translate(v) = v
      BY <1>1, <2>1, KernelWalk
    <3> QED
      BY <2>1, <3>1 DEF NoFrame, Frame
  <2>2. ASSUME NEW v \in Page, v \in {LastPage, LastPage - 1} PROVE Translate(v) # NoFrame
    <3>1. Translate(v) \in {at.uprogram, at.ustack}
      BY <1>1, <2>2, UserPages
    <3>2. at.uprogram \in Nat /\ at.ustack \in Nat
      BY <1>1, FramesTyped
    <3> QED
      BY <3>1, <3>2 DEF NoFrame
  <2>3. ASSUME NEW v \in Page, Translate(v) # NoFrame PROVE v \in Frame \cup {LastPage, LastPage - 1}
    BY <1>1, <2>3, NothingElse
  <2> QED
    BY <2>1, <2>2, <2>3
<1>4. Printable(asked.string) <=> \A v \in PagesOf(asked.string) : Translate(v) # NoFrame
  BY <1>2, <1>3, LastPages DEF Printable
<1>5. IsCpu(cpu)'
  BY DEF syscall_entry, KernelInv, IsCpu
<1>6. CallMade' /\ CallSaved'
  BY <1>1, SameTables DEF CallMade, CallSaved, IsCpu, globals
<1>7. KernelInv'
  BY <1>1, <1>5, <1>6, SameTables DEF KernelInv, PagingOn, globals
<1> QED
  BY <1>1, <1>4, <1>7

LEMMA ReturnStep ==
  ASSUME KernelInv, syscall_return
  PROVE  /\ KernelInv' /\ phase = "return" /\ phase' = "user" /\ kstack' = <<>>
         /\ cpu' = [asked.cpu EXCEPT !.rip = "next", !.rax = cpu.rax]
<1>1. phase = "return" /\ CallMade /\ CallSaved /\ IsCpu(cpu)
  BY DEF syscall_return, KernelInv
<1>2. /\ cpu' = [cpu EXCEPT !.regs = asked.cpu.regs, !.rsp = asked.cpu.rsp, !.rip = "next"]
      /\ kstack' = <<>> /\ phase' = "user" /\ UNCHANGED <<mem, at, cr3, globals, asked>>
  BY <1>1, ReturnIs
<1>3. cpu' = [regs |-> asked.cpu.regs, rsp |-> asked.cpu.rsp, rip |-> "next", rax |-> cpu.rax]
  BY <1>1, <1>2 DEF IsCpu
<1>4. IsCpu(cpu)' /\ cpu'.rsp \in UserBytes'
  BY <1>1, <1>2, <1>3, SameTables DEF IsCpu, CallMade
<1>5. cpu' = [asked.cpu EXCEPT !.rip = "next", !.rax = cpu.rax]
  <2> DEFINE c == asked.cpu
  <2>1. c = [regs |-> c.regs, rsp |-> c.rsp, rip |-> c.rip, rax |-> c.rax]
    BY <1>1 DEF CallMade, IsCpu
  <2> HIDE DEF c
  <2> DEFINE d == [c EXCEPT !.rip = "next"]
  <2>2. d = [regs |-> c.regs, rsp |-> c.rsp, rip |-> "next", rax |-> c.rax]
    BY <2>1
  <2>3. [c EXCEPT !.rip = "next", !.rax = cpu.rax] = [d EXCEPT !.rax = cpu.rax]
    OBVIOUS
  <2> HIDE DEF d
  <2>4. [d EXCEPT !.rax = cpu.rax] = [regs |-> c.regs, rsp |-> c.rsp, rip |-> "next", rax |-> cpu.rax]
    BY <2>2
  <2> QED
    BY <1>3, <2>3, <2>4, Zenon DEF c
<1>6. KernelInv'
  BY <1>1, <1>2, <1>4, SameTables DEF KernelInv, PagingOn, globals
<1> QED
  BY <1>1, <1>2, <1>5, <1>6

LEMMA SameState ==
  ASSUME KernelInv, UNCHANGED pagingVars
  PROVE  KernelInv'
<1>1. UNCHANGED <<mem, at, cr3, page_table, user_program, user_stack, kstack, cpu, phase, asked>>
  BY DEF pagingVars
<1> QED
  BY <1>1, SameTables DEF KernelInv, PagingOn, CallMade, CallSaved, IsCpu

\* One step: the invariant, and what the step may change.
UserStayed ==
  phase = "user" => \A a \in DOMAIN mem : mem'[a] # mem[a] => a \div E \in {at.uprogram, at.ustack}

CallTransparent ==
  /\ phase = "entry" => phase' # "fault"
  /\ phase = "call" => (phase' = "fault" <=> asked.n = 1 /\ ~Printable(asked.string))
  /\ phase = "return" =>
       /\ phase' = "user"
       /\ cpu' = [asked.cpu EXCEPT !.rip = "next", !.rax = cpu.rax]
       /\ kstack' = <<>>

LEMMA KernelSteps ==
  ASSUME KernelInv, PagingNext
  PROVE  KernelInv' /\ UserStayed /\ CallTransparent
<1>1. CASE kernel_init
  BY <1>1, InitStep DEF kernel_init, UserStayed, CallTransparent
<1>2. CASE load_page_table
  BY <1>2, LoadStep DEF load_page_table, UserStayed, CallTransparent
<1>3. CASE user_jump
  BY <1>3, JumpStep DEF user_jump, UserStayed, CallTransparent
<1>4. CASE syscall_entry_asm
  BY <1>4, EntryStep DEF syscall_entry_asm, UserStayed, CallTransparent
<1>5. CASE syscall_entry
  BY <1>5, CallStep DEF syscall_entry, UserStayed, CallTransparent
<1>6. CASE syscall_return
  BY <1>6, ReturnStep DEF UserStayed, CallTransparent
<1>7. ASSUME NEW v \in Page, Store(v)
      PROVE  KernelInv' /\ UserStayed /\ CallTransparent
  BY <1>7, StoreStep DEF Store, UserStayed, CallTransparent
<1>8. CASE Push
  BY <1>8, PushStep DEF Push, UserStayed, CallTransparent
<1>9. ASSUME NEW n, NEW string \in String, Syscall(n, string)
      PROVE  KernelInv' /\ UserStayed /\ CallTransparent
  BY <1>9, SyscallStep DEF Syscall, UserStayed, CallTransparent
<1> QED
  BY <1>1, <1>2, <1>3, <1>4, <1>5, <1>6, <1>7, <1>8, <1>9 DEF PagingNext

LEMMA InvStep ==
  ASSUME KernelInv, [PagingNext]_pagingVars
  PROVE  KernelInv' /\ [UserStayed]_pagingVars /\ [CallTransparent]_pagingVars
BY KernelSteps, SameState

LEMMA InvAlways == PagingSpec => []KernelInv
BY KernelStarts, InvStep, PTL DEF PagingSpec

-----------------------------------------------------------------------------
(* The theorems                                                            *)

\* With tables of any size and whatever memory held before they were built, the
\* kernel reaches every page of memory at its own address and no user access
\* does, and the user reaches its program and its stack, the last two pages of
\* the address space, and nothing else (kernel_code.c:38-261).
THEOREM SpacesAreSeparate == PagingSpec => []AddressSpaces
BY InvAlways, InvMeansSpaces, PTL

\* No store of the user program, wherever it aims, changes a word of the tables,
\* of the kernel or of any page but its own two (kernel_code.c:230-261).
THEOREM UserIsConfined == PagingSpec => UserStaysInside
<1>1. KernelInv /\ [PagingNext]_pagingVars => [UserStayed]_pagingVars
  BY InvStep
<1>2. PagingSpec => [][UserStayed]_pagingVars
  BY <1>1, InvAlways, PTL DEF PagingSpec
<1> QED
  BY <1>2 DEF UserStaysInside, UserStayed

\* Every system call comes back to where it was made, with the stack and the
\* registers it was made with, unless it asks for a string that runs into a page
\* that is neither memory nor the program's nor the stack's; then the kernel stops
\* (kernel_asm.S:13-51, kernel_code.c:291-296, syscall.h:25, 33).
THEOREM SyscallsReturn == PagingSpec => SyscallTransparent
<1>1. KernelInv /\ [PagingNext]_pagingVars => [CallTransparent]_pagingVars
  BY InvStep
<1>2. PagingSpec => [][CallTransparent]_pagingVars
  BY <1>1, InvAlways, PTL DEF PagingSpec
<1> QED
  BY <1>2 DEF SyscallTransparent, CallTransparent

USE DEF ALIGNMENT, DSIZE

-----------------------------------------------------------------------------
(* What callers own                                                        *)

LEMMA AdjustedIs ==
  ASSUME NEW n \in Nat \ {0}
  PROVE  /\ AdjustedSize(n) \in Nat /\ Aligned(AdjustedSize(n)) /\ AdjustedSize(n) >= 32
         /\ UnitsOf(n) \in Nat \ {0} /\ AdjustedSize(n) >= 16 * UnitsOf(n) + 16
<1>1. CASE n <= 16
  BY <1>1 DEF AdjustedSize, UnitsOf, Aligned
<1>2. CASE n > 16
  BY <1>2 DEF AdjustedSize, UnitsOf, Aligned
<1> QED
  BY <1>1, <1>2

\* The payloads l and the memory m fit the blocks of h: every payload is in a
\* block of its own that is taken, and what is not the heap's is in a payload.
KeptIn(h, m, l) ==
  /\ Sound(h) /\ FirstBlock < h.brk /\ h.brk <= HeapMemoryEnd
  /\ DOMAIN m = Units
  /\ l \in [DOMAIN l -> [bytes : Nat \ {0}, stored : BOOLEAN]]
  /\ DOMAIN l = Taken(h)
  /\ \A b \in DOMAIN l : 16 * UnitsOf(l[b].bytes) + 16 <= Size(h, b)
  /\ \A u \in Units : m[u] # "own" =>
       \E b \in DOMAIN l : b <= u /\ u < b + 16 * UnitsOf(l[b].bytes)

SameIn(l, m, new) ==
  \A b \in DOMAIN l : \A i \in 1..UnitsOf(l[b].bytes) : new[b + 16 * (i - 1)] = m[b + 16 * (i - 1)]

LEMMA UnitsAre ==
  /\ \A u \in Units : u \in Nat /\ Aligned(u)
  /\ \A u \in Nat : Aligned(u) /\ HeapMemory <= u /\ u < HeapMemoryEnd => u \in Units
<1>1. ASSUME NEW u \in Units PROVE u \in Nat /\ Aligned(u)
  <2>1. PICK i \in 0..(HeapMemorySize \div 16 - 1) : u = HeapMemory + 16 * i
    BY DEF Units
  <2>2. HeapMemory \in Nat /\ HeapMemory % 16 = 0 /\ i \in Nat
    BY Extent DEF Aligned
  <2> QED
    BY <2>1, <2>2 DEF Aligned
<1>2. ASSUME NEW u \in Nat, Aligned(u), HeapMemory <= u, u < HeapMemoryEnd PROVE u \in Units
  <2> DEFINE i == (u - HeapMemory) \div 16
  <2>1. /\ HeapMemory \in Nat /\ HeapMemory % 16 = 0 /\ HeapMemorySize \in Nat /\ HeapMemorySize % 16 = 0
        /\ HeapMemoryEnd = HeapMemory + HeapMemorySize /\ u % 16 = 0
    BY <1>2, Extent DEF Aligned
  <2>2. u = HeapMemory + 16 * i /\ i \in 0..(HeapMemorySize \div 16 - 1)
    BY <1>2, <2>1
  <2> QED
    BY <2>2 DEF Units
<1> QED
  BY <1>1, <1>2

LEMMA Apart ==
  ASSUME NEW h, Tiles(h), NEW b \in DOMAIN h.blk, NEW c \in DOMAIN h.blk, b # c
  PROVE  End(h, b) <= c \/ End(h, c) <= b
<1>1. b \in Nat /\ c \in Nat
  BY BlockShape
<1>2. CASE b < c
  BY <1>2, BlockShape
<1>3. CASE c < b
  BY <1>3, BlockShape
<1> QED
  BY <1>1, <1>2, <1>3

LEMMA UnitsOfIs ==
  ASSUME NEW n \in Nat \ {0} PROVE UnitsOf(n) \in Nat \ {0}
BY DEF UnitsOf

LEMMA Payload ==
  ASSUME NEW h, NEW m, NEW l, KeptIn(h, m, l), NEW b \in DOMAIN l
  PROVE  /\ b \in DOMAIN h.blk /\ b \in Nat /\ Aligned(b) /\ b >= FirstBlock
         /\ l[b] = [bytes |-> l[b].bytes, stored |-> l[b].stored]
         /\ l[b].bytes \in Nat \ {0} /\ UnitsOf(l[b].bytes) \in Nat \ {0}
         /\ Size(h, b) \in Nat /\ End(h, b) = b + Size(h, b) /\ End(h, b) <= HeapMemoryEnd
         /\ b + 16 * UnitsOf(l[b].bytes) + 16 <= End(h, b)
         /\ \A i \in 1..UnitsOf(l[b].bytes) : b + 16 * (i - 1) \in Units
<1> DEFINE n == UnitsOf(l[b].bytes)
<1>1. /\ b \in DOMAIN h.blk /\ Tiles(h) /\ h.brk <= HeapMemoryEnd /\ h.brk \in Nat
  BY DEF KeptIn, Sound, Tiled, Tiles, Taken
<1>2. /\ b \in Nat /\ b >= FirstBlock /\ Aligned(b)
      /\ Size(h, b) \in Nat /\ End(h, b) = b + Size(h, b) /\ End(h, b) \in Nat /\ End(h, b) <= h.brk
  BY <1>1, BlockShape
<1>3. /\ l[b] = [bytes |-> l[b].bytes, stored |-> l[b].stored] /\ l[b].bytes \in Nat \ {0}
  <2>1. l[b] \in [bytes : Nat \ {0}, stored : BOOLEAN]
    BY DEF KeptIn
  <2> QED
    BY <2>1
<1>4. n \in Nat \ {0}
  BY <1>3, UnitsOfIs
<1>5. 16 * n + 16 <= Size(h, b)
  BY DEF KeptIn
<1> HIDE DEF n
<1>6. HeapMemoryEnd \in Nat /\ HeapMemory \in Nat /\ FirstBlock \in Nat /\ FirstBlock = HeapMemory + 32
  BY Extent
<1>7. b + 16 * n + 16 <= End(h, b) /\ End(h, b) <= HeapMemoryEnd
  BY <1>1, <1>2, <1>4, <1>5, <1>6
<1>8. ASSUME NEW i \in 1..n PROVE b + 16 * (i - 1) \in Units
  <2>1. b + 16 * (i - 1) \in Nat /\ HeapMemory <= b + 16 * (i - 1) /\ b + 16 * (i - 1) < HeapMemoryEnd
    BY <1>2, <1>4, <1>6, <1>7
  <2>2. Aligned(b + 16 * (i - 1))
    BY <1>2, <1>4 DEF Aligned
  <2> QED
    BY <2>1, <2>2, UnitsAre
<1> QED
  BY <1>1, <1>2, <1>3, <1>4, <1>7, <1>8 DEF n

LEMMA OwnedIs ==
  ASSUME NEW m, DOMAIN m = Units, NEW b \in Nat, NEW size \in Nat
  PROVE  /\ DOMAIN Owned(m, b, size) = Units
         /\ \A u \in Units :
              Owned(m, b, size)[u] = IF b - 16 <= u /\ u <= b + size - 16 THEN "own" ELSE m[u]
BY DEF Owned, Overwritten

LEMMA StoredIs ==
  ASSUME NEW m, DOMAIN m = Units, NEW b \in Nat, Aligned(b), NEW n, UnitsOf(n) \in Nat \ {0}, NEW d
  PROVE  /\ DOMAIN Stored(m, b, n, d) = Units
         /\ \A u \in Units :
              Stored(m, b, n, d)[u] = IF b <= u /\ u < b + 16 * UnitsOf(n) THEN d ELSE m[u]
<1>1. DOMAIN Stored(m, b, n, d) = Units
  BY DEF Stored, Overwritten
<1>2. \A u \in Units : u <= b + 16 * (UnitsOf(n) - 1) <=> u < b + 16 * UnitsOf(n)
  <2> SUFFICES ASSUME NEW u \in Units
               PROVE  u <= b + 16 * (UnitsOf(n) - 1) <=> u < b + 16 * UnitsOf(n)
    OBVIOUS
  <2>1. u \in Nat /\ u % 16 = 0 /\ b % 16 = 0
    BY UnitsAre DEF Aligned
  <2> QED
    BY <2>1
<1>3. \A u \in Units :
        Stored(m, b, n, d)[u] = IF b <= u /\ u <= b + 16 * (UnitsOf(n) - 1) THEN d ELSE m[u]
  BY DEF Stored, Overwritten
<1> QED
  BY <1>1, <1>2, <1>3

MemoryAfter(m, n, d, got) ==
  Stored(Owned(m, got.bp, Size(got.heap, got.bp)), got.bp, n, d)
LiveAfter(l, n, d, got) ==
  [b \in DOMAIN l \cup {got.bp} |->
     IF b = got.bp THEN [bytes |-> n, stored |-> d # "own"] ELSE l[b]]

\* A payload that is handed out is beside every other, and filled with d.
LEMMA Allocated ==
  ASSUME NEW h, NEW m, NEW l, KeptIn(h, m, l), NEW n \in Nat \ {0}, NEW d,
         NEW got, Given(h, AdjustedSize(n), got),
         NEW m2, m2 = MemoryAfter(m, n, d, got), NEW l2, l2 = LiveAfter(l, n, d, got)
  PROVE  /\ KeptIn(got.heap, m2, l2) /\ SameIn(l, m, m2)
         /\ \A i \in 1..UnitsOf(n) : m2[got.bp + 16 * (i - 1)] = d
<1> DEFINE g == got.heap
           p == got.bp
           U == UnitsOf(n)
           size == Size(g, p)
<1> HIDE DEF g, p, U, size
<1>1. /\ Sound(g) /\ g.brk >= h.brk /\ g.brk <= HeapMemoryEnd
      /\ p \notin Taken(h) /\ Taken(g) = Taken(h) \cup {p}
      /\ \A c \in Taken(h) : g.blk[c] = h.blk[c]
      /\ size \in Nat /\ size >= AdjustedSize(n)
  BY DEF Given, g, p, size
<1>2. U \in Nat \ {0} /\ 16 * U + 16 <= size
  <2>1. AdjustedSize(n) \in Nat /\ U \in Nat \ {0} /\ AdjustedSize(n) >= 16 * U + 16
    BY AdjustedIs DEF U
  <2> QED
    BY <1>1, <2>1
<1>3. /\ Tiles(g) /\ p \in DOMAIN g.blk /\ p \in Nat /\ Aligned(p) /\ p >= FirstBlock
      /\ End(g, p) = p + size
  <2>1. Tiles(g) /\ p \in DOMAIN g.blk
    BY <1>1 DEF Sound, Tiled, Taken
  <2>2. p \in Nat /\ Aligned(p) /\ p >= FirstBlock /\ End(g, p) = p + Size(g, p)
    BY <2>1, BlockShape
  <2> QED
    BY <2>1, <2>2 DEF size
<1>4. /\ DOMAIN l = Taken(h) /\ DOMAIN l2 = Taken(g) /\ p \in DOMAIN l2 /\ DOMAIN l \subseteq DOMAIN l2
      /\ l2[p] = [bytes |-> n, stored |-> d # "own"]
      /\ \A b \in DOMAIN l : b # p /\ l2[b] = l[b]
      /\ l2 = [b \in DOMAIN l2 |-> l2[b]]
  <2>1. DOMAIN l = Taken(h)
    BY DEF KeptIn
  <2>2. l2 = [b \in DOMAIN l \cup {p} |-> IF b = p THEN [bytes |-> n, stored |-> d # "own"] ELSE l[b]]
    BY DEF p, LiveAfter
  <2> QED
    BY <1>1, <2>1, <2>2
<1>5. l2[p].bytes = n /\ UnitsOf(l2[p].bytes) = U
  BY <1>4 DEF U
<1>6. \A b \in DOMAIN l : Size(g, b) = Size(h, b) /\ End(g, b) = End(h, b)
  BY <1>1, <1>4 DEF Size, End
<1>7. /\ DOMAIN m2 = Units
      /\ \A u \in Units : m2[u] = IF p <= u /\ u < p + 16 * U THEN d
                                   ELSE IF p - 16 <= u /\ u <= p + size - 16 THEN "own" ELSE m[u]
  <2>1. DOMAIN m = Units
    BY DEF KeptIn
  <2> DEFINE o == Owned(m, p, size)
  <2>2. DOMAIN o = Units /\ \A u \in Units : o[u] = IF p - 16 <= u /\ u <= p + size - 16 THEN "own" ELSE m[u]
    BY <1>1, <1>3, <2>1, OwnedIs, ZenonT(60)
  <2>3. m2 = Stored(o, p, n, d)
    BY DEF p, size, g, MemoryAfter
  <2> HIDE DEF o
  <2>4. UnitsOf(n) \in Nat \ {0}
    BY <1>2 DEF U
  <2>5. /\ DOMAIN Stored(o, p, n, d) = Units
        /\ \A u \in Units : Stored(o, p, n, d)[u] = IF p <= u /\ u < p + 16 * U THEN d ELSE o[u]
    BY <1>3, <2>2, <2>4, StoredIs DEF U
  <2> QED
    BY <2>2, <2>3, <2>5
<1>8. ASSUME NEW b \in DOMAIN l
      PROVE  /\ b \in Nat /\ UnitsOf(l[b].bytes) \in Nat \ {0}
             /\ \A i \in 1..UnitsOf(l[b].bytes) : b + 16 * (i - 1) \in Units
             /\ p + size <= b \/ b + 16 * UnitsOf(l[b].bytes) + 16 <= p
  <2>1. /\ b \in Nat /\ UnitsOf(l[b].bytes) \in Nat \ {0}
        /\ b + 16 * UnitsOf(l[b].bytes) + 16 <= End(h, b)
        /\ Size(h, b) \in Nat /\ End(h, b) = b + Size(h, b)
        /\ \A i \in 1..UnitsOf(l[b].bytes) : b + 16 * (i - 1) \in Units
    BY Payload
  <2>2. b \in DOMAIN g.blk /\ b # p
    BY <1>1, <1>4 DEF Taken
  <2>3. End(g, p) <= b \/ End(g, b) <= p
    BY <1>3, <2>2, Apart
  <2>4. End(h, b) <= p => b + 16 * UnitsOf(l[b].bytes) + 16 <= p
    BY <1>3, <2>1
  <2> QED
    BY <1>3, <1>6, <2>1, <2>3, <2>4
<1>9. SameIn(l, m, m2)
  <2> SUFFICES ASSUME NEW b \in DOMAIN l, NEW i \in 1..UnitsOf(l[b].bytes)
               PROVE  m2[b + 16 * (i - 1)] = m[b + 16 * (i - 1)]
    BY DEF SameIn
  <2> DEFINE u == b + 16 * (i - 1)
             k == UnitsOf(l[b].bytes)
  <2>1. /\ b \in Nat /\ k \in Nat \ {0} /\ i \in 1..k /\ u \in Units
        /\ p + size <= b \/ b + 16 * k + 16 <= p
    BY <1>8
  <2>2. u = b + 16 * (i - 1)
    OBVIOUS
  <2> HIDE DEF u, k
  <2>3. p + size <= u \/ u < p - 16
    BY <1>1, <1>3, <2>1, <2>2
  <2>4. u \in Nat
    BY <2>1, UnitsAre
  <2>5. ~(p <= u /\ u < p + 16 * U) /\ ~(p - 16 <= u /\ u <= p + size - 16)
    BY <1>1, <1>2, <1>3, <2>3, <2>4
  <2>6. m2[u] = m[u]
    BY <1>7, <2>1, <2>5
  <2> QED
    BY <2>6 DEF u
<1>10. ASSUME NEW i \in 1..UnitsOf(n) PROVE m2[got.bp + 16 * (i - 1)] = d
  <2>1. p + 16 * U <= End(g, p) /\ End(g, p) <= HeapMemoryEnd
    <3>1. End(g, p) <= g.brk /\ End(g, p) \in Nat
      BY <1>3, BlockShape
    <3>2. g.brk \in Nat /\ HeapMemoryEnd \in Nat
      BY <1>3, Extent DEF Tiles
    <3> QED
      BY <1>1, <1>2, <1>3, <3>1, <3>2
  <2>2. i \in 1..U
    BY DEF U
  <2>3. /\ p + 16 * (i - 1) \in Nat /\ p <= p + 16 * (i - 1) /\ p + 16 * (i - 1) < p + 16 * U
        /\ Aligned(p + 16 * (i - 1))
    BY <1>2, <1>3, <2>2 DEF Aligned
  <2>4. p + 16 * (i - 1) \in Units
    <3>1. /\ HeapMemory \in Nat /\ FirstBlock \in Nat /\ HeapMemory <= FirstBlock
          /\ HeapMemoryEnd \in Nat /\ End(g, p) = p + size
      BY <1>3, Extent
    <3>2. HeapMemory <= p + 16 * (i - 1) /\ p + 16 * (i - 1) < HeapMemoryEnd
      BY <1>1, <1>2, <1>3, <2>1, <2>2, <3>1
    <3> QED
      BY <2>3, <3>2, UnitsAre
  <2>5. m2[p + 16 * (i - 1)] = d
    BY <1>7, <2>3, <2>4
  <2> QED
    BY <2>5 DEF p
<1>11. ASSUME NEW u \in Units, m2[u] # "own"
       PROVE  \E b \in DOMAIN l2 : b <= u /\ u < b + 16 * UnitsOf(l2[b].bytes)
  <2>1. CASE p <= u /\ u < p + 16 * U
    BY <1>4, <1>5, <2>1
  <2>2. CASE ~(p <= u /\ u < p + 16 * U)
    <3>1. m[u] # "own"
      BY <1>7, <1>11, <2>2
    <3>2. PICK b \in DOMAIN l : b <= u /\ u < b + 16 * UnitsOf(l[b].bytes)
      BY <3>1 DEF KeptIn
    <3> QED
      BY <1>4, <3>2
  <2> QED
    BY <2>1, <2>2
<1>12. KeptIn(g, m2, l2)
  <2>1. FirstBlock < g.brk
    <3>1. h.brk \in Nat /\ g.brk \in Nat /\ FirstBlock \in Nat /\ FirstBlock < h.brk
      BY <1>3, Extent DEF KeptIn, Sound, Tiled, Tiles
    <3> QED
      BY <1>1, <3>1
  <2>2. l2 \in [DOMAIN l2 -> [bytes : Nat \ {0}, stored : BOOLEAN]]
    <3>1. l2[p] \in [bytes : Nat \ {0}, stored : BOOLEAN]
      BY <1>4
    <3>2. \A b \in DOMAIN l : l2[b] \in [bytes : Nat \ {0}, stored : BOOLEAN]
      BY <1>4 DEF KeptIn
    <3>3. \A b \in DOMAIN l2 : b \in DOMAIN l \/ b = p
      BY <1>1, <1>4
    <3> QED
      BY <1>4, <3>1, <3>2, <3>3
  <2>3. ASSUME NEW b \in DOMAIN l2 PROVE 16 * UnitsOf(l2[b].bytes) + 16 <= Size(g, b)
    <3>1. CASE b = p
      BY <1>2, <1>5, <3>1 DEF size
    <3>2. CASE b \in DOMAIN l
      <4>1. 16 * UnitsOf(l[b].bytes) + 16 <= Size(h, b)
        BY <3>2 DEF KeptIn
      <4> QED
        BY <1>4, <1>6, <3>2, <4>1
    <3> QED
      BY <1>1, <1>4, <3>1, <3>2
  <2> QED
    BY <1>1, <1>4, <1>7, <1>11, <2>1, <2>2, <2>3 DEF KeptIn
<1> QED
  BY <1>9, <1>10, <1>12 DEF g

LEMMA Released ==
  ASSUME NEW h, NEW m, NEW l, KeptIn(h, m, l), NEW b \in DOMAIN l,
         NEW g, g = free(h, b), NEW m2, m2 = Owned(m, b, Size(h, b)),
         NEW l2, l2 = Restrict(l, DOMAIN l \ {b})
  PROVE  /\ KeptIn(g, m2, l2) /\ SameIn(l2, m, m2) /\ g.brk = h.brk
         /\ DOMAIN l2 = DOMAIN l \ {b} /\ \A c \in DOMAIN l2 : l2[c] = l[c]
<1>1. /\ Sound(h) /\ DOMAIN l = Taken(h) /\ DOMAIN m = Units /\ b \in Taken(h)
      /\ FirstBlock < h.brk /\ h.brk <= HeapMemoryEnd
  BY DEF KeptIn
<1>2. /\ Sound(g) /\ g.brk = h.brk
      /\ Taken(g) = Taken(h) \ {b}
      /\ \A c \in Taken(h) \ {b} : g.blk[c] = h.blk[c]
  BY <1>1, Freed
<1>3. /\ DOMAIN l2 = DOMAIN l \ {b} /\ \A c \in DOMAIN l2 : l2[c] = l[c]
      /\ l2 = [c \in DOMAIN l2 |-> l2[c]]
  BY DEF Restrict
<1>4. /\ b \in Nat /\ b \in DOMAIN h.blk /\ Tiles(h)
      /\ Size(h, b) \in Nat /\ End(h, b) = b + Size(h, b)
  BY <1>1, Payload DEF Sound, Tiled
<1>5. /\ DOMAIN m2 = Units
      /\ \A u \in Units : m2[u] = IF b - 16 <= u /\ u <= b + Size(h, b) - 16 THEN "own" ELSE m[u]
  BY <1>1, <1>4, OwnedIs
<1>6. \A c \in DOMAIN l2 : Size(g, c) = Size(h, c) /\ End(g, c) = End(h, c)
  BY <1>1, <1>2, <1>3 DEF Size, End
<1>7. ASSUME NEW c \in DOMAIN l2
      PROVE  /\ c \in Nat /\ UnitsOf(l[c].bytes) \in Nat \ {0}
             /\ \A i \in 1..UnitsOf(l[c].bytes) : c + 16 * (i - 1) \in Units
             /\ b + Size(h, b) <= c \/ c + 16 * UnitsOf(l[c].bytes) + 16 <= b
  <2>1. c \in DOMAIN l /\ c # b
    BY <1>3
  <2>2. /\ c \in DOMAIN h.blk /\ c \in Nat /\ UnitsOf(l[c].bytes) \in Nat \ {0}
        /\ c + 16 * UnitsOf(l[c].bytes) + 16 <= End(h, c)
        /\ Size(h, c) \in Nat /\ End(h, c) = c + Size(h, c)
        /\ \A i \in 1..UnitsOf(l[c].bytes) : c + 16 * (i - 1) \in Units
    BY <2>1, Payload
  <2>3. End(h, b) <= c \/ End(h, c) <= b
    BY <1>4, <2>1, <2>2, Apart
  <2>4. End(h, c) <= b => c + 16 * UnitsOf(l[c].bytes) + 16 <= b
    BY <1>4, <2>2
  <2> QED
    BY <1>4, <2>2, <2>3, <2>4
<1>8. SameIn(l2, m, m2)
  <2> SUFFICES ASSUME NEW c \in DOMAIN l2, NEW i \in 1..UnitsOf(l[c].bytes)
               PROVE  m2[c + 16 * (i - 1)] = m[c + 16 * (i - 1)]
    BY <1>3, ZenonT(40) DEF SameIn
  <2> DEFINE u == c + 16 * (i - 1)
             k == UnitsOf(l[c].bytes)
             s == Size(h, b)
  <2>1. /\ c \in Nat /\ k \in Nat \ {0} /\ i \in 1..k /\ u \in Units
        /\ b + s <= c \/ c + 16 * k + 16 <= b
    BY <1>7
  <2>2. u = c + 16 * (i - 1) /\ s \in Nat
    BY <1>4
  <2>3. \A v \in Units : m2[v] = IF b - 16 <= v /\ v <= b + s - 16 THEN "own" ELSE m[v]
    BY <1>5
  <2> HIDE DEF u, k, s
  <2>4. b + s <= u \/ u < b - 16
    BY <1>4, <2>1, <2>2
  <2>5. u \in Nat
    BY <2>1, UnitsAre
  <2>6. ~(b - 16 <= u /\ u <= b + s - 16)
    BY <1>4, <2>2, <2>4, <2>5
  <2>7. m2[u] = m[u]
    BY <2>1, <2>3, <2>6
  <2> QED
    BY <2>7 DEF u
<1>9. ASSUME NEW u \in Units, m2[u] # "own"
      PROVE  \E c \in DOMAIN l2 : c <= u /\ u < c + 16 * UnitsOf(l2[c].bytes)
  <2>1. m[u] # "own" /\ ~(b - 16 <= u /\ u <= b + Size(h, b) - 16)
    BY <1>5, <1>9
  <2>2. PICK c \in DOMAIN l : c <= u /\ u < c + 16 * UnitsOf(l[c].bytes)
    BY <2>1 DEF KeptIn
  <2>3. c # b
    <3> SUFFICES ASSUME c = b PROVE FALSE
      OBVIOUS
    <3>1. /\ UnitsOf(l[b].bytes) \in Nat /\ b + 16 * UnitsOf(l[b].bytes) + 16 <= b + Size(h, b)
      BY <1>4, Payload
    <3>2. u \in Nat
      BY UnitsAre
    <3> QED
      BY <1>4, <2>1, <2>2, <3>1, <3>2
  <2> QED
    BY <1>3, <2>2, <2>3
<1>10. KeptIn(g, m2, l2)
  <2>1. l2 \in [DOMAIN l2 -> [bytes : Nat \ {0}, stored : BOOLEAN]]
    <3>1. \A c \in DOMAIN l2 : l2[c] \in [bytes : Nat \ {0}, stored : BOOLEAN]
      BY <1>3 DEF KeptIn
    <3> QED
      BY <1>3, <3>1
  <2>2. \A c \in DOMAIN l2 : 16 * UnitsOf(l2[c].bytes) + 16 <= Size(g, c)
    BY <1>3, <1>6 DEF KeptIn
  <2> QED
    BY <1>1, <1>2, <1>3, <1>5, <1>9, <2>1, <2>2 DEF KeptIn
<1> QED
  BY <1>2, <1>3, <1>8, <1>10

-----------------------------------------------------------------------------
(* The steps of the kernel                                                 *)

Booted == pc \notin {"boot", "mm_init", "fault"}

HeapInv ==
  IF Booted THEN KeptIn(heap, memory, live)
  ELSE /\ heap = [blk |-> <<>>, free |-> <<>>, brk |-> HeapMemory]
       /\ live = <<>> /\ memory = [u \in Units |-> "own"]

\* What a step that hands out a payload does.
GivenOut(n, d, p) ==
  /\ KeptIn(heap', memory', live') /\ SameIn(live, memory, memory')
  /\ p \in Nat /\ p \notin DOMAIN live /\ DOMAIN live' = DOMAIN live \cup {p}
  /\ live'[p] = [bytes |-> n, stored |-> d # "own"]
  /\ \A b \in DOMAIN live : live'[b] = live[b]
  /\ \A i \in 1..UnitsOf(n) : memory'[p + 16 * (i - 1)] = d
  /\ heap'.brk <= heap.brk + Larger(AdjustedSize(n), CHUNKSIZE)

TakenBack(p) ==
  /\ KeptIn(heap', memory', live') /\ SameIn(live', memory, memory')
  /\ DOMAIN live' = DOMAIN live \ {p}
  /\ \A b \in DOMAIN live' : live'[b] = live[b]
  /\ heap'.brk = heap.brk

LEMMA AllocateStep ==
  ASSUME KeptIn(heap, memory, live), NEW n \in Nat \ {0}, NEW d,
         ~OutOfMemory(heap, AdjustedSize(n)), NEW got, got = Served(n), Allocate(n, d, got)
  PROVE  GivenOut(n, d, got.bp)
<1>1. AdjustedSize(n) \in Nat /\ Aligned(AdjustedSize(n)) /\ AdjustedSize(n) >= 32
  BY AdjustedIs
<1>2. /\ Sound(heap) /\ heap.brk >= FirstBlock /\ heap.brk <= HeapMemoryEnd /\ DOMAIN live = Taken(heap)
  <2>1. heap.brk \in Nat /\ FirstBlock \in Nat
    BY Extent DEF KeptIn, Sound, Tiled, Tiles
  <2> QED
    BY <2>1 DEF KeptIn
<1>3. Given(heap, AdjustedSize(n), got)
  BY <1>1, <1>2, ServedIs DEF Served
<1>4. /\ heap' = got.heap
      /\ memory' = Stored(Owned(memory, got.bp, Size(got.heap, got.bp)), got.bp, n, d)
      /\ live' = [b \in DOMAIN live \cup {got.bp} |->
                    IF b = got.bp THEN [bytes |-> n, stored |-> d # "own"] ELSE live[b]]
  BY DEF Allocate
<1>5. /\ KeptIn(heap', memory', live') /\ SameIn(live, memory, memory')
      /\ \A i \in 1..UnitsOf(n) : memory'[got.bp + 16 * (i - 1)] = d
  <2> DEFINE m2 == MemoryAfter(memory, n, d, got)
             l2 == LiveAfter(live, n, d, got)
  <2>1. /\ KeptIn(got.heap, m2, l2) /\ SameIn(live, memory, m2)
        /\ \A i \in 1..UnitsOf(n) : m2[got.bp + 16 * (i - 1)] = d
    BY <1>3, Allocated
  <2>2. heap' = got.heap /\ memory' = m2 /\ live' = l2
    BY <1>4 DEF MemoryAfter, LiveAfter
  <2> HIDE DEF m2, l2
  <2> QED
    BY <2>1, <2>2
<1>6. got.bp \notin DOMAIN live /\ heap'.brk <= heap.brk + Larger(AdjustedSize(n), CHUNKSIZE)
  BY <1>2, <1>3, <1>4 DEF Given
<1>7. /\ DOMAIN live' = DOMAIN live \cup {got.bp}
      /\ live'[got.bp] = [bytes |-> n, stored |-> d # "own"]
      /\ \A b \in DOMAIN live : live'[b] = live[b]
  BY <1>4, <1>6
<1>8. got.bp \in Nat
  BY <1>5, <1>7, Payload
<1> QED
  BY <1>5, <1>6, <1>7, <1>8 DEF GivenOut

LEMMA ReleaseStep ==
  ASSUME KeptIn(heap, memory, live), NEW b \in DOMAIN live, Release(b)
  PROVE  TakenBack(b)
<1>1. heap' = free(heap, b) /\ memory' = Owned(memory, b, Size(heap, b)) /\ live' = Restrict(live, DOMAIN live \ {b})
  BY DEF Release
<1> QED
  BY <1>1, Released DEF TakenBack

\* The first chunk.
LEMMA Started ==
  ASSUME NEW h, h = [blk |-> <<>>, free |-> <<>>, brk |-> HeapMemory],
         NEW g, g = extend_heap([h EXCEPT !.brk = @ + 2 * DSIZE], CHUNKSIZE)
  PROVE  Sound(g) /\ g.brk = FirstBlock + CHUNKSIZE /\ Taken(g) = {}
<1> DEFINE e == [h EXCEPT !.brk = @ + 2 * DSIZE]
<1>1. e = [blk |-> <<>>, free |-> <<>>, brk |-> HeapMemory + 32]
  OBVIOUS
<1>2. g = extend_heap(e, CHUNKSIZE)
  OBVIOUS
<1> HIDE DEF e
<1>3. IsHeap(e) /\ e.blk = <<>> /\ e.free = <<>> /\ e.brk = FirstBlock
  BY <1>1, Extent DEF IsHeap
<1>4. DOMAIN e.blk = {} /\ FreeBlocks(e) = {} /\ Taken(e) = {}
  <2>1. DOMAIN e.blk = {}
    BY <1>3
  <2> QED
    BY <2>1 DEF FreeBlocks, Taken
<1>5. Tiles(e)
  <2>1. e.blk \in [DOMAIN e.blk -> [size : Nat, alloc : BOOLEAN]]
    BY <1>3, <1>4
  <2>2. FirstBlock \in Nat /\ Aligned(FirstBlock)
    BY HeapStart
  <2> QED
    BY <1>3, <1>4, <2>1, <2>2 DEF Tiles
<1>6. Listing(e.free, {}, e.blk)
  <2>1. e.free \in Seq(Nat) /\ DOMAIN e.free = {}
    BY <1>3
  <2> QED
    BY <2>1 DEF Listing, Range
<1>7. Sound(e)
  BY <1>3, <1>4, <1>5, <1>6 DEF Sound, Tiled
<1>8. CHUNKSIZE \in Nat /\ Aligned(CHUNKSIZE) /\ CHUNKSIZE >= 32 /\ e.brk >= FirstBlock
  BY <1>3, Extent, SMTT(40)
<1>9. /\ Sound(g) /\ g.brk = e.brk + CHUNKSIZE
      /\ Taken(g) = Taken(e) /\ \A c \in Taken(e) : g.blk[c] = e.blk[c]
      /\ \E c \in FreeBlocks(g) : Size(g, c) >= CHUNKSIZE
  BY <1>2, <1>7, <1>8, Extended
<1> QED
  BY <1>3, <1>4, <1>9

LEMMA StartStep ==
  ASSUME HeapInv, mm_init
  PROVE  KeptIn(heap', memory', live') /\ heap'.brk = FirstBlock + CHUNKSIZE
<1>1. /\ heap = [blk |-> <<>>, free |-> <<>>, brk |-> HeapMemory]
      /\ live = <<>> /\ memory = [u \in Units |-> "own"]
      /\ heap' = extend_heap([heap EXCEPT !.brk = @ + 2 * DSIZE], CHUNKSIZE)
      /\ memory' = memory /\ live' = live
  BY DEF HeapInv, Booted, mm_init
<1>2. Sound(heap') /\ heap'.brk = FirstBlock + CHUNKSIZE /\ Taken(heap') = {}
  BY <1>1, Started
<1>3. FirstBlock < heap'.brk /\ heap'.brk <= HeapMemoryEnd
  BY <1>2, Extent
<1>4. DOMAIN live' = {} /\ DOMAIN memory' = Units /\ \A u \in Units : memory'[u] = "own"
  BY <1>1
<1>5. live' \in [DOMAIN live' -> [bytes : Nat \ {0}, stored : BOOLEAN]]
  BY <1>1, <1>4
<1> QED
  BY <1>2, <1>3, <1>4, <1>5 DEF KeptIn

\* memcpy from one payload to another of as many bytes.
LEMMA Copied ==
  ASSUME NEW h, NEW m, NEW l, KeptIn(h, m, l),
         NEW p \in DOMAIN l, NEW q \in DOMAIN l, p # q, NEW n,
         l[p].bytes = n, l[q].bytes = n,
         NEW m2, m2 = [u \in DOMAIN m |-> IF q <= u /\ u < q + n THEN m[p + (u - q)] ELSE m[u]],
         NEW l2, l2 = [l EXCEPT ![q].stored = TRUE]
  PROVE  /\ KeptIn(h, m2, l2)
         /\ DOMAIN l2 = DOMAIN l /\ \A b \in DOMAIN l \ {q} : l2[b] = l[b]
         /\ l2[q] = [bytes |-> n, stored |-> TRUE]
         /\ \A b \in DOMAIN l \ {q} : \A i \in 1..UnitsOf(l[b].bytes) : m2[b + 16 * (i - 1)] = m[b + 16 * (i - 1)]
         /\ \A i \in 1..UnitsOf(n) : m2[q + 16 * (i - 1)] = m[p + 16 * (i - 1)]
<1> DEFINE U == UnitsOf(n)
<1>1. /\ n \in Nat \ {0} /\ U \in Nat \ {0}
      /\ q \in Nat /\ Aligned(q) /\ q \in DOMAIN h.blk /\ Tiles(h)
      /\ q + 16 * U + 16 <= End(h, q) /\ End(h, q) = q + Size(h, q) /\ Size(h, q) \in Nat
      /\ \A i \in 1..U : q + 16 * (i - 1) \in Units
      /\ DOMAIN m = Units /\ p \in Nat
  <2>1. Tiles(h) /\ DOMAIN m = Units
    BY DEF KeptIn, Sound, Tiled
  <2>2. p \in Nat
    BY Payload
  <2>3. /\ q \in Nat /\ Aligned(q) /\ q \in DOMAIN h.blk
        /\ l[q].bytes \in Nat \ {0} /\ UnitsOf(l[q].bytes) \in Nat \ {0}
        /\ q + 16 * UnitsOf(l[q].bytes) + 16 <= End(h, q)
        /\ End(h, q) = q + Size(h, q) /\ Size(h, q) \in Nat
        /\ \A i \in 1..UnitsOf(l[q].bytes) : q + 16 * (i - 1) \in Units
    BY Payload
  <2> QED
    BY <2>1, <2>2, <2>3
<1>2. n <= 16 * U /\ 16 * (U - 1) < n
  BY <1>1 DEF UnitsOf
<1> HIDE DEF U
<1>3. DOMAIN m2 = Units /\ \A u \in Units : m2[u] = IF q <= u /\ u < q + n THEN m[p + (u - q)] ELSE m[u]
  BY <1>1
<1>4. /\ DOMAIN l2 = DOMAIN l /\ \A b \in DOMAIN l \ {q} : l2[b] = l[b]
      /\ l2[q] = [bytes |-> n, stored |-> TRUE]
  <2>1. l[q] = [bytes |-> l[q].bytes, stored |-> l[q].stored]
    BY Payload
  <2> QED
    BY <2>1
<1>5. \A b \in DOMAIN l : l2[b].bytes = l[b].bytes
  BY <1>4
<1>6. ASSUME NEW b \in DOMAIN l \ {q}, NEW i \in 1..UnitsOf(l[b].bytes)
      PROVE  m2[b + 16 * (i - 1)] = m[b + 16 * (i - 1)]
  <2> DEFINE u == b + 16 * (i - 1)
             k == UnitsOf(l[b].bytes)
  <2>1. /\ b \in Nat /\ b \in DOMAIN h.blk /\ k \in Nat \ {0} /\ i \in 1..k /\ u \in Units
        /\ b + 16 * k + 16 <= End(h, b) /\ End(h, b) = b + Size(h, b) /\ Size(h, b) \in Nat
    BY Payload
  <2>2. End(h, q) <= b \/ End(h, b) <= q
    BY <1>1, <2>1, Apart
  <2>3. u = b + 16 * (i - 1)
    OBVIOUS
  <2> HIDE DEF u, k
  <2>4. u < q \/ u >= q + n
    BY <1>1, <1>2, <2>1, <2>2, <2>3
  <2>5. u \in Nat
    BY <2>1, UnitsAre
  <2>6. ~(q <= u /\ u < q + n)
    BY <1>1, <2>4, <2>5
  <2>7. m2[u] = m[u]
    BY <1>3, <2>1, <2>6
  <2> QED
    BY <2>7 DEF u
<1>7. ASSUME NEW i \in 1..UnitsOf(n) PROVE m2[q + 16 * (i - 1)] = m[p + 16 * (i - 1)]
  <2>1. i \in 1..U
    BY DEF U
  <2>2. q <= q + 16 * (i - 1) /\ q + 16 * (i - 1) < q + n /\ (q + 16 * (i - 1)) - q = 16 * (i - 1)
    BY <1>1, <1>2, <2>1
  <2> QED
    BY <1>1, <1>3, <2>1, <2>2
<1>8. ASSUME NEW u \in Units, m2[u] # "own"
      PROVE  \E b \in DOMAIN l2 : b <= u /\ u < b + 16 * UnitsOf(l2[b].bytes)
  <2>1. CASE q <= u /\ u < q + n
    <3>1. u \in Nat
      BY UnitsAre
    <3>2. u < q + 16 * U
      BY <1>1, <1>2, <2>1, <3>1
    <3> QED
      BY <1>4, <2>1, <3>2 DEF U
  <2>2. CASE ~(q <= u /\ u < q + n)
    <3>1. m[u] # "own"
      BY <1>3, <1>8, <2>2
    <3>2. PICK b \in DOMAIN l : b <= u /\ u < b + 16 * UnitsOf(l[b].bytes)
      BY <3>1 DEF KeptIn
    <3> QED
      BY <1>4, <1>5, <3>2
  <2> QED
    BY <2>1, <2>2
<1>9. l2 \in [DOMAIN l2 -> [bytes : Nat \ {0}, stored : BOOLEAN]]
  <2>1. l \in [DOMAIN l -> [bytes : Nat \ {0}, stored : BOOLEAN]]
    BY DEF KeptIn
  <2>2. l2[q] \in [bytes : Nat \ {0}, stored : BOOLEAN]
    BY <1>1, <1>4
  <2>3. l2 = [b \in DOMAIN l |-> l2[b]]
    OBVIOUS
  <2> QED
    BY <1>4, <2>1, <2>2, <2>3
<1>10. KeptIn(h, m2, l2)
  BY <1>3, <1>4, <1>5, <1>8, <1>9 DEF KeptIn
<1> QED
  BY <1>4, <1>6, <1>7, <1>10

-----------------------------------------------------------------------------
(* mem_extra_test                                                          *)

Holds(i) == ptr[i] \in DOMAIN live /\ live[ptr[i]].bytes = TestSize[i]

Filled(i) ==
  /\ live[ptr[i]].stored
  /\ \A j \in 1..UnitsOf(TestSize[i]) : memory[ptr[i] + 16 * (j - 1)] = Pattern

\* Which of its three pointers the test holds, and where 0xAA is.
TestInv ==
  /\ ptr \in [1..3 -> Nat]
  /\ pc \in {"malloc2", "malloc3", "free2", "copy", "free1"} => Holds(1)
  /\ pc \in {"malloc3", "free2"} => Holds(2) /\ ptr[2] # ptr[1]
  /\ pc \in {"free2", "copy", "free1", "check", "free3"} => Holds(3)
  /\ pc \in {"free2", "copy", "free1"} => ptr[3] # ptr[1]
  /\ pc = "free2" => ptr[3] # ptr[2]
  /\ pc \in {"malloc2", "malloc3", "free2", "copy"} => Filled(1)
  /\ pc \in {"free2", "copy"} => live[ptr[3]].stored = FALSE
  /\ pc \in {"free1", "check", "free3"} => Filled(3)

Inv == HeapInv /\ TestInv

LEMMA TestSizes ==
  /\ \A i \in 1..3 : TestSize[i] \in Nat \ {0}
  /\ TestSize[3] = TestSize[1] /\ Pattern # "own" /\ Pattern \in Data
<1>1. TestSize \in [1..3 -> Nat \ {0}] /\ TestSize[3] = TestSize[1] /\ Data # {} /\ "own" \notin Data
  BY KernelHeapAssumption
<1>2. Pattern \in Data
  BY <1>1 DEF Pattern
<1> QED
  BY <1>1, <1>2

\* A payload that is neither handed out nor freed stays as it is.
LEMMA HeldOn ==
  ASSUME NEW i, Holds(i), ptr'[i] = ptr[i], ptr[i] \in DOMAIN live', live'[ptr[i]] = live[ptr[i]]
  PROVE  Holds(i)'
BY DEF Holds

LEMMA FilledOn ==
  ASSUME NEW i, Holds(i), Filled(i), ptr'[i] = ptr[i], live'[ptr[i]] = live[ptr[i]],
         \A j \in 1..UnitsOf(TestSize[i]) :
           memory'[ptr[i] + 16 * (j - 1)] = memory[ptr[i] + 16 * (j - 1)]
  PROVE  Filled(i)'
BY DEF Filled

LEMMA BesideGiven ==
  ASSUME NEW n, NEW d, NEW p, GivenOut(n, d, p), NEW i, Holds(i), ptr'[i] = ptr[i]
  PROVE  Holds(i)' /\ ptr[i] # p /\ live'[ptr[i]] = live[ptr[i]] /\ (Filled(i) => Filled(i)')
<1>1. /\ ptr[i] \in DOMAIN live /\ ptr[i] \in DOMAIN live' /\ ptr[i] # p
      /\ live'[ptr[i]] = live[ptr[i]]
  BY DEF GivenOut, Holds
<1>2. \A j \in 1..UnitsOf(TestSize[i]) :
        memory'[ptr[i] + 16 * (j - 1)] = memory[ptr[i] + 16 * (j - 1)]
  BY <1>1 DEF GivenOut, SameIn, Holds
<1> QED
  BY <1>1, <1>2, HeldOn, FilledOn

LEMMA BesideTaken ==
  ASSUME NEW p, TakenBack(p), NEW i, Holds(i), ptr'[i] = ptr[i], ptr[i] # p
  PROVE  Holds(i)' /\ live'[ptr[i]] = live[ptr[i]] /\ (Filled(i) => Filled(i)')
<1>1. /\ ptr[i] \in DOMAIN live /\ ptr[i] \in DOMAIN live' /\ live'[ptr[i]] = live[ptr[i]]
  BY DEF TakenBack, Holds
<1>2. live'[ptr[i]].bytes = TestSize[i]
  BY <1>1 DEF Holds
<1>3. \A j \in 1..UnitsOf(TestSize[i]) :
        memory'[ptr[i] + 16 * (j - 1)] = memory[ptr[i] + 16 * (j - 1)]
  BY <1>1, <1>2 DEF TakenBack, SameIn
<1> QED
  BY <1>1, <1>3, HeldOn, FilledOn

LEMMA TestMallocStep ==
  ASSUME HeapInv, NEW i \in 1..3, NEW here, NEW next, TestMalloc(i, here, next),
         here \in {"malloc1", "malloc2", "malloc3"}
  PROVE  \/ /\ OutOfMemory(heap, AdjustedSize(TestSize[i]))
            /\ pc' = IF i = 1 THEN "ready" ELSE "hang"
            /\ UNCHANGED <<heap, memory, live, ptr>>
         \/ \E p \in Nat : /\ GivenOut(TestSize[i], IF i = 1 THEN Pattern ELSE "own", p)
                           /\ ptr' = [ptr EXCEPT ![i] = p] /\ pc' = next
<1>1. KeptIn(heap, memory, live)
  BY DEF HeapInv, Booted, TestMalloc
<1>2. CASE OutOfMemory(heap, AdjustedSize(TestSize[i]))
  BY <1>2 DEF TestMalloc
<1>3. CASE ~OutOfMemory(heap, AdjustedSize(TestSize[i]))
  <2> DEFINE n == TestSize[i]
             d == IF i = 1 THEN Pattern ELSE "own"
             got == Served(n)
  <2>1. Allocate(n, d, got) /\ ptr' = [ptr EXCEPT ![i] = got.bp] /\ pc' = next
    BY <1>3 DEF TestMalloc
  <2>2. n \in Nat \ {0}
    BY TestSizes
  <2>3. ~OutOfMemory(heap, AdjustedSize(n)) /\ got = Served(n)
    BY <1>3
  <2> HIDE DEF n, d, got
  <2>4. GivenOut(n, d, got.bp)
    BY <1>1, <2>1, <2>2, <2>3, AllocateStep
  <2>5. got.bp \in Nat
    BY <2>4 DEF GivenOut
  <2> QED
    BY <2>1, <2>4, <2>5 DEF n, d
<1> QED
  BY <1>2, <1>3

LEMMA TestFreeStep ==
  ASSUME HeapInv, NEW i \in 1..3, NEW here, NEW next, TestFree(i, here, next),
         here \in {"free1", "free2", "free3"}, Holds(i)
  PROVE  TakenBack(ptr[i]) /\ pc' = next /\ ptr' = ptr
<1>1. KeptIn(heap, memory, live) /\ Release(ptr[i]) /\ pc' = next /\ ptr' = ptr
  BY DEF HeapInv, Booted, TestFree
<1>2. ptr[i] \in DOMAIN live
  BY DEF Holds
<1> QED
  BY <1>1, <1>2, ReleaseStep

LEMMA TestCopyStep ==
  ASSUME Inv, TestCopy
  PROVE  /\ KeptIn(heap', memory', live') /\ heap' = heap /\ ptr' = ptr /\ pc' = "free1"
         /\ DOMAIN live' = DOMAIN live /\ \A b \in DOMAIN live \ {ptr[3]} : live'[b] = live[b]
         /\ live'[ptr[3]] = [bytes |-> TestSize[1], stored |-> TRUE]
         /\ \A b \in DOMAIN live \ {ptr[3]} : \A i \in 1..UnitsOf(live[b].bytes) :
              memory'[b + 16 * (i - 1)] = memory[b + 16 * (i - 1)]
         /\ \A i \in 1..UnitsOf(TestSize[1]) : memory'[ptr[3] + 16 * (i - 1)] = Pattern
<1>1. /\ pc = "copy" /\ heap' = heap /\ ptr' = ptr /\ pc' = "free1"
      /\ memory' = [u \in DOMAIN memory |->
           IF ptr[3] <= u /\ u < ptr[3] + TestSize[1] THEN memory[ptr[1] + (u - ptr[3])] ELSE memory[u]]
      /\ live' = [live EXCEPT ![ptr[3]].stored = TRUE]
  BY DEF TestCopy
<1>2. KeptIn(heap, memory, live)
  BY <1>1 DEF Inv, HeapInv, Booted
<1>3. /\ ptr[1] \in DOMAIN live /\ live[ptr[1]].bytes = TestSize[1]
      /\ ptr[3] \in DOMAIN live /\ live[ptr[3]].bytes = TestSize[1] /\ ptr[1] # ptr[3]
      /\ \A i \in 1..UnitsOf(TestSize[1]) : memory[ptr[1] + 16 * (i - 1)] = Pattern
  BY <1>1, TestSizes DEF Inv, TestInv, Holds, Filled
<1> DEFINE p == ptr[1]
           q == ptr[3]
           n == TestSize[1]
           m2 == [u \in DOMAIN memory |-> IF q <= u /\ u < q + n THEN memory[p + (u - q)] ELSE memory[u]]
           l2 == [live EXCEPT ![q].stored = TRUE]
<1>4. p \in DOMAIN live /\ q \in DOMAIN live /\ p # q /\ live[p].bytes = n /\ live[q].bytes = n
  BY <1>3
<1> HIDE DEF p, q, n
<1>5. /\ KeptIn(heap, m2, l2)
      /\ DOMAIN l2 = DOMAIN live /\ \A b \in DOMAIN live \ {q} : l2[b] = live[b]
      /\ l2[q] = [bytes |-> n, stored |-> TRUE]
      /\ \A b \in DOMAIN live \ {q} : \A i \in 1..UnitsOf(live[b].bytes) :
           m2[b + 16 * (i - 1)] = memory[b + 16 * (i - 1)]
      /\ \A i \in 1..UnitsOf(n) : m2[q + 16 * (i - 1)] = memory[p + 16 * (i - 1)]
  BY <1>2, <1>4, Copied, SMTT(30)
<1>6. memory' = m2 /\ live' = l2
  BY <1>1 DEF p, q, n
<1> HIDE DEF m2, l2
<1>7. KeptIn(heap', memory', live')
  BY <1>1, <1>5, <1>6
<1>8. /\ DOMAIN live' = DOMAIN live /\ \A b \in DOMAIN live \ {ptr[3]} : live'[b] = live[b]
      /\ live'[ptr[3]] = [bytes |-> TestSize[1], stored |-> TRUE]
  BY <1>5, <1>6 DEF q, n
<1>9. \A b \in DOMAIN live \ {ptr[3]} : \A i \in 1..UnitsOf(live[b].bytes) :
        memory'[b + 16 * (i - 1)] = memory[b + 16 * (i - 1)]
  BY <1>5, <1>6 DEF q
<1>10. \A i \in 1..UnitsOf(TestSize[1]) : memory'[ptr[3] + 16 * (i - 1)] = Pattern
  <2>1. \A i \in 1..UnitsOf(n) : memory'[q + 16 * (i - 1)] = memory[p + 16 * (i - 1)]
    BY <1>5, <1>6
  <2>2. \A i \in 1..UnitsOf(n) : memory[p + 16 * (i - 1)] = Pattern
    BY <1>3 DEF p, n
  <2>3. \A i \in 1..UnitsOf(n) : memory'[q + 16 * (i - 1)] = Pattern
    BY <2>1, <2>2
  <2> QED
    BY <2>3 DEF q, n
<1> QED
  BY <1>1, <1>7, <1>8, <1>9, <1>10

-----------------------------------------------------------------------------
(* The invariant                                                           *)

LEMMA InitInv == Init => Inv
<1> SUFFICES ASSUME Init PROVE Inv
  OBVIOUS
<1>1. HeapInv
  BY DEF Init, HeapInv, Booted
<1>2. TestInv
  BY DEF Init, TestInv, NULL
<1> QED
  BY <1>1, <1>2 DEF Inv

\* A step that leaves the heap and its callers alone.
LEMMA QuietStep ==
  ASSUME Inv, UNCHANGED <<heap, memory, live, ptr>>,
         \/ pc' = pc
         \/ pc \in {"boot", "mm_init", "fault"} /\ pc' \in {"boot", "mm_init", "fault"}
         \/ Booted /\ pc' \in {"ready", "hang"}
         \/ pc = "check" /\ pc' = "free3"
  PROVE  Inv'
<1>1. Booted' <=> Booted
  BY DEF Booted
<1>2. HeapInv'
  BY <1>1 DEF Inv, HeapInv
<1>3. \A i : (Holds(i) <=> Holds(i)') /\ (Filled(i) <=> Filled(i)')
  BY DEF Holds, Filled
<1>4. TestInv'
  BY <1>3 DEF Inv, TestInv
<1> QED
  BY <1>2, <1>4 DEF Inv

LEMMA NextInv ==
  ASSUME Inv, [Next]_vars
  PROVE  Inv'
<1>1. CASE kernel_start
  <2>1. /\ pc = "boot" /\ pc' \in {"mm_init", "fault"}
        /\ UNCHANGED <<heap, memory, live, ptr>>
    BY <1>1 DEF kernel_start
  <2> QED
    BY <2>1, QuietStep
<1>2. CASE mm_init
  <2>1. KeptIn(heap', memory', live') /\ pc' = "malloc1" /\ ptr' = ptr
    BY <1>2, StartStep DEF Inv, mm_init
  <2>2. HeapInv'
    BY <2>1 DEF HeapInv, Booted
  <2>3. TestInv'
    BY <2>1 DEF Inv, TestInv
  <2> QED
    BY <2>2, <2>3 DEF Inv
<1>3. CASE TestMalloc(1, "malloc1", "malloc2")
  <2>1. /\ pc = "malloc1" /\ ptr \in [1..3 -> Nat]
    BY <1>3 DEF TestMalloc, Inv, TestInv
  <2>2. CASE pc' = "ready" /\ UNCHANGED <<heap, memory, live, ptr>>
    BY <2>1, <2>2, QuietStep DEF Booted
  <2>3. CASE \E p \in Nat : /\ GivenOut(TestSize[1], Pattern, p)
                            /\ ptr' = [ptr EXCEPT ![1] = p] /\ pc' = "malloc2"
    <3>1. PICK p \in Nat : /\ GivenOut(TestSize[1], Pattern, p)
                          /\ ptr' = [ptr EXCEPT ![1] = p] /\ pc' = "malloc2"
      BY <2>3
    <3>2. HeapInv'
      BY <3>1 DEF GivenOut, HeapInv, Booted
    <3>3. ptr' \in [1..3 -> Nat] /\ ptr'[1] = p
      BY <2>1, <3>1
    <3>4. live'[p] = [bytes |-> TestSize[1], stored |-> TRUE] /\ p \in DOMAIN live'
      BY <3>1, TestSizes DEF GivenOut
    <3>5. Holds(1)'
      BY <3>3, <3>4 DEF Holds
    <3>6. Filled(1)'
      BY <3>1, <3>3, <3>4 DEF Filled, GivenOut
    <3>7. TestInv'
      BY <3>1, <3>3, <3>5, <3>6 DEF TestInv
    <3> QED
      BY <3>2, <3>7 DEF Inv
  <2> QED
    BY <1>3, <2>2, <2>3, TestMallocStep DEF Inv
<1>4. CASE TestMalloc(2, "malloc2", "malloc3")
  <2>1. pc = "malloc2" /\ ptr \in [1..3 -> Nat] /\ Holds(1) /\ Filled(1)
    BY <1>4 DEF TestMalloc, Inv, TestInv
  <2>2. CASE pc' = "hang" /\ UNCHANGED <<heap, memory, live, ptr>>
    BY <2>1, <2>2, QuietStep DEF Booted
  <2>3. CASE \E p \in Nat : /\ GivenOut(TestSize[2], "own", p)
                            /\ ptr' = [ptr EXCEPT ![2] = p] /\ pc' = "malloc3"
    <3>1. PICK p \in Nat : /\ GivenOut(TestSize[2], "own", p)
                          /\ ptr' = [ptr EXCEPT ![2] = p] /\ pc' = "malloc3"
      BY <2>3
    <3>2. HeapInv'
      BY <3>1 DEF GivenOut, HeapInv, Booted
    <3>3. ptr' \in [1..3 -> Nat] /\ ptr'[2] = p /\ ptr'[1] = ptr[1]
      BY <2>1, <3>1
    <3>4. live'[p] = [bytes |-> TestSize[2], stored |-> FALSE] /\ p \in DOMAIN live'
      BY <3>1 DEF GivenOut
    <3>5. Holds(2)'
      BY <3>3, <3>4 DEF Holds
    <3>6. Holds(1)' /\ Filled(1)' /\ ptr[1] # p
      BY <2>1, <3>1, <3>3, BesideGiven
    <3>7. TestInv'
      BY <3>1, <3>3, <3>5, <3>6 DEF TestInv
    <3> QED
      BY <3>2, <3>7 DEF Inv
  <2> QED
    BY <1>4, <2>2, <2>3, TestMallocStep DEF Inv
<1>5. CASE TestMalloc(3, "malloc3", "free2")
  <2>1. /\ pc = "malloc3" /\ ptr \in [1..3 -> Nat] /\ Holds(1) /\ Filled(1)
        /\ Holds(2) /\ ptr[2] # ptr[1]
    BY <1>5 DEF TestMalloc, Inv, TestInv
  <2>2. CASE pc' = "hang" /\ UNCHANGED <<heap, memory, live, ptr>>
    BY <2>1, <2>2, QuietStep DEF Booted
  <2>3. CASE \E p \in Nat : /\ GivenOut(TestSize[3], "own", p)
                            /\ ptr' = [ptr EXCEPT ![3] = p] /\ pc' = "free2"
    <3>1. PICK p \in Nat : /\ GivenOut(TestSize[3], "own", p)
                          /\ ptr' = [ptr EXCEPT ![3] = p] /\ pc' = "free2"
      BY <2>3
    <3>2. HeapInv'
      BY <3>1 DEF GivenOut, HeapInv, Booted
    <3>3. ptr' \in [1..3 -> Nat] /\ ptr'[3] = p /\ ptr'[1] = ptr[1] /\ ptr'[2] = ptr[2]
      BY <2>1, <3>1
    <3>4. live'[p] = [bytes |-> TestSize[3], stored |-> FALSE] /\ p \in DOMAIN live'
      BY <3>1 DEF GivenOut
    <3>5. Holds(3)' /\ live'[ptr'[3]].stored = FALSE
      BY <3>3, <3>4 DEF Holds
    <3>6. Holds(1)' /\ Filled(1)' /\ ptr[1] # p
      BY <2>1, <3>1, <3>3, BesideGiven
    <3>7. Holds(2)' /\ ptr[2] # p
      BY <2>1, <3>1, <3>3, BesideGiven
    <3>8. TestInv'
      BY <2>1, <3>1, <3>3, <3>5, <3>6, <3>7 DEF TestInv
    <3> QED
      BY <3>2, <3>8 DEF Inv
  <2> QED
    BY <1>5, <2>2, <2>3, TestMallocStep DEF Inv
<1>6. CASE TestFree(2, "free2", "copy")
  <2>1. /\ pc = "free2" /\ ptr \in [1..3 -> Nat] /\ Holds(1) /\ Filled(1) /\ Holds(2) /\ Holds(3)
        /\ ptr[2] # ptr[1] /\ ptr[3] # ptr[1] /\ ptr[3] # ptr[2]
        /\ live[ptr[3]].stored = FALSE
    BY <1>6 DEF TestFree, Inv, TestInv
  <2>2. TakenBack(ptr[2]) /\ pc' = "copy" /\ ptr' = ptr
    BY <1>6, <2>1, TestFreeStep DEF Inv
  <2>3. HeapInv'
    BY <2>2 DEF TakenBack, HeapInv, Booted
  <2>4. Holds(1)' /\ Filled(1)'
    BY <2>1, <2>2, BesideTaken
  <2>5. Holds(3)' /\ live'[ptr[3]] = live[ptr[3]]
    BY <2>1, <2>2, BesideTaken
  <2>6. TestInv'
    BY <2>1, <2>2, <2>4, <2>5 DEF TestInv
  <2> QED
    BY <2>3, <2>6 DEF Inv
<1>7. CASE TestCopy
  <2>1. /\ pc = "copy" /\ ptr \in [1..3 -> Nat] /\ Holds(1) /\ Holds(3) /\ ptr[3] # ptr[1]
    BY <1>7 DEF TestCopy, Inv, TestInv
  <2>2. /\ KeptIn(heap', memory', live') /\ ptr' = ptr /\ pc' = "free1"
        /\ DOMAIN live' = DOMAIN live /\ \A b \in DOMAIN live \ {ptr[3]} : live'[b] = live[b]
        /\ live'[ptr[3]] = [bytes |-> TestSize[1], stored |-> TRUE]
        /\ \A i \in 1..UnitsOf(TestSize[1]) : memory'[ptr[3] + 16 * (i - 1)] = Pattern
    BY <1>7, TestCopyStep
  <2>3. HeapInv'
    BY <2>2 DEF HeapInv, Booted
  <2>4. Holds(1)'
    BY <2>1, <2>2 DEF Holds
  <2>5. Holds(3)' /\ Filled(3)'
    BY <2>1, <2>2, TestSizes DEF Holds, Filled
  <2>6. TestInv'
    BY <2>1, <2>2, <2>4, <2>5 DEF TestInv
  <2> QED
    BY <2>3, <2>6 DEF Inv
<1>8. CASE TestFree(1, "free1", "check")
  <2>1. /\ pc = "free1" /\ ptr \in [1..3 -> Nat] /\ Holds(1) /\ Holds(3) /\ Filled(3)
        /\ ptr[3] # ptr[1]
    BY <1>8 DEF TestFree, Inv, TestInv
  <2>2. TakenBack(ptr[1]) /\ pc' = "check" /\ ptr' = ptr
    BY <1>8, <2>1, TestFreeStep DEF Inv
  <2>3. HeapInv'
    BY <2>2 DEF TakenBack, HeapInv, Booted
  <2>4. Holds(3)' /\ Filled(3)'
    BY <2>1, <2>2, BesideTaken
  <2>5. TestInv'
    BY <2>1, <2>2, <2>4 DEF TestInv
  <2> QED
    BY <2>3, <2>5 DEF Inv
<1>9. CASE TestCheck
  <2>1. /\ pc = "check" /\ pc' \in {"free3", "hang"}
        /\ UNCHANGED <<heap, memory, live, ptr>>
    BY <1>9 DEF TestCheck
  <2> QED
    BY <2>1, QuietStep DEF Booted
<1>10. CASE TestFree(3, "free3", "ready")
  <2>1. pc = "free3" /\ ptr \in [1..3 -> Nat] /\ Holds(3)
    BY <1>10 DEF TestFree, Inv, TestInv
  <2>2. TakenBack(ptr[3]) /\ pc' = "ready" /\ ptr' = ptr
    BY <1>10, <2>1, TestFreeStep DEF Inv
  <2>3. HeapInv'
    BY <2>2 DEF TakenBack, HeapInv, Booted
  <2>4. TestInv'
    BY <2>1, <2>2 DEF TestInv
  <2> QED
    BY <2>3, <2>4 DEF Inv
<1>11. ASSUME NEW n \in Request, NEW d \in Data, Malloc(n, d) PROVE Inv'
  <2>1. pc = "ready" /\ pc' = pc /\ ptr' = ptr /\ n \in Nat \ {0} /\ KeptIn(heap, memory, live)
    <3>1. Request \subseteq Nat
      BY KernelHeapAssumption
    <3>2. n \in Nat \ {0}
      <4>1. n > 0
        BY <1>11 DEF Malloc
      <4> QED
        BY <3>1, <4>1
    <3> QED
      BY <1>11, <3>2 DEF Malloc, Inv, HeapInv, Booted
  <2>2. CASE OutOfMemory(heap, AdjustedSize(n))
    <3>1. UNCHANGED <<heap, memory, live>>
      BY <1>11, <2>2 DEF Malloc
    <3> QED
      BY <2>1, <3>1, QuietStep
  <2>3. CASE ~OutOfMemory(heap, AdjustedSize(n))
    <3>1. Allocate(n, d, Served(n))
      BY <1>11, <2>3 DEF Malloc
    <3>2. GivenOut(n, d, Served(n).bp)
      BY <2>1, <2>3, <3>1, AllocateStep
    <3>3. HeapInv'
      BY <2>1, <3>2 DEF GivenOut, HeapInv, Booted
    <3>4. TestInv'
      BY <2>1 DEF Inv, TestInv
    <3> QED
      BY <3>3, <3>4 DEF Inv
  <2> QED
    BY <2>2, <2>3
<1>12. ASSUME NEW b \in DOMAIN live, Free(b) PROVE Inv'
  <2>1. /\ pc = "ready" /\ pc' = pc /\ ptr' = ptr /\ KeptIn(heap, memory, live) /\ Release(b)
    BY <1>12 DEF Free, Inv, HeapInv, Booted
  <2>2. TakenBack(b)
    BY <2>1, ReleaseStep
  <2>3. HeapInv'
    BY <2>1, <2>2 DEF TakenBack, HeapInv, Booted
  <2>4. TestInv'
    BY <2>1 DEF Inv, TestInv
  <2> QED
    BY <2>3, <2>4 DEF Inv
<1>13. ASSUME NEW char \in Char, Say(char) PROVE Inv'
  BY <1>13, QuietStep DEF Say
<1>14. CASE UNCHANGED vars
  BY <1>14, QuietStep DEF vars
<1> QED
  BY <1>1, <1>2, <1>3, <1>4, <1>5, <1>6, <1>7, <1>8, <1>9, <1>10, <1>11, <1>12, <1>13, <1>14
     DEF Next, mem_extra_test

LEMMA AlwaysInv == Spec => []Inv
BY InitInv, NextInv, PTL DEF Spec

-----------------------------------------------------------------------------
(* mem_extra_test never stops the kernel                                   *)

GrowsBy(i) == Larger(AdjustedSize(TestSize[i]), CHUNKSIZE)

\* The memory has room for each request of the test to extend the heap, as the
\* megabyte of kernel_malloc.c has many times over.
RoomForTest ==
  HeapMemorySize >= 2 * DSIZE + CHUNKSIZE + GrowsBy(1) + GrowsBy(2) + GrowsBy(3)

RoomInv ==
  /\ pc = "malloc1" => heap.brk <= FirstBlock + CHUNKSIZE
  /\ pc = "malloc2" => heap.brk <= FirstBlock + CHUNKSIZE + GrowsBy(1)
  /\ pc = "malloc3" => heap.brk <= FirstBlock + CHUNKSIZE + GrowsBy(1) + GrowsBy(2)
  /\ pc # "hang"

LEMMA Growths == \A i \in 1..3 : GrowsBy(i) \in Nat
<1> SUFFICES ASSUME NEW i \in 1..3 PROVE GrowsBy(i) \in Nat
  OBVIOUS
<1>1. AdjustedSize(TestSize[i]) \in Nat
  BY TestSizes, AdjustedIs
<1>2. CHUNKSIZE \in Nat
  BY Extent
<1> QED
  BY <1>1, <1>2 DEF GrowsBy, Larger

LEMMA BreakIs == ASSUME NEW h, NEW m, NEW l, KeptIn(h, m, l) PROVE h.brk \in Nat
BY DEF KeptIn, Sound, Tiled, Tiles

LEMMA NextRoom ==
  ASSUME RoomForTest, Inv, RoomInv, [Next]_vars
  PROVE  RoomInv'
<1> DEFINE g1 == GrowsBy(1)
           g2 == GrowsBy(2)
           g3 == GrowsBy(3)
<1>1. /\ g1 \in Nat /\ g2 \in Nat /\ g3 \in Nat
      /\ CHUNKSIZE \in Nat /\ FirstBlock \in Nat /\ HeapMemoryEnd \in Nat
      /\ HeapMemoryEnd >= FirstBlock + CHUNKSIZE + g1 + g2 + g3
  <2>1. /\ HeapMemory \in Nat /\ HeapMemorySize \in Nat /\ CHUNKSIZE \in Nat
        /\ HeapMemoryEnd = HeapMemory + HeapMemorySize /\ FirstBlock = HeapMemory + 32
    BY Extent
  <2>2. g1 \in Nat /\ g2 \in Nat /\ g3 \in Nat
    BY Growths
  <2>3. HeapMemorySize >= 2 * 16 + CHUNKSIZE + g1 + g2 + g3
    BY DEF RoomForTest
  <2> HIDE DEF g1, g2, g3
  <2> QED
    BY <2>1, <2>2, <2>3
<1> HIDE DEF g1, g2, g3
<1>2. CASE kernel_start
  BY <1>2 DEF kernel_start, RoomInv
<1>3. CASE mm_init
  <2>1. heap'.brk = FirstBlock + CHUNKSIZE /\ pc' = "malloc1"
    BY <1>3, StartStep DEF Inv, mm_init
  <2> QED
    BY <1>1, <2>1 DEF RoomInv
<1>4. CASE TestMalloc(1, "malloc1", "malloc2")
  <2>1. heap.brk \in Nat /\ heap.brk <= FirstBlock + CHUNKSIZE
    BY <1>4, BreakIs DEF TestMalloc, Inv, HeapInv, Booted, RoomInv
  <2>2. CASE pc' = "ready"
    BY <2>2 DEF RoomInv
  <2>3. CASE \E p \in Nat : GivenOut(TestSize[1], Pattern, p) /\ pc' = "malloc2"
    <3>1. heap'.brk <= heap.brk + g1 /\ heap'.brk \in Nat
      BY <2>3, BreakIs DEF GivenOut, GrowsBy, g1
    <3>2. heap'.brk <= FirstBlock + CHUNKSIZE + g1
      BY <1>1, <2>1, <3>1
    <3> QED
      BY <2>3, <3>2 DEF RoomInv, g1
  <2> QED
    BY <1>4, <2>2, <2>3, TestMallocStep DEF Inv
<1>5. CASE TestMalloc(2, "malloc2", "malloc3")
  <2>1. heap.brk \in Nat /\ heap.brk <= FirstBlock + CHUNKSIZE + g1
    BY <1>5, BreakIs DEF TestMalloc, Inv, HeapInv, Booted, RoomInv, g1
  <2>2. ~OutOfMemory(heap, AdjustedSize(TestSize[2]))
    <3>1. ~(heap.brk + g2 > HeapMemoryEnd)
      BY <1>1, <2>1
    <3> QED
      BY <3>1 DEF OutOfMemory, Refused, GrowsBy, g2
  <2>3. PICK p \in Nat : GivenOut(TestSize[2], "own", p) /\ pc' = "malloc3"
    BY <1>5, <2>2, TestMallocStep DEF Inv
  <2>4. heap'.brk <= heap.brk + g2 /\ heap'.brk \in Nat
    BY <2>3, BreakIs DEF GivenOut, GrowsBy, g2
  <2>5. heap'.brk <= FirstBlock + CHUNKSIZE + g1 + g2
    BY <1>1, <2>1, <2>4
  <2> QED
    BY <2>3, <2>5 DEF RoomInv, g1, g2
<1>6. CASE TestMalloc(3, "malloc3", "free2")
  <2>1. heap.brk \in Nat /\ heap.brk <= FirstBlock + CHUNKSIZE + g1 + g2
    BY <1>6, BreakIs DEF TestMalloc, Inv, HeapInv, Booted, RoomInv, g1, g2
  <2>2. ~OutOfMemory(heap, AdjustedSize(TestSize[3]))
    <3>1. ~(heap.brk + g3 > HeapMemoryEnd)
      BY <1>1, <2>1
    <3> QED
      BY <3>1 DEF OutOfMemory, Refused, GrowsBy, g3
  <2>3. pc' = "free2"
    BY <1>6, <2>2, TestMallocStep DEF Inv
  <2> QED
    BY <2>3 DEF RoomInv
<1>7. CASE TestFree(2, "free2", "copy")
  BY <1>7 DEF TestFree, RoomInv
<1>8. CASE TestCopy
  BY <1>8 DEF TestCopy, RoomInv
<1>9. CASE TestFree(1, "free1", "check")
  BY <1>9 DEF TestFree, RoomInv
<1>10. CASE TestCheck
  <2>1. \A i \in 1..UnitsOf(TestSize[1]) : memory[ptr[3] + 16 * (i - 1)] = Pattern
    BY <1>10, TestSizes DEF TestCheck, Inv, TestInv, Filled
  <2>2. \A i \in 1..UnitsOf(TestSize[1]) : Bytes(memory, ptr[3], TestSize[1])[i] = Pattern
    BY <2>1 DEF Bytes
  <2>3. pc' = "free3"
    BY <1>10, <2>2 DEF TestCheck
  <2> QED
    BY <2>3 DEF RoomInv
<1>11. CASE TestFree(3, "free3", "ready")
  BY <1>11 DEF TestFree, RoomInv
<1>12. ASSUME NEW n \in Request, NEW d \in Data, Malloc(n, d) PROVE RoomInv'
  BY <1>12 DEF Malloc, RoomInv
<1>13. ASSUME NEW b \in DOMAIN live, Free(b) PROVE RoomInv'
  BY <1>13 DEF Free, RoomInv
<1>14. ASSUME NEW char \in Char, Say(char) PROVE RoomInv'
  BY <1>14 DEF Say, RoomInv
<1>15. CASE UNCHANGED vars
  BY <1>15 DEF vars, RoomInv
<1> QED
  BY <1>2, <1>3, <1>4, <1>5, <1>6, <1>7, <1>8, <1>9, <1>10, <1>11, <1>12, <1>13, <1>14, <1>15
     DEF Next, mem_extra_test

-----------------------------------------------------------------------------
(* The theorems                                                            *)

\* Only callers' stores leave anything but the heap's own behind.
LEMMA OwnUnits ==
  ASSUME NEW h, NEW m, NEW l, KeptIn(h, m, l), NEW b \in DOMAIN h.blk, NEW u \in Units,
         u = End(h, b) - DSIZE \/ (b \in FreeBlocks(h) /\ b <= u /\ u < End(h, b))
  PROVE  m[u] = "own"
<1> SUFFICES ASSUME m[u] # "own" PROVE FALSE
  OBVIOUS
<1>1. PICK c \in DOMAIN l : c <= u /\ u < c + 16 * UnitsOf(l[c].bytes)
  BY DEF KeptIn
<1>2. /\ c \in DOMAIN h.blk /\ c \in Nat /\ UnitsOf(l[c].bytes) \in Nat \ {0}
      /\ Size(h, c) \in Nat /\ End(h, c) = c + Size(h, c)
      /\ c + 16 * UnitsOf(l[c].bytes) + 16 <= End(h, c)
  BY Payload
<1>3. /\ Tiles(h) /\ c \notin FreeBlocks(h)
  BY DEF KeptIn, Sound, Tiled, FreeBlocks, Taken
<1>4. b \in Nat /\ Size(h, b) \in Nat /\ Size(h, b) >= 32 /\ End(h, b) = b + Size(h, b)
  BY <1>3, BlockShape
<1>5. u \in Nat
  BY UnitsAre
<1>6. CASE c = b
  BY <1>1, <1>2, <1>3, <1>4, <1>5, <1>6
<1>7. CASE c # b
  <2>1. End(h, b) <= c \/ End(h, c) <= b
    BY <1>2, <1>3, <1>7, Apart
  <2>2. b <= u /\ u < End(h, b)
    BY <1>4, <1>5
  <2> QED
    BY <1>1, <1>2, <1>4, <1>5, <2>1, <2>2
<1> QED
  BY <1>6, <1>7

LEMMA TiledBlocks == Inv /\ pc # "hang" => BlocksTiled
<1> SUFFICES ASSUME Inv, pc # "hang", Booted PROVE BlocksTiled
  BY DEF BlocksTiled, Booted
<1>1. KeptIn(heap, memory, live)
  BY DEF Inv, HeapInv
<1>2. /\ Sound(heap) /\ Tiles(heap) /\ Listing(heap.free, FreeBlocks(heap), heap.blk)
      /\ FirstBlock < heap.brk /\ heap.brk <= HeapMemoryEnd /\ DOMAIN live = Taken(heap)
  BY <1>1 DEF KeptIn, Sound, Tiled
<1>3. FirstBlock \in DOMAIN heap.blk
  <2>1. FirstBlock \in Nat /\ heap.brk \in Nat /\ FirstBlock \in DOMAIN heap.blk \cup {heap.brk}
    BY <1>2, Extent DEF Tiles
  <2> QED
    BY <1>2, <2>1
<1>4. ASSUME NEW b \in DOMAIN heap.blk
      PROVE  /\ b >= FirstBlock /\ b % ALIGNMENT = 0
             /\ Size(heap, b) % DSIZE = 0 /\ Size(heap, b) >= 2 * DSIZE
             /\ End(heap, b) \in DOMAIN heap.blk \cup {heap.brk}
             /\ b \in FreeBlocks(heap) => End(heap, b) \notin FreeBlocks(heap)
  BY <1>2 DEF Tiles, Sound, Aligned
<1>5. DOMAIN heap.blk \ FreeBlocks(heap) = DOMAIN live
  BY <1>2, FreeOrTaken
<1>6. /\ Range(heap.free) = FreeBlocks(heap) /\ Len(heap.free) = Cardinality(FreeBlocks(heap))
      /\ \A i, j \in DOMAIN heap.free :
           i < j => Size(heap, heap.free[i]) <= Size(heap, heap.free[j])
  <2>1. Len(heap.free) = Cardinality(FreeBlocks(heap))
    BY <1>2, ListingCounts
  <2> QED
    BY <1>2, <2>1 DEF Listing, Size
<1>7. \A b \in DOMAIN heap.blk : \A u \in Units :
        \/ u = End(heap, b) - DSIZE
        \/ b \in FreeBlocks(heap) /\ b <= u /\ u < End(heap, b)
        => memory[u] = "own"
  BY <1>1, OwnUnits
<1> QED
  BY <1>2, <1>3, <1>4, <1>5, <1>6, <1>7 DEF BlocksTiled

\* Whatever is allocated and freed, in whatever order, the kernel's blocks follow
\* each other from the prologue to the break, the lists hold the free ones once
\* each by size, no two free ones are neighbours, no store of a caller has
\* reached a tag or a free block, and mem_extra_test never stops the kernel
\* (kernel_extra.c:120-307), as long as the memory has room for the test.
THEOREM KernelBlocksTiled == RoomForTest => (Spec => []BlocksTiled)
<1> SUFFICES ASSUME RoomForTest PROVE Spec => []BlocksTiled
  OBVIOUS
<1>1. Init => RoomInv
  BY DEF Init, RoomInv
<1>2. Inv /\ RoomInv /\ [Next]_vars => RoomInv'
  BY NextRoom
<1>3. Inv /\ RoomInv => BlocksTiled
  BY TiledBlocks DEF RoomInv
<1> QED
  BY <1>1, <1>2, <1>3, AlwaysInv, PTL DEF Spec

-----------------------------------------------------------------------------
(* What the heap does is what an allocator does                            *)

Stores(l) == {b \in DOMAIN l : l[b].stored}

Sizes == Request \cup {TestSize[i] : i \in 1..3}

LEMMA ContentIs ==
  /\ DOMAIN Content = Stores(live)
  /\ \A b \in Stores(live) : Content[b] = Bytes(memory, b, live[b].bytes)
  /\ Content = [b \in Stores(live) |-> Content[b]]
BY DEF Content, Stores

LEMMA ContentNextIs ==
  /\ DOMAIN Content' = Stores(live')
  /\ \A b \in Stores(live') : Content'[b] = Bytes(memory', b, live'[b].bytes)
  /\ Content' = [b \in Stores(live') |-> Content'[b]]
BY DEF Content, Stores

LEMMA BytesLength ==
  ASSUME NEW m, NEW b, NEW n, UnitsOf(n) \in Nat
  PROVE  Len(Bytes(m, b, n)) = UnitsOf(n)
<1> DEFINE k == UnitsOf(n)
           s == Bytes(m, b, n)
           S == {s[i] : i \in 1..k}
<1>1. s \in [1..k -> S]
  BY DEF Bytes
<1> HIDE DEF s, S, k
<1>2. k \in Nat
  BY DEF k
<1>3. s \in Seq(S)
  BY <1>1, <1>2
<1>4. Len(s) \in Nat /\ DOMAIN s = 1..Len(s) /\ DOMAIN s = 1..k
  BY <1>1, <1>3, LenProperties
<1>5. Len(s) = k
  <2> DEFINE j == Len(s)
  <2>1. j \in Nat /\ 1..j = 1..k
    BY <1>4
  <2> HIDE DEF j
  <2>2. \A i \in Nat \ {0} : i <= j <=> i <= k
    <3>1. \A i \in Nat \ {0} : (i \in 1..j <=> i <= j) /\ (i \in 1..k <=> i <= k)
      BY <1>2, <2>1
    <3> QED
      BY <2>1, <3>1
  <2>3. j = k
    <3>1. CASE j < k
      BY <1>2, <2>1, <2>2, <3>1
    <3>2. CASE k < j
      BY <1>2, <2>1, <2>2, <3>2
    <3> QED
      BY <1>2, <2>1, <3>1, <3>2
  <2> QED
    BY <2>3 DEF j
<1> QED
  BY <1>5 DEF s, k

LEMMA BytesSame ==
  ASSUME NEW m, NEW m2, NEW b, NEW n,
         \A i \in 1..UnitsOf(n) : m2[b + 16 * (i - 1)] = m[b + 16 * (i - 1)]
  PROVE  Bytes(m2, b, n) = Bytes(m, b, n)
BY DEF Bytes

\* Content changes only where payloads come, go or are filled.
LEMMA ContentSame ==
  ASSUME Stores(live') = Stores(live),
         \A b \in Stores(live) : live'[b].bytes = live[b].bytes,
         \A b \in Stores(live) : \A i \in 1..UnitsOf(live[b].bytes) :
           memory'[b + 16 * (i - 1)] = memory[b + 16 * (i - 1)]
  PROVE  Content' = Content
<1>1. \A b \in Stores(live) : Bytes(memory', b, live'[b].bytes) = Bytes(memory, b, live[b].bytes)
  BY BytesSame
<1> QED
  BY <1>1, ContentIs, ContentNextIs

\* p becomes a payload that is filled with d.
LEMMA Obtained ==
  ASSUME NEW n \in Sizes, n \in Nat \ {0}, NEW d \in Data, NEW p \in DOMAIN live',
         KeptIn(heap', memory', live'), live'[p] = [bytes |-> n, stored |-> TRUE],
         p \in DOMAIN live => live[p].stored = FALSE,
         DOMAIN live' = DOMAIN live \cup {p},
         \A b \in DOMAIN live \ {p} : live'[b] = live[b],
         \A b \in DOMAIN live \ {p} : \A i \in 1..UnitsOf(live[b].bytes) :
           memory'[b + 16 * (i - 1)] = memory[b + 16 * (i - 1)],
         \A i \in 1..UnitsOf(n) : memory'[p + 16 * (i - 1)] = d
  PROVE  Alloc!Obtain(n, d)
<1> DEFINE ws == [i \in 1..UnitsOf(n) |-> d]
<1>1. p \notin Stores(live) /\ Stores(live') = Stores(live) \cup {p}
  <2>1. live'[p].stored = TRUE /\ p \notin Stores(live)
    BY DEF Stores
  <2> QED
    BY <2>1 DEF Stores
<1>2. \A b \in Stores(live) : b \in DOMAIN live \ {p}
  BY <1>1 DEF Stores
<1>3. \A b \in Stores(live) : Content'[b] = Content[b]
  <2> SUFFICES ASSUME NEW b \in Stores(live) PROVE Content'[b] = Content[b]
    OBVIOUS
  <2>1. live'[b] = live[b] /\ b \in Stores(live') /\ b \in DOMAIN live \ {p}
    BY <1>1, <1>2
  <2>2. Bytes(memory', b, live[b].bytes) = Bytes(memory, b, live[b].bytes)
    BY <2>1, BytesSame
  <2> QED
    BY <2>1, <2>2, ContentIs, ContentNextIs
<1>4. Content'[p] = ws
  <2>1. live'[p].bytes = n /\ p \in Stores(live')
    BY <1>1
  <2>2. Bytes(memory', p, n) = ws
    BY DEF Bytes
  <2> QED
    BY <2>1, <2>2, ContentNextIs
<1> HIDE DEF ws
<1>5. DOMAIN Content = Stores(live) /\ DOMAIN Content' = Stores(live) \cup {p}
  BY <1>1, ContentIs, ContentNextIs
<1>6. Content' = Alloc!With(Content, p, ws)
  <2>1. Content' = [b \in Stores(live) \cup {p} |-> Content'[b]]
    BY <1>1, ContentNextIs
  <2>2. \A b \in Stores(live) \cup {p} : Content'[b] = IF b = p THEN ws ELSE Content[b]
    BY <1>1, <1>3, <1>4
  <2>3. Content' = [b \in Stores(live) \cup {p} |-> IF b = p THEN ws ELSE Content[b]]
    BY <2>1, <2>2
  <2> QED
    BY <1>5, <2>3 DEF Alloc!With
<1>7. /\ p \in Nat /\ Aligned(p) /\ p >= FirstBlock /\ UnitsOf(n) \in Nat \ {0}
      /\ End(heap', p) = p + Size(heap', p) /\ Size(heap', p) \in Nat
      /\ p + 16 * UnitsOf(n) + 16 <= End(heap', p) /\ p \in DOMAIN heap'.blk
  <2>1. /\ p \in Nat /\ Aligned(p) /\ p >= FirstBlock /\ UnitsOf(live'[p].bytes) \in Nat \ {0}
        /\ End(heap', p) = p + Size(heap', p) /\ Size(heap', p) \in Nat
        /\ p + 16 * UnitsOf(live'[p].bytes) + 16 <= End(heap', p) /\ p \in DOMAIN heap'.blk
    BY Payload
  <2>2. live'[p].bytes = n
    OBVIOUS
  <2> QED
    BY <2>1, <2>2
<1>8. Tiles(heap')
  BY DEF KeptIn, Sound, Tiled
<1>9. HeapMemory <= p /\ p + 16 * UnitsOf(n) <= heap'.brk
  <2>1. End(heap', p) <= heap'.brk /\ heap'.brk \in Nat
    BY <1>7, <1>8, BlockShape DEF Tiles
  <2>2. HeapMemory \in Nat /\ FirstBlock \in Nat /\ FirstBlock = HeapMemory + 32
    BY Extent
  <2> QED
    BY <1>7, <2>1, <2>2
<1>10. ASSUME NEW q \in DOMAIN Content
       PROVE  p + 16 * UnitsOf(n) <= q \/ q + 16 * Len(Content[q]) <= p
  <2>1. q \in DOMAIN live \ {p} /\ live'[q] = live[q] /\ q \in DOMAIN live'
    BY <1>2, <1>5
  <2>2. /\ q \in DOMAIN heap'.blk /\ q \in Nat /\ UnitsOf(live'[q].bytes) \in Nat \ {0}
        /\ End(heap', q) = q + Size(heap', q) /\ Size(heap', q) \in Nat
        /\ q + 16 * UnitsOf(live'[q].bytes) + 16 <= End(heap', q)
    BY <2>1, Payload
  <2>3. Len(Content[q]) = UnitsOf(live[q].bytes)
    <3>1. Content[q] = Bytes(memory, q, live[q].bytes)
      BY <1>5, ContentIs
    <3>2. UnitsOf(live[q].bytes) \in Nat
      BY <2>1, <2>2
    <3> QED
      BY <3>1, <3>2, BytesLength
  <2>4. End(heap', p) <= q \/ End(heap', q) <= p
    BY <1>7, <1>8, <2>1, <2>2, Apart
  <2> DEFINE k == UnitsOf(live[q].bytes)
  <2>5. k \in Nat \ {0} /\ q + 16 * k + 16 <= End(heap', q) /\ Len(Content[q]) = k
    BY <2>1, <2>2, <2>3
  <2> HIDE DEF k
  <2> QED
    BY <1>7, <2>2, <2>4, <2>5, SMTT(30)
<1>11. Alloc!Words(n) * 16 = 16 * UnitsOf(n)
  <2>1. Alloc!Words(n) = UnitsOf(n)
    BY DEF Alloc!Words, UnitsOf
  <2> QED
    BY <1>7, <2>1
<1>12. Alloc!Fresh(p, Alloc!Words(n) * DSIZE, Content)
  BY <1>7, <1>9, <1>10, <1>11 DEF Alloc!Fresh, Aligned
<1>13. ws = [i \in 1..Alloc!Words(n) |-> d]
  BY DEF ws, Alloc!Words, UnitsOf
<1> QED
  BY <1>1, <1>5, <1>6, <1>12, <1>13 DEF Alloc!Obtain

LEMMA GivenContent ==
  ASSUME NEW n \in Sizes, n \in Nat \ {0}, NEW d, NEW p, GivenOut(n, d, p),
         d \in Data \/ d = "own"
  PROVE  Alloc!AllocNext \/ Content' = Content
<1>1. /\ KeptIn(heap', memory', live') /\ SameIn(live, memory, memory')
      /\ p \in DOMAIN live' /\ p \notin DOMAIN live /\ DOMAIN live' = DOMAIN live \cup {p}
      /\ live'[p] = [bytes |-> n, stored |-> d # "own"]
      /\ \A b \in DOMAIN live : live'[b] = live[b]
      /\ \A i \in 1..UnitsOf(n) : memory'[p + 16 * (i - 1)] = d
  BY DEF GivenOut
<1>2. \A b \in DOMAIN live : \A i \in 1..UnitsOf(live[b].bytes) :
        memory'[b + 16 * (i - 1)] = memory[b + 16 * (i - 1)]
  BY <1>1 DEF SameIn
<1>3. CASE d \in Data
  <2>1. d # "own"
    BY <1>3, KernelHeapAssumption
  <2>2. live'[p] = [bytes |-> n, stored |-> TRUE]
    BY <1>1, <2>1
  <2>3. /\ p \in DOMAIN live => live[p].stored = FALSE
        /\ \A b \in DOMAIN live \ {p} : live'[b] = live[b]
        /\ \A b \in DOMAIN live \ {p} : \A i \in 1..UnitsOf(live[b].bytes) :
             memory'[b + 16 * (i - 1)] = memory[b + 16 * (i - 1)]
    BY <1>1, <1>2
  <2>4. Alloc!Obtain(n, d)
    BY <1>1, <1>3, <2>2, <2>3, Obtained
  <2> QED
    BY <1>3, <2>4 DEF Alloc!AllocNext, Sizes
<1>4. CASE d = "own"
  <2>0. live'[p] = [bytes |-> n, stored |-> FALSE]
    BY <1>1, <1>4
  <2>1. live'[p].stored = FALSE
    BY <2>0
  <2>2. Stores(live') = Stores(live)
    BY <1>1, <2>1 DEF Stores
  <2>3. \A b \in Stores(live) : b \in DOMAIN live
    BY DEF Stores
  <2> QED
    BY <1>1, <1>2, <2>2, <2>3, ContentSame
<1> QED
  BY <1>3, <1>4

LEMMA TakenContent ==
  ASSUME NEW p, TakenBack(p)
  PROVE  Alloc!AllocNext \/ Content' = Content
<1>1. /\ SameIn(live', memory, memory') /\ DOMAIN live' = DOMAIN live \ {p}
      /\ \A b \in DOMAIN live' : live'[b] = live[b]
  BY DEF TakenBack
<1>2. /\ Stores(live') = Stores(live) \ {p}
      /\ \A b \in Stores(live') : /\ b \in DOMAIN live' /\ live'[b] = live[b]
                                  /\ \A i \in 1..UnitsOf(live[b].bytes) :
                                       memory'[b + 16 * (i - 1)] = memory[b + 16 * (i - 1)]
  <2>1. Stores(live') = Stores(live) \ {p}
    BY <1>1 DEF Stores
  <2>2. \A b \in Stores(live') : b \in DOMAIN live' /\ live'[b] = live[b]
    BY <1>1 DEF Stores
  <2> QED
    BY <1>1, <2>1, <2>2 DEF SameIn
<1>3. CASE p \in Stores(live)
  <2>1. \A b \in Stores(live') : Content'[b] = Content[b]
    <3> SUFFICES ASSUME NEW b \in Stores(live') PROVE Content'[b] = Content[b]
      OBVIOUS
    <3>1. live'[b].bytes = live[b].bytes /\ b \in Stores(live)
      BY <1>2
    <3>2. Bytes(memory', b, live[b].bytes) = Bytes(memory, b, live[b].bytes)
      BY <1>2, BytesSame
    <3> QED
      BY <3>1, <3>2, ContentIs, ContentNextIs
  <2>2. Content' = [b \in Stores(live) \ {p} |-> Content[b]]
    BY <1>2, <2>1, ContentNextIs
  <2>3. Content' = Alloc!Without(p)
    BY <2>2, ContentIs DEF Alloc!Without, Alloc!Restrict
  <2>4. p \in DOMAIN Content
    BY <1>3, ContentIs
  <2> QED
    BY <2>3, <2>4 DEF Alloc!AllocNext, Alloc!Release
<1>4. CASE p \notin Stores(live)
  <2>1. Stores(live') = Stores(live)
    BY <1>2, <1>4
  <2> QED
    BY <1>2, <2>1, ContentSame
<1> QED
  BY <1>3, <1>4

LEMMA QuietContent ==
  ASSUME UNCHANGED <<memory, live>>
  PROVE  Content' = Content
BY ContentSame

LEMMA NextContent ==
  ASSUME Inv, [Next]_vars
  PROVE  Alloc!AllocNext \/ Content' = Content
<1>1. CASE kernel_start
  BY <1>1, QuietContent DEF kernel_start
<1>2. CASE mm_init
  BY <1>2, QuietContent DEF mm_init
<1>3. ASSUME NEW i \in 1..3, NEW here \in {"malloc1", "malloc2", "malloc3"}, NEW next,
             TestMalloc(i, here, next)
      PROVE  Alloc!AllocNext \/ Content' = Content
  <2>1. TestSize[i] \in Sizes /\ TestSize[i] \in Nat \ {0}
    BY TestSizes DEF Sizes
  <2> DEFINE d == IF i = 1 THEN Pattern ELSE "own"
  <2>2. d \in Data \/ d = "own"
    BY TestSizes
  <2>3. CASE UNCHANGED <<heap, memory, live, ptr>>
    BY <2>3, QuietContent
  <2>4. CASE \E p \in Nat : GivenOut(TestSize[i], d, p)
    BY <2>1, <2>2, <2>4, GivenContent
  <2> QED
    BY <1>3, <2>3, <2>4, TestMallocStep DEF Inv
<1>4. ASSUME NEW i \in 1..3, NEW here \in {"free1", "free2", "free3"}, NEW next,
             TestFree(i, here, next), Holds(i)
      PROVE  Alloc!AllocNext \/ Content' = Content
  BY <1>4, TestFreeStep, TakenContent DEF Inv
<1>5. CASE TestCopy
  <2>1. Holds(1) /\ Holds(3) /\ ptr[3] # ptr[1] /\ live[ptr[3]].stored = FALSE
    BY <1>5 DEF TestCopy, Inv, TestInv
  <2>2. /\ KeptIn(heap', memory', live')
        /\ DOMAIN live' = DOMAIN live /\ \A b \in DOMAIN live \ {ptr[3]} : live'[b] = live[b]
        /\ live'[ptr[3]] = [bytes |-> TestSize[1], stored |-> TRUE]
        /\ \A b \in DOMAIN live \ {ptr[3]} : \A i \in 1..UnitsOf(live[b].bytes) :
             memory'[b + 16 * (i - 1)] = memory[b + 16 * (i - 1)]
        /\ \A i \in 1..UnitsOf(TestSize[1]) : memory'[ptr[3] + 16 * (i - 1)] = Pattern
    BY <1>5, TestCopyStep
  <2>3. /\ TestSize[1] \in Sizes /\ TestSize[1] \in Nat \ {0} /\ Pattern \in Data
        /\ ptr[3] \in DOMAIN live' /\ DOMAIN live' = DOMAIN live \cup {ptr[3]}
    <3>1. TestSize[1] \in Sizes
      BY DEF Sizes
    <3>2. TestSize[1] \in Nat \ {0} /\ Pattern \in Data
      BY TestSizes
    <3>3. ptr[3] \in DOMAIN live
      BY <2>1 DEF Holds
    <3>4. ptr[3] \in DOMAIN live' /\ DOMAIN live' = DOMAIN live \cup {ptr[3]}
      BY <2>2, <3>3
    <3> QED
      BY <3>1, <3>2, <3>4
  <2>4. Alloc!Obtain(TestSize[1], Pattern)
    BY <2>1, <2>2, <2>3, Obtained
  <2> QED
    BY <2>3, <2>4 DEF Alloc!AllocNext, Sizes
<1>6. CASE TestCheck
  BY <1>6, QuietContent DEF TestCheck
<1>7. ASSUME NEW n \in Request, NEW d \in Data, Malloc(n, d)
      PROVE  Alloc!AllocNext \/ Content' = Content
  <2>1. n \in Nat \ {0} /\ KeptIn(heap, memory, live) /\ n \in Sizes
    <3>1. Request \subseteq Nat
      BY KernelHeapAssumption
    <3>2. n > 0 /\ pc = "ready"
      BY <1>7 DEF Malloc
    <3>3. KeptIn(heap, memory, live)
      BY <3>2 DEF Inv, HeapInv, Booted
    <3> QED
      BY <3>1, <3>2, <3>3 DEF Sizes
  <2>2. CASE OutOfMemory(heap, AdjustedSize(n))
    <3>1. UNCHANGED <<memory, live>>
      BY <1>7, <2>2 DEF Malloc
    <3> QED
      BY <3>1, QuietContent
  <2>3. CASE ~OutOfMemory(heap, AdjustedSize(n))
    <3>1. Allocate(n, d, Served(n))
      BY <1>7, <2>3 DEF Malloc
    <3>2. GivenOut(n, d, Served(n).bp)
      BY <2>1, <2>3, <3>1, AllocateStep
    <3> QED
      BY <2>1, <3>2, GivenContent
  <2> QED
    BY <2>2, <2>3
<1>8. ASSUME NEW b \in DOMAIN live, Free(b)
      PROVE  Alloc!AllocNext \/ Content' = Content
  <2>1. KeptIn(heap, memory, live) /\ Release(b)
    BY <1>8 DEF Free, Inv, HeapInv, Booted
  <2> QED
    BY <2>1, ReleaseStep, TakenContent
<1>9. ASSUME NEW char \in Char, Say(char)
      PROVE  Alloc!AllocNext \/ Content' = Content
  BY <1>9, QuietContent DEF Say
<1>10. CASE UNCHANGED vars
  BY <1>10, QuietContent DEF vars
<1>11. /\ TestFree(2, "free2", "copy") => Holds(2)
       /\ TestFree(1, "free1", "check") => Holds(1)
       /\ TestFree(3, "free3", "ready") => Holds(3)
  BY DEF TestFree, Inv, TestInv
<1> QED
  BY <1>1, <1>2, <1>3, <1>4, <1>5, <1>6, <1>7, <1>8, <1>9, <1>10, <1>11 DEF Next, mem_extra_test

\* The kernel's heap is the allocator of mm.h: payloads are aligned, lie in the
\* memory and do not overlap, and each keeps what its owner stored until it is
\* freed, whatever malloc and free do to the blocks (kernel_extra.c:337-376).
THEOREM KernelHeapIsAllocator == Spec => ImplementsAllocator
<1>1. Init => Alloc!AllocInit
  <2> SUFFICES ASSUME Init PROVE Content = <<>>
    BY DEF Alloc!AllocInit
  <2>1. live = <<>>
    BY DEF Init
  <2>2. Stores(live) = {}
    BY <2>1 DEF Stores
  <2> QED
    BY <2>2, ContentIs
<1>2. Inv /\ [Next]_vars => [Alloc!AllocNext]_Content
  BY NextContent
<1> QED
  BY <1>1, <1>2, AlwaysInv, PTL DEF Spec, ImplementsAllocator, Alloc!AllocSpec

-----------------------------------------------------------------------------
(* Pixels and cells                                                        *)

LEMMA Quotient ==
  ASSUME NEW b \in Nat \ {0}, NEW a \in Nat
  PROVE  /\ a \div b \in Nat /\ a % b \in 0..(b - 1)
         /\ a = b * (a \div b) + (a % b)
<1>1. a % b \in 0..(b - 1)
  OBVIOUS
<1>2. a \div b \in Int
  OBVIOUS
<1>3. a = b * (a \div b) + (a % b)
  OBVIOUS
<1>4. a \div b >= 0
  <2> SUFFICES ASSUME a \div b <= -1 PROVE FALSE
    BY <1>2
  <2>1. b * (a \div b) <= -b
    BY <1>2
  <2> QED
    BY <1>1, <1>2, <1>3, <2>1
<1> QED
  BY <1>1, <1>2, <1>3, <1>4

LEMMA QuotientIs ==
  ASSUME NEW b \in Nat \ {0}, NEW q \in Nat, NEW r \in 0..(b - 1)
  PROVE  (b * q + r) \div b = q /\ (b * q + r) % b = r
OBVIOUS

LEMMA QuotientPlus ==
  ASSUME NEW b \in Nat \ {0}, NEW a \in Nat, NEW m \in Nat
  PROVE  (a + b * m) \div b = a \div b + m /\ (a + b * m) % b = a % b
<1> DEFINE q == a \div b
           r == a % b
<1>1. q \in Nat /\ r \in 0..(b - 1) /\ a = b * q + r
  BY Quotient
<1> HIDE DEF q, r
<1>2. a + b * m = b * (q + m) + r
  BY <1>1
<1>3. q + m \in Nat
  BY <1>1
<1>4. (a + b * m) \div b = q + m /\ (a + b * m) % b = r
  BY <1>1, <1>2, <1>3, QuotientIs
<1> QED
  BY <1>4 DEF q, r

LEMMA QuotientBelow ==
  ASSUME NEW b \in Nat \ {0}, NEW a \in Nat, NEW m \in Nat
  PROVE  (a < b * m) <=> (a \div b < m)
OBVIOUS

-----------------------------------------------------------------------------
(* A fold goes along the text                                              *)

Printed(c, text) == FoldLeft(fb_output, c, text)

\* run[n] is what the console is after n characters.
LEMMA ConsoleFold ==
  ASSUME NEW c, NEW text \in Seq(Char)
  PROVE  \E run : /\ run[0] = c
                  /\ \A n \in 1..Len(text) : run[n] = fb_output(run[n - 1], text[n])
                  /\ Printed(c, text) = run[Len(text)]
<1> DEFINE Iter(f, S) ==
      f = [s \in SUBSET S |-> IF s = {} THEN c
                              ELSE fb_output(f[s \ {Max(s)}], text[Max(s)])]
           N == Len(text)
           Has(m) == \E f : Iter(f, 1..m)
           Bad == {m \in Nat : m <= N /\ ~Has(m)}
<1>1. N \in Nat /\ DOMAIN text = 1..N
  BY LenProperties
<1> HIDE DEF Has, N
<1>2. \A m \in 0..N : Has(m)
  <2> SUFFICES ASSUME Bad # {} PROVE FALSE
    BY <1>1
  <2>1. PICK m \in Bad : \A k \in Bad : m <= k
    <3> HIDE DEF Bad
    <3>1. Bad \in SUBSET Nat
      BY DEF Bad
    <3> QED
      BY <3>1, LeastElement
  <2>2. CASE m = 0
    <3>1. 1..m = {}
      BY <2>2
    <3>2. Iter([s \in SUBSET {} |-> c], {})
      OBVIOUS
    <3> QED
      <4>1. Has(m)
        BY <3>1, <3>2 DEF Has
      <4> QED
        BY <2>1, <4>1
  <2>3. CASE m > 0
    <3>1. m - 1 \in Nat /\ m - 1 <= N /\ m - 1 < m
      BY <1>1, <2>1, <2>3
    <3>2. PICK g : Iter(g, 1..(m - 1))
      <4>1. Has(m - 1)
        BY <2>1, <3>1
      <4> QED
        BY <4>1 DEF Has
    <3> DEFINE f == [s \in SUBSET (1..m) |->
                       IF m \in s THEN fb_output(g[s \ {m}], text[m]) ELSE g[s]]
    <3>3. ASSUME NEW s \in SUBSET (1..m)
          PROVE  f[s] = IF s = {} THEN c ELSE fb_output(f[s \ {Max(s)}], text[Max(s)])
      <4>1. CASE m \in s
        <5>1. Max(s) = m
          BY <4>1, <2>1, <2>3, MaxIs
        <5>2. s \ {m} \in SUBSET (1..m) /\ f[s \ {m}] = g[s \ {m}]
          OBVIOUS
        <5> QED
          BY <4>1, <5>1, <5>2
      <4>2. CASE m \notin s
        <5>1. s \in SUBSET (1..(m - 1))
          BY <4>2, <2>1, <2>3
        <5>2. f[s] = g[s] /\ f[s \ {Max(s)}] = g[s \ {Max(s)}]
          BY <4>2
        <5>3. g[s] = IF s = {} THEN c ELSE fb_output(g[s \ {Max(s)}], text[Max(s)])
          BY <3>2, <5>1
        <5> QED
          BY <5>2, <5>3
      <4> QED
        BY <4>1, <4>2
    <3>4. Iter(f, 1..m)
      BY <3>3
    <3> HIDE DEF f
    <3>5. Has(m)
      BY <3>4 DEF Has
    <3> QED
      BY <2>1, <3>5
  <2> QED
    BY <2>1, <2>2, <2>3
<1>3. \E f : Iter(f, 1..N)
  <2>1. Has(N)
    BY <1>1, <1>2
  <2> QED
    BY <2>1 DEF Has
<1>4. FoldLeft(fb_output, c, text) = (CHOOSE f : Iter(f, 1..N))[1..N]
  BY <1>1 DEF FoldLeft, MapThenFoldSet, N
<1>5. PICK f : Iter(f, 1..N) /\ FoldLeft(fb_output, c, text) = f[1..N]
  BY <1>3, <1>4
<1> DEFINE run == [n \in 0..N |-> f[1..n]]
<1>6. run[0] = c
  <2>1. 1..0 = {} /\ {} \in SUBSET (1..N)
    OBVIOUS
  <2>2. f[{}] = c
    BY <1>5, <2>1
  <2> QED
    BY <1>1, <2>1, <2>2
<1>7. ASSUME NEW n \in 1..N PROVE run[n] = fb_output(run[n - 1], text[n])
  <2>1. 1..n \in SUBSET (1..N) /\ n \in 1..n /\ (1..n) \ {n} = 1..(n - 1)
    BY <1>1
  <2>2. Max(1..n) = n
    <3>1. n \in Int /\ 1..n \in SUBSET Int /\ \A y \in 1..n : n >= y
      BY <1>1
    <3> QED
      BY <2>1, <3>1, MaxIs
  <2>3. f[1..n] = fb_output(f[1..(n - 1)], text[n])
    BY <1>5, <2>1, <2>2
  <2> QED
    BY <1>1, <2>3
<1>8. run[N] = f[1..N]
  BY <1>1
<1> HIDE DEF run
<1> QED
  BY <1>5, <1>6, <1>7, <1>8 DEF N, Printed

\* The same for the lines that can be seen.
LEMMA LinesFold ==
  ASSUME NEW ls, NEW text \in Seq(Char)
  PROVE  \E run : /\ run[0] = ls
                  /\ \A n \in 1..Len(text) : run[n] = Seen(run[n - 1], text[n])
                  /\ Expected(ls, text) = run[Len(text)]
<1> DEFINE Iter(f, S) ==
      f = [s \in SUBSET S |-> IF s = {} THEN ls
                              ELSE Seen(f[s \ {Max(s)}], text[Max(s)])]
           N == Len(text)
           Has(m) == \E f : Iter(f, 1..m)
           Bad == {m \in Nat : m <= N /\ ~Has(m)}
<1>1. N \in Nat /\ DOMAIN text = 1..N
  BY LenProperties
<1> HIDE DEF Has, N
<1>2. \A m \in 0..N : Has(m)
  <2> SUFFICES ASSUME Bad # {} PROVE FALSE
    BY <1>1
  <2>1. PICK m \in Bad : \A k \in Bad : m <= k
    <3> HIDE DEF Bad
    <3>1. Bad \in SUBSET Nat
      BY DEF Bad
    <3> QED
      BY <3>1, LeastElement
  <2>2. CASE m = 0
    <3>1. 1..m = {}
      BY <2>2
    <3>2. Iter([s \in SUBSET {} |-> ls], {})
      OBVIOUS
    <3> QED
      <4>1. Has(m)
        BY <3>1, <3>2 DEF Has
      <4> QED
        BY <2>1, <4>1
  <2>3. CASE m > 0
    <3>1. m - 1 \in Nat /\ m - 1 <= N /\ m - 1 < m
      BY <1>1, <2>1, <2>3
    <3>2. PICK g : Iter(g, 1..(m - 1))
      <4>1. Has(m - 1)
        BY <2>1, <3>1
      <4> QED
        BY <4>1 DEF Has
    <3> DEFINE f == [s \in SUBSET (1..m) |->
                       IF m \in s THEN Seen(g[s \ {m}], text[m]) ELSE g[s]]
    <3>3. ASSUME NEW s \in SUBSET (1..m)
          PROVE  f[s] = IF s = {} THEN ls ELSE Seen(f[s \ {Max(s)}], text[Max(s)])
      <4>1. CASE m \in s
        <5>1. Max(s) = m
          BY <4>1, <2>1, <2>3, MaxIs
        <5>2. s \ {m} \in SUBSET (1..m) /\ f[s \ {m}] = g[s \ {m}]
          OBVIOUS
        <5> QED
          BY <4>1, <5>1, <5>2
      <4>2. CASE m \notin s
        <5>1. s \in SUBSET (1..(m - 1))
          BY <4>2, <2>1, <2>3
        <5>2. f[s] = g[s] /\ f[s \ {Max(s)}] = g[s \ {Max(s)}]
          BY <4>2
        <5>3. g[s] = IF s = {} THEN ls ELSE Seen(g[s \ {Max(s)}], text[Max(s)])
          BY <3>2, <5>1
        <5> QED
          BY <5>2, <5>3
      <4> QED
        BY <4>1, <4>2
    <3>4. Iter(f, 1..m)
      BY <3>3
    <3> HIDE DEF f
    <3>5. Has(m)
      BY <3>4 DEF Has
    <3> QED
      BY <2>1, <3>5
  <2> QED
    BY <2>1, <2>2, <2>3
<1>3. \E f : Iter(f, 1..N)
  <2>1. Has(N)
    BY <1>1, <1>2
  <2> QED
    BY <2>1 DEF Has
<1>4. FoldLeft(Seen, ls, text) = (CHOOSE f : Iter(f, 1..N))[1..N]
  BY <1>1 DEF FoldLeft, MapThenFoldSet, N
<1>5. PICK f : Iter(f, 1..N) /\ FoldLeft(Seen, ls, text) = f[1..N]
  BY <1>3, <1>4
<1> DEFINE run == [n \in 0..N |-> f[1..n]]
<1>6. run[0] = ls
  <2>1. 1..0 = {} /\ {} \in SUBSET (1..N)
    OBVIOUS
  <2>2. f[{}] = ls
    BY <1>5, <2>1
  <2> QED
    BY <1>1, <2>1, <2>2
<1>7. ASSUME NEW n \in 1..N PROVE run[n] = Seen(run[n - 1], text[n])
  <2>1. 1..n \in SUBSET (1..N) /\ n \in 1..n /\ (1..n) \ {n} = 1..(n - 1)
    BY <1>1
  <2>2. Max(1..n) = n
    <3>1. n \in Int /\ 1..n \in SUBSET Int /\ \A y \in 1..n : n >= y
      BY <1>1
    <3> QED
      BY <2>1, <3>1, MaxIs
  <2>3. f[1..n] = Seen(f[1..(n - 1)], text[n])
    BY <1>5, <2>1, <2>2
  <2> QED
    BY <1>1, <2>3
<1>8. run[N] = f[1..N]
  BY <1>1
<1> HIDE DEF run
<1> QED
  BY <1>5, <1>6, <1>7, <1>8 DEF N, Expected

-----------------------------------------------------------------------------
(* The screen and what is on it                                            *)

ScreenText == {l \in Seq(Seq(Glyph)) : Len(l) \in 1..MaxY /\ \A i \in 1..Len(l) : Len(l[i]) <= MaxX}

\* Pixel <<i, j>> of the cell in row y and column x.
Part(ls, y, x, i, j) == IF y \in DOMAIN ls /\ x \in DOMAIN ls[y] THEN <<ls[y][x], i, j>> ELSE Dark

\* Where pixel k is.
Row(k) == (k \div screen.width) \div FONT_HEIGHT
Col(k) == (k % screen.width) \div FONT_WIDTH
RowPart(k) == (k \div screen.width) % FONT_HEIGHT
ColPart(k) == (k % screen.width) % FONT_WIDTH

PixelOf(ls, k) == Part(ls, Row(k) + 1, Col(k) + 1, ColPart(k), RowPart(k))

IsConsole(c) == c = [Fb |-> c.Fb, PosX |-> c.PosX, PosY |-> c.PosY, fault |-> c.fault]

Shows(c, ls) ==
  /\ ls \in ScreenText
  /\ IsConsole(c) /\ c.fault = FALSE
  /\ c.PosY = Len(ls) - 1 /\ c.PosX = Len(ls[Len(ls)])
  /\ DOMAIN c.Fb = Pixels /\ \A k \in Pixels : c.Fb[k] = PixelOf(ls, k)

Agrees(c, ls) == IF c.fault THEN MaxY < 2 ELSE Shows(c, ls)

\* What the code computes once for a screen.
Across == screen.width * FONT_HEIGHT

LEMMA ScreenIs ==
  ASSUME screen \in Screen
  PROVE  /\ screen.width \in Nat \ {0} /\ screen.height \in Nat
         /\ FONT_WIDTH \in Nat \ {0} /\ FONT_HEIGHT \in Nat \ {0}
         /\ MaxX \in Nat \ {0} /\ MaxY \in Nat \ {0}
         /\ FONT_HEIGHT * MaxY <= screen.height
         /\ Across \in Nat
<1>1. screen.width \in Nat \ {0} /\ screen.height \in Nat /\ screen.width >= FONT_WIDTH
      /\ screen.height >= FONT_HEIGHT
      /\ FONT_WIDTH \in Nat \ {0} /\ FONT_HEIGHT \in Nat \ {0}
  BY ConsoleAssumption
<1>2. MaxX \in Nat /\ MaxY \in Nat /\ FONT_HEIGHT * MaxY <= screen.height
  <2>1. /\ MaxX \in Nat /\ MaxY \in Nat /\ screen.height % FONT_HEIGHT \in 0..(FONT_HEIGHT - 1)
        /\ screen.height = FONT_HEIGHT * MaxY + (screen.height % FONT_HEIGHT)
    BY <1>1, Quotient DEF MaxX, MaxY
  <2>2. FONT_HEIGHT * MaxY \in Nat
    BY <1>1, <2>1
  <2> QED
    BY <1>1, <2>1, <2>2
<1>3. ~(screen.width < FONT_WIDTH * 1) => ~(MaxX < 1)
  BY <1>1, QuotientBelow DEF MaxX
<1>4. FONT_WIDTH * 1 = FONT_WIDTH /\ FONT_HEIGHT * 1 = FONT_HEIGHT
  BY <1>1
<1>5. Across \in Nat
  BY <1>1 DEF Across
<1>6. ~(screen.height < FONT_HEIGHT * 1) => ~(MaxY < 1)
  BY <1>1, QuotientBelow DEF MaxY
<1> QED
  BY <1>1, <1>2, <1>3, <1>4, <1>5, <1>6

LEMMA PixelIs ==
  ASSUME screen \in Screen, NEW k \in Pixels
  PROVE  /\ k \in Nat /\ Row(k) \in Nat /\ Col(k) \in Nat
         /\ RowPart(k) \in 0..(FONT_HEIGHT - 1) /\ ColPart(k) \in 0..(FONT_WIDTH - 1)
         /\ k \div screen.width \in Nat /\ k % screen.width \in Nat
         /\ k \div screen.width < screen.height
<1>1. screen.width \in Nat \ {0} /\ screen.height \in Nat
      /\ FONT_WIDTH \in Nat \ {0} /\ FONT_HEIGHT \in Nat \ {0}
  BY ScreenIs
<1>2. k \in Nat /\ k < screen.width * screen.height
  <2>1. screen.width * screen.height \in Nat
    BY <1>1
  <2> QED
    BY <2>1 DEF Pixels
<1>3. k \div screen.width \in Nat /\ k % screen.width \in Nat
  BY <1>1, <1>2, Quotient
<1>4. k \div screen.width < screen.height
  BY <1>1, <1>2, QuotientBelow
<1>5. Row(k) \in Nat /\ RowPart(k) \in 0..(FONT_HEIGHT - 1)
  BY <1>1, <1>3, Quotient DEF Row, RowPart
<1>6. Col(k) \in Nat /\ ColPart(k) \in 0..(FONT_WIDTH - 1)
  BY <1>1, <1>3, Quotient DEF Col, ColPart
<1> QED
  BY <1>2, <1>3, <1>4, <1>5, <1>6

\* The pixels of the first n rows of text are those before n * Across.
LEMMA RowsBefore ==
  ASSUME screen \in Screen, NEW k \in Pixels, NEW n \in Nat
  PROVE  (k < Across * n) <=> (Row(k) < n)
<1>1. screen.width \in Nat \ {0} /\ FONT_HEIGHT \in Nat \ {0} /\ k \in Nat
      /\ k \div screen.width \in Nat
  BY ScreenIs, PixelIs
<1>2. FONT_HEIGHT * n \in Nat /\ Across * n = screen.width * (FONT_HEIGHT * n)
  BY <1>1 DEF Across
<1>3. (k < screen.width * (FONT_HEIGHT * n)) <=> (k \div screen.width < FONT_HEIGHT * n)
  BY <1>1, <1>2, QuotientBelow
<1>4. (k \div screen.width < FONT_HEIGHT * n) <=> (Row(k) < n)
  BY <1>1, QuotientBelow DEF Row
<1> QED
  BY <1>2, <1>3, <1>4

\* The pixel one row of text further down.
LEMMA RowBelow ==
  ASSUME screen \in Screen, NEW k \in Pixels, Row(k) + 1 < MaxY
  PROVE  /\ k + Across \in Pixels
         /\ Row(k + Across) = Row(k) + 1 /\ RowPart(k + Across) = RowPart(k)
         /\ Col(k + Across) = Col(k) /\ ColPart(k + Across) = ColPart(k)
<1> DEFINE W == screen.width
           py == k \div W
<1>1. /\ W \in Nat \ {0} /\ screen.height \in Nat /\ FONT_HEIGHT \in Nat \ {0}
      /\ MaxY \in Nat /\ FONT_HEIGHT * MaxY <= screen.height
      /\ k \in Nat /\ py \in Nat /\ Row(k) \in Nat
  BY ScreenIs, PixelIs
<1>2. (k + Across) \div W = py + FONT_HEIGHT /\ (k + Across) % W = k % W
  BY <1>1, QuotientPlus DEF Across
<1>3. /\ (py + FONT_HEIGHT * 1) \div FONT_HEIGHT = py \div FONT_HEIGHT + 1
      /\ (py + FONT_HEIGHT * 1) % FONT_HEIGHT = py % FONT_HEIGHT
  BY <1>1, QuotientPlus
<1>4. FONT_HEIGHT * 1 = FONT_HEIGHT
  BY <1>1
<1>5. Row(k + Across) = Row(k) + 1 /\ RowPart(k + Across) = RowPart(k)
  BY <1>2, <1>3, <1>4 DEF Row, RowPart
<1>6. Col(k + Across) = Col(k) /\ ColPart(k + Across) = ColPart(k)
  BY <1>2 DEF Col, ColPart
<1>7. k + Across \in Pixels
  <2>1. k + Across \in Nat /\ Across \in Nat
    BY <1>1, ScreenIs
  <2>2. py + FONT_HEIGHT < screen.height
    <3>1. Row(k) < MaxY - 1 /\ MaxY - 1 \in Nat
      BY <1>1
    <3>2. py < FONT_HEIGHT * (MaxY - 1)
      BY <1>1, <3>1, QuotientBelow DEF Row
    <3>3. FONT_HEIGHT * (MaxY - 1) + FONT_HEIGHT = FONT_HEIGHT * MaxY
      BY <1>1
    <3>4. FONT_HEIGHT * (MaxY - 1) \in Nat /\ FONT_HEIGHT * MaxY \in Nat
      BY <1>1, <3>1
    <3> QED
      BY <1>1, <3>2, <3>3, <3>4
  <2>3. k + Across < W * screen.height
    BY <1>1, <1>2, <2>1, <2>2, QuotientBelow
  <2>4. W * screen.height \in Nat
    BY <1>1
  <2> QED
    BY <2>1, <2>3, <2>4 DEF Pixels
<1> QED
  BY <1>5, <1>6, <1>7

\* The pixels that a glyph at column n of the text covers.
LEMMA InCell ==
  ASSUME NEW b \in Nat \ {0}, NEW a \in Nat, NEW n \in Nat
  PROVE  /\ a - n * b \in 0..(b - 1) <=> a \div b = n
         /\ a \div b = n => a - n * b = a % b
<1> DEFINE q == a \div b
           r == a % b
<1>1. q \in Nat /\ r \in 0..(b - 1) /\ a = b * q + r
  BY Quotient
<1>2. ASSUME a - n * b \in 0..(b - 1) PROVE q = n
  <2>1. a = b * n + (a - n * b)
    OBVIOUS
  <2> HIDE DEF q
  <2>2. (b * n + (a - n * b)) \div b = n
    BY <1>2, QuotientIs
  <2> QED
    BY <2>1, <2>2 DEF q
<1>3. ASSUME q = n PROVE a - n * b = r
  <2> HIDE DEF q, r
  <2> QED
    BY <1>1, <1>3
<1> QED
  BY <1>1, <1>2, <1>3

-----------------------------------------------------------------------------
(* One character                                                           *)

LEMMA PageIs ==
  ASSUME NEW ls \in ScreenText
  PROVE  /\ ls \in Seq(Seq(Glyph)) /\ DOMAIN ls = 1..Len(ls) /\ Len(ls) \in 1..MaxY
         /\ \A i \in 1..Len(ls) :
              /\ ls[i] \in Seq(Glyph) /\ DOMAIN ls[i] = 1..Len(ls[i])
              /\ Len(ls[i]) \in Nat /\ Len(ls[i]) <= MaxX
  <1>1. ls \in Seq(Seq(Glyph)) /\ Len(ls) \in 1..MaxY /\ \A i \in 1..Len(ls) : Len(ls[i]) <= MaxX
    BY DEF ScreenText
  <1>2. DOMAIN ls = 1..Len(ls)
    BY <1>1, LenProperties
  <1>3. ASSUME NEW i \in 1..Len(ls)
        PROVE  ls[i] \in Seq(Glyph) /\ DOMAIN ls[i] = 1..Len(ls[i]) /\ Len(ls[i]) \in Nat
    <2>1. ls[i] \in Seq(Glyph)
      BY <1>1, ElementOfSeq
    <2> QED
      BY <2>1, LenProperties
  <1> QED
    BY <1>1, <1>2, <1>3

\* The page after a line feed: the same lines above an empty one, or all but the
\* first of them.
Fed(ls) ==
  IF Len(ls) < MaxY THEN Append(ls, <<>>) ELSE [i \in 1..MaxY |-> IF i < MaxY THEN ls[i + 1] ELSE <<>>]

LEMMA FedIs ==
  ASSUME screen \in Screen, NEW ls \in ScreenText
  PROVE  /\ Latest(Append(ls, <<>>)) = Fed(ls) /\ Fed(ls) \in ScreenText
         /\ Len(Fed(ls)) = IF Len(ls) < MaxY THEN Len(ls) + 1 ELSE MaxY
         /\ Fed(ls)[Len(Fed(ls))] = <<>>
<1> DEFINE n == Len(ls)
           up == Append(ls, <<>>)
<1>1. /\ ls \in Seq(Seq(Glyph)) /\ n \in 1..MaxY /\ DOMAIN ls = 1..n
      /\ \A i \in 1..n : ls[i] \in Seq(Glyph) /\ Len(ls[i]) <= MaxX
  BY PageIs
<1>2. <<>> \in Seq(Glyph) /\ Len(<<>>) = 0 /\ MaxX \in Nat /\ MaxY \in Nat
  BY EmptySeq, ScreenIs
<1>3. /\ up \in Seq(Seq(Glyph)) /\ Len(up) = n + 1
      /\ \A i \in 1..(n + 1) : up[i] = IF i = n + 1 THEN <<>> ELSE ls[i]
  BY <1>1, <1>2, AppendProperties
<1> HIDE DEF up, n
<1>4. CASE n < MaxY
  <2>1. Latest(up) = up /\ Fed(ls) = up
    BY <1>1, <1>2, <1>3, <1>4 DEF Latest, Fed, n, up
  <2>2. up \in ScreenText
    BY <1>1, <1>2, <1>3, <1>4 DEF ScreenText
  <2> QED
    BY <1>1, <1>3, <1>4, <2>1, <2>2 DEF n, up
<1>5. CASE n = MaxY
  <2>1. /\ Latest(up) = SubSeq(up, 2, n + 1) /\ Latest(up) \in Seq(Seq(Glyph))
        /\ Len(Latest(up)) = n /\ \A i \in 1..n : Latest(up)[i] = up[i + 1]
    <3>1. n + 1 > MaxY /\ (n + 1) - MaxY + 1 = 2 /\ n \in Nat
      BY <1>1, <1>2, <1>5
    <3>2. Latest(up) = SubSeq(up, 2, n + 1)
      BY <1>2, <1>3, <3>1 DEF Latest
    <3>3. \A i \in 2..(n + 1) : up[i] \in Seq(Glyph)
      BY <1>3, ElementOfSeq
    <3>4. /\ SubSeq(up, 2, n + 1) \in Seq(Seq(Glyph))
          /\ Len(SubSeq(up, 2, n + 1)) = IF 2 <= n + 1 THEN (n + 1) - 2 + 1 ELSE 0
          /\ \A i \in 1..((n + 1) - 2 + 1) : SubSeq(up, 2, n + 1)[i] = up[2 + i - 1]
      BY <3>1, <3>3, SubSeqProperties
    <3>5. 2 <= n + 1 /\ (n + 1) - 2 + 1 = n /\ \A i \in 1..n : 2 + i - 1 = i + 1
      BY <1>1
    <3> QED
      BY <3>2, <3>4, <3>5
  <2>2. SubSeq(up, 2, n + 1) = [i \in 1..n |-> up[i + 1]]
    <3>1. SubSeq(up, 2, n + 1) \in [1..n -> Seq(Glyph)]
      BY <2>1, LenProperties
    <3> QED
      BY <2>1, <3>1
  <2>3. Fed(ls) = [i \in 1..MaxY |-> IF i < MaxY THEN ls[i + 1] ELSE <<>>]
    BY <1>2, <1>5 DEF Fed, n
  <2>4. \A i \in 1..n : up[i + 1] = IF i < MaxY THEN ls[i + 1] ELSE <<>>
    BY <1>1, <1>2, <1>3, <1>5, SMTT(40)
  <2>5. Latest(up) = Fed(ls)
    BY <1>5, <2>1, <2>2, <2>3, <2>4
  <2>6. \A i \in 1..MaxY : Fed(ls)[i] \in Seq(Glyph) /\ Len(Fed(ls)[i]) <= MaxX
    BY <1>1, <1>2, <1>5, <2>3
  <2>7. Fed(ls) \in Seq(Seq(Glyph)) /\ Len(Fed(ls)) = MaxY
    BY <1>5, <2>1, <2>5
  <2>8. Fed(ls) \in ScreenText
    BY <1>1, <1>2, <1>5, <2>6, <2>7 DEF ScreenText
  <2> QED
    BY <1>1, <1>2, <1>5, <2>3, <2>5, <2>7, <2>8 DEF n, up
<1> QED
  BY <1>1, <1>2, <1>4, <1>5

\* One part of a console changed.
LEMMA PartSet ==
  ASSUME NEW c, IsConsole(c), NEW v
  PROVE  /\ [c EXCEPT !.Fb = v] = [Fb |-> v, PosX |-> c.PosX, PosY |-> c.PosY, fault |-> c.fault]
         /\ [c EXCEPT !.PosX = v] = [Fb |-> c.Fb, PosX |-> v, PosY |-> c.PosY, fault |-> c.fault]
         /\ [c EXCEPT !.PosY = v] = [Fb |-> c.Fb, PosX |-> c.PosX, PosY |-> v, fault |-> c.fault]
         /\ [c EXCEPT !.fault = v] = [Fb |-> c.Fb, PosX |-> c.PosX, PosY |-> c.PosY, fault |-> v]
<1>1. [c EXCEPT !.Fb = v] = [Fb |-> v, PosX |-> c.PosX, PosY |-> c.PosY, fault |-> c.fault]
  BY DEF IsConsole
<1>2. [c EXCEPT !.PosX = v] = [Fb |-> c.Fb, PosX |-> v, PosY |-> c.PosY, fault |-> c.fault]
  BY DEF IsConsole
<1>3. [c EXCEPT !.PosY = v] = [Fb |-> c.Fb, PosX |-> c.PosX, PosY |-> v, fault |-> c.fault]
  BY DEF IsConsole
<1>4. [c EXCEPT !.fault = v] = [Fb |-> c.Fb, PosX |-> c.PosX, PosY |-> c.PosY, fault |-> v]
  BY DEF IsConsole
<1> QED
  BY <1>1, <1>2, <1>3, <1>4

\* What a console consists of.
Made(c, fb, x, y) == IsConsole(c) /\ c.Fb = fb /\ c.PosX = x /\ c.PosY = y /\ c.fault = FALSE

LEMMA LineFeed ==
  ASSUME NEW c, NEW fb, NEW x, NEW y, Made(c, fb, x, y)
  PROVE  Made(NextLine(c), fb, 0, y + 1)
<1> DEFINE d == [c EXCEPT !.PosX = 0]
           z == y + 1
<1>1. d = [Fb |-> fb, PosX |-> 0, PosY |-> y, fault |-> FALSE]
  <2>1. d = [Fb |-> c.Fb, PosX |-> 0, PosY |-> c.PosY, fault |-> c.fault]
    <3> DEFINE v == 0
    <3> HIDE DEF v
    <3>1. [c EXCEPT !.PosX = v] = [Fb |-> c.Fb, PosX |-> v, PosY |-> c.PosY, fault |-> c.fault]
      BY PartSet DEF Made
    <3> QED
      BY <3>1 DEF v
  <2> HIDE DEF d
  <2> QED
    BY <2>1 DEF Made
<1>2. NextLine(c) = [d EXCEPT !.PosY = z]
  BY DEF NextLine, Made
<1> HIDE DEF d, z
<1>3. IsConsole(d) /\ d.Fb = fb /\ d.PosX = 0 /\ d.fault = FALSE
  BY <1>1 DEF IsConsole
<1>4. NextLine(c) = [Fb |-> fb, PosX |-> 0, PosY |-> z, fault |-> FALSE]
  BY <1>2, <1>3, PartSet
<1>5. Made(NextLine(c), fb, 0, z)
  BY <1>4 DEF Made, IsConsole
<1> QED
  BY <1>5 DEF z

LEMMA ScrollUp ==
  ASSUME NEW c, NEW fb, NEW x, NEW y, Made(c, fb, x, y)
  PROVE  /\ MaxY < 2 => fb_scrollup(c).fault = TRUE
         /\ ~(MaxY < 2) =>
              Made(fb_scrollup(c),
                   [i \in DOMAIN fb |->
                      IF i < Across * (MaxY - 1) THEN fb[i + Across]
                      ELSE IF i < Across * (MaxY - 1) + Across THEN Dark ELSE fb[i]], x, y)
<1>1. CASE MaxY < 2
  <2>1. fb_scrollup(c) = [c EXCEPT !.fault = TRUE]
    BY <1>1 DEF fb_scrollup
  <2>2. [c EXCEPT !.fault = TRUE] = [Fb |-> c.Fb, PosX |-> c.PosX, PosY |-> c.PosY, fault |-> TRUE]
    BY PartSet DEF Made
  <2> QED
    BY <1>1, <2>1, <2>2
<1>2. CASE ~(MaxY < 2)
  <2> DEFINE up == [i \in DOMAIN fb |->
                      IF i < Across * (MaxY - 1) THEN fb[i + Across]
                      ELSE IF i < Across * (MaxY - 1) + Across THEN Dark ELSE fb[i]]
  <2>1. fb_scrollup(c) = [c EXCEPT !.Fb = up]
    BY <1>2 DEF fb_scrollup, Across, Made
  <2> HIDE DEF up
  <2>2. fb_scrollup(c) = [Fb |-> up, PosX |-> x, PosY |-> y, fault |-> FALSE]
    BY <2>1, PartSet DEF Made
  <2>3. Made(fb_scrollup(c), up, x, y)
    BY <2>2 DEF Made, IsConsole
  <2> QED
    BY <1>2, <2>3 DEF up
<1> QED
  BY <1>1, <1>2

LEMMA ScrolledIs ==
  ASSUME NEW c, NEW fb, NEW x, NEW y \in Nat, Made(c, fb, x, y)
  PROVE  /\ y # MaxY => Scrolled(c) = c
         /\ y = MaxY => \E d : Made(d, fb, x, MaxY - 1) /\ Scrolled(c) = fb_scrollup(d)
<1>1. ASSUME y # MaxY PROVE Scrolled(c) = c
  BY <1>1 DEF Scrolled, Made
<1>2. ASSUME y = MaxY PROVE \E d : Made(d, fb, x, MaxY - 1) /\ Scrolled(c) = fb_scrollup(d)
  <2> DEFINE z == MaxY - 1
             d == [c EXCEPT !.PosY = z]
  <2>1. Scrolled(c) = fb_scrollup(d)
    BY <1>2 DEF Scrolled, Made
  <2> HIDE DEF z
  <2>2. d = [Fb |-> fb, PosX |-> x, PosY |-> z, fault |-> FALSE]
    BY PartSet, ZenonT(40) DEF Made
  <2>3. Made(d, fb, x, z)
    BY <2>2 DEF Made, IsConsole
  <2> QED
    BY <2>1, <2>3 DEF z
<1> QED
  BY <1>1, <1>2

LEMMA DrawnIs ==
  ASSUME NEW c, NEW fb, NEW x, NEW y, NEW ch, Made(c, fb, x, y)
  PROVE  Made(Drawn(c, ch),
              [k \in DOMAIN fb |->
                 LET i == (k % screen.width) - x * FONT_WIDTH
                     j == (k \div screen.width) - y * FONT_HEIGHT
                 IN  IF i \in 0..(FONT_WIDTH - 1) /\ j \in 0..(FONT_HEIGHT - 1)
                     THEN <<ch, i, j>> ELSE fb[k]], x + 1, y)
<1> DEFINE drawn == [k \in DOMAIN fb |->
                 LET i == (k % screen.width) - x * FONT_WIDTH
                     j == (k \div screen.width) - y * FONT_HEIGHT
                 IN  IF i \in 0..(FONT_WIDTH - 1) /\ j \in 0..(FONT_HEIGHT - 1)
                     THEN <<ch, i, j>> ELSE fb[k]]
           d == [c EXCEPT !.Fb = drawn]
           z == x + 1
<1>1. Drawn(c, ch) = [d EXCEPT !.PosX = z]
  BY DEF Drawn, Made
<1> HIDE DEF drawn, z
<1>2. d = [Fb |-> drawn, PosX |-> x, PosY |-> y, fault |-> FALSE]
  BY PartSet, ZenonT(40) DEF Made
<1> HIDE DEF d
<1>3. IsConsole(d) /\ d.Fb = drawn /\ d.PosY = y /\ d.fault = FALSE
  BY <1>2 DEF IsConsole
<1>4. Drawn(c, ch) = [Fb |-> drawn, PosX |-> z, PosY |-> y, fault |-> FALSE]
  BY <1>1, <1>3, PartSet
<1>5. Made(Drawn(c, ch), drawn, z, y)
  BY <1>4 DEF Made, IsConsole
<1> QED
  BY <1>5 DEF drawn, z

LineFed(c) == Scrolled(NextLine(c))

LEMMA NewLine ==
  ASSUME screen \in Screen, NEW c, NEW ls, Shows(c, ls)
  PROVE  /\ Agrees(LineFed(c), Latest(Append(ls, <<>>)))
         /\ LineFed(c).fault \/ LineFed(c).PosX = 0
<1> DEFINE placed == LineFed(c)
<1>1. /\ ls \in ScreenText /\ IsConsole(c) /\ c.fault = FALSE /\ c.PosY = Len(ls) - 1
      /\ DOMAIN c.Fb = Pixels /\ \A k \in Pixels : c.Fb[k] = PixelOf(ls, k)
  BY DEF Shows
<1>2. /\ Latest(Append(ls, <<>>)) = Fed(ls) /\ Fed(ls) \in ScreenText
      /\ Len(Fed(ls)) = IF Len(ls) < MaxY THEN Len(ls) + 1 ELSE MaxY
      /\ Fed(ls)[Len(Fed(ls))] = <<>>
  BY <1>1, FedIs
<1>3. Len(ls) \in 1..MaxY /\ DOMAIN ls = 1..Len(ls) /\ MaxY \in Nat /\ Len(<<>>) = 0
  BY <1>1, PageIs, ScreenIs
<1>4. DOMAIN Fed(ls) = 1..Len(Fed(ls))
  BY <1>2, PageIs
<1>5. Made(NextLine(c), c.Fb, 0, Len(ls))
  <2>1. Made(c, c.Fb, c.PosX, c.PosY) /\ c.PosY + 1 = Len(ls)
    BY <1>1, <1>3 DEF Made
  <2> QED
    BY <2>1, LineFeed
<1>6. CASE Len(ls) < MaxY
  <2>1. Made(placed, c.Fb, 0, Len(ls))
    BY <1>3, <1>5, <1>6, ScrolledIs DEF LineFed
  <2>2. ASSUME NEW k \in Pixels PROVE c.Fb[k] = PixelOf(Fed(ls), k)
    <3>1. Fed(ls) = Append(ls, <<>>)
      BY <1>6 DEF Fed
    <3>2. \A y \in 1..Len(ls) : Fed(ls)[y] = ls[y]
      BY <1>1, <1>3, <3>1, PageIs, AppendProperties
    <3>3. DOMAIN Fed(ls)[Len(ls) + 1] = {}
      BY <1>2, <1>6
    <3>4. Row(k) \in Nat
      BY PixelIs
    <3>5. CASE Row(k) + 1 <= Len(ls)
      <4>1. Fed(ls)[Row(k) + 1] = ls[Row(k) + 1]
        BY <1>3, <3>2, <3>4, <3>5
      <4>2. Row(k) + 1 \in DOMAIN ls /\ Row(k) + 1 \in DOMAIN Fed(ls)
        BY <1>2, <1>3, <1>4, <1>6, <3>4, <3>5
      <4> QED
        BY <1>1, <4>1, <4>2 DEF PixelOf, Part
    <3>6. CASE ~(Row(k) + 1 <= Len(ls))
      <4>1. Row(k) + 1 \notin DOMAIN ls
        BY <1>3, <3>4, <3>6
      <4>2. Row(k) + 1 \in DOMAIN Fed(ls) => Row(k) + 1 = Len(ls) + 1
        BY <1>2, <1>3, <1>4, <1>6, <3>4, <3>6
      <4> QED
        BY <1>1, <3>3, <4>1, <4>2 DEF PixelOf, Part
    <3> QED
      BY <3>5, <3>6
  <2> QED
    BY <1>1, <1>2, <1>3, <1>6, <2>1, <2>2 DEF Shows, Agrees, Made
<1>7. CASE Len(ls) = MaxY
  <2>1. PICK d : Made(d, c.Fb, 0, MaxY - 1) /\ placed = fb_scrollup(d)
    BY <1>3, <1>5, <1>7, ScrolledIs DEF LineFed
  <2>2. CASE MaxY < 2
    BY <2>1, <2>2, ScrollUp DEF Agrees
  <2>3. CASE ~(MaxY < 2)
    <3> DEFINE up == [i \in Pixels |->
                        IF i < Across * (MaxY - 1) THEN c.Fb[i + Across]
                        ELSE IF i < Across * (MaxY - 1) + Across THEN Dark ELSE c.Fb[i]]
    <3>1. Made(placed, up, 0, MaxY - 1)
      BY <1>1, <2>1, <2>3, ScrollUp
    <3>2. ASSUME NEW k \in Pixels PROVE up[k] = PixelOf(Fed(ls), k)
      <4>1. MaxY - 1 \in Nat /\ Across \in Nat /\ Row(k) \in Nat
        BY <1>3, <2>3, ScreenIs, PixelIs
      <4>2. Across * (MaxY - 1) + Across = Across * MaxY
        BY <1>3, <4>1
      <4>3. /\ k < Across * (MaxY - 1) <=> Row(k) < MaxY - 1
            /\ k < Across * MaxY <=> Row(k) < MaxY
        BY <1>3, <4>1, RowsBefore
      <4>4. \A i \in 1..MaxY : Fed(ls)[i] = IF i < MaxY THEN ls[i + 1] ELSE <<>>
        BY <1>3, <1>7 DEF Fed
      <4>5. CASE Row(k) < MaxY - 1
        <5>1. up[k] = c.Fb[k + Across]
          BY <4>3, <4>5
        <5>2. /\ k + Across \in Pixels
              /\ Row(k + Across) = Row(k) + 1 /\ RowPart(k + Across) = RowPart(k)
              /\ Col(k + Across) = Col(k) /\ ColPart(k + Across) = ColPart(k)
          <6>1. Row(k) + 1 < MaxY
            BY <1>3, <4>1, <4>5
          <6> QED
            BY <6>1, RowBelow
        <5>3. up[k] = Part(ls, Row(k) + 2, Col(k) + 1, ColPart(k), RowPart(k))
          <6>1. up[k] = PixelOf(ls, k + Across)
            BY <1>1, <5>1, <5>2
          <6>2. (Row(k) + 1) + 1 = Row(k) + 2
            BY <4>1
          <6> QED
            BY <5>2, <6>1, <6>2 DEF PixelOf
        <5>4. /\ Row(k) + 2 \in 1..MaxY /\ Row(k) + 1 \in 1..MaxY
              /\ Fed(ls)[Row(k) + 1] = ls[Row(k) + 2]
          BY <1>3, <4>1, <4>4, <4>5
        <5> QED
          BY <1>2, <1>3, <1>4, <1>7, <5>3, <5>4 DEF PixelOf, Part
      <4>6. CASE Row(k) = MaxY - 1
        <5>1. up[k] = Dark
          BY <1>3, <4>1, <4>2, <4>3, <4>6
        <5>2. DOMAIN Fed(ls)[Row(k) + 1] = {}
          BY <1>3, <4>1, <4>4, <4>6
        <5> QED
          BY <5>1, <5>2 DEF PixelOf, Part
      <4>7. CASE Row(k) >= MaxY
        <5>1. up[k] = PixelOf(ls, k)
          BY <1>1, <1>3, <4>1, <4>2, <4>3, <4>7
        <5>2. Row(k) + 1 \notin DOMAIN ls /\ Row(k) + 1 \notin DOMAIN Fed(ls)
          BY <1>2, <1>3, <1>4, <1>7, <4>1, <4>7
        <5> QED
          BY <5>1, <5>2 DEF PixelOf, Part
      <4> QED
        BY <1>3, <4>1, <4>5, <4>6, <4>7
    <3>3. DOMAIN up = Pixels
      OBVIOUS
    <3> HIDE DEF up
    <3> QED
      BY <1>1, <1>2, <1>3, <1>7, <3>1, <3>2, <3>3 DEF Shows, Agrees, Made
  <2> QED
    BY <2>2, <2>3
<1>8. Len(ls) < MaxY \/ Len(ls) = MaxY
  <2>1. Len(ls) \in 1..MaxY /\ MaxY \in Nat
    BY <1>3
  <2> QED
    BY <2>1
<1> QED
  BY <1>6, <1>7, <1>8

\* ch is at the end of the last line.
Lengthened(ls, ch) == [ls EXCEPT ![Len(ls)] = Append(@, ch)]

LEMMA DrawnShows ==
  ASSUME screen \in Screen, NEW c, NEW ls, NEW ch \in Glyph, Shows(c, ls), c.PosX # MaxX
  PROVE  Shows(Drawn(c, ch), Lengthened(ls, ch))
<1> DEFINE n == Len(ls)
           x == Len(ls[n])
           ext == Lengthened(ls, ch)
<1>1. /\ ls \in ScreenText /\ IsConsole(c) /\ c.fault = FALSE /\ c.PosY = n - 1 /\ c.PosX = x
      /\ DOMAIN c.Fb = Pixels /\ \A k \in Pixels : c.Fb[k] = PixelOf(ls, k)
  BY DEF Shows
<1>2. /\ ls \in Seq(Seq(Glyph)) /\ n \in 1..MaxY /\ DOMAIN ls = 1..n
      /\ \A i \in 1..n : ls[i] \in Seq(Glyph) /\ DOMAIN ls[i] = 1..Len(ls[i])
                        /\ Len(ls[i]) \in Nat /\ Len(ls[i]) <= MaxX
      /\ MaxX \in Nat
  BY <1>1, PageIs, ScreenIs
<1>3. x \in Nat /\ x < MaxX
  BY <1>1, <1>2, SMTT(30)
<1>4. /\ Append(ls[n], ch) \in Seq(Glyph) /\ Len(Append(ls[n], ch)) = x + 1
      /\ \A i \in 1..(x + 1) : Append(ls[n], ch)[i] = IF i = x + 1 THEN ch ELSE ls[n][i]
      /\ DOMAIN Append(ls[n], ch) = 1..(x + 1)
  <2>1. ls[n] \in Seq(Glyph)
    BY <1>2
  <2>2. /\ Append(ls[n], ch) \in Seq(Glyph) /\ Len(Append(ls[n], ch)) = x + 1
        /\ \A i \in 1..(x + 1) : Append(ls[n], ch)[i] = IF i = x + 1 THEN ch ELSE ls[n][i]
    BY <2>1, AppendProperties
  <2> QED
    BY <2>2, LenProperties
<1>5. /\ ext \in Seq(Seq(Glyph)) /\ Len(ext) = n /\ DOMAIN ext = 1..n
      /\ \A i \in 1..n : ext[i] = IF i = n THEN Append(ls[n], ch) ELSE ls[i]
  <2>1. n \in 1..n
    BY <1>2
  <2> QED
    BY <1>2, <1>4, <2>1, ExceptSeq DEF Lengthened
<1> HIDE DEF ext, x, n
<1>6. ext \in ScreenText
  <2>1. ext \in Seq(Seq(Glyph)) /\ Len(ext) \in 1..MaxY
    BY <1>2, <1>5
  <2>2. ASSUME NEW i \in 1..n PROVE Len(ext[i]) <= MaxX
    <3>1. CASE i = n
      <4>1. Len(ext[i]) = x + 1
        BY <1>4, <1>5, <3>1
      <4> QED
        BY <1>2, <1>3, <4>1
    <3>2. CASE i # n
      BY <1>2, <1>5, <3>2
    <3> QED
      BY <3>1, <3>2
  <2> QED
    BY <1>5, <2>1, <2>2 DEF ScreenText
<1> DEFINE fb == [k \in Pixels |->
             LET i == (k % screen.width) - x * FONT_WIDTH
                 j == (k \div screen.width) - (n - 1) * FONT_HEIGHT
             IN  IF i \in 0..(FONT_WIDTH - 1) /\ j \in 0..(FONT_HEIGHT - 1)
                 THEN <<ch, i, j>> ELSE c.Fb[k]]
<1>7. Made(Drawn(c, ch), fb, x + 1, n - 1)
  <2>1. Made(c, c.Fb, x, n - 1)
    BY <1>1 DEF Made
  <2> QED
    BY <1>1, <2>1, DrawnIs
<1>8. ASSUME NEW k \in Pixels PROVE fb[k] = PixelOf(ext, k)
  <2> DEFINE i == (k % screen.width) - x * FONT_WIDTH
             j == (k \div screen.width) - (n - 1) * FONT_HEIGHT
  <2>1. /\ k % screen.width \in Nat /\ k \div screen.width \in Nat
        /\ FONT_WIDTH \in Nat \ {0} /\ FONT_HEIGHT \in Nat \ {0} /\ n - 1 \in Nat
        /\ Row(k) \in Nat /\ Col(k) \in Nat
    BY <1>2, ScreenIs, PixelIs
  <2>2. /\ i \in 0..(FONT_WIDTH - 1) <=> Col(k) = x
        /\ Col(k) = x => i = ColPart(k)
    BY <1>3, <2>1, InCell DEF Col, ColPart
  <2>3. /\ j \in 0..(FONT_HEIGHT - 1) <=> Row(k) = n - 1
        /\ Row(k) = n - 1 => j = RowPart(k)
    BY <2>1, InCell DEF Row, RowPart
  <2>4. fb[k] = IF i \in 0..(FONT_WIDTH - 1) /\ j \in 0..(FONT_HEIGHT - 1)
                THEN <<ch, i, j>> ELSE c.Fb[k]
    OBVIOUS
  <2> HIDE DEF i, j, fb
  <2>5. CASE Col(k) = x /\ Row(k) = n - 1
    <3>1. fb[k] = <<ch, ColPart(k), RowPart(k)>>
      BY <2>2, <2>3, <2>4, <2>5
    <3>2. Row(k) + 1 = n /\ Col(k) + 1 = x + 1 /\ n \in 1..n /\ x + 1 \in 1..(x + 1)
      BY <1>2, <1>3, <2>1, <2>5
    <3>3. ext[n] = Append(ls[n], ch) /\ Append(ls[n], ch)[x + 1] = ch
      BY <1>4, <1>5, <3>2
    <3> QED
      BY <1>4, <1>5, <3>1, <3>2, <3>3 DEF PixelOf, Part
  <2>6. CASE ~(Col(k) = x /\ Row(k) = n - 1)
    <3>1. fb[k] = PixelOf(ls, k)
      BY <1>1, <2>2, <2>3, <2>4, <2>6
    <3>2. CASE Row(k) + 1 = n
      <4>1. Col(k) + 1 # x + 1 /\ ls[n] \in Seq(Glyph) /\ DOMAIN ls[n] = 1..x /\ n \in 1..n
        BY <1>2, <2>1, <2>6, <3>2 DEF x
      <4>2. ext[n] = Append(ls[n], ch)
        BY <1>5, <4>1
      <4>3. Col(k) + 1 \in 1..(x + 1) <=> Col(k) + 1 \in 1..x
        BY <1>3, <2>1, <4>1
      <4>4. Col(k) + 1 \in 1..x => Append(ls[n], ch)[Col(k) + 1] = ls[n][Col(k) + 1]
        BY <1>3, <1>4, <4>1, <4>3
      <4> QED
        BY <1>2, <1>4, <1>5, <3>1, <3>2, <4>1, <4>2, <4>3, <4>4 DEF PixelOf, Part
    <3>3. CASE Row(k) + 1 # n
      BY <1>2, <1>5, <3>1, <3>3 DEF PixelOf, Part
    <3> QED
      BY <3>2, <3>3
  <2> QED
    BY <2>5, <2>6
<1>9. DOMAIN fb = Pixels
  OBVIOUS
<1> HIDE DEF fb
<1>10. Len(ext[Len(ext)]) = x + 1
  BY <1>2, <1>4, <1>5
<1> QED
  BY <1>5, <1>6, <1>7, <1>8, <1>9, <1>10 DEF Shows, Made, ext

\* What a character is shown as.
Visible(char) == IF char = NotAscii THEN "?" ELSE char

LEMMA CharIs ==
  ASSUME NEW char \in Char, char # Null, char # Newline
  PROVE  /\ Visible(char) \in Glyph /\ Visible(char) # Null /\ Visible(char) # Newline
BY ConsoleAssumption DEF Char, Visible, Null, Newline, NotAscii

\* After a line feed the last line is empty, so that its glyph is all of it.
LEMMA FedLengthened ==
  ASSUME screen \in Screen, NEW ls \in ScreenText, NEW ch \in Glyph
  PROVE  Latest(Append(ls, <<ch>>)) = Lengthened(Fed(ls), ch)
<1> DEFINE n == Len(ls)
           m == Len(Fed(ls))
           up == Append(ls, <<ch>>)
<1>1. /\ ls \in Seq(Seq(Glyph)) /\ n \in 1..MaxY /\ MaxY \in Nat /\ n \in Nat
  BY PageIs, ScreenIs
<1>2. /\ Fed(ls) \in ScreenText /\ m = (IF n < MaxY THEN n + 1 ELSE MaxY) /\ Fed(ls)[m] = <<>>
  BY FedIs
<1>3. Fed(ls) \in Seq(Seq(Glyph)) /\ m \in 1..MaxY /\ DOMAIN Fed(ls) = 1..m
  BY <1>2, PageIs
<1>4. <<ch>> \in Seq(Glyph) /\ Append(<<>>, ch) = <<ch>>
  OBVIOUS
<1>5. /\ up \in Seq(Seq(Glyph)) /\ Len(up) = n + 1
      /\ \A i \in 1..(n + 1) : up[i] = IF i = n + 1 THEN <<ch>> ELSE ls[i]
  BY <1>1, <1>4, AppendProperties
<1>6. /\ Lengthened(Fed(ls), ch) \in Seq(Seq(Glyph)) /\ Len(Lengthened(Fed(ls), ch)) = m
      /\ \A i \in 1..m : Lengthened(Fed(ls), ch)[i] = IF i = m THEN <<ch>> ELSE Fed(ls)[i]
  <2>1. m \in 1..m /\ Lengthened(Fed(ls), ch) = [Fed(ls) EXCEPT ![m] = <<ch>>]
    BY <1>1, <1>2, <1>3, <1>4 DEF Lengthened
  <2> HIDE DEF m
  <2> QED
    BY <1>3, <1>4, <2>1, ExceptSeq
<1> HIDE DEF n, m, up
<1>7. CASE n < MaxY
  <2>1. Latest(up) = up
    BY <1>1, <1>5, <1>7 DEF Latest
  <2>2. Fed(ls) = Append(ls, <<>>)
    BY <1>7 DEF Fed, n
  <2>3. \A i \in 1..n : Fed(ls)[i] = ls[i]
    BY <1>1, <2>2, EmptySeq, AppendProperties DEF n
  <2>4. m = n + 1 /\ Len(up) = Len(Lengthened(Fed(ls), ch))
    BY <1>2, <1>5, <1>6, <1>7
  <2>5. \A i \in 1..Len(up) : up[i] = Lengthened(Fed(ls), ch)[i]
    <3> SUFFICES ASSUME NEW i \in 1..(n + 1) PROVE up[i] = Lengthened(Fed(ls), ch)[i]
      BY <1>5
    <3>1. up[i] = IF i = n + 1 THEN <<ch>> ELSE ls[i]
      BY <1>5
    <3>2. i \in 1..m /\ Lengthened(Fed(ls), ch)[i] = IF i = m THEN <<ch>> ELSE Fed(ls)[i]
      BY <1>6, <2>4
    <3>3. i = n + 1 \/ i \in 1..n
      BY <1>1
    <3> QED
      BY <1>1, <2>3, <2>4, <3>1, <3>2, <3>3
  <2>6. up = Lengthened(Fed(ls), ch)
    BY <1>5, <1>6, <2>4, <2>5, SeqEqual
  <2> QED
    BY <2>1, <2>6 DEF up
<1>8. CASE n = MaxY
  <2>1. n + 1 > MaxY /\ (n + 1) - MaxY + 1 = 2
    BY <1>1, <1>8
  <2>2. Latest(up) = SubSeq(up, 2, n + 1)
    BY <1>1, <1>5, <2>1 DEF Latest
  <2>3. \A i \in 2..(n + 1) : up[i] \in Seq(Glyph)
    BY <1>1, <1>5, ElementOfSeq
  <2>4. /\ Latest(up) \in Seq(Seq(Glyph)) /\ Len(Latest(up)) = n
        /\ \A i \in 1..n : Latest(up)[i] = up[i + 1]
    <3>1. /\ SubSeq(up, 2, n + 1) \in Seq(Seq(Glyph))
          /\ Len(SubSeq(up, 2, n + 1)) = IF 2 <= n + 1 THEN (n + 1) - 2 + 1 ELSE 0
          /\ \A i \in 1..((n + 1) - 2 + 1) : SubSeq(up, 2, n + 1)[i] = up[2 + i - 1]
      BY <1>1, <2>3, SubSeqProperties
    <3>2. 2 <= n + 1 /\ (n + 1) - 2 + 1 = n /\ \A i \in 1..n : 2 + i - 1 = i + 1
      BY <1>1
    <3> QED
      BY <2>2, <3>1, <3>2
  <2>5. \A i \in 1..n : Fed(ls)[i] = IF i < n THEN ls[i + 1] ELSE <<>>
    BY <1>1, <1>8 DEF Fed, n
  <2>6. m = n /\ Len(Latest(up)) = Len(Lengthened(Fed(ls), ch))
    BY <1>2, <1>6, <1>8, <2>4
  <2>7. \A i \in 1..n : up[i + 1] = Lengthened(Fed(ls), ch)[i]
    <3> SUFFICES ASSUME NEW i \in 1..n PROVE up[i + 1] = Lengthened(Fed(ls), ch)[i]
      OBVIOUS
    <3>1. i + 1 \in 1..(n + 1) /\ (i + 1 = n + 1 <=> i = n) /\ (i < n <=> i # n)
      BY <1>1
    <3>2. up[i + 1] = IF i = n THEN <<ch>> ELSE ls[i + 1]
      BY <1>5, <3>1
    <3>3. Lengthened(Fed(ls), ch)[i] = IF i = n THEN <<ch>> ELSE Fed(ls)[i]
      BY <1>6, <2>6
    <3>4. Fed(ls)[i] = IF i < n THEN ls[i + 1] ELSE <<>>
      BY <2>5
    <3> QED
      BY <3>1, <3>2, <3>3, <3>4
  <2>8. Latest(up) = Lengthened(Fed(ls), ch)
    BY <1>6, <2>4, <2>6, <2>7, SeqEqual
  <2> QED
    BY <2>8 DEF up
<1>9. n < MaxY \/ n = MaxY
  BY <1>1
<1> QED
  BY <1>7, <1>8, <1>9

\* Whatever is printed next, the screen shows what is then to be seen.
LEMMA OutputAgrees ==
  ASSUME screen \in Screen, NEW c, NEW ls, Agrees(c, ls), NEW char \in Char
  PROVE  Agrees(fb_output(c, char), Seen(ls, char))
<1> DEFINE ch == Visible(char)
<1>1. CASE c.fault
  <2>1. fb_output(c, char) = c
    BY <1>1 DEF fb_output
  <2> QED
    BY <1>1, <2>1 DEF Agrees
<1>2. CASE ~c.fault
  <2>1. Shows(c, ls) /\ c.fault = FALSE
    BY <1>2 DEF Agrees, Shows
  <2>2. /\ ls \in ScreenText /\ Len(ls) \in 1..MaxY /\ MaxY \in Nat /\ MaxX \in Nat
        /\ c.PosY = Len(ls) - 1 /\ c.PosX = Len(ls[Len(ls)]) /\ Last(ls) = ls[Len(ls)]
    BY <2>1, PageIs, ScreenIs DEF Shows, Last
  <2>3. CASE char = Null
    <3>1. fb_output(c, char) = c
      BY <2>3 DEF fb_output, Null, NotAscii
    <3>2. Lined(ls, char) = ls
      BY <2>3 DEF Lined, Null, Newline
    <3>3. Latest(ls) = ls
      BY <2>2 DEF Latest
    <3> QED
      BY <2>1, <3>1, <3>2, <3>3 DEF Seen, Agrees
  <2>4. CASE char = Newline
    <3>1. fb_output(c, char) = LineFed(c)
      BY <2>1, <2>4 DEF fb_output, LineFed, Null, Newline, NotAscii
    <3>2. Lined(ls, char) = Append(ls, <<>>)
      BY <2>4 DEF Lined, Null, Newline
    <3> QED
      BY <2>1, <3>1, <3>2, NewLine DEF Seen
  <2>5. CASE char # Null /\ char # Newline
    <3>1. ch \in Glyph /\ ch # Null /\ ch # Newline
      BY <2>5, CharIs
    <3>2. CASE c.PosX # MaxX
      <4>1. Scrolled(c) = c
        <5>1. c.PosY # MaxY
          BY <2>2
        <5> QED
          BY <5>1 DEF Scrolled
      <4>2. fb_output(c, char) = Drawn(c, ch)
        BY <2>1, <3>1, <3>2, <4>1 DEF fb_output, Visible
      <4>3. Lined(ls, char) = Lengthened(ls, ch)
        BY <2>2, <2>5, <3>2 DEF Lined, Lengthened, Visible
      <4>4. Shows(Drawn(c, ch), Lengthened(ls, ch))
        BY <2>1, <3>1, <3>2, DrawnShows
      <4>5. Latest(Lengthened(ls, ch)) = Lengthened(ls, ch)
        <5>1. Lengthened(ls, ch) \in ScreenText
          BY <4>4 DEF Shows
        <5> QED
          BY <2>2, <5>1, PageIs DEF Latest
      <4> QED
        BY <4>2, <4>3, <4>4, <4>5 DEF Seen, Agrees, Shows
    <3>3. CASE c.PosX = MaxX
      <4>1. /\ Agrees(LineFed(c), Latest(Append(ls, <<>>)))
            /\ LineFed(c).fault \/ LineFed(c).PosX = 0
        BY <2>1, NewLine
      <4>2. Latest(Append(ls, <<>>)) = Fed(ls)
        BY <2>2, FedIs
      <4>3. Lined(ls, char) = Append(ls, <<ch>>)
        BY <2>2, <2>5, <3>3 DEF Lined, Visible
      <4>4. Seen(ls, char) = Lengthened(Fed(ls), ch)
        BY <2>2, <3>1, <4>3, FedLengthened DEF Seen
      <4>5. fb_output(c, char) = IF LineFed(c).fault THEN LineFed(c) ELSE Drawn(LineFed(c), ch)
        BY <2>1, <3>1, <3>3 DEF fb_output, Visible, LineFed
      <4>6. CASE LineFed(c).fault
        BY <4>1, <4>5, <4>6 DEF Agrees
      <4>7. CASE ~LineFed(c).fault
        <5>1. Shows(LineFed(c), Fed(ls)) /\ LineFed(c).PosX # MaxX
          <6>1. MaxX # 0
            BY ScreenIs
          <6> QED
            BY <4>1, <4>2, <4>7, <6>1 DEF Agrees
        <5>2. Shows(Drawn(LineFed(c), ch), Lengthened(Fed(ls), ch))
          BY <3>1, <5>1, DrawnShows
        <5> QED
          BY <4>4, <4>5, <4>7, <5>2 DEF Agrees, Shows
      <4> QED
        BY <4>6, <4>7
    <3> QED
      BY <3>2, <3>3
  <2> QED
    BY <2>3, <2>4, <2>5
<1> QED
  BY <1>1, <1>2

LEMMA PrintedAgrees ==
  ASSUME screen \in Screen, NEW c, NEW ls, Agrees(c, ls), NEW text \in Seq(Char)
  PROVE  Agrees(Printed(c, text), Expected(ls, text))
<1>1. PICK f : /\ f[0] = c /\ \A n \in 1..Len(text) : f[n] = fb_output(f[n - 1], text[n])
               /\ Printed(c, text) = f[Len(text)]
  BY ConsoleFold
<1>2. PICK g : /\ g[0] = ls /\ \A n \in 1..Len(text) : g[n] = Seen(g[n - 1], text[n])
               /\ Expected(ls, text) = g[Len(text)]
  BY LinesFold
<1>3. Len(text) \in Nat
  BY LenProperties
<1> DEFINE Bad == {n \in Nat : n <= Len(text) /\ ~Agrees(f[n], g[n])}
<1>4. Bad = {}
  <2> SUFFICES ASSUME Bad # {} PROVE FALSE
    OBVIOUS
  <2>1. PICK n \in Bad : \A k \in Bad : n <= k
    <3> HIDE DEF Bad
    <3>1. Bad \in SUBSET Nat
      BY DEF Bad
    <3> QED
      BY <3>1, LeastElement
  <2>2. n # 0
    BY <1>1, <1>2, <2>1
  <2>3. n - 1 \in Nat /\ n - 1 <= Len(text) /\ n - 1 < n /\ n \in 1..Len(text)
    BY <1>3, <2>1, <2>2
  <2>4. Agrees(f[n - 1], g[n - 1])
    BY <2>1, <2>3
  <2>5. text[n] \in Char
    BY <2>3, ElementOfSeq
  <2>6. Agrees(f[n], g[n])
    BY <1>1, <1>2, <2>3, <2>4, <2>5, OutputAgrees
  <2> QED
    BY <2>1, <2>6
<1>5. Agrees(f[Len(text)], g[Len(text)])
  BY <1>3, <1>4
<1> QED
  BY <1>1, <1>2, <1>5

-----------------------------------------------------------------------------
(* What is on the screen                                                   *)

ShownInv ==
  /\ screen \in Screen
  /\ IF pc = "boot" THEN lines = <<>> /\ Made(console, console.Fb, 0, 0)
     ELSE Agrees(console, lines)

LEMMA InitShown == Init => ShownInv
<1> SUFFICES ASSUME Init PROVE ShownInv
  OBVIOUS
<1>1. /\ screen \in Screen /\ lines = <<>> /\ pc = "boot"
      /\ console = [Fb |-> [i \in Pixels |-> <<"firmware">>], PosX |-> 0, PosY |-> 0, fault |-> FALSE]
  BY DEF Init, ConsoleInit
<1>2. Made(console, console.Fb, 0, 0)
  BY <1>1 DEF Made, IsConsole
<1> QED
  BY <1>1, <1>2 DEF ShownInv

LEMMA SameScreen ==
  ASSUME screen' = screen, Agrees(console', lines')
  PROVE  Agrees(console, lines)'
BY DEF Agrees, Shows, ScreenText, IsConsole, PixelOf, Part, Row, Col, RowPart, ColPart, Pixels, MaxX, MaxY

LEMMA PrintfShown ==
  ASSUME screen \in Screen, Agrees(console, lines), NEW text \in Seq(Char), printf(text)
  PROVE  Agrees(console, lines)' /\ screen' = screen
<1>1. console' = Printed(console, text) /\ lines' = Expected(lines, text) /\ screen' = screen
  BY DEF printf, Printed
<1>2. Agrees(console', lines')
  BY <1>1, PrintedAgrees
<1> QED
  BY <1>1, <1>2, SameScreen

\* A cleared screen shows one empty line.
LEMMA InitialShown ==
  ASSUME screen \in Screen, Made(console, console.Fb, 0, 0), fb_init
  PROVE  Agrees(console, lines)' /\ screen' = screen
<1> DEFINE dark == [i \in Pixels |-> Dark]
           c == [console EXCEPT !.Fb = dark]
           ls == << <<>> >>
<1>1. console' = Printed(c, Hello) /\ lines' = Expected(ls, Hello) /\ screen' = screen
  BY DEF fb_init, Printed
<1>2. DOMAIN dark = Pixels /\ \A k \in Pixels : dark[k] = Dark
  OBVIOUS
<1> HIDE DEF dark
<1>3. c = [Fb |-> dark, PosX |-> 0, PosY |-> 0, fault |-> FALSE]
  BY PartSet, ZenonT(40) DEF Made
<1>4. /\ ls \in Seq(Seq(Glyph)) /\ Len(ls) = 1 /\ ls[1] = <<>> /\ Len(<<>>) = 0
      /\ DOMAIN ls = 1..1 /\ DOMAIN ls[1] = {}
  OBVIOUS
<1>5. MaxX \in Nat /\ MaxY \in Nat \ {0}
  BY ScreenIs
<1> HIDE DEF c, ls
<1>6. ls \in ScreenText
  <2>1. Len(ls) \in 1..MaxY
    BY <1>4, <1>5
  <2>2. ASSUME NEW i \in 1..Len(ls) PROVE Len(ls[i]) <= MaxX
    <3>1. i = 1
      BY <1>4
    <3> QED
      BY <1>4, <1>5, <3>1
  <2> QED
    BY <1>4, <2>1, <2>2 DEF ScreenText
<1>7. ASSUME NEW k \in Pixels PROVE PixelOf(ls, k) = Dark
  BY <1>4 DEF PixelOf, Part
<1>8. Agrees(c, ls)
  BY <1>2, <1>3, <1>4, <1>6, <1>7 DEF Agrees, Shows, IsConsole
<1>9. Hello \in Seq(Char)
  BY ConsoleAssumption
<1>10. Agrees(console', lines')
  BY <1>1, <1>8, <1>9, PrintedAgrees
<1> QED
  BY <1>1, <1>10, SameScreen

LEMMA TextIs ==
  ASSUME NEW m \in {"too much", "0/40", "40/40", "buggy", "corrupted"},
         NEW k \in {"too much", "0/40", "40/40", "buggy", "corrupted"}
  PROVE  Message[m] \in Seq(Char) /\ Message[m] \o Message[k] \in Seq(Char)
<1>1. Message[m] \in Seq(Char) /\ Message[k] \in Seq(Char)
  BY KernelHeapAssumption
<1> QED
  BY <1>1, ConcatProperties

\* Every other step prints a text or leaves the console alone.
Silent == UNCHANGED consoleVars /\ (pc' = "boot" => pc = "boot") /\ (pc = "boot" => pc' = "boot")
Prints == pc # "boot" /\ pc' # "boot" /\ \E text \in Seq(Char) : printf(text)

LEMMA NextPrints ==
  ASSUME [Next]_vars
  PROVE  kernel_start \/ Silent \/ Prints
<1>1. CASE UNCHANGED vars
  BY <1>1 DEF vars, Silent
<1>2. CASE mm_init
  BY <1>2 DEF mm_init, Silent
<1>3. ASSUME NEW i \in 1..3, NEW here, NEW next, here # "boot", next # "boot",
             TestMalloc(i, here, next)
      PROVE  Silent \/ Prints
  <2>1. Message["too much"] \o Message[IF i = 1 THEN "0/40" ELSE "buggy"] \in Seq(Char)
    BY TextIs
  <2> QED
    BY <1>3, <2>1 DEF TestMalloc, Silent, Prints
<1>4. ASSUME NEW i \in 1..3, NEW here, NEW next, here # "boot", next # "boot",
             TestFree(i, here, next)
      PROVE  Silent \/ Prints
  <2>1. Message["40/40"] \in Seq(Char)
    BY TextIs
  <2> QED
    BY <1>4, <2>1 DEF TestFree, Silent, Prints
<1>5. CASE TestCopy
  BY <1>5 DEF TestCopy, Silent
<1>6. CASE TestCheck
  <2>1. Message["corrupted"] \in Seq(Char)
    BY TextIs
  <2> QED
    BY <1>6, <2>1 DEF TestCheck, Silent, Prints
<1>7. CASE mem_extra_test
  <2>1. CASE TestMalloc(1, "malloc1", "malloc2")
    BY <2>1, <1>3
  <2>2. CASE TestMalloc(2, "malloc2", "malloc3")
    BY <2>2, <1>3
  <2>3. CASE TestMalloc(3, "malloc3", "free2")
    BY <2>3, <1>3
  <2>4. CASE TestFree(2, "free2", "copy")
    BY <2>4, <1>4
  <2>5. CASE TestFree(1, "free1", "check")
    BY <2>5, <1>4
  <2>6. CASE TestFree(3, "free3", "ready")
    BY <2>6, <1>4
  <2> QED
    BY <1>2, <1>5, <1>6, <1>7, <2>1, <2>2, <2>3, <2>4, <2>5, <2>6 DEF mem_extra_test
<1>8. ASSUME NEW n \in Request, NEW d \in Data, Malloc(n, d)
      PROVE  Silent \/ Prints
  <2>1. Message["too much"] \in Seq(Char)
    BY TextIs
  <2> QED
    BY <1>8, <2>1 DEF Malloc, Silent, Prints
<1>9. ASSUME NEW b \in DOMAIN live, Free(b) PROVE Silent
  BY <1>9 DEF Free, Silent
<1>10. ASSUME NEW char \in Char, Say(char)
       PROVE  Prints
  <2>1. <<char>> \in Seq(Char)
    OBVIOUS
  <2> QED
    BY <1>10, <2>1 DEF Say, Prints
<1> QED
  BY <1>1, <1>7, <1>8, <1>9, <1>10 DEF Next

LEMMA NextShown ==
  ASSUME ShownInv, [Next]_vars
  PROVE  ShownInv'
<1>1. CASE kernel_start
  <2>1. /\ screen \in Screen /\ Made(console, console.Fb, 0, 0) /\ fb_init
        /\ pc' # "boot"
    BY <1>1 DEF ShownInv, kernel_start
  <2> QED
    BY <2>1, InitialShown DEF ShownInv
<1>2. CASE Silent
  <2>1. /\ screen' = screen /\ console' = console /\ lines' = lines
        /\ (pc = "boot") = (pc' = "boot")
    BY <1>2 DEF Silent, consoleVars
  <2>2. Agrees(console, lines) => Agrees(console, lines)'
    BY <2>1, SameScreen
  <2>3. Made(console, console.Fb, 0, 0) => Made(console, console.Fb, 0, 0)'
    BY <2>1 DEF Made, IsConsole
  <2> QED
    BY <2>1, <2>2, <2>3 DEF ShownInv
<1>3. CASE Prints
  <2>1. PICK text \in Seq(Char) : printf(text)
    BY <1>3 DEF Prints
  <2>2. screen \in Screen /\ Agrees(console, lines) /\ pc' # "boot"
    BY <1>3 DEF ShownInv, Prints
  <2>3. Agrees(console, lines)' /\ screen' = screen
    BY <2>1, <2>2, PrintfShown
  <2> QED
    BY <2>2, <2>3 DEF ShownInv
<1> QED
  BY <1>1, <1>2, <1>3, NextPrints

LEMMA ShownTail == ShownInv => ScreenShowsTail
<1> SUFFICES ASSUME ShownInv PROVE ScreenShowsTail
  OBVIOUS
<1>1. CASE pc = "boot"
  BY <1>1 DEF ShownInv, Made, ScreenShowsTail
<1>2. CASE pc # "boot"
  <2>1. Agrees(console, lines)
    BY <1>2 DEF ShownInv
  <2>2. CASE console.fault
    BY <2>1, <2>2 DEF Agrees, ScreenShowsTail
  <2>3. CASE ~console.fault
    <3>1. /\ console.PosY = Len(lines) - 1 /\ console.PosX = Len(Last(lines))
          /\ \A k \in Pixels : console.Fb[k] = PixelOf(lines, k)
      BY <2>1, <2>3 DEF Agrees, Shows, Last
    <3> QED
      BY <2>3, <3>1 DEF ScreenShowsTail, PixelOf, Part, Row, Col, RowPart, ColPart
  <2> QED
    BY <2>2, <2>3
<1> QED
  BY <1>1, <1>2

\* The screen always shows the last lines printed, wrapped and scrolled as the
\* text requires, on a screen of any size with any glyphs, and the cursor is at
\* their end (fb.c:45-95).
THEOREM KernelScreenShowsTail == Spec => []ScreenShowsTail
<1>1. Init => ShownInv
  BY InitShown
<1>2. ShownInv /\ [Next]_vars => ShownInv'
  BY NextShown
<1>3. ShownInv => ScreenShowsTail
  BY ShownTail
<1> QED
  BY <1>1, <1>2, <1>3, PTL DEF Spec
=============================================================================
