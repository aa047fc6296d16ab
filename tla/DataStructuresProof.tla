------------------------- MODULE DataStructuresProof -------------------------
(***************************************************************************)
(* The array behind a channel (buffer.c) implements the bounded queue, for *)
(* every capacity and every set of values, and the list of semaphores      *)
(* (linked_list.c) the sequence a channel posts, for every finite memory.  *)
(***************************************************************************)
EXTENDS RingBuffer, LinkedList,
        SequenceTheorems, FiniteSetTheorems, FunctionTheorems, TLAPS

-----------------------------------------------------------------------------
(* buffer.c                                                                *)

\* An array of n values, read as a sequence.
LEMMA ArrayIsSequence ==
  ASSUME NEW S, NEW n \in Nat, NEW f \in [1..n -> S]
  PROVE  f \in Seq(S) /\ Len(f) = n
<1>1. f \in Seq(S)
  BY SeqDef
<1>2. Len(f) \in Nat /\ DOMAIN f = 1..Len(f)
  BY <1>1, LenProperties
<1>3. 1..Len(f) = 1..n
  BY <1>2
<1> QED
  BY <1>1, <1>2, <1>3, SMT

\* Wrap brings every sum of two positions the code adds back into the array.
LEMMA WrapInIndex ==
  ASSUME NEW i \in Index, NEW j \in 0..Capacity
  PROVE  Wrap(i + j) \in Index
BY CapacityAssumption DEF Wrap, Index

\* Different offsets of less than a turn name different slots.
LEMMA WrapInjective ==
  ASSUME NEW i \in Index, NEW j \in Index, NEW k \in Index, j # k
  PROVE  Wrap(i + j) # Wrap(i + k)
BY CapacityAssumption DEF Wrap, Index

\* Starting one slot later, every value is one place nearer.
LEMMA WrapShift ==
  ASSUME NEW i \in Index, NEW j \in 0..(Capacity - 1)
  PROVE  Wrap(Wrap(i + 1) + j) = Wrap(i + (j + 1))
BY CapacityAssumption DEF Wrap, Index

\* The indices stay inside the array (buffer.c:23-27, 38-43).
THEOREM IndicesInBounds == Spec => []TypeOK
<1>1. Init => TypeOK
  BY CapacityAssumption DEF Init, TypeOK, Index
<1>2. TypeOK /\ [Next]_vars => TypeOK'
  <2> SUFFICES ASSUME TypeOK, [Next]_vars PROVE TypeOK'
    OBVIOUS
  <2>1. CASE buffer_remove
    <3>1. Wrap(next + 1) \in Index
      BY CapacityAssumption, WrapInIndex DEF TypeOK
    <3>2. size' \in 0..Capacity /\ next' \in Index /\ data' \in [Index -> Value]
      BY <2>1, <3>1, CapacityAssumption DEF buffer_remove, TypeOK
    <3>3. next \in Index /\ (reply' = data[next] \/ reply' = BufferEmpty)
      BY <2>1 DEF buffer_remove, TypeOK
    <3>4. reply' \in BOOLEAN \cup Value \cup {BufferEmpty}
      BY <3>3, Zenon DEF TypeOK
    <3> QED
      BY <3>2, <3>4 DEF TypeOK
  <2>2. ASSUME NEW v \in Value, buffer_add(v) PROVE TypeOK'
    <3>1. Wrap(next + size) \in Index
      BY WrapInIndex DEF TypeOK
    <3>2. size' \in 0..Capacity /\ next' \in Index /\ data' \in [Index -> Value]
      BY <2>2, <3>1, CapacityAssumption DEF buffer_add, TypeOK
    <3>3. reply' \in BOOLEAN \cup Value \cup {BufferEmpty}
      BY <2>2, Zenon DEF buffer_add
    <3> QED
      BY <3>2, <3>3 DEF TypeOK
  <2>3. CASE UNCHANGED vars
    BY <2>3 DEF vars, TypeOK
  <2> QED
    BY <2>1, <2>2, <2>3 DEF Next
<1> QED
  BY <1>1, <1>2, PTL DEF Spec

\* What the refinement mapping of a well-typed state is.
ContentsShape ==
  /\ Contents \in Seq(Value)
  /\ Len(Contents) = size
  /\ \A i \in 1..size : Contents[i] = data[Wrap(next + (i - 1))]

LEMMA ContentsIsSequence == TypeOK => ContentsShape
<1> SUFFICES ASSUME TypeOK PROVE ContentsShape
  OBVIOUS
<1>1. ASSUME NEW i \in 1..size
      PROVE  next + i - 1 = next + (i - 1) /\ data[Wrap(next + i - 1)] \in Value
  <2>1. i - 1 \in 0..Capacity /\ next + i - 1 = next + (i - 1)
    BY CapacityAssumption DEF TypeOK, Index
  <2>2. Wrap(next + (i - 1)) \in Index
    BY <2>1, WrapInIndex DEF TypeOK
  <2> QED
    BY <2>1, <2>2 DEF TypeOK
<1>2. Contents \in [1..size -> Value]
  BY <1>1 DEF Contents
<1>3. size \in Nat
  BY CapacityAssumption DEF TypeOK
<1>4. Contents \in Seq(Value) /\ Len(Contents) = size
  BY <1>2, <1>3, ArrayIsSequence
<1> QED
  BY <1>1, <1>4 DEF Contents, ContentsShape

\* The same of the state after a step.
LEMMA ContentsShapeNext == TypeOK' => ContentsShape'
BY ContentsIsSequence, PTL

\* A value added is the last of the queue.
LEMMA AddAppends ==
  ASSUME TypeOK, TypeOK', NEW v \in Value, buffer_add(v), size < Capacity
  PROVE  Contents' = Append(Contents, v)
<1>1. /\ size' = size + 1 /\ next' = next /\ size \in Nat /\ size' \in Nat
      /\ size \in 0..Capacity /\ size \in Index
      /\ data' = [data EXCEPT ![Wrap(next + size)] = v]
  BY CapacityAssumption DEF buffer_add, TypeOK, Index
<1>2. /\ Contents \in Seq(Value) /\ Len(Contents) = size
      /\ \A i \in 1..size : Contents[i] = data[Wrap(next + (i - 1))]
  BY ContentsIsSequence DEF ContentsShape
<1>3. /\ Contents' \in Seq(Value) /\ Len(Contents') = size + 1
      /\ \A i \in 1..(size + 1) : Contents'[i] = data'[Wrap(next + (i - 1))]
  <2>1. /\ Contents' \in Seq(Value) /\ Len(Contents') = size'
        /\ \A i \in 1..size' : Contents'[i] = data'[Wrap(next' + (i - 1))]
    BY ContentsShapeNext DEF ContentsShape
  <2> QED
    BY <2>1, <1>1
<1>4. /\ Append(Contents, v) \in Seq(Value) /\ Len(Append(Contents, v)) = size + 1
      /\ \A i \in 1..(size + 1) :
           Append(Contents, v)[i] = IF i = size + 1 THEN v ELSE Contents[i]
  BY <1>1, <1>2
<1>5. ASSUME NEW i \in 1..(size + 1) PROVE Contents'[i] = Append(Contents, v)[i]
  <2>1. Wrap(next + size) \in Index
    BY <1>1, WrapInIndex DEF TypeOK
  <2>2. CASE i = size + 1
    BY <2>1, <2>2, <1>1, <1>3, <1>4 DEF TypeOK
  <2>3. CASE i # size + 1
    <3>1. i \in 1..size /\ i - 1 \in Index /\ i - 1 # size
      BY <2>3, <1>1, CapacityAssumption DEF Index
    <3>2. Wrap(next + (i - 1)) # Wrap(next + size)
      BY <3>1, <1>1, WrapInjective DEF TypeOK
    <3>3. Wrap(next + (i - 1)) \in Index
      <4>1. next \in Index /\ i - 1 \in 0..Capacity
        BY <3>1, CapacityAssumption DEF TypeOK, Index
      <4> QED
        BY <4>1, WrapInIndex
    <3>4. data'[Wrap(next + (i - 1))] = data[Wrap(next + (i - 1))]
      BY <1>1, <3>2, <3>3 DEF TypeOK
    <3> QED
      BY <3>1, <3>4, <1>2, <1>3, <1>4, <2>3
  <2> QED
    BY <2>2, <2>3
<1> QED
  BY <1>1, <1>3, <1>4, <1>5, SeqEqual

\* A value removed is the first of the queue.
LEMMA RemoveTakesHead ==
  ASSUME TypeOK, TypeOK', buffer_remove, size > 0
  PROVE  /\ Contents # <<>>
         /\ reply' = Head(Contents)
         /\ Contents' = Tail(Contents)
<1>1. /\ size' = size - 1 /\ next' = Wrap(next + 1) /\ data' = data /\ reply' = data[next]
      /\ size \in Nat /\ size' \in Nat /\ size <= Capacity
  BY CapacityAssumption DEF buffer_remove, TypeOK, Index
<1>2. /\ Contents \in Seq(Value) /\ Len(Contents) = size
      /\ \A i \in 1..size : Contents[i] = data[Wrap(next + (i - 1))]
  BY ContentsIsSequence DEF ContentsShape
<1>3. /\ Contents' \in Seq(Value) /\ Len(Contents') = size'
      /\ \A i \in 1..size' : Contents'[i] = data'[Wrap(next' + (i - 1))]
  BY ContentsShapeNext DEF ContentsShape
<1>4. Contents # <<>>
  BY <1>1, <1>2, EmptySeq
<1>5. Head(Contents) = data[next]
  <2>1. Wrap(next + (1 - 1)) = next
    BY CapacityAssumption DEF Wrap, TypeOK, Index
  <2>2. Head(Contents) = Contents[1]
    BY <1>2, <1>4
  <2> QED
    BY <2>1, <2>2, <1>1, <1>2
<1>6. /\ Tail(Contents) \in Seq(Value) /\ Len(Tail(Contents)) = size - 1
      /\ \A i \in 1..(size - 1) : Tail(Contents)[i] = Contents[i + 1]
  BY <1>1, <1>2, <1>4, HeadTailProperties
<1>7. ASSUME NEW i \in 1..(size - 1) PROVE Contents'[i] = Tail(Contents)[i]
  <2>1. i - 1 \in 0..(Capacity - 1) /\ (i - 1) + 1 = (i + 1) - 1 /\ i + 1 \in 1..size
    BY <1>1, CapacityAssumption
  <2>2. Wrap(Wrap(next + 1) + (i - 1)) = Wrap(next + ((i - 1) + 1))
    BY <2>1, WrapShift DEF TypeOK
  <2>3. Contents'[i] = data[Wrap(next + ((i - 1) + 1))]
    BY <2>2, <1>1, <1>3
  <2>4. Tail(Contents)[i] = data[Wrap(next + ((i + 1) - 1))]
    BY <2>1, <1>2, <1>6
  <2> QED
    BY <2>1, <2>3, <2>4
<1>8. Contents' = Tail(Contents)
  BY <1>1, <1>3, <1>6, <1>7, SeqEqual
<1> QED
  BY <1>1, <1>4, <1>5, <1>8

\* The array implements the queue of buffer.h (buffer.c:18-47).
THEOREM RingBufferImplementsFifo == Spec => ImplementsFifo
<1>1. Init => Fifo!FifoInit
  <2> SUFFICES ASSUME Init PROVE Contents = <<>> /\ reply = TRUE
    BY DEF Fifo!FifoInit
  <2>1. TypeOK /\ size = 0 /\ reply = TRUE
    BY CapacityAssumption DEF Init, TypeOK, Index
  <2> QED
    BY <2>1, ContentsIsSequence, EmptySeq DEF ContentsShape
<1>2. TypeOK /\ TypeOK' /\ [Next]_vars => [Fifo!FifoNext]_<<Contents, reply>>
  <2> SUFFICES ASSUME TypeOK, TypeOK', [Next]_vars
               PROVE  [Fifo!FifoNext]_<<Contents, reply>>
    OBVIOUS
  <2>0. size \in Nat /\ size <= Capacity /\ Contents \in Seq(Value) /\ Len(Contents) = size
    BY ContentsIsSequence, CapacityAssumption DEF TypeOK, ContentsShape
  <2>1. CASE buffer_remove /\ size > 0
    BY <2>1, RemoveTakesHead DEF Fifo!FifoNext, Fifo!Remove
  <2>2. CASE buffer_remove /\ size = 0
    <3>1. Contents' = Contents
      BY <2>2 DEF buffer_remove, Contents
    <3>2. Contents = <<>>
      BY <2>0, <2>2, EmptySeq
    <3>3. reply' = BufferEmpty
      BY <2>2 DEF buffer_remove
    <3> QED
      BY <3>1, <3>2, <3>3 DEF Fifo!FifoNext, Fifo!Remove
  <2>3. ASSUME NEW v \in Value, buffer_add(v) PROVE Fifo!FifoNext
    <3>1. CASE size < Capacity
      <4>1. Contents' = Append(Contents, v)
        BY <2>3, <3>1, AddAppends
      <4>2. reply' = TRUE
        BY <2>3, <3>1, <2>0, CapacityAssumption DEF buffer_add
      <4> QED
        BY <4>1, <4>2, <3>1, <2>0 DEF Fifo!FifoNext, Fifo!Add
    <3>2. CASE ~(size < Capacity)
      <4>1. reply' = FALSE /\ Contents' = Contents
        BY <2>3, <3>2 DEF buffer_add, Contents
      <4>2. Len(Contents) = Capacity
        BY <2>0, <3>2, CapacityAssumption
      <4> QED
        BY <4>1, <4>2 DEF Fifo!FifoNext, Fifo!Add
    <3> QED
      BY <3>1, <3>2
  <2>4. CASE UNCHANGED vars
    BY <2>4 DEF vars, Contents
  <2>5. buffer_remove => size > 0 \/ size = 0
    BY DEF buffer_remove
  <2> QED
    BY <2>1, <2>2, <2>3, <2>4, <2>5 DEF Next
<1> QED
  BY <1>1, <1>2, IndicesInBounds, PTL DEF Spec, ImplementsFifo, Fifo!FifoSpec

-----------------------------------------------------------------------------
(* linked_list.c                                                           *)

\* The nodes in order, head first: s is the list the links describe.
Chained(n, s) ==
  /\ \A i, j \in 1..n : s[i] = s[j] => i = j
  /\ heap = {s[i] : i \in 1..n}
  /\ head = IF n = 0 THEN Null ELSE s[1]
  /\ \A i \in 1..n :
       /\ nextNode[s[i]] = IF i = n THEN Null ELSE s[i + 1]
       /\ prevNode[s[i]] = IF i = 1 THEN Null ELSE s[i - 1]
  /\ alive => count = n

\* Some sequence of nodes is.
ListInv == ListTypeOK /\ \E n \in Nat : \E s \in [1..n -> Node] : Chained(n, s)

-----------------------------------------------------------------------------
(* The walk                                                                *)

LEMMA LeastElement ==
  ASSUME NEW T \in SUBSET Nat, T # {}
  PROVE  \E x \in T : \A y \in T : x <= y
<1>1. IsWellFoundedOn(OpToRel(<, Nat), Nat)
  BY NatLessThanWellFounded
<1>2. PICK x \in T : \A y \in T : ~ (<<y, x>> \in OpToRel(<, Nat))
  BY <1>1, WFMin
<1>3. \A y \in T : ~(y < x)
  BY <1>2 DEF OpToRel
<1> QED
  BY <1>3

\* The addresses suffice for the list.
LEMMA LengthBound ==
  ASSUME NEW n \in Nat, NEW s \in [1..n -> Node],
         \A i, j \in 1..n : s[i] = s[j] => i = j
  PROVE  /\ Cardinality(Node) \in Nat /\ n <= Cardinality(Node)
         /\ Cardinality({s[i] : i \in 1..n}) = n
<1> DEFINE S == {s[i] : i \in 1..n}
<1>1. s \in Bijection(1..n, S)
  <2>1. s \in [1..n -> S] /\ \A t \in S : \E i \in 1..n : s[i] = t
    OBVIOUS
  <2> HIDE DEF S
  <2> QED
    BY <2>1, Fun_IsInj, Fun_IsBij
<1>2. IsFiniteSet(1..n) /\ Cardinality(1..n) = n
  BY FS_Interval
<1>3. Cardinality(S) = n
  BY <1>1, <1>2, Fun_ExistsBij, FS_Bijection
<1>4. S \subseteq Node
  OBVIOUS
<1> HIDE DEF S
<1>5. Cardinality(S) <= Cardinality(Node) /\ Cardinality(Node) \in Nat
  BY <1>4, FS_Subset, FS_CardinalityType, ListAssumption
<1> QED
  BY <1>3, <1>5 DEF S

\* The walk visits the nodes of the list in order, and then stays at Null.
LEMMA WalkIs ==
  ASSUME NEW n \in Nat, NEW s \in [1..n -> Node], Chained(n, s)
  PROVE  \A k \in 0..Cardinality(Node) : NodeAt[k] = IF k < n THEN s[k + 1] ELSE Null
<1> DEFINE C == Cardinality(Node)
           W == [k \in 0..C |-> IF k < n THEN s[k + 1] ELSE Null]
           Step(f, k) == IF k = 0 THEN head
                         ELSE IF f[k - 1] = Null THEN Null ELSE nextNode[f[k - 1]]
<1>1. C \in Nat /\ n <= C
  BY LengthBound DEF Chained
<1> HIDE DEF C
<1>2. \A k \in 0..C : W[k] = Step(W, k)
  <2> SUFFICES ASSUME NEW k \in 0..C PROVE W[k] = Step(W, k)
    OBVIOUS
  <2>1. CASE k = 0
    BY <2>1, <1>1 DEF Chained
  <2>2. CASE k # 0
    <3>1. k - 1 \in 0..C /\ W[k - 1] = IF k - 1 < n THEN s[(k - 1) + 1] ELSE Null
      BY <2>2, <1>1
    <3>2. CASE k - 1 < n
      <4>1. k \in 1..n /\ (k - 1) + 1 = k /\ s[k] \in Node /\ s[k] # Null
        BY <2>2, <3>2, <1>1, ListAssumption
      <4>2. Step(W, k) = nextNode[s[k]]
        BY <2>2, <3>1, <3>2, <4>1
      <4>3. nextNode[s[k]] = IF k = n THEN Null ELSE s[k + 1]
        BY <4>1 DEF Chained
      <4> QED
        BY <4>1, <4>2, <4>3
    <3>3. CASE ~(k - 1 < n)
      BY <2>2, <3>1, <3>3, <1>1
    <3> QED
      BY <3>2, <3>3
  <2> QED
    BY <2>1, <2>2
<1>3. W = [k \in 0..C |-> Step(W, k)]
  <2> HIDE DEF Step
  <2> QED
    BY <1>2, SMTT(30)
<1>4. NodeAt = [k \in 0..C |-> Step(NodeAt, k)]
  <2> HIDE DEF W
  <2> QED
    BY <1>3 DEF NodeAt, C
<1>5. \A k \in 0..C : NodeAt[k] = Step(NodeAt, k)
  <2> HIDE DEF Step
  <2> QED
    BY <1>4
<1> DEFINE Differ == {k \in 0..C : NodeAt[k] # W[k]}
<1>6. Differ = {}
  <2> SUFFICES ASSUME Differ # {} PROVE FALSE
    OBVIOUS
  <2>1. Differ \in SUBSET Nat
    BY <1>1
  <2>2. PICK k \in Differ : \A j \in Differ : k <= j
    BY <2>1, LeastElement
  <2>3. k \in 0..C /\ NodeAt[k] # W[k] /\ \A j \in 0..C : j < k => NodeAt[j] = W[j]
    <3>1. k \in 0..C /\ NodeAt[k] # W[k]
      BY <2>2
    <3>2. ASSUME NEW j \in 0..C, j < k, NodeAt[j] # W[j]
          PROVE  FALSE
      BY <3>1, <3>2, <2>2, <1>1
    <3> QED
      BY <3>1, <3>2
  <2>4. k # 0 => k - 1 \in 0..C /\ NodeAt[k - 1] = W[k - 1]
    BY <2>3, <1>1
  <2> HIDE DEF W
  <2>5. Step(NodeAt, k) = Step(W, k)
    BY <2>4
  <2> QED
    BY <1>2, <1>5, <2>3, <2>5
<1>7. \A k \in 0..C : NodeAt[k] = W[k]
  BY <1>6
<1> QED
  BY <1>7 DEF C

\* The walk in terms of the list.
LEMMA WalkedIs ==
  ASSUME NEW n \in Nat, NEW s \in [1..n -> Node], Chained(n, s)
  PROVE  /\ Walked = 0..(n - 1) /\ \A k \in 0..(n - 1) : NodeAt[k] = s[k + 1]
         /\ Cardinality(Walked) = n /\ Cardinality(heap) = n
         /\ Reached = {s[i] : i \in 1..n}
<1>1. \A k \in 0..Cardinality(Node) : NodeAt[k] = IF k < n THEN s[k + 1] ELSE Null
  BY WalkIs
<1>2. Cardinality(Node) \in Nat /\ n <= Cardinality(Node) /\ Cardinality(heap) = n
  BY LengthBound DEF Chained
<1>3. \A k \in 0..(n - 1) : k \in 0..Cardinality(Node) /\ NodeAt[k] = s[k + 1] /\ NodeAt[k] # Null
  BY <1>1, <1>2, ListAssumption
<1>4. Walked = 0..(n - 1)
  BY <1>1, <1>2, <1>3 DEF Walked
<1>5. Cardinality(Walked) = n
  BY <1>4, FS_Interval
<1>6. Reached = {s[i] : i \in 1..n}
  <2>1. ASSUME NEW k \in Walked PROVE \E i \in 1..n : NodeAt[k] = s[i]
    <3>1. k + 1 \in 1..n /\ NodeAt[k] = s[k + 1]
      BY <1>3, <1>4
    <3> QED
      BY <3>1
  <2>2. ASSUME NEW i \in 1..n PROVE \E k \in Walked : s[i] = NodeAt[k]
    <3>1. i - 1 \in Walked /\ NodeAt[i - 1] = s[(i - 1) + 1] /\ (i - 1) + 1 = i
      BY <1>3, <1>4
    <3> QED
      BY <3>1
  <2> QED
    BY <2>1, <2>2 DEF Reached
<1> QED
  BY <1>2, <1>3, <1>4, <1>5, <1>6

-----------------------------------------------------------------------------
(* What the operations leave                                               *)

LEMMA InsertChained ==
  ASSUME ListTypeOK, NEW n \in Nat, NEW s \in [1..n -> Node], Chained(n, s),
         NEW d \in Data, list_insert(d)
  PROVE  \/ UNCHANGED <<head, count, nodeVars, heap>>
         \/ \E t \in [1..(n + 1) -> Node] :
              /\ Chained(n + 1, t)' /\ nodeData'[t[1]] = d
              /\ \A i \in 1..n : nodeData'[t[i + 1]] = nodeData[s[i]]
<1> SUFFICES ASSUME ~UNCHANGED <<head, count, nodeVars, heap>>
             PROVE  \E t \in [1..(n + 1) -> Node] :
                      /\ Chained(n + 1, t)' /\ nodeData'[t[1]] = d
                      /\ \A i \in 1..n : nodeData'[t[i + 1]] = nodeData[s[i]]
  OBVIOUS
<1>1. PICK m \in Node \ heap :
        /\ heap' = heap \cup {m}
        /\ nodeData' = [nodeData EXCEPT ![m] = d]
        /\ nextNode' = [nextNode EXCEPT ![m] = head]
        /\ prevNode' = IF head # Null THEN [prevNode EXCEPT ![m] = Null, ![head] = m]
                   ELSE [prevNode EXCEPT ![m] = Null]
        /\ head' = m
        /\ count' = count + 1
  BY DEF list_insert
<1>2. UNCHANGED alive
  BY DEF list_insert
<1> DEFINE t == [i \in 1..(n + 1) |-> IF i = 1 THEN m ELSE s[i - 1]]
<1>3. /\ heap = {s[i] : i \in 1..n} /\ \A i, j \in 1..n : s[i] = s[j] => i = j
      /\ head = IF n = 0 THEN Null ELSE s[1]
      /\ \A i \in 1..n : s[i] \in Node /\ s[i] # Null /\ s[i] # m
  BY <1>1, ListAssumption DEF Chained
<1>4. /\ t \in [1..(n + 1) -> Node] /\ t[1] = m
      /\ \A i \in 1..n : i + 1 \in 1..(n + 1) /\ t[i + 1] = s[i]
      /\ \A j \in 1..(n + 1) : j # 1 => j - 1 \in 1..n /\ t[j] = s[j - 1] /\ (j - 1) + 1 = j
  OBVIOUS
<1> HIDE DEF t
<1>5. \A i, j \in 1..(n + 1) : t[i] = t[j] => i = j
  <2> TAKE i, j \in 1..(n + 1)
  <2>1. CASE i = 1 \/ j = 1
    BY <1>3, <1>4, <2>1
  <2>2. CASE i # 1 /\ j # 1
    BY <1>3, <1>4, <2>2
  <2> QED
    BY <2>1, <2>2
<1>6. heap' = {t[i] : i \in 1..(n + 1)}
  <2>1. \A x : x \in heap' <=> x = m \/ \E i \in 1..n : x = s[i]
    BY <1>1, <1>3
  <2>2. \A x : (\E j \in 1..(n + 1) : x = t[j]) <=> x = m \/ \E i \in 1..n : x = s[i]
    BY <1>4
  <2> QED
    BY <2>1, <2>2
<1>7. /\ nextNode'[m] = head /\ \A i \in 1..n : nextNode'[s[i]] = nextNode[s[i]]
      /\ prevNode'[m] = Null /\ \A i \in 1..n : prevNode'[s[i]] = IF i = 1 THEN m ELSE prevNode[s[i]]
  <2>1. nextNode'[m] = head /\ \A i \in 1..n : nextNode'[s[i]] = nextNode[s[i]]
    BY <1>1, <1>3 DEF ListTypeOK
  <2>2. CASE n = 0
    BY <1>1, <1>3, <2>1, <2>2 DEF ListTypeOK
  <2>3. CASE n # 0
    <3>1. head = s[1] /\ head # Null /\ head # m /\ head \in Node /\ 1 \in 1..n
      BY <1>3, <2>3
    <3>2. \A x \in Node : prevNode'[x] = IF x = head THEN m ELSE IF x = m THEN Null ELSE prevNode[x]
      BY <1>1, <3>1 DEF ListTypeOK
    <3>3. prevNode'[m] = Null
      BY <3>1, <3>2
    <3>4. \A i \in 1..n : s[i] \in Node /\ s[i] # m /\ (s[i] = head <=> i = 1)
      BY <1>3, <3>1
    <3> QED
      BY <2>1, <3>2, <3>3, <3>4
  <2> QED
    BY <2>2, <2>3
<1>8. \A j \in 1..(n + 1) :
        /\ nextNode'[t[j]] = IF j = n + 1 THEN Null ELSE t[j + 1]
        /\ prevNode'[t[j]] = IF j = 1 THEN Null ELSE t[j - 1]
  <2> TAKE j \in 1..(n + 1)
  <2>1. CASE j = 1
    <3>1. nextNode'[t[j]] = head /\ prevNode'[t[j]] = Null
      BY <1>4, <1>7, <2>1
    <3>2. n # 0 => 1 \in 1..n /\ t[1 + 1] = s[1]
      BY <1>4
    <3> QED
      BY <1>3, <2>1, <3>1, <3>2
  <2>2. CASE j # 1
    <3>1. PICK i \in 1..n : j = i + 1 /\ j - 1 = i
      BY <1>4, <2>2
    <3>2. t[j] = s[i] /\ nextNode'[t[j]] = nextNode[s[i]] /\ prevNode'[t[j]] = IF i = 1 THEN m ELSE prevNode[s[i]]
      BY <1>4, <1>7, <3>1
    <3>3. nextNode[s[i]] = (IF i = n THEN Null ELSE s[i + 1]) /\ prevNode[s[i]] = IF i = 1 THEN Null ELSE s[i - 1]
      BY DEF Chained
    <3>4. i # n => i + 1 \in 1..n /\ t[j + 1] = s[i + 1]
      BY <1>4, <3>1
    <3>5. t[j - 1] = IF i = 1 THEN m ELSE s[i - 1]
      BY <1>4, <3>1
    <3> QED
      BY <2>2, <3>1, <3>2, <3>3, <3>4, <3>5
  <2> QED
    BY <2>1, <2>2
<1>9. alive' => count' = n + 1
  BY <1>1, <1>2 DEF Chained, ListTypeOK
<1>10. head' = IF n + 1 = 0 THEN Null ELSE t[1]
  BY <1>1, <1>4
<1>11. Chained(n + 1, t)'
  BY <1>5, <1>6, <1>8, <1>9, <1>10 DEF Chained
<1>12. nodeData'[t[1]] = d /\ \A i \in 1..n : nodeData'[t[i + 1]] = nodeData[s[i]]
  BY <1>1, <1>3, <1>4 DEF ListTypeOK
<1> QED
  BY <1>4, <1>11, <1>12

LEMMA RemoveChained ==
  ASSUME ListTypeOK, NEW n \in Nat, NEW s \in [1..n -> Node], Chained(n, s),
         NEW p \in 1..n, list_remove(s[p])
  PROVE  \E t \in [1..(n - 1) -> Node] :
           /\ Chained(n - 1, t)'
           /\ \A i \in 1..(n - 1) : t[i] = IF i < p THEN s[i] ELSE s[i + 1]
<1> DEFINE t == [i \in 1..(n - 1) |-> IF i < p THEN s[i] ELSE s[i + 1]]
           before == IF p = 1 THEN Null ELSE s[p - 1]
           after == IF p = n THEN Null ELSE s[p + 1]
<1>1. /\ heap = {s[i] : i \in 1..n} /\ \A i, j \in 1..n : s[i] = s[j] => i = j
      /\ head = (IF n = 0 THEN Null ELSE s[1]) /\ n - 1 \in Nat
      /\ \A i \in 1..n : s[i] \in Node /\ s[i] # Null
      /\ prevNode[s[p]] = before /\ nextNode[s[p]] = after
  BY ListAssumption DEF Chained
<1>2. /\ IF before # Null THEN nextNode' = [nextNode EXCEPT ![before] = after] /\ UNCHANGED head
         ELSE head' = after /\ UNCHANGED nextNode
      /\ prevNode' = IF after # Null THEN [prevNode EXCEPT ![after] = before] ELSE prevNode
      /\ heap' = heap \ {s[p]} /\ count' = count - 1 /\ UNCHANGED alive
  BY <1>1 DEF list_remove
<1>3. /\ t \in [1..(n - 1) -> Node]
      /\ \A i \in 1..(n - 1) : t[i] = IF i < p THEN s[i] ELSE s[i + 1]
  BY <1>1
<1>4. /\ before = IF p = 1 THEN Null ELSE s[p - 1]
      /\ after = IF p = n THEN Null ELSE s[p + 1]
  OBVIOUS
<1> HIDE DEF t, before, after
<1>5. \A i, j \in 1..(n - 1) : t[i] = t[j] => i = j
  <2> TAKE i, j \in 1..(n - 1)
  <2> DEFINE a == IF i < p THEN i ELSE i + 1
             b == IF j < p THEN j ELSE j + 1
  <2>1. a \in 1..n /\ b \in 1..n /\ (a = b => i = j)
    OBVIOUS
  <2>2. t[i] = s[a] /\ t[j] = s[b]
    BY <1>3
  <2> HIDE DEF a, b
  <2> QED
    BY <1>1, <2>1, <2>2
<1>6. heap' = {t[i] : i \in 1..(n - 1)}
  <2>1. ASSUME NEW x \in heap' PROVE \E i \in 1..(n - 1) : x = t[i]
    <3>1. PICK j \in 1..n : x = s[j] /\ j # p
      BY <1>1, <1>2, <2>1
    <3>2. CASE j < p
      <4>1. j \in 1..(n - 1) /\ t[j] = s[j]
        BY <1>3, <3>2
      <4> QED
        BY <3>1, <4>1
    <3>3. CASE ~(j < p)
      <4>1. j - 1 \in 1..(n - 1) /\ ~(j - 1 < p) /\ (j - 1) + 1 = j
        BY <3>1, <3>3
      <4>2. t[j - 1] = s[j]
        BY <1>3, <4>1
      <4> QED
        BY <3>1, <4>1, <4>2
    <3> QED
      BY <3>2, <3>3
  <2>2. ASSUME NEW i \in 1..(n - 1) PROVE t[i] \in heap'
    <3>1. CASE i < p
      BY <1>1, <1>2, <1>3, <3>1
    <3>2. CASE ~(i < p)
      <4>1. i + 1 \in 1..n /\ i + 1 # p /\ t[i] = s[i + 1]
        BY <1>3, <3>2
      <4> QED
        BY <1>1, <1>2, <4>1
    <3> QED
      BY <3>1, <3>2
  <2> QED
    BY <2>1, <2>2
<1>7. \A i \in 1..n : i # p =>
        /\ nextNode'[s[i]] = IF i = p - 1 THEN after ELSE IF i = n THEN Null ELSE s[i + 1]
        /\ prevNode'[s[i]] = IF i = p + 1 THEN before ELSE IF i = 1 THEN Null ELSE s[i - 1]
  <2> SUFFICES ASSUME NEW i \in 1..n, i # p
               PROVE  /\ nextNode'[s[i]] = IF i = p - 1 THEN after ELSE IF i = n THEN Null ELSE s[i + 1]
                      /\ prevNode'[s[i]] = IF i = p + 1 THEN before ELSE IF i = 1 THEN Null ELSE s[i - 1]
    OBVIOUS
  <2>1. /\ nextNode[s[i]] = IF i = n THEN Null ELSE s[i + 1]
        /\ prevNode[s[i]] = IF i = 1 THEN Null ELSE s[i - 1]
    BY DEF Chained
  <2>2. nextNode'[s[i]] = IF i = p - 1 THEN after ELSE nextNode[s[i]]
    <3>1. CASE p = 1
      BY <1>2, <1>4, <3>1
    <3>2. CASE p # 1
      <4>1. p - 1 \in 1..n /\ before = s[p - 1] /\ before \in Node /\ before # Null
        BY <1>1, <1>4, <3>2
      <4>2. nextNode' = [nextNode EXCEPT ![before] = after]
        BY <1>2, <4>1
      <4>3. s[i] = before <=> i = p - 1
        BY <1>1, <4>1
      <4>4. s[i] \in Node
        BY <1>1
      <4> QED
        BY <4>2, <4>3, <4>4, <4>1 DEF ListTypeOK
    <3> QED
      BY <3>1, <3>2
  <2>3. prevNode'[s[i]] = IF i = p + 1 THEN before ELSE prevNode[s[i]]
    <3>1. CASE p = n
      BY <1>2, <1>4, <3>1
    <3>2. CASE p # n
      <4>1. p + 1 \in 1..n /\ after = s[p + 1] /\ after \in Node /\ after # Null
        BY <1>1, <1>4, <3>2
      <4>2. prevNode' = [prevNode EXCEPT ![after] = before]
        BY <1>2, <4>1
      <4>3. s[i] = after <=> i = p + 1
        BY <1>1, <4>1
      <4>4. s[i] \in Node
        BY <1>1
      <4> QED
        BY <4>2, <4>3, <4>4, <4>1 DEF ListTypeOK
    <3> QED
      BY <3>1, <3>2
  <2> QED
    BY <2>1, <2>2, <2>3
<1>8. \A j \in 1..(n - 1) :
        /\ nextNode'[t[j]] = IF j = n - 1 THEN Null ELSE t[j + 1]
        /\ prevNode'[t[j]] = IF j = 1 THEN Null ELSE t[j - 1]
  <2> TAKE j \in 1..(n - 1)
  <2>1. /\ j + 1 \in 1..n /\ (j # n - 1 => j + 1 \in 1..(n - 1)) /\ (j # 1 => j - 1 \in 1..(n - 1))
        /\ (j + 1) - 1 = j /\ (j - 1) + 1 = j
    OBVIOUS
  <2>2. /\ t[j] = (IF j < p THEN s[j] ELSE s[j + 1])
        /\ j # n - 1 => t[j + 1] = IF j + 1 < p THEN s[j + 1] ELSE s[(j + 1) + 1]
        /\ j # 1 => t[j - 1] = IF j - 1 < p THEN s[j - 1] ELSE s[j]
    BY <1>3, <2>1
  <2>3. CASE j < p
    <3>1. /\ nextNode'[s[j]] = IF j = p - 1 THEN after ELSE s[j + 1]
          /\ prevNode'[s[j]] = IF j = 1 THEN Null ELSE s[j - 1]
      BY <1>7, <2>1, <2>3
    <3>2. j = p - 1 => j + 1 = p
      OBVIOUS
    <3> QED
      BY <1>4, <2>1, <2>2, <2>3, <3>1, <3>2
  <2>4. CASE ~(j < p)
    <3>1. /\ nextNode'[s[j + 1]] = IF j + 1 = n THEN Null ELSE s[(j + 1) + 1]
          /\ prevNode'[s[j + 1]] = IF j = p THEN before ELSE s[j]
      BY <1>7, <2>1, <2>4
    <3> QED
      BY <1>4, <2>1, <2>2, <2>4, <3>1
  <2> QED
    BY <2>3, <2>4
<1>9. head' = IF n - 1 = 0 THEN Null ELSE t[1]
  <2>1. CASE p = 1
    <3>1. head' = after
      BY <1>2, <1>4, <2>1
    <3>2. n # 1 => 1 \in 1..(n - 1) /\ t[1] = s[1 + 1]
      BY <1>3, <2>1
    <3> QED
      BY <1>4, <2>1, <3>1, <3>2
  <2>2. CASE p # 1
    <3>1. before \in Node /\ before # Null /\ p - 1 \in 1..n
      BY <1>1, <1>4, <2>2
    <3>2. head' = head /\ 1 \in 1..(n - 1) /\ t[1] = s[1]
      BY <1>2, <1>3, <2>2, <3>1
    <3> QED
      BY <1>1, <3>2
  <2> QED
    BY <2>1, <2>2
<1>10. alive' => count' = n - 1
  BY <1>2 DEF Chained, ListTypeOK
<1>11. Chained(n - 1, t)'
  BY <1>5, <1>6, <1>8, <1>9, <1>10 DEF Chained
<1> QED
  BY <1>3, <1>11

-----------------------------------------------------------------------------
(* The invariant                                                           *)

LEMMA StartLinked == ListInit => ListInv
<1> SUFFICES ASSUME ListInit PROVE ListInv
  OBVIOUS
<1>1. ListTypeOK
  BY DEF ListInit, ListTypeOK
<1> DEFINE s == [i \in 1..0 |-> Null]
<1>2. s \in [1..0 -> Node] /\ Chained(0, s)
  BY DEF ListInit, Chained
<1> QED
  BY <1>1, <1>2 DEF ListInv

\* The node list_find returns is one of the list.
LEMMA FoundIsListed ==
  ASSUME NEW n \in Nat, NEW s \in [1..n -> Node], Chained(n, s),
         NEW x, list_remove(x)
  PROVE  \E p \in 1..n : x = s[p]
<1>1. x \in Reached
  BY DEF list_remove
<1> QED
  BY <1>1, WalkedIs

LEMMA StepTyped ==
  ASSUME ListInv, [ListNext]_listVars
  PROVE  ListTypeOK'
<1>0. PICK n \in Nat : \E s \in [1..n -> Node] : Chained(n, s)
  BY DEF ListInv
<1>1. PICK s \in [1..n -> Node] : Chained(n, s)
  BY <1>0
<1>2. ListTypeOK
  BY DEF ListInv
<1>3. ASSUME NEW d \in Data, list_insert(d) PROVE ListTypeOK'
  <2>1. CASE UNCHANGED <<head, count, nodeVars, heap>>
    BY <1>2, <1>3, <2>1 DEF ListTypeOK, list_insert, nodeVars
  <2>2. CASE ~UNCHANGED <<head, count, nodeVars, heap>>
    <3>1. PICK m \in Node \ heap :
            /\ heap' = heap \cup {m}
            /\ nodeData' = [nodeData EXCEPT ![m] = d]
            /\ nextNode' = [nextNode EXCEPT ![m] = head]
            /\ prevNode' = IF head # Null THEN [prevNode EXCEPT ![m] = Null, ![head] = m]
                       ELSE [prevNode EXCEPT ![m] = Null]
            /\ head' = m
            /\ count' = count + 1
      BY <1>3, <2>2 DEF list_insert
    <3>2. UNCHANGED <<alive, posts>>
      BY <1>3 DEF list_insert
    <3>3. prevNode' \in [Node -> Node \cup {Null}]
      BY <1>2, <3>1 DEF ListTypeOK
    <3>4. /\ heap' \subseteq Node /\ nodeData' \in [Node -> Data] /\ nextNode' \in [Node -> Node \cup {Null}]
          /\ head' \in Node \cup {Null} /\ count' \in Nat
      BY <1>2, <3>1 DEF ListTypeOK
    <3> QED
      BY <1>2, <3>2, <3>3, <3>4 DEF ListTypeOK
  <2> QED
    BY <2>1, <2>2
<1>4. ASSUME NEW x, list_remove(x) PROVE ListTypeOK'
  <2>1. PICK p \in 1..n : x = s[p]
    BY <1>1, <1>4, FoundIsListed
  <2>2. x \in Node /\ prevNode[x] \in Node \cup {Null} /\ nextNode[x] \in Node \cup {Null}
    BY <1>2, <2>1 DEF ListTypeOK
  <2>3. count' \in Nat
    BY <1>1, <1>2, <1>4, <2>1 DEF Chained, list_remove
  <2>4. /\ head' \in Node \cup {Null} /\ nextNode' \in [Node -> Node \cup {Null}]
        /\ prevNode' \in [Node -> Node \cup {Null}]
    BY <1>2, <1>4, <2>2 DEF ListTypeOK, list_remove
  <2> QED
    BY <1>2, <1>4, <2>3, <2>4 DEF ListTypeOK, list_remove
<1>5. CASE list_foreach
  <2>1. \A d \in Data : Cardinality({k \in Walked : nodeData[NodeAt[k]] = d}) \in Nat
    <3> TAKE d \in Data
    <3>1. IsFiniteSet(Walked)
      <4>1. Walked = 0..(n - 1) /\ 0 \in Int /\ n - 1 \in Int
        BY <1>1, WalkedIs
      <4> QED
        BY <4>1, FS_Interval
    <3>2. IsFiniteSet({k \in Walked : nodeData[NodeAt[k]] = d})
      BY <3>1, FS_Subset
    <3> QED
      BY <3>2, FS_CardinalityType
  <2>2. posts' \in [Data -> Nat]
    BY <1>5, <2>1 DEF list_foreach
  <2> QED
    BY <1>2, <1>5, <2>2 DEF ListTypeOK, list_foreach, nodeVars
<1>6. CASE list_destroy
  BY <1>2, <1>6 DEF ListTypeOK, list_destroy, nodeVars
<1>7. CASE UNCHANGED listVars
  BY <1>2, <1>7 DEF ListTypeOK, listVars, nodeVars
<1> QED
  BY <1>3, <1>4, <1>5, <1>6, <1>7 DEF ListNext

LEMMA StepLinked ==
  ASSUME ListInv, [ListNext]_listVars
  PROVE  ListInv'
<1>0. PICK n \in Nat : \E s \in [1..n -> Node] : Chained(n, s)
  BY DEF ListInv
<1>1. PICK s \in [1..n -> Node] : Chained(n, s)
  BY <1>0
<1>2. ListTypeOK
  BY DEF ListInv
<1> SUFFICES \E m \in Nat : \E t \in [1..m -> Node] : Chained(m, t)'
  BY StepTyped DEF ListInv
<1>3. ASSUME UNCHANGED <<head, count, nodeVars, heap, alive>>
      PROVE  Chained(n, s)'
  BY <1>1, <1>3 DEF Chained, nodeVars
<1>4. ASSUME NEW d \in Data, list_insert(d)
      PROVE  \E m \in Nat : \E t \in [1..m -> Node] : Chained(m, t)'
  <2>1. CASE UNCHANGED <<head, count, nodeVars, heap>>
    <3>1. UNCHANGED alive
      BY <1>4 DEF list_insert
    <3> QED
      BY <1>3, <2>1, <3>1
  <2>2. CASE ~UNCHANGED <<head, count, nodeVars, heap>>
    <3>1. \E t \in [1..(n + 1) -> Node] : Chained(n + 1, t)'
      BY <1>1, <1>2, <1>4, <2>2, InsertChained
    <3>2. n + 1 \in Nat
      OBVIOUS
    <3> QED
      BY <3>1, <3>2
  <2> QED
    BY <2>1, <2>2
<1>5. ASSUME NEW x, list_remove(x)
      PROVE  \E m \in Nat : \E t \in [1..m -> Node] : Chained(m, t)'
  <2>1. PICK p \in 1..n : x = s[p]
    BY <1>1, <1>5, FoundIsListed
  <2>2. \E t \in [1..(n - 1) -> Node] : Chained(n - 1, t)'
    BY <1>1, <1>2, <1>5, <2>1, RemoveChained
  <2>3. n - 1 \in Nat
    OBVIOUS
  <2> QED
    BY <2>2, <2>3
<1>6. CASE list_foreach
  BY <1>3, <1>6 DEF list_foreach
<1>7. CASE list_destroy
  <2> DEFINE t == [i \in 1..0 |-> Null]
  <2>1. heap' = {}
    <3>1. Reached = heap
      BY <1>1, WalkedIs DEF Chained
    <3> QED
      BY <1>7, <3>1 DEF list_destroy
  <2>2. t \in [1..0 -> Node] /\ Chained(0, t)'
    BY <1>7, <2>1 DEF list_destroy, Chained
  <2> QED
    BY <2>2
<1>8. CASE UNCHANGED listVars
  BY <1>3, <1>8 DEF listVars
<1> QED
  BY <1>4, <1>5, <1>6, <1>7, <1>8 DEF ListNext

LEMMA ListInvariant == ListSpec => []ListInv
<1>1. ListInit => ListInv
  BY StartLinked
<1>2. ListInv /\ [ListNext]_listVars => ListInv'
  BY StepLinked
<1> QED
  BY <1>1, <1>2, PTL DEF ListSpec

\* Whatever is inserted and removed, and whenever malloc fails: the walk from
\* head reaches each allocated node once and nothing else, prev undoes next,
\* count is the length, and destroying the list frees all of it
\* (linked_list.c:69-136).
THEOREM ListStaysLinked == ListSpec => []WellLinked
<1>1. ListInv => WellLinked
  <2> SUFFICES ASSUME ListInv PROVE WellLinked
    OBVIOUS
  <2>0. PICK n \in Nat : \E s \in [1..n -> Node] : Chained(n, s)
    BY DEF ListInv
  <2>1. PICK s \in [1..n -> Node] : Chained(n, s)
    BY <2>0
  <2>2. /\ Reached = heap /\ Cardinality(Walked) = n /\ Cardinality(heap) = n
        /\ alive => count = n
    BY <2>1, WalkedIs DEF Chained
  <2>3. head # Null => prevNode[head] = Null
    <3> SUFFICES ASSUME head # Null PROVE prevNode[head] = Null
      OBVIOUS
    <3>1. 1 \in 1..n /\ head = s[1]
      BY <2>1 DEF Chained
    <3> QED
      BY <2>1, <3>1 DEF Chained
  <2>4. ASSUME NEW x \in heap, nextNode[x] # Null PROVE prevNode[nextNode[x]] = x
    <3>1. PICK i \in 1..n : x = s[i]
      BY <2>1 DEF Chained
    <3>2. i # n /\ nextNode[x] = s[i + 1]
      BY <2>1, <2>4, <3>1 DEF Chained
    <3>3. i + 1 \in 1..n /\ i + 1 # 1 /\ (i + 1) - 1 = i
      BY <3>2
    <3>4. prevNode[s[i + 1]] = s[(i + 1) - 1]
      BY <2>1, <3>3 DEF Chained
    <3> QED
      BY <3>1, <3>2, <3>3, <3>4
  <2> QED
    BY <2>2, <2>3, <2>4 DEF ListInv, WellLinked
<1> QED
  BY <1>1, ListInvariant, PTL

-----------------------------------------------------------------------------
(* The list as a sequence                                                  *)

ElemsAre(n, s) ==
  Elems \in Seq(Data) /\ Len(Elems) = n /\ \A k \in 1..n : Elems[k] = nodeData[s[k]]

ElemsFollow == \A n \in Nat : \A s \in [1..n -> Node] : Chained(n, s) => ElemsAre(n, s)

LEMMA ElemsRead == ListTypeOK => ElemsFollow
<1> SUFFICES ASSUME ListTypeOK, NEW n \in Nat, NEW s \in [1..n -> Node], Chained(n, s)
             PROVE  ElemsAre(n, s)
  BY DEF ElemsFollow
<1>1. Cardinality(Walked) = n /\ \A k \in 0..(n - 1) : NodeAt[k] = s[k + 1]
  BY WalkedIs
<1>2. \A k \in 1..n : k - 1 \in 0..(n - 1) /\ (k - 1) + 1 = k
  OBVIOUS
<1>3. Elems = [k \in 1..n |-> nodeData[s[k]]]
  BY <1>1, <1>2 DEF Elems
<1>4. Elems \in [1..n -> Data]
  BY <1>3 DEF ListTypeOK
<1>5. Elems \in Seq(Data)
  BY <1>4, SeqDef
<1>6. DOMAIN Elems = 1..n /\ DOMAIN Elems = 1..Len(Elems) /\ Len(Elems) \in Nat
  BY <1>4, <1>5, LenProperties
<1>7. Len(Elems) = n
  BY <1>6
<1> QED
  BY <1>3, <1>5, <1>7 DEF ElemsAre

LEMMA ElemsReadNext ==
  ASSUME ListTypeOK', NEW n \in Nat, NEW s \in [1..n -> Node], Chained(n, s)'
  PROVE  ElemsAre(n, s)'
<1>1. ElemsFollow'
  BY ElemsRead, PTL
<1> QED
  BY <1>1 DEF ElemsFollow

\* The same nodes, untouched.
LEMMA SameElems ==
  ASSUME UNCHANGED <<head, count, nodeVars, heap, alive>>
  PROVE  Elems' = Elems
<1>1. NodeAt' = NodeAt
  BY DEF NodeAt, nodeVars
<1> QED
  BY <1>1 DEF Elems, Walked, nodeVars

LEMMA InsertElems ==
  ASSUME ListInv, ListInv', NEW d \in Data, list_insert(d)
  PROVE  List!Insert(d)
<1>0. PICK n \in Nat : \E s \in [1..n -> Node] : Chained(n, s)
  BY DEF ListInv
<1>1. PICK s \in [1..n -> Node] : Chained(n, s)
  BY <1>0
<1>2. ListTypeOK /\ ListTypeOK' /\ UNCHANGED <<alive, posts>>
  BY DEF ListInv, list_insert
<1>3. CASE UNCHANGED <<head, count, nodeVars, heap>>
  BY <1>2, <1>3, SameElems DEF List!Insert
<1>4. CASE ~UNCHANGED <<head, count, nodeVars, heap>>
  <2>1. PICK t \in [1..(n + 1) -> Node] :
          /\ Chained(n + 1, t)' /\ nodeData'[t[1]] = d
          /\ \A i \in 1..n : nodeData'[t[i + 1]] = nodeData[s[i]]
    BY <1>1, <1>2, <1>4, InsertChained
  <2>2. /\ Elems \in Seq(Data) /\ Len(Elems) = n /\ \A k \in 1..n : Elems[k] = nodeData[s[k]]
        /\ Elems' \in Seq(Data) /\ Len(Elems') = n + 1
        /\ \A k \in 1..(n + 1) : Elems'[k] = nodeData'[t[k]]
    <3>1. n + 1 \in Nat /\ ElemsAre(n, s)
      BY <1>1, <1>2, ElemsRead DEF ElemsFollow
    <3>2. ElemsAre(n + 1, t)'
      BY <1>2, <2>1, <3>1, ElemsReadNext
    <3> QED
      BY <3>1, <3>2 DEF ElemsAre
  <2>3. <<d>> \in Seq(Data) /\ Len(<<d>>) = 1 /\ <<d>>[1] = d
    OBVIOUS
  <2> DEFINE longer == <<d>> \o Elems
  <2>4. /\ longer \in Seq(Data) /\ Len(longer) = n + 1
        /\ \A i \in 1..(n + 1) : longer[i] = IF i <= 1 THEN <<d>>[i] ELSE Elems[i - 1]
    BY <2>2, <2>3, ConcatProperties
  <2> HIDE DEF longer
  <2>5. ASSUME NEW i \in 1..(n + 1) PROVE Elems'[i] = longer[i]
    <3>1. CASE i = 1
      BY <2>1, <2>2, <2>3, <2>4, <3>1
    <3>2. CASE i # 1
      <4>1. i - 1 \in 1..n /\ (i - 1) + 1 = i /\ ~(i <= 1)
        BY <3>2
      <4>2. Elems'[i] = nodeData[s[i - 1]] /\ Elems[i - 1] = nodeData[s[i - 1]]
        BY <2>1, <2>2, <4>1
      <4> QED
        BY <2>4, <4>1, <4>2
    <3> QED
      BY <3>1, <3>2
  <2>6. Elems' = longer
    BY <2>2, <2>4, <2>5, SeqEqual
  <2> QED
    BY <1>2, <2>6 DEF List!Insert, longer
<1> QED
  BY <1>3, <1>4

LEMMA RemoveElems ==
  ASSUME ListInv, ListInv', NEW x, list_remove(x)
  PROVE  \E k \in DOMAIN Elems : List!RemoveNode(k)
<1>0. PICK n \in Nat : \E s \in [1..n -> Node] : Chained(n, s)
  BY DEF ListInv
<1>1. PICK s \in [1..n -> Node] : Chained(n, s)
  BY <1>0
<1>2. ListTypeOK /\ ListTypeOK' /\ UNCHANGED <<nodeData, alive, posts>>
  BY DEF ListInv, list_remove
<1>3. PICK p \in 1..n : x = s[p]
  BY <1>1, FoundIsListed
<1>4. PICK t \in [1..(n - 1) -> Node] :
        /\ Chained(n - 1, t)'
        /\ \A i \in 1..(n - 1) : t[i] = IF i < p THEN s[i] ELSE s[i + 1]
  BY <1>1, <1>2, <1>3, RemoveChained
<1>5. /\ Elems \in Seq(Data) /\ Len(Elems) = n /\ \A k \in 1..n : Elems[k] = nodeData[s[k]]
      /\ Elems' \in Seq(Data) /\ Len(Elems') = n - 1
      /\ \A k \in 1..(n - 1) : Elems'[k] = nodeData[t[k]]
  <2>1. n - 1 \in Nat /\ ElemsAre(n, s)
    BY <1>1, <1>2, ElemsRead DEF ElemsFollow
  <2>2. ElemsAre(n - 1, t)'
    BY <1>2, <1>4, <2>1, ElemsReadNext
  <2> QED
    BY <1>2, <2>1, <2>2 DEF ElemsAre
<1> DEFINE front == SubSeq(Elems, 1, p - 1)
           back == SubSeq(Elems, p + 1, n)
           rest == front \o back
<1>6. /\ front \in Seq(Data) /\ Len(front) = p - 1
      /\ \A i \in 1..(p - 1) : front[i] = Elems[i]
  <2>1. /\ 1 \in Int /\ p - 1 \in Int /\ \A i \in 1..(p - 1) : Elems[i] \in Data
    BY <1>5, ElementOfSeq
  <2>2. /\ front \in Seq(Data) /\ Len(front) = IF 1 <= p - 1 THEN (p - 1) - 1 + 1 ELSE 0
        /\ \A i \in 1..((p - 1) - 1 + 1) : front[i] = Elems[1 + i - 1]
    BY <2>1, SubSeqProperties
  <2> QED
    BY <2>2
<1>7. /\ back \in Seq(Data) /\ Len(back) = n - p
      /\ \A i \in 1..(n - p) : back[i] = Elems[p + i]
  <2>1. /\ p + 1 \in Int /\ n \in Int /\ \A i \in (p + 1)..n : Elems[i] \in Data
    BY <1>5, ElementOfSeq
  <2>2. /\ back \in Seq(Data) /\ Len(back) = IF p + 1 <= n THEN n - (p + 1) + 1 ELSE 0
        /\ \A i \in 1..(n - (p + 1) + 1) : back[i] = Elems[(p + 1) + i - 1]
    BY <2>1, SubSeqProperties
  <2>3. n - (p + 1) + 1 = n - p /\ \A i \in Int : (p + 1) + i - 1 = p + i
    OBVIOUS
  <2> HIDE DEF back
  <2>4. Len(back) = n - p
    BY <2>2, <2>3
  <2>5. ASSUME NEW i \in 1..(n - p) PROVE back[i] = Elems[p + i]
    <3>1. i \in 1..(n - (p + 1) + 1) /\ (p + 1) + i - 1 = p + i
      OBVIOUS
    <3> QED
      BY <2>2, <3>1
  <2> QED
    BY <2>2, <2>4, <2>5
<1> HIDE DEF front, back
<1>8. /\ rest \in Seq(Data) /\ Len(rest) = n - 1
      /\ \A i \in 1..(n - 1) : rest[i] = IF i <= p - 1 THEN front[i] ELSE back[i - (p - 1)]
  <2>1. /\ rest \in Seq(Data) /\ Len(rest) = Len(front) + Len(back)
        /\ \A i \in 1..(Len(front) + Len(back)) :
             rest[i] = IF i <= Len(front) THEN front[i] ELSE back[i - Len(front)]
    BY <1>6, <1>7, ConcatProperties
  <2>2. Len(front) + Len(back) = n - 1
    BY <1>6, <1>7
  <2> QED
    BY <1>6, <2>1, <2>2
<1> HIDE DEF rest
<1>9. ASSUME NEW i \in 1..(n - 1) PROVE Elems'[i] = rest[i]
  <2>1. CASE i < p
    <3>1. i \in 1..n /\ i \in 1..(p - 1) /\ i <= p - 1
      BY <2>1
    <3>2. Elems'[i] = nodeData[s[i]]
      BY <1>4, <1>5, <2>1
    <3>3. rest[i] = nodeData[s[i]]
      BY <1>5, <1>6, <1>8, <3>1
    <3> QED
      BY <3>2, <3>3
  <2>2. CASE ~(i < p)
    <3>1. /\ i + 1 \in 1..n /\ i - (p - 1) \in 1..(n - p) /\ p + (i - (p - 1)) = i + 1
          /\ ~(i <= p - 1)
      BY <2>2
    <3>2. rest[i] = Elems[i + 1]
      BY <1>7, <1>8, <3>1
    <3> QED
      BY <1>4, <1>5, <2>2, <3>1, <3>2
  <2> QED
    BY <2>1, <2>2
<1>10. Elems' = rest
  BY <1>5, <1>8, <1>9, SeqEqual
<1>11. p \in DOMAIN Elems
  BY <1>5, LenProperties
<1>12. Elems' = List!RemoveAt(Elems, p)
  BY <1>5, <1>10 DEF List!RemoveAt, rest, front, back
<1> QED
  BY <1>2, <1>11, <1>12 DEF List!RemoveNode

LEMMA SameCardinality == \A S : List!Cardinality(S) = Cardinality(S)
BY DEF List!Cardinality, Cardinality

LEMMA ForeachElems ==
  ASSUME ListInv, list_foreach
  PROVE  List!Foreach
<1>0. PICK n \in Nat : \E s \in [1..n -> Node] : Chained(n, s)
  BY DEF ListInv
<1>1. PICK s \in [1..n -> Node] : Chained(n, s)
  BY <1>0
<1>2. /\ Elems \in Seq(Data) /\ Len(Elems) = n /\ \A k \in 1..n : Elems[k] = nodeData[s[k]]
      /\ DOMAIN Elems = 1..n
  <2>1. ElemsAre(n, s)
    BY <1>1, ElemsRead DEF ListInv, ElemsFollow
  <2> QED
    BY <2>1, LenProperties DEF ElemsAre
<1>3. /\ Walked = 0..(n - 1) /\ \A k \in 0..(n - 1) : NodeAt[k] = s[k + 1]
  BY <1>1, WalkedIs
<1>4. alive /\ count = n /\ Elems' = Elems
  BY <1>1, SameElems DEF list_foreach, Chained
<1> DEFINE visits(d) == {k \in Walked : nodeData[NodeAt[k]] = d}
           holds(d) == {k \in DOMAIN Elems : Elems[k] = d}
<1>5. ASSUME NEW d \in Data PROVE Cardinality(visits(d)) = Cardinality(holds(d))
  <2> DEFINE V == visits(d)
             H == holds(d)
             up == [k \in V |-> k + 1]
  <2>1. \A k \in V : k \in 0..(n - 1) /\ nodeData[s[k + 1]] = d
    BY <1>3
  <2>2. \A j \in H : j \in 1..n /\ j - 1 \in V /\ (j - 1) + 1 = j
    BY <1>2, <1>3
  <2>3. \A k \in V : k + 1 \in H /\ k \in Int
    BY <1>2, <2>1
  <2>4. IsFiniteSet(V)
    <3>1. 0 \in Int /\ n - 1 \in Int /\ V \subseteq 0..(n - 1)
      BY <2>1
    <3> HIDE DEF V
    <3> QED
      BY <3>1, FS_Interval, FS_Subset
  <2> HIDE DEF V, H, visits, holds
  <2>5. up \in [V -> H] /\ \A k, j \in V : up[k] = up[j] => k = j
    BY <2>3
  <2>6. \A j \in H : \E k \in V : up[k] = j
    BY <2>2
  <2>7. up \in Bijection(V, H)
    <3> HIDE DEF up
    <3> QED
      BY <2>5, <2>6, Fun_IsInj, Fun_IsBij
  <2>8. Cardinality(H) = Cardinality(V)
    BY <2>4, <2>7, Fun_ExistsBij, FS_Bijection
  <2> QED
    BY <2>8 DEF V, H
<1>6. n = 0 => \A d \in Data : Cardinality(holds(d)) = 0
  <2> SUFFICES ASSUME n = 0, NEW d \in Data PROVE Cardinality(holds(d)) = 0
    OBVIOUS
  <2>1. holds(d) = {}
    BY <1>2
  <2> QED
    BY <2>1, FS_EmptySet
<1>7. posts' = IF count > 0 THEN [d \in Data |-> Cardinality(visits(d))] ELSE [d \in Data |-> 0]
  BY DEF list_foreach
<1> HIDE DEF visits, holds
<1>8. posts' = [d \in Data |-> Cardinality(holds(d))]
  BY <1>4, <1>5, <1>6, <1>7
<1> QED
  BY <1>4, <1>8, SameCardinality DEF List!Foreach, holds

LEMMA DestroyElems ==
  ASSUME ListInv', list_destroy
  PROVE  List!Empty
<1> DEFINE t == [i \in 1..0 |-> Null]
<1>1. ListTypeOK' /\ head' = Null /\ UNCHANGED posts
  BY DEF ListInv, list_destroy
<1>2. PICK n \in Nat : \E s \in [1..n -> Node] : Chained(n, s)'
  BY DEF ListInv
<1>3. PICK s \in [1..n -> Node] : Chained(n, s)'
  BY <1>2
<1>4. n = 0
  <2>1. head' = IF n = 0 THEN Null ELSE s[1]
    BY <1>3 DEF Chained
  <2>2. n # 0 => s[1] \in Node
    OBVIOUS
  <2> QED
    BY <1>1, <2>1, <2>2, ListAssumption
<1>5. Elems' \in Seq(Data) /\ Len(Elems') = 0
  BY <1>1, <1>3, <1>4, ElemsReadNext DEF ElemsAre
<1> QED
  BY <1>1, <1>5, EmptySeq DEF List!Empty

\* The pointers are what channel.c takes the list to be, a sequence: every insert,
\* removal and destruction does to the links what it should do to the sequence,
\* and list_foreach posts each element once (linked_list.c:69-136).
THEOREM ListIsASequence == ListSpec => ImplementsSemList
<1>1. ListInit => List!ListInit
  <2> SUFFICES ASSUME ListInit PROVE Elems = <<>> /\ posts = [d \in Data |-> 0]
    BY DEF List!ListInit
  <2>1. ListTypeOK
    BY DEF ListInit, ListTypeOK
  <2> DEFINE s == [i \in 1..0 |-> Null]
  <2>2. s \in [1..0 -> Node] /\ Chained(0, s)
    BY DEF ListInit, Chained
  <2>3. Elems \in Seq(Data) /\ Len(Elems) = 0
    BY <2>1, <2>2, ElemsRead DEF ElemsAre, ElemsFollow
  <2> QED
    BY <2>3, EmptySeq DEF ListInit
<1>2. ListInv /\ ListInv' /\ [ListNext]_listVars => [List!ListNext]_<<Elems, posts>>
  <2> SUFFICES ASSUME ListInv, ListInv', [ListNext]_listVars PROVE [List!ListNext]_<<Elems, posts>>
    OBVIOUS
  <2>1. ASSUME NEW d \in Data, list_insert(d) PROVE List!ListNext
    BY <2>1, InsertElems DEF List!ListNext
  <2>2. ASSUME NEW x, list_remove(x) PROVE List!ListNext
    BY <2>2, RemoveElems DEF List!ListNext
  <2>3. CASE list_foreach
    BY <2>3, ForeachElems DEF List!ListNext
  <2>4. CASE list_destroy
    BY <2>4, DestroyElems DEF List!ListNext
  <2>5. CASE UNCHANGED listVars
    BY <2>5, SameElems DEF listVars
  <2> QED
    BY <2>1, <2>2, <2>3, <2>4, <2>5 DEF ListNext
<1> QED
  BY <1>1, <1>2, ListInvariant, PTL DEF ListSpec, ImplementsSemList, List!ListSpec
==============================================================================
