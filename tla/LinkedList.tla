----------------------------- MODULE LinkedList -----------------------------
(***************************************************************************)
(* src/p3-concurrent-channels/linked_list.c: the doubly linked list of     *)
(* local semaphores.  channel.c uses it with the list's pthread mutex      *)
(* held, so an operation is one step.                                      *)
(***************************************************************************)
EXTENDS Naturals, Sequences, FiniteSets

CONSTANTS Data,    \* the semaphores (void* data)
          Node,    \* the addresses malloc can return: finitely many
          Null     \* none of them

ASSUME ListAssumption == IsFiniteSet(Node) /\ Null \notin Node

VARIABLES head, count,                    \* list_t
          nextNode, prevNode, nodeData,   \* next, prev and data of list_node_t, by address
          heap,                           \* the addresses of allocated nodes
          alive,                          \* list_create was called, list_destroy was not
          posts                           \* posts[d]: how often the last list_foreach posted d

nodeVars == <<nextNode, prevNode, nodeData>>
listVars == <<head, count, nodeVars, heap, alive, posts>>

ListInit ==
  /\ head = Null /\ count = 0
  /\ nextNode = [n \in Node |-> Null]
  /\ prevNode = [n \in Node |-> Null]
  /\ nodeData \in [Node -> Data]
  /\ heap = {}
  /\ alive = TRUE
  /\ posts = [d \in Data |-> 0]

\* The node k steps from the head, as list_find, list_foreach and list_destroy
\* walk; Null when the walk has ended before.
NodeAt[k \in 0..Cardinality(Node)] ==
  IF k = 0 THEN head
  ELSE IF NodeAt[k - 1] = Null THEN Null ELSE nextNode[NodeAt[k - 1]]

Walked == {k \in 0..Cardinality(Node) : NodeAt[k] # Null}
Reached == {NodeAt[k] : k \in Walked}

\* The first node with the given data, or Null.
list_find(d) ==
  IF \E k \in Walked : nodeData[NodeAt[k]] = d
  THEN NodeAt[CHOOSE k \in Walked : /\ nodeData[NodeAt[k]] = d
                                    /\ \A j \in 0..(k - 1) : nodeData[NodeAt[j]] # d]
  ELSE Null

\* Mutant: the old head's prev is left as it was.
InsertNoBack(d) ==
  /\ alive
  /\ \E n \in Node \ heap :
       /\ heap' = heap \cup {n}
       /\ nodeData' = [nodeData EXCEPT ![n] = d]
       /\ nextNode' = [nextNode EXCEPT ![n] = head]
       /\ prevNode' = [prevNode EXCEPT ![n] = Null]
       /\ head' = n
       /\ count' = count + 1
  /\ UNCHANGED <<alive, posts>>

\* malloc may fail, and then nothing tells the caller.
list_insert(d) ==
  /\ alive
  /\ \/ \E n \in Node \ heap :
          /\ heap' = heap \cup {n}
          /\ nodeData' = [nodeData EXCEPT ![n] = d]
          /\ nextNode' = [nextNode EXCEPT ![n] = head]
          /\ prevNode' = IF head # Null THEN [prevNode EXCEPT ![n] = Null, ![head] = n]
                     ELSE [prevNode EXCEPT ![n] = Null]
          /\ head' = n
          /\ count' = count + 1
     \/ UNCHANGED <<head, count, nodeVars, heap>>
  /\ UNCHANGED <<alive, posts>>

\* Mutant: the head is not moved when the first node goes.
RemoveKeepHead(n) ==
  /\ alive
  /\ n \in Reached
  /\ nextNode' = IF prevNode[n] # Null THEN [nextNode EXCEPT ![prevNode[n]] = nextNode[n]] ELSE nextNode
  /\ prevNode' = IF nextNode[n] # Null THEN [prevNode EXCEPT ![nextNode[n]] = prevNode[n]] ELSE prevNode
  /\ heap' = heap \ {n}
  /\ count' = count - 1
  /\ UNCHANGED <<head, nodeData, alive, posts>>

\* Called with a node that list_find returned.
list_remove(n) ==
  /\ alive
  /\ n \in Reached
  /\ IF prevNode[n] # Null
     THEN nextNode' = [nextNode EXCEPT ![prevNode[n]] = nextNode[n]] /\ UNCHANGED head
     ELSE head' = nextNode[n] /\ UNCHANGED nextNode
  /\ prevNode' = IF nextNode[n] # Null THEN [prevNode EXCEPT ![nextNode[n]] = prevNode[n]] ELSE prevNode
  /\ heap' = heap \ {n}
  /\ count' = count - 1
  /\ UNCHANGED <<nodeData, alive, posts>>

\* sem_post on the data of every node, head first; channel.c skips it when
\* list_count is 0.
list_foreach ==
  /\ alive
  /\ posts' = IF count > 0
              THEN [d \in Data |-> Cardinality({k \in Walked : nodeData[NodeAt[k]] = d})]
              ELSE [d \in Data |-> 0]
  /\ UNCHANGED <<head, count, nodeVars, heap, alive>>

\* Each node is freed after its next pointer was read.
list_destroy ==
  /\ alive
  /\ heap' = heap \ Reached
  /\ head' = Null
  /\ alive' = FALSE
  /\ UNCHANGED <<count, nodeVars, posts>>

ListNext ==
  \/ \E d \in Data : list_insert(d)
  \/ \E d \in Data : list_find(d) # Null /\ list_remove(list_find(d))
  \/ list_foreach
  \/ list_destroy

ListSpec == ListInit /\ [][ListNext]_listVars

-----------------------------------------------------------------------------
ListTypeOK ==
  /\ head \in Node \cup {Null} /\ count \in Nat
  /\ nextNode \in [Node -> Node \cup {Null}] /\ prevNode \in [Node -> Node \cup {Null}]
  /\ nodeData \in [Node -> Data]
  /\ heap \subseteq Node /\ alive \in BOOLEAN
  /\ posts \in [Data -> Nat]

\* The list is well linked: walking from head reaches every allocated node and
\* no freed one (no leak, no dangling pointer, no cycle), count is the length
\* of the walk, and prev undoes next (linked_list.c:86-127).  After
\* list_destroy nothing is left allocated.
WellLinked ==
  /\ ListTypeOK
  /\ Reached = heap
  /\ Cardinality(Walked) = Cardinality(heap)
  /\ alive => count = Cardinality(heap)
  /\ head # Null => prevNode[head] = Null
  /\ \A n \in heap : nextNode[n] # Null => prevNode[nextNode[n]] = n

Elems == [k \in 1..Cardinality(Walked) |-> nodeData[NodeAt[k - 1]]]

List == INSTANCE SemList WITH elems <- Elems

\* The pointers implement the sequence channel.c relies on: list_foreach posts
\* each registered semaphore once, after any history of inserts and removals.
ImplementsSemList == List!ListSpec
=============================================================================
