-------------------------- MODULE MCDataStructures --------------------------
(* The three data structures the programs are built on, each for itself:   *)
(* "which" says whose turn the behaviour is.  A ring buffer of three slots *)
(* and three values, none of them BUFFER_EMPTY; a list of two semaphores,  *)
(* either possibly registered twice, on three addresses; a splay tree of   *)
(* five keys: every shape splaying can reach, deep enough for each case of *)
(* rotation and for a removal whose successor is not a child.              *)
EXTENDS RingBuffer, LinkedList, SplayTree

CONSTANTS v1, v2, v3, semA, semB, n1, n2, n3

VARIABLES which

PlainValue == {v1, v2, v3}
Semaphore == {semA, semB}
ListNode == {n1, n2, n3}
TreeKey == 1..5
TreeRecord == {11, 12}

treeVars == <<tree, ret>>

Inits ==
  /\ which \in {"buffer", "list", "tree"}
  /\ Init /\ (which # "buffer" => data = [i \in Index |-> v1])
  /\ ListInit /\ (which # "list" => nodeData = [n \in ListNode |-> semA])
  /\ TreeInit

BufferTurn == which = "buffer" /\ Next /\ UNCHANGED <<which, listVars, treeVars>>
ListTurn == which = "list" /\ ListNext /\ UNCHANGED <<which, vars, treeVars>>
TreeTurn == which = "tree" /\ TreeNext /\ UNCHANGED <<which, vars, listVars>>
Turn == BufferTurn \/ ListTurn \/ TreeTurn

EachSpec == Inits /\ [][Turn]_<<which, vars, listVars, treeVars>>
=============================================================================
