------------------------------ MODULE SemList -------------------------------
(***************************************************************************)
(* What channel.c takes a list of linked_list.h to be: a sequence of       *)
(* semaphores, newest first, where an insert may fail without a word.      *)
(***************************************************************************)
EXTENDS Naturals, Sequences, FiniteSets, SequencesExt

CONSTANT Data    \* the semaphores (void* data)

VARIABLES elems,   \* what the list holds
          posts    \* posts[d]: how often the last list_foreach posted d

ListInit == elems = <<>> /\ posts = [d \in Data |-> 0]

Insert(d) ==
  /\ elems' = <<d>> \o elems \/ UNCHANGED elems
  /\ UNCHANGED posts

RemoveNode(k) ==
  /\ elems' = RemoveAt(elems, k)
  /\ UNCHANGED posts

Foreach ==
  /\ posts' = [d \in Data |-> Cardinality({k \in DOMAIN elems : elems[k] = d})]
  /\ UNCHANGED elems

Empty == elems' = <<>> /\ UNCHANGED posts

ListNext ==
  \/ \E d \in Data : Insert(d)
  \/ \E k \in DOMAIN elems : RemoveNode(k)
  \/ Foreach
  \/ Empty

ListSpec == ListInit /\ [][ListNext]_<<elems, posts>>
=============================================================================
