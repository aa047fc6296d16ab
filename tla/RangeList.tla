----------------------------- MODULE RangeList ------------------------------
(***************************************************************************)
(* The walk along the driver's list of ranges: r = ranges->list, then      *)
(* r->next until it is null (src/p1-memory-management/mdriver.c).          *)
(***************************************************************************)

\* The ranges of S come to from "first" along "next": the smallest set that
\* holds the first range and the successor of each of its own.
Reached(S, first, next, null) ==
  {k \in S : \A W \in SUBSET S :
     /\ first # null => first \in W
     /\ \A j \in W : next[j] # null => next[j] \in W
     => k \in W}
=============================================================================
