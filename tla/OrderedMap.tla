----------------------------- MODULE OrderedMap -----------------------------
(***************************************************************************)
(* What stree.h offers mdriver.c: a map from keys to records that can      *)
(* return the record of the nearest key at or below a given one.           *)
(***************************************************************************)
EXTENDS Naturals, Functions, FiniteSetsExt

CONSTANTS Key, Record, None

VARIABLES map,   \* the records, by key
          ret    \* the last call and its result

Result(op, k, value) == [op |-> op, key |-> k, value |-> value]

MapInit == map = <<>> /\ ret = Result("new", None, None)

At(k) == IF k \in DOMAIN map THEN map[k] ELSE None

Insert(k, r) ==
  /\ ret' = Result("insert", k, IF k \in DOMAIN map THEN 0 ELSE 1)
  /\ map' = IF k \in DOMAIN map THEN map
            ELSE [j \in DOMAIN map \cup {k} |-> IF j = k THEN r ELSE map[j]]

Find(k) == ret' = Result("find", k, At(k)) /\ UNCHANGED map

FindNearest(k) ==
  LET below == {j \in DOMAIN map : j <= k}
  IN  /\ ret' = Result("find_nearest", k,
                        IF below = {} THEN None ELSE map[Max(below)])
      /\ UNCHANGED map

Remove(k) ==
  /\ ret' = Result("remove", k, At(k))
  /\ map' = Restrict(map, DOMAIN map \ {k})

MapNext ==
  \E k \in Key :
    \/ \E r \in Record : Insert(k, r)
    \/ Find(k) \/ FindNearest(k) \/ Remove(k)

MapSpec == MapInit /\ [][MapNext]_<<map, ret>>
=============================================================================
