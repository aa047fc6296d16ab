----------------------------- MODULE Allocator ------------------------------
(***************************************************************************)
(* What mm.h promises the program that calls it, and what mdriver.c checks *)
(* after each request: payloads are aligned, lie in the heap and do not    *)
(* overlap; what the caller stored in one stays there until the caller     *)
(* frees it; realloc keeps the smaller of the two lengths.                 *)
(***************************************************************************)
EXTENDS Integers, Sequences, Functions

CONSTANTS Align,    \* payload alignment, in bytes
          Word,     \* bytes per word of content
          Data,     \* what the caller stores
          Request   \* the sizes the caller asks for, in bytes

VARIABLES content,   \* the words stored in each live payload, by its address
          lo, hi     \* the extent of the heap: addresses lo..hi-1

Words(n) == (n + Word - 1) \div Word    \* the words that n bytes touch

AllocInit == content = <<>>

\* [p, p + n) may become a payload beside those of "others".
Fresh(p, n, others) ==
  /\ p % Align = 0
  /\ lo' <= p /\ p + n <= hi'
  /\ \A q \in DOMAIN others :
       p + n <= q \/ q + Word * Len(others[q]) <= p

Without(p) == Restrict(content, DOMAIN content \ {p})
With(others, p, ws) ==
  [q \in DOMAIN others \cup {p} |-> IF q = p THEN ws ELSE others[q]]

Same(old, new) ==
  \A i \in DOMAIN old \cap DOMAIN new : new[i] = old[i]

\* malloc of n bytes, which the caller then fills with d.
Obtain(n, d) ==
  \E p \in DOMAIN content' \ DOMAIN content :
    /\ Fresh(p, Words(n) * Word, content)
    /\ content' = With(content, p, [i \in 1..Words(n) |-> d])

Release(p) == content' = Without(p)

\* The payload may move; the caller fills what it gained with d.
Resize(p, n, d) ==
  \E q \in DOMAIN content' :
    /\ Fresh(q, Words(n) * Word, Without(p))
    /\ content' = With(Without(p), q, content'[q])
    /\ Len(content'[q]) = Words(n)
    /\ Same(content[p], content'[q])
    /\ \A i \in DOMAIN content'[q] \ DOMAIN content[p] : content'[q][i] = d

StartOver == content' = <<>>    \* mm_init on an emptied heap

AllocNext ==
  \/ \E n \in Request, d \in Data : Obtain(n, d)
  \/ \E p \in DOMAIN content : Release(p)
  \/ \E p \in DOMAIN content, n \in Request, d \in Data : Resize(p, n, d)
  \/ StartOver

AllocSpec == AllocInit /\ [][AllocNext]_content
=============================================================================
