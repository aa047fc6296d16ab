------------------------------- MODULE MCHeap -------------------------------
(* A heap of two chunks and requests of 32 and 48 bytes with the tags:     *)
(* blocks split, fit exactly, leave a remainder too small to split, merge  *)
(* on either side, and the heap runs out.                                  *)
EXTENDS Heap

MCData == {-1}
MCRequest == {8, 24}
=============================================================================
