------------------------------ MODULE MCKernel ------------------------------
(* The kernel's page tables and system calls, and its heap and console, each *)
(* for itself: "half" says which the behaviour is about.  For the tables,    *)
(* three entries each, a kernel of two directories in a memory of 18 pages,  *)
(* 13 of them for the tables; the pages in two orders.  Memory starts as     *)
(* zeros, as entries that map a page for the user, or as ones.  Strings lie  *)
(* across stack and program, in the kernel, across the end of memory, and    *)
(* across the page below the stack.  For the heap, two chunks of ten double  *)
(* words and requests of two and four; for the console, screens of two lines *)
(* of two glyphs with a pixel to spare each way, of two lines of one glyph,  *)
(* and of one line.                                                          *)
EXTENDS Kernel, KernelHeap

VARIABLE half

MCPlacement ==
  {[memory |-> 1, kernel |-> 0, ustack |-> 14, uprogram |-> 15],
   [memory |-> 5, kernel |-> 1, ustack |-> 4, uprogram |-> 2]}

MCGarbage ==
  {Absent, [p |-> 1, rw |-> 1, us |-> 1, other |-> 0, page_addr |-> 1],
   [p |-> 1, rw |-> 1, us |-> 1, other |-> 1, page_addr |-> 17]}

MCString ==
  {[first |-> Top - PAGE - 2, last |-> Top - PAGE + 5], [first |-> 8, last |-> PAGE + 8],
   [first |-> 18 * PAGE - 1, last |-> 18 * PAGE],
   [first |-> 79 * PAGE - 1, last |-> 79 * PAGE + 1]}

MCRequest == {1, 33}
MCTestSize == <<32, 17, 32>>
MCData == {"data"}
MCScreen == {[width |-> 5, height |-> 5], [width |-> 3, height |-> 6], [width |-> 4, height |-> 3]}
MCGlyph == {"a", "?"}
MCHello == <<"a", Newline, Newline>>
MCMessage ==
  [m \in {"too much", "0/40", "40/40", "buggy", "corrupted"} |-> <<"a", Newline>>]

PagingTurn == half = "paging" /\ PagingNext /\ UNCHANGED <<half, vars>>
HeapTurn == half = "heap" /\ Next /\ UNCHANGED <<half, pagingVars>>
Turn == PagingTurn \/ HeapTurn

\* The half that does not move is in one state.
Inits ==
  /\ half \in {"paging", "heap"}
  /\ PagingInit /\ Init
  /\ half = "paging" => screen.height = 3
  /\ half = "heap" => at.memory = 1 /\ mem[0] = Absent

HalvesSpec == Inits /\ [][Turn]_<<half, vars, pagingVars>>
=============================================================================
