------------------------------- MODULE Kernel -------------------------------
(***************************************************************************)
(* src/p2-page-tables: kernel_init of kernel_code.c builds four-level page *)
(* tables in a block of memory nobody has cleared, kernel_asm.S enters a   *)
(* user program through them and serves its system calls.  One processor,  *)
(* interrupts off.  The walk through the tables is the processor's; it is  *)
(* written independently of how they are built.                            *)
(*                                                                         *)
(* A physical address is the number of an 8-byte word, which is also the   *)
(* size of a table entry; a virtual address is a number of bytes.          *)
(***************************************************************************)
EXTENDS Integers, Sequences, FiniteSets, Functions

CONSTANTS E,          \* entries of a table (512)
          PDs,        \* page directories of the kernel (2048 = 4 * 512 entries)
          Placement,  \* where the loader may have put the pages: [memory,
                      \* ustack, uprogram, kernel], frame numbers
          Garbage,    \* what a word of memory may hold at first, as an entry
          Status,     \* kernel_status after load_page_table
          String      \* where a program may say a string is: its bytes, from
                      \* first to last, the NUL

Frame == 0..(PDs * E * E - 1)      \* physical pages (4 GB)
PAGE == 8 * E                      \* bytes of a page
Top == E * E * E * E * PAGE        \* bytes of a virtual address space (2^64)
Page == 0..(E * E * E * E - 1)     \* virtual pages
TablePages == PDs * E + PDs + 5    \* pages kernel_init writes to
NoFrame == -1

\* The loader gives disjoint pages and enough memory for the tables;
\* kernel_init does not look at memorySize.
ASSUME KernelAssumption ==
  /\ E \in Nat /\ E > 1 /\ PDs \in 1..E
  /\ \A s \in String : s.first \in 0..(Top - 1) /\ s.last \in s.first..(Top - 1)
  /\ \A place \in Placement :
       /\ {place.memory, place.memory + TablePages - 1, place.ustack, place.uprogram, place.kernel}
            \subseteq Frame
       /\ Cardinality({place.ustack, place.uprogram, place.kernel}) = 3
       /\ {place.ustack, place.uprogram, place.kernel}
            \cap (place.memory..(place.memory + TablePages - 1)) = {}

VARIABLES mem,        \* physical memory: the entry each word reads as
          at,         \* where the loader put the pages
          cr3,        \* the frame of the root table, NoFrame for the loader's
          page_table, user_program, user_stack,    \* globals of the kernel
          kstack,     \* the words on the kernel stack
          cpu,        \* [regs, rsp, rip, rax]
          phase,      \* what runs: "init", "load", "jump", "user", "entry",
                      \* "call", "return"; "fault": nothing any more
          asked       \* the processor, the number and the string at the last SYSCALL

pagingVars == <<mem, at, cr3, page_table, user_program, user_stack, kstack, cpu, phase, asked>>
globals == <<page_table, user_program, user_stack>>

-----------------------------------------------------------------------------
\* The processor.

Absent == [p |-> 0, rw |-> 0, us |-> 0, other |-> 0, page_addr |-> 0]

\* The index of virtual page v in the table of level l: root, pointers,
\* directory, pages.
Index(v, l) == (v \div <<E * E * E, E * E, E, 1>>[l + 1]) % E

\* The entries a walk from the root for virtual page v meets.
Walk(v) ==
  LET entry[l \in 0..3] ==
        LET table == IF l = 0 THEN cr3 ELSE entry[l - 1].page_addr
            word == table * E + Index(v, l)
        IN  IF (l > 0 /\ entry[l - 1].p = 0) \/ word \notin DOMAIN mem THEN Absent
            ELSE mem[word]
  IN  entry

\* NX, a reserved bit and what else kernel_init clears make a page unusable.
Mapped(walk) == \A l \in 0..3 : walk[l].p = 1 /\ walk[l].other = 0
Translate(v) == LET walk == Walk(v) IN IF Mapped(walk) THEN walk[3].page_addr ELSE NoFrame
UserMay(v) ==
  LET walk == Walk(v) IN Mapped(walk) /\ \A l \in 0..3 : walk[l].us = 1 /\ walk[l].rw = 1

Physical(a) == Translate(a \div PAGE) * E + ((a % PAGE) \div 8)

-----------------------------------------------------------------------------
\* kernel_init.  A table is a function from its indices to entries.

\* Mutant: the kernel's entries are open to the user.
KernelEntry_user(frame) ==
  [p |-> 1, rw |-> 1, us |-> 1, other |-> 0, page_addr |-> frame]

KernelEntry(frame) == [p |-> 1, rw |-> 1, us |-> 0, other |-> 0, page_addr |-> frame]

Write(m, base, table) ==
  [a \in DOMAIN m |-> IF a - base \in DOMAIN table THEN table[a - base] ELSE m[a]]

PTE == [i \in 0..(PDs * E * E - 1) |-> KernelEntry(i)]

\* Mutant: a directory entry steps by one entry instead of one table.
PDE_dense(p) == [i \in 0..(PDs * E - 1) |-> KernelEntry((p + i) \div E)]

PDE(p) == [i \in 0..(PDs * E - 1) |-> KernelEntry((p + E * i) \div E)]

PDPE(pd) ==
  [i \in 0..(E - 1) |-> IF i < PDs THEN KernelEntry((pd + E * i) \div E) ELSE Absent]

PML4E(pdp) ==
  [i \in 0..(E - 1) |-> IF i < 1 THEN KernelEntry((pdp + E * i) \div E) ELSE Absent]

Cleared == [i \in 0..(E - 1) |-> Absent]

MapUser(m, a, frame) ==
  [m EXCEPT ![a] = [p |-> 1, rw |-> 1, us |-> 1, other |-> @.other, page_addr |-> frame]]

\* The user's entries: the last of each table, and the last but one of p_user.
UserTables(m, pml, uprogram, ustack) ==
  LET pdp_user == pml + E
      pd_user == pdp_user + E
      p_user == pd_user + E
      m1 == Write(Write(Write(m, pdp_user, Cleared), pd_user, Cleared), p_user, Cleared)
      m2 == MapUser(m1, pml + E - 1, pdp_user \div E)
      m3 == MapUser(m2, pdp_user + E - 1, pd_user \div E)
      m4 == MapUser(m3, pd_user + E - 1, p_user \div E)
      m5 == MapUser(m4, p_user + E - 1, uprogram \div E)
  IN  MapUser(m5, p_user + E - 2, (ustack - E) \div E)

KernelTables(m, p, pd, pdp, pml) ==
  Write(Write(Write(Write(m, p, PTE), pd, PDE(p)), pdp, PDPE(pd)), pml, PML4E(pdp))

\* ustack is the end of the stack page.
kernel_init ==
  LET p == at.memory * E
      pd == p + PDs * E * E
      pdp == pd + PDs * E
      pml == pdp + E
  IN  /\ phase = "init"
      /\ mem' = UserTables(KernelTables(mem, p, pd, pdp, pml), pml,
                           at.uprogram * E, (at.ustack + 1) * E)
      /\ page_table' = pml \div E
      /\ user_stack' = Top - 1
      /\ user_program' = Top - PAGE
      /\ phase' = "load"
      /\ UNCHANGED <<at, cr3, kstack, cpu, asked>>

\* load_page_table, outside the sources: the table is the processor's.
load_page_table ==
  /\ phase = "load"
  /\ cr3' = page_table
  /\ phase' = "jump"
  /\ UNCHANGED <<mem, at, globals, kstack, cpu, asked>>

-----------------------------------------------------------------------------
\* kernel_asm.S.

Saved == <<"rcx", "r11", "rdi", "rsi", "rdx", "r8", "r9", "r10">>
Register == Range(Saved)

\* pushfq, pop %r11; %rcx = user_program; %rsp = user_stack; sysretq.
user_jump ==
  /\ phase = "jump"
  /\ cpu' = [cpu EXCEPT !.regs["r11"] = "flags", !.regs["rcx"] = "user_program",
                        !.rsp = user_stack, !.rip = "user_program"]
  /\ phase' = "user"
  /\ UNCHANGED <<mem, at, cr3, globals, kstack, asked>>

\* The stack is switched and the registers are pushed; number 1024 skips the call.
syscall_entry_asm ==
  /\ phase = "entry"
  /\ user_stack' = cpu.rsp
  /\ kstack' = [i \in DOMAIN Saved |-> cpu.regs[Saved[i]]]
  /\ phase' = IF asked.n = 1024 THEN "return" ELSE "call"
  /\ cpu' = [cpu EXCEPT !.rax = IF asked.n = 1024 THEN Status ELSE @]
  /\ UNCHANGED <<mem, at, cr3, page_table, user_program, asked>>

PagesOf(s) == (s.first \div PAGE)..(s.last \div PAGE)

\* syscall_entry: every register a C function may change has changed.  Number 1
\* prints the string at a1, wherever that is: the first byte of a page that is
\* not mapped stops the kernel.
syscall_entry ==
  /\ phase = "call"
  /\ cpu' = [cpu EXCEPT !.regs = [r \in Register |-> "kernel"],
                        !.rax = IF asked.n = 1 THEN 0 ELSE -1]
  /\ phase' = IF asked.n = 1 /\ \E v \in PagesOf(asked.string) : Translate(v) = NoFrame
              THEN "fault" ELSE "return"
  /\ UNCHANGED <<mem, at, cr3, globals, kstack, asked>>

\* Mutant: two registers are popped in the order they were pushed.
Restored_swapped == <<"r10", "r9", "r8", "rdx", "rdi", "rsi", "r11", "rcx">>

\* Register Restored[i] gets the i-th word from the top of the stack.
Restored == <<"r10", "r9", "r8", "rdx", "rsi", "rdi", "r11", "rcx">>

syscall_return ==
  /\ phase = "return"
  /\ \E regs \in {[r \in Register |->
                     kstack[Len(kstack) + 1 - (CHOOSE i \in DOMAIN Restored : Restored[i] = r)]]} :
       cpu' = [cpu EXCEPT !.regs = regs, !.rsp = user_stack, !.rip = regs["rcx"]]
  /\ kstack' = <<>>
  /\ phase' = "user"
  /\ UNCHANGED <<mem, at, cr3, globals, asked>>

-----------------------------------------------------------------------------
\* The user program: it stores to any page, pushes, and makes system calls.

UserWord == [p |-> 1, rw |-> 1, us |-> 1, other |-> 1, page_addr |-> at.kernel]

\* The words at bytes first..last are stored to, or the processor faults.
StoreBytes(first, last) ==
  IF \A a \in {first, last} : UserMay(a \div PAGE)
  THEN /\ mem' = [mem EXCEPT ![Physical(first)] = UserWord, ![Physical(last)] = UserWord]
       /\ UNCHANGED phase
  ELSE phase' = "fault" /\ UNCHANGED mem

Store(v) ==
  /\ phase = "user"
  /\ StoreBytes(v * PAGE, v * PAGE)
  /\ UNCHANGED <<at, cr3, globals, kstack, cpu, asked>>

Push ==
  /\ phase = "user"
  /\ StoreBytes(cpu.rsp - 8, cpu.rsp - 1)
  /\ cpu' = [cpu EXCEPT !.rsp = @ - 8]
  /\ UNCHANGED <<at, cr3, globals, kstack, asked>>

\* SYSCALL: %rcx and %r11 are overwritten by the processor, the rest is the
\* caller's.  The string is the one that begins at a1.
Syscall(n, string) ==
  /\ phase = "user"
  /\ cpu' = [cpu EXCEPT !.regs = [[r \in Register |-> r] EXCEPT
                                     !["rcx"] = "next", !["r11"] = "flags"],
                        !.rip = "syscall_entry_asm"]
  /\ asked' = [n |-> n, string |-> string, cpu |-> cpu']
  /\ phase' = "entry"
  /\ UNCHANGED <<mem, at, cr3, globals, kstack>>

PagingInit ==
  /\ at \in Placement
  /\ mem \in {[a \in 0..(PDs * E * E * E - 1) |-> g] : g \in Garbage}
  /\ cr3 = NoFrame
  /\ page_table = NoFrame /\ user_program = 0 /\ user_stack = 0    \* NULL
  /\ kstack = <<>>
  /\ cpu = [regs |-> [r \in Register |-> "loader"], rsp |-> 0, rip |-> "kernel_start", rax |-> 0]
  /\ phase = "init"
  /\ asked = [n |-> 0, string |-> [first |-> 0, last |-> 0], cpu |-> cpu]

PagingNext ==
  \/ kernel_init \/ load_page_table \/ user_jump
  \/ syscall_entry_asm \/ syscall_entry \/ syscall_return
  \/ \E v \in Page : Store(v)
  \/ Push
  \/ \E n \in {1, 2, 1024}, string \in String : Syscall(n, string)

PagingSpec == PagingInit /\ [][PagingNext]_pagingVars

-----------------------------------------------------------------------------
\* Under the new tables, whatever memory held before and whatever the user has
\* stored since, the kernel reaches every page of memory at its own address and
\* no user access does; the user reaches the last two pages of the address
\* space, which are the program and the stack it was given, and nothing else
\* (kernel_code.c:38-261).
AddressSpaces ==
  cr3 # NoFrame =>
    /\ \A f \in Frame : Translate(f) = f /\ ~UserMay(f)
    /\ {v \in Page : UserMay(v)} = {Cardinality(Page) - 1, Cardinality(Page) - 2}
    /\ Translate(Cardinality(Page) - 1) = at.uprogram
    /\ Translate(Cardinality(Page) - 2) = at.ustack

\* No step of the user program changes a word outside its two pages: neither
\* the tables nor the kernel (kernel_code.c:230-261).
UserStaysInside ==
  [][phase = "user" =>
       \A a \in DOMAIN mem : mem'[a] # mem[a] => a \div E \in {at.uprogram, at.ustack}]_pagingVars

\* A string lies in pages the new tables map: all of memory, the program and
\* the stack.
Printable(s) == PagesOf(s) \subseteq Frame \cup {Cardinality(Page) - 1, Cardinality(Page) - 2}

\* A system call comes back to where it was made, on the stack it was made on,
\* with every register but the result as it was (syscall.h:25, 33;
\* kernel_asm.S:13-51), unless the program asks for a string that runs into a
\* page the tables do not map, whatever it has stored before: a1 is not looked
\* at, and such a string stops the kernel (kernel_code.c:291-296).
SyscallTransparent ==
  [][/\ phase = "entry" => phase' # "fault"
     /\ phase = "call" => (phase' = "fault" <=> asked.n = 1 /\ ~Printable(asked.string))
     /\ phase = "return" =>
          /\ phase' = "user"
          /\ cpu' = [asked.cpu EXCEPT !.rip = "next", !.rax = cpu.rax]
          /\ kstack' = <<>>]_pagingVars
=============================================================================
