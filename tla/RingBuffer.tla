----------------------------- MODULE RingBuffer -----------------------------
(***************************************************************************)
(* src/p3-concurrent-channels/buffer.c: the array behind a channel.        *)
(* channel.c calls it with the channel's mutex held, so an operation is    *)
(* one step.                                                               *)
(***************************************************************************)
EXTENDS Naturals, Sequences

CONSTANTS Value, Capacity, BufferEmpty

ASSUME CapacityAssumption == Capacity \in Nat \ {0}

VARIABLES size,   \* number of values held
          next,   \* index of the oldest
          data,   \* the array
          reply   \* what the last operation returned

vars == <<size, next, data, reply>>

Index == 0..(Capacity - 1)

\* buffer_create: the array comes from malloc, its contents are arbitrary.
Init ==
  /\ size = 0
  /\ next = 0
  /\ data \in [Index -> Value]
  /\ reply = TRUE

\* i reduced by at most one turn around the array.
Wrap(i) == IF i >= Capacity THEN i - Capacity ELSE i

\* Mutant: the last turn is off by one.
WrapLate(i) == IF i > Capacity THEN i - Capacity ELSE i

\* Mutant: a full buffer overwrites its oldest value.
AddOver(v) ==
  /\ data' = [data EXCEPT ![Wrap(next + size)] = v]
  /\ size' = size + 1
  /\ reply' = TRUE
  /\ UNCHANGED next

buffer_add(v) ==
  \/ /\ size >= Capacity
     /\ reply' = FALSE
     /\ UNCHANGED <<size, next, data>>
  \/ /\ size < Capacity
     /\ data' = [data EXCEPT ![Wrap(next + size)] = v]
     /\ size' = size + 1
     /\ reply' = TRUE
     /\ UNCHANGED next

\* Mutant: next is advanced but never wrapped.
RemoveNoWrap ==
  /\ size > 0
  /\ reply' = data[next]
  /\ size' = size - 1
  /\ next' = next + 1
  /\ UNCHANGED data

buffer_remove ==
  \/ /\ size > 0
     /\ reply' = data[next]
     /\ size' = size - 1
     /\ next' = Wrap(next + 1)
     /\ UNCHANGED data
  \/ /\ size = 0
     /\ reply' = BufferEmpty
     /\ UNCHANGED <<size, next, data>>

Next == buffer_remove \/ \E v \in Value : buffer_add(v)

Spec == Init /\ [][Next]_vars

-----------------------------------------------------------------------------
\* The indices stay inside the array: no operation reads or writes past it.
TypeOK ==
  /\ size \in 0..Capacity
  /\ next \in Index
  /\ data \in [Index -> Value]
  /\ reply \in BOOLEAN \cup Value \cup {BufferEmpty}

\* The array read from next round to next + size - 1.
Contents == [i \in 1..size |-> data[Wrap(next + i - 1)]]

Fifo == INSTANCE BoundedFifo WITH queue <- Contents

\* The array implements the queue (buffer.h:19-27): the wrap-around never
\* reorders, loses or repeats a value, at any size and position.
ImplementsFifo == Fifo!FifoSpec
=============================================================================
