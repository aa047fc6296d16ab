---------------------------- MODULE BoundedFifo -----------------------------
(***************************************************************************)
(* What buffer.h promises: a first-in first-out queue of at most Capacity  *)
(* values.                                                                 *)
(***************************************************************************)
EXTENDS Naturals, Sequences

CONSTANTS Value,        \* void* values
          Capacity,     \* buffer_create's argument
          BufferEmpty   \* the BUFFER_EMPTY return value

VARIABLES queue,   \* the values held, oldest first
          reply    \* what the last operation returned

FifoInit == queue = <<>> /\ reply = TRUE

Add(v) ==
  \/ /\ Len(queue) < Capacity
     /\ queue' = Append(queue, v)
     /\ reply' = TRUE
  \/ /\ Len(queue) = Capacity
     /\ reply' = FALSE
     /\ UNCHANGED queue

Remove ==
  \/ /\ queue # <<>>
     /\ reply' = Head(queue)
     /\ queue' = Tail(queue)
  \/ /\ queue = <<>>
     /\ reply' = BufferEmpty
     /\ UNCHANGED queue

FifoNext == Remove \/ \E v \in Value : Add(v)

FifoSpec == FifoInit /\ [][FifoNext]_<<queue, reply>>
=============================================================================
