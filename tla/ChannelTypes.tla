---------------------------- MODULE ChannelTypes ----------------------------
(***************************************************************************)
(* What the channels of src/p3-concurrent-channels are called with         *)
(* (channel.h): the calls a thread may make and their parameters.  Both    *)
(* the channel code (Channels) and what it promises (ChannelSpec) use it.  *)
(***************************************************************************)
EXTENDS Naturals, FiniteSets, Sequences

CONSTANTS Thread,    \* threads of the program
          Chan,      \* channels the program may create
          Cap,       \* Cap[c]: the size given to channel_create for c
          Msg,       \* messages (void* values; NULL may be one of them)
          BufferEmpty, \* the pointer that buffer_remove returns for an empty buffer
          NoMsg,     \* a data parameter nothing was stored in
          NoChan,    \* the NULL channel pointer
          Menu,      \* Menu[t]: the calls thread t may make
          MaxCalls   \* MaxCalls[t]: bound on the calls thread t makes

Op == {"create", "send", "recv", "select", "close", "destroy"}

Status == {"SUCCESS", "WOULDBLOCK", "OTHER_ERROR", "CLOSED_ERROR",
           "DESTROY_ERROR", "NULL", "none"}

\* select_t: a channel, the side to work on, and what to send.
Entry == [channel : Chan \cup {NoChan}, is_send : BOOLEAN, data : Msg \cup {NoMsg}]

\* A direct call has one entry; a select carries the caller's array.
Call == [op : Op, blocking : BOOLEAN, list : Seq(Entry) \ {<<>>}]

\* What a call returned: enum chan_status, *selected_index, *data.
Outcome == [status : Status, index : Nat \ {0}, data : Msg \cup {NoMsg}]
NoOutcome == [status |-> "none", index |-> 1, data |-> NoMsg]

NullHandle == [channel |-> NoChan, is_send |-> FALSE, data |-> NoMsg]
NoCall == [op |-> "create", blocking |-> FALSE, list |-> <<NullHandle>>]

\* Only a select has more than one entry, a direct call's entry says which
\* side it works on, the sends and receives inside a select never block, a
\* select gets no NULL channel (it would dereference it), and what is sent is
\* a message.
WellFormed(r) ==
  /\ r \in Call
  /\ r.op # "select" => Len(r.list) = 1
  /\ r.op = "select" =>
       ~r.blocking /\ \A i \in DOMAIN r.list : r.list[i].channel \in Chan
  /\ r.op = "send" => r.list[1].is_send
  /\ r.op = "recv" => ~r.list[1].is_send
  /\ \A i \in DOMAIN r.list : r.list[i].is_send => r.list[i].data \in Msg

\* Call r names channel c.
Names(r, c) == \E i \in DOMAIN r.list : r.list[i].channel = c

ASSUME ThreadAssumption == IsFiniteSet(Thread)
ASSUME CapAssumption == Cap \in [Chan -> Nat]
ASSUME NullAssumption == NoChan \notin Chan
ASSUME MenuAssumption ==
  /\ DOMAIN Menu = Thread
  /\ \A t \in Thread : \A r \in Menu[t] : WellFormed(r)
ASSUME BoundAssumption == MaxCalls \in [Thread -> Nat]
=============================================================================
