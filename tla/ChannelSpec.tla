---------------------------- MODULE ChannelSpec -----------------------------
(***************************************************************************)
(* What the channels promise (the comments of channel.h, as far as the     *)
(* code keeps them): each channel is a bounded first-in first-out queue,   *)
(* and a call takes effect at one instant between its invocation and its   *)
(* return.  A select takes effect on exactly one of its entries.           *)
(*                                                                         *)
(* A call is let in before it takes effect.  A send that is let in has a   *)
(* place of its own, a receive a message, not yet known which; a send owes *)
(* the message it has added until it hands it over, and a receive the      *)
(* place it has emptied.  A non-blocking call is refused only when every   *)
(* place (every message) there is belongs to somebody: places to messages, *)
(* to sends let in and to receives that owe one, and messages to receives  *)
(* let in and to sends that owe one.  That is less than channel.h says of  *)
(* WOULDBLOCK ("if the channel is empty"): MCRefused has the difference.   *)
(***************************************************************************)
EXTENDS ChannelTypes

VARIABLES
  life,     \* "none", "live" or "dead"
  closed,   \* closed[c]
  queue,    \* the messages in c, oldest first
  phase,    \* "idle", "pending", "granted", "owing", "refused" or "decided"
  call,     \* the call thread t is in, or was in last
  outcome,  \* what that call returned or is about to return; its index is the
            \* entry the call was let in on
  calls     \* calls made so far, bounded by MaxCalls

absVars == <<life, closed, queue, phase, call, outcome, calls>>
channels == <<life, closed, queue>>

Busy(u, c) == phase[u] # "idle" /\ Names(call[u], c)

AbsInit ==
  /\ life = [c \in Chan |-> "none"]
  /\ closed = [c \in Chan |-> FALSE]
  /\ queue = [c \in Chan |-> <<>>]
  /\ phase = [t \in Thread |-> "idle"]
  /\ call = [t \in Thread |-> NoCall]
  /\ outcome = [t \in Thread |-> NoOutcome]
  /\ calls = [t \in Thread |-> 0]

\* The caller's side of the contract: a channel exists while it is used, and
\* is created or destroyed by a thread that has it for itself.
AbsContract(r) ==
  \A i \in DOMAIN r.list :
    LET c == r.list[i].channel IN
    /\ c \in Chan
    /\ life[c] = (IF r.op = "create" THEN "none" ELSE "live")
    /\ \A u \in Thread : Busy(u, c) =>
         r.op \notin {"create", "destroy"} /\ call[u].op \notin {"create", "destroy"}

Begin(t) ==
  /\ phase[t] = "idle"
  /\ calls[t] < MaxCalls[t]
  /\ \E r \in Menu[t] : AbsContract(r) /\ call' = [call EXCEPT ![t] = r]
  /\ phase' = [phase EXCEPT ![t] = "pending"]
  /\ outcome' = [outcome EXCEPT ![t] = NoOutcome]
  /\ calls' = [calls EXCEPT ![t] = @ + 1]
  /\ UNCHANGED channels

BeginNull(t) ==
  /\ phase[t] = "idle"
  /\ calls[t] < MaxCalls[t]
  /\ \E r \in Menu[t] : r.list[1].channel = NoChan
  /\ outcome' = [outcome EXCEPT ![t] = [NoOutcome EXCEPT !.status = "OTHER_ERROR"]]
  /\ calls' = [calls EXCEPT ![t] = @ + 1]
  /\ UNCHANGED <<channels, phase, call>>

\* The call's outcome is settled; it returns now or later.
Decide(t, status, i, data) ==
  /\ outcome' = [outcome EXCEPT ![t] = [status |-> status, index |-> i, data |-> data]]
  /\ \E p \in {"decided", "idle"} : phase' = [phase EXCEPT ![t] = p]
  /\ UNCHANGED <<call, calls>>

\* The entry t was let in on.
Served(t) == call[t].list[outcome[t].index]

HoldsPlace(t) == phase[t] = (IF Served(t).is_send THEN "granted" ELSE "owing")
HoldsMessage(t) == phase[t] = (IF Served(t).is_send THEN "owing" ELSE "granted")

\* Every place of c is taken, and every message in it.
NoPlace(c) ==
  Len(queue[c]) + Cardinality({t \in Thread : HoldsPlace(t) /\ Served(t).channel = c}) = Cap[c]
NoMessage(c) ==
  Len(queue[c]) = Cardinality({t \in Thread : HoldsMessage(t) /\ Served(t).channel = c})

NothingFor(e) == IF e.is_send THEN NoPlace(e.channel) ELSE NoMessage(e.channel)

\* The call is let in on entry i; on a closed channel everybody is, to see it.
Grant(t, i) ==
  LET e == call[t].list[i] IN
  /\ phase[t] = "pending" /\ call[t].op \in {"send", "recv", "select"}
  /\ closed[e.channel] \/ ~NothingFor(e)
  /\ phase' = [phase EXCEPT ![t] = "granted"]
  /\ outcome' = [outcome EXCEPT ![t].index = i]
  /\ UNCHANGED <<channels, call, calls>>

\* The effect of a call that was let in.
Succeed(t, data) ==
  /\ outcome' = [outcome EXCEPT ![t] = [status |-> "SUCCESS", index |-> @.index, data |-> data]]
  /\ phase' = [phase EXCEPT ![t] = "owing"]
  /\ UNCHANGED <<call, calls>>

Put(t) ==
  LET e == Served(t) IN
  /\ phase[t] = "granted" /\ e.is_send
  /\ ~closed[e.channel]
  /\ Len(queue[e.channel]) < Cap[e.channel]
  /\ queue' = [queue EXCEPT ![e.channel] = Append(@, e.data)]
  /\ Succeed(t, NoMsg)
  /\ UNCHANGED <<life, closed>>

Take(t) ==
  LET e == Served(t) IN
  /\ phase[t] = "granted" /\ ~e.is_send
  /\ ~closed[e.channel]
  /\ queue[e.channel] # <<>>
  /\ queue' = [queue EXCEPT ![e.channel] = Tail(@)]
  /\ Succeed(t, Head(queue[e.channel]))
  /\ UNCHANGED <<life, closed>>

HandOver(t) ==
  /\ phase[t] = "owing"
  /\ phase' = [phase EXCEPT ![t] = "decided"]
  /\ UNCHANGED <<channels, call, outcome, calls>>

SeeClosed(t, i) ==
  /\ phase[t] \in {"pending", "granted", "refused"}
  /\ phase[t] = "granted" => i = outcome[t].index
  /\ call[t].op \in {"send", "recv", "select", "close"}
  /\ closed[call[t].list[i].channel]
  /\ Decide(t, "CLOSED_ERROR", i, NoMsg)
  /\ UNCHANGED channels

\* A non-blocking send or receive finds nothing to do...
Refuse(t) ==
  LET e == call[t].list[1] IN
  /\ phase[t] = "pending" /\ call[t].op \in {"send", "recv"} /\ ~call[t].blocking
  /\ closed[e.channel] \/ NothingFor(e)
  /\ phase' = [phase EXCEPT ![t] = "refused"]
  /\ UNCHANGED <<channels, call, outcome, calls>>

\* ... and says so if the channel is still open.
WouldBlock(t) ==
  /\ phase[t] = "refused"
  /\ ~closed[call[t].list[1].channel]
  /\ Decide(t, "WOULDBLOCK", 1, NoMsg)
  /\ UNCHANGED channels

CloseIt(t) ==
  LET c == call[t].list[1].channel IN
  /\ phase[t] = "pending" /\ call[t].op = "close"
  /\ ~closed[c]
  /\ closed' = [closed EXCEPT ![c] = TRUE]
  /\ Decide(t, "SUCCESS", 1, NoMsg)
  /\ UNCHANGED <<life, queue>>

CreateIt(t) ==
  LET c == call[t].list[1].channel IN
  /\ phase[t] = "pending" /\ call[t].op = "create"
  /\ \/ /\ Cap[c] > 0
        /\ life' = [life EXCEPT ![c] = "live"]
        /\ Decide(t, "SUCCESS", 1, NoMsg)
     \/ /\ Cap[c] = 0
        /\ UNCHANGED life
        /\ Decide(t, "NULL", 1, NoMsg)
  /\ UNCHANGED <<closed, queue>>

DestroyIt(t) ==
  LET c == call[t].list[1].channel IN
  /\ phase[t] = "pending" /\ call[t].op = "destroy"
  /\ \/ /\ closed[c]
        /\ life' = [life EXCEPT ![c] = "dead"]
        /\ Decide(t, "SUCCESS", 1, NoMsg)
     \/ /\ ~closed[c]
        /\ UNCHANGED life
        /\ Decide(t, "DESTROY_ERROR", 1, NoMsg)
  /\ UNCHANGED <<closed, queue>>

End(t) ==
  /\ phase[t] = "decided"
  /\ phase' = [phase EXCEPT ![t] = "idle"]
  /\ UNCHANGED <<channels, call, outcome, calls>>

AbsNext ==
  \E t \in Thread :
    \/ Begin(t) \/ BeginNull(t) \/ End(t)
    \/ Refuse(t) \/ WouldBlock(t)
    \/ \E i \in DOMAIN call[t].list : Grant(t, i) \/ SeeClosed(t, i)
    \/ Put(t) \/ Take(t) \/ HandOver(t)
    \/ CloseIt(t) \/ CreateIt(t) \/ DestroyIt(t)

AbsSpec == AbsInit /\ [][AbsNext]_absVars
=============================================================================
