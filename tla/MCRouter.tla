------------------------------ MODULE MCRouter ------------------------------
(* Two networks of four.  In the ring, router 1 learns a way to router 4   *)
(* and then a better one, and so may run two vectors ahead of a slow       *)
(* neighbor; in the other, router 2 links 1 and 3, and 4 has no link.      *)
EXTENDS Router

Ring == << <<0, 1, 1, 9>>, <<1, 0, 9, 5>>, <<1, 9, 0, 2>>, <<9, 5, 2, 0>> >>
Line == << <<0, 1, 9, 9>>, <<1, 0, 2, 9>>, <<9, 2, 0, 9>>, <<9, 9, 9, 0>> >>

MCTopologies == {Ring, Line}

\* A part of the behaviours of Spec: routers 3 and 4 act as soon as they can.
Ready(r) ==
  \/ rpc[r] = "update"
  \/ rpc[r] = "reply" /\ replies = <<>>
  \/ rpc[r] = "select" /\ (chan[r] # <<>> \/ stopped)
  \/ rpc[r] \in {"select", "send"} /\ \E n \in pending[r] : chan[n] = <<>>
Prompt == {r \in {3, 4} : Ready(r)}

Turn(r) == ~Over /\ (Prompt = {} \/ r \in Prompt) /\ RouterStep(r)
MainTurn == ~Over /\ Prompt = {} /\ MainStep

PromptNext == (\E r \in Node : Turn(r)) \/ MainTurn \/ (Over /\ UNCHANGED vars)

PromptSpec ==
  /\ Init /\ [][PromptNext]_vars
  /\ WF_vars(MainTurn) /\ \A r \in Node : WF_vars(Turn(r))
=============================================================================
