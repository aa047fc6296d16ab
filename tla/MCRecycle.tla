----------------------------- MODULE MCRecycle ------------------------------
(***************************************************************************)
(* One schedule of Router on five routers.  Router 1 answers the first     *)
(* poll, then learns four shorter paths, the last from a vector that waits *)
(* in its channel until everyone has answered that poll.  Its four vectors *)
(* have gone round once: its two answers are the same pointer, and the     *)
(* last of its vectors is still on its way to router 3.                    *)
(***************************************************************************)
EXTENDS Router

Ring == << <<0, 99, 1, 99, 1>>,
            <<99, 0, 12, 30, 3>>,
            <<1, 12, 0, 99, 99>>,
            <<99, 30, 99, 0, 99>>,
            <<1, 3, 99, 99, 0>> >>

MCTopologies == {Ring}

\* Whose turn it is: main (0), router r (r), or r to send to n (10 r + n).
Schedule == <<
  4, 42, 1, 13, 1, 15, 0, 1, 1, 5, 5, 3, 3, 3, 31, 1, 1, 2, 2, 5, 51, 2, 23,
  2, 25, 5, 5, 5, 52, 1, 1, 1, 15, 2, 2, 5, 5, 5, 52, 3, 3, 1, 13, 1, 15, 3,
  3, 1, 13, 3, 3, 2, 2, 3, 32, 2, 2, 3, 32, 2, 2, 2, 24, 2, 23, 4, 4, 2, 24,
  4, 4, 3, 3, 3, 31, 5, 5, 1, 1, 1, 13, 3, 3, 4, 42, 1, 15, 5, 5, 2, 2, 4,
  42, 2, 2, 2, 25, 5, 5, 5, 51, 0, 2, 0, 3, 0, 4, 0, 5, 0, 2, 0, 3, 0, 4, 0,
  5, 0, 1, 1, 1, 15, 5, 5, 1, 0, 0, 2, 0, 3, 0, 4, 0, 5, 2, 0, 3, 0, 4, 0, 5,
  0, 13, 1, 1, 0, 0 >>

VARIABLE turn

Turn(k) ==
  \/ k = 0 /\ MainStep
  \/ k \in Node /\ (Pass(k) \/ Receive(k) \/ Update(k) \/ Reply(k))
  \/ k > 10 /\ SendTo(k \div 10, k % 10)

SchedInit == Init /\ turn = 1
SchedNext == turn \in DOMAIN Schedule /\ Turn(Schedule[turn]) /\ turn' = turn + 1
=============================================================================
