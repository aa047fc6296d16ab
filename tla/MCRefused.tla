----------------------------- MODULE MCRefused ------------------------------
(***************************************************************************)
(* What channel.h says of WOULDBLOCK, on one channel of two slots: t1      *)
(* sends m2, receives, and asks once more without blocking, while t2       *)
(* sends m1.                                                               *)
(***************************************************************************)
EXTENDS MCChannels

TwoThreads == {t1, t2}
CapTwo == [c \in Chan |-> 2]
RefusedCalls == [t \in Thread |-> IF t = t1 THEN 4 ELSE 1]
RefusedMenu ==
  [t \in Thread |->
    IF t = t1 THEN {DoCreate(c1), DoSend(c1, m2, TRUE), DoRecv(c1, TRUE), DoRecv(c1, FALSE)}
    ELSE {DoSend(c1, m1, TRUE)}]

VARIABLE empty    \* empty[t]: the channel was empty at some instant of t's call

\* Nothing is in the channel but messages whose send has not returned.
OnlyUnsent ==
  \A m \in ToSet(buf[c1]) : \E u \in Thread :
    InCall(u) /\ call[u].op = "send" /\ call[u].list[1].data = m

RefusedInit == Init /\ empty = [t \in Thread |-> FALSE]
RefusedNext ==
  /\ Next
  /\ empty' = [t \in Thread |->
                IF InCall(t)' THEN OnlyUnsent' \/ (InCall(t) /\ empty[t]) ELSE empty[t]]
RefusedSpec == RefusedInit /\ [][RefusedNext]_<<vars, empty>>

\* "WOULDBLOCK if the channel is empty and nothing was stored in data"
\* (channel.h:84): a receive that returned WOULDBLOCK found the channel empty at
\* some instant of its call, messages still being sent left aside
\* (channel.c:188-206).
RefusedOnlyWhenEmpty ==
  \A t \in Thread :
    ~InCall(t) /\ call[t].op = "recv" /\ ret[t].status = "WOULDBLOCK" => empty[t]
=============================================================================
