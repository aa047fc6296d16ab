----------------------------- MODULE MCChannels -----------------------------
(* Small programs over the channels of Channels.tla for TLC.               *)
EXTENDS Channels

CONSTANTS t1, t2, t3, c1, c2, m1, m2, null

MCThread == {t1, t2, t3}
OneChan == {c1}
TwoChans == {c1, c2}
CapOne == [c \in Chan |-> 1]
CapMixed == [c \in Chan |-> IF c = c1 THEN 2 ELSE 0]

TwoEach == [t \in Thread |-> 2]
SelectCalls == [t \in Thread |-> CASE t = t1 -> 3 [] t = t2 -> 1 [] OTHER -> 2]
FewCalls == [t \in Thread |-> IF t = t2 THEN 1 ELSE 2]

E(c, send, m) == [channel |-> c, is_send |-> send, data |-> m]
S(c, m) == E(c, TRUE, m)
R(c) == E(c, FALSE, NoMsg)

DoCreate(c) == [op |-> "create", blocking |-> FALSE, list |-> <<R(c)>>]
DoClose(c) == [op |-> "close", blocking |-> FALSE, list |-> <<R(c)>>]
DoDestroy(c) == [op |-> "destroy", blocking |-> FALSE, list |-> <<R(c)>>]
DoSend(c, m, b) == [op |-> "send", blocking |-> b, list |-> <<S(c, m)>>]
DoRecv(c, b) == [op |-> "recv", blocking |-> b, list |-> <<R(c)>>]
DoSelect(l) == [op |-> "select", blocking |-> FALSE, list |-> l]

\* Every operation but select, on one channel; the creator also closes and
\* destroys it.
PlainMenu ==
  [t \in Thread |->
    {DoRecv(c1, b) : b \in BOOLEAN} \cup
    {DoSend(c1, IF t = t1 THEN m1 ELSE m2, b) : b \in BOOLEAN} \cup
    {DoClose(c1)} \cup
    (IF t = t1 THEN {DoCreate(c) : c \in Chan} \cup {DoDestroy(c1), DoClose(NoChan)} ELSE {})]

\* t1 creates two channels and then selects over them, once with an array
\* that names a channel twice; t2 and t3 send, receive and close, or t2 selects
\* too, maybe without memory to be registered.
SelectMenu ==
  [t \in Thread |->
    IF t = t1
    THEN {DoCreate(c) : c \in Chan} \cup
         {DoSelect(<<R(c1), S(c2, m1)>>), DoSelect(<<S(c1, m1), R(c1), S(c1, m1)>>)}
    ELSE {DoSend(c1, m2, TRUE)} \cup
         (IF t = t3 THEN {DoRecv(c1, FALSE), DoSend(c2, m2, FALSE), DoClose(c1), DoDestroy(c1)}
          ELSE {DoRecv(c2, TRUE), DoSelect(<<R(c1)>>)})]

\* One channel, for the liveness properties: every operation that may sleep,
\* two selects that can serve each other, and two closers.
LiveMenu ==
  [t \in Thread |->
    CASE t = t1 -> {DoCreate(c1), DoClose(c1), DoSelect(<<S(c1, m1)>>)}
      [] t = t2 -> {DoSend(c1, m2, TRUE), DoRecv(c1, TRUE), DoSelect(<<R(c1)>>)}
      [] OTHER -> {DoSend(c1, m2, b) : b \in BOOLEAN} \cup
                  {DoRecv(c1, b) : b \in BOOLEAN} \cup {DoClose(c1)}]
=============================================================================
