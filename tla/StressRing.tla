----------------------------- MODULE StressRing -----------------------------
(***************************************************************************)
(* src/p3-concurrent-channels/stress_send_recv.c: a ring of worker threads *)
(* that pass messages on, and the main thread that feeds them, stops them  *)
(* and collects every message again.  Every call is a blocking send or     *)
(* receive and no channel is closed before the threads are joined, so a    *)
(* channel is the bounded queue that ChannelSpec says it is.               *)
(***************************************************************************)
EXTENDS Integers, Sequences, FiniteSets, SequencesExt

CONSTANTS Threads,      \* num_channel
          BufferSize,   \* buffer_size, of every channel
          NumMsgs,      \* num_msgs
          SleepEnough   \* TRUE: every worker has started when usleep returns

\* With num_msgs at its most, every slot and every thread holds a message and
\* nothing moves; the calls in test.c pass a load below 1.
ASSUME StressAssumption ==
  /\ Threads \in Nat \ {0} /\ BufferSize \in Nat \ {0}
  /\ NumMsgs \in Nat /\ NumMsgs < Threads * (BufferSize + 1)
  /\ SleepEnough \in BOOLEAN

Worker == 0..(Threads - 1)
Main == Threads           \* index of main_channel, and the main thread
NULL == 0
Msg == 1..NumMsgs

VARIABLES chan,       \* the queue of each channel
          wpc,        \* where each worker is: "recv", "check", "send", "exit"
          start,      \* each worker's start flag
          data,       \* the message each worker holds
          target,     \* the channel each worker sends to
          done,       \* the atomic flag
          mpc,        \* what main does next
          count,      \* main's loop counter
          msg_check   \* the messages main has collected

workerVars == <<wpc, start, data, target>>
mainVars == <<done, mpc, count, msg_check>>
vars == <<chan, workerVars, mainVars>>

Init ==
  /\ chan = [c \in Worker \cup {Main} |-> <<>>]
  /\ wpc = [w \in Worker |-> "recv"]
  /\ start = [w \in Worker |-> TRUE]
  /\ data = [w \in Worker |-> NULL]
  /\ target = [w \in Worker |-> Main]
  /\ done = FALSE
  /\ mpc = "insert"
  /\ count = 1
  /\ msg_check = {}

channel_send(c, x) ==
  /\ Len(chan[c]) < BufferSize
  /\ chan' = [chan EXCEPT ![c] = Append(@, x)]

channel_receive(c) ==
  /\ chan[c] # <<>>
  /\ chan' = [chan EXCEPT ![c] = Tail(@)]

-----------------------------------------------------------------------------
Next_index(w) == (w + 1) % Threads

\* NULL ends the start period; after it, NULL is the order to stop.
Recv(w) ==
  LET from == IF start[w] THEN Main ELSE w
  IN  /\ wpc[w] = "recv"
      /\ channel_receive(from)
      /\ data' = [data EXCEPT ![w] = Head(chan[from])]
      /\ IF data'[w] # NULL
         THEN wpc' = [wpc EXCEPT ![w] = "check"] /\ UNCHANGED start
         ELSE IF start[w]
         THEN start' = [start EXCEPT ![w] = FALSE] /\ UNCHANGED wpc
         ELSE wpc' = [wpc EXCEPT ![w] = "exit"] /\ UNCHANGED start
      /\ UNCHANGED <<target, mainVars>>

\* Mutant: the flag is not looked at.
CheckNever(w) ==
  /\ wpc[w] = "check"
  /\ target' = [target EXCEPT ![w] = Next_index(w)]
  /\ wpc' = [wpc EXCEPT ![w] = "send"]
  /\ UNCHANGED <<chan, start, data, mainVars>>

\* The flag is read here and acted on later, in Send.
Check(w) ==
  /\ wpc[w] = "check"
  /\ target' = [target EXCEPT ![w] = IF done THEN Main ELSE Next_index(w)]
  /\ wpc' = [wpc EXCEPT ![w] = "send"]
  /\ UNCHANGED <<chan, start, data, mainVars>>

\* Mutant: the message is sent on and also back to main.
SendBoth(w) ==
  /\ wpc[w] = "send"
  /\ channel_send(target[w], data[w])
  /\ IF target[w] # Main /\ done
     THEN target' = [target EXCEPT ![w] = Main] /\ UNCHANGED <<wpc, data>>
     ELSE /\ wpc' = [wpc EXCEPT ![w] = "recv"]
          /\ data' = [data EXCEPT ![w] = NULL]
          /\ UNCHANGED target
  /\ UNCHANGED <<start, mainVars>>

Send(w) ==
  /\ wpc[w] = "send"
  /\ channel_send(target[w], data[w])
  /\ wpc' = [wpc EXCEPT ![w] = "recv"]
  /\ data' = [data EXCEPT ![w] = NULL]
  /\ UNCHANGED <<start, target, mainVars>>

WorkerStep(w) == Recv(w) \/ Check(w) \/ Send(w)

-----------------------------------------------------------------------------
\* Main's loops: after n rounds the counter starts again and main goes on.
Count(n, from, next) ==
  IF count < n THEN count' = count + 1 /\ mpc' = from
               ELSE count' = 1 /\ mpc' = next

Insert ==
  /\ mpc = "insert"
  /\ IF NumMsgs = 0 THEN mpc' = "start" /\ UNCHANGED <<chan, count>>
     ELSE channel_send(Main, count) /\ Count(NumMsgs, "insert", "start")
  /\ UNCHANGED <<workerVars, done, msg_check>>

Start ==
  /\ mpc = "start"
  /\ channel_send(Main, NULL)
  /\ Count(Threads, "start", "sleep")
  /\ UNCHANGED <<workerVars, done, msg_check>>

\* usleep, then the flag is set.
SetDone ==
  /\ mpc = "sleep"
  /\ SleepEnough => \A w \in Worker : ~start[w]
  /\ done' = TRUE
  /\ mpc' = IF NumMsgs = 0 THEN "stop" ELSE "collect"
  /\ UNCHANGED <<chan, workerVars, count, msg_check>>

\* Mutant: main stops the threads one message early.
CollectOneLess ==
  /\ mpc = "collect"
  /\ channel_receive(Main)
  /\ msg_check' = msg_check \cup {Head(chan[Main])}
  /\ Count(NumMsgs - 1, "collect", "stop")
  /\ UNCHANGED <<workerVars, done>>

\* The two assertions end the program when they fail.
Collect ==
  /\ mpc = "collect"
  /\ channel_receive(Main)
  /\ LET x == Head(chan[Main])
     IN  IF x \in Msg \ msg_check
         THEN msg_check' = msg_check \cup {x} /\ Count(NumMsgs, "collect", "stop")
         ELSE mpc' = "assert" /\ UNCHANGED <<msg_check, count>>
  /\ UNCHANGED <<workerVars, done>>

Stop ==
  /\ mpc = "stop"
  /\ channel_send(count - 1, NULL)
  /\ Count(Threads, "stop", "join")
  /\ UNCHANGED <<workerVars, done, msg_check>>

Join ==
  /\ mpc = "join"
  /\ wpc[count - 1] = "exit"
  /\ Count(Threads, "join", "cleanup")
  /\ UNCHANGED <<chan, workerVars, done, msg_check>>

\* Nobody uses a channel any more: every channel is closed, destroyed and freed.
Cleanup ==
  /\ mpc = "cleanup"
  /\ chan' = [c \in DOMAIN chan |-> <<>>]
  /\ mpc' = "end"
  /\ UNCHANGED <<workerVars, done, count, msg_check>>

MainStep == Insert \/ Start \/ SetDone \/ Collect \/ Stop \/ Join \/ Cleanup

Next ==
  \/ \E w \in Worker : WorkerStep(w)
  \/ MainStep
  \/ mpc \in {"end", "assert"} /\ UNCHANGED vars    \* the program is over

Fairness == WF_vars(MainStep) /\ \A w \in Worker : WF_vars(WorkerStep(w))

Spec == Init /\ [][Next]_vars /\ Fairness

-----------------------------------------------------------------------------
TypeOK ==
  /\ \A c \in Worker \cup {Main} :
       Len(chan[c]) <= BufferSize /\ ToSet(chan[c]) \subseteq Msg \cup {NULL}
  /\ wpc \in [Worker -> {"recv", "check", "send", "exit"}]
  /\ start \in [Worker -> BOOLEAN]
  /\ data \in [Worker -> Msg \cup {NULL}]
  /\ target \in [Worker -> Worker \cup {Main}]
  /\ done \in BOOLEAN
  /\ mpc \in {"insert", "start", "sleep", "collect", "stop", "join", "cleanup",
              "end", "assert"}
  /\ count \in 1..(Threads + NumMsgs)
  /\ msg_check \subseteq Msg

\* Message m is in the channel c, at place i; in the hand of the thread that owns
\* c, for main among those collected; still to be sent.
Queued(m, c, i) == i \in DOMAIN chan[c] /\ chan[c][i] = m
Held(m, c) == IF c = Main THEN m \in msg_check ELSE data[c] = m
Unsent(m) == mpc = "insert" /\ m >= count

IsAt(m, c, i) ==
  Queued(m, c, i) \/ (i = 0 /\ Held(m, c)) \/ (i = -1 /\ c = Main /\ Unsent(m))

Places(m) == {p \in (0..Threads) \X (-1..BufferSize) : IsAt(m, p[1], p[2])}

\* Through forwarding, start-up and collection no message is lost and none is
\* duplicated, each is in exactly one place, and main never receives what its two
\* assertions exclude (stress_send_recv.c:27-52, 84-109).
EachMessageOnce == TypeOK /\ mpc # "assert" /\ \A m \in Msg : Cardinality(Places(m)) = 1

\* When main tears the channels down every worker has left its loop and nothing
\* is queued, neither a message nor an order nobody took
\* (stress_send_recv.c:111-133).
QuietAtCleanup ==
  mpc = "cleanup" =>
    /\ \A w \in Worker : wpc[w] = "exit"
    /\ \A c \in DOMAIN chan : chan[c] = <<>>

\* The program ends: fewer messages than places cannot jam the ring, although
\* a worker that still starts does not empty its own channel, and after the flag
\* is set every message comes back (stress_send_recv.c:26-120).
Terminates == <>(mpc = "end")
=============================================================================
