------------------------------- MODULE Router -------------------------------
(***************************************************************************)
(* src/p3-concurrent-channels/stress.c: routers that compute shortest      *)
(* paths by sending each other pointers to their distance vectors, and the *)
(* main thread that polls until it believes they have converged.  A router *)
(* keeps four vectors and recycles them without knowing who still reads    *)
(* one.  Channels are the bounded queues of ChannelSpec, of one slot:      *)
(* run_stress asserts at most one and channel_create refuses none.         *)
(***************************************************************************)
EXTENDS Integers, Sequences, FiniteSets, FiniteSetsExt

CONSTANTS Nodes,        \* num_channel
          Topologies,   \* the files create_topology may read
          Inf,          \* inf_distance
          Polls         \* failed polls while the routers still exchange vectors

Node == 1..Nodes

\* A link is there in both directions, or the assertion on neighbor_dist fails.
ASSUME RouterAssumption ==
  /\ Nodes \in Nat \ {0} /\ Inf \in Nat /\ Polls \in Nat
  /\ \A t \in Topologies :
       /\ t \in [Node -> [Node -> 0..Inf]]
       /\ \A m, n \in Node : t[m][m] = 0 /\ (t[m][n] = Inf <=> t[n][m] = Inf)

VARIABLES topology,
          chan,        \* channels[n]: pointers <<src, slot>>, or NULL
          vector,      \* each router's vectors: [epoch, dist] by slot
          curr,        \* the slot of curr_state
          pending,     \* the send entries left in select_list
          changed,
          rpc,         \* "select", "send", "update", "reply", "exit", "assert"
          reading,     \* neighbor_state
          replies,     \* completed_channel
          stopped,     \* done_channel is closed
          mpc, count,  \* main's step and loop counter
          valid, completed,
          polls        \* failed polls so far

routerVars == <<vector, curr, pending, changed, rpc, reading>>
mainVars == <<stopped, mpc, count, valid, completed, polls>>
vars == <<topology, chan, routerVars, replies, mainVars>>

NULL == <<>>
Neighbors(r) == {n \in Node \ {r} : topology[r][n] # Inf}

\* Mutant: triple buffering, without prev_prev.
ThreeBuffers == 3

\* prev_prev, prev, curr and next: the slot of a vector is its epoch modulo
\* their number.
Buffers == 4

NextSlot(r) == (curr[r] + 1) % Buffers

\* floyd_warshall.  A round leaves the row and the column of its intermediate
\* node as they were (distances are not negative), so updating in place is
\* updating at once.
Solution(t) ==
  LET best[k \in 0..Nodes] ==
        IF k = 0 THEN t
        ELSE LET d == best[k - 1]
             IN  [s \in Node |-> [e \in Node |->
                    IF d[s][k] + d[k][e] < d[s][e] THEN d[s][k] + d[k][e] ELSE d[s][e]]]
  IN  best[Nodes]

Init ==
  /\ topology \in Topologies
  /\ chan = [n \in Node |-> <<>>]
  /\ vector = [r \in Node |-> [s \in 0..3 |-> [epoch |-> s, dist |-> topology[r]]]]
  /\ curr = [r \in Node |-> 2]
  /\ pending = [r \in Node |-> Neighbors(r)]
  /\ changed = [r \in Node |-> FALSE]
  /\ rpc = [r \in Node |-> "select"]
  /\ reading = [r \in Node |-> NULL]
  /\ replies = <<>>
  /\ stopped = FALSE
  /\ mpc = "ask" /\ count = 1
  /\ valid = TRUE
  /\ completed = [r \in Node |-> NULL]
  /\ polls = 0

-----------------------------------------------------------------------------
\* The end of a round of the loop: when everyone has been sent curr and next
\* is better, next is broadcast and the oldest vector is next's successor.
Round(r, left, better, next) ==
  IF left = {} /\ better
  THEN LET slot == NextSlot(r)
           fresh == (slot + 1) % Buffers
       IN  /\ curr' = [curr EXCEPT ![r] = slot]
           /\ vector' = [vector EXCEPT ![r][slot] = next,
                                       ![r][fresh] = [next EXCEPT !.epoch = @ + 1]]
           /\ pending' = [pending EXCEPT ![r] = Neighbors(r)]
           /\ changed' = [changed EXCEPT ![r] = FALSE]
  ELSE /\ vector' = [vector EXCEPT ![r][NextSlot(r)] = next]
       /\ pending' = [pending EXCEPT ![r] = left]
       /\ changed' = [changed EXCEPT ![r] = better]
       /\ UNCHANGED curr

\* channel_select has found done_channel open and the router's own channel
\* empty, and goes on to the send entries.
Pass(r) ==
  /\ rpc[r] = "select"
  /\ ~stopped /\ chan[r] = <<>> /\ pending[r] # {}
  /\ rpc' = [rpc EXCEPT ![r] = "send"]
  /\ UNCHANGED <<topology, chan, vector, curr, pending, changed, reading, replies, mainVars>>

\* No send entry is ready either: channel_select waits and starts again.
Nothing(r) ==
  /\ rpc[r] = "send"
  /\ \A n \in pending[r] : chan[n] # <<>>
  /\ rpc' = [rpc EXCEPT ![r] = "select"]
  /\ UNCHANGED <<topology, chan, vector, curr, pending, changed, reading, replies, mainVars>>

\* channel_select sends curr to a neighbor.
SendTo(r, n) ==
  /\ rpc[r] = "send"
  /\ n \in pending[r]
  /\ chan[n] = <<>>
  /\ chan' = [chan EXCEPT ![n] = <<(<<r, curr[r]>>)>>]
  /\ Round(r, pending[r] \ {n}, changed[r], vector[r][NextSlot(r)])
  /\ rpc' = [rpc EXCEPT ![r] = "select"]
  /\ UNCHANGED <<topology, reading, replies, mainVars>>

\* channel_select receives from the router's own channel.
Receive(r) ==
  /\ rpc[r] = "select"
  /\ chan[r] # <<>>
  /\ chan' = [chan EXCEPT ![r] = <<>>]
  /\ reading' = [reading EXCEPT ![r] = Head(chan[r])]
  /\ rpc' = [rpc EXCEPT ![r] = IF Head(chan[r]) = NULL THEN "reply" ELSE "update"]
  /\ UNCHANGED <<topology, vector, curr, pending, changed, replies, mainVars>>

\* The neighbor's vector is read through the pointer, as it is by now.
Update(r) ==
  LET src == reading[r][1]
      theirs == vector[src][reading[r][2]].dist
      mine == vector[r][NextSlot(r)]
      Via(i) == topology[r][src] + theirs[i]
      better == {i \in Node : Via(i) < mine.dist[i]}
  IN  /\ rpc[r] = "update"
      /\ Round(r, pending[r], changed[r] \/ better # {},
               [mine EXCEPT !.dist = [i \in Node |-> IF i \in better THEN Via(i) ELSE @[i]]])
      /\ rpc' = [rpc EXCEPT ![r] = "select"]
      /\ reading' = [reading EXCEPT ![r] = NULL]
      /\ UNCHANGED <<topology, chan, replies, mainVars>>

\* Mutant: the answer is always yes.
ConvergedAlways(r) == TRUE

\* Mutant: one entry is still to be sent.
ConvergedEarly(r) == Cardinality(pending[r]) = 1 /\ ~changed[r]

Converged(r) == pending[r] = {} /\ ~changed[r]

Reply(r) ==
  /\ rpc[r] = "reply"
  /\ replies = <<>>
  /\ replies' = <<IF Converged(r) THEN <<r, curr[r]>> ELSE NULL>>
  /\ Round(r, pending[r], changed[r], vector[r][NextSlot(r)])
  /\ rpc' = [rpc EXCEPT ![r] = "select"]
  /\ UNCHANGED <<topology, chan, reading, mainVars>>

\* channel_select reports that done_channel is closed.
Exit(r) ==
  /\ rpc[r] = "select"
  /\ stopped
  /\ rpc' = [rpc EXCEPT ![r] = IF changed[r] THEN "assert" ELSE "exit"]
  /\ UNCHANGED <<topology, chan, vector, curr, pending, changed, reading, replies, mainVars>>

RouterStep(r) ==
  \/ Pass(r) \/ Nothing(r) \/ \E n \in Node : SendTo(r, n)
  \/ Receive(r) \/ Update(r) \/ Reply(r) \/ Exit(r)

-----------------------------------------------------------------------------
\* check_done: a NULL to every router, an answer from every router; if all are
\* pointers, the same again.
Asking == mpc \in {"ask", "ask again"}
Hearing == mpc \in {"hear", "hear again"}

Ask ==
  /\ Asking
  /\ chan[count] = <<>>
  /\ chan' = [chan EXCEPT ![count] = <<NULL>>]
  /\ IF count < Nodes
     THEN count' = count + 1 /\ UNCHANGED mpc
     ELSE count' = 1 /\ mpc' = IF mpc = "ask" THEN "hear" ELSE "hear again"
  /\ UNCHANGED <<topology, routerVars, replies, stopped, valid, completed, polls>>

\* The first answers are kept as pointers.
Note(answer) ==
  /\ valid' = (valid /\ answer # NULL)
  /\ completed' = IF answer = NULL THEN completed
                  ELSE [completed EXCEPT ![answer[1]] = answer]

\* Mutant: the epochs are not compared.
CompareNothing(answer) == valid' = (valid /\ answer # NULL) /\ UNCHANGED completed

\* The epochs are compared through the pointers.
Compare(answer) ==
  LET Epoch(p) == vector[p[1]][p[2]].epoch
  IN  /\ valid' = (valid /\ answer # NULL /\ Epoch(completed[answer[1]]) = Epoch(answer))
      /\ UNCHANGED completed

\* Mutant: one round of answers is enough.
AfterFirstOnly == IF valid' THEN "check" ELSE "sleep"

AfterFirst == IF valid' THEN "ask again" ELSE "sleep"

Hear ==
  /\ Hearing
  /\ replies # <<>>
  /\ replies' = <<>>
  /\ IF mpc = "hear" THEN Note(Head(replies)) ELSE Compare(Head(replies))
  /\ IF count < Nodes
     THEN count' = count + 1 /\ UNCHANGED mpc
     ELSE /\ count' = 1
          /\ mpc' = IF mpc = "hear" THEN AfterFirst
                    ELSE IF valid' THEN "check" ELSE "sleep"
  /\ UNCHANGED <<topology, chan, routerVars, stopped, polls>>

\* The results are compared with floyd_warshall's; then done_channel is closed.
Check ==
  /\ mpc = "check"
  /\ IF \A r \in Node : vector[r][completed[r][2]].dist = Solution(topology)[r]
     THEN mpc' = "join" /\ stopped' = TRUE
     ELSE mpc' = "assert" /\ UNCHANGED stopped
  /\ UNCHANGED <<topology, chan, routerVars, replies, count, valid, completed, polls>>

\* Nothing is left to send, to read or to broadcast.
Quiet ==
  \A r \in Node :
    chan[r] = <<>> /\ rpc[r] \in {"select", "exit"} /\ pending[r] = {} /\ ~changed[r]

\* usleep(1000), then check_done again.  Polls bounds how often a poll comes
\* before the routers have finished.
Sleep ==
  /\ mpc = "sleep"
  /\ polls < Polls \/ Quiet
  /\ polls' = IF polls < Polls THEN polls + 1 ELSE polls
  /\ mpc' = "ask"
  /\ valid' = TRUE
  /\ completed' = [r \in Node |-> NULL]
  /\ UNCHANGED <<topology, chan, routerVars, replies, stopped, count>>

\* pthread_join of every router, then close and destroy of every channel.
Join ==
  /\ mpc = "join"
  /\ \A r \in Node : rpc[r] = "exit"
  /\ mpc' = "end"
  /\ UNCHANGED <<topology, chan, routerVars, replies, stopped, count, valid, completed, polls>>

MainStep == Ask \/ Hear \/ Check \/ Sleep \/ Join

Over == mpc \in {"end", "assert"} \/ \E r \in Node : rpc[r] = "assert"

Next ==
  \/ ~Over /\ ((\E r \in Node : RouterStep(r)) \/ MainStep)
  \/ Over /\ UNCHANGED vars    \* the program has ended

Fairness ==
  /\ WF_vars(~Over /\ MainStep)
  /\ \A r \in Node : WF_vars(~Over /\ RouterStep(r))

Spec == Init /\ [][Next]_vars /\ Fairness

-----------------------------------------------------------------------------
Pointer == Node \X (0..3)

TypeOK ==
  /\ \A n \in Node : chan[n] = <<>> \/ \E m \in Pointer \cup {NULL} : chan[n] = <<m>>
  /\ \A r \in Node : \A s \in 0..3 :
       vector[r][s].epoch \in Nat /\ vector[r][s].dist \in [Node -> 0..Inf]
  /\ curr \in [Node -> 0..3]
  /\ \A r \in Node : pending[r] \subseteq Neighbors(r)
  /\ changed \in [Node -> BOOLEAN]
  /\ rpc \in [Node -> {"select", "send", "update", "reply", "exit", "assert"}]
  /\ reading \in [Node -> Pointer \cup {NULL}]
  /\ completed \in [Node -> Pointer \cup {NULL}]
  /\ count \in Node /\ polls \in 0..Polls

\* A router never writes a vector that a neighbor was sent and has not finished
\* reading, however far it runs ahead: the four vectors are just enough for
\* channels of one slot (stress.c:130-151, 208-227).
NobodyReadsNext ==
  /\ TypeOK
  /\ \A n \in Node :
       \A p \in {reading[n]} \cup {chan[n][i] : i \in DOMAIN chan[n]} :
         p # NULL => p[2] # NextSlot(p[1])

\* When check_done has said yes, the routers have indeed converged: every
\* vector is the solution and nothing is under way that could change one, so
\* the threads can be stopped (stress.c:250-288, 329-340).
VerdictIsFinal ==
  mpc \in {"check", "join", "end"} =>
    Quiet /\ \A r \in Node : vector[r][curr[r]].dist = Solution(topology)[r]

\* stress.c:293 and 232: the results main reads through its pointers are the
\* solution, and no router stops with news it has not broadcast.
AssertionsHold == mpc # "assert" /\ \A r \in Node : rpc[r] # "assert"

\* A vector main compares or reads through a pointer of the first round is the
\* vector that was current when its router answered (stress.c:265, 284, 293).
VerdictReadsCurrent ==
  mpc = "check" => \A r \in Node : completed[r] = <<r, curr[r]>>

\* The routers converge, check_done notices, and every thread is joined
\* (stress.c:329-339).
Terminates == <>(mpc = "end")
=============================================================================
