----------------------------- MODULE RouterProof -----------------------------
(***************************************************************************)
(* Theorems about Router, for any number of routers, any network and any   *)
(* schedule.                                                               *)
(*                                                                         *)
(* Four vectors are enough: a vector that a neighbor was sent and has not  *)
(* finished reading is the current one, the one before it, or the one      *)
(* before that, never the one the router is writing. The argument is about *)
(* one link at a time. A router changes vectors only when nobody is left   *)
(* to send the current one to, and a channel holds one pointer. So what a  *)
(* neighbor was sent last lies in its channel or has been received, and if *)
(* it still reads what it was sent before that, its channel is full and it *)
(* cannot be sent anything.                                                *)
(*                                                                         *)
(* Quiet routers have the solution: no vector falls below                  *)
(* floyd_warshall's, and what a neighbor has read is no better over the    *)
(* link than what it has; with nothing under way every vector satisfies    *)
(* the equations of which floyd_warshall's is the greatest solution.       *)
(*                                                                         *)
(* The verdict: in the second round of check_done somebody who has not     *)
(* answered yet has moved on since the first, or nobody has and nobody     *)
(* will. That main tells the two apart by the vectors it points to needs   *)
(* NeverRecycled, which routers may break; it is shown of the networks in  *)
(* which a router has at most four current vectors one after another,      *)
(* those of three routers among them.                                      *)
(***************************************************************************)
EXTENDS Router, FiniteSetTheorems, WellFoundedInduction, TLAPS

Slot == 0..3
Vector == [epoch : Nat, dist : [Node -> 0..Inf]]

\* The slot of the vector that was current k changes ago.
Behind(r, k) == (curr[r] + 4 - k) % 4

\* What router r sent its neighbor n last, and what it sent n before that.
LastSent(r, n) == <<r, IF n \in pending[r] THEN Behind(r, 1) ELSE curr[r]>>
BeforeLast(r, n) == <<r, IF n \in pending[r] THEN Behind(r, 2) ELSE Behind(r, 1)>>

\* What can be in n's channel, and what n can be reading.
Holds(n) ==
  \/ chan[n] \in {<<>>, <<NULL>>}
  \/ \E r \in Node : n \in Neighbors(r) /\ chan[n] = <<LastSent(r, n)>>

Reads(n) ==
  \/ reading[n] = NULL
  \/ \E r \in Node :
       /\ n \in Neighbors(r)
       /\ \/ reading[n] = LastSent(r, n)
          \/ reading[n] = BeforeLast(r, n) /\ chan[n] = <<LastSent(r, n)>>

Flow == \A n \in Node : Holds(n) /\ Reads(n)

RouterTyped ==
  /\ topology \in Topologies
  /\ DOMAIN chan = Node
  /\ vector \in [Node -> [Slot -> Vector]]
  /\ curr \in [Node -> Slot]
  /\ pending \in [Node -> SUBSET Node] /\ \A r \in Node : pending[r] \subseteq Neighbors(r)
  /\ changed \in [Node -> BOOLEAN]
  /\ rpc \in [Node -> {"select", "send", "update", "reply", "exit", "assert"}]
  /\ reading \in [Node -> Pointer \cup {NULL}]
  /\ \A r \in Node : rpc[r] = "update" => reading[r] # NULL
  /\ replies = <<>> \/ \E p \in Pointer \cup {NULL} : replies = <<p>>
  /\ completed \in [Node -> Pointer \cup {NULL}]
  /\ count \in Node /\ polls \in 0..Polls

RouterInv == RouterTyped /\ Flow

-----------------------------------------------------------------------------
(* Slots and pointers                                                      *)

LEMMA SlotsBehind ==
  ASSUME curr \in [Node -> Slot], NEW r \in Node
  PROVE  /\ Behind(r, 1) \in Slot /\ Behind(r, 2) \in Slot /\ curr[r] \in Slot
         /\ NextSlot(r) \in Slot /\ (NextSlot(r) + 1) % Buffers \in Slot
         /\ NextSlot(r) \notin {curr[r], Behind(r, 1), Behind(r, 2)}
BY DEF Slot, Behind, NextSlot, Buffers

LEMMA PointersSent ==
  ASSUME RouterTyped, NEW r \in Node, NEW n
  PROVE  /\ LastSent(r, n) \in Pointer /\ BeforeLast(r, n) \in Pointer
         /\ LastSent(r, n)[1] = r /\ LastSent(r, n)[2] # NextSlot(r)
         /\ BeforeLast(r, n)[1] = r /\ BeforeLast(r, n)[2] # NextSlot(r)
BY SlotsBehind DEF RouterTyped, LastSent, BeforeLast, Pointer, Slot

LEMMA NotNull ==
  /\ NULL \notin Pointer
  /\ \A p : Head(<<p>>) = p /\ <<p>> # <<>>
BY DEF NULL, Pointer

LEMMA FlowTypes ==
  ASSUME RouterTyped, Flow, NEW n \in Node
  PROVE  /\ chan[n] = <<>> \/ \E p \in Pointer \cup {NULL} : chan[n] = <<p>>
         /\ reading[n] \in Pointer \cup {NULL}
<1>1. Holds(n) /\ Reads(n)
  BY DEF Flow
<1>2. chan[n] = <<>> \/ \E p \in Pointer \cup {NULL} : chan[n] = <<p>>
  BY <1>1, PointersSent DEF Holds
<1>3. reading[n] \in Pointer \cup {NULL}
  BY <1>1, PointersSent DEF Reads
<1> QED
  BY <1>2, <1>3
-----------------------------------------------------------------------------
(* The end of a round of a router's loop                                   *)

\* What r sent n stays what r sent n, for every n that r has sent nothing since;
\* for the n it has, the last before becomes the one before the last.
LEMMA RoundFlow ==
  ASSUME RouterTyped, NEW r \in Node, NEW left, left \subseteq pending[r], NEW better, NEW next,
         Round(r, left, better, next), UNCHANGED topology, NEW q \in Node, NEW n \in Neighbors(q)
  PROVE  IF q = r /\ n \in pending[r] \ left
         THEN LastSent(q, n)' = <<r, curr[r]>> /\ BeforeLast(q, n)' = LastSent(q, n)
         ELSE LastSent(q, n)' = LastSent(q, n) /\ BeforeLast(q, n)' = BeforeLast(q, n)
<1>1. /\ curr \in [Node -> Slot] /\ curr[r] \in Slot /\ pending \in [Node -> SUBSET Node]
      /\ \A m \in Node : pending[m] \subseteq Neighbors(m)
      /\ n \in Node
  BY DEF RouterTyped, Neighbors
<1>2. CASE left = {} /\ better
  <2>1. curr' = [curr EXCEPT ![r] = NextSlot(r)] /\ pending' = [pending EXCEPT ![r] = Neighbors(r)]
    BY <1>2 DEF Round
  <2>2. CASE q = r
    <3>1. n \in pending'[q] /\ curr'[q] = NextSlot(r)
      BY <1>1, <2>1, <2>2
    <3>2. Behind(q, 1)' = curr[r] /\ Behind(q, 2)' = Behind(q, 1)
      BY <1>1, <2>2, <3>1 DEF Behind, NextSlot, Buffers, Slot
    <3> QED
      BY <1>2, <2>2, <3>1, <3>2 DEF LastSent, BeforeLast
  <2>3. CASE q # r
    BY <1>1, <2>1, <2>3 DEF LastSent, BeforeLast, Behind
  <2> QED
    BY <2>2, <2>3
<1>3. CASE ~(left = {} /\ better)
  <2>1. curr' = curr /\ pending' = [pending EXCEPT ![r] = left]
    BY <1>3 DEF Round
  <2> QED
    BY <1>1, <2>1 DEF LastSent, BeforeLast, Behind
<1> QED
  BY <1>2, <1>3

LEMMA RoundTyped ==
  ASSUME RouterTyped, NEW r \in Node, NEW left, left \subseteq pending[r], NEW better \in BOOLEAN,
         NEW next \in Vector, Round(r, left, better, next), UNCHANGED topology
  PROVE  /\ vector' \in [Node -> [Slot -> Vector]]
         /\ curr' \in [Node -> Slot]
         /\ pending' \in [Node -> SUBSET Node] /\ \A m \in Node : pending'[m] \subseteq Neighbors(m)'
         /\ changed' \in [Node -> BOOLEAN]
<1> DEFINE slot == NextSlot(r)
           fresh == (slot + 1) % Buffers
<1>1. /\ vector \in [Node -> [Slot -> Vector]] /\ curr \in [Node -> Slot]
      /\ pending \in [Node -> SUBSET Node] /\ changed \in [Node -> BOOLEAN]
      /\ \A m \in Node : pending[m] \subseteq Neighbors(m) /\ Neighbors(m)' = Neighbors(m)
      /\ \A m \in Node : Neighbors(m) \subseteq Node
  BY DEF RouterTyped, Neighbors
<1>2. slot \in Slot /\ fresh \in Slot
  BY <1>1, SlotsBehind
<1>3. [next EXCEPT !.epoch = @ + 1] \in Vector
  BY DEF Vector
<1> HIDE DEF slot, fresh
<1>4. CASE left = {} /\ better
  <2>1. /\ curr' = [curr EXCEPT ![r] = slot]
        /\ vector' = [vector EXCEPT ![r][slot] = next,
                                    ![r][fresh] = [next EXCEPT !.epoch = @ + 1]]
        /\ pending' = [pending EXCEPT ![r] = Neighbors(r)]
        /\ changed' = [changed EXCEPT ![r] = FALSE]
    BY <1>4 DEF Round, slot, fresh
  <2>2. vector' \in [Node -> [Slot -> Vector]]
    BY <1>1, <1>2, <1>3, <2>1
  <2>3. curr' \in [Node -> Slot] /\ changed' \in [Node -> BOOLEAN]
    BY <1>1, <1>2, <2>1
  <2>4. pending' \in [Node -> SUBSET Node] /\ \A m \in Node : pending'[m] \subseteq Neighbors(m)'
    BY <1>1, <2>1
  <2> QED
    BY <2>2, <2>3, <2>4
<1>5. CASE ~(left = {} /\ better)
  <2>1. /\ curr' = curr
        /\ vector' = [vector EXCEPT ![r][slot] = next]
        /\ pending' = [pending EXCEPT ![r] = left]
        /\ changed' = [changed EXCEPT ![r] = better]
    BY <1>5 DEF Round, slot
  <2>2. vector' \in [Node -> [Slot -> Vector]]
    BY <1>1, <1>2, <2>1
  <2>3. curr' \in [Node -> Slot] /\ changed' \in [Node -> BOOLEAN]
    BY <1>1, <2>1
  <2>4. pending' \in [Node -> SUBSET Node] /\ \A m \in Node : pending'[m] \subseteq Neighbors(m)'
    BY <1>1, <2>1
  <2> QED
    BY <2>2, <2>3, <2>4, <2>1
<1> QED
  BY <1>4, <1>5
-----------------------------------------------------------------------------
(* Each step                                                               *)

SentSame == \A q \in Node : \A n \in Neighbors(q) :
  LastSent(q, n)' = LastSent(q, n) /\ BeforeLast(q, n)' = BeforeLast(q, n)

\* A step that sends n nothing, and after which n reads what it read or nothing.
LEMMA SameFlow ==
  ASSUME SentSame, UNCHANGED topology, NEW n \in Node, Holds(n), Reads(n),
         chan'[n] = chan[n], reading'[n] \in {reading[n], NULL}
  PROVE  Holds(n)' /\ Reads(n)'
<1>1. \A q \in Node : Neighbors(q)' = Neighbors(q)
  BY DEF Neighbors
<1>2. Holds(n)'
  BY <1>1 DEF SentSame, Holds
<1>3. Reads(n)'
  BY <1>1 DEF SentSame, Reads
<1> QED
  BY <1>2, <1>3

LEMMA QuietSent ==
  ASSUME UNCHANGED <<topology, curr, pending>>
  PROVE  SentSame
BY DEF SentSame, LastSent, BeforeLast, Behind

LEMMA RoundSent ==
  ASSUME RouterTyped, NEW r \in Node, NEW better, NEW next,
         Round(r, pending[r], better, next), UNCHANGED topology
  PROVE  SentSame
BY RoundFlow DEF SentSame

\* What n receives is what it was sent last.
LEMMA ReceiveFlow ==
  ASSUME RouterTyped, Flow, NEW r \in Node, Receive(r)
  PROVE  Flow'
<1>1. /\ chan[r] # <<>> /\ chan' = [chan EXCEPT ![r] = <<>>]
      /\ reading' = [reading EXCEPT ![r] = Head(chan[r])]
      /\ UNCHANGED <<topology, curr, pending>> /\ DOMAIN chan = Node /\ DOMAIN reading = Node
  BY DEF Receive, RouterTyped
<1>2. SentSame /\ \A q \in Node : Neighbors(q)' = Neighbors(q)
  BY <1>1, QuietSent DEF Neighbors
<1>3. ASSUME NEW n \in Node
      PROVE  Holds(n)' /\ Reads(n)'
  <2>1. Holds(n) /\ Reads(n)
    BY DEF Flow
  <2>2. CASE n # r
    BY <1>1, <1>2, <2>1, <2>2, SameFlow
  <2>3. CASE n = r
    <3>1. Holds(n)'
      BY <1>1, <2>3 DEF Holds
    <3>2. CASE chan[n] = <<NULL>>
      BY <1>1, <2>3, <3>1, <3>2, NotNull DEF Reads
    <3>3. CASE \E q \in Node : n \in Neighbors(q) /\ chan[n] = <<LastSent(q, n)>>
      <4>1. PICK q \in Node : n \in Neighbors(q) /\ chan[n] = <<LastSent(q, n)>>
        BY <3>3
      <4>2. reading'[n] = LastSent(q, n) /\ LastSent(q, n)' = LastSent(q, n)
        BY <1>1, <1>2, <2>3, <4>1, NotNull DEF SentSame
      <4> QED
        BY <1>2, <3>1, <4>1, <4>2 DEF Reads
    <3> QED
      BY <1>1, <2>1, <2>3, <3>1, <3>2, <3>3 DEF Holds
  <2> QED
    BY <2>2, <2>3
<1> QED
  BY <1>3 DEF Flow

\* Nobody is sent a vector who still reads the one before the last.
LEMMA SendFlow ==
  ASSUME RouterTyped, Flow, NEW r \in Node, NEW m \in Node, SendTo(r, m)
  PROVE  Flow'
<1>1. /\ m \in pending[r] /\ chan[m] = <<>> /\ chan' = [chan EXCEPT ![m] = <<(<<r, curr[r]>>)>>]
      /\ Round(r, pending[r] \ {m}, changed[r], vector[r][NextSlot(r)])
      /\ UNCHANGED <<topology, reading>> /\ DOMAIN chan = Node
      /\ m \in Neighbors(r) /\ pending[r] \subseteq Neighbors(r)
  BY DEF SendTo, RouterTyped
<1>2. \A q \in Node : Neighbors(q)' = Neighbors(q)
  BY <1>1 DEF Neighbors
<1>3. \A q \in Node : \A n \in Neighbors(q) :
        IF q = r /\ n = m
        THEN LastSent(q, n)' = <<r, curr[r]>> /\ BeforeLast(q, n)' = LastSent(q, n)
        ELSE LastSent(q, n)' = LastSent(q, n) /\ BeforeLast(q, n)' = BeforeLast(q, n)
  <2> SUFFICES ASSUME NEW q \in Node, NEW n \in Neighbors(q)
               PROVE  IF q = r /\ n = m
                      THEN LastSent(q, n)' = <<r, curr[r]>> /\ BeforeLast(q, n)' = LastSent(q, n)
                      ELSE LastSent(q, n)' = LastSent(q, n) /\ BeforeLast(q, n)' = BeforeLast(q, n)
    OBVIOUS
  <2> DEFINE left == pending[r] \ {m}
  <2>1. left \subseteq pending[r] /\ (n \in pending[r] \ left <=> n = m)
    BY <1>1
  <2>2. Round(r, left, changed[r], vector[r][NextSlot(r)])
    BY <1>1
  <2> HIDE DEF left
  <2> QED
    BY <1>1, <2>1, <2>2, RoundFlow
<1>4. ASSUME NEW n \in Node
      PROVE  Holds(n)' /\ Reads(n)'
  <2>1. Holds(n) /\ Reads(n)
    BY DEF Flow
  <2>2. CASE n # m
    <3>1. chan'[n] = chan[n] /\ reading'[n] = reading[n]
      BY <1>1, <2>2
    <3>2. \A q \in Node : n \in Neighbors(q) =>
            LastSent(q, n)' = LastSent(q, n) /\ BeforeLast(q, n)' = BeforeLast(q, n)
      BY <1>3, <2>2
    <3>3. Holds(n)'
      BY <1>2, <2>1, <3>1, <3>2 DEF Holds
    <3>4. Reads(n)'
      BY <1>2, <2>1, <3>1, <3>2 DEF Reads
    <3> QED
      BY <3>3, <3>4
  <2>3. CASE n = m
    <3>1. chan'[n] = <<LastSent(r, n)'>> /\ n \in Neighbors(r)'
      BY <1>1, <1>2, <1>3, <2>3
    <3>2. Holds(n)'
      BY <3>1 DEF Holds
    <3>3. CASE reading[n] = NULL
      BY <1>1, <3>2, <3>3 DEF Reads
    <3>4. CASE reading[n] # NULL
      <4>1. PICK q \in Node : /\ n \in Neighbors(q)
                              /\ \/ reading[n] = LastSent(q, n)
                                 \/ reading[n] = BeforeLast(q, n) /\ chan[n] = <<LastSent(q, n)>>
        BY <2>1, <3>4 DEF Reads
      <4>2. reading'[n] = LastSent(q, n)
        BY <1>1, <2>3, <4>1, NotNull
      <4>3. CASE q = r
        <5>1. reading'[n] = BeforeLast(q, n)'
          BY <1>3, <2>3, <4>1, <4>2, <4>3
        <5> QED
          BY <3>1, <3>2, <4>3, <5>1 DEF Reads
      <4>4. CASE q # r
        <5>1. reading'[n] = LastSent(q, n)' /\ n \in Neighbors(q)'
          BY <1>2, <1>3, <4>1, <4>2, <4>4
        <5> QED
          BY <3>2, <5>1 DEF Reads
      <4> QED
        BY <4>3, <4>4
    <3> QED
      BY <3>2, <3>3, <3>4
  <2> QED
    BY <2>2, <2>3
<1> QED
  BY <1>4 DEF Flow

\* A NULL finds an empty channel: nobody reads the one before the last there.
LEMMA AskFlow ==
  ASSUME RouterTyped, Flow, Ask
  PROVE  Flow'
<1>1. /\ chan[count] = <<>> /\ chan' = [chan EXCEPT ![count] = <<NULL>>]
      /\ UNCHANGED <<topology, curr, pending, reading>> /\ DOMAIN chan = Node /\ count \in Node
  BY DEF Ask, routerVars, RouterTyped
<1>2. SentSame /\ \A q \in Node : Neighbors(q)' = Neighbors(q)
  BY <1>1, QuietSent DEF Neighbors
<1>3. ASSUME NEW n \in Node
      PROVE  Holds(n)' /\ Reads(n)'
  <2>1. Holds(n) /\ Reads(n)
    BY DEF Flow
  <2>2. CASE n # count
    BY <1>1, <1>2, <2>1, <2>2, SameFlow
  <2>3. CASE n = count
    <3>1. Holds(n)'
      BY <1>1, <2>3 DEF Holds
    <3>2. reading[n] = NULL \/ \E q \in Node : n \in Neighbors(q) /\ reading[n] = LastSent(q, n)
      BY <1>1, <2>1, <2>3, NotNull DEF Reads
    <3>3. Reads(n)'
      BY <1>1, <1>2, <3>2 DEF Reads, SentSame
    <3> QED
      BY <3>1, <3>3
  <2> QED
    BY <2>2, <2>3
<1> QED
  BY <1>3 DEF Flow

LEMMA NextFlow ==
  ASSUME RouterTyped, Flow, [Next]_vars
  PROVE  Flow'
<1>1. ASSUME SentSame, UNCHANGED <<topology, chan>>,
             \A n \in Node : reading'[n] \in {reading[n], NULL}
      PROVE  Flow'
  BY <1>1, SameFlow DEF Flow
<1>2. ASSUME UNCHANGED <<topology, chan, curr, pending, reading>>
      PROVE  Flow'
  BY <1>1, <1>2, QuietSent
<1>3. CASE UNCHANGED vars
  BY <1>2, <1>3 DEF vars, routerVars
<1>4. ASSUME NEW r \in Node, RouterStep(r)
      PROVE  Flow'
  <2>1. CASE Pass(r) \/ Nothing(r) \/ Exit(r)
    BY <1>2, <2>1 DEF Pass, Nothing, Exit
  <2>2. ASSUME NEW n \in Node, SendTo(r, n)
        PROVE  Flow'
    BY <2>2, SendFlow
  <2>3. CASE Receive(r)
    BY <2>3, ReceiveFlow
  <2>4. CASE Update(r)
    <3>1. PICK better, next : Round(r, pending[r], better, next)
      BY ZenonT(60), <2>4 DEF Update
    <3>2. UNCHANGED <<topology, chan>> /\ reading' = [reading EXCEPT ![r] = NULL]
      BY <2>4 DEF Update
    <3>3. \A n \in Node : reading'[n] \in {reading[n], NULL}
      BY <3>2 DEF RouterTyped
    <3> QED
      BY SMTT(40), <1>1, <3>1, <3>2, <3>3, RoundSent
  <2>5. CASE Reply(r)
    <3>1. PICK better, next : Round(r, pending[r], better, next)
      BY <2>5 DEF Reply
    <3>2. UNCHANGED <<topology, chan, reading>>
      BY <2>5 DEF Reply
    <3> QED
      BY <1>1, <3>1, <3>2, RoundSent
  <2> QED
    BY <1>4, <2>1, <2>2, <2>3, <2>4, <2>5 DEF RouterStep
<1>5. CASE MainStep
  <2>1. CASE Ask
    BY <2>1, AskFlow
  <2>2. CASE Hear \/ Check \/ Sleep \/ Join
    BY <1>2, <2>2 DEF Hear, Check, Sleep, Join, routerVars
  <2> QED
    BY <1>5, <2>1, <2>2 DEF MainStep
<1> QED
  BY <1>3, <1>4, <1>5 DEF Next
-----------------------------------------------------------------------------
(* Types                                                                   *)

\* The vector a router reads comes from a neighbor, by a link of finite length
\* (the assertion of stress.c:186), and is relaxed within the types.
LEMMA UpdateReads ==
  ASSUME RouterInv, NEW r \in Node, reading[r] # NULL
  PROVE  /\ reading[r][1] \in Node /\ reading[r][2] \in Slot
         /\ topology[r][reading[r][1]] # Inf /\ topology[r][reading[r][1]] \in Nat
<1>1. PICK q \in Node : r \in Neighbors(q) /\ reading[r] \in {LastSent(q, r), BeforeLast(q, r)}
  BY DEF RouterInv, Flow, Reads
<1>2. reading[r][1] = q /\ reading[r] \in Pointer
  BY <1>1, PointersSent DEF RouterInv
<1>3. topology \in Topologies
  BY DEF RouterInv, RouterTyped
<1>4. /\ topology \in [Node -> [Node -> 0..Inf]]
      /\ topology[r][q] = Inf <=> topology[q][r] = Inf
  BY <1>3, RouterAssumption
<1>5. topology[q][r] # Inf
  BY <1>1 DEF Neighbors
<1> QED
  BY <1>2, <1>4, <1>5, RouterAssumption DEF Pointer, Slot

LEMMA UpdateTyped ==
  ASSUME RouterInv, NEW r \in Node, Update(r)
  PROVE  \E better \in BOOLEAN, next \in Vector : Round(r, pending[r], better, next)
<1> DEFINE src == reading[r][1]
           theirs == vector[src][reading[r][2]].dist
           mine == vector[r][NextSlot(r)]
           Via(i) == topology[r][src] + theirs[i]
           better == {i \in Node : Via(i) < mine.dist[i]}
           dist == [i \in Node |-> IF i \in better THEN Via(i) ELSE mine.dist[i]]
           next == [mine EXCEPT !.dist = [i \in Node |-> IF i \in better THEN Via(i) ELSE @[i]]]
<1>1. /\ Round(r, pending[r], changed[r] \/ better # {}, next) /\ rpc[r] = "update"
      /\ changed[r] \in BOOLEAN
  BY ZenonT(60) DEF Update, RouterInv, RouterTyped
<1>2. /\ src \in Node /\ reading[r][2] \in Slot /\ topology[r][src] \in Nat
      /\ vector \in [Node -> [Slot -> Vector]] /\ NextSlot(r) \in Slot /\ Inf \in Nat
  BY <1>1, UpdateReads, SlotsBehind, RouterAssumption DEF RouterInv, RouterTyped
<1>3. theirs \in [Node -> 0..Inf] /\ mine \in Vector /\ mine.dist \in [Node -> 0..Inf]
  BY <1>2 DEF Vector
<1>4. dist \in [Node -> 0..Inf]
  <2> SUFFICES ASSUME NEW i \in Node PROVE (IF i \in better THEN Via(i) ELSE mine.dist[i]) \in 0..Inf
    OBVIOUS
  <2>1. theirs[i] \in Nat /\ mine.dist[i] \in 0..Inf /\ Via(i) \in Nat
    BY <1>2, <1>3
  <2>2. i \in better => Via(i) < mine.dist[i]
    OBVIOUS
  <2> HIDE DEF Via, better, mine
  <2> QED
    BY SMTT(40), <1>2, <2>1, <2>2
<1>5. next = [mine EXCEPT !.dist = dist]
  OBVIOUS
<1>6. next \in Vector
  <2> HIDE DEF next, mine, dist
  <2> QED
    BY SMTT(40), <1>3, <1>4, <1>5 DEF Vector
<1>7. (changed[r] \/ better # {}) \in BOOLEAN
  BY <1>1
<1> HIDE DEF next, better
<1> QED
  BY <1>1, <1>6, <1>7

\* What a step leaves of the type of the main thread's state, and of the routers'.
MainTyped ==
  /\ DOMAIN chan = Node
  /\ replies = <<>> \/ \E p \in Pointer \cup {NULL} : replies = <<p>>
  /\ completed \in [Node -> Pointer \cup {NULL}]
  /\ count \in Node /\ polls \in 0..Polls

LoopTyped ==
  /\ topology \in Topologies
  /\ vector \in [Node -> [Slot -> Vector]]
  /\ curr \in [Node -> Slot]
  /\ pending \in [Node -> SUBSET Node] /\ \A r \in Node : pending[r] \subseteq Neighbors(r)
  /\ changed \in [Node -> BOOLEAN]

PlaceTyped ==
  /\ rpc \in [Node -> {"select", "send", "update", "reply", "exit", "assert"}]
  /\ reading \in [Node -> Pointer \cup {NULL}]
  /\ \A r \in Node : rpc[r] = "update" => reading[r] # NULL

LEMMA RouterParts == RouterTyped <=> MainTyped /\ LoopTyped /\ PlaceTyped
BY DEF RouterTyped, MainTyped, LoopTyped, PlaceTyped

LEMMA RouterStepTyped ==
  ASSUME RouterInv, NEW r \in Node, RouterStep(r)
  PROVE  RouterTyped'
<1>1. RouterTyped /\ MainTyped /\ LoopTyped /\ PlaceTyped
  BY RouterParts DEF RouterInv
<1>2. ASSUME NEW left, left \subseteq pending[r], NEW better \in BOOLEAN, NEW next \in Vector,
             Round(r, left, better, next), UNCHANGED topology
      PROVE  LoopTyped'
  BY <1>1, <1>2, RoundTyped DEF LoopTyped
<1>3. vector[r][NextSlot(r)] \in Vector /\ changed[r] \in BOOLEAN
  BY <1>1, SlotsBehind DEF LoopTyped
<1>4. CASE Pass(r) \/ Nothing(r) \/ Exit(r)
  <2>1. MainTyped'
    BY <1>1, <1>4 DEF MainTyped, Pass, Nothing, Exit, mainVars
  <2>2. LoopTyped'
    BY <1>1, <1>4 DEF LoopTyped, Neighbors, Pass, Nothing, Exit
  <2>3. PlaceTyped'
    BY <1>1, <1>4 DEF PlaceTyped, Pass, Nothing, Exit
  <2> QED
    BY <2>1, <2>2, <2>3, RouterParts DEF RouterTyped, MainTyped, LoopTyped, PlaceTyped
<1>5. ASSUME NEW n \in Node, SendTo(r, n)
      PROVE  RouterTyped'
  <2>1. MainTyped'
    BY <1>1, <1>5 DEF MainTyped, SendTo, mainVars
  <2>2. LoopTyped'
    BY <1>2, <1>3, <1>5 DEF SendTo
  <2>3. PlaceTyped'
    BY <1>1, <1>5 DEF PlaceTyped, SendTo
  <2> QED
    BY <2>1, <2>2, <2>3 DEF RouterTyped, MainTyped, LoopTyped, PlaceTyped
<1>6. CASE Receive(r)
  <2>1. MainTyped'
    BY <1>1, <1>6 DEF MainTyped, Receive, mainVars
  <2>2. LoopTyped'
    BY <1>1, <1>6 DEF LoopTyped, Neighbors, Receive
  <2>3. PlaceTyped'
    <3>1. PICK p \in Pointer \cup {NULL} : chan[r] = <<p>>
      BY <1>6, FlowTypes DEF RouterInv, Receive
    <3>2. /\ reading' = [reading EXCEPT ![r] = p]
          /\ rpc' = [rpc EXCEPT ![r] = IF p = NULL THEN "reply" ELSE "update"]
      BY ZenonT(60), <1>6, <3>1, NotNull DEF Receive
    <3> QED
      BY <1>1, <3>1, <3>2 DEF PlaceTyped
  <2> QED
    BY <2>1, <2>2, <2>3 DEF RouterTyped, MainTyped, LoopTyped, PlaceTyped
<1>7. CASE Update(r)
  <2>1. MainTyped'
    BY <1>1, <1>7 DEF MainTyped, Update, mainVars
  <2>2. LoopTyped'
    <3>1. UNCHANGED topology
      BY ZenonT(60), <1>7 DEF Update
    <3> QED
      BY SMTT(40), <1>2, <1>7, <3>1, UpdateTyped
  <2>3. PlaceTyped'
    BY <1>1, <1>7 DEF PlaceTyped, Update
  <2> QED
    BY <2>1, <2>2, <2>3 DEF RouterTyped, MainTyped, LoopTyped, PlaceTyped
<1>8. CASE Reply(r)
  <2>1. MainTyped'
    <3>1. PICK p \in Pointer \cup {NULL} : replies' = <<p>>
      BY <1>1, <1>8 DEF Reply, Pointer, LoopTyped, Slot
    <3> QED
      BY <1>1, <1>8, <3>1 DEF MainTyped, Reply, mainVars
  <2>2. LoopTyped'
    BY <1>2, <1>3, <1>8 DEF Reply
  <2>3. PlaceTyped'
    BY <1>1, <1>8 DEF PlaceTyped, Reply
  <2> QED
    BY <2>1, <2>2, <2>3 DEF RouterTyped, MainTyped, LoopTyped, PlaceTyped
<1> QED
  BY <1>4, <1>5, <1>6, <1>7, <1>8 DEF RouterStep

LEMMA MainStepTyped ==
  ASSUME RouterInv, MainStep
  PROVE  RouterTyped'
<1>1. MainTyped /\ LoopTyped /\ PlaceTyped /\ Nodes \in Nat \ {0} /\ Polls \in Nat
  BY RouterParts, RouterAssumption DEF RouterInv
<1>2. UNCHANGED <<topology, routerVars>>
  BY DEF MainStep, Ask, Hear, Check, Sleep, Join
<1>3. LoopTyped' /\ PlaceTyped'
  BY <1>1, <1>2 DEF LoopTyped, PlaceTyped, routerVars, Neighbors
<1>4. CASE Ask
  <2>1. DOMAIN chan' = DOMAIN chan
    BY <1>4 DEF Ask
  <2>2. count \in 1..Nodes
    BY <1>1 DEF MainTyped, Node
  <2>3. IF count < Nodes THEN count' = count + 1 ELSE count' = 1
    BY <1>4, Zenon DEF Ask
  <2>4. count' \in 1..Nodes
    BY <1>1, <2>2, <2>3
  <2>5. MainTyped'
    BY <1>1, <1>4, <2>1, <2>4 DEF MainTyped, Ask, Node
  <2> QED
    BY <1>3, <2>5 DEF RouterTyped, MainTyped, LoopTyped, PlaceTyped
<1>5. CASE Hear
  <2>1. PICK p \in Pointer \cup {NULL} : replies = <<p>>
    BY <1>1, <1>5 DEF MainTyped, Hear
  <2>2. Head(replies) = p /\ (p # NULL => p \in Pointer /\ p[1] \in Node)
    BY <2>1, NotNull DEF Pointer
  <2>3. completed' \in [Node -> Pointer \cup {NULL}]
    BY <1>1, <1>5, <2>2 DEF MainTyped, Hear, Note, Compare
  <2>4. count' \in Node /\ polls' = polls /\ replies' = <<>> /\ UNCHANGED chan
    BY <1>1, <1>5 DEF MainTyped, Hear, Node
  <2>5. MainTyped'
    BY <1>1, <2>3, <2>4 DEF MainTyped
  <2> QED
    BY <1>3, <2>5 DEF RouterTyped, MainTyped, LoopTyped, PlaceTyped
<1>6. CASE Check \/ Join
  BY <1>1, <1>3, <1>6 DEF Check, Join, RouterTyped, MainTyped, LoopTyped, PlaceTyped
<1>7. CASE Sleep
  BY <1>1, <1>3, <1>7 DEF Sleep, RouterTyped, MainTyped, LoopTyped, PlaceTyped
<1> QED
  BY <1>4, <1>5, <1>6, <1>7 DEF MainStep

LEMMA StartInv ==
  ASSUME Init
  PROVE  RouterInv
<1>1. /\ topology \in [Node -> [Node -> 0..Inf]] /\ topology \in Topologies
      /\ Nodes \in Nat \ {0} /\ Polls \in Nat
  BY RouterAssumption DEF Init
<1>2. LoopTyped
  BY <1>1 DEF Init, LoopTyped, Slot, Vector, Neighbors
<1>3. MainTyped
  BY <1>1 DEF Init, MainTyped, Node
<1>4. PlaceTyped
  BY DEF Init, PlaceTyped
<1>5. Flow
  BY DEF Init, Flow, Holds, Reads
<1> QED
  BY <1>2, <1>3, <1>4, <1>5, RouterParts DEF RouterInv

LEMMA StepInv ==
  ASSUME RouterInv, [Next]_vars
  PROVE  RouterInv'
<1>1. CASE UNCHANGED vars
  <2>1. UNCHANGED <<topology, chan, vector, curr, pending, changed, rpc, reading, replies,
                    count, completed, polls>>
    BY <1>1 DEF vars, routerVars, mainVars
  <2>2. RouterTyped'
    BY <2>1 DEF RouterInv, RouterTyped, Neighbors
  <2> QED
    BY <2>2, NextFlow DEF RouterInv
<1>2. ASSUME ~UNCHANGED vars
      PROVE  RouterTyped'
  <2>1. (\E r \in Node : RouterStep(r)) \/ MainStep
    BY <1>2 DEF Next
  <2> QED
    BY <2>1, RouterStepTyped, MainStepTyped
<1>3. Flow'
  BY NextFlow DEF RouterInv
<1> QED
  BY <1>1, <1>2, <1>3 DEF RouterInv

LEMMA NobodyReads ==
  ASSUME RouterInv
  PROVE  NobodyReadsNext
<1>1. TypeOK
  <2>1. \A n \in Node : chan[n] = <<>> \/ \E m \in Pointer \cup {NULL} : chan[n] = <<m>>
    BY FlowTypes DEF RouterInv
  <2>2. reading \in [Node -> Pointer \cup {NULL}]
    BY FlowTypes DEF RouterInv, RouterTyped
  <2>3. \A r \in Node : \A s \in 0..3 :
          vector[r][s].epoch \in Nat /\ vector[r][s].dist \in [Node -> 0..Inf]
    BY ZenonT(60) DEF RouterInv, RouterTyped, Slot, Vector
  <2> QED
    BY <2>1, <2>2, <2>3 DEF RouterInv, RouterTyped, TypeOK, Slot
<1>2. ASSUME NEW n \in Node, NEW p, p # NULL,
             p = reading[n] \/ \E i \in DOMAIN chan[n] : p = chan[n][i]
      PROVE  p[2] # NextSlot(p[1])
  <2>1. Holds(n) /\ Reads(n)
    BY DEF RouterInv, Flow
  <2>2. \E r \in Node : p = LastSent(r, n) \/ p = BeforeLast(r, n)
    <3>1. CASE p = reading[n]
      BY <1>2, <2>1, <3>1 DEF Reads
    <3>2. CASE \E i \in DOMAIN chan[n] : p = chan[n][i]
      BY <1>2, <2>1, <3>2 DEF Holds
    <3> QED
      BY <1>2, <3>1, <3>2
  <2> QED
    BY <2>2, PointersSent DEF RouterInv
<1> QED
  BY <1>1, <1>2 DEF NobodyReadsNext
-----------------------------------------------------------------------------
(* floyd_warshall                                                          *)

Matrix == [Node -> [Node -> 0..Inf]]

\* What an intermediate node makes of the distances.
Improved(d, k) ==
  [s \in Node |-> [e \in Node |->
     IF d[s][k] + d[k][e] < d[s][e] THEN d[s][k] + d[k][e] ELSE d[s][e]]]

IsBest(f, t) == f = [k \in 0..Nodes |-> IF k = 0 THEN t ELSE Improved(f[k - 1], k)]
Best(t) == CHOOSE f : IsBest(f, t)

LEMMA LeastNumber ==
  ASSUME NEW T \in SUBSET Nat, T # {}
  PROVE  \E x \in T : \A y \in T : x <= y
<1>1. IsWellFoundedOn(OpToRel(<, Nat), Nat)
  BY NatLessThanWellFounded
<1>2. PICK x \in T : \A y \in T : ~ (<<y, x>> \in OpToRel(<, Nat))
  BY <1>1, WFMin
<1>3. \A y \in T : ~(y < x)
  BY <1>2 DEF OpToRel
<1> QED
  BY <1>3

LEMMA ImprovedIs ==
  ASSUME NEW d \in Matrix, NEW k \in Node
  PROVE  /\ Improved(d, k) \in Matrix
         /\ \A s, e \in Node :
              /\ d[s][e] \in Nat /\ d[s][k] \in Nat /\ d[k][e] \in Nat
              /\ Improved(d, k)[s][e] = IF d[s][k] + d[k][e] < d[s][e] THEN d[s][k] + d[k][e] ELSE d[s][e]
<1>0. Inf \in Nat
  BY RouterAssumption
<1>1. ASSUME NEW s \in Node, NEW e \in Node
      PROVE  /\ d[s][e] \in 0..Inf /\ d[s][k] \in 0..Inf /\ d[k][e] \in 0..Inf
             /\ Improved(d, k)[s][e] = IF d[s][k] + d[k][e] < d[s][e] THEN d[s][k] + d[k][e] ELSE d[s][e]
  BY DEF Matrix, Improved
<1>2. ASSUME NEW s \in Node, NEW e \in Node
      PROVE  (IF d[s][k] + d[k][e] < d[s][e] THEN d[s][k] + d[k][e] ELSE d[s][e]) \in 0..Inf
  BY <1>0, <1>1
<1>3. Improved(d, k) \in Matrix
  BY <1>2 DEF Matrix, Improved
<1> QED
  BY <1>0, <1>1, <1>3

IsBestTo(f, t, m) ==
  f \in [0..m -> Matrix] /\ f = [k \in 0..m |-> IF k = 0 THEN t ELSE Improved(f[k - 1], k)]

LEMMA BestExists ==
  ASSUME NEW t \in Matrix
  PROVE  \E f : IsBestTo(f, t, Nodes)
<1> DEFINE Has(m) == \E f : IsBestTo(f, t, m)
           Bad == {m \in 0..Nodes : ~Has(m)}
<1>0. Nodes \in Nat
  BY RouterAssumption
<1>1. Bad = {}
  <2> SUFFICES ASSUME Bad # {} PROVE FALSE
    OBVIOUS
  <2> HIDE DEF Has
  <2>1. PICK m \in Bad : \A k \in Bad : m <= k
    <3>1. Bad \in SUBSET Nat
      OBVIOUS
    <3> HIDE DEF Bad
    <3> QED
      BY <3>1, LeastNumber
  <2>2. CASE m = 0
    <3> DEFINE f == [k \in 0..0 |-> t]
    <3>1. IsBestTo(f, t, m)
      BY <2>2 DEF IsBestTo
    <3> HIDE DEF f
    <3>2. Has(m)
      BY <3>1 DEF Has
    <3> QED
      BY <2>1, <3>2
  <2>3. CASE m > 0
    <3>1. m \in Node /\ m \in Nat /\ m - 1 \in 0..Nodes /\ ~(m <= m - 1)
      BY <1>0, <2>1, <2>3 DEF Node
    <3>2. Has(m - 1)
      BY <2>1, <3>1
    <3>3. PICK f : IsBestTo(f, t, m - 1)
      BY <3>2 DEF Has
    <3> DEFINE g == [k \in 0..m |-> IF k = m THEN Improved(f[m - 1], m) ELSE f[k]]
    <3>4. /\ f \in [0..(m - 1) -> Matrix]
          /\ \A k \in 0..(m - 1) : f[k] = IF k = 0 THEN t ELSE Improved(f[k - 1], k)
      BY <3>3 DEF IsBestTo
    <3>5. \A k \in 0..m : /\ k = m \/ k \in 0..(m - 1)
                          /\ k # 0 => k - 1 \in 0..(m - 1) /\ k - 1 # m
      BY <3>1
    <3>6. m - 1 \in 0..(m - 1) /\ m # 0
      BY <3>1, <2>3
    <3>7. Improved(f[m - 1], m) \in Matrix
      BY <3>1, <3>4, <3>6, ImprovedIs
    <3>8. g \in [0..m -> Matrix]
      <4>1. \A k \in 0..m : (IF k = m THEN Improved(f[m - 1], m) ELSE f[k]) \in Matrix
        BY <3>4, <3>5, <3>7
      <4> QED
        BY <4>1
    <3>9. g = [k \in 0..m |-> IF k = 0 THEN t ELSE Improved(g[k - 1], k)]
      <4>1. \A k \in 0..m : k # 0 => g[k - 1] = f[k - 1]
        BY <3>5
      <4>2. \A k \in 0..m :
              (IF k = m THEN Improved(f[m - 1], m) ELSE f[k]) = IF k = 0 THEN t ELSE Improved(g[k - 1], k)
        <5> HIDE DEF g
        <5> QED
          BY <3>4, <3>5, <3>6, <4>1
      <4> QED
        BY <4>2
    <3> HIDE DEF g
    <3>10. IsBestTo(g, t, m)
      BY <3>8, <3>9 DEF IsBestTo
    <3>11. Has(m)
      BY <3>10 DEF Has
    <3> QED
      BY <2>1, <3>11
  <2> QED
    BY <1>0, <2>1, <2>2, <2>3
<1> HIDE DEF Has
<1>2. Has(Nodes)
  BY <1>0, <1>1
<1> QED
  BY <1>2 DEF Has

LEMMA BestIs ==
  ASSUME NEW t \in Matrix
  PROVE  /\ Best(t)[0] = t
         /\ \A k \in Node : /\ k - 1 \in 0..Nodes /\ k - 1 < k /\ Best(t)[k] = Improved(Best(t)[k - 1], k)
         /\ Solution(t) = Best(t)[Nodes]
<1>1. IsBest(Best(t), t)
  <2>1. PICK f : IsBestTo(f, t, Nodes)
    BY BestExists
  <2>2. IsBest(f, t)
    BY <2>1 DEF IsBestTo, IsBest
  <2> QED
    BY <2>2 DEF Best
<1>2. Nodes \in Nat
  BY RouterAssumption
<1>3. 0 \in 0..Nodes /\ \A k \in Node : k \in 0..Nodes /\ k # 0 /\ k - 1 \in 0..Nodes /\ k - 1 < k
  BY <1>2 DEF Node
<1>4. \A k \in 0..Nodes : Best(t)[k] = IF k = 0 THEN t ELSE Improved(Best(t)[k - 1], k)
  BY <1>1 DEF IsBest
<1>5. Solution(t) = Best(t)[Nodes]
  BY DEF Solution, Best, IsBest, Improved
<1> QED
  BY <1>3, <1>4, <1>5

\* No way over one of the first k nodes is shorter.
Shortest(d, k) ==
  /\ d \in Matrix
  /\ \A s \in Node : d[s][s] = 0
  /\ \A s, e \in Node, m \in 1..k : d[s][e] <= d[s][m] + d[m][e]

LEMMA ShortestStep ==
  ASSUME NEW k \in Node, NEW d, Shortest(d, k - 1)
  PROVE  Shortest(Improved(d, k), k)
<1> DEFINE g == Improved(d, k)
<1>1. d \in Matrix /\ Nodes \in Nat /\ k \in Nat
  BY RouterAssumption DEF Shortest, Node
<1>2. /\ g \in Matrix
      /\ \A s, e \in Node :
           /\ d[s][e] \in Nat /\ d[s][k] \in Nat /\ d[k][e] \in Nat
           /\ g[s][e] = IF d[s][k] + d[k][e] < d[s][e] THEN d[s][k] + d[k][e] ELSE d[s][e]
  BY <1>1, ImprovedIs
<1> HIDE DEF g
<1>3. ASSUME NEW s \in Node, NEW e \in Node
      PROVE  g[s][e] \in Nat /\ d[s][e] \in Nat /\ g[s][e] <= d[s][e] /\ g[s][e] <= d[s][k] + d[k][e]
  BY <1>2
<1>4. ASSUME NEW s \in Node PROVE g[s][s] = 0
  <2>1. d[s][s] = 0 /\ d[s][k] \in Nat /\ d[k][s] \in Nat
    BY <1>2 DEF Shortest
  <2> QED
    BY <1>2, <2>1
<1>5. ASSUME NEW s \in Node PROVE g[s][k] = d[s][k] /\ g[k][s] = d[k][s]
  <2>1. d[k][k] = 0 /\ d[s][k] \in Nat /\ d[k][s] \in Nat
    BY <1>2 DEF Shortest
  <2>2. g[s][k] = IF d[s][k] + d[k][k] < d[s][k] THEN d[s][k] + d[k][k] ELSE d[s][k]
    BY <1>2
  <2>3. g[k][s] = IF d[k][k] + d[k][s] < d[k][s] THEN d[k][k] + d[k][s] ELSE d[k][s]
    BY <1>2
  <2> QED
    BY <2>1, <2>2, <2>3
<1>6. ASSUME NEW s \in Node, NEW e \in Node, NEW m \in 1..k PROVE g[s][e] <= g[s][m] + g[m][e]
  <2>0. m \in Node
    BY <1>1 DEF Node
  <2>1. CASE m = k
    BY <1>3, <1>5, <2>1
  <2>2. CASE m # k
    <3>1. m \in 1..(k - 1)
      BY <1>1, <2>2
    <3>2. /\ d[s][e] <= d[s][m] + d[m][e]
          /\ d[k][e] <= d[k][m] + d[m][e]
          /\ d[s][k] <= d[s][m] + d[m][k]
      BY <2>0, <3>1 DEF Shortest
    <3>3. /\ g[s][m] = IF d[s][k] + d[k][m] < d[s][m] THEN d[s][k] + d[k][m] ELSE d[s][m]
          /\ g[m][e] = IF d[m][k] + d[k][e] < d[m][e] THEN d[m][k] + d[k][e] ELSE d[m][e]
          /\ d[s][k] \in Nat /\ d[k][m] \in Nat /\ d[s][m] \in Nat
          /\ d[m][k] \in Nat /\ d[k][e] \in Nat /\ d[m][e] \in Nat
      BY <1>2, <2>0
    <3>4. g[s][e] \in Nat /\ d[s][e] \in Nat /\ g[s][e] <= d[s][e] /\ g[s][e] <= d[s][k] + d[k][e]
      BY <1>3
    <3> QED
      BY <3>2, <3>3, <3>4
  <2> QED
    BY <2>1, <2>2
<1>7. Shortest(g, k)
  BY <1>2, <1>4, <1>6 DEF Shortest
<1> QED
  BY <1>7 DEF g

\* d is nowhere longer than one link and then d.
IsRelaxed(t, d) ==
  /\ d \in Matrix
  /\ \A s \in Node : d[s][s] = 0
  /\ \A s, m, e \in Node : d[s][e] <= t[s][m] + d[m][e]

LEMMA TopologyIs ==
  ASSUME NEW t \in Topologies
  PROVE  /\ t \in Matrix
         /\ \A m, n \in Node : t[m][n] \in Nat /\ t[m][m] = 0 /\ (t[m][n] = Inf <=> t[n][m] = Inf)
BY RouterAssumption DEF Matrix

LEMMA BestAre ==
  ASSUME NEW t \in Topologies, NEW k \in 0..Nodes
  PROVE  /\ Shortest(Best(t)[k], k)
         /\ \A s, e \in Node : Best(t)[k][s][e] <= t[s][e]
<1> DEFINE b == Best(t)
           Good(j) == Shortest(b[j], j) /\ \A s, e \in Node : b[j][s][e] <= t[s][e]
           Bad == {j \in 0..Nodes : ~Good(j)}
<1>0. Nodes \in Nat /\ Inf \in Nat /\ t \in Matrix
  BY RouterAssumption, TopologyIs
<1>1. Bad = {}
  <2> SUFFICES ASSUME Bad # {} PROVE FALSE
    OBVIOUS
  <2> HIDE DEF Good
  <2>1. PICK j \in Bad : \A i \in Bad : j <= i
    <3>1. Bad \in SUBSET Nat
      OBVIOUS
    <3> HIDE DEF Bad
    <3> QED
      BY <3>1, LeastNumber
  <2>2. CASE j = 0
    <3>1. b[j] = t
      BY <1>0, <2>2, BestIs
    <3>2. Shortest(b[j], j)
      BY <1>0, <2>2, <3>1, TopologyIs DEF Shortest
    <3>3. \A s, e \in Node : b[j][s][e] <= t[s][e]
      <4> HIDE DEF b
      <4> QED
        BY <3>1, TopologyIs
    <3> QED
      BY <2>1, <3>2, <3>3 DEF Good
  <2>3. CASE j # 0
    <3>1. j \in Node
      BY <1>0, <2>1, <2>3 DEF Node
    <3>2. j - 1 \in 0..Nodes /\ j - 1 < j /\ b[j] = Improved(b[j - 1], j)
      BY <1>0, <3>1, BestIs
    <3>3. Good(j - 1)
      BY <2>1, <3>1, <3>2 DEF Node
    <3> HIDE DEF b
    <3>4. Shortest(b[j - 1], j - 1) /\ \A s, e \in Node : b[j - 1][s][e] <= t[s][e]
      BY <3>3 DEF Good
    <3>5. Shortest(b[j], j)
      BY <3>1, <3>2, <3>4, ShortestStep
    <3>6. ASSUME NEW s \in Node, NEW e \in Node PROVE b[j][s][e] <= t[s][e]
      <4> DEFINE d == b[j - 1]
      <4>1. d \in Matrix
        BY <3>4 DEF Shortest
      <4>2. /\ d[s][e] \in Nat /\ d[s][j] \in Nat /\ d[j][e] \in Nat
            /\ Improved(d, j)[s][e] = IF d[s][j] + d[j][e] < d[s][e] THEN d[s][j] + d[j][e] ELSE d[s][e]
        <5> HIDE DEF d
        <5> QED
          BY <3>1, <4>1, ImprovedIs
      <4>4. b[j] = Improved(d, j)
        BY <3>2
      <4>3. d[s][e] <= t[s][e] /\ t[s][e] \in Nat
        BY <3>4, TopologyIs
      <4> HIDE DEF d
      <4> QED
        BY <4>2, <4>3, <4>4
    <3> QED
      BY <2>1, <3>5, <3>6 DEF Good
  <2> QED
    BY <2>2, <2>3
<1> HIDE DEF Good, b
<1>2. Good(k)
  BY <1>1
<1> QED
  BY <1>2 DEF Good, b

LEMMA SolutionIs ==
  ASSUME NEW t \in Topologies
  PROVE  /\ IsRelaxed(t, Solution(t))
         /\ \A s, e \in Node : Solution(t)[s][e] <= t[s][e]
<1> DEFINE d == Solution(t)
<1>1. Nodes \in 0..Nodes /\ t \in Matrix
  BY RouterAssumption, TopologyIs
<1>2. d = Best(t)[Nodes]
  BY <1>1, BestIs
<1> HIDE DEF d
<1>3. Shortest(d, Nodes) /\ \A s, e \in Node : d[s][e] <= t[s][e]
  BY <1>1, <1>2, BestAre
<1>4. ASSUME NEW s \in Node, NEW m \in Node, NEW e \in Node PROVE d[s][e] <= t[s][m] + d[m][e]
  <2>1. d[s][e] <= d[s][m] + d[m][e] /\ d[s][m] <= t[s][m]
    BY <1>3 DEF Shortest, Node
  <2>2. d \in Matrix /\ Inf \in Nat /\ t[s][m] \in Nat
    BY <1>3, RouterAssumption, TopologyIs DEF Shortest
  <2>3. d[s][e] \in Nat /\ d[s][m] \in Nat /\ d[m][e] \in Nat
    BY <2>2 DEF Matrix
  <2> QED
    BY <2>1, <2>2, <2>3
<1>5. IsRelaxed(t, d)
  BY <1>3, <1>4 DEF IsRelaxed, Shortest
<1> QED
  BY <1>3, <1>5 DEF d

\* Nothing that a link cannot shorten is longer than the solution.
LEMMA SolutionGreatest ==
  ASSUME NEW t \in Topologies, NEW d, IsRelaxed(t, d), NEW s \in Node, NEW x \in Node
  PROVE  d[s][x] <= Solution(t)[s][x]
<1> DEFINE b == Best(t)
           Good(j) == \A m, e \in Node : d[m][x] <= b[j][m][e] + d[e][x]
           Bad == {j \in 0..Nodes : ~Good(j)}
<1>0. Nodes \in Nat /\ Inf \in Nat /\ t \in Matrix /\ d \in Matrix
  BY RouterAssumption, TopologyIs DEF IsRelaxed
<1>1. \A m \in Node : d[m][x] \in Nat
  BY <1>0 DEF Matrix
<1>2. Bad = {}
  <2> SUFFICES ASSUME Bad # {} PROVE FALSE
    OBVIOUS
  <2> HIDE DEF Good
  <2>1. PICK j \in Bad : \A i \in Bad : j <= i
    <3>1. Bad \in SUBSET Nat
      OBVIOUS
    <3> HIDE DEF Bad
    <3> QED
      BY <3>1, LeastNumber
  <2>2. CASE j = 0
    <3>1. b[j] = t
      BY <1>0, <2>2, BestIs
    <3> HIDE DEF b
    <3>2. Good(j)
      BY <3>1 DEF Good, IsRelaxed
    <3> QED
      BY <2>1, <3>2
  <2>3. CASE j # 0
    <3>1. j \in Node
      BY <1>0, <2>1, <2>3 DEF Node
    <3>2. j - 1 \in 0..Nodes /\ j - 1 < j /\ b[j] = Improved(b[j - 1], j)
      BY <1>0, <3>1, BestIs
    <3>3. Good(j - 1)
      BY <2>1, <3>1, <3>2 DEF Node
    <3>4. Shortest(b[j - 1], j - 1)
      BY <3>2, BestAre
    <3> HIDE DEF b
    <3>5. ASSUME NEW m \in Node, NEW e \in Node PROVE d[m][x] <= b[j][m][e] + d[e][x]
      <4> DEFINE f == b[j - 1]
      <4>1. f \in Matrix
        BY <3>4 DEF Shortest
      <4>2. /\ d[m][x] <= f[m][e] + d[e][x]
            /\ d[m][x] <= f[m][j] + d[j][x]
            /\ d[j][x] <= f[j][e] + d[e][x]
        BY <3>1, <3>3 DEF Good
      <4> HIDE DEF f
      <4>3. /\ f[m][e] \in Nat /\ f[m][j] \in Nat /\ f[j][e] \in Nat
            /\ Improved(f, j)[m][e] = IF f[m][j] + f[j][e] < f[m][e] THEN f[m][j] + f[j][e] ELSE f[m][e]
        BY <3>1, <4>1, ImprovedIs
      <4>5. b[j] = Improved(f, j)
        BY <3>2 DEF f
      <4>4. d[m][x] \in Nat /\ d[j][x] \in Nat /\ d[e][x] \in Nat
        BY <1>1, <3>1
      <4> QED
        BY <4>2, <4>3, <4>4, <4>5
    <3>6. Good(j)
      BY <3>5 DEF Good
    <3> QED
      BY <2>1, <3>6
  <2> QED
    BY <2>2, <2>3
<1>3. Good(Nodes)
  <2> HIDE DEF Good
  <2> QED
    BY <1>0, <1>2
<1>4. d[s][x] <= b[Nodes][s][x] + d[x][x]
  BY <1>3
<1>5. d[x][x] = 0 /\ Solution(t) = b[Nodes]
  BY <1>0, BestIs DEF IsRelaxed
<1>6. Solution(t)[s][x] \in Nat
  BY <1>0, SolutionIs DEF IsRelaxed, Matrix
<1> QED
  BY <1>4, <1>5, <1>6
-----------------------------------------------------------------------------
(* Towards the solution                                                    *)

NextDist(r) == vector[r][NextSlot(r)].dist
CurrDist(r) == vector[r][curr[r]].dist

\* No vector is better than the solution, and a router is at home.
NeverLess ==
  \A r \in Node : \A s \in Slot :
    /\ vector[r][s].dist[r] = 0
    /\ \A i \in Node : Solution(topology)[r][i] <= vector[r][s].dist[i]

Unchanged == \A r \in Node : ~changed[r] => NextDist(r) = CurrDist(r)

Places == \A r \in Node : /\ rpc[r] # "update" => reading[r] = NULL
                          /\ rpc[r] = "send" => pending[r] # {}

\* What r's current vector has to say to n has reached it, or is on its way.
Reached(r, n) ==
  n \notin pending[r] /\ chan[n] # <<(<<r, curr[r]>>)>> /\ reading[n] # <<r, curr[r]>>
Applied(r, n) == \A i \in Node : NextDist(n)[i] <= topology[n][r] + CurrDist(r)[i]
Relaxed == \A r \in Node : \A n \in Neighbors(r) : Reached(r, n) => Applied(r, n)

Descent == NeverLess /\ Unchanged /\ Places /\ Relaxed

\* A round ends with next, that is no better than the solution allows.
Improves(r, better, next) ==
  /\ next \in Vector
  /\ better \in BOOLEAN
  /\ next.epoch = vector[r][NextSlot(r)].epoch /\ next.dist[r] = 0
  /\ \A i \in Node : Solution(topology)[r][i] <= next.dist[i] /\ next.dist[i] <= NextDist(r)[i]
  /\ ~better => ~changed[r] /\ next.dist = NextDist(r)
  /\ better => changed[r] \/ \E i \in Node : next.dist[i] < NextDist(r)[i]

\* The state of the others is not written in a round of r.
Alone(r) ==
  \A q \in Node \ {r} :
    /\ vector'[q] = vector[q] /\ curr'[q] = curr[q]
    /\ pending'[q] = pending[q] /\ changed'[q] = changed[q]
    /\ NextSlot(q)' = NextSlot(q) /\ NextDist(q)' = NextDist(q) /\ CurrDist(q)' = CurrDist(q)

Advances(r, next) ==
  /\ curr'[r] = NextSlot(r) /\ CurrDist(r)' = next.dist
  /\ pending'[r] = Neighbors(r) /\ changed'[r] = FALSE

Stays(r, left, better) ==
  /\ curr'[r] = curr[r] /\ CurrDist(r)' = CurrDist(r)
  /\ pending'[r] = left /\ changed'[r] = better

LEMMA RoundIs ==
  ASSUME RouterTyped, NEW r \in Node, NEW left, left \subseteq pending[r], NEW better \in BOOLEAN,
         NEW next \in Vector, Round(r, left, better, next)
  PROVE  /\ Alone(r)
         /\ NextDist(r)' = next.dist
         /\ \A s \in Slot : vector'[r][s].dist \in {next.dist, vector[r][s].dist}
         /\ IF left = {} /\ better THEN Advances(r, next) ELSE Stays(r, left, better)
<1> DEFINE slot == NextSlot(r)
           fresh == (slot + 1) % Buffers
           newer == [next EXCEPT !.epoch = @ + 1]
<1>1. /\ vector \in [Node -> [Slot -> Vector]] /\ curr \in [Node -> Slot]
      /\ pending \in [Node -> SUBSET Node] /\ changed \in [Node -> BOOLEAN]
  BY DEF RouterTyped
<1>2. slot \in Slot /\ fresh \in Slot /\ curr[r] \in Slot /\ slot # curr[r] /\ slot # fresh
  BY <1>1, SlotsBehind DEF Slot, Buffers
<1>3. newer.dist = next.dist
  BY DEF Vector
<1>4. fresh = (slot + 1) % Buffers
  OBVIOUS
<1> HIDE DEF slot, fresh, newer
<1>5. CASE left = {} /\ better
  <2>1. /\ curr' = [curr EXCEPT ![r] = slot]
        /\ vector' = [vector EXCEPT ![r][slot] = next, ![r][fresh] = newer]
        /\ pending' = [pending EXCEPT ![r] = Neighbors(r)]
        /\ changed' = [changed EXCEPT ![r] = FALSE]
    BY <1>5 DEF Round, slot, fresh, newer
  <2>2. /\ vector'[r][slot] = next /\ vector'[r][fresh] = newer
        /\ \A s \in Slot : s # slot /\ s # fresh => vector'[r][s] = vector[r][s]
        /\ \A q \in Node \ {r} : vector'[q] = vector[q]
    BY <1>1, <1>2, <2>1
  <2>3. /\ curr'[r] = slot /\ \A q \in Node \ {r} : curr'[q] = curr[q]
        /\ pending'[r] = Neighbors(r) /\ \A q \in Node \ {r} : pending'[q] = pending[q]
        /\ changed'[r] = FALSE /\ \A q \in Node \ {r} : changed'[q] = changed[q]
    BY <1>1, <2>1
  <2>4. NextSlot(r)' = fresh /\ \A q \in Node \ {r} : NextSlot(q)' = NextSlot(q)
    BY <1>4, <2>3 DEF NextSlot
  <2>5. NextDist(r)' = next.dist /\ CurrDist(r)' = next.dist
    BY <1>3, <2>2, <2>3, <2>4 DEF NextDist, CurrDist
  <2>6. \A s \in Slot : vector'[r][s].dist \in {next.dist, vector[r][s].dist}
    BY <1>3, <2>2
  <2>7. Advances(r, next)
    BY <2>3, <2>5 DEF Advances, slot
  <2>8. Alone(r)
    BY <2>2, <2>3, <2>4 DEF Alone, NextDist, CurrDist
  <2> QED
    BY <1>5, <2>5, <2>6, <2>7, <2>8
<1>6. CASE ~(left = {} /\ better)
  <2>1. /\ curr' = curr
        /\ vector' = [vector EXCEPT ![r][slot] = next]
        /\ pending' = [pending EXCEPT ![r] = left]
        /\ changed' = [changed EXCEPT ![r] = better]
    BY <1>6 DEF Round, slot
  <2>2. /\ vector'[r][slot] = next
        /\ \A s \in Slot : s # slot => vector'[r][s] = vector[r][s]
        /\ \A q \in Node \ {r} : vector'[q] = vector[q]
    BY <1>1, <1>2, <2>1
  <2>3. /\ curr' = curr
        /\ pending'[r] = left /\ \A q \in Node \ {r} : pending'[q] = pending[q]
        /\ changed'[r] = better /\ \A q \in Node \ {r} : changed'[q] = changed[q]
    BY <1>1, <2>1
  <2>4. NextSlot(r)' = slot /\ \A q \in Node \ {r} : NextSlot(q)' = NextSlot(q)
    BY <2>3 DEF NextSlot, slot
  <2>5. NextDist(r)' = next.dist /\ CurrDist(r)' = CurrDist(r)
    BY <1>2, <2>2, <2>3, <2>4 DEF NextDist, CurrDist
  <2>6. \A s \in Slot : vector'[r][s].dist \in {next.dist, vector[r][s].dist}
    BY <2>2
  <2>7. Stays(r, left, better)
    BY <2>3, <2>5 DEF Stays
  <2>8. Alone(r)
    BY <2>2, <2>3, <2>4 DEF Alone, NextDist, CurrDist
  <2> QED
    BY <1>6, <2>5, <2>6, <2>7, <2>8
<1> QED
  BY <1>5, <1>6

LEMMA ImprovesTypes ==
  ASSUME NEW r, NEW better, NEW next, Improves(r, better, next)
  PROVE  next \in Vector /\ better \in BOOLEAN
BY DEF Improves

\* A router's vectors after a round are no better than the solution.
LEMMA RoundNeverLess ==
  ASSUME RouterTyped, NeverLess, NEW r \in Node, NEW left, left \subseteq pending[r], NEW better,
         NEW next, Improves(r, better, next), Round(r, left, better, next), UNCHANGED topology
  PROVE  NeverLess'
<1>1. /\ Alone(r) /\ \A s \in Slot : vector'[r][s].dist \in {next.dist, vector[r][s].dist}
  BY ImprovesTypes, RoundIs
<1> DEFINE d == Solution(topology)
<1>2. Solution(topology)' = d
  OBVIOUS
<1> HIDE DEF d
<1>3. \A q \in Node : \A s \in Slot :
        vector[q][s].dist[q] = 0 /\ \A i \in Node : d[q][i] <= vector[q][s].dist[i]
  BY DEF NeverLess, d
<1>4. next.dist[r] = 0 /\ \A i \in Node : d[r][i] <= next.dist[i]
  BY DEF Improves, d
<1>5. \A q \in Node \ {r} : vector'[q] = vector[q]
  BY <1>1 DEF Alone
<1>6. \A q \in Node : \A s \in Slot :
        vector'[q][s].dist[q] = 0 /\ \A i \in Node : d[q][i] <= vector'[q][s].dist[i]
  BY <1>1, <1>3, <1>4, <1>5
<1> QED
  BY <1>2, <1>6 DEF NeverLess

LEMMA RoundUnchanged ==
  ASSUME RouterTyped, Unchanged, NEW r \in Node, NEW left, left \subseteq pending[r], NEW better,
         NEW next, Improves(r, better, next), Round(r, left, better, next)
  PROVE  Unchanged'
<1>1. /\ Alone(r) /\ NextDist(r)' = next.dist
      /\ IF left = {} /\ better THEN Advances(r, next) ELSE Stays(r, left, better)
  BY ImprovesTypes, RoundIs
<1>2. ASSUME NEW q \in Node, ~changed'[q] PROVE NextDist(q)' = CurrDist(q)'
  <2>1. CASE q # r
    BY <1>1, <1>2, <2>1 DEF Alone, Unchanged
  <2>2. CASE q = r /\ left = {} /\ better
    BY <1>1, <2>2 DEF Advances
  <2>3. CASE q = r /\ ~(left = {} /\ better)
    BY <1>1, <1>2, <2>3 DEF Stays, Improves, Unchanged
  <2> QED
    BY <2>1, <2>2, <2>3
<1> QED
  BY <1>2 DEF Unchanged

-----------------------------------------------------------------------------
\* What SendTo and Reply write is what was there.
LEMMA SameImproves ==
  ASSUME RouterTyped, NeverLess, Unchanged, NEW r \in Node
  PROVE  Improves(r, changed[r], vector[r][NextSlot(r)])
<1>1. /\ vector \in [Node -> [Slot -> Vector]] /\ NextSlot(r) \in Slot /\ changed[r] \in BOOLEAN
  BY SlotsBehind DEF RouterTyped
<1>2. vector[r][NextSlot(r)] \in Vector /\ NextDist(r) \in [Node -> 0..Inf] /\ Inf \in Nat
  BY <1>1, RouterAssumption DEF NextDist, Vector
<1>3. \A i \in Node : NextDist(r)[i] <= NextDist(r)[i]
  BY <1>2
<1>4. NextDist(r)[r] = 0 /\ \A i \in Node : Solution(topology)[r][i] <= NextDist(r)[i]
  BY <1>1 DEF NeverLess, NextDist
<1> QED
  BY <1>1, <1>2, <1>3, <1>4 DEF Improves, NextDist

\* What Update makes of a vector, read over a link.
Relaxes(r, better, next) ==
  LET src == reading[r][1]
  IN  \A i \in Node : next.dist[i] <= topology[r][src] + vector[src][reading[r][2]].dist[i]

Takes(r, next) ==
  LET src == reading[r][1]
  IN  /\ src \in Node /\ reading[r][2] \in Slot
      /\ \A i \in Node :
           \/ next.dist[i] = NextDist(r)[i]
           \/ /\ next.dist[i] = topology[r][src] + vector[src][reading[r][2]].dist[i]
              /\ next.dist[i] < NextDist(r)[i]

LEMMA UpdateImproves ==
  ASSUME RouterInv, NeverLess, Unchanged, NEW r \in Node, Update(r)
  PROVE  \E better, next :
           /\ Round(r, pending[r], better, next)
           /\ Improves(r, better, next) /\ Relaxes(r, better, next) /\ Takes(r, next)
<1> DEFINE src == reading[r][1]
           theirs == vector[src][reading[r][2]].dist
           mine == vector[r][NextSlot(r)]
           Via(i) == topology[r][src] + theirs[i]
           better == {i \in Node : Via(i) < mine.dist[i]}
           dist == [i \in Node |-> IF i \in better THEN Via(i) ELSE mine.dist[i]]
           next == [mine EXCEPT !.dist = [i \in Node |-> IF i \in better THEN Via(i) ELSE @[i]]]
           news == changed[r] \/ better # {}
<1>1. /\ Round(r, pending[r], news, next) /\ rpc[r] = "update"
      /\ changed[r] \in BOOLEAN
  BY ZenonT(60) DEF Update, RouterInv, RouterTyped
<1>2. /\ src \in Node /\ reading[r][2] \in Slot /\ topology[r][src] \in Nat
      /\ vector \in [Node -> [Slot -> Vector]] /\ NextSlot(r) \in Slot /\ Inf \in Nat
      /\ topology \in Topologies
  BY <1>1, UpdateReads, SlotsBehind, RouterAssumption DEF RouterInv, RouterTyped
<1>3. theirs \in [Node -> 0..Inf] /\ mine \in Vector /\ mine.dist \in [Node -> 0..Inf]
  BY <1>2 DEF Vector
<1>4. next = [mine EXCEPT !.dist = dist]
  OBVIOUS
<1>5. mine.dist = NextDist(r)
  BY DEF NextDist
<1>6. \A i \in Node : /\ Solution(topology)[src][i] <= theirs[i]
                      /\ Solution(topology)[r][i] <= mine.dist[i]
  BY <1>2 DEF NeverLess
<1>7. /\ Solution(topology) \in Matrix /\ mine.dist[r] = 0
      /\ \A i \in Node : Solution(topology)[r][i] <= topology[r][src] + Solution(topology)[src][i]
  BY <1>2, SolutionIs DEF IsRelaxed, NeverLess
<1>8. ASSUME NEW i \in Node
      PROVE  /\ dist[i] \in 0..Inf
             /\ dist[i] <= topology[r][src] + theirs[i]
             /\ dist[i] <= mine.dist[i]
             /\ Solution(topology)[r][i] <= dist[i]
             /\ better = {} => dist[i] = mine.dist[i]
             /\ i \in better => dist[i] < mine.dist[i]
             /\ \/ dist[i] = mine.dist[i]
                \/ dist[i] = topology[r][src] + theirs[i] /\ dist[i] < mine.dist[i]
  <2> DEFINE d == Solution(topology)
  <2>1. d[r][i] \in Nat /\ d[src][i] \in Nat /\ theirs[i] \in Nat /\ mine.dist[i] \in 0..Inf
    BY <1>2, <1>3, <1>7 DEF Matrix
  <2>2. d[src][i] <= theirs[i] /\ d[r][i] <= mine.dist[i] /\ d[r][i] <= topology[r][src] + d[src][i]
    BY <1>6, <1>7
  <2>3. i \in better <=> topology[r][src] + theirs[i] < mine.dist[i]
    OBVIOUS
  <2>4. dist[i] = IF i \in better THEN topology[r][src] + theirs[i] ELSE mine.dist[i]
    OBVIOUS
  <2>5. topology[r][src] \in Nat /\ Inf \in Nat
    BY <1>2
  <2>6. better = {} => i \notin better
    OBVIOUS
  <2> HIDE DEF d, better, dist, theirs, mine, src
  <2>7. /\ dist[i] \in 0..Inf
        /\ dist[i] <= topology[r][src] + theirs[i]
        /\ dist[i] <= mine.dist[i]
        /\ d[r][i] <= dist[i]
        /\ i \in better => dist[i] < mine.dist[i]
        /\ \/ dist[i] = mine.dist[i]
           \/ dist[i] = topology[r][src] + theirs[i] /\ dist[i] < mine.dist[i]
    BY <2>1, <2>2, <2>3, <2>4, <2>5
  <2> QED
    BY <2>4, <2>6, <2>7 DEF d
<1>9. dist = [i \in Node |-> dist[i]]
  OBVIOUS
<1>10. dist \in [Node -> 0..Inf]
  <2> HIDE DEF dist
  <2> QED
    BY <1>8, <1>9
<1>11. dist[r] = 0
  <2> HIDE DEF dist, mine
  <2>1. dist[r] \in 0..Inf /\ dist[r] <= mine.dist[r]
    BY <1>8
  <2> QED
    BY <1>2, <1>7, <2>1
<1>12. next \in Vector /\ next.dist = dist /\ next.epoch = mine.epoch
  <2> HIDE DEF next, mine, dist
  <2> QED
    BY SMTT(40), <1>3, <1>4, <1>10 DEF Vector
<1>13. better = {} => dist = mine.dist
  <2> HIDE DEF better, dist, mine
  <2>1. mine.dist = [i \in Node |-> mine.dist[i]]
    BY <1>3
  <2> QED
    BY <1>8, <1>9, <2>1
<1>16. better \subseteq Node
  OBVIOUS
<1> HIDE DEF next, dist, better, mine
<1>14. Improves(r, news, next)
  <2>1. next.epoch = vector[r][NextSlot(r)].epoch
    BY <1>12 DEF mine
  <2>2. better # {} => \E i \in Node : next.dist[i] < NextDist(r)[i]
    BY <1>5, <1>8, <1>12, <1>16
  <2> QED
    BY <1>1, <1>5, <1>8, <1>11, <1>12, <1>13, <2>1, <2>2 DEF Improves
<1>15. Relaxes(r, news, next)
  BY <1>8, <1>12 DEF Relaxes
<1>17. Takes(r, next)
  BY <1>2, <1>5, <1>8, <1>12 DEF Takes
<1> HIDE DEF news
<1> QED
  BY <1>1, <1>14, <1>15, <1>17

\* What a round of r leaves in the channels and in the hands of the readers.
Delivers(r, left, better, next) ==
  /\ \A n \in Neighbors(r) :
       n \notin left /\ chan'[n] # <<(<<r, curr[r]>>)>> => n \notin pending[r] /\ chan'[n] = chan[n]
  /\ \A q \in Node \ {r} : \A n \in Node :
       chan[n] = <<(<<q, curr[q]>>)>> => chan'[n] = <<(<<q, curr[q]>>)>>
  /\ \A n \in Node \ {r} : reading'[n] = reading[n]
  /\ reading'[r] = reading[r] \/ Relaxes(r, better, next)

LEMMA DistTypes ==
  ASSUME RouterTyped, NEW r \in Node
  PROVE  /\ NextDist(r) \in [Node -> 0..Inf] /\ CurrDist(r) \in [Node -> 0..Inf]
         /\ \A i \in Node : NextDist(r)[i] \in Nat /\ CurrDist(r)[i] \in Nat
         /\ \A n \in Node : topology[r][n] \in Nat /\ topology[r][r] = 0
<1>1. /\ topology \in Topologies /\ vector \in [Node -> [Slot -> Vector]]
      /\ NextSlot(r) \in Slot /\ curr[r] \in Slot /\ Inf \in Nat
  BY SlotsBehind, RouterAssumption DEF RouterTyped
<1>2. NextDist(r) \in [Node -> 0..Inf] /\ CurrDist(r) \in [Node -> 0..Inf]
  BY <1>1 DEF NextDist, CurrDist, Vector
<1>3. \A i \in Node : NextDist(r)[i] \in Nat /\ CurrDist(r)[i] \in Nat
  BY <1>1, <1>2
<1>4. \A n \in Node : topology[r][n] \in Nat /\ topology[r][r] = 0
  BY <1>1, TopologyIs
<1> QED
  BY <1>2, <1>3, <1>4

LEMMA NotEmpty ==
  ASSUME NEW q, NEW s
  PROVE  /\ NULL # <<q, s>> /\ <<>> # <<(<<q, s>>)>> /\ <<NULL>> # <<(<<q, s>>)>>
BY DEF NULL

LEMMA RoundRelaxed ==
  ASSUME RouterTyped, Relaxed, NEW r \in Node, NEW left, left \subseteq pending[r],
         NEW better, NEW next, Improves(r, better, next), Round(r, left, better, next),
         UNCHANGED topology, Delivers(r, left, better, next)
  PROVE  Relaxed'
<1>1. /\ Alone(r) /\ NextDist(r)' = next.dist
      /\ IF left = {} /\ better THEN Advances(r, next) ELSE Stays(r, left, better)
  BY ImprovesTypes, RoundIs
<1>2. \A i \in Node : next.dist[i] \in Nat /\ next.dist[i] <= NextDist(r)[i]
  BY RouterAssumption DEF Improves, Vector
<1>3. ASSUME NEW q \in Node, NEW n \in Neighbors(q), Reached(q, n)', NEW i \in Node
      PROVE  NextDist(n)'[i] <= topology[n][q] + CurrDist(q)'[i]
  <2>0. /\ n \in Node /\ n # q /\ NextDist(n)[i] \in Nat /\ CurrDist(q)[i] \in Nat
        /\ topology[n][q] \in Nat
    BY DistTypes DEF Neighbors
  <2>1. n \notin pending'[q] /\ chan'[n] # <<(<<q, curr'[q]>>)>> /\ reading'[n] # <<q, curr'[q]>>
    BY <1>3 DEF Reached
  <2>2. CASE q = r
    <3>1. Stays(r, left, better)
      BY <1>1, <1>3, <2>1, <2>2 DEF Advances
    <3>2. n \notin left /\ curr'[r] = curr[r] /\ CurrDist(q)' = CurrDist(q)
      BY <2>1, <2>2, <3>1 DEF Stays
    <3>3. NextDist(n)' = NextDist(n)
      BY <1>1, <2>0, <2>2 DEF Alone
    <3>4. Reached(q, n)
      BY <1>3, <2>0, <2>1, <2>2, <3>2 DEF Delivers, Reached
    <3> QED
      BY <3>2, <3>3, <3>4 DEF Relaxed, Applied
  <2>3. CASE q # r
    <3>1. curr'[q] = curr[q] /\ pending'[q] = pending[q] /\ CurrDist(q)' = CurrDist(q)
      BY <1>1, <2>3 DEF Alone
    <3>2. NextDist(n)'[i] <= NextDist(n)[i] /\ NextDist(n)'[i] \in Nat
      <4>1. CASE n = r
        BY <1>1, <1>2, <4>1
      <4>2. CASE n # r
        <5>1. NextDist(n)' = NextDist(n)
          BY <1>1, <2>0, <4>2 DEF Alone
        <5> QED
          BY <2>0, <5>1
      <4> QED
        BY <4>1, <4>2
    <3>3. n \notin pending[q] /\ chan[n] # <<(<<q, curr[q]>>)>>
      BY <2>0, <2>1, <2>3, <3>1 DEF Delivers
    <3>4. CASE reading[n] # <<q, curr[q]>>
      <4>1. NextDist(n)[i] <= topology[n][q] + CurrDist(q)[i]
        BY <3>3, <3>4 DEF Reached, Relaxed, Applied
      <4> QED
        BY <2>0, <3>1, <3>2, <4>1
    <3>5. CASE reading[n] = <<q, curr[q]>>
      <4>1. n = r /\ Relaxes(r, better, next)
        BY <2>0, <2>1, <3>1, <3>5 DEF Delivers
      <4>2. next.dist[i] <= topology[r][q] + vector[q][curr[q]].dist[i]
        BY <3>5, <4>1 DEF Relaxes
      <4> QED
        BY <1>1, <3>1, <4>1, <4>2 DEF CurrDist
    <3> QED
      BY <3>4, <3>5
  <2> QED
    BY <2>2, <2>3
<1>4. \A q \in Node : Neighbors(q)' = Neighbors(q)
  BY DEF Neighbors
<1> QED
  BY <1>3, <1>4 DEF Relaxed, Applied

\* A step that writes no vector, and after which what was under way still is.
LEMMA SameDescent ==
  ASSUME NeverLess, Unchanged, Relaxed, UNCHANGED <<topology, vector, curr, pending, changed>>,
         \A q, n \in Node :
           /\ chan[n] = <<(<<q, curr[q]>>)>> =>
                chan'[n] = <<(<<q, curr[q]>>)>> \/ reading'[n] = <<q, curr[q]>>
           /\ reading[n] = <<q, curr[q]>> => reading'[n] = <<q, curr[q]>>
  PROVE  NeverLess' /\ Unchanged' /\ Relaxed'
<1>1. \A q \in Node : /\ NextDist(q)' = NextDist(q) /\ CurrDist(q)' = CurrDist(q)
                      /\ Neighbors(q)' = Neighbors(q) /\ Neighbors(q) \subseteq Node
  BY DEF NextDist, CurrDist, NextSlot, Neighbors
<1>2. NeverLess'
  <2>1. Solution(topology)' = Solution(topology)
    OBVIOUS
  <2> QED
    BY <2>1 DEF NeverLess
<1>3. Unchanged'
  BY <1>1 DEF Unchanged
<1>4. ASSUME NEW q \in Node, NEW n \in Neighbors(q), Reached(q, n)' PROVE Applied(q, n)'
  <2>1. Reached(q, n)
    BY <1>1, <1>4 DEF Reached
  <2>2. Applied(q, n)
    BY <2>1 DEF Relaxed
  <2> QED
    BY <1>1, <2>2 DEF Applied
<1>5. Relaxed'
  BY <1>1, <1>4 DEF Relaxed
<1> QED
  BY <1>2, <1>3, <1>5

LEMMA RouterStepDescent ==
  ASSUME RouterInv, Descent, NEW r \in Node, RouterStep(r)
  PROVE  NeverLess' /\ Unchanged' /\ Relaxed'
<1>0. RouterTyped /\ NeverLess /\ Unchanged /\ Places /\ Relaxed
  BY DEF RouterInv, Descent
<1>1. CASE Pass(r) \/ Nothing(r) \/ Exit(r)
  <2>1. UNCHANGED <<topology, vector, curr, pending, changed, chan, reading>>
    BY <1>1 DEF Pass, Nothing, Exit
  <2> QED
    BY <1>0, <2>1, SameDescent
<1>2. ASSUME NEW m \in Node, SendTo(r, m)
      PROVE  NeverLess' /\ Unchanged' /\ Relaxed'
  <2> DEFINE left == pending[r] \ {m}
             next == vector[r][NextSlot(r)]
  <2>1. /\ m \in pending[r] /\ chan[m] = <<>> /\ chan' = [chan EXCEPT ![m] = <<(<<r, curr[r]>>)>>]
        /\ Round(r, left, changed[r], next)
        /\ UNCHANGED <<topology, reading>> /\ DOMAIN chan = Node
        /\ left \subseteq pending[r] /\ \A n : n \notin left => n = m \/ n \notin pending[r]
    BY <1>0, <1>2 DEF SendTo, RouterTyped
  <2>2. Improves(r, changed[r], next)
    BY <1>0, SameImproves
  <2> HIDE DEF left, next
  <2>3. Delivers(r, left, changed[r], next)
    <3>1. \A n \in Neighbors(r) :
            n \notin left /\ chan'[n] # <<(<<r, curr[r]>>)>> => n \notin pending[r] /\ chan'[n] = chan[n]
      BY <2>1 DEF Neighbors
    <3>2. \A q \in Node \ {r} : \A n \in Node :
            chan[n] = <<(<<q, curr[q]>>)>> => chan'[n] = <<(<<q, curr[q]>>)>>
      BY <2>1
    <3> QED
      BY <2>1, <3>1, <3>2 DEF Delivers
  <2> QED
    BY <1>0, <2>1, <2>2, <2>3, RoundNeverLess, RoundUnchanged, RoundRelaxed
<1>3. CASE Receive(r)
  <2>1. PICK p \in Pointer \cup {NULL} : chan[r] = <<p>>
    BY <1>3, FlowTypes DEF RouterInv, Receive
  <2>2. /\ chan' = [chan EXCEPT ![r] = <<>>] /\ reading' = [reading EXCEPT ![r] = p]
        /\ UNCHANGED <<topology, vector, curr, pending, changed>> /\ rpc[r] = "select"
        /\ DOMAIN chan = Node /\ DOMAIN reading = Node
    BY <1>0, <1>3, <2>1, NotNull DEF Receive, RouterTyped
  <2>3. reading[r] = NULL
    BY <1>0, <2>2 DEF Places
  <2>4. ASSUME NEW q \in Node, NEW n \in Node
        PROVE  /\ chan[n] = <<(<<q, curr[q]>>)>> =>
                    chan'[n] = <<(<<q, curr[q]>>)>> \/ reading'[n] = <<q, curr[q]>>
               /\ reading[n] = <<q, curr[q]>> => reading'[n] = <<q, curr[q]>>
    <3>1. CASE n # r
      BY <2>2, <3>1
    <3>2. CASE n = r
      BY <2>1, <2>2, <2>3, <3>2, NotNull DEF NULL
    <3> QED
      BY <3>1, <3>2
  <2> QED
    BY <1>0, <2>2, <2>4, SameDescent
<1>4. CASE Update(r)
  <2>1. PICK better, next : /\ Round(r, pending[r], better, next)
                            /\ Improves(r, better, next) /\ Relaxes(r, better, next)
    BY <1>0, <1>4, UpdateImproves
  <2>2. UNCHANGED <<topology, chan>> /\ reading' = [reading EXCEPT ![r] = NULL]
    BY ZenonT(60), <1>4 DEF Update
  <2>3. Delivers(r, pending[r], better, next)
    BY <1>0, <2>1, <2>2 DEF Delivers, RouterTyped
  <2> QED
    BY <1>0, <2>1, <2>2, <2>3, RoundNeverLess, RoundUnchanged, RoundRelaxed
<1>5. CASE Reply(r)
  <2> DEFINE next == vector[r][NextSlot(r)]
  <2>1. Round(r, pending[r], changed[r], next) /\ UNCHANGED <<topology, chan, reading>>
    BY <1>5 DEF Reply
  <2>2. Improves(r, changed[r], next)
    BY <1>0, SameImproves
  <2> HIDE DEF next
  <2>3. Delivers(r, pending[r], changed[r], next)
    BY <1>0, <2>1 DEF Delivers
  <2> QED
    BY <1>0, <2>1, <2>2, <2>3, RoundNeverLess, RoundUnchanged, RoundRelaxed
<1> QED
  BY <1>1, <1>2, <1>3, <1>4, <1>5 DEF RouterStep

LEMMA MainStepDescent ==
  ASSUME RouterInv, Descent, MainStep
  PROVE  NeverLess' /\ Unchanged' /\ Relaxed'
<1>1. UNCHANGED <<topology, vector, curr, pending, changed, reading>>
  BY DEF MainStep, Ask, Hear, Check, Sleep, Join, routerVars
<1>2. NeverLess /\ Unchanged /\ Relaxed /\ DOMAIN chan = Node
  BY DEF Descent, RouterInv, RouterTyped
<1>3. \A q, n \in Node : chan[n] = <<(<<q, curr[q]>>)>> => chan'[n] = <<(<<q, curr[q]>>)>>
  <2>1. CASE Ask
    <3>1. chan[count] = <<>> /\ chan' = [chan EXCEPT ![count] = <<NULL>>]
      BY <2>1 DEF Ask
    <3> QED
      BY <1>2, <3>1, NotEmpty
  <2>2. CASE Hear \/ Check \/ Sleep \/ Join
    BY <2>2 DEF Hear, Check, Sleep, Join
  <2> QED
    BY <2>1, <2>2 DEF MainStep
<1> QED
  BY <1>1, <1>2, <1>3, SameDescent

LEMMA StepPlaces ==
  ASSUME RouterInv, Places, [Next]_vars
  PROVE  Places'
<1>0. /\ rpc \in [Node -> {"select", "send", "update", "reply", "exit", "assert"}]
      /\ DOMAIN reading = Node
      /\ \A q \in Node : (rpc[q] # "update" => reading[q] = NULL) /\ (rpc[q] = "send" => pending[q] # {})
  BY DEF RouterInv, RouterTyped, Places
<1>1. ASSUME NEW r \in Node, RouterStep(r)
      PROVE  Places'
  <2>1. \A q \in Node \ {r} : rpc'[q] = rpc[q] /\ reading'[q] = reading[q] /\ pending'[q] = pending[q]
    <3>1. CASE Pass(r) \/ Nothing(r) \/ Exit(r) \/ Receive(r)
      BY <1>0, <3>1 DEF Pass, Nothing, Exit, Receive
    <3>2. ASSUME NEW left, NEW better, NEW next, Round(r, left, better, next)
          PROVE  \A q \in Node \ {r} : pending'[q] = pending[q]
      BY <3>2 DEF Round, RouterInv, RouterTyped
    <3>3. ASSUME NEW n \in Node, SendTo(r, n)
          PROVE  \A q \in Node \ {r} : rpc'[q] = rpc[q] /\ reading'[q] = reading[q] /\ pending'[q] = pending[q]
      BY SMTT(40), <1>0, <3>2, <3>3 DEF SendTo
    <3>4. CASE Update(r)
      <4>1. PICK left, better, next : Round(r, left, better, next)
        BY ZenonT(60), <3>4 DEF Update
      <4> QED
        BY <1>0, <3>2, <3>4, <4>1 DEF Update
    <3>5. CASE Reply(r)
      BY <1>0, <3>2, <3>5 DEF Reply
    <3> QED
      BY <1>1, <3>1, <3>3, <3>4, <3>5 DEF RouterStep
  <2>2. (rpc'[r] # "update" => reading'[r] = NULL) /\ (rpc'[r] = "send" => pending'[r] # {})
    <3>1. CASE Pass(r) \/ Nothing(r) \/ Exit(r)
      BY <1>0, <3>1 DEF Pass, Nothing, Exit
    <3>2. CASE Receive(r)
      BY SMTT(30), <1>0, <3>2 DEF Receive
    <3>3. ASSUME NEW n \in Node, SendTo(r, n)
          PROVE  (rpc'[r] # "update" => reading'[r] = NULL) /\ (rpc'[r] = "send" => pending'[r] # {})
      BY SMTT(40), <1>0, <3>3 DEF SendTo
    <3>4. CASE Update(r)
      BY <1>0, <3>4 DEF Update
    <3>5. CASE Reply(r)
      BY <1>0, <3>5 DEF Reply
    <3> QED
      BY <1>1, <3>1, <3>2, <3>3, <3>4, <3>5 DEF RouterStep
  <2> QED
    BY <1>0, <2>1, <2>2 DEF Places
<1>2. CASE MainStep \/ UNCHANGED vars
  <2>1. UNCHANGED <<rpc, reading, pending>>
    BY <1>2 DEF MainStep, Ask, Hear, Check, Sleep, Join, vars, routerVars
  <2> QED
    BY <1>0, <2>1 DEF Places
<1> QED
  BY <1>1, <1>2 DEF Next

LEMMA StepDescent ==
  ASSUME RouterInv, Descent, [Next]_vars
  PROVE  Descent'
<1>1. Places'
  BY StepPlaces DEF Descent
<1>2. CASE UNCHANGED vars
  <2>1. UNCHANGED <<topology, vector, curr, pending, changed, reading, chan>>
    BY <1>2 DEF vars, routerVars
  <2>2. NeverLess' /\ Unchanged' /\ Relaxed'
    BY <2>1, SameDescent DEF Descent
  <2> QED
    BY <1>1, <2>2 DEF Descent
<1>3. ASSUME NEW r \in Node, RouterStep(r) PROVE Descent'
  BY <1>1, <1>3, RouterStepDescent DEF Descent
<1>4. CASE MainStep
  BY <1>1, <1>4, MainStepDescent DEF Descent
<1> QED
  BY <1>2, <1>3, <1>4 DEF Next

LEMMA StartDescent ==
  ASSUME Init
  PROVE  Descent
<1>1. /\ topology \in Topologies
      /\ \A r \in Node : \A s \in Slot : vector[r][s].dist = topology[r]
      /\ \A r \in Node : curr[r] \in Slot /\ NextSlot(r) \in Slot
      /\ \A r \in Node : pending[r] = Neighbors(r)
      /\ \A r \in Node : rpc[r] = "select" /\ reading[r] = NULL
  BY DEF Init, Slot, NextSlot, Buffers
<1>2. NeverLess
  BY <1>1, SolutionIs, TopologyIs DEF NeverLess
<1>3. Unchanged
  BY <1>1 DEF Unchanged, NextDist, CurrDist
<1>4. Places
  BY <1>1 DEF Places
<1>5. Relaxed
  BY <1>1 DEF Relaxed, Reached
<1> QED
  BY <1>2, <1>3, <1>4, <1>5 DEF Descent

\* When nothing is left to send, to read or to broadcast, every vector is the solution.
QuietIsSolved == Quiet => \A r \in Node : CurrDist(r) = Solution(topology)[r]

LEMMA DescentSolves ==
  ASSUME RouterInv, Descent
  PROVE  QuietIsSolved
<1> SUFFICES ASSUME Quiet PROVE \A r \in Node : CurrDist(r) = Solution(topology)[r]
  BY DEF QuietIsSolved
<1>0. RouterTyped /\ topology \in Topologies /\ Inf \in Nat
  BY RouterAssumption DEF RouterInv, RouterTyped
<1> DEFINE d == [r \in Node |-> CurrDist(r)]
           sol == Solution(topology)
<1>1. d \in Matrix
  BY <1>0, DistTypes DEF Matrix
<1>2. \A r \in Node : /\ NextDist(r) = CurrDist(r) /\ pending[r] = {} /\ chan[r] = <<>>
                      /\ reading[r] = NULL
  BY <1>0 DEF Quiet, Descent, Unchanged, Places
<1>3. \A r \in Node : \A n \in Neighbors(r) : Applied(r, n)
  <2> SUFFICES ASSUME NEW r \in Node, NEW n \in Neighbors(r) PROVE Applied(r, n)
    OBVIOUS
  <2>1. n \in Node
    BY DEF Neighbors
  <2>2. Reached(r, n)
    BY <1>2, <2>1, NotEmpty DEF Reached
  <2> QED
    BY <2>2 DEF Descent, Relaxed
<1>4. \A s \in Node : d[s][s] = 0
  <2> SUFFICES ASSUME NEW s \in Node PROVE CurrDist(s)[s] = 0
    OBVIOUS
  <2>1. curr[s] \in Slot
    BY <1>0 DEF RouterTyped
  <2> QED
    BY <2>1 DEF CurrDist, Descent, NeverLess
<1>5. ASSUME NEW s \in Node, NEW m \in Node, NEW e \in Node
      PROVE  d[s][e] <= topology[s][m] + d[m][e]
  <2>1. CurrDist(s)[e] \in 0..Inf /\ CurrDist(m)[e] \in Nat /\ topology[s][m] \in Nat
    BY <1>0, DistTypes
  <2>2. CASE s = m
    <3>1. topology[s][m] = 0
      BY <1>0, <2>2, DistTypes
    <3> QED
      BY <2>1, <2>2, <3>1
  <2>3. CASE topology[s][m] = Inf
    BY <1>0, <2>1, <2>3
  <2>4. CASE s # m /\ topology[s][m] # Inf
    <3>1. s \in Neighbors(m)
      BY <1>0, <2>4, TopologyIs DEF Neighbors
    <3>2. NextDist(s)[e] <= topology[s][m] + CurrDist(m)[e]
      BY <1>3, <3>1 DEF Applied
    <3> QED
      BY <1>2, <3>2
  <2> QED
    BY <2>2, <2>3, <2>4
<1>6. IsRelaxed(topology, d)
  BY <1>1, <1>4, <1>5 DEF IsRelaxed
<1>7. sol \in Matrix
  BY <1>0, SolutionIs DEF IsRelaxed
<1>8. ASSUME NEW r \in Node, NEW i \in Node PROVE CurrDist(r)[i] = sol[r][i]
  <2>1. CurrDist(r)[i] <= sol[r][i]
    <3>1. d[r][i] <= sol[r][i]
      <4> HIDE DEF d
      <4> QED
        BY <1>0, <1>6, SolutionGreatest
    <3> QED
      BY <3>1
  <2>2. curr[r] \in Slot
    BY <1>0 DEF RouterTyped
  <2>3. sol[r][i] <= CurrDist(r)[i]
    BY <2>2 DEF Descent, NeverLess, CurrDist
  <2>4. CurrDist(r)[i] \in Nat /\ sol[r][i] \in Nat
    <3> HIDE DEF sol
    <3> QED
      BY <1>0, <1>7, DistTypes DEF Matrix
  <2> HIDE DEF sol
  <2> QED
    BY <2>1, <2>3, <2>4
<1>9. \A r \in Node : CurrDist(r) = [i \in Node |-> CurrDist(r)[i]] /\ sol[r] = [i \in Node |-> sol[r][i]]
  <2> HIDE DEF sol
  <2> QED
    BY <1>0, <1>7, DistTypes DEF Matrix
<1> HIDE DEF sol
<1>10. \A r \in Node : CurrDist(r) = sol[r]
  BY <1>8, <1>9
<1> QED
  BY <1>10 DEF sol
-----------------------------------------------------------------------------
(* A poll of the main thread                                               *)

\* The slot of a vector is its epoch modulo their number.
Epochs == \A r \in Node : \A s \in Slot : vector[r][s].epoch % 4 = s

\* The routers that have been asked and have not answered.
Out == {r \in Node : chan[r] = <<NULL>> \/ rpc[r] = "reply"}

\* The answers still to come in this round of the poll.
Expected == IF Asking THEN count - 1 ELSE IF Hearing THEN Nodes - count + 1 ELSE 0

Counted ==
  /\ Cardinality(Out) + Len(replies) = Expected
  /\ Asking \/ Hearing \/ count = 1

AskedOnce == \A r \in Node : chan[r] = <<NULL>> => rpc[r] # "reply"
NotAsked == Asking => \A r \in Node : r >= count => r \notin Out

\* A pointer main keeps is under the name of the router that gave it.
Named == \A r \in Node : completed[r] # NULL => completed[r][1] = r

FirstPoll == mpc \in {"ask", "hear"}
SecondPoll == mpc \in {"ask again", "hear again"}

Answered(r) == r \notin Out /\ (Asking => r < count)

FirstAnswers ==
  FirstPoll /\ valid /\ replies # <<NULL>> =>
    \A r \in Node : Answered(r) => completed[r] # NULL \/ (replies # <<>> /\ Head(replies)[1] = r)

PollInv == Counted /\ AskedOnce /\ NotAsked /\ Named /\ FirstAnswers

LEMMA OutFinite ==
  /\ IsFiniteSet(Out) /\ Cardinality(Out) \in Nat
  /\ Cardinality(Out) = 0 <=> Out = {}
  /\ \A r \in Node : /\ Cardinality(Out \cup {r}) = IF r \in Out THEN Cardinality(Out) ELSE Cardinality(Out) + 1
                     /\ Cardinality(Out \ {r}) = IF r \in Out THEN Cardinality(Out) - 1 ELSE Cardinality(Out)
<1>1. IsFiniteSet(Node)
  BY RouterAssumption, FS_Interval DEF Node
<1>2. Out \subseteq Node
  BY DEF Out
<1>3. IsFiniteSet(Out)
  BY <1>1, <1>2, FS_Subset
<1> QED
  BY <1>3, FS_CardinalityType, FS_EmptySet, FS_AddElement, FS_RemoveElement

LEMMA RepliesTypes ==
  ASSUME RouterTyped
  PROVE  /\ Len(replies) \in {0, 1}
         /\ replies = <<>> <=> Len(replies) = 0
         /\ replies # <<>> => /\ replies = <<Head(replies)>>
                              /\ Head(replies) \in Pointer \cup {NULL}
         /\ \A p : Len(<<p>>) = 1
<1>1. CASE replies = <<>>
  BY <1>1
<1>2. ASSUME NEW p \in Pointer \cup {NULL}, replies = <<p>>
      PROVE  Len(replies) = 1 /\ replies # <<>> /\ Head(replies) = p
  BY SMTT(40), <1>2
<1> QED
  BY <1>1, <1>2 DEF RouterTyped

\* Only Reply answers; the other steps of a router leave the poll as it was.
LEMMA RouterOut ==
  ASSUME RouterInv, AskedOnce, NEW r \in Node, RouterStep(r)
  PROVE  /\ AskedOnce'
         /\ UNCHANGED mainVars
         /\ \/ Out' = Out /\ UNCHANGED replies
            \/ Reply(r) /\ r \in Out /\ Out' = Out \ {r}
<1>0. /\ rpc \in [Node -> {"select", "send", "update", "reply", "exit", "assert"}]
      /\ DOMAIN chan = Node
  BY DEF RouterInv, RouterTyped
<1>1. ASSUME rpc[r] # "reply", rpc'[r] # "reply", UNCHANGED chan, \A q \in Node \ {r} : rpc'[q] = rpc[q]
      PROVE  AskedOnce' /\ Out' = Out
  BY <1>1 DEF AskedOnce, Out
<1>2. CASE Pass(r)
  BY <1>0, <1>1, <1>2 DEF Pass
<1>3. CASE Nothing(r)
  BY <1>0, <1>1, <1>3 DEF Nothing
<1>4. CASE Exit(r)
  BY <1>0, <1>1, <1>4 DEF Exit
<1>5. CASE Update(r)
  <2>1. UNCHANGED <<chan, replies, mainVars>> /\ rpc[r] = "update" /\ rpc' = [rpc EXCEPT ![r] = "select"]
    BY ZenonT(60), <1>5 DEF Update
  <2> QED
    BY <1>0, <1>1, <2>1
<1>6. ASSUME NEW n \in Node, SendTo(r, n)
      PROVE  AskedOnce' /\ Out' = Out /\ UNCHANGED <<replies, mainVars>>
  <2>1. /\ chan[n] = <<>> /\ chan' = [chan EXCEPT ![n] = <<(<<r, curr[r]>>)>>]
        /\ rpc[r] = "send" /\ rpc' = [rpc EXCEPT ![r] = "select"]
        /\ UNCHANGED <<replies, mainVars>>
    BY <1>6 DEF SendTo
  <2>2. \A q \in Node : (chan'[q] = <<NULL>> <=> chan[q] = <<NULL>>) /\ (rpc'[q] = "reply" <=> rpc[q] = "reply")
    BY <1>0, <2>1, NotEmpty, NotNull
  <2> QED
    BY <2>1, <2>2 DEF AskedOnce, Out
<1>7. CASE Receive(r)
  <2>1. PICK p \in Pointer \cup {NULL} : chan[r] = <<p>>
    BY <1>7, FlowTypes DEF RouterInv, Receive
  <2>2. /\ chan' = [chan EXCEPT ![r] = <<>>] /\ rpc[r] = "select"
        /\ rpc' = [rpc EXCEPT ![r] = IF p = NULL THEN "reply" ELSE "update"]
        /\ UNCHANGED <<replies, mainVars>>
    BY ZenonT(60), <1>7, <2>1, NotNull DEF Receive
  <2>3. \A q \in Node \ {r} : chan'[q] = chan[q] /\ rpc'[q] = rpc[q]
    BY <1>0, <2>2
  <2>4. /\ chan'[r] = <<>> /\ chan'[r] # <<NULL>>
        /\ rpc'[r] = "reply" <=> chan[r] = <<NULL>>
    BY <1>0, <2>1, <2>2, NotNull
  <2> QED
    BY <2>2, <2>3, <2>4 DEF AskedOnce, Out
<1>8. CASE Reply(r)
  <2>1. UNCHANGED <<chan, mainVars>> /\ rpc[r] = "reply" /\ rpc' = [rpc EXCEPT ![r] = "select"]
    BY <1>8 DEF Reply
  <2>2. \A q \in Node \ {r} : rpc'[q] = rpc[q]
    BY <1>0, <2>1
  <2>3. rpc'[r] # "reply" /\ chan[r] # <<NULL>>
    BY <1>0, <2>1 DEF AskedOnce
  <2> QED
    BY <1>8, <2>1, <2>2, <2>3 DEF AskedOnce, Out
<1> QED
  BY <1>2, <1>3, <1>4, <1>5, <1>6, <1>7, <1>8 DEF RouterStep, Pass, Nothing, Exit, Update

LEMMA RouterStepPoll ==
  ASSUME RouterInv, PollInv, NEW r \in Node, RouterStep(r)
  PROVE  PollInv'
<1>0. /\ AskedOnce' /\ UNCHANGED <<mpc, count, valid, completed>>
      /\ \/ Out' = Out /\ UNCHANGED replies
         \/ Reply(r) /\ r \in Out /\ Out' = Out \ {r}
  BY RouterOut DEF PollInv, mainVars
<1>1. Named' /\ Expected' = Expected /\ Asking' = Asking /\ Hearing' = Hearing /\ FirstPoll' = FirstPoll
  BY <1>0 DEF PollInv, Named, Expected, Asking, Hearing, FirstPoll
<1>2. CASE Out' = Out /\ UNCHANGED replies
  <2>1. Counted' /\ NotAsked'
    BY <1>0, <1>1, <1>2 DEF PollInv, Counted, NotAsked
  <2>2. FirstAnswers'
    BY <1>0, <1>1, <1>2 DEF PollInv, FirstAnswers, Answered
  <2> QED
    BY <1>0, <1>1, <2>1, <2>2 DEF PollInv
<1>3. CASE Reply(r) /\ r \in Out /\ Out' = Out \ {r}
  <2>1. replies = <<>> /\ \E p : replies' = <<p>> /\ (p # NULL => p = <<r, curr[r]>>)
    BY <1>3 DEF Reply
  <2>2. PICK p : replies' = <<p>> /\ (p # NULL => p = <<r, curr[r]>>)
    BY <2>1
  <2>3. Len(replies) = 0 /\ Len(replies') = 1
    BY <2>1, <2>2
  <2>4. Cardinality(Out') = Cardinality(Out) - 1 /\ Cardinality(Out) \in Nat
    BY <1>3, OutFinite
  <2>5. Counted'
    <3>1. Cardinality(Out) + Len(replies) = Expected /\ (Asking \/ Hearing \/ count = 1)
      BY DEF PollInv, Counted
    <3>2. Cardinality(Out') + Len(replies') = Cardinality(Out) + Len(replies)
      BY <2>3, <2>4
    <3> QED
      BY <1>0, <1>1, <3>1, <3>2 DEF Counted
  <2>6. NotAsked'
    BY <1>0, <1>1, <1>3 DEF PollInv, NotAsked
  <2>7. FirstAnswers'
    <3> SUFFICES ASSUME FirstPoll', valid', replies' # <<NULL>>, NEW q \in Node, Answered(q)'
                 PROVE  (completed[q] # NULL \/ (replies # <<>> /\ Head(replies)[1] = q))'
      BY DEF FirstAnswers
    <3>1. p # NULL /\ Head(replies') = p /\ replies' # <<>> /\ replies # <<NULL>>
      BY <2>1, <2>2, NotNull
    <3>2. CASE q = r
      BY <2>2, <3>1, <3>2
    <3>3. CASE q # r
      <4>1. Answered(q)
        BY <1>0, <1>1, <1>3, <3>3 DEF Answered
      <4> QED
        BY <1>0, <1>1, <2>1, <3>1, <4>1 DEF PollInv, FirstAnswers
    <3> QED
      BY <3>2, <3>3
  <2> QED
    BY <1>0, <1>1, <2>5, <2>6, <2>7 DEF PollInv
<1> QED
  BY <1>0, <1>2, <1>3

LEMMA AskPoll ==
  ASSUME RouterInv, PollInv, Ask
  PROVE  /\ PollInv' /\ Out' = Out \cup {count} /\ count \notin Out
         /\ UNCHANGED <<routerVars, replies, valid, completed>>
         /\ Asking /\ count \in Node
         /\ \/ count < Nodes /\ mpc' = mpc /\ count' = count + 1
            \/ count = Nodes /\ count' = 1 /\ Hearing' /\ ~Asking'
         /\ (FirstPoll' <=> FirstPoll) /\ (SecondPoll' <=> SecondPoll)
         /\ \A q \in Node : Answered(q)' => Answered(q)
         /\ \A q \in Node \ {count} : chan'[q] = chan[q]
<1>0. /\ count \in Node /\ DOMAIN chan = Node /\ Nodes \in Nat /\ count \in Nat /\ count <= Nodes /\ count >= 1
  BY RouterAssumption DEF RouterInv, RouterTyped, Node
<1>1. /\ Asking /\ chan[count] = <<>> /\ chan' = [chan EXCEPT ![count] = <<NULL>>]
      /\ UNCHANGED <<topology, routerVars, replies, stopped, valid, completed, polls>>
  BY DEF Ask
<1>2. \/ count < Nodes /\ mpc' = mpc /\ count' = count + 1
      \/ count = Nodes /\ count' = 1 /\ Hearing' /\ ~Asking'
  <2>1. CASE count < Nodes
    BY <2>1 DEF Ask
  <2>2. CASE ~(count < Nodes)
    <3>1. count' = 1 /\ mpc' \in {"hear", "hear again"}
      BY <2>2 DEF Ask
    <3>2. Hearing' /\ ~Asking'
      BY <3>1, Zenon DEF Asking, Hearing
    <3>3. count = Nodes
      BY <1>0, <2>2
    <3> QED
      BY <3>1, <3>2, <3>3
  <2> QED
    BY <2>1, <2>2
<1>3. (FirstPoll' <=> FirstPoll) /\ (SecondPoll' <=> SecondPoll)
  <2>1. \/ mpc' = mpc
        \/ mpc = "ask" /\ mpc' = "hear"
        \/ mpc = "ask again" /\ mpc' = "hear again"
    BY <1>1, Zenon DEF Ask, Asking
  <2> QED
    BY <2>1, Zenon DEF FirstPoll, SecondPoll
<1>4. count \notin Out /\ rpc' = rpc
  BY <1>0, <1>1 DEF PollInv, NotAsked, routerVars
<1>5. chan'[count] = <<NULL>> /\ \A q \in Node \ {count} : chan'[q] = chan[q]
  BY <1>0, <1>1
<1>6. Out' = Out \cup {count} /\ AskedOnce'
  BY <1>0, <1>4, <1>5 DEF PollInv, AskedOnce, Out
<1>7. Cardinality(Out') = Cardinality(Out) + 1 /\ Cardinality(Out) \in Nat
  BY <1>0, <1>4, <1>6, OutFinite
<1>8. Cardinality(Out) + Len(replies) = count - 1 /\ Len(replies) \in {0, 1}
  BY <1>1, RepliesTypes DEF PollInv, Counted, Expected, RouterInv
<1>9. Len(replies') = Len(replies)
  BY <1>1
<1>10. Counted'
  <2>1. CASE count < Nodes /\ mpc' = mpc /\ count' = count + 1
    <3>1. Asking' /\ Expected' = count' - 1
      BY <1>1, <2>1 DEF Asking, Expected
    <3> QED
      BY <1>0, <1>7, <1>8, <1>9, <2>1, <3>1 DEF Counted
  <2>2. CASE count = Nodes /\ count' = 1 /\ Hearing'
    <3>1. ~Asking' /\ Expected' = Nodes - count' + 1
      BY <2>2 DEF Asking, Hearing, Expected
    <3> QED
      BY <1>0, <1>7, <1>8, <1>9, <2>2, <3>1 DEF Counted
  <2> QED
    BY <1>2, <2>1, <2>2
<1>11. NotAsked'
  <2>1. CASE count < Nodes /\ count' = count + 1
    <3>1. \A q \in Node : q >= count' => q >= count /\ q # count
      BY <1>0, <2>1 DEF Node
    <3> QED
      BY <1>1, <1>6, <3>1 DEF PollInv, NotAsked
  <2>2. CASE Hearing'
    BY <2>2 DEF Asking, Hearing, NotAsked
  <2> QED
    BY <1>2, <2>1, <2>2
<1>12. Named'
  BY <1>1 DEF PollInv, Named
<1>13. \A q \in Node : Answered(q)' => Answered(q)
  <2> SUFFICES ASSUME NEW q \in Node, Answered(q)' PROVE Answered(q)
    OBVIOUS
  <2>1. q \notin Out /\ q # count
    BY <1>6 DEF Answered
  <2>2. q < count
    <3>1. q \in Nat /\ q <= Nodes
      BY <1>0 DEF Node
    <3>2. CASE count < Nodes /\ mpc' = mpc /\ count' = count + 1
      <4>1. q < count + 1
        BY <1>1, <3>2 DEF Answered, Asking
      <4> QED
        BY <1>0, <2>1, <3>1, <4>1
    <3>3. CASE count = Nodes
      BY <1>0, <2>1, <3>1, <3>3
    <3> QED
      BY <1>2, <3>2, <3>3
  <2> QED
    BY <2>1, <2>2 DEF Answered
<1>14. FirstAnswers'
  BY <1>1, <1>3, <1>13 DEF PollInv, FirstAnswers
<1> QED
  BY <1>0, <1>1, <1>2, <1>3, <1>4, <1>5, <1>6, <1>10, <1>11, <1>12, <1>13, <1>14 DEF PollInv

LEMMA HearPoll ==
  ASSUME RouterInv, PollInv, Hear
  PROVE  /\ PollInv' /\ Out' = Out /\ replies # <<>> /\ replies' = <<>> /\ Hearing
         /\ UNCHANGED <<chan, routerVars>>
         /\ \/ count < Nodes /\ mpc' = mpc
            \/ /\ count = Nodes /\ Out = {}
               /\ mpc' = IF ~valid' THEN "sleep" ELSE IF mpc = "hear" THEN "ask again" ELSE "check"
<1>0. /\ count \in Nat /\ Nodes \in Nat /\ count <= Nodes /\ count >= 1
      /\ completed \in [Node -> Pointer \cup {NULL}]
  BY RouterAssumption DEF RouterInv, RouterTyped, Node
<1>1. /\ Hearing /\ replies # <<>> /\ replies' = <<>>
      /\ UNCHANGED <<topology, chan, routerVars, stopped, polls>>
      /\ IF mpc = "hear" THEN Note(Head(replies)) ELSE Compare(Head(replies))
  BY DEF Hear
<1>2. \/ count < Nodes /\ mpc' = mpc /\ count' = count + 1
      \/ /\ count = Nodes /\ count' = 1
         /\ mpc' = IF ~valid' THEN "sleep" ELSE IF mpc = "hear" THEN "ask again" ELSE "check"
  <2>1. CASE count < Nodes
    BY <2>1 DEF Hear
  <2>2. CASE ~(count < Nodes)
    <3>1. /\ count' = 1
          /\ mpc' = IF mpc = "hear" THEN AfterFirst ELSE IF valid' THEN "check" ELSE "sleep"
      BY <2>2 DEF Hear
    <3>2. count = Nodes
      BY <1>0, <2>2
    <3> QED
      BY <3>1, <3>2 DEF AfterFirst
  <2> QED
    BY <2>1, <2>2
<1>3. Len(replies) = 1 /\ Len(replies') = 0
  BY <1>1, RepliesTypes DEF RouterInv
<1>4. Out' = Out /\ AskedOnce' /\ Cardinality(Out) \in Nat /\ (Cardinality(Out) = 0 <=> Out = {})
  BY <1>1, OutFinite DEF Out, PollInv, AskedOnce, routerVars
<1>5. Cardinality(Out) + 1 = Nodes - count + 1
  BY <1>1, <1>3 DEF PollInv, Counted, Expected, Asking, Hearing
<1>6. count = Nodes => Out = {}
  BY <1>0, <1>4, <1>5
<1>7. Counted'
  <2>1. CASE count < Nodes /\ mpc' = mpc /\ count' = count + 1
    <3>1. Hearing' /\ Expected' = Nodes - count' + 1
      BY <1>1, <2>1 DEF Asking, Hearing, Expected
    <3> QED
      BY <1>0, <1>3, <1>4, <1>5, <2>1, <3>1 DEF Counted
  <2>2. CASE count = Nodes /\ count' = 1 /\ mpc' \in {"sleep", "ask again", "check"}
    <3>1. Asking' \/ ~Hearing'
      BY <2>2, Zenon DEF Asking, Hearing
    <3>2. count = Nodes /\ count' = 1
      BY <2>2, Zenon
    <3>3. Expected' = 0
      BY <3>1, <3>2 DEF Expected
    <3>4. Cardinality(Out') + Len(replies') = 0
      BY <1>3, <1>4, <1>6, <3>2
    <3> QED
      BY <3>2, <3>3, <3>4 DEF Counted
  <2> QED
    BY <1>2, <2>1, <2>2
<1>8. NotAsked'
  <2>1. CASE mpc' = mpc
    BY <1>1, <2>1 DEF Asking, Hearing, NotAsked
  <2>2. CASE count = Nodes
    BY <1>4, <1>6, <2>2 DEF NotAsked
  <2> QED
    BY <1>2, <2>1, <2>2
<1> DEFINE a == Head(replies)
<1>9. a \in Pointer \cup {NULL} /\ (a # NULL => a[1] \in Node) /\ replies = <<a>>
  BY <1>1, RepliesTypes DEF RouterInv, Pointer
<1>10. \/ UNCHANGED completed
       \/ a # NULL /\ completed' = [completed EXCEPT ![a[1]] = a]
  BY <1>1 DEF Note, Compare
<1>11. Named'
  BY <1>0, <1>9, <1>10 DEF PollInv, Named
<1>12. FirstAnswers'
  <2> SUFFICES ASSUME FirstPoll', valid', NEW q \in Node, Answered(q)'
               PROVE  completed'[q] # NULL
    BY DEF FirstAnswers
  <2>1. mpc = "hear" /\ mpc' = "hear"
    BY <1>1, <1>2 DEF FirstPoll, Hearing
  <2>2. valid /\ a # NULL /\ completed' = [completed EXCEPT ![a[1]] = a]
    BY <1>1, <2>1 DEF Note
  <2>3. Answered(q)
    BY <1>4, <2>1 DEF Answered, Asking
  <2>4. FirstPoll /\ replies # <<NULL>>
    BY <1>9, <2>1, <2>2, NotNull DEF FirstPoll
  <2>5. completed[q] # NULL \/ a[1] = q
    BY <2>2, <2>3, <2>4 DEF PollInv, FirstAnswers
  <2> HIDE DEF a
  <2> QED
    BY <1>0, <1>9, <2>2, <2>5
<1> QED
  BY <1>1, <1>2, <1>4, <1>6, <1>7, <1>8, <1>11, <1>12 DEF PollInv

LEMMA MainStepPoll ==
  ASSUME RouterInv, PollInv, MainStep
  PROVE  PollInv'
<1>1. CASE Ask
  BY <1>1, AskPoll
<1>2. CASE Hear
  BY <1>2, HearPoll
<1>3. CASE Check \/ Join
  <2>1. /\ ~Asking /\ ~Hearing /\ ~Asking' /\ ~Hearing' /\ ~FirstPoll'
        /\ UNCHANGED <<chan, rpc, replies, count, valid, completed>>
    BY <1>3 DEF Check, Join, Asking, Hearing, FirstPoll, routerVars
  <2>2. Out' = Out
    BY <2>1 DEF Out
  <2>3. Counted' /\ AskedOnce' /\ NotAsked' /\ Named'
    BY <2>1, <2>2 DEF PollInv, Counted, AskedOnce, NotAsked, Named, Expected
  <2>4. FirstAnswers'
    BY <2>1 DEF FirstAnswers
  <2> QED
    BY <2>3, <2>4 DEF PollInv
<1>4. CASE Sleep
  <2>1. /\ mpc = "sleep" /\ mpc' = "ask" /\ completed' = [q \in Node |-> NULL]
        /\ UNCHANGED <<chan, rpc, replies, count>>
    BY <1>4 DEF Sleep, routerVars
  <2>2. ~Asking /\ ~Hearing /\ Asking'
    BY <2>1 DEF Asking, Hearing
  <2>3. Out' = Out /\ count = 1 /\ Cardinality(Out) + Len(replies) = 0
    BY <2>1, <2>2 DEF Out, PollInv, Counted, Expected
  <2>4. Cardinality(Out) = 0 /\ Out = {}
    BY <2>3, OutFinite, RepliesTypes DEF RouterInv
  <2>5. Counted'
    BY <2>1, <2>2, <2>3 DEF Counted, Expected
  <2>6. NotAsked' /\ AskedOnce' /\ Named'
    BY <2>1, <2>3, <2>4 DEF PollInv, NotAsked, AskedOnce, Named
  <2>7. FirstAnswers'
    <3>1. \A q \in Node : ~Answered(q)'
      <4> SUFFICES ASSUME NEW q \in Node PROVE ~(q < 1)
        BY <2>1, <2>2, <2>3 DEF Answered
      <4> QED
        BY RouterAssumption DEF Node
    <3> QED
      BY <3>1 DEF FirstAnswers
  <2> QED
    BY <2>5, <2>6, <2>7 DEF PollInv
<1> QED
  BY <1>1, <1>2, <1>3, <1>4 DEF MainStep

LEMMA StepPoll ==
  ASSUME RouterInv, PollInv, [Next]_vars
  PROVE  PollInv'
<1>1. CASE UNCHANGED vars
  <2>1. UNCHANGED <<chan, rpc, replies, mpc, count, valid, completed>>
    BY <1>1 DEF vars, routerVars, mainVars
  <2>2. /\ Out' = Out /\ Asking' = Asking /\ Hearing' = Hearing /\ FirstPoll' = FirstPoll
        /\ Expected' = Expected
    BY <2>1 DEF Out, Asking, Hearing, FirstPoll, Expected
  <2>3. Counted' /\ AskedOnce' /\ NotAsked' /\ Named'
    BY <2>1, <2>2 DEF PollInv, Counted, AskedOnce, NotAsked, Named
  <2>4. FirstAnswers'
    BY <2>1, <2>2 DEF PollInv, FirstAnswers, Answered
  <2> QED
    BY <2>3, <2>4 DEF PollInv
<1> QED
  BY <1>1, RouterStepPoll, MainStepPoll DEF Next

LEMMA StartPoll ==
  ASSUME Init
  PROVE  PollInv
<1>1. /\ \A q \in Node : chan[q] = <<>> /\ rpc[q] = "select" /\ completed[q] = NULL
      /\ replies = <<>> /\ mpc = "ask" /\ count = 1
  BY DEF Init
<1>2. Out = {} /\ Cardinality(Out) = 0
  BY <1>1, NotNull, OutFinite DEF Out
<1>3. Asking /\ Expected = 0 /\ Len(replies) = 0
  BY <1>1 DEF Asking, Expected
<1>4. Counted /\ AskedOnce /\ NotAsked /\ Named
  BY <1>1, <1>2, <1>3 DEF Counted, AskedOnce, NotAsked, Named
<1>5. FirstAnswers
  <2>1. \A q \in Node : ~Answered(q)
    <3> SUFFICES ASSUME NEW q \in Node PROVE ~(q < 1)
      BY <1>1, <1>3 DEF Answered
    <3> QED
      BY RouterAssumption DEF Node
  <2> QED
    BY <2>1 DEF FirstAnswers
<1> QED
  BY <1>4, <1>5 DEF PollInv

-----------------------------------------------------------------------------
LEMMA RoundEpochs ==
  ASSUME RouterTyped, Epochs, NEW r \in Node, NEW left, left \subseteq pending[r], NEW better,
         NEW next, Improves(r, better, next), Round(r, left, better, next)
  PROVE  Epochs'
<1> DEFINE slot == NextSlot(r)
           fresh == (slot + 1) % Buffers
           newer == [next EXCEPT !.epoch = @ + 1]
<1>1. vector \in [Node -> [Slot -> Vector]] /\ slot \in Slot /\ fresh \in Slot
  BY SlotsBehind DEF RouterTyped
<1>2. next \in Vector /\ next.epoch = vector[r][slot].epoch
  BY DEF Improves
<1>3. next.epoch \in Nat /\ newer.epoch = next.epoch + 1 /\ next.epoch % 4 = slot
  BY <1>1, <1>2 DEF Vector, Epochs
<1>4. newer.epoch % 4 = fresh
  <2>1. fresh = (slot + 1) % 4
    BY DEF Buffers
  <2> HIDE DEF slot, fresh, newer
  <2> QED
    BY <1>3, <2>1
<1> HIDE DEF slot, fresh, newer
<1>5. CASE left = {} /\ better
  <2>1. vector' = [vector EXCEPT ![r][slot] = next, ![r][fresh] = newer]
    BY <1>5 DEF Round, slot, fresh, newer
  <2>2. \A q \in Node : \A s \in Slot :
          vector'[q][s] = IF q = r /\ s = fresh THEN newer ELSE IF q = r /\ s = slot THEN next ELSE vector[q][s]
    BY <1>1, <2>1
  <2> QED
    BY <1>3, <1>4, <2>2 DEF Epochs
<1>6. CASE ~(left = {} /\ better)
  <2>1. vector' = [vector EXCEPT ![r][slot] = next]
    BY <1>6 DEF Round, slot
  <2>2. \A q \in Node : \A s \in Slot :
          vector'[q][s] = IF q = r /\ s = slot THEN next ELSE vector[q][s]
    BY <1>1, <2>1
  <2> QED
    BY <1>3, <2>2 DEF Epochs
<1> QED
  BY <1>5, <1>6

\* A step of a router is the end of a round, or it leaves the vectors alone.
LEMMA RouterRounds ==
  ASSUME RouterInv, Descent, NEW r \in Node, RouterStep(r)
  PROVE  \/ UNCHANGED <<vector, curr, pending, changed>>
         \/ \E left, better, next :
              /\ left \subseteq pending[r] /\ Round(r, left, better, next) /\ Improves(r, better, next)
<1>0. RouterTyped /\ NeverLess /\ Unchanged
  BY DEF RouterInv, Descent
<1>1. CASE Pass(r) \/ Nothing(r) \/ Exit(r) \/ Receive(r)
  BY <1>1 DEF Pass, Nothing, Exit, Receive
<1>2. ASSUME NEW n \in Node, SendTo(r, n)
      PROVE  \E left, better, next :
              /\ left \subseteq pending[r] /\ Round(r, left, better, next) /\ Improves(r, better, next)
  <2>1. Round(r, pending[r] \ {n}, changed[r], vector[r][NextSlot(r)])
    BY <1>2 DEF SendTo
  <2>2. pending[r] \ {n} \subseteq pending[r]
    OBVIOUS
  <2> QED
    BY <1>0, <2>1, <2>2, SameImproves
<1>3. CASE Update(r)
  BY <1>0, <1>3, UpdateImproves
<1>4. CASE Reply(r)
  <2>1. Round(r, pending[r], changed[r], vector[r][NextSlot(r)])
    BY <1>4 DEF Reply
  <2> QED
    BY <1>0, <2>1, SameImproves
<1> QED
  BY <1>1, <1>2, <1>3, <1>4 DEF RouterStep

LEMMA StepEpochs ==
  ASSUME RouterInv, Descent, Epochs, [Next]_vars
  PROVE  Epochs'
<1>1. ASSUME UNCHANGED vector PROVE Epochs'
  BY <1>1 DEF Epochs
<1>2. CASE UNCHANGED vars
  BY <1>1, <1>2 DEF vars, routerVars
<1>3. CASE MainStep
  BY <1>1, <1>3 DEF MainStep, Ask, Hear, Check, Sleep, Join, routerVars
<1>4. ASSUME NEW r \in Node, RouterStep(r) PROVE Epochs'
  BY <1>1, <1>4, RouterRounds, RoundEpochs DEF RouterInv
<1> QED
  BY <1>2, <1>3, <1>4 DEF Next

LEMMA StartEpochs ==
  ASSUME Init
  PROVE  Epochs
<1>1. \A r \in Node : \A s \in Slot : vector[r][s].epoch = s
  BY DEF Init, Slot
<1>2. \A s \in Slot : s % 4 = s
  BY DEF Slot
<1> QED
  BY <1>1, <1>2 DEF Epochs

-----------------------------------------------------------------------------
(* The verdict                                                             *)

\* Main points to a vector of r that it may still compare or read.
Kept(r, p) ==
  /\ p # NULL /\ p[1] = r
  /\ \/ (Asking \/ Hearing) /\ completed[r] = p
     \/ FirstPoll /\ replies = <<p>>

\* A router does not come back to a vector main still points to.
NoReturn ==
  \A r \in Node : \A p \in Pointer : Kept(r, p) /\ curr[r] # p[2] => curr'[r] # p[2]
NeverRecycled == [][NoReturn]_vars

AtRest(r) == pending[r] = {} /\ ~changed[r]

Idle == \A r \in Node : \A p \in Pointer : Kept(r, p) /\ curr[r] = p[2] => AtRest(r)

Same(r) == completed[r] = <<r, curr[r]>>
Differs(p) == p = NULL \/ p # completed[p[1]]

\* The second round of answers will not do.
Doubt ==
  \/ ~valid
  \/ replies # <<>> /\ Differs(Head(replies))
  \/ \E r \in Node : ~Same(r) /\ ~Answered(r)

\* Nothing has moved since the first round, and nothing reaches who has answered.
Settled ==
  \A r \in Node :
    /\ Same(r)
    /\ Answered(r) \/ rpc[r] = "reply" => chan[r] = <<>>
    /\ Answered(r) => rpc[r] # "update"

SecondAnswers == SecondPoll => (\A r \in Node : completed[r] # NULL) /\ (Doubt \/ Settled)

Final == mpc \in {"check", "join", "end"} => Quiet /\ \A r \in Node : Same(r)

Stopping ==
  /\ stopped <=> mpc \in {"join", "end"}
  /\ mpc # "assert"
  /\ \A r \in Node : rpc[r] # "assert" /\ (rpc[r] = "exit" => stopped)

Verdict == Idle /\ SecondAnswers /\ Final /\ Stopping

VerdictInv == RouterInv /\ Descent /\ Epochs /\ PollInv /\ Verdict

ModesIs ==
  /\ Asking \/ Hearing <=> FirstPoll \/ SecondPoll
  /\ ~(FirstPoll /\ SecondPoll) /\ ~(Asking /\ Hearing)
  /\ mpc \in {"check", "sleep", "join", "end", "assert"} =>
       ~FirstPoll /\ ~SecondPoll /\ ~Asking /\ ~Hearing

LEMMA Modes == ModesIs /\ ModesIs'
BY Zenon DEF ModesIs, FirstPoll, SecondPoll, Asking, Hearing

\* Whoever is at rest and does not change vectors stays at rest.
LEMMA RouterMoves ==
  ASSUME RouterInv, Descent, NEW r \in Node, RouterStep(r)
  PROVE  /\ \A q \in Node \ {r} : /\ curr'[q] = curr[q] /\ pending'[q] = pending[q]
                                  /\ changed'[q] = changed[q] /\ rpc'[q] = rpc[q]
         /\ AtRest(r) /\ curr'[r] = curr[r] => AtRest(r)'
<1>0. RouterTyped /\ DOMAIN rpc = Node /\ curr \in [Node -> Slot]
  BY DEF RouterInv, RouterTyped
<1>1. \A q \in Node \ {r} : rpc'[q] = rpc[q]
  <2>1. CASE Pass(r) \/ Nothing(r) \/ Exit(r) \/ Receive(r) \/ Reply(r)
    BY <1>0, <2>1 DEF Pass, Nothing, Exit, Receive, Reply
  <2>2. ASSUME NEW n \in Node, SendTo(r, n) PROVE rpc' = [rpc EXCEPT ![r] = "select"]
    BY <2>2 DEF SendTo
  <2>3. CASE Update(r)
    <3>1. rpc' = [rpc EXCEPT ![r] = "select"]
      BY ZenonT(60), <2>3 DEF Update
    <3> QED
      BY <1>0, <3>1
  <2> QED
    BY <1>0, <2>1, <2>2, <2>3 DEF RouterStep
<1>2. CASE UNCHANGED <<vector, curr, pending, changed>>
  BY <1>1, <1>2 DEF AtRest
<1>3. ASSUME NEW left, NEW better, NEW next, left \subseteq pending[r],
             Round(r, left, better, next), Improves(r, better, next)
      PROVE  /\ \A q \in Node \ {r} : /\ curr'[q] = curr[q] /\ pending'[q] = pending[q]
                                      /\ changed'[q] = changed[q] /\ rpc'[q] = rpc[q]
             /\ AtRest(r) /\ curr'[r] = curr[r] => AtRest(r)'
  <2>1. Alone(r) /\ IF left = {} /\ better THEN Advances(r, next) ELSE Stays(r, left, better)
    BY <1>0, <1>3, ImprovesTypes, RoundIs
  <2>2. NextSlot(r) # curr[r]
    BY <1>0, SlotsBehind
  <2>3. AtRest(r) /\ curr'[r] = curr[r] => AtRest(r)'
    <3> SUFFICES ASSUME AtRest(r), curr'[r] = curr[r] PROVE AtRest(r)'
      OBVIOUS
    <3>1. left = {}
      BY <1>3 DEF AtRest
    <3>2. ~better /\ Stays(r, left, better)
      BY <2>1, <2>2, <3>1 DEF Advances
    <3> QED
      BY <3>1, <3>2 DEF Stays, AtRest
  <2> QED
    BY <1>1, <2>1, <2>3 DEF Alone
<1> QED
  BY <1>2, <1>3, RouterRounds

LEMMA MainMoves ==
  ASSUME MainStep
  PROVE  UNCHANGED <<topology, vector, curr, pending, changed, rpc, reading>>
BY DEF MainStep, Ask, Hear, Check, Sleep, Join, routerVars

\* Main comes to point to a vector when a converged router answers.
LEMMA KeptStep ==
  ASSUME RouterInv, PollInv, [Next]_vars, NEW r \in Node, NEW p \in Pointer, Kept(r, p)'
  PROVE  Kept(r, p) \/ (p = <<r, curr[r]>> /\ Reply(r) /\ Converged(r))
<1>0. p # NULL /\ p[1] = r
  BY DEF Kept
<1>1. CASE UNCHANGED vars
  BY <1>1 DEF Kept, vars, mainVars, Asking, Hearing, FirstPoll
<1>2. ASSUME NEW q \in Node, RouterStep(q)
      PROVE  Kept(r, p) \/ (p = <<r, curr[r]>> /\ Reply(r) /\ Converged(r))
  <2>1. UNCHANGED <<mpc, completed>> /\ (UNCHANGED replies \/ Reply(q))
    BY <1>2, RouterOut DEF PollInv, mainVars
  <2>2. (Asking' <=> Asking) /\ (Hearing' <=> Hearing) /\ (FirstPoll' <=> FirstPoll)
    BY <2>1 DEF Asking, Hearing, FirstPoll
  <2>3. CASE UNCHANGED replies
    BY <2>1, <2>2, <2>3 DEF Kept
  <2>4. CASE Reply(q) /\ replies' = <<p>>
    <3>1. p = IF Converged(q) THEN <<q, curr[q]>> ELSE NULL
      <4>1. Head(replies') = IF Converged(q) THEN <<q, curr[q]>> ELSE NULL
        BY <2>4, NotNull DEF Reply
      <4> QED
        BY <2>4, <4>1, NotNull
    <3>2. Converged(q) /\ p = <<q, curr[q]>>
      BY <1>0, <3>1
    <3>3. q = r
      BY <1>0, <3>2
    <3> QED
      BY <2>4, <3>2, <3>3
  <2>5. CASE Reply(q) /\ replies' # <<p>>
    BY <2>1, <2>2, <2>5 DEF Kept
  <2> QED
    BY <2>1, <2>3, <2>4, <2>5
<1>3. CASE Ask
  <2>1. UNCHANGED <<replies, completed>> /\ Asking /\ (FirstPoll' <=> FirstPoll)
    BY <1>3, AskPoll
  <2> QED
    BY <2>1 DEF Kept
<1>4. CASE Hear
  <2>1. Hearing /\ replies' = <<>> /\ replies # <<>> /\ completed'[r] = p
    BY <1>0, <1>4, HearPoll, NotNull DEF Kept
  <2> DEFINE a == Head(replies)
  <2>2. replies = <<a>> /\ completed \in [Node -> Pointer \cup {NULL}]
    BY <2>1, RepliesTypes DEF RouterInv, RouterTyped
  <2>3. CASE UNCHANGED completed
    BY <1>0, <2>1, <2>3 DEF Kept
  <2>4. CASE mpc = "hear" /\ completed' = [completed EXCEPT ![a[1]] = a]
    <3>1. p = completed[r] \/ p = a
      BY <2>1, <2>2, <2>4
    <3>2. FirstPoll
      BY <2>4 DEF FirstPoll
    <3> QED
      BY <1>0, <2>1, <2>2, <3>1, <3>2 DEF Kept
  <2>5. UNCHANGED completed \/ (mpc = "hear" /\ completed' = [completed EXCEPT ![a[1]] = a])
    BY <1>4 DEF Hear, Note, Compare
  <2> QED
    BY <2>3, <2>4, <2>5
<1>5. CASE Check \/ Join
  <2>1. mpc' \in {"check", "sleep", "join", "end", "assert"}
    BY <1>5 DEF Check, Join
  <2> QED
    BY <2>1, Modes DEF ModesIs, Kept
<1>6. CASE Sleep
  <2>1. mpc = "sleep" /\ completed' = [q \in Node |-> NULL] /\ UNCHANGED replies
    BY <1>6 DEF Sleep
  <2>2. ~Asking /\ ~Hearing
    BY <2>1, Modes DEF ModesIs
  <2>3. Len(replies) = 0
    BY <2>2, OutFinite, RepliesTypes DEF PollInv, Counted, Expected, RouterInv
  <2>4. replies = <<>>
    BY <2>3, RepliesTypes DEF RouterInv
  <2> QED
    BY <1>0, <2>1, <2>4, NotNull DEF Kept
<1> QED
  BY <1>1, <1>2, <1>3, <1>4, <1>5, <1>6 DEF Next, MainStep

LEMMA StepIdle ==
  ASSUME VerdictInv, [Next]_vars, [NoReturn]_vars
  PROVE  Idle'
<1>0. RouterInv /\ Descent /\ PollInv /\ Idle
  BY DEF VerdictInv, Verdict
<1>1. ASSUME NEW r \in Node, NEW p \in Pointer, Kept(r, p)', curr'[r] = p[2]
      PROVE  AtRest(r)'
  <2>1. curr[r] = p[2] /\ AtRest(r)
    <3>1. CASE Kept(r, p)
      <4>1. curr[r] = p[2]
        <5>1. CASE UNCHANGED vars
          BY <1>1, <5>1 DEF vars, routerVars
        <5>2. CASE NoReturn
          BY <1>1, <3>1, <5>2 DEF NoReturn
        <5> QED
          BY <5>1, <5>2
      <4> QED
        BY <1>0, <3>1, <4>1 DEF Idle
    <3>2. CASE p = <<r, curr[r]>> /\ Converged(r)
      BY <3>2 DEF Converged, AtRest
    <3> QED
      BY <1>0, <1>1, <3>1, <3>2, KeptStep
  <2>2. CASE UNCHANGED vars \/ MainStep
    <3>1. UNCHANGED <<pending, changed>>
      BY <2>2, MainMoves DEF vars, routerVars
    <3> QED
      BY <2>1, <3>1 DEF AtRest
  <2>3. ASSUME NEW q \in Node, RouterStep(q)
        PROVE  AtRest(r)'
    <3>1. CASE q = r
      BY <1>0, <1>1, <2>1, <2>3, <3>1, RouterMoves
    <3>2. CASE q # r
      BY <1>0, <2>1, <2>3, <3>2, RouterMoves DEF AtRest
    <3> QED
      BY <3>1, <3>2
  <2> QED
    BY <2>2, <2>3 DEF Next
<1> QED
  BY <1>1 DEF Idle

-----------------------------------------------------------------------------
\* What has moved since the first round never comes back.
LEMMA MovedOn ==
  ASSUME VerdictInv, [Next]_vars, [NoReturn]_vars, SecondPoll,
         NEW r \in Node, ~Same(r), completed'[r] = completed[r]
  PROVE  ~Same(r)'
<1>0. completed[r] \in Pointer /\ completed[r] # NULL /\ completed[r][1] = r
  BY NotNull DEF VerdictInv, Verdict, SecondAnswers, RouterInv, RouterTyped, PollInv, Named
<1> DEFINE p == completed[r]
<1>1. p = <<r, p[2]>>
  BY <1>0 DEF Pointer
<1>2. curr[r] # p[2]
  BY <1>1 DEF Same
<1>3. Kept(r, p)
  BY <1>0, Modes DEF Kept, ModesIs
<1>4. curr'[r] # p[2]
  <2>1. CASE UNCHANGED vars
    BY <1>2, <2>1 DEF vars, routerVars
  <2>2. CASE NoReturn
    BY <1>0, <1>2, <1>3, <2>2 DEF NoReturn
  <2> QED
    BY <2>1, <2>2
<1>5. <<r, curr'[r]>>[2] # p[2]
  BY <1>4
<1> QED
  BY <1>5 DEF Same

\* While nothing has moved, everyone is at rest.
LEMMA SettledRests ==
  ASSUME VerdictInv, SecondPoll, Settled
  PROVE  \A r \in Node : AtRest(r)
<1> SUFFICES ASSUME NEW r \in Node PROVE AtRest(r)
  OBVIOUS
<1>1. completed[r] = <<r, curr[r]>> /\ curr[r] \in Slot
  BY DEF Settled, Same, VerdictInv, RouterInv, RouterTyped
<1> DEFINE p == <<r, curr[r]>>
<1>2. p \in Pointer /\ p[1] = r /\ p[2] = curr[r] /\ p # NULL
  BY <1>1, NotNull DEF Pointer, Slot
<1>3. Kept(r, p)
  BY <1>1, <1>2, Modes DEF Kept, ModesIs
<1> QED
  BY <1>2, <1>3 DEF VerdictInv, Verdict, Idle

\* In the second round, a step of a router leaves main's state alone.
SecondStep ==
  /\ UNCHANGED <<mpc, count, valid, completed>>
  /\ SecondPoll' /\ (Asking' <=> Asking)

LEMMA RouterSecond ==
  ASSUME VerdictInv, NEW r \in Node, RouterStep(r), SecondPoll
  PROVE  SecondStep
<1>1. UNCHANGED <<mpc, count, valid, completed>>
  BY RouterOut DEF VerdictInv, PollInv, mainVars
<1> QED
  BY <1>1 DEF SecondStep, SecondPoll, Asking

LEMMA DoubtRouter ==
  ASSUME VerdictInv, NEW r \in Node, RouterStep(r), [Next]_vars, [NoReturn]_vars, SecondPoll, Doubt
  PROVE  Doubt'
<1>0. SecondStep /\ replies \in {<<>>, <<Head(replies)>>}
  BY RouterSecond, RepliesTypes DEF VerdictInv, RouterInv
<1>1. \/ Out' = Out /\ UNCHANGED replies
      \/ Reply(r) /\ r \in Out /\ Out' = Out \ {r}
  BY RouterOut DEF VerdictInv, PollInv
<1>2. CASE ~valid
  BY <1>0, <1>2 DEF SecondStep, Doubt
<1>3. CASE replies # <<>> /\ Differs(Head(replies))
  <2>1. UNCHANGED replies
    BY <1>1, <1>3 DEF Reply
  <2> QED
    BY <1>0, <1>3, <2>1 DEF SecondStep, Doubt, Differs
<1>4. ASSUME NEW q \in Node, ~Same(q), ~Answered(q)
      PROVE  Doubt'
  <2>1. ~Same(q)'
    BY <1>0, <1>4, MovedOn DEF SecondStep
  <2>2. CASE ~Answered(q)'
    BY <2>1, <2>2 DEF Doubt
  <2>3. CASE Answered(q)'
    <3>1. Reply(r) /\ q = r
      BY <1>0, <1>1, <1>4, <2>3 DEF Answered, SecondStep
    <3> DEFINE a == IF Converged(r) THEN <<r, curr[r]>> ELSE NULL
    <3>2. replies' = <<a>>
      BY <3>1 DEF Reply
    <3> HIDE DEF a
    <3>3. replies' # <<>> /\ Head(replies') = a
      BY <3>2, NotNull
    <3>4. a = NULL \/ (a = <<r, curr[r]>> /\ a[1] = r)
      BY DEF a
    <3>5. completed'[r] # <<r, curr[r]>>
      BY <1>0, <1>4, <3>1 DEF Same, SecondStep
    <3>6. Differs(Head(replies))'
      BY <3>3, <3>4, <3>5 DEF Differs
    <3> QED
      BY <3>3, <3>6 DEF Doubt
  <2> QED
    BY <2>2, <2>3
<1> QED
  BY <1>2, <1>3, <1>4 DEF Doubt

LEMMA SettledRouter ==
  ASSUME VerdictInv, NEW r \in Node, RouterStep(r), SecondPoll, Settled
  PROVE  Doubt' \/ Settled'
<1>0. SecondStep /\ \A q \in Node : AtRest(q)
  BY RouterSecond, SettledRests
<1>1. /\ RouterInv /\ Descent /\ DOMAIN chan = Node
      /\ rpc \in [Node -> {"select", "send", "update", "reply", "exit", "assert"}]
      /\ \A q \in Node : completed[q] = <<q, curr[q]>>
  BY DEF VerdictInv, RouterInv, RouterTyped, Settled, Same
<1>2. \A q \in Node \ {r} : curr'[q] = curr[q] /\ rpc'[q] = rpc[q]
  BY <1>1, RouterMoves
<1>3. \/ Out' = Out /\ UNCHANGED replies
      \/ Reply(r) /\ r \in Out /\ Out' = Out \ {r}
  BY RouterOut DEF VerdictInv, PollInv
<1>4. \A q \in Node \ {r} : Answered(q)' <=> Answered(q)
  BY <1>0, <1>3 DEF Answered, SecondStep
<1>5. ASSUME curr'[r] = curr[r], \A q \in Node \ {r} : chan'[q] = chan[q],
             Answered(r)' \/ rpc'[r] = "reply" => chan'[r] = <<>>,
             Answered(r)' => rpc'[r] # "update"
      PROVE  Settled'
  <2>1. \A q \in Node : completed'[q] = <<q, curr'[q]>>
    BY <1>0, <1>1, <1>2, <1>5 DEF SecondStep
  <2>2. \A q \in Node : (Answered(q)' \/ rpc'[q] = "reply" => chan'[q] = <<>>)
                        /\ (Answered(q)' => rpc'[q] # "update")
    BY <1>2, <1>4, <1>5 DEF Settled
  <2> QED
    BY <2>1, <2>2 DEF Settled, Same
<1>6. CASE Pass(r) \/ \E n \in Node : SendTo(r, n)
  BY <1>0, <1>6 DEF AtRest, Pass, SendTo
<1>7. CASE Nothing(r) \/ Exit(r)
  <2>1. /\ UNCHANGED <<chan, curr>> /\ rpc[r] \notin {"reply", "update"}
        /\ rpc'[r] \notin {"reply", "update"}
    BY <1>1, <1>7 DEF Nothing, Exit
  <2>2. Answered(r)' <=> Answered(r)
    BY <1>0, <1>3, <2>1 DEF Answered, SecondStep, Reply
  <2> QED
    BY <1>5, <2>1, <2>2 DEF Settled
<1>8. CASE Receive(r)
  <2>1. chan[r] # <<>> /\ chan' = [chan EXCEPT ![r] = <<>>] /\ UNCHANGED curr /\ rpc[r] = "select"
    BY <1>8 DEF Receive
  <2>2. ~Answered(r) /\ ~Reply(r)
    BY <2>1 DEF Settled, Reply
  <2>3. ~Answered(r)'
    BY <1>0, <1>3, <2>2 DEF Answered, SecondStep
  <2> QED
    BY <1>1, <1>5, <2>1, <2>3
<1>9. CASE Update(r)
  <2>1. UNCHANGED chan /\ rpc[r] = "update" /\ rpc' = [rpc EXCEPT ![r] = "select"]
    BY ZenonT(60), <1>9 DEF Update
  <2>2. ~Answered(r) /\ ~Reply(r)
    BY <2>1 DEF Settled, Reply
  <2>3. ~Answered(r)'
    BY <1>0, <1>3, <2>2 DEF Answered, SecondStep
  <2>4. CASE curr'[r] = curr[r]
    BY <1>1, <1>5, <2>1, <2>3, <2>4
  <2>5. CASE curr'[r] # curr[r]
    <3>1. completed'[r] = <<r, curr[r]>> /\ <<r, curr[r]>> # <<r, curr'[r]>>
      BY <1>0, <1>1, <2>5 DEF SecondStep
    <3> QED
      BY <2>3, <3>1 DEF Doubt, Same
  <2> QED
    BY <2>4, <2>5
<1>10. CASE Reply(r)
  <2>1. UNCHANGED chan /\ rpc[r] = "reply" /\ rpc' = [rpc EXCEPT ![r] = "select"]
        /\ Round(r, pending[r], changed[r], vector[r][NextSlot(r)])
    BY <1>10 DEF Reply
  <2>2. curr' = curr
    BY <1>0, <2>1 DEF AtRest, Round
  <2>3. chan[r] = <<>>
    BY <2>1 DEF Settled
  <2> QED
    BY <1>1, <1>5, <2>1, <2>2, <2>3
<1> QED
  BY <1>6, <1>7, <1>8, <1>9, <1>10 DEF RouterStep

LEMMA PointerParts ==
  ASSUME NEW p \in Pointer \cup {NULL}, p # NULL
  PROVE  p \in Pointer /\ p[1] \in Node /\ p[2] \in Slot /\ p = <<p[1], p[2]>>
BY DEF Pointer, Slot

\* Through the pointers, main tells any two vectors of a router apart.
LEMMA CompareTells ==
  ASSUME VerdictInv, Hear, mpc = "hear again", valid'
  PROVE  valid /\ ~Differs(Head(replies)) /\ UNCHANGED completed
<1> DEFINE a == Head(replies)
           p == completed[a[1]]
<1>0. SecondPoll /\ mpc # "hear"
  BY ZenonT(40) DEF SecondPoll
<1>1. /\ a \in Pointer \cup {NULL} /\ completed \in [Node -> Pointer \cup {NULL}]
      /\ \A q \in Node : completed[q] # NULL /\ completed[q][1] = q
  BY ZenonT(60), <1>0, RepliesTypes DEF VerdictInv, RouterInv, RouterTyped, Hear, Verdict, SecondAnswers, PollInv, Named
<1>2. Compare(a)
  BY ZenonT(40), <1>0 DEF Hear
<1>3. /\ valid' = (valid /\ a # NULL /\ vector[p[1]][p[2]].epoch = vector[a[1]][a[2]].epoch)
      /\ UNCHANGED completed
  BY ZenonT(60), <1>2 DEF Compare
<1>4. valid /\ a # NULL /\ vector[p[1]][p[2]].epoch = vector[a[1]][a[2]].epoch
  BY <1>3
<1> HIDE DEF a
<1>5. a \in Pointer /\ a[1] \in Node /\ a[2] \in Slot /\ a = <<a[1], a[2]>>
  BY <1>1, <1>4, PointerParts
<1>6. p \in Pointer /\ p[1] = a[1] /\ p[2] \in Slot /\ p = <<p[1], p[2]>>
  BY <1>1, <1>5, PointerParts
<1> HIDE DEF p
<1>7. vector[a[1]][p[2]].epoch % 4 = p[2] /\ vector[a[1]][a[2]].epoch % 4 = a[2]
  BY <1>5, <1>6 DEF VerdictInv, Epochs
<1>8. a[2] = p[2]
  BY <1>4, <1>6, <1>7
<1>9. a = p
  BY <1>5, <1>6, <1>8
<1>10. ~Differs(a)
  BY <1>4, <1>9 DEF Differs, p
<1> QED
  BY <1>3, <1>4, <1>10 DEF a

LEMMA AskSecond ==
  ASSUME VerdictInv, Ask, SecondPoll'
  PROVE  SecondAnswers'
<1>1. /\ Out' = Out \cup {count} /\ count \notin Out /\ count \in Node /\ SecondPoll
      /\ UNCHANGED <<routerVars, replies, valid, completed>>
      /\ \A q \in Node : Answered(q)' => Answered(q)
      /\ \A q \in Node \ {count} : chan'[q] = chan[q]
  BY AskPoll DEF VerdictInv
<1>2. UNCHANGED <<curr, rpc>>
  BY <1>1 DEF routerVars
<1>3. (\A q \in Node : completed[q] # NULL) /\ (Doubt \/ Settled)
  BY <1>1 DEF VerdictInv, Verdict, SecondAnswers
<1>4. CASE Doubt
  BY <1>1, <1>2, <1>3, <1>4 DEF SecondAnswers, Doubt, Differs, Same
<1>5. CASE Settled
  <2>1. ASSUME NEW q \in Node
        PROVE  (Same(q) /\ (Answered(q) \/ rpc[q] = "reply" => chan[q] = <<>>) /\ (Answered(q) => rpc[q] # "update"))'
    <3>1. Same(q)' /\ (Answered(q)' => rpc'[q] # "update")
      BY <1>1, <1>2, <1>5 DEF Settled, Same
    <3>2. Answered(q)' \/ rpc'[q] = "reply" => q # count
      BY <1>1, <1>2 DEF Answered, Out
    <3>3. Answered(q)' \/ rpc'[q] = "reply" => chan'[q] = <<>>
      BY <1>1, <1>2, <1>5, <3>2 DEF Settled
    <3> QED
      BY <3>1, <3>3
  <2>2. Settled'
    BY <2>1 DEF Settled
  <2> QED
    BY <1>1, <1>3, <2>2 DEF SecondAnswers
<1> QED
  BY <1>3, <1>4, <1>5

LEMMA HearSecond ==
  ASSUME VerdictInv, Hear, SecondPoll'
  PROVE  SecondAnswers'
<1>1. /\ Out' = Out /\ replies # <<>> /\ replies' = <<>> /\ Hearing
      /\ UNCHANGED <<chan, rpc, curr>>
      /\ \/ count < Nodes /\ mpc' = mpc
         \/ /\ count = Nodes /\ Out = {}
            /\ mpc' = IF ~valid' THEN "sleep" ELSE IF mpc = "hear" THEN "ask again" ELSE "check"
  BY HearPoll DEF VerdictInv, routerVars
<1>2. \/ mpc' = mpc
      \/ count = Nodes /\ Out = {} /\ mpc = "hear" /\ mpc' = "ask again" /\ valid'
  BY <1>1, Zenon DEF SecondPoll
<1>3. CASE mpc' = mpc
  <2>1. SecondPoll /\ mpc = "hear again" /\ (Asking' <=> Asking) /\ ~Asking
    BY <1>1, <1>3, Zenon DEF SecondPoll, Hearing, Asking
  <2>2. (\A q \in Node : completed[q] # NULL) /\ (Doubt \/ Settled)
    BY <2>1 DEF VerdictInv, Verdict, SecondAnswers
  <2>3. \A q \in Node : Answered(q)' <=> Answered(q)
    BY <1>1, <2>1 DEF Answered
  <2>4. UNCHANGED completed
    BY ZenonT(40), <2>1 DEF Hear, Compare
  <2>5. CASE ~valid'
    BY <2>2, <2>4, <2>5 DEF SecondAnswers, Doubt
  <2>6. CASE valid'
    <3>1. valid /\ ~Differs(Head(replies))
      BY <2>1, <2>6, CompareTells
    <3>2. CASE Settled
      <4>1. Settled'
        BY <1>1, <2>3, <2>4, <3>2 DEF Settled, Same
      <4> QED
        BY <2>2, <2>4, <4>1 DEF SecondAnswers
    <3>3. CASE Doubt
      <4>1. \E q \in Node : ~Same(q) /\ ~Answered(q)
        BY <3>1, <3>3 DEF Doubt
      <4>2. Doubt'
        BY <1>1, <2>3, <2>4, <4>1 DEF Doubt, Same
      <4> QED
        BY <2>2, <2>4, <4>2 DEF SecondAnswers
    <3> QED
      BY <2>2, <3>2, <3>3
  <2> QED
    BY <2>5, <2>6
<1>4. CASE count = Nodes /\ Out = {} /\ mpc = "hear" /\ mpc' = "ask again" /\ valid'
  <2> DEFINE a == Head(replies)
  <2>1. /\ FirstPoll /\ ~Asking /\ Asking'
    BY <1>4, Zenon DEF FirstPoll, Asking
  <2>2. count' = 1
    BY <1>1, <1>4 DEF Hear
  <2>3. valid /\ a # NULL /\ completed' = [completed EXCEPT ![a[1]] = a]
    BY <1>4 DEF Hear, Note
  <2>4. replies = <<a>> /\ completed \in [Node -> Pointer \cup {NULL}]
    BY <1>1, RepliesTypes DEF VerdictInv, RouterInv, RouterTyped
  <2>5. replies # <<NULL>>
    BY <2>3, <2>4, NotNull
  <2>6. \A q \in Node : Answered(q)
    BY <1>4, <2>1 DEF Answered
  <2>7. \A q \in Node : completed[q] # NULL \/ a[1] = q
    BY <2>1, <2>3, <2>5, <2>6 DEF VerdictInv, PollInv, FirstAnswers
  <2> HIDE DEF a
  <2>8. \A q \in Node : completed'[q] # NULL
    BY <2>3, <2>4, <2>7
  <2>9. \A q \in Node : ~Answered(q)' /\ rpc'[q] # "reply"
    <3> SUFFICES ASSUME NEW q \in Node PROVE ~Answered(q)' /\ rpc'[q] # "reply"
      OBVIOUS
    <3>1. rpc'[q] # "reply"
      BY <1>1, <1>4 DEF Out
    <3>2. ~(q < 1)
      BY RouterAssumption DEF Node
    <3> QED
      BY <2>1, <2>2, <3>1, <3>2 DEF Answered
  <2>10. Doubt' \/ Settled'
    BY <2>9 DEF Doubt, Settled
  <2> QED
    BY <2>8, <2>10 DEF SecondAnswers
<1> QED
  BY <1>2, <1>3, <1>4

LEMMA StepSecond ==
  ASSUME VerdictInv, [Next]_vars, [NoReturn]_vars
  PROVE  SecondAnswers'
<1> SUFFICES ASSUME SecondPoll' PROVE SecondAnswers'
  BY DEF SecondAnswers
<1>1. CASE UNCHANGED vars
  <2>1. UNCHANGED <<chan, curr, rpc, replies, mpc, count, valid, completed>>
    BY <1>1 DEF vars, routerVars, mainVars
  <2>2. SecondPoll /\ \A q \in Node : Answered(q)' <=> Answered(q)
    BY <2>1 DEF SecondPoll, Answered, Out, Asking
  <2>3. (Doubt' <=> Doubt) /\ (Settled' <=> Settled)
    BY <2>1, <2>2 DEF Doubt, Settled, Same, Differs
  <2> QED
    BY <2>1, <2>2, <2>3 DEF VerdictInv, Verdict, SecondAnswers
<1>2. ASSUME NEW r \in Node, RouterStep(r) PROVE SecondAnswers'
  <2>1. UNCHANGED <<mpc, completed>>
    BY <1>2, RouterOut DEF VerdictInv, PollInv, mainVars
  <2>2. SecondPoll
    BY <2>1 DEF SecondPoll
  <2>3. (\A q \in Node : completed[q] # NULL) /\ (Doubt \/ Settled)
    BY <2>2 DEF VerdictInv, Verdict, SecondAnswers
  <2>4. Doubt' \/ Settled'
    BY <1>2, <2>2, <2>3, DoubtRouter, SettledRouter
  <2> QED
    BY <2>1, <2>3, <2>4 DEF SecondAnswers
<1>3. CASE Ask
  BY <1>3, AskSecond
<1>4. CASE Hear
  BY <1>4, HearSecond
<1>5. CASE Check \/ Join \/ Sleep
  BY <1>5, Zenon DEF Check, Join, Sleep, SecondPoll
<1> QED
  BY <1>1, <1>2, <1>3, <1>4, <1>5 DEF Next, MainStep

\* Where nothing is under way, nothing comes under way.
LEMMA QuietRouter ==
  ASSUME RouterInv, NEW r \in Node, RouterStep(r), Quiet
  PROVE  Exit(r) /\ Quiet' /\ rpc'[r] = "exit" /\ UNCHANGED <<curr, vector, completed>>
<1>1. chan[r] = <<>> /\ rpc[r] \in {"select", "exit"} /\ pending[r] = {} /\ ~changed[r]
  BY DEF Quiet
<1>2. Exit(r)
  <2>1. ~Pass(r) /\ ~Nothing(r) /\ ~Receive(r) /\ ~Reply(r) /\ ~Update(r)
    BY <1>1 DEF Pass, Nothing, Receive, Reply, Update
  <2>2. ~\E n \in Node : SendTo(r, n)
    BY <1>1 DEF SendTo
  <2> QED
    BY SMTT(40), <2>1, <2>2 DEF RouterStep
<1>3. /\ rpc' = [rpc EXCEPT ![r] = "exit"] /\ DOMAIN rpc = Node
      /\ UNCHANGED <<chan, vector, curr, pending, changed, completed>>
  BY <1>1, <1>2 DEF Exit, mainVars, RouterInv, RouterTyped
<1>4. Quiet'
  BY <1>3 DEF Quiet
<1> QED
  BY <1>2, <1>3, <1>4

\* The last answer of the second round finds everyone quiet.
LEMMA VerdictQuiet ==
  ASSUME VerdictInv, Hear, mpc' = "check"
  PROVE  (Quiet /\ \A r \in Node : Same(r))'
<1>1. /\ Hearing /\ UNCHANGED <<chan, routerVars>>
      /\ \/ count < Nodes /\ mpc' = mpc
         \/ /\ count = Nodes /\ Out = {}
            /\ mpc' = IF ~valid' THEN "sleep" ELSE IF mpc = "hear" THEN "ask again" ELSE "check"
  BY HearPoll DEF VerdictInv
<1>2. mpc = "hear again" /\ valid' /\ Out = {} /\ SecondPoll /\ ~Asking
  BY ZenonT(40), <1>1 DEF Hearing, SecondPoll, Asking
<1>3. valid /\ ~Differs(Head(replies)) /\ UNCHANGED completed
  BY <1>2, CompareTells
<1>4. \A r \in Node : Answered(r)
  BY <1>2 DEF Answered
<1>5. Settled
  BY <1>2, <1>3, <1>4 DEF VerdictInv, Verdict, SecondAnswers, Doubt
<1>6. \A r \in Node : AtRest(r)
  BY <1>2, <1>5, SettledRests
<1>7. ASSUME NEW r \in Node
      PROVE  chan[r] = <<>> /\ rpc[r] \in {"select", "exit"} /\ pending[r] = {} /\ ~changed[r]
  <2>1. chan[r] = <<>> /\ rpc[r] # "update" /\ pending[r] = {} /\ ~changed[r]
    BY <1>4, <1>5, <1>6 DEF Settled, AtRest
  <2>2. rpc[r] # "reply"
    BY <1>2 DEF Out
  <2>3. rpc[r] # "send" /\ rpc[r] # "assert"
    BY <2>1 DEF VerdictInv, Descent, Places, Verdict, Stopping
  <2>4. rpc[r] \in {"select", "send", "update", "reply", "exit", "assert"}
    BY DEF VerdictInv, RouterInv, RouterTyped
  <2> QED
    BY <2>1, <2>2, <2>3, <2>4
<1>8. Quiet'
  BY <1>1, <1>7 DEF Quiet, routerVars
<1>9. \A r \in Node : Same(r)'
  BY <1>1, <1>3, <1>5 DEF Settled, Same, routerVars
<1> QED
  BY <1>8, <1>9

LEMMA StepFinal ==
  ASSUME VerdictInv, [Next]_vars
  PROVE  Final'
<1> SUFFICES ASSUME mpc' \in {"check", "join", "end"}
             PROVE  (Quiet /\ \A r \in Node : Same(r))'
  BY DEF Final
<1>0. mpc \in {"check", "join", "end"} => Quiet /\ \A r \in Node : Same(r)
  BY DEF VerdictInv, Verdict, Final
<1>1. CASE UNCHANGED vars
  <2>1. UNCHANGED <<chan, rpc, pending, changed, curr, completed, mpc>>
    BY <1>1 DEF vars, routerVars, mainVars
  <2> QED
    BY <1>0, <2>1 DEF Quiet, Same
<1>2. ASSUME NEW r \in Node, RouterStep(r) PROVE (Quiet /\ \A q \in Node : Same(q))'
  <2>1. UNCHANGED mpc
    BY <1>2, RouterOut DEF VerdictInv, PollInv, mainVars
  <2>2. Quiet /\ \A q \in Node : Same(q)
    BY <1>0, <2>1
  <2>3. Quiet' /\ UNCHANGED <<curr, completed>>
    BY <1>2, <2>2, QuietRouter DEF VerdictInv
  <2> QED
    BY <2>2, <2>3 DEF Same
<1>3. CASE Ask
  <2>1. mpc' \notin {"check", "join", "end"}
    <3>1. FirstPoll' \/ SecondPoll'
      BY <1>3, AskPoll, Modes DEF VerdictInv, ModesIs
    <3> QED
      BY ZenonT(40), <3>1 DEF FirstPoll, SecondPoll
  <2> QED
    BY <2>1
<1>4. CASE Hear
  <2>1. mpc' = "check"
    <3>1. /\ Hearing
          /\ \/ mpc' = mpc
             \/ mpc' = IF ~valid' THEN "sleep" ELSE IF mpc = "hear" THEN "ask again" ELSE "check"
      BY <1>4, HearPoll DEF VerdictInv
    <3> QED
      BY ZenonT(40), <3>1 DEF Hearing
  <2> QED
    BY <1>4, <2>1, VerdictQuiet
<1>5. CASE Check \/ Join
  <2>1. mpc \in {"check", "join", "end"} /\ UNCHANGED <<chan, routerVars, completed>>
    BY <1>5 DEF Check, Join
  <2> QED
    BY <1>0, <2>1 DEF Quiet, Same, routerVars
<1>6. CASE Sleep
  BY <1>6 DEF Sleep
<1> QED
  BY <1>1, <1>2, <1>3, <1>4, <1>5, <1>6 DEF Next, MainStep

\* Main's comparison with floyd_warshall's distances succeeds.
LEMMA CheckSucceeds ==
  ASSUME VerdictInv, Check
  PROVE  mpc' = "join" /\ stopped'
<1>1. mpc = "check" /\ Quiet /\ \A r \in Node : completed[r] = <<r, curr[r]>>
  BY DEF Check, VerdictInv, Verdict, Final, Same
<1>2. \A r \in Node : vector[r][curr[r]].dist = Solution(topology)[r]
  BY <1>1, DescentSolves DEF VerdictInv, QuietIsSolved, CurrDist
<1>3. \A r \in Node : completed[r][2] = curr[r]
  BY <1>1
<1>4. \A r \in Node : vector[r][completed[r][2]].dist = Solution(topology)[r]
  BY <1>2, <1>3
<1> QED
  BY <1>4 DEF Check

LEMMA StepStopping ==
  ASSUME VerdictInv, [Next]_vars
  PROVE  Stopping'
<1>0. /\ stopped <=> mpc \in {"join", "end"}
      /\ mpc # "assert"
      /\ \A r \in Node : rpc[r] # "assert" /\ (rpc[r] = "exit" => stopped)
  BY DEF VerdictInv, Verdict, Stopping
<1>1. ASSUME UNCHANGED rpc, stopped => stopped', stopped' <=> mpc' \in {"join", "end"}, mpc' # "assert"
      PROVE  Stopping'
  BY <1>0, <1>1 DEF Stopping
<1>2. CASE UNCHANGED vars
  BY <1>0, <1>2 DEF Stopping, vars, routerVars, mainVars
<1>3. ASSUME NEW r \in Node, RouterStep(r) PROVE Stopping'
  <2>0. UNCHANGED <<mpc, stopped>> /\ RouterInv /\ Descent
    BY <1>3, RouterOut DEF VerdictInv, PollInv, mainVars
  <2>1. \A q \in Node \ {r} : rpc'[q] = rpc[q]
    BY <1>3, <2>0, RouterMoves
  <2>2. rpc'[r] # "assert" /\ (rpc'[r] = "exit" => stopped)
    <3>0. DOMAIN rpc = Node
      BY DEF VerdictInv, RouterInv, RouterTyped
    <3>1. CASE Pass(r) \/ Nothing(r) \/ Receive(r) \/ Reply(r)
      BY <3>0, <3>1 DEF Pass, Nothing, Receive, Reply
    <3>2. ASSUME NEW n \in Node, SendTo(r, n)
          PROVE  rpc'[r] # "assert" /\ (rpc'[r] = "exit" => stopped)
      BY <3>0, <3>2 DEF SendTo
    <3>3. CASE Update(r)
      <4>1. rpc' = [rpc EXCEPT ![r] = "select"]
        BY ZenonT(60), <3>3 DEF Update
      <4> QED
        BY <3>0, <4>1
    <3>4. CASE Exit(r)
      <4>1. stopped
        BY <3>4 DEF Exit
      <4>2. Quiet
        BY <1>0, <4>1 DEF VerdictInv, Verdict, Final
      <4> QED
        BY <1>3, <2>0, <4>1, <4>2, QuietRouter
    <3> QED
      BY <1>3, <3>1, <3>2, <3>3, <3>4 DEF RouterStep
  <2> QED
    BY <1>0, <2>0, <2>1, <2>2 DEF Stopping
<1>4. CASE Ask
  <2>1. mpc \notin {"join", "end"} /\ mpc' \notin {"join", "end", "assert"}
    <3>1. (FirstPoll \/ SecondPoll) /\ (FirstPoll' \/ SecondPoll')
      BY <1>4, AskPoll, Modes DEF VerdictInv, ModesIs
    <3> QED
      BY ZenonT(40), <3>1 DEF FirstPoll, SecondPoll
  <2>2. UNCHANGED <<rpc, stopped>>
    BY <1>4 DEF Ask, routerVars
  <2> QED
    BY <1>0, <1>1, <2>1, <2>2
<1>5. CASE Hear
  <2>1. mpc \notin {"join", "end"} /\ mpc' \notin {"join", "end", "assert"}
    <3>1. /\ Hearing
          /\ \/ mpc' = mpc
             \/ mpc' = IF ~valid' THEN "sleep" ELSE IF mpc = "hear" THEN "ask again" ELSE "check"
      BY <1>5, HearPoll DEF VerdictInv
    <3> QED
      BY ZenonT(40), <3>1 DEF Hearing
  <2>2. UNCHANGED <<rpc, stopped>>
    BY <1>5 DEF Hear, routerVars
  <2> QED
    BY <1>0, <1>1, <2>1, <2>2
<1>6. CASE Check
  <2>1. mpc' = "join" /\ stopped' /\ UNCHANGED rpc
    BY <1>6, CheckSucceeds DEF Check, routerVars
  <2> QED
    BY <1>1, <2>1
<1>7. CASE Sleep \/ Join
  <2>1. /\ UNCHANGED <<rpc, stopped>>
        /\ \/ mpc = "sleep" /\ mpc' = "ask"
           \/ mpc = "join" /\ mpc' = "end"
    BY <1>7 DEF Sleep, Join, routerVars
  <2> QED
    BY <1>0, <1>1, <2>1
<1> QED
  BY <1>2, <1>3, <1>4, <1>5, <1>6, <1>7 DEF Next, MainStep

LEMMA StepVerdict ==
  ASSUME VerdictInv, [Next]_vars, [NoReturn]_vars
  PROVE  VerdictInv'
<1>1. RouterInv' /\ Descent' /\ Epochs' /\ PollInv'
  BY StepInv, StepDescent, StepEpochs, StepPoll DEF VerdictInv
<1>2. Verdict'
  BY StepIdle, StepSecond, StepFinal, StepStopping DEF Verdict
<1> QED
  BY <1>1, <1>2 DEF VerdictInv

LEMMA StartVerdict ==
  ASSUME Init
  PROVE  VerdictInv
<1>1. RouterInv /\ Descent /\ Epochs /\ PollInv
  BY StartInv, StartDescent, StartEpochs, StartPoll
<1>2. /\ \A r \in Node : completed[r] = NULL /\ rpc[r] = "select"
      /\ replies = <<>> /\ mpc = "ask" /\ stopped = FALSE
  BY DEF Init
<1>3. Idle
  BY <1>2, NotNull DEF Idle, Kept
<1>4. SecondAnswers
  BY ZenonT(40), <1>2 DEF SecondAnswers, SecondPoll
<1>5. Final /\ Stopping
  BY <1>2 DEF Final, Stopping
<1> QED
  BY <1>1, <1>3, <1>4, <1>5 DEF VerdictInv, Verdict

LEMMA VerdictHolds ==
  ASSUME VerdictInv
  PROVE  VerdictIsFinal /\ AssertionsHold /\ VerdictReadsCurrent
<1>1. mpc \in {"check", "join", "end"} => Quiet /\ \A r \in Node : completed[r] = <<r, curr[r]>>
  BY DEF VerdictInv, Verdict, Final, Same
<1>2. VerdictIsFinal
  BY <1>1, DescentSolves DEF VerdictInv, QuietIsSolved, CurrDist, VerdictIsFinal
<1>3. VerdictReadsCurrent
  BY <1>1 DEF VerdictReadsCurrent
<1>4. AssertionsHold
  BY DEF VerdictInv, Verdict, Stopping, AssertionsHold
<1> QED
  BY <1>2, <1>3, <1>4

-----------------------------------------------------------------------------
(* Networks in which nobody can come back to a vector                      *)

\* A way over a neighbor that is shorter than the link is a shortest one.
BetterIsBest(t) ==
  \A r, m, i \in Node : \A x \in {t[m][i], Solution(t)[m][i]} :
    t[r][m] + x < t[r][i] => t[r][m] + x = Solution(t)[r][i]

\* A router has at most three distances to improve.
FewToImprove(t) ==
  \A r \in Node : Cardinality({i \in Node : Solution(t)[r][i] < t[r][i]}) <= 3

NextEpoch(r) == vector[r][NextSlot(r)].epoch

Ahead ==
  \A r \in Node : /\ \A i \in Node : NextDist(r)[i] <= CurrDist(r)[i]
                  /\ changed[r] => \E i \in Node : NextDist(r)[i] < CurrDist(r)[i]

OneStep ==
  \A r \in Node : \A s \in Slot : \A i \in Node :
    vector[r][s].dist[i] \in {topology[r][i], Solution(topology)[r][i]}

\* The distances r has improved in its current vector.
Gained(r) == {i \in Node : CurrDist(r)[i] < topology[r][i]}

Bounded == \A r \in Node : NextEpoch(r) >= 3 /\ NextEpoch(r) <= 3 + Cardinality(Gained(r))

KeptEpochs ==
  \A r \in Node : \A p \in Pointer : Kept(r, p) => \E e \in 2..(NextEpoch(r) - 1) : p[2] = e % 4

Sparse == Ahead /\ OneStep /\ Bounded /\ KeptEpochs

SparseInv == RouterInv /\ Descent /\ Epochs /\ PollInv /\ Sparse

LEMMA GainedFinite ==
  ASSUME NEW S \in SUBSET Node
  PROVE  /\ IsFiniteSet(S) /\ Cardinality(S) \in Nat
         /\ \A T \in SUBSET S : IsFiniteSet(T) /\ Cardinality(T) \in Nat /\ Cardinality(T) <= Cardinality(S)
         /\ \A i \in Node \ S : Cardinality(S \cup {i}) = Cardinality(S) + 1
<1>1. IsFiniteSet(Node)
  BY RouterAssumption, FS_Interval DEF Node
<1>2. IsFiniteSet(S)
  BY <1>1, FS_Subset
<1>3. \A T \in SUBSET S : IsFiniteSet(T) /\ Cardinality(T) <= Cardinality(S)
  BY <1>2, FS_Subset
<1> QED
  BY <1>2, <1>3, FS_CardinalityType, FS_AddElement

LEMMA EpochTypes ==
  ASSUME RouterTyped, NEW r \in Node
  PROVE  NextEpoch(r) \in Nat
BY SlotsBehind DEF RouterTyped, NextEpoch, Vector

LEMMA RoundEpoch ==
  ASSUME RouterTyped, NEW r \in Node, NEW left, left \subseteq pending[r], NEW better,
         NEW next, Improves(r, better, next), Round(r, left, better, next)
  PROVE  /\ NextEpoch(r)' = IF left = {} /\ better THEN NextEpoch(r) + 1 ELSE NextEpoch(r)
         /\ \A q \in Node \ {r} : NextEpoch(q)' = NextEpoch(q)
<1> DEFINE slot == NextSlot(r)
           fresh == (slot + 1) % Buffers
           newer == [next EXCEPT !.epoch = @ + 1]
<1>1. vector \in [Node -> [Slot -> Vector]] /\ curr \in [Node -> Slot] /\ slot \in Slot /\ fresh \in Slot
  BY SlotsBehind DEF RouterTyped
<1>2. next \in Vector /\ next.epoch = NextEpoch(r)
  BY DEF Improves, NextEpoch
<1>3. newer.epoch = next.epoch + 1
  BY <1>2 DEF Vector
<1>4. fresh = (slot + 1) % Buffers
  OBVIOUS
<1>5. \A q \in Node \ {r} : NextEpoch(q)' = NextEpoch(q)
  BY ImprovesTypes, RoundIs DEF Alone, NextEpoch
<1> HIDE DEF slot, fresh, newer
<1>6. CASE left = {} /\ better
  <2>1. /\ curr' = [curr EXCEPT ![r] = slot]
        /\ vector' = [vector EXCEPT ![r][slot] = next, ![r][fresh] = newer]
    BY <1>6 DEF Round, slot, fresh, newer
  <2>2. NextSlot(r)' = fresh /\ vector'[r][fresh] = newer
    BY <1>1, <1>4, <2>1 DEF NextSlot
  <2> QED
    BY <1>2, <1>3, <1>5, <1>6, <2>2 DEF NextEpoch
<1>7. CASE ~(left = {} /\ better)
  <2>1. curr' = curr /\ vector' = [vector EXCEPT ![r][slot] = next]
    BY <1>7 DEF Round, slot
  <2>2. NextSlot(r)' = slot /\ vector'[r][slot] = next
    BY <1>1, <2>1 DEF NextSlot, slot
  <2> QED
    BY <1>2, <1>5, <1>7, <2>2 DEF NextEpoch
<1> QED
  BY <1>6, <1>7

\* Of every distance, a round writes the link's or the solution's.
StepsOnce(r, next) ==
  \A i \in Node : next.dist[i] \in {topology[r][i], Solution(topology)[r][i]}

\* A router's next vector is a better one when it becomes the current one.
LEMMA RoundSparse ==
  ASSUME RouterTyped, NeverLess, Ahead, OneStep, Bounded, NEW r \in Node, NEW left, left \subseteq pending[r],
         NEW better, NEW next, Improves(r, better, next), StepsOnce(r, next),
         Round(r, left, better, next), UNCHANGED topology
  PROVE  (Ahead /\ OneStep /\ Bounded)'
<1>1. /\ Alone(r) /\ NextDist(r)' = next.dist
      /\ \A s \in Slot : vector'[r][s].dist \in {next.dist, vector[r][s].dist}
      /\ IF left = {} /\ better THEN Advances(r, next) ELSE Stays(r, left, better)
  <2>1. next \in Vector /\ better \in BOOLEAN
    BY ImprovesTypes
  <2> QED
    BY <2>1, RoundIs
<1>2. /\ NextEpoch(r)' = IF left = {} /\ better THEN NextEpoch(r) + 1 ELSE NextEpoch(r)
      /\ \A q \in Node \ {r} : NextEpoch(q)' = NextEpoch(q)
  BY RoundEpoch
<1>3. /\ \A i \in Node : next.dist[i] <= NextDist(r)[i]
      /\ ~better => next.dist = NextDist(r) /\ ~changed[r]
      /\ better => changed[r] \/ \E i \in Node : next.dist[i] < NextDist(r)[i]
  BY DEF Improves
<1>4. /\ \A i \in Node : NextDist(r)[i] <= CurrDist(r)[i]
      /\ changed[r] => \E i \in Node : NextDist(r)[i] < CurrDist(r)[i]
  BY DEF Ahead
<1>5. \A i \in Node : next.dist[i] \in Nat /\ NextDist(r)[i] \in Nat /\ CurrDist(r)[i] \in Nat /\ topology[r][i] \in Nat
  BY DistTypes, RouterAssumption DEF Improves, Vector
<1>6. \A i \in Node : next.dist[i] <= CurrDist(r)[i]
  BY <1>3, <1>4, <1>5
<1>7. better => \E i \in Node : next.dist[i] < CurrDist(r)[i]
  BY <1>3, <1>4, <1>5
<1>8. OneStep'
  <2>1. \A q \in Node \ {r} : vector'[q] = vector[q]
    BY <1>1 DEF Alone
  <2> DEFINE sol == Solution(topology)
  <2>2. \A q \in Node : \A s \in Slot : \A i \in Node : vector[q][s].dist[i] \in {topology[q][i], sol[q][i]}
    BY DEF OneStep
  <2>3. \A i \in Node : next.dist[i] \in {topology[r][i], sol[r][i]}
    BY DEF StepsOnce
  <2> HIDE DEF sol
  <2>4. \A q \in Node : \A s \in Slot : \A i \in Node : vector'[q][s].dist[i] \in {topology[q][i], sol[q][i]}
    <3> SUFFICES ASSUME NEW q \in Node, NEW s \in Slot, NEW i \in Node
                 PROVE  vector'[q][s].dist[i] \in {topology[q][i], sol[q][i]}
      OBVIOUS
    <3>1. CASE q = r
      <4>1. vector'[r][s].dist \in {next.dist, vector[r][s].dist}
        BY <1>1
      <4> QED
        BY <2>2, <2>3, <3>1, <4>1
    <3>2. CASE q # r
      BY <2>1, <2>2, <3>2
    <3> QED
      BY <3>1, <3>2
  <2> QED
    BY <2>4 DEF OneStep, sol
<1>9. ASSUME NEW q \in Node, q # r
      PROVE  /\ NextDist(q)' = NextDist(q) /\ CurrDist(q)' = CurrDist(q) /\ changed'[q] = changed[q]
             /\ NextEpoch(q)' = NextEpoch(q) /\ Gained(q)' = Gained(q)
  BY <1>1, <1>2, <1>9 DEF Alone, Gained
<1>10. CASE left = {} /\ better
  <2>1. CurrDist(r)' = next.dist /\ ~changed'[r]
    BY <1>1, <1>10 DEF Advances
  <2>2. PICK i \in Node : next.dist[i] < CurrDist(r)[i]
    BY <1>7, <1>10
  <2>3. CurrDist(r)[i] = topology[r][i] /\ i \notin Gained(r)
    <3> DEFINE x == Solution(topology)[r][i]
    <3>1. curr[r] \in Slot
      BY DEF RouterTyped
    <3>2. CurrDist(r)[i] \in {topology[r][i], x}
      BY <3>1 DEF OneStep, CurrDist
    <3>3. x <= next.dist[i]
      BY DEF Improves
    <3>4. x \in Nat
      BY SolutionIs, RouterAssumption DEF IsRelaxed, Matrix, RouterTyped
    <3> HIDE DEF x
    <3>5. CurrDist(r)[i] # x
      BY <1>5, <2>2, <3>3, <3>4
    <3> QED
      BY <1>5, <3>2, <3>5 DEF Gained
  <2>4. Gained(r) \cup {i} \subseteq Gained(r)'
    <3> SUFFICES ASSUME NEW j \in Gained(r) \cup {i} PROVE j \in Node /\ next.dist[j] < topology[r][j]
      BY <2>1 DEF Gained
    <3>1. CASE j = i
      BY <2>2, <2>3, <3>1
    <3>2. CASE j \in Gained(r)
      <4>1. j \in Node /\ CurrDist(r)[j] < topology[r][j] /\ next.dist[j] <= CurrDist(r)[j]
        BY <1>6, <3>2 DEF Gained
      <4> QED
        BY <1>5, <4>1
    <3> QED
      BY <3>1, <3>2
  <2>5. Cardinality(Gained(r)') >= Cardinality(Gained(r)) + 1 /\ Cardinality(Gained(r)') \in Nat /\ Cardinality(Gained(r)) \in Nat
    <3>1. Gained(r) \in SUBSET Node /\ Gained(r)' \in SUBSET Node
      BY DEF Gained
    <3>2. Cardinality(Gained(r) \cup {i}) = Cardinality(Gained(r)) + 1
      BY <2>3, <3>1, GainedFinite
    <3>3. Cardinality(Gained(r) \cup {i}) <= Cardinality(Gained(r)')
      BY <2>4, <3>1, GainedFinite
    <3>4. Cardinality(Gained(r)') \in Nat /\ Cardinality(Gained(r)) \in Nat
      BY <3>1, GainedFinite
    <3> QED
      BY <3>2, <3>3, <3>4
  <2>6. NextEpoch(r)' = NextEpoch(r) + 1 /\ NextEpoch(r) \in Nat
    BY <1>2, <1>10, EpochTypes
  <2>7. NextEpoch(r)' >= 3 /\ NextEpoch(r)' <= 3 + Cardinality(Gained(r)')
    <3>1. NextEpoch(r) >= 3 /\ NextEpoch(r) <= 3 + Cardinality(Gained(r))
      BY DEF Bounded
    <3> QED
      BY <2>5, <2>6, <3>1
  <2>8. Bounded'
    BY <1>9, <2>7 DEF Bounded
  <2>9. Ahead'
    <3>1. \A j \in Node : NextDist(r)'[j] <= CurrDist(r)'[j]
      BY <1>1, <1>5, <2>1
    <3> QED
      BY <1>9, <2>1, <3>1 DEF Ahead
  <2> QED
    BY <1>8, <2>8, <2>9
<1>11. CASE ~(left = {} /\ better)
  <2>1. CurrDist(r)' = CurrDist(r) /\ changed'[r] = better /\ NextEpoch(r)' = NextEpoch(r)
    BY <1>1, <1>2, <1>11 DEF Stays
  <2>2. Bounded'
    <3>1. Gained(r)' = Gained(r)
      BY <2>1 DEF Gained
    <3> QED
      BY <1>9, <2>1, <3>1 DEF Bounded
  <2>3. Ahead'
    <3>1. /\ \A j \in Node : NextDist(r)'[j] <= CurrDist(r)'[j]
          /\ changed'[r] => \E j \in Node : NextDist(r)'[j] < CurrDist(r)'[j]
      BY <1>1, <1>6, <1>7, <2>1
    <3> QED
      BY <1>9, <3>1 DEF Ahead
  <2> QED
    BY <1>8, <2>2, <2>3
<1> QED
  BY <1>10, <1>11

LEMMA SameSteps ==
  ASSUME RouterTyped, OneStep, NEW r \in Node
  PROVE  StepsOnce(r, vector[r][NextSlot(r)])
BY SlotsBehind DEF RouterTyped, OneStep, StepsOnce

\* A way over a neighbor that is read and taken is a shortest one.
LEMMA UpdateSteps ==
  ASSUME RouterTyped, OneStep, BetterIsBest(topology), NEW r \in Node, NEW next, Takes(r, next)
  PROVE  StepsOnce(r, next)
<1> DEFINE src == reading[r][1]
           x(i) == vector[src][reading[r][2]].dist[i]
           sol == Solution(topology)
<1>1. src \in Node /\ reading[r][2] \in Slot /\ NextSlot(r) \in Slot /\ topology \in Topologies
  BY SlotsBehind DEF Takes, RouterTyped
<1>2. ASSUME NEW i \in Node PROVE next.dist[i] \in {topology[r][i], sol[r][i]}
  <2>1. NextDist(r)[i] \in {topology[r][i], sol[r][i]}
    BY <1>1 DEF OneStep, NextDist
  <2>2. x(i) \in {topology[src][i], sol[src][i]}
    BY <1>1 DEF OneStep
  <2>3. /\ sol[r][i] <= topology[r][i] /\ sol[r][i] \in Nat /\ topology[r][i] \in Nat
        /\ topology[r][src] \in Nat /\ sol[src][i] \in Nat /\ topology[src][i] \in Nat
    BY <1>1, SolutionIs, TopologyIs, RouterAssumption DEF IsRelaxed, Matrix
  <2>4. topology[r][src] + x(i) < topology[r][i] => topology[r][src] + x(i) = sol[r][i]
    BY <1>1, <2>2 DEF BetterIsBest
  <2>5. \/ next.dist[i] = NextDist(r)[i]
        \/ next.dist[i] = topology[r][src] + x(i) /\ next.dist[i] < NextDist(r)[i]
    BY DEF Takes
  <2>6. CASE next.dist[i] = NextDist(r)[i]
    BY <2>1, <2>6
  <2>7. CASE next.dist[i] = topology[r][src] + x(i) /\ next.dist[i] < NextDist(r)[i]
    <3>1. x(i) \in Nat
      BY <2>2, <2>3
    <3> HIDE DEF src, x, sol
    <3>2. topology[r][src] + x(i) < topology[r][i]
      BY <2>1, <2>3, <2>7, <3>1
    <3> QED
      BY <2>4, <2>7, <3>2
  <2> QED
    BY <2>5, <2>6, <2>7
<1> QED
  BY <1>2 DEF StepsOnce

LEMMA RouterStepsOnce ==
  ASSUME RouterInv, Descent, OneStep, BetterIsBest(topology), NEW r \in Node, RouterStep(r)
  PROVE  /\ UNCHANGED topology
         /\ \/ UNCHANGED <<vector, curr, pending, changed>>
            \/ \E left, better, next :
                 /\ left \subseteq pending[r] /\ Round(r, left, better, next)
                 /\ Improves(r, better, next) /\ StepsOnce(r, next)
<1>0. RouterTyped /\ NeverLess /\ Unchanged
  BY DEF RouterInv, Descent
<1>1. CASE Pass(r) \/ Nothing(r) \/ Exit(r) \/ Receive(r)
  BY <1>1 DEF Pass, Nothing, Exit, Receive
<1>2. ASSUME NEW n \in Node, SendTo(r, n)
      PROVE  /\ UNCHANGED topology
             /\ \E left, better, next :
                  /\ left \subseteq pending[r] /\ Round(r, left, better, next)
                  /\ Improves(r, better, next) /\ StepsOnce(r, next)
  <2>1. Round(r, pending[r] \ {n}, changed[r], vector[r][NextSlot(r)]) /\ UNCHANGED topology
    BY <1>2 DEF SendTo
  <2>2. pending[r] \ {n} \subseteq pending[r]
    OBVIOUS
  <2> QED
    BY <1>0, <2>1, <2>2, SameImproves, SameSteps
<1>3. CASE Update(r)
  <2>1. UNCHANGED topology
    BY <1>3 DEF Update
  <2>2. PICK better, next : /\ Round(r, pending[r], better, next) /\ Improves(r, better, next)
                            /\ Takes(r, next)
    BY <1>0, <1>3, UpdateImproves
  <2>3. StepsOnce(r, next)
    BY <1>0, <2>2, UpdateSteps
  <2> QED
    BY ZenonT(40), <2>1, <2>2, <2>3
<1>4. CASE Reply(r)
  <2>1. Round(r, pending[r], changed[r], vector[r][NextSlot(r)]) /\ UNCHANGED topology
    BY <1>4 DEF Reply
  <2> QED
    BY <1>0, <2>1, SameImproves, SameSteps
<1> QED
  BY <1>1, <1>2, <1>3, <1>4 DEF RouterStep

\* A router's vectors stay as they are, or it goes on to the next one.
GoesOn(r) ==
  \/ curr'[r] = curr[r] /\ NextEpoch(r)' = NextEpoch(r)
  \/ curr'[r] = NextSlot(r) /\ NextEpoch(r)' = NextEpoch(r) + 1

LEMMA StepSparse ==
  ASSUME RouterInv, Descent, Sparse, BetterIsBest(topology), [Next]_vars
  PROVE  /\ (Ahead /\ OneStep /\ Bounded)' /\ UNCHANGED topology
         /\ \A r \in Node : GoesOn(r)
<1>0. Ahead /\ OneStep /\ Bounded /\ RouterTyped /\ NeverLess
  BY DEF Sparse, RouterInv, Descent
<1>1. ASSUME UNCHANGED <<vector, curr, changed, topology>>
      PROVE  (Ahead /\ OneStep /\ Bounded)' /\ \A r \in Node : GoesOn(r)
  <2>1. \A r \in Node : /\ NextDist(r)' = NextDist(r) /\ CurrDist(r)' = CurrDist(r)
                        /\ NextEpoch(r)' = NextEpoch(r) /\ Gained(r)' = Gained(r)
    BY <1>1 DEF NextDist, CurrDist, NextEpoch, Gained, NextSlot
  <2>2. Ahead'
    BY <1>0, <1>1, <2>1 DEF Ahead
  <2>3. OneStep'
    BY <1>0, <1>1 DEF OneStep
  <2>4. Bounded'
    BY <1>0, <2>1 DEF Bounded
  <2>5. \A r \in Node : GoesOn(r)
    BY <1>1, <2>1 DEF GoesOn
  <2> QED
    BY <2>2, <2>3, <2>4, <2>5
<1>2. CASE UNCHANGED vars
  BY <1>1, <1>2 DEF vars, routerVars
<1>3. CASE MainStep
  BY <1>1, <1>3, MainMoves
<1>4. ASSUME NEW r \in Node, RouterStep(r)
      PROVE  (Ahead /\ OneStep /\ Bounded)' /\ UNCHANGED topology /\ \A q \in Node : GoesOn(q)
  <2>1. UNCHANGED topology
    BY <1>0, <1>4, RouterStepsOnce
  <2>2. CASE UNCHANGED <<vector, curr, pending, changed>>
    BY <1>1, <2>1, <2>2
  <2>3. ASSUME NEW left, NEW better, NEW next, left \subseteq pending[r], Round(r, left, better, next),
               Improves(r, better, next), StepsOnce(r, next)
        PROVE  (Ahead /\ OneStep /\ Bounded)' /\ \A q \in Node : GoesOn(q)
    <3>1. (Ahead /\ OneStep /\ Bounded)'
      BY <1>0, <2>1, <2>3, RoundSparse
    <3>2. /\ NextEpoch(r)' = IF left = {} /\ better THEN NextEpoch(r) + 1 ELSE NextEpoch(r)
          /\ \A q \in Node \ {r} : NextEpoch(q)' = NextEpoch(q)
      BY <1>0, <2>3, RoundEpoch
    <3>3. next \in Vector /\ better \in BOOLEAN
      BY <2>3, ImprovesTypes
    <3>4. Alone(r) /\ IF left = {} /\ better THEN Advances(r, next) ELSE Stays(r, left, better)
      BY <1>0, <2>3, <3>3, RoundIs
    <3>5. ASSUME NEW q \in Node PROVE GoesOn(q)
      <4>1. CASE q # r
        BY <3>2, <3>4, <4>1 DEF Alone, GoesOn
      <4>2. CASE q = r /\ left = {} /\ better
        BY <3>2, <3>4, <4>2 DEF Advances, GoesOn
      <4>3. CASE q = r /\ ~(left = {} /\ better)
        BY <3>2, <3>4, <4>3 DEF Stays, GoesOn
      <4> QED
        BY <4>1, <4>2, <4>3
    <3> QED
      BY <3>1, <3>5
  <2> QED
    BY <1>0, <1>4, <2>1, <2>2, <2>3, RouterStepsOnce
<1> QED
  BY <1>1, <1>2, <1>3, <1>4, MainMoves DEF Next, vars

\* At most four current vectors, one after another: no slot comes back.
LEMMA FewEpochs ==
  ASSUME NEW t \in Topologies, FewToImprove(t), NEW r \in Node, NEW dist \in [Node -> 0..Inf],
         \A i \in Node : Solution(t)[r][i] <= dist[i], NEW epoch \in Nat,
         epoch >= 3, epoch <= 3 + Cardinality({i \in Node : dist[i] < t[r][i]})
  PROVE  epoch \in 3..6
<1> DEFINE S == {i \in Node : Solution(t)[r][i] < t[r][i]}
           T == {i \in Node : dist[i] < t[r][i]}
<1>1. T \subseteq S
  <2>1. ASSUME NEW i \in Node, dist[i] < t[r][i] PROVE Solution(t)[r][i] < t[r][i]
    <3>1. Solution(t)[r][i] \in Nat /\ dist[i] \in Nat /\ t[r][i] \in Nat /\ Solution(t)[r][i] <= dist[i]
      BY SolutionIs, TopologyIs, RouterAssumption DEF IsRelaxed, Matrix
    <3> QED
      BY <2>1, <3>1
  <2> QED
    BY <2>1
<1>2. Cardinality(T) \in Nat /\ Cardinality(S) \in Nat /\ Cardinality(T) <= Cardinality(S)
  <2>1. S \in SUBSET Node
    OBVIOUS
  <2> HIDE DEF S, T
  <2> QED
    BY <1>1, <2>1, GainedFinite
<1>3. Cardinality(S) <= 3
  BY DEF FewToImprove
<1> HIDE DEF S
<1> QED
  BY <1>2, <1>3

LEMMA SlotOfEpoch ==
  ASSUME RouterTyped, Epochs, NEW r \in Node, NextEpoch(r) \in 3..6
  PROVE  NextSlot(r) = NextEpoch(r) % 4 /\ curr[r] = (NextEpoch(r) - 1) % 4
<1>1. NextSlot(r) = NextEpoch(r) % 4 /\ curr[r] \in Slot
  BY SlotsBehind DEF Epochs, NextEpoch, RouterTyped
<1>2. NextSlot(r) = (curr[r] + 1) % 4
  BY DEF NextSlot, Buffers
<1> QED
  BY <1>1, <1>2 DEF Slot

LEMMA SlotsApart ==
  ASSUME NEW n \in 3..5, NEW e \in 2..(n - 1)
  PROVE  e % 4 # n % 4
<1>1. n \in {3, 4, 5} /\ e \in {2, 3, 4} /\ e < n
  OBVIOUS
<1> QED
  BY <1>1

LEMMA StepKept ==
  ASSUME SparseInv, [Next]_vars, \A q \in Node : NextEpoch(q) \in 3..6 /\ GoesOn(q)
  PROVE  KeptEpochs'
<1>0. RouterInv /\ RouterTyped /\ PollInv /\ Descent /\ Epochs /\ KeptEpochs
  BY DEF SparseInv, Sparse, RouterInv
<1>1. ASSUME NEW r \in Node, NEW p \in Pointer, Kept(r, p)'
      PROVE  \E e \in 2..(NextEpoch(r)' - 1) : p[2] = e % 4
  <2>1. NextEpoch(r) \in 3..6 /\ NextEpoch(r)' \in {NextEpoch(r), NextEpoch(r) + 1}
    BY DEF GoesOn
  <2>2. CASE Kept(r, p)
    <3>1. PICK e \in 2..(NextEpoch(r) - 1) : p[2] = e % 4
      BY <1>0, <2>2 DEF KeptEpochs
    <3>2. e \in 2..(NextEpoch(r)' - 1)
      BY <2>1
    <3> QED
      BY <3>1, <3>2
  <2>3. CASE p = <<r, curr[r]>>
    <3>1. p[2] = (NextEpoch(r) - 1) % 4
      BY <1>0, <2>1, <2>3, SlotOfEpoch
    <3>2. NextEpoch(r) - 1 \in 2..(NextEpoch(r)' - 1)
      BY <2>1
    <3> QED
      BY <3>1, <3>2
  <2> QED
    BY <1>0, <1>1, <2>2, <2>3, KeptStep
<1> QED
  BY <1>1 DEF KeptEpochs

\* In such a network a router has at most four current vectors, one after another:
\* it comes back to none that main points to.
EasyNetworks == \A t \in Topologies : BetterIsBest(t) /\ FewToImprove(t)

LEMMA StepSparseInv ==
  ASSUME EasyNetworks, SparseInv, [Next]_vars
  PROVE  SparseInv' /\ NoReturn
<1>0. /\ RouterInv /\ RouterTyped /\ PollInv /\ Descent /\ NeverLess /\ Epochs /\ Sparse
      /\ Bounded /\ KeptEpochs
  BY DEF SparseInv, Sparse, RouterInv, Descent
<1>1. topology \in Topologies /\ BetterIsBest(topology) /\ FewToImprove(topology)
  BY <1>0 DEF RouterTyped, EasyNetworks
<1>2. RouterInv' /\ Descent' /\ Epochs' /\ PollInv'
  BY <1>0, StepInv, StepDescent, StepEpochs, StepPoll
<1>3. (Ahead /\ OneStep /\ Bounded)' /\ UNCHANGED topology /\ \A r \in Node : GoesOn(r)
  BY <1>0, <1>1, StepSparse
<1>4. \A r \in Node : NextEpoch(r) \in 3..6
  <2>1. \A r \in Node : /\ CurrDist(r) \in [Node -> 0..Inf] /\ NextEpoch(r) \in Nat
                        /\ \A i \in Node : Solution(topology)[r][i] <= CurrDist(r)[i]
    BY <1>0, DistTypes, EpochTypes DEF NeverLess, CurrDist, RouterTyped
  <2> QED
    BY <1>0, <1>1, <2>1, FewEpochs DEF Bounded, Gained
<1>5. \A r \in Node : NextEpoch(r)' \in 3..6
  <2>1. RouterTyped' /\ NeverLess' /\ Bounded' /\ UNCHANGED topology
    BY <1>2, <1>3 DEF RouterInv, Descent
  <2>2. \A r \in Node : /\ CurrDist(r)' \in [Node -> 0..Inf]
                        /\ \A i \in Node : Solution(topology)[r][i] <= CurrDist(r)'[i]
    BY <2>1 DEF NeverLess, CurrDist, RouterTyped, Vector
  <2>3. \A r \in Node : NextEpoch(r)' \in Nat
    BY <1>3, <1>4 DEF GoesOn
  <2>4. ASSUME NEW r \in Node PROVE NextEpoch(r)' \in 3..6
    <3>1. Gained(r)' = {i \in Node : CurrDist(r)'[i] < topology[r][i]}
      BY <2>1 DEF Gained
    <3>2. NextEpoch(r)' >= 3 /\ NextEpoch(r)' <= 3 + Cardinality({i \in Node : CurrDist(r)'[i] < topology[r][i]})
      BY <2>1, <3>1 DEF Bounded
    <3> QED
      BY <1>1, <2>2, <2>3, <3>2, FewEpochs
  <2> QED
    BY <2>4
<1>6. KeptEpochs'
  BY <1>3, <1>4, StepKept
<1>7. NoReturn
  <2> SUFFICES ASSUME NEW r \in Node, NEW p \in Pointer, Kept(r, p), curr[r] # p[2], curr'[r] = p[2]
               PROVE  FALSE
    BY DEF NoReturn
  <2>1. curr'[r] = NextSlot(r) /\ NextEpoch(r)' = NextEpoch(r) + 1
    BY <1>3 DEF GoesOn
  <2>2. NextEpoch(r) \in 3..5
    BY <1>4, <1>5, <2>1
  <2>3. PICK e \in 2..(NextEpoch(r) - 1) : p[2] = e % 4
    BY <1>0 DEF KeptEpochs
  <2>4. NextSlot(r) = NextEpoch(r) % 4
    BY <1>0, <1>4, SlotOfEpoch
  <2> QED
    BY <2>1, <2>2, <2>3, <2>4, SlotsApart
<1> QED
  BY <1>2, <1>3, <1>6, <1>7 DEF SparseInv, Sparse

LEMMA StartSparse ==
  ASSUME Init
  PROVE  SparseInv
<1>1. RouterInv /\ Descent /\ Epochs /\ PollInv
  BY StartInv, StartDescent, StartEpochs, StartPoll
<1>2. \A r \in Node : curr[r] = 2 /\ changed[r] = FALSE
  BY DEF Init
<1>3. \A r \in Node : \A s \in Slot : vector[r][s].epoch = s /\ vector[r][s].dist = topology[r]
  BY DEF Init, Slot
<1>4. \A r \in Node : NextSlot(r) = 3 /\ curr[r] \in Slot /\ 3 \in Slot
  BY <1>2 DEF NextSlot, Buffers, Slot
<1>5. \A r \in Node : NextDist(r) = topology[r] /\ CurrDist(r) = topology[r] /\ NextEpoch(r) = 3
  BY <1>3, <1>4 DEF NextDist, CurrDist, NextEpoch
<1>6. Ahead
  <2>1. \A r \in Node : \A i \in Node : topology[r][i] \in Nat
    BY <1>1, TopologyIs DEF RouterInv, RouterTyped
  <2>2. \A r \in Node : \A i \in Node : NextDist(r)[i] <= CurrDist(r)[i]
    BY <1>5, <2>1
  <2> QED
    BY <1>2, <2>2 DEF Ahead
<1>7. OneStep
  BY <1>3 DEF OneStep
<1>8. Bounded
  <2>1. ASSUME NEW r \in Node PROVE Cardinality(Gained(r)) \in Nat
    <3>1. Gained(r) \in SUBSET Node
      BY DEF Gained
    <3> QED
      BY <3>1, GainedFinite
  <2>2. ASSUME NEW r \in Node PROVE NextEpoch(r) >= 3 /\ NextEpoch(r) <= 3 + Cardinality(Gained(r))
    BY <1>5, <2>1
  <2> QED
    BY <2>2 DEF Bounded
<1>9. KeptEpochs
  <2>1. replies = <<>> /\ \A r \in Node : completed[r] = NULL
    BY DEF Init
  <2>2. \A r \in Node : \A p \in Pointer : ~Kept(r, p)
    BY <2>1, NotNull DEF Kept
  <2> QED
    BY <2>2 DEF KeptEpochs
<1> QED
  BY <1>1, <1>6, <1>7, <1>8, <1>9 DEF SparseInv, Sparse

LEMMA NothingRecycled ==
  ASSUME EasyNetworks
  PROVE  Spec => NeverRecycled
<1>1. SparseInv /\ [Next]_vars => SparseInv' /\ [NoReturn]_vars
  BY StepSparseInv
<1> QED
  BY <1>1, StartSparse, PTL DEF Spec, NeverRecycled

\* The shortest ways of at most two links.
TwoLinks(t, s, e) == {t[s][m] + t[m][e] : m \in Node}
OverOne(t) ==
  [s \in Node |-> [e \in Node |-> CHOOSE x \in TwoLinks(t, s, e) : \A y \in TwoLinks(t, s, e) : x <= y]]

LEMMA OverOneIs ==
  ASSUME NEW t \in Topologies, NEW s \in Node, NEW e \in Node
  PROVE  /\ OverOne(t)[s][e] \in 0..Inf
         /\ \A m \in Node : OverOne(t)[s][e] <= t[s][m] + t[m][e]
         /\ \E m \in Node : OverOne(t)[s][e] = t[s][m] + t[m][e]
<1> DEFINE T == TwoLinks(t, s, e)
           x == OverOne(t)[s][e]
<1>1. \A m \in Node : t[s][m] \in 0..Inf /\ t[m][e] \in 0..Inf /\ t[s][s] = 0 /\ Inf \in Nat
  BY RouterAssumption
<1>2. T \in SUBSET Nat /\ T # {}
  BY <1>1 DEF TwoLinks
<1>3. x = CHOOSE y \in T : \A z \in T : y <= z
  BY DEF OverOne
<1> HIDE DEF T, x
<1>4. x \in T /\ \A y \in T : x <= y
  BY <1>2, <1>3, LeastNumber
<1>5. \A m \in Node : t[s][m] + t[m][e] \in T
  BY DEF T, TwoLinks
<1>6. \E m \in Node : x = t[s][m] + t[m][e]
  BY <1>4 DEF T, TwoLinks
<1>7. x \in 0..Inf
  <2>1. x <= t[s][s] + t[s][e] /\ x \in Nat
    BY <1>2, <1>4, <1>5
  <2> QED
    BY <1>1, <2>1
<1> QED
  BY <1>4, <1>5, <1>6, <1>7 DEF x

\* Three routers need no more than two links.
LEMMA OverOneRelaxed ==
  ASSUME Nodes <= 3, NEW t \in Topologies
  PROVE  IsRelaxed(t, OverOne(t))
<1> DEFINE d == OverOne(t)
<1>1. \A m, n \in Node : t[m][n] \in Nat /\ t[m][m] = 0
  BY TopologyIs
<1>2. \A n \in Node : n \in {1, 2, 3}
  BY RouterAssumption DEF Node
<1>3. \A s, e \in Node : /\ d[s][e] \in 0..Inf
                         /\ \A m \in Node : d[s][e] <= t[s][m] + t[m][e]
                         /\ \E m \in Node : d[s][e] = t[s][m] + t[m][e]
  BY OverOneIs
<1>4. d \in Matrix
  <2>1. d = [s \in Node |-> [e \in Node |-> d[s][e]]]
    BY DEF OverOne
  <2> HIDE DEF d
  <2>2. \A s \in Node : [e \in Node |-> d[s][e]] \in [Node -> 0..Inf]
    BY <1>3
  <2> QED
    BY <2>1, <2>2 DEF Matrix
<1> HIDE DEF d
<1>5. ASSUME NEW s \in Node, NEW e \in Node PROVE d[s][e] \in Nat
  <2>1. d[s][e] \in 0..Inf /\ Inf \in Nat
    BY <1>3, RouterAssumption
  <2> QED
    BY <2>1
<1>6. ASSUME NEW s \in Node PROVE d[s][s] = 0
  <2>1. d[s][s] <= t[s][s] + t[s][s] /\ t[s][s] = 0 /\ d[s][s] \in Nat
    BY <1>1, <1>3, <1>5
  <2> QED
    BY <2>1
<1>7. ASSUME NEW s \in Node, NEW m \in Node, NEW e \in Node PROVE d[s][e] <= t[s][m] + d[m][e]
  <2>1. PICK k \in Node : d[m][e] = t[m][k] + t[k][e]
    BY <1>3
  <2>2. d[s][e] <= t[s][m] + t[m][e] /\ d[s][e] <= t[s][k] + t[k][e] /\ d[s][e] <= t[s][s] + t[s][e]
    BY <1>3
  <2>3. /\ t[s][m] \in Nat /\ t[m][k] \in Nat /\ t[k][e] \in Nat /\ t[s][e] \in Nat /\ t[m][e] \in Nat
        /\ t[s][k] \in Nat /\ d[s][e] \in Nat
        /\ t[s][s] = 0 /\ t[m][m] = 0 /\ t[k][k] = 0 /\ t[e][e] = 0 /\ d[s][s] = 0
    BY <1>1, <1>5, <1>6
  <2>4. s = m \/ s = k \/ s = e \/ m = k \/ m = e \/ k = e
    BY <1>2
  <2> QED
    BY SMTT(40), <2>1, <2>2, <2>3, <2>4
<1> QED
  BY <1>4, <1>6, <1>7 DEF IsRelaxed, d

\* Any network of three routers is easy.
LEMMA ThreeAreEasy ==
  ASSUME Nodes <= 3
  PROVE  EasyNetworks
<1> SUFFICES ASSUME NEW t \in Topologies PROVE BetterIsBest(t) /\ FewToImprove(t)
  BY DEF EasyNetworks
<1> DEFINE sol == Solution(t)
           d == OverOne(t)
<1>1. BetterIsBest(t)
  <2> SUFFICES ASSUME NEW r \in Node, NEW m \in Node, NEW i \in Node, NEW x \in {t[m][i], sol[m][i]},
                      t[r][m] + x < t[r][i]
               PROVE  t[r][m] + x = sol[r][i]
    BY DEF BetterIsBest
  <2>1. IsRelaxed(t, sol) /\ \A s, e \in Node : sol[s][e] <= t[s][e]
    BY SolutionIs
  <2>2. /\ sol[r][i] \in Nat /\ sol[m][i] \in Nat
        /\ t[r][m] \in Nat /\ t[r][i] \in Nat /\ t[m][i] \in Nat
        /\ t[r][r] = 0 /\ t[m][m] = 0 /\ t[i][i] = 0 /\ sol[i][i] = 0
    BY <2>1, TopologyIs, RouterAssumption DEF IsRelaxed, Matrix
  <2>3. sol[r][i] <= t[r][m] + sol[m][i] /\ sol[m][i] <= t[m][i] /\ sol[r][i] <= t[r][i]
    BY <2>1 DEF IsRelaxed
  <2>4. PICK k \in Node : d[r][i] = t[r][k] + t[k][i]
    BY OverOneIs
  <2>5. d[r][i] <= sol[r][i]
    BY OverOneRelaxed, SolutionGreatest
  <2>6. k \in {r, m, i} \/ r = m \/ m = i \/ r = i
    <3>1. \A n \in Node : n \in {1, 2, 3}
      BY RouterAssumption DEF Node
    <3> QED
      BY <3>1
  <2> HIDE DEF sol, d
  <2>7. CASE r = m
    BY <2>2, <2>7
  <2>8. CASE m = i \/ r = i
    BY <2>2, <2>8
  <2>9. CASE k = r \/ k = i
    BY <2>2, <2>3, <2>4, <2>5, <2>9
  <2>10. CASE k = m
    BY <2>2, <2>3, <2>4, <2>5, <2>10
  <2> QED
    BY <2>6, <2>7, <2>8, <2>9, <2>10
<1>2. FewToImprove(t)
  <2>1. Node \in SUBSET Node /\ Cardinality(Node) <= 3
    BY FS_Interval, RouterAssumption DEF Node
  <2>2. ASSUME NEW r \in Node PROVE Cardinality({i \in Node : sol[r][i] < t[r][i]}) <= 3
    <3> DEFINE S == {i \in Node : sol[r][i] < t[r][i]}
    <3>1. S \in SUBSET Node
      OBVIOUS
    <3> HIDE DEF S
    <3>2. Cardinality(S) \in Nat /\ Cardinality(S) <= Cardinality(Node) /\ Cardinality(Node) \in Nat
      BY <2>1, <3>1, GainedFinite
    <3>3. Cardinality(S) <= 3
      BY <2>1, <3>2
    <3> QED
      BY <3>3 DEF S
  <2> QED
    BY <2>2 DEF FewToImprove
<1> QED
  BY <1>1, <1>2
-----------------------------------------------------------------------------
(* The theorems                                                            *)

\* Whatever the network and however the threads are scheduled, no router writes
\* a vector that a neighbor has been sent and has not finished reading: prev,
\* prev_prev and next beside curr are enough for channels of one slot
\* (stress.c:130-151, 208-227).
THEOREM FourVectorsSuffice == Spec => []NobodyReadsNext
<1>1. Spec => []RouterInv
  BY StartInv, StepInv, PTL DEF Spec
<1> QED
  BY <1>1, NobodyReads, PTL

\* A pointer a router has received is never one over a link of infinite length:
\* the assertion on neighbor_dist never fails (stress.c:185-186).
NeighborDistFinite ==
  \A r \in Node : rpc[r] = "update" => topology[r][reading[r][1]] # Inf

THEOREM NeighborAssertionHolds == Spec => []NeighborDistFinite
<1>1. Spec => []RouterInv
  BY StartInv, StepInv, PTL DEF Spec
<1>2. RouterInv => NeighborDistFinite
  BY UpdateReads DEF NeighborDistFinite, RouterInv, RouterTyped
<1> QED
  BY <1>1, <1>2, PTL

\* Whatever the network and the schedule: when no router has anything left to
\* send, to read or to broadcast, every router's vector is the one
\* floyd_warshall computes (stress.c:181-227, 290-298).
THEOREM QuietRoutersAreDone == Spec => []QuietIsSolved
<1>1. Init => RouterInv /\ Descent
  BY StartInv, StartDescent
<1>2. RouterInv /\ Descent /\ [Next]_vars => (RouterInv /\ Descent)'
  BY StepInv, StepDescent
<1>3. RouterInv /\ Descent => QuietIsSolved
  BY DescentSolves
<1> QED
  BY <1>1, <1>2, <1>3, PTL DEF Spec

LEMMA VerdictInvHolds == Spec /\ NeverRecycled => []VerdictInv
<1>1. VerdictInv /\ [Next]_vars /\ [NoReturn]_vars => VerdictInv'
  BY StepVerdict
<1> QED
  BY <1>1, StartVerdict, PTL DEF Spec, NeverRecycled

\* As long as no router recycles a vector that main still points to, a yes of
\* check_done is final: two rounds of the same answers mean that every vector
\* is the solution and nothing is under way (stress.c:250-288, 329-340).
THEOREM VerdictIsRight == Spec /\ NeverRecycled => []VerdictIsFinal
<1>1. VerdictInv => VerdictIsFinal
  BY VerdictHolds
<1> QED
  BY <1>1, VerdictInvHolds, PTL

\* Under the same condition main's comparison with floyd_warshall succeeds, and
\* no router is told to stop while it has news (stress.c:232, 293).
THEOREM NoAssertionFails == Spec /\ NeverRecycled => []AssertionsHold
<1>1. VerdictInv => AssertionsHold
  BY VerdictHolds
<1> QED
  BY <1>1, VerdictInvHolds, PTL

\* Under the same condition the vectors main compares are the current ones
\* (stress.c:265, 284, 293).
THEOREM ComparedIsCurrent == Spec /\ NeverRecycled => []VerdictReadsCurrent
<1>1. VerdictInv => VerdictReadsCurrent
  BY VerdictHolds
<1> QED
  BY <1>1, VerdictInvHolds, PTL

\* Where a distance is improved only once, and a router improves at most three,
\* no router comes back to a vector that main points to: the verdict of
\* check_done is final and no assertion fails, whatever the schedule
\* (stress.c:181-227, 250-299).
THEOREM EasyNetworksAreJudged ==
  ASSUME EasyNetworks
  PROVE  Spec => [](VerdictIsFinal /\ AssertionsHold /\ VerdictReadsCurrent)
<1>1. Spec => NeverRecycled
  BY NothingRecycled
<1>2. VerdictInv => VerdictIsFinal /\ AssertionsHold /\ VerdictReadsCurrent
  BY VerdictHolds
<1> QED
  BY <1>1, <1>2, VerdictInvHolds, PTL

\* So it is in every network of up to three routers, with any links and any
\* distances (stress.c:181-227, 250-299).
THEOREM ThreeRoutersAreJudged ==
  ASSUME Nodes <= 3
  PROVE  Spec => [](VerdictIsFinal /\ AssertionsHold /\ VerdictReadsCurrent)
BY ThreeAreEasy, EasyNetworksAreJudged
=============================================================================
