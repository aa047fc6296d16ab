-------------------------- MODULE StressRingProof ---------------------------
(***************************************************************************)
(* The ring of stress_send_recv.c, for any number of threads, slots and    *)
(* messages: every message is always in one place, and main tears down     *)
(* channels that are empty and that nobody uses any more.  Both assume     *)
(* what the program assumes of usleep: that it is long enough.             *)
(***************************************************************************)
EXTENDS StressRing, SequenceTheorems, FiniteSetTheorems, FunctionTheorems, TLAPS

Channel == 0..Threads
Letter == Msg \cup {NULL}

\* TypeOK, with the shape of the functions.
Typed ==
  /\ chan \in [Channel -> Seq(Letter)]
  /\ \A c \in Channel : Len(chan[c]) <= BufferSize
  /\ wpc \in [Worker -> {"recv", "check", "send", "exit"}]
  /\ start \in [Worker -> BOOLEAN]
  /\ data \in [Worker -> Letter]
  /\ target \in [Worker -> Channel]
  /\ done \in BOOLEAN
  /\ mpc \in {"insert", "start", "sleep", "collect", "stop", "join", "cleanup", "end", "assert"}
  /\ msg_check \subseteq Msg

\* Each loop's counter stays within its number of rounds.
Counting ==
  /\ count \in Nat \ {0}
  /\ mpc \in {"insert", "collect"} => (count <= NumMsgs \/ (NumMsgs = 0 /\ count = 1 /\ mpc = "insert"))
  /\ mpc \in {"start", "stop", "join"} => count <= Threads
  /\ mpc \in {"sleep", "cleanup", "end"} => count = 1

OnePlace(m) ==
  /\ \E c \in Channel, i \in Int : IsAt(m, c, i)
  /\ \A c, d \in Channel, i, j \in Int : IsAt(m, c, i) /\ IsAt(m, d, j) => c = d /\ i = j

\* A worker has a message in hand exactly while it is to send it.
InHand == \A w \in Worker : data[w] = NULL <=> wpc[w] \in {"recv", "exit"}

\* The orders to start: those in main's channel, those taken, those given.
Orders == {i \in DOMAIN chan[Main] : chan[Main][i] = NULL}
Started == {w \in Worker : ~start[w]}
Given == CASE mpc = "insert" -> 0 [] mpc = "start" -> count - 1 [] OTHER -> Threads
StartOrders == Cardinality(Orders) + Cardinality(Started) = Given

\* Until main stops the workers nobody has left and there is no order to stop.
Stopping == mpc \in {"stop", "join", "cleanup", "end"}
NobodyLeft ==
  ~Stopping => \A w \in Worker : wpc[w] # "exit" /\ \A i \in DOMAIN chan[w] : chan[w][i] # NULL

\* From the flag on all have started.
AllStarted == Stopping \/ mpc = "collect" => \A w \in Worker : ~start[w]

Collected ==
  /\ mpc \in {"insert", "start", "sleep"} => msg_check = {}
  /\ mpc = "collect" => Cardinality(msg_check) = count - 1
  /\ Stopping => msg_check = Msg

\* The worker has been sent its order to stop.
Told(w) == mpc \in {"join", "cleanup", "end"} \/ (mpc = "stop" /\ w < count - 1)

\* Main's channel stays empty while it stops the workers, and a worker's channel
\* holds its order until it leaves.
OrdersToStop ==
  Stopping =>
    /\ Len(chan[Main]) = 0
    /\ \A w \in Worker : /\ wpc[w] = "exit" => Told(w)
                         /\ Len(chan[w]) = IF Told(w) /\ wpc[w] # "exit" THEN 1 ELSE 0

Joined ==
  /\ mpc = "join" => \A w \in Worker : w < count - 1 => wpc[w] = "exit"
  /\ mpc \in {"cleanup", "end"} => \A w \in Worker : wpc[w] = "exit"

RingInv ==
  /\ Typed /\ Counting /\ mpc # "assert"
  /\ \A m \in Msg : OnePlace(m)
  /\ InHand /\ StartOrders /\ NobodyLeft /\ AllStarted /\ Collected /\ OrdersToStop /\ Joined

-----------------------------------------------------------------------------
(* Queues and counts                                                       *)

LEMMA ChannelsAre == Worker \cup {Main} = Channel /\ Main \in Channel /\ Main \notin Worker
BY StressAssumption DEF Worker, Main, Channel

LEMMA QueueShape ==
  ASSUME Typed, NEW c \in Channel
  PROVE  /\ Len(chan[c]) \in 0..BufferSize /\ DOMAIN chan[c] = 1..Len(chan[c])
         /\ \A i \in 1..Len(chan[c]) : chan[c][i] \in Letter
<1>1. chan[c] \in Seq(Letter)
  BY DEF Typed
<1> QED
  BY <1>1, StressAssumption, LenProperties, ElementOfSeq DEF Typed

\* What a send leaves in the channels, entry by entry.
LEMMA SendAppends ==
  ASSUME Typed, NEW c \in Channel, NEW x \in Letter, channel_send(c, x)
  PROVE  /\ chan' \in [Channel -> Seq(Letter)]
         /\ Len(chan'[c]) = Len(chan[c]) + 1 /\ Len(chan'[c]) <= BufferSize
         /\ DOMAIN chan'[c] = 1..(Len(chan[c]) + 1)
         /\ chan'[c][Len(chan[c]) + 1] = x
         /\ \A i \in 1..Len(chan[c]) : chan'[c][i] = chan[c][i]
         /\ \A d \in Channel \ {c} : chan'[d] = chan[d]
<1>1. chan[c] \in Seq(Letter) /\ Len(chan[c]) \in Nat
  BY QueueShape DEF Typed
<1>2. chan' = [chan EXCEPT ![c] = Append(chan[c], x)] /\ Len(chan[c]) < BufferSize
  BY DEF channel_send
<1>3. chan'[c] = Append(chan[c], x) /\ \A d \in Channel \ {c} : chan'[d] = chan[d]
  BY <1>2 DEF Typed
<1>4. /\ Append(chan[c], x) \in Seq(Letter)
      /\ Len(Append(chan[c], x)) = Len(chan[c]) + 1
      /\ Append(chan[c], x)[Len(chan[c]) + 1] = x
      /\ \A i \in 1..Len(chan[c]) : Append(chan[c], x)[i] = chan[c][i]
  BY <1>1, AppendProperties
<1>5. DOMAIN Append(chan[c], x) = 1..(Len(chan[c]) + 1)
  BY <1>4, LenProperties
<1>6. chan' \in [Channel -> Seq(Letter)]
  BY <1>2, <1>4 DEF Typed
<1> QED
  BY <1>1, <1>2, <1>3, <1>4, <1>5, <1>6, StressAssumption

\* What a receive takes and leaves.
LEMMA ReceiveTakesHead ==
  ASSUME Typed, NEW c \in Channel, channel_receive(c)
  PROVE  /\ chan' \in [Channel -> Seq(Letter)]
         /\ Len(chan[c]) >= 1 /\ Len(chan'[c]) = Len(chan[c]) - 1
         /\ DOMAIN chan'[c] = 1..(Len(chan[c]) - 1)
         /\ Head(chan[c]) = chan[c][1] /\ chan[c][1] \in Letter
         /\ \A i \in 1..(Len(chan[c]) - 1) : chan'[c][i] = chan[c][i + 1]
         /\ \A d \in Channel \ {c} : chan'[d] = chan[d]
<1>1. chan[c] \in Seq(Letter) /\ Len(chan[c]) \in Nat /\ chan[c] # <<>>
  BY QueueShape DEF Typed, channel_receive
<1>2. chan' = [chan EXCEPT ![c] = Tail(chan[c])]
  BY DEF channel_receive
<1>3. chan'[c] = Tail(chan[c]) /\ \A d \in Channel \ {c} : chan'[d] = chan[d]
  BY <1>2 DEF Typed
<1>4. /\ Tail(chan[c]) \in Seq(Letter) /\ Len(Tail(chan[c])) = Len(chan[c]) - 1
      /\ \A i \in 1..Len(Tail(chan[c])) : Tail(chan[c])[i] = chan[c][i + 1]
      /\ Head(chan[c]) = chan[c][1] /\ Len(chan[c]) # 0
  BY <1>1, HeadTailProperties, EmptySeq
<1>5. DOMAIN Tail(chan[c]) = 1..(Len(chan[c]) - 1)
  BY <1>4, LenProperties
<1>6. chan' \in [Channel -> Seq(Letter)]
  BY <1>2, <1>4 DEF Typed
<1>7. chan[c][1] \in Letter
  BY <1>1, <1>4, QueueShape
<1> QED
  BY <1>1, <1>3, <1>4, <1>5, <1>6, <1>7

-----------------------------------------------------------------------------
(* Every message stays in one place                                        *)

LEMMA QueuedPlace ==
  ASSUME Typed, NEW m, NEW c \in Channel, NEW i \in Int, Queued(m, c, i)
  PROVE  i >= 1
BY QueueShape DEF Queued

\* A receive from f: the first message goes to w, the others move up.
LEMMA TakeKeepsPlaces ==
  ASSUME Typed, NEW m \in Msg, OnePlace(m),
         NEW f \in Channel, NEW w \in Channel, channel_receive(f),
         \A c \in Channel : Held(m, c)' <=> Held(m, c) \/ (c = w /\ Queued(m, f, 1)),
         Unsent(m)' <=> Unsent(m)
  PROVE  OnePlace(m)'
<1>1. \A c \in Channel, i \in Int :
        Queued(m, c, i)' <=> IF c = f THEN i >= 1 /\ Queued(m, f, i + 1) ELSE Queued(m, c, i)
  <2>1. /\ Len(chan[f]) \in Nat /\ DOMAIN chan[f] = 1..Len(chan[f])
        /\ DOMAIN chan'[f] = 1..(Len(chan[f]) - 1)
        /\ \A i \in 1..(Len(chan[f]) - 1) : chan'[f][i] = chan[f][i + 1]
        /\ \A d \in Channel \ {f} : chan'[d] = chan[d]
    BY ReceiveTakesHead, QueueShape
  <2> QED
    BY <2>1 DEF Queued
<1>2. \A c \in Channel, i \in Int : Queued(m, c, i) => i >= 1
  BY QueuedPlace
<1>3. (\E c \in Channel, i \in Int : IsAt(m, c, i))'
  <2>1. PICK c \in Channel, i \in Int : IsAt(m, c, i)
    BY DEF OnePlace
  <2>2. CASE i = 0 /\ Held(m, c)
    BY <2>2 DEF IsAt
  <2>3. CASE i = -1 /\ c = Main /\ Unsent(m)
    BY <2>3 DEF IsAt
  <2>4. CASE Queued(m, c, i) /\ c # f
    BY <2>4, <1>1 DEF IsAt
  <2>5. CASE Queued(m, c, i) /\ c = f /\ i = 1
    BY <2>5 DEF IsAt
  <2>6. CASE Queued(m, c, i) /\ c = f /\ i > 1
    <3>1. i - 1 \in Int /\ i - 1 >= 1 /\ (i - 1) + 1 = i
      BY <2>6
    <3> QED
      BY <2>6, <3>1, <1>1 DEF IsAt
  <2> QED
    BY <2>1, <2>2, <2>3, <2>4, <2>5, <2>6, <1>2 DEF IsAt
<1>4. ASSUME NEW c \in Channel, NEW d \in Channel, NEW i \in Int, NEW j \in Int,
             IsAt(m, c, i)', IsAt(m, d, j)'
      PROVE  c = d /\ i = j
  <2> DEFINE Came(e, k) == e = w /\ k = 0 /\ Queued(m, f, 1)
             At(e, k) == IF Came(e, k) THEN f ELSE e
             Place(e, k) == IF Came(e, k) THEN 1 ELSE IF e = f /\ k > 0 THEN k + 1 ELSE k
  <2>1. IsAt(m, At(c, i), Place(c, i)) /\ Place(c, i) \in Int
    BY <1>1, <1>2, <1>4 DEF IsAt
  <2>2. IsAt(m, At(d, j), Place(d, j)) /\ Place(d, j) \in Int
    BY <1>1, <1>2, <1>4 DEF IsAt
  <2>3. At(c, i) = At(d, j) /\ Place(c, i) = Place(d, j)
    BY <2>1, <2>2 DEF OnePlace
  <2>4. (i = 0 \/ i = -1 \/ i >= 1) /\ (j = 0 \/ j = -1 \/ j >= 1)
    BY <1>1, <1>2, <1>4 DEF IsAt
  <2> QED
    BY <2>3, <2>4
<1> QED
  BY <1>3, <1>4 DEF OnePlace

\* A send to c of x, which comes out of place k of s: a hand, or what is unsent.
LEMMA PutKeepsPlaces ==
  ASSUME Typed, NEW m \in Msg, OnePlace(m),
         NEW c \in Channel, NEW x \in Letter, channel_send(c, x),
         NEW s \in Channel, NEW k \in {0, -1}, x = m => IsAt(m, s, k),
         \A d \in Channel : Held(m, d)' <=> Held(m, d) /\ ~(x = m /\ k = 0 /\ d = s),
         Unsent(m)' <=> Unsent(m) /\ ~(x = m /\ k = -1)
  PROVE  OnePlace(m)'
<1> DEFINE l == Len(chan[c]) + 1
<1>1. \A d \in Channel, i \in Int :
        Queued(m, d, i)' <=> Queued(m, d, i) \/ (d = c /\ i = l /\ x = m)
  <2>1. /\ Len(chan[c]) \in Nat /\ DOMAIN chan[c] = 1..Len(chan[c])
        /\ DOMAIN chan'[c] = 1..(Len(chan[c]) + 1) /\ chan'[c][Len(chan[c]) + 1] = x
        /\ \A i \in 1..Len(chan[c]) : chan'[c][i] = chan[c][i]
        /\ \A d \in Channel \ {c} : chan'[d] = chan[d]
    BY SendAppends, QueueShape
  <2> QED
    BY <2>1 DEF Queued
<1>2. \A d \in Channel, i \in Int : Queued(m, d, i) => i >= 1
  BY QueuedPlace
<1>3. l \in Int /\ l >= 1
  BY QueueShape
<1> HIDE DEF l
<1>4. (\E d \in Channel, i \in Int : IsAt(m, d, i))'
  <2>1. PICK d \in Channel, i \in Int : IsAt(m, d, i)
    BY DEF OnePlace
  <2>2. CASE x = m
    BY <2>2, <1>1, <1>3 DEF IsAt
  <2>3. CASE x # m
    BY <2>1, <2>3, <1>1 DEF IsAt
  <2> QED
    BY <2>2, <2>3
<1>5. ASSUME NEW a \in Channel, NEW b \in Channel, NEW i \in Int, NEW j \in Int,
             IsAt(m, a, i)', IsAt(m, b, j)'
      PROVE  a = b /\ i = j
  <2>1. CASE x # m
    BY <2>1, <1>1, <1>5 DEF IsAt, OnePlace
  <2>2. CASE x = m
    <3>1. ASSUME NEW e \in Channel, NEW n \in Int, IsAt(m, e, n)'
          PROVE  e = c /\ n = l
      <4>1. CASE e = c /\ n = l
        BY <4>1
      <4>2. CASE ~(e = c /\ n = l)
        <5>1. IsAt(m, e, n)
          BY <3>1, <4>2, <1>1 DEF IsAt
        <5>2. e = s /\ n = k
          BY <5>1, <2>2 DEF OnePlace
        <5> QED
          BY <5>2, <3>1, <4>2, <2>2, <1>1, <1>2 DEF IsAt
      <4> QED
        BY <4>1, <4>2
    <3> QED
      BY <3>1, <1>5
  <2> QED
    BY <2>1, <2>2
<1> QED
  BY <1>4, <1>5 DEF OnePlace

-----------------------------------------------------------------------------
(* Counting the orders to start                                            *)

LEMMA OrdersFinite ==
  ASSUME Typed
  PROVE  IsFiniteSet(Orders) /\ Cardinality(Orders) \in Nat /\ Orders \subseteq Nat
<1>1. DOMAIN chan[Main] = 1..Len(chan[Main]) /\ Len(chan[Main]) \in Nat
  BY QueueShape, ChannelsAre
<1>2. IsFiniteSet(1..Len(chan[Main])) /\ Orders \subseteq 1..Len(chan[Main])
  BY <1>1, FS_Interval DEF Orders
<1>3. IsFiniteSet(Orders)
  BY <1>2, FS_Subset
<1>4. Cardinality(Orders) \in Nat
  BY <1>3, FS_CardinalityType
<1> QED
  BY <1>1, <1>2, <1>3, <1>4

\* The same as an implication, which also holds of the next state.
LEMMA OrdersCounted == Typed => Cardinality(Orders) \in Nat
BY OrdersFinite

LEMMA OrdersAfterSend ==
  ASSUME Typed, NEW x \in Letter, channel_send(Main, x)
  PROVE  Cardinality(Orders)' = Cardinality(Orders) + (IF x = NULL THEN 1 ELSE 0)
<1> DEFINE l == Len(chan[Main]) + 1
<1>1. /\ DOMAIN chan[Main] = 1..Len(chan[Main]) /\ Len(chan[Main]) \in Nat
      /\ DOMAIN chan'[Main] = 1..l /\ chan'[Main][l] = x
      /\ \A i \in 1..Len(chan[Main]) : chan'[Main][i] = chan[Main][i]
  BY SendAppends, QueueShape, ChannelsAre
<1>2. l \notin Orders /\ Orders' = IF x = NULL THEN Orders \cup {l} ELSE Orders
  BY <1>1 DEF Orders
<1> HIDE DEF l
<1>3. CASE x = NULL
  BY <1>2, <1>3, OrdersFinite, FS_AddElement
<1>4. CASE x # NULL
  BY <1>2, <1>4, OrdersFinite
<1> QED
  BY <1>3, <1>4

LEMMA OrdersAfterReceive ==
  ASSUME Typed, channel_receive(Main)
  PROVE  Cardinality(Orders) = Cardinality(Orders)' + (IF chan[Main][1] = NULL THEN 1 ELSE 0)
<1> DEFINE L == Len(chan[Main])
           up == [i \in Orders \ {1} |-> i - 1]
<1>1. /\ DOMAIN chan[Main] = 1..L /\ L \in Nat /\ L >= 1
      /\ DOMAIN chan'[Main] = 1..(L - 1)
      /\ \A i \in 1..(L - 1) : chan'[Main][i] = chan[Main][i + 1]
  BY ReceiveTakesHead, QueueShape, ChannelsAre
<1> HIDE DEF L
<1>2. \A i \in Int : i \in Orders' <=> i >= 1 /\ i + 1 \in Orders
  BY <1>1 DEF Orders
<1>3. up \in [Orders \ {1} -> Orders']
  <2>1. \A i \in Orders \ {1} : i \in Int /\ i >= 2 /\ i - 1 \in Int /\ i - 1 >= 1 /\ (i - 1) + 1 = i
    BY <1>1 DEF Orders
  <2>2. \A i \in Orders \ {1} : i - 1 \in Orders'
    <3> HIDE DEF Orders
    <3> QED
      BY <1>2, <2>1
  <2> QED
    BY <2>2
<1>4. \A i, j \in Orders \ {1} : up[i] = up[j] => i = j
  BY OrdersFinite
<1>5. \A j \in Orders' : \E i \in Orders \ {1} : up[i] = j
  <2> TAKE j \in Orders'
  <2>1. j \in Int /\ j + 1 \in Orders \ {1}
    BY <1>1, <1>2 DEF Orders
  <2>2. up[j + 1] = j
    BY <2>1
  <2> QED
    BY <2>1, <2>2
<1>6. up \in Bijection(Orders \ {1}, Orders')
  <2> HIDE DEF up
  <2> QED
    BY <1>3, <1>4, <1>5, Fun_IsInj, Fun_IsBij
<1>7. IsFiniteSet(Orders \ {1}) /\ Cardinality(Orders \ {1}) \in Nat
      /\ Cardinality(Orders \ {1}) = IF 1 \in Orders THEN Cardinality(Orders) - 1 ELSE Cardinality(Orders)
  BY OrdersFinite, FS_RemoveElement, FS_CardinalityType
<1>8. Cardinality(Orders') = Cardinality(Orders \ {1})
  BY <1>6, <1>7, Fun_ExistsBij, FS_Bijection
<1>9. 1 \in Orders <=> chan[Main][1] = NULL
  BY <1>1 DEF Orders
<1> QED
  BY <1>7, <1>8, <1>9, OrdersFinite

LEMMA StartedFinite ==
  /\ IsFiniteSet(Worker) /\ Cardinality(Worker) = Threads
  /\ IsFiniteSet(Started) /\ Cardinality(Started) \in Nat /\ Started \subseteq Worker
<1>1. IsFiniteSet(Worker) /\ Cardinality(Worker) = Threads
  BY StressAssumption, FS_Interval DEF Worker
<1>2. Started \subseteq Worker
  BY DEF Started
<1>3. IsFiniteSet(Started)
  BY <1>1, <1>2, FS_Subset
<1> QED
  BY <1>1, <1>2, <1>3, FS_CardinalityType

\* When every worker has started, each has taken one order and none is left.
LEMMA NoOrderLeft ==
  ASSUME RingInv, \A w \in Worker : ~start[w]
  PROVE  Orders = {}
<1>1. Started = Worker
  BY DEF Started
<1>2. Given \in Int /\ Given <= Threads
  BY StressAssumption DEF RingInv, Counting, Given
<1>3. Cardinality(Orders) \in Nat /\ IsFiniteSet(Orders)
  BY OrdersFinite DEF RingInv
<1>4. Cardinality(Orders) = 0
  BY <1>1, <1>2, <1>3, StartedFinite, StressAssumption DEF RingInv, StartOrders
<1> QED
  BY <1>3, <1>4, FS_EmptySet

\* With every message collected, what is queued is an order.
LEMMA OnlyOrdersQueued ==
  ASSUME Typed, \A m \in Msg : OnePlace(m), msg_check = Msg,
         NEW c \in Channel, NEW i \in DOMAIN chan[c]
  PROVE  chan[c][i] = NULL
<1>1. i \in Int /\ i >= 1 /\ chan[c][i] \in Letter
  BY QueueShape
<1>2. SUFFICES ASSUME chan[c][i] \in Msg PROVE FALSE
  BY <1>1 DEF Letter
<1>3. IsAt(chan[c][i], c, i) /\ IsAt(chan[c][i], Main, 0)
  BY <1>2 DEF IsAt, Queued, Held
<1> QED
  BY <1>1, <1>2, <1>3, ChannelsAre DEF OnePlace

\* ... and nobody has anything in hand.
LEMMA EmptyHanded ==
  ASSUME Typed, \A m \in Msg : OnePlace(m), msg_check = Msg, NEW w \in Worker
  PROVE  data[w] = NULL
<1>1. w \in Channel /\ w # Main /\ data[w] \in Letter
  BY ChannelsAre DEF Typed
<1>2. SUFFICES ASSUME data[w] \in Msg PROVE FALSE
  BY <1>1 DEF Letter
<1>3. IsAt(data[w], w, 0) /\ IsAt(data[w], Main, 0)
  BY <1>1, <1>2 DEF IsAt, Held
<1> QED
  BY <1>1, <1>2, <1>3, ChannelsAre DEF OnePlace

\* What main finds in the channels when it has collected everything.
Clear ==
  /\ Typed /\ (\A m \in Msg : OnePlace(m)) /\ msg_check = Msg
  /\ Orders = {} /\ \A w \in Worker : \A i \in DOMAIN chan[w] : chan[w][i] # NULL

LEMMA ChannelsClear == Clear => \A c \in Channel : Len(chan[c]) = 0
<1> SUFFICES ASSUME Clear, NEW c \in Channel PROVE Len(chan[c]) = 0
  OBVIOUS
<1>1. \A i \in DOMAIN chan[c] : chan[c][i] = NULL
  BY OnlyOrdersQueued DEF Clear
<1>2. \A i \in DOMAIN chan[c] : chan[c][i] # NULL
  BY ChannelsAre DEF Clear, Orders
<1>3. DOMAIN chan[c] = 1..Len(chan[c]) /\ Len(chan[c]) \in Nat
  BY QueueShape DEF Clear
<1> QED
  BY <1>1, <1>2, <1>3

-----------------------------------------------------------------------------
(* Every step keeps the invariant                                          *)

LEMMA RecvKeeps ==
  ASSUME RingInv, NEW w \in Worker, Recv(w)
  PROVE  RingInv'
<1> DEFINE f == IF start[w] THEN Main ELSE w
           x == chan[f][1]
<1>1. w \in Channel /\ w # Main /\ f \in Channel /\ Typed
  BY ChannelsAre DEF RingInv
<1>2. channel_receive(f) /\ Head(chan[f]) = x /\ x \in Letter
  <2>1. channel_receive(f)
    BY DEF Recv
  <2> QED
    BY <2>1, <1>1, ReceiveTakesHead
<1>3. /\ chan' \in [Channel -> Seq(Letter)]
      /\ Len(chan[f]) >= 1 /\ Len(chan'[f]) = Len(chan[f]) - 1
      /\ DOMAIN chan'[f] = 1..(Len(chan[f]) - 1)
      /\ \A i \in 1..(Len(chan[f]) - 1) : chan'[f][i] = chan[f][i + 1]
      /\ \A d \in Channel \ {f} : chan'[d] = chan[d]
  BY <1>1, <1>2, ReceiveTakesHead
<1>4. DOMAIN chan[f] = 1..Len(chan[f]) /\ Len(chan[f]) \in 0..BufferSize
  BY <1>1, QueueShape
<1>5. /\ wpc[w] = "recv" /\ data' = [data EXCEPT ![w] = x]
      /\ \/ x # NULL /\ wpc' = [wpc EXCEPT ![w] = "check"] /\ start' = start
         \/ x = NULL /\ start[w] /\ start' = [start EXCEPT ![w] = FALSE] /\ wpc' = wpc
         \/ x = NULL /\ ~start[w] /\ wpc' = [wpc EXCEPT ![w] = "exit"] /\ start' = start
      /\ target' = target /\ done' = done /\ mpc' = mpc /\ count' = count /\ msg_check' = msg_check
  <2>1. data' = [data EXCEPT ![w] = x] /\ data'[w] = x
    BY <1>1, <1>2 DEF Recv, Typed
  <2> QED
    BY <2>1 DEF Recv, mainVars
<1> HIDE DEF x
<1>6. Typed'
  <2>1. \A c \in Channel : Len(chan'[c]) <= BufferSize
    <3>1. Len(chan'[f]) <= BufferSize
      BY <1>3, <1>4, StressAssumption
    <3>2. \A c \in Channel \ {f} : Len(chan'[c]) = Len(chan[c])
      BY <1>3
    <3> QED
      BY <1>1, <3>1, <3>2 DEF Typed
  <2> QED
    BY <2>1, <1>1, <1>2, <1>3, <1>5 DEF Typed
<1>7. Counting' /\ mpc' # "assert" /\ Collected'
  BY <1>5 DEF RingInv, Counting, Collected, Stopping
<1>8. \A m \in Msg : OnePlace(m)'
  <2> TAKE m \in Msg
  <2>1. Queued(m, f, 1) <=> x = m
    BY <1>3, <1>4 DEF Queued, x
  <2>2. data[w] = NULL /\ m # NULL
    BY <1>5 DEF RingInv, InHand, Msg, NULL
  <2>3. \A c \in Channel : Held(m, c)' <=> Held(m, c) \/ (c = w /\ Queued(m, f, 1))
    BY <1>1, <1>5, <2>1, <2>2, ChannelsAre DEF Held, Typed
  <2>4. Unsent(m)' <=> Unsent(m)
    BY <1>5 DEF Unsent
  <2> QED
    BY <1>1, <1>2, <2>3, <2>4, TakeKeepsPlaces DEF RingInv
<1>9. InHand'
  BY <1>1, <1>5 DEF RingInv, InHand, Typed
<1>10. StartOrders'
  <2>1. Given' = Given
    BY <1>5 DEF Given
  <2>2. Cardinality(Orders) \in Nat /\ Cardinality(Orders)' \in Nat
    <3>1. Cardinality(Orders) \in Nat
      BY <1>1, OrdersFinite
    <3>2. (Cardinality(Orders) \in Nat)'
      BY <1>6, OrdersCounted, PTL
    <3> QED
      BY <3>1, <3>2
  <2>3. CASE start[w] /\ x = NULL
    <3>1. Started' = Started \cup {w} /\ w \notin Started
      BY <1>1, <1>5, <2>3 DEF Started, Typed
    <3>2. Cardinality(Started') = Cardinality(Started) + 1
      BY <3>1, StartedFinite, FS_AddElement
    <3>3. Cardinality(Orders) = Cardinality(Orders)' + 1
      BY <1>1, <1>2, <2>3, OrdersAfterReceive DEF x
    <3> QED
      BY <2>1, <2>2, <3>2, <3>3, StartedFinite DEF RingInv, StartOrders
  <2>4. CASE start[w] /\ x # NULL
    <3>1. Started' = Started
      BY <1>5, <2>4 DEF Started
    <3>2. Cardinality(Orders) = Cardinality(Orders)'
      BY <1>1, <1>2, <2>2, <2>4, OrdersAfterReceive DEF x
    <3> QED
      BY <2>1, <3>1, <3>2 DEF RingInv, StartOrders
  <2>5. CASE ~start[w]
    <3>1. Started' = Started
      BY <1>5, <2>5 DEF Started
    <3>2. Orders' = Orders
      BY <1>1, <1>3, <2>5, ChannelsAre DEF Orders
    <3> QED
      BY <2>1, <3>1, <3>2 DEF RingInv, StartOrders
  <2> QED
    BY <2>3, <2>4, <2>5
<1>11. NobodyLeft'
  <2> SUFFICES ASSUME ~Stopping PROVE \A v \in Worker : wpc'[v] # "exit" /\ \A i \in DOMAIN chan'[v] : chan'[v][i] # NULL
    BY <1>5 DEF NobodyLeft, Stopping
  <2>1. \A v \in Worker : wpc[v] # "exit" /\ \A i \in DOMAIN chan[v] : chan[v][i] # NULL
    BY DEF RingInv, NobodyLeft
  <2>2. ~(x = NULL /\ ~start[w])
    BY <2>1, <1>3, <1>4 DEF x
  <2>3. \A v \in Worker : \A i \in DOMAIN chan'[v] : chan'[v][i] # NULL
    BY SMTT(40), <2>1, <1>3, <1>4, ChannelsAre
  <2>4. \A v \in Worker : wpc'[v] # "exit"
    <3>1. wpc'[w] # "exit" /\ \A v \in Worker \ {w} : wpc'[v] = wpc[v]
      BY <2>2, <1>1, <1>5 DEF Typed
    <3> QED
      BY <2>1, <3>1
  <2> QED
    BY <2>3, <2>4
<1>12. AllStarted'
  BY <1>1, <1>5 DEF RingInv, AllStarted, Stopping, Typed
<1>13. OrdersToStop'
  <2> SUFFICES ASSUME Stopping PROVE OrdersToStop'
    BY <1>5 DEF OrdersToStop, Stopping
  <2>1. f = w /\ ~start[w] /\ msg_check = Msg
    BY DEF RingInv, AllStarted, Collected
  <2>2. Len(chan[w]) = 1 /\ Told(w)
    <3>1. Len(chan[w]) # 0
      <4> HIDE DEF f
      <4>1. Len(chan[f]) # 0
        BY <1>3, <1>4
      <4> QED
        BY <4>1, <2>1
    <3>2. Len(chan[w]) = IF Told(w) /\ wpc[w] # "exit" THEN 1 ELSE 0
      BY DEF RingInv, OrdersToStop
    <3> QED
      BY <3>1, <3>2
  <2>3. x = NULL
    BY <2>1, <1>1, <1>3, <1>4, OnlyOrdersQueued DEF RingInv, x
  <2>4. wpc' = [wpc EXCEPT ![w] = "exit"] /\ Len(chan'[w]) = 0
    BY <2>1, <2>2, <2>3, <1>3, <1>5
  <2>5. \A v \in Worker : Told(v)' <=> Told(v)
    BY <1>5 DEF Told
  <2> QED
    BY <2>1, <2>2, <2>4, <2>5, <1>1, <1>3, <1>5, ChannelsAre DEF RingInv, OrdersToStop, Typed
<1>14. Joined'
  BY <1>1, <1>5 DEF RingInv, Joined, Typed
<1> QED
  BY <1>6, <1>7, <1>8, <1>9, <1>10, <1>11, <1>12, <1>13, <1>14 DEF RingInv

LEMMA CheckKeeps ==
  ASSUME RingInv, NEW w \in Worker, Check(w)
  PROVE  RingInv'
<1>1. w \in Channel /\ Main \in Channel /\ Next_index(w) \in Channel /\ Typed
  BY ChannelsAre, StressAssumption DEF RingInv, Next_index, Channel, Worker
<1>2. /\ wpc[w] = "check" /\ wpc' = [wpc EXCEPT ![w] = "send"]
      /\ target' = [target EXCEPT ![w] = IF done THEN Main ELSE Next_index(w)]
      /\ chan' = chan /\ start' = start /\ data' = data
      /\ done' = done /\ mpc' = mpc /\ count' = count /\ msg_check' = msg_check
  BY DEF Check, mainVars
<1>3. Typed'
  BY <1>1, <1>2 DEF Typed
<1>4. Counting' /\ mpc' # "assert" /\ Collected' /\ AllStarted' /\ StartOrders'
  BY <1>2 DEF RingInv, Counting, Collected, AllStarted, StartOrders, Stopping, Given, Orders, Started
<1>5. \A m \in Msg : OnePlace(m)'
  BY <1>2 DEF RingInv, OnePlace, IsAt, Queued, Held, Unsent
<1>6. InHand'
  BY <1>1, <1>2 DEF RingInv, InHand, Typed
<1>7. NobodyLeft'
  BY <1>1, <1>2 DEF RingInv, NobodyLeft, Stopping, Typed
<1>8. OrdersToStop' /\ Joined'
  BY <1>1, <1>2 DEF RingInv, OrdersToStop, Joined, Stopping, Told, Typed
<1> QED
  BY <1>3, <1>4, <1>5, <1>6, <1>7, <1>8 DEF RingInv

LEMMA SendKeeps ==
  ASSUME RingInv, NEW w \in Worker, Send(w)
  PROVE  RingInv'
<1> DEFINE c == target[w]
           x == data[w]
<1>1. w \in Channel /\ w # Main /\ c \in Channel /\ x \in Letter /\ Typed
  BY ChannelsAre DEF RingInv, Typed
<1>2. /\ wpc[w] = "send" /\ channel_send(c, x)
      /\ wpc' = [wpc EXCEPT ![w] = "recv"] /\ data' = [data EXCEPT ![w] = NULL]
      /\ start' = start /\ target' = target
      /\ done' = done /\ mpc' = mpc /\ count' = count /\ msg_check' = msg_check
  BY DEF Send, mainVars
<1>3. x # NULL
  BY <1>2 DEF RingInv, InHand
<1>4. ~Stopping
  <2> SUFFICES ASSUME Stopping PROVE FALSE
    OBVIOUS
  <2>1. x = NULL
    BY EmptyHanded DEF RingInv, Collected
  <2> QED
    BY <2>1, <1>3
<1> HIDE DEF c, x
<1>5. /\ chan' \in [Channel -> Seq(Letter)]
      /\ Len(chan'[c]) <= BufferSize
      /\ DOMAIN chan'[c] = 1..(Len(chan[c]) + 1)
      /\ chan'[c][Len(chan[c]) + 1] = x
      /\ \A i \in 1..Len(chan[c]) : chan'[c][i] = chan[c][i]
      /\ \A d \in Channel \ {c} : chan'[d] = chan[d]
  BY <1>1, <1>2, SendAppends
<1>6. DOMAIN chan[c] = 1..Len(chan[c]) /\ Len(chan[c]) \in Nat
  BY <1>1, QueueShape
<1>7. Typed'
  BY <1>1, <1>2, <1>5 DEF Typed, Letter
<1>8. Counting' /\ mpc' # "assert" /\ Collected' /\ AllStarted'
  BY <1>2 DEF RingInv, Counting, Collected, AllStarted, Stopping
<1>9. \A m \in Msg : OnePlace(m)'
  <2> TAKE m \in Msg
  <2>1. m # NULL
    BY DEF Msg, NULL
  <2>2. x = m => IsAt(m, w, 0)
    BY <1>1 DEF IsAt, Held, x
  <2>3. \A d \in Channel : Held(m, d)' <=> Held(m, d) /\ ~(x = m /\ 0 = 0 /\ d = w)
    BY <1>1, <1>2, <2>1, ChannelsAre DEF Held, Typed, x
  <2>4. Unsent(m)' <=> Unsent(m) /\ ~(x = m /\ 0 = -1)
    BY <1>2 DEF Unsent
  <2> QED
    BY <1>1, <1>2, <2>2, <2>3, <2>4, PutKeepsPlaces DEF RingInv
<1>10. InHand'
  BY <1>1, <1>2 DEF RingInv, InHand, Typed
<1>11. StartOrders'
  <2>1. Cardinality(Orders)' = Cardinality(Orders)
    <3>1. CASE c = Main
      BY <3>1, <1>1, <1>2, <1>3, OrdersAfterSend, OrdersFinite
    <3>2. CASE c # Main
      BY <3>2, <1>5, ChannelsAre DEF Orders
    <3> QED
      BY <3>1, <3>2
  <2> QED
    BY <2>1, <1>2 DEF RingInv, StartOrders, Started, Given
<1>12. NobodyLeft'
  <2>1. \A v \in Worker : wpc[v] # "exit" /\ \A i \in DOMAIN chan[v] : chan[v][i] # NULL
    BY <1>4 DEF RingInv, NobodyLeft
  <2>2. \A v \in Worker : \A i \in DOMAIN chan'[v] : chan'[v][i] # NULL
    <3> TAKE v \in Worker
    <3>1. CASE v # c
      BY <2>1, <3>1, <1>5, ChannelsAre
    <3>2. CASE v = c
      <4>1. \A i \in 1..Len(chan[c]) : chan'[c][i] # NULL
        BY <2>1, <3>2, <1>5, <1>6
      <4> QED
        BY <4>1, <3>2, <1>3, <1>5, <1>6
    <3> QED
      BY <3>1, <3>2
  <2> QED
    BY <2>1, <2>2, <1>1, <1>2 DEF NobodyLeft, Typed
<1>13. OrdersToStop' /\ Joined'
  BY <1>2, <1>4 DEF OrdersToStop, Joined, Stopping
<1> QED
  BY <1>7, <1>8, <1>9, <1>10, <1>11, <1>12, <1>13 DEF RingInv

LEMMA InsertKeeps ==
  ASSUME RingInv, Insert
  PROVE  RingInv'
<1>1. Typed /\ count \in Nat /\ NumMsgs \in Nat /\ mpc = "insert"
  BY StressAssumption DEF RingInv, Counting, Insert
<1>2. wpc' = wpc /\ start' = start /\ data' = data /\ target' = target /\ done' = done /\ msg_check' = msg_check
  BY DEF Insert, workerVars
<1>3. CASE NumMsgs = 0
  <2>1. mpc' = "start" /\ chan' = chan /\ count' = 1 /\ count = 1
    BY <1>1, <1>3 DEF Insert, RingInv, Counting
  <2>2. Typed' /\ Counting' /\ InHand' /\ Joined' /\ Collected' /\ AllStarted' /\ OrdersToStop'
    BY <1>1, <1>2, <2>1, StressAssumption
    DEF RingInv, Typed, Counting, InHand, Joined, Collected, AllStarted, OrdersToStop, Stopping
  <2>3. StartOrders'
    BY <1>1, <1>2, <2>1 DEF RingInv, StartOrders, Orders, Started, Given
  <2>4. NobodyLeft'
    BY <1>1, <1>2, <2>1 DEF RingInv, NobodyLeft, Stopping
  <2>5. Msg = {}
    BY <1>3 DEF Msg
  <2> QED
    BY <2>1, <2>2, <2>3, <2>4, <2>5 DEF RingInv
<1>4. CASE NumMsgs # 0
  <2>1. channel_send(Main, count) /\ Count(NumMsgs, "insert", "start") /\ count <= NumMsgs
    BY <1>1, <1>4 DEF Insert, RingInv, Counting
  <2>2. count \in Msg /\ count \in Letter /\ count # NULL /\ Main \in Channel
    BY <1>1, <2>1, ChannelsAre DEF Msg, Letter, NULL, RingInv, Counting
  <2>3. \/ count < NumMsgs /\ count' = count + 1 /\ mpc' = "insert"
        \/ count = NumMsgs /\ count' = 1 /\ mpc' = "start"
    BY <1>1, <2>1 DEF Count
  <2>4. /\ chan' \in [Channel -> Seq(Letter)]
        /\ Len(chan'[Main]) <= BufferSize
        /\ \A d \in Channel \ {Main} : chan'[d] = chan[d]
    BY <1>1, <2>1, <2>2, SendAppends
  <2>5. Typed'
    BY <1>1, <1>2, <2>3, <2>4 DEF Typed
  <2>6. Counting' /\ mpc' # "assert" /\ Collected' /\ AllStarted' /\ OrdersToStop' /\ Joined' /\ InHand'
    BY <1>1, <1>2, <2>3, StressAssumption
    DEF RingInv, Counting, Collected, AllStarted, OrdersToStop, Joined, InHand, Stopping
  <2>7. \A m \in Msg : OnePlace(m)'
    <3> TAKE m \in Msg
    <3>1. m \in Nat /\ m <= NumMsgs
      BY <1>1 DEF Msg
    <3>2. count = m => IsAt(m, Main, -1)
      BY <1>1 DEF IsAt, Unsent
    <3>3. \A d \in Channel : Held(m, d)' <=> Held(m, d) /\ ~(count = m /\ -1 = 0 /\ d = Main)
      BY <1>2 DEF Held
    <3>4. Unsent(m)' <=> Unsent(m) /\ ~(count = m /\ -1 = -1)
      BY <1>1, <2>1, <2>3, <3>1 DEF Unsent
    <3> QED
      BY <1>1, <2>1, <2>2, <3>2, <3>3, <3>4, PutKeepsPlaces DEF RingInv
  <2>8. StartOrders'
    <3>1. Cardinality(Orders)' = Cardinality(Orders)
      BY <1>1, <2>1, <2>2, OrdersAfterSend, OrdersFinite
    <3>2. Given = 0 /\ Given' = 0
      BY <1>1, <2>3 DEF Given
    <3> QED
      BY <1>2, <3>1, <3>2 DEF RingInv, StartOrders, Started
  <2>9. NobodyLeft'
    BY <1>1, <1>2, <2>4, ChannelsAre DEF RingInv, NobodyLeft, Stopping
  <2> QED
    BY <2>5, <2>6, <2>7, <2>8, <2>9 DEF RingInv
<1> QED
  BY <1>3, <1>4

\* A send of NULL by main moves no message.
LEMMA NullMovesNothing ==
  ASSUME Typed, NEW m \in Msg, OnePlace(m), NEW c \in Channel, channel_send(c, NULL),
         data' = data, msg_check' = msg_check, mpc # "insert", mpc' # "insert"
  PROVE  OnePlace(m)'
<1>1. NULL \in Letter /\ NULL # m /\ Main \in Channel
  BY ChannelsAre DEF Letter, Msg, NULL
<1>2. \A d \in Channel : Held(m, d)' <=> Held(m, d)
  BY DEF Held
<1>3. Unsent(m)' <=> Unsent(m)
  BY DEF Unsent
<1> QED
  BY <1>1, <1>2, <1>3, PutKeepsPlaces

LEMMA StartKeeps ==
  ASSUME RingInv, Start
  PROVE  RingInv'
<1>1. Typed /\ count \in Nat /\ count <= Threads /\ mpc = "start" /\ Threads \in Nat
  BY StressAssumption DEF RingInv, Counting, Start
<1>2. wpc' = wpc /\ start' = start /\ data' = data /\ target' = target /\ done' = done /\ msg_check' = msg_check
  BY DEF Start, workerVars
<1>3. channel_send(Main, NULL) /\ NULL \in Letter /\ Main \in Channel
  BY ChannelsAre DEF Start, Letter
<1>4. \/ count < Threads /\ count' = count + 1 /\ mpc' = "start"
      \/ count = Threads /\ count' = 1 /\ mpc' = "sleep"
  BY <1>1 DEF Start, Count
<1>5. /\ chan' \in [Channel -> Seq(Letter)]
      /\ Len(chan'[Main]) <= BufferSize
      /\ \A d \in Channel \ {Main} : chan'[d] = chan[d]
  BY <1>1, <1>3, SendAppends
<1>6. Typed'
  BY <1>1, <1>2, <1>4, <1>5 DEF Typed
<1>7. Counting' /\ mpc' # "assert" /\ Collected' /\ AllStarted' /\ OrdersToStop' /\ Joined' /\ InHand'
  BY <1>1, <1>2, <1>4
  DEF RingInv, Counting, Collected, AllStarted, OrdersToStop, Joined, InHand, Stopping
<1>8. \A m \in Msg : OnePlace(m)'
  BY <1>1, <1>2, <1>3, <1>4, NullMovesNothing DEF RingInv
<1>9. StartOrders'
  <2>1. Cardinality(Orders)' = Cardinality(Orders) + 1
    BY <1>1, <1>3, OrdersAfterSend
  <2>2. Given = count - 1 /\ Given' = count
    BY <1>1, <1>4 DEF Given
  <2> QED
    BY <1>1, <1>2, <2>1, <2>2, OrdersFinite, StartedFinite DEF RingInv, StartOrders, Started
<1>10. NobodyLeft'
  BY <1>1, <1>2, <1>5, ChannelsAre DEF RingInv, NobodyLeft, Stopping
<1> QED
  BY <1>6, <1>7, <1>8, <1>9, <1>10 DEF RingInv

\* Here the theorem needs usleep to have been long enough.
LEMMA SetDoneKeeps ==
  ASSUME SleepEnough, RingInv, SetDone
  PROVE  RingInv'
<1>1. Typed /\ mpc = "sleep" /\ count = 1 /\ \A w \in Worker : ~start[w]
  BY DEF RingInv, Counting, SetDone
<1>2. /\ wpc' = wpc /\ start' = start /\ data' = data /\ target' = target /\ done' = TRUE
      /\ chan' = chan /\ count' = count /\ msg_check' = msg_check
      /\ mpc' = IF NumMsgs = 0 THEN "stop" ELSE "collect"
  BY DEF SetDone, workerVars
<1>3. Typed' /\ Counting' /\ mpc' # "assert" /\ InHand' /\ AllStarted' /\ Joined'
  BY <1>1, <1>2, StressAssumption DEF RingInv, Typed, Counting, InHand, AllStarted, Joined
<1>4. msg_check = {} /\ (NumMsgs = 0 => Msg = {})
  BY <1>1 DEF RingInv, Collected, Msg
<1>5. Collected'
  BY <1>1, <1>2, <1>4, FS_EmptySet DEF Collected, Stopping
<1>6. \A m \in Msg : OnePlace(m)'
  BY <1>1, <1>2 DEF RingInv, OnePlace, IsAt, Queued, Held, Unsent
<1>7. StartOrders'
  BY <1>1, <1>2 DEF RingInv, StartOrders, Orders, Started, Given
<1>8. NobodyLeft'
  BY <1>1, <1>2 DEF RingInv, NobodyLeft, Stopping
<1>9. OrdersToStop'
  <2> SUFFICES ASSUME NumMsgs = 0 PROVE OrdersToStop'
    BY <1>2 DEF OrdersToStop, Stopping
  <2>1. Clear
    BY <1>1, <1>4, NoOrderLeft DEF RingInv, NobodyLeft, Stopping, Clear
  <2>2. \A c \in Channel : Len(chan[c]) = 0
    BY <2>1, ChannelsClear
  <2>3. \A w \in Worker : wpc[w] # "exit" /\ ~Told(w)'
    BY <1>1, <1>2, StressAssumption DEF RingInv, NobodyLeft, Stopping, Told, Worker
  <2> QED
    BY <1>2, <2>2, <2>3, ChannelsAre DEF OrdersToStop
<1> QED
  BY <1>3, <1>5, <1>6, <1>7, <1>8, <1>9 DEF RingInv

LEMMA CollectKeeps ==
  ASSUME RingInv, Collect
  PROVE  RingInv'
<1> DEFINE x == chan[Main][1]
<1>1. Typed /\ mpc = "collect" /\ count \in Nat /\ 1 <= count /\ count <= NumMsgs /\ NumMsgs \in Nat
      /\ Main \in Channel /\ \A w \in Worker : ~start[w]
  BY StressAssumption, ChannelsAre DEF RingInv, Counting, AllStarted, Collect
<1>2. channel_receive(Main) /\ Head(chan[Main]) = x /\ x \in Letter
  <2>1. channel_receive(Main)
    BY DEF Collect
  <2> QED
    BY <2>1, <1>1, ReceiveTakesHead
<1>3. /\ chan' \in [Channel -> Seq(Letter)]
      /\ Len(chan[Main]) >= 1 /\ Len(chan'[Main]) = Len(chan[Main]) - 1
      /\ DOMAIN chan'[Main] = 1..(Len(chan[Main]) - 1)
      /\ \A i \in 1..(Len(chan[Main]) - 1) : chan'[Main][i] = chan[Main][i + 1]
      /\ \A d \in Channel \ {Main} : chan'[d] = chan[d]
  BY <1>1, <1>2, ReceiveTakesHead
<1>4. DOMAIN chan[Main] = 1..Len(chan[Main]) /\ Len(chan[Main]) \in 0..BufferSize /\ BufferSize \in Nat
  BY <1>1, QueueShape, StressAssumption
<1>5. Orders = {}
  BY <1>1, NoOrderLeft
<1>6. x # NULL
  BY <1>3, <1>4, <1>5 DEF Orders
<1>7. x \in Msg /\ x \notin msg_check
  <2>1. x \in Msg
    BY <1>2, <1>6 DEF Letter
  <2>2. IsAt(x, Main, 1)
    BY <1>3, <1>4 DEF IsAt, Queued
  <2>3. x \in msg_check => IsAt(x, Main, 0)
    BY DEF IsAt, Held
  <2> QED
    BY <1>1, <2>1, <2>2, <2>3 DEF RingInv, OnePlace
<1>8. /\ wpc' = wpc /\ start' = start /\ data' = data /\ target' = target /\ done' = done
      /\ msg_check' = msg_check \cup {x}
      /\ \/ count < NumMsgs /\ count' = count + 1 /\ mpc' = "collect"
         \/ count = NumMsgs /\ count' = 1 /\ mpc' = "stop"
  BY <1>1, <1>2, <1>7 DEF Collect, Count, workerVars
<1>9. Typed'
  <2>1. Len(chan'[Main]) <= BufferSize
    BY <1>3, <1>4
  <2>2. \A c \in Channel \ {Main} : Len(chan'[c]) <= BufferSize
    BY <1>1, <1>3 DEF Typed
  <2> QED
    BY <1>1, <1>3, <1>7, <1>8, <2>1, <2>2 DEF Typed
<1>10. Counting' /\ mpc' # "assert" /\ InHand' /\ AllStarted' /\ Joined'
  BY <1>1, <1>8, StressAssumption DEF RingInv, Counting, InHand, AllStarted, Joined
<1>11. Collected'
  <2>1. IsFiniteSet(Msg) /\ Cardinality(Msg) = NumMsgs
    BY <1>1, FS_Interval DEF Msg
  <2>2. IsFiniteSet(msg_check) /\ Cardinality(msg_check) = count - 1
    BY <1>1, <2>1, FS_Subset DEF RingInv, Typed, Collected
  <2>3. Cardinality(msg_check') = count /\ msg_check' \subseteq Msg
    <3> HIDE DEF x
    <3>1. Cardinality(msg_check \cup {x}) = Cardinality(msg_check) + 1
      BY <1>7, <2>2, FS_AddElement
    <3> QED
      BY <1>1, <1>7, <1>8, <2>2, <3>1 DEF Typed
  <2>4. CASE mpc' = "collect"
    BY <1>1, <1>8, <2>3, <2>4 DEF Collected, Stopping
  <2>5. CASE mpc' = "stop"
    BY <1>8, <2>1, <2>3, <2>5, FS_Subset DEF Collected, Stopping
  <2> QED
    BY <1>8, <2>4, <2>5
<1>12. \A m \in Msg : OnePlace(m)'
  <2> TAKE m \in Msg
  <2>1. Queued(m, Main, 1) <=> x = m
    BY <1>3, <1>4 DEF Queued
  <2> HIDE DEF x
  <2>2. \A c \in Channel : Held(m, c)' <=> Held(m, c) \/ (c = Main /\ Queued(m, Main, 1))
    BY <1>8, <2>1 DEF Held
  <2>3. Unsent(m)' <=> Unsent(m)
    BY <1>1, <1>8 DEF Unsent
  <2> QED
    BY <1>1, <1>2, <2>2, <2>3, TakeKeepsPlaces DEF RingInv
<1>13. StartOrders' /\ Orders' = {}
  <2>1. Orders' = {}
    <3>1. \A i \in 1..Len(chan[Main]) : chan[Main][i] # NULL
      BY <1>4, <1>5 DEF Orders
    <3>2. \A i \in 1..(Len(chan[Main]) - 1) : i + 1 \in 1..Len(chan[Main])
      BY <1>4
    <3>3. \A i \in 1..(Len(chan[Main]) - 1) : chan'[Main][i] # NULL
      BY <1>3, <3>1, <3>2
    <3> QED
      BY <1>3, <3>3 DEF Orders
  <2>2. Given' = Threads /\ Given = Threads
    BY <1>1, <1>8 DEF Given
  <2> QED
    BY <1>5, <1>8, <2>1, <2>2 DEF RingInv, StartOrders, Started
<1>14. \A w \in Worker : wpc[w] # "exit" /\ chan'[w] = chan[w] /\ \A i \in DOMAIN chan[w] : chan[w][i] # NULL
  BY <1>1, <1>3, ChannelsAre DEF RingInv, NobodyLeft, Stopping
<1>15. NobodyLeft'
  BY <1>8, <1>14 DEF NobodyLeft
<1>16. OrdersToStop'
  <2> SUFFICES ASSUME mpc' = "stop" PROVE OrdersToStop'
    BY <1>8 DEF OrdersToStop, Stopping
  <2>1. Clear'
    BY <1>9, <1>11, <1>12, <1>13, <1>14 DEF Clear, Collected, Stopping
  <2>2. (\A c \in Channel : Len(chan[c]) = 0)'
    BY <2>1, ChannelsClear, PTL
  <2>3. \A w \in Worker : ~Told(w)'
    BY <1>8 DEF Told, Worker
  <2> QED
    BY <1>8, <1>14, <2>2, <2>3, ChannelsAre DEF OrdersToStop
<1> QED
  BY <1>9, <1>10, <1>11, <1>12, <1>13, <1>15, <1>16 DEF RingInv

LEMMA StopKeeps ==
  ASSUME RingInv, Stop
  PROVE  RingInv'
<1> DEFINE c == count - 1
<1>1. Typed /\ mpc = "stop" /\ count \in Nat /\ 1 <= count /\ count <= Threads /\ Threads \in Nat
  BY StressAssumption DEF RingInv, Counting, Stop
<1>2. wpc' = wpc /\ start' = start /\ data' = data /\ target' = target /\ done' = done /\ msg_check' = msg_check
  BY DEF Stop, workerVars
<1>3. /\ channel_send(c, NULL) /\ NULL \in Letter
      /\ c \in Worker /\ c \in Channel /\ c # Main /\ Main \in Channel
  BY <1>1, ChannelsAre DEF Stop, Letter, Worker
<1>4. \/ count < Threads /\ count' = count + 1 /\ mpc' = "stop"
      \/ count = Threads /\ count' = 1 /\ mpc' = "join"
  BY <1>1 DEF Stop, Count
<1>5. /\ chan' \in [Channel -> Seq(Letter)]
      /\ Len(chan'[c]) <= BufferSize /\ Len(chan'[c]) = Len(chan[c]) + 1
      /\ \A d \in Channel \ {c} : chan'[d] = chan[d]
  BY <1>1, <1>3, SendAppends
<1>6. Typed'
  BY <1>1, <1>2, <1>4, <1>5 DEF Typed
<1>7. Counting' /\ mpc' # "assert" /\ Collected' /\ AllStarted' /\ InHand' /\ NobodyLeft'
  BY <1>1, <1>2, <1>4
  DEF RingInv, Counting, Collected, AllStarted, InHand, NobodyLeft, Stopping
<1>8. \A m \in Msg : OnePlace(m)'
  BY <1>1, <1>2, <1>3, <1>4, NullMovesNothing DEF RingInv
<1>9. StartOrders'
  <2>1. Orders' = Orders
    BY <1>3, <1>5 DEF Orders
  <2> QED
    BY <1>1, <1>2, <1>4, <2>1 DEF RingInv, StartOrders, Started, Given
<1>10. OrdersToStop' /\ Joined'
  <2>1. /\ Len(chan[Main]) = 0
        /\ \A w \in Worker : /\ wpc[w] = "exit" => Told(w)
                             /\ Len(chan[w]) = IF Told(w) /\ wpc[w] # "exit" THEN 1 ELSE 0
    BY <1>1 DEF RingInv, OrdersToStop, Stopping
  <2>2. \A w \in Worker : (Told(w)' <=> Told(w) \/ w = c) /\ ~Told(c)
    BY <1>1, <1>4 DEF Told, Worker
  <2>3. \A w \in Worker : Len(chan'[w]) = IF w = c THEN Len(chan[w]) + 1 ELSE Len(chan[w])
    BY <1>5, ChannelsAre
  <2> HIDE DEF c
  <2>4. Len(chan'[Main]) = 0
    BY <1>3, <1>5, <2>1
  <2>5. \A w \in Worker : /\ wpc'[w] = "exit" => Told(w)'
                          /\ Len(chan'[w]) = IF Told(w)' /\ wpc'[w] # "exit" THEN 1 ELSE 0
    <3> TAKE w \in Worker
    <3>1. wpc[w] = "exit" => Told(w)
      BY <2>1
    <3>2. Len(chan[w]) = IF Told(w) /\ wpc[w] # "exit" THEN 1 ELSE 0
      BY <2>1
    <3> QED
      BY <1>2, <2>2, <2>3, <3>1, <3>2
  <2>6. OrdersToStop'
    BY <2>4, <2>5 DEF OrdersToStop
  <2>7. Joined'
    BY <1>4 DEF Joined, Worker
  <2> QED
    BY <2>6, <2>7
<1> QED
  BY <1>6, <1>7, <1>8, <1>9, <1>10 DEF RingInv

LEMMA JoinKeeps ==
  ASSUME RingInv, Join
  PROVE  RingInv'
<1>1. mpc = "join" /\ count \in Nat /\ 1 <= count /\ count <= Threads /\ Threads \in Nat
  BY StressAssumption DEF RingInv, Counting, Join
<1>2. /\ chan' = chan /\ wpc' = wpc /\ start' = start /\ data' = data /\ target' = target
      /\ done' = done /\ msg_check' = msg_check /\ wpc[count - 1] = "exit"
  BY DEF Join, workerVars
<1>3. \/ count < Threads /\ count' = count + 1 /\ mpc' = "join"
      \/ count = Threads /\ count' = 1 /\ mpc' = "cleanup"
  BY <1>1 DEF Join, Count
<1>4. Typed' /\ Counting' /\ mpc' # "assert" /\ Collected' /\ AllStarted' /\ InHand' /\ NobodyLeft'
  BY <1>1, <1>2, <1>3
  DEF RingInv, Typed, Counting, Collected, AllStarted, InHand, NobodyLeft, Stopping
<1>5. \A m \in Msg : OnePlace(m)'
  BY <1>1, <1>2, <1>3 DEF RingInv, OnePlace, IsAt, Queued, Held, Unsent
<1>6. StartOrders'
  BY <1>1, <1>2, <1>3 DEF RingInv, StartOrders, Orders, Started, Given
<1>7. OrdersToStop'
  BY <1>1, <1>2, <1>3 DEF RingInv, OrdersToStop, Stopping, Told
<1>8. Joined'
  <2>1. \A w \in Worker : w < count - 1 => wpc[w] = "exit"
    BY <1>1 DEF RingInv, Joined
  <2>2. \A w \in Worker : w < count => wpc[w] = "exit"
    BY <1>1, <1>2, <2>1 DEF Worker
  <2> QED
    BY <1>1, <1>2, <1>3, <2>2 DEF Joined, Worker
<1> QED
  BY <1>4, <1>5, <1>6, <1>7, <1>8 DEF RingInv

\* The channels are torn down empty.
LEMMA CleanupKeeps ==
  ASSUME RingInv, Cleanup
  PROVE  RingInv'
<1>1. mpc = "cleanup" /\ mpc' = "end" /\ count = 1 /\ Typed
  BY DEF RingInv, Counting, Cleanup
<1>2. /\ wpc' = wpc /\ start' = start /\ data' = data /\ target' = target
      /\ done' = done /\ msg_check' = msg_check /\ count' = count
  BY DEF Cleanup, workerVars
<1>3. \A c \in Channel : chan[c] = <<>>
  <2> TAKE c \in Channel
  <2>1. Len(chan[c]) = 0
    BY <1>1, ChannelsAre DEF RingInv, OrdersToStop, Joined, Stopping
  <2> QED
    BY <1>1, <2>1, EmptySeq DEF Typed
<1>4. chan' = chan
  BY <1>1, <1>3 DEF Cleanup, Typed
<1>5. Typed' /\ Counting' /\ mpc' # "assert" /\ Collected' /\ AllStarted' /\ InHand' /\ NobodyLeft'
  BY <1>1, <1>2, <1>4
  DEF RingInv, Typed, Counting, Collected, AllStarted, InHand, NobodyLeft, Stopping
<1>6. \A m \in Msg : OnePlace(m)'
  BY <1>1, <1>2, <1>4 DEF RingInv, OnePlace, IsAt, Queued, Held, Unsent
<1>7. StartOrders'
  BY <1>1, <1>2, <1>4 DEF RingInv, StartOrders, Orders, Started, Given
<1>8. OrdersToStop' /\ Joined'
  BY <1>1, <1>2, <1>4 DEF RingInv, OrdersToStop, Joined, Stopping, Told
<1> QED
  BY <1>5, <1>6, <1>7, <1>8 DEF RingInv

-----------------------------------------------------------------------------
(* The theorems                                                            *)

LEMMA RingStarts == Init => RingInv
<1> SUFFICES ASSUME Init PROVE RingInv
  OBVIOUS
<1>1. /\ chan = [c \in Channel |-> <<>>] /\ wpc = [w \in Worker |-> "recv"]
      /\ start = [w \in Worker |-> TRUE] /\ data = [w \in Worker |-> NULL]
      /\ target = [w \in Worker |-> Main] /\ done = FALSE
      /\ mpc = "insert" /\ count = 1 /\ msg_check = {}
  BY ChannelsAre DEF Init
<1>2. \A c \in Channel : chan[c] = <<>> /\ Len(chan[c]) = 0 /\ DOMAIN chan[c] = {}
  BY <1>1
<1>3. Typed
  <2>1. <<>> \in Seq(Letter) /\ NULL \in Letter /\ Main \in Channel
    BY ChannelsAre DEF Letter
  <2>2. chan \in [Channel -> Seq(Letter)]
    BY <1>1, <2>1
  <2>3. \A c \in Channel : Len(chan[c]) <= BufferSize
    BY <1>2, StressAssumption
  <2> QED
    BY <1>1, <2>1, <2>2, <2>3 DEF Typed
<1>4. Counting /\ mpc # "assert" /\ InHand /\ AllStarted /\ Collected /\ OrdersToStop /\ Joined
  BY <1>1, StressAssumption
  DEF Counting, InHand, AllStarted, Collected, OrdersToStop, Joined, Stopping
<1>5. \A m \in Msg : OnePlace(m)
  <2> TAKE m \in Msg
  <2>1. \A c \in Channel, i \in Int : ~Queued(m, c, i) /\ ~Held(m, c) /\ Unsent(m)
    BY <1>1, <1>2, ChannelsAre, StressAssumption DEF Queued, Held, Unsent, Msg, NULL, Channel, Worker
  <2> QED
    BY <2>1, ChannelsAre DEF OnePlace, IsAt
<1>6. StartOrders
  <2>1. Orders = {} /\ Started = {} /\ Given = 0
    BY <1>1, <1>2, ChannelsAre DEF Orders, Started, Given
  <2> QED
    BY <2>1, FS_EmptySet DEF StartOrders
<1>7. NobodyLeft
  BY <1>1, <1>2, ChannelsAre DEF NobodyLeft
<1> QED
  BY <1>3, <1>4, <1>5, <1>6, <1>7 DEF RingInv

LEMMA RingStep ==
  ASSUME SleepEnough
  PROVE  RingInv /\ [Next]_vars => RingInv'
<1> SUFFICES ASSUME RingInv, [Next]_vars PROVE RingInv'
  OBVIOUS
<1>1. CASE \E w \in Worker : WorkerStep(w)
  BY <1>1, RecvKeeps, CheckKeeps, SendKeeps DEF WorkerStep
<1>2. CASE MainStep
  BY <1>2, InsertKeeps, StartKeeps, SetDoneKeeps, CollectKeeps, StopKeeps, JoinKeeps, CleanupKeeps
  DEF MainStep
<1>3. CASE UNCHANGED vars
  BY <1>3
  DEF vars, workerVars, mainVars, RingInv, Typed, Counting, OnePlace, IsAt, Queued, Held, Unsent,
      InHand, StartOrders, Orders, Started, Given, NobodyLeft, AllStarted, Collected,
      OrdersToStop, Told, Joined, Stopping
<1> QED
  BY <1>1, <1>2, <1>3 DEF Next

LEMMA RingInvariant ==
  ASSUME SleepEnough
  PROVE  Spec => []RingInv
BY RingStarts, RingStep, PTL DEF Spec

LEMMA InOnePlace ==
  ASSUME Typed, NEW m \in Msg, OnePlace(m)
  PROVE  Cardinality(Places(m)) = 1
<1>1. PICK c \in Channel, i \in Int : IsAt(m, c, i)
  BY DEF OnePlace
<1>2. i \in -1..BufferSize
  BY <1>1, QueueShape, StressAssumption DEF IsAt, Queued
<1>3. Places(m) = {<<c, i>>}
  BY <1>1, <1>2 DEF Places, OnePlace, Channel
<1> QED
  BY <1>3, FS_Singleton

\* Whatever the number of threads, slots and messages, and whenever the flag is
\* set while they are passed on: no message is lost or duplicated, and main's
\* two assertions hold (stress_send_recv.c:27-52, 84-109).
THEOREM EveryMessageOnce ==
  ASSUME SleepEnough
  PROVE  Spec => []EachMessageOnce
<1>1. RingInv => EachMessageOnce
  <2> SUFFICES ASSUME RingInv PROVE EachMessageOnce
    OBVIOUS
  <2>1. Typed /\ mpc # "assert" /\ \A m \in Msg : Cardinality(Places(m)) = 1
    BY InOnePlace DEF RingInv
  <2>2. \A c \in Worker \cup {Main} : Len(chan[c]) <= BufferSize /\ ToSet(chan[c]) \subseteq Msg \cup {NULL}
    <3> TAKE c \in Worker \cup {Main}
    <3>1. c \in Channel
      BY ChannelsAre
    <3> QED
      BY <2>1, <3>1, QueueShape DEF Typed, ToSet, Letter
  <2>3. count \in 1..(Threads + NumMsgs)
    BY <2>1, StressAssumption DEF RingInv, Counting, Typed
  <2> QED
    BY <2>1, <2>2, <2>3, ChannelsAre DEF EachMessageOnce, TypeOK, Typed, Letter
<1> QED
  BY <1>1, RingInvariant, PTL

\* When main closes, destroys and frees the channels, every worker has left its
\* loop and there is nothing in any of them (stress_send_recv.c:111-133).
THEOREM QuietAtTheEnd ==
  ASSUME SleepEnough
  PROVE  Spec => []QuietAtCleanup
<1>1. RingInv => QuietAtCleanup
  <2> SUFFICES ASSUME RingInv, mpc = "cleanup"
               PROVE  /\ \A w \in Worker : wpc[w] = "exit"
                      /\ \A c \in DOMAIN chan : chan[c] = <<>>
    BY DEF QuietAtCleanup
  <2>1. \A w \in Worker : wpc[w] = "exit"
    BY DEF RingInv, Joined
  <2>2. \A c \in DOMAIN chan : chan[c] = <<>>
    <3> TAKE c \in DOMAIN chan
    <3>1. c \in Channel /\ chan[c] \in Seq(Letter)
      BY DEF RingInv, Typed
    <3>2. Len(chan[c]) = 0
      BY <2>1, <3>1, ChannelsAre DEF RingInv, OrdersToStop, Stopping
    <3> QED
      BY <3>1, <3>2, EmptySeq
  <2> QED
    BY <2>1, <2>2
<1> QED
  BY <1>1, RingInvariant, PTL
=============================================================================
