--------------------------- MODULE ChannelsProof ----------------------------
(***************************************************************************)
(* Theorems about the channels of Channels.tla, for any finite set of      *)
(* threads, any channels, sizes, messages and calls: types; mutex is a     *)
(* lock, permits are conserved while a channel is open, close is final,    *)
(* and the chain of wakeups after a close is never broken; the lists hold  *)
(* the local semaphores of live selects only, each once, and no wakeup is  *)
(* lost between the scan of a select that found nothing and its wait; and  *)
(* the channels implement ChannelSpec: every step is a step of the atomic  *)
(* bounded queues, or one that no caller can see.                          *)
(***************************************************************************)
EXTENDS Channels, SequenceTheorems, FiniteSetTheorems, WellFoundedInduction, TLAPS

-----------------------------------------------------------------------------
(* Facts about data                                                        *)

LEMMA LeastElement ==
  ASSUME NEW T \in SUBSET Nat, T # {}
  PROVE  \E x \in T : \A y \in T : x <= y
<1>1. IsWellFoundedOn(OpToRel(<, Nat), Nat)
  BY NatLessThanWellFounded
<1>2. PICK x \in T : \A y \in T : ~ (<<y, x>> \in OpToRel(<, Nat))
  BY <1>1, WFMin
<1>3. \A y \in T : ~(y < x)
  BY <1>2 DEF OpToRel
<1> QED
  BY <1>3

\* list_find of a registered thread is a position of the list.
LEMMA FindInList ==
  ASSUME NEW l \in Seq(Thread), NEW t \in ToSet(l)
  PROVE  list_find(l, t) \in DOMAIN l /\ l[list_find(l, t)] = t
<1> DEFINE At_t == {k \in DOMAIN l : l[k] = t}
<1>1. DOMAIN l = 1..Len(l) /\ Len(l) \in Nat
  BY LenProperties
<1>2. At_t \in SUBSET Nat /\ At_t # {}
  BY <1>1 DEF ToSet
<1>3. PICK k \in At_t : \A j \in At_t : k <= j
  BY <1>2, LeastElement
<1>4. k \in DOMAIN l /\ l[k] = t /\ \A j \in 1..(k - 1) : l[j] # t
  BY <1>1, <1>3
<1> QED
  BY <1>4 DEF list_find

LEMMA RemoveTyped ==
  ASSUME NEW l \in Seq(Thread), NEW t \in ToSet(l)
  PROVE  list_remove(l, t) \in Seq(Thread)
<1> DEFINE k == list_find(l, t)
<1>1. k \in 1..Len(l) /\ Len(l) \in Nat
  BY FindInList, LenProperties
<1>2. \A i \in 1..Len(l) : l[i] \in Thread
  BY ElementOfSeq
<1> HIDE DEF k
<1>3. SubSeq(l, 1, k - 1) \in Seq(Thread)
  BY <1>1, <1>2, SubSeqProperties
<1>4. SubSeq(l, k + 1, Len(l)) \in Seq(Thread)
  BY <1>1, <1>2, SubSeqProperties
<1>5. RemoveAt(l, k) \in Seq(Thread)
  BY <1>3, <1>4, ConcatProperties DEF RemoveAt
<1> QED
  BY <1>5 DEF list_remove, k

LEMMA InsertTyped ==
  ASSUME NEW l \in Seq(Thread), NEW t \in Thread
  PROVE  list_insert(l, t) \in Seq(Thread)
BY ConcatProperties DEF list_insert

LEMMA ForeachTyped ==
  ASSUME ListTypeOK, NEW side \in Side, NEW c \in Chan, list_foreach(side, c)
  PROVE  local' \in [Thread -> Nat]
<1>1. ASSUME NEW u \in Thread
      PROVE  Cardinality({k \in DOMAIN list[side][c] : list[side][c][k] = u}) \in Nat
  <2> DEFINE l == list[side][c]
  <2>1. l \in Seq(Thread)
    BY DEF ListTypeOK
  <2>2. DOMAIN l = 1..Len(l) /\ Len(l) \in Nat
    BY <2>1, LenProperties
  <2>3. IsFiniteSet(1..Len(l))
    BY <2>2, FS_Interval
  <2>4. IsFiniteSet({k \in DOMAIN l : l[k] = u})
    BY <2>2, <2>3, FS_Subset
  <2> QED
    BY <2>4, FS_CardinalityType
<1> DEFINE n(u) == Cardinality({k \in DOMAIN list[side][c] : list[side][c][k] = u})
<1>2. local' = [u \in Thread |-> local[u] + n(u)]
  BY DEF list_foreach
<1>3. \A u \in Thread : n(u) \in Nat /\ local[u] \in Nat
  BY <1>1 DEF ListTypeOK
<1> HIDE DEF n
<1> QED
  BY <1>2, <1>3

-----------------------------------------------------------------------------
(* Moving a thread                                                         *)

\* Every step of a thread other than an invocation or a return inside a
\* select leaves it in its call, at the same entry.
Moves(t, q) ==
  /\ pc' = [pc EXCEPT ![t] = q]
  /\ UNCHANGED <<call, calls, idx>>

SendPc == {"send_take", "send_miss_lock", "send_miss_cs", "send_lock", "send_cs",
           "send_give_back", "send_post", "send_notify_lock", "send_notify"}
RecvPc == {"recv_take", "recv_miss_lock", "recv_miss_cs", "recv_lock", "recv_cs",
           "recv_give_back", "recv_post", "recv_notify_lock", "recv_notify"}

\* A thread inside channel_send (channel_receive) works on an entry that sends
\* (receives).
EntryMatches ==
  \A t \in Thread :
    /\ pc[t] \in SendPc => Cur(t).is_send
    /\ pc[t] \in RecvPc => ~Cur(t).is_send

\* The call of a thread in a call, and the entry it works on.
LEMMA CurrentEntry ==
  ASSUME ThreadTypeOK, NEW t \in Thread, InCall(t)
  PROVE  /\ call[t] \in Call /\ WellFormed(call[t])
         /\ idx[t] \in DOMAIN call[t].list /\ Len(call[t].list) \in Nat
         /\ DOMAIN call[t].list = 1..Len(call[t].list)
         /\ Cur(t) \in Entry /\ Ch(t) \in Chan
         /\ Cur(t).is_send => Cur(t).data \in Msg
<1>1. call[t] \in Call /\ WellFormed(call[t]) /\ idx[t] \in DOMAIN call[t].list
  BY DEF ThreadTypeOK
<1>2. call[t].list \in Seq(Entry)
  BY <1>1 DEF Call
<1>3. DOMAIN call[t].list = 1..Len(call[t].list) /\ Len(call[t].list) \in Nat
  BY <1>2, LenProperties
<1>4. Cur(t) \in Entry
  BY <1>1, <1>2, <1>3, ElementOfSeq DEF Cur
<1>5. Ch(t) \in Chan
  BY <1>1 DEF ThreadTypeOK, Ch, Cur
<1>6. Cur(t).is_send => Cur(t).data \in Msg
  BY <1>1 DEF WellFormed, Cur
<1> QED
  BY <1>1, <1>3, <1>4, <1>5, <1>6

LEMMA MoveTyped ==
  ASSUME ThreadTypeOK, NEW t \in Thread, InCall(t), NEW q \in PcSet, Moves(t, q),
         ret' \in [Thread -> Outcome]
  PROVE  ThreadTypeOK'
BY DEF ThreadTypeOK, Moves, InCall

LEMMA MoveMatches ==
  ASSUME ThreadTypeOK, EntryMatches, NEW t \in Thread, NEW q \in PcSet, Moves(t, q),
         q \in SendPc => pc[t] \in SendPc,
         q \in RecvPc => pc[t] \in RecvPc
  PROVE  EntryMatches'
BY DEF ThreadTypeOK, EntryMatches, Moves, Cur

\* Going to an entry of one's own call to try it.
TriesEntry(t, i) ==
  /\ i \in DOMAIN call[t].list
  /\ pc' = [pc EXCEPT ![t] = TakePc(call[t].list[i])]
  /\ idx' = [idx EXCEPT ![t] = i]
  /\ UNCHANGED <<call, calls>>

LEMMA TryTyped ==
  ASSUME ThreadTypeOK, EntryMatches, NEW t \in Thread, InCall(t), NEW i, TriesEntry(t, i),
         ret' \in [Thread -> Outcome]
  PROVE  ThreadTypeOK' /\ EntryMatches'
<1>1. i \in Nat \ {0} /\ i \in DOMAIN call[t].list
  BY CurrentEntry DEF TriesEntry
<1>2. TakePc(call[t].list[i]) \in {"send_take", "recv_take"}
  BY DEF TakePc
<1>3. ThreadTypeOK'
  BY <1>1, <1>2 DEF ThreadTypeOK, TriesEntry, InCall, PcSet
<1>4. EntryMatches'
  BY <1>1, <1>2 DEF ThreadTypeOK, EntryMatches, TriesEntry, TakePc, Cur, SendPc, RecvPc
<1> QED
  BY <1>3, <1>4

LEMMA StoreTyped ==
  ASSUME ThreadTypeOK, NEW t \in Thread, NEW st \in Status, StoreStatus(t, st)
  PROVE  ret' \in [Thread -> Outcome]
BY DEF ThreadTypeOK, StoreStatus, Outcome

\* Where a return leads, and that it keeps the types.
LEMMA ReturnTyped ==
  ASSUME ThreadTypeOK, EntryMatches, NEW t \in Thread, InCall(t), NEW st \in Status,
         Return(t, st), UNCHANGED callVars
  PROVE  ThreadTypeOK' /\ EntryMatches'
<1>1. CASE ReturnDirect(t, st)
  <2>1. Moves(t, "ready") /\ "ready" \in PcSet
    BY <1>1 DEF ReturnDirect, Moves, Goto, callVars, PcSet
  <2>2. ret' \in [Thread -> Outcome]
    BY <1>1, StoreTyped DEF ReturnDirect
  <2> QED
    BY <2>1, <2>2, MoveTyped, MoveMatches DEF SendPc, RecvPc
<1>2. CASE SelectDecided(t, st)
  <2>1. /\ pc' = [pc EXCEPT ![t] = "unreg_lock"] /\ idx' = [idx EXCEPT ![t] = 1]
        /\ UNCHANGED <<call, calls>>
    BY <1>2 DEF SelectDecided, Goto, callVars
  <2>2. ret' \in [Thread -> Outcome]
    BY <1>2, StoreTyped DEF SelectDecided
  <2>3. 1 \in DOMAIN call[t].list
    BY CurrentEntry
  <2>4. ThreadTypeOK'
    <3>1. /\ pc' \in [Thread -> PcSet] /\ idx' \in [Thread -> Nat \ {0}]
          /\ call' \in [Thread -> Call] /\ calls' \in [Thread -> Nat]
      BY <2>1 DEF ThreadTypeOK, PcSet
    <3>2. ASSUME NEW u \in Thread, InCall(u)'
          PROVE  /\ InCall(u) /\ call'[u] = call[u] /\ idx'[u] \in DOMAIN call[u].list
      BY <2>1, <2>3, <3>2 DEF ThreadTypeOK, InCall
    <3> QED
      BY <2>2, <3>1, <3>2 DEF ThreadTypeOK
  <2>5. EntryMatches'
    BY <2>1 DEF ThreadTypeOK, EntryMatches, Cur, SendPc, RecvPc
  <2> QED
    BY <2>4, <2>5
<1>3. CASE SelectNext(t, st)
  <2>1. idx[t] + 1 \in DOMAIN call[t].list
    BY <1>3, CurrentEntry DEF SelectNext
  <2>2. TriesEntry(t, idx[t] + 1)
    BY <1>3, <2>1 DEF SelectNext, TriesEntry, Goto, callVars, ThreadTypeOK
  <2>3. ret' \in [Thread -> Outcome]
    BY <1>3 DEF SelectNext, ThreadTypeOK
  <2> QED
    BY <2>2, <2>3, TryTyped
<1>4. CASE SelectNothing(t, st)
  <2>1. Moves(t, "select_wait") /\ "select_wait" \in PcSet
    BY <1>4 DEF SelectNothing, Moves, Goto, callVars, PcSet
  <2>2. ret' \in [Thread -> Outcome]
    BY <1>4 DEF SelectNothing, ThreadTypeOK
  <2> QED
    BY <2>1, <2>2, MoveTyped, MoveMatches DEF SendPc, RecvPc
<1> QED
  BY <1>1, <1>2, <1>3, <1>4 DEF Return

-----------------------------------------------------------------------------
(* The type invariant                                                      *)

Typed == TypeOK /\ EntryMatches

LEMMA SemaphoreTyped ==
  ASSUME NEW sem \in [Chan -> Nat], NEW c \in Chan
  PROVE  /\ Plus(sem, c) \in [Chan -> Nat]
         /\ Wait(sem, c) => Minus(sem, c) \in [Chan -> Nat]
BY DEF Plus, Minus, Wait

LEMMA LockTyped ==
  ASSUME ListTypeOK, NEW side \in Side, NEW c \in Chan, Lock(side, c) \/ Unlock(side, c)
  PROVE  locked' \in [Side -> [Chan -> BOOLEAN]]
<1>1. PICK b \in BOOLEAN : locked' = [locked EXCEPT ![side][c] = b]
  BY DEF Lock, Unlock
<1>2. locked[side] \in [Chan -> BOOLEAN]
  BY DEF ListTypeOK
<1>3. [locked[side] EXCEPT ![c] = b] \in [Chan -> BOOLEAN]
  BY <1>2
<1> QED
  BY <1>1, <1>3 DEF ListTypeOK

\* A thread in SendStep, ..., LifeStep is in a call.
LEMMA StepInCall ==
  ASSUME NEW t \in Thread, Step(t)
  PROVE  InCall(t)
<1>1. CASE SendStep(t)
  BY <1>1 DEF SendStep, InCall, At, SendTake, SendMiss, SendMissLock, SendMissReport,
    SendLock, SendClosed, SendGiveBack, SendAdd, SendPost, SendNotifyLock, SendNotify
<1>2. CASE RecvStep(t)
  BY <1>2 DEF RecvStep, InCall, At, RecvTake, RecvMiss, RecvMissLock, RecvMissOpen,
    RecvMissClosed, RecvLock, RecvClosed, RecvGiveBack, RecvRemove, RecvPost,
    RecvNotifyLock, RecvNotify
<1>3. CASE CloseStep(t)
  BY <1>3 DEF CloseStep, InCall, At, CloseLock, CloseAgain, CloseSet, ClosePostAvailable,
    ClosePostUsed, CloseSendLock, CloseSendNotify, CloseRecvLock, CloseRecvNotify
<1>4. CASE SelectStep(t)
  BY <1>4 DEF SelectStep, InCall, At, RegLock, RegInsert, SelectWake, UnregLock, UnregRemove
<1>5. CASE LifeStep(t)
  BY <1>5 DEF LifeStep, InCall, At, Create, CreateUnbuffered, DestroyOpen, DestroyClosed,
    DestroyFree
<1> QED
  BY <1>1, <1>2, <1>3, <1>4, <1>5 DEF Step

\* The steps that change no channel.
LEMMA QuietSteps ==
  ASSUME NEW t \in Thread, Step(t)
  PROVE  \/ UNCHANGED chanVars
         \/ SendTake(t) \/ SendMissLock(t) \/ SendMissReport(t) \/ SendLock(t)
         \/ SendClosed(t) \/ SendGiveBack(t) \/ SendAdd(t) \/ SendPost(t)
         \/ RecvTake(t) \/ RecvMissLock(t) \/ RecvMissOpen(t) \/ RecvMissClosed(t)
         \/ RecvLock(t) \/ RecvClosed(t) \/ RecvGiveBack(t) \/ RecvRemove(t) \/ RecvPost(t)
         \/ CloseLock(t) \/ CloseAgain(t) \/ CloseSet(t) \/ ClosePostAvailable(t)
         \/ ClosePostUsed(t) \/ Create(t) \/ DestroyFree(t)
<1>1. ASSUME SendMiss(t) \/ SendNotifyLock(t) \/ SendNotify(t) \/ RecvMiss(t)
               \/ RecvNotifyLock(t) \/ RecvNotify(t)
      PROVE  UNCHANGED chanVars
  BY <1>1 DEF SendMiss, SendNotifyLock, SendNotify, RecvMiss, RecvNotifyLock, RecvNotify
<1>2. ASSUME CloseSendLock(t) \/ CloseSendNotify(t) \/ CloseRecvLock(t) \/ CloseRecvNotify(t)
               \/ SelectStep(t) \/ CreateUnbuffered(t) \/ DestroyOpen(t) \/ DestroyClosed(t)
      PROVE  UNCHANGED chanVars
  BY <1>2 DEF CloseSendLock, CloseSendNotify, CloseRecvLock, CloseRecvNotify, SelectStep,
    RegLock, RegInsert, SelectWake, UnregLock, UnregRemove, CreateUnbuffered, DestroyOpen,
    DestroyClosed
<1> QED
  BY <1>1, <1>2 DEF Step, SendStep, RecvStep, CloseStep, LifeStep

LEMMA StepChan ==
  ASSUME Typed, NEW t \in Thread, Step(t)
  PROVE  ChanTypeOK'
<1> DEFINE c == Ch(t)
<1>1. /\ c \in Chan /\ Cap[c] \in Nat
      /\ Cur(t).is_send => Cur(t).data \in Msg
  BY CurrentEntry, StepInCall, CapAssumption DEF Typed, TypeOK
<1>2. /\ Plus(mutex, c) \in [Chan -> Nat] /\ Plus(available, c) \in [Chan -> Nat]
      /\ Plus(used, c) \in [Chan -> Nat]
      /\ Wait(mutex, c) => Minus(mutex, c) \in [Chan -> Nat]
      /\ Wait(available, c) => Minus(available, c) \in [Chan -> Nat]
      /\ Wait(used, c) => Minus(used, c) \in [Chan -> Nat]
  BY <1>1, SemaphoreTyped DEF Typed, TypeOK, ChanTypeOK
<1> HIDE DEF c
<1>3. CASE UNCHANGED chanVars
  BY <1>3 DEF Typed, TypeOK, ChanTypeOK, chanVars
<1>4. CASE SendTake(t) \/ SendMissLock(t) \/ SendMissReport(t) \/ SendLock(t)
             \/ SendClosed(t) \/ SendGiveBack(t) \/ SendPost(t)
  BY <1>2, <1>4 DEF Typed, TypeOK, ChanTypeOK, c, SendTake, SendMissLock, SendMissReport,
    SendLock, SendClosed, SendGiveBack, SendPost
<1>5. CASE RecvTake(t) \/ RecvMissLock(t) \/ RecvMissOpen(t) \/ RecvMissClosed(t)
             \/ RecvLock(t) \/ RecvClosed(t) \/ RecvGiveBack(t) \/ RecvPost(t)
  BY <1>2, <1>5 DEF Typed, TypeOK, ChanTypeOK, c, RecvTake, RecvMissLock, RecvMissOpen,
    RecvMissClosed, RecvLock, RecvClosed, RecvGiveBack, RecvPost
<1>6. CASE CloseLock(t) \/ CloseAgain(t) \/ ClosePostAvailable(t) \/ ClosePostUsed(t)
  BY <1>2, <1>6 DEF Typed, TypeOK, ChanTypeOK, c, CloseLock, CloseAgain,
    ClosePostAvailable, ClosePostUsed
<1>7. CASE CloseSet(t) \/ DestroyFree(t)
  BY <1>1, <1>7 DEF Typed, TypeOK, ChanTypeOK, CloseSet, DestroyFree
<1>8. CASE SendAdd(t)
  <2>1. Cur(t).data \in Msg
    BY <1>1, <1>8 DEF Typed, EntryMatches, SendAdd, At, SendPc
  <2>2. /\ mutex' = Plus(mutex, c) /\ UNCHANGED <<life, closed, available, used>>
        /\ buf' = buf \/ buf' = [buf EXCEPT ![c] = Append(@, Cur(t).data)]
    BY <1>8 DEF SendAdd, c
  <2>3. buf \in [Chan -> Seq(Msg)] /\ Append(buf[c], Cur(t).data) \in Seq(Msg)
    BY <1>1, <2>1, AppendProperties DEF Typed, TypeOK, ChanTypeOK
  <2>4. buf' \in [Chan -> Seq(Msg)]
    BY <1>1, <2>2, <2>3
  <2> QED
    BY <1>2, <2>2, <2>4 DEF Typed, TypeOK, ChanTypeOK
<1>9. CASE RecvRemove(t)
  <2>1. /\ mutex' = Plus(mutex, c) /\ UNCHANGED <<life, closed, available, used>>
        /\ buf' = [buf EXCEPT ![c] = IF @ = <<>> THEN @ ELSE Tail(@)]
    BY <1>9 DEF RecvRemove, c
  <2>2. buf[c] \in Seq(Msg) /\ (buf[c] # <<>> => Tail(buf[c]) \in Seq(Msg))
    BY <1>1, HeadTailProperties DEF Typed, TypeOK, ChanTypeOK
  <2>3. buf' \in [Chan -> Seq(Msg)]
    BY <1>1, <2>1, <2>2 DEF Typed, TypeOK, ChanTypeOK
  <2> QED
    BY <1>2, <2>1, <2>3 DEF Typed, TypeOK, ChanTypeOK
<1>10. CASE Create(t)
  <2>1. <<>> \in Seq(Msg)
    BY EmptySeq
  <2> QED
    BY <1>1, <1>10, <2>1 DEF Typed, TypeOK, ChanTypeOK, Create, c
<1> QED
  BY <1>3, <1>4, <1>5, <1>6, <1>7, <1>8, <1>9, <1>10, QuietSteps

LEMMA ListUpdateTyped ==
  ASSUME ListTypeOK, NEW side \in Side, NEW c \in Chan, NEW l \in Seq(Thread)
  PROVE  [list EXCEPT ![side][c] = l] \in [Side -> [Chan -> Seq(Thread)]]
<1>1. list[side] \in [Chan -> Seq(Thread)]
  BY DEF ListTypeOK
<1>2. [list[side] EXCEPT ![c] = l] \in [Chan -> Seq(Thread)]
  BY <1>1
<1> QED
  BY <1>2 DEF ListTypeOK

LEMMA StepList ==
  ASSUME Typed, NEW t \in Thread, Step(t)
  PROVE  ListTypeOK'
<1> DEFINE c == Ch(t)
           s == WatchSide(Cur(t))
<1>1. c \in Chan /\ s \in Side /\ ListTypeOK
  BY CurrentEntry, StepInCall DEF Typed, TypeOK, WatchSide, Side
<1>2. "send" \in Side /\ "recv" \in Side
  BY DEF Side
<1> HIDE DEF c, s
<1>3. CASE UNCHANGED listVars
  BY <1>1, <1>3 DEF ListTypeOK, listVars
<1>4. CASE SendNotifyLock(t) \/ RecvNotifyLock(t) \/ CloseSendLock(t) \/ CloseRecvLock(t)
             \/ RegLock(t) \/ UnregLock(t)
  <2>1. PICK d \in Side : Lock(d, c)
    BY <1>1, <1>2, <1>4 DEF SendNotifyLock, RecvNotifyLock, CloseSendLock, CloseRecvLock,
      RegLock, UnregLock, c, s
  <2>2. UNCHANGED <<list, local>>
    BY <1>4 DEF SendNotifyLock, RecvNotifyLock, CloseSendLock, CloseRecvLock, RegLock, UnregLock
  <2> QED
    BY <1>1, <2>1, <2>2, LockTyped DEF ListTypeOK
<1>5. CASE SendNotify(t) \/ RecvNotify(t) \/ CloseSendNotify(t) \/ CloseRecvNotify(t)
  <2>1. PICK d \in Side : Unlock(d, c) /\ list_foreach(d, c)
    BY <1>2, <1>5 DEF SendNotify, RecvNotify, CloseSendNotify, CloseRecvNotify, c
  <2>2. UNCHANGED list
    BY <1>5 DEF SendNotify, RecvNotify, CloseSendNotify, CloseRecvNotify
  <2>3. locked' \in [Side -> [Chan -> BOOLEAN]]
    BY <1>1, <2>1, LockTyped
  <2>4. local' \in [Thread -> Nat]
    BY <1>1, <2>1, ForeachTyped
  <2> QED
    BY <1>1, <2>2, <2>3, <2>4 DEF ListTypeOK
<1>6. CASE RegInsert(t)
  <2>1. /\ Unlock(s, c) /\ UNCHANGED local
        /\ list' = list \/ list' = [list EXCEPT ![s][c] = list_insert(@, t)]
    BY <1>6 DEF RegInsert, s, c
  <2>2. list[s][c] \in Seq(Thread) /\ list_insert(list[s][c], t) \in Seq(Thread)
    BY <1>1, InsertTyped DEF ListTypeOK
  <2> DEFINE l == list_insert(list[s][c], t)
             upd == [list EXCEPT ![s][c] = l]
  <2>3. list' \in [Side -> [Chan -> Seq(Thread)]]
    <3>1. list' = list \/ (l \in Seq(Thread) /\ list' = upd)
      BY <2>1, <2>2
    <3> HIDE DEF l
    <3>2. l \in Seq(Thread) => upd \in [Side -> [Chan -> Seq(Thread)]]
      BY <1>1, ListUpdateTyped
    <3> QED
      BY <1>1, <3>1, <3>2 DEF ListTypeOK
  <2>4. locked' \in [Side -> [Chan -> BOOLEAN]]
    BY <1>1, <2>1, LockTyped
  <2> QED
    BY <1>1, <2>1, <2>3, <2>4 DEF ListTypeOK
<1>7. CASE UnregRemove(t)
  <2>1. /\ Unlock(s, c)
        /\ local' = local \/ local' = [local EXCEPT ![t] = 0]
        /\ \/ list' = list
           \/ t \in ToSet(list[s][c]) /\ list' = [list EXCEPT ![s][c] = list_remove(@, t)]
    BY <1>7 DEF UnregRemove, Registered, s, c
  <2>2. /\ list[s][c] \in Seq(Thread)
        /\ t \in ToSet(list[s][c]) => list_remove(list[s][c], t) \in Seq(Thread)
    BY <1>1, RemoveTyped DEF ListTypeOK
  <2> DEFINE l == list_remove(list[s][c], t)
             upd == [list EXCEPT ![s][c] = l]
  <2>3. list' \in [Side -> [Chan -> Seq(Thread)]]
    <3>1. list' = list \/ (l \in Seq(Thread) /\ list' = upd)
      BY <2>1, <2>2
    <3> HIDE DEF l
    <3>2. l \in Seq(Thread) => upd \in [Side -> [Chan -> Seq(Thread)]]
      BY <1>1, ListUpdateTyped
    <3> QED
      BY <1>1, <3>1, <3>2 DEF ListTypeOK
  <2>4. locked' \in [Side -> [Chan -> BOOLEAN]]
    BY <1>1, <2>1, LockTyped
  <2>5. local' \in [Thread -> Nat]
    BY <1>1, <2>1 DEF ListTypeOK
  <2> QED
    BY <2>3, <2>4, <2>5 DEF ListTypeOK
<1>8. CASE SelectWake(t)
  BY <1>1, <1>8 DEF SelectWake, ListTypeOK
<1>9. CASE Create(t)
  <2>1. /\ UNCHANGED local
        /\ list' = [d \in Side |-> [list[d] EXCEPT ![c] = <<>>]]
        /\ locked' = [d \in Side |-> [locked[d] EXCEPT ![c] = FALSE]]
    BY <1>9 DEF Create, c
  <2>2. <<>> \in Seq(Thread)
    BY EmptySeq
  <2>3. list' \in [Side -> [Chan -> Seq(Thread)]]
    BY <1>1, <2>1, <2>2, ListUpdateTyped DEF ListTypeOK
  <2>4. ASSUME NEW d \in Side
        PROVE  [locked[d] EXCEPT ![c] = FALSE] \in [Chan -> BOOLEAN]
    BY <1>1 DEF ListTypeOK
  <2>5. locked' \in [Side -> [Chan -> BOOLEAN]]
    BY <2>1, <2>4
  <2> QED
    BY <1>1, <2>1, <2>3, <2>5 DEF ListTypeOK
<1>10. ASSUME SendTake(t) \/ SendMiss(t) \/ SendMissLock(t) \/ SendMissReport(t) \/ SendLock(t)
                \/ SendClosed(t) \/ SendGiveBack(t) \/ SendAdd(t) \/ SendPost(t)
       PROVE  UNCHANGED listVars
  BY <1>10 DEF SendTake, SendMiss, SendMissLock, SendMissReport, SendLock, SendClosed,
    SendGiveBack, SendAdd, SendPost
<1>11. ASSUME RecvTake(t) \/ RecvMiss(t) \/ RecvMissLock(t) \/ RecvMissOpen(t)
                \/ RecvMissClosed(t) \/ RecvLock(t) \/ RecvClosed(t) \/ RecvGiveBack(t)
                \/ RecvRemove(t) \/ RecvPost(t)
       PROVE  UNCHANGED listVars
  BY <1>11 DEF RecvTake, RecvMiss, RecvMissLock, RecvMissOpen, RecvMissClosed, RecvLock,
    RecvClosed, RecvGiveBack, RecvRemove, RecvPost
<1>12. ASSUME CloseLock(t) \/ CloseAgain(t) \/ CloseSet(t) \/ ClosePostAvailable(t)
                \/ ClosePostUsed(t) \/ CreateUnbuffered(t) \/ DestroyOpen(t)
                \/ DestroyClosed(t) \/ DestroyFree(t)
       PROVE  UNCHANGED listVars
  BY <1>12 DEF CloseLock, CloseAgain, CloseSet, ClosePostAvailable, ClosePostUsed,
    CreateUnbuffered, DestroyOpen, DestroyClosed, DestroyFree
<1> QED
  BY <1>3, <1>4, <1>5, <1>6, <1>7, <1>8, <1>9, <1>10, <1>11, <1>12
  DEF Step, SendStep, RecvStep, CloseStep, SelectStep, LifeStep

\* Where each step takes the thread: to another place of its call, out of an
\* entry by Return, or through the entries of a select.
LEMMA StepThread ==
  ASSUME Typed, NEW t \in Thread, Step(t)
  PROVE  ThreadTypeOK' /\ EntryMatches'
<1> DEFINE Stays == \E q \in PcSet : /\ Moves(t, q)
                                     /\ q \in SendPc => pc[t] \in SendPc
                                     /\ q \in RecvPc => pc[t] \in RecvPc
<1>1. InCall(t) /\ ThreadTypeOK /\ EntryMatches
  BY StepInCall DEF Typed, TypeOK
<1>2. ASSUME Stays, ret' \in [Thread -> Outcome]
      PROVE  ThreadTypeOK' /\ EntryMatches'
  BY <1>1, <1>2, MoveTyped, MoveMatches
<1>3. ASSUME NEW st \in Status, Return(t, st), UNCHANGED callVars
      PROVE  ThreadTypeOK' /\ EntryMatches'
  BY <1>1, <1>3, ReturnTyped
<1>4. ret \in [Thread -> Outcome]
  BY <1>1 DEF ThreadTypeOK
<1> USE DEF At, Goto, Moves, PcSet, SendPc, RecvPc, callVars
<1>5. CASE SendTake(t) \/ SendMiss(t) \/ SendMissLock(t) \/ SendLock(t) \/ SendClosed(t)
             \/ SendPost(t) \/ SendNotifyLock(t)
  BY <1>2, <1>4, <1>5 DEF SendTake, SendMiss, SendMissLock, SendLock, SendClosed, SendPost,
    SendNotifyLock
<1>6. CASE RecvTake(t) \/ RecvMiss(t) \/ RecvMissLock(t) \/ RecvMissClosed(t) \/ RecvLock(t)
             \/ RecvClosed(t) \/ RecvPost(t) \/ RecvNotifyLock(t)
  BY <1>2, <1>4, <1>6 DEF RecvTake, RecvMiss, RecvMissLock, RecvMissClosed, RecvLock,
    RecvClosed, RecvPost, RecvNotifyLock
<1>7. CASE CloseLock(t) \/ CloseSet(t) \/ ClosePostAvailable(t) \/ ClosePostUsed(t)
             \/ CloseSendLock(t) \/ CloseSendNotify(t) \/ CloseRecvLock(t)
  BY <1>2, <1>4, <1>7 DEF CloseLock, CloseSet, ClosePostAvailable, ClosePostUsed,
    CloseSendLock, CloseSendNotify, CloseRecvLock
<1>8. CASE DestroyClosed(t) \/ RegLock(t) \/ UnregLock(t)
  BY <1>2, <1>4, <1>8 DEF DestroyClosed, RegLock, UnregLock
<1>9. CASE SendMissReport(t) \/ SendGiveBack(t) \/ SendNotify(t) \/ RecvMissOpen(t)
             \/ RecvGiveBack(t) \/ RecvNotify(t)
  BY <1>3, <1>9 DEF SendMissReport, SendGiveBack, SendNotify, RecvMissOpen, RecvGiveBack,
    RecvNotify, Status
<1>10. CASE CloseAgain(t) \/ CloseRecvNotify(t) \/ Create(t) \/ CreateUnbuffered(t)
              \/ DestroyOpen(t) \/ DestroyFree(t)
  BY <1>3, <1>10 DEF CloseAgain, CloseRecvNotify, Create, CreateUnbuffered, DestroyOpen,
    DestroyFree, Return, Status
<1>11. CASE SendAdd(t)
  BY <1>2, <1>3, <1>4, <1>11 DEF SendAdd, Status
<1>12. CASE RecvRemove(t)
  <2>1. CASE Return(t, "OTHER_ERROR") /\ UNCHANGED callVars
    BY <1>3, <2>1 DEF Status
  <2>2. CASE ~Return(t, "OTHER_ERROR") /\ UNCHANGED callVars
    <3> DEFINE c == Ch(t)
               got == IF buf[c] = <<>> THEN BufferEmpty ELSE Head(buf[c])
    <3>1. /\ ret' = [ret EXCEPT ![t].data = got] /\ got # BufferEmpty
          /\ Moves(t, "recv_post") /\ pc[t] = "recv_cs"
      BY <1>12, <2>2 DEF RecvRemove
    <3>2. c \in Chan /\ buf[c] \in Seq(Msg)
      BY <1>1, CurrentEntry DEF Typed, TypeOK, ChanTypeOK
    <3>3. got \in Msg
      BY <3>1, <3>2, HeadTailProperties
    <3> HIDE DEF got, c
    <3>4. ret' \in [Thread -> Outcome]
      BY <1>4, <3>1, <3>3 DEF Outcome
    <3> QED
      BY <1>2, <3>1, <3>4
  <2> QED
    BY <1>12, <2>1, <2>2 DEF RecvRemove
<1>13. CASE RegInsert(t)
  <2>1. CASE idx[t] < Len(call[t].list)
    <3>1. /\ pc' = [pc EXCEPT ![t] = "reg_lock"] /\ idx' = [idx EXCEPT ![t] = @ + 1]
          /\ UNCHANGED <<call, calls, ret>>
      BY <1>13, <2>1 DEF RegInsert
    <3>2. idx[t] + 1 \in DOMAIN call[t].list /\ idx[t] + 1 \in Nat \ {0}
      BY <1>1, <2>1, CurrentEntry
    <3>3. ThreadTypeOK'
      BY <1>1, <3>1, <3>2 DEF ThreadTypeOK, InCall
    <3>4. EntryMatches'
      BY <1>1, <3>1 DEF ThreadTypeOK, EntryMatches, Cur
    <3> QED
      BY <3>3, <3>4
  <2>2. CASE ~(idx[t] < Len(call[t].list))
    <3>1. TriesEntry(t, 1) /\ UNCHANGED ret
      BY <1>1, <1>13, <2>2, CurrentEntry DEF RegInsert, TriesEntry
    <3> QED
      BY <1>1, <1>4, <3>1, TryTyped
  <2> QED
    BY <2>1, <2>2
<1>14. CASE SelectWake(t)
  <2>1. TriesEntry(t, 1) /\ UNCHANGED ret
    BY <1>1, <1>14, CurrentEntry DEF SelectWake, TriesEntry
  <2> QED
    BY <1>1, <1>4, <2>1, TryTyped
<1>15. CASE UnregRemove(t)
  <2>1. CASE idx[t] < Len(call[t].list)
    <3>1. /\ pc' = [pc EXCEPT ![t] = "unreg_lock"] /\ idx' = [idx EXCEPT ![t] = @ + 1]
          /\ UNCHANGED <<call, calls, ret>>
      BY <1>15, <2>1 DEF UnregRemove
    <3>2. idx[t] + 1 \in DOMAIN call[t].list /\ idx[t] + 1 \in Nat \ {0}
      BY <1>1, <2>1, CurrentEntry
    <3>3. ThreadTypeOK'
      BY <1>1, <3>1, <3>2 DEF ThreadTypeOK, InCall
    <3>4. EntryMatches'
      BY <1>1, <3>1 DEF ThreadTypeOK, EntryMatches, Cur
    <3> QED
      BY <3>3, <3>4
  <2>2. CASE ~(idx[t] < Len(call[t].list))
    <3>1. Moves(t, "ready") /\ UNCHANGED ret
      BY <1>15, <2>2 DEF UnregRemove
    <3> QED
      BY <1>2, <1>4, <3>1
  <2> QED
    BY <2>1, <2>2
<1> QED
  BY <1>5, <1>6, <1>7, <1>8, <1>9, <1>10, <1>11, <1>12, <1>13, <1>14, <1>15
  DEF Step, SendStep, RecvStep, CloseStep, SelectStep, LifeStep

\* Starting a call, or being refused one, keeps the types: the menu holds only
\* well-formed calls, and a call starts only on channels that exist.
LEMMA InvokeTyped ==
  ASSUME Typed, NEW t \in Thread, Invoke(t) \/ NullCall(t)
  PROVE  Typed'
<1>1. NoOutcome \in Outcome /\ [NoOutcome EXCEPT !.status = "OTHER_ERROR"] \in Outcome
  BY DEF NoOutcome, Outcome, Status
<1>2. CASE Invoke(t)
  <2>1. PICK r \in Menu[t] : /\ Contract(r)
                             /\ call' = [call EXCEPT ![t] = r]
                             /\ pc' = [pc EXCEPT ![t] = StartPc[r.op]]
                             /\ local' = IF r.op = "select" THEN [local EXCEPT ![t] = 0]
                                         ELSE local
    BY <1>2 DEF Invoke, Goto
  <2>2. WellFormed(r) /\ r \in Call /\ r.op \in Op
    BY MenuAssumption DEF WellFormed, Call
  <2>3. \A i \in DOMAIN r.list : r.list[i].channel \in Chan
    BY <2>1 DEF Contract
  <2>4. 1 \in DOMAIN r.list
    <3>1. r.list \in Seq(Entry) /\ r.list # <<>>
      BY <2>2 DEF Call
    <3> QED
      BY <3>1, EmptySeq, LenProperties
  <2>5. /\ calls' = [calls EXCEPT ![t] = @ + 1] /\ idx' = [idx EXCEPT ![t] = 1]
        /\ ret' = [ret EXCEPT ![t] = NoOutcome]
        /\ UNCHANGED <<chanVars, list, locked>>
    BY <1>2 DEF Invoke
  <2>6. ChanTypeOK' /\ ListTypeOK'
    BY <2>1, <2>5 DEF Typed, TypeOK, ChanTypeOK, ListTypeOK, chanVars
  <2>7. StartPc[r.op] \in PcSet
    BY <2>2 DEF StartPc, Op, PcSet
  <2>8. /\ pc' \in [Thread -> PcSet] /\ call' \in [Thread -> Call]
        /\ idx' \in [Thread -> Nat \ {0}] /\ ret' \in [Thread -> Outcome]
        /\ calls' \in [Thread -> Nat]
    BY <1>1, <2>1, <2>2, <2>5, <2>7 DEF Typed, TypeOK, ThreadTypeOK
  <2>9. ASSUME NEW u \in Thread, InCall(u)'
        PROVE  /\ WellFormed(call'[u])
               /\ \A i \in DOMAIN call'[u].list : call'[u].list[i].channel \in Chan
               /\ idx'[u] \in DOMAIN call'[u].list
    <3>1. CASE u = t
      BY <2>1, <2>2, <2>3, <2>4, <2>5, <3>1 DEF Typed, TypeOK, ThreadTypeOK
    <3>2. CASE u # t
      BY <2>1, <2>5, <2>9, <3>2 DEF Typed, TypeOK, ThreadTypeOK, InCall
    <3> QED
      BY <3>1, <3>2
  <2>10. ThreadTypeOK'
    BY <2>8, <2>9 DEF ThreadTypeOK
  <2>11. ASSUME NEW u \in Thread
         PROVE  /\ pc'[u] \in SendPc => Cur(u)'.is_send
                /\ pc'[u] \in RecvPc => ~Cur(u)'.is_send
    <3>1. CASE u = t
      <4>1. Cur(u)' = r.list[1] /\ pc'[u] = StartPc[r.op]
        BY <2>1, <2>5, <3>1 DEF Typed, TypeOK, ThreadTypeOK, Cur
      <4> QED
        BY <2>2, <4>1 DEF StartPc, Op, WellFormed, SendPc, RecvPc
    <3>2. CASE u # t
      BY <2>1, <2>5, <3>2 DEF Typed, TypeOK, ThreadTypeOK, EntryMatches, Cur
    <3> QED
      BY <3>1, <3>2
  <2> QED
    BY <2>6, <2>10, <2>11 DEF Typed, TypeOK, EntryMatches
<1>3. CASE NullCall(t)
  <2>1. /\ calls' = [calls EXCEPT ![t] = @ + 1]
        /\ ret' = [ret EXCEPT ![t] = [NoOutcome EXCEPT !.status = "OTHER_ERROR"]]
        /\ UNCHANGED <<chanVars, listVars, call, pc, idx>>
    BY <1>3 DEF NullCall
  <2>2. ChanTypeOK' /\ ListTypeOK' /\ EntryMatches'
    BY <2>1 DEF Typed, TypeOK, ChanTypeOK, ListTypeOK, EntryMatches, Cur, chanVars, listVars
  <2>3. calls' \in [Thread -> Nat] /\ ret' \in [Thread -> Outcome]
    BY <1>1, <2>1 DEF Typed, TypeOK, ThreadTypeOK
  <2>4. ThreadTypeOK'
    BY <2>1, <2>3 DEF Typed, TypeOK, ThreadTypeOK, InCall
  <2> QED
    BY <2>2, <2>4 DEF Typed, TypeOK
<1> QED
  BY <1>2, <1>3

LEMMA InitTyped == Init => Typed
<1> SUFFICES ASSUME Init PROVE Typed
  OBVIOUS
<1>1. <<>> \in Seq(Msg) /\ <<>> \in Seq(Thread)
  BY EmptySeq
<1>2. ChanTypeOK /\ ListTypeOK
  BY <1>1 DEF Init, ChanTypeOK, ListTypeOK
<1>3. NoOutcome \in Outcome /\ NoCall \in Call
  <2>1. NullHandle \in Entry
    BY DEF NullHandle, Entry
  <2>2. <<NullHandle>> \in Seq(Entry) /\ <<NullHandle>> # <<>>
    BY <2>1
  <2> QED
    BY <2>2 DEF NoOutcome, NoCall, Outcome, Status, Call, Op
<1>4. ThreadTypeOK /\ EntryMatches
  BY <1>3 DEF Init, ThreadTypeOK, EntryMatches, InCall, PcSet, SendPc, RecvPc
<1> QED
  BY <1>2, <1>4 DEF Typed, TypeOK

LEMMA NextTyped == Typed /\ [Next]_vars => Typed'
<1> SUFFICES ASSUME Typed, [Next]_vars PROVE Typed'
  OBVIOUS
<1>1. CASE UNCHANGED vars
  BY <1>1 DEF Typed, TypeOK, ChanTypeOK, ListTypeOK, ThreadTypeOK, EntryMatches, InCall, Cur,
    vars, chanVars, listVars, callVars
<1>2. CASE Next
  <2>1. PICK t \in Thread : Invoke(t) \/ NullCall(t) \/ Step(t)
    BY <1>2 DEF Next
  <2>2. CASE Step(t)
    BY <2>2, StepChan, StepList, StepThread DEF Typed, TypeOK
  <2> QED
    BY <2>1, <2>2, InvokeTyped
<1> QED
  BY <1>1, <1>2

\* Whatever the programs that share the channels do: no semaphore goes below
\* zero, what the lists and the buffers hold has its type, and every thread in
\* a call works on an entry of a well-formed call (all of channel.c).
THEOREM ChannelsTyped == Spec => []TypeOK
<1>1. Spec => []Typed
  BY InitTyped, NextTyped, PTL DEF Spec
<1>2. Typed => TypeOK
  BY DEF Typed
<1> QED
  BY <1>1, <1>2, PTL

-----------------------------------------------------------------------------
(* Counting the threads at a place                                         *)

N(S, c) == Cardinality(AtCh(S, c))

\* No step touches where another thread is, or the entry it works on.
Frame(t) ==
  \A u \in Thread \ {t} : pc'[u] = pc[u] /\ call'[u] = call[u] /\ idx'[u] = idx[u]

LEMMA CountIsNat ==
  ASSUME NEW S, NEW c
  PROVE  IsFiniteSet(AtCh(S, c)) /\ N(S, c) \in Nat
<1>1. AtCh(S, c) \subseteq Thread
  BY DEF AtCh
<1>2. IsFiniteSet(AtCh(S, c))
  BY <1>1, ThreadAssumption, FS_Subset
<1> QED
  BY <1>2, FS_CardinalityType DEF N

\* A step of t changes a count by t's own coming and going.
LEMMA CountMoves ==
  ASSUME NEW t \in Thread, NEW S, NEW c, Frame(t)
  PROVE  /\ N(S, c) \in Nat /\ N(S, c)' \in Nat
         /\ N(S, c)' + (IF t \in AtCh(S, c) THEN 1 ELSE 0)
              = N(S, c) + (IF t \in AtCh(S, c)' THEN 1 ELSE 0)
<1> DEFINE A == AtCh(S, c)
           B == AtCh(S, c)'
           R == A \ {t}
<1>1. R = B \ {t}
  BY DEF AtCh, Frame, Ch, Cur
<1>2. IsFiniteSet(A) /\ Cardinality(A) \in Nat
  BY CountIsNat DEF N
<1>3. IsFiniteSet(R) /\ Cardinality(R) \in Nat
  BY <1>2, FS_Subset, FS_CardinalityType
<1>4. Cardinality(A) = Cardinality(R) + (IF t \in A THEN 1 ELSE 0)
  <2>1. CASE t \in A
    <3>1. A = R \cup {t} /\ t \notin R
      BY <2>1
    <3> HIDE DEF A, R
    <3> QED
      BY <1>3, <2>1, <3>1, FS_AddElement
  <2>2. CASE t \notin A
    <3>1. A = R
      BY <2>2
    <3> HIDE DEF A, R
    <3> QED
      BY <1>3, <2>2, <3>1
  <2> QED
    BY <2>1, <2>2
<1>5. Cardinality(B) = Cardinality(R) + (IF t \in B THEN 1 ELSE 0)
  <2>1. CASE t \in B
    <3>1. B = R \cup {t} /\ t \notin R
      BY <1>1, <2>1
    <3> HIDE DEF B, R
    <3> QED
      BY <1>3, <2>1, <3>1, FS_AddElement
  <2>2. CASE t \notin B
    <3>1. B = R
      BY <1>1, <2>2
    <3> HIDE DEF B, R
    <3> QED
      BY <1>3, <2>2, <3>1
  <2> QED
    BY <2>1, <2>2
<1>6. N(S, c) = Cardinality(A) /\ N(S, c)' = Cardinality(B)
  BY DEF N
<1> HIDE DEF A, B, R
<1>7. /\ N(S, c) \in Nat /\ N(S, c)' \in Nat
      /\ N(S, c)' + (IF t \in A THEN 1 ELSE 0) = N(S, c) + (IF t \in B THEN 1 ELSE 0)
  BY <1>2, <1>3, <1>4, <1>5, <1>6
<1> QED
  BY <1>7 DEF A, B

-----------------------------------------------------------------------------
(* What a step of t leaves alone                                           *)

\* The places the invariants count threads at.
Counted == MutexPc \cup RoomPc \cup MessagePc
             \cup {"recv_give_back", "create"}

LEMMA ReturnMoves ==
  ASSUME Typed, NEW t \in Thread, InCall(t), NEW st \in Status, Return(t, st),
         UNCHANGED callVars
  PROVE  Frame(t) /\ pc'[t] \notin Counted
<1>1. pc'[t] \in {"ready", "unreg_lock", "select_wait", "send_take", "recv_take"}
  BY DEF Typed, TypeOK, ThreadTypeOK, Return, ReturnDirect, SelectDecided, SelectNext,
    SelectNothing, Goto, TakePc
<1>2. Frame(t)
  BY DEF Typed, TypeOK, ThreadTypeOK, Return, ReturnDirect, SelectDecided, SelectNext,
    SelectNothing, Goto, Frame, callVars
<1> QED
  BY <1>1, <1>2 DEF Counted, MutexPc, RoomPc, MessagePc

\* A thread that arrives at a counted place is still at the same entry.
LEMMA StepMoves ==
  ASSUME Typed, NEW t \in Thread, Step(t)
  PROVE  Frame(t) /\ (pc'[t] \in Counted => Ch(t)' = Ch(t))
<1> DEFINE Stays == (\E q \in PcSet : Moves(t, q))
           Goes == \E q \in {"send_take", "recv_take", "reg_lock", "unreg_lock", "ready"} :
                     pc' = [pc EXCEPT ![t] = q]
           Keeps == (\E i \in Nat : idx' = [idx EXCEPT ![t] = i]) /\ UNCHANGED callVars
<1>1. InCall(t) /\ pc \in [Thread -> PcSet] /\ idx \in [Thread -> Nat \ {0}]
  BY StepInCall DEF Typed, TypeOK, ThreadTypeOK
<1>2. ASSUME Stays
      PROVE  Frame(t) /\ Ch(t)' = Ch(t)
  BY <1>1, <1>2 DEF Moves, Frame, Ch, Cur
<1>3. ASSUME NEW st \in Status, Return(t, st), UNCHANGED callVars
      PROVE  Frame(t) /\ pc'[t] \notin Counted
  BY <1>1, <1>3, ReturnMoves
<1>4. ASSUME Goes, Keeps
      PROVE  Frame(t) /\ pc'[t] \notin Counted
  BY <1>1, <1>4 DEF Frame, callVars, Counted, MutexPc, RoomPc, MessagePc
<1> HIDE DEF Stays, Goes, Keeps
<1>5. CASE SendStep(t)
  <2>1. CASE SendTake(t) \/ SendMiss(t) \/ SendMissLock(t) \/ SendLock(t) \/ SendClosed(t)
               \/ SendPost(t) \/ SendNotifyLock(t)
    BY <1>2, <2>1 DEF Stays, Moves, Goto, PcSet, callVars, SendTake, SendMiss, SendMissLock,
      SendLock, SendClosed, SendPost, SendNotifyLock
  <2>2. CASE SendMissReport(t) \/ SendGiveBack(t) \/ SendNotify(t)
    BY <1>3, <2>2 DEF SendMissReport, SendGiveBack, SendNotify, Status
  <2>3. CASE SendAdd(t)
    BY <1>2, <1>3, <2>3 DEF Stays, Moves, Goto, PcSet, callVars, SendAdd, Status
  <2> QED
    BY <1>5, <2>1, <2>2, <2>3 DEF SendStep
<1>6. CASE RecvStep(t)
  <2>1. CASE RecvTake(t) \/ RecvMiss(t) \/ RecvMissLock(t) \/ RecvMissClosed(t)
               \/ RecvLock(t) \/ RecvClosed(t) \/ RecvPost(t) \/ RecvNotifyLock(t)
    BY <1>2, <2>1 DEF Stays, Moves, Goto, PcSet, callVars, RecvTake, RecvMiss, RecvMissLock,
      RecvMissClosed, RecvLock, RecvClosed, RecvPost, RecvNotifyLock
  <2>2. CASE RecvMissOpen(t) \/ RecvGiveBack(t) \/ RecvNotify(t)
    BY <1>3, <2>2 DEF RecvMissOpen, RecvGiveBack, RecvNotify, Status
  <2>3. CASE RecvRemove(t)
    BY <1>2, <1>3, <2>3 DEF Stays, Moves, Goto, PcSet, callVars, RecvRemove, Status
  <2> QED
    BY <1>6, <2>1, <2>2, <2>3 DEF RecvStep
<1>7. CASE CloseStep(t) \/ LifeStep(t)
  <2>1. CASE CloseLock(t) \/ CloseSet(t) \/ ClosePostAvailable(t) \/ ClosePostUsed(t)
               \/ CloseSendLock(t) \/ CloseSendNotify(t) \/ CloseRecvLock(t)
               \/ DestroyClosed(t)
    BY <1>2, <2>1 DEF Stays, Moves, Goto, PcSet, callVars, CloseLock, CloseSet,
      ClosePostAvailable, ClosePostUsed, CloseSendLock, CloseSendNotify, CloseRecvLock,
      DestroyClosed
  <2>2. CASE CloseAgain(t) \/ CloseRecvNotify(t) \/ Create(t) \/ CreateUnbuffered(t)
               \/ DestroyOpen(t) \/ DestroyFree(t)
    BY <1>3, <2>2 DEF CloseAgain, CloseRecvNotify, Create, CreateUnbuffered, DestroyOpen,
      DestroyFree, Return, Status
  <2> QED
    BY <1>7, <2>1, <2>2 DEF CloseStep, LifeStep
<1>8. CASE SelectStep(t)
  <2>1. CASE RegLock(t) \/ UnregLock(t)
    BY <1>2, <2>1 DEF Stays, Moves, Goto, PcSet, callVars, RegLock, UnregLock
  <2>2. CASE RegInsert(t) \/ SelectWake(t) \/ UnregRemove(t)
    <3>1. Goes
      BY <2>2 DEF Goes, RegInsert, SelectWake, UnregRemove, Goto, TakePc
    <3>2. \/ idx' = [idx EXCEPT ![t] = idx[t] + 1] \/ idx' = [idx EXCEPT ![t] = 1]
          \/ idx' = [idx EXCEPT ![t] = idx[t]]
      BY <1>1, <2>2 DEF RegInsert, SelectWake, UnregRemove
    <3>3. UNCHANGED callVars /\ idx[t] \in Nat /\ idx[t] + 1 \in Nat
      BY <1>1, <2>2 DEF RegInsert, SelectWake, UnregRemove
    <3>4. Keeps
      BY <3>2, <3>3 DEF Keeps
    <3> QED
      BY <1>4, <3>1, <3>4
  <2> QED
    BY <1>8, <2>1, <2>2 DEF SelectStep
<1> QED
  BY <1>5, <1>6, <1>7, <1>8 DEF Step

-----------------------------------------------------------------------------
(* Which channels a thread can be working on                               *)

\* A channel is being created by one thread, before it exists; everywhere else
\* the channels of a call exist.  A channel that was never created is not closed.
Lives ==
  /\ \A t \in Thread : pc[t] = "create" => life[Ch(t)] = "none"
  /\ \A t \in Thread : InCall(t) /\ pc[t] # "create" =>
       \A i \in DOMAIN call[t].list : life[call[t].list[i].channel] # "none"
  /\ \A t, u \in Thread : t # u /\ pc[t] = "create" /\ pc[u] = "create" => Ch(t) # Ch(u)
  /\ \A c \in Chan : life[c] = "none" => ~closed[c]

\* Where a thread knows that its channel is closed.
AfterClose == {"recv_give_back", "close_post_available", "close_post_used"}
KnowsClosed == \A t \in Thread : pc[t] \in AfterClose => closed[Ch(t)]

LEMMA CreateAlone ==
  ASSUME Typed, Lives, NEW t \in Thread, NEW u \in Thread, t # u, pc[t] = "create", InCall(u)
  PROVE  Ch(u) # Ch(t)
<1>1. life[Ch(t)] = "none" /\ InCall(t)
  BY DEF Lives, InCall
<1>2. CASE pc[u] = "create"
  BY <1>2 DEF Lives
<1>3. CASE pc[u] # "create"
  <2>1. idx[u] \in DOMAIN call[u].list
    BY DEF Typed, TypeOK, ThreadTypeOK
  <2>2. life[Ch(u)] # "none"
    BY <1>3, <2>1 DEF Lives, Ch, Cur
  <2> QED
    BY <1>1, <2>2
<1> QED
  BY <1>2, <1>3

\* life and closed only change in these three steps.
LEMMA LifeMoves ==
  ASSUME NEW t \in Thread, Step(t)
  PROVE  \/ UNCHANGED <<life, closed>>
         \/ Create(t) \/ DestroyFree(t) \/ CloseSet(t)
BY QuietSteps DEF chanVars, SendTake, SendMissLock, SendMissReport, SendLock,
  SendClosed, SendGiveBack, SendAdd, SendPost, RecvTake, RecvMissLock, RecvMissOpen,
  RecvMissClosed, RecvLock, RecvClosed, RecvGiveBack, RecvRemove, RecvPost, CloseLock,
  CloseAgain, ClosePostAvailable, ClosePostUsed

\* No step leads to a creation, and no step but the creation leaves one.
LEMMA CreateMoves ==
  ASSUME Typed, NEW t \in Thread, Step(t)
  PROVE  /\ pc'[t] # "create"
         /\ pc[t] = "create" => pc'[t] = "ready"
         /\ UNCHANGED call
<1>1. InCall(t) /\ pc \in [Thread -> PcSet]
  BY StepInCall DEF Typed, TypeOK, ThreadTypeOK
<1>2. ASSUME NEW st \in Status, Return(t, st)
      PROVE  pc'[t] \in {"ready", "unreg_lock", "select_wait", "send_take", "recv_take"}
  BY <1>1, <1>2 DEF Return, ReturnDirect, SelectDecided, SelectNext, SelectNothing, Goto,
    TakePc
<1>3. CASE SendStep(t)
  BY <1>1, <1>2, <1>3 DEF SendStep, At, Goto, Status, callVars, SendTake, SendMiss,
    SendMissLock, SendMissReport, SendLock, SendClosed, SendGiveBack, SendAdd, SendPost,
    SendNotifyLock, SendNotify
<1>4. CASE RecvStep(t)
  BY <1>1, <1>2, <1>4 DEF RecvStep, At, Goto, Status, callVars, RecvTake, RecvMiss,
    RecvMissLock, RecvMissOpen, RecvMissClosed, RecvLock, RecvClosed, RecvGiveBack,
    RecvRemove, RecvPost, RecvNotifyLock, RecvNotify
<1>5. CASE CloseStep(t)
  BY <1>1, <1>5 DEF CloseStep, At, Goto, callVars, ReturnDirect, CloseLock, CloseAgain,
    CloseSet, ClosePostAvailable, ClosePostUsed, CloseSendLock, CloseSendNotify,
    CloseRecvLock, CloseRecvNotify
<1>6. CASE SelectStep(t)
  BY <1>1, <1>6 DEF SelectStep, At, Goto, callVars, TakePc, RegLock, RegInsert, SelectWake,
    UnregLock, UnregRemove
<1>7. CASE LifeStep(t)
  BY <1>1, <1>7 DEF LifeStep, At, Goto, callVars, ReturnDirect, Create, CreateUnbuffered,
    DestroyOpen, DestroyClosed, DestroyFree
<1> QED
  BY <1>3, <1>4, <1>5, <1>6, <1>7 DEF Step

LEMMA StepLives ==
  ASSUME Typed, Lives, NEW t \in Thread, Step(t)
  PROVE  Lives'
<1>1. /\ InCall(t) /\ Ch(t) \in Chan /\ Frame(t)
      /\ life \in [Chan -> {"none", "live", "dead"}] /\ closed \in [Chan -> BOOLEAN]
      /\ pc \in [Thread -> PcSet]
  BY StepInCall, CurrentEntry, StepMoves DEF Typed, TypeOK, ChanTypeOK, ThreadTypeOK
<1>2. pc'[t] # "create" /\ UNCHANGED call /\ (pc[t] = "create" => pc'[t] = "ready")
  BY CreateMoves
<1>3. ASSUME NEW u \in Thread, pc'[u] = "create"
      PROVE  u # t /\ pc[u] = "create" /\ Ch(u)' = Ch(u) /\ InCall(u) /\ Ch(u) \in Chan
  <2>1. u # t /\ pc[u] = "create" /\ Ch(u)' = Ch(u)
    BY <1>1, <1>2, <1>3 DEF Frame, Ch, Cur
  <2> QED
    BY <2>1, CurrentEntry DEF InCall, Typed, TypeOK
<1>4. \A c \in Chan : life'[c] # life[c] => c = Ch(t)
  BY <1>1, LifeMoves DEF Create, DestroyFree, CloseSet
<1>5. \A c \in Chan : life'[c] = "none" => life[c] = "none"
  BY <1>1, LifeMoves DEF Create, DestroyFree, CloseSet
<1>6. ASSUME NEW u \in Thread, pc'[u] = "create"
      PROVE  life'[Ch(u)'] = "none"
  <2>1. u # t /\ pc[u] = "create" /\ Ch(u)' = Ch(u) /\ InCall(u) /\ Ch(u) \in Chan
    BY <1>3, <1>6
  <2>2. Ch(t) # Ch(u)
    BY <1>1, <2>1, CreateAlone
  <2> QED
    BY <1>4, <2>1, <2>2 DEF Lives
<1>7. ASSUME NEW u \in Thread, InCall(u)', pc'[u] # "create", NEW i \in DOMAIN call'[u].list
      PROVE  life'[call'[u].list[i].channel] # "none"
  <2>1. InCall(u) /\ pc[u] # "create" /\ call'[u] = call[u]
    BY <1>1, <1>2, <1>7 DEF InCall, Frame
  <2>2. life[call[u].list[i].channel] # "none" /\ call[u].list[i].channel \in Chan
    BY <1>7, <2>1 DEF Lives, Typed, TypeOK, ThreadTypeOK
  <2> QED
    BY <1>5, <2>1, <2>2
<1>8. ASSUME NEW u \in Thread, NEW v \in Thread, u # v, pc'[u] = "create", pc'[v] = "create"
      PROVE  Ch(u)' # Ch(v)'
  BY <1>3, <1>8 DEF Lives
<1>9. ASSUME NEW c \in Chan, life'[c] = "none"
      PROVE  ~closed'[c]
  <2>1. life[c] = "none" /\ ~closed[c]
    BY <1>5, <1>9 DEF Lives
  <2>2. CASE CloseSet(t)
    <3>1. pc[t] # "create" /\ idx[t] \in DOMAIN call[t].list
      BY <1>1, <2>2 DEF CloseSet, At, Typed, TypeOK, ThreadTypeOK
    <3>2. life[Ch(t)] # "none"
      BY <1>1, <3>1 DEF Lives, Ch, Cur
    <3> QED
      BY <1>1, <2>1, <2>2, <3>2 DEF CloseSet
  <2>3. CASE ~CloseSet(t)
    BY <1>1, <2>1, <2>3, LifeMoves DEF Create, DestroyFree
  <2> QED
    BY <2>2, <2>3
<1> QED
  BY <1>6, <1>7, <1>8, <1>9 DEF Lives

\* Invocations and refused calls: t comes from outside every call and goes to
\* the start of one.
LEMMA InvokeMoves ==
  ASSUME Typed, NEW t \in Thread, Invoke(t) \/ NullCall(t)
  PROVE  /\ Frame(t) /\ UNCHANGED chanVars /\ pc[t] = "ready"
         /\ pc'[t] \in {"ready", "create", "send_take", "recv_take", "reg_lock",
                        "close_lock", "destroy_check"}
<1>1. CASE Invoke(t)
  <2>1. PICK r \in Menu[t] : /\ call' = [call EXCEPT ![t] = r]
                             /\ pc' = [pc EXCEPT ![t] = StartPc[r.op]]
    BY <1>1 DEF Invoke, Goto
  <2>2. r.op \in Op
    BY MenuAssumption DEF WellFormed, Call
  <2> QED
    BY <1>1, <2>1, <2>2 DEF Typed, TypeOK, ThreadTypeOK, Invoke, Frame, At, StartPc, Op
<1>2. CASE NullCall(t)
  BY <1>2 DEF NullCall, Frame, At
<1> QED
  BY <1>1, <1>2

LEMMA InvokeLives ==
  ASSUME Typed, Lives, NEW t \in Thread, Invoke(t) \/ NullCall(t)
  PROVE  Lives'
<1>1. /\ Frame(t) /\ UNCHANGED <<life, closed>> /\ pc[t] = "ready"
      /\ pc \in [Thread -> PcSet] /\ call \in [Thread -> Call]
  BY InvokeMoves DEF chanVars, Typed, TypeOK, ThreadTypeOK
<1>2. \A u \in Thread \ {t} : /\ pc'[u] = pc[u] /\ call'[u] = call[u] /\ Ch(u)' = Ch(u)
                              /\ InCall(u)' = InCall(u)
  BY <1>1 DEF Frame, Ch, Cur, InCall
<1>3. CASE NullCall(t)
  BY <1>3 DEF NullCall, Lives, chanVars, InCall, Ch, Cur
<1>4. CASE Invoke(t)
  <2>1. PICK r \in Menu[t] : /\ Contract(r)
                             /\ call' = [call EXCEPT ![t] = r]
                             /\ pc' = [pc EXCEPT ![t] = StartPc[r.op]]
    BY <1>4 DEF Invoke, Goto
  <2>2. /\ r \in Call /\ r.op \in Op /\ r.list \in Seq(Entry) /\ r.list # <<>>
        /\ idx'[t] = 1 /\ call'[t] = r /\ pc'[t] = StartPc[r.op]
    BY <1>1, <1>4, <2>1, MenuAssumption DEF WellFormed, Call, Invoke, Typed, TypeOK, ThreadTypeOK
  <2>3. 1 \in DOMAIN r.list /\ Ch(t)' = r.list[1].channel
    BY <2>2, EmptySeq, LenProperties DEF Ch, Cur
  <2>4. \A i \in DOMAIN r.list :
          /\ r.list[i].channel \in Chan
          /\ life[r.list[i].channel] = (IF r.op = "create" THEN "none" ELSE "live")
    BY <2>1 DEF Contract
  <2>5. pc'[t] = "create" <=> r.op = "create"
    BY <2>2 DEF StartPc, Op
  <2>6. ASSUME NEW u \in Thread, u # t, pc'[u] = "create", pc'[t] = "create"
        PROVE  Ch(u)' # Ch(t)'
    <3>1. pc[u] = "create" /\ Ch(u)' = Ch(u) /\ InCall(u)
      BY <1>2, <2>6 DEF InCall
    <3>2. idx[u] \in DOMAIN call[u].list
      BY <3>1 DEF Typed, TypeOK, ThreadTypeOK
    <3>3. ~Names(call[u], r.list[1].channel)
      BY <2>1, <2>3, <2>5, <2>6, <3>1 DEF Contract
    <3> QED
      BY <2>3, <3>1, <3>2, <3>3 DEF Names, Ch, Cur
  <2>7. ASSUME NEW u \in Thread, pc'[u] = "create"
        PROVE  life'[Ch(u)'] = "none"
    <3>1. CASE u = t
      BY <1>1, <2>3, <2>4, <2>5, <2>7, <3>1
    <3>2. CASE u # t
      BY <1>1, <1>2, <2>7, <3>2 DEF Lives
    <3> QED
      BY <3>1, <3>2
  <2>8. ASSUME NEW u \in Thread, InCall(u)', pc'[u] # "create",
               NEW i \in DOMAIN call'[u].list
        PROVE  life'[call'[u].list[i].channel] # "none"
    <3>1. CASE u = t
      BY <1>1, <2>2, <2>4, <2>5, <2>8, <3>1
    <3>2. CASE u # t
      BY <1>1, <1>2, <2>8, <3>2 DEF Lives
    <3> QED
      BY <3>1, <3>2
  <2>9. ASSUME NEW u \in Thread, NEW v \in Thread, u # v, pc'[u] = "create", pc'[v] = "create"
        PROVE  Ch(u)' # Ch(v)'
    <3>1. CASE u # t /\ v # t
      BY <1>2, <2>9, <3>1 DEF Lives
    <3>2. CASE u = t
      BY <2>6, <2>9, <3>2
    <3>3. CASE v = t
      BY <2>6, <2>9, <3>3
    <3> QED
      BY <3>1, <3>2, <3>3
  <2>10. \A c \in Chan : life'[c] = "none" => ~closed'[c]
    BY <1>1 DEF Lives
  <2> QED
    BY <2>7, <2>8, <2>9, <2>10 DEF Lives
<1> QED
  BY <1>3, <1>4

-----------------------------------------------------------------------------
(* mutex is a lock                                                         *)

\* What a step of t does to the counts of threads at counted places.
LEMMA StepCounts ==
  ASSUME Typed, NEW t \in Thread, Step(t), NEW S \in SUBSET Counted, NEW c \in Chan
  PROVE  /\ N(S, c) \in Nat /\ N(S, c)' \in Nat
         /\ c # Ch(t) => N(S, c)' = N(S, c)
         /\ c = Ch(t) => N(S, c)' + (IF pc[t] \in S THEN 1 ELSE 0)
                           = N(S, c) + (IF pc'[t] \in S THEN 1 ELSE 0)
<1>1. Frame(t) /\ (pc'[t] \in S => Ch(t)' = Ch(t))
  BY StepMoves
<1>2. /\ t \in AtCh(S, c) <=> pc[t] \in S /\ Ch(t) = c
      /\ t \in AtCh(S, c)' <=> pc'[t] \in S /\ Ch(t) = c
  BY <1>1 DEF AtCh
<1>3. /\ N(S, c) \in Nat /\ N(S, c)' \in Nat
      /\ N(S, c)' + (IF t \in AtCh(S, c) THEN 1 ELSE 0)
           = N(S, c) + (IF t \in AtCh(S, c)' THEN 1 ELSE 0)
  BY <1>1, CountMoves
<1> QED
  BY <1>2, <1>3

\* Before a channel is created nobody is at a counted place of it but its creator.
LEMMA NobodyThere ==
  ASSUME Typed, Lives, NEW t \in Thread, Step(t), Create(t), NEW S \in SUBSET Counted,
         "create" \notin S, NEW c \in Chan, c = Ch(t)
  PROVE  N(S, c)' = 0
<1>1. pc[t] = "create" /\ InCall(t) /\ Ch(t) \in Chan /\ pc'[t] = "ready"
  BY CreateMoves, StepInCall, CurrentEntry DEF Create, At, Typed, TypeOK
<1>2. ASSUME NEW u \in AtCh(S, c)
      PROVE  FALSE
  <2>1. u \in Thread /\ pc[u] \in S /\ Ch(u) = c
    BY DEF AtCh
  <2>2. InCall(u) /\ u # t
    BY <1>1, <2>1 DEF InCall, Counted, MutexPc, RoomPc, MessagePc
  <2> QED
    BY <1>1, <2>1, <2>2, CreateAlone
<1>3. N(S, c) = 0
  <2>1. AtCh(S, c) = {}
    BY <1>2
  <2> QED
    BY <2>1, FS_EmptySet DEF N
<1>4. pc'[t] \notin S
  BY <1>1 DEF Counted, MutexPc, RoomPc, MessagePc
<1> QED
  <2>1. N(S, c)' + (IF t \in AtCh(S, c) THEN 1 ELSE 0)
          = N(S, c) + (IF pc'[t] \in S THEN 1 ELSE 0)
    BY <1>1, StepCounts DEF AtCh
  <2>2. t \notin AtCh(S, c) /\ N(S, c)' \in Nat
    BY <1>1, <1>2, StepCounts
  <2> QED
    BY <1>3, <1>4, <2>1, <2>2

MutexUp(t) ==
  /\ pc[t] \in MutexPc /\ pc'[t] \notin MutexPc
  /\ mutex' = [mutex EXCEPT ![Ch(t)] = @ + 1]
MutexDown(t) ==
  /\ pc[t] \notin MutexPc /\ pc'[t] \in MutexPc
  /\ mutex[Ch(t)] > 0
  /\ mutex' = [mutex EXCEPT ![Ch(t)] = @ - 1]
MutexStill(t) ==
  /\ pc[t] \in MutexPc <=> pc'[t] \in MutexPc
  /\ UNCHANGED mutex

\* Taking the mutex is going where it is held, releasing it is leaving there.
LEMMA MutexMoves ==
  ASSUME Typed, NEW t \in Thread, Step(t)
  PROVE  Create(t) \/ MutexUp(t) \/ MutexDown(t) \/ MutexStill(t)
<1>1. InCall(t) /\ pc \in [Thread -> PcSet]
  BY StepInCall DEF Typed, TypeOK, ThreadTypeOK
<1>2. ASSUME NEW st \in Status, Return(t, st), UNCHANGED callVars
      PROVE  pc'[t] \notin MutexPc
  BY <1>1, <1>2, ReturnMoves DEF Counted
<1> USE DEF At, Goto, MutexUp, MutexDown, MutexStill, Plus, Minus, Wait
<1>3. CASE SendMissLock(t) \/ SendLock(t) \/ RecvMissLock(t) \/ RecvLock(t) \/ CloseLock(t)
  BY <1>1, <1>3 DEF SendMissLock, SendLock, RecvMissLock, RecvLock, CloseLock, MutexPc
<1>4. CASE SendMissReport(t) \/ SendClosed(t) \/ RecvMissOpen(t) \/ RecvMissClosed(t)
             \/ RecvClosed(t) \/ CloseAgain(t) \/ ClosePostUsed(t)
  <2>1. mutex' = [mutex EXCEPT ![Ch(t)] = @ + 1] /\ pc[t] \in MutexPc
    BY <1>4 DEF SendMissReport, SendClosed, RecvMissOpen, RecvMissClosed, RecvClosed,
      CloseAgain, ClosePostUsed, MutexPc
  <2>2. pc'[t] \in {"send_give_back", "recv_give_back", "close_send_lock"}
          \/ \E st \in Status : Return(t, st) /\ UNCHANGED callVars
    BY <1>1, <1>4 DEF SendMissReport, SendClosed, RecvMissOpen, RecvMissClosed, RecvClosed,
      CloseAgain, ClosePostUsed, Return, Status
  <2>3. pc'[t] \notin MutexPc
    BY <1>2, <2>2 DEF MutexPc
  <2> QED
    BY <2>1, <2>3
<1>5. CASE SendAdd(t) \/ RecvRemove(t)
  <2>1. mutex' = [mutex EXCEPT ![Ch(t)] = @ + 1] /\ pc[t] \in MutexPc
    BY <1>5 DEF SendAdd, RecvRemove, MutexPc
  <2>2. pc'[t] \in {"send_post", "recv_post"} \/ (Return(t, "OTHER_ERROR") /\ UNCHANGED callVars)
    BY <1>1, <1>5 DEF SendAdd, RecvRemove
  <2>3. pc'[t] \notin MutexPc
    BY <1>2, <2>2 DEF MutexPc, Status
  <2> QED
    BY <2>1, <2>3
<1>6. CASE SendTake(t) \/ SendMiss(t) \/ SendPost(t) \/ SendNotifyLock(t) \/ RecvTake(t)
             \/ RecvMiss(t) \/ RecvPost(t) \/ RecvNotifyLock(t) \/ CloseSet(t)
             \/ ClosePostAvailable(t)
  BY <1>1, <1>6 DEF SendTake, SendMiss, SendPost, SendNotifyLock, RecvTake, RecvMiss,
    RecvPost, RecvNotifyLock, CloseSet, ClosePostAvailable, MutexPc, chanVars
<1>7. CASE CloseSendLock(t) \/ CloseSendNotify(t) \/ CloseRecvLock(t) \/ DestroyClosed(t)
             \/ SelectStep(t)
  BY <1>1, <1>7 DEF CloseSendLock, CloseSendNotify, CloseRecvLock, DestroyClosed,
    SelectStep, RegLock, RegInsert, SelectWake, UnregLock, UnregRemove, TakePc, MutexPc, chanVars
<1>8. CASE SendGiveBack(t) \/ SendNotify(t) \/ RecvGiveBack(t) \/ RecvNotify(t)
             \/ CloseRecvNotify(t) \/ CreateUnbuffered(t) \/ DestroyOpen(t) \/ DestroyFree(t)
  <2>1. UNCHANGED mutex /\ pc[t] \notin MutexPc
    BY <1>8 DEF SendGiveBack, SendNotify, RecvGiveBack, RecvNotify, CloseRecvNotify,
      CreateUnbuffered, DestroyOpen, DestroyFree, MutexPc, chanVars
  <2>2. \E st \in Status : Return(t, st) /\ UNCHANGED callVars
    BY <1>8 DEF SendGiveBack, SendNotify, RecvGiveBack, RecvNotify, CloseRecvNotify,
      CreateUnbuffered, DestroyOpen, DestroyFree, Return, Status
  <2> QED
    BY <1>2, <2>1, <2>2
<1> QED
  BY <1>3, <1>4, <1>5, <1>6, <1>7, <1>8
  DEF Step, SendStep, RecvStep, CloseStep, LifeStep

LEMMA WasCreated ==
  ASSUME Typed, Lives, NEW t \in Thread, Step(t), NEW c \in Chan, life'[c] # "none",
         ~(Create(t) /\ c = Ch(t))
  PROVE  life[c] # "none"
<1>1. InCall(t) /\ Ch(t) \in Chan /\ idx[t] \in DOMAIN call[t].list
      /\ life \in [Chan -> {"none", "live", "dead"}]
  BY StepInCall, CurrentEntry DEF Typed, TypeOK, ChanTypeOK
<1>2. CASE DestroyFree(t)
  <2>1. pc[t] # "create"
    BY <1>2 DEF DestroyFree, At
  <2>2. life[Ch(t)] # "none"
    BY <1>1, <2>1 DEF Lives, Ch, Cur
  <2> QED
    BY <1>1, <1>2, <2>2 DEF DestroyFree
<1>3. CASE ~DestroyFree(t)
  BY <1>1, <1>3, LifeMoves DEF Create, CloseSet
<1> QED
  BY <1>2, <1>3

LEMMA StepMutex ==
  ASSUME Typed, Lives, MutexIsALock, NEW t \in Thread, Step(t)
  PROVE  MutexIsALock'
<1> SUFFICES ASSUME NEW c \in Chan, life'[c] # "none"
             PROVE  mutex'[c] + N(MutexPc, c)' = 1
  BY DEF MutexIsALock, N
<1>1. /\ MutexPc \in SUBSET Counted /\ "create" \notin MutexPc
      /\ mutex \in [Chan -> Nat] /\ life \in [Chan -> {"none", "live", "dead"}]
      /\ Ch(t) \in Chan
  BY StepInCall, CurrentEntry DEF Counted, MutexPc, Typed, TypeOK, ChanTypeOK
<1>2. /\ N(MutexPc, c) \in Nat /\ N(MutexPc, c)' \in Nat
      /\ c # Ch(t) => N(MutexPc, c)' = N(MutexPc, c)
      /\ c = Ch(t) => N(MutexPc, c)' + (IF pc[t] \in MutexPc THEN 1 ELSE 0)
                        = N(MutexPc, c) + (IF pc'[t] \in MutexPc THEN 1 ELSE 0)
  BY <1>1, StepCounts
<1>3. CASE Create(t) /\ c = Ch(t)
  <2>1. mutex'[c] = 1 /\ N(MutexPc, c)' = 0
    BY <1>1, <1>3, NobodyThere DEF Create
  <2> QED
    BY <2>1
<1>4. CASE ~(Create(t) /\ c = Ch(t))
  <2>1. life[c] # "none"
    BY <1>4, WasCreated
  <2>2. mutex[c] + N(MutexPc, c) = 1
    BY <2>1 DEF MutexIsALock, N
  <2>3. CASE Create(t)
    BY <1>1, <1>2, <1>4, <2>2, <2>3 DEF Create
  <2>4. CASE MutexUp(t)
    BY <1>1, <1>2, <2>2, <2>4 DEF MutexUp
  <2>5. CASE MutexDown(t)
    BY <1>1, <1>2, <2>2, <2>5 DEF MutexDown
  <2>6. CASE MutexStill(t)
    BY <1>1, <1>2, <2>2, <2>6 DEF MutexStill
  <2> QED
    BY <2>3, <2>4, <2>5, <2>6, MutexMoves
<1> QED
  BY <1>3, <1>4

-----------------------------------------------------------------------------
(* Close is final                                                          *)

LEMMA ClosedStays ==
  ASSUME Typed, Lives, NEW t \in Thread, Step(t), NEW c \in Chan, closed[c]
  PROVE  closed'[c] /\ buf'[c] = buf[c]
<1>1. InCall(t) /\ Ch(t) \in Chan /\ closed \in [Chan -> BOOLEAN] /\ buf \in [Chan -> Seq(Msg)]
  BY StepInCall, CurrentEntry DEF Typed, TypeOK, ChanTypeOK
<1>2. CASE Create(t)
  <2>1. Ch(t) # c
    BY <1>1, <1>2 DEF Create, At, Lives
  <2> QED
    BY <1>1, <1>2, <2>1 DEF Create
<1>3. CASE ~Create(t)
  <2>1. closed'[c]
    BY <1>1, <1>3, LifeMoves DEF DestroyFree, CloseSet
  <2>2. CASE SendAdd(t) \/ RecvRemove(t)
    <3>1. Ch(t) # c
      BY <2>2 DEF SendAdd, RecvRemove
    <3>2. buf' = buf \/ \E b : buf' = [buf EXCEPT ![Ch(t)] = b]
      BY <2>2 DEF SendAdd, RecvRemove
    <3> QED
      BY <1>1, <2>1, <3>1, <3>2
  <2>3. CASE ~(SendAdd(t) \/ RecvRemove(t))
    <3>1. UNCHANGED buf
      BY <1>3, <2>3, QuietSteps DEF chanVars, SendTake, SendMissLock, SendMissReport,
        SendLock, SendClosed, SendGiveBack, SendPost, RecvTake, RecvMissLock, RecvMissOpen,
        RecvMissClosed, RecvLock, RecvClosed, RecvGiveBack, RecvPost, CloseLock, CloseAgain,
        CloseSet, ClosePostAvailable, ClosePostUsed, DestroyFree
    <3> QED
      BY <2>1, <3>1
  <2> QED
    BY <2>2, <2>3
<1> QED
  BY <1>2, <1>3

LEMMA StepKnowsClosed ==
  ASSUME Typed, Lives, KnowsClosed, NEW t \in Thread, Step(t)
  PROVE  KnowsClosed'
<1> SUFFICES ASSUME NEW u \in Thread, pc'[u] \in AfterClose
             PROVE  closed'[Ch(u)']
  BY DEF KnowsClosed, AfterClose
<1>1. /\ InCall(t) /\ Ch(t) \in Chan /\ Frame(t) /\ closed \in [Chan -> BOOLEAN]
      /\ pc \in [Thread -> PcSet] /\ (pc'[t] \in Counted => Ch(t)' = Ch(t))
  BY StepInCall, CurrentEntry, StepMoves DEF Typed, TypeOK, ChanTypeOK, ThreadTypeOK
<1>2. AfterClose \subseteq Counted
  BY DEF AfterClose, Counted, MutexPc
<1>3. CASE u # t
  <2>1. pc[u] \in AfterClose /\ Ch(u)' = Ch(u) /\ InCall(u)
    BY <1>1, <1>3 DEF Frame, Ch, Cur, AfterClose, InCall
  <2>2. Ch(u) \in Chan /\ closed[Ch(u)]
    BY <2>1, CurrentEntry DEF KnowsClosed, Typed, TypeOK
  <2> QED
    BY <2>1, <2>2, ClosedStays
<1>4. CASE u = t
  <2>1. Ch(t)' = Ch(t)
    BY <1>1, <1>2, <1>4
  <2>2. ASSUME NEW st \in Status, Return(t, st), UNCHANGED callVars
        PROVE  FALSE
    BY <1>1, <1>2, <1>4, <2>2, ReturnMoves
  <2>3. RecvMissClosed(t) \/ RecvClosed(t) \/ CloseSet(t) \/ ClosePostAvailable(t)
    <3>1. ~SendStep(t)
      BY <1>1, <1>4, <2>2 DEF SendStep, AfterClose, At, Goto, Status, SendTake, SendMiss,
        SendMissLock, SendMissReport, SendLock, SendClosed, SendGiveBack, SendAdd, SendPost,
        SendNotifyLock, SendNotify
    <3>2. RecvStep(t) => RecvMissClosed(t) \/ RecvClosed(t)
      BY <1>1, <1>4, <2>2 DEF RecvStep, AfterClose, At, Goto, Status, RecvTake, RecvMiss,
        RecvMissLock, RecvMissOpen, RecvLock, RecvGiveBack, RecvRemove, RecvPost,
        RecvNotifyLock, RecvNotify
    <3>3. CloseStep(t) => CloseSet(t) \/ ClosePostAvailable(t)
      BY <1>1, <1>4 DEF CloseStep, AfterClose, At, Goto, ReturnDirect, CloseLock, CloseAgain,
        ClosePostUsed, CloseSendLock, CloseSendNotify, CloseRecvLock, CloseRecvNotify
    <3>4. ~SelectStep(t)
      BY <1>1, <1>4 DEF SelectStep, AfterClose, At, Goto, TakePc, RegLock, RegInsert,
        SelectWake, UnregLock, UnregRemove
    <3>5. ~LifeStep(t)
      BY <1>1, <1>4 DEF LifeStep, AfterClose, At, Goto, ReturnDirect, Create,
        CreateUnbuffered, DestroyOpen, DestroyClosed, DestroyFree
    <3> QED
      BY <3>1, <3>2, <3>3, <3>4, <3>5 DEF Step
  <2>4. closed'[Ch(t)]
    <3>1. CASE CloseSet(t)
      BY <1>1, <3>1 DEF CloseSet
    <3>2. CASE RecvMissClosed(t) \/ RecvClosed(t)
      BY <3>2 DEF RecvMissClosed, RecvClosed
    <3>3. CASE ClosePostAvailable(t)
      BY <3>3 DEF ClosePostAvailable, At, KnowsClosed, AfterClose
    <3> QED
      BY <2>3, <3>1, <3>2, <3>3
  <2> QED
    BY <1>4, <2>1, <2>4
<1> QED
  BY <1>3, <1>4

-----------------------------------------------------------------------------
(* Permits                                                                 *)

\* A thread that holds a permit of an open channel finds room, or a message.
LEMMA RoomByPermits ==
  ASSUME Typed, Lives, PermitsConserved
  PROVE  PermitMeansRoom
<1> SUFFICES ASSUME NEW t \in Thread, pc[t] \in {"send_cs", "recv_cs"}, ~closed[Ch(t)]
             PROVE  /\ pc[t] = "send_cs" => Len(buf[Ch(t)]) < Cap[Ch(t)]
                    /\ pc[t] = "recv_cs" => buf[Ch(t)] # <<>>
  BY DEF PermitMeansRoom
<1> DEFINE c == Ch(t)
<1>1. InCall(t) /\ c \in Chan /\ idx[t] \in DOMAIN call[t].list /\ pc[t] # "create"
  BY CurrentEntry DEF InCall, Typed, TypeOK
<1>2. life[c] # "none"
  BY <1>1 DEF Lives, Ch, Cur
<1>3. /\ available[c] + N(RoomPc, c) + Len(buf[c]) = Cap[c]
      /\ used[c] + N(MessagePc, c) = Len(buf[c])
  BY <1>1, <1>2 DEF PermitsConserved, N
<1>4. /\ N(RoomPc, c) \in Nat /\ N(MessagePc, c) \in Nat
      /\ available[c] \in Nat /\ used[c] \in Nat /\ Cap[c] \in Nat /\ Len(buf[c]) \in Nat
  BY <1>1, CountIsNat, CapAssumption, LenProperties DEF Typed, TypeOK, ChanTypeOK
<1>5. ASSUME NEW S, pc[t] \in S
      PROVE  N(S, c) > 0
  <2>1. t \in AtCh(S, c)
    BY <1>5 DEF AtCh
  <2>2. N(S, c) # 0
    BY <2>1, CountIsNat, FS_EmptySet DEF N
  <2> QED
    BY <2>2, CountIsNat
<1> HIDE DEF c
<1>6. pc[t] = "send_cs" => Len(buf[c]) < Cap[c]
  BY <1>3, <1>4, <1>5 DEF RoomPc
<1>7. pc[t] = "recv_cs" => buf[c] # <<>>
  <2>1. pc[t] = "recv_cs" => Len(buf[c]) > 0
    BY <1>3, <1>4, <1>5 DEF MessagePc
  <2> QED
    BY <2>1, EmptySeq
<1> QED
  BY <1>6, <1>7 DEF c

\* 1 if thread t is at one of the places in S, and the same after the step.
Is(S, t) == IF pc[t] \in S THEN 1 ELSE 0

\* Permits to add and messages; messages without a permit to remove them.
Room(c) == available[c] + Len(buf[c])
Owed(c) == Len(buf[c]) - used[c]

\* On an open channel each step of t moves permits and messages without
\* making or losing one.
LEMMA PermitMoves ==
  ASSUME Typed, KnowsClosed, PermitMeansRoom, BufferEmpty \notin Msg,
         NEW t \in Thread, Step(t), ~Create(t), NEW c \in Chan, c = Ch(t), ~closed'[c]
  PROVE  /\ Room(c)' + Is(RoomPc, t)' = Room(c) + Is(RoomPc, t)
         /\ Owed(c)' + Is(MessagePc, t) = Owed(c) + Is(MessagePc, t)'
<1>1. /\ InCall(t) /\ pc \in [Thread -> PcSet] /\ closed \in [Chan -> BOOLEAN]
      /\ available \in [Chan -> Nat] /\ used \in [Chan -> Nat] /\ buf \in [Chan -> Seq(Msg)]
      /\ Len(buf[c]) \in Nat /\ Cap[c] \in Nat
  BY StepInCall, LenProperties, CapAssumption DEF Typed, TypeOK, ChanTypeOK, ThreadTypeOK
<1>2. ASSUME NEW st \in Status, Return(t, st), UNCHANGED callVars
      PROVE  Is(RoomPc, t)' = 0 /\ Is(MessagePc, t)' = 0
  <2>1. pc'[t] \notin Counted
    BY <1>1, <1>2, ReturnMoves
  <2> QED
    BY <2>1 DEF Counted, Is, RoomPc, MessagePc
<1> USE DEF At, Goto, Plus, Minus, Wait, Room, Owed
<1>3. CASE SendTake(t) \/ SendMiss(t) \/ SendMissLock(t) \/ SendLock(t) \/ SendPost(t)
             \/ SendNotifyLock(t)
  <2>1. CASE SendTake(t)
    BY <1>1, <2>1 DEF SendTake, chanVars, Is, RoomPc, MessagePc
  <2>2. CASE SendMiss(t)
    BY <1>1, <2>2 DEF SendMiss, chanVars, Is, RoomPc, MessagePc
  <2>3. CASE SendMissLock(t)
    BY <1>1, <2>3 DEF SendMissLock, chanVars, Is, RoomPc, MessagePc
  <2>4. CASE SendLock(t)
    BY <1>1, <2>4 DEF SendLock, chanVars, Is, RoomPc, MessagePc
  <2>5. CASE SendPost(t)
    <3>1. /\ Is(RoomPc, t) = 0 /\ Is(MessagePc, t) = 1
          /\ Is(RoomPc, t)' = 0 /\ Is(MessagePc, t)' = 0
      BY <1>1, <2>5 DEF SendPost, Is, RoomPc, MessagePc
    <3>2. used'[c] = used[c] + 1 /\ available'[c] = available[c] /\ Len(buf'[c]) = Len(buf[c])
      BY <1>1, <2>5 DEF SendPost
    <3>3. used[c] \in Nat /\ available[c] \in Nat /\ Len(buf[c]) \in Nat
      BY <1>1
    <3> QED
      BY <3>1, <3>2, <3>3
  <2>6. CASE SendNotifyLock(t)
    BY <1>1, <2>6 DEF SendNotifyLock, chanVars, Is, RoomPc, MessagePc
  <2> QED
    BY <1>3, <2>1, <2>2, <2>3, <2>4, <2>5, <2>6
<1>4. CASE RecvTake(t) \/ RecvMiss(t) \/ RecvMissLock(t) \/ RecvLock(t) \/ RecvPost(t)
             \/ RecvNotifyLock(t)
  <2>1. CASE RecvTake(t)
    BY <1>1, <2>1 DEF RecvTake, chanVars, Is, RoomPc, MessagePc
  <2>2. CASE RecvMiss(t)
    BY <1>1, <2>2 DEF RecvMiss, chanVars, Is, RoomPc, MessagePc
  <2>3. CASE RecvMissLock(t)
    BY <1>1, <2>3 DEF RecvMissLock, chanVars, Is, RoomPc, MessagePc
  <2>4. CASE RecvLock(t)
    BY <1>1, <2>4 DEF RecvLock, chanVars, Is, RoomPc, MessagePc
  <2>5. CASE RecvPost(t)
    BY <1>1, <2>5 DEF RecvPost, chanVars, Is, RoomPc, MessagePc
  <2>6. CASE RecvNotifyLock(t)
    BY <1>1, <2>6 DEF RecvNotifyLock, chanVars, Is, RoomPc, MessagePc
  <2> QED
    BY <1>4, <2>1, <2>2, <2>3, <2>4, <2>5, <2>6
<1>5. CASE SendMissReport(t) \/ SendNotify(t) \/ RecvMissOpen(t) \/ RecvNotify(t)
             \/ CloseAgain(t) \/ CloseRecvNotify(t) \/ CreateUnbuffered(t) \/ DestroyOpen(t)
             \/ DestroyFree(t)
  <2>1. /\ UNCHANGED <<available, used, buf>>
        /\ pc[t] \in {"send_miss_cs", "send_notify", "recv_miss_cs", "recv_notify",
                      "close_cs", "close_recv_notify", "create", "destroy_check",
                      "destroy_free"}
    BY <1>5 DEF SendMissReport, SendNotify, RecvMissOpen, RecvNotify, CloseAgain,
      CloseRecvNotify, CreateUnbuffered, DestroyOpen, DestroyFree, chanVars
  <2>2. \E st \in Status : Return(t, st) /\ UNCHANGED callVars
    BY <1>5 DEF SendMissReport, SendNotify, RecvMissOpen, RecvNotify, CloseAgain,
      CloseRecvNotify, CreateUnbuffered, DestroyOpen, DestroyFree, Return, Status
  <2>3. Is(RoomPc, t) = 0 /\ Is(MessagePc, t) = 0
    BY <2>1 DEF Is, RoomPc, MessagePc
  <2> QED
    BY <1>1, <1>2, <2>1, <2>2, <2>3
<1>6. CASE SendGiveBack(t)
  <2>1. available' = [available EXCEPT ![c] = @ + 1] /\ UNCHANGED <<used, buf>>
        /\ pc[t] = "send_give_back" /\ Return(t, "CLOSED_ERROR") /\ UNCHANGED callVars
    BY <1>6 DEF SendGiveBack
  <2> QED
    BY <1>1, <1>2, <2>1 DEF Is, RoomPc, MessagePc, Status
<1>7. ~(RecvGiveBack(t) \/ ClosePostAvailable(t) \/ ClosePostUsed(t) \/ CloseSet(t)
         \/ SendClosed(t) \/ RecvClosed(t) \/ RecvMissClosed(t))
  <2>1. ~(RecvGiveBack(t) \/ ClosePostAvailable(t) \/ ClosePostUsed(t))
    BY DEF RecvGiveBack, ClosePostAvailable, ClosePostUsed, KnowsClosed, AfterClose
  <2>2. ~(CloseSet(t) \/ SendClosed(t) \/ RecvClosed(t) \/ RecvMissClosed(t))
    BY <1>1 DEF CloseSet, SendClosed, RecvClosed, RecvMissClosed
  <2> QED
    BY <2>1, <2>2
<1>8. CASE CloseLock(t) \/ CloseSendLock(t) \/ CloseSendNotify(t) \/ CloseRecvLock(t)
             \/ DestroyClosed(t) \/ SelectStep(t)
  <2>1. UNCHANGED <<available, used, buf>>
    BY <1>8 DEF CloseLock, CloseSendLock, CloseSendNotify, CloseRecvLock, DestroyClosed,
      SelectStep, RegLock, RegInsert, SelectWake, UnregLock, UnregRemove, chanVars
  <2>2. /\ pc[t] \in {"close_lock", "close_send_lock", "close_send_notify", "close_recv_lock",
                      "destroy_check", "reg_lock", "reg_insert", "select_wait", "unreg_lock",
                      "unreg_remove"}
        /\ pc'[t] \in {"close_cs", "close_send_notify", "close_recv_lock",
                       "close_recv_notify", "destroy_free", "reg_insert", "reg_lock",
                       "send_take", "recv_take", "unreg_remove", "unreg_lock", "ready"}
    BY <1>1, <1>8 DEF CloseLock, CloseSendLock, CloseSendNotify, CloseRecvLock,
      DestroyClosed, SelectStep, RegLock, RegInsert, SelectWake, UnregLock, UnregRemove, TakePc
  <2> QED
    BY <1>1, <2>1, <2>2 DEF Is, RoomPc, MessagePc
<1>9. CASE SendAdd(t)
  <2>1. /\ pc[t] = "send_cs" /\ ~closed[c] /\ pc'[t] = "send_post"
        /\ buf' = [buf EXCEPT ![c] = Append(@, Cur(t).data)] /\ UNCHANGED <<available, used>>
    BY <1>1, <1>9 DEF SendAdd, PermitMeansRoom
  <2>2. Cur(t).data \in Msg
    BY <1>1, <2>1, CurrentEntry DEF Typed, TypeOK, EntryMatches, SendPc
  <2>3. Len(buf'[c]) = Len(buf[c]) + 1 /\ UNCHANGED <<available, used>>
    BY <1>1, <2>1, <2>2, AppendProperties
  <2> QED
    <3>1. /\ Is(RoomPc, t) = 1 /\ Is(MessagePc, t) = 0
          /\ Is(RoomPc, t)' = 0 /\ Is(MessagePc, t)' = 1
      BY <2>1 DEF Is, RoomPc, MessagePc
    <3>2. /\ Len(buf'[c]) = Len(buf[c]) + 1 /\ Len(buf[c]) \in Nat
          /\ available'[c] = available[c] /\ available[c] \in Nat
          /\ used'[c] = used[c] /\ used[c] \in Nat
      BY <1>1, <2>3
    <3> QED
      BY <3>1, <3>2
<1>10. CASE RecvRemove(t)
  <2>1. pc[t] = "recv_cs" /\ ~closed[c] /\ buf[c] # <<>> /\ UNCHANGED <<available, used>>
    BY <1>10 DEF RecvRemove, PermitMeansRoom
  <2>2. Head(buf[c]) \in Msg /\ Len(Tail(buf[c])) = Len(buf[c]) - 1
    BY <1>1, <2>1, HeadTailProperties
  <2>3. pc'[t] = "recv_post" /\ buf'[c] = Tail(buf[c])
    BY <1>1, <1>10, <2>1, <2>2 DEF RecvRemove
  <2> QED
    <3>1. /\ Is(RoomPc, t) = 0 /\ Is(MessagePc, t) = 1
          /\ Is(RoomPc, t)' = 1 /\ Is(MessagePc, t)' = 0
      BY <2>1, <2>3 DEF Is, RoomPc, MessagePc
    <3>2. /\ Len(buf'[c]) = Len(buf[c]) - 1 /\ Len(buf[c]) \in Nat
          /\ available'[c] = available[c] /\ available[c] \in Nat
          /\ used'[c] = used[c] /\ used[c] \in Nat
      BY <1>1, <2>1, <2>2, <2>3
    <3> QED
      BY <3>1, <3>2
<1> QED
  BY <1>3, <1>4, <1>5, <1>6, <1>7, <1>8, <1>9, <1>10
  DEF Step, SendStep, RecvStep, CloseStep, LifeStep

\* A step touches no channel but the one its thread works on.
LEMMA OtherChannels ==
  ASSUME Typed, NEW t \in Thread, Step(t), NEW c \in Chan, c # Ch(t)
  PROVE  /\ available'[c] = available[c] /\ used'[c] = used[c]
         /\ buf'[c] = buf[c] /\ life'[c] = life[c] /\ closed'[c] = closed[c]
<1>1. ChanTypeOK
  BY DEF Typed, TypeOK
<1> USE DEF Plus, Minus
<1>2. CASE UNCHANGED chanVars
  BY <1>2 DEF chanVars
<1>3. CASE SendTake(t) \/ SendMissLock(t) \/ SendMissReport(t) \/ SendLock(t) \/ SendClosed(t)
             \/ SendGiveBack(t) \/ SendAdd(t) \/ SendPost(t)
  BY <1>1, <1>3 DEF ChanTypeOK, SendTake, SendMissLock, SendMissReport, SendLock, SendClosed,
    SendGiveBack, SendAdd, SendPost
<1>4. CASE RecvTake(t) \/ RecvMissLock(t) \/ RecvMissOpen(t) \/ RecvMissClosed(t)
             \/ RecvLock(t) \/ RecvClosed(t) \/ RecvGiveBack(t) \/ RecvRemove(t) \/ RecvPost(t)
  BY <1>1, <1>4 DEF ChanTypeOK, RecvTake, RecvMissLock, RecvMissOpen, RecvMissClosed, RecvLock,
    RecvClosed, RecvGiveBack, RecvRemove, RecvPost
<1>5. CASE CloseLock(t) \/ CloseAgain(t) \/ CloseSet(t) \/ ClosePostAvailable(t)
             \/ ClosePostUsed(t) \/ Create(t) \/ DestroyFree(t)
  BY <1>1, <1>5 DEF ChanTypeOK, CloseLock, CloseAgain, CloseSet, ClosePostAvailable,
    ClosePostUsed, Create, DestroyFree
<1> QED
  BY <1>2, <1>3, <1>4, <1>5, QuietSteps

LEMMA StepPermits ==
  ASSUME Typed, Lives, KnowsClosed, PermitsConserved, BufferEmpty \notin Msg,
         NEW t \in Thread, Step(t)
  PROVE  PermitsConserved'
<1> SUFFICES ASSUME NEW c \in Chan, life'[c] # "none", ~closed'[c]
             PROVE  /\ available'[c] + N(RoomPc, c)' + Len(buf'[c]) = Cap[c]
                    /\ used'[c] + N(MessagePc, c)' = Len(buf'[c])
  BY DEF PermitsConserved, N
<1>1. /\ InCall(t) /\ Ch(t) \in Chan /\ closed \in [Chan -> BOOLEAN]
      /\ available \in [Chan -> Nat] /\ used \in [Chan -> Nat] /\ buf \in [Chan -> Seq(Msg)]
      /\ Len(buf[c]) \in Nat /\ Cap[c] \in Nat
  BY StepInCall, CurrentEntry, LenProperties, CapAssumption DEF Typed, TypeOK, ChanTypeOK
<1>2. ChanTypeOK'
  BY StepChan
<1>3. /\ Len(buf'[c]) \in Nat /\ available'[c] \in Nat /\ used'[c] \in Nat
      /\ Len(buf[c]) \in Nat /\ available[c] \in Nat /\ used[c] \in Nat /\ Cap[c] \in Nat
  BY <1>1, <1>2, LenProperties DEF ChanTypeOK
<1>4. /\ RoomPc \in SUBSET Counted /\ MessagePc \in SUBSET Counted
      /\ "create" \notin RoomPc \cup MessagePc
  BY DEF Counted, RoomPc, MessagePc
<1>5. ASSUME NEW S \in SUBSET Counted
      PROVE  /\ N(S, c) \in Nat /\ N(S, c)' \in Nat
             /\ Is(S, t) \in Nat /\ Is(S, t)' \in Nat
             /\ c # Ch(t) => N(S, c)' = N(S, c)
             /\ c = Ch(t) => N(S, c)' + Is(S, t) = N(S, c) + Is(S, t)'
  <2>1. /\ N(S, c) \in Nat /\ N(S, c)' \in Nat
        /\ c # Ch(t) => N(S, c)' = N(S, c)
        /\ c = Ch(t) => N(S, c)' + (IF pc[t] \in S THEN 1 ELSE 0)
                          = N(S, c) + (IF pc'[t] \in S THEN 1 ELSE 0)
    BY StepCounts
  <2> QED
    BY <2>1 DEF Is
<1>6. CASE Create(t) /\ c = Ch(t)
  <2>1. available'[c] = Cap[c] /\ used'[c] = 0 /\ buf'[c] = <<>>
    BY <1>1, <1>6 DEF Create
  <2>2. N(RoomPc, c)' = 0 /\ N(MessagePc, c)' = 0
    BY <1>4, <1>6, NobodyThere
  <2>3. Len(buf'[c]) = 0
    BY <2>1, EmptySeq
  <2> QED
    BY <1>1, <2>1, <2>2, <2>3
<1>7. CASE ~(Create(t) /\ c = Ch(t))
  <2>1. life[c] # "none" /\ ~closed[c]
    BY <1>7, WasCreated, ClosedStays
  <2>2. /\ available[c] + N(RoomPc, c) + Len(buf[c]) = Cap[c]
        /\ used[c] + N(MessagePc, c) = Len(buf[c])
    BY <2>1 DEF PermitsConserved, N
  <2>3. CASE c # Ch(t)
    <3>1. available'[c] = available[c] /\ used'[c] = used[c] /\ buf'[c] = buf[c]
      BY <1>1, <2>3, OtherChannels
    <3> QED
      BY <1>4, <1>5, <2>2, <2>3, <3>1
  <2>4. CASE c = Ch(t)
    <3>1. ~Create(t) /\ PermitMeansRoom
      BY <1>7, <2>4, RoomByPermits
    <3>2. /\ Room(c)' + Is(RoomPc, t)' = Room(c) + Is(RoomPc, t)
          /\ Owed(c)' + Is(MessagePc, t) = Owed(c) + Is(MessagePc, t)'
      BY <2>4, <3>1, PermitMoves
    <3>3. available'[c] + N(RoomPc, c)' + Len(buf'[c]) = Cap[c]
      <4>1. /\ N(RoomPc, c) \in Nat /\ N(RoomPc, c)' \in Nat
            /\ Is(RoomPc, t) \in Nat /\ Is(RoomPc, t)' \in Nat
            /\ N(RoomPc, c)' + Is(RoomPc, t) = N(RoomPc, c) + Is(RoomPc, t)'
        BY <1>4, <1>5, <2>4
      <4>2. /\ available[c] \in Nat /\ Len(buf[c]) \in Nat
            /\ available'[c] \in Nat /\ Len(buf'[c]) \in Nat
        BY <1>3
      <4>3. Room(c) + N(RoomPc, c) = Cap[c] /\ Room(c) \in Nat
        BY SMTT(40), <2>2, <4>1, <4>2 DEF Room
      <4>4. Room(c)' + Is(RoomPc, t)' = Room(c) + Is(RoomPc, t) /\ Room(c)' \in Nat
        BY <3>2, <4>2 DEF Room
      <4>5. Room(c)' + N(RoomPc, c)' = Cap[c]
        BY <4>1, <4>3, <4>4
      <4> QED
        BY <4>1, <4>2, <4>5 DEF Room
    <3>4. used'[c] + N(MessagePc, c)' = Len(buf'[c])
      <4>1. /\ N(MessagePc, c) \in Nat /\ N(MessagePc, c)' \in Nat
            /\ Is(MessagePc, t) \in Nat /\ Is(MessagePc, t)' \in Nat
            /\ N(MessagePc, c)' + Is(MessagePc, t) = N(MessagePc, c) + Is(MessagePc, t)'
        BY <1>4, <1>5, <2>4
      <4>2. /\ used[c] \in Nat /\ Len(buf[c]) \in Nat
            /\ used'[c] \in Nat /\ Len(buf'[c]) \in Nat
        BY <1>3
      <4>3. N(MessagePc, c) = Owed(c) /\ Owed(c) \in Int
        BY <2>2, <4>1, <4>2 DEF Owed
      <4>4. Owed(c)' + Is(MessagePc, t) = Owed(c) + Is(MessagePc, t)' /\ Owed(c)' \in Int
        BY <3>2, <4>2 DEF Owed
      <4>5. N(MessagePc, c)' = Owed(c)'
        BY <4>1, <4>3, <4>4
      <4> QED
        BY <4>1, <4>2, <4>5 DEF Owed
    <3> QED
      BY <3>3, <3>4
  <2> QED
    BY <2>3, <2>4
<1> QED
  BY <1>6, <1>7

-----------------------------------------------------------------------------
(* The inductive invariant                                                 *)

\* Starting a call moves nobody to a counted place and touches no channel.
LEMMA InvokeCounts ==
  ASSUME Typed, NEW t \in Thread, Invoke(t) \/ NullCall(t), NEW S \in SUBSET Counted,
         "create" \notin S, NEW c \in Chan
  PROVE  N(S, c)' = N(S, c)
<1>1. /\ Frame(t) /\ pc[t] = "ready"
      /\ pc'[t] \in {"ready", "create", "send_take", "recv_take", "reg_lock",
                     "close_lock", "destroy_check"}
  BY InvokeMoves
<1>2. pc[t] \notin S /\ pc'[t] \notin S
  BY <1>1 DEF Counted, MutexPc, RoomPc, MessagePc
<1>3. t \notin AtCh(S, c) /\ t \notin AtCh(S, c)'
  BY <1>2 DEF AtCh
<1>4. /\ N(S, c) \in Nat /\ N(S, c)' \in Nat
      /\ N(S, c)' + (IF t \in AtCh(S, c) THEN 1 ELSE 0)
           = N(S, c) + (IF t \in AtCh(S, c)' THEN 1 ELSE 0)
  BY <1>1, CountMoves
<1> QED
  BY <1>3, <1>4

LEMMA InvokeKeeps ==
  ASSUME Typed, KnowsClosed, MutexIsALock, NEW t \in Thread, Invoke(t) \/ NullCall(t)
  PROVE  KnowsClosed' /\ MutexIsALock' /\ (PermitsConserved => PermitsConserved')
<1>1. /\ Frame(t) /\ UNCHANGED chanVars
      /\ pc'[t] \in {"ready", "create", "send_take", "recv_take", "reg_lock",
                     "close_lock", "destroy_check"}
  BY InvokeMoves
<1>2. KnowsClosed'
  BY <1>1 DEF KnowsClosed, AfterClose, Frame, Ch, Cur, chanVars
<1>3. ASSUME NEW S \in {MutexPc, RoomPc, MessagePc}, NEW c \in Chan
      PROVE  N(S, c)' = N(S, c)
  <2>1. S \in SUBSET Counted /\ "create" \notin S
    BY DEF Counted, MutexPc, RoomPc, MessagePc
  <2> QED
    BY <2>1, InvokeCounts
<1>4. MutexIsALock'
  <2>1. ASSUME NEW c \in Chan, life'[c] # "none"
        PROVE  mutex'[c] + N(MutexPc, c)' = 1
    <3>1. N(MutexPc, c)' = N(MutexPc, c) /\ mutex' = mutex /\ life' = life
      BY <1>1, <1>3 DEF chanVars
    <3> QED
      BY <2>1, <3>1 DEF MutexIsALock, N
  <2> QED
    BY <2>1 DEF MutexIsALock, N
<1>5. ASSUME PermitsConserved
      PROVE  PermitsConserved'
  <2>1. ASSUME NEW c \in Chan, life'[c] # "none", ~closed'[c]
        PROVE  /\ available'[c] + N(RoomPc, c)' + Len(buf'[c]) = Cap[c]
               /\ used'[c] + N(MessagePc, c)' = Len(buf'[c])
    <3>1. /\ N(RoomPc, c)' = N(RoomPc, c) /\ N(MessagePc, c)' = N(MessagePc, c)
          /\ UNCHANGED <<life, closed, available, used, buf>>
      BY <1>1, <1>3 DEF chanVars
    <3> QED
      BY <1>5, <2>1, <3>1 DEF PermitsConserved, N
  <2> QED
    BY <2>1 DEF PermitsConserved, N
<1> QED
  BY <1>2, <1>4, <1>5

\* What holds in every state, whatever the messages.
ChannelInv == Typed /\ Lives /\ KnowsClosed /\ MutexIsALock

LEMMA InitInv == Init => ChannelInv /\ PermitsConserved
<1> SUFFICES ASSUME Init PROVE ChannelInv /\ PermitsConserved
  OBVIOUS
<1>1. Typed
  BY InitTyped
<1>2. Lives /\ KnowsClosed /\ MutexIsALock /\ PermitsConserved
  BY DEF Init, Lives, KnowsClosed, AfterClose, MutexIsALock, PermitsConserved, InCall
<1> QED
  BY <1>1, <1>2 DEF ChannelInv

\* The invariant when nothing at all changes.
LEMMA StutterKeeps ==
  ASSUME ChannelInv, UNCHANGED vars
  PROVE  ChannelInv' /\ (PermitsConserved => PermitsConserved')
<1>1. Typed'
  BY NextTyped DEF ChannelInv
<1>2. Lives' /\ KnowsClosed' /\ MutexIsALock' /\ (PermitsConserved => PermitsConserved')
  BY ZenonT(60) DEF ChannelInv, Lives, KnowsClosed, AfterClose, MutexIsALock, PermitsConserved, InCall,
    AtCh, Ch, Cur, vars, chanVars, callVars
<1> QED
  BY <1>1, <1>2 DEF ChannelInv

LEMMA NextInv ==
  ASSUME ChannelInv, [Next]_vars
  PROVE  /\ ChannelInv'
         /\ BufferEmpty \notin Msg /\ PermitsConserved => PermitsConserved'
<1>1. CASE UNCHANGED vars
  BY <1>1, StutterKeeps
<1>2. CASE Next
  <2>1. PICK t \in Thread : Invoke(t) \/ NullCall(t) \/ Step(t)
    BY <1>2 DEF Next
  <2>2. Typed'
    BY NextTyped DEF ChannelInv
  <2>3. CASE Step(t)
    <3>1. Lives' /\ KnowsClosed' /\ MutexIsALock'
      BY <2>3, StepLives, StepKnowsClosed, StepMutex DEF ChannelInv
    <3>2. BufferEmpty \notin Msg /\ PermitsConserved => PermitsConserved'
      BY <2>3, StepPermits DEF ChannelInv
    <3> QED
      BY <2>2, <3>1, <3>2 DEF ChannelInv
  <2>4. CASE Invoke(t) \/ NullCall(t)
    BY <2>2, <2>4, InvokeLives, InvokeKeeps DEF ChannelInv
  <2> QED
    BY <2>1, <2>3, <2>4
<1> QED
  BY <1>1, <1>2

LEMMA AlwaysInv == Spec => []ChannelInv
<1>1. ChannelInv /\ [Next]_vars => ChannelInv'
  BY NextInv
<1> QED
  BY <1>1, InitInv, PTL DEF Spec

\* chan_t.mutex is a lock on every path through send, receive and close,
\* the six early returns included (channel.c:104-295).
THEOREM MutexProtects == Spec => []MutexIsALock
<1>1. ChannelInv => MutexIsALock
  BY DEF ChannelInv
<1> QED
  BY <1>1, AlwaysInv, PTL

\* Once closed stays closed, and the messages in a closed channel stay put
\* (channel.c:130-137, 219-226, 273-284).
THEOREM CloseIsFinal == Spec => ClosedIsFrozen
<1>1. ChannelInv /\ [Next]_vars => (\A c \in Chan : closed[c] => closed'[c] /\ buf'[c] = buf[c])
  <2> SUFFICES ASSUME ChannelInv, [Next]_vars, NEW c \in Chan, closed[c]
               PROVE  closed'[c] /\ buf'[c] = buf[c]
    OBVIOUS
  <2>1. CASE UNCHANGED vars
    BY <2>1 DEF vars, chanVars
  <2>2. CASE Next
    <3>1. PICK t \in Thread : Invoke(t) \/ NullCall(t) \/ Step(t)
      BY <2>2 DEF Next
    <3>2. CASE Step(t)
      BY <3>2, ClosedStays DEF ChannelInv
    <3>3. CASE Invoke(t) \/ NullCall(t)
      BY <3>3, InvokeMoves DEF ChannelInv, chanVars
    <3> QED
      BY <3>1, <3>2, <3>3
  <2> QED
    BY <2>1, <2>2
<1>2. ChannelInv /\ [Next]_vars =>
        [\A c \in Chan : closed[c] => closed'[c] /\ buf'[c] = buf[c]]_vars
  BY <1>1
<1> QED
  BY <1>2, AlwaysInv, PTL DEF Spec, ClosedIsFrozen

\* If no message is the BUFFER_EMPTY pointer, no path through send and receive
\* loses or invents a permit of an open channel (channel.c:82-256).
THEOREM PermitsAreConserved ==
  ASSUME BufferEmpty \notin Msg
  PROVE  Spec => []PermitsConserved
<1>1. ChannelInv /\ PermitsConserved /\ [Next]_vars => ChannelInv' /\ PermitsConserved'
  BY NextInv
<1> QED
  BY <1>1, InitInv, PTL DEF Spec

\* Then the OTHER_ERROR exits after a failed buffer_add or buffer_remove are
\* dead code: a permit means room (channel.c:144-149, 233-238).
THEOREM PermitsMeanRoom ==
  ASSUME BufferEmpty \notin Msg
  PROVE  Spec => []PermitMeansRoom
<1>1. ChannelInv /\ PermitsConserved => PermitMeansRoom
  BY RoomByPermits DEF ChannelInv
<1>2. Spec => []PermitsConserved
  BY PermitsAreConserved
<1> QED
  BY <1>1, <1>2, AlwaysInv, PTL

-----------------------------------------------------------------------------
(* The chain of wakeups after a close                                      *)

TakerPc == MessagePc \cup {"recv_give_back"}
ClosingPc == {"close_post_available", "close_post_used"}

\* DominoAlive with the two posts of the closer told apart: until the first is
\* made the closer itself keeps both chains alive, until the second one of them.
Domino ==
  \A c \in Chan : closed[c] /\ life[c] = "live" =>
    /\ \/ AtCh({"close_post_available"}, c) # {}
       \/ available[c] > 0
       \/ AtCh(RoomPc, c) # {}
    /\ \/ AtCh(ClosingPc, c) # {}
       \/ used[c] > 0
       \/ AtCh(TakerPc, c) # {}

\* On a closed channel a step that takes a permit keeps it in hand, and one
\* that lets go of it posts it.
LEMMA DominoMoves ==
  ASSUME Typed, NEW t \in Thread, Step(t), ~Create(t), NEW c \in Chan, c = Ch(t), closed[c]
  PROVE  /\ \/ available'[c] > 0
            \/ pc'[t] \in RoomPc
            \/ available'[c] = available[c] /\ pc[t] \notin RoomPc \cup {"close_post_available"}
         /\ \/ used'[c] > 0
            \/ pc'[t] \in TakerPc \cup ClosingPc
            \/ used'[c] = used[c] /\ pc[t] \notin TakerPc \cup ClosingPc
<1>1. /\ available \in [Chan -> Nat] /\ used \in [Chan -> Nat] /\ pc \in [Thread -> PcSet]
      /\ available[c] \in Nat /\ used[c] \in Nat
  BY DEF Typed, TypeOK, ChanTypeOK, ThreadTypeOK
<1> USE DEF At, Goto, Plus, Minus, Wait, RoomPc, MessagePc, TakerPc, ClosingPc
<1>2. CASE SendTake(t) \/ SendLock(t) \/ SendClosed(t)
  BY <1>1, <1>2 DEF SendTake, SendLock, SendClosed
<1>3. CASE SendGiveBack(t) \/ RecvPost(t)
  BY <1>1, <1>3 DEF SendGiveBack, RecvPost
<1>4. CASE SendPost(t)
  BY <1>1, <1>4 DEF SendPost
<1>5. CASE RecvTake(t) \/ RecvLock(t) \/ RecvClosed(t) \/ RecvMissClosed(t)
  BY <1>1, <1>5 DEF RecvTake, RecvLock, RecvClosed, RecvMissClosed
<1>6. CASE RecvGiveBack(t)
  BY <1>1, <1>6 DEF RecvGiveBack
<1>7. CASE ClosePostAvailable(t) \/ ClosePostUsed(t)
  BY <1>1, <1>7 DEF ClosePostAvailable, ClosePostUsed
<1>8. ~(SendAdd(t) \/ RecvRemove(t) \/ CloseSet(t))
  BY DEF SendAdd, RecvRemove, CloseSet
<1>9. CASE SendMiss(t) \/ SendMissLock(t) \/ SendMissReport(t) \/ SendNotifyLock(t)
             \/ SendNotify(t) \/ RecvMiss(t) \/ RecvMissLock(t) \/ RecvMissOpen(t)
             \/ RecvNotifyLock(t) \/ RecvNotify(t)
  BY <1>1, <1>9 DEF SendMiss, SendMissLock, SendMissReport, SendNotifyLock, SendNotify,
    RecvMiss, RecvMissLock, RecvMissOpen, RecvNotifyLock, RecvNotify, chanVars
<1>10. CASE CloseLock(t) \/ CloseAgain(t) \/ CloseSendLock(t) \/ CloseSendNotify(t)
              \/ CloseRecvLock(t) \/ CloseRecvNotify(t) \/ CreateUnbuffered(t)
              \/ DestroyOpen(t) \/ DestroyClosed(t) \/ DestroyFree(t)
  BY <1>1, <1>10 DEF CloseLock, CloseAgain, CloseSendLock, CloseSendNotify, CloseRecvLock,
    CloseRecvNotify, CreateUnbuffered, DestroyOpen, DestroyClosed, DestroyFree, chanVars
<1>11. CASE SelectStep(t)
  BY <1>1, <1>11 DEF SelectStep, RegLock, RegInsert, SelectWake, UnregLock, UnregRemove, chanVars
<1> QED
  BY <1>2, <1>3, <1>4, <1>5, <1>6, <1>7, <1>8, <1>9, <1>10, <1>11
  DEF Step, SendStep, RecvStep, CloseStep, LifeStep

LEMMA StepDomino ==
  ASSUME Typed, Lives, Domino, NEW t \in Thread, Step(t)
  PROVE  Domino'
<1> SUFFICES ASSUME NEW c \in Chan, closed'[c], life'[c] = "live"
             PROVE  /\ \/ AtCh({"close_post_available"}, c)' # {}
                       \/ available'[c] > 0
                       \/ AtCh(RoomPc, c)' # {}
                    /\ \/ AtCh(ClosingPc, c)' # {}
                       \/ used'[c] > 0
                       \/ AtCh(TakerPc, c)' # {}
  BY DEF Domino
<1>1. /\ InCall(t) /\ Ch(t) \in Chan /\ Frame(t) /\ (pc'[t] \in Counted => Ch(t)' = Ch(t))
      /\ closed \in [Chan -> BOOLEAN] /\ life \in [Chan -> {"none", "live", "dead"}]
      /\ pc \in [Thread -> PcSet]
  BY StepInCall, CurrentEntry, StepMoves DEF Typed, TypeOK, ChanTypeOK, ThreadTypeOK
<1>2. RoomPc \cup TakerPc \cup ClosingPc \subseteq Counted
  BY DEF RoomPc, MessagePc, TakerPc, ClosingPc, Counted, MutexPc
<1>3. ASSUME NEW S, NEW u \in AtCh(S, c), u # t
      PROVE  u \in AtCh(S, c)'
  BY <1>1, <1>3 DEF AtCh, Frame, Ch, Cur
<1>4. CASE CloseSet(t) /\ c = Ch(t)
  <2>1. pc'[t] = "close_post_available"
    BY <1>1, <1>4 DEF CloseSet, Goto
  <2>2. Ch(t)' = Ch(t)
    BY <1>1, <1>2, <2>1 DEF ClosingPc
  <2>3. t \in AtCh({"close_post_available"}, c)' /\ t \in AtCh(ClosingPc, c)'
    BY <1>4, <2>1, <2>2 DEF AtCh, ClosingPc
  <2> QED
    BY <2>3
<1>5. CASE ~(CloseSet(t) /\ c = Ch(t))
  <2>1. closed[c] /\ life[c] = "live" /\ ~(Create(t) /\ c = Ch(t))
    <3>1. ~(Create(t) /\ c = Ch(t))
      BY <1>1 DEF Create
    <3>2. ~(DestroyFree(t) /\ c = Ch(t))
      BY <1>1 DEF DestroyFree
    <3> QED
      BY <1>1, <1>5, <3>1, <3>2, LifeMoves DEF Create, DestroyFree, CloseSet
  <2>2. /\ \/ AtCh({"close_post_available"}, c) # {} \/ available[c] > 0 \/ AtCh(RoomPc, c) # {}
        /\ \/ AtCh(ClosingPc, c) # {} \/ used[c] > 0 \/ AtCh(TakerPc, c) # {}
    BY <2>1 DEF Domino
  <2>3. CASE c # Ch(t)
    <3>1. available'[c] = available[c] /\ used'[c] = used[c]
      BY <2>3, OtherChannels
    <3>2. \A S : AtCh(S, c) # {} => AtCh(S, c)' # {}
      BY <1>3, <2>3 DEF AtCh
    <3> QED
      BY <2>2, <3>1, <3>2
  <2>4. CASE c = Ch(t)
    <3>1. /\ \/ available'[c] > 0
             \/ pc'[t] \in RoomPc
             \/ available'[c] = available[c] /\ pc[t] \notin RoomPc \cup {"close_post_available"}
          /\ \/ used'[c] > 0
             \/ pc'[t] \in TakerPc \cup ClosingPc
             \/ used'[c] = used[c] /\ pc[t] \notin TakerPc \cup ClosingPc
      BY <2>1, <2>4, DominoMoves
    <3>2. ASSUME NEW S, pc[t] \notin S, AtCh(S, c) # {}
          PROVE  AtCh(S, c)' # {}
      BY <1>3, <3>2 DEF AtCh
    <3>3. ASSUME NEW S \in SUBSET Counted, pc'[t] \in S
          PROVE  AtCh(S, c)' # {}
      <4>1. t \in AtCh(S, c)'
        BY <1>1, <2>4, <3>3 DEF AtCh
      <4> QED
        BY <4>1
    <3>4. \/ AtCh({"close_post_available"}, c)' # {}
          \/ available'[c] > 0
          \/ AtCh(RoomPc, c)' # {}
      BY <1>2, <2>2, <3>1, <3>2, <3>3
    <3>5. \/ AtCh(ClosingPc, c)' # {}
          \/ used'[c] > 0
          \/ AtCh(TakerPc, c)' # {}
      BY <1>2, <2>2, <3>1, <3>2, <3>3
    <3> QED
      BY <3>4, <3>5
  <2> QED
    BY <2>3, <2>4
<1> QED
  BY <1>4, <1>5

LEMMA InvokeDomino ==
  ASSUME Typed, Domino, NEW t \in Thread, Invoke(t) \/ NullCall(t)
  PROVE  Domino'
<1>1. /\ Frame(t) /\ UNCHANGED chanVars /\ pc[t] = "ready"
  BY InvokeMoves
<1>2. ASSUME NEW S \in {{"close_post_available"}, ClosingPc, RoomPc, TakerPc}, NEW c \in Chan,
             AtCh(S, c) # {}
      PROVE  AtCh(S, c)' # {}
  <2>1. PICK u \in AtCh(S, c) : TRUE
    BY <1>2
  <2>2. pc[t] \notin S
    BY <1>1 DEF ClosingPc, RoomPc, MessagePc, TakerPc
  <2>3. u \in AtCh(S, c)'
    BY <1>1, <2>1, <2>2 DEF AtCh, Frame, Ch, Cur
  <2> QED
    BY <2>3
<1> QED
  BY <1>1, <1>2 DEF Domino, chanVars

\* After a close, until the channel is destroyed, a permit of each kind is up
\* or in the hands of a thread that will post it: no blocked sender or receiver
\* is cut off from the chain that wakes it (channel.c:281-292).
THEOREM CloseWakesAll == Spec => []DominoAlive
<1>1. Init => Domino
  BY DEF Init, Domino
<1>2. ChannelInv /\ Domino /\ [Next]_vars => Domino'
  <2> SUFFICES ASSUME ChannelInv, Domino, [Next]_vars PROVE Domino'
    OBVIOUS
  <2>1. CASE UNCHANGED vars
    BY <2>1 DEF Domino, AtCh, Ch, Cur, vars, chanVars, callVars
  <2>2. CASE Next
    BY <2>2, StepDomino, InvokeDomino DEF Next, ChannelInv
  <2> QED
    BY <2>1, <2>2
<1>3. Domino => DominoAlive
  <2>1. \A c \in Chan : AtCh({"close_post_available"}, c) \subseteq AtCh(ClosingPc, c)
    BY DEF AtCh, ClosingPc
  <2> QED
    BY <2>1 DEF Domino, DominoAlive, ClosingPc, TakerPc
<1> QED
  BY <1>1, <1>2, <1>3, AlwaysInv, PTL DEF Spec

-----------------------------------------------------------------------------
(* The call a thread is in, by where it is                                 *)

SelectPc == {"reg_lock", "reg_insert", "select_wait", "unreg_lock", "unreg_remove"}
ClosePc == {"close_lock", "close_cs", "close_post_available", "close_post_used",
            "close_send_lock", "close_send_notify", "close_recv_lock", "close_recv_notify"}
DestroyPc == {"destroy_check", "destroy_free"}

\* The calls that can be at place q.
OpAt(q) ==
  CASE q \in SelectPc -> {"select"}
    [] q \in SendPc -> {"send", "select"}
    [] q \in RecvPc -> {"recv", "select"}
    [] q \in ClosePc -> {"close"}
    [] q \in DestroyPc -> {"destroy"}
    [] q = "create" -> {"create"}
    [] OTHER -> Op

RightOp == \A t \in Thread : call[t].op \in OpAt(pc[t])

LEMMA PlacesOfOps ==
  /\ \A q \in SelectPc : OpAt(q) = {"select"}
  /\ \A q \in SendPc : OpAt(q) = {"send", "select"}
  /\ \A q \in RecvPc : OpAt(q) = {"recv", "select"}
  /\ \A q \in ClosePc : OpAt(q) = {"close"}
  /\ \A q \in DestroyPc : OpAt(q) = {"destroy"}
  /\ OpAt("create") = {"create"} /\ OpAt("ready") = Op
<1>1. /\ \A q \in SelectPc : q \notin SendPc \cup RecvPc \cup ClosePc \cup DestroyPc \cup {"create"}
      /\ \A q \in SendPc : q \notin RecvPc \cup ClosePc \cup DestroyPc \cup {"create"}
      /\ \A q \in RecvPc : q \notin ClosePc \cup DestroyPc \cup {"create"}
      /\ \A q \in ClosePc : q \notin DestroyPc \cup {"create"}
      /\ "create" \notin DestroyPc
      /\ "ready" \notin SelectPc \cup SendPc \cup RecvPc \cup ClosePc \cup DestroyPc
  BY DEF SelectPc, SendPc, RecvPc, ClosePc, DestroyPc
<1> QED
  BY <1>1 DEF OpAt

LEMMA StepRightOp ==
  ASSUME Typed, RightOp, NEW t \in Thread, Step(t)
  PROVE  RightOp'
<1>1. InCall(t) /\ pc \in [Thread -> PcSet] /\ Frame(t) /\ UNCHANGED call /\ call[t].op \in Op
  BY StepInCall, StepMoves, CreateMoves, CurrentEntry DEF Typed, TypeOK, ThreadTypeOK, Call
<1>2. call[t].op \in OpAt(pc[t])
  BY DEF RightOp
<1>3. SUFFICES call[t].op \in OpAt(pc'[t])
  BY <1>1 DEF RightOp, Frame
<1> USE DEF At, Goto, SelectPc, SendPc, RecvPc, ClosePc, DestroyPc
<1>4. ASSUME NEW st \in Status, Return(t, st)
      PROVE  call[t].op \in OpAt(pc'[t])
  <2>1. CASE ReturnDirect(t, st)
    BY <1>1, <2>1, PlacesOfOps DEF ReturnDirect
  <2>2. CASE SelectDecided(t, st) \/ SelectNothing(t, st)
    BY <1>1, <2>2, PlacesOfOps DEF SelectDecided, SelectNothing
  <2>3. CASE SelectNext(t, st)
    BY <1>1, <2>3, PlacesOfOps DEF SelectNext, TakePc
  <2> QED
    BY <1>4, <2>1, <2>2, <2>3 DEF Return
<1>5. CASE SendStep(t)
  <2>1. CASE SendTake(t) \/ SendMiss(t) \/ SendMissLock(t) \/ SendLock(t) \/ SendClosed(t)
               \/ SendPost(t) \/ SendNotifyLock(t)
    BY <1>1, <1>2, <2>1, PlacesOfOps DEF SendTake, SendMiss, SendMissLock, SendLock,
      SendClosed, SendPost, SendNotifyLock
  <2>2. CASE SendMissReport(t) \/ SendGiveBack(t) \/ SendNotify(t)
    BY <1>4, <2>2 DEF SendMissReport, SendGiveBack, SendNotify, Status
  <2>3. CASE SendAdd(t)
    BY <1>1, <1>2, <1>4, <2>3, PlacesOfOps DEF SendAdd, Status
  <2> QED
    BY <1>5, <2>1, <2>2, <2>3 DEF SendStep
<1>6. CASE RecvStep(t)
  <2>1. CASE RecvTake(t) \/ RecvMiss(t) \/ RecvMissLock(t) \/ RecvMissClosed(t)
               \/ RecvLock(t) \/ RecvClosed(t) \/ RecvPost(t) \/ RecvNotifyLock(t)
    BY <1>1, <1>2, <2>1, PlacesOfOps DEF RecvTake, RecvMiss, RecvMissLock, RecvMissClosed,
      RecvLock, RecvClosed, RecvPost, RecvNotifyLock
  <2>2. CASE RecvMissOpen(t) \/ RecvGiveBack(t) \/ RecvNotify(t)
    BY <1>4, <2>2 DEF RecvMissOpen, RecvGiveBack, RecvNotify, Status
  <2>3. CASE RecvRemove(t)
    BY <1>1, <1>2, <1>4, <2>3, PlacesOfOps DEF RecvRemove, Status
  <2> QED
    BY <1>6, <2>1, <2>2, <2>3 DEF RecvStep
<1>7. CASE CloseStep(t)
  BY <1>1, <1>2, <1>7, PlacesOfOps DEF CloseStep, ReturnDirect, CloseLock, CloseAgain, CloseSet,
    ClosePostAvailable, ClosePostUsed, CloseSendLock, CloseSendNotify, CloseRecvLock,
    CloseRecvNotify
<1>8. CASE SelectStep(t)
  BY <1>1, <1>2, <1>8, PlacesOfOps DEF SelectStep, TakePc, RegLock, RegInsert, SelectWake,
    UnregLock, UnregRemove
<1>9. CASE LifeStep(t)
  BY <1>1, <1>2, <1>9, PlacesOfOps DEF LifeStep, ReturnDirect, Create, CreateUnbuffered,
    DestroyOpen, DestroyClosed, DestroyFree
<1> QED
  BY <1>5, <1>6, <1>7, <1>8, <1>9 DEF Step

LEMMA InvokeRightOp ==
  ASSUME Typed, RightOp, NEW t \in Thread, Invoke(t) \/ NullCall(t)
  PROVE  RightOp'
<1>1. Frame(t) /\ pc \in [Thread -> PcSet] /\ call \in [Thread -> Call]
  BY InvokeMoves DEF Typed, TypeOK, ThreadTypeOK
<1>2. CASE Invoke(t)
  <2>1. PICK r \in Menu[t] : call' = [call EXCEPT ![t] = r] /\ pc' = [pc EXCEPT ![t] = StartPc[r.op]]
    BY <1>2 DEF Invoke, Goto
  <2>2. r.op \in Op
    BY MenuAssumption DEF WellFormed, Call
  <2>3. r.op \in OpAt(StartPc[r.op])
    BY <2>2, PlacesOfOps DEF Op, StartPc, SelectPc, SendPc, RecvPc, ClosePc, DestroyPc
  <2> QED
    BY <1>1, <2>1, <2>3 DEF RightOp, Frame
<1>3. CASE NullCall(t)
  BY <1>3 DEF NullCall, RightOp
<1> QED
  BY <1>2, <1>3

-----------------------------------------------------------------------------
(* The lists                                                               *)

Unique(l) == \A j, k \in DOMAIN l : l[j] = l[k] => j = k

LEMMA InsertHead ==
  ASSUME NEW l \in Seq(Thread), NEW t \in Thread, t \notin ToSet(l), Unique(l)
  PROVE  ToSet(list_insert(l, t)) = ToSet(l) \cup {t} /\ Unique(list_insert(l, t))
<1> DEFINE r == list_insert(l, t)
           n == Len(l)
<1>1. n \in Nat /\ DOMAIN l = 1..n /\ Len(<<t>>) = 1 /\ <<t>>[1] = t /\ <<t>> \in Seq(Thread)
  BY LenProperties
<1>2. /\ DOMAIN r = 1..(n + 1) /\ r[1] = t
      /\ \A i \in 2..(n + 1) : r[i] = l[i - 1]
  <2>1. /\ Len(<<t>> \o l) = 1 + n /\ <<t>> \o l \in Seq(Thread)
        /\ \A i \in 1..(1 + n) : (<<t>> \o l)[i] = IF i <= 1 THEN <<t>>[i] ELSE l[i - 1]
    BY <1>1, ConcatProperties
  <2> QED
    BY <1>1, <2>1, LenProperties DEF list_insert
<1> HIDE DEF n, r
<1>3. ToSet(r) = ToSet(l) \cup {t}
  <2>1. \A i \in 1..n : i + 1 \in 2..(n + 1) /\ r[i + 1] = l[i]
    BY <1>1, <1>2
  <2>2. 1 \in 1..(n + 1) /\ \A i \in 1..n : i + 1 \in 1..(n + 1)
    BY <1>1
  <2>3. ToSet(l) \cup {t} \subseteq ToSet(r)
    <3>1. t \in ToSet(r)
      BY <1>2, <2>2 DEF ToSet
    <3>2. ASSUME NEW i \in 1..n
          PROVE  l[i] \in ToSet(r)
      BY <1>2, <2>1, <2>2 DEF ToSet
    <3> QED
      BY <1>1, <3>1, <3>2 DEF ToSet
  <2>4. \A i \in 1..(n + 1) : i = 1 \/ (i \in 2..(n + 1) /\ i - 1 \in 1..n)
    BY <1>1
  <2>5. ToSet(r) \subseteq ToSet(l) \cup {t}
    BY <1>1, <1>2, <2>4 DEF ToSet
  <2> QED
    BY <2>3, <2>5
<1>4. Unique(r)
  <2>1. \A i \in 1..n : l[i] # t
    BY <1>1 DEF ToSet
  <2>2. \A i \in 1..(n + 1) : i = 1 \/ (i \in 2..(n + 1) /\ i - 1 \in 1..n)
    BY <1>1
  <2> SUFFICES ASSUME NEW i \in 1..(n + 1), NEW j \in 1..(n + 1), r[i] = r[j] PROVE i = j
    BY <1>2 DEF Unique
  <2>3. CASE i = 1 \/ j = 1
    BY <1>2, <2>1, <2>2, <2>3
  <2>4. CASE i # 1 /\ j # 1
    <3>1. i - 1 \in 1..n /\ j - 1 \in 1..n /\ l[i - 1] = l[j - 1]
      BY <1>2, <2>2, <2>4
    <3>2. i - 1 = j - 1
      BY <1>1, <3>1 DEF Unique
    <3> QED
      BY <1>1, <3>2
  <2> QED
    BY <2>3, <2>4
<1> QED
  BY <1>3, <1>4 DEF r

LEMMA RemoveOnly ==
  ASSUME NEW l \in Seq(Thread), NEW t \in ToSet(l), Unique(l)
  PROVE  ToSet(list_remove(l, t)) = ToSet(l) \ {t} /\ Unique(list_remove(l, t))
<1> DEFINE k == list_find(l, t)
           r == list_remove(l, t)
           n == Len(l)
<1>1. n \in Nat /\ DOMAIN l = 1..n /\ k \in 1..n /\ l[k] = t /\ \A i \in 1..n : l[i] \in Thread
  BY FindInList, LenProperties, ElementOfSeq
<1>2. /\ DOMAIN r = 1..(n - 1)
      /\ \A i \in 1..(n - 1) : r[i] = IF i < k THEN l[i] ELSE l[i + 1]
  <2> DEFINE a == SubSeq(l, 1, k - 1)
             b == SubSeq(l, k + 1, n)
  <2>1. r = a \o b
    BY DEF list_remove, RemoveAt
  <2> HIDE DEF k, r
  <2>2. a \in Seq(Thread) /\ Len(a) = k - 1 /\ \A i \in 1..(k - 1) : a[i] = l[i]
    BY <1>1, SubSeqProperties
  <2>3. b \in Seq(Thread) /\ Len(b) = n - k /\ \A i \in 1..(n - k) : b[i] = l[k + i]
    <3> HIDE DEF n
    <3>1. k + 1 \in Int /\ n \in Int /\ \A i \in (k + 1)..n : l[i] \in Thread
      BY <1>1
    <3>2. /\ b \in Seq(Thread) /\ Len(b) = IF k + 1 <= n THEN n - (k + 1) + 1 ELSE 0
          /\ \A i \in 1..(n - (k + 1) + 1) : b[i] = l[(k + 1) + i - 1]
      BY <3>1, SubSeqProperties
    <3> HIDE DEF b
    <3>3. \A i \in 1..(n - k) : i \in 1..(n - (k + 1) + 1) /\ (k + 1) + i - 1 = k + i
      BY <1>1
    <3> QED
      BY <1>1, <3>2, <3>3
  <2> HIDE DEF a, b, n
  <2>4. /\ a \o b \in Seq(Thread) /\ Len(a \o b) = n - 1
        /\ \A i \in 1..(n - 1) : (a \o b)[i] = IF i <= k - 1 THEN a[i] ELSE b[i - (k - 1)]
    <3>1. /\ a \o b \in Seq(Thread) /\ Len(a \o b) = (k - 1) + (n - k)
          /\ \A i \in 1..((k - 1) + (n - k)) :
               (a \o b)[i] = IF i <= k - 1 THEN a[i] ELSE b[i - (k - 1)]
      <4>1. /\ a \o b \in Seq(Thread) /\ Len(a \o b) = Len(a) + Len(b)
            /\ \A i \in 1..(Len(a) + Len(b)) :
                 (a \o b)[i] = IF i <= Len(a) THEN a[i] ELSE b[i - Len(a)]
        BY <2>2, <2>3, ConcatProperties
      <4> QED
        BY <4>1, <2>2, <2>3
    <3>2. (k - 1) + (n - k) = n - 1
      BY <1>1
    <3> QED
      BY <3>1, <3>2
  <2>5. ASSUME NEW i \in 1..(n - 1), ~(i < k)
        PROVE  b[i - (k - 1)] = l[i + 1]
    <3>1. i - (k - 1) \in 1..(n - k) /\ k + (i - (k - 1)) = i + 1
      BY <1>1, <2>5
    <3> QED
      BY <2>3, <3>1
  <2>6. DOMAIN (a \o b) = 1..(n - 1)
    BY <2>4, LenProperties
  <2>7. ASSUME NEW i \in 1..(n - 1), i < k
        PROVE  i <= k - 1 /\ a[i] = l[i]
    BY <1>1, <2>2, <2>7
  <2>8. ASSUME NEW i \in 1..(n - 1), ~(i < k)
        PROVE  ~(i <= k - 1)
    BY <1>1, <2>8
  <2> QED
    BY <2>1, <2>4, <2>5, <2>6, <2>7, <2>8
<1> HIDE DEF k, r, n
<1>3. \A i \in 1..(n - 1) : (i < k => i \in 1..n /\ i # k) /\ (~(i < k) => i + 1 \in 1..n /\ i + 1 # k)
  BY <1>1
<1>4. \A j \in 1..n : j # k => l[j] # t
  BY <1>1 DEF Unique
<1>5. ToSet(r) = ToSet(l) \ {t}
  <2>1. ToSet(r) \subseteq ToSet(l) \ {t}
    BY <1>1, <1>2, <1>3, <1>4 DEF ToSet
  <2>2. ASSUME NEW j \in 1..n, l[j] # t
        PROVE  l[j] \in ToSet(r)
    <3>1. j # k
      BY <1>1, <2>2
    <3>2. CASE j < k
      <4>1. j \in 1..(n - 1) /\ r[j] = l[j]
        BY <1>1, <1>2, <3>2
      <4> QED
        BY <1>2, <4>1 DEF ToSet
    <3>3. CASE ~(j < k)
      <4>1. j - 1 \in 1..(n - 1) /\ ~(j - 1 < k) /\ (j - 1) + 1 = j
        BY <1>1, <3>1, <3>3
      <4>2. r[j - 1] = l[j]
        BY <1>2, <4>1
      <4> QED
        BY <1>2, <4>1, <4>2 DEF ToSet
    <3> QED
      BY <3>2, <3>3
  <2> QED
    BY <1>1, <2>1, <2>2 DEF ToSet
<1>6. Unique(r)
  <2> SUFFICES ASSUME NEW i \in 1..(n - 1), NEW j \in 1..(n - 1), r[i] = r[j] PROVE i = j
    BY <1>2 DEF Unique
  <2> DEFINE up(m) == IF m < k THEN m ELSE m + 1
  <2>1. up(i) \in 1..n /\ up(j) \in 1..n /\ l[up(i)] = l[up(j)]
    BY <1>2, <1>3
  <2>2. up(i) = up(j)
    BY <1>1, <2>1 DEF Unique
  <2> QED
    BY <1>1, <2>2
<1> QED
  BY <1>5, <1>6 DEF r

-----------------------------------------------------------------------------
(* The lists hold the selects that watch                                   *)

\* Where a select is while it is registered for its whole array.
ScanPc == SendPc \cup RecvPc \cup {"select_wait"}

\* How a select moves, but for its insertions and removals.
SelectMoves(t) ==
  \/ pc[t] = "reg_lock" /\ pc'[t] = "reg_insert" /\ idx'[t] = idx[t]
  \/ pc[t] = "unreg_lock" /\ pc'[t] = "unreg_remove" /\ idx'[t] = idx[t]
  \/ pc[t] \in ScanPc /\ pc'[t] \in ScanPc
  \/ pc[t] \in ScanPc /\ pc'[t] = "unreg_lock" /\ idx'[t] = 1

LEMMA StepOfSelect ==
  ASSUME Typed, RightOp, NEW t \in Thread, Step(t), call[t].op = "select"
  PROVE  SelectMoves(t) \/ RegInsert(t) \/ UnregRemove(t)
<1>1. InCall(t) /\ pc \in [Thread -> PcSet] /\ idx \in [Thread -> Nat \ {0}] /\ UNCHANGED call
  BY StepInCall, CreateMoves DEF Typed, TypeOK, ThreadTypeOK
<1>2. "select" \in OpAt(pc[t])
  BY DEF RightOp
<1>3. pc[t] \notin ClosePc \cup DestroyPc \cup {"create"}
  BY <1>2, PlacesOfOps
<1> USE DEF At, Goto, SendPc, RecvPc, ClosePc, DestroyPc, ScanPc
<1>4. ASSUME NEW st \in Status, Return(t, st)
      PROVE  \/ pc'[t] \in ScanPc
             \/ pc'[t] = "unreg_lock" /\ idx'[t] = 1
  BY <1>1, <1>4 DEF Return, ReturnDirect, SelectDecided, SelectNext, SelectNothing, TakePc
<1>5. CASE SendStep(t)
  BY <1>1, <1>4, <1>5 DEF SelectMoves, SendStep, Status, SendTake, SendMiss, SendMissLock,
    SendMissReport, SendLock, SendClosed, SendGiveBack, SendAdd, SendPost, SendNotifyLock,
    SendNotify
<1>6. CASE RecvStep(t)
  BY <1>1, <1>4, <1>6 DEF SelectMoves, RecvStep, Status, RecvTake, RecvMiss, RecvMissLock,
    RecvMissOpen, RecvMissClosed, RecvLock, RecvClosed, RecvGiveBack, RecvRemove, RecvPost,
    RecvNotifyLock, RecvNotify
<1>7. CASE SelectStep(t)
  BY <1>1, <1>7 DEF SelectMoves, SelectStep, TakePc, RegLock, SelectWake, UnregLock
<1>8. ~CloseStep(t)
  BY <1>3 DEF CloseStep, CloseLock, CloseAgain, CloseSet, ClosePostAvailable, ClosePostUsed,
    CloseSendLock, CloseSendNotify, CloseRecvLock, CloseRecvNotify
<1>9. ~LifeStep(t)
  BY <1>3 DEF LifeStep, Create, CreateUnbuffered, DestroyOpen, DestroyClosed, DestroyFree
<1> QED
  BY <1>5, <1>6, <1>7, <1>8, <1>9 DEF Step

\* Entry i of t's array watches that side of c.
Fits(t, i, side, c) ==
  call[t].list[i].channel = c /\ WatchSide(call[t].list[i]) = side

LEMMA WatchMeans ==
  ASSUME NEW t, NEW side, NEW c
  PROVE  MustWatch(t, side, c) <=>
           /\ InCall(t) /\ call[t].op = "select"
           /\ IF pc[t] \in RegisterPc
              THEN \E i \in DOMAIN call[t].list : i < idx[t] /\ Fits(t, i, side, c)
              ELSE /\ \E i \in DOMAIN call[t].list : Fits(t, i, side, c)
                   /\ pc[t] \in UnregisterPc =>
                        \A i \in DOMAIN call[t].list : i < idx[t] => ~Fits(t, i, side, c)
BY DEF MustWatch, Fits

\* Such a move leaves alone what the select must watch.
LEMMA MoveWatches ==
  ASSUME Typed, NEW t \in Thread, InCall(t), SelectMoves(t), UNCHANGED call, NEW s, NEW c
  PROVE  MustWatch(t, s, c)' <=> MustWatch(t, s, c)
<1>1. \A i \in DOMAIN call[t].list : i \in Nat /\ i >= 1
  BY CurrentEntry DEF Typed, TypeOK
<1>2. InCall(t)'
  BY DEF SelectMoves, InCall, ScanPc, SendPc, RecvPc
<1> QED
  BY <1>1, <1>2 DEF MustWatch, SelectMoves, RegisterPc, UnregisterPc, ScanPc, SendPc, RecvPc

\* The lists change in three steps.
LEMMA ListMoves ==
  ASSUME NEW t \in Thread, Step(t)
  PROVE  UNCHANGED list \/ RegInsert(t) \/ UnregRemove(t) \/ Create(t)
<1>1. ASSUME SendStep(t)
      PROVE  UNCHANGED list
  BY <1>1 DEF listVars, SendStep, SendTake, SendMiss, SendMissLock, SendMissReport, SendLock,
    SendClosed, SendGiveBack, SendAdd, SendPost, SendNotifyLock, SendNotify
<1>2. ASSUME RecvStep(t)
      PROVE  UNCHANGED list
  BY <1>2 DEF listVars, RecvStep, RecvTake, RecvMiss, RecvMissLock, RecvMissOpen,
    RecvMissClosed, RecvLock, RecvClosed, RecvGiveBack, RecvRemove, RecvPost,
    RecvNotifyLock, RecvNotify
<1>3. ASSUME CloseStep(t)
      PROVE  UNCHANGED list
  BY <1>3 DEF listVars, CloseStep, CloseLock, CloseAgain, CloseSet, ClosePostAvailable,
    ClosePostUsed, CloseSendLock, CloseSendNotify, CloseRecvLock, CloseRecvNotify
<1> QED
  BY <1>1, <1>2, <1>3 DEF Step, SelectStep, LifeStep, listVars, RegLock, SelectWake, UnregLock,
    CreateUnbuffered, DestroyOpen, DestroyClosed, DestroyFree

\* Each thread is on a list at most once, and only while it must watch there.
Lists ==
  \A s \in Side : \A c \in Chan :
    /\ Unique(list[s][c])
    /\ \A t \in Thread : /\ Registered(t, s, c) => MustWatch(t, s, c)
                         /\ MustWatch(t, s, c) /\ t \notin Failing => Registered(t, s, c)

LEMMA OthersWatch ==
  ASSUME NEW t \in Thread, Frame(t), NEW u \in Thread, u # t, NEW s, NEW c
  PROVE  MustWatch(u, s, c)' <=> MustWatch(u, s, c)
BY DEF Frame, MustWatch, InCall

\* Before c is created nobody must watch there.
LEMMA NobodyWatches ==
  ASSUME Typed, Lives, RightOp, NEW c \in Chan, life[c] = "none", NEW t \in Thread, NEW s
  PROVE  ~MustWatch(t, s, c)
<1> SUFFICES ASSUME MustWatch(t, s, c) PROVE FALSE
  OBVIOUS
<1>1. PICK i \in DOMAIN call[t].list : call[t].list[i].channel = c
  BY DEF MustWatch
<1>2. InCall(t) /\ pc[t] # "create"
  BY PlacesOfOps DEF MustWatch, RightOp
<1> QED
  BY <1>1, <1>2 DEF Lives

\* A registration adds the thread where it must watch from then on.
LEMMA RegInsertWatches ==
  ASSUME Typed, RightOp, NEW t \in Thread, RegInsert(t), NEW s, NEW c
  PROVE  MustWatch(t, s, c)' <=> MustWatch(t, s, c) \/ (s = WatchSide(Cur(t)) /\ c = Ch(t))
<1> DEFINE n == Len(call[t].list)
<1>1. /\ InCall(t) /\ pc[t] = "reg_insert" /\ UNCHANGED call /\ call[t].op = "select"
      /\ pc \in [Thread -> PcSet] /\ idx \in [Thread -> Nat \ {0}]
  BY PlacesOfOps DEF RegInsert, At, InCall, callVars, RightOp, SelectPc, Typed, TypeOK, ThreadTypeOK
<1>2. n \in Nat /\ DOMAIN call[t].list = 1..n /\ idx[t] \in 1..n
  BY <1>1, CurrentEntry DEF Typed, TypeOK
<1>3. MustWatch(t, s, c) <=> \E i \in 1..n : i < idx[t] /\ Fits(t, i, s, c)
  BY <1>1, <1>2, WatchMeans DEF RegisterPc
<1>4. Fits(t, idx[t], s, c) <=> s = WatchSide(Cur(t)) /\ c = Ch(t)
  BY DEF Fits, Cur, Ch
<1>5. \A i : Fits(t, i, s, c)' <=> Fits(t, i, s, c)
  BY <1>1 DEF Fits
<1>6. CASE idx[t] < n
  <2>1. pc'[t] = "reg_lock" /\ idx'[t] = idx[t] + 1
    BY <1>1, <1>6 DEF RegInsert, Goto
  <2>2. MustWatch(t, s, c)' <=> \E i \in 1..n : i < idx[t] + 1 /\ Fits(t, i, s, c)
    BY <1>1, <1>2, <2>1 DEF MustWatch, InCall, RegisterPc, Fits
  <2>3. \A i \in 1..n : i < idx[t] + 1 <=> i < idx[t] \/ i = idx[t]
    BY <1>2
  <2> QED
    BY <1>2, <1>3, <1>4, <2>2, <2>3
<1>7. CASE ~(idx[t] < n)
  <2>1. pc'[t] \in {"send_take", "recv_take"}
    BY <1>1, <1>7 DEF RegInsert, Goto, TakePc
  <2>2. MustWatch(t, s, c)' <=> \E i \in 1..n : Fits(t, i, s, c)
    BY <1>1, <1>2, <2>1 DEF MustWatch, InCall, RegisterPc, UnregisterPc, Fits
  <2>3. \A i \in 1..n : i < idx[t] \/ i = idx[t]
    BY <1>2, <1>7
  <2> QED
    BY <1>2, <1>3, <1>4, <2>2, <2>3
<1> QED
  BY <1>6, <1>7

\* A removal takes the thread off where it need not watch any more.
LEMMA UnregRemoveWatches ==
  ASSUME Typed, RightOp, NEW t \in Thread, UnregRemove(t), NEW s, NEW c
  PROVE  MustWatch(t, s, c)' <=> MustWatch(t, s, c) /\ ~(s = WatchSide(Cur(t)) /\ c = Ch(t))
<1> DEFINE n == Len(call[t].list)
<1>1. /\ InCall(t) /\ pc[t] = "unreg_remove" /\ UNCHANGED call /\ call[t].op = "select"
      /\ pc \in [Thread -> PcSet] /\ idx \in [Thread -> Nat \ {0}]
  BY PlacesOfOps DEF UnregRemove, At, InCall, callVars, RightOp, SelectPc, Typed, TypeOK, ThreadTypeOK
<1>2. n \in Nat /\ DOMAIN call[t].list = 1..n /\ idx[t] \in 1..n
  BY <1>1, CurrentEntry DEF Typed, TypeOK
<1>3. MustWatch(t, s, c) <=> /\ \E i \in 1..n : Fits(t, i, s, c)
                             /\ \A i \in 1..n : i < idx[t] => ~Fits(t, i, s, c)
  BY <1>1, <1>2, WatchMeans DEF RegisterPc, UnregisterPc
<1>4. Fits(t, idx[t], s, c) <=> s = WatchSide(Cur(t)) /\ c = Ch(t)
  BY DEF Fits, Cur, Ch
<1>5. CASE idx[t] < n
  <2>1. pc'[t] = "unreg_lock" /\ idx'[t] = idx[t] + 1
    BY <1>1, <1>5 DEF UnregRemove, Goto
  <2>2. MustWatch(t, s, c)' <=> /\ \E i \in 1..n : Fits(t, i, s, c)
                                /\ \A i \in 1..n : i < idx[t] + 1 => ~Fits(t, i, s, c)
    BY <1>1, <1>2, <2>1 DEF MustWatch, InCall, RegisterPc, UnregisterPc, Fits
  <2>3. \A i \in 1..n : i < idx[t] + 1 <=> i < idx[t] \/ i = idx[t]
    BY <1>2
  <2> QED
    BY <1>2, <1>3, <1>4, <2>2, <2>3
<1>6. CASE ~(idx[t] < n)
  <2>1. pc'[t] = "ready"
    BY <1>1, <1>6 DEF UnregRemove, Goto
  <2>2. ~MustWatch(t, s, c)'
    BY <2>1 DEF MustWatch, InCall
  <2>3. \A i \in 1..n : i < idx[t] \/ i = idx[t]
    BY <1>2, <1>6
  <2> QED
    BY <1>2, <1>3, <1>4, <2>2, <2>3
<1> QED
  BY <1>5, <1>6

\* A step of t registers and unregisters t only.
OthersStay(t) ==
  \A s \in Side : \A c \in Chan : \A u \in Thread \ {t} :
    Registered(u, s, c)' <=> Registered(u, s, c)

LEMMA StepLists ==
  ASSUME Typed, Lives, RightOp, Lists, NEW t \in Thread, Step(t)
  PROVE  Lists' /\ OthersStay(t)
<1> SUFFICES ASSUME NEW s \in Side, NEW c \in Chan
             PROVE  /\ Unique(list'[s][c])
                    /\ \A u \in Thread :
                         /\ Registered(u, s, c)' => MustWatch(u, s, c)'
                         /\ MustWatch(u, s, c)' /\ u \notin Failing => Registered(u, s, c)'
                         /\ u # t => (Registered(u, s, c)' <=> Registered(u, s, c))
  BY DEF Lists, OthersStay
<1>1. /\ InCall(t) /\ Frame(t) /\ UNCHANGED call /\ Ch(t) \in Chan /\ WatchSide(Cur(t)) \in Side
      /\ list \in [Side -> [Chan -> Seq(Thread)]]
  BY StepInCall, StepMoves, CreateMoves, CurrentEntry
  DEF Typed, TypeOK, ListTypeOK, WatchSide, Side
<1>2. \A u \in Thread : u # t => (MustWatch(u, s, c)' <=> MustWatch(u, s, c))
  BY <1>1, OthersWatch
<1>3. /\ Unique(list[s][c])
      /\ \A u \in Thread : /\ Registered(u, s, c) => MustWatch(u, s, c)
                           /\ MustWatch(u, s, c) /\ u \notin Failing => Registered(u, s, c)
  BY DEF Lists
<1> DEFINE s0 == WatchSide(Cur(t))
           c0 == Ch(t)
<1>4. list[s0][c0] \in Seq(Thread) /\ Unique(list[s0][c0])
  BY <1>1 DEF Lists
<1> HIDE DEF s0, c0
<1>5. ASSUME NEW l, list' = [list EXCEPT ![s0][c0] = l]
      PROVE  list'[s][c] = IF s = s0 /\ c = c0 THEN l ELSE list[s][c]
  <2>1. list[s0] \in [Chan -> Seq(Thread)] /\ s0 \in Side /\ c0 \in Chan
    BY <1>1 DEF s0, c0
  <2>2. list'[s] = IF s = s0 THEN [list[s0] EXCEPT ![c0] = l] ELSE list[s]
    BY <1>1, <1>5, <2>1
  <2> QED
    BY <2>1, <2>2
<1>6. CASE RegInsert(t)
  <2>1. MustWatch(t, s, c)' <=> MustWatch(t, s, c) \/ (s = s0 /\ c = c0)
    BY <1>6, RegInsertWatches DEF s0, c0
  <2>2. CASE ~Registered(t, s0, c0) /\ list' = [list EXCEPT ![s0][c0] = list_insert(@, t)]
    <3>1. list'[s][c] = IF s = s0 /\ c = c0 THEN list_insert(list[s0][c0], t) ELSE list[s][c]
      BY <1>5, <2>2
    <3>2. /\ Unique(list_insert(list[s0][c0], t))
          /\ ToSet(list_insert(list[s0][c0], t)) = ToSet(list[s0][c0]) \cup {t}
      BY <1>4, <2>2, InsertHead DEF Registered
    <3>3. \A u \in Thread : Registered(u, s, c)' <=> Registered(u, s, c) \/ (u = t /\ s = s0 /\ c = c0)
      BY <3>1, <3>2 DEF Registered
    <3>4. Unique(list'[s][c])
      BY <1>3, <3>1, <3>2
    <3> QED
      BY <1>2, <1>3, <2>1, <3>3, <3>4
  <2>3. CASE (Registered(t, s0, c0) \/ t \in Failing) /\ UNCHANGED list
    BY <1>2, <1>3, <2>1, <2>3 DEF Registered
  <2> QED
    BY <1>6, <2>2, <2>3 DEF RegInsert, s0, c0
<1>7. CASE UnregRemove(t)
  <2>1. MustWatch(t, s, c)' <=> MustWatch(t, s, c) /\ ~(s = s0 /\ c = c0)
    BY <1>7, UnregRemoveWatches DEF s0, c0
  <2>2. CASE Registered(t, s0, c0)
    <3>1. list' = [list EXCEPT ![s0][c0] = list_remove(@, t)]
      BY <1>7, <2>2 DEF UnregRemove, s0, c0
    <3>2. list'[s][c] = IF s = s0 /\ c = c0 THEN list_remove(list[s0][c0], t) ELSE list[s][c]
      BY <1>5, <3>1
    <3>3. /\ Unique(list_remove(list[s0][c0], t))
          /\ ToSet(list_remove(list[s0][c0], t)) = ToSet(list[s0][c0]) \ {t}
      BY <1>4, <2>2, RemoveOnly DEF Registered
    <3>4. \A u \in Thread : Registered(u, s, c)' <=> Registered(u, s, c) /\ ~(u = t /\ s = s0 /\ c = c0)
      BY <3>2, <3>3 DEF Registered
    <3>5. Unique(list'[s][c])
      BY <1>3, <3>2, <3>3
    <3> QED
      BY <1>2, <1>3, <2>1, <3>4, <3>5
  <2>3. CASE ~Registered(t, s0, c0)
    <3>1. UNCHANGED list
      BY <1>7, <2>3 DEF UnregRemove, s0, c0
    <3> QED
      BY <1>2, <1>3, <2>1, <2>3, <3>1 DEF Registered
  <2> QED
    BY <2>2, <2>3
<1>8. CASE Create(t)
  <2>1. life[c0] = "none" /\ pc[t] = "create" /\ call[t].op # "select"
    BY <1>8 DEF Create, At, Lives, c0, ReturnDirect
  <2>2. list'[s][c] = IF c = c0 THEN <<>> ELSE list[s][c]
    BY <1>1, <1>8 DEF Create, c0
  <2>3. ~MustWatch(t, s, c)' /\ ~MustWatch(t, s, c)
    BY <1>1, <2>1 DEF MustWatch
  <2>4. CASE c = c0
    <3>1. \A u \in Thread : ~MustWatch(u, s, c)
      BY <2>1, <2>4, NobodyWatches
    <3>2. Unique(<<>>) /\ ToSet(<<>>) = {}
      BY DEF Unique, ToSet
    <3>3. \A u \in Thread : ~Registered(u, s, c) /\ ~Registered(u, s, c)'
      BY <1>3, <2>2, <2>4, <3>1, <3>2 DEF Registered
    <3> QED
      BY <1>2, <2>2, <2>3, <2>4, <3>1, <3>2, <3>3
  <2>5. CASE c # c0
    BY <1>2, <1>3, <2>2, <2>3, <2>5 DEF Registered
  <2> QED
    BY <2>4, <2>5
<1>9. CASE UNCHANGED list /\ ~RegInsert(t) /\ ~UnregRemove(t)
  <2>1. MustWatch(t, s, c)' <=> MustWatch(t, s, c)
    <3>1. CASE call[t].op = "select"
      <4>1. SelectMoves(t)
        BY <1>9, <3>1, StepOfSelect
      <4> QED
        BY <1>1, <4>1, MoveWatches
    <3>2. CASE call[t].op # "select"
      BY <1>1, <3>2 DEF MustWatch
    <3> QED
      BY <3>1, <3>2
  <2> QED
    BY <1>2, <1>3, <1>9, <2>1 DEF Registered
<1> QED
  BY <1>6, <1>7, <1>8, <1>9, ListMoves

LEMMA InvokeLists ==
  ASSUME Typed, Lists, NEW t \in Thread, Invoke(t) \/ NullCall(t)
  PROVE  Lists'
<1>1. /\ Frame(t) /\ pc[t] = "ready" /\ UNCHANGED list
      /\ pc \in [Thread -> PcSet] /\ call \in [Thread -> Call] /\ idx \in [Thread -> Nat \ {0}]
  BY InvokeMoves DEF Invoke, NullCall, listVars, Typed, TypeOK, ThreadTypeOK
<1>2. ASSUME NEW s, NEW c
      PROVE  ~MustWatch(t, s, c) /\ ~MustWatch(t, s, c)'
  <2>1. ~MustWatch(t, s, c)
    BY <1>1 DEF MustWatch, InCall
  <2>2. CASE NullCall(t)
    BY <1>1, <2>2 DEF NullCall, MustWatch, InCall
  <2>3. CASE Invoke(t)
    <3>1. PICK r \in Menu[t] : call' = [call EXCEPT ![t] = r] /\ pc' = [pc EXCEPT ![t] = StartPc[r.op]]
      BY <2>3 DEF Invoke, Goto
    <3>2. r \in Call /\ call'[t] = r /\ idx'[t] = 1
      BY <1>1, <2>3, <3>1, MenuAssumption DEF WellFormed, Invoke
    <3>3. r.list \in Seq(Entry) /\ (r.op = "select" => pc'[t] = "reg_lock")
      BY <1>1, <3>1, <3>2 DEF Call, StartPc
    <3>4. DOMAIN r.list = 1..Len(r.list) /\ Len(r.list) \in Nat
      BY <3>3, LenProperties
    <3>5. call'[t].op # "select" \/ \A i \in DOMAIN call'[t].list : ~(i < idx'[t])
      BY <3>2, <3>4
    <3>6. ~MustWatch(t, s, c)'
      BY <3>2, <3>3, <3>5 DEF MustWatch, RegisterPc
    <3> QED
      BY <2>1, <3>6
  <2> QED
    BY <2>1, <2>2, <2>3
<1>3. \A u \in Thread : \A s, c : MustWatch(u, s, c)' <=> MustWatch(u, s, c)
  BY <1>1, <1>2, OthersWatch
<1> QED
  BY <1>1, <1>3 DEF Lists, Registered

\* What holds of the selects in every state.
SelectInv == ChannelInv /\ RightOp /\ Lists

LEMMA InitSelects == Init => SelectInv
<1> SUFFICES ASSUME Init PROVE SelectInv
  OBVIOUS
<1>1. ChannelInv
  BY InitInv
<1>2. \A t \in Thread : pc[t] = "ready" /\ call[t].op \in Op
  BY DEF Init, NoCall, Op
<1>3. RightOp
  BY <1>2, PlacesOfOps DEF RightOp
<1>4. \A s \in Side, c \in Chan : list[s][c] = <<>>
  BY DEF Init
<1>5. ToSet(<<>>) = {} /\ Unique(<<>>)
  BY DEF ToSet, Unique
<1>6. Lists
  BY <1>2, <1>4, <1>5 DEF Lists, Registered, MustWatch, InCall
<1> QED
  BY <1>1, <1>3, <1>6 DEF SelectInv

LEMMA NextSelects ==
  ASSUME SelectInv, [Next]_vars
  PROVE  SelectInv'
<1>1. ChannelInv'
  BY NextInv DEF SelectInv
<1>2. Typed /\ Lives /\ RightOp /\ Lists
  BY DEF SelectInv, ChannelInv
<1>3. ASSUME NEW t \in Thread, Invoke(t) \/ NullCall(t)
      PROVE  RightOp' /\ Lists'
  BY <1>2, <1>3, InvokeRightOp, InvokeLists
<1>4. ASSUME NEW t \in Thread, Step(t)
      PROVE  RightOp' /\ Lists'
  BY <1>2, <1>4, StepRightOp, StepLists
<1>5. ASSUME UNCHANGED vars
      PROVE  RightOp' /\ Lists'
  <2>1. UNCHANGED <<pc, call, idx, list>>
    BY <1>5 DEF vars, listVars, callVars
  <2>2. RightOp'
    BY <1>2, <2>1 DEF RightOp
  <2>3. \A t, s, c : MustWatch(t, s, c)' <=> MustWatch(t, s, c)
    BY <2>1 DEF MustWatch, InCall
  <2>4. Lists'
    BY <1>2, <2>1, <2>3 DEF Lists, Registered
  <2> QED
    BY <2>2, <2>4
<1>6. RightOp' /\ Lists'
  BY <1>3, <1>4, <1>5 DEF Next
<1> QED
  BY <1>1, <1>6 DEF SelectInv

\* A thread that a list holds once is counted once.
LEMMA CountsOnce ==
  ASSUME Typed, Lists
  PROVE  ListsHoldLiveSelects
<1> SUFFICES ASSUME NEW s \in Side, NEW c \in Chan, NEW t \in Thread
             PROVE  LET times == Cardinality({k \in DOMAIN list[s][c] : list[s][c][k] = t})
                    IN  /\ times <= (IF MustWatch(t, s, c) THEN 1 ELSE 0)
                        /\ MustWatch(t, s, c) /\ t \notin Failing => times = 1
  BY DEF ListsHoldLiveSelects
<1> DEFINE K == {k \in DOMAIN list[s][c] : list[s][c][k] = t}
<1>1. /\ Registered(t, s, c) => MustWatch(t, s, c)
      /\ MustWatch(t, s, c) /\ t \notin Failing => Registered(t, s, c)
      /\ Unique(list[s][c])
  BY DEF Lists
<1>2. CASE ~Registered(t, s, c)
  <2>1. K = {}
    <3>1. list[s][c] \in Seq(Thread)
      BY DEF Typed, TypeOK, ListTypeOK
    <3>2. DOMAIN list[s][c] = 1..Len(list[s][c])
      BY <3>1, LenProperties
    <3>3. \A k \in DOMAIN list[s][c] : list[s][c][k] # t
      BY <1>2, <3>2 DEF Registered, ToSet
    <3> QED
      BY <3>3
  <2>2. Cardinality(K) = 0
    BY <2>1, FS_EmptySet
  <2> HIDE DEF K
  <2>3. Cardinality(K) <= (IF MustWatch(t, s, c) THEN 1 ELSE 0)
    BY <2>2
  <2> QED
    BY <1>1, <1>2, <2>3 DEF K
<1>3. CASE Registered(t, s, c)
  <2>1. PICK k \in DOMAIN list[s][c] : list[s][c][k] = t
    BY <1>3 DEF Registered, ToSet
  <2>2. K = {k}
    BY <1>1, <2>1 DEF Unique
  <2>3. Cardinality(K) = 1
    BY <2>2, FS_Singleton
  <2> HIDE DEF K
  <2>4. Cardinality(K) <= (IF MustWatch(t, s, c) THEN 1 ELSE 0)
    BY <1>1, <1>3, <2>3
  <2> QED
    BY <2>3, <2>4 DEF K
<1> QED
  BY <1>2, <1>3

LEMMA AlwaysSelects == Spec => []SelectInv
BY InitSelects, NextSelects, PTL DEF Spec

\* The lists hold exactly the local semaphores of the selects that wait on
\* them, each once, whatever the arrays, and a select that has returned is on no
\* list: no post reaches a semaphore whose stack frame is gone
\* (channel.c:373-400, 432-461).
THEOREM OnlyLiveSelects == Spec => []ListsHoldLiveSelects
<1>1. SelectInv => ListsHoldLiveSelects
  BY CountsOnce DEF SelectInv, ChannelInv
<1> QED
  BY <1>1, AlwaysSelects, PTL

-----------------------------------------------------------------------------
(* No wakeup is lost                                                       *)

\* A sender gives its permit back on a closed channel only.
GiveBackClosed == \A t \in Thread : pc[t] = "send_give_back" => closed[Ch(t)]

LEMMA StepGiveBack ==
  ASSUME Typed, Lives, GiveBackClosed, NEW t \in Thread, Step(t)
  PROVE  GiveBackClosed'
<1> SUFFICES ASSUME NEW u \in Thread, pc'[u] = "send_give_back"
             PROVE  closed'[Ch(u)']
  BY DEF GiveBackClosed
<1>1. /\ InCall(t) /\ Ch(t) \in Chan /\ Frame(t) /\ closed \in [Chan -> BOOLEAN]
      /\ pc \in [Thread -> PcSet] /\ (pc'[t] \in Counted => Ch(t)' = Ch(t))
  BY StepInCall, CurrentEntry, StepMoves DEF Typed, TypeOK, ChanTypeOK, ThreadTypeOK
<1>2. "send_give_back" \in Counted
  BY DEF Counted, RoomPc
<1>3. CASE u # t
  <2>1. pc[u] = "send_give_back" /\ Ch(u)' = Ch(u) /\ InCall(u)
    BY <1>1, <1>3 DEF Frame, Ch, Cur, InCall
  <2>2. Ch(u) \in Chan /\ closed[Ch(u)]
    BY <2>1, CurrentEntry DEF GiveBackClosed, Typed, TypeOK
  <2> QED
    BY <2>1, <2>2, ClosedStays
<1>4. CASE u = t
  <2>1. Ch(t)' = Ch(t)
    BY <1>1, <1>2, <1>4
  <2>2. ASSUME NEW st \in Status, Return(t, st), UNCHANGED callVars
        PROVE  FALSE
    BY <1>1, <1>2, <1>4, <2>2, ReturnMoves
  <2> USE DEF At, Goto, Status
  <2>3. SendStep(t) => SendClosed(t)
    BY <1>1, <1>4, <2>2 DEF SendStep, SendTake, SendMiss, SendMissLock, SendMissReport,
      SendLock, SendGiveBack, SendAdd, SendPost, SendNotifyLock, SendNotify
  <2>4. ~RecvStep(t)
    BY <1>1, <1>4, <2>2 DEF RecvStep, RecvTake, RecvMiss, RecvMissLock, RecvMissOpen,
      RecvMissClosed, RecvLock, RecvClosed, RecvGiveBack, RecvRemove, RecvPost,
      RecvNotifyLock, RecvNotify
  <2>5. ~CloseStep(t)
    BY <1>1, <1>4 DEF CloseStep, ReturnDirect, CloseLock, CloseAgain, CloseSet,
      ClosePostAvailable, ClosePostUsed, CloseSendLock, CloseSendNotify, CloseRecvLock,
      CloseRecvNotify
  <2>6. ~SelectStep(t) /\ ~LifeStep(t)
    BY <1>1, <1>4 DEF SelectStep, TakePc, RegLock, RegInsert, SelectWake, UnregLock,
      UnregRemove, LifeStep, ReturnDirect, Create, CreateUnbuffered, DestroyOpen,
      DestroyClosed, DestroyFree
  <2>7. SendClosed(t)
    BY <2>3, <2>4, <2>5, <2>6 DEF Step
  <2> QED
    BY <1>4, <2>1, <2>7 DEF SendClosed
<1> QED
  BY <1>3, <1>4

\* Where a thread has yet to run list_foreach on that list of its channel.
OwesPc(side) ==
  {"close_post_available", "close_post_used", "close_send_lock", "close_send_notify"}
    \cup (IF side = "recv"
          THEN {"recv_notify_lock", "recv_notify", "close_recv_lock", "close_recv_notify"}
          ELSE {"send_notify_lock", "send_notify"})

LEMMA OwesMeans ==
  ASSUME NEW side, NEW c
  PROVE  OwesNotification(side, c) = AtCh(OwesPc(side), c)
BY DEF OwesNotification, OwesPc

\* A step that makes an entry ready leaves its thread with a notification to
\* give.
LEMMA ReadyOwes ==
  ASSUME Typed, KnowsClosed, GiveBackClosed, NEW t \in Thread, Step(t), ~Create(t),
         NEW e \in Entry, e.channel \in Chan, ~Ready(e), Ready(e)'
  PROVE  t \in OwesNotification(WatchSide(e), e.channel)'
<1> DEFINE c == e.channel
<1>1. /\ InCall(t) /\ ChanTypeOK /\ pc \in [Thread -> PcSet] /\ e.is_send \in BOOLEAN
      /\ c = Ch(t)
  <2>1. c = Ch(t)
    BY OtherChannels DEF Ready
  <2> QED
    BY <2>1, StepInCall DEF Typed, TypeOK, ThreadTypeOK, Entry
<1>2. /\ \/ closed'[c] /\ ~closed[c]
         \/ e.is_send /\ available'[c] > 0 /\ ~(available[c] > 0)
         \/ ~e.is_send /\ used'[c] > 0 /\ ~(used[c] > 0)
      /\ ~closed[c]
  BY DEF Ready
<1>3. ASSUME pc'[t] \in OwesPc(WatchSide(e)), UNCHANGED <<call, idx>>
      PROVE  t \in OwesNotification(WatchSide(e), e.channel)'
  <2>1. Ch(t)' = c
    BY <1>1, <1>3 DEF Ch, Cur
  <2> QED
    BY <1>3, <2>1 DEF OwesNotification, OwesPc, AtCh
<1>4. CASE SendPost(t) \/ RecvPost(t) \/ CloseSet(t) \/ ClosePostAvailable(t) \/ ClosePostUsed(t)
  <2>1. UNCHANGED <<call, idx>>
    BY <1>4 DEF callVars, SendPost, RecvPost, CloseSet, ClosePostAvailable, ClosePostUsed
  <2>2. pc'[t] \in OwesPc(WatchSide(e))
    BY <1>1, <1>2, <1>4 DEF OwesPc, WatchSide, Goto, At, Plus, ChanTypeOK, SendPost, RecvPost,
      CloseSet, ClosePostAvailable, ClosePostUsed
  <2> QED
    BY <1>3, <2>1, <2>2
<1>5. CASE SendGiveBack(t) \/ RecvGiveBack(t)
  <2>1. closed[c]
    BY <1>1, <1>5 DEF SendGiveBack, RecvGiveBack, At, GiveBackClosed, KnowsClosed, AfterClose
  <2> QED
    BY <1>2, <2>1
<1>6. CASE SendTake(t) \/ RecvTake(t)
  <2>1. available[c] \in Nat /\ used[c] \in Nat
    BY <1>1 DEF ChanTypeOK
  <2>2. /\ UNCHANGED closed
        /\ available'[c] = available[c] \/ available'[c] = available[c] - 1
        /\ used'[c] = used[c] \/ used'[c] = used[c] - 1
    BY <1>1, <1>6 DEF SendTake, RecvTake, Minus, ChanTypeOK
  <2> QED
    BY <1>2, <2>1, <2>2
<1>7. CASE UNCHANGED <<closed, available, used>>
  BY <1>2, <1>7
<1>8. CASE UNCHANGED chanVars \/ SendMissLock(t) \/ SendMissReport(t) \/ SendLock(t)
             \/ SendClosed(t) \/ SendAdd(t) \/ RecvMissLock(t) \/ RecvMissOpen(t)
             \/ RecvMissClosed(t) \/ RecvLock(t) \/ RecvClosed(t) \/ RecvRemove(t)
             \/ CloseLock(t) \/ CloseAgain(t) \/ DestroyFree(t)
  BY <1>7, <1>8 DEF chanVars, SendMissLock, SendMissReport, SendLock, SendClosed, SendAdd,
    RecvMissLock, RecvMissOpen, RecvMissClosed, RecvLock, RecvClosed, RecvRemove, CloseLock,
    CloseAgain, DestroyFree
<1> QED
  BY <1>4, <1>5, <1>6, <1>8, QuietSteps

\* A thread that owes a notification owes it until it runs list_foreach.
LEMMA OwesUntilNotified ==
  ASSUME Typed, RightOp, NEW t \in Thread, Step(t), NEW side \in Side, NEW c,
         t \in OwesNotification(side, c)
  PROVE  t \in OwesNotification(side, c)' \/ list_foreach(side, c)
<1>1. /\ InCall(t) /\ pc \in [Thread -> PcSet] /\ pc[t] \in OwesPc(side) /\ Ch(t) = c
      /\ side \in {"send", "recv"}
  BY StepInCall, OwesMeans DEF AtCh, Typed, TypeOK, ThreadTypeOK, Side
<1>2. ASSUME pc'[t] \in OwesPc(side), UNCHANGED <<call, idx>>
      PROVE  t \in OwesNotification(side, c)'
  BY <1>1, <1>2 DEF OwesNotification, OwesPc, AtCh, Ch, Cur
<1>3. pc[t] \in {"close_post_available", "close_post_used", "close_send_lock",
                 "close_send_notify", "recv_notify_lock", "recv_notify", "close_recv_lock",
                 "close_recv_notify", "send_notify_lock", "send_notify"}
  BY <1>1 DEF OwesPc
<1> USE DEF At, Goto, callVars
<1>4. CASE SendStep(t)
  <2>1. SendNotifyLock(t) \/ SendNotify(t)
    BY <1>3, <1>4 DEF SendStep, SendTake, SendMiss, SendMissLock, SendMissReport, SendLock,
      SendClosed, SendGiveBack, SendAdd, SendPost
  <2>2. side = "send"
    BY <1>1, <2>1 DEF OwesPc, SendNotifyLock, SendNotify
  <2> QED
    BY <1>1, <1>2, <2>1, <2>2 DEF OwesPc, SendNotifyLock, SendNotify
<1>5. CASE RecvStep(t)
  <2>1. RecvNotifyLock(t) \/ RecvNotify(t)
    BY <1>3, <1>5 DEF RecvStep, RecvTake, RecvMiss, RecvMissLock, RecvMissOpen,
      RecvMissClosed, RecvLock, RecvClosed, RecvGiveBack, RecvRemove, RecvPost
  <2>2. side = "recv"
    BY <1>1, <2>1 DEF OwesPc, RecvNotifyLock, RecvNotify
  <2> QED
    BY <1>1, <1>2, <2>1, <2>2 DEF OwesPc, RecvNotifyLock, RecvNotify
<1>6. CASE CloseStep(t)
  <2>1. CASE ClosePostAvailable(t) \/ ClosePostUsed(t) \/ CloseSendLock(t)
    BY <1>1, <1>2, <2>1 DEF OwesPc, ClosePostAvailable, ClosePostUsed, CloseSendLock
  <2>2. CASE CloseSendNotify(t)
    BY <1>1, <1>2, <2>2 DEF OwesPc, CloseSendNotify
  <2>3. CASE CloseRecvLock(t)
    BY <1>1, <1>2, <2>3 DEF OwesPc, CloseRecvLock
  <2>4. CASE CloseRecvNotify(t)
    BY <1>1, <2>4 DEF OwesPc, CloseRecvNotify
  <2> QED
    BY <1>3, <1>6, <2>1, <2>2, <2>3, <2>4 DEF CloseStep, CloseLock, CloseAgain, CloseSet
<1>7. ~SelectStep(t) /\ ~LifeStep(t)
  BY <1>3 DEF SelectStep, RegLock, RegInsert, SelectWake, UnregLock, UnregRemove, LifeStep,
    Create, CreateUnbuffered, DestroyOpen, DestroyClosed, DestroyFree
<1> QED
  BY <1>4, <1>5, <1>6, <1>7 DEF Step

\* list_foreach posts the semaphore of every thread on the list.
LEMMA ForeachPosts ==
  ASSUME Typed, NEW side \in Side, NEW c \in Chan, list_foreach(side, c), NEW t \in Thread
  PROVE  /\ local'[t] >= local[t]
         /\ Registered(t, side, c) => local'[t] > 0
<1> DEFINE l == list[side][c]
           K == {k \in DOMAIN l : l[k] = t}
<1>1. l \in Seq(Thread) /\ local[t] \in Nat
  BY DEF Typed, TypeOK, ListTypeOK
<1>2. Len(l) \in Nat /\ DOMAIN l = 1..Len(l)
  BY <1>1, LenProperties
<1>3. K \in SUBSET (1..Len(l)) /\ IsFiniteSet(1..Len(l))
  BY <1>2, FS_Interval
<1>4. IsFiniteSet(K) /\ Cardinality(K) \in Nat
  BY <1>3, FS_Subset, FS_CardinalityType
<1>5. local'[t] = local[t] + Cardinality(K)
  BY DEF list_foreach
<1>6. Registered(t, side, c) => Cardinality(K) # 0
  <2>1. Registered(t, side, c) => \E k \in 1..Len(l) : l[k] = t
    BY DEF Registered, ToSet
  <2>2. Registered(t, side, c) => K # {}
    BY <1>2, <2>1
  <2> QED
    BY <1>4, <2>2, FS_EmptySet
<1> HIDE DEF K
<1> QED
  BY <1>1, <1>4, <1>5, <1>6

\* A thread's own semaphore only goes down by its own steps.
LEMMA LocalGrows ==
  ASSUME Typed, NEW t \in Thread, Step(t), NEW u \in Thread, u # t
  PROVE  local'[u] >= local[u]
<1>1. /\ local \in [Thread -> Nat] /\ local[u] \in Nat /\ Ch(t) \in Chan
      /\ {"send", "recv"} \subseteq Side
  BY StepInCall, CurrentEntry DEF Typed, TypeOK, ListTypeOK, Side
<1>2. ASSUME UNCHANGED local
      PROVE  local'[u] >= local[u]
  BY <1>1, <1>2
<1>3. ASSUME NEW side \in {"send", "recv"}, list_foreach(side, Ch(t))
      PROVE  local'[u] >= local[u]
  BY <1>1, <1>3, ForeachPosts
<1>4. CASE SendStep(t)
  BY <1>2, <1>3, <1>4 DEF listVars, SendStep, SendTake, SendMiss, SendMissLock,
    SendMissReport, SendLock, SendClosed, SendGiveBack, SendAdd, SendPost, SendNotifyLock,
    SendNotify
<1>5. CASE RecvStep(t)
  BY <1>2, <1>3, <1>5 DEF listVars, RecvStep, RecvTake, RecvMiss, RecvMissLock,
    RecvMissOpen, RecvMissClosed, RecvLock, RecvClosed, RecvGiveBack, RecvRemove, RecvPost,
    RecvNotifyLock, RecvNotify
<1>6. CASE CloseStep(t)
  BY <1>2, <1>3, <1>6 DEF listVars, CloseStep, CloseLock, CloseAgain, CloseSet,
    ClosePostAvailable, ClosePostUsed, CloseSendLock, CloseSendNotify, CloseRecvLock,
    CloseRecvNotify
<1>7. CASE SelectStep(t)
  BY <1>1, <1>2, <1>7 DEF SelectStep, RegLock, RegInsert, SelectWake, UnregLock, UnregRemove
<1>8. CASE LifeStep(t)
  BY <1>2, <1>8 DEF listVars, LifeStep, Create, CreateUnbuffered, DestroyOpen, DestroyClosed,
    DestroyFree
<1> QED
  BY <1>4, <1>5, <1>6, <1>7, <1>8 DEF Step

\* Where a select tries an entry, and where it has found the semaphore of the
\* entry down.
TryPc == {"send_take", "send_miss_lock", "send_miss_cs",
          "recv_take", "recv_miss_lock", "recv_miss_cs"}
MissPc == {"send_miss_lock", "send_miss_cs", "recv_miss_lock", "recv_miss_cs"}

\* If entry i of t's array could go ahead, somebody still has to notify t.
Heard(t, i) ==
  LET e == call[t].list[i]
  IN  Ready(e) /\ ~Unheard(t, e) => OwesNotification(WatchSide(e), e.channel) # {}

\* Nothing that t has passed over in this scan gets ready unheard: neither the
\* entries before the current one, nor, once its semaphore was found down, the
\* current one, as long as its channel is open.
ScanHears(t) ==
  /\ pc[t] \in TryPc => \A i \in DOMAIN call[t].list : i < idx[t] => Heard(t, i)
  /\ pc[t] = "select_wait" => \A i \in DOMAIN call[t].list : Heard(t, i)
  /\ pc[t] \in MissPc => closed[Ch(t)] \/ Heard(t, idx[t])

Waits == \A t \in Thread : call[t].op = "select" /\ local[t] = 0 => ScanHears(t)

\* Another thread's step makes nothing ready unheard.
LEMMA OthersHeard ==
  ASSUME Typed, Lives, KnowsClosed, GiveBackClosed, RightOp, Lists,
         NEW t \in Thread, Step(t), NEW u \in Thread, u # t,
         call[u].op = "select", pc[u] \in ScanPc, local'[u] = 0,
         NEW i \in DOMAIN call[u].list, Heard(u, i)
  PROVE  Heard(u, i)'
<1>9. PICK e : e = call[u].list[i]
  OBVIOUS
<1>10. PICK c, s : c = e.channel /\ s = WatchSide(e)
  OBVIOUS
<1>1. /\ InCall(u) /\ InCall(t) /\ Frame(t) /\ call'[u] = call[u]
      /\ pc[u] # "create" /\ pc[u] \notin UnregisterPc \cup RegisterPc
  BY StepInCall, StepMoves DEF Frame, ScanPc, SendPc, RecvPc, InCall, UnregisterPc, RegisterPc
<1>2. e \in Entry /\ c \in Chan /\ s \in Side
  <2>1. call[u] \in Call /\ c \in Chan /\ i \in 1..Len(call[u].list)
    BY <1>9, <1>10, <1>1, CurrentEntry DEF Typed, TypeOK, ThreadTypeOK
  <2>2. e \in Entry
    BY <1>9, <2>1, ElementOfSeq DEF Call
  <2> QED
    BY <1>10, <2>1, <2>2 DEF WatchSide, Side
<1>3. Registered(u, s, c)' <=> Registered(u, s, c)
  BY <1>2, StepLists DEF OthersStay
<1>4. MustWatch(u, s, c)
  BY <1>9, <1>10, <1>1 DEF MustWatch
<1>11. /\ Heard(u, i) <=> (Ready(e) /\ ~Unheard(u, e) => OwesNotification(s, c) # {})
       /\ Heard(u, i)' <=> (Ready(e)' /\ ~Unheard(u, e)' => OwesNotification(s, c)' # {})
  BY <1>9, <1>10, <1>1 DEF Heard
<1>12. /\ Unheard(u, e) <=> u \in Failing /\ ~Registered(u, s, c)
       /\ Unheard(u, e)' <=> u \in Failing /\ ~Registered(u, s, c)'
  BY <1>10 DEF Unheard
<1> SUFFICES ASSUME Ready(e)', ~(u \in Failing /\ ~Registered(u, s, c))
             PROVE  OwesNotification(s, c)' # {}
  BY <1>3, <1>11, <1>12
<1>5. Registered(u, s, c)
  BY <1>2, <1>4 DEF Lists
<1>6. Ready(e) => OwesNotification(s, c) # {}
  BY <1>5, <1>11, <1>12
<1>7. CASE Ready(e)
  <2>1. PICK v \in Thread : v \in OwesNotification(s, c)
    BY <1>6, <1>7 DEF OwesNotification, AtCh
  <2>2. CASE v = t
    <3>1. ~list_foreach(s, c)
      <4>1. ASSUME list_foreach(s, c) PROVE FALSE
        <5>1. local'[u] > 0
          BY <1>2, <1>5, <4>1, ForeachPosts
        <5> QED
          BY <5>1
      <4> QED
        BY <4>1
    <3> QED
      BY <1>2, <2>1, <2>2, <3>1, OwesUntilNotified
  <2>3. CASE v # t
    <3>1. pc'[v] = pc[v] /\ Ch(v)' = Ch(v)
      BY <1>1, <2>3 DEF Frame, Ch, Cur
    <3>2. v \in OwesNotification(s, c)'
      BY <2>1, <3>1 DEF OwesNotification, AtCh
    <3> QED
      BY <3>2
  <2> QED
    BY <2>2, <2>3
<1>8. CASE ~Ready(e)
  <2>1. ~Create(t)
    <3>1. ASSUME Create(t) PROVE FALSE
      <4>1. pc[t] = "create" /\ life[Ch(t)] = "none"
        BY <3>1 DEF Create, At, Lives
      <4>2. life[c] # "none"
        BY <1>1, <1>9, <1>10 DEF Lives
      <4>3. closed'[c] = closed[c] /\ available'[c] = available[c] /\ used'[c] = used[c]
        BY <1>2, <4>1, <4>2, OtherChannels
      <4> QED
        BY <1>8, <1>10, <4>3 DEF Ready
    <3> QED
      BY <3>1
  <2> QED
    BY <1>2, <1>10, <1>8, <2>1, ReadyOwes
<1> QED
  BY <1>7, <1>8

\* The moves of a scan: it starts, it finds the current entry's semaphore down,
\* it takes the mutex to look at closed, it goes on to the next entry or waits.
ScanStarts(t) == idx'[t] = 1 /\ pc'[t] \in TryPc \ MissPc

ScanMisses(t) ==
  /\ pc[t] \in TryPc \ MissPc /\ pc'[t] \in MissPc /\ idx'[t] = idx[t]
  /\ IF Cur(t).is_send THEN ~(available[Ch(t)] > 0) ELSE ~(used[Ch(t)] > 0)

ScanLocks(t) == pc[t] \in MissPc /\ pc'[t] \in MissPc /\ idx'[t] = idx[t]

ScanPasses(t) ==
  /\ pc[t] \in MissPc /\ ~closed[Ch(t)]
  /\ \/ idx'[t] = idx[t] + 1 /\ pc'[t] \in TryPc \ MissPc
     \/ idx[t] = Len(call[t].list) /\ pc'[t] = "select_wait"

LEMMA ScanMoves ==
  ASSUME Typed, RightOp, NEW t \in Thread, Step(t), call[t].op = "select",
         pc'[t] \in TryPc \cup {"select_wait"}
  PROVE  \/ ScanStarts(t)
         \/ /\ ScanMisses(t) \/ ScanLocks(t) \/ ScanPasses(t)
            /\ UNCHANGED <<closed, available, used, list, local, call>>
<1>1. /\ InCall(t) /\ pc \in [Thread -> PcSet] /\ idx \in [Thread -> Nat \ {0}]
      /\ pc[t] \in SendPc => Cur(t).is_send
      /\ pc[t] \in RecvPc => ~Cur(t).is_send
      /\ pc[t] \notin ClosePc \cup DestroyPc \cup {"create"}
  <2>1. "select" \in OpAt(pc[t])
    BY DEF RightOp
  <2> QED
    BY <2>1, StepInCall, PlacesOfOps DEF Typed, TypeOK, ThreadTypeOK, EntryMatches
<1> USE DEF At, Goto, TryPc, MissPc, Wait, TakePc
<1>2. ASSUME NEW st \in Status, Return(t, st)
      PROVE  /\ st = "WOULDBLOCK"
             /\ \/ idx'[t] = idx[t] + 1 /\ pc'[t] \in TryPc \ MissPc
                \/ idx[t] = Len(call[t].list) /\ pc'[t] = "select_wait"
  BY <1>1, <1>2 DEF Return, ReturnDirect, SelectDecided, SelectNext, SelectNothing
<1>3. CASE SendStep(t)
  <2>1. SendMiss(t) \/ SendMissLock(t) \/ SendMissReport(t)
    BY <1>1, <1>2, <1>3 DEF SendStep, Status, SendTake, SendLock, SendClosed, SendGiveBack,
      SendAdd, SendPost, SendNotifyLock, SendNotify
  <2>2. CASE SendMiss(t)
    BY <1>1, <2>2 DEF SendMiss, ScanMisses, SendPc, chanVars, listVars, callVars
  <2>3. CASE SendMissLock(t)
    BY <1>1, <2>3 DEF SendMissLock, ScanLocks, listVars, callVars
  <2>4. CASE SendMissReport(t)
    BY <1>1, <1>2, <2>4 DEF SendMissReport, ScanPasses, listVars, callVars, Status
  <2> QED
    BY <2>1, <2>2, <2>3, <2>4
<1>4. CASE RecvStep(t)
  <2>1. RecvMiss(t) \/ RecvMissLock(t) \/ RecvMissOpen(t)
    BY <1>1, <1>2, <1>4 DEF RecvStep, Status, RecvTake, RecvMissClosed, RecvLock, RecvClosed,
      RecvGiveBack, RecvRemove, RecvPost, RecvNotifyLock, RecvNotify
  <2>2. CASE RecvMiss(t)
    BY <1>1, <2>2 DEF RecvMiss, ScanMisses, RecvPc, chanVars, listVars, callVars
  <2>3. CASE RecvMissLock(t)
    BY <1>1, <2>3 DEF RecvMissLock, ScanLocks, listVars, callVars
  <2>4. CASE RecvMissOpen(t)
    BY <1>1, <1>2, <2>4 DEF RecvMissOpen, ScanPasses, listVars, callVars, Status
  <2> QED
    BY <2>1, <2>2, <2>3, <2>4
<1>5. CASE SelectStep(t)
  BY <1>1, <1>5 DEF SelectStep, ScanStarts, RegLock, RegInsert, SelectWake, UnregLock,
    UnregRemove
<1>6. ~CloseStep(t) /\ ~LifeStep(t)
  BY <1>1 DEF ClosePc, DestroyPc, CloseStep, CloseLock, CloseAgain, CloseSet,
    ClosePostAvailable, ClosePostUsed, CloseSendLock, CloseSendNotify, CloseRecvLock,
    CloseRecvNotify, LifeStep, Create, CreateUnbuffered, DestroyOpen, DestroyClosed, DestroyFree
<1> QED
  BY <1>3, <1>4, <1>5, <1>6 DEF Step

\* A select passes over an entry only while nothing is ready there unheard.
LEMMA OwnScan ==
  ASSUME Typed, RightOp, Waits, NEW t \in Thread, Step(t), call[t].op = "select", local'[t] = 0
  PROVE  ScanHears(t)'
<1>1. /\ InCall(t) /\ Frame(t) /\ UNCHANGED call /\ pc \in [Thread -> PcSet]
      /\ idx \in [Thread -> Nat \ {0}]
      /\ DOMAIN call[t].list = 1..Len(call[t].list) /\ Len(call[t].list) \in Nat
      /\ idx[t] \in DOMAIN call[t].list
  BY StepInCall, StepMoves, CreateMoves, CurrentEntry DEF Typed, TypeOK, ThreadTypeOK
<1>2. CASE pc'[t] \notin TryPc \cup {"select_wait"}
  BY <1>2 DEF ScanHears, TryPc, MissPc
<1>3. CASE ScanStarts(t)
  <2>1. pc'[t] \in TryPc \ MissPc /\ idx'[t] = 1
    BY <1>3 DEF ScanStarts
  <2>2. \A i \in DOMAIN call'[t].list : ~(i < 1)
    BY <1>1
  <2> QED
    BY <2>1, <2>2 DEF ScanHears, TryPc, MissPc
<1>4. CASE /\ ScanMisses(t) \/ ScanLocks(t) \/ ScanPasses(t)
           /\ UNCHANGED <<closed, available, used, list, local, call>>
           /\ pc'[t] \in TryPc \cup {"select_wait"}
  <2>1. pc[t] \in TryPc /\ ScanHears(t)
    BY <1>4 DEF ScanMisses, ScanLocks, ScanPasses, TryPc, MissPc, Waits
  <2>2. ASSUME NEW s, NEW c
        PROVE  OwesNotification(s, c)' = OwesNotification(s, c)
    <3>1. pc[t] \notin OwesPc(s) /\ pc'[t] \notin OwesPc(s)
      BY <1>4, <2>1 DEF OwesPc, TryPc
    <3>2. \A u \in Thread : (pc'[u] \in OwesPc(s) /\ Ch(u)' = c) <=> (pc[u] \in OwesPc(s) /\ Ch(u) = c)
      BY <1>1, <3>1 DEF Frame, Ch, Cur
    <3> QED
      BY <3>2, OwesMeans DEF AtCh, OwesNotification, OwesPc
  <2>3. ASSUME NEW i
        PROVE  Heard(t, i)' <=> Heard(t, i)
    BY <1>4, <2>2 DEF Heard, Ready, Unheard, Registered
  <2>4. \A i \in DOMAIN call[t].list : i < idx[t] => Heard(t, i)'
    BY <2>1, <2>3 DEF ScanHears
  <2>8. PICK k : k = idx[t]
    OBVIOUS
  <2>5. CASE ScanMisses(t)
    <3>1. closed'[Ch(t)] \/ ~Ready(Cur(t))
      BY <1>4, <2>5 DEF ScanMisses, Ready, Ch
    <3>2. closed'[Ch(t)] \/ Heard(t, idx[t])
      BY <3>1 DEF Heard, Cur
    <3>3. Ch(t)' = Ch(t) /\ idx'[t] = idx[t] /\ pc'[t] \in MissPc
      BY <1>1, <2>5 DEF ScanMisses, Ch, Cur
    <3> QED
      BY <1>1, <2>3, <2>4, <3>2, <3>3 DEF ScanHears, MissPc, TryPc
  <2>6. CASE ScanLocks(t)
    <3>1. Ch(t)' = Ch(t) /\ idx'[t] = idx[t] /\ pc'[t] \in MissPc /\ pc[t] \in MissPc
      BY <1>1, <2>6 DEF ScanLocks, Ch, Cur
    <3> QED
      BY <1>1, <1>4, <2>1, <2>3, <2>4, <3>1 DEF ScanHears, MissPc, TryPc
  <2>7. CASE ScanPasses(t)
    <3>1. Heard(t, k)'
      BY <2>1, <2>3, <2>7, <2>8 DEF ScanPasses, ScanHears
    <3>2. CASE idx'[t] = idx[t] + 1 /\ pc'[t] \in TryPc \ MissPc
      <4>1. \A i \in DOMAIN call[t].list : i < idx[t] + 1 => i < idx[t] \/ i = k
        BY <1>1, <2>8
      <4> QED
        BY <1>1, <2>4, <3>1, <3>2, <4>1 DEF ScanHears, MissPc, TryPc
    <3>3. CASE idx[t] = Len(call[t].list) /\ pc'[t] = "select_wait"
      <4>1. \A i \in DOMAIN call[t].list : i < idx[t] \/ i = k
        BY <1>1, <2>8, <3>3
      <4> QED
        BY <1>1, <2>4, <3>1, <3>3, <4>1 DEF ScanHears, MissPc, TryPc
    <3> QED
      BY <2>7, <3>2, <3>3 DEF ScanPasses
  <2> QED
    BY <1>4, <2>5, <2>6, <2>7
<1> QED
  BY <1>2, <1>3, <1>4, ScanMoves

LEMMA StepWaits ==
  ASSUME Typed, Lives, KnowsClosed, GiveBackClosed, RightOp, Lists, Waits,
         NEW t \in Thread, Step(t)
  PROVE  Waits'
<1> SUFFICES ASSUME NEW u \in Thread, call'[u].op = "select", local'[u] = 0
             PROVE  ScanHears(u)'
  BY DEF Waits
<1>1. Frame(t) /\ UNCHANGED call
  BY StepMoves, CreateMoves
<1>2. CASE u = t
  BY <1>1, <1>2, OwnScan
<1>3. CASE u # t
  <2>1. local'[u] >= local[u] /\ local[u] \in Nat
    BY <1>3, LocalGrows DEF Typed, TypeOK, ListTypeOK
  <2>2. local[u] = 0
    BY <2>1
  <2>3. ScanHears(u)
    BY <1>1, <2>2 DEF Waits
  <2>4. pc'[u] = pc[u] /\ idx'[u] = idx[u] /\ call'[u] = call[u] /\ Ch(u)' = Ch(u)
    BY <1>1, <1>3 DEF Frame, Ch, Cur
  <2>5. CASE pc[u] \notin ScanPc
    BY <2>4, <2>5 DEF ScanHears, ScanPc, SendPc, RecvPc, TryPc, MissPc
  <2>6. CASE pc[u] \in ScanPc
    <3>1. InCall(u)
      BY <2>6 DEF InCall, ScanPc, SendPc, RecvPc
    <3>2. Ch(u) \in Chan /\ idx[u] \in DOMAIN call[u].list
      BY <3>1, CurrentEntry DEF Typed, TypeOK
    <3>3. \A i \in DOMAIN call[u].list : Heard(u, i) => Heard(u, i)'
      BY <1>1, <1>3, <2>6, OthersHeard
    <3>4. closed[Ch(u)] => closed'[Ch(u)]
      BY <3>2, ClosedStays
    <3>5. PICK k : k = idx[u]
      OBVIOUS
    <3>6. pc[u] \in MissPc => closed'[Ch(u)] \/ Heard(u, k)'
      BY <2>3, <3>2, <3>3, <3>4, <3>5 DEF ScanHears
    <3> QED
      BY <2>3, <2>4, <3>3, <3>5, <3>6 DEF ScanHears
  <2> QED
    BY <2>5, <2>6
<1> QED
  BY <1>2, <1>3

\* A call that starts owes nothing yet and has passed over nothing.
LEMMA InvokeWaits ==
  ASSUME Typed, RightOp, Waits, GiveBackClosed, NEW t \in Thread, Invoke(t) \/ NullCall(t)
  PROVE  Waits' /\ GiveBackClosed'
<1>1. /\ Frame(t) /\ UNCHANGED <<closed, available, used, list>> /\ pc[t] = "ready"
      /\ pc'[t] \in {"ready", "create", "send_take", "recv_take", "reg_lock",
                     "close_lock", "destroy_check"}
      /\ local \in [Thread -> Nat] /\ call \in [Thread -> Call]
  BY InvokeMoves DEF chanVars, Invoke, NullCall, Typed, TypeOK, ListTypeOK, ThreadTypeOK, listVars
<1>2. \A u \in Thread : u # t => /\ pc'[u] = pc[u] /\ idx'[u] = idx[u] /\ call'[u] = call[u]
                                 /\ Ch(u)' = Ch(u)
  BY <1>1 DEF Frame, Ch, Cur
<1>3. \A u \in Thread : u # t => local'[u] = local[u]
  BY <1>1 DEF Invoke, NullCall, listVars
<1>4. GiveBackClosed'
  BY <1>1, <1>2 DEF GiveBackClosed
<1>5. ASSUME NEW s, NEW c
      PROVE  OwesNotification(s, c)' = OwesNotification(s, c)
  <2>1. pc[t] \notin OwesPc(s) /\ pc'[t] \notin OwesPc(s)
    BY <1>1 DEF OwesPc
  <2>2. \A u \in Thread : (pc'[u] \in OwesPc(s) /\ Ch(u)' = c) <=> (pc[u] \in OwesPc(s) /\ Ch(u) = c)
    BY <1>2, <2>1
  <2> QED
    BY <2>2, OwesMeans DEF AtCh, OwesNotification, OwesPc
<1>6. ASSUME NEW u \in Thread, call'[u].op = "select", local'[u] = 0
      PROVE  ScanHears(u)'
  <2>1. CASE u = t
    <3>1. pc'[t] \notin TryPc \cup {"select_wait"}
      <4>1. CASE NullCall(t)
        BY <1>1, <4>1 DEF NullCall, TryPc
      <4>2. CASE Invoke(t)
        <5>1. PICK r \in Menu[t] : call' = [call EXCEPT ![t] = r] /\ pc' = [pc EXCEPT ![t] = StartPc[r.op]]
          BY <4>2 DEF Invoke, Goto
        <5>2. r.op = "select" /\ pc'[t] = StartPc[r.op]
          BY <1>1, <1>6, <2>1, <5>1 DEF Typed, TypeOK, ThreadTypeOK
        <5> QED
          BY <5>2 DEF StartPc, TryPc
      <4> QED
        BY <4>1, <4>2
    <3> QED
      BY <2>1, <3>1 DEF ScanHears, TryPc, MissPc
  <2>2. CASE u # t
    <3>1. ScanHears(u)
      BY <1>2, <1>3, <1>6, <2>2 DEF Waits
    <3>2. \A i : Heard(u, i)' <=> Heard(u, i)
      BY <1>1, <1>2, <1>5, <2>2 DEF Heard, Ready, Unheard, Registered
    <3>3. PICK k : k = idx[u]
      OBVIOUS
    <3> QED
      BY <1>1, <1>2, <2>2, <3>1, <3>2, <3>3 DEF ScanHears
  <2> QED
    BY <2>1, <2>2
<1> QED
  BY <1>4, <1>6 DEF Waits

LEMMA AlwaysHeard == Spec => [](Waits /\ GiveBackClosed)
<1>1. Init => Waits /\ GiveBackClosed
  BY DEF Init, Waits, GiveBackClosed, NoCall
<1>2. SelectInv /\ Waits /\ GiveBackClosed /\ [Next]_vars => Waits' /\ GiveBackClosed'
  <2> SUFFICES ASSUME SelectInv, Waits, GiveBackClosed, [Next]_vars
               PROVE  Waits' /\ GiveBackClosed'
    OBVIOUS
  <2>1. Typed /\ Lives /\ KnowsClosed /\ RightOp /\ Lists
    BY DEF SelectInv, ChannelInv
  <2>2. ASSUME UNCHANGED vars
        PROVE  Waits' /\ GiveBackClosed'
    <3>1. UNCHANGED <<closed, available, used, list, local, call, pc, idx>>
      BY <2>2 DEF vars, chanVars, listVars, callVars
    <3>2. \A t \in Thread : Ch(t)' = Ch(t)
      BY <3>1 DEF Ch, Cur
    <3>3. \A places, c : AtCh(places, c)' = AtCh(places, c)
      BY <3>1, <3>2 DEF AtCh
    <3>4. \A side, c : OwesNotification(side, c)' = OwesNotification(side, c)
      BY <3>3 DEF OwesNotification
    <3>5. \A t \in Thread : \A i : Heard(t, i)' <=> Heard(t, i)
      BY <3>1, <3>4 DEF Heard, Ready, Unheard, Registered
    <3>6. \A t \in Thread : ScanHears(t)' <=> ScanHears(t)
      BY <3>1, <3>2, <3>5 DEF ScanHears
    <3> QED
      BY <3>1, <3>2, <3>6 DEF Waits, GiveBackClosed
  <2>3. ASSUME NEW t \in Thread, Invoke(t) \/ NullCall(t)
        PROVE  Waits' /\ GiveBackClosed'
    BY <2>1, <2>3, InvokeWaits
  <2>4. ASSUME NEW t \in Thread, Step(t)
        PROVE  Waits' /\ GiveBackClosed'
    BY <2>1, <2>4, StepWaits, StepGiveBack
  <2> QED
    BY <2>2, <2>3, <2>4 DEF Next
<1> QED
  BY <1>1, <1>2, AlwaysSelects, PTL DEF Spec

\* If a select sleeps on its semaphore while an entry it registered could go
\* ahead, the thread that made it so has not run list_foreach yet: no wakeup is
\* lost between the scan that found nothing and the wait, whoever else
\* sends, receives, selects or closes meanwhile, and whichever registrations
\* of its own or of others failed (channel.c:153-162, 245-253, 466).
THEOREM NoWakeupIsLost == Spec => []NoLostWakeup
<1>1. SelectInv /\ Waits => NoLostWakeup
  <2> SUFFICES ASSUME SelectInv, Waits, NEW t \in Thread, pc[t] = "select_wait", local[t] = 0
               PROVE  \A i \in DOMAIN call[t].list : Heard(t, i)
    BY DEF NoLostWakeup, Heard
  <2>1. call[t].op = "select"
    BY PlacesOfOps DEF SelectInv, RightOp, SelectPc
  <2> QED
    BY <2>1 DEF Waits, ScanHears
<1> QED
  BY <1>1, AlwaysHeard, AlwaysSelects, PTL
-----------------------------------------------------------------------------
(* The caller's contract, kept through the calls                           *)

\* A thread that creates or destroys a channel has it for itself.
Alone ==
  \A t, u \in Thread : \A c \in Chan :
    t # u /\ InCall(t) /\ InCall(u) /\ call[t].op \in {"create", "destroy"}
      /\ Names(call[t], c) => ~Names(call[u], c)

\* The channels of a call are live, but for the one that is being created.
LiveCalls ==
  \A t \in Thread : InCall(t) =>
    \A i \in DOMAIN call[t].list :
      life[call[t].list[i].channel] = (IF pc[t] = "create" THEN "none" ELSE "live")

\* A channel that does not exist yet is empty.
EmptyBefore == \A c \in Chan : life[c] = "none" => buf[c] = <<>>

\* A channel is freed only after it was found closed.
FreesClosed == \A t \in Thread : pc[t] = "destroy_free" => closed[Ch(t)]

LEMMA StepContract ==
  ASSUME Typed, RightOp, Alone, LiveCalls, NEW t \in Thread, Step(t)
  PROVE  Alone' /\ LiveCalls'
<1>1. /\ InCall(t) /\ Frame(t) /\ UNCHANGED call /\ pc \in [Thread -> PcSet]
      /\ pc'[t] # "create" /\ (pc[t] = "create" => pc'[t] = "ready")
      /\ Ch(t) \in Chan /\ idx[t] \in DOMAIN call[t].list
  BY StepInCall, StepMoves, CreateMoves, CurrentEntry DEF Typed, TypeOK, ThreadTypeOK
<1>2. \A u \in Thread : InCall(u)' => InCall(u)
  BY <1>1 DEF Frame, InCall
<1>3. Alone'
  BY <1>1, <1>2 DEF Alone, Names
<1>4. ASSUME NEW u \in Thread, InCall(u)', NEW i \in DOMAIN call[u].list
      PROVE  life'[call[u].list[i].channel] = (IF pc'[u] = "create" THEN "none" ELSE "live")
  <2> DEFINE c == call[u].list[i].channel
  <2>1. /\ InCall(u) /\ c \in Chan
        /\ life[c] = (IF pc[u] = "create" THEN "none" ELSE "live")
        /\ pc'[u] = "create" <=> pc[u] = "create"
    <3>1. InCall(u)
      BY <1>2, <1>4
    <3>2. pc'[u] = "create" <=> pc[u] = "create"
      BY <1>1, <1>4 DEF Frame, InCall
    <3> QED
      BY <3>1, <3>2 DEF LiveCalls, Typed, TypeOK, ThreadTypeOK
  <2>2. CASE Create(t) \/ DestroyFree(t)
    <3>1. /\ pc'[t] = "ready" /\ pc[t] \in {"create", "destroy_free"}
          /\ \E d \in {"live", "dead"} : life' = [life EXCEPT ![Ch(t)] = d]
      BY <1>1, <2>2 DEF Create, DestroyFree, ReturnDirect, Goto, At
    <3>2. call[t].op \in {"create", "destroy"} /\ Names(call[t], Ch(t))
      BY <1>1, <3>1, PlacesOfOps DEF RightOp, DestroyPc, Names, Ch, Cur
    <3>3. u # t
      BY <1>4, <3>1 DEF InCall
    <3>4. ~Names(call[u], Ch(t))
      BY <1>1, <2>1, <3>2, <3>3 DEF Alone
    <3>5. c # Ch(t)
      BY <3>4 DEF Names
    <3>6. life'[c] = life[c]
      BY <2>1, <3>1, <3>5
    <3> QED
      BY <2>1, <3>6
  <2>3. CASE UNCHANGED life
    BY <2>1, <2>3
  <2> QED
    BY <2>2, <2>3, LifeMoves DEF CloseSet
<1>5. LiveCalls'
  BY <1>1, <1>4 DEF LiveCalls
<1> QED
  BY <1>3, <1>5

LEMMA InvokeContract ==
  ASSUME Typed, Alone, LiveCalls, NEW t \in Thread, Invoke(t) \/ NullCall(t)
  PROVE  Alone' /\ LiveCalls'
<1>1. /\ Frame(t) /\ UNCHANGED life /\ pc[t] = "ready"
      /\ pc \in [Thread -> PcSet] /\ call \in [Thread -> Call]
  BY InvokeMoves DEF chanVars, Typed, TypeOK, ThreadTypeOK
<1>2. CASE NullCall(t)
  BY <1>1, <1>2 DEF NullCall, Alone, LiveCalls, InCall
<1>3. CASE Invoke(t)
  <2>1. PICK r \in Menu[t] : Contract(r) /\ call' = [call EXCEPT ![t] = r] /\ pc' = [pc EXCEPT ![t] = StartPc[r.op]]
    BY <1>3 DEF Invoke, Goto
  <2>2. r.op \in Op
    BY MenuAssumption DEF WellFormed, Call
  <2>3. /\ call'[t] = r /\ pc'[t] = StartPc[r.op]
        /\ \A u \in Thread : u # t => call'[u] = call[u] /\ pc'[u] = pc[u]
        /\ pc'[t] = "create" <=> r.op = "create"
    BY <1>1, <2>1, <2>2 DEF Frame, StartPc, Op
  <2>4. ASSUME NEW u \in Thread, u # t, InCall(u), NEW c \in Chan, Names(r, c), Names(call[u], c)
        PROVE  r.op \notin {"create", "destroy"} /\ call[u].op \notin {"create", "destroy"}
    BY <2>1, <2>4 DEF Contract, Names
  <2>5. Alone'
    BY <2>3, <2>4 DEF Alone, InCall
  <2>6. \A i \in DOMAIN r.list : life[r.list[i].channel] = (IF r.op = "create" THEN "none" ELSE "live")
    BY <2>1 DEF Contract
  <2>7. LiveCalls'
    BY <1>1, <2>3, <2>6 DEF LiveCalls, InCall
  <2> QED
    BY <2>5, <2>7
<1> QED
  BY <1>2, <1>3

LEMMA StepEmpty ==
  ASSUME Typed, Lives, EmptyBefore, NEW t \in Thread, Step(t)
  PROVE  EmptyBefore'
<1> SUFFICES ASSUME NEW c \in Chan, life'[c] = "none"
             PROVE  buf'[c] = <<>>
  BY DEF EmptyBefore
<1>1. InCall(t) /\ Ch(t) \in Chan /\ ChanTypeOK /\ idx[t] \in DOMAIN call[t].list
  BY StepInCall, CurrentEntry DEF Typed, TypeOK
<1>2. life[c] = "none" /\ ~(Create(t) /\ c = Ch(t))
  BY <1>1, LifeMoves DEF ChanTypeOK, Create, DestroyFree, CloseSet
<1>3. CASE c # Ch(t)
  BY <1>2, <1>3, OtherChannels DEF EmptyBefore
<1>4. CASE c = Ch(t)
  <2>1. pc[t] = "create"
    BY <1>1, <1>2, <1>4 DEF Lives, Ch, Cur
  <2>2. CreateUnbuffered(t)
    BY <1>2, <1>4, <2>1 DEF Step, SendStep, RecvStep, CloseStep, SelectStep, LifeStep, At, SendTake,
      SendMiss, SendMissLock, SendMissReport, SendLock, SendClosed, SendGiveBack, SendAdd,
      SendPost, SendNotifyLock, SendNotify, RecvTake, RecvMiss, RecvMissLock, RecvMissOpen,
      RecvMissClosed, RecvLock, RecvClosed, RecvGiveBack, RecvRemove, RecvPost,
      RecvNotifyLock, RecvNotify, CloseLock, CloseAgain, CloseSet, ClosePostAvailable,
      ClosePostUsed, CloseSendLock, CloseSendNotify, CloseRecvLock, CloseRecvNotify, RegLock,
      RegInsert, SelectWake, UnregLock, UnregRemove, DestroyOpen, DestroyClosed, DestroyFree
  <2> QED
    BY <1>2, <2>2 DEF CreateUnbuffered, chanVars, EmptyBefore
<1> QED
  BY <1>3, <1>4

LEMMA StepFrees ==
  ASSUME Typed, Lives, FreesClosed, NEW t \in Thread, Step(t)
  PROVE  FreesClosed'
<1> SUFFICES ASSUME NEW u \in Thread, pc'[u] = "destroy_free"
             PROVE  closed'[Ch(u)']
  BY DEF FreesClosed
<1>1. /\ InCall(t) /\ Ch(t) \in Chan /\ Frame(t) /\ pc \in [Thread -> PcSet]
      /\ UNCHANGED call
  BY StepInCall, CurrentEntry, StepMoves, CreateMoves DEF Typed, TypeOK, ThreadTypeOK
<1>2. CASE u # t
  <2>1. pc[u] = "destroy_free" /\ Ch(u)' = Ch(u) /\ InCall(u)
    BY <1>1, <1>2 DEF Frame, Ch, Cur, InCall
  <2>2. Ch(u) \in Chan /\ closed[Ch(u)]
    BY <2>1, CurrentEntry DEF FreesClosed, Typed, TypeOK
  <2> QED
    BY <2>1, <2>2, ClosedStays
<1>3. CASE u = t
  <2>1. ASSUME NEW st, Return(t, st)
        PROVE  FALSE
    BY <1>1, <1>3, <2>1 DEF Return, ReturnDirect, SelectDecided, SelectNext, SelectNothing,
      Goto, TakePc
  <2> USE DEF At, Goto
  <2>2. ~SendStep(t)
    BY <1>1, <1>3, <2>1 DEF SendStep, SendTake, SendMiss, SendMissLock, SendMissReport,
      SendLock, SendClosed, SendGiveBack, SendAdd, SendPost, SendNotifyLock, SendNotify
  <2>3. ~RecvStep(t)
    BY <1>1, <1>3, <2>1 DEF RecvStep, RecvTake, RecvMiss, RecvMissLock, RecvMissOpen,
      RecvMissClosed, RecvLock, RecvClosed, RecvGiveBack, RecvRemove, RecvPost,
      RecvNotifyLock, RecvNotify
  <2>4. ~CloseStep(t)
    BY <1>1, <1>3 DEF CloseStep, ReturnDirect, CloseLock, CloseAgain, CloseSet,
      ClosePostAvailable, ClosePostUsed, CloseSendLock, CloseSendNotify, CloseRecvLock,
      CloseRecvNotify
  <2>5. ~SelectStep(t)
    BY <1>1, <1>3 DEF SelectStep, TakePc, RegLock, RegInsert, SelectWake, UnregLock,
      UnregRemove
  <2>6. LifeStep(t) => DestroyClosed(t)
    BY <1>1, <1>3 DEF LifeStep, ReturnDirect, Create, CreateUnbuffered, DestroyOpen,
      DestroyFree
  <2>7. DestroyClosed(t)
    BY <2>2, <2>3, <2>4, <2>5, <2>6 DEF Step
  <2> QED
    BY <1>1, <1>3, <2>7 DEF DestroyClosed, chanVars, callVars, Ch, Cur
<1> QED
  BY <1>2, <1>3

-----------------------------------------------------------------------------
(* What a caller can see of a thread                                       *)

MissedPc == {"send_miss_lock", "send_miss_cs", "recv_miss_lock", "recv_miss_cs"}
GivingPc == {"send_give_back", "recv_give_back"}
GrantedPc == {"send_lock", "send_cs", "recv_lock", "recv_cs"}
OwingPc == {"send_post", "recv_post"}
DonePc == {"send_notify_lock", "send_notify", "recv_notify_lock", "recv_notify",
           "close_post_available", "close_post_used", "close_send_lock",
           "close_send_notify", "close_recv_lock", "close_recv_notify"}
DecidedPc == GivingPc \cup DonePc \cup UnregisterPc
OpenPc == {"create", "destroy_check", "destroy_free", "send_take", "recv_take",
           "close_lock", "close_cs", "reg_lock", "reg_insert", "select_wait"}

\* The phase and the outcome of t, by where it is.
SeenAs(t) ==
  /\ pc[t] = "ready" => absPhase[t] = "idle" /\ absOutcome[t] = ret[t]
  /\ pc[t] \in OpenPc => absPhase[t] = "pending" /\ absOutcome[t] = NoOutcome
  /\ pc[t] \in MissedPc =>
       /\ absPhase[t] = (IF call[t].op = "select" THEN "pending" ELSE "refused")
       /\ absOutcome[t] = NoOutcome
  /\ pc[t] \in GrantedPc =>
       /\ absPhase[t] = "granted" /\ absOutcome[t] = [NoOutcome EXCEPT !.index = idx[t]]
  /\ pc[t] \in OwingPc =>
       /\ absPhase[t] = "owing"
       /\ absOutcome[t] = [ret[t] EXCEPT !.status = "SUCCESS", !.index = idx[t]]
  /\ pc[t] \in GivingPc =>
       /\ absPhase[t] = "decided"
       /\ absOutcome[t] = [ret[t] EXCEPT !.status = "CLOSED_ERROR", !.index = idx[t]]
  /\ pc[t] \in DonePc =>
       /\ absPhase[t] = "decided"
       /\ absOutcome[t] = [ret[t] EXCEPT !.status = "SUCCESS", !.index = idx[t]]
  /\ pc[t] \in UnregisterPc => absPhase[t] = "decided" /\ absOutcome[t] = ret[t]

LEMMA PhaseAt == \A t \in Thread : SeenAs(t)
<1> SUFFICES ASSUME NEW t \in Thread PROVE SeenAs(t)
  OBVIOUS
<1>1. absPhase[t] = CASE pc[t] = "ready" -> "idle"
      [] pc[t] \in MissedPc -> IF call[t].op = "select" THEN "pending" ELSE "refused"
      [] pc[t] \in GrantedPc -> "granted"
      [] pc[t] \in OwingPc -> "owing"
      [] pc[t] \in DecidedPc -> "decided"
      [] OTHER -> "pending"
  BY DEF absPhase, MissedPc, GrantedPc, OwingPc, GivingPc, DonePc, DecidedPc, UnregisterPc
<1>2. absOutcome[t] =
    CASE absPhase[t] \in {"pending", "refused"} -> NoOutcome
      [] absPhase[t] = "granted" -> [NoOutcome EXCEPT !.index = idx[t]]
      [] pc[t] \in GivingPc
           -> [ret[t] EXCEPT !.status = "CLOSED_ERROR", !.index = idx[t]]
      [] pc[t] = "ready" \/ pc[t] \in UnregisterPc -> ret[t]
      [] OTHER -> [ret[t] EXCEPT !.status = "SUCCESS", !.index = idx[t]]
  BY DEF absOutcome, GivingPc
<1>3. /\ "ready" \notin MissedPc \cup GrantedPc \cup OwingPc \cup GivingPc \cup DonePc \cup UnregisterPc
      /\ \A q \in MissedPc : q \notin GrantedPc \cup OwingPc \cup GivingPc \cup DonePc \cup UnregisterPc
      /\ \A q \in GrantedPc : q \notin OwingPc \cup GivingPc \cup DonePc \cup UnregisterPc
      /\ \A q \in OwingPc : q \notin GivingPc \cup DonePc \cup UnregisterPc
      /\ \A q \in GivingPc : q \notin DonePc \cup UnregisterPc
      /\ \A q \in DonePc : q \notin UnregisterPc
  BY DEF MissedPc, GrantedPc, OwingPc, GivingPc, DonePc, UnregisterPc
<1>4. \A q \in OpenPc : q # "ready" /\ q \notin MissedPc /\ q \notin GrantedPc /\ q \notin OwingPc
                        /\ q \notin GivingPc /\ q \notin DonePc /\ q \notin UnregisterPc
  BY DEF OpenPc, MissedPc, GrantedPc, OwingPc, GivingPc, DonePc, UnregisterPc
<1>5. pc[t] = "ready" => absPhase[t] = "idle" /\ absOutcome[t] = ret[t]
  <2> HAVE pc[t] = "ready"
  <2>1. /\ pc[t] \notin MissedPc /\ pc[t] \notin GrantedPc /\ pc[t] \notin OwingPc
        /\ pc[t] \notin GivingPc /\ pc[t] \notin DonePc /\ pc[t] \notin UnregisterPc
    BY <1>3
  <2>2. absPhase[t] = "idle"
    BY <1>1, <2>1 DEF DecidedPc
  <2>3. absPhase[t] \notin {"pending", "refused"} /\ absPhase[t] # "granted"
    BY <2>2
  <2> QED
    BY <1>2, <2>1, <2>2, <2>3
<1>6. pc[t] \in OpenPc => absPhase[t] = "pending" /\ absOutcome[t] = NoOutcome
  <2> HAVE pc[t] \in OpenPc
  <2>1. /\ pc[t] # "ready"
        /\ pc[t] \notin MissedPc /\ pc[t] \notin GrantedPc /\ pc[t] \notin OwingPc
        /\ pc[t] \notin GivingPc /\ pc[t] \notin DonePc /\ pc[t] \notin UnregisterPc
    BY <1>4
  <2>2. absPhase[t] = "pending"
    BY <1>1, <2>1 DEF DecidedPc
  <2>3. absPhase[t] \in {"pending", "refused"} /\ absPhase[t] # "granted"
    BY <2>2
  <2> QED
    BY <1>2, <2>1, <2>2, <2>3
<1>7. pc[t] \in MissedPc =>
        /\ absPhase[t] = (IF call[t].op = "select" THEN "pending" ELSE "refused")
        /\ absOutcome[t] = NoOutcome
  <2> HAVE pc[t] \in MissedPc
  <2>1. /\ pc[t] # "ready" /\ pc[t] \notin GrantedPc /\ pc[t] \notin OwingPc
        /\ pc[t] \notin GivingPc /\ pc[t] \notin DonePc /\ pc[t] \notin UnregisterPc
    BY <1>3
  <2>2. absPhase[t] = (IF call[t].op = "select" THEN "pending" ELSE "refused")
    BY <1>1, <2>1 DEF DecidedPc
  <2>3. absPhase[t] \in {"pending", "refused"} /\ absPhase[t] # "granted"
    BY <2>2
  <2> QED
    BY <1>2, <2>1, <2>2, <2>3
<1>8. pc[t] \in GrantedPc =>
        absPhase[t] = "granted" /\ absOutcome[t] = [NoOutcome EXCEPT !.index = idx[t]]
  <2> HAVE pc[t] \in GrantedPc
  <2>1. /\ pc[t] # "ready" /\ pc[t] \notin MissedPc /\ pc[t] \notin OwingPc
        /\ pc[t] \notin GivingPc /\ pc[t] \notin DonePc /\ pc[t] \notin UnregisterPc
    BY <1>3
  <2>2. absPhase[t] = "granted"
    BY <1>1, <2>1 DEF DecidedPc
  <2>3. absPhase[t] \notin {"pending", "refused"}
    BY <2>2
  <2> QED
    BY <1>2, <2>1, <2>2, <2>3
<1>9. pc[t] \in OwingPc =>
         /\ absPhase[t] = "owing"
         /\ absOutcome[t] = [ret[t] EXCEPT !.status = "SUCCESS", !.index = idx[t]]
  <2> HAVE pc[t] \in OwingPc
  <2>1. /\ pc[t] # "ready" /\ pc[t] \notin MissedPc /\ pc[t] \notin GrantedPc
        /\ pc[t] \notin GivingPc /\ pc[t] \notin DonePc /\ pc[t] \notin UnregisterPc
    BY <1>3
  <2>2. absPhase[t] = "owing"
    BY <1>1, <2>1 DEF DecidedPc
  <2>3. absPhase[t] \notin {"pending", "refused"} /\ absPhase[t] # "granted"
    BY <2>2
  <2> QED
    BY <1>2, <2>1, <2>2, <2>3
<1>10. pc[t] \in DecidedPc =>
         /\ absPhase[t] = "decided" /\ absPhase[t] # "granted"
         /\ absPhase[t] \notin {"pending", "refused"}
  <2> HAVE pc[t] \in DecidedPc
  <2>1. /\ pc[t] # "ready" /\ pc[t] \notin MissedPc /\ pc[t] \notin GrantedPc
        /\ pc[t] \notin OwingPc
    BY <1>3 DEF DecidedPc
  <2>2. absPhase[t] = "decided"
    BY <1>1, <2>1
  <2> QED
    BY <2>2
<1>11. pc[t] \in GivingPc =>
         absOutcome[t] = [ret[t] EXCEPT !.status = "CLOSED_ERROR", !.index = idx[t]]
  <2> HAVE pc[t] \in GivingPc
  <2>1. pc[t] \in DecidedPc /\ pc[t] # "ready" /\ pc[t] \notin UnregisterPc
    BY <1>3 DEF DecidedPc
  <2> QED
    BY <1>2, <1>10, <2>1
<1>12. pc[t] \in DonePc =>
         absOutcome[t] = [ret[t] EXCEPT !.status = "SUCCESS", !.index = idx[t]]
  <2> HAVE pc[t] \in DonePc
  <2>1. /\ pc[t] \in DecidedPc /\ pc[t] # "ready"
        /\ pc[t] \notin GivingPc /\ pc[t] \notin UnregisterPc
    BY <1>3 DEF DecidedPc
  <2> QED
    BY <1>2, <1>10, <2>1
<1>13. pc[t] \in UnregisterPc => absOutcome[t] = ret[t]
  <2> HAVE pc[t] \in UnregisterPc
  <2>1. pc[t] \in DecidedPc /\ pc[t] \notin GivingPc
    BY <1>3 DEF DecidedPc
  <2> QED
    BY <1>2, <1>10, <2>1
<1> QED
  BY <1>5, <1>6, <1>7, <1>8, <1>9, <1>10, <1>11, <1>12, <1>13 DEF SeenAs, DecidedPc

LEMMA PhaseNext == (\A t \in Thread : SeenAs(t))'
BY PhaseAt, PTL

\* A call that is not decided has stored nothing for its caller.
UndecidedPc == OpenPc \cup MissedPc \cup GrantedPc
NothingStored == \A t \in Thread : pc[t] \in UndecidedPc => ret[t] = NoOutcome

\* Only t's own outcome changes, and none while its call is undecided.
LEMMA StepRet ==
  ASSUME Typed, NEW t \in Thread, Step(t)
  PROVE  /\ \A u \in Thread \ {t} : ret'[u] = ret[u]
         /\ pc'[t] \in UndecidedPc => pc[t] \in UndecidedPc /\ ret'[t] = ret[t]
<1>1. pc \in [Thread -> PcSet] /\ ret \in [Thread -> Outcome]
  BY DEF Typed, TypeOK, ThreadTypeOK
<1> USE DEF At, Goto, UndecidedPc, OpenPc, MissedPc, GrantedPc, OwingPc, GivingPc, DonePc,
  DecidedPc, UnregisterPc, StoreStatus
<1>2. ASSUME NEW st, Return(t, st)
      PROVE  /\ \A u \in Thread \ {t} : ret'[u] = ret[u]
             /\ pc'[t] \in UndecidedPc => ret'[t] = ret[t] /\ st = "WOULDBLOCK"
  BY <1>1, <1>2 DEF Return, ReturnDirect, SelectDecided, SelectNext, SelectNothing
<1>3. CASE SendStep(t)
  <2>1. CASE SendTake(t) \/ SendMiss(t) \/ SendMissLock(t) \/ SendLock(t) \/ SendClosed(t)
               \/ SendPost(t) \/ SendNotifyLock(t)
    BY <1>1, <2>1 DEF PcSet, SendTake, SendMiss, SendMissLock, SendLock, SendClosed, SendPost,
      SendNotifyLock
  <2>2. CASE SendMissReport(t) \/ SendGiveBack(t) \/ SendNotify(t)
    BY <1>1, <1>2, <2>2 DEF PcSet, SendMissReport, SendGiveBack, SendNotify
  <2>3. CASE SendAdd(t)
    BY <1>1, <1>2, <2>3 DEF SendAdd
  <2> QED
    BY <1>3, <2>1, <2>2, <2>3 DEF SendStep
<1>4. CASE RecvStep(t)
  <2>1. CASE RecvTake(t) \/ RecvMiss(t) \/ RecvMissLock(t) \/ RecvMissClosed(t)
               \/ RecvLock(t) \/ RecvClosed(t) \/ RecvPost(t) \/ RecvNotifyLock(t)
    BY <1>1, <2>1 DEF PcSet, RecvTake, RecvMiss, RecvMissLock, RecvMissClosed, RecvLock,
      RecvClosed, RecvPost, RecvNotifyLock
  <2>2. CASE RecvMissOpen(t) \/ RecvGiveBack(t) \/ RecvNotify(t)
    BY <1>1, <1>2, <2>2 DEF PcSet, RecvMissOpen, RecvGiveBack, RecvNotify
  <2>3. CASE RecvRemove(t)
    BY <1>1, <1>2, <2>3 DEF RecvRemove
  <2> QED
    BY <1>4, <2>1, <2>2, <2>3 DEF RecvStep
<1>5. CASE CloseStep(t)
  BY <1>1, <1>5 DEF PcSet, CloseStep, ReturnDirect, CloseLock, CloseAgain, CloseSet,
    ClosePostAvailable, ClosePostUsed, CloseSendLock, CloseSendNotify, CloseRecvLock,
    CloseRecvNotify
<1>6. CASE SelectStep(t)
  BY <1>1, <1>6 DEF PcSet, SelectStep, TakePc, RegLock, RegInsert, SelectWake, UnregLock,
    UnregRemove
<1>7. CASE LifeStep(t)
  BY <1>1, <1>7 DEF PcSet, LifeStep, ReturnDirect, Create, CreateUnbuffered, DestroyOpen,
    DestroyClosed, DestroyFree
<1> QED
  BY <1>3, <1>4, <1>5, <1>6, <1>7 DEF Step

LEMMA StepStored ==
  ASSUME Typed, NothingStored, NEW t \in Thread, Step(t)
  PROVE  NothingStored'
<1>1. Frame(t)
  BY StepMoves
<1> QED
  BY <1>1, StepRet DEF NothingStored, Frame

\* absOutcome of a thread with that phase, place, entry and stored outcome.
OutcomeOf(ph, q, i, r) ==
  CASE ph \in {"pending", "refused"} -> NoOutcome
    [] ph = "granted" -> [NoOutcome EXCEPT !.index = i]
    [] q \in {"send_give_back", "recv_give_back"}
         -> [r EXCEPT !.status = "CLOSED_ERROR", !.index = i]
    [] q = "ready" \/ q \in UnregisterPc -> r
    [] OTHER -> [r EXCEPT !.status = "SUCCESS", !.index = i]

\* What a caller can see of the other threads stays as it is.
LEMMA OthersSeen ==
  ASSUME NEW t \in Thread, Frame(t), \A u \in Thread \ {t} : ret'[u] = ret[u]
  PROVE  /\ absPhase' = [absPhase EXCEPT ![t] = absPhase'[t]]
         /\ absOutcome' = [absOutcome EXCEPT ![t] = absOutcome'[t]]
<1>1. \A u \in Thread \ {t} : absPhase'[u] = absPhase[u]
  BY DEF absPhase, Frame
<1>2. ASSUME NEW u \in Thread \ {t}
      PROVE  absOutcome'[u] = absOutcome[u]
  <2>1. /\ pc'[u] = pc[u] /\ idx'[u] = idx[u] /\ ret'[u] = ret[u]
        /\ absPhase'[u] = absPhase[u]
    BY <1>1 DEF Frame
  <2>2. /\ absOutcome[u] = OutcomeOf(absPhase[u], pc[u], idx[u], ret[u])
        /\ absOutcome'[u] = OutcomeOf(absPhase'[u], pc'[u], idx'[u], ret'[u])
    BY DEF absOutcome, OutcomeOf
  <2> QED
    BY <2>1, <2>2
<1>3. DOMAIN absPhase = Thread /\ DOMAIN absPhase' = Thread
      /\ absPhase = [u \in Thread |-> absPhase[u]] /\ absPhase' = [u \in Thread |-> absPhase'[u]]
  BY DEF absPhase
<1>4. DOMAIN absOutcome = Thread /\ DOMAIN absOutcome' = Thread
      /\ absOutcome = [u \in Thread |-> absOutcome[u]]
      /\ absOutcome' = [u \in Thread |-> absOutcome'[u]]
  BY DEF absOutcome
<1> QED
  BY <1>1, <1>2, <1>3, <1>4

LEMMA Decides ==
  ASSUME NEW t \in Thread, NEW st, NEW i, NEW d, Frame(t),
         \A u \in Thread \ {t} : ret'[u] = ret[u], UNCHANGED callVars,
         absPhase'[t] \in {"decided", "idle"},
         absOutcome'[t] = [status |-> st, index |-> i, data |-> d]
  PROVE  Abs!Decide(t, st, i, d)
BY OthersSeen DEF Abs!Decide, callVars

LEMMA SameSeen ==
  ASSUME NEW t \in Thread
  PROVE  /\ absPhase = [absPhase EXCEPT ![t] = absPhase[t]]
         /\ absOutcome = [absOutcome EXCEPT ![t] = absOutcome[t]]
<1>1. absPhase = [u \in Thread |-> absPhase[u]]
  BY DEF absPhase
<1>2. absOutcome = [u \in Thread |-> absOutcome[u]]
  BY DEF absOutcome
<1> HIDE DEF absPhase, absOutcome
<1> QED
  BY <1>1, <1>2

LEMMA NothingSeen ==
  ASSUME NEW t \in Thread, Frame(t), \A u \in Thread \ {t} : ret'[u] = ret[u],
         UNCHANGED <<life, closed, buf, call, calls>>,
         absPhase'[t] = absPhase[t], absOutcome'[t] = absOutcome[t]
  PROVE  UNCHANGED Abs!absVars
BY SameSeen, OthersSeen DEF Abs!absVars

-----------------------------------------------------------------------------
(* Steps of the code as steps of the atomic queues                         *)

\* What holds of the channels in every state, if no message is BUFFER_EMPTY.
RefInv ==
  /\ ChannelInv /\ RightOp /\ PermitsConserved /\ DominoAlive
  /\ Alone /\ LiveCalls /\ EmptyBefore /\ FreesClosed /\ NothingStored /\ GiveBackClosed

LEMMA StepSeen ==
  ASSUME RefInv, NEW t \in Thread, Step(t)
  PROVE  /\ InCall(t) /\ Frame(t) /\ \A u \in Thread \ {t} : ret'[u] = ret[u]
         /\ UNCHANGED call /\ SeenAs(t) /\ SeenAs(t)'
         /\ pc \in [Thread -> PcSet] /\ ret \in [Thread -> Outcome]
         /\ idx \in [Thread -> Nat \ {0}] /\ idx[t] \in DOMAIN call[t].list
         /\ DOMAIN call[t].list = 1..Len(call[t].list)
         /\ Ch(t) \in Chan /\ ChanTypeOK
         /\ call[t].op \in OpAt(pc[t])
         /\ call[t].op # "select" => idx[t] = 1 /\ Len(call[t].list) = 1
         /\ pc[t] \in UndecidedPc => ret[t] = NoOutcome
<1>1. Typed /\ RightOp /\ NothingStored
  BY DEF RefInv, ChannelInv
<1>2. InCall(t)
  BY StepInCall
<1>3. SeenAs(t) /\ SeenAs(t)'
  BY PhaseAt, PhaseNext
<1>4. call[t].op # "select" => idx[t] = 1 /\ Len(call[t].list) = 1
  BY <1>1, <1>2, CurrentEntry DEF Typed, TypeOK, WellFormed
<1> QED
  BY <1>1, <1>2, <1>3, <1>4, StepMoves, StepRet, CreateMoves, CurrentEntry
  DEF Typed, TypeOK, ThreadTypeOK, RightOp, NothingStored

\* Taking locks, the posts of a close, notifying, registering and waking.
LEMMA PassingSteps ==
  ASSUME RefInv, NEW t \in Thread, Step(t),
         \/ SendMissLock(t) \/ SendLock(t) \/ SendNotifyLock(t)
         \/ RecvMissLock(t) \/ RecvLock(t) \/ RecvNotifyLock(t)
         \/ CloseLock(t) \/ ClosePostAvailable(t) \/ ClosePostUsed(t) \/ CloseSendLock(t)
         \/ CloseSendNotify(t) \/ CloseRecvLock(t)
         \/ RegLock(t) \/ RegInsert(t) \/ SelectWake(t) \/ UnregLock(t) \/ DestroyClosed(t)
  PROVE  UNCHANGED Abs!absVars
<1>1. /\ InCall(t) /\ Frame(t) /\ \A u \in Thread \ {t} : ret'[u] = ret[u]
      /\ UNCHANGED call /\ SeenAs(t) /\ SeenAs(t)' /\ pc \in [Thread -> PcSet]
  BY StepSeen
<1>2. UNCHANGED <<life, closed, buf, call, calls, ret>>
  BY DEF chanVars, listVars, callVars, SendMissLock, SendLock, SendNotifyLock, RecvMissLock, RecvLock,
    RecvNotifyLock, CloseLock, ClosePostAvailable, ClosePostUsed, CloseSendLock,
    CloseSendNotify, CloseRecvLock, RegLock, RegInsert, SelectWake, UnregLock, DestroyClosed
<1>3. \/ pc[t] \in OpenPc /\ pc'[t] \in OpenPc
      \/ pc[t] \in MissedPc /\ pc'[t] \in MissedPc
      \/ pc[t] \in GrantedPc /\ pc'[t] \in GrantedPc /\ UNCHANGED idx
      \/ pc[t] \in DonePc /\ pc'[t] \in DonePc /\ UNCHANGED idx
      \/ pc[t] \in UnregisterPc /\ pc'[t] \in UnregisterPc
  BY <1>1 DEF At, Goto, TakePc, OpenPc, MissedPc, GrantedPc, OwingPc, DonePc, UnregisterPc, SendMissLock, SendLock, SendNotifyLock, RecvMissLock, RecvLock,
    RecvNotifyLock, CloseLock, ClosePostAvailable, ClosePostUsed, CloseSendLock,
    CloseSendNotify, CloseRecvLock, RegLock, RegInsert, SelectWake, UnregLock, DestroyClosed
<1>4. absPhase'[t] = absPhase[t] /\ absOutcome'[t] = absOutcome[t]
  BY <1>1, <1>2, <1>3 DEF SeenAs
<1> QED
  BY <1>1, <1>2, <1>4, NothingSeen

\* The stored outcome r with a status and an index stored over it.
Stored(r, st, i) == [r EXCEPT !.status = st, !.index = i]

LEMMA StoredOver ==
  ASSUME NEW d, NEW r, r = [status |-> "none", index |-> 1, data |-> d], NEW st, NEW i
  PROVE  Stored(r, st, i) = [status |-> st, index |-> i, data |-> d]
<1>1. [r EXCEPT !.status = st] = [status |-> st, index |-> 1, data |-> d]
  OBVIOUS
<1> DEFINE q == [r EXCEPT !.status = st]
<1>2. Stored(r, st, i) = [q EXCEPT !.index = i]
  BY DEF Stored
<1> HIDE DEF q
<1>3. ASSUME NEW w, w = [status |-> st, index |-> 1, data |-> d]
      PROVE  [w EXCEPT !.index = i] = [status |-> st, index |-> i, data |-> d]
  BY <1>3
<1> QED
  BY <1>1, <1>2, <1>3 DEF q

LEMMA FirstStored ==
  ASSUME NEW r, r = NoOutcome, NEW st, NEW i
  PROVE  Stored(r, st, i) = [status |-> st, index |-> i, data |-> NoMsg]
BY StoredOver DEF NoOutcome

LEMMA DataStored ==
  ASSUME NEW r, r = NoOutcome, NEW d
  PROVE  [r EXCEPT !.data = d] = [status |-> "none", index |-> 1, data |-> d]
BY DEF NoOutcome

\* What a return shows: the outcome of a call, unless a select goes on.
LEMMA ReturnSeen ==
  ASSUME RefInv, NEW t \in Thread, Step(t), NEW st, Return(t, st)
  PROVE  \/ /\ call[t].op = "select" /\ st = "WOULDBLOCK" /\ UNCHANGED ret
            /\ absPhase'[t] = "pending" /\ absOutcome'[t] = NoOutcome
         \/ /\ \/ call[t].op # "select" /\ absPhase'[t] = "idle"
               \/ call[t].op = "select" /\ absPhase'[t] = "decided"
            /\ absOutcome'[t] = Stored(ret[t], st, idx[t])
<1>1. /\ SeenAs(t)' /\ pc \in [Thread -> PcSet] /\ ret \in [Thread -> Outcome]
  BY StepSeen
<1>2. CASE ReturnDirect(t, st)
  <2>1. /\ call[t].op # "select" /\ pc'[t] = "ready"
        /\ ret'[t] = Stored(ret[t], st, idx[t])
    BY <1>1, <1>2 DEF ReturnDirect, StoreStatus, Stored, Goto
  <2> QED
    BY <1>1, <2>1 DEF SeenAs
<1>3. CASE SelectDecided(t, st)
  <2>1. /\ call[t].op = "select" /\ pc'[t] \in UnregisterPc
        /\ ret'[t] = Stored(ret[t], st, idx[t])
    BY <1>1, <1>3 DEF SelectDecided, StoreStatus, Stored, Goto, UnregisterPc
  <2> QED
    BY <1>1, <2>1 DEF SeenAs
<1>4. CASE SelectNext(t, st) \/ SelectNothing(t, st)
  <2>1. call[t].op = "select" /\ st = "WOULDBLOCK" /\ UNCHANGED ret /\ pc'[t] \in OpenPc
    BY <1>1, <1>4 DEF SelectNext, SelectNothing, Goto, TakePc, OpenPc
  <2> QED
    BY <1>1, <2>1 DEF SeenAs
<1> QED
  BY <1>2, <1>3, <1>4 DEF Return

\* The return of a call that was decided before.
LEMMA EndingSteps ==
  ASSUME RefInv, NEW t \in Thread, Step(t),
         \/ SendGiveBack(t) \/ SendNotify(t) \/ RecvGiveBack(t) \/ RecvNotify(t)
         \/ CloseRecvNotify(t) \/ UnregRemove(t)
  PROVE  Abs!End(t) \/ UNCHANGED Abs!absVars
<1>1. /\ InCall(t) /\ Frame(t) /\ \A u \in Thread \ {t} : ret'[u] = ret[u]
      /\ SeenAs(t) /\ SeenAs(t)' /\ pc \in [Thread -> PcSet]
  BY StepSeen
<1>2. UNCHANGED <<life, closed, buf, call, calls>>
  BY DEF chanVars, callVars, SendGiveBack, SendNotify, RecvGiveBack, RecvNotify,
    CloseRecvNotify, UnregRemove
<1>3. /\ absPhase[t] = "decided" /\ absPhase'[t] \in {"decided", "idle"}
      /\ absOutcome'[t] = absOutcome[t]
  <2>1. CASE UnregRemove(t)
    <3>1. pc[t] \in UnregisterPc /\ pc'[t] \in UnregisterPc \cup {"ready"} /\ UNCHANGED ret
      BY <1>1, <2>1 DEF UnregRemove, At, Goto, UnregisterPc
    <3> QED
      BY <1>1, <3>1 DEF SeenAs
  <2>2. CASE SendGiveBack(t) \/ RecvGiveBack(t)
    <3>1. pc[t] \in GivingPc /\ Return(t, "CLOSED_ERROR")
      BY <2>2 DEF SendGiveBack, RecvGiveBack, At, GivingPc
    <3>2. absPhase[t] = "decided" /\ absOutcome[t] = Stored(ret[t], "CLOSED_ERROR", idx[t])
      BY <1>1, <3>1 DEF SeenAs, Stored
    <3> QED
      BY <3>1, <3>2, ReturnSeen
  <2>3. CASE SendNotify(t) \/ RecvNotify(t) \/ CloseRecvNotify(t)
    <3>1. pc[t] \in DonePc /\ Return(t, "SUCCESS")
      BY <2>3 DEF SendNotify, RecvNotify, CloseRecvNotify, Return, At, DonePc
    <3>2. absPhase[t] = "decided" /\ absOutcome[t] = Stored(ret[t], "SUCCESS", idx[t])
      BY <1>1, <3>1 DEF SeenAs, Stored
    <3> QED
      BY <3>1, <3>2, ReturnSeen
  <2> QED
    BY <2>1, <2>2, <2>3
<1>4. CASE absPhase'[t] = "decided"
  BY <1>1, <1>2, <1>3, <1>4, NothingSeen
<1>5. CASE absPhase'[t] = "idle"
  <2>1. absOutcome' = absOutcome /\ absPhase' = [absPhase EXCEPT ![t] = "idle"]
    BY <1>1, <1>3, <1>5, SameSeen, OthersSeen
  <2> QED
    BY <1>2, <1>3, <2>1 DEF Abs!End, Abs!channels
<1> QED
  BY <1>3, <1>4, <1>5

\* The callers' threads are busy exactly while they are in a call.
LEMMA BusyMeans ==
  ASSUME ThreadTypeOK, NEW u \in Thread
  PROVE  /\ absPhase[u] = "idle" <=> ~InCall(u)
         /\ \A c : Abs!Busy(u, c) <=> InCall(u) /\ Names(call[u], c)
<1>1. pc[u] \in PcSet /\ SeenAs(u)
  BY PhaseAt DEF ThreadTypeOK
<1>2. pc[u] \in {"ready"} \cup OpenPc \cup MissedPc \cup GrantedPc \cup OwingPc \cup DecidedPc
  BY <1>1 DEF PcSet, OpenPc, MissedPc, GrantedPc, OwingPc, GivingPc, DonePc, UnregisterPc, DecidedPc
<1>3. absPhase[u] = "idle" <=> pc[u] = "ready"
  BY <1>1, <1>2 DEF SeenAs, DecidedPc, OpenPc, MissedPc, GrantedPc, OwingPc, GivingPc, DonePc,
    UnregisterPc
<1> QED
  BY <1>3 DEF InCall, Abs!Busy, Names, Abs!Names

\* The entry a call was let in on is the one its thread works on.
LEMMA ServedIs ==
  ASSUME ThreadTypeOK, NEW u \in Thread, pc[u] \in GrantedPc \cup OwingPc
  PROVE  Abs!Served(u) = Cur(u) /\ absPhase[u] = (IF pc[u] \in GrantedPc THEN "granted" ELSE "owing")
<1>1. SeenAs(u) /\ ret[u] \in Outcome
  BY PhaseAt DEF ThreadTypeOK
<1>2. \A q \in OwingPc : q \notin GrantedPc
  BY DEF GrantedPc, OwingPc
<1>3. absOutcome[u].index = idx[u]
  BY <1>1 DEF SeenAs, NoOutcome, Outcome
<1> QED
  BY <1>1, <1>2, <1>3 DEF SeenAs, Abs!Served, Cur

\* Whoever holds a place of an open channel has a permit to add or owes one, and
\* whoever holds a message has a permit to remove or owes one.
LEMMA HoldersAre ==
  ASSUME RefInv, NEW c \in Chan, ~closed[c]
  PROVE  /\ {u \in Thread : Abs!HoldsPlace(u) /\ Abs!Served(u).channel = c} = AtCh(RoomPc, c)
         /\ {u \in Thread : Abs!HoldsMessage(u) /\ Abs!Served(u).channel = c} = AtCh(MessagePc, c)
<1>1. ThreadTypeOK /\ EntryMatches /\ GiveBackClosed
  BY DEF RefInv, ChannelInv, Typed, TypeOK
<1>2. ASSUME NEW u \in Thread
      PROVE  /\ Abs!HoldsPlace(u) /\ Abs!Served(u).channel = c <=> pc[u] \in RoomPc /\ Ch(u) = c
             /\ Abs!HoldsMessage(u) /\ Abs!Served(u).channel = c <=> pc[u] \in MessagePc /\ Ch(u) = c
  <2>1. pc[u] \in PcSet /\ SeenAs(u)
    BY <1>1, PhaseAt DEF ThreadTypeOK
  <2>2. CASE pc[u] \in GrantedPc \cup OwingPc
    <3>1. /\ Abs!Served(u) = Cur(u)
          /\ absPhase[u] = (IF pc[u] \in GrantedPc THEN "granted" ELSE "owing")
      BY <1>1, <2>2, ServedIs
    <3>2. Cur(u).is_send <=> pc[u] \in {"send_lock", "send_cs", "send_post"}
      BY <1>1, <2>2 DEF EntryMatches, SendPc, RecvPc, GrantedPc, OwingPc
    <3>3. /\ pc[u] \in RoomPc <=> pc[u] \in {"send_lock", "send_cs", "recv_post"}
          /\ pc[u] \in MessagePc <=> pc[u] \in {"recv_lock", "recv_cs", "send_post"}
      BY <2>2 DEF RoomPc, MessagePc, GrantedPc, OwingPc
    <3>4. Ch(u) = Cur(u).channel
      BY DEF Ch
    <3>5. Abs!HoldsPlace(u) <=> pc[u] \in RoomPc
      BY <2>2, <3>1, <3>2, <3>3 DEF Abs!HoldsPlace, GrantedPc, OwingPc
    <3>6. Abs!HoldsMessage(u) <=> pc[u] \in MessagePc
      BY <2>2, <3>1, <3>2, <3>3 DEF Abs!HoldsMessage, GrantedPc, OwingPc
    <3> QED
      BY <3>1, <3>4, <3>5, <3>6
  <2>3. CASE pc[u] \notin GrantedPc \cup OwingPc
    <3>1. absPhase[u] \notin {"granted", "owing"}
      BY <2>1, <2>3 DEF SeenAs, PcSet, OpenPc, MissedPc, GrantedPc, OwingPc, GivingPc, DonePc,
        UnregisterPc
    <3>2. pc[u] \notin MessagePc /\ (pc[u] \in RoomPc => pc[u] = "send_give_back")
      BY <2>3 DEF RoomPc, MessagePc, GrantedPc, OwingPc
    <3>3. ~(pc[u] \in RoomPc /\ Ch(u) = c)
      BY <1>1, <3>2 DEF GiveBackClosed
    <3> QED
      BY <3>1, <3>2, <3>3 DEF Abs!HoldsPlace, Abs!HoldsMessage
  <2> QED
    BY <2>2, <2>3
<1> QED
  BY <1>2 DEF AtCh

\* A semaphore of an open channel is down exactly when every place, or every
\* message, is in somebody's hands.
LEMMA PermitsLeft ==
  ASSUME RefInv, NEW t \in Thread, InCall(t), pc[t] # "create", ~closed[Ch(t)]
  PROVE  /\ ~(available[Ch(t)] > 0) <=> Abs!NoPlace(Ch(t))
         /\ ~(used[Ch(t)] > 0) <=> Abs!NoMessage(Ch(t))
<1> DEFINE c == Ch(t)
<1>1. ThreadTypeOK /\ ChanTypeOK /\ c \in Chan /\ life[c] = "live"
  BY CurrentEntry DEF RefInv, ChannelInv, Typed, TypeOK, LiveCalls, Ch, Cur
<1>2. /\ available[c] \in Nat /\ used[c] \in Nat /\ Cap[c] \in Nat /\ Len(buf[c]) \in Nat
  BY <1>1, CapAssumption, LenProperties DEF ChanTypeOK
<1>3. /\ Cardinality(AtCh(RoomPc, c)) \in Nat /\ Cardinality(AtCh(MessagePc, c)) \in Nat
  BY CountIsNat DEF N
<1>4. /\ available[c] + Cardinality(AtCh(RoomPc, c)) + Len(buf[c]) = Cap[c]
      /\ used[c] + Cardinality(AtCh(MessagePc, c)) = Len(buf[c])
  BY <1>1 DEF RefInv, PermitsConserved
<1>5. /\ Abs!NoPlace(c) <=> Len(buf[c]) + Cardinality(AtCh(RoomPc, c)) = Cap[c]
      /\ Abs!NoMessage(c) <=> Len(buf[c]) = Cardinality(AtCh(MessagePc, c))
  BY <1>1, HoldersAre DEF Abs!NoPlace, Abs!NoMessage, Abs!Cardinality, Cardinality
<1>6. available[c] = 0 <=> Len(buf[c]) + Cardinality(AtCh(RoomPc, c)) = Cap[c]
  BY <1>2, <1>3, <1>4
<1>7. used[c] = 0 <=> Len(buf[c]) = Cardinality(AtCh(MessagePc, c))
  BY <1>2, <1>3, <1>4
<1> QED
  BY <1>2, <1>5, <1>6, <1>7

\* A wait, or a trywait that succeeds, lets the call in.
LEMMA TakeSteps ==
  ASSUME RefInv, NEW t \in Thread, Step(t), SendTake(t) \/ RecvTake(t)
  PROVE  Abs!Grant(t, idx[t])
<1>1. /\ InCall(t) /\ Frame(t) /\ \A u \in Thread \ {t} : ret'[u] = ret[u]
      /\ SeenAs(t) /\ SeenAs(t)' /\ pc \in [Thread -> PcSet] /\ Ch(t) \in Chan
      /\ call[t].op \in OpAt(pc[t])
  BY StepSeen
<1>2. /\ UNCHANGED <<life, closed, buf, call, calls, idx>>
      /\ pc[t] \in {"send_take", "recv_take"} /\ pc'[t] \in GrantedPc
      /\ pc[t] = "send_take" => available[Ch(t)] > 0
      /\ pc[t] = "recv_take" => used[Ch(t)] > 0
  BY <1>1 DEF callVars, SendTake, RecvTake, At, Goto, Wait, GrantedPc
<1>3. /\ absPhase[t] = "pending" /\ absOutcome[t] = NoOutcome
      /\ absPhase'[t] = "granted" /\ absOutcome'[t] = [NoOutcome EXCEPT !.index = idx[t]]
  BY <1>1, <1>2 DEF SeenAs, OpenPc
<1>4. /\ absPhase' = [absPhase EXCEPT ![t] = "granted"]
      /\ absOutcome' = [absOutcome EXCEPT ![t].index = idx[t]]
  <2>1. absOutcome' = [absOutcome EXCEPT ![t] = [NoOutcome EXCEPT !.index = idx[t]]]
    BY <1>1, <1>3, OthersSeen
  <2>2. absPhase' = [absPhase EXCEPT ![t] = "granted"]
    BY <1>1, <1>3, OthersSeen
  <2> HIDE DEF absOutcome, absPhase
  <2> QED
    BY <1>3, <2>1, <2>2
<1>5. /\ call[t].op \in {"send", "recv", "select"}
      /\ Cur(t).is_send <=> pc[t] = "send_take"
  BY <1>1, <1>2, PlacesOfOps DEF RefInv, ChannelInv, Typed, EntryMatches, SendPc, RecvPc
<1>6. closed[Ch(t)] \/ ~Abs!NothingFor(Cur(t))
  BY <1>1, <1>2, <1>5, PermitsLeft DEF Abs!NothingFor, Ch
<1> QED
  BY <1>2, <1>3, <1>4, <1>5, <1>6 DEF Abs!Grant, Abs!channels, Cur, Ch

\* The post of the other semaphore hands over the message, or the place.
LEMMA PostSteps ==
  ASSUME RefInv, NEW t \in Thread, Step(t), SendPost(t) \/ RecvPost(t)
  PROVE  Abs!HandOver(t)
<1>1. /\ Frame(t) /\ \A u \in Thread \ {t} : ret'[u] = ret[u]
      /\ SeenAs(t) /\ SeenAs(t)' /\ pc \in [Thread -> PcSet]
  BY StepSeen
<1>2. /\ UNCHANGED <<life, closed, buf, call, calls, idx, ret>>
      /\ pc[t] \in OwingPc /\ pc'[t] \in DonePc
  BY <1>1 DEF callVars, SendPost, RecvPost, At, Goto, OwingPc, DonePc
<1>3. /\ absPhase[t] = "owing" /\ absPhase'[t] = "decided" /\ absOutcome'[t] = absOutcome[t]
  BY <1>1, <1>2 DEF SeenAs
<1>4. absOutcome' = absOutcome /\ absPhase' = [absPhase EXCEPT ![t] = "decided"]
  BY <1>1, <1>3, SameSeen, OthersSeen
<1> QED
  BY <1>2, <1>3, <1>4 DEF Abs!HandOver, Abs!channels

\* A trywait that fails: a select goes on looking, a direct call is refused.
LEMMA MissSteps ==
  ASSUME RefInv, NEW t \in Thread, Step(t), SendMiss(t) \/ RecvMiss(t)
  PROVE  Abs!Refuse(t) \/ UNCHANGED Abs!absVars
<1>1. /\ InCall(t) /\ Frame(t) /\ \A u \in Thread \ {t} : ret'[u] = ret[u]
      /\ SeenAs(t) /\ SeenAs(t)' /\ pc \in [Thread -> PcSet] /\ Ch(t) \in Chan
      /\ call[t].op \in OpAt(pc[t]) /\ (call[t].op # "select" => idx[t] = 1)
  BY StepSeen
<1>2. /\ UNCHANGED <<life, closed, buf, call, calls>>
      /\ pc[t] \in OpenPc /\ pc'[t] \in MissedPc
      /\ absOutcome'[t] = absOutcome[t] /\ absPhase[t] = "pending"
      /\ absPhase'[t] = (IF call[t].op = "select" THEN "pending" ELSE "refused")
  <2>1. UNCHANGED <<life, closed, buf, call, calls>>
    BY DEF chanVars, callVars, SendMiss, RecvMiss
  <2>2. pc[t] \in OpenPc /\ pc'[t] \in MissedPc
    BY <1>1 DEF At, Goto, SendMiss, RecvMiss, OpenPc, MissedPc
  <2> QED
    BY <1>1, <2>1, <2>2 DEF SeenAs
<1>3. CASE call[t].op = "select"
  BY <1>1, <1>2, <1>3, NothingSeen
<1>4. CASE call[t].op # "select"
  <2>1. absOutcome' = absOutcome /\ absPhase' = [absPhase EXCEPT ![t] = "refused"]
    BY <1>1, <1>2, <1>4, SameSeen, OthersSeen
  <2>2. ~call[t].blocking /\ call[t].op \in {"send", "recv"}
    BY <1>1, <1>4, PlacesOfOps DEF SendMiss, RecvMiss, At, SendPc, RecvPc
  <2>3. /\ Cur(t) = call[t].list[1] /\ Ch(t) = call[t].list[1].channel
        /\ SendMiss(t) => Cur(t).is_send /\ ~(available[Ch(t)] > 0)
        /\ RecvMiss(t) => ~Cur(t).is_send /\ ~(used[Ch(t)] > 0)
        /\ pc[t] \in {"send_take", "recv_take"}
    BY <1>1, <1>4 DEF Cur, Ch, SendMiss, RecvMiss, Wait, At, RefInv, ChannelInv, Typed,
      EntryMatches, SendPc, RecvPc
  <2>4. closed[Ch(t)] \/ Abs!NothingFor(call[t].list[1])
    BY <1>1, <2>3, PermitsLeft DEF Abs!NothingFor
  <2> QED
    BY <1>2, <2>1, <2>2, <2>3, <2>4 DEF Abs!Refuse, Abs!channels
<1> QED
  BY <1>3, <1>4

\* A look at closed after a trywait that failed.
LEMMA ReportSteps ==
  ASSUME RefInv, NEW t \in Thread, Step(t), SendMissReport(t) \/ RecvMissOpen(t)
  PROVE  Abs!WouldBlock(t) \/ Abs!SeeClosed(t, idx[t]) \/ UNCHANGED Abs!absVars
<1>1. /\ InCall(t) /\ Frame(t) /\ \A u \in Thread \ {t} : ret'[u] = ret[u]
      /\ SeenAs(t) /\ pc \in [Thread -> PcSet] /\ Ch(t) \in Chan /\ closed \in [Chan -> BOOLEAN]
      /\ call[t].op \in OpAt(pc[t]) /\ (call[t].op # "select" => idx[t] = 1)
      /\ pc[t] \in MissedPc /\ ret[t] = NoOutcome
      /\ UNCHANGED <<life, closed, buf, call, calls>> /\ UNCHANGED callVars
  <2>1. pc[t] \in MissedPc
    BY DEF SendMissReport, RecvMissOpen, At, MissedPc
  <2> QED
    BY <2>1, StepSeen DEF SendMissReport, RecvMissOpen, callVars, ChanTypeOK, UndecidedPc
<1>2. Return(t, IF closed[Ch(t)] THEN "CLOSED_ERROR" ELSE "WOULDBLOCK")
  BY DEF SendMissReport, RecvMissOpen
<1>3. call[t].op \in {"send", "recv", "select"}
  BY <1>1, PlacesOfOps DEF MissedPc, SendPc, RecvPc
<1>4. /\ absOutcome[t] = NoOutcome
      /\ absPhase[t] = (IF call[t].op = "select" THEN "pending" ELSE "refused")
  BY <1>1 DEF SeenAs
<1>5. CASE closed[Ch(t)]
  <2>1. /\ absPhase'[t] \in {"decided", "idle"}
        /\ absOutcome'[t] = [status |-> "CLOSED_ERROR", index |-> idx[t], data |-> NoMsg]
    <3>1. Stored(ret[t], "CLOSED_ERROR", idx[t])
            = [status |-> "CLOSED_ERROR", index |-> idx[t], data |-> NoMsg]
      BY <1>1, FirstStored
    <3> QED
      BY <1>2, <1>5, <3>1, ReturnSeen
  <2>2. Abs!Decide(t, "CLOSED_ERROR", idx[t], NoMsg)
    BY <1>1, <2>1, Decides
  <2> QED
    BY <1>1, <1>3, <1>4, <1>5, <2>2 DEF Abs!SeeClosed, Abs!channels, Ch, Cur
<1>6. CASE ~closed[Ch(t)]
  <2>1. CASE call[t].op = "select"
    <3>1. absPhase'[t] = absPhase[t] /\ absOutcome'[t] = absOutcome[t]
      <4>1. call[t].op = "select" /\ pc'[t] \in OpenPc
        BY <1>1, <1>2, <1>6, <2>1 DEF Return, ReturnDirect, SelectDecided, SelectNext,
          SelectNothing, Goto, TakePc, OpenPc, OwingPc, GrantedPc, DonePc
      <4>2. absPhase'[t] = "pending" /\ absOutcome'[t] = NoOutcome
        <5>1. SeenAs(t)'
          BY StepSeen
        <5> QED
          BY <4>1, <5>1 DEF SeenAs
      <4> QED
        BY <1>4, <2>1, <4>2
    <3> QED
      BY <1>1, <3>1, NothingSeen
  <2>2. CASE call[t].op # "select"
    <3>1. /\ absPhase'[t] \in {"decided", "idle"}
          /\ absOutcome'[t] = [status |-> "WOULDBLOCK", index |-> 1, data |-> NoMsg]
      <4>1. Stored(ret[t], "WOULDBLOCK", idx[t])
              = [status |-> "WOULDBLOCK", index |-> idx[t], data |-> NoMsg]
        BY <1>1, FirstStored
      <4> QED
        BY <1>1, <1>2, <1>6, <2>2, <4>1, ReturnSeen
    <3>2. Abs!Decide(t, "WOULDBLOCK", 1, NoMsg)
      BY <1>1, <3>1, Decides
    <3> QED
      BY <1>1, <1>4, <1>6, <2>2, <3>2 DEF Abs!WouldBlock, Abs!channels, Ch, Cur
  <2> QED
    BY <2>1, <2>2
<1> QED
  BY <1>5, <1>6

\* A call that finds the channel closed.
LEMMA ClosedSteps ==
  ASSUME RefInv, NEW t \in Thread, Step(t),
         SendClosed(t) \/ RecvMissClosed(t) \/ RecvClosed(t) \/ CloseAgain(t)
  PROVE  Abs!SeeClosed(t, idx[t])
<1>1. /\ InCall(t) /\ Frame(t) /\ \A u \in Thread \ {t} : ret'[u] = ret[u]
      /\ SeenAs(t) /\ SeenAs(t)' /\ pc \in [Thread -> PcSet] /\ ret \in [Thread -> Outcome]
      /\ call[t].op \in OpAt(pc[t])
      /\ pc[t] \in UndecidedPc => ret[t] = NoOutcome
  BY StepSeen
<1>2. /\ UNCHANGED callVars /\ UNCHANGED <<life, closed, buf>> /\ closed[Ch(t)]
      /\ pc[t] \in {"send_cs", "recv_miss_cs", "recv_cs", "close_cs"}
  BY DEF callVars, SendClosed, RecvMissClosed, RecvClosed, CloseAgain, At
<1>3. /\ pc[t] \in UndecidedPc /\ ret[t] = NoOutcome
      /\ absPhase[t] \in {"pending", "granted", "refused"}
      /\ absPhase[t] = "granted" => absOutcome[t].index = idx[t]
  <2>1. pc[t] \in OpenPc \cup MissedPc \cup GrantedPc
    BY <1>2 DEF OpenPc, MissedPc, GrantedPc
  <2>2. [NoOutcome EXCEPT !.index = idx[t]].index = idx[t]
    BY DEF NoOutcome
  <2> QED
    BY <1>1, <2>1, <2>2 DEF SeenAs, UndecidedPc
<1>4. call[t].op \in {"send", "recv", "select", "close"}
  BY <1>1, <1>2, PlacesOfOps DEF SendPc, RecvPc, ClosePc
<1>5. /\ absPhase'[t] \in {"decided", "idle"}
      /\ absOutcome'[t] = Stored(ret[t], "CLOSED_ERROR", idx[t])
  <2>1. CASE CloseAgain(t)
    <3>1. Return(t, "CLOSED_ERROR")
      BY <2>1 DEF CloseAgain, Return
    <3> QED
      BY <3>1, ReturnSeen
  <2>2. CASE SendClosed(t) \/ RecvMissClosed(t) \/ RecvClosed(t)
    <3>1. pc'[t] \in GivingPc /\ UNCHANGED <<idx, ret>>
      BY <1>1, <2>2 DEF SendClosed, RecvMissClosed, RecvClosed, Goto, GivingPc
    <3> QED
      BY <1>1, <3>1 DEF SeenAs, Stored
  <2> QED
    BY <2>1, <2>2
<1>6. absOutcome'[t] = [status |-> "CLOSED_ERROR", index |-> idx[t], data |-> NoMsg]
  <2>1. Stored(ret[t], "CLOSED_ERROR", idx[t])
          = [status |-> "CLOSED_ERROR", index |-> idx[t], data |-> NoMsg]
    BY <1>3, FirstStored
  <2> QED
    BY <1>5, <2>1
<1>7. Abs!Decide(t, "CLOSED_ERROR", idx[t], NoMsg)
  BY <1>1, <1>2, <1>5, <1>6, Decides
<1> QED
  BY <1>2, <1>3, <1>4, <1>7 DEF Abs!SeeClosed, Abs!channels, Ch, Cur

\* A call that was let in succeeds.
LEMMA Succeeds ==
  ASSUME NEW t \in Thread, NEW d, Frame(t), SeenAs(t), SeenAs(t)',
         \A u \in Thread \ {t} : ret'[u] = ret[u], UNCHANGED callVars,
         pc[t] \in GrantedPc, pc'[t] \in OwingPc,
         absOutcome'[t] = [status |-> "SUCCESS", index |-> idx[t], data |-> d]
  PROVE  Abs!Succeed(t, d) /\ absPhase[t] = "granted"
<1>1. /\ absPhase[t] = "granted" /\ absPhase'[t] = "owing"
      /\ absOutcome[t] = [NoOutcome EXCEPT !.index = idx[t]]
  BY DEF SeenAs
<1>2. absOutcome[t].index = idx[t]
  BY <1>1 DEF NoOutcome
<1>3. /\ absPhase' = [absPhase EXCEPT ![t] = "owing"]
      /\ absOutcome' = [absOutcome EXCEPT
                          ![t] = [status |-> "SUCCESS", index |-> idx[t], data |-> d]]
  BY <1>1, OthersSeen
<1>4. UNCHANGED <<call, calls>>
  BY DEF callVars
<1> HIDE DEF absPhase, absOutcome
<1> QED
  BY <1>1, <1>2, <1>3, <1>4 DEF Abs!Succeed

\* A message goes into the buffer.
LEMMA AddSteps ==
  ASSUME RefInv, NEW t \in Thread, Step(t), SendAdd(t)
  PROVE  Abs!Put(t)
<1>1. /\ Frame(t) /\ \A u \in Thread \ {t} : ret'[u] = ret[u]
      /\ ThreadTypeOK /\ SeenAs(t) /\ SeenAs(t)' /\ pc \in [Thread -> PcSet] /\ Ch(t) \in Chan
      /\ pc[t] \in UndecidedPc => ret[t] = NoOutcome
  BY StepSeen DEF RefInv, ChannelInv, Typed, TypeOK
<1>2. pc[t] = "send_cs" /\ ~closed[Ch(t)] /\ Len(buf[Ch(t)]) < Cap[Ch(t)]
  BY RoomByPermits DEF SendAdd, At, RefInv, ChannelInv, PermitMeansRoom
<1>3. /\ UNCHANGED callVars /\ UNCHANGED <<life, closed, ret, idx>> /\ pc'[t] = "send_post"
      /\ buf' = [buf EXCEPT ![Ch(t)] = Append(@, Cur(t).data)]
  BY <1>1, <1>2 DEF SendAdd, Goto
<1>4. pc[t] \in GrantedPc /\ pc'[t] \in OwingPc
  BY <1>2, <1>3 DEF GrantedPc, OwingPc
<1>5. absOutcome'[t] = [status |-> "SUCCESS", index |-> idx[t], data |-> NoMsg]
  <2>1. absOutcome'[t] = Stored(ret[t], "SUCCESS", idx[t]) /\ ret[t] = NoOutcome
    BY <1>1, <1>3, <1>4 DEF SeenAs, Stored, UndecidedPc
  <2> QED
    BY <2>1, FirstStored
<1>6. Abs!Succeed(t, NoMsg) /\ absPhase[t] = "granted"
  BY <1>1, <1>3, <1>4, <1>5, Succeeds
<1>7. Cur(t).is_send
  BY <1>2 DEF RefInv, ChannelInv, Typed, EntryMatches, SendPc
<1> DEFINE e == Abs!Served(t)
<1>8. Cur(t) = e /\ Ch(t) = e.channel
  BY <1>1, <1>4, ServedIs DEF Ch
<1> HIDE DEF e
<1>9. e.is_send /\ ~closed[e.channel] /\ Len(buf[e.channel]) < Cap[e.channel]
  BY <1>2, <1>7, <1>8
<1>10. buf' = [buf EXCEPT ![e.channel] = Append(@, e.data)]
  BY <1>3, <1>8, Zenon
<1>11. UNCHANGED <<life, closed>>
  BY <1>3
<1> QED
  BY <1>6, <1>9, <1>10, <1>11, Zenon DEF Abs!Put, e

\* A message leaves the buffer.
LEMMA RemoveSteps ==
  ASSUME RefInv, BufferEmpty \notin Msg, NEW t \in Thread, Step(t), RecvRemove(t)
  PROVE  Abs!Take(t)
<1> DEFINE m == Head(buf[Ch(t)])
<1>1. /\ Frame(t) /\ \A u \in Thread \ {t} : ret'[u] = ret[u]
      /\ ThreadTypeOK /\ SeenAs(t) /\ SeenAs(t)' /\ pc \in [Thread -> PcSet] /\ ret \in [Thread -> Outcome]
      /\ Ch(t) \in Chan /\ ChanTypeOK
      /\ pc[t] \in UndecidedPc => ret[t] = NoOutcome
  BY StepSeen DEF RefInv, ChannelInv, Typed, TypeOK
<1>2. pc[t] = "recv_cs" /\ ~closed[Ch(t)] /\ buf[Ch(t)] # <<>>
  BY RoomByPermits DEF RecvRemove, At, RefInv, ChannelInv, PermitMeansRoom
<1>3. m \in Msg
  BY <1>1, <1>2, HeadTailProperties DEF ChanTypeOK
<1>4. /\ UNCHANGED callVars /\ UNCHANGED <<life, closed, idx>> /\ pc'[t] = "recv_post"
      /\ ret'[t] = [ret[t] EXCEPT !.data = m]
      /\ buf' = [buf EXCEPT ![Ch(t)] = Tail(@)]
  BY <1>1, <1>2, <1>3 DEF RecvRemove, Goto, ChanTypeOK
<1>5. pc[t] \in GrantedPc /\ pc'[t] \in OwingPc
  BY <1>2, <1>4 DEF GrantedPc, OwingPc
<1>6. absOutcome'[t] = [status |-> "SUCCESS", index |-> idx[t], data |-> m]
  <2>1. ret[t] = NoOutcome /\ absOutcome'[t] = Stored(ret'[t], "SUCCESS", idx[t])
    BY <1>1, <1>4, <1>5 DEF SeenAs, Stored, UndecidedPc
  <2>2. ret'[t] = [status |-> "none", index |-> 1, data |-> m]
    BY <1>4, <2>1, DataStored
  <2> QED
    BY <2>1, <2>2, StoredOver
<1>7. Abs!Succeed(t, m) /\ absPhase[t] = "granted"
  BY <1>1, <1>4, <1>5, <1>6, Succeeds
<1>8. ~Cur(t).is_send
  BY <1>2 DEF RefInv, ChannelInv, Typed, EntryMatches, RecvPc
<1> DEFINE e == Abs!Served(t)
<1>9. Cur(t) = e /\ Ch(t) = e.channel
  BY <1>1, <1>5, ServedIs DEF Ch
<1> HIDE DEF e
<1>10. ~e.is_send /\ ~closed[e.channel] /\ buf[e.channel] # <<>>
  BY <1>2, <1>8, <1>9
<1>11. /\ buf' = [buf EXCEPT ![e.channel] = Tail(@)]
       /\ Abs!Succeed(t, Head(buf[e.channel]))
  BY <1>4, <1>7, <1>9, Zenon
<1>12. UNCHANGED <<life, closed>>
  BY <1>4
<1> HIDE DEF m
<1> QED
  BY <1>7, <1>10, <1>11, <1>12, Zenon DEF Abs!Take, e

\* The return of a direct call that stored nothing before.
LEMMA DirectSeen ==
  ASSUME RefInv, NEW t \in Thread, Step(t), NEW st, ReturnDirect(t, st),
         pc[t] \in OpenPc, UNCHANGED callVars
  PROVE  absPhase[t] = "pending" /\ Abs!Decide(t, st, 1, NoMsg)
<1>1. /\ SeenAs(t) /\ Frame(t) /\ \A u \in Thread \ {t} : ret'[u] = ret[u]
      /\ call[t].op # "select" => idx[t] = 1
      /\ pc[t] \in UndecidedPc => ret[t] = NoOutcome
  BY StepSeen
<1>2. call[t].op # "select" /\ Return(t, st)
  BY DEF ReturnDirect, Return
<1>3. absPhase'[t] = "idle" /\ absOutcome'[t] = Stored(ret[t], st, idx[t])
  BY <1>2, ReturnSeen
<1>4. absOutcome'[t] = [status |-> st, index |-> 1, data |-> NoMsg]
  BY <1>1, <1>2, <1>3, FirstStored DEF UndecidedPc
<1>5. absPhase[t] = "pending"
  BY <1>1 DEF SeenAs
<1> QED
  BY <1>1, <1>3, <1>4, <1>5, Decides

\* The channel of a direct call.
LEMMA DirectChannel ==
  ASSUME RefInv, NEW t \in Thread, InCall(t), pc[t] \in ClosePc \cup DestroyPc \cup {"create"}
  PROVE  /\ Ch(t) = call[t].list[1].channel /\ Ch(t) \in Chan
         /\ pc[t] \in ClosePc => call[t].op = "close"
         /\ pc[t] \in DestroyPc => call[t].op = "destroy"
         /\ pc[t] = "create" => call[t].op = "create"
<1>1. ThreadTypeOK /\ call[t].op \in OpAt(pc[t])
  BY DEF RefInv, ChannelInv, Typed, TypeOK, RightOp
<1>2. /\ WellFormed(call[t]) /\ Ch(t) \in Chan
      /\ idx[t] \in DOMAIN call[t].list /\ DOMAIN call[t].list = 1..Len(call[t].list)
  BY <1>1, CurrentEntry
<1>3. call[t].op \in {"close", "destroy", "create"}
  BY <1>1, PlacesOfOps
<1>4. idx[t] = 1
  BY <1>2, <1>3 DEF WellFormed
<1> QED
  BY <1>1, <1>2, <1>4, PlacesOfOps DEF Ch, Cur

\* A channel is closed.
LEMMA CloseSteps ==
  ASSUME RefInv, NEW t \in Thread, Step(t), CloseSet(t)
  PROVE  Abs!CloseIt(t)
<1>1. /\ Frame(t) /\ \A u \in Thread \ {t} : ret'[u] = ret[u]
      /\ SeenAs(t) /\ SeenAs(t)' /\ pc \in [Thread -> PcSet] /\ InCall(t)
      /\ call[t].op # "select" => idx[t] = 1
      /\ pc[t] \in UndecidedPc => ret[t] = NoOutcome
  BY StepSeen
<1>2. /\ pc[t] = "close_cs" /\ pc'[t] = "close_post_available" /\ UNCHANGED callVars
      /\ UNCHANGED <<life, buf, idx, ret>>
      /\ ~closed[Ch(t)] /\ closed' = [closed EXCEPT ![Ch(t)] = TRUE]
  BY <1>1 DEF CloseSet, At, Goto
<1>3. Ch(t) = call[t].list[1].channel /\ call[t].op = "close"
  BY <1>1, <1>2, DirectChannel DEF ClosePc
<1>4. pc[t] \in OpenPc /\ pc'[t] \in DonePc
  BY <1>2 DEF OpenPc, OwingPc, GrantedPc, DonePc
<1>5. absPhase[t] = "pending" /\ ret[t] = NoOutcome
  BY <1>1, <1>4 DEF SeenAs, UndecidedPc
<1>6. absPhase'[t] = "decided" /\ absOutcome'[t] = Stored(ret[t], "SUCCESS", idx[t])
  BY <1>1, <1>2, <1>4 DEF SeenAs, Stored
<1>7. absOutcome'[t] = [status |-> "SUCCESS", index |-> 1, data |-> NoMsg]
  BY <1>1, <1>3, <1>5, <1>6, FirstStored
<1>8. Abs!Decide(t, "SUCCESS", 1, NoMsg)
  BY <1>1, <1>2, <1>6, <1>7, Decides
<1> QED
  BY <1>2, <1>3, <1>5, <1>8 DEF Abs!CloseIt

\* A channel is created, or destroyed, or neither.
LEMMA LifeSteps ==
  ASSUME RefInv, NEW t \in Thread, Step(t),
         Create(t) \/ CreateUnbuffered(t) \/ DestroyOpen(t) \/ DestroyFree(t)
  PROVE  Abs!CreateIt(t) \/ Abs!DestroyIt(t)
<1> DEFINE c == Ch(t)
<1>1. /\ InCall(t) /\ ChanTypeOK /\ UNCHANGED callVars
      /\ pc[t] \in {"create", "destroy_check", "destroy_free"}
  BY StepSeen DEF Create, CreateUnbuffered, DestroyOpen, DestroyFree, At
<1>2. /\ c = call[t].list[1].channel /\ c \in Chan
      /\ call[t].op = (IF pc[t] = "create" THEN "create" ELSE "destroy")
  BY <1>1, DirectChannel DEF DestroyPc
<1>3. pc[t] \in OpenPc
  BY <1>1 DEF OpenPc, OwingPc, GrantedPc, DonePc
<1>4. ASSUME NEW st, ReturnDirect(t, st)
      PROVE  absPhase[t] = "pending" /\ Abs!Decide(t, st, 1, NoMsg)
  BY <1>1, <1>3, <1>4, DirectSeen
<1>5. CASE Create(t)
  <2>1. /\ Cap[c] > 0 /\ life' = [life EXCEPT ![c] = "live"] /\ ReturnDirect(t, "SUCCESS")
        /\ closed' = [closed EXCEPT ![c] = FALSE] /\ buf' = [buf EXCEPT ![c] = <<>>]
        /\ pc[t] = "create"
    BY <1>5 DEF Create, At
  <2>2. closed[c] = FALSE /\ buf[c] = <<>>
    BY <1>1, <1>2, <2>1 DEF RefInv, ChannelInv, Lives, EmptyBefore, ChanTypeOK
  <2>3. UNCHANGED <<closed, buf>>
    BY <1>1, <2>1, <2>2 DEF ChanTypeOK
  <2> QED
    BY <1>2, <1>4, <2>1, <2>3 DEF Abs!CreateIt
<1>6. CASE CreateUnbuffered(t)
  BY <1>2, <1>4, <1>6 DEF CreateUnbuffered, At, chanVars, Abs!CreateIt
<1>7. CASE DestroyOpen(t)
  BY <1>2, <1>4, <1>7 DEF DestroyOpen, At, chanVars, Abs!DestroyIt
<1>8. CASE DestroyFree(t)
  <2>1. closed[c]
    BY <1>8 DEF DestroyFree, At, RefInv, FreesClosed
  <2> QED
    BY <1>2, <1>4, <1>8, <2>1 DEF DestroyFree, At, Abs!DestroyIt
<1> QED
  BY <1>5, <1>6, <1>7, <1>8
LEMMA StepRefines ==
  ASSUME RefInv, BufferEmpty \notin Msg, NEW t \in Thread, Step(t)
  PROVE  Abs!AbsNext \/ UNCHANGED Abs!absVars
<1>1. idx[t] \in DOMAIN call[t].list
  BY StepSeen
<1>2. CASE UNCHANGED Abs!absVars \/ Abs!End(t) \/ Abs!Refuse(t) \/ Abs!HandOver(t)
  BY <1>2 DEF Abs!AbsNext
<1>3. CASE SendStep(t)
  <2>1. CASE SendAdd(t)
    BY <2>1, AddSteps DEF Abs!AbsNext
  <2>2. CASE SendMissReport(t)
    BY <1>1, <1>2, <2>2, ReportSteps DEF Abs!AbsNext
  <2>3. CASE SendClosed(t)
    BY <1>1, <2>3, ClosedSteps DEF Abs!AbsNext
  <2>4. CASE SendTake(t)
    BY <1>1, <2>4, TakeSteps DEF Abs!AbsNext
  <2> QED
    BY <1>2, <1>3, <2>1, <2>2, <2>3, <2>4, PassingSteps, EndingSteps, MissSteps, PostSteps
    DEF SendStep
<1>4. CASE RecvStep(t)
  <2>1. CASE RecvRemove(t)
    BY <2>1, RemoveSteps DEF Abs!AbsNext
  <2>2. CASE RecvMissOpen(t)
    BY <1>1, <1>2, <2>2, ReportSteps DEF Abs!AbsNext
  <2>3. CASE RecvMissClosed(t) \/ RecvClosed(t)
    BY <1>1, <2>3, ClosedSteps DEF Abs!AbsNext
  <2>4. CASE RecvTake(t)
    BY <1>1, <2>4, TakeSteps DEF Abs!AbsNext
  <2> QED
    BY <1>2, <1>4, <2>1, <2>2, <2>3, <2>4, PassingSteps, EndingSteps, MissSteps, PostSteps
    DEF RecvStep
<1>5. CASE CloseStep(t)
  <2>1. CASE CloseSet(t)
    BY <2>1, CloseSteps DEF Abs!AbsNext
  <2>2. CASE CloseAgain(t)
    BY <1>1, <2>2, ClosedSteps DEF Abs!AbsNext
  <2> QED
    BY <1>2, <1>5, <2>1, <2>2, PassingSteps, EndingSteps DEF CloseStep
<1>6. CASE SelectStep(t)
  BY <1>2, <1>6, PassingSteps, EndingSteps DEF SelectStep
<1>7. CASE LifeStep(t)
  <2>1. CASE Create(t) \/ CreateUnbuffered(t) \/ DestroyOpen(t) \/ DestroyFree(t)
    BY <2>1, LifeSteps DEF Abs!AbsNext
  <2> QED
    BY <1>2, <1>7, <2>1, PassingSteps DEF LifeStep
<1> QED
  BY <1>3, <1>4, <1>5, <1>6, <1>7 DEF Step

\* The start of a call, and a call on the NULL channel.
LEMMA InvokeRefines ==
  ASSUME RefInv, NEW t \in Thread, Invoke(t) \/ NullCall(t)
  PROVE  Abs!AbsNext
<1>1. /\ Frame(t) /\ UNCHANGED <<life, closed, buf>> /\ pc[t] = "ready"
      /\ ThreadTypeOK /\ calls[t] < MaxCalls[t]
      /\ calls' = [calls EXCEPT ![t] = @ + 1]
  BY InvokeMoves DEF RefInv, ChannelInv, Typed, TypeOK, chanVars, Invoke, NullCall
<1>2. \A u \in Thread \ {t} : ret'[u] = ret[u]
  BY <1>1 DEF Invoke, NullCall, ThreadTypeOK
<1>3. SeenAs(t) /\ SeenAs(t)'
  BY PhaseAt, PhaseNext
<1>4. absPhase[t] = "idle"
  BY <1>1, <1>3 DEF SeenAs
<1>5. CASE Invoke(t)
  <2>1. PICK r \in Menu[t] : /\ Contract(r) /\ call' = [call EXCEPT ![t] = r]
                             /\ pc' = [pc EXCEPT ![t] = StartPc[r.op]]
    BY <1>5 DEF Invoke, Goto
  <2>2. r.op \in Op
    BY MenuAssumption DEF WellFormed, Call
  <2>3. pc'[t] \in OpenPc /\ ret'[t] = NoOutcome
    <3>1. pc'[t] \in {"create", "send_take", "recv_take", "reg_lock", "close_lock",
                      "destroy_check"}
      BY <1>1, <2>1, <2>2 DEF StartPc, Op, ThreadTypeOK
    <3>2. ret'[t] = NoOutcome
      BY <1>1, <1>5 DEF Invoke, ThreadTypeOK
    <3> QED
      BY <3>1, <3>2 DEF OpenPc, OwingPc, GrantedPc, DonePc
  <2>4. absPhase'[t] = "pending" /\ absOutcome'[t] = NoOutcome
    BY <1>3, <2>3 DEF SeenAs
  <2>5. /\ absPhase' = [absPhase EXCEPT ![t] = "pending"]
        /\ absOutcome' = [absOutcome EXCEPT ![t] = Abs!NoOutcome]
    BY <1>1, <1>2, <2>4, OthersSeen DEF NoOutcome, Abs!NoOutcome
  <2>6. Abs!AbsContract(r)
    BY <1>1, <2>1, BusyMeans DEF Contract, Abs!AbsContract
  <2>7. Abs!Begin(t)
    BY <1>1, <1>4, <2>1, <2>5, <2>6 DEF Abs!Begin, Abs!channels
  <2> QED
    BY <2>7 DEF Abs!AbsNext
<1>6. CASE NullCall(t)
  <2>1. /\ pc'[t] = "ready" /\ UNCHANGED call
        /\ ret'[t] = [NoOutcome EXCEPT !.status = "OTHER_ERROR"]
        /\ \E r \in Menu[t] : r.list[1].channel = NoChan
    BY <1>1, <1>6 DEF NullCall, ThreadTypeOK
  <2>2. absPhase'[t] = absPhase[t] /\ absOutcome'[t] = ret'[t]
    BY <1>3, <1>4, <2>1 DEF SeenAs
  <2>3. absPhase' = absPhase /\ absOutcome' = [absOutcome EXCEPT ![t] = ret'[t]]
    BY <1>1, <1>2, <2>2, OthersSeen, SameSeen
  <2>4. ret'[t] = [Abs!NoOutcome EXCEPT !.status = "OTHER_ERROR"]
    BY <2>1 DEF NoOutcome, Abs!NoOutcome
  <2>5. Abs!BeginNull(t)
    BY <1>1, <1>4, <2>1, <2>3, <2>4 DEF Abs!BeginNull, Abs!channels
  <2> QED
    BY <2>5 DEF Abs!AbsNext
<1> QED
  BY <1>5, <1>6
-----------------------------------------------------------------------------
(* The invariant, and the theorem                                          *)

CallsInOrder == Alone /\ LiveCalls /\ EmptyBefore /\ FreesClosed /\ NothingStored

LEMMA InitInOrder == Init => CallsInOrder
BY DEF Init, NoCall, CallsInOrder, Alone, LiveCalls, EmptyBefore, FreesClosed, NothingStored,
  InCall

LEMMA InvokeInOrder ==
  ASSUME Typed, CallsInOrder, NEW t \in Thread, Invoke(t) \/ NullCall(t)
  PROVE  CallsInOrder'
<1>1. /\ Frame(t) /\ UNCHANGED chanVars
      /\ pc'[t] \in {"ready", "create", "send_take", "recv_take", "reg_lock",
                     "close_lock", "destroy_check"}
  BY InvokeMoves
<1>2. Alone' /\ LiveCalls'
  BY InvokeContract DEF CallsInOrder
<1>3. EmptyBefore'
  BY <1>1 DEF chanVars, CallsInOrder, EmptyBefore
<1>4. FreesClosed'
  BY <1>1 DEF chanVars, CallsInOrder, FreesClosed, Frame, Ch, Cur
<1>5. NothingStored'
  <2>1. ret \in [Thread -> Outcome] /\ pc[t] = "ready" /\ pc \in [Thread -> PcSet]
    BY InvokeMoves DEF Typed, TypeOK, ThreadTypeOK
  <2>2. \A u \in Thread \ {t} : ret'[u] = ret[u] /\ pc'[u] = pc[u]
    BY <1>1, <2>1 DEF Invoke, NullCall, Frame
  <2>3. pc'[t] \in UndecidedPc => ret'[t] = NoOutcome
    <3>1. CASE Invoke(t)
      BY <2>1, <3>1 DEF Invoke
    <3>2. CASE NullCall(t)
      <4>1. pc'[t] = "ready"
        BY <2>1, <3>2 DEF NullCall
      <4> QED
        BY <4>1 DEF UndecidedPc, OpenPc, MissedPc, GrantedPc
    <3> QED
      BY <3>1, <3>2
  <2> QED
    BY <2>2, <2>3 DEF NothingStored, CallsInOrder
<1> QED
  BY <1>2, <1>3, <1>4, <1>5 DEF CallsInOrder

LEMMA NextInOrder ==
  ASSUME SelectInv, CallsInOrder, [Next]_vars
  PROVE  CallsInOrder'
<1>1. Typed /\ Lives /\ RightOp
  BY DEF SelectInv, ChannelInv
<1>2. CASE UNCHANGED vars
  BY <1>2 DEF vars, chanVars, listVars, callVars, CallsInOrder, Alone, LiveCalls, EmptyBefore,
    FreesClosed, NothingStored, InCall, Ch, Cur
<1>3. ASSUME NEW t \in Thread, Step(t)
      PROVE  CallsInOrder'
  BY <1>1, <1>3, StepContract, StepEmpty, StepFrees, StepStored DEF CallsInOrder
<1> QED
  BY <1>1, <1>2, <1>3, InvokeInOrder DEF Next

LEMMA AlwaysInOrder ==
  ASSUME BufferEmpty \notin Msg
  PROVE  Spec => []RefInv
<1>1. SelectInv /\ CallsInOrder /\ [Next]_vars => CallsInOrder'
  BY NextInOrder
<1>2. Spec => []CallsInOrder
  BY <1>1, InitInOrder, AlwaysSelects, PTL DEF Spec
<1>3. Spec => []PermitsConserved
  BY PermitsAreConserved
<1>4. SelectInv /\ CallsInOrder /\ PermitsConserved /\ DominoAlive /\ GiveBackClosed => RefInv
  BY DEF SelectInv, CallsInOrder, RefInv
<1> QED
  BY <1>2, <1>3, <1>4, AlwaysSelects, CloseWakesAll, AlwaysHeard, PTL

\* Every behaviour of the channels is one of ChannelSpec's bounded queues, for any
\* threads, sizes and menus of calls: messages come out in the order they went in,
\* none lost, duplicated or made up; a select acts on the one entry it reports;
\* and a non-blocking call is refused only at an instant at which the messages,
\* the sends let in and the receives that owe a place fill the channel, or the
\* receives let in and the sends that owe a message account for all it holds.
\* It says nothing of a message being absent: MCRefused shows WOULDBLOCK beside
\* one.  The assumption is the caller's: a message that is the BUFFER_EMPTY
\* pointer leaves the buffer and is reported as OTHER_ERROR (channel.c:228-238).
THEOREM ChannelsAreQueues ==
  ASSUME BufferEmpty \notin Msg
  PROVE  Spec => ImplementsChannelSpec
<1>1. Init => Abs!AbsInit
  <2> SUFFICES ASSUME Init PROVE Abs!AbsInit
    OBVIOUS
  <2>1. \A t \in Thread : absPhase[t] = "idle" /\ absOutcome[t] = NoOutcome
    <3> SUFFICES ASSUME NEW t \in Thread
                 PROVE  absPhase[t] = "idle" /\ absOutcome[t] = NoOutcome
      OBVIOUS
    <3>1. pc[t] = "ready" /\ ret[t] = NoOutcome
      BY DEF Init
    <3>2. SeenAs(t)
      BY PhaseAt
    <3> QED
      BY <3>1, <3>2 DEF SeenAs
  <2>2. absPhase = [t \in Thread |-> absPhase[t]]
    BY DEF absPhase
  <2>3. absOutcome = [t \in Thread |-> absOutcome[t]]
    BY DEF absOutcome
  <2>4. /\ absPhase = [t \in Thread |-> "idle"]
        /\ absOutcome = [t \in Thread |-> NoOutcome]
    BY <2>1, <2>2, <2>3
  <2> QED
    BY <2>4 DEF Init, Abs!AbsInit, NoOutcome, Abs!NoOutcome, NoCall, Abs!NoCall,
      NullHandle, Abs!NullHandle
<1>2. RefInv /\ [Next]_vars => [Abs!AbsNext]_(Abs!absVars)
  <2> SUFFICES ASSUME RefInv, [Next]_vars PROVE [Abs!AbsNext]_(Abs!absVars)
    OBVIOUS
  <2>1. CASE UNCHANGED vars
    BY <2>1 DEF vars, chanVars, callVars, Abs!absVars, absPhase, absOutcome
  <2>2. CASE Next
    BY <2>2, StepRefines, InvokeRefines DEF Next
  <2> QED
    BY <2>1, <2>2
<1>3. Spec => []RefInv
  BY AlwaysInOrder
<1> QED
  BY <1>1, <1>2, <1>3, PTL DEF Spec, ImplementsChannelSpec, Abs!AbsSpec
=============================================================================
