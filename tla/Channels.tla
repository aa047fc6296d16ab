------------------------------ MODULE Channels ------------------------------
(***************************************************************************)
(* src/p3-concurrent-channels/channel.c: bounded channels shared by the    *)
(* threads of a program.  A channel is a FIFO buffer guarded by three      *)
(* semaphores (mutex, available, used) and two lists of the local          *)
(* semaphores of the threads that wait in channel_select, each list under  *)
(* a pthread mutex of its own.                                             *)
(*                                                                         *)
(* One action is one step of a thread between two points where another     *)
(* thread can interfere: taking a permit, taking a lock, running the body  *)
(* of a critical section up to its unlock, posting a semaphore.  A body    *)
(* and the unlock that ends it are one step, since only holders of that    *)
(* lock touch what the body touches; list_foreach, which posts one local   *)
(* semaphore after another under the list lock, is one step because the    *)
(* posts commute with everything a woken thread can do before it needs     *)
(* that lock.                                                              *)
(*                                                                         *)
(* A call of channel_send, channel_receive, channel_close, channel_create  *)
(* or channel_destroy carries a one-entry list; channel_select carries the *)
(* caller's array and runs the non-blocking send and receive actions on    *)
(* one entry after another, exactly as the code calls those functions.     *)
(***************************************************************************)
EXTENDS ChannelTypes, SequencesExt

CONSTANT Failing    \* the threads for which malloc in list_insert may fail

Side == {"send", "recv"}

VARIABLES
  life,       \* life[c]: "none" before create, "live", "dead" after destroy
  closed,     \* chan_t.closed
  buf,        \* chan_t.buffer, oldest message first
  mutex,      \* chan_t.mutex, a semaphore used as a lock
  available,  \* chan_t.available: permits to add
  used,       \* chan_t.used: permits to remove
  list,       \* list["send"][c] is send_list, list["recv"][c] is recv_list:
              \* the threads whose local semaphore is registered there
  locked,     \* locked["send"][c] is send_lock, locked["recv"][c] recv_lock
  local,      \* local[t]: the semaphore on the stack of t's channel_select
  pc,         \* where thread t is
  call,       \* the call t is executing
  idx,        \* the index of the entry it works on
  ret,        \* status, selected_index and data of t's last call
  calls       \* the number of calls t has made (at most MaxCalls[t])

chanVars == <<life, closed, buf, mutex, available, used>>
listVars == <<list, locked, local>>
callVars == <<call, calls>>
vars == <<chanVars, listVars, callVars, pc, idx, ret>>

Cur(t) == call[t].list[idx[t]]
Ch(t) == Cur(t).channel

Goto(t, where) == pc' = [pc EXCEPT ![t] = where]
At(t, where) == pc[t] = where

-----------------------------------------------------------------------------
(* Semaphores, list locks and the lists                                    *)

Wait(sem, c) == sem[c] > 0
Minus(sem, c) == [sem EXCEPT ![c] = @ - 1]
Plus(sem, c) == [sem EXCEPT ![c] = @ + 1]

Lock(side, c) == ~locked[side][c] /\ locked' = [locked EXCEPT ![side][c] = TRUE]
Unlock(side, c) == locked' = [locked EXCEPT ![side][c] = FALSE]

\* linked_list.c: list_find, list_insert at the head, list_remove, list_foreach.
list_find(l, t) ==
  CHOOSE k \in DOMAIN l : l[k] = t /\ \A j \in 1..(k - 1) : l[j] # t
list_insert(l, t) == <<t>> \o l
list_remove(l, t) == RemoveAt(l, list_find(l, t))
list_foreach(side, c) ==
  local' = [u \in Thread |->
             local[u] + Cardinality({k \in DOMAIN list[side][c] : list[side][c][k] = u})]

-----------------------------------------------------------------------------
(* Returning from channel_send, channel_receive, ... : a direct call is    *)
(* over; a select unregisters when the status is not WOULDBLOCK, goes on   *)
(* with the next entry, or after the last one waits (channel.c:407-430).   *)

TakePc(e) == IF e.is_send THEN "send_take" ELSE "recv_take"

StoreStatus(t, st) == ret' = [ret EXCEPT ![t].status = st, ![t].index = idx[t]]

ReturnDirect(t, st) ==
  /\ call[t].op # "select"
  /\ Goto(t, "ready")
  /\ StoreStatus(t, st)
  /\ UNCHANGED idx

\* Mutant: *selected_index is stored after i was reset.
SelectDecidedIndex(t, st) ==
  /\ call[t].op = "select"
  /\ st # "WOULDBLOCK"
  /\ Goto(t, "unreg_lock")
  /\ ret' = [ret EXCEPT ![t].status = st]
  /\ idx' = [idx EXCEPT ![t] = 1]

SelectDecided(t, st) ==
  /\ call[t].op = "select"
  /\ st # "WOULDBLOCK"
  /\ Goto(t, "unreg_lock")
  /\ StoreStatus(t, st)
  /\ idx' = [idx EXCEPT ![t] = 1]

SelectNext(t, st) ==
  /\ call[t].op = "select"
  /\ st = "WOULDBLOCK"
  /\ idx[t] < Len(call[t].list)
  /\ idx' = [idx EXCEPT ![t] = @ + 1]
  /\ Goto(t, TakePc(call[t].list[idx[t] + 1]))
  /\ UNCHANGED ret

SelectNothing(t, st) ==
  /\ call[t].op = "select"
  /\ st = "WOULDBLOCK"
  /\ idx[t] = Len(call[t].list)
  /\ Goto(t, "select_wait")
  /\ UNCHANGED <<idx, ret>>

Return(t, st) ==
  ReturnDirect(t, st) \/ SelectDecided(t, st) \/ SelectNext(t, st) \/ SelectNothing(t, st)

-----------------------------------------------------------------------------
(* The client: how the programs in this repository call the channels       *)

StartPc == [create |-> "create", send |-> "send_take", recv |-> "recv_take",
            select |-> "reg_lock", close |-> "close_lock",
            destroy |-> "destroy_check"]

InCall(t) == pc[t] # "ready"

\* "The caller is responsible for calling channel_close and waiting for all
\* threads to finish their tasks before calling channel_destroy"
\* (channel.h:97): nobody else is in a call on the channel when a destroy
\* starts, and nobody starts one while it runs.
Contract(r) ==
  \A i \in DOMAIN r.list :
    LET c == r.list[i].channel IN
    /\ c \in Chan
    /\ life[c] = (IF r.op = "create" THEN "none" ELSE "live")
    /\ \A u \in Thread : InCall(u) /\ Names(call[u], c) =>
         r.op \notin {"create", "destroy"} /\ call[u].op \notin {"create", "destroy"}

Invoke(t) ==
  /\ At(t, "ready")
  /\ calls[t] < MaxCalls[t]
  /\ \E r \in Menu[t] :
       /\ Contract(r)
       /\ call' = [call EXCEPT ![t] = r]
       /\ Goto(t, StartPc[r.op])
       /\ local' = IF r.op = "select" THEN [local EXCEPT ![t] = 0] ELSE local
  /\ calls' = [calls EXCEPT ![t] = @ + 1]
  /\ idx' = [idx EXCEPT ![t] = 1]
  /\ ret' = [ret EXCEPT ![t] = NoOutcome]
  /\ UNCHANGED <<chanVars, list, locked>>

\* A NULL channel pointer is refused before anything is touched.
NullCall(t) ==
  /\ At(t, "ready")
  /\ calls[t] < MaxCalls[t]
  /\ \E r \in Menu[t] :
       r.op \in {"send", "recv", "close", "destroy"} /\ r.list[1].channel = NoChan
  /\ calls' = [calls EXCEPT ![t] = @ + 1]
  /\ ret' = [ret EXCEPT ![t] = [NoOutcome EXCEPT !.status = "OTHER_ERROR"]]
  /\ UNCHANGED <<chanVars, listVars, call, pc, idx>>

-----------------------------------------------------------------------------
(* channel_create and channel_destroy                                      *)

\* Mutant: one permit more than the buffer has slots.
CreateOneMore(t) ==
  /\ At(t, "create")
  /\ LET c == Ch(t) IN
     /\ Cap[c] > 0
     /\ life' = [life EXCEPT ![c] = "live"]
     /\ closed' = [closed EXCEPT ![c] = FALSE]
     /\ buf' = [buf EXCEPT ![c] = <<>>]
     /\ mutex' = [mutex EXCEPT ![c] = 1]
     /\ available' = [available EXCEPT ![c] = Cap[c] + 1]
     /\ used' = [used EXCEPT ![c] = 0]
     /\ list' = [s \in Side |-> [list[s] EXCEPT ![c] = <<>>]]
     /\ locked' = [s \in Side |-> [locked[s] EXCEPT ![c] = FALSE]]
  /\ ReturnDirect(t, "SUCCESS")
  /\ UNCHANGED <<local, callVars>>

Create(t) ==
  /\ At(t, "create")
  /\ LET c == Ch(t) IN
     /\ Cap[c] > 0
     /\ life' = [life EXCEPT ![c] = "live"]
     /\ closed' = [closed EXCEPT ![c] = FALSE]
     /\ buf' = [buf EXCEPT ![c] = <<>>]
     /\ mutex' = [mutex EXCEPT ![c] = 1]
     /\ available' = [available EXCEPT ![c] = Cap[c]]
     /\ used' = [used EXCEPT ![c] = 0]
     /\ list' = [s \in Side |-> [list[s] EXCEPT ![c] = <<>>]]
     /\ locked' = [s \in Side |-> [locked[s] EXCEPT ![c] = FALSE]]
  /\ ReturnDirect(t, "SUCCESS")
  /\ UNCHANGED <<local, callVars>>

\* Size 0: nothing is created and NULL is returned.
CreateUnbuffered(t) ==
  /\ At(t, "create")
  /\ Cap[Ch(t)] = 0
  /\ ReturnDirect(t, "NULL")
  /\ UNCHANGED <<chanVars, listVars, callVars>>

\* closed is read without the mutex.
DestroyOpen(t) ==
  /\ At(t, "destroy_check")
  /\ ~closed[Ch(t)]
  /\ ReturnDirect(t, "DESTROY_ERROR")
  /\ UNCHANGED <<chanVars, listVars, callVars>>

DestroyClosed(t) ==
  /\ At(t, "destroy_check")
  /\ closed[Ch(t)]
  /\ Goto(t, "destroy_free")
  /\ UNCHANGED <<chanVars, listVars, callVars, idx, ret>>

DestroyFree(t) ==
  /\ At(t, "destroy_free")
  /\ life' = [life EXCEPT ![Ch(t)] = "dead"]
  /\ ReturnDirect(t, "SUCCESS")
  /\ UNCHANGED <<closed, buf, mutex, available, used, listVars, callVars>>

-----------------------------------------------------------------------------
(* channel_send                                                            *)

\* Mutant: the wait does not wait.
SendTakeNoWait(t) ==
  /\ At(t, "send_take")
  /\ available' = Minus(available, Ch(t))
  /\ Goto(t, "send_lock")
  /\ UNCHANGED <<life, closed, buf, mutex, used, listVars, callVars, idx, ret>>

\* sem_wait, or a sem_trywait that succeeds.
SendTake(t) ==
  /\ At(t, "send_take")
  /\ Wait(available, Ch(t))
  /\ available' = Minus(available, Ch(t))
  /\ Goto(t, "send_lock")
  /\ UNCHANGED <<life, closed, buf, mutex, used, listVars, callVars, idx, ret>>

\* A sem_trywait that fails.
SendMiss(t) ==
  /\ At(t, "send_take")
  /\ ~call[t].blocking
  /\ ~Wait(available, Ch(t))
  /\ Goto(t, "send_miss_lock")
  /\ UNCHANGED <<chanVars, listVars, callVars, idx, ret>>

SendMissLock(t) ==
  /\ At(t, "send_miss_lock")
  /\ Wait(mutex, Ch(t))
  /\ mutex' = Minus(mutex, Ch(t))
  /\ Goto(t, "send_miss_cs")
  /\ UNCHANGED <<life, closed, buf, available, used, listVars, callVars, idx, ret>>

\* Mutant: closed is not looked at after a failed trywait.
SendMissReportNoCheck(t) ==
  /\ At(t, "send_miss_cs")
  /\ mutex' = Plus(mutex, Ch(t))
  /\ Return(t, "WOULDBLOCK")
  /\ UNCHANGED <<life, closed, buf, available, used, listVars, callVars>>

SendMissReport(t) ==
  /\ At(t, "send_miss_cs")
  /\ mutex' = Plus(mutex, Ch(t))
  /\ Return(t, IF closed[Ch(t)] THEN "CLOSED_ERROR" ELSE "WOULDBLOCK")
  /\ UNCHANGED <<life, closed, buf, available, used, listVars, callVars>>

SendLock(t) ==
  /\ At(t, "send_lock")
  /\ Wait(mutex, Ch(t))
  /\ mutex' = Minus(mutex, Ch(t))
  /\ Goto(t, "send_cs")
  /\ UNCHANGED <<life, closed, buf, available, used, listVars, callVars, idx, ret>>

SendClosed(t) ==
  /\ At(t, "send_cs")
  /\ closed[Ch(t)]
  /\ mutex' = Plus(mutex, Ch(t))
  /\ Goto(t, "send_give_back")
  /\ UNCHANGED <<life, closed, buf, available, used, listVars, callVars, idx, ret>>

\* Mutant: the permit is kept on the way out.
SendGiveBackKeep(t) ==
  /\ At(t, "send_give_back")
  /\ UNCHANGED available
  /\ Return(t, "CLOSED_ERROR")
  /\ UNCHANGED <<life, closed, buf, mutex, used, listVars, callVars>>

\* The permit goes back: it wakes the next blocked sender.
SendGiveBack(t) ==
  /\ At(t, "send_give_back")
  /\ available' = Plus(available, Ch(t))
  /\ Return(t, "CLOSED_ERROR")
  /\ UNCHANGED <<life, closed, buf, mutex, used, listVars, callVars>>

\* Mutant: closed is checked before the mutex only.
SendAddLate(t) ==
  /\ At(t, "send_cs")
  /\ LET c == Ch(t) IN
     /\ mutex' = Plus(mutex, c)
     /\ IF Len(buf[c]) < Cap[c]
        THEN /\ buf' = [buf EXCEPT ![c] = Append(@, Cur(t).data)]
             /\ Goto(t, "send_post")
             /\ UNCHANGED <<idx, ret>>
        ELSE /\ Return(t, "OTHER_ERROR")
             /\ UNCHANGED buf
  /\ UNCHANGED <<life, closed, available, used, listVars, callVars>>

\* buffer_add; when it fails the permit is not given back.
SendAdd(t) ==
  /\ At(t, "send_cs")
  /\ LET c == Ch(t) IN
     /\ ~closed[c]
     /\ mutex' = Plus(mutex, c)
     /\ IF Len(buf[c]) < Cap[c]
        THEN /\ buf' = [buf EXCEPT ![c] = Append(@, Cur(t).data)]
             /\ Goto(t, "send_post")
             /\ UNCHANGED <<idx, ret>>
        ELSE /\ Return(t, "OTHER_ERROR")
             /\ UNCHANGED buf
  /\ UNCHANGED <<life, closed, available, used, listVars, callVars>>

SendPost(t) ==
  /\ At(t, "send_post")
  /\ used' = Plus(used, Ch(t))
  /\ Goto(t, "send_notify_lock")
  /\ UNCHANGED <<life, closed, buf, mutex, available, listVars, callVars, idx, ret>>

SendNotifyLock(t) ==
  /\ At(t, "send_notify_lock")
  /\ Lock("send", Ch(t))
  /\ Goto(t, "send_notify")
  /\ UNCHANGED <<chanVars, list, local, callVars, idx, ret>>

\* Mutant: send_list is not notified.
SendNotifySilent(t) ==
  /\ At(t, "send_notify")
  /\ UNCHANGED local
  /\ Unlock("send", Ch(t))
  /\ Return(t, "SUCCESS")
  /\ UNCHANGED <<chanVars, list, callVars>>

SendNotify(t) ==
  /\ At(t, "send_notify")
  /\ list_foreach("send", Ch(t))
  /\ Unlock("send", Ch(t))
  /\ Return(t, "SUCCESS")
  /\ UNCHANGED <<chanVars, list, callVars>>

-----------------------------------------------------------------------------
(* channel_receive                                                         *)

RecvTake(t) ==
  /\ At(t, "recv_take")
  /\ Wait(used, Ch(t))
  /\ used' = Minus(used, Ch(t))
  /\ Goto(t, "recv_lock")
  /\ UNCHANGED <<life, closed, buf, mutex, available, listVars, callVars, idx, ret>>

RecvMiss(t) ==
  /\ At(t, "recv_take")
  /\ ~call[t].blocking
  /\ ~Wait(used, Ch(t))
  /\ Goto(t, "recv_miss_lock")
  /\ UNCHANGED <<chanVars, listVars, callVars, idx, ret>>

RecvMissLock(t) ==
  /\ At(t, "recv_miss_lock")
  /\ Wait(mutex, Ch(t))
  /\ mutex' = Minus(mutex, Ch(t))
  /\ Goto(t, "recv_miss_cs")
  /\ UNCHANGED <<life, closed, buf, available, used, listVars, callVars, idx, ret>>

\* Mutant: the early return keeps the mutex.
RecvMissOpenLocked(t) ==
  /\ At(t, "recv_miss_cs")
  /\ ~closed[Ch(t)]
  /\ UNCHANGED mutex
  /\ Return(t, "WOULDBLOCK")
  /\ UNCHANGED <<life, closed, buf, available, used, listVars, callVars>>

\* Mutant: used is posted as on a closed channel.
RecvMissOpenPoke(t) ==
  /\ At(t, "recv_miss_cs")
  /\ ~closed[Ch(t)]
  /\ mutex' = Plus(mutex, Ch(t))
  /\ Return(t, "WOULDBLOCK")
  /\ used' = Plus(used, Ch(t))
  /\ UNCHANGED <<life, closed, buf, available, listVars, callVars>>

RecvMissOpen(t) ==
  /\ At(t, "recv_miss_cs")
  /\ ~closed[Ch(t)]
  /\ mutex' = Plus(mutex, Ch(t))
  /\ Return(t, "WOULDBLOCK")
  /\ UNCHANGED <<life, closed, buf, available, used, listVars, callVars>>

\* Unlike channel_send, a miss on a closed channel goes on to post used.
RecvMissClosed(t) ==
  /\ At(t, "recv_miss_cs")
  /\ closed[Ch(t)]
  /\ mutex' = Plus(mutex, Ch(t))
  /\ Goto(t, "recv_give_back")
  /\ UNCHANGED <<life, closed, buf, available, used, listVars, callVars, idx, ret>>

RecvLock(t) ==
  /\ At(t, "recv_lock")
  /\ Wait(mutex, Ch(t))
  /\ mutex' = Minus(mutex, Ch(t))
  /\ Goto(t, "recv_cs")
  /\ UNCHANGED <<life, closed, buf, available, used, listVars, callVars, idx, ret>>

RecvClosed(t) ==
  /\ At(t, "recv_cs")
  /\ closed[Ch(t)]
  /\ mutex' = Plus(mutex, Ch(t))
  /\ Goto(t, "recv_give_back")
  /\ UNCHANGED <<life, closed, buf, available, used, listVars, callVars, idx, ret>>

RecvGiveBack(t) ==
  /\ At(t, "recv_give_back")
  /\ used' = Plus(used, Ch(t))
  /\ Return(t, "CLOSED_ERROR")
  /\ UNCHANGED <<life, closed, buf, mutex, available, listVars, callVars>>

\* buffer_remove and the store through the data parameter.  A message that
\* is the BUFFER_EMPTY pointer leaves the buffer but is taken for an empty one.
RecvRemove(t) ==
  /\ At(t, "recv_cs")
  /\ LET c == Ch(t)
         remData == IF buf[c] = <<>> THEN BufferEmpty ELSE Head(buf[c]) IN
     /\ ~closed[c]
     /\ mutex' = Plus(mutex, c)
     /\ buf' = [buf EXCEPT ![c] = IF @ = <<>> THEN @ ELSE Tail(@)]
     /\ IF remData = BufferEmpty
        THEN Return(t, "OTHER_ERROR")
        ELSE /\ ret' = [ret EXCEPT ![t].data = remData]
             /\ Goto(t, "recv_post")
             /\ UNCHANGED idx
  /\ UNCHANGED <<life, closed, available, used, listVars, callVars>>

\* Mutant: the freed slot is not announced.
RecvPostForget(t) ==
  /\ At(t, "recv_post")
  /\ UNCHANGED available
  /\ Goto(t, "recv_notify_lock")
  /\ UNCHANGED <<life, closed, buf, mutex, used, listVars, callVars, idx, ret>>

RecvPost(t) ==
  /\ At(t, "recv_post")
  /\ available' = Plus(available, Ch(t))
  /\ Goto(t, "recv_notify_lock")
  /\ UNCHANGED <<life, closed, buf, mutex, used, listVars, callVars, idx, ret>>

RecvNotifyLock(t) ==
  /\ At(t, "recv_notify_lock")
  /\ Lock("recv", Ch(t))
  /\ Goto(t, "recv_notify")
  /\ UNCHANGED <<chanVars, list, local, callVars, idx, ret>>

RecvNotify(t) ==
  /\ At(t, "recv_notify")
  /\ list_foreach("recv", Ch(t))
  /\ Unlock("recv", Ch(t))
  /\ Return(t, "SUCCESS")
  /\ UNCHANGED <<chanVars, list, callVars>>

-----------------------------------------------------------------------------
(* channel_close                                                           *)

CloseLock(t) ==
  /\ At(t, "close_lock")
  /\ Wait(mutex, Ch(t))
  /\ mutex' = Minus(mutex, Ch(t))
  /\ Goto(t, "close_cs")
  /\ UNCHANGED <<life, closed, buf, available, used, listVars, callVars, idx, ret>>

CloseAgain(t) ==
  /\ At(t, "close_cs")
  /\ closed[Ch(t)]
  /\ mutex' = Plus(mutex, Ch(t))
  /\ ReturnDirect(t, "CLOSED_ERROR")
  /\ UNCHANGED <<life, closed, buf, available, used, listVars, callVars>>

CloseSet(t) ==
  /\ At(t, "close_cs")
  /\ ~closed[Ch(t)]
  /\ closed' = [closed EXCEPT ![Ch(t)] = TRUE]
  /\ Goto(t, "close_post_available")
  /\ UNCHANGED <<life, buf, mutex, available, used, listVars, callVars, idx, ret>>

ClosePostAvailable(t) ==
  /\ At(t, "close_post_available")
  /\ available' = Plus(available, Ch(t))
  /\ Goto(t, "close_post_used")
  /\ UNCHANGED <<life, closed, buf, mutex, used, listVars, callVars, idx, ret>>

\* Mutant: only a sender is poked.
ClosePostUsedSendersOnly(t) ==
  /\ At(t, "close_post_used")
  /\ UNCHANGED used
  /\ mutex' = Plus(mutex, Ch(t))
  /\ Goto(t, "close_send_lock")
  /\ UNCHANGED <<life, closed, buf, available, listVars, callVars, idx, ret>>

\* The post of used and the unlock that ends the critical section.
ClosePostUsed(t) ==
  /\ At(t, "close_post_used")
  /\ used' = Plus(used, Ch(t))
  /\ mutex' = Plus(mutex, Ch(t))
  /\ Goto(t, "close_send_lock")
  /\ UNCHANGED <<life, closed, buf, available, listVars, callVars, idx, ret>>

CloseSendLock(t) ==
  /\ At(t, "close_send_lock")
  /\ Lock("send", Ch(t))
  /\ Goto(t, "close_send_notify")
  /\ UNCHANGED <<chanVars, list, local, callVars, idx, ret>>

\* Mutant: selects waiting for senders are not notified.
CloseSendNotifySilent(t) ==
  /\ At(t, "close_send_notify")
  /\ UNCHANGED local
  /\ Unlock("send", Ch(t))
  /\ Goto(t, "close_recv_lock")
  /\ UNCHANGED <<chanVars, list, callVars, idx, ret>>

CloseSendNotify(t) ==
  /\ At(t, "close_send_notify")
  /\ list_foreach("send", Ch(t))
  /\ Unlock("send", Ch(t))
  /\ Goto(t, "close_recv_lock")
  /\ UNCHANGED <<chanVars, list, callVars, idx, ret>>

CloseRecvLock(t) ==
  /\ At(t, "close_recv_lock")
  /\ Lock("recv", Ch(t))
  /\ Goto(t, "close_recv_notify")
  /\ UNCHANGED <<chanVars, list, local, callVars, idx, ret>>

CloseRecvNotify(t) ==
  /\ At(t, "close_recv_notify")
  /\ list_foreach("recv", Ch(t))
  /\ Unlock("recv", Ch(t))
  /\ ReturnDirect(t, "SUCCESS")
  /\ UNCHANGED <<chanVars, list, callVars>>

-----------------------------------------------------------------------------
(* channel_select: register, scan, wait, unregister                        *)

\* Mutant: each entry is registered with its own side.
WatchOwnSide(e) == IF e.is_send THEN "send" ELSE "recv"

\* A sending entry waits for receivers (recv_list), a receiving one for senders.
WatchSide(e) == IF e.is_send THEN "recv" ELSE "send"

Registered(t, side, c) == t \in ToSet(list[side][c])

RegLock(t) ==
  /\ At(t, "reg_lock")
  /\ Lock(WatchSide(Cur(t)), Ch(t))
  /\ Goto(t, "reg_insert")
  /\ UNCHANGED <<chanVars, list, local, callVars, idx, ret>>

\* Mutant: list_find is not asked first.
RegInsertTwice(t) ==
  /\ At(t, "reg_insert")
  /\ LET s == WatchSide(Cur(t))
         c == Ch(t) IN
     /\ list' = [list EXCEPT ![s][c] = list_insert(@, t)]
     /\ Unlock(s, c)
  /\ IF idx[t] < Len(call[t].list)
     THEN /\ idx' = [idx EXCEPT ![t] = @ + 1]
          /\ Goto(t, "reg_lock")
     ELSE /\ idx' = [idx EXCEPT ![t] = 1]
          /\ Goto(t, TakePc(call[t].list[1]))
  /\ UNCHANGED <<chanVars, local, callVars, ret>>

\* list_insert says nothing when malloc fails, and the select goes on.
RegInsert(t) ==
  /\ At(t, "reg_insert")
  /\ LET s == WatchSide(Cur(t))
         c == Ch(t) IN
     /\ \/ /\ ~Registered(t, s, c)
           /\ list' = [list EXCEPT ![s][c] = list_insert(@, t)]
        \/ /\ Registered(t, s, c) \/ t \in Failing
           /\ UNCHANGED list
     /\ Unlock(s, c)
  /\ IF idx[t] < Len(call[t].list)
     THEN /\ idx' = [idx EXCEPT ![t] = @ + 1]
          /\ Goto(t, "reg_lock")
     ELSE /\ idx' = [idx EXCEPT ![t] = 1]
          /\ Goto(t, TakePc(call[t].list[1]))
  /\ UNCHANGED <<chanVars, local, callVars, ret>>

\* sem_wait(&local), then the scan starts again at the first entry.
SelectWake(t) ==
  /\ At(t, "select_wait")
  /\ local[t] > 0
  /\ local' = [local EXCEPT ![t] = @ - 1]
  /\ idx' = [idx EXCEPT ![t] = 1]
  /\ Goto(t, TakePc(call[t].list[1]))
  /\ UNCHANGED <<chanVars, list, locked, callVars, ret>>

UnregLock(t) ==
  /\ At(t, "unreg_lock")
  /\ Lock(WatchSide(Cur(t)), Ch(t))
  /\ Goto(t, "unreg_remove")
  /\ UNCHANGED <<chanVars, list, local, callVars, idx, ret>>

\* The last removal is followed by sem_destroy(&local) and the return.
UnregRemove(t) ==
  /\ At(t, "unreg_remove")
  /\ LET s == WatchSide(Cur(t))
         c == Ch(t) IN
     /\ list' = IF Registered(t, s, c)
                THEN [list EXCEPT ![s][c] = list_remove(@, t)]
                ELSE list
     /\ Unlock(s, c)
  /\ IF idx[t] < Len(call[t].list)
     THEN /\ idx' = [idx EXCEPT ![t] = @ + 1]
          /\ Goto(t, "unreg_lock")
          /\ UNCHANGED local
     ELSE /\ Goto(t, "ready")
          /\ local' = [local EXCEPT ![t] = 0]
          /\ UNCHANGED idx
  /\ UNCHANGED <<chanVars, callVars, ret>>

-----------------------------------------------------------------------------
SendStep(t) ==
  \/ SendTake(t) \/ SendMiss(t) \/ SendMissLock(t) \/ SendMissReport(t)
  \/ SendLock(t) \/ SendClosed(t) \/ SendGiveBack(t) \/ SendAdd(t)
  \/ SendPost(t) \/ SendNotifyLock(t) \/ SendNotify(t)

RecvStep(t) ==
  \/ RecvTake(t) \/ RecvMiss(t) \/ RecvMissLock(t) \/ RecvMissOpen(t)
  \/ RecvMissClosed(t) \/ RecvLock(t) \/ RecvClosed(t) \/ RecvGiveBack(t)
  \/ RecvRemove(t) \/ RecvPost(t) \/ RecvNotifyLock(t) \/ RecvNotify(t)

CloseStep(t) ==
  \/ CloseLock(t) \/ CloseAgain(t) \/ CloseSet(t) \/ ClosePostAvailable(t)
  \/ ClosePostUsed(t) \/ CloseSendLock(t) \/ CloseSendNotify(t)
  \/ CloseRecvLock(t) \/ CloseRecvNotify(t)

SelectStep(t) ==
  \/ RegLock(t) \/ RegInsert(t) \/ SelectWake(t) \/ UnregLock(t) \/ UnregRemove(t)

LifeStep(t) ==
  \/ Create(t) \/ CreateUnbuffered(t)
  \/ DestroyOpen(t) \/ DestroyClosed(t) \/ DestroyFree(t)

\* What a thread inside a call does; the client's next call is its own choice.
Step(t) == SendStep(t) \/ RecvStep(t) \/ CloseStep(t) \/ SelectStep(t) \/ LifeStep(t)

Init ==
  /\ life = [c \in Chan |-> "none"]
  /\ closed = [c \in Chan |-> FALSE]
  /\ buf = [c \in Chan |-> <<>>]
  /\ mutex = [c \in Chan |-> 0]
  /\ available = [c \in Chan |-> 0]
  /\ used = [c \in Chan |-> 0]
  /\ list = [s \in Side |-> [c \in Chan |-> <<>>]]
  /\ locked = [s \in Side |-> [c \in Chan |-> FALSE]]
  /\ local = [t \in Thread |-> 0]
  /\ pc = [t \in Thread |-> "ready"]
  /\ call = [t \in Thread |-> NoCall]
  /\ idx = [t \in Thread |-> 1]
  /\ ret = [t \in Thread |-> NoOutcome]
  /\ calls = [t \in Thread |-> 0]

Next == \E t \in Thread : Invoke(t) \/ NullCall(t) \/ Step(t)

Spec == Init /\ [][Next]_vars

\* The operating system runs every thread that can run: a thread in a call
\* that can take its next step does not wait for ever.
FairSpec == Spec /\ \A t \in Thread : WF_vars(Step(t))

-----------------------------------------------------------------------------
(* Properties                                                              *)

PcSet == {"ready", "create", "destroy_check", "destroy_free",
  "send_take", "send_miss_lock", "send_miss_cs", "send_lock", "send_cs",
  "send_give_back", "send_post", "send_notify_lock", "send_notify",
  "recv_take", "recv_miss_lock", "recv_miss_cs", "recv_lock", "recv_cs",
  "recv_give_back", "recv_post", "recv_notify_lock", "recv_notify",
  "close_lock", "close_cs", "close_post_available", "close_post_used",
  "close_send_lock", "close_send_notify", "close_recv_lock", "close_recv_notify",
  "reg_lock", "reg_insert", "select_wait", "unreg_lock", "unreg_remove"}

ChanTypeOK ==
  /\ life \in [Chan -> {"none", "live", "dead"}]
  /\ closed \in [Chan -> BOOLEAN]
  /\ buf \in [Chan -> Seq(Msg)]
  /\ mutex \in [Chan -> Nat]
  /\ available \in [Chan -> Nat]
  /\ used \in [Chan -> Nat]

ListTypeOK ==
  /\ list \in [Side -> [Chan -> Seq(Thread)]]
  /\ locked \in [Side -> [Chan -> BOOLEAN]]
  /\ local \in [Thread -> Nat]

ThreadTypeOK ==
  /\ pc \in [Thread -> PcSet]
  /\ call \in [Thread -> Call]
  /\ idx \in [Thread -> Nat \ {0}]
  /\ ret \in [Thread -> Outcome]
  /\ calls \in [Thread -> Nat]
  /\ \A t \in Thread : InCall(t) =>
       /\ WellFormed(call[t])
       /\ \A i \in DOMAIN call[t].list : call[t].list[i].channel \in Chan
       /\ idx[t] \in DOMAIN call[t].list

\* The type invariant: a semaphore never goes below zero, and a thread in a
\* call works on an entry of a well-formed call whose channels exist.
TypeOK == ChanTypeOK /\ ListTypeOK /\ ThreadTypeOK

\* The threads at one of the given places that work on channel c.
AtCh(places, c) == {t \in Thread : pc[t] \in places /\ Ch(t) = c}

MutexPc == {"send_miss_cs", "send_cs", "recv_miss_cs", "recv_cs",
            "close_cs", "close_post_available", "close_post_used"}

\* mutex is a lock: it is up exactly when nobody is between its wait and its
\* post, on every path through send, receive and close, early returns too
\* (channel.c:104-114, 127-152, 191-203, 216-243, 272-295).
MutexIsALock ==
  \A c \in Chan : life[c] # "none" =>
    mutex[c] + Cardinality(AtCh(MutexPc, c)) = 1

\* Where a thread holds a permit to add, or owes one for what it removed; and
\* the same for permits to remove.
RoomPc == {"send_lock", "send_cs", "send_give_back", "recv_post"}
MessagePc == {"recv_lock", "recv_cs", "send_post"}

\* While a channel is open, permits are conserved: every free slot is a permit
\* in available, one a sender holds, or one a receiver is about to post; every
\* message is a permit in used, one a receiver holds, or one its sender is
\* about to post.  No early return loses or invents one (channel.c:82-256).
PermitsConserved ==
  \A c \in Chan : life[c] # "none" /\ ~closed[c] =>
    /\ available[c] + Cardinality(AtCh(RoomPc, c)) + Len(buf[c]) = Cap[c]
    /\ used[c] + Cardinality(AtCh(MessagePc, c)) = Len(buf[c])

\* The OTHER_ERROR exits of send and receive (channel.c:144-149, 233-238),
\* which would leak a permit, cannot be taken: whoever reaches the buffer of an
\* open channel with a permit finds room, or a message.
PermitMeansRoom ==
  \A t \in Thread :
    /\ pc[t] = "send_cs" /\ ~closed[Ch(t)] => Len(buf[Ch(t)]) < Cap[Ch(t)]
    /\ pc[t] = "recv_cs" /\ ~closed[Ch(t)] => buf[Ch(t)] # <<>>

\* Closing is final and freezes the buffer: a call that took its permit before
\* the close and reaches the mutex after it changes nothing (channel.c:130-137,
\* 219-226).
ClosedIsFrozen ==
  [][\A c \in Chan : closed[c] => closed'[c] /\ buf'[c] = buf[c]]_vars

\* The chain that wakes blocked threads after a close never breaks: once the
\* closer has posted, some permit of each kind is up or in the hands of a
\* thread that will give it back (channel.c:281-292).
DominoAlive ==
  \A c \in Chan : closed[c] /\ life[c] = "live" =>
    \/ AtCh({"close_post_available", "close_post_used"}, c) # {}
    \/ /\ available[c] > 0 \/ AtCh(RoomPc, c) # {}
       /\ used[c] > 0 \/ AtCh(MessagePc \cup {"recv_give_back"}, c) # {}

RegisterPc == {"reg_lock", "reg_insert"}
UnregisterPc == {"unreg_lock", "unreg_remove"}

\* t must be on list side of channel c: it is in a select whose array has an
\* entry there that it has registered and not yet unregistered.
MustWatch(t, side, c) ==
  LET Here(i) == /\ call[t].list[i].channel = c
                 /\ WatchSide(call[t].list[i]) = side
      all == DOMAIN call[t].list IN
  /\ InCall(t) /\ call[t].op = "select"
  /\ IF pc[t] \in RegisterPc THEN \E i \in all : i < idx[t] /\ Here(i)
     ELSE /\ \E i \in all : Here(i)
          /\ pc[t] \in UnregisterPc => \A i \in all : i < idx[t] => ~Here(i)

\* The lists hold exactly the local semaphores of the selects that wait on
\* them, each once even when an array names a channel twice: no post reaches
\* a semaphore whose stack frame is gone (channel.c:373-400, 432-461), and a
\* destroyed channel has nobody on its lists.  Only a select whose malloc failed
\* may be missing, and its way out finds nothing to remove.
ListsHoldLiveSelects ==
  \A s \in Side : \A c \in Chan : \A t \in Thread :
    LET times == Cardinality({k \in DOMAIN list[s][c] : list[s][c][k] = t})
    IN  /\ times <= (IF MustWatch(t, s, c) THEN 1 ELSE 0)
        /\ MustWatch(t, s, c) /\ t \notin Failing => times = 1

\* Threads that still have to run list_foreach on that list after the change
\* a select waits for (receivers notify recv_list, senders send_list).
OwesNotification(side, c) ==
  AtCh({"close_post_available", "close_post_used", "close_send_lock", "close_send_notify"}
         \cup (IF side = "recv"
               THEN {"recv_notify_lock", "recv_notify", "close_recv_lock", "close_recv_notify"}
               ELSE {"send_notify_lock", "send_notify"}), c)

Ready(e) ==
  \/ closed[e.channel]
  \/ e.is_send /\ available[e.channel] > 0
  \/ ~e.is_send /\ used[e.channel] > 0

\* The registration of this entry of t's array failed.
Unheard(t, e) == t \in Failing /\ ~Registered(t, WatchSide(e), e.channel)

\* No wakeup is lost between the scan that found nothing and the wait: if a
\* select is blocked on its local semaphore and one of its registered entries
\* could go ahead, the thread that made it so has not run list_foreach yet, even
\* when another entry or another select could not be registered
\* (channel.c:153-162, 245-253, 466; linked_list.c:91-93).
NoLostWakeup ==
  \A t \in Thread : pc[t] = "select_wait" /\ local[t] = 0 =>
    \A i \in DOMAIN call[t].list :
      LET e == call[t].list[i] IN
      Ready(e) /\ ~Unheard(t, e) => OwesNotification(WatchSide(e), e.channel) # {}

\* A select that waits although it could not be registered everywhere: nothing in
\* the code promises that it wakes.
Abandoned(t) ==
  pc[t] = "select_wait" /\ \E i \in DOMAIN call[t].list : Unheard(t, call[t].list[i])

\* "Closes the channel and informs all the blocking send/receive/select calls
\* to return" (channel.c:258): every call on a closed channel returns, but for a
\* select whose own malloc failed; that select keeps nobody else.
CloseReturnsEveryCall ==
  \A t \in Thread : \A c \in Chan :
    (InCall(t) /\ closed[c] /\ Names(call[t], c)) ~> (~InCall(t) \/ Abandoned(t))

\* A blocked sender, receiver or select does not sleep beside room, a message
\* or a ready entry for ever: it proceeds or somebody else takes the chance, and
\* a select that is nowhere registered takes it from nobody (channel.c:82-468).
NobodySleepsBesideWork ==
  \A t \in Thread : \A c \in Chan :
    /\ (pc[t] = "send_take" /\ Ch(t) = c /\ Len(buf[c]) < Cap[c])
         ~> (pc[t] # "send_take" \/ Len(buf[c]) = Cap[c])
    /\ (pc[t] = "recv_take" /\ Ch(t) = c /\ buf[c] # <<>>)
         ~> (pc[t] # "recv_take" \/ buf[c] = <<>>)
    /\ (pc[t] = "select_wait" /\ \E i \in DOMAIN call[t].list : Ready(call[t].list[i]))
         ~> \/ pc[t] # "select_wait" \/ Abandoned(t)
            \/ \A i \in DOMAIN call[t].list : ~Ready(call[t].list[i])

-----------------------------------------------------------------------------
(* The channels implement ChannelSpec.  A call is let in when it has its   *)
(* permit, takes effect when it changes the buffer, and hands over when it *)
(* posts the other semaphore; a close takes effect when it sets closed.    *)
(* From then on the thread is only notifying or unregistering.             *)

absPhase ==
  [t \in Thread |->
    CASE pc[t] = "ready" -> "idle"
      [] pc[t] \in {"send_miss_lock", "send_miss_cs", "recv_miss_lock", "recv_miss_cs"}
           -> IF call[t].op = "select" THEN "pending" ELSE "refused"
      [] pc[t] \in {"send_lock", "send_cs", "recv_lock", "recv_cs"} -> "granted"
      [] pc[t] \in {"send_post", "recv_post"} -> "owing"
      [] pc[t] \in {"send_give_back", "send_notify_lock", "send_notify",
                    "recv_give_back", "recv_notify_lock", "recv_notify",
                    "close_post_available", "close_post_used", "close_send_lock",
                    "close_send_notify", "close_recv_lock", "close_recv_notify",
                    "unreg_lock", "unreg_remove"} -> "decided"
      [] OTHER -> "pending"]

\* What is stored when the call returns, or not yet stored when it is decided.
absOutcome ==
  [t \in Thread |->
    CASE absPhase[t] \in {"pending", "refused"} -> NoOutcome
      [] absPhase[t] = "granted" -> [NoOutcome EXCEPT !.index = idx[t]]
      [] pc[t] \in {"send_give_back", "recv_give_back"}
           -> [ret[t] EXCEPT !.status = "CLOSED_ERROR", !.index = idx[t]]
      [] pc[t] = "ready" \/ pc[t] \in UnregisterPc -> ret[t]
      [] OTHER -> [ret[t] EXCEPT !.status = "SUCCESS", !.index = idx[t]]]

Abs == INSTANCE ChannelSpec WITH queue <- buf, phase <- absPhase, outcome <- absOutcome

\* Whatever the interleaving, the code's steps are steps of the bounded queue, or
\* change nothing a caller can see: messages come out in the order they went in,
\* none is lost, duplicated or made up, a select acts on the one entry it
\* reports, CLOSED_ERROR is true, and a call is refused only at an instant of its
\* own at which every place (every message) was in somebody's hands, and then
\* reports WOULDBLOCK only if the channel was still open (channel.c:82-468).
ImplementsChannelSpec == Abs!AbsSpec
=============================================================================
