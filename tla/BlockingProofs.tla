--------------------------- MODULE BlockingProofs ---------------------------
(***************************************************************************)
(* That blocking, preemption and waking go right in Queue, for every       *)
(* instance: BlockedConsistently, HighestPriorityRuns, NoLostItem and      *)
(* NoLostSlot are invariants and ListsLocked holds of every step.  None    *)
(* is inductive.                                                           *)
(*                                                                         *)
(* What the first two lack is what the running task knows at each point    *)
(* of its code: that it is itself ready unless it is about to yield        *)
(* (CurrentReady), and that its time is not up when it goes to sleep       *)
(* (Fresh).  What the two about lost wake-ups lack is that whoever is in   *)
(* a list goes back to the head of its loop (WaitersTry), and that a task  *)
(* about to block has either found nothing or is owed a counted wake-up    *)
(* (PlaceInTime).                                                          *)
(***************************************************************************)
EXTENDS QueueProofs, FiniteSetTheorems

Blocking(t) ==
    \/ pc[t] = "yield"
    \/ pc[t] \in {"unlockTx", "unlockRx", "resume"} /\ after[t] \in {"block", "delayed"}

(* The running task is in its ready list until it has put itself in        *)
(* another, unless PendSV is pending and about to switch it out.           *)
CurrentReady ==
    (pc[pxCurrentTCB] \in Inside \/ ~pendSV) /\ ~Blocking(pxCurrentTCB)
        => stateList[pxCurrentTCB] = Ready

(* Between xTaskCheckForTimeOut and the blocking no time elapses: the      *)
(* scheduler is suspended and ticks are only counted.                      *)
Fresh == \A t \in Task : pc[t] \in {"test", "place"} => xTimeOut[t] = "running"

(* The parts of the two properties.                                        *)
ListsAgree ==
    \A t \in Task :
        /\ eventList[t] # NULL => stateList[t] # Ready
        /\ stateList[t] = Suspended => eventList[t] # NULL
        /\ eventList[t] = PendingReady => uxSchedulerSuspended = 1

DelayedInTime == \A t \in Task : stateList[t] = Delayed => xTimeOut[t] = "running"

NoneForgotten ==
    \A t \in Task :
        (stateList[t] = Ready /\ Priority[t] > Priority[pxCurrentTCB])
            => pendSV \/ (uxSchedulerSuspended = 1 /\ xYieldPending)

Base == TypeOK /\ SuspensionExcludes
BInv == CurrentReady /\ Fresh /\ ListsAgree /\ DelayedInTime /\ NoneForgotten

LEMMA BInvImplies == Base /\ BInv => BlockedConsistently /\ HighestPriorityRuns
BY DEF Base, BInv, BlockedConsistently, HighestPriorityRuns, ListsAgree, DelayedInTime,
       NoneForgotten, CurrentReady, Blocking, Inside

LEMMA BInvInit == Init => BInv
BY TaskAssumption
DEF Init, SchedInit, BInv, CurrentReady, Fresh, ListsAgree, DelayedInTime, NoneForgotten,
    NULL, Ready, Suspended, Delayed, PendingReady

-----------------------------------------------------------------------------
(* A wake-up keeps the lists in agreement, makes no task unready, and      *)
(* records the switch it makes due.                                        *)
LEMMA WakeOneKeeps ==
    ASSUME SchedTypeOK, ListsAgree, NoneForgotten,
           NEW list \in {ToSend, ToReceive}, WakeOne(list)
    PROVE  /\ ListsAgree' /\ NoneForgotten'
           /\ \A t \in Task : stateList'[t] = stateList[t] \/ stateList'[t] = Ready
           /\ pendSV => pendSV'
           /\ pxCurrentTCB' = pxCurrentTCB
<1> PICK W \in Heads(list, 1) : RemoveFromEventListAndYield(W)
  BY DEF WakeOne
<1>1. W \subseteq Task /\ \A t \in W : eventList[t] = list
  BY DEF Heads, Waiting
<1>2. \A t \in W : stateList[t] # Ready
  BY <1>1 DEF ListsAgree, ToSend, ToReceive, NULL
<1>3. UNCHANGED <<pxCurrentTCB, uxSchedulerSuspended>>
  BY DEF WakeOne
<1>4. ListsAgree'
  BY <1>1, <1>2, <1>3
  DEF ListsAgree, RemoveFromEventListAndYield, RemoveFromEventList, Switchable, SchedTypeOK,
      NULL, PendingReady, Ready, Suspended
<1>5. NoneForgotten'
  BY <1>1, <1>3
  DEF NoneForgotten, RemoveFromEventListAndYield, RemoveFromEventList, Switchable, Preempts
<1>6. \A t \in Task : stateList'[t] = stateList[t] \/ stateList'[t] = Ready
  BY DEF RemoveFromEventListAndYield, RemoveFromEventList
<1> QED
  BY <1>3, <1>4, <1>5, <1>6 DEF RemoveFromEventListAndYield

(* The running task outside the suspended section is ready.                *)
LEMMA RunsReady ==
    ASSUME CurrentReady, NEW t \in Task, Runs(t), ~Blocking(t)
    PROVE  stateList[t] = Ready
BY DEF CurrentReady, Runs

LEMMA ReturnKeeps ==
    ASSUME Base, BInv, NEW t \in Task, NEW r, Runs(t), ~Blocking(t),
           Return(t, r), UNCHANGED after,
           UNCHANGED schedVars \/ \E list \in {ToSend, ToReceive} : WakeOne(list)
    PROVE  BInv'
<1>1. /\ ListsAgree' /\ NoneForgotten'
      /\ \A u \in Task : stateList'[u] = stateList[u] \/ stateList'[u] = Ready
      /\ pxCurrentTCB' = pxCurrentTCB
  <2>1. CASE UNCHANGED schedVars
    BY <2>1 DEF BInv, ListsAgree, NoneForgotten, schedVars
  <2>2. CASE \E list \in {ToSend, ToReceive} : WakeOne(list)
    BY <2>2, WakeOneKeeps DEF Base, TypeOK, BInv
  <2> QED
    BY <2>1, <2>2
<1>2. stateList[t] = Ready /\ pxCurrentTCB = t
  BY RunsReady DEF BInv, Runs
<1>3. CurrentReady'
  BY <1>1, <1>2 DEF CurrentReady
<1>4. Fresh'
  BY DEF Base, TypeOK, TaskTypeOK, BInv, Fresh, Return, Goto
<1>5. DelayedInTime'
  BY <1>1, <1>2 DEF Base, TypeOK, TaskTypeOK, BInv, DelayedInTime, Return, Ready, Delayed
<1> QED
  BY <1>1, <1>3, <1>4, <1>5 DEF BInv

LEMMA TryFailsKeeps ==
    ASSUME Base, BInv, NEW t \in Task, NEW r, Runs(t), ~Blocking(t), pc[t] = "try",
           TryFails(t, r), UNCHANGED after
    PROVE  BInv'
<1>1. CASE Return(t, r)
  BY <1>1, ReturnKeeps DEF TryFails
<1>2. CASE ~Return(t, r)
  <2>1. /\ Goto(t, "suspend") /\ UNCHANGED schedVars
        /\ xTimeOut' = [xTimeOut EXCEPT ![t] = IF @ = "unset" THEN "running" ELSE @]
    BY <1>2 DEF TryFails
  <2>2. stateList[t] = Ready /\ pxCurrentTCB = t
    BY RunsReady DEF BInv, Runs
  <2>3. CurrentReady' /\ ListsAgree' /\ NoneForgotten'
    BY <2>1, <2>2 DEF BInv, CurrentReady, ListsAgree, NoneForgotten, schedVars
  <2>4. Fresh'
    BY <2>1 DEF Base, TypeOK, TaskTypeOK, BInv, Fresh, Goto
  <2>5. DelayedInTime'
    BY <2>1, <2>2 DEF Base, TypeOK, TaskTypeOK, BInv, DelayedInTime, schedVars, Ready, Delayed
  <2> QED
    BY <2>3, <2>4, <2>5 DEF BInv
<1> QED
  BY <1>1, <1>2

-----------------------------------------------------------------------------
(* The calls and what surrounds them. *)

LEMMA CallsKeep ==
    ASSUME Base, BInv, NEW t \in Task,
           \/ xQueueGenericSend(t) \/ xQueueReceive(t) \/ xQueuePeek(t)
           \/ xQueueGenericReset(t) \/ DelayReturns(t) \/ RecheckEmpty(t)
    PROVE  BInv'
<1>1. Runs(t) /\ ~Blocking(t)
  BY DEF Blocking, xQueueGenericSend, xQueueReceive, xQueuePeek, xQueueGenericReset,
         DelayReturns, RecheckEmpty
<1>2. CASE xQueueGenericSend(t)
  BY <1>1, <1>2, ReturnKeeps, TryFailsKeeps DEF xQueueGenericSend
<1>3. CASE xQueueReceive(t)
  BY <1>1, <1>3, ReturnKeeps, TryFailsKeeps DEF xQueueReceive
<1>4. CASE xQueuePeek(t)
  BY <1>1, <1>4, ReturnKeeps, TryFailsKeeps DEF xQueuePeek
<1>5. CASE xQueueGenericReset(t) \/ DelayReturns(t)
  BY <1>1, <1>5, ReturnKeeps DEF xQueueGenericReset, DelayReturns
<1>6. CASE RecheckEmpty(t)
  <2>1. CASE HasItem
    BY <1>6, <2>1
    DEF RecheckEmpty, Runs, Goto, schedVars, Base, TypeOK, TaskTypeOK, BInv, CurrentReady,
        Blocking, Fresh, ListsAgree, DelayedInTime, NoneForgotten
  <2>2. CASE ~HasItem
    BY <1>1, <1>6, <2>2, ReturnKeeps DEF RecheckEmpty
  <2> QED
    BY <2>1, <2>2
<1> QED
  BY <1>2, <1>3, <1>4, <1>5, <1>6

(* Steps of the running task that leave the lists alone.                   *)
LEMMA QuietKeeps ==
    ASSUME Base, BInv, NEW t \in Task,
           \/ Begin(t) \/ vTaskSuspendAll(t) \/ prvLockQueue(t) \/ xTaskCheckForTimeOut(t)
           \/ prvIsQueueFullOrEmpty(t) \/ DelaySuspends(t) \/ portYIELD_WITHIN_API(t)
    PROVE  BInv'
<1> USE DEF Base, TypeOK, TaskTypeOK, SchedTypeOK, BInv, Goto, Runs, schedVars
<1>1. CASE Begin(t)
  <2>1. \E p \in PC \ {"test", "place", "yield", "unlockTx", "unlockRx", "resume"} : Goto(t, p)
    <3> DEFINE P(c) == CASE c.op = "reset" -> "reset"
                         [] c.op = "delay" -> "sleep"
                         [] OTHER          -> "try"
    <3>1. \A c \in Call[t] :
             P(c) \in PC \ {"test", "place", "yield", "unlockTx", "unlockRx", "resume"}
      BY DEF PC
    <3> HIDE DEF P
    <3>2. PICK c \in Call[t] : Goto(t, P(c))
      BY <1>1 DEF Begin, P
    <3> QED
      BY <3>1, <3>2
  <2>2. stateList[t] = Ready
    BY <1>1 DEF Begin, CurrentReady, Blocking
  <2> QED
    BY <1>1, <2>1, <2>2
    DEF Begin, CurrentReady, Blocking, Fresh, ListsAgree, DelayedInTime, NoneForgotten
<1>2. CASE vTaskSuspendAll(t) \/ DelaySuspends(t)
  <2>1. stateList[t] = Ready
    BY <1>2 DEF vTaskSuspendAll, DelaySuspends, CurrentReady, Blocking
  <2>2. uxSchedulerSuspended = 0
    BY <1>2 DEF vTaskSuspendAll, DelaySuspends, SuspensionExcludes, Inside
  <2> QED
    BY <1>2, <2>1, <2>2
    DEF vTaskSuspendAll, DelaySuspends, SuspendAll, CurrentReady, Fresh, ListsAgree,
        DelayedInTime, NoneForgotten
<1>3. CASE prvLockQueue(t)
  BY <1>3
  DEF prvLockQueue, CurrentReady, Blocking, Fresh, ListsAgree, DelayedInTime, NoneForgotten
<1>4. CASE xTaskCheckForTimeOut(t)
  <2>1. stateList[t] = Ready
    BY <1>4 DEF xTaskCheckForTimeOut, CurrentReady, Blocking
  <2> QED
    BY <1>4, <2>1
    DEF xTaskCheckForTimeOut, UnlockThen, CurrentReady, Fresh, ListsAgree, DelayedInTime,
        NoneForgotten, Ready, Delayed
<1>5. CASE prvIsQueueFullOrEmpty(t)
  <2>1. stateList[t] = Ready
    BY <1>5 DEF prvIsQueueFullOrEmpty, CurrentReady, Blocking
  <2> QED
    BY <1>5, <2>1
    DEF prvIsQueueFullOrEmpty, UnlockThen, CurrentReady, Fresh, ListsAgree, DelayedInTime,
        NoneForgotten
<1>6. CASE portYIELD_WITHIN_API(t)
  BY <1>6
  DEF portYIELD_WITHIN_API, Yield, CurrentReady, Fresh, ListsAgree, DelayedInTime,
      NoneForgotten, Inside
<1> QED
  BY <1>1, <1>2, <1>3, <1>4, <1>5, <1>6

(* The running task puts itself in another list than its ready list.       *)
LEMMA BlockKeeps ==
    ASSUME Base, BInv, NEW t \in Task, vTaskPlaceOnEventList(t) \/ vTaskDelay(t)
    PROVE  BInv'
<1> USE DEF Base, TypeOK, TaskTypeOK, SchedTypeOK, BInv, Goto, Runs
<1>1. CASE vTaskPlaceOnEventList(t)
  <2>1. /\ pxCurrentTCB = t /\ xTimeOut[t] = "running"
        /\ ListOf(t) \notin {NULL, PendingReady}
        /\ stateList'[t] \in {Suspended, Delayed} /\ eventList'[t] = ListOf(t)
        /\ \A u \in Task \ {t} : stateList'[u] = stateList[u] /\ eventList'[u] = eventList[u]
    BY <1>1
    DEF vTaskPlaceOnEventList, PlaceOnEventList, AddCurrentTaskToDelayedList, ListOf,
        ToSend, ToReceive, NULL, PendingReady, Fresh
  <2>2. CurrentReady' /\ Fresh'
    BY <1>1, <2>1 DEF vTaskPlaceOnEventList, UnlockThen, CurrentReady, Blocking, Fresh
  <2>3. ListsAgree' /\ DelayedInTime' /\ NoneForgotten'
    BY <1>1, <2>1
    DEF vTaskPlaceOnEventList, ListsAgree, DelayedInTime, NoneForgotten, Ready, Suspended, Delayed
  <2> QED
    BY <2>2, <2>3
<1>2. CASE vTaskDelay(t)
  <2>1. /\ pxCurrentTCB = t /\ stateList'[t] = Delayed /\ xTimeOut'[t] = "running"
        /\ \A u \in Task \ {t} : stateList'[u] = stateList[u] /\ xTimeOut'[u] = xTimeOut[u]
    BY <1>2 DEF vTaskDelay, AddCurrentTaskToDelayedList
  <2>2. CurrentReady' /\ Fresh'
    BY <1>2, <2>1 DEF vTaskDelay, CurrentReady, Blocking, Fresh
  <2>3. ListsAgree' /\ DelayedInTime' /\ NoneForgotten'
    BY <1>2, <2>1
    DEF vTaskDelay, ListsAgree, DelayedInTime, NoneForgotten, Ready, Suspended, Delayed
  <2> QED
    BY <2>2, <2>3
<1> QED
  BY <1>1, <1>2

(* prvUnlockQueue moves waiting tasks to xPendingReadyList only.           *)
LEMMA UnlockKeeps ==
    ASSUME Base, BInv, NEW t \in Task, prvUnlockQueueTx(t) \/ prvUnlockQueueRx(t)
    PROVE  BInv'
<1>1. /\ Runs(t) /\ pc[t] \in {"unlockTx", "unlockRx"} /\ pxCurrentTCB = t
      /\ \E p \in {"unlockRx", "resume"} : Goto(t, p)
      /\ UNCHANGED <<pxCurrentTCB, uxSchedulerSuspended, pendSV, xTimeOut, after>>
  BY DEF prvUnlockQueueTx, prvUnlockQueueRx, Runs
<1>2. PICK W \in Heads(ToReceive, Counted(cTxLock)) \cup Heads(ToSend, Counted(cRxLock)) :
             RemoveFromEventList(W)
  BY DEF prvUnlockQueueTx, prvUnlockQueueRx
<1>3. uxSchedulerSuspended = 1
  BY <1>1 DEF Base, SuspensionExcludes, Inside
<1>4. W \subseteq Task /\ \A u \in W : eventList[u] # NULL
  BY <1>2 DEF Heads, Waiting, ToSend, ToReceive, NULL
<1>5. /\ \A u \in Task : stateList'[u] = stateList[u]
      /\ \A u \in Task : eventList'[u] = IF u \in W THEN PendingReady ELSE eventList[u]
      /\ xYieldPending => xYieldPending'
  <2>1. ~Switchable
    BY <1>3 DEF Switchable
  <2> QED
    BY <1>2, <2>1 DEF RemoveFromEventList
<1>6. CurrentReady' /\ Fresh'
  BY <1>1, <1>5
  DEF Base, TypeOK, TaskTypeOK, SchedTypeOK, BInv, CurrentReady, Fresh, Blocking, Goto, Inside
<1>7. ListsAgree'
  BY <1>1, <1>3, <1>4, <1>5 DEF BInv, ListsAgree, NULL, PendingReady
<1>8. DelayedInTime' /\ NoneForgotten'
  BY <1>1, <1>5 DEF BInv, DelayedInTime, NoneForgotten
<1> QED
  BY <1>6, <1>7, <1>8 DEF BInv

(* xTaskResumeAll: every task in xPendingReadyList and every one whose     *)
(* time is up gets ready, and the switch that is due is requested.         *)
LEMMA ResumeKeeps ==
    ASSUME Base, BInv, NEW t \in Task, xTaskResumeAll(t)
    PROVE  BInv'
<1> DEFINE next(E) == Continuation(t, AlreadyYielded(E))
<1> PICK E \in SUBSET Timed :
        /\ ResumeAll(E)
        /\ Goto(t, next(E))
        /\ after' = [after EXCEPT ![t] = IF next(E) = "yield" THEN @ ELSE "none"]
        /\ IF next(E) = "app"
             THEN xTimeOut' = [Elapse(E) EXCEPT ![t] = "unset"]
             ELSE xTimeOut' = Elapse(E)
  BY DEF xTaskResumeAll
<1>1. /\ Runs(t) /\ pc[t] = "resume" /\ pxCurrentTCB = t /\ pxCurrentTCB' = t
      /\ uxSchedulerSuspended = 1 /\ uxSchedulerSuspended' = 0
  BY DEF xTaskResumeAll, Runs, Base, SuspensionExcludes, Inside, ResumeAll
<1>2. /\ next(E) \in {"yield", "try", "awake", "recheck", "app"}
      /\ next(E) \notin {"yield", "try", "awake"} => after[t] \notin {"block", "delayed"}
      /\ after[t] \in {"block", "delayed"} => (next(E) = "yield" \/ AlreadyYielded(E))
  BY DEF Continuation, Base, TypeOK, TaskTypeOK
<1> HIDE DEF next
<1>3. Drained = Waiting(PendingReady)
  BY <1>1 DEF Drained
<1>4. /\ \A u \in Task : stateList'[u] =
            IF eventList[u] = PendingReady \/ (u \in E /\ stateList[u] = Delayed)
              THEN Ready ELSE stateList[u]
      /\ \A u \in Task : eventList'[u] =
            IF eventList[u] = PendingReady \/ (u \in E /\ stateList[u] = Delayed)
              THEN NULL ELSE eventList[u]
  BY <1>3 DEF ResumeAll, Expired, StatesAfterDrain, Waiting, Ready, Delayed, Timed
<1>5. ListsAgree'
  BY <1>4 DEF BInv, ListsAgree, NULL, PendingReady, Ready, Suspended, Delayed
<1>6. pendSV' = (pendSV \/ AlreadyYielded(E))
  BY DEF ResumeAll
<1>7. NoneForgotten'
  <2> SUFFICES ASSUME NEW u \in Task, stateList'[u] = Ready, Priority[u] > Priority[t]
               PROVE  pendSV'
    BY <1>1 DEF NoneForgotten
  <2>1. CASE stateList[u] = Ready
    BY <1>1, <1>6, <2>1 DEF BInv, NoneForgotten, AlreadyYielded
  <2>2. CASE eventList[u] = PendingReady
    <3>1. u \in Drained /\ Priority[u] >= Priority[pxCurrentTCB]
      BY <1>1, <1>3, <2>2, TaskAssumption DEF Waiting
    <3> QED
      BY <1>1, <1>6, <3>1 DEF AlreadyYielded
  <2>3. CASE u \in E /\ stateList[u] = Delayed /\ eventList[u] # PendingReady
    <3>1. u \in Expired(E, StatesAfterDrain)
      BY <1>3, <2>3 DEF Expired, StatesAfterDrain, Waiting
    <3>2. TickPreempts(E, StatesAfterDrain)
      BY <1>1, <3>1, TaskAssumption DEF TickPreempts
    <3> QED
      BY <1>1, <1>6, <3>2 DEF AlreadyYielded
  <2> QED
    BY <1>4, <2>1, <2>2, <2>3
<1>8. after[t] \notin {"block", "delayed"} => stateList[t] = Ready
  BY <1>1 DEF BInv, CurrentReady, Blocking, Inside
<1>9. pc'[t] = next(E) /\ (next(E) = "yield" => after'[t] = after[t])
  BY DEF Goto, Base, TypeOK, TaskTypeOK
<1>10. CurrentReady'
  <2>1. CASE after[t] \in {"block", "delayed"}
    BY <1>1, <1>2, <1>6, <1>9, <2>1 DEF CurrentReady, Blocking, Inside
  <2>2. CASE after[t] \notin {"block", "delayed"}
    BY <1>1, <1>4, <1>8, <2>2 DEF CurrentReady
  <2> QED
    BY <2>1, <2>2
<1>11. Fresh'
  <2>1. \A u \in Task \ {t} : pc'[u] = pc[u] /\ pc[u] \notin {"test", "place"}
    BY <1>1 DEF Goto, Base, TypeOK, TaskTypeOK, SuspensionExcludes, Inside
  <2> QED
    BY <1>2, <1>9, <2>1 DEF Fresh
<1>12. DelayedInTime'
  <2> SUFFICES ASSUME NEW u \in Task, stateList'[u] = Delayed PROVE xTimeOut'[u] = "running"
    BY DEF DelayedInTime
  <2>1. stateList[u] = Delayed /\ u \notin E
    BY <1>4 DEF Ready, Delayed
  <2>2. Elapse(E)[u] = "running"
    BY <2>1 DEF Elapse, BInv, DelayedInTime
  <2>3. u = t => next(E) # "app"
    BY <1>2, <1>8, <2>1 DEF Ready, Delayed
  <2> QED
    BY <2>2, <2>3 DEF Elapse
<1> QED
  BY <1>5, <1>7, <1>10, <1>11, <1>12 DEF BInv

-----------------------------------------------------------------------------
(* Interrupts. *)

LEMMA InterruptKeeps ==
    ASSUME Base, BInv, InterruptPut \/ InterruptGet
    PROVE  BInv'
<1>1. /\ UNCHANGED taskVars
      /\ UNCHANGED schedVars \/ \E list \in {ToSend, ToReceive} : WakeOne(list)
  BY DEF InterruptPut, InterruptGet, xQueueGenericSendFromISR, xQueueReceiveFromISR, WakeOrCount
<1>2. /\ ListsAgree' /\ NoneForgotten'
      /\ \A u \in Task : stateList'[u] = stateList[u] \/ stateList'[u] = Ready
      /\ pendSV => pendSV'
      /\ pxCurrentTCB' = pxCurrentTCB
  <2>1. CASE UNCHANGED schedVars
    BY <2>1 DEF BInv, ListsAgree, NoneForgotten, schedVars
  <2>2. CASE \E list \in {ToSend, ToReceive} : WakeOne(list)
    BY <2>2, WakeOneKeeps DEF Base, TypeOK, BInv
  <2> QED
    BY <1>1, <2>1, <2>2
<1>3. CurrentReady' /\ Fresh' /\ DelayedInTime'
  BY <1>1, <1>2
  DEF Base, TypeOK, SchedTypeOK, BInv, CurrentReady, Blocking, Fresh, DelayedInTime, taskVars,
      Ready, Delayed
<1> QED
  BY <1>2, <1>3 DEF BInv

LEMMA TickKeeps ==
    ASSUME Base, BInv, xTaskIncrementTick
    PROVE  BInv'
<1> PICK E \in SUBSET Timed : IncrementTick(E) /\ xTimeOut' = Elapse(E)
  BY DEF xTaskIncrementTick
<1>1. UNCHANGED <<pc, after, pxCurrentTCB, uxSchedulerSuspended, xYieldPending>>
  BY DEF xTaskIncrementTick, IncrementTick
<1>2. CASE ~Switchable
  <2>1. E = {} /\ UNCHANGED <<stateList, eventList>> /\ (pendSV => pendSV')
    BY <1>2 DEF IncrementTick
  <2>2. \A u \in Task : xTimeOut'[u] = xTimeOut[u]
    BY <2>1 DEF Elapse
  <2> QED
    BY <1>1, <2>1, <2>2
    DEF BInv, CurrentReady, Blocking, Fresh, ListsAgree, DelayedInTime, NoneForgotten
<1>3. CASE Switchable
  <2>1. /\ \A u \in Task : stateList'[u] =
               IF u \in E /\ stateList[u] = Delayed THEN Ready ELSE stateList[u]
        /\ \A u \in Task : eventList'[u] =
               IF u \in E /\ stateList[u] = Delayed THEN NULL ELSE eventList[u]
        /\ pendSV' = (pendSV \/ xYieldPending \/ TickPreempts(E, stateList))
    BY <1>3 DEF IncrementTick, Expired
  <2>2. ListsAgree'
    <3> SUFFICES ASSUME NEW u \in Task
                 PROVE  /\ eventList'[u] # NULL => stateList'[u] # Ready
                        /\ stateList'[u] = Suspended => eventList'[u] # NULL
                        /\ eventList'[u] = PendingReady => uxSchedulerSuspended' = 1
      BY DEF ListsAgree
    <3>1. CASE u \in E /\ stateList[u] = Delayed
      BY <2>1, <3>1 DEF NULL, PendingReady, Ready, Suspended
    <3>2. CASE ~(u \in E /\ stateList[u] = Delayed)
      <4>1. stateList'[u] = stateList[u] /\ eventList'[u] = eventList[u]
        BY <2>1, <3>2
      <4> QED
        BY <1>1, <4>1 DEF BInv, ListsAgree
    <3> QED
      BY <3>1, <3>2
  <2>3. DelayedInTime'
    BY <2>1 DEF BInv, DelayedInTime, Elapse, Ready, Delayed
  <2>4. Fresh'
    BY <1>1, <1>3 DEF Base, SuspensionExcludes, Inside, Switchable, Fresh
  <2>5. NoneForgotten'
    <3> SUFFICES ASSUME NEW u \in Task, stateList'[u] = Ready,
                        Priority[u] > Priority[pxCurrentTCB]
                 PROVE  pendSV'
      BY <1>1 DEF NoneForgotten
    <3>1. CASE stateList[u] = Ready
      <4>1. pendSV
        BY <1>3, <3>1 DEF BInv, NoneForgotten, Switchable
      <4> QED
        BY <2>1, <4>1
    <3>2. CASE stateList[u] # Ready
      <4>1. u \in Expired(E, stateList)
        BY <2>1, <3>2 DEF Expired
      <4>2. Priority[u] >= Priority[pxCurrentTCB]
        BY TaskAssumption DEF Base, TypeOK, SchedTypeOK
      <4>3. TickPreempts(E, stateList)
        BY <4>1, <4>2 DEF TickPreempts
      <4> QED
        BY <2>1, <4>3
    <3> QED
      BY <3>1, <3>2
  <2>6. CurrentReady'
    BY <1>1, <2>1 DEF Base, TypeOK, SchedTypeOK, BInv, CurrentReady, Blocking
  <2> QED
    BY <2>2, <2>3, <2>4, <2>5, <2>6 DEF BInv
<1> QED
  BY <1>2, <1>3

LEMMA SwitchKeeps ==
    ASSUME Base, BInv, vTaskSwitchContext
    PROVE  BInv'
<1>1. UNCHANGED <<uxSchedulerSuspended, stateList, eventList, pc, after, xTimeOut>>
  BY DEF vTaskSwitchContext, SwitchContext, taskVars
<1>2. Fresh' /\ ListsAgree' /\ DelayedInTime'
  BY <1>1 DEF BInv, Fresh, ListsAgree, DelayedInTime
<1>3. CurrentReady' /\ NoneForgotten'
  <2>1. CASE Switchable
    <3>1. pxCurrentTCB' \in HighestPriorityReady
      BY <2>1 DEF vTaskSwitchContext, SwitchContext
    <3> QED
      BY <1>1, <3>1, TaskAssumption DEF HighestPriorityReady, CurrentReady, NoneForgotten
  <2>2. CASE ~Switchable
    <3>1. pxCurrentTCB' = pxCurrentTCB /\ xYieldPending' = TRUE
      BY <2>2 DEF vTaskSwitchContext, SwitchContext
    <3>2. uxSchedulerSuspended = 1 /\ pc[pxCurrentTCB] \in Inside
      BY <2>2 DEF Base, TypeOK, SchedTypeOK, SuspensionExcludes, Switchable
    <3> QED
      BY <1>1, <3>1, <3>2 DEF BInv, CurrentReady, Blocking, NoneForgotten
  <2> QED
    BY <2>1, <2>2
<1> QED
  BY <1>2, <1>3 DEF BInv

LEMMA BInvStep == Base /\ BInv /\ [Next]_vars => BInv'
<1> SUFFICES ASSUME Base, BInv, [Next]_vars PROVE BInv'
  OBVIOUS
<1>1. CASE UNCHANGED vars
  BY <1>1
  DEF vars, schedVars, taskVars, BInv, CurrentReady, Blocking, Fresh, ListsAgree,
      DelayedInTime, NoneForgotten
<1>2. ASSUME NEW t \in Task, Begin(t) \/ KernelStep(t) PROVE BInv'
  BY <1>2, CallsKeep, QuietKeeps, BlockKeeps, UnlockKeeps, ResumeKeeps DEF KernelStep
<1> QED
  BY <1>1, <1>2, InterruptKeeps, TickKeeps, SwitchKeeps DEF Next

LEMMA BlockingInvariance == Spec => [](Base /\ BInv)
<1>1. Init => BInv
  BY BInvInit
<1>2. Base /\ BInv /\ [Next]_vars => BInv'
  BY BInvStep
<1>3. Spec => []Base
  BY Invariance DEF Base
<1> QED
  BY <1>1, <1>2, <1>3, PTL DEF Spec

(* No task is ever in no list, or in an event list while it is ready, or   *)
(* asleep until a time that has passed; and xPendingReadyList is empty     *)
(* whenever the scheduler runs.                                            *)
THEOREM BlockingConsistency == Spec => []BlockedConsistently
BY BlockingInvariance, BInvImplies, PTL

(* Fixed priority preemptive scheduling: at no point does a ready task of  *)
(* higher priority wait without a switch being pending or on record.       *)
THEOREM Preemption == Spec => []HighestPriorityRuns
BY BlockingInvariance, BInvImplies, PTL

-----------------------------------------------------------------------------
(* Locking the queue. *)

(* prvLockQueue takes both locks, and an interrupt that finds one finds    *)
(* the other.                                                              *)
LockedTogether ==
    pc[pxCurrentTCB] \in LockHeld => cTxLock # queueUNLOCKED /\ cRxLock # queueUNLOCKED

LEMMA LockedStep == Base /\ LockedTogether /\ [Next]_vars => LockedTogether'
<1> SUFFICES ASSUME Base, LockedTogether, [Next]_vars PROVE LockedTogether'
  OBVIOUS
<1> USE DEF Base, TypeOK, SchedTypeOK, LockTypeOK, TaskTypeOK, LockedTogether
<1>1. CASE UNCHANGED vars
  BY <1>1 DEF vars, schedVars, lockVars, taskVars
<1>2. ASSUME NEW t \in Task,
             \/ xQueueGenericSend(t) \/ xQueueReceive(t) \/ xQueuePeek(t)
             \/ xQueueGenericReset(t) \/ Begin(t) \/ portYIELD_WITHIN_API(t)
             \/ RecheckEmpty(t) \/ DelayReturns(t)
      PROVE  LockedTogether'
  <2>1. Runs(t) /\ pc[t] \notin Inside /\ UNCHANGED uxSchedulerSuspended
    BY <1>2
    DEF xQueueGenericSend, xQueueReceive, xQueuePeek, xQueueGenericReset, Begin,
        portYIELD_WITHIN_API, RecheckEmpty, DelayReturns, Inside, TryFails, WakeOne, schedVars
  <2>2. uxSchedulerSuspended' # 1 /\ SuspensionExcludes' /\ TypeOK'
    BY <2>1, ExcludesStep, TypeStep DEF SuspensionExcludes, Runs
  <2> QED
    BY <2>2 DEF SuspensionExcludes, LockHeld, Inside
<1>3. ASSUME NEW t \in Task, vTaskSuspendAll(t) \/ DelaySuspends(t) \/ vTaskDelay(t)
      PROVE  LockedTogether'
  BY <1>3 DEF vTaskSuspendAll, DelaySuspends, vTaskDelay, Goto, Runs, LockHeld
<1>4. ASSUME NEW t \in Task, prvLockQueue(t) PROVE LockedTogether'
  BY <1>4 DEF prvLockQueue, queueUNLOCKED, queueLOCKED_UNMODIFIED
<1>5. ASSUME NEW t \in Task,
             \/ xTaskCheckForTimeOut(t) \/ prvIsQueueFullOrEmpty(t) \/ vTaskPlaceOnEventList(t)
      PROVE  LockedTogether'
  BY <1>5
  DEF xTaskCheckForTimeOut, prvIsQueueFullOrEmpty, vTaskPlaceOnEventList, Runs, lockVars,
      schedVars, LockHeld
<1>6. ASSUME NEW t \in Task, prvUnlockQueueTx(t) \/ prvUnlockQueueRx(t) PROVE LockedTogether'
  BY <1>6 DEF prvUnlockQueueTx, prvUnlockQueueRx, Runs, Goto, LockHeld
<1>7. ASSUME NEW t \in Task, xTaskResumeAll(t) PROVE LockedTogether'
  <2>1. pxCurrentTCB' = t /\ \E p \in {"yield", "try", "awake", "recheck", "app"} : Goto(t, p)
    BY <1>7 DEF xTaskResumeAll, Continuation, ResumeAll, Runs
  <2> QED
    BY <2>1 DEF Goto, LockHeld
<1>8. CASE InterruptPut \/ InterruptGet
  BY <1>8
  DEF InterruptPut, InterruptGet, xQueueGenericSendFromISR, xQueueReceiveFromISR, WakeOrCount,
      WakeOne, schedVars, taskVars, queueUNLOCKED
<1>9. CASE xTaskIncrementTick
  BY <1>9 DEF xTaskIncrementTick, IncrementTick, lockVars
<1>10. CASE vTaskSwitchContext
  <2>1. CASE Switchable
    BY <1>10, <2>1
    DEF vTaskSwitchContext, SwitchContext, HighestPriorityReady, SuspensionExcludes, Switchable,
        lockVars, taskVars, LockHeld, Inside
  <2>2. CASE ~Switchable
    BY <1>10, <2>2 DEF vTaskSwitchContext, SwitchContext, lockVars, taskVars
  <2> QED
    BY <2>1, <2>2
<1> QED
  BY <1>1, <1>2, <1>3, <1>4, <1>5, <1>6, <1>7, <1>8, <1>9, <1>10 DEF Next, KernelStep

(* A step that changes an event list of a locked queue is one of the two   *)
(* by which the task that locked it does so.                               *)
LEMMA LockedListsStep ==
    ASSUME Base, LockedTogether, Next, cTxLock # queueUNLOCKED, eventList' # eventList
    PROVE  pc' # pc /\ pc[pxCurrentTCB] \in {"place", "unlockTx"}
<1>1. pc[pxCurrentTCB] \in LockHeld /\ cRxLock # queueUNLOCKED
  BY DEF Base, SuspensionExcludes, LockedTogether
<1>2. ~Switchable
  BY <1>1 DEF Base, SuspensionExcludes, TypeOK, SchedTypeOK, LockHeld, Inside, Switchable
<1>3. ~(InterruptPut \/ InterruptGet \/ xTaskIncrementTick \/ vTaskSwitchContext)
  BY <1>1, <1>2
  DEF InterruptPut, InterruptGet, xQueueGenericSendFromISR, xQueueReceiveFromISR, WakeOrCount,
      schedVars, xTaskIncrementTick, IncrementTick, vTaskSwitchContext, SwitchContext
<1>4. PICK t \in Task : Begin(t) \/ KernelStep(t)
  BY <1>3 DEF Next
<1>5. pc[pxCurrentTCB] \notin {"app", "try", "reset", "suspend", "lock", "unlockRx", "resume",
                              "yield", "recheck", "sleep", "delay", "awake"}
  BY <1>1 DEF LockHeld
<1>6. vTaskPlaceOnEventList(t) \/ prvUnlockQueueTx(t)
  BY <1>4, <1>5
  DEF Begin, KernelStep, xQueueGenericSend, xQueueReceive, xQueuePeek, xQueueGenericReset,
      vTaskSuspendAll, prvLockQueue, xTaskCheckForTimeOut, prvIsQueueFullOrEmpty,
      prvUnlockQueueRx, xTaskResumeAll, portYIELD_WITHIN_API, RecheckEmpty, DelaySuspends,
      vTaskDelay, DelayReturns, Runs, schedVars
<1> QED
  BY <1>6
  DEF vTaskPlaceOnEventList, prvUnlockQueueTx, UnlockThen, Goto, Runs, Base, TypeOK, TaskTypeOK

(* "Locking a queue prevents an ISR from accessing the queue event lists"  *)
(* (queue.c:240): no interrupt handler, tick or other task changes an      *)
(* event list of a locked queue.                                           *)
THEOREM LockingProtectsLists == Spec => ListsLocked
<1> DEFINE A == (cTxLock # queueUNLOCKED /\ eventList' # eventList)
                   => (pc' # pc /\ pc[pxCurrentTCB] \in {"place", "unlockTx"})
<1>1. Init => LockedTogether
  BY DEF Init, SchedInit, LockedTogether, LockHeld
<1>2. Base /\ LockedTogether /\ [Next]_vars => LockedTogether'
  BY LockedStep
<1>3. Base /\ LockedTogether /\ [Next]_vars => [A]_vars
  BY LockedListsStep
<1>4. Spec => []Base
  BY Invariance DEF Base
<1> QED
  BY <1>1, <1>2, <1>3, <1>4, PTL DEF Spec, ListsLocked

-----------------------------------------------------------------------------
(* Who waits, and who will try.                                            *)

(* A task in an event list of the queue is in the list its call is about   *)
(* and goes back to the head of its loop when it leaves the list.          *)
WaitersTry ==
    \A t \in Task : eventList[t] \in {ToSend, ToReceive} =>
        eventList[t] = ListOf(t) /\ call[t].op \in QueueOps /\ WillTry(t)

WaitBase == Base /\ BInv /\ LockedTogether /\ CallKnown /\ CallsMade

LEMMA TheLists ==
    /\ ToSend # ToReceive /\ NULL # ToSend /\ NULL # ToReceive
    /\ PendingReady # ToSend /\ PendingReady # ToReceive
BY DEF ToSend, ToReceive, NULL, PendingReady

(* The running task is in no event list until it has blocked.              *)
LEMMA RunnerInNoList ==
    ASSUME WaitBase, NEW t \in Task, Runs(t), ~Blocking(t)
    PROVE  eventList[t] = NULL
BY RunsReady DEF WaitBase, BInv, ListsAgree

LEMMA OthersKeep ==
    ASSUME WaitBase, NEW t \in Task, Begin(t) \/ KernelStep(t)
    PROVE  \A u \in Task \ {t} : pc'[u] = pc[u] /\ call'[u] = call[u] /\ after'[u] = after[u]
<1> USE DEF WaitBase, Base, TypeOK, TaskTypeOK
<1>1. CASE xTaskResumeAll(t)
  BY <1>1, Resumes
<1>2. CASE Begin(t)
  BY <1>2 DEF Begin, Goto
<1>3. CASE KernelStep(t) /\ ~xTaskResumeAll(t)
  BY <1>3
  DEF KernelStep, xQueueGenericSend, xQueueReceive, xQueuePeek, xQueueGenericReset,
      vTaskSuspendAll, prvLockQueue, xTaskCheckForTimeOut, prvIsQueueFullOrEmpty,
      vTaskPlaceOnEventList, prvUnlockQueueTx, prvUnlockQueueRx, portYIELD_WITHIN_API,
      RecheckEmpty, DelaySuspends, vTaskDelay, DelayReturns, TryFails, Return, Goto, UnlockThen
<1> QED
  BY <1>1, <1>2, <1>3

(* Between the head of the loop and the return nothing makes a task that   *)
(* will try give that up.                                                  *)
LEMMA TriesOn ==
    ASSUME WaitBase, NEW t \in Task, pc[t] # "try", Begin(t) \/ KernelStep(t), WillTry(t)
    PROVE  WillTry(t)' /\ call'[t] = call[t]
<1> USE DEF WaitBase, Base, TypeOK, TaskTypeOK
<1>1. /\ pc[t] \in {"unlockTx", "unlockRx", "resume", "yield"}
      /\ after[t] \in {"block", "retry"}
  BY DEF WillTry
<1>2. CASE xTaskResumeAll(t)
  <2> PICK next \in {"yield", "try", "awake", "recheck", "app"} :
              /\ pc' = [pc EXCEPT ![t] = next]
              /\ after' = [after EXCEPT ![t] = IF next = "yield" THEN @ ELSE "none"]
              /\ next = "awake" => after[t] = "delayed"
              /\ next = "recheck" => after[t] = "giveUp" /\ Taking(t)
              /\ next = "app" => after[t] = "giveUp" /\ ~Taking(t)
              /\ next # "app" => UNCHANGED <<call, reply>>
    BY <1>2, Resumes
  <2> QED
    BY <1>1 DEF WillTry
<1>3. CASE portYIELD_WITHIN_API(t)
  BY <1>1, <1>3 DEF portYIELD_WITHIN_API, Goto, WillTry, CallKnown, Known
<1>4. CASE prvUnlockQueueTx(t) \/ prvUnlockQueueRx(t)
  BY <1>1, <1>4 DEF prvUnlockQueueTx, prvUnlockQueueRx, Goto, WillTry
<1> QED
  BY <1>1, <1>2, <1>3, <1>4
  DEF Begin, KernelStep, xQueueGenericSend, xQueueReceive, xQueuePeek, xQueueGenericReset,
      vTaskSuspendAll, prvLockQueue, xTaskCheckForTimeOut, prvIsQueueFullOrEmpty,
      vTaskPlaceOnEventList, RecheckEmpty, DelaySuspends, vTaskDelay, DelayReturns

LEMMA WakeOnlyLeaves ==
    ASSUME WaitBase, NEW W, RemoveFromEventList(W)
    PROVE  \A u \in Task : eventList'[u] \in {eventList[u], NULL, PendingReady}
BY DEF RemoveFromEventList

(* Only vTaskPlaceOnEventList puts a task in an event list of the queue.   *)
LEMMA OnlyLeaves ==
    ASSUME WaitBase, [Next]_vars, \A t \in Task : ~vTaskPlaceOnEventList(t)
    PROVE  \A u \in Task : eventList'[u] \in {eventList[u], NULL, PendingReady}
<1>1. CASE UNCHANGED eventList
  BY <1>1
<1>2. CASE \E list, n : \E W \in Heads(list, n) : RemoveFromEventList(W)
  BY <1>2, WakeOnlyLeaves
<1>3. ASSUME NEW list, WakeOne(list) PROVE \E n : \E W \in Heads(list, n) : RemoveFromEventList(W)
  BY <1>3 DEF WakeOne, RemoveFromEventListAndYield
<1>4. ASSUME NEW t \in Task, Begin(t) \/ KernelStep(t)
      PROVE  \A u \in Task : eventList'[u] \in {eventList[u], NULL, PendingReady}
  <2>1. CASE xTaskResumeAll(t)
    <3>1. PICK E \in SUBSET Timed : ResumeAll(E)
      BY <2>1 DEF xTaskResumeAll
    <3> QED
      BY <3>1 DEF ResumeAll
  <2>2. CASE prvUnlockQueueTx(t) \/ prvUnlockQueueRx(t)
    BY <1>2, <2>2 DEF prvUnlockQueueTx, prvUnlockQueueRx
  <2>3. CASE xQueueGenericSend(t) \/ xQueueReceive(t) \/ xQueuePeek(t) \/ xQueueGenericReset(t)
    BY <1>1, <1>2, <1>3, <2>3
    DEF xQueueGenericSend, xQueueReceive, xQueuePeek, xQueueGenericReset, TryFails, schedVars
  <2> QED
    BY <1>1, <1>4, <2>1, <2>2, <2>3
    DEF Begin, KernelStep, vTaskSuspendAll, prvLockQueue, xTaskCheckForTimeOut,
        prvIsQueueFullOrEmpty, portYIELD_WITHIN_API, RecheckEmpty, DelaySuspends, vTaskDelay,
        DelayReturns, schedVars
<1>5. CASE InterruptPut \/ InterruptGet
  BY <1>1, <1>2, <1>3, <1>5
  DEF InterruptPut, InterruptGet, xQueueGenericSendFromISR, xQueueReceiveFromISR, WakeOrCount,
      schedVars
<1>6. CASE xTaskIncrementTick
  <2>1. PICK E \in SUBSET Timed : IncrementTick(E)
    BY <1>6 DEF xTaskIncrementTick
  <2> QED
    BY <2>1 DEF IncrementTick
<1>7. CASE vTaskSwitchContext \/ UNCHANGED vars
  BY <1>1, <1>7 DEF vTaskSwitchContext, SwitchContext, vars, schedVars
<1> QED
  BY <1>4, <1>5, <1>6, <1>7 DEF Next

LEMMA WaitersStep == WaitBase /\ WaitersTry /\ [Next]_vars => WaitersTry'
<1> SUFFICES ASSUME WaitBase, WaitersTry, [Next]_vars PROVE WaitersTry'
  OBVIOUS
<1> USE DEF WaitBase, Base, TypeOK, TaskTypeOK, SchedTypeOK
<1>1. ASSUME NEW u \in Task, call'[u] = call[u], WillTry(u) => WillTry(u)',
             eventList'[u] \in {eventList[u], NULL, PendingReady},
             eventList'[u] \in {ToSend, ToReceive}
      PROVE  eventList'[u] = ListOf(u)' /\ call'[u].op \in QueueOps /\ WillTry(u)'
  BY <1>1, TheLists DEF WaitersTry, ListOf, Sending
<1>2. ASSUME NEW t \in Task, vTaskPlaceOnEventList(t) PROVE WaitersTry'
  <2>1. /\ pxCurrentTCB = t /\ call[t].op \in QueueOps /\ UNCHANGED call
        /\ eventList' = [eventList EXCEPT ![t] = ListOf(t)]
        /\ pc' = [pc EXCEPT ![t] = "unlockTx"] /\ after' = [after EXCEPT ![t] = "block"]
    BY <1>2
    DEF vTaskPlaceOnEventList, Runs, PlaceOnEventList, UnlockThen, Goto, CallKnown, Known
  <2>2. ASSUME NEW u \in Task \ {t}, eventList'[u] \in {ToSend, ToReceive}
        PROVE  eventList'[u] = ListOf(u)' /\ call'[u].op \in QueueOps /\ WillTry(u)'
    BY <1>1, <2>1, <2>2 DEF WillTry
  <2>3. eventList'[t] = ListOf(t)' /\ call'[t].op \in QueueOps /\ WillTry(t)'
    BY <2>1 DEF WillTry, ListOf, Sending
  <2> QED
    BY <2>2, <2>3 DEF WaitersTry
<1>3. CASE \A t \in Task : ~vTaskPlaceOnEventList(t)
  <2>1. \A u \in Task : eventList'[u] \in {eventList[u], NULL, PendingReady}
    BY <1>3, OnlyLeaves
  <2>2. CASE UNCHANGED <<pc, call, after>>
    BY <1>1, <2>1, <2>2 DEF WaitersTry, WillTry
  <2>3. ASSUME NEW t \in Task, Begin(t) \/ KernelStep(t) PROVE WaitersTry'
    <3>1. ASSUME NEW u \in Task \ {t}, eventList'[u] \in {ToSend, ToReceive}
          PROVE  eventList'[u] = ListOf(u)' /\ call'[u].op \in QueueOps /\ WillTry(u)'
      <4>1. call'[u] = call[u] /\ (WillTry(u) => WillTry(u)')
        BY <2>3, OthersKeep DEF WillTry
      <4> QED
        BY <1>1, <2>1, <3>1, <4>1
    <3>2. ASSUME eventList'[t] \in {ToSend, ToReceive}
          PROVE  eventList'[t] = ListOf(t)' /\ call'[t].op \in QueueOps /\ WillTry(t)'
      <4>1. eventList[t] # NULL /\ WillTry(t)
        BY <2>1, <3>2, TheLists DEF WaitersTry
      <4>2. Runs(t)
        BY <2>3
        DEF Begin, KernelStep, xQueueGenericSend, xQueueReceive, xQueuePeek, xQueueGenericReset,
            vTaskSuspendAll, prvLockQueue, xTaskCheckForTimeOut, prvIsQueueFullOrEmpty,
            vTaskPlaceOnEventList, prvUnlockQueueTx, prvUnlockQueueRx, xTaskResumeAll,
            portYIELD_WITHIN_API, RecheckEmpty, DelaySuspends, vTaskDelay, DelayReturns
      <4>3. pc[t] # "try"
        BY <4>1, <4>2, RunnerInNoList DEF Blocking
      <4>4. WillTry(t)' /\ call'[t] = call[t]
        BY <2>3, <4>1, <4>3, TriesOn
      <4> QED
        BY <1>1, <2>1, <3>2, <4>4
    <3> QED
      BY <3>1, <3>2 DEF WaitersTry
  <2>4. CASE InterruptPut \/ InterruptGet \/ xTaskIncrementTick \/ vTaskSwitchContext
    BY <2>2, <2>4
    DEF InterruptPut, InterruptGet, xQueueGenericSendFromISR, xQueueReceiveFromISR,
        xTaskIncrementTick, vTaskSwitchContext, taskVars
  <2>5. CASE UNCHANGED vars
    BY <2>2, <2>5 DEF vars, taskVars
  <2> QED
    BY <2>3, <2>4, <2>5 DEF Next
<1> QED
  BY <1>2, <1>3

-----------------------------------------------------------------------------
(* No lost wake-up.  A list of waiting tasks is in balance when the items, *)
(* or the slots, there are do not outnumber the tasks that will try for    *)
(* them and the wake-ups that are counted while the queue is locked.       *)

Balanced(waiting, amount, trying, counted) ==
    waiting # {} => amount <= Cardinality(trying) + counted

(* A step that takes the tasks of W out of the list, n of them or all,     *)
(* while those of L stop trying.                                           *)
LEMMA Balance ==
    ASSUME NEW w, NEW w2, NEW a \in Int, NEW a2 \in Int, NEW c \in Int, NEW c2 \in Int,
           NEW T \in SUBSET Task, NEW T2 \in SUBSET Task,
           NEW W \in SUBSET w, NEW L \in SUBSET Task, NEW n \in Int,
           Balanced(w, a, T, c), W \cap T = {}, w2 \subseteq w \ W,
           (T \ L) \cup W \subseteq T2, Cardinality(W) < n => W = w,
           a2 - c2 <= a - c + n - Cardinality(L)
    PROVE  Balanced(w2, a2, T2, c2)
<1> SUFFICES ASSUME w2 # {} PROVE a2 <= Cardinality(T2) + c2
  BY DEF Balanced
<1>1. /\ IsFiniteSet(T) /\ IsFiniteSet(T2) /\ IsFiniteSet(L) /\ IsFiniteSet(W)
      /\ IsFiniteSet(T \ L) /\ IsFiniteSet((T \ L) \cup W) /\ IsFiniteSet(T \cap L)
  <2>1. \A S \in SUBSET Task : IsFiniteSet(S)
    BY TaskAssumption, FS_Subset
  <2> QED
    BY <2>1
<1>2. Cardinality(T \ L) = Cardinality(T) - Cardinality(T \cap L)
  BY <1>1, FS_Difference
<1>3. Cardinality(T \cap L) <= Cardinality(L)
  BY <1>1, FS_Subset
<1>4. Cardinality((T \ L) \cup W) = Cardinality(T \ L) + Cardinality(W)
  <2>1. (T \ L) \cap W = {}
    OBVIOUS
  <2>2. Cardinality((T \ L) \cap W) = 0
    BY <2>1, FS_EmptySet
  <2>3. Cardinality((T \ L) \cup W) =
           Cardinality(T \ L) + Cardinality(W) - Cardinality((T \ L) \cap W)
    BY <1>1, FS_Union
  <2>4. Cardinality(T \ L) \in Nat /\ Cardinality(W) \in Nat
    BY <1>1, FS_CardinalityType
  <2> QED
    BY <2>2, <2>3, <2>4
<1>5. Cardinality((T \ L) \cup W) <= Cardinality(T2)
  BY <1>1, FS_Subset
<1>6. a <= Cardinality(T) + c
  BY DEF Balanced
<1>7. Cardinality(W) >= n
  <2>1. W # w
    OBVIOUS
  <2>2. Cardinality(W) \in Nat
    BY <1>1, FS_CardinalityType
  <2> QED
    BY <2>1, <2>2
<1>8. /\ Cardinality(T) \in Nat /\ Cardinality(L) \in Nat /\ Cardinality(W) \in Nat
      /\ Cardinality(T \ L) \in Nat /\ Cardinality(T \cap L) \in Nat
      /\ Cardinality(T2) \in Nat
  BY <1>1, FS_CardinalityType
<1> HIDE DEF Balanced
<1> QED
  BY <1>2, <1>3, <1>4, <1>5, <1>6, <1>7, <1>8

(* What is there for the tasks of a list, who will try for it, and which   *)
(* lock counts their wake-ups.                                             *)
Amount(list) == IF list = ToSend THEN uxLength - uxMessagesWaiting ELSE uxMessagesWaiting

About(t, list) == IF list = ToSend THEN Sending(t) ELSE Taking(t)

Trying(list) == {t \in Task : About(t, list) /\ WillTry(t) /\ eventList[t] # list}

LockOf(list) == IF list = ToSend THEN cRxLock ELSE cTxLock

NoneLost(list) ==
    Balanced(Waiting(list), Amount(list), Trying(list), Counted(LockOf(list)))

(* Between the test of the queue and the placing on the list, interrupts   *)
(* are counted.                                                            *)
PlaceInTime(list) ==
    \A t \in Task : pc[t] = "place" /\ ListOf(t) = list => Amount(list) <= Counted(LockOf(list))

LEMMA NoneLostIs ==
    NoLostItem = NoneLost(ToReceive) /\ NoLostSlot = NoneLost(ToSend)
<1>1. Trying(ToReceive) = Takers /\ Trying(ToSend) = Senders
  BY TheLists DEF Trying, About, Takers, Senders
<1>2. /\ Amount(ToReceive) = uxMessagesWaiting /\ LockOf(ToReceive) = cTxLock
      /\ Amount(ToSend) = uxLength - uxMessagesWaiting /\ LockOf(ToSend) = cRxLock
  BY TheLists DEF Amount, LockOf
<1> QED
  BY <1>1, <1>2 DEF NoLostItem, NoLostSlot, NoneLost, Balanced

LEMMA AmountTypes ==
    ASSUME WaitBase, TypeOK', NEW list \in {ToSend, ToReceive}
    PROVE  /\ Amount(list) \in Int /\ Amount(list)' \in Int
           /\ Counted(LockOf(list)) \in Int /\ Counted(LockOf(list))' \in Int
           /\ Trying(list) \in SUBSET Task /\ Trying(list)' \in SUBSET Task
BY QueueAssumption
DEF WaitBase, Base, TypeOK, StorageTypeOK, LockTypeOK, Amount, Counted, LockOf, Trying

(* The same for one step of the queue.                                     *)
LEMMA StepBalance ==
    ASSUME WaitBase, TypeOK', NEW list \in {ToSend, ToReceive}, NoneLost(list),
           NEW W \in SUBSET Waiting(list), NEW L \in SUBSET Task, NEW n \in Int,
           \A u \in Trying(list) \ L : u \in Trying(list)',
           \A u \in W : u \in Trying(list)',
           \A u \in Task : eventList'[u] = list => eventList[u] = list /\ u \notin W,
           Cardinality(W) < n => W = Waiting(list),
           Amount(list)' - Counted(LockOf(list))' <=
               Amount(list) - Counted(LockOf(list)) + n - Cardinality(L)
    PROVE  NoneLost(list)'
<1> DEFINE w == Waiting(list)
           a == Amount(list)
           c == Counted(LockOf(list))
           T == Trying(list)
<1>1. /\ a \in Int /\ a' \in Int /\ c \in Int /\ c' \in Int
      /\ T \in SUBSET Task /\ T' \in SUBSET Task
  BY AmountTypes
<1>2. W \cap T = {}
  BY DEF Trying, Waiting
<1>3. w' \subseteq w \ W
  BY DEF Waiting
<1>4. (T \ L) \cup W \subseteq T'
  OBVIOUS
<1>5. Balanced(w, a, T, c) /\ a' - c' <= a - c + n - Cardinality(L) /\ (Cardinality(W) < n => W = w)
  BY DEF NoneLost
<1>6. W \in SUBSET w /\ n \in Int /\ L \in SUBSET Task
  OBVIOUS
<1> HIDE DEF w, a, c, T
<1>7. Balanced(w', a', T', c')
  BY <1>1, <1>2, <1>3, <1>4, <1>5, <1>6, Balance
<1> QED
  BY <1>7 DEF w, a, c, T, NoneLost

LEMMA SmallSets ==
    /\ Cardinality({}) = 0 /\ \A t \in Task : Cardinality({t}) = 1
BY FS_EmptySet, FS_Singleton

(* A list is in balance when there is nothing to wait for.                 *)
LEMMA NothingThere ==
    ASSUME WaitBase, TypeOK', NEW list \in {ToSend, ToReceive}, Amount(list)' <= 0
    PROVE  NoneLost(list)'
<1> DEFINE T == Trying(list)'
           a == Amount(list)'
           c == Counted(LockOf(list))'
<1>1. Cardinality(T) \in Nat
  <2>1. IsFiniteSet(T)
    BY AmountTypes, TaskAssumption, FS_Subset
  <2> QED
    BY <2>1, FS_CardinalityType
<1>2. c \in Nat
  BY DEF TypeOK, LockTypeOK, Counted, LockOf, queueUNLOCKED
<1>3. a \in Int /\ a <= 0
  BY AmountTypes
<1> HIDE DEF T, a, c
<1>4. a <= Cardinality(T) + c
  BY <1>1, <1>2, <1>3
<1> QED
  BY <1>4 DEF T, a, c, NoneLost, Balanced

LEMMA WaiterIs ==
    ASSUME WaitersTry, NEW list \in {ToSend, ToReceive}, NEW u \in Waiting(list)
    PROVE  u \in Task /\ About(u, list) /\ WillTry(u) /\ eventList[u] = list
BY TheLists DEF WaitersTry, About, ListOf, Waiting, Taking, Sending, QueueOps

(* A step of task t that wakes the tasks of W.                             *)
LEMMA TaskBalance ==
    ASSUME WaitBase, WaitersTry, TypeOK', NEW list \in {ToSend, ToReceive}, NoneLost(list),
           NEW t \in Task, Runs(t), Begin(t) \/ KernelStep(t), [Next]_vars,
           ~vTaskPlaceOnEventList(t),
           NEW W \in SUBSET Waiting(list), NEW n \in Int,
           \A u \in W : eventList'[u] # list, Cardinality(W) < n => W = Waiting(list),
           NEW m \in Int, m = (IF pc[t] = "try" /\ About(t, list) THEN 1 ELSE 0),
           Amount(list)' - Counted(LockOf(list))' <= Amount(list) - Counted(LockOf(list)) + n - m
    PROVE  NoneLost(list)'
<1> DEFINE L == IF pc[t] = "try" /\ About(t, list) THEN {t} ELSE {}
<1>1. L \in SUBSET Task /\ Cardinality(L) = m
  BY SmallSets
<1>2. \A u \in Task : eventList'[u] \in {eventList[u], NULL, PendingReady}
  <2>1. \A u \in Task : ~vTaskPlaceOnEventList(u)
    BY DEF vTaskPlaceOnEventList, Runs
  <2> QED
    BY <2>1, OnlyLeaves
<1>3. \A u \in Task : eventList'[u] = list => eventList[u] = list
  BY <1>2, TheLists
<1>4. ASSUME NEW u \in Task, About(u, list), WillTry(u), eventList'[u] # list, u \notin L
      PROVE  u \in Trying(list)'
  <2>1. u = t => pc[t] # "try"
    BY <1>4
  <2>2. WillTry(u)' /\ call'[u] = call[u]
    <3>1. CASE u = t
      BY <1>4, <2>1, <3>1, TriesOn
    <3>2. CASE u # t
      BY <1>4, <3>2, OthersKeep DEF WillTry
    <3> QED
      BY <3>1, <3>2
  <2>3. About(u, list)'
    BY <1>4, <2>2 DEF About, Sending, Taking
  <2> QED
    BY <1>4, <2>2, <2>3 DEF Trying
<1>5. ASSUME NEW u \in Trying(list) \ L PROVE u \in Trying(list)'
  BY <1>3, <1>4, <1>5 DEF Trying
<1>6. ASSUME NEW u \in W PROVE u \in Trying(list)'
  <2>1. u \in Task /\ About(u, list) /\ WillTry(u) /\ eventList[u] = list
    BY WaiterIs
  <2>2. pc[t] = "try" => eventList[t] = NULL
    BY RunnerInNoList DEF Blocking
  <2>3. u \notin L
    BY <2>1, <2>2, TheLists
  <2> QED
    BY <1>4, <1>6, <2>1, <2>3
<1> HIDE DEF L
<1> QED
  BY <1>1, <1>3, <1>5, <1>6, StepBalance

(* A step of task t that wakes nobody.                                     *)
LEMMA QuietBalance ==
    ASSUME WaitBase, WaitersTry, TypeOK', NEW list \in {ToSend, ToReceive}, NoneLost(list),
           NEW t \in Task, Runs(t), Begin(t) \/ KernelStep(t), [Next]_vars,
           ~vTaskPlaceOnEventList(t),
           NEW m \in Int, m = (IF pc[t] = "try" /\ About(t, list) THEN 1 ELSE 0),
           Amount(list)' - Counted(LockOf(list))' <= Amount(list) - Counted(LockOf(list)) - m
    PROVE  NoneLost(list)'
<1>1. /\ {} \in SUBSET Waiting(list) /\ \A u \in {} : eventList'[u] # list
      /\ ~(Cardinality({}) < 0)
  BY SmallSets
<1>2. Amount(list)' - Counted(LockOf(list))' <=
         Amount(list) - Counted(LockOf(list)) + 0 - m
  BY AmountTypes
<1>3. 0 \in Int
  OBVIOUS
<1> QED
  BY <1>1, <1>2, <1>3, TaskBalance

(* The list that WakeOne wakes a task of.                                  *)
LEMMA WakeBalance ==
    ASSUME WaitBase, WaitersTry, TypeOK', NEW list \in {ToSend, ToReceive}, NoneLost(list),
           NEW t \in Task, Runs(t), Begin(t) \/ KernelStep(t), [Next]_vars,
           ~vTaskPlaceOnEventList(t), WakeOne(list),
           NEW m \in Int, m = (IF pc[t] = "try" /\ About(t, list) THEN 1 ELSE 0),
           Amount(list)' - Counted(LockOf(list))' <= Amount(list) - Counted(LockOf(list)) + 1 - m
    PROVE  NoneLost(list)'
<1> PICK W \in Heads(list, 1) : RemoveFromEventList(W)
  BY DEF WakeOne, RemoveFromEventListAndYield
<1>1. W \in SUBSET Waiting(list) /\ (Cardinality(W) < 1 => W = Waiting(list))
  BY DEF Heads
<1>2. \A u \in W : eventList'[u] # list
  BY <1>1, TheLists DEF Waiting, RemoveFromEventList
<1>3. 1 \in Int
  OBVIOUS
<1> QED
  BY <1>1, <1>2, <1>3, TaskBalance

-----------------------------------------------------------------------------
(* The steps, one after the other. *)

LEMMA OutsideUnlocked ==
    ASSUME WaitBase, NEW t \in Task, Runs(t), pc[t] \notin Inside
    PROVE  cTxLock = queueUNLOCKED /\ cRxLock = queueUNLOCKED
BY DEF WaitBase, Base, SuspensionExcludes, Runs, LockHeld, Inside

(* The head of the loop finds nothing.                                     *)
LEMMA FailedTryBalances ==
    ASSUME WaitBase, WaitersTry, TypeOK', NEW list \in {ToSend, ToReceive}, NoneLost(list),
           NEW t \in Task, Runs(t), KernelStep(t), [Next]_vars, pc[t] = "try",
           \/ Sending(t) /\ ~HasRoom(call[t].op) /\ TryFails(t, errQUEUE_FULL)
           \/ Taking(t) /\ ~HasItem /\ TryFails(t, errQUEUE_EMPTY),
           UNCHANGED lockVars
    PROVE  NoneLost(list)'
<1>1. /\ Amount(list)' = Amount(list) /\ Counted(LockOf(list))' = Counted(LockOf(list))
      /\ ~vTaskPlaceOnEventList(t)
  BY DEF TryFails, queueVars, lockVars, Amount, LockOf, vTaskPlaceOnEventList
<1>2. CASE About(t, list)
  <2>1. Amount(list) <= 0
    BY <1>2, QueueAssumption
    DEF About, Amount, HasRoom, HasItem, Sending, Taking, SendOps, TakeOps, WaitBase, Base,
        TypeOK, StorageTypeOK
  <2> QED
    BY <1>1, <2>1, NothingThere
<1>3. CASE ~About(t, list)
  <2>1. Amount(list)' - Counted(LockOf(list))' <= Amount(list) - Counted(LockOf(list)) - 0
    BY <1>1, AmountTypes
  <2>2. 0 \in Int /\ 0 = (IF pc[t] = "try" /\ About(t, list) THEN 1 ELSE 0)
    BY <1>3
  <2> QED
    BY <1>1, <2>1, <2>2, QuietBalance
<1> QED
  BY <1>2, <1>3

LEMMA SendBalances ==
    ASSUME WaitBase, WaitersTry, TypeOK', NEW list \in {ToSend, ToReceive}, NoneLost(list),
           NEW t \in Task, xQueueGenericSend(t), [Next]_vars
    PROVE  NoneLost(list)'
<1>1. /\ Runs(t) /\ KernelStep(t) /\ pc[t] = "try" /\ Sending(t) /\ ~Taking(t)
      /\ ~vTaskPlaceOnEventList(t) /\ UNCHANGED lockVars
      /\ Counted(LockOf(list))' = Counted(LockOf(list))
  BY DEF xQueueGenericSend, KernelStep, Sending, Taking, SendOps, TakeOps,
         vTaskPlaceOnEventList, lockVars, LockOf
<1>2. CASE ~HasRoom(call[t].op) /\ TryFails(t, errQUEUE_FULL)
  BY <1>1, <1>2, FailedTryBalances
<1>3. CASE /\ HasRoom(call[t].op)
           /\ CopyDataToQueue(call[t].item, call[t].op)
           /\ WakeOne(ToReceive)
  <2>1. CASE list = ToReceive
    <3>1. ~About(t, list)
      BY <1>1, <2>1, TheLists DEF About
    <3>2. Amount(list)' - Counted(LockOf(list))'
             <= Amount(list) - Counted(LockOf(list)) + 1 - 0
      BY <1>1, <1>3, <2>1, AmountTypes, TheLists DEF Amount, CopyDataToQueue
    <3>3. 0 \in Int /\ 0 = (IF pc[t] = "try" /\ About(t, list) THEN 1 ELSE 0)
      BY <3>1
    <3> QED
      BY <1>1, <1>3, <2>1, <3>2, <3>3, WakeBalance
  <2>2. CASE list = ToSend /\ uxMessagesWaiting' = uxMessagesWaiting + 1
    <3>1. Amount(list)' - Counted(LockOf(list))' <= Amount(list) - Counted(LockOf(list)) - 1
      <4>1. Amount(list)' = Amount(list) - 1
        BY <2>2, QueueAssumption DEF Amount, WaitBase, Base, TypeOK, StorageTypeOK
      <4> QED
        BY <1>1, <4>1, AmountTypes
    <3>2. 1 \in Int /\ 1 = (IF pc[t] = "try" /\ About(t, list) THEN 1 ELSE 0)
      BY <1>1, <2>2 DEF About
    <3> QED
      BY <1>1, <3>1, <3>2, QuietBalance
  <2>3. CASE list = ToSend /\ uxMessagesWaiting' # uxMessagesWaiting + 1
    <3>1. call[t].op = "overwrite" /\ uxMessagesWaiting' > 0
      BY <1>3, <2>3 DEF CopyDataToQueue
    <3>2. uxLength = 1
      BY <3>1, QueueAssumption DEF WaitBase, CallsMade, None
    <3>3. Amount(list)' <= 0
      BY <2>3, <3>1, <3>2 DEF Amount, TypeOK, StorageTypeOK
    <3> QED
      BY <3>3, NothingThere
  <2> QED
    BY <2>1, <2>2, <2>3
<1> QED
  BY <1>2, <1>3 DEF xQueueGenericSend

LEMMA ReceiveBalances ==
    ASSUME WaitBase, WaitersTry, TypeOK', NEW list \in {ToSend, ToReceive}, NoneLost(list),
           NEW t \in Task, xQueueReceive(t), [Next]_vars
    PROVE  NoneLost(list)'
<1>1. /\ Runs(t) /\ KernelStep(t) /\ pc[t] = "try" /\ Taking(t) /\ ~Sending(t)
      /\ ~vTaskPlaceOnEventList(t) /\ UNCHANGED lockVars
      /\ Counted(LockOf(list))' = Counted(LockOf(list))
  BY DEF xQueueReceive, KernelStep, Sending, Taking, SendOps, TakeOps,
         vTaskPlaceOnEventList, lockVars, LockOf
<1>2. CASE ~HasItem /\ TryFails(t, errQUEUE_EMPTY)
  BY <1>1, <1>2, FailedTryBalances
<1>3. CASE HasItem /\ CopyDataFromQueue /\ WakeOne(ToSend)
  <2>0. uxMessagesWaiting' = uxMessagesWaiting - 1 /\ uxMessagesWaiting \in Int /\ uxLength \in Int
    BY <1>3, QueueAssumption DEF CopyDataFromQueue, WaitBase, Base, TypeOK, StorageTypeOK
  <2>1. CASE list = ToSend
    <3>1. ~About(t, list) /\ Amount(list)' = Amount(list) + 1
      BY <1>1, <2>0, <2>1 DEF About, Amount
    <3>2. Amount(list)' - Counted(LockOf(list))'
             <= Amount(list) - Counted(LockOf(list)) + 1 - 0
      BY <1>1, <3>1, AmountTypes
    <3>3. 0 \in Int /\ 0 = (IF pc[t] = "try" /\ About(t, list) THEN 1 ELSE 0)
      BY <3>1
    <3> QED
      BY <1>1, <1>3, <2>1, <3>2, <3>3, WakeBalance
  <2>2. CASE list = ToReceive
    <3>1. About(t, list) /\ Amount(list)' = Amount(list) - 1
      BY <1>1, <2>0, <2>2, TheLists DEF About, Amount
    <3>2. Amount(list)' - Counted(LockOf(list))' <= Amount(list) - Counted(LockOf(list)) - 1
      BY <1>1, <3>1, AmountTypes
    <3>3. 1 \in Int /\ 1 = (IF pc[t] = "try" /\ About(t, list) THEN 1 ELSE 0)
      BY <1>1, <3>1
    <3> QED
      BY <1>1, <3>2, <3>3, QuietBalance
  <2> QED
    BY <2>1, <2>2
<1> QED
  BY <1>2, <1>3 DEF xQueueReceive

(* A peeker leaves the item to the next that waits for it.                 *)
LEMMA PeekBalances ==
    ASSUME WaitBase, WaitersTry, TypeOK', NEW list \in {ToSend, ToReceive}, NoneLost(list),
           NEW t \in Task, xQueuePeek(t), [Next]_vars
    PROVE  NoneLost(list)'
<1>1. /\ Runs(t) /\ KernelStep(t) /\ pc[t] = "try" /\ Taking(t) /\ ~Sending(t)
      /\ ~vTaskPlaceOnEventList(t) /\ UNCHANGED lockVars
      /\ Counted(LockOf(list))' = Counted(LockOf(list))
  BY DEF xQueuePeek, KernelStep, Sending, Taking, SendOps, TakeOps,
         vTaskPlaceOnEventList, lockVars, LockOf
<1>2. CASE ~HasItem /\ TryFails(t, errQUEUE_EMPTY)
  BY <1>1, <1>2, FailedTryBalances
<1>3. CASE HasItem /\ UNCHANGED queueVars /\ WakeOne(ToReceive)
  <2>0. Amount(list)' = Amount(list)
    BY <1>3 DEF queueVars, Amount
  <2>1. CASE list = ToSend
    <3>1. Amount(list)' - Counted(LockOf(list))' <= Amount(list) - Counted(LockOf(list)) - 0
      BY <1>1, <2>0, AmountTypes
    <3>2. 0 \in Int /\ 0 = (IF pc[t] = "try" /\ About(t, list) THEN 1 ELSE 0)
      BY <1>1, <2>1 DEF About
    <3> QED
      BY <1>1, <3>1, <3>2, QuietBalance
  <2>2. CASE list = ToReceive
    <3>1. Amount(list)' - Counted(LockOf(list))'
             <= Amount(list) - Counted(LockOf(list)) + 1 - 1
      BY <1>1, <2>0, AmountTypes
    <3>2. 1 \in Int /\ 1 = (IF pc[t] = "try" /\ About(t, list) THEN 1 ELSE 0)
      BY <1>1, <2>2, TheLists DEF About
    <3> QED
      BY <1>1, <1>3, <2>2, <3>1, <3>2, WakeBalance
  <2> QED
    BY <2>1, <2>2
<1> QED
  BY <1>2, <1>3 DEF xQueuePeek

(* A reset wakes one sender: enough in a queue of one.                     *)
LEMMA ResetBalances ==
    ASSUME WaitBase, WaitersTry, TypeOK', NEW list \in {ToSend, ToReceive}, NoneLost(list),
           NEW t \in Task, xQueueGenericReset(t), [Next]_vars,
           list = ToReceive \/ uxLength = 1
    PROVE  NoneLost(list)'
<1>1. CASE list = ToReceive
  BY <1>1, NothingThere, TheLists DEF xQueueGenericReset, Amount
<1>2. CASE list = ToSend /\ uxLength = 1
  <2>1. /\ Runs(t) /\ KernelStep(t) /\ pc[t] = "reset" /\ ~vTaskPlaceOnEventList(t)
        /\ WakeOne(ToSend) /\ cRxLock' = queueUNLOCKED /\ uxMessagesWaiting' = 0
    BY DEF xQueueGenericReset, KernelStep, vTaskPlaceOnEventList
  <2>2. cRxLock = queueUNLOCKED
    BY <2>1, OutsideUnlocked DEF Inside
  <2>3. /\ Counted(LockOf(list))' = Counted(LockOf(list)) /\ Amount(list)' = 1
        /\ Amount(list) >= 0
    BY <1>2, <2>1, <2>2 DEF LockOf, Amount, WaitBase, Base, TypeOK, StorageTypeOK
  <2>4. Amount(list)' - Counted(LockOf(list))' <= Amount(list) - Counted(LockOf(list)) + 1 - 0
    BY <2>3, AmountTypes
  <2>5. 0 \in Int /\ 0 = (IF pc[t] = "try" /\ About(t, list) THEN 1 ELSE 0)
    BY <2>1
  <2> QED
    BY <1>2, <2>1, <2>4, <2>5, WakeBalance
<1> QED
  BY <1>1, <1>2

(* Steps that neither touch the items nor answer a count.                  *)
LEMMA OtherStepsBalance ==
    ASSUME WaitBase, WaitersTry, TypeOK', NEW list \in {ToSend, ToReceive}, NoneLost(list),
           NEW t \in Task, [Next]_vars,
           \/ Begin(t) \/ vTaskSuspendAll(t) \/ prvLockQueue(t) \/ xTaskCheckForTimeOut(t)
           \/ prvIsQueueFullOrEmpty(t) \/ xTaskResumeAll(t) \/ portYIELD_WITHIN_API(t)
           \/ RecheckEmpty(t) \/ DelaySuspends(t) \/ vTaskDelay(t) \/ DelayReturns(t)
           \/ list = ToSend /\ prvUnlockQueueTx(t)
           \/ list = ToReceive /\ prvUnlockQueueRx(t)
    PROVE  NoneLost(list)'
<1>1. /\ Runs(t) /\ pc[t] # "try" /\ pc[t] # "place" /\ (Begin(t) \/ KernelStep(t))
      /\ UNCHANGED queueVars /\ Counted(LockOf(list))' = Counted(LockOf(list))
  BY TheLists
  DEF Begin, KernelStep, vTaskSuspendAll, prvLockQueue, xTaskCheckForTimeOut,
      prvIsQueueFullOrEmpty, xTaskResumeAll, portYIELD_WITHIN_API, RecheckEmpty, DelaySuspends,
      vTaskDelay, DelayReturns, prvUnlockQueueTx, prvUnlockQueueRx, lockVars, LockOf, Counted,
      queueUNLOCKED, queueLOCKED_UNMODIFIED
<1>2. Amount(list)' = Amount(list) /\ ~vTaskPlaceOnEventList(t)
  BY <1>1 DEF queueVars, Amount, vTaskPlaceOnEventList
<1>3. Amount(list)' - Counted(LockOf(list))' <= Amount(list) - Counted(LockOf(list)) - 0
  BY <1>1, <1>2, AmountTypes
<1>4. 0 \in Int /\ 0 = (IF pc[t] = "try" /\ About(t, list) THEN 1 ELSE 0)
  BY <1>1
<1> QED
  BY <1>1, <1>2, <1>3, <1>4, QuietBalance

(* prvUnlockQueue wakes as many tasks as were counted.                     *)
LEMMA UnlockBalances ==
    ASSUME WaitBase, WaitersTry, TypeOK', NEW list \in {ToSend, ToReceive}, NoneLost(list),
           NEW t \in Task, [Next]_vars,
           \/ list = ToReceive /\ prvUnlockQueueTx(t)
           \/ list = ToSend /\ prvUnlockQueueRx(t)
    PROVE  NoneLost(list)'
<1>1. PICK W \in Heads(list, Counted(LockOf(list))) : RemoveFromEventList(W)
  BY TheLists DEF prvUnlockQueueTx, prvUnlockQueueRx, LockOf
<1> DEFINE n == Counted(LockOf(list))
<1>2. /\ Runs(t) /\ pc[t] # "try" /\ pc[t] # "place" /\ KernelStep(t)
      /\ UNCHANGED queueVars /\ Counted(LockOf(list))' = 0
  BY TheLists DEF prvUnlockQueueTx, prvUnlockQueueRx, KernelStep, LockOf, Counted
<1>3. Amount(list)' = Amount(list) /\ ~vTaskPlaceOnEventList(t)
  BY <1>2 DEF queueVars, Amount, vTaskPlaceOnEventList
<1>4. W \in SUBSET Waiting(list) /\ (Cardinality(W) < n => W = Waiting(list))
  BY <1>1 DEF Heads
<1>5. \A u \in W : eventList'[u] # list
  BY <1>1, <1>4, TheLists DEF Waiting, RemoveFromEventList
<1>6. Amount(list)' - Counted(LockOf(list))' <= Amount(list) - Counted(LockOf(list)) + n - 0
  BY <1>2, <1>3, AmountTypes
<1>7. n \in Int /\ 0 \in Int /\ 0 = (IF pc[t] = "try" /\ About(t, list) THEN 1 ELSE 0)
  BY <1>2, AmountTypes
<1> HIDE DEF n
<1> QED
  BY <1>2, <1>3, <1>4, <1>5, <1>6, <1>7, TaskBalance

(* The task that blocks found nothing, or what came since is counted.      *)
LEMMA PlaceBalances ==
    ASSUME WaitBase, WaitersTry, TypeOK', NEW list \in {ToSend, ToReceive}, NoneLost(list),
           PlaceInTime(list), NEW t \in Task, vTaskPlaceOnEventList(t)
    PROVE  NoneLost(list)'
<1>1. /\ pxCurrentTCB = t /\ pc[t] = "place" /\ call[t].op \in QueueOps
      /\ UNCHANGED <<call, queueVars, lockVars>>
      /\ eventList' = [eventList EXCEPT ![t] = ListOf(t)]
      /\ pc' = [pc EXCEPT ![t] = "unlockTx"] /\ after' = [after EXCEPT ![t] = "block"]
  BY DEF vTaskPlaceOnEventList, Runs, PlaceOnEventList, UnlockThen, Goto, WaitBase, CallKnown,
         Known
<1>2. Amount(list)' = Amount(list) /\ Counted(LockOf(list))' = Counted(LockOf(list))
  BY <1>1 DEF queueVars, lockVars, Amount, LockOf
<1>3. CASE ListOf(t) = list
  <2> DEFINE T == Trying(list)'
             a == Amount(list)
             c == Counted(LockOf(list))
  <2>1. a <= c /\ a \in Int /\ c \in Int
    BY <1>1, <1>3, AmountTypes DEF PlaceInTime
  <2>2. Cardinality(T) \in Nat
    <3>1. IsFiniteSet(T)
      BY AmountTypes, TaskAssumption, FS_Subset
    <3> QED
      BY <3>1, FS_CardinalityType
  <2>3. a' = a /\ c' = c
    BY <1>2
  <2> HIDE DEF T, a, c
  <2>4. a' <= Cardinality(T) + c'
    BY <2>1, <2>2, <2>3
  <2> QED
    BY <2>4 DEF T, a, c, NoneLost, Balanced
<1>4. CASE ListOf(t) # list
  <2>1. /\ {} \in SUBSET Waiting(list) /\ {} \in SUBSET Task /\ 0 \in Int
        /\ ~(Cardinality({}) < 0)
    BY SmallSets
  <2>2. eventList[t] = NULL
    BY <1>1, RunnerInNoList DEF Blocking, vTaskPlaceOnEventList
  <2>3. \A u \in Task : eventList'[u] = list => eventList[u] = list /\ u \notin {}
    BY <1>1, <1>4 DEF WaitBase, Base, TypeOK, SchedTypeOK
  <2>4. ASSUME NEW u \in Trying(list) PROVE u \in Trying(list)'
    <3>1. u # t
      BY <1>1, <2>4 DEF Trying, WillTry
    <3> QED
      BY <1>1, <2>4, <3>1
      DEF Trying, About, Sending, Taking, WillTry, WaitBase, Base, TypeOK, TaskTypeOK, SchedTypeOK
  <2>5. Amount(list)' - Counted(LockOf(list))'
           <= Amount(list) - Counted(LockOf(list)) + 0 - Cardinality({})
    BY <1>2, AmountTypes, SmallSets
  <2>6. /\ \A u \in Trying(list) \ {} : u \in Trying(list)'
        /\ \A u \in {} : u \in Trying(list)'
    BY <2>4
  <2> QED
    BY <2>1, <2>3, <2>5, <2>6, StepBalance
<1> QED
  BY <1>3, <1>4

(* Steps of no task.                                                       *)
LEMMA NoTaskBalance ==
    ASSUME WaitBase, WaitersTry, TypeOK', NEW list \in {ToSend, ToReceive}, NoneLost(list),
           UNCHANGED <<pc, call, after>>,
           NEW W \in SUBSET Waiting(list), NEW n \in Int,
           \A u \in Task : eventList'[u] \in {eventList[u], NULL, PendingReady},
           \A u \in W : eventList'[u] # list, Cardinality(W) < n => W = Waiting(list),
           Amount(list)' - Counted(LockOf(list))' <= Amount(list) - Counted(LockOf(list)) + n
    PROVE  NoneLost(list)'
<1>1. \A u \in Task : eventList'[u] = list => eventList[u] = list
  BY TheLists
<1>2. ASSUME NEW u \in Task, About(u, list), WillTry(u), eventList'[u] # list
      PROVE  u \in Trying(list)'
  BY <1>2 DEF Trying, About, Sending, Taking, WillTry
<1>3. \A u \in Trying(list) \ {} : u \in Trying(list)'
  BY <1>1, <1>2 DEF Trying
<1>4. \A u \in W : u \in Trying(list)'
  BY <1>2, WaiterIs
<1>5. {} \in SUBSET Task
  OBVIOUS
<1>6. Amount(list)' - Counted(LockOf(list))'
         <= Amount(list) - Counted(LockOf(list)) + n - Cardinality({})
  BY AmountTypes, SmallSets
<1> QED
  BY <1>1, <1>3, <1>4, <1>5, <1>6, StepBalance

LEMMA NobodyWoken ==
    ASSUME WaitBase, WaitersTry, TypeOK', NEW list \in {ToSend, ToReceive}, NoneLost(list),
           UNCHANGED <<pc, call, after>>,
           \A u \in Task : eventList'[u] \in {eventList[u], NULL, PendingReady},
           Amount(list)' - Counted(LockOf(list))' <= Amount(list) - Counted(LockOf(list))
    PROVE  NoneLost(list)'
<1>1. /\ {} \in SUBSET Waiting(list) /\ \A u \in {} : eventList'[u] # list
      /\ ~(Cardinality({}) < 0)
  BY SmallSets
<1>2. /\ 0 \in Int
      /\ Amount(list)' - Counted(LockOf(list))' <= Amount(list) - Counted(LockOf(list)) + 0
  BY AmountTypes
<1> QED
  BY <1>1, <1>2, NoTaskBalance

(* What an interrupt handler does to the queue and to the list that waits  *)
(* for it, and what it leaves alone.                                       *)
LEMMA HandlerBalances ==
    ASSUME WaitBase, WaitersTry, TypeOK', NEW list \in {ToSend, ToReceive}, NoneLost(list),
           [Next]_vars, InterruptPut \/ InterruptGet
    PROVE  NoneLost(list)'
<1>1. \A u \in Task : eventList'[u] \in {eventList[u], NULL, PendingReady}
  <2>1. ~ \E t \in Task : vTaskPlaceOnEventList(t)
    BY DEF vTaskPlaceOnEventList, InterruptPut, InterruptGet, xQueueGenericSendFromISR,
           xQueueReceiveFromISR, taskVars, UnlockThen, Goto, WaitBase, Base, TypeOK, TaskTypeOK
  <2> QED
    BY <2>1, OnlyLeaves
<1>2. UNCHANGED <<pc, call, after>>
  BY DEF InterruptPut, InterruptGet, xQueueGenericSendFromISR, xQueueReceiveFromISR, taskVars
<1>3. PICK to \in {ToSend, ToReceive} :
         /\ WakeOrCount(LockOf(to), to)
         /\ LockOf(to)' = IF LockOf(to) = queueUNLOCKED THEN LockOf(to) ELSE LockOf(to) + 1
         /\ Amount(to)' <= Amount(to) + 1
         /\ \A other \in {ToSend, ToReceive} \ {to} :
               LockOf(other)' = LockOf(other) /\ Amount(other)' <= Amount(other)
  <2>0. uxMessagesWaiting \in Int /\ uxLength \in Int
    BY QueueAssumption DEF WaitBase, Base, TypeOK, StorageTypeOK
  <2>1. CASE InterruptPut
    <3> PICK x \in Item, p \in SendsISR : xQueueGenericSendFromISR(x, p)
      BY <2>1 DEF InterruptPut
    <3>1. uxMessagesWaiting' = uxMessagesWaiting \/ uxMessagesWaiting' = uxMessagesWaiting + 1
      BY DEF xQueueGenericSendFromISR, CopyDataToQueue
    <3>2. /\ Amount(ToReceive) = uxMessagesWaiting
          /\ Amount(ToReceive)' = uxMessagesWaiting'
          /\ Amount(ToSend) = uxLength - uxMessagesWaiting
          /\ Amount(ToSend)' = uxLength - uxMessagesWaiting'
          /\ LockOf(ToReceive) = cTxLock /\ LockOf(ToReceive)' = cTxLock'
          /\ LockOf(ToSend) = cRxLock /\ LockOf(ToSend)' = cRxLock'
      BY TheLists DEF LockOf, Amount
    <3>3. Amount(ToReceive)' <= Amount(ToReceive) + 1 /\ Amount(ToSend)' <= Amount(ToSend)
      BY <2>0, <3>1, <3>2
    <3>4. /\ WakeOrCount(LockOf(ToReceive), ToReceive)
          /\ LockOf(ToReceive)' = IF LockOf(ToReceive) = queueUNLOCKED THEN LockOf(ToReceive)
                                                                    ELSE LockOf(ToReceive) + 1
          /\ LockOf(ToSend)' = LockOf(ToSend)
      BY <3>2 DEF xQueueGenericSendFromISR
    <3>5. {ToSend, ToReceive} \ {ToReceive} = {ToSend}
      BY TheLists
    <3> QED
      BY <3>3, <3>4, <3>5
  <2>2. CASE InterruptGet
    <3>1. uxMessagesWaiting' = uxMessagesWaiting - 1
      BY <2>2 DEF InterruptGet, xQueueReceiveFromISR, CopyDataFromQueue
    <3> QED
      BY <2>0, <2>2, <3>1, TheLists DEF InterruptGet, xQueueReceiveFromISR, LockOf, Amount
  <2> QED
    BY <2>1, <2>2
<1>4. CASE list # to
  <2>1. Amount(list)' - Counted(LockOf(list))' <= Amount(list) - Counted(LockOf(list))
    BY <1>3, <1>4, AmountTypes DEF Counted
  <2> QED
    BY <1>1, <1>2, <2>1, NobodyWoken
<1>5. CASE list = to /\ LockOf(list) = queueUNLOCKED
  <2>1. PICK W \in Heads(list, 1) : RemoveFromEventList(W)
    BY <1>3, <1>5 DEF WakeOrCount, WakeOne, RemoveFromEventListAndYield
  <2>2. W \in SUBSET Waiting(list) /\ (Cardinality(W) < 1 => W = Waiting(list))
    BY <2>1 DEF Heads
  <2>3. \A u \in W : eventList'[u] # list
    BY <2>1, <2>2, TheLists DEF Waiting, RemoveFromEventList
  <2>4. /\ 1 \in Int
        /\ Amount(list)' - Counted(LockOf(list))' <= Amount(list) - Counted(LockOf(list)) + 1
    BY <1>3, <1>5, AmountTypes DEF Counted
  <2> QED
    BY <1>1, <1>2, <2>2, <2>3, <2>4, NoTaskBalance
<1>6. CASE list = to /\ LockOf(list) # queueUNLOCKED
  <2>1. LockOf(list) \in Nat
    BY <1>6 DEF WaitBase, Base, TypeOK, LockTypeOK, LockOf, queueUNLOCKED
  <2>2. Counted(LockOf(list)) = LockOf(list) /\ Counted(LockOf(list))' = LockOf(list) + 1
    BY <1>3, <1>6, <2>1 DEF Counted, queueUNLOCKED
  <2>3. Amount(list)' - Counted(LockOf(list))' <= Amount(list) - Counted(LockOf(list))
    BY <1>3, <1>6, <2>1, <2>2, AmountTypes
  <2> QED
    BY <1>1, <1>2, <2>3, NobodyWoken
<1> QED
  BY <1>4, <1>5, <1>6

LEMMA TimeBalances ==
    ASSUME WaitBase, WaitersTry, TypeOK', NEW list \in {ToSend, ToReceive}, NoneLost(list),
           xTaskIncrementTick \/ vTaskSwitchContext \/ UNCHANGED vars
    PROVE  NoneLost(list)'
<1>1. UNCHANGED <<pc, call, after, queueVars, lockVars>>
  BY DEF xTaskIncrementTick, vTaskSwitchContext, vars, taskVars
<1>2. \A u \in Task : eventList'[u] \in {eventList[u], NULL, PendingReady}
  <2>1. CASE xTaskIncrementTick
    <3>1. PICK E \in SUBSET Timed : IncrementTick(E)
      BY <2>1 DEF xTaskIncrementTick
    <3> QED
      BY <3>1 DEF IncrementTick
  <2>2. CASE vTaskSwitchContext \/ UNCHANGED vars
    BY <2>2 DEF vTaskSwitchContext, SwitchContext, vars, schedVars
  <2> QED
    BY <2>1, <2>2
<1>3. Amount(list)' - Counted(LockOf(list))' <= Amount(list) - Counted(LockOf(list))
  <2>1. Amount(list)' = Amount(list) /\ Counted(LockOf(list))' = Counted(LockOf(list))
    BY <1>1 DEF queueVars, lockVars, Amount, LockOf
  <2> QED
    BY <2>1, AmountTypes
<1> QED
  BY <1>1, <1>2, <1>3, NobodyWoken

(* A task goes on to block only if it found nothing, and what an interrupt *)
(* does to the queue from then on is counted.                              *)
LEMMA InTimeStep ==
    ASSUME WaitBase, TypeOK', NEW list \in {ToSend, ToReceive}, PlaceInTime(list), [Next]_vars
    PROVE  PlaceInTime(list)'
<1> SUFFICES ASSUME NEW t \in Task, pc'[t] = "place", ListOf(t)' = list
             PROVE  Amount(list)' <= Counted(LockOf(list))'
  BY DEF PlaceInTime
<1> USE DEF WaitBase
<1>1. CASE UNCHANGED <<pc, call, queueVars, lockVars>>
  <2>1. Amount(list)' = Amount(list) /\ Counted(LockOf(list))' = Counted(LockOf(list))
    BY <1>1 DEF queueVars, lockVars, Amount, LockOf
  <2>2. pc[t] = "place" /\ ListOf(t) = list
    BY <1>1 DEF ListOf, Sending
  <2> QED
    BY <2>1, <2>2 DEF PlaceInTime
<1>2. CASE xTaskIncrementTick \/ vTaskSwitchContext \/ UNCHANGED vars
  BY <1>1, <1>2 DEF xTaskIncrementTick, vTaskSwitchContext, vars, taskVars
<1>3. ASSUME NEW u \in Task, Begin(u) \/ KernelStep(u)
      PROVE  Amount(list)' <= Counted(LockOf(list))'
  <2>1. Runs(u)
    BY <1>3
    DEF Begin, KernelStep, xQueueGenericSend, xQueueReceive, xQueuePeek, xQueueGenericReset,
        vTaskSuspendAll, prvLockQueue, xTaskCheckForTimeOut, prvIsQueueFullOrEmpty,
        vTaskPlaceOnEventList, prvUnlockQueueTx, prvUnlockQueueRx, xTaskResumeAll,
        portYIELD_WITHIN_API, RecheckEmpty, DelaySuspends, vTaskDelay, DelayReturns
  <2>2. t = u
    <3>1. t # u => pc[t] = "place"
      BY <1>3, OthersKeep
    <3>2. pc[t] = "place" => pxCurrentTCB = t
      BY DEF Base, SuspensionExcludes, Inside
    <3> QED
      BY <2>1, <3>1, <3>2 DEF Runs
  <2>3. prvIsQueueFullOrEmpty(u) /\ MustBlock(u)
    <3>1. CASE xTaskResumeAll(u)
      BY <1>3, <2>2, <3>1, Resumes DEF Base, TypeOK, TaskTypeOK
    <3>2. CASE Begin(u)
      <4>1. pc'[u] \in {"reset", "sleep", "try"}
        BY <3>2 DEF Begin, Goto, Base, TypeOK, TaskTypeOK
      <4> QED
        BY <2>2, <4>1
    <3>3. CASE KernelStep(u) /\ ~xTaskResumeAll(u)
      BY <2>2, <3>3
      DEF KernelStep, xQueueGenericSend, xQueueReceive, xQueuePeek, xQueueGenericReset,
          vTaskSuspendAll, prvLockQueue, xTaskCheckForTimeOut, prvIsQueueFullOrEmpty,
          vTaskPlaceOnEventList, prvUnlockQueueTx, prvUnlockQueueRx, portYIELD_WITHIN_API,
          RecheckEmpty, DelaySuspends, vTaskDelay, DelayReturns, TryFails, Return, Goto,
          UnlockThen, Base, TypeOK, TaskTypeOK
    <3> QED
      BY <1>3, <3>1, <3>2, <3>3
  <2>4. /\ Amount(list)' = Amount(list) /\ Counted(LockOf(list))' = Counted(LockOf(list))
        /\ ListOf(t) = list
    BY <2>2, <2>3 DEF prvIsQueueFullOrEmpty, queueVars, lockVars, Amount, LockOf, ListOf, Sending
  <2>5. Amount(list) = 0
    BY <2>2, <2>3, <2>4, TheLists, QueueAssumption DEF MustBlock, ListOf, Amount
  <2>6. Counted(LockOf(list)) \in Nat
    BY DEF Base, TypeOK, LockTypeOK, Counted, LockOf, queueUNLOCKED
  <2> QED
    BY <2>4, <2>5, <2>6
<1>4. CASE InterruptPut \/ InterruptGet
  <2>1. UNCHANGED <<pc, call>>
    BY <1>4
    DEF InterruptPut, InterruptGet, xQueueGenericSendFromISR, xQueueReceiveFromISR, taskVars
  <2>2. pc[t] = "place" /\ ListOf(t) = list
    BY <2>1 DEF ListOf, Sending
  <2>3. cTxLock \in Nat /\ cRxLock \in Nat
    <3>1. pc[pxCurrentTCB] \in LockHeld
      BY <2>2 DEF Base, SuspensionExcludes, Inside, LockHeld
    <3> QED
      BY <3>1 DEF LockedTogether, Base, TypeOK, LockTypeOK, queueUNLOCKED
  <2>4. Amount(list) <= Counted(LockOf(list)) /\ Counted(LockOf(list)) = LockOf(list)
    BY <2>2, <2>3 DEF PlaceInTime, Counted, LockOf, queueUNLOCKED
  <2>5. \/ /\ uxMessagesWaiting' \in {uxMessagesWaiting, uxMessagesWaiting + 1}
           /\ cTxLock' = cTxLock + 1 /\ cRxLock' = cRxLock
        \/ /\ uxMessagesWaiting' = uxMessagesWaiting - 1
           /\ cRxLock' = cRxLock + 1 /\ cTxLock' = cTxLock
    BY <1>4, <2>3
    DEF InterruptPut, InterruptGet, xQueueGenericSendFromISR, xQueueReceiveFromISR,
        CopyDataToQueue, CopyDataFromQueue, queueUNLOCKED
  <2>6. uxMessagesWaiting \in Int /\ uxLength \in Int
    BY QueueAssumption DEF Base, TypeOK, StorageTypeOK
  <2>7. Amount(list)' <= LockOf(list)'
    BY <2>3, <2>4, <2>5, <2>6, TheLists DEF Amount, LockOf
  <2>8. LockOf(list)' \in Nat /\ Counted(LockOf(list))' = LockOf(list)'
    BY <2>3, <2>5 DEF LockOf, Counted, queueUNLOCKED
  <2> QED
    BY <2>7, <2>8
<1> QED
  BY <1>2, <1>3, <1>4 DEF Next

(* The list on which a reset may leave tasks behind is that of the senders,*)
(* and only if the queue has more than one slot.                           *)
LEMMA BalanceStep ==
    ASSUME WaitBase, WaitersTry, NEW list \in {ToSend, ToReceive}, NoneLost(list),
           PlaceInTime(list), [Next]_vars,
           list = ToReceive \/ uxLength = 1 \/ \A t \in Task : ~xQueueGenericReset(t)
    PROVE  NoneLost(list)'
<1>1. TypeOK'
  BY TypeStep DEF WaitBase, Base
<1>2. ASSUME NEW t \in Task, Begin(t) \/ KernelStep(t) PROVE NoneLost(list)'
  BY <1>1, <1>2, SendBalances, ReceiveBalances, PeekBalances, ResetBalances, OtherStepsBalance,
     UnlockBalances, PlaceBalances
  DEF KernelStep
<1> QED
  BY <1>1, <1>2, HandlerBalances, TimeBalances DEF Next

LEMMA WaitInvariance == Spec => [](WaitBase /\ WaitersTry)
<1>1. Init => LockedTogether /\ WaitersTry
  BY TheLists DEF Init, SchedInit, LockedTogether, LockHeld, WaitersTry
<1>2. Base /\ LockedTogether /\ [Next]_vars => LockedTogether'
  BY LockedStep
<1>3. WaitBase /\ WaitersTry /\ [Next]_vars => WaitersTry'
  BY WaitersStep
<1>4. Spec => [](Base /\ BInv /\ CallKnown /\ CallsMade)
  <2>1. ChannelInv => CallKnown /\ CallsMade
    BY DEF ChannelInv
  <2> QED
    BY <2>1, BlockingInvariance, ChannelInvariance, PTL
<1>5. (Base /\ BInv /\ CallKnown /\ CallsMade) /\ LockedTogether <=> WaitBase
  BY DEF WaitBase
<1> QED
  BY <1>1, <1>2, <1>3, <1>4, <1>5, PTL DEF Spec

LEMMA NobodyWaitsAtFirst ==
    ASSUME Init, NEW list \in {ToSend, ToReceive}
    PROVE  NoneLost(list) /\ PlaceInTime(list)
<1>1. Waiting(list) = {}
  BY TheLists DEF Init, SchedInit, Waiting
<1> QED
  BY <1>1 DEF Init, NoneLost, Balanced, PlaceInTime

(* No receiver is left waiting beside an item: whatever the tasks, their   *)
(* priorities, timeouts, peeks, resets and the interrupts between any two  *)
(* of their steps, every item of a queue that tasks wait for is spoken for.*)
THEOREM NoItemLost == Spec => []NoLostItem
<1>1. Init => NoneLost(ToReceive) /\ PlaceInTime(ToReceive)
  BY NobodyWaitsAtFirst
<1>2. WaitBase /\ WaitersTry /\ NoneLost(ToReceive) /\ PlaceInTime(ToReceive) /\ [Next]_vars
         => (NoneLost(ToReceive) /\ PlaceInTime(ToReceive))'
  <2> SUFFICES ASSUME WaitBase, WaitersTry, NoneLost(ToReceive), PlaceInTime(ToReceive),
                      [Next]_vars
               PROVE  NoneLost(ToReceive)' /\ PlaceInTime(ToReceive)'
    OBVIOUS
  <2>1. TypeOK'
    BY TypeStep DEF WaitBase, Base
  <2> QED
    BY <2>1, BalanceStep, InTimeStep
<1>3. NoneLost(ToReceive) <=> NoLostItem
  BY NoneLostIs
<1> QED
  BY <1>1, <1>2, <1>3, WaitInvariance, PTL DEF Spec

(* No sender is left waiting beside a free slot, if no task resets the     *)
(* queue or the queue has one slot: a reset frees every slot and wakes one *)
(* sender (queue.c:277).                                                   *)
NobodyResets == \A t \in Task : \A c \in Call[t] : c.op # "reset"

LEMMA NoReset ==
    ASSUME WaitBase, NobodyResets, NEW t \in Task
    PROVE  ~xQueueGenericReset(t)
<1>1. pc[t] = "reset" => call[t].op = "reset" /\ call[t] \in Call[t] \cup {None}
  BY DEF WaitBase, CallKnown, Known, CallsMade
<1> QED
  BY <1>1, NoneIsNoCall DEF NobodyResets, xQueueGenericReset

THEOREM NoSlotLost ==
    ASSUME uxLength = 1 \/ NobodyResets
    PROVE  Spec => []NoLostSlot
<1>1. Init => NoneLost(ToSend) /\ PlaceInTime(ToSend)
  BY NobodyWaitsAtFirst
<1>2. WaitBase /\ WaitersTry /\ NoneLost(ToSend) /\ PlaceInTime(ToSend) /\ [Next]_vars
         => (NoneLost(ToSend) /\ PlaceInTime(ToSend))'
  <2> SUFFICES ASSUME WaitBase, WaitersTry, NoneLost(ToSend), PlaceInTime(ToSend), [Next]_vars
               PROVE  NoneLost(ToSend)' /\ PlaceInTime(ToSend)'
    OBVIOUS
  <2>1. TypeOK'
    BY TypeStep DEF WaitBase, Base
  <2>2. uxLength = 1 \/ \A t \in Task : ~xQueueGenericReset(t)
    BY NoReset
  <2> QED
    BY <2>1, <2>2, BalanceStep, InTimeStep
<1>3. NoneLost(ToSend) <=> NoLostSlot
  BY NoneLostIs
<1> QED
  BY <1>1, <1>2, <1>3, WaitInvariance, PTL DEF Spec

=============================================================================
