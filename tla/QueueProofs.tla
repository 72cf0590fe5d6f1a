---------------------------- MODULE QueueProofs ----------------------------
(***************************************************************************)
(* Proofs about module Queue, for every number of tasks, every assignment  *)
(* of priorities, every length of the queue and every mix of calls.        *)
(***************************************************************************)
EXTENDS Queue, SequenceTheorems, TLAPS

-----------------------------------------------------------------------------

LEMMA SlotFacts ==
    ASSUME NEW s \in Slot
    PROVE  SlotAfter(s) \in Slot /\ SlotBefore(s) \in Slot
BY QueueAssumption DEF Slot, SlotAfter, SlotBefore

THEOREM InitTypeOK == Init => TypeOK
<1> SUFFICES ASSUME Init PROVE TypeOK
  OBVIOUS
<1>1. SchedTypeOK
  BY TaskAssumption DEF Init, SchedInit, SchedTypeOK, StateList, EventList, Ready, NULL
<1>2. StorageTypeOK
  BY QueueAssumption DEF Init, StorageTypeOK, Slot
<1>3. LockTypeOK
  BY QueueAssumption DEF Init, LockTypeOK, queueUNLOCKED
<1>4. TaskTypeOK
  BY DEF Init, TaskTypeOK, PC, After, TimeOut, Reply, NoReply
<1> QED
  BY <1>1, <1>2, <1>3, <1>4 DEF TypeOK

-----------------------------------------------------------------------------
(* What the pieces the actions are made of do to the types. *)

LEMMA WakeTypes ==
    ASSUME SchedTypeOK, NEW list, NEW n, NEW W \in Heads(list, n), RemoveFromEventList(W)
    PROVE  /\ stateList' \in [Task -> StateList]
           /\ eventList' \in [Task -> EventList]
           /\ xYieldPending' \in BOOLEAN
<1>1. stateList' \in [Task -> StateList]
  BY DEF SchedTypeOK, RemoveFromEventList, StateList, Ready, Delayed, Suspended
<1>2. eventList' \in [Task -> EventList]
  BY DEF SchedTypeOK, RemoveFromEventList, EventList, NULL, PendingReady
<1>3. xYieldPending' \in BOOLEAN
  BY DEF SchedTypeOK, RemoveFromEventList, Preempts
<1> QED
  BY <1>1, <1>2, <1>3

LEMMA WakeOneTypes ==
    ASSUME SchedTypeOK, NEW list, WakeOne(list)
    PROVE  SchedTypeOK'
<1> PICK W \in Heads(list, 1) : RemoveFromEventListAndYield(W)
  BY DEF WakeOne
<1>1. pendSV' \in BOOLEAN
  BY DEF RemoveFromEventListAndYield, Preempts, SchedTypeOK
<1> QED
  BY <1>1, WakeTypes DEF WakeOne, RemoveFromEventListAndYield, SchedTypeOK

LEMMA CopyToTypes ==
    ASSUME StorageTypeOK, NEW x \in Item, NEW position \in SendOps,
           HasRoom(position), CopyDataToQueue(x, position)
    PROVE  StorageTypeOK'
BY SlotFacts, QueueAssumption DEF StorageTypeOK, CopyDataToQueue, HasRoom, SendOps

LEMMA CopyFromTypes ==
    ASSUME StorageTypeOK, HasItem, CopyDataFromQueue
    PROVE  StorageTypeOK' /\ NextItem \in Item \cup {Empty}
BY SlotFacts, QueueAssumption DEF StorageTypeOK, CopyDataFromQueue, HasItem, NextItem

LEMMA ReturnTypes ==
    ASSUME TaskTypeOK, NEW t \in Task, NEW r \in Reply, Return(t, r), UNCHANGED after
    PROVE  TaskTypeOK'
BY DEF TaskTypeOK, Return, Goto, PC, TimeOut

LEMMA Replies ==
    /\ NoReply \in Reply /\ errQUEUE_FULL \in Reply /\ errQUEUE_EMPTY \in Reply
    /\ \A x \in Item \cup {Empty} : pdPASS(x) \in Reply
BY DEF Reply, NoReply, errQUEUE_FULL, errQUEUE_EMPTY, pdPASS

LEMMA TryFailsTypes ==
    ASSUME TypeOK, NEW t \in Task, NEW r \in Reply, TryFails(t, r), UNCHANGED <<lockVars, after>>
    PROVE  TypeOK'
<1>1. TaskTypeOK'
  <2>1. CASE Return(t, r)
    BY <2>1, ReturnTypes DEF TypeOK
  <2>2. CASE ~Return(t, r)
    BY <2>2 DEF TryFails, TypeOK, TaskTypeOK, Goto, PC, TimeOut
  <2> QED
    BY <2>1, <2>2
<1> QED
  BY <1>1 DEF TypeOK, TryFails, schedVars, queueVars, lockVars,
              SchedTypeOK, StorageTypeOK, LockTypeOK

-----------------------------------------------------------------------------
(* The type invariant, action by action. *)

LEMMA SendTypes ==
    ASSUME TypeOK, NEW t \in Task, xQueueGenericSend(t)
    PROVE  TypeOK'
<1>1. CASE TryFails(t, errQUEUE_FULL) /\ UNCHANGED <<lockVars, after>>
  BY <1>1, TryFailsTypes, Replies
<1>2. CASE /\ HasRoom(call[t].op)
           /\ CopyDataToQueue(call[t].item, call[t].op)
           /\ WakeOne(ToReceive)
           /\ Return(t, pdPASS(Empty))
           /\ UNCHANGED <<lockVars, after>>
  <2>1. call[t].op \in SendOps /\ call[t].item \in Item
    BY DEF TypeOK, TaskTypeOK, xQueueGenericSend, Sending, Calls, None, SendOps, TakeOps
  <2>2. StorageTypeOK'
    BY <1>2, <2>1, CopyToTypes DEF TypeOK
  <2>3. SchedTypeOK'
    BY <1>2, WakeOneTypes DEF TypeOK
  <2>4. TaskTypeOK'
    BY <1>2, ReturnTypes, Replies DEF TypeOK
  <2> QED
    BY <1>2, <2>2, <2>3, <2>4 DEF TypeOK, LockTypeOK, lockVars
<1> QED
  BY <1>1, <1>2 DEF xQueueGenericSend

LEMMA ReceiveTypes ==
    ASSUME TypeOK, NEW t \in Task, xQueueReceive(t)
    PROVE  TypeOK'
<1>1. CASE TryFails(t, errQUEUE_EMPTY) /\ UNCHANGED <<lockVars, after>>
  BY <1>1, TryFailsTypes, Replies
<1>2. CASE /\ HasItem
           /\ CopyDataFromQueue
           /\ WakeOne(ToSend)
           /\ Return(t, pdPASS(NextItem))
           /\ UNCHANGED <<lockVars, after>>
  <2>1. StorageTypeOK' /\ NextItem \in Item \cup {Empty}
    BY <1>2, CopyFromTypes DEF TypeOK
  <2>2. SchedTypeOK'
    BY <1>2, WakeOneTypes DEF TypeOK
  <2>3. TaskTypeOK'
    BY <1>2, <2>1, ReturnTypes, Replies DEF TypeOK
  <2> QED
    BY <1>2, <2>1, <2>2, <2>3 DEF TypeOK, LockTypeOK, lockVars
<1> QED
  BY <1>1, <1>2 DEF xQueueReceive

LEMMA PeekTypes ==
    ASSUME TypeOK, NEW t \in Task, xQueuePeek(t)
    PROVE  TypeOK'
<1>1. CASE TryFails(t, errQUEUE_EMPTY) /\ UNCHANGED <<lockVars, after>>
  BY <1>1, TryFailsTypes, Replies
<1>2. CASE /\ HasItem
           /\ UNCHANGED queueVars
           /\ WakeOne(ToReceive)
           /\ Return(t, pdPASS(NextItem))
           /\ UNCHANGED <<lockVars, after>>
  <2>1. NextItem \in Item \cup {Empty}
    BY SlotFacts DEF TypeOK, StorageTypeOK, NextItem
  <2>2. SchedTypeOK'
    BY <1>2, WakeOneTypes DEF TypeOK
  <2>3. TaskTypeOK'
    BY <1>2, <2>1, ReturnTypes, Replies DEF TypeOK
  <2> QED
    BY <1>2, <2>2, <2>3 DEF TypeOK, StorageTypeOK, LockTypeOK, lockVars, queueVars
<1> QED
  BY <1>1, <1>2 DEF xQueuePeek

LEMMA ResetTypes ==
    ASSUME TypeOK, NEW t \in Task, xQueueGenericReset(t)
    PROVE  TypeOK'
<1>1. StorageTypeOK' /\ LockTypeOK'
  BY QueueAssumption
  DEF xQueueGenericReset, TypeOK, StorageTypeOK, LockTypeOK, Slot, queueUNLOCKED
<1>2. SchedTypeOK'
  BY WakeOneTypes DEF xQueueGenericReset, TypeOK
<1>3. TaskTypeOK'
  BY ReturnTypes, Replies DEF xQueueGenericReset, TypeOK
<1> QED
  BY <1>1, <1>2, <1>3 DEF TypeOK

LEMMA LockingTypes ==
    ASSUME TypeOK, SuspensionExcludes, NEW t \in Task,
           \/ vTaskSuspendAll(t) \/ prvLockQueue(t) \/ xTaskCheckForTimeOut(t)
           \/ prvIsQueueFullOrEmpty(t) \/ vTaskPlaceOnEventList(t)
           \/ portYIELD_WITHIN_API(t) \/ DelaySuspends(t) \/ vTaskDelay(t)
    PROVE  TypeOK'
<1> USE DEF TypeOK, schedVars, queueVars, lockVars, Goto
<1>1. CASE vTaskSuspendAll(t) \/ DelaySuspends(t)
  <2>1. uxSchedulerSuspended = 0
    BY <1>1 DEF vTaskSuspendAll, DelaySuspends, Runs, SuspensionExcludes, Inside, SchedTypeOK
  <2> QED
    BY <1>1, <2>1 DEF vTaskSuspendAll, DelaySuspends, SuspendAll, SchedTypeOK, StorageTypeOK,
                      LockTypeOK, TaskTypeOK, PC
<1>2. CASE prvLockQueue(t)
  BY <1>2, QueueAssumption
  DEF prvLockQueue, SchedTypeOK, StorageTypeOK, LockTypeOK, TaskTypeOK, PC,
      queueUNLOCKED, queueLOCKED_UNMODIFIED
<1>3. CASE xTaskCheckForTimeOut(t)
  BY <1>3 DEF xTaskCheckForTimeOut, UnlockThen, SchedTypeOK, StorageTypeOK, LockTypeOK,
              TaskTypeOK, PC, After, TimeOut
<1>4. CASE prvIsQueueFullOrEmpty(t)
  BY <1>4 DEF prvIsQueueFullOrEmpty, UnlockThen, SchedTypeOK, StorageTypeOK, LockTypeOK,
              TaskTypeOK, PC, After
<1>5. CASE vTaskPlaceOnEventList(t)
  BY <1>5 DEF vTaskPlaceOnEventList, PlaceOnEventList, AddCurrentTaskToDelayedList, ListOf,
              UnlockThen, SchedTypeOK, StorageTypeOK, LockTypeOK, TaskTypeOK, PC, After,
              StateList, EventList
<1>6. CASE portYIELD_WITHIN_API(t)
  BY <1>6 DEF portYIELD_WITHIN_API, Yield, SchedTypeOK, StorageTypeOK, LockTypeOK,
              TaskTypeOK, PC, After
<1>7. CASE vTaskDelay(t)
  BY <1>7 DEF vTaskDelay, AddCurrentTaskToDelayedList, SchedTypeOK, StorageTypeOK, LockTypeOK,
              TaskTypeOK, PC, After, TimeOut, StateList
<1> QED
  BY <1>1, <1>2, <1>3, <1>4, <1>5, <1>6, <1>7

LEMMA UnlockTypes ==
    ASSUME TypeOK, NEW t \in Task, prvUnlockQueueTx(t) \/ prvUnlockQueueRx(t)
    PROVE  TypeOK'
<1> USE DEF TypeOK, queueVars, Goto
<1>1. CASE prvUnlockQueueTx(t)
  <2> PICK W \in Heads(ToReceive, Counted(cTxLock)) : RemoveFromEventList(W)
    BY <1>1 DEF prvUnlockQueueTx
  <2>1. SchedTypeOK'
    BY <1>1, WakeTypes DEF prvUnlockQueueTx, SchedTypeOK
  <2> QED
    BY <1>1, <2>1, QueueAssumption
    DEF prvUnlockQueueTx, StorageTypeOK, LockTypeOK, TaskTypeOK, PC, queueUNLOCKED
<1>2. CASE prvUnlockQueueRx(t)
  <2> PICK W \in Heads(ToSend, Counted(cRxLock)) : RemoveFromEventList(W)
    BY <1>2 DEF prvUnlockQueueRx
  <2>1. SchedTypeOK'
    BY <1>2, WakeTypes DEF prvUnlockQueueRx, SchedTypeOK
  <2> QED
    BY <1>2, <2>1, QueueAssumption
    DEF prvUnlockQueueRx, StorageTypeOK, LockTypeOK, TaskTypeOK, PC, queueUNLOCKED
<1> QED
  BY <1>1, <1>2

LEMMA ResumeTypes ==
    ASSUME TypeOK, NEW t \in Task, xTaskResumeAll(t)
    PROVE  TypeOK'
<1> PICK E \in SUBSET Timed :
        LET next == Continuation(t, AlreadyYielded(E)) IN
        /\ ResumeAll(E)
        /\ Goto(t, next)
        /\ after' = [after EXCEPT ![t] = IF next = "yield" THEN @ ELSE "none"]
        /\ IF next = "app"
             THEN /\ call' = [call EXCEPT ![t] = None]
                  /\ xTimeOut' = [Elapse(E) EXCEPT ![t] = "unset"]
                  /\ reply' = [reply EXCEPT ![t] = errQUEUE_FULL]
             ELSE /\ xTimeOut' = Elapse(E)
                  /\ UNCHANGED <<call, reply>>
  BY DEF xTaskResumeAll
<1>1. SchedTypeOK'
  <2>1. stateList' \in [Task -> StateList] /\ eventList' \in [Task -> EventList]
    BY DEF TypeOK, SchedTypeOK, ResumeAll, StatesAfterDrain, StateList, EventList, Ready, NULL
  <2>2. pendSV' \in BOOLEAN /\ xYieldPending' \in BOOLEAN /\ uxPendedTicks' \in BOOLEAN
    BY DEF TypeOK, SchedTypeOK, ResumeAll, AlreadyYielded, TickPreempts
  <2>3. uxSchedulerSuspended' \in {0, 1} /\ pxCurrentTCB' \in Task
    BY DEF TypeOK, SchedTypeOK, ResumeAll
  <2> QED
    BY <2>1, <2>2, <2>3 DEF SchedTypeOK
<1>2. Continuation(t, AlreadyYielded(E)) \in PC
  BY DEF Continuation, PC
<1>3. Elapse(E) \in [Task -> TimeOut]
  BY DEF TypeOK, TaskTypeOK, Elapse, TimeOut
<1>4. TaskTypeOK'
  BY <1>2, <1>3, Replies DEF TypeOK, TaskTypeOK, Goto, After, TimeOut
<1> QED
  BY <1>1, <1>4 DEF xTaskResumeAll, TypeOK, StorageTypeOK, LockTypeOK, queueVars, lockVars

LEMMA TaskOnlyTypes ==
    ASSUME TypeOK, NEW t \in Task, Begin(t) \/ RecheckEmpty(t) \/ DelayReturns(t)
    PROVE  TypeOK'
<1> USE DEF TypeOK, schedVars, queueVars, lockVars
<1>1. CASE Begin(t)
  <2> PICK c \in Call[t] :
         /\ call' = [call EXCEPT ![t] = c]
         /\ Goto(t, CASE c.op = "reset" -> "reset"
                      [] c.op = "delay" -> "sleep"
                      [] OTHER          -> "try")
    BY <1>1 DEF Begin
  <2>a. c \in Calls
    BY QueueAssumption
  <2>b. pc' \in [Task -> PC]
    BY DEF Goto, TaskTypeOK, PC
  <2>1. TaskTypeOK'
    BY <1>1, <2>a, <2>b, Replies DEF Begin, TaskTypeOK
  <2> QED
    BY <1>1, <2>1 DEF Begin, SchedTypeOK, StorageTypeOK, LockTypeOK
<1>2. CASE RecheckEmpty(t)
  <2>1. TaskTypeOK'
    <3>1. CASE HasItem
      BY <1>2, <3>1 DEF RecheckEmpty, TaskTypeOK, Goto, PC
    <3>2. CASE ~HasItem
      BY <1>2, <3>2, ReturnTypes, Replies DEF RecheckEmpty
    <3> QED
      BY <3>1, <3>2
  <2> QED
    BY <1>2, <2>1 DEF RecheckEmpty, SchedTypeOK, StorageTypeOK, LockTypeOK
<1>3. CASE DelayReturns(t)
  <2>1. TaskTypeOK'
    BY <1>3, ReturnTypes, Replies DEF DelayReturns
  <2> QED
    BY <1>3, <2>1 DEF DelayReturns, SchedTypeOK, StorageTypeOK, LockTypeOK
<1> QED
  BY <1>1, <1>2, <1>3

LEMMA WakeOrCountTypes ==
    ASSUME SchedTypeOK, NEW lock, NEW list, WakeOrCount(lock, list)
    PROVE  SchedTypeOK'
BY WakeOneTypes DEF WakeOrCount, schedVars, SchedTypeOK

LEMMA InterruptTypes ==
    ASSUME TypeOK, InterruptPut \/ InterruptGet
    PROVE  TypeOK'
<1>1. CASE InterruptPut
  <2> PICK x \in Item, p \in SendsISR : xQueueGenericSendFromISR(x, p)
    BY <1>1 DEF InterruptPut
  <2>1. p \in SendOps
    BY QueueAssumption DEF SendOps
  <2>2. StorageTypeOK'
    BY <2>1, CopyToTypes DEF xQueueGenericSendFromISR, TypeOK
  <2>3. SchedTypeOK'
    BY WakeOrCountTypes DEF xQueueGenericSendFromISR, TypeOK
  <2>4. LockTypeOK'
    BY QueueAssumption
    DEF xQueueGenericSendFromISR, WakeOrCount, TypeOK, LockTypeOK, queueUNLOCKED
  <2> QED
    BY <2>2, <2>3, <2>4 DEF xQueueGenericSendFromISR, TypeOK, TaskTypeOK, taskVars
<1>2. CASE InterruptGet
  <2>1. StorageTypeOK'
    BY <1>2, CopyFromTypes DEF InterruptGet, xQueueReceiveFromISR, TypeOK
  <2>2. SchedTypeOK'
    BY <1>2, WakeOrCountTypes DEF InterruptGet, xQueueReceiveFromISR, TypeOK
  <2>3. LockTypeOK'
    BY <1>2, QueueAssumption
    DEF InterruptGet, xQueueReceiveFromISR, WakeOrCount, TypeOK, LockTypeOK, queueUNLOCKED
  <2> QED
    BY <1>2, <2>1, <2>2, <2>3
    DEF InterruptGet, xQueueReceiveFromISR, TypeOK, TaskTypeOK, taskVars
<1> QED
  BY <1>1, <1>2

LEMMA SwitchTypes ==
    ASSUME TypeOK, xTaskIncrementTick \/ vTaskSwitchContext
    PROVE  TypeOK'
<1>1. CASE xTaskIncrementTick
  <2> PICK E \in SUBSET Timed : IncrementTick(E) /\ xTimeOut' = Elapse(E)
    BY <1>1 DEF xTaskIncrementTick
  <2>1. stateList' \in [Task -> StateList] /\ eventList' \in [Task -> EventList]
    BY DEF IncrementTick, TypeOK, SchedTypeOK, StateList, EventList, Ready, NULL
  <2>2. pendSV' \in BOOLEAN /\ uxPendedTicks' \in BOOLEAN
    BY DEF IncrementTick, TickPreempts, TypeOK, SchedTypeOK
  <2>3. xTimeOut' \in [Task -> TimeOut]
    BY DEF Elapse, TypeOK, TaskTypeOK, TimeOut
  <2>4. SchedTypeOK'
    BY <2>1, <2>2 DEF IncrementTick, TypeOK, SchedTypeOK
  <2> QED
    BY <1>1, <2>3, <2>4
    DEF xTaskIncrementTick, TypeOK, StorageTypeOK, LockTypeOK, TaskTypeOK, queueVars, lockVars
<1>2. CASE vTaskSwitchContext
  BY <1>2
  DEF vTaskSwitchContext, SwitchContext, HighestPriorityReady, TypeOK, SchedTypeOK,
      StorageTypeOK, LockTypeOK, TaskTypeOK, queueVars, lockVars, taskVars
<1> QED
  BY <1>1, <1>2

LEMMA TypeStep == TypeOK /\ SuspensionExcludes /\ [Next]_vars => TypeOK'
<1> SUFFICES ASSUME TypeOK, SuspensionExcludes, [Next]_vars PROVE TypeOK'
  OBVIOUS
<1>1. CASE UNCHANGED vars
  BY <1>1 DEF vars, schedVars, queueVars, lockVars, taskVars, TypeOK, SchedTypeOK,
              StorageTypeOK, LockTypeOK, TaskTypeOK
<1>2. ASSUME NEW t \in Task, Begin(t) \/ KernelStep(t)
      PROVE  TypeOK'
  BY <1>2, SendTypes, ReceiveTypes, PeekTypes, ResetTypes, LockingTypes, UnlockTypes,
     ResumeTypes, TaskOnlyTypes DEF KernelStep
<1> QED
  BY <1>1, <1>2, InterruptTypes, SwitchTypes DEF Next

-----------------------------------------------------------------------------
(* The scheduler suspension is mutual exclusion: only the code that a task *)
(* runs moves it in or out of Inside, takes or releases the lock, and no   *)
(* other task runs meanwhile because PendSV does not switch.               *)

(* A step that leaves alone what SuspensionExcludes speaks of but moves    *)
(* the running task between points outside the suspended section.          *)
LEMMA OutsideStep ==
    ASSUME TypeOK, SuspensionExcludes, NEW t \in Task, Runs(t),
           pc[t] \notin Inside, NEW p \in PC \ Inside, Goto(t, p),
           UNCHANGED <<pxCurrentTCB, uxSchedulerSuspended>>,
           \/ UNCHANGED lockVars
           \/ cTxLock' = queueUNLOCKED /\ cRxLock' = queueUNLOCKED
    PROVE  SuspensionExcludes'
<1>1. \A u \in Task : pc'[u] \in Inside => pc[u] \in Inside /\ u # t
  BY DEF TypeOK, TaskTypeOK, Goto
<1>2. uxSchedulerSuspended # 1
  BY DEF SuspensionExcludes, Runs
<1>3. cTxLock = queueUNLOCKED /\ cRxLock = queueUNLOCKED
  BY DEF SuspensionExcludes, Runs, LockHeld, Inside
<1> QED
  BY <1>1, <1>2, <1>3 DEF SuspensionExcludes, lockVars

LEMMA ExcludesCalls ==
    ASSUME TypeOK, SuspensionExcludes, NEW t \in Task,
           \/ xQueueGenericSend(t) \/ xQueueReceive(t) \/ xQueuePeek(t)
           \/ xQueueGenericReset(t) \/ Begin(t) \/ portYIELD_WITHIN_API(t)
           \/ RecheckEmpty(t) \/ DelayReturns(t)
    PROVE  SuspensionExcludes'
<1>1. Runs(t) /\ pc[t] \notin Inside
  BY DEF xQueueGenericSend, xQueueReceive, xQueuePeek, xQueueGenericReset, Begin,
         portYIELD_WITHIN_API, RecheckEmpty, DelayReturns, Inside
<1>2. UNCHANGED <<pxCurrentTCB, uxSchedulerSuspended>>
  BY DEF xQueueGenericSend, xQueueReceive, xQueuePeek, xQueueGenericReset, Begin,
         portYIELD_WITHIN_API, RecheckEmpty, DelayReturns, TryFails, WakeOne, schedVars
<1>3. \/ UNCHANGED lockVars
      \/ cTxLock' = queueUNLOCKED /\ cRxLock' = queueUNLOCKED
  BY DEF xQueueGenericSend, xQueueReceive, xQueuePeek, xQueueGenericReset, Begin,
         portYIELD_WITHIN_API, RecheckEmpty, DelayReturns
<1>4. \E p \in PC \ Inside : Goto(t, p)
  <2>1. CASE Begin(t)
    <3> DEFINE P(c) == CASE c.op = "reset" -> "reset"
                         [] c.op = "delay" -> "sleep"
                         [] OTHER          -> "try"
    <3>1. \A c \in Call[t] : P(c) \in PC \ Inside
      BY DEF PC, Inside
    <3> HIDE DEF P
    <3>2. PICK c \in Call[t] : Goto(t, P(c))
      BY <2>1 DEF Begin, P
    <3> QED
      BY <3>1, <3>2
  <2>2. CASE ~Begin(t)
    BY <2>2 DEF xQueueGenericSend, xQueueReceive, xQueuePeek, xQueueGenericReset,
                portYIELD_WITHIN_API, RecheckEmpty, DelayReturns, TryFails, Return, PC, Inside
  <2> QED
    BY <2>1, <2>2
<1> QED
  BY <1>1, <1>2, <1>3, <1>4, OutsideStep

(* A step inside the suspended section.                                    *)
LEMMA ExcludesInside ==
    ASSUME TypeOK, SuspensionExcludes, NEW t \in Task,
           \/ vTaskSuspendAll(t) \/ prvLockQueue(t) \/ xTaskCheckForTimeOut(t)
           \/ prvIsQueueFullOrEmpty(t) \/ vTaskPlaceOnEventList(t)
           \/ prvUnlockQueueTx(t) \/ prvUnlockQueueRx(t)
           \/ xTaskResumeAll(t) \/ DelaySuspends(t) \/ vTaskDelay(t)
    PROVE  SuspensionExcludes'
<1> USE DEF TypeOK, TaskTypeOK, SchedTypeOK, SuspensionExcludes, Runs, Goto, schedVars, lockVars
<1>1. CASE vTaskSuspendAll(t) \/ DelaySuspends(t)
  BY <1>1 DEF vTaskSuspendAll, DelaySuspends, SuspendAll, Inside, LockHeld
<1>2. CASE prvLockQueue(t)
  BY <1>2 DEF prvLockQueue, Inside, LockHeld
<1>3. CASE xTaskCheckForTimeOut(t)
  BY <1>3 DEF xTaskCheckForTimeOut, UnlockThen, Inside, LockHeld
<1>4. CASE prvIsQueueFullOrEmpty(t)
  BY <1>4 DEF prvIsQueueFullOrEmpty, UnlockThen, Inside, LockHeld
<1>5. CASE vTaskPlaceOnEventList(t)
  BY <1>5 DEF vTaskPlaceOnEventList, UnlockThen, Inside, LockHeld
<1>6. CASE prvUnlockQueueTx(t)
  BY <1>6 DEF prvUnlockQueueTx, Inside, LockHeld
<1>7. CASE prvUnlockQueueRx(t)
  BY <1>7 DEF prvUnlockQueueRx, Inside, LockHeld
<1>8. CASE vTaskDelay(t)
  BY <1>8 DEF vTaskDelay, Inside, LockHeld
<1>9. CASE xTaskResumeAll(t)
  <2> PICK E \in SUBSET Timed :
         ResumeAll(E) /\ Goto(t, Continuation(t, AlreadyYielded(E)))
    BY <1>9 DEF xTaskResumeAll
  <2>1. Continuation(t, AlreadyYielded(E)) \in {"yield", "try", "awake", "recheck", "app"}
    BY DEF Continuation
  <2>2. pxCurrentTCB' = t /\ uxSchedulerSuspended' = 0
    BY <1>9 DEF xTaskResumeAll, ResumeAll, Inside
  <2> QED
    BY <1>9, <2>1, <2>2 DEF xTaskResumeAll, Inside, LockHeld
<1> QED
  BY <1>1, <1>2, <1>3, <1>4, <1>5, <1>6, <1>7, <1>8, <1>9

LEMMA ExcludesStep == TypeOK /\ SuspensionExcludes /\ [Next]_vars => SuspensionExcludes'
<1> SUFFICES ASSUME TypeOK, SuspensionExcludes, [Next]_vars PROVE SuspensionExcludes'
  OBVIOUS
<1>1. CASE UNCHANGED vars
  BY <1>1 DEF vars, schedVars, lockVars, taskVars, SuspensionExcludes
<1>2. ASSUME NEW t \in Task, Begin(t) \/ KernelStep(t)
      PROVE  SuspensionExcludes'
  BY <1>2, ExcludesCalls, ExcludesInside DEF KernelStep
<1>3. CASE InterruptPut \/ InterruptGet
  BY <1>3
  DEF InterruptPut, InterruptGet, xQueueGenericSendFromISR, xQueueReceiveFromISR, WakeOrCount,
      WakeOne, schedVars, taskVars, SuspensionExcludes
<1>4. CASE xTaskIncrementTick
  BY <1>4 DEF xTaskIncrementTick, IncrementTick, lockVars, SuspensionExcludes
<1>5. CASE vTaskSwitchContext
  BY <1>5
  DEF vTaskSwitchContext, SwitchContext, Switchable, HighestPriorityReady, lockVars, taskVars,
      SuspensionExcludes, TypeOK, SchedTypeOK, TaskTypeOK, LockHeld, Inside
<1> QED
  BY <1>1, <1>2, <1>3, <1>4, <1>5 DEF Next

LEMMA InitExcludes == Init => SuspensionExcludes
BY DEF Init, SchedInit, SuspensionExcludes, Inside, LockHeld, queueUNLOCKED

(* Of every behaviour of the queue: the two are proved together, for the   *)
(* type of uxSchedulerSuspended and of pxCurrentTCB is the other's reason. *)
LEMMA Invariance == Spec => [](TypeOK /\ SuspensionExcludes)
<1>1. Init => TypeOK /\ SuspensionExcludes
  BY InitTypeOK, InitExcludes
<1>2. TypeOK /\ SuspensionExcludes /\ [Next]_vars => (TypeOK /\ SuspensionExcludes)'
  BY TypeStep, ExcludesStep
<1> QED
  BY <1>1, <1>2, PTL DEF Spec

(* Type correctness: the count never leaves 0 .. uxLength, the pointers    *)
(* never the storage area, and vTaskSuspendAll never nests.                *)
THEOREM TypeCorrect == Spec => []TypeOK
BY Invariance, PTL

(* The section between vTaskSuspendAll and xTaskResumeAll is the running   *)
(* task's alone, and only there is the queue locked.                       *)
THEOREM SuspensionExclusion == Spec => []SuspensionExcludes
BY Invariance, PTL

-----------------------------------------------------------------------------
(* The ring of slots.                                                      *)

(* A task is in a call only if the application makes it: what the          *)
(* assertion about overwriting is about.                                   *)
CallsMade == \A t \in Task : call[t] \in Call[t] \cup {None}

LEMMA CallsMadeStep == TypeOK /\ CallsMade /\ [Next]_vars => CallsMade'
<1> SUFFICES ASSUME TypeOK, CallsMade, [Next]_vars PROVE CallsMade'
  OBVIOUS
<1>1. CASE UNCHANGED call
  BY <1>1 DEF CallsMade
<1>2. ASSUME NEW t \in Task, Begin(t) PROVE CallsMade'
  BY <1>2 DEF Begin, CallsMade
<1>3. ASSUME NEW t \in Task, KernelStep(t) PROVE CallsMade'
  <2>1. UNCHANGED call \/ call' = [call EXCEPT ![t] = None]
    <3>1. CASE xTaskResumeAll(t)
      BY <3>1 DEF xTaskResumeAll
    <3>2. CASE ~xTaskResumeAll(t)
      BY <1>3, <3>2
      DEF KernelStep, xQueueGenericSend, xQueueReceive, xQueuePeek, xQueueGenericReset,
          vTaskSuspendAll, prvLockQueue, xTaskCheckForTimeOut, prvIsQueueFullOrEmpty,
          vTaskPlaceOnEventList, prvUnlockQueueTx, prvUnlockQueueRx, portYIELD_WITHIN_API,
          RecheckEmpty, DelaySuspends, vTaskDelay, DelayReturns, TryFails, Return
    <3> QED
      BY <3>1, <3>2
  <2> QED
    BY <2>1 DEF CallsMade, TypeOK, TaskTypeOK
<1>4. CASE UNCHANGED vars
  BY <1>1, <1>4 DEF vars, taskVars
<1>5. CASE InterruptPut \/ InterruptGet \/ xTaskIncrementTick \/ vTaskSwitchContext
  BY <1>1, <1>5 DEF InterruptPut, InterruptGet, xQueueGenericSendFromISR, xQueueReceiveFromISR,
                    xTaskIncrementTick, vTaskSwitchContext, taskVars
<1> QED
  BY <1>2, <1>3, <1>4, <1>5 DEF Next

LEMMA RingPut ==
    ASSUME StorageTypeOK, RingConsistent, NEW x, NEW position \in SendOps,
           HasRoom(position), CopyDataToQueue(x, position),
           position = "overwrite" => uxLength = 1
    PROVE  RingConsistent'
<1> USE QueueAssumption DEF StorageTypeOK, CopyDataToQueue, HasRoom, Slot
<1>1. CASE position = "sendBack"
  <2>1. /\ pcWriteTo' = IF pcWriteTo + 1 >= uxLength THEN 0 ELSE pcWriteTo + 1
        /\ uxMessagesWaiting' = uxMessagesWaiting + 1
        /\ pcReadFrom' = pcReadFrom
        /\ uxMessagesWaiting < uxLength
    BY <1>1 DEF SlotAfter
  <2> QED
    BY <2>1 DEF RingConsistent
<1>2. CASE position = "sendFront"
  <2>1. /\ pcReadFrom' = IF pcReadFrom - 1 < 0 THEN uxLength - 1 ELSE pcReadFrom - 1
        /\ uxMessagesWaiting' = uxMessagesWaiting + 1
        /\ pcWriteTo' = pcWriteTo
        /\ uxMessagesWaiting < uxLength
    BY <1>2 DEF SlotBefore
  <2> QED
    BY <2>1 DEF RingConsistent
<1>3. CASE position = "overwrite"
  <2>1. /\ uxLength = 1 /\ pcWriteTo = 0 /\ pcReadFrom = 0
        /\ pcWriteTo' = 0 /\ pcReadFrom' = 0
        /\ uxMessagesWaiting' = 1
    BY <1>3 DEF SlotBefore
  <2> QED
    BY <2>1 DEF RingConsistent
<1> QED
  BY <1>1, <1>2, <1>3 DEF SendOps

LEMMA RingGet ==
    ASSUME StorageTypeOK, RingConsistent, HasItem, CopyDataFromQueue
    PROVE  RingConsistent'
<1>1. /\ pcReadFrom' = IF pcReadFrom + 1 >= uxLength THEN 0 ELSE pcReadFrom + 1
      /\ uxMessagesWaiting' = uxMessagesWaiting - 1
      /\ pcWriteTo' = pcWriteTo
  BY DEF CopyDataFromQueue, SlotAfter
<1> QED
  BY <1>1, QueueAssumption DEF StorageTypeOK, RingConsistent, HasItem, Slot

(* The steps of tasks that do not touch the storage area.                  *)
LEMMA StorageUntouched ==
    ASSUME NEW t \in Task, KernelStep(t) \/ Begin(t),
           ~xQueueGenericSend(t), ~xQueueReceive(t), ~xQueueGenericReset(t)
    PROVE  UNCHANGED queueVars
BY DEF KernelStep, Begin, xQueuePeek, vTaskSuspendAll, prvLockQueue, xTaskCheckForTimeOut,
       prvIsQueueFullOrEmpty, vTaskPlaceOnEventList, prvUnlockQueueTx, prvUnlockQueueRx,
       xTaskResumeAll, portYIELD_WITHIN_API, RecheckEmpty, DelaySuspends, vTaskDelay,
       DelayReturns, TryFails

LEMMA RingStep == TypeOK /\ CallsMade /\ RingConsistent /\ [Next]_vars => RingConsistent'
<1> SUFFICES ASSUME TypeOK, CallsMade, RingConsistent, [Next]_vars PROVE RingConsistent'
  OBVIOUS
<1>1. CASE UNCHANGED queueVars
  BY <1>1 DEF queueVars, RingConsistent
<1>2. ASSUME NEW t \in Task, xQueueGenericSend(t) PROVE RingConsistent'
  <2>1. CASE TryFails(t, errQUEUE_FULL)
    BY <2>1, <1>1 DEF TryFails
  <2>2. CASE HasRoom(call[t].op) /\ CopyDataToQueue(call[t].item, call[t].op)
    <3>1. call[t].op \in SendOps
      BY <1>2 DEF xQueueGenericSend, Sending
    <3>2. call[t].op = "overwrite" => uxLength = 1
      BY QueueAssumption DEF CallsMade, None
    <3> QED
      BY <2>2, <3>1, <3>2, RingPut DEF TypeOK
  <2> QED
    BY <1>2, <2>1, <2>2 DEF xQueueGenericSend
<1>3. ASSUME NEW t \in Task, xQueueReceive(t) PROVE RingConsistent'
  BY <1>1, <1>3, RingGet DEF xQueueReceive, TryFails, TypeOK
<1>4. ASSUME NEW t \in Task, xQueueGenericReset(t) PROVE RingConsistent'
  BY <1>4, QueueAssumption DEF xQueueGenericReset, RingConsistent
<1>5. CASE InterruptPut
  <2> PICK x \in Item, p \in SendsISR : xQueueGenericSendFromISR(x, p)
    BY <1>5 DEF InterruptPut
  <2> QED
    BY QueueAssumption, RingPut DEF xQueueGenericSendFromISR, TypeOK, SendOps
<1>6. CASE InterruptGet
  BY <1>6, RingGet DEF InterruptGet, xQueueReceiveFromISR, TypeOK
<1>7. CASE UNCHANGED vars \/ xTaskIncrementTick \/ vTaskSwitchContext
  BY <1>1, <1>7 DEF vars, xTaskIncrementTick, vTaskSwitchContext
<1> QED
  BY <1>1, <1>2, <1>3, <1>4, <1>5, <1>6, <1>7, StorageUntouched DEF Next

(* The two pointers and the count of the queue never disagree: whatever    *)
(* the order of sends to either end, receives, resets and interrupts, and  *)
(* whatever the length, the write pointer is uxMessagesWaiting slots after *)
(* the slot that is read next.                                             *)
THEOREM RingConsistency == Spec => []RingConsistent
<1>1. Init => CallsMade /\ RingConsistent
  BY QueueAssumption DEF Init, CallsMade, RingConsistent
<1>2. TypeOK /\ CallsMade /\ RingConsistent /\ [Next]_vars
         => (CallsMade /\ RingConsistent)'
  BY CallsMadeStep, RingStep
<1> QED
  BY <1>1, <1>2, TypeCorrect, PTL DEF Spec

-----------------------------------------------------------------------------
(* What a task in the middle of a call is about, and what it knows of its  *)
(* time to wait.                                                           *)

QueueOps == SendOps \cup TakeOps

Known(t) ==
    /\ pc[t] = "app" <=> call[t] = None
    /\ pc[t] = "reset" => call[t].op = "reset"
    /\ pc[t] \in {"sleep", "delay", "awake"} => call[t].op = "delay"
    /\ pc[t] \in {"try", "suspend", "lock", "check", "test", "place", "unlockTx",
                  "unlockRx", "recheck"} => call[t].op \in QueueOps
    /\ pc[t] \in {"unlockTx", "unlockRx"} => after[t] \in {"block", "retry", "giveUp"}
    /\ pc[t] \in {"resume", "yield"} =>
          \/ call[t].op = "delay" /\ after[t] = "delayed"
          \/ call[t].op \in QueueOps /\ after[t] \in {"block", "retry", "giveUp"}
    /\ pc[t] = "yield" => after[t] \in {"block", "delayed"}
    /\ pc[t] \in {"suspend", "lock", "check"} => xTimeOut[t] \in {"running", "expired"}
    /\ pc[t] = "recheck" => Taking(t) /\ xTimeOut[t] = "passed"
    /\ pc[t] \in {"unlockTx", "unlockRx", "resume"} /\ after[t] = "giveUp" => xTimeOut[t] = "passed"
    /\ xTimeOut[t] \in {"expired", "passed"} => call[t].wait = "finite"
    /\ call[t].op = "overwrite" => pc[t] = "try"

CallKnown == \A t \in Task : Known(t)

(* A call that is not waited for never gets to the blocking part.          *)
LEMMA KnownElsewhere ==
    ASSUME CallKnown, NEW u \in Task,
           pc'[u] = pc[u], call'[u] = call[u], after'[u] = after[u],
           xTimeOut'[u] = xTimeOut[u] \/ (u \in Timed /\ xTimeOut'[u] = "expired")
    PROVE  Known(u)'
<1>1. Known(u)
  BY DEF CallKnown
<1>2. CASE xTimeOut'[u] = xTimeOut[u]
  BY <1>1, <1>2 DEF Known, Taking
<1>3. CASE u \in Timed /\ xTimeOut'[u] = "expired"
  <2>1. xTimeOut[u] = "running" /\ call[u].wait = "finite"
    BY <1>3 DEF Timed
  <2> QED
    BY <1>1, <1>3, <2>1 DEF Known, Taking
<1> QED
  BY <1>2, <1>3

LEMMA NoneIsNoCall ==
    None.op = "none" /\ None.wait = "none" /\ "none" \notin QueueOps
BY DEF None, QueueOps, SendOps, TakeOps

LEMMA KnownReturn ==
    ASSUME TypeOK, CallKnown, NEW t \in Task, NEW x, Return(t, x), UNCHANGED after
    PROVE  CallKnown'
<1>1. /\ pc'[t] = "app" /\ call'[t] = None /\ xTimeOut'[t] = "unset"
      /\ \A u \in Task \ {t} : pc'[u] = pc[u] /\ call'[u] = call[u] /\ xTimeOut'[u] = xTimeOut[u]
  BY DEF Return, Goto, TypeOK, TaskTypeOK
<1>2. Known(t)'
  BY <1>1, NoneIsNoCall DEF Known
<1>3. \A u \in Task \ {t} : Known(u)'
  BY <1>1, KnownElsewhere
<1> QED
  BY <1>2, <1>3 DEF CallKnown

LEMMA KnownTryFails ==
    ASSUME TypeOK, CallKnown, NEW t \in Task, NEW x, TryFails(t, x), UNCHANGED after,
           pc[t] = "try", call[t].op # "overwrite"
    PROVE  CallKnown'
<1>1. CASE Return(t, x)
  BY <1>1, KnownReturn
<1>2. CASE ~Return(t, x)
  <2>1. /\ pc'[t] = "suspend" /\ call'[t] = call[t]
        /\ xTimeOut[t] # "passed"
        /\ xTimeOut'[t] = IF xTimeOut[t] = "unset" THEN "running" ELSE xTimeOut[t]
        /\ \A u \in Task \ {t} : pc'[u] = pc[u] /\ call'[u] = call[u] /\ xTimeOut'[u] = xTimeOut[u]
    BY <1>2 DEF TryFails, Goto, TypeOK, TaskTypeOK
  <2>2. xTimeOut[t] \in TimeOut /\ Known(t)
    BY DEF TypeOK, TaskTypeOK, CallKnown
  <2>3. Known(t)'
    BY <2>1, <2>2 DEF Known, TimeOut, None, QueueOps, SendOps, TakeOps
  <2>4. \A u \in Task \ {t} : Known(u)'
    BY <2>1, KnownElsewhere
  <2> QED
    BY <2>3, <2>4 DEF CallKnown
<1> QED
  BY <1>1, <1>2

LEMMA KnownCalls ==
    ASSUME TypeOK, CallKnown, NEW t \in Task,
           \/ xQueueGenericSend(t) \/ xQueueReceive(t) \/ xQueuePeek(t)
           \/ xQueueGenericReset(t) \/ DelayReturns(t)
    PROVE  CallKnown'
<1>1. CASE xQueueGenericSend(t)
  <2>1. ~HasRoom(call[t].op) => call[t].op # "overwrite"
    BY DEF HasRoom
  <2> QED
    BY <1>1, <2>1, KnownReturn, KnownTryFails DEF xQueueGenericSend
<1>2. CASE xQueueReceive(t)
  BY <1>2, KnownReturn, KnownTryFails DEF xQueueReceive
<1>3. CASE xQueuePeek(t)
  BY <1>3, KnownReturn, KnownTryFails DEF xQueuePeek
<1>4. CASE xQueueGenericReset(t) \/ DelayReturns(t)
  BY <1>4, KnownReturn DEF xQueueGenericReset, DelayReturns
<1> QED
  BY <1>1, <1>2, <1>3, <1>4

LEMMA KnownBegin ==
    ASSUME TypeOK, CallKnown, NEW t \in Task, Begin(t)
    PROVE  CallKnown'
<1> PICK c \in Call[t] :
       /\ call' = [call EXCEPT ![t] = c]
       /\ Goto(t, CASE c.op = "reset" -> "reset"
                    [] c.op = "delay" -> "sleep"
                    [] OTHER          -> "try")
  BY DEF Begin
<1>1. /\ c \in Calls /\ c # None /\ c.op \in QueueOps \cup {"reset", "delay"}
      /\ "reset" \notin QueueOps /\ "delay" \notin QueueOps /\ "overwrite" \in QueueOps
  BY QueueAssumption DEF Calls, None, QueueOps, SendOps, TakeOps
<1>2. UNCHANGED <<xTimeOut, after>> /\ pc[t] = "app"
  BY DEF Begin
<1>3. xTimeOut[t] \in TimeOut /\ xTimeOut[t] \notin {"expired", "passed"}
  BY <1>2, NoneIsNoCall DEF TypeOK, TaskTypeOK, CallKnown, Known
<1>4. /\ call'[t] = c
      /\ pc'[t] = CASE c.op = "reset" -> "reset"
                     [] c.op = "delay" -> "sleep"
                     [] OTHER          -> "try"
      /\ \A u \in Task \ {t} : pc'[u] = pc[u] /\ call'[u] = call[u]
  BY DEF Goto, TypeOK, TaskTypeOK
<1>5. Known(t)'
  <2>1. CASE c.op = "reset"
    BY <1>1, <1>2, <1>3, <1>4, <2>1 DEF Known
  <2>2. CASE c.op = "delay"
    BY <1>1, <1>2, <1>3, <1>4, <2>2 DEF Known
  <2>3. CASE c.op \in QueueOps
    BY <1>1, <1>2, <1>3, <1>4, <2>3 DEF Known
  <2> QED
    BY <1>1, <2>1, <2>2, <2>3
<1>6. \A u \in Task \ {t} : Known(u)'
  BY <1>2, <1>4, KnownElsewhere
<1> QED
  BY <1>5, <1>6 DEF CallKnown

(* The blocking part, but for its end.                                     *)
LEMMA KnownBlocking ==
    ASSUME TypeOK, CallKnown, NEW t \in Task,
           \/ vTaskSuspendAll(t) \/ prvLockQueue(t) \/ xTaskCheckForTimeOut(t)
           \/ prvIsQueueFullOrEmpty(t) \/ vTaskPlaceOnEventList(t)
           \/ prvUnlockQueueTx(t) \/ prvUnlockQueueRx(t)
           \/ portYIELD_WITHIN_API(t) \/ DelaySuspends(t) \/ vTaskDelay(t)
    PROVE  CallKnown'
<1> USE DEF TypeOK, TaskTypeOK, Goto
<1>1. Known(t) /\ UNCHANGED call
  BY DEF CallKnown, vTaskSuspendAll, prvLockQueue, xTaskCheckForTimeOut,
         prvIsQueueFullOrEmpty, vTaskPlaceOnEventList, prvUnlockQueueTx, prvUnlockQueueRx,
         portYIELD_WITHIN_API, DelaySuspends, vTaskDelay
<1>2. \A u \in Task \ {t} :
         pc'[u] = pc[u] /\ after'[u] = after[u] /\ xTimeOut'[u] = xTimeOut[u]
  BY DEF vTaskSuspendAll, prvLockQueue, xTaskCheckForTimeOut, UnlockThen,
         prvIsQueueFullOrEmpty, vTaskPlaceOnEventList, prvUnlockQueueTx, prvUnlockQueueRx,
         portYIELD_WITHIN_API, DelaySuspends, vTaskDelay
<1>3. Known(t)'
  <2>1. CASE vTaskSuspendAll(t) \/ prvLockQueue(t) \/ DelaySuspends(t)
    BY <1>1, <2>1, NoneIsNoCall DEF vTaskSuspendAll, prvLockQueue, DelaySuspends, Known, Taking,
       QueueOps, SendOps, TakeOps
  <2>2. CASE xTaskCheckForTimeOut(t)
    <3>1. xTimeOut[t] = "expired" => call[t].wait = "finite"
      BY <1>1 DEF Known
    <3> QED
      BY <1>1, <2>2, <3>1 DEF xTaskCheckForTimeOut, UnlockThen, Known, Taking
  <2>3. CASE prvIsQueueFullOrEmpty(t) \/ vTaskPlaceOnEventList(t)
    BY <1>1, <2>3 DEF prvIsQueueFullOrEmpty, vTaskPlaceOnEventList, UnlockThen, Known, Taking
  <2>4. CASE prvUnlockQueueTx(t) \/ prvUnlockQueueRx(t)
    BY <1>1, <2>4 DEF prvUnlockQueueTx, prvUnlockQueueRx, Known, Taking
  <2>5. CASE portYIELD_WITHIN_API(t)
    BY <1>1, <2>5 DEF portYIELD_WITHIN_API, Known, Taking, QueueOps, SendOps, TakeOps
  <2>6. CASE vTaskDelay(t)
    BY <1>1, <2>6 DEF vTaskDelay, Known, Taking, QueueOps, SendOps, TakeOps
  <2> QED
    BY <2>1, <2>2, <2>3, <2>4, <2>5, <2>6
<1>4. \A u \in Task \ {t} : Known(u)'
  BY <1>1, <1>2, KnownElsewhere
<1> QED
  BY <1>3, <1>4 DEF CallKnown

(* Where a call goes on, and with which answer if it is over.              *)
LEMMA Resumes ==
    ASSUME TypeOK, CallKnown, NEW t \in Task, xTaskResumeAll(t)
    PROVE  \E next \in {"yield", "try", "awake", "recheck", "app"}, E \in SUBSET Timed :
              /\ pc[t] = "resume" /\ Known(t)
              /\ pc' = [pc EXCEPT ![t] = next]
              /\ after' = [after EXCEPT ![t] = IF next = "yield" THEN @ ELSE "none"]
              /\ next = "yield" => after[t] \in {"block", "delayed"}
              /\ next = "try" => after[t] \in {"block", "retry"}
              /\ next = "awake" => after[t] = "delayed"
              /\ next = "recheck" => after[t] = "giveUp" /\ Taking(t)
              /\ next = "app" => after[t] = "giveUp" /\ ~Taking(t)
              /\ IF next = "app"
                   THEN /\ call' = [call EXCEPT ![t] = None]
                        /\ xTimeOut' = [Elapse(E) EXCEPT ![t] = "unset"]
                        /\ reply' = [reply EXCEPT ![t] = errQUEUE_FULL]
                   ELSE /\ xTimeOut' = Elapse(E)
                        /\ UNCHANGED <<call, reply>>
<1> PICK E \in SUBSET Timed :
        LET next == Continuation(t, AlreadyYielded(E)) IN
        /\ ResumeAll(E)
        /\ Goto(t, next)
        /\ after' = [after EXCEPT ![t] = IF next = "yield" THEN @ ELSE "none"]
        /\ IF next = "app"
             THEN /\ call' = [call EXCEPT ![t] = None]
                  /\ xTimeOut' = [Elapse(E) EXCEPT ![t] = "unset"]
                  /\ reply' = [reply EXCEPT ![t] = errQUEUE_FULL]
             ELSE /\ xTimeOut' = Elapse(E)
                  /\ UNCHANGED <<call, reply>>
  BY DEF xTaskResumeAll
<1> DEFINE next == Continuation(t, AlreadyYielded(E))
<1>1. pc[t] = "resume" /\ Known(t)
  BY DEF xTaskResumeAll, CallKnown
<1>2. after[t] \in {"block", "retry", "giveUp", "delayed"}
  BY <1>1 DEF Known
<1>3. /\ next \in {"yield", "try", "awake", "recheck", "app"}
      /\ next = "yield" => after[t] \in {"block", "delayed"}
      /\ next = "try" => after[t] \in {"block", "retry"}
      /\ next = "awake" => after[t] = "delayed"
      /\ next = "recheck" => after[t] = "giveUp" /\ Taking(t)
      /\ next = "app" => after[t] = "giveUp" /\ ~Taking(t)
  BY <1>2 DEF Continuation
<1>4. pc' = [pc EXCEPT ![t] = next]
  BY DEF Goto
<1> HIDE DEF next
<1> QED
  BY <1>1, <1>3, <1>4 DEF next

LEMMA KnownResume ==
    ASSUME TypeOK, CallKnown, NEW t \in Task, xTaskResumeAll(t)
    PROVE  CallKnown'
<1> PICK next \in {"yield", "try", "awake", "recheck", "app"}, E \in SUBSET Timed :
              /\ pc[t] = "resume" /\ Known(t)
              /\ pc' = [pc EXCEPT ![t] = next]
              /\ after' = [after EXCEPT ![t] = IF next = "yield" THEN @ ELSE "none"]
              /\ next = "yield" => after[t] \in {"block", "delayed"}
              /\ next = "try" => after[t] \in {"block", "retry"}
              /\ next = "awake" => after[t] = "delayed"
              /\ next = "recheck" => after[t] = "giveUp" /\ Taking(t)
              /\ next = "app" => after[t] = "giveUp" /\ ~Taking(t)
              /\ IF next = "app"
                   THEN /\ call' = [call EXCEPT ![t] = None]
                        /\ xTimeOut' = [Elapse(E) EXCEPT ![t] = "unset"]
                        /\ reply' = [reply EXCEPT ![t] = errQUEUE_FULL]
                   ELSE /\ xTimeOut' = Elapse(E)
                        /\ UNCHANGED <<call, reply>>
  BY Resumes
<1> USE DEF TypeOK, TaskTypeOK
<1>1. \A u \in Task \ {t} : /\ pc'[u] = pc[u] /\ call'[u] = call[u] /\ after'[u] = after[u]
                            /\ xTimeOut'[u] = IF u \in E THEN "expired" ELSE xTimeOut[u]
  BY DEF Elapse
<1>2. \A u \in Task \ {t} : Known(u)'
  BY <1>1, KnownElsewhere
<1>3. Known(t)'
  <2>1. CASE next = "app"
    BY <2>1, NoneIsNoCall DEF Elapse, Known
  <2>2. CASE next # "app"
    <3>1. /\ pc'[t] = next /\ call'[t] = call[t]
          /\ after'[t] = (IF next = "yield" THEN after[t] ELSE "none")
          /\ xTimeOut'[t] = (IF t \in E THEN "expired" ELSE xTimeOut[t])
          /\ t \in E => xTimeOut[t] = "running" /\ call[t].wait = "finite"
      BY <2>2 DEF Elapse, Timed
    <3>2. call[t] # None
      BY DEF Known
    <3>3. call[t].op # "overwrite"
      BY DEF Known
    <3>4. next = "recheck" => xTimeOut[t] = "passed" /\ t \notin E
      BY <3>1 DEF Known
    <3>5. after[t] = "delayed" <=> call[t].op = "delay"
      BY DEF Known, QueueOps, SendOps, TakeOps
    <3> QED
      BY <2>2, <3>1, <3>2, <3>3, <3>4, <3>5 DEF Known, Taking
  <2> QED
    BY <2>1, <2>2
<1> QED
  BY <1>2, <1>3 DEF CallKnown

LEMMA KnownStep == TypeOK /\ CallKnown /\ [Next]_vars => CallKnown'
<1> SUFFICES ASSUME TypeOK, CallKnown, [Next]_vars PROVE CallKnown'
  OBVIOUS
<1>1. CASE UNCHANGED <<pc, call, after, xTimeOut>>
  BY <1>1, KnownElsewhere DEF CallKnown
<1>2. ASSUME NEW t \in Task, RecheckEmpty(t) PROVE CallKnown'
  <2>1. CASE Return(t, errQUEUE_EMPTY)
    BY <1>2, <2>1, KnownReturn DEF RecheckEmpty
  <2>2. CASE ~Return(t, errQUEUE_EMPTY)
    <3>1. /\ pc[t] = "recheck" /\ pc'[t] = "try" /\ UNCHANGED <<call, xTimeOut, after>>
          /\ \A u \in Task \ {t} : pc'[u] = pc[u]
      BY <1>2, <2>2 DEF RecheckEmpty, Goto, TypeOK, TaskTypeOK
    <3>2. Known(t)'
      BY <3>1 DEF CallKnown, Known, Taking
    <3>3. \A u \in Task \ {t} : Known(u)'
      BY <3>1, KnownElsewhere
    <3> QED
      BY <3>2, <3>3 DEF CallKnown
  <2> QED
    BY <2>1, <2>2
<1>3. ASSUME NEW t \in Task, Begin(t) \/ KernelStep(t) PROVE CallKnown'
  BY <1>2, <1>3, KnownBegin, KnownCalls, KnownBlocking, KnownResume DEF KernelStep
<1>4. CASE UNCHANGED vars \/ InterruptPut \/ InterruptGet \/ vTaskSwitchContext
  BY <1>1, <1>4 DEF vars, InterruptPut, InterruptGet, xQueueGenericSendFromISR,
     xQueueReceiveFromISR, vTaskSwitchContext, taskVars
<1>5. CASE xTaskIncrementTick
  <2>1. PICK E \in SUBSET Timed :
            xTimeOut' = Elapse(E) /\ UNCHANGED <<pc, call, after>>
    BY <1>5 DEF xTaskIncrementTick
  <2>2. ASSUME NEW u \in Task PROVE Known(u)'
    <3>1. /\ pc'[u] = pc[u] /\ call'[u] = call[u] /\ after'[u] = after[u]
          /\ xTimeOut'[u] = xTimeOut[u] \/ (u \in Timed /\ xTimeOut'[u] = "expired")
      BY <2>1 DEF Elapse
    <3> QED
      BY <3>1, KnownElsewhere
  <2> QED
    BY <2>2 DEF CallKnown
<1> QED
  BY <1>3, <1>4, <1>5 DEF Next

-----------------------------------------------------------------------------
(* The slots as a sequence of items.                                       *)

Stored == Item \cup {Empty}

(* The slot i after the one that was read last.                            *)
Place(from, i) == IF from + i >= uxLength THEN from + i - uxLength ELSE from + i

LEMMA PlaceIsSlot ==
    ASSUME NEW from \in Slot, NEW i \in 1 .. uxLength
    PROVE  Place(from, i) \in Slot
BY QueueAssumption DEF Place, Slot

LEMMA PlacesDiffer ==
    ASSUME NEW from \in Slot, NEW i \in 1 .. uxLength, NEW j \in 1 .. uxLength, i # j
    PROVE  Place(from, i) # Place(from, j)
BY QueueAssumption DEF Place, Slot

LEMMA SlotsAsSequence ==
    ASSUME NEW st \in [Slot -> Stored], NEW from \in Slot, NEW n \in 0 .. uxLength,
           NEW q, q = [i \in 1 .. n |-> st[IF from + i >= uxLength THEN from + i - uxLength
                                                               ELSE from + i]]
    PROVE  /\ q \in Seq(Stored) /\ Len(q) = n /\ n \in Nat
           /\ \A i \in 1 .. n : q[i] = st[Place(from, i)]
<1>1. n \in Nat /\ 1 .. n \subseteq 1 .. uxLength
  BY QueueAssumption
<1>2. \A i \in 1 .. n : q[i] = st[Place(from, i)] /\ q[i] \in Stored
  BY <1>1, PlaceIsSlot DEF Place
<1>3. q \in [1 .. n -> Stored]
  BY <1>2
<1>4. q \in Seq(Stored)
  BY <1>1, <1>3
<1>5. Len(q) = n
  BY <1>1, <1>3, <1>4
<1> QED
  BY <1>1, <1>2, <1>4, <1>5

LEMMA ContentsAre ==
    ASSUME StorageTypeOK
    PROVE  /\ Contents \in Seq(Stored) /\ Len(Contents) = uxMessagesWaiting
           /\ uxMessagesWaiting \in Nat
           /\ \A i \in 1 .. uxMessagesWaiting : Contents[i] = storage[Place(pcReadFrom, i)]
<1>1. /\ storage \in [Slot -> Stored] /\ pcReadFrom \in Slot
      /\ uxMessagesWaiting \in 0 .. uxLength
  BY DEF StorageTypeOK, Stored
<1>2. Contents = [i \in 1 .. uxMessagesWaiting |->
           storage[IF pcReadFrom + i >= uxLength THEN pcReadFrom + i - uxLength
                                                 ELSE pcReadFrom + i]]
  BY DEF Contents
<1> QED
  BY <1>1, <1>2, SlotsAsSequence

LEMMA ContentsAreAfter ==
    ASSUME StorageTypeOK'
    PROVE  /\ Contents' \in Seq(Stored) /\ Len(Contents') = uxMessagesWaiting'
           /\ uxMessagesWaiting' \in Nat
           /\ \A i \in 1 .. uxMessagesWaiting' : Contents'[i] = storage'[Place(pcReadFrom', i)]
<1>1. /\ storage' \in [Slot -> Stored] /\ pcReadFrom' \in Slot
      /\ uxMessagesWaiting' \in 0 .. uxLength
  BY DEF StorageTypeOK, Stored
<1>2. Contents' = [i \in 1 .. uxMessagesWaiting' |->
           storage'[IF pcReadFrom' + i >= uxLength THEN pcReadFrom' + i - uxLength
                                                   ELSE pcReadFrom' + i]]
  BY DEF Contents
<1> QED
  BY <1>1, <1>2, SlotsAsSequence

(* What each way to put an item does to the sequence.                      *)
LEMMA PutAppends ==
    ASSUME StorageTypeOK, RingConsistent, NEW x \in Item,
           HasRoom("sendBack"), CopyDataToQueue(x, "sendBack")
    PROVE  Contents' = Append(Contents, x) /\ Len(Contents) < uxLength
<1>1. /\ uxMessagesWaiting \in Nat /\ uxMessagesWaiting < uxLength /\ uxLength \in Nat
      /\ pcReadFrom \in Slot /\ pcWriteTo \in Slot /\ storage \in [Slot -> Stored]
      /\ storage' = [storage EXCEPT ![pcWriteTo] = x]
      /\ uxMessagesWaiting' = uxMessagesWaiting + 1 /\ pcReadFrom' = pcReadFrom
  BY QueueAssumption DEF StorageTypeOK, Stored, HasRoom, CopyDataToQueue
<1>2. StorageTypeOK'
  BY CopyToTypes DEF SendOps
<1>3. pcWriteTo = Place(pcReadFrom, uxMessagesWaiting + 1)
  BY <1>1 DEF RingConsistent, Place, Slot
<1>4. \A i \in 1 .. uxMessagesWaiting :
         Place(pcReadFrom, i) # pcWriteTo /\ Place(pcReadFrom, i) \in Slot
  BY <1>1, <1>3, PlacesDiffer, PlaceIsSlot
<1>5. /\ Append(Contents, x) \in Seq(Stored)
      /\ Len(Append(Contents, x)) = uxMessagesWaiting + 1
      /\ \A i \in 1 .. uxMessagesWaiting : Append(Contents, x)[i] = storage[Place(pcReadFrom, i)]
      /\ Append(Contents, x)[uxMessagesWaiting + 1] = x
  BY ContentsAre, AppendProperties DEF Stored
<1>6. /\ Contents' \in Seq(Stored) /\ Len(Contents') = uxMessagesWaiting + 1
      /\ \A i \in 1 .. uxMessagesWaiting + 1 : Contents'[i] = storage'[Place(pcReadFrom, i)]
  BY <1>1, <1>2, ContentsAreAfter
<1>7. ASSUME NEW i \in 1 .. uxMessagesWaiting + 1 PROVE Contents'[i] = Append(Contents, x)[i]
  <2>1. CASE i = uxMessagesWaiting + 1
    BY <1>1, <1>3, <1>5, <1>6, <2>1
  <2>2. CASE i # uxMessagesWaiting + 1
    <3>1. i \in 1 .. uxMessagesWaiting
      BY <1>1, <2>2
    <3> QED
      BY <1>1, <1>4, <1>5, <1>6, <3>1
  <2> QED
    BY <2>1, <2>2
<1> QED
  BY <1>1, <1>5, <1>6, <1>7, ContentsAre, SeqEqual

LEMMA PutPrepends ==
    ASSUME StorageTypeOK, NEW x \in Item,
           HasRoom("sendFront"), CopyDataToQueue(x, "sendFront")
    PROVE  Contents' = <<x>> \o Contents /\ Len(Contents) < uxLength
<1>1. /\ uxMessagesWaiting \in Nat /\ uxMessagesWaiting < uxLength /\ uxLength \in Nat
      /\ pcReadFrom \in Slot /\ storage \in [Slot -> Stored]
      /\ storage' = [storage EXCEPT ![pcReadFrom] = x]
      /\ uxMessagesWaiting' = uxMessagesWaiting + 1
      /\ pcReadFrom' = IF pcReadFrom - 1 < 0 THEN uxLength - 1 ELSE pcReadFrom - 1
  BY QueueAssumption DEF StorageTypeOK, Stored, HasRoom, CopyDataToQueue, SlotBefore
<1>2. StorageTypeOK'
  BY CopyToTypes DEF SendOps
<1>3. /\ Place(pcReadFrom', 1) = pcReadFrom
      /\ \A i \in 1 .. uxMessagesWaiting : Place(pcReadFrom', i + 1) = Place(pcReadFrom, i)
  BY <1>1 DEF Place, Slot
<1>4. ASSUME NEW i \in 1 .. uxMessagesWaiting
      PROVE  Place(pcReadFrom, i) # pcReadFrom /\ Place(pcReadFrom, i) \in Slot
  BY <1>1 DEF Place, Slot
<1>5. <<x>> \in Seq(Stored) /\ Len(<<x>>) = 1 /\ <<x>>[1] = x
  BY DEF Stored
<1>6. /\ <<x>> \o Contents \in Seq(Stored)
      /\ Len(<<x>> \o Contents) = uxMessagesWaiting + 1
      /\ \A i \in 1 .. uxMessagesWaiting + 1 :
             (<<x>> \o Contents)[i] = IF i <= 1 THEN x ELSE Contents[i - 1]
  <2>1. /\ <<x>> \o Contents \in Seq(Stored)
        /\ Len(<<x>> \o Contents) = 1 + uxMessagesWaiting
        /\ \A i \in 1 .. 1 + uxMessagesWaiting :
             (<<x>> \o Contents)[i] = IF i <= 1 THEN <<x>>[i] ELSE Contents[i - 1]
    BY <1>5, ContentsAre, ConcatProperties
  <2> QED
    BY <1>1, <1>5, <2>1
<1>7. /\ Contents' \in Seq(Stored) /\ Len(Contents') = uxMessagesWaiting + 1
      /\ \A i \in 1 .. uxMessagesWaiting + 1 : Contents'[i] = storage'[Place(pcReadFrom', i)]
  BY <1>1, <1>2, ContentsAreAfter
<1>8. ASSUME NEW i \in 1 .. uxMessagesWaiting + 1 PROVE Contents'[i] = (<<x>> \o Contents)[i]
  <2>1. CASE i = 1
    BY <1>1, <1>3, <1>6, <1>7, <2>1
  <2>2. CASE i # 1
    <3>1. PICK j \in 1 .. uxMessagesWaiting : i = j + 1
      <4>1. i - 1 \in 1 .. uxMessagesWaiting /\ i = (i - 1) + 1
        BY <1>1, <2>2
      <4> QED
        BY <4>1
    <3>2. (<<x>> \o Contents)[i] = Contents[j]
      BY <1>1, <1>6, <3>1
    <3>3. Contents[j] = storage[Place(pcReadFrom, j)]
      BY <3>1, ContentsAre
    <3>4. Contents'[i] = storage'[Place(pcReadFrom, j)]
      BY <1>3, <1>7, <3>1
    <3> QED
      BY <1>1, <1>4, <3>2, <3>3, <3>4
  <2> QED
    BY <2>1, <2>2
<1> QED
  BY <1>1, <1>6, <1>7, <1>8, ContentsAre, SeqEqual

LEMMA PutReplaces ==
    ASSUME StorageTypeOK, NEW x \in Item, uxLength = 1, CopyDataToQueue(x, "overwrite")
    PROVE  Contents' = <<x>>
<1>1. /\ pcReadFrom = 0 /\ pcReadFrom' = 0 /\ uxMessagesWaiting \in {0, 1}
      /\ uxMessagesWaiting' = 1 /\ storage' = [storage EXCEPT ![0] = x] /\ 0 \in Slot
      /\ storage \in [Slot -> Stored]
  BY DEF StorageTypeOK, CopyDataToQueue, Slot, SlotBefore, Stored
<1>2. StorageTypeOK'
  BY CopyToTypes DEF SendOps, HasRoom
<1>3. /\ Contents' \in Seq(Stored) /\ Len(Contents') = 1
      /\ \A i \in 1 .. 1 : Contents'[i] = storage'[Place(pcReadFrom', i)]
  BY <1>1, <1>2, ContentsAreAfter
<1>4. Place(pcReadFrom', 1) = 0 /\ 1 \in 1 .. 1
  BY <1>1 DEF Place
<1>5. <<x>> \in Seq(Stored) /\ Len(<<x>>) = 1 /\ <<x>>[1] = x
  BY DEF Stored
<1>6. Contents'[1] = x
  BY <1>1, <1>3, <1>4
<1>7. \A i \in 1 .. 1 : Contents'[i] = <<x>>[i]
  BY <1>5, <1>6
<1> QED
  BY <1>3, <1>5, <1>7, SeqEqual

(* The item that is copied out is the first.                               *)
LEMMA NextIsHead ==
    ASSUME StorageTypeOK, HasItem
    PROVE  Contents # <<>> /\ NextItem = Head(Contents)
<1>1. /\ uxMessagesWaiting \in Nat /\ 1 \in 1 .. uxMessagesWaiting
      /\ pcReadFrom \in Slot /\ uxLength \in Nat
  BY QueueAssumption DEF StorageTypeOK, HasItem
<1>2. SlotAfter(pcReadFrom) = Place(pcReadFrom, 1)
  BY <1>1 DEF SlotAfter, Place, Slot
<1>3. Contents[1] = NextItem /\ Contents \in Seq(Stored) /\ Len(Contents) # 0
  BY <1>1, <1>2, ContentsAre DEF NextItem
<1>4. Contents # <<>>
  BY <1>3
<1> QED
  BY <1>3, <1>4

LEMMA GetTakesHead ==
    ASSUME StorageTypeOK, HasItem, CopyDataFromQueue
    PROVE  Contents' = Tail(Contents)
<1>1. /\ uxMessagesWaiting \in Nat /\ uxMessagesWaiting > 0 /\ uxMessagesWaiting <= uxLength
      /\ uxLength \in Nat /\ pcReadFrom \in Slot /\ UNCHANGED storage
      /\ uxMessagesWaiting' = uxMessagesWaiting - 1
      /\ pcReadFrom' = IF pcReadFrom + 1 >= uxLength THEN 0 ELSE pcReadFrom + 1
  BY QueueAssumption DEF StorageTypeOK, HasItem, CopyDataFromQueue, SlotAfter
<1>2. StorageTypeOK'
  BY CopyFromTypes
<1>3. \A i \in 1 .. uxMessagesWaiting - 1 : Place(pcReadFrom', i) = Place(pcReadFrom, i + 1)
  BY <1>1 DEF Place, Slot
<1>4. /\ Tail(Contents) \in Seq(Stored) /\ Len(Tail(Contents)) = uxMessagesWaiting - 1
      /\ \A i \in 1 .. uxMessagesWaiting - 1 : Tail(Contents)[i] = Contents[i + 1]
  BY ContentsAre, NextIsHead, HeadTailProperties
<1>5. /\ Contents' \in Seq(Stored) /\ Len(Contents') = uxMessagesWaiting - 1
      /\ \A i \in 1 .. uxMessagesWaiting - 1 : Contents'[i] = storage[Place(pcReadFrom', i)]
  BY <1>1, <1>2, ContentsAreAfter
<1>6. ASSUME NEW i \in 1 .. uxMessagesWaiting - 1 PROVE Contents'[i] = Tail(Contents)[i]
  <2>1. i + 1 \in 1 .. uxMessagesWaiting
    BY <1>1
  <2>2. Contents[i + 1] = storage[Place(pcReadFrom, i + 1)]
    BY <2>1, ContentsAre
  <2> QED
    BY <1>3, <1>4, <1>5, <2>2
<1> QED
  BY <1>4, <1>5, <1>6, SeqEqual

LEMMA EmptyContents ==
    ASSUME StorageTypeOK
    PROVE  Contents = <<>> <=> uxMessagesWaiting = 0
<1>1. Contents \in Seq(Stored) /\ Len(Contents) = uxMessagesWaiting
  BY ContentsAre
<1> QED
  BY <1>1, EmptySeq

-----------------------------------------------------------------------------
(* A queue implements BoundedChannel: what each call does to the items and *)
(* what it returns is a step of the channel, and every other step leaves   *)
(* the items, the calls and the answers alone.                             *)

ChannelInv == TypeOK /\ CallsMade /\ RingConsistent /\ CallKnown

LEMMA ChannelDefinitions ==
    /\ Channel!None = None
    /\ Channel!Answer("none", Empty) = NoReply
    /\ \A x : Channel!Answer("pdPASS", x) = pdPASS(x)
    /\ Channel!Answer("errQUEUE_FULL", Empty) = errQUEUE_FULL
    /\ Channel!Answer("errQUEUE_EMPTY", Empty) = errQUEUE_EMPTY
BY DEF Channel!None, None, Channel!Answer, NoReply, pdPASS, errQUEUE_FULL, errQUEUE_EMPTY

LEMMA SendersItem ==
    ASSUME TypeOK, NEW t \in Task, Sending(t)
    PROVE  call[t].item \in Item /\ call[t].op \in SendOps
BY DEF TypeOK, TaskTypeOK, Sending, Calls, None, SendOps, TakeOps

LEMMA PutRefines ==
    ASSUME StorageTypeOK, RingConsistent, NEW x \in Item, NEW op \in SendOps,
           op = "overwrite" => uxLength = 1,
           HasRoom(op), CopyDataToQueue(x, op)
    PROVE  Channel!Put(x, op)
<1>1. CASE op = "sendBack"
  BY <1>1, PutAppends DEF Channel!Put
<1>2. CASE op = "sendFront"
  BY <1>2, PutPrepends DEF Channel!Put
<1>3. CASE op = "overwrite"
  BY <1>3, PutReplaces DEF Channel!Put
<1> QED
  BY <1>1, <1>2, <1>3 DEF SendOps

LEMMA FullContents ==
    ASSUME StorageTypeOK, ~HasRoom("sendBack")
    PROVE  Len(Contents) = uxLength
BY ContentsAre, QueueAssumption DEF HasRoom, StorageTypeOK

LEMMA ContentsAlone ==
    ASSUME UNCHANGED queueVars
    PROVE  UNCHANGED Contents
BY DEF Contents, queueVars

(* The head of the loop finds no room, or no item.                         *)
LEMMA FailedTryRefines ==
    ASSUME ChannelInv, NEW t \in Task, pc[t] = "try",
           \/ Sending(t) /\ ~HasRoom(call[t].op) /\ TryFails(t, errQUEUE_FULL)
           \/ Taking(t) /\ ~HasItem /\ TryFails(t, errQUEUE_EMPTY)
    PROVE  Channel!Refuse(t) \/ UNCHANGED <<Contents, call, reply>>
<1>1. UNCHANGED Contents
  BY ContentsAlone DEF TryFails
<1>2. CASE ~(call[t].wait = "none" \/ xTimeOut[t] = "passed")
  BY <1>1, <1>2 DEF TryFails
<1>3. CASE call[t].wait = "none" \/ xTimeOut[t] = "passed"
  <2>1. call[t].wait # "forever"
    BY <1>3 DEF ChannelInv, CallKnown, Known
  <2>2. CASE Sending(t) /\ ~HasRoom(call[t].op) /\ TryFails(t, errQUEUE_FULL)
    <3>1. call[t].op \in {"sendBack", "sendFront"} /\ Len(Contents) = uxLength
      BY <2>2, FullContents DEF HasRoom, Sending, SendOps, ChannelInv, TypeOK
    <3>2. Channel!Return(t, "errQUEUE_FULL", Empty)
      BY <1>3, <2>2, ChannelDefinitions DEF TryFails, Return, Channel!Return
    <3> QED
      BY <1>1, <2>1, <3>1, <3>2 DEF Channel!Refuse
  <2>3. CASE Taking(t) /\ ~HasItem /\ TryFails(t, errQUEUE_EMPTY)
    <3>1. call[t].op \in {"receive", "peek"} /\ Contents = <<>>
      BY <2>3, EmptyContents DEF HasItem, Taking, TakeOps, ChannelInv, TypeOK, StorageTypeOK
    <3>2. Channel!Return(t, "errQUEUE_EMPTY", Empty)
      BY <1>3, <2>3, ChannelDefinitions DEF TryFails, Return, Channel!Return
    <3> QED
      BY <1>1, <2>1, <3>1, <3>2 DEF Channel!Refuse
  <2> QED
    BY <2>2, <2>3
<1> QED
  BY <1>2, <1>3

LEMMA SendRefines ==
    ASSUME ChannelInv, NEW t \in Task, xQueueGenericSend(t)
    PROVE  Channel!Send(t) \/ Channel!Refuse(t) \/ UNCHANGED <<Contents, call, reply>>
<1>1. Sending(t) /\ pc[t] = "try"
  BY DEF xQueueGenericSend
<1>2. CASE ~HasRoom(call[t].op) /\ TryFails(t, errQUEUE_FULL)
  BY <1>1, <1>2, FailedTryRefines
<1>3. CASE /\ HasRoom(call[t].op)
           /\ CopyDataToQueue(call[t].item, call[t].op)
           /\ Return(t, pdPASS(Empty))
  <2>1. call[t].op = "overwrite" => uxLength = 1
    BY QueueAssumption DEF ChannelInv, CallsMade, None
  <2>2. Channel!Put(call[t].item, call[t].op)
    BY <1>1, <1>3, <2>1, SendersItem, PutRefines DEF ChannelInv, TypeOK
  <2>3. Channel!Return(t, "pdPASS", Empty)
    BY <1>3, ChannelDefinitions DEF Return, Channel!Return
  <2> QED
    BY <2>2, <2>3 DEF Channel!Send
<1> QED
  BY <1>2, <1>3 DEF xQueueGenericSend

LEMMA ReceiveRefines ==
    ASSUME ChannelInv, NEW t \in Task, xQueueReceive(t) \/ xQueuePeek(t)
    PROVE  \/ Channel!Receive(t) \/ Channel!Peek(t) \/ Channel!Refuse(t)
           \/ UNCHANGED <<Contents, call, reply>>
<1>1. Taking(t) /\ pc[t] = "try" /\ StorageTypeOK
  BY DEF xQueueReceive, xQueuePeek, Taking, TakeOps, ChannelInv, TypeOK
<1>2. CASE ~HasItem /\ TryFails(t, errQUEUE_EMPTY)
  BY <1>1, <1>2, FailedTryRefines
<1>3. CASE HasItem /\ Return(t, pdPASS(NextItem))
  <2>1. Contents # <<>> /\ Channel!Return(t, "pdPASS", Head(Contents))
    BY <1>1, <1>3, NextIsHead, ChannelDefinitions DEF Return, Channel!Return
  <2>2. CASE xQueueReceive(t) /\ CopyDataFromQueue
    BY <1>1, <1>3, <2>1, <2>2, GetTakesHead DEF Channel!Receive, Channel!Get, xQueueReceive
  <2>3. CASE xQueuePeek(t) /\ UNCHANGED queueVars
    BY <2>1, <2>3, ContentsAlone DEF Channel!Peek, xQueuePeek
  <2> QED
    BY <1>3, <2>2, <2>3 DEF xQueueReceive, xQueuePeek, TryFails
<1> QED
  BY <1>2, <1>3 DEF xQueueReceive, xQueuePeek

LEMMA ResetRefines ==
    ASSUME ChannelInv, NEW t \in Task, xQueueGenericReset(t)
    PROVE  Channel!Reset(t)
<1>1. Contents' = <<>>
  <2>1. uxMessagesWaiting' = 0 /\ UNCHANGED storage /\ pcReadFrom' = uxLength - 1
    BY DEF xQueueGenericReset
  <2> QED
    BY <2>1 DEF Contents
<1>2. call[t].op = "reset"
  BY DEF ChannelInv, CallKnown, Known, xQueueGenericReset
<1>3. Channel!Return(t, "pdPASS", Empty)
  BY ChannelDefinitions DEF xQueueGenericReset, Return, Channel!Return
<1> QED
  BY <1>1, <1>2, <1>3 DEF Channel!Reset

(* A call that runs out of time after the scheduler was resumed.           *)
LEMMA ResumeRefines ==
    ASSUME ChannelInv, NEW t \in Task, xTaskResumeAll(t) \/ RecheckEmpty(t)
    PROVE  Channel!Refuse(t) \/ UNCHANGED <<Contents, call, reply>>
<1>1. UNCHANGED Contents
  BY ContentsAlone DEF xTaskResumeAll, RecheckEmpty
<1>2. TypeOK /\ CallKnown
  BY DEF ChannelInv
<1>3. CASE xTaskResumeAll(t)
  <2>1. CASE UNCHANGED <<call, reply>>
    BY <1>1, <2>1
  <2>2. CASE ~UNCHANGED <<call, reply>>
    <3>1. /\ pc[t] = "resume" /\ Known(t) /\ after[t] = "giveUp" /\ ~Taking(t)
          /\ call' = [call EXCEPT ![t] = None]
          /\ reply' = [reply EXCEPT ![t] = errQUEUE_FULL]
      BY <1>2, <1>3, <2>2, Resumes
    <3>2. /\ call[t].op \in {"sendBack", "sendFront"}
          /\ call[t].wait = "finite"
      BY <3>1 DEF Known, QueueOps, SendOps, TakeOps, Taking
    <3>3. Channel!Return(t, "errQUEUE_FULL", Empty)
      BY <3>1, ChannelDefinitions DEF Channel!Return
    <3> QED
      BY <1>1, <3>2, <3>3 DEF Channel!Refuse
  <2> QED
    BY <2>1, <2>2
<1>4. CASE RecheckEmpty(t)
  <2>1. CASE HasItem
    BY <1>1, <1>4, <2>1 DEF RecheckEmpty
  <2>2. CASE ~HasItem
    <3>1. Taking(t) /\ call[t].wait = "finite"
      BY <1>2, <1>4 DEF RecheckEmpty, CallKnown, Known
    <3>2. Contents = <<>>
      BY <1>2, <2>2, EmptyContents DEF HasItem, TypeOK, StorageTypeOK
    <3>3. Channel!Return(t, "errQUEUE_EMPTY", Empty)
      BY <1>4, <2>2, ChannelDefinitions DEF RecheckEmpty, Return, Channel!Return
    <3> QED
      BY <1>1, <3>1, <3>2, <3>3 DEF Channel!Refuse, Taking, TakeOps
  <2> QED
    BY <2>1, <2>2
<1> QED
  BY <1>3, <1>4

LEMMA InterruptRefines ==
    ASSUME ChannelInv, InterruptPut \/ InterruptGet
    PROVE  Channel!Interrupt
<1>1. StorageTypeOK /\ RingConsistent
  BY DEF ChannelInv, TypeOK
<1>2. CASE InterruptPut
  <2> PICK x \in Item, p \in SendsISR : xQueueGenericSendFromISR(x, p)
    BY <1>2 DEF InterruptPut
  <2>1. p \in SendOps /\ (p = "overwrite" => uxLength = 1)
    BY QueueAssumption DEF SendOps
  <2>2. Channel!Put(x, p) /\ UNCHANGED <<call, reply>>
    BY <1>1, <2>1, PutRefines DEF xQueueGenericSendFromISR, taskVars
  <2> QED
    BY <2>2 DEF Channel!Interrupt
<1>3. CASE InterruptGet
  BY <1>1, <1>3, NextIsHead, GetTakesHead
  DEF InterruptGet, xQueueReceiveFromISR, taskVars, Channel!Interrupt, Channel!Get
<1> QED
  BY <1>2, <1>3

LEMMA ChannelStep ==
    ChannelInv /\ [Next]_vars => [Channel!Next]_<<Contents, call, reply>>
<1> SUFFICES ASSUME ChannelInv, [Next]_vars
             PROVE  Channel!Next \/ UNCHANGED <<Contents, call, reply>>
  OBVIOUS
<1>1. ASSUME NEW t \in Task, Begin(t) PROVE Channel!Next
  <2>1. call[t] = None
    BY <1>1 DEF Begin, ChannelInv, CallKnown, Known
  <2>2. UNCHANGED Contents
    BY <1>1, ContentsAlone DEF Begin
  <2>3. Channel!Begin(t)
    BY <1>1, <2>1, <2>2, ChannelDefinitions DEF Begin, Channel!Begin
  <2> QED
    BY <2>3 DEF Channel!Next
<1>2. ASSUME NEW t \in Task, KernelStep(t)
      PROVE  Channel!Next \/ UNCHANGED <<Contents, call, reply>>
  <2>1. CASE xQueueGenericSend(t) \/ xQueueReceive(t) \/ xQueuePeek(t)
    BY <2>1, SendRefines, ReceiveRefines DEF Channel!Next
  <2>2. CASE xQueueGenericReset(t) \/ xTaskResumeAll(t) \/ RecheckEmpty(t)
    BY <2>2, ResetRefines, ResumeRefines DEF Channel!Next
  <2>3. CASE DelayReturns(t)
    <3>1. call[t].op = "delay" /\ UNCHANGED Contents
      BY <2>3, ContentsAlone DEF DelayReturns, ChannelInv, CallKnown, Known
    <3>2. Channel!Delay(t)
      BY <2>3, <3>1, ChannelDefinitions DEF DelayReturns, Return, Channel!Delay, Channel!Return
    <3> QED
      BY <3>2 DEF Channel!Next
  <2>4. CASE UNCHANGED <<queueVars, call, reply>>
    BY <2>4, ContentsAlone
  <2>5. CASE \/ vTaskSuspendAll(t) \/ prvLockQueue(t) \/ xTaskCheckForTimeOut(t)
             \/ prvIsQueueFullOrEmpty(t) \/ vTaskPlaceOnEventList(t)
             \/ prvUnlockQueueTx(t) \/ prvUnlockQueueRx(t)
             \/ portYIELD_WITHIN_API(t) \/ DelaySuspends(t) \/ vTaskDelay(t)
    BY <2>4, <2>5
    DEF vTaskSuspendAll, prvLockQueue, xTaskCheckForTimeOut, prvIsQueueFullOrEmpty,
        vTaskPlaceOnEventList, prvUnlockQueueTx, prvUnlockQueueRx, portYIELD_WITHIN_API,
        DelaySuspends, vTaskDelay
  <2> QED
    BY <1>2, <2>1, <2>2, <2>3, <2>5 DEF KernelStep
<1>3. CASE InterruptPut \/ InterruptGet
  BY <1>3, InterruptRefines DEF Channel!Next
<1>4. CASE UNCHANGED vars \/ xTaskIncrementTick \/ vTaskSwitchContext
  BY <1>4, ContentsAlone DEF vars, taskVars, xTaskIncrementTick, vTaskSwitchContext
<1> QED
  BY <1>1, <1>2, <1>3, <1>4 DEF Next

LEMMA ChannelInvariance == Spec => []ChannelInv
<1>1. Init => CallsMade /\ RingConsistent /\ CallKnown
  <2>1. Init => CallsMade /\ RingConsistent
    BY QueueAssumption DEF Init, CallsMade, RingConsistent
  <2>2. Init => CallKnown
    BY NoneIsNoCall DEF Init, CallKnown, Known
  <2> QED
    BY <2>1, <2>2
<1>2. TypeOK /\ CallsMade /\ RingConsistent /\ CallKnown /\ [Next]_vars
         => (CallsMade /\ RingConsistent /\ CallKnown)'
  BY CallsMadeStep, RingStep, KnownStep
<1>3. TypeOK /\ (CallsMade /\ RingConsistent /\ CallKnown) <=> ChannelInv
  BY DEF ChannelInv
<1> QED
  BY <1>1, <1>2, <1>3, TypeCorrect, PTL DEF Spec

(* queue.c implements the channel of its header: whatever tasks, priorities*)
(* and interrupts do, each call takes effect once, at one instant, items   *)
(* leave in the promised order, and a call is refused only for a reason.   *)
THEOREM QueueImplementsChannel == Spec => ChannelSpec
<1>1. Init => Channel!Init
  <2>1. Init => Contents = <<>>
    BY DEF Init, Contents
  <2> QED
    BY <2>1, ChannelDefinitions DEF Init, Channel!Init
<1> QED
  BY <1>1, ChannelInvariance, ChannelStep, PTL DEF Spec, ChannelSpec, Channel!Spec, Channel!vars

=============================================================================
