------------------------------- MODULE Queue -------------------------------
(***************************************************************************)
(* One FreeRTOS queue (freertos_kernel/queue.c) used by tasks and by       *)
(* interrupt handlers over the scheduler of module Scheduler.              *)
(*                                                                         *)
(* A step of a task is a stretch of code that no interrupt handler can     *)
(* divide as far as the queue and the scheduler are concerned: a critical  *)
(* section, or a statement outside one.  Interrupt handlers, the tick and  *)
(* PendSV come between any two steps, so pc names every place where the    *)
(* code of a blocking call can be interrupted:                             *)
(*                                                                         *)
(*   try -> suspend -> lock -> check -> test -> place -> unlockTx          *)
(*       -> unlockRx -> resume -> (yield | recheck | return) -> try ...    *)
(***************************************************************************)
EXTENDS Scheduler

CONSTANTS Item,        \* what a queue can hold
          Empty,       \* a slot or a buffer that was never written
          uxLength,    \* the number of slots
          Call,        \* the calls each task makes
          SendsISR,    \* what interrupt handlers do to the queue:
          TakesISR,    \*    xQueueGenericSendFromISR, xQueueReceiveFromISR
          MaxLock      \* bound: interrupts that find the queue locked,
                       \*    per locking (INT8_MAX in the code)

SendOps == {"sendBack", "sendFront", "overwrite"}
TakeOps == {"receive", "peek"}
Waits == {"none", "finite", "forever"}   \* xTicksToWait: 0, n, portMAX_DELAY

Calls == [op : SendOps, item : Item, wait : Waits]
            \cup [op : TakeOps, item : {Empty}, wait : Waits]
            \cup [op : {"reset"}, item : {Empty}, wait : {"none"}]
            \cup [op : {"delay"}, item : {Empty}, wait : {"finite"}]

ASSUME QueueAssumption ==
    /\ Empty \notin Item
    /\ uxLength \in Nat \ {0}
    /\ MaxLock \in Nat \ {0}
    /\ Call \in [Task -> SUBSET Calls]
    /\ Call[Idle] = {}
    /\ SendsISR \subseteq {"sendBack", "sendFront", "overwrite"}
    /\ TakesISR \in BOOLEAN
    \* configASSERT of xQueueGenericSend: only a queue of one is overwritten
    /\ ("overwrite" \in SendsISR \/ \E t \in Task : \E c \in Call[t] : c.op = "overwrite")
           => uxLength = 1

VARIABLES
    storage,            \* the slots from pcHead to pcTail
    pcWriteTo,          \* slot numbers
    pcReadFrom,
    uxMessagesWaiting,
    cRxLock, cTxLock,
    pc,                 \* where each task is
    call,               \* the call each task is in
    xTimeOut,           \* xEntryTimeSet, xTimeOut and xTicksToWait: unset;
                        \*   running; expired, which the task does not know;
                        \*   passed, when it does and xTicksToWait is 0
    after,              \* what follows prvUnlockQueue and xTaskResumeAll
    reply               \* what the last call returned, with the item copied

queueVars == <<storage, pcWriteTo, pcReadFrom, uxMessagesWaiting>>
lockVars == <<cRxLock, cTxLock>>
taskVars == <<pc, call, xTimeOut, after, reply>>
vars == <<schedVars, queueVars, lockVars, taskVars>>

queueUNLOCKED == -1
queueLOCKED_UNMODIFIED == 0
ToSend == "xTasksWaitingToSend"
ToReceive == "xTasksWaitingToReceive"

Slot == 0 .. uxLength - 1
None == [op |-> "none", item |-> Empty, wait |-> "none"]
NoReply == [result |-> "none", item |-> Empty]
pdPASS(x) == [result |-> "pdPASS", item |-> x]
errQUEUE_FULL == [result |-> "errQUEUE_FULL", item |-> Empty]
errQUEUE_EMPTY == [result |-> "errQUEUE_EMPTY", item |-> Empty]

Sending(t) == call[t].op \in SendOps
Taking(t) == call[t].op \in TakeOps

(* A task waits on one list: the one its call is about.                    *)
ListOf(t) == IF Sending(t) THEN ToSend ELSE ToReceive

Init ==
    /\ SchedInit
    /\ storage = [s \in Slot |-> Empty]
    /\ pcWriteTo = 0
    /\ pcReadFrom = uxLength - 1
    /\ uxMessagesWaiting = 0
    /\ cRxLock = queueUNLOCKED
    /\ cTxLock = queueUNLOCKED
    /\ pc = [t \in Task |-> "app"]
    /\ call = [t \in Task |-> None]
    /\ xTimeOut = [t \in Task |-> "unset"]
    /\ after = [t \in Task |-> "none"]
    /\ reply = [t \in Task |-> NoReply]

(***************************************************************************)
(* The storage area.                                                       *)
(***************************************************************************)

SlotAfter(s) == IF s + 1 >= uxLength THEN 0 ELSE s + 1
(* Bug: a front send that wraps to the wrong end.                          *)
SlotBeforeNoWrap(s) == IF s - 1 < 0 THEN 0 ELSE s - 1

SlotBefore(s) == IF s - 1 < 0 THEN uxLength - 1 ELSE s - 1

CopyDataToQueue(x, position) ==
    IF position = "sendBack"
      THEN /\ storage' = [storage EXCEPT ![pcWriteTo] = x]
           /\ pcWriteTo' = SlotAfter(pcWriteTo)
           /\ uxMessagesWaiting' = uxMessagesWaiting + 1
           /\ UNCHANGED pcReadFrom
      ELSE /\ storage' = [storage EXCEPT ![pcReadFrom] = x]
           /\ pcReadFrom' = SlotBefore(pcReadFrom)
           /\ uxMessagesWaiting' =
                  IF position = "overwrite" /\ uxMessagesWaiting > 0
                    THEN uxMessagesWaiting ELSE uxMessagesWaiting + 1
           /\ UNCHANGED pcWriteTo

(* Bug: the item is copied before the pointer is advanced.                 *)
NextItemTooEarly == storage[pcReadFrom]

(* prvCopyDataFromQueue advances pcReadFrom, then copies the item there.   *)
NextItem == storage[SlotAfter(pcReadFrom)]

CopyDataFromQueue ==
    /\ pcReadFrom' = SlotAfter(pcReadFrom)
    /\ uxMessagesWaiting' = uxMessagesWaiting - 1
    /\ UNCHANGED <<storage, pcWriteTo>>

(* Bug: room for one item more than there is.                              *)
HasRoomOffByOne(op) == uxMessagesWaiting <= uxLength \/ op = "overwrite"

(* Bug: a full mailbox refuses to be overwritten.                          *)
HasRoomNoOverwrite(op) == uxMessagesWaiting < uxLength

HasRoom(op) == uxMessagesWaiting < uxLength \/ op = "overwrite"
HasItem == uxMessagesWaiting > 0

(***************************************************************************)
(* The task level calls.                                                   *)
(***************************************************************************)

Goto(t, where) == pc' = [pc EXCEPT ![t] = where]

Return(t, r) ==
    /\ Goto(t, "app")
    /\ call' = [call EXCEPT ![t] = None]
    /\ xTimeOut' = [xTimeOut EXCEPT ![t] = "unset"]
    /\ reply' = [reply EXCEPT ![t] = r]

(* The application makes one of the task's calls.                          *)
Begin(t) ==
    /\ Runs(t) /\ pc[t] = "app"
    /\ \E c \in Call[t] :
          /\ call' = [call EXCEPT ![t] = c]
          /\ Goto(t, CASE c.op = "reset" -> "reset"
                       [] c.op = "delay" -> "sleep"
                       [] OTHER          -> "try")
    /\ reply' = [reply EXCEPT ![t] = NoReply]
    /\ UNCHANGED <<schedVars, queueVars, lockVars, xTimeOut, after>>

(* Bug: the start of the wait is taken anew on every turn of the loop.     *)
TryRestartsWait(t, r) ==
    /\ IF call[t].wait = "none"
         THEN Return(t, r)
         ELSE /\ xTimeOut' = [xTimeOut EXCEPT ![t] = "running"]
              /\ Goto(t, "suspend")
              /\ UNCHANGED <<call, reply>>
    /\ UNCHANGED <<schedVars, queueVars>>

(* The critical section at the head of the loop finds no room, or no item. *)
TryFails(t, r) ==
    /\ IF call[t].wait = "none" \/ xTimeOut[t] = "passed"
         THEN Return(t, r)
         ELSE /\ xTimeOut' = [xTimeOut EXCEPT ![t] =
                                 IF @ = "unset" THEN "running" ELSE @]
              /\ Goto(t, "suspend")
              /\ UNCHANGED <<call, reply>>
    /\ UNCHANGED <<schedVars, queueVars>>

(* A task made ready by the critical section that also completes the call. *)
WakeOne(list) ==
    /\ \E W \in Heads(list, 1) : RemoveFromEventListAndYield(W)
    /\ UNCHANGED <<pxCurrentTCB, uxSchedulerSuspended, uxPendedTicks>>

xQueueGenericSend(t) ==
    /\ Runs(t) /\ pc[t] = "try" /\ Sending(t)
    /\ \/ /\ HasRoom(call[t].op)
          /\ CopyDataToQueue(call[t].item, call[t].op)
          /\ WakeOne(ToReceive)
          /\ Return(t, pdPASS(Empty))
       \/ /\ ~HasRoom(call[t].op)
          /\ TryFails(t, errQUEUE_FULL)
    /\ UNCHANGED <<lockVars, after>>

xQueueReceive(t) ==
    /\ Runs(t) /\ pc[t] = "try" /\ call[t].op = "receive"
    /\ \/ /\ HasItem
          /\ CopyDataFromQueue
          /\ WakeOne(ToSend)
          /\ Return(t, pdPASS(NextItem))
       \/ /\ ~HasItem
          /\ TryFails(t, errQUEUE_EMPTY)
    /\ UNCHANGED <<lockVars, after>>

(* Bug: a peeker that was woken keeps the wake-up to itself.               *)
PeekWakesNobody(t) ==
    /\ Runs(t) /\ pc[t] = "try" /\ call[t].op = "peek"
    /\ \/ /\ HasItem
          /\ UNCHANGED <<queueVars, schedVars>>
          /\ Return(t, pdPASS(NextItem))
       \/ /\ ~HasItem
          /\ TryFails(t, errQUEUE_EMPTY)
    /\ UNCHANGED <<lockVars, after>>

(* The item stays, so another task that waits for it is woken.             *)
xQueuePeek(t) ==
    /\ Runs(t) /\ pc[t] = "try" /\ call[t].op = "peek"
    /\ \/ /\ HasItem
          /\ UNCHANGED queueVars
          /\ WakeOne(ToReceive)
          /\ Return(t, pdPASS(NextItem))
       \/ /\ ~HasItem
          /\ TryFails(t, errQUEUE_EMPTY)
    /\ UNCHANGED <<lockVars, after>>

xQueueGenericReset(t) ==
    /\ Runs(t) /\ pc[t] = "reset"
    /\ uxMessagesWaiting' = 0
    /\ pcWriteTo' = 0
    /\ pcReadFrom' = uxLength - 1
    /\ cRxLock' = queueUNLOCKED
    /\ cTxLock' = queueUNLOCKED
    /\ WakeOne(ToSend)
    /\ Return(t, pdPASS(Empty))
    /\ UNCHANGED <<storage, after>>

(* The blocking part, the same code in the three calls.                    *)

vTaskSuspendAll(t) ==
    /\ Runs(t) /\ pc[t] = "suspend"
    /\ SuspendAll
    /\ Goto(t, "lock")
    /\ UNCHANGED <<pxCurrentTCB, uxPendedTicks, xYieldPending, pendSV, stateList,
                   eventList, queueVars, lockVars, call, xTimeOut, after, reply>>

prvLockQueue(t) ==
    /\ Runs(t) /\ pc[t] = "lock"
    /\ cRxLock' = IF cRxLock = queueUNLOCKED THEN queueLOCKED_UNMODIFIED ELSE cRxLock
    /\ cTxLock' = IF cTxLock = queueUNLOCKED THEN queueLOCKED_UNMODIFIED ELSE cTxLock
    /\ Goto(t, "check")
    /\ UNCHANGED <<schedVars, queueVars, call, xTimeOut, after, reply>>

(* Leave for prvUnlockQueue, and go on with next once the scheduler runs.  *)
UnlockThen(t, next) ==
    /\ Goto(t, "unlockTx")
    /\ after' = [after EXCEPT ![t] = next]

xTaskCheckForTimeOut(t) ==
    /\ Runs(t) /\ pc[t] = "check"
    /\ IF xTimeOut[t] = "running"
         THEN Goto(t, "test") /\ UNCHANGED <<after, xTimeOut>>
         ELSE UnlockThen(t, "giveUp") /\ xTimeOut' = [xTimeOut EXCEPT ![t] = "passed"]
    /\ UNCHANGED <<schedVars, queueVars, lockVars, call, reply>>

(* prvIsQueueFull or prvIsQueueEmpty *)
MustBlock(t) == IF Sending(t) THEN uxMessagesWaiting = uxLength
                              ELSE uxMessagesWaiting = 0

prvIsQueueFullOrEmpty(t) ==
    /\ Runs(t) /\ pc[t] = "test"
    /\ IF MustBlock(t)
         THEN Goto(t, "place") /\ UNCHANGED after
         ELSE UnlockThen(t, "retry")
    /\ UNCHANGED <<schedVars, queueVars, lockVars, call, xTimeOut, reply>>

vTaskPlaceOnEventList(t) ==
    /\ Runs(t) /\ pc[t] = "place"
    /\ PlaceOnEventList(ListOf(t), call[t].wait = "forever")
    /\ UnlockThen(t, "block")
    /\ UNCHANGED <<pxCurrentTCB, uxSchedulerSuspended, uxPendedTicks, xYieldPending,
                   pendSV, queueVars, lockVars, call, xTimeOut, reply>>

(* What interrupts did to the queue while it was locked.                   *)
Counted(lock) == IF lock = queueUNLOCKED THEN 0 ELSE lock

(* The two critical sections of prvUnlockQueue.  A wake-up only sets       *)
(* xYieldPending (vTaskMissedYield): the scheduler is suspended.           *)
prvUnlockQueueTx(t) ==
    /\ Runs(t) /\ pc[t] = "unlockTx"
    /\ \E W \in Heads(ToReceive, Counted(cTxLock)) : RemoveFromEventList(W)
    /\ cTxLock' = queueUNLOCKED
    /\ Goto(t, "unlockRx")
    /\ UNCHANGED <<pxCurrentTCB, uxSchedulerSuspended, uxPendedTicks, pendSV,
                   queueVars, cRxLock, call, xTimeOut, after, reply>>

(* Bug: an "if" for the "while": one sender is woken however many slots    *)
(* were freed.                                                             *)
UnlockRxWakesOne(t) ==
    /\ Runs(t) /\ pc[t] = "unlockRx"
    /\ \E W \in Heads(ToSend, IF cRxLock > 0 THEN 1 ELSE 0) : RemoveFromEventList(W)
    /\ cRxLock' = queueUNLOCKED
    /\ Goto(t, "resume")
    /\ UNCHANGED <<pxCurrentTCB, uxSchedulerSuspended, uxPendedTicks, pendSV,
                   queueVars, cTxLock, call, xTimeOut, after, reply>>

prvUnlockQueueRx(t) ==
    /\ Runs(t) /\ pc[t] = "unlockRx"
    /\ \E W \in Heads(ToSend, Counted(cRxLock)) : RemoveFromEventList(W)
    /\ cRxLock' = queueUNLOCKED
    /\ Goto(t, "resume")
    /\ UNCHANGED <<pxCurrentTCB, uxSchedulerSuspended, uxPendedTicks, pendSV,
                   queueVars, cTxLock, call, xTimeOut, after, reply>>

(* Which timeouts can elapse, and that they have.                          *)
Timed == {t \in Task : call[t].wait = "finite" /\ xTimeOut[t] = "running"}

Elapse(E) == [t \in Task |-> IF t \in E THEN "expired" ELSE xTimeOut[t]]

(* Where a call goes on once xTaskResumeAll has returned: a blocked task   *)
(* yields unless that was done already; a sender that timed out returns    *)
(* (queue.c:951), a receiver tests the queue again first (queue.c:1400).   *)
Continuation(t, yielded) ==
    CASE after[t] \in {"block", "delayed"} /\ ~yielded -> "yield"
      [] after[t] = "block" /\ yielded                 -> "try"
      [] after[t] = "retry"                            -> "try"
      [] after[t] = "delayed" /\ yielded               -> "awake"
      [] after[t] = "giveUp" /\ Taking(t)              -> "recheck"
      [] OTHER                                         -> "app"

xTaskResumeAll(t) ==
    /\ Runs(t) /\ pc[t] = "resume"
    /\ \E E \in SUBSET Timed :
          LET next == Continuation(t, AlreadyYielded(E)) IN
          /\ ResumeAll(E)
          /\ Goto(t, next)
          /\ after' = [after EXCEPT ![t] = IF next = "yield" THEN @ ELSE "none"]
          /\ IF next = "app"
               THEN /\ call' = [call EXCEPT ![t] = None]
                    /\ xTimeOut' = [Elapse(E) EXCEPT ![t] = "unset"]
                    /\ reply' = [reply EXCEPT ![t] = errQUEUE_FULL]
               ELSE /\ xTimeOut' = Elapse(E)
                    /\ UNCHANGED <<call, reply>>
    /\ UNCHANGED <<queueVars, lockVars>>

portYIELD_WITHIN_API(t) ==
    /\ Runs(t) /\ pc[t] = "yield"
    /\ Yield
    /\ after' = [after EXCEPT ![t] = "none"]
    /\ Goto(t, IF after[t] = "block" THEN "try" ELSE "awake")
    /\ UNCHANGED <<pxCurrentTCB, uxSchedulerSuspended, uxPendedTicks, xYieldPending,
                   stateList, eventList, queueVars, lockVars, call, xTimeOut, reply>>

(* A receiver whose time is up and that finds an item after all tries once *)
(* more, with nothing left to wait.                                        *)
RecheckEmpty(t) ==
    /\ Runs(t) /\ pc[t] = "recheck"
    /\ IF HasItem
         THEN Goto(t, "try") /\ UNCHANGED <<call, xTimeOut, reply>>
         ELSE Return(t, errQUEUE_EMPTY)
    /\ UNCHANGED <<schedVars, queueVars, lockVars, after>>

(* vTaskDelay: the application sleeps between its calls.                   *)
DelaySuspends(t) ==
    /\ Runs(t) /\ pc[t] = "sleep"
    /\ SuspendAll
    /\ Goto(t, "delay")
    /\ UNCHANGED <<pxCurrentTCB, uxPendedTicks, xYieldPending, pendSV, stateList,
                   eventList, queueVars, lockVars, call, xTimeOut, after, reply>>

vTaskDelay(t) ==
    /\ Runs(t) /\ pc[t] = "delay"
    /\ AddCurrentTaskToDelayedList(FALSE)
    /\ xTimeOut' = [xTimeOut EXCEPT ![t] = "running"]
    /\ Goto(t, "resume")
    /\ after' = [after EXCEPT ![t] = "delayed"]
    /\ UNCHANGED <<pxCurrentTCB, uxSchedulerSuspended, uxPendedTicks, xYieldPending,
                   pendSV, eventList, queueVars, lockVars, call, reply>>

DelayReturns(t) ==
    /\ Runs(t) /\ pc[t] = "awake"
    /\ Return(t, NoReply)
    /\ UNCHANGED <<schedVars, queueVars, lockVars, after>>

(***************************************************************************)
(* Interrupt handlers: one critical section each.                          *)
(***************************************************************************)

(* Bug: a handler that does not look at the lock.                          *)
WakeAlways(lock, list) == WakeOne(list)

(* A handler that finds the queue locked leaves the event lists alone and  *)
(* counts what it did, for prvUnlockQueue.                                 *)
WakeOrCount(lock, list) ==
    IF lock = queueUNLOCKED
      THEN WakeOne(list)
      ELSE lock < MaxLock /\ UNCHANGED schedVars

(* Bug: an item sent to a locked queue is not counted.                     *)
SendFromISRUncounted(x, position) ==
    /\ HasRoom(position)
    /\ CopyDataToQueue(x, position)
    /\ WakeOrCount(cTxLock, ToReceive)
    /\ UNCHANGED <<lockVars, taskVars>>

xQueueGenericSendFromISR(x, position) ==
    /\ HasRoom(position)
    /\ CopyDataToQueue(x, position)
    /\ WakeOrCount(cTxLock, ToReceive)
    /\ cTxLock' = IF cTxLock = queueUNLOCKED THEN cTxLock ELSE cTxLock + 1
    /\ UNCHANGED <<cRxLock, taskVars>>

xQueueReceiveFromISR ==
    /\ HasItem
    /\ CopyDataFromQueue
    /\ WakeOrCount(cRxLock, ToSend)
    /\ cRxLock' = IF cRxLock = queueUNLOCKED THEN cRxLock ELSE cRxLock + 1
    /\ UNCHANGED <<cTxLock, taskVars>>

xTaskIncrementTick ==
    /\ \E E \in SUBSET Timed :
          /\ IncrementTick(E)
          /\ xTimeOut' = Elapse(E)
    /\ UNCHANGED <<queueVars, lockVars, pc, call, after, reply>>

vTaskSwitchContext ==
    SwitchContext /\ UNCHANGED <<queueVars, lockVars, taskVars>>

(***************************************************************************)
(* The specification.                                                      *)
(***************************************************************************)

(* What a task does inside the kernel.                                     *)
KernelStep(t) ==
    \/ xQueueGenericSend(t) \/ xQueueReceive(t) \/ xQueuePeek(t)
    \/ xQueueGenericReset(t)
    \/ vTaskSuspendAll(t) \/ prvLockQueue(t) \/ xTaskCheckForTimeOut(t)
    \/ prvIsQueueFullOrEmpty(t) \/ vTaskPlaceOnEventList(t)
    \/ prvUnlockQueueTx(t) \/ prvUnlockQueueRx(t)
    \/ xTaskResumeAll(t) \/ portYIELD_WITHIN_API(t) \/ RecheckEmpty(t)
    \/ DelaySuspends(t) \/ vTaskDelay(t) \/ DelayReturns(t)

InterruptPut == \E x \in Item, p \in SendsISR : xQueueGenericSendFromISR(x, p)
InterruptGet == TakesISR /\ xQueueReceiveFromISR

Next ==
    \/ \E t \in Task : Begin(t) \/ KernelStep(t)
    \/ InterruptPut
    \/ InterruptGet
    \/ xTaskIncrementTick
    \/ vTaskSwitchContext

Spec == Init /\ [][Next]_vars

(* Fairness, none of it about the application: PendSV, once pending, is    *)
(* taken; interrupts do not keep the running task from its next kernel     *)
(* step for ever; a timeout of finitely many ticks elapses.                *)
Fairness ==
    /\ WF_vars(vTaskSwitchContext)
    /\ \A t \in Task : SF_vars(KernelStep(t))
    /\ \A t \in Task : SF_vars(xTaskIncrementTick /\ t \in Timed /\ t \notin Timed')

FairSpec == Spec /\ Fairness

(***************************************************************************)
(* Properties.                                                             *)
(***************************************************************************)

PC == {"app", "try", "reset", "suspend", "lock", "check", "test", "place", "unlockTx",
       "unlockRx", "resume", "yield", "recheck", "sleep", "delay", "awake"}
TimeOut == {"unset", "running", "expired", "passed"}
After == {"none", "block", "retry", "giveUp", "delayed"}
Reply == [result : {"none", "pdPASS", "errQUEUE_FULL", "errQUEUE_EMPTY"},
          item : Item \cup {Empty}]
StateList == {Ready, Delayed, Suspended}
EventList == {NULL, ToSend, ToReceive, PendingReady}

SchedTypeOK ==
    /\ pxCurrentTCB \in Task
    /\ uxSchedulerSuspended \in {0, 1}
    /\ uxPendedTicks \in BOOLEAN /\ xYieldPending \in BOOLEAN /\ pendSV \in BOOLEAN
    /\ stateList \in [Task -> StateList]
    /\ eventList \in [Task -> EventList]

StorageTypeOK ==
    /\ storage \in [Slot -> Item \cup {Empty}]
    /\ pcWriteTo \in Slot /\ pcReadFrom \in Slot
    /\ uxMessagesWaiting \in 0 .. uxLength

LockTypeOK == cRxLock \in -1 .. MaxLock /\ cTxLock \in -1 .. MaxLock

TaskTypeOK ==
    /\ pc \in [Task -> PC]
    /\ call \in [Task -> Calls \cup {None}]
    /\ xTimeOut \in [Task -> TimeOut]
    /\ after \in [Task -> After]
    /\ reply \in [Task -> Reply]

(* The type invariant: among it, that the count stays within the length of *)
(* the queue, both pointers within the storage area, the scheduler is not  *)
(* suspended twice, and a lock counter within the bound of the model.      *)
TypeOK == SchedTypeOK /\ StorageTypeOK /\ LockTypeOK /\ TaskTypeOK

(* The write pointer is always uxMessagesWaiting slots after the slot that *)
(* is read next: the two pointers, which wrap by comparison and never by a *)
(* remainder, and the count, which is kept apart, agree.                   *)
RingConsistent ==
    LET end == pcReadFrom + 1 + uxMessagesWaiting
    IN  \/ pcWriteTo = end
        \/ pcWriteTo = end - uxLength
        \/ pcWriteTo = end - 2 * uxLength

(* The code between vTaskSuspendAll and xTaskResumeAll.                    *)
Inside == {"lock", "check", "test", "place", "unlockTx", "unlockRx", "resume", "delay"}
LockHeld == {"check", "test", "place", "unlockTx"}

(* Only one task is between vTaskSuspendAll and xTaskResumeAll, it is the  *)
(* running one, and the queue is locked only by that task: what makes the  *)
(* test of the queue and the placing on its event list (queue.c:915-918)   *)
(* one step for every other task although interrupts stay enabled.         *)
SuspensionExcludes ==
    /\ \A t \in Task : pc[t] \in Inside => pxCurrentTCB = t /\ uxSchedulerSuspended = 1
    /\ uxSchedulerSuspended = 1 => pc[pxCurrentTCB] \in Inside
    /\ cTxLock # queueUNLOCKED => pc[pxCurrentTCB] \in LockHeld
    /\ cRxLock # queueUNLOCKED => pc[pxCurrentTCB] \in LockHeld \cup {"unlockRx"}

(* The tasks that will run the head of their loop again before they give   *)
(* up: they have been woken, or have not blocked.                          *)
WillTry(t) ==
    \/ pc[t] = "try"
    \/ pc[t] \in {"unlockTx", "unlockRx", "resume", "yield"} /\ after[t] \in {"block", "retry"}

Takers == {t \in Task : Taking(t) /\ WillTry(t) /\ eventList[t] # ToReceive}
Senders == {t \in Task : Sending(t) /\ WillTry(t) /\ eventList[t] # ToSend}

(* No lost wake-up: while tasks wait for an item, every item in the queue  *)
(* is spoken for by a receiver that was woken and has yet to run, or by    *)
(* the interrupts cTxLock counted, which prvUnlockQueue will answer.       *)
NoLostItem ==
    Waiting(ToReceive) # {} =>
        uxMessagesWaiting <= Cardinality(Takers) + Counted(cTxLock)

(* The same for the free slots and the tasks that wait to send.            *)
NoLostSlot ==
    Waiting(ToSend) # {} =>
        uxLength - uxMessagesWaiting <= Cardinality(Senders) + Counted(cRxLock)

(* A task is in an event list only while it is blocked, and a blocked task *)
(* is in one, or sleeps, or is the running task about to yield: no task is *)
(* in no list at all (list corruption, a task that nothing can wake), and  *)
(* a time that has already passed is never waited for.                     *)
BlockedConsistently ==
    \A t \in Task :
        /\ eventList[t] # NULL => stateList[t] # Ready
        /\ stateList[t] = Suspended => eventList[t] # NULL
        /\ stateList[t] = Delayed => xTimeOut[t] = "running"
        /\ eventList[t] = PendingReady => uxSchedulerSuspended = 1

(* Preemption is never forgotten.  No ready task has a higher priority     *)
(* than the running one, unless PendSV is pending, or the scheduler is     *)
(* suspended and the switch is on record; and the running task is itself   *)
(* ready, but for one that is about to yield after it has blocked.         *)
HighestPriorityRuns ==
    /\ \A t \in Task :
          (stateList[t] = Ready /\ Priority[t] > Priority[pxCurrentTCB])
              => pendSV \/ (uxSchedulerSuspended = 1 /\ xYieldPending)
    /\ (~pendSV /\ pc[pxCurrentTCB] \notin Inside \cup {"yield"})
          => stateList[pxCurrentTCB] = Ready

(* While the queue is locked no interrupt touches its event lists          *)
(* (queue.c:240, "Locking a queue prevents an ISR from accessing the queue *)
(* event lists"), the tick included.                                       *)
ListsLocked ==
    [][(cTxLock # queueUNLOCKED /\ eventList' # eventList)
          => (pc' # pc /\ pc[pxCurrentTCB] \in {"place", "unlockTx"})]_vars

(* The queue implements BoundedChannel: the items are those of the         *)
(* uxMessagesWaiting slots that follow pcReadFrom, wrapping round.         *)
Contents ==
    [i \in 1 .. uxMessagesWaiting |->
        storage[IF pcReadFrom + i >= uxLength THEN pcReadFrom + i - uxLength
                                              ELSE pcReadFrom + i]]

Channel == INSTANCE BoundedChannel WITH chan <- Contents

(* Every call takes effect once, in one piece, with items leaving in the   *)
(* order queue.h promises, no item lost or duplicated whatever the         *)
(* interrupts and the other tasks do, and is refused only when that is     *)
(* allowed: never with portMAX_DELAY, a receiver only by an empty queue.   *)
ChannelSpec == Channel!Spec

(* A task that nobody can keep off the processor. *)
Top == {t \in Task : \A u \in Task \ {t} : Priority[u] < Priority[t]}

(* Blocked on a queue that has what it waits for, the top task gets it,    *)
(* unless something else takes it away first: the wake-up it is due        *)
(* survives queue locking, scheduler suspension and the pending list.      *)
TopTaskServed ==
    \A t \in Top :
        /\ (eventList[t] = ToReceive /\ HasItem) ~> (call[t] = None \/ ~HasItem)
        /\ (eventList[t] = ToSend /\ uxMessagesWaiting < uxLength)
               ~> (call[t] = None \/ uxMessagesWaiting = uxLength)

(* A call with a finite timeout of the top task returns, whatever the      *)
(* interrupts and the other tasks do to the queue meanwhile: the loop      *)
(* cannot retry for ever, and no timeout is lost.                          *)
FiniteWaitEnds == \A t \in Top : (call[t].wait = "finite") ~> (call[t] = None)

=============================================================================
