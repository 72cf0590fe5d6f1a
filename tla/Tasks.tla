------------------------------- MODULE Tasks -------------------------------
(***************************************************************************)
(* The life of dynamically created tasks: creation and deletion over the   *)
(* heap, delays, waits with a time-out, periodic delays, suspension.  The  *)
(* callers that create, delete, suspend and resume are tasks that exist    *)
(* all the time (main, the tcpip thread); the idle task frees the memory   *)
(* of the tasks that delete themselves.  A queue created and deleted by    *)
(* them shares the heap.                                                   *)
(*                                                                         *)
(* Which ready task runs is left open, so that every schedule of fixed     *)
(* priorities is among the behaviours.  A task is suspended or deleted by  *)
(* another at any point of its calls.                                      *)
(*                                                                         *)
(* The history left[t] counts, without overflow, the ticks to the end of   *)
(* the delay, wait or period task t is in; it decides nothing but whether  *)
(* a task is later than the arithmetic of the code can tell.               *)
(***************************************************************************)
EXTENDS Heap4, TickTime

CONSTANTS StackBytes,   \* of each task
          TcbBytes,     \* sizeof( TCB_t )
          QueueBytes,   \* what a queue asks of the heap
          Delays,       \* the delays, waits and periods of each task
          Waits,
          Periods

ASSUME TasksAssumption ==
    /\ StackBytes \in [Task -> Nat \ {0}]
    /\ {TcbBytes, QueueBytes} \subseteq Nat \ {0}
    /\ {Delays, Waits, Periods} \subseteq [Task -> SUBSET (Time \ {0})]

VARIABLES
    phase,          \* how far the creation or deletion of a task has come
    pxStack,        \* the memory of each task
    pxTCB,
    pxQueue,        \* the memory of the queue
    resetDue,       \* a vTaskSuspend is between its two critical sections; the
                    \* resets of two that are there together count as one
    call,           \* the call a task is in: "none", "delay", "wait", "periodic"
    xTimeOut,       \* of a task in a wait
    xTicksToWait,
    previousWake,   \* pxPreviousWakeTime of a periodic task
    left            \* history

memoryVars == <<heap, phase, pxStack, pxTCB, pxQueue>>
callVars == <<call, xTimeOut, xTicksToWait, previousWake, left>>
vars == <<memoryVars, tickVars, listVars, resetDue, callVars>>

Phases == {"absent", "stack", "undo", "new", "live", "dying", "reclaimed"}

NoTimeOut == TimeOut(0, 0)

Init ==
    /\ prvHeapInit
    /\ TickInit
    /\ phase = [t \in Task |-> "absent"]
    /\ pxStack = [t \in Task |-> NULL]
    /\ pxTCB = [t \in Task |-> NULL]
    /\ pxQueue = NULL
    /\ stateList = [t \in Task |-> Nowhere]
    /\ wakeTime = [t \in Task |-> 0]
    /\ eventList = [t \in Task |-> FALSE]
    /\ resetDue = FALSE
    /\ call = [t \in Task |-> "none"]
    /\ xTimeOut = [t \in Task |-> NoTimeOut]
    /\ xTicksToWait = [t \in Task |-> 0]
    /\ previousWake = [t \in Task |-> 0]
    /\ left = [t \in Task |-> NULL]

Live(t) == phase[t] = "live"
Runs(t) == Live(t) /\ stateList[t] = Ready
Become(t, p) == phase' = [phase EXCEPT ![t] = p]

(* The call of t is over.                                                  *)
EndCall(t) ==
    /\ call' = [call EXCEPT ![t] = "none"]
    /\ xTimeOut' = [xTimeOut EXCEPT ![t] = NoTimeOut]
    /\ xTicksToWait' = [xTicksToWait EXCEPT ![t] = 0]
    /\ previousWake' = [previousWake EXCEPT ![t] = 0]
    /\ left' = [left EXCEPT ![t] = NULL]

-----------------------------------------------------------------------------
(* xTaskCreate: the stack, then the TCB, then the ready list.  A creation  *)
(* without memory for the stack fails at once and changes nothing.         *)

AllocateStack(t) ==
    /\ phase[t] = "absent"
    /\ Available(heap, StackBytes[t])
    /\ heap' = pvPortMalloc(heap, StackBytes[t])
    /\ pxStack' = [pxStack EXCEPT ![t] = pvReturn(heap, StackBytes[t])]
    /\ Become(t, "stack")
    /\ UNCHANGED <<pxTCB, pxQueue, tickVars, listVars, resetDue, callVars>>

(* Bug: the stack is forgotten when there is no memory for the TCB.        *)
AllocateTCBOrForget(t) ==
    /\ phase[t] = "stack"
    /\ heap' = pvPortMalloc(heap, TcbBytes)
    /\ pxTCB' = [pxTCB EXCEPT ![t] = pvReturn(heap, TcbBytes)]
    /\ Become(t, IF pxTCB'[t] = NULL THEN "absent" ELSE "new")
    /\ pxStack' = [pxStack EXCEPT ![t] = IF pxTCB'[t] = NULL THEN NULL ELSE @]
    /\ UNCHANGED <<pxQueue, tickVars, listVars, resetDue, callVars>>

AllocateTCB(t) ==
    /\ phase[t] = "stack"
    /\ heap' = pvPortMalloc(heap, TcbBytes)
    /\ pxTCB' = [pxTCB EXCEPT ![t] = pvReturn(heap, TcbBytes)]
    /\ Become(t, IF pxTCB'[t] = NULL THEN "undo" ELSE "new")
    /\ UNCHANGED <<pxStack, pxQueue, tickVars, listVars, resetDue, callVars>>

(* The stack cannot be used as the TCB was not created.                    *)
FreeStack(t) ==
    /\ phase[t] = "undo"
    /\ heap' = vPortFree(heap, pxStack[t])
    /\ pxStack' = [pxStack EXCEPT ![t] = NULL]
    /\ Become(t, "absent")
    /\ UNCHANGED <<pxTCB, pxQueue, tickVars, listVars, resetDue, callVars>>

prvAddNewTaskToReadyList(t) ==
    /\ phase[t] = "new"
    /\ Become(t, "live")
    /\ stateList' = [stateList EXCEPT ![t] = Ready]
    /\ UNCHANGED <<heap, pxStack, pxTCB, pxQueue, tickVars, wakeTime, eventList,
                   resetDue, callVars>>

-----------------------------------------------------------------------------
(* vTaskDelete *)

(* Both blocks of a task go back to the heap.                              *)
prvDeleteTCB(t) ==
    /\ heap' = vPortFree(vPortFree(heap, pxStack[t]), pxTCB[t])
    /\ pxStack' = [pxStack EXCEPT ![t] = NULL]
    /\ pxTCB' = [pxTCB EXCEPT ![t] = NULL]
    /\ Become(t, "absent")

(* By another task: all of it in one critical section.                     *)
vTaskDelete(t) ==
    /\ Live(t)
    /\ MoveTo(t, Nowhere)
    /\ prvDeleteTCB(t)
    /\ prvResetNextTaskUnblockTime
    /\ EndCall(t)
    /\ UNCHANGED <<pxQueue, xTickCount, xNumOfOverflows, resetDue>>

(* By itself: it goes to the list the idle task looks through.             *)
DeleteSelf(t) ==
    /\ Runs(t)
    /\ MoveTo(t, Termination)
    /\ Become(t, "dying")
    /\ EndCall(t)
    /\ UNCHANGED <<heap, pxStack, pxTCB, pxQueue, tickVars, resetDue>>

(* The idle task takes one off the list, and then frees its stack and its  *)
(* TCB, while others may allocate and free.                                *)
prvCheckTasksWaitingTermination(t) ==
    \/ /\ phase[t] = "dying"
       /\ \A u \in Task : phase[u] # "reclaimed"
       /\ Become(t, "reclaimed")
       /\ stateList' = [stateList EXCEPT ![t] = Nowhere]
       /\ UNCHANGED <<heap, pxStack, pxTCB, pxQueue, tickVars, wakeTime, eventList,
                      resetDue, callVars>>
    \/ /\ phase[t] = "reclaimed"
       /\ pxStack[t] # NULL
       /\ heap' = vPortFree(heap, pxStack[t])
       /\ pxStack' = [pxStack EXCEPT ![t] = NULL]
       /\ UNCHANGED <<phase, pxTCB, pxQueue, tickVars, listVars, resetDue, callVars>>
    \/ /\ phase[t] = "reclaimed"
       /\ pxStack[t] = NULL
       /\ heap' = vPortFree(heap, pxTCB[t])
       /\ pxTCB' = [pxTCB EXCEPT ![t] = NULL]
       /\ Become(t, "absent")
       /\ UNCHANGED <<pxStack, pxQueue, tickVars, listVars, resetDue, callVars>>

(* xQueueGenericCreate and vQueueDelete, as far as the heap goes.          *)
xQueueGenericCreate ==
    /\ pxQueue = NULL
    /\ Available(heap, QueueBytes)
    /\ heap' = pvPortMalloc(heap, QueueBytes)
    /\ pxQueue' = pvReturn(heap, QueueBytes)
    /\ UNCHANGED <<phase, pxStack, pxTCB, tickVars, listVars, resetDue, callVars>>

vQueueDelete ==
    /\ pxQueue # NULL
    /\ heap' = vPortFree(heap, pxQueue)
    /\ pxQueue' = NULL
    /\ UNCHANGED <<phase, pxStack, pxTCB, tickVars, listVars, resetDue, callVars>>

-----------------------------------------------------------------------------
(* Delays and waits *)

(* The place of the call in a task's program: between calls.               *)
Idles(t) == Runs(t) /\ call[t] = "none"

vTaskDelay(t) ==
    /\ Idles(t)
    /\ \E n \in Delays[t] :
          /\ prvAddCurrentTaskToDelayedList(t, n, FALSE)
          /\ left' = [left EXCEPT ![t] = n]
    /\ call' = [call EXCEPT ![t] = "delay"]
    /\ UNCHANGED <<memoryVars, xTickCount, xNumOfOverflows, eventList, resetDue,
                   xTimeOut, xTicksToWait, previousWake>>

(* A wait on a kernel object with a time-out: the loop of xQueueGeneric-   *)
(* Send and its like.                                                      *)
BeginWait(t) ==
    /\ Idles(t)
    /\ xTimeOut' = [xTimeOut EXCEPT ![t] = vTaskInternalSetTimeOutState]
    /\ \E n \in Waits[t] :
          /\ xTicksToWait' = [xTicksToWait EXCEPT ![t] = n]
          /\ left' = [left EXCEPT ![t] = IF n = portMAX_DELAY THEN NULL ELSE n]
    /\ call' = [call EXCEPT ![t] = "wait"]
    /\ UNCHANGED <<memoryVars, tickVars, listVars, resetDue, previousWake>>

(* Its turn: time is up, or it blocks for what is left of the time, or it  *)
(* tries again as what it waits for has come since it looked.              *)
xTaskCheckForTimeOut(t) ==
    /\ Runs(t) /\ call[t] = "wait"
    /\ IF TimedOut(xTimeOut[t], xTicksToWait[t])
         THEN EndCall(t) /\ UNCHANGED <<tickVars, listVars>>
         ELSE LET n == TicksLeft(xTimeOut[t], xTicksToWait[t])
              IN /\ xTicksToWait' = [xTicksToWait EXCEPT ![t] = n]
                 /\ xTimeOut' = IF n = portMAX_DELAY THEN xTimeOut
                                ELSE [xTimeOut EXCEPT ![t] = vTaskInternalSetTimeOutState]
                 /\ \/ /\ prvAddCurrentTaskToDelayedList(t, n, TRUE)
                       /\ eventList' = [eventList EXCEPT ![t] = TRUE]
                    \/ UNCHANGED <<listVars, xNextTaskUnblockTime>>
                 /\ UNCHANGED <<xTickCount, xNumOfOverflows, call, previousWake, left>>
    /\ UNCHANGED <<memoryVars, resetDue>>

(* What it waits for is there.                                             *)
EndWait(t) ==
    /\ Runs(t) /\ call[t] = "wait"
    /\ EndCall(t)
    /\ UNCHANGED <<memoryVars, tickVars, listVars, resetDue>>

(* A send, a give or an interrupt wakes a task; another may be faster.     *)
xTaskRemoveFromEventList(t) ==
    /\ eventList[t]
    /\ MoveTo(t, Ready)
    /\ UNCHANGED <<memoryVars, tickVars, resetDue, callVars>>

(* A periodic task reads the tick count before its first period.           *)
BeginPeriodic(t) ==
    /\ Idles(t) /\ Periods[t] # {}
    /\ call' = [call EXCEPT ![t] = "periodic"]
    /\ previousWake' = [previousWake EXCEPT ![t] = xTickCount]
    /\ left' = [left EXCEPT ![t] = 0]
    /\ UNCHANGED <<memoryVars, tickVars, listVars, resetDue, xTimeOut, xTicksToWait>>

vTaskDelayUntil(t) ==
    /\ Runs(t) /\ call[t] = "periodic"
    /\ \E n \in Periods[t] :
          /\ previousWake' = [previousWake EXCEPT ![t] = Plus(@, n)]
          /\ left' = [left EXCEPT ![t] = @ + n]
          /\ IF ShouldDelay(previousWake[t], n)
               THEN prvAddCurrentTaskToDelayedList(t, Minus(previousWake'[t], xTickCount), FALSE)
               ELSE UNCHANGED <<stateList, wakeTime, xNextTaskUnblockTime>>
    /\ UNCHANGED <<memoryVars, xTickCount, xNumOfOverflows, eventList, resetDue,
                   call, xTimeOut, xTicksToWait>>

EndPeriodic(t) ==
    /\ Runs(t) /\ call[t] = "periodic"
    /\ EndCall(t)
    /\ UNCHANGED <<memoryVars, tickVars, listVars, resetDue>>

-----------------------------------------------------------------------------
(* Suspension *)

(* A delay that is suspended is over when the task is resumed.  The same   *)
(* is assumed of a periodic task suspended in its sleep: it reads the tick *)
(* count anew, since vTaskDelayUntil takes a previous wake time that is    *)
(* still to come for one before an overflow (tasks.c:1267).                *)
EndsWhenSuspended(t) == call[t] = "delay" \/ (call[t] = "periodic" /\ Asleep(t))

(* The first critical section.                                             *)
vTaskSuspend(t) ==
    /\ Live(t)
    /\ MoveTo(t, Suspended)
    /\ resetDue' = TRUE
    /\ IF EndsWhenSuspended(t) THEN EndCall(t) ELSE UNCHANGED callVars
    /\ UNCHANGED <<memoryVars, tickVars>>

(* The second.                                                             *)
SuspendReset ==
    /\ resetDue
    /\ resetDue' = FALSE
    /\ UNCHANGED <<memoryVars, xTickCount, xNumOfOverflows, listVars, callVars>>
    /\ prvResetNextTaskUnblockTime

(* prvTaskIsTaskSuspended: suspended, and not blocked for ever.            *)
prvTaskIsTaskSuspended(t) == stateList[t] = Suspended /\ ~eventList[t]

(* From a task or an interrupt.                                            *)
vTaskResume(t) ==
    /\ Live(t)
    /\ prvTaskIsTaskSuspended(t)
    /\ MoveTo(t, Ready)
    /\ UNCHANGED <<memoryVars, tickVars, resetDue, callVars>>

(* The premise about lateness: a task looks at the clock again before the  *)
(* count has come round to the time of its last look and, for a wait,      *)
(* before it has overflowed for the second time since.                     *)
InTime(t) ==
    /\ call[t] = "wait" /\ left[t] # NULL =>
         xTimeOut[t].xTimeOnEntering + (xTicksToWait[t] - left[t]) + 1 < 2 * Modulus
    /\ call[t] = "periodic" => left[t] - 1 > -Modulus

(* The tick interrupt.  A delay ends with it.                              *)
Tick ==
    /\ \A t \in Task : InTime(t)
    /\ xTaskIncrementTick
    /\ LET over == {t \in WokenByTick : call[t] = "delay"}
       IN /\ left' = [t \in Task |-> IF left[t] = NULL \/ t \in over THEN NULL ELSE left[t] - 1]
          /\ call' = [t \in Task |-> IF t \in over THEN "none" ELSE call[t]]
    /\ UNCHANGED <<memoryVars, resetDue, xTimeOut, xTicksToWait, previousWake>>

Next ==
    \/ Tick
    \/ SuspendReset
    \/ xQueueGenericCreate \/ vQueueDelete
    \/ \E t \in Task :
          \/ AllocateStack(t) \/ AllocateTCB(t) \/ FreeStack(t)
          \/ prvAddNewTaskToReadyList(t)
          \/ vTaskDelete(t) \/ DeleteSelf(t) \/ prvCheckTasksWaitingTermination(t)
          \/ vTaskDelay(t) \/ BeginWait(t) \/ xTaskCheckForTimeOut(t) \/ EndWait(t)
          \/ xTaskRemoveFromEventList(t)
          \/ BeginPeriodic(t) \/ vTaskDelayUntil(t) \/ EndPeriodic(t)
          \/ vTaskSuspend(t) \/ vTaskResume(t)

Spec == Init /\ [][Next]_vars

-----------------------------------------------------------------------------
(* Properties *)

Pointers == {NULL} \cup (HeapStart .. HeapEnd)

(* Times, pointers and lists are of their types; no wake time exceeds the  *)
(* largest tick count.                                                     *)
TypeOK ==
    /\ heap.remaining \in Nat
    /\ phase \in [Task -> Phases]
    /\ pxStack \in [Task -> Pointers] /\ pxTCB \in [Task -> Pointers]
    /\ pxQueue \in Pointers
    /\ stateList \in [Task -> {Ready, Delayed, Overflow, Suspended, Termination, Nowhere}]
    /\ wakeTime \in [Task -> Time] /\ previousWake \in [Task -> Time]
    /\ xTickCount \in Time /\ xNextTaskUnblockTime \in Time
    /\ xNumOfOverflows \in 0 .. OverflowModulus - 1
    /\ eventList \in [Task -> BOOLEAN] /\ resetDue \in BOOLEAN
    /\ call \in [Task -> {"none", "delay", "wait", "periodic"}]
    /\ xTicksToWait \in [Task -> Time]

(* Who can hold memory, what each holds and how much it asked for.         *)
Holders == ({"stack", "TCB"} \X Task) \cup {<<"queue", NULL>>}
Memory == [o \in Holders |-> CASE o[1] = "stack" -> pxStack[o[2]]
                                [] o[1] = "TCB" -> pxTCB[o[2]]
                                [] o[1] = "queue" -> pxQueue]
Asked == [o \in Holders |-> CASE o[1] = "stack" -> StackBytes[o[2]]
                               [] o[1] = "TCB" -> TcbBytes
                               [] o[1] = "queue" -> QueueBytes]

(* Every allocated block has one holder, who has at least what it asked    *)
(* for, and nothing is allocated that nobody holds.                        *)
Owned(used, memory) ==
    /\ \A o \in Holders : memory[o] # NULL =>
          /\ \E b \in used : /\ memory[o] = b.at + xHeapStructSize
                             /\ Asked[o] <= b.size - xHeapStructSize
          /\ \A p \in Holders : memory[p] = memory[o] => p = o
    /\ \A b \in used : \E o \in Holders : memory[o] = b.at + xHeapStructSize

(* A creation that fails half way, a task deleted by another and one       *)
(* cleared up by the idle task leave nothing behind, and a task in a list  *)
(* of the scheduler still has its TCB and its stack.                       *)
MemoryOwned ==
    /\ Owned(heap.used, Memory)
    /\ \A t \in Task : stateList[t] # Nowhere => pxStack[t] # NULL /\ pxTCB[t] # NULL

(* The heap is whole and every byte of it accounted for, whatever is       *)
(* created, deleted or fails half way, in whatever order and place.        *)
MemorySound == Tiled(heap) /\ MemoryOwned

(* Time is told rightly across overflows of the tick count, whatever is    *)
(* suspended, deleted or woken by an event in between.  The next tick      *)
(* wakes a sleeping task if and only if the task then has slept as long as *)
(* it asked; xTaskCheckForTimeOut would say now that time is up if and     *)
(* only if it is; and vTaskDelayUntil would delay if and only if the end   *)
(* of the period is still to come.                                         *)
TimesKept ==
    \A t \in Task :
       /\ Asleep(t) => left[t] > 0 /\ (t \in WokenByTick <=> left[t] = 1)
       /\ Runs(t) /\ call[t] = "wait" =>
            (TimedOut(xTimeOut[t], xTicksToWait[t]) <=> left[t] # NULL /\ left[t] <= 0)
       /\ Runs(t) /\ call[t] = "periodic" =>
            \A n \in Periods[t] : ShouldDelay(previousWake[t], n) <=> left[t] + n > 0

=============================================================================
