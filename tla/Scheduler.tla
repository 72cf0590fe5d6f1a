----------------------------- MODULE Scheduler -----------------------------
(***************************************************************************)
(* The part of the FreeRTOS scheduler (freertos_kernel/tasks.c and the     *)
(* ARM_CM4F port) that every blocking kernel object is written against:    *)
(* the lists a task is in, the suspension counter, the two ways a context  *)
(* switch is requested (xYieldPending and the PendSV exception) and the    *)
(* primitives that move tasks between lists.                               *)
(*                                                                         *)
(* Each operator below is the effect of one kernel function on the         *)
(* scheduler's variables; the modules of the kernel objects (Queue, ...)   *)
(* conjoin them into their own steps, where the code calls the function.   *)
(*                                                                         *)
(* Abstractions.  An event list is the set of the tasks in it: the task    *)
(* that is removed first is any one of highest priority, where the code    *)
(* takes the one that was inserted first among those.  A ready list is a   *)
(* set too.  A tick carries no number: the tick interrupt makes the        *)
(* timeouts of an arbitrary set of tasks elapse.                           *)
(***************************************************************************)
EXTENDS Integers, FiniteSets

CONSTANTS Task,      \* the tasks, the idle task included
          Idle,      \* the idle task (prvIdleTask)
          Priority   \* uxPriority of every task; no mutex, so it is fixed

ASSUME TaskAssumption ==
    /\ IsFiniteSet(Task)
    /\ Idle \in Task
    /\ Priority \in [Task -> Nat]
    /\ Priority[Idle] = 0

VARIABLES
    pxCurrentTCB,          \* the running task
    uxSchedulerSuspended,  \* nesting of vTaskSuspendAll
    uxPendedTicks,         \* is a tick pended (the code counts them)
    xYieldPending,         \* a switch is due when the scheduler is resumed
    pendSV,                \* the PendSV exception is pending
    stateList,             \* the list of each task's xStateListItem
    eventList              \* the list of each task's xEventListItem, or NULL

schedVars == <<pxCurrentTCB, uxSchedulerSuspended, uxPendedTicks,
               xYieldPending, pendSV, stateList, eventList>>

NULL == "NULL"
Ready == "pxReadyTasksLists"
Delayed == "pxDelayedTaskList"
Suspended == "xSuspendedTaskList"
PendingReady == "xPendingReadyList"

Switchable == uxSchedulerSuspended = 0

(* vTaskStartScheduler: every task is ready and the last of the highest    *)
(* priority ones is current.                                               *)
SchedInit ==
    /\ pxCurrentTCB \in {t \in Task : \A u \in Task : Priority[u] <= Priority[t]}
    /\ uxSchedulerSuspended = 0
    /\ uxPendedTicks = FALSE
    /\ xYieldPending = FALSE
    /\ pendSV = FALSE
    /\ stateList = [t \in Task |-> Ready]
    /\ eventList = [t \in Task |-> NULL]

(* The tasks on an event list, and the sets of n tasks that n removals     *)
(* from its head may take (all of them when there are fewer).              *)
Waiting(list) == {t \in Task : eventList[t] = list}

Heads(list, n) ==
    {W \in SUBSET Waiting(list) :
        /\ Cardinality(W) <= n
        /\ Cardinality(W) < n => W = Waiting(list)
        /\ \A t \in W, u \in Waiting(list) \ W : Priority[u] <= Priority[t]}

(***************************************************************************)
(* Primitives.  Those that a kernel object calls once or several times in  *)
(* one critical section take the set of tasks they are applied to.         *)
(***************************************************************************)

(* xTaskRemoveFromEventList returns pdTRUE for one of the tasks of W.      *)
Preempts(W) == \E t \in W : Priority[t] > Priority[pxCurrentTCB]

(* xTaskRemoveFromEventList for each task of W: to its ready list, or to   *)
(* xPendingReadyList while the scheduler is suspended.                     *)
RemoveFromEventList(W) ==
    /\ stateList' = [t \in Task |->
           IF t \in W /\ Switchable THEN Ready ELSE stateList[t]]
    /\ eventList' = [t \in Task |->
           IF t \in W THEN IF Switchable THEN NULL ELSE PendingReady
                      ELSE eventList[t]]
    /\ xYieldPending' = (xYieldPending \/ Preempts(W))

(* Bug: the task is made ready, the running one is not asked to yield.     *)
RemoveFromEventListNoYield(W) == RemoveFromEventList(W) /\ UNCHANGED pendSV

(* The same followed by queueYIELD_IF_USING_PREEMPTION (task) or           *)
(* portYIELD_FROM_ISR (interrupt) when pdTRUE was returned: the PendSV     *)
(* exception is made pending.                                              *)
RemoveFromEventListAndYield(W) ==
    /\ RemoveFromEventList(W)
    /\ pendSV' = (pendSV \/ Preempts(W))

AddCurrentTaskToDelayedList(canBlockIndefinitely) ==
    stateList' = [stateList EXCEPT ![pxCurrentTCB] =
                     IF canBlockIndefinitely THEN Suspended ELSE Delayed]

PlaceOnEventList(list, forever) ==
    /\ eventList' = [eventList EXCEPT ![pxCurrentTCB] = list]
    /\ AddCurrentTaskToDelayedList(forever)

SuspendAll == uxSchedulerSuspended' = uxSchedulerSuspended + 1

(* The tasks of Elapsed leave pxDelayedTaskList and whatever event list    *)
(* they are in (the loop of xTaskIncrementTick).  states and events are    *)
(* the lists before the tick.                                              *)
Expired(Elapsed, states) == {t \in Elapsed : states[t] = Delayed}

(* xTaskIncrementTick says that a switch is required.                      *)
TickPreempts(Elapsed, states) ==
    \E t \in Expired(Elapsed, states) : Priority[t] >= Priority[pxCurrentTCB]

(* Bug: a task whose time is up stays in the event list it waited in.      *)
IncrementTickKeepsEvent(Elapsed) ==
    /\ IF Switchable
         THEN /\ stateList' = [t \in Task |->
                    IF t \in Expired(Elapsed, stateList) THEN Ready ELSE stateList[t]]
              /\ pendSV' = (pendSV \/ xYieldPending \/ TickPreempts(Elapsed, stateList))
              /\ UNCHANGED <<uxPendedTicks, eventList>>
         ELSE /\ Elapsed = {}
              /\ uxPendedTicks' = TRUE
              /\ pendSV' = (pendSV \/ xYieldPending)
              /\ UNCHANGED <<stateList, eventList>>
    /\ UNCHANGED <<pxCurrentTCB, uxSchedulerSuspended, xYieldPending>>

(* xPortSysTickHandler.  While the scheduler is suspended the tick is only *)
(* counted.                                                                *)
IncrementTick(Elapsed) ==
    /\ IF Switchable
         THEN /\ stateList' = [t \in Task |->
                    IF t \in Expired(Elapsed, stateList) THEN Ready ELSE stateList[t]]
              /\ eventList' = [t \in Task |->
                    IF t \in Expired(Elapsed, stateList) THEN NULL ELSE eventList[t]]
              /\ pendSV' = (pendSV \/ xYieldPending \/ TickPreempts(Elapsed, stateList))
              /\ UNCHANGED uxPendedTicks
         ELSE /\ Elapsed = {}
              /\ uxPendedTicks' = TRUE
              /\ pendSV' = (pendSV \/ xYieldPending)
              /\ UNCHANGED <<stateList, eventList>>
    /\ UNCHANGED <<pxCurrentTCB, uxSchedulerSuspended, xYieldPending>>

(* xTaskResumeAll, one critical section: the pending ready list is         *)
(* emptied, the pended ticks are replayed, and a switch is requested if    *)
(* one is due.  AlreadyYielded is its result.                              *)
Drained == IF uxSchedulerSuspended = 1 THEN Waiting(PendingReady) ELSE {}

StatesAfterDrain ==
    [t \in Task |-> IF t \in Drained THEN Ready ELSE stateList[t]]

AlreadyYielded(Elapsed) ==
    /\ uxSchedulerSuspended = 1
    /\ \/ xYieldPending
       \/ \E t \in Drained : Priority[t] >= Priority[pxCurrentTCB]
       \/ TickPreempts(Elapsed, StatesAfterDrain)

ResumeAll(Elapsed) ==
    /\ uxSchedulerSuspended > 0
    /\ uxSchedulerSuspended' = uxSchedulerSuspended - 1
    /\ (Elapsed # {}) => (uxSchedulerSuspended = 1 /\ uxPendedTicks)
    /\ uxPendedTicks' = (uxPendedTicks /\ uxSchedulerSuspended > 1)
    /\ stateList' = [t \in Task |->
           IF t \in Expired(Elapsed, StatesAfterDrain) THEN Ready ELSE StatesAfterDrain[t]]
    /\ eventList' = [t \in Task |->
           IF t \in Drained \cup Expired(Elapsed, StatesAfterDrain)
             THEN NULL ELSE eventList[t]]
    /\ xYieldPending' = (xYieldPending \/ AlreadyYielded(Elapsed))
    /\ pendSV' = (pendSV \/ AlreadyYielded(Elapsed))
    /\ UNCHANGED pxCurrentTCB

(* portYIELD_WITHIN_API *)
Yield == pendSV' = TRUE

(* xPortPendSVHandler and vTaskSwitchContext.                              *)
HighestPriorityReady ==
    {t \in Task : /\ stateList[t] = Ready
                  /\ \A u \in Task : stateList[u] = Ready => Priority[u] <= Priority[t]}

(* Bug: PendSV switches tasks although the scheduler is suspended.         *)
SwitchContextAlways ==
    /\ pendSV
    /\ pendSV' = FALSE
    /\ xYieldPending' = FALSE
    /\ pxCurrentTCB' \in HighestPriorityReady
    /\ UNCHANGED <<uxSchedulerSuspended, uxPendedTicks, stateList, eventList>>

SwitchContext ==
    /\ pendSV
    /\ pendSV' = FALSE
    /\ IF Switchable
         THEN /\ xYieldPending' = FALSE
              /\ pxCurrentTCB' \in HighestPriorityReady
         ELSE /\ xYieldPending' = TRUE
              /\ UNCHANGED pxCurrentTCB
    /\ UNCHANGED <<uxSchedulerSuspended, uxPendedTicks, stateList, eventList>>

(* Instructions of a task run only when it is current and no PendSV is     *)
(* waiting to switch it out.                                               *)
Runs(t) == pxCurrentTCB = t /\ ~pendSV

=============================================================================
