------------------------------ MODULE TickTime ------------------------------
(***************************************************************************)
(* The part of tasks.c that measures time: the tick count, the two delayed *)
(* lists that change places when it overflows, xNextTaskUnblockTime, which *)
(* saves the tick a look at the list, and the arithmetic of time-outs and  *)
(* of periodic wake times.  Counts are modulo Modulus, where the code has  *)
(* 2^32.                                                                   *)
(*                                                                         *)
(* A section with the scheduler suspended is one step of the modules that  *)
(* use these operators: the ticks that come in the meantime are counted in *)
(* uxPendedTicks and made at its end by xTaskResumeAll, so that they are   *)
(* the ticks that follow the step.                                         *)
(***************************************************************************)
EXTENDS Integers, FiniteSets, FiniteSetsExt

CONSTANTS Task,
          Modulus,          \* one more than the largest tick count
          OverflowModulus   \* one more than the largest xNumOfOverflows

ASSUME TickAssumption ==
    /\ IsFiniteSet(Task)
    /\ Modulus \in Nat /\ Modulus > 1
    /\ OverflowModulus \in Nat /\ OverflowModulus > 1

VARIABLES
    xTickCount,
    xNumOfOverflows,
    xNextTaskUnblockTime,
    stateList,   \* the list of each task's xStateListItem
    wakeTime,    \* the item's value; 0 outside the delayed lists
    eventList    \* is the task's xEventListItem in an event list

tickVars == <<xTickCount, xNumOfOverflows, xNextTaskUnblockTime>>
listVars == <<stateList, wakeTime, eventList>>

Ready == "pxReadyTasksLists"
Delayed == "pxDelayedTaskList"
Overflow == "pxOverflowDelayedTaskList"
Suspended == "xSuspendedTaskList"
Termination == "xTasksWaitingTermination"
Nowhere == "NULL"

Time == 0 .. Modulus - 1
portMAX_DELAY == Modulus - 1

(* Bug: a sum of times does not wrap.                                      *)
PlusUnwrapped(a, b) == a + b

Plus(a, b) == (a + b) % Modulus
Minus(a, b) == (a - b) % Modulus

In(list) == {t \in Task : stateList[t] = list}
Asleep(t) == stateList[t] \in {Delayed, Overflow}

TickInit ==
    /\ xTickCount = 0
    /\ xNumOfOverflows = 0
    /\ xNextTaskUnblockTime = portMAX_DELAY

-----------------------------------------------------------------------------

(* The wake time at the head of a list of tasks.                           *)
HeadTime(S) == IF S = {} THEN portMAX_DELAY ELSE Min({wakeTime[t] : t \in S})

(* The head of the list as the step that makes the call leaves it.         *)
prvResetNextTaskUnblockTime == xNextTaskUnblockTime' = HeadTime(In(Delayed))'

(* prvAddCurrentTaskToDelayedList                                          *)
prvAddCurrentTaskToDelayedList(t, xTicksToWait, xCanBlockIndefinitely) ==
    IF xTicksToWait = portMAX_DELAY /\ xCanBlockIndefinitely
      THEN /\ stateList' = [stateList EXCEPT ![t] = Suspended]
           /\ UNCHANGED <<wakeTime, xNextTaskUnblockTime>>
      ELSE LET xTimeToWake == Plus(xTickCount, xTicksToWait)
               overflowed == xTimeToWake < xTickCount
           IN /\ stateList' = [stateList EXCEPT ![t] = IF overflowed THEN Overflow ELSE Delayed]
              /\ wakeTime' = [wakeTime EXCEPT ![t] = xTimeToWake]
              /\ xNextTaskUnblockTime' =
                    IF ~overflowed /\ xTimeToWake < xNextTaskUnblockTime
                      THEN xTimeToWake ELSE xNextTaskUnblockTime

(* Removal from whatever list the state item is in, and from an event list,*)
(* to be put into another list.                                            *)
MoveTo(t, list) ==
    /\ stateList' = [stateList EXCEPT ![t] = list]
    /\ wakeTime' = [wakeTime EXCEPT ![t] = 0]
    /\ eventList' = [eventList EXCEPT ![t] = FALSE]

-----------------------------------------------------------------------------
(* xTaskIncrementTick *)

NextTick == Plus(xTickCount, 1)
Switches == NextTick = 0

(* Bug: the lists change places and xNextTaskUnblockTime stays.            *)
UnblockTimeUnreset == xNextTaskUnblockTime

(* The list the tick looks at, and xNextTaskUnblockTime as it finds it:    *)
(* taskSWITCH_DELAYED_LISTS has come first if the count overflows.         *)
CurrentList == IF Switches THEN In(Overflow) ELSE In(Delayed)
UnblockTime == IF Switches THEN HeadTime(In(Overflow)) ELSE xNextTaskUnblockTime

(* The tasks the next tick wakes.                                          *)
WokenByTick == IF NextTick >= UnblockTime
                 THEN {t \in CurrentList : wakeTime[t] <= NextTick} ELSE {}

xTaskIncrementTick ==
    /\ xTickCount' = NextTick
    /\ xNumOfOverflows' = IF Switches THEN (xNumOfOverflows + 1) % OverflowModulus
                                      ELSE xNumOfOverflows
    /\ stateList' = [t \in Task |->
          IF t \in WokenByTick THEN Ready
          ELSE IF Switches /\ stateList[t] = Delayed THEN Overflow
          ELSE IF Switches /\ stateList[t] = Overflow THEN Delayed
          ELSE stateList[t]]
    /\ wakeTime' = [t \in Task |-> IF t \in WokenByTick THEN 0 ELSE wakeTime[t]]
    /\ eventList' = [t \in Task |-> eventList[t] /\ t \notin WokenByTick]
    /\ xNextTaskUnblockTime' = IF NextTick >= UnblockTime
                                 THEN HeadTime(CurrentList \ WokenByTick) ELSE UnblockTime

-----------------------------------------------------------------------------
(* Time-outs and periodic wake times *)

(* A TimeOut_t.                                                            *)
TimeOut(overflows, entered) == [xOverflowCount |-> overflows, xTimeOnEntering |-> entered]
vTaskInternalSetTimeOutState == TimeOut(xNumOfOverflows, xTickCount)

(* The answer of xTaskCheckForTimeOut; if it is no, what is left of the    *)
(* wait is counted from now.                                               *)
TimedOut(timeOut, xTicksToWait) ==
    /\ xTicksToWait # portMAX_DELAY
    /\ \/ /\ xNumOfOverflows # timeOut.xOverflowCount
          /\ xTickCount >= timeOut.xTimeOnEntering
       \/ Minus(xTickCount, timeOut.xTimeOnEntering) >= xTicksToWait

TicksLeft(timeOut, xTicksToWait) ==
    IF xTicksToWait = portMAX_DELAY THEN portMAX_DELAY
    ELSE xTicksToWait - Minus(xTickCount, timeOut.xTimeOnEntering)

(* xShouldDelay of vTaskDelayUntil, for the wake time that follows         *)
(* previous by increment.                                                  *)
ShouldDelay(previous, increment) ==
    LET xTimeToWake == Plus(previous, increment)
    IN IF xTickCount < previous
         THEN xTimeToWake < previous /\ xTimeToWake > xTickCount
         ELSE xTimeToWake < previous \/ xTimeToWake > xTickCount

=============================================================================
