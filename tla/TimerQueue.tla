----------------------------- MODULE TimerQueue -----------------------------
(***************************************************************************)
(* xTimerQueue, the bounded queue through which tasks and interrupts hand  *)
(* work to the timer service task (timers.c): timer commands, and          *)
(* functions to be called in that task's context.  Queue.tla models the    *)
(* queue itself; here a send or a receive is the one step in which its     *)
(* critical section takes effect.                                          *)
(***************************************************************************)
EXTENDS Naturals, Sequences

CONSTANT QueueLength  \* configTIMER_QUEUE_LENGTH

ASSUME QueueLengthAssumption == QueueLength \in Nat \ {0}

VARIABLE xTimerQueue  \* the commands not yet received, oldest first

(* Bug: the last place in the queue is never used.                         *)
AcceptedButLast == Len(xTimerQueue) + 1 < QueueLength

(* The result of a send that does not wait, pdPASS or pdFAIL.              *)
Accepted == Len(xTimerQueue) < QueueLength

(* Bug: a full queue loses its oldest command to the new one.              *)
SendOverwriting(command) ==
    xTimerQueue' = Append(IF Accepted THEN xTimerQueue ELSE Tail(xTimerQueue), command)

(* Bug: the caller does not look whether there is room.                    *)
SendUnchecked(command) == xTimerQueue' = Append(xTimerQueue, command)

(* xTimerGenericCommand and xTimerPendFunctionCallFromISR: a command that  *)
(* finds the queue full is dropped, and the caller is told.                *)
SendCommand(command) ==
    xTimerQueue' = IF Accepted THEN Append(xTimerQueue, command) ELSE xTimerQueue

(* xQueueReceive without waiting, by the timer service task.               *)
ReceiveCommand ==
    /\ xTimerQueue # <<>>
    /\ xTimerQueue' = Tail(xTimerQueue)

=============================================================================
