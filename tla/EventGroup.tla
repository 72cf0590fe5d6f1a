----------------------------- MODULE EventGroup -----------------------------
(***************************************************************************)
(* event_groups.c: tasks that wait for bits, with a condition each, a set  *)
(* that releases all it satisfies, the rendezvous xEventGroupSync, and the *)
(* set and clear that an interrupt defers to the timer service task.       *)
(*                                                                         *)
(* No interrupt handler touches an event group, so what runs between       *)
(* vTaskSuspendAll and xTaskResumeAll is one step, and so is a critical    *)
(* section.  Between these any task may run that is not blocked: scheduling*)
(* is left open, which admits more than fixed priorities do.               *)
(*                                                                         *)
(* A call is a record: op, the bits waited for, the bits a "sync" sets     *)
(* first, all (xWaitForAllBits), clear (xClearOnExit) and ticks, which is  *)
(* "none", "finite" or "forever" (portMAX_DELAY).                          *)
(***************************************************************************)
EXTENDS TimerQueue, FiniteSets

CONSTANTS Task,   \* the tasks that use the group, the timer task apart
          Bit,    \* the bits of the group
          Calls,  \* the waiting calls each task may make
          Sets,   \* the bits that tasks and interrupts set ...
          Clears, \* ... and clear
          NULL    \* no call, no value

ASSUME CallsAssumption ==
    /\ Calls \in [Task -> SUBSET [op : {"wait", "sync"}, bits : SUBSET Bit,
                                  set : SUBSET Bit, all : BOOLEAN, clear : BOOLEAN,
                                  ticks : {"none", "finite", "forever"}]]
    \* xEventGroupSync always waits for all its bits and clears them.
    /\ \A t \in Task : \A c \in Calls[t] : c.op = "sync" => c.all /\ c.clear

ASSUME BitsAssumption == Sets \subseteq SUBSET Bit /\ Clears \subseteq SUBSET Bit

ASSUME NullAssumption ==
    /\ \A t \in Task : NULL \notin Calls[t]
    /\ \A bits \in SUBSET Bit : NULL # bits

VARIABLES
    exists,               \* between create and delete
    uxEventBits,          \* the bits that are set
    xTasksWaitingForBits, \* the list of waiting tasks, as a set
    call,                 \* the call a task is blocked in, or NULL
    wokenWith,            \* its item value with eventUNBLOCKED_DUE_TO_BIT_SET
    running,              \* the command the timer task executes, or NULL
    arrived               \* history: arrivals of each party since all arrived

groupVars == <<exists, uxEventBits, xTasksWaitingForBits, call, wokenWith>>
vars == <<xTimerQueue, groupVars, running, arrived>>

(* Bug: a call that waits for all its bits is satisfied by one of them.    *)
AnyBitWillDo(c, bits) == c.bits \cap bits # {}

(* prvTestWaitCondition; a rendezvous waits for all and clears.            *)
WaitCondition(c, bits) ==
    IF c.all THEN c.bits \subseteq bits ELSE c.bits \cap bits # {}

ClearedOnExit(c, bits) ==
    IF c.clear /\ WaitCondition(c, bits) THEN c.bits ELSE {}

Init ==
    /\ exists = TRUE
    /\ uxEventBits = {}
    /\ xTasksWaitingForBits = {}
    /\ call = [t \in Task |-> NULL]
    /\ wokenWith = [t \in Task |-> NULL]
    /\ xTimerQueue = <<>>
    /\ running = NULL
    /\ arrived = [t \in Task |-> 0]

-----------------------------------------------------------------------------
(* xEventGroupSetBits *)

(* The tasks the walk over the list finds satisfied, and the bits they     *)
(* asked to be cleared.                                                    *)
(* Bug: the walk stops at the first match.                                 *)
FirstSatisfied(bits) ==
    LET matches == {t \in xTasksWaitingForBits : WaitCondition(call[t], bits)}
    IN  IF matches = {} THEN {} ELSE {CHOOSE t \in matches : TRUE}

Satisfied(bits) == {t \in xTasksWaitingForBits : WaitCondition(call[t], bits)}

uxBitsToClear(bits) ==
    UNION {ClearedOnExit(call[t], bits) : t \in Satisfied(bits)}

(* Bug: the conditions are tested before the bits are set.                 *)
ReleasedTooEarly(bits) == Satisfied(uxEventBits)

Released(bits) == Satisfied(uxEventBits \cup bits)

(* The walk: everyone satisfied leaves the list with the bits of this      *)
(* moment, and only then are the bits cleared, the caller's own besides.   *)
(* Joining is the caller, if it now waits itself.                          *)
SetAndRelease(bits, own, Joining) ==
    LET all == uxEventBits \cup bits IN
    /\ xTasksWaitingForBits' = (xTasksWaitingForBits \ Released(bits)) \cup Joining
    /\ wokenWith' = [t \in Task |-> IF t \in Released(bits) THEN all ELSE wokenWith[t]]
    /\ uxEventBits' = all \ (uxBitsToClear(all) \cup own)

xEventGroupSetBits(bits) ==
    /\ exists
    /\ SetAndRelease(bits, {}, {})
    /\ UNCHANGED <<exists, call>>

xEventGroupClearBits(bits) ==
    /\ exists
    /\ uxEventBits' = uxEventBits \ bits
    /\ UNCHANGED <<exists, xTasksWaitingForBits, call, wokenWith>>

-----------------------------------------------------------------------------
(* xEventGroupWaitBits and xEventGroupSync *)

(* The call returns at once: satisfied, or not allowed to wait.            *)
xEventGroupWaitBits(t, c) ==
    /\ exists
    /\ call[t] = NULL
    /\ IF WaitCondition(c, uxEventBits) \/ c.ticks = "none"
         THEN /\ uxEventBits' = uxEventBits \ ClearedOnExit(c, uxEventBits)
              /\ UNCHANGED <<xTasksWaitingForBits, call>>
         ELSE /\ xTasksWaitingForBits' = xTasksWaitingForBits \cup {t}
              /\ call' = [call EXCEPT ![t] = c]
              /\ UNCHANGED uxEventBits
    /\ UNCHANGED <<exists, wokenWith>>

(* Have all arrived, counting the caller?  Then it clears for itself.      *)
SyncCompletes(c) == c.bits \subseteq uxEventBits \cup c.set

OwnBits(c) == IF SyncCompletes(c) THEN c.bits ELSE {}

(* The caller's bits are set, and whom they satisfy is released, before it *)
(* waits itself.                                                           *)
xEventGroupSync(t, c) ==
    LET waits == ~SyncCompletes(c) /\ c.ticks # "none" IN
    /\ exists
    /\ call[t] = NULL
    /\ SetAndRelease(c.set, OwnBits(c), IF waits THEN {t} ELSE {})
    /\ call' = IF waits THEN [call EXCEPT ![t] = c] ELSE call
    /\ UNCHANGED exists

(* The tick takes a task whose time is up from the list, and leaves its    *)
(* item value as it was.                                                   *)
TimeOut(t) ==
    /\ t \in xTasksWaitingForBits
    /\ call[t].ticks = "finite"
    /\ xTasksWaitingForBits' = xTasksWaitingForBits \ {t}
    /\ UNCHANGED <<exists, uxEventBits, call, wokenWith>>

(* The task runs again, woken by a set: uxTaskResetEventItemValue has      *)
(* eventUNBLOCKED_DUE_TO_BIT_SET.                                          *)
ReturnWoken(t) ==
    /\ wokenWith[t] # NULL
    /\ call' = [call EXCEPT ![t] = NULL]
    /\ wokenWith' = [wokenWith EXCEPT ![t] = NULL]
    /\ UNCHANGED <<exists, uxEventBits, xTasksWaitingForBits>>

(* The task runs again after its time: the bits may have been set since.   *)
TimedOut(t) ==
    /\ call[t] # NULL
    /\ t \notin xTasksWaitingForBits
    /\ wokenWith[t] = NULL

ReturnTimedOut(t) ==
    /\ TimedOut(t)
    /\ uxEventBits' = uxEventBits \ ClearedOnExit(call[t], uxEventBits)
    /\ call' = [call EXCEPT ![t] = NULL]
    /\ UNCHANGED <<exists, xTasksWaitingForBits, wokenWith>>

-----------------------------------------------------------------------------
(* The group's own life.  Every waiter is woken with no bits.  The memory  *)
(* is freed, so the application must see to it that no command for the     *)
(* group is on its way and no caller whose time was up has yet to look.    *)
vEventGroupDelete ==
    /\ exists
    /\ \A t \in Task : ~TimedOut(t)
    /\ xTimerQueue = <<>>
    /\ running = NULL
    /\ exists' = FALSE
    /\ xTasksWaitingForBits' = {}
    /\ wokenWith' = [t \in Task |-> IF t \in xTasksWaitingForBits THEN {} ELSE wokenWith[t]]
    /\ UNCHANGED <<uxEventBits, call>>

xEventGroupCreate ==
    /\ ~exists
    /\ exists' = TRUE
    /\ uxEventBits' = {}
    /\ UNCHANGED <<xTasksWaitingForBits, call, wokenWith>>

-----------------------------------------------------------------------------
(* Deferred by an interrupt to the timer service task *)

xEventGroupSetBitsFromISR(bits) == SendCommand([op |-> "set", bits |-> bits])

xEventGroupClearBitsFromISR(bits) == SendCommand([op |-> "clear", bits |-> bits])

(* The timer task takes the next command, and calls what it finds there.   *)
TakeCommand ==
    /\ running = NULL
    /\ ReceiveCommand
    /\ running' = Head(xTimerQueue)

Callback ==
    /\ running # NULL
    /\ CASE running.op = "set" -> xEventGroupSetBits(running.bits)
         [] running.op = "clear" -> xEventGroupClearBits(running.bits)
    /\ running' = NULL

-----------------------------------------------------------------------------
(* The parties of the rendezvous, and the arrivals of each that not all    *)
(* the others have answered yet.                                           *)
Party == {t \in Task : \E c \in Calls[t] : c.op = "sync" /\ c.ticks = "forever"}

Arrive(t) ==
    arrived' = IF t \in Party /\ \A p \in Party \ {t} : arrived[p] > arrived[t]
                 THEN [p \in Task |-> IF p \in Party \ {t} THEN arrived[p] - 1 ELSE arrived[p]]
                 ELSE IF t \in Party THEN [arrived EXCEPT ![t] = @ + 1] ELSE arrived

TaskCall(t) ==
    \E c \in Calls[t] :
       \/ c.op = "wait" /\ xEventGroupWaitBits(t, c) /\ UNCHANGED arrived
       \/ c.op = "sync" /\ xEventGroupSync(t, c) /\ Arrive(t)

TaskSets == \E bits \in Sets : xEventGroupSetBits(bits)
TaskClears == \E bits \in Clears : xEventGroupClearBits(bits)

Interrupt ==
    /\ exists
    /\ \/ \E bits \in Sets : xEventGroupSetBitsFromISR(bits)
       \/ \E bits \in Clears : xEventGroupClearBitsFromISR(bits)

Life == vEventGroupDelete \/ xEventGroupCreate

Next ==
    \/ \E t \in Task : TaskCall(t) /\ UNCHANGED <<xTimerQueue, running>>
    \/ \E t \in Task : TimeOut(t) /\ UNCHANGED <<xTimerQueue, running, arrived>>
    \/ \E t \in Task : ReturnWoken(t) /\ UNCHANGED <<xTimerQueue, running, arrived>>
    \/ \E t \in Task : ReturnTimedOut(t) /\ UNCHANGED <<xTimerQueue, running, arrived>>
    \/ (TaskSets \/ TaskClears) /\ UNCHANGED <<xTimerQueue, running, arrived>>
    \/ Life /\ arrived' = [t \in Task |-> 0] /\ UNCHANGED <<xTimerQueue, running>>
    \/ Interrupt /\ UNCHANGED <<groupVars, running, arrived>>
    \/ TakeCommand /\ UNCHANGED <<groupVars, arrived>>
    \/ Callback /\ UNCHANGED <<xTimerQueue, arrived>>

(* The timer task has the highest priority and blocks nowhere else, so a   *)
(* command that waits is taken and carried out.                            *)
Fairness ==
    /\ WF_vars(TakeCommand /\ UNCHANGED <<groupVars, arrived>>)
    /\ WF_vars(Callback /\ UNCHANGED <<xTimerQueue, arrived>>)

Spec == Init /\ [][Next]_vars
FairSpec == Spec /\ Fairness

-----------------------------------------------------------------------------
(* Properties *)

(* The type invariant: only a task that is in the list, was released by a  *)
(* set or ran out of time is inside a call, and the queue keeps its bound. *)
TypeOK ==
    /\ exists \in BOOLEAN
    /\ uxEventBits \subseteq Bit
    /\ xTasksWaitingForBits \subseteq {t \in Task : call[t] # NULL /\ wokenWith[t] = NULL}
    /\ \A t \in Task : /\ call[t] # NULL => call[t] \in Calls[t] /\ call[t].ticks # "none"
                       /\ wokenWith[t] # NULL => call[t] # NULL /\ wokenWith[t] \subseteq Bit
    /\ Len(xTimerQueue) <= QueueLength
    /\ arrived \in [Task -> Nat]

(* No set is missed: while a task is in the list, the bits of the group do *)
(* not meet its condition, whoever set them, from wherever, and whatever   *)
(* the others in the list took with them.                                  *)
NoMissedBits ==
    \A t \in xTasksWaitingForBits : ~WaitCondition(call[t], uxEventBits)

(* How a rendezvous is meant to be used (the example of xEventGroupSync in *)
(* event_groups.h): every party has bits of its own, all wait for the bits *)
(* of all, and nobody else sets these bits, clears them or consumes them.  *)
MeetingUse(own) ==
    LET Meeting == UNION {own[p] : p \in Party} IN
    /\ \A p \in Party : own[p] # {}
    /\ \A p, q \in Party : p # q => own[p] \cap own[q] = {}
    /\ \A t \in Task : \A c \in Calls[t] :
          IF t \in Party /\ c.op = "sync"
            THEN c.bits = Meeting /\ c.set = own[t] /\ c.ticks = "forever"
            ELSE /\ c.op = "sync" => c.set \cap Meeting = {}
                 /\ c.clear => c.bits \cap Meeting = {}
    /\ \A bits \in Sets \cup Clears : bits \cap Meeting = {}

RendezvousUse == \E own \in [Party -> SUBSET Bit] : MeetingUse(own)

(* A rendezvous: a party that has arrived more often than another waits in *)
(* its call; nobody leaves xEventGroupSync before all have come, round     *)
(* after round, although some are released before others have left.        *)
Rendezvous ==
    \A t \in Party : arrived[t] > 0 => t \in xTasksWaitingForBits /\ arrived[t] = 1

(* The group does what EventFlags promises: each call takes effect once,   *)
(* at one instant, a set reaches every call without time limit.            *)
Flags == INSTANCE EventFlags WITH
    flags <- uxEventBits, pending <- call, result <- wokenWith
FlagsSpec == Flags!Spec

(* A set that an interrupt has handed to the timer task releases, in the   *)
(* end, every task that waits for one of its bits without time limit,      *)
(* although clears are queued beside it and others consume the bits.       *)
DeferredSetReleases ==
    \A t \in Task :
       (\E i \in DOMAIN xTimerQueue :
          /\ xTimerQueue[i].op = "set"
          /\ t \in xTasksWaitingForBits
          /\ call[t].ticks = "forever" /\ ~call[t].all
          /\ call[t].bits \cap xTimerQueue[i].bits # {})
       ~> t \notin xTasksWaitingForBits

=============================================================================
