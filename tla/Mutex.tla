------------------------------- MODULE Mutex -------------------------------
(***************************************************************************)
(* FreeRTOS mutexes (queue.c) and the priority inheritance that tasks.c    *)
(* does for them: tasks take several mutexes, with a time-out or without,  *)
(* sleep while they hold them, and give them back in any order.            *)
(*                                                                         *)
(* No interrupt handler uses a mutex, so the section a blocking take runs  *)
(* with the scheduler suspended (queue.c:1536-1590) is one step here: all  *)
(* that can come in between is a tick, which is counted and replayed at    *)
(* its end.  Module Queue has that section interrupted at every point.     *)
(* PendSV switches at once when a step asks for it.                        *)
(***************************************************************************)
EXTENDS Integers, Sequences, FiniteSets

CONSTANTS Task, Idle,
          Mutexes,
          Recursive,        \* those used with the recursive calls
          uxBasePriority,   \* of each task; vTaskPrioritySet is not called
          Usages,           \* the sets of mutexes that the tasks may take
          Waits,            \* the xTicksToWait the calls are made with
          MaxDepth,         \* bound: takes of a recursive mutex by its holder
          None              \* no task, no mutex; the system has stopped

ASSUME MutexAssumption ==
    /\ IsFiniteSet(Task) /\ Idle \in Task
    /\ None \notin Task \cup Mutexes
    /\ Recursive \subseteq Mutexes
    /\ uxBasePriority \in [Task -> Nat]
    /\ uxBasePriority[Idle] = 0
    /\ Usages \subseteq [Task -> SUBSET Mutexes]
    /\ \A U \in Usages : U[Idle] = {}
    /\ Waits \subseteq {"none", "finite", "forever"}
    /\ MaxDepth \in Nat \ {0}

VARIABLES
    Uses,                   \* the mutexes each task takes, fixed by the application
    pxCurrentTCB,           \* None once a configASSERT has failed
    uxPriority,             \* the priority each task runs at
    uxTopReadyPriority,     \* the priorities whose bit is set
    uxMutexesHeld,
    xMutexHolder,           \* of each mutex; it is available if None
    uxRecursiveCallCount,
    waiting,                \* xTasksWaitingToReceive of each mutex
    pc, mutex, wait,        \* where each task is, in the take of which mutex
    xTimeOut,               \* "unset", "running", "expired" (not yet noticed),
                            \*   "passed" (xTicksToWait is 0)
    xInheritanceOccurred

vars == <<Uses, pxCurrentTCB, uxPriority, uxTopReadyPriority, uxMutexesHeld, xMutexHolder,
          uxRecursiveCallCount, waiting, pc, mutex, wait, xTimeOut, xInheritanceOccurred>>

Ready(t) == pc[t] \notin {"blocked", "asleep"}

HighestPriorityReady ==
    {t \in Task : Ready(t) /\ \A u \in Task : Ready(u) => uxPriority[u] <= uxPriority[t]}

(* The ready lists that are not empty.                                     *)
ReadyPriorities == {uxPriority[t] : t \in {u \in Task : Ready(u)}}

(* prvAddTaskToReadyList sets the bit of the list a task enters, and       *)
(* taskRESET_READY_PRIORITY resets that of the list the last task leaves.  *)
ReadyBits == (uxTopReadyPriority \ ReadyPriorities) \cup ReadyPriorities'

(* taskSELECT_HIGHEST_PRIORITY_TASK takes a task from the list of the      *)
(* highest bit; where that list is empty its configASSERT stops the system.*)
taskSELECT_HIGHEST_PRIORITY_TASK ==
    LET list == {t \in Task : /\ Ready(t) /\ uxPriority[t] \in uxTopReadyPriority
                              /\ \A p \in uxTopReadyPriority : p <= uxPriority[t]}
    IN  IF list = {} THEN {None} ELSE list

(* The end of a step: the switch happens if the step asked for it.         *)
YieldIf(required) ==
    /\ uxTopReadyPriority' = ReadyBits
    /\ IF required THEN pxCurrentTCB' \in taskSELECT_HIGHEST_PRIORITY_TASK'
                   ELSE UNCHANGED pxCurrentTCB

Init ==
    /\ Uses \in Usages
    /\ pc = [t \in Task |-> "app"]
    /\ uxPriority = uxBasePriority
    /\ uxTopReadyPriority = ReadyPriorities
    /\ pxCurrentTCB \in HighestPriorityReady
    /\ uxMutexesHeld = [t \in Task |-> 0]
    /\ xMutexHolder = [m \in Mutexes |-> None]
    /\ uxRecursiveCallCount = [m \in Mutexes |-> 0]
    /\ waiting = [m \in Mutexes |-> <<>>]
    /\ mutex = [t \in Task |-> None]
    /\ wait = [t \in Task |-> "none"]
    /\ xTimeOut = [t \in Task |-> "unset"]
    /\ xInheritanceOccurred = [t \in Task |-> FALSE]

Goto(t, where) == pc' = [pc EXCEPT ![t] = where]

Return(t) ==
    /\ Goto(t, "app")
    /\ mutex' = [mutex EXCEPT ![t] = None]
    /\ wait' = [wait EXCEPT ![t] = "none"]
    /\ xTimeOut' = [xTimeOut EXCEPT ![t] = "unset"]
    /\ xInheritanceOccurred' = [xInheritanceOccurred EXCEPT ![t] = FALSE]

(***************************************************************************)
(* The event list: its items carry configMAX_PRIORITIES less the priority  *)
(* of their task and are inserted before the first that carries more.      *)
(***************************************************************************)

vListInsert(list, t) ==
    LET later == {i \in DOMAIN list : uxPriority[list[i]] < uxPriority[t]}
        at == IF later = {} THEN Len(list) + 1
                            ELSE CHOOSE i \in later : \A j \in later : i <= j
    IN  SubSeq(list, 1, at - 1) \o <<t>> \o SubSeq(list, at, Len(list))

(* uxListRemove for the tasks of E: the others stay, in their order.  The  *)
(* k-th of them is the one behind k - 1 others that stay.                  *)
Without(list, E) ==
    LET stay == {i \in DOMAIN list : list[i] \notin E}
    IN  [k \in 1 .. Cardinality(stay) |->
            list[CHOOSE i \in stay : Cardinality({j \in stay : j < i}) = k - 1]]

(***************************************************************************)
(* Priority inheritance.                                                   *)
(***************************************************************************)

Higher(p, q) == IF p > q THEN p ELSE q

(* The priorities after task t has blocked on a mutex that h holds, and    *)
(* whether xTaskPriorityInherit says that h has inherited.                 *)
Inherited(h, t) == [uxPriority EXCEPT ![h] = Higher(@, uxPriority[t])]

(* Bug: nothing to take back from a holder that had inherited before.      *)
InheritsOnlyRaise(h, t) == uxPriority[h] < uxPriority[t]

Inherits(h, t) ==
    uxPriority[h] < uxPriority[t] \/ uxBasePriority[h] < uxPriority[t]

(* xTaskPriorityDisinherit: the last mutex that t gives takes it back to   *)
(* its base priority, and then a context switch is asked for.              *)
DropsPriority(t) == uxPriority[t] # uxBasePriority[t] /\ uxMutexesHeld[t] = 1

(* Bug: the priority is kept.                                              *)
DisinheritedNever(t) == uxPriority

Disinherited(t) ==
    IF DropsPriority(t) THEN [uxPriority EXCEPT ![t] = uxBasePriority[t]] ELSE uxPriority

(* vTaskPriorityDisinheritAfterTimeout, with the priority of the task at   *)
(* the head of the list (prvGetDisinheritPriorityAfterTimeout): only a     *)
(* holder of one mutex is brought back.                                    *)
HighestWaiting(m) == IF waiting[m] = <<>> THEN 0 ELSE uxPriority[Head(waiting[m])]

(* Bug: the tasks that go on waiting for the mutex are forgotten.          *)
DisinheritedToBase(m) ==
    LET h == xMutexHolder[m]
    IN  IF h # None /\ uxMutexesHeld[h] = 1
          THEN [uxPriority EXCEPT ![h] = uxBasePriority[h]] ELSE uxPriority

DisinheritedAfterTimeout(m) ==
    LET h == xMutexHolder[m]
    IN  IF h # None /\ uxMutexesHeld[h] = 1
          THEN [uxPriority EXCEPT ![h] = Higher(uxBasePriority[h], HighestWaiting(m))]
          ELSE uxPriority

(***************************************************************************)
(* Taking a mutex.                                                         *)
(***************************************************************************)

(* The application calls xSemaphoreTake; a task does not take a mutex that *)
(* it holds, unless it is a recursive one.                                 *)
Begin(t) ==
    /\ pxCurrentTCB = t /\ pc[t] = "app"
    /\ \E m \in Uses[t], w \in Waits :
          /\ xMutexHolder[m] # t
          /\ mutex' = [mutex EXCEPT ![t] = m]
          /\ wait' = [wait EXCEPT ![t] = w]
    /\ Goto(t, "try")
    /\ UNCHANGED <<Uses, pxCurrentTCB, uxPriority, uxTopReadyPriority, uxMutexesHeld,
                   xMutexHolder, uxRecursiveCallCount, waiting, xTimeOut,
                   xInheritanceOccurred>>

(* xQueueTakeMutexRecursive by the holder.                                 *)
TakeAgain(t) ==
    /\ pxCurrentTCB = t /\ pc[t] = "app"
    /\ \E m \in Recursive :
          /\ xMutexHolder[m] = t
          /\ uxRecursiveCallCount[m] < MaxDepth
          /\ uxRecursiveCallCount' = [uxRecursiveCallCount EXCEPT ![m] = @ + 1]
    /\ UNCHANGED <<Uses, pxCurrentTCB, uxPriority, uxTopReadyPriority, uxMutexesHeld,
                   xMutexHolder, waiting, pc, mutex, wait, xTimeOut, xInheritanceOccurred>>

(* Bug: only the takes of a holder are counted.                            *)
FirstTakeUncounted(m) == 0

(* The call of the recursive kind counts the take that obtains the mutex.  *)
FirstTake(m) == IF m \in Recursive THEN 1 ELSE 0

(* The critical section at the head of the loop: the mutex is taken, or    *)
(* the time is up (and the configASSERT at queue.c:1507 stops the system   *)
(* if inheritance has occurred), or the task goes on to block.             *)
GivesUp(t) == wait[t] = "none" \/ xTimeOut[t] = "passed"

xQueueSemaphoreTake(t) ==
    /\ pxCurrentTCB = t /\ pc[t] = "try"
    /\ \/ /\ xMutexHolder[mutex[t]] = None
          /\ xMutexHolder' = [xMutexHolder EXCEPT ![mutex[t]] = t]
          /\ uxMutexesHeld' = [uxMutexesHeld EXCEPT ![t] = @ + 1]
          /\ uxRecursiveCallCount' = [uxRecursiveCallCount EXCEPT ![mutex[t]] =
                                         @ + FirstTake(mutex[t])]
          /\ Return(t)
          /\ UNCHANGED pxCurrentTCB
       \/ /\ xMutexHolder[mutex[t]] # None /\ GivesUp(t) /\ ~xInheritanceOccurred[t]
          /\ Return(t)
          /\ UNCHANGED <<pxCurrentTCB, xMutexHolder, uxMutexesHeld, uxRecursiveCallCount>>
       \/ /\ xMutexHolder[mutex[t]] # None /\ GivesUp(t) /\ xInheritanceOccurred[t]
          /\ pxCurrentTCB' = None
          /\ UNCHANGED <<xMutexHolder, uxMutexesHeld, uxRecursiveCallCount, pc, mutex, wait,
                         xTimeOut, xInheritanceOccurred>>
       \/ /\ xMutexHolder[mutex[t]] # None /\ ~GivesUp(t)
          /\ xTimeOut' = [xTimeOut EXCEPT ![t] = IF @ = "unset" THEN "running" ELSE @]
          /\ Goto(t, "block")
          /\ UNCHANGED <<pxCurrentTCB, xMutexHolder, uxMutexesHeld, uxRecursiveCallCount,
                         mutex, wait, xInheritanceOccurred>>
    /\ UNCHANGED <<Uses, uxPriority, uxTopReadyPriority, waiting>>

(* With the scheduler suspended: the time is up, or the mutex has become   *)
(* available, or its holder inherits and the task blocks.                  *)
Block(t) ==
    /\ pxCurrentTCB = t /\ pc[t] = "block"
    /\ LET m == mutex[t]
           h == xMutexHolder[m]
       IN  \/ /\ xTimeOut[t] = "expired"
              /\ xTimeOut' = [xTimeOut EXCEPT ![t] = "passed"]
              /\ Goto(t, "recheck")
              /\ UNCHANGED <<pxCurrentTCB, uxPriority, uxTopReadyPriority, waiting,
                             xInheritanceOccurred>>
           \/ /\ xTimeOut[t] = "running" /\ h = None
              /\ Goto(t, "try")
              /\ UNCHANGED <<pxCurrentTCB, uxPriority, uxTopReadyPriority, waiting, xTimeOut,
                             xInheritanceOccurred>>
           \/ /\ xTimeOut[t] = "running" /\ h # None
              /\ uxPriority' = Inherited(h, t)
              /\ xInheritanceOccurred' = [xInheritanceOccurred EXCEPT ![t] = Inherits(h, t)]
              /\ waiting' = [waiting EXCEPT ![m] = vListInsert(@, t)]
              /\ Goto(t, "blocked")
              /\ YieldIf(TRUE)
              /\ UNCHANGED xTimeOut
    /\ UNCHANGED <<Uses, uxMutexesHeld, xMutexHolder, uxRecursiveCallCount, mutex, wait>>

(* The time is up: prvIsQueueEmpty, after the scheduler was resumed.       *)
Recheck(t) ==
    /\ pxCurrentTCB = t /\ pc[t] = "recheck"
    /\ IF xMutexHolder[mutex[t]] # None /\ ~xInheritanceOccurred[t]
         THEN Return(t)
         ELSE /\ Goto(t, IF xMutexHolder[mutex[t]] = None THEN "try" ELSE "settle")
              /\ UNCHANGED <<mutex, wait, xTimeOut, xInheritanceOccurred>>
    /\ UNCHANGED <<Uses, pxCurrentTCB, uxPriority, uxTopReadyPriority, uxMutexesHeld,
                   xMutexHolder, uxRecursiveCallCount, waiting>>

(* The critical section that takes the lent priority back.  The bit that   *)
(* is reset when the holder leaves its ready list (tasks.c:4185) is that   *)
(* of its new priority, and is set again at once: the bit of the list it   *)
(* has left stays.                                                         *)
Settle(t) ==
    /\ pxCurrentTCB = t /\ pc[t] = "settle"
    /\ uxPriority' = DisinheritedAfterTimeout(mutex[t])
    /\ Return(t)
    /\ uxTopReadyPriority' = uxTopReadyPriority \cup ReadyPriorities'
    /\ UNCHANGED <<Uses, pxCurrentTCB, uxMutexesHeld, xMutexHolder, uxRecursiveCallCount,
                   waiting>>

(***************************************************************************)
(* Giving it back, and time.                                               *)
(***************************************************************************)

(* Bug: a giver whose priority drops yields, and wakes nobody.             *)
WakesUnlessDropping(t, m) == waiting[m] # <<>> /\ ~DropsPriority(t)

(* A task of the event list is woken, if there is one.                     *)
Wakes(t, m) == waiting[m] # <<>>

(* Does xQueueGenericSend yield: when it wakes a task of higher priority,  *)
(* or, if it wakes none, when the giver's priority has dropped.            *)
GiveYields(t, m) ==
    IF Wakes(t, m) THEN uxPriority[Head(waiting[m])] > Disinherited(t)[t]
                   ELSE DropsPriority(t)

(* xSemaphoreGive, and xSemaphoreGiveRecursive that unwinds to 0: the head *)
(* of the event list is woken.                                             *)
Give(t) ==
    /\ pxCurrentTCB = t /\ pc[t] = "app"
    /\ \E m \in Mutexes :
          /\ xMutexHolder[m] = t
          /\ m \in Recursive => uxRecursiveCallCount[m] = 1
          /\ xMutexHolder' = [xMutexHolder EXCEPT ![m] = None]
          /\ uxRecursiveCallCount' = [uxRecursiveCallCount EXCEPT ![m] = 0]
          /\ uxPriority' = Disinherited(t)
          /\ IF Wakes(t, m)
               THEN /\ waiting' = [waiting EXCEPT ![m] = Tail(@)]
                    /\ Goto(Head(waiting[m]), "try")
               ELSE UNCHANGED <<waiting, pc>>
          /\ YieldIf(GiveYields(t, m))
    /\ uxMutexesHeld' = [uxMutexesHeld EXCEPT ![t] = @ - 1]
    /\ UNCHANGED <<Uses, mutex, wait, xTimeOut, xInheritanceOccurred>>

(* xQueueGiveMutexRecursive that does not: any count but 1 is decremented. *)
GiveInner(t) ==
    /\ pxCurrentTCB = t /\ pc[t] = "app"
    /\ \E m \in Recursive :
          /\ xMutexHolder[m] = t
          /\ uxRecursiveCallCount[m] # 1
          /\ uxRecursiveCallCount' = [uxRecursiveCallCount EXCEPT ![m] = @ - 1]
    /\ UNCHANGED <<Uses, pxCurrentTCB, uxPriority, uxTopReadyPriority, uxMutexesHeld,
                   xMutexHolder, waiting, pc, mutex, wait, xTimeOut, xInheritanceOccurred>>

vTaskDelay(t) ==
    /\ pxCurrentTCB = t /\ pc[t] = "app" /\ t # Idle
    /\ Goto(t, "asleep")
    /\ UNCHANGED uxPriority
    /\ YieldIf(TRUE)
    /\ UNCHANGED <<Uses, uxMutexesHeld, xMutexHolder, uxRecursiveCallCount, waiting, mutex,
                   wait, xTimeOut, xInheritanceOccurred>>

(* xTaskIncrementTick: the times of the tasks of E are up.  A blocked one  *)
(* leaves the event list it waits in.                                      *)
Timed(t) == pc[t] = "asleep" \/ (wait[t] = "finite" /\ xTimeOut[t] = "running")

xTaskIncrementTick ==
    /\ pxCurrentTCB # None
    /\ \E E \in SUBSET {t \in Task : Timed(t)} :
          /\ E # {}
          /\ pc' = [t \in Task |-> IF t \in E /\ pc[t] = "asleep" THEN "app"
                                   ELSE IF t \in E /\ pc[t] = "blocked" THEN "try" ELSE pc[t]]
          /\ xTimeOut' = [t \in Task |-> IF t \in E /\ pc[t] # "asleep" THEN "expired"
                                         ELSE xTimeOut[t]]
          /\ waiting' = [m \in Mutexes |-> Without(waiting[m], E)]
          /\ UNCHANGED uxPriority
          /\ YieldIf(\E t \in E : ~Ready(t) /\ uxPriority[t] >= uxPriority[pxCurrentTCB])
          /\ UNCHANGED <<Uses, uxMutexesHeld, xMutexHolder, uxRecursiveCallCount, mutex, wait,
                         xInheritanceOccurred>>

Next ==
    \/ \E t \in Task :
          \/ Begin(t) \/ TakeAgain(t) \/ xQueueSemaphoreTake(t) \/ Block(t)
          \/ Recheck(t) \/ Settle(t) \/ Give(t) \/ GiveInner(t) \/ vTaskDelay(t)
    \/ xTaskIncrementTick

Spec == Init /\ [][Next]_vars

(***************************************************************************)
(* Properties.                                                             *)
(***************************************************************************)

Waiters(m) == {waiting[m][i] : i \in DOMAIN waiting[m]}

(* The variables have their types.  The call count of a recursive mutex    *)
(* does not underflow, which the code does not check because a held mutex  *)
(* is said to have been counted (queue.c:612).                             *)
TypeOK ==
    /\ Uses \in Usages
    /\ pxCurrentTCB \in Task \cup {None}
    /\ uxPriority \in [Task -> Nat]
    /\ uxTopReadyPriority \subseteq Nat
    /\ uxMutexesHeld \in [Task -> Nat]
    /\ xMutexHolder \in [Mutexes -> Task \cup {None}]
    /\ uxRecursiveCallCount \in [Mutexes -> 0 .. MaxDepth]
    /\ waiting \in [Mutexes -> Seq(Task)]
    /\ pc \in [Task -> {"app", "try", "block", "blocked", "recheck", "settle", "asleep"}]
    /\ mutex \in [Task -> Mutexes \cup {None}]
    /\ wait \in [Task -> {"none", "finite", "forever"}]
    /\ xTimeOut \in [Task -> {"unset", "running", "expired", "passed"}]
    /\ xInheritanceOccurred \in [Task -> BOOLEAN]

(* A task that holds no mutex runs at its base priority, and never below   *)
(* it: whatever was lent to it, by tasks that took the mutex, gave up or   *)
(* still wait, it has lost with the last mutex it gave.                    *)
PrioritySettled ==
    \A t \in Task :
        /\ uxMutexesHeld[t] = Cardinality({m \in Mutexes : xMutexHolder[m] = t})
        /\ uxMutexesHeld[t] = 0 => uxPriority[t] = uxBasePriority[t]
        /\ uxPriority[t] >= uxBasePriority[t]

(* The application has each task use one mutex.                            *)
OneMutexEach == \A t \in Task : \A m, n \in Uses[t] : m = n

(* Priority inversion is bounded: nobody waits for a mutex whose holder    *)
(* runs at a lower priority than its own, also after other waiters have    *)
(* given up.  Where each task uses one mutex: inheritance is not           *)
(* transitive.                                                             *)
HolderInherits == OneMutexEach =>
    \A m \in Mutexes : \A t \in Waiters(m) :
        xMutexHolder[m] # None => uxPriority[xMutexHolder[m]] >= uxPriority[t]

(* Those whose priority the holder of mutex m may have: they wait for it,  *)
(* or have timed out and have yet to take the priority back.               *)
Lenders(m) == Waiters(m) \cup {t \in Task : mutex[t] = m /\ xInheritanceOccurred[t]}

(* The holder of one mutex runs above its base priority only as long as a  *)
(* task that high waits for it, or has timed out and is about to take its  *)
(* priority back: no loan outlives its lenders, where each task uses one.  *)
LoanReturned == OneMutexEach =>
    \A t \in Task : \A m \in Mutexes :
        (xMutexHolder[m] = t /\ uxMutexesHeld[t] = 1 /\ uxPriority[t] > uxBasePriority[t])
            => \E u \in Lenders(m) : uxPriority[u] >= uxPriority[t]

(* No give is lost: while tasks wait for a mutex that nobody holds, one is *)
(* on its way to take it.                                                  *)
GiveReachesWaiter ==
    \A m \in Mutexes :
        (xMutexHolder[m] = None /\ waiting[m] # <<>>)
            => \E t \in Task : mutex[t] = m /\ pc[t] \in {"try", "block", "recheck"}

(* "a context switch should occur when the last mutex is returned whether  *)
(* a task is waiting on it or not" (tasks.c:4091): with the priority that  *)
(* it loses, a task loses the processor to a ready one above it.           *)
SwitchAfterGive == pxCurrentTCB # None => pxCurrentTCB \in HighestPriorityReady

(* configASSERT( xInheritanceOccurred == pdFALSE ) where a take gives up   *)
(* because its xTicksToWait is 0 (queue.c:1507).                           *)
InheritanceAssertion ==
    \A t \in Task :
        (pc[t] = "try" /\ xMutexHolder[mutex[t]] # None /\ GivesUp(t))
            => ~xInheritanceOccurred[t]

(* The scheduler's bitmap is right where each task uses one mutex: a bit   *)
(* is set exactly if a task of that priority is ready, so that selection   *)
(* finds one (tasks.c:175), whatever priorities are lent and taken back.   *)
ReadyBitsRight == OneMutexEach => uxTopReadyPriority = ReadyPriorities

(* "configASSERT( listCURRENT_LIST_LENGTH( &( pxReadyTasksLists[           *)
(* uxTopPriority ] ) ) > 0 )" (tasks.c:175): it is not the selection of    *)
(* the next task that stops the system.                                    *)
SelectionAssertion == pxCurrentTCB = None => taskSELECT_HIGHEST_PRIORITY_TASK # {None}

=============================================================================
