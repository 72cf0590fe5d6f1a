# A TLA+ model of the FreeRTOS / lwIP sample for the K64F

The repository is an NXP MCUXpresso project: an application that runs lwIP over
FreeRTOS on a Cortex-M4F. Its `main` (`src/source/sampleLwIPFreeRTOS.c`)
initialises the board and spins; the logic worth verifying is in the kernel
(`src/amazon-freertos/freertos_kernel`), in the port of lwIP to it
(`src/lwip/port`) and in the components that work from interrupt handlers
(`src/component`). The models take the configuration of
`src/source/FreeRTOSConfig.h`: preemption, no time slicing, 32-bit ticks,
five priorities, mutexes, recursive mutexes and counting semaphores, software
timers, `INCLUDE_vTaskSuspend`, no queue sets, no co-routines, no tickless idle.

Paths below without a directory are in `src/amazon-freertos/freertos_kernel`.

## 1. Inventory

| Component | State it keeps | Operations | Talks to |
|---|---|---|---|
| Scheduler (`tasks.c`, `list.c`, `portable/GCC/ARM_CM4F`) | the list of each task's two list items, `pxCurrentTCB`, `uxSchedulerSuspended`, `uxPendedTicks`, `xYieldPending`, the PendSV flag | tick, suspend/resume of the scheduler, block on and remove from an event list, delay, context switch | called by every kernel object, inside their critical sections |
| Queue (`queue.c`) | storage ring, count, two event lists, two lock counters | send (back, front, overwrite), receive, peek, reset, both `FromISR` calls | event lists and suspension of the scheduler |
| Mutexes, semaphores (`queue.c`, `tasks.c:3951-4215`) | holder, recursive count, inherited priorities, mutexes held | take, give, their recursive forms, inheritance | the same, and they change task priorities |
| Software timers (`timers.c`) | two sorted lists, the command queue, the last time sampled | start, stop, reset, change period, expiry, deferred calls | a task of priority 4 behind a queue of ten |
| Event groups (`event_groups.c`) | bits, list of waiting tasks with their conditions | set, clear, wait, sync | deferred set from interrupts through the timer task |
| Stream and message buffers (`stream_buffer.c`) | byte ring, one waiting reader, one waiting writer | send, receive, trigger level | task notifications |
| Heap (`heap_4.c`) | address-ordered free list, two byte counts | `pvPortMalloc`, `vPortFree` | suspends the scheduler |
| lwIP system layer (`src/lwip/port/sys_arch.c`) | mailboxes, semaphores, mutexes, a protection nesting | post, fetch, signal, wait | queues and semaphores |
| lwIP tcpip thread (`api/tcpip.c`, `core/timeouts.c`) | mailbox, sorted list of timeouts | message loop, callbacks, timeouts | system layer |
| Ethernet interface (`port/enet_ethernetif*.c`), driver (`drivers/fsl_enet.c`) | descriptor rings, event group of the transmit interrupt | output, input, interrupt callback | event group, tcpip thread |
| Serial manager (`src/component/serial_manager`) | receive ring, read and write requests | read, write, callbacks from the UART | interrupt handlers |
| lwIP protocols, sockets; peripheral drivers; board and start-up code | | | vendored or generated |

**Where the difficulty is.** Kernel calls that block do so in a loop whose steps
interrupts may divide: the code that tests the queue and then joins its event
list runs with the scheduler suspended but interrupts enabled, and only the two
lock counters, `xPendingReadyList` and `xYieldPending` keep an interrupt's
wake-up from being lost. Time-outs race with wake-ups. Priority inheritance
changes by which value a blocked task is sorted, and takes back loans later, in
an order nobody fixes. The tick count overflows. Deferred work goes through a
bounded queue. `PROJECT.json` lists these hazards at their lines, with the
properties that cover them or the reason that none does yet.

**What makes the components correct.**

* Queue: it is a bounded sequence on which each call takes effect once; no
  wake-up is lost while an item (or a slot) and a waiter are both there; a
  finite wait ends; the event lists are touched only by who locked them.
* Scheduler: the highest ready priority runs; a suspended scheduler switches no
  task and forgets no switch; a blocked task is in the lists that can wake it.
* Mutexes: nobody waits for a holder of lower priority; no loan outlives
  its lenders; no give is lost; event lists are in priority order.
* Timers: no callback before its time, no timer in the wrong list across an
  overflow, no wait of the timer task beyond the next expiry.
* Event groups: a task whose condition is met is released by the set that met
  it, with exactly the bits of that set.
* Stream buffer: bytes come out once and in order, messages whole; no reader
  and no writer sleeps on what it waits for. Heap: blocks tile the heap and the
  byte counts agree.
* Ethernet: driver and MAC agree on the descriptors, a sender waiting for one is
  released by the interrupt that frees one, packets are neither lost to the
  pools nor freed twice, and the interface never goes deaf.
* System layer: a semaphore starts as its caller asked; a wait in milliseconds
  is not shorter than asked.

## 2. Modules

| Module | What it is |
|---|---|
| `Scheduler` | the scheduler's variables and the effect of each of its primitives; extended by the kernel objects that conjoin the primitives where the code calls them |
| `BoundedChannel` | abstract specification of a queue: a bounded sequence, calls that take effect at one instant |
| `Queue` | `queue.c` for items, task level and interrupt level, over `Scheduler` |
| `MCQueue` | its instances |
| `QueueProofs`, `BlockingProofs` | theorems about `Queue`, with the refinement of `BoundedChannel` |
| `Mutex` | mutexes, recursive mutexes and priority inheritance |
| `MCMutex` | its instances |
| `MutexProofs` | theorems about `Mutex` |
| `TimerQueue` | the command queue of the timer task, as a component |
| `EventFlags` | abstract specification of an event group: flags, calls that are answered at one instant |
| `EventGroup` | `event_groups.c`, with the calls it defers to the timer task; over `TimerQueue` |
| `MCEventGroup` | its instance |
| `EventGroupProofs` | theorems about `EventGroup`, with the refinement of `EventFlags` |
| `Timers` | the timer task of `timers.c` over an overflowing tick count; over `TimerQueue` |
| `MCTimers` | its instance |
| `TimersProofs` | theorems about `Timers` |
| `StreamBuffer` | `stream_buffer.c` with task notifications |
| `StreamBufferInvariant` | its invariant, which the proofs instantiate a second time with the tail put back |
| `StreamBufferProofs` | theorems about `StreamBuffer` |
| `EnetDriver` | the two descriptor rings of `fsl_enet.c` and the MAC at their other end |
| `EnetInterface` | composes `EnetDriver`, an `EventGroup` of one flag, `TimerQueue`, both interrupt handlers of the port, the tcpip thread and an application task |
| `MCEnet` | its instance |
| `EnetProofs` | theorems about `EnetDriver` and `EnetInterface` |
| `Heap4` | `heap_4.c`: its calls as functions of the heap |
| `TickTime` | the tick count, the delayed lists, time-outs and periodic wake times of `tasks.c` |
| `Tasks` | creation, deletion, delays, waits and suspension of tasks; over `Heap4` and `TickTime` |
| `MCTasks` | its instance |
| `TasksProofs` | theorems about `Tasks`, with `Heap4` and `TickTime` |

`EventGroup` appears twice, once with a run of its own and once instantiated in
`EnetInterface`; `TimerQueue` is shared by the three modules that use the timer
task, so that "the queue is full" means the same in each.

### Scheduler and Queue

A step of a task is a stretch of code no interrupt can divide as far as queue
and scheduler go: a critical section, or a statement outside one. `pc` names
the places between them, and PendSV, the tick and the handlers' sends and
receives can come at every one:

    try -> suspend -> lock -> check -> test -> place -> unlockTx -> unlockRx
        -> resume -> (yield | recheck | return) -> try ...

| State | Code |
|---|---|
| `stateList`, `eventList` | which list `xStateListItem`, `xEventListItem` of a TCB are in |
| `pendSV`, `xYieldPending` | the exception (ICSR), the switch on record |
| `storage`, `pcWriteTo`, `pcReadFrom`, `uxMessagesWaiting`, `cRxLock`, `cTxLock` | the members of `Queue_t`; pointers are slot numbers |
| `xTimeOut` | `xEntryTimeSet`, `xTimeOut` and `xTicksToWait` of a call: `unset`, `running`, `expired` (the call does not know yet), `passed` (it does, `xTicksToWait` is 0) |
| `after` | what follows `prvUnlockQueue` and `xTaskResumeAll` in the branch taken |
| `reply` | what the last call returned, with the item copied out |

Actions carry the names of the functions they model. `vTaskDelay` is there so
that tasks leave the processor to others. The `try` steps are the critical
sections at the head of the three loops; `xTaskResumeAll` drains
`xPendingReadyList`, replays pended ticks and asks for the switch in one step,
as it does in one critical section.

Abstractions, each of which adds behaviours or has a bound:

* An event list is a set; a removal takes any task of highest priority, where
  the code takes the one inserted first. Ready lists are sets as well.
* Ticks carry no numbers: a tick makes the time-outs of an arbitrary set of
  tasks elapse. `uxPendedTicks` says whether any tick is pended.
* A handler that wakes a task of higher priority asks for the switch on its way
  out, as `portYIELD_FROM_ISR` does.
* `MaxLock` bounds how many interrupts of a kind find the queue locked in one
  locking. The code's counter is an `int8_t` without a check; the wrap at 127
  is listed as a hazard and is not modelled.
* Application code that suspends the scheduler itself, `xQueuePeekFromISR`,
  `vQueueDelete`, the queue registry and the idle task's own yield are left out.

### Mutex

A mutex is available when it has no holder. Event lists are sequences here, in
the order `vListInsert` gives, because the code changes a blocked holder's value
without moving its item. The section a take runs with the scheduler suspended
is one step: no interrupt handler may use a mutex, so only a tick can come in
between, and it is replayed at the end of the section. PendSV is immediate.
`pc = "recheck"` and `"settle"` are the two places where a take whose time is
up can be overtaken before it gives up. `uxTopReadyPriority` is the bitmap by
which the port selects a task, as the set of its bits: it is kept apart from
the ready lists because the code keeps it apart, and lets it go wrong
(`tasks.c:4185`, see the findings). Where a `configASSERT` fails,
`pxCurrentTCB` becomes `None` and nothing happens any more, as
`FreeRTOSConfig.h:98` has it. Tasks sleep at will, holding what they
hold. A task takes no mutex twice unless it is recursive (the application's
contract); `MaxDepth` bounds the recursion. Which mutexes each task takes is
the variable `Uses`, chosen in `Init` from the constant `Usages`, so that one
run has applications with one mutex and with two; `OneMutexEach` is the premise
of what holds only of the former. `vTaskPrioritySet` is not modelled.

An event list is not always in the order of priority, although `tasks.c:3102`
relies on that: `xTaskPriorityInherit` rewrites the sort value of a holder that
is blocked on another mutex and leaves its item in place (`tasks.c:3971`). That
takes two mutexes; `GiveReachesWaiter` says what is still true:
while tasks wait for a mutex nobody holds, one is on its way to take it.

### EventGroup

| State | Code |
|---|---|
| `uxEventBits` | the bits of the group |
| `xTasksWaitingForBits` | the list, as a set: the set of bits visits every entry, in whatever order |
| `call[t]` | the call task `t` is in, with the condition `xEventGroupWaitBits` stores in the list item |
| `wokenWith[t]` | the value `vTaskRemoveFromUnorderedEventList` leaves in the list item, with `eventUNBLOCKED_DUE_TO_BIT_SET` |
| `xTimerQueue` | sets and clears deferred by interrupts |

The sections with the scheduler suspended are single steps: no handler touches
a group, so nothing that happens in them can be seen from outside. Which task
runs is left open except where the code decides it, which gives all the
schedules of fixed priorities and more. A wait that ended by its time (the task
is off the list, its value without the unblocked mark) looks at the bits again
in a later step, `xEventGroupWaitBits` 416 or `xEventGroupSync` 256, and
anything may come between. A group is deleted under the contract that no
command for it is queued and that no task of a timed-out call still has to
look. Left out: the values that set and clear return, and
`xEventGroupGetBitsFromISR`, which may read the bits between the two
assignments of a set.

`EventFlags` knows nothing of lists, deferral or marks: a call is pending until
it is answered with the flags of one instant, and a set of flags answers every
pending call it satisfies at once.

### Timers

The tick count runs modulo `Modulus`, and with it everything the code computes
from it. A command carries the count at which it was issued; the timer task may
handle it late. `pc` names the steps of `prvTimerTask`: sample the time, switch
the lists, process an expired timer or block, receive commands one at a time,
each with its own sample of the time. What the properties compare with is not
the code's: `due[t]` counts down to the expiry the caller asked for, `called`
keeps the value of `due` at the last callback, and the age of a command counts
the ticks it has been queued. `MaxLag` bounds by how much the task runs late,
`MaxAge` the age of a command; a period and the larger of them (`Late`) together
have to stay below the modulus (`TimerAssumption`), or no arithmetic on counts
can tell early from late. `Room` is how
many places the application leaves free in the command queue: with none, the
assertions of `timers.c:504`, `787` and `900`, that the reload of a late timer
was accepted, fail; one for each auto-reload timer (`EnoughRoom`) is enough for `ReloadHasRoom`. It
is a premise about the application, since the code does not enforce it.

Observed while modelling and not stated as properties: a stop already queued is
overtaken by the restart that a late reload appends (`timers.c:503`), so that
the timer runs after `xTimerStop`; a one-shot timer that expires in
`prvSwitchTimerLists`, or at once in its start, keeps `tmrSTATUS_IS_ACTIVE`;
callbacks made from `prvSwitchTimerLists` run with the scheduler suspended.
Creation, deletion of dynamic timers, timer IDs and `xTimerPendFunctionCall`
other than for event groups are left out.

### StreamBuffer

One writer and one reader, as the header asks, interleave at every access to
the shared state: the ring, `xHead`, `xTail`, the two waiting-task members and
the notification of each task. A call of a `FromISR` form is a call that does
not wait. The state constants `isMessageBuffer` and the trigger level are
chosen in `Init`, so one run covers both kinds. `written`, `read` and `messages`
are histories: bytes are numbers in sequence (modulo `Numbers`), so a byte that
is lost, duplicated or out of order is recognised, and `messages` lists where
each message that is still to be read begins and what it should hold. The length word of a message
is one cell of the ring instead of four; it is moved in a step of its own, as
in the code.

A receive takes its `xBufferLengthBytes` from `BufferLengths`. If the next
message is longer (`ReadTooLong`), the tail has moved past the length already
(`stream_buffer.c:934`) and is put back in a step of its own (`PutBack`, line
948): `r = "restore"` is the place between. `WriterPreempts` says whether the
writer may run there. On one processor it does so from a handler or as a task of
higher priority, unless the reader masks both, and then the code loses messages
(see the findings); it does not when the writer is a task of no higher priority
than the reader's. Everywhere else writer and reader divide each other at every
step in either case. `PutBackAlone` is the premise of the theorems: the writer
does not run there, or every receive has room for the longest message.

`TriggerLevels` is an assumption as well: trigger level plus the longest send
fit into the ring. Beyond it writer and reader can both sleep for ever, each
waiting for the other (`stream_buffer.c:587`): nothing in the code or its
documentation excludes it. So the hazard itself is assumed away; what is shown
is that the assumption is enough. Not modelled: `xStreamBufferReset`, a change
of the trigger level in use, and `xStreamBufferNextMessageLengthBytes`, which
moves the tail and puts it back as well (and whose assertion at line 848 fails
while the writer is between length and data).

### EnetDriver and EnetInterface

| State | Code |
|---|---|
| `txReady`, `rxFull` | the descriptors whose ownership bit gives them to the MAC (transmit), to the driver (receive) |
| `txBdCurrent`, `rxBdCurrent` | the driver's positions; `txDma`, `rxDma` those of the MAC, which is external |
| `TDAR`, `RDAR`, `EIR` | registers: the MAC is active on a ring, an interrupt is requested |
| `irq`, `pc`, `lock`, `running` | where the handlers are, where each sender is, who has the core lock, who runs |
| `freePbufs`, `freeInpkts`, `tcpip_mbox`, `msg`, `kept` | the pools, the mailbox and what the tcpip thread and the application hold |
| `cutShort` | the last run of `ethernetif_input` ended on a frame in error or without a pbuf |

The path of a received frame: MAC, receive interrupt, `ethernetif_input` reads
frames until `ethernetif_linkinput` returns NULL, each becomes a pbuf and a
message in the mailbox of the tcpip thread, which handles it and may send,
pass the pbuf to the application or free it. NULL means an empty ring, a frame
in error and a shortage of pbufs alike (`enet_ethernetif.c:140`): after the
latter two, frames stay in the ring until the next receive interrupt, which
`ReadUnlessDropped` says precisely; `NeverDeaf` says that there will be one before
the ring has filled up. The path of a sent frame: a sender
with the core lock finds the ring full and waits for the flag, which the wait
clears on its way out (`enet_ethernetif_kinetis.c:332-342`); the transmit interrupt sets the flag
through the timer task. A set lost to a full command queue is harmless only
because that queue then holds other sets of the same flag: in an application
with timers of its own it would not be.

Also: one buffer per frame and one pbuf per packet; `TCPIP_THREAD_PRIO` is 8,
clipped to 4, the timer task's priority, and without time slicing neither
preempts the other. Initialisation, link status, multicast filters, frames in
several buffers and the time stamps of IEEE 1588 are left out. Liveness is not
checked here: the safety properties say who is never stranded, the state space
is too large for the rest.

### Heap4, TickTime and Tasks

| State | Code |
|---|---|
| `heap.free`, `heap.used` | the blocks of the free list, and those with the allocated bit; a block is its address and size |
| `heap.remaining` | `xFreeBytesRemaining` |
| `stateList`, `wakeTime`, `eventList` | the list and the value of `xStateListItem`; whether `xEventListItem` is in a list |
| `xTickCount`, `xNumOfOverflows`, `xNextTaskUnblockTime` | the same, modulo `Modulus` and `OverflowModulus` |
| `phase`, `pxStack`, `pxTCB`, `pxQueue` | how far `xTaskCreate` or the deletion of a task has come, and what is allocated for it |
| `resetDue` | a `vTaskSuspend` is between its two critical sections |
| `call`, `xTimeOut`, `xTicksToWait`, `previousWake` | the locals of the call a task is in |

`Heap4` writes its calls as functions of the heap, because one critical section
of `vTaskDelete` frees twice. `HeapAssumption` asks that the array has room for more
than one header; the code takes it for granted. `Tiled` is stated byte by byte:
the bytes of the blocks are those of the heap, and `xFreeBytesRemaining` is the
number of those in free blocks. `TickTime` gives the operators other modules
conjoin, as `Scheduler` does; the difference is that its ticks carry numbers.
A section with the scheduler suspended is one step: the ticks that come in it
are counted and made at its end by `xTaskResumeAll`, so that they are the ticks
that follow the step. Which ready task runs is left open, which includes every
schedule of fixed priorities. The callers that create, delete, suspend and
resume exist all the time. `xTaskCreate` takes three steps, and when the second
allocation fails a step of its own undoes the first; the idle task takes a
deleted task off its list and frees its two blocks in two steps more. What the
time of a sleep, wait or period really is, is kept by the history `left`, which
counts and does not overflow.

Two premises bound what can be right. `InTime`: a task looks at the clock again
before the count has come round (for a wait: before it has overflowed twice),
or no arithmetic on counts could tell. `EndsWhenSuspended`: a periodic task that
is suspended in its sleep reads the tick count anew when it is resumed. Without
it `TimesKept` fails: `vTaskDelayUntil` (`tasks.c:1267`) takes a previous wake
time that is still to come for one from before an overflow, and does not delay.
No line of the repository promises more. Handles are assumed not to be used
after the deletion. Left out: requests with the top bit of `size_t` set,
`xMinimumEverFreeBytesRemaining`, priorities and `xPendingReadyList` (both in
`Scheduler`), notifications, and `xTaskAbortDelay` (not built).

## 3. What the runs check

| Run | Instance | Question |
|---|---|---|
| `queue_safety` | three tasks of priorities 1, 2, 2 over idle, two slots, one item, calls with every kind of wait, a peeker, interrupts at both ends, `MaxLock` 2 | Is any wake-up, preemption or ring pointer lost or wrong, whatever comes between the steps of blocking calls? |
| `queue_channel` | two tasks, two distinguishable items, both ends, peek, reset | Does the queue implement `BoundedChannel`? |
| `queue_mailbox` | a queue of one that is overwritten, with fairness | The same for `xQueueOverwrite`; is the top task served, and does a finite wait end? |
| `mutex` | three tasks of priorities 1, 2, 3, which share one recursive mutex or take it and another in any order | With one mutex each, is priority inversion bounded, does no loan outlive its lenders, is the bitmap of ready priorities right? With two, is inherited priority gone with the last mutex, and does every give reach a waiter? |
| `event_groups` | three tasks, three bits: two meet at a rendezvous, one waits; task and interrupt level sets and clears, deletion; command queue of two; fairness | Does the group implement `EventFlags`; does a rendezvous release all or none; does a set from an interrupt, once queued, release its waiter? |
| `timers` | an auto-reload and a one-shot timer, periods 1 and 3, six ticks to the overflow, lag and age up to 2, command queue of two | Is a callback ever early, a timer in the wrong list, or slept through? |
| `stream` | a ring of five bytes, sends of up to three, streams of every allowed trigger level and messages, receives with room for one byte of a message or three | Do bytes and messages arrive once, in order and whole, also after a receive without the room, and does each side get its wake-up? |
| `enet` | two descriptors each way, two pbufs, one message, a mailbox of one, the tcpip thread and one application task, command queue of two | Is a sender stranded, a packet leaked or freed twice, a frame left in the ring for good, the MAC idle with work to do? |
| `tasks` | two tasks that are created, deleted, suspended and resumed, a queue, a heap of 13 units of 2 bytes; delays and periods of 1 to 3, waits of 2 and for ever, four ticks to the overflow | Does the heap stay whole with nothing leaked; does anybody wake early or late, or misjudge a time-out? |
| `mutex_switch`, `mutex_assert`, `mutex_select` | the same tasks with one mutex, and in the last with two | three statements of the code that do not hold; see the findings |

Each property is violated when one mapped definition is replaced by a plausible
bug (`PROJECT.json`, `mutants`); the replacements stand in the modules, marked
`Bug:`, before the definitions they would replace.

**Why the bounds are enough.** Two slots are the smallest ring with a middle:
a full, an empty and a half-full queue, and both wraps. Three tasks give two
waiters on one list (a wake-up that goes to the wrong one, a peek that must
pass it on) with a third that holds the lock; two of equal and one of lower
priority exercise both `>` and `>=` in the scheduler's comparisons. A lock
count of two is the first at which the loop of `prvUnlockQueue` goes round
twice. Two tasks and two items tell order. For mutexes, a holder, a lender and
a second waiter of a third priority are needed for each of the interesting
histories; two mutexes allow a holder that is itself blocked. Section 5 proves the safety
properties of all passing runs for every instance besides.

A command queue of two can be empty, partly full and full. Three bits are one
for each party of a rendezvous and one that is set and cleared beside it. Six
ticks are the smallest modulus that holds two periods of three and has an
overflow between any two expiries of the longer; a period of one expires several
times in a lag of two, so that reloads queue up. (A command queue of three
passes as well, in 28 million states.) A ring of five holds a message of three
with its length or two shorter ones, and every position of head and tail to
either side of the wrap. Two descriptors give a full, an empty and a half-full
ring; pools, messages and mailbox are small enough for each to be exhausted,
but with one message and a mailbox of one the messages run out first: a full
mailbox with a message to spare is left to the theorem `PacketsConserved`.

In `tasks` the two tasks take six and seven of the thirteen units of the heap
and the queue takes three, so not everything fits at once: creations fail for
the stack and for the TCB, holes open between used blocks and coalesce with
either neighbour or both, and a remainder of one or two units is not split off.
With a modulus of four, sleeps that end before, at and after an overflow meet
in the two lists. A time-out has to tell one overflow from none, since `InTime`
excludes two, and a modulus of two for the overflows does that.

`xQueueGenericReset` is left out of `queue_safety`: it wakes one sender although
it empties the whole queue (`queue.c:277`), so `NoLostSlot` would fail, and
nothing in the repository promises otherwise. `mutex` does not check for
deadlock: tasks that take two mutexes in opposite orders deadlock by themselves,
and a failed assertion stops the system. What it checks of two mutexes it checks
of every state up to there.

**Fairness.** In `event_groups`, the timer task takes its commands (weak
fairness): it has the highest priority and waits for nothing but its queue.
In `queue_mailbox`, PendSV, once pending, is taken (weak
fairness of `vTaskSwitchContext`). Interrupts do not keep the running task from
its next kernel step for ever (strong fairness of each task's kernel steps: the
step is disabled while the task is switched out). A time-out of finitely many
ticks elapses (strong fairness, because ticks only count while the scheduler is
suspended). Nothing is assumed about applications making calls, and liveness is
stated of the task of highest priority only: fixed-priority scheduling gives
no other task the processor.

## 4. Findings

1. `mutex_switch`. `tasks.c:4090-4092` says that "a context switch should occur
   when the last mutex is returned whether a task is waiting on it or not".
   `xQueueGenericSend` (`queue.c:842-868`) looks at `xYieldRequired` only if no
   task waits. A task that falls back from an inherited priority and wakes a
   task no higher than itself keeps the processor, although a ready task is
   above it: the lender whose time is up, for instance. One mutex suffices.
2. `mutex_assert`. `queue.c:1502-1507` argues that `xInheritanceOccurred` cannot
   be set where `xTicksToWait` is 0, "as if it were 0 the function would have
   exited", and asserts it. A take whose time is up and that sees the mutex
   available (`queue.c:1596`) does not exit: it loops, can be overtaken, and
   meets the assertion.
3. `mutex_select`. The selection of the next task takes the highest set bit of
   `uxTopReadyPriority` and asserts that its list is not empty (`tasks.c:175`).
   `vTaskPriorityDisinheritAfterTimeout` writes the holder's new priority
   (`tasks.c:4162`) before it resets the bit of the list the holder leaves
   (`tasks.c:4185`), so the bit it resets is the new one, and the old stays set
   though the list may be empty; `vTaskPrioritySet` keeps the old priority for
   that purpose (`tasks.c:1661`). In the run: low holds one mutex and mid the
   other; mid waits for low's with a time limit, which raises low to 2; high
   waits for mid's, which raises mid to 3; mid's time is up, it takes low back to
   1 and sleeps, still holding its mutex. Bit 2 is the highest one set, no task
   has priority 2, and the system stops. It takes two mutexes: with one each,
   `ReadyBitsRight` holds, checked by `mutex` and proved.
4. `message_buffer.h:449-450`, `466` and `539-540` say that a message for which a
   receive has no room is left in the buffer. While the tail is past its length
   and has yet to be put back (`stream_buffer.c:934`, `948`) a writer sees
   the length's space and may fill it. The run `stream` excludes that writer. With
   `WriterPreempts = TRUE` in `StreamBuffers.cfg`, and nothing else changed, TLC
   finds `Intact` violated in 15 states: a ring that holds four bytes has a
   message of two in it, the reader has room for one, the writer fills the space
   that is left and the length, and the tail put back meets the head. The full
   buffer counts as empty, and both messages are gone.

## 5. What is proved

**Queue** (`QueueProofs`, `BlockingProofs`). For every finite set of tasks, every
assignment of priorities and calls, every length and `MaxLock`, from the
assumptions `TaskAssumption` and `QueueAssumption` only:

| Theorem | States |
|---|---|
| `TypeCorrect` | `[]TypeOK`: counts and pointers in range, the scheduler never suspended twice |
| `SuspensionExclusion` | `[]SuspensionExcludes`: the section with the scheduler suspended is mutual exclusion, and only its owner has the queue locked |
| `RingConsistency` | `[]RingConsistent`: read pointer, write pointer and count agree |
| `BlockingConsistency` | `[]BlockedConsistently`: no task is in no list, or in an event list and ready, or asleep until a time that has passed |
| `Preemption` | `[]HighestPriorityRuns`: no ready task of higher priority waits without a switch pending or on record |
| `LockingProtectsLists` | `ListsLocked`: while the queue is locked only its locker changes its event lists |
| `NoItemLost` | `[]NoLostItem`: the items of a queue that tasks wait to receive from are spoken for |
| `NoSlotLost` | `[]NoLostSlot`, if the queue has one slot or nobody resets it: the same for free slots and senders |
| `QueueImplementsChannel` | `ChannelSpec`: the queue implements `BoundedChannel` |

The argument. `TypeOK` alone is not inductive: that a nested `vTaskSuspendAll`
cannot happen needs `SuspensionExcludes`, and the reverse; `Invariance` proves
the two together, one lemma per group of actions. The ring needs `CallsMade`
besides (a task is only in a call it is allowed to make: only a queue of one is
overwritten). `BlockingProofs` strengthens with what the running task knows: it
is ready unless it is about to yield (`CurrentReady`), and between the check of
the time and the blocking no time passes, because ticks are only counted
(`Fresh`). `LockedTogether` says that the two counters are locked at once, so
the step that changes an event list is one of the locker's. The two properties about lost
wake-ups are one statement about two lists (`Balanced`): what there is does not
exceed the tasks that will try for it plus the wake-ups counted while the queue
is locked. A step takes some tasks out of the list, stops others and changes the
amounts, and `Balance` says when that keeps it; `PlaceInTime` covers the
stretch between the test of the queue and the blocking. `NoSlotLost` has its
premise because `xQueueGenericReset` frees every slot and wakes one sender
(`queue.c:277`). For the refinement the ring is described as the sequence it
stands for (`Contents`), and `CallKnown` says what a call at each place still has
to do; the answer to a call whose time is up is given at the instant its last
look at the queue fails.

**Ethernet** (`EnetProofs`). For rings of every length, pools and
mailbox of every size, a command queue of every length and any set of sending
tasks, from `RingAssumption`, `QueueLengthAssumption` and `EnetAssumption` (sizes
are naturals, `NULL` is no sender and no command); all the properties of the run
`enet`:

| Theorem | States |
|---|---|
| `TypeCorrect` | `[]TypeOK`: types, the bound of the command queue, and that whoever is inside the stack, asleep included, holds the core lock |
| `RingConsistency` | `[]RingsAgree`: the descriptors that are the MAC's are those from its position to the driver's, in both rings |
| `MacKeepsGoing` | `[]MacNeverRests`: the MAC has stopped beside work only where the driver is about to write the register |
| `SenderReleased` | `[]SenderNotStranded`: no sender sleeps beside a free descriptor without a wake-up on its way |
| `PacketsConserved` | `[]PbufsConserved`: packet buffers and messages are all in one place each |
| `FramesRead` | `[]ReadUnlessDropped`: a frame lies unread only behind one that was dropped |
| `ReceiverNeverDeaf` | `[]NeverDeaf`: a full receive ring has an interrupt on its way |

The argument. `RingsAgree` speaks of the set of descriptors, a step moves one
end of it: `EnetProofs` describes a ring as a run of a given length from a
position (`RingAgrees`), and proves that giving one and taking one keep it, with
the modulus split into its two cases. `EnetInv` is the conjunction of `RingInv`,
`LockInv` (one sender inside the stack: the holder of the core lock), `GroupInv`
(the flag's group is the one sender's or nobody's), `CommandInv` (the queue
holds only sets of the flag) and `PacketInv` (where each buffer is);
`RingInv` is inductive alone, the others in the order they cite one another.
`WakeUpInv` strengthens `SenderNotStranded` with the sender that found the ring
full and does not wait yet: it will find the flag up, or its wake-up is still on
its way. `CommandInv` makes a set that the full queue refused harmless: what the
queue is full of are sets of the same flag.

**Mutexes** (`MutexProofs`). For every finite set of tasks, every assignment of
priorities, any mutexes and any use of them, from `MutexAssumption`:

| Theorem | States |
|---|---|
| `TypeCorrect` | `[]TypeOK`: no count of takes or of held mutexes falls below zero |
| `PrioritiesSettle` | `[]PrioritySettled`: a task that holds no mutex has its own priority |
| `GivesReach` | `[]GiveReachesWaiter`: while tasks wait for a mutex nobody holds, one is on its way to take it |
| `InversionBounded` | `[]HolderInherits`, where each task uses one mutex: nobody waits for a holder of lower priority |
| `LoansReturned` | `[]LoanReturned`, where each task uses one mutex: a holder above its own priority owes it to somebody who still waits |
| `SelectionFinds` | `[]ReadyBitsRight`, where each task uses one mutex: the bits set are those of the ready lists that are not empty, so the assertion of `tasks.c:175` holds |

The argument. `Inv` adds to the properties what a call knows (`InCall`), that an
event list holds each of its tasks once and only while it is blocked on that
mutex (`Queued`), and that the counts are the sizes of sets (`Counted`,
`HeldCounted`); it holds for any use of the mutexes. The last three theorems state properties
with the premise `OneMutexEach`, and it is needed: a holder that waits
for a second mutex has its priority raised where it stands in that list
(`tasks.c:3971`), the head of the list is then not the highest, and the later
loans go by the head. With one mutex each, whoever waits holds nothing and has the
priority of its own, so the lists are sorted (`Ordered`); `InvOne` adds that a
free mutex with waiters is about to be taken by one that is not below them, nor
is the running task (`FreeServed`), and who has lent the holder what it has
(`WaiterLent`, `LoanLent`). That the head of a list is a maximum, and what
`vListInsert` and the removal of several tasks do to a list of any length, is
proved by induction over sets of numbers (`Least`, `Rank`): `MCMutex` checks
besides that `Without` is the selection from a sequence. For `SelectionFinds` the
invariant is that the bits are right (`BitsRight`) and that whoever is blocked
is in the list of its mutex (`Listed`). The step to look at is the settling: if it
lowers the holder, the task whose very priority the holder had (`LoanLent`) does
not wait any more, so its time is up as well, and it is ready in the list that
the holder leaves: the bit that stays set is right.

**Event groups** (`EventGroupProofs`). For every set of tasks, bits, calls and
commands and every length of the command queue, from `CallsAssumption` (what a
call is; `xEventGroupSync` waits for all its bits and clears them),
`BitsAssumption`, `NullAssumption` and `QueueLengthAssumption`:

| Theorem | States |
|---|---|
| `TypeCorrect` | `[]TypeOK` |
| `NoSetMissed` | `[]NoMissedBits`: no task is in the list of a group whose bits meet its condition |
| `GroupImplementsFlags` | `FlagsSpec`: the group implements `EventFlags` |
| `PartiesMeet` | `RendezvousUse => (Spec => []Rendezvous)`: nobody leaves a rendezvous before all have come |

The argument. `GroupInv` says in addition that a call off the list without a set
had a time limit, and that a deleted group has an empty list; each step then
maps to one step of `EventFlags` or to none, because a set answers in one
critical stretch all the calls it satisfies and no others. `PartiesMeet` needs
the bits used as the example in `event_groups.h` uses them: a part of the
meeting's bits for each party, wanted by all, consumed by nobody else.
`MCEventGroup` has this premise as an assumption, so TLC evaluates it.
`Assembling` is the invariant: the bits of exactly those are set who
wait in the call, and not all do.

**Stream buffers** (`StreamBufferProofs`). For rings of every length, both kinds
of buffer, every trigger level allowed by `TriggerLevels` and every length of a
send, from `StreamAssumption` and the premise `PutBackAlone` of each theorem; all
the properties of the run `stream`:

| Theorem | States |
|---|---|
| `TypeCorrect` | `[]TypeOK` |
| `BytesIntact` | `[]Intact`: what is between tail and head is what was written and not read, message by message |
| `NoWakeUpLost` | `[]NobodyOversleeps` |
| `OneIsAwake` | `[]NeverBothAsleep`: writer and reader do not wait for each other, given `TriggerLevels` |

The argument. `RingInv` says how old a value each side may work with: the writer's
view of the space is never above what there is (`SpaceSeen`), the reader's view
of the bytes neither (`BytesSeen`), because only the other side moves the other index, in
the good direction. `WakeInv` says who is registered: a side that waits without a
notification is, and if it need not wait any more the other side is between its
data and its notification. While a tail is to be put back, both are said of the buffer with the
tail already back: `StreamBufferProofs` instantiates `StreamBufferInvariant`
with `xOriginalTail` for `xTail` and a reader that has returned. The steps to `restore` and from it change
nothing of that buffer, and the premise is that no other step comes between, or that
`restore` is never reached. The indices are added modulo the ring, with the
laws of the remainder proved first.

**Timers** (`TimersProofs`). For any set of timers, any modulus, any periods,
lags and ages it can tell apart and every length of the command queue, from
`TimerAssumption`, `NullAssumption` and `QueueLengthAssumption`:

| Theorem | States |
|---|---|
| `TypeCorrect` | `[]TypeOK` |
| `NoneEarly` | `[]NeverEarly`: no callback before the time its timer was promised |
| `RoomForReloads` | `[]ReloadHasRoom`, where `EnoughRoom`: the assertions of `timers.c:504`, `787` and `900` |
| `NoneSleptThrough` | `[]WakesInTime`, where `EnoughRoom`: the task wakes no later than the first promise |

The argument. `NeverEarly` says nothing of the lists; `TimeInv` ties them to the
promises. `Now` is the tick count without its last overflow, as the task's last
sample lets it be understood: in `switch` the current list belongs to the round
of counts before the sample. A timer in a list expires at its value, one in the
overflow list a round later, and that is `Now` plus what was promised
(`KeepsPromise`); nor is it more than a period after the last sample, so that
the count has not come round to the sample before the tick is counted
(`NowNext`). A start and a reload carry a time which, with their age, is the tick
count (`Dated`), and the sample a command is executed with is no older than the
command (`MessageDated`): this is why the sample is taken after the command was
received. `PlaceIsRight` then shows that the two comparisons of
`prvInsertTimerInActiveList` tell the three cases apart. `TimeInv` is inductive
without a premise. `WakeInv` needs `EnoughRoom`: without it a reload is dropped
and its promise is in no list and in no command (`Pending`). What fills the
queue beyond what the application may are reloads of timers that are in no list,
each at most once (`RoomKept`), so the next timer to reload finds a place.
`MCTimers` has `EnoughRoom` as an assumption, so TLC evaluates it.

**Tasks and heap** (`TasksProofs`). For any tasks, any requests, delays, waits and
periods, any moduli of the two counts, and a heap of every size, place and
alignment, from `TickAssumption`, `HeapAssumption` and `TasksAssumption`; all the
properties of the run `tasks`:

| Theorem | States |
|---|---|
| `TypeCorrect` | `[]TypeOK`: no wake time exceeds the largest count, every pointer is `NULL` or into the heap |
| `TimeToldRightly` | `[]TimesKept`: sleeps, time-outs and periods end when they should, across overflows |
| `HeapSound` | `[]MemorySound`: the blocks tile the heap, and each allocated one has one holder |

The argument. Time and memory are two invariants that need nothing of each other.
`TickInv` relates each number the code keeps to the history `left`: the value of
a sleeping task's item is the count plus `left`, or in the overflow list that less
a modulus (`Wakes`); the start of a wait lies as far back as is gone of it, at
most one overflow ago (`Waited`); a previous wake time is off by at most a
modulus either way (`Periodic`); and `xNextTaskUnblockTime` is not beyond the first
value in the delayed list (`Unblocks`). With these, `WokenIs`, `TimeOutIs` and
`PeriodIs` decide the comparisons of the code case by case. `MemoryInv` is `Tiled`,
the holders of the blocks, and what each phase of a creation or deletion holds
(`Held`). An allocation takes a block off the list, cuts it and frees the rest,
so one lemma about freeing serves both calls: `BlockFreed` shows that a block has
at most one free neighbour to either side, and that what they make together
covers the same bytes. The minima that the code takes from sorted lists exist
by well-founded induction (`Least`).

**Only model-checked.** The liveness properties `TopTaskServed`, `FiniteWaitEnds` and
`DeferredSetReleases`: fairness and `ENABLED` are out of the prover's reach. Every
safety property of a passing run is stated by a theorem, some under a
premise without which they are false: `NoSlotLost`, `InversionBounded`,
`LoansReturned`, `SelectionFinds`, `PartiesMeet`, `RoomForReloads`,
`NoneSleptThrough` and those about stream buffers.
A function defined by recursion over data could not be proved about: the
models use none where a theorem needs it, and the count of free bytes is stated
as the size of a set. The statements of the findings do not hold.

## 6. Plan

In this order; each becomes a module with an instance module, and proofs where
the invariant is over counters, lists or one task at a time.

1. `Scheduler`'s numberless ticks as an abstraction of those of `TickTime`.
2. *Timers*: what a stop promises and a late reload breaks; deletion.
3. *SysArch*: mailboxes and semaphores over `BoundedChannel`; the promise of
   `sys_arch.c:345-352` about the initial count against `366-374`.
4. *SerialManager*: the receive ring shared with its callback.
5. `xStreamBufferNextMessageLengthBytes` beside a writer; `vTaskPrioritySet`.

Runs stay at one per question, with instances that finish in two minutes.

## 7. Not modelled

Protocol code of lwIP, sockets, PPP and the drivers' register access (vendored,
or without a protocol of their own a model would check); heaps 1, 2, 3 and 5 and
co-routines (not built); the debug console (text layout); the components of the
plan above until their turn. `PROJECT.json` gives the reason for each.
