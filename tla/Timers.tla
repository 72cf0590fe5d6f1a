------------------------------- MODULE Timers -------------------------------
(***************************************************************************)
(* timers.c: the timer service task, its two lists of active timers, which *)
(* change places when the tick count overflows, and the commands of tasks, *)
(* interrupts and callbacks, which carry the time they were given.         *)
(*                                                                         *)
(* Times are modulo Modulus, where the code has 2^32.  The history due     *)
(* counts, without overflow, the ticks to the expiry each timer was        *)
(* promised, and age the ticks since the time a command carries; neither   *)
(* decides anything.                                                       *)
(***************************************************************************)
EXTENDS TimerQueue, Integers, FiniteSets

CONSTANTS Timer,
          AutoReload,  \* the timers that reload themselves
          Periods,     \* the periods given to them
          Modulus,     \* one more than the largest tick count
          MaxLag,      \* bound: ticks the timer task may be behind
          MaxAge,      \* bound: ticks between a command and its execution
          Room,        \* places in the queue the application leaves free
          NULL

(* The most by which an expiry or a command can be late.                   *)
Late == IF MaxLag < MaxAge THEN MaxAge ELSE MaxLag

ASSUME TimerAssumption ==
    /\ AutoReload \subseteq Timer
    /\ Modulus \in Nat \ {0}
    /\ {MaxLag, MaxAge} \subseteq Nat
    /\ Room \in 0 .. QueueLength
    /\ Periods \subseteq Nat \ {0}
    /\ \A p \in Periods : p + Late < Modulus

(* What the application has to leave free for the reloads of late timers.  *)
EnoughRoom == IsFiniteSet(AutoReload) /\ Cardinality(AutoReload) <= Room

Time == 0 .. Modulus - 1
Commands == [op : {"start", "stop", "change"}, timer : Timer, value : Time, age : Time]

ASSUME NullAssumption == NULL \notin Int /\ NULL \notin Commands

VARIABLES
    xTickCount,
    xLastTime,   \* the tick count of the last sample, in prvSampleTimeNow
    list,        \* "current", "overflow" or "none": where the timer's item is
    value,       \* the item's value, the tick count at which it expires; 0 in no list
    period,      \* xTimerPeriodInTicks
    pc,          \* where the timer task is
    xTimeNow,    \* its sample of the tick count, 0 when it is done with it
    msg,         \* the command it executes, or NULL
    wait,        \* the ticks it blocks for, or Forever
    due,         \* history: ticks to the promised expiry, or NULL
    called,      \* history: what due was at the callback just made, or NULL
    failed       \* history: an assertion that a reload was queued has failed

timerVars == <<list, value, period, due>>
taskVars == <<xLastTime, pc, xTimeNow, msg, wait>>
vars == <<xTickCount, xTimerQueue, timerVars, taskVars, called, failed>>

Forever == Modulus
(* Bug: a sum of times does not wrap.                                      *)
PlusUnwrapped(a, b) == a + b

Plus(a, b) == (a + b) % Modulus
Minus(a, b) == (a - b) % Modulus

(* A command: the timer, the time it was given or the new period, and age. *)
Command(op, t, v, a) == [op |-> op, timer |-> t, value |-> v, age |-> a]

Init ==
    /\ xTickCount = 0 /\ xLastTime = 0 /\ xTimeNow = 0
    /\ list = [t \in Timer |-> "none"]
    /\ value = [t \in Timer |-> 0]
    /\ period \in [Timer -> Periods]
    /\ pc = "loop" /\ msg = NULL /\ wait = Forever
    /\ due = [t \in Timer |-> NULL]
    /\ called = NULL /\ failed = FALSE
    /\ xTimerQueue = <<>>

-----------------------------------------------------------------------------
(* The lists *)

InList(l) == {t \in Timer : list[t] = l}

(* The head of the current list, of any that have the least value.         *)
Heads == {t \in InList("current") : \A u \in InList("current") : value[t] <= value[u]}

(* Bug: a time behind the sample is taken to be past.                      *)
PlaceUnlessPast(expiry, now, command, p) ==
    IF expiry <= now THEN "now" ELSE "current"

(* prvInsertTimerInActiveList: the list for a timer that expires at expiry,*)
(* p ticks after the time of the command, or "now" if that is over.        *)
PlaceFor(expiry, now, command, p) ==
    IF expiry <= now
      THEN IF Minus(now, command) >= p THEN "now" ELSE "overflow"
      ELSE IF now < command /\ expiry >= command THEN "now" ELSE "current"

prvInsertTimerInActiveList(t, expiry, place) ==
    /\ list' = [list EXCEPT ![t] = IF place = "now" THEN "none" ELSE place]
    /\ value' = [value EXCEPT ![t] = IF place = "now" THEN 0 ELSE expiry]

uxListRemove(t) ==
    /\ list' = [list EXCEPT ![t] = "none"]
    /\ value' = [value EXCEPT ![t] = 0]

(* tmrCOMMAND_START_DONT_TRACE, and the assertion that it was queued.      *)
SendReload(t, v, a) ==
    /\ SendCommand(Command("start", t, v, a))
    /\ failed' = (failed \/ ~Accepted)

NoReload == UNCHANGED <<xTimerQueue, failed>>

(* The callback of a timer that was promised for d: an auto-reload timer   *)
(* is promised the next period.                                            *)
CallBack(t, d) ==
    /\ called' = d
    /\ due' = [due EXCEPT ![t] = IF t \in AutoReload THEN d + period[t] ELSE NULL]

-----------------------------------------------------------------------------
(* prvProcessTimerOrBlockTask *)

(* Bug: with the current list empty the overflow list is not looked at.    *)
WaitUnlessOverflow(now) ==
    IF InList("current") # {} THEN value[CHOOSE t \in Heads : TRUE] - now ELSE Forever

(* How long to block for; with the current list empty, until the overflow. *)
TicksToWait(now) ==
    IF InList("current") # {} THEN value[CHOOSE t \in Heads : TRUE] - now
    ELSE IF InList("overflow") # {} THEN Minus(0, now)
    ELSE Forever

Expired == \E t \in Heads : value[t] <= xTickCount

(* With the scheduler suspended: sample, then expire, block, or switch.    *)
prvProcessTimerOrBlockTask ==
    /\ pc = "loop"
    /\ xTimeNow' = IF xTickCount < xLastTime \/ Expired THEN xTickCount ELSE 0
    /\ IF xTickCount < xLastTime
         THEN pc' = "switch" /\ UNCHANGED <<xLastTime, wait>>
         ELSE /\ xLastTime' = xTickCount
              /\ IF Expired THEN pc' = "expire" /\ UNCHANGED wait
                 ELSE IF xTimerQueue # <<>> THEN pc' = "commands" /\ UNCHANGED wait
                 ELSE pc' = "blocked" /\ wait' = TicksToWait(xTickCount)
    /\ UNCHANGED <<xTickCount, xTimerQueue, timerVars, msg, failed>>
    /\ called' = NULL

prvProcessExpiredTimer(t) ==
    /\ pc = "expire"
    /\ t \in Heads
    /\ LET next == Plus(value[t], period[t])
           place == PlaceFor(next, xTimeNow, value[t], period[t])
       IN IF t \notin AutoReload
            THEN uxListRemove(t) /\ NoReload
            ELSE /\ prvInsertTimerInActiveList(t, next, place)
                 /\ IF place = "now" THEN SendReload(t, value[t], -due[t]) ELSE NoReload
    /\ CallBack(t, due[t])
    /\ pc' = "commands"
    /\ xTimeNow' = 0
    /\ UNCHANGED <<xTickCount, period, xLastTime, msg, wait>>

(* A command wakes it; so does the tick, once the wait is over.            *)
Unblock ==
    /\ pc = "blocked"
    /\ xTimerQueue # <<>>
    /\ pc' = "commands"
    /\ wait' = Forever
    /\ UNCHANGED <<xTickCount, xTimerQueue, timerVars, xLastTime, xTimeNow, msg, failed>>
    /\ called' = NULL

-----------------------------------------------------------------------------
(* prvSwitchTimerLists *)

ReloadsBeforeOverflow(t) == Plus(value[t], period[t]) > value[t]

(* What is left in the current list has expired, and expires again as      *)
(* often as it should have before the overflow.                            *)
SwitchExpire(t) ==
    /\ pc = "switch"
    /\ t \in Heads
    /\ IF t \in AutoReload /\ ReloadsBeforeOverflow(t)
         THEN value' = [value EXCEPT ![t] = Plus(@, period[t])] /\ UNCHANGED list /\ NoReload
         ELSE /\ uxListRemove(t)
              /\ IF t \in AutoReload THEN SendReload(t, value[t], -due[t]) ELSE NoReload
    /\ CallBack(t, due[t])
    /\ UNCHANGED <<xTickCount, period, taskVars>>

SwitchDone ==
    /\ pc = "switch"
    /\ InList("current") = {}
    /\ list' = [t \in Timer |-> IF list[t] = "overflow" THEN "current" ELSE "none"]
    /\ xLastTime' = xTimeNow
    /\ IF msg = NULL THEN pc' = "commands" /\ xTimeNow' = 0
                     ELSE pc' = "apply" /\ UNCHANGED xTimeNow
    /\ UNCHANGED <<xTickCount, xTimerQueue, value, period, due, msg, wait, failed>>
    /\ called' = NULL

-----------------------------------------------------------------------------
(* prvProcessReceivedCommands *)

(* The timer is taken out of its list before the time is sampled.          *)
ReceiveMessage ==
    /\ pc = "commands"
    /\ ReceiveCommand
    /\ msg' = Head(xTimerQueue)
    /\ uxListRemove(msg'.timer)
    /\ pc' = "sample"
    /\ UNCHANGED <<xTickCount, period, due, xLastTime, xTimeNow, wait, failed>>
    /\ called' = NULL

NoMoreMessages ==
    /\ pc = "commands"
    /\ xTimerQueue = <<>>
    /\ pc' = "loop"
    /\ UNCHANGED <<xTickCount, xTimerQueue, timerVars, xLastTime, xTimeNow, msg, wait, failed>>
    /\ called' = NULL

SampleTime ==
    /\ pc = "sample"
    /\ xTimeNow' = xTickCount
    /\ IF xTickCount < xLastTime
         THEN pc' = "switch" /\ UNCHANGED xLastTime
         ELSE pc' = "apply" /\ xLastTime' = xTickCount
    /\ UNCHANGED <<xTickCount, xTimerQueue, timerVars, msg, wait, failed>>
    /\ called' = NULL

ApplyStart ==
    LET t == msg.timer
        expiry == Plus(msg.value, period[t])
        place == PlaceFor(expiry, xTimeNow, msg.value, period[t])
        left == period[t] - msg.age
    IN
    /\ msg.op = "start"
    /\ prvInsertTimerInActiveList(t, expiry, place)
    /\ IF place = "now"
         THEN /\ CallBack(t, left)
              /\ IF t \in AutoReload THEN SendReload(t, expiry, -left) ELSE NoReload
         ELSE called' = NULL /\ due' = [due EXCEPT ![t] = left] /\ NoReload
    /\ UNCHANGED period

(* tmrCOMMAND_STOP, and tmrCOMMAND_DELETE of a timer in static memory.     *)
ApplyStop ==
    /\ msg.op = "stop"
    /\ due' = [due EXCEPT ![msg.timer] = NULL]
    /\ called' = NULL
    /\ NoReload
    /\ UNCHANGED <<list, value, period>>

ApplyChangePeriod ==
    LET t == msg.timer
        p == msg.value
        expiry == Plus(xTimeNow, p)
    IN
    /\ msg.op = "change"
    /\ period' = [period EXCEPT ![t] = p]
    /\ prvInsertTimerInActiveList(t, expiry, PlaceFor(expiry, xTimeNow, xTimeNow, p))
    /\ due' = [due EXCEPT ![t] = p - Minus(xTickCount, xTimeNow)]
    /\ called' = NULL
    /\ NoReload

prvProcessReceivedCommand ==
    /\ pc = "apply"
    /\ ApplyStart \/ ApplyStop \/ ApplyChangePeriod
    /\ msg' = NULL
    /\ pc' = "commands"
    /\ xTimeNow' = 0
    /\ UNCHANGED <<xTickCount, xLastTime, wait>>

-----------------------------------------------------------------------------
(* Beside the timer task *)

(* The tick is held back while the lists are switched with the scheduler   *)
(* suspended, and by the two bounds.                                       *)
Tick ==
    /\ pc = "switch" => msg # NULL
    /\ \A t \in Timer : due[t] # NULL => due[t] > -MaxLag
    /\ \A i \in DOMAIN xTimerQueue : xTimerQueue[i].age < MaxAge
    /\ msg # NULL => msg.age < MaxAge
    /\ xTickCount' = Plus(xTickCount, 1)
    /\ xTimerQueue' = [i \in DOMAIN xTimerQueue |-> [xTimerQueue[i] EXCEPT !.age = @ + 1]]
    /\ msg' = IF msg = NULL THEN NULL ELSE [msg EXCEPT !.age = @ + 1]
    /\ due' = [t \in Timer |-> IF due[t] = NULL THEN NULL ELSE due[t] - 1]
    /\ IF pc = "blocked" /\ wait # Forever
         THEN IF wait <= 1 THEN pc' = "commands" /\ wait' = Forever
              ELSE wait' = wait - 1 /\ UNCHANGED pc
         ELSE UNCHANGED <<pc, wait>>
    /\ UNCHANGED <<list, value, period, xLastTime, xTimeNow, failed>>
    /\ called' = NULL

(* A start or reset carries the time at which it was asked for: between    *)
(* that and the queue the caller may have been overtaken.                  *)
xTimerGenericCommand(t) ==
    /\ Len(xTimerQueue) + Room < QueueLength
    /\ \/ \E a \in 0 .. MaxAge - 1 :
             SendCommand(Command("start", t, Minus(xTickCount, a), a))
       \/ SendCommand(Command("stop", t, 0, 0))
       \/ \E p \in Periods : SendCommand(Command("change", t, p, 0))
    /\ UNCHANGED <<xTickCount, timerVars, taskVars, failed>>
    /\ called' = NULL

TimerTask ==
    \/ prvProcessTimerOrBlockTask
    \/ \E t \in Timer : prvProcessExpiredTimer(t) \/ SwitchExpire(t)
    \/ Unblock \/ SwitchDone \/ ReceiveMessage \/ NoMoreMessages
    \/ SampleTime \/ prvProcessReceivedCommand

Next == TimerTask \/ Tick \/ \E t \in Timer : xTimerGenericCommand(t)

Spec == Init /\ [][Next]_vars

-----------------------------------------------------------------------------
(* Properties *)

(* The type invariant; the task is never more than the bounds behind.      *)
TypeOK ==
    /\ {xTickCount, xLastTime, xTimeNow} \subseteq Time
    /\ list \in [Timer -> {"current", "overflow", "none"}]
    /\ value \in [Timer -> Time]
    /\ period \in [Timer -> Periods]
    /\ pc \in {"loop", "expire", "blocked", "switch", "commands", "sample", "apply"}
    /\ pc # "switch" => (msg # NULL) = (pc \in {"sample", "apply"})
    /\ wait \in 0 .. Forever
    /\ due \in [Timer -> (-Late .. Modulus) \cup {NULL}]
    /\ failed \in BOOLEAN
    /\ Len(xTimerQueue) <= QueueLength

(* No callback comes before its time, across the overflow, whatever        *)
(* commands are handled late and wherever the count was sampled.           *)
NeverEarly == called # NULL => called <= 0

(* The timer task does not sleep through an expiry: it wakes no later than *)
(* the first timer is due, or in between for the overflow.                 *)
WakesInTime ==
    pc = "blocked" /\ xTimerQueue = <<>> =>
        \A t \in Timer : due[t] # NULL => wait <= due[t]

(* The assertions of timers.c:504, 787 and 900 hold: a timer that is late  *)
(* finds room in the queue for its reload.  One place for each auto-reload *)
(* timer is enough, because the queue is emptied before the timers are     *)
(* looked at again; without Room the assertions fail.                      *)
ReloadHasRoom == ~failed

=============================================================================
