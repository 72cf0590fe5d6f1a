---------------------------- MODULE TasksProofs ----------------------------
(***************************************************************************)
(* Proofs about module Tasks, for any tasks, sizes, delays and moduli:     *)
(* time is told rightly across overflows of the tick count, and no memory  *)
(* is lost or held twice.                                                  *)
(***************************************************************************)
EXTENDS Tasks, FiniteSetTheorems, WellFoundedInduction, TLAPS

-----------------------------------------------------------------------------
(* Time: the inductive invariant *)

Lists == {Ready, Delayed, Overflow, Suspended, Termination, Nowhere}
TimeOuts == [xOverflowCount : 0 .. OverflowModulus - 1, xTimeOnEntering : Time]

TimeTypes ==
    /\ phase \in [Task -> Phases] /\ stateList \in [Task -> Lists]
    /\ wakeTime \in [Task -> Time] /\ previousWake \in [Task -> Time]
    /\ xTickCount \in Time /\ xNextTaskUnblockTime \in Time
    /\ xNumOfOverflows \in 0 .. OverflowModulus - 1
    /\ eventList \in [Task -> BOOLEAN] /\ resetDue \in BOOLEAN
    /\ call \in [Task -> {"none", "delay", "wait", "periodic"}]
    /\ xTimeOut \in [Task -> TimeOuts] /\ xTicksToWait \in [Task -> Time]
    /\ left \in [Task -> Int \cup {NULL}]

(* Where a task is in its life, and what it does there.                    *)
Placed(t) ==
    /\ phase[t] = "live" => stateList[t] \in {Ready, Delayed, Overflow, Suspended}
    /\ phase[t] = "dying" => stateList[t] = Termination
    /\ phase[t] \notin {"live", "dying"} => stateList[t] = Nowhere
    /\ call[t] # "none" => phase[t] = "live"
    /\ call[t] = "delay" => Asleep(t)
    /\ eventList[t] => call[t] = "wait" /\ stateList[t] # Ready

(* The value of a sleeping task's item is the count when it is to wake.    *)
Wakes(t) ==
    /\ stateList[t] = Delayed =>
          left[t] # NULL /\ left[t] > 0 /\ wakeTime[t] = xTickCount + left[t]
    /\ stateList[t] = Overflow =>
          left[t] # NULL /\ left[t] > 0 /\ wakeTime[t] + Modulus = xTickCount + left[t]

(* A wait that is over after left[t] ticks was last timed at a count that  *)
(* has overflowed not more than once since.                                *)
Waited(t) ==
    call[t] = "wait" =>
        /\ left[t] = NULL <=> xTicksToWait[t] = portMAX_DELAY
        /\ left[t] # NULL =>
             LET at == xTimeOut[t].xTimeOnEntering + (xTicksToWait[t] - left[t])
             IN /\ left[t] <= xTicksToWait[t]
                /\ \/ at = xTickCount /\ xNumOfOverflows = xTimeOut[t].xOverflowCount
                   \/ /\ at = xTickCount + Modulus
                      /\ xNumOfOverflows = (xTimeOut[t].xOverflowCount + 1) % OverflowModulus

(* The end of a period is left[t] ticks ahead or, of a task that is late,  *)
(* behind.                                                                 *)
Periodic(t) ==
    call[t] = "periodic" =>
        /\ left[t] # NULL /\ -Modulus < left[t] /\ left[t] < Modulus
        /\ ~Asleep(t) => left[t] <= 0
        /\ \/ previousWake[t] = xTickCount + left[t]
           \/ previousWake[t] = xTickCount + left[t] + Modulus
           \/ previousWake[t] + Modulus = xTickCount + left[t]

Unblocks(t) == stateList[t] = Delayed => xNextTaskUnblockTime <= wakeTime[t]

Timed(t) == Placed(t) /\ Wakes(t) /\ Waited(t) /\ Periodic(t) /\ Unblocks(t)

TickInv == TimeTypes /\ \A t \in Task : Timed(t)

-----------------------------------------------------------------------------
(* Sets of numbers have a least element. *)

Below == OpToRel(<, Nat)

LEMMA Smaller == \A m, n \in Nat : n < m => <<n, m>> \in Below
<1> SUFFICES ASSUME NEW m \in Nat, NEW n \in Nat, n < m PROVE <<n, m>> \in Below
  OBVIOUS
<1>1. Below = {ss \in Nat \X Nat : ss[1] < ss[2]}
  BY Zenon DEF Below, OpToRel
<1> QED
  BY <1>1

LEMMA Least ==
    ASSUME NEW T \in SUBSET Nat, T # {}
    PROVE  \E m \in T : \A n \in T : m <= n
<1>1. IsWellFoundedOn(Below, Nat)
  BY NatLessThanWellFounded, Zenon DEF Below
<1>2. PICK m \in T : \A n \in T : <<n, m>> \notin Below
  <2> HIDE DEF Below
  <2> QED
    BY <1>1, WFMin, Zenon
<1>3. ASSUME NEW n \in T PROVE m <= n
  <2> HIDE DEF Below
  <2>1. ~(n < m)
    BY <1>2, Smaller
  <2> QED
    BY <2>1
<1> QED
  BY <1>3

-----------------------------------------------------------------------------
(* Counts modulo Modulus. *)

LEMMA PlusIs ==
    ASSUME Modulus \in Nat \ {0}, NEW a \in Time, NEW b \in 0 .. Modulus
    PROVE  /\ Plus(a, b) \in Time
           /\ Plus(a, b) = IF a + b < Modulus THEN a + b ELSE a + b - Modulus
<1>1. CASE a + b < Modulus
  <2>1. a + b \in 0 .. Modulus - 1
    BY <1>1 DEF Time
  <2>2. (a + b) % Modulus = a + b
    BY <2>1, SMT
  <2> QED
    BY <1>1, <2>1, <2>2 DEF Plus, Time
<1>2. CASE ~(a + b < Modulus)
  <2> DEFINE c == a + b - Modulus
  <2>1. c \in 0 .. Modulus - 1 /\ c + Modulus = a + b
    BY <1>2 DEF Time
  <2> HIDE DEF c
  <2>2. (c + Modulus) % Modulus = c
    BY <2>1, SMT
  <2>3. Plus(a, b) = c /\ c \in Time
    BY <2>1, <2>2 DEF Plus, Time
  <2> QED
    BY <1>2, <2>3 DEF c
<1> QED
  BY <1>1, <1>2

LEMMA MinusIs ==
    ASSUME Modulus \in Nat \ {0}, NEW a \in Time, NEW b \in Time
    PROVE  /\ Minus(a, b) \in Time
           /\ Minus(a, b) = IF a >= b THEN a - b ELSE a - b + Modulus
<1>1. (a - b) % Modulus = IF a >= b THEN a - b ELSE a - b + Modulus
  BY SMT DEF Time
<1> QED
  BY <1>1 DEF Minus, Time

LEMMA Moduli ==
    /\ Modulus \in Nat \ {0} /\ Modulus > 1 /\ OverflowModulus \in Nat /\ OverflowModulus > 1
    /\ 0 \in Time /\ portMAX_DELAY \in Time /\ NULL \notin Int
BY TickAssumption, HeapAssumption DEF Time, portMAX_DELAY

LEMMA TimeIs ==
    ASSUME NEW x \in Time
    PROVE  x \in Nat /\ 0 <= x /\ x < Modulus /\ x \in 0 .. Modulus
BY Moduli DEF Time

LEMMA MinIs ==
    ASSUME NEW T \in SUBSET Time, T # {}
    PROVE  Min(T) \in T /\ \A n \in T : Min(T) <= n
<1>1. T \in SUBSET Nat
  BY DEF Time
<1>2. \E m \in T : \A n \in T : m <= n
  BY <1>1, Least
<1> QED
  BY <1>2 DEF Min

(* xNextTaskUnblockTime after a reset.                                     *)
LEMMA HeadTimeIs ==
    ASSUME wakeTime \in [Task -> Time], NEW S \in SUBSET Task
    PROVE  /\ HeadTime(S) \in Time
           /\ \A t \in S : HeadTime(S) <= wakeTime[t]
           /\ S # {} => \E t \in S : HeadTime(S) = wakeTime[t]
<1>1. CASE S = {}
  BY <1>1, Moduli DEF HeadTime
<1>2. CASE S # {}
  <2> DEFINE T == {wakeTime[t] : t \in S}
  <2>1. T \in SUBSET Time /\ T # {} /\ \A t \in S : wakeTime[t] \in T
    BY <1>2
  <2>2. HeadTime(S) = Min(T)
    BY <1>2 DEF HeadTime
  <2> HIDE DEF T
  <2>3. Min(T) \in T /\ \A n \in T : Min(T) <= n
    BY <2>1, MinIs
  <2>4. \A x \in T : \E t \in S : x = wakeTime[t]
    BY DEF T
  <2> QED
    BY <2>1, <2>2, <2>3, <2>4
<1> QED
  BY <1>1, <1>2

LEMMA ResetIs ==
    ASSUME prvResetNextTaskUnblockTime, wakeTime' \in [Task -> Time]
    PROVE  /\ xNextTaskUnblockTime' \in Time
           /\ \A t \in Task : stateList'[t] = Delayed => xNextTaskUnblockTime' <= wakeTime'[t]
<1>1. xNextTaskUnblockTime' = HeadTime(In(Delayed))'
  BY DEF prvResetNextTaskUnblockTime
<1> DEFINE S == {t \in Task : stateList'[t] = Delayed}
<1>2. CASE S = {}
  BY <1>1, <1>2, Moduli DEF HeadTime, In
<1>3. CASE S # {}
  <2> DEFINE T == {wakeTime'[t] : t \in S}
  <2>1. T \in SUBSET Time /\ T # {} /\ \A t \in S : wakeTime'[t] \in T
    BY <1>3
  <2>2. xNextTaskUnblockTime' = Min(T)
    BY <1>1, <1>3 DEF HeadTime, In
  <2> HIDE DEF T
  <2>3. Min(T) \in T /\ \A n \in T : Min(T) <= n
    BY <2>1, MinIs
  <2> QED
    BY <2>1, <2>2, <2>3
<1> QED
  BY <1>2, <1>3

-----------------------------------------------------------------------------
(* The steps that move one task. *)

(* All but t are where they were, and the count stands still.              *)
LEMMA OneMoves ==
    ASSUME TickInv, NEW t \in Task, TimeTypes', Timed(t)',
           xTickCount' = xTickCount, xNumOfOverflows' = xNumOfOverflows,
           \A u \in Task \ {t} :
               /\ phase'[u] = phase[u] /\ stateList'[u] = stateList[u]
               /\ wakeTime'[u] = wakeTime[u] /\ eventList'[u] = eventList[u]
               /\ call'[u] = call[u] /\ xTimeOut'[u] = xTimeOut[u]
               /\ xTicksToWait'[u] = xTicksToWait[u] /\ previousWake'[u] = previousWake[u]
               /\ left'[u] = left[u],
           \/ xNextTaskUnblockTime' <= xNextTaskUnblockTime
           \/ \A u \in Task : Unblocks(u)'
    PROVE  TickInv'
<1> SUFFICES ASSUME NEW u \in Task \ {t} PROVE Timed(u)'
  BY DEF TickInv
<1>1. Timed(u)
  BY DEF TickInv
<1>2. Placed(u)'
  BY <1>1 DEF Timed, Placed, Asleep
<1>3. Wakes(u)' /\ Waited(u)'
  BY <1>1 DEF Timed, Wakes, Waited
<1>4. Periodic(u)'
  BY <1>1 DEF Timed, Periodic, Asleep
<1>5. Unblocks(u)'
  <2>1. CASE \A v \in Task : Unblocks(v)'
    BY <2>1
  <2>2. CASE xNextTaskUnblockTime' <= xNextTaskUnblockTime
    <3>1. /\ xNextTaskUnblockTime' \in Nat /\ xNextTaskUnblockTime \in Nat /\ wakeTime[u] \in Nat
      BY DEF TickInv, TimeTypes, Time
    <3> QED
      BY <1>1, <2>2, <3>1 DEF Timed, Unblocks
  <2> QED
    BY <2>1, <2>2
<1> QED
  BY <1>2, <1>3, <1>4, <1>5 DEF Timed

(* MoveTo, EndCall, and the placing of a sleeping task, by their values.   *)
LEMMA MoveIs ==
    ASSUME TimeTypes, NEW t \in Task, NEW list \in Lists, MoveTo(t, list)
    PROVE  /\ stateList' \in [Task -> Lists] /\ wakeTime' \in [Task -> Time]
           /\ eventList' \in [Task -> BOOLEAN]
           /\ stateList'[t] = list /\ wakeTime'[t] = 0 /\ eventList'[t] = FALSE
           /\ \A u \in Task \ {t} : /\ stateList'[u] = stateList[u]
                                    /\ wakeTime'[u] = wakeTime[u]
                                    /\ eventList'[u] = eventList[u]
BY Moduli DEF TimeTypes, MoveTo

LEMMA EndIs ==
    ASSUME TimeTypes, NEW t \in Task, EndCall(t)
    PROVE  /\ call' \in [Task -> {"none", "delay", "wait", "periodic"}]
           /\ xTimeOut' \in [Task -> TimeOuts] /\ xTicksToWait' \in [Task -> Time]
           /\ previousWake' \in [Task -> Time] /\ left' \in [Task -> Int \cup {NULL}]
           /\ call'[t] = "none" /\ left'[t] = NULL
           /\ \A u \in Task \ {t} :
               /\ call'[u] = call[u] /\ xTimeOut'[u] = xTimeOut[u]
               /\ xTicksToWait'[u] = xTicksToWait[u] /\ previousWake'[u] = previousWake[u]
               /\ left'[u] = left[u]
<1>1. NoTimeOut \in TimeOuts /\ 0 \in Time
  BY Moduli DEF NoTimeOut, TimeOut, TimeOuts
<1> QED
  BY <1>1 DEF TimeTypes, EndCall

(* A task in no call that does not sleep.                                  *)
LEMMA AtRest ==
    ASSUME NEW t, call'[t] = "none", eventList'[t] = FALSE,
           stateList'[t] \notin {Delayed, Overflow},
           /\ phase'[t] = "live" => stateList'[t] \in {Ready, Delayed, Overflow, Suspended}
           /\ phase'[t] = "dying" => stateList'[t] = Termination
           /\ phase'[t] \notin {"live", "dying"} => stateList'[t] = Nowhere
    PROVE  Timed(t)'
BY DEF Timed, Placed, Wakes, Waited, Periodic, Unblocks

LEMMA AddIs ==
    ASSUME TimeTypes, NEW t \in Task, NEW n \in Time, NEW c \in BOOLEAN,
           prvAddCurrentTaskToDelayedList(t, n, c), ~(n = portMAX_DELAY /\ c)
    PROVE  /\ stateList' \in [Task -> Lists] /\ wakeTime' \in [Task -> Time]
           /\ xNextTaskUnblockTime' \in Time /\ xNextTaskUnblockTime' <= xNextTaskUnblockTime
           /\ \A u \in Task \ {t} : stateList'[u] = stateList[u] /\ wakeTime'[u] = wakeTime[u]
           /\ \/ /\ stateList'[t] = Delayed /\ wakeTime'[t] = xTickCount + n
                 /\ xNextTaskUnblockTime' <= wakeTime'[t]
              \/ stateList'[t] = Overflow /\ wakeTime'[t] + Modulus = xTickCount + n
<1> DEFINE w == Plus(xTickCount, n)
<1>1. /\ xTickCount \in Time /\ xNextTaskUnblockTime \in Time /\ n \in 0 .. Modulus
      /\ xTickCount \in Nat /\ xTickCount < Modulus /\ n \in Nat /\ n < Modulus
      /\ xNextTaskUnblockTime \in Nat /\ Modulus \in Nat \ {0}
  BY TimeIs, Moduli DEF TimeTypes
<1>2. /\ stateList' = [stateList EXCEPT ![t] = IF w < xTickCount THEN Overflow ELSE Delayed]
      /\ wakeTime' = [wakeTime EXCEPT ![t] = w]
      /\ xNextTaskUnblockTime' = IF ~(w < xTickCount) /\ w < xNextTaskUnblockTime
                                   THEN w ELSE xNextTaskUnblockTime
  BY DEF prvAddCurrentTaskToDelayedList
<1>3. w \in Time /\ w = IF xTickCount + n < Modulus THEN xTickCount + n ELSE xTickCount + n - Modulus
  BY <1>1, PlusIs
<1>4. w \in Nat
  BY <1>3, TimeIs
<1> HIDE DEF w
<1>5. {Delayed, Overflow} \subseteq Lists
  BY DEF Lists
<1>6. CASE w < xTickCount
  <2>1. w + Modulus = xTickCount + n
    BY <1>1, <1>3, <1>4, <1>6
  <2>2. /\ stateList' = [stateList EXCEPT ![t] = Overflow]
        /\ xNextTaskUnblockTime' = xNextTaskUnblockTime
    BY <1>2, <1>6
  <2> QED
    BY <1>1, <1>2, <1>3, <1>5, <2>1, <2>2 DEF TimeTypes
<1>7. CASE ~(w < xTickCount)
  <2>1. w = xTickCount + n
    BY <1>1, <1>3, <1>4, <1>7
  <2>2. /\ stateList' = [stateList EXCEPT ![t] = Delayed]
        /\ xNextTaskUnblockTime' = IF w < xNextTaskUnblockTime THEN w ELSE xNextTaskUnblockTime
    BY <1>2, <1>7
  <2>3. /\ xNextTaskUnblockTime' \in Time /\ xNextTaskUnblockTime' <= xNextTaskUnblockTime
        /\ xNextTaskUnblockTime' <= w
    BY <1>1, <1>3, <1>4, <2>2
  <2> QED
    BY <1>2, <1>3, <1>5, <2>1, <2>2, <2>3 DEF TimeTypes
<1> QED
  BY <1>6, <1>7

(* The clauses of Timed for a task of which the step gives the values.     *)
LEMMA Lists6 ==
    /\ Ready \notin {Delayed, Overflow, Suspended, Termination, Nowhere}
    /\ Delayed \notin {Overflow, Suspended, Termination, Nowhere}
    /\ Overflow \notin {Suspended, Termination, Nowhere}
    /\ Suspended \notin {Termination, Nowhere} /\ Termination # Nowhere
    /\ {Ready, Delayed, Overflow, Suspended, Termination, Nowhere} \subseteq Lists
BY DEF Ready, Delayed, Overflow, Suspended, Termination, Nowhere, Lists

LEMMA TimedNow ==
    ASSUME TickInv, NEW t \in Task
    PROVE  /\ Placed(t) /\ Wakes(t) /\ Waited(t) /\ Periodic(t) /\ Unblocks(t) /\ TimeTypes
           /\ phase[t] \in Phases /\ stateList[t] \in Lists /\ wakeTime[t] \in Time
           /\ previousWake[t] \in Time /\ xTicksToWait[t] \in Time
           /\ xTimeOut[t] \in TimeOuts /\ left[t] \in Int \cup {NULL}
           /\ call[t] \in {"none", "delay", "wait", "periodic"}
           /\ Asleep(t) <=> stateList[t] \in {Delayed, Overflow}
BY DEF TickInv, Timed, TimeTypes, Asleep

-----------------------------------------------------------------------------
(* Creation and deletion. *)

(* Only how far t has come changes, outside its life.                      *)
LEMMA PhaseMoves ==
    ASSUME TickInv, NEW t \in Task, NEW p \in Phases \ {"live", "dying"}, Become(t, p),
           phase[t] \notin {"live", "dying"}, UNCHANGED <<tickVars, listVars, resetDue, callVars>>
    PROVE  TickInv'
<1>1. /\ UNCHANGED <<xTickCount, xNumOfOverflows, xNextTaskUnblockTime, stateList, wakeTime, eventList>>
      /\ UNCHANGED <<resetDue, call, xTimeOut, xTicksToWait, previousWake, left>>
  BY DEF tickVars, listVars, callVars
<1>2. /\ phase' \in [Task -> Phases] /\ phase'[t] = p
      /\ \A u \in Task \ {t} : phase'[u] = phase[u]
  BY DEF TickInv, TimeTypes, Become
<1>3. TimeTypes'
  BY <1>1, <1>2 DEF TickInv, TimeTypes
<1>4. /\ stateList[t] = Nowhere /\ call[t] = "none" /\ ~eventList[t] /\ eventList[t] \in BOOLEAN
  BY TimedNow DEF Placed, TimeTypes
<1>5. Timed(t)'
  BY <1>1, <1>2, <1>4, AtRest, Lists6
<1>6. xNextTaskUnblockTime' <= xNextTaskUnblockTime
  BY <1>1, TimedNow, TimeIs DEF TimeTypes
<1> QED
  BY <1>1, <1>2, <1>3, <1>5, <1>6, OneMoves

LEMMA CreateKeeps ==
    ASSUME TickInv, NEW t \in Task,
           AllocateStack(t) \/ AllocateTCB(t) \/ FreeStack(t)
    PROVE  TickInv'
<1>1. /\ phase[t] \notin {"live", "dying"}
      /\ UNCHANGED <<tickVars, listVars, resetDue, callVars>>
      /\ Become(t, "stack") \/ Become(t, "undo") \/ Become(t, "new") \/ Become(t, "absent")
  BY DEF AllocateStack, AllocateTCB, FreeStack
<1>2. {"stack", "undo", "new", "absent"} \subseteq Phases \ {"live", "dying"}
  BY DEF Phases
<1> QED
  BY <1>1, <1>2, PhaseMoves

LEMMA AddKeeps ==
    ASSUME TickInv, NEW t \in Task, prvAddNewTaskToReadyList(t)
    PROVE  TickInv'
<1>1. /\ phase[t] = "new" /\ Become(t, "live") /\ stateList' = [stateList EXCEPT ![t] = Ready]
      /\ UNCHANGED <<xTickCount, xNumOfOverflows, xNextTaskUnblockTime, wakeTime, eventList>>
      /\ UNCHANGED <<resetDue, call, xTimeOut, xTicksToWait, previousWake, left>>
  BY DEF prvAddNewTaskToReadyList, tickVars, callVars
<1>2. /\ phase' \in [Task -> Phases] /\ stateList' \in [Task -> Lists]
      /\ phase'[t] = "live" /\ stateList'[t] = Ready
      /\ \A u \in Task \ {t} : phase'[u] = phase[u] /\ stateList'[u] = stateList[u]
  BY <1>1, Lists6 DEF TickInv, TimeTypes, Become, Phases
<1>3. TimeTypes'
  BY <1>1, <1>2 DEF TickInv, TimeTypes
<1>4. call[t] = "none" /\ ~eventList[t] /\ eventList[t] \in BOOLEAN
  BY <1>1, TimedNow DEF Placed, TimeTypes
<1>5. Timed(t)'
  BY <1>1, <1>2, <1>4, AtRest, Lists6
<1>6. xNextTaskUnblockTime' <= xNextTaskUnblockTime
  BY <1>1, TimedNow, TimeIs DEF TimeTypes
<1> QED
  BY <1>1, <1>2, <1>3, <1>5, <1>6, OneMoves

LEMMA DeleteKeeps ==
    ASSUME TickInv, NEW t \in Task, vTaskDelete(t)
    PROVE  TickInv'
<1>1. /\ MoveTo(t, Nowhere) /\ Become(t, "absent") /\ prvResetNextTaskUnblockTime /\ EndCall(t)
      /\ UNCHANGED <<xTickCount, xNumOfOverflows, resetDue>> /\ TimeTypes
  BY DEF vTaskDelete, prvDeleteTCB, TickInv
<1>2. /\ stateList' \in [Task -> Lists] /\ wakeTime' \in [Task -> Time]
      /\ eventList' \in [Task -> BOOLEAN]
      /\ stateList'[t] = Nowhere /\ eventList'[t] = FALSE
      /\ \A u \in Task \ {t} : /\ stateList'[u] = stateList[u] /\ wakeTime'[u] = wakeTime[u]
                               /\ eventList'[u] = eventList[u]
  BY <1>1, MoveIs, Lists6
<1>3. /\ call' \in [Task -> {"none", "delay", "wait", "periodic"}]
      /\ xTimeOut' \in [Task -> TimeOuts] /\ xTicksToWait' \in [Task -> Time]
      /\ previousWake' \in [Task -> Time] /\ left' \in [Task -> Int \cup {NULL}]
      /\ call'[t] = "none"
      /\ \A u \in Task \ {t} :
               /\ call'[u] = call[u] /\ xTimeOut'[u] = xTimeOut[u]
               /\ xTicksToWait'[u] = xTicksToWait[u] /\ previousWake'[u] = previousWake[u]
               /\ left'[u] = left[u]
  BY <1>1, EndIs
<1>4. /\ phase' \in [Task -> Phases] /\ phase'[t] = "absent"
      /\ \A u \in Task \ {t} : phase'[u] = phase[u]
  BY <1>1 DEF TimeTypes, Become, Phases
<1>5. /\ xNextTaskUnblockTime' \in Time
      /\ \A u \in Task : Unblocks(u)'
  BY <1>1, <1>2, ResetIs DEF Unblocks
<1>6. TimeTypes'
  BY <1>1, <1>2, <1>3, <1>4, <1>5 DEF TimeTypes
<1>7. Timed(t)'
  BY <1>2, <1>3, <1>4, AtRest, Lists6
<1> QED
  BY <1>1, <1>2, <1>3, <1>4, <1>5, <1>6, <1>7, OneMoves

(* A task at rest after a step in which no reset is made.                  *)
LEMMA RestKeeps ==
    ASSUME TickInv, NEW t \in Task, NEW list \in Lists \ {Delayed, Overflow}, MoveTo(t, list),
           EndCall(t), phase' \in [Task -> Phases],
           \A u \in Task \ {t} : phase'[u] = phase[u],
           /\ phase'[t] = "live" => list \in {Ready, Suspended}
           /\ phase'[t] = "dying" => list = Termination
           /\ phase'[t] \notin {"live", "dying"} => list = Nowhere,
           UNCHANGED tickVars, resetDue' \in BOOLEAN
    PROVE  TickInv'
<1>1. TimeTypes /\ UNCHANGED <<xTickCount, xNumOfOverflows, xNextTaskUnblockTime>>
  BY DEF TickInv, tickVars
<1>2. /\ stateList' \in [Task -> Lists] /\ wakeTime' \in [Task -> Time]
      /\ eventList' \in [Task -> BOOLEAN]
      /\ stateList'[t] = list /\ eventList'[t] = FALSE
      /\ \A u \in Task \ {t} : /\ stateList'[u] = stateList[u] /\ wakeTime'[u] = wakeTime[u]
                               /\ eventList'[u] = eventList[u]
  BY <1>1, MoveIs
<1>3. /\ call' \in [Task -> {"none", "delay", "wait", "periodic"}]
      /\ xTimeOut' \in [Task -> TimeOuts] /\ xTicksToWait' \in [Task -> Time]
      /\ previousWake' \in [Task -> Time] /\ left' \in [Task -> Int \cup {NULL}]
      /\ call'[t] = "none"
      /\ \A u \in Task \ {t} :
               /\ call'[u] = call[u] /\ xTimeOut'[u] = xTimeOut[u]
               /\ xTicksToWait'[u] = xTicksToWait[u] /\ previousWake'[u] = previousWake[u]
               /\ left'[u] = left[u]
  BY <1>1, EndIs
<1>4. TimeTypes'
  BY <1>1, <1>2, <1>3 DEF TimeTypes
<1>5. Timed(t)'
  BY <1>2, <1>3, AtRest, Lists6
<1>6. xNextTaskUnblockTime' <= xNextTaskUnblockTime
  BY <1>1, TimeIs DEF TimeTypes
<1> QED
  BY <1>1, <1>2, <1>3, <1>4, <1>5, <1>6, OneMoves

LEMMA DeleteSelfKeeps ==
    ASSUME TickInv, NEW t \in Task, DeleteSelf(t)
    PROVE  TickInv'
<1>1. /\ MoveTo(t, Termination) /\ Become(t, "dying") /\ EndCall(t) /\ UNCHANGED <<tickVars, resetDue>>
      /\ TimeTypes
  BY DEF DeleteSelf, TickInv
<1>2. /\ phase' \in [Task -> Phases] /\ phase'[t] = "dying"
      /\ \A u \in Task \ {t} : phase'[u] = phase[u]
  BY <1>1 DEF TimeTypes, Become, Phases
<1>3. Termination \in Lists \ {Delayed, Overflow} /\ resetDue' \in BOOLEAN
  BY <1>1, Lists6 DEF TimeTypes
<1> QED
  BY <1>1, <1>2, <1>3, RestKeeps

LEMMA ReclaimKeeps ==
    ASSUME TickInv, NEW t \in Task, prvCheckTasksWaitingTermination(t)
    PROVE  TickInv'
<1>1. CASE phase[t] = "dying"
  <2>1. /\ Become(t, "reclaimed") /\ stateList' = [stateList EXCEPT ![t] = Nowhere]
        /\ UNCHANGED <<xTickCount, xNumOfOverflows, xNextTaskUnblockTime, wakeTime, eventList>>
        /\ UNCHANGED <<resetDue, call, xTimeOut, xTicksToWait, previousWake, left>>
    BY <1>1 DEF prvCheckTasksWaitingTermination, tickVars, callVars
  <2>2. /\ phase' \in [Task -> Phases] /\ stateList' \in [Task -> Lists]
        /\ phase'[t] = "reclaimed" /\ stateList'[t] = Nowhere
        /\ \A u \in Task \ {t} : phase'[u] = phase[u] /\ stateList'[u] = stateList[u]
    BY <2>1, Lists6 DEF TickInv, TimeTypes, Become, Phases
  <2>3. TimeTypes'
    BY <2>1, <2>2 DEF TickInv, TimeTypes
  <2>4. call[t] = "none" /\ ~eventList[t] /\ eventList[t] \in BOOLEAN
    BY <1>1, TimedNow DEF Placed, TimeTypes
  <2>5. Timed(t)'
    BY <2>1, <2>2, <2>4, AtRest, Lists6
  <2>6. xNextTaskUnblockTime' <= xNextTaskUnblockTime
    BY <2>1, TimedNow, TimeIs DEF TimeTypes
  <2> QED
    BY <2>1, <2>2, <2>3, <2>5, <2>6, OneMoves
<1>2. CASE phase[t] = "reclaimed" /\ pxStack[t] # NULL
  <2>1. UNCHANGED <<phase, tickVars, listVars, resetDue, callVars>>
    BY <1>2 DEF prvCheckTasksWaitingTermination
  <2>2. phase = [phase EXCEPT ![t] = "reclaimed"]
    BY <1>2 DEF TickInv, TimeTypes
  <2>3. "reclaimed" \in Phases \ {"live", "dying"} /\ Become(t, "reclaimed")
    BY <2>1, <2>2 DEF Phases, Become
  <2> QED
    BY <1>2, <2>1, <2>3, PhaseMoves
<1>3. CASE phase[t] = "reclaimed" /\ pxStack[t] = NULL
  <2>1. Become(t, "absent") /\ UNCHANGED <<tickVars, listVars, resetDue, callVars>>
    BY <1>3 DEF prvCheckTasksWaitingTermination
  <2>2. "absent" \in Phases \ {"live", "dying"}
    BY DEF Phases
  <2> QED
    BY <1>3, <2>1, <2>2, PhaseMoves
<1> QED
  BY <1>1, <1>2, <1>3 DEF prvCheckTasksWaitingTermination
-----------------------------------------------------------------------------
(* Delays, waits and periods. *)

LEMMA DelayKeeps ==
    ASSUME TickInv, NEW t \in Task, vTaskDelay(t)
    PROVE  TickInv'
<1>1. PICK n \in Delays[t] : /\ prvAddCurrentTaskToDelayedList(t, n, FALSE)
                             /\ left' = [left EXCEPT ![t] = n]
  BY DEF vTaskDelay
<1>2. n \in Time /\ n \in Nat /\ n > 0
  BY TasksAssumption, TimeIs
<1>3. /\ TimeTypes /\ phase[t] = "live" /\ call[t] = "none" /\ call' = [call EXCEPT ![t] = "delay"]
      /\ UNCHANGED <<phase, xTickCount, xNumOfOverflows, eventList, resetDue>>
      /\ UNCHANGED <<xTimeOut, xTicksToWait, previousWake>>
  BY DEF vTaskDelay, Idles, Runs, Live, memoryVars, TickInv
<1>4. /\ stateList' \in [Task -> Lists] /\ wakeTime' \in [Task -> Time]
      /\ xNextTaskUnblockTime' \in Time /\ xNextTaskUnblockTime' <= xNextTaskUnblockTime
      /\ \A u \in Task \ {t} : stateList'[u] = stateList[u] /\ wakeTime'[u] = wakeTime[u]
      /\ \/ /\ stateList'[t] = Delayed /\ wakeTime'[t] = xTickCount + n
            /\ xNextTaskUnblockTime' <= wakeTime'[t]
         \/ stateList'[t] = Overflow /\ wakeTime'[t] + Modulus = xTickCount + n
  BY <1>1, <1>2, <1>3, AddIs
<1>5. /\ call' \in [Task -> {"none", "delay", "wait", "periodic"}] /\ call'[t] = "delay"
      /\ left' \in [Task -> Int \cup {NULL}] /\ left'[t] = n
      /\ \A u \in Task \ {t} : call'[u] = call[u] /\ left'[u] = left[u]
  BY <1>1, <1>2, <1>3 DEF TimeTypes
<1>6. TimeTypes'
  BY <1>3, <1>4, <1>5 DEF TimeTypes
<1>7. ~eventList[t] /\ eventList[t] \in BOOLEAN /\ n # NULL
  BY <1>2, <1>3, TimedNow, Moduli DEF Placed, TimeTypes
<1>8. Placed(t)'
  BY <1>3, <1>4, <1>5, <1>7, Lists6 DEF Placed, Asleep
<1>9. Wakes(t)' /\ Unblocks(t)'
  BY <1>2, <1>3, <1>4, <1>5, <1>7, Lists6 DEF Wakes, Unblocks
<1>10. Waited(t)' /\ Periodic(t)'
  BY <1>5 DEF Waited, Periodic
<1> QED
  BY <1>3, <1>4, <1>5, <1>6, <1>8, <1>9, <1>10, OneMoves DEF Timed

(* A running task begins or goes on with a call and stays ready.           *)
LEMMA ReadyKeeps ==
    ASSUME TickInv, NEW t \in Task, phase[t] = "live", stateList[t] = Ready,
           UNCHANGED <<phase, tickVars, listVars, resetDue>>,
           call' \in [Task -> {"none", "delay", "wait", "periodic"}],
           xTimeOut' \in [Task -> TimeOuts], xTicksToWait' \in [Task -> Time],
           previousWake' \in [Task -> Time], left' \in [Task -> Int \cup {NULL}],
           \A u \in Task \ {t} :
               /\ call'[u] = call[u] /\ xTimeOut'[u] = xTimeOut[u]
               /\ xTicksToWait'[u] = xTicksToWait[u] /\ previousWake'[u] = previousWake[u]
               /\ left'[u] = left[u],
           call'[t] # "delay",
           Waited(t)', Periodic(t)'
    PROVE  TickInv'
<1>1. /\ UNCHANGED <<xTickCount, xNumOfOverflows, xNextTaskUnblockTime, stateList, wakeTime, eventList>>
      /\ UNCHANGED <<phase, resetDue>> /\ TimeTypes
  BY DEF tickVars, listVars, TickInv
<1>2. TimeTypes'
  BY <1>1 DEF TimeTypes
<1>3. eventList[t] = FALSE
  BY <1>1, TimedNow DEF Placed, TimeTypes
<1>4. Placed(t)' /\ Wakes(t)' /\ Unblocks(t)'
  BY <1>1, <1>3, Lists6 DEF Placed, Wakes, Unblocks
<1>5. xNextTaskUnblockTime' <= xNextTaskUnblockTime
  BY <1>1, TimeIs DEF TimeTypes
<1> QED
  BY <1>1, <1>2, <1>4, <1>5, OneMoves DEF Timed

(* A running task's call is over.                                          *)
LEMMA EndKeeps ==
    ASSUME TickInv, NEW t \in Task, Runs(t), EndCall(t),
           UNCHANGED <<phase, tickVars, listVars, resetDue>>
    PROVE  TickInv'
<1>1. phase[t] = "live" /\ stateList[t] = Ready /\ TimeTypes
  BY DEF Runs, Live, TickInv
<1>2. /\ call' \in [Task -> {"none", "delay", "wait", "periodic"}]
      /\ xTimeOut' \in [Task -> TimeOuts] /\ xTicksToWait' \in [Task -> Time]
      /\ previousWake' \in [Task -> Time] /\ left' \in [Task -> Int \cup {NULL}]
      /\ call'[t] = "none"
      /\ \A u \in Task \ {t} :
               /\ call'[u] = call[u] /\ xTimeOut'[u] = xTimeOut[u]
               /\ xTicksToWait'[u] = xTicksToWait[u] /\ previousWake'[u] = previousWake[u]
               /\ left'[u] = left[u]
  BY <1>1, EndIs
<1>3. Waited(t)' /\ Periodic(t)'
  BY <1>2 DEF Waited, Periodic
<1> QED
  BY <1>1, <1>2, <1>3, ReadyKeeps

LEMMA BeginWaitKeeps ==
    ASSUME TickInv, NEW t \in Task, BeginWait(t)
    PROVE  TickInv'
<1>1. PICK n \in Waits[t] :
          /\ xTicksToWait' = [xTicksToWait EXCEPT ![t] = n]
          /\ left' = [left EXCEPT ![t] = IF n = portMAX_DELAY THEN NULL ELSE n]
  BY DEF BeginWait
<1>2. n \in Time /\ n \in Nat /\ NULL \notin Int
  BY TasksAssumption, TimeIs, Moduli
<1>3. /\ TimeTypes /\ phase[t] = "live" /\ stateList[t] = Ready
      /\ UNCHANGED <<phase, tickVars, listVars, resetDue>> /\ previousWake' = previousWake
      /\ call' = [call EXCEPT ![t] = "wait"]
      /\ xTimeOut' = [xTimeOut EXCEPT ![t] = vTaskInternalSetTimeOutState]
      /\ xTickCount' = xTickCount /\ xNumOfOverflows' = xNumOfOverflows
  BY DEF BeginWait, Idles, Runs, Live, memoryVars, tickVars, TickInv
<1> DEFINE now == vTaskInternalSetTimeOutState
<1>4. now \in TimeOuts /\ now.xTimeOnEntering = xTickCount /\ now.xOverflowCount = xNumOfOverflows
  BY <1>3 DEF vTaskInternalSetTimeOutState, TimeOut, TimeOuts, TimeTypes
<1>5. xTickCount \in Nat
  BY <1>3, TimeIs DEF TimeTypes
<1> HIDE DEF now
<1>6. /\ call' \in [Task -> {"none", "delay", "wait", "periodic"}]
      /\ xTimeOut' \in [Task -> TimeOuts] /\ xTicksToWait' \in [Task -> Time]
      /\ previousWake' \in [Task -> Time] /\ left' \in [Task -> Int \cup {NULL}]
      /\ call'[t] = "wait" /\ xTimeOut'[t] = now /\ xTicksToWait'[t] = n
      /\ left'[t] = IF n = portMAX_DELAY THEN NULL ELSE n
      /\ \A u \in Task \ {t} :
               /\ call'[u] = call[u] /\ xTimeOut'[u] = xTimeOut[u]
               /\ xTicksToWait'[u] = xTicksToWait[u] /\ previousWake'[u] = previousWake[u]
               /\ left'[u] = left[u]
  BY <1>1, <1>2, <1>3, <1>4 DEF TimeTypes, now
<1>7. Waited(t)' /\ Periodic(t)'
  BY <1>2, <1>3, <1>4, <1>5, <1>6 DEF Waited, Periodic
<1> QED
  BY <1>3, <1>6, <1>7, ReadyKeeps

LEMMA EndWaitKeeps ==
    ASSUME TickInv, NEW t \in Task, EndWait(t) \/ EndPeriodic(t)
    PROVE  TickInv'
BY EndKeeps DEF EndWait, EndPeriodic, memoryVars

(* What xTaskCheckForTimeOut computes, against the ticks that are left.    *)
LEMMA TimeOutIs ==
    ASSUME TickInv, NEW t \in Task, call[t] = "wait"
    PROVE  /\ TimedOut(xTimeOut[t], xTicksToWait[t]) <=> left[t] # NULL /\ left[t] <= 0
           /\ left[t] # NULL /\ ~TimedOut(xTimeOut[t], xTicksToWait[t]) =>
                TicksLeft(xTimeOut[t], xTicksToWait[t]) = left[t]
           /\ left[t] = NULL => TicksLeft(xTimeOut[t], xTicksToWait[t]) = portMAX_DELAY
<1> DEFINE enter == xTimeOut[t].xTimeOnEntering
           over == xTimeOut[t].xOverflowCount
           x == xTickCount
           ticks == xTicksToWait[t]
           n == left[t]
           gone == Minus(x, enter)
<1>1. CASE n = NULL
  <2>1. ticks = portMAX_DELAY
    BY <1>1, TimedNow DEF Waited
  <2> QED
    BY <1>1, <2>1 DEF TimedOut, TicksLeft
<1>2. CASE n # NULL
  <2>1. /\ ticks # portMAX_DELAY /\ n <= ticks
        /\ \/ enter + (ticks - n) = x /\ xNumOfOverflows = over
           \/ /\ enter + (ticks - n) = x + Modulus
              /\ xNumOfOverflows = (over + 1) % OverflowModulus
    BY <1>2, TimedNow DEF Waited
  <2>2. /\ enter \in Time /\ x \in Time /\ enter \in Nat /\ x \in Nat /\ ticks \in Nat /\ n \in Int
        /\ enter < Modulus /\ x < Modulus /\ ticks < Modulus /\ Modulus \in Nat \ {0}
        /\ over \in 0 .. OverflowModulus - 1 /\ OverflowModulus \in Nat /\ OverflowModulus > 1
    BY <1>2, TimedNow, TimeIs, Moduli DEF TimeTypes, TimeOuts
  <2>3. gone \in Nat /\ gone = IF x >= enter THEN x - enter ELSE x - enter + Modulus
    BY <2>2, MinusIs, TimeIs
  <2>4. /\ TimedOut(xTimeOut[t], ticks) <=>
             (xNumOfOverflows # over /\ x >= enter) \/ gone >= ticks
        /\ TicksLeft(xTimeOut[t], ticks) = ticks - gone
    BY <2>1 DEF TimedOut, TicksLeft
  <2>5. (over + 1) % OverflowModulus # over
    <3>1. CASE over + 1 < OverflowModulus
      <4>1. (over + 1) % OverflowModulus = over + 1
        BY <2>2, <3>1, SMT
      <4> QED
        BY <2>2, <4>1
    <3>2. CASE ~(over + 1 < OverflowModulus)
      <4>1. over + 1 = OverflowModulus
        BY <2>2, <3>2
      <4>2. OverflowModulus % OverflowModulus = 0
        BY <2>2, SMT
      <4> QED
        BY <2>2, <4>1, <4>2
    <3> QED
      BY <3>1, <3>2
  <2> HIDE DEF enter, over, x, ticks, n, gone
  <2>6. CASE enter + (ticks - n) = x /\ xNumOfOverflows = over
    <3>1. gone = ticks - n
      BY <2>1, <2>2, <2>3, <2>6
    <3>2. gone >= ticks <=> n <= 0
      BY <2>2, <3>1
    <3>3. ticks - gone = n
      BY <2>2, <3>1
    <3> QED
      BY <1>2, <2>4, <2>6, <3>2, <3>3 DEF n, ticks
  <2>7. CASE /\ enter + (ticks - n) = x + Modulus
             /\ xNumOfOverflows = (over + 1) % OverflowModulus
    <3>1. CASE x >= enter
      <4>1. n <= 0
        BY <2>2, <2>7, <3>1
      <4> QED
        BY <1>2, <2>4, <2>5, <2>7, <3>1, <4>1 DEF n, ticks
    <3>2. CASE ~(x >= enter)
      <4>1. gone = ticks - n
        BY <2>2, <2>3, <2>7, <3>2
      <4>2. gone >= ticks <=> n <= 0
        BY <2>2, <4>1
      <4>3. ticks - gone = n
        BY <2>2, <4>1
      <4> QED
        BY <1>2, <2>4, <3>2, <4>2, <4>3 DEF n, ticks
    <3> QED
      BY <3>1, <3>2
  <2> QED
    BY <2>1, <2>6, <2>7
<1> QED
  BY <1>1, <1>2

LEMMA BlockKeeps ==
    ASSUME TickInv, NEW t \in Task, xTaskCheckForTimeOut(t),
           ~TimedOut(xTimeOut[t], xTicksToWait[t])
    PROVE  TickInv'
<1> DEFINE n == TicksLeft(xTimeOut[t], xTicksToWait[t])
           now == vTaskInternalSetTimeOutState
<1>1. /\ TimeTypes /\ phase[t] = "live" /\ stateList[t] = Ready /\ call[t] = "wait"
      /\ xTicksToWait' = [xTicksToWait EXCEPT ![t] = n]
      /\ xTimeOut' = IF n = portMAX_DELAY THEN xTimeOut ELSE [xTimeOut EXCEPT ![t] = now]
      /\ \/ /\ prvAddCurrentTaskToDelayedList(t, n, TRUE)
            /\ eventList' = [eventList EXCEPT ![t] = TRUE]
         \/ UNCHANGED <<listVars, xNextTaskUnblockTime>>
      /\ xTickCount' = xTickCount /\ xNumOfOverflows' = xNumOfOverflows
      /\ call' = call /\ previousWake' = previousWake /\ left' = left
      /\ phase' = phase /\ resetDue' = resetDue
  BY DEF xTaskCheckForTimeOut, Runs, Live, memoryVars, TickInv
<1>2. n = IF left[t] = NULL THEN portMAX_DELAY ELSE left[t]
  BY <1>1, TimeOutIs
<1>3. /\ left[t] = NULL \/ (left[t] \in Int /\ left[t] > 0)
      /\ left[t] # NULL => left[t] <= xTicksToWait[t] /\ xTicksToWait[t] # portMAX_DELAY
  <2>1. left[t] \in Int \cup {NULL} /\ (left[t] # NULL => ~(left[t] <= 0))
    BY <1>1, TimeOutIs, TimedNow
  <2>2. left[t] # NULL => left[t] <= xTicksToWait[t] /\ xTicksToWait[t] # portMAX_DELAY
    BY <1>1, TimedNow DEF Waited
  <2> QED
    BY <2>1, <2>2
<1>4. n \in Time /\ (left[t] # NULL => n = left[t] /\ n # portMAX_DELAY /\ n \in Nat /\ n > 0)
  <2>1. CASE left[t] = NULL
    BY <1>2, <2>1, Moduli
  <2>2. CASE left[t] # NULL
    <3>1. xTicksToWait[t] \in Nat /\ xTicksToWait[t] < Modulus /\ Modulus \in Nat
      BY <1>1, TimedNow, TimeIs, Moduli
    <3>2. n = left[t] /\ n \in 0 .. Modulus - 1 /\ n > 0
      BY <1>2, <1>3, <2>2, <3>1
    <3>3. n # Modulus - 1
      BY <1>3, <2>2, <3>1, <3>2, TimedNow DEF portMAX_DELAY
    <3> QED
      BY <2>2, <3>2, <3>3 DEF Time, portMAX_DELAY
  <2> QED
    BY <2>1, <2>2
<1>5. now \in TimeOuts /\ now.xTimeOnEntering = xTickCount /\ now.xOverflowCount = xNumOfOverflows
  BY <1>1 DEF vTaskInternalSetTimeOutState, TimeOut, TimeOuts, TimeTypes
<1>6. xTickCount \in Nat /\ xTickCount \in Time
  BY <1>1, TimeIs DEF TimeTypes
<1> HIDE DEF now, n
<1>7. /\ xTimeOut' \in [Task -> TimeOuts] /\ xTicksToWait' \in [Task -> Time]
      /\ xTicksToWait'[t] = n /\ left'[t] = left[t] /\ call'[t] = "wait"
      /\ n # portMAX_DELAY => xTimeOut'[t] = now
      /\ \A u \in Task \ {t} :
               /\ call'[u] = call[u] /\ xTimeOut'[u] = xTimeOut[u]
               /\ xTicksToWait'[u] = xTicksToWait[u] /\ previousWake'[u] = previousWake[u]
               /\ left'[u] = left[u]
  BY <1>1, <1>4, <1>5 DEF TimeTypes
<1>8. Waited(t)'
  <2>1. CASE left[t] = NULL
    BY <1>2, <1>7, <2>1 DEF Waited
  <2>2. CASE left[t] # NULL
    <3>1. n = left[t] /\ n # portMAX_DELAY /\ n \in Nat
      BY <1>4, <2>2
    <3>2. xTickCount + (n - n) = xTickCount /\ n <= n
      BY <1>6, <3>1
    <3> QED
      BY <1>1, <1>5, <1>7, <2>2, <3>1, <3>2 DEF Waited
  <2> QED
    BY <2>1, <2>2
<1>9. Periodic(t)'
  BY <1>7 DEF Periodic
<1>10. CASE UNCHANGED <<listVars, xNextTaskUnblockTime>>
  <2>1. UNCHANGED <<phase, tickVars, listVars, resetDue>>
    BY <1>1, <1>10 DEF tickVars
  <2>2. /\ call' \in [Task -> {"none", "delay", "wait", "periodic"}]
        /\ previousWake' \in [Task -> Time] /\ left' \in [Task -> Int \cup {NULL}]
    BY <1>1 DEF TimeTypes
  <2> QED
    BY <1>1, <1>7, <1>8, <1>9, <2>1, <2>2, ReadyKeeps
<1>11. CASE prvAddCurrentTaskToDelayedList(t, n, TRUE) /\ eventList' = [eventList EXCEPT ![t] = TRUE]
  <2>1. /\ eventList' \in [Task -> BOOLEAN] /\ eventList'[t] = TRUE
        /\ \A u \in Task \ {t} : eventList'[u] = eventList[u]
    BY <1>1, <1>11 DEF TimeTypes
  <2>2. CASE n = portMAX_DELAY
    <3>1. /\ stateList' = [stateList EXCEPT ![t] = Suspended]
          /\ wakeTime' = wakeTime /\ xNextTaskUnblockTime' = xNextTaskUnblockTime
      BY <1>11, <2>2 DEF prvAddCurrentTaskToDelayedList
    <3>2. /\ stateList' \in [Task -> Lists] /\ stateList'[t] = Suspended
          /\ \A u \in Task \ {t} : stateList'[u] = stateList[u] /\ wakeTime'[u] = wakeTime[u]
      BY <1>1, <3>1, Lists6 DEF TimeTypes
    <3>3. TimeTypes'
      BY <1>1, <1>7, <2>1, <3>1, <3>2 DEF TimeTypes
    <3>4. Placed(t)' /\ Wakes(t)' /\ Unblocks(t)'
      BY <1>1, <1>7, <2>1, <3>2, Lists6 DEF Placed, Wakes, Unblocks
    <3>5. xNextTaskUnblockTime' <= xNextTaskUnblockTime
      BY <1>1, <3>1, TimeIs DEF TimeTypes
    <3> QED
      BY <1>1, <1>7, <1>8, <1>9, <2>1, <3>2, <3>3, <3>4, <3>5, OneMoves DEF Timed
  <2>3. CASE n # portMAX_DELAY
    <3>1. left[t] # NULL /\ n = left[t] /\ n \in Nat /\ n > 0
      BY <1>2, <1>4, <2>3
    <3>2. /\ stateList' \in [Task -> Lists] /\ wakeTime' \in [Task -> Time]
          /\ xNextTaskUnblockTime' \in Time /\ xNextTaskUnblockTime' <= xNextTaskUnblockTime
          /\ \A u \in Task \ {t} : stateList'[u] = stateList[u] /\ wakeTime'[u] = wakeTime[u]
          /\ \/ /\ stateList'[t] = Delayed /\ wakeTime'[t] = xTickCount + n
                /\ xNextTaskUnblockTime' <= wakeTime'[t]
             \/ stateList'[t] = Overflow /\ wakeTime'[t] + Modulus = xTickCount + n
      BY <1>1, <1>4, <1>11, <2>3, AddIs
    <3>3. TimeTypes'
      BY <1>1, <1>7, <2>1, <3>2 DEF TimeTypes
    <3>4. Placed(t)'
      BY <1>1, <1>7, <2>1, <3>2, Lists6 DEF Placed
    <3>5. Wakes(t)' /\ Unblocks(t)'
      BY <1>1, <1>7, <3>1, <3>2, Lists6 DEF Wakes, Unblocks
    <3> QED
      BY <1>1, <1>7, <1>8, <1>9, <2>1, <3>2, <3>3, <3>4, <3>5, OneMoves DEF Timed
  <2> QED
    BY <2>2, <2>3
<1> QED
  BY <1>1, <1>10, <1>11

LEMMA CheckForTimeOutKeeps ==
    ASSUME TickInv, NEW t \in Task, xTaskCheckForTimeOut(t)
    PROVE  TickInv'
<1>1. CASE TimedOut(xTimeOut[t], xTicksToWait[t])
  <2>1. /\ Runs(t) /\ EndCall(t) /\ UNCHANGED <<tickVars, listVars>>
        /\ UNCHANGED <<phase, resetDue>>
    BY <1>1 DEF xTaskCheckForTimeOut, memoryVars
  <2> QED
    BY <2>1, EndKeeps
<1> QED
  BY <1>1, BlockKeeps

(* A task that goes on with its call is moved to where it does not sleep.  *)
LEMMA MoveKeeps ==
    ASSUME TickInv, NEW t \in Task, NEW list \in {Ready, Suspended}, MoveTo(t, list),
           phase[t] = "live", call[t] \in {"none", "wait"} \/ (call[t] = "periodic" /\ ~Asleep(t)),
           UNCHANGED <<phase, tickVars, callVars>>, resetDue' \in BOOLEAN
    PROVE  TickInv'
<1>1. /\ UNCHANGED <<phase, xTickCount, xNumOfOverflows, xNextTaskUnblockTime>>
      /\ UNCHANGED <<call, xTimeOut, xTicksToWait, previousWake, left>> /\ TimeTypes
  BY DEF tickVars, callVars, TickInv
<1>2. /\ stateList' \in [Task -> Lists] /\ wakeTime' \in [Task -> Time]
      /\ eventList' \in [Task -> BOOLEAN]
      /\ stateList'[t] = list /\ eventList'[t] = FALSE
      /\ \A u \in Task \ {t} : /\ stateList'[u] = stateList[u] /\ wakeTime'[u] = wakeTime[u]
                               /\ eventList'[u] = eventList[u]
  BY <1>1, MoveIs, Lists6
<1>3. TimeTypes'
  BY <1>1, <1>2 DEF TimeTypes
<1>4. Placed(t)' /\ Wakes(t)' /\ Unblocks(t)'
  BY <1>1, <1>2, Lists6 DEF Placed, Wakes, Unblocks
<1>5. Waited(t)'
  BY <1>1, TimedNow DEF Waited
<1>6. Periodic(t)'
  BY <1>1, <1>2, TimedNow, Lists6 DEF Periodic
<1>7. xNextTaskUnblockTime' <= xNextTaskUnblockTime
  BY <1>1, TimeIs DEF TimeTypes
<1> QED
  BY <1>1, <1>2, <1>3, <1>4, <1>5, <1>6, <1>7, OneMoves DEF Timed

LEMMA WakeKeeps ==
    ASSUME TickInv, NEW t \in Task, xTaskRemoveFromEventList(t) \/ vTaskResume(t)
    PROVE  TickInv'
<1>1. /\ MoveTo(t, Ready) /\ UNCHANGED <<phase, tickVars, resetDue, callVars>>
      /\ eventList[t] \/ (Live(t) /\ stateList[t] = Suspended)
  BY DEF xTaskRemoveFromEventList, vTaskResume, prvTaskIsTaskSuspended, memoryVars
<1>2. phase[t] = "live" /\ (call[t] \in {"none", "wait"} \/ (call[t] = "periodic" /\ ~Asleep(t)))
  BY <1>1, TimedNow, Lists6 DEF Placed, Live
<1>3. resetDue' \in BOOLEAN
  BY <1>1 DEF TickInv, TimeTypes
<1> QED
  BY <1>1, <1>2, <1>3, MoveKeeps

LEMMA SuspendKeeps ==
    ASSUME TickInv, NEW t \in Task, vTaskSuspend(t)
    PROVE  TickInv'
<1>1. /\ phase[t] = "live" /\ MoveTo(t, Suspended) /\ resetDue' \in BOOLEAN
      /\ UNCHANGED <<phase, tickVars>> /\ phase' \in [Task -> Phases]
      /\ IF EndsWhenSuspended(t) THEN EndCall(t) ELSE UNCHANGED callVars
  BY DEF vTaskSuspend, Live, memoryVars, TickInv, TimeTypes
<1>2. CASE EndsWhenSuspended(t)
  BY <1>1, <1>2, RestKeeps, Lists6
<1>3. CASE ~EndsWhenSuspended(t)
  <2>1. call[t] \in {"none", "wait"} \/ (call[t] = "periodic" /\ ~Asleep(t))
    BY <1>3, TimedNow DEF EndsWhenSuspended
  <2> QED
    BY <1>1, <1>3, <2>1, MoveKeeps
<1> QED
  BY <1>2, <1>3

LEMMA ResetKeeps ==
    ASSUME TickInv, SuspendReset
    PROVE  TickInv'
<1>1. /\ UNCHANGED <<phase, xTickCount, xNumOfOverflows, stateList, wakeTime, eventList>>
      /\ UNCHANGED <<call, xTimeOut, xTicksToWait, previousWake, left>> /\ resetDue' \in BOOLEAN
      /\ prvResetNextTaskUnblockTime /\ TimeTypes
  BY DEF SuspendReset, memoryVars, listVars, callVars, TickInv
<1>2. wakeTime' \in [Task -> Time]
  BY <1>1 DEF TimeTypes
<1>3. xNextTaskUnblockTime' \in Time /\ \A t \in Task : Unblocks(t)'
  BY <1>1, <1>2, ResetIs DEF Unblocks
<1>4. TimeTypes'
  BY <1>1, <1>3 DEF TimeTypes
<1>5. ASSUME NEW t \in Task PROVE Placed(t)' /\ Wakes(t)' /\ Waited(t)' /\ Periodic(t)'
  <2>1. Placed(t)'
    BY <1>1, TimedNow DEF Placed, Asleep
  <2>2. Wakes(t)' /\ Waited(t)' /\ Periodic(t)'
    BY <1>1, TimedNow DEF Wakes, Waited, Periodic, Asleep
  <2> QED
    BY <2>1, <2>2
<1> QED
  BY <1>3, <1>4, <1>5 DEF TickInv, Timed

LEMMA BeginPeriodicKeeps ==
    ASSUME TickInv, NEW t \in Task, BeginPeriodic(t)
    PROVE  TickInv'
<1>1. /\ TimeTypes /\ phase[t] = "live" /\ stateList[t] = Ready
      /\ UNCHANGED <<phase, tickVars, listVars, resetDue>>
      /\ call' = [call EXCEPT ![t] = "periodic"]
      /\ previousWake' = [previousWake EXCEPT ![t] = xTickCount]
      /\ left' = [left EXCEPT ![t] = 0]
      /\ UNCHANGED <<xTimeOut, xTicksToWait, xTickCount, stateList>>
  BY DEF BeginPeriodic, Idles, Runs, Live, memoryVars, tickVars, listVars, TickInv
<1>2. /\ call' \in [Task -> {"none", "delay", "wait", "periodic"}]
      /\ xTimeOut' \in [Task -> TimeOuts] /\ xTicksToWait' \in [Task -> Time]
      /\ previousWake' \in [Task -> Time] /\ left' \in [Task -> Int \cup {NULL}]
      /\ call'[t] = "periodic" /\ previousWake'[t] = xTickCount /\ left'[t] = 0
      /\ \A u \in Task \ {t} :
               /\ call'[u] = call[u] /\ xTimeOut'[u] = xTimeOut[u]
               /\ xTicksToWait'[u] = xTicksToWait[u] /\ previousWake'[u] = previousWake[u]
               /\ left'[u] = left[u]
  BY <1>1 DEF TimeTypes
<1>3. xTickCount \in Nat /\ Modulus \in Nat /\ Modulus > 0 /\ 0 # NULL
  BY <1>1, TimeIs, Moduli DEF TimeTypes
<1>4. Waited(t)' /\ Periodic(t)'
  BY <1>1, <1>2, <1>3 DEF Waited, Periodic
<1> QED
  BY <1>1, <1>2, <1>4, ReadyKeeps

(* What vTaskDelayUntil computes, against the ticks to the period's end.   *)
LEMMA PeriodIs ==
    ASSUME TickInv, NEW t \in Task, call[t] = "periodic", ~Asleep(t), NEW n \in Time, n > 0
    PROVE  LET next == Plus(previousWake[t], n)
               later == left[t] + n
           IN /\ next \in Time /\ later \in Int /\ -Modulus < later /\ later < Modulus
              /\ ShouldDelay(previousWake[t], n) <=> later > 0
              /\ later > 0 => Minus(next, xTickCount) = later
              /\ \/ next = xTickCount + later
                 \/ next = xTickCount + later + Modulus
                 \/ next + Modulus = xTickCount + later
<1> DEFINE next == Plus(previousWake[t], n)
           prev == previousWake[t]
           x == xTickCount
           l == left[t]
<1>1. /\ prev \in Nat /\ prev \in Time /\ prev < Modulus /\ x \in Nat /\ x \in Time /\ x < Modulus
      /\ n \in Nat /\ n < Modulus /\ n \in 0 .. Modulus /\ Modulus \in Nat \ {0}
  BY TimedNow, TimeIs, Moduli DEF TimeTypes
<1>2. /\ l \in Int /\ -Modulus < l /\ l <= 0
      /\ \/ prev = x + l \/ prev = x + l + Modulus \/ prev + Modulus = x + l
  BY TimedNow DEF Periodic
<1>3. next \in Time /\ next = IF prev + n < Modulus THEN prev + n ELSE prev + n - Modulus
  BY <1>1, PlusIs
<1>4. next \in Nat /\ next < Modulus
  BY <1>3, TimeIs
<1>5. /\ x < prev => (ShouldDelay(prev, n) <=> next < prev /\ next > x)
      /\ ~(x < prev) => (ShouldDelay(prev, n) <=> next < prev \/ next > x)
  BY DEF ShouldDelay
<1>6. Minus(next, x) = IF next >= x THEN next - x ELSE next - x + Modulus
  BY <1>1, <1>3, MinusIs
<1> HIDE DEF next, prev, x, l
<1>7. -Modulus < l + n /\ l + n < Modulus /\ l + n \in Int
  BY <1>1, <1>2
<1>8. prev = x + l \/ prev = x + l + Modulus
  BY <1>1, <1>2
<1>9. CASE prev = x + l
  <2>1. ~(x < prev) /\ (next < prev <=> prev + n >= Modulus)
    BY <1>1, <1>2, <1>3, <1>4, <1>9
  <2>2. CASE prev + n >= Modulus
    <3>1. next + Modulus = x + (l + n) /\ l + n > 0 /\ next < prev /\ ~(next >= x)
      BY <1>1, <1>2, <1>3, <1>4, <1>9, <2>2
    <3>2. Minus(next, x) = l + n
      BY <1>1, <1>2, <1>4, <1>6, <3>1
    <3> QED
      BY <1>3, <1>5, <1>7, <2>1, <3>1, <3>2 DEF next, prev, x, l
  <2>3. CASE prev + n < Modulus
    <3>1. next = x + (l + n) /\ (next > x <=> l + n > 0) /\ ~(next < prev)
      BY <1>1, <1>2, <1>3, <1>4, <1>9, <2>3
    <3>2. l + n > 0 => Minus(next, x) = l + n
      BY <1>1, <1>2, <1>4, <1>6, <3>1
    <3> QED
      BY <1>3, <1>5, <1>7, <2>1, <3>1, <3>2 DEF next, prev, x, l
  <2> QED
    BY <1>1, <2>2, <2>3
<1>10. CASE prev = x + l + Modulus
  <2>1. x < prev /\ (next < prev <=> prev + n >= Modulus)
    BY <1>1, <1>2, <1>3, <1>4, <1>10
  <2>2. CASE prev + n >= Modulus
    <3>1. next = x + (l + n) /\ (next > x <=> l + n > 0) /\ next < prev
      BY <1>1, <1>2, <1>3, <1>4, <1>10, <2>2
    <3>2. l + n > 0 => Minus(next, x) = l + n
      BY <1>1, <1>2, <1>4, <1>6, <3>1
    <3> QED
      BY <1>3, <1>5, <1>7, <2>1, <3>1, <3>2 DEF next, prev, x, l
  <2>3. CASE prev + n < Modulus
    <3>1. next = x + (l + n) + Modulus /\ ~(l + n > 0) /\ ~(next < prev)
      BY <1>1, <1>2, <1>3, <1>4, <1>10, <2>3
    <3> QED
      BY <1>3, <1>5, <1>7, <2>1, <3>1 DEF next, prev, x, l
  <2> QED
    BY <1>1, <2>2, <2>3
<1> QED
  BY <1>8, <1>9, <1>10

LEMMA DelayUntilKeeps ==
    ASSUME TickInv, NEW t \in Task, vTaskDelayUntil(t)
    PROVE  TickInv'
<1>1. PICK n \in Periods[t] :
          /\ previousWake' = [previousWake EXCEPT ![t] = Plus(@, n)]
          /\ left' = [left EXCEPT ![t] = @ + n]
          /\ IF ShouldDelay(previousWake[t], n)
               THEN prvAddCurrentTaskToDelayedList(t, Minus(previousWake'[t], xTickCount), FALSE)
               ELSE UNCHANGED <<stateList, wakeTime, xNextTaskUnblockTime>>
  BY DEF vTaskDelayUntil
<1>2. n \in Time /\ n \in Nat /\ n > 0
  BY TasksAssumption, TimeIs
<1>3. /\ TimeTypes /\ phase[t] = "live" /\ stateList[t] = Ready /\ call[t] = "periodic"
      /\ UNCHANGED <<phase, xTickCount, xNumOfOverflows, eventList, resetDue>>
      /\ UNCHANGED <<call, xTimeOut, xTicksToWait>>
  BY DEF vTaskDelayUntil, Runs, Live, memoryVars, TickInv
<1> DEFINE next == Plus(previousWake[t], n)
           later == left[t] + n
<1>4. /\ next \in Time /\ later \in Int /\ -Modulus < later /\ later < Modulus
      /\ ShouldDelay(previousWake[t], n) <=> later > 0
      /\ later > 0 => Minus(next, xTickCount) = later
      /\ \/ next = xTickCount + later
         \/ next = xTickCount + later + Modulus
         \/ next + Modulus = xTickCount + later
  <2>1. ~Asleep(t)
    BY <1>3, Lists6 DEF Asleep
  <2> QED
    BY <1>2, <1>3, <2>1, PeriodIs
<1>5. /\ previousWake' = [previousWake EXCEPT ![t] = next] /\ left' = [left EXCEPT ![t] = later]
  BY <1>1, <1>3 DEF TimeTypes
<1> HIDE DEF next, later
<1>6. /\ previousWake' \in [Task -> Time] /\ left' \in [Task -> Int \cup {NULL}]
      /\ previousWake'[t] = next /\ left'[t] = later /\ later # NULL
      /\ \A u \in Task \ {t} : previousWake'[u] = previousWake[u] /\ left'[u] = left[u]
  BY <1>3, <1>4, <1>5, Moduli DEF TimeTypes
<1>7. eventList[t] = FALSE
  BY <1>3, TimedNow DEF Placed, TimeTypes
<1>8. Waited(t)'
  BY <1>3 DEF Waited
<1>9. CASE ~(later > 0)
  <2>1. UNCHANGED <<stateList, wakeTime, xNextTaskUnblockTime>>
    BY <1>1, <1>4, <1>9
  <2>2. UNCHANGED <<phase, tickVars, listVars, resetDue>>
    BY <1>3, <2>1 DEF tickVars, listVars
  <2>3. later <= 0
    BY <1>4, <1>9
  <2>4. Periodic(t)'
    BY <1>3, <1>4, <1>6, <2>3 DEF Periodic
  <2>5. /\ call' \in [Task -> {"none", "delay", "wait", "periodic"}]
        /\ xTimeOut' \in [Task -> TimeOuts] /\ xTicksToWait' \in [Task -> Time]
    BY <1>3 DEF TimeTypes
  <2> QED
    BY <1>3, <1>6, <1>8, <2>2, <2>4, <2>5, ReadyKeeps
<1>10. CASE later > 0
  <2>1. prvAddCurrentTaskToDelayedList(t, later, FALSE)
    BY <1>1, <1>4, <1>6, <1>10
  <2>2. later \in Time
    BY <1>4, <1>10, Moduli DEF Time
  <2>3. /\ stateList' \in [Task -> Lists] /\ wakeTime' \in [Task -> Time]
        /\ xNextTaskUnblockTime' \in Time /\ xNextTaskUnblockTime' <= xNextTaskUnblockTime
        /\ \A u \in Task \ {t} : stateList'[u] = stateList[u] /\ wakeTime'[u] = wakeTime[u]
        /\ \/ /\ stateList'[t] = Delayed /\ wakeTime'[t] = xTickCount + later
              /\ xNextTaskUnblockTime' <= wakeTime'[t]
           \/ stateList'[t] = Overflow /\ wakeTime'[t] + Modulus = xTickCount + later
    BY <1>3, <2>1, <2>2, AddIs
  <2>4. TimeTypes'
    BY <1>3, <1>6, <2>3 DEF TimeTypes
  <2>5. Placed(t)'
    BY <1>3, <1>7, <2>3, Lists6 DEF Placed
  <2>6. Wakes(t)' /\ Unblocks(t)'
    BY <1>3, <1>6, <1>10, <2>3, Lists6 DEF Wakes, Unblocks
  <2>7. Asleep(t)'
    BY <2>3 DEF Asleep
  <2>8. Periodic(t)'
    BY <1>3, <1>4, <1>6, <2>7 DEF Periodic
  <2> QED
    BY <1>3, <1>6, <1>8, <2>3, <2>4, <2>5, <2>6, <2>8, OneMoves DEF Timed
<1> QED
  BY <1>9, <1>10

(* The steps that concern the heap alone.                                  *)
LEMMA StillKeeps ==
    ASSUME TickInv, UNCHANGED <<phase, tickVars, listVars, resetDue, callVars>>
    PROVE  TickInv'
<1>1. /\ UNCHANGED <<phase, xTickCount, xNumOfOverflows, xNextTaskUnblockTime>>
      /\ UNCHANGED <<stateList, wakeTime, eventList, resetDue>>
      /\ UNCHANGED <<call, xTimeOut, xTicksToWait, previousWake, left>> /\ TimeTypes
  BY DEF tickVars, listVars, callVars, TickInv
<1>2. TimeTypes'
  BY <1>1 DEF TimeTypes
<1>3. ASSUME NEW t \in Task PROVE Timed(t)'
  <2>1. Placed(t)'
    BY <1>1, TimedNow DEF Placed, Asleep
  <2>2. Wakes(t)' /\ Waited(t)' /\ Periodic(t)' /\ Unblocks(t)'
    BY <1>1, TimedNow DEF Wakes, Waited, Periodic, Asleep, Unblocks
  <2> QED
    BY <2>1, <2>2 DEF Timed
<1> QED
  BY <1>2, <1>3 DEF TickInv

-----------------------------------------------------------------------------
(* The tick. *)

LEMMA NextTickIs ==
    ASSUME xTickCount \in Time
    PROVE  /\ NextTick \in Time /\ Switches \in BOOLEAN
           /\ ~Switches => xTickCount + 1 < Modulus /\ NextTick = xTickCount + 1
           /\ Switches => xTickCount + 1 = Modulus /\ NextTick = 0
<1>1. xTickCount \in Nat /\ xTickCount < Modulus /\ Modulus \in Nat \ {0} /\ 1 \in 0 .. Modulus
  BY Moduli, TimeIs
<1>2. NextTick \in Time
      /\ NextTick = IF xTickCount + 1 < Modulus THEN xTickCount + 1 ELSE xTickCount + 1 - Modulus
  BY <1>1, PlusIs DEF NextTick
<1> QED
  BY <1>1, <1>2 DEF Switches

(* The tick wakes those, of the sleeping ones, for whom it is the last.    *)
LEMMA WokenIs ==
    ASSUME TickInv, NEW t \in Task
    PROVE  /\ t \in WokenByTick => Asleep(t)
           /\ Asleep(t) => left[t] \in Int /\ left[t] > 0 /\ (t \in WokenByTick <=> left[t] = 1)
<1>1. /\ xTickCount \in Time /\ xTickCount \in Nat /\ xTickCount < Modulus /\ Modulus \in Nat \ {0}
      /\ xNextTaskUnblockTime \in Nat /\ wakeTime[t] \in Nat /\ wakeTime[t] < Modulus
      /\ wakeTime \in [Task -> Time]
  BY TimedNow, TimeIs, Moduli DEF TimeTypes
<1>2. t \in WokenByTick <=> t \in CurrentList /\ NextTick >= UnblockTime /\ wakeTime[t] <= NextTick
  BY DEF WokenByTick
<1>3. t \in CurrentList <=> stateList[t] = IF Switches THEN Overflow ELSE Delayed
  BY DEF CurrentList, In
<1>4. CASE ~Asleep(t)
  BY <1>2, <1>3, <1>4 DEF Asleep
<1>5. CASE Asleep(t) /\ ~Switches
  <2>1. xTickCount + 1 < Modulus /\ NextTick = xTickCount + 1 /\ UnblockTime = xNextTaskUnblockTime
    BY <1>1, <1>5, NextTickIs DEF UnblockTime
  <2>2. CASE stateList[t] = Delayed
    <3>1. left[t] \in Int /\ left[t] > 0 /\ wakeTime[t] = xTickCount + left[t]
          /\ xNextTaskUnblockTime <= wakeTime[t]
      BY <2>2, TimedNow DEF Wakes, Unblocks
    <3> QED
      BY <1>1, <1>2, <1>3, <1>5, <2>1, <2>2, <3>1
  <2>3. CASE stateList[t] = Overflow
    <3>1. left[t] \in Int /\ left[t] > 0 /\ wakeTime[t] + Modulus = xTickCount + left[t]
      BY <2>3, TimedNow DEF Wakes
    <3>2. t \notin WokenByTick /\ left[t] # 1
      BY <1>1, <1>2, <1>3, <1>5, <2>1, <2>3, <3>1, Lists6
    <3> QED
      BY <1>5, <3>1, <3>2
  <2> QED
    BY <1>5, <2>2, <2>3 DEF Asleep
<1>6. CASE Asleep(t) /\ Switches
  <2>1. xTickCount + 1 = Modulus /\ NextTick = 0 /\ UnblockTime = HeadTime(In(Overflow))
    BY <1>1, <1>6, NextTickIs DEF UnblockTime
  <2>2. CASE stateList[t] = Delayed
    <3>1. left[t] \in Int /\ left[t] > 0 /\ wakeTime[t] = xTickCount + left[t]
      BY <2>2, TimedNow DEF Wakes
    <3> QED
      BY <1>1, <2>1, <3>1
  <2>3. CASE stateList[t] = Overflow
    <3>1. left[t] \in Int /\ left[t] > 0 /\ wakeTime[t] + Modulus = xTickCount + left[t]
      BY <2>3, TimedNow DEF Wakes
    <3>2. HeadTime(In(Overflow)) \in Nat /\ HeadTime(In(Overflow)) <= wakeTime[t]
      <4>1. In(Overflow) \in SUBSET Task /\ t \in In(Overflow)
        BY <2>3 DEF In
      <4> QED
        BY <1>1, <4>1, HeadTimeIs, TimeIs
    <3> HIDE DEF HeadTime, In
    <3> QED
      BY <1>1, <1>2, <1>3, <1>6, <2>1, <2>3, <3>1, <3>2
  <2> QED
    BY <1>6, <2>2, <2>3 DEF Asleep
<1> QED
  BY <1>4, <1>5, <1>6

(* At an overflow nobody is left in the delayed list.                      *)
LEMMA DelayedDone ==
    ASSUME TickInv, NEW t \in Task, Switches
    PROVE  stateList[t] # Delayed
<1> SUFFICES ASSUME stateList[t] = Delayed PROVE FALSE
  OBVIOUS
<1>1. left[t] \in Int /\ left[t] > 0 /\ wakeTime[t] = xTickCount + left[t]
  BY TimedNow DEF Wakes
<1>2. /\ xTickCount \in Time /\ xTickCount \in Nat /\ wakeTime[t] \in Nat /\ wakeTime[t] < Modulus
      /\ Modulus \in Nat
  BY TimedNow, TimeIs, Moduli DEF TimeTypes
<1>3. xTickCount + 1 = Modulus
  BY <1>2, NextTickIs
<1> QED
  BY <1>1, <1>2, <1>3

(* The step, for one task.                                                 *)
LEMMA TickMoves ==
    ASSUME TickInv, Tick, NEW t \in Task
    PROVE  /\ Asleep(t) /\ left[t] = 1 =>
                /\ stateList'[t] = Ready /\ wakeTime'[t] = 0 /\ eventList'[t] = FALSE
           /\ Asleep(t) /\ left[t] # 1 =>
                /\ stateList'[t] = IF Switches THEN Delayed ELSE stateList[t]
                /\ Switches => stateList[t] = Overflow
                /\ wakeTime'[t] = wakeTime[t] /\ eventList'[t] = eventList[t]
           /\ ~Asleep(t) =>
                /\ stateList'[t] = stateList[t] /\ wakeTime'[t] = wakeTime[t]
                /\ eventList'[t] = eventList[t]
           /\ call'[t] = IF call[t] = "delay" /\ left[t] = 1 THEN "none" ELSE call[t]
           /\ left'[t] = IF left[t] = NULL \/ (call[t] = "delay" /\ left[t] = 1)
                           THEN NULL ELSE left[t] - 1
<1>1. /\ stateList'[t] = IF t \in WokenByTick THEN Ready
                         ELSE IF Switches /\ stateList[t] = Delayed THEN Overflow
                         ELSE IF Switches /\ stateList[t] = Overflow THEN Delayed
                         ELSE stateList[t]
      /\ wakeTime'[t] = IF t \in WokenByTick THEN 0 ELSE wakeTime[t]
      /\ eventList'[t] = (eventList[t] /\ t \notin WokenByTick)
  BY DEF Tick, xTaskIncrementTick
<1>2. /\ left'[t] = IF left[t] = NULL \/ (t \in WokenByTick /\ call[t] = "delay")
                      THEN NULL ELSE left[t] - 1
      /\ call'[t] = IF t \in WokenByTick /\ call[t] = "delay" THEN "none" ELSE call[t]
  BY DEF Tick
<1>3. /\ t \in WokenByTick => Asleep(t)
      /\ Asleep(t) => (t \in WokenByTick <=> left[t] = 1)
      /\ Switches => stateList[t] # Delayed
      /\ Asleep(t) <=> stateList[t] \in {Delayed, Overflow}
      /\ call[t] = "delay" => Asleep(t)
      /\ eventList[t] \in BOOLEAN
  BY WokenIs, DelayedDone, TimedNow DEF Placed, TimeTypes
<1> QED
  BY <1>1, <1>2, <1>3, Lists6

LEMMA TickTypes ==
    ASSUME TickInv, Tick
    PROVE  TimeTypes' /\ \A t \in Task : Unblocks(t)'
<1>1. /\ TimeTypes /\ xTickCount \in Time /\ NextTick \in Time /\ wakeTime \in [Task -> Time]
      /\ xNextTaskUnblockTime \in Time /\ xNumOfOverflows \in 0 .. OverflowModulus - 1
      /\ OverflowModulus \in Nat /\ OverflowModulus > 1
  BY NextTickIs, Moduli DEF TickInv, TimeTypes
<1>2. /\ UNCHANGED <<phase, resetDue, xTimeOut, xTicksToWait, previousWake>>
      /\ xTickCount' = NextTick
      /\ xNumOfOverflows' = IF Switches THEN (xNumOfOverflows + 1) % OverflowModulus
                                        ELSE xNumOfOverflows
      /\ xNextTaskUnblockTime' = IF NextTick >= UnblockTime
                                   THEN HeadTime(CurrentList \ WokenByTick) ELSE UnblockTime
  BY DEF Tick, xTaskIncrementTick, memoryVars
<1>3. xNumOfOverflows' \in 0 .. OverflowModulus - 1
  BY <1>1, <1>2
<1>4. /\ CurrentList \in SUBSET Task /\ (CurrentList \ WokenByTick) \in SUBSET Task
      /\ In(Overflow) \in SUBSET Task
  BY DEF CurrentList, In
<1>5. UnblockTime \in Time /\ \A t \in CurrentList : UnblockTime <= wakeTime[t]
  <2>1. CASE Switches
    <3>1. UnblockTime = HeadTime(In(Overflow)) /\ CurrentList = In(Overflow)
      BY <2>1 DEF UnblockTime, CurrentList
    <3> QED
      BY <1>1, <1>4, <3>1, HeadTimeIs
  <2>2. CASE ~Switches
    <3>1. UnblockTime = xNextTaskUnblockTime /\ CurrentList = In(Delayed)
      BY <2>2 DEF UnblockTime, CurrentList
    <3>2. \A t \in In(Delayed) : xNextTaskUnblockTime <= wakeTime[t]
      BY TimedNow DEF Unblocks, In
    <3> QED
      BY <1>1, <3>1, <3>2
  <2> QED
    BY <2>1, <2>2
<1>6. /\ xNextTaskUnblockTime' \in Time
      /\ \A t \in CurrentList \ WokenByTick : xNextTaskUnblockTime' <= wakeTime[t]
  <2>1. CASE NextTick >= UnblockTime
    BY <1>1, <1>2, <1>4, <2>1, HeadTimeIs
  <2>2. CASE ~(NextTick >= UnblockTime)
    BY <1>2, <1>5, <2>2
  <2> QED
    BY <2>1, <2>2
<1>7. /\ stateList' \in [Task -> Lists] /\ wakeTime' \in [Task -> Time]
      /\ eventList' \in [Task -> BOOLEAN]
  <2>1. /\ stateList' = [t \in Task |->
                IF t \in WokenByTick THEN Ready
                ELSE IF Switches /\ stateList[t] = Delayed THEN Overflow
                ELSE IF Switches /\ stateList[t] = Overflow THEN Delayed
                ELSE stateList[t]]
        /\ wakeTime' = [t \in Task |-> IF t \in WokenByTick THEN 0 ELSE wakeTime[t]]
        /\ eventList' = [t \in Task |-> eventList[t] /\ t \notin WokenByTick]
    BY DEF Tick, xTaskIncrementTick
  <2>2. \A t \in Task : stateList[t] \in Lists /\ wakeTime[t] \in Time
    BY <1>1 DEF TimeTypes
  <2>3. {Ready, Overflow, Delayed} \subseteq Lists /\ 0 \in Time
    BY Lists6, Moduli
  <2> QED
    BY <2>1, <2>2, <2>3
<1>8. call' \in [Task -> {"none", "delay", "wait", "periodic"}] /\ left' \in [Task -> Int \cup {NULL}]
  <2> DEFINE over == {t \in WokenByTick : call[t] = "delay"}
  <2>1. /\ left' = [t \in Task |-> IF left[t] = NULL \/ t \in over THEN NULL ELSE left[t] - 1]
        /\ call' = [t \in Task |-> IF t \in over THEN "none" ELSE call[t]]
    BY DEF Tick
  <2>2. \A t \in Task : /\ call[t] \in {"none", "delay", "wait", "periodic"}
                        /\ left[t] = NULL \/ left[t] - 1 \in Int
    BY <1>1 DEF TimeTypes
  <2> HIDE DEF over
  <2> QED
    BY <2>1, <2>2
<1>9. TimeTypes'
  BY <1>1, <1>2, <1>3, <1>6, <1>7, <1>8 DEF TimeTypes
<1>10. ASSUME NEW t \in Task, stateList'[t] = Delayed
       PROVE  xNextTaskUnblockTime' <= wakeTime'[t]
  <2>1. t \in CurrentList \ WokenByTick /\ wakeTime'[t] = wakeTime[t]
    <3>1. /\ stateList'[t] = IF t \in WokenByTick THEN Ready
                             ELSE IF Switches /\ stateList[t] = Delayed THEN Overflow
                             ELSE IF Switches /\ stateList[t] = Overflow THEN Delayed
                             ELSE stateList[t]
          /\ wakeTime'[t] = IF t \in WokenByTick THEN 0 ELSE wakeTime[t]
      BY DEF Tick, xTaskIncrementTick
    <3>2. t \notin WokenByTick /\ stateList[t] = IF Switches THEN Overflow ELSE Delayed
      BY <1>10, <3>1, Lists6
    <3> QED
      BY <3>1, <3>2 DEF CurrentList, In
  <2> QED
    BY <1>6, <2>1
<1> QED
  BY <1>9, <1>10 DEF Unblocks

LEMMA TickKeeps ==
    ASSUME TickInv, Tick
    PROVE  TickInv'
<1> SUFFICES ASSUME NEW t \in Task PROVE Placed(t)' /\ Wakes(t)' /\ Waited(t)' /\ Periodic(t)'
  BY TickTypes DEF TickInv, Timed
<1> DEFINE x == xTickCount
           l == left[t]
<1>1. /\ Asleep(t) /\ l = 1 =>
           /\ stateList'[t] = Ready /\ wakeTime'[t] = 0 /\ eventList'[t] = FALSE
      /\ Asleep(t) /\ l # 1 =>
           /\ stateList'[t] = IF Switches THEN Delayed ELSE stateList[t]
           /\ Switches => stateList[t] = Overflow
           /\ wakeTime'[t] = wakeTime[t] /\ eventList'[t] = eventList[t]
      /\ ~Asleep(t) =>
           /\ stateList'[t] = stateList[t] /\ wakeTime'[t] = wakeTime[t]
           /\ eventList'[t] = eventList[t]
      /\ call'[t] = IF call[t] = "delay" /\ l = 1 THEN "none" ELSE call[t]
      /\ left'[t] = IF l = NULL \/ (call[t] = "delay" /\ l = 1) THEN NULL ELSE l - 1
  BY TickMoves
<1>2. /\ xTickCount' = NextTick /\ InTime(t)
      /\ xNumOfOverflows' = IF Switches THEN (xNumOfOverflows + 1) % OverflowModulus
                                        ELSE xNumOfOverflows
      /\ UNCHANGED <<phase, resetDue, xTimeOut, xTicksToWait, previousWake>>
  BY DEF Tick, xTaskIncrementTick, memoryVars
<1>3. /\ x \in Nat /\ x < Modulus /\ Modulus \in Nat \ {0} /\ NULL \notin Int
      /\ ~Switches => NextTick = x + 1
      /\ Switches => x + 1 = Modulus /\ NextTick = 0
      /\ wakeTime[t] \in Nat /\ previousWake[t] \in Nat /\ previousWake[t] < Modulus
      /\ xTicksToWait[t] \in Nat
      /\ l \in Int \cup {NULL}
      /\ Asleep(t) <=> stateList[t] \in {Delayed, Overflow}
      /\ Asleep(t) => l \in Int /\ l > 0
  BY TimedNow, TimeIs, Moduli, NextTickIs, WokenIs DEF TimeTypes
<1>4. Placed(t) /\ Wakes(t) /\ Waited(t) /\ Periodic(t)
  BY TimedNow
<1>5. Asleep(t)' <=> Asleep(t) /\ l # 1
  BY <1>1, <1>3, Lists6 DEF Asleep
<1>6. Placed(t)'
  <2>1. CASE Asleep(t) /\ l = 1
    BY <1>1, <1>2, <1>3, <1>4, <2>1, Lists6 DEF Placed
  <2>2. CASE Asleep(t) /\ l # 1
    BY <1>1, <1>2, <1>3, <1>4, <1>5, <2>2, Lists6 DEF Placed
  <2>3. CASE ~Asleep(t)
    BY <1>1, <1>2, <1>3, <1>4, <2>3, Lists6 DEF Placed
  <2> QED
    BY <2>1, <2>2, <2>3
<1>7. Wakes(t)'
  <2>1. CASE ~Asleep(t)'
    BY <2>1 DEF Wakes, Asleep
  <2>2. CASE Asleep(t)'
    <3>1. /\ Asleep(t) /\ l # 1 /\ l \in Int /\ l > 0 /\ l # NULL
          /\ stateList'[t] = IF Switches THEN Delayed ELSE stateList[t]
          /\ Switches => stateList[t] = Overflow
          /\ wakeTime'[t] = wakeTime[t]
      BY <1>1, <1>3, <1>5, <2>2
    <3>2. ~(call[t] = "delay" /\ l = 1)
      BY <3>1
    <3>3. left'[t] = l - 1
      BY <1>1, <3>1, <3>2
    <3>4. l - 1 \in Int /\ l - 1 > 0 /\ l - 1 # NULL
      BY <1>3, <3>1
    <3>5. /\ stateList[t] = Delayed => wakeTime[t] = x + l
          /\ stateList[t] = Overflow => wakeTime[t] + Modulus = x + l
      BY <1>4 DEF Wakes
    <3> HIDE DEF x, l
    <3>6. CASE Switches
      <4>1. stateList'[t] = Delayed /\ wakeTime'[t] = xTickCount' + left'[t]
        BY <1>2, <1>3, <3>1, <3>3, <3>5, <3>6
      <4> QED
        BY <3>3, <3>4, <4>1, Lists6 DEF Wakes
    <3>7. CASE ~Switches
      <4>1. /\ stateList'[t] = stateList[t]
            /\ stateList[t] = Delayed => wakeTime'[t] = xTickCount' + left'[t]
            /\ stateList[t] = Overflow => wakeTime'[t] + Modulus = xTickCount' + left'[t]
        BY <1>2, <1>3, <3>1, <3>3, <3>5, <3>7
      <4> QED
        BY <3>3, <3>4, <4>1 DEF Wakes
    <3> QED
      BY <3>6, <3>7
  <2> QED
    BY <2>1, <2>2
<1>8. Waited(t)'
  <2> SUFFICES ASSUME call'[t] = "wait" PROVE Waited(t)'
    BY DEF Waited
  <2>1. call[t] = "wait" /\ left'[t] = IF l = NULL THEN NULL ELSE l - 1
    BY <1>1
  <2>2. CASE l = NULL
    BY <1>2, <1>4, <2>1, <2>2 DEF Waited
  <2>3. CASE l # NULL
    <3> DEFINE enter == xTimeOut[t].xTimeOnEntering
               over == xTimeOut[t].xOverflowCount
               ticks == xTicksToWait[t]
    <3>1. /\ ticks # portMAX_DELAY /\ l <= ticks
          /\ \/ enter + (ticks - l) = x /\ xNumOfOverflows = over
             \/ /\ enter + (ticks - l) = x + Modulus
                /\ xNumOfOverflows = (over + 1) % OverflowModulus
      BY <1>4, <2>1, <2>3 DEF Waited
    <3>2. enter \in Nat /\ l \in Int /\ ticks \in Nat
      BY <1>3, <2>3, TimedNow, TimeIs DEF TimeOuts
    <3>3. enter + (ticks - l) + 1 < 2 * Modulus
      BY <1>2, <2>1, <2>3 DEF InTime
    <3>4. /\ left'[t] = l - 1 /\ l - 1 # NULL /\ xTicksToWait'[t] = ticks
          /\ xTimeOut'[t].xTimeOnEntering = enter /\ xTimeOut'[t].xOverflowCount = over
      BY <1>2, <1>3, <2>1, <2>3, <3>2
    <3> HIDE DEF enter, over, ticks, x, l
    <3>5. l - 1 <= ticks /\ enter + (ticks - (l - 1)) = enter + (ticks - l) + 1
      BY <3>1, <3>2
    <3>6. CASE Switches
      <4>1. enter + (ticks - l) = x /\ xNumOfOverflows = over
        BY <1>3, <3>1, <3>2, <3>3, <3>6
      <4>2. /\ enter + (ticks - (l - 1)) = xTickCount' + Modulus
            /\ xNumOfOverflows' = (over + 1) % OverflowModulus
        BY <1>2, <1>3, <3>2, <3>5, <3>6, <4>1
      <4> QED
        BY <3>1, <3>4, <3>5, <4>2 DEF Waited
    <3>7. CASE ~Switches
      <4>1. xTickCount' = x + 1 /\ xNumOfOverflows' = xNumOfOverflows
        BY <1>2, <1>3, <3>7
      <4>2. \/ enter + (ticks - (l - 1)) = xTickCount' /\ xNumOfOverflows' = over
            \/ /\ enter + (ticks - (l - 1)) = xTickCount' + Modulus
               /\ xNumOfOverflows' = (over + 1) % OverflowModulus
        BY <1>3, <3>1, <3>2, <3>5, <4>1
      <4> QED
        BY <3>1, <3>4, <3>5, <4>2 DEF Waited
    <3> QED
      BY <3>6, <3>7
  <2> QED
    BY <2>2, <2>3
<1>9. Periodic(t)'
  <2> SUFFICES ASSUME call'[t] = "periodic" PROVE Periodic(t)'
    BY DEF Periodic
  <2> DEFINE prev == previousWake[t]
  <2>1. /\ call[t] = "periodic" /\ l # NULL /\ l \in Int /\ -Modulus < l /\ l < Modulus
        /\ ~Asleep(t) => l <= 0
        /\ prev = x + l \/ prev = x + l + Modulus \/ prev + Modulus = x + l
    BY <1>1, <1>3, <1>4 DEF Periodic
  <2>2. left'[t] = l - 1 /\ previousWake'[t] = prev
    BY <1>1, <1>2, <2>1
  <2>3. l - 1 > -Modulus
    BY <1>2, <2>1 DEF InTime
  <2>4. /\ l - 1 # NULL /\ -Modulus < l - 1 /\ l - 1 < Modulus
        /\ ~Asleep(t)' => l - 1 <= 0
    BY <1>3, <1>5, <2>1, <2>3
  <2>5. /\ prev \in Nat /\ prev < Modulus
    BY <1>3
  <2> HIDE DEF prev, x, l
  <2>6. CASE Switches
    <3>1. prev = xTickCount' + (l - 1) + Modulus \/ prev = xTickCount' + (l - 1)
      BY <1>2, <1>3, <2>1, <2>5, <2>6
    <3> QED
      BY <2>2, <2>4, <3>1 DEF Periodic
  <2>7. CASE ~Switches
    <3>1. \/ prev = xTickCount' + (l - 1) \/ prev = xTickCount' + (l - 1) + Modulus
          \/ prev + Modulus = xTickCount' + (l - 1)
      BY <1>2, <1>3, <2>1, <2>5, <2>7
    <3> QED
      BY <2>2, <2>4, <3>1 DEF Periodic
  <2> QED
    BY <2>6, <2>7
<1> QED
  BY <1>6, <1>7, <1>8, <1>9

-----------------------------------------------------------------------------
(* The invariant of the specification. *)

LEMMA TimeStarts == Init => TickInv
<1> SUFFICES ASSUME Init PROVE TickInv
  OBVIOUS
<1>1. NoTimeOut \in TimeOuts /\ "absent" \in Phases /\ Nowhere \in Lists
  BY Moduli, Lists6 DEF NoTimeOut, TimeOut, TimeOuts, Phases
<1>2. /\ 0 \in 0 .. OverflowModulus - 1 /\ 0 \in Time /\ portMAX_DELAY \in Time
      /\ "none" \in {"none", "delay", "wait", "periodic"}
  BY Moduli
<1> HIDE DEF NoTimeOut, TimeOuts
<1>4. /\ phase \in [Task -> Phases] /\ stateList \in [Task -> Lists]
      /\ wakeTime \in [Task -> Time] /\ previousWake \in [Task -> Time]
      /\ eventList \in [Task -> BOOLEAN]
      /\ call \in [Task -> {"none", "delay", "wait", "periodic"}]
      /\ xTicksToWait \in [Task -> Time] /\ left \in [Task -> Int \cup {NULL}]
  BY <1>1, <1>2 DEF Init
<1>5. xTimeOut \in [Task -> TimeOuts]
  BY <1>1, Zenon DEF Init
<1>6. /\ xTickCount \in Time /\ xNextTaskUnblockTime \in Time /\ resetDue \in BOOLEAN
      /\ xNumOfOverflows \in 0 .. OverflowModulus - 1
  BY <1>2 DEF Init, TickInit
<1>7. TimeTypes
  BY <1>4, <1>5, <1>6 DEF TimeTypes
<1>3. ASSUME NEW t \in Task PROVE Timed(t)
  <2>1. /\ call[t] = "none" /\ eventList[t] = FALSE /\ stateList[t] = Nowhere /\ phase[t] = "absent"
    BY DEF Init
  <2> QED
    BY <2>1, Lists6 DEF Timed, Placed, Wakes, Waited, Periodic, Unblocks
<1> QED
  BY <1>3, <1>7 DEF TickInv

LEMMA TimeStays == TickInv /\ [Next]_vars => TickInv'
<1> SUFFICES ASSUME TickInv, [Next]_vars PROVE TickInv'
  OBVIOUS
<1>1. CASE Tick
  BY <1>1, TickKeeps
<1>2. CASE SuspendReset
  BY <1>2, ResetKeeps
<1>3. CASE xQueueGenericCreate \/ vQueueDelete
  BY <1>3, StillKeeps DEF xQueueGenericCreate, vQueueDelete
<1>4. CASE UNCHANGED vars
  <2>1. UNCHANGED <<phase, tickVars, listVars, resetDue, callVars>>
    BY <1>4 DEF vars, memoryVars
  <2> QED
    BY <2>1, StillKeeps
<1>5. ASSUME NEW t \in Task,
             AllocateStack(t) \/ AllocateTCB(t) \/ FreeStack(t) \/ prvAddNewTaskToReadyList(t)
      PROVE  TickInv'
  BY <1>5, CreateKeeps, AddKeeps
<1>6. ASSUME NEW t \in Task,
             vTaskDelete(t) \/ DeleteSelf(t) \/ prvCheckTasksWaitingTermination(t)
      PROVE  TickInv'
  BY <1>6, DeleteKeeps, DeleteSelfKeeps, ReclaimKeeps
<1>7. ASSUME NEW t \in Task,
             vTaskDelay(t) \/ BeginWait(t) \/ xTaskCheckForTimeOut(t) \/ EndWait(t)
      PROVE  TickInv'
  BY <1>7, DelayKeeps, BeginWaitKeeps, CheckForTimeOutKeeps, EndWaitKeeps
<1>8. ASSUME NEW t \in Task,
             \/ xTaskRemoveFromEventList(t) \/ BeginPeriodic(t) \/ vTaskDelayUntil(t)
             \/ EndPeriodic(t) \/ vTaskSuspend(t) \/ vTaskResume(t)
      PROVE  TickInv'
  BY <1>8, WakeKeeps, BeginPeriodicKeeps, DelayUntilKeeps, EndWaitKeeps, SuspendKeeps
<1> QED
  BY <1>1, <1>2, <1>3, <1>4, <1>5, <1>6, <1>7, <1>8 DEF Next

LEMMA TimeKept == TickInv => TimesKept
<1> SUFFICES ASSUME TickInv, NEW t \in Task
             PROVE  /\ Asleep(t) => left[t] > 0 /\ (t \in WokenByTick <=> left[t] = 1)
                    /\ Runs(t) /\ call[t] = "wait" =>
                         (TimedOut(xTimeOut[t], xTicksToWait[t]) <=> left[t] # NULL /\ left[t] <= 0)
                    /\ Runs(t) /\ call[t] = "periodic" =>
                         \A n \in Periods[t] : ShouldDelay(previousWake[t], n) <=> left[t] + n > 0
  BY DEF TimesKept
<1>1. Asleep(t) => left[t] > 0 /\ (t \in WokenByTick <=> left[t] = 1)
  BY WokenIs
<1>2. call[t] = "wait" =>
        (TimedOut(xTimeOut[t], xTicksToWait[t]) <=> left[t] # NULL /\ left[t] <= 0)
  BY TimeOutIs
<1>3. ASSUME Runs(t), call[t] = "periodic", NEW n \in Periods[t]
      PROVE  ShouldDelay(previousWake[t], n) <=> left[t] + n > 0
  <2>1. n \in Time /\ n \in Nat /\ n > 0
    BY TasksAssumption, TimeIs
  <2>2. ~Asleep(t)
    BY <1>3, Lists6 DEF Runs, Asleep
  <2> QED
    BY <1>3, <2>1, <2>2, PeriodIs
<1> QED
  BY <1>1, <1>2, <1>3

(* The tick wakes a sleeping task when it has slept as long as it asked    *)
(* and neither before nor after, xTaskCheckForTimeOut says that time is up *)
(* if and only if it is, and vTaskDelayUntil delays if and only if the end *)
(* of the period is still to come: for any delays, waits and periods and   *)
(* any modulus, across overflows of the tick count, whatever is suspended, *)
(* deleted or woken by an event in between.                                *)
THEOREM TimeToldRightly == Spec => []TimesKept
<1>1. Spec => []TickInv
  BY TimeStarts, TimeStays, PTL DEF Spec
<1> QED
  BY <1>1, TimeKept, PTL


-----------------------------------------------------------------------------
(* The heap: sizes and addresses. *)

BlockSet == [at : Nat, size : Nat]
End(b) == b.at + b.size
HeapInv(h) == h \in [free : SUBSET BlockSet, used : SUBSET BlockSet, remaining : Nat] /\ Tiled(h)

LEMMA DivIs ==
    ASSUME NEW a \in Nat \ {0}, NEW m \in Nat
    PROVE  (m \div a) \in Nat /\ m % a \in 0 .. a - 1 /\ m = (m \div a) * a + (m % a)
<1>1. (m \div a) \in Nat
  BY SMT
<1>2. m % a \in 0 .. a - 1
  BY SMT
<1>3. m = a * (m \div a) + (m % a)
  BY SMT
<1>4. a * (m \div a) = (m \div a) * a
  BY <1>1, SMT
<1> QED
  BY <1>1, <1>2, <1>3, <1>4

LEMMA AlignedIs ==
    ASSUME NEW n \in Nat
    PROVE  AlignedDown(n) \in Nat /\ Aligned(n) \in Nat /\ Aligned(n) >= n
<1> DEFINE a == portBYTE_ALIGNMENT
           m == n + a - 1
<1>1. a \in Nat \ {0}
  BY HeapAssumption
<1>2. m \in Nat
  BY <1>1
<1> HIDE DEF a
<1>3. /\ (m \div a) \in Nat /\ m % a \in 0 .. a - 1 /\ m = (m \div a) * a + (m % a)
      /\ (n \div a) \in Nat
  BY <1>1, <1>2, DivIs
<1>4. (m \div a) * a \in Nat /\ (n \div a) * a \in Nat
  BY <1>1, <1>3, SMT
<1>5. Aligned(n) = (m \div a) * a /\ AlignedDown(n) = (n \div a) * a
  BY DEF a, m, Aligned, AlignedDown
<1>6. (m \div a) * a >= n
  <2> DEFINE p == (m \div a) * a
             r == m % a
  <2>1. p \in Nat /\ r \in 0 .. a - 1 /\ n + a - 1 = p + r
    BY <1>3, <1>4
  <2> HIDE DEF p, r
  <2>2. p >= n
    BY <1>1, <2>1
  <2> QED
    BY <2>2 DEF p
<1> QED
  BY <1>4, <1>5, <1>6

LEMMA Sizes ==
    /\ xHeapStructSize \in Nat /\ xHeapStructSize > 0
    /\ HeapStart \in Nat /\ HeapEnd \in Nat /\ HeapStart + xHeapStructSize < HeapEnd
    /\ NULL \notin Int
<1>1. xHeapStructSize \in Nat /\ xHeapStructSize > 0 /\ HeapStart \in Nat
  BY HeapAssumption, AlignedIs DEF xHeapStructSize, HeapStart
<1>2. HeapEnd \in Int
  <2>1. \A n \in Int : AlignedDown(n) \in Int
    BY HeapAssumption, SMT DEF AlignedDown
  <2> QED
    BY <1>1, <2>1, HeapAssumption DEF HeapEnd
<1> HIDE DEF xHeapStructSize, HeapStart, HeapEnd
<1> QED
  BY <1>1, <1>2, HeapAssumption

LEMMA WantedIs ==
    ASSUME NEW n \in Nat \ {0}
    PROVE  Wanted(n) \in Nat /\ Wanted(n) >= n + xHeapStructSize
<1>1. n + xHeapStructSize \in Nat
  BY Sizes
<1> HIDE DEF xHeapStructSize
<1>2. Wanted(n) = Aligned(n + xHeapStructSize)
  BY DEF Wanted
<1> QED
  BY <1>1, <1>2, AlignedIs

LEMMA ExactMin ==
    ASSUME NEW S \in SUBSET Int, NEW m \in S, \A n \in S : m <= n
    PROVE  Min(S) = m
<1>1. Min(S) \in S /\ \A n \in S : Min(S) <= n
  <2>1. \E x \in S : \A y \in S : x =< y
    OBVIOUS
  <2> QED
    BY <2>1 DEF Min
<1> DEFINE k == Min(S)
<1>2. k \in Int /\ m \in Int /\ k <= m /\ m <= k
  BY <1>1
<1> HIDE DEF k
<1>3. k = m
  BY <1>2
<1> QED
  BY <1>3 DEF k

LEMMA ExactMax ==
    ASSUME NEW S \in SUBSET Int, NEW m \in S, \A n \in S : n <= m
    PROVE  Max(S) = m
<1>1. Max(S) \in S /\ \A n \in S : Max(S) >= n
  <2>1. \E x \in S : \A y \in S : x >= y
    OBVIOUS
  <2> QED
    BY <2>1 DEF Max
<1> DEFINE k == Max(S)
<1>2. k \in Int /\ m \in Int /\ k <= m /\ m <= k
  BY <1>1
<1> HIDE DEF k
<1>3. k = m
  BY <1>2
<1> QED
  BY <1>3 DEF k

(* What the invariant says, conjunct by conjunct.                          *)
LEMMA HeapNow ==
    ASSUME NEW h, HeapInv(h)
    PROVE  /\ h.free \in SUBSET BlockSet /\ h.used \in SUBSET BlockSet /\ h.remaining \in Nat
           /\ \A x \in HeapStart .. HeapEnd - 1 : \E b \in h.free \cup h.used : x \in Bytes(b)
           /\ \A b, c \in h.free \cup h.used : b # c => End(b) <= c.at \/ End(c) <= b.at
           /\ h.free \cap h.used = {}
           /\ \A b \in h.free \cup h.used :
                 /\ b.at \in Nat /\ b.size \in Nat /\ End(b) \in Nat
                 /\ b.at >= HeapStart /\ End(b) <= HeapEnd
                 /\ b.size > xHeapStructSize /\ b.at < End(b)
           /\ \A f, g \in h.free : End(f) # g.at
           /\ h.remaining = Cardinality(UNION {Bytes(f) : f \in h.free})
<1>1. \A b \in h.free \cup h.used :
          /\ b.at \in Nat /\ b.size \in Nat /\ End(b) \in Nat
          /\ b.at >= HeapStart /\ End(b) <= HeapEnd
          /\ b.size > xHeapStructSize /\ b.at < End(b)
  BY Sizes DEF HeapInv, Tiled, BlockSet, End
<1> QED
  BY <1>1 DEF HeapInv, Tiled, End

LEMMA HeapHolds ==
    ASSUME NEW free \in SUBSET BlockSet, NEW used \in SUBSET BlockSet, NEW remaining \in Nat,
           \A x \in HeapStart .. HeapEnd - 1 : \E b \in free \cup used : x \in Bytes(b),
           \A b, c \in free \cup used : b # c => End(b) <= c.at \/ End(c) <= b.at,
           free \cap used = {},
           \A b \in free \cup used :
                 b.at >= HeapStart /\ End(b) <= HeapEnd /\ b.size > xHeapStructSize,
           \A f, g \in free : End(f) # g.at,
           remaining = Cardinality(UNION {Bytes(f) : f \in free})
    PROVE  HeapInv([free |-> free, used |-> used, remaining |-> remaining])
BY DEF HeapInv, Tiled, End

LEMMA BytesAre ==
    ASSUME NEW b \in BlockSet, NEW x \in Int
    PROVE  x \in Bytes(b) <=> b.at <= x /\ x < End(b)
BY DEF Bytes, BlockSet, End

LEMMA BytesCount ==
    ASSUME NEW b \in BlockSet
    PROVE  IsFiniteSet(Bytes(b)) /\ Cardinality(Bytes(b)) = b.size /\ Bytes(b) \in SUBSET Nat
<1>1. b.at \in Int /\ b.at + b.size - 1 \in Int /\ b.size \in Nat /\ b.at \in Nat
  BY DEF BlockSet
<1> DEFINE a == b.at
           z == b.at + b.size - 1
<1>2. IsFiniteSet(a .. z) /\ Cardinality(a .. z) = IF a > z THEN 0 ELSE z - a + 1
  BY <1>1, FS_Interval
<1> QED
  BY <1>1, <1>2 DEF Bytes

-----------------------------------------------------------------------------
(* The heap: a block becomes one with its free neighbours. *)

Left(list, b) == {f \in list : End(f) = b.at}
Right(list, b) == {f \in list : f.at = End(b)}

(* The two sets have at most one member each, and the new block reaches    *)
(* from the start of the one to the end of the other.                      *)
LEMMA InsertedIs ==
    ASSUME NEW h, HeapInv(h), NEW b \in h.used
    PROVE  \E n \in BlockSet :
              LET joined == Left(h.free, b) \cup Right(h.free, b)
              IN /\ Inserted(h.free, b) = (h.free \ joined) \cup {n}
                 /\ n.at <= b.at /\ End(b) <= End(n)
                 /\ \A f \in joined : n.at <= f.at /\ End(f) <= End(n)
                 /\ n.at = b.at \/ \E f \in joined : n.at = f.at /\ End(f) = b.at
                 /\ End(n) = End(b) \/ \E f \in joined : End(n) = End(f) /\ f.at = End(b)
<1> DEFINE L == Left(h.free, b)
           R == Right(h.free, b)
           joined == L \cup R
           all == {b} \cup joined
           starts == {f.at : f \in all}
           ends == {End(f) : f \in all}
<1>1. /\ h.free \in SUBSET BlockSet /\ b \in BlockSet /\ b \notin h.free
      /\ \A f \in all : /\ f \in h.free \cup h.used /\ f.at \in Nat /\ End(f) \in Nat
                        /\ f.at < End(f)
  BY HeapNow DEF Left, Right
<1>2. \A f, g \in L : f = g
  <2> SUFFICES ASSUME NEW f \in L, NEW g \in L, f # g PROVE FALSE
    OBVIOUS
  <2>1. End(f) = b.at /\ End(g) = b.at /\ (End(f) <= g.at \/ End(g) <= f.at)
    BY HeapNow DEF Left
  <2> QED
    BY <1>1, <2>1
<1>3. \A f, g \in R : f = g
  <2> SUFFICES ASSUME NEW f \in R, NEW g \in R, f # g PROVE FALSE
    OBVIOUS
  <2>1. f.at = End(b) /\ g.at = End(b) /\ (End(f) <= g.at \/ End(g) <= f.at)
    BY HeapNow DEF Right
  <2> QED
    BY <1>1, <2>1
<1>4. starts \in SUBSET Int /\ ends \in SUBSET Int
  BY <1>1
<1>5. /\ \A f \in L : End(f) = b.at
      /\ \A f \in R : f.at = End(b)
  BY DEF Left, Right
<1>6. \E lo \in starts : /\ \A x \in starts : lo <= x
                         /\ lo = b.at \/ \E f \in L : lo = f.at
  <2>1. CASE L = {}
    <3>1. \A f \in all : b.at <= f.at
      BY <1>1, <1>5, <2>1
    <3> QED
      BY <3>1
  <2>2. CASE L # {}
    <3>1. PICK l \in L : TRUE
      BY <2>2
    <3>2. \A f \in all : l.at <= f.at
      BY <1>1, <1>2, <1>5, <3>1
    <3> QED
      BY <3>1, <3>2
  <2> QED
    BY <2>1, <2>2
<1>7. \E hi \in ends : /\ \A x \in ends : x <= hi
                       /\ hi = End(b) \/ \E f \in R : hi = End(f)
  <2>1. CASE R = {}
    <3>1. \A f \in all : End(f) <= End(b)
      BY <1>1, <1>5, <2>1
    <3> QED
      BY <3>1
  <2>2. CASE R # {}
    <3>1. PICK r \in R : TRUE
      BY <2>2
    <3>2. \A f \in all : End(f) <= End(r)
      BY <1>1, <1>3, <1>5, <3>1
    <3> QED
      BY <3>1, <3>2
  <2> QED
    BY <2>1, <2>2
<1>8. PICK lo \in starts : /\ \A x \in starts : lo <= x
                           /\ lo = b.at \/ \E f \in L : lo = f.at
  BY <1>6
<1>9. PICK hi \in ends : /\ \A x \in ends : x <= hi
                         /\ hi = End(b) \/ \E f \in R : hi = End(f)
  BY <1>7
<1>10. lo \in Nat /\ hi \in Nat /\ lo <= b.at /\ End(b) <= hi /\ b.at < End(b)
  <2>1. b.at \in starts /\ End(b) \in ends /\ starts \in SUBSET Nat /\ ends \in SUBSET Nat
    BY <1>1
  <2> QED
    BY <1>1, <1>8, <1>9, <2>1
<1>11. Min(starts) = lo /\ Max(ends) = hi
  BY <1>4, <1>8, <1>9, ExactMin, ExactMax
<1> DEFINE n == Block(lo, hi - lo)
<1>12. n \in BlockSet /\ n.at = lo /\ End(n) = hi
  <2>1. hi - lo \in Nat /\ lo + (hi - lo) = hi
    BY <1>1, <1>10
  <2> QED
    BY <1>10, <2>1 DEF Block, BlockSet, End
<1>13. Inserted(h.free, b) = (h.free \ joined) \cup {n}
  <2> DEFINE j == {b} \cup {f \in h.free : f.at + f.size = b.at \/ b.at + b.size = f.at}
  <2>1. j = all
    BY DEF Left, Right, End
  <2>2. {f.at : f \in j} = starts /\ {f.at + f.size : f \in j} = ends
    BY <2>1 DEF End
  <2>3. Inserted(h.free, b) = (h.free \ j) \cup {Block(Min({f.at : f \in j}),
                                 Max({f.at + f.size : f \in j}) - Min({f.at : f \in j}))}
    BY DEF Inserted
  <2> HIDE DEF j, starts, ends
  <2>4. Inserted(h.free, b) = (h.free \ all) \cup {n}
    BY <1>11, <2>1, <2>2, <2>3
  <2>5. h.free \ all = h.free \ joined
    BY <1>1
  <2> QED
    BY <2>4, <2>5
<1>14. \A f \in joined : lo <= f.at /\ End(f) <= hi
  BY <1>8, <1>9
<1>15. /\ lo = b.at \/ \E f \in joined : lo = f.at /\ End(f) = b.at
       /\ hi = End(b) \/ \E f \in joined : hi = End(f) /\ f.at = End(b)
  BY <1>5, <1>8, <1>9
<1> HIDE DEF n, L, R, starts, ends
<1> QED
  BY <1>10, <1>12, <1>13, <1>14, <1>15 DEF L, R

(* The bytes of a set of blocks grow by those of one that is apart.        *)
LEMMA CountGrows ==
    ASSUME NEW list \in SUBSET BlockSet, NEW b \in BlockSet, IsFiniteSet(UNION {Bytes(f) : f \in list}),
           \A f \in list : End(f) <= b.at \/ End(b) <= f.at
    PROVE  LET U == UNION {Bytes(f) : f \in list}
           IN /\ IsFiniteSet(U \cup Bytes(b))
              /\ Cardinality(U \cup Bytes(b)) = Cardinality(U) + b.size
<1> DEFINE U == UNION {Bytes(f) : f \in list}
<1>1. IsFiniteSet(Bytes(b)) /\ Cardinality(Bytes(b)) = b.size
  BY BytesCount
<1>2. U \cap Bytes(b) = {}
  <2> SUFFICES ASSUME NEW f \in list, NEW x \in Bytes(f), x \in Bytes(b) PROVE FALSE
    OBVIOUS
  <2>1. x \in Int /\ f.at \in Nat /\ f.size \in Nat /\ b.at \in Nat /\ b.size \in Nat
    BY DEF Bytes, BlockSet
  <2>2. f.at <= x /\ x < End(f) /\ b.at <= x /\ x < End(b)
    BY <2>1 DEF Bytes, End
  <2>3. End(f) <= b.at \/ End(b) <= f.at
    OBVIOUS
  <2>4. End(f) \in Nat /\ End(b) \in Nat
    BY <2>1 DEF End
  <2> QED
    BY <2>1, <2>2, <2>3, <2>4
<1> HIDE DEF U
<1>3. /\ IsFiniteSet(U \cup Bytes(b))
      /\ Cardinality(U \cup Bytes(b)) = Cardinality(U) + Cardinality(Bytes(b)) - Cardinality(U \cap Bytes(b))
  BY <1>1, FS_Union DEF U
<1>4. Cardinality({}) = 0 /\ Cardinality(U) \in Nat /\ b.size \in Nat
  BY FS_EmptySet, FS_CardinalityType DEF U, BlockSet
<1>5. Cardinality(U \cup Bytes(b)) = Cardinality(U) + b.size
  <2> DEFINE both == Cardinality(U \cap Bytes(b))
             u == Cardinality(U)
             c == Cardinality(U \cup Bytes(b))
  <2>1. both = 0 /\ u \in Nat /\ c = u + b.size - both
    BY <1>1, <1>2, <1>3, <1>4
  <2> HIDE DEF both, u, c
  <2>2. c = u + b.size
    BY <1>4, <2>1
  <2> QED
    BY <2>2 DEF c, u
<1> QED
  BY <1>3, <1>5 DEF U

LEMMA FreeBytesFinite ==
    ASSUME NEW h, HeapInv(h)
    PROVE  IsFiniteSet(UNION {Bytes(f) : f \in h.free})
<1>1. IsFiniteSet(0 .. HeapEnd)
  BY Sizes, FS_Interval
<1>2. ASSUME NEW f \in h.free, NEW x \in Bytes(f) PROVE x \in 0 .. HeapEnd
  <2>1. f \in BlockSet /\ End(f) <= HeapEnd /\ f.at \in Nat /\ f.size \in Nat /\ HeapEnd \in Nat
    BY HeapNow, Sizes
  <2> HIDE DEF HeapEnd
  <2> QED
    BY <2>1 DEF Bytes, End
<1>3. (UNION {Bytes(f) : f \in h.free}) \in SUBSET (0 .. HeapEnd)
  BY <1>2
<1> HIDE DEF HeapEnd
<1> QED
  BY <1>1, <1>3, FS_Subset

(* vPortFree of an allocated block.                                        *)
LEMMA BlockFreed ==
    ASSUME NEW h, HeapInv(h), NEW b \in h.used
    PROVE  HeapInv([free |-> Inserted(h.free, b), used |-> h.used \ {b},
                    remaining |-> h.remaining + b.size])
<1> DEFINE joined == Left(h.free, b) \cup Right(h.free, b)
<1>1. PICK n \in BlockSet :
          /\ Inserted(h.free, b) = (h.free \ joined) \cup {n}
          /\ n.at <= b.at /\ End(b) <= End(n)
          /\ \A f \in joined : n.at <= f.at /\ End(f) <= End(n)
          /\ n.at = b.at \/ \E f \in joined : n.at = f.at /\ End(f) = b.at
          /\ End(n) = End(b) \/ \E f \in joined : End(n) = End(f) /\ f.at = End(b)
  BY InsertedIs
<1> DEFINE free == (h.free \ joined) \cup {n}
           used == h.used \ {b}
           blocks == h.free \cup h.used
           others == blocks \ ({b} \cup joined)
<1>2. /\ h.free \in SUBSET BlockSet /\ h.used \in SUBSET BlockSet /\ h.remaining \in Nat
      /\ h.free \cap h.used = {}
      /\ b \in BlockSet /\ b \notin h.free
      /\ \A c \in blocks : /\ c \in BlockSet /\ c.at \in Nat /\ c.size \in Nat /\ End(c) \in Nat
                           /\ c.at >= HeapStart /\ End(c) <= HeapEnd
                           /\ c.size > xHeapStructSize /\ c.at < End(c)
      /\ b \in blocks /\ joined \subseteq h.free
      /\ n.at \in Nat /\ n.size \in Nat /\ End(n) \in Nat
  <2>1. n.at \in Nat /\ n.size \in Nat /\ End(n) \in Nat
    BY DEF BlockSet, End
  <2>2. /\ h.free \in SUBSET BlockSet /\ h.used \in SUBSET BlockSet /\ h.remaining \in Nat
        /\ h.free \cap h.used = {}
        /\ \A c \in blocks : /\ c.at \in Nat /\ c.size \in Nat /\ End(c) \in Nat
                             /\ c.at >= HeapStart /\ End(c) <= HeapEnd
                             /\ c.size > xHeapStructSize /\ c.at < End(c)
    BY HeapNow
  <2>3. joined \subseteq h.free
    BY DEF Left, Right
  <2> QED
    BY <2>1, <2>2, <2>3
<1>3. \A c, d \in blocks : c # d => End(c) <= d.at \/ End(d) <= c.at
  BY HeapNow
<1>4. \A f \in joined : End(f) = b.at \/ f.at = End(b)
  BY DEF Left, Right
<1>5. \A f \in h.free : End(f) = b.at \/ f.at = End(b) => f \in joined
  BY DEF Left, Right
<1>6. \A f, g \in h.free : End(f) # g.at
  BY HeapNow
<1>20. /\ xHeapStructSize \in Nat /\ HeapStart \in Nat /\ HeapEnd \in Nat
  BY Sizes
<1> HIDE DEF joined, xHeapStructSize, HeapStart, HeapEnd
<1>7. free \cup used = others \cup {n}
  BY <1>2
<1>8. \A c \in others : End(c) <= n.at \/ End(n) <= c.at
  <2> SUFFICES ASSUME NEW c \in others PROVE End(c) <= n.at \/ End(n) <= c.at
    OBVIOUS
  <2>1. c \in blocks /\ c # b /\ c \notin joined
    OBVIOUS
  <2>2. CASE End(c) <= b.at
    <3>1. CASE n.at = b.at
      BY <2>2, <3>1
    <3>2. CASE \E f \in joined : n.at = f.at /\ End(f) = b.at
      <4>1. PICK f \in joined : n.at = f.at /\ End(f) = b.at
        BY <3>2
      <4>2. End(c) <= f.at \/ End(f) <= c.at
        BY <1>2, <1>3, <2>1, <4>1
      <4>3. c.at < End(c) /\ c.at \in Nat /\ End(c) \in Nat /\ b.at \in Nat
        BY <1>2, <2>1
      <4> QED
        BY <2>2, <4>1, <4>2, <4>3
    <3> QED
      BY <1>1, <3>1, <3>2
  <2>3. CASE End(b) <= c.at
    <3>1. CASE End(n) = End(b)
      BY <2>3, <3>1
    <3>2. CASE \E f \in joined : End(n) = End(f) /\ f.at = End(b)
      <4>1. PICK f \in joined : End(n) = End(f) /\ f.at = End(b)
        BY <3>2
      <4>2. End(c) <= f.at \/ End(f) <= c.at
        BY <1>2, <1>3, <2>1, <4>1
      <4>3. c.at < End(c) /\ c.at \in Nat /\ End(c) \in Nat /\ End(b) \in Nat
        BY <1>2, <2>1
      <4> QED
        BY <2>3, <4>1, <4>2, <4>3
    <3> QED
      BY <1>1, <3>1, <3>2
  <2> QED
    BY <1>2, <1>3, <2>1, <2>2, <2>3
<1>9. n.at < End(n) /\ n.size > xHeapStructSize /\ n.at >= HeapStart /\ End(n) <= HeapEnd
  <2>1. n.at < End(n) /\ n.size >= b.size
    BY <1>1, <1>2 DEF End
  <2>2. n.at >= HeapStart
    BY <1>1, <1>2
  <2>3. End(n) <= HeapEnd
    BY <1>1, <1>2
  <2> QED
    BY <1>2, <1>20, <2>1, <2>2, <2>3
<1>10. n \notin others
  BY <1>2, <1>8, <1>9
<1>11. free \in SUBSET BlockSet /\ used \in SUBSET BlockSet /\ h.remaining + b.size \in Nat
  BY <1>2
<1>12. \A x \in HeapStart .. HeapEnd - 1 : \E c \in free \cup used : x \in Bytes(c)
  <2> SUFFICES ASSUME NEW x \in HeapStart .. HeapEnd - 1
               PROVE  \E c \in others \cup {n} : x \in Bytes(c)
    BY <1>7
  <2>1. PICK c \in blocks : x \in Bytes(c)
    BY HeapNow
  <2>2. CASE c \in others
    BY <2>1, <2>2
  <2>3. CASE c \notin others
    <3>1. x \in Int
      BY <1>20
    <3>2. n.at <= c.at /\ End(c) <= End(n)
      BY <1>1, <2>3
    <3>3. c.at <= x /\ x < End(c)
      BY <1>2, <2>1, <3>1, BytesAre
    <3>4. n.at <= x /\ x < End(n)
      BY <1>2, <3>1, <3>2, <3>3
    <3> QED
      BY <3>1, <3>4, BytesAre
  <2> QED
    BY <2>2, <2>3
<1>13. \A c, d \in free \cup used : c # d => End(c) <= d.at \/ End(d) <= c.at
  BY <1>3, <1>7, <1>8
<1>14. free \cap used = {}
  BY <1>2, <1>10
<1>15. \A c \in free \cup used : c.at >= HeapStart /\ End(c) <= HeapEnd /\ c.size > xHeapStructSize
  BY <1>2, <1>7, <1>9
<1>16. \A f, g \in free : End(f) # g.at
  <2> SUFFICES ASSUME NEW f \in free, NEW g \in free, End(f) = g.at PROVE FALSE
    OBVIOUS
  <2>1. CASE f # n /\ g # n
    BY <1>6, <2>1
  <2>2. CASE f = n /\ g = n
    BY <1>9, <1>2, <2>2
  <2>3. CASE f = n /\ g # n
    <3>1. g \in h.free /\ g \notin joined
      BY <2>3
    <3>2. End(n) # End(b)
      BY <1>5, <2>3, <3>1
    <3> QED
      BY <1>1, <1>2, <1>6, <2>3, <3>1, <3>2
  <2>4. CASE f # n /\ g = n
    <3>1. f \in h.free /\ f \notin joined
      BY <2>4
    <3>2. n.at # b.at
      BY <1>5, <2>4, <3>1
    <3> QED
      BY <1>1, <1>2, <1>6, <2>4, <3>1, <3>2
  <2> QED
    BY <2>1, <2>2, <2>3, <2>4
<1>17. h.remaining + b.size = Cardinality(UNION {Bytes(f) : f \in free})
  <2> DEFINE U == UNION {Bytes(f) : f \in h.free}
  <2>1. (UNION {Bytes(f) : f \in free}) = U \cup Bytes(b)
    <3>1. ASSUME NEW f \in free, NEW x \in Bytes(f) PROVE x \in U \cup Bytes(b)
      <4>1. CASE f \in h.free
        BY <3>1, <4>1
      <4>2. CASE f = n
        <5>1. x \in Int /\ n.at <= x /\ x < End(n)
          BY <1>2, <3>1, <4>2 DEF Bytes, End
        <5>2. CASE b.at <= x /\ x < End(b)
          BY <1>2, <5>1, <5>2, BytesAre
        <5>3. CASE x < b.at
          <6>1. n.at # b.at
            BY <1>2, <5>1, <5>3
          <6>2. PICK g \in joined : n.at = g.at /\ End(g) = b.at
            BY <1>1, <6>1
          <6>3. g \in h.free /\ g \in BlockSet /\ g.at <= x /\ x < End(g)
            BY <1>2, <5>1, <5>3, <6>2
          <6> QED
            BY <5>1, <6>3, BytesAre
        <5>4. CASE ~(x < End(b))
          <6>1. End(n) # End(b) /\ End(b) <= x
            BY <1>2, <5>1, <5>4
          <6>2. PICK g \in joined : End(n) = End(g) /\ g.at = End(b)
            BY <1>1, <6>1
          <6>3. g \in h.free /\ g \in BlockSet /\ g.at <= x /\ x < End(g)
            BY <1>2, <5>1, <6>1, <6>2
          <6> QED
            BY <5>1, <6>3, BytesAre
        <5> QED
          BY <1>2, <5>1, <5>2, <5>3, <5>4
      <4> QED
        BY <4>1, <4>2
    <3>2. ASSUME NEW f \in h.free \cup {b}, NEW x \in Bytes(f)
          PROVE  x \in UNION {Bytes(g) : g \in free}
      <4>1. CASE f \in h.free \ joined
        BY <3>2, <4>1
      <4>2. CASE f \in joined \cup {b}
        <5>1. f \in BlockSet /\ f.at \in Nat /\ f.size \in Nat /\ End(f) \in Nat
          BY <1>2
        <5>2. x \in Int /\ f.at <= x /\ x < End(f)
          BY <3>2, <5>1 DEF Bytes, End
        <5>3. n.at <= f.at /\ End(f) <= End(n)
          BY <1>1, <4>2
        <5>4. n.at <= x /\ x < End(n)
          BY <1>2, <5>1, <5>2, <5>3
        <5>5. x \in Bytes(n)
          BY <5>2, <5>4, BytesAre
        <5> QED
          BY <5>5
      <4> QED
        BY <3>2, <4>1, <4>2
    <3> HIDE DEF free
    <3> QED
      BY <3>1, <3>2
  <2>2. \A f \in h.free : End(f) <= b.at \/ End(b) <= f.at
    BY <1>2, <1>3
  <2>3. Cardinality(U \cup Bytes(b)) = Cardinality(U) + b.size
    BY <1>2, <2>2, FreeBytesFinite, CountGrows
  <2>4. h.remaining = Cardinality(U)
    BY HeapNow
  <2> HIDE DEF U, free
  <2> QED
    BY <2>1, <2>3, <2>4
<1> HIDE DEF free, used
<1>18. HeapInv([free |-> free, used |-> used, remaining |-> h.remaining + b.size])
  BY <1>11, <1>12, <1>13, <1>14, <1>15, <1>16, <1>17, HeapHolds
<1> QED
  BY <1>1, <1>18 DEF free, used

(* A free block becomes an allocated one.                                  *)
LEMMA BlockTaken ==
    ASSUME NEW h, HeapInv(h), NEW b \in h.free
    PROVE  /\ h.remaining - b.size \in Nat
           /\ HeapInv([free |-> h.free \ {b}, used |-> h.used \cup {b},
                       remaining |-> h.remaining - b.size])
<1> DEFINE free == h.free \ {b}
           used == h.used \cup {b}
           U == UNION {Bytes(f) : f \in free}
           V == UNION {Bytes(f) : f \in h.free}
<1>1. free \cup used = h.free \cup h.used /\ free \cap used = {}
  BY HeapNow
<1>2. /\ h.free \in SUBSET BlockSet /\ h.used \in SUBSET BlockSet /\ h.remaining \in Nat
      /\ b \in BlockSet /\ b.size \in Nat
  BY HeapNow DEF BlockSet
<1>3. \A f \in free : End(f) <= b.at \/ End(b) <= f.at
  BY HeapNow
<1>4. V = U \cup Bytes(b)
  OBVIOUS
<1>5. IsFiniteSet(V) /\ h.remaining = Cardinality(V)
  BY HeapNow, FreeBytesFinite
<1>6. IsFiniteSet(U)
  BY <1>4, <1>5, FS_Subset
<1>7. free \in SUBSET BlockSet
  BY <1>2
<1>8. Cardinality(U \cup Bytes(b)) = Cardinality(U) + b.size
  BY <1>2, <1>3, <1>6, <1>7, CountGrows
<1>9. Cardinality(U) \in Nat
  BY <1>6, FS_CardinalityType
<1> DEFINE k == Cardinality(U)
<1>10. h.remaining = k + b.size /\ k \in Nat
  BY <1>4, <1>5, <1>8, <1>9
<1> HIDE DEF k
<1>11. h.remaining - b.size = k /\ h.remaining - b.size \in Nat
  BY <1>2, <1>10
<1>12. \A x \in HeapStart .. HeapEnd - 1 : \E c \in free \cup used : x \in Bytes(c)
  BY <1>1, HeapNow
<1>13. \A c, d \in free \cup used : c # d => End(c) <= d.at \/ End(d) <= c.at
  BY <1>1, HeapNow
<1>14. \A c \in free \cup used : c.at >= HeapStart /\ End(c) <= HeapEnd /\ c.size > xHeapStructSize
  BY <1>1, HeapNow
<1>15. \A f, g \in free : End(f) # g.at
  BY HeapNow
<1>16. used \in SUBSET BlockSet
  BY <1>2
<1>17. h.remaining - b.size = Cardinality(UNION {Bytes(f) : f \in free})
  BY <1>11 DEF k
<1> HIDE DEF free, used, U, V
<1>18. HeapInv([free |-> free, used |-> used, remaining |-> h.remaining - b.size])
  BY <1>1, <1>7, <1>11, <1>12, <1>13, <1>14, <1>15, <1>16, <1>17, HeapHolds
<1> QED
  BY <1>11, <1>18 DEF free, used

(* An allocated block is cut in two.                                       *)
LEMMA BlockCut ==
    ASSUME NEW h, HeapInv(h), NEW b \in h.used, NEW w \in Nat,
           w > xHeapStructSize, b.size - w > xHeapStructSize
    PROVE  LET first == Block(b.at, w)
               rest == Block(b.at + w, b.size - w)
           IN /\ first \in BlockSet /\ rest \in BlockSet /\ first # rest
              /\ rest \notin h.used /\ first \notin h.used \ {b} /\ rest \notin h.used \ {b}
              /\ HeapInv([free |-> h.free, used |-> (h.used \ {b}) \cup {first, rest},
                          remaining |-> h.remaining])
<1> DEFINE first == Block(b.at, w)
           rest == Block(b.at + w, b.size - w)
           old == h.free \cup h.used
           used == (h.used \ {b}) \cup {first, rest}
           others == old \ {b}
<1>1. /\ h.free \in SUBSET BlockSet /\ h.used \in SUBSET BlockSet /\ h.remaining \in Nat
      /\ h.free \cap h.used = {} /\ b \in old /\ b \notin h.free
      /\ \A c \in old : /\ c \in BlockSet /\ c.at \in Nat /\ c.size \in Nat /\ End(c) \in Nat
                        /\ c.at >= HeapStart /\ End(c) <= HeapEnd
                        /\ c.size > xHeapStructSize /\ c.at < End(c)
  BY HeapNow
<1>2. /\ xHeapStructSize \in Nat /\ HeapStart \in Nat /\ HeapEnd \in Nat
  BY Sizes
<1>3. End(b) = b.at + b.size
  BY DEF End
<1> HIDE DEF xHeapStructSize, HeapStart, HeapEnd
<1>4. /\ first \in BlockSet /\ first.at = b.at /\ End(first) = b.at + w /\ first.size = w
      /\ rest \in BlockSet /\ rest.at = b.at + w /\ End(rest) = End(b) /\ rest.size = b.size - w
  <2>1. b.at + w \in Nat /\ b.size - w \in Nat /\ (b.at + w) + (b.size - w) = b.at + b.size
    BY <1>1, <1>2
  <2> QED
    BY <1>1, <1>3, <2>1 DEF Block, BlockSet, End
<1> HIDE DEF first, rest
<1>5. first.at < End(first) /\ rest.at < End(rest) /\ End(first) = rest.at
  <2>1. b.at \in Nat /\ b.size \in Nat /\ w > 0 /\ w < b.size
    BY <1>1, <1>2
  <2>2. b.at < b.at + w /\ b.at + w < b.at + b.size
    BY <2>1
  <2> QED
    BY <1>3, <1>4, <2>2
<1>6. \A c \in others : (End(c) <= b.at \/ End(b) <= c.at) /\ c.at < End(c) /\ c.at \in Nat /\ End(c) \in Nat
  BY <1>1, HeapNow
<1>7. \A c \in others : /\ End(c) <= first.at \/ End(first) <= c.at
                        /\ End(c) <= rest.at \/ End(rest) <= c.at
  <2> SUFFICES ASSUME NEW c \in others
               PROVE  /\ End(c) <= first.at \/ End(first) <= c.at
                      /\ End(c) <= rest.at \/ End(rest) <= c.at
    OBVIOUS
  <2>1. /\ b.at \in Nat /\ End(b) \in Nat /\ w \in Nat /\ b.at + w <= End(b)
        /\ End(c) \in Nat /\ c.at \in Nat /\ (End(c) <= b.at \/ End(b) <= c.at)
    BY <1>1, <1>2, <1>3, <1>6
  <2>2. CASE End(c) <= b.at
    BY <1>4, <2>1, <2>2
  <2>3. CASE End(b) <= c.at
    BY <1>4, <2>1, <2>3
  <2> QED
    BY <2>1, <2>2, <2>3
<1>8. first # rest /\ first \notin others /\ rest \notin others /\ rest # b
  <2>1. first # rest /\ rest # b
    BY <1>1, <1>2, <1>4
  <2>2. first \notin others
    BY <1>4, <1>5, <1>6, <1>7
  <2>3. rest \notin others
    BY <1>4, <1>5, <1>6, <1>7
  <2> QED
    BY <2>1, <2>2, <2>3
<1>9. h.free \cup used = others \cup {first, rest}
  BY <1>1
<1>10. h.free \cap used = {}
  BY <1>1, <1>8
<1>11. used \in SUBSET BlockSet
  BY <1>1, <1>4
<1>12. \A x \in HeapStart .. HeapEnd - 1 : \E c \in h.free \cup used : x \in Bytes(c)
  <2> SUFFICES ASSUME NEW x \in HeapStart .. HeapEnd - 1
               PROVE  \E c \in others \cup {first, rest} : x \in Bytes(c)
    BY <1>9
  <2>1. PICK c \in old : x \in Bytes(c)
    BY HeapNow
  <2>2. CASE c \in others
    BY <2>1, <2>2
  <2>3. CASE c = b
    <3>1. x \in Int /\ b.at <= x /\ x < End(b)
      BY <1>1, <1>2, <2>1, <2>3, BytesAre
    <3>2. CASE x < b.at + w
      BY <1>4, <3>1, <3>2, BytesAre
    <3>3. CASE ~(x < b.at + w)
      <4>1. b.at + w <= x
        BY <1>1, <3>1, <3>3
      <4> QED
        BY <1>4, <3>1, <4>1, BytesAre
    <3> QED
      BY <3>2, <3>3
  <2> QED
    BY <2>1, <2>2, <2>3
<1>13. \A c, d \in h.free \cup used : c # d => End(c) <= d.at \/ End(d) <= c.at
  <2>1. \A c, d \in others : c # d => End(c) <= d.at \/ End(d) <= c.at
    BY HeapNow
  <2>2. End(first) <= rest.at
    BY <1>1, <1>4
  <2> QED
    BY <1>7, <1>9, <2>1, <2>2
<1>14. \A c \in h.free \cup used : c.at >= HeapStart /\ End(c) <= HeapEnd /\ c.size > xHeapStructSize
  <2>1. /\ first.at >= HeapStart /\ End(first) <= HeapEnd /\ first.size > xHeapStructSize
        /\ rest.at >= HeapStart /\ End(rest) <= HeapEnd /\ rest.size > xHeapStructSize
    <3>1. b.at \in Nat /\ b.size \in Nat /\ b.at >= HeapStart /\ b.at + b.size <= HeapEnd
      BY <1>1, <1>3
    <3>2. b.at + w <= HeapEnd /\ b.at + w >= HeapStart
      BY <1>2, <3>1
    <3> QED
      BY <1>3, <1>4, <3>1, <3>2
  <2> QED
    BY <1>1, <1>9, <2>1
<1>15. \A f, g \in h.free : End(f) # g.at
  BY HeapNow
<1>16. h.remaining = Cardinality(UNION {Bytes(f) : f \in h.free})
  BY HeapNow
<1> HIDE DEF used
<1>17. HeapInv([free |-> h.free, used |-> used, remaining |-> h.remaining])
  BY <1>1, <1>10, <1>11, <1>12, <1>13, <1>14, <1>15, <1>16, HeapHolds
<1>18. rest \notin h.used /\ first \notin h.used \ {b}
  BY <1>8
<1> QED
  BY <1>4, <1>8, <1>17, <1>18 DEF used, first, rest

LEMMA FirstFitIs ==
    ASSUME NEW h, HeapInv(h), NEW w \in Nat, Fitting(h, w) # {}
    PROVE  \E b \in Fitting(h, w) : \A c \in Fitting(h, w) : b.at <= c.at
<1> DEFINE starts == {b.at : b \in Fitting(h, w)}
<1>1. Fitting(h, w) \in SUBSET h.free /\ \A b \in h.free : b.at \in Nat
  BY HeapNow DEF Fitting
<1>2. starts \in SUBSET Nat /\ starts # {}
  BY <1>1
<1> HIDE DEF starts
<1>3. PICK m \in starts : \A n \in starts : m <= n
  BY <1>2, Least
<1> QED
  BY <1>3 DEF starts

(* A call that finds no block changes nothing; one that does takes one of  *)
(* at least the size asked for, as far as possible from the free ones.     *)
LEMMA MallocIs ==
    ASSUME NEW h, HeapInv(h), NEW n \in Nat \ {0}
    PROVE  IF Available(h, n)
             THEN \E g \in BlockSet \ h.used :
                     /\ HeapInv(pvPortMalloc(h, n))
                     /\ pvPortMalloc(h, n).used = h.used \cup {g}
                     /\ pvReturn(h, n) = g.at + xHeapStructSize
                     /\ n <= g.size - xHeapStructSize
             ELSE pvPortMalloc(h, n) = h /\ pvReturn(h, n) = NULL
<1>1. CASE ~Available(h, n)
  BY <1>1 DEF pvPortMalloc, pvReturn
<1>2. CASE Available(h, n)
  <2> DEFINE w == Wanted(n)
             b == FirstFit(h, n)
             given == Given(b, w)
             others == h.free \ {b}
             rest == Block(b.at + w, b.size - w)
  <2>1. w \in Nat /\ w >= n + xHeapStructSize /\ xHeapStructSize \in Nat /\ xHeapStructSize > 0
    BY WantedIs, Sizes
  <2>2. b \in Fitting(h, w)
    <3>1. Fitting(h, w) # {}
      BY <1>2 DEF Available
    <3>2. \E c \in Fitting(h, w) : \A d \in Fitting(h, w) : c.at <= d.at
      BY <2>1, <3>1, FirstFitIs
    <3> QED
      BY <3>2 DEF FirstFit
  <2>3. b \in h.free /\ b.size >= w /\ b \in BlockSet /\ b.size \in Nat /\ b.at \in Nat /\ b \notin h.used
    BY <2>2, HeapNow DEF Fitting
  <2>4. /\ pvReturn(h, n) = b.at + xHeapStructSize
        /\ pvPortMalloc(h, n) =
             [free |-> IF given = b THEN others
                       ELSE Inserted(others, Block(b.at + given.size, b.size - given.size)),
              used |-> h.used \cup {given},
              remaining |-> h.remaining - given.size]
    BY <1>2 DEF pvReturn, pvPortMalloc
  <2> DEFINE taken == [free |-> others, used |-> h.used \cup {b}, remaining |-> h.remaining - b.size]
  <2>5. HeapInv(taken) /\ h.remaining - b.size \in Nat
    BY <2>3, BlockTaken
  <2> HIDE DEF w, b, xHeapStructSize
  <2>6. CASE ~(b.size - w > heapMINIMUM_BLOCK_SIZE)
    <3>1. given = b
      BY <2>6 DEF Given
    <3>2. pvPortMalloc(h, n) = taken
      BY <2>4, <3>1
    <3>3. n <= b.size - xHeapStructSize
      BY <2>1, <2>3
    <3> QED
      BY <1>2, <2>3, <2>4, <2>5, <3>2, <3>3
  <2>7. CASE b.size - w > heapMINIMUM_BLOCK_SIZE
    <3>1. b.size - w > xHeapStructSize /\ w > xHeapStructSize /\ w < b.size
      BY <2>1, <2>3, <2>7 DEF heapMINIMUM_BLOCK_SIZE
    <3>2. given = Block(b.at, w) /\ given.size = w /\ given.at = b.at
      BY <2>7 DEF Given, Block
    <3>3. given # b
      BY <2>1, <2>3, <3>1, <3>2
    <3> DEFINE cut == [free |-> taken.free, used |-> (taken.used \ {b}) \cup {given, rest},
                       remaining |-> taken.remaining]
    <3>4. /\ given \in BlockSet /\ rest \in BlockSet /\ given # rest
          /\ rest \notin taken.used /\ given \notin taken.used \ {b}
          /\ HeapInv(cut)
      <4>1. b \in taken.used
        OBVIOUS
      <4> HIDE DEF taken
      <4> QED
        BY <2>1, <2>5, <3>1, <3>2, <4>1, BlockCut
    <3>5. rest \in cut.used
      OBVIOUS
    <3> DEFINE done == [free |-> Inserted(cut.free, rest), used |-> cut.used \ {rest},
                        remaining |-> cut.remaining + rest.size]
    <3>6. HeapInv(done)
      <4> HIDE DEF cut
      <4> QED
        BY <3>4, <3>5, BlockFreed
    <3>7. done.used = h.used \cup {given} /\ given \notin h.used
      <4>1. taken.used \ {b} = h.used
        BY <2>3
      <4>2. done.used = (h.used \cup {given, rest}) \ {rest}
        BY <4>1
      <4>3. rest \notin h.used
        BY <3>4
      <4> QED
        BY <3>4, <4>1, <4>2, <4>3
    <3>8. done.remaining = h.remaining - given.size
      <4>1. done.remaining = (h.remaining - b.size) + rest.size /\ rest.size = b.size - w
        BY DEF Block
      <4>2. h.remaining \in Nat
        BY HeapNow
      <4> QED
        BY <2>1, <2>3, <3>2, <4>1, <4>2
    <3>9. pvPortMalloc(h, n) = done
      <4>1. done = [free |-> Inserted(others, rest), used |-> h.used \cup {given},
                    remaining |-> h.remaining - given.size]
        BY <3>7, <3>8
      <4>2. rest = Block(b.at + given.size, b.size - given.size)
        BY <3>2
      <4> QED
        BY <2>4, <3>3, <4>1, <4>2
    <3>10. n <= given.size - xHeapStructSize
      BY <2>1, <3>2
    <3> HIDE DEF given, done, rest, taken, cut
    <3> QED
      BY <1>2, <2>4, <3>2, <3>4, <3>6, <3>7, <3>9, <3>10
  <2> QED
    BY <2>6, <2>7
<1> QED
  BY <1>1, <1>2

LEMMA FreeIs ==
    ASSUME NEW h, HeapInv(h), NEW b \in h.used
    PROVE  /\ HeapInv(vPortFree(h, b.at + xHeapStructSize))
           /\ vPortFree(h, b.at + xHeapStructSize).used = h.used \ {b}
<1> DEFINE p == b.at + xHeapStructSize
<1>1. p # NULL /\ p \in Nat /\ xHeapStructSize \in Nat
  <2>1. b.at \in Nat
    BY HeapNow
  <2>2. xHeapStructSize \in Nat /\ NULL \notin Int
    BY Sizes
  <2> HIDE DEF xHeapStructSize
  <2> QED
    BY <2>1, <2>2
<1>2. BlockOf(h, p) = b
  <2>1. \A c \in h.used : c.at + xHeapStructSize = p => c = b
    <3> SUFFICES ASSUME NEW c \in h.used, c.at + xHeapStructSize = p, c # b PROVE FALSE
      OBVIOUS
    <3>1. /\ End(c) <= b.at \/ End(b) <= c.at
          /\ c.at < End(c) /\ b.at < End(b) /\ c.at \in Nat /\ b.at \in Nat
          /\ End(c) \in Nat /\ End(b) \in Nat
      BY HeapNow
    <3>2. c.at = b.at
      BY <1>1, <3>1
    <3> QED
      BY <3>1, <3>2
  <2> QED
    BY <2>1 DEF BlockOf
<1>3. vPortFree(h, p) = [free |-> Inserted(h.free, b), used |-> h.used \ {b},
                         remaining |-> h.remaining + b.size]
  <2>1. h \in [free : SUBSET BlockSet, used : SUBSET BlockSet, remaining : Nat]
    BY DEF HeapInv
  <2>2. vPortFree(h, p) = [h EXCEPT !.free = Inserted(h.free, b), !.used = h.used \ {b},
                                    !.remaining = h.remaining + b.size]
    BY <1>1, <1>2 DEF vPortFree
  <2> QED
    BY <2>1, <2>2
<1> QED
  BY <1>3, BlockFreed

-----------------------------------------------------------------------------
(* Who holds what. *)

Address == Nat \cup {NULL}
MemoryIs(memory) == memory \in [Holders -> Address]

(* A block nobody held becomes that of o.                                  *)
LEMMA HolderGains ==
    ASSUME NEW h, HeapInv(h), NEW used, NEW g \in h.used, h.used = used \cup {g}, g \notin used,
           NEW memory, MemoryIs(memory), Owned(used, memory), NEW o \in Holders, memory[o] = NULL,
           Asked[o] <= g.size - xHeapStructSize
    PROVE  LET more == [memory EXCEPT ![o] = g.at + xHeapStructSize]
           IN MemoryIs(more) /\ Owned(h.used, more)
<1> DEFINE p == g.at + xHeapStructSize
           more == [memory EXCEPT ![o] = p]
<1>1. p \in Nat /\ p # NULL /\ xHeapStructSize \in Nat
  <2>1. g.at \in Nat
    BY HeapNow
  <2>2. xHeapStructSize \in Nat /\ NULL \notin Int
    BY Sizes
  <2> HIDE DEF xHeapStructSize
  <2> QED
    BY <2>1, <2>2
<1>2. MemoryIs(more) /\ more[o] = p /\ \A q \in Holders \ {o} : more[q] = memory[q]
  BY <1>1 DEF MemoryIs, Address
<1>3. \A b \in used : b.at + xHeapStructSize # p
  <2> SUFFICES ASSUME NEW b \in used, b.at + xHeapStructSize = p PROVE FALSE
    OBVIOUS
  <2>1. /\ End(b) <= g.at \/ End(g) <= b.at
        /\ b.at < End(b) /\ g.at < End(g) /\ b.at \in Nat /\ g.at \in Nat
        /\ End(b) \in Nat /\ End(g) \in Nat
    BY HeapNow
  <2> HIDE DEF xHeapStructSize
  <2>2. b.at = g.at
    BY <1>1, <2>1
  <2> QED
    BY <2>1, <2>2
<1>4. /\ \A q \in Holders : memory[q] # NULL =>
           /\ \E b \in used : memory[q] = b.at + xHeapStructSize /\ Asked[q] <= b.size - xHeapStructSize
           /\ \A r \in Holders : memory[r] = memory[q] => r = q
      /\ \A b \in used : \E q \in Holders : memory[q] = b.at + xHeapStructSize
  BY DEF Owned
<1>5. \A q \in Holders : memory[q] # p
  BY <1>1, <1>3, <1>4
<1> HIDE DEF p, more, xHeapStructSize
<1>6. ASSUME NEW q \in Holders, more[q] # NULL
      PROVE  /\ \E b \in h.used : /\ more[q] = b.at + xHeapStructSize
                                  /\ Asked[q] <= b.size - xHeapStructSize
             /\ \A r \in Holders : more[r] = more[q] => r = q
  <2>1. CASE q = o
    BY <1>2, <1>5, <2>1 DEF p
  <2>2. CASE q # o
    <3>1. more[q] = memory[q]
      BY <1>2, <2>2
    <3> QED
      BY <1>2, <1>4, <1>5, <1>6, <3>1
  <2> QED
    BY <2>1, <2>2
<1>7. \A b \in h.used : \E q \in Holders : more[q] = b.at + xHeapStructSize
  <2> SUFFICES ASSUME NEW b \in h.used PROVE \E q \in Holders : more[q] = b.at + xHeapStructSize
    OBVIOUS
  <2>1. CASE b = g
    BY <1>2, <2>1 DEF p
  <2>2. CASE b \in used
    <3>1. PICK q \in Holders : memory[q] = b.at + xHeapStructSize
      BY <1>4, <2>2
    <3>2. q # o
      <4>1. b.at + xHeapStructSize \in Nat
        <5>1. b.at \in Nat
          BY HeapNow
        <5> QED
          BY <1>1, <5>1
      <4> QED
        BY <3>1, <4>1, Sizes
    <3> QED
      BY <1>2, <3>1, <3>2
  <2> QED
    BY <2>1, <2>2
<1>8. Owned(h.used, more)
  BY <1>6, <1>7 DEF Owned
<1> QED
  BY <1>2, <1>8 DEF more, p

(* What o holds is freed.                                                  *)
LEMMA HolderLoses ==
    ASSUME NEW h, HeapInv(h), NEW memory, MemoryIs(memory), Owned(h.used, memory),
           NEW o \in Holders, memory[o] # NULL
    PROVE  LET less == [memory EXCEPT ![o] = NULL]
               after == vPortFree(h, memory[o])
           IN HeapInv(after) /\ MemoryIs(less) /\ Owned(after.used, less)
<1> DEFINE less == [memory EXCEPT ![o] = NULL]
           after == vPortFree(h, memory[o])
<1>1. /\ \A q \in Holders : memory[q] # NULL =>
           /\ \E b \in h.used : memory[q] = b.at + xHeapStructSize /\ Asked[q] <= b.size - xHeapStructSize
           /\ \A r \in Holders : memory[r] = memory[q] => r = q
      /\ \A b \in h.used : \E q \in Holders : memory[q] = b.at + xHeapStructSize
  BY DEF Owned
<1>2. PICK b \in h.used : memory[o] = b.at + xHeapStructSize
  BY <1>1
<1>3. HeapInv(after) /\ after.used = h.used \ {b}
  BY <1>2, FreeIs
<1>4. MemoryIs(less) /\ less[o] = NULL /\ \A q \in Holders \ {o} : less[q] = memory[q]
  BY DEF MemoryIs, Address
<1> HIDE DEF less, after
<1>5. ASSUME NEW q \in Holders, less[q] # NULL
      PROVE  /\ \E c \in h.used \ {b} : /\ less[q] = c.at + xHeapStructSize
                                        /\ Asked[q] <= c.size - xHeapStructSize
             /\ \A r \in Holders : less[r] = less[q] => r = q
  <2>1. q # o /\ less[q] = memory[q]
    BY <1>4, <1>5
  <2>2. PICK c \in h.used : memory[q] = c.at + xHeapStructSize /\ Asked[q] <= c.size - xHeapStructSize
    BY <1>1, <1>5, <2>1
  <2>3. c # b
    BY <1>1, <1>2, <2>1, <2>2
  <2> HIDE DEF xHeapStructSize
  <2>4. \A r \in Holders : less[r] = less[q] => r = q
    BY <1>1, <1>4, <1>5, <2>1
  <2> QED
    BY <2>1, <2>2, <2>3, <2>4
<1>6. ASSUME NEW c \in h.used \ {b}
      PROVE  \E q \in Holders : less[q] = c.at + xHeapStructSize
  <2>1. PICK q \in Holders : memory[q] = c.at + xHeapStructSize
    BY <1>1
  <2>2. q # o
    <3> SUFFICES ASSUME q = o PROVE FALSE
      OBVIOUS
    <3>1. /\ End(b) <= c.at \/ End(c) <= b.at
          /\ b.at < End(b) /\ c.at < End(c) /\ b.at \in Nat /\ c.at \in Nat
          /\ End(b) \in Nat /\ End(c) \in Nat
      BY HeapNow
    <3>2. xHeapStructSize \in Nat /\ b.at + xHeapStructSize = c.at + xHeapStructSize
      BY <1>2, <2>1, Sizes
    <3> HIDE DEF xHeapStructSize
    <3>3. b.at = c.at
      BY <3>1, <3>2
    <3> QED
      BY <3>1, <3>3
  <2> QED
    BY <1>4, <2>1, <2>2
<1>7. Owned(after.used, less)
  BY <1>3, <1>5, <1>6 DEF Owned
<1> QED
  BY <1>3, <1>4, <1>7 DEF less, after

-----------------------------------------------------------------------------
(* The memory of the tasks and of the queue: the inductive invariant. *)

Held(t) ==
    /\ phase[t] = "absent" => pxStack[t] = NULL /\ pxTCB[t] = NULL
    /\ phase[t] \in {"stack", "undo"} => pxStack[t] # NULL /\ pxTCB[t] = NULL
    /\ phase[t] \in {"new", "live", "dying"} => pxStack[t] # NULL /\ pxTCB[t] # NULL
    /\ phase[t] = "reclaimed" => pxTCB[t] # NULL

MemoryTypes ==
    /\ phase \in [Task -> Phases]
    /\ pxStack \in [Task -> Address] /\ pxTCB \in [Task -> Address] /\ pxQueue \in Address

MemoryInv ==
    /\ HeapInv(heap) /\ MemoryTypes /\ MemoryIs(Memory) /\ Owned(heap.used, Memory)
    /\ \A t \in Task : Held(t)

StackOf(t) == <<"stack", t>>
TCBOf(t) == <<"TCB", t>>
QueueHolder == <<"queue", NULL>>

LEMMA HoldersAre ==
    /\ \A t \in Task : StackOf(t) \in Holders /\ TCBOf(t) \in Holders
    /\ QueueHolder \in Holders
    /\ \A o \in Holders : o = QueueHolder \/ \E t \in Task : o = StackOf(t) \/ o = TCBOf(t)
    /\ \A t, u \in Task : StackOf(t) # TCBOf(u) /\ StackOf(t) # QueueHolder /\ TCBOf(t) # QueueHolder
    /\ \A t, u \in Task : t # u => StackOf(t) # StackOf(u) /\ TCBOf(t) # TCBOf(u)
BY DEF Holders, StackOf, TCBOf, QueueHolder

LEMMA MemoryOfEach ==
    /\ \A t \in Task : Memory[StackOf(t)] = pxStack[t] /\ Memory[TCBOf(t)] = pxTCB[t]
    /\ Memory[QueueHolder] = pxQueue
    /\ \A t \in Task : Asked[StackOf(t)] = StackBytes[t] /\ Asked[TCBOf(t)] = TcbBytes
    /\ Asked[QueueHolder] = QueueBytes
<1>1. \A t \in Task : StackOf(t) \in Holders /\ TCBOf(t) \in Holders
  BY HoldersAre
<1>2. QueueHolder \in Holders
  BY HoldersAre
<1> QED
  BY <1>1, <1>2 DEF Memory, Asked, StackOf, TCBOf, QueueHolder

LEMMA MemoryNext ==
    ASSUME NEW m, MemoryIs(m),
           \A t \in Task : m[StackOf(t)] = pxStack'[t] /\ m[TCBOf(t)] = pxTCB'[t],
           m[QueueHolder] = pxQueue'
    PROVE  Memory' = m
<1>1. m = [o \in Holders |-> m[o]]
  BY DEF MemoryIs
<1>2. ASSUME NEW o \in Holders
      PROVE  m[o] = CASE o[1] = "stack" -> pxStack'[o[2]]
                      [] o[1] = "TCB" -> pxTCB'[o[2]]
                      [] o[1] = "queue" -> pxQueue'
  <2>1. CASE o = QueueHolder
    BY <2>1 DEF QueueHolder
  <2>2. ASSUME NEW t \in Task, o = StackOf(t)
        PROVE  o[1] = "stack" /\ m[o] = pxStack'[o[2]]
    BY <2>2 DEF StackOf
  <2>3. ASSUME NEW t \in Task, o = TCBOf(t)
        PROVE  o[1] = "TCB" /\ m[o] = pxTCB'[o[2]]
    BY <2>3 DEF TCBOf
  <2> QED
    BY <2>1, <2>2, <2>3, HoldersAre
<1> QED
  BY <1>1, <1>2 DEF Memory

LEMMA AskedIs == \A o \in Holders : Asked[o] \in Nat \ {0}
<1> SUFFICES ASSUME NEW o \in Holders PROVE Asked[o] \in Nat \ {0}
  OBVIOUS
<1>1. CASE o = QueueHolder
  BY <1>1, MemoryOfEach, TasksAssumption
<1>2. ASSUME NEW t \in Task, o = StackOf(t) \/ o = TCBOf(t) PROVE Asked[o] \in Nat \ {0}
  BY <1>2, MemoryOfEach, TasksAssumption
<1> QED
  BY <1>1, <1>2, HoldersAre

(* An allocation for o, that may fail, and a release by o.                 *)
LEMMA Gains ==
    ASSUME NEW h, HeapInv(h), NEW memory, MemoryIs(memory), Owned(h.used, memory),
           NEW o \in Holders, memory[o] = NULL
    PROVE  LET after == pvPortMalloc(h, Asked[o])
               more == [memory EXCEPT ![o] = pvReturn(h, Asked[o])]
           IN /\ HeapInv(after) /\ MemoryIs(more) /\ Owned(after.used, more)
              /\ Available(h, Asked[o]) <=> pvReturn(h, Asked[o]) # NULL
<1> DEFINE n == Asked[o]
<1>1. n \in Nat \ {0}
  BY AskedIs
<1> HIDE DEF n
<1>2. CASE ~Available(h, n)
  <2>1. pvPortMalloc(h, n) = h /\ pvReturn(h, n) = NULL
    BY <1>1, <1>2, MallocIs
  <2>2. [memory EXCEPT ![o] = NULL] = memory
    BY DEF MemoryIs
  <2> QED
    BY <1>2, <2>1, <2>2 DEF n
<1>3. CASE Available(h, n)
  <2>1. PICK g \in BlockSet \ h.used :
          /\ HeapInv(pvPortMalloc(h, n))
          /\ pvPortMalloc(h, n).used = h.used \cup {g}
          /\ pvReturn(h, n) = g.at + xHeapStructSize
          /\ n <= g.size - xHeapStructSize
    BY <1>1, <1>3, MallocIs
  <2> DEFINE after == pvPortMalloc(h, n)
             more == [memory EXCEPT ![o] = g.at + xHeapStructSize]
  <2>2. MemoryIs(more) /\ Owned(after.used, more)
    <3>1. HeapInv(after) /\ after.used = h.used \cup {g} /\ g \in after.used /\ g \notin h.used
          /\ Asked[o] <= g.size - xHeapStructSize
      BY <2>1 DEF n
    <3> HIDE DEF after
    <3> QED
      BY <3>1, HolderGains
  <2>3. g.at + xHeapStructSize # NULL
    <3>1. g.at \in Nat /\ xHeapStructSize \in Nat /\ NULL \notin Int
      BY Sizes DEF BlockSet
    <3> HIDE DEF xHeapStructSize
    <3> QED
      BY <3>1
  <2> QED
    BY <1>3, <2>1, <2>2, <2>3 DEF n
<1> QED
  BY <1>2, <1>3

LEMMA MemoryStarts == Init => MemoryInv
<1> SUFFICES ASSUME Init PROVE MemoryInv
  OBVIOUS
<1>1. /\ prvHeapInit /\ phase = [t \in Task |-> "absent"] /\ pxStack = [t \in Task |-> NULL]
      /\ pxTCB = [t \in Task |-> NULL] /\ pxQueue = NULL
  BY DEF Init
<1> DEFINE b == Block(HeapStart, HeapEnd - HeapStart)
<1>2. heap = [free |-> {b}, used |-> {}, remaining |-> HeapEnd - HeapStart]
  BY <1>1 DEF prvHeapInit
<1>3. /\ HeapStart \in Nat /\ HeapEnd \in Nat /\ HeapStart + xHeapStructSize < HeapEnd
      /\ xHeapStructSize \in Nat
  BY Sizes
<1> HIDE DEF HeapStart, HeapEnd, xHeapStructSize
<1>4. HeapEnd - HeapStart \in Nat /\ HeapStart + (HeapEnd - HeapStart) = HeapEnd
      /\ HeapEnd - HeapStart > xHeapStructSize
  BY <1>3
<1>5. b \in BlockSet /\ b.at = HeapStart /\ End(b) = HeapEnd /\ b.size = HeapEnd - HeapStart
  BY <1>3, <1>4 DEF Block, BlockSet, End
<1> HIDE DEF b
<1>6. HeapInv([free |-> {b}, used |-> {}, remaining |-> HeapEnd - HeapStart])
  <2>1. \A x \in HeapStart .. HeapEnd - 1 : \E c \in {b} \cup {} : x \in Bytes(c)
    <3> SUFFICES ASSUME NEW x \in HeapStart .. HeapEnd - 1 PROVE x \in Bytes(b)
      OBVIOUS
    <3>1. x \in Int /\ HeapStart <= x /\ x < HeapEnd
      BY <1>3
    <3> QED
      BY <1>5, <3>1, BytesAre
  <2>2. UNION {Bytes(f) : f \in {b}} = Bytes(b)
    OBVIOUS
  <2>3. HeapEnd - HeapStart = Cardinality(UNION {Bytes(f) : f \in {b}})
    BY <1>5, <2>2, BytesCount
  <2>4. End(b) # b.at
    BY <1>3, <1>4, <1>5
  <2>5. \A c \in {b} \cup {} : c.at >= HeapStart /\ End(c) <= HeapEnd /\ c.size > xHeapStructSize
    BY <1>3, <1>4, <1>5
  <2>6. {b} \in SUBSET BlockSet /\ {} \in SUBSET BlockSet /\ {b} \cap {} = {}
    BY <1>5
  <2>7. \A c, d \in {b} \cup {} : c # d => End(c) <= d.at \/ End(d) <= c.at
    OBVIOUS
  <2>8. \A f, g \in {b} : End(f) # g.at
    BY <2>4
  <2> QED
    BY <1>4, <2>1, <2>3, <2>5, <2>6, <2>7, <2>8, HeapHolds
<1>7. MemoryTypes
  BY <1>1 DEF MemoryTypes, Phases, Address
<1>8. \A o \in Holders : Memory[o] = NULL
  <2> SUFFICES ASSUME NEW o \in Holders PROVE Memory[o] = NULL
    OBVIOUS
  <2>1. CASE o = QueueHolder
    BY <1>1, <2>1, MemoryOfEach
  <2>2. ASSUME NEW t \in Task, o = StackOf(t) \/ o = TCBOf(t) PROVE Memory[o] = NULL
    BY <1>1, <2>2, MemoryOfEach
  <2> QED
    BY <2>1, <2>2, HoldersAre
<1>9. MemoryIs(Memory)
  BY <1>8 DEF Memory, MemoryIs, Address
<1>10. Owned(heap.used, Memory)
  BY <1>2, <1>8 DEF Owned
<1>11. \A t \in Task : Held(t)
  BY <1>1 DEF Held
<1> QED
  BY <1>2, <1>6, <1>7, <1>9, <1>10, <1>11 DEF MemoryInv

(* The steps that leave the memory where it is.                            *)
LEMMA MemoryStays ==
    ASSUME MemoryInv, UNCHANGED <<heap, pxStack, pxTCB, pxQueue>>,
           phase' \in [Task -> Phases], \A t \in Task : Held(t)'
    PROVE  MemoryInv'
<1>1. Memory' = Memory
  BY DEF Memory
<1> QED
  BY <1>1 DEF MemoryInv, MemoryTypes

LEMMA PhaseOnly ==
    ASSUME MemoryInv, UNCHANGED <<heap, pxStack, pxTCB, pxQueue>>, NEW t \in Task, NEW p \in Phases,
           Become(t, p),
           \/ phase[t] = "new" /\ p = "live"
           \/ phase[t] = "live" /\ p = "dying"
           \/ phase[t] = "dying" /\ p = "reclaimed"
    PROVE  MemoryInv'
<1>1. /\ phase' \in [Task -> Phases] /\ phase'[t] = p
      /\ \A u \in Task \ {t} : phase'[u] = phase[u]
  BY DEF MemoryInv, MemoryTypes, Become
<1>2. \A u \in Task \ {t} : Held(u)'
  BY <1>1 DEF MemoryInv, Held
<1>3. Held(t)'
  BY <1>1 DEF MemoryInv, Held
<1> QED
  BY <1>1, <1>2, <1>3, MemoryStays

(* The memory of t alone may change; m is all memory afterwards.           *)
LEMMA MemoryMoves ==
    ASSUME MemoryInv, NEW t \in Task, NEW m, HeapInv(heap'), MemoryIs(m), Owned(heap'.used, m),
           phase' \in [Task -> Phases], pxStack' \in [Task -> Address],
           pxTCB' \in [Task -> Address], pxQueue' \in Address,
           \A u \in Task : m[StackOf(u)] = pxStack'[u] /\ m[TCBOf(u)] = pxTCB'[u],
           m[QueueHolder] = pxQueue',
           \A u \in Task \ {t} : phase'[u] = phase[u] /\ pxStack'[u] = pxStack[u]
                                                     /\ pxTCB'[u] = pxTCB[u],
           Held(t)'
    PROVE  MemoryInv'
<1>1. Memory' = m
  BY MemoryNext
<1>2. \A u \in Task \ {t} : Held(u)'
  BY DEF MemoryInv, Held
<1>3. MemoryTypes'
  BY DEF MemoryTypes
<1> QED
  BY <1>1, <1>2, <1>3 DEF MemoryInv

LEMMA MemoryNow ==
    ASSUME MemoryInv, NEW t \in Task
    PROVE  /\ HeapInv(heap) /\ MemoryIs(Memory) /\ Owned(heap.used, Memory) /\ Held(t)
           /\ phase \in [Task -> Phases] /\ pxStack \in [Task -> Address]
           /\ pxTCB \in [Task -> Address] /\ pxQueue \in Address
BY DEF MemoryInv, MemoryTypes

LEMMA StackAllocated ==
    ASSUME MemoryInv, NEW t \in Task, AllocateStack(t)
    PROVE  MemoryInv'
<1> DEFINE o == StackOf(t)
           v == pvReturn(heap, StackBytes[t])
           m == [Memory EXCEPT ![o] = v]
<1>1. /\ phase[t] = "absent" /\ Available(heap, StackBytes[t])
      /\ heap' = pvPortMalloc(heap, StackBytes[t])
      /\ pxStack' = [pxStack EXCEPT ![t] = v]
      /\ Become(t, "stack") /\ UNCHANGED <<pxTCB, pxQueue>>
  BY DEF AllocateStack
<1>2. o \in Holders /\ Memory[o] = pxStack[t] /\ Asked[o] = StackBytes[t]
  BY HoldersAre, MemoryOfEach
<1>3. pxStack[t] = NULL /\ pxTCB[t] = NULL
  BY <1>1, MemoryNow DEF Held
<1>4. HeapInv(heap') /\ MemoryIs(m) /\ Owned(heap'.used, m) /\ v # NULL
  BY <1>1, <1>2, <1>3, MemoryNow, Gains
<1>5. m[o] = v /\ v \in Address /\ \A q \in Holders \ {o} : m[q] = Memory[q]
  BY <1>2, <1>4, MemoryNow DEF MemoryIs
<1> HIDE DEF v, m
<1>6. /\ phase' \in [Task -> Phases] /\ pxStack' \in [Task -> Address]
      /\ pxTCB' \in [Task -> Address] /\ pxQueue' \in Address
      /\ phase'[t] = "stack" /\ pxStack'[t] = v /\ pxTCB'[t] = NULL
      /\ \A u \in Task \ {t} : phase'[u] = phase[u] /\ pxStack'[u] = pxStack[u]
                                                   /\ pxTCB'[u] = pxTCB[u]
  BY <1>1, <1>3, <1>5, MemoryNow DEF Become, Phases
<1>7. /\ \A u \in Task : m[StackOf(u)] = pxStack'[u] /\ m[TCBOf(u)] = pxTCB'[u]
      /\ m[QueueHolder] = pxQueue'
  BY <1>1, <1>5, <1>6, HoldersAre, MemoryOfEach
<1>8. Held(t)'
  BY <1>4, <1>6 DEF Held
<1> QED
  BY <1>4, <1>6, <1>7, <1>8, MemoryMoves

LEMMA TCBAllocated ==
    ASSUME MemoryInv, NEW t \in Task, AllocateTCB(t)
    PROVE  MemoryInv'
<1> DEFINE o == TCBOf(t)
           v == pvReturn(heap, TcbBytes)
           m == [Memory EXCEPT ![o] = v]
<1>1. /\ phase[t] = "stack"
      /\ heap' = pvPortMalloc(heap, TcbBytes)
      /\ pxTCB' = [pxTCB EXCEPT ![t] = v]
      /\ Become(t, IF pxTCB'[t] = NULL THEN "undo" ELSE "new") /\ UNCHANGED <<pxStack, pxQueue>>
  BY DEF AllocateTCB
<1>2. o \in Holders /\ Memory[o] = pxTCB[t] /\ Asked[o] = TcbBytes
  BY HoldersAre, MemoryOfEach
<1>3. pxStack[t] # NULL /\ pxTCB[t] = NULL
  BY <1>1, MemoryNow DEF Held
<1>4. HeapInv(heap') /\ MemoryIs(m) /\ Owned(heap'.used, m)
  BY <1>1, <1>2, <1>3, MemoryNow, Gains
<1>5. m[o] = v /\ v \in Address /\ \A q \in Holders \ {o} : m[q] = Memory[q]
  BY <1>2, <1>4, MemoryNow DEF MemoryIs
<1> HIDE DEF v, m
<1>6. /\ phase' \in [Task -> Phases] /\ pxStack' \in [Task -> Address]
      /\ pxTCB' \in [Task -> Address] /\ pxQueue' \in Address
      /\ phase'[t] = (IF v = NULL THEN "undo" ELSE "new") /\ pxStack'[t] # NULL /\ pxTCB'[t] = v
      /\ \A u \in Task \ {t} : phase'[u] = phase[u] /\ pxStack'[u] = pxStack[u]
                                                   /\ pxTCB'[u] = pxTCB[u]
  BY <1>1, <1>3, <1>5, MemoryNow DEF Become, Phases
<1>7. /\ \A u \in Task : m[StackOf(u)] = pxStack'[u] /\ m[TCBOf(u)] = pxTCB'[u]
      /\ m[QueueHolder] = pxQueue'
  BY <1>1, <1>5, <1>6, HoldersAre, MemoryOfEach
<1>8. Held(t)'
  BY <1>6 DEF Held
<1> QED
  BY <1>4, <1>6, <1>7, <1>8, MemoryMoves

(* The stack of t is freed, and t goes on as p.                            *)
LEMMA StackFreed ==
    ASSUME MemoryInv, NEW t \in Task, pxStack[t] # NULL, heap' = vPortFree(heap, pxStack[t]),
           pxStack' = [pxStack EXCEPT ![t] = NULL], UNCHANGED <<pxTCB, pxQueue>>,
           \/ phase[t] = "undo" /\ Become(t, "absent")
           \/ phase[t] = "reclaimed" /\ phase' = phase
    PROVE  MemoryInv'
<1> DEFINE o == StackOf(t)
           m == [Memory EXCEPT ![o] = NULL]
<1>1. o \in Holders /\ Memory[o] = pxStack[t]
  BY HoldersAre, MemoryOfEach
<1>2. HeapInv(heap') /\ MemoryIs(m) /\ Owned(heap'.used, m)
  BY <1>1, MemoryNow, HolderLoses
<1>3. m[o] = NULL /\ \A q \in Holders \ {o} : m[q] = Memory[q]
  BY <1>1, MemoryNow DEF MemoryIs
<1> HIDE DEF m
<1>4. /\ phase' \in [Task -> Phases] /\ pxStack' \in [Task -> Address]
      /\ pxTCB' \in [Task -> Address] /\ pxQueue' \in Address
      /\ \/ phase[t] = "undo" /\ phase'[t] = "absent"
         \/ phase[t] = "reclaimed" /\ phase'[t] = "reclaimed"
      /\ pxStack'[t] = NULL /\ pxTCB'[t] = pxTCB[t]
      /\ \A u \in Task \ {t} : phase'[u] = phase[u] /\ pxStack'[u] = pxStack[u]
                                                   /\ pxTCB'[u] = pxTCB[u]
  BY MemoryNow DEF Become, Phases, Address
<1>5. /\ \A u \in Task : m[StackOf(u)] = pxStack'[u] /\ m[TCBOf(u)] = pxTCB'[u]
      /\ m[QueueHolder] = pxQueue'
  BY <1>3, <1>4, HoldersAre, MemoryOfEach
<1>6. Held(t)'
  BY <1>4, MemoryNow DEF Held
<1> QED
  BY <1>2, <1>4, <1>5, <1>6, MemoryMoves

LEMMA TCBFreed ==
    ASSUME MemoryInv, NEW t \in Task, phase[t] = "reclaimed", pxStack[t] = NULL,
           heap' = vPortFree(heap, pxTCB[t]), pxTCB' = [pxTCB EXCEPT ![t] = NULL],
           Become(t, "absent"), UNCHANGED <<pxStack, pxQueue>>
    PROVE  MemoryInv'
<1> DEFINE o == TCBOf(t)
           m == [Memory EXCEPT ![o] = NULL]
<1>1. o \in Holders /\ Memory[o] = pxTCB[t] /\ pxTCB[t] # NULL
  BY HoldersAre, MemoryOfEach, MemoryNow DEF Held
<1>2. HeapInv(heap') /\ MemoryIs(m) /\ Owned(heap'.used, m)
  BY <1>1, MemoryNow, HolderLoses
<1>3. m[o] = NULL /\ \A q \in Holders \ {o} : m[q] = Memory[q]
  BY <1>1, MemoryNow DEF MemoryIs
<1> HIDE DEF m
<1>4. /\ phase' \in [Task -> Phases] /\ pxStack' \in [Task -> Address]
      /\ pxTCB' \in [Task -> Address] /\ pxQueue' \in Address
      /\ phase'[t] = "absent" /\ pxStack'[t] = NULL /\ pxTCB'[t] = NULL
      /\ \A u \in Task \ {t} : phase'[u] = phase[u] /\ pxStack'[u] = pxStack[u]
                                                   /\ pxTCB'[u] = pxTCB[u]
  BY MemoryNow DEF Become, Phases, Address
<1>5. /\ \A u \in Task : m[StackOf(u)] = pxStack'[u] /\ m[TCBOf(u)] = pxTCB'[u]
      /\ m[QueueHolder] = pxQueue'
  BY <1>3, <1>4, HoldersAre, MemoryOfEach
<1>6. Held(t)'
  BY <1>4 DEF Held
<1> QED
  BY <1>2, <1>4, <1>5, <1>6, MemoryMoves

LEMMA TaskDeleted ==
    ASSUME MemoryInv, NEW t \in Task, vTaskDelete(t)
    PROVE  MemoryInv'
<1> DEFINE o == StackOf(t)
           p == TCBOf(t)
           m == [Memory EXCEPT ![o] = NULL]
           n == [m EXCEPT ![p] = NULL]
           between == vPortFree(heap, pxStack[t])
<1>1. /\ phase[t] = "live" /\ heap' = vPortFree(between, pxTCB[t])
      /\ pxStack' = [pxStack EXCEPT ![t] = NULL] /\ pxTCB' = [pxTCB EXCEPT ![t] = NULL]
      /\ Become(t, "absent") /\ pxQueue' = pxQueue
  BY DEF vTaskDelete, Live, prvDeleteTCB
<1>2. /\ o \in Holders /\ Memory[o] = pxStack[t] /\ p \in Holders /\ Memory[p] = pxTCB[t] /\ o # p
      /\ pxStack[t] # NULL /\ pxTCB[t] # NULL
  BY <1>1, HoldersAre, MemoryOfEach, MemoryNow DEF Held
<1>3. HeapInv(between) /\ MemoryIs(m) /\ Owned(between.used, m)
  BY <1>2, MemoryNow, HolderLoses
<1>4. m[o] = NULL /\ \A q \in Holders \ {o} : m[q] = Memory[q]
  BY <1>2, MemoryNow DEF MemoryIs
<1> HIDE DEF m, between
<1>5. m[p] = pxTCB[t] /\ m[p] # NULL
  BY <1>2, <1>4
<1>6. HeapInv(heap') /\ MemoryIs(n) /\ Owned(heap'.used, n)
  BY <1>1, <1>2, <1>3, <1>5, HolderLoses
<1>7. n[o] = NULL /\ n[p] = NULL /\ \A q \in Holders \ {o, p} : n[q] = Memory[q]
  BY <1>2, <1>3, <1>4 DEF MemoryIs
<1> HIDE DEF n
<1>8. /\ phase' \in [Task -> Phases] /\ pxStack' \in [Task -> Address]
      /\ pxTCB' \in [Task -> Address] /\ pxQueue' \in Address
      /\ phase'[t] = "absent" /\ pxStack'[t] = NULL /\ pxTCB'[t] = NULL
      /\ \A u \in Task \ {t} : phase'[u] = phase[u] /\ pxStack'[u] = pxStack[u]
                                                   /\ pxTCB'[u] = pxTCB[u]
  BY <1>1, MemoryNow DEF Become, Phases, Address
<1>9. /\ \A u \in Task : n[StackOf(u)] = pxStack'[u] /\ n[TCBOf(u)] = pxTCB'[u]
      /\ n[QueueHolder] = pxQueue'
  BY <1>1, <1>7, <1>8, HoldersAre, MemoryOfEach
<1>10. Held(t)'
  BY <1>8 DEF Held
<1> QED
  BY <1>6, <1>8, <1>9, <1>10, MemoryMoves

LEMMA QueueMade ==
    ASSUME MemoryInv, xQueueGenericCreate \/ vQueueDelete
    PROVE  MemoryInv'
<1>1. HeapInv(heap) /\ MemoryIs(Memory) /\ Owned(heap.used, Memory) /\ MemoryTypes
      /\ \A t \in Task : Held(t)
  BY DEF MemoryInv
<1>2. QueueHolder \in Holders /\ Memory[QueueHolder] = pxQueue /\ Asked[QueueHolder] = QueueBytes
  BY HoldersAre, MemoryOfEach
<1>3. UNCHANGED <<phase, pxStack, pxTCB>>
  BY DEF xQueueGenericCreate, vQueueDelete
<1>4. \E v \in Address :
         LET m == [Memory EXCEPT ![QueueHolder] = v]
         IN HeapInv(heap') /\ MemoryIs(m) /\ Owned(heap'.used, m) /\ pxQueue' = v
  <2>1. CASE xQueueGenericCreate
    <3> DEFINE v == pvReturn(heap, QueueBytes)
               m == [Memory EXCEPT ![QueueHolder] = v]
    <3>1. pxQueue = NULL /\ heap' = pvPortMalloc(heap, QueueBytes) /\ pxQueue' = v
      BY <2>1 DEF xQueueGenericCreate
    <3>2. HeapInv(heap') /\ MemoryIs(m) /\ Owned(heap'.used, m)
      BY <1>1, <1>2, <3>1, Gains
    <3>3. v \in Address
      BY <1>1, <1>2, <3>2 DEF MemoryIs
    <3> HIDE DEF v
    <3> QED
      BY <3>1, <3>2, <3>3
  <2>2. CASE vQueueDelete
    <3>1. pxQueue # NULL /\ heap' = vPortFree(heap, pxQueue) /\ pxQueue' = NULL
      BY <2>2 DEF vQueueDelete
    <3>2. NULL \in Address
      BY DEF Address
    <3> QED
      BY <1>1, <1>2, <3>1, <3>2, HolderLoses
  <2> QED
    BY <2>1, <2>2
<1>5. PICK v \in Address :
         LET m == [Memory EXCEPT ![QueueHolder] = v]
         IN HeapInv(heap') /\ MemoryIs(m) /\ Owned(heap'.used, m) /\ pxQueue' = v
  BY <1>4
<1> DEFINE m == [Memory EXCEPT ![QueueHolder] = v]
<1>6. HeapInv(heap') /\ MemoryIs(m) /\ Owned(heap'.used, m) /\ pxQueue' = v
  BY <1>5
<1>7. m[QueueHolder] = v /\ \A q \in Holders \ {QueueHolder} : m[q] = Memory[q]
  BY <1>1, <1>2 DEF MemoryIs
<1> HIDE DEF m
<1>8. /\ \A u \in Task : m[StackOf(u)] = pxStack'[u] /\ m[TCBOf(u)] = pxTCB'[u]
      /\ m[QueueHolder] = pxQueue'
  BY <1>3, <1>6, <1>7, HoldersAre, MemoryOfEach
<1>9. Memory' = m
  BY <1>6, <1>8, MemoryNext
<1>10. MemoryTypes' /\ \A t \in Task : Held(t)'
  BY <1>1, <1>3, <1>6 DEF MemoryTypes, Held
<1> QED
  BY <1>6, <1>9, <1>10 DEF MemoryInv

LEMMA MemoryKept == MemoryInv /\ [Next]_vars => MemoryInv'
<1> SUFFICES ASSUME MemoryInv, [Next]_vars PROVE MemoryInv'
  OBVIOUS
<1>1. CASE UNCHANGED memoryVars
  <2>1. UNCHANGED <<phase, heap, pxStack, pxTCB, pxQueue>>
    BY <1>1 DEF memoryVars
  <2>2. phase' \in [Task -> Phases] /\ \A t \in Task : Held(t)'
    BY <2>1 DEF MemoryInv, MemoryTypes, Held
  <2> QED
    BY <2>1, <2>2, MemoryStays
<1>2. CASE Tick \/ SuspendReset \/ UNCHANGED vars
  <2>1. UNCHANGED memoryVars
    BY <1>2 DEF Tick, SuspendReset, vars
  <2> QED
    BY <1>1, <2>1
<1>3. CASE xQueueGenericCreate \/ vQueueDelete
  BY <1>3, QueueMade
<1>4. ASSUME NEW t \in Task, AllocateStack(t) \/ AllocateTCB(t) \/ FreeStack(t)
      PROVE  MemoryInv'
  <2>1. CASE FreeStack(t)
    <3>1. /\ phase[t] = "undo" /\ heap' = vPortFree(heap, pxStack[t])
          /\ pxStack' = [pxStack EXCEPT ![t] = NULL] /\ Become(t, "absent")
          /\ UNCHANGED <<pxTCB, pxQueue>>
      BY <2>1 DEF FreeStack
    <3>2. pxStack[t] # NULL
      BY <3>1, MemoryNow DEF Held
    <3> QED
      BY <3>1, <3>2, StackFreed
  <2> QED
    BY <1>4, <2>1, StackAllocated, TCBAllocated
<1>5. ASSUME NEW t \in Task, prvAddNewTaskToReadyList(t) \/ DeleteSelf(t)
      PROVE  MemoryInv'
  <2>1. CASE prvAddNewTaskToReadyList(t)
    <3>1. phase[t] = "new" /\ Become(t, "live") /\ UNCHANGED <<heap, pxStack, pxTCB, pxQueue>>
      BY <2>1 DEF prvAddNewTaskToReadyList
    <3> QED
      BY <3>1, PhaseOnly DEF Phases
  <2>2. CASE DeleteSelf(t)
    <3>1. phase[t] = "live" /\ Become(t, "dying") /\ UNCHANGED <<heap, pxStack, pxTCB, pxQueue>>
      BY <2>2 DEF DeleteSelf, Runs, Live
    <3> QED
      BY <3>1, PhaseOnly DEF Phases
  <2> QED
    BY <1>5, <2>1, <2>2
<1>6. ASSUME NEW t \in Task, prvCheckTasksWaitingTermination(t)
      PROVE  MemoryInv'
  <2>1. CASE phase[t] = "dying"
    <3>1. Become(t, "reclaimed") /\ UNCHANGED <<heap, pxStack, pxTCB, pxQueue>>
      BY <1>6, <2>1 DEF prvCheckTasksWaitingTermination
    <3> QED
      BY <2>1, <3>1, PhaseOnly DEF Phases
  <2>2. CASE phase[t] = "reclaimed" /\ pxStack[t] # NULL
    <3>1. /\ heap' = vPortFree(heap, pxStack[t]) /\ pxStack' = [pxStack EXCEPT ![t] = NULL]
          /\ UNCHANGED <<phase, pxTCB, pxQueue>>
      BY <1>6, <2>2 DEF prvCheckTasksWaitingTermination
    <3> QED
      BY <2>2, <3>1, StackFreed
  <2>3. CASE phase[t] = "reclaimed" /\ pxStack[t] = NULL
    <3>1. /\ heap' = vPortFree(heap, pxTCB[t]) /\ pxTCB' = [pxTCB EXCEPT ![t] = NULL]
          /\ Become(t, "absent") /\ UNCHANGED <<pxStack, pxQueue>>
      BY <1>6, <2>3 DEF prvCheckTasksWaitingTermination
    <3> QED
      BY <2>3, <3>1, TCBFreed
  <2> QED
    BY <1>6, <2>1, <2>2, <2>3 DEF prvCheckTasksWaitingTermination
<1>7. ASSUME NEW t \in Task,
             \/ vTaskDelay(t) \/ BeginWait(t) \/ xTaskCheckForTimeOut(t) \/ EndWait(t)
             \/ xTaskRemoveFromEventList(t) \/ BeginPeriodic(t) \/ vTaskDelayUntil(t)
             \/ EndPeriodic(t) \/ vTaskSuspend(t) \/ vTaskResume(t)
      PROVE  MemoryInv'
  <2>1. UNCHANGED memoryVars
    BY <1>7 DEF vTaskDelay, BeginWait, xTaskCheckForTimeOut, EndWait, xTaskRemoveFromEventList,
                BeginPeriodic, vTaskDelayUntil, EndPeriodic, vTaskSuspend, vTaskResume
  <2> QED
    BY <1>1, <2>1
<1> QED
  BY <1>2, <1>3, <1>4, <1>5, <1>6, <1>7, TaskDeleted DEF Next

LEMMA PointersAre == MemoryInv => /\ pxStack \in [Task -> Pointers]
                                  /\ pxTCB \in [Task -> Pointers] /\ pxQueue \in Pointers
<1> SUFFICES ASSUME MemoryInv
             PROVE  /\ pxStack \in [Task -> Pointers]
                    /\ pxTCB \in [Task -> Pointers] /\ pxQueue \in Pointers
  OBVIOUS
<1>1. HeapInv(heap) /\ Owned(heap.used, Memory) /\ MemoryTypes
  BY DEF MemoryInv
<1>2. ASSUME NEW o \in Holders, Memory[o] # NULL PROVE Memory[o] \in HeapStart .. HeapEnd
  <2>1. PICK b \in heap.used : Memory[o] = b.at + xHeapStructSize
    BY <1>1, <1>2 DEF Owned
  <2>2. /\ b.at \in Nat /\ b.size \in Nat /\ b.at >= HeapStart /\ End(b) <= HeapEnd
        /\ b.size > xHeapStructSize
    BY <1>1, HeapNow
  <2>3. xHeapStructSize \in Nat /\ HeapStart \in Nat /\ HeapEnd \in Nat
    BY Sizes
  <2> HIDE DEF xHeapStructSize, HeapStart, HeapEnd
  <2> QED
    BY <2>1, <2>2, <2>3 DEF End
<1>3. \A t \in Task : pxStack[t] \in Pointers /\ pxTCB[t] \in Pointers
  BY <1>2, HoldersAre, MemoryOfEach DEF Pointers
<1>4. pxQueue \in Pointers
  BY <1>2, HoldersAre, MemoryOfEach DEF Pointers
<1> QED
  BY <1>1, <1>3, <1>4 DEF MemoryTypes

(* Times, pointers and lists are of their types, for any tasks, sizes,     *)
(* delays and moduli: no wake time exceeds the largest tick count, and     *)
(* every pointer is NULL or points into the heap.                          *)
THEOREM TypeCorrect == Spec => []TypeOK
<1>1. TickInv /\ MemoryInv => TypeOK
  <2> SUFFICES ASSUME TickInv, MemoryInv PROVE TypeOK
    OBVIOUS
  <2>1. heap.remaining \in Nat
    BY DEF MemoryInv, HeapInv
  <2> QED
    BY <2>1, PointersAre DEF TickInv, TimeTypes, TypeOK, Lists
<1>2. Init => TickInv /\ MemoryInv
  BY TimeStarts, MemoryStarts
<1>3. TickInv /\ MemoryInv /\ [Next]_vars => (TickInv /\ MemoryInv)'
  BY TimeStays, MemoryKept
<1> QED
  BY <1>1, <1>2, <1>3, PTL DEF Spec

(* The heap is whole: its blocks tile it, no two free ones lie side by     *)
(* side, and the count of free bytes is right.  Every allocated block has  *)
(* one holder and every holder what it asked for, whatever is created,     *)
(* deleted or fails half way, in whatever order: nothing leaks, no block   *)
(* has two holders, and none is freed while a list of the scheduler still  *)
(* has its task.                                                           *)
THEOREM HeapSound == Spec => []MemorySound
<1>1. TickInv /\ MemoryInv => MemorySound
  <2> SUFFICES ASSUME TickInv, MemoryInv PROVE MemorySound
    OBVIOUS
  <2>1. Tiled(heap) /\ Owned(heap.used, Memory)
    BY DEF MemoryInv, HeapInv
  <2>2. ASSUME NEW t \in Task, stateList[t] # Nowhere PROVE pxStack[t] # NULL /\ pxTCB[t] # NULL
    <3>1. phase[t] \in {"live", "dying"}
      BY <2>2, TimedNow DEF Placed
    <3> QED
      BY <3>1, MemoryNow DEF Held
  <2> QED
    BY <2>1, <2>2 DEF MemorySound, MemoryOwned
<1>2. Init => TickInv /\ MemoryInv
  BY TimeStarts, MemoryStarts
<1>3. TickInv /\ MemoryInv /\ [Next]_vars => (TickInv /\ MemoryInv)'
  BY TimeStays, MemoryKept
<1> QED
  BY <1>1, <1>2, <1>3, PTL DEF Spec

=============================================================================
