-------------------------- MODULE EventGroupProofs --------------------------
(***************************************************************************)
(* Proofs about module EventGroup, for every set of tasks, bits and calls: *)
(* no set is missed, an event group does what EventFlags promises, and a   *)
(* rendezvous used as event_groups.h shows keeps its parties together.     *)
(***************************************************************************)
EXTENDS EventGroup, TLAPS

Call == UNION {Calls[t] : t \in Task}
Command == [op : {"set", "clear"}, bits : Sets \cup Clears]

-----------------------------------------------------------------------------
(* The inductive invariant *)

(* What TypeOK leaves to the functions it applies, and the commands.       *)
Shape ==
    /\ call \in [Task -> Call \cup {NULL}]
    /\ wokenWith \in [Task -> (SUBSET Bit) \cup {NULL}]
    /\ xTimerQueue \in Seq(Command)
    /\ running \in Command \cup {NULL}

(* A call that left the list without a set had a time limit, and a group   *)
(* that does not exist has no list.                                        *)
LeftForAReason ==
    /\ \A t \in Task : TimedOut(t) => call[t].ticks = "finite"
    /\ ~exists => xTasksWaitingForBits = {}

GroupInv == TypeOK /\ Shape /\ LeftForAReason /\ NoMissedBits

-----------------------------------------------------------------------------
(* The condition of a call *)

LEMMA CallType ==
    ASSUME NEW t \in Task, NEW c \in Calls[t]
    PROVE  /\ c \in Call
           /\ c # NULL
           /\ c.op \in {"wait", "sync"}
           /\ c.bits \subseteq Bit
           /\ c.set \subseteq Bit
           /\ c.all \in BOOLEAN
           /\ c.clear \in BOOLEAN
           /\ c.ticks \in {"none", "finite", "forever"}
           /\ c.op = "sync" => c.all /\ c.clear
<1>1. c \in [op : {"wait", "sync"}, bits : SUBSET Bit, set : SUBSET Bit, all : BOOLEAN,
             clear : BOOLEAN, ticks : {"none", "finite", "forever"}]
  BY CallsAssumption
<1> QED
  BY <1>1, CallsAssumption, NullAssumption DEF Call

(* A call that fewer bits satisfy, more bits satisfy.                      *)
LEMMA MoreBits ==
    ASSUME NEW c, NEW few, NEW many, few \subseteq many, WaitCondition(c, few)
    PROVE  WaitCondition(c, many)
BY DEF WaitCondition

(* A call clears nothing but the bits it waits for.                        *)
LEMMA ClearsItsBits ==
    ASSUME NEW c, NEW bits
    PROVE  /\ ClearedOnExit(c, bits) \subseteq c.bits
           /\ ~c.clear => ClearedOnExit(c, bits) = {}
BY DEF ClearedOnExit

-----------------------------------------------------------------------------
(* What each operation does to the group.  The queue of deferred commands  *)
(* and the command in execution are no part of these steps.                *)

HandInv == xTimerQueue \in Seq(Command) /\ Len(xTimerQueue) <= QueueLength
           /\ running \in Command \cup {NULL}

(* GroupInv without the queue, the command and the history.                *)
ListInv ==
    /\ exists \in BOOLEAN
    /\ uxEventBits \subseteq Bit
    /\ xTasksWaitingForBits \subseteq {t \in Task : call[t] # NULL /\ wokenWith[t] = NULL}
    /\ \A t \in Task : /\ call[t] # NULL => call[t] \in Calls[t] /\ call[t].ticks # "none"
                       /\ wokenWith[t] # NULL => call[t] # NULL /\ wokenWith[t] \subseteq Bit
    /\ call \in [Task -> Call \cup {NULL}]
    /\ wokenWith \in [Task -> (SUBSET Bit) \cup {NULL}]
    /\ LeftForAReason
    /\ NoMissedBits

LEMMA Parts == GroupInv <=> ListInv /\ HandInv /\ arrived \in [Task -> Nat]
BY DEF GroupInv, ListInv, HandInv, TypeOK, Shape

(* The walk leaves in the list whom the bits did not satisfy.              *)
LEMMA WalkKeeps ==
    ASSUME ListInv, NEW bits \in SUBSET Bit, NEW own,
           NEW Joining \in SUBSET Task,
           SetAndRelease(bits, own, Joining),
           \/ Joining = {} /\ UNCHANGED <<exists, call>>
           \/ /\ UNCHANGED exists
              /\ exists
              /\ \E t \in Task : \E c \in Calls[t] :
                    /\ Joining = {t}
                    /\ call[t] = NULL
                    /\ c.ticks # "none"
                    /\ ~WaitCondition(c, uxEventBits \cup bits)
                    /\ call' = [call EXCEPT ![t] = c]
    PROVE  ListInv'
<1> DEFINE all == uxEventBits \cup bits
<1>1. /\ xTasksWaitingForBits' = (xTasksWaitingForBits \ Released(bits)) \cup Joining
      /\ wokenWith' = [t \in Task |-> IF t \in Released(bits) THEN all ELSE wokenWith[t]]
      /\ uxEventBits' \subseteq all
  BY DEF SetAndRelease
<1>2. Released(bits) = {t \in xTasksWaitingForBits : WaitCondition(call[t], all)}
  BY DEF Released, Satisfied
<1>3. all \subseteq Bit /\ NULL # all
  BY NullAssumption DEF ListInv
<1>4. CASE Joining = {} /\ UNCHANGED <<exists, call>>
  <2>1. NoMissedBits'
    BY <1>1, <1>2, <1>4, MoreBits DEF NoMissedBits
  <2>2. LeftForAReason'
    BY <1>1, <1>2, <1>3, <1>4 DEF ListInv, LeftForAReason, TimedOut
  <2> QED
    BY <1>1, <1>2, <1>3, <1>4, <2>1, <2>2 DEF ListInv
<1>5. ASSUME UNCHANGED exists, exists, NEW t \in Task, NEW c \in Calls[t],
             Joining = {t}, call[t] = NULL, c.ticks # "none", ~WaitCondition(c, all),
             call' = [call EXCEPT ![t] = c]
      PROVE  ListInv'
  <2>1. c # NULL /\ c \in Call
    BY CallType
  <2>2. /\ call' \in [Task -> Call \cup {NULL}]
        /\ call'[t] = c
        /\ \A s \in Task \ {t} : call'[s] = call[s]
    BY <1>5, <2>1 DEF ListInv
  <2>3. t \notin xTasksWaitingForBits /\ wokenWith[t] = NULL
    BY <1>5 DEF ListInv
  <2>4. NoMissedBits'
    <3> SUFFICES ASSUME NEW s \in xTasksWaitingForBits' PROVE ~WaitCondition(call'[s], uxEventBits')
      BY DEF NoMissedBits
    <3>1. ~WaitCondition(call'[s], all)
      BY <1>1, <1>2, <1>5, <2>2, <2>3 DEF ListInv
    <3> QED
      BY <1>1, <3>1, MoreBits
  <2>5. LeftForAReason'
    BY <1>1, <1>2, <1>3, <1>5, <2>2, <2>3 DEF ListInv, LeftForAReason, TimedOut
  <2>6. /\ wokenWith' \in [Task -> (SUBSET Bit) \cup {NULL}]
        /\ \A s \in Task : wokenWith'[s] # NULL => call'[s] # NULL /\ wokenWith'[s] \subseteq Bit
    BY <1>1, <1>2, <1>3, <2>1, <2>2 DEF ListInv
  <2>7. xTasksWaitingForBits' \subseteq {s \in Task : call'[s] # NULL /\ wokenWith'[s] = NULL}
    BY <1>1, <1>2, <1>5, <2>1, <2>2, <2>3 DEF ListInv
  <2>8. \A s \in Task : call'[s] # NULL => call'[s] \in Calls[s] /\ call'[s].ticks # "none"
    BY <1>5, <2>2 DEF ListInv
  <2> QED
    BY <1>1, <1>3, <1>5, <2>2, <2>4, <2>5, <2>6, <2>7, <2>8 DEF ListInv
<1> QED
  BY <1>4, <1>5

LEMMA SetKeeps ==
    ASSUME ListInv, NEW bits \in SUBSET Bit, xEventGroupSetBits(bits)
    PROVE  ListInv'
BY WalkKeeps DEF xEventGroupSetBits

LEMMA ClearKeeps ==
    ASSUME ListInv, NEW bits \in SUBSET Bit, xEventGroupClearBits(bits)
    PROVE  ListInv'
<1>1. NoMissedBits'
  BY MoreBits DEF ListInv, NoMissedBits, xEventGroupClearBits
<1> QED
  BY <1>1 DEF ListInv, xEventGroupClearBits, LeftForAReason, TimedOut

LEMMA WaitKeeps ==
    ASSUME ListInv, NEW t \in Task, NEW c \in Calls[t], xEventGroupWaitBits(t, c)
    PROVE  ListInv'
<1>1. CASE /\ uxEventBits' = uxEventBits \ ClearedOnExit(c, uxEventBits)
           /\ UNCHANGED <<xTasksWaitingForBits, call, exists, wokenWith>>
  <2>1. NoMissedBits'
    BY <1>1, MoreBits DEF ListInv, NoMissedBits
  <2> QED
    BY <1>1, <2>1 DEF ListInv, LeftForAReason, TimedOut
<1>2. CASE /\ ~WaitCondition(c, uxEventBits)
           /\ c.ticks # "none"
           /\ exists
           /\ call[t] = NULL
           /\ xTasksWaitingForBits' = xTasksWaitingForBits \cup {t}
           /\ call' = [call EXCEPT ![t] = c]
           /\ UNCHANGED <<exists, uxEventBits, wokenWith>>
  <2>1. c # NULL /\ c \in Call
    BY CallType
  <2>2. /\ call' \in [Task -> Call \cup {NULL}]
        /\ call'[t] = c
        /\ \A s \in Task \ {t} : call'[s] = call[s]
    BY <1>2, <2>1 DEF ListInv
  <2>3. t \notin xTasksWaitingForBits /\ wokenWith[t] = NULL
    BY <1>2 DEF ListInv
  <2>4. NoMissedBits'
    BY <1>2, <2>2, <2>3 DEF ListInv, NoMissedBits
  <2>5. LeftForAReason'
    BY <1>2, <2>2, <2>3 DEF ListInv, LeftForAReason, TimedOut
  <2> QED
    BY <1>2, <2>1, <2>2, <2>3, <2>4, <2>5 DEF ListInv
<1> QED
  BY <1>1, <1>2 DEF xEventGroupWaitBits

(* When a rendezvous completes, its condition holds.                       *)
LEMMA CompleteMeansHolds ==
    ASSUME NEW t \in Task, NEW c \in Calls[t], c.op = "sync"
    PROVE  SyncCompletes(c) <=> WaitCondition(c, uxEventBits \cup c.set)
BY CallType DEF SyncCompletes, WaitCondition

LEMMA SyncKeeps ==
    ASSUME ListInv, NEW t \in Task, NEW c \in Calls[t], c.op = "sync", xEventGroupSync(t, c)
    PROVE  ListInv'
<1>1. c.set \in SUBSET Bit
  BY CallType
<1>2. CASE ~SyncCompletes(c) /\ c.ticks # "none"
  <2>1. /\ exists /\ UNCHANGED exists
        /\ call[t] = NULL
        /\ call' = [call EXCEPT ![t] = c]
        /\ SetAndRelease(c.set, OwnBits(c), {t})
    BY <1>2 DEF xEventGroupSync
  <2>2. ~WaitCondition(c, uxEventBits \cup c.set)
    BY <1>2, CompleteMeansHolds
  <2> QED
    BY <1>1, <1>2, <2>1, <2>2, WalkKeeps
<1>3. CASE ~(~SyncCompletes(c) /\ c.ticks # "none")
  <2>1. /\ UNCHANGED <<exists, call>>
        /\ SetAndRelease(c.set, OwnBits(c), {})
        /\ {} \in SUBSET Task
    BY <1>3 DEF xEventGroupSync
  <2> QED
    BY <1>1, <2>1, WalkKeeps
<1> QED
  BY <1>2, <1>3

LEMMA TimeOutKeeps ==
    ASSUME ListInv, NEW t \in Task, TimeOut(t)
    PROVE  ListInv'
BY DEF ListInv, TimeOut, LeftForAReason, TimedOut, NoMissedBits

(* A task that goes away from its call is in no list.                      *)
LEMMA ReturnKeeps ==
    ASSUME ListInv, NEW t \in Task, ReturnWoken(t) \/ ReturnTimedOut(t)
    PROVE  ListInv'
<1>1. /\ t \notin xTasksWaitingForBits
      /\ call' = [call EXCEPT ![t] = NULL]
      /\ wokenWith' = [s \in Task |-> IF s = t THEN NULL ELSE wokenWith[s]]
      /\ uxEventBits' \subseteq uxEventBits
      /\ UNCHANGED <<exists, xTasksWaitingForBits>>
  BY DEF ListInv, ReturnWoken, ReturnTimedOut, TimedOut
<1>2. NoMissedBits'
  BY <1>1, MoreBits DEF ListInv, NoMissedBits
<1>3. LeftForAReason'
  BY <1>1 DEF ListInv, LeftForAReason, TimedOut
<1> QED
  BY <1>1, <1>2, <1>3 DEF ListInv

LEMMA LifeKeeps ==
    ASSUME ListInv, Life
    PROVE  ListInv'
<1>1. CASE vEventGroupDelete
  <2>1. {} \in SUBSET Bit /\ NULL # {}
    BY NullAssumption
  <2>2. wokenWith' = [t \in Task |-> IF t \in xTasksWaitingForBits THEN {} ELSE wokenWith[t]]
    BY <1>1 DEF vEventGroupDelete
  <2>3. LeftForAReason' /\ NoMissedBits'
    BY <1>1, <2>1, <2>2 DEF ListInv, vEventGroupDelete, LeftForAReason, TimedOut, NoMissedBits
  <2>4. wokenWith' \in [Task -> (SUBSET Bit) \cup {NULL}]
    BY <2>1, <2>2 DEF ListInv
  <2>5. \A t \in Task : wokenWith'[t] # NULL => call[t] # NULL /\ wokenWith'[t] \subseteq Bit
    BY <2>2 DEF ListInv
  <2> QED
    BY <1>1, <2>3, <2>4, <2>5 DEF ListInv, vEventGroupDelete
<1>2. CASE xEventGroupCreate
  BY <1>2 DEF ListInv, xEventGroupCreate, LeftForAReason, TimedOut, NoMissedBits
<1> QED
  BY <1>1, <1>2 DEF Life

-----------------------------------------------------------------------------
(* The queue of deferred commands *)

LEMMA SendKeeps ==
    ASSUME HandInv, NEW command \in Command, SendCommand(command), UNCHANGED running
    PROVE  HandInv'
<1>1. xTimerQueue \in Seq(Command)
  BY DEF HandInv
<1>2. /\ Append(xTimerQueue, command) \in Seq(Command)
      /\ Len(Append(xTimerQueue, command)) = Len(xTimerQueue) + 1
  BY <1>1
<1> QED
  BY <1>1, <1>2, QueueLengthAssumption DEF HandInv, SendCommand, Accepted

LEMMA InterruptKeeps ==
    ASSUME HandInv, Interrupt, UNCHANGED running
    PROVE  HandInv'
<1>1. \A bits \in Sets \cup Clears : /\ [op |-> "set", bits |-> bits] \in Command
                                     /\ [op |-> "clear", bits |-> bits] \in Command
  BY DEF Command
<1> QED
  BY <1>1, SendKeeps DEF Interrupt, xEventGroupSetBitsFromISR, xEventGroupClearBitsFromISR

LEMMA TakeKeeps ==
    ASSUME HandInv, TakeCommand
    PROVE  HandInv'
<1>1. xTimerQueue # <<>> /\ xTimerQueue \in Seq(Command)
  BY DEF HandInv, TakeCommand, ReceiveCommand
<1>2. /\ Head(xTimerQueue) \in Command
      /\ Tail(xTimerQueue) \in Seq(Command)
      /\ Len(Tail(xTimerQueue)) <= Len(xTimerQueue)
  BY <1>1
<1> QED
  BY <1>2, QueueLengthAssumption DEF HandInv, TakeCommand, ReceiveCommand

LEMMA CallbackKeeps ==
    ASSUME ListInv, HandInv, Callback, UNCHANGED xTimerQueue
    PROVE  ListInv' /\ HandInv'
<1>1. running \in Command
  BY DEF HandInv, Callback
<1>2. running.op \in {"set", "clear"} /\ running.bits \in SUBSET Bit
  BY <1>1, BitsAssumption DEF Command
<1>3. xEventGroupSetBits(running.bits) \/ xEventGroupClearBits(running.bits)
  BY <1>2 DEF Callback
<1>4. ListInv'
  BY <1>2, <1>3, SetKeeps, ClearKeeps
<1> QED
  BY <1>4 DEF HandInv, Callback

LEMMA ArriveType ==
    ASSUME arrived \in [Task -> Nat], NEW t \in Task, Arrive(t)
    PROVE  arrived' \in [Task -> Nat]
<1>1. CASE t \in Party /\ \A p \in Party \ {t} : arrived[p] > arrived[t]
  <2>1. arrived' = [p \in Task |-> IF p \in Party \ {t} THEN arrived[p] - 1 ELSE arrived[p]]
    BY <1>1 DEF Arrive
  <2>2. \A p \in Party \ {t} : arrived[p] - 1 \in Nat
    BY <1>1 DEF Party
  <2> QED
    BY <2>1, <2>2
<1>2. CASE ~(t \in Party /\ \A p \in Party \ {t} : arrived[p] > arrived[t])
  BY <1>2 DEF Arrive
<1> QED
  BY <1>1, <1>2

-----------------------------------------------------------------------------
(* The invariant, initially and step by step *)

LEMMA InitHolds == Init => GroupInv
<1> SUFFICES ASSUME Init PROVE GroupInv
  OBVIOUS
<1>1. /\ xTimerQueue = <<>> /\ running = NULL
      /\ call \in [Task -> Call \cup {NULL}]
      /\ wokenWith \in [Task -> (SUBSET Bit) \cup {NULL}]
      /\ \A t \in Task : call[t] = NULL /\ wokenWith[t] = NULL
      /\ uxEventBits = {} /\ xTasksWaitingForBits = {} /\ exists = TRUE
      /\ arrived \in [Task -> Nat]
  BY DEF Init
<1> QED
  BY <1>1, QueueLengthAssumption
     DEF GroupInv, TypeOK, Shape, LeftForAReason, NoMissedBits, TimedOut

LEMMA ListSame == ListInv /\ UNCHANGED groupVars => ListInv'
BY DEF ListInv, groupVars, LeftForAReason, TimedOut, NoMissedBits

LEMMA HandSame == HandInv /\ UNCHANGED <<xTimerQueue, running>> => HandInv'
BY DEF HandInv

LEMMA NextKeeps == GroupInv /\ [Next]_vars => GroupInv'
<1> SUFFICES ASSUME ListInv, HandInv, arrived \in [Task -> Nat], [Next]_vars
             PROVE  ListInv' /\ HandInv' /\ arrived' \in [Task -> Nat]
  <2>1. ListInv' /\ HandInv' /\ arrived' \in [Task -> Nat] => GroupInv'
    BY DEF GroupInv, ListInv, HandInv, TypeOK, Shape
  <2> QED
    BY <2>1, Parts
<1>1. ASSUME NEW t \in Task, TaskCall(t), UNCHANGED <<xTimerQueue, running>>
      PROVE  ListInv' /\ HandInv' /\ arrived' \in [Task -> Nat]
  <2>1. PICK c \in Calls[t] :
           \/ c.op = "wait" /\ xEventGroupWaitBits(t, c) /\ UNCHANGED arrived
           \/ c.op = "sync" /\ xEventGroupSync(t, c) /\ Arrive(t)
    BY <1>1 DEF TaskCall
  <2> QED
    BY <1>1, <2>1, WaitKeeps, SyncKeeps, ArriveType, HandSame
<1>2. ASSUME NEW t \in Task, TimeOut(t) \/ ReturnWoken(t) \/ ReturnTimedOut(t),
             UNCHANGED <<xTimerQueue, running, arrived>>
      PROVE  ListInv' /\ HandInv' /\ arrived' \in [Task -> Nat]
  BY <1>2, TimeOutKeeps, ReturnKeeps, HandSame
<1>3. CASE (TaskSets \/ TaskClears) /\ UNCHANGED <<xTimerQueue, running, arrived>>
  BY <1>3, SetKeeps, ClearKeeps, HandSame, BitsAssumption DEF TaskSets, TaskClears
<1>4. CASE Life /\ arrived' = [t \in Task |-> 0] /\ UNCHANGED <<xTimerQueue, running>>
  BY <1>4, LifeKeeps, HandSame
<1>5. CASE Interrupt /\ UNCHANGED <<groupVars, running, arrived>>
  BY <1>5, InterruptKeeps, ListSame
<1>6. CASE TakeCommand /\ UNCHANGED <<groupVars, arrived>>
  BY <1>6, TakeKeeps, ListSame
<1>7. CASE Callback /\ UNCHANGED <<xTimerQueue, arrived>>
  BY <1>7, CallbackKeeps
<1>8. CASE UNCHANGED vars
  BY <1>8, ListSame, HandSame DEF vars
<1> QED
  BY <1>1, <1>2, <1>3, <1>4, <1>5, <1>6, <1>7, <1>8 DEF Next

(* The invariant of every behaviour: a task in the list is in a call that  *)
(* the bits do not satisfy, one that left it had a reason.                 *)
THEOREM GroupCorrect == Spec => []GroupInv
BY InitHolds, NextKeeps, PTL DEF Spec

(* event_groups.c keeps its types: a task is inside a call only while it   *)
(* is in the list, released, or out of time.                               *)
THEOREM TypeCorrect == Spec => []TypeOK
<1>1. GroupInv => TypeOK
  BY DEF GroupInv
<1> QED
  BY <1>1, GroupCorrect, PTL

(* xEventGroupSetBits, from a task or deferred by an interrupt, misses     *)
(* nobody: while a task is in the list, the bits do not meet its condition.*)
THEOREM NoSetMissed == Spec => []NoMissedBits
<1>1. GroupInv => NoMissedBits
  BY DEF GroupInv
<1> QED
  BY <1>1, GroupCorrect, PTL

-----------------------------------------------------------------------------
(* An event group implements EventFlags *)

LEMMA SameCondition ==
    ASSUME NEW c, NEW bits
    PROVE  /\ Flags!Holds(c, bits) <=> WaitCondition(c, bits)
           /\ WaitCondition(c, bits) => Flags!Consumed(c) = ClearedOnExit(c, bits)
           /\ ClearedOnExit(c, bits) =
                 IF Flags!Holds(c, bits) THEN Flags!Consumed(c) ELSE {}
BY DEF Flags!Holds, Flags!Consumed, WaitCondition, ClearedOnExit

LEMMA UnfinishedIs ==
    ListInv => Flags!Unfinished = xTasksWaitingForBits \cup {t \in Task : TimedOut(t)}
BY DEF ListInv, Flags!Unfinished, TimedOut

(* The walk completes exactly the calls in the list that the bits satisfy; *)
(* whoever it passes over was just out of time.                            *)
LEMMA WalkArrives ==
    ASSUME ListInv, NEW bits \in SUBSET Bit, NEW own, NEW Joining,
           SetAndRelease(bits, own, Joining)
    PROVE  Flags!ArriveAnd(bits, own)
<1> DEFINE all == uxEventBits \cup bits
           Woken == Released(bits)
<1>1. Woken = {t \in xTasksWaitingForBits : WaitCondition(call[t], all)}
  BY DEF Released, Satisfied
<1>2. Woken \in SUBSET {t \in Flags!Unfinished : Flags!Holds(call[t], all)}
  BY <1>1, UnfinishedIs, SameCondition
<1>3. \A t \in Flags!Unfinished \ Woken :
         Flags!Holds(call[t], all) => call[t].ticks = "finite"
  BY <1>1, UnfinishedIs, SameCondition DEF ListInv, LeftForAReason
<1>4. uxBitsToClear(all) = UNION {Flags!Consumed(call[t]) : t \in Woken}
  <2>1. Woken = Satisfied(all)
    BY DEF Released
  <2>2. \A t \in Woken : ClearedOnExit(call[t], all) = Flags!Consumed(call[t])
    BY <1>1, SameCondition
  <2> HIDE DEF Woken
  <2> QED
    BY <2>1, <2>2 DEF uxBitsToClear
<1>5. /\ wokenWith' = [t \in Task |-> IF t \in Woken THEN all ELSE wokenWith[t]]
      /\ uxEventBits' = all \ (own \cup UNION {Flags!Consumed(call[t]) : t \in Woken})
  BY <1>4 DEF SetAndRelease
<1> HIDE DEF Woken
<1> QED
  BY <1>2, <1>3, <1>5 DEF Flags!ArriveAnd

LEMMA WaitRefines ==
    ASSUME ListInv, NEW t \in Task, NEW c \in Calls[t], c.op = "wait",
           xEventGroupWaitBits(t, c)
    PROVE  Flags!WaitAtOnce(c) \/ Flags!Wait(t, c)
BY SameCondition DEF xEventGroupWaitBits, Flags!WaitAtOnce, Flags!Wait

LEMMA SyncRefines ==
    ASSUME ListInv, NEW t \in Task, NEW c \in Calls[t], c.op = "sync", xEventGroupSync(t, c)
    PROVE  Flags!SyncAtOnce(c) \/ Flags!Sync(t, c)
<1>1. SyncCompletes(c) <=> Flags!Holds(c, uxEventBits \cup c.set)
  BY CompleteMeansHolds, SameCondition
<1>2. Flags!ArriveAnd(c.set, OwnBits(c))
  BY WalkArrives, CallType DEF xEventGroupSync
<1>3. CASE ~SyncCompletes(c) /\ c.ticks # "none"
  <2>1. OwnBits(c) = {} /\ call' = [call EXCEPT ![t] = c] /\ call[t] = NULL
    BY <1>3 DEF OwnBits, xEventGroupSync
  <2> QED
    BY <1>1, <1>2, <1>3, <2>1 DEF Flags!Sync, Flags!Arrive
<1>4. CASE ~(~SyncCompletes(c) /\ c.ticks # "none")
  <2>1. OwnBits(c) = (IF Flags!Holds(c, uxEventBits \cup c.set) THEN c.bits ELSE {})
    BY <1>1 DEF OwnBits
  <2>2. UNCHANGED call
    BY <1>4 DEF xEventGroupSync
  <2> QED
    BY <1>1, <1>2, <1>4, <2>1, <2>2 DEF Flags!SyncAtOnce
<1> QED
  BY <1>3, <1>4

LEMMA SetRefines ==
    ASSUME ListInv, NEW bits \in SUBSET Bit,
           xEventGroupSetBits(bits) \/ xEventGroupClearBits(bits)
    PROVE  Flags!Set(bits) \/ Flags!Clear(bits)
BY WalkArrives DEF xEventGroupSetBits, xEventGroupClearBits, Flags!Set, Flags!Arrive, Flags!Clear

LEMMA LifeRefines ==
    ASSUME ListInv, Life
    PROVE  Flags!Delete \/ Flags!Renew
<1>1. CASE vEventGroupDelete
  <2>1. Flags!Unfinished = xTasksWaitingForBits
    BY <1>1, UnfinishedIs DEF vEventGroupDelete
  <2> QED
    BY <1>1, <2>1 DEF vEventGroupDelete, Flags!Delete
<1>2. CASE xEventGroupCreate
  BY <1>2 DEF xEventGroupCreate, Flags!Renew
<1> QED
  BY <1>1, <1>2 DEF Life

LEMMA ReturnRefines ==
    ASSUME ListInv, NEW t \in Task, ReturnWoken(t) \/ ReturnTimedOut(t)
    PROVE  Flags!TimeOut(t) \/ Flags!Return(t)
<1>1. CASE ReturnWoken(t)
  BY <1>1 DEF ReturnWoken, Flags!Return
<1>2. CASE ReturnTimedOut(t)
  <2>1. TimedOut(t) /\ call[t].ticks = "finite" /\ t \in Flags!Unfinished
    BY <1>2, UnfinishedIs DEF ListInv, LeftForAReason, ReturnTimedOut
  <2> QED
    BY <1>2, <2>1, SameCondition DEF ReturnTimedOut, Flags!TimeOut
<1> QED
  BY <1>1, <1>2

LEMMA StepRefines ==
    GroupInv /\ [Next]_vars => [Flags!Next]_<<uxEventBits, call, wokenWith>>
<1> SUFFICES ASSUME ListInv, HandInv, [Next]_vars
             PROVE  Flags!Next \/ UNCHANGED <<uxEventBits, call, wokenWith>>
  BY Parts
<1>1. ASSUME NEW t \in Task, TaskCall(t) PROVE Flags!Next
  <2>1. PICK c \in Calls[t] : \/ c.op = "wait" /\ xEventGroupWaitBits(t, c)
                              \/ c.op = "sync" /\ xEventGroupSync(t, c)
    BY <1>1 DEF TaskCall
  <2> QED
    BY <2>1, WaitRefines, SyncRefines DEF Flags!Next
<1>2. ASSUME NEW t \in Task, TimeOut(t) PROVE UNCHANGED <<uxEventBits, call, wokenWith>>
  BY <1>2 DEF TimeOut
<1>3. ASSUME NEW t \in Task, ReturnWoken(t) \/ ReturnTimedOut(t) PROVE Flags!Next
  BY <1>3, ReturnRefines DEF Flags!Next
<1>4. CASE TaskSets \/ TaskClears
  BY <1>4, SetRefines, BitsAssumption DEF TaskSets, TaskClears, Flags!Next
<1>5. CASE Life
  BY <1>5, LifeRefines DEF Flags!Next
<1>6. CASE UNCHANGED groupVars
  BY <1>6 DEF groupVars
<1>7. CASE Callback
  <2>1. running.op \in {"set", "clear"} /\ running.bits \in SUBSET Bit
    BY <1>7, BitsAssumption DEF HandInv, Callback, Command
  <2>2. xEventGroupSetBits(running.bits) \/ xEventGroupClearBits(running.bits)
    BY <1>7, <2>1 DEF Callback
  <2> QED
    BY <2>1, <2>2, SetRefines DEF Flags!Next
<1> QED
  BY <1>1, <1>2, <1>3, <1>4, <1>5, <1>6, <1>7 DEF Next, vars

(* event_groups.c implements EventFlags: with its list, its deferred       *)
(* commands and its tasks that run late, each call still takes effect      *)
(* once, at one instant, and a set reaches every call without time limit.  *)
THEOREM GroupImplementsFlags == Spec => FlagsSpec
<1>1. Init => Flags!Init
  BY DEF Init, Flags!Init
<1> QED
  BY <1>1, GroupCorrect, StepRefines, PTL DEF Spec, FlagsSpec, Flags!Spec

-----------------------------------------------------------------------------
(* The rendezvous.  Own is the part of the bits that each party sets.      *)

Meeting(own) == UNION {own[p] : p \in Party}

(* A party that has arrived waits in its call and its bits are set; one    *)
(* that has not is elsewhere and its bits are clear; not all have arrived. *)
Assembling(own) ==
    /\ \A p \in Party :
          /\ arrived[p] \in {0, 1}
          /\ arrived[p] = 1 <=> p \in xTasksWaitingForBits /\ call[p].op = "sync"
          /\ exists => IF arrived[p] = 1 THEN own[p] \subseteq uxEventBits
                                         ELSE own[p] \cap uxEventBits = {}
    /\ Party # {} => \E p \in Party : arrived[p] = 0

LEMMA PartyIsTask == Party \subseteq Task
BY DEF Party

LEMMA OwnInMeeting ==
    ASSUME NEW own, NEW p \in Party
    PROVE  own[p] \subseteq Meeting(own)
BY DEF Meeting

(* Whoever is not in the rendezvous takes none of its bits.                *)
LEMMA OthersTakeNothing ==
    ASSUME NEW own, MeetingUse(own), NEW t \in Task, NEW c \in Calls[t],
           ~(t \in Party /\ c.op = "sync"), NEW bits
    PROVE  ClearedOnExit(c, bits) \cap Meeting(own) = {}
BY CallType, ClearsItsBits DEF MeetingUse, Meeting

(* A party in its rendezvous waits for the bits of all.                    *)
LEMMA PartyWaitsForAll ==
    ASSUME NEW own, MeetingUse(own), NEW t \in Party, NEW c \in Calls[t], c.op = "sync",
           NEW bits
    PROVE  /\ c.set = own[t] /\ c.bits = Meeting(own) /\ c.ticks = "forever"
           /\ WaitCondition(c, bits) <=> Meeting(own) \subseteq bits
BY PartyIsTask, CallType DEF MeetingUse, Meeting, WaitCondition

(* A walk with bits from outside, or not enough of them, leaves the        *)
(* parties and their bits alone.                                           *)
LEMMA WalkPassesBy ==
    ASSUME NEW own, MeetingUse(own), ListInv, NEW bits \in SUBSET Bit, NEW mine,
           NEW Joining, SetAndRelease(bits, mine, Joining),
           mine \cap Meeting(own) = {},
           ~(Meeting(own) \subseteq uxEventBits \cup bits)
    PROVE  /\ uxEventBits' \cap Meeting(own) = (uxEventBits \cup bits) \cap Meeting(own)
           /\ \A p \in Party : p \in xTasksWaitingForBits /\ call[p].op = "sync"
                 => p \in xTasksWaitingForBits'
           /\ xTasksWaitingForBits' \subseteq xTasksWaitingForBits \cup Joining
<1> DEFINE all == uxEventBits \cup bits
<1>1. \A p \in Party \cap xTasksWaitingForBits :
         call[p].op = "sync" => ~WaitCondition(call[p], all)
  BY PartyIsTask, PartyWaitsForAll DEF ListInv
<1>2. \A t \in Satisfied(all) : ClearedOnExit(call[t], all) \cap Meeting(own) = {}
  BY <1>1, OthersTakeNothing DEF Satisfied, ListInv
<1>3. uxBitsToClear(all) \cap Meeting(own) = {}
  BY <1>2 DEF uxBitsToClear
<1>4. Released(bits) = Satisfied(all)
  BY DEF Released
<1> QED
  BY <1>1, <1>3, <1>4 DEF SetAndRelease, Satisfied

(* While not all have arrived, some bit of the rendezvous is missing.      *)
LEMMA SomeBitIsMissing ==
    ASSUME NEW own, MeetingUse(own), Assembling(own), exists, Party # {}
    PROVE  ~(Meeting(own) \subseteq uxEventBits)
<1>1. PICK p \in Party : arrived[p] = 0
  BY DEF Assembling
<1>2. own[p] \cap uxEventBits = {} /\ own[p] # {}
  BY <1>1 DEF Assembling, MeetingUse
<1> QED
  BY <1>2, OwnInMeeting

(* What keeps the parties, their bits and the history, keeps Assembling.   *)
LEMMA PartiesUntouched ==
    ASSUME NEW own, ListInv, Assembling(own), UNCHANGED arrived,
           exists' => exists,
           exists' => uxEventBits' \cap Meeting(own) = uxEventBits \cap Meeting(own),
           \A p \in Party : p \in xTasksWaitingForBits' /\ call'[p].op = "sync"
                            <=> p \in xTasksWaitingForBits /\ call[p].op = "sync"
    PROVE  Assembling(own)'
<1>1. \A p \in Party : own[p] \subseteq Meeting(own)
  BY OwnInMeeting
<1> QED
  BY <1>1 DEF Assembling

LEMMA WaitAssembles ==
    ASSUME NEW own, MeetingUse(own), ListInv, Assembling(own), UNCHANGED arrived,
           NEW t \in Task, NEW c \in Calls[t], c.op = "wait", xEventGroupWaitBits(t, c)
    PROVE  Assembling(own)'
<1>1. ClearedOnExit(c, uxEventBits) \cap Meeting(own) = {}
  BY OthersTakeNothing
<1>2. UNCHANGED exists /\ uxEventBits' \cap Meeting(own) = uxEventBits \cap Meeting(own)
  BY <1>1 DEF xEventGroupWaitBits
<1>3. /\ t \notin xTasksWaitingForBits
      /\ \/ UNCHANGED <<xTasksWaitingForBits, call>>
         \/ /\ xTasksWaitingForBits' = xTasksWaitingForBits \cup {t}
            /\ call' = [call EXCEPT ![t] = c]
  BY DEF xEventGroupWaitBits, ListInv
<1>4. ASSUME NEW p \in Party
      PROVE  p \in xTasksWaitingForBits' /\ call'[p].op = "sync"
             <=> p \in xTasksWaitingForBits /\ call[p].op = "sync"
  <2>1. CASE p = t
    BY <1>3, <2>1, PartyIsTask DEF ListInv
  <2>2. CASE p # t
    BY <1>3, <2>2, PartyIsTask DEF ListInv
  <2> QED
    BY <2>1, <2>2
<1> QED
  BY <1>2, <1>4, PartiesUntouched

(* A walk that lets the rendezvous pass by and adds no party to the list.  *)
LEMMA WalkAssembles ==
    ASSUME NEW own, MeetingUse(own), ListInv, Assembling(own), UNCHANGED <<exists, arrived>>,
           exists, NEW bits \in SUBSET Bit, bits \cap Meeting(own) = {},
           NEW mine, mine \cap Meeting(own) = {},
           NEW Joining, Joining \cap Party = {}, SetAndRelease(bits, mine, Joining),
           \A p \in Party : call'[p] = call[p]
    PROVE  Assembling(own)'
<1>1. CASE Party = {}
  BY <1>1 DEF Assembling
<1>2. CASE Party # {}
  <2>1. ~(Meeting(own) \subseteq uxEventBits \cup bits)
    BY <1>2, SomeBitIsMissing
  <2>2. /\ uxEventBits' \cap Meeting(own) = (uxEventBits \cup bits) \cap Meeting(own)
        /\ \A p \in Party : p \in xTasksWaitingForBits /\ call[p].op = "sync"
              => p \in xTasksWaitingForBits'
        /\ xTasksWaitingForBits' \subseteq xTasksWaitingForBits \cup Joining
    BY <2>1, WalkPassesBy
  <2> QED
    BY <2>2, PartiesUntouched
<1> QED
  BY <1>1, <1>2

LEMMA SetAssembles ==
    ASSUME NEW own, MeetingUse(own), ListInv, Assembling(own), UNCHANGED arrived,
           NEW bits \in Sets \cup Clears,
           xEventGroupSetBits(bits) \/ xEventGroupClearBits(bits)
    PROVE  Assembling(own)'
<1>1. bits \in SUBSET Bit /\ bits \cap Meeting(own) = {}
  BY BitsAssumption DEF MeetingUse, Meeting
<1>2. CASE xEventGroupSetBits(bits)
  BY <1>1, <1>2, WalkAssembles DEF xEventGroupSetBits
<1>3. CASE xEventGroupClearBits(bits)
  BY <1>1, <1>3, PartiesUntouched DEF xEventGroupClearBits
<1> QED
  BY <1>2, <1>3

(* Someone else's rendezvous, with bits of its own.                        *)
LEMMA OtherSyncAssembles ==
    ASSUME NEW own, MeetingUse(own), ListInv, Assembling(own),
           NEW t \in Task \ Party, NEW c \in Calls[t], c.op = "sync",
           xEventGroupSync(t, c), Arrive(t)
    PROVE  Assembling(own)'
<1>1. c.set \in SUBSET Bit /\ c.clear
  BY CallType
<1>2. c.set \cap Meeting(own) = {} /\ c.bits \cap Meeting(own) = {}
  BY <1>1 DEF MeetingUse, Meeting
<1>3. OwnBits(c) \cap Meeting(own) = {} /\ {t} \cap Party = {}
  BY <1>2 DEF OwnBits
<1>4. UNCHANGED <<exists, arrived>> /\ exists /\ \A p \in Party : call'[p] = call[p]
  BY PartyIsTask DEF xEventGroupSync, Arrive, ListInv
<1>5. \/ SetAndRelease(c.set, OwnBits(c), {t})
      \/ SetAndRelease(c.set, OwnBits(c), {})
  BY DEF xEventGroupSync
<1> QED
  BY <1>1, <1>2, <1>3, <1>4, <1>5, WalkAssembles

(* A party comes, and is the last: all leave together.                     *)
LEMMA LastPartyAssembles ==
    ASSUME NEW own, MeetingUse(own), ListInv, Assembling(own),
           NEW t \in Party, NEW c \in Calls[t], c.op = "sync",
           xEventGroupSync(t, c), Arrive(t), SyncCompletes(c)
    PROVE  Assembling(own)'
<1>1. /\ c.set = own[t] /\ c.bits = Meeting(own)
      /\ exists /\ UNCHANGED <<exists, call>> /\ t \in Task
      /\ SetAndRelease(own[t], Meeting(own), {})
  BY PartyWaitsForAll, PartyIsTask DEF xEventGroupSync, OwnBits
<1>2. Meeting(own) \subseteq uxEventBits \cup own[t]
  BY <1>1 DEF SyncCompletes
<1>3. arrived[t] = 0
  BY <1>1 DEF xEventGroupSync, ListInv, Assembling
<1>4. ASSUME NEW q \in Party \ {t} PROVE arrived[q] = 1
  <2>1. own[q] \subseteq uxEventBits \cup own[t]
    BY <1>2, OwnInMeeting
  <2>2. own[q] \cap own[t] = {} /\ own[q] # {}
    BY DEF MeetingUse
  <2> QED
    BY <1>1, <2>1, <2>2 DEF Assembling
<1>5. \A p \in Party : arrived'[p] = 0
  BY <1>1, <1>3, <1>4, PartyIsTask DEF Arrive
<1>6. uxEventBits' \cap Meeting(own) = {}
  BY <1>1 DEF SetAndRelease
<1>7. \A p \in Party : ~(p \in xTasksWaitingForBits' /\ call'[p].op = "sync")
  <2> SUFFICES ASSUME NEW p \in Party, p \in xTasksWaitingForBits, call[p].op = "sync"
               PROVE  p \notin xTasksWaitingForBits'
    BY <1>1 DEF SetAndRelease
  <2>1. call[p] \in Calls[p]
    BY DEF ListInv
  <2>2. WaitCondition(call[p], uxEventBits \cup own[t])
    BY <1>2, <2>1, PartyWaitsForAll
  <2> QED
    BY <1>1, <2>2 DEF SetAndRelease, Released, Satisfied
<1> QED
  BY <1>5, <1>6, <1>7, OwnInMeeting DEF Assembling

(* A party comes, and others are missing: it waits.                        *)
LEMMA PartyAssembles ==
    ASSUME NEW own, MeetingUse(own), ListInv, Assembling(own), arrived \in [Task -> Nat],
           NEW t \in Party, NEW c \in Calls[t], c.op = "sync",
           xEventGroupSync(t, c), Arrive(t), ~SyncCompletes(c)
    PROVE  Assembling(own)'
<1>1. c.set = own[t] /\ c.bits = Meeting(own) /\ c.ticks = "forever" /\ t \in Task
  BY PartyWaitsForAll, PartyIsTask
<1>2. /\ exists /\ UNCHANGED exists
      /\ SetAndRelease(own[t], {}, {t})
      /\ call' = [call EXCEPT ![t] = c]
      /\ t \notin xTasksWaitingForBits
      /\ own[t] \in SUBSET Bit
  BY <1>1, CallType DEF xEventGroupSync, OwnBits, ListInv
<1>3. /\ call'[t] = c
      /\ \A p \in Party \ {t} : call'[p] = call[p]
  BY <1>1, <1>2, PartyIsTask DEF ListInv
<1>4. ~(Meeting(own) \subseteq uxEventBits \cup own[t])
  BY <1>1 DEF SyncCompletes
<1>5. /\ uxEventBits' \cap Meeting(own) = (uxEventBits \cup own[t]) \cap Meeting(own)
      /\ \A p \in Party : p \in xTasksWaitingForBits /\ call[p].op = "sync"
            => p \in xTasksWaitingForBits'
      /\ xTasksWaitingForBits' \subseteq xTasksWaitingForBits \cup {t}
  <2>1. {} \cap Meeting(own) = {}
    OBVIOUS
  <2> QED
    BY <1>2, <1>4, <2>1, WalkPassesBy
<1>6. t \in xTasksWaitingForBits'
  BY <1>2 DEF SetAndRelease
<1>7. arrived[t] = 0
  BY <1>2 DEF Assembling
<1>8. PICK q \in Party \ {t} : arrived[q] = 0
  <2> SUFFICES ASSUME \A q \in Party \ {t} : arrived[q] # 0 PROVE FALSE
    OBVIOUS
  <2>1. \A q \in Party : own[q] \subseteq uxEventBits \cup own[t]
    BY <1>2 DEF Assembling
  <2> QED
    BY <1>4, <2>1 DEF Meeting
<1>9. arrived' = [arrived EXCEPT ![t] = 1]
  BY <1>7, <1>8 DEF Arrive
<1>10. arrived'[t] = 1 /\ \A p \in Party \ {t} : arrived'[p] = arrived[p]
  BY <1>1, <1>9, PartyIsTask
<1>11. \A p \in Party \ {t} : own[p] \cap own[t] = {}
  BY DEF MeetingUse
<1>12. ASSUME NEW p \in Party
       PROVE  /\ arrived'[p] \in {0, 1}
              /\ arrived'[p] = 1 <=> p \in xTasksWaitingForBits' /\ call'[p].op = "sync"
  BY <1>3, <1>5, <1>6, <1>10 DEF Assembling
<1>13. ASSUME NEW p \in Party
       PROVE  IF arrived'[p] = 1 THEN own[p] \subseteq uxEventBits'
                                 ELSE own[p] \cap uxEventBits' = {}
  BY <1>2, <1>5, <1>10, <1>11, OwnInMeeting DEF Assembling
<1> QED
  BY <1>8, <1>10, <1>12, <1>13 DEF Assembling

(* Only calls with a time limit run out of time, and no party's does.      *)
LEMMA TimeOutAssembles ==
    ASSUME NEW own, MeetingUse(own), ListInv, Assembling(own), UNCHANGED arrived,
           NEW t \in Task, TimeOut(t)
    PROVE  Assembling(own)'
<1>1. ~(t \in Party /\ call[t].op = "sync")
  BY PartyWaitsForAll DEF TimeOut, ListInv
<1> QED
  BY <1>1, PartiesUntouched DEF TimeOut

LEMMA ReturnAssembles ==
    ASSUME NEW own, MeetingUse(own), ListInv, Assembling(own), UNCHANGED arrived,
           NEW t \in Task, ReturnWoken(t) \/ ReturnTimedOut(t)
    PROVE  Assembling(own)'
<1>1. /\ t \notin xTasksWaitingForBits
      /\ \A p \in Task \ {t} : call'[p] = call[p]
      /\ UNCHANGED <<exists, xTasksWaitingForBits>>
  BY DEF ReturnWoken, ReturnTimedOut, TimedOut, ListInv
<1>2. uxEventBits' \cap Meeting(own) = uxEventBits \cap Meeting(own)
  <2>1. CASE ReturnWoken(t)
    BY <2>1 DEF ReturnWoken
  <2>2. CASE ReturnTimedOut(t)
    <3>1. call[t] \in Calls[t] /\ call[t].ticks = "finite"
      BY <2>2 DEF ReturnTimedOut, TimedOut, ListInv, LeftForAReason
    <3>2. ~(t \in Party /\ call[t].op = "sync")
      BY <3>1, PartyWaitsForAll
    <3>3. ClearedOnExit(call[t], uxEventBits) \cap Meeting(own) = {}
      BY <3>1, <3>2, OthersTakeNothing
    <3> QED
      BY <2>2, <3>3 DEF ReturnTimedOut
  <2> QED
    BY <2>1, <2>2
<1> QED
  BY <1>1, <1>2, PartyIsTask, PartiesUntouched

LEMMA LifeAssembles ==
    ASSUME NEW own, ListInv, Life, arrived' = [t \in Task |-> 0]
    PROVE  Assembling(own)'
<1>1. xTasksWaitingForBits' = {} /\ (exists' => uxEventBits' = {})
  BY DEF Life, vEventGroupDelete, xEventGroupCreate, ListInv, LeftForAReason
<1> QED
  BY <1>1, PartyIsTask DEF Assembling

LEMMA InitAssembles == \A own : Init => Assembling(own)
BY PartyIsTask DEF Init, Assembling

LEMMA NextAssembles ==
    ASSUME NEW own, MeetingUse(own), GroupInv, Assembling(own), [Next]_vars
    PROVE  Assembling(own)'
<1>0. ListInv /\ HandInv /\ arrived \in [Task -> Nat]
  BY Parts
<1>1. ASSUME NEW t \in Task, TaskCall(t) PROVE Assembling(own)'
  <2>1. PICK c \in Calls[t] :
           \/ c.op = "wait" /\ xEventGroupWaitBits(t, c) /\ UNCHANGED arrived
           \/ c.op = "sync" /\ xEventGroupSync(t, c) /\ Arrive(t)
    BY <1>1 DEF TaskCall
  <2>2. CASE c.op = "wait" /\ xEventGroupWaitBits(t, c) /\ UNCHANGED arrived
    BY <1>0, <2>2, WaitAssembles
  <2>3. CASE c.op = "sync" /\ xEventGroupSync(t, c) /\ Arrive(t)
    BY <1>0, <2>3, OtherSyncAssembles, LastPartyAssembles, PartyAssembles
  <2> QED
    BY <2>1, <2>2, <2>3
<1>2. ASSUME NEW t \in Task, TimeOut(t) \/ ReturnWoken(t) \/ ReturnTimedOut(t),
             UNCHANGED arrived
      PROVE  Assembling(own)'
  BY <1>0, <1>2, TimeOutAssembles, ReturnAssembles
<1>3. CASE (TaskSets \/ TaskClears) /\ UNCHANGED arrived
  BY <1>0, <1>3, SetAssembles DEF TaskSets, TaskClears
<1>4. CASE Life /\ arrived' = [t \in Task |-> 0]
  BY <1>0, <1>4, LifeAssembles
<1>5. CASE UNCHANGED <<groupVars, arrived>>
  BY <1>5 DEF groupVars, Assembling
<1>6. CASE Callback /\ UNCHANGED arrived
  <2>1. running.op \in {"set", "clear"} /\ running.bits \in Sets \cup Clears
    BY <1>0, <1>6 DEF HandInv, Callback, Command
  <2>2. xEventGroupSetBits(running.bits) \/ xEventGroupClearBits(running.bits)
    BY <1>6, <2>1 DEF Callback
  <2> QED
    BY <1>0, <1>6, <2>1, <2>2, SetAssembles
<1> QED
  BY <1>1, <1>2, <1>3, <1>4, <1>5, <1>6 DEF Next, vars

(* Nobody leaves xEventGroupSync before all have come, however many the    *)
(* parties and whatever else is done with the group, if the rendezvous is  *)
(* used as event_groups.h shows.                                           *)
THEOREM PartiesMeet == RendezvousUse => (Spec => []Rendezvous)
<1> SUFFICES ASSUME NEW own \in [Party -> SUBSET Bit], MeetingUse(own)
             PROVE  Spec => []Rendezvous
  BY DEF RendezvousUse
<1>1. Init => Assembling(own)
  BY InitAssembles
<1>2. GroupInv /\ Assembling(own) /\ [Next]_vars => Assembling(own)'
  BY NextAssembles
<1>3. Assembling(own) => Rendezvous
  <2> SUFFICES ASSUME Assembling(own), NEW t \in Party, arrived[t] > 0
               PROVE  t \in xTasksWaitingForBits /\ arrived[t] = 1
    BY DEF Rendezvous
  <2>1. arrived[t] = 1
    BY DEF Assembling
  <2> QED
    BY <2>1 DEF Assembling
<1> QED
  BY <1>1, <1>2, <1>3, GroupCorrect, PTL DEF Spec
=============================================================================
