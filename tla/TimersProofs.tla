---------------------------- MODULE TimersProofs ----------------------------
(***************************************************************************)
(* Proofs about module Timers, for any timers, periods and bounds that the *)
(* arithmetic on tick counts can tell apart: no callback is early, no      *)
(* expiry is slept through, and a reload finds its place in the queue.     *)
(***************************************************************************)
EXTENDS Timers, FiniteSetTheorems, WellFoundedInduction, TLAPS

-----------------------------------------------------------------------------
(* The inductive invariant *)

(* The tick count at the last sample, and the time since the beginning of  *)
(* the round of counts in which the current list began.  While the lists   *)
(* are about to be switched, that is the round before the sample.          *)
Sampled == IF pc = "switch" THEN xTimeNow ELSE xLastTime
Now == (IF pc = "switch" THEN Modulus ELSE 0) + Sampled + Minus(xTickCount, Sampled)

ExpiresAt(t) == value[t] + (IF list[t] = "overflow" THEN Modulus ELSE 0)

(* A start or a reload knows how old it is.                                *)
Dated(m) ==
    /\ m \in Commands /\ m.age <= Late
    /\ m.op = "change" => m.value \in Periods
    /\ m.op = "start" => Plus(m.value, m.age) = xTickCount

QueueDated ==
    /\ xTimerQueue \in Seq(Commands)
    /\ \A i \in DOMAIN xTimerQueue : Dated(xTimerQueue[i])

(* The command the task executes is of a timer in no list, and is at least *)
(* as old as the sample.                                                   *)
MessageDated ==
    msg # NULL =>
        /\ Dated(msg)
        /\ list[msg.timer] = "none"
        /\ pc \in {"switch", "apply"} => Minus(xTickCount, xTimeNow) <= msg.age

(* What the task knows of its sample.                                      *)
SampleKept ==
    /\ pc = "switch" /\ msg = NULL => xTimeNow = xTickCount
    /\ pc \in {"apply", "expire"} => xTimeNow = xLastTime
    /\ pc = "expire" => \A t \in Heads : value[t] <= xTimeNow

(* A timer in a list expires when it was promised, not more than a period  *)
(* after the last sample.                                                  *)
KeepsPromise(t) ==
    list[t] # "none" =>
        /\ due[t] # NULL
        /\ due[t] = ExpiresAt(t) - Now
        /\ (pc = "switch" => list[t] = "overflow") => ExpiresAt(t) - xLastTime <= period[t]

Promised == \A t \in Timer : KeepsPromise(t)

TimeInv ==
    TypeOK /\ QueueDated /\ MessageDated /\ SampleKept /\ Promised /\ NeverEarly

(* What fills the queue beyond what the application may is reloads of      *)
(* timers that are in no list.                                             *)
Reloading == {t \in AutoReload : list[t] = "none" /\ (msg = NULL \/ msg.timer # t)}

RoomKept == Len(xTimerQueue) + Room <= QueueLength + Cardinality(Reloading)

(* A promise is in a list, or in a command to be executed.                 *)
Pending(t) ==
    \/ list[t] # "none"
    \/ msg # NULL /\ msg.timer = t
    \/ \E i \in DOMAIN xTimerQueue : xTimerQueue[i].op = "start" /\ xTimerQueue[i].timer = t

PromisesPending == \A t \in Timer : due[t] # NULL => Pending(t)

Awake == pc = "blocked" => \A t \in Timer : list[t] # "none" => wait <= due[t]

WakeInv == RoomKept /\ ReloadHasRoom /\ PromisesPending /\ Awake

IInv == TimeInv /\ WakeInv

-----------------------------------------------------------------------------
(* Sets of numbers have a least element. *)

Below == OpToRel(<, Nat)

LEMMA Smaller == \A m, n \in Nat : n < m => <<n, m>> \in Below
<1> SUFFICES ASSUME NEW m \in Nat, NEW n \in Nat, n < m PROVE <<n, m>> \in Below
  OBVIOUS
<1>1. Below = {ss \in Nat \X Nat : ss[1] < ss[2]}
  BY Zenon DEF Below, OpToRel
<1> QED
  BY <1>1

LEMMA Least ==
    ASSUME NEW T \in SUBSET Nat, T # {}
    PROVE  \E m \in T : \A n \in T : m <= n
<1>1. IsWellFoundedOn(Below, Nat)
  BY NatLessThanWellFounded, Zenon DEF Below
<1>2. PICK m \in T : \A n \in T : <<n, m>> \notin Below
  <2> HIDE DEF Below
  <2> QED
    BY <1>1, WFMin, Zenon
<1>3. ASSUME NEW n \in T PROVE m <= n
  <2> HIDE DEF Below
  <2>1. ~(n < m)
    BY <1>2, Smaller
  <2> QED
    BY <2>1
<1> QED
  BY <1>3

-----------------------------------------------------------------------------
(* Counts modulo Modulus. *)

LEMMA Sizes ==
    ASSUME NEW p \in Periods
    PROVE  /\ p \in Nat /\ 0 < p /\ p < Modulus /\ Modulus \in Nat \ {0} /\ p \in Time
           /\ Late \in Nat /\ p + Late < Modulus /\ Late < Modulus
           /\ MaxAge \in Nat /\ MaxAge <= Late /\ MaxLag \in Nat /\ MaxLag <= Late
<1>1. /\ p \in Nat /\ 0 < p /\ Modulus \in Nat /\ MaxAge \in Nat /\ MaxLag \in Nat
      /\ p + Late < Modulus
  BY TimerAssumption
<1>2. Late \in Nat /\ MaxAge <= Late /\ MaxLag <= Late
  BY <1>1 DEF Late
<1> QED
  BY <1>1, <1>2 DEF Time

LEMMA PlusIs ==
    ASSUME Modulus \in Nat \ {0}, NEW a \in Time, NEW b \in 0 .. Modulus
    PROVE  /\ Plus(a, b) \in Time
           /\ Plus(a, b) = IF a + b < Modulus THEN a + b ELSE a + b - Modulus
<1>1. CASE a + b < Modulus
  <2>1. a + b \in 0 .. Modulus - 1
    BY <1>1 DEF Time
  <2>2. (a + b) % Modulus = a + b
    BY <2>1, SMT
  <2> QED
    BY <1>1, <2>1, <2>2 DEF Plus, Time
<1>2. CASE ~(a + b < Modulus)
  <2> DEFINE c == a + b - Modulus
  <2>1. c \in 0 .. Modulus - 1 /\ c + Modulus = a + b
    BY <1>2 DEF Time
  <2> HIDE DEF c
  <2>2. (c + Modulus) % Modulus = c
    BY <2>1, SMT
  <2>3. Plus(a, b) = c /\ c \in Time
    BY <2>1, <2>2 DEF Plus, Time
  <2> QED
    BY <1>2, <2>3 DEF c
<1> QED
  BY <1>1, <1>2

LEMMA MinusIs ==
    ASSUME Modulus \in Nat \ {0}, NEW a \in Time, NEW b \in Time
    PROVE  /\ Minus(a, b) \in Time
           /\ Minus(a, b) = IF a >= b THEN a - b ELSE a - b + Modulus
<1>1. (a - b) % Modulus = IF a >= b THEN a - b ELSE a - b + Modulus
  BY SMT DEF Time
<1> QED
  BY <1>1 DEF Minus, Time

(* prvInsertTimerInActiveList finds the place of a timer that was given p  *)
(* ticks late ticks before the sample.                                     *)
LEMMA PlaceIsRight ==
    ASSUME NEW p \in Periods, NEW late \in 0 .. Late, NEW v \in Time, NEW now \in Time,
           Plus(v, late) = now
    PROVE  LET expiry == Plus(v, p)
               place == PlaceFor(expiry, now, v, p)
           IN  /\ expiry \in Time
               /\ place \in {"now", "current", "overflow"}
               /\ place = "now" => p <= late
               /\ place = "current" => expiry - now = p - late
               /\ place = "overflow" => expiry + Modulus - now = p - late /\ late < p
<1> DEFINE expiry == Plus(v, p)
<1>1. /\ p \in Nat /\ 0 < p /\ p < Modulus /\ Modulus \in Nat \ {0}
      /\ late \in Nat /\ late < Modulus /\ Late \in Nat /\ p + late < Modulus
  BY Sizes
<1>2. expiry \in Time /\ expiry = IF v + p < Modulus THEN v + p ELSE v + p - Modulus
  BY <1>1, PlusIs
<1>3. now = IF v + late < Modulus THEN v + late ELSE v + late - Modulus
  BY <1>1, PlusIs
<1>4. Minus(now, v) = IF now >= v THEN now - v ELSE now - v + Modulus
  BY <1>1, MinusIs
<1>5. v \in Nat /\ v < Modulus /\ now \in Nat /\ expiry \in Nat
  BY <1>1, <1>2 DEF Time
<1>6. Minus(now, v) = late
  BY <1>1, <1>3, <1>4, <1>5
<1> HIDE DEF expiry
<1>7. PlaceFor(expiry, now, v, p) =
        IF expiry <= now
          THEN IF late >= p THEN "now" ELSE "overflow"
          ELSE IF now < v /\ expiry >= v THEN "now" ELSE "current"
  BY <1>6 DEF PlaceFor
<1> SUFFICES /\ PlaceFor(expiry, now, v, p) \in {"now", "current", "overflow"}
             /\ PlaceFor(expiry, now, v, p) = "now" => p <= late
             /\ PlaceFor(expiry, now, v, p) = "current" => expiry - now = p - late
             /\ PlaceFor(expiry, now, v, p) = "overflow" =>
                    expiry + Modulus - now = p - late /\ late < p
  BY <1>2 DEF expiry
<1>8. CASE expiry <= now
  <2>1. CASE late >= p
    BY <1>1, <1>7, <1>8, <2>1
  <2>2. CASE ~(late >= p)
    BY <1>1, <1>2, <1>3, <1>5, <1>7, <1>8, <2>2
  <2> QED
    BY <2>1, <2>2
<1>9. CASE ~(expiry <= now)
  <2>1. CASE now < v /\ expiry >= v
    BY <1>1, <1>2, <1>3, <1>5, <1>7, <1>9, <2>1
  <2>2. CASE ~(now < v /\ expiry >= v)
    BY <1>1, <1>2, <1>3, <1>5, <1>7, <1>9, <2>2
  <2> QED
    BY <2>1, <2>2
<1> QED
  BY <1>8, <1>9

-----------------------------------------------------------------------------
(* Time as the lists have it. *)

LEMMA ModulusIs == TypeOK => Modulus \in Nat \ {0}
<1> SUFFICES ASSUME TypeOK PROVE Modulus \in Nat \ {0}
  OBVIOUS
<1>1. xTickCount \in 0 .. Modulus - 1 /\ Modulus \in Nat
  BY TimerAssumption DEF TypeOK, Time
<1> QED
  BY <1>1

LEMMA NowIs ==
    ASSUME TypeOK
    PROVE  /\ pc # "switch" => Now = IF xTickCount >= xLastTime THEN xTickCount
                                      ELSE xTickCount + Modulus
           /\ pc = "switch" => Now = IF xTickCount >= xTimeNow THEN xTickCount + Modulus
                                      ELSE xTickCount + Modulus + Modulus
           /\ Now \in Nat
<1>1. /\ Modulus \in Nat \ {0} /\ xTickCount \in Time /\ xLastTime \in Time /\ xTimeNow \in Time
  BY ModulusIs DEF TypeOK
<1>2. xTickCount \in Nat /\ xLastTime \in Nat /\ xTimeNow \in Nat
  BY <1>1 DEF Time
<1>3. /\ Minus(xTickCount, xLastTime) = IF xTickCount >= xLastTime THEN xTickCount - xLastTime
                                         ELSE xTickCount - xLastTime + Modulus
      /\ Minus(xTickCount, xTimeNow) = IF xTickCount >= xTimeNow THEN xTickCount - xTimeNow
                                         ELSE xTickCount - xTimeNow + Modulus
  BY <1>1, MinusIs
<1>4. CASE pc = "switch"
  <2>1. Now = Modulus + xTimeNow + Minus(xTickCount, xTimeNow)
    BY <1>4 DEF Now, Sampled
  <2>2. CASE xTickCount >= xTimeNow
    BY <1>1, <1>2, <1>3, <1>4, <2>1, <2>2
  <2>3. CASE ~(xTickCount >= xTimeNow)
    BY <1>1, <1>2, <1>3, <1>4, <2>1, <2>3
  <2> QED
    BY <2>2, <2>3
<1>5. CASE pc # "switch"
  <2>1. Now = 0 + xLastTime + Minus(xTickCount, xLastTime)
    BY <1>5 DEF Now, Sampled
  <2>2. CASE xTickCount >= xLastTime
    BY <1>1, <1>2, <1>3, <1>5, <2>1, <2>2
  <2>3. CASE ~(xTickCount >= xLastTime)
    BY <1>1, <1>2, <1>3, <1>5, <2>1, <2>3
  <2> QED
    BY <2>2, <2>3
<1> QED
  BY <1>4, <1>5

LEMMA NowStays ==
    ASSUME UNCHANGED xTickCount,
           \/ pc # "switch" /\ pc' # "switch" /\ xLastTime' = xLastTime
           \/ pc = "switch" /\ pc' = "switch" /\ xTimeNow' = xTimeNow
    PROVE  Now' = Now
BY DEF Now, Sampled, Minus

(* A timer in a list, by its list.                                         *)
LEMMA TimerTypes ==
    ASSUME TypeOK, NEW t \in Timer
    PROVE  /\ list[t] \in {"current", "overflow", "none"} /\ value[t] \in Time
           /\ value[t] \in Nat /\ value[t] < Modulus
           /\ period[t] \in Periods /\ due[t] \in (-Late .. Modulus) \cup {NULL}
           /\ due[t] # NULL => due[t] \in Int /\ -Late <= due[t] /\ due[t] <= Modulus
           /\ Modulus \in Nat \ {0} /\ Late \in Nat /\ Late < Modulus
           /\ period[t] \in Nat /\ 0 < period[t] /\ period[t] < Modulus
           /\ period[t] + Late < Modulus
<1>1. /\ list[t] \in {"current", "overflow", "none"} /\ value[t] \in Time
      /\ period[t] \in Periods /\ due[t] \in (-Late .. Modulus) \cup {NULL}
  BY DEF TypeOK
<1>2. /\ Modulus \in Nat \ {0} /\ Late \in Nat /\ Late < Modulus
      /\ period[t] \in Nat /\ 0 < period[t] /\ period[t] < Modulus
      /\ period[t] + Late < Modulus
  BY <1>1, Sizes
<1>3. value[t] \in Nat /\ value[t] < Modulus
  BY <1>1, <1>2 DEF Time
<1>4. due[t] # NULL => due[t] \in Int /\ -Late <= due[t] /\ due[t] <= Modulus
  BY <1>1, <1>2
<1> QED
  BY <1>1, <1>2, <1>3, <1>4

LEMMA DueIs ==
    ASSUME TypeOK, NEW t \in Timer, KeepsPromise(t)
    PROVE  /\ list[t] = "current" => due[t] # NULL /\ due[t] = value[t] - Now
           /\ list[t] = "overflow" => due[t] # NULL /\ due[t] = value[t] + Modulus - Now
           /\ list[t] = "current" /\ pc # "switch" => value[t] - xLastTime <= period[t]
           /\ list[t] = "overflow" => value[t] + Modulus - xLastTime <= period[t]
<1>1. /\ value[t] \in Nat /\ Modulus \in Nat
      /\ Now \in Nat /\ xLastTime \in Nat
  BY TimerTypes, NowIs DEF TypeOK, Time
<1>2. /\ list[t] = "current" => ExpiresAt(t) = value[t]
      /\ list[t] = "overflow" => ExpiresAt(t) = value[t] + Modulus
  BY <1>1 DEF ExpiresAt
<1>3. CASE list[t] = "current"
  BY <1>2, <1>3 DEF KeepsPromise
<1>4. CASE list[t] = "overflow"
  <2>1. /\ ExpiresAt(t) - Now = value[t] + Modulus - Now
        /\ ExpiresAt(t) - xLastTime = value[t] + Modulus - xLastTime
    BY <1>1, <1>2, <1>4
  <2> QED
    BY <1>4, <2>1, Zenon DEF KeepsPromise
<1> QED
  BY <1>3, <1>4

(* The same, to establish it.                                              *)
LEMMA KeepsNext ==
    ASSUME TypeOK', NEW t \in Timer, NEW now \in Int, Now' = now,
           list'[t] = "current" =>
               /\ due'[t] # NULL /\ due'[t] = value'[t] - now
               /\ pc' # "switch" => value'[t] - xLastTime' <= period'[t],
           list'[t] = "overflow" =>
               /\ due'[t] # NULL /\ due'[t] = value'[t] + Modulus - now
               /\ value'[t] + Modulus - xLastTime' <= period'[t]
    PROVE  KeepsPromise(t)'
<1>1. /\ value'[t] \in Nat /\ Modulus \in Nat /\ list'[t] \in {"current", "overflow", "none"}
      /\ xLastTime' \in Nat
  BY TimerAssumption DEF TypeOK, Time
<1>2. /\ list'[t] = "current" => ExpiresAt(t)' = value'[t]
      /\ list'[t] = "overflow" => ExpiresAt(t)' = value'[t] + Modulus
  BY <1>1 DEF ExpiresAt
<1>3. CASE list'[t] = "current"
  BY <1>2, <1>3 DEF KeepsPromise
<1>4. CASE list'[t] = "overflow"
  <2>1. /\ ExpiresAt(t)' - now = value'[t] + Modulus - now
        /\ ExpiresAt(t)' - xLastTime' = value'[t] + Modulus - xLastTime'
    BY <1>1, <1>2, <1>4
  <2> QED
    BY <1>4, <2>1, Zenon DEF KeepsPromise
<1>5. CASE list'[t] = "none"
  BY <1>5 DEF KeepsPromise
<1> QED
  BY <1>1, <1>3, <1>4, <1>5

(* Nothing changes for the timers a step does not touch.                   *)
LEMMA OthersKeepPromise ==
    ASSUME Promised, NEW T \in SUBSET Timer,
           \A u \in Timer \ T : /\ list'[u] = list[u] /\ value'[u] = value[u]
                                /\ due'[u] = due[u] /\ period'[u] = period[u],
           Now' = Now, pc' = "switch" <=> pc = "switch", xLastTime' = xLastTime
    PROVE  \A u \in Timer \ T : KeepsPromise(u)'
<1> SUFFICES ASSUME NEW u \in Timer \ T PROVE KeepsPromise(u)'
  OBVIOUS
<1>1. KeepsPromise(u)
  BY DEF Promised
<1>2. ExpiresAt(u)' = ExpiresAt(u)
  BY DEF ExpiresAt
<1> QED
  BY <1>1, <1>2 DEF KeepsPromise

-----------------------------------------------------------------------------
(* The command queue. *)

LEMMA QueueStays ==
    ASSUME QueueDated, UNCHANGED <<xTimerQueue, xTickCount>>
    PROVE  QueueDated'
BY DEF QueueDated, Dated

LEMMA SendKeeps ==
    ASSUME QueueDated, Len(xTimerQueue) <= QueueLength, NEW c, Dated(c), SendCommand(c),
           UNCHANGED xTickCount
    PROVE  QueueDated' /\ Len(xTimerQueue') <= QueueLength
<1>1. CASE Accepted
  <2>1. xTimerQueue' = Append(xTimerQueue, c) /\ c \in Commands /\ xTimerQueue \in Seq(Commands)
    BY <1>1 DEF SendCommand, Dated, QueueDated
  <2>2. Len(xTimerQueue) \in Nat /\ Len(xTimerQueue) < QueueLength /\ QueueLength \in Nat
    BY <1>1, <2>1, QueueLengthAssumption DEF Accepted
  <2>3. /\ xTimerQueue' \in Seq(Commands) /\ Len(xTimerQueue') = Len(xTimerQueue) + 1
        /\ \A i \in DOMAIN xTimerQueue' :
              xTimerQueue'[i] = c \/ (i \in DOMAIN xTimerQueue /\ xTimerQueue'[i] = xTimerQueue[i])
    BY <2>1, <2>2
  <2>4. ASSUME NEW i \in DOMAIN xTimerQueue' PROVE Dated(xTimerQueue'[i])
    BY <2>3, <2>4 DEF QueueDated
  <2> QED
    BY <2>2, <2>3, <2>4 DEF QueueDated, Dated
<1>2. CASE ~Accepted
  BY <1>2, QueueStays DEF SendCommand
<1> QED
  BY <1>1, <1>2

(* An expired timer's reload is a command like any other.                  *)
LEMMA ReloadDated ==
    ASSUME TypeOK, NEW t \in Timer, KeepsPromise(t), list[t] = "current", due[t] <= 0
    PROVE  Dated(Command("start", t, value[t], -due[t]))
<1>1. due[t] # NULL /\ due[t] = value[t] - Now
  BY DueIs
<1>2. /\ value[t] \in Nat /\ value[t] < Modulus /\ value[t] \in Time
      /\ Modulus \in Nat \ {0} /\ Late \in Nat /\ Late < Modulus
      /\ due[t] \in Int /\ -Late <= due[t]
  BY <1>1, TimerTypes
<1>3. -due[t] \in Nat /\ -due[t] <= Late /\ -due[t] \in 0 .. Modulus /\ -due[t] \in Time
  BY <1>2 DEF Time
<1>4. /\ xTickCount \in Nat /\ xTickCount < Modulus /\ Now \in Nat
      /\ Now = xTickCount \/ Now = xTickCount + Modulus \/ Now = xTickCount + Modulus + Modulus
  BY <1>2, NowIs DEF TypeOK, Time
<1>5. value[t] + (-due[t]) = Now
  BY <1>1, <1>2, <1>4
<1>6. Plus(value[t], -due[t]) = xTickCount
  <2>1. Plus(value[t], -due[t]) = IF Now < Modulus THEN Now ELSE Now - Modulus
    BY <1>2, <1>3, <1>5, PlusIs
  <2>2. Now < Modulus + Modulus
    BY <1>2, <1>3, <1>4, <1>5
  <2> QED
    BY <1>2, <1>4, <2>1, <2>2
<1> QED
  BY <1>2, <1>3, <1>6 DEF Dated, Command, Commands

-----------------------------------------------------------------------------
(* The steps that move a timer. *)

LEMMA InsertIs ==
    ASSUME TypeOK, NEW t \in Timer, NEW expiry \in Time, NEW place \in {"now", "current", "overflow"},
           prvInsertTimerInActiveList(t, expiry, place)
    PROVE  /\ list' \in [Timer -> {"current", "overflow", "none"}] /\ value' \in [Timer -> Time]
           /\ list'[t] = IF place = "now" THEN "none" ELSE place
           /\ place # "now" => value'[t] = expiry
           /\ \A u \in Timer \ {t} : list'[u] = list[u] /\ value'[u] = value[u]
<1>1. /\ list \in [Timer -> {"current", "overflow", "none"}] /\ value \in [Timer -> Time]
      /\ 0 \in Time
  BY ModulusIs DEF TypeOK, Time
<1> QED
  BY <1>1 DEF prvInsertTimerInActiveList

LEMMA RemoveIs ==
    ASSUME TypeOK, NEW t \in Timer, uxListRemove(t)
    PROVE  /\ list' \in [Timer -> {"current", "overflow", "none"}] /\ value' \in [Timer -> Time]
           /\ list'[t] = "none"
           /\ \A u \in Timer \ {t} : list'[u] = list[u] /\ value'[u] = value[u]
<1>1. /\ list \in [Timer -> {"current", "overflow", "none"}] /\ value \in [Timer -> Time]
      /\ 0 \in Time
  BY ModulusIs DEF TypeOK, Time
<1> QED
  BY <1>1 DEF uxListRemove

(* A callback that is not early, of a timer that is not too late.          *)
LEMMA CallBackIs ==
    ASSUME TypeOK, NEW t \in Timer, NEW d \in -Late .. 0, CallBack(t, d)
    PROVE  /\ due' \in [Timer -> (-Late .. Modulus) \cup {NULL}]
           /\ t \in AutoReload => due'[t] = d + period[t] /\ due'[t] # NULL
           /\ t \notin AutoReload => due'[t] = NULL
           /\ \A u \in Timer \ {t} : due'[u] = due[u]
           /\ NeverEarly'
<1>1. /\ period[t] \in Nat /\ 0 < period[t] /\ period[t] < Modulus
      /\ Modulus \in Nat /\ Late \in Nat
  BY TimerTypes
<1>2. d \in Int /\ d + period[t] \in -Late .. Modulus /\ d <= 0
  BY <1>1
<1>3. due \in [Timer -> (-Late .. Modulus) \cup {NULL}]
  BY DEF TypeOK
<1>4. d + period[t] # NULL
  BY <1>2, NullAssumption
<1>5. NeverEarly'
  BY <1>2 DEF CallBack, NeverEarly
<1> QED
  BY <1>2, <1>3, <1>4, <1>5 DEF CallBack

(* The step of the task that looks at the lists, with its sample.          *)
LEMMA HeadIs ==
    ASSUME TypeOK, InList("current") # {}
    PROVE  (CHOOSE t \in Heads : TRUE) \in Heads
<1> DEFINE Values == {value[t] : t \in InList("current")}
<1>1. Values \in SUBSET Nat /\ Values # {}
  BY TimerTypes DEF InList
<1>2. PICK m \in Values : \A n \in Values : m <= n
  BY <1>1, Least
<1>3. PICK t \in InList("current") : value[t] = m
  BY <1>2
<1>4. t \in Heads
  BY <1>2, <1>3 DEF Heads
<1> QED
  BY <1>4

-----------------------------------------------------------------------------
(* The steps of prvTimerTask. *)

(* No timer, command or sample changes.                                    *)
LEMMA QuietKeeps ==
    ASSUME TimeInv, TypeOK', UNCHANGED <<xTickCount, timerVars, msg, xLastTime, xTimeNow>>,
           pc # "switch", pc' \notin {"switch", "apply", "expire"}, QueueDated', NeverEarly'
    PROVE  TimeInv'
<1>1. Now' = Now
  BY NowStays
<1>2. Promised'
  <2>1. \A u \in Timer \ {} : KeepsPromise(u)'
    BY <1>1, OthersKeepPromise DEF TimeInv, timerVars
  <2> QED
    BY <2>1 DEF Promised
<1>3. MessageDated'
  BY DEF TimeInv, MessageDated, Dated, timerVars
<1>4. SampleKept'
  BY DEF SampleKept
<1> QED
  BY <1>2, <1>3, <1>4 DEF TimeInv

LEMMA LoopKeeps ==
    ASSUME TimeInv, prvProcessTimerOrBlockTask
    PROVE  TimeInv'
<1>1. /\ pc = "loop" /\ msg = NULL /\ msg' = NULL
      /\ UNCHANGED <<xTickCount, xTimerQueue, list, value, period, due, failed>>
      /\ pc' \in {"switch", "expire", "commands", "blocked"} /\ called' = NULL
      /\ xTimeNow' = IF xTickCount < xLastTime \/ Expired THEN xTickCount ELSE 0
  BY DEF prvProcessTimerOrBlockTask, timerVars, TimeInv, TypeOK
<1>2. /\ Modulus \in Nat \ {0} /\ xTickCount \in Time /\ xLastTime \in Time
      /\ xTickCount \in Nat /\ xTickCount < Modulus /\ xLastTime \in Nat
  BY ModulusIs DEF TimeInv, TypeOK, Time
<1>3. Now = IF xTickCount >= xLastTime THEN xTickCount ELSE xTickCount + Modulus
  BY <1>1, NowIs DEF TimeInv
<1>4. CASE xTickCount < xLastTime
  <2>1. pc' = "switch" /\ xTimeNow' = xTickCount /\ UNCHANGED <<xLastTime, wait>>
    BY <1>4, <1>1 DEF prvProcessTimerOrBlockTask
  <2>2. TypeOK'
    BY <1>1, <1>2, <2>1 DEF TimeInv, TypeOK
  <2>3. Now' = Now
    <3>1. Minus(xTickCount, xTickCount) = 0
      BY <1>2, MinusIs
    <3>2. Now' = Modulus + xTickCount + 0
      BY <1>1, <2>1, <3>1 DEF Now, Sampled
    <3> QED
      BY <1>2, <1>3, <1>4, <3>2
  <2>4. Promised'
    <3> SUFFICES ASSUME NEW u \in Timer PROVE KeepsPromise(u)'
      BY DEF Promised
    <3>1. KeepsPromise(u) /\ ExpiresAt(u)' = ExpiresAt(u)
      BY <1>1 DEF TimeInv, Promised, ExpiresAt
    <3> QED
      BY <1>1, <2>1, <2>3, <3>1 DEF KeepsPromise
  <2>5. QueueDated' /\ MessageDated' /\ SampleKept' /\ NeverEarly'
    BY <1>1, <2>1, QueueStays DEF TimeInv, MessageDated, SampleKept, NeverEarly
  <2> QED
    BY <2>2, <2>4, <2>5 DEF TimeInv
<1>5. CASE ~(xTickCount < xLastTime)
  <2>1. /\ xLastTime' = xTickCount /\ pc' # "switch"
        /\ pc' = "expire" => Expired
        /\ wait' = wait \/ (wait' = TicksToWait(xTickCount) /\ ~Expired)
    BY <1>5 DEF prvProcessTimerOrBlockTask
  <2>2. wait' \in 0 .. Forever
    <3>1. CASE wait' = wait
      BY <3>1 DEF TimeInv, TypeOK
    <3>2. CASE wait' = TicksToWait(xTickCount) /\ ~Expired
      <4>1. CASE InList("current") # {}
        <5> DEFINE h == CHOOSE t \in Heads : TRUE
        <5>1. h \in Heads /\ h \in Timer
          BY <4>1, HeadIs DEF TimeInv, Heads, InList
        <5> HIDE DEF h
        <5>2. value[h] \in Nat /\ value[h] < Modulus /\ ~(value[h] <= xTickCount)
          BY <3>2, <5>1, TimerTypes DEF TimeInv, Expired
        <5>3. wait' = value[h] - xTickCount
          BY <3>2, <4>1 DEF TicksToWait, h
        <5> QED
          BY <1>2, <5>2, <5>3 DEF Forever
      <4>2. CASE InList("current") = {}
        <5>1. 0 \in Time
          BY <1>2 DEF Time
        <5>2. Minus(0, xTickCount) \in Time /\ Forever = Modulus
          BY <1>2, <5>1, MinusIs DEF Forever
        <5>3. wait' = Minus(0, xTickCount) \/ wait' = Forever
          BY <3>2, <4>2 DEF TicksToWait
        <5> QED
          BY <1>2, <5>2, <5>3 DEF Time
      <4> QED
        BY <4>1, <4>2
    <3> QED
      BY <2>1, <3>1, <3>2
  <2>3. xTimeNow' \in Time
    BY <1>1, <1>2 DEF Time
  <2>4. TypeOK'
    BY <1>1, <1>2, <2>1, <2>2, <2>3 DEF TimeInv, TypeOK
  <2>5. Now' = Now
    <3>1. Minus(xTickCount, xTickCount) = 0
      BY <1>2, MinusIs
    <3>2. Now' = 0 + xTickCount + 0
      BY <1>1, <2>1, <3>1 DEF Now, Sampled
    <3> QED
      BY <1>2, <1>3, <1>5, <3>2
  <2>6. Promised'
    <3> SUFFICES ASSUME NEW u \in Timer PROVE KeepsPromise(u)'
      BY DEF Promised
    <3>1. KeepsPromise(u) /\ ExpiresAt(u)' = ExpiresAt(u)
      BY <1>1 DEF TimeInv, Promised, ExpiresAt
    <3>2. /\ value[u] \in Nat /\ period[u] \in Nat
      BY TimerTypes DEF TimeInv
    <3>3. ExpiresAt(u) \in Nat
      BY <1>2, <3>2 DEF ExpiresAt
    <3>4. ExpiresAt(u) - xLastTime <= period[u] => ExpiresAt(u) - xTickCount <= period[u]
      BY <1>2, <1>5, <3>2, <3>3
    <3> QED
      BY <1>1, <2>1, <2>5, <3>1, <3>4 DEF KeepsPromise
  <2>7. SampleKept'
    <3>1. pc' = "expire" => xTimeNow' = xTickCount
      BY <1>1, <2>1
    <3>2. pc' = "expire" => \A t \in Heads : value[t] <= xTickCount
      <4> SUFFICES ASSUME Expired, NEW t \in Heads PROVE value[t] <= xTickCount
        BY <2>1
      <4>1. PICK h \in Heads : value[h] <= xTickCount
        BY DEF Expired
      <4>2. h \in Timer /\ t \in Timer /\ value[t] <= value[h]
        BY DEF Heads, InList
      <4>3. value[h] \in Nat /\ value[t] \in Nat
        BY <4>2, TimerTypes DEF TimeInv
      <4> QED
        BY <1>2, <4>1, <4>2, <4>3
    <3>3. Heads' = Heads
      BY <1>1 DEF Heads, InList
    <3> QED
      BY <1>1, <2>1, <3>1, <3>2, <3>3 DEF SampleKept
  <2>8. QueueDated' /\ MessageDated' /\ NeverEarly'
    BY <1>1, QueueStays DEF TimeInv, MessageDated, NeverEarly
  <2> QED
    BY <2>4, <2>6, <2>7, <2>8 DEF TimeInv
<1> QED
  BY <1>4, <1>5

LEMMA HeadIsTimer ==
    ASSUME NEW t \in Heads
    PROVE  t \in Timer /\ list[t] = "current"
BY DEF Heads, InList

(* A reload that is sent, or not.                                          *)
LEMMA ReloadKeeps ==
    ASSUME TimeInv, UNCHANGED xTickCount, NEW t \in Timer, NEW v, NEW a,
           Dated(Command("start", t, v, a)), SendReload(t, v, a)
    PROVE  QueueDated' /\ Len(xTimerQueue') <= QueueLength /\ failed' \in BOOLEAN
<1>1. QueueDated /\ Len(xTimerQueue) <= QueueLength /\ failed \in BOOLEAN
  BY DEF TimeInv, TypeOK
<1>2. SendCommand(Command("start", t, v, a)) /\ failed' = (failed \/ ~Accepted)
  BY DEF SendReload
<1>3. failed' \in BOOLEAN
  BY <1>1, <1>2, Zenon DEF Accepted
<1> QED
  BY <1>1, <1>2, <1>3, SendKeeps

LEMMA NoReloadKeeps ==
    ASSUME TimeInv, UNCHANGED xTickCount, NoReload
    PROVE  QueueDated' /\ Len(xTimerQueue') <= QueueLength /\ failed' \in BOOLEAN
BY QueueStays DEF TimeInv, TypeOK, NoReload

(* A head that has expired: it is not early, and not too late.             *)
LEMMA HeadExpired ==
    ASSUME TimeInv, NEW t \in Heads, pc \in {"expire", "switch"}
    PROVE  /\ due[t] # NULL /\ due[t] \in -Late .. 0 /\ due[t] = value[t] - Now
           /\ Dated(Command("start", t, value[t], -due[t]))
           /\ value[t] \in Time /\ value[t] \in Nat /\ Now \in Nat
<1>1. t \in Timer /\ list[t] = "current" /\ TypeOK /\ KeepsPromise(t)
  BY HeadIsTimer DEF TimeInv, Promised
<1>2. due[t] # NULL /\ due[t] = value[t] - Now
  BY <1>1, DueIs
<1>3. /\ value[t] \in Nat /\ value[t] < Modulus /\ value[t] \in Time
      /\ Late \in Nat /\ due[t] \in Int /\ -Late <= due[t]
      /\ Modulus \in Nat /\ xTickCount \in Nat /\ xLastTime \in Nat /\ xLastTime < Modulus
      /\ Now \in Nat
  BY <1>1, <1>2, TimerTypes, NowIs DEF TypeOK, Time
<1>4. value[t] <= Now
  <2>1. CASE pc = "switch"
    <3>1. Now = xTickCount + Modulus \/ Now = xTickCount + Modulus + Modulus
      BY <1>1, <2>1, NowIs
    <3> QED
      BY <1>3, <3>1
  <2>2. CASE pc = "expire"
    <3>1. value[t] <= xLastTime
      BY <2>2 DEF TimeInv, SampleKept
    <3>2. Now = IF xTickCount >= xLastTime THEN xTickCount ELSE xTickCount + Modulus
      BY <1>1, <2>2, NowIs
    <3> QED
      BY <1>3, <3>1, <3>2
  <2> QED
    BY <2>1, <2>2
<1>5. due[t] <= 0
  BY <1>2, <1>3, <1>4
<1>6. Dated(Command("start", t, value[t], -due[t]))
  BY <1>1, <1>5, ReloadDated
<1> QED
  BY <1>2, <1>3, <1>5, <1>6

LEMMA ExpireKeeps ==
    ASSUME TimeInv, NEW t \in Timer, prvProcessExpiredTimer(t)
    PROVE  TimeInv'
<1> DEFINE next == Plus(value[t], period[t])
           place == PlaceFor(next, xTimeNow, value[t], period[t])
<1>1. /\ pc = "expire" /\ pc' = "commands" /\ t \in Heads /\ xTimeNow' = 0
      /\ UNCHANGED <<xTickCount, period, xLastTime, msg, wait>> /\ CallBack(t, due[t])
      /\ TypeOK /\ msg = NULL
  BY DEF prvProcessExpiredTimer, TimeInv, TypeOK
<1>2. IF t \notin AutoReload THEN uxListRemove(t) /\ NoReload
      ELSE /\ prvInsertTimerInActiveList(t, next, place)
           /\ IF place = "now" THEN SendReload(t, value[t], -due[t]) ELSE NoReload
  BY DEF prvProcessExpiredTimer
<1>3. /\ due[t] # NULL /\ due[t] \in -Late .. 0 /\ due[t] = value[t] - Now
      /\ Dated(Command("start", t, value[t], -due[t]))
      /\ value[t] \in Time /\ value[t] \in Nat /\ Now \in Nat
  BY <1>1, HeadExpired
<1>4. /\ due' \in [Timer -> (-Late .. Modulus) \cup {NULL}]
      /\ t \in AutoReload => due'[t] = due[t] + period[t] /\ due'[t] # NULL
      /\ \A u \in Timer \ {t} : due'[u] = due[u]
      /\ NeverEarly'
  BY <1>1, <1>3, CallBackIs
<1>5. /\ period[t] \in Periods /\ period[t] \in Nat /\ 0 < period[t] /\ period[t] < Modulus
      /\ Modulus \in Nat \ {0} /\ Late \in Nat
      /\ xTimeNow = xLastTime /\ xTimeNow \in Time /\ xTimeNow \in Nat /\ value[t] <= xTimeNow
      /\ xTickCount \in Time /\ xTickCount \in Nat
  BY <1>1, TimerTypes DEF TimeInv, SampleKept, TypeOK, Time
<1>6. xTimeNow - value[t] \in 0 .. Late /\ Plus(value[t], xTimeNow - value[t]) = xTimeNow
  <2>1. Now = IF xTickCount >= xLastTime THEN xTickCount ELSE xTickCount + Modulus
    BY <1>1, NowIs
  <2>2. xTimeNow <= Now /\ xTimeNow < Modulus
    BY <1>5, <2>1 DEF Time
  <2>3. xTimeNow - value[t] \in 0 .. Late /\ xTimeNow - value[t] \in 0 .. Modulus
    BY <1>3, <1>5, <2>2
  <2>4. value[t] + (xTimeNow - value[t]) = xTimeNow
    BY <1>3, <1>5
  <2> QED
    BY <1>3, <1>5, <2>2, <2>3, <2>4, PlusIs
<1>7. /\ next \in Time /\ place \in {"now", "current", "overflow"}
      /\ place = "current" => next - xTimeNow = period[t] - (xTimeNow - value[t])
      /\ place = "overflow" => next + Modulus - xTimeNow = period[t] - (xTimeNow - value[t])
  BY <1>3, <1>5, <1>6, PlaceIsRight
<1>8. next \in Nat
  BY <1>5, <1>7 DEF Time
<1> HIDE DEF next, place
<1>9. /\ QueueDated' /\ Len(xTimerQueue') <= QueueLength /\ failed' \in BOOLEAN
  BY <1>1, <1>2, <1>3, ReloadKeeps, NoReloadKeeps
<1>10. /\ list' \in [Timer -> {"current", "overflow", "none"}] /\ value' \in [Timer -> Time]
       /\ \A u \in Timer \ {t} : list'[u] = list[u] /\ value'[u] = value[u]
       /\ t \notin AutoReload => list'[t] = "none"
       /\ t \in AutoReload => list'[t] = IF place = "now" THEN "none" ELSE place
       /\ t \in AutoReload /\ place # "now" => value'[t] = next
  <2>1. CASE t \in AutoReload
    BY <1>1, <1>2, <1>7, <2>1, InsertIs
  <2>2. CASE t \notin AutoReload
    BY <1>1, <1>2, <2>2, RemoveIs
  <2> QED
    BY <2>1, <2>2
<1>11. TypeOK'
  <2>1. 0 \in Time
    BY <1>5 DEF Time
  <2> QED
    BY <1>1, <1>4, <1>9, <1>10, <2>1 DEF TypeOK
<1>12. Now' = Now
  BY <1>1, NowStays
<1>13. KeepsPromise(t)'
  <2>1. CASE list'[t] = "none"
    BY <2>1 DEF KeepsPromise
  <2>2. CASE list'[t] = "current"
    <3>1. t \in AutoReload /\ place = "current" /\ value'[t] = next
      BY <1>7, <1>10, <2>2
    <3>2. next = value[t] + period[t]
      BY <1>3, <1>5, <1>7, <1>8, <3>1
    <3>3. due'[t] = next - Now /\ next - xLastTime <= period[t] /\ due'[t] # NULL
      BY <1>3, <1>4, <1>5, <1>8, <3>1, <3>2
    <3> QED
      BY <1>1, <1>3, <1>11, <1>12, <2>2, <3>1, <3>3, KeepsNext
  <2>3. CASE list'[t] = "overflow"
    <3>1. t \in AutoReload /\ place = "overflow" /\ value'[t] = next
      BY <1>7, <1>10, <2>3
    <3>2. next + Modulus = value[t] + period[t]
      BY <1>3, <1>5, <1>7, <1>8, <3>1
    <3>3. due'[t] = next + Modulus - Now /\ next + Modulus - xLastTime <= period[t] /\ due'[t] # NULL
      BY <1>3, <1>4, <1>5, <1>8, <3>1, <3>2
    <3> QED
      BY <1>1, <1>3, <1>11, <1>12, <2>3, <3>1, <3>3, KeepsNext
  <2> QED
    BY <1>10, <2>1, <2>2, <2>3
<1>14. Promised'
  <2>1. \A u \in Timer \ {t} : KeepsPromise(u)'
    BY <1>1, <1>4, <1>10, <1>12, OthersKeepPromise DEF TimeInv
  <2> QED
    BY <1>13, <2>1 DEF Promised
<1>15. MessageDated' /\ SampleKept'
  BY <1>1 DEF MessageDated, SampleKept
<1> QED
  BY <1>4, <1>9, <1>11, <1>14, <1>15 DEF TimeInv

LEMMA SwitchExpireKeeps ==
    ASSUME TimeInv, NEW t \in Timer, SwitchExpire(t)
    PROVE  TimeInv'
<1> DEFINE next == Plus(value[t], period[t])
           reloads == t \in AutoReload /\ ReloadsBeforeOverflow(t)
<1>1. /\ pc = "switch" /\ pc' = "switch" /\ t \in Heads /\ CallBack(t, due[t])
      /\ UNCHANGED <<xTickCount, period, xLastTime, xTimeNow, msg, wait>> /\ TypeOK
  BY DEF SwitchExpire, TimeInv, taskVars
<1>2. IF reloads THEN value' = [value EXCEPT ![t] = next] /\ UNCHANGED list /\ NoReload
      ELSE /\ uxListRemove(t)
           /\ IF t \in AutoReload THEN SendReload(t, value[t], -due[t]) ELSE NoReload
  BY DEF SwitchExpire
<1>3. /\ due[t] # NULL /\ due[t] \in -Late .. 0 /\ due[t] = value[t] - Now
      /\ Dated(Command("start", t, value[t], -due[t]))
      /\ value[t] \in Time /\ value[t] \in Nat /\ Now \in Nat
  BY <1>1, HeadExpired
<1>4. /\ due' \in [Timer -> (-Late .. Modulus) \cup {NULL}]
      /\ t \in AutoReload => due'[t] = due[t] + period[t] /\ due'[t] # NULL
      /\ \A u \in Timer \ {t} : due'[u] = due[u]
      /\ NeverEarly'
  BY <1>1, <1>3, CallBackIs
<1>5. /\ period[t] \in Nat /\ 0 < period[t] /\ period[t] < Modulus /\ period[t] \in 0 .. Modulus
      /\ Modulus \in Nat \ {0} /\ Late \in Nat /\ list[t] = "current"
      /\ list \in [Timer -> {"current", "overflow", "none"}] /\ value \in [Timer -> Time]
  BY <1>1, TimerTypes, HeadIsTimer DEF TypeOK
<1>6. next \in Time /\ (next > value[t] => next = value[t] + period[t])
  <2>1. next = IF value[t] + period[t] < Modulus THEN value[t] + period[t]
               ELSE value[t] + period[t] - Modulus
    BY <1>3, <1>5, PlusIs
  <2>2. next \in Time
    BY <1>3, <1>5, PlusIs
  <2> QED
    BY <1>3, <1>5, <2>1, <2>2
<1>7. reloads => next > value[t]
  BY DEF ReloadsBeforeOverflow
<1>8. next \in Nat
  BY <1>5, <1>6 DEF Time
<1> HIDE DEF next, reloads
<1>9. /\ QueueDated' /\ Len(xTimerQueue') <= QueueLength /\ failed' \in BOOLEAN
  BY <1>1, <1>2, <1>3, ReloadKeeps, NoReloadKeeps
<1>10. /\ list' \in [Timer -> {"current", "overflow", "none"}] /\ value' \in [Timer -> Time]
       /\ \A u \in Timer \ {t} : list'[u] = list[u] /\ value'[u] = value[u]
       /\ ~reloads => list'[t] = "none"
       /\ reloads => list'[t] = "current" /\ value'[t] = next
  <2>1. CASE reloads
    BY <1>2, <1>5, <1>6, <2>1
  <2>2. CASE ~reloads
    BY <1>1, <1>2, <2>2, RemoveIs
  <2> QED
    BY <2>1, <2>2
<1>11. TypeOK'
  BY <1>1, <1>4, <1>9, <1>10 DEF TypeOK
<1>12. Now' = Now
  BY <1>1, NowStays
<1>13. KeepsPromise(t)'
  <2>1. CASE ~reloads
    BY <1>10, <2>1 DEF KeepsPromise
  <2>2. CASE reloads
    <3>1. next = value[t] + period[t] /\ t \in AutoReload
      BY <1>6, <1>7, <2>2 DEF reloads
    <3>2. due'[t] = next - Now /\ due'[t] # NULL
      BY <1>3, <1>4, <1>5, <1>8, <3>1
    <3> QED
      BY <1>1, <1>3, <1>10, <1>11, <1>12, <2>2, <3>2, KeepsNext
  <2> QED
    BY <2>1, <2>2
<1>14. Promised'
  <2>1. \A u \in Timer \ {t} : KeepsPromise(u)'
    BY <1>1, <1>4, <1>10, <1>12, OthersKeepPromise DEF TimeInv
  <2> QED
    BY <1>13, <2>1 DEF Promised
<1>15. MessageDated'
  <2> SUFFICES ASSUME msg # NULL
               PROVE  /\ Dated(msg)' /\ list'[msg.timer] = "none"
                      /\ Minus(xTickCount, xTimeNow) <= msg.age
    BY <1>1 DEF MessageDated
  <2>1. /\ Dated(msg) /\ list[msg.timer] = "none" /\ Minus(xTickCount, xTimeNow) <= msg.age
    BY <1>1 DEF TimeInv, MessageDated
  <2>2. msg.timer \in Timer /\ msg.timer # t
    BY <1>5, <2>1 DEF Dated, Commands
  <2> QED
    BY <1>1, <1>10, <2>1, <2>2 DEF Dated
<1>16. SampleKept'
  BY <1>1 DEF TimeInv, SampleKept
<1> QED
  BY <1>4, <1>9, <1>11, <1>14, <1>15, <1>16 DEF TimeInv

LEMMA SwitchDoneKeeps ==
    ASSUME TimeInv, SwitchDone
    PROVE  TimeInv'
<1>1. /\ pc = "switch" /\ xLastTime' = xTimeNow /\ TypeOK
      /\ \A u \in Timer : list[u] # "current"
      /\ list' = [u \in Timer |-> IF list[u] = "overflow" THEN "current" ELSE "none"]
      /\ UNCHANGED <<xTickCount, xTimerQueue, value, period, due, msg, wait, failed>>
      /\ called' = NULL
      /\ \/ msg = NULL /\ pc' = "commands" /\ xTimeNow' = 0
         \/ msg # NULL /\ pc' = "apply" /\ xTimeNow' = xTimeNow
  BY DEF SwitchDone, TimeInv, InList
<1>2. /\ Modulus \in Nat \ {0} /\ xTimeNow \in Time /\ xTimeNow \in Nat /\ xLastTime \in Nat
      /\ xLastTime < Modulus /\ 0 \in Time
  BY <1>1, ModulusIs DEF TypeOK, Time
<1>3. TypeOK'
  BY <1>1, <1>2 DEF TypeOK
<1>4. Now \in Nat /\ Now' = Now - Modulus
  <2>1. Minus(xTickCount, xTimeNow) \in Nat /\ Now \in Nat
    <3>1. Minus(xTickCount, xTimeNow) \in Time
      BY <1>1, <1>2, MinusIs DEF TypeOK
    <3> QED
      BY <1>1, <1>2, <3>1, NowIs DEF Time
  <2>2. Minus(xTickCount, xTimeNow)' = Minus(xTickCount, xTimeNow) \/ pc' # "switch"
    BY <1>1
  <2>3. Now = Modulus + xTimeNow + Minus(xTickCount, xTimeNow)
    BY <1>1 DEF Now, Sampled
  <2>4. Now' = 0 + xTimeNow + Minus(xTickCount, xTimeNow)
    BY <1>1 DEF Now, Sampled, Minus
  <2> QED
    BY <1>2, <2>1, <2>3, <2>4
<1>5. Promised'
  <2> SUFFICES ASSUME NEW u \in Timer PROVE KeepsPromise(u)'
    BY DEF Promised
  <2>1. KeepsPromise(u) /\ list[u] \in {"current", "overflow", "none"}
    BY <1>1 DEF TimeInv, Promised, TypeOK
  <2>2. CASE list[u] = "none"
    <3>1. list'[u] = "none"
      BY <1>1, <2>2
    <3> QED
      BY <3>1 DEF KeepsPromise
  <2>3. CASE list[u] = "overflow"
    <3>1. /\ due[u] # NULL /\ due[u] = value[u] + Modulus - Now
          /\ value[u] + Modulus - xLastTime <= period[u]
      BY <1>1, <2>1, <2>3, DueIs
    <3>2. value[u] \in Nat /\ period[u] \in Nat /\ list'[u] = "current"
      BY <1>1, <2>3, TimerTypes
    <3>3. Now - Modulus \in Int
      BY <1>2, <1>4
    <3>4. due[u] = value[u] - (Now - Modulus) /\ value[u] - xTimeNow <= period[u]
      BY <1>2, <1>4, <3>1, <3>2
    <3>5. due'[u] # NULL /\ due'[u] = value'[u] - (Now - Modulus) /\ value'[u] - xLastTime' <= period'[u]
      BY <1>1, <3>1, <3>4
    <3> QED
      BY <1>3, <1>4, <3>2, <3>3, <3>5, KeepsNext
  <2> QED
    BY <1>1, <2>1, <2>2, <2>3
<1>6. MessageDated'
  <2> SUFFICES ASSUME msg # NULL
               PROVE  /\ Dated(msg)' /\ list'[msg.timer] = "none"
                      /\ Minus(xTickCount, xTimeNow)' <= msg.age
    BY <1>1 DEF MessageDated
  <2>1. /\ Dated(msg) /\ list[msg.timer] = "none" /\ Minus(xTickCount, xTimeNow) <= msg.age
    BY <1>1 DEF TimeInv, MessageDated
  <2>2. msg.timer \in Timer
    BY <2>1 DEF Dated, Commands
  <2> QED
    BY <1>1, <2>1, <2>2 DEF Dated, Minus
<1>7. QueueDated' /\ SampleKept' /\ NeverEarly'
  BY <1>1, QueueStays DEF TimeInv, SampleKept, NeverEarly
<1> QED
  BY <1>3, <1>5, <1>6, <1>7 DEF TimeInv

LEMMA ReceiveKeeps ==
    ASSUME TimeInv, ReceiveMessage
    PROVE  TimeInv'
<1>t. PICK t : t = Head(xTimerQueue).timer
  OBVIOUS
<1>1. /\ pc = "commands" /\ pc' = "sample" /\ TypeOK /\ msg = NULL
      /\ xTimerQueue # <<>> /\ xTimerQueue' = Tail(xTimerQueue)
      /\ msg' = Head(xTimerQueue) /\ uxListRemove(t)
      /\ UNCHANGED <<xTickCount, period, due, xLastTime, xTimeNow, wait, failed>> /\ called' = NULL
  BY <1>t DEF ReceiveMessage, ReceiveCommand, TimeInv, TypeOK
<1>2. /\ xTimerQueue \in Seq(Commands) /\ \A i \in DOMAIN xTimerQueue : Dated(xTimerQueue[i])
      /\ Len(xTimerQueue) <= QueueLength /\ QueueLength \in Nat
  BY QueueLengthAssumption DEF TimeInv, QueueDated, TypeOK
<1>3. Head(xTimerQueue) = xTimerQueue[1] /\ 1 \in DOMAIN xTimerQueue /\ Dated(Head(xTimerQueue))
  BY <1>1, <1>2
<1>4. Head(xTimerQueue) \in Commands /\ t \in Timer /\ msg' # NULL
  BY <1>t, <1>1, <1>3, NullAssumption DEF Dated, Commands
<1>5. /\ list' \in [Timer -> {"current", "overflow", "none"}] /\ value' \in [Timer -> Time]
      /\ list'[t] = "none" /\ \A u \in Timer \ {t} : list'[u] = list[u] /\ value'[u] = value[u]
  BY <1>1, <1>4, RemoveIs
<1>6. QueueDated' /\ Len(xTimerQueue') <= QueueLength
  <2>1. /\ xTimerQueue' \in Seq(Commands) /\ Len(xTimerQueue') = Len(xTimerQueue) - 1
        /\ \A i \in DOMAIN xTimerQueue' :
               i + 1 \in DOMAIN xTimerQueue /\ xTimerQueue'[i] = xTimerQueue[i + 1]
    BY <1>1, <1>2
  <2>2. \A i \in DOMAIN xTimerQueue' : Dated(xTimerQueue'[i])
    BY <1>2, <2>1
  <2>3. Len(xTimerQueue) \in Nat
    BY <1>2
  <2>4. Len(xTimerQueue') <= QueueLength
    BY <1>2, <2>1, <2>3
  <2> QED
    BY <1>1, <2>1, <2>2, <2>4 DEF QueueDated, Dated
<1>7. TypeOK'
  BY <1>1, <1>4, <1>5, <1>6 DEF TypeOK
<1>8. Now' = Now
  BY <1>1, NowStays
<1>9. Promised'
  <2>1. \A u \in Timer \ {t} : KeepsPromise(u)'
    BY <1>1, <1>4, <1>5, <1>8, OthersKeepPromise DEF TimeInv
  <2>2. KeepsPromise(t)'
    BY <1>5 DEF KeepsPromise
  <2> QED
    BY <2>1, <2>2 DEF Promised
<1>10. MessageDated'
  BY <1>t, <1>1, <1>3, <1>5 DEF MessageDated, Dated
<1>11. SampleKept' /\ NeverEarly'
  BY <1>1 DEF SampleKept, NeverEarly
<1> QED
  BY <1>6, <1>7, <1>9, <1>10, <1>11 DEF TimeInv

LEMMA WaitingKeeps ==
    ASSUME TimeInv, Unblock \/ NoMoreMessages
    PROVE  TimeInv'
<1>1. /\ UNCHANGED <<xTickCount, xTimerQueue, timerVars, xLastTime, xTimeNow, msg, failed>>
      /\ called' = NULL /\ wait' \in {wait, Forever}
      /\ pc \in {"blocked", "commands"} /\ pc' \in {"commands", "loop"}
  BY DEF Unblock, NoMoreMessages
<1>2. wait' \in 0 .. Forever
  BY <1>1, ModulusIs DEF TimeInv, TypeOK, Forever
<1>3. TypeOK'
  BY <1>1, <1>2 DEF TimeInv, TypeOK, timerVars
<1>4. QueueDated' /\ NeverEarly'
  BY <1>1, QueueStays DEF TimeInv, NeverEarly
<1> QED
  BY <1>1, <1>3, <1>4, QuietKeeps

LEMMA SampleKeeps ==
    ASSUME TimeInv, SampleTime
    PROVE  TimeInv'
<1>1. /\ pc = "sample" /\ msg # NULL /\ xTimeNow' = xTickCount
      /\ UNCHANGED <<xTickCount, xTimerQueue, list, value, period, due, msg, wait, failed>>
      /\ called' = NULL
      /\ \/ xTickCount < xLastTime /\ pc' = "switch" /\ xLastTime' = xLastTime
         \/ ~(xTickCount < xLastTime) /\ pc' = "apply" /\ xLastTime' = xTickCount
  BY DEF SampleTime, timerVars, TimeInv, TypeOK
<1>2. /\ Modulus \in Nat \ {0} /\ xTickCount \in Time /\ xLastTime \in Time
      /\ xTickCount \in Nat /\ xTickCount < Modulus /\ xLastTime \in Nat
  BY ModulusIs DEF TimeInv, TypeOK, Time
<1>3. Now = IF xTickCount >= xLastTime THEN xTickCount ELSE xTickCount + Modulus
  BY <1>1, NowIs DEF TimeInv
<1>4. TypeOK'
  BY <1>1, <1>2 DEF TimeInv, TypeOK
<1>5. Minus(xTickCount, xTickCount) = 0
  BY <1>2, MinusIs
<1>6. Now' = Now
  <2>1. CASE pc' = "switch"
    <3>1. Now' = Modulus + xTickCount + 0
      BY <1>1, <1>5, <2>1 DEF Now, Sampled
    <3> QED
      BY <1>1, <1>2, <1>3, <2>1, <3>1
  <2>2. CASE pc' = "apply"
    <3>1. Now' = 0 + xTickCount + 0
      BY <1>1, <1>5, <2>2 DEF Now, Sampled
    <3> QED
      BY <1>1, <1>2, <1>3, <2>2, <3>1
  <2> QED
    BY <1>1, <2>1, <2>2
<1>7. Promised'
  <2> SUFFICES ASSUME NEW u \in Timer PROVE KeepsPromise(u)'
    BY DEF Promised
  <2>1. KeepsPromise(u) /\ ExpiresAt(u)' = ExpiresAt(u)
    BY <1>1 DEF TimeInv, Promised, ExpiresAt
  <2>2. /\ value[u] \in Nat /\ period[u] \in Nat
    BY TimerTypes DEF TimeInv
  <2>3. ExpiresAt(u) \in Nat
    BY <1>2, <2>2 DEF ExpiresAt
  <2>4. xLastTime <= xTickCount /\ ExpiresAt(u) - xLastTime <= period[u]
           => ExpiresAt(u) - xTickCount <= period[u]
    BY <1>2, <2>2, <2>3
  <2>5. CASE pc' = "switch"
    BY <1>1, <1>6, <2>1, <2>5 DEF KeepsPromise
  <2>6. CASE pc' = "apply"
    <3>1. xLastTime <= xTickCount
      BY <1>1, <1>2, <2>6
    <3> QED
      BY <1>1, <1>6, <2>1, <2>4, <2>6, <3>1 DEF KeepsPromise
  <2> QED
    BY <1>1, <2>5, <2>6
<1>8. MessageDated'
  <2>1. Dated(msg) /\ list[msg.timer] = "none"
    BY <1>1 DEF TimeInv, MessageDated
  <2>2. msg.age \in Nat
    BY <1>2, <2>1 DEF Dated, Commands, Time
  <2>3. Minus(xTickCount, xTimeNow)' <= msg.age
    BY <1>1, <1>5, <2>2 DEF Minus
  <2> QED
    BY <1>1, <2>1, <2>3 DEF MessageDated, Dated
<1>9. QueueDated' /\ SampleKept' /\ NeverEarly'
  BY <1>1, QueueStays DEF TimeInv, SampleKept, NeverEarly
<1> QED
  BY <1>4, <1>7, <1>8, <1>9 DEF TimeInv

-----------------------------------------------------------------------------
(* prvProcessReceivedCommand. *)

(* A sample taken since a command was given is younger than the command.   *)
LEMMA SampleIsPlus ==
    ASSUME Modulus \in Nat \ {0}, NEW v \in Time, NEW x \in Time, NEW s \in Time,
           NEW a \in 0 .. Modulus, Plus(v, a) = x, Minus(x, s) <= a
    PROVE  a - Minus(x, s) \in 0 .. Modulus /\ Plus(v, a - Minus(x, s)) = s
<1> DEFINE e == Minus(x, s)
<1>1. /\ e \in Time /\ e = IF x >= s THEN x - s ELSE x - s + Modulus
  BY MinusIs
<1>2. x = IF v + a < Modulus THEN v + a ELSE v + a - Modulus
  BY PlusIs
<1>3. v \in Nat /\ x \in Nat /\ s \in Nat /\ e \in Nat /\ v < Modulus /\ s < Modulus /\ e <= a
  BY <1>1 DEF Time
<1> HIDE DEF e
<1> DEFINE d == a - e
<1>4. d \in 0 .. Modulus /\ d = a - e
  BY <1>3
<1>5. Plus(v, d) = IF v + d < Modulus THEN v + d ELSE v + d - Modulus
  BY <1>4, PlusIs
<1> HIDE DEF d
<1>6. s = IF v + d < Modulus THEN v + d ELSE v + d - Modulus
  BY <1>1, <1>2, <1>3, <1>4
<1> QED
  BY <1>4, <1>5, <1>6 DEF d, e

LEMMA PlusPlus ==
    ASSUME Modulus \in Nat \ {0}, NEW v \in Time, NEW a \in 0 .. Modulus, NEW p \in 0 .. a
    PROVE  Plus(v, p) \in Time /\ Plus(Plus(v, p), a - p) = Plus(v, a)
<1>1. p \in 0 .. Modulus /\ a - p \in 0 .. Modulus /\ v \in Nat /\ v < Modulus
  BY DEF Time
<1> DEFINE w == Plus(v, p)
           b == a - p
<1>2. w \in Time /\ w = IF v + p < Modulus THEN v + p ELSE v + p - Modulus
  BY <1>1, PlusIs
<1>3. b \in 0 .. Modulus /\ b = a - p
  BY <1>1
<1>4. Plus(v, a) = IF v + a < Modulus THEN v + a ELSE v + a - Modulus
  BY PlusIs
<1> HIDE DEF w, b
<1>5. Plus(w, b) = IF w + b < Modulus THEN w + b ELSE w + b - Modulus
  BY <1>2, <1>3, PlusIs
<1>6. w \in Nat /\ w < Modulus
  BY <1>2 DEF Time
<1>7. Plus(w, b) = Plus(v, a)
  BY <1>1, <1>2, <1>3, <1>4, <1>5, <1>6
<1> QED
  BY <1>2, <1>7 DEF w, b

(* What the task knows of the command it executes.                         *)
LEMMA ApplyContext ==
    ASSUME TimeInv, pc = "apply"
    PROVE  /\ TypeOK /\ msg # NULL /\ Dated(msg) /\ list[msg.timer] = "none"
           /\ msg.timer \in Timer /\ msg.value \in Time /\ msg.age \in Nat /\ msg.age <= Late
           /\ xTimeNow = xLastTime /\ xTimeNow \in Time /\ xTimeNow \in Nat
           /\ Minus(xTickCount, xTimeNow) \in Nat /\ Minus(xTickCount, xTimeNow) <= msg.age
           /\ Now = xTimeNow + Minus(xTickCount, xTimeNow) /\ Modulus \in Nat \ {0}
<1>1. TypeOK /\ Modulus \in Nat \ {0} /\ xTimeNow \in Time /\ xTickCount \in Time
  BY ModulusIs DEF TimeInv, TypeOK
<1>2. msg # NULL
  BY DEF TimeInv, TypeOK
<1>3. /\ Dated(msg) /\ list[msg.timer] = "none"
      /\ Minus(xTickCount, xTimeNow) <= msg.age
  BY <1>2 DEF TimeInv, MessageDated
<1>4. /\ msg.timer \in Timer /\ msg.value \in Time /\ msg.age \in Nat /\ msg.age <= Late
  BY <1>1, <1>3 DEF Dated, Commands, Time
<1>5. Minus(xTickCount, xTimeNow) \in Time
  BY <1>1, MinusIs
<1>6. xTimeNow \in Nat /\ Minus(xTickCount, xTimeNow) \in Nat
  BY <1>1, <1>5 DEF Time
<1>7. xTimeNow = xLastTime
  BY DEF TimeInv, SampleKept
<1>8. Now = 0 + xTimeNow + Minus(xTickCount, xTimeNow)
  BY <1>7 DEF Now, Sampled
<1> QED
  BY <1>1, <1>2, <1>3, <1>4, <1>6, <1>7, <1>8

(* The command done, and its timer's promise kept.                         *)
LEMMA ApplyDone ==
    ASSUME TimeInv, pc = "apply", pc' = "commands", msg' = NULL, xTimeNow' = 0,
           UNCHANGED <<xTickCount, xLastTime, wait>>, NEW t \in Timer,
           list' \in [Timer -> {"current", "overflow", "none"}], value' \in [Timer -> Time],
           period' \in [Timer -> Periods],
           due' \in [Timer -> (-Late .. Modulus) \cup {NULL}],
           \A u \in Timer \ {t} : /\ list'[u] = list[u] /\ value'[u] = value[u]
                                  /\ due'[u] = due[u] /\ period'[u] = period[u],
           QueueDated', Len(xTimerQueue') <= QueueLength, failed' \in BOOLEAN, NeverEarly',
           TypeOK' => KeepsPromise(t)'
    PROVE  TimeInv'
<1>1. TypeOK /\ 0 \in Time
  BY ModulusIs DEF TimeInv, Time
<1>2. TypeOK'
  BY <1>1 DEF TypeOK
<1>3. Now' = Now
  BY NowStays
<1>4. Promised'
  <2>1. \A u \in Timer \ {t} : KeepsPromise(u)'
    BY <1>3, OthersKeepPromise DEF TimeInv
  <2> QED
    BY <1>2, <2>1 DEF Promised
<1>5. MessageDated' /\ SampleKept'
  BY DEF MessageDated, SampleKept
<1> QED
  BY <1>2, <1>4, <1>5 DEF TimeInv

LEMMA ApplyStartKeeps ==
    ASSUME TimeInv, prvProcessReceivedCommand, ApplyStart
    PROVE  TimeInv'
<1>t. PICK t : t = msg.timer
  OBVIOUS
<1>v. PICK v : v = msg.value
  OBVIOUS
<1>a. PICK age : age = msg.age
  OBVIOUS
<1>p. PICK p : p = period[t]
  OBVIOUS
<1>e. PICK e : e = Minus(xTickCount, xTimeNow)
  OBVIOUS
<1>x. PICK expiry : expiry = Plus(v, p)
  OBVIOUS
<1>c. PICK place : place = PlaceFor(expiry, xTimeNow, v, p)
  OBVIOUS
<1>1. /\ pc = "apply" /\ pc' = "commands" /\ msg' = NULL /\ xTimeNow' = 0
      /\ UNCHANGED <<xTickCount, xLastTime, wait, period>>
      /\ msg.op = "start" /\ prvInsertTimerInActiveList(t, expiry, place)
      /\ IF place = "now"
           THEN /\ CallBack(t, p - age)
                /\ IF t \in AutoReload THEN SendReload(t, expiry, -(p - age)) ELSE NoReload
           ELSE called' = NULL /\ due' = [due EXCEPT ![t] = p - age] /\ NoReload
  BY <1>t, <1>v, <1>a, <1>p, <1>x, <1>c DEF prvProcessReceivedCommand, ApplyStart
<1>2. /\ TypeOK /\ msg # NULL /\ Dated(msg) /\ list[t] = "none"
      /\ t \in Timer /\ v \in Time /\ age \in Nat /\ age <= Late
      /\ xTimeNow = xLastTime /\ xTimeNow \in Time /\ xTimeNow \in Nat
      /\ e \in Nat /\ e <= age /\ Now = xTimeNow + e /\ Modulus \in Nat \ {0}
  BY <1>1, <1>t, <1>v, <1>a, <1>e, ApplyContext
<1>3. /\ p \in Periods /\ p \in Nat /\ 0 < p /\ p < Modulus /\ p + Late < Modulus /\ Late \in Nat
      /\ Late < Modulus
  BY <1>2, <1>p, TimerTypes
<1>4. Plus(v, age) = xTickCount
  BY <1>1, <1>2, <1>v, <1>a DEF Dated
<1>5. age - e \in 0 .. Late /\ Plus(v, age - e) = xTimeNow
  <2>1. xTickCount \in Time /\ age \in 0 .. Modulus /\ age - e \in 0 .. Late
    BY <1>2, <1>3 DEF TypeOK
  <2>2. Plus(v, age - Minus(xTickCount, xTimeNow)) = xTimeNow
    BY <1>2, <1>4, <1>e, <2>1, SampleIsPlus
  <2> QED
    BY <1>e, <2>1, <2>2
<1>6. /\ expiry \in Time /\ place \in {"now", "current", "overflow"}
      /\ place = "now" => p <= age - e
      /\ place = "current" => expiry - xTimeNow = p - (age - e)
      /\ place = "overflow" => expiry + Modulus - xTimeNow = p - (age - e)
  BY <1>2, <1>3, <1>5, <1>x, <1>c, PlaceIsRight
<1>7. expiry \in Nat
  BY <1>2, <1>6 DEF Time
<1>8. p - age \in Int /\ p - age \in -Late .. Modulus /\ p - age # NULL
  <2>1. p - age \in Int /\ p - age \in -Late .. Modulus
    BY <1>2, <1>3
  <2> QED
    BY <2>1, NullAssumption
<1>9. /\ list' \in [Timer -> {"current", "overflow", "none"}] /\ value' \in [Timer -> Time]
      /\ list'[t] = IF place = "now" THEN "none" ELSE place
      /\ place # "now" => value'[t] = expiry
      /\ \A u \in Timer \ {t} : list'[u] = list[u] /\ value'[u] = value[u]
  BY <1>1, <1>2, <1>6, InsertIs
<1>10. /\ due' \in [Timer -> (-Late .. Modulus) \cup {NULL}] /\ NeverEarly'
       /\ \A u \in Timer \ {t} : due'[u] = due[u]
       /\ place # "now" => due'[t] = p - age
  <2>1. CASE place = "now"
    <3>1. p - age \in -Late .. 0
      BY <1>2, <1>3, <1>6, <2>1
    <3> QED
      BY <1>1, <1>2, <2>1, <3>1, CallBackIs
  <2>2. CASE place # "now"
    BY <1>1, <1>2, <1>8, <2>2 DEF TypeOK, NeverEarly
  <2> QED
    BY <2>1, <2>2
<1>11. QueueDated' /\ Len(xTimerQueue') <= QueueLength /\ failed' \in BOOLEAN
  <2>1. CASE place = "now" /\ t \in AutoReload
    <3>1. p \in 0 .. age /\ age \in 0 .. Modulus
      BY <1>2, <1>3, <1>6, <2>1
    <3>2. Plus(expiry, age - p) = xTickCount
      BY <1>2, <1>4, <1>x, <3>1, PlusPlus
    <3>3. -(p - age) = age - p /\ age - p \in Time /\ age - p <= Late
      BY <1>2, <1>3, <3>1 DEF Time
    <3>4. Dated(Command("start", t, expiry, age - p))
      BY <1>2, <1>6, <3>2, <3>3 DEF Dated, Command, Commands
    <3>5. SendReload(t, expiry, age - p)
      BY <1>1, <2>1, <3>3
    <3> QED
      BY <1>1, <1>2, <3>4, <3>5, ReloadKeeps
  <2>2. CASE ~(place = "now" /\ t \in AutoReload)
    BY <1>1, <2>2, NoReloadKeeps
  <2> QED
    BY <2>1, <2>2
<1>12. ASSUME TypeOK' PROVE KeepsPromise(t)'
  <2>1. Now' = Now
    BY <1>1, NowStays
  <2>2. CASE place = "now"
    BY <1>9, <2>2 DEF KeepsPromise
  <2>3. CASE place = "current"
    <3>1. due'[t] = value'[t] - Now /\ value'[t] - xLastTime' <= period'[t] /\ due'[t] # NULL
      BY <1>1, <1>2, <1>3, <1>5, <1>6, <1>7, <1>8, <1>9, <1>10, <1>p, <2>3
    <3> QED
      BY <1>2, <1>9, <1>12, <2>1, <2>3, <3>1, KeepsNext
  <2>4. CASE place = "overflow"
    <3>1. /\ due'[t] = value'[t] + Modulus - Now /\ due'[t] # NULL
          /\ value'[t] + Modulus - xLastTime' <= period'[t]
      BY <1>1, <1>2, <1>3, <1>5, <1>6, <1>7, <1>8, <1>9, <1>10, <1>p, <2>4
    <3> QED
      BY <1>2, <1>9, <1>12, <2>1, <2>4, <3>1, KeepsNext
  <2> QED
    BY <1>6, <2>2, <2>3, <2>4
<1>13. period' \in [Timer -> Periods]
  BY <1>1, <1>2 DEF TypeOK
<1> QED
  BY <1>1, <1>2, <1>9, <1>10, <1>11, <1>12, <1>13, ApplyDone

LEMMA ApplyStopKeeps ==
    ASSUME TimeInv, prvProcessReceivedCommand, ApplyStop
    PROVE  TimeInv'
<1>t. PICK t : t = msg.timer
  OBVIOUS
<1>1. /\ pc = "apply" /\ pc' = "commands" /\ msg' = NULL /\ xTimeNow' = 0
      /\ UNCHANGED <<xTickCount, xLastTime, wait, list, value, period>>
      /\ due' = [due EXCEPT ![t] = NULL] /\ called' = NULL /\ NoReload
  BY <1>t DEF prvProcessReceivedCommand, ApplyStop
<1>2. TypeOK /\ t \in Timer /\ list[t] = "none"
  BY <1>1, <1>t, ApplyContext
<1>3. QueueDated' /\ Len(xTimerQueue') <= QueueLength /\ failed' \in BOOLEAN
  BY <1>1, NoReloadKeeps
<1>4. /\ list' \in [Timer -> {"current", "overflow", "none"}] /\ value' \in [Timer -> Time]
      /\ period' \in [Timer -> Periods]
      /\ due' \in [Timer -> (-Late .. Modulus) \cup {NULL}]
      /\ \A u \in Timer \ {t} : due'[u] = due[u]
  BY <1>1, <1>2 DEF TypeOK
<1>5. KeepsPromise(t)' /\ NeverEarly'
  BY <1>1, <1>2 DEF KeepsPromise, NeverEarly
<1> QED
  BY <1>1, <1>2, <1>3, <1>4, <1>5, ApplyDone

LEMMA ApplyChangePeriodKeeps ==
    ASSUME TimeInv, prvProcessReceivedCommand, ApplyChangePeriod
    PROVE  TimeInv'
<1>t. PICK t : t = msg.timer
  OBVIOUS
<1>p. PICK p : p = msg.value
  OBVIOUS
<1>e. PICK e : e = Minus(xTickCount, xTimeNow)
  OBVIOUS
<1>x. PICK expiry : expiry = Plus(xTimeNow, p)
  OBVIOUS
<1>c. PICK place : place = PlaceFor(expiry, xTimeNow, xTimeNow, p)
  OBVIOUS
<1>1. /\ pc = "apply" /\ pc' = "commands" /\ msg' = NULL /\ xTimeNow' = 0
      /\ UNCHANGED <<xTickCount, xLastTime, wait>>
      /\ msg.op = "change" /\ period' = [period EXCEPT ![t] = p]
      /\ prvInsertTimerInActiveList(t, expiry, place)
      /\ due' = [due EXCEPT ![t] = p - e] /\ called' = NULL /\ NoReload
  BY <1>t, <1>p, <1>e, <1>x, <1>c DEF prvProcessReceivedCommand, ApplyChangePeriod
<1>2. /\ TypeOK /\ Dated(msg) /\ list[t] = "none" /\ t \in Timer
      /\ msg.age \in Nat /\ msg.age <= Late
      /\ xTimeNow = xLastTime /\ xTimeNow \in Time /\ xTimeNow \in Nat
      /\ e \in Nat /\ e <= msg.age /\ Now = xTimeNow + e /\ Modulus \in Nat \ {0}
  BY <1>1, <1>t, <1>e, ApplyContext
<1>3. p \in Periods
  BY <1>1, <1>2, <1>p DEF Dated
<1>4. /\ p \in Nat /\ 0 < p /\ p < Modulus /\ p + Late < Modulus /\ Late \in Nat
  BY <1>3, Sizes
<1>5. Plus(xTimeNow, 0) = xTimeNow /\ 0 \in 0 .. Late
  <2>1. 0 \in 0 .. Modulus /\ 0 \in 0 .. Late /\ xTimeNow + 0 = xTimeNow /\ xTimeNow < Modulus
    BY <1>2, <1>4 DEF Time
  <2> QED
    BY <1>2, <2>1, PlusIs
<1>6. /\ expiry \in Time /\ place \in {"now", "current", "overflow"}
      /\ place = "now" => p <= 0
      /\ place = "current" => expiry - xTimeNow = p - 0
      /\ place = "overflow" => expiry + Modulus - xTimeNow = p - 0
  BY <1>2, <1>3, <1>5, <1>x, <1>c, PlaceIsRight
<1>7. expiry \in Nat /\ place \in {"current", "overflow"}
  BY <1>2, <1>4, <1>6 DEF Time
<1>8. p - e \in Int /\ p - e \in -Late .. Modulus /\ p - e # NULL
  <2>1. p - e \in Int /\ p - e \in -Late .. Modulus
    BY <1>2, <1>4
  <2> QED
    BY <2>1, NullAssumption
<1>9. /\ list' \in [Timer -> {"current", "overflow", "none"}] /\ value' \in [Timer -> Time]
      /\ list'[t] = place /\ value'[t] = expiry
      /\ \A u \in Timer \ {t} : list'[u] = list[u] /\ value'[u] = value[u]
  BY <1>1, <1>2, <1>6, <1>7, InsertIs
<1>10. /\ due' \in [Timer -> (-Late .. Modulus) \cup {NULL}] /\ NeverEarly'
       /\ \A u \in Timer \ {t} : due'[u] = due[u]
       /\ due'[t] = p - e
  BY <1>1, <1>2, <1>8 DEF TypeOK, NeverEarly
<1>11. QueueDated' /\ Len(xTimerQueue') <= QueueLength /\ failed' \in BOOLEAN
  BY <1>1, NoReloadKeeps
<1>12. /\ period' \in [Timer -> Periods] /\ period'[t] = p
       /\ \A u \in Timer \ {t} : period'[u] = period[u]
  BY <1>1, <1>2, <1>3 DEF TypeOK
<1>13. ASSUME TypeOK' PROVE KeepsPromise(t)'
  <2>1. Now' = Now
    BY <1>1, NowStays
  <2>2. CASE place = "current"
    <3>1. due'[t] = value'[t] - Now /\ value'[t] - xLastTime' <= period'[t] /\ due'[t] # NULL
      BY <1>1, <1>2, <1>4, <1>6, <1>7, <1>8, <1>9, <1>10, <1>12, <2>2
    <3> QED
      BY <1>2, <1>9, <1>13, <2>1, <2>2, <3>1, KeepsNext
  <2>3. CASE place = "overflow"
    <3>1. /\ due'[t] = value'[t] + Modulus - Now /\ due'[t] # NULL
          /\ value'[t] + Modulus - xLastTime' <= period'[t]
      BY <1>1, <1>2, <1>4, <1>6, <1>7, <1>8, <1>9, <1>10, <1>12, <2>3
    <3> QED
      BY <1>2, <1>9, <1>13, <2>1, <2>3, <3>1, KeepsNext
  <2> QED
    BY <1>7, <2>2, <2>3
<1> QED
  BY <1>1, <1>2, <1>9, <1>10, <1>11, <1>12, <1>13, ApplyDone

-----------------------------------------------------------------------------
(* Beside the task: the tick, and the commands. *)

LEMMA MinusNext ==
    ASSUME Modulus \in Nat \ {0}, NEW x \in Time, NEW s \in Time, 1 <= Modulus
    PROVE  /\ Plus(x, 1) \in Time
           /\ Minus(Plus(x, 1), s) <= Minus(x, s) + 1
           /\ Minus(x, s) + 1 < Modulus => Minus(Plus(x, 1), s) = Minus(x, s) + 1
<1> DEFINE y == Plus(x, 1)
<1>1. 1 \in 0 .. Modulus
  OBVIOUS
<1>2. y \in Time /\ y = IF x + 1 < Modulus THEN x + 1 ELSE x + 1 - Modulus
  BY <1>1, PlusIs
<1>3. x \in Nat /\ x < Modulus /\ s \in Nat /\ s < Modulus
  BY DEF Time
<1>4. y \in Nat /\ y < Modulus
  BY <1>2 DEF Time
<1> HIDE DEF y
<1>5. /\ Minus(x, s) = IF x >= s THEN x - s ELSE x - s + Modulus
      /\ Minus(y, s) = IF y >= s THEN y - s ELSE y - s + Modulus
  BY <1>2, MinusIs
<1>6. /\ Minus(y, s) <= Minus(x, s) + 1
      /\ Minus(x, s) + 1 < Modulus => Minus(y, s) = Minus(x, s) + 1
  <2>1. CASE x + 1 < Modulus
    BY <1>2, <1>3, <1>4, <1>5, <2>1
  <2>2. CASE ~(x + 1 < Modulus)
    BY <1>2, <1>3, <1>4, <1>5, <2>2
  <2> QED
    BY <2>1, <2>2
<1> QED
  BY <1>2, <1>6 DEF y

(* A command grows older with the count.                                   *)
LEMMA DatedNext ==
    ASSUME TypeOK, NEW m, Dated(m), m.age < MaxAge, xTickCount' = Plus(xTickCount, 1)
    PROVE  /\ [m EXCEPT !.age = @ + 1] \in Commands /\ Dated([m EXCEPT !.age = @ + 1])'
           /\ [m EXCEPT !.age = @ + 1].timer = m.timer /\ [m EXCEPT !.age = @ + 1].op = m.op
           /\ [m EXCEPT !.age = @ + 1].age = m.age + 1
<1> DEFINE next == [m EXCEPT !.age = @ + 1]
<1>1. /\ m \in Commands /\ m.timer \in Timer /\ m.value \in Time /\ m.age \in Time
      /\ m.age \in Nat /\ m.age < Modulus
      /\ Modulus \in Nat \ {0} /\ MaxAge \in Nat /\ MaxAge <= Late /\ Late \in Nat /\ Late < Modulus
  <2>1. m.timer \in Timer /\ m \in Commands /\ m.value \in Time /\ m.age \in Time
    BY DEF Dated, Commands
  <2>2. period[m.timer] \in Periods
    BY <2>1 DEF TypeOK
  <2> QED
    BY <2>1, <2>2, Sizes DEF Time
<1>2. m.age + 1 \in Time /\ m.age + 1 <= Late /\ m.age + 1 \in 0 .. Modulus
  BY <1>1 DEF Time
<1>3. /\ next \in Commands /\ next.op = m.op /\ next.timer = m.timer /\ next.value = m.value
      /\ next.age = m.age + 1
  BY <1>1, <1>2 DEF Commands
<1>4. Plus(m.value, m.age + 1) = Plus(Plus(m.value, m.age), 1)
  <2>1. PICK a \in 0 .. Modulus : a = m.age + 1
    BY <1>2
  <2>2. m.age \in 0 .. a /\ a - m.age = 1
    BY <1>1, <2>1
  <2>3. Plus(Plus(m.value, m.age), a - m.age) = Plus(m.value, a)
    BY <1>1, <2>1, <2>2, PlusPlus
  <2> QED
    BY <2>1, <2>2, <2>3
<1>5. m.op = "start" => Plus(m.value, m.age + 1) = xTickCount'
  BY <1>4 DEF Dated
<1>6. m.op = "change" => m.value \in Periods
  BY DEF Dated
<1> HIDE DEF next
<1>7. Dated(next)'
  <2>1. next \in Commands /\ next.age <= Late
    BY <1>2, <1>3
  <2>2. next.op = "change" => next.value \in Periods
    BY <1>3, <1>6
  <2>3. next.op = "start" => Plus(next.value, next.age) = xTickCount'
    BY <1>3, <1>5
  <2> QED
    BY <2>1, <2>2, <2>3 DEF Dated, Plus
<1> QED
  BY <1>3, <1>7 DEF next

(* While a timer is in a list the count has not come round to the sample.  *)
LEMMA NowNext ==
    ASSUME TimeInv, Tick, NEW t \in Timer, list[t] # "none"
    PROVE  Now' = Now + 1
<1>1. /\ TypeOK /\ Modulus \in Nat \ {0} /\ 1 <= Modulus /\ xTickCount \in Time
      /\ xLastTime \in Time /\ xTimeNow \in Time /\ Sampled \in Time /\ Sampled \in Nat
  BY ModulusIs DEF TimeInv, TypeOK, Sampled, Time
<1>2. /\ xTickCount' = Plus(xTickCount, 1) /\ UNCHANGED <<xLastTime, xTimeNow>>
      /\ pc' = "switch" <=> pc = "switch"
      /\ pc = "switch" => msg # NULL
      /\ due[t] # NULL => due[t] > -MaxLag
      /\ msg # NULL => msg.age < MaxAge
  <2>1. pc' = "switch" <=> pc = "switch"
    BY DEF Tick
  <2> QED
    BY <2>1 DEF Tick
<1>3. KeepsPromise(t)
  BY DEF TimeInv, Promised
<1>4. /\ period[t] \in Periods /\ period[t] \in Nat /\ 0 < period[t] /\ value[t] \in Nat
      /\ MaxLag \in Nat /\ MaxAge \in Nat /\ Late \in Nat /\ MaxLag <= Late /\ MaxAge <= Late
      /\ period[t] + Late < Modulus
      /\ due[t] # NULL => due[t] \in Int
  BY <1>1, TimerTypes, Sizes
<1>5. PICK e : e = Minus(xTickCount, Sampled)
  OBVIOUS
<1>6. e \in Nat
  BY <1>1, <1>5, MinusIs DEF Time
<1>7. e + 1 < Modulus
  <2>1. CASE pc = "switch"
    <3>1. e <= msg.age /\ Dated(msg) /\ msg.age < MaxAge
      BY <1>2, <1>5, <2>1 DEF TimeInv, MessageDated, Sampled
    <3>2. msg.age \in Nat
      BY <1>1, <3>1 DEF Dated, Commands, Time
    <3> QED
      BY <1>1, <1>4, <1>6, <3>1, <3>2
  <2>2. CASE pc # "switch"
    <3>1. PICK x \in Int : x = ExpiresAt(t)
      BY <1>1, <1>4 DEF ExpiresAt
    <3>2. /\ due[t] # NULL /\ due[t] = x - Now /\ x - xLastTime <= period[t]
      BY <1>3, <2>2, <3>1 DEF KeepsPromise
    <3>3. Now = 0 + xLastTime + e /\ xLastTime \in Nat
      BY <1>1, <1>5, <2>2 DEF Now, Sampled, Time
    <3> QED
      BY <1>1, <1>2, <1>4, <1>6, <3>2, <3>3
  <2> QED
    BY <2>1, <2>2
<1>8. Minus(xTickCount', Sampled) = e + 1
  BY <1>1, <1>2, <1>5, <1>7, MinusNext
<1>9. Sampled' = Sampled
  BY <1>2 DEF Sampled
<1>10. Minus(xTickCount, Sampled)' = e + 1
  BY <1>8, <1>9 DEF Minus
<1>11. CASE pc = "switch"
  <2>1. Now = Modulus + Sampled + e
    BY <1>5, <1>11 DEF Now
  <2>2. Now' = Modulus + Sampled + (e + 1)
    BY <1>2, <1>9, <1>10, <1>11 DEF Now
  <2> QED
    BY <1>1, <1>6, <2>1, <2>2
<1>12. CASE pc # "switch"
  <2>1. Now = 0 + Sampled + e
    BY <1>5, <1>12 DEF Now
  <2>2. Now' = 0 + Sampled + (e + 1)
    BY <1>2, <1>9, <1>10, <1>12 DEF Now
  <2> QED
    BY <1>1, <1>6, <2>1, <2>2
<1> QED
  BY <1>11, <1>12

LEMMA TickKeeps ==
    ASSUME TimeInv, Tick
    PROVE  TimeInv'
<1>1. /\ xTickCount' = Plus(xTickCount, 1)
      /\ pc = "switch" => msg # NULL
      /\ xTimerQueue' = [i \in DOMAIN xTimerQueue |-> [xTimerQueue[i] EXCEPT !.age = @ + 1]]
      /\ msg' = IF msg = NULL THEN NULL ELSE [msg EXCEPT !.age = @ + 1]
      /\ due' = [t \in Timer |-> IF due[t] = NULL THEN NULL ELSE due[t] - 1]
      /\ UNCHANGED <<list, value, period, xLastTime, xTimeNow, failed>> /\ called' = NULL
  BY DEF Tick
<1>2. /\ pc' = pc \/ (pc = "blocked" /\ pc' = "commands")
      /\ wait' = wait \/ wait' = Forever \/ (~(wait <= 1) /\ wait' = wait - 1)
  <2>1. IF pc = "blocked" /\ wait # Forever
          THEN IF wait <= 1 THEN pc' = "commands" /\ wait' = Forever
               ELSE wait' = wait - 1 /\ UNCHANGED pc
          ELSE UNCHANGED <<pc, wait>>
    BY Zenon DEF Tick
  <2>2. CASE pc = "blocked" /\ wait # Forever
    <3>1. CASE wait <= 1
      BY <2>1, <2>2, <3>1, Zenon
    <3>2. CASE ~(wait <= 1)
      BY <2>1, <2>2, <3>2, Zenon
    <3> QED
      BY <3>1, <3>2, Zenon
  <2>3. CASE ~(pc = "blocked" /\ wait # Forever)
    BY <2>1, <2>3
  <2> QED
    BY <2>2, <2>3, Zenon
<1>3. /\ TypeOK /\ Modulus \in Nat \ {0} /\ 1 <= Modulus /\ xTickCount \in Time
      /\ xTimeNow \in Time /\ xTimeNow' = xTimeNow /\ Forever = Modulus
  BY <1>1, ModulusIs DEF TimeInv, TypeOK, Forever
<1>4. xTickCount' \in Time
  BY <1>1, <1>3, MinusNext
<1>5. ASSUME msg # NULL
      PROVE  /\ msg' \in Commands /\ Dated(msg)' /\ msg'.timer = msg.timer
             /\ msg'.age = msg.age + 1 /\ msg' # NULL /\ list[msg.timer] = "none"
  <2>1. msg.age < MaxAge /\ Dated(msg) /\ list[msg.timer] = "none"
    BY <1>5 DEF Tick, TimeInv, MessageDated
  <2>2. PICK m : m = msg
    OBVIOUS
  <2>3. /\ [m EXCEPT !.age = @ + 1] \in Commands /\ Dated([m EXCEPT !.age = @ + 1])'
        /\ [m EXCEPT !.age = @ + 1].timer = m.timer
        /\ [m EXCEPT !.age = @ + 1].age = m.age + 1
    BY <1>1, <1>3, <2>1, <2>2, DatedNext
  <2>4. msg' = [m EXCEPT !.age = @ + 1]
    BY <1>1, <1>5, <2>2
  <2>5. Dated(msg)'
    BY <2>3, <2>4 DEF Dated
  <2>6. msg' # NULL
    BY <2>3, <2>4, NullAssumption
  <2> QED
    BY <2>1, <2>2, <2>3, <2>4, <2>5, <2>6
<1>6. QueueDated' /\ Len(xTimerQueue') <= QueueLength
  <2>1. xTimerQueue \in Seq(Commands) /\ Len(xTimerQueue) <= QueueLength
    BY <1>3 DEF TimeInv, QueueDated, TypeOK
  <2>2. PICK q : q = xTimerQueue
    OBVIOUS
  <2>3. ASSUME NEW i \in DOMAIN q
        PROVE  /\ [q[i] EXCEPT !.age = @ + 1] \in Commands
               /\ Dated([q[i] EXCEPT !.age = @ + 1])'
    <3>1. Dated(q[i]) /\ q[i].age < MaxAge
      BY <2>2 DEF TimeInv, QueueDated, Tick
    <3> QED
      BY <1>1, <1>3, <3>1, DatedNext
  <2>4. xTimerQueue' = [i \in DOMAIN q |-> [q[i] EXCEPT !.age = @ + 1]]
    BY <1>1, <2>2
  <2>5. PICK new : new = [i \in DOMAIN q |-> [q[i] EXCEPT !.age = @ + 1]]
    OBVIOUS
  <2>6. /\ DOMAIN new = DOMAIN q
        /\ \A i \in DOMAIN q : new[i] \in Commands /\ Dated(new[i])'
    BY <2>3, <2>5, Zenon
  <2>7. Len(q) \in Nat /\ DOMAIN q = 1 .. Len(q)
    BY <2>1, <2>2
  <2>8. new \in [1 .. Len(q) -> Commands]
    BY <2>5, <2>6, <2>7, Zenon
  <2>9. new \in Seq(Commands) /\ Len(new) = Len(q)
    BY <2>7, <2>8
  <2> QED
    BY <2>1, <2>2, <2>4, <2>5, <2>6, <2>9 DEF QueueDated, Dated
<1>7. due' \in [Timer -> (-Late .. Modulus) \cup {NULL}]
  <2>1. ASSUME NEW t \in Timer, due[t] # NULL PROVE due[t] - 1 \in -Late .. Modulus
    <3>1. due[t] > -MaxLag
      BY <2>1 DEF Tick
    <3>2. /\ due[t] \in Int /\ due[t] <= Modulus /\ MaxLag \in Nat /\ Late \in Nat
          /\ MaxLag <= Late
      BY <1>3, <2>1, TimerTypes, Sizes
    <3> QED
      BY <1>3, <3>1, <3>2
  <2> QED
    BY <1>1, <2>1
<1>8. wait' \in 0 .. Forever
  <2>1. wait \in 0 .. Forever
    BY <1>3 DEF TypeOK
  <2> QED
    BY <1>2, <1>3, <2>1
<1>9. TypeOK'
  <2>1. pc' # "switch" => (msg' # NULL) = (pc' \in {"sample", "apply"})
    <3>1. msg' # NULL <=> msg # NULL
      BY <1>1, <1>5
    <3> QED
      BY <1>2, <1>3, <3>1 DEF TypeOK
  <2>2. pc' \in {"loop", "expire", "blocked", "switch", "commands", "sample", "apply"}
    BY <1>2, <1>3 DEF TypeOK
  <2> QED
    BY <1>1, <1>3, <1>4, <1>6, <1>7, <1>8, <2>1, <2>2 DEF TypeOK
<1>10. Promised'
  <2> SUFFICES ASSUME NEW t \in Timer PROVE KeepsPromise(t)'
    BY DEF Promised
  <2>1. CASE list[t] = "none"
    BY <1>1, <2>1 DEF KeepsPromise
  <2>2. CASE list[t] # "none"
    <3>1. Now' = Now + 1 /\ Now \in Int
      BY <1>3, <2>2, NowNext, NowIs
    <3>2. PICK x \in Int : x = ExpiresAt(t)
      BY <1>3, TimerTypes DEF ExpiresAt
    <3>3. ExpiresAt(t)' = x
      BY <1>1, <3>2 DEF ExpiresAt
    <3>4. /\ due[t] # NULL /\ due[t] = x - Now
          /\ (pc = "switch" => list[t] = "overflow") => x - xLastTime <= period[t]
      BY <2>2, <3>2 DEF TimeInv, Promised, KeepsPromise
    <3>5. due'[t] = x - (Now + 1) /\ due'[t] # NULL
      <4>1. due'[t] = due[t] - 1 /\ due[t] \in Int
        BY <1>1, <1>3, <3>4, TimerTypes
      <4> QED
        BY <3>1, <3>4, <4>1, NullAssumption
    <3>6. pc' = "switch" <=> pc = "switch"
      BY <1>2
    <3> QED
      BY <1>1, <3>1, <3>3, <3>4, <3>5, <3>6 DEF KeepsPromise
  <2> QED
    BY <2>1, <2>2
<1>11. MessageDated'
  <2> SUFFICES ASSUME msg # NULL
               PROVE  /\ Dated(msg)' /\ list[msg'.timer] = "none"
                      /\ pc' \in {"switch", "apply"} =>
                             Minus(xTickCount', xTimeNow) <= msg'.age
    BY <1>1 DEF MessageDated, Minus
  <2>1. /\ Dated(msg)' /\ msg'.timer = msg.timer /\ msg'.age = msg.age + 1
        /\ list[msg.timer] = "none"
    BY <1>5
  <2>2. ASSUME pc' \in {"switch", "apply"} PROVE Minus(xTickCount', xTimeNow) <= msg'.age
    <3>1. Minus(xTickCount, xTimeNow) <= msg.age /\ Dated(msg)
      BY <1>2, <2>2 DEF TimeInv, MessageDated
    <3>2. msg.age \in Nat
      BY <1>3, <3>1 DEF Dated, Commands, Time
    <3>3. Minus(xTickCount', xTimeNow) <= Minus(xTickCount, xTimeNow) + 1
      BY <1>1, <1>3, MinusNext
    <3>4. Minus(xTickCount, xTimeNow) \in Time
      BY <1>3, MinusIs
    <3>5. PICK x \in Time : x = xTickCount'
      BY <1>4
    <3>6. Minus(x, xTimeNow) \in Time
      BY <1>3, MinusIs
    <3>7. Minus(xTickCount, xTimeNow) \in Nat /\ Minus(x, xTimeNow) \in Nat
      BY <3>4, <3>6 DEF Time
    <3> QED
      BY <2>1, <3>1, <3>2, <3>3, <3>5, <3>7
  <2> QED
    BY <2>1, <2>2
<1>12. SampleKept' /\ NeverEarly'
  <2>1. Heads' = Heads
    BY <1>1 DEF Heads, InList
  <2>2. pc' = "switch" => msg' # NULL
    BY <1>1, <1>2, <1>5
  <2> QED
    BY <1>1, <1>2, <2>1, <2>2 DEF TimeInv, SampleKept, NeverEarly
<1> QED
  BY <1>6, <1>9, <1>10, <1>11, <1>12 DEF TimeInv

(* Neither a timer nor the task moves.                                     *)
LEMMA BesideKeeps ==
    ASSUME TimeInv, UNCHANGED <<xTickCount, timerVars, taskVars, failed>>,
           QueueDated', Len(xTimerQueue') <= QueueLength, NeverEarly'
    PROVE  TimeInv'
<1>1. /\ UNCHANGED <<xTickCount, list, value, period, due>>
      /\ UNCHANGED <<xLastTime, pc, xTimeNow, msg, wait, failed>>
  BY DEF timerVars, taskVars
<1>2. TypeOK'
  BY <1>1 DEF TimeInv, TypeOK
<1>3. Now' = Now
  BY <1>1, NowStays
<1>4. Promised'
  <2>1. \A u \in Timer \ {} : KeepsPromise(u)'
    BY <1>1, <1>3, OthersKeepPromise DEF TimeInv
  <2> QED
    BY <2>1 DEF Promised
<1>5. MessageDated'
  BY <1>1 DEF TimeInv, MessageDated, Dated, Minus
<1>6. SampleKept'
  <2>1. Heads' = Heads
    BY <1>1 DEF Heads, InList
  <2> QED
    BY <1>1, <2>1 DEF TimeInv, SampleKept
<1> QED
  BY <1>2, <1>4, <1>5, <1>6 DEF TimeInv

LEMMA CommandKeeps ==
    ASSUME TimeInv, NEW t \in Timer, xTimerGenericCommand(t)
    PROVE  TimeInv'
<1>1. /\ UNCHANGED <<xTickCount, timerVars, taskVars, failed>> /\ called' = NULL
      /\ \/ \E a \in 0 .. MaxAge - 1 :
                SendCommand(Command("start", t, Minus(xTickCount, a), a))
         \/ SendCommand(Command("stop", t, 0, 0))
         \/ \E p \in Periods : SendCommand(Command("change", t, p, 0))
  BY DEF xTimerGenericCommand
<1>2. /\ TypeOK /\ QueueDated /\ Len(xTimerQueue) <= QueueLength /\ xTickCount \in Time
      /\ xTickCount \in Nat /\ xTickCount < Modulus
      /\ Modulus \in Nat \ {0} /\ MaxAge \in Nat /\ Late \in Nat /\ MaxAge <= Late
      /\ Late < Modulus /\ 0 \in Time
  <2>1. TypeOK /\ QueueDated /\ Len(xTimerQueue) <= QueueLength /\ period[t] \in Periods
    BY DEF TimeInv, TypeOK
  <2>2. xTickCount \in Time /\ Modulus \in Nat \ {0}
    BY <2>1, ModulusIs DEF TypeOK
  <2> QED
    BY <2>1, <2>2, Sizes DEF Time
<1>3. PICK c : Dated(c) /\ SendCommand(c)
  <2>1. ASSUME NEW a \in 0 .. MaxAge - 1
        PROVE  Dated(Command("start", t, Minus(xTickCount, a), a))
    <3>1. a \in Nat /\ a <= Late /\ a \in Time /\ a \in 0 .. Modulus
      BY <1>2 DEF Time
    <3>2. PICK v \in Time : v = Minus(xTickCount, a)
      BY <1>2, <3>1, MinusIs
    <3>3. v = IF xTickCount >= a THEN xTickCount - a ELSE xTickCount - a + Modulus
      BY <1>2, <3>1, <3>2, MinusIs
    <3>4. Plus(v, a) = IF v + a < Modulus THEN v + a ELSE v + a - Modulus
      BY <1>2, <3>1, PlusIs
    <3>5. Plus(v, a) = xTickCount
      BY <1>2, <3>1, <3>3, <3>4 DEF Time
    <3> QED
      BY <3>1, <3>2, <3>5 DEF Dated, Command, Commands
  <2>2. Dated(Command("stop", t, 0, 0))
    BY <1>2 DEF Dated, Command, Commands
  <2>3. ASSUME NEW p \in Periods PROVE Dated(Command("change", t, p, 0))
    BY <1>2, Sizes DEF Dated, Command, Commands
  <2> QED
    BY <1>1, <2>1, <2>2, <2>3
<1>4. QueueDated' /\ Len(xTimerQueue') <= QueueLength
  <2>1. UNCHANGED xTickCount
    BY <1>1
  <2> QED
    BY <1>2, <1>3, <2>1, SendKeeps
<1>5. NeverEarly'
  BY <1>1 DEF NeverEarly
<1> QED
  BY <1>1, <1>4, <1>5, BesideKeeps

-----------------------------------------------------------------------------
(* Together *)

LEMMA InitTimeInv == Init => TimeInv
<1> SUFFICES ASSUME Init PROVE TimeInv
  OBVIOUS
<1>1. Modulus \in Nat \ {0} /\ QueueLength \in Nat /\ 0 \in Time /\ Forever = Modulus
  BY TimerAssumption, QueueLengthAssumption DEF Time, Forever
<1>2. /\ xTickCount = 0 /\ xLastTime = 0 /\ xTimeNow = 0 /\ xTimerQueue = <<>>
      /\ list = [t \in Timer |-> "none"] /\ value = [t \in Timer |-> 0]
      /\ period \in [Timer -> Periods] /\ due = [t \in Timer |-> NULL]
      /\ pc = "loop" /\ msg = NULL /\ wait = Modulus /\ called = NULL /\ failed = FALSE
  BY <1>1 DEF Init
<1>3. xTimerQueue \in Seq(Commands) /\ Len(xTimerQueue) = 0 /\ DOMAIN xTimerQueue = {}
  BY <1>2
<1>4. TypeOK
  <2>1. pc # "switch" => (msg # NULL) = (pc \in {"sample", "apply"})
    BY <1>2
  <2>2. wait \in 0 .. Forever /\ Len(xTimerQueue) <= QueueLength
    BY <1>1, <1>2, <1>3
  <2>3. /\ {xTickCount, xLastTime, xTimeNow} \subseteq Time
        /\ pc \in {"loop", "expire", "blocked", "switch", "commands", "sample", "apply"}
        /\ failed \in BOOLEAN
    BY <1>1, <1>2
  <2>4. /\ list \in [Timer -> {"current", "overflow", "none"}] /\ value \in [Timer -> Time]
        /\ due \in [Timer -> (-Late .. Modulus) \cup {NULL}]
    BY <1>1, <1>2
  <2> QED
    BY <1>2, <2>1, <2>2, <2>3, <2>4 DEF TypeOK
<1>5. QueueDated
  BY <1>3 DEF QueueDated
<1>6. MessageDated /\ SampleKept /\ Promised /\ NeverEarly
  BY <1>2 DEF MessageDated, SampleKept, Promised, KeepsPromise, NeverEarly
<1> QED
  BY <1>4, <1>5, <1>6 DEF TimeInv

LEMMA NextTimeInv == TimeInv /\ [Next]_vars => TimeInv'
<1> SUFFICES ASSUME TimeInv, [Next]_vars PROVE TimeInv'
  OBVIOUS
<1>1. CASE prvProcessTimerOrBlockTask
  BY <1>1, LoopKeeps
<1>2. ASSUME NEW t \in Timer, prvProcessExpiredTimer(t) PROVE TimeInv'
  BY <1>2, ExpireKeeps
<1>3. ASSUME NEW t \in Timer, SwitchExpire(t) PROVE TimeInv'
  BY <1>3, SwitchExpireKeeps
<1>4. CASE SwitchDone
  BY <1>4, SwitchDoneKeeps
<1>5. CASE Unblock \/ NoMoreMessages
  BY <1>5, WaitingKeeps
<1>6. CASE ReceiveMessage
  BY <1>6, ReceiveKeeps
<1>7. CASE SampleTime
  BY <1>7, SampleKeeps
<1>8. CASE prvProcessReceivedCommand
  <2>1. CASE ApplyStart
    BY <1>8, <2>1, ApplyStartKeeps
  <2>2. CASE ApplyStop
    BY <1>8, <2>2, ApplyStopKeeps
  <2>3. CASE ApplyChangePeriod
    BY <1>8, <2>3, ApplyChangePeriodKeeps
  <2> QED
    BY <1>8, <2>1, <2>2, <2>3 DEF prvProcessReceivedCommand
<1>9. CASE Tick
  BY <1>9, TickKeeps
<1>10. ASSUME NEW t \in Timer, xTimerGenericCommand(t) PROVE TimeInv'
  BY <1>10, CommandKeeps
<1>11. CASE UNCHANGED vars
  <2>1. /\ UNCHANGED <<xTickCount, timerVars, taskVars, failed>>
        /\ UNCHANGED <<xTimerQueue, xTickCount, called>>
    BY <1>11 DEF vars
  <2>2. QueueDated' /\ Len(xTimerQueue') <= QueueLength /\ NeverEarly'
    BY <2>1, QueueStays DEF TimeInv, TypeOK, NeverEarly
  <2> QED
    BY <2>1, <2>2, BesideKeeps
<1> QED
  BY <1>1, <1>2, <1>3, <1>4, <1>5, <1>6, <1>7, <1>8, <1>9, <1>10, <1>11 DEF Next, TimerTask

(* TypeOK holds for every modulus, period and bound: the task, its sample  *)
(* and the promises stay in their ranges, none later than the bounds.      *)
THEOREM TypeCorrect == Spec => []TypeOK
<1>1. TimeInv => TypeOK
  BY DEF TimeInv
<1> QED
  BY <1>1, InitTimeInv, NextTimeInv, PTL DEF Spec

(* No callback of prvProcessExpiredTimer, prvSwitchTimerLists or           *)
(* prvProcessReceivedCommands comes before the time the timer was promised,*)
(* for any modulus, periods, lags and interleaving of samples and ticks.   *)
THEOREM NoneEarly == Spec => []NeverEarly
<1>1. TimeInv => NeverEarly
  BY DEF TimeInv
<1> QED
  BY <1>1, InitTimeInv, NextTimeInv, PTL DEF Spec

-----------------------------------------------------------------------------
(* The places in the queue. *)

LEMMA ReloadingIs ==
    ASSUME EnoughRoom
    PROVE  /\ IsFiniteSet(Reloading) /\ Cardinality(Reloading) \in Nat
           /\ Reloading \subseteq AutoReload /\ Room \in Nat /\ QueueLength \in Nat
           /\ Cardinality(AutoReload) \in Nat /\ Cardinality(AutoReload) <= Room
<1>1. Reloading \subseteq AutoReload /\ IsFiniteSet(AutoReload)
  BY DEF Reloading, EnoughRoom
<1>2. QueueLength \in Nat /\ Room \in Nat
  BY QueueLengthAssumption, TimerAssumption
<1>3. IsFiniteSet(Reloading)
  BY <1>1, FS_Subset
<1> QED
  BY <1>1, <1>2, <1>3, FS_CardinalityType DEF EnoughRoom

(* A timer that is not reloading yet finds a place for its reload.         *)
LEMMA ReloadAccepted ==
    ASSUME EnoughRoom, RoomKept, QueueDated, NEW t \in AutoReload, t \notin Reloading
    PROVE  Accepted
<1>1. /\ IsFiniteSet(AutoReload) /\ Reloading \subseteq AutoReload \ {t}
      /\ Cardinality(Reloading) \in Nat /\ Room \in Nat /\ QueueLength \in Nat
      /\ Cardinality(AutoReload) \in Nat /\ Cardinality(AutoReload) <= Room
  BY ReloadingIs DEF EnoughRoom
<1>2. /\ IsFiniteSet(AutoReload \ {t})
      /\ Cardinality(AutoReload \ {t}) = Cardinality(AutoReload) - 1
  BY <1>1, FS_RemoveElement
<1>3. Cardinality(Reloading) <= Cardinality(AutoReload \ {t})
  BY <1>1, <1>2, FS_Subset
<1>4. Len(xTimerQueue) \in Nat
  BY DEF QueueDated
<1> QED
  BY <1>1, <1>2, <1>3, <1>4 DEF RoomKept, Accepted

LEMMA RoomGrows ==
    ASSUME EnoughRoom, RoomKept, QueueDated, UNCHANGED xTimerQueue, Reloading \subseteq Reloading'
    PROVE  RoomKept'
<1>1. /\ Cardinality(Reloading) \in Nat /\ Room \in Nat /\ QueueLength \in Nat
      /\ IsFiniteSet(AutoReload)
  BY ReloadingIs DEF EnoughRoom
<1>2. IsFiniteSet(Reloading') /\ Cardinality(Reloading') \in Nat
  <2>1. Reloading' \subseteq AutoReload
    BY DEF Reloading
  <2>2. IsFiniteSet(Reloading')
    BY <1>1, <2>1, FS_Subset
  <2> QED
    BY <2>2, FS_CardinalityType
<1>3. Cardinality(Reloading) <= Cardinality(Reloading')
  BY <1>2, FS_Subset
<1>4. Len(xTimerQueue) \in Nat
  BY DEF QueueDated
<1> QED
  BY <1>1, <1>2, <1>3, <1>4 DEF RoomKept

(* What is in the queue stays there, at its place.                         *)
QueueGrows ==
    \A i \in DOMAIN xTimerQueue :
        /\ i \in DOMAIN xTimerQueue'
        /\ xTimerQueue'[i].op = xTimerQueue[i].op
        /\ xTimerQueue'[i].timer = xTimerQueue[i].timer

LEMMA SendIs ==
    ASSUME QueueDated, NEW c, c \in Commands, SendCommand(c)
    PROVE  /\ QueueGrows
           /\ Len(xTimerQueue) \in Nat /\ Len(xTimerQueue') \in Nat
           /\ Len(xTimerQueue') <= Len(xTimerQueue) + 1
           /\ Accepted => /\ Len(xTimerQueue') = Len(xTimerQueue) + 1
                          /\ Len(xTimerQueue') \in DOMAIN xTimerQueue'
                          /\ xTimerQueue'[Len(xTimerQueue')] = c
<1>1. xTimerQueue \in Seq(Commands)
  BY DEF QueueDated
<1>2. CASE Accepted
  <2>1. xTimerQueue' = Append(xTimerQueue, c)
    BY <1>2 DEF SendCommand
  <2> QED
    BY <1>1, <2>1 DEF QueueGrows
<1>3. CASE ~Accepted
  <2>1. xTimerQueue' = xTimerQueue
    BY <1>3 DEF SendCommand
  <2> QED
    BY <1>1, <1>3, <2>1 DEF QueueGrows
<1> QED
  BY <1>2, <1>3

(* The reload of a timer that leaves its list.                             *)
LEMMA ReloadSent ==
    ASSUME EnoughRoom, RoomKept, ReloadHasRoom, QueueDated,
           NEW t \in AutoReload, t \notin Reloading, NEW v, NEW a,
           Command("start", t, v, a) \in Commands, SendReload(t, v, a),
           Reloading \cup {t} \subseteq Reloading'
    PROVE  RoomKept' /\ ReloadHasRoom' /\ QueueGrows /\ Pending(t)'
<1> DEFINE c == Command("start", t, v, a)
<1>1. c.op = "start" /\ c.timer = t
  BY DEF Command
<1>2. Accepted
  BY ReloadAccepted
<1>3. SendCommand(c) /\ failed' = (failed \/ ~Accepted) /\ c \in Commands
  BY DEF SendReload
<1> HIDE DEF c
<1>4. ReloadHasRoom'
  BY <1>2, <1>3, Zenon DEF ReloadHasRoom, Accepted
<1>5. /\ QueueGrows /\ Len(xTimerQueue) \in Nat
      /\ Len(xTimerQueue') = Len(xTimerQueue) + 1
      /\ Len(xTimerQueue') \in DOMAIN xTimerQueue'
      /\ xTimerQueue'[Len(xTimerQueue')] = c
  BY <1>2, <1>3, SendIs
<1>6. Pending(t)'
  BY <1>1, <1>5 DEF Pending
<1>7. /\ Cardinality(Reloading) \in Nat /\ Room \in Nat /\ QueueLength \in Nat
      /\ IsFiniteSet(Reloading) /\ IsFiniteSet(AutoReload)
  BY ReloadingIs DEF EnoughRoom
<1>8. IsFiniteSet(Reloading') /\ Cardinality(Reloading') \in Nat
  <2>1. Reloading' \subseteq AutoReload
    BY DEF Reloading
  <2>2. IsFiniteSet(Reloading')
    BY <1>7, <2>1, FS_Subset
  <2> QED
    BY <2>2, FS_CardinalityType
<1>9. Cardinality(Reloading) + 1 <= Cardinality(Reloading')
  <2>1. Cardinality(Reloading \cup {t}) = Cardinality(Reloading) + 1
    BY <1>7, FS_AddElement
  <2>2. Cardinality(Reloading \cup {t}) <= Cardinality(Reloading')
    BY <1>8, FS_Subset
  <2> QED
    BY <2>1, <2>2
<1>10. RoomKept'
  BY <1>5, <1>7, <1>8, <1>9 DEF RoomKept
<1> QED
  BY <1>4, <1>5, <1>6, <1>10

LEMMA NotSent ==
    ASSUME EnoughRoom, RoomKept, ReloadHasRoom, QueueDated, NoReload,
           Reloading \subseteq Reloading'
    PROVE  RoomKept' /\ ReloadHasRoom' /\ QueueGrows
BY RoomGrows DEF NoReload, ReloadHasRoom, QueueGrows

(* A promise stays pending while its timer is not touched.                 *)
LEMMA StaysPending ==
    ASSUME NEW u, Pending(u), list[u] # "none" => list'[u] # "none",
           msg # NULL /\ msg.timer = u => msg' # NULL /\ msg'.timer = u, QueueGrows
    PROVE  Pending(u)'
<1>1. CASE list[u] # "none"
  BY <1>1 DEF Pending
<1>2. CASE msg # NULL /\ msg.timer = u
  BY <1>2 DEF Pending
<1>3. CASE \E i \in DOMAIN xTimerQueue : xTimerQueue[i].op = "start" /\ xTimerQueue[i].timer = u
  <2>1. PICK i \in DOMAIN xTimerQueue : xTimerQueue[i].op = "start" /\ xTimerQueue[i].timer = u
    BY <1>3
  <2>2. /\ i \in DOMAIN xTimerQueue' /\ xTimerQueue'[i].op = "start"
        /\ xTimerQueue'[i].timer = u
    BY <2>1 DEF QueueGrows
  <2> QED
    BY <2>2 DEF Pending
<1> QED
  BY <1>1, <1>2, <1>3 DEF Pending

-----------------------------------------------------------------------------
(* The steps. *)

LEMMA StillWakes ==
    ASSUME IInv, EnoughRoom, UNCHANGED <<list, due, msg, xTimerQueue, failed>>
    PROVE  RoomKept' /\ ReloadHasRoom' /\ PromisesPending'
<1>1. Reloading' = Reloading
  BY DEF Reloading
<1>2. RoomKept' /\ ReloadHasRoom' /\ QueueGrows
  BY <1>1, RoomGrows DEF IInv, TimeInv, WakeInv, ReloadHasRoom, QueueGrows
<1>3. ASSUME NEW u \in Timer, due'[u] # NULL PROVE Pending(u)'
  <2>1. Pending(u)
    BY <1>3 DEF IInv, WakeInv, PromisesPending
  <2> QED
    BY <1>2, <2>1, StaysPending
<1> QED
  BY <1>2, <1>3 DEF PromisesPending

(* Before it blocks the task looks for the first expiry.                   *)
LEMMA LoopWakes ==
    ASSUME IInv, EnoughRoom, prvProcessTimerOrBlockTask
    PROVE  WakeInv'
<1>1. /\ pc = "loop" /\ TimeInv /\ TypeOK
      /\ UNCHANGED <<xTickCount, xTimerQueue, list, value, period, due, failed, msg>>
  BY DEF prvProcessTimerOrBlockTask, timerVars, IInv, TimeInv
<1>2. ASSUME pc' = "blocked" PROVE ~(xTickCount < xLastTime) /\ ~Expired /\ wait' = TicksToWait(xTickCount)
  BY <1>2 DEF prvProcessTimerOrBlockTask
<1>3. /\ Modulus \in Nat \ {0} /\ xTickCount \in Time /\ xLastTime \in Nat
      /\ xTickCount \in Nat /\ xTickCount < Modulus
  BY <1>1, ModulusIs DEF TypeOK, Time
<1>4. ASSUME pc' = "blocked", NEW t \in Timer, list[t] # "none" PROVE wait' <= due[t]
  <2>1. Now = xTickCount
    BY <1>1, <1>2, <1>3, <1>4, NowIs
  <2>2. KeepsPromise(t)
    BY <1>1 DEF TimeInv, Promised
  <2>3. /\ value[t] \in Nat /\ list[t] \in {"current", "overflow", "none"}
    BY <1>1, TimerTypes
  <2>4. /\ list[t] = "current" => due[t] = value[t] - xTickCount
        /\ list[t] = "overflow" => due[t] = value[t] + Modulus - xTickCount
    BY <1>1, <2>1, <2>2, DueIs
  <2>5. CASE InList("current") # {}
    <3>1. PICK h : h = CHOOSE u \in Heads : TRUE
      OBVIOUS
    <3>2. /\ h \in Heads /\ h \in Timer
          /\ \A u \in InList("current") : value[h] <= value[u]
      BY <1>1, <2>5, <3>1, HeadIs DEF Heads, InList
    <3>3. value[h] \in Nat /\ value[h] < Modulus
      BY <1>1, <3>2, TimerTypes
    <3>4. wait' = value[h] - xTickCount
      BY <1>2, <1>4, <2>5, <3>1 DEF TicksToWait
    <3>5. list[t] = "current" => value[h] <= value[t]
      BY <3>2 DEF InList
    <3> QED
      BY <1>3, <1>4, <2>3, <2>4, <3>3, <3>4, <3>5
  <2>6. CASE InList("current") = {}
    <3>1. list[t] = "overflow"
      BY <1>4, <2>3, <2>6 DEF InList
    <3>2. wait' = Minus(0, xTickCount)
      BY <1>2, <1>4, <2>6, <3>1 DEF TicksToWait, InList
    <3>3. 0 \in Time
      BY <1>3 DEF Time
    <3>4. Minus(0, xTickCount) = IF 0 >= xTickCount THEN 0 - xTickCount ELSE 0 - xTickCount + Modulus
      BY <1>3, <3>3, MinusIs
    <3> QED
      BY <1>3, <2>3, <2>4, <3>1, <3>2, <3>4
  <2> QED
    BY <2>5, <2>6
<1>5. Awake'
  BY <1>1, <1>4 DEF Awake
<1> QED
  BY <1>1, <1>5, StillWakes DEF WakeInv

LEMMA ExpireWakes ==
    ASSUME IInv, EnoughRoom, NEW t \in Timer, prvProcessExpiredTimer(t)
    PROVE  WakeInv'
<1> DEFINE next == Plus(value[t], period[t])
           place == PlaceFor(next, xTimeNow, value[t], period[t])
<1>1. /\ TimeInv /\ TypeOK /\ RoomKept /\ ReloadHasRoom /\ QueueDated /\ PromisesPending
      /\ pc = "expire" /\ pc' = "commands" /\ t \in Heads /\ list[t] = "current"
      /\ msg' = msg /\ msg = NULL /\ CallBack(t, due[t])
  BY HeadIsTimer DEF prvProcessExpiredTimer, IInv, TimeInv, WakeInv, TypeOK
<1>2. IF t \notin AutoReload THEN uxListRemove(t) /\ NoReload
      ELSE /\ prvInsertTimerInActiveList(t, next, place)
           /\ IF place = "now" THEN SendReload(t, value[t], -due[t]) ELSE NoReload
  BY DEF prvProcessExpiredTimer
<1>3. Command("start", t, value[t], -due[t]) \in Commands
  BY <1>1, HeadExpired DEF Dated
<1>4. /\ \A u \in Timer \ {t} : due'[u] = due[u] /\ list'[u] = list[u]
      /\ t \notin AutoReload => due'[t] = NULL
      /\ t \in AutoReload => list'[t] = IF place = "now" THEN "none" ELSE place
  BY <1>1, <1>2 DEF CallBack, uxListRemove, prvInsertTimerInActiveList, TypeOK
<1>5. place \in {"now", "current", "overflow"}
  BY DEF PlaceFor
<1> HIDE DEF next, place
<1>6. t \notin Reloading /\ AutoReload \subseteq Timer
  BY <1>1, TimerAssumption DEF Reloading
<1>7. Reloading \subseteq Reloading'
  BY <1>1, <1>4, <1>6 DEF Reloading
<1>8. /\ RoomKept' /\ ReloadHasRoom' /\ QueueGrows
      /\ t \in AutoReload => Pending(t)'
  <2>1. CASE t \in AutoReload /\ place = "now"
    <3>1. t \in Reloading'
      BY <1>1, <1>4, <2>1 DEF Reloading
    <3> QED
      BY <1>1, <1>2, <1>3, <1>6, <1>7, <2>1, <3>1, ReloadSent
  <2>2. CASE ~(t \in AutoReload /\ place = "now")
    <3>1. t \in AutoReload => Pending(t)'
      BY <1>4, <1>5, <2>2 DEF Pending
    <3> QED
      BY <1>1, <1>2, <1>7, <2>2, <3>1, NotSent
  <2> QED
    BY <2>1, <2>2
<1>9. PromisesPending'
  <2> SUFFICES ASSUME NEW u \in Timer, due'[u] # NULL PROVE Pending(u)'
    BY DEF PromisesPending
  <2>1. CASE u = t
    BY <1>4, <1>8, <2>1
  <2>2. CASE u # t
    BY <1>1, <1>4, <1>8, <2>2, StaysPending DEF PromisesPending
  <2> QED
    BY <2>1, <2>2
<1> QED
  BY <1>1, <1>8, <1>9 DEF WakeInv, Awake

LEMMA SwitchExpireWakes ==
    ASSUME IInv, EnoughRoom, NEW t \in Timer, SwitchExpire(t)
    PROVE  WakeInv'
<1>1. /\ TimeInv /\ TypeOK /\ RoomKept /\ ReloadHasRoom /\ QueueDated /\ PromisesPending
      /\ pc = "switch" /\ pc' = "switch" /\ t \in Heads /\ list[t] = "current"
      /\ msg' = msg /\ CallBack(t, due[t])
  BY HeadIsTimer DEF SwitchExpire, IInv, TimeInv, WakeInv, taskVars
<1>2. \/ t \in AutoReload /\ UNCHANGED list /\ NoReload
      \/ t \in AutoReload /\ uxListRemove(t) /\ SendReload(t, value[t], -due[t])
      \/ t \notin AutoReload /\ uxListRemove(t) /\ NoReload
  BY DEF SwitchExpire
<1>3. Command("start", t, value[t], -due[t]) \in Commands
  BY <1>1, HeadExpired DEF Dated
<1>4. /\ \A u \in Timer \ {t} : due'[u] = due[u] /\ list'[u] = list[u]
      /\ t \notin AutoReload => due'[t] = NULL
      /\ uxListRemove(t) => list'[t] = "none"
  BY <1>1, <1>2 DEF CallBack, uxListRemove, TypeOK
<1>5. msg # NULL => msg.timer # t
  BY <1>1 DEF TimeInv, MessageDated
<1>6. t \notin Reloading /\ AutoReload \subseteq Timer
  BY <1>1, TimerAssumption DEF Reloading
<1>7. Reloading \subseteq Reloading'
  BY <1>1, <1>4, <1>6 DEF Reloading
<1>8. /\ RoomKept' /\ ReloadHasRoom' /\ QueueGrows
      /\ t \in AutoReload => Pending(t)'
  <2>1. CASE t \in AutoReload /\ UNCHANGED list /\ NoReload
    <3>1. Pending(t)'
      BY <1>1, <2>1 DEF Pending
    <3> QED
      BY <1>1, <1>7, <2>1, <3>1, NotSent
  <2>2. CASE t \in AutoReload /\ uxListRemove(t) /\ SendReload(t, value[t], -due[t])
    <3>1. t \in Reloading'
      BY <1>1, <1>4, <1>5, <2>2 DEF Reloading
    <3> QED
      BY <1>1, <1>3, <1>6, <1>7, <2>2, <3>1, ReloadSent
  <2>3. CASE t \notin AutoReload /\ uxListRemove(t) /\ NoReload
    BY <1>1, <1>7, <2>3, NotSent
  <2> QED
    BY <1>2, <2>1, <2>2, <2>3
<1>9. PromisesPending'
  <2> SUFFICES ASSUME NEW u \in Timer, due'[u] # NULL PROVE Pending(u)'
    BY DEF PromisesPending
  <2>1. CASE u = t
    BY <1>4, <1>8, <2>1
  <2>2. CASE u # t
    BY <1>1, <1>4, <1>8, <2>2, StaysPending DEF PromisesPending
  <2> QED
    BY <2>1, <2>2
<1> QED
  BY <1>1, <1>8, <1>9 DEF WakeInv, Awake

LEMMA SwitchDoneWakes ==
    ASSUME IInv, EnoughRoom, SwitchDone
    PROVE  WakeInv'
<1>1. /\ TypeOK /\ RoomKept /\ ReloadHasRoom /\ QueueDated /\ PromisesPending
      /\ \A u \in Timer : list[u] # "current" /\ list[u] \in {"current", "overflow", "none"}
      /\ list' = [u \in Timer |-> IF list[u] = "overflow" THEN "current" ELSE "none"]
      /\ UNCHANGED <<msg, due, xTimerQueue, failed>> /\ pc' # "blocked"
  BY DEF SwitchDone, IInv, TimeInv, WakeInv, InList, TypeOK
<1>2. \A u \in Timer : list'[u] = "none" <=> list[u] = "none"
  BY <1>1
<1>3. Reloading' = Reloading
  BY <1>1, <1>2, TimerAssumption DEF Reloading
<1>4. RoomKept' /\ ReloadHasRoom' /\ QueueGrows
  BY <1>1, <1>3, RoomGrows DEF ReloadHasRoom, QueueGrows
<1>5. PromisesPending'
  <2> SUFFICES ASSUME NEW u \in Timer, due'[u] # NULL PROVE Pending(u)'
    BY DEF PromisesPending
  <2> QED
    BY <1>1, <1>2, <1>4, StaysPending DEF PromisesPending
<1> QED
  BY <1>1, <1>4, <1>5 DEF WakeInv, Awake

LEMMA ReceiveWakes ==
    ASSUME IInv, EnoughRoom, ReceiveMessage
    PROVE  WakeInv'
<1>t. PICK t : t = Head(xTimerQueue).timer
  OBVIOUS
<1>1. /\ TypeOK /\ RoomKept /\ ReloadHasRoom /\ QueueDated /\ PromisesPending /\ msg = NULL
      /\ xTimerQueue # <<>> /\ xTimerQueue' = Tail(xTimerQueue)
      /\ msg' = Head(xTimerQueue) /\ list' = [list EXCEPT ![t] = "none"]
      /\ UNCHANGED <<due, failed>> /\ pc' # "blocked"
  BY <1>t DEF ReceiveMessage, ReceiveCommand, uxListRemove, IInv, TimeInv, WakeInv, TypeOK
<1>2. /\ xTimerQueue \in Seq(Commands) /\ Len(xTimerQueue) \in Nat
      /\ Len(xTimerQueue') = Len(xTimerQueue) - 1
      /\ Head(xTimerQueue) = xTimerQueue[1] /\ msg' # NULL /\ msg'.timer = t
  <2>1. xTimerQueue \in Seq(Commands)
    BY <1>1 DEF QueueDated
  <2>2. Head(xTimerQueue) = xTimerQueue[1] /\ Head(xTimerQueue) \in Commands
    BY <1>1, <2>1
  <2> QED
    BY <1>t, <1>1, <2>1, <2>2, NullAssumption
<1>3. RoomKept'
  <2>1. /\ IsFiniteSet(Reloading) /\ Cardinality(Reloading) \in Nat /\ IsFiniteSet(AutoReload)
        /\ Room \in Nat /\ QueueLength \in Nat
    BY ReloadingIs DEF EnoughRoom
  <2>2. Reloading \ {t} \subseteq Reloading'
    BY <1>1, <1>2, TimerAssumption DEF Reloading, TypeOK
  <2>3. IsFiniteSet(Reloading') /\ Cardinality(Reloading') \in Nat
    <3>1. Reloading' \subseteq AutoReload
      BY DEF Reloading
    <3>2. IsFiniteSet(Reloading')
      BY <2>1, <3>1, FS_Subset
    <3> QED
      BY <3>2, FS_CardinalityType
  <2>4. Cardinality(Reloading) <= Cardinality(Reloading') + 1
    <3>1. Cardinality(Reloading \ {t}) <= Cardinality(Reloading')
      BY <2>2, <2>3, FS_Subset
    <3>2. /\ Cardinality(Reloading \ {t}) \in Nat
          /\ Cardinality(Reloading) <= Cardinality(Reloading \ {t}) + 1
      <4>1. CASE t \in Reloading
        <5>1. Cardinality(Reloading \ {t}) = Cardinality(Reloading) - 1 /\ IsFiniteSet(Reloading \ {t})
          BY <2>1, <4>1, FS_RemoveElement
        <5>2. Cardinality(Reloading \ {t}) \in Nat
          BY <5>1, FS_CardinalityType
        <5> QED
          BY <2>1, <5>1, <5>2
      <4>2. CASE t \notin Reloading
        <5>1. Reloading \ {t} = Reloading
          BY <4>2
        <5> QED
          BY <2>1, <5>1
      <4> QED
        BY <4>1, <4>2
    <3> QED
      BY <2>1, <2>3, <3>1, <3>2
  <2> QED
    BY <1>1, <1>2, <2>1, <2>3, <2>4 DEF RoomKept
<1>4. PromisesPending'
  <2> SUFFICES ASSUME NEW u \in Timer, due[u] # NULL PROVE Pending(u)'
    BY <1>1 DEF PromisesPending
  <2>1. CASE u = t
    BY <1>2, <2>1 DEF Pending
  <2>2. CASE u # t /\ list[u] # "none"
    <3>1. list'[u] # "none"
      BY <1>1, <2>2 DEF TypeOK
    <3> QED
      BY <3>1 DEF Pending
  <2>3. CASE u # t /\ list[u] = "none"
    <3>1. PICK i \in DOMAIN xTimerQueue : xTimerQueue[i].op = "start" /\ xTimerQueue[i].timer = u
      BY <1>1, <2>3 DEF PromisesPending, Pending
    <3>2. i # 1
      BY <1>t, <1>2, <2>3, <3>1
    <3>3. i - 1 \in DOMAIN xTimerQueue' /\ xTimerQueue'[i - 1] = xTimerQueue[i]
      BY <1>1, <1>2, <3>1, <3>2
    <3> QED
      BY <3>1, <3>3 DEF Pending
  <2> QED
    BY <2>1, <2>2, <2>3
<1>5. ReloadHasRoom' /\ Awake'
  BY <1>1 DEF ReloadHasRoom, Awake
<1> QED
  BY <1>3, <1>4, <1>5 DEF WakeInv

(* A period that is given now is not over yet.                             *)
LEMMA ChangeInserts ==
    ASSUME TypeOK, NEW p \in Periods
    PROVE  PlaceFor(Plus(xTimeNow, p), xTimeNow, xTimeNow, p) # "now"
<1>1. /\ xTimeNow \in Time /\ p \in Nat /\ 0 < p /\ Modulus \in Nat \ {0} /\ Late \in Nat
  BY Sizes DEF TypeOK
<1>2. Plus(xTimeNow, 0) = xTimeNow /\ 0 \in 0 .. Late
  <2>1. 0 \in 0 .. Modulus /\ 0 \in 0 .. Late /\ xTimeNow + 0 = xTimeNow /\ xTimeNow < Modulus
    BY <1>1 DEF Time
  <2> QED
    BY <1>1, <2>1, PlusIs
<1>3. PlaceFor(Plus(xTimeNow, p), xTimeNow, xTimeNow, p) = "now" => p <= 0
  BY <1>1, <1>2, PlaceIsRight
<1> QED
  BY <1>1, <1>3

LEMMA ApplyWakes ==
    ASSUME IInv, EnoughRoom, prvProcessReceivedCommand
    PROVE  WakeInv'
<1>t. PICK t : t = msg.timer
  OBVIOUS
<1>1. /\ TimeInv /\ TypeOK /\ RoomKept /\ ReloadHasRoom /\ QueueDated /\ PromisesPending
      /\ pc = "apply" /\ pc' = "commands" /\ msg' = NULL /\ msg # NULL /\ Dated(msg)
      /\ t \in Timer /\ AutoReload \subseteq Timer
  BY <1>t, ApplyContext, TimerAssumption DEF prvProcessReceivedCommand, IInv, TimeInv, WakeInv
<1>2. t \notin Reloading
  BY <1>t, <1>1 DEF Reloading
<1>3. ASSUME \A u \in Timer \ {t} : due'[u] = due[u] /\ list'[u] = list[u],
             RoomKept', ReloadHasRoom', QueueGrows, due'[t] # NULL => Pending(t)'
      PROVE  WakeInv'
  <2>1. ASSUME NEW u \in Timer, due'[u] # NULL PROVE Pending(u)'
    <3>1. CASE u = t
      BY <1>3, <2>1, <3>1
    <3>2. CASE u # t
      BY <1>t, <1>1, <1>3, <2>1, <3>2, StaysPending DEF PromisesPending
    <3> QED
      BY <3>1, <3>2
  <2> QED
    BY <1>1, <1>3, <2>1 DEF WakeInv, PromisesPending, Awake
<1>4. ASSUME \A u \in Timer \ {t} : list'[u] = list[u]
      PROVE  /\ Reloading \subseteq Reloading'
             /\ t \in AutoReload /\ list'[t] = "none" => t \in Reloading'
  BY <1>t, <1>1, <1>2, <1>4 DEF Reloading
<1>5. CASE ApplyStart
  <2>x. PICK expiry : expiry = Plus(msg.value, period[t])
    OBVIOUS
  <2>c. PICK place : place = PlaceFor(expiry, xTimeNow, msg.value, period[t])
    OBVIOUS
  <2>l. PICK left : left = period[t] - msg.age
    OBVIOUS
  <2>1. /\ prvInsertTimerInActiveList(t, expiry, place)
        /\ IF place = "now"
             THEN /\ CallBack(t, left)
                  /\ IF t \in AutoReload THEN SendReload(t, expiry, -left) ELSE NoReload
             ELSE called' = NULL /\ due' = [due EXCEPT ![t] = left] /\ NoReload
    BY <1>t, <1>5, <2>x, <2>c, <2>l DEF ApplyStart
  <2>2. /\ \A u \in Timer \ {t} : due'[u] = due[u] /\ list'[u] = list[u]
        /\ list'[t] = IF place = "now" THEN "none" ELSE place
        /\ place = "now" /\ t \notin AutoReload => due'[t] = NULL
        /\ place \in {"now", "current", "overflow"}
    <3>1. \A u \in Timer \ {t} : due'[u] = due[u]
      BY <1>1, <2>1 DEF CallBack, TypeOK
    <3>2. place = "now" /\ t \notin AutoReload => due'[t] = NULL
      BY <1>1, <2>1 DEF CallBack, TypeOK
    <3>3. /\ \A u \in Timer \ {t} : list'[u] = list[u]
          /\ list'[t] = IF place = "now" THEN "none" ELSE place
      BY <1>1, <2>1 DEF prvInsertTimerInActiveList, TypeOK
    <3> QED
      BY <2>c, <3>1, <3>2, <3>3 DEF PlaceFor
  <2>3. /\ Reloading \subseteq Reloading'
        /\ t \in AutoReload /\ list'[t] = "none" => t \in Reloading'
    BY <1>4, <2>2
  <2>4. CASE place = "now" /\ t \in AutoReload
    <3>1. SendReload(t, expiry, -left) /\ t \in Reloading'
      BY <2>1, <2>2, <2>3, <2>4
    <3>2. Command("start", t, expiry, -left) \in Commands
      <4>1. /\ period[t] \in Periods /\ period[t] \in Nat /\ msg.age \in Nat /\ msg.age < Modulus
            /\ Modulus \in Nat \ {0} /\ msg.value \in Time /\ period[t] \in 0 .. Modulus
        BY <1>t, <1>1, TimerTypes DEF Dated, Commands, Time
      <4>2. expiry \in Time
        BY <2>x, <4>1, PlusIs
      <4>3. period[t] <= msg.age
        <5>1. NeverEarly'
          <6>1. TimeInv'
            BY <1>1, <1>5, ApplyStartKeeps
          <6> QED
            BY <6>1 DEF TimeInv
        <5>2. called' = left /\ left # NULL
          BY <2>1, <2>4, <2>l, <4>1, NullAssumption DEF CallBack
        <5> QED
          BY <2>l, <4>1, <5>1, <5>2 DEF NeverEarly
      <4>4. -left \in Time
        BY <2>l, <4>1, <4>3 DEF Time
      <4> QED
        BY <1>1, <4>2, <4>4 DEF Command, Commands
    <3>3. RoomKept' /\ ReloadHasRoom' /\ QueueGrows /\ Pending(t)'
      BY <1>1, <1>2, <2>3, <2>4, <3>1, <3>2, ReloadSent
    <3> QED
      BY <1>3, <2>2, <3>3
  <2>5. CASE ~(place = "now" /\ t \in AutoReload)
    <3>1. NoReload
      BY <2>1, <2>5
    <3>2. RoomKept' /\ ReloadHasRoom' /\ QueueGrows
      BY <1>1, <2>3, <3>1, NotSent
    <3>3. due'[t] # NULL => Pending(t)'
      BY <2>2, <2>5 DEF Pending
    <3> QED
      BY <1>3, <2>2, <3>2, <3>3
  <2> QED
    BY <2>4, <2>5
<1>6. CASE ApplyStop
  <2>1. /\ \A u \in Timer \ {t} : due'[u] = due[u] /\ list'[u] = list[u]
        /\ due'[t] = NULL /\ NoReload
    BY <1>t, <1>1, <1>6 DEF ApplyStop, TypeOK
  <2>2. RoomKept' /\ ReloadHasRoom' /\ QueueGrows
    BY <1>1, <1>4, <2>1, NotSent
  <2> QED
    BY <1>3, <2>1, <2>2
<1>7. CASE ApplyChangePeriod
  <2>1. PICK p : p = msg.value
    OBVIOUS
  <2>2. PICK place : place = PlaceFor(Plus(xTimeNow, p), xTimeNow, xTimeNow, p)
    OBVIOUS
  <2>3. /\ prvInsertTimerInActiveList(t, Plus(xTimeNow, p), place) /\ NoReload
        /\ due' = [due EXCEPT ![t] = p - Minus(xTickCount, xTimeNow)] /\ p \in Periods
    BY <1>t, <1>1, <1>7, <2>1, <2>2 DEF ApplyChangePeriod, Dated
  <2>4. place \in {"current", "overflow"}
    <3>1. place # "now"
      BY <1>1, <2>2, <2>3, ChangeInserts
    <3> QED
      BY <2>2, <3>1 DEF PlaceFor
  <2>5. /\ \A u \in Timer \ {t} : due'[u] = due[u] /\ list'[u] = list[u]
        /\ list'[t] # "none"
    BY <1>1, <2>3, <2>4 DEF prvInsertTimerInActiveList, TypeOK
  <2>6. RoomKept' /\ ReloadHasRoom' /\ QueueGrows
    BY <1>1, <1>4, <2>3, <2>5, NotSent
  <2>7. Pending(t)'
    BY <2>5 DEF Pending
  <2> QED
    BY <1>3, <2>5, <2>6, <2>7
<1> QED
  BY <1>5, <1>6, <1>7 DEF prvProcessReceivedCommand

LEMMA TickWakes ==
    ASSUME IInv, EnoughRoom, Tick
    PROVE  WakeInv'
<1>1. /\ TimeInv /\ TypeOK /\ RoomKept /\ ReloadHasRoom /\ QueueDated /\ PromisesPending
      /\ xTimerQueue' = [i \in DOMAIN xTimerQueue |-> [xTimerQueue[i] EXCEPT !.age = @ + 1]]
      /\ msg' = IF msg = NULL THEN NULL ELSE [msg EXCEPT !.age = @ + 1]
      /\ due' = [t \in Timer |-> IF due[t] = NULL THEN NULL ELSE due[t] - 1]
      /\ UNCHANGED <<list, failed>>
  BY DEF Tick, IInv, TimeInv, WakeInv
<1>2. /\ xTimerQueue \in Seq(Commands)
      /\ \A i \in DOMAIN xTimerQueue : xTimerQueue[i] \in Commands
      /\ msg # NULL => msg \in Commands
  BY <1>1 DEF TimeInv, QueueDated, MessageDated, Dated
<1>3. /\ msg # NULL => msg' # NULL /\ msg'.timer = msg.timer
      /\ msg = NULL => msg' = NULL
  <2>1. ASSUME msg # NULL PROVE msg' # NULL /\ msg'.timer = msg.timer
    <3>1. msg'.timer = msg.timer
      BY <1>1, <1>2, <2>1 DEF Commands
    <3>2. msg' \in Commands
      <4>1. msg.age < MaxAge /\ Dated(msg)
        BY <1>1, <2>1 DEF Tick, TimeInv, MessageDated
      <4>2. PICK m : m = msg
        OBVIOUS
      <4>3. xTickCount' = Plus(xTickCount, 1)
        BY DEF Tick
      <4>4. [m EXCEPT !.age = @ + 1] \in Commands
        BY <1>1, <4>1, <4>2, <4>3, DatedNext
      <4> QED
        BY <1>1, <2>1, <4>2, <4>4
    <3> QED
      BY <3>1, <3>2, NullAssumption
  <2> QED
    BY <1>1, <2>1
<1>4. /\ QueueGrows /\ Len(xTimerQueue') = Len(xTimerQueue)
  <2>1. QueueGrows
    BY <1>1, <1>2 DEF QueueGrows, Commands
  <2>2. Len(xTimerQueue') = Len(xTimerQueue)
    BY <1>1, <1>2
  <2> QED
    BY <2>1, <2>2
<1>5. RoomKept' /\ ReloadHasRoom'
  <2>1. Reloading' = Reloading
    BY <1>1, <1>3 DEF Reloading
  <2> QED
    BY <1>1, <1>4, <2>1 DEF RoomKept, ReloadHasRoom
<1>6. PromisesPending'
  <2> SUFFICES ASSUME NEW u \in Timer, due'[u] # NULL PROVE Pending(u)'
    BY DEF PromisesPending
  <2>1. due[u] # NULL
    BY <1>1
  <2>2. Pending(u)
    BY <1>1, <2>1 DEF PromisesPending
  <2> QED
    BY <1>1, <1>3, <1>4, <2>2, StaysPending
<1>7. Awake'
  <2> SUFFICES ASSUME pc' = "blocked", NEW t \in Timer, list[t] # "none"
               PROVE  wait' <= due'[t]
    BY <1>1 DEF Awake
  <2>1. pc = "blocked"
    BY DEF Tick
  <2>2. wait <= due[t] /\ KeepsPromise(t)
    BY <1>1, <2>1 DEF IInv, WakeInv, Awake, TimeInv, Promised
  <2>3. due[t] # NULL /\ due[t] \in Int
    BY <1>1, <2>2, TimerTypes DEF KeepsPromise
  <2>4. due'[t] = due[t] - 1
    BY <1>1, <2>3
  <2>5. due[t] < Modulus
    <3>1. PICK x \in Int : x = ExpiresAt(t)
      BY <1>1, TimerTypes DEF ExpiresAt
    <3>2. due[t] = x - Now /\ x - xLastTime <= period[t]
      BY <2>1, <2>2, <3>1 DEF KeepsPromise
    <3>3. Now = IF xTickCount >= xLastTime THEN xTickCount ELSE xTickCount + Modulus
      BY <1>1, <2>1, NowIs
    <3>4. /\ xTickCount \in Nat /\ xLastTime \in Nat /\ xLastTime < Modulus /\ Modulus \in Nat
          /\ period[t] \in Nat /\ period[t] < Modulus
      BY <1>1, TimerTypes, ModulusIs DEF TypeOK, Time
    <3> QED
      BY <3>2, <3>3, <3>4
  <2>6. wait # Forever
    <3>1. Forever = Modulus /\ Modulus \in Nat
      BY <1>1, ModulusIs DEF Forever
    <3> QED
      BY <2>2, <2>3, <2>5, <3>1
  <2>7. wait' = wait - 1
    BY <2>1, <2>6 DEF Tick
  <2>8. wait \in Int
    BY <1>1, ModulusIs DEF TypeOK, Forever
  <2> QED
    BY <2>2, <2>3, <2>4, <2>7, <2>8
<1> QED
  BY <1>5, <1>6, <1>7 DEF WakeInv

LEMMA CommandWakes ==
    ASSUME IInv, EnoughRoom, NEW t \in Timer, xTimerGenericCommand(t)
    PROVE  WakeInv'
<1>1. /\ TimeInv /\ TypeOK /\ QueueDated /\ PromisesPending /\ ReloadHasRoom /\ Awake
      /\ UNCHANGED <<list, due, msg, failed, pc, wait>>
      /\ Len(xTimerQueue) + Room < QueueLength
  BY DEF xTimerGenericCommand, IInv, TimeInv, WakeInv, timerVars, taskVars
<1>2. TimeInv'
  BY <1>1, CommandKeeps
<1>3. /\ QueueGrows /\ Len(xTimerQueue') \in Nat /\ Len(xTimerQueue) \in Nat
      /\ Len(xTimerQueue') <= Len(xTimerQueue) + 1
  <2>1. PICK c : SendCommand(c)
    BY DEF xTimerGenericCommand
  <2>2. xTimerQueue \in Seq(Commands)
    BY <1>1 DEF QueueDated
  <2>3. xTimerQueue' = Append(xTimerQueue, c) \/ xTimerQueue' = xTimerQueue
    BY <2>1 DEF SendCommand
  <2>4. CASE xTimerQueue' = xTimerQueue
    BY <2>2, <2>4 DEF QueueGrows
  <2>5. CASE xTimerQueue' = Append(xTimerQueue, c)
    BY <2>2, <2>5 DEF QueueGrows
  <2> QED
    BY <2>3, <2>4, <2>5
<1>4. RoomKept'
  <2>1. Reloading' = Reloading
    BY <1>1 DEF Reloading
  <2>2. Cardinality(Reloading) \in Nat /\ Room \in Nat /\ QueueLength \in Nat
    BY ReloadingIs
  <2> QED
    BY <1>1, <1>3, <2>1, <2>2 DEF RoomKept
<1>5. PromisesPending'
  <2> SUFFICES ASSUME NEW u \in Timer, due'[u] # NULL PROVE Pending(u)'
    BY DEF PromisesPending
  <2> QED
    BY <1>1, <1>3, StaysPending DEF PromisesPending
<1>6. ReloadHasRoom' /\ Awake'
  BY <1>1 DEF ReloadHasRoom, Awake
<1> QED
  BY <1>4, <1>5, <1>6 DEF WakeInv

LEMMA InitWakes == EnoughRoom /\ Init => WakeInv
<1> SUFFICES ASSUME EnoughRoom, Init PROVE WakeInv
  OBVIOUS
<1>1. /\ xTimerQueue = <<>> /\ failed = FALSE /\ pc = "loop"
      /\ due = [t \in Timer |-> NULL]
  BY DEF Init
<1>2. Len(xTimerQueue) = 0 /\ Room \in 0 .. QueueLength /\ QueueLength \in Nat
  BY <1>1, TimerAssumption, QueueLengthAssumption
<1>3. RoomKept
  <2>1. Cardinality(Reloading) \in Nat
    BY ReloadingIs
  <2> QED
    BY <1>2, <2>1 DEF RoomKept
<1>4. ReloadHasRoom /\ PromisesPending /\ Awake
  BY <1>1 DEF ReloadHasRoom, PromisesPending, Awake
<1> QED
  BY <1>3, <1>4 DEF WakeInv

LEMMA NextWakes == EnoughRoom /\ IInv /\ [Next]_vars => WakeInv'
<1> SUFFICES ASSUME EnoughRoom, IInv, [Next]_vars PROVE WakeInv'
  OBVIOUS
<1>1. ASSUME UNCHANGED <<list, due, msg, xTimerQueue, failed>>,
             pc' # "blocked" \/ UNCHANGED <<pc, wait>>
      PROVE  WakeInv'
  <2>1. Awake'
    BY <1>1 DEF IInv, WakeInv, Awake
  <2> QED
    BY <1>1, <2>1, StillWakes DEF WakeInv
<1>2. CASE prvProcessTimerOrBlockTask
  BY <1>2, LoopWakes
<1>3. ASSUME NEW t \in Timer, prvProcessExpiredTimer(t) PROVE WakeInv'
  BY <1>3, ExpireWakes
<1>4. ASSUME NEW t \in Timer, SwitchExpire(t) PROVE WakeInv'
  BY <1>4, SwitchExpireWakes
<1>5. CASE SwitchDone
  BY <1>5, SwitchDoneWakes
<1>6. CASE Unblock \/ NoMoreMessages \/ SampleTime
  BY <1>1, <1>6 DEF Unblock, NoMoreMessages, SampleTime, timerVars
<1>7. CASE ReceiveMessage
  BY <1>7, ReceiveWakes
<1>8. CASE prvProcessReceivedCommand
  BY <1>8, ApplyWakes
<1>9. CASE Tick
  BY <1>9, TickWakes
<1>10. ASSUME NEW t \in Timer, xTimerGenericCommand(t) PROVE WakeInv'
  BY <1>10, CommandWakes
<1>11. CASE UNCHANGED vars
  BY <1>1, <1>11 DEF vars, timerVars, taskVars
<1> QED
  BY <1>2, <1>3, <1>4, <1>5, <1>6, <1>7, <1>8, <1>9, <1>10, <1>11 DEF Next, TimerTask

LEMMA RoomedInv == ASSUME EnoughRoom PROVE Spec => []IInv
<1>1. Init => IInv
  BY InitTimeInv, InitWakes DEF IInv
<1>2. IInv /\ [Next]_vars => IInv'
  BY NextTimeInv, NextWakes DEF IInv
<1> QED
  BY <1>1, <1>2, PTL DEF Spec

(* The assertions of timers.c:504, 787 and 900 hold when the application   *)
(* leaves a place free in the queue for each auto-reload timer.            *)
THEOREM RoomForReloads == ASSUME EnoughRoom PROVE Spec => []ReloadHasRoom
<1>1. IInv => ReloadHasRoom
  BY DEF IInv, WakeInv
<1> QED
  BY <1>1, RoomedInv, PTL

(* With those places free no promise is lost, and prvGetNextExpireTime     *)
(* never lets the task sleep through an expiry, nor through the overflow.  *)
THEOREM NoneSleptThrough == ASSUME EnoughRoom PROVE Spec => []WakesInTime
<1>1. IInv => WakesInTime
  <2> SUFFICES ASSUME IInv, pc = "blocked", xTimerQueue = <<>>,
                      NEW t \in Timer, due[t] # NULL
               PROVE  wait <= due[t]
    BY DEF WakesInTime
  <2>1. msg = NULL /\ Pending(t)
    BY DEF IInv, TimeInv, TypeOK, WakeInv, PromisesPending
  <2>2. list[t] # "none"
    BY <2>1 DEF Pending
  <2> QED
    BY <2>2 DEF IInv, WakeInv, Awake
<1> QED
  BY <1>1, RoomedInv, PTL

=============================================================================
