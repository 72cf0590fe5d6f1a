----------------------------- MODULE EnetProofs -----------------------------
(***************************************************************************)
(* Proofs about module EnetInterface, for rings and pools of every size,   *)
(* mailboxes and command queues of every length, and every number of       *)
(* application tasks.                                                      *)
(***************************************************************************)
EXTENDS EnetInterface, TLAPS

-----------------------------------------------------------------------------
(* Arithmetic on a ring of N places *)

(* A place is its own remainder; one turn further is the same place.       *)
LEMMA OneTurn ==
    ASSUME NEW N \in Nat \ {0}, NEW x \in Nat, x < N + N
    PROVE  x % N = IF x < N THEN x ELSE x - N
BY SMT

LEMMA Sum ==
    ASSUME NEW N \in Nat \ {0}, NEW b \in 0 .. N - 1, NEW n \in 0 .. N
    PROVE  (b + n) % N = IF b + n < N THEN b + n ELSE b + n - N
<1> DEFINE x == b + n
<1>1. x \in Nat /\ x < N + N
  OBVIOUS
<1> HIDE DEF x
<1>2. x % N = IF x < N THEN x ELSE x - N
  BY <1>1, OneTurn
<1> QED
  BY <1>2 DEF x

(* The place n behind b stays on the ring, and a step from it or towards   *)
(* it is a step of n.                                                      *)
LEMMA Places ==
    ASSUME NEW N \in Nat \ {0}, NEW b \in 0 .. N - 1, NEW n \in 0 .. N
    PROVE  /\ (b + n) % N \in 0 .. N - 1
           /\ n < N => (((b + n) % N) + 1) % N = (b + (n + 1)) % N
           /\ n > 0 => (((b + 1) % N) + (n - 1)) % N = (b + n) % N
<1>1. (b + n) % N = IF b + n < N THEN b + n ELSE b + n - N
  BY Sum
<1>2. ASSUME NEW p \in 0 .. N - 1 PROVE (p + 1) % N = IF p + 1 < N THEN p + 1 ELSE 0
  <2>1. 1 \in 0 .. N
    OBVIOUS
  <2>2. (p + 1) % N = IF p + 1 < N THEN p + 1 ELSE p + 1 - N
    BY <2>1, Sum
  <2> QED
    BY <2>2
<1>3. (b + n) % N \in 0 .. N - 1
  BY <1>1
<1>4. n < N => (((b + n) % N) + 1) % N = (b + (n + 1)) % N
  <2> SUFFICES ASSUME n < N PROVE (((b + n) % N) + 1) % N = (b + (n + 1)) % N
    OBVIOUS
  <2>1. (b + (n + 1)) % N = IF b + n + 1 < N THEN b + n + 1 ELSE b + n + 1 - N
    <3> DEFINE m == n + 1
    <3>1. m \in 0 .. N
      OBVIOUS
    <3> HIDE DEF m
    <3>2. (b + m) % N = IF b + m < N THEN b + m ELSE b + m - N
      BY <3>1, Sum
    <3> QED
      BY <3>2 DEF m
  <2> QED
    BY <1>1, <1>2, <1>3, <2>1
<1>5. n > 0 => (((b + 1) % N) + (n - 1)) % N = (b + n) % N
  <2> SUFFICES ASSUME n > 0 PROVE (((b + 1) % N) + (n - 1)) % N = (b + n) % N
    OBVIOUS
  <2>1. ASSUME NEW p \in 0 .. N - 1
        PROVE (p + (n - 1)) % N = IF p + (n - 1) < N THEN p + (n - 1) ELSE p + (n - 1) - N
    <3>1. n - 1 \in 0 .. N
      OBVIOUS
    <3> QED
      BY <3>1, Sum
  <2> QED
    BY <1>1, <1>2, <2>1
<1> QED
  BY <1>3, <1>4, <1>5

(* Two places of one run differ.                                           *)
LEMMA Apart ==
    ASSUME NEW N \in Nat \ {0}, NEW b \in 0 .. N - 1,
           NEW k \in 0 .. N - 1, NEW m \in 0 .. N - 1, (b + k) % N = (b + m) % N
    PROVE  k = m
<1>0. k \in 0 .. N /\ m \in 0 .. N
  OBVIOUS
<1>1. (b + k) % N = IF b + k < N THEN b + k ELSE b + k - N
  BY <1>0, Sum
<1>2. (b + m) % N = IF b + m < N THEN b + m ELSE b + m - N
  BY <1>0, Sum
<1>3. b + k = b + m \/ b + k = b + m + N \/ b + m = b + k + N
  BY <1>1, <1>2
<1> QED
  BY <1>3

(* Which places a run holds: its first unless it is empty, the one behind  *)
(* it only if it is the whole ring.                                        *)
LEMMA RunHolds ==
    ASSUME NEW N \in Nat \ {0}, NEW b \in 0 .. N - 1, NEW n \in 0 .. N
    PROVE  /\ Run(b, n, N) \subseteq 0 .. N - 1
           /\ b \in Run(b, n, N) <=> n > 0
           /\ (b + n) % N \in Run(b, n, N) <=> n = N
           /\ Run(b, n, N) = 0 .. N - 1 <=> n = N
<1>1. Run(b, n, N) \subseteq 0 .. N - 1
  BY Places DEF Run
<1>2. b \in Run(b, n, N) <=> n > 0
  <2>1. (b + 0) % N = b
    BY Sum
  <2>2. ASSUME n > 0 PROVE b \in Run(b, n, N)
    <3>1. 0 \in 0 .. n - 1
      BY <2>2
    <3> QED
      BY <2>1, <3>1 DEF Run
  <2>3. ASSUME n = 0 PROVE b \notin Run(b, n, N)
    BY <2>3 DEF Run
  <2> QED
    BY <2>2, <2>3
<1>3. ASSUME n = N PROVE (b + n) % N \in Run(b, n, N)
  <2>1. (b + N) % N = b
    BY Sum
  <2> QED
    BY <1>2, <1>3, <2>1
<1>4. ASSUME n # N PROVE (b + n) % N \notin Run(b, n, N)
  <2> SUFFICES ASSUME NEW k \in 0 .. n - 1, (b + n) % N = (b + k) % N PROVE FALSE
    BY DEF Run
  <2> QED
    BY <1>4, Apart
<1>5. ASSUME n = N PROVE 0 .. N - 1 \subseteq Run(b, n, N)
  <2> SUFFICES ASSUME NEW p \in 0 .. N - 1 PROVE p \in Run(b, N, N)
    BY <1>5
  <2>1. PICK k \in 0 .. N - 1 : b + k = p \/ b + k = p + N
    <3>1. CASE p >= b
      <4>1. p - b \in 0 .. N - 1 /\ b + (p - b) = p
        BY <3>1
      <4> QED
        BY <4>1
    <3>2. CASE p < b
      <4>1. p + N - b \in 0 .. N - 1 /\ b + (p + N - b) = p + N
        BY <3>2
      <4> QED
        BY <4>1
    <3> QED
      BY <3>1, <3>2
  <2>2. b + k \in Nat /\ b + k < N + N
    OBVIOUS
  <2>3. (b + k) % N = p
    BY <2>1, <2>2, OneTurn
  <2> QED
    BY <2>1, <2>3 DEF Run
<1>6. (b + n) % N \in 0 .. N - 1
  BY Places
<1> QED
  BY <1>1, <1>2, <1>3, <1>4, <1>5, <1>6

(* A run grows at its end and shrinks at its beginning.                    *)
LEMMA RunGrows ==
    ASSUME NEW N \in Nat \ {0}, NEW b \in 0 .. N - 1, NEW n \in 0 .. N - 1
    PROVE  Run(b, n, N) \cup {(b + n) % N} = Run(b, n + 1, N)
<1>1. 0 .. (n + 1) - 1 = (0 .. n - 1) \cup {n}
  OBVIOUS
<1> QED
  BY <1>1 DEF Run

LEMMA RunShrinks ==
    ASSUME NEW N \in Nat \ {0}, NEW b \in 0 .. N - 1, NEW n \in 1 .. N
    PROVE  Run(b, n, N) \ {b} = Run((b + 1) % N, n - 1, N)
<1> DEFINE next == (b + 1) % N
<1>1. ASSUME NEW k \in 0 .. N - 1, k > 0 PROVE (next + (k - 1)) % N = (b + k) % N
  BY <1>1, Places
<1>2. (b + 0) % N = b
  BY OneTurn
<1>3. ASSUME NEW k \in 0 .. n - 1, (b + k) % N # b
      PROVE  (b + k) % N \in Run(next, n - 1, N)
  <2>1. k > 0
    BY <1>2, <1>3
  <2>2. k - 1 \in 0 .. (n - 1) - 1 /\ (next + (k - 1)) % N = (b + k) % N
    BY <1>1, <2>1
  <2> QED
    BY <2>2 DEF Run
<1>4. ASSUME NEW j \in 0 .. (n - 1) - 1
      PROVE  (next + j) % N \in Run(b, n, N) /\ (next + j) % N # b
  <2>1. j + 1 \in 0 .. n - 1 /\ (next + j) % N = (b + (j + 1)) % N
    <3>1. (next + ((j + 1) - 1)) % N = (b + (j + 1)) % N
      BY <1>1
    <3> QED
      BY <3>1
  <2>2. (b + (j + 1)) % N # (b + 0) % N
    BY <2>1, Apart
  <2> QED
    BY <1>2, <2>1, <2>2 DEF Run
<1> QED
  BY <1>3, <1>4 DEF Run

-----------------------------------------------------------------------------
(* A ring whose marked places are a run *)

(* The first place is marked unless none is, the next only if all are.     *)
LEMMA RingEnds ==
    ASSUME NEW N \in Nat \ {0}, NEW marked, NEW first \in 0 .. N - 1, NEW next,
           RingAgrees(marked, first, next, N)
    PROVE  /\ marked \subseteq 0 .. N - 1 /\ next \in 0 .. N - 1
           /\ first \in marked <=> marked # {}
           /\ next \in marked <=> marked = 0 .. N - 1
<1> PICK n \in 0 .. N : marked = Run(first, n, N) /\ next = (first + n) % N
  BY DEF RingAgrees
<1>1. n = 0 => marked = {}
  BY DEF Run
<1>2. marked \subseteq 0 .. N - 1 /\ (next \in marked <=> marked = 0 .. N - 1)
  BY RunHolds
<1>3. first \in marked <=> n > 0
  BY RunHolds
<1>4. next \in 0 .. N - 1
  BY Places
<1> QED
  BY <1>1, <1>2, <1>3, <1>4

(* The next place may be marked, and the first one unmarked.               *)
LEMMA RingPush ==
    ASSUME NEW N \in Nat \ {0}, NEW marked, NEW first \in 0 .. N - 1, NEW next,
           RingAgrees(marked, first, next, N), next \notin marked
    PROVE  RingAgrees(marked \cup {next}, first, (next + 1) % N, N)
<1> PICK n \in 0 .. N : marked = Run(first, n, N) /\ next = (first + n) % N
  BY DEF RingAgrees
<1>1. n \in 0 .. N - 1 /\ n < N /\ n + 1 \in 0 .. N
  <2>1. n # N
    BY RunHolds
  <2> QED
    BY <2>1
<1>2. marked \cup {next} = Run(first, n + 1, N)
  BY <1>1, RunGrows
<1>3. (next + 1) % N = (first + (n + 1)) % N
  BY <1>1, Places
<1> QED
  BY <1>1, <1>2, <1>3 DEF RingAgrees

LEMMA RingPop ==
    ASSUME NEW N \in Nat \ {0}, NEW marked, NEW first \in 0 .. N - 1, NEW next,
           RingAgrees(marked, first, next, N), first \in marked
    PROVE  RingAgrees(marked \ {first}, (first + 1) % N, next, N)
<1> PICK n \in 0 .. N : marked = Run(first, n, N) /\ next = (first + n) % N
  BY DEF RingAgrees
<1>1. n \in 1 .. N /\ n - 1 \in 0 .. N
  <2>1. n # 0
    BY RunHolds
  <2> QED
    BY <2>1
<1>2. marked \ {first} = Run((first + 1) % N, n - 1, N)
  BY <1>1, RunShrinks
<1>3. next = (((first + 1) % N) + (n - 1)) % N
  BY <1>1, Places
<1> QED
  BY <1>1, <1>2, <1>3 DEF RingAgrees

-----------------------------------------------------------------------------
(* The driver and the MAC *)

RingInv == DriverTypeOK /\ RingsAgree

LEMMA RingInit == DriverInit => RingInv
<1> SUFFICES ASSUME DriverInit PROVE RingInv
  OBVIOUS
<1>1. DriverTypeOK
  <2>1. 0 \in TxBd /\ 0 \in RxBd
    BY RingAssumption DEF TxBd, RxBd
  <2> QED
    BY <2>1 DEF DriverInit, DriverTypeOK
<1>2. ASSUME NEW N \in Nat \ {0} PROVE RingAgrees({}, 0, 0, N)
  <2>1. Run(0, 0, N) = {}
    BY DEF Run
  <2>2. (0 + 0) % N = 0
    BY OneTurn
  <2> QED
    BY <2>1, <2>2 DEF RingAgrees
<1> QED
  BY <1>1, <1>2, RingAssumption DEF DriverInit, RingInv, RingsAgree

(* What of the rings an operation leaves alone goes on agreeing.           *)
LEMMA NextOnRing ==
    /\ \A i \in TxBd : NextTx(i) \in TxBd
    /\ \A i \in RxBd : NextRx(i) \in RxBd
BY RingAssumption, Places DEF TxBd, RxBd, NextTx, NextRx

LEMMA FillRing == RingInv /\ FillTxBd => RingInv'
<1> SUFFICES ASSUME RingInv, FillTxBd PROVE RingInv'
  OBVIOUS
<1>1. DriverTypeOK'
  BY NextOnRing DEF RingInv, DriverTypeOK, FillTxBd, rxVars, TxBd, RxBd
<1>2. RingAgrees(txReady \cup {txBdCurrent}, txDma, (txBdCurrent + 1) % TxBds, TxBds)
  BY RingPush, RingAssumption DEF RingInv, DriverTypeOK, RingsAgree, FillTxBd, TxFrameBusy, TxBd
<1> QED
  BY <1>1, <1>2 DEF RingInv, RingsAgree, FillTxBd, rxVars, NextTx

LEMMA TransmitRing == RingInv /\ Transmit => RingInv'
<1> SUFFICES ASSUME RingInv, Transmit PROVE RingInv'
  OBVIOUS
<1>1. DriverTypeOK'
  BY NextOnRing DEF RingInv, DriverTypeOK, Transmit, rxVars, TxBd, RxBd
<1>2. RingAgrees(txReady \ {txDma}, (txDma + 1) % TxBds, txBdCurrent, TxBds)
  BY RingPop, RingAssumption DEF RingInv, DriverTypeOK, RingsAgree, Transmit, TxBd
<1> QED
  BY <1>1, <1>2 DEF RingInv, RingsAgree, Transmit, rxVars, NextTx

LEMMA UpdateRing == RingInv /\ UpdateRxBd /\ ~RxFrameEmpty => RingInv'
<1> SUFFICES ASSUME RingInv, UpdateRxBd, ~RxFrameEmpty PROVE RingInv'
  OBVIOUS
<1>1. DriverTypeOK'
  BY NextOnRing DEF RingInv, DriverTypeOK, UpdateRxBd, txVars, TxBd, RxBd
<1>2. RingAgrees(rxFull \ {rxBdCurrent}, (rxBdCurrent + 1) % RxBds, rxDma, RxBds)
  BY RingPop, RingAssumption DEF RingInv, DriverTypeOK, RingsAgree, RxFrameEmpty, RxBd
<1> QED
  BY <1>1, <1>2 DEF RingInv, RingsAgree, UpdateRxBd, txVars, NextRx

LEMMA ReceiveRing == RingInv /\ Receive => RingInv'
<1> SUFFICES ASSUME RingInv, Receive PROVE RingInv'
  OBVIOUS
<1>1. DriverTypeOK'
  BY NextOnRing DEF RingInv, DriverTypeOK, Receive, txVars, TxBd, RxBd
<1>2. RingAgrees(rxFull \cup {rxDma}, rxBdCurrent, (rxDma + 1) % RxBds, RxBds)
  BY RingPush, RingAssumption DEF RingInv, DriverTypeOK, RingsAgree, Receive, RxBd
<1> QED
  BY <1>1, <1>2 DEF RingInv, RingsAgree, Receive, txVars, NextRx

(* The other operations touch registers only, and none of them breaks it.  *)
LEMMA RegistersRing ==
    ASSUME RingInv, \/ ENET_ActiveSend \/ ActivateRead \/ StopTransmit \/ StopReceive
                    \/ \E e \in {"tx", "rx"} : ClearEvent(e)
                    \/ UNCHANGED driverVars
    PROVE  RingInv'
<1>1. UNCHANGED <<txReady, txBdCurrent, txDma, rxFull, rxBdCurrent, rxDma>>
  BY DEF ENET_ActiveSend, ActivateRead, StopTransmit, StopReceive, ClearEvent, driverVars,
         txVars, rxVars
<1>2. DriverTypeOK'
  BY <1>1 DEF RingInv, DriverTypeOK, ENET_ActiveSend, ActivateRead, StopTransmit, StopReceive,
              ClearEvent, driverVars, txVars, rxVars, TxBd, RxBd
<1> QED
  BY <1>1, <1>2 DEF RingInv, RingsAgree

-----------------------------------------------------------------------------
(* The rings *)

(* All that a step of the system does to driver and MAC.                   *)
LEMMA DriverSteps ==
    ASSUME [Next]_vars
    PROVE  \/ FillTxBd \/ Transmit \/ Receive
           \/ (UpdateRxBd /\ ~RxFrameEmpty)
           \/ ENET_ActiveSend \/ ActivateRead \/ StopTransmit \/ StopReceive
           \/ \E e \in {"tx", "rx"} : ClearEvent(e)
           \/ UNCHANGED driverVars
<1>1. CASE Handler
  BY <1>1 DEF Handler, TxClear, TxCallback, TxReturn, ReceiveIRQ, RxClear, InputEmpty, InputDrop,
              InputRead, InputDropped, InputDeliver, RxReturn, DropFrame, ENET_ReadFrame
<1>2. CASE TaskStep
  <2>1. CASE \E s \in Sender : SenderStep(s)
    BY <2>1 DEF SenderStep, enet_send_frame, ethernetif_linkoutput, SendBusy, SendFilled,
                SendDone, WaitForTxFlag, WaitReturns
  <2> QED
    BY <1>2, <2>1 DEF TaskStep, TcpipStep
<1>3. CASE TimerTask
  BY <1>3 DEF TimerTask
<1>4. CASE MacStep
  BY <1>4 DEF MacStep, Mac
<1>5. CASE UNCHANGED vars
  BY <1>5 DEF vars
<1> QED
  BY <1>1, <1>2, <1>3, <1>4, <1>5 DEF Next

LEMMA RingStep == RingInv /\ [Next]_vars => RingInv'
BY DriverSteps, FillRing, TransmitRing, UpdateRing, ReceiveRing, RegistersRing

(* The driver and the MAC agree about both rings, whatever the handlers    *)
(* and the tasks do at either end: for every number of descriptors.        *)
THEOREM RingConsistency == Spec => []RingsAgree
<1>1. Init => RingInv
  BY RingInit DEF Init
<1>2. RingInv => RingsAgree
  BY DEF RingInv
<1> QED
  BY <1>1, <1>2, RingStep, PTL DEF Spec

-----------------------------------------------------------------------------
(* The receive interrupt *)

(* What a step of a task or of the timer task leaves alone.                *)
LEMMA TasksLeaveReceiver ==
    ASSUME TaskStep \/ TimerTask \/ UNCHANGED vars
    PROVE  UNCHANGED <<rxVars, EIR, irq, cutShort>>
<1>1. CASE TaskStep
  <2>1. CASE \E s \in Sender : SenderStep(s)
    BY <1>1, <2>1 DEF TaskStep, SenderStep, enet_send_frame, ethernetif_linkoutput, SendBusy,
       SendFilled, SendDone, WaitForTxFlag, WaitReturns, FillTxBd, ENET_ActiveSend, driverVars
  <2> QED
    BY <1>1, <2>1 DEF TaskStep, TcpipStep, driverVars
<1>2. CASE TimerTask \/ UNCHANGED vars
  BY <1>2 DEF TimerTask, vars, driverVars
<1> QED
  BY <1>1, <1>2

(* A ring that is full has an interrupt on its way: the frame that filled  *)
(* it raised the event, and the handler that clears it goes on to read.    *)
THEOREM ReceiverNeverDeaf == Spec => []NeverDeaf
<1> DEFINE Inv == RingInv /\ NeverDeaf
<1>1. Init => Inv
  <2> SUFFICES ASSUME Init PROVE NeverDeaf
    BY RingInit DEF Init
  <2> QED
    BY RingAssumption DEF Init, DriverInit, NeverDeaf, RxBd
<1>2. Inv /\ [Next]_vars => Inv'
  <2> SUFFICES ASSUME Inv, [Next]_vars PROVE NeverDeaf'
    BY RingStep
  <2>0. rxFull \subseteq RxBd /\ 0 \in RxBd /\ rxBdCurrent \in RxBd
    BY RingAssumption DEF RingInv, DriverTypeOK, RxBd
  <2> USE <2>0 DEF NeverDeaf
  <2>1. CASE TxClear \/ TxCallback \/ TxReturn
    BY <2>1 DEF TxClear, TxCallback, TxReturn, ClearEvent, driverVars, rxVars
  <2>2. CASE RxClear \/ RxReturn
    BY <2>2 DEF RxClear, RxReturn, ClearEvent, driverVars, rxVars
  <2>3. CASE InputEmpty
    BY <2>3 DEF InputEmpty, RxFrameEmpty, driverVars, rxVars
  <2>4. CASE InputDrop \/ InputRead
    <3>1. rxFull' # RxBd
      BY <2>4 DEF InputDrop, InputRead, DropFrame, ENET_ReadFrame, UpdateRxBd
    <3> QED
      BY <3>1 DEF RxBd
  <2>5. CASE InputDropped \/ InputDeliver
    BY <2>5 DEF InputDropped, InputDeliver, ActivateRead
  <2>6. CASE TaskStep \/ TimerTask \/ UNCHANGED vars
    BY <2>6, TasksLeaveReceiver DEF rxVars, RxBd
  <2>7. CASE MacStep
    BY <2>7 DEF MacStep, Mac, Transmit, StopTransmit, Receive, StopReceive, rxVars
  <2> QED
    BY <2>1, <2>2, <2>3, <2>4, <2>5, <2>6, <2>7 DEF Next, Handler, ReceiveIRQ
<1> QED
  BY <1>1, <1>2, PTL DEF Spec

(* A frame that was received is read, unless the reading ended at one that *)
(* was dropped; the step from "dropped" to "rx" must remember which.       *)
THEOREM FramesRead == Spec => []ReadUnlessDropped
<1> DEFINE Inv == (irq = "dropped" => cutShort) /\ ReadUnlessDropped
<1>1. Init => Inv
  BY DEF Init, DriverInit, ReadUnlessDropped, RxFrameEmpty
<1>2. Inv /\ [Next]_vars => Inv'
  <2> SUFFICES ASSUME Inv, [Next]_vars PROVE Inv'
    OBVIOUS
  <2> USE DEF ReadUnlessDropped, RxFrameEmpty
  <2>1. CASE TxClear \/ TxCallback \/ TxReturn
    BY <2>1 DEF TxClear, TxCallback, TxReturn, ClearEvent, driverVars, rxVars
  <2>2. CASE (RxClear \/ RxReturn) /\ UNCHANGED cutShort
    BY <2>2 DEF RxClear, RxReturn, ClearEvent, driverVars, rxVars
  <2>3. CASE InputEmpty
    BY <2>3 DEF InputEmpty, driverVars, rxVars
  <2>4. CASE InputDrop \/ InputRead \/ InputDropped \/ InputDeliver
    BY <2>4 DEF InputDrop, InputRead, InputDropped, InputDeliver, ActivateRead
  <2>5. CASE TaskStep \/ TimerTask \/ UNCHANGED vars
    BY <2>5, TasksLeaveReceiver DEF rxVars
  <2>6. CASE MacStep
    BY <2>6 DEF MacStep, Mac, Transmit, StopTransmit, Receive, StopReceive, rxVars
  <2> QED
    BY <2>1, <2>2, <2>3, <2>4, <2>5, <2>6 DEF Next, Handler, ReceiveIRQ, RxReturn
<1>3. Inv => ReadUnlessDropped
  OBVIOUS
<1> QED
  BY <1>1, <1>2, <1>3, PTL DEF Spec

-----------------------------------------------------------------------------
(* The core lock *)

Outside == {"away", "fetch", "lock"}
Inside == {"locked", "send", "activate", "wait", "blocked"}

LockInv ==
    /\ pc \in [Sender -> Outside \cup Inside]
    /\ lock \in Sender \cup {NULL}
    /\ \A s \in Sender : IF pc[s] \in Inside THEN lock = s ELSE lock # s

(* Every step of a sender keeps it inside the stack or outside, takes the  *)
(* lock and enters, or releases it and leaves.                             *)
LEMMA SenderMoves ==
    ASSUME LockInv, NEW s \in Sender, SenderStep(s)
    PROVE  \E l \in Outside \cup Inside :
              /\ pc' = [pc EXCEPT ![s] = l]
              /\ \/ pc[s] \in Inside /\ l \in Inside /\ lock' = lock
                 \/ pc[s] \in Outside /\ l \in Outside /\ lock' = lock
                 \/ pc[s] \in Outside /\ l \in Inside /\ lock = NULL /\ lock' = s
                 \/ pc[s] \in Inside /\ l \in Outside /\ lock' = NULL
<1>1. CASE enet_send_frame(s)
  BY <1>1 DEF enet_send_frame, SendBusy, SendFilled, SendDone, WaitForTxFlag, WaitReturns, Goto,
              Inside
<1>2. CASE ethernetif_linkoutput(s)
  BY <1>2 DEF ethernetif_linkoutput, Goto, Inside
<1>3. CASE LOCK_TCPIP_CORE(s)
  BY <1>3 DEF LOCK_TCPIP_CORE, Goto, Inside, Outside
<1>4. CASE UNLOCK_TCPIP_CORE(s)
  BY <1>4 DEF UNLOCK_TCPIP_CORE, Goto, Inside, Outside
<1>5. CASE AppCalls(s)
  BY <1>5 DEF AppCalls, Goto, Outside
<1> QED
  BY <1>1, <1>2, <1>3, <1>4, <1>5 DEF SenderStep

LEMMA LockInit == Init => LockInv
BY EnetAssumption DEF Init, LockInv, Inside, Outside

LEMMA LockStep == LockInv /\ [Next]_vars => LockInv'
<1> SUFFICES ASSUME LockInv, [Next]_vars PROVE LockInv'
  OBVIOUS
<1>1. CASE TaskStep
  <2>1. ASSUME NEW s \in Sender, SenderStep(s) PROVE LockInv'
    <3>1. PICK l \in Outside \cup Inside :
              /\ pc' = [pc EXCEPT ![s] = l]
              /\ \/ pc[s] \in Inside /\ l \in Inside /\ lock' = lock
                 \/ pc[s] \in Outside /\ l \in Outside /\ lock' = lock
                 \/ pc[s] \in Outside /\ l \in Inside /\ lock = NULL /\ lock' = s
                 \/ pc[s] \in Inside /\ l \in Outside /\ lock' = NULL
      BY <2>1, SenderMoves
    <3> QED
      BY <3>1, EnetAssumption DEF LockInv, Inside, Outside
  <2>2. CASE tcpip_timeouts_mbox_fetch
    BY <2>2 DEF tcpip_timeouts_mbox_fetch, Goto, LockInv, Inside, Outside, Sender
  <2>3. CASE HandleInpkt \/ AppFrees
    BY <2>3 DEF HandleInpkt, AppFrees, LockInv
  <2> QED
    BY <1>1, <2>1, <2>2, <2>3 DEF TaskStep, TcpipStep
<1>2. CASE Handler \/ TimerTask \/ MacStep \/ UNCHANGED vars
  BY <1>2 DEF Handler, TimerTask, MacStep, vars, LockInv
<1> QED
  BY <1>1, <1>2 DEF Next

-----------------------------------------------------------------------------
(* The event group and its commands *)

GroupInv ==
    /\ exists = TRUE
    /\ uxEventBits \subseteq {"tx"}
    /\ xTasksWaitingForBits \subseteq Sender
    /\ call \in [Sender -> {NULL, TxFlagCall}]
    /\ wokenWith \in [Sender -> {NULL} \cup SUBSET {"tx"}]
    /\ \A s \in Sender : pc[s] = "blocked" <=> call[s] # NULL
    /\ \A s \in Sender :
          /\ s \in xTasksWaitingForBits <=> call[s] # NULL /\ wokenWith[s] = NULL
          /\ call[s] = NULL => wokenWith[s] = NULL

CommandInv ==
    /\ xTimerQueue \in Seq({TxSet}) /\ Len(xTimerQueue) <= QueueLength
    /\ running \in {NULL, TxSet}

LEMMA CommandStep == CommandInv /\ [Next]_vars => CommandInv'
<1> SUFFICES ASSUME CommandInv, [Next]_vars PROVE CommandInv'
  OBVIOUS
<1> USE DEF CommandInv
<1>1. CASE TxCallback /\ UNCHANGED running
  BY <1>1, QueueLengthAssumption DEF TxCallback, Group!xEventGroupSetBitsFromISR, Group!SendCommand,
     Group!Accepted, TxSet
<1>2. CASE Group!TakeCommand
  <2>1. xTimerQueue # <<>> /\ xTimerQueue' = Tail(xTimerQueue) /\ running' = Head(xTimerQueue)
    BY <1>2 DEF Group!TakeCommand, Group!ReceiveCommand
  <2>2. /\ Head(xTimerQueue) \in {TxSet} /\ Tail(xTimerQueue) \in Seq({TxSet})
        /\ Len(Tail(xTimerQueue)) = Len(xTimerQueue) - 1 /\ Len(xTimerQueue) \in Nat
    BY <2>1
  <2> QED
    BY <2>1, <2>2, QueueLengthAssumption
<1>3. CASE Group!Callback /\ UNCHANGED xTimerQueue
  BY <1>3 DEF Group!Callback
<1>4. CASE UNCHANGED <<xTimerQueue, running>>
  BY <1>4
<1> QED
  BY <1>1, <1>2, <1>3, <1>4 DEF Next, Handler, TxClear, TxReturn, TaskStep, TimerTask, MacStep, vars

LEMMA GroupInit == Init => GroupInv /\ CommandInv
<1> SUFFICES ASSUME Init PROVE GroupInv /\ CommandInv
  OBVIOUS
<1>1. Group!Init /\ \A s \in Sender : pc[s] # "blocked"
  BY DEF Init
<1> QED
  BY <1>1, QueueLengthAssumption DEF Group!Init, GroupInv, CommandInv

(* The flag of a wait: it is satisfied by the one bit, and then clears it. *)
LEMMA OneFlag ==
    ASSUME NEW bits \in SUBSET {"tx"}
    PROVE  /\ Group!WaitCondition(TxFlagCall, bits) <=> bits # {}
           /\ bits \ Group!ClearedOnExit(TxFlagCall, bits) = {}
           /\ Group!ClearedOnExit(TxFlagCall, bits) = bits
BY DEF Group!WaitCondition, Group!ClearedOnExit, TxFlagCall

LEMMA WaitStep ==
    ASSUME GroupInv, LockInv, NEW s \in Sender, WaitForTxFlag(s)
    PROVE  /\ GroupInv'
           /\ IF uxEventBits # {}
                THEN xTasksWaitingForBits' = xTasksWaitingForBits /\ pc'[s] = "send"
                ELSE xTasksWaitingForBits' = xTasksWaitingForBits \cup {s} /\ pc'[s] = "blocked"
           /\ uxEventBits' = {}
<1>1. /\ exists' = exists /\ wokenWith' = wokenWith /\ call[s] = NULL
      /\ pc[s] = "wait"
      /\ pc' = [pc EXCEPT ![s] = IF call'[s] = NULL THEN "send" ELSE "blocked"]
  BY DEF WaitForTxFlag, Group!xEventGroupWaitBits, Goto
<1>2. TxFlagCall.ticks # "none"
  BY DEF TxFlagCall
<1>3. CASE uxEventBits # {}
  <2>1. uxEventBits' = {} /\ UNCHANGED <<xTasksWaitingForBits, call>>
    BY <1>3, OneFlag DEF WaitForTxFlag, Group!xEventGroupWaitBits, GroupInv
  <2> QED
    BY <1>1, <1>3, <2>1 DEF GroupInv, LockInv
<1>4. CASE uxEventBits = {}
  <2>1. /\ xTasksWaitingForBits' = xTasksWaitingForBits \cup {s}
        /\ call' = [call EXCEPT ![s] = TxFlagCall]
        /\ uxEventBits' = uxEventBits
    BY <1>2, <1>4, OneFlag DEF WaitForTxFlag, Group!xEventGroupWaitBits, GroupInv
  <2>2. call'[s] # NULL /\ pc'[s] = "blocked"
    BY <1>1, <2>1, EnetAssumption DEF GroupInv, LockInv
  <2>3. wokenWith[s] = NULL
    BY <1>1 DEF GroupInv
  <2> QED
    BY <1>1, <1>4, <2>1, <2>2, <2>3 DEF GroupInv, LockInv
<1> QED
  BY <1>3, <1>4

(* The set releases everyone: it satisfies every wait for the one flag.    *)
LEMMA CallbackStep ==
    ASSUME GroupInv, CommandInv, Group!Callback, UNCHANGED pc
    PROVE  /\ GroupInv' /\ xTasksWaitingForBits' = {}
           /\ xTasksWaitingForBits = {} => uxEventBits' = {"tx"}
<1>1. running = TxSet /\ TxSet.op = "set" /\ TxSet.bits = {"tx"}
  BY DEF Group!Callback, CommandInv, TxSet
<1>2. Group!xEventGroupSetBits({"tx"})
  BY <1>1 DEF Group!Callback
<1>3. uxEventBits \cup {"tx"} = {"tx"}
  BY DEF GroupInv
<1>4. Group!Released({"tx"}) = xTasksWaitingForBits
  <2>1. \A t \in xTasksWaitingForBits : call[t] = TxFlagCall
    BY DEF GroupInv
  <2> QED
    BY <1>3, <2>1, OneFlag DEF Group!Released, Group!Satisfied, GroupInv
<1>5. /\ xTasksWaitingForBits' = {} /\ call' = call /\ exists' = exists
      /\ wokenWith' = [t \in Sender |-> IF t \in xTasksWaitingForBits THEN {"tx"} ELSE wokenWith[t]]
      /\ uxEventBits' = {"tx"} \ Group!uxBitsToClear({"tx"})
  BY <1>2, <1>3, <1>4 DEF Group!xEventGroupSetBits, Group!SetAndRelease
<1>6. NULL # {"tx"}
  BY EnetAssumption
<1>7. xTasksWaitingForBits = {} => Group!uxBitsToClear({"tx"}) = {}
  BY DEF Group!uxBitsToClear, Group!Satisfied
<1> QED
  BY <1>5, <1>6, <1>7 DEF GroupInv

LEMMA GroupStep == GroupInv /\ CommandInv /\ LockInv /\ [Next]_vars => GroupInv'
<1> SUFFICES ASSUME GroupInv, CommandInv, LockInv, [Next]_vars PROVE GroupInv'
  OBVIOUS
<1>1. CASE \E s \in Sender : WaitForTxFlag(s)
  BY <1>1, WaitStep
<1>2. ASSUME NEW s \in Sender, WaitReturns(s) PROVE GroupInv'
  <2>1. /\ pc' = [pc EXCEPT ![s] = "send"]
        /\ call' = [call EXCEPT ![s] = NULL] /\ wokenWith' = [wokenWith EXCEPT ![s] = NULL]
        /\ UNCHANGED <<exists, uxEventBits, xTasksWaitingForBits>>
        /\ wokenWith[s] # NULL
    BY <1>2 DEF WaitReturns, Group!ReturnWoken, Goto
  <2> QED
    BY <2>1 DEF GroupInv, LockInv
<1>3. CASE Group!Callback /\ UNCHANGED pc
  BY <1>3, CallbackStep
<1>4. ASSUME UNCHANGED groupVars, NEW s \in Sender, NEW l \in (Outside \cup Inside) \ {"blocked"},
             pc[s] # "blocked", pc' = [pc EXCEPT ![s] = l]
      PROVE  GroupInv'
  BY <1>4 DEF GroupInv, groupVars, LockInv
<1>5. CASE UNCHANGED <<groupVars, pc>>
  BY <1>5 DEF GroupInv, groupVars
<1>6. CASE TaskStep
  <2>1. ASSUME NEW s \in Sender, SenderStep(s) PROVE GroupInv'
    <3>1. CASE SendBusy(s) \/ SendFilled(s) \/ SendDone(s) \/ ethernetif_linkoutput(s)
      BY <1>4, <3>1 DEF SendBusy, SendFilled, SendDone, ethernetif_linkoutput, Goto, Inside
    <3>2. CASE /\ LOCK_TCPIP_CORE(s) \/ UNLOCK_TCPIP_CORE(s) \/ AppCalls(s)
               /\ UNCHANGED groupVars
      BY <1>4, <3>2 DEF LOCK_TCPIP_CORE, UNLOCK_TCPIP_CORE, AppCalls, Goto, Inside, Outside
    <3> QED
      BY <1>1, <1>2, <2>1, <3>1, <3>2 DEF SenderStep, enet_send_frame
  <2>2. CASE tcpip_timeouts_mbox_fetch /\ UNCHANGED groupVars
    <3>1. Tcpip \in Sender
      BY DEF Sender
    <3> QED
      BY <1>4, <2>2, <3>1 DEF tcpip_timeouts_mbox_fetch, Goto, Outside
  <2>3. CASE (HandleInpkt \/ AppFrees) /\ UNCHANGED groupVars
    BY <1>5, <2>3 DEF HandleInpkt, AppFrees
  <2> QED
    BY <1>6, <2>1, <2>2, <2>3 DEF TaskStep, TcpipStep
<1>7. CASE Handler \/ TimerTask \/ MacStep \/ UNCHANGED vars
  BY <1>3, <1>5, <1>7 DEF Handler, TimerTask, MacStep, vars
<1> QED
  BY <1>6, <1>7 DEF Next

-----------------------------------------------------------------------------
(* Packets *)

Irq == {"idle", "tx", "txCallback", "rx", "input", "dropped", "read"}

PacketInv ==
    /\ freePbufs \in Nat /\ freeInpkts \in Nat /\ tcpip_mbox \in Nat /\ kept \in Nat
    /\ msg \in BOOLEAN
    /\ tcpip_mbox <= MboxSize
    /\ irq \in Irq
    /\ pc[Tcpip] = "fetch" => ~msg
    /\ PbufsConserved

(* The packet the handler has just read, and the one the thread has in hand. *)
InRead == IF irq = "read" THEN 1 ELSE 0
InHand == IF msg THEN 1 ELSE 0

LEMMA Counted ==
    PbufsConserved <=>
        /\ freePbufs + InRead + tcpip_mbox + InHand + kept = PoolSize
        /\ freeInpkts + tcpip_mbox + InHand = InpktNum
BY DEF PbufsConserved, InRead, InHand

LEMMA PacketInit == Init => PacketInv
<1> SUFFICES ASSUME Init PROVE PacketInv
  OBVIOUS
<1>1. InRead = 0 /\ InHand = 0 /\ ~msg /\ msg \in BOOLEAN
  BY DEF Init, InRead, InHand
<1>2. PbufsConserved
  BY <1>1, Counted, EnetAssumption DEF Init
<1> QED
  BY <1>1, <1>2, EnetAssumption DEF Init, PacketInv, Irq

LEMMA PacketStep == PacketInv /\ LockInv /\ [Next]_vars => PacketInv'
<1> SUFFICES ASSUME PacketInv, LockInv, [Next]_vars PROVE PacketInv'
  OBVIOUS
<1>0. /\ Tcpip \in Sender /\ pc \in [Sender -> Outside \cup Inside]
      /\ PoolSize \in Nat /\ InpktNum \in Nat /\ MboxSize \in Nat
      /\ InRead \in Nat /\ InHand \in Nat
  BY EnetAssumption DEF Sender, LockInv, InRead, InHand
<1>1. /\ freePbufs + InRead + tcpip_mbox + InHand + kept = PoolSize
      /\ freeInpkts + tcpip_mbox + InHand = InpktNum
  BY Counted DEF PacketInv
<1>2. ASSUME /\ (freePbufs + InRead + tcpip_mbox + InHand + kept)' = PoolSize
             /\ (freeInpkts + tcpip_mbox + InHand)' = InpktNum
      PROVE  PbufsConserved'
  BY <1>2 DEF PbufsConserved, InRead, InHand
<1>3. CASE /\ UNCHANGED <<inputVars, pc>>
           /\ \/ irq' = irq
              \/ irq' \in Irq \ {"read"} /\ irq # "read"
  <2>1. InRead' = InRead /\ InHand' = InHand
    BY <1>3 DEF InRead, InHand, inputVars
  <2> QED
    BY <1>1, <1>2, <1>3, <2>1 DEF PacketInv, inputVars
<1>4. CASE InputRead /\ UNCHANGED pc
  <2>1. InRead = 0 /\ InRead' = 1 /\ InHand' = InHand
    BY <1>4 DEF InputRead, InRead, InHand
  <2> QED
    BY <1>0, <1>1, <1>2, <1>4, <2>1 DEF PacketInv, InputRead, Irq
<1>5. CASE InputDeliver /\ UNCHANGED pc
  <2>1. InRead = 1 /\ InRead' = 0 /\ InHand' = InHand
    BY <1>5 DEF InputDeliver, InRead, InHand
  <2>2. CASE Delivered /\ freeInpkts > 0 /\ tcpip_mbox < MboxSize
    BY <1>0, <1>1, <1>2, <1>5, <2>1, <2>2 DEF PacketInv, InputDeliver, Delivered, Irq
  <2>3. CASE NotDelivered
    BY <1>0, <1>1, <1>2, <1>5, <2>1, <2>3 DEF PacketInv, InputDeliver, NotDelivered, Irq
  <2> QED
    BY <1>5, <2>2, <2>3 DEF InputDeliver
<1>6. CASE tcpip_timeouts_mbox_fetch /\ UNCHANGED irq
  <2>1. InRead' = InRead /\ ~msg /\ InHand = 0
    BY <1>6 DEF tcpip_timeouts_mbox_fetch, InRead, InHand, PacketInv
  <2>2. pc'[Tcpip] # "fetch"
    BY <1>0, <1>6 DEF tcpip_timeouts_mbox_fetch, Goto
  <2>3. CASE tcpip_mbox > 0 /\ tcpip_mbox' = tcpip_mbox - 1 /\ msg' = TRUE
    <3>1. InHand' = 1
      BY <2>3 DEF InHand
    <3>2. /\ PbufsConserved' /\ tcpip_mbox' \in Nat /\ tcpip_mbox' <= MboxSize
          /\ UNCHANGED <<freePbufs, freeInpkts, kept>>
      BY <1>0, <1>1, <1>2, <1>6, <2>1, <2>3, <3>1 DEF PacketInv, tcpip_timeouts_mbox_fetch
    <3> QED
      BY <1>6, <2>2, <2>3, <3>2 DEF PacketInv
  <2>4. CASE UNCHANGED <<tcpip_mbox, msg>>
    <3>1. InHand' = InHand
      BY <2>4 DEF InHand
    <3> QED
      BY <1>0, <1>1, <1>2, <1>6, <2>1, <2>2, <2>4, <3>1 DEF PacketInv, tcpip_timeouts_mbox_fetch
  <2> QED
    BY <1>6, <2>3, <2>4 DEF tcpip_timeouts_mbox_fetch
<1>7. CASE HandleInpkt /\ UNCHANGED irq
  <2>1. InRead' = InRead /\ InHand = 1 /\ InHand' = 0
    BY <1>7 DEF HandleInpkt, InRead, InHand
  <2>2. /\ PbufsConserved' /\ freePbufs' \in Nat /\ kept' \in Nat /\ freeInpkts' \in Nat
        /\ UNCHANGED <<pc, tcpip_mbox>>
    BY <1>0, <1>1, <1>2, <1>7, <2>1 DEF PacketInv, HandleInpkt
  <2>3. msg' = FALSE
    BY <1>7 DEF HandleInpkt
  <2> QED
    BY <1>7, <2>2, <2>3 DEF PacketInv
<1>8. CASE AppFrees /\ UNCHANGED irq
  <2>1. InRead' = InRead /\ InHand' = InHand
    BY <1>8 DEF AppFrees, InRead, InHand
  <2>2. /\ PbufsConserved' /\ freePbufs' \in Nat /\ kept' \in Nat
        /\ UNCHANGED <<pc, freeInpkts, tcpip_mbox, msg>>
    BY <1>0, <1>1, <1>2, <1>8, <2>1 DEF PacketInv, AppFrees
  <2> QED
    BY <1>8, <2>2 DEF PacketInv
<1>9. ASSUME NEW s \in Sender, SenderStep(s), UNCHANGED irq PROVE PacketInv'
  <2>1. UNCHANGED inputVars
    BY <1>9 DEF SenderStep, enet_send_frame, ethernetif_linkoutput, LOCK_TCPIP_CORE,
                UNLOCK_TCPIP_CORE, AppCalls
  <2>2. InRead' = InRead /\ InHand' = InHand
    BY <1>9, <2>1 DEF InRead, InHand, inputVars
  <2>3. pc'[Tcpip] = "fetch" => ~msg
    <3>1. CASE UNLOCK_TCPIP_CORE(s)
      BY <1>0, <1>9, <3>1 DEF UNLOCK_TCPIP_CORE, Goto, PacketInv
    <3>2. CASE ~UNLOCK_TCPIP_CORE(s)
      BY <1>0, <1>9, <3>2 DEF SenderStep, enet_send_frame, SendBusy, SendFilled, SendDone,
         WaitForTxFlag, WaitReturns, ethernetif_linkoutput, LOCK_TCPIP_CORE, AppCalls, Goto,
         PacketInv
    <3> QED
      BY <3>1, <3>2
  <2> QED
    BY <1>1, <1>2, <1>9, <2>1, <2>2, <2>3 DEF PacketInv, inputVars
<1>10. CASE Handler
  <2>1. CASE TxClear \/ TxCallback \/ TxReturn
    BY <1>3, <1>10, <2>1 DEF Handler, TxClear, TxCallback, TxReturn, Irq
  <2>2. CASE \/ RxClear /\ UNCHANGED inputVars
             \/ InputEmpty \/ InputDrop \/ InputDropped \/ RxReturn
    BY <1>3, <1>10, <2>2 DEF Handler, RxClear, InputEmpty, InputDrop, InputDropped, RxReturn, Irq
  <2> QED
    BY <1>4, <1>5, <1>10, <2>1, <2>2 DEF Handler, ReceiveIRQ
<1>11. CASE TaskStep
  BY <1>6, <1>7, <1>8, <1>9, <1>11 DEF TaskStep, TcpipStep
<1>12. CASE TimerTask \/ MacStep \/ UNCHANGED vars
  BY <1>3, <1>12 DEF TimerTask, MacStep, vars
<1> QED
  BY <1>10, <1>11, <1>12 DEF Next

-----------------------------------------------------------------------------
(* The invariant as a whole, and what follows from it *)

EnetInv == RingInv /\ LockInv /\ GroupInv /\ CommandInv /\ PacketInv

LEMMA Invariance == Spec => []EnetInv
<1>1. Init => EnetInv
  BY RingInit, LockInit, GroupInit, PacketInit DEF Init, EnetInv
<1>2. EnetInv /\ [Next]_vars => EnetInv'
  BY RingStep, LockStep, GroupStep, CommandStep, PacketStep DEF EnetInv
<1> QED
  BY <1>1, <1>2, PTL DEF Spec

(* Types, and that the core lock excludes: whoever is inside the stack,    *)
(* asleep for a descriptor included, is the one that holds it.             *)
THEOREM TypeCorrect == Spec => []TypeOK
<1>1. EnetInv => TypeOK
  <2> SUFFICES ASSUME EnetInv PROVE TypeOK
    OBVIOUS
  <2>1. DriverTypeOK
    BY DEF EnetInv, RingInv
  <2>2. irq \in Irq /\ tcpip_mbox \in 0 .. MboxSize
    BY EnetAssumption DEF EnetInv, PacketInv
  <2>3. \A s \in Sender : IF pc[s] \in Inside THEN lock = s ELSE lock # s
    BY DEF EnetInv, LockInv
  <2>4. \A s \in Sender : (pc[s] = "blocked") = (call[s] # NULL)
    BY DEF EnetInv, GroupInv
  <2>5. Len(xTimerQueue) <= QueueLength
    BY DEF EnetInv, CommandInv
  <2> QED
    BY <2>1, <2>2, <2>3, <2>4, <2>5 DEF TypeOK, Irq, Inside
<1> QED
  BY <1>1, Invariance, PTL

(* No packet buffer and no message structure is lost or freed twice,       *)
(* whichever of the pools and the mailbox is exhausted: for every size.    *)
THEOREM PacketsConserved == Spec => []PbufsConserved
<1>1. EnetInv => PbufsConserved
  BY DEF EnetInv, PacketInv
<1> QED
  BY <1>1, Invariance, PTL

(* The MAC never stops beside work but in the two places where the driver  *)
(* has handed over a descriptor and not yet written the register.          *)
THEOREM MacKeepsGoing == Spec => []MacNeverRests
<1> DEFINE TxRests == txReady # {} /\ TDAR = FALSE
           RxRests == rxFull # RxBd /\ RDAR = FALSE
           Activating == \E s \in Sender : pc[s] = "activate"
           Inv == (TxRests => Activating) /\ (RxRests => irq \in {"dropped", "read"})
<1>1. Init => Inv
  BY DEF Init, DriverInit
<1>2. EnetInv /\ Inv /\ [Next]_vars => Inv'
  <2> SUFFICES ASSUME EnetInv, Inv, [Next]_vars PROVE Inv'
    OBVIOUS
  <2>0. /\ txDma \in txReady <=> txReady # {}
        /\ rxDma \in rxFull <=> rxFull = RxBd
        /\ pc \in [Sender -> Outside \cup Inside] /\ Tcpip \in Sender
    BY RingEnds, RingAssumption DEF EnetInv, RingInv, RingsAgree, DriverTypeOK, TxBd, RxBd,
       LockInv, Sender
  <2>1. CASE Handler /\ UNCHANGED <<rxVars, txVars>> /\ irq \notin {"dropped", "read"}
    BY <2>1 DEF Handler, txVars, rxVars
  <2>2. CASE Handler /\ (InputDrop \/ InputRead)
    BY <2>2 DEF Handler, InputDrop, InputRead, DropFrame, ENET_ReadFrame, UpdateRxBd, txVars
  <2>3. CASE Handler /\ (InputDropped \/ InputDeliver)
    BY <2>3 DEF Handler, InputDropped, InputDeliver, ActivateRead, txVars
  <2>4. CASE Handler
    BY <2>1, <2>2, <2>3, <2>4 DEF Handler, TxClear, TxCallback, TxReturn, ReceiveIRQ, RxClear,
       InputEmpty, RxReturn, ClearEvent, driverVars
  <2>5. CASE TaskStep \/ TimerTask \/ UNCHANGED vars
    <3>1. RxRests' => irq' \in {"dropped", "read"}
      BY <2>5, TasksLeaveReceiver DEF rxVars
    <3>2. ASSUME NEW s \in Sender, SendFilled(s) PROVE Activating'
      BY <2>0, <3>2 DEF SendFilled, Goto
    <3>3. ASSUME NEW s \in Sender, SendDone(s) PROVE ~TxRests'
      BY <3>3 DEF SendDone, ENET_ActiveSend
    <3>4. ASSUME UNCHANGED txVars, NEW s \in Sender, pc[s] # "activate",
                 NEW l, pc' = [pc EXCEPT ![s] = l]
          PROVE  TxRests' => Activating'
      BY <2>0, <3>4 DEF txVars
    <3>5. ASSUME NEW s \in Sender, SenderStep(s) PROVE TxRests' => Activating'
      <4>1. CASE SendBusy(s) \/ WaitForTxFlag(s) \/ WaitReturns(s) \/ ethernetif_linkoutput(s)
        BY <3>4, <4>1 DEF SendBusy, WaitForTxFlag, WaitReturns, ethernetif_linkoutput, Goto,
           driverVars
      <4>2. CASE /\ LOCK_TCPIP_CORE(s) \/ UNLOCK_TCPIP_CORE(s) \/ AppCalls(s)
                 /\ UNCHANGED driverVars
        BY <3>4, <4>2 DEF LOCK_TCPIP_CORE, UNLOCK_TCPIP_CORE, AppCalls, Goto, driverVars
      <4> QED
        BY <3>2, <3>3, <3>5, <4>1, <4>2 DEF SenderStep, enet_send_frame
    <3>6. CASE tcpip_timeouts_mbox_fetch /\ UNCHANGED driverVars
      BY <2>0, <3>1, <3>4, <3>6 DEF tcpip_timeouts_mbox_fetch, Goto, driverVars
    <3>7. CASE UNCHANGED <<driverVars, pc>>
      BY <3>1, <3>7 DEF driverVars, txVars
    <3> QED
      BY <2>5, <3>1, <3>5, <3>6, <3>7 DEF TaskStep, TcpipStep, HandleInpkt, AppFrees, TimerTask, vars
  <2>6. CASE MacStep
    BY <2>0, <2>6 DEF MacStep, Mac, Transmit, StopTransmit, Receive, StopReceive, txVars, rxVars
  <2> QED
    BY <2>4, <2>5, <2>6 DEF Next
<1>3. EnetInv /\ Inv => MacNeverRests
  BY DEF MacNeverRests, EnetInv, RingInv, DriverTypeOK
<1> QED
  BY <1>1, <1>2, <1>3, Invariance, PTL DEF Spec

-----------------------------------------------------------------------------
(* Output *)

(* A set of the flag is on its way to the group.                           *)
OnItsWay == "tx" \in EIR \/ irq = "txCallback" \/ xTimerQueue # <<>> \/ running # NULL

(* A wake-up for a sender that has found the ring full: it is on its way,  *)
(* or the flag is up and the wait will not begin.                          *)
WakeUpInv ==
    /\ \A s \in Sender : pc[s] = "wait" /\ ~TxFrameBusy => OnItsWay \/ uxEventBits # {}
    /\ \A s \in xTasksWaitingForBits : ~TxFrameBusy => OnItsWay

(* What is on its way stays so, or arrives.                                *)
LEMMA StaysOnItsWay ==
    ASSUME EnetInv, [Next]_vars, OnItsWay, ~Group!Callback
    PROVE  OnItsWay'
<1> USE DEF OnItsWay
<1>1. CASE Handler
  <2>1. CASE TxClear
    BY <2>1 DEF TxClear
  <2>2. CASE TxCallback
    <3>1. xTimerQueue' # <<>>
      BY <2>2, QueueLengthAssumption DEF TxCallback, Group!xEventGroupSetBitsFromISR,
         Group!SendCommand, Group!Accepted, EnetInv, CommandInv
    <3> QED
      BY <3>1
  <2>3. CASE TxReturn
    BY <1>1, <2>3 DEF Handler, TxReturn, driverVars
  <2>4. CASE ReceiveIRQ /\ UNCHANGED <<xTimerQueue, running>>
    BY <2>4 DEF ReceiveIRQ, RxClear, InputEmpty, InputDrop, InputRead, InputDropped, InputDeliver,
       RxReturn, ClearEvent, DropFrame, ENET_ReadFrame, UpdateRxBd, ActivateRead, driverVars
  <2> QED
    BY <1>1, <2>1, <2>2, <2>3, <2>4 DEF Handler
<1>2. CASE TaskStep
  BY <1>2, TasksLeaveReceiver DEF TaskStep
<1>3. CASE TimerTask
  <2>1. CASE Group!TakeCommand
    <3>1. running' # NULL
      BY <2>1, EnetAssumption DEF Group!TakeCommand, Group!ReceiveCommand, EnetInv, CommandInv
    <3> QED
      BY <3>1
  <2> QED
    BY <1>3, <2>1 DEF TimerTask
<1>4. CASE MacStep
  BY <1>4 DEF MacStep, Mac, Transmit, StopTransmit, Receive, StopReceive
<1>5. CASE UNCHANGED vars
  BY <1>5 DEF vars, driverVars
<1> QED
  BY <1>1, <1>2, <1>3, <1>4, <1>5 DEF Next

(* Only one sender is inside the stack: while it waits nobody else fills   *)
(* a descriptor or takes the flag.                                         *)
LEMMA Alone ==
    ASSUME EnetInv, NEW s \in Sender, pc[s] \in Inside, NEW u \in Sender, u # s
    PROVE  pc[u] \notin Inside /\ u \notin xTasksWaitingForBits
BY DEF EnetInv, LockInv, GroupInv, Inside

LEMMA WakeUpStep == EnetInv /\ WakeUpInv /\ [Next]_vars => WakeUpInv'
<1> SUFFICES ASSUME EnetInv, WakeUpInv, [Next]_vars PROVE WakeUpInv'
  OBVIOUS
<1>0. /\ pc \in [Sender -> Outside \cup Inside] /\ Tcpip \in Sender
      /\ xTasksWaitingForBits \subseteq Sender
      /\ EnetInv'
  BY RingStep, LockStep, GroupStep, CommandStep, PacketStep DEF EnetInv, LockInv, GroupInv, Sender
<1>1. ASSUME UNCHANGED <<txReady, txBdCurrent, uxEventBits, xTasksWaitingForBits>>, ~Group!Callback,
             \A u \in Sender : pc'[u] = "wait" => pc[u] = "wait"
      PROVE  WakeUpInv'
  BY <1>1, StaysOnItsWay DEF WakeUpInv, TxFrameBusy
<1>2. CASE Group!Callback /\ UNCHANGED <<pc, driverVars>>
  <2>1. /\ xTasksWaitingForBits' = {}
        /\ xTasksWaitingForBits = {} => uxEventBits' = {"tx"}
    BY <1>2, CallbackStep DEF EnetInv
  <2>2. ASSUME NEW s \in Sender, pc'[s] = "wait" PROVE uxEventBits' # {}
    <3>1. pc[s] = "wait" /\ pc[s] \in Inside /\ s \notin xTasksWaitingForBits
      BY <1>2, <2>2 DEF Inside, EnetInv, GroupInv
    <3>2. xTasksWaitingForBits = {}
      BY <1>0, <3>1, Alone
    <3> QED
      BY <2>1, <3>2
  <2> QED
    BY <2>1, <2>2 DEF WakeUpInv
<1>3. CASE TaskStep
  <2>1. OnItsWay' <=> OnItsWay
    BY <1>3, TasksLeaveReceiver DEF TaskStep, OnItsWay
  <2>2. ~Group!Callback
    BY <1>3, EnetAssumption DEF TaskStep, Group!Callback, EnetInv, CommandInv
  <2>3. ASSUME NEW s \in Sender, WaitForTxFlag(s) PROVE WakeUpInv'
    <3>1. /\ pc[s] = "wait" /\ (TxFrameBusy' <=> TxFrameBusy)
          /\ \A u \in Sender : u # s => pc'[u] # "wait" /\ u \notin xTasksWaitingForBits
      BY <1>0, <2>3, Alone DEF WaitForTxFlag, Goto, Inside, driverVars, txVars, TxFrameBusy
    <3>2. CASE uxEventBits # {}
      <4>1. xTasksWaitingForBits' = xTasksWaitingForBits /\ pc'[s] = "send"
        BY <2>3, <3>2, WaitStep DEF EnetInv
      <4>2. s \notin xTasksWaitingForBits
        BY <3>1 DEF EnetInv, GroupInv
      <4> QED
        BY <1>0, <3>1, <4>1, <4>2 DEF WakeUpInv
    <3>3. CASE uxEventBits = {}
      <4>1. xTasksWaitingForBits' = xTasksWaitingForBits \cup {s} /\ pc'[s] = "blocked"
        BY <2>3, <3>3, WaitStep DEF EnetInv
      <4>2. ~TxFrameBusy => OnItsWay
        BY <3>1, <3>3 DEF WakeUpInv
      <4> QED
        BY <1>0, <2>1, <3>1, <4>1, <4>2 DEF WakeUpInv
    <3> QED
      BY <3>2, <3>3
  <2>4. ASSUME NEW s \in Sender, WaitReturns(s) PROVE WakeUpInv'
    BY <1>0, <1>1, <2>2, <2>4 DEF WaitReturns, Group!ReturnWoken, Goto, driverVars, txVars
  <2>5. ASSUME NEW s \in Sender, SendBusy(s) PROVE WakeUpInv'
    BY <2>5 DEF SendBusy, WakeUpInv, TxFrameBusy, driverVars, txVars
  <2>6. ASSUME NEW s \in Sender, SendFilled(s) PROVE WakeUpInv'
    <3>1. pc[s] = "send" /\ pc'[s] = "activate" /\ UNCHANGED xTasksWaitingForBits
      BY <1>0, <2>6 DEF SendFilled, Goto, groupVars
    <3>2. s \notin xTasksWaitingForBits
      BY <3>1 DEF EnetInv, GroupInv
    <3>3. \A u \in Sender : u # s => pc'[u] # "wait" /\ u \notin xTasksWaitingForBits
      BY <1>0, <2>6, <3>1, Alone DEF SendFilled, Goto, Inside
    <3> QED
      BY <1>0, <3>1, <3>2, <3>3 DEF WakeUpInv
  <2>7. ASSUME UNCHANGED groupVars, UNCHANGED <<txReady, txBdCurrent>>, NEW s \in Sender,
               NEW l, l # "wait", pc' = [pc EXCEPT ![s] = l]
        PROVE  WakeUpInv'
    BY <1>0, <1>1, <2>2, <2>7 DEF groupVars
  <2>8. ASSUME NEW s \in Sender, SenderStep(s) PROVE WakeUpInv'
    <3>1. CASE SendDone(s) \/ ethernetif_linkoutput(s)
      BY <2>7, <3>1 DEF SendDone, ENET_ActiveSend, ethernetif_linkoutput, Goto, driverVars, txVars
    <3>2. CASE /\ LOCK_TCPIP_CORE(s) \/ UNLOCK_TCPIP_CORE(s) \/ AppCalls(s)
               /\ UNCHANGED <<driverVars, groupVars>>
      BY <2>7, <3>2 DEF LOCK_TCPIP_CORE, UNLOCK_TCPIP_CORE, AppCalls, Goto, driverVars, txVars
    <3> QED
      BY <2>3, <2>4, <2>5, <2>6, <2>8, <3>1, <3>2 DEF SenderStep, enet_send_frame
  <2>9. CASE tcpip_timeouts_mbox_fetch /\ UNCHANGED <<driverVars, groupVars>>
    BY <1>0, <2>7, <2>9 DEF tcpip_timeouts_mbox_fetch, Goto, driverVars, txVars
  <2>10. CASE (HandleInpkt \/ AppFrees) /\ UNCHANGED <<driverVars, groupVars>>
    BY <1>1, <2>2, <2>10 DEF HandleInpkt, AppFrees, driverVars, txVars, groupVars
  <2> QED
    BY <1>3, <2>8, <2>9, <2>10 DEF TaskStep, TcpipStep
<1>4. CASE Transmit
  BY <1>4 DEF Transmit, WakeUpInv, OnItsWay
<1>5. CASE Handler \/ UNCHANGED vars \/ (MacStep /\ ~Transmit)
  <2>1. UNCHANGED <<txReady, txBdCurrent, groupVars, pc, running>>
    BY <1>5 DEF Handler, vars, MacStep, Mac, StopTransmit, Receive, StopReceive, TxClear,
       TxCallback, TxReturn, ReceiveIRQ, RxClear, InputEmpty, InputDrop, InputRead, InputDropped,
       InputDeliver, RxReturn, ClearEvent, DropFrame, ENET_ReadFrame, UpdateRxBd, ActivateRead,
       driverVars, txVars
  <2>2. ~Group!Callback
    BY <2>1, EnetAssumption DEF Group!Callback, EnetInv, CommandInv
  <2> QED
    BY <1>1, <2>1, <2>2 DEF groupVars
<1>6. CASE TimerTask
  <2>1. CASE Group!TakeCommand /\ UNCHANGED <<groupVars, pc, driverVars>>
    <3>1. ~Group!Callback
      BY <2>1 DEF Group!TakeCommand, Group!Callback
    <3> QED
      BY <1>1, <2>1, <3>1 DEF groupVars, driverVars, txVars
  <2> QED
    BY <1>2, <1>6, <2>1 DEF TimerTask
<1> QED
  BY <1>3, <1>4, <1>5, <1>6 DEF Next

(* A sender asleep for a free descriptor is woken if there is one: the     *)
(* event, the deferred set and the flag between them lose no wake-up,      *)
(* although the command queue may drop the set.                            *)
THEOREM SenderReleased == Spec => []SenderNotStranded
<1>1. Init => WakeUpInv
  BY DEF Init, Group!Init, WakeUpInv
<1>2. WakeUpInv => SenderNotStranded
  BY DEF WakeUpInv, SenderNotStranded, OnItsWay
<1> QED
  BY <1>1, <1>2, WakeUpStep, Invariance, PTL DEF Spec

=============================================================================
