---------------------------- MODULE EnetInterface ---------------------------
(***************************************************************************)
(* lwip/port/enet_ethernetif*.c over the ENET driver, the event group and  *)
(* the timer service task on the way out, the packet pools and the mailbox *)
(* of the tcpip thread on the way in, and the core lock of lwIP.           *)
(*                                                                         *)
(* One processor: a task takes a step only while no handler runs (irq is   *)
(* "idle"); the two handlers have one priority, so neither interrupts the  *)
(* other; the MAC runs beside everything.  Tasks may run in any order.     *)
(***************************************************************************)
EXTENDS EnetDriver, TimerQueue, FiniteSets

CONSTANTS Tcpip,       \* the tcpip thread
          App,         \* tasks that call the stack under the core lock
          PoolSize,    \* PBUF_POOL_SIZE
          InpktNum,    \* MEMP_NUM_TCPIP_MSG_INPKT
          MboxSize,    \* TCPIP_MBOX_SIZE
          NULL

Sender == App \cup {Tcpip}

VARIABLES
    exists, uxEventBits, xTasksWaitingForBits, call, wokenWith, \* the event group
    running,     \* the command the timer task executes, or NULL
    irq,         \* where the interrupt handler is
    pc,          \* where each sender is
    lock,        \* who holds lock_tcpip_core, or NULL
    freePbufs, freeInpkts, \* what is left of the two pools
    tcpip_mbox,  \* the messages in the mailbox: each a packet
    msg,         \* the tcpip thread has a message in hand
    kept,        \* packets that wait for the application
    cutShort     \* history: the last reading of the ring ended at a drop

groupVars == <<exists, uxEventBits, xTasksWaitingForBits, call, wokenWith>>
inputVars == <<freePbufs, freeInpkts, tcpip_mbox, msg, kept>>
vars == <<driverVars, xTimerQueue, groupVars, running, irq, pc, lock, inputVars, cutShort>>

(* The one call enet_send_frame waits with.                                *)
TxFlagCall ==
    [op |-> "wait", bits |-> {"tx"}, set |-> {}, all |-> FALSE, clear |-> TRUE,
     ticks |-> "forever"]

(* The command ethernet_callback leaves with the timer task.               *)
TxSet == [op |-> "set", bits |-> {"tx"}]

(* NULL is none of the values it stands in for.                            *)
ASSUME EnetAssumption ==
    /\ {PoolSize, InpktNum, MboxSize} \subseteq Nat
    /\ NULL \notin Sender
    /\ NULL # TxFlagCall /\ NULL # TxSet /\ \A b \in SUBSET {"tx"} : NULL # b

Group == INSTANCE EventGroup WITH
    Task <- Sender, Bit <- {"tx"}, Calls <- [s \in Sender |-> {TxFlagCall}],
    Sets <- {{"tx"}}, Clears <- {}, arrived <- [s \in Sender |-> 0]

Init ==
    /\ DriverInit
    /\ Group!Init
    /\ irq = "idle"
    /\ pc = [s \in Sender |-> IF s = Tcpip THEN "fetch" ELSE "away"]
    /\ lock = NULL
    /\ freePbufs = PoolSize /\ freeInpkts = InpktNum
    /\ tcpip_mbox = 0 /\ msg = FALSE /\ kept = 0
    /\ cutShort = FALSE

Goto(s, label) == pc' = [pc EXCEPT ![s] = label]

-----------------------------------------------------------------------------
(* ENET_TransmitIRQHandler: while the event is up, it is cleared, and then *)
(* ethernet_callback defers the setting of txFlag to the timer task.       *)

TxClear ==
    /\ irq \in {"idle", "tx"}
    /\ ClearEvent("tx")
    /\ irq' = "txCallback"
    /\ UNCHANGED <<xTimerQueue, inputVars, cutShort>>

TxCallback ==
    /\ irq = "txCallback"
    /\ Group!xEventGroupSetBitsFromISR({"tx"})
    /\ irq' = "tx"
    /\ UNCHANGED <<driverVars, inputVars, cutShort>>

TxReturn ==
    /\ irq = "tx"
    /\ "tx" \notin EIR
    /\ irq' = "idle"
    /\ UNCHANGED <<driverVars, xTimerQueue, inputVars, cutShort>>

-----------------------------------------------------------------------------
(* ENET_ReceiveIRQHandler: while the event is up, it is cleared, and then  *)
(* ethernetif_input reads frames until ethernetif_linkinput has none.      *)

(* Bug: the event is cleared after the callback instead.                   *)
RxClearLate ==
    \/ /\ irq \in {"idle", "rx"}
       /\ "rx" \in EIR
       /\ irq' = "input"
       /\ UNCHANGED driverVars
    \/ /\ irq = "rx"
       /\ ClearEvent("rx")
       /\ irq' = "rx"

RxClear ==
    /\ irq \in {"idle", "rx"}
    /\ ClearEvent("rx")
    /\ irq' = "input"

(* ethernetif_linkinput has no frame: the loop of ethernetif_input ends.   *)
InputEmpty ==
    /\ irq = "input"
    /\ RxFrameEmpty
    /\ irq' = "rx"
    /\ cutShort' = FALSE
    /\ UNCHANGED <<driverVars, inputVars>>

(* The frame is in error, or there is no pbuf: it is dropped, and          *)
(* ethernetif_linkinput returns NULL as if there were none.                *)
InputDrop ==
    /\ irq = "input"
    /\ ~RxFrameEmpty
    /\ DropFrame
    /\ irq' = "dropped"
    /\ cutShort' = TRUE
    /\ UNCHANGED inputVars

InputRead ==
    /\ irq = "input"
    /\ ~RxFrameEmpty
    /\ freePbufs > 0
    /\ ENET_ReadFrame
    /\ freePbufs' = freePbufs - 1
    /\ irq' = "read"
    /\ UNCHANGED <<freeInpkts, tcpip_mbox, msg, kept, cutShort>>

InputDropped ==
    /\ irq = "dropped"
    /\ ActivateRead
    /\ irq' = "rx"
    /\ UNCHANGED <<inputVars, cutShort>>

(* Bug: ethernetif_input keeps a packet tcpip_input did not take.          *)
NotDeliveredLeaks == UNCHANGED <<freePbufs, freeInpkts, tcpip_mbox>>

(* tcpip_inpkt: no message structure, or the mailbox is full.              *)
NotDelivered == freePbufs' = freePbufs + 1 /\ UNCHANGED <<freeInpkts, tcpip_mbox>>

Delivered ==
    /\ freeInpkts' = freeInpkts - 1
    /\ tcpip_mbox' = tcpip_mbox + 1
    /\ UNCHANGED freePbufs

(* The frame has been read: RDAR is written, and tcpip_input tries to post.*)
InputDeliver ==
    /\ irq = "read"
    /\ ActivateRead
    /\ IF freeInpkts > 0 /\ tcpip_mbox < MboxSize THEN Delivered ELSE NotDelivered
    /\ irq' = "input"
    /\ UNCHANGED <<msg, kept, cutShort>>

RxReturn ==
    /\ irq = "rx"
    /\ "rx" \notin EIR
    /\ irq' = "idle"
    /\ UNCHANGED <<driverVars, inputVars, cutShort>>

ReceiveIRQ ==
    \/ RxClear /\ UNCHANGED <<inputVars, cutShort>>
    \/ InputEmpty \/ InputDrop \/ InputRead \/ InputDropped \/ InputDeliver
    \/ RxReturn

Handler ==
    /\ \/ TxClear \/ TxCallback \/ TxReturn
       \/ ReceiveIRQ /\ UNCHANGED xTimerQueue
    /\ UNCHANGED <<groupVars, running, pc, lock>>

-----------------------------------------------------------------------------
(* Output: ethernetif_linkoutput and enet_send_frame *)

SendBusy(s) ==
    /\ pc[s] = "send"
    /\ TxFrameBusy
    /\ Goto(s, "wait")
    /\ UNCHANGED <<driverVars, groupVars>>

(* Handed over; ENET_ActiveSend is still to come.                          *)
SendFilled(s) ==
    /\ pc[s] = "send"
    /\ FillTxBd
    /\ Goto(s, "activate")
    /\ UNCHANGED groupVars

SendDone(s) ==
    /\ pc[s] = "activate"
    /\ ENET_ActiveSend
    /\ Goto(s, "locked")
    /\ UNCHANGED groupVars

(* Bug: an old flag is cleared first, so as not to wake for nothing.       *)
WaitAfterClear(s) ==
    /\ pc[s] = "wait"
    /\ uxEventBits' = {}
    /\ xTasksWaitingForBits' = xTasksWaitingForBits \cup {s}
    /\ call' = [call EXCEPT ![s] = TxFlagCall]
    /\ Goto(s, "blocked")
    /\ UNCHANGED <<driverVars, exists, wokenWith>>

WaitForTxFlag(s) ==
    /\ pc[s] = "wait"
    /\ Group!xEventGroupWaitBits(s, TxFlagCall)
    /\ Goto(s, IF call'[s] = NULL THEN "send" ELSE "blocked")
    /\ UNCHANGED driverVars

WaitReturns(s) ==
    /\ pc[s] = "blocked"
    /\ Group!ReturnWoken(s)
    /\ Goto(s, "send")
    /\ UNCHANGED driverVars

enet_send_frame(s) ==
    /\ SendBusy(s) \/ SendFilled(s) \/ SendDone(s) \/ WaitForTxFlag(s) \/ WaitReturns(s)
    /\ UNCHANGED <<lock, inputVars>>

(* The stack has a frame to send, under the core lock.                     *)
ethernetif_linkoutput(s) ==
    /\ pc[s] = "locked"
    /\ Goto(s, "send")
    /\ UNCHANGED <<driverVars, groupVars, lock, inputVars>>

-----------------------------------------------------------------------------
(* The tcpip thread and the application *)

(* tcpip_timeouts_mbox_fetch, not holding the lock: a message, or the time *)
(* of the next timeout has come.                                           *)
tcpip_timeouts_mbox_fetch ==
    /\ pc[Tcpip] = "fetch"
    /\ \/ tcpip_mbox > 0 /\ tcpip_mbox' = tcpip_mbox - 1 /\ msg' = TRUE
       \/ tcpip_mbox = 0 /\ UNCHANGED <<tcpip_mbox, msg>>
    /\ Goto(Tcpip, "lock")
    /\ UNCHANGED <<lock, freePbufs, freeInpkts, kept>>

(* Bug: the lock is taken without waiting for it.                          *)
LockAtOnce(s) ==
    /\ pc[s] = "lock"
    /\ lock' = s
    /\ Goto(s, "locked")
    /\ UNCHANGED inputVars

LOCK_TCPIP_CORE(s) ==
    /\ pc[s] = "lock"
    /\ lock = NULL
    /\ lock' = s
    /\ Goto(s, "locked")
    /\ UNCHANGED inputVars

(* tcpip_thread_handle_msg has called ethernet_input, which sent what it   *)
(* had to; the packet is freed, or left to the application.                *)
HandleInpkt ==
    /\ pc[Tcpip] = "locked"
    /\ msg
    /\ \/ freePbufs' = freePbufs + 1 /\ UNCHANGED kept
       \/ kept' = kept + 1 /\ UNCHANGED freePbufs
    /\ freeInpkts' = freeInpkts + 1
    /\ msg' = FALSE
    /\ UNCHANGED <<pc, lock, tcpip_mbox>>

UNLOCK_TCPIP_CORE(s) ==
    /\ pc[s] = "locked"
    /\ s = Tcpip => ~msg
    /\ lock' = NULL
    /\ Goto(s, IF s = Tcpip THEN "fetch" ELSE "away")
    /\ UNCHANGED inputVars

AppCalls(s) ==
    /\ pc[s] = "away"
    /\ Goto(s, "lock")
    /\ UNCHANGED <<lock, inputVars>>

(* The application is done with a packet; pbuf_free needs no lock.         *)
AppFrees ==
    /\ kept > 0
    /\ kept' = kept - 1
    /\ freePbufs' = freePbufs + 1
    /\ UNCHANGED <<pc, lock, freeInpkts, tcpip_mbox, msg>>

SenderStep(s) ==
    \/ enet_send_frame(s)
    \/ ethernetif_linkoutput(s)
    \/ /\ LOCK_TCPIP_CORE(s) \/ UNLOCK_TCPIP_CORE(s) \/ AppCalls(s)
       /\ UNCHANGED <<driverVars, groupVars>>

TcpipStep ==
    (tcpip_timeouts_mbox_fetch \/ HandleInpkt) /\ UNCHANGED <<driverVars, groupVars>>

TaskStep ==
    /\ irq = "idle"
    /\ \/ \E s \in Sender : SenderStep(s)
       \/ TcpipStep
       \/ AppFrees /\ UNCHANGED <<driverVars, groupVars>>
    /\ UNCHANGED <<xTimerQueue, running, irq, cutShort>>

(* prvTimerTask, for the set that was deferred.                            *)
TimerTask ==
    /\ irq = "idle"
    /\ \/ Group!TakeCommand /\ UNCHANGED groupVars
       \/ Group!Callback /\ UNCHANGED xTimerQueue
    /\ UNCHANGED <<driverVars, irq, pc, lock, inputVars, cutShort>>

MacStep ==
    /\ Mac
    /\ UNCHANGED <<xTimerQueue, groupVars, running, irq, pc, lock, inputVars, cutShort>>

Next == Handler \/ TaskStep \/ TimerTask \/ MacStep

Spec == Init /\ [][Next]_vars

-----------------------------------------------------------------------------
(* Properties *)

(* The type invariant: the lock is held by whoever is inside the stack.    *)
TypeOK ==
    /\ DriverTypeOK
    /\ irq \in {"idle", "tx", "txCallback", "rx", "input", "dropped", "read"}
    /\ \A s \in Sender :
          IF pc[s] \in {"locked", "send", "activate", "wait", "blocked"}
            THEN lock = s ELSE lock # s
    /\ \A s \in Sender : (pc[s] = "blocked") = (call[s] # NULL)
    /\ Len(xTimerQueue) <= QueueLength
    /\ tcpip_mbox \in 0 .. MboxSize

(* The MAC never rests beside work: when it has stopped, a frame to send   *)
(* or a buffer to fill is there only while the driver is on its way to     *)
(* write the register that starts it again.                                *)
MacNeverRests ==
    /\ txReady # {} /\ ~TDAR => \E s \in Sender : pc[s] = "activate"
    /\ rxFull # RxBd /\ ~RDAR => irq \in {"dropped", "read"}

(* A sender that sleeps until the transmit interrupt although its          *)
(* descriptor has become free is on its way to be woken: the event is up,  *)
(* or the handler is about to hand on the set, or it is with the timer     *)
(* task.  That a full timer queue drops the set does no harm: the sets     *)
(* that fill it wake the sender as well.                                   *)
SenderNotStranded ==
    \A s \in xTasksWaitingForBits :
        ~TxFrameBusy =>
            "tx" \in EIR \/ irq = "txCallback" \/ xTimerQueue # <<>> \/ running # NULL

(* No packet buffer and no message is lost or freed twice, whichever step  *)
(* of the way in fails.                                                    *)
PbufsConserved ==
    LET one(b) == IF b THEN 1 ELSE 0 IN
    /\ freePbufs + one(irq = "read") + tcpip_mbox + one(msg) + kept = PoolSize
    /\ freeInpkts + tcpip_mbox + one(msg) = InpktNum

(* A frame that was received is read: it lies in the ring without an event *)
(* and with no handler at work only behind a frame that was dropped.       *)
ReadUnlessDropped ==
    ~RxFrameEmpty /\ irq \notin {"input", "dropped", "read"} /\ "rx" \notin EIR => cutShort

(* The interface does not go deaf: a ring that is full, which stops the    *)
(* MAC, has an interrupt on its way that will read it.                     *)
NeverDeaf ==
    rxFull = RxBd => "rx" \in EIR \/ irq = "input"
=============================================================================
