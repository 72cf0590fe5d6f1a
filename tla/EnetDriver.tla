----------------------------- MODULE EnetDriver -----------------------------
(***************************************************************************)
(* drivers/fsl_enet.c: the two rings of buffer descriptors the processor   *)
(* shares with the DMA engine of the Ethernet MAC, and the interrupt       *)
(* events.  A frame fits one buffer (ENET_TXBUFF_SIZE, ENET_RXBUFF_SIZE    *)
(* are the longest frame), so a descriptor stands for a frame.             *)
(*                                                                         *)
(* The MAC is external: it is modelled by what the driver relies on.  It   *)
(* works through a ring in order, and stops for good at a descriptor that  *)
(* is not its own until the driver writes TDAR or RDAR again.              *)
(***************************************************************************)
EXTENDS Naturals

CONSTANTS TxBds,  \* ENET_TXBD_NUM
          RxBds   \* ENET_RXBD_NUM

ASSUME RingAssumption == TxBds \in Nat \ {0} /\ RxBds \in Nat \ {0}

VARIABLES
    txReady,      \* the transmit descriptors with READY set: the MAC's
    txBdCurrent,  \* handle->txBdCurrent[0], as an index
    txDma,        \* the transmit descriptor the MAC looks at next
    TDAR,         \* the MAC transmits
    rxFull,       \* the receive descriptors without EMPTY: the driver's
    rxBdCurrent,  \* handle->rxBdCurrent[0]
    rxDma,        \* the receive descriptor the MAC fills next
    RDAR,         \* the MAC receives
    EIR           \* the interrupt events raised: "tx", "rx"

txVars == <<txReady, txBdCurrent, txDma, TDAR>>
rxVars == <<rxFull, rxBdCurrent, rxDma, RDAR>>
driverVars == <<txVars, rxVars, EIR>>

TxBd == 0 .. TxBds - 1
RxBd == 0 .. RxBds - 1

(* The descriptor behind i; the last one carries WRAP.                     *)
NextTx(i) == (i + 1) % TxBds
NextRx(i) == (i + 1) % RxBds

(* ENET_Init with the rings built, then ENET_ActiveRead.                   *)
DriverInit ==
    /\ txReady = {} /\ txBdCurrent = 0 /\ txDma = 0 /\ TDAR = FALSE
    /\ rxFull = {} /\ rxBdCurrent = 0 /\ rxDma = 0 /\ RDAR = TRUE
    /\ EIR = {}

-----------------------------------------------------------------------------
(* Called by the port *)

(* Bug: the transmit interrupt is taken for room for another frame.        *)
NeverBusy == FALSE

(* kStatus_ENET_TxFrameBusy                                                *)
TxFrameBusy == txBdCurrent \in txReady

(* ENET_SendFrame, not busy: the frame is copied and handed to the MAC.    *)
FillTxBd ==
    /\ ~TxFrameBusy
    /\ txReady' = txReady \cup {txBdCurrent}
    /\ txBdCurrent' = NextTx(txBdCurrent)
    /\ UNCHANGED <<txDma, TDAR, rxVars, EIR>>

ENET_ActiveSend ==
    /\ TDAR' = TRUE
    /\ UNCHANGED <<txReady, txBdCurrent, txDma, rxVars, EIR>>

RxFrameEmpty == rxBdCurrent \notin rxFull

(* ENET_UpdateReadBuffers: the buffer goes back to the MAC.                *)
UpdateRxBd ==
    /\ rxFull' = rxFull \ {rxBdCurrent}
    /\ rxBdCurrent' = NextRx(rxBdCurrent)
    /\ UNCHANGED <<rxDma, RDAR, txVars, EIR>>

(* Bug: a frame that is not wanted is left where it is.                    *)
SkipFrame == UNCHANGED driverVars

(* ENET_ReadFrame without data, for a frame that is dropped ...            *)
DropFrame == UpdateRxBd

(* ... and with it.                                                        *)
ENET_ReadFrame == UpdateRxBd

(* Bug: RDAR is written only if the ring is seen full.                     *)
ActivateReadIfFull ==
    /\ RDAR' = (RDAR \/ rxFull = RxBd)
    /\ UNCHANGED <<rxFull, rxBdCurrent, rxDma, txVars, EIR>>

(* The end of ENET_UpdateReadBuffers: RDAR.                                *)
ActivateRead ==
    /\ RDAR' = TRUE
    /\ UNCHANGED <<rxFull, rxBdCurrent, rxDma, txVars, EIR>>

ClearEvent(e) ==
    /\ e \in EIR
    /\ EIR' = EIR \ {e}
    /\ UNCHANGED <<txVars, rxVars>>

-----------------------------------------------------------------------------
(* The MAC *)

Transmit ==
    /\ TDAR
    /\ txDma \in txReady
    /\ txReady' = txReady \ {txDma}
    /\ txDma' = NextTx(txDma)
    /\ EIR' = EIR \cup {"tx"}
    /\ UNCHANGED <<txBdCurrent, TDAR, rxVars>>

StopTransmit ==
    /\ TDAR
    /\ txDma \notin txReady
    /\ TDAR' = FALSE
    /\ UNCHANGED <<txReady, txBdCurrent, txDma, rxVars, EIR>>

Receive ==
    /\ RDAR
    /\ rxDma \notin rxFull
    /\ rxFull' = rxFull \cup {rxDma}
    /\ rxDma' = NextRx(rxDma)
    /\ EIR' = EIR \cup {"rx"}
    /\ UNCHANGED <<rxBdCurrent, RDAR, txVars>>

StopReceive ==
    /\ RDAR
    /\ rxDma \in rxFull
    /\ RDAR' = FALSE
    /\ UNCHANGED <<rxFull, rxBdCurrent, rxDma, txVars, EIR>>

Mac == Transmit \/ StopTransmit \/ Receive \/ StopReceive

-----------------------------------------------------------------------------
(* Properties *)

(* The descriptors, indices and registers have their types.                *)
DriverTypeOK ==
    /\ txReady \subseteq TxBd /\ txBdCurrent \in TxBd /\ txDma \in TxBd /\ TDAR \in BOOLEAN
    /\ rxFull \subseteq RxBd /\ rxBdCurrent \in RxBd /\ rxDma \in RxBd /\ RDAR \in BOOLEAN
    /\ EIR \subseteq {"tx", "rx"}

(* The n descriptors of a ring of N from first on.                         *)
Run(first, n, N) == {(first + k) % N : k \in 0 .. n - 1}

(* The marked descriptors of a ring are those from first up to next.       *)
RingAgrees(marked, first, next, N) ==
    \E n \in 0 .. N : marked = Run(first, n, N) /\ next = (first + n) % N

(* The driver and the MAC agree about the rings without ever telling each  *)
(* other: READY is set on the descriptors from txDma up to txBdCurrent,    *)
(* EMPTY is clear on those from rxBdCurrent up to rxDma, and on no others. *)
RingsAgree ==
    /\ RingAgrees(txReady, txDma, txBdCurrent, TxBds)
    /\ RingAgrees(rxFull, rxBdCurrent, rxDma, RxBds)
=============================================================================
