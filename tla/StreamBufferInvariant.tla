----------------------- MODULE StreamBufferInvariant -----------------------
(***************************************************************************)
(* What holds of a stream buffer between any two steps, but for the moment *)
(* at which a reader has yet to put the tail back: then it holds of the    *)
(* buffer as it is with the tail put back, for which StreamBufferProofs    *)
(* instantiates this module.                                               *)
(***************************************************************************)
EXTENDS StreamBuffer

WriterAt == {"idle", "check", "wait", "blocked", "woken", "unregister", "space",
             "write", "data", "trigger", "complete"}
ReaderAt == {"idle", "check", "wait", "blocked", "woken", "unregister", "measure",
             "read", "data", "complete"}
Ticks == {"none", "finite", "forever"}
Message == [at : Cell, length : 1 .. MaxSend, first : 0 .. Numbers - 1]

-----------------------------------------------------------------------------
(* The parts of the invariant *)

Shape ==
    /\ isMessageBuffer \in BOOLEAN
    /\ xTriggerLevelBytes \in TriggerLevels
    /\ pucBuffer \in [Cell -> 0 .. Numbers + MaxSend]
    /\ xHead \in Cell /\ xTail \in Cell
    /\ ucNotifyState \in [{"writer", "reader"} -> {"none", "waiting", "received"}]
    /\ w \in WriterAt /\ r \in ReaderAt
    /\ send \in [length : 0 .. MaxSend, ticks : Ticks]
    /\ w # "idle" => send.length # 0
    /\ xSpace \in 0 .. xLength - 1 /\ xBytesAvailable \in 0 .. xLength - 1
    /\ taking \in 0 .. MaxSend
    /\ written \in 0 .. Numbers - 1 /\ read \in 0 .. Numbers - 1
    /\ messages \in Seq(Message)
    /\ ~isMessageBuffer => w # "data" /\ r # "data"
    /\ r # "data" => taking = 0

(* What the writer has seen may be old, but there is no less space now.    *)
SpaceSeen ==
    /\ w \notin {"data", "trigger", "complete"} => xSpace <= xStreamBufferSpacesAvailable
    /\ w = "data" => /\ send.length <= xStreamBufferSpacesAvailable
                     /\ prvBytesInBuffer > 0
                     /\ pucBuffer[At(xLength + xHead - 1)] = send.length

(* What the reader has seen may be old, but there are no fewer bytes now,  *)
(* and the message it saw was whole.                                       *)
BytesSeen ==
    r = "read" => /\ xBytesAvailable <= prvBytesInBuffer
                  /\ isMessageBuffer /\ xBytesAvailable > 1 =>
                        messages # <<>> /\ messages[1].length < xBytesAvailable

(* The messages end one after the other, and within the buffer.            *)
InBuffer ==
    isMessageBuffer =>
       /\ \A i \in 0 .. Len(messages) : Ends(i) <= prvBytesInBuffer
       /\ \A i, j \in 0 .. Len(messages) : i <= j => Ends(i) <= Ends(j)

RingInv == Shape /\ SpaceSeen /\ BytesSeen /\ InBuffer /\ RingIntact

Waits(place) == place \in {"wait", "blocked"}
Registered == {"wait", "blocked", "woken", "unregister"}

(* Whoever waits unnotified is registered, and if it need not wait any     *)
(* more, the other has yet to notify it.                                   *)
WakeInv ==
    /\ xTaskWaitingToSend \in BOOLEAN /\ xTaskWaitingToReceive \in BOOLEAN
    /\ xTaskWaitingToSend => w \in Registered
    /\ xTaskWaitingToReceive => r \in Registered
    /\ Waits(w) /\ ~Notified("writer") =>
          /\ xTaskWaitingToSend
          /\ xStreamBufferSpacesAvailable >= xRequiredSpace => r \in {"data", "complete"}
    /\ Waits(r) /\ ~Notified("reader") =>
          /\ xTaskWaitingToReceive
          /\ prvBytesInBuffer >= xTriggerLevelBytes => w \in {"data", "trigger", "complete"}

BufferInv == RingInv /\ WakeInv
=============================================================================
