---------------------------- MODULE StreamBuffer ----------------------------
(***************************************************************************)
(* stream_buffer.c: one writer, one reader, and between them a ring of     *)
(* bytes in which no lock is taken.  Both kinds of buffer: in a message    *)
(* buffer each message is preceded by its length, here one byte.           *)
(*                                                                         *)
(* A step is a critical section, a section with the scheduler suspended,   *)
(* or a move of one index with the copying before it.  The writer and the  *)
(* reader divide each other's calls anywhere between steps, as a handler   *)
(* or a task of higher priority does, with one exception that depends on   *)
(* WriterPreempts; the FromISR calls are calls with no time to wait.       *)
(* Bytes are numbered modulo Numbers as they are written.                  *)
(***************************************************************************)
EXTENDS Integers, Sequences

CONSTANTS xLength,  \* the bytes of the ring, one more than it can hold
          MaxSend,  \* bound: the longest message, or stretch of bytes, sent
          Numbers,  \* bound: the bytes that can be told apart
          BufferLengths,  \* xBufferLengthBytes: the room a reader has for a message
          WriterPreempts  \* whether the writer may run while a reader without
                          \* the room has moved the tail and not put it back

ASSUME StreamAssumption ==
    /\ xLength \in Nat /\ MaxSend \in 1 .. xLength - 1 /\ Numbers \in Nat \ {0}
    /\ BufferLengths \subseteq Nat \ {0}
    /\ WriterPreempts \in BOOLEAN

VARIABLES
    isMessageBuffer,        \* sbFLAGS_IS_MESSAGE_BUFFER in ucFlags
    xTriggerLevelBytes,
    pucBuffer, xHead, xTail,
    xTaskWaitingToSend, xTaskWaitingToReceive, \* whether there is one
    ucNotifyState,          \* of the two tasks: "none", "waiting", "received"
    w, r,                   \* where the writer and the reader are
    send, xSpace,           \* the writer's call, and the space it has seen
    ticks, xBytesAvailable, \* the reader's time to wait, and the bytes it has seen
    taking,                 \* xNextMessageLength, for the message half read
    written, read,          \* history: the next byte to be written, to be read
    messages                \* history: the messages to be read: the cell of the
                            \* length, the length, the first byte's number

buffer == <<isMessageBuffer, xTriggerLevelBytes>>
ring == <<pucBuffer, xHead, xTail>>
history == <<written, read, messages>>
writerVars == <<w, send, xSpace>>
readerVars == <<r, ticks, xBytesAvailable, taking>>
waitVars == <<xTaskWaitingToSend, xTaskWaitingToReceive, ucNotifyState>>
vars == <<buffer, ring, waitVars, writerVars, readerVars, history>>

Cell == 0 .. xLength - 1
At(i) == i % xLength
Least(a, b) == IF a < b THEN a ELSE b

(* sbBYTES_TO_STORE_MESSAGE_LENGTH, and what a call needs with it.         *)
LengthBytes == IF isMessageBuffer THEN 1 ELSE 0
xRequiredSpace == send.length + LengthBytes

prvBytesInBuffer == At(xLength + xHead - xTail)

xStreamBufferSpacesAvailable == xLength - 1 - prvBytesInBuffer

(* Longest send and trigger level together: beyond this bound writer and   *)
(* reader can wait for each other for ever, which the code does not forbid.*)
TriggerLevels == {l \in 1 .. xLength - 1 : l + MaxSend + LengthBytes <= xLength}

NoCall == [length |-> 0, ticks |-> "none"]

Init ==
    /\ isMessageBuffer \in BOOLEAN
    /\ xTriggerLevelBytes \in TriggerLevels
    /\ pucBuffer = [c \in Cell |-> 0] /\ xHead = 0 /\ xTail = 0
    /\ xTaskWaitingToSend = FALSE /\ xTaskWaitingToReceive = FALSE
    /\ ucNotifyState = [writer |-> "none", reader |-> "none"]
    /\ w = "idle" /\ send = NoCall /\ xSpace = 0
    /\ r = "idle" /\ ticks = "none" /\ xBytesAvailable = 0 /\ taking = 0
    /\ written = 0 /\ read = 0 /\ messages = <<>>

-----------------------------------------------------------------------------
(* The ring *)

(* prvWriteBytesToBuffer: the bytes are copied, then the head moves.       *)
prvWriteBytesToBuffer(bytes) ==
    /\ pucBuffer' = [c \in Cell |->
           LET i == At(xLength + c - xHead)
           IN IF i < Len(bytes) THEN bytes[i + 1] ELSE pucBuffer[c]]
    /\ xHead' = At(xHead + Len(bytes))
    /\ UNCHANGED xTail

(* prvReadBytesFromBuffer, which leaves the bytes behind the tail.         *)
prvReadBytesFromBuffer(n) ==
    /\ xTail' = At(xTail + n)
    /\ UNCHANGED <<pucBuffer, xHead>>

(* The next n bytes the writer has to send.                                *)
NextBytes(n) == [i \in 1 .. n |-> (written + i - 1) % Numbers]

Written(n) == written' = (written + n) % Numbers
HasRead(n) == read' = (read + n) % Numbers

-----------------------------------------------------------------------------
(* Task notifications (tasks.c), eNoAction: the state alone.               *)

Notify(who) == ucNotifyState' = [ucNotifyState EXCEPT ![who] = "received"]
Notified(who) == ucNotifyState[who] = "received"

xTaskNotifyStateClear(who) ==
    ucNotifyState' = IF Notified(who) THEN [ucNotifyState EXCEPT ![who] = "none"]
                     ELSE ucNotifyState

(* Bug: a notification that has come already is not looked for.            *)
WaitAnyway(who) == ucNotifyState' = [ucNotifyState EXCEPT ![who] = "waiting"]

(* The first half of xTaskNotifyWait: does it have to block?               *)
NotifyWait(who) ==
    ucNotifyState' = IF Notified(who) THEN ucNotifyState
                     ELSE [ucNotifyState EXCEPT ![who] = "waiting"]

(* ... and the second: it runs again, notified or not.                     *)
NotifyWaitEnds(who) == ucNotifyState' = [ucNotifyState EXCEPT ![who] = "none"]

-----------------------------------------------------------------------------
(* xStreamBufferSend *)

WriterGoto(label) == w' = label /\ UNCHANGED <<send, xSpace>>

(* The call returns, and its variables are gone.                           *)
SendReturn == w' = "idle" /\ send' = NoCall /\ xSpace' = 0

SendCall ==
    /\ w = "idle"
    /\ \E n \in 1 .. MaxSend, t \in {"none", "finite", "forever"} :
          /\ send' = [length |-> n, ticks |-> t]
          /\ w' = IF t = "none" THEN "space" ELSE "check"
    /\ UNCHANGED <<xSpace, ring, waitVars, history>>

(* The critical section: too little space, so whoever reads next is to     *)
(* notify the writer.                                                      *)
SendCheck ==
    /\ w = "check"
    /\ xSpace' = xStreamBufferSpacesAvailable
    /\ IF xSpace' < xRequiredSpace
         THEN /\ xTaskNotifyStateClear("writer")
              /\ xTaskWaitingToSend' = TRUE
              /\ w' = "wait"
         ELSE w' = "space" /\ UNCHANGED <<ucNotifyState, xTaskWaitingToSend>>
    /\ UNCHANGED <<send, xTaskWaitingToReceive, ring, history>>

SendWait ==
    /\ w = "wait"
    /\ NotifyWait("writer")
    /\ WriterGoto(IF Notified("writer")' THEN "woken" ELSE "blocked")
    /\ UNCHANGED <<xTaskWaitingToSend, xTaskWaitingToReceive, ring, history>>

SendWakes ==
    /\ w = "blocked"
    /\ Notified("writer") \/ send.ticks = "finite"
    /\ WriterGoto("woken")
    /\ UNCHANGED <<waitVars, ring, history>>

SendWoken ==
    /\ w = "woken"
    /\ NotifyWaitEnds("writer")
    /\ WriterGoto("unregister")
    /\ UNCHANGED <<xTaskWaitingToSend, xTaskWaitingToReceive, ring, history>>

(* Bug: the writer stays registered.                                       *)
SendStaysRegistered ==
    /\ w = "unregister"
    /\ \/ WriterGoto("check")
       \/ send.ticks = "finite" /\ WriterGoto("space")
    /\ UNCHANGED <<waitVars, ring, history>>

(* Line 566, and xTaskCheckForTimeOut.                                     *)
SendUnregister ==
    /\ w = "unregister"
    /\ xTaskWaitingToSend' = FALSE
    /\ \/ WriterGoto("check")
       \/ send.ticks = "finite" /\ WriterGoto("space")
    /\ UNCHANGED <<xTaskWaitingToReceive, ucNotifyState, ring, history>>

SendSpace ==
    /\ w = "space"
    /\ xSpace' = IF xSpace = 0 THEN xStreamBufferSpacesAvailable ELSE xSpace
    /\ w' = "write"
    /\ UNCHANGED <<send, waitVars, ring, history>>

(* prvWriteMessageToBuffer: what fits of a stretch of bytes ...            *)
WriteBytes ==
    LET n == Least(send.length, xSpace) IN
    /\ w = "write"
    /\ ~isMessageBuffer
    /\ xSpace > 0
    /\ prvWriteBytesToBuffer(NextBytes(n))
    /\ Written(n)
    /\ WriterGoto("trigger")
    /\ UNCHANGED <<waitVars, read, messages>>

(* ... but of a message the length first, and then the rest, or nothing.   *)
WriteLength ==
    /\ w = "write"
    /\ isMessageBuffer
    /\ xSpace >= xRequiredSpace
    /\ prvWriteBytesToBuffer(<<send.length>>)
    /\ WriterGoto("data")
    /\ UNCHANGED <<waitVars, history>>

WriteData ==
    /\ w = "data"
    /\ prvWriteBytesToBuffer(NextBytes(send.length))
    /\ Written(send.length)
    /\ messages' = Append(messages, [at     |-> At(xLength + xHead - 1),
                                     length |-> send.length,
                                     first  |-> written])
    /\ WriterGoto("trigger")
    /\ UNCHANGED <<waitVars, read>>

WriteNothing ==
    /\ w = "write"
    /\ xSpace = 0 \/ (isMessageBuffer /\ xSpace < xRequiredSpace)
    /\ SendReturn
    /\ UNCHANGED <<ring, waitVars, history>>

SendTrigger ==
    /\ w = "trigger"
    /\ IF prvBytesInBuffer >= xTriggerLevelBytes THEN WriterGoto("complete") ELSE SendReturn
    /\ UNCHANGED <<ring, waitVars, history>>

(* sbSEND_COMPLETED                                                        *)
SendCompleted ==
    /\ w = "complete"
    /\ IF xTaskWaitingToReceive
         THEN Notify("reader") /\ xTaskWaitingToReceive' = FALSE
         ELSE UNCHANGED <<ucNotifyState, xTaskWaitingToReceive>>
    /\ SendReturn
    /\ UNCHANGED <<xTaskWaitingToSend, ring, history>>

Writer ==
    /\ r = "restore" => WriterPreempts
    /\ \/ SendCall \/ SendCheck \/ SendWait \/ SendWakes \/ SendWoken \/ SendUnregister
       \/ SendSpace \/ WriteBytes \/ WriteLength \/ WriteData \/ WriteNothing
       \/ SendTrigger \/ SendCompleted
    /\ UNCHANGED <<buffer, readerVars>>

-----------------------------------------------------------------------------
(* xStreamBufferReceive *)

ReaderGoto(label) == r' = label /\ UNCHANGED <<ticks, xBytesAvailable, taking>>

ReceiveReturn ==
    r' = "idle" /\ ticks' = "none" /\ xBytesAvailable' = 0 /\ UNCHANGED taking

ReceiveCall ==
    /\ r = "idle"
    /\ ticks' \in {"none", "finite", "forever"}
    /\ r' = IF ticks' = "none" THEN "measure" ELSE "check"
    /\ UNCHANGED <<xBytesAvailable, taking, ring, waitVars, history>>

ReceiveCheck ==
    /\ r = "check"
    /\ xBytesAvailable' = prvBytesInBuffer
    /\ IF xBytesAvailable' <= LengthBytes
         THEN /\ xTaskNotifyStateClear("reader")
              /\ xTaskWaitingToReceive' = TRUE
              /\ r' = "wait"
         ELSE r' = "read" /\ UNCHANGED <<ucNotifyState, xTaskWaitingToReceive>>
    /\ UNCHANGED <<ticks, taking, xTaskWaitingToSend, ring, history>>

ReceiveWait ==
    /\ r = "wait"
    /\ NotifyWait("reader")
    /\ ReaderGoto(IF Notified("reader")' THEN "woken" ELSE "blocked")
    /\ UNCHANGED <<xTaskWaitingToSend, xTaskWaitingToReceive, ring, history>>

ReceiveWakes ==
    /\ r = "blocked"
    /\ Notified("reader") \/ ticks = "finite"
    /\ ReaderGoto("woken")
    /\ UNCHANGED <<waitVars, ring, history>>

ReceiveWoken ==
    /\ r = "woken"
    /\ NotifyWaitEnds("reader")
    /\ ReaderGoto("unregister")
    /\ UNCHANGED <<xTaskWaitingToSend, xTaskWaitingToReceive, ring, history>>

ReceiveUnregister ==
    /\ r = "unregister"
    /\ xTaskWaitingToReceive' = FALSE
    /\ ReaderGoto("measure")
    /\ UNCHANGED <<xTaskWaitingToSend, ucNotifyState, ring, history>>

ReceiveMeasure ==
    /\ r = "measure"
    /\ xBytesAvailable' = prvBytesInBuffer
    /\ r' = "read"
    /\ UNCHANGED <<ticks, taking, ring, waitVars, history>>

(* A length without its message yet counts as nothing.                     *)
ReadNothing ==
    /\ r = "read"
    /\ xBytesAvailable <= LengthBytes
    /\ ReceiveReturn
    /\ UNCHANGED <<ring, waitVars, history>>

ReadBytes ==
    /\ r = "read"
    /\ ~isMessageBuffer
    /\ \E n \in 1 .. xBytesAvailable :
          prvReadBytesFromBuffer(n) /\ HasRead(n)
    /\ ReaderGoto("complete")
    /\ UNCHANGED <<waitVars, written, messages>>

(* Bug: any byte in the buffer is taken for the length of a whole message. *)
ReadLengthAtOnce ==
    /\ r = "read"
    /\ isMessageBuffer
    /\ prvBytesInBuffer > 0
    /\ taking' = Least(pucBuffer[xTail], prvBytesInBuffer - 1)
    /\ prvReadBytesFromBuffer(1)
    /\ messages' = IF messages = <<>> THEN messages ELSE Tail(messages)
    /\ r' = "data"
    /\ UNCHANGED <<ticks, xBytesAvailable, waitVars, written, read>>

(* The length of the next message is taken first; its bytes fit into what  *)
(* the reader has ...                                                      *)
ReadLength ==
    /\ r = "read"
    /\ isMessageBuffer
    /\ xBytesAvailable > LengthBytes
    /\ \E xBufferLengthBytes \in BufferLengths : pucBuffer[xTail] <= xBufferLengthBytes
    /\ taking' = Least(pucBuffer[xTail], xBytesAvailable - 1)
    /\ prvReadBytesFromBuffer(1)
    /\ messages' = Tail(messages)
    /\ r' = "data"
    /\ UNCHANGED <<ticks, xBytesAvailable, waitVars, written, read>>

(* ... or they do not.  The tail has moved already (line 934) ...          *)
ReadTooLong ==
    /\ r = "read"
    /\ isMessageBuffer
    /\ xBytesAvailable > LengthBytes
    /\ \E xBufferLengthBytes \in BufferLengths : pucBuffer[xTail] > xBufferLengthBytes
    /\ prvReadBytesFromBuffer(LengthBytes)
    /\ ReaderGoto("restore")
    /\ UNCHANGED <<waitVars, history>>

(* ... and is put back (line 948): nothing is received, nobody notified.   *)
xOriginalTail == At(xLength + xTail - LengthBytes)

PutBack ==
    /\ r = "restore"
    /\ xTail' = xOriginalTail
    /\ ReceiveReturn
    /\ UNCHANGED <<pucBuffer, xHead, waitVars, history>>

ReadData ==
    /\ r = "data"
    /\ prvReadBytesFromBuffer(taking)
    /\ HasRead(taking)
    /\ taking' = 0
    /\ r' = "complete"
    /\ UNCHANGED <<ticks, xBytesAvailable, waitVars, written, messages>>

(* sbRECEIVE_COMPLETED                                                     *)
ReceiveCompleted ==
    /\ r = "complete"
    /\ IF xTaskWaitingToSend
         THEN Notify("writer") /\ xTaskWaitingToSend' = FALSE
         ELSE UNCHANGED <<ucNotifyState, xTaskWaitingToSend>>
    /\ ReceiveReturn
    /\ UNCHANGED <<xTaskWaitingToReceive, ring, history>>

Reader ==
    /\ \/ ReceiveCall \/ ReceiveCheck \/ ReceiveWait \/ ReceiveWakes \/ ReceiveWoken
       \/ ReceiveUnregister \/ ReceiveMeasure \/ ReadNothing \/ ReadBytes
       \/ ReadLength \/ ReadTooLong \/ PutBack \/ ReadData \/ ReceiveCompleted
    /\ UNCHANGED <<buffer, writerVars>>

Next == Writer \/ Reader

Spec == Init /\ [][Next]_vars

-----------------------------------------------------------------------------
(* Properties *)

(* The type invariant, and the assertions of stream_buffer.c:553 and 757:  *)
(* nobody is registered when a call is about to register its task.         *)
TypeOK ==
    /\ pucBuffer \in [Cell -> 0 .. Numbers + MaxSend] /\ {xHead, xTail} \subseteq Cell
    /\ ucNotifyState \in [{"writer", "reader"} -> {"none", "waiting", "received"}]
    /\ xTaskWaitingToSend => w \in {"wait", "blocked", "woken", "unregister"}
    /\ xTaskWaitingToReceive => r \in {"wait", "blocked", "woken", "unregister"}
    /\ xSpace \in 0 .. xLength - 1 /\ xBytesAvailable \in 0 .. xLength - 1
    /\ taking \in 0 .. MaxSend

(* How far behind the tail a cell is, and where message i ends; the number *)
(* of the byte after it.  Message 0 is the one half read.                  *)
Behind(c) == At(xLength + c - xTail)

Ends(i) ==
    IF i = 0 THEN taking ELSE Behind(messages[i].at) + 1 + messages[i].length

NextNumber(i) ==
    (IF i = 0 THEN read + taking ELSE messages[i].first + messages[i].length) % Numbers

(* From cell c on lie n bytes, numbered from b on.                         *)
Stored(c, n, b) == \A k \in 0 .. n - 1 : pucBuffer[At(c + k)] = (b + k) % Numbers

(* Message i begins where the one before it ends, with its length.         *)
Whole(i) ==
    LET m == messages[i] IN
    /\ Behind(m.at) = Ends(i - 1)
    /\ m.first = NextNumber(i - 1)
    /\ pucBuffer[m.at] = m.length
    /\ Stored(At(m.at + 1), m.length, m.first)

(* From the tail to the head lie the bytes that are next to be read, and   *)
(* no others, each message behind its length.                              *)
RingIntact ==
    IF isMessageBuffer
      THEN /\ Stored(xTail, taking, read)
           /\ \A i \in DOMAIN messages : Whole(i)
           /\ Ends(Len(messages)) + (IF w = "data" THEN 1 ELSE 0) = prvBytesInBuffer
           /\ NextNumber(Len(messages)) = written
      ELSE /\ Stored(xTail, prvBytesInBuffer, read)
           /\ (read + prvBytesInBuffer) % Numbers = written

(* Every byte comes out once, in the order in which it went in, and every  *)
(* message whole, although both ends of the ring move without a lock; and  *)
(* "if xBufferLengthBytes is too small to hold the next message then the   *)
(* message will be left in the message buffer" (message_buffer.h:449).     *)
(* Nothing is said while the tail has yet to be put back: the damage a     *)
(* writer does then shows when it is, and there is some if WriterPreempts. *)
Intact == r # "restore" => RingIntact

(* No wake-up is lost: a reader that sleeps although the trigger level is  *)
(* reached, or a writer that sleeps although its bytes would fit, is about *)
(* to be notified by the other, who has not finished its call; or what the *)
(* writer would fill is a length that is to be put back.                   *)
NobodyOversleeps ==
    /\ r = "blocked" /\ ~Notified("reader") /\ prvBytesInBuffer >= xTriggerLevelBytes
         => w \in {"data", "trigger", "complete"}
    /\ w = "blocked" /\ ~Notified("writer") /\ xStreamBufferSpacesAvailable >= xRequiredSpace
         => r \in {"data", "complete", "restore"}

(* Writer and reader never wait for each other, the one for space and the  *)
(* other for its trigger level.                                            *)
NeverBothAsleep ==
    ~ (w = "blocked" /\ ~Notified("writer") /\ r = "blocked" /\ ~Notified("reader"))
=============================================================================
