--------------------------- MODULE BoundedChannel ---------------------------
(***************************************************************************)
(* What a queue promises its users (include/queue.h): a bounded sequence   *)
(* of items on which each call takes effect at one instant between its     *)
(* start and its return.  Nothing here knows of pointers, locks, lists,    *)
(* priorities or time.                                                     *)
(***************************************************************************)
EXTENDS Integers, Sequences

CONSTANTS Task, Item, Empty, uxLength, Call, SendsISR, TakesISR

VARIABLES chan,   \* the items in the queue, the next to be read first
          call,   \* the call each task is in
          reply   \* what each task's last call returned

vars == <<chan, call, reply>>

None == [op |-> "none", item |-> Empty, wait |-> "none"]
Answer(r, x) == [result |-> r, item |-> x]

Init ==
    /\ chan = <<>>
    /\ call = [t \in Task |-> None]
    /\ reply = [t \in Task |-> Answer("none", Empty)]

Begin(t) ==
    /\ call[t] = None
    /\ \E c \in Call[t] : call' = [call EXCEPT ![t] = c]
    /\ reply' = [reply EXCEPT ![t] = Answer("none", Empty)]
    /\ UNCHANGED chan

Return(t, r, x) ==
    /\ call' = [call EXCEPT ![t] = None]
    /\ reply' = [reply EXCEPT ![t] = Answer(r, x)]

(* The ways an item enters: nothing is lost but what "overwrite" replaces. *)
Put(x, op) ==
    \/ /\ op = "sendBack" /\ Len(chan) < uxLength
       /\ chan' = Append(chan, x)
    \/ /\ op = "sendFront" /\ Len(chan) < uxLength
       /\ chan' = <<x>> \o chan
    \/ /\ op = "overwrite"
       /\ chan' = <<x>>

Get == chan # <<>> /\ chan' = Tail(chan)

Send(t) ==
    /\ Put(call[t].item, call[t].op)
    /\ Return(t, "pdPASS", Empty)

Receive(t) ==
    /\ call[t].op = "receive"
    /\ Get
    /\ Return(t, "pdPASS", Head(chan))

Peek(t) ==
    /\ call[t].op = "peek"
    /\ chan # <<>>
    /\ Return(t, "pdPASS", Head(chan))
    /\ UNCHANGED chan

(* A sender that would not wait finds the queue full; one whose time is up *)
(* is told so whatever the queue holds by then.  A receiver is refused     *)
(* only by a queue that is empty.  Who waits for ever is never refused.    *)
Refuse(t) ==
    /\ call[t].wait # "forever"
    /\ \/ /\ call[t].op \in {"sendBack", "sendFront"}
          /\ call[t].wait = "none" => Len(chan) = uxLength
          /\ Return(t, "errQUEUE_FULL", Empty)
       \/ /\ call[t].op \in {"receive", "peek"}
          /\ chan = <<>>
          /\ Return(t, "errQUEUE_EMPTY", Empty)
    /\ UNCHANGED chan

Reset(t) ==
    /\ call[t].op = "reset"
    /\ chan' = <<>>
    /\ Return(t, "pdPASS", Empty)

Delay(t) ==
    /\ call[t].op = "delay"
    /\ Return(t, "none", Empty)
    /\ UNCHANGED chan

Interrupt ==
    /\ \/ \E x \in Item, op \in SendsISR : Put(x, op)
       \/ TakesISR /\ Get
    /\ UNCHANGED <<call, reply>>

Next ==
    \/ \E t \in Task :
          \/ Begin(t) \/ Send(t) \/ Receive(t) \/ Peek(t) \/ Refuse(t)
          \/ Reset(t) \/ Delay(t)
    \/ Interrupt

Spec == Init /\ [][Next]_vars

=============================================================================
