------------------------------ MODULE MCQueue ------------------------------
(***************************************************************************)
(* Instances of Queue for TLC: two receivers of different priority and a   *)
(* sender, with interrupt handlers on both ends.                           *)
(***************************************************************************)
EXTENDS Queue, TLC

CONSTANTS idle, t1, t2, t3, a, b

MCTask == {idle, t1, t2, t3}

MCPriority == [t \in Task |-> IF t = idle THEN 0 ELSE IF t = t1 THEN 1 ELSE 2]

(* The calls a task makes: an operation with each of some waits.           *)
Sends(ops, waits) == [op : ops, item : Item, wait : waits]
Takes(ops, waits) == [op : ops, item : {Empty}, wait : waits]
Reset == [op |-> "reset", item |-> Empty, wait |-> "none"]
Delay == [op |-> "delay", item |-> Empty, wait |-> "finite"]


(* Tasks that send and receive at both ends: waiters on both lists, with a *)
(* peeker that must pass its wake-up on.                                   *)
BothEnds == (idle :> {}) @@
            (t1 :> Sends({"sendBack"}, {"none", "forever"})
                       \cup Takes({"receive"}, {"finite"})) @@
            (t2 :> Sends({"sendFront"}, {"finite"})
                       \cup Takes({"receive"}, {"forever"}) \cup {Delay}) @@
            (t3 :> Sends({"sendBack"}, {"forever"})
                       \cup Takes({"peek"}, {"finite", "forever"}) \cup {Delay})

(* Two items, to tell their order, and a task that resets the queue.       *)
Ordered == (idle :> {}) @@
           (t1 :> Sends({"sendBack", "sendFront"}, {"none", "finite"}) \cup {Reset}) @@
           (t2 :> Takes({"receive", "peek"}, {"none", "finite", "forever"}) \cup {Delay})

(* A mailbox: a queue of one that is overwritten.                          *)
Mailbox == (idle :> {}) @@
           (t1 :> Sends({"overwrite"}, {"none"}) \cup Takes({"receive"}, {"finite"}) \cup {Reset}) @@
           (t2 :> Takes({"receive"}, {"finite", "forever"})
                     \cup Sends({"sendBack"}, {"finite", "forever"}) \cup {Delay})

TwoTasks == {idle, t1, t2}
=============================================================================
