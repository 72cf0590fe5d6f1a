----------------------------- MODULE EventFlags -----------------------------
(***************************************************************************)
(* What an event group promises (include/event_groups.h), without lists,   *)
(* item values or a scheduler: every call takes effect at one instant.     *)
(*                                                                         *)
(*   - A call that finds what it waits for returns at once, and clears it  *)
(*     if it was asked to.                                                 *)
(*   - A set completes every call without time limit whose condition it    *)
(*     meets; each of them returns the bits as they were before any of     *)
(*     them was cleared.  It may miss a call whose time is just running    *)
(*     out, and no other.                                                  *)
(*   - A call with a time limit may end at any time, with the bits of that *)
(*     time; if they meet its condition it clears as if it had been woken. *)
(*   - Nothing else changes a bit, and nothing else completes a call.      *)
(***************************************************************************)
CONSTANTS Task, Bit, Calls, NULL

VARIABLES
    flags,    \* the bits that are set
    pending,  \* the call each task waits in, or NULL
    result    \* the bits with which a pending call was completed, or NULL

Holds(c, bits) == IF c.all THEN c.bits \subseteq bits ELSE c.bits \cap bits # {}

Consumed(c) == IF c.clear THEN c.bits ELSE {}

Unfinished == {t \in Task : pending[t] # NULL /\ result[t] = NULL}

Init ==
    /\ flags = {}
    /\ pending = [t \in Task |-> NULL]
    /\ result = [t \in Task |-> NULL]

(* The bits arrive: the calls of Woken are completed and consume theirs,   *)
(* the caller consumes its own.                                            *)
ArriveAnd(bits, own) ==
    LET all == flags \cup bits IN
    \E Woken \in SUBSET {t \in Unfinished : Holds(pending[t], all)} :
        /\ \A t \in Unfinished \ Woken :
               Holds(pending[t], all) => pending[t].ticks = "finite"
        /\ result' = [t \in Task |-> IF t \in Woken THEN all ELSE result[t]]
        /\ flags' = all \ (own \cup UNION {Consumed(pending[t]) : t \in Woken})

Arrive(bits) == ArriveAnd(bits, {})

Set(bits) == Arrive(bits) /\ UNCHANGED pending

Clear(bits) == flags' = flags \ bits /\ UNCHANGED <<pending, result>>

(* A wait that returns at once: its condition holds, or it may not wait.   *)
WaitAtOnce(c) ==
    /\ Holds(c, flags) \/ c.ticks = "none"
    /\ flags' = flags \ (IF Holds(c, flags) THEN Consumed(c) ELSE {})
    /\ UNCHANGED <<pending, result>>

Wait(t, c) ==
    /\ pending[t] = NULL
    /\ ~Holds(c, flags)
    /\ c.ticks # "none"
    /\ pending' = [pending EXCEPT ![t] = c]
    /\ UNCHANGED <<flags, result>>

(* A rendezvous: the caller's bits are set for the others first.           *)
SyncAtOnce(c) ==
    /\ Holds(c, flags \cup c.set) \/ c.ticks = "none"
    /\ ArriveAnd(c.set, IF Holds(c, flags \cup c.set) THEN c.bits ELSE {})
    /\ UNCHANGED pending

Sync(t, c) ==
    /\ pending[t] = NULL
    /\ ~Holds(c, flags \cup c.set)
    /\ c.ticks # "none"
    /\ Arrive(c.set)
    /\ pending' = [pending EXCEPT ![t] = c]

TimeOut(t) ==
    /\ t \in Unfinished
    /\ pending[t].ticks = "finite"
    /\ flags' = flags \ (IF Holds(pending[t], flags) THEN Consumed(pending[t]) ELSE {})
    /\ pending' = [pending EXCEPT ![t] = NULL]
    /\ UNCHANGED result

Return(t) ==
    /\ result[t] # NULL
    /\ pending' = [pending EXCEPT ![t] = NULL]
    /\ result' = [result EXCEPT ![t] = NULL]
    /\ UNCHANGED flags

(* The group is deleted: every call without a result ends with no bits.    *)
Delete ==
    /\ result' = [t \in Task |-> IF t \in Unfinished THEN {} ELSE result[t]]
    /\ UNCHANGED <<flags, pending>>

Renew == flags' = {} /\ UNCHANGED <<pending, result>>

Next ==
    \/ \E bits \in SUBSET Bit : Set(bits) \/ Clear(bits)
    \/ \E t \in Task : \E c \in Calls[t] :
          CASE c.op = "wait" -> WaitAtOnce(c) \/ Wait(t, c)
            [] c.op = "sync" -> SyncAtOnce(c) \/ Sync(t, c)
            [] OTHER -> FALSE
    \/ \E t \in Task : TimeOut(t) \/ Return(t)
    \/ Delete
    \/ Renew

Spec == Init /\ [][Next]_<<flags, pending, result>>
=============================================================================
