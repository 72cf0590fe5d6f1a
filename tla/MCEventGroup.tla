---------------------------- MODULE MCEventGroup ----------------------------
(* Two tasks that meet at a rendezvous, a third that waits for its own     *)
(* bits, and interrupts that set and clear one of them.                    *)
EXTENDS EventGroup, TLC

CONSTANTS ann, bob, cyd, x, y, z

Waits(b, e, k, i) ==
    [op |-> "wait", bits |-> b, set |-> {}, all |-> e, clear |-> k, ticks |-> i]

Meets(s, b, i) ==
    [op |-> "sync", bits |-> b, set |-> s, all |-> TRUE, clear |-> TRUE, ticks |-> i]

MCTask == {ann, bob, cyd}
MCBit == {x, y, z}
MCCalls ==
    (ann :> {Meets({x}, {x, y}, "forever"), Waits({z}, TRUE, TRUE, "finite")})
    @@ (bob :> {Meets({y}, {x, y}, "forever"), Waits({z}, FALSE, TRUE, "forever")})
    @@ (cyd :> {Waits({x, z}, TRUE, FALSE, "finite"), Waits({z}, FALSE, FALSE, "forever"),
                Meets({}, {z}, "finite"), Waits({y, z}, FALSE, FALSE, "none")})
MCSets == {{z}}
MCClears == {{z}}

(* Ann and bob use their rendezvous as the header shows.                   *)
ASSUME MeetingAssumption == RendezvousUse
=============================================================================
