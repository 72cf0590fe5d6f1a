------------------------------ MODULE MCTasks ------------------------------
(***************************************************************************)
(* Two tasks in a heap of thirteen units of two bytes: with the headers    *)
(* the one takes six, the other seven and the queue three.  A count that   *)
(* overflows every four ticks lets sleeps of every length cross it, and a  *)
(* wait of three is one without a time-out.                                *)
(***************************************************************************)
EXTENDS Tasks, TLC

CONSTANTS one, two

MCTask == {one, two}
MCStackBytes == (one :> 4) @@ (two :> 6)
MCDelays == (one :> {3}) @@ (two :> {1})
MCWaits == (one :> {2, 3}) @@ (two :> {})
MCPeriods == (one :> {}) @@ (two :> {2, 3})
=============================================================================
