------------------------------ MODULE MCTimers ------------------------------
(* An auto-reload timer and a one-shot timer, over a tick count of a few  *)
(* values.                                                                 *)
EXTENDS Timers, TLC

CONSTANTS auto, once

MCTimer == {auto, once}
MCAuto == {auto}
MCPeriods == {1, 3}

(* One place, for the one auto-reload timer: the premise of TimersProofs.  *)
ASSUME ReloadRoomAssumption == EnoughRoom

=============================================================================
