------------------------------- MODULE MCEnet -------------------------------
(* Two descriptors each way, two packet buffers, and one application task. *)
EXTENDS EnetInterface

CONSTANTS tcpip, app

MCApp == {app}
=============================================================================
