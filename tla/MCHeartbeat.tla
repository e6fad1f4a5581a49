---------------------------- MODULE MCHeartbeat ----------------------------
(* Instance of Heartbeat for TLC, with the code's own constants. *)
EXTENDS Heartbeat
=============================================================================
