------------------------- MODULE MCWiredSupervisor -------------------------
(***************************************************************************)
(* Instances of WiredSupervisor for TLC.  As in the program, the link poll *)
(* is shorter than the link-down retry, that one shorter than the probe    *)
(* interval, and backoff delays lie on both sides of the poll.  The long   *)
(* delays (failed login, toast threshold and throttle) are not to scale:   *)
(* they are short, so that they expire in every order with the others.     *)
(***************************************************************************)
EXTENDS WiredSupervisor
=============================================================================
