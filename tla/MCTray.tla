------------------------------- MODULE MCTray -------------------------------
(* Instance of Tray for TLC: three launches in one session. *)
EXTENDS Tray
=============================================================================
