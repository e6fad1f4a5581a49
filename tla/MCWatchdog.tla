----------------------------- MODULE MCWatchdog -----------------------------
(***************************************************************************)
(* Instances of Watchdog for TLC.  The safety run uses the program's own   *)
(* delays; AttemptCap stands in for u32::MAX, above the exponent cap 20.   *)
(***************************************************************************)
EXTENDS Watchdog
=============================================================================
