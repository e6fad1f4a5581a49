------------------------ MODULE MCSetupTransaction ------------------------
(* SetupTransaction for TLC: one payload file, the service's program.      *)
EXTENDS SetupTransaction
=============================================================================
