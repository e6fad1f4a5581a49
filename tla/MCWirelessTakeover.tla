------------------------- MODULE MCWirelessTakeover -------------------------
(***************************************************************************)
(* Instances of WirelessTakeover for TLC.                                  *)
(***************************************************************************)
EXTENDS WirelessTakeover

Delays   == <<1, 2>>
OneDelay == <<1>>
=============================================================================
