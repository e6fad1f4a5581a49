-------------------------- MODULE MCWirelessEgress --------------------------
(***************************************************************************)
(* Instances of WirelessEgress for TLC: the two destinations of the code   *)
(* (portal and probe host), one or two gateways, an adapter that changes   *)
(* its index once, and one or two ends of the process.                     *)
(***************************************************************************)
EXTENDS WirelessEgress
=============================================================================
