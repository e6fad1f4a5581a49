--------------------------- MODULE MCPortalLogin ---------------------------
(***************************************************************************)
(* Instance of PortalLogin for TLC: the two destinations of the code, an   *)
(* adapter whose gateway changes and that is replaced once, and one end of *)
(* the process.                                                            *)
(***************************************************************************)
EXTENDS PortalLogin

CONSTANTS g1, g2

GatewayChanges == {<<g1, 1>>, <<g2, 1>>, <<g1, 2>>}
=============================================================================
