--------------------------- MODULE MCGatewayState ---------------------------
(* Small instances of GatewayState for TLC. *)
EXTENDS GatewayState

CONSTANTS gw, cli, m1, m2
=============================================================================
