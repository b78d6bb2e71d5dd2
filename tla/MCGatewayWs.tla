---------------------------- MODULE MCGatewayWs ----------------------------
(* Two sessions that compete for the only slot of the table. *)
EXTENDS GatewayWs

CONSTANTS s1, s2
=============================================================================
