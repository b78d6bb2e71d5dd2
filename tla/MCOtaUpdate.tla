---------------------------- MODULE MCOtaUpdate ---------------------------
(* Two reports overlap with each other and with confirmations of two        *)
(* versions, on two rows, and a query of the configuration with deployments.*)
EXTENDS OtaUpdate

CONSTANTS i1, v1, v2, r1, r2, q1, none
=============================================================================
