--------------------------- MODULE MCGatewayHttp --------------------------
(* Two calls of the auth service and one request of the gateway, over four  *)
(* seconds: a token is refreshed, used, logged out and expires meanwhile.   *)
EXTENDS GatewayHttp, TLC

CONSTANTS k1, k2, r1

CallSymmetry == Permutations(Calls)
=============================================================================
