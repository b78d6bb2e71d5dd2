------------------------- MODULE MCServiceDirectory ------------------------
(* Two instances that come and go, and a gateway with one request at a time. *)
EXTENDS ServiceDirectory

CONSTANT r1
=============================================================================
