---------------------------- MODULE MCHostDiscovery ----------------------------
(* A query over three hosts in pages of two entries, beside another caller of *)
(* the breaker.  The lists overlap, so that a host may come twice while the   *)
(* list changes, and one has a page without a usable entry.                   *)
EXTENDS HostDiscovery

CONSTANTS c1, c2

ThreeLists == {<<3, 1, 2>>, <<1, Bad, 2, 1, 3>>, <<Bad, Bad, 2>>}
================================================================================
