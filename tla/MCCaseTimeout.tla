--------------------------- MODULE MCCaseTimeout --------------------------
(* Two instances run the task; the older of two logs has no host.           *)
EXTENDS CaseTimeout

CONSTANTS i1, i2

FirstLog == {1}
=============================================================================
