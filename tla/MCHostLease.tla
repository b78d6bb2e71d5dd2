------------------------------ MODULE MCHostLease ------------------------------
(* Requests and users are interchangeable. *)
EXTENDS HostLease, TLC

HostLeaseSymmetry == Permutations(Request) \cup Permutations(User)
================================================================================
