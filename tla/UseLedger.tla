------------------------------- MODULE UseLedger -------------------------------
(***************************************************************************)
(* What the execution logs of a host promise its users.  A test case puts  *)
(* a log of its user in the place of at most one that is his; a log ends   *)
(* when its user leaves the host or everybody has to; a log that has ended *)
(* never comes back, and its number is given to no other.                  *)
(***************************************************************************)
EXTENDS Naturals

CONSTANT User

VARIABLES
    live,  \* the logs in use: a number, and whose it is
    given  \* numbers given so far

Init == live = {} /\ given = 0

Of(u) == {l \in live : l.user = u}

Take(u) ==
    /\ given' = given + 1
    /\ \E n \in 0 .. given :
        live' = (live \ {l \in Of(u) : l.id = n}) \cup {[id |-> given + 1, user |-> u]}

Leave(u) == live' = live \ Of(u) /\ given' = given

Clear == live' = {} /\ given' = given

Next == Clear \/ \E u \in User : Take(u) \/ Leave(u)

Spec == Init /\ [][Next]_<<live, given>>
================================================================================
