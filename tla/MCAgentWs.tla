------------------------------- MODULE MCAgentWs -------------------------------
(* Small instances of the connection manager.  Sockets are reused once their *)
(* endpoint is over, so a few of them stand for any number of connections:   *)
(* what is bounded is how many of them exist at a time.                      *)
EXTENDS AgentWs

CONSTANTS a1, a2, s1, s2, s3

\* All sockets of one agent.
OneOwner == [s \in Socket |-> a1]

\* The third socket belongs to a second agent.
TwoOwners == [s \in Socket |-> IF s = s3 THEN a2 ELSE a1]
================================================================================
