----------------------------- MODULE AgentRegistry -----------------------------
(***************************************************************************)
(* What the connection manager promises of active_connections, whatever    *)
(* its coroutines do meanwhile: a connection has its turn once.  It enters *)
(* the registry under its own agent or is refused; once it has left it     *)
(* never comes back, and it is forgotten only after it has left.           *)
(***************************************************************************)
CONSTANTS Agent, Socket, None, Owner

VARIABLES
    conn,  \* the connection of an agent
    used   \* connections that have had their turn

Init == conn = [a \in Agent |-> None] /\ used = {}

\* The registry without the agents that leave at the same time.
Left(gone) == [a \in Agent |-> IF a \in gone THEN None ELSE conn[a]]

Enter(s) ==
    /\ s \notin used
    /\ used' = used \cup {s}
    /\ \E gone \in SUBSET Agent : conn' = [Left(gone) EXCEPT ![Owner[s]] = s]

Refuse(s) ==
    /\ s \notin used
    /\ used' = used \cup {s}
    /\ \E gone \in SUBSET Agent : conn' = Left(gone)

Leave == used' = used /\ \E gone \in SUBSET Agent : conn' = Left(gone)

Forget(s) ==
    /\ s \in used /\ \A a \in Agent : conn[a] # s
    /\ used' = used \ {s}
    /\ conn' = conn

Next == Leave \/ \E s \in Socket : Enter(s) \/ Refuse(s) \/ Forget(s)

Spec == Init /\ [][Next]_<<conn, used>>
================================================================================
