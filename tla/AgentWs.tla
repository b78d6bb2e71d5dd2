-------------------------------- MODULE AgentWs --------------------------------
(***************************************************************************)
(* The agent WebSocket manager of host-service: one process, one asyncio   *)
(* loop.  Coroutines interleave only where they await, so every action     *)
(* below runs from one await to the next:                                  *)
(*                                                                         *)
(*   - a Socket task is the endpoint coroutine of one WebSocket: connect,  *)
(*     then the receive loop with its handlers inline;                     *)
(*   - an Agent task is the child the heartbeat checker gathers for that   *)
(*     agent: a warning or a timeout disconnect.                           *)
(*                                                                         *)
(* disconnect(agent) runs inside the task that calls it.  The dictionaries *)
(* of the manager are keyed by agent, never by socket, and that is what    *)
(* makes the interleavings interesting.                                    *)
(***************************************************************************)
EXTENDS Naturals, FiniteSets

CONSTANTS
    Agent,      \* agent ids, host_rec.id as a string
    Socket,     \* WebSocket objects; a socket is used by one endpoint call
    None,
    Owner,      \* the agent a socket authenticates as
    MaxConn,    \* max_connections
    InitialHost,\* the host states found in the database at startup
    Contended   \* agents whose host_state others write (or report) meanwhile

ASSUME OwnerAssumption == Owner \in [Socket -> Agent]
ASSUME TaskAssumption == Agent \cap Socket = {} /\ None \notin Socket
ASSUME BoundAssumption == /\ MaxConn \in Nat
                          /\ InitialHost \subseteq {"free", "busy", "offline"}
                          /\ Contended \subseteq Agent

VARIABLES
    active,         \* active_connections
    heartbeat,      \* heartbeat_timestamps, as an age: none, fresh, stale (> 60 s)
    warning,        \* _heartbeat_warning_sent: none, waiting, due (>= 10 s)
    disconnecting,  \* _disconnecting
    link,           \* what server and peer did to the transport of a socket
    pc,             \* the await at which each task stands
    after,          \* where the caller of disconnect resumes
    peer,           \* the local variable `websocket` of the task's pending send
    tcp,            \* host_rec.tcp_state
    host            \* host_rec.host_state: free, busy (LOCKED, OCCUPIED), offline

memory == <<active, heartbeat, warning, disconnecting>>
tasks == <<pc, after, peer>>
database == <<tcp, host>>
vars == <<memory, link, tasks, database>>

Task == Socket \cup Agent

\* The agent of a socket is the id its token names, which is decoded and not
\* introspected; sockets without a token share the agent "unknown".
AgentOf(t) == IF t \in Socket THEN Owner[t] ELSE t

\* up: both ends open; lost: the peer is gone and nobody has noticed;
\* down: receive raised WebSocketDisconnect (client_state DISCONNECTED);
\* closed: the server has sent its close frame;
\* ended: its endpoint has returned without one, and every send raises.
LinkState == {"new", "up", "lost", "down", "closed", "ended"}

Connecting == {"welcome", "c_tcp", "c_read", "c_free", "c_stamp"}
Handling == {"h_tcp", "h_restore", "h_offline", "h_close", "h_ack", "h_send"}
Warning == {"w_tcp", "w_pick", "w_send"}
Disconnect == {"d_tcp", "d_read", "d_off", "d_end"}
SocketResumption == {"idle", "welcome", "c_tcp", "recv", "done"}
AgentResumption == {"idle", "warned"}

SocketStep == {"idle", "recv", "done"} \cup Connecting \cup Handling \cup Disconnect
AgentStep == {"idle", "recheck"} \cup Warning \cup Disconnect

TypeOK ==
    /\ active \in [Agent -> Socket \cup {None}]
    /\ heartbeat \in [Agent -> {"none", "fresh", "stale"}]
    /\ warning \in [Agent -> {"none", "waiting", "due"}]
    /\ disconnecting \in SUBSET Agent
    /\ link \in [Socket -> LinkState]
    /\ pc \in [Task -> SocketStep \cup AgentStep]
    /\ after \in [Task -> SocketResumption \cup AgentResumption]
    /\ \A s \in Socket : pc[s] \in SocketStep /\ after[s] \in SocketResumption
    /\ \A a \in Agent : pc[a] \in AgentStep /\ after[a] \in AgentResumption
    /\ peer \in [Task -> Socket \cup {None}]
    /\ tcp \in [Agent -> {"close", "wait", "listen"}]
    /\ host \in [Agent -> {"free", "busy", "offline"}]

\* A start or restart: the database keeps what an earlier run left in it.
Init ==
    /\ active = [a \in Agent |-> None]
    /\ heartbeat = [a \in Agent |-> "none"]
    /\ warning = [a \in Agent |-> "none"]
    /\ disconnecting = {}
    /\ link = [s \in Socket |-> "new"]
    /\ pc = [t \in Task |-> "idle"]
    /\ after = [t \in Task |-> "idle"]
    /\ peer = [t \in Task |-> None]
    /\ tcp \in [Agent -> {"close", "wait", "listen"}]
    /\ host \in [Agent -> InitialHost]

--------------------------------------------------------------------------------
(* Helpers.                                                                *)

Registered(a) == active[a] # None

\* Entries of the agents in `gone` deleted from a dictionary.
Without(dict, gone, empty) == [a \in Agent |-> IF a \in gone THEN empty ELSE dict[a]]

\* Mutant: no test of the mark.
NeverDisconnecting(a) == FALSE

\* The guard of disconnect: somebody else is already at it.
AlreadyDisconnecting(a) == a \in disconnecting

Goto(t, step) == pc' = [pc EXCEPT ![t] = step]

\* Where a task stands after disconnect returned to it, `gone` having been
\* cleaned up in the same breath: connect registers its socket and sends the
\* welcome message, the warning coroutine records its warning.
Resume(t, step, gone) ==
    LET a == AgentOf(t) IN
    /\ active' = IF step = "welcome"
                 THEN [Without(active, gone, None) EXCEPT ![a] = t]
                 ELSE Without(active, gone, None)
    /\ warning' = IF step = "warned"
                  THEN [Without(warning, gone, "none") EXCEPT ![a] = "waiting"]
                  ELSE Without(warning, gone, "none")
    /\ heartbeat' = Without(heartbeat, gone, "none")
    /\ peer' = [peer EXCEPT ![t] = IF step = "welcome" THEN t ELSE None]
    /\ Goto(t, IF step = "warned" THEN "idle" ELSE step)

\* The synchronous head of disconnect(agent): mark, delete the entries, send
\* the close frame unless the client is known to be gone.  `lnk` is the state
\* of the sockets the caller has just observed.
BeginDisconnect(t, step, gone, lnk) ==
    LET a == AgentOf(t)
        ws == active[a]
    IN  /\ disconnecting' = disconnecting \cup {a}
        /\ active' = Without(active, gone \cup {a}, None)
        /\ heartbeat' = Without(heartbeat, gone \cup {a}, "none")
        /\ warning' = Without(warning, gone \cup {a}, "none")
        /\ link' = IF ws # None /\ lnk[ws] # "down"
                   THEN [lnk EXCEPT ![ws] = "closed"]
                   ELSE lnk
        /\ peer' = [peer EXCEPT ![t] = None]
        /\ after' = [after EXCEPT ![t] = step]
        /\ Goto(t, "d_tcp")

\* await self.disconnect(agent_id), by task t, which then goes on at `step`.
CallDisconnect(t, step, gone, lnk) ==
    \/ /\ AlreadyDisconnecting(AgentOf(t))
       /\ Resume(t, step, gone)
       /\ link' = lnk
       /\ UNCHANGED <<disconnecting, after>>
    \/ /\ ~AlreadyDisconnecting(AgentOf(t))
       /\ BeginDisconnect(t, step, gone, lnk)

--------------------------------------------------------------------------------
(* disconnect, after its synchronous head.                                 *)

\* The transport is closed; await update_tcp_state(agent_id, 0).
TcpClosed(t) ==
    /\ pc[t] = "d_tcp"
    /\ tcp' = [tcp EXCEPT ![AgentOf(t)] = "close"]
    /\ Goto(t, "d_read")
    /\ UNCHANGED <<memory, link, after, peer, host>>

\* Only a host read as FREE is taken offline.
GoesOffline(state) == state = "free"

ReadHost(t) ==
    /\ pc[t] = "d_read"
    /\ Goto(t, IF GoesOffline(host[AgentOf(t)]) THEN "d_off" ELSE "d_end")
    /\ UNCHANGED <<memory, link, after, peer, database>>

\* update_host_status(status="offline") writes whatever the state is by now.
WriteOffline(t) ==
    /\ pc[t] = "d_off"
    /\ host' = [host EXCEPT ![AgentOf(t)] = "offline"]
    /\ Goto(t, "d_end")
    /\ UNCHANGED <<memory, link, after, peer, tcp>>

\* The finally block, and the caller's code up to its next await.
EndDisconnect(t) ==
    /\ pc[t] = "d_end"
    /\ disconnecting' = disconnecting \ {AgentOf(t)}
    /\ Resume(t, after[t], {})
    /\ after' = [after EXCEPT ![t] = "idle"]
    /\ UNCHANGED <<link, database>>

--------------------------------------------------------------------------------
(* send_to_host: the socket is looked up before the await and the failure  *)
(* is handled after it, for whatever connection the agent has by then.     *)

Sending == {"welcome", "h_send", "w_send"}

AfterSend(step) == CASE step = "welcome" -> "c_tcp"
                     [] step = "h_send" -> "recv"
                     [] step = "w_send" -> "warned"

SendSucceeds(t) ==
    /\ pc[t] \in Sending
    /\ link[peer[t]] \in {"up", "lost"}
    /\ Resume(t, AfterSend(pc[t]), {})
    /\ UNCHANGED <<disconnecting, link, after, database>>

SendFails(t) ==
    /\ pc[t] \in Sending
    /\ link[peer[t]] \in {"lost", "down", "closed", "ended"}
    /\ CallDisconnect(t, AfterSend(pc[t]), {}, link)
    /\ UNCHANGED database

\* An agent that is not connected here is published to the other instances,
\* which is outside this module.
BeginSend(t, from, step) ==
    /\ pc[t] = from
    /\ \/ /\ Registered(AgentOf(t))
          /\ peer' = [peer EXCEPT ![t] = active[AgentOf(t)]]
          /\ Goto(t, step)
          /\ UNCHANGED <<memory, after>>
       \/ /\ ~Registered(AgentOf(t))
          /\ Resume(t, AfterSend(step), {})
          /\ UNCHANGED <<disconnecting, after>>
    /\ UNCHANGED <<link, database>>

--------------------------------------------------------------------------------
(* connect(agent_id, websocket).                                           *)

\* _cleanup_invalid_connections: sockets whose client is known to be gone.
Invalid == {a \in Agent : Registered(a) /\ link[active[a]] = "down"}

ConnectionCount == Cardinality({a \in Agent \ Invalid : Registered(a)})

LimitReached == ConnectionCount >= MaxConn

\* Mutant: connect does not return after it has closed the socket.
ConnectNotReturned(s) ==
    /\ pc[s] = "idle" /\ link[s] = "new"
    /\ LimitReached
    /\ link' = [link EXCEPT ![s] = "closed"]
    /\ Resume(s, "welcome", Invalid)
    /\ UNCHANGED <<disconnecting, after, database>>

\* connect closes the socket and returns; the endpoint still enters its
\* receive loop.
ConnectRejected(s) ==
    /\ pc[s] = "idle" /\ link[s] = "new"
    /\ LimitReached
    /\ link' = [link EXCEPT ![s] = "closed"]
    /\ Resume(s, "recv", Invalid)
    /\ UNCHANGED <<disconnecting, after, database>>

\* accept, then connect up to the welcome message or the old connection's
\* disconnect.
ConnectAccepted(s) ==
    /\ pc[s] = "idle" /\ link[s] = "new"
    /\ ~LimitReached
    /\ LET lnk == [link EXCEPT ![s] = "up"] IN
       IF Owner[s] \in Invalid \/ ~Registered(Owner[s])
       THEN /\ Resume(s, "welcome", Invalid)
            /\ link' = lnk
            /\ UNCHANGED <<disconnecting, after>>
       ELSE CallDisconnect(s, "welcome", Invalid, lnk)
    /\ UNCHANGED database

ConnectTcp(s) ==
    /\ pc[s] = "c_tcp"
    /\ tcp' = [tcp EXCEPT ![Owner[s]] = "listen"]
    /\ Goto(s, "c_read")
    /\ UNCHANGED <<memory, link, after, peer, host>>

ConnectReadHost(s) ==
    /\ pc[s] = "c_read"
    /\ Goto(s, IF host[Owner[s]] = "offline" THEN "c_free" ELSE "c_stamp")
    /\ UNCHANGED <<memory, link, after, peer, database>>

ConnectFreeHost(s) ==
    /\ pc[s] = "c_free"
    /\ host' = [host EXCEPT ![Owner[s]] = "free"]
    /\ Goto(s, "c_stamp")
    /\ UNCHANGED <<memory, link, after, peer, tcp>>

\* The first heartbeat timestamp is the last thing connect sets.
Stamp(a) == heartbeat' = [heartbeat EXCEPT ![a] = "fresh"]

ConnectEnds(s) ==
    /\ pc[s] = "c_stamp"
    /\ Stamp(Owner[s])
    /\ Goto(s, "recv")
    /\ UNCHANGED <<active, warning, disconnecting, link, after, peer, database>>

--------------------------------------------------------------------------------
(* The receive loop.                                                       *)

\* Mutant: a heartbeat registers its socket again.
HeartbeatRegisters(s) ==
    LET a == Owner[s] IN
    /\ pc[s] = "recv" /\ link[s] = "up"
    /\ active' = [active EXCEPT ![a] = s]
    /\ Stamp(a)
    /\ warning' = [warning EXCEPT ![a] = "none"]
    /\ Goto(s, IF warning[a] # "none" THEN "h_tcp" ELSE "h_restore")
    /\ UNCHANGED <<disconnecting, link, after, peer, database>>

\* _handle_heartbeat up to its first await; ignored for an agent that is not
\* registered.
RecvHeartbeat(s) ==
    LET a == Owner[s] IN
    /\ pc[s] = "recv" /\ link[s] = "up"
    /\ Registered(a)
    /\ Stamp(a)
    /\ warning' = [warning EXCEPT ![a] = "none"]
    /\ Goto(s, IF warning[a] # "none" THEN "h_tcp" ELSE "h_restore")
    /\ UNCHANGED <<active, disconnecting, link, after, peer, database>>

HeartbeatTcp(s) ==
    /\ pc[s] = "h_tcp"
    /\ tcp' = [tcp EXCEPT ![Owner[s]] = "listen"]
    /\ Goto(s, "h_restore")
    /\ UNCHANGED <<memory, link, after, peer, host>>

\* restore_offline_to_free_on_heartbeat_silent, one conditional UPDATE.
HeartbeatRestore(s) ==
    LET a == Owner[s] IN
    /\ pc[s] = "h_restore"
    /\ host' = [host EXCEPT ![a] = IF @ = "offline" THEN "free" ELSE @]
    /\ Goto(s, "h_ack")
    /\ UNCHANGED <<memory, link, after, peer, tcp>>

\* _handle_status_update with status "offline"; the other values of status
\* write nothing.
RecvStatusOffline(s) ==
    /\ pc[s] = "recv" /\ link[s] = "up"
    /\ Goto(s, "h_offline")
    /\ UNCHANGED <<memory, link, after, peer, database>>

StatusOffline(s) ==
    /\ pc[s] = "h_offline"
    /\ host' = [host EXCEPT ![Owner[s]] = "offline"]
    /\ Goto(s, "h_ack")
    /\ UNCHANGED <<memory, link, after, peer, tcp>>

\* A connection_result and a version_update are work in the database that is
\* no part of this module, and one message to the agent: the parameters of its
\* case, an acknowledgement or an error.
Answered(s) ==
    /\ pc[s] = "recv" /\ link[s] = "up"
    /\ Goto(s, "h_ack")
    /\ UNCHANGED <<memory, link, after, peer, database>>

RecvConnectionResult(s) == Answered(s)

RecvVersionUpdate(s) == Answered(s)

\* _handle_host_offline_notification, of a host with a live execution log; the
\* others are ignored.
RecvHostOffline(s) ==
    /\ pc[s] = "recv" /\ link[s] = "up"
    /\ Goto(s, "h_close")
    /\ UNCHANGED <<memory, link, after, peer, database>>

\* It marks the log, closes tcp_state and answers nothing.
HostOfflineTcp(s) ==
    /\ pc[s] = "h_close"
    /\ tcp' = [tcp EXCEPT ![Owner[s]] = "close"]
    /\ Goto(s, "recv")
    /\ UNCHANGED <<memory, link, after, peer, host>>

\* The receive loop is over.  The endpoint disconnects the agent if any socket is
\* registered for it.
LoopEnds(s, lnk) ==
    /\ IF Registered(Owner[s])
       THEN CallDisconnect(s, "done", {}, lnk)
       ELSE /\ link' = lnk
            /\ Resume(s, "done", {})
            /\ UNCHANGED <<disconnecting, after>>
    /\ UNCHANGED database

\* receive raises: the peer went away or the server closed the socket.
RecvEnds(s) ==
    /\ pc[s] = "recv" /\ link[s] \in {"lost", "closed"}
    /\ LoopEnds(s, IF link[s] = "lost" THEN [link EXCEPT ![s] = "down"] ELSE link)

\* What came is no JSON or no object, and the exception ends the loop of an open
\* socket.
RecvMalformed(s) ==
    /\ pc[s] = "recv" /\ link[s] = "up"
    /\ LoopEnds(s, link)

\* The server takes no more of a socket whose endpoint has returned, although
\* client_state never learns of it.
EndpointReturns(s) ==
    /\ pc[s] = "done" /\ link[s] \in {"up", "lost"}
    /\ link' = [link EXCEPT ![s] = "ended"]
    /\ UNCHANGED <<memory, tasks, database>>

--------------------------------------------------------------------------------
(* The heartbeat checker: _check_all_heartbeats.                           *)

CheckerIdle == \A a \in Agent : pc[a] = "idle"

\* Mutant: every timestamp is taken for an orphan.
OrphansAll == {a \in Agent : heartbeat[a] # "none"}

\* Agents with a timestamp but no connection are forgotten.
Orphans == {a \in Agent : heartbeat[a] # "none" /\ ~Registered(a)}

Watched == {a \in Agent : heartbeat[a] # "none" /\ Registered(a)}

\* Mutant: only an agent already warned is warned.
TimeoutHostsWarned == {a \in Watched : warning[a] = "waiting" /\ heartbeat[a] = "stale"}

TimeoutHosts == {a \in Watched : warning[a] = "none" /\ heartbeat[a] = "stale"}

DisconnectHosts == {a \in Watched : warning[a] = "due"}

\* One synchronous scan; it gathers a coroutine per selected agent.
Scan ==
    /\ CheckerIdle
    /\ Orphans \cup TimeoutHosts \cup DisconnectHosts # {}
    /\ heartbeat' = Without(heartbeat, Orphans, "none")
    /\ warning' = Without(warning, Orphans, "none")
    /\ pc' = [t \in Task |-> CASE t \in TimeoutHosts -> "w_tcp"
                               [] t \in DisconnectHosts -> "recheck"
                               [] OTHER -> pc[t]]
    /\ UNCHANGED <<active, disconnecting, link, after, peer, database>>

\* _send_heartbeat_warning: the state is written before the message is sent
\* and the warning is recorded after it, whatever happened meanwhile.
WarnTcp(a) ==
    /\ pc[a] = "w_tcp"
    /\ tcp' = [tcp EXCEPT ![a] = "wait"]
    /\ Goto(a, "w_pick")
    /\ UNCHANGED <<memory, link, after, peer, host>>

\* The gather of the warnings is awaited before that of the disconnects.
WarningsDone == \A a \in Agent : pc[a] \notin Warning /\ (pc[a] \in Disconnect => after[a] # "warned")

\* Mutant: the age of the last heartbeat is not read again.
StillWarned(a) == warning[a] # "none"

\* The test _disconnect_heartbeat_timeout repeats before it disconnects.
StillTimedOut(a) == warning[a] # "none" /\ heartbeat[a] # "fresh"

TimeoutCancelled(a) ==
    /\ pc[a] = "recheck" /\ WarningsDone
    /\ ~Registered(a) \/ ~StillTimedOut(a)
    /\ warning' = IF Registered(a) THEN [warning EXCEPT ![a] = "none"] ELSE warning
    /\ Goto(a, "idle")
    /\ UNCHANGED <<active, heartbeat, disconnecting, link, after, peer, database>>

\* The warning entry is deleted first, also if disconnect finds another at it.
TimeoutDisconnect(a) ==
    /\ pc[a] = "recheck" /\ WarningsDone
    /\ Registered(a) /\ StillTimedOut(a)
    /\ \/ /\ AlreadyDisconnecting(a)
          /\ warning' = [warning EXCEPT ![a] = "none"]
          /\ Goto(a, "idle")
          /\ UNCHANGED <<active, heartbeat, disconnecting, link, after, peer>>
       \/ /\ ~AlreadyDisconnecting(a)
          /\ BeginDisconnect(a, "idle", {}, link)
    /\ UNCHANGED database

--------------------------------------------------------------------------------
(* Time, the peers, and the services that write host_state meanwhile.      *)

HeartbeatAges(a) ==
    /\ heartbeat[a] = "fresh"
    /\ heartbeat' = [heartbeat EXCEPT ![a] = "stale"]
    /\ UNCHANGED <<active, warning, disconnecting, link, tasks, database>>

WarningAges(a) ==
    /\ warning[a] = "waiting"
    /\ warning' = [warning EXCEPT ![a] = "due"]
    /\ UNCHANGED <<active, heartbeat, disconnecting, link, tasks, database>>

PeerLeaves(s) ==
    /\ link[s] = "up"
    /\ link' = [link EXCEPT ![s] = "lost"]
    /\ UNCHANGED <<memory, tasks, database>>

\* Nothing refers to the socket of a finished endpoint any more: its identity
\* stands for the next WebSocket.
SocketDiscarded(s) ==
    /\ pc[s] = "done"
    /\ \A a \in Agent : active[a] # s
    /\ \A t \in Task : peer[t] # s
    /\ link' = [link EXCEPT ![s] = "new"]
    /\ Goto(s, "idle")
    /\ UNCHANGED <<memory, after, peer, database>>

\* A VNC report locks the host whatever its state is; a release frees it.
VncLocks(a) ==
    /\ host[a] # "busy"
    /\ host' = [host EXCEPT ![a] = "busy"]
    /\ UNCHANGED <<memory, link, tasks, tcp>>

HostReleased(a) ==
    /\ host[a] # "free"
    /\ host' = [host EXCEPT ![a] = "free"]
    /\ UNCHANGED <<memory, link, tasks, tcp>>

--------------------------------------------------------------------------------
DisconnectStep(t) == TcpClosed(t) \/ ReadHost(t) \/ WriteOffline(t) \/ EndDisconnect(t)

SocketNext(s) ==
    \/ ConnectTcp(s) \/ ConnectReadHost(s) \/ ConnectFreeHost(s) \/ ConnectEnds(s)
    \/ HeartbeatTcp(s) \/ HeartbeatRestore(s) \/ StatusOffline(s)
    \/ HostOfflineTcp(s)
    \/ BeginSend(s, "h_ack", "h_send")
    \/ SendSucceeds(s) \/ SendFails(s)
    \/ RecvEnds(s) \/ EndpointReturns(s)
    \/ DisconnectStep(s)

CheckNext(a) ==
    \/ WarnTcp(a) \/ BeginSend(a, "w_pick", "w_send")
    \/ SendSucceeds(a) \/ SendFails(a)
    \/ TimeoutCancelled(a) \/ TimeoutDisconnect(a)
    \/ DisconnectStep(a)

\* What the peers send and the rest of the service does.
EnvironmentNext ==
    \/ \E s \in Socket : ConnectRejected(s) \/ ConnectAccepted(s)
                         \/ RecvHeartbeat(s) \/ RecvConnectionResult(s)
                         \/ RecvVersionUpdate(s) \/ RecvHostOffline(s) \/ RecvMalformed(s)
                         \/ PeerLeaves(s) \/ SocketDiscarded(s)
    \/ \E s \in Socket : Owner[s] \in Contended /\ RecvStatusOffline(s)
    \/ \E a \in Contended : VncLocks(a) \/ HostReleased(a)

Next ==
    \/ \E s \in Socket : SocketNext(s)
    \/ \E a \in Agent : CheckNext(a) \/ HeartbeatAges(a) \/ WarningAges(a)
    \/ Scan
    \/ EnvironmentNext

Spec == Init /\ [][Next]_vars

\* The loop runs every coroutine whose await is over, every await ends (the
\* database answers, a send returns or raises), the checker's sleep ends and
\* time passes.  The peers owe nothing.
Fairness ==
    /\ \A s \in Socket : WF_vars(SocketNext(s))
    /\ \A a \in Agent : WF_vars(CheckNext(a)) /\ WF_vars(HeartbeatAges(a))
                        /\ WF_vars(WarningAges(a))
    /\ WF_vars(Scan)

FairSpec == Spec /\ Fairness

--------------------------------------------------------------------------------
(* Properties.                                                             *)

\* A registered connection without a heartbeat timestamp would never be
\* checked: it exists only while its own connect is still running.  The
\* timestamp is set at the very end of connect (290) and deleted by
\* disconnect, the cleanup and the checker's orphan pass.
NoUnwatchedConnection ==
    \A a \in Agent :
        Registered(a) /\ heartbeat[a] = "none" => pc[active[a]] \in Connecting

\* disconnect promises that concurrent calls do not disconnect twice: at most
\* one coroutine per agent is past the _disconnecting test, and the mark is
\* there exactly as long.
OneDisconnect ==
    /\ \A t, u \in Task :
        pc[t] \in Disconnect /\ pc[u] \in Disconnect /\ AgentOf(t) = AgentOf(u) => t = u
    /\ disconnecting = {AgentOf(t) : t \in {u \in Task : pc[u] \in Disconnect}}

\* The socket the manager would send to is one it never closed itself, and it
\* belongs to the agent it is registered for.
RegisteredIsOpen ==
    \A a \in Agent :
        Registered(a) => link[active[a]] # "closed" /\ Owner[active[a]] = a

\* What makes the two registration invariants inductive: a registered socket
\* has been accepted and is not closed, and a socket whose connect still waits
\* for the disconnect of its predecessor is open and not registered yet.
Registration ==
    /\ \A a \in Agent :
        Registered(a) => /\ Owner[active[a]] = a
                         /\ link[active[a]] \notin {"new", "closed"}
    /\ \A s \in Socket :
        pc[s] \in Disconnect /\ after[s] = "welcome"
            => link[s] \in {"up", "lost"} /\ active[Owner[s]] # s

\* A heartbeat handled between the checker's decision and its disconnect
\* saves the connection: the checker removes no connection that has been
\* heard from in the last 60 s.
HeardIsKept ==
    [][\A a \in Agent :
        pc[a] = "recheck" /\ Registered(a) /\ heartbeat[a] = "fresh"
            => pc'[a] \in {"recheck", "idle"}]_vars

\* The manager implements AgentRegistry: no interleaving of connects,
\* disconnects and failing sends brings a connection back that was replaced
\* or removed, although the registry is keyed by agent.
HadTurn(s) == pc[s] # "idle" /\ ~(pc[s] \in Disconnect /\ after[s] = "welcome")

Registry == INSTANCE AgentRegistry WITH conn <- active, used <- {s \in Socket : HadTurn(s)}

ImplementsRegistry == Registry!Spec

\* A connection whose peer is gone, or whose endpoint gave up, is not kept for
\* ever, even when the disconnect of its own endpoint was skipped because another
\* one was running and heartbeats of a replaced socket keep the entry fresh.
LostIsDropped ==
    \A s \in Socket :
        link[s] \in {"lost", "down", "ended"} ~> active[Owner[s]] # s

================================================================================
