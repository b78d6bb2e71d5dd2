----------------------------- MODULE AgentWsProofs -----------------------------
(***************************************************************************)
(* Proofs about the connection manager, for any agents, sockets and limit. *)
(***************************************************************************)
EXTENDS AgentWs, TLAPS

\* What a resumed task may be asked to do.
ResumptionOf(t, step) ==
    /\ t \in Socket => step \in SocketResumption
    /\ t \in Agent => step \in AgentResumption

--------------------------------------------------------------------------------
(* Type correctness.                                                       *)

LEMMA AgentOfType == \A t \in Task : AgentOf(t) \in Agent
  BY OwnerAssumption DEF Task, AgentOf

LEMMA WithoutType ==
  ASSUME NEW S, NEW f \in [Agent -> S], NEW empty \in S, NEW gone
  PROVE  Without(f, gone, empty) \in [Agent -> S]
  BY DEF Without

LEMMA GotoType ==
  ASSUME TypeOK, NEW t \in Task, NEW step, Goto(t, step),
         t \in Socket => step \in SocketStep,
         t \in Agent => step \in AgentStep
  PROVE  /\ pc' \in [Task -> SocketStep \cup AgentStep]
         /\ \A s \in Socket : pc'[s] \in SocketStep
         /\ \A a \in Agent : pc'[a] \in AgentStep
  BY DEF TypeOK, Goto, Task

\* The step a resumption leads to belongs to the task.
LEMMA ResumptionStep ==
  ASSUME NEW t \in Task, NEW step, ResumptionOf(t, step)
  PROVE  /\ t \in Socket => step \in SocketStep /\ step # "warned"
         /\ t \in Agent => step \in {"idle", "warned"}
  BY DEF ResumptionOf, SocketResumption, AgentResumption, SocketStep, Connecting

LEMMA ResumeType ==
  ASSUME TypeOK, NEW t \in Task, NEW step, NEW gone,
         ResumptionOf(t, step), Resume(t, step, gone)
  PROVE  /\ active' \in [Agent -> Socket \cup {None}]
         /\ heartbeat' \in [Agent -> {"none", "fresh", "stale"}]
         /\ warning' \in [Agent -> {"none", "waiting", "due"}]
         /\ peer' \in [Task -> Socket \cup {None}]
         /\ pc' \in [Task -> SocketStep \cup AgentStep]
         /\ \A s \in Socket : pc'[s] \in SocketStep
         /\ \A a \in Agent : pc'[a] \in AgentStep
<1>1. step = "welcome" => t \in Socket
  BY TaskAssumption DEF ResumptionOf, AgentResumption, Task
<1>2. /\ Without(active, gone, None) \in [Agent -> Socket \cup {None}]
      /\ Without(heartbeat, gone, "none") \in [Agent -> {"none", "fresh", "stale"}]
      /\ Without(warning, gone, "none") \in [Agent -> {"none", "waiting", "due"}]
  BY DEF TypeOK, Without
<1>3. active' \in [Agent -> Socket \cup {None}]
  BY <1>1, <1>2 DEF Resume
<1>4. /\ heartbeat' \in [Agent -> {"none", "fresh", "stale"}]
      /\ warning' \in [Agent -> {"none", "waiting", "due"}]
  BY <1>2 DEF Resume
<1>5. peer' \in [Task -> Socket \cup {None}]
  BY <1>1 DEF TypeOK, Resume
<1>6. Goto(t, IF step = "warned" THEN "idle" ELSE step)
  BY DEF Resume
<1>7. /\ t \in Socket => (IF step = "warned" THEN "idle" ELSE step) \in SocketStep
      /\ t \in Agent => (IF step = "warned" THEN "idle" ELSE step) \in AgentStep
  BY ResumptionStep DEF AgentStep
<1> QED
  BY <1>3, <1>4, <1>5, <1>6, <1>7, GotoType

LEMMA BeginDisconnectType ==
  ASSUME TypeOK, NEW t \in Task, NEW step, NEW gone, NEW lnk \in [Socket -> LinkState],
         ResumptionOf(t, step), BeginDisconnect(t, step, gone, lnk), UNCHANGED database
  PROVE  TypeOK'
<1>1. /\ disconnecting' \in SUBSET Agent
      /\ active' \in [Agent -> Socket \cup {None}]
      /\ heartbeat' \in [Agent -> {"none", "fresh", "stale"}]
      /\ warning' \in [Agent -> {"none", "waiting", "due"}]
  BY AgentOfType DEF BeginDisconnect, TypeOK, Without
<1>2. link' \in [Socket -> LinkState]
  BY DEF BeginDisconnect, LinkState
<1>3. peer' \in [Task -> Socket \cup {None}]
  BY DEF BeginDisconnect, TypeOK
<1>4. /\ after' \in [Task -> SocketResumption \cup AgentResumption]
      /\ \A s \in Socket : after'[s] \in SocketResumption
      /\ \A a \in Agent : after'[a] \in AgentResumption
  BY DEF BeginDisconnect, TypeOK, ResumptionOf, Task
<1>5. /\ pc' \in [Task -> SocketStep \cup AgentStep]
      /\ \A s \in Socket : pc'[s] \in SocketStep
      /\ \A a \in Agent : pc'[a] \in AgentStep
  BY GotoType DEF BeginDisconnect, SocketStep, AgentStep, Disconnect
<1> QED
  BY <1>1, <1>2, <1>3, <1>4, <1>5 DEF TypeOK, database

LEMMA CallDisconnectType ==
  ASSUME TypeOK, NEW t \in Task, NEW step, NEW gone, NEW lnk \in [Socket -> LinkState],
         ResumptionOf(t, step), CallDisconnect(t, step, gone, lnk), UNCHANGED database
  PROVE  TypeOK'
<1>1. CASE BeginDisconnect(t, step, gone, lnk)
  BY <1>1, BeginDisconnectType
<1>2. CASE Resume(t, step, gone) /\ link' = lnk /\ UNCHANGED <<disconnecting, after>>
  BY <1>2, ResumeType DEF TypeOK, database
<1> QED
  BY <1>1, <1>2 DEF CallDisconnect

\* An action that only moves a task on and leaves the rest of the tasks and
\* the registry alone.
LEMMA MoveType ==
  ASSUME TypeOK, NEW t \in Task, NEW step, Goto(t, step),
         t \in Socket => step \in SocketStep,
         t \in Agent => step \in AgentStep,
         UNCHANGED <<after, peer>>,
         active' \in [Agent -> Socket \cup {None}],
         heartbeat' \in [Agent -> {"none", "fresh", "stale"}],
         warning' \in [Agent -> {"none", "waiting", "due"}],
         disconnecting' \in SUBSET Agent,
         link' \in [Socket -> LinkState],
         tcp' \in [Agent -> {"close", "wait", "listen"}],
         host' \in [Agent -> {"free", "busy", "offline"}]
  PROVE  TypeOK'
  BY GotoType DEF TypeOK

LEMMA DisconnectStepType ==
  ASSUME TypeOK, NEW t \in Task, DisconnectStep(t)
  PROVE  TypeOK'
<1>1. AgentOf(t) \in Agent
  BY AgentOfType
<1>2. CASE TcpClosed(t)
  <2>1. tcp' \in [Agent -> {"close", "wait", "listen"}]
    BY <1>1, <1>2 DEF TcpClosed, TypeOK
  <2> QED
    BY <1>2, <2>1, MoveType
       DEF TcpClosed, TypeOK, memory, SocketStep, AgentStep, Disconnect
<1>3. CASE ReadHost(t)
  BY <1>3, MoveType
     DEF ReadHost, TypeOK, memory, database, SocketStep, AgentStep, Disconnect
<1>4. CASE WriteOffline(t)
  <2>1. host' \in [Agent -> {"free", "busy", "offline"}]
    BY <1>1, <1>4 DEF WriteOffline, TypeOK
  <2> QED
    BY <1>4, <2>1, MoveType
       DEF WriteOffline, TypeOK, memory, SocketStep, AgentStep, Disconnect
<1>5. CASE EndDisconnect(t)
  <2>1. ResumptionOf(t, after[t])
    BY DEF TypeOK, ResumptionOf
  <2>2. Resume(t, after[t], {})
    BY <1>5 DEF EndDisconnect
  <2>3. /\ after' \in [Task -> SocketResumption \cup AgentResumption]
        /\ \A s \in Socket : after'[s] \in SocketResumption
        /\ \A a \in Agent : after'[a] \in AgentResumption
    BY <1>5 DEF EndDisconnect, TypeOK, SocketResumption, AgentResumption, Task
  <2>4. disconnecting' \in SUBSET Agent
    BY <1>5 DEF EndDisconnect, TypeOK
  <2>5. link' \in [Socket -> LinkState] /\ UNCHANGED database
    BY <1>5 DEF EndDisconnect, TypeOK
  <2> QED
    BY <2>1, <2>2, <2>3, <2>4, <2>5, ResumeType DEF TypeOK, database
<1> QED
  BY <1>2, <1>3, <1>4, <1>5 DEF DisconnectStep

\* A task that sends resumes where its coroutine goes on.
LEMMA AfterSendResumption ==
  ASSUME TypeOK, NEW t \in Task, pc[t] \in Sending
  PROVE  ResumptionOf(t, AfterSend(pc[t]))
<1>1. CASE t \in Socket
  <2>1. pc[t] \in {"welcome", "h_send"}
    BY <1>1 DEF TypeOK, Sending, SocketStep, Connecting, Handling, Disconnect
  <2> QED
    BY <1>1, <2>1, TaskAssumption DEF ResumptionOf, AfterSend, SocketResumption
<1>2. CASE t \in Agent
  <2>1. pc[t] = "w_send"
    BY <1>2 DEF TypeOK, Sending, AgentStep, Warning, Disconnect
  <2> QED
    BY <1>2, <2>1, TaskAssumption DEF ResumptionOf, AfterSend, AgentResumption
<1> QED
  BY <1>1, <1>2 DEF Task

\* Resuming without a disconnect.
LEMMA PlainResumeType ==
  ASSUME TypeOK, NEW t \in Task, NEW step, NEW gone, ResumptionOf(t, step),
         Resume(t, step, gone), link' \in [Socket -> LinkState],
         UNCHANGED <<disconnecting, after>>, UNCHANGED database
  PROVE  TypeOK'
  BY ResumeType DEF TypeOK, database

LEMMA SendType ==
  ASSUME TypeOK, NEW t \in Task, SendSucceeds(t) \/ SendFails(t)
  PROVE  TypeOK'
<1>1. ResumptionOf(t, AfterSend(pc[t])) /\ link \in [Socket -> LinkState]
  BY AfterSendResumption DEF SendSucceeds, SendFails, TypeOK
<1>2. CASE SendSucceeds(t)
  BY <1>1, <1>2, PlainResumeType DEF SendSucceeds
<1>3. CASE SendFails(t)
  BY <1>1, <1>3, CallDisconnectType DEF SendFails
<1> QED
  BY <1>2, <1>3

LEMMA BeginSendType ==
  ASSUME TypeOK, NEW t \in Task, NEW from, NEW step, BeginSend(t, from, step),
         \/ t \in Socket /\ step = "h_send"
         \/ t \in Agent /\ step = "w_send"
  PROVE  TypeOK'
<1>1. /\ t \in Socket => step \in SocketStep
      /\ t \in Agent => step \in AgentStep
      /\ ResumptionOf(t, AfterSend(step))
  BY TaskAssumption
     DEF SocketStep, AgentStep, Handling, Warning, ResumptionOf, AfterSend,
         SocketResumption, AgentResumption
<1>2. link' \in [Socket -> LinkState] /\ UNCHANGED database
  BY DEF BeginSend, TypeOK
<1>3. CASE /\ Registered(AgentOf(t))
           /\ peer' = [peer EXCEPT ![t] = active[AgentOf(t)]]
           /\ Goto(t, step)
           /\ UNCHANGED <<memory, after>>
  <2>1. active[AgentOf(t)] \in Socket \cup {None}
    BY AgentOfType DEF TypeOK
  <2>2. peer' \in [Task -> Socket \cup {None}]
    BY <1>3, <2>1 DEF TypeOK
  <2> QED
    BY <1>1, <1>2, <1>3, <2>2, GotoType DEF TypeOK, memory, database
<1>4. CASE Resume(t, AfterSend(step), {}) /\ UNCHANGED <<disconnecting, after>>
  BY <1>1, <1>2, <1>4, PlainResumeType
<1> QED
  BY <1>3, <1>4 DEF BeginSend

LEMMA ConnectType ==
  ASSUME TypeOK, NEW s \in Socket, ConnectRejected(s) \/ ConnectAccepted(s)
  PROVE  TypeOK'
<1>1. s \in Task /\ s \notin Agent /\ AgentOf(s) = Owner[s]
  BY TaskAssumption DEF Task, AgentOf
<1>2. ResumptionOf(s, "recv") /\ ResumptionOf(s, "welcome")
  BY <1>1 DEF ResumptionOf, SocketResumption
<1>3. CASE ConnectRejected(s)
  <2>1. link' \in [Socket -> LinkState]
    BY <1>3 DEF ConnectRejected, TypeOK, LinkState
  <2> QED
    BY <1>1, <1>2, <1>3, <2>1, PlainResumeType DEF ConnectRejected
<1>4. CASE ConnectAccepted(s)
  <2> DEFINE lnk == [link EXCEPT ![s] = "up"]
  <2>1. lnk \in [Socket -> LinkState]
    BY DEF TypeOK, LinkState
  <2>2. CASE /\ Resume(s, "welcome", Invalid) /\ link' = lnk
             /\ UNCHANGED <<disconnecting, after>>
    BY <1>1, <1>2, <1>4, <2>1, <2>2, PlainResumeType DEF ConnectAccepted
  <2>3. CASE CallDisconnect(s, "welcome", Invalid, lnk)
    <3> HIDE DEF lnk
    <3> QED BY <1>1, <1>2, <1>4, <2>1, <2>3, CallDisconnectType DEF ConnectAccepted
  <2> QED
    BY <1>4, <2>2, <2>3 DEF ConnectAccepted
<1> QED
  BY <1>3, <1>4

LEMMA ConnectingType ==
  ASSUME TypeOK, NEW s \in Socket,
         ConnectTcp(s) \/ ConnectReadHost(s) \/ ConnectFreeHost(s) \/ ConnectEnds(s)
  PROVE  TypeOK'
<1>1. s \in Task /\ s \notin Agent /\ Owner[s] \in Agent
  BY TaskAssumption, OwnerAssumption DEF Task
<1>2. CASE ConnectTcp(s)
  <2>1. tcp' \in [Agent -> {"close", "wait", "listen"}]
    BY <1>1, <1>2 DEF ConnectTcp, TypeOK
  <2> QED
    BY <1>1, <1>2, <2>1, MoveType
       DEF ConnectTcp, TypeOK, memory, SocketStep, Connecting
<1>3. CASE ConnectReadHost(s)
  BY <1>1, <1>3, MoveType
     DEF ConnectReadHost, TypeOK, memory, database, SocketStep, Connecting
<1>4. CASE ConnectFreeHost(s)
  <2>1. host' \in [Agent -> {"free", "busy", "offline"}]
    BY <1>1, <1>4 DEF ConnectFreeHost, TypeOK
  <2> QED
    BY <1>1, <1>4, <2>1, MoveType
       DEF ConnectFreeHost, TypeOK, memory, SocketStep, Connecting
<1>5. CASE ConnectEnds(s)
  <2>1. heartbeat' \in [Agent -> {"none", "fresh", "stale"}]
    BY <1>1, <1>5 DEF ConnectEnds, Stamp, TypeOK
  <2> QED
    BY <1>1, <1>5, <2>1, MoveType
       DEF ConnectEnds, TypeOK, database, SocketStep, Connecting
<1> QED
  BY <1>2, <1>3, <1>4, <1>5

LEMMA ReceiveType ==
  ASSUME TypeOK, NEW s \in Socket,
         \/ RecvHeartbeat(s) \/ HeartbeatTcp(s) \/ HeartbeatRestore(s)
         \/ RecvStatusOffline(s) \/ StatusOffline(s) \/ RecvEnds(s) \/ RecvMalformed(s)
         \/ Answered(s) \/ RecvHostOffline(s) \/ HostOfflineTcp(s)
  PROVE  TypeOK'
<1>1. s \in Task /\ s \notin Agent /\ Owner[s] \in Agent
  BY TaskAssumption, OwnerAssumption DEF Task
<1>2. CASE RecvHeartbeat(s)
  <2>1. /\ heartbeat' \in [Agent -> {"none", "fresh", "stale"}]
        /\ warning' \in [Agent -> {"none", "waiting", "due"}]
    BY <1>1, <1>2 DEF RecvHeartbeat, Stamp, TypeOK
  <2>2. CASE Goto(s, "h_tcp")
    BY <1>1, <1>2, <2>1, <2>2, MoveType
       DEF RecvHeartbeat, TypeOK, database, SocketStep, Handling
  <2>3. CASE Goto(s, "h_restore")
    BY <1>1, <1>2, <2>1, <2>3, MoveType
       DEF RecvHeartbeat, TypeOK, database, SocketStep, Handling
  <2> QED
    BY <1>2, <2>2, <2>3 DEF RecvHeartbeat
<1>3. CASE HeartbeatTcp(s)
  <2>1. tcp' \in [Agent -> {"close", "wait", "listen"}]
    BY <1>1, <1>3 DEF HeartbeatTcp, TypeOK
  <2> QED
    BY <1>1, <1>3, <2>1, MoveType
       DEF HeartbeatTcp, TypeOK, memory, SocketStep, Handling
<1>4. CASE HeartbeatRestore(s)
  <2>1. host' \in [Agent -> {"free", "busy", "offline"}]
    BY <1>1, <1>4 DEF HeartbeatRestore, TypeOK
  <2> QED
    BY <1>1, <1>4, <2>1, MoveType
       DEF HeartbeatRestore, TypeOK, memory, SocketStep, Handling
<1>5. CASE RecvStatusOffline(s) \/ Answered(s) \/ RecvHostOffline(s)
  BY <1>1, <1>5, MoveType
     DEF RecvStatusOffline, Answered, RecvHostOffline, TypeOK, memory, database, SocketStep, Handling
<1>6. CASE StatusOffline(s)
  <2>1. host' \in [Agent -> {"free", "busy", "offline"}]
    BY <1>1, <1>6 DEF StatusOffline, TypeOK
  <2> QED
    BY <1>1, <1>6, <2>1, MoveType
       DEF StatusOffline, TypeOK, memory, SocketStep, Handling
<1>7. CASE HostOfflineTcp(s)
  <2>1. tcp' \in [Agent -> {"close", "wait", "listen"}]
    BY <1>1, <1>7 DEF HostOfflineTcp, TypeOK
  <2> QED
    BY <1>1, <1>7, <2>1, MoveType
       DEF HostOfflineTcp, TypeOK, memory, SocketStep, Handling
<1>8. ASSUME NEW lnk \in [Socket -> LinkState], LoopEnds(s, lnk)
      PROVE  TypeOK'
  <2>2. ResumptionOf(s, "done")
    BY <1>1 DEF ResumptionOf, SocketResumption
  <2>3. CASE CallDisconnect(s, "done", {}, lnk)
    BY <1>1, <1>8, <2>2, <2>3, CallDisconnectType DEF LoopEnds
  <2>4. CASE link' = lnk /\ Resume(s, "done", {}) /\ UNCHANGED <<disconnecting, after>>
    BY <1>1, <1>8, <2>2, <2>4, PlainResumeType DEF LoopEnds
  <2> QED
    BY <1>8, <2>3, <2>4 DEF LoopEnds
<1>9. CASE RecvEnds(s) \/ RecvMalformed(s)
  <2>1. link \in [Socket -> LinkState] /\ [link EXCEPT ![s] = "down"] \in [Socket -> LinkState]
    BY DEF TypeOK, LinkState
  <2> QED
    BY <1>8, <1>9, <2>1 DEF RecvEnds, RecvMalformed
<1> QED
  BY <1>2, <1>3, <1>4, <1>5, <1>6, <1>7, <1>9

\* The checker finds somebody else at the disconnect.
Skipped(a) ==
    /\ warning' = [warning EXCEPT ![a] = "none"]
    /\ Goto(a, "idle")
    /\ UNCHANGED <<active, heartbeat, disconnecting, link, after, peer>>

LEMMA TimeoutSplits ==
  ASSUME NEW a \in Agent, TimeoutDisconnect(a)
  PROVE  Skipped(a) \/ CallDisconnect(a, "idle", {}, link)
<1>1. AgentOf(a) = a
  BY TaskAssumption DEF AgentOf
<1> QED
  BY <1>1 DEF TimeoutDisconnect, Skipped, CallDisconnect

LEMMA CheckerType ==
  ASSUME TypeOK, NEW a \in Agent,
         WarnTcp(a) \/ TimeoutCancelled(a) \/ TimeoutDisconnect(a)
  PROVE  TypeOK'
<1>1. a \in Task /\ a \notin Socket
  BY TaskAssumption DEF Task
<1>2. CASE WarnTcp(a)
  <2>1. tcp' \in [Agent -> {"close", "wait", "listen"}]
    BY <1>2 DEF WarnTcp, TypeOK
  <2> QED
    BY <1>1, <1>2, <2>1, MoveType DEF WarnTcp, TypeOK, memory, AgentStep, Warning
<1>3. CASE TimeoutCancelled(a)
  <2>1. warning' \in [Agent -> {"none", "waiting", "due"}]
    BY <1>3 DEF TimeoutCancelled, TypeOK
  <2> QED
    BY <1>1, <1>3, <2>1, MoveType DEF TimeoutCancelled, TypeOK, database, AgentStep
<1>4. CASE TimeoutDisconnect(a)
  <2>1. ResumptionOf(a, "idle") /\ link \in [Socket -> LinkState] /\ AgentOf(a) = a
    BY <1>1 DEF ResumptionOf, AgentResumption, TypeOK, AgentOf
  <2>2. CASE Skipped(a)
    <3>1. warning' \in [Agent -> {"none", "waiting", "due"}]
      BY <2>2 DEF Skipped, TypeOK
    <3> QED
      BY <1>1, <1>4, <2>2, <3>1, MoveType DEF Skipped, TimeoutDisconnect, TypeOK, database, AgentStep
  <2>3. CASE CallDisconnect(a, "idle", {}, link)
    BY <1>1, <1>4, <2>1, <2>3, CallDisconnectType DEF TimeoutDisconnect
  <2> QED
    BY <1>1, <1>4, <2>2, <2>3, TimeoutSplits
<1> QED
  BY <1>2, <1>3, <1>4

LEMMA ScanType ==
  ASSUME TypeOK, Scan
  PROVE  TypeOK'
<1>1. /\ heartbeat' \in [Agent -> {"none", "fresh", "stale"}]
      /\ warning' \in [Agent -> {"none", "waiting", "due"}]
  BY DEF Scan, Without, TypeOK
<1>2. TimeoutHosts \subseteq Agent /\ DisconnectHosts \subseteq Agent
  BY DEF TimeoutHosts, DisconnectHosts, Watched
<1>3. /\ \A s \in Socket : pc'[s] = pc[s]
      /\ \A a \in Agent : pc'[a] \in {"w_tcp", "recheck", pc[a]}
      /\ DOMAIN pc' = Task
      /\ pc' = [t \in Task |-> pc'[t]]
  BY <1>2, TaskAssumption DEF Scan, Task
<1>4. /\ \A s \in Socket : pc'[s] \in SocketStep
      /\ \A a \in Agent : pc'[a] \in AgentStep
  BY <1>3 DEF TypeOK, AgentStep, Warning
<1>5. pc' \in [Task -> SocketStep \cup AgentStep]
  BY <1>3, <1>4 DEF Task
<1> QED
  BY <1>1, <1>4, <1>5 DEF Scan, TypeOK, database

LEMMA EnvironmentType ==
  ASSUME TypeOK,
         \/ \E a \in Agent : HeartbeatAges(a) \/ WarningAges(a)
                             \/ VncLocks(a) \/ HostReleased(a)
         \/ \E s \in Socket : PeerLeaves(s) \/ EndpointReturns(s) \/ SocketDiscarded(s)
  PROVE  TypeOK'
<1>1. ASSUME NEW a \in Agent,
             HeartbeatAges(a) \/ WarningAges(a) \/ VncLocks(a) \/ HostReleased(a)
      PROVE  TypeOK'
  BY <1>1 DEF HeartbeatAges, WarningAges, VncLocks, HostReleased, TypeOK,
              memory, tasks, database
<1>2. ASSUME NEW s \in Socket, PeerLeaves(s) \/ EndpointReturns(s)
      PROVE  TypeOK'
  BY <1>2 DEF PeerLeaves, EndpointReturns, TypeOK, LinkState, memory, tasks, database
<1>3. ASSUME NEW s \in Socket, SocketDiscarded(s)
      PROVE  TypeOK'
  <2>1. s \in Task /\ s \notin Agent /\ link' \in [Socket -> LinkState]
    BY <1>3, TaskAssumption DEF SocketDiscarded, TypeOK, LinkState, Task
  <2> QED
    BY <1>3, <2>1, MoveType DEF SocketDiscarded, TypeOK, memory, database, SocketStep
<1> QED
  BY <1>1, <1>2, <1>3

\* The state of the manager is well-formed in every step.
LEMMA TypeStep == TypeOK /\ [Next]_vars => TypeOK'
<1> SUFFICES ASSUME TypeOK, [Next]_vars
             PROVE  TypeOK'
  OBVIOUS
<1>1. Socket \subseteq Task /\ Agent \subseteq Task
  BY DEF Task
<1>2. ASSUME NEW s \in Socket, SocketNext(s)
      PROVE  TypeOK'
  BY <1>1, <1>2, ConnectingType, ReceiveType, BeginSendType, SendType, DisconnectStepType,
     EnvironmentType DEF SocketNext
<1>3. ASSUME NEW a \in Agent, CheckNext(a) \/ HeartbeatAges(a) \/ WarningAges(a)
      PROVE  TypeOK'
  BY <1>1, <1>3, CheckerType, BeginSendType, SendType, DisconnectStepType, EnvironmentType
     DEF CheckNext
<1>4. CASE Scan
  BY <1>4, ScanType
<1>5. CASE EnvironmentNext
  BY <1>5, ConnectType, ReceiveType, EnvironmentType, BoundAssumption
     DEF EnvironmentNext, RecvConnectionResult, RecvVersionUpdate
<1>6. CASE UNCHANGED vars
  BY <1>6 DEF vars, memory, tasks, database, TypeOK
<1> QED
  BY <1>2, <1>3, <1>4, <1>5, <1>6 DEF Next

LEMMA InitType == Init => TypeOK
<1> SUFFICES ASSUME Init
             PROVE  TypeOK
  OBVIOUS
<1>1. /\ active \in [Agent -> Socket \cup {None}]
      /\ heartbeat \in [Agent -> {"none", "fresh", "stale"}]
      /\ warning \in [Agent -> {"none", "waiting", "due"}]
      /\ disconnecting \in SUBSET Agent
      /\ link \in [Socket -> LinkState]
      /\ peer \in [Task -> Socket \cup {None}]
      /\ tcp \in [Agent -> {"close", "wait", "listen"}]
  BY DEF Init, LinkState
<1>2. host \in [Agent -> {"free", "busy", "offline"}]
  BY BoundAssumption DEF Init
<1>3. "idle" \in SocketStep /\ "idle" \in AgentStep
      /\ "idle" \in SocketResumption /\ "idle" \in AgentResumption
  BY DEF SocketStep, AgentStep, SocketResumption, AgentResumption
<1>4. /\ pc \in [Task -> SocketStep \cup AgentStep]
      /\ after \in [Task -> SocketResumption \cup AgentResumption]
      /\ \A s \in Socket : pc[s] \in SocketStep /\ after[s] \in SocketResumption
      /\ \A a \in Agent : pc[a] \in AgentStep /\ after[a] \in AgentResumption
  BY <1>3 DEF Init, Task
<1> QED
  BY <1>1, <1>2, <1>4 DEF TypeOK

\* Every variable of the connection manager keeps its type.
THEOREM TypeCorrect == Spec => []TypeOK
  BY InitType, TypeStep, PTL DEF Spec

--------------------------------------------------------------------------------
(* At most one disconnect per agent.                                       *)

LEMMA KeepRunning ==
  ASSUME TypeOK, OneDisconnect, NEW t \in Task, NEW step, Goto(t, step),
         pc[t] \in Disconnect <=> step \in Disconnect, UNCHANGED disconnecting
  PROVE  OneDisconnect'
<1>1. \A u \in Task : pc'[u] = IF u = t THEN step ELSE pc[u]
  BY DEF Goto, TypeOK
<1>2. {u \in Task : pc'[u] \in Disconnect} = {u \in Task : pc[u] \in Disconnect}
  BY <1>1
<1>3. \A u \in Task : pc'[u] \in Disconnect <=> pc[u] \in Disconnect
  BY <1>1
<1> QED
  BY <1>2, <1>3 DEF OneDisconnect, AgentOf

LEMMA ResumedIsOut ==
  ASSUME NEW t \in Task, NEW step, ResumptionOf(t, step)
  PROVE  (IF step = "warned" THEN "idle" ELSE step) \notin Disconnect
  BY DEF ResumptionOf, Task, SocketResumption, AgentResumption, Disconnect

LEMMA CallOneDisconnect ==
  ASSUME TypeOK, OneDisconnect, NEW t \in Task, NEW step, NEW gone, NEW lnk,
         pc[t] \notin Disconnect, ResumptionOf(t, step),
         CallDisconnect(t, step, gone, lnk)
  PROVE  OneDisconnect'
<1>1. CASE Resume(t, step, gone) /\ UNCHANGED disconnecting
  BY <1>1, ResumedIsOut, KeepRunning DEF Resume
<1>2. CASE ~AlreadyDisconnecting(AgentOf(t)) /\ BeginDisconnect(t, step, gone, lnk)
  <2>1. \A u \in Task : pc'[u] = IF u = t THEN "d_tcp" ELSE pc[u]
    BY <1>2 DEF BeginDisconnect, Goto, TypeOK
  <2>2. disconnecting' = disconnecting \cup {AgentOf(t)}
    BY <1>2 DEF BeginDisconnect
  <2>3. "d_tcp" \in Disconnect /\ AgentOf(t) \notin disconnecting
    BY <1>2 DEF Disconnect, AlreadyDisconnecting
  <2>4. \A u \in Task : pc[u] \in Disconnect => AgentOf(u) # AgentOf(t)
    BY <2>3 DEF OneDisconnect
  <2>5. {u \in Task : pc'[u] \in Disconnect} = {u \in Task : pc[u] \in Disconnect} \cup {t}
    BY <2>1, <2>3
  <2>6. \A u, v \in Task : pc'[u] \in Disconnect /\ pc'[v] \in Disconnect
                           /\ AgentOf(u) = AgentOf(v) => u = v
    BY <2>1, <2>4 DEF OneDisconnect
  <2>7. disconnecting' = {AgentOf(u) : u \in {v \in Task : pc'[v] \in Disconnect}}
    BY <2>2, <2>5 DEF OneDisconnect
  <2> QED
    BY <2>6, <2>7 DEF OneDisconnect, AgentOf
<1> QED
  BY <1>1, <1>2 DEF CallDisconnect

LEMMA EndOneDisconnect ==
  ASSUME TypeOK, OneDisconnect, NEW t \in Task, EndDisconnect(t)
  PROVE  OneDisconnect'
<1> DEFINE step == IF after[t] = "warned" THEN "idle" ELSE after[t]
<1>1. pc[t] \in Disconnect
  BY DEF EndDisconnect, Disconnect
<1>2. step \notin Disconnect
  BY ResumedIsOut DEF TypeOK, ResumptionOf
<1>3. \A u \in Task : pc'[u] = IF u = t THEN step ELSE pc[u]
  BY DEF EndDisconnect, Resume, Goto, TypeOK
<1> HIDE DEF step
<1>4. disconnecting' = disconnecting \ {AgentOf(t)}
  BY DEF EndDisconnect
<1>5. \A u \in Task : pc[u] \in Disconnect /\ AgentOf(u) = AgentOf(t) => u = t
  BY <1>1 DEF OneDisconnect
<1>6. {u \in Task : pc'[u] \in Disconnect} = {u \in Task : pc[u] \in Disconnect} \ {t}
  BY <1>2, <1>3
<1>7. \A u, v \in Task : pc'[u] \in Disconnect /\ pc'[v] \in Disconnect
                         /\ AgentOf(u) = AgentOf(v) => u = v
  BY <1>2, <1>3 DEF OneDisconnect
<1>8. disconnecting' = {AgentOf(u) : u \in {v \in Task : pc'[v] \in Disconnect}}
  BY <1>4, <1>5, <1>6 DEF OneDisconnect
<1> QED
  BY <1>7, <1>8 DEF OneDisconnect, AgentOf

\* The task of every action but those inside disconnect is outside it.
LEMMA TaskOneDisconnect ==
  ASSUME TypeOK, OneDisconnect, NEW t \in Task,
         \/ DisconnectStep(t) \/ SendSucceeds(t) \/ SendFails(t)
         \/ BeginSend(t, "h_ack", "h_send") /\ t \in Socket
         \/ BeginSend(t, "w_pick", "w_send") /\ t \in Agent
  PROVE  OneDisconnect'
<1>1. CASE DisconnectStep(t)
  <2>1. CASE TcpClosed(t)
    BY <2>1, KeepRunning DEF TcpClosed, memory, Disconnect
  <2>2. CASE ReadHost(t)
    BY <2>2, KeepRunning DEF ReadHost, memory, Disconnect
  <2>3. CASE WriteOffline(t)
    BY <2>3, KeepRunning DEF WriteOffline, memory, Disconnect
  <2> QED
    BY <1>1, <2>1, <2>2, <2>3, EndOneDisconnect DEF DisconnectStep
<1>2. CASE SendSucceeds(t) \/ SendFails(t)
  <2>1. pc[t] \notin Disconnect /\ ResumptionOf(t, AfterSend(pc[t]))
    BY <1>2, AfterSendResumption DEF SendSucceeds, SendFails, Sending, Disconnect
  <2>2. CASE SendSucceeds(t)
    BY <2>1, <2>2, ResumedIsOut, KeepRunning DEF SendSucceeds, Resume
  <2> QED
    BY <1>2, <2>1, <2>2, CallOneDisconnect DEF SendFails
<1>3. ASSUME NEW from, NEW step, BeginSend(t, from, step),
             from \notin Disconnect, step \notin Disconnect,
             ResumptionOf(t, AfterSend(step))
      PROVE  OneDisconnect'
  <2>1. pc[t] \notin Disconnect
    BY <1>3 DEF BeginSend
  <2>2. CASE Goto(t, step) /\ UNCHANGED memory
    BY <1>3, <2>1, <2>2, KeepRunning DEF memory
  <2>3. CASE Resume(t, AfterSend(step), {}) /\ UNCHANGED disconnecting
    BY <1>3, <2>1, <2>3, ResumedIsOut, KeepRunning DEF Resume
  <2> QED
    BY <1>3, <2>2, <2>3 DEF BeginSend, memory
<1>4. "h_ack" \notin Disconnect /\ "h_send" \notin Disconnect
      /\ "w_pick" \notin Disconnect /\ "w_send" \notin Disconnect
  BY DEF Disconnect
<1>5. /\ t \in Socket => ResumptionOf(t, AfterSend("h_send"))
      /\ t \in Agent => ResumptionOf(t, AfterSend("w_send"))
  BY TaskAssumption DEF ResumptionOf, AfterSend, SocketResumption, AgentResumption
<1> QED
  BY <1>1, <1>2, <1>3, <1>4, <1>5

LEMMA SocketOneDisconnect ==
  ASSUME TypeOK, OneDisconnect, NEW s \in Socket,
         \/ ConnectTcp(s) \/ ConnectReadHost(s) \/ ConnectFreeHost(s) \/ ConnectEnds(s)
         \/ RecvHeartbeat(s) \/ HeartbeatTcp(s) \/ HeartbeatRestore(s)
         \/ RecvStatusOffline(s) \/ StatusOffline(s) \/ SocketDiscarded(s)
         \/ Answered(s) \/ RecvHostOffline(s) \/ HostOfflineTcp(s)
         \/ ConnectRejected(s) \/ ConnectAccepted(s) \/ RecvEnds(s) \/ RecvMalformed(s)
  PROVE  OneDisconnect'
<1>1. s \in Task /\ s \notin Agent
  BY TaskAssumption DEF Task
<1>2. CASE ConnectTcp(s) \/ ConnectReadHost(s) \/ ConnectFreeHost(s) \/ ConnectEnds(s)
  BY <1>1, <1>2, KeepRunning
     DEF ConnectTcp, ConnectReadHost, ConnectFreeHost, ConnectEnds, memory, Disconnect
<1>3. CASE RecvHeartbeat(s)
  BY <1>1, <1>3, KeepRunning DEF RecvHeartbeat, Disconnect
<1>4. CASE \/ HeartbeatTcp(s) \/ HeartbeatRestore(s) \/ RecvStatusOffline(s)
           \/ StatusOffline(s) \/ SocketDiscarded(s)
           \/ Answered(s) \/ RecvHostOffline(s) \/ HostOfflineTcp(s)
  BY <1>1, <1>4, KeepRunning
     DEF Answered, RecvHostOffline, HostOfflineTcp, HeartbeatTcp, HeartbeatRestore, RecvStatusOffline, StatusOffline,
         SocketDiscarded, memory, Disconnect
<1>5. /\ ResumptionOf(s, "recv") /\ ResumptionOf(s, "welcome") /\ ResumptionOf(s, "done")
      /\ "idle" \notin Disconnect /\ "recv" \notin Disconnect
      /\ "welcome" \notin Disconnect /\ "done" \notin Disconnect
  BY <1>1 DEF ResumptionOf, SocketResumption, Disconnect
<1>6. ASSUME NEW step \in {"recv", "welcome", "done"}, NEW gone,
             pc[s] \notin Disconnect, Resume(s, step, gone), UNCHANGED disconnecting
      PROVE  OneDisconnect'
  BY <1>1, <1>5, <1>6, KeepRunning DEF Resume
<1>7. CASE ConnectRejected(s)
  BY <1>5, <1>6, <1>7 DEF ConnectRejected
<1>8. CASE ConnectAccepted(s)
  BY <1>1, <1>5, <1>6, <1>8, CallOneDisconnect DEF ConnectAccepted
<1>9. CASE RecvEnds(s) \/ RecvMalformed(s)
  <2>1. PICK lnk : LoopEnds(s, lnk)
    BY <1>9 DEF RecvEnds, RecvMalformed
  <2>2. pc[s] \notin Disconnect
    BY <1>9 DEF RecvEnds, RecvMalformed, Disconnect
  <2> QED
    BY <1>1, <1>5, <1>6, <2>1, <2>2, CallOneDisconnect DEF LoopEnds
<1> QED
  BY <1>2, <1>3, <1>4, <1>7, <1>8, <1>9

LEMMA CheckerOneDisconnect ==
  ASSUME TypeOK, OneDisconnect, NEW a \in Agent,
         WarnTcp(a) \/ TimeoutCancelled(a) \/ TimeoutDisconnect(a)
  PROVE  OneDisconnect'
<1>1. a \in Task /\ a \notin Socket
  BY TaskAssumption DEF Task
<1>2. CASE WarnTcp(a) \/ TimeoutCancelled(a)
  BY <1>1, <1>2, KeepRunning DEF WarnTcp, TimeoutCancelled, memory, Disconnect
<1>3. CASE TimeoutDisconnect(a)
  <2>1. ResumptionOf(a, "idle") /\ pc[a] \notin Disconnect
    BY <1>1, <1>3 DEF ResumptionOf, AgentResumption, TimeoutDisconnect, Disconnect
  <2>2. CASE Skipped(a)
    BY <1>1, <2>1, <2>2, KeepRunning DEF Skipped, Disconnect
  <2> QED
    BY <1>1, <1>3, <2>1, <2>2, CallOneDisconnect, TimeoutSplits
<1> QED
  BY <1>2, <1>3

LEMMA ScanOneDisconnect ==
  ASSUME TypeOK, OneDisconnect, Scan
  PROVE  OneDisconnect'
<1>1. TimeoutHosts \subseteq Agent /\ DisconnectHosts \subseteq Agent
  BY DEF TimeoutHosts, DisconnectHosts, Watched
<1>2. \A t \in Task : \/ pc'[t] = pc[t]
                      \/ pc[t] = "idle" /\ pc'[t] \in {"w_tcp", "recheck"}
  BY <1>1 DEF Scan, CheckerIdle
<1>3. \A t \in Task : pc'[t] \in Disconnect <=> pc[t] \in Disconnect
  BY <1>2 DEF Disconnect
<1>4. {t \in Task : pc'[t] \in Disconnect} = {t \in Task : pc[t] \in Disconnect}
  BY <1>3
<1>5. UNCHANGED disconnecting
  BY DEF Scan
<1> QED
  BY <1>3, <1>4, <1>5 DEF OneDisconnect, AgentOf

LEMMA OneDisconnectStep == TypeOK /\ OneDisconnect /\ [Next]_vars => OneDisconnect'
<1> SUFFICES ASSUME TypeOK, OneDisconnect, [Next]_vars
             PROVE  OneDisconnect'
  OBVIOUS
<1>1. Socket \subseteq Task /\ Agent \subseteq Task
  BY DEF Task
<1>4. ASSUME UNCHANGED <<pc, disconnecting>>
      PROVE  OneDisconnect'
  BY <1>4 DEF OneDisconnect, AgentOf
<1>5. ASSUME NEW a \in Agent,
             HeartbeatAges(a) \/ WarningAges(a) \/ VncLocks(a) \/ HostReleased(a)
      PROVE  OneDisconnect'
  BY <1>4, <1>5 DEF HeartbeatAges, WarningAges, VncLocks, HostReleased, memory, tasks
<1>6. ASSUME NEW s \in Socket, PeerLeaves(s) \/ EndpointReturns(s)
      PROVE  OneDisconnect'
  BY <1>4, <1>6 DEF PeerLeaves, EndpointReturns, memory, tasks
<1>2. ASSUME NEW s \in Socket, SocketNext(s)
      PROVE  OneDisconnect'
  BY <1>1, <1>2, <1>6, SocketOneDisconnect, TaskOneDisconnect DEF SocketNext
<1>3. ASSUME NEW a \in Agent, CheckNext(a)
      PROVE  OneDisconnect'
  BY <1>1, <1>3, CheckerOneDisconnect, TaskOneDisconnect DEF CheckNext
<1>7. CASE EnvironmentNext
  BY <1>5, <1>6, <1>7, SocketOneDisconnect, BoundAssumption
     DEF EnvironmentNext, RecvConnectionResult, RecvVersionUpdate
<1>8. CASE UNCHANGED vars
  BY <1>4, <1>8 DEF vars, memory, tasks
<1> QED
  BY <1>2, <1>3, <1>5, <1>7, <1>8, ScanOneDisconnect DEF Next

LEMMA InitOneDisconnect == Init => OneDisconnect
  BY DEF Init, OneDisconnect, Disconnect

\* disconnect is mutually exclusive per agent, and _disconnecting holds exactly
\* the agents whose connection is being torn down.
THEOREM DisconnectIsExclusive == Spec => []OneDisconnect
  BY InitType, TypeStep, InitOneDisconnect, OneDisconnectStep, PTL DEF Spec

--------------------------------------------------------------------------------
(* The registry: what active_connections and heartbeat_timestamps say of a *)
(* socket agrees with the endpoint that owns it.                           *)

RInv == TypeOK /\ Registration /\ NoUnwatchedConnection

\* The links after a step, as far as registrations depend on them: what is
\* open for others stays open, and nothing open is taken back to new.
LinksKept(t, lnk) ==
    \A u \in Socket :
        /\ link[u] \notin {"new", "closed"} => lnk[u] \notin {"new", "closed"}
        /\ u # t /\ link[u] \in {"up", "lost"} => lnk[u] \in {"up", "lost"}

LEMMA MoveRegistry ==
  ASSUME RInv, NEW t \in Task, NEW step, Goto(t, step),
         step \in Disconnect => pc[t] \in Disconnect,
         pc[t] \in Connecting => step \in Connecting \/ heartbeat'[AgentOf(t)] # "none",
         UNCHANGED <<active, after, link>>,
         \A a \in Agent : heartbeat'[a] = "none" => heartbeat[a] = "none"
  PROVE  Registration' /\ NoUnwatchedConnection'
<1>1. \A u \in Task : pc'[u] = IF u = t THEN step ELSE pc[u]
  BY DEF RInv, TypeOK, Goto
<1>2. Socket \subseteq Task /\ \A s \in Socket : AgentOf(s) = Owner[s]
  BY DEF Task, AgentOf
<1>3. Registration'
  BY <1>1, <1>2 DEF RInv, Registration, Registered
<1>4. \A a \in Agent : Registered(a) => active[a] \in Socket /\ Owner[active[a]] = a
  BY DEF RInv, TypeOK, Registration, Registered
<1>5. NoUnwatchedConnection'
  BY <1>1, <1>2, <1>4 DEF RInv, NoUnwatchedConnection, Registered
<1> QED
  BY <1>3, <1>5

LEMMA ResumeRegistry ==
  ASSUME RInv, NEW t \in Task, NEW step, NEW gone, ResumptionOf(t, step),
         Resume(t, step, gone), LinksKept(t, link'),
         step = "welcome" => link'[t] \in {"up", "lost"},
         pc[t] \in Connecting => step \in Connecting,
         \A u \in Task \ {t} : after'[u] = after[u]
  PROVE  Registration' /\ NoUnwatchedConnection'
<1> DEFINE next == IF step = "warned" THEN "idle" ELSE step
<1>1. \A u \in Task : pc'[u] = IF u = t THEN next ELSE pc[u]
  BY DEF RInv, TypeOK, Resume, Goto
<1>2. next \notin Disconnect
  BY ResumedIsOut
<1>3. step = "welcome" => t \in Socket /\ AgentOf(t) = Owner[t]
  BY TaskAssumption DEF ResumptionOf, AgentResumption, Task, AgentOf
<1>4. step \in Connecting => next \in Connecting
  BY DEF Connecting
<1>5. step = "welcome" => next \in Connecting
  BY DEF Connecting
<1> HIDE DEF next
<1>6. \A a \in Agent :
        \/ active'[a] = None
        \/ active'[a] = active[a] /\ a \notin gone
        \/ step = "welcome" /\ a = Owner[t] /\ active'[a] = t
  BY <1>3 DEF Resume, RInv, TypeOK, Without
<1>7. \A a \in Agent : a \notin gone => heartbeat'[a] = heartbeat[a]
  BY DEF Resume, Without
<1>8. Socket \subseteq Task /\ \A s \in Socket : Owner[s] \in Agent /\ s # None
  BY OwnerAssumption, TaskAssumption DEF Task
<1>9. \A a \in Agent : active[a] \in Socket \cup {None}
  BY DEF RInv, TypeOK
<1>10. \A a \in Agent :
         active'[a] # None => /\ Owner[active'[a]] = a
                              /\ link'[active'[a]] \notin {"new", "closed"}
  BY <1>3, <1>6, <1>9 DEF RInv, Registration, Registered, LinksKept
<1>11. ASSUME NEW s \in Socket, pc'[s] \in Disconnect, after'[s] = "welcome"
       PROVE  link'[s] \in {"up", "lost"} /\ active'[Owner[s]] # s
  <2>1. s # t /\ pc[s] \in Disconnect /\ after[s] = "welcome"
    BY <1>1, <1>2, <1>8, <1>11
  <2>2. link[s] \in {"up", "lost"} /\ active[Owner[s]] # s
    BY <2>1 DEF RInv, Registration
  <2> QED
    BY <1>6, <1>8, <2>1, <2>2 DEF LinksKept
<1>12. Registration'
  BY <1>10, <1>11 DEF Registration, Registered
<1>13. ASSUME NEW a \in Agent, active'[a] # None, heartbeat'[a] = "none"
       PROVE  pc'[active'[a]] \in Connecting
  <2>1. CASE step = "welcome" /\ active'[a] = t
    BY <1>1, <1>5, <2>1
  <2>2. CASE active'[a] = active[a] /\ a \notin gone
    <3>1. pc[active[a]] \in Connecting /\ active[a] \in Task
      BY <1>7, <1>8, <1>9, <1>13, <2>2 DEF RInv, NoUnwatchedConnection, Registered
    <3> QED
      BY <1>1, <1>4, <2>2, <3>1
  <2> QED
    BY <1>6, <1>13, <2>1, <2>2
<1>14. NoUnwatchedConnection'
  BY <1>13 DEF NoUnwatchedConnection, Registered
<1> QED
  BY <1>12, <1>14

LEMMA BeginRegistry ==
  ASSUME RInv, NEW t \in Task, NEW step, NEW gone, NEW lnk \in [Socket -> LinkState],
         ResumptionOf(t, step), BeginDisconnect(t, step, gone, lnk), LinksKept(t, lnk),
         step = "welcome" => lnk[t] \in {"up", "lost"} /\ active[AgentOf(t)] # t
  PROVE  Registration' /\ NoUnwatchedConnection'
<1> DEFINE a == AgentOf(t)
           ws == active[a]
<1>1. \A u \in Task : /\ pc'[u] = IF u = t THEN "d_tcp" ELSE pc[u]
                      /\ after'[u] = IF u = t THEN step ELSE after[u]
  BY DEF RInv, TypeOK, BeginDisconnect, Goto
<1>2. a \in Agent /\ ws \in Socket \cup {None}
  BY AgentOfType DEF RInv, TypeOK
<1>3. \A b \in Agent : \/ active'[b] = None
                       \/ active'[b] = active[b] /\ heartbeat'[b] = heartbeat[b] /\ b # a
  BY DEF BeginDisconnect, Without
<1>4. active'[a] = None
  BY <1>2 DEF BeginDisconnect, Without
<1>5. \A u \in Socket : u # ws => link'[u] = lnk[u]
  BY DEF BeginDisconnect
<1>6. Socket \subseteq Task /\ \A s \in Socket : AgentOf(s) = Owner[s] /\ Owner[s] \in Agent /\ s # None
  BY OwnerAssumption, TaskAssumption DEF Task, AgentOf
<1> HIDE DEF a
<1>7. \A b \in Agent : active[b] # None =>
         /\ active[b] \in Socket /\ Owner[active[b]] = b
         /\ link[active[b]] \notin {"new", "closed"}
  BY DEF RInv, TypeOK, Registration, Registered
<1>8. ASSUME NEW b \in Agent, active'[b] # None
      PROVE  /\ Owner[active'[b]] = b
             /\ link'[active'[b]] \notin {"new", "closed"}
             /\ active'[b] # t
  <2>1. active'[b] = active[b] /\ b # a
    BY <1>3, <1>8
  <2>2. active[b] # ws
    BY <1>2, <1>7, <1>8, <2>1
  <2> QED
    BY <1>5, <1>6, <1>7, <1>8, <2>1, <2>2 DEF LinksKept, a
<1>9. ASSUME NEW s \in Socket, pc'[s] \in Disconnect, after'[s] = "welcome"
      PROVE  link'[s] \in {"up", "lost"} /\ active'[Owner[s]] # s
  <2>1. CASE s = t
    <3>1. step = "welcome" /\ a = Owner[s]
      BY <1>1, <1>6, <1>9, <2>1 DEF a
    <3> QED
      BY <1>4, <1>5, <1>6, <2>1, <3>1 DEF a
  <2>2. CASE s # t
    <3>1. link[s] \in {"up", "lost"} /\ active[Owner[s]] # s
      BY <1>1, <1>6, <1>9, <2>2 DEF RInv, Registration
    <3>2. s # ws
      BY <1>2, <1>6, <1>7, <3>1
    <3> QED
      BY <1>3, <1>5, <1>6, <2>2, <3>1, <3>2 DEF LinksKept
  <2> QED
    BY <2>1, <2>2
<1>10. Registration'
  BY <1>8, <1>9 DEF Registration, Registered
<1>11. NoUnwatchedConnection'
  BY <1>1, <1>3, <1>6, <1>7, <1>8 DEF RInv, NoUnwatchedConnection, Registered
<1> QED
  BY <1>10, <1>11

LEMMA CallRegistry ==
  ASSUME RInv, NEW t \in Task, NEW step, NEW gone, NEW lnk \in [Socket -> LinkState],
         ResumptionOf(t, step), CallDisconnect(t, step, gone, lnk), LinksKept(t, lnk),
         step = "welcome" => lnk[t] \in {"up", "lost"} /\ active[AgentOf(t)] # t,
         pc[t] \in Connecting => step \in Connecting
  PROVE  Registration' /\ NoUnwatchedConnection'
<1>1. CASE BeginDisconnect(t, step, gone, lnk)
  BY <1>1, BeginRegistry
<1>2. CASE Resume(t, step, gone) /\ link' = lnk /\ UNCHANGED <<disconnecting, after>>
  BY <1>2, ResumeRegistry
<1> QED
  BY <1>1, <1>2 DEF CallDisconnect

LEMMA DisconnectRegistry ==
  ASSUME RInv, NEW t \in Task, DisconnectStep(t)
  PROVE  Registration' /\ NoUnwatchedConnection'
<1>1. CASE TcpClosed(t) \/ ReadHost(t) \/ WriteOffline(t)
  BY <1>1, MoveRegistry
     DEF TcpClosed, ReadHost, WriteOffline, memory, Disconnect, Connecting
<1>2. CASE EndDisconnect(t)
  <2>1. ResumptionOf(t, after[t]) /\ pc[t] \in Disconnect /\ pc[t] \notin Connecting
    BY <1>2 DEF RInv, TypeOK, ResumptionOf, EndDisconnect, Disconnect, Connecting
  <2>2. link' = link /\ Resume(t, after[t], {})
    BY <1>2 DEF EndDisconnect
  <2>3. after[t] = "welcome" => link'[t] \in {"up", "lost"}
    <3>1. after[t] = "welcome" => t \in Socket
      BY <2>1, TaskAssumption DEF ResumptionOf, AgentResumption, Task
    <3> QED
      BY <2>1, <2>2, <3>1 DEF RInv, Registration
  <2>4. \A u \in Task \ {t} : after'[u] = after[u]
    BY <1>2 DEF EndDisconnect, RInv, TypeOK
  <2> QED
    BY <2>1, <2>2, <2>3, <2>4, ResumeRegistry DEF LinksKept
<1> QED
  BY <1>1, <1>2 DEF DisconnectStep

LEMMA SendRegistry ==
  ASSUME RInv, NEW t \in Task, SendSucceeds(t) \/ SendFails(t)
  PROVE  Registration' /\ NoUnwatchedConnection'
<1>1. /\ ResumptionOf(t, AfterSend(pc[t])) /\ AfterSend(pc[t]) # "welcome"
      /\ pc[t] \in Connecting => AfterSend(pc[t]) \in Connecting
  <2>1. pc[t] \in Sending
    BY DEF SendSucceeds, SendFails
  <2>2. ResumptionOf(t, AfterSend(pc[t]))
    BY <2>1, AfterSendResumption DEF RInv
  <2>3. CASE pc[t] = "welcome"
    BY <2>2, <2>3 DEF AfterSend, Connecting
  <2>4. CASE pc[t] = "h_send"
    BY <2>2, <2>4 DEF AfterSend, Connecting
  <2>5. CASE pc[t] = "w_send"
    BY <2>2, <2>5 DEF AfterSend, Connecting
  <2> QED
    BY <2>1, <2>3, <2>4, <2>5 DEF Sending
<1>2. LinksKept(t, link) /\ link \in [Socket -> LinkState]
  BY DEF LinksKept, RInv, TypeOK
<1>3. CASE SendSucceeds(t)
  BY <1>1, <1>2, <1>3, ResumeRegistry DEF SendSucceeds
<1>4. CASE SendFails(t)
  BY <1>1, <1>2, <1>4, CallRegistry DEF SendFails
<1> QED
  BY <1>3, <1>4

LEMMA BeginSendRegistry ==
  ASSUME RInv, NEW t \in Task, NEW from, NEW step, BeginSend(t, from, step),
         \/ t \in Socket /\ from = "h_ack" /\ step = "h_send"
         \/ t \in Agent /\ from = "w_pick" /\ step = "w_send"
  PROVE  Registration' /\ NoUnwatchedConnection'
<1>1. /\ ResumptionOf(t, AfterSend(step)) /\ AfterSend(step) # "welcome"
      /\ pc[t] \notin Connecting /\ step \notin Disconnect
  BY TaskAssumption
     DEF ResumptionOf, AfterSend, SocketResumption, AgentResumption, BeginSend,
         Connecting, Disconnect
<1>2. CASE Goto(t, step) /\ UNCHANGED <<memory, after>>
  BY <1>1, <1>2, MoveRegistry DEF BeginSend, memory
<1>3. CASE Resume(t, AfterSend(step), {}) /\ UNCHANGED <<disconnecting, after>>
  BY <1>1, <1>3, ResumeRegistry DEF BeginSend, LinksKept
<1> QED
  BY <1>2, <1>3 DEF BeginSend

LEMMA ConnectRegistry ==
  ASSUME RInv, NEW s \in Socket, ConnectRejected(s) \/ ConnectAccepted(s)
  PROVE  Registration' /\ NoUnwatchedConnection'
<1>1. /\ s \in Task /\ s \notin Agent /\ AgentOf(s) = Owner[s] /\ Owner[s] \in Agent
      /\ link[s] = "new" /\ pc[s] = "idle" /\ pc[s] \notin Connecting
  BY TaskAssumption, OwnerAssumption
     DEF Task, AgentOf, ConnectRejected, ConnectAccepted, Connecting
<1>2. ResumptionOf(s, "recv") /\ ResumptionOf(s, "welcome")
  BY <1>1 DEF ResumptionOf, SocketResumption
<1>3. CASE ConnectRejected(s)
  <2>1. LinksKept(s, link')
    BY <1>1, <1>3 DEF ConnectRejected, LinksKept, RInv, TypeOK
  <2> QED
    BY <1>1, <1>2, <1>3, <2>1, ResumeRegistry DEF ConnectRejected
<1>4. CASE ConnectAccepted(s)
  <2> DEFINE lnk == [link EXCEPT ![s] = "up"]
  <2>1. lnk \in [Socket -> LinkState] /\ LinksKept(s, lnk) /\ lnk[s] = "up"
    BY DEF LinksKept, RInv, TypeOK, LinkState
  <2>2. active[Owner[s]] # s
    <3>1. s # None
      BY TaskAssumption
    <3> QED
      BY <1>1, <3>1 DEF RInv, Registration, Registered
  <2> HIDE DEF lnk
  <2>3. CASE Resume(s, "welcome", Invalid) /\ link' = lnk /\ UNCHANGED <<disconnecting, after>>
    BY <1>1, <1>2, <2>1, <2>3, ResumeRegistry
  <2>4. CASE CallDisconnect(s, "welcome", Invalid, lnk)
    BY <1>1, <1>2, <2>1, <2>2, <2>4, CallRegistry
  <2> QED
    BY <1>4, <2>3, <2>4 DEF ConnectAccepted, lnk
<1> QED
  BY <1>3, <1>4

LEMMA EndpointRegistry ==
  ASSUME RInv, NEW s \in Socket,
         \/ ConnectTcp(s) \/ ConnectReadHost(s) \/ ConnectFreeHost(s) \/ ConnectEnds(s)
         \/ RecvHeartbeat(s) \/ HeartbeatTcp(s) \/ HeartbeatRestore(s)
         \/ RecvStatusOffline(s) \/ StatusOffline(s) \/ RecvEnds(s) \/ RecvMalformed(s)
         \/ Answered(s) \/ RecvHostOffline(s) \/ HostOfflineTcp(s)
  PROVE  Registration' /\ NoUnwatchedConnection'
<1>1. s \in Task /\ s \notin Agent /\ AgentOf(s) = Owner[s] /\ Owner[s] \in Agent
  BY TaskAssumption, OwnerAssumption DEF Task, AgentOf
<1>2. CASE ConnectTcp(s) \/ ConnectReadHost(s) \/ ConnectFreeHost(s)
  BY <1>1, <1>2, MoveRegistry
     DEF ConnectTcp, ConnectReadHost, ConnectFreeHost, memory, Connecting, Disconnect
<1>3. CASE ConnectEnds(s)
  <2>1. /\ heartbeat'[Owner[s]] = "fresh"
        /\ \A a \in Agent : heartbeat'[a] = "none" => heartbeat[a] = "none"
    BY <1>1, <1>3 DEF ConnectEnds, Stamp, RInv, TypeOK
  <2> QED
    BY <1>1, <1>3, <2>1, MoveRegistry DEF ConnectEnds, Disconnect
<1>4. CASE RecvHeartbeat(s)
  <2>1. \A a \in Agent : heartbeat'[a] = "none" => heartbeat[a] = "none"
    BY <1>4 DEF RecvHeartbeat, Stamp, RInv, TypeOK
  <2> QED
    BY <1>1, <1>4, <2>1, MoveRegistry DEF RecvHeartbeat, Connecting, Disconnect
<1>5. CASE \/ HeartbeatTcp(s) \/ HeartbeatRestore(s) \/ RecvStatusOffline(s) \/ StatusOffline(s)
           \/ Answered(s) \/ RecvHostOffline(s) \/ HostOfflineTcp(s)
  BY <1>1, <1>5, MoveRegistry
     DEF Answered, RecvHostOffline, HostOfflineTcp, HeartbeatTcp, HeartbeatRestore, RecvStatusOffline, StatusOffline, memory,
         Connecting, Disconnect
<1>6. ASSUME NEW lnk \in [Socket -> LinkState], LinksKept(s, lnk), LoopEnds(s, lnk),
             pc[s] \notin Connecting
      PROVE  Registration' /\ NoUnwatchedConnection'
  <2>1. ResumptionOf(s, "done")
    BY <1>1 DEF ResumptionOf, SocketResumption
  <2>2. CASE CallDisconnect(s, "done", {}, lnk)
    BY <1>1, <1>6, <2>1, <2>2, CallRegistry
  <2>3. CASE link' = lnk /\ Resume(s, "done", {}) /\ UNCHANGED <<disconnecting, after>>
    BY <1>1, <1>6, <2>1, <2>3, ResumeRegistry
  <2> QED
    BY <1>6, <2>2, <2>3 DEF LoopEnds
<1>7. CASE RecvEnds(s) \/ RecvMalformed(s)
  <2> DEFINE down == [link EXCEPT ![s] = "down"]
  <2>1. pc[s] \notin Connecting
    BY <1>7 DEF RecvEnds, RecvMalformed, Connecting
  <2>2. link \in [Socket -> LinkState] /\ LinksKept(s, link)
    BY DEF LinksKept, RInv, TypeOK
  <2>3. CASE LoopEnds(s, link)
    BY <1>6, <2>1, <2>2, <2>3
  <2>4. CASE LoopEnds(s, down)
    <3>1. down \in [Socket -> LinkState] /\ LinksKept(s, down)
      BY <2>2 DEF LinksKept, LinkState
    <3> QED
      BY <1>6, <2>1, <2>4, <3>1
  <2> QED
    BY <1>7, <2>3, <2>4 DEF RecvEnds, RecvMalformed
<1> QED
  BY <1>2, <1>3, <1>4, <1>5, <1>7

LEMMA CheckerRegistry ==
  ASSUME RInv, NEW a \in Agent,
         WarnTcp(a) \/ TimeoutCancelled(a) \/ TimeoutDisconnect(a)
  PROVE  Registration' /\ NoUnwatchedConnection'
<1>1. a \in Task /\ a \notin Socket
  BY TaskAssumption DEF Task
<1>2. CASE WarnTcp(a) \/ TimeoutCancelled(a)
  BY <1>1, <1>2, MoveRegistry
     DEF WarnTcp, TimeoutCancelled, memory, Disconnect, Connecting
<1>3. CASE TimeoutDisconnect(a)
  <2>1. /\ ResumptionOf(a, "idle") /\ LinksKept(a, link) /\ link \in [Socket -> LinkState]
        /\ pc[a] \notin Connecting
    BY <1>1, <1>3 DEF ResumptionOf, AgentResumption, LinksKept, RInv, TypeOK,
                      TimeoutDisconnect, Connecting
  <2>2. CASE Skipped(a)
    <3>1. "idle" \notin Disconnect
      BY DEF Disconnect
    <3> QED
      BY <1>1, <2>1, <2>2, <3>1, MoveRegistry DEF Skipped
  <2> QED
    BY <1>1, <1>3, <2>1, <2>2, CallRegistry, TimeoutSplits
<1> QED
  BY <1>2, <1>3

LEMMA ScanRegistry ==
  ASSUME RInv, Scan
  PROVE  Registration' /\ NoUnwatchedConnection'
<1>1. TimeoutHosts \subseteq Agent /\ DisconnectHosts \subseteq Agent
  BY DEF TimeoutHosts, DisconnectHosts, Watched
<1>2. /\ \A s \in Socket : pc'[s] = pc[s]
      /\ UNCHANGED <<active, after, link>>
  BY <1>1, TaskAssumption DEF Scan, Task
<1>3. \A a \in Agent : Registered(a) => heartbeat'[a] = heartbeat[a] /\ active[a] \in Socket
  BY DEF Scan, Without, Orphans, RInv, TypeOK, Registered
<1>4. Registration'
  BY <1>2 DEF RInv, Registration, Registered
<1>5. NoUnwatchedConnection'
  BY <1>2, <1>3 DEF RInv, NoUnwatchedConnection, Registered
<1> QED
  BY <1>4, <1>5

LEMMA WorldRegistry ==
  ASSUME RInv,
         \/ \E a \in Agent : HeartbeatAges(a) \/ WarningAges(a)
                             \/ VncLocks(a) \/ HostReleased(a)
         \/ \E s \in Socket : PeerLeaves(s) \/ EndpointReturns(s) \/ SocketDiscarded(s)
         \/ UNCHANGED vars
  PROVE  Registration' /\ NoUnwatchedConnection'
<1>1. ASSUME UNCHANGED <<active, after, pc, link>>,
             \A a \in Agent : heartbeat'[a] = "none" => heartbeat[a] = "none"
      PROVE  Registration' /\ NoUnwatchedConnection'
  BY <1>1 DEF RInv, Registration, NoUnwatchedConnection, Registered
<1>2. ASSUME NEW a \in Agent, HeartbeatAges(a)
      PROVE  \A b \in Agent : heartbeat'[b] = "none" => heartbeat[b] = "none"
  BY <1>2 DEF HeartbeatAges, RInv, TypeOK
<1>3. ASSUME NEW a \in Agent,
             HeartbeatAges(a) \/ WarningAges(a) \/ VncLocks(a) \/ HostReleased(a)
      PROVE  Registration' /\ NoUnwatchedConnection'
  BY <1>1, <1>2, <1>3
     DEF HeartbeatAges, WarningAges, VncLocks, HostReleased, memory, tasks
<1>4. ASSUME NEW s \in Socket, PeerLeaves(s) \/ EndpointReturns(s)
      PROVE  Registration' /\ NoUnwatchedConnection'
  <2>1. /\ UNCHANGED <<active, heartbeat, after, pc>>
        /\ \A u \in Socket : \/ link'[u] = link[u]
                             \/ link[u] = "up" /\ link'[u] = "lost"
                             \/ pc[u] = "done" /\ link'[u] = "ended"
    BY <1>4 DEF PeerLeaves, EndpointReturns, memory, tasks, RInv, TypeOK
  <2>2. Registration'
    <3>1. ASSUME NEW a \in Agent, Registered(a)
          PROVE  link'[active[a]] \notin {"new", "closed"} /\ Owner[active[a]] = a
      <4>1. active[a] \in Socket
        BY <3>1 DEF RInv, TypeOK, Registered
      <4> QED
        BY <2>1, <3>1, <4>1 DEF RInv, Registration
    <3>2. ASSUME NEW u \in Socket, pc[u] \in Disconnect, after[u] = "welcome"
          PROVE  link'[u] \in {"up", "lost"} /\ active[Owner[u]] # u
      <4>1. pc[u] # "done"
        BY <3>2 DEF Disconnect
      <4> QED
        BY <2>1, <3>2, <4>1 DEF RInv, Registration
    <3> QED
      BY <2>1, <3>1, <3>2 DEF Registration, Registered
  <2>3. NoUnwatchedConnection'
    BY <2>1 DEF RInv, NoUnwatchedConnection, Registered
  <2> QED
    BY <2>2, <2>3
<1>5. ASSUME NEW s \in Socket, SocketDiscarded(s)
      PROVE  Registration' /\ NoUnwatchedConnection'
  <2>1. /\ s \in Task /\ pc[s] = "done"
        /\ \A a \in Agent : active[a] # s
        /\ UNCHANGED <<active, heartbeat, after>>
        /\ \A u \in Task : pc'[u] = IF u = s THEN "idle" ELSE pc[u]
        /\ \A u \in Socket : u # s => link'[u] = link[u]
    BY <1>5 DEF SocketDiscarded, Goto, memory, RInv, TypeOK, Task
  <2>2. \A a \in Agent : Registered(a) => active[a] \in Socket /\ active[a] \in Task
    BY DEF RInv, TypeOK, Registered, Task
  <2>3. Registration'
    BY <2>1, <2>2 DEF RInv, Registration, Registered, Disconnect, Task
  <2>4. NoUnwatchedConnection'
    BY <2>1, <2>2 DEF RInv, NoUnwatchedConnection, Registered
  <2> QED
    BY <2>3, <2>4
<1>6. CASE UNCHANGED vars
  BY <1>1, <1>6 DEF vars, memory, tasks
<1> QED
  BY <1>3, <1>4, <1>5, <1>6

LEMMA RegistryStep == RInv /\ [Next]_vars => RInv'
<1> SUFFICES ASSUME RInv, [Next]_vars
             PROVE  Registration' /\ NoUnwatchedConnection'
  BY TypeStep DEF RInv
<1>1. Socket \subseteq Task /\ Agent \subseteq Task
  BY DEF Task
<1>2. ASSUME NEW s \in Socket, SocketNext(s)
      PROVE  Registration' /\ NoUnwatchedConnection'
  BY <1>1, <1>2, EndpointRegistry, BeginSendRegistry, SendRegistry, DisconnectRegistry,
     WorldRegistry DEF SocketNext
<1>3. ASSUME NEW a \in Agent, CheckNext(a)
      PROVE  Registration' /\ NoUnwatchedConnection'
  BY <1>1, <1>3, CheckerRegistry, BeginSendRegistry, SendRegistry, DisconnectRegistry
     DEF CheckNext
<1>4. CASE EnvironmentNext
  BY <1>4, ConnectRegistry, EndpointRegistry, WorldRegistry, BoundAssumption
     DEF EnvironmentNext, RecvConnectionResult, RecvVersionUpdate
<1> QED
  BY <1>2, <1>3, <1>4, ScanRegistry, WorldRegistry DEF Next

LEMMA InitRegistry == Init => RInv
  BY InitType DEF Init, RInv, Registration, NoUnwatchedConnection, Registered, Disconnect, Task

\* No connection escapes the heartbeat checker once its connect is over.
THEOREM EveryConnectionIsWatched == Spec => []NoUnwatchedConnection
<1>1. RInv => NoUnwatchedConnection
  BY DEF RInv
<1> QED
  BY <1>1, InitRegistry, RegistryStep, PTL DEF Spec

\* The manager never keeps, and so never sends to, a socket it has closed.
THEOREM RegisteredSocketIsOpen == Spec => []RegisteredIsOpen
<1>1. RInv => RegisteredIsOpen
  BY DEF RInv, Registration, RegisteredIsOpen
<1> QED
  BY <1>1, InitRegistry, RegistryStep, PTL DEF Spec

--------------------------------------------------------------------------------
(* HeardIsKept: a step moves one task, and only the disconnect the checker *)
(* decides anew takes an agent task from its second look to a disconnect.  *)

LEMMA CallMoves ==
  ASSUME NEW t, NEW step, NEW gone, NEW lnk, CallDisconnect(t, step, gone, lnk)
  PROVE  \E next : Goto(t, next)
  BY DEF CallDisconnect, Resume, BeginDisconnect

\* What any task does inside disconnect and around its sends.
LEMMA AwaitMoves ==
  ASSUME NEW t, \/ DisconnectStep(t) \/ SendSucceeds(t) \/ SendFails(t)
                \/ \E from, step : BeginSend(t, from, step)
  PROVE  \E next : Goto(t, next)
<1>1. CASE SendFails(t)
  BY <1>1, CallMoves DEF SendFails
<1> QED
  BY <1>1 DEF DisconnectStep, TcpClosed, ReadHost, WriteOffline, EndDisconnect,
              SendSucceeds, BeginSend, Resume

LEMMA SocketMoves ==
  ASSUME NEW s,
         \/ ConnectRejected(s) \/ ConnectAccepted(s) \/ SocketDiscarded(s)
         \/ ConnectTcp(s) \/ ConnectReadHost(s) \/ ConnectFreeHost(s) \/ ConnectEnds(s)
         \/ RecvHeartbeat(s) \/ HeartbeatTcp(s) \/ HeartbeatRestore(s)
         \/ RecvStatusOffline(s) \/ StatusOffline(s) \/ RecvEnds(s) \/ RecvMalformed(s)
         \/ Answered(s) \/ RecvHostOffline(s) \/ HostOfflineTcp(s)
  PROVE  \E next : Goto(s, next)
<1>1. CASE ConnectAccepted(s)
  BY <1>1, CallMoves DEF ConnectAccepted, Resume
<1>2. CASE RecvEnds(s) \/ RecvMalformed(s)
  BY <1>2, CallMoves DEF RecvEnds, RecvMalformed, LoopEnds, Resume
<1> QED
  BY <1>1, <1>2
     DEF ConnectRejected, SocketDiscarded, ConnectTcp, ConnectReadHost, ConnectFreeHost,
         ConnectEnds, RecvHeartbeat, HeartbeatTcp, HeartbeatRestore, RecvStatusOffline,
         StatusOffline, Answered, RecvHostOffline, HostOfflineTcp, Resume

LEMMA SecondLook ==
  ASSUME TypeOK, [Next]_vars, NEW a \in Agent,
         pc[a] = "recheck", Registered(a), heartbeat[a] = "fresh"
  PROVE  pc'[a] \in {"recheck", "idle"}
<1>1. a \in Task /\ \A s \in Socket : s # a
  BY TaskAssumption DEF Task
<1>2. ASSUME NEW t, t # a, \E next : Goto(t, next)
      PROVE  pc'[a] = "recheck"
  BY <1>1, <1>2 DEF TypeOK, Goto
<1>3. ASSUME pc' = pc
      PROVE  pc'[a] = "recheck"
  BY <1>3
<1>4. ASSUME NEW s \in Socket, SocketNext(s)
      PROVE  pc'[a] = "recheck"
  <2>1. CASE EndpointReturns(s)
    BY <1>3, <2>1 DEF EndpointReturns, tasks
  <2> QED
    BY <1>1, <1>2, <1>4, <2>1, SocketMoves, AwaitMoves DEF SocketNext
<1>5. ASSUME NEW b \in Agent, CheckNext(b)
      PROVE  pc'[a] \in {"recheck", "idle"}
  <2>1. CASE b # a
    <3>1. CASE WarnTcp(b) \/ TimeoutCancelled(b)
      BY <1>2, <2>1, <3>1 DEF WarnTcp, TimeoutCancelled
    <3>2. CASE TimeoutDisconnect(b)
      BY <1>2, <2>1, <3>2, CallMoves, TimeoutSplits DEF Skipped
    <3> QED
      BY <1>2, <1>5, <2>1, <3>1, <3>2, AwaitMoves DEF CheckNext
  <2>2. CASE b = a
    <3>1. TimeoutCancelled(a)
      BY <1>5, <2>2
         DEF CheckNext, WarnTcp, BeginSend, SendSucceeds, SendFails, Sending,
             TimeoutDisconnect, StillTimedOut, DisconnectStep, TcpClosed, ReadHost,
             WriteOffline, EndDisconnect
    <3> QED
      BY <1>1, <3>1 DEF TimeoutCancelled, Goto, TypeOK
  <2> QED
    BY <2>1, <2>2
<1>6. ASSUME NEW b \in Agent,
             HeartbeatAges(b) \/ WarningAges(b) \/ VncLocks(b) \/ HostReleased(b)
      PROVE  pc'[a] = "recheck"
  BY <1>3, <1>6 DEF HeartbeatAges, WarningAges, VncLocks, HostReleased, tasks
<1>7. ~Scan
  BY DEF Scan, CheckerIdle
<1>8. ASSUME NEW s \in Socket, PeerLeaves(s) \/ EndpointReturns(s)
      PROVE  pc'[a] = "recheck"
  BY <1>3, <1>8 DEF PeerLeaves, EndpointReturns, tasks
<1>9. CASE EnvironmentNext
  BY <1>1, <1>2, <1>6, <1>8, <1>9, SocketMoves, BoundAssumption
     DEF EnvironmentNext, RecvConnectionResult, RecvVersionUpdate
<1>10. CASE UNCHANGED vars
  BY <1>3, <1>10 DEF vars, tasks
<1> QED
  BY <1>4, <1>5, <1>6, <1>7, <1>9, <1>10 DEF Next

\* The checker repeats its test before it disconnects: a heartbeat handled
\* between its scan and its disconnect saves the connection.
THEOREM HeardConnectionIsKept == Spec => HeardIsKept
<1>1. TypeOK /\ [Next]_vars =>
        [\A a \in Agent :
            pc[a] = "recheck" /\ Registered(a) /\ heartbeat[a] = "fresh"
                => pc'[a] \in {"recheck", "idle"}]_vars
  BY SecondLook
<1> QED
  BY <1>1, TypeCorrect, PTL DEF Spec, HeardIsKept

--------------------------------------------------------------------------------
(* The refinement of AgentRegistry: every step of the manager is a step of *)
(* the registry, a Leave of nobody where the registry stays as it is.      *)

\* A socket inside disconnect goes back to its endpoint and not to the start.
WaitsToReturn == \A s \in Socket : pc[s] \in Disconnect => after[s] # "idle"

FInv == TypeOK /\ WaitsToReturn

\* The sockets that have had their turn, as the mapping gives them.
Turned == {s \in Socket : HadTurn(s)}

\* A step of task t in which the others stand still.
OthersStand(t) == \A u \in Task : u # t => pc'[u] = pc[u] /\ after'[u] = after[u]

LEMMA TurnsKept ==
  ASSUME NEW t \in Task, OthersStand(t), t \in Socket => (HadTurn(t)' <=> HadTurn(t))
  PROVE  Turned' = Turned
<1>1. \A s \in Socket : HadTurn(s)' <=> HadTurn(s)
  BY DEF OthersStand, HadTurn, Task
<1> QED
  BY <1>1 DEF Turned

LEMMA TurnsGrow ==
  ASSUME NEW s \in Socket, OthersStand(s), HadTurn(s)'
  PROVE  Turned' = Turned \cup {s}
<1>1. \A u \in Socket : u # s => (HadTurn(u)' <=> HadTurn(u))
  BY DEF OthersStand, HadTurn, Task
<1> QED
  BY <1>1 DEF Turned

LEMMA LeaveRefines ==
  ASSUME TypeOK, NEW gone, active' = Without(active, gone, None), Turned' = Turned
  PROVE  Registry!Leave
<1>1. active' = Registry!Left(gone \cap Agent)
  BY DEF Without, Registry!Left
<1> QED
  BY <1>1 DEF Registry!Leave, Turned

LEMMA StayRefines ==
  ASSUME TypeOK, active' = active, Turned' = Turned
  PROVE  Registry!Leave
<1>1. active' = Without(active, {}, None)
  BY DEF TypeOK, Without
<1> QED
  BY <1>1, LeaveRefines

LEMMA RefuseRefines ==
  ASSUME TypeOK, NEW s \in Socket, NEW gone, active' = Without(active, gone, None),
         ~HadTurn(s), Turned' = Turned \cup {s}
  PROVE  Registry!Refuse(s)
<1>1. active' = Registry!Left(gone \cap Agent)
  BY DEF Without, Registry!Left
<1> QED
  BY <1>1 DEF Registry!Refuse, Turned

LEMMA EnterRefines ==
  ASSUME TypeOK, NEW s \in Socket, NEW gone,
         active' = [Without(active, gone, None) EXCEPT ![Owner[s]] = s],
         ~HadTurn(s), Turned' = Turned \cup {s}
  PROVE  Registry!Enter(s)
<1>1. active' = [Registry!Left(gone \cap Agent) EXCEPT ![Owner[s]] = s]
  BY DEF Without, Registry!Left
<1> QED
  BY <1>1 DEF Registry!Enter, Turned

\* A task that was resumed after its turn goes on; a socket that waited for
\* its turn, or has just been accepted, enters.
LEMMA ResumeRefines ==
  ASSUME FInv, NEW t \in Task, NEW step, NEW gone, ResumptionOf(t, step),
         Resume(t, step, gone), \A u \in Task : u # t => after'[u] = after[u],
         t \in Socket => step # "idle" /\ (step = "welcome" <=> ~HadTurn(t))
  PROVE  Registry!Next /\ WaitsToReturn'
<1>1. \A u \in Task : u # t => pc'[u] = pc[u]
  BY DEF FInv, TypeOK, Resume, Goto
<1>2. pc'[t] = IF step = "warned" THEN "idle" ELSE step
  BY DEF FInv, TypeOK, Resume, Goto
<1>3. OthersStand(t) /\ pc'[t] \notin Disconnect
  BY <1>1, <1>2, ResumedIsOut DEF OthersStand
<1>4. WaitsToReturn'
  BY <1>3 DEF FInv, WaitsToReturn, OthersStand, Task
<1>5. CASE step = "welcome"
  <2>1. t \in Socket /\ AgentOf(t) = Owner[t] /\ ~HadTurn(t)
    BY <1>5, TaskAssumption DEF ResumptionOf, AgentResumption, Task, AgentOf
  <2>2. HadTurn(t)'
    BY <1>2, <1>3, <1>5 DEF HadTurn
  <2>3. active' = [Without(active, gone, None) EXCEPT ![Owner[t]] = t]
    BY <1>5, <2>1 DEF Resume
  <2>4. Registry!Enter(t)
    BY <1>3, <2>1, <2>2, <2>3, TurnsGrow, EnterRefines DEF FInv
  <2> QED
    BY <1>4, <2>1, <2>4 DEF Registry!Next
<1>6. CASE step # "welcome"
  <2>1. t \in Socket => HadTurn(t) /\ HadTurn(t)'
    BY <1>2, <1>3, <1>6, ResumptionStep DEF HadTurn
  <2>2. active' = Without(active, gone, None)
    BY <1>6 DEF Resume
  <2> QED
    BY <1>3, <1>4, <2>1, <2>2, TurnsKept, LeaveRefines DEF FInv, Registry!Next
<1> QED
  BY <1>5, <1>6

LEMMA BeginRefines ==
  ASSUME FInv, NEW t \in Task, NEW step, NEW gone, NEW lnk, ResumptionOf(t, step),
         BeginDisconnect(t, step, gone, lnk),
         t \in Socket => step # "idle" /\ (step = "welcome" <=> ~HadTurn(t))
  PROVE  Registry!Next /\ WaitsToReturn'
<1>1. OthersStand(t) /\ pc'[t] = "d_tcp" /\ after'[t] = step
  BY DEF FInv, TypeOK, BeginDisconnect, Goto, OthersStand
<1>2. WaitsToReturn'
  BY <1>1 DEF FInv, WaitsToReturn, OthersStand, Task
<1>3. t \in Socket => (HadTurn(t)' <=> HadTurn(t))
  BY <1>1 DEF HadTurn, Disconnect
<1>4. active' = Without(active, gone \cup {AgentOf(t)}, None)
  BY DEF BeginDisconnect
<1> QED
  BY <1>1, <1>2, <1>3, <1>4, TurnsKept, LeaveRefines DEF FInv, Registry!Next

LEMMA CallRefines ==
  ASSUME FInv, NEW t \in Task, NEW step, NEW gone, NEW lnk, ResumptionOf(t, step),
         CallDisconnect(t, step, gone, lnk),
         t \in Socket => step # "idle" /\ (step = "welcome" <=> ~HadTurn(t))
  PROVE  Registry!Next /\ WaitsToReturn'
<1>1. CASE BeginDisconnect(t, step, gone, lnk)
  BY <1>1, BeginRefines
<1>2. CASE Resume(t, step, gone) /\ UNCHANGED after
  BY <1>2, ResumeRefines
<1> QED
  BY <1>1, <1>2 DEF CallDisconnect

\* A step that moves a task on, in its endpoint or inside disconnect.
LEMMA MoveRefines ==
  ASSUME FInv, NEW t \in Task, NEW step, Goto(t, step), UNCHANGED <<active, after>>,
         pc[t] \in Disconnect <=> step \in Disconnect,
         t \in Socket => pc[t] # "idle" /\ step # "idle"
  PROVE  Registry!Next /\ WaitsToReturn'
<1>1. OthersStand(t) /\ pc'[t] = step
  BY DEF FInv, TypeOK, Goto, OthersStand
<1>2. WaitsToReturn'
  BY <1>1 DEF FInv, WaitsToReturn, OthersStand, Task
<1>3. t \in Socket => (HadTurn(t)' <=> HadTurn(t))
  BY <1>1 DEF HadTurn
<1> QED
  BY <1>1, <1>2, <1>3, TurnsKept, StayRefines DEF FInv, Registry!Next

LEMMA DisconnectRefines ==
  ASSUME FInv, NEW t \in Task, DisconnectStep(t)
  PROVE  Registry!Next /\ WaitsToReturn'
<1>1. CASE TcpClosed(t) \/ ReadHost(t) \/ WriteOffline(t)
  BY <1>1, MoveRefines
     DEF TcpClosed, ReadHost, WriteOffline, memory, Disconnect
<1>2. CASE EndDisconnect(t)
  <2>1. ResumptionOf(t, after[t]) /\ pc[t] \in Disconnect
    BY <1>2 DEF FInv, TypeOK, ResumptionOf, EndDisconnect, Disconnect
  <2>2. Resume(t, after[t], {}) /\ \A u \in Task : u # t => after'[u] = after[u]
    BY <1>2 DEF EndDisconnect, FInv, TypeOK
  <2>3. t \in Socket => after[t] # "idle" /\ (after[t] = "welcome" <=> ~HadTurn(t))
    BY <2>1 DEF FInv, WaitsToReturn, HadTurn, Disconnect
  <2> QED
    BY <2>1, <2>2, <2>3, ResumeRefines
<1> QED
  BY <1>1, <1>2 DEF DisconnectStep

LEMMA SendRefines ==
  ASSUME FInv, NEW t \in Task, SendSucceeds(t) \/ SendFails(t)
  PROVE  Registry!Next /\ WaitsToReturn'
<1>1. pc[t] \in Sending /\ ResumptionOf(t, AfterSend(pc[t]))
  BY AfterSendResumption DEF FInv, SendSucceeds, SendFails
<1>2. t \in Socket => HadTurn(t) /\ AfterSend(pc[t]) \notin {"idle", "welcome"}
  BY <1>1 DEF HadTurn, Sending, AfterSend, Disconnect
<1>3. CASE SendSucceeds(t)
  BY <1>1, <1>2, <1>3, ResumeRefines DEF SendSucceeds
<1>4. CASE SendFails(t)
  BY <1>1, <1>2, <1>4, CallRefines DEF SendFails
<1> QED
  BY <1>3, <1>4

LEMMA BeginSendRefines ==
  ASSUME FInv, NEW t \in Task, NEW from, NEW step, BeginSend(t, from, step),
         \/ t \in Socket /\ from = "h_ack" /\ step = "h_send"
         \/ t \in Agent /\ from = "w_pick" /\ step = "w_send"
  PROVE  Registry!Next /\ WaitsToReturn'
<1>1. /\ ResumptionOf(t, AfterSend(step)) /\ pc[t] \notin Disconnect /\ step \notin Disconnect
      /\ t \in Socket => HadTurn(t) /\ AfterSend(step) \notin {"idle", "welcome"}
  BY TaskAssumption
     DEF ResumptionOf, AfterSend, SocketResumption, AgentResumption, BeginSend,
         HadTurn, Disconnect
<1>2. CASE Goto(t, step) /\ UNCHANGED <<memory, after>>
  BY <1>1, <1>2, MoveRefines DEF BeginSend, memory, HadTurn
<1>3. CASE Resume(t, AfterSend(step), {}) /\ UNCHANGED <<disconnecting, after>>
  BY <1>1, <1>3, ResumeRefines
<1> QED
  BY <1>2, <1>3 DEF BeginSend

LEMMA ConnectRefines ==
  ASSUME FInv, NEW s \in Socket, ConnectRejected(s) \/ ConnectAccepted(s)
  PROVE  Registry!Next /\ WaitsToReturn'
<1>1. s \in Task /\ s \notin Agent /\ AgentOf(s) = Owner[s] /\ ~HadTurn(s)
  BY TaskAssumption DEF Task, AgentOf, ConnectRejected, ConnectAccepted, HadTurn
<1>2. ResumptionOf(s, "welcome")
  BY <1>1 DEF ResumptionOf, SocketResumption
<1>3. CASE ConnectRejected(s)
  <2>1. OthersStand(s) /\ pc'[s] = "recv" /\ active' = Without(active, Invalid, None)
    BY <1>1, <1>3 DEF ConnectRejected, FInv, TypeOK, Resume, Goto, OthersStand
  <2>2. HadTurn(s)' /\ pc'[s] \notin Disconnect
    BY <2>1 DEF HadTurn, Disconnect
  <2>3. Registry!Refuse(s)
    BY <1>1, <2>1, <2>2, TurnsGrow, RefuseRefines DEF FInv
  <2>4. WaitsToReturn'
    BY <2>1, <2>2 DEF FInv, WaitsToReturn, OthersStand, Task
  <2> QED
    BY <2>3, <2>4 DEF Registry!Next
<1>4. CASE ConnectAccepted(s)
  <2>1. CASE Resume(s, "welcome", Invalid) /\ UNCHANGED after
    BY <1>1, <1>2, <2>1, ResumeRefines
  <2>2. CASE \E lnk : CallDisconnect(s, "welcome", Invalid, lnk)
    BY <1>1, <1>2, <2>2, CallRefines
  <2> QED
    BY <1>4, <2>1, <2>2 DEF ConnectAccepted
<1> QED
  BY <1>3, <1>4

LEMMA EndpointRefines ==
  ASSUME FInv, NEW s \in Socket,
         \/ ConnectTcp(s) \/ ConnectReadHost(s) \/ ConnectFreeHost(s) \/ ConnectEnds(s)
         \/ RecvHeartbeat(s) \/ HeartbeatTcp(s) \/ HeartbeatRestore(s)
         \/ RecvStatusOffline(s) \/ StatusOffline(s) \/ RecvEnds(s) \/ RecvMalformed(s)
         \/ Answered(s) \/ RecvHostOffline(s) \/ HostOfflineTcp(s)
  PROVE  Registry!Next /\ WaitsToReturn'
<1>1. s \in Task /\ s \notin Agent
  BY TaskAssumption DEF Task
<1>2. CASE ConnectTcp(s) \/ ConnectReadHost(s) \/ ConnectFreeHost(s) \/ ConnectEnds(s)
  BY <1>1, <1>2, MoveRefines
     DEF ConnectTcp, ConnectReadHost, ConnectFreeHost, ConnectEnds, memory, Disconnect
<1>3. CASE RecvHeartbeat(s)
  BY <1>1, <1>3, MoveRefines DEF RecvHeartbeat, Disconnect
<1>4. CASE \/ HeartbeatTcp(s) \/ HeartbeatRestore(s) \/ RecvStatusOffline(s) \/ StatusOffline(s)
           \/ Answered(s) \/ RecvHostOffline(s) \/ HostOfflineTcp(s)
  BY <1>1, <1>4, MoveRefines
     DEF Answered, RecvHostOffline, HostOfflineTcp, HeartbeatTcp, HeartbeatRestore,
         RecvStatusOffline, StatusOffline, memory, Disconnect
<1>5. CASE RecvEnds(s) \/ RecvMalformed(s)
  <2>1. ResumptionOf(s, "done") /\ HadTurn(s)
    BY <1>1, <1>5 DEF ResumptionOf, SocketResumption, RecvEnds, RecvMalformed, HadTurn, Disconnect
  <2>2. CASE \E lnk : CallDisconnect(s, "done", {}, lnk)
    BY <1>1, <2>1, <2>2, CallRefines
  <2>3. CASE Resume(s, "done", {}) /\ UNCHANGED after
    BY <1>1, <2>1, <2>3, ResumeRefines
  <2> QED
    BY <1>5, <2>2, <2>3 DEF RecvEnds, RecvMalformed, LoopEnds
<1> QED
  BY <1>2, <1>3, <1>4, <1>5

LEMMA CheckerRefines ==
  ASSUME FInv, NEW a \in Agent,
         WarnTcp(a) \/ TimeoutCancelled(a) \/ TimeoutDisconnect(a)
  PROVE  Registry!Next /\ WaitsToReturn'
<1>1. a \in Task /\ a \notin Socket
  BY TaskAssumption DEF Task
<1>2. CASE WarnTcp(a) \/ TimeoutCancelled(a)
  BY <1>1, <1>2, MoveRefines DEF WarnTcp, TimeoutCancelled, memory, Disconnect
<1>3. CASE TimeoutDisconnect(a)
  <2>1. CASE Skipped(a)
    BY <1>1, <1>3, <2>1, MoveRefines DEF Skipped, TimeoutDisconnect, Disconnect
  <2>2. CASE CallDisconnect(a, "idle", {}, link)
    BY <1>1, <2>2, CallRefines DEF ResumptionOf, AgentResumption
  <2> QED
    BY <1>3, <2>1, <2>2, TimeoutSplits
<1> QED
  BY <1>2, <1>3

\* Steps that move no socket.
LEMMA WorldRefines ==
  ASSUME FInv, UNCHANGED <<active, after>>, \A s \in Socket : pc'[s] = pc[s]
  PROVE  Registry!Next /\ WaitsToReturn'
<1>1. Turned' = Turned /\ WaitsToReturn'
  <2>1. \A s \in Socket : HadTurn(s)' <=> HadTurn(s)
    BY DEF HadTurn
  <2> QED
    BY <2>1 DEF Turned, FInv, WaitsToReturn
<1> QED
  BY <1>1, StayRefines DEF FInv, Registry!Next

\* The endpoint is over and nobody refers to the socket: it is forgotten.
LEMMA DiscardRefines ==
  ASSUME FInv, NEW s \in Socket, SocketDiscarded(s)
  PROVE  Registry!Next /\ WaitsToReturn'
<1>1. OthersStand(s) /\ pc'[s] = "idle" /\ s \in Task
  BY DEF SocketDiscarded, FInv, TypeOK, Goto, OthersStand, Task
<1>2. HadTurn(s) /\ ~HadTurn(s)' /\ pc'[s] \notin Disconnect
  BY <1>1 DEF SocketDiscarded, HadTurn, Disconnect
<1>3. \A u \in Socket : u # s => (HadTurn(u)' <=> HadTurn(u))
  BY <1>1 DEF OthersStand, HadTurn, Task
<1>4. Turned' = Turned \ {s}
  BY <1>2, <1>3 DEF Turned
<1>5. Registry!Forget(s)
  BY <1>2, <1>4 DEF Registry!Forget, SocketDiscarded, memory, Turned
<1>6. WaitsToReturn'
  BY <1>1, <1>2 DEF FInv, WaitsToReturn, OthersStand, Task
<1> QED
  BY <1>5, <1>6 DEF Registry!Next

LEMMA RefinementStep ==
  ASSUME FInv, [Next]_vars
  PROVE  Registry!Next /\ WaitsToReturn'
<1>1. Socket \subseteq Task /\ Agent \subseteq Task
  BY DEF Task
<1>2. ASSUME NEW s \in Socket, SocketNext(s)
      PROVE  Registry!Next /\ WaitsToReturn'
  <2>1. CASE EndpointReturns(s)
    BY <2>1, WorldRefines DEF EndpointReturns, memory, tasks
  <2> QED
    BY <1>1, <1>2, <2>1, EndpointRefines, BeginSendRefines, SendRefines, DisconnectRefines
       DEF SocketNext
<1>3. ASSUME NEW a \in Agent, CheckNext(a)
      PROVE  Registry!Next /\ WaitsToReturn'
  BY <1>1, <1>3, CheckerRefines, BeginSendRefines, SendRefines, DisconnectRefines
     DEF CheckNext
<1>4. ASSUME NEW a \in Agent,
             HeartbeatAges(a) \/ WarningAges(a) \/ VncLocks(a) \/ HostReleased(a)
      PROVE  Registry!Next /\ WaitsToReturn'
  BY <1>4, WorldRefines
     DEF HeartbeatAges, WarningAges, VncLocks, HostReleased, memory, tasks
<1>5. ASSUME NEW s \in Socket, PeerLeaves(s)
      PROVE  Registry!Next /\ WaitsToReturn'
  BY <1>5, WorldRefines DEF PeerLeaves, memory, tasks
<1>6. CASE Scan
  <2>1. \A s \in Socket : pc'[s] = pc[s]
    BY <1>6, TaskAssumption DEF Scan, Task, TimeoutHosts, DisconnectHosts, Watched
  <2> QED
    BY <1>6, <2>1, WorldRefines DEF Scan
<1>7. CASE EnvironmentNext
  BY <1>4, <1>5, <1>7, ConnectRefines, EndpointRefines, DiscardRefines, BoundAssumption
     DEF EnvironmentNext, RecvConnectionResult, RecvVersionUpdate
<1>8. CASE UNCHANGED vars
  BY <1>8, WorldRefines DEF vars, memory, tasks
<1> QED
  BY <1>2, <1>3, <1>4, <1>6, <1>7, <1>8 DEF Next

LEMMA InitRefines == Init => Registry!Init /\ WaitsToReturn
  BY DEF Init, Registry!Init, WaitsToReturn, HadTurn, Disconnect, Task

\* The manager implements the registry of AgentRegistry.
THEOREM ManagerImplementsRegistry == Spec => ImplementsRegistry
<1>1. TypeOK /\ WaitsToReturn /\ [Next]_vars
        => WaitsToReturn' /\ [Registry!Next]_<<active, {s \in Socket : HadTurn(s)}>>
  BY RefinementStep DEF FInv
<1> QED
  BY <1>1, InitRefines, TypeCorrect, PTL
     DEF Spec, ImplementsRegistry, Registry!Spec

================================================================================
