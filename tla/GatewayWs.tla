----------------------------- MODULE GatewayWs -----------------------------
(***************************************************************************)
(* The gateway's WebSocket proxy: the /ws endpoint of                      *)
(* api/v1/endpoints/proxy.py, ProxyService.forward_websocket and the two   *)
(* message pumps it starts for every session, and the token check of       *)
(* shared/common/websocket_auth.py it makes first.                         *)
(*                                                                         *)
(* One session is one client socket.  Its handler is a coroutine: every    *)
(* action below runs from one await to the next, so sessions interleave at *)
(* awaits and nowhere else.  The two sockets of a session and the auth     *)
(* service are the environment: they send, leave, answer or fail at will.  *)
(***************************************************************************)
EXTENDS Naturals, Sequences, FiniteSets

CONSTANTS
  Sessions,        \* client sockets, each used once
  MaxConnections,  \* ProxyService.max_websocket_connections
  Candidates,      \* addresses of the auth service tried in turn
  MaxFrames        \* bound: frames sent in one session, both ways together

ASSUME ConnectionsAssumption == MaxConnections \in Nat \ {0}
ASSUME CandidatesAssumption  == Candidates \in Nat \ {0}
ASSUME FramesAssumption      == MaxFrames \in Nat
ASSUME SessionsAssumption    == IsFiniteSet(Sessions)

VARIABLES
  pc,      \* where the handler of a session stands
  next,    \* the auth address the handler asks next
  table,   \* ProxyService.active_websocket_connections
  gone,    \* the client left without a close of ours
  code,    \* close code sent to the client, 0 before
  backend, \* the socket to the service: none, open or closed
  sent,    \* frames the source of a direction has sent, numbered from 1
  taken,   \* frames the pump of a direction has received
  pump,    \* state of the forwarding task of a direction
  got      \* frames delivered to the destination of a direction

frames == <<sent, taken, pump, got>>
vars == <<pc, next, table, gone, code, backend, frames>>

Up   == "client->server"
Down == "server->client"
Directions == {Up, Down}
PerDirection(v) == [s \in Sessions |-> [d \in Directions |-> v]]

Uncounted == {"idle", "verify", "accept", "locate", "enter", "done"}
Counted   == {"resolve", "connect", "open", "release"}

Init ==
  /\ pc      = [s \in Sessions |-> "idle"]
  /\ next    = [s \in Sessions |-> 1]
  /\ table   = {}
  /\ gone    = [s \in Sessions |-> FALSE]
  /\ code    = [s \in Sessions |-> 0]
  /\ backend = [s \in Sessions |-> "none"]
  /\ sent    = PerDirection(0)
  /\ taken   = PerDirection(0)
  /\ pump    = PerDirection("off")
  /\ got     = PerDirection(<<>>)

Goto(s, l) == pc' = [pc EXCEPT ![s] = l]

\* close() on the client socket: refused, and the refusal swallowed, when the
\* client has disconnected or a close was sent before.
CloseClient(s, c) ==
  code' = IF gone[s] \/ code[s] # 0 THEN code ELSE [code EXCEPT ![s] = c]

\* Mutant: the connection to the service is left to the garbage collector.
CloseBackendForgotten(s) == UNCHANGED backend

CloseBackend(s) ==
  backend' = IF backend[s] = "open" THEN [backend EXCEPT ![s] = "closed"] ELSE backend

\* A receive or a send on a socket that is gone or closed raises.
SourceLost(s, d) ==
  IF d = Up THEN gone[s] \/ code[s] # 0 ELSE backend[s] = "closed"
DestinationLost(s, d) ==
  IF d = Up THEN backend[s] = "closed" ELSE gone[s] \/ code[s] # 0

-----------------------------------------------------------------------------
(* The endpoint before it forwards. *)

\* A client connects.  Without a token in the query or the headers it is
\* accepted only to be told so.
Arrive(s) ==
  /\ pc[s] = "idle"
  /\ \/ Goto(s, "verify") /\ UNCHANGED code
     \/ Goto(s, "done") /\ CloseClient(s, 1008)
  /\ UNCHANGED <<next, table, gone, backend, frames>>

\* One address of the auth service answers.  An active token with an id ends
\* the search well, an active one without an id ends it badly; anything else
\* (inactive, an error status, no connection) moves on to the next address.
VerifyAnswer(s) ==
  /\ pc[s] = "verify"
  /\ \/ Goto(s, "accept") /\ UNCHANGED <<next, code>>
     \/ Goto(s, "done") /\ CloseClient(s, 1008) /\ UNCHANGED next
     \/ /\ next[s] < Candidates
        /\ next' = [next EXCEPT ![s] = @ + 1]
        /\ UNCHANGED <<pc, code>>
  /\ UNCHANGED <<table, gone, backend, frames>>

AcceptClient(s) ==
  /\ pc[s] = "accept"
  /\ Goto(s, "locate")
  /\ UNCHANGED <<next, table, gone, code, backend, frames>>

\* get_service_url, before the session counts: when it raises, the endpoint
\* itself reports the error and closes.
Locate(s) ==
  /\ pc[s] = "locate"
  /\ \/ Goto(s, "enter") /\ UNCHANGED code
     \/ Goto(s, "done") /\ CloseClient(s, 1011)
  /\ UNCHANGED <<next, table, gone, backend, frames>>

-----------------------------------------------------------------------------
(* forward_websocket. *)

\* Mutant: the limit itself still admits.
FullLate == Cardinality(table) > MaxConnections

Full == Cardinality(table) >= MaxConnections

\* The limit is tested and the session entered under one lock that no await
\* separates.  The limit error is caught by the catch-all of the same try,
\* which closes the client with 1011.
Enter(s) ==
  /\ pc[s] = "enter"
  /\ \/ /\ ~Full
        /\ table' = table \cup {s}
        /\ Goto(s, "resolve") /\ UNCHANGED code
     \/ /\ Full
        /\ Goto(s, "done") /\ CloseClient(s, 1011)
        /\ UNCHANGED table
  /\ UNCHANGED <<next, gone, backend, frames>>

\* The sticky address; when the lookup fails the one located before is used.
Resolve(s) ==
  /\ pc[s] = "resolve"
  /\ Goto(s, "connect")
  /\ UNCHANGED <<next, table, gone, code, backend, frames>>

\* Mutant: a failed connection is logged, and the client is not told.
ConnectSilent(s) ==
  /\ pc[s] = "connect"
  /\ Goto(s, "release")
  /\ UNCHANGED <<next, table, gone, code, backend, frames>>

\* The handshake is refused with 401 or 403 (close 1008), or fails otherwise:
\* a bad address, a refusal, a timeout (close 1011).
ConnectFailed(s) ==
  /\ pc[s] = "connect"
  /\ Goto(s, "release")
  /\ \E c \in {1008, 1011} : CloseClient(s, c)
  /\ UNCHANGED <<next, table, gone, backend, frames>>

\* websockets.connect opens, and a pump is started for each direction.
Connect(s) ==
  /\ pc[s] = "connect"
  /\ Goto(s, "open")
  /\ backend' = [backend EXCEPT ![s] = "open"]
  /\ pump' = [pump EXCEPT ![s] = [d \in Directions |-> "recv"]]
  /\ UNCHANGED <<next, table, gone, code, sent, taken, got>>

\* asyncio.wait returned because one pump is done: the other is cancelled, a
\* frame it had in hand is delivered or not, and both sockets are closed.
Supervise(s) ==
  /\ pc[s] = "open"
  /\ \E d \in Directions : pump[s][d] = "done"
  /\ pump' = [pump EXCEPT ![s] = [d \in Directions |-> "done"]]
  /\ \/ UNCHANGED got
     \/ \E d \in Directions :
          /\ pump[s][d] = "send" /\ ~DestinationLost(s, d)
          /\ got' = [got EXCEPT ![s][d] = Append(@, taken[s][d])]
  /\ CloseClient(s, 1000)
  /\ CloseBackend(s)
  /\ Goto(s, "release")
  /\ UNCHANGED <<next, table, gone, sent, taken>>

\* Mutant: the slot is given back only when the session ended well.
ReleaseAfterClose(s) ==
  /\ pc[s] = "release"
  /\ table' = IF gone[s] THEN table ELSE table \ {s}
  /\ Goto(s, "done")
  /\ UNCHANGED <<next, gone, code, backend, frames>>

\* The finally clause.  What the handler raised reaches the endpoint, which
\* cannot tell the client any more: its socket has been closed.
Release(s) ==
  /\ pc[s] = "release"
  /\ table' = table \ {s}
  /\ Goto(s, "done")
  /\ UNCHANGED <<next, gone, code, backend, frames>>

-----------------------------------------------------------------------------
(* _forward_messages: a loop of one receive and one send. *)

\* The loop breaks: the finally clause closes the destination, and the source
\* too when that is the socket to the service.
PumpEnds(s, d) ==
  /\ pump' = [pump EXCEPT ![s][d] = "done"]
  /\ CloseBackend(s)
  /\ IF d = Down THEN CloseClient(s, 1000) ELSE UNCHANGED code

PumpRecv(s, d) ==
  /\ pc[s] = "open" /\ pump[s][d] = "recv"
  /\ taken[s][d] < sent[s][d]
  /\ taken' = [taken EXCEPT ![s][d] = @ + 1]
  /\ pump' = [pump EXCEPT ![s][d] = "send"]
  /\ UNCHANGED <<pc, next, table, gone, code, backend, sent, got>>

PumpSend(s, d) ==
  /\ pc[s] = "open" /\ pump[s][d] = "send"
  /\ \/ /\ ~DestinationLost(s, d)
        /\ got' = [got EXCEPT ![s][d] = Append(@, taken[s][d])]
        /\ pump' = [pump EXCEPT ![s][d] = "recv"]
        /\ UNCHANGED <<code, backend>>
     \/ /\ DestinationLost(s, d)
        /\ PumpEnds(s, d) /\ UNCHANGED got
  /\ UNCHANGED <<pc, next, table, gone, sent, taken>>

\* The source is gone and everything it sent has been received.
PumpStops(s, d) ==
  /\ pc[s] = "open" /\ pump[s][d] = "recv"
  /\ SourceLost(s, d) /\ taken[s][d] = sent[s][d]
  /\ PumpEnds(s, d)
  /\ UNCHANGED <<pc, next, table, gone, sent, taken, got>>

\* Mutant: the loop goes on after a frame it could not forward.
PumpBreaksOn(s, d) ==
  /\ pc[s] = "open" /\ pump[s][d] = "recv"
  /\ taken[s][d] < sent[s][d]
  /\ taken' = [taken EXCEPT ![s][d] = @ + 1]
  /\ UNCHANGED <<pc, next, table, gone, code, backend, sent, pump, got>>

\* A frame the loop cannot forward (receive_text of a binary frame of the
\* client raises KeyError) is consumed and ends the loop.
PumpBreaks(s, d) ==
  /\ pc[s] = "open" /\ pump[s][d] = "recv"
  /\ taken[s][d] < sent[s][d]
  /\ taken' = [taken EXCEPT ![s][d] = @ + 1]
  /\ PumpEnds(s, d)
  /\ UNCHANGED <<pc, next, table, gone, sent, got>>

-----------------------------------------------------------------------------
(* The peers. *)

Send(s, d) ==
  /\ pc[s] = "open" /\ ~SourceLost(s, d)
  /\ sent[s][Up] + sent[s][Down] < MaxFrames
  /\ sent' = [sent EXCEPT ![s][d] = @ + 1]
  /\ UNCHANGED <<pc, next, table, gone, code, backend, taken, pump, got>>

ClientLeaves(s) ==
  /\ pc[s] \notin {"idle", "done"} /\ ~gone[s] /\ code[s] = 0
  /\ gone' = [gone EXCEPT ![s] = TRUE]
  /\ UNCHANGED <<pc, next, table, code, backend, frames>>

BackendLeaves(s) ==
  /\ backend[s] = "open"
  /\ CloseBackend(s)
  /\ UNCHANGED <<pc, next, table, gone, code, frames>>

-----------------------------------------------------------------------------
Handle(s) ==
  \/ Arrive(s) \/ VerifyAnswer(s) \/ AcceptClient(s) \/ Locate(s)
  \/ Enter(s) \/ Resolve(s) \/ Connect(s) \/ ConnectFailed(s)
  \/ Supervise(s) \/ Release(s)

Forward(s, d) == PumpRecv(s, d) \/ PumpSend(s, d) \/ PumpStops(s, d) \/ PumpBreaks(s, d)

Next ==
  \E s \in Sessions :
    \/ Handle(s)
    \/ \E d \in Directions : Forward(s, d) \/ Send(s, d)
    \/ ClientLeaves(s) \/ BackendLeaves(s)

Spec == Init /\ [][Next]_vars

\* Every await of the gateway returns: the auth call, the handshake and the
\* sends have timeouts, and the event loop runs every task that is ready.
\* Nothing is assumed of the peers.
FairSpec ==
  /\ Spec
  /\ \A s \in Sessions : WF_vars(Handle(s))
  /\ \A s \in Sessions, d \in Directions : WF_vars(Forward(s, d))

-----------------------------------------------------------------------------
TypeOK ==
  /\ pc \in [Sessions -> Uncounted \cup Counted]
  /\ next \in [Sessions -> 1..Candidates]
  /\ table \subseteq Sessions
  /\ gone \in [Sessions -> BOOLEAN]
  /\ code \in [Sessions -> {0, 1000, 1008, 1011}]
  /\ backend \in [Sessions -> {"none", "open", "closed"}]
  /\ sent \in [Sessions -> [Directions -> 0..MaxFrames]]
  /\ taken \in [Sessions -> [Directions -> 0..MaxFrames]]
  /\ pump \in [Sessions -> [Directions -> {"off", "recv", "send", "done"}]]
  /\ got \in [Sessions -> [Directions -> Seq(1..MaxFrames)]]

(* The table never holds more sessions than the limit, although a session   *)
(* enters it long before its connection opens and leaves it in a finally    *)
(* clause, several awaits after either socket has closed.                   *)
ConnectionsBounded == Cardinality(table) <= MaxConnections

(* A connection to the service is open only while its session counts        *)
(* against the limit: no error path and no order in which the two pumps end *)
(* leaves a socket to the service behind.                                   *)
BackendIsCounted == \A s \in Sessions : backend[s] = "open" => s \in table

(* A handler never returns with its client waiting on an open socket: the   *)
(* client has left, or one of the exits has sent it a close.                *)
ClientIsAnswered == \A s \in Sessions : pc[s] = "done" => gone[s] \/ code[s] # 0

(* What a destination has received is the frames of the source from the     *)
(* first on, in order and without a gap: a frame the pump could not forward *)
(* is the last one it took.                                                 *)
FramesInOrder ==
  \A s \in Sessions, d \in Directions :
    \A i \in 1..Len(got[s][d]) : got[s][d][i] = i

(* Once either end is gone, the session ends: both sockets are closed and   *)
(* its slot of the table comes back, whatever the other end does.           *)
LeavingEndsSession ==
  \A s \in Sessions :
    (gone[s] \/ backend[s] = "closed")
      ~> (pc[s] = "done" /\ s \notin table /\ backend[s] # "open")
=============================================================================
