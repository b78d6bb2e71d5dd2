# Formal models of the host-management backend

TLA+ modules, TLC runs and TLAPS proofs about the services of this repository:
FastAPI services behind a gateway that manage a pool of test hosts. A browser
plugin looks for a free host, opens a VNC session on it and reports test cases;
an agent on each host keeps a WebSocket to the backend and reports hardware, VNC
state, results and upgrades; administrators approve, disable and upgrade hosts.

`PROJECT.json` lists components, runs, mutants, the lines every definition
translates, hazards and theorems. Below, `HS` stands for
`src/services/host-service/app`, `GW` for `src/services/gateway-service/app` and
`AU` for `src/services/auth-service/app`.

## Inventory

| component | state | operations | interacts with | hard part | correct means |
|---|---|---|---|---|---|
| agent connection manager (`HS/services/agent_websocket_manager.py`, `HS/api/v1/endpoints/agent_websocket.py`) | dictionaries keyed by agent: connection, heartbeat time, warning time, disconnecting mark | connect, disconnect, send, message handlers, heartbeat checker | database, agents | coroutines of one agent interleave at every await; no dictionary knows which socket an entry belongs to | a connected agent is watched and reachable on an open socket of its own; a dead connection is dropped, one heard from is not |
| messages between instances (same file, `src/shared/common/cache.py`) | subscription, publications in Redis | send to host, broadcast, listen | other instances | publications reach their publisher; lost messages, a listener that dies | who stays hears each message once |
| host lease (`browser_vnc_service`, `browser_host_service`, `agent_report_service`, `admin_host_service`, `HS/tasks/case_timeout_task.py`) | `host_state`, `appr_state`, `tcp_state`, `subm_time` of `host_rec`; live rows of `host_exec_log` | VNC report and information, release, agent and OTA reports, administration, timeout cleanup | all of them write one row | a session reads, decides and commits; others commit in between | a lock always has a time and an end; one live log per user |
| hardware report and approval (`agent_report_service.report_hardware`, `admin_appr_host_service`, `admin_appr_utils`) | rows of `host_hw_rec`, `hw_id`, `hardware_id`, a Redis lock | report, manual enable, change approval | external hardware API, Redis | an external call between read and write; a lock that expires; partial failure of a batch | a changed host has something to approve; pointers name approved records and own entries |
| OTA (`admin_ota_service`, `report_ota_update_status`, `get_latest_ota_configs`) | `host_upd`, `sys_conf`, a Redis key, a message handler | deploy, confirm, report, query | agents | overlapping reports; a cache filled from an old read | a report supersedes older rows; a deployment is seen |
| case timeout mail (`case_timeout_task`, `email_sender`) | `notify_state` of a log | scan, mail, mark | mail server | mail sent before the mark is saved; a task on every instance | everybody overdue is told, nobody twice without need |
| host discovery and its circuit breaker (`host_discovery_service`, `HS/utils/circuit_breaker.py`) | cursor, page counters; breaker state, failure times | query page by page; before a call, on success, on failure | external API | pages and hosts change while read; overlapping callers, late results | no host twice, none missed without need; the breaker opens exactly on its rules and recovers |
| external API client (`external_api_client`, `src/shared/common/http_client.py`) | token cache | get token, call | external API | login outside the lock; errors turned into answers | part of `HostDiscovery` |
| auth service (`AU/services/auth_service.py`, `src/shared/common/security.py`) | Redis keys that take tokens back, rows of devices | login, refresh, logout, introspect | gateway, host service | lifetimes computed before an await and rounded apart | a token taken back is refused while it lives |
| gateway HTTP path (`GW/middleware/auth_middleware.py`, `GW/api/v1/endpoints/proxy.py`, `GW/services/proxy_service.py`) | none between requests | authenticate, check the mark of a deleted host, locate, forward | auth service, Redis, services | the introspection knows nothing of deleted hosts | a deleted host stays out |
| gateway WebSocket proxy (same files, `src/shared/common/websocket_auth.py`) | table of sessions, two pumps each | verify, connect, pump, close | clients, services | either end leaves at any await | bounded, ordered, everybody answered |
| service discovery (`src/shared/utils/service_discovery.py`, `src/shared/config/nacos_config.py`, `src/shared/app/service_factory.py`, error path of the gateway) | Nacos's list, the gateway's copy and its index | register, heartbeat, choose, forward, time out | Nacos, services | stale lists; a timeout of a request that is still handled | dead instances are forgotten, live ones served, answers true |

Without a model: request parsing and wording, administration queries, mail
text, file serving, monitoring, logging, configuration and scripts; see "Not
modelled".

## Modules

| module | what it is | composed with |
|---|---|---|
| `AgentRegistry` | what the connection manager promises of its registry | implemented by `AgentWs` (`ImplementsRegistry`) |
| `AgentWs`, `AgentWsProofs` | the connection manager on one event loop | |
| `InstanceBus`, `InstanceBusProofs` | messages between instances of the host service | uses of `AgentWs` only its registration |
| `UseLedger` | what the execution logs of a host promise its users | implemented by `HostLease` (`ImplementsLedger`) |
| `HostLease`, `HostLeaseProofs` | one `host_rec` row, its logs and everybody who writes them | |
| `CaseTimeout` | the mail task on several instances | proofs in `HostLeaseProofs`, beside those about the same rows |
| `HardwareApproval`, `HardwareApprovalProofs` | reports, batches of approvals, the external service and the lock around a creation | |
| `OtaUpdate`, `OtaUpdateProofs` | deployments, their cached configuration, and upgrades of one agent | its effect on the host is in `HostLease` |
| `CircuitBreaker` | the breaker with overlapping callers | extended by `HostDiscovery` |
| `HostDiscovery`, `HostDiscoveryProofs` | a query for free hosts behind the breaker | `DiscoverySpec` implies the breaker's `Spec` |
| `AuthTokens` | the life of a token and of the keys that take it back | extended by `GatewayHttp` |
| `GatewayHttp`, `GatewayHttpProofs` | a request through the gateway beside the auth service | |
| `GatewayWs`, `GatewayWsProofs` | sessions of the WebSocket proxy | |
| `ServiceDirectory` | instances, Nacos, the gateway's list and a forwarded request | proofs in `GatewayHttpProofs`, beside those of the request's way to it |

Each has an `MC*` module with its constants and one `.cfg` per run. Where one
module of proofs extends two specifications, one of them has names of its own
(`MailSpec` and `MailTypeOK` of `CaseTimeout`, `GatewaySpec` of `GatewayHttp`).
A definition `X` that a mutant changes is preceded by the mutated form.

Asyncio runs one coroutine at a time and switches only at an `await`, so
everywhere an action goes from one await to the next, or where only the
database matters, from the read of a transaction to its commit. Clocks are ages
that stop one past the limit they are compared with, which keeps every
comparison exact.

### AgentWs

`pc[t]` names the await at which task `t` stands. A `Socket` task is the
endpoint coroutine of one WebSocket (connect, then the receive loop with its
handlers inline); an `Agent` task is the child coroutine the heartbeat checker
gathers for that agent. `disconnect` runs inside its caller, so `after[t]`
remembers where the caller resumes, and `peer[t]` is the local variable
`websocket` of a pending send.

| state | code |
|---|---|
| `active`, `heartbeat`, `warning`, `disconnecting` | `active_connections`, `heartbeat_timestamps`, `_heartbeat_warning_sent`, `_disconnecting` |
| `link` | what server and peer did to the transport |
| `tcp`, `host` | `host_rec.tcp_state`, `host_rec.host_state` (free, busy, offline) |

A database call succeeds: the code swallows its failures and goes on. A restart
is an initial state: the manager keeps nothing, and `tcp` is whatever an earlier
run left. `_disconnect_locks` is never contended, because the mark is tested
before the lock is taken, and is left out. A message for an agent that is not
connected here goes to `InstanceBus`. Sockets are recycled when nothing refers
to them, so the bound is on sockets alive at a time. A message still buffered
after the server has closed the socket is not read. A message that is no JSON
object ends the receive loop of an open socket (`RecvMalformed`), and when the
endpoint has returned the transport is `ended`: nothing is sent on it any more,
though its object knows of no disconnect. The agent of a socket is
the id its token names: the endpoint decodes the token and does not introspect
it, and sockets without a token share the agent "unknown".

`AgentRegistry` says what a caller of the manager may rely on: a connection
enters the registry once, under its own agent, or is refused; once it has left
it never comes back. `AgentWs` implements it with `active` as its registry.

### HostLease

One host, because handlers touch hosts one by one. A handler whose UPDATE
repeats its condition is one action; one that decides on what it read is two,
with `open[request]` holding what it read. Two effects of the session matter: an
attribute assigned the value that was loaded is not written (`Changed`, with
`writes`), and an UPDATE without a condition writes over whatever was committed
since. `logs` are the live rows, each with its auto-increment id, and `written`
is the last id given: `notify_agent_offline` looks at deleted rows too, so it
finds the last log ever written, live or not (`LastUnfinished`). `check` is the timeout task, which goes through the hosts one by one.

A user stands for a user with one test case of one cycle. The age of
`subm_time` has the two limits the task compares it with. States 3 and 8 are
written to `host_rec` nowhere, 5 only before a host is known here. A log deleted
between the two statements of a case report is updated without effect, so the
report is one action. `host_state` of a log is a copy no decision reads, and is
left out. `reset_host_for_test` is an endpoint for tests; the constant
`TestReset` says whether anybody calls it.

`UseLedger` says what a user may rely on, however handlers overlap: a report
puts a log of his in the place of at most one that is his, his logs end when he
releases the host or everybody's do, and no log that has ended comes back.
`HostLease` implements it with the live logs, seen as number and user. One live
log per user is not promised: two overlapping reports leave two.

### HardwareApproval

`approve_hosts` is a process: `ApprovalReads` (hosts and records in one
snapshot, hence the plan for each host), then per host one of the steps of
`HostStep`, then `ApprovalCommits` for the batch. `call` is the host whose
external call is awaited; other approvals, reports and the expiry of the lock
come in between. A failing call may have had its effect. A `BusinessError`,
which every failing call becomes, ends a batch of changes, whose earlier calls
are not undone, and leaves the host out of a manual batch (`Failed`). A host
that is gone, or that meets any other exception, is left out of either
(`HostLeftOut`).

| state | code |
|---|---|
| `state`, `hw_id`, `hardware_id` | columns of `host_rec` |
| `recs` | `sync_state` of the rows of `host_hw_rec`, oldest first |
| `external` | entries of the hardware service, with the host they were created for |
| `lock` | `hardware_create_lock:{host_id}`, with the call whose value it has |
| `approval` | local variables of `approve_hosts` |

What a comparison of configurations finds is an input: a report finds no
difference, a difference, or, when its read of the latest record fails, a first
report. A lock left behind by a call that is over can only refuse, and refusals
are always possible because Redis may fail; it is not kept.

### OtaUpdate

The rows of one agent and one application are numbered in the order of their
insertion. A report is a SELECT and a later write; the first UPDATE of its
transaction sees what others have committed. `conf` is the version in
`sys_conf`, `cache` the key `ota_configs:latest`, `query[q]` what a query has
read and not cached yet, `deploying` the instances between the commit of a
deployment and its broadcast. The handler of confirmations exists only on
instances that have deployed since they started (`callback`). That agents hear
the broadcast is `InstanceBus`; here an agent confirms and reports what it likes.

### CaseTimeout

A round queries the overdue logs, oldest first, at most `Limit`, and deals with
one after the other: read the host, send the mail, mark the log. The service may
stop anywhere. A mail counts as failed also when it went out and only its
answer or the goodbye to the mail server was lost (`MailTakenForFailed`).
`told` counts the mails an instance sent about a log, `lost` those of them that
no mark followed: taken for failed, mark not committed, stopped in between.
Nothing in the code depends on either. Logs without a host are never marked, so
they have to be fewer than the LIMIT of the query (`LimitAssumption`): with as
many, no other log would ever be found. The limit and the recipients are rows
of `sys_conf`; a limit cached for an hour counts as configured.

### InstanceBus

Agents do not interact, so one is followed. `reg` is the connection each
instance has registered, `inbox` what Redis has for a listener, `job` what the
coroutine of a sender or a listener has in hand. A RedisManager connects once at
startup (`client`); without it an instance neither publishes nor listens, and a
listener that met an exception is gone for good (`ear`). `lossy` and `moved`
note what excuses a missing or repeated copy.

### HostDiscovery and CircuitBreaker

Each section of the breaker runs under a lock without an await inside, hence is
one action; calls overlap. `call[c]` remembers the state in which a running call
was admitted, `streak` counts failures in a row; neither influences the breaker.
`HostDiscovery` follows one query in full, and the other callers only through
the breaker. A query filters all its pages in one transaction, so it sees
`host_rec` as its first SELECT did (`snap`).

### AuthTokens and GatewayHttp

Every Redis key belongs to one token or one row, so one token is followed,
whichever (`tok` is chosen initially). The clock counts half seconds, because a
key expires at fractions of a second and a token at whole ones. A refresh and a
deletion are two steps, with what was computed before the await in `call`.
`GatewayHttp` adds requests that carry the token: introspection, the mark of a
deleted host, the address, the forwarded call.

### GatewayWs

A handler verifies the token at one auth address after the other, connects to
the service, runs two pumps and closes. A pump holds at most one frame between
its receive and its send. The limit of sessions is tested and the table entered
without an await in between; it is left in `release`, after the pumps.

### ServiceDirectory

One service, because every table is keyed by its name. An instance starts,
registers, accepts requests, beats and stops; Nacos lists who it has heard of
within `BeatTimeout` (`quiet`); the gateway keeps a list for `CacheTtl` and an
index. `wire` and `answer` follow a request to the instance and back through the
HTTP client and the exception middleware. Nacos's client is synchronous: looking
an instance up and sending to it is one step.

`GetServiceUrl` is shared: a forwarded request, a WebSocket connection and the
check of its token (at the auth service) each take a turn of the one index
(`LocateSocket` for the latter two). A connection then looks for the instance of
its session under the short name, which is registered nowhere, so that its turn
is spent and it goes to the default address. `TurnsAreTaken` therefore speaks of
every lookup, and `ListedIsServed` promises requests their share only where
connections do not go on taking it. `turn` notes who was looked up in this round
of a list; the code does not keep it. The client follows redirects; the one a
service gives is the framework's, about the last slash of a path, which comes
before any handler and is part of the time a request is on the wire.

## Runs

| run | what it checks | bounds |
|---|---|---|
| `agent_ws` | `NoUnwatchedConnection`, `OneDisconnect`, `HeardIsKept`, `LostIsDropped`, `ImplementsRegistry` | 1 agent, 2 sockets alive at once: every pair of coroutines that meet in one entry |
| `agent_ws_limit` | `RegisteredIsOpen` with rejections and several agents in the checker, a host others write to | 2 agents, 1 socket each, limit 1 |
| `host_lease` | `LockedIsTimed`, `ImplementsLedger` | 2 users, 2 overlapping requests beside the task, the administrator and the agent, 2 logs ever written; the reset for tests is not called |
| `host_lease_serial` | `OneLiveLog`, `ExpiredLockIsFreed` | 2 users, requests one at a time, 4 logs ever written |
| `hardware_approval` | `ChangeIsPending`, `PointsToApproved`, `PointsToOwnEntry`, `CreatorHoldsLock` | 2 approvals, batches of up to 2 hosts, 2 records per host, 2 external entries |
| `ota_update` | `ReportSupersedes`, `DeploymentIsSeen` | 2 versions, 2 reports, 1 query, 2 rows |
| `case_timeout` | type, `MarkedIsTold`, `EachTellsOnce`, `OverdueIsTold` | 2 instances, 2 logs of which the older has no host, 2 mails and 1 mail without a mark each |
| `instance_bus` | `UnicastOnce`, `ExactlyOnce`, `Settles` | 2 instances, a broadcast and a unicast, 2 connections |
| `host_discovery` | `ClosedIsTolerable`, `OpensOnStreak`, `OpenRecovers`, `ListedOnce`, `ShortAnswerIsComplete` | 3 hosts, lists of up to 5 entries in pages of 2, 2 pages without progress, threshold 2 |
| `gateway_http` | `ReuseIsRefused`, `LogoutIsFinal`, `DeletedHostStaysOut` | 2 coroutines, 1 request, tokens of 1 and 3 seconds, 4 seconds |
| `gateway_ws` | `ConnectionsBounded`, `BackendIsCounted`, `ClientIsAnswered`, `FramesInOrder`, `LeavingEndsSession` | 2 sessions for one slot, 2 auth addresses, 2 frames |
| `service_directory` | `AnswerTells`, `DeadIsForgotten`, `TurnsAreTaken`, `ListedIsServed` | 2 instances, 1 request at a time, list kept 1 tick, silence allowed 2 |

All pass and exhaust their state spaces. The bounds are as small as the cases
allow: two coroutines make every race found, three lists with repeated and
malformed entries make the loop of the discovery end in each of its ways, two
hosts make a batch in which one creation succeeds and the other fails, and a
token that lives one second crosses every rounding. In `ota_update` two rows
suffice for a row and its successor; more are covered by the theorem. A silence
of two ticks leaves an instance time to beat, without which the premise of
`ListedIsServed` could not hold.

Deadlock is checked where the system never stops. It is off where a bound ends
it: no more connections, rows, frames, mails or time.
Symmetry is used for interchangeable users, calls, requests, hosts and approvals, and
only in runs without liveness.

The type invariant is checked where it says something the code could break
(`case_timeout`: a round keeps no empty list). The others are proved, and no run
repeats them.

### Fairness

- `AgentWs`: weak, for every coroutine (the loop runs what is ready, database
  calls end, a send returns or raises), the checker's scan and time; none for
  what agents or other services do.
- `HostLease`: the timeout task runs again and again and time passes; no request
  is owed.
- `OtaUpdate`: Redis expires the key and a query that has read ends. Nobody owes
  a deployment, not even its second half.
- `CaseTimeout`: weak for the task while it is on. Strong for a round that finds
  something and for the mail about a log it has reached: a query, a mail or a
  commit that is tried again and again succeeds at some time. `MaxLost` bounds
  the mails that no mark follows.
- `InstanceBus`: coroutines go on and listeners listen; nobody owes a message, a
  connection or a living listener.
- `HostDiscovery`: calls end because the HTTP client has a timeout, time passes,
  and someone keeps querying; without callers an open circuit stays open, as the
  code only recovers in `_before_call`.
- `GatewayWs`: handlers and pumps go on; no client or service owes anything.
- `ServiceDirectory`: time passes, clients keep coming and what is under way
  ends, because the client has a timeout; nobody owes a heartbeat or a start.

## Proofs

Each theorem holds for every value of the constants that satisfies the named
assumptions in the module. "Inductive with" names the strengthening.

| theorem | argument |
|---|---|
| `AgentWsProofs!TypeCorrect` | one lemma per group of actions; what a task resumes to determines its steps (`ResumptionOf`) |
| `AgentWsProofs!DisconnectIsExclusive` | inductive with the type: the mark is the set of agents with a task in disconnect |
| `AgentWsProofs!EveryConnectionIsWatched`, `RegisteredSocketIsOpen` | inductive with `Registration`: a registered socket is accepted and not closed, and a socket whose connect waits for a disconnect is open and not registered. Without the second part the resumption of connect could register a closed socket |
| `AgentWsProofs!HeardConnectionIsKept` | from the type: a fresh timestamp sends the recheck of the checker back (`SecondLook`), and nobody else moves the checker's coroutine |
| `AgentWsProofs!ManagerImplementsRegistry` | step by step: with `WaitsToReturn` (a socket inside a disconnect goes back to its endpoint) and the type, each action is a step of `AgentRegistry` or leaves `active` and `HadTurn` alone |
| `HostLeaseProofs!LockedHostIsTimed` | inductive with `OpenDecisions`: a transaction that decided on a state decided on something else than LOCKED, so only writes that also set `subm_time` lock. Assumes that nobody calls the reset for tests |
| `HostLeaseProofs!TypeCorrect` | inductive alone, in three parts (host, logs, open transactions); every transaction opened is `Sensible` |
| `HostLeaseProofs!OneLogWhenAlone` | assumes one request, that is, that handlers do not overlap each other; inductive with "a report that is open knows the one live log of its user". Nothing is assumed of the tasks, the administrator and the agent, which come in between. With two requests it is false: two reports leave two logs |
| `HostLeaseProofs!MailTypeCorrect`, `NoMarkWithoutMail`, `NoMailTwice` | inductive with `MailsAreSettled`: a log that an instance still has before it, or may find again, has every mail of that instance matched by one that was taken for failed or whose mark was lost. Nothing is assumed of other instances, and nothing said of them together |
| `HostLeaseProofs!LogsAreLedger` | step by step, inductive with `LedgerInv`: a number names one log, and the log an open report will replace is of the report's own user, or gone. Auto-increment makes the first true, the user in the SELECT of the report the second |
| `InstanceBusProofs!BusTypeCorrect`, `DeliveredOnce` | inductive with `Tracked`, which follows the copies of one message while the agent stays: elsewhere than at the sender, a copy is in the inbox, in the listener's hand, written, or lost, and never in two places; the sender's own connection is served before the message is published; and with `Distinct`: two instances never hold one connection |
| `InstanceBusProofs!NeverDoubled` | inductive with `UnicastInv`: whoever still has a copy of a unicast, sender or listener, has nothing more to do with a connection that has had it, and no two instances write to one connection. Unlike `DeliveredOnce` it speaks of every connection, of agents that move and of those that leave |
| `HostDiscoveryProofs!TypeCorrect`, `OpensWhenDue`, `OpensOnlyOnStreak` | inductive with `FailuresAreStreak`: no failure from before the streak is in the deque |
| `HostDiscoveryProofs!DiscoveryUsesBreaker` | every step of the discovery is a step of the breaker or leaves it alone, so the three theorems above hold of the composition |
| `HostDiscoveryProofs!AnswersAreConsistent`, `LoopIsThorough` | inductive with `AnswerInv`: `seen` is what the pages passed so far hold, `found` is without repetition and covers, after the cursor, the free hosts among them, and no more pages were stuck than passed |
| `HardwareApprovalProofs!TypeCorrect`, `ChangesArePending`, `PointerIsApproved`, `PointerIsOwn`, `LockIsHeld` | inductive with `PlansFit`: what an approval has read or was answered stays true until it commits, because records and entries are only added, and a plan rejects records only when it approves one; and with `LockFits` |
| `OtaUpdateProofs!OtaTypes`, `ReportsSupersede`, `NothingComesBack` | inductive together with the type: an insertion deletes all rows in the step that adds one, an update revives none. `DeletedStaysDeleted` is not among the runs: the proof covers it |
| `GatewayWsProofs!WsTypes`, `WsLimit`, `WsBackendIsCounted`, `WsClientIsAnswered`, `WsFramesInOrder` | inductive with `TableIsCounted` (the table is the set of handlers between entry and release, so its cardinality is bounded) and `PumpsInStep` (how far a pump is tells what it has received and delivered) |
| `GatewayHttpProofs!TokenTypes`, `UsedIsRefused`, `LoggedOutIsRefused`, `DeletedIsRefused` | inductive with one clause per key: set for long enough, and for a refresh also while its lifetime is computed and not yet set (`PendingCovers`). The clauses relate half seconds and rounded seconds |
| `GatewayHttpProofs!DirectoryTypes`, `AnswersAreTrue`, `ChosenWasAlive` | inductive with `ListIsRecent` (nobody on a list was silent longer than the list is old, plus Nacos's timeout) and `Counted` (a request is on its way or was handled, never both) |
| `GatewayHttpProofs!TurnsAreFair` | inductive with `RoundInv`: everyone who had a turn on the list lies fewer places behind the index than there were turns, so that the next place is nobody's who had one (`LookupRound`, for requests and WebSockets alike). For round robin, the strategy that is configured |

Every invariant and every action property of the runs is proved. Model-checked
and not proved is liveness (fairness and ENABLED are out of the prover's reach):
`LostIsDropped`, `ExpiredLockIsFreed`, `OpenRecovers`, `LeavingEndsSession`,
`OverdueIsTold`, `Settles`, `DeploymentIsSeen`, `ListedIsServed`.

Three attempts that failed corrected the models. The proof of `LoopIsThorough`
showed that `Readable` was too weak: a page that only repeats earlier ones ends
the loop like a malformed one, so every page needs an entry no page before has.
`OneLogWhenAlone` needed logs with the ids the database gives them, where the
model had a sequence. `DeliveredOnce` needs that no message is both a broadcast
and a unicast, which `DistinctAssumption` now says.

## What the code does not keep

The models reach states that a reader of the code or its documents would not
expect. No run states their opposite; the hazards without a property in
`PROJECT.json` are among them.

Connection manager. A heartbeat while a warning is being sent leaves `tcp_state`
1 beside a healthy connection (`agent_websocket_manager.py:1128`). The end of an
old connection closes its successor (`agent_websocket.py:142` disconnects by
agent id). The limit is tested before an await (181), `disconnect` reads and
overwrites `host_state` in two transactions (432), and `tcp_state` follows the
order of awaits, not of connections (415). Nothing resets `tcp_state` after a
restart. `host_offline_notification` writes `tcp_state` for the host its message
names, not for the connection's agent.

Instances. The fallback of `send_to_host` lets an agent that has moved hear a
broadcast twice. `publish` counts as delivered without a receiver. Redis absent
at startup, or one exception, ends a listener until the next restart.

Host row. The timeout cleanup deletes the logs and frees the host of a lock that
is not over time any more: it was selected before a notification was awaited
(`case_timeout_task.py:598`). Two overlapping VNC reports of a user leave two
live logs, and he is refused from then on (`browser_vnc_service.py:214`). A VNC
report that loaded state 1 leaves a host free that was released meanwhile, and
locks a disabled host (292). `vnc_state` 2 frees locked hosts, and an OTA
success frees a host below state 5 from under its user. A report status such as
"SUCCESS" notifies the agent without a log being written (212 and 361 compare
differently). `connection_result` answers the newest pending log, whichever it
was for. The reset for tests leaves a host locked without a time
(`browser_host_service.py:996`).

Approval. Two approvals create an entry each for one host: the lock ends with
the call and not with the commit that saves the id (`admin_appr_utils.py:285`;
`docs/dev-doc.md:2859`). A commit frees a host whose newer waiting record it has
not read (`admin_appr_host_service.py:704`). After overlapping approvals `hw_id`
may name the older of two approved records. A failed read makes a changed
machine's report a first one. An exception while the mail after the commit is
made reports a failure of what was done.

OTA. A query that read `sys_conf` before a deployment caches the old version
after the deployment has deleted the key, for up to five minutes, although the
comment at `admin_ota_service.py:232` says the next query gets the latest;
`DeploymentIsSeen` is what remains true. A confirmation that reaches an instance
that has not deployed since its start is answered as an unknown message. A
confirmation deletes no other row, so that two may be valid. Two deployments may broadcast in
the opposite order of their commits.

Mail. A mail that went out is sent again when only `quit` or the answer failed
(`email_sender.py:95`, 127), when the mark was not committed, and by every
instance that had found the log before it was marked, although the docstring at
`case_timeout_task.py:834` says the same record is not notified repeatedly;
`EachTellsOnce` is what remains true. `set_maintain_email` and the task use the key "email", the notification
about changed hardware reads "maintain_email" (`agent_report_service.py:1855`),
which nothing writes. A disabled row stays disabled when addresses are set. The
mail is sent by blocking calls inside the event loop. Without a limit in
`sys_conf` logs with a `due_time` are not served either.

Discovery. `has_next` is never true (`host_discovery_service.py:412`). The
cursor compares ids although the order is the external one, and every query
starts at the first page and gives up after five without progress. A page of
malformed entries ends the loop. A backend that cannot be reached is answered as
a status, which the breaker counts as a success once a token is cached, while a
user without an email counts as a failure for all. The lock of the token cache
ends before the login it should make unique (`external_api_client.py:253`), and
a 401 does not invalidate the token. The docstring of `http_client.request`
promises a retry and an exception; there is neither.

Tokens. A refresh in the second its token was made in answers the identical
token, which is then on the blacklist; overlapping refreshes both succeed; a
refresh does not look at deletions; the introspection takes refresh tokens; a
logout in a token's last second stores nothing. Redis errors are swallowed, so
every check is void while Redis is away. The gateway looks at the mark of a
deleted host for HTTP requests only, not where it checks the token of a
WebSocket: `DeletedHostStaysOut` is about the former. `auto_refresh_tokens`
without `auto_renew` hands back the refresh token it has just put on the
blacklist (`auth_service.py:412`). Overlapping first logins leave two rows
of one device, and later ones fail (`AuthTokens!OneRowPerDevice` with
`MaxRow` 2).

Service discovery. `_build_error_body` (`exception_middleware.py:60`) passes
`details` twice for an error with a key and details, so such errors become a
plain 500. The branches of `forward_request` for exceptions of the HTTP client
cannot be reached. WebSocket connections that alternate with requests take the
turns of one instance each time (`proxy.py:289`), so that no request reaches it;
their own lookup by session uses the short name (276), which neither Nacos nor
the environment knows, and ends at the default address
(`service_discovery.py:259`). An unknown service leads to 127.0.0.1:8000. A service
registers once, before it accepts requests, does not beat if that failed, and
never deregisters. `refresh_cache` and `clear_cache` clear a cache nothing
fills. `health_check_service` lacks an await and is always "unhealthy"
(`proxy_service.py:1387`), `list_services` reads an attribute that does not
exist (`proxy.py:705`).

## Plan

Done: the core (`AgentWs`, `HostLease`, `HardwareApproval`, `CircuitBreaker`),
then the gateway and auth service, the instances and their bus, OTA, mail,
discovery of hosts and of services. What is left, in order:

1. A bound on how often an agent that moves hears a broadcast, and theorems
   about the hazards that no run has a property for.
2. `HardwareApproval` with `delete_host` and its external call outside the
   transaction.
3. `ServiceDirectory` with several services, and names nobody knows.

## Not modelled

- Request parsing, response wording, schemas, i18n, the text of mails, file
  upload and download, administration lists and details: no state of a protocol.
- The comparison of hardware configurations (`json_comparator`) and AES: pure
  functions whose result is an input of the models.
- Monitoring, logging, metrics, configuration and scripts.
- What nothing that runs imports: `agent_ws_*`, `agent_report_case_service`,
  `agent_report_vnc_ota_service`, `timeout_detector_utils`, `host_query_utils`,
  and in the gateway `websocket_connection_pool`, `websocket_features`,
  `proxy_websocket_service`, `websocket_auth_middleware`, `load_balancer`.
- `available_hosts:first_page:*` is a cache that is cleared and never filled.
- Nacos losing all its instances at once; only whether it can be reached.
