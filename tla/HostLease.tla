------------------------------- MODULE HostLease -------------------------------
(***************************************************************************)
(* One row of host_rec, and the execution logs of that host: who may use   *)
(* the host, as the browser plugin, the agent, the administrator and the   *)
(* timeout task change it.                                                 *)
(*                                                                         *)
(* A handler opens a database session, reads, decides and commits.  Other  *)
(* handlers commit in between, so a handler that decides on what it read   *)
(* is two actions, the read and the commit, with the values it read kept   *)
(* in open[request].  A handler whose UPDATE repeats its condition in the  *)
(* WHERE clause decides at the commit and is one action.                   *)
(***************************************************************************)
EXTENDS Naturals, FiniteSets

CONSTANTS
    User,       \* one user of the plugin, with one test case of one cycle
    Request,    \* handlers that are between their read and their commit
    None,
    MaxLogs,    \* bound: execution logs ever written for the host
    TestReset   \* whether the endpoint that resets a host for tests is called

ASSUME UserAssumption == None \notin User
ASSUME LogAssumption == MaxLogs \in Nat
ASSUME ResetAssumption == TestReset \in BOOLEAN

FREE == 0
LOCKED == 1
OCCUPIED == 2
OFFLINE == 4
HW_CHANGE == 6
DISABLED == 7
HostState == {FREE, LOCKED, OCCUPIED, OFFLINE, HW_CHANGE, DISABLED}

CASE_START == 1
CASE_SUCCESS == 2
CaseState == 0 .. 3

VARIABLES
    host_state,     \* host_rec.host_state
    appr_state,     \* host_rec.appr_state: 0 disabled, 1 enabled, 2 changed
    tcp_state,      \* host_rec.tcp_state: 0 closed, 2 listening
    subm,           \* age of subm_time: none, fresh, expired (> 5 min), forced (>= 6 min)
    logs,           \* live host_exec_log rows of the host
    written,        \* logs written so far: host_exec_log.id counts them
    open,           \* the open transaction of each request
    check           \* the timeout task: idle, or what it decided on the host

host == <<host_state, appr_state, tcp_state, subm>>
execLog == <<logs, written>>
vars == <<host, execLog, open, check>>

LogId == 1 .. MaxLogs
Log == [id : LogId, user : User, case : CaseState]

Locking == {"report", "report_failed", "info"}
Deciding == {"agent_offline", "vnc_state", "ota_success", "ws_host"}

\* state is the host_state the transaction decided to write, writes are the
\* columns the session will write, log is the old log a report replaces.
Column == {"host_state", "appr_state", "subm_time"}
Transaction == [op : Locking \cup Deciding \cup {"idle", "reset"}, user : User \cup {None},
                state : HostState, writes : SUBSET Column, log : 0 .. MaxLogs]

Idle == [op |-> "idle", user |-> None, state |-> FREE, writes |-> {}, log |-> 0]

TypeOK ==
    /\ host_state \in HostState
    /\ appr_state \in 0 .. 2
    /\ tcp_state \in {0, 2}
    /\ subm \in {"none", "fresh", "expired", "forced"}
    /\ logs \subseteq Log
    /\ written \in 0 .. MaxLogs
    /\ \A l \in logs : l.id <= written
    /\ open \in [Request -> Transaction]
    /\ \A r \in Request : open[r].op \in Deciding => open[r].state # LOCKED
    /\ \A r \in Request : open[r].op \in Locking => open[r].user \in User
    /\ check \in {"idle", "expired", "forced"}

\* An approved host that nobody uses and whose agent is not connected.
Init ==
    /\ host_state = FREE /\ appr_state = 1 /\ tcp_state = 0 /\ subm = "none"
    /\ logs = {} /\ written = 0
    /\ open = [r \in Request |-> Idle]
    /\ check = "idle"

--------------------------------------------------------------------------------
(* Helpers.                                                                *)

Open(r, op, user, state, writes, log) ==
    /\ open[r] = Idle
    /\ open' = [open EXCEPT ![r] = [op |-> op, user |-> user, state |-> state,
                                   writes |-> writes, log |-> log]]

\* A handler's read, when it changes nothing itself.
Begin(r, op, user, state, writes, log) ==
    /\ Open(r, op, user, state, writes, log)
    /\ UNCHANGED <<host, execLog, check>>

Commit(r) == open' = [open EXCEPT ![r] = Idle]

LogsOf(u) == {l \in logs : l.user = u}

\* The first row of a query that orders live rows by created_time, descending.
Latest(rows) == {l \in rows : \A k \in rows : k.id <= l.id}

NewLog(u) == [id |-> written + 1, user |-> u, case |-> 0]

\* The session writes an attribute only when the value assigned to it differs
\* from the one it loaded.
Changed(column, loaded, assigned) == IF loaded = assigned THEN {} ELSE {column}

Written(r, column, assigned, current) ==
    IF column \in open[r].writes THEN assigned ELSE current

\* A transaction that will assign LOCKED to the host it has just loaded.
BeginLock(r, op, user, log) ==
    Begin(r, op, user, LOCKED, Changed("host_state", host_state, LOCKED), log)

\* host_rec.host_state = 1; host_rec.subm_time = now, which always differs.
Locks(r) ==
    /\ host_state' = Written(r, "host_state", LOCKED, host_state)
    /\ subm' = "fresh"

--------------------------------------------------------------------------------
(* The browser plugin: browser_vnc_service and release_hosts.              *)

\* Mutant: the old log is looked up without its user.
VncReportReadsAny(r, u) ==
    \E old \in IF logs = {} THEN {0} ELSE {l.id : l \in logs} : BeginLock(r, "report", u, old)

\* report_vnc_connection(success) up to its writes.  More than one live log
\* of the user is an error.  No host_state is refused.
VncReportReads(r, u) ==
    /\ Cardinality(LogsOf(u)) <= 1
    /\ \E old \in IF LogsOf(u) = {} THEN {0} ELSE {l.id : l \in LogsOf(u)} :
        BeginLock(r, "report", u, old)

\* Mutant: the old log is not deleted.
VncReportKeepsOld(r) ==
    /\ open[r].op = "report"
    /\ written < MaxLogs /\ written' = written + 1
    /\ logs' = logs \cup {NewLog(open[r].user)}
    /\ Locks(r)
    /\ Commit(r)
    /\ UNCHANGED <<appr_state, tcp_state, check>>

\* The old log is deleted, the new one inserted, the host locked.
VncReportCommits(r) ==
    /\ open[r].op = "report"
    /\ written < MaxLogs /\ written' = written + 1
    /\ logs' = {l \in logs : l.id # open[r].log} \cup {NewLog(open[r].user)}
    /\ Locks(r)
    /\ Commit(r)
    /\ UNCHANGED <<appr_state, tcp_state, check>>

\* The same report with another connection_status than "success" writes no
\* log, and still locks the host.
VncFailureReads(r, u) == BeginLock(r, "report_failed", u, 0)

\* get_vnc_connection_info: enabled, in a business state, and when occupied,
\* by the user of the latest live log.
VncInfoReads(r, u) ==
    /\ appr_state = 1
    /\ host_state < OFFLINE
    /\ host_state = OCCUPIED => \E l \in Latest(logs) : l.user = u
    /\ BeginLock(r, "info", u, 0)

LockCommits(r) ==
    /\ open[r].op \in {"report_failed", "info"}
    /\ Locks(r)
    /\ Commit(r)
    /\ UNCHANGED <<appr_state, tcp_state, execLog, check>>

\* release_hosts, one transaction: the host is freed whoever uses it, the
\* logs deleted are the caller's.
Release(u) ==
    /\ host_state' = IF host_state < 5 THEN FREE ELSE host_state
    /\ logs' = logs \ LogsOf(u)
    /\ UNCHANGED <<appr_state, tcp_state, subm, written, open, check>>

\* reset_host_for_test: free, enabled, no time, no live logs.
ResetReads(r) ==
    /\ TestReset
    /\ Begin(r, "reset", None, FREE,
             Changed("host_state", host_state, FREE) \cup Changed("appr_state", appr_state, 1)
                 \cup Changed("subm_time", subm, "none"), 0)

ResetCommits(r) ==
    /\ open[r].op = "reset"
    /\ host_state' = Written(r, "host_state", FREE, host_state)
    /\ appr_state' = Written(r, "appr_state", 1, appr_state)
    /\ subm' = Written(r, "subm_time", "none", subm)
    /\ logs' = {}
    /\ Commit(r)
    /\ UNCHANGED <<tcp_state, written, check>>

--------------------------------------------------------------------------------
(* The agent: agent_report_service, and what the WebSocket manager writes. *)

\* The last log ever written is live and its case not over.
LastUnfinished == \E l \in logs : l.id = written /\ l.case # CASE_SUCCESS

\* notify_agent_offline.  The latest log is looked up deleted or not.
AgentOfflineReads(r) ==
    /\ host_state <= OFFLINE
    /\ Begin(r, "agent_offline", None,
             IF LastUnfinished THEN OCCUPIED ELSE FREE, {"host_state"}, 0)

\* It marks the connection as listening.
AgentOfflineCommits(r) ==
    /\ open[r].op = "agent_offline"
    /\ host_state' = open[r].state
    /\ tcp_state' = 2
    /\ Commit(r)
    /\ UNCHANGED <<appr_state, subm, execLog, check>>

\* report_vnc_connection_state(1): only a locked host becomes occupied.
VncUpReads(r) ==
    /\ host_state = LOCKED
    /\ Begin(r, "vnc_state", None, OCCUPIED, {"host_state"}, 0)

\* report_vnc_connection_state(2): kept while a test case runs.
VncDownReads(r) ==
    /\ \A l \in logs : l.case # CASE_START
    /\ host_state < 5
    /\ Begin(r, "vnc_state", None, FREE, {"host_state"}, 0)

\* report_ota_update_status(2), the update succeeded: the host is freed, also
\* from under a user, unless it is out of business.
OtaSuccessReads(r) ==
    /\ host_state < 5
    /\ Begin(r, "ota_success", None, FREE, {"host_state"}, 0)

\* The UPDATE does not repeat the condition of the read.
DecidedCommits(r, op) ==
    /\ open[r].op = op
    /\ host_state' = open[r].state
    /\ Commit(r)
    /\ UNCHANGED <<appr_state, tcp_state, subm, execLog, check>>

VncStateCommits(r) == DecidedCommits(r, "vnc_state")

OtaSuccessCommits(r) == DecidedCommits(r, "ota_success")

\* notify_offline_success, and the restore of every heartbeat: conditional.
OfflineSuccess ==
    /\ host_state = OFFLINE
    /\ host_state' = FREE
    /\ UNCHANGED <<appr_state, tcp_state, subm, execLog, open, check>>

\* report_testcase_result, on the live log of the test case.
CaseReport(u, case) ==
    /\ \E l \in Latest(LogsOf(u)) : logs' = (logs \ {l}) \cup {[l EXCEPT !.case = case]}
    /\ UNCHANGED <<host, written, open, check>>

\* The connection manager: connect writes tcp_state 2 and reads the host, and
\* frees one that it read as offline.
AgentConnects(r) ==
    /\ tcp_state' = 2
    /\ IF host_state = OFFLINE
       THEN Open(r, "ws_host", None, FREE, {"host_state"}, 0)
       ELSE UNCHANGED open
    /\ UNCHANGED <<host_state, appr_state, subm, execLog, check>>

\* disconnect writes tcp_state 0 and takes a host that it read as free
\* offline.
AgentDisconnects(r) ==
    /\ tcp_state' = 0
    /\ IF host_state = FREE
       THEN Open(r, "ws_host", None, OFFLINE, {"host_state"}, 0)
       ELSE UNCHANGED open
    /\ UNCHANGED <<host_state, appr_state, subm, execLog, check>>

\* update_host_status.
WsHostCommits(r) == DecidedCommits(r, "ws_host")

\* report_hardware found a difference: _update_host_rec, unconditional.
HardwareChange ==
    /\ host_state' = HW_CHANGE
    /\ appr_state' = 2
    /\ UNCHANGED <<tcp_state, subm, execLog, open, check>>

--------------------------------------------------------------------------------
(* The administrator.                                                      *)

\* disable_host.
Disable ==
    /\ host_state = FREE
    /\ host_state' = DISABLED
    /\ appr_state' = 0
    /\ UNCHANGED <<tcp_state, subm, execLog, open, check>>

\* force_offline_host.
ForceOffline ==
    /\ host_state < OFFLINE
    /\ host_state' = OFFLINE
    /\ UNCHANGED <<appr_state, tcp_state, subm, execLog, open, check>>

\* approve_hosts: the UPDATE has no condition; approving a hardware change
\* sets subm_time too, enabling a host by hand does not.
Approve ==
    /\ host_state' = FREE
    /\ appr_state' = 1
    /\ subm' \in {subm, "fresh"}
    /\ UNCHANGED <<tcp_state, execLog, open, check>>

--------------------------------------------------------------------------------
(* The timeout task: _check_vnc_connection_timeout.                        *)

TimeoutReads ==
    /\ check = "idle"
    /\ host_state = LOCKED
    /\ subm \in {"expired", "forced"}
    /\ check' = subm
    /\ UNCHANGED <<host, execLog, open>>

\* Mutant: a delivered notification always ends the matter.
NeverForced == FALSE

ForceCleanup == check = "forced"

\* The agent was notified and is left to go offline by itself.
TimeoutNotified ==
    /\ check # "idle"
    /\ ~ForceCleanup
    /\ check' = "idle"
    /\ UNCHANGED <<host, execLog, open>>

\* Mutant: subm_time is cleared and the state is kept.
CleanupKeepsState ==
    /\ subm' = IF host_state < 5 THEN "none" ELSE subm
    /\ UNCHANGED host_state

\* The host UPDATE of _cleanup_vnc_timeout_host.
CleanupHost ==
    IF host_state < 5
    THEN host_state' = FREE /\ subm' = "none"
    ELSE UNCHANGED <<host_state, subm>>

\* The agent could not be notified, or the lock is six minutes old.
TimeoutCleans ==
    /\ check # "idle"
    /\ CleanupHost
    /\ logs' = {}
    /\ check' = "idle"
    /\ UNCHANGED <<appr_state, tcp_state, written, open>>

\* Time passes.
SubmAges ==
    /\ subm \in {"fresh", "expired"}
    /\ subm' = IF subm = "fresh" THEN "expired" ELSE "forced"
    /\ UNCHANGED <<host_state, appr_state, tcp_state, execLog, open, check>>

--------------------------------------------------------------------------------
Reads(r) ==
    \/ \E u \in User : VncReportReads(r, u) \/ VncFailureReads(r, u) \/ VncInfoReads(r, u)
    \/ AgentOfflineReads(r) \/ VncUpReads(r) \/ VncDownReads(r) \/ OtaSuccessReads(r)
    \/ AgentConnects(r) \/ AgentDisconnects(r)
    \/ ResetReads(r)

Commits(r) ==
    \/ VncReportCommits(r) \/ LockCommits(r) \/ ResetCommits(r)
    \/ AgentOfflineCommits(r) \/ VncStateCommits(r) \/ OtaSuccessCommits(r)
    \/ WsHostCommits(r)

AtomicRequest ==
    \/ \E u \in User : Release(u) \/ \E case \in CaseState : CaseReport(u, case)
    \/ OfflineSuccess \/ HardwareChange
    \/ Disable \/ ForceOffline \/ Approve

TimeoutTask == TimeoutReads \/ TimeoutNotified \/ TimeoutCleans

Next ==
    \/ \E r \in Request : Reads(r) \/ Commits(r)
    \/ AtomicRequest
    \/ TimeoutTask
    \/ SubmAges

Spec == Init /\ [][Next]_vars

\* The scheduler runs the timeout task again and again, and time passes; no
\* request is owed.
FairSpec == Spec /\ WF_vars(TimeoutTask) /\ WF_vars(SubmAges)

--------------------------------------------------------------------------------
(* Properties.                                                             *)

\* The timeout query selects locked hosts by subm_time: a locked host without
\* one would never be released.  Every interleaving of the transactions that
\* lock a host with the cleanup that clears subm_time keeps the two together.
\* The reset for tests does not: it may clear the time of a lock it has not
\* seen (see ResetReads), so this is said of a service where nobody calls it.
LockedIsTimed == host_state = LOCKED => subm # "none"

\* What the proof of LockedIsTimed needs of the open transactions: none of
\* those that decided on a state decided to lock, and a reset is allowed.
OpenDecisions ==
    /\ DOMAIN open = Request
    /\ \A r \in Request : open[r].op = "reset" => TestReset
    /\ \A r \in Request : open[r].op \in Deciding => open[r].state \in HostState \ {LOCKED}

\* report_vnc_connection refuses a user with more than one live log and sends
\* him to the administrator.  When no two requests overlap that cannot happen.
OneLiveLog == \A u \in User : Cardinality(LogsOf(u)) <= 1

\* However handlers overlap, nobody but its user ends a log, unless the whole
\* host is cleaned up: a report replaces a log it has looked up before, and a
\* result rewrites a log in place.
Ledger == INSTANCE UseLedger
    WITH live <- {[id |-> l.id, user |-> l.user] : l \in logs}, given <- written

ImplementsLedger == Ledger!Spec

\* A lock nobody renews is released, even if the agent acknowledges every
\* notification and never does anything about it.
ExpiredLockIsFreed ==
    host_state = LOCKED /\ subm = "expired" ~> host_state # LOCKED \/ subm = "fresh"

================================================================================
