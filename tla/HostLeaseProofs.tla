-------------------------- MODULE HostLeaseProofs --------------------------
(***************************************************************************)
(* What holds of a host, its logs and the mails about them.                *)
(*                                                                         *)
(* For HostLease: a locked host always carries the time the timeout task   *)
(* looks for, a user has one live log as long as handlers do not overlap,  *)
(* and the logs are the ledger of UseLedger however they do, for every set *)
(* of users, of requests and every number of logs.                         *)
(*                                                                         *)
(* For CaseTimeout: no log is marked without a mail and none is mailed     *)
(* twice without a lost mark, for every set of instances and of logs.      *)
(***************************************************************************)
EXTENDS HostLease, CaseTimeout, FiniteSetTheorems, WellFoundedInduction, TLAPS

LeaseInv ==
    /\ host_state \in HostState
    /\ LockedIsTimed
    /\ OpenDecisions

LEMMA InitInv == Init => LeaseInv
BY DEF Init, LeaseInv, LockedIsTimed, OpenDecisions, Idle, Deciding, HostState,
       FREE, LOCKED, OCCUPIED, OFFLINE, HW_CHANGE, DISABLED

\* Opening a transaction changes nothing but the transaction, and a decision
\* recorded in it is a state other than LOCKED.
LEMMA BeginKeeps ==
    ASSUME LeaseInv, NEW r \in Request, NEW op, NEW user, NEW state, NEW writes, NEW old,
           Begin(r, op, user, state, writes, old),
           op \in Deciding => state \in HostState \ {LOCKED},
           op = "reset" => TestReset
    PROVE  LeaseInv'
<1>1. host_state' \in HostState /\ LockedIsTimed'
  BY DEF Begin, LeaseInv, LockedIsTimed, host
<1>2. OpenDecisions'
  BY DEF Begin, Open, LeaseInv, OpenDecisions
<1> QED BY <1>1, <1>2 DEF LeaseInv

\* Closing a transaction keeps the decisions of the others.
LEMMA CommitKeeps ==
    ASSUME OpenDecisions, NEW r \in Request, Commit(r)
    PROVE  OpenDecisions'
BY DEF Commit, OpenDecisions, Idle, Deciding

\* The write of a locking transaction keeps state and time together, whether
\* or not it writes the state.
LEMMA LocksKeeps ==
    ASSUME LeaseInv, NEW r \in Request, Locks(r)
    PROVE  host_state' \in HostState /\ LockedIsTimed'
BY DEF Locks, Written, LeaseInv, LockedIsTimed, HostState, LOCKED

LEMMA ReadsKeep == ASSUME LeaseInv, NEW r \in Request, Reads(r) PROVE LeaseInv'
<1> USE DEF Deciding, HostState, FREE, LOCKED, OCCUPIED, OFFLINE, HW_CHANGE, DISABLED
<1>1. ASSUME NEW u \in User, VncReportReads(r, u) PROVE LeaseInv'
  <2>1. PICK old : BeginLock(r, "report", u, old)
    BY <1>1 DEF VncReportReads
  <2> QED BY <2>1, BeginKeeps DEF BeginLock
<1>2. ASSUME NEW u \in User, VncFailureReads(r, u) PROVE LeaseInv'
  BY <1>2, BeginKeeps DEF VncFailureReads, BeginLock
<1>3. ASSUME NEW u \in User, VncInfoReads(r, u) PROVE LeaseInv'
  BY <1>3, BeginKeeps DEF VncInfoReads, BeginLock
<1>4. CASE AgentOfflineReads(r)
  <2> DEFINE target == IF LastUnfinished THEN OCCUPIED ELSE FREE
  <2>1. target \in HostState \ {LOCKED}
    OBVIOUS
  <2>2. Begin(r, "agent_offline", None, target, {"host_state"}, 0)
    BY <1>4 DEF AgentOfflineReads
  <2> HIDE DEF target
  <2> QED BY <2>1, <2>2, BeginKeeps
<1>5. CASE VncUpReads(r)
  BY <1>5, BeginKeeps DEF VncUpReads
<1>6. CASE VncDownReads(r) \/ OtaSuccessReads(r)
  BY <1>6, BeginKeeps DEF VncDownReads, OtaSuccessReads
<1>7. CASE AgentConnects(r)
  BY <1>7 DEF AgentConnects, Open, LeaseInv, LockedIsTimed, OpenDecisions
<1>8. CASE AgentDisconnects(r)
  <2>1. host_state' \in HostState /\ LockedIsTimed'
    BY <1>8 DEF AgentDisconnects, LeaseInv, LockedIsTimed
  <2>2. OFFLINE \in HostState \ {LOCKED}
    OBVIOUS
  <2>3. CASE Open(r, "ws_host", None, OFFLINE, {"host_state"}, 0)
    BY <2>1, <2>2, <2>3 DEF Open, LeaseInv, OpenDecisions
  <2>4. CASE open' = open
    BY <2>1, <2>4 DEF LeaseInv, OpenDecisions
  <2> QED BY <1>8, <2>3, <2>4 DEF AgentDisconnects
<1>9. CASE ResetReads(r)
  BY <1>9, BeginKeeps DEF ResetReads
<1> QED BY <1>1, <1>2, <1>3, <1>4, <1>5, <1>6, <1>7, <1>8, <1>9 DEF Reads

LEMMA CommitsKeep ==
    ASSUME ~TestReset, LeaseInv, NEW r \in Request, Commits(r)
    PROVE  LeaseInv'
<1>1. CASE VncReportCommits(r)
  BY <1>1, CommitKeeps, LocksKeeps DEF VncReportCommits, LeaseInv
<1>2. CASE LockCommits(r)
  BY <1>2, CommitKeeps, LocksKeeps DEF LockCommits, LeaseInv
<1>3. ASSUME open[r].op \in Deciding, host_state' = open[r].state, Commit(r) PROVE LeaseInv'
  BY <1>3, CommitKeeps DEF LeaseInv, OpenDecisions, LockedIsTimed
<1>4. CASE AgentOfflineCommits(r)
  BY <1>3, <1>4 DEF AgentOfflineCommits, Deciding
<1>5. CASE VncStateCommits(r) \/ OtaSuccessCommits(r)
  BY <1>3, <1>5 DEF VncStateCommits, OtaSuccessCommits, DecidedCommits, Deciding
<1>6. CASE WsHostCommits(r)
  BY <1>3, <1>6 DEF WsHostCommits, DecidedCommits, Deciding
<1>7. ~ResetCommits(r)
  BY DEF ResetCommits, LeaseInv, OpenDecisions
<1> QED BY <1>1, <1>2, <1>4, <1>5, <1>6, <1>7 DEF Commits

LEMMA AtomicKeeps == ASSUME LeaseInv, AtomicRequest PROVE LeaseInv'
<1> USE DEF LeaseInv, LockedIsTimed, OpenDecisions, HostState,
            FREE, LOCKED, OCCUPIED, OFFLINE, HW_CHANGE, DISABLED
<1>1. ASSUME NEW u \in User, Release(u) PROVE LeaseInv'
  BY <1>1 DEF Release
<1>2. ASSUME NEW u \in User, NEW case \in CaseState, CaseReport(u, case) PROVE LeaseInv'
  BY <1>2 DEF CaseReport, host
<1>3. CASE OfflineSuccess \/ HardwareChange
  BY <1>3 DEF OfflineSuccess, HardwareChange
<1>4. CASE Disable \/ ForceOffline \/ Approve
  BY <1>4 DEF Disable, ForceOffline, Approve
<1> QED BY <1>1, <1>2, <1>3, <1>4 DEF AtomicRequest

LEMMA TimeoutKeeps == ASSUME LeaseInv, TimeoutTask \/ SubmAges PROVE LeaseInv'
<1> USE DEF LeaseInv, LockedIsTimed, OpenDecisions
<1>1. CASE TimeoutReads \/ TimeoutNotified
  BY <1>1 DEF TimeoutReads, TimeoutNotified, host
<1>2. CASE TimeoutCleans
  BY <1>2 DEF TimeoutCleans, CleanupHost, HostState,
              FREE, LOCKED, OCCUPIED, OFFLINE, HW_CHANGE, DISABLED
<1>3. CASE SubmAges
  BY <1>3 DEF SubmAges
<1> QED BY <1>1, <1>2, <1>3 DEF TimeoutTask

LEMMA StepInv == ~TestReset /\ LeaseInv /\ [Next]_vars => LeaseInv'
<1> SUFFICES ASSUME ~TestReset, LeaseInv, [Next]_vars PROVE LeaseInv'
  OBVIOUS
<1>1. ASSUME NEW r \in Request, Reads(r) \/ Commits(r) PROVE LeaseInv'
  BY <1>1, ReadsKeep, CommitsKeep
<1>2. CASE AtomicRequest
  BY <1>2, AtomicKeeps
<1>3. CASE TimeoutTask \/ SubmAges
  BY <1>3, TimeoutKeeps
<1>4. CASE UNCHANGED vars
  BY <1>4 DEF vars, host, LeaseInv, LockedIsTimed, OpenDecisions
<1> QED BY <1>1, <1>2, <1>3, <1>4 DEF Next

\* _query_vnc_timeout_hosts finds only locked hosts that have a subm_time:
\* there is no other locked host, in any interleaving of the handlers that
\* lock with the cleanup that clears the time.
\* The reset for tests is the one handler that can part the two.
THEOREM LockedHostIsTimed ==
    ASSUME ~TestReset
    PROVE  Spec => []LockedIsTimed
<1>1. LeaseInv => LockedIsTimed
  BY DEF LeaseInv
<1>2. LeaseInv /\ [Next]_vars => LeaseInv'
  BY StepInv
<1> QED BY InitInv, <1>1, <1>2, PTL DEF Spec

--------------------------------------------------------------------------------
(* Types.                                                                   *)

LEMMA States ==
    /\ HostState = {0, 1, 2, 4, 6, 7}
    /\ FREE = 0 /\ LOCKED = 1 /\ OCCUPIED = 2 /\ OFFLINE = 4 /\ HW_CHANGE = 6 /\ DISABLED = 7
BY DEF HostState, FREE, LOCKED, OCCUPIED, OFFLINE, HW_CHANGE, DISABLED

LEMMA Operations ==
    /\ Locking = {"report", "report_failed", "info"}
    /\ Deciding = {"agent_offline", "vnc_state", "ota_success", "ws_host"}
BY DEF Locking, Deciding

\* What a transaction may be opened with.
Sensible(op, user, state, writes, old) ==
    /\ [op |-> op, user |-> user, state |-> state, writes |-> writes, log |-> old] \in Transaction
    /\ op \in Deciding => state # LOCKED
    /\ op \in Locking => user \in User

OpenTypes ==
    /\ open \in [Request -> Transaction]
    /\ \A r \in Request : open[r].op \in Deciding => open[r].state # LOCKED
    /\ \A r \in Request : open[r].op \in Locking => open[r].user \in User

LogTypes ==
    /\ logs \subseteq Log
    /\ written \in 0 .. MaxLogs
    /\ \A l \in logs : l.id <= written

HostTypes ==
    /\ host_state \in HostState
    /\ appr_state \in 0 .. 2
    /\ tcp_state \in {0, 2}
    /\ subm \in {"none", "fresh", "expired", "forced"}
    /\ check \in {"idle", "expired", "forced"}

LEMMA TypeParts == TypeOK <=> HostTypes /\ LogTypes /\ OpenTypes
BY DEF TypeOK, HostTypes, LogTypes, OpenTypes

LEMMA SensibleTransaction ==
    ASSUME NEW op \in Locking \cup Deciding \cup {"reset"}, NEW user \in User \cup {None},
           NEW state \in HostState, NEW writes \in SUBSET Column, NEW old \in 0 .. MaxLogs,
           op \in Deciding => state # LOCKED,
           op \in Locking => user \in User
    PROVE  Sensible(op, user, state, writes, old)
BY DEF Sensible, Transaction

LEMMA OpenKeepsTypes ==
    ASSUME OpenTypes, NEW r \in Request, NEW op, NEW user, NEW state, NEW writes, NEW old,
           Open(r, op, user, state, writes, old), Sensible(op, user, state, writes, old)
    PROVE  OpenTypes'
<1> PICK t : t = [op |-> op, user |-> user, state |-> state, writes |-> writes, log |-> old]
  OBVIOUS
<1>1. /\ t \in Transaction
      /\ t.op \in Deciding => t.state # LOCKED
      /\ t.op \in Locking => t.user \in User
  BY DEF Sensible
<1>2. open' = [open EXCEPT ![r] = t]
  BY DEF Open
<1> QED BY <1>1, <1>2 DEF OpenTypes

LEMMA BeginKeepsTypes ==
    ASSUME TypeOK, NEW r \in Request, NEW op, NEW user, NEW state, NEW writes, NEW old,
           Begin(r, op, user, state, writes, old), Sensible(op, user, state, writes, old)
    PROVE  TypeOK'
<1>1. OpenTypes'
  BY OpenKeepsTypes, TypeParts DEF Begin
<1>2. HostTypes' /\ LogTypes'
  BY TypeParts DEF Begin, host, execLog, HostTypes, LogTypes
<1>3. (TypeOK <=> HostTypes /\ LogTypes /\ OpenTypes)'
  BY DEF TypeOK, HostTypes, LogTypes, OpenTypes
<1> QED BY <1>1, <1>2, <1>3

LEMMA CommitKeepsTypes ==
    ASSUME OpenTypes, NEW r \in Request, Commit(r)
    PROVE  OpenTypes'
<1>1. /\ Idle \in Transaction /\ Idle.op \notin Deciding /\ Idle.op \notin Locking
  <2>1. 0 \in 0 .. MaxLogs
    BY LogAssumption
  <2> QED BY <2>1, States, Operations DEF Idle, Transaction
<1> QED BY <1>1 DEF Commit, OpenTypes

LEMMA ChangedIsColumn ==
    ASSUME NEW column \in Column, NEW loaded, NEW assigned
    PROVE  Changed(column, loaded, assigned) \in SUBSET Column
BY DEF Changed

LEMMA ReadsKeepTypes == ASSUME TypeOK, NEW r \in Request, Reads(r) PROVE TypeOK'
<1>1. 0 \in 0 .. MaxLogs
  BY LogAssumption
<1>2. \A l \in logs : l.id \in 0 .. MaxLogs
  BY LogAssumption DEF TypeOK, Log, LogId
<1>3. ASSUME NEW u \in User, NEW op \in Locking, NEW old \in 0 .. MaxLogs, BeginLock(r, op, u, old)
      PROVE  TypeOK'
  <2> PICK writes : writes = Changed("host_state", host_state, LOCKED)
    OBVIOUS
  <2>1. writes \in SUBSET Column
    BY ChangedIsColumn DEF Column
  <2>2. Sensible(op, u, LOCKED, writes, old)
    BY <2>1, States, Operations, SensibleTransaction
  <2>3. Begin(r, op, u, LOCKED, writes, old)
    BY <1>3 DEF BeginLock
  <2> QED BY <2>2, <2>3, BeginKeepsTypes
<1>4. ASSUME NEW op \in Deciding, NEW state \in HostState \ {LOCKED},
             Begin(r, op, None, state, {"host_state"}, 0)
      PROVE  TypeOK'
  <2>1. {"host_state"} \in SUBSET Column
    BY DEF Column
  <2>2. Sensible(op, None, state, {"host_state"}, 0)
    BY <1>1, <2>1, Operations, SensibleTransaction
  <2> QED BY <1>4, <2>2, BeginKeepsTypes
<1>5. ASSUME NEW u \in User, VncReportReads(r, u) PROVE TypeOK'
  <2>1. PICK old \in 0 .. MaxLogs : BeginLock(r, "report", u, old)
    BY <1>1, <1>2, <1>5 DEF VncReportReads, LogsOf
  <2> QED BY <1>3, <2>1, Operations
<1>6. ASSUME NEW u \in User, VncFailureReads(r, u) PROVE TypeOK'
  BY <1>1, <1>3, <1>6, Operations DEF VncFailureReads
<1>7. ASSUME NEW u \in User, VncInfoReads(r, u) PROVE TypeOK'
  BY <1>1, <1>3, <1>7, Operations DEF VncInfoReads
<1>8. CASE AgentOfflineReads(r)
  <2> PICK target : target = IF LastUnfinished THEN OCCUPIED ELSE FREE
    OBVIOUS
  <2>1. target \in HostState \ {LOCKED}
    BY States
  <2>2. Begin(r, "agent_offline", None, target, {"host_state"}, 0)
    BY <1>8 DEF AgentOfflineReads
  <2> QED BY <1>4, <2>1, <2>2, Operations
<1>9. CASE VncUpReads(r)
  BY <1>4, <1>9, States, Operations DEF VncUpReads
<1>10. CASE VncDownReads(r) \/ OtaSuccessReads(r)
  BY <1>4, <1>10, States, Operations DEF VncDownReads, OtaSuccessReads
<1>11. ASSUME NEW state \in HostState \ {LOCKED}, NEW tcp \in {0, 2},
              Open(r, "ws_host", None, state, {"host_state"}, 0) \/ UNCHANGED open,
              tcp_state' = tcp, UNCHANGED <<host_state, appr_state, subm, execLog, check>>
       PROVE  TypeOK'
  <2>1. Sensible("ws_host", None, state, {"host_state"}, 0)
    BY <1>1, Operations, SensibleTransaction DEF Column
  <2>2. OpenTypes'
    BY <1>11, <2>1, OpenKeepsTypes DEF TypeOK, OpenTypes
  <2>3. HostTypes' /\ LogTypes'
    BY <1>11 DEF TypeOK, HostTypes, LogTypes, execLog
  <2> QED BY <2>2, <2>3 DEF TypeOK, HostTypes, LogTypes, OpenTypes
<1>12. CASE AgentConnects(r)
  BY <1>11, <1>12, States DEF AgentConnects
<1>13. CASE AgentDisconnects(r)
  BY <1>11, <1>13, States DEF AgentDisconnects
<1>14. CASE ResetReads(r)
  <2>1. PICK writes : Begin(r, "reset", None, FREE, writes, 0) /\ writes \in SUBSET Column
    BY <1>14, ChangedIsColumn DEF ResetReads, Column
  <2>2. Sensible("reset", None, FREE, writes, 0)
    BY <1>1, <2>1, States, Operations, SensibleTransaction
  <2> QED BY <2>1, <2>2, BeginKeepsTypes
<1> QED BY <1>5, <1>6, <1>7, <1>8, <1>9, <1>10, <1>12, <1>13, <1>14 DEF Reads

LEMMA CommitsKeepTypes == ASSUME TypeOK, NEW r \in Request, Commits(r) PROVE TypeOK'
<1>1. OpenTypes /\ open[r].state \in HostState
  BY DEF TypeOK, OpenTypes, Transaction
<1>2. ASSUME HostTypes', LogTypes', Commit(r) PROVE TypeOK'
  <2>1. OpenTypes'
    BY <1>1, <1>2, CommitKeepsTypes
  <2> QED BY <1>2, <2>1 DEF TypeOK, HostTypes, LogTypes, OpenTypes
<1>3. CASE VncReportCommits(r)
  <2>1. open[r].user \in User
    BY <1>3, Operations DEF VncReportCommits, TypeOK
  <2>2. NewLog(open[r].user) \in Log /\ NewLog(open[r].user).id = written + 1
    BY <1>3, <2>1, LogAssumption DEF VncReportCommits, NewLog, Log, LogId, CaseState, TypeOK
  <2>3. \A l \in logs : l.id \in Nat
    BY LogAssumption DEF TypeOK, Log, LogId
  <2>4. LogTypes'
    BY <1>3, <2>2, <2>3, LogAssumption DEF VncReportCommits, LogTypes, TypeOK
  <2>5. HostTypes'
    BY <1>3, States DEF VncReportCommits, Locks, Written, HostTypes, TypeOK
  <2> QED BY <1>2, <1>3, <2>4, <2>5 DEF VncReportCommits
<1>4. CASE LockCommits(r)
  BY <1>2, <1>4, States DEF LockCommits, Locks, Written, HostTypes, LogTypes, execLog, TypeOK
<1>5. CASE ResetCommits(r)
  BY <1>2, <1>5, States DEF ResetCommits, Written, HostTypes, LogTypes, TypeOK
<1>6. CASE AgentOfflineCommits(r)
  BY <1>1, <1>2, <1>6 DEF AgentOfflineCommits, HostTypes, LogTypes, execLog, TypeOK
<1>7. CASE VncStateCommits(r) \/ OtaSuccessCommits(r) \/ WsHostCommits(r)
  BY <1>1, <1>2, <1>7
     DEF VncStateCommits, OtaSuccessCommits, WsHostCommits, DecidedCommits,
         HostTypes, LogTypes, execLog, TypeOK
<1> QED BY <1>3, <1>4, <1>5, <1>6, <1>7 DEF Commits

LEMMA OthersKeepTypes ==
    ASSUME TypeOK, AtomicRequest \/ TimeoutTask \/ SubmAges
    PROVE  TypeOK'
<1>1. ASSUME HostTypes', LogTypes', UNCHANGED open PROVE TypeOK'
  BY <1>1 DEF TypeOK, HostTypes, LogTypes
<1>2. ASSUME NEW u \in User, Release(u) PROVE TypeOK'
  BY <1>1, <1>2, States DEF Release, HostTypes, LogTypes, TypeOK
<1>3. ASSUME NEW u \in User, NEW case \in CaseState, CaseReport(u, case) PROVE TypeOK'
  <2>1. PICK l \in logs : logs' = (logs \ {l}) \cup {[l EXCEPT !.case = case]}
    BY <1>3 DEF CaseReport, Latest, LogsOf
  <2>2. [l EXCEPT !.case = case] \in Log /\ [l EXCEPT !.case = case].id = l.id
    BY DEF TypeOK, Log
  <2>3. LogTypes'
    BY <1>3, <2>1, <2>2 DEF CaseReport, LogTypes, TypeOK
  <2>4. HostTypes'
    BY <1>3 DEF CaseReport, HostTypes, host, TypeOK
  <2> QED BY <1>1, <1>3, <2>3, <2>4 DEF CaseReport
<1>4. CASE OfflineSuccess \/ HardwareChange
  BY <1>1, <1>4, States DEF OfflineSuccess, HardwareChange, HostTypes, LogTypes, execLog, TypeOK
<1>5. CASE Disable \/ ForceOffline \/ Approve
  BY <1>1, <1>5, States DEF Disable, ForceOffline, Approve, HostTypes, LogTypes, execLog, TypeOK
<1>6. CASE TimeoutReads \/ TimeoutNotified
  BY <1>1, <1>6 DEF TimeoutReads, TimeoutNotified, host, HostTypes, LogTypes, execLog, TypeOK
<1>7. CASE TimeoutCleans
  BY <1>1, <1>7, States DEF TimeoutCleans, CleanupHost, HostTypes, LogTypes, TypeOK
<1>8. CASE SubmAges
  BY <1>1, <1>8 DEF SubmAges, HostTypes, LogTypes, execLog, TypeOK
<1> QED BY <1>2, <1>3, <1>4, <1>5, <1>6, <1>7, <1>8 DEF AtomicRequest, TimeoutTask

LEMMA TypeInit == Init => TypeOK
<1>1. Idle \in Transaction /\ Idle.op \notin Deciding /\ Idle.op \notin Locking
  <2>1. 0 \in 0 .. MaxLogs
    BY LogAssumption
  <2> QED BY <2>1, States, Operations DEF Idle, Transaction
<1> QED BY <1>1, LogAssumption, States DEF Init, TypeOK

LEMMA TypeStep == TypeOK /\ [Next]_vars => TypeOK'
<1>1. TypeOK /\ UNCHANGED vars => TypeOK'
  BY DEF vars, host, execLog, TypeOK
<1> QED BY <1>1, ReadsKeepTypes, CommitsKeepTypes, OthersKeepTypes DEF Next

\* Every column keeps to the values the constants of the code name, and a
\* transaction that decided on a state has not decided to lock.
THEOREM TypeCorrect == Spec => []TypeOK
BY TypeInit, TypeStep, PTL DEF Spec

--------------------------------------------------------------------------------
(* One live log per user, when handlers do not overlap.                     *)

Alone == \A r, s \in Request : r = s

\* A report that is open knows the one live log of its user.
SerialInv ==
    /\ TypeOK
    /\ \A l, k \in logs : l.user = k.user => l = k
    /\ \A r \in Request : open[r].op = "report" =>
         \A l \in logs : l.user = open[r].user => l.id = open[r].log

\* Fewer logs, and no report that was not open before.
LEMMA FewerLogs ==
    ASSUME SerialInv, TypeOK', logs' \subseteq logs,
           \A r \in Request : open'[r] = open[r] \/ open'[r].op # "report"
    PROVE  SerialInv'
<1>1. \A l, k \in logs' : l.user = k.user => l = k
  BY DEF SerialInv
<1>2. ASSUME NEW r \in Request, open'[r].op = "report", NEW l \in logs', l.user = open'[r].user
      PROVE  l.id = open'[r].log
  BY <1>2 DEF SerialInv
<1> QED BY <1>1, <1>2 DEF SerialInv

LEMMA BeginIsNoReport ==
    ASSUME SerialInv, TypeOK', NEW r \in Request, NEW op, NEW user, NEW state, NEW writes, NEW old,
           Begin(r, op, user, state, writes, old), op # "report"
    PROVE  SerialInv'
<1>1. \A s \in Request : open'[s] = open[s] \/ open'[s].op # "report"
  BY DEF Begin, Open, SerialInv, TypeOK
<1> QED BY <1>1, FewerLogs DEF Begin, execLog

LEMMA CommitIsNoReport ==
    ASSUME SerialInv, TypeOK', NEW r \in Request, Commit(r), logs' \subseteq logs
    PROVE  SerialInv'
<1>1. \A s \in Request : open'[s] = open[s] \/ open'[s].op # "report"
  BY DEF Commit, Idle, SerialInv, TypeOK
<1> QED BY <1>1, FewerLogs

LEMMA ReportReads ==
    ASSUME SerialInv, TypeOK', NEW r \in Request, NEW u \in User, VncReportReads(r, u)
    PROVE  SerialInv'
<1>1. PICK old \in IF LogsOf(u) = {} THEN {0} ELSE {l.id : l \in LogsOf(u)} :
        BeginLock(r, "report", u, old)
  BY DEF VncReportReads
<1>2. \A l \in logs : l.user = u => l.id = old
  BY <1>1 DEF LogsOf, SerialInv
<1> PICK writes : writes = Changed("host_state", host_state, LOCKED)
  OBVIOUS
<1>3. /\ open' = [open EXCEPT ![r] = [op |-> "report", user |-> u, state |-> LOCKED,
                                      writes |-> writes, log |-> old]]
      /\ logs' = logs
  BY <1>1 DEF BeginLock, Begin, Open, execLog
<1>4. /\ open'[r].user = u /\ open'[r].log = old
      /\ \A s \in Request : s # r => open'[s] = open[s]
  BY <1>3 DEF SerialInv, TypeOK
<1>5. ASSUME NEW s \in Request, open'[s].op = "report", NEW l \in logs', l.user = open'[s].user
      PROVE  l.id = open'[s].log
  BY <1>2, <1>3, <1>4, <1>5 DEF SerialInv
<1> QED BY <1>3, <1>5 DEF SerialInv

LEMMA ReportCommits ==
    ASSUME Alone, SerialInv, TypeOK', NEW r \in Request, VncReportCommits(r)
    PROVE  SerialInv'
<1> PICK u : u = open[r].user
  OBVIOUS
<1> PICK new : new = NewLog(u)
  OBVIOUS
<1>1. new.user = u /\ logs' = {l \in logs : l.id # open[r].log} \cup {new}
  BY DEF VncReportCommits, NewLog
<1>2. \A l \in logs : l.user = u => l.id = open[r].log
  BY DEF VncReportCommits, SerialInv
<1>3. \A l \in logs' : l.user = u => l = new
  BY <1>1, <1>2
<1>4. \A l, k \in logs' : l.user = k.user => l = k
  <2> SUFFICES ASSUME NEW l \in logs', NEW k \in logs', l.user = k.user PROVE l = k
    OBVIOUS
  <2>1. CASE l = new \/ k = new
    BY <1>1, <1>3, <2>1
  <2>2. CASE l # new /\ k # new
    BY <1>1, <2>2 DEF SerialInv
  <2> QED BY <2>1, <2>2
<1>5. \A s \in Request : open'[s].op # "report"
  BY DEF VncReportCommits, Commit, Idle, Alone, SerialInv, TypeOK
<1> QED BY <1>4, <1>5 DEF SerialInv

\* The result of a test case changes neither the user nor the id of a log.
LEMMA CaseReported ==
    ASSUME SerialInv, TypeOK', NEW u \in User, NEW case \in CaseState, CaseReport(u, case)
    PROVE  SerialInv'
<1>1. PICK l \in logs : logs' = (logs \ {l}) \cup {[l EXCEPT !.case = case]}
  BY DEF CaseReport, Latest, LogsOf
<1> PICK new : new = [l EXCEPT !.case = case]
  OBVIOUS
<1>2. new.user = l.user /\ new.id = l.id /\ logs' = (logs \ {l}) \cup {new} /\ open' = open
  <2>1. l \in Log
    BY DEF SerialInv, TypeOK
  <2> QED BY <1>1, <2>1 DEF CaseReport, Log
<1>3. \A k \in logs : k.user = new.user => k = l
  BY <1>2 DEF SerialInv
<1>4. \A j, k \in logs' : j.user = k.user => j = k
  BY <1>2, <1>3 DEF SerialInv
<1>5. ASSUME NEW r \in Request, open'[r].op = "report", NEW k \in logs', k.user = open'[r].user
      PROVE  k.id = open'[r].log
  <2>1. open[r].op = "report" /\ k.user = open[r].user /\ open'[r] = open[r]
    BY <1>2, <1>5
  <2>2. \A j \in logs : j.user = open[r].user => j.id = open[r].log
    BY <2>1 DEF SerialInv
  <2>3. k \in logs \/ k = new
    BY <1>2
  <2> QED BY <1>2, <2>1, <2>2, <2>3
<1> QED BY <1>4, <1>5 DEF SerialInv

LEMMA SerialStep == Alone /\ SerialInv /\ [Next]_vars => SerialInv'
<1> SUFFICES ASSUME Alone, SerialInv, [Next]_vars PROVE SerialInv'
  OBVIOUS
<1>1. TypeOK'
  BY TypeStep DEF SerialInv
<1>2. ASSUME logs' \subseteq logs, UNCHANGED open PROVE SerialInv'
  BY <1>1, <1>2, FewerLogs
<1>3. ASSUME NEW r \in Request, Reads(r) PROVE SerialInv'
  <2>1. ASSUME NEW u \in User, VncReportReads(r, u) PROVE SerialInv'
    BY <1>1, <2>1, ReportReads
  <2>2. ASSUME NEW u \in User, VncFailureReads(r, u) \/ VncInfoReads(r, u) PROVE SerialInv'
    BY <1>1, <2>2, BeginIsNoReport DEF VncFailureReads, VncInfoReads, BeginLock
  <2>3. CASE AgentOfflineReads(r)
    <3> PICK target : target = IF LastUnfinished THEN OCCUPIED ELSE FREE
      OBVIOUS
    <3>1. Begin(r, "agent_offline", None, target, {"host_state"}, 0)
      BY <2>3 DEF AgentOfflineReads
    <3> QED BY <1>1, <3>1, BeginIsNoReport
  <2>4. CASE VncUpReads(r) \/ VncDownReads(r) \/ OtaSuccessReads(r)
    BY <1>1, <2>4, BeginIsNoReport DEF VncUpReads, VncDownReads, OtaSuccessReads
  <2>5. CASE AgentConnects(r) \/ AgentDisconnects(r)
    <3>1. \A s \in Request : open'[s] = open[s] \/ open'[s].op # "report"
      BY <2>5 DEF AgentConnects, AgentDisconnects, Open, SerialInv, TypeOK
    <3> QED BY <1>1, <2>5, <3>1, FewerLogs DEF AgentConnects, AgentDisconnects, execLog
  <2>6. CASE ResetReads(r)
    <3>1. PICK writes : Begin(r, "reset", None, FREE, writes, 0)
      BY <2>6 DEF ResetReads
    <3> QED BY <1>1, <3>1, BeginIsNoReport
  <2> QED BY <1>3, <2>1, <2>2, <2>3, <2>4, <2>5, <2>6 DEF Reads
<1>4. ASSUME NEW r \in Request, Commits(r) PROVE SerialInv'
  <2>1. CASE VncReportCommits(r)
    BY <1>1, <2>1, ReportCommits
  <2>2. CASE LockCommits(r) \/ ResetCommits(r) \/ AgentOfflineCommits(r)
    BY <1>1, <2>2, CommitIsNoReport DEF LockCommits, ResetCommits, AgentOfflineCommits, execLog
  <2>3. CASE VncStateCommits(r) \/ OtaSuccessCommits(r) \/ WsHostCommits(r)
    BY <1>1, <2>3, CommitIsNoReport
       DEF VncStateCommits, OtaSuccessCommits, WsHostCommits, DecidedCommits, execLog
  <2> QED BY <1>4, <2>1, <2>2, <2>3 DEF Commits
<1>5. ASSUME NEW u \in User, Release(u) PROVE SerialInv'
  BY <1>2, <1>5 DEF Release
<1>6. ASSUME NEW u \in User, NEW case \in CaseState, CaseReport(u, case) PROVE SerialInv'
  BY <1>1, <1>6, CaseReported
<1>7. CASE OfflineSuccess \/ HardwareChange \/ Disable \/ ForceOffline \/ Approve
  BY <1>2, <1>7 DEF OfflineSuccess, HardwareChange, Disable, ForceOffline, Approve, execLog
<1>8. CASE TimeoutTask \/ SubmAges
  BY <1>2, <1>8 DEF TimeoutTask, TimeoutReads, TimeoutNotified, TimeoutCleans, SubmAges, execLog
<1>9. CASE UNCHANGED vars
  BY <1>2, <1>9 DEF vars, execLog
<1> QED BY <1>3, <1>4, <1>5, <1>6, <1>7, <1>8, <1>9 DEF Next, AtomicRequest

\* report_vnc_connection never meets two live logs of a user, and so never
\* sends him to the administrator, as long as no two handlers overlap: the
\* report that is open replaces the only log its user has.
THEOREM OneLogWhenAlone ==
    ASSUME \A r, s \in Request : r = s
    PROVE  Spec => []OneLiveLog
<1>1. Alone
  BY DEF Alone
<1>2. Init => SerialInv
  BY TypeInit DEF Init, SerialInv, Idle
<1>3. SerialInv /\ [Next]_vars => SerialInv'
  BY <1>1, SerialStep
<1>4. SerialInv => OneLiveLog
  <2> SUFFICES ASSUME SerialInv, NEW u \in User PROVE Cardinality(LogsOf(u)) <= 1
    BY DEF OneLiveLog
  <2>1. CASE LogsOf(u) = {}
    BY <2>1, FS_EmptySet
  <2>2. ASSUME NEW l \in LogsOf(u) PROVE Cardinality(LogsOf(u)) <= 1
    <3>1. LogsOf(u) = {l}
      BY <2>2 DEF LogsOf, SerialInv
    <3>2. Cardinality({l}) = 1
      BY FS_Singleton
    <3> QED BY <3>1, <3>2
  <2> QED BY <2>1, <2>2
<1> QED BY <1>2, <1>3, <1>4, PTL DEF Spec

--------------------------------------------------------------------------------
(* The logs are a ledger, however handlers overlap.                         *)

\* A number names one log, and a report will replace a log of its own user.
LedgerInv ==
    /\ TypeOK
    /\ \A l, k \in logs : l.id = k.id => l = k
    /\ \A r \in Request : open[r].op = "report" =>
         /\ open[r].log <= written
         /\ \A l \in logs : l.id = open[r].log => l.user = open[r].user

\* The logs as the ledger sees them.
Use(l) == [id |-> l.id, user |-> l.user]
Uses == {[id |-> l.id, user |-> l.user] : l \in logs}

NoReportOpens == \A s \in Request : open'[s] = open[s] \/ open'[s].op # "report"

\* A step that neither reads nor writes for a report, and reports no result.
OnlyEndsLogs ==
    /\ NoReportOpens /\ written' = written
    /\ logs' = logs \/ logs' = {} \/ \E u \in User : logs' = logs \ LogsOf(u)

LEMMA BeginOpensNoReport ==
    ASSUME TypeOK, NEW r \in Request, NEW op, NEW user, NEW state, NEW writes, NEW old,
           Begin(r, op, user, state, writes, old), op # "report"
    PROVE  OnlyEndsLogs
BY DEF Begin, Open, TypeOK, OnlyEndsLogs, NoReportOpens, execLog

LEMMA CommitOpensNoReport ==
    ASSUME TypeOK, NEW r \in Request, Commit(r), written' = written, logs' = logs \/ logs' = {}
    PROVE  OnlyEndsLogs
BY DEF Commit, Idle, TypeOK, OnlyEndsLogs, NoReportOpens

LEMMA LedgerSteps ==
    ASSUME TypeOK, Next
    PROVE  \/ \E r \in Request, u \in User : VncReportReads(r, u)
           \/ \E r \in Request : VncReportCommits(r)
           \/ \E u \in User, case \in CaseState : CaseReport(u, case)
           \/ OnlyEndsLogs
<1>1. ASSUME NEW r \in Request, Reads(r)
      PROVE  (\E u \in User : VncReportReads(r, u)) \/ OnlyEndsLogs
  <2>1. ASSUME NEW u \in User, VncFailureReads(r, u) \/ VncInfoReads(r, u) PROVE OnlyEndsLogs
    BY <2>1, BeginOpensNoReport DEF VncFailureReads, VncInfoReads, BeginLock
  <2>2. CASE AgentOfflineReads(r)
    <3> PICK target : target = IF LastUnfinished THEN OCCUPIED ELSE FREE
      OBVIOUS
    <3>1. Begin(r, "agent_offline", None, target, {"host_state"}, 0)
      BY <2>2 DEF AgentOfflineReads
    <3> QED BY <3>1, BeginOpensNoReport
  <2>3. CASE VncUpReads(r) \/ VncDownReads(r) \/ OtaSuccessReads(r)
    BY <2>3, BeginOpensNoReport DEF VncUpReads, VncDownReads, OtaSuccessReads
  <2>4. CASE AgentConnects(r) \/ AgentDisconnects(r)
    <3>1. NoReportOpens
      BY <2>4 DEF AgentConnects, AgentDisconnects, Open, TypeOK, NoReportOpens
    <3> QED BY <2>4, <3>1 DEF AgentConnects, AgentDisconnects, execLog, OnlyEndsLogs
  <2>5. CASE ResetReads(r)
    <3>1. PICK writes : Begin(r, "reset", None, FREE, writes, 0)
      BY <2>5 DEF ResetReads
    <3> QED BY <3>1, BeginOpensNoReport
  <2> QED BY <1>1, <2>1, <2>2, <2>3, <2>4, <2>5 DEF Reads
<1>2. ASSUME NEW r \in Request, Commits(r) PROVE VncReportCommits(r) \/ OnlyEndsLogs
  <2>1. CASE LockCommits(r) \/ ResetCommits(r) \/ AgentOfflineCommits(r)
    BY <2>1, CommitOpensNoReport DEF LockCommits, ResetCommits, AgentOfflineCommits, execLog
  <2>2. CASE VncStateCommits(r) \/ OtaSuccessCommits(r) \/ WsHostCommits(r)
    BY <2>2, CommitOpensNoReport
       DEF VncStateCommits, OtaSuccessCommits, WsHostCommits, DecidedCommits, execLog
  <2> QED BY <1>2, <2>1, <2>2 DEF Commits
<1>3. ASSUME NEW u \in User, Release(u) PROVE OnlyEndsLogs
  BY <1>3 DEF Release, OnlyEndsLogs, NoReportOpens
<1>4. CASE OfflineSuccess \/ HardwareChange \/ Disable \/ ForceOffline \/ Approve
  BY <1>4 DEF OfflineSuccess, HardwareChange, Disable, ForceOffline, Approve, execLog,
              OnlyEndsLogs, NoReportOpens
<1>5. CASE TimeoutTask \/ SubmAges
  BY <1>5 DEF TimeoutTask, TimeoutReads, TimeoutNotified, TimeoutCleans, SubmAges, execLog,
              OnlyEndsLogs, NoReportOpens
<1> QED BY <1>1, <1>2, <1>3, <1>4, <1>5 DEF Next, AtomicRequest

LEMMA NumbersGiven ==
    ASSUME TypeOK
    PROVE  /\ written \in Nat
           /\ \A l \in logs : l.id \in Nat /\ l.id # 0 /\ l.id <= written
           /\ \A r \in Request : open[r].log \in Nat
BY LogAssumption DEF TypeOK, Log, LogId, Transaction

LEMMA EndingKeepsLedger ==
    ASSUME LedgerInv, TypeOK', OnlyEndsLogs
    PROVE  LedgerInv' /\ [Ledger!Next]_<<Uses, written>>
<1>1. logs' \subseteq logs /\ written' = written /\ NoReportOpens
  BY DEF OnlyEndsLogs
<1>2. LedgerInv'
  BY <1>1 DEF LedgerInv, NoReportOpens
<1>3. ASSUME NEW u \in User, logs' = logs \ LogsOf(u) PROVE Ledger!Leave(u)
  <2>1. \A l \in logs : l \in logs' <=> l.user # u
    BY <1>1, <1>3 DEF LogsOf
  <2>2. \A x : x \in Uses' <=> x \in Uses /\ x.user # u
    BY <1>1, <2>1 DEF Uses
  <2>3. Uses' = Uses \ {x \in Uses : x.user = u}
    BY <2>2
  <2> QED BY <1>1, <2>3 DEF Ledger!Leave, Ledger!Of, Uses
<1>4. logs' = {} => Ledger!Clear
  BY <1>1 DEF Ledger!Clear
<1>5. logs' = logs => Uses' = Uses
  BY DEF Uses
<1> QED BY <1>1, <1>2, <1>3, <1>4, <1>5 DEF OnlyEndsLogs, Ledger!Next

LEMMA ReadingKeepsLedger ==
    ASSUME LedgerInv, TypeOK', NEW r \in Request, NEW u \in User, VncReportReads(r, u)
    PROVE  LedgerInv' /\ UNCHANGED <<Uses, written>>
<1>1. PICK old \in IF LogsOf(u) = {} THEN {0} ELSE {l.id : l \in LogsOf(u)} :
        BeginLock(r, "report", u, old)
  BY DEF VncReportReads
<1>2. old <= written /\ \A l \in logs : l.id = old => l.user = u
  <2>1. CASE LogsOf(u) = {}
    BY <1>1, <2>1, NumbersGiven DEF LedgerInv
  <2>2. CASE LogsOf(u) # {}
    <3>1. PICK k \in logs : k.user = u /\ k.id = old
      BY <1>1, <2>2 DEF LogsOf
    <3> QED BY <3>1, NumbersGiven DEF LedgerInv
  <2> QED BY <2>1, <2>2
<1> PICK writes : writes = Changed("host_state", host_state, LOCKED)
  OBVIOUS
<1>3. /\ open' = [open EXCEPT ![r] = [op |-> "report", user |-> u, state |-> LOCKED,
                                      writes |-> writes, log |-> old]]
      /\ logs' = logs /\ written' = written
  BY <1>1 DEF BeginLock, Begin, Open, execLog
<1>4. /\ open'[r].user = u /\ open'[r].log = old
      /\ \A s \in Request : s # r => open'[s] = open[s]
  BY <1>3 DEF LedgerInv, TypeOK
<1>5. ASSUME NEW s \in Request, open'[s].op = "report"
      PROVE  /\ open'[s].log <= written'
             /\ \A l \in logs' : l.id = open'[s].log => l.user = open'[s].user
  <2>1. CASE s = r
    BY <1>2, <1>3, <1>4, <2>1
  <2>2. CASE s # r
    BY <1>3, <1>4, <1>5, <2>2 DEF LedgerInv
  <2> QED BY <2>1, <2>2
<1>6. Uses' = Uses
  BY <1>3 DEF Uses
<1> QED BY <1>3, <1>5, <1>6 DEF LedgerInv

LEMMA WritingKeepsLedger ==
    ASSUME LedgerInv, TypeOK', NEW r \in Request, VncReportCommits(r)
    PROVE  LedgerInv' /\ Ledger!Next
<1> PICK u \in User : u = open[r].user
  BY Operations DEF VncReportCommits, LedgerInv, TypeOK
<1> PICK n : n = open[r].log
  OBVIOUS
<1> PICK new : new = NewLog(u)
  OBVIOUS
<1>1. /\ new.user = u /\ new.id = written + 1 /\ written' = written + 1
      /\ logs' = {l \in logs : l.id # n} \cup {new}
  BY DEF VncReportCommits, NewLog
<1>2. n \in 0 .. written /\ \A l \in logs : l.id = n => l.user = u
  BY NumbersGiven DEF VncReportCommits, LedgerInv
<1>3. /\ written \in Nat /\ \A l \in logs : l.id \in Nat /\ l.id <= written
      /\ \A s \in Request : open[s].log \in Nat
  BY NumbersGiven DEF LedgerInv
<1>4. \A l, k \in logs' : l.id = k.id => l = k
  BY <1>1, <1>3 DEF LedgerInv
<1>5. \A s \in Request : open'[s] = open[s] \/ open'[s].op # "report"
  BY DEF VncReportCommits, Commit, Idle, LedgerInv, TypeOK
<1>6. ASSUME NEW s \in Request, open'[s].op = "report"
      PROVE  /\ open'[s].log <= written'
             /\ \A l \in logs' : l.id = open'[s].log => l.user = open'[s].user
  <2>1. /\ open'[s] = open[s] /\ open[s].log <= written
        /\ \A l \in logs : l.id = open[s].log => l.user = open[s].user
    BY <1>5, <1>6 DEF LedgerInv
  <2> QED BY <1>1, <1>3, <2>1
<1>7. LedgerInv'
  BY <1>4, <1>6 DEF LedgerInv
<1>8. Uses' = {Use(l) : l \in {k \in logs : k.id # n}} \cup {Use(new)}
  BY <1>1 DEF Uses, Use
<1>9. \A x : x \in Uses' <=> x \in (Uses \ {y \in Uses : y.user = u /\ y.id = n}) \cup {Use(new)}
  <2>1. \A l : Use(l).id = l.id /\ Use(l).user = l.user
    BY DEF Use
  <2>2. \A x : x \in Uses <=> \E l \in logs : x = Use(l)
    BY DEF Uses, Use
  <2> QED BY <1>2, <1>8, <2>1, <2>2
<1>10. Uses' = (Uses \ {y \in {x \in Uses : x.user = u} : y.id = n})
                 \cup {[id |-> written + 1, user |-> u]}
  BY <1>1, <1>9 DEF Use
<1>11. Ledger!Take(u)
  BY <1>1, <1>2, <1>10 DEF Ledger!Take, Ledger!Of, Uses
<1> QED BY <1>7, <1>11 DEF Ledger!Next

LEMMA ResultKeepsLedger ==
    ASSUME LedgerInv, TypeOK', NEW u \in User, NEW case \in CaseState, CaseReport(u, case)
    PROVE  LedgerInv' /\ UNCHANGED <<Uses, written>>
<1>1. PICK l \in logs : logs' = (logs \ {l}) \cup {[l EXCEPT !.case = case]}
  BY DEF CaseReport, Latest, LogsOf
<1> PICK new : new = [l EXCEPT !.case = case]
  OBVIOUS
<1>2. /\ new.user = l.user /\ new.id = l.id /\ logs' = (logs \ {l}) \cup {new}
      /\ open' = open /\ written' = written
  <2>1. l \in Log
    BY DEF LedgerInv, TypeOK
  <2> QED BY <1>1, <2>1 DEF CaseReport, Log
<1>3. \A j, k \in logs' : j.id = k.id => j = k
  <2>1. \A k \in logs : k.id = new.id => k = l
    BY <1>2 DEF LedgerInv
  <2> QED BY <1>2, <2>1 DEF LedgerInv
<1>4. \A k \in logs' : \E j \in logs : j.id = k.id /\ j.user = k.user
  BY <1>2
<1>5. \A k \in logs : \E j \in logs' : j.id = k.id /\ j.user = k.user
  BY <1>2
<1>6. LedgerInv'
  BY <1>2, <1>3, <1>4 DEF LedgerInv
<1>7. Uses' = Uses
  <2>1. \A k \in logs : [id |-> k.id, user |-> k.user] \in Uses'
    BY <1>5 DEF Uses
  <2>2. \A k \in logs' : [id |-> k.id, user |-> k.user] \in Uses
    BY <1>4 DEF Uses
  <2>3. Uses \subseteq Uses'
    BY <2>1 DEF Uses
  <2>4. Uses' \subseteq Uses
    BY <2>2 DEF Uses
  <2> QED BY <2>3, <2>4
<1> QED BY <1>2, <1>6, <1>7

LEMMA LedgerStep ==
    ASSUME LedgerInv, [Next]_vars
    PROVE  LedgerInv' /\ [Ledger!Next]_<<Uses, written>>
<1>1. TypeOK /\ TypeOK'
  BY TypeStep DEF LedgerInv
<1>2. CASE UNCHANGED vars
  <2>1. UNCHANGED <<logs, written, open>>
    BY <1>2 DEF vars, execLog
  <2> QED BY <1>1, <2>1 DEF LedgerInv, Uses
<1>3. CASE Next
  BY <1>1, <1>3, LedgerSteps, EndingKeepsLedger, ReadingKeepsLedger, WritingKeepsLedger,
     ResultKeepsLedger
<1> QED BY <1>2, <1>3

\* browser_vnc_service, release_hosts and the timeout task: whatever handlers
\* overlap, each step of theirs is a step of the ledger or leaves it alone, so
\* no report ends the log of another user, and no ended log comes back.
THEOREM LogsAreLedger == Spec => ImplementsLedger
<1>1. Init => LedgerInv /\ Ledger!Init
  BY TypeInit DEF Init, LedgerInv, Idle, Ledger!Init
<1>2. LedgerInv /\ [Next]_vars => LedgerInv' /\ [Ledger!Next]_<<Uses, written>>
  BY LedgerStep
<1>3. Spec => [][Ledger!Next]_<<Uses, written>>
  BY <1>1, <1>2, PTL DEF Spec
<1>4. Spec => Ledger!Init
  BY <1>1, PTL DEF Spec
<1> QED BY <1>3, <1>4, PTL DEF ImplementsLedger, Ledger!Spec, Uses

--------------------------------------------------------------------------------
(* The mail about a log: CaseTimeout.                                        *)

LogIsBefore == {p \in Nat \X Nat : p[1] < p[2]}

LEMMA OldestIn ==
    ASSUME NEW S \in SUBSET CaseLog, S # {}
    PROVE  Least(S) \in S
<1>1. OpToRel(<, Nat) = LogIsBefore
  BY DEF OpToRel, LogIsBefore
<1>2. IsWellFoundedOn(LogIsBefore, Nat)
  BY NatLessThanWellFounded, <1>1
<1>3. S \subseteq Nat
  BY BoundAssumption DEF CaseLog
<1>4. PICK x \in S : \A y \in S : <<y, x>> \notin LogIsBefore
  BY <1>2, <1>3, WFMin
<1>5. ASSUME NEW y \in S PROVE x <= y
  <2>1. x \in Nat /\ y \in Nat
    BY <1>3
  <2>2. <<y, x>> \in LogIsBefore <=> y < x
    BY <2>1 DEF LogIsBefore
  <2> QED BY <1>4, <2>1, <2>2
<1> QED BY <1>5 DEF Least

\* The task has sent the mail about l and not yet marked it.
Marking(i, l) == task[i].step = "mark" /\ task[i].log = l

\* The logs a round still has before it.
Ahead(i) == IF task[i].step \in {"round", "mark"} THEN task[i].left ELSE {}

\* A mail that counts is owed a mark only while its task has the log in hand.
MailsAreSettled ==
  \A i \in Instance, l \in CaseLog :
    /\ l \in Ahead(i) => told[i][l] <= lost[i][l]
    /\ ~log[l].notified /\ ~Marking(i, l) => told[i][l] <= lost[i][l]
    /\ Marking(i, l) => told[i][l] > 0

MailInv == MailTypeOK /\ MarkedIsTold /\ EachTellsOnce /\ MailsAreSettled

LEMMA Hands ==
    ASSUME MailTypeOK, NEW i \in Instance
    PROVE  /\ task[i] \in Task
           /\ Ahead(i) \subseteq CaseLog
           /\ task[i].step = "round" =>
                /\ Current(i) \in CaseLog /\ Current(i) \in Ahead(i)
                /\ Rest(i) \subseteq Ahead(i) /\ Current(i) \notin Rest(i)
           /\ task[i].step = "mark" => task[i].log \in CaseLog /\ task[i].left = Ahead(i)
<1>1. task[i] \in Task
  BY DEF MailTypeOK
<1>2. Ahead(i) \subseteq CaseLog
  BY <1>1 DEF Task, Off, Asleep, Ahead
<1>3. ASSUME task[i].step = "round"
      PROVE  task[i].left \in SUBSET CaseLog /\ task[i].left # {}
  BY <1>1, <1>3 DEF Task, Off, Asleep
<1>4. task[i].step = "round" => Current(i) \in task[i].left
  BY <1>3, OldestIn DEF Current
<1>5. task[i].step = "mark" => task[i].log \in CaseLog
  BY <1>1 DEF Task, Off, Asleep
<1> QED BY <1>1, <1>2, <1>4, <1>5 DEF Ahead, Rest

LEMMA RoundGoesOn ==
    ASSUME NEW i, NEW left \in SUBSET CaseLog
    PROVE  /\ After(i, left) \in Task
           /\ After(i, left).step \in {"asleep", "round"}
           /\ After(i, left).step = "round" => After(i, left).left = left
BY DEF After, Asleep, Round, Task

\* What a step of one task does to what all tasks have in hand.
LEMMA Handed ==
    ASSUME MailTypeOK, NEW i \in Instance, NEW hand \in Task,
           task' = [task EXCEPT ![i] = hand]
    PROVE  /\ task' \in [Instance -> Task]
           /\ task'[i] = hand
           /\ \A j \in Instance, l \in CaseLog :
                j # i => Ahead(j)' = Ahead(j) /\ Marking(j, l)' = Marking(j, l)
BY DEF MailTypeOK, Ahead, Marking

LEMMA MailInitInv == MailInit => MailInv
<1> SUFFICES ASSUME MailInit PROVE MailInv
  OBVIOUS
<1>1. MailTypeOK
  BY BoundAssumption DEF MailInit, MailTypeOK, Task, Asleep
<1>2. MarkedIsTold /\ EachTellsOnce
  BY DEF MailInit, MarkedIsTold, EachTellsOnce
<1>3. MailsAreSettled
  BY DEF MailInit, MailsAreSettled, Marking, Ahead, Asleep
<1> QED BY <1>1, <1>2, <1>3 DEF MailInv

\* The steps of a round that neither mail nor mark.
LEMMA QuietTask ==
    ASSUME MailInv, NEW i \in Instance, RoundBegins(i) \/ Skips(i) \/ Starts(i)
    PROVE  MailInv'
<1>1. PICK hand \in Task :
        /\ task' = [task EXCEPT ![i] = hand]
        /\ hand.step # "mark"
        /\ hand.step = "round" => \A l \in hand.left : l \in Ahead(i) \/ l \in Overdue
  <2>1. CASE RoundBegins(i)
    <3> DEFINE found == {l \in Overdue : Cardinality({k \in Overdue : k < l}) < Limit}
    <3>1. found \subseteq Overdue /\ Overdue \subseteq CaseLog
      BY DEF Overdue
    <3> HIDE DEF found
    <3>2. found # {} => Round(found) \in Task
      BY <3>1 DEF Task, Round
    <3>3. \/ found # {} /\ task' = [task EXCEPT ![i] = Round(found)]
          \/ task' = [task EXCEPT ![i] = Asleep]
      BY <2>1 DEF RoundBegins, Nothing, found
    <3>4. Asleep \in Task /\ Asleep.step = "asleep"
      BY DEF Task, Asleep
    <3>5. Round(found).step = "round" /\ Round(found).left = found
      BY DEF Round
    <3> QED BY <3>1, <3>2, <3>3, <3>4, <3>5
  <2>2. CASE Skips(i)
    <3>1. task[i].step = "round" /\ task' = [task EXCEPT ![i] = After(i, Rest(i))]
      BY <2>2 DEF Skips
    <3>2. Rest(i) \subseteq Ahead(i) /\ Rest(i) \in SUBSET CaseLog
      BY <3>1, Hands DEF MailInv
    <3>3. PICK hand : hand = After(i, Rest(i))
      OBVIOUS
    <3>4. /\ hand \in Task /\ hand.step \in {"asleep", "round"}
          /\ hand.step = "round" => hand.left = Rest(i)
      BY <3>2, <3>3, RoundGoesOn
    <3> QED BY <3>1, <3>2, <3>3, <3>4
  <2>3. CASE Starts(i)
    <3>1. Asleep \in Task /\ Asleep.step = "asleep"
      BY DEF Task, Asleep
    <3> QED BY <2>3, <3>1 DEF Starts
  <2> QED BY <2>1, <2>2, <2>3
<1>2. UNCHANGED <<rows, history>>
  BY DEF RoundBegins, Skips, Starts
<1>3. task[i].step # "mark"
  BY DEF RoundBegins, Skips, Starts, Asleep, Off
<1>4. /\ task' \in [Instance -> Task] /\ task'[i] = hand
      /\ \A j \in Instance, l \in CaseLog :
           j # i => Ahead(j)' = Ahead(j) /\ Marking(j, l)' = Marking(j, l)
  BY <1>1, Handed DEF MailInv
<1>5. MailTypeOK' /\ MarkedIsTold' /\ EachTellsOnce'
  BY <1>2, <1>4 DEF MailInv, MailTypeOK, MarkedIsTold, EachTellsOnce, rows, history
<1>6. MailsAreSettled'
  <2> SUFFICES ASSUME NEW j \in Instance, NEW l \in CaseLog
               PROVE  /\ l \in Ahead(j)' => told[j][l] <= lost[j][l]
                      /\ ~log[l].notified /\ ~Marking(j, l)' => told[j][l] <= lost[j][l]
                      /\ Marking(j, l)' => told[j][l] > 0
    BY <1>2 DEF MailsAreSettled, rows, history
  <2>1. CASE j # i
    BY <2>1, <1>4 DEF MailInv, MailsAreSettled
  <2>2. CASE j = i
    <3>1. ~Marking(i, l) /\ ~Marking(i, l)'
      BY <1>1, <1>3, <1>4 DEF Marking
    <3>2. l \in Ahead(i)' => l \in Ahead(i) \/ l \in Overdue
      BY <1>1, <1>4 DEF Ahead
    <3>3. l \in Overdue => ~log[l].notified
      BY DEF Overdue
    <3> QED BY <2>2, <3>1, <3>2, <3>3 DEF MailInv, MailsAreSettled
  <2> QED BY <2>1, <2>2
<1> QED BY <1>5, <1>6 DEF MailInv

\* What marks a log: the mail was sent, or the host is gone.
LEMMA MarkingTask ==
    ASSUME MailInv, NEW i \in Instance, Marks(i) \/ MarksSilently(i)
    PROVE  MailInv'
<1>1. PICK left \in SUBSET CaseLog :
        left \subseteq Ahead(i) /\ task' = [task EXCEPT ![i] = After(i, left)]
  BY Hands DEF MailInv, Marks, MarksSilently
<1>2. PICK marked \in CaseLog :
        /\ log' = [log EXCEPT ![marked].notified = TRUE]
        /\ \/ Marking(i, marked) /\ silent' = silent
           \/ task[i].step = "round" /\ silent' = silent \cup {marked}
        /\ task[i].step = "mark" => marked = task[i].log
  BY Hands DEF MailInv, Marks, MarksSilently, Marking, history
<1>3. UNCHANGED <<hosted, conf, told, lost>>
  BY DEF Marks, MarksSilently, history
<1>4. PICK hand \in Task :
        /\ task' = [task EXCEPT ![i] = hand] /\ hand.step \in {"asleep", "round"}
        /\ hand.step = "round" => hand.left = left
  BY <1>1, RoundGoesOn
<1>5. /\ task' \in [Instance -> Task] /\ task'[i] = hand
      /\ \A j \in Instance, l \in CaseLog :
           j # i => Ahead(j)' = Ahead(j) /\ Marking(j, l)' = Marking(j, l)
  BY <1>4, Handed DEF MailInv
<1>6. \A l \in CaseLog : log'[l].notified <=> log[l].notified \/ l = marked
  BY <1>2 DEF MailInv, MailTypeOK
<1>7. MailTypeOK'
  BY <1>2, <1>3, <1>5 DEF MailInv, MailTypeOK
<1>8. MarkedIsTold' /\ EachTellsOnce'
  <2>1. marked \in silent' \/ told[i][marked] > 0
    BY <1>2 DEF MailInv, MailsAreSettled
  <2>2. silent \subseteq silent'
    BY <1>2
  <2> QED BY <1>3, <1>6, <2>1, <2>2 DEF MailInv, MarkedIsTold, EachTellsOnce
<1>9. MailsAreSettled'
  <2> SUFFICES ASSUME NEW j \in Instance, NEW l \in CaseLog
               PROVE  /\ l \in Ahead(j)' => told[j][l] <= lost[j][l]
                      /\ ~log'[l].notified /\ ~Marking(j, l)' => told[j][l] <= lost[j][l]
                      /\ Marking(j, l)' => told[j][l] > 0
    BY <1>3 DEF MailsAreSettled
  <2>1. CASE j # i
    BY <2>1, <1>5, <1>6 DEF MailInv, MailsAreSettled
  <2>2. CASE j = i
    <3>1. ~Marking(i, l)' /\ (l \in Ahead(i)' => l \in Ahead(i))
      BY <1>1, <1>4, <1>5 DEF Marking, Ahead
    <3>2. l # marked => ~Marking(i, l)
      BY <1>2 DEF Marking
    <3> QED BY <2>2, <3>1, <3>2, <1>6 DEF MailInv, MailsAreSettled
  <2> QED BY <2>1, <2>2
<1> QED BY <1>7, <1>8, <1>9 DEF MailInv

\* A mail is sent for a log the round has before it, and never for one that is
\* owed a mark.
LEMMA MailingTask == ASSUME MailInv, NEW i \in Instance, Mails(i) PROVE MailInv'
<1>1. PICK l \in CaseLog : l = Current(i)
  BY Hands DEF MailInv, Mails
<1>2. PICK left \in SUBSET CaseLog : left = Rest(i)
  BY Hands DEF MailInv, Mails
<1>3. l \in Ahead(i) /\ left \subseteq Ahead(i) /\ l \notin left /\ task[i].step = "round"
  BY <1>1, <1>2, Hands DEF MailInv, Mails
<1>4. PICK hand \in Task : hand = [step |-> "mark", log |-> l, left |-> left]
  BY DEF Task
<1>5. /\ task' = [task EXCEPT ![i] = hand] /\ told[i][l] < MaxMail
      /\ told' = [told EXCEPT ![i][l] = @ + 1]
      /\ UNCHANGED <<log, hosted, conf, lost, silent>>
  BY <1>1, <1>2, <1>4 DEF Mails, Mailed
<1>6. /\ task' \in [Instance -> Task] /\ task'[i] = hand
      /\ \A j \in Instance, k \in CaseLog :
           j # i => Ahead(j)' = Ahead(j) /\ Marking(j, k)' = Marking(j, k)
  BY <1>5, Handed DEF MailInv
<1>7. \A j \in Instance, k \in CaseLog : told[j][k] \in 0 .. MaxMail /\ lost[j][k] \in 0 .. MaxLost
  BY DEF MailInv, MailTypeOK
<1>8. \A j \in Instance, k \in CaseLog :
        told'[j][k] = IF j = i /\ k = l THEN told[i][l] + 1 ELSE told[j][k]
  BY <1>5 DEF MailInv, MailTypeOK
<1>9. told[i][l] <= lost[i][l]
  BY <1>3 DEF MailInv, MailsAreSettled
<1>10. MailTypeOK'
  <2>1. told' \in [Instance -> [CaseLog -> 0 .. MaxMail]]
    BY <1>5, <1>7, BoundAssumption DEF MailInv, MailTypeOK
  <2> QED BY <2>1, <1>5, <1>6 DEF MailInv, MailTypeOK
<1>11. MarkedIsTold' /\ EachTellsOnce'
  BY <1>5, <1>7, <1>8, <1>9, BoundAssumption DEF MailInv, MarkedIsTold, EachTellsOnce
<1>12. MailsAreSettled'
  <2> SUFFICES ASSUME NEW j \in Instance, NEW k \in CaseLog
               PROVE  /\ k \in Ahead(j)' => told'[j][k] <= lost[j][k]
                      /\ ~log[k].notified /\ ~Marking(j, k)' => told'[j][k] <= lost[j][k]
                      /\ Marking(j, k)' => told'[j][k] > 0
    BY <1>5 DEF MailsAreSettled
  <2>1. CASE j # i
    BY <2>1, <1>6, <1>8 DEF MailInv, MailsAreSettled
  <2>2. CASE j = i
    <3>1. ~Marking(i, k) /\ (Marking(i, k)' <=> k = l) /\ Ahead(i)' = left
      BY <1>3, <1>4, <1>6 DEF Marking, Ahead
    <3> QED BY <2>2, <3>1, <1>3, <1>7, <1>8, BoundAssumption DEF MailInv, MailsAreSettled
  <2> QED BY <2>1, <2>2
<1> QED BY <1>10, <1>11, <1>12 DEF MailInv

\* A mail taken for failed is owed no mark: it counts on both sides.
LEMMA FailedMailTask == ASSUME MailInv, NEW i \in Instance, MailTakenForFailed(i) PROVE MailInv'
<1>1. PICK l \in CaseLog : l = Current(i)
  BY Hands DEF MailInv, MailTakenForFailed
<1>2. PICK left \in SUBSET CaseLog : left = Rest(i)
  BY Hands DEF MailInv, MailTakenForFailed
<1>3. l \in Ahead(i) /\ left \subseteq Ahead(i) /\ task[i].step = "round"
  BY <1>1, <1>2, Hands DEF MailInv, MailTakenForFailed
<1>4. PICK hand \in Task :
        /\ hand = After(i, left) /\ hand.step \in {"asleep", "round"}
        /\ hand.step = "round" => hand.left = left
  BY RoundGoesOn
<1>5. /\ task' = [task EXCEPT ![i] = hand] /\ told[i][l] < MaxMail /\ lost[i][l] < MaxLost
      /\ told' = [told EXCEPT ![i][l] = @ + 1] /\ lost' = [lost EXCEPT ![i][l] = @ + 1]
      /\ UNCHANGED <<log, hosted, conf, silent>>
  BY <1>1, <1>2, <1>4 DEF MailTakenForFailed, Mailed
<1>6. /\ task' \in [Instance -> Task] /\ task'[i] = hand
      /\ \A j \in Instance, k \in CaseLog :
           j # i => Ahead(j)' = Ahead(j) /\ Marking(j, k)' = Marking(j, k)
  BY <1>5, Handed DEF MailInv
<1>7. \A j \in Instance, k \in CaseLog : told[j][k] \in 0 .. MaxMail /\ lost[j][k] \in 0 .. MaxLost
  BY DEF MailInv, MailTypeOK
<1>8. \A j \in Instance, k \in CaseLog :
        /\ told'[j][k] = IF j = i /\ k = l THEN told[i][l] + 1 ELSE told[j][k]
        /\ lost'[j][k] = IF j = i /\ k = l THEN lost[i][l] + 1 ELSE lost[j][k]
  BY <1>5 DEF MailInv, MailTypeOK
<1>9. told[i][l] <= lost[i][l]
  BY <1>3 DEF MailInv, MailsAreSettled
<1>10. MailTypeOK'
  <2>1. told' \in [Instance -> [CaseLog -> 0 .. MaxMail]]
    BY <1>5, <1>7, BoundAssumption DEF MailInv, MailTypeOK
  <2>2. lost' \in [Instance -> [CaseLog -> 0 .. MaxLost]]
    BY <1>5, <1>7, BoundAssumption DEF MailInv, MailTypeOK
  <2> QED BY <2>1, <2>2, <1>5, <1>6 DEF MailInv, MailTypeOK
<1>11. MarkedIsTold' /\ EachTellsOnce'
  BY <1>5, <1>7, <1>8, <1>9, BoundAssumption DEF MailInv, MarkedIsTold, EachTellsOnce
<1>12. MailsAreSettled'
  <2> SUFFICES ASSUME NEW j \in Instance, NEW k \in CaseLog
               PROVE  /\ k \in Ahead(j)' => told'[j][k] <= lost'[j][k]
                      /\ ~log[k].notified /\ ~Marking(j, k)' => told'[j][k] <= lost'[j][k]
                      /\ Marking(j, k)' => told'[j][k] > 0
    BY <1>5 DEF MailsAreSettled
  <2>1. CASE j # i
    BY <2>1, <1>6, <1>8 DEF MailInv, MailsAreSettled
  <2>2. CASE j = i
    <3>1. ~Marking(i, k) /\ ~Marking(i, k)' /\ (k \in Ahead(i)' => k \in Ahead(i))
      BY <1>3, <1>4, <1>6 DEF Marking, Ahead
    <3> QED BY <2>2, <3>1, <1>7, <1>8, <1>9, BoundAssumption DEF MailInv, MailsAreSettled
  <2> QED BY <2>1, <2>2
<1> QED BY <1>10, <1>11, <1>12 DEF MailInv

\* A failed commit or a stop gives the log in hand back, with its mark lost.
LEMMA LosingTask == ASSUME MailInv, NEW i \in Instance, MarkFails(i) \/ Stops(i) PROVE MailInv'
<1>1. PICK hand \in Task :
        /\ task' = [task EXCEPT ![i] = hand] /\ hand.step \in {"off", "asleep", "round"}
        /\ hand.step = "round" => hand.left \subseteq Ahead(i)
  <2>1. CASE MarkFails(i)
    <3>1. task[i].left = Ahead(i) /\ task[i].left \in SUBSET CaseLog
      BY <2>1, Hands DEF MailInv, MarkFails
    <3>2. PICK hand : hand = After(i, task[i].left)
      OBVIOUS
    <3>3. /\ hand \in Task /\ hand.step \in {"asleep", "round"}
          /\ hand.step = "round" => hand.left = task[i].left
      BY <3>1, <3>2, RoundGoesOn
    <3> QED BY <2>1, <3>1, <3>2, <3>3 DEF MarkFails
  <2>2. CASE Stops(i)
    <3>1. Off \in Task /\ Off.step = "off"
      BY DEF Task, Off
    <3> QED BY <2>2, <3>1 DEF Stops
  <2> QED BY <2>1, <2>2
<1>2. UNCHANGED <<rows, told, silent>>
  BY DEF MarkFails, Stops
<1>3. /\ task' \in [Instance -> Task] /\ task'[i] = hand
      /\ \A j \in Instance, l \in CaseLog :
           j # i => Ahead(j)' = Ahead(j) /\ Marking(j, l)' = Marking(j, l)
  BY <1>1, Handed DEF MailInv
<1>4. \/ task[i].step # "mark" /\ lost' = lost
      \/ /\ task[i].step = "mark" /\ lost[i][task[i].log] < MaxLost
         /\ lost' = [lost EXCEPT ![i][task[i].log] = @ + 1]
  BY DEF MarkFails, Stops
<1>5. \A j \in Instance, l \in CaseLog : told[j][l] \in 0 .. MaxMail /\ lost[j][l] \in 0 .. MaxLost
  BY DEF MailInv, MailTypeOK
<1>6. \A j \in Instance, l \in CaseLog :
        lost'[j][l] = IF j = i /\ Marking(i, l) THEN lost[i][l] + 1 ELSE lost[j][l]
  BY <1>4, Hands DEF MailInv, MailTypeOK, Marking
<1>7. MailTypeOK'
  <2>1. lost' \in [Instance -> [CaseLog -> 0 .. MaxLost]]
    <3>1. CASE lost' = lost
      BY <3>1 DEF MailInv, MailTypeOK
    <3>2. CASE /\ task[i].step = "mark" /\ lost[i][task[i].log] < MaxLost
               /\ lost' = [lost EXCEPT ![i][task[i].log] = @ + 1]
      <4>1. task[i].log \in CaseLog
        BY <3>2, Hands DEF MailInv
      <4>2. lost[i][task[i].log] + 1 \in 0 .. MaxLost
        BY <3>2, <4>1, <1>5, BoundAssumption
      <4>3. lost \in [Instance -> [CaseLog -> 0 .. MaxLost]]
        BY DEF MailInv, MailTypeOK
      <4> QED BY <3>2, <4>1, <4>2, <4>3
    <3> QED BY <1>4, <3>1, <3>2
  <2> QED BY <2>1, <1>2, <1>3 DEF MailInv, MailTypeOK, rows
<1>8. \A j \in Instance, l \in CaseLog : lost'[j][l] \in Nat /\ lost[j][l] <= lost'[j][l]
  BY <1>5, <1>6, BoundAssumption
<1>9. MarkedIsTold'
  BY <1>2 DEF MailInv, MarkedIsTold, rows
<1>10. EachTellsOnce'
  BY <1>2, <1>5, <1>8, BoundAssumption DEF MailInv, EachTellsOnce
<1>11. MailsAreSettled'
  <2> SUFFICES ASSUME NEW j \in Instance, NEW l \in CaseLog
               PROVE  /\ l \in Ahead(j)' => told[j][l] <= lost'[j][l]
                      /\ ~log[l].notified /\ ~Marking(j, l)' => told[j][l] <= lost'[j][l]
                      /\ Marking(j, l)' => told[j][l] > 0
    BY <1>2 DEF MailsAreSettled, rows
  <2>1. told[j][l] \in Nat /\ lost[j][l] \in Nat /\ lost'[j][l] \in Nat /\ lost[j][l] <= lost'[j][l]
    BY <1>5, <1>8, BoundAssumption
  <2>2. CASE j # i
    BY <2>1, <2>2, <1>3 DEF MailInv, MailsAreSettled
  <2>3. CASE j = i
    <3>1. ~Marking(i, l)' /\ (l \in Ahead(i)' => l \in Ahead(i))
      BY <1>1, <1>3 DEF Marking, Ahead
    <3>2. Marking(i, l) => told[j][l] <= lost'[j][l]
      BY <2>1, <2>3, <1>6 DEF MailInv, EachTellsOnce
    <3> QED BY <2>1, <2>3, <3>1, <3>2 DEF MailInv, MailsAreSettled
  <2> QED BY <2>2, <2>3
<1> QED BY <1>7, <1>9, <1>10, <1>11 DEF MailInv

\* The other handlers mark nothing.
LEMMA RowsChange ==
    ASSUME MailInv,
           \/ \E l \in CaseLog : BecomesLate(l) \/ Ends(l) \/ HostDeleted(l)
           \/ SetMaintainEmail \/ Configured
    PROVE  MailInv'
<1> USE DEF BecomesLate, Ends, HostDeleted, SetMaintainEmail, Configured, history
<1>1. UNCHANGED <<task, told, lost, silent>>
  OBVIOUS
<1>2. /\ log' \in [CaseLog -> [running : BOOLEAN, late : BOOLEAN, notified : BOOLEAN]]
      /\ \A l \in CaseLog : log'[l].notified = log[l].notified
  <2>1. log \in [CaseLog -> [running : BOOLEAN, late : BOOLEAN, notified : BOOLEAN]]
    BY DEF MailInv, MailTypeOK
  <2>2. ASSUME NEW l \in CaseLog, BecomesLate(l)
        PROVE  \E b \in BOOLEAN : log' = [log EXCEPT ![l].late = b]
    BY <2>1, <2>2
  <2>3. ASSUME NEW l \in CaseLog, Ends(l)
        PROVE  log' = [log EXCEPT ![l].running = FALSE]
    BY <2>3
  <2>4. \/ log' = log
        \/ \E l \in CaseLog, b \in BOOLEAN :
             log' = [log EXCEPT ![l].late = b] \/ log' = [log EXCEPT ![l].running = b]
    BY <2>2, <2>3
  <2> HIDE DEF BecomesLate, Ends, HostDeleted, SetMaintainEmail, Configured
  <2> QED BY <2>1, <2>4
<1>3. hosted' \subseteq CaseLog \ Hostless /\ conf' \in Conf
  BY DEF MailInv, MailTypeOK, Conf
<1>4. MailTypeOK'
  BY <1>1, <1>2, <1>3 DEF MailInv, MailTypeOK
<1>5. MarkedIsTold' /\ EachTellsOnce'
  BY <1>1, <1>2 DEF MailInv, MarkedIsTold, EachTellsOnce
<1>6. \A i \in Instance, l \in CaseLog :
        Ahead(i)' = Ahead(i) /\ Marking(i, l)' = Marking(i, l)
  BY <1>1 DEF Ahead, Marking
<1>7. MailsAreSettled'
  BY <1>1, <1>2, <1>6 DEF MailInv, MailsAreSettled
<1> QED BY <1>4, <1>5, <1>7 DEF MailInv

LEMMA MailStepInv == MailInv /\ [MailNext]_mailVars => MailInv'
<1> SUFFICES ASSUME MailInv, [MailNext]_mailVars PROVE MailInv'
  OBVIOUS
<1>1. ASSUME NEW i \in Instance,
             TaskNext(i) \/ MailTakenForFailed(i) \/ MarkFails(i) \/ Stops(i) \/ Starts(i)
      PROVE  MailInv'
  BY <1>1, QuietTask, MarkingTask, MailingTask, FailedMailTask, LosingTask DEF TaskNext
<1>2. CASE UNCHANGED mailVars
  BY <1>2 DEF mailVars, rows, history, MailInv, MailTypeOK, MarkedIsTold, EachTellsOnce,
              MailsAreSettled, Marking, Ahead
<1> QED BY <1>1, <1>2, RowsChange DEF MailNext

LEMMA MailInvHolds == MailSpec => []MailInv
BY MailInitInv, MailStepInv, PTL DEF MailSpec

\* The rounds, their mails and their marks stay within their types, for every
\* set of instances and every number of logs.
THEOREM MailTypeCorrect == MailSpec => []MailTypeOK
<1>1. MailInv => MailTypeOK
  BY DEF MailInv
<1> QED BY <1>1, MailInvHolds, PTL

\* _process_timeout_case: wherever a task stops, and whatever other instances
\* do with the same log, a log is marked only after somebody was told or its
\* host was gone.
THEOREM NoMarkWithoutMail == MailSpec => []MarkedIsTold
<1>1. MailInv => MarkedIsTold
  BY DEF MailInv
<1> QED BY <1>1, MailInvHolds, PTL

\* _process_timeout_case: an instance repeats a mail only if it took one for
\* failed or lost the mark.  The argument is MailsAreSettled: a log an instance
\* may still come to, or may find again, has every mail of the instance about it
\* matched by one that left it unmarked.
THEOREM NoMailTwice == MailSpec => []EachTellsOnce
<1>1. MailInv => EachTellsOnce
  BY DEF MailInv
<1> QED BY <1>1, MailInvHolds, PTL

================================================================================
