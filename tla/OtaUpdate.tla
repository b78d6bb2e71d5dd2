----------------------------- MODULE OtaUpdate ----------------------------
(***************************************************************************)
(* Upgrades of one agent and one application: deploy_ota_config and its    *)
(* callback of admin_ota_service.py, report_ota_update_status and          *)
(* get_latest_ota_configs of agent_report_service.py, the rows of host_upd *)
(* and the configuration that agents ask for, in sys_conf and in Redis.    *)
(*                                                                         *)
(* The way a deployment takes to the agent is InstanceBus; here an agent   *)
(* confirms and reports whatever it likes, late and twice.  Rows have      *)
(* numbers in the order of their insertion.                                *)
(***************************************************************************)
EXTENDS Naturals, Sequences, FiniteSets

CONSTANTS
  Instance,  \* running copies of the host service
  Version,   \* versions of the application
  Reports,   \* calls of the report endpoint at one time
  Queries,   \* calls of get_latest_ota_configs at one time
  None,
  MaxRow     \* bound: rows

ASSUME RowAssumption == MaxRow \in Nat
ASSUME NoneAssumption == None \notin Version

VARIABLES
  conf,      \* the version in sys_conf
  cache,     \* ota_configs:latest in Redis, or None
  query,     \* what a query has read in sys_conf and not yet cached, or None
  deploying, \* instances between the commit of a deployment and its broadcast
  callback,  \* instances whose ota_deploy_notification handler is registered
  rows,      \* host_upd of the agent and the application
  report     \* what the session of a report has read

confVars == <<conf, cache, query, deploying>>
vars == <<conf, cache, query, deploying, callback, rows, report>>

\* app_state and biz_state.
PreUpdate == 0
Updating  == 1
Succeeded == 2
Failed    == 3
State     == {PreUpdate, Updating, Succeeded, Failed}

NoReport == [step |-> "idle"]

Init ==
  /\ conf \in Version /\ cache = None
  /\ query = [q \in Queries |-> None] /\ deploying = {}
  /\ callback = {} /\ rows = <<>>
  /\ report = [r \in Reports |-> NoReport]

-----------------------------------------------------------------------------
\* deploy_ota_config commits the version in sys_conf; the row has to exist.  One
\* deployment at a time on an instance.
DeployCommits(i, v) ==
  /\ i \notin deploying
  /\ conf' = v /\ deploying' = deploying \cup {i}
  /\ UNCHANGED <<cache, query, callback, rows, report>>

\* It deletes the cached list, an error of Redis being ignored, registers the
\* handler on the instance the administrator has reached, and broadcasts.
DeployAnnounces(i) ==
  /\ i \in deploying
  /\ deploying' = deploying \ {i}
  /\ cache' \in {None, cache}
  /\ callback' = callback \cup {i}
  /\ UNCHANGED <<conf, query, rows, report>>

\* A restart forgets the handler, and what a deployment had left to do.
Restart(i) ==
  /\ callback' = callback \ {i} /\ deploying' = deploying \ {i}
  /\ UNCHANGED <<conf, cache, query, rows, report>>

\* Mutant: a hit is cached again, so that its five minutes start anew.
QueryReadsSliding(q) ==
  /\ query[q] = None
  /\ query' = [query EXCEPT ![q] = IF cache = None THEN conf ELSE cache]
  /\ UNCHANGED <<conf, cache, deploying, callback, rows, report>>

\* get_latest_ota_configs when Redis has no list, or does not answer: a hit
\* changes nothing.
QueryReads(q) ==
  /\ query[q] = None
  /\ query' = [query EXCEPT ![q] = conf]
  /\ UNCHANGED <<conf, cache, deploying, callback, rows, report>>

\* It caches what it has read, whatever has happened since, or Redis fails.
QueryCaches(q) ==
  /\ query[q] # None
  /\ cache' \in {query[q], cache}
  /\ query' = [query EXCEPT ![q] = None]
  /\ UNCHANGED <<conf, deploying, callback, rows, report>>

\* The entry lives 300 seconds.
CacheExpires ==
  /\ cache # None /\ cache' = None
  /\ UNCHANGED <<conf, query, deploying, callback, rows, report>>

\* _handle_ota_deploy_notification.  On another instance the agent is told that
\* the type of its message is unknown.
Confirm(i, v) ==
  /\ i \in callback /\ Len(rows) < MaxRow
  /\ rows' = Append(rows, [ver |-> v, state |-> PreUpdate, live |-> TRUE, reported |-> FALSE])
  /\ UNCHANGED <<confVars, callback, report>>

-----------------------------------------------------------------------------
(* report_ota_update_status: a SELECT, and from its first UPDATE on a       *)
(* transaction that sees what others have committed, and locks it.          *)

\* The rows a report looks for; it takes the newest.
Live(v) == {k \in DOMAIN rows : rows[k].live /\ rows[k].ver = v}

ReportReads(r, v, s) ==
  /\ report[r] = NoReport
  /\ \/ /\ Live(v) = {}
        /\ report' = [report EXCEPT ![r] = [step |-> "insert", ver |-> v, state |-> s]]
     \/ \E k \in Live(v) :
          /\ \A j \in Live(v) : j <= k
          /\ report' = [report EXCEPT ![r] = [step |-> "update", row |-> k, state |-> s]]
  /\ UNCHANGED <<confVars, callback, rows>>

\* Mutant: only the rows of the reported version are deleted.
SupersededSame(v) == [k \in DOMAIN rows |-> [rows[k] EXCEPT !.live = @ /\ rows[k].ver # v]]

\* Every row of the application is deleted before one is inserted.
Superseded(v) == [k \in DOMAIN rows |-> [rows[k] EXCEPT !.live = FALSE]]

\* A row is deleted as soon as its update has succeeded.  What that means for
\* host_rec is in HostLease.
ReportInserts(r) ==
  /\ report[r].step = "insert" /\ Len(rows) < MaxRow
  /\ LET p == report[r] IN
       rows' = Append(Superseded(p.ver),
                      [ver |-> p.ver, state |-> p.state, live |-> p.state # Succeeded,
                       reported |-> TRUE])
  /\ report' = [report EXCEPT ![r] = NoReport]
  /\ UNCHANGED <<confVars, callback>>

\* The row is found by its id, deleted or not.
Updated(k, s) ==
  IF s = Succeeded THEN [rows EXCEPT ![k].state = s, ![k].live = FALSE]
                   ELSE [rows EXCEPT ![k].state = s]

ReportUpdates(r) ==
  /\ report[r].step = "update"
  /\ rows' = Updated(report[r].row, report[r].state)
  /\ report' = [report EXCEPT ![r] = NoReport]
  /\ UNCHANGED <<confVars, callback>>

\* Two inserting transactions deadlock, or the database fails.
ReportFails(r) ==
  /\ report[r] # NoReport
  /\ report' = [report EXCEPT ![r] = NoReport]
  /\ UNCHANGED <<confVars, callback, rows>>

Next ==
  \/ \E i \in Instance :
       \/ DeployAnnounces(i) \/ Restart(i)
       \/ \E v \in Version : DeployCommits(i, v) \/ Confirm(i, v)
  \/ \E q \in Queries : QueryReads(q) \/ QueryCaches(q)
  \/ CacheExpires
  \/ \E r \in Reports :
       \/ ReportInserts(r) \/ ReportUpdates(r) \/ ReportFails(r)
       \/ \E v \in Version, s \in State \ {PreUpdate} : ReportReads(r, v, s)

Spec == Init /\ [][Next]_vars

\* Redis expires its entries, and a query that has read comes to its end.
Fairness ==
  /\ WF_vars(CacheExpires)
  /\ \A q \in Queries : WF_vars(QueryCaches(q))

FairSpec == Spec /\ Fairness

-----------------------------------------------------------------------------
Row == [ver : Version, state : State, live : BOOLEAN, reported : BOOLEAN]

Report ==
  {NoReport}
    \cup [step : {"insert"}, ver : Version, state : State]
    \cup [step : {"update"}, row : Nat \ {0}, state : State]

ConfTypes ==
  /\ conf \in Version /\ cache \in Version \cup {None}
  /\ query \in [Queries -> Version \cup {None}]
  /\ deploying \subseteq Instance

TypeOK ==
  /\ ConfTypes /\ callback \subseteq Instance
  /\ rows \in Seq(Row) /\ Len(rows) <= MaxRow
  /\ report \in [Reports -> Report]
  /\ \A r \in Reports : report[r].step = "update" => report[r].row <= Len(rows)

(* Of the live rows, only the oldest can come from a report: whatever was   *)
(* valid before a report inserted its row is not valid after it, however    *)
(* reports and callbacks overlap.                                           *)
ReportSupersedes ==
  \A j, k \in DOMAIN rows : (j < k /\ rows[k].live /\ rows[k].reported) => ~rows[j].live

(* A row that was deleted stays so, also when a report that has read it     *)
(* before writes to it afterwards.                                          *)
DeletedStaysDeleted ==
  [][\A k \in DOMAIN rows : ~rows[k].live => ~rows'[k].live]_vars

(* A version that stays deployed is in the end the only one that agents are *)
(* told, although a query may cache its predecessor after the deployment    *)
(* has deleted the entry.                                                   *)
DeploymentIsSeen ==
  \A v \in Version : <>[](conf = v) => <>[](cache \in {None, v})
=============================================================================
