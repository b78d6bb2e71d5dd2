---------------------------- MODULE HardwareApproval ----------------------------
(***************************************************************************)
(* Hardware reports of the agents and their approval by administrators:    *)
(* host_rec, host_hw_rec, the external hardware service and the Redis lock *)
(* around a creation there.                                                *)
(*                                                                         *)
(* approve_hosts reads a batch of hosts with their records, calls the      *)
(* external service host by host, and then writes the whole batch in one   *)
(* transaction that repeats no condition.  Reports, other approvals and    *)
(* the expiry of the lock may happen at each of these awaits.              *)
(***************************************************************************)
EXTENDS Naturals, FiniteSets, Sequences

CONSTANTS
    Host,
    Approval,   \* approve_hosts calls in progress
    None,
    MaxRecs,    \* bound: hardware records of a host
    MaxExternal \* bound: entries ever created in the external service

ASSUME NoneAssumption == None \notin Host \cup Approval
ASSUME BoundAssumption == MaxRecs \in Nat /\ MaxExternal \in Nat

VARIABLES
    state,      \* host_rec.host_state: inactive (5), change (6), other
    hw_id,      \* host_rec.hw_id: the index of a record, 0 for none
    hardware_id,\* host_rec.hardware_id: an entry of the external service, 0 for none
    recs,       \* host_hw_rec.sync_state of each host's records, oldest first
    external,   \* the external service: the host of each entry, oldest first
    lock,       \* Redis hardware_create_lock:{host_id}: the running call that holds it
    approval    \* the approval in progress of each Approval

hosts == <<state, hw_id, hardware_id, recs>>
vars == <<hosts, external, lock, approval>>

WAIT == 1
SUCCESS == 2
REJECTED == 4
RecId == 1 .. MaxRecs
ExternalId == 1 .. MaxExternal

\* What an approval will do for a host: the external call, the entry it
\* concerns or has created, the record to approve and the ones to reject.
Plan == [api : {"none", "create", "update"}, entry : ExternalId \cup {0},
         latest : RecId \cup {0}, others : SUBSET RecId]
NoPlan == [api |-> "none", entry |-> 0, latest |-> 0, others |-> {}]

\* call is the host whose external call is awaited, covered tells that the
\* lock taken for it has not expired.
Progress == [kind : {"idle", "manual", "change"}, todo : SUBSET Host, done : SUBSET Host,
             call : Host \cup {None}, covered : BOOLEAN, plan : [Host -> Plan]]
Idle == [kind |-> "idle", todo |-> {}, done |-> {}, call |-> None, covered |-> FALSE,
         plan |-> [h \in Host |-> NoPlan]]

TypeOK ==
    /\ state \in [Host -> {"inactive", "change", "other"}]
    /\ hw_id \in [Host -> RecId \cup {0}]
    /\ hardware_id \in [Host -> ExternalId \cup {0}]
    /\ recs \in [Host -> Seq({WAIT, SUCCESS, REJECTED})]
    /\ \A h \in Host : Len(recs[h]) <= MaxRecs
    /\ external \in Seq(Host)
    /\ Len(external) <= MaxExternal
    /\ lock \in [Host -> Approval \cup {None}]
    /\ approval \in [Approval -> Progress]

\* Devices that have logged in and reported nothing yet.
Init ==
    /\ state = [h \in Host |-> "inactive"]
    /\ hw_id = [h \in Host |-> 0]
    /\ hardware_id = [h \in Host |-> 0]
    /\ recs = [h \in Host |-> << >>]
    /\ external = << >>
    /\ lock = [h \in Host |-> None]
    /\ approval = [p \in Approval |-> Idle]

--------------------------------------------------------------------------------
(* The host table.                                                         *)

\* Mutant: a changed host is marked, and its record is not inserted.
ReportMarksOnly(h) ==
    /\ Len(recs[h]) < MaxRecs
    /\ \/ state' = [state EXCEPT ![h] = "change"] /\ UNCHANGED recs
       \/ recs' = [recs EXCEPT ![h] = Append(@, WAIT)] /\ UNCHANGED state
    /\ UNCHANGED <<hw_id, hardware_id, external, lock, approval>>

\* _insert_hardware_record: it waits for approval.
InsertWaiting(h) ==
    /\ Len(recs[h]) < MaxRecs
    /\ recs' = [recs EXCEPT ![h] = Append(@, WAIT)]

\* The revision or the content differs from the latest record, the comparison
\* failed, or the agent reported an exception: one transaction marks the host
\* and inserts.
ReportDiffers(h) == InsertWaiting(h) /\ state' = [state EXCEPT ![h] = "change"]

\* The report is taken for a first one, and the host is not marked.
ReportFirst(h) == InsertWaiting(h) /\ UNCHANGED state

\* report_hardware reads the latest record in a transaction of its own, so
\* either may follow from what it read; a read that fails counts as no record.
\* A report without a difference, or one refused, writes nothing.
ReportHardware(h) ==
    /\ ReportDiffers(h) \/ ReportFirst(h)
    /\ UNCHANGED <<hw_id, hardware_id, external, lock, approval>>

\* What the module HostLease has: the host gets another state, and a handler
\* that read it earlier may write over a change.
LeaseWrites(h) ==
    /\ state' = [state EXCEPT ![h] = "other"]
    /\ UNCHANGED <<hw_id, hardware_id, recs, external, lock, approval>>

--------------------------------------------------------------------------------
(* approve_hosts: the read, and one host after the other.                  *)

Waiting(h) == {i \in DOMAIN recs[h] : recs[h][i] = WAIT}

Newest(S) == CHOOSE i \in S : \A j \in S : j <= i

CallFor(h) == IF state[h] = "change" /\ hardware_id[h] # 0 THEN "update" ELSE "create"

Entry(api, h) == IF api = "update" THEN hardware_id[h] ELSE 0

\* diff_type 1 and 2: the newest waiting record is approved, the others are
\* rejected.
ChangePlan(h) ==
    IF Waiting(h) = {} THEN NoPlan
    ELSE [api |-> CallFor(h), entry |-> Entry(CallFor(h), h),
          latest |-> Newest(Waiting(h)), others |-> Waiting(h) \ {Newest(Waiting(h))}]

\* No diff_type: no record is touched, and only an inactive or changed host
\* with a record is told to the external service.
ManualPlan(h) ==
    LET api == IF state[h] # "other" /\ recs[h] # << >> THEN CallFor(h) ELSE "none"
    IN  [api |-> api, entry |-> Entry(api, h), latest |-> 0, others |-> {}]

\* The hosts of one call: those it names, or every host that waits for the
\* approval of another version; a call for no host does nothing.
Batch == (SUBSET Host) \ {{}}

\* Hosts and records are read in one snapshot.
ApprovalReads(p, H) ==
    /\ approval[p] = Idle
    /\ \/ approval' = [approval EXCEPT ![p] = [Idle EXCEPT !.kind = "change", !.todo = H,
              !.plan = [h \in Host |-> IF h \in H THEN ChangePlan(h) ELSE NoPlan]]]
       \/ approval' = [approval EXCEPT ![p] = [Idle EXCEPT !.kind = "manual", !.todo = H,
              !.plan = [h \in Host |-> IF h \in H THEN ManualPlan(h) ELSE NoPlan]]]
    /\ UNCHANGED <<hosts, external, lock>>

\* Between two hosts, with h next.
NextHost(p, h) == approval[p].call = None /\ h \in approval[p].todo

\* The batch goes on without the host, which is not written.
LeftOut(p, h) ==
    LET a == approval[p] IN
    approval' = [approval EXCEPT ![p] =
        [a EXCEPT !.todo = a.todo \ {h}, !.call = None, !.covered = FALSE,
                  !.plan = [a.plan EXCEPT ![h] = NoPlan]]]

\* A BusinessError leaves the host out of a manual batch and ends any other
\* one, which then writes nothing.
Failed(p, h) ==
    \/ approval[p].kind = "change" /\ approval' = [approval EXCEPT ![p] = Idle]
    \/ approval[p].kind # "change" /\ LeftOut(p, h)

\* The host was deleted before the read, or another exception came before its
\* call: a batch of either kind goes on with the next host.
HostLeftOut(p, h) ==
    /\ NextHost(p, h)
    /\ LeftOut(p, h)
    /\ UNCHANGED <<hosts, external, lock>>

\* A changed host without a waiting record: HARDWARE_NOT_FOUND.
NothingToApprove(p, h) ==
    /\ NextHost(p, h)
    /\ approval[p].kind = "change" /\ approval[p].plan[h] = NoPlan
    /\ Failed(p, h)
    /\ UNCHANGED <<hosts, external, lock>>

EnabledWithoutCall(p, h) ==
    /\ NextHost(p, h)
    /\ approval[p].kind = "manual" /\ approval[p].plan[h].api = "none"
    /\ approval' = [approval EXCEPT ![p].todo = @ \ {h}, ![p].done = @ \cup {h}]
    /\ UNCHANGED <<hosts, external, lock>>

--------------------------------------------------------------------------------
(* The call of the external service, and the lock around a creation.       *)

CreateLocked(p, h) ==
    /\ NextHost(p, h) /\ approval[p].plan[h].api = "create"
    /\ lock[h] = None
    /\ lock' = [lock EXCEPT ![h] = p]
    /\ approval' = [approval EXCEPT ![p].call = h, ![p].covered = TRUE]
    /\ UNCHANGED <<hosts, external>>

\* Without a connection to Redis the creation goes on uncovered.
CreateUncovered(p, h) ==
    /\ NextHost(p, h) /\ approval[p].plan[h].api = "create"
    /\ approval' = [approval EXCEPT ![p].call = h]
    /\ UNCHANGED <<hosts, external, lock>>

\* 409: the lock is held, or was left behind by a call that is over, or Redis
\* fails.  A lock left behind is not kept in the model: what it can do is to
\* refuse, and it may expire at any time.
CreateRefused(p, h) ==
    /\ NextHost(p, h) /\ approval[p].plan[h].api = "create"
    /\ Failed(p, h)
    /\ UNCHANGED <<hosts, external, lock>>

Update(p, h) ==
    /\ NextHost(p, h) /\ approval[p].plan[h].api = "update"
    /\ approval' = [approval EXCEPT ![p].call = h]
    /\ UNCHANGED <<hosts, external, lock>>

\* Mutant: the lock is deleted whoever holds it now.
ReleasedBlindly(p, h) == lock' = [lock EXCEPT ![h] = None]

\* release_lock deletes the key if it still has the value of this call.
Released(p, h) == lock' = [lock EXCEPT ![h] = IF @ = p THEN None ELSE @]

\* The external service creates an entry for h.
Created(h) ==
    /\ Len(external) < MaxExternal
    /\ external' = Append(external, h)

\* What the call of p for h does there.
Performed(p, h) ==
    IF approval[p].plan[h].api = "create" THEN Created(h) ELSE UNCHANGED external

\* The id in the answer: the new entry, or the one that was updated.
Answer(p, h) ==
    IF approval[p].plan[h].api = "create" THEN Len(external) + 1 ELSE approval[p].plan[h].entry

\* Mutant: what one call returned is taken for the other hosts of the batch
\* too.
ReturnsForAll(p, h) ==
    /\ approval[p].call = h
    /\ Performed(p, h)
    /\ approval' = [approval EXCEPT
           ![p].plan = [g \in Host |-> [@[g] EXCEPT !.entry = Answer(p, h)]],
           ![p].todo = @ \ {h}, ![p].done = @ \cup {h}, ![p].call = None, ![p].covered = FALSE]
    /\ Released(p, h)
    /\ UNCHANGED hosts

CallReturns(p, h) ==
    /\ approval[p].call = h
    /\ Performed(p, h)
    /\ approval' = [approval EXCEPT ![p].plan[h].entry = Answer(p, h),
           ![p].todo = @ \ {h}, ![p].done = @ \cup {h}, ![p].call = None, ![p].covered = FALSE]
    /\ Released(p, h)
    /\ UNCHANGED hosts

\* An error, an answer without an id or a lost answer: an entry may exist.
CallFails(p, h) ==
    /\ approval[p].call = h
    /\ UNCHANGED external \/ Performed(p, h)
    /\ Released(p, h)
    /\ Failed(p, h)
    /\ UNCHANGED hosts

\* The key lives for 30 seconds.
LockExpires(h) ==
    /\ lock[h] # None
    /\ lock' = [lock EXCEPT ![h] = None]
    /\ approval' = [p \in Approval |->
           IF lock[h] = p THEN [approval[p] EXCEPT !.covered = FALSE] ELSE approval[p]]
    /\ UNCHANGED <<hosts, external>>

--------------------------------------------------------------------------------
(* The commit.                                                             *)

Settled(plan, i, sync) ==
    IF i = plan.latest THEN SUCCESS ELSE IF i \in plan.others THEN REJECTED ELSE sync

\* Mutant: the host keeps the record it pointed to.
CommitKeepsPointer(p) ==
    LET a == approval[p] IN
    /\ a.kind # "idle" /\ a.todo = {}
    /\ state' = [h \in Host |-> IF h \in a.done THEN "other" ELSE state[h]]
    /\ hardware_id' = [h \in Host |->
           IF h \in a.done /\ a.plan[h].entry # 0 THEN a.plan[h].entry ELSE hardware_id[h]]
    /\ recs' = [h \in Host |-> IF h \notin a.done THEN recs[h]
           ELSE [i \in DOMAIN recs[h] |-> Settled(a.plan[h], i, recs[h][i])]]
    /\ approval' = [approval EXCEPT ![p] = Idle]
    /\ hw_id' = [h \in Host |->
           IF h \in a.done /\ a.plan[h].latest # 0 /\ hw_id[h] = 0
           THEN a.plan[h].latest ELSE hw_id[h]]
    /\ UNCHANGED <<external, lock>>

\* One transaction for every host that was done.
ApprovalCommits(p) ==
    LET a == approval[p] IN
    /\ a.kind # "idle" /\ a.todo = {}
    /\ state' = [h \in Host |-> IF h \in a.done THEN "other" ELSE state[h]]
    /\ hardware_id' = [h \in Host |->
           IF h \in a.done /\ a.plan[h].entry # 0 THEN a.plan[h].entry ELSE hardware_id[h]]
    /\ hw_id' = [h \in Host |->
           IF h \in a.done /\ a.plan[h].latest # 0 THEN a.plan[h].latest ELSE hw_id[h]]
    /\ recs' = [h \in Host |-> IF h \notin a.done THEN recs[h]
           ELSE [i \in DOMAIN recs[h] |-> Settled(a.plan[h], i, recs[h][i])]]
    /\ approval' = [approval EXCEPT ![p] = Idle]
    /\ UNCHANGED <<external, lock>>

\* The instance stops, or the commit fails.
Aborts(p) ==
    /\ approval[p] # Idle
    /\ lock' = [h \in Host |-> IF lock[h] = p THEN None ELSE lock[h]]
    /\ approval' = [approval EXCEPT ![p] = Idle]
    /\ UNCHANGED <<hosts, external>>

--------------------------------------------------------------------------------
HostStep(p, h) ==
    \/ HostLeftOut(p, h) \/ NothingToApprove(p, h) \/ EnabledWithoutCall(p, h)
    \/ CreateLocked(p, h) \/ CreateUncovered(p, h) \/ CreateRefused(p, h) \/ Update(p, h)
    \/ CallReturns(p, h) \/ CallFails(p, h)

Next ==
    \/ \E h \in Host : ReportHardware(h) \/ LeaseWrites(h) \/ LockExpires(h)
    \/ \E p \in Approval :
        \/ \E H \in Batch : ApprovalReads(p, H)
        \/ \E h \in Host : HostStep(p, h)
        \/ ApprovalCommits(p) \/ Aborts(p)

Spec == Init /\ [][Next]_vars

--------------------------------------------------------------------------------
(* Properties.                                                             *)

\* A host that waits for the approval of a change has a record to approve.
\* Reports write both and approvals settle both, each in one transaction; a
\* host left in the state without a record could not be approved any more, as
\* _process_hardware_change_approval raises HARDWARE_NOT_FOUND.
ChangeIsPending == \A h \in Host : state[h] = "change" => Waiting(h) # {}

\* The record host_rec.hw_id points to is approved, in whatever order
\* overlapping approvals write the records and the pointer.
PointsToApproved ==
    \A h \in Host : hw_id[h] # 0 => hw_id[h] \in DOMAIN recs[h] /\ recs[h][hw_id[h]] = SUCCESS

\* host_rec.hardware_id is an entry that was created for this host, also when
\* several hosts of a batch create and other approvals run: updates and the
\* deletion of the host go to that entry.
PointsToOwnEntry ==
    \A h \in Host :
        hardware_id[h] # 0 => hardware_id[h] \in DOMAIN external /\ external[hardware_id[h]] = h

\* A creation whose lock has not expired holds it: nobody else released it,
\* so two such creations of one host never overlap.
CreatorHoldsLock ==
    \A p \in Approval : approval[p].covered => lock[approval[p].call] = p

================================================================================
