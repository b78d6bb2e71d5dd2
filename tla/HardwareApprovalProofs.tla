------------------------- MODULE HardwareApprovalProofs -------------------------
(***************************************************************************)
(* The invariants of hardware reports and approvals, for every set of      *)
(* hosts and of overlapping approvals.                                     *)
(***************************************************************************)
EXTENDS HardwareApproval, TLAPS, WellFoundedInduction

\* What an approval read or was answered stays true until it commits: its
\* record exists, its entry was created for the host.  It rejects records only
\* when it approves one.
PlanFits(plan, h) ==
    /\ plan.latest <= Len(recs[h])
    /\ plan.latest = 0 => plan.others = {}
    /\ plan.entry # 0 => plan.entry \in DOMAIN external /\ external[plan.entry] = h

PlansFit == \A p \in Approval, h \in Host : PlanFits(approval[p].plan[h], h)

LockFits == \A p \in Approval :
    approval[p].covered => approval[p].call \in Host /\ lock[approval[p].call] = p

AInv ==
    /\ TypeOK /\ PlansFit /\ LockFits
    /\ ChangeIsPending /\ PointsToApproved /\ PointsToOwnEntry

--------------------------------------------------------------------------------
(* The newest of some records.                                             *)

Less == {p \in Nat \X Nat : p[1] < p[2]}

LEMMA LeastNat ==
    ASSUME NEW S \in SUBSET Nat, S # {}
    PROVE  \E x \in S : \A y \in S : x <= y
<1>1. OpToRel(<, Nat) = Less
  BY DEF OpToRel, Less
<1>2. IsWellFoundedOn(Less, Nat)
  BY NatLessThanWellFounded, <1>1
<1>3. PICK x \in S : \A y \in S : <<y, x>> \notin Less
  BY <1>2, WFMin
<1>4. ASSUME NEW y \in S PROVE x <= y
  <2>1. x \in Nat /\ y \in Nat
    OBVIOUS
  <2>2. <<y, x>> \in Less <=> y < x
    BY <2>1 DEF Less
  <2> QED BY <2>1, <2>2, <1>3
<1> QED BY <1>4

LEMMA NewestIn ==
    ASSUME NEW K \in Nat, NEW S \in SUBSET (1 .. K), S # {}
    PROVE  Newest(S) \in S
<1> DEFINE T == {K - i : i \in S}
<1>1. T \in SUBSET Nat
  BY \A i \in S : i \in 1 .. K
<1>2. T # {}
  OBVIOUS
<1>3. PICK t \in T : \A y \in T : t <= y
  <2> HIDE DEF T
  <2> QED BY <1>1, <1>2, LeastNat
<1>4. PICK x \in S : t = K - x
  OBVIOUS
<1>5. ASSUME NEW y \in S PROVE y <= x
  <2>1. K - y \in T
    OBVIOUS
  <2> QED BY <2>1, <1>3, <1>4
<1>6. \E i \in S : \A j \in S : j <= i
  BY <1>5
<1> QED BY <1>6 DEF Newest

--------------------------------------------------------------------------------
(* The plans an approval makes.                                            *)

LEMMA NoPlanFits ==
    ASSUME TypeOK, NEW h \in Host
    PROVE  NoPlan \in Plan /\ PlanFits(NoPlan, h)
BY DEF TypeOK, NoPlan, Plan, PlanFits, RecId, ExternalId

LEMMA IdleFits ==
    ASSUME TypeOK
    PROVE  Idle \in Progress /\ \A h \in Host : PlanFits(Idle.plan[h], h)
<1>1. \A h \in Host : NoPlan \in Plan /\ PlanFits(NoPlan, h)
  BY NoPlanFits
<1> QED BY <1>1 DEF Idle, Progress

LEMMA CallTypes ==
    ASSUME TypeOK, PointsToOwnEntry, NEW h \in Host,
           NEW api \in {"none", "create", "update"}
    PROVE  /\ CallFor(h) \in {"none", "create", "update"}
           /\ Entry(api, h) \in ExternalId \cup {0}
           /\ Entry(api, h) # 0
                => Entry(api, h) \in DOMAIN external /\ external[Entry(api, h)] = h
BY DEF TypeOK, PointsToOwnEntry, CallFor, Entry

LEMMA ChangePlanFits ==
    ASSUME TypeOK, PointsToOwnEntry, NEW h \in Host
    PROVE  ChangePlan(h) \in Plan /\ PlanFits(ChangePlan(h), h)
<1>1. CASE Waiting(h) = {}
  BY <1>1, NoPlanFits DEF ChangePlan
<1>2. CASE Waiting(h) # {}
  <2>1. Len(recs[h]) \in Nat /\ Len(recs[h]) <= MaxRecs
        /\ Waiting(h) \in SUBSET (1 .. Len(recs[h]))
    BY DEF TypeOK, Waiting
  <2>2. Newest(Waiting(h)) \in Waiting(h)
    BY <1>2, <2>1, NewestIn
  <2>3. /\ Waiting(h) \in SUBSET RecId /\ Newest(Waiting(h)) <= Len(recs[h])
        /\ Newest(Waiting(h)) # 0
    BY <2>1, <2>2, BoundAssumption DEF RecId
  <2> QED BY <1>2, <2>2, <2>3, CallTypes DEF ChangePlan, Plan, PlanFits
<1> QED BY <1>1, <1>2

LEMMA ManualPlanFits ==
    ASSUME TypeOK, PointsToOwnEntry, NEW h \in Host
    PROVE  ManualPlan(h) \in Plan /\ PlanFits(ManualPlan(h), h)
<1> DEFINE api == IF state[h] # "other" /\ recs[h] # << >> THEN CallFor(h) ELSE "none"
<1>1. api \in {"none", "create", "update"}
  BY CallTypes
<1>2. ManualPlan(h) = [api |-> api, entry |-> Entry(api, h), latest |-> 0, others |-> {}]
  BY DEF ManualPlan
<1>3. Len(recs[h]) \in Nat
  BY DEF TypeOK
<1> HIDE DEF api
<1> QED BY <1>1, <1>2, <1>3, CallTypes DEF Plan, PlanFits

--------------------------------------------------------------------------------
(* Steps.                                                                  *)

\* The external service only adds entries.
ExternalGrows ==
    /\ external' \in Seq(Host) /\ Len(external') <= MaxExternal
    /\ Len(external) <= Len(external')
    /\ \A e \in DOMAIN external : external'[e] = external[e]

LEMMA CreatedGrows ==
    ASSUME TypeOK, NEW h \in Host, Created(h)
    PROVE  /\ ExternalGrows
           /\ Len(external) + 1 \in ExternalId /\ Len(external) + 1 \in DOMAIN external'
           /\ external'[Len(external) + 1] = h
BY BoundAssumption DEF TypeOK, Created, ExternalGrows, ExternalId

LEMMA UnchangedGrows == ASSUME TypeOK, UNCHANGED external PROVE ExternalGrows
BY DEF TypeOK, ExternalGrows

\* A plan stays fit while records and entries are only added.
LEMMA FitsStay ==
    ASSUME TypeOK, UNCHANGED recs, ExternalGrows,
           NEW plan \in Plan, NEW h \in Host, PlanFits(plan, h)
    PROVE  PlanFits(plan, h)'
BY DEF TypeOK, PlanFits, ExternalGrows, Plan, ExternalId

\* A step of one approval that leaves the host table alone.
LEMMA ApprovalStep ==
    ASSUME AInv, UNCHANGED hosts, ExternalGrows, NEW p \in Approval, NEW a \in Progress,
           approval' = [approval EXCEPT ![p] = a],
           \A h \in Host : PlanFits(a.plan[h], h)',
           lock' \in [Host -> Approval \cup {None}],
           a.covered => a.call \in Host /\ lock'[a.call] = p,
           \A h \in Host : lock[h] \in Approval \ {p} => lock'[h] = lock[h]
    PROVE  AInv'
<1>1. TypeOK'
  BY DEF AInv, TypeOK, hosts, ExternalGrows
<1>2. PlansFit'
  <2> SUFFICES ASSUME NEW q \in Approval, NEW h \in Host
               PROVE  PlanFits(approval[q].plan[h], h)'
    BY DEF PlansFit
  <2>1. CASE q = p
    BY <2>1 DEF AInv, TypeOK
  <2>2. CASE q # p
    <3>1. approval'[q] = approval[q] /\ approval[q].plan[h] \in Plan
      BY <2>2 DEF AInv, TypeOK, Progress
    <3>2. PlanFits(approval[q].plan[h], h)
      BY DEF AInv, PlansFit
    <3>3. TypeOK /\ UNCHANGED recs
      BY DEF AInv, hosts
    <3>4. /\ approval'[q].plan[h].latest <= Len(recs'[h])
          /\ approval'[q].plan[h].latest = 0 => approval'[q].plan[h].others = {}
      BY <3>1, <3>2, <3>3 DEF PlanFits
    <3>5. approval'[q].plan[h].entry # 0
            => approval'[q].plan[h].entry \in DOMAIN external'
               /\ external'[approval'[q].plan[h].entry] = h
      BY <3>1, <3>2, <3>3 DEF PlanFits, ExternalGrows, TypeOK, Plan, ExternalId
    <3> QED BY <3>4, <3>5 DEF PlanFits
  <2> QED BY <2>1, <2>2
<1>3. LockFits'
  BY DEF AInv, TypeOK, LockFits
<1>4. ChangeIsPending' /\ PointsToApproved'
  BY DEF AInv, ChangeIsPending, PointsToApproved, Waiting, hosts
<1>5. PointsToOwnEntry'
  BY DEF AInv, PointsToOwnEntry, hosts, ExternalGrows, TypeOK
<1> QED BY <1>1, <1>2, <1>3, <1>4, <1>5 DEF AInv

\* The same when the lock stays and the approval covers no creation by it.
LEMMA UncoveredStep ==
    ASSUME AInv, UNCHANGED <<hosts, lock>>, ExternalGrows, NEW p \in Approval,
           NEW a \in Progress, approval' = [approval EXCEPT ![p] = a], ~a.covered,
           \A h \in Host : PlanFits(a.plan[h], h)'
    PROVE  AInv'
<1>1. lock' \in [Host -> Approval \cup {None}]
  BY DEF AInv, TypeOK
<1> QED BY <1>1, ApprovalStep

LEMMA ReadsKeep ==
    ASSUME AInv, NEW p \in Approval, NEW H \in SUBSET Host, ApprovalReads(p, H)
    PROVE  AInv'
<1>1. TypeOK /\ PointsToOwnEntry /\ UNCHANGED <<hosts, external, lock>>
  BY DEF AInv, ApprovalReads
<1>2. UNCHANGED recs /\ ExternalGrows
  BY <1>1, UnchangedGrows DEF hosts
<1>3. PICK kind \in {"manual", "change"}, plan \in [Host -> Plan] :
          /\ approval' = [approval EXCEPT ![p] = [Idle EXCEPT !.kind = kind, !.todo = H, !.plan = plan]]
          /\ \A h \in Host : PlanFits(plan[h], h)
  <2>1. CASE approval' = [approval EXCEPT ![p] = [Idle EXCEPT !.kind = "change", !.todo = H,
              !.plan = [h \in Host |-> IF h \in H THEN ChangePlan(h) ELSE NoPlan]]]
    <3> DEFINE plan == [h \in Host |-> IF h \in H THEN ChangePlan(h) ELSE NoPlan]
    <3>1. \A h \in Host : plan[h] \in Plan /\ PlanFits(plan[h], h)
      BY <1>1, NoPlanFits, ChangePlanFits
    <3>2. plan \in [Host -> Plan]
      BY <3>1
    <3> QED BY <2>1, <3>1, <3>2
  <2>2. CASE approval' = [approval EXCEPT ![p] = [Idle EXCEPT !.kind = "manual", !.todo = H,
              !.plan = [h \in Host |-> IF h \in H THEN ManualPlan(h) ELSE NoPlan]]]
    <3> DEFINE plan == [h \in Host |-> IF h \in H THEN ManualPlan(h) ELSE NoPlan]
    <3>1. \A h \in Host : plan[h] \in Plan /\ PlanFits(plan[h], h)
      BY <1>1, NoPlanFits, ManualPlanFits
    <3>2. plan \in [Host -> Plan]
      BY <3>1
    <3> QED BY <2>2, <3>1, <3>2
  <2> QED BY <2>1, <2>2 DEF ApprovalReads
<1> DEFINE a == [Idle EXCEPT !.kind = kind, !.todo = H, !.plan = plan]
<1>4. a \in Progress /\ ~a.covered /\ a.plan = plan
  BY DEF Idle, Progress
<1>5. \A h \in Host : PlanFits(plan[h], h)'
  BY <1>1, <1>2, <1>3, FitsStay
<1>6. approval' = [approval EXCEPT ![p] = a]
  BY <1>3
<1> HIDE DEF a
<1> QED BY <1>1, <1>2, <1>4, <1>5, <1>6, UncoveredStep

\* The plans of an approval stay fit in a step that changes no record.
LEMMA PlansStay ==
    ASSUME AInv, UNCHANGED recs, ExternalGrows, NEW p \in Approval, NEW old, old = approval[p]
    PROVE  old \in Progress /\ \A h \in Host : PlanFits(old.plan[h], h)'
<1>1. old \in Progress
  BY DEF AInv, TypeOK
<1>2. ASSUME NEW h \in Host PROVE PlanFits(old.plan[h], h)'
  <2>1. old.plan[h] \in Plan
    BY <1>1 DEF Progress
  <2>2. PlanFits(old.plan[h], h)
    BY DEF AInv, PlansFit
  <2>3. TypeOK
    BY DEF AInv
  <2> QED BY <2>1, <2>2, <2>3, FitsStay
<1> QED BY <1>1, <1>2

LEMMA LeftOutKeeps ==
    ASSUME AInv, UNCHANGED hosts, ExternalGrows, NEW p \in Approval, NEW h \in Host,
           LeftOut(p, h),
           lock' \in [Host -> Approval \cup {None}],
           \A g \in Host : lock[g] \in Approval \ {p} => lock'[g] = lock[g]
    PROVE  AInv'
<1>1. TypeOK /\ UNCHANGED recs
  BY DEF AInv, hosts
<1>2. NoPlan \in Plan /\ PlanFits(NoPlan, h)'
  BY <1>1, NoPlanFits, FitsStay
<1>3. PICK old : old = approval[p]
  OBVIOUS
<1>4. old \in Progress /\ \A g \in Host : PlanFits(old.plan[g], g)'
  BY <1>1, <1>3, PlansStay
<1> DEFINE a == [old EXCEPT !.todo = old.todo \ {h}, !.call = None, !.covered = FALSE,
                           !.plan = [old.plan EXCEPT ![h] = NoPlan]]
<1>5. approval' = [approval EXCEPT ![p] = a]
  BY <1>3 DEF LeftOut
<1>6. a \in Progress /\ ~a.covered /\ a.plan = [old.plan EXCEPT ![h] = NoPlan]
  BY <1>2, <1>4 DEF Progress
<1>7. ASSUME NEW g \in Host PROVE PlanFits(a.plan[g], g)'
  <2>1. CASE g = h
    BY <1>2, <1>4, <1>6, <2>1 DEF Progress
  <2>2. CASE g # h
    BY <1>4, <1>6, <2>2 DEF Progress
  <2> QED BY <2>1, <2>2
<1> HIDE DEF a
<1> QED BY <1>1, <1>5, <1>6, <1>7, ApprovalStep

LEMMA FailedKeeps ==
    ASSUME AInv, UNCHANGED hosts, ExternalGrows, NEW p \in Approval, NEW h \in Host,
           Failed(p, h),
           lock' \in [Host -> Approval \cup {None}],
           \A g \in Host : lock[g] \in Approval \ {p} => lock'[g] = lock[g]
    PROVE  AInv'
<1>1. CASE LeftOut(p, h)
  BY <1>1, LeftOutKeeps
<1>2. CASE approval' = [approval EXCEPT ![p] = Idle]
  <2>1. TypeOK /\ UNCHANGED recs
    BY DEF AInv, hosts
  <2>2. Idle \in Progress /\ \A g \in Host : PlanFits(Idle.plan[g], g)'
    <3>1. ASSUME NEW g \in Host PROVE PlanFits(NoPlan, g)'
      BY <2>1, NoPlanFits, FitsStay
    <3>2. \A g \in Host : Idle.plan[g] = NoPlan
      BY DEF Idle
    <3> QED BY <2>1, <3>1, <3>2, IdleFits
  <2>3. ~Idle.covered
    BY DEF Idle
  <2> QED BY <1>2, <2>1, <2>2, <2>3, ApprovalStep
<1> QED BY <1>1, <1>2 DEF Failed

\* An approval that goes on with the same plans.
LEMMA SamePlansStep ==
    ASSUME AInv, UNCHANGED <<hosts, external>>, NEW p \in Approval, NEW a \in Progress,
           approval' = [approval EXCEPT ![p] = a], a.plan = approval[p].plan,
           lock' \in [Host -> Approval \cup {None}],
           a.covered => a.call \in Host /\ lock'[a.call] = p,
           \A h \in Host : lock[h] \in Approval \ {p} => lock'[h] = lock[h]
    PROVE  AInv'
<1>1. TypeOK /\ UNCHANGED recs /\ ExternalGrows
  BY UnchangedGrows DEF AInv, hosts
<1>2. PICK old : old = approval[p]
  OBVIOUS
<1>3. \A g \in Host : PlanFits(a.plan[g], g)'
  BY <1>1, <1>2, PlansStay
<1> QED BY <1>1, <1>3, ApprovalStep

LEMMA StartKeeps ==
    ASSUME AInv, NEW p \in Approval, NEW h \in Host,
           EnabledWithoutCall(p, h) \/ CreateLocked(p, h) \/ CreateUncovered(p, h) \/ Update(p, h)
    PROVE  AInv'
<1>1. approval[p] \in Progress /\ approval[p].call = None /\ ~approval[p].covered
  <2>1. approval[p] \in Progress
    BY DEF AInv, TypeOK
  <2>2. approval[p].call = None
    BY DEF EnabledWithoutCall, CreateLocked, CreateUncovered, Update, NextHost
  <2>3. approval[p].covered \in BOOLEAN
    BY <2>1 DEF Progress
  <2> QED BY <2>1, <2>2, <2>3, NoneAssumption DEF AInv, LockFits
<1>2. lock \in [Host -> Approval \cup {None}]
  BY DEF AInv, TypeOK
<1>3. PICK old : old = approval[p]
  OBVIOUS
<1>4. CASE EnabledWithoutCall(p, h)
  <2> DEFINE a == [old EXCEPT !.todo = old.todo \ {h}, !.done = old.done \cup {h}]
  <2>1. a \in Progress /\ ~a.covered /\ a.plan = approval[p].plan
    BY <1>1, <1>3 DEF Progress
  <2>2. approval' = [approval EXCEPT ![p] = a] /\ UNCHANGED <<hosts, external, lock>>
    BY <1>3, <1>4 DEF EnabledWithoutCall
  <2> HIDE DEF a
  <2> QED BY <1>2, <2>1, <2>2, SamePlansStep
<1>5. CASE CreateLocked(p, h)
  <2> DEFINE a == [old EXCEPT !.call = h, !.covered = TRUE]
  <2>1. a \in Progress /\ a.call = h /\ a.plan = approval[p].plan
    BY <1>1, <1>3 DEF Progress
  <2>2. approval' = [approval EXCEPT ![p] = a] /\ UNCHANGED <<hosts, external>>
    BY <1>3, <1>5 DEF CreateLocked
  <2>3. /\ lock' \in [Host -> Approval \cup {None}] /\ lock'[h] = p
        /\ \A g \in Host : lock[g] \in Approval \ {p} => lock'[g] = lock[g]
    BY <1>2, <1>5, NoneAssumption DEF CreateLocked
  <2> HIDE DEF a
  <2> QED BY <2>1, <2>2, <2>3, SamePlansStep
<1>6. CASE CreateUncovered(p, h) \/ Update(p, h)
  <2> DEFINE a == [old EXCEPT !.call = h]
  <2>1. a \in Progress /\ ~a.covered /\ a.plan = approval[p].plan
    BY <1>1, <1>3 DEF Progress
  <2>2. approval' = [approval EXCEPT ![p] = a] /\ UNCHANGED <<hosts, external, lock>>
    BY <1>3, <1>6 DEF CreateUncovered, Update
  <2> HIDE DEF a
  <2> QED BY <1>2, <2>1, <2>2, SamePlansStep
<1> QED BY <1>4, <1>5, <1>6

LEMMA RefusalKeeps ==
    ASSUME AInv, NEW p \in Approval, NEW h \in Host,
           HostLeftOut(p, h) \/ NothingToApprove(p, h) \/ CreateRefused(p, h)
    PROVE  AInv'
<1>1. (LeftOut(p, h) \/ Failed(p, h)) /\ UNCHANGED <<hosts, external, lock>>
  BY DEF HostLeftOut, NothingToApprove, CreateRefused
<1>2. ExternalGrows /\ lock \in [Host -> Approval \cup {None}]
  BY <1>1, UnchangedGrows DEF AInv, TypeOK
<1> QED BY <1>1, <1>2, LeftOutKeeps, FailedKeeps

LEMMA PerformedGrows ==
    ASSUME TypeOK, NEW p \in Approval, NEW h \in Host, Performed(p, h)
    PROVE  ExternalGrows
BY CreatedGrows, UnchangedGrows DEF Performed

LEMMA ReleasedLock ==
    ASSUME TypeOK, NEW p \in Approval, NEW h \in Host, Released(p, h)
    PROVE  /\ lock' \in [Host -> Approval \cup {None}]
           /\ \A g \in Host : lock[g] \in Approval \ {p} => lock'[g] = lock[g]
BY DEF TypeOK, Released

LEMMA CallFailsKeeps ==
    ASSUME AInv, NEW p \in Approval, NEW h \in Host, CallFails(p, h)
    PROVE  AInv'
<1>1. TypeOK /\ UNCHANGED hosts /\ Released(p, h) /\ Failed(p, h)
  BY DEF AInv, CallFails
<1>2. ExternalGrows
  BY <1>1, PerformedGrows, UnchangedGrows DEF CallFails
<1> QED BY <1>1, <1>2, ReleasedLock, FailedKeeps

LEMMA CallReturnsKeeps ==
    ASSUME AInv, NEW p \in Approval, NEW h \in Host, CallReturns(p, h)
    PROVE  AInv'
<1>1. TypeOK /\ UNCHANGED hosts /\ UNCHANGED recs /\ Released(p, h) /\ Performed(p, h)
  BY DEF AInv, CallReturns, hosts
<1>2. ExternalGrows
  BY <1>1, PerformedGrows
<1>3. PICK old, answer : old = approval[p] /\ answer = Answer(p, h)
  OBVIOUS
<1>4. old \in Progress /\ \A g \in Host : PlanFits(old.plan[g], g)'
  BY <1>1, <1>2, <1>3, PlansStay
<1>5. old.plan[h] \in Plan
  BY <1>4 DEF Progress
<1>6. /\ answer \in ExternalId \cup {0}
      /\ answer # 0 => answer \in DOMAIN external' /\ external'[answer] = h
  <2>1. CASE old.plan[h].api = "create"
    <3>1. answer = Len(external) + 1 /\ Created(h)
      BY <1>1, <1>3, <2>1 DEF Answer, Performed
    <3> QED BY <1>1, <3>1, CreatedGrows
  <2>2. CASE old.plan[h].api # "create"
    <3>1. answer = old.plan[h].entry
      BY <1>3, <2>2 DEF Answer
    <3> QED BY <3>1, <1>4, <1>5 DEF PlanFits, Plan
  <2> QED BY <2>1, <2>2
<1>7. PICK new : new = [old.plan[h] EXCEPT !.entry = answer]
  OBVIOUS
<1>8. new \in Plan /\ PlanFits(new, h)'
  <2>1. PICK plan \in Plan : plan = old.plan[h]
    BY <1>5
  <2>2. new \in Plan /\ new.entry = answer /\ new.latest = plan.latest
        /\ new.others = plan.others
    BY <1>6, <1>7, <2>1 DEF Plan
  <2>3. new.latest <= Len(recs'[h]) /\ (new.latest = 0 => new.others = {})
    BY <1>4, <2>1, <2>2 DEF PlanFits
  <2> QED BY <1>6, <2>2, <2>3 DEF PlanFits
<1> DEFINE a == [old EXCEPT !.plan = [old.plan EXCEPT ![h] = new],
                            !.todo = old.todo \ {h}, !.done = old.done \cup {h},
                            !.call = None, !.covered = FALSE]
<1>9. a \in Progress /\ ~a.covered /\ a.plan = [old.plan EXCEPT ![h] = new]
  BY <1>4, <1>8 DEF Progress
<1>10. ASSUME NEW g \in Host PROVE PlanFits(a.plan[g], g)'
  <2>1. CASE g = h
    BY <1>4, <1>8, <1>9, <2>1 DEF Progress
  <2>2. CASE g # h
    BY <1>4, <1>9, <2>2 DEF Progress
  <2> QED BY <2>1, <2>2
<1>11. approval' = [approval EXCEPT ![p] = a]
  BY <1>3, <1>7 DEF CallReturns
<1> HIDE DEF a
<1> QED BY <1>1, <1>2, <1>9, <1>10, <1>11, ReleasedLock, ApprovalStep

LEMMA AbortsKeeps ==
    ASSUME AInv, NEW p \in Approval, Aborts(p)
    PROVE  AInv'
<1>1. TypeOK /\ UNCHANGED <<hosts, external>> /\ UNCHANGED recs
  BY DEF AInv, Aborts, hosts
<1>2. ExternalGrows
  BY <1>1, UnchangedGrows
<1>3. Idle \in Progress /\ ~Idle.covered /\ \A h \in Host : PlanFits(Idle.plan[h], h)'
  <2>1. ASSUME NEW h \in Host PROVE PlanFits(NoPlan, h)' /\ Idle.plan[h] = NoPlan
    BY <1>1, <1>2, NoPlanFits, FitsStay DEF Idle
  <2> QED BY <1>1, <2>1, IdleFits DEF Idle
<1>4. lock' \in [Host -> Approval \cup {None}]
      /\ \A h \in Host : lock[h] \in Approval \ {p} => lock'[h] = lock[h]
  BY <1>1 DEF TypeOK, Aborts
<1>5. approval' = [approval EXCEPT ![p] = Idle]
  BY DEF Aborts
<1> QED BY <1>1, <1>2, <1>3, <1>4, <1>5, ApprovalStep

--------------------------------------------------------------------------------
(* The host table.                                                         *)

LEMMA ReportKeeps ==
    ASSUME AInv, NEW h \in Host, ReportHardware(h)
    PROVE  AInv'
<1>1. TypeOK /\ UNCHANGED <<hw_id, hardware_id, external, lock, approval>>
  BY DEF AInv, ReportHardware
<1>2. /\ recs' \in [Host -> Seq({WAIT, SUCCESS, REJECTED})]
      /\ \A g \in Host : Len(recs'[g]) <= MaxRecs /\ Len(recs[g]) <= Len(recs'[g])
      /\ \A g \in Host : \A i \in DOMAIN recs[g] : i \in DOMAIN recs'[g] /\ recs'[g][i] = recs[g][i]
  <2>1. ASSUME NEW g \in Host, g # h PROVE recs'[g] = recs[g]
    BY <1>1, <2>1 DEF ReportHardware, ReportDiffers, ReportFirst, InsertWaiting, TypeOK
  <2>2. recs'[h] = Append(recs[h], WAIT) /\ Len(recs[h]) < MaxRecs
    BY <1>1 DEF ReportHardware, ReportDiffers, ReportFirst, InsertWaiting, TypeOK
  <2>3. recs \in [Host -> Seq({WAIT, SUCCESS, REJECTED})] /\ WAIT \in {WAIT, SUCCESS, REJECTED}
    BY <1>1 DEF TypeOK
  <2>4. recs'[h] \in Seq({WAIT, SUCCESS, REJECTED}) /\ Len(recs'[h]) = Len(recs[h]) + 1
    BY <2>2, <2>3
  <2>5. \A i \in DOMAIN recs[h] : i \in DOMAIN recs'[h] /\ recs'[h][i] = recs[h][i]
    BY <2>2, <2>3
  <2>6. recs' \in [Host -> Seq({WAIT, SUCCESS, REJECTED})]
    BY <2>3, <2>4 DEF ReportHardware, ReportDiffers, ReportFirst, InsertWaiting
  <2>7. ASSUME NEW g \in Host PROVE Len(recs'[g]) <= MaxRecs /\ Len(recs[g]) <= Len(recs'[g])
    <3>1. Len(recs[g]) \in Nat /\ Len(recs[g]) <= MaxRecs
      BY <1>1, <2>3 DEF TypeOK
    <3>2. CASE g = h
      BY <2>2, <2>4, <3>1, <3>2, BoundAssumption
    <3>3. CASE g # h
      BY <2>1, <3>1, <3>3
    <3> QED BY <3>2, <3>3
  <2> QED BY <2>1, <2>5, <2>6, <2>7
<1>3. /\ state' \in [Host -> {"inactive", "change", "other"}]
      /\ \A g \in Host : state'[g] = state[g] \/ g = h
  BY <1>1 DEF ReportHardware, ReportDiffers, ReportFirst, InsertWaiting, TypeOK
<1>4. TypeOK'
  BY <1>1, <1>2, <1>3 DEF TypeOK
<1>5. PlansFit'
  <2> SUFFICES ASSUME NEW p \in Approval, NEW g \in Host
               PROVE  PlanFits(approval[p].plan[g], g)'
    BY DEF PlansFit
  <2>1. approval[p].plan[g].latest \in Nat
    BY <1>1, BoundAssumption DEF TypeOK, Progress, Plan, RecId
  <2>2. Len(recs[g]) \in Nat /\ Len(recs'[g]) \in Nat
    BY <1>1, <1>2 DEF TypeOK
  <2> QED BY <1>1, <1>2, <2>1, <2>2 DEF AInv, PlansFit, PlanFits
<1>6. LockFits' /\ PointsToOwnEntry'
  BY <1>1 DEF AInv, LockFits, PointsToOwnEntry
<1>7. PointsToApproved'
  BY <1>1, <1>2 DEF AInv, PointsToApproved
<1>8. ChangeIsPending'
  <2> SUFFICES ASSUME NEW g \in Host, state'[g] = "change"
               PROVE  \E i \in DOMAIN recs'[g] : recs'[g][i] = WAIT
    BY DEF ChangeIsPending, Waiting
  <2>1. CASE g = h
    <3>1. recs'[h] = Append(recs[h], WAIT) /\ recs[h] \in Seq({WAIT, SUCCESS, REJECTED})
      BY <1>1 DEF ReportHardware, ReportDiffers, ReportFirst, InsertWaiting, TypeOK
    <3>2. Len(recs[h]) + 1 \in DOMAIN recs'[h] /\ recs'[h][Len(recs[h]) + 1] = WAIT
      BY <3>1
    <3> QED BY <2>1, <3>2
  <2>2. CASE g # h
    BY <1>2, <1>3, <2>2 DEF AInv, ChangeIsPending, Waiting
  <2> QED BY <2>1, <2>2
<1> QED BY <1>4, <1>5, <1>6, <1>7, <1>8 DEF AInv

LEMMA LeaseKeeps ==
    ASSUME AInv, NEW h \in Host, LeaseWrites(h)
    PROVE  AInv'
<1>1. TypeOK'
  BY DEF AInv, TypeOK, LeaseWrites
<1>2. PlansFit' /\ LockFits' /\ PointsToOwnEntry' /\ PointsToApproved'
  BY DEF AInv, LeaseWrites, PlansFit, PlanFits, LockFits, PointsToOwnEntry, PointsToApproved
<1>3. ChangeIsPending'
  BY DEF AInv, TypeOK, LeaseWrites, ChangeIsPending, Waiting
<1> QED BY <1>1, <1>2, <1>3 DEF AInv

LEMMA ExpiryKeeps ==
    ASSUME AInv, NEW h \in Host, LockExpires(h)
    PROVE  AInv'
<1>1. TypeOK /\ UNCHANGED <<hosts, external>>
  BY DEF AInv, LockExpires
<1>2. ASSUME NEW p \in Approval
      PROVE  /\ approval'[p] \in Progress /\ approval'[p].plan = approval[p].plan
             /\ approval'[p].call = approval[p].call
             /\ approval'[p].covered => approval[p].covered /\ lock[h] # p
  <2>1. approval[p] \in Progress
    BY <1>1 DEF TypeOK
  <2>2. CASE lock[h] = p
    <3>1. approval'[p] = [approval[p] EXCEPT !.covered = FALSE]
      BY <2>2 DEF LockExpires
    <3> QED BY <2>1, <3>1 DEF Progress
  <2>3. CASE lock[h] # p
    <3>1. approval'[p] = approval[p]
      BY <2>3 DEF LockExpires
    <3> QED BY <2>1, <2>3, <3>1
  <2> QED BY <2>2, <2>3
<1>3. approval' \in [Approval -> Progress]
  BY <1>2 DEF LockExpires
<1>4. TypeOK'
  BY <1>1, <1>3 DEF TypeOK, LockExpires, hosts
<1>5. PlansFit'
  BY <1>1, <1>2 DEF AInv, PlansFit, PlanFits, hosts
<1>6. LockFits'
  <2> SUFFICES ASSUME NEW p \in Approval, approval'[p].covered
               PROVE  approval'[p].call \in Host /\ lock'[approval'[p].call] = p
    BY DEF LockFits
  <2>1. approval[p].call \in Host /\ lock[approval[p].call] = p
    BY <1>2 DEF AInv, LockFits
  <2> QED BY <1>1, <1>2, <2>1 DEF LockExpires, TypeOK
<1>7. ChangeIsPending' /\ PointsToApproved' /\ PointsToOwnEntry'
  BY <1>1 DEF AInv, ChangeIsPending, Waiting, PointsToApproved, PointsToOwnEntry, hosts
<1> QED BY <1>4, <1>5, <1>6, <1>7 DEF AInv

LEMMA CommitKeeps ==
    ASSUME AInv, NEW p \in Approval, ApprovalCommits(p)
    PROVE  AInv'
<1>1. TypeOK /\ UNCHANGED <<external, lock>> /\ approval' = [approval EXCEPT ![p] = Idle]
  BY DEF AInv, ApprovalCommits
<1>2. PICK a \in Progress : a = approval[p]
  BY <1>1 DEF TypeOK
<1>3. \A h \in Host : a.plan[h] \in Plan /\ PlanFits(a.plan[h], h)
  BY <1>2 DEF AInv, PlansFit, Progress
\* The records of a host, as long as before.
<1>4. ASSUME NEW h \in Host
      PROVE  /\ recs'[h] \in Seq({WAIT, SUCCESS, REJECTED}) /\ Len(recs'[h]) = Len(recs[h])
             /\ h \notin a.done => recs'[h] = recs[h]
             /\ h \in a.done => \A i \in DOMAIN recs[h] :
                    recs'[h][i] = Settled(a.plan[h], i, recs[h][i])
  <2>1. recs[h] \in Seq({WAIT, SUCCESS, REJECTED})
    BY <1>1 DEF TypeOK
  <2>2. CASE h \notin a.done
    BY <1>2, <2>1, <2>2 DEF ApprovalCommits
  <2>3. CASE h \in a.done
    <3>1. recs'[h] = [i \in 1 .. Len(recs[h]) |-> Settled(a.plan[h], i, recs[h][i])]
      BY <1>2, <2>1, <2>3 DEF ApprovalCommits
    <3>2. \A i \in 1 .. Len(recs[h]) : Settled(a.plan[h], i, recs[h][i]) \in {WAIT, SUCCESS, REJECTED}
      BY <2>1 DEF Settled
    <3>3. Len(recs[h]) \in Nat
      BY <2>1
    <3> QED BY <2>1, <2>3, <3>1, <3>2, <3>3
  <2> QED BY <2>2, <2>3
<1>5. recs' \in [Host -> Seq({WAIT, SUCCESS, REJECTED})]
  BY <1>4 DEF ApprovalCommits
<1>6. ASSUME NEW h \in Host
      PROVE  /\ hw_id'[h] = IF h \in a.done /\ a.plan[h].latest # 0 THEN a.plan[h].latest ELSE hw_id[h]
             /\ hardware_id'[h] =
                   IF h \in a.done /\ a.plan[h].entry # 0 THEN a.plan[h].entry ELSE hardware_id[h]
             /\ state'[h] = IF h \in a.done THEN "other" ELSE state[h]
  BY <1>2 DEF ApprovalCommits
<1>7. TypeOK'
  <2>1. hw_id' \in [Host -> RecId \cup {0}]
    BY <1>1, <1>2, <1>3 DEF TypeOK, ApprovalCommits, Plan
  <2>2. hardware_id' \in [Host -> ExternalId \cup {0}]
    BY <1>1, <1>2, <1>3 DEF TypeOK, ApprovalCommits, Plan
  <2>3. state' \in [Host -> {"inactive", "change", "other"}]
    BY <1>1, <1>2 DEF TypeOK, ApprovalCommits
  <2>4. approval' \in [Approval -> Progress]
    BY <1>1, IdleFits DEF TypeOK
  <2>5. \A h \in Host : Len(recs'[h]) <= MaxRecs
    BY <1>1, <1>4 DEF TypeOK
  <2> QED BY <1>1, <1>5, <2>1, <2>2, <2>3, <2>4, <2>5 DEF TypeOK
<1>8. PlansFit'
  <2> SUFFICES ASSUME NEW q \in Approval, NEW h \in Host
               PROVE  PlanFits(approval[q].plan[h], h)'
    BY DEF PlansFit
  <2>1. CASE q = p
    <3>1. approval'[q].plan[h] = NoPlan
      BY <1>1, <2>1 DEF TypeOK, Idle
    <3>2. Len(recs'[h]) \in Nat
      BY <1>7 DEF TypeOK
    <3> QED BY <3>1, <3>2 DEF PlanFits, NoPlan
  <2>2. CASE q # p
    BY <1>1, <1>4, <2>2 DEF AInv, TypeOK, PlansFit, PlanFits
  <2> QED BY <2>1, <2>2
<1>9. LockFits'
  BY <1>1 DEF AInv, TypeOK, LockFits, Idle
<1>10. PointsToOwnEntry'
  BY <1>1, <1>3, <1>6 DEF AInv, PointsToOwnEntry, PlanFits
<1>11. ChangeIsPending'
  BY <1>4, <1>6 DEF AInv, ChangeIsPending, Waiting
<1>12. PointsToApproved'
  <2> SUFFICES ASSUME NEW h \in Host, hw_id'[h] # 0
               PROVE  hw_id'[h] \in DOMAIN recs'[h] /\ recs'[h][hw_id'[h]] = SUCCESS
    BY DEF PointsToApproved
  <2>1. recs[h] \in Seq({WAIT, SUCCESS, REJECTED}) /\ recs'[h] \in Seq({WAIT, SUCCESS, REJECTED})
    BY <1>1, <1>4 DEF TypeOK
  <2>2. CASE h \in a.done /\ a.plan[h].latest # 0
    <3>1. hw_id'[h] = a.plan[h].latest /\ a.plan[h].latest \in RecId
          /\ a.plan[h].latest <= Len(recs[h])
      BY <1>3, <1>6, <2>2 DEF Plan, PlanFits
    <3>2. a.plan[h].latest \in DOMAIN recs[h] /\ DOMAIN recs'[h] = DOMAIN recs[h]
      BY <1>4, <2>1, <3>1, BoundAssumption DEF RecId
    <3> QED BY <1>4, <2>2, <3>1, <3>2 DEF Settled
  <2>3. CASE h \notin a.done
    BY <1>4, <1>6, <2>3 DEF AInv, PointsToApproved
  <2>4. CASE h \in a.done /\ a.plan[h].latest = 0
    BY <1>3, <1>4, <1>6, <2>1, <2>4 DEF AInv, PointsToApproved, PlanFits, Settled
  <2> QED BY <2>2, <2>3, <2>4
<1> QED BY <1>7, <1>8, <1>9, <1>10, <1>11, <1>12 DEF AInv

--------------------------------------------------------------------------------
(* The theorems.                                                           *)

LEMMA InitInv == Init => AInv
<1> SUFFICES ASSUME Init PROVE AInv
  OBVIOUS
<1>1. TypeOK
  <2>1. Idle \in Progress
    BY BoundAssumption DEF Idle, NoPlan, Progress, Plan, RecId, ExternalId
  <2> QED BY <2>1, BoundAssumption DEF Init, TypeOK, RecId, ExternalId
<1>2. PlansFit
  <2>1. \A p \in Approval, h \in Host : approval[p].plan[h] = NoPlan
    BY DEF Init, Idle
  <2> QED BY <1>1, <2>1, NoPlanFits DEF PlansFit
<1>3. LockFits
  BY DEF Init, LockFits, Idle
<1>4. ChangeIsPending /\ PointsToApproved /\ PointsToOwnEntry
  BY DEF Init, ChangeIsPending, PointsToApproved, PointsToOwnEntry
<1> QED BY <1>1, <1>2, <1>3, <1>4 DEF AInv

LEMMA StepInv == AInv /\ [Next]_vars => AInv'
<1> SUFFICES ASSUME AInv, [Next]_vars PROVE AInv'
  OBVIOUS
<1>1. CASE UNCHANGED vars
  BY <1>1 DEF vars, hosts, AInv, TypeOK, PlansFit, PlanFits, LockFits, ChangeIsPending,
              Waiting, PointsToApproved, PointsToOwnEntry
<1>2. ASSUME NEW h \in Host, ReportHardware(h) \/ LeaseWrites(h) \/ LockExpires(h) PROVE AInv'
  BY <1>2, ReportKeeps, LeaseKeeps, ExpiryKeeps
<1>3. ASSUME NEW p \in Approval, NEW h \in Host, HostStep(p, h) PROVE AInv'
  BY <1>3, StartKeeps, RefusalKeeps, CallReturnsKeeps, CallFailsKeeps DEF HostStep
<1>4. ASSUME NEW p \in Approval, NEW H \in Batch, ApprovalReads(p, H) PROVE AInv'
  BY <1>4, ReadsKeep DEF Batch
<1>5. ASSUME NEW p \in Approval, ApprovalCommits(p) \/ Aborts(p) PROVE AInv'
  BY <1>5, CommitKeeps, AbortsKeeps
<1> QED BY <1>1, <1>2, <1>3, <1>4, <1>5 DEF Next

LEMMA Invariant == Spec => []AInv
BY InitInv, StepInv, PTL DEF Spec

\* The tables, the lock and every approval keep their type.
THEOREM TypeCorrect == Spec => []TypeOK
<1>1. AInv => TypeOK
  BY DEF AInv
<1> QED BY <1>1, Invariant, PTL

\* A changed host always has a record that can be approved, whatever reports
\* and approvals overlap.
THEOREM ChangesArePending == Spec => []ChangeIsPending
<1>1. AInv => ChangeIsPending
  BY DEF AInv
<1> QED BY <1>1, Invariant, PTL

\* hw_id points to an approved record, for any number of overlapping approvals.
THEOREM PointerIsApproved == Spec => []PointsToApproved
<1>1. AInv => PointsToApproved
  BY DEF AInv
<1> QED BY <1>1, Invariant, PTL

\* hardware_id is an entry created for this host, for batches of any size.
THEOREM PointerIsOwn == Spec => []PointsToOwnEntry
<1>1. AInv => PointsToOwnEntry
  BY DEF AInv
<1> QED BY <1>1, Invariant, PTL

\* No creation loses its lock to another one before it expires.
THEOREM LockIsHeld == Spec => []CreatorHoldsLock
<1>1. AInv => CreatorHoldsLock
  BY DEF AInv, LockFits, CreatorHoldsLock
<1> QED BY <1>1, Invariant, PTL

================================================================================
