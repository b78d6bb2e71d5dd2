--------------------------- MODULE OtaUpdateProofs --------------------------
(***************************************************************************)
(* Rows of upgrades, for every set of instances, versions and overlapping  *)
(* reports and every number of rows.                                       *)
(***************************************************************************)
EXTENDS OtaUpdate, TLAPS

(* What a step of a report does to the rows, as one lemma per writer: the   *)
(* rows of a superseded table and of an updated one.                        *)
LEMMA AppendRow ==
    ASSUME NEW old \in Seq(Row), NEW row \in Row
    PROVE  /\ Append(old, row) \in Seq(Row)
           /\ Len(Append(old, row)) = Len(old) + 1
           /\ DOMAIN Append(old, row) = 1..(Len(old) + 1)
           /\ \A k \in 1..Len(old) : Append(old, row)[k] = old[k]
           /\ Append(old, row)[Len(old) + 1] = row
OBVIOUS

LEMMA SupersededRows ==
    ASSUME TypeOK, NEW v \in Version
    PROVE  /\ Superseded(v) \in Seq(Row)
           /\ Len(Superseded(v)) = Len(rows)
           /\ \A k \in 1..Len(rows) : ~Superseded(v)[k].live
<1>1. rows \in Seq(Row) /\ DOMAIN rows = 1..Len(rows)
  BY DEF TypeOK
<1>2. ASSUME NEW k \in 1..Len(rows)
      PROVE  /\ Superseded(v)[k] \in Row
             /\ ~Superseded(v)[k].live
  <2>1. rows[k] \in Row
    BY <1>1
  <2>2. Superseded(v)[k] = [rows[k] EXCEPT !.live = FALSE]
    BY <1>1 DEF Superseded
  <2> QED BY <2>1, <2>2 DEF Row
<1>3. Superseded(v) = [k \in 1..Len(rows) |-> Superseded(v)[k]]
  BY <1>1 DEF Superseded
<1>4. Superseded(v) \in [1..Len(rows) -> Row]
  BY <1>2, <1>3
<1> QED BY <1>1, <1>2, <1>4

LEMMA UpdatedRows ==
    ASSUME TypeOK, NEW k \in DOMAIN rows, NEW s \in State
    PROVE  /\ Updated(k, s) \in Seq(Row)
           /\ Len(Updated(k, s)) = Len(rows)
           /\ \A j \in DOMAIN rows :
                /\ Updated(k, s)[j].live => rows[j].live
                /\ Updated(k, s)[j].reported = rows[j].reported
<1>1. rows \in Seq(Row) /\ DOMAIN rows = 1..Len(rows)
  BY DEF TypeOK
<1>2. rows[k] \in Row
  BY <1>1
<1>3. CASE s = Succeeded
  <2>1. [rows[k] EXCEPT !.state = s, !.live = FALSE] \in Row
    BY <1>2 DEF Row
  <2>2. Updated(k, s) = [rows EXCEPT ![k] = [rows[k] EXCEPT !.state = s, !.live = FALSE]]
    BY <1>1, <1>2, <1>3 DEF Updated, Row
  <2> QED BY <1>1, <1>2, <2>1, <2>2 DEF Row
<1>4. CASE s # Succeeded
  <2>1. [rows[k] EXCEPT !.state = s] \in Row
    BY <1>2 DEF Row
  <2>2. Updated(k, s) = [rows EXCEPT ![k] = [rows[k] EXCEPT !.state = s]]
    BY <1>1, <1>2, <1>4 DEF Updated, Row
  <2> QED BY <1>1, <1>2, <2>1, <2>2 DEF Row
<1> QED BY <1>3, <1>4

-----------------------------------------------------------------------------
LEMMA InitTypes == Init => TypeOK /\ ReportSupersedes
BY RowAssumption DEF Init, TypeOK, ConfTypes, ReportSupersedes, Report, NoReport

LEMMA ConfKeeps ==
    ASSUME ConfTypes, UNCHANGED confVars
    PROVE  ConfTypes'
BY DEF ConfTypes, confVars

\* Steps of a deployment, of a query and of the cache.
LEMMA ConfSteps ==
    ASSUME ConfTypes,
           \/ \E i \in Instance : \/ DeployAnnounces(i) \/ Restart(i)
                                \/ \E v \in Version : DeployCommits(i, v)
           \/ \E q \in Queries : QueryReads(q) \/ QueryCaches(q)
           \/ CacheExpires
    PROVE  ConfTypes' /\ UNCHANGED <<rows, report>>
<1>1. ASSUME NEW i \in Instance, NEW v \in Version, DeployCommits(i, v)
      PROVE  ConfTypes' /\ UNCHANGED <<rows, report>>
  BY <1>1 DEF DeployCommits, ConfTypes
<1>2. ASSUME NEW i \in Instance, DeployAnnounces(i) \/ Restart(i)
      PROVE  ConfTypes' /\ UNCHANGED <<rows, report>>
  BY <1>2 DEF DeployAnnounces, Restart, ConfTypes
<1>3. ASSUME NEW q \in Queries, QueryReads(q) \/ QueryCaches(q)
      PROVE  ConfTypes' /\ UNCHANGED <<rows, report>>
  BY <1>3 DEF QueryReads, QueryCaches, ConfTypes
<1>4. CASE CacheExpires
  BY <1>4 DEF CacheExpires, ConfTypes
<1> QED BY <1>1, <1>2, <1>3, <1>4

\* Steps that leave the rows alone.
LEMMA ReportKeeps ==
    ASSUME TypeOK, ReportSupersedes, UNCHANGED rows, ConfTypes', callback' \subseteq Instance,
           report' \in [Reports -> Report],
           \A r \in Reports : report'[r].step = "update" => report'[r].row <= Len(rows)
    PROVE  TypeOK' /\ ReportSupersedes'
BY DEF TypeOK, ReportSupersedes

LEMMA ReadsKeep ==
    ASSUME TypeOK, ReportSupersedes,
           NEW r \in Reports, NEW v \in Version, NEW s \in State, ReportReads(r, v, s)
    PROVE  TypeOK' /\ ReportSupersedes'
<1>0. ConfTypes'
  BY ConfKeeps DEF ReportReads, TypeOK
<1>1. CASE report' = [report EXCEPT ![r] = [step |-> "insert", ver |-> v, state |-> s]]
  <2>1. [step |-> "insert", ver |-> v, state |-> s] \in Report
    BY DEF Report
  <2> QED BY <1>0, <1>1, <2>1, ReportKeeps DEF ReportReads, TypeOK
<1>2. ASSUME NEW k \in Live(v),
             report' = [report EXCEPT ![r] = [step |-> "update", row |-> k, state |-> s]]
      PROVE  TypeOK' /\ ReportSupersedes'
  <2>1. k \in Nat \ {0} /\ k <= Len(rows)
    BY DEF Live, TypeOK
  <2>2. [step |-> "update", row |-> k, state |-> s] \in Report
    BY <2>1 DEF Report
  <2> QED BY <1>0, <1>2, <2>1, <2>2, ReportKeeps DEF ReportReads, TypeOK
<1> QED BY <1>1, <1>2 DEF ReportReads

LEMMA EndKeeps ==
    ASSUME TypeOK, NEW r \in Reports, report' = [report EXCEPT ![r] = NoReport]
    PROVE  /\ report' \in [Reports -> Report]
           /\ \A q \in Reports : report'[q].step = "update" => report'[q].row <= Len(rows)
<1>1. NoReport \in Report /\ NoReport.step # "update"
  BY DEF NoReport, Report
<1> QED BY <1>1 DEF TypeOK

LEMMA ConfirmKeeps ==
    ASSUME TypeOK, ReportSupersedes, NEW i \in Instance, NEW v \in Version, Confirm(i, v)
    PROVE  TypeOK' /\ ReportSupersedes' /\ (\A k \in DOMAIN rows : ~rows[k].live => ~rows'[k].live)
<1> DEFINE row == [ver |-> v, state |-> PreUpdate, live |-> TRUE, reported |-> FALSE]
<1>1. row \in Row /\ ~row.reported
  BY DEF Row, State
<1>2. rows \in Seq(Row) /\ rows' = Append(rows, row) /\ Len(rows) < MaxRow /\ DOMAIN rows = 1..Len(rows)
  BY DEF Confirm, TypeOK
<1> HIDE DEF row
<1>3. /\ rows' \in Seq(Row) /\ Len(rows') = Len(rows) + 1 /\ DOMAIN rows' = 1..(Len(rows) + 1)
      /\ \A k \in 1..Len(rows) : rows'[k] = rows[k]
      /\ rows'[Len(rows) + 1] = row
  BY <1>1, <1>2, AppendRow
<1>4. TypeOK'
  <2>1. Len(rows) \in Nat /\ Len(rows') <= MaxRow
    BY <1>2, <1>3, RowAssumption
  <2>2. callback' \subseteq Instance /\ report' = report /\ report \in [Reports -> Report]
    BY DEF TypeOK, Confirm
  <2>3. \A q \in Reports : report[q].step = "update" => report[q].row \in Nat
    BY <2>2 DEF Report, NoReport
  <2>4. \A q \in Reports : report[q].step = "update" => report[q].row <= Len(rows')
    BY <1>3, <2>1, <2>3 DEF TypeOK
  <2>5. ConfTypes'
    BY ConfKeeps DEF Confirm, TypeOK
  <2> QED BY <1>3, <2>1, <2>2, <2>4, <2>5 DEF TypeOK
<1>5. ReportSupersedes'
  <2> SUFFICES ASSUME NEW j \in DOMAIN rows', NEW k \in DOMAIN rows',
                      j < k, rows'[k].live, rows'[k].reported
               PROVE  ~rows'[j].live
    BY DEF ReportSupersedes
  <2>1. k # Len(rows) + 1
    BY <1>1, <1>3
  <2>2. j \in DOMAIN rows /\ k \in DOMAIN rows /\ Len(rows) \in Nat
    BY <1>2, <1>3, <2>1
  <2> QED BY <1>2, <1>3, <2>2 DEF ReportSupersedes
<1>6. \A k \in DOMAIN rows : ~rows[k].live => ~rows'[k].live
  BY <1>2, <1>3
<1> QED BY <1>4, <1>5, <1>6

LEMMA InsertKeeps ==
    ASSUME TypeOK, NEW r \in Reports, ReportInserts(r)
    PROVE  TypeOK' /\ ReportSupersedes' /\ (\A k \in DOMAIN rows : ~rows[k].live => ~rows'[k].live)
<1> DEFINE p == report[r]
           row == [ver |-> p.ver, state |-> p.state, live |-> p.state # Succeeded, reported |-> TRUE]
<1>1. p \in [step : {"insert"}, ver : Version, state : State]
  BY DEF TypeOK, Report, NoReport, ReportInserts
<1>2. row \in Row
  BY <1>1 DEF Row
<1>3. /\ rows \in Seq(Row) /\ DOMAIN rows = 1..Len(rows) /\ Len(rows) < MaxRow /\ Len(rows) \in Nat
      /\ rows' = Append(Superseded(p.ver), row)
      /\ report' = [report EXCEPT ![r] = NoReport] /\ callback' = callback
  BY DEF ReportInserts, TypeOK
<1>4. p.ver \in Version
  BY <1>1
<1> HIDE DEF p, row
<1>5. /\ Superseded(p.ver) \in Seq(Row) /\ Len(Superseded(p.ver)) = Len(rows)
      /\ \A k \in 1..Len(rows) : ~Superseded(p.ver)[k].live
  BY <1>4, SupersededRows
<1>6. /\ rows' \in Seq(Row) /\ Len(rows') = Len(rows) + 1 /\ DOMAIN rows' = 1..(Len(rows) + 1)
      /\ \A k \in 1..Len(rows) : rows'[k] = Superseded(p.ver)[k]
  BY <1>2, <1>3, <1>5, AppendRow
<1>7. \A k \in 1..Len(rows) : ~rows'[k].live
  BY <1>5, <1>6
<1>8. TypeOK'
  <2>1. /\ report' \in [Reports -> Report]
        /\ \A q \in Reports : report'[q].step = "update" => report'[q].row <= Len(rows)
    BY <1>3, EndKeeps
  <2>2. \A q \in Reports : report'[q].step = "update" => report'[q].row \in Nat
    BY <2>1 DEF Report, NoReport
  <2>3. \A q \in Reports : report'[q].step = "update" => report'[q].row <= Len(rows')
    BY <1>3, <1>6, <2>1, <2>2
  <2>4. callback' \subseteq Instance /\ Len(rows') <= MaxRow
    BY <1>3, <1>6, RowAssumption DEF TypeOK
  <2>5. ConfTypes'
    BY ConfKeeps DEF ReportInserts, TypeOK
  <2> QED BY <1>6, <2>1, <2>3, <2>4, <2>5 DEF TypeOK
<1>9. ReportSupersedes'
  <2> SUFFICES ASSUME NEW j \in DOMAIN rows', NEW k \in DOMAIN rows', j < k
               PROVE  ~rows'[j].live
    BY DEF ReportSupersedes
  <2>1. j \in 1..Len(rows)
    BY <1>3, <1>6
  <2> QED BY <1>7, <2>1
<1> QED BY <1>3, <1>7, <1>8, <1>9

LEMMA UpdateKeeps ==
    ASSUME TypeOK, ReportSupersedes, NEW r \in Reports, ReportUpdates(r)
    PROVE  TypeOK' /\ ReportSupersedes' /\ (\A k \in DOMAIN rows : ~rows[k].live => ~rows'[k].live)
<1> DEFINE p == report[r]
<1>1. p \in [step : {"update"}, row : Nat \ {0}, state : State] /\ p.row <= Len(rows)
  BY DEF TypeOK, Report, NoReport, ReportUpdates
<1>2. rows \in Seq(Row) /\ DOMAIN rows = 1..Len(rows) /\ Len(rows) \in Nat
  BY DEF TypeOK
<1>3. p.row \in DOMAIN rows /\ p.state \in State
  BY <1>1, <1>2
<1>4. rows' = Updated(p.row, p.state) /\ report' = [report EXCEPT ![r] = NoReport] /\ callback' = callback
  BY DEF ReportUpdates
<1> HIDE DEF p
<1>5. /\ rows' \in Seq(Row) /\ Len(rows') = Len(rows)
      /\ \A j \in DOMAIN rows :
           (rows'[j].live => rows[j].live) /\ rows'[j].reported = rows[j].reported
  BY <1>3, <1>4, UpdatedRows
<1>6. DOMAIN rows' = DOMAIN rows
  BY <1>2, <1>5
<1>7. TypeOK'
  <2>1. /\ report' \in [Reports -> Report]
        /\ \A q \in Reports : report'[q].step = "update" => report'[q].row <= Len(rows')
    BY <1>4, <1>5, EndKeeps
  <2>2. ConfTypes'
    BY ConfKeeps DEF ReportUpdates, TypeOK
  <2> QED BY <1>4, <1>5, <2>1, <2>2 DEF TypeOK
<1>8. ReportSupersedes'
  BY <1>5, <1>6 DEF ReportSupersedes
<1> QED BY <1>5, <1>7, <1>8

-----------------------------------------------------------------------------
LEMMA StepKeeps ==
    ASSUME TypeOK, ReportSupersedes, [Next]_vars
    PROVE  TypeOK' /\ ReportSupersedes' /\ (\A k \in DOMAIN rows : ~rows[k].live => ~rows'[k].live)
<1>1. ASSUME \/ \E i \in Instance : \/ DeployAnnounces(i) \/ Restart(i)
                                      \/ \E v \in Version : DeployCommits(i, v)
             \/ \E q \in Queries : QueryReads(q) \/ QueryCaches(q)
             \/ CacheExpires
      PROVE  TypeOK' /\ ReportSupersedes' /\ UNCHANGED rows
  <2>1. ConfTypes' /\ UNCHANGED <<rows, report>>
    BY <1>1, ConfSteps DEF TypeOK
  <2>2. callback' \subseteq Instance
    BY <1>1 DEF DeployAnnounces, Restart, DeployCommits, QueryReads, QueryCaches, CacheExpires, TypeOK
  <2> QED BY <2>1, <2>2, ReportKeeps DEF TypeOK
<1>2. ASSUME NEW r \in Reports, ReportFails(r)
      PROVE  TypeOK' /\ ReportSupersedes' /\ UNCHANGED rows
  <2>1. ConfTypes'
    BY <1>2, ConfKeeps DEF ReportFails, TypeOK
  <2> QED BY <1>2, <2>1, EndKeeps, ReportKeeps DEF ReportFails, TypeOK
<1>3. ASSUME NEW r \in Reports, NEW v \in Version, NEW s \in State \ {PreUpdate},
             ReportReads(r, v, s)
      PROVE  TypeOK' /\ ReportSupersedes' /\ UNCHANGED rows
  BY <1>3, ReadsKeep DEF ReportReads
<1>4. CASE UNCHANGED vars
  <2>1. ConfTypes'
    BY <1>4, ConfKeeps DEF vars, confVars, TypeOK
  <2> QED BY <1>4, <2>1, ReportKeeps DEF vars, TypeOK
<1>5. CASE \E i \in Instance, v \in Version : Confirm(i, v)
  BY <1>5, ConfirmKeeps
<1>6. CASE \E r \in Reports : ReportInserts(r) \/ ReportUpdates(r)
  BY <1>6, InsertKeeps, UpdateKeeps
<1> QED BY <1>1, <1>2, <1>3, <1>4, <1>5, <1>6 DEF Next

(* The rows and the reports under way keep their type: a report writes to a *)
(* row that exists.                                                         *)
THEOREM OtaTypes == Spec => []TypeOK
<1>1. Init => TypeOK /\ ReportSupersedes
  BY InitTypes
<1>2. TypeOK /\ ReportSupersedes /\ [Next]_vars => (TypeOK /\ ReportSupersedes)'
  BY StepKeeps
<1> QED BY <1>1, <1>2, PTL DEF Spec

(* A row inserted by a report is the oldest valid one, for any number of    *)
(* overlapping reports and confirmations.                                   *)
THEOREM ReportsSupersede == Spec => []ReportSupersedes
<1>1. Init => TypeOK /\ ReportSupersedes
  BY InitTypes
<1>2. TypeOK /\ ReportSupersedes /\ [Next]_vars => (TypeOK /\ ReportSupersedes)'
  BY StepKeeps
<1> QED BY <1>1, <1>2, PTL DEF Spec

(* No report brings a deleted row back, whatever it had read.               *)
THEOREM NothingComesBack == Spec => DeletedStaysDeleted
<1>1. Init => TypeOK /\ ReportSupersedes
  BY InitTypes
<1>2. TypeOK /\ ReportSupersedes /\ [Next]_vars => (TypeOK /\ ReportSupersedes)'
  BY StepKeeps
<1>3. TypeOK /\ ReportSupersedes /\ [Next]_vars
        => [\A k \in DOMAIN rows : ~rows[k].live => ~rows'[k].live]_vars
  BY StepKeeps
<1> QED BY <1>1, <1>2, <1>3, PTL DEF Spec, DeletedStaysDeleted
=============================================================================
