-------------------------- MODULE HostDiscoveryProofs --------------------------
(***************************************************************************)
(* Theorems about the circuit breaker, for every threshold, window,        *)
(* recovery time and set of callers, and about the queries behind it, for  *)
(* any hosts, lists and limits.                                            *)
(***************************************************************************)
EXTENDS HostDiscovery, FiniteSetTheorems, SequenceTheorems, TLAPS

--------------------------------------------------------------------------------
(* The breaker alone.                                                       *)

CInv == TypeOK /\ ClosedIsTolerable /\ FailuresAreStreak

LEMMA RecordedFacts ==
    ASSUME TypeOK
    PROVE  /\ Recorded \in Seq(Age(Window))
           /\ Len(Recorded) = IF Len(failures) + 1 > Threshold THEN Len(failures) ELSE Len(failures) + 1
<1> DEFINE all == Append(failures, 0)
<1>1. /\ failures \in Seq(Age(Window))
      /\ 0 \in Age(Window)
      /\ Threshold \in Nat \ {0}
  BY BreakerAssumption DEF TypeOK, Age
<1>2. all \in Seq(Age(Window)) /\ Len(all) = Len(failures) + 1
  BY <1>1
<1>3. Len(all) # 0
  BY <1>1, <1>2
<1>4. Tail(all) \in Seq(Age(Window)) /\ Len(Tail(all)) = Len(all) - 1
  BY <1>2, <1>3
<1> QED BY <1>1, <1>2, <1>4 DEF Recorded

LEMMA TickFacts ==
    ASSUME TypeOK, Tick
    PROVE  /\ failures' \in Seq(Age(Window))
           /\ Len(failures') = Len(failures)
           /\ \A i \in 1 .. Len(failures) : failures'[i] = Older(failures[i], Window)
           /\ opened' \in Age(Recovery)
<1>1. /\ failures \in Seq(Age(Window)) /\ Window \in Nat
      /\ opened \in Age(Recovery) /\ Recovery \in Nat
  BY BreakerAssumption DEF TypeOK
<1>2. DOMAIN failures = 1 .. Len(failures) /\ Len(failures) \in Nat
  BY <1>1
<1>3. \A i \in DOMAIN failures : failures[i] \in Age(Window)
  BY <1>1
<1>4. \A i \in DOMAIN failures : Older(failures[i], Window) \in Age(Window)
  BY <1>1, <1>3 DEF Older, Age
<1>5. failures' = [i \in 1 .. Len(failures) |-> Older(failures[i], Window)]
  BY <1>2 DEF Tick
<1>6. failures' \in Seq(Age(Window)) /\ Len(failures') = Len(failures)
  BY <1>2, <1>4, <1>5
<1>7. opened' \in Age(Recovery)
  BY <1>1 DEF Tick, Older, Age
<1> QED BY <1>5, <1>6, <1>7

LEMMA InitInv == Init => CInv
BY BreakerAssumption DEF Init, CInv, TypeOK, ClosedIsTolerable, FailuresAreStreak, Age

LEMMA StepInv == CInv /\ [Next]_vars => CInv'
<1> SUFFICES ASSUME CInv, [Next]_vars PROVE CInv'
  OBVIOUS
<1> USE BreakerAssumption DEF CInv
<1>1. ASSUME NEW c \in Caller, BeforeCall(c) PROVE CInv'
  BY <1>1 DEF BeforeCall, TypeOK, ClosedIsTolerable, FailuresAreStreak, Age
<1>2. ASSUME NEW c \in Caller, OnSuccess(c) PROVE CInv'
  <2>1. call' \in [Caller -> {"idle", "CLOSED", "HALF_OPEN"}]
    BY <1>2 DEF OnSuccess, CallEnds, TypeOK
  <2>2. CASE state = "OPEN"
    BY <1>2, <2>1, <2>2 DEF OnSuccess, TypeOK, ClosedIsTolerable, FailuresAreStreak
  <2>3. CASE state # "OPEN"
    <3>1. state' = "CLOSED" /\ failures' = << >> /\ streak' = 0 /\ opened' \in Age(Recovery)
      BY <1>2, <2>3 DEF OnSuccess, TypeOK, Age
    <3>2. << >> \in Seq(Age(Window)) /\ Len(<< >>) = 0
      OBVIOUS
    <3> QED BY <2>1, <3>1, <3>2 DEF TypeOK, ClosedIsTolerable, FailuresAreStreak
  <2> QED BY <2>2, <2>3
<1>3. ASSUME NEW c \in Caller, OnFailure(c) PROVE CInv'
  <2>1. call' \in [Caller -> {"idle", "CLOSED", "HALF_OPEN"}]
    BY <1>3 DEF OnFailure, CallEnds, TypeOK
  <2>2. streak' \in 0 .. Threshold
    BY <1>3 DEF OnFailure, TypeOK
  <2>3. Len(failures) \in Nat
    BY DEF TypeOK
  <2>4. CASE state' = "OPEN" /\ opened' = 0 /\ failures' = << >>
    BY <2>1, <2>2, <2>4 DEF TypeOK, ClosedIsTolerable, FailuresAreStreak, Age
  <2>5. CASE /\ state = "CLOSED" /\ ~Due(Recorded)
             /\ failures' = Recorded /\ UNCHANGED <<state, opened>>
    <3>1. TypeOK'
      BY <2>1, <2>2, <2>5, RecordedFacts DEF TypeOK
    <3>2. FailuresAreStreak'
      BY <1>3, <2>3, <2>5, RecordedFacts DEF OnFailure, FailuresAreStreak, TypeOK
    <3>3. Recorded[1] \in Nat \/ Len(Recorded) = 0
      BY RecordedFacts DEF Age
    <3>4. ClosedIsTolerable'
      BY <2>3, <2>5, <3>3, RecordedFacts DEF ClosedIsTolerable, Due
    <3> QED BY <3>1, <3>2, <3>4
  <2>6. CASE state = "OPEN" /\ UNCHANGED <<state, failures, opened>>
    BY <2>1, <2>2, <2>6 DEF TypeOK, ClosedIsTolerable, FailuresAreStreak
  <2> QED BY <1>3, <2>4, <2>5, <2>6 DEF OnFailure
<1>4. ASSUME NEW c \in Caller, Cancelled(c) PROVE CInv'
  BY <1>4 DEF Cancelled, CallEnds, TypeOK, ClosedIsTolerable, FailuresAreStreak
<1>5. CASE Tick
  <2>1. TypeOK'
    BY <1>5, TickFacts DEF TypeOK, Tick
  <2>2. FailuresAreStreak'
    BY <1>5, TickFacts DEF FailuresAreStreak, Tick
  <2>3. Len(failures) >= Threshold => failures'[1] = Older(failures[1], Window)
    BY <1>5, TickFacts DEF TypeOK
  <2>4. Len(failures) >= Threshold => failures[1] \in Nat
    BY DEF TypeOK, Age
  <2>5. ClosedIsTolerable'
    BY <1>5, <2>3, <2>4, TickFacts DEF ClosedIsTolerable, Tick, Older
  <2> QED BY <2>1, <2>2, <2>5
<1>6. CASE UNCHANGED vars
  BY <1>6 DEF vars, TypeOK, ClosedIsTolerable, FailuresAreStreak
<1> QED BY <1>1, <1>2, <1>3, <1>4, <1>5, <1>6 DEF Next

\* Every variable of the breaker keeps its type, the recorded timestamps
\* included, whatever the limits are.
THEOREM TypeCorrect == Spec => []TypeOK
<1>1. CInv => TypeOK
  BY DEF CInv
<1> QED BY InitInv, StepInv, <1>1, PTL DEF Spec

\* _on_failure opens a closed circuit as soon as Threshold failures in a row
\* fit in the window: a closed circuit never sits on such a run.
THEOREM OpensWhenDue == Spec => []ClosedIsTolerable
<1>1. CInv => ClosedIsTolerable
  BY DEF CInv
<1> QED BY InitInv, StepInv, <1>1, PTL DEF Spec

\* _on_failure opens a closed circuit only on Threshold failures in a row
\* counted from when it closed: no failure from before an opening survives.
THEOREM OpensOnlyOnStreak == Spec => OpensOnStreak
<1>1. CInv /\ [Next]_vars => [state = "CLOSED" /\ state' = "OPEN" => streak' = Threshold]_vars
  <2> SUFFICES ASSUME CInv, [Next]_vars, state = "CLOSED", state' = "OPEN"
               PROVE  streak' = Threshold
    OBVIOUS
  <2> USE BreakerAssumption DEF CInv
  <2>1. PICK c \in Caller : OnFailure(c)
    BY DEF Next, BeforeCall, OnSuccess, Cancelled, Tick, vars
  <2>2. Due(Recorded)
    BY <2>1 DEF OnFailure
  <2>3. Len(failures) \in Nat /\ Len(Recorded) <= Len(failures) + 1
    BY RecordedFacts DEF TypeOK
  <2>4. Len(failures) + 1 >= Threshold
    BY <2>2, <2>3, RecordedFacts DEF Due
  <2>5. streak + 1 >= Threshold /\ streak \in 0 .. Threshold
    BY <2>3, <2>4 DEF FailuresAreStreak, TypeOK
  <2> QED BY <2>1, <2>5 DEF OnFailure
<1> QED BY InitInv, StepInv, <1>1, PTL DEF Spec, OpensOnStreak

--------------------------------------------------------------------------------
(* The discovery calls the breaker as the breaker expects to be called.     *)

LEMMA BreakerStep == [DiscoveryNext]_discoveryVars => [Next]_vars
<1> SUFFICES ASSUME [DiscoveryNext]_discoveryVars PROVE [Next]_vars
  OBVIOUS
<1>0. \A c \in Query : c \in Caller
  BY HostAssumption
<1>1. ASSUME NEW c \in Query, QueryNext(c) \/ Abandoned(c) \/ \E last \in Host \cup {0} : Ask(c, last)
      PROVE  [Next]_vars
  BY <1>0, <1>1
     DEF QueryNext, Abandoned, Ask, LoopEnds, CircuitRejects, FetchBegins, TokenFound, CallEnding,
         TokenRefused, AnswerIsError, RequestRaises, PageArrives, Filter, FilterFails, Next
<1>2. CASE OtherBegins \/ \E c \in Caller \ Query : OtherEnds(c)
  BY <1>2 DEF OtherBegins, OtherEnds, Next
<1>3. CASE ListChanges \/ TokenExpires \/ TimePasses \/ \E h \in Host : HostChanges(h)
  BY <1>3 DEF ListChanges, TokenExpires, TimePasses, HostChanges, Next
<1>4. CASE UNCHANGED discoveryVars
  BY <1>4 DEF discoveryVars
<1> QED BY <1>1, <1>2, <1>3, <1>4 DEF DiscoveryNext

\* The queries and the other callers together are callers of the breaker: all
\* it guarantees alone it guarantees in the discovery.
THEOREM DiscoveryUsesBreaker == DiscoverySpec => Spec
BY BreakerStep, PTL DEF DiscoverySpec, DiscoveryInit, Spec

--------------------------------------------------------------------------------
(* The local variables of a query, and pages as parts of the list.          *)

Steps == {"loop", "token", "request", "filter", "answered"}

Running == [step : Steps, last : Nat, pages : Nat, stuck : Nat, before : Nat,
            page : SUBSET Host, seen : SUBSET Host, read : BOOLEAN, snap : SUBSET Host,
            matched : SUBSET Host, found : Seq(Host)]

DiscoveryTypes ==
    /\ query \in [Query -> Running \cup {NoQuery}]
    /\ list \in Lists /\ free \in SUBSET Host
    /\ steady \subseteq Query

\* The hosts among the first n entries of the list.
First(n) == {h \in Host : \E i \in 1 .. Len(list) : i <= n /\ list[i] = h}

LEMMA Limits == /\ Limit \in Nat \ {0} /\ PageSize \in Nat \ {0}
                /\ MaxStuck \in Nat \ {0} /\ MaxPages \in Nat /\ MaxStuck <= MaxPages
BY LimitAssumption

LEMMA IdleOrRunning ==
    ASSUME DiscoveryTypes, NEW c \in Query
    PROVE  /\ query[c] \in Running \/ query[c] = NoQuery
           /\ query[c].step # "idle" => query[c] \in Running
           /\ query[c] \in Running => query[c].step \in Steps
BY DEF DiscoveryTypes, Running, NoQuery, Steps

LEMMA SliceFacts ==
    ASSUME DiscoveryTypes, NEW m \in Nat, NEW n \in Nat, n <= Len(list)
    PROVE  ToSet(SubSeq(list, m + 1, n)) = {list[i] : i \in (m + 1) .. n}
<1>1. list \in Seq(Host \cup {Bad})
  BY ListAssumption DEF DiscoveryTypes
<1>2. Len(list) \in Nat /\ \A i \in (m + 1) .. n : list[i] \in Host \cup {Bad}
  BY <1>1
<1> PICK s : s = SubSeq(list, m + 1, n)
  OBVIOUS
<1>3. /\ s \in Seq(Host \cup {Bad})
      /\ Len(s) = IF m + 1 <= n THEN n - (m + 1) + 1 ELSE 0
      /\ \A i \in 1 .. n - (m + 1) + 1 : s[i] = list[(m + 1) + i - 1]
  BY <1>2, SubSeqProperties
<1>4. DOMAIN s = 1 .. (n - m) \/ (DOMAIN s = {} /\ n < m + 1)
  BY <1>3
<1>5. \A i \in DOMAIN s : i \in 1 .. (n - m) /\ s[i] = list[m + i] /\ m + i \in (m + 1) .. n
  BY <1>3, <1>4
<1>6. \A i \in (m + 1) .. n : i - m \in DOMAIN s /\ s[i - m] = list[i]
  BY <1>3, <1>4
<1>7. \A i \in (m + 1) .. n : list[i] \in {s[j] : j \in DOMAIN s}
  <2> SUFFICES ASSUME NEW i \in (m + 1) .. n PROVE list[i] \in {s[j] : j \in DOMAIN s}
    OBVIOUS
  <2>1. i - m \in DOMAIN s /\ s[i - m] = list[i]
    BY <1>6
  <2> QED BY <2>1
<1>8. \A j \in DOMAIN s : s[j] \in {list[i] : i \in (m + 1) .. n}
  BY <1>5
<1> QED BY <1>7, <1>8 DEF ToSet

LEMMA PageFacts ==
    ASSUME DiscoveryTypes, NEW skip \in Nat
    PROVE  /\ Page(skip) \ {Bad} \subseteq Host
           /\ First(skip + Limit) = First(skip) \cup (Page(skip) \ {Bad})
           /\ skip <= Len(list) => First(skip) \subseteq ToSet(SubSeq(list, 1, skip))
           /\ IsFiniteSet(Page(skip))
<1>1. list \in Seq(Host \cup {Bad}) /\ Bad \notin Host
  BY ListAssumption, HostAssumption DEF DiscoveryTypes
<1>2. Len(list) \in Nat /\ \A i \in 1 .. Len(list) : list[i] \in Host \cup {Bad}
  BY <1>1
<1> PICK top \in Nat : top = IF Len(list) < skip + Limit THEN Len(list) ELSE skip + Limit
  BY <1>2, Limits
<1>3. Page(skip) = {list[i] : i \in (skip + 1) .. top}
  BY <1>2, Limits, SliceFacts DEF Page
<1>4. \A i \in (skip + 1) .. top : i \in 1 .. Len(list)
  BY <1>2, Limits
<1>5. Page(skip) \ {Bad} \subseteq Host
  BY <1>2, <1>3, <1>4
<1>6. First(skip + Limit) = First(skip) \cup (Page(skip) \ {Bad})
  <2>1. ASSUME NEW h \in First(skip + Limit) PROVE h \in First(skip) \cup (Page(skip) \ {Bad})
    <3>1. PICK i \in 1 .. Len(list) : i <= skip + Limit /\ list[i] = h
      BY <2>1 DEF First
    <3>2. h \in Host /\ h # Bad
      BY <1>1, <2>1 DEF First
    <3>3. CASE i <= skip
      BY <3>1, <3>2, <3>3 DEF First
    <3>4. CASE ~(i <= skip)
      <4>1. i \in (skip + 1) .. top
        BY <1>2, <3>1, <3>4, Limits
      <4> QED BY <1>3, <3>1, <3>2, <4>1
    <3> QED BY <3>3, <3>4
  <2>2. First(skip) \subseteq First(skip + Limit)
    BY <1>2, Limits DEF First
  <2>3. ASSUME NEW h \in Page(skip) \ {Bad} PROVE h \in First(skip + Limit)
    <3>1. PICK i \in (skip + 1) .. top : h = list[i]
      BY <1>3, <2>3
    <3>2. i \in 1 .. Len(list) /\ i <= skip + Limit
      BY <1>2, <1>4, <3>1, Limits
    <3> QED BY <1>5, <2>3, <3>1, <3>2 DEF First
  <2> QED BY <2>1, <2>2, <2>3
<1>7. ASSUME skip <= Len(list) PROVE First(skip) \subseteq ToSet(SubSeq(list, 1, skip))
  <2>1. ToSet(SubSeq(list, 0 + 1, skip)) = {list[i] : i \in (0 + 1) .. skip}
    BY <1>2, <1>7, SliceFacts
  <2>2. ToSet(SubSeq(list, 1, skip)) = {list[i] : i \in 1 .. skip}
    BY <2>1
  <2> QED BY <1>2, <1>7, <2>2 DEF First
<1>8. IsFiniteSet(Page(skip))
  <2> PICK f : f = [i \in (skip + 1) .. top |-> list[i]]
    OBVIOUS
  <2>1. f \in Surjection((skip + 1) .. top, Page(skip))
    BY <1>3 DEF Surjection
  <2>2. skip + 1 \in Int /\ top \in Int
    OBVIOUS
  <2>3. IsFiniteSet((skip + 1) .. top)
    BY <2>2, FS_Interval
  <2> QED BY <2>1, <2>3, FS_Surjection
<1> QED BY <1>5, <1>6, <1>7, <1>8

--------------------------------------------------------------------------------
(* The answer of a query.                                                   *)

\* The hosts of an answer were free together, in the one snapshot of the query.
Sound(q) ==
    /\ IsInjective(q.found)
    /\ ToSet(q.found) \subseteq q.snap \cap q.matched
    /\ q.read = FALSE => q.found = << >> /\ q.pages = 0
    /\ IsFiniteSet(q.page)

\* No free host after the cursor is missing from the first n entries.
Covers(q, n) == {h \in First(n) \cap q.snap : h > q.last} \subseteq ToSet(q.found)

\* As long as the list does not change the loop misses nothing it has passed,
\* and seen_hardware_ids is exactly what it has passed.
Thorough(q) ==
    /\ q.stuck <= q.pages
    /\ q.step = "loop" => q.pages = 0 \/ q.stuck < q.pages
    /\ q.step # "answered" /\ Len(q.found) < PageSize => Covers(q, q.pages * Limit)
    /\ q.step \in {"loop", "token", "request"} => q.seen = First(q.pages * Limit)
    /\ q.step = "filter" => /\ q.page = Page(q.pages * Limit) \ {Bad}
                            /\ q.seen = First(q.pages * Limit + Limit)
    /\ q.step = "answered" /\ Len(q.found) < PageSize /\ Readable /\ Len(list) <= MaxStuck * Limit
         => Covers(q, Len(list))

AnswerInv ==
    /\ DiscoveryTypes
    /\ \A c \in Query : query[c].step # "idle" =>
         Sound(query[c]) /\ (c \in steady => Thorough(query[c]))

LEMMA RowFacts ==
    ASSUME NEW S, IsFiniteSet(S), NEW rows \in SetToSeqs(S)
    PROVE  rows \in Seq(S) /\ IsInjective(rows) /\ ToSet(rows) = S
<1> PICK n : n = Cardinality(S)
  OBVIOUS
<1>1. n \in Nat
  BY FS_CardinalityType
<1>2. rows \in [1 .. n -> S] /\ \A i, j \in 1 .. n : i # j => rows[i] # rows[j]
  BY DEF SetToSeqs
<1>3. rows \in Injection(1 .. n, S)
  BY <1>2 DEF Injection, IsInjective
<1>4. Cardinality(1 .. n) = n
  BY <1>1, FS_Interval
<1>5. rows \in Surjection(1 .. n, S)
  BY <1>3, <1>4, FS_Injection
<1>6. \A h \in S : \E i \in 1 .. n : rows[i] = h
  BY <1>5 DEF Surjection
<1>7. rows \in Seq(S)
  BY <1>1, <1>2
<1> QED BY <1>2, <1>6, <1>7 DEF IsInjective, ToSet

LEMMA CutLength ==
    ASSUME NEW m \in Nat, NEW room \in Int, NEW k \in Nat,
           k = IF 1 <= (IF m < room THEN m ELSE room) THEN (IF m < room THEN m ELSE room) ELSE 0
    PROVE  /\ k <= m /\ (k < room => k = m)
           /\ \A i \in 1 .. k : i \in 1 .. m
OBVIOUS

LEMMA PrefixFacts ==
    ASSUME NEW S, NEW rows \in Seq(S), NEW top \in Int, top <= Len(rows)
    PROVE  /\ SubSeq(rows, 1, top) \in Seq(S)
           /\ Len(SubSeq(rows, 1, top)) = IF 1 <= top THEN top ELSE 0
           /\ \A i \in 1 .. top : SubSeq(rows, 1, top)[i] = rows[i]
<1>1. \A i \in 1 .. top : rows[i] \in S
  OBVIOUS
<1> PICK s : s = SubSeq(rows, 1, top)
  OBVIOUS
<1>2. /\ s \in Seq(S)
      /\ Len(s) = IF 1 <= top THEN top - 1 + 1 ELSE 0
      /\ \A i \in 1 .. top - 1 + 1 : s[i] = rows[1 + i - 1]
  BY <1>1, SubSeqProperties
<1> QED BY <1>2

LEMMA CutFacts ==
    ASSUME NEW S, NEW rows \in Seq(S), IsInjective(rows), NEW room \in Int, NEW top \in Int,
           top = IF Len(rows) < room THEN Len(rows) ELSE room
    PROVE  LET added == SubSeq(rows, 1, top) IN
           /\ added \in Seq(S) /\ IsInjective(added) /\ ToSet(added) \subseteq ToSet(rows)
           /\ Len(added) < room => ToSet(added) = ToSet(rows)
<1> PICK added : added = SubSeq(rows, 1, top)
  OBVIOUS
<1>1. Len(rows) \in Nat /\ DOMAIN rows = 1 .. Len(rows) /\ top <= Len(rows)
  OBVIOUS
<1>2. /\ added \in Seq(S)
      /\ Len(added) = IF 1 <= top THEN top ELSE 0
      /\ \A i \in 1 .. top : added[i] = rows[i]
  BY <1>1, PrefixFacts
<1>3. Len(added) \in Nat /\ DOMAIN added = 1 .. Len(added)
  BY <1>2
<1>4. /\ Len(added) < room => Len(added) = Len(rows)
      /\ \A i \in 1 .. Len(added) : i \in 1 .. Len(rows)
  BY <1>1, <1>2, <1>3, CutLength
<1>5. \A i \in DOMAIN added : i \in DOMAIN rows /\ added[i] = rows[i]
  <2> SUFFICES ASSUME NEW i \in 1 .. Len(added) PROVE i \in 1 .. Len(rows) /\ added[i] = rows[i]
    BY <1>1, <1>3
  <2>1. i \in 1 .. Len(rows)
    BY <1>4
  <2>2. 1 <= top /\ Len(added) = top
    BY <1>2
  <2> QED BY <1>2, <2>1, <2>2
<1>6. Len(added) < room => ToSet(added) = ToSet(rows)
  BY <1>1, <1>3, <1>4, <1>5 DEF ToSet
<1>7. IsInjective(added)
  BY <1>5 DEF IsInjective
<1>8. ToSet(added) \subseteq ToSet(rows)
  BY <1>5 DEF ToSet
<1> QED BY <1>2, <1>6, <1>7, <1>8

LEMMA JoinFacts ==
    ASSUME NEW S, NEW s \in Seq(S), NEW t \in Seq(S), IsInjective(s), IsInjective(t),
           ToSet(s) \cap ToSet(t) = {}
    PROVE  /\ s \o t \in Seq(S) /\ IsInjective(s \o t)
           /\ Len(s \o t) = Len(s) + Len(t)
           /\ ToSet(s \o t) = ToSet(s) \cup ToSet(t)
<1> PICK u : u = s \o t
  OBVIOUS
<1>1. /\ u \in Seq(S) /\ Len(u) = Len(s) + Len(t)
      /\ \A i \in 1 .. Len(s) + Len(t) : u[i] = IF i <= Len(s) THEN s[i] ELSE t[i - Len(s)]
  BY ConcatProperties
<1>2. /\ Len(s) \in Nat /\ DOMAIN s = 1 .. Len(s) /\ Len(t) \in Nat /\ DOMAIN t = 1 .. Len(t)
      /\ DOMAIN u = 1 .. (Len(s) + Len(t))
  BY <1>1
<1>3. \A i \in DOMAIN u : \/ i \in DOMAIN s /\ u[i] = s[i] /\ u[i] \in ToSet(s)
                          \/ i - Len(s) \in DOMAIN t /\ u[i] = t[i - Len(s)] /\ u[i] \in ToSet(t)
  BY <1>1, <1>2 DEF ToSet
<1>4. IsInjective(u)
  <2> SUFFICES ASSUME NEW i \in DOMAIN u, NEW j \in DOMAIN u, u[i] = u[j] PROVE i = j
    BY DEF IsInjective
  <2>1. CASE i \in DOMAIN s /\ u[i] = s[i] /\ u[i] \in ToSet(s)
    BY <1>3, <2>1 DEF IsInjective
  <2>2. CASE i - Len(s) \in DOMAIN t /\ u[i] = t[i - Len(s)] /\ u[i] \in ToSet(t)
    <3>1. j - Len(s) \in DOMAIN t /\ u[j] = t[j - Len(s)]
      BY <1>3, <2>2
    <3>2. i - Len(s) = j - Len(s)
      BY <2>2, <3>1 DEF IsInjective
    <3> QED BY <1>2, <3>2
  <2> QED BY <1>3, <2>1, <2>2
<1>5. \A i \in DOMAIN s : i \in DOMAIN u /\ u[i] = s[i]
  BY <1>1, <1>2
<1>6. \A i \in DOMAIN t : i + Len(s) \in DOMAIN u /\ u[i + Len(s)] = t[i]
  BY <1>1, <1>2
<1>7. ToSet(u) = ToSet(s) \cup ToSet(t)
  <2>1. ToSet(u) \subseteq ToSet(s) \cup ToSet(t)
    BY <1>3 DEF ToSet
  <2>2. ToSet(s) \subseteq ToSet(u)
    BY <1>5 DEF ToSet
  <2>3. ToSet(t) \subseteq ToSet(u)
    BY <1>6 DEF ToSet
  <2> QED BY <2>1, <2>2, <2>3
<1> QED BY <1>1, <1>4, <1>7

LEMMA PastTheEnd ==
    ASSUME DiscoveryTypes, NEW n \in Nat, Len(list) <= n
    PROVE  First(n) = First(Len(list))
<1>1. Len(list) \in Nat
  BY ListAssumption DEF DiscoveryTypes
<1> QED BY <1>1 DEF First

LEMMA Products ==
    ASSUME NEW p \in Nat
    PROVE  /\ p * Limit \in Nat /\ p <= p * Limit
           /\ (p + 1) * Limit = p * Limit + Limit
           /\ p >= MaxStuck => p * Limit >= MaxStuck * Limit
BY Limits

\* What a query remembers of an unchanged list stays true.
LEMMA ThoroughKept ==
    ASSUME UNCHANGED list, NEW q
    PROVE  Thorough(q)' <=> Thorough(q)
BY DEF Thorough, Covers, First, Page, Readable

\* A step of one query.
LEMMA QueryStep ==
    ASSUME AnswerInv, NEW c \in Query, NEW v \in Running \cup {NoQuery},
           query' = [query EXCEPT ![c] = v], UNCHANGED <<list, free>>,
           steady' = steady \/ steady' = steady \cup {c},
           v # NoQuery => Sound(v) /\ (c \in steady' => Thorough(v))
    PROVE  AnswerInv'
<1>1. DiscoveryTypes'
  BY DEF AnswerInv, DiscoveryTypes
<1>2. ASSUME NEW d \in Query, NEW w, w = query'[d], w.step # "idle"
      PROVE  Sound(w) /\ (d \in steady' => Thorough(w)')
  <2>1. CASE d = c
    <3>1. w = v /\ v # NoQuery
      BY <1>2, <2>1 DEF AnswerInv, DiscoveryTypes, NoQuery
    <3> QED BY <2>1, <3>1, ThoroughKept
  <2>2. CASE d # c
    <3>1. w = query[d] /\ (d \in steady' => d \in steady)
      BY <1>2, <2>2 DEF AnswerInv, DiscoveryTypes
    <3>2. Sound(w) /\ (d \in steady => Thorough(w))
      BY <1>2, <3>1 DEF AnswerInv
    <3> QED BY <3>1, <3>2, ThoroughKept
  <2> QED BY <2>1, <2>2
<1>3. ASSUME NEW d \in Query, query'[d].step # "idle"
      PROVE  Sound(query[d])' /\ (d \in steady' => Thorough(query[d])')
  <2> PICK w : w = query'[d]
    OBVIOUS
  <2>1. Sound(w) /\ (d \in steady' => Thorough(w)')
    BY <1>2, <1>3
  <2>2. Sound(query[d])'
    BY <2>1 DEF Sound
  <2>3. Thorough(w)' => Thorough(query[d])'
    BY DEF Thorough, Covers, First, Page, Readable
  <2> QED BY <2>1, <2>2, <2>3
<1> QED BY <1>1, <1>3 DEF AnswerInv

LEMMA QueryFacts ==
    ASSUME AnswerInv, NEW c \in Query, NEW q, q = query[c], q.step # "idle"
    PROVE  /\ q \in Running /\ Sound(q) /\ (c \in steady => Thorough(q))
           /\ Len(q.found) \in Nat
<1>1. q \in Running
  BY IdleOrRunning DEF AnswerInv
<1> QED BY <1>1 DEF AnswerInv, Running

LEMMA NothingPassed == 0 * Limit = 0 /\ (DiscoveryTypes => First(0) = {})
<1>1. 0 * Limit = 0
  BY Limits
<1>2. DiscoveryTypes => First(0) = {}
  <2> SUFFICES ASSUME DiscoveryTypes PROVE First(0) = {}
    OBVIOUS
  <2>1. \A i \in 1 .. Len(list) : ~(i <= 0)
    BY ListAssumption DEF DiscoveryTypes
  <2> QED BY <2>1 DEF First
<1> QED BY <1>1, <1>2

\* The counter of pages without progress never passes the pages.
LEMMA StuckFacts ==
    ASSUME NEW q \in Running
    PROVE  /\ Stuck(q) \in Nat
           /\ Thorough(q) /\ q.step = "loop" => Stuck(q) <= q.pages
BY DEF Stuck, Running, Thorough

LEMMA AskKeeps == ASSUME AnswerInv, NEW c \in Query, NEW last \in Host \cup {0}, Ask(c, last)
                  PROVE  AnswerInv'
<1> PICK v : v = [step |-> "loop", last |-> last, pages |-> 0, stuck |-> 0, before |-> 0,
                  page |-> {}, seen |-> {}, read |-> FALSE, snap |-> {}, matched |-> {},
                  found |-> <<>>]
  OBVIOUS
<1>1. last \in Nat
  BY HostAssumption
<1>2. << >> \in Seq(Host) /\ IsInjective(<< >>) /\ ToSet(<< >>) = {}
  BY DEF IsInjective, ToSet
<1>3. v \in Running
  BY <1>1, <1>2 DEF Running, Steps
<1>4. Sound(v)
  BY <1>2, FS_EmptySet DEF Sound
<1>5. Thorough(v)
  BY NothingPassed DEF Thorough, Covers, AnswerInv
<1>6. query' = [query EXCEPT ![c] = v] /\ steady' = steady \cup {c} /\ UNCHANGED <<list, free>>
  BY DEF Ask, outside
<1> QED BY <1>3, <1>4, <1>5, <1>6, QueryStep

LEMMA LoopEndsKeeps == ASSUME AnswerInv, NEW c \in Query, LoopEnds(c) PROVE AnswerInv'
<1> PICK q : q = query[c]
  OBVIOUS
<1> PICK v : v = [q EXCEPT !.step = "answered"]
  OBVIOUS
<1>1. q.step = "loop" /\ Enough(q)
  BY DEF LoopEnds, Now
<1>2. q \in Running /\ Sound(q) /\ (c \in steady => Thorough(q))
  BY <1>1, QueryFacts
<1>3. /\ v \in Running /\ v.step = "answered" /\ v.stuck = q.stuck /\ v.pages = q.pages
      /\ v.found = q.found /\ v.snap = q.snap /\ v.last = q.last /\ v.matched = q.matched
      /\ v.read = q.read /\ v.page = q.page
  BY <1>2 DEF Running, Steps
<1>4. Sound(v)
  BY <1>2, <1>3 DEF Sound
<1>5. ASSUME c \in steady PROVE Thorough(v)
  <2>1. Thorough(q)
    BY <1>2, <1>5
  <2>2. q.pages \in Nat /\ Len(q.found) \in Nat
    BY <1>2 DEF Running
  <2>3. ASSUME Len(q.found) < PageSize, Len(list) <= MaxStuck * Limit
        PROVE  Covers(q, Len(list))
    <3>1. Covers(q, q.pages * Limit)
      BY <1>1, <2>1, <2>3 DEF Thorough
    <3>2. Stuck(q) >= MaxStuck \/ q.pages = MaxPages
      BY <1>1, <2>2, <2>3, Limits DEF Enough
    <3>3. q.pages >= MaxStuck
      BY <1>1, <1>2, <2>1, <2>2, <3>2, StuckFacts, Limits
    <3>4. q.pages * Limit \in Nat /\ q.pages * Limit >= MaxStuck * Limit
      BY <2>2, <3>3, Products
    <3>5. Len(list) \in Nat /\ MaxStuck * Limit \in Nat
      BY ListAssumption, Limits DEF AnswerInv, DiscoveryTypes
    <3>6. Len(list) <= q.pages * Limit
      BY <2>3, <3>4, <3>5
    <3>7. First(q.pages * Limit) = First(Len(list))
      BY <3>4, <3>6, PastTheEnd DEF AnswerInv
    <3> QED BY <3>1, <3>7 DEF Covers
  <2>4. v.stuck <= v.pages
    BY <1>3, <2>1 DEF Thorough
  <2>5. Len(v.found) < PageSize /\ Len(list) <= MaxStuck * Limit => Covers(v, Len(list))
    BY <1>3, <2>3 DEF Covers
  <2> QED BY <1>3, <2>4, <2>5 DEF Thorough
<1>6. query' = [query EXCEPT ![c] = v] /\ steady' = steady /\ UNCHANGED <<list, free>>
  BY DEF LoopEnds, Goto, outside
<1> QED BY <1>3, <1>4, <1>5, <1>6, QueryStep

LEMMA FailsKeeps ==
    ASSUME AnswerInv, NEW c \in Query, Fails(c), UNCHANGED <<list, free, steady>>
    PROVE  AnswerInv'
BY QueryStep DEF Fails

LEMMA FetchBeginsKeeps == ASSUME AnswerInv, NEW c \in Query, FetchBegins(c) PROVE AnswerInv'
<1> PICK q : q = query[c]
  OBVIOUS
<1> PICK k : k = Stuck(q)
  OBVIOUS
<1> PICK v : v = [q EXCEPT !.step = "token", !.stuck = k]
  OBVIOUS
<1>1. q.step = "loop"
  BY DEF FetchBegins, Now
<1>2. q \in Running /\ Sound(q) /\ (c \in steady => Thorough(q))
  BY <1>1, QueryFacts
<1>3. k \in Nat /\ (c \in steady => k <= q.pages)
  BY <1>1, <1>2, StuckFacts
<1>4. /\ v \in Running /\ v.step = "token" /\ v.stuck = k /\ v.pages = q.pages
      /\ v.found = q.found /\ v.snap = q.snap /\ v.last = q.last /\ v.matched = q.matched
      /\ v.read = q.read /\ v.page = q.page /\ v.seen = q.seen
  BY <1>2, <1>3 DEF Running, Steps
<1>5. Sound(v)
  BY <1>2, <1>4 DEF Sound
<1>6. c \in steady => Thorough(v)
  BY <1>1, <1>2, <1>3, <1>4 DEF Thorough, Covers
<1>7. query' = [query EXCEPT ![c] = v] /\ steady' = steady /\ UNCHANGED <<list, free>>
  BY DEF FetchBegins, outside
<1> QED BY <1>4, <1>5, <1>6, <1>7, QueryStep

LEMMA TokenFoundKeeps == ASSUME AnswerInv, NEW c \in Query, TokenFound(c) PROVE AnswerInv'
<1> PICK q : q = query[c]
  OBVIOUS
<1> PICK v : v = [q EXCEPT !.step = "request"]
  OBVIOUS
<1>1. q.step = "token"
  BY DEF TokenFound, Now
<1>2. q \in Running /\ Sound(q) /\ (c \in steady => Thorough(q))
  BY <1>1, QueryFacts
<1>3. /\ v \in Running /\ v.step = "request" /\ v.stuck = q.stuck /\ v.pages = q.pages
      /\ v.found = q.found /\ v.snap = q.snap /\ v.last = q.last /\ v.matched = q.matched
      /\ v.read = q.read /\ v.page = q.page /\ v.seen = q.seen
  BY <1>2 DEF Running, Steps
<1>4. Sound(v)
  BY <1>2, <1>3 DEF Sound
<1>5. c \in steady => Thorough(v)
  BY <1>1, <1>2, <1>3 DEF Thorough, Covers
<1>6. query' = [query EXCEPT ![c] = v] /\ steady' = steady /\ UNCHANGED <<list, free>>
  BY DEF TokenFound, Goto
<1> QED BY <1>3, <1>4, <1>5, <1>6, QueryStep

\* A page with nothing new is past the end of a list whose pages can be read.
LEMMA NothingNew ==
    ASSUME DiscoveryTypes, Readable, NEW p \in Nat,
           Page(p * Limit) \ {Bad} \subseteq First(p * Limit)
    PROVE  First(p * Limit) = First(Len(list))
<1> PICK n \in Nat : n = p * Limit /\ p <= n
  BY Products
<1>1. Len(list) \in Nat
  BY ListAssumption DEF DiscoveryTypes
<1>2. CASE n < Len(list)
  <2>1. First(n) \subseteq ToSet(SubSeq(list, 1, n))
    BY <1>1, <1>2, PageFacts
  <2>2. Page(n) \subseteq {Bad} \cup ToSet(SubSeq(list, 1, n))
    BY <2>1
  <2>3. p \in 0 .. Len(list) /\ p * Limit < Len(list)
    BY <1>1, <1>2
  <2>4. ~(Page(p * Limit) \subseteq {Bad} \cup ToSet(SubSeq(list, 1, p * Limit)))
    BY <2>3 DEF Readable
  <2> QED BY <2>2, <2>4
<1>3. CASE ~(n < Len(list))
  BY <1>1, <1>3, PastTheEnd
<1> QED BY <1>2, <1>3

LEMMA PageArrivesKeeps == ASSUME AnswerInv, NEW c \in Query, PageArrives(c) PROVE AnswerInv'
<1> PICK q : q = query[c]
  OBVIOUS
<1> PICK k : k = q.pages * Limit
  OBVIOUS
<1> PICK page : page = Page(k) \ {Bad}
  OBVIOUS
<1> PICK v : v = IF page \subseteq q.seen
                 THEN [q EXCEPT !.step = "answered"]
                 ELSE [q EXCEPT !.step = "filter", !.page = page, !.seen = q.seen \cup page]
  OBVIOUS
<1>1. q.step = "request"
  BY DEF PageArrives, Now
<1>2. q \in Running /\ Sound(q) /\ (c \in steady => Thorough(q))
  BY <1>1, QueryFacts
<1>3. q.pages \in Nat /\ k \in Nat /\ q.seen \in SUBSET Host
  BY <1>2, Products DEF Running
<1>4. page \subseteq Host /\ IsFiniteSet(page) /\ First(k + Limit) = First(k) \cup page
  BY <1>3, PageFacts, FS_Subset DEF AnswerInv
<1>5. /\ v \in Running /\ v.stuck = q.stuck /\ v.pages = q.pages
      /\ v.found = q.found /\ v.snap = q.snap /\ v.last = q.last /\ v.matched = q.matched
      /\ v.read = q.read
      /\ IF page \subseteq q.seen
         THEN v.step = "answered" /\ v.page = q.page
         ELSE v.step = "filter" /\ v.page = page /\ v.seen = q.seen \cup page
  BY <1>2, <1>3, <1>4 DEF Running, Steps
<1>6. Sound(v)
  BY <1>2, <1>4, <1>5 DEF Sound
<1>7. ASSUME c \in steady PROVE Thorough(v)
  <2>1. /\ q.stuck <= q.pages /\ q.seen = First(k)
        /\ Len(q.found) < PageSize => Covers(q, k)
    BY <1>1, <1>2, <1>7 DEF Thorough
  <2>2. Len(v.found) < PageSize => Covers(v, k)
    BY <1>5, <2>1 DEF Covers
  <2>3. CASE page \subseteq q.seen
    <3>1. Readable => First(k) = First(Len(list))
      BY <1>3, <2>1, <2>3, NothingNew DEF AnswerInv
    <3>2. Readable /\ Len(v.found) < PageSize => Covers(v, Len(list))
      BY <2>2, <3>1 DEF Covers
    <3> QED BY <1>5, <2>1, <2>3, <3>2 DEF Thorough
  <2>4. CASE ~(page \subseteq q.seen)
    <3>1. v.seen = First(k + Limit) /\ v.page = Page(k) \ {Bad} /\ v.step = "filter"
      BY <1>4, <1>5, <2>1, <2>4
    <3> QED BY <1>5, <2>1, <2>2, <3>1 DEF Thorough
  <2> QED BY <2>3, <2>4
<1>8. query' = [query EXCEPT ![c] = v] /\ steady' = steady /\ UNCHANGED <<list, free>>
  BY DEF PageArrives, outside
<1> QED BY <1>5, <1>6, <1>7, <1>8, QueryStep

LEMMA JoinFresh ==
    ASSUME NEW found \in Seq(Host), IsInjective(found), NEW fresh \in SUBSET Host,
           fresh \cap ToSet(found) = {},
           NEW added \in Seq(fresh), IsInjective(added), ToSet(added) \subseteq fresh
    PROVE  /\ found \o added \in Seq(Host) /\ IsInjective(found \o added)
           /\ Len(found \o added) = Len(found) + Len(added)
           /\ ToSet(found \o added) = ToSet(found) \cup ToSet(added)
<1>1. added \in Seq(Host)
  OBVIOUS
<1>2. ToSet(found) \cap ToSet(added) = {}
  OBVIOUS
<1> QED BY <1>1, <1>2, JoinFacts

\* The answer after one page: rows is any order of the fresh hosts of the page.
LEMMA AnswerGrows ==
    ASSUME NEW found \in Seq(Host), IsInjective(found),
           NEW fresh \in SUBSET Host, IsFiniteSet(fresh), fresh \cap ToSet(found) = {},
           NEW rows \in SetToSeqs(fresh),
           NEW room \in Int, room = PageSize - Len(found),
           NEW top, top = IF Len(rows) < room THEN Len(rows) ELSE room
    PROVE  LET longer == found \o SubSeq(rows, 1, top) IN
           /\ longer \in Seq(Host) /\ IsInjective(longer)
           /\ ToSet(longer) \subseteq ToSet(found) \cup fresh
           /\ ToSet(found) \subseteq ToSet(longer)
           /\ Len(longer) < PageSize => Len(found) < PageSize /\ fresh \subseteq ToSet(longer)
<1> PICK added : added = SubSeq(rows, 1, top)
  OBVIOUS
<1> PICK longer : longer = found \o added
  OBVIOUS
<1>1. rows \in Seq(fresh) /\ IsInjective(rows) /\ ToSet(rows) = fresh
  BY RowFacts
<1>2. top \in Int
  <2>1. Len(rows) \in Nat
    BY <1>1
  <2> QED BY <2>1
<1>3. /\ added \in Seq(fresh) /\ IsInjective(added) /\ ToSet(added) \subseteq fresh
      /\ Len(added) < room => ToSet(added) = fresh
  BY <1>1, <1>2, CutFacts
<1>4. /\ longer \in Seq(Host) /\ IsInjective(longer)
      /\ Len(longer) = Len(found) + Len(added)
      /\ ToSet(longer) = ToSet(found) \cup ToSet(added)
  BY <1>3, JoinFresh
<1>5. Len(found) \in Nat /\ Len(added) \in Nat /\ PageSize \in Nat
  BY <1>3, Limits
<1>6. ASSUME Len(longer) < PageSize
      PROVE  Len(found) < PageSize /\ Len(added) < room
  <2> PICK m \in Nat, n \in Nat : m = Len(found) /\ n = Len(added) /\ Len(longer) = m + n
    BY <1>4, <1>5
  <2> QED BY <1>5, <1>6
<1> QED BY <1>3, <1>4, <1>6

LEMMA FilteredAnswer ==
    ASSUME NEW q \in Running, IsInjective(q.found),
           NEW available \in SUBSET Host, IsFiniteSet(available),
           NEW rows \in SetToSeqs(Fresh(q, available))
    PROVE  \A found :
             found = q.found \o SubSeq(rows, 1, IF Len(rows) < PageSize - Len(q.found)
                                                THEN Len(rows) ELSE PageSize - Len(q.found))
               => /\ found \in Seq(Host) /\ IsInjective(found)
                  /\ ToSet(found) \subseteq ToSet(q.found) \cup available
                  /\ ToSet(q.found) \subseteq ToSet(found)
                  /\ Len(found) < PageSize
                       => /\ Len(q.found) < PageSize
                          /\ \A h \in available : h > q.last => h \in ToSet(found)
<1> SUFFICES ASSUME NEW found,
                    found = q.found \o SubSeq(rows, 1, IF Len(rows) < PageSize - Len(q.found)
                                                       THEN Len(rows) ELSE PageSize - Len(q.found))
             PROVE  /\ found \in Seq(Host) /\ IsInjective(found)
                    /\ ToSet(found) \subseteq ToSet(q.found) \cup available
                    /\ ToSet(q.found) \subseteq ToSet(found)
                    /\ Len(found) < PageSize
                         => /\ Len(q.found) < PageSize
                            /\ \A h \in available : h > q.last => h \in ToSet(found)
  OBVIOUS
<1>1. q.found \in Seq(Host)
  BY DEF Running
<1>2. PageSize - Len(q.found) \in Int
  BY <1>1, Limits
<1> PICK fresh : fresh = Fresh(q, available)
  OBVIOUS
<1>3. /\ fresh \subseteq available /\ fresh \cap ToSet(q.found) = {}
      /\ \A h \in available : h > q.last => h \in ToSet(q.found) \cup fresh
  BY DEF Fresh
<1>4. fresh \in SUBSET Host /\ IsFiniteSet(fresh)
  BY <1>3, FS_Subset
<1>5. /\ found \in Seq(Host) /\ IsInjective(found)
      /\ ToSet(found) \subseteq ToSet(q.found) \cup fresh
      /\ ToSet(q.found) \subseteq ToSet(found)
      /\ Len(found) < PageSize => Len(q.found) < PageSize /\ fresh \subseteq ToSet(found)
  <2> PICK old : old = q.found
    OBVIOUS
  <2> PICK room : room = PageSize - Len(old)
    OBVIOUS
  <2> PICK top : top = IF Len(rows) < room THEN Len(rows) ELSE room
    OBVIOUS
  <2>1. found = old \o SubSeq(rows, 1, top)
    OBVIOUS
  <2>2. old \in Seq(Host) /\ IsInjective(old) /\ room \in Int /\ rows \in SetToSeqs(fresh)
    BY <1>1, <1>2
  <2>3. fresh \cap ToSet(old) = {}
    BY <1>3
  <2>4. \A r, t : r = PageSize - Len(old) /\ r \in Int /\ t = (IF Len(rows) < r THEN Len(rows) ELSE r)
          => LET longer == old \o SubSeq(rows, 1, t) IN
           /\ longer \in Seq(Host) /\ IsInjective(longer)
           /\ ToSet(longer) \subseteq ToSet(old) \cup fresh
           /\ ToSet(old) \subseteq ToSet(longer)
           /\ Len(longer) < PageSize => Len(old) < PageSize /\ fresh \subseteq ToSet(longer)
    BY <1>4, <2>2, <2>3, AnswerGrows
  <2> QED BY <2>1, <2>2, <2>4
<1> QED BY <1>3, <1>5

LEMMA FilterKeeps == ASSUME AnswerInv, NEW c \in Query, Filter(c) PROVE AnswerInv'
<1>1. PICK q : q = query[c]
  OBVIOUS
<1>2. PICK snap : snap = Snapshot(q)
  OBVIOUS
<1>3. PICK available : available = q.page \cap snap
  OBVIOUS
<1>4. q.step = "filter"
  BY <1>1 DEF Filter, Now
<1>5. q \in Running /\ Sound(q) /\ (c \in steady => Thorough(q)) /\ Len(q.found) \in Nat
  BY <1>1, <1>4, QueryFacts
<1>6. PICK rows \in SetToSeqs(Fresh(q, available)) :
        query' = [query EXCEPT ![c] =
                    [q EXCEPT !.step = "loop", !.pages = q.pages + 1, !.before = Len(q.found),
                              !.page = {}, !.read = TRUE, !.snap = snap,
                              !.matched = q.matched \cup available,
                              !.found = q.found \o
                                SubSeq(rows, 1,
                                       IF Len(rows) < PageSize - Len(q.found)
                                       THEN Len(rows) ELSE PageSize - Len(q.found))]]
  BY <1>1, <1>2, <1>3 DEF Filter
<1>7. snap \in SUBSET Host
  BY <1>2, <1>5 DEF Snapshot, Running, AnswerInv, DiscoveryTypes
<1>8. available \in SUBSET Host /\ IsFiniteSet(available)
  BY <1>3, <1>5, <1>7, FS_Subset DEF Sound
<1>9. rows \in SetToSeqs(Fresh(q, available))
  BY <1>6
<1>10. IsInjective(q.found)
  BY <1>5 DEF Sound
<1>11. \A found :
       found = q.found \o SubSeq(rows, 1, IF Len(rows) < PageSize - Len(q.found)
                                          THEN Len(rows) ELSE PageSize - Len(q.found))
         => /\ found \in Seq(Host) /\ IsInjective(found)
            /\ ToSet(found) \subseteq ToSet(q.found) \cup available
            /\ ToSet(q.found) \subseteq ToSet(found)
            /\ Len(found) < PageSize
                 => /\ Len(q.found) < PageSize
                    /\ \A h \in available : h > q.last => h \in ToSet(found)
  <2>1. q \in Running
    BY <1>5
  <2> QED BY <1>8, <1>9, <1>10, <2>1, FilteredAnswer
<1>12. PICK found : found = q.found \o SubSeq(rows, 1, IF Len(rows) < PageSize - Len(q.found)
                                                    THEN Len(rows) ELSE PageSize - Len(q.found))
  OBVIOUS
<1>13. PICK v : v = [q EXCEPT !.step = "loop", !.pages = q.pages + 1, !.before = Len(q.found),
                           !.page = {}, !.read = TRUE, !.snap = snap,
                           !.matched = q.matched \cup available, !.found = found]
  OBVIOUS
<1>14. /\ found \in Seq(Host) /\ IsInjective(found)
       /\ ToSet(found) \subseteq ToSet(q.found) \cup available
       /\ ToSet(q.found) \subseteq ToSet(found)
       /\ Len(found) < PageSize => /\ Len(q.found) < PageSize
                                   /\ \A h \in available : h > q.last => h \in ToSet(found)
  BY <1>11, <1>12
<1>15. /\ v \in Running /\ v.step = "loop" /\ v.stuck = q.stuck /\ v.pages = q.pages + 1
       /\ v.found = found /\ v.snap = snap /\ v.last = q.last
       /\ v.matched = q.matched \cup available
       /\ v.read = TRUE /\ v.page = {} /\ v.seen = q.seen
  <2>1. q.matched \cup available \in SUBSET Host /\ q.pages + 1 \in Nat /\ {} \in SUBSET Host
    BY <1>5, <1>8 DEF Running
  <2> QED BY <1>5, <1>7, <1>13, <1>14, <2>1 DEF Running, Steps
\* Before the first SELECT the answer is empty; after it the snapshot stays.
<1>16. q.read = TRUE \/ (ToSet(q.found) = {} /\ q.pages = 0)
  <2>1. q.read \in BOOLEAN
    BY <1>5 DEF Running
  <2>2. ToSet(<< >>) = {}
    BY DEF ToSet
  <2> QED BY <1>5, <2>1, <2>2 DEF Sound
<1>17. Sound(v)
  <2>1. ToSet(q.found) \subseteq snap \cap q.matched
    BY <1>2, <1>5, <1>16 DEF Sound, Snapshot
  <2>2. ToSet(found) \subseteq snap \cap (q.matched \cup available)
    BY <1>3, <1>14, <2>1
  <2> QED BY <1>14, <1>15, <2>2, FS_EmptySet DEF Sound
<1>18. ASSUME c \in steady PROVE Thorough(v)
  <2> PICK k \in Nat : k = q.pages * Limit /\ (q.pages + 1) * Limit = k + Limit
    BY <1>5, Products DEF Running
  <2>1. /\ q.stuck <= q.pages /\ q.seen = First(k + Limit)
        /\ q.page = Page(k) \ {Bad}
        /\ Len(q.found) < PageSize => Covers(q, k)
    BY <1>4, <1>5, <1>18 DEF Thorough
  <2>2. First(k + Limit) = First(k) \cup q.page
    BY <2>1, PageFacts DEF AnswerInv
  <2>3. v.stuck <= v.pages /\ v.stuck < v.pages
    <3>1. q.stuck \in Nat /\ q.pages \in Nat
      BY <1>5 DEF Running
    <3> QED BY <1>15, <2>1, <3>1
  <2>4. ASSUME Len(found) < PageSize
        PROVE  {h \in First(k + Limit) \cap snap : h > q.last} \subseteq ToSet(found)
    <3>1. {h \in First(k) \cap snap : h > q.last} \subseteq ToSet(found)
      <4>1. CASE q.read = TRUE
        BY <1>2, <1>14, <2>1, <2>4, <4>1 DEF Covers, Snapshot
      <4>2. CASE q.pages = 0
        BY <4>2, NothingPassed DEF AnswerInv
      <4> QED BY <1>16, <4>1, <4>2
    <3>2. {h \in q.page \cap snap : h > q.last} \subseteq ToSet(found)
      BY <1>3, <1>14, <2>4
    <3> QED BY <2>2, <3>1, <3>2
  <2>5. Len(v.found) < PageSize => Covers(v, v.pages * Limit)
    BY <1>15, <2>4 DEF Covers
  <2>6. v.seen = First(v.pages * Limit)
    BY <1>15, <2>1
  <2> QED BY <1>15, <2>3, <2>5, <2>6 DEF Thorough
<1>19. query' = [query EXCEPT ![c] = v] /\ steady' = steady /\ UNCHANGED <<list, free>>
  BY <1>6, <1>12, <1>13 DEF Filter, outside
<1> QED BY <1>15, <1>17, <1>18, <1>19, QueryStep

\* A step of the rest of the world: a query that is steady after it sees the
\* list it has always seen.
LEMMA WorldKeeps ==
    ASSUME AnswerInv, UNCHANGED query, list' \in Lists, free' \in SUBSET Host,
           (UNCHANGED list /\ UNCHANGED steady) \/ steady' = {}
    PROVE  AnswerInv'
<1>1. DiscoveryTypes'
  BY DEF AnswerInv, DiscoveryTypes
<1>2. ASSUME NEW c \in Query, query[c].step # "idle"
      PROVE  Sound(query[c])' /\ (c \in steady' => Thorough(query[c])')
  <2>1. Sound(query[c])' /\ (c \in steady => Thorough(query[c]))
    BY <1>2 DEF AnswerInv, Sound
  <2>2. UNCHANGED list => (Thorough(query[c])' <=> Thorough(query[c]))
    BY DEF Thorough, Covers, First, Page, Readable
  <2> QED BY <2>1, <2>2
<1> QED BY <1>1, <1>2 DEF AnswerInv

LEMMA AnswerInit == DiscoveryInit => AnswerInv
BY DEF DiscoveryInit, AnswerInv, DiscoveryTypes, NoQuery

LEMMA AnswerStep == AnswerInv /\ [DiscoveryNext]_discoveryVars => AnswerInv'
<1> SUFFICES ASSUME AnswerInv, [DiscoveryNext]_discoveryVars PROVE AnswerInv'
  OBVIOUS
<1>0. list \in Lists /\ free \in SUBSET Host
  BY DEF AnswerInv, DiscoveryTypes
<1>1. ASSUME NEW c \in Query, QueryNext(c) \/ Abandoned(c) PROVE AnswerInv'
  <2>1. CASE LoopEnds(c)
    BY <2>1, LoopEndsKeeps
  <2>2. CASE FetchBegins(c)
    BY <2>2, FetchBeginsKeeps
  <2>3. CASE TokenFound(c)
    BY <2>3, TokenFoundKeeps
  <2>4. CASE PageArrives(c)
    BY <2>4, PageArrivesKeeps
  <2>5. CASE Filter(c)
    BY <2>5, FilterKeeps
  <2>6. CASE \/ CircuitRejects(c) \/ TokenRefused(c) \/ AnswerIsError(c) \/ RequestRaises(c)
             \/ FilterFails(c) \/ Abandoned(c)
    <3>1. Fails(c) /\ UNCHANGED <<list, free, steady>>
      BY <2>6 DEF CircuitRejects, TokenRefused, AnswerIsError, RequestRaises, FilterFails,
                  Abandoned, outside
    <3> QED BY <3>1, FailsKeeps
  <2> QED BY <1>1, <2>1, <2>2, <2>3, <2>4, <2>5, <2>6 DEF QueryNext, CallEnding
<1>2. ASSUME NEW c \in Query, NEW last \in Host \cup {0}, Ask(c, last) PROVE AnswerInv'
  BY <1>2, AskKeeps
<1>3. CASE OtherBegins \/ \E c \in Caller \ Query : OtherEnds(c)
  BY <1>0, <1>3, WorldKeeps DEF OtherBegins, OtherEnds, outside
<1>4. CASE ListChanges \/ TokenExpires \/ TimePasses
  BY <1>0, <1>4, WorldKeeps DEF ListChanges, TokenExpires, TimePasses, outside
<1>5. ASSUME NEW h \in Host, HostChanges(h) PROVE AnswerInv'
  <2>1. free' \in SUBSET Host
    BY <1>0, <1>5 DEF HostChanges
  <2> QED BY <1>0, <1>5, <2>1, WorldKeeps DEF HostChanges
<1>6. CASE UNCHANGED discoveryVars
  BY <1>0, <1>6, WorldKeeps DEF discoveryVars, outside
<1> QED BY <1>1, <1>2, <1>3, <1>4, <1>5, <1>6 DEF DiscoveryNext

\* query_available_hosts answers each host once, and only with hosts that its
\* one database snapshot has as free and that some page listed: overlapping
\* pages, rows in any order and hosts taken meanwhile do not show.
THEOREM AnswersAreConsistent == DiscoverySpec => []ListedOnce
<1>1. AnswerInv => ListedOnce
  BY DEF AnswerInv, Sound, ListedOnce
<1> QED BY AnswerInit, AnswerStep, <1>1, PTL DEF DiscoverySpec

\* No test of the loop of query_available_hosts ends it too early: an answer
\* shorter than page_size has every free host of an unchanged list after the
\* cursor, whatever page_size, the request limit and the list are.
THEOREM LoopIsThorough == DiscoverySpec => []ShortAnswerIsComplete
<1>1. AnswerInv => ShortAnswerIsComplete
  <2> SUFFICES ASSUME AnswerInv, NEW c \in steady, NEW q, q = query[c], q.step = "answered",
                      Len(q.found) < PageSize, Readable, Len(list) <= MaxStuck * Limit,
                      NEW h \in q.snap \cap ToSet(list), h > q.last
               PROVE  h \in ToSet(q.found)
    BY DEF ShortAnswerIsComplete, Now
  <2>1. c \in Query
    BY DEF AnswerInv, DiscoveryTypes
  <2>2. q \in Running /\ Thorough(q)
    BY <2>1, QueryFacts
  <2>3. Covers(q, Len(list))
    BY <2>2 DEF Thorough
  <2>4. PICK i \in 1 .. Len(list) : list[i] = h
    BY ListAssumption DEF ToSet, AnswerInv, DiscoveryTypes
  <2>5. i <= Len(list) /\ h \in Host
    BY <2>2, ListAssumption DEF Running, AnswerInv, DiscoveryTypes
  <2>6. h \in First(Len(list))
    BY <2>4, <2>5 DEF First
  <2> QED BY <2>3, <2>6 DEF Covers
<1> QED BY AnswerInit, AnswerStep, <1>1, PTL DEF DiscoverySpec

================================================================================
