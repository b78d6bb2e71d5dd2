-------------------------- MODULE GatewayWsProofs --------------------------
(***************************************************************************)
(* Theorems about the gateway's WebSocket proxy, for every finite set of   *)
(* sessions, every limit and every number of frames.                       *)
(***************************************************************************)
EXTENDS GatewayWs, FiniteSetTheorems, TLAPS

NotForwarding == {"idle", "verify", "accept", "locate", "enter", "resolve", "connect"}

TypeControl ==
  /\ pc \in [Sessions -> Uncounted \cup Counted]
  /\ next \in [Sessions -> 1..Candidates]
  /\ table \subseteq Sessions
  /\ gone \in [Sessions -> BOOLEAN]
  /\ code \in [Sessions -> {0, 1000, 1008, 1011}]
  /\ backend \in [Sessions -> {"none", "open", "closed"}]

TypeFrames ==
  /\ sent \in [Sessions -> [Directions -> 0..MaxFrames]]
  /\ taken \in [Sessions -> [Directions -> 0..MaxFrames]]
  /\ pump \in [Sessions -> [Directions -> {"off", "recv", "send", "done"}]]
  /\ got \in [Sessions -> [Directions -> Seq(1..MaxFrames)]]

TableIsCounted == table = {s \in Sessions : pc[s] \in Counted}
OpenIsServed   == \A s \in Sessions : backend[s] = "open" => pc[s] = "open"
Answered       == \A s \in Sessions : pc[s] \in {"release", "done"} => gone[s] \/ code[s] # 0

\* How far a pump is tells what it has received and what it has delivered.
InStep(s, d) ==
  /\ taken[s][d] <= sent[s][d]
  /\ \A i \in 1..Len(got[s][d]) : got[s][d][i] = i
  /\ (pump[s][d] = "off" => taken[s][d] = 0 /\ got[s][d] = <<>>)
  /\ (pump[s][d] = "recv" => Len(got[s][d]) = taken[s][d])
  /\ (pump[s][d] = "send" => taken[s][d] = Len(got[s][d]) + 1)
  /\ (pc[s] \in NotForwarding => pump[s][d] = "off")
PumpsInStep == \A s \in Sessions, d \in Directions : InStep(s, d)

Control == TypeControl /\ TableIsCounted /\ OpenIsServed /\ Answered
WsInv == Control /\ TypeFrames /\ ConnectionsBounded /\ PumpsInStep

LEMMA InitWs == Init => WsInv
<1> SUFFICES ASSUME Init PROVE WsInv
  OBVIOUS
<1>1. TypeControl /\ TypeFrames
  BY CandidatesAssumption, FramesAssumption
  DEF Init, TypeControl, TypeFrames, PerDirection, Uncounted
<1>2. TableIsCounted /\ OpenIsServed /\ Answered
  BY DEF Init, TableIsCounted, OpenIsServed, Answered, Counted
<1>3. ConnectionsBounded
  BY ConnectionsAssumption, FS_EmptySet DEF Init, ConnectionsBounded
<1>4. PumpsInStep
  BY DEF Init, PumpsInStep, InStep, PerDirection
<1> QED BY <1>1, <1>2, <1>3, <1>4 DEF WsInv, Control

-----------------------------------------------------------------------------
(* The control state: what each write does to the sessions.                *)

LEMMA GotoFacts ==
    ASSUME TypeControl, NEW s \in Sessions, NEW l \in Uncounted \cup Counted, Goto(s, l)
    PROVE  /\ pc' \in [Sessions -> Uncounted \cup Counted]
           /\ pc'[s] = l
           /\ \A t \in Sessions \ {s} : pc'[t] = pc[t]
BY DEF TypeControl, Goto

LEMMA CloseClientFacts ==
    ASSUME TypeControl, NEW s \in Sessions, NEW c \in {1000, 1008, 1011}, CloseClient(s, c)
    PROVE  /\ code' \in [Sessions -> {0, 1000, 1008, 1011}]
           /\ gone[s] \/ code'[s] # 0
           /\ \A t \in Sessions : code[t] # 0 => code'[t] # 0
<1>1. CASE gone[s] \/ code[s] # 0
  BY <1>1 DEF TypeControl, CloseClient
<1>2. CASE ~(gone[s] \/ code[s] # 0)
  <2>1. code' = [code EXCEPT ![s] = c]
    BY <1>2 DEF CloseClient
  <2> QED BY <2>1 DEF TypeControl
<1> QED BY <1>1, <1>2

LEMMA CloseBackendFacts ==
    ASSUME TypeControl, NEW s \in Sessions, CloseBackend(s)
    PROVE  /\ backend' \in [Sessions -> {"none", "open", "closed"}]
           /\ backend'[s] # "open"
           /\ \A t \in Sessions : backend'[t] = "open" => backend[t] = "open"
BY DEF TypeControl, CloseBackend

LEMMA HandleKeepsControl ==
    ASSUME Control, NEW s \in Sessions, Handle(s)
    PROVE  Control'
<1> USE DEF Control, TableIsCounted, OpenIsServed, Answered, Counted, Uncounted
<1>0. TypeControl
  OBVIOUS
<1>1. CASE Arrive(s)
  <2>1. CASE Goto(s, "verify") /\ UNCHANGED code
    BY <1>1, <2>1, <1>0, GotoFacts DEF Arrive, TypeControl
  <2>2. CASE Goto(s, "done") /\ CloseClient(s, 1008)
    BY <1>1, <2>2, <1>0, GotoFacts, CloseClientFacts DEF Arrive, TypeControl
  <2> QED BY <1>1, <2>1, <2>2 DEF Arrive
<1>2. CASE VerifyAnswer(s)
  <2>1. CASE Goto(s, "accept") /\ UNCHANGED <<next, code>>
    BY <1>2, <2>1, <1>0, GotoFacts DEF VerifyAnswer, TypeControl
  <2>2. CASE Goto(s, "done") /\ CloseClient(s, 1008) /\ UNCHANGED next
    BY <1>2, <2>2, <1>0, GotoFacts, CloseClientFacts DEF VerifyAnswer, TypeControl
  <2>3. CASE /\ next[s] < Candidates
             /\ next' = [next EXCEPT ![s] = @ + 1]
             /\ UNCHANGED <<pc, code>>
    <3>1. next' \in [Sessions -> 1..Candidates]
      BY <2>3, <1>0, CandidatesAssumption DEF TypeControl
    <3> QED BY <1>2, <2>3, <3>1, <1>0 DEF VerifyAnswer, TypeControl
  <2> QED BY <1>2, <2>1, <2>2, <2>3 DEF VerifyAnswer
<1>3. CASE AcceptClient(s)
  BY <1>3, <1>0, GotoFacts DEF AcceptClient, TypeControl
<1>4. CASE Locate(s)
  <2>1. CASE Goto(s, "enter") /\ UNCHANGED code
    BY <1>4, <2>1, <1>0, GotoFacts DEF Locate, TypeControl
  <2>2. CASE Goto(s, "done") /\ CloseClient(s, 1011)
    BY <1>4, <2>2, <1>0, GotoFacts, CloseClientFacts DEF Locate, TypeControl
  <2> QED BY <1>4, <2>1, <2>2 DEF Locate
<1>5. CASE Enter(s)
  <2>1. CASE table' = table \cup {s} /\ Goto(s, "resolve") /\ UNCHANGED code
    BY <1>5, <2>1, <1>0, GotoFacts DEF Enter, TypeControl
  <2>2. CASE Goto(s, "done") /\ CloseClient(s, 1011) /\ UNCHANGED table
    BY <1>5, <2>2, <1>0, GotoFacts, CloseClientFacts DEF Enter, TypeControl
  <2> QED BY <1>5, <2>1, <2>2 DEF Enter
<1>6. CASE Resolve(s)
  BY <1>6, <1>0, GotoFacts DEF Resolve, TypeControl
<1>7. CASE Connect(s)
  BY <1>7, <1>0, GotoFacts DEF Connect, TypeControl
<1>10. CASE ConnectFailed(s)
  <2>1. PICK c \in {1008, 1011} : CloseClient(s, c)
    BY <1>10 DEF ConnectFailed
  <2> QED BY <1>10, <2>1, <1>0, GotoFacts, CloseClientFacts DEF ConnectFailed, TypeControl
<1>8. CASE Supervise(s)
  BY <1>8, <1>0, GotoFacts, CloseClientFacts, CloseBackendFacts DEF Supervise, TypeControl
<1>9. CASE Release(s)
  BY <1>9, <1>0, GotoFacts DEF Release, TypeControl
<1> QED BY <1>1, <1>2, <1>3, <1>4, <1>5, <1>6, <1>7, <1>8, <1>9, <1>10 DEF Handle

LEMMA PumpEndsFacts ==
    ASSUME Control, NEW s \in Sessions, NEW d \in Directions,
           PumpEnds(s, d), UNCHANGED <<pc, next, table, gone>>
    PROVE  Control'
<1>0. TypeControl
  BY DEF Control
<1>1. CASE d = Down
  BY <1>0, <1>1, CloseClientFacts, CloseBackendFacts
  DEF PumpEnds, Control, TableIsCounted, OpenIsServed, Answered, TypeControl
<1>2. CASE d # Down
  BY <1>0, <1>2, CloseBackendFacts
  DEF PumpEnds, Control, TableIsCounted, OpenIsServed, Answered, TypeControl
<1> QED BY <1>1, <1>2

LEMMA OthersKeepControl ==
    ASSUME Control, NEW s \in Sessions,
           \/ \E d \in Directions : Forward(s, d) \/ Send(s, d)
           \/ ClientLeaves(s)
           \/ BackendLeaves(s)
    PROVE  Control'
<1> USE DEF Control, TableIsCounted, OpenIsServed, Answered
<1>0. TypeControl
  OBVIOUS
<1>1. ASSUME NEW d \in Directions, PumpRecv(s, d) PROVE Control'
  BY <1>1 DEF PumpRecv, TypeControl
<1>2. ASSUME NEW d \in Directions, PumpSend(s, d) PROVE Control'
  BY <1>2, PumpEndsFacts DEF PumpSend, TypeControl
<1>3. ASSUME NEW d \in Directions, PumpStops(s, d) PROVE Control'
  BY <1>3, PumpEndsFacts DEF PumpStops
<1>4. ASSUME NEW d \in Directions, PumpBreaks(s, d) PROVE Control'
  BY <1>4, PumpEndsFacts DEF PumpBreaks
<1>5. ASSUME NEW d \in Directions, Send(s, d) PROVE Control'
  BY <1>5 DEF Send, TypeControl
<1>6. CASE ClientLeaves(s)
  BY <1>6 DEF ClientLeaves, TypeControl
<1>7. CASE BackendLeaves(s)
  BY <1>7, <1>0, CloseBackendFacts DEF BackendLeaves, TypeControl
<1> QED BY <1>1, <1>2, <1>3, <1>4, <1>5, <1>6, <1>7 DEF Forward

LEMMA NextKeepsControl == Control /\ [Next]_vars => Control'
<1>1. ASSUME Control, Next PROVE Control'
  BY <1>1, HandleKeepsControl, OthersKeepControl DEF Next
<1>2. ASSUME Control, UNCHANGED vars PROVE Control'
  BY <1>2 DEF vars, Control, TypeControl, TableIsCounted, OpenIsServed, Answered
<1> QED BY <1>1, <1>2

-----------------------------------------------------------------------------
(* The limit: a step that adds a session to the table finds it not full.   *)

LEMMA NextKeepsLimit ==
    ASSUME Control, ConnectionsBounded, [Next]_vars
    PROVE  ConnectionsBounded'
<1>1. table \subseteq Sessions /\ IsFiniteSet(table)
  BY SessionsAssumption, FS_Subset DEF Control, TypeControl
<1>2. Cardinality(table) \in Nat
  BY <1>1, FS_CardinalityType
<1>3. ASSUME NEW s \in Sessions, Enter(s) PROVE ConnectionsBounded'
  <2>1. CASE ~Full /\ table' = table \cup {s}
    <3>1. Cardinality(table \cup {s}) <= Cardinality(table) + 1
      <4>1. CASE s \in table
        <5>1. table \cup {s} = table
          BY <4>1
        <5> QED BY <5>1, <1>2
      <4>2. CASE s \notin table
        <5>1. Cardinality(table \cup {s}) = Cardinality(table) + 1
          BY <4>2, <1>1, FS_AddElement
        <5> QED BY <5>1, <1>2
      <4> QED BY <4>1, <4>2
    <3>2. Cardinality(table) + 1 <= MaxConnections
      BY <2>1, <1>2, ConnectionsAssumption DEF Full
    <3>3. IsFiniteSet(table \cup {s}) /\ Cardinality(table \cup {s}) \in Nat
      BY <1>1, FS_AddElement, FS_CardinalityType
    <3> QED BY <2>1, <3>1, <3>2, <3>3, <1>2, ConnectionsAssumption DEF ConnectionsBounded
  <2>2. CASE UNCHANGED table
    BY <2>2 DEF ConnectionsBounded
  <2> QED BY <1>3, <2>1, <2>2 DEF Enter
<1>4. ASSUME NEW s \in Sessions, Release(s) PROVE ConnectionsBounded'
  <2>1. Cardinality(table \ {s}) <= Cardinality(table)
    BY <1>1, FS_Subset, table \ {s} \subseteq table
  <2>2. IsFiniteSet(table \ {s}) /\ Cardinality(table \ {s}) \in Nat
    BY <1>1, FS_Subset, FS_CardinalityType, table \ {s} \subseteq table
  <2> QED BY <1>4, <2>1, <2>2, <1>2, ConnectionsAssumption DEF Release, ConnectionsBounded
<1>5. CASE UNCHANGED table
  BY <1>5 DEF ConnectionsBounded
<1>6. [Next]_vars => UNCHANGED table \/ \E s \in Sessions : Enter(s) \/ Release(s)
  BY DEF Next, Handle, Forward, Arrive, VerifyAnswer, AcceptClient, Locate, Resolve, Connect,
         ConnectFailed, Supervise, PumpRecv, PumpSend, PumpStops, PumpBreaks, Send, ClientLeaves,
         BackendLeaves, vars
<1> QED BY <1>3, <1>4, <1>5, <1>6

-----------------------------------------------------------------------------
(* The frames: what one pump does leaves the other pumps alone.            *)

LEMMA AppendInStep ==
    ASSUME TypeFrames, PumpsInStep, NEW s \in Sessions, NEW d \in Directions,
           pump[s][d] = "send"
    PROVE  /\ Append(got[s][d], taken[s][d]) \in Seq(1..MaxFrames)
           /\ Len(Append(got[s][d], taken[s][d])) = taken[s][d]
           /\ \A i \in 1..taken[s][d] : Append(got[s][d], taken[s][d])[i] = i
<1>1. /\ got[s][d] \in Seq(1..MaxFrames)
      /\ taken[s][d] \in 0..MaxFrames
      /\ MaxFrames \in Nat
  BY FramesAssumption DEF TypeFrames
<1>2. taken[s][d] = Len(got[s][d]) + 1 /\ \A i \in 1..Len(got[s][d]) : got[s][d][i] = i
  BY DEF PumpsInStep, InStep
<1>3. taken[s][d] \in 1..MaxFrames
  BY <1>1, <1>2
<1> QED BY <1>1, <1>2, <1>3

\* Two ways for a pump to stay in step: nothing of it changed, or it ended.
LEMMA StillInStep ==
    ASSUME NEW t \in Sessions, NEW e \in Directions, InStep(t, e),
           sent'[t][e] = sent[t][e], taken'[t][e] = taken[t][e],
           pump'[t][e] = pump[t][e], got'[t][e] = got[t][e],
           pc'[t] \in NotForwarding => pc[t] \in NotForwarding
    PROVE  InStep(t, e)'
BY DEF InStep

LEMMA EndedInStep ==
    ASSUME NEW t \in Sessions, NEW e \in Directions,
           taken'[t][e] <= sent'[t][e], pump'[t][e] = "done",
           \A i \in 1..Len(got'[t][e]) : got'[t][e][i] = i,
           pc'[t] \notin NotForwarding
    PROVE  InStep(t, e)'
BY DEF InStep

LEMMA HandleKeepsFrames ==
    ASSUME Control, TypeFrames, PumpsInStep, NEW s \in Sessions, Handle(s)
    PROVE  TypeFrames' /\ PumpsInStep'
<1>0. TypeControl
  BY DEF Control
<1>1. CASE /\ UNCHANGED frames
           /\ \A t \in Sessions : pc'[t] \in NotForwarding => pc[t] \in NotForwarding
  BY <1>1 DEF frames, TypeFrames, PumpsInStep, InStep
<1>2. CASE Connect(s)
  <2>1. TypeFrames' /\ UNCHANGED <<sent, taken, got>>
    BY <1>2 DEF Connect, TypeFrames
  <2>2. \A d \in Directions : pump[s][d] = "off" /\ taken[s][d] = 0 /\ got[s][d] = <<>>
    BY <1>2 DEF Connect, PumpsInStep, InStep, NotForwarding
  <2>3. ASSUME NEW d \in Directions PROVE InStep(s, d)'
    <3>1. pump'[s][d] = "recv" /\ pc'[s] = "open"
      BY <1>0, <1>2, GotoFacts DEF Connect, TypeFrames, Counted
    <3>2. taken'[s][d] = 0 /\ got'[s][d] = <<>> /\ 0 <= sent'[s][d]
      BY <2>1, <2>2 DEF TypeFrames
    <3> QED BY <3>1, <3>2 DEF InStep, NotForwarding
  <2>4. \A t \in Sessions \ {s}, d \in Directions : InStep(t, d)'
    <3>1. \A t \in Sessions \ {s} : pc'[t] = pc[t] /\ pump'[t] = pump[t]
      BY <1>0, <1>2, GotoFacts DEF Connect, Counted, TypeFrames
    <3> QED BY <2>1, <3>1, StillInStep DEF PumpsInStep
  <2> QED BY <2>1, <2>3, <2>4 DEF PumpsInStep
<1>3. CASE Supervise(s)
  <2>1. /\ pump' = [pump EXCEPT ![s] = [d \in Directions |-> "done"]]
        /\ UNCHANGED <<sent, taken>>
        /\ \A t \in Sessions \ {s} : pc'[t] = pc[t]
        /\ pc'[s] = "release"
    BY <1>0, <1>3, GotoFacts DEF Supervise, Counted
  <2>2. ASSUME UNCHANGED got PROVE TypeFrames' /\ PumpsInStep'
    BY <2>1, <2>2 DEF TypeFrames, PumpsInStep, InStep, NotForwarding
  <2>3. ASSUME NEW d \in Directions, pump[s][d] = "send",
               got' = [got EXCEPT ![s][d] = Append(@, taken[s][d])]
        PROVE  TypeFrames' /\ PumpsInStep'
    <3>1. TypeFrames'
      BY <2>1, <2>3, AppendInStep DEF TypeFrames
    <3>2. ASSUME NEW e \in Directions PROVE InStep(s, e)'
      <4>1. /\ taken'[s][e] <= sent'[s][e] /\ pump'[s][e] = "done"
            /\ pc'[s] \notin NotForwarding
        BY <2>1 DEF TypeFrames, PumpsInStep, InStep, NotForwarding
      <4>2. CASE e = d
        BY <4>1, <4>2, <2>3, AppendInStep, EndedInStep DEF TypeFrames
      <4>3. CASE e # d
        <5>1. got'[s][e] = got[s][e]
          BY <4>3, <2>3 DEF TypeFrames
        <5> QED BY <4>1, <5>1, EndedInStep DEF PumpsInStep, InStep
      <4> QED BY <4>2, <4>3
    <3>3. ASSUME NEW t \in Sessions \ {s}, NEW e \in Directions PROVE InStep(t, e)'
      <4>1. got'[t] = got[t] /\ pump'[t] = pump[t]
        BY <2>1, <2>3 DEF TypeFrames
      <4> QED BY <2>1, <4>1, StillInStep DEF PumpsInStep
    <3> QED BY <3>1, <3>2, <3>3 DEF PumpsInStep
  <2> QED BY <1>3, <2>2, <2>3 DEF Supervise
<1>4. Handle(s) => \/ Connect(s) \/ Supervise(s)
                   \/ /\ UNCHANGED frames
                      /\ \A t \in Sessions : pc'[t] \in NotForwarding => pc[t] \in NotForwarding
  BY <1>0, GotoFacts
  DEF Handle, Arrive, VerifyAnswer, AcceptClient, Locate, Enter, Resolve, ConnectFailed, Release,
      NotForwarding, Uncounted, Counted
<1> QED BY <1>1, <1>2, <1>3, <1>4

LEMMA PumpsKeepFrames ==
    ASSUME Control, TypeFrames, PumpsInStep, NEW s \in Sessions, NEW d \in Directions,
           Forward(s, d) \/ Send(s, d)
    PROVE  TypeFrames' /\ PumpsInStep'
<1>0. /\ MaxFrames \in Nat
      /\ sent[s][d] \in 0..MaxFrames /\ taken[s][d] \in 0..MaxFrames
      /\ taken[s][d] <= sent[s][d]
      /\ got[s][d] \in Seq(1..MaxFrames)
      /\ UNCHANGED pc /\ pc[s] = "open"
  BY FramesAssumption
  DEF TypeFrames, PumpsInStep, InStep, Forward, PumpRecv, PumpSend, PumpStops, PumpBreaks, Send
<1>1. CASE PumpRecv(s, d)
  <2>1. /\ taken' = [taken EXCEPT ![s][d] = @ + 1]
        /\ pump' = [pump EXCEPT ![s][d] = "send"]
        /\ UNCHANGED <<pc, sent, got>>
        /\ taken[s][d] < sent[s][d] /\ pump[s][d] = "recv"
    BY <1>1 DEF PumpRecv
  <2>2. TypeFrames'
    BY <1>0, <2>1 DEF TypeFrames
  <2>3. InStep(s, d)'
    BY <1>0, <2>1 DEF TypeFrames, PumpsInStep, InStep, NotForwarding
  <2>4. ASSUME NEW t \in Sessions, NEW e \in Directions, <<t, e>> # <<s, d>>
        PROVE  InStep(t, e)'
    <3>1. taken'[t][e] = taken[t][e] /\ pump'[t][e] = pump[t][e]
      BY <2>1, <2>4 DEF TypeFrames
    <3> QED BY <2>1, <3>1, StillInStep DEF PumpsInStep
  <2> QED BY <2>2, <2>3, <2>4 DEF PumpsInStep
<1>2. CASE PumpSend(s, d)
  <2>1. CASE /\ got' = [got EXCEPT ![s][d] = Append(@, taken[s][d])]
             /\ pump' = [pump EXCEPT ![s][d] = "recv"]
    <3>1. UNCHANGED <<sent, taken>> /\ pump[s][d] = "send"
      BY <1>2 DEF PumpSend
    <3>2. TypeFrames'
      BY <2>1, <3>1, AppendInStep DEF TypeFrames
    <3>3. InStep(s, d)'
      BY <1>0, <2>1, <3>1, AppendInStep DEF TypeFrames, PumpsInStep, InStep, NotForwarding
    <3>4. ASSUME NEW t \in Sessions, NEW e \in Directions, <<t, e>> # <<s, d>>
          PROVE  InStep(t, e)'
      <4>1. got'[t][e] = got[t][e] /\ pump'[t][e] = pump[t][e]
        BY <2>1, <3>4 DEF TypeFrames
      <4> QED BY <1>0, <3>1, <4>1, StillInStep DEF PumpsInStep
    <3> QED BY <3>2, <3>3, <3>4 DEF PumpsInStep
  <2>2. CASE PumpEnds(s, d) /\ UNCHANGED got
    BY <1>0, <1>2, <2>2 DEF PumpSend, PumpEnds, TypeFrames, PumpsInStep, InStep, NotForwarding
  <2> QED BY <1>2, <2>1, <2>2 DEF PumpSend
<1>3. CASE PumpStops(s, d)
  BY <1>0, <1>3 DEF PumpStops, PumpEnds, TypeFrames, PumpsInStep, InStep, NotForwarding
<1>4. CASE PumpBreaks(s, d)
  <2>1. /\ taken' = [taken EXCEPT ![s][d] = @ + 1]
        /\ pump' = [pump EXCEPT ![s][d] = "done"]
        /\ UNCHANGED <<pc, sent, got>>
        /\ taken[s][d] < sent[s][d]
    BY <1>4 DEF PumpBreaks, PumpEnds
  <2>2. TypeFrames'
    BY <1>0, <2>1 DEF TypeFrames
  <2>3. InStep(s, d)'
    BY <1>0, <2>1 DEF TypeFrames, PumpsInStep, InStep, NotForwarding
  <2>4. ASSUME NEW t \in Sessions, NEW e \in Directions, <<t, e>> # <<s, d>>
        PROVE  InStep(t, e)'
    <3>1. taken'[t][e] = taken[t][e] /\ pump'[t][e] = pump[t][e]
      BY <2>1, <2>4 DEF TypeFrames
    <3> QED BY <2>1, <3>1, StillInStep DEF PumpsInStep
  <2> QED BY <2>2, <2>3, <2>4 DEF PumpsInStep
<1>5. CASE Send(s, d)
  <2>1. sent[s][d] + 1 \in 0..MaxFrames
    BY <1>0, <1>5 DEF Send, Up, Down, Directions, TypeFrames
  <2>2. sent' = [sent EXCEPT ![s][d] = @ + 1] /\ UNCHANGED <<pc, taken, pump, got>>
    BY <1>5 DEF Send
  <2>3. TypeFrames'
    BY <2>1, <2>2 DEF TypeFrames
  <2>4. InStep(s, d)'
    BY <1>0, <2>2 DEF TypeFrames, PumpsInStep, InStep, NotForwarding
  <2>5. ASSUME NEW t \in Sessions, NEW e \in Directions, <<t, e>> # <<s, d>>
        PROVE  InStep(t, e)'
    <3>1. sent'[t][e] = sent[t][e]
      BY <2>2, <2>5 DEF TypeFrames
    <3> QED BY <2>2, <3>1, StillInStep DEF PumpsInStep
  <2> QED BY <2>3, <2>4, <2>5 DEF PumpsInStep
<1> QED BY <1>1, <1>2, <1>3, <1>4, <1>5 DEF Forward

LEMMA NextKeepsFrames ==
    ASSUME Control, TypeFrames, PumpsInStep, [Next]_vars
    PROVE  TypeFrames' /\ PumpsInStep'
<1>1. CASE UNCHANGED <<frames, pc>>
  BY <1>1 DEF frames, TypeFrames, PumpsInStep, InStep
<1>2. [Next]_vars => \/ UNCHANGED <<frames, pc>>
                     \/ \E s \in Sessions : Handle(s)
                     \/ \E s \in Sessions, d \in Directions : Forward(s, d) \/ Send(s, d)
  BY DEF Next, ClientLeaves, BackendLeaves, vars, frames
<1> QED BY <1>1, <1>2, HandleKeepsFrames, PumpsKeepFrames

-----------------------------------------------------------------------------
LEMMA SpecWs == Spec => []WsInv
<1>1. WsInv /\ [Next]_vars => WsInv'
  BY NextKeepsControl, NextKeepsLimit, NextKeepsFrames DEF WsInv
<1> QED BY InitWs, <1>1, PTL DEF Spec

\* Every variable of the proxy keeps its type.
THEOREM WsTypes == Spec => []TypeOK
<1>1. WsInv => TypeOK
  BY DEF WsInv, Control, TypeControl, TypeFrames, TypeOK
<1> QED BY SpecWs, <1>1, PTL

\* forward_websocket never lets more sessions in than max_websocket_connections.
THEOREM WsLimit == Spec => []ConnectionsBounded
<1>1. WsInv => ConnectionsBounded
  BY DEF WsInv
<1> QED BY SpecWs, <1>1, PTL

\* A socket to the service exists only for a session that counts.
THEOREM WsBackendIsCounted == Spec => []BackendIsCounted
<1>1. WsInv => BackendIsCounted
  BY DEF WsInv, Control, BackendIsCounted, OpenIsServed, TableIsCounted, Counted
<1> QED BY SpecWs, <1>1, PTL

\* No exit of the handler leaves its client on an open socket.
THEOREM WsClientIsAnswered == Spec => []ClientIsAnswered
<1>1. WsInv => ClientIsAnswered
  BY DEF WsInv, Control, ClientIsAnswered, Answered
<1> QED BY SpecWs, <1>1, PTL

\* Both pumps of every session deliver in order and without a gap.
THEOREM WsFramesInOrder == Spec => []FramesInOrder
<1>1. WsInv => FramesInOrder
  BY DEF WsInv, FramesInOrder, PumpsInStep, InStep
<1> QED BY SpecWs, <1>1, PTL
=============================================================================
