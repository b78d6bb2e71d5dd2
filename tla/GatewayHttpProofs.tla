------------------------- MODULE GatewayHttpProofs ------------------------
(***************************************************************************)
(* The HTTP path of the gateway: whom it lets in, and where it sends them. *)
(*                                                                         *)
(* For GatewayHttp, the invariant behind the three action properties: a    *)
(* key that takes a token back is set for long enough, whatever passes     *)
(* between computing its lifetime and setting it.                          *)
(*                                                                         *)
(* For ServiceDirectory, three invariants: the age of the gateway's list   *)
(* bounds what its instances have been silent for, a request is either on  *)
(* its way or was handled, never both, and the index points behind those   *)
(* who had a turn.                                                         *)
(***************************************************************************)
EXTENDS GatewayHttp, ServiceDirectory, FiniteSetTheorems, TLAPS

\* What is left of a refresh token is covered by the key about to be set.
PendingCovers ==
  \A k \in Calls :
    call[k].step = "refresh" => now + 2 * call[k].ttl >= 2 * (Expiry - 1)

SpentCovers == used => spent >= 2 * (Expiry - 1)
OutCovers   == ended => out >= 2 * Expiry \/ now >= 2 * Expiry

\* The mark outlives every access token made before its second.
MarkCovers ==
  \A r \in Rows : \A d \in deleted[r] : 2 * d <= now /\ marker[r] >= 2 * (d + MarkerTtl)

HttpInv == GatewayTypeOK /\ PendingCovers /\ SpentCovers /\ OutCovers /\ MarkCovers

LEMMA Halves ==
    ASSUME NEW n \in Nat
    PROVE  /\ n \div 2 \in Nat
           /\ 2 * (n \div 2) <= n
           /\ n <= 2 * (n \div 2) + 1
OBVIOUS

LEMMA TokenFacts ==
    ASSUME AuthTypeOK
    PROVE  /\ tok.iat \in Nat /\ Expiry \in Nat /\ Expiry >= tok.iat + 1
           /\ now \in Nat /\ Second \in Nat
           /\ 2 * Second <= now /\ now <= 2 * Second + 1
<1>1. /\ MaxNow \in Nat /\ MaxNow \div 2 \in Nat /\ now \in Nat
      /\ tok \in [type : {"access", "refresh"}, owner : Owner, iat : 0..(MaxNow \div 2)]
  BY BoundAssumption, Halves DEF AuthTypeOK, Token
<1>2. tok.iat \in Nat
  BY <1>1
<1>3. Expiry \in Nat /\ Expiry >= tok.iat + 1
  BY <1>2, TtlAssumption DEF Expiry
<1> QED BY <1>1, <1>2, <1>3, Halves DEF Second

LEMMA SpentTtlFacts ==
    ASSUME AuthTypeOK
    PROVE  /\ SpentTtl \in Nat \ {0}
           /\ now + 2 * SpentTtl >= 2 * (Expiry - 1)
<1>1. CASE 2 * Expiry < now + 2
  BY <1>1, TokenFacts DEF SpentTtl
<1>2. CASE ~(2 * Expiry < now + 2)
  <2> DEFINE left == 2 * Expiry - now
  <2>1. left \in Nat /\ left >= 2
    BY <1>2, TokenFacts
  <2>2. left \div 2 \in Nat /\ left <= 2 * (left \div 2) + 1
    BY <2>1, Halves
  <2> HIDE DEF left
  <2>3. left \div 2 >= 1
    BY <2>1, <2>2
  <2>4. SpentTtl = left \div 2
    BY <1>2 DEF SpentTtl, left
  <2>5. now + left = 2 * Expiry
    BY TokenFacts DEF left
  <2> QED BY <2>1, <2>2, <2>3, <2>4, <2>5, TokenFacts
<1> QED BY <1>1, <1>2

LEMMA InitHttp == GatewayInit => HttpInv
<1> SUFFICES ASSUME GatewayInit PROVE HttpInv
  OBVIOUS
<1>1. AuthTypeOK
  <2>1. born \in Seq(Nat) /\ Len(born) <= MaxRow /\ rows \subseteq 1..Len(born)
    BY BoundAssumption DEF GatewayInit, AuthInit
  <2>2. call \in [Calls -> Step]
    BY DEF GatewayInit, AuthInit, Idle, Step
  <2>3. now \in 0..MaxNow /\ out \in Nat /\ spent \in Nat
    BY BoundAssumption DEF GatewayInit, AuthInit
  <2>4. marker \in [Rows -> Nat] /\ deleted \in [Rows -> SUBSET Nat]
    BY DEF GatewayInit, AuthInit
  <2> QED BY <2>1, <2>2, <2>3, <2>4 DEF GatewayInit, AuthInit, AuthTypeOK
<1>2. req \in [HttpRequests -> {"free", "introspect", "marker", "locate", "send"}]
  BY DEF GatewayInit
<1>3. PendingCovers /\ SpentCovers /\ OutCovers /\ MarkCovers
  BY DEF GatewayInit, AuthInit, Idle, PendingCovers, SpentCovers, OutCovers, MarkCovers
<1> QED BY <1>1, <1>2, <1>3 DEF HttpInv, GatewayTypeOK

\* Most steps leave token, clock, keys and histories alone, and start no refresh.
LEMMA QuietStep ==
    ASSUME HttpInv, UNCHANGED <<now, tok, keys, history>>,
           \A k \in Calls : call'[k].step = "refresh" => call'[k] = call[k]
    PROVE  (PendingCovers /\ SpentCovers /\ OutCovers /\ MarkCovers)'
BY DEF HttpInv, PendingCovers, SpentCovers, OutCovers, MarkCovers, keys, history, Expiry

\* One coroutine moves on.
LEMMA CallStep ==
    ASSUME AuthTypeOK, NEW k \in Calls, NEW v \in Step, call' = [call EXCEPT ![k] = v]
    PROVE  /\ call' \in [Calls -> Step]
           /\ call'[k] = v
           /\ \A j \in Calls \ {k} : call'[j] = call[j]
BY DEF AuthTypeOK

LEMMA Steps ==
    /\ Idle \in Step /\ [step |-> "login"] \in Step
    /\ Idle.step # "refresh"
    /\ \A r \in Rows : [step |-> "mark", row |-> r] \in Step
    /\ \A n \in Nat \ {0} : [step |-> "refresh", ttl |-> n] \in Step
BY DEF Idle, Step

LEMMA StepFields ==
    ASSUME AuthTypeOK, NEW k \in Calls
    PROVE  /\ call[k].step = "mark" => call[k].row \in Rows
           /\ call[k].step = "refresh" => call[k].ttl \in Nat \ {0}
<1>1. call[k] \in Step
  BY DEF AuthTypeOK
<1> QED BY <1>1 DEF Step

LEMMA LoginKeeps ==
    ASSUME HttpInv, NEW k \in Calls, DeviceLoginReads(k) \/ DeviceLoginCommits(k), UNCHANGED req
    PROVE  HttpInv'
<1>0. AuthTypeOK
  BY DEF HttpInv, GatewayTypeOK
<1>1. UNCHANGED <<now, redis, tok, keys, history>>
  BY DEF DeviceLoginReads, DeviceLoginCommits
<1>2. PICK v \in Step : v.step # "refresh" /\ call' = [call EXCEPT ![k] = v]
  BY Steps DEF DeviceLoginReads, DeviceLoginCommits
<1>3. born' \in Seq(Nat) /\ Len(born') <= MaxRow /\ rows' \subseteq 1..Len(born')
  <2>1. CASE DeviceLoginReads(k)
    BY <2>1, <1>0 DEF DeviceLoginReads, AuthTypeOK, table
  <2>2. CASE DeviceLoginCommits(k)
    <3>1. born \in Seq(Nat) /\ Second \in Nat /\ Len(born) \in Nat /\ MaxRow \in Nat
      BY <1>0, TokenFacts, BoundAssumption DEF AuthTypeOK
    <3>2. Len(born') = Len(born) + 1 /\ born' \in Seq(Nat)
      BY <2>2, <3>1 DEF DeviceLoginCommits
    <3>3. rows' = rows \cup {Len(born')} /\ Len(born) < MaxRow
      BY <2>2 DEF DeviceLoginCommits
    <3>4. rows \subseteq 1..Len(born)
      BY <1>0 DEF AuthTypeOK
    <3>5. \A i \in rows' : i \in 1..Len(born')
      <4>1. \A i \in rows : i \in Int /\ 1 <= i /\ i <= Len(born)
        BY <3>1, <3>4
      <4>2. Len(born') \in Int /\ Len(born') = Len(born) + 1 /\ Len(born') >= 1
        BY <3>1, <3>2
      <4>3. \A i \in rows' : i \in rows \/ i = Len(born')
        BY <3>3
      <4> QED BY <3>1, <4>1, <4>2, <4>3
    <3>6. Len(born') <= MaxRow
      BY <3>1, <3>2, <3>3
    <3> QED BY <3>2, <3>5, <3>6
  <2> QED BY <2>1, <2>2
<1>4. (PendingCovers /\ SpentCovers /\ OutCovers /\ MarkCovers)'
  BY <1>0, <1>1, <1>2, CallStep, QuietStep
<1>5. GatewayTypeOK'
  BY <1>0, <1>1, <1>2, <1>3, CallStep DEF HttpInv, GatewayTypeOK, AuthTypeOK, keys, history
<1> QED BY <1>4, <1>5 DEF HttpInv

LEMMA RefreshKeeps ==
    ASSUME HttpInv, NEW k \in Calls, Refresh(k), UNCHANGED req
    PROVE  HttpInv'
<1>0. AuthTypeOK
  BY DEF HttpInv, GatewayTypeOK
<1> DEFINE v == [step |-> "refresh", ttl |-> SpentTtl]
<1>1. v \in Step /\ call' = [call EXCEPT ![k] = v]
  BY <1>0, SpentTtlFacts, Steps DEF Refresh
<1>2. UNCHANGED <<now, redis, tok, keys, table, history>>
  BY DEF Refresh
<1>3. PendingCovers'
  <2>1. call'[k].ttl = SpentTtl /\ \A j \in Calls \ {k} : call'[j] = call[j]
    BY <1>0, <1>1, CallStep
  <2>2. now + 2 * call'[k].ttl >= 2 * (Expiry - 1)
    BY <1>0, <2>1, SpentTtlFacts
  <2> QED BY <1>2, <2>1, <2>2 DEF HttpInv, PendingCovers, Expiry
<1>4. (SpentCovers /\ OutCovers /\ MarkCovers)'
  BY <1>2 DEF HttpInv, SpentCovers, OutCovers, MarkCovers, Expiry, keys, history
<1>5. GatewayTypeOK'
  BY <1>0, <1>1, <1>2, CallStep DEF HttpInv, GatewayTypeOK, AuthTypeOK, keys, table, history
<1> QED BY <1>3, <1>4, <1>5 DEF HttpInv

LEMMA RefreshedKeeps ==
    ASSUME HttpInv, NEW k \in Calls, Refreshed(k), UNCHANGED req
    PROVE  HttpInv'
<1>0. AuthTypeOK /\ call' = [call EXCEPT ![k] = Idle]
  BY DEF HttpInv, GatewayTypeOK, Refreshed
<1>1. UNCHANGED <<now, redis, tok, out, marker, table, ended, deleted>>
  BY DEF Refreshed
<1>2. call[k].ttl \in Nat \ {0} /\ now \in Nat /\ Expiry \in Nat
  BY <1>0, StepFields, TokenFacts DEF Refreshed
<1>3. now + 2 * call[k].ttl >= 2 * (Expiry - 1)
  BY DEF HttpInv, PendingCovers, Refreshed
<1>4. SpentCovers' /\ spent' \in Nat /\ used' \in BOOLEAN
  <2>0. Expiry' = Expiry /\ spent \in Nat /\ used \in BOOLEAN /\ SpentCovers
    BY <1>0, <1>1 DEF Expiry, HttpInv, AuthTypeOK
  <2>1. CASE spent' = now + 2 * call[k].ttl /\ used' = TRUE
    BY <2>0, <2>1, <1>2, <1>3 DEF SpentCovers
  <2>2. CASE UNCHANGED <<spent, used>>
    BY <2>0, <2>2 DEF SpentCovers
  <2> QED BY <2>1, <2>2 DEF Refreshed, For
<1>5. (PendingCovers /\ OutCovers /\ MarkCovers)'
  BY <1>0, <1>1, CallStep, Steps DEF HttpInv, PendingCovers, OutCovers, MarkCovers, Expiry
<1>6. GatewayTypeOK'
  BY <1>0, <1>1, <1>4, CallStep, Steps DEF HttpInv, GatewayTypeOK, AuthTypeOK, table
<1> QED BY <1>4, <1>5, <1>6 DEF HttpInv

LEMMA LogoutKeeps ==
    ASSUME HttpInv, Logout, UNCHANGED req
    PROVE  HttpInv'
<1>0. AuthTypeOK
  BY DEF HttpInv, GatewayTypeOK
<1>1. UNCHANGED <<now, redis, tok, spent, marker, table, call, used, deleted>> /\ ended' = TRUE
  BY DEF Logout
<1>2. now \in Nat /\ Expiry \in Nat /\ Second \in Nat /\ 2 * Second <= now /\ out \in Nat
  BY <1>0, TokenFacts DEF AuthTypeOK
<1>3. OutCovers' /\ out' \in Nat
  <2>1. CASE Second < Expiry
    <3>1. out' = now + 2 * (Expiry - Second)
      BY <2>1, <1>2 DEF Logout, LogoutTtl, For
    <3> QED BY <2>1, <3>1, <1>1, <1>2 DEF OutCovers, Expiry
  <2>2. CASE ~(Second < Expiry)
    <3>1. out' = out /\ now >= 2 * Expiry
      BY <2>2, <1>2 DEF Logout, LogoutTtl
    <3> QED BY <3>1, <1>1, <1>2 DEF OutCovers, Expiry
  <2> QED BY <2>1, <2>2
<1>4. (PendingCovers /\ SpentCovers /\ MarkCovers)'
  BY <1>1 DEF HttpInv, PendingCovers, SpentCovers, MarkCovers, Expiry
<1>5. GatewayTypeOK'
  BY <1>0, <1>1, <1>3 DEF HttpInv, GatewayTypeOK, AuthTypeOK, table
<1> QED BY <1>3, <1>4, <1>5 DEF HttpInv

LEMMA DeleteKeeps ==
    ASSUME HttpInv, NEW k \in Calls, NEW r \in Rows, DeleteHost(k, r), UNCHANGED req
    PROVE  HttpInv'
<1>0. AuthTypeOK
  BY DEF HttpInv, GatewayTypeOK
<1> DEFINE v == [step |-> "mark", row |-> r]
<1>1. v \in Step /\ v.step # "refresh" /\ call' = [call EXCEPT ![k] = v]
  BY Steps DEF DeleteHost
<1>2. UNCHANGED <<now, redis, tok, keys, born, history>> /\ rows' \subseteq rows
  BY DEF DeleteHost
<1>3. (PendingCovers /\ SpentCovers /\ OutCovers /\ MarkCovers)'
  BY <1>0, <1>1, <1>2, CallStep, QuietStep
<1>4. GatewayTypeOK'
  BY <1>0, <1>1, <1>2, CallStep DEF HttpInv, GatewayTypeOK, AuthTypeOK, keys, history
<1> QED BY <1>3, <1>4 DEF HttpInv

LEMMA MarkKeeps ==
    ASSUME HttpInv, NEW k \in Calls, MarkDeleted(k), UNCHANGED req
    PROVE  HttpInv'
<1>0. AuthTypeOK /\ call' = [call EXCEPT ![k] = Idle]
  BY DEF HttpInv, GatewayTypeOK, MarkDeleted
<1>1. UNCHANGED <<now, redis, tok, out, spent, table, ended, used>>
  BY DEF MarkDeleted
<1>2. call[k].row \in Rows
  BY <1>0, StepFields DEF MarkDeleted
<1>3. PICK r \in Rows : r = call[k].row
  BY <1>2
<1>4. /\ now \in Nat /\ Second \in Nat /\ 2 * Second <= now
      /\ MarkerTtl \in Nat
      /\ marker \in [Rows -> Nat] /\ deleted \in [Rows -> SUBSET Nat]
  BY <1>0, TokenFacts, MarkerAssumption DEF AuthTypeOK
<1>5. MarkCovers' /\ marker' \in [Rows -> Nat] /\ deleted' \in [Rows -> SUBSET Nat]
  <2>1. CASE UNCHANGED <<marker, deleted>>
    BY <2>1, <1>1, <1>4 DEF HttpInv, MarkCovers
  <2>2. CASE /\ marker' = [marker EXCEPT ![r] = now + 2 * MarkerTtl]
             /\ deleted' = [deleted EXCEPT ![r] = deleted[r] \cup {Second}]
    <3>1. marker' \in [Rows -> Nat] /\ deleted' \in [Rows -> SUBSET Nat]
      BY <2>2, <1>4
    <3>2. \A q \in Rows \ {r} : marker'[q] = marker[q] /\ deleted'[q] = deleted[q]
      BY <2>2, <1>4
    <3>3. marker'[r] = now + 2 * MarkerTtl /\ deleted'[r] = deleted[r] \cup {Second}
      BY <2>2, <1>4
    <3>4. \A d \in deleted'[r] : d \in Nat /\ 2 * d <= now
      BY <3>3, <1>4 DEF HttpInv, MarkCovers
    <3>5. \A d \in deleted'[r] : 2 * d <= now /\ marker'[r] >= 2 * (d + MarkerTtl)
      BY <3>3, <3>4, <1>4
    <3> QED BY <3>1, <3>2, <3>5, <1>1 DEF HttpInv, MarkCovers
  <2> QED BY <2>1, <2>2, <1>3 DEF MarkDeleted, For
<1>6. (PendingCovers /\ SpentCovers /\ OutCovers)'
  BY <1>0, <1>1, CallStep, Steps DEF HttpInv, PendingCovers, SpentCovers, OutCovers, Expiry
<1>7. GatewayTypeOK'
  BY <1>0, <1>1, <1>5, CallStep, Steps DEF HttpInv, GatewayTypeOK, AuthTypeOK, table
<1> QED BY <1>5, <1>6, <1>7 DEF HttpInv

LEMMA AuthTimeKeeps ==
    ASSUME HttpInv, AuthTick, UNCHANGED req
    PROVE  HttpInv'
<1>0. AuthTypeOK /\ UNCHANGED <<redis, tok, keys, table, call, history>> /\ now' = now + 1
  BY DEF HttpInv, GatewayTypeOK, AuthTick
<1>1. now \in Nat /\ now' \in 0..MaxNow /\ Expiry \in Nat
  BY <1>0, TokenFacts, BoundAssumption DEF AuthTick, AuthTypeOK
<1>2. PendingCovers'
  <2>1. \A k \in Calls : call[k].step = "refresh" => call[k].ttl \in Nat \ {0}
    BY <1>0, StepFields
  <2> QED BY <1>0, <1>1, <2>1 DEF HttpInv, PendingCovers, Expiry
<1>3. MarkCovers'
  <2>1. deleted \in [Rows -> SUBSET Nat] /\ marker \in [Rows -> Nat]
    BY <1>0 DEF AuthTypeOK
  <2> QED BY <1>0, <1>1, <2>1 DEF HttpInv, MarkCovers, keys, history
<1>4. (SpentCovers /\ OutCovers)'
  BY <1>0, <1>1 DEF HttpInv, SpentCovers, OutCovers, Expiry, keys, history, AuthTypeOK
<1>5. GatewayTypeOK'
  BY <1>0, <1>1 DEF HttpInv, GatewayTypeOK, AuthTypeOK, keys, table, history
<1> QED BY <1>2, <1>3, <1>4, <1>5 DEF HttpInv

\* Steps that change nothing an invariant speaks of.
LEMMA RestKeeps ==
    ASSUME HttpInv,
           \/ RedisChanges /\ UNCHANGED req
           \/ \E r \in HttpRequests :
                Arrive(r) \/ Introspected(r) \/ NotIntrospected(r) \/ MarkerChecked(r) \/ Located(r) \/ Replied(r)
           \/ UNCHANGED gatewayVars
    PROVE  HttpInv'
<1>0. AuthTypeOK
  BY DEF HttpInv, GatewayTypeOK
<1>1. UNCHANGED <<now, tok, keys, table, call, history>> /\ redis' \in BOOLEAN
  BY <1>0 DEF RedisChanges, Arrive, Introspected, NotIntrospected, MarkerChecked, Located, Replied, Moves, gatewayVars,
              authVars, AuthTypeOK
<1>2. req' \in [HttpRequests -> {"free", "introspect", "marker", "locate", "send"}]
  BY DEF HttpInv, GatewayTypeOK, RedisChanges, Arrive, Introspected, NotIntrospected, MarkerChecked, Located, Replied,
         Moves, gatewayVars
<1>3. (PendingCovers /\ SpentCovers /\ OutCovers /\ MarkCovers)'
  BY <1>1, QuietStep
<1>4. GatewayTypeOK'
  BY <1>0, <1>1, <1>2 DEF GatewayTypeOK, AuthTypeOK, keys, table, history
<1> QED BY <1>3, <1>4 DEF HttpInv

LEMMA StepKeeps == HttpInv /\ [GatewayNext]_gatewayVars => HttpInv'
<1> SUFFICES ASSUME HttpInv, [GatewayNext]_gatewayVars PROVE HttpInv'
  OBVIOUS
<1>1. CASE AuthNext /\ UNCHANGED req
  BY <1>1, LoginKeeps, RefreshKeeps, RefreshedKeeps, LogoutKeeps, DeleteKeeps, MarkKeeps,
     AuthTimeKeeps, RestKeeps DEF AuthNext
<1>2. CASE HttpNext \/ UNCHANGED gatewayVars
  BY <1>2, RestKeeps DEF HttpNext
<1> QED BY <1>1, <1>2 DEF GatewayNext

LEMMA Invariant == GatewaySpec => []HttpInv
BY InitHttp, StepKeeps, PTL DEF GatewaySpec

-----------------------------------------------------------------------------
\* The state of tokens, keys, rows and requests keeps its type.
THEOREM TokenTypes == GatewaySpec => []GatewayTypeOK
<1>1. HttpInv => GatewayTypeOK
  BY DEF HttpInv
<1> QED BY Invariant, <1>1, PTL

\* A used refresh token is refused until the last second of its life.
THEOREM UsedIsRefused == GatewaySpec => ReuseIsRefused
<1>1. ASSUME HttpInv, [GatewayNext]_gatewayVars, NEW k \in Calls, call[k] = Idle, call'[k].step = "refresh"
      PROVE  ~redis \/ ~used \/ now >= 2 * (Expiry - 1)
  <2>0. AuthTypeOK
    BY <1>1 DEF HttpInv, GatewayTypeOK
  <2>1. \E j \in Calls : Refresh(j)
    <3>1. ~UNCHANGED call
      BY <1>1, Steps
    <3>2. \A j \in Calls : DeviceLoginReads(j) => call'[k].step # "refresh"
      BY <1>1, <2>0, CallStep, Steps DEF DeviceLoginReads
    <3>3. \A j \in Calls : DeviceLoginCommits(j) \/ Refreshed(j) \/ MarkDeleted(j)
                            => call'[k].step # "refresh"
      BY <1>1, <2>0, CallStep, Steps DEF DeviceLoginCommits, Refreshed, MarkDeleted
    <3>4. \A j \in Calls, r \in Rows : DeleteHost(j, r) => call'[k].step # "refresh"
      BY <1>1, <2>0, CallStep, Steps DEF DeleteHost
    <3> QED BY <1>1, <3>1, <3>2, <3>3, <3>4
            DEF GatewayNext, AuthNext, HttpNext, Logout, AuthTick, RedisChanges, Arrive, Introspected, NotIntrospected,
                MarkerChecked, Located, Replied, Moves, gatewayVars, authVars
  <2>2. ~redis \/ ~(now < spent)
    BY <2>1 DEF Refresh, Usable, Found
  <2>3. used => spent >= 2 * (Expiry - 1)
    BY <1>1 DEF HttpInv, SpentCovers
  <2> QED BY <2>0, <2>2, <2>3, TokenFacts DEF AuthTypeOK
<1>2. HttpInv /\ [GatewayNext]_gatewayVars
        => [\A k \in Calls :
              (call[k] = Idle /\ call'[k].step = "refresh")
                => ~redis \/ ~used \/ now >= 2 * (Expiry - 1)]_authVars
  BY <1>1
<1> QED BY Invariant, <1>2, PTL DEF GatewaySpec, ReuseIsRefused

\* A logged out token is refused by every later introspection.
THEOREM LoggedOutIsRefused == GatewaySpec => LogoutIsFinal
<1>1. ASSUME HttpInv, [GatewayNext]_gatewayVars, NEW r \in HttpRequests, req[r] = "introspect", req'[r] = "marker"
      PROVE  ~redis \/ ~ended \/ now >= 2 * Expiry
  <2>0. AuthTypeOK /\ req \in [HttpRequests -> {"free", "introspect", "marker", "locate", "send"}]
    BY <1>1 DEF HttpInv, GatewayTypeOK
  <2>1. PICK q \in HttpRequests : Introspected(q) /\ Active
    BY <1>1, <2>0 DEF GatewayNext, HttpNext, Arrive, Introspected, NotIntrospected, MarkerChecked, Located, Replied,
                      Moves, gatewayVars
  <2>2. ~redis \/ ~(now < out)
    BY <2>1 DEF Active, Found
  <2> QED BY <1>1, <2>0, <2>2, TokenFacts DEF HttpInv, OutCovers, AuthTypeOK
<1>2. HttpInv /\ [GatewayNext]_gatewayVars
        => [\A r \in HttpRequests :
              (req[r] = "introspect" /\ req'[r] = "marker")
                => ~redis \/ ~ended \/ now >= 2 * Expiry]_gatewayVars
  BY <1>1
<1> QED BY Invariant, <1>2, PTL DEF GatewaySpec, LogoutIsFinal

\* The mark of a deleted host outlives its access tokens.
THEOREM DeletedIsRefused == GatewaySpec => DeletedHostStaysOut
<1>1. ASSUME HttpInv, [GatewayNext]_gatewayVars, NEW r \in HttpRequests, req[r] = "marker", req'[r] = "locate",
             redis, Valid, tok.type # "refresh", tok.owner # 0, NEW d \in deleted[tok.owner]
      PROVE  d <= tok.iat
  <2>0. AuthTypeOK /\ req \in [HttpRequests -> {"free", "introspect", "marker", "locate", "send"}]
    BY <1>1 DEF HttpInv, GatewayTypeOK
  <2>1. PICK q \in HttpRequests : MarkerChecked(q) /\ ~Found(marker[tok.owner])
    BY <1>1, <2>0 DEF GatewayNext, HttpNext, Arrive, Introspected, NotIntrospected, MarkerChecked, Located, Replied,
                      Moves, gatewayVars
  <2>2. tok \in [type : {"access", "refresh"}, owner : Owner, iat : 0..(MaxNow \div 2)]
    BY <2>0 DEF AuthTypeOK, Token
  <2>3. tok.owner \in Rows /\ tok.type = "access" /\ tok.iat \in Nat
    BY <1>1, <2>0, <2>2, TokenFacts DEF Owner
  <2>4. PICK o \in Rows : o = tok.owner
    BY <2>3
  <2>5. /\ marker[o] \in Nat /\ d \in Nat /\ now \in Nat
        /\ marker[o] >= 2 * (d + MarkerTtl)
        /\ ~(now < marker[o])
    BY <1>1, <2>0, <2>1, <2>4, TokenFacts DEF HttpInv, MarkCovers, Found, AuthTypeOK
  <2>6. Expiry = tok.iat + AccessTtl /\ now <= 2 * Second + 1 /\ Second <= Expiry
    BY <1>1, <2>0, <2>3, TokenFacts DEF Expiry, Valid
  <2> QED BY <2>0, <2>3, <2>5, <2>6, TokenFacts, TtlAssumption, MarkerAssumption
<1>2. HttpInv /\ [GatewayNext]_gatewayVars
        => [\A r \in HttpRequests :
              (req[r] = "marker" /\ req'[r] = "locate")
                => \/ ~redis \/ ~Valid
                   \/ tok.type = "refresh" \/ tok.owner = 0
                   \/ \A d \in deleted[tok.owner] : d <= tok.iat]_gatewayVars
  BY <1>1
<1> QED BY Invariant, <1>2, PTL DEF GatewaySpec, DeletedHostStaysOut

---------------------------------------------------------------------------
(* Where requests go: ServiceDirectory.                                    *)

\* Nobody on a list that still counts was silent longer than the list is old.
ListIsRecent ==
  cache.age <= CacheTtl => \A i \in cache.list : quiet[i] < BeatTimeout + cache.age

Counted(r) ==
  /\ handled[r] \in {0, 1}
  /\ wire[r] # 0 => handled[r] = 0
  /\ at[r] = "idle" => wire[r] = 0 /\ handled[r] = 0
  /\ (at[r] = "waiting" /\ wire[r] = 0) => handled[r] = 1
  /\ (at[r] = "told" /\ answer[r].status < 400) => handled[r] = 1
  /\ (at[r] = "told" /\ answer[r].code = "CONNECTION_ERROR") => handled[r] = 0 /\ wire[r] = 0

DirectoryInv == TypeOK /\ ListIsRecent /\ \A r \in Requests : Counted(r)

LEMMA Bounds ==
    /\ CacheTtl \in Nat /\ BeatTimeout \in Nat /\ BeatTimeout >= 1
    /\ Forgotten \in Nat /\ Forgotten = BeatTimeout + CacheTtl
    /\ 0 \notin Instances /\ Default \in Instances /\ Instances \subseteq Nat
BY AddressAssumption, TimeAssumption DEF Forgotten

\* What becomes of each kind of answer.
LEMMA ToldFacts ==
    /\ \A response \in Responses :
         /\ Told(response) \in [status : Nat, code : Codes]
         /\ Told(response).code # "CONNECTION_ERROR"
    /\ Told(TooLate) \in [status : Nat, code : Codes]
    /\ Told(TooLate).status = 504 /\ Told(TooLate).code # "CONNECTION_ERROR"
    /\ Told(Broken) \in [status : Nat, code : Codes]
    /\ Told(Broken).status = 502 /\ Told(Broken).code # "CONNECTION_ERROR"
    /\ Told(NotConnected) \in [status : Nat, code : Codes]
    /\ Told(NotConnected).status = 502
<1>1. ASSUME NEW response \in Responses
      PROVE  /\ Told(response) \in [status : Nat, code : Codes]
             /\ Told(response).code # "CONNECTION_ERROR"
  <2>1. /\ response.status \in {200, 401, 405, 422, 502}
        /\ response.body = "error" => response.code = "OWN"
    BY DEF Responses
  <2>2. Raised(response) \in Codes \ {"CONNECTION_ERROR"}
    BY <2>1 DEF Raised, Codes
  <2>3. Rendered(response) \in [status : Nat, code : Codes \ {"CONNECTION_ERROR"}]
    BY <2>1, <2>2 DEF Rendered, Codes
  <2>4. Told(response) \in [status : Nat, code : Codes \ {"CONNECTION_ERROR"}]
    BY <2>1, <2>3 DEF Told, Codes
  <2> QED BY <2>4
<1>2. ASSUME NEW status \in {502, 504}, NEW code \in Codes
      PROVE  Told(Failed(status, code)) = [status |-> status, code |-> code]
  <2> DEFINE response == Failed(status, code)
  <2>1. response.status = status /\ response.body = "error" /\ response.code = code
    BY DEF Failed
  <2>2. ~(response.status < 400) /\ ~Keyed(response)
    BY <2>1 DEF Keyed
  <2>3. Raised(response) = code
    BY <2>1 DEF Raised
  <2> QED BY <2>1, <2>2, <2>3 DEF Told, Rendered
<1>3. /\ Told(TooLate) = [status |-> 504, code |-> "TIMEOUT_ERROR"]
      /\ Told(Broken) = [status |-> 502, code |-> "NETWORK_ERROR"]
      /\ Told(NotConnected) = [status |-> 502, code |-> "CONNECTION_ERROR"]
  BY <1>2 DEF TooLate, Broken, NotConnected, Codes
<1> QED BY <1>1, <1>3 DEF Codes

\* Whom the gateway may choose, and what it remembers of asking.
LEMMA ChoiceFacts ==
    ASSUME TypeOK
    PROVE  /\ Candidates \subseteq Instances /\ Candidates # {}
           /\ Cardinality(Candidates) \in Nat
           /\ Advanced(Candidates) \in Nat
           /\ Remembered \in [list : SUBSET Instances, age : 0..(CacheTtl + 1)]
<1>1. Healthy \subseteq Instances /\ Live \subseteq Instances /\ Listed \subseteq Instances
  BY DEF TypeOK, Healthy, Live, Listed
<1>2. Candidates \subseteq Instances /\ Candidates # {}
  BY <1>1, Bounds DEF Candidates, TypeOK
<1>3. Cardinality(Candidates) \in Nat
  BY <1>2, AddressAssumption, FS_Subset, FS_CardinalityType
<1>4. Advanced(Candidates) \in Nat
  BY <1>3 DEF Advanced, TypeOK
<1>5. Remembered \in [list : SUBSET Instances, age : 0..(CacheTtl + 1)]
  BY <1>1, Bounds DEF Remembered, NoCache, TypeOK
<1> QED BY <1>2, <1>3, <1>4, <1>5

LEMMA RememberedIsRecent ==
    ASSUME TypeOK, ListIsRecent, cache' = Remembered, UNCHANGED quiet
    PROVE  ListIsRecent'
<1>1. CASE cache' = cache
  BY <1>1 DEF ListIsRecent
<1>2. CASE cache' = [list |-> Healthy, age |-> 0]
  <2>1. \A i \in cache'.list : quiet[i] < BeatTimeout /\ quiet[i] \in Nat
    BY <1>2, Bounds DEF Healthy, TypeOK
  <2>2. cache'.age = 0
    BY <1>2
  <2> QED BY <2>1, <2>2, Bounds DEF ListIsRecent
<1>3. CASE cache' = NoCache
  BY <1>3 DEF ListIsRecent, NoCache
<1> QED BY <1>1, <1>2, <1>3 DEF Remembered

LEMMA InitDirectory == Init => DirectoryInv
<1> SUFFICES ASSUME Init PROVE DirectoryInv
  OBVIOUS
<1>1. TypeOK
  <2>1. NoCache \in [list : SUBSET Instances, age : 0..(CacheTtl + 1)]
    BY Bounds DEF NoCache
  <2>2. Nothing \in [status : Nat, code : Codes]
    BY DEF Nothing, Codes
  <2>3. quiet \in [Instances -> 0..Forgotten]
    BY Bounds DEF Init
  <2> QED BY <2>1, <2>2, <2>3 DEF Init, TypeOK
<1>2. ListIsRecent
  BY DEF Init, ListIsRecent, NoCache
<1>3. \A r \in Requests : Counted(r)
  BY DEF Init, Counted
<1> QED BY <1>1, <1>2, <1>3 DEF DirectoryInv

\* Instances and Nacos: no list and no request changes.
LEMMA ServiceKeeps ==
    ASSUME DirectoryInv,
           NacosChanges \/ \E i \in Instances : Starts(i) \/ Opens(i) \/ Stops(i) \/ Beats(i)
    PROVE  DirectoryInv'
<1>0. TypeOK /\ ListIsRecent
  BY DEF DirectoryInv
<1>1. UNCHANGED <<discovery, requests>>
  BY DEF NacosChanges, Starts, Opens, Stops, Beats
<1>2. UNCHANGED quiet \/ \E i \in Instances : quiet' = [quiet EXCEPT ![i] = 0]
  BY DEF NacosChanges, Starts, Opens, Stops, Beats, HeardOf
<1>3. /\ quiet' \in [Instances -> 0..Forgotten]
      /\ \A i \in Instances : quiet'[i] = 0 \/ quiet'[i] = quiet[i]
  BY <1>0, <1>2, Bounds DEF TypeOK
<1>4. TypeOK'
  <2>1. nacos' \in BOOLEAN /\ life' \in [Instances -> {"down", "starting", "up"}] /\ beating' \subseteq Instances
    BY <1>0 DEF TypeOK, NacosChanges, Starts, Opens, Stops, Beats
  <2> QED BY <1>0, <1>1, <1>3, <2>1 DEF TypeOK, discovery, requests
<1>5. ListIsRecent'
  <2>1. /\ cache' = cache /\ cache.list \subseteq Instances /\ cache.age \in Nat
        /\ quiet \in [Instances -> 0..Forgotten]
    BY <1>0, <1>1, Bounds DEF TypeOK, discovery
  <2>2. \A i \in Instances : quiet'[i] <= quiet[i] /\ quiet'[i] \in Nat /\ quiet[i] \in Nat
    BY <1>3, <2>1, Bounds
  <2>3. ASSUME cache.age <= CacheTtl, NEW i \in cache.list
        PROVE  quiet'[i] < BeatTimeout + cache.age
    <3>1. i \in Instances /\ quiet[i] < BeatTimeout + cache.age
      BY <1>0, <2>1, <2>3 DEF ListIsRecent
    <3> QED BY <2>1, <2>2, <3>1, Bounds
  <2> QED BY <2>1, <2>3 DEF ListIsRecent
<1>6. \A r \in Requests : Counted(r)'
  BY <1>1 DEF DirectoryInv, Counted, requests
<1> QED BY <1>4, <1>5, <1>6 DEF DirectoryInv

LEMMA TimeKeeps == ASSUME DirectoryInv, Tick PROVE DirectoryInv'
<1>0. TypeOK /\ ListIsRecent
  BY DEF DirectoryInv
<1>1. UNCHANGED <<nacos, life, beating, managed, local, index, turn, requests>>
  BY DEF Tick
<1>2. \A i \in Instances : quiet[i] \in 0..Forgotten
  BY <1>0 DEF TypeOK
<1>3. /\ quiet' \in [Instances -> 0..Forgotten]
      /\ \A i \in Instances : quiet'[i] <= quiet[i] + 1 /\ quiet'[i] \in Nat
  BY <1>2, Bounds DEF Tick
<1>4. \/ cache' = cache /\ (cache.list = {} \/ ~(cache.age <= CacheTtl))
      \/ /\ cache.age <= CacheTtl
         /\ cache' = [cache EXCEPT !.age = cache.age + 1]
  BY DEF Tick
<1>5. cache \in [list : SUBSET Instances, age : 0..(CacheTtl + 1)]
  BY <1>0 DEF TypeOK
<1>6. cache' \in [list : SUBSET Instances, age : 0..(CacheTtl + 1)]
  BY <1>4, <1>5, Bounds
<1>7. ListIsRecent'
  <2>1. CASE cache' = cache /\ (cache.list = {} \/ ~(cache.age <= CacheTtl))
    BY <2>1 DEF ListIsRecent
  <2>2. CASE /\ cache.age <= CacheTtl
             /\ cache' = [cache EXCEPT !.age = cache.age + 1]
    <3>1. cache'.list = cache.list /\ cache'.age = cache.age + 1 /\ cache.age \in Nat
      BY <2>2, <1>5
    <3>2. \A i \in cache.list : i \in Instances /\ quiet[i] < BeatTimeout + cache.age
      BY <2>2, <1>0, <1>5 DEF ListIsRecent
    <3>3. ASSUME NEW i \in cache.list PROVE quiet'[i] < BeatTimeout + cache'.age
      <4>1. i \in Instances /\ quiet[i] < BeatTimeout + cache.age
        BY <3>2
      <4>2. quiet[i] \in Nat /\ quiet'[i] <= quiet[i] + 1 /\ quiet'[i] \in Nat
        BY <4>1, <1>2, <1>3, Bounds
      <4> QED BY <3>1, <4>1, <4>2, Bounds
    <3> QED BY <3>1, <3>3 DEF ListIsRecent
  <2> QED BY <1>4, <2>1, <2>2
<1>8. TypeOK'
  BY <1>0, <1>1, <1>3, <1>6 DEF TypeOK, requests
<1>9. \A r \in Requests : Counted(r)'
  BY <1>1 DEF DirectoryInv, Counted, requests
<1> QED BY <1>7, <1>8, <1>9 DEF DirectoryInv

\* Looking the service up keeps what is known of its instances.
LEMMA LookupKeeps ==
    ASSUME TypeOK, ListIsRecent, NEW i, GetServiceUrl(i), UNCHANGED <<services, managed, local>>
    PROVE  /\ i \in Candidates /\ i \in Instances /\ i # 0
           /\ ListIsRecent'
           /\ cache' \in [list : SUBSET Instances, age : 0..(CacheTtl + 1)]
           /\ index' \in Nat
           /\ turn' \in [list : SUBSET Instances, seen : SUBSET Instances]
<1>1. i \in Candidates /\ turn' = NextTurn(i) /\ cache' = Remembered /\ index' = Advanced(Candidates)
  BY DEF GetServiceUrl, HasTurn
<1>2. i \in Instances /\ i # 0
  BY <1>1, ChoiceFacts, Bounds
<1>3. ListIsRecent'
  BY <1>1, RememberedIsRecent DEF services
<1>4. cache' \in [list : SUBSET Instances, age : 0..(CacheTtl + 1)] /\ index' \in Nat
  BY <1>1, ChoiceFacts
<1>5. turn' \in [list : SUBSET Instances, seen : SUBSET Instances]
  <2>1. turn \in [list : SUBSET Instances, seen : SUBSET Instances] /\ Candidates \subseteq Instances
    BY ChoiceFacts DEF TypeOK
  <2> QED BY <1>1, <1>2, <2>1 DEF NextTurn
<1> QED BY <1>1, <1>2, <1>3, <1>4, <1>5

LEMMA SocketKeeps == ASSUME DirectoryInv, LocateSocket PROVE DirectoryInv'
<1>0. TypeOK /\ ListIsRecent
  BY DEF DirectoryInv
<1>1. UNCHANGED <<services, managed, local, requests>>
  BY DEF LocateSocket
<1>2. PICK i \in Instances : GetServiceUrl(i)
  BY DEF LocateSocket
<1>3. /\ ListIsRecent' /\ index' \in Nat
      /\ cache' \in [list : SUBSET Instances, age : 0..(CacheTtl + 1)]
      /\ turn' \in [list : SUBSET Instances, seen : SUBSET Instances]
  BY <1>0, <1>1, <1>2, LookupKeeps
<1>5. TypeOK'
  BY <1>0, <1>1, <1>3 DEF TypeOK, services, requests
<1>4. \A r \in Requests : Counted(r)'
  BY <1>1 DEF DirectoryInv, Counted, requests
<1> QED BY <1>3, <1>4, <1>5 DEF DirectoryInv

LEMMA RestartKeeps == ASSUME DirectoryInv, GatewayRestarts PROVE DirectoryInv'
<1>0. TypeOK
  BY DEF DirectoryInv
<1>1. TypeOK'
  <2>1. NoCache \in [list : SUBSET Instances, age : 0..(CacheTtl + 1)]
    BY Bounds DEF NoCache
  <2>2. Nothing \in [status : Nat, code : Codes]
    BY DEF Nothing, Codes
  <2> QED BY <1>0, <2>1, <2>2 DEF TypeOK, GatewayRestarts, services
<1>2. ListIsRecent'
  BY DEF GatewayRestarts, ListIsRecent, NoCache
<1>3. \A r \in Requests : Counted(r)'
  BY DEF GatewayRestarts, Counted
<1> QED BY <1>1, <1>2, <1>3 DEF DirectoryInv

LEMMA ForwardKeeps == ASSUME DirectoryInv, NEW r \in Requests, Forward(r) PROVE DirectoryInv'
<1>0. TypeOK /\ ListIsRecent
  BY DEF DirectoryInv
<1>1. UNCHANGED <<services, managed, local, answer, handled>>
  BY DEF Forward
<1>2. PICK i \in Instances : GetServiceUrl(i) /\ wire' = [wire EXCEPT ![r] = i]
  BY DEF Forward
<1>3. i \in Instances /\ i # 0
  BY <1>0, <1>1, <1>2, LookupKeeps
<1>4. /\ ListIsRecent' /\ index' \in Nat
      /\ cache' \in [list : SUBSET Instances, age : 0..(CacheTtl + 1)]
      /\ turn' \in [list : SUBSET Instances, seen : SUBSET Instances]
  BY <1>0, <1>1, <1>2, LookupKeeps
<1>6. at' = [at EXCEPT ![r] = "waiting"] /\ at[r] = "idle"
  BY DEF Forward
<1>7. TypeOK'
  <2>1. at' \in [Requests -> {"idle", "waiting", "told"}] /\ wire' \in [Requests -> {0} \cup Instances]
    BY <1>0, <1>2, <1>3, <1>6 DEF TypeOK
  <2> QED BY <1>0, <1>1, <1>4, <2>1 DEF TypeOK, services
<1>8. ASSUME NEW q \in Requests PROVE Counted(q)'
  <2>0. Counted(q)
    BY DEF DirectoryInv
  <2>1. CASE q = r
    <3>1. at'[q] = "waiting" /\ wire'[q] = i /\ handled'[q] = handled[q]
      BY <2>1, <1>0, <1>1, <1>2, <1>6 DEF TypeOK
    <3> QED BY <2>0, <2>1, <3>1, <1>3, <1>6 DEF Counted
  <2>2. CASE q # r
    <3>1. at'[q] = at[q] /\ wire'[q] = wire[q] /\ handled' = handled /\ answer' = answer
      BY <2>2, <1>0, <1>1, <1>2, <1>6 DEF TypeOK
    <3> QED BY <2>0, <3>1 DEF Counted
  <2> QED BY <2>1, <2>2
<1> QED BY <1>4, <1>7, <1>8 DEF DirectoryInv

\* A step of one request that leaves instances and lists alone.
LEMMA RequestStep ==
    ASSUME DirectoryInv, NEW r \in Requests, UNCHANGED <<services, discovery>>,
           NEW a \in {"idle", "waiting", "told"}, NEW w \in {0} \cup Instances,
           NEW t \in [status : Nat, code : Codes], NEW h \in Nat,
           at' = [at EXCEPT ![r] = a], wire' = [wire EXCEPT ![r] = w],
           answer' = [answer EXCEPT ![r] = t], handled' = [handled EXCEPT ![r] = h],
           /\ h \in {0, 1}
           /\ w # 0 => h = 0
           /\ a = "idle" => w = 0 /\ h = 0
           /\ (a = "waiting" /\ w = 0) => h = 1
           /\ (a = "told" /\ t.status < 400) => h = 1
           /\ (a = "told" /\ t.code = "CONNECTION_ERROR") => h = 0 /\ w = 0
    PROVE  DirectoryInv'
<1>0. TypeOK
  BY DEF DirectoryInv
<1>1. TypeOK'
  BY <1>0 DEF TypeOK, services, discovery
<1>2. ListIsRecent'
  BY DEF DirectoryInv, ListIsRecent, services, discovery
<1>3. ASSUME NEW q \in Requests PROVE Counted(q)'
  <2>0. Counted(q)
    BY DEF DirectoryInv
  <2>1. CASE q = r
    <3>1. at'[q] = a /\ wire'[q] = w /\ answer'[q] = t /\ handled'[q] = h
      BY <2>1, <1>0 DEF TypeOK
    <3> QED BY <3>1 DEF Counted
  <2>2. CASE q # r
    <3>1. at'[q] = at[q] /\ wire'[q] = wire[q] /\ answer'[q] = answer[q] /\ handled'[q] = handled[q]
      BY <2>2, <1>0 DEF TypeOK
    <3> QED BY <2>0, <3>1 DEF Counted
  <2> QED BY <2>1, <2>2
<1> QED BY <1>1, <1>2, <1>3 DEF DirectoryInv

LEMMA RequestKeeps ==
    ASSUME DirectoryInv, NEW r \in Requests,
           NotAccepted(r) \/ TimesOut(r) \/ Breaks(r) \/ Arrives(r) \/ Answers(r) \/ Ends(r)
    PROVE  DirectoryInv'
<1>0. /\ Counted(r) /\ UNCHANGED <<services, discovery>>
      /\ at \in [Requests -> {"idle", "waiting", "told"}]
      /\ wire \in [Requests -> {0} \cup Instances]
      /\ answer \in [Requests -> [status : Nat, code : Codes]]
      /\ handled \in [Requests -> Nat]
  BY DEF DirectoryInv, TypeOK, NotAccepted, TimesOut, Breaks, Arrives, Answers, Ends
<1>1. /\ at = [at EXCEPT ![r] = at[r]] /\ wire = [wire EXCEPT ![r] = wire[r]]
      /\ answer = [answer EXCEPT ![r] = answer[r]] /\ handled = [handled EXCEPT ![r] = handled[r]]
      /\ at[r] \in {"idle", "waiting", "told"} /\ wire[r] \in {0} \cup Instances
      /\ answer[r] \in [status : Nat, code : Codes] /\ handled[r] \in Nat
  BY <1>0
<1>2. CASE NotAccepted(r)
  <2>1. /\ at' = [at EXCEPT ![r] = "told"] /\ wire' = [wire EXCEPT ![r] = 0]
        /\ answer' = [answer EXCEPT ![r] = Told(NotConnected)] /\ handled' = handled
        /\ handled[r] = 0
    BY <1>2, <1>0 DEF NotAccepted, Answered, Counted
  <2>2. handled' = [handled EXCEPT ![r] = 0]
    BY <1>1, <2>1
  <2>3. Told(NotConnected) \in [status : Nat, code : Codes] /\ ~(Told(NotConnected).status < 400)
    BY ToldFacts
  <2> QED BY <1>0, <2>1, <2>2, <2>3, RequestStep
<1>3. CASE TimesOut(r)
  <2>1. /\ at' = [at EXCEPT ![r] = "told"]
        /\ answer' = [answer EXCEPT ![r] = Told(TooLate)] /\ handled' = [handled EXCEPT ![r] = handled[r]]
        /\ \/ wire' = [wire EXCEPT ![r] = wire[r]]
           \/ wire' = [wire EXCEPT ![r] = 0]
    BY <1>3, <1>1 DEF TimesOut, Answered
  <2>2. handled[r] \in {0, 1} /\ (wire[r] # 0 => handled[r] = 0)
    BY <1>0 DEF Counted
  <2>3. Told(TooLate) \in [status : Nat, code : Codes] /\ ~(Told(TooLate).status < 400)
        /\ Told(TooLate).code # "CONNECTION_ERROR"
    BY ToldFacts
  <2>4. CASE wire' = [wire EXCEPT ![r] = wire[r]]
    BY <1>0, <1>1, <2>1, <2>2, <2>3, <2>4, RequestStep
  <2>5. CASE wire' = [wire EXCEPT ![r] = 0]
    BY <1>0, <1>1, <2>1, <2>2, <2>3, <2>5, RequestStep
  <2> QED BY <2>1, <2>4, <2>5
<1>4. CASE Breaks(r)
  <2>1. /\ at' = [at EXCEPT ![r] = "told"]
        /\ answer' = [answer EXCEPT ![r] = Told(Broken)] /\ handled' = [handled EXCEPT ![r] = handled[r]]
        /\ \/ wire' = [wire EXCEPT ![r] = wire[r]]
           \/ wire' = [wire EXCEPT ![r] = 0]
    BY <1>4, <1>1 DEF Breaks, Answered
  <2>2. handled[r] \in {0, 1} /\ (wire[r] # 0 => handled[r] = 0)
    BY <1>0 DEF Counted
  <2>3. Told(Broken) \in [status : Nat, code : Codes] /\ ~(Told(Broken).status < 400)
        /\ Told(Broken).code # "CONNECTION_ERROR"
    BY ToldFacts
  <2>4. CASE wire' = [wire EXCEPT ![r] = wire[r]]
    BY <1>0, <1>1, <2>1, <2>2, <2>3, <2>4, RequestStep
  <2>5. CASE wire' = [wire EXCEPT ![r] = 0]
    BY <1>0, <1>1, <2>1, <2>2, <2>3, <2>5, RequestStep
  <2> QED BY <2>1, <2>4, <2>5
<1>5. CASE Arrives(r)
  <2>1. /\ at' = [at EXCEPT ![r] = at[r]] /\ answer' = [answer EXCEPT ![r] = answer[r]]
        /\ wire' = [wire EXCEPT ![r] = 0] /\ wire[r] # 0 /\ handled[r] = 0
        /\ at[r] # "idle"
    BY <1>5, <1>0, <1>1 DEF Arrives, Counted
  <2>2. /\ (at[r] = "told" /\ answer[r].status < 400) => FALSE
        /\ (at[r] = "told" /\ answer[r].code = "CONNECTION_ERROR") => FALSE
    BY <1>0, <2>1 DEF Counted
  <2>3. CASE handled' = [handled EXCEPT ![r] = handled[r] + 1]
    <3>1. handled' = [handled EXCEPT ![r] = 1]
      BY <2>1, <2>3
    <3> QED BY <1>0, <1>1, <2>1, <2>2, <3>1, RequestStep
  <2>4. CASE at[r] = "told" /\ handled' = handled
    <3>1. handled' = [handled EXCEPT ![r] = 0]
      BY <1>1, <2>1, <2>4
    <3> QED BY <1>0, <1>1, <2>1, <2>2, <2>4, <3>1, RequestStep
  <2> QED BY <1>5, <2>3, <2>4 DEF Arrives
<1>6. CASE Answers(r)
  <2>1. PICK response \in Responses : Answered(r, response)
    BY <1>6 DEF Answers
  <2>2. /\ at' = [at EXCEPT ![r] = "told"] /\ answer' = [answer EXCEPT ![r] = Told(response)]
        /\ wire' = [wire EXCEPT ![r] = 0] /\ handled' = [handled EXCEPT ![r] = 1]
    BY <1>6, <1>0, <1>1, <2>1 DEF Answers, Answered, Counted
  <2>3. Told(response) \in [status : Nat, code : Codes] /\ Told(response).code # "CONNECTION_ERROR"
    BY ToldFacts
  <2> QED BY <1>0, <2>2, <2>3, RequestStep
<1>7. CASE Ends(r)
  <2>1. /\ at' = [at EXCEPT ![r] = "idle"] /\ answer' = [answer EXCEPT ![r] = Nothing]
        /\ wire' = [wire EXCEPT ![r] = 0] /\ handled' = [handled EXCEPT ![r] = 0]
    BY <1>7, <1>1 DEF Ends
  <2>2. Nothing \in [status : Nat, code : Codes]
    BY DEF Nothing, Codes
  <2> QED BY <1>0, <2>1, <2>2, RequestStep
<1> QED BY <1>2, <1>3, <1>4, <1>5, <1>6, <1>7

LEMMA DirectoryStep == DirectoryInv /\ [Next]_vars => DirectoryInv'
<1> SUFFICES ASSUME DirectoryInv, [Next]_vars PROVE DirectoryInv'
  OBVIOUS
<1>1. CASE UNCHANGED vars
  BY <1>1 DEF DirectoryInv, TypeOK, ListIsRecent, Counted, vars, services, discovery, requests
<1>2. CASE Next
  BY <1>2, ServiceKeeps, TimeKeeps, SocketKeeps, RestartKeeps, ForwardKeeps, RequestKeeps DEF Next
<1> QED BY <1>1, <1>2

LEMMA DirectoryInvariant == Spec => []DirectoryInv
BY InitDirectory, DirectoryStep, PTL DEF Spec

-----------------------------------------------------------------------------
\* The state of the directory and of the requests keeps its type.
THEOREM DirectoryTypes == Spec => []TypeOK
<1>1. DirectoryInv => TypeOK
  BY DEF DirectoryInv
<1> QED BY DirectoryInvariant, <1>1, PTL

\* Every answer is true of what was done with the request.
THEOREM AnswersAreTrue == Spec => []AnswerTells
<1>1. DirectoryInv => AnswerTells
  BY DEF DirectoryInv, Counted, AnswerTells
<1> QED BY DirectoryInvariant, <1>1, PTL

\* A request starts to wait only when it is forwarded.
LEMMA OnlyForwardWaits ==
    ASSUME TypeOK, [Next]_vars, NEW r \in Requests, at[r] = "idle", at'[r] = "waiting"
    PROVE  Forward(r)
<1>1. \A q \in Requests : q # r /\ Forward(q) => at'[r] = at[r]
  BY DEF Forward, TypeOK
<1>2. \A q \in Requests :
        NotAccepted(q) \/ TimesOut(q) \/ Breaks(q) \/ Answers(q) \/ Ends(q) => at'[r] # "waiting"
  BY DEF NotAccepted, TimesOut, Breaks, Answers, Ends, Answered, TypeOK
<1>3. GatewayRestarts => at'[r] # "waiting"
  BY DEF GatewayRestarts
<1>4. (NacosChanges \/ Tick \/ LocateSocket \/ UNCHANGED vars) => at'[r] = at[r]
  BY DEF NacosChanges, Tick, LocateSocket, vars, requests
<1>5. \A i \in Instances : Starts(i) \/ Opens(i) \/ Stops(i) \/ Beats(i) => at'[r] = at[r]
  BY DEF Starts, Opens, Stops, Beats, requests
<1>6. \A q \in Requests : Arrives(q) => at'[r] = at[r]
  BY DEF Arrives
<1> QED BY <1>1, <1>2, <1>3, <1>4, <1>5, <1>6 DEF Next

\* Who is chosen from Nacos's list was heard of recently.
THEOREM ChosenWasAlive == Spec => DeadIsForgotten
<1>1. ASSUME DirectoryInv, [Next]_vars, NEW r \in Requests,
             at[r] = "idle", at'[r] = "waiting", Listed # {}
      PROVE  quiet[wire'[r]] < BeatTimeout + CacheTtl
  <2>0. TypeOK /\ ListIsRecent
    BY <1>1 DEF DirectoryInv
  <2>1. Forward(r)
    BY <1>1, <2>0, OnlyForwardWaits
  <2>2. PICK i \in Candidates : wire' = [wire EXCEPT ![r] = i]
    BY <2>1 DEF Forward, GetServiceUrl, HasTurn
  <2>3. wire'[r] = i /\ i \in Listed
    BY <1>1, <2>0, <2>2 DEF TypeOK, Candidates
  <2>4. CASE i \in Live
    <3>1. cache.age <= CacheTtl /\ i \in cache.list /\ i \in Instances /\ cache.age \in Nat
      BY <2>0, <2>4, Bounds DEF Live, TypeOK
    <3>2. quiet[i] < BeatTimeout + cache.age /\ quiet[i] \in Nat
      BY <2>0, <3>1, Bounds DEF ListIsRecent, TypeOK
    <3> QED BY <2>3, <3>1, <3>2, Bounds
  <2>5. CASE i \in Healthy
    <3>1. quiet[i] < BeatTimeout /\ quiet[i] \in Nat
      BY <2>0, <2>5, Bounds DEF Healthy, TypeOK
    <3> QED BY <2>3, <3>1, Bounds
  <2> QED BY <2>3, <2>4, <2>5 DEF Listed
<1>2. DirectoryInv /\ [Next]_vars
        => [\A r \in Requests :
              (at[r] = "idle" /\ at'[r] = "waiting" /\ Listed # {})
                => quiet[wire'[r]] < BeatTimeout + CacheTtl]_vars
  BY <1>1
<1> QED BY DirectoryInvariant, <1>2, PTL DEF Spec, DeadIsForgotten
-----------------------------------------------------------------------------
(* Turns.  In the middle of a round the index points behind the last one    *)
(* chosen, and whoever had a turn stands at most as many places behind it   *)
(* as turns were taken: the one it points at has not been chosen yet.       *)

\* How far the place p is behind the index k, on a list of n.
Behind(p, n, k) == IF p < k THEN k - 1 - p ELSE k - 1 - p + n

\* Seen had their turn on the list since its round began, and the index is k.
InRound(list, seen, k) ==
  /\ seen \subseteq list
  /\ seen # list =>
       /\ k < Cardinality(list)
       /\ \A j \in seen : Behind(Position(j, list), Cardinality(list), k) < Cardinality(seen)

RoundInv == InRound(turn.list, turn.seen, index)

LEMMA Remainders ==
    ASSUME NEW a \in Nat, NEW n \in Nat \ {0}
    PROVE  /\ a % n \in 0..(n - 1)
           /\ a < n => a % n = a
           /\ (a + 1) % n = IF a % n = n - 1 THEN 0 ELSE (a % n) + 1
<1>1. PICK q \in Int, r \in 0..(n - 1) : a = q * n + r
  <2>1. a = (a \div n) * n + (a % n) /\ a % n \in 0..(n - 1) /\ a \div n \in Int
    OBVIOUS
  <2> QED BY <2>1
<1> QED BY <1>1

LEMMA SmallerList ==
    ASSUME NEW S \in SUBSET Instances, NEW T \in SUBSET S
    PROVE  /\ Cardinality(S) \in Nat /\ Cardinality(T) \in Nat
           /\ T # S => Cardinality(T) < Cardinality(S)
           /\ T # {} => Cardinality(T) >= 1
           /\ \A i \in S \ T : Cardinality(T \cup {i}) = Cardinality(T) + 1
<1>1. IsFiniteSet(S) /\ IsFiniteSet(T)
  BY AddressAssumption, FS_Subset
<1>2. Cardinality(S) \in Nat /\ Cardinality(T) \in Nat
  BY <1>1, FS_CardinalityType
<1>3. T # S => Cardinality(T) < Cardinality(S)
  BY <1>1, <1>2, FS_Subset
<1>4. T # {} => Cardinality(T) >= 1
  BY <1>1, <1>2, FS_EmptySet
<1>5. \A i \in S \ T : Cardinality(T \cup {i}) = Cardinality(T) + 1
  BY <1>1, FS_AddElement
<1> QED BY <1>2, <1>3, <1>4, <1>5

LEMMA PositionType ==
    ASSUME NEW S \in SUBSET Instances, NEW i \in S
    PROVE  Position(i, S) \in 0..(Cardinality(S) - 1)
<1> DEFINE T == {j \in S : j < i}
<1>1. T \in SUBSET S /\ T # S
  BY Bounds
<1> HIDE DEF T
<1>2. Cardinality(T) < Cardinality(S) /\ Cardinality(T) \in Nat /\ Cardinality(S) \in Nat
  BY <1>1, SmallerList
<1> QED BY <1>2 DEF Position, T

\* Who has the turn on a list in the middle of its round had none before.
LEMMA TurnIsNew ==
    ASSUME NEW list \in SUBSET Instances, NEW seen, NEW k \in Nat, NEW i \in list,
           InRound(list, seen, k), seen # list,
           Position(i, list) = k % Cardinality(list)
    PROVE  i \notin seen /\ k % Cardinality(list) = k
<1> PICK n : n = Cardinality(list)
  OBVIOUS
<1>1. seen \in SUBSET list /\ k < n
  BY DEF InRound
<1>2. n \in Nat /\ n # 0 /\ Cardinality(seen) \in Nat /\ Cardinality(seen) < n
  BY <1>1, SmallerList
<1>3. k % n = k
  BY <1>1, <1>2, Remainders
<1>4. Behind(Position(i, list), n, k) = n - 1
  BY <1>1, <1>2, <1>3 DEF Behind
<1>5. i \notin seen
  BY <1>2, <1>4 DEF InRound
<1> QED BY <1>3, <1>5

\* The turn after that.
LEMMA RoundGoesOn ==
    ASSUME NEW list \in SUBSET Instances, NEW seen, NEW k \in Nat, NEW i \in list,
           InRound(list, seen, k), seen # list,
           Position(i, list) = k % Cardinality(list)
    PROVE  InRound(list, seen \cup {i},
                   IF Cardinality(list) > 1 THEN (k + 1) % Cardinality(list) ELSE k)
<1> PICK n : n = Cardinality(list)
  OBVIOUS
<1> PICK next : next = IF n > 1 THEN (k + 1) % n ELSE k
  OBVIOUS
<1>1. seen \in SUBSET list /\ k < n /\ n \in Nat /\ n # 0
  BY SmallerList DEF InRound
<1>2. i \notin seen /\ Position(i, list) = k /\ k % n = k
  BY TurnIsNew
<1>3. Cardinality(seen) \in Nat /\ Cardinality(seen \cup {i}) = Cardinality(seen) + 1
  BY <1>1, <1>2, SmallerList
<1>4. (k + 1) % n = IF k = n - 1 THEN 0 ELSE k + 1
  BY <1>1, <1>2, Remainders
<1>5. ASSUME seen \cup {i} # list
      PROVE  n > 1 /\ next = IF k = n - 1 THEN 0 ELSE k + 1
  <2>1. Cardinality(seen \cup {i}) < n
    BY <1>1, <1>5, SmallerList
  <2> QED BY <1>1, <1>3, <1>4, <2>1
<1>6. ASSUME seen \cup {i} # list, NEW j \in seen \cup {i}
      PROVE  Behind(Position(j, list), n, next) < Cardinality(seen) + 1
  <2> PICK p : p = Position(j, list)
    OBVIOUS
  <2>1. p \in 0..(n - 1)
    BY <1>1, PositionType
  <2>2. CASE j = i
    BY <1>1, <1>2, <1>3, <1>5, <1>6, <2>1, <2>2 DEF Behind
  <2>3. CASE j # i
    <3>1. Behind(p, n, k) < Cardinality(seen)
      BY <1>6, <2>3 DEF InRound
    <3>2. p # k
      <4>1. Behind(k, n, k) = n - 1
        BY <1>1 DEF Behind
      <4>2. Cardinality(seen) < n
        BY <1>1, SmallerList
      <4> QED BY <1>1, <1>3, <3>1, <4>1, <4>2
    <3> QED BY <1>1, <1>3, <1>5, <1>6, <2>1, <3>1, <3>2 DEF Behind
  <2> QED BY <2>2, <2>3
<1> QED BY <1>1, <1>3, <1>5, <1>6 DEF InRound

\* The first turn of a round.
LEMMA RoundBegins ==
    ASSUME NEW list \in SUBSET Instances, NEW k \in Nat, NEW i \in list,
           Position(i, list) = k % Cardinality(list)
    PROVE  InRound(list, {i},
                   IF Cardinality(list) > 1 THEN (k + 1) % Cardinality(list) ELSE k)
<1> PICK n : n = Cardinality(list)
  OBVIOUS
<1>1. Cardinality({i}) = 1 /\ n \in Nat
  BY FS_Singleton, SmallerList
<1>2. ASSUME {i} # list
      PROVE  n > 1
  BY <1>1, <1>2, SmallerList
<1>3. ASSUME n > 1
      PROVE  /\ (k + 1) % n \in 0..(n - 1)
             /\ Behind(Position(i, list), n, (k + 1) % n) < 1
  <2>0. n \in Nat \ {0}
    BY <1>1, <1>3
  <2>1. k % n \in 0..(n - 1) /\ (k + 1) % n = IF k % n = n - 1 THEN 0 ELSE (k % n) + 1
    BY <2>0, Remainders
  <2> QED BY <1>1, <1>3, <2>1 DEF Behind
<1> QED BY <1>1, <1>2, <1>3 DEF InRound

\* Whoever looks the service up, a round goes on or a new one begins.
LEMMA LookupRound ==
    ASSUME Strategy = "round_robin", TypeOK, RoundInv, NEW i, GetServiceUrl(i)
    PROVE  RoundInv'
<1>1. i \in Candidates /\ HasTurn(i, Candidates) /\ turn' = NextTurn(i)
  BY DEF GetServiceUrl, HasTurn
<1>2. PICK list \in SUBSET Instances : list = Candidates
  BY ChoiceFacts
<1>3. PICK k \in Nat : k = index
  BY DEF TypeOK
<1>4. i \in list /\ Position(i, list) = k % Cardinality(list)
  BY <1>1, <1>2, <1>3 DEF HasTurn
<1>5. index' = IF Cardinality(list) > 1 THEN (k + 1) % Cardinality(list) ELSE k
  BY <1>2, <1>3 DEF GetServiceUrl, Advanced
<1>6. CASE list = turn.list /\ turn.seen # turn.list
  <2> PICK seen : seen = turn.seen
    OBVIOUS
  <2>1. turn'.list = list /\ turn'.seen = seen \cup {i}
    BY <1>1, <1>2, <1>6 DEF NextTurn, TypeOK
  <2>2. InRound(list, seen, k) /\ seen # list
    BY <1>3, <1>6 DEF RoundInv
  <2>3. InRound(list, seen \cup {i}, index')
    BY <1>4, <1>5, <2>2, RoundGoesOn
  <2> QED BY <2>1, <2>3 DEF RoundInv
<1>7. CASE ~(list = turn.list /\ turn.seen # turn.list)
  <2>1. turn'.list = list /\ turn'.seen = {i}
    BY <1>1, <1>2, <1>7 DEF NextTurn
  <2> QED BY <1>4, <1>5, <2>1, RoundBegins DEF RoundInv
<1> QED BY <1>6, <1>7

LEMMA RoundStep ==
    ASSUME Strategy = "round_robin", TypeOK, RoundInv, [Next]_vars
    PROVE  RoundInv'
<1>1. ASSUME UNCHANGED <<index, turn>> PROVE RoundInv'
  BY <1>1 DEF RoundInv
<1>2. CASE GatewayRestarts
  BY <1>2 DEF GatewayRestarts, RoundInv, InRound
<1>3. CASE UNCHANGED vars \/ NacosChanges \/ Tick
  BY <1>1, <1>3 DEF vars, discovery, NacosChanges, Tick
<1>4. ASSUME NEW i \in Instances, Starts(i) \/ Opens(i) \/ Stops(i) \/ Beats(i) PROVE RoundInv'
  BY <1>1, <1>4 DEF Starts, Opens, Stops, Beats, discovery
<1>5. ASSUME NEW r \in Requests,
             NotAccepted(r) \/ TimesOut(r) \/ Breaks(r) \/ Arrives(r) \/ Answers(r) \/ Ends(r)
      PROVE  RoundInv'
  BY <1>1, <1>5 DEF NotAccepted, TimesOut, Breaks, Arrives, Answers, Ends, discovery
<1>6. CASE LocateSocket
  <2>1. PICK i \in Instances : GetServiceUrl(i)
    BY <1>6 DEF LocateSocket
  <2> QED BY <2>1, LookupRound
<1>7. ASSUME NEW r \in Requests, Forward(r) PROVE RoundInv'
  <2>1. PICK i \in Instances : GetServiceUrl(i)
    BY <1>7 DEF Forward
  <2> QED BY <2>1, LookupRound
<1> QED BY <1>2, <1>3, <1>4, <1>5, <1>6, <1>7 DEF Next

\* Of an unchanged list nobody is looked up twice in a round, whatever requests,
\* WebSocket connections, restarts and refreshes of the list come in between.
THEOREM TurnsAreFair == Strategy = "round_robin" /\ Spec => TurnsAreTaken
<1> SUFFICES ASSUME Strategy = "round_robin" PROVE Spec => TurnsAreTaken
  OBVIOUS
<1>1. Init => RoundInv
  BY DEF Init, RoundInv, InRound
<1>2. TypeOK /\ RoundInv /\ [Next]_vars => RoundInv'
  BY RoundStep
<1>3. TypeOK /\ RoundInv /\ [Next]_vars
        => [\A i \in Instances :
              (GetServiceUrl(i) /\ Candidates = turn.list /\ turn.seen # turn.list)
                => i \notin turn.seen]_vars
  <2>1. ASSUME TypeOK, RoundInv, NEW i \in Instances,
               GetServiceUrl(i), Candidates = turn.list, turn.seen # turn.list
        PROVE  i \notin turn.seen
    <3>1. i \in turn.list /\ Position(i, turn.list) = index % Cardinality(turn.list)
      BY <2>1 DEF GetServiceUrl, HasTurn
    <3>2. turn.list \in SUBSET Instances /\ index \in Nat
      BY <2>1 DEF TypeOK
    <3> QED BY <2>1, <3>1, <3>2, TurnIsNew DEF RoundInv
  <2> QED BY <2>1
<1> QED BY <1>1, <1>2, <1>3, DirectoryTypes, PTL DEF Spec, TurnsAreTaken
===========================================================================
