---------------------------- MODULE AuthTokens ----------------------------
(***************************************************************************)
(* The life of a token: refresh, introspection and logout of               *)
(* auth_service.py over the tokens of shared/common/security.py, the Redis *)
(* keys that take a token back, and the rows of host_rec a device login    *)
(* creates and delete_host of the host service removes.                    *)
(*                                                                         *)
(* Every key belongs to one token or one row, so tokens do not interact    *)
(* and the module follows one of them, whichever.  The clock counts half   *)
(* seconds: what expires in Redis does so at fractions of a second, a      *)
(* token at whole ones.  A call of a service is a coroutine; an action     *)
(* runs to the next await.                                                 *)
(***************************************************************************)
EXTENDS Integers, Sequences, FiniteSets

CONSTANTS
  Calls,       \* coroutines of the auth and host service at one time
  AccessTtl,   \* seconds an access token lives
  RefreshTtl,  \* seconds a refresh token lives
  MarkerTtl,   \* seconds Redis keeps the mark of a deleted host
  MaxRow,      \* bound: rows of the device ever created
  MaxNow       \* bound: half seconds

ASSUME TtlAssumption    == AccessTtl \in Nat \ {0} /\ RefreshTtl \in Nat \ {0}
ASSUME MarkerAssumption == MarkerTtl \in Nat \ {0} /\ AccessTtl <= MarkerTtl
ASSUME BoundAssumption  == MaxRow \in Nat /\ MaxNow \in Nat

VARIABLES
  now,     \* half seconds since the start
  redis,   \* TRUE while Redis answers
  tok,     \* the token: its type, its owner and the second it was made in
  out,     \* token_blacklist:{tok}, the half second it expires, 0 if absent
  spent,   \* refresh_token_blacklist:{tok}, likewise
  marker,  \* deleted:host:{row} of each row of the device, likewise
  rows,    \* live rows of the device in host_rec
  born,    \* per row ever created, the second of its first login
  call,    \* what a coroutine has in hand
  ended,   \* history: tok was logged out while Redis answered
  used,    \* history: tok was exchanged while Redis answered
  deleted  \* history: per row, the seconds in which its mark was set

keys == <<out, spent, marker>>
table == <<rows, born>>
history == <<ended, used, deleted>>
authVars == <<now, redis, tok, keys, table, call, history>>

Rows  == 1..MaxRow
Owner == {0} \cup Rows   \* 0 stands for an administrator of sys_user
Token == [type : {"access", "refresh"}, owner : Owner, iat : 0..(MaxNow \div 2)]

Idle == [step |-> "idle"]

AuthInit ==
  /\ now = 0 /\ redis = TRUE
  /\ tok \in Token
  /\ out = 0 /\ spent = 0 /\ marker = [r \in Rows |-> 0]
  /\ rows = {} /\ born = <<>>
  /\ call = [k \in Calls |-> Idle]
  /\ ended = FALSE /\ used = FALSE /\ deleted = [r \in Rows |-> {}]

Second == now \div 2
Expiry == tok.iat + (IF tok.type = "access" THEN AccessTtl ELSE RefreshTtl)

\* jwt.decode accepts a token through its last second.
Valid == Second <= Expiry

\* Redis: a key set for some seconds, and found while it lives.
For(seconds) == now + 2 * seconds
Found(key) == redis /\ now < key

-----------------------------------------------------------------------------
(* Logins. *)

\* Some client may hold the token: an administrator logs in, and a device that
\* has a row does or refreshes, in any second.
Held ==
  /\ tok.iat <= Second
  /\ tok.owner # 0 => tok.owner <= Len(born) /\ born[tok.owner] <= tok.iat

\* The row of a device is looked up by mg_id, which is not unique in the
\* database.  The login of a known device changes nothing here, and with two
\* live rows scalar_one_or_none raises and nobody logs in.
DeviceLoginReads(k) ==
  /\ call[k] = Idle
  /\ rows = {} /\ Len(born) < MaxRow
  /\ call' = [call EXCEPT ![k] = [step |-> "login"]]
  /\ UNCHANGED <<now, redis, tok, keys, table, history>>

DeviceLoginCommits(k) ==
  /\ call[k].step = "login" /\ Len(born) < MaxRow
  /\ born' = Append(born, Second)
  /\ rows' = rows \cup {Len(born')}
  /\ call' = [call EXCEPT ![k] = Idle]
  /\ UNCHANGED <<now, redis, tok, keys, history>>

-----------------------------------------------------------------------------
(* Refresh: the blacklist is read, the new tokens are made, and only then   *)
(* is the old one put on the blacklist.                                     *)

Usable == tok.type = "refresh" /\ Held /\ Valid /\ ~Found(spent)

\* Mutant: the key of a used token lives as long as an access token.
SpentTtlAccess == AccessTtl

\* max(1, int(exp - time.time()))
SpentTtl == IF 2 * Expiry < now + 2 THEN 1 ELSE (2 * Expiry - now) \div 2

\* refresh_access_token and auto_refresh_tokens, which differ in the tokens
\* they answer.  Those and the lifetime of the key are made before the await
\* that sets the key.
Refresh(k) ==
  /\ call[k] = Idle
  /\ Usable
  /\ call' = [call EXCEPT ![k] = [step |-> "refresh", ttl |-> SpentTtl]]
  /\ UNCHANGED <<now, redis, tok, keys, table, history>>

\* set_cache tells whether it wrote, and nobody asks.
Refreshed(k) ==
  /\ call[k].step = "refresh"
  /\ IF redis THEN spent' = For(call[k].ttl) /\ used' = TRUE
              ELSE UNCHANGED <<spent, used>>
  /\ call' = [call EXCEPT ![k] = Idle]
  /\ UNCHANGED <<now, redis, tok, out, marker, table, ended, deleted>>

-----------------------------------------------------------------------------
(* Logout and introspection. *)

\* Mutant: the key of a logged out token lives a second less.
LogoutTtlShort == IF Second < Expiry THEN Expiry - Second - 1 ELSE 0

\* max(0, exp - int(now))
LogoutTtl == IF Second < Expiry THEN Expiry - Second ELSE 0

\* SETEX with 0 seconds is an error, and the error is swallowed.  user_sessions
\* has no rows: no login writes one.
Logout ==
  /\ Held /\ Valid
  /\ redis
  /\ out' = IF LogoutTtl > 0 THEN For(LogoutTtl) ELSE out
  /\ ended' = TRUE
  /\ UNCHANGED <<now, redis, tok, spent, marker, table, call, used, deleted>>

\* introspect_token: a refresh token is as good as an access token.
Active == ~Found(out) /\ Valid

-----------------------------------------------------------------------------
(* delete_host of the host service, after the external deletion: the row is *)
(* deleted in a transaction, and the mark is set after it.                  *)

DeleteHost(k, r) ==
  /\ call[k] = Idle /\ r \in rows
  /\ rows' = rows \ {r}
  /\ call' = [call EXCEPT ![k] = [step |-> "mark", row |-> r]]
  /\ UNCHANGED <<now, redis, tok, keys, born, history>>

MarkDeleted(k) ==
  /\ call[k].step = "mark"
  /\ LET r == call[k].row IN
       IF redis
         THEN /\ marker' = [marker EXCEPT ![r] = For(MarkerTtl)]
              /\ deleted' = [deleted EXCEPT ![r] = @ \cup {Second}]
         ELSE UNCHANGED <<marker, deleted>>
  /\ call' = [call EXCEPT ![k] = Idle]
  /\ UNCHANGED <<now, redis, tok, out, spent, table, ended, used>>

-----------------------------------------------------------------------------
(* The environment. *)

AuthTick ==
  /\ now < MaxNow
  /\ now' = now + 1
  /\ UNCHANGED <<redis, tok, keys, table, call, history>>

RedisChanges ==
  /\ redis' = ~redis
  /\ UNCHANGED <<now, tok, keys, table, call, history>>

AuthNext ==
  \/ Logout \/ AuthTick \/ RedisChanges
  \/ \E k \in Calls :
       \/ DeviceLoginReads(k) \/ DeviceLoginCommits(k)
       \/ Refresh(k) \/ Refreshed(k)
       \/ MarkDeleted(k) \/ \E r \in Rows : DeleteHost(k, r)

AuthSpec == AuthInit /\ [][AuthNext]_authVars

-----------------------------------------------------------------------------
Step == [step : {"idle", "login"}]
          \cup [step : {"mark"}, row : Rows]
          \cup [step : {"refresh"}, ttl : Nat \ {0}]

AuthTypeOK ==
  /\ now \in 0..MaxNow /\ redis \in BOOLEAN /\ tok \in Token
  /\ out \in Nat /\ spent \in Nat /\ marker \in [Rows -> Nat]
  /\ born \in Seq(Nat) /\ Len(born) <= MaxRow /\ rows \subseteq 1..Len(born)
  /\ call \in [Calls -> Step]
  /\ ended \in BOOLEAN /\ used \in BOOLEAN /\ deleted \in [Rows -> SUBSET Nat]

(* A refresh token is good for one exchange: once its exchange was answered *)
(* while Redis was there, no later refresh accepts it, except in the last   *)
(* second of its life and the one jwt.decode adds, when its key is gone.    *)
(* Overlapping refreshes of one token both succeed, and this says no more   *)
(* of them than that they began before the answer.                          *)
ReuseIsRefused ==
  [][\A k \in Calls :
       (call[k] = Idle /\ call'[k].step = "refresh")
         => ~redis \/ ~used \/ now >= 2 * (Expiry - 1)]_authVars

(* mg_id names one machine: overlapping first logins leave one row.         *)
OneRowPerDevice == Cardinality(rows) <= 1
=============================================================================
