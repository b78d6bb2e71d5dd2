---------------------------- MODULE GatewayHttp ---------------------------
(***************************************************************************)
(* The gateway's HTTP path over the auth service: auth_middleware.py, the  *)
(* catch-all route of proxy.py, forward_request of proxy_service.py and    *)
(* the HTTP client of shared/common/http_client.py.                        *)
(*                                                                         *)
(* A request is a coroutine that awaits the introspection, the mark of a   *)
(* deleted host in Redis, the address of the service and its answer; what  *)
(* the auth service does in between is AuthTokens.                         *)
(***************************************************************************)
EXTENDS AuthTokens

CONSTANTS HttpRequests

VARIABLES req  \* the await of each request that carries tok, or none

gatewayVars == <<authVars, req>>

GatewayInit == AuthInit /\ req = [r \in HttpRequests |-> "free"]

Moves(r, v) == req' = [req EXCEPT ![r] = v] /\ UNCHANGED authVars

-----------------------------------------------------------------------------
(* AuthMiddleware. *)

\* OPTIONS, a path of the whitelist or of the browser plugin, and a path that
\* needs a token.  Without a bearer token the answer is 401 at once.
Arrive(r) ==
  /\ req[r] = "free"
  /\ \/ Moves(r, "locate")
     \/ Held /\ Moves(r, "introspect")

\* POST /introspect: an active token with an id passes.
Introspected(r) ==
  /\ req[r] = "introspect"
  /\ Active
  /\ Moves(r, "marker")

\* Any other answer of the auth service, its errors included, is 401 for the
\* client; a call that times out, finds nobody or breaks is 504, 503 or 502.
NotIntrospected(r) ==
  /\ req[r] = "introspect"
  /\ Moves(r, "free")

\* Mutant: the mark is looked up under the prefix of the administrators.
MarkerCheckedForUser(r) ==
  /\ req[r] = "marker"
  /\ Moves(r, "locate")

\* redis_manager.exists: an error counts as absent.
MarkerChecked(r) ==
  /\ req[r] = "marker"
  /\ IF tok.owner # 0 /\ Found(marker[tok.owner])
       THEN Moves(r, "free")
       ELSE Moves(r, "locate")

-----------------------------------------------------------------------------
(* proxy_request and forward_request. *)

\* ServiceNotFoundError, or the address.  The X-User-Info header of the client
\* is dropped and one for the introspected identity added.
Located(r) ==
  /\ req[r] = "locate"
  /\ \/ Moves(r, "send")
     \/ Moves(r, "free")

\* The service is called once, without a retry.  Its answer, or what the HTTP
\* client makes of an exception, is decoded and ends the request.
Replied(r) ==
  /\ req[r] = "send"
  /\ Moves(r, "free")

HttpNext ==
  \E r \in HttpRequests :
    \/ Arrive(r) \/ Introspected(r) \/ NotIntrospected(r)
    \/ MarkerChecked(r) \/ Located(r) \/ Replied(r)

GatewayNext == HttpNext \/ (AuthNext /\ UNCHANGED req)

GatewaySpec == GatewayInit /\ [][GatewayNext]_gatewayVars

-----------------------------------------------------------------------------
GatewayTypeOK == AuthTypeOK /\ req \in [HttpRequests -> {"free", "introspect", "marker", "locate", "send"}]

(* A token that was logged out while Redis answered is refused by every     *)
(* later introspection Redis answers, up to the second it expires in: the   *)
(* lifetime of the key and the life of the token are computed apart.        *)
LogoutIsFinal ==
  [][\A r \in HttpRequests :
       (req[r] = "introspect" /\ req'[r] = "marker")
         => ~redis \/ ~ended \/ now >= 2 * Expiry]_gatewayVars

(* Once a host is deleted, its access tokens from an earlier second are     *)
(* refused for as long as they live, although the introspection knows       *)
(* nothing of the deletion and the mark expires.                            *)
DeletedHostStaysOut ==
  [][\A r \in HttpRequests :
       (req[r] = "marker" /\ req'[r] = "locate")
         => \/ ~redis \/ ~Valid
            \/ tok.type = "refresh" \/ tok.owner = 0
            \/ \A d \in deleted[tok.owner] : d <= tok.iat]_gatewayVars
=============================================================================
