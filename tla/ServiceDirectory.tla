-------------------------- MODULE ServiceDirectory -------------------------
(***************************************************************************)
(* How the gateway finds an instance of a service and what its client is   *)
(* told: ServiceDiscovery, NacosManager, the start and end of a service in *)
(* ServiceLifecycleManager, and forward_request of the proxy down to the   *)
(* HTTP client and up to the exception middleware.                         *)
(*                                                                         *)
(* Every table of the discovery is keyed by the name of a service, so the  *)
(* module follows one service.  The calls of the Nacos client are          *)
(* synchronous: nothing happens between looking an instance up and sending *)
(* to it.  Time passes in ticks of some seconds.                           *)
(***************************************************************************)
EXTENDS Integers, FiniteSets

CONSTANTS
  Instances,    \* addresses, numbered in the order Nacos and the environment list them
  Default,      \* the address made of the default host and port
  Requests,     \* requests the gateway forwards at one time
  Strategy,     \* LOAD_BALANCE_STRATEGY
  CacheTtl,     \* ticks the gateway keeps a list of instances
  BeatTimeout   \* ticks without a heartbeat after which Nacos lists an instance no more

ASSUME AddressAssumption == Instances \subseteq Nat \ {0} /\ IsFiniteSet(Instances) /\ Default \in Instances
ASSUME TimeAssumption    == CacheTtl \in Nat /\ BeatTimeout \in Nat \ {0}

VARIABLES
  nacos,     \* TRUE while Nacos answers
  life,      \* "down", "starting" or "up" of each instance
  beating,   \* instances with a heartbeat loop
  quiet,     \* ticks since Nacos heard of an instance, as far as they matter
  managed,   \* TRUE if the gateway has a Nacos manager
  local,     \* instances named in the gateway's environment
  cache,     \* _instances_cache: a list and its age
  index,     \* _round_robin_index
  at,        \* where a request is
  wire,      \* the instance a request is on its way to, 0 if none
  answer,    \* what the client is told
  handled,   \* history: how often a request was handled
  turn       \* history: the last list and who was looked up since it was used up

services == <<nacos, life, beating, quiet>>
discovery == <<managed, local, cache, index, turn>>
requests == <<at, wire, answer, handled>>
vars == <<services, discovery, requests>>

Forgotten == BeatTimeout + CacheTtl
NoCache == [list |-> {}, age |-> 0]
Nothing == [status |-> 0, code |-> "none"]

Init ==
  /\ nacos = TRUE
  /\ life = [i \in Instances |-> "down"] /\ beating = {}
  /\ quiet = [i \in Instances |-> Forgotten]
  /\ managed = TRUE /\ local \in {{}, Instances}
  /\ cache = NoCache /\ index = 0
  /\ turn = [list |-> {}, seen |-> {}]
  /\ at = [r \in Requests |-> "idle"] /\ wire = [r \in Requests |-> 0]
  /\ answer = [r \in Requests |-> Nothing] /\ handled = [r \in Requests |-> 0]

-----------------------------------------------------------------------------
(* The life of an instance. *)

HeardOf(i) == quiet' = [quiet EXCEPT ![i] = 0]

\* startup: the only attempt to register comes before the first request is
\* accepted.  Without it there are no heartbeats either.
Starts(i) ==
  /\ life[i] = "down"
  /\ life' = [life EXCEPT ![i] = "starting"]
  /\ \/ UNCHANGED <<beating, quiet>>
     \/ nacos /\ HeardOf(i) /\ beating' = beating \cup {i}
  /\ UNCHANGED <<nacos, discovery, requests>>

\* The startup handlers have run.
Opens(i) ==
  /\ life[i] = "starting"
  /\ life' = [life EXCEPT ![i] = "up"]
  /\ UNCHANGED <<nacos, beating, quiet, discovery, requests>>

\* A failed startup handler, shutdown or a crash: the heartbeat ends, and
\* nobody takes the instance off Nacos's list.
Stops(i) ==
  /\ life[i] # "down"
  /\ life' = [life EXCEPT ![i] = "down"] /\ beating' = beating \ {i}
  /\ UNCHANGED <<nacos, quiet, discovery, requests>>

\* heartbeat_loop: an exception is logged and the loop goes on.  A heartbeat
\* puts an instance back on the list.
Beats(i) ==
  /\ i \in beating /\ nacos
  /\ HeardOf(i)
  /\ UNCHANGED <<nacos, life, beating, discovery, requests>>

\* Nacos becomes reachable or unreachable.
NacosChanges ==
  /\ nacos' = ~nacos
  /\ UNCHANGED <<life, beating, quiet, discovery, requests>>

Tick ==
  /\ quiet' = [i \in Instances |-> IF quiet[i] < Forgotten THEN quiet[i] + 1 ELSE quiet[i]]
  /\ cache' = IF cache.list # {} /\ cache.age <= CacheTtl
                THEN [cache EXCEPT !.age = @ + 1] ELSE cache
  /\ UNCHANGED <<nacos, life, beating, managed, local, index, turn, requests>>

-----------------------------------------------------------------------------
(* ServiceDiscovery. *)

Healthy == {i \in Instances : quiet[i] < BeatTimeout}

\* An expired entry counts as absent.
Live == IF cache.age <= CacheTtl THEN cache.list ELSE {}

\* _get_instances_from_nacos: an error and an empty list look alike, and
\* neither is remembered.
Listed ==
  IF ~managed THEN {}
  ELSE IF Live # {} THEN Live
  ELSE IF nacos THEN Healthy ELSE {}

\* Mutant: reading the list renews its timestamp.
RememberedAnew ==
  IF ~managed THEN cache
  ELSE IF Live # {} THEN [cache EXCEPT !.age = 0]
  ELSE IF nacos /\ Healthy # {} THEN [list |-> Healthy, age |-> 0]
  ELSE NoCache

Remembered ==
  IF ~managed \/ Live # {} THEN cache
  ELSE IF nacos /\ Healthy # {} THEN [list |-> Healthy, age |-> 0]
  ELSE NoCache

\* Without Nacos the environment decides, without that the default host.
Candidates ==
  IF Listed # {} THEN Listed
  ELSE IF local # {} THEN local
  ELSE {Default}

Position(i, list) == Cardinality({j \in list : j < i})

\* _select_instance: a random choice may be any.
HasTurn(i, list) ==
  i \in list /\ (Strategy = "round_robin" => Position(i, list) = index % Cardinality(list))

\* Mutant: the index is reduced, not advanced.
AdvancedNot(list) == index % Cardinality(list)

\* One index serves Nacos's list and the one of the environment.  A list of one
\* does not move it.
Advanced(list) ==
  IF Strategy = "round_robin" /\ Cardinality(list) > 1
    THEN (index + 1) % Cardinality(list)
    ELSE index

\* A list that is used up, or another one, starts a new round.
NextTurn(i) ==
  IF Candidates = turn.list /\ turn.seen # turn.list
    THEN [turn EXCEPT !.seen = @ \cup {i}]
    ELSE [list |-> Candidates, seen |-> {i}]

\* get_service_url: whoever looks the service up takes a turn.
GetServiceUrl(i) ==
  /\ HasTurn(i, Candidates)
  /\ turn' = NextTurn(i)
  /\ cache' = Remembered /\ index' = Advanced(Candidates)

\* A WebSocket connection, or the check of its token, looks the service up too.
\* The connection then asks for its session under the short name, which nobody
\* registers: nothing is remembered for the service, and whoever had the turn,
\* the connection goes to the default address.
LocateSocket ==
  /\ \E i \in Instances : GetServiceUrl(i)
  /\ UNCHANGED <<services, managed, local, requests>>

\* The gateway loses its tables, and what it was waiting for.  Its manager
\* cannot be made if its own address or Nacos's is missing.
GatewayRestarts ==
  /\ managed' \in BOOLEAN
  /\ cache' = NoCache /\ index' = 0 /\ turn' = [list |-> {}, seen |-> {}]
  /\ at' = [r \in Requests |-> "idle"] /\ wire' = [r \in Requests |-> 0]
  /\ answer' = [r \in Requests |-> Nothing] /\ handled' = [r \in Requests |-> 0]
  /\ UNCHANGED <<services, local>>

-----------------------------------------------------------------------------
(* What becomes of an answer. *)

\* The HTTP client makes an answer of each of its exceptions.
Failed(status, code) == [status |-> status, body |-> "error", code |-> code]

NotConnected == Failed(502, "CONNECTION_ERROR")
TooLate      == Failed(504, "TIMEOUT_ERROR")
Broken       == Failed(502, "NETWORK_ERROR")

\* Answers of a service: its own errors, the framework's, and none.
Responses ==
  [status : {200}, body : {"data"}, code : {"none"}]
    \cup [status : {401, 502}, body : {"error"}, code : {"OWN"}]
    \cup [status : {405}, body : {"text"}, code : {"none"}]
    \cup [status : {422}, body : {"list"}, code : {"none"}]
    \cup [status : {502}, body : {"none"}, code : {"none"}]

\* _handle_backend_http_error_from_response: the code of the error an answer of
\* 400 or more is raised as.
Raised(response) ==
  IF response.body = "error" THEN response.code
  ELSE IF response.status = 502 THEN "SERVICE_UNAVAILABLE"
  ELSE IF response.body = "list" THEN "VALIDATION_ERROR"
  ELSE "BACKEND"

\* Errors the gateway gives a message_key and details of its own.
Keyed(response) ==
  \/ response.body = "list" /\ response.status # 502
  \/ response.body = "none" /\ response.status = 502

\* _build_error_body names the details of a keyed error twice, a TypeError: the
\* client is told the server's plain 500.
Rendered(response) ==
  IF Keyed(response) THEN [status |-> 500, code |-> "none"]
                     ELSE [status |-> response.status, code |-> Raised(response)]

Told(response) ==
  IF response.status < 400 THEN [status |-> response.status, code |-> "none"]
                           ELSE Rendered(response)

-----------------------------------------------------------------------------
(* forward_request. *)

Forward(r) ==
  /\ at[r] = "idle"
  /\ at' = [at EXCEPT ![r] = "waiting"]
  /\ \E i \in Instances : GetServiceUrl(i) /\ wire' = [wire EXCEPT ![r] = i]
  /\ UNCHANGED <<services, managed, local, answer, handled>>

Answered(r, response) ==
  /\ at' = [at EXCEPT ![r] = "told"]
  /\ answer' = [answer EXCEPT ![r] = Told(response)]

NotAccepted(r) ==
  /\ at[r] = "waiting" /\ wire[r] # 0 /\ life[wire[r]] # "up"
  /\ Answered(r, NotConnected) /\ wire' = [wire EXCEPT ![r] = 0]
  /\ UNCHANGED <<services, discovery, handled>>

\* Mutant: only the time to connect is limited.
TimesOutConnecting(r) ==
  /\ at[r] = "waiting" /\ wire[r] # 0
  /\ Answered(r, TooLate) /\ wire' = [wire EXCEPT ![r] = 0]
  /\ UNCHANGED <<services, discovery, handled>>

\* The time to connect or to answer is over; the service may still get the request.
TimesOut(r) ==
  /\ at[r] = "waiting"
  /\ Answered(r, TooLate)
  /\ \/ wire' = wire
     \/ wire' = [wire EXCEPT ![r] = 0]
  /\ UNCHANGED <<services, discovery, handled>>

\* Mutant: the HTTP client repeats a request whose connection broke.
BreaksAndRepeats(r) ==
  /\ at[r] = "waiting" /\ wire[r] = 0
  /\ \E i \in Instances : wire' = [wire EXCEPT ![r] = i]
  /\ UNCHANGED <<services, discovery, at, answer, handled>>

\* The connection breaks at any time.  Nothing is tried again.  The one answer
\* the HTTP client follows by itself, the framework's redirect to the path with
\* or without its last slash, comes before any handler and leads back to the
\* same address: the request is on the wire once more.
Breaks(r) ==
  /\ at[r] = "waiting"
  /\ Answered(r, Broken)
  /\ \/ wire' = wire
     \/ wire' = [wire EXCEPT ![r] = 0]
  /\ UNCHANGED <<services, discovery, handled>>

\* The instance takes the request, or is gone and never will.
Arrives(r) ==
  /\ wire[r] # 0
  /\ \/ life[wire[r]] = "up" /\ handled' = [handled EXCEPT ![r] = @ + 1]
     \/ life[wire[r]] # "up" /\ at[r] = "told" /\ handled' = handled
  /\ wire' = [wire EXCEPT ![r] = 0]
  /\ UNCHANGED <<services, discovery, at, answer>>

Answers(r) ==
  /\ at[r] = "waiting" /\ wire[r] = 0
  /\ \E response \in Responses : Answered(r, response)
  /\ UNCHANGED <<services, discovery, wire, handled>>

\* The client may come again.
Ends(r) ==
  /\ at[r] = "told" /\ wire[r] = 0
  /\ at' = [at EXCEPT ![r] = "idle"]
  /\ answer' = [answer EXCEPT ![r] = Nothing] /\ handled' = [handled EXCEPT ![r] = 0]
  /\ UNCHANGED <<services, discovery, wire>>

-----------------------------------------------------------------------------
Next ==
  \/ NacosChanges \/ Tick \/ LocateSocket \/ GatewayRestarts
  \/ \E i \in Instances : Starts(i) \/ Opens(i) \/ Stops(i) \/ Beats(i)
  \/ \E r \in Requests :
       \/ Forward(r) \/ NotAccepted(r) \/ TimesOut(r) \/ Breaks(r)
       \/ Arrives(r) \/ Answers(r) \/ Ends(r)

Spec == Init /\ [][Next]_vars

\* Time passes, clients keep coming, and what is under way ends: the HTTP
\* client has a timeout.
Fairness ==
  /\ WF_vars(Tick)
  /\ \A r \in Requests :
       WF_vars(Forward(r)) /\ WF_vars(TimesOut(r)) /\ WF_vars(Arrives(r)) /\ WF_vars(Ends(r))

FairSpec == Spec /\ Fairness

-----------------------------------------------------------------------------
Codes == {"none", "OWN", "BACKEND", "VALIDATION_ERROR", "SERVICE_UNAVAILABLE",
          "CONNECTION_ERROR", "TIMEOUT_ERROR", "NETWORK_ERROR"}

TypeOK ==
  /\ nacos \in BOOLEAN /\ managed \in BOOLEAN
  /\ life \in [Instances -> {"down", "starting", "up"}] /\ beating \subseteq Instances
  /\ quiet \in [Instances -> 0..Forgotten]
  /\ local \subseteq Instances
  /\ cache \in [list : SUBSET Instances, age : 0..(CacheTtl + 1)]
  /\ index \in Nat
  /\ turn \in [list : SUBSET Instances, seen : SUBSET Instances]
  /\ at \in [Requests -> {"idle", "waiting", "told"}]
  /\ wire \in [Requests -> {0} \cup Instances]
  /\ answer \in [Requests -> [status : Nat, code : Codes]]
  /\ handled \in [Requests -> Nat]

(* A dead instance is forgotten: what is sent to an instance of Nacos's     *)
(* list goes to one Nacos heard of within its own timeout and the lifetime  *)
(* of the gateway's list together, although nothing that stops takes itself *)
(* off the list and no failed call clears it.                               *)
DeadIsForgotten ==
  [][\A r \in Requests :
       (at[r] = "idle" /\ at'[r] = "waiting" /\ Listed # {})
         => quiet[wire'[r]] < BeatTimeout + CacheTtl]_vars

(* Requests, WebSocket connections and token checks share one index, and it *)
(* survives refreshes of the list: of an unchanged list nobody is looked up *)
(* twice in a round.                                                        *)
TurnsAreTaken ==
  [][\A i \in Instances :
       (GetServiceUrl(i) /\ Candidates = turn.list /\ turn.seen # turn.list)
         => i \notin turn.seen]_vars

(* What a client is told is true of what was done: a request is handled at  *)
(* most once, an answer below 400 means it was handled, and the error for a *)
(* connection that was never made means it was not and will not be.         *)
AnswerTells ==
  \A r \in Requests :
    /\ handled[r] <= 1
    /\ (at[r] = "told" /\ answer[r].status < 400) => handled[r] = 1
    /\ (at[r] = "told" /\ answer[r].code = "CONNECTION_ERROR") => handled[r] = 0 /\ wire[r] = 0

(* An instance Nacos goes on listing gets its share: as the list settles,   *)
(* requests reach it again and again, however stale the gateway's list was, *)
(* unless WebSocket connections take its turns for ever, as connections     *)
(* that alternate with requests do.                                         *)
ListedIsServed ==
  \A i \in Instances :
    (/\ <>[](managed /\ nacos /\ i \in Healthy)
     /\ <>[][/\ Healthy' = Healthy /\ ~GatewayRestarts
             /\ ~(LocateSocket /\ HasTurn(i, Candidates))]_vars)
      => []<>(\E r \in Requests : at[r] = "waiting" /\ wire[r] = i)
=============================================================================
