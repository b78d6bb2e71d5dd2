----------------------------- MODULE HostDiscovery -----------------------------
(***************************************************************************)
(* query_available_hosts: page after page of the hosts the hardware API    *)
(* lists, filtered by what host_rec says of them, behind the token cache   *)
(* of external_api_client.py and the circuit breaker every query shares.   *)
(*                                                                         *)
(* One query is followed in full; the other callers of the breaker are     *)
(* queries of which only the calls matter.  A host stands for its          *)
(* hardware_id and for its number in host_rec, and hosts are compared by   *)
(* number.                                                                 *)
(***************************************************************************)
EXTENDS CircuitBreaker, FiniteSets, SequencesExt

CONSTANTS
    Query,      \* the callers that are followed
    Host,       \* hosts the hardware API knows
    Bad,        \* an entry without hardware_id, or malformed
    Lists,      \* what the hardware API may list, in its order
    Limit,      \* entries per request, 10 in the code
    PageSize,   \* page_size of the client
    MaxStuck,   \* max_no_progress, 5 in the code
    MaxPages    \* max_iterations, 100 in the code

ASSUME HostAssumption == Query \subseteq Caller /\ Host \subseteq Nat \ {0} /\ Bad \notin Host
ASSUME ListAssumption == \A l \in Lists : l \in Seq(Host \cup {Bad})
ASSUME LimitAssumption ==
    /\ Limit \in Nat \ {0} /\ PageSize \in Nat \ {0}
    /\ MaxStuck \in Nat \ {0} /\ MaxPages \in Nat /\ MaxStuck <= MaxPages

VARIABLES
    query,      \* the local variables of query_available_hosts
    list,       \* what the hardware API lists
    free,       \* hosts that host_rec has as free, enabled and connected
    token,      \* whether Redis has a token of the hardware API
    steady      \* history: queries during which the list has not changed

outside == <<list, free, token>>
discoveryVars == <<vars, query, outside, steady>>

NoQuery == [step |-> "idle"]

DiscoveryInit ==
    /\ Init
    /\ query = [c \in Query |-> NoQuery]
    /\ list \in Lists /\ free \in SUBSET Host /\ token \in BOOLEAN
    /\ steady = {}

Goto(c, step) == query' = [query EXCEPT ![c].step = step]
Fails(c) == query' = [query EXCEPT ![c] = NoQuery]
Now(c, s) == query[c].step = s

--------------------------------------------------------------------------------
(* The loop over the pages.                                                *)

\* A client asks for the hosts after `last`, its last_id or 0.
Ask(c, last) ==
    /\ query[c].step \in {"idle", "answered"}
    /\ query' = [query EXCEPT ![c] =
                   [step |-> "loop", last |-> last, pages |-> 0, stuck |-> 0, before |-> 0,
                    page |-> {}, seen |-> {}, read |-> FALSE, snap |-> {}, matched |-> {},
                    found |-> <<>>]]
    /\ steady' = steady \cup {c}
    /\ UNCHANGED <<vars, outside>>

Stuck(q) == IF q.pages > 0 /\ Len(q.found) = q.before THEN q.stuck + 1 ELSE 0

\* Mutant: the last page without progress is not waited for.
EnoughEarly(q) == Len(q.found) >= PageSize \/ Stuck(q) >= MaxStuck - 1 \/ q.pages = MaxPages

\* The page of the client is full, or nothing came of several pages.
Enough(q) == Len(q.found) >= PageSize \/ Stuck(q) >= MaxStuck \/ q.pages = MaxPages

LoopEnds(c) ==
    /\ Now(c, "loop") /\ Enough(query[c])
    /\ Goto(c, "answered")
    /\ UNCHANGED <<vars, outside, steady>>

\* The circuit is open: the query fails with 503.
CircuitRejects(c) ==
    /\ Now(c, "loop") /\ ~Enough(query[c])
    /\ state = "OPEN" /\ ~RecoveryOver
    /\ Fails(c)
    /\ UNCHANGED <<vars, outside, steady>>

FetchBegins(c) ==
    /\ Now(c, "loop") /\ ~Enough(query[c])
    /\ BeforeCall(c)
    /\ query' = [query EXCEPT ![c].step = "token", ![c].stuck = Stuck(query[c])]
    /\ UNCHANGED <<outside, steady>>

--------------------------------------------------------------------------------
(* call_external_api, the call the breaker protects.                       *)

\* get_external_api_token: the cache, or a login whose token Redis keeps if it
\* can.  _token_lock does not span the login.
TokenFound(c) ==
    /\ Now(c, "token")
    /\ token' \in IF token THEN {TRUE} ELSE BOOLEAN
    /\ Goto(c, "request")
    /\ UNCHANGED <<vars, list, free, steady>>

\* The login fails or the user has no email: the breaker counts a failure.
TokenRefused(c) ==
    /\ Now(c, "token")
    /\ OnFailure(c)
    /\ Fails(c)
    /\ UNCHANGED <<outside, steady>>

\* http_client.request answers a status for an API that cannot be reached, so
\* that any answer is a success to the breaker.
AnswerIsError(c) ==
    /\ Now(c, "request")
    /\ OnSuccess(c)
    /\ Fails(c)
    /\ UNCHANGED <<outside, steady>>

\* An exception the client does not turn into a status.
RequestRaises(c) ==
    /\ Now(c, "request")
    /\ OnFailure(c)
    /\ Fails(c)
    /\ UNCHANGED <<outside, steady>>

\* The client of the query gives up.
Abandoned(c) ==
    /\ query[c].step \in {"token", "request"}
    /\ Cancelled(c)
    /\ Fails(c)
    /\ UNCHANGED <<outside, steady>>

Page(skip) == ToSet(SubSeq(list, skip + 1, IF Len(list) < skip + Limit THEN Len(list) ELSE skip + Limit))

\* Entries without hardware_id are dropped.  A page without others, or with
\* none that was not seen before, ends the loop.
PageArrives(c) ==
    /\ Now(c, "request")
    /\ OnSuccess(c)
    /\ LET q == query[c]
           page == Page(q.pages * Limit) \ {Bad} IN
       query' = [query EXCEPT ![c] =
                   IF page \subseteq q.seen
                   THEN [q EXCEPT !.step = "answered"]
                   ELSE [q EXCEPT !.step = "filter", !.page = page, !.seen = q.seen \cup page]]
    /\ UNCHANGED <<outside, steady>>

--------------------------------------------------------------------------------
(* _filter_available_hosts_in_session, and the rest of the loop body.      *)

\* All pages of a query are filtered in one transaction, which sees what its
\* first SELECT has seen.
Snapshot(q) == IF q.read THEN q.snap ELSE free

\* Mutant: seen_ids is not consulted.
FreshAll(q, available) == {h \in available : h > q.last}

\* Hosts after the cursor that are not in the answer yet.
Fresh(q, available) == {h \in available : h > q.last} \ ToSet(q.found)

\* Rows come in any order, and the answer is cut at page_size.
Filter(c) ==
    /\ Now(c, "filter")
    /\ LET q == query[c]
           available == q.page \cap Snapshot(q) IN
       \E rows \in SetToSeqs(Fresh(q, available)) :
         LET room == PageSize - Len(q.found)
             added == SubSeq(rows, 1, IF Len(rows) < room THEN Len(rows) ELSE room) IN
         query' = [query EXCEPT ![c] =
                     [q EXCEPT !.step = "loop", !.pages = q.pages + 1, !.before = Len(q.found),
                               !.page = {}, !.read = TRUE, !.snap = Snapshot(q),
                               !.matched = q.matched \cup available, !.found = q.found \o added]]
    /\ UNCHANGED <<vars, outside, steady>>

FilterFails(c) ==
    /\ Now(c, "filter")
    /\ Fails(c)
    /\ UNCHANGED <<vars, outside, steady>>

--------------------------------------------------------------------------------
(* The rest of the world.                                                  *)

\* Hosts are added to the hardware API, removed or sorted otherwise.
ListChanges ==
    /\ list' \in Lists \ {list}
    /\ steady' = {}
    /\ UNCHANGED <<vars, query, free, token>>

HostChanges(h) ==
    /\ free' = IF h \in free THEN free \ {h} ELSE free \cup {h}
    /\ UNCHANGED <<vars, query, list, token, steady>>

TokenExpires ==
    /\ token /\ token' = FALSE
    /\ UNCHANGED <<vars, query, list, free, steady>>

\* Another query calls the hardware API, and Tick.
OtherBegins == \E c \in Caller \ Query : BeforeCall(c) /\ UNCHANGED <<query, outside, steady>>

OtherEnds(c) ==
    /\ OnSuccess(c) \/ OnFailure(c) \/ Cancelled(c)
    /\ UNCHANGED <<query, outside, steady>>

TimePasses == Tick /\ UNCHANGED <<query, outside, steady>>

CallEnding(c) == TokenRefused(c) \/ AnswerIsError(c) \/ RequestRaises(c) \/ PageArrives(c)

QueryNext(c) ==
    \/ LoopEnds(c) \/ CircuitRejects(c) \/ FetchBegins(c) \/ TokenFound(c) \/ CallEnding(c)
    \/ Filter(c) \/ FilterFails(c)

DiscoveryNext ==
    \/ \E c \in Query : QueryNext(c) \/ Abandoned(c) \/ \E last \in Host \cup {0} : Ask(c, last)
    \/ OtherBegins \/ \E c \in Caller \ Query : OtherEnds(c)
    \/ ListChanges \/ TokenExpires \/ TimePasses \/ \E h \in Host : HostChanges(h)

\* As for the breaker alone: calls end, time passes and somebody calls again.
DiscoverySpec ==
    /\ DiscoveryInit /\ [][DiscoveryNext]_discoveryVars
    /\ WF_discoveryVars(TimePasses) /\ WF_discoveryVars(OtherBegins)
    /\ \A c \in Query : WF_discoveryVars(QueryNext(c))
    /\ \A c \in Caller \ Query : WF_discoveryVars(OtherEnds(c))

--------------------------------------------------------------------------------
(* Properties; those of the breaker hold as well.                          *)

\* An answer names a host once, only hosts that were free together at one
\* time, and none of them among its offline hosts, although pages overlap and
\* host_rec changes while the query goes on.
ListedOnce ==
    \A c \in Query : query[c].step # "idle" =>
        LET q == query[c] IN
        /\ IsInjective(q.found)
        /\ ToSet(q.found) \subseteq q.snap \cap q.matched

\* Every page of the list has an entry to go on with, one of no page before.
Readable ==
    \A k \in 0 .. Len(list) : k * Limit < Len(list)
        => ~(Page(k * Limit) \subseteq {Bad} \cup ToSet(SubSeq(list, 1, k * Limit)))

\* An answer shorter than page_size has every free host of the list after the
\* cursor, if the list did not change and is no longer than the pages the loop
\* goes on without progress: no test ends the loop too early.
ShortAnswerIsComplete ==
    \A c \in steady :
        LET q == query[c] IN
        Now(c, "answered") /\ Len(q.found) < PageSize /\ Readable /\ Len(list) <= MaxStuck * Limit
            => {h \in q.snap \cap ToSet(list) : h > q.last} \subseteq ToSet(q.found)

================================================================================
