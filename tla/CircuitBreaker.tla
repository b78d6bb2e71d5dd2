----------------------------- MODULE CircuitBreaker -----------------------------
(***************************************************************************)
(* The circuit breaker of host discovery, in front of the hardware API.    *)
(* Each of its three sections takes an asyncio lock and awaits nothing     *)
(* inside it, so each is one action; the protected call is awaited between *)
(* them, and any number of callers may be inside it.                       *)
(*                                                                         *)
(* The code compares timestamps with time.time().  The model keeps the age *)
(* of a timestamp instead, up to the first value that is past the limit    *)
(* the code compares it with: an unbounded clock then has finitely many    *)
(* states.                                                                 *)
(***************************************************************************)
EXTENDS Naturals, Sequences

CONSTANTS
    Caller,     \* coroutines that query the hardware API
    Threshold,  \* failure_threshold
    Window,     \* failure_window, in ticks
    Recovery    \* recovery_timeout, in ticks

ASSUME BreakerAssumption ==
    /\ Threshold \in Nat \ {0}
    /\ Window \in Nat
    /\ Recovery \in Nat

VARIABLES
    state,      \* CLOSED, OPEN, HALF_OPEN
    failures,   \* failure_timestamps, oldest first, as ages
    opened,     \* age of opened_at
    call,       \* idle, or the state in which the running call was admitted
    streak      \* history: failures in a row since the circuit closed or succeeded

vars == <<state, failures, opened, call, streak>>

Age(limit) == 0 .. limit + 1

TypeOK ==
    /\ state \in {"CLOSED", "OPEN", "HALF_OPEN"}
    /\ failures \in Seq(Age(Window))
    /\ opened \in Age(Recovery)
    /\ call \in [Caller -> {"idle", "CLOSED", "HALF_OPEN"}]
    /\ streak \in 0 .. Threshold

Init ==
    /\ state = "CLOSED"
    /\ failures = << >>
    /\ opened = Recovery + 1
    /\ call = [c \in Caller |-> "idle"]
    /\ streak = 0

--------------------------------------------------------------------------------
Older(age, limit) == IF age > limit THEN age ELSE age + 1

\* Mutant: the transition to half open is missing.
NeverRecovered == FALSE

RecoveryOver == opened > Recovery

\* _before_call; an open circuit that has not waited long enough rejects the
\* call and changes nothing.
BeforeCall(c) ==
    /\ call[c] = "idle"
    /\ \/ /\ state # "OPEN"
          /\ call' = [call EXCEPT ![c] = state]
          /\ UNCHANGED state
       \/ /\ state = "OPEN" /\ RecoveryOver
          /\ state' = "HALF_OPEN"
          /\ call' = [call EXCEPT ![c] = "HALF_OPEN"]
    /\ UNCHANGED <<failures, opened, streak>>

CallEnds(c) ==
    /\ call[c] # "idle"
    /\ call' = [call EXCEPT ![c] = "idle"]

\* Mutant: a success in the closed state keeps the failures.
SuccessKeepsFailures(c) ==
    /\ CallEnds(c)
    /\ state' = IF state = "HALF_OPEN" THEN "CLOSED" ELSE state
    /\ streak' = IF state = "OPEN" THEN streak ELSE 0
    /\ UNCHANGED <<failures, opened>>

\* _on_success: closes a half-open circuit, forgets the failures of a closed
\* one, and is ignored by an open one.
OnSuccess(c) ==
    /\ CallEnds(c)
    /\ IF state = "OPEN"
       THEN UNCHANGED <<state, failures, opened, streak>>
       ELSE /\ state' = "CLOSED"
            /\ failures' = << >>
            /\ streak' = 0
            /\ opened' = IF state = "HALF_OPEN" THEN Recovery + 1 ELSE opened

\* The deque keeps the last Threshold timestamps.
Recorded ==
    LET all == Append(failures, 0)
    IN  IF Len(all) > Threshold THEN Tail(all) ELSE all

\* Mutant: the window is exclusive.
DueExclusive(recorded) == Len(recorded) >= Threshold /\ recorded[1] < Window

\* Threshold failures in a row, the first of them inside the window.
Due(recorded) == Len(recorded) >= Threshold /\ recorded[1] <= Window

\* _on_failure: the circuit opens when it is half open or the failures are
\* due; an open circuit ignores the failure.
OnFailure(c) ==
    /\ CallEnds(c)
    /\ \/ /\ state = "HALF_OPEN" \/ (state = "CLOSED" /\ Due(Recorded))
          /\ state' = "OPEN"
          /\ opened' = 0
          /\ failures' = << >>
       \/ /\ state = "CLOSED" /\ ~Due(Recorded)
          /\ failures' = Recorded
          /\ UNCHANGED <<state, opened>>
       \/ /\ state = "OPEN"
          /\ UNCHANGED <<state, failures, opened>>
    /\ streak' = IF state = "CLOSED" /\ streak < Threshold THEN streak + 1 ELSE streak

\* CancelledError is no Exception: neither section runs.
Cancelled(c) ==
    /\ CallEnds(c)
    /\ UNCHANGED <<state, failures, opened, streak>>

Tick ==
    /\ failures' = [i \in DOMAIN failures |-> Older(failures[i], Window)]
    /\ opened' = Older(opened, Recovery)
    /\ UNCHANGED <<state, call, streak>>

Next ==
    \/ \E c \in Caller : BeforeCall(c) \/ OnSuccess(c) \/ OnFailure(c) \/ Cancelled(c)
    \/ Tick

Spec == Init /\ [][Next]_vars

\* Time passes, a protected call ends (the HTTP client has a timeout), and
\* somebody keeps querying the hardware API.
Fairness ==
    /\ WF_vars(Tick)
    /\ \A c \in Caller : WF_vars(OnSuccess(c) \/ OnFailure(c) \/ Cancelled(c))
    /\ WF_vars(\E c \in Caller : BeforeCall(c))

FairSpec == Spec /\ Fairness

--------------------------------------------------------------------------------
(* Properties.                                                             *)

\* Rule 1, that the circuit does open: a closed circuit is never sitting on
\* Threshold failures in a row whose span, at the last of them, was inside
\* the window.  Ages only grow, so the oldest is past the window.
ClosedIsTolerable ==
    state = "CLOSED" /\ Len(failures) >= Threshold => failures[1] > Window

\* Rule 1, that it does not open early: a closed circuit opens only on
\* Threshold failures since it was closed or last succeeded, although calls
\* admitted before an earlier opening may still end in between.
OpensOnStreak ==
    [][state = "CLOSED" /\ state' = "OPEN" => streak' = Threshold]_vars

\* What the proof of OpensOnStreak needs: the deque holds no failure from
\* before the streak.
FailuresAreStreak == state = "CLOSED" => Len(failures) <= streak

\* Rule 2: an open circuit does not stay open for ever while calls are
\* attempted, whatever the late results of earlier calls do.
OpenRecovers == state = "OPEN" ~> state # "OPEN"

================================================================================
