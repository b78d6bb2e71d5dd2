---------------------------- MODULE CaseTimeout ---------------------------
(***************************************************************************)
(* The mail about a test case that takes too long: _check_timeout_cases of *)
(* case_timeout_task.py on every instance that runs the task, over the     *)
(* rows of host_exec_log.                                                  *)
(*                                                                         *)
(* A round queries the overdue logs, oldest first, then deals with one     *)
(* after the other: it reads the host, sends a mail and marks the log.     *)
(* What the round read may have changed by then, and the service may stop  *)
(* anywhere.  The check of VNC connections in the same task is HostLease.  *)
(***************************************************************************)
EXTENDS Naturals, FiniteSets

CONSTANTS
  Instance,  \* instances of the host service that run the task
  MaxLog,    \* logs, numbered in the order of begin_time
  Hostless,  \* logs without a host_id
  Limit,     \* LIMIT of the query
  MaxMail,   \* bound: mails an instance sends about one log
  MaxLost    \* bound: mails an instance sends about one log without marking it

CaseLog == 1..MaxLog

ASSUME BoundAssumption == MaxLog \in Nat /\ MaxMail \in Nat /\ MaxLost \in Nat

\* Logs without a host are never marked, so they have to leave room.
ASSUME LimitAssumption == Limit \in Nat /\ Hostless \subseteq CaseLog /\ Cardinality(Hostless) < Limit

VARIABLES
  log,    \* what matters of a row: running, late, notified
  hosted, \* logs whose host exists
  conf,   \* rows of sys_conf: the limit in minutes, the recipients
  task,   \* what the task of an instance has in hand
  told,   \* history: mails an instance has sent about a log
  lost,   \* history: of which it did not mark the log, or lost the mark
  silent  \* history: logs marked because their host is gone

rows == <<log, hosted, conf>>
history == <<told, lost, silent>>
mailVars == <<rows, task, history>>

\* A row that is disabled is not found by the task; a limit that Redis still
\* caches counts as configured.
Conf == [minutes : BOOLEAN, email : {"absent", "enabled", "disabled"}]

Off     == [step |-> "off"]
Asleep  == [step |-> "asleep"]
Round(l) == [step |-> "round", left |-> l]

MailInit ==
  /\ log = [l \in CaseLog |-> [running |-> TRUE, late |-> FALSE, notified |-> FALSE]]
  /\ hosted = CaseLog \ Hostless
  /\ conf \in Conf
  /\ task = [i \in Instance |-> Asleep]
  /\ told = [i \in Instance |-> [l \in CaseLog |-> 0]]
  /\ lost = [i \in Instance |-> [l \in CaseLog |-> 0]]
  /\ silent = {}

Least(S) == CHOOSE l \in S : \A k \in S : l <= k

-----------------------------------------------------------------------------
(* A round. *)

\* Mutant: marked logs are found again.
OverdueAll == {l \in CaseLog : log[l].running /\ log[l].late}

\* case_state < 2, not deleted, not notified, due_time or the limit is past.
Overdue == {l \in CaseLog : log[l].running /\ log[l].late /\ ~log[l].notified}

\* Nothing to do, or nothing configured; also a query or a setting that fails.
Nothing(i) == task' = [task EXCEPT ![i] = Asleep]

RoundBegins(i) ==
  /\ task[i] = Asleep
  /\ LET found == {l \in Overdue : Cardinality({k \in Overdue : k < l}) < Limit} IN
       \/ /\ conf.minutes /\ found # {}
          /\ task' = [task EXCEPT ![i] = Round(found)]
       \/ Nothing(i)
  /\ UNCHANGED <<rows, history>>

\* Mutant: a log without a host ends the round.
AfterHostless(i, left) == Asleep

\* Mutant: a round does not end.
AfterAlways(i, left) == Round(left)

\* The next log, or the end of the round.
After(i, left) == IF left = {} THEN Asleep ELSE Round(left)

Current(i) == Least(task[i].left)
Rest(i) == task[i].left \ {Current(i)}

\* A log without host_id, no recipients, no mail server, no database: the log
\* is left for the next round.
Skips(i) ==
  /\ task[i].step = "round"
  /\ task' = [task EXCEPT ![i] = After(i, Rest(i))]
  /\ UNCHANGED <<rows, history>>

\* The host is deleted: the log is marked without a mail.
MarksSilently(i) ==
  /\ task[i].step = "round"
  /\ LET l == Current(i) IN
       /\ l \notin hosted \cup Hostless
       /\ log' = [log EXCEPT ![l].notified = TRUE]
       /\ silent' = silent \cup {l}
  /\ task' = [task EXCEPT ![i] = After(i, Rest(i))]
  /\ UNCHANGED <<hosted, conf, told, lost>>

\* Mutant: the log is marked before the mail is sent.
MailsMarked(i, l) ==
  \/ told' = [told EXCEPT ![i][l] = @ + 1] /\ UNCHANGED log
  \/ log' = [log EXCEPT ![l].notified = TRUE] /\ UNCHANGED told

\* At least one recipient was reached.
Mailed(i, l) == told' = [told EXCEPT ![i][l] = @ + 1] /\ UNCHANGED log

Mails(i) ==
  /\ task[i].step = "round"
  /\ LET l == Current(i) IN
       /\ l \in hosted /\ conf.email = "enabled" /\ told[i][l] < MaxMail
       /\ Mailed(i, l)
       /\ task' = [task EXCEPT ![i] = [step |-> "mark", log |-> l, left |-> Rest(i)]]
  /\ UNCHANGED <<hosted, conf, lost, silent>>

\* The mail is out, but its answer or the goodbye to the mail server fails: it
\* counts as failed, and the log is left for the next round.
MailTakenForFailed(i) ==
  /\ task[i].step = "round"
  /\ LET l == Current(i) IN
       /\ l \in hosted /\ conf.email = "enabled" /\ told[i][l] < MaxMail /\ lost[i][l] < MaxLost
       /\ Mailed(i, l)
       /\ lost' = [lost EXCEPT ![i][l] = @ + 1]
  /\ task' = [task EXCEPT ![i] = After(i, Rest(i))]
  /\ UNCHANGED <<hosted, conf, silent>>

Marks(i) ==
  /\ task[i].step = "mark"
  /\ log' = [log EXCEPT ![task[i].log].notified = TRUE]
  /\ task' = [task EXCEPT ![i] = After(i, task[i].left)]
  /\ UNCHANGED <<hosted, conf, history>>

\* The update or its commit fails; the exception is caught.
MarkFails(i) ==
  /\ task[i].step = "mark" /\ lost[i][task[i].log] < MaxLost
  /\ lost' = [lost EXCEPT ![i][task[i].log] = @ + 1]
  /\ task' = [task EXCEPT ![i] = After(i, task[i].left)]
  /\ UNCHANGED <<rows, told, silent>>

\* stop() cancels the task, or the service dies.
Stops(i) ==
  /\ task[i] # Off
  /\ \/ task[i].step # "mark" /\ UNCHANGED lost
     \/ /\ task[i].step = "mark" /\ lost[i][task[i].log] < MaxLost
        /\ lost' = [lost EXCEPT ![i][task[i].log] = @ + 1]
  /\ task' = [task EXCEPT ![i] = Off]
  /\ UNCHANGED <<rows, told, silent>>

\* start(): the next round begins from the database.
Starts(i) ==
  /\ task[i] = Off
  /\ task' = [task EXCEPT ![i] = Asleep]
  /\ UNCHANGED <<rows, history>>

-----------------------------------------------------------------------------
(* The other handlers. *)

\* Time passes due_time or the limit; update_due_time puts it off.
BecomesLate(l) ==
  /\ log[l].running
  /\ log' = [log EXCEPT ![l].late = ~@]
  /\ UNCHANGED <<hosted, conf, task, history>>

\* The result of the test case arrives, or the log is deleted.
Ends(l) ==
  /\ log' = [log EXCEPT ![l].running = FALSE]
  /\ UNCHANGED <<hosted, conf, task, history>>

HostDeleted(l) ==
  /\ l \in hosted
  /\ hosted' = hosted \ {l}
  /\ UNCHANGED <<log, conf, task, history>>

\* set_maintain_email: the first row that is not deleted gets the addresses, and
\* stays disabled if it was.
SetMaintainEmail ==
  /\ conf' = IF conf.email = "absent" THEN [conf EXCEPT !.email = "enabled"] ELSE conf
  /\ UNCHANGED <<log, hosted, task, history>>

\* What has no handler: rows edited in the database.
Configured ==
  /\ conf' \in Conf
  /\ UNCHANGED <<log, hosted, task, history>>

TaskNext(i) == RoundBegins(i) \/ Skips(i) \/ MarksSilently(i) \/ Mails(i) \/ Marks(i)

MailNext ==
  \/ \E i \in Instance :
       TaskNext(i) \/ MailTakenForFailed(i) \/ MarkFails(i) \/ Stops(i) \/ Starts(i)
  \/ \E l \in CaseLog : BecomesLate(l) \/ Ends(l) \/ HostDeleted(l)
  \/ SetMaintainEmail \/ Configured

MailSpec == MailInit /\ [][MailNext]_mailVars

\* The loop goes on.  A query, a mail and a commit that are tried again and
\* again succeed at some time.
Finds(i) == RoundBegins(i) /\ task'[i] # Asleep
At(i, l) == task[i].step = "round" /\ Current(i) = l

Fairness ==
  \A i \in Instance :
    /\ WF_mailVars(TaskNext(i)) /\ SF_mailVars(Finds(i))
    /\ \A l \in CaseLog : SF_mailVars(At(i, l) /\ (Mails(i) \/ MarksSilently(i)))

FairMailSpec == MailSpec /\ Fairness

-----------------------------------------------------------------------------
Task ==
  {Off, Asleep}
    \cup [step : {"round"}, left : (SUBSET CaseLog) \ {{}}]
    \cup [step : {"mark"}, log : CaseLog, left : SUBSET CaseLog]

MailTypeOK ==
  /\ log \in [CaseLog -> [running : BOOLEAN, late : BOOLEAN, notified : BOOLEAN]]
  /\ hosted \subseteq CaseLog \ Hostless /\ conf \in Conf
  /\ task \in [Instance -> Task]
  /\ told \in [Instance -> [CaseLog -> 0..MaxMail]] /\ lost \in [Instance -> [CaseLog -> 0..MaxLost]]
  /\ silent \subseteq CaseLog

(* A log is marked only after a mail about it, or without a host: no stop   *)
(* between the two steps loses a notification.                              *)
MarkedIsTold ==
  \A l \in CaseLog : log[l].notified => l \in silent \/ \E i \in Instance : told[i][l] > 0

(* An instance mails about a log once, and once more only for a mail it took *)
(* for failed, a mark it could not commit or a stop before the mark,        *)
(* whatever other instances do.  It promises no more: instances that found  *)
(* a log before it was marked each mail about it.                           *)
EachTellsOnce == \A i \in Instance, l \in CaseLog : told[i][l] <= 1 + lost[i][l]

(* A case that stays overdue is notified in the end if one instance stays   *)
(* up and the task stays configured, whatever else fails or stops: cases    *)
(* that cannot be notified keep no other out of the query or the round.     *)
OverdueIsTold ==
  \A l \in CaseLog \ Hostless, i \in Instance :
    <>[](task[i] # Off /\ log[l].running /\ log[l].late /\ conf.minutes /\ conf.email = "enabled")
      => <>log[l].notified
=============================================================================
