---------------------------- MODULE InstanceBus ---------------------------
(***************************************************************************)
(* Messages between instances of the host service: send_to_host and        *)
(* broadcast of agent_websocket_manager.py, their publications in Redis    *)
(* and the listener every instance runs.                                   *)
(*                                                                         *)
(* Agents do not interact, so the module follows one.  The connections it  *)
(* makes are numbered; what happens to a connection within one instance is *)
(* AgentWs, of which only registration and removal matter here.  An action *)
(* runs to the next await.                                                 *)
(***************************************************************************)
EXTENDS Naturals, Sequences, FiniteSets

CONSTANTS
  Instance,    \* running copies of the host service
  Broadcasts,  \* messages for every agent
  Unicasts,    \* messages for the agent
  MaxConn      \* bound: connections the agent ever makes

ASSUME DistinctAssumption ==
  Instance \cap (Broadcasts \cup Unicasts) = {} /\ Broadcasts \cap Unicasts = {}
ASSUME ConnAssumption     == MaxConn \in Nat

Message == Broadcasts \cup Unicasts
Task    == Message \cup Instance  \* the coroutine of a sender, and a listener
Conn    == 1..MaxConn

VARIABLES
  reg,    \* active_connections[agent] of each instance, 0 if absent
  conns,  \* connections made so far
  client, \* instances whose RedisManager is connected
  ear,    \* instances whose listener is subscribed
  inbox,  \* what Redis has for each listener
  job,    \* what a coroutine has in hand
  home,   \* the instance a message was handed to
  got,    \* history: copies of a message written to a connection
  moved,  \* history: messages during or since which the agent moved
  lossy   \* history: messages of which Redis or a crash lost a copy

world == <<reg, conns>>
redis == <<client, ear, inbox>>
history == <<got, moved, lossy>>
vars == <<world, redis, job, home, history>>

Idle == [step |-> "idle"]
Over == [step |-> "over"]

At(t) == IF t \in Instance THEN t ELSE home[t]
Begun == {m \in Message : job[m] # Idle}

Init ==
  /\ reg = [i \in Instance |-> 0] /\ conns = 0
  /\ client \in SUBSET Instance /\ ear \in SUBSET client
  /\ inbox = [i \in Instance |-> <<>>]
  /\ job = [t \in Task |-> Idle]
  /\ home \in [Message -> Instance]
  /\ got = [c \in Conn |-> [m \in Message |-> 0]]
  /\ moved = {} /\ lossy = {}

\* The next step of a coroutine with m; the connection is a local variable.
Sending(m, c) == [step |-> "send", msg |-> m, conn |-> c]
Waiting(s, m) == [step |-> s, msg |-> m]

\* What follows when the agent was dealt with.
Then(t) ==
  IF t \in Instance THEN Idle
  ELSE IF t \in Broadcasts THEN Waiting("publish", t) ELSE Over

-----------------------------------------------------------------------------
(* send_to_host and broadcast. *)

\* send_to_host: the agent is here, or its message goes to Redis.
SendToHost(i, m) == IF reg[i] # 0 THEN Sending(m, reg[i]) ELSE Waiting("fallback", m)

\* broadcast gathers a coroutine per agent it finds; Started is its first step.
Submit(m) ==
  /\ job[m] = Idle
  /\ job' = [job EXCEPT ![m] = IF m \in Unicasts THEN SendToHost(home[m], m)
                               ELSE IF reg[home[m]] # 0 THEN Waiting("start", m)
                               ELSE Waiting("publish", m)]
  /\ UNCHANGED <<world, redis, home, history>>

\* _send_to_host_safe: in between the agent may have left.
Started(t) ==
  /\ job[t].step = "start"
  /\ job' = [job EXCEPT ![t] = SendToHost(At(t), job[t].msg)]
  /\ UNCHANGED <<world, redis, home, history>>

\* send_json returns; nobody knows whether the message arrives.
Sent(t) ==
  /\ job[t].step = "send"
  /\ LET m == job[t].msg
         c == job[t].conn IN
       \/ got' = [got EXCEPT ![c][m] = @ + 1] /\ UNCHANGED lossy
       \/ lossy' = lossy \cup {m} /\ UNCHANGED got
  /\ job' = [job EXCEPT ![t] = Then(t)]
  /\ UNCHANGED <<world, redis, home, moved>>

\* send_json raises: disconnect removes whatever connection is registered now.
SendFails(t) ==
  /\ job[t].step = "send"
  /\ reg' = [reg EXCEPT ![At(t)] = 0]
  /\ moved' = Begun
  /\ job' = [job EXCEPT ![t] = Then(t)]
  /\ UNCHANGED <<conns, redis, home, got, lossy>>

\* Mutant: a publication is repeated whose answer does not come.
PublishedTwice(m, kind, from) ==
  LET item == [kind |-> kind, from |-> from, msg |-> m] IN
    /\ inbox' = [i \in Instance |-> IF i \in ear THEN inbox[i] \o <<item, item>> ELSE inbox[i]]
    /\ lossy' = IF ear = Instance THEN lossy ELSE lossy \cup {m}

\* Redis hands a publication to whoever is subscribed, its publisher included.
\* Without a client nothing is published.
Published(m, kind, from) ==
  \/ /\ from \in client
     /\ inbox' = [i \in Instance |->
                    IF i \in ear THEN Append(inbox[i], [kind |-> kind, from |-> from, msg |-> m])
                                 ELSE inbox[i]]
     /\ lossy' = IF ear = Instance THEN lossy ELSE lossy \cup {m}
  \/ inbox' = inbox /\ lossy' = lossy \cup {m}

\* _send_to_host_cross_instance.
FallsBack(t) ==
  /\ job[t].step = "fallback"
  /\ Published(job[t].msg, "unicast", At(t))
  /\ job' = [job EXCEPT ![t] = Then(t)]
  /\ UNCHANGED <<world, client, ear, home, got, moved>>

\* _publish_broadcast_to_redis.
Publish(m) ==
  /\ job[m].step = "publish"
  /\ Published(m, "broadcast", home[m])
  /\ job' = [job EXCEPT ![m] = Over]
  /\ UNCHANGED <<world, client, ear, home, got, moved>>

-----------------------------------------------------------------------------
(* _redis_pubsub_listener: one message after the other. *)

\* Mutant: publications of the instance itself are not recognised.
HearAll(i, item) ==
  IF reg[i] = 0 THEN Idle
  ELSE IF item.kind = "unicast" THEN Sending(item.msg, reg[i]) ELSE Waiting("start", item.msg)

\* Mutant: a unicast that finds no agent goes out again, as from send_to_host.
HearEchoes(i, item) ==
  IF item.from = i THEN Idle
  ELSE IF item.kind = "unicast" THEN SendToHost(i, item.msg)
  ELSE IF reg[i] = 0 THEN Idle ELSE Waiting("start", item.msg)

\* _send_to_host_local_only.
HearUnicast(i, m) == IF reg[i] = 0 THEN Idle ELSE Sending(m, reg[i])

\* _broadcast_local_only gathers a coroutine per agent, as broadcast does.
HearBroadcast(i, m) == IF reg[i] = 0 THEN Idle ELSE Waiting("start", m)

\* _handle_redis_broadcast_message and _handle_redis_unicast_message.
Hear(i, item) ==
  IF item.from = i THEN Idle
  ELSE IF item.kind = "unicast" THEN HearUnicast(i, item.msg)
  ELSE HearBroadcast(i, item.msg)

Listen(i) ==
  /\ i \in ear /\ job[i] = Idle /\ inbox[i] # <<>>
  /\ job' = [job EXCEPT ![i] = Hear(i, Head(inbox[i]))]
  /\ inbox' = [inbox EXCEPT ![i] = Tail(@)]
  /\ UNCHANGED <<world, client, ear, home, history>>

InboxMessages(i) == {inbox[i][n].msg : n \in DOMAIN inbox[i]}

\* pubsub.listen raises, and nobody starts the listener again.
ListenerDies(i) ==
  /\ i \in ear /\ job[i] = Idle
  /\ ear' = ear \ {i}
  /\ inbox' = [inbox EXCEPT ![i] = <<>>]
  /\ lossy' = lossy \cup InboxMessages(i)
  /\ UNCHANGED <<world, client, job, home, got, moved>>

-----------------------------------------------------------------------------
(* The agent, and crashes. *)

\* The instance an agent left keeps its old connection until it notices.
Connect(i) ==
  /\ conns < MaxConn
  /\ conns' = conns + 1
  /\ reg' = [reg EXCEPT ![i] = conns']
  /\ moved' = Begun
  /\ UNCHANGED <<redis, job, home, got, lossy>>

Disconnect(i) ==
  /\ reg[i] # 0
  /\ reg' = [reg EXCEPT ![i] = 0]
  /\ moved' = Begun
  /\ UNCHANGED <<conns, redis, job, home, got, lossy>>

HeldAt(i) == {m \in Message : \E t \in Task : At(t) = i /\ job[t].step \notin {"idle", "over"}
                                                /\ job[t].msg = m}

\* RedisManager.connect is tried once, at the start; a Redis that does not
\* answer then is never asked again.
ConnectRedis(i) == client' \in {client \cup {i}, client \ {i}}

\* The instance stops and starts again.  Without a client there is no listener,
\* and a subscription that fails ends it.
Restart(i) ==
  /\ reg' = [reg EXCEPT ![i] = 0]
  /\ ConnectRedis(i)
  /\ ear' \in {ear \ {i}, (ear \cup {i}) \cap client'}
  /\ inbox' = [inbox EXCEPT ![i] = <<>>]
  /\ job' = [t \in Task |-> IF At(t) = i /\ t \in Begun THEN Over
                            ELSE IF t = i THEN Idle ELSE job[t]]
  /\ moved' = Begun
  /\ lossy' = lossy \cup InboxMessages(i) \cup HeldAt(i)
  /\ UNCHANGED <<conns, home, got>>

TaskNext(t) == Started(t) \/ Sent(t) \/ SendFails(t) \/ FallsBack(t)

Next ==
  \/ \E m \in Message : Submit(m) \/ Publish(m)
  \/ \E t \in Task : TaskNext(t)
  \/ \E i \in Instance : Listen(i) \/ ListenerDies(i) \/ Connect(i) \/ Disconnect(i) \/ Restart(i)

Spec == Init /\ [][Next]_vars

\* Coroutines go on and listeners listen; nobody owes a message, a connection
\* or a living listener.
Fairness ==
  /\ \A t \in Task : WF_vars(TaskNext(t))
  /\ \A m \in Message : WF_vars(Publish(m))
  /\ \A i \in Instance : WF_vars(Listen(i))

FairSpec == Spec /\ Fairness

-----------------------------------------------------------------------------
Job ==
  {Idle, Over}
    \cup [step : {"start", "fallback", "publish"}, msg : Message]
    \cup [step : {"send"}, msg : Message, conn : Conn]

Item == [kind : {"unicast", "broadcast"}, from : Instance, msg : Message]

TypeOK ==
  /\ reg \in [Instance -> {0} \cup Conn] /\ conns \in {0} \cup Conn
  /\ client \subseteq Instance /\ ear \subseteq client /\ inbox \in [Instance -> Seq(Item)]
  /\ job \in [Task -> Job] /\ home \in [Message -> Instance]
  /\ got \in [Conn -> [Message -> Nat]]
  /\ moved \subseteq Message /\ lossy \subseteq Message

\* Nobody has the message in hand any more.
Settled(m) ==
  /\ job[m] = Over
  /\ \A i \in Instance : /\ job[i].step \notin {"idle", "over"} => job[i].msg # m
                         /\ m \notin InboxMessages(i)

\* Whom a message reaches while nobody moves.
Receivers(m) ==
  IF m \in Unicasts /\ reg[home[m]] # 0
    THEN {reg[home[m]]}
    ELSE {reg[i] : i \in Instance} \ {0}

(* A message that nobody lost reaches an agent that stays where it is       *)
(* exactly once: on the one connection of its instance or, when it is known *)
(* at several, on each for a broadcast and on that of the sender for a      *)
(* unicast.  Sender, listeners and the fallback of send_to_host divide the  *)
(* work without a word between them.                                        *)
ExactlyOnce ==
  \A m \in Message \ moved : \A c \in Conn :
    /\ got[c][m] <= (IF m \in Begun /\ c \in Receivers(m) THEN 1 ELSE 0)
    /\ (Settled(m) /\ m \notin lossy /\ c \in Receivers(m)) => got[c][m] = 1

(* However often the agent moves, whatever fails or restarts: no connection *)
(* is sent a message for one agent twice.  (A broadcast may be, by the      *)
(* fallback of an instance the agent has just left.)                        *)
UnicastOnce == \A m \in Unicasts, c \in Conn : got[c][m] <= 1

(* A message comes to rest, whoever loses it on the way: no two instances   *)
(* hand it to each other for ever.                                          *)
Settles == \A m \in Message : job[m] # Idle ~> Settled(m)
=============================================================================
