-------------------------- MODULE InstanceBusProofs -------------------------
(***************************************************************************)
(* A message between instances reaches an agent that stays where it is     *)
(* exactly once, for every set of instances and of messages.               *)
(*                                                                         *)
(* The invariant follows the copies of one message.  While the agent does  *)
(* not move, an instance other than the sender's has the message in its    *)
(* inbox, or in the hand of its listener, or written to its connection, or *)
(* somebody lost it; and it has it only once.                              *)
(***************************************************************************)
EXTENDS InstanceBus, TLAPS

Mentions(s, m) == \E n \in DOMAIN s : s[n].msg = m
Single(s, m) == \A j, k \in DOMAIN s : s[j].msg = m /\ s[k].msg = m => j = k

\* Publications of m say what it is and where it comes from.
Labelled(s, m, from) ==
  \A n \in DOMAIN s :
    s[n].msg = m => s[n].from = from /\ (s[n].kind = "unicast" <=> m \in Unicasts)

InHand(i, m) == job[i].step \notin {"idle", "over"} /\ job[i].msg = m

\* A unicast for an agent that is connected where it comes from is not published.
IsOut(m) == job[m] = Over /\ ~(m \in Unicasts /\ reg[home[m]] # 0)

\* Nobody has heard of a message that is not submitted.
Untouched(m) ==
  /\ \A i \in Instance : ~Mentions(inbox[i], m) /\ ~InHand(i, m)
  /\ \A c \in Conn : got[c][m] = 0

\* The coroutine of the sender.
AtHome(m) ==
  \/ job[m] = Waiting("start", m) /\ m \in Broadcasts /\ reg[home[m]] # 0
  \/ job[m] = Sending(m, reg[home[m]]) /\ reg[home[m]] # 0
  \/ job[m] = Waiting("publish", m) /\ m \in Broadcasts
  \/ job[m] = Waiting("fallback", m) /\ m \in Unicasts /\ reg[home[m]] = 0
  \/ job[m] = Over

\* The connection of the sender's instance.
HomeServed(m) ==
  reg[home[m]] # 0 =>
    IF job[m].step \in {"start", "send"}
      THEN got[reg[home[m]]][m] = 0
      ELSE got[reg[home[m]]][m] <= 1 /\ (m \notin lossy => got[reg[home[m]]][m] = 1)

\* The inbox and the listener of an instance.
Heard(i, m) ==
  /\ Single(inbox[i], m) /\ Labelled(inbox[i], m, home[m])
  /\ Mentions(inbox[i], m) => IsOut(m)
  /\ InHand(i, m) =>
       /\ IsOut(m) /\ ~Mentions(inbox[i], m) /\ i # home[m] /\ reg[i] # 0
       /\ job[i] = Waiting("start", m) \/ job[i] = Sending(m, reg[i])

\* The connection of another instance.
Served(i, m) ==
  reg[i] # 0 =>
    /\ got[reg[i]][m] <= 1
    /\ got[reg[i]][m] = 1 => IsOut(m) /\ ~Mentions(inbox[i], m) /\ ~InHand(i, m)
    /\ IsOut(m) /\ m \notin lossy =>
         Mentions(inbox[i], m) \/ InHand(i, m) \/ got[reg[i]][m] = 1

Tracked(m) ==
  /\ AtHome(m) /\ HomeServed(m)
  /\ \A i \in Instance : Heard(i, m)
  /\ \A i \in Instance : i # home[m] => Served(i, m)
  /\ \A c \in Conn : (\A i \in Instance : reg[i] # c) => got[c][m] = 0

Fate(m) ==
  /\ job[m] = Idle => Untouched(m)
  /\ job[m] # Idle /\ m \notin moved => Tracked(m)

Distinct ==
  /\ \A i \in Instance : reg[i] <= conns
  /\ \A i, j \in Instance : reg[i] = reg[j] /\ reg[i] # 0 => i = j

\* A coroutine of a sender deals with its own message.
OwnMessage == \A m \in Message : job[m].step \notin {"idle", "over"} => job[m].msg = m

BusInv ==
  /\ TypeOK /\ Distinct /\ OwnMessage /\ moved \subseteq Begun
  /\ \A m \in Message : Fate(m)

-----------------------------------------------------------------------------
(* What an inbox says about a message.                                       *)

LEMMA Appended ==
    ASSUME NEW s \in Seq(Item), NEW item \in Item, NEW m, NEW from
    PROVE  /\ Mentions(Append(s, item), m) <=> Mentions(s, m) \/ item.msg = m
           /\ Single(s, m) /\ (item.msg = m => ~Mentions(s, m)) => Single(Append(s, item), m)
           /\ /\ Labelled(s, m, from)
              /\ item.msg = m => item.from = from /\ (item.kind = "unicast" <=> m \in Unicasts)
              => Labelled(Append(s, item), m, from)
<1> DEFINE t == Append(s, item)
<1>1. DOMAIN s = 1 .. Len(s) /\ DOMAIN t = 1 .. Len(s) + 1 /\ Len(s) \in Nat
  OBVIOUS
<1>2. (\A n \in DOMAIN s : n \in DOMAIN t /\ t[n] = s[n]) /\ t[Len(s) + 1] = item
  OBVIOUS
<1>3. \A n \in DOMAIN t : n \in DOMAIN s \/ n = Len(s) + 1
  BY <1>1
<1>4. Len(s) + 1 \in DOMAIN t
  BY <1>1
<1> HIDE DEF t
<1>5. Mentions(t, m) <=> Mentions(s, m) \/ item.msg = m
  BY <1>2, <1>3, <1>4 DEF Mentions
<1>6. Single(s, m) /\ (item.msg = m => ~Mentions(s, m)) => Single(t, m)
  BY <1>2, <1>3, <1>4 DEF Single, Mentions
<1>7. /\ Labelled(s, m, from)
      /\ item.msg = m => item.from = from /\ (item.kind = "unicast" <=> m \in Unicasts)
      => Labelled(t, m, from)
  BY <1>2, <1>3 DEF Labelled
<1> QED BY <1>5, <1>6, <1>7 DEF t

LEMMA Taken ==
    ASSUME NEW s \in Seq(Item), s # <<>>, NEW m, NEW from, Single(s, m), Labelled(s, m, from)
    PROVE  /\ Head(s) \in Item /\ Tail(s) \in Seq(Item)
           /\ Head(s).msg = m => /\ Mentions(s, m) /\ ~Mentions(Tail(s), m)
                                 /\ Head(s).from = from
                                 /\ Head(s).kind = "unicast" <=> m \in Unicasts
           /\ Head(s).msg # m => (Mentions(Tail(s), m) <=> Mentions(s, m))
           /\ Single(Tail(s), m) /\ Labelled(Tail(s), m, from)
<1> DEFINE t == Tail(s)
<1>1. /\ Len(s) \in Nat /\ Len(s) >= 1
      /\ DOMAIN s = 1 .. Len(s) /\ DOMAIN t = 1 .. Len(s) - 1
      /\ Head(s) = s[1] /\ Head(s) \in Item /\ t \in Seq(Item)
  OBVIOUS
<1>2. \A n \in DOMAIN t : n \in Nat /\ n + 1 \in DOMAIN s /\ n + 1 # 1 /\ t[n] = s[n + 1]
  OBVIOUS
<1>3. \A n \in DOMAIN s : n = 1 \/ \E k \in DOMAIN t : n = k + 1
  <2>1. \A n \in DOMAIN s : n # 1 => n - 1 \in DOMAIN t /\ n = (n - 1) + 1
    BY <1>1
  <2> QED BY <2>1
<1>4. 1 \in DOMAIN s
  BY <1>1
<1> HIDE DEF t
<1>5. ASSUME Head(s).msg = m
      PROVE  /\ Mentions(s, m) /\ ~Mentions(t, m)
             /\ Head(s).from = from /\ (Head(s).kind = "unicast" <=> m \in Unicasts)
  BY <1>1, <1>2, <1>4, <1>5 DEF Mentions, Single, Labelled
<1>6. ASSUME Head(s).msg # m PROVE Mentions(t, m) <=> Mentions(s, m)
  BY <1>1, <1>2, <1>3, <1>6 DEF Mentions
<1>7. \A j, k \in DOMAIN t : j + 1 = k + 1 => j = k
  BY <1>2
<1>8. Single(t, m)
  BY <1>2, <1>7 DEF Single
<1>9. Labelled(t, m, from)
  BY <1>2 DEF Labelled
<1> QED BY <1>1, <1>5, <1>6, <1>8, <1>9 DEF t

LEMMA Emptied ==
    ASSUME NEW m, NEW from
    PROVE  ~Mentions(<<>>, m) /\ Single(<<>>, m) /\ Labelled(<<>>, m, from) /\ <<>> \in Seq(Item)
BY DEF Mentions, Single, Labelled

-----------------------------------------------------------------------------
(* A step that is not about m.                                               *)

LEMMA Unaffected ==
    ASSUME NEW m \in Message, Fate(m), m \notin moved', UNCHANGED <<reg, home, moved>>,
           job'[m] = job[m],
           \A i \in Instance :
             /\ InHand(i, m)' <=> InHand(i, m)
             /\ InHand(i, m) => job'[i] = job[i]
             /\ Mentions(inbox'[i], m) => Mentions(inbox[i], m)
             /\ Mentions(inbox[i], m) /\ ~Mentions(inbox'[i], m) => m \in lossy'
             /\ Single(inbox[i], m) => Single(inbox'[i], m)
             /\ Labelled(inbox[i], m, home[m]) => Labelled(inbox'[i], m, home[m]),
           \A c \in Conn : got'[c][m] = got[c][m],
           m \in lossy => m \in lossy',
           reg \in [Instance -> {0} \cup Conn], home \in [Message -> Instance]
    PROVE  Fate(m)'
<1>1. CASE job[m] = Idle
  BY <1>1 DEF Fate, Untouched
<1>2. CASE job[m] # Idle
  <2>1. Tracked(m)
    BY <1>2 DEF Fate
  <2>2. IsOut(m)' <=> IsOut(m)
    BY DEF IsOut
  <2>3. AtHome(m)'
    BY <2>1 DEF Tracked, AtHome
  <2>4. home[m] \in Instance /\ \A i \in Instance : reg[i] # 0 => reg[i] \in Conn
    OBVIOUS
  <2>5. HomeServed(m)'
    BY <2>1, <2>4 DEF Tracked, HomeServed
  <2>6. ASSUME NEW i \in Instance PROVE Heard(i, m)'
    BY <2>1, <2>2 DEF Tracked, Heard
  <2>7. ASSUME NEW i \in Instance, i # home[m] PROVE Served(i, m)'
    BY <2>1, <2>2, <2>4, <2>7 DEF Tracked, Served
  <2>8. \A c \in Conn : (\A i \in Instance : reg'[i] # c) => got'[c][m] = 0
    BY <2>1 DEF Tracked
  <2>9. job'[m] # Idle
    BY <1>2
  <2> QED BY <2>3, <2>5, <2>6, <2>7, <2>8, <2>9 DEF Fate, Tracked
<1> QED BY <1>1, <1>2

\* A message during which the agent moved is followed no further.
LEMMA Abandoned == ASSUME NEW m \in Message, m \in moved', job'[m] # Idle PROVE Fate(m)'
BY DEF Fate

-----------------------------------------------------------------------------
(* What a coroutine may have in hand.                                        *)

LEMMA Kinds ==
    /\ Idle.step = "idle" /\ Over.step = "over"
    /\ \A s, m : Waiting(s, m).step = s /\ Waiting(s, m).msg = m
    /\ \A m, c : Sending(m, c).step = "send" /\ Sending(m, c).msg = m /\ Sending(m, c).conn = c
BY DEF Idle, Over, Waiting, Sending

LEMMA Coroutines ==
    ASSUME TypeOK, NEW t \in Task
    PROVE  /\ At(t) \in Instance /\ job[t] \in Job
           /\ job[t].step \notin {"idle", "over"} => job[t].msg \in Message
           /\ job[t].step = "send" => job[t].conn \in Conn
           /\ t \in Instance \/ t \in Message
           /\ t \in Instance => t \notin Message /\ At(t) = t
           /\ t \in Message => t \notin Instance /\ At(t) = home[t]
<1>1. job[t] \in Job
  BY DEF TypeOK
<1>2. t \in Instance => t \notin Message
  BY DistinctAssumption DEF Message
<1>3. At(t) \in Instance
  BY DEF At, TypeOK, Task
<1> QED BY <1>1, <1>2, <1>3 DEF Job, Idle, Over, At, Task

LEMMA Jobs ==
    /\ Idle \in Job /\ Over \in Job
    /\ \A m \in Message, s \in {"start", "fallback", "publish"} : Waiting(s, m) \in Job
    /\ \A m \in Message, c \in Conn : Sending(m, c) \in Job
BY DEF Job, Idle, Over, Waiting, Sending

LEMMA SendsToHost ==
    ASSUME TypeOK, NEW i \in Instance, NEW m \in Message
    PROVE  /\ SendToHost(i, m) \in Job
           /\ SendToHost(i, m).step \in {"send", "fallback"} /\ SendToHost(i, m).msg = m
           /\ reg[i] # 0 => SendToHost(i, m) = Sending(m, reg[i])
           /\ reg[i] = 0 => SendToHost(i, m) = Waiting("fallback", m)
<1>1. reg[i] # 0 => reg[i] \in Conn
  BY DEF TypeOK
<1> QED BY <1>1, Kinds, Jobs DEF SendToHost

LEMMA Thens ==
    ASSUME NEW t \in Task
    PROVE  /\ Then(t) \in Job
           /\ t \in Instance => Then(t) = Idle
           /\ t \in Message => \/ t \in Broadcasts /\ Then(t) = Waiting("publish", t)
                               \/ t \in Unicasts /\ Then(t) = Over
<1>1. t \in Broadcasts => t \in Message /\ t \notin Instance /\ t \notin Unicasts
  BY DistinctAssumption DEF Message
<1>2. t \in Message => t \notin Instance /\ (t \in Broadcasts \/ t \in Unicasts)
  BY DistinctAssumption DEF Message
<1> QED BY <1>1, <1>2, Jobs DEF Then, Task

\* What a step leaves in the inboxes about a message it is not about.
InboxKeeps(m) ==
  /\ m \in lossy => m \in lossy'
  /\ \A i \in Instance :
       /\ Mentions(inbox'[i], m) => Mentions(inbox[i], m)
       /\ Mentions(inbox[i], m) /\ ~Mentions(inbox'[i], m) => m \in lossy'
       /\ Single(inbox[i], m) => Single(inbox'[i], m)
       /\ Labelled(inbox[i], m, home[m]) => Labelled(inbox'[i], m, home[m])

LEMMA OthersKept ==
    ASSUME BusInv, NEW t \in Task, NEW v, job' = [job EXCEPT ![t] = v],
           UNCHANGED <<reg, home, moved>>,
           NEW m \in Message, m \notin moved, m # t,
           t \in Instance => ~InHand(t, m) /\ (v.step \in {"idle", "over"} \/ v.msg # m),
           InboxKeeps(m), \A c \in Conn : got'[c][m] = got[c][m]
    PROVE  Fate(m)'
<1>1. job \in [Task -> Job] /\ m \in Task
  BY DEF BusInv, TypeOK, Task
<1>2. job'[m] = job[m]
  BY <1>1
<1>3. \A i \in Instance : i # t => job'[i] = job[i]
  BY <1>1 DEF Task
<1>4. \A i \in Instance : i = t => job'[i] = v
  BY <1>1
<1>5. ASSUME NEW i \in Instance
      PROVE  (InHand(i, m)' <=> InHand(i, m)) /\ (InHand(i, m) => job'[i] = job[i])
  <2>1. CASE i # t
    BY <1>3, <2>1 DEF InHand
  <2>2. CASE i = t
    BY <1>4, <2>2 DEF InHand
  <2> QED BY <2>1, <2>2
<1>6. Fate(m) /\ reg \in [Instance -> {0} \cup Conn] /\ home \in [Message -> Instance]
  BY DEF BusInv, TypeOK
<1> QED BY <1>2, <1>5, <1>6, Unaffected DEF InboxKeeps

LEMMA SameInbox == ASSUME NEW m, inbox' = inbox, lossy \subseteq lossy' PROVE InboxKeeps(m)
BY DEF InboxKeeps

LEMMA PublishedKeeps ==
    ASSUME TypeOK, NEW m0 \in Message, NEW kind \in {"unicast", "broadcast"}, NEW from \in Instance,
           Published(m0, kind, from)
    PROVE  /\ inbox' \in [Instance -> Seq(Item)] /\ lossy' \subseteq Message
           /\ \A m \in Message : m # m0 => InboxKeeps(m)
<1> PICK item : item = [kind |-> kind, from |-> from, msg |-> m0]
  OBVIOUS
<1>1. item \in Item /\ item.msg = m0
  BY DEF Item
<1>2. \A i \in Instance : inbox[i] \in Seq(Item) /\ Append(inbox[i], item) \in Seq(Item)
  BY <1>1 DEF TypeOK
<1>3. /\ \A i \in Instance : inbox'[i] = inbox[i] \/ inbox'[i] = Append(inbox[i], item)
      /\ lossy \subseteq lossy' /\ lossy' \subseteq lossy \cup {m0}
  BY DEF Published
<1>4. inbox' \in [Instance -> Seq(Item)]
  BY <1>2 DEF Published, TypeOK
<1>5. lossy' \subseteq Message
  BY <1>3 DEF TypeOK
<1>6. ASSUME NEW m \in Message, m # m0 PROVE InboxKeeps(m)
  <2>1. ASSUME NEW i \in Instance
        PROVE  /\ Mentions(inbox'[i], m) <=> Mentions(inbox[i], m)
               /\ Single(inbox[i], m) => Single(inbox'[i], m)
               /\ Labelled(inbox[i], m, home[m]) => Labelled(inbox'[i], m, home[m])
    <3>1. CASE inbox'[i] = inbox[i]
      BY <3>1
    <3>2. CASE inbox'[i] = Append(inbox[i], item)
      BY <3>2, <1>1, <1>2, <1>6, Appended
    <3> QED BY <1>3, <3>1, <3>2
  <2> QED BY <1>3, <2>1 DEF InboxKeeps
<1> QED BY <1>4, <1>5, <1>6

LEMMA PublishedReaches ==
    ASSUME TypeOK, NEW m \in Message, NEW kind \in {"unicast", "broadcast"},
           kind = "unicast" <=> m \in Unicasts,
           Published(m, kind, home[m]),
           \A i \in Instance : /\ ~Mentions(inbox[i], m) /\ Single(inbox[i], m)
                               /\ Labelled(inbox[i], m, home[m])
    PROVE  /\ m \in lossy => m \in lossy'
           /\ \A i \in Instance :
                /\ Single(inbox'[i], m) /\ Labelled(inbox'[i], m, home[m])
                /\ m \notin lossy' => Mentions(inbox'[i], m)
<1> PICK item : item = [kind |-> kind, from |-> home[m], msg |-> m]
  OBVIOUS
<1>1. item \in Item /\ item.msg = m /\ item.from = home[m] /\ item.kind = kind
  BY DEF Item, TypeOK
<1>2. \A i \in Instance : inbox[i] \in Seq(Item)
  BY DEF TypeOK
<1>3. \A i \in Instance : inbox'[i] = inbox[i] \/ inbox'[i] = Append(inbox[i], item)
  BY DEF Published
<1>4. m \in lossy => m \in lossy'
  BY DEF Published
<1>5. m \notin lossy' => \A i \in Instance : inbox'[i] = Append(inbox[i], item)
  BY DEF Published
<1>6. ASSUME NEW i \in Instance
      PROVE  /\ Single(inbox'[i], m) /\ Labelled(inbox'[i], m, home[m])
             /\ inbox'[i] = Append(inbox[i], item) => Mentions(inbox'[i], m)
  <2>1. CASE inbox'[i] = Append(inbox[i], item)
    BY <2>1, <1>1, <1>2, Appended
  <2>2. CASE inbox'[i] # Append(inbox[i], item)
    BY <2>2, <1>3
  <2> QED BY <2>1, <2>2
<1> QED BY <1>4, <1>5, <1>6

-----------------------------------------------------------------------------
(* The fate of every message under each action.                              *)

LEMMA Known ==
    ASSUME BusInv, NEW m \in Message, m \notin moved,
           \/ job[m] # Idle
           \/ \E i \in Instance : InHand(i, m) \/ Mentions(inbox[i], m)
    PROVE  job[m] # Idle /\ Tracked(m)
BY DEF BusInv, Fate, Untouched

\* A message the agent moved during was submitted.
LEMMA MovedIsBegun ==
    ASSUME BusInv, NEW m \in Message, m \in moved PROVE job[m] # Idle
BY DEF BusInv, Begun

LEMMA SubmitFates ==
    ASSUME BusInv, NEW m0 \in Message, Submit(m0), NEW m \in Message PROVE Fate(m)'
<1> DEFINE v == IF m0 \in Unicasts THEN SendToHost(home[m0], m0)
                ELSE IF reg[home[m0]] # 0 THEN Waiting("start", m0) ELSE Waiting("publish", m0)
<1>1. /\ job[m0] = Idle /\ job' = [job EXCEPT ![m0] = v]
      /\ UNCHANGED <<reg, home, moved, inbox, got, lossy>>
  BY DEF Submit, world, redis, history
<1>2. TypeOK /\ m0 \in Task /\ home[m0] \in Instance /\ job \in [Task -> Job] /\ m \in Task
  BY DEF BusInv, TypeOK, Task
<1>3. v.step \notin {"idle", "over"} /\ job'[m0] = v
  BY <1>1, <1>2, SendsToHost, Kinds
<1>4. \A i \in Instance : i # m0
  BY DistinctAssumption DEF Message
<1> HIDE DEF v
<1>5. CASE m # m0
  <2>1. m \in moved => job'[m] # Idle
    BY <1>1, <1>2, <1>5, MovedIsBegun
  <2>2. m \in moved => Fate(m)'
    BY <1>1, <2>1, Abandoned
  <2>3. InboxKeeps(m)
    BY <1>1, SameInbox
  <2> QED BY <1>1, <1>2, <1>4, <1>5, <2>2, <2>3, OthersKept
<1>6. CASE m = m0
  <2>1. Untouched(m) /\ m \notin moved
    BY <1>1, <1>6, MovedIsBegun DEF BusInv, Fate
  <2>2. \A i \in Instance : ~InHand(i, m)' /\ ~Mentions(inbox'[i], m)
    BY <1>1, <1>2, <1>4, <2>1 DEF Untouched, InHand, Task
  <2>3. \A c \in Conn : got'[c][m] = 0
    BY <1>1, <2>1 DEF Untouched
  <2>4. \A i \in Instance : reg'[i] # 0 => reg'[i] \in Conn
    BY <1>1 DEF BusInv, TypeOK
  <2>5. ~IsOut(m)' /\ job'[m] # Idle
    BY <1>3, <1>6, Kinds DEF IsOut
  <2>6. AtHome(m)'
    BY <1>1, <1>2, <1>3, <1>6, SendsToHost DEF v, AtHome, Message
  <2>7. HomeServed(m)'
    <3>1. reg[home[m]] # 0 => v.step \in {"start", "send"}
      BY <1>2, <1>6, SendsToHost, Kinds DEF v
    <3> QED BY <1>1, <1>2, <1>3, <1>6, <2>3, <2>4, <3>1 DEF HomeServed
  <2>8. \A i \in Instance : Heard(i, m)'
    BY <2>2 DEF Heard, Single, Labelled, Mentions
  <2>9. \A i \in Instance : Served(i, m)'
    BY <2>3, <2>4, <2>5 DEF Served
  <2> QED BY <2>3, <2>5, <2>6, <2>7, <2>8, <2>9 DEF Fate, Tracked
<1> QED BY <1>5, <1>6

\* A publication, of the sender's coroutine.
LEMMA PublicationFates ==
    ASSUME BusInv, NEW m0 \in Message, NEW kind \in {"unicast", "broadcast"},
           kind = "unicast" <=> m0 \in Unicasts,
           job[m0].step \in {"fallback", "publish"},
           Published(m0, kind, home[m0]), job' = [job EXCEPT ![m0] = Over],
           UNCHANGED <<reg, home, moved, got>>,
           m0 \in Unicasts /\ m0 \notin moved => reg[home[m0]] = 0,
           NEW m \in Message
    PROVE  Fate(m)'
<1>1. TypeOK /\ m0 \in Task /\ home[m0] \in Instance /\ job \in [Task -> Job] /\ m \in Task
  BY DEF BusInv, TypeOK, Task
<1>2. \A i \in Instance : i # m0
  BY DistinctAssumption DEF Message
<1>3. job[m0] # Idle /\ job'[m0] = Over /\ Over # Idle
  BY <1>1, Kinds
<1>4. CASE m \in moved
  <2>1. job'[m] # Idle
    BY <1>1, <1>3, <1>4, MovedIsBegun
  <2> QED BY <1>4, <2>1, Abandoned
<1>5. CASE m \notin moved /\ m # m0
  <2>1. InboxKeeps(m)
    BY <1>1, <1>5, PublishedKeeps
  <2> QED BY <1>1, <1>2, <1>5, <2>1, OthersKept
<1>6. CASE m \notin moved /\ m = m0
  <2>1. Tracked(m)
    BY <1>3, <1>6, Known
  <2>2. ~IsOut(m) /\ IsOut(m)'
    BY <1>3, <1>6, Kinds DEF IsOut
  <2>3. \A i \in Instance : /\ ~Mentions(inbox[i], m) /\ ~InHand(i, m)
                            /\ Single(inbox[i], m) /\ Labelled(inbox[i], m, home[m])
    BY <2>1, <2>2 DEF Tracked, Heard
  <2>4. /\ m \in lossy => m \in lossy'
        /\ \A i \in Instance : /\ Single(inbox'[i], m) /\ Labelled(inbox'[i], m, home[m])
                               /\ m \notin lossy' => Mentions(inbox'[i], m)
    BY <1>1, <1>6, <2>3, PublishedReaches
  <2>5. \A i \in Instance : ~InHand(i, m)'
    BY <1>1, <1>2, <2>3 DEF InHand, Task
  <2>6. AtHome(m)'
    BY <1>3, <1>6 DEF AtHome
  <2>7. HomeServed(m)'
    BY <1>3, <1>6, <2>1, <2>4, Kinds DEF Tracked, HomeServed
  <2>8. \A i \in Instance : Heard(i, m)'
    BY <2>2, <2>4, <2>5 DEF Heard
  <2>9. ASSUME NEW i \in Instance, i # home[m] PROVE Served(i, m)'
    BY <2>1, <2>2, <2>4, <2>9, <2>5 DEF Tracked, Served
  <2>10. \A c \in Conn : (\A i \in Instance : reg'[i] # c) => got'[c][m] = 0
    BY <2>1 DEF Tracked
  <2>11. job'[m] # Idle
    BY <1>3, <1>6
  <2> QED BY <2>6, <2>7, <2>8, <2>9, <2>10, <2>11 DEF Fate, Tracked
<1> QED BY <1>4, <1>5, <1>6

LEMMA PublishFates ==
    ASSUME BusInv, NEW m0 \in Message, Publish(m0), NEW m \in Message PROVE Fate(m)'
<1>1. /\ job[m0].step = "publish" /\ Published(m0, "broadcast", home[m0])
      /\ job' = [job EXCEPT ![m0] = Over] /\ UNCHANGED <<reg, home, moved, got>>
  BY DEF Publish, world
<1>2. job[m0] # Idle
  BY <1>1, Kinds
<1>3. CASE m0 \notin Unicasts
  BY <1>1, <1>3, PublicationFates
<1>4. CASE m0 \in Unicasts
  <2>1. m0 \in moved
    <3> SUFFICES ASSUME m0 \notin moved PROVE FALSE
      OBVIOUS
    <3>1. AtHome(m0)
      BY <1>2, Known DEF Tracked
    <3> QED BY <3>1, <1>1, <1>4, Kinds, DistinctAssumption DEF AtHome
  <2>2. TypeOK /\ m0 \in Task /\ home[m0] \in Instance /\ job \in [Task -> Job] /\ m \in Task
    BY DEF BusInv, TypeOK, Task
  <2>3. CASE m \in moved
    <3>1. job'[m] # Idle
      BY <1>1, <2>2, <2>3, MovedIsBegun, Kinds
    <3> QED BY <1>1, <2>3, <3>1, Abandoned
  <2>4. CASE m \notin moved
    <3>1. InboxKeeps(m)
      BY <1>1, <2>1, <2>2, <2>4, PublishedKeeps
    <3>2. m0 \notin Instance
      BY DistinctAssumption DEF Message
    <3> QED BY <1>1, <2>1, <2>2, <2>4, <3>1, <3>2, OthersKept
  <2> QED BY <2>3, <2>4
<1> QED BY <1>3, <1>4

LEMMA FallsBackFates ==
    ASSUME BusInv, NEW t \in Task, FallsBack(t), NEW m \in Message PROVE Fate(m)'
<1>1. /\ job[t].step = "fallback" /\ Published(job[t].msg, "unicast", At(t))
      /\ job' = [job EXCEPT ![t] = Then(t)] /\ UNCHANGED <<reg, home, moved, got>>
  BY DEF FallsBack, world
<1>2. TypeOK /\ job \in [Task -> Job] /\ m \in Task
  BY DEF BusInv, TypeOK, Task
<1>3. job[t].msg \in Message /\ At(t) \in Instance /\ job[t] # Idle
  BY <1>1, <1>2, Coroutines, Kinds
<1>4. CASE m \in moved
  <2>1. job'[m] # Idle
    BY <1>1, <1>2, <1>4, MovedIsBegun, Thens, Coroutines, Kinds
  <2> QED BY <1>1, <1>4, <2>1, Abandoned
<1>5. CASE t \in Message /\ t \notin moved
  <2>1. job[t].msg = t /\ At(t) = home[t]
    BY <1>1, <1>2, <1>5, Coroutines DEF BusInv, OwnMessage
  <2>2. t \in Unicasts /\ reg[home[t]] = 0
    <3>1. AtHome(t)
      BY <1>3, <1>5, Known DEF Tracked
    <3> QED BY <1>1, <3>1, Kinds DEF AtHome
  <2>3. Then(t) = Over
    BY <1>5, <2>2, Thens, DistinctAssumption
  <2> QED BY <1>1, <1>5, <2>1, <2>2, <2>3, PublicationFates
<1>6. CASE m \notin moved /\ ~(t \in Message /\ t \notin moved)
  <2>1. job[t].msg \in moved
    <3>1. CASE t \in Message
      BY <1>1, <1>6, <3>1 DEF BusInv, OwnMessage
    <3>2. CASE t \in Instance
      <4> SUFFICES ASSUME job[t].msg \notin moved PROVE FALSE
        OBVIOUS
      <4>1. InHand(t, job[t].msg)
        BY <1>1 DEF InHand
      <4>2. Heard(t, job[t].msg)
        BY <1>3, <3>2, <4>1, Known DEF Tracked
      <4> QED BY <1>1, <4>1, <4>2, Kinds DEF Heard
    <3> QED BY <3>1, <3>2 DEF Task
  <2>2. InboxKeeps(m)
    BY <1>1, <1>2, <1>3, <1>6, <2>1, PublishedKeeps
  <2>3. m # t
    BY <1>6
  <2>4. t \in Instance => ~InHand(t, m) /\ Then(t).step = "idle"
    BY <1>6, <2>1, Thens, Kinds DEF InHand
  <2> QED BY <1>1, <1>2, <1>6, <2>2, <2>3, <2>4, OthersKept
<1> QED BY <1>2, <1>4, <1>5, <1>6

\* _send_to_host_safe, of a sender or of a listener: while the agent does not
\* move it is still where broadcast found it.
LEMMA StartedFates ==
    ASSUME BusInv, NEW t \in Task, Started(t), NEW m \in Message PROVE Fate(m)'
<1>1. /\ job[t].step = "start" /\ job' = [job EXCEPT ![t] = SendToHost(At(t), job[t].msg)]
      /\ UNCHANGED <<reg, home, moved, inbox, got, lossy>>
  BY DEF Started, world, redis, history
<1>2. TypeOK /\ job \in [Task -> Job] /\ m \in Task
  BY DEF BusInv, TypeOK, Task
<1>3. job[t].msg \in Message /\ At(t) \in Instance /\ job[t] # Idle
  BY <1>1, <1>2, Coroutines, Kinds
<1> PICK v : v = SendToHost(At(t), job[t].msg)
  OBVIOUS
<1>4. v.step \in {"send", "fallback"} /\ v.msg = job[t].msg /\ v # Idle
  BY <1>2, <1>3, SendsToHost, Kinds
<1>5. job' = [job EXCEPT ![t] = v] /\ job'[t] = v
  BY <1>1, <1>2
<1>6. InboxKeeps(m)
  BY <1>1, SameInbox
<1>7. CASE m \in moved
  <2>1. job'[m] # Idle
    BY <1>2, <1>4, <1>5, <1>7, MovedIsBegun
  <2> QED BY <1>1, <1>7, <2>1, Abandoned
<1>8. CASE m \notin moved /\ m # job[t].msg
  <2>1. m # t
    BY <1>1, <1>8 DEF BusInv, OwnMessage
  <2>2. t \in Instance => ~InHand(t, m) /\ v.msg # m
    BY <1>4, <1>8 DEF InHand
  <2> QED BY <1>1, <1>2, <1>5, <1>6, <1>8, <2>1, <2>2, OthersKept
<1>9. CASE m \notin moved /\ m = job[t].msg /\ t \in Message
  <2>1. t = m /\ At(t) = home[m]
    BY <1>1, <1>2, <1>9, Coroutines DEF BusInv, OwnMessage
  <2>2. Tracked(m)
    BY <1>3, <1>9, <2>1, Known
  <2>3. reg[home[m]] # 0
    BY <1>1, <2>1, <2>2, Kinds DEF Tracked, AtHome
  <2>4. v = Sending(m, reg[home[m]])
    BY <1>2, <1>3, <1>9, <2>1, <2>3, SendsToHost
  <2>5. \A i \in Instance : i # t /\ (InHand(i, m)' <=> InHand(i, m))
    BY <1>2, <1>5, <1>9, DistinctAssumption DEF InHand, Task, Message
  <2>6. ~IsOut(m) /\ ~IsOut(m)'
    BY <1>1, <1>5, <2>1, <2>4, Kinds DEF IsOut
  <2>7. AtHome(m)'
    BY <1>1, <1>5, <2>1, <2>3, <2>4 DEF AtHome
  <2>8. HomeServed(m)'
    BY <1>1, <1>5, <2>1, <2>2, <2>4, Kinds DEF Tracked, HomeServed
  <2>9. \A i \in Instance : Heard(i, m)'
    BY <1>1, <2>2, <2>5, <2>6 DEF Tracked, Heard
  <2>10. \A i \in Instance : i # home'[m] => Served(i, m)'
    BY <1>1, <2>2, <2>5, <2>6 DEF Tracked, Served
  <2>11. \A c \in Conn : (\A i \in Instance : reg'[i] # c) => got'[c][m] = 0
    BY <1>1, <2>2 DEF Tracked
  <2>12. job'[m] # Idle
    BY <1>4, <1>5, <2>1
  <2> QED BY <2>7, <2>8, <2>9, <2>10, <2>11, <2>12 DEF Fate, Tracked
<1>10. CASE m \notin moved /\ m = job[t].msg /\ t \in Instance
  <2>1. InHand(t, m) /\ t \notin Message /\ At(t) = t
    BY <1>1, <1>2, <1>10, Coroutines DEF InHand
  <2>2. Tracked(m) /\ job[m] # Idle
    BY <1>10, <2>1, Known
  <2>3. reg[t] # 0
    BY <1>10, <2>1, <2>2 DEF Tracked, Heard
  <2>4. v = Sending(m, reg[t])
    BY <1>2, <1>3, <1>10, <2>1, <2>3, SendsToHost
  <2>5. job'[m] = job[m] /\ InHand(t, m)'
    BY <1>2, <1>4, <1>5, <1>10, <2>1 DEF InHand
  <2>6. \A i \in Instance : InHand(i, m)' <=> InHand(i, m)
    BY <1>2, <1>5, <2>1, <2>5 DEF InHand, Task
  <2>7. IsOut(m)' <=> IsOut(m)
    BY <1>1, <2>5 DEF IsOut
  <2>8. AtHome(m)' /\ HomeServed(m)'
    BY <1>1, <2>2, <2>5 DEF Tracked, AtHome, HomeServed
  <2>9. ASSUME NEW i \in Instance PROVE Heard(i, m)'
    <3>1. i # t => job'[i] = job[i]
      BY <1>2, <1>5 DEF Task
    <3>2. i = t => job'[i] = Sending(m, reg'[i])
      BY <1>1, <1>5, <2>4
    <3> QED BY <1>1, <2>2, <2>6, <2>7, <3>1, <3>2 DEF Tracked, Heard
  <2>10. \A i \in Instance : i # home'[m] => Served(i, m)'
    BY <1>1, <2>2, <2>6, <2>7 DEF Tracked, Served
  <2>11. \A c \in Conn : (\A i \in Instance : reg'[i] # c) => got'[c][m] = 0
    BY <1>1, <2>2 DEF Tracked
  <2> QED BY <2>2, <2>5, <2>8, <2>9, <2>10, <2>11 DEF Fate, Tracked
<1> QED BY <1>7, <1>8, <1>9, <1>10 DEF Task

LEMMA SentFates ==
    ASSUME BusInv, NEW t \in Task, Sent(t), NEW m \in Message PROVE Fate(m)'
<1>1. /\ job[t].step = "send" /\ job' = [job EXCEPT ![t] = Then(t)]
      /\ \/ got' = [got EXCEPT ![job[t].conn][job[t].msg] = @ + 1] /\ lossy' = lossy
         \/ lossy' = lossy \cup {job[t].msg} /\ got' = got
      /\ UNCHANGED <<reg, home, moved, inbox>>
  BY DEF Sent, world, redis
<1>2. TypeOK /\ job \in [Task -> Job] /\ m \in Task /\ home[m] \in Instance
  BY DEF BusInv, TypeOK, Task
<1>3. job[t].msg \in Message /\ job[t].conn \in Conn /\ job[t] # Idle
  BY <1>1, <1>2, Coroutines, Kinds
<1>4. /\ got \in [Conn -> [Message -> Nat]] /\ job'[t] = Then(t)
      /\ lossy \subseteq lossy' /\ \A i \in Instance : reg[i] # 0 => reg[i] \in Conn
  BY <1>1, <1>2 DEF TypeOK
<1>5. \A c \in Conn : m # job[t].msg \/ c # job[t].conn => got'[c][m] = got[c][m]
  BY <1>1, <1>4
<1>6. CASE m \in moved
  <2>1. job'[m] # Idle
    BY <1>1, <1>2, <1>6, MovedIsBegun, Thens, Coroutines, Kinds
  <2> QED BY <1>1, <1>6, <2>1, Abandoned
<1>7. CASE m \notin moved /\ m # job[t].msg
  <2>1. m # t
    BY <1>1, <1>7 DEF BusInv, OwnMessage
  <2>2. t \in Instance => ~InHand(t, m) /\ Then(t).step = "idle"
    BY <1>7, Thens, Kinds DEF InHand
  <2>3. InboxKeeps(m)
    BY <1>1, <1>4, SameInbox
  <2> QED BY <1>1, <1>2, <1>5, <1>7, <2>1, <2>2, <2>3, OthersKept
<1>8. CASE m \notin moved /\ m = job[t].msg /\ t \in Message
  <2>1. t = m
    BY <1>1, <1>8 DEF BusInv, OwnMessage
  <2>2. Tracked(m)
    BY <1>3, <1>8, <2>1, Known
  <2>3. reg[home[m]] # 0 /\ job[t].conn = reg[home[m]]
    BY <1>1, <2>1, <2>2, Kinds DEF Tracked, AtHome
  <2>4. \A i \in Instance : i # t /\ (InHand(i, m)' <=> InHand(i, m))
    BY <1>1, <1>2, <1>8, DistinctAssumption DEF InHand, Task, Message
  <2>5. /\ \/ job'[m] = Waiting("publish", m) /\ m \in Broadcasts
           \/ job'[m] = Over /\ m \in Unicasts
        /\ job'[m].step \notin {"start", "send"} /\ job'[m] # Idle
    BY <1>4, <1>8, <2>1, Thens, Kinds
  <2>6. ~IsOut(m) /\ ~IsOut(m)'
    BY <1>1, <2>1, <2>3, <2>5, Kinds, DistinctAssumption DEF IsOut
  <2>7. AtHome(m)'
    BY <2>5 DEF AtHome
  <2>8. HomeServed(m)'
    <3>1. got[reg[home[m]]][m] = 0
      BY <1>1, <2>1, <2>2, <2>3 DEF Tracked, HomeServed
    <3>2. \/ got'[reg[home[m]]][m] = 1
          \/ got'[reg[home[m]]][m] = 0 /\ m \in lossy'
      BY <1>1, <1>2, <1>4, <1>8, <2>3, <3>1
    <3> QED BY <1>1, <2>5, <3>2 DEF HomeServed
  <2>9. \A i \in Instance : Heard(i, m)'
    BY <1>1, <2>2, <2>4, <2>6 DEF Tracked, Heard
  <2>10. ASSUME NEW i \in Instance, i # home[m] PROVE Served(i, m)'
    <3>1. reg[i] # 0 => reg[i] # reg[home[m]]
      BY <1>2, <2>10 DEF BusInv, Distinct
    <3>2. reg[i] # 0 => got'[reg[i]][m] = got[reg[i]][m]
      BY <1>4, <1>5, <2>3, <3>1
    <3> QED BY <1>1, <2>2, <2>4, <2>6, <2>10, <3>2 DEF Tracked, Served
  <2>11. \A c \in Conn : (\A i \in Instance : reg'[i] # c) => got'[c][m] = 0
    BY <1>1, <1>2, <1>5, <2>2, <2>3 DEF Tracked
  <2> QED BY <1>1, <2>5, <2>7, <2>8, <2>9, <2>10, <2>11 DEF Fate, Tracked
<1>9. CASE m \notin moved /\ m = job[t].msg /\ t \in Instance
  <2>1. InHand(t, m) /\ t \notin Message /\ job'[t] = Idle
    BY <1>1, <1>2, <1>4, <1>9, Coroutines, Thens DEF InHand
  <2>2. Tracked(m) /\ job[m] # Idle
    BY <1>9, <2>1, Known
  <2>3. reg[t] # 0 /\ t # home[m] /\ job[t].conn = reg[t] /\ IsOut(m) /\ ~Mentions(inbox[t], m)
    <3>1. Heard(t, m)
      BY <1>9, <2>2 DEF Tracked
    <3> QED BY <1>1, <2>1, <3>1, Kinds DEF Heard
  <2>4. \A i \in Instance : IF i = t THEN ~InHand(i, m)' ELSE InHand(i, m)' <=> InHand(i, m)
    BY <1>1, <1>2, <2>1, Kinds DEF InHand, Task
  <2>5. job'[m] = job[m] /\ IsOut(m)'
    BY <1>1, <1>2, <1>9, <2>1, <2>3 DEF IsOut
  <2>6. AtHome(m)'
    BY <1>1, <2>2, <2>5 DEF Tracked, AtHome
  <2>7. ASSUME NEW i \in Instance, i # t, reg[i] # 0 PROVE got'[reg[i]][m] = got[reg[i]][m]
    <3>1. reg[i] # reg[t]
      BY <1>9, <2>7 DEF BusInv, Distinct
    <3> QED BY <1>4, <1>5, <2>3, <2>7, <3>1
  <2>8. HomeServed(m)'
    BY <1>1, <1>2, <1>4, <2>2, <2>3, <2>5, <2>7 DEF Tracked, HomeServed
  <2>9. ASSUME NEW i \in Instance PROVE Heard(i, m)'
    <3>1. i # t => job'[i] = job[i]
      BY <1>1, <1>2 DEF Task
    <3> QED BY <1>1, <2>2, <2>3, <2>4, <2>5, <3>1 DEF Tracked, Heard
  <2>10. ASSUME NEW i \in Instance, i # home[m] PROVE Served(i, m)'
    <3>1. CASE i # t
      BY <1>1, <1>4, <2>2, <2>3, <2>4, <2>5, <2>7, <2>10, <3>1 DEF Tracked, Served
    <3>2. CASE i = t
      <4>1. got[reg[t]][m] = 0
        <5>1. Served(t, m)
          BY <1>9, <2>2, <2>3 DEF Tracked
        <5>2. got[reg[t]][m] \in Nat
          BY <1>4, <1>9, <2>3
        <5> QED BY <5>1, <5>2, <2>1, <2>3 DEF Served
      <4>2. \/ got'[reg[t]][m] = 1
            \/ got'[reg[t]][m] = 0 /\ m \in lossy'
        BY <1>1, <1>4, <1>9, <2>3, <4>1
      <4> QED BY <1>1, <2>3, <2>4, <2>5, <3>2, <4>2 DEF Served
    <3> QED BY <3>1, <3>2
  <2>11. \A c \in Conn : (\A i \in Instance : reg'[i] # c) => got'[c][m] = 0
    BY <1>1, <1>5, <1>9, <2>2, <2>3 DEF Tracked
  <2>12. job'[m] # Idle
    BY <2>2, <2>5
  <2> QED BY <1>1, <2>6, <2>8, <2>9, <2>10, <2>11, <2>12 DEF Fate, Tracked
<1> QED BY <1>6, <1>7, <1>8, <1>9 DEF Task

LEMMA Orderly ==
    ASSUME BusInv, NEW m \in Message, m \notin moved, NEW i \in Instance
    PROVE  Single(inbox[i], m) /\ Labelled(inbox[i], m, home[m])
<1>1. CASE job[m] = Idle
  BY <1>1 DEF BusInv, Fate, Untouched, Mentions, Single, Labelled
<1>2. CASE job[m] # Idle
  BY <1>2, Known DEF Tracked, Heard
<1> QED BY <1>1, <1>2

LEMMA Hears ==
    ASSUME TypeOK, NEW i \in Instance, NEW item \in Item
    PROVE  /\ Hear(i, item) \in Job
           /\ Hear(i, item) = Idle
              \/ /\ reg[i] # 0 /\ item.from # i
                 /\ \/ Hear(i, item) = Waiting("start", item.msg)
                    \/ Hear(i, item) = Sending(item.msg, reg[i])
           /\ reg[i] # 0 /\ item.from # i => Hear(i, item) # Idle
<1>1. item.msg \in Message /\ (reg[i] # 0 => reg[i] \in Conn)
  BY DEF Item, TypeOK
<1> QED BY <1>1, Jobs, Kinds DEF Hear, HearUnicast, HearBroadcast

LEMMA ListenFates ==
    ASSUME BusInv, NEW i \in Instance, Listen(i), NEW m \in Message PROVE Fate(m)'
<1>1. /\ job[i] = Idle /\ inbox[i] # <<>>
      /\ job' = [job EXCEPT ![i] = Hear(i, Head(inbox[i]))]
      /\ inbox' = [inbox EXCEPT ![i] = Tail(inbox[i])]
      /\ UNCHANGED <<reg, home, moved, got, lossy>>
  BY DEF Listen, world, history
<1>2. /\ TypeOK /\ job \in [Task -> Job] /\ m \in Task /\ i \in Task /\ i # m
      /\ inbox[i] \in Seq(Item) /\ home[m] \in Instance
      /\ inbox'[i] = Tail(inbox[i]) /\ \A j \in Instance : j # i => inbox'[j] = inbox[j]
  BY <1>1, DistinctAssumption DEF BusInv, TypeOK, Task, Message
<1>3. PICK item \in Item : item = Head(inbox[i])
  BY <1>1, <1>2
<1> PICK v : v = Hear(i, item)
  OBVIOUS
<1>4. /\ job' = [job EXCEPT ![i] = v] /\ job'[i] = v /\ job'[m] = job[m]
      /\ \A j \in Instance : j # i => job'[j] = job[j]
  BY <1>1, <1>2, <1>3 DEF Task
<1>5. /\ v = Idle \/ /\ reg[i] # 0 /\ item.from # i
                     /\ v = Waiting("start", item.msg) \/ v = Sending(item.msg, reg[i])
      /\ reg[i] # 0 /\ item.from # i => v # Idle
  BY <1>2, Hears
<1>6. ~InHand(i, m)
  BY <1>1, Kinds DEF InHand
<1>7. CASE m \in moved
  <2>1. job'[m] # Idle
    BY <1>4, <1>7, MovedIsBegun
  <2> QED BY <1>1, <1>7, <2>1, Abandoned
<1>8. ASSUME m \notin moved
      PROVE  /\ item.msg = m => /\ Mentions(inbox[i], m) /\ ~Mentions(inbox'[i], m)
                                /\ item.from = home[m]
             /\ item.msg # m => (Mentions(inbox'[i], m) <=> Mentions(inbox[i], m))
             /\ Single(inbox'[i], m) /\ Labelled(inbox'[i], m, home[m])
  <2>1. Single(inbox[i], m) /\ Labelled(inbox[i], m, home[m])
    BY <1>8, Orderly
  <2> QED BY <1>1, <1>2, <1>3, <2>1, Taken
<1>9. CASE m \notin moved /\ m # item.msg
  <2>1. InboxKeeps(m)
    BY <1>1, <1>2, <1>8, <1>9 DEF InboxKeeps
  <2>2. v.step \in {"idle", "over"} \/ v.msg # m
    BY <1>5, <1>9, Kinds
  <2> QED BY <1>1, <1>2, <1>4, <1>6, <1>9, <2>1, <2>2, OthersKept
<1>10. CASE m \notin moved /\ m = item.msg
  <2>1. Tracked(m) /\ job[m] # Idle
    BY <1>8, <1>10, Known
  <2>2. IsOut(m) /\ IsOut(m)'
    BY <1>1, <1>4, <1>8, <1>10, <2>1 DEF Tracked, Heard, IsOut
  <2>3. InHand(i, m)' <=> v # Idle
    BY <1>4, <1>5, <1>10, Kinds DEF InHand
  <2>4. \A j \in Instance : j # i => (InHand(j, m)' <=> InHand(j, m))
    BY <1>4 DEF InHand
  <2>5. AtHome(m)' /\ HomeServed(m)'
    BY <1>1, <1>4, <2>1 DEF Tracked, AtHome, HomeServed
  <2>6. ASSUME NEW j \in Instance PROVE Heard(j, m)'
    <3>1. CASE j # i
      BY <1>1, <1>2, <1>4, <2>1, <2>2, <2>4, <3>1 DEF Tracked, Heard
    <3>2. CASE j = i
      BY <1>1, <1>4, <1>5, <1>8, <1>10, <2>2, <2>3, <3>2 DEF Heard
    <3> QED BY <3>1, <3>2
  <2>7. ASSUME NEW j \in Instance, j # home[m] PROVE Served(j, m)'
    <3>1. Served(j, m)
      BY <2>1, <2>7 DEF Tracked
    <3>2. CASE j # i
      BY <1>1, <1>2, <2>2, <2>4, <3>1, <3>2 DEF Served
    <3>3. CASE j = i
      BY <1>1, <1>5, <1>8, <1>10, <2>2, <2>3, <2>7, <3>1, <3>3 DEF Served
    <3> QED BY <3>2, <3>3
  <2>8. \A c \in Conn : (\A j \in Instance : reg'[j] # c) => got'[c][m] = 0
    BY <1>1, <2>1 DEF Tracked
  <2>9. job'[m] # Idle
    BY <1>4, <2>1
  <2> QED BY <1>1, <2>5, <2>6, <2>7, <2>8, <2>9 DEF Fate, Tracked
<1> QED BY <1>7, <1>9, <1>10

LEMMA ListenerDiesFates ==
    ASSUME BusInv, NEW i \in Instance, ListenerDies(i), NEW m \in Message PROVE Fate(m)'
<1>1. /\ inbox' = [inbox EXCEPT ![i] = <<>>] /\ lossy' = lossy \cup InboxMessages(i)
      /\ UNCHANGED <<reg, home, moved, got, job>>
  BY DEF ListenerDies, world
<1>2. /\ reg \in [Instance -> {0} \cup Conn] /\ home \in [Message -> Instance]
      /\ inbox'[i] = <<>> /\ \A j \in Instance : j # i => inbox'[j] = inbox[j]
  BY <1>1 DEF BusInv, TypeOK
<1>3. CASE m \in moved
  BY <1>1, <1>3, MovedIsBegun, Abandoned
<1>4. CASE m \notin moved
  <2>1. Mentions(inbox[i], m) => m \in lossy'
    BY <1>1 DEF Mentions, InboxMessages
  <2>2. InboxKeeps(m)
    BY <1>1, <1>2, <2>1, Emptied DEF InboxKeeps
  <2>3. Fate(m) /\ job'[m] = job[m]
    BY <1>1 DEF BusInv
  <2>4. \A j \in Instance : (InHand(j, m)' <=> InHand(j, m)) /\ job'[j] = job[j]
    BY <1>1 DEF InHand
  <2> QED BY <1>1, <1>2, <1>4, <2>2, <2>3, <2>4, Unaffected DEF InboxKeeps
<1> QED BY <1>3, <1>4

\* Whatever moves the agent ends the story of all that was submitted.
LEMMA MovingFates ==
    ASSUME BusInv, moved' = Begun, NEW m \in Message,
           job[m] = Idle <=> job'[m] = Idle,
           job[m] = Idle => \A i \in Instance :
                              /\ InHand(i, m)' => InHand(i, m)
                              /\ Mentions(inbox'[i], m) => Mentions(inbox[i], m),
           got' = got
    PROVE  Fate(m)'
BY DEF BusInv, Begun, Fate, Untouched

LEMMA SendFailsFates ==
    ASSUME BusInv, NEW t \in Task, SendFails(t), NEW m \in Message PROVE Fate(m)'
<1>1. /\ job[t].step = "send" /\ job' = [job EXCEPT ![t] = Then(t)] /\ moved' = Begun
      /\ UNCHANGED <<inbox, got>>
  BY DEF SendFails, redis
<1>2. TypeOK /\ job \in [Task -> Job] /\ m \in Task
  BY DEF BusInv, TypeOK, Task
<1>3. job[m] = Idle <=> job'[m] = Idle
  BY <1>1, <1>2, Thens, Coroutines, Kinds
<1>4. ASSUME NEW i \in Instance, InHand(i, m)' PROVE InHand(i, m)
  <2>1. i = t => ~InHand(i, m)'
    BY <1>1, <1>2, Thens, Kinds DEF InHand
  <2> QED BY <1>1, <1>2, <1>4, <2>1 DEF InHand, Task
<1> QED BY <1>1, <1>3, <1>4, MovingFates

LEMMA RestartFates ==
    ASSUME BusInv, NEW i \in Instance, Restart(i), NEW m \in Message PROVE Fate(m)'
<1>1. /\ inbox' = [inbox EXCEPT ![i] = <<>>] /\ moved' = Begun /\ got' = got
      /\ job' = [t \in Task |-> IF At(t) = i /\ t \in Begun THEN Over
                                ELSE IF t = i THEN Idle ELSE job[t]]
  BY DEF Restart
<1>2. m \in Task /\ m # i /\ \A j \in Instance : j \in Task /\ j \notin Begun
  BY DistinctAssumption DEF Task, Message, Begun
<1>3. job[m] = Idle <=> job'[m] = Idle
  BY <1>1, <1>2, Kinds DEF Begun
<1>4. ASSUME NEW j \in Instance PROVE InHand(j, m)' => InHand(j, m)
  BY <1>1, <1>2, Kinds DEF InHand
<1>5. ASSUME NEW j \in Instance PROVE Mentions(inbox'[j], m) => Mentions(inbox[j], m)
  <2>1. inbox'[j] = IF j = i THEN <<>> ELSE inbox[j]
    BY <1>1 DEF BusInv, TypeOK
  <2> QED BY <2>1, Emptied
<1> QED BY <1>1, <1>3, <1>4, <1>5, MovingFates

-----------------------------------------------------------------------------
(* The other parts of the invariant.                                         *)

LEMMA BusInit == Init => BusInv
<1> SUFFICES ASSUME Init PROVE BusInv
  OBVIOUS
<1>1. TypeOK
  BY ConnAssumption, Jobs, Emptied DEF Init, TypeOK, Conn
<1>2. \A t \in Task : job[t] = Idle
  BY DEF Init
<1>3. Message \subseteq Task /\ Instance \subseteq Task
  BY DEF Task
<1>4. Distinct /\ OwnMessage /\ moved \subseteq Begun
  BY <1>2, <1>3, Kinds DEF Init, Distinct, OwnMessage
<1>5. ASSUME NEW m \in Message PROVE Untouched(m)
  BY <1>2, <1>3, Emptied, Kinds DEF Init, Untouched, InHand
<1> QED BY <1>1, <1>2, <1>3, <1>4, <1>5 DEF BusInv, Fate

LEMMA SenderTypes ==
    ASSUME BusInv, NEW m \in Message, Submit(m) \/ Publish(m)
    PROVE  TypeOK' /\ OwnMessage' /\ Begun \subseteq Begun'
<1>1. TypeOK /\ m \in Task /\ Message \subseteq Task /\ home[m] \in Instance
  BY DEF BusInv, TypeOK, Task
<1>2. PICK v \in Job : /\ job' = [job EXCEPT ![m] = v] /\ v # Idle
                       /\ v.step \notin {"idle", "over"} => v.msg = m
  BY <1>1, SendsToHost, Jobs, Kinds DEF Submit, Publish
<1>3. inbox' \in [Instance -> Seq(Item)] /\ lossy' \subseteq Message
  <2>1. CASE Submit(m)
    BY <1>1, <2>1 DEF Submit, redis, history, TypeOK
  <2>2. CASE Publish(m)
    BY <1>1, <2>2, PublishedKeeps DEF Publish
  <2> QED BY <2>1, <2>2
<1>4. UNCHANGED <<reg, conns, client, ear, home, got, moved>>
  BY DEF Submit, Publish, world, redis, history
<1>5. job' \in [Task -> Job] /\ \A k \in Message : job'[k] = IF k = m THEN v ELSE job[k]
  BY <1>1, <1>2 DEF TypeOK
<1>6. TypeOK'
  BY <1>1, <1>3, <1>4, <1>5 DEF TypeOK
<1>7. OwnMessage' /\ Begun \subseteq Begun'
  BY <1>2, <1>5 DEF BusInv, OwnMessage, Begun
<1> QED BY <1>6, <1>7

LEMMA TaskTypes ==
    ASSUME BusInv, NEW t \in Task, TaskNext(t)
    PROVE  TypeOK' /\ OwnMessage' /\ Begun \subseteq Begun'
<1>1. TypeOK /\ Message \subseteq Task /\ At(t) \in Instance
  BY Coroutines DEF BusInv, Task
<1>2. /\ job[t].step \in {"start", "send", "fallback"} /\ job[t].msg \in Message
      /\ job[t].step = "send" => job[t].conn \in Conn
      /\ t \in Message => job[t].msg = t
  BY <1>1, Coroutines DEF TaskNext, Started, Sent, SendFails, FallsBack, BusInv, OwnMessage
<1>3. PICK v \in Job : /\ job' = [job EXCEPT ![t] = v]
                       /\ t \in Message => v # Idle
                       /\ t \in Message /\ v.step \notin {"idle", "over"} => v.msg = t
  <2>1. CASE Started(t)
    BY <1>1, <1>2, <2>1, SendsToHost, Kinds DEF Started
  <2>2. CASE ~Started(t)
    <3>1. job' = [job EXCEPT ![t] = Then(t)]
      BY <2>2 DEF TaskNext, Sent, SendFails, FallsBack
    <3>2. /\ Then(t) \in Job
          /\ t \in Message => Then(t) = Waiting("publish", t) \/ Then(t) = Over
      BY Thens
    <3>3. t \in Message => Then(t) # Idle /\ (Then(t).step \notin {"idle", "over"} => Then(t).msg = t)
      BY <3>2, Kinds
    <3> QED BY <3>1, <3>2, <3>3
  <2> QED BY <2>1, <2>2
<1>4. inbox' \in [Instance -> Seq(Item)] /\ lossy' \subseteq Message
  <2>1. CASE FallsBack(t)
    BY <1>1, <1>2, <2>1, PublishedKeeps DEF FallsBack
  <2>2. CASE ~FallsBack(t)
    BY <1>1, <1>2, <2>2 DEF TaskNext, Started, Sent, SendFails, redis, history, TypeOK
  <2> QED BY <2>1, <2>2
<1>5. reg' \in [Instance -> {0} \cup Conn] /\ moved' \subseteq Message
  BY <1>1 DEF TaskNext, Started, Sent, SendFails, FallsBack, world, history, TypeOK, Begun
<1>6. got' \in [Conn -> [Message -> Nat]]
  BY <1>1, <1>2 DEF TaskNext, Started, Sent, SendFails, FallsBack, history, TypeOK
<1>7. UNCHANGED <<conns, client, ear, home>>
  BY DEF TaskNext, Started, Sent, SendFails, FallsBack, world, redis
<1>8. job' \in [Task -> Job] /\ \A k \in Message : job'[k] = IF k = t THEN v ELSE job[k]
  BY <1>1, <1>3 DEF TypeOK
<1>9. TypeOK'
  BY <1>1, <1>4, <1>5, <1>6, <1>7, <1>8 DEF TypeOK
<1>10. OwnMessage' /\ Begun \subseteq Begun'
  BY <1>3, <1>8 DEF BusInv, OwnMessage, Begun
<1> QED BY <1>9, <1>10

LEMMA InstanceTypes ==
    ASSUME BusInv, NEW i \in Instance,
           Listen(i) \/ ListenerDies(i) \/ Connect(i) \/ Disconnect(i) \/ Restart(i)
    PROVE  TypeOK' /\ OwnMessage' /\ Begun \subseteq Begun'
<1>1. TypeOK /\ Message \subseteq Task /\ i \in Task /\ i \notin Message /\ inbox[i] \in Seq(Item)
  BY DistinctAssumption DEF BusInv, TypeOK, Task, Message
<1>2. InboxMessages(i) \subseteq Message
  <2>1. \A n \in DOMAIN inbox[i] : inbox[i][n] \in Item
    BY <1>1
  <2> QED BY <2>1 DEF InboxMessages, Item
<1>3. CASE Listen(i)
  <2>1. Head(inbox[i]) \in Item /\ Tail(inbox[i]) \in Seq(Item)
    BY <1>1, <1>3 DEF Listen
  <2>2. Hear(i, Head(inbox[i])) \in Job
    BY <1>1, <2>1, Hears
  <2>3. TypeOK'
    BY <1>1, <1>3, <2>1, <2>2 DEF Listen, world, history, TypeOK
  <2>4. \A m \in Message : job'[m] = job[m]
    BY <1>1, <1>3 DEF Listen, TypeOK
  <2> QED BY <2>3, <2>4 DEF BusInv, OwnMessage, Begun
<1>4. CASE ListenerDies(i)
  BY <1>1, <1>2, <1>4, Emptied DEF ListenerDies, world, TypeOK, BusInv, OwnMessage, Begun
<1>5. CASE Connect(i)
  <2>1. conns' \in Conn
    BY <1>1, <1>5, ConnAssumption DEF Connect, TypeOK, Conn
  <2>2. TypeOK'
    BY <1>1, <1>5, <2>1 DEF Connect, redis, TypeOK, Begun
  <2> QED BY <1>5, <2>2 DEF Connect, BusInv, OwnMessage, Begun
<1>6. CASE Disconnect(i)
  BY <1>1, <1>6 DEF Disconnect, redis, TypeOK, Begun, BusInv, OwnMessage
<1>7. CASE Restart(i)
  <2>1. \A t \in Task : job'[t] = job[t] \/ job'[t] = Over \/ (t = i /\ job'[t] = Idle)
    BY <1>7 DEF Restart
  <2>2. job' \in [Task -> Job]
    <3>1. job' = [t \in Task |-> job'[t]]
      BY <1>7 DEF Restart
    <3>2. \A t \in Task : job'[t] \in Job
      BY <1>1, <2>1, Jobs DEF TypeOK
    <3> QED BY <3>1, <3>2
  <2>3. client' \subseteq Instance /\ ear' \subseteq client'
    BY <1>1, <1>7 DEF Restart, ConnectRedis, TypeOK
  <2>4. inbox' \in [Instance -> Seq(Item)]
    BY <1>1, <1>7, Emptied DEF Restart, TypeOK
  <2>5. moved' \subseteq Message /\ lossy' \subseteq Message
    BY <1>1, <1>2, <1>7 DEF Restart, TypeOK, Begun, HeldAt
  <2>6. reg' \in [Instance -> {0} \cup Conn]
    BY <1>1, <1>7 DEF Restart, TypeOK
  <2>7. TypeOK'
    BY <1>1, <1>7, <2>2, <2>3, <2>4, <2>5, <2>6 DEF Restart, TypeOK
  <2>8. OwnMessage' /\ Begun \subseteq Begun'
    BY <1>1, <2>1, Kinds DEF BusInv, OwnMessage, Begun
  <2> QED BY <2>7, <2>8
<1> QED BY <1>3, <1>4, <1>5, <1>6, <1>7

\* What a step does to the registries.
RegistryMoves ==
  \/ UNCHANGED <<reg, conns>>
  \/ \E i \in Instance : \/ reg' = [reg EXCEPT ![i] = 0] /\ conns' = conns
                         \/ Connect(i)

LEMMA Moves == ASSUME BusInv, Next PROVE RegistryMoves
<1>1. ASSUME NEW t \in Task, TaskNext(t) PROVE RegistryMoves
  <2>1. At(t) \in Instance
    BY Coroutines DEF BusInv
  <2> QED BY <1>1, <2>1 DEF TaskNext, Started, Sent, SendFails, FallsBack, world, RegistryMoves
<1>2. ASSUME NEW m \in Message, Submit(m) \/ Publish(m) PROVE RegistryMoves
  BY <1>2 DEF Submit, Publish, world, RegistryMoves
<1>3. ASSUME NEW i \in Instance,
             Listen(i) \/ ListenerDies(i) \/ Connect(i) \/ Disconnect(i) \/ Restart(i)
      PROVE  RegistryMoves
  BY <1>3 DEF Listen, ListenerDies, Disconnect, Restart, world, RegistryMoves
<1> QED BY <1>1, <1>2, <1>3 DEF Next

LEMMA DistinctStep == ASSUME BusInv, Next PROVE Distinct'
<1>1. /\ reg \in [Instance -> {0} \cup Conn] /\ conns \in Nat
      /\ \A i \in Instance : reg[i] \in Nat /\ reg[i] <= conns
  BY ConnAssumption DEF BusInv, TypeOK, Distinct, Conn
<1>2. CASE UNCHANGED <<reg, conns>>
  BY <1>2 DEF BusInv, Distinct
<1>3. ASSUME NEW i \in Instance, reg' = [reg EXCEPT ![i] = 0], conns' = conns PROVE Distinct'
  BY <1>1, <1>3 DEF BusInv, Distinct
<1>4. ASSUME NEW i \in Instance, Connect(i) PROVE Distinct'
  <2>1. conns' = conns + 1 /\ reg' = [reg EXCEPT ![i] = conns + 1]
    BY <1>4 DEF Connect
  <2> QED BY <1>1, <2>1 DEF BusInv, Distinct
<1> QED BY Moves, <1>2, <1>3, <1>4 DEF RegistryMoves

LEMMA BusStep == BusInv /\ [Next]_vars => BusInv'
<1> SUFFICES ASSUME BusInv, [Next]_vars PROVE BusInv'
  OBVIOUS
<1>1. CASE UNCHANGED vars
  <2>1. UNCHANGED <<reg, conns, client, ear, inbox, job, home, got, moved, lossy>>
    BY <1>1 DEF vars, world, redis, history
  <2>2. TypeOK' /\ Distinct' /\ OwnMessage' /\ moved' \subseteq Begun'
    BY <2>1 DEF BusInv, TypeOK, Distinct, OwnMessage, Begun
  <2>3. ASSUME NEW m \in Message PROVE Fate(m)'
    BY <2>1 DEF BusInv, Fate, Untouched, Tracked, AtHome, HomeServed, Heard, Served, InHand, IsOut
  <2> QED BY <2>2, <2>3 DEF BusInv
<1>2. CASE Next
  <2>1. TypeOK' /\ OwnMessage' /\ Begun \subseteq Begun'
    BY <1>2, SenderTypes, TaskTypes, InstanceTypes DEF Next
  <2>2. moved' \subseteq Begun'
    <3>1. moved' = moved \/ moved' = Begun
      BY <1>2 DEF Next, TaskNext, Submit, Publish, Started, Sent, SendFails, FallsBack, Listen,
                  ListenerDies, Connect, Disconnect, Restart, history
    <3> QED BY <2>1, <3>1 DEF BusInv
  <2>3. ASSUME NEW m \in Message PROVE Fate(m)'
    <3>1. ASSUME NEW i \in Instance, Connect(i) \/ Disconnect(i) PROVE Fate(m)'
      <4>1. UNCHANGED <<job, inbox, got>> /\ moved' = Begun
        BY <3>1 DEF Connect, Disconnect, redis
      <4>2. \A j \in Instance : InHand(j, m)' => InHand(j, m)
        BY <4>1 DEF InHand
      <4> QED BY <4>1, <4>2, MovingFates
    <3>2. ASSUME NEW m0 \in Message, Submit(m0) \/ Publish(m0) PROVE Fate(m)'
      BY <3>2, SubmitFates, PublishFates
    <3>3. ASSUME NEW t \in Task, TaskNext(t) PROVE Fate(m)'
      BY <3>3, StartedFates, SentFates, SendFailsFates, FallsBackFates DEF TaskNext
    <3>4. ASSUME NEW i \in Instance, Listen(i) \/ ListenerDies(i) \/ Restart(i) PROVE Fate(m)'
      BY <3>4, ListenFates, ListenerDiesFates, RestartFates
    <3> QED BY <1>2, <3>1, <3>2, <3>3, <3>4 DEF Next
  <2> QED BY <2>1, <2>2, <2>3, DistinctStep, <1>2 DEF BusInv
<1> QED BY <1>1, <1>2

LEMMA BusInvHolds == Spec => []BusInv
BY BusInit, BusStep, PTL DEF Spec

\* send_to_host, broadcast and _redis_pubsub_listener keep registries, inboxes
\* and coroutines within their types, for every set of instances and messages.
THEOREM BusTypeCorrect == Spec => []TypeOK
<1>1. BusInv => TypeOK
  BY DEF BusInv
<1> QED BY <1>1, BusInvHolds, PTL

-----------------------------------------------------------------------------
LEMMA CountedOnce == ASSUME BusInv PROVE ExactlyOnce
<1> SUFFICES ASSUME NEW m \in Message, m \notin moved, NEW c \in Conn
             PROVE  /\ got[c][m] <= (IF m \in Begun /\ c \in Receivers(m) THEN 1 ELSE 0)
                    /\ (Settled(m) /\ m \notin lossy /\ c \in Receivers(m)) => got[c][m] = 1
  BY DEF ExactlyOnce
<1>1. /\ got[c][m] \in Nat /\ c # 0 /\ home[m] \in Instance
      /\ \A i \in Instance : reg[i] # 0 => reg[i] \in Conn
  BY ConnAssumption DEF BusInv, TypeOK, Conn
<1>2. CASE job[m] = Idle
  <2>1. got[c][m] = 0
    BY <1>2 DEF BusInv, Fate, Untouched
  <2>2. m \notin Begun /\ ~Settled(m)
    BY <1>2, Kinds DEF Begun, Settled
  <2> QED BY <2>1, <2>2
<1>3. CASE job[m] # Idle
  <2>1. Tracked(m) /\ m \in Begun
    BY <1>3, Known DEF Begun
  <2>2. CASE \A i \in Instance : reg[i] # c
    <3>1. c \notin Receivers(m)
      BY <1>1, <2>2 DEF Receivers
    <3>2. got[c][m] = 0
      BY <2>1, <2>2 DEF Tracked
    <3> QED BY <3>1, <3>2
  <2>3. CASE c = reg[home[m]]
    <3>1. c \in Receivers(m)
      BY <1>1, <2>3 DEF Receivers
    <3>2. got[c][m] <= 1
      BY <1>1, <2>1, <2>3 DEF Tracked, HomeServed
    <3>3. Settled(m) /\ m \notin lossy => got[c][m] = 1
      BY <1>1, <2>1, <2>3, Kinds DEF Tracked, HomeServed, Settled
    <3> QED BY <2>1, <3>1, <3>2, <3>3
  <2>4. ASSUME NEW i \in Instance, c = reg[i], i # home[m]
        PROVE  /\ got[c][m] <= (IF c \in Receivers(m) THEN 1 ELSE 0)
               /\ (Settled(m) /\ m \notin lossy /\ c \in Receivers(m)) => got[c][m] = 1
    <3>1. Served(i, m) /\ reg[i] # 0
      BY <1>1, <2>1, <2>4 DEF Tracked
    <3>2. c # reg[home[m]]
      BY <1>1, <2>4, <3>1 DEF BusInv, Distinct
    <3>3. c \in Receivers(m) <=> ~(m \in Unicasts /\ reg[home[m]] # 0)
      BY <1>1, <2>4, <3>2 DEF Receivers
    <3>4. c \notin Receivers(m) => got[c][m] = 0
      BY <1>1, <2>4, <3>1, <3>3 DEF Served, IsOut
    <3>5. Settled(m) /\ c \in Receivers(m) => IsOut(m) /\ ~Mentions(inbox[i], m) /\ ~InHand(i, m)
      BY <3>3 DEF Settled, IsOut, Mentions, InHand, InboxMessages
    <3> QED BY <1>1, <2>4, <3>1, <3>4, <3>5 DEF Served
  <2> QED BY <2>1, <2>2, <2>3, <2>4
<1> QED BY <1>2, <1>3

\* send_to_host, broadcast and the listeners: a message that nobody lost reaches
\* an agent that stays where it is exactly once, whatever number of instances
\* and of messages is under way, and in whatever order their coroutines run.
THEOREM DeliveredOnce == Spec => []ExactlyOnce
BY BusInvHolds, CountedOnce, PTL

-----------------------------------------------------------------------------
(* A message for one agent, however often the agent moves.                   *)

Carries(i, c) == job[i].step = "send" /\ job[i].conn = c

\* No two instances write to one connection.
OwnConnections ==
  \A i, j \in Instance, c \in Conn : Carries(i, c) /\ i # j => reg[j] # c /\ ~Carries(j, c)

KnownConnections == \A t \in Task : job[t].step = "send" => job[t].conn <= conns

\* If an instance still has m, it will not write it to c.
Spared(i, m, c) ==
  InHand(i, m) \/ Mentions(inbox[i], m) => reg[i] # c /\ ~(InHand(i, m) /\ Carries(i, c))

Copies(i, m) ==
  /\ Single(inbox[i], m) /\ Labelled(inbox[i], m, home[m])
  /\ InHand(i, m) => job[i].step = "send" /\ ~Mentions(inbox[i], m)

Once(m) ==
  /\ job[m] # Over => Untouched(m) /\ job[m].step \in {"idle", "send", "fallback"}
  /\ \A i \in Instance : Copies(i, m)
  /\ \A c \in Conn : got[c][m] # 0 => /\ got[c][m] = 1 /\ c <= conns
                                      /\ \A i \in Instance : Spared(i, m, c)

UnicastInv ==
  BusInv /\ OwnConnections /\ KnownConnections /\ \A m \in Unicasts : Once(m)

LEMMA UnicastInit == Init => UnicastInv
<1> SUFFICES ASSUME Init PROVE UnicastInv
  OBVIOUS
<1>1. BusInv
  BY BusInit
<1>2. \A t \in Task : job[t] = Idle
  BY DEF Init
<1>3. OwnConnections /\ KnownConnections
  BY <1>2, Kinds DEF OwnConnections, KnownConnections, Carries, Task
<1>4. ASSUME NEW m \in Unicasts PROVE Once(m)
  <2>1. m \in Message /\ job[m] = Idle
    BY <1>2 DEF Message, Task
  <2>2. \A i \in Instance : inbox[i] = <<>> /\ ~InHand(i, m)
    BY <1>2, Kinds DEF Init, InHand, Task
  <2>3. \A i \in Instance : ~Mentions(inbox[i], m) /\ Copies(i, m)
    BY <2>2, Emptied DEF Copies
  <2>4. \A c \in Conn : got[c][m] = 0
    BY <2>1 DEF Init
  <2> QED BY <2>1, <2>2, <2>3, <2>4, Kinds DEF Once, Untouched
<1> QED BY <1>1, <1>3, <1>4 DEF UnicastInv

\* Whatever a coroutine newly has in hand for a connection is for the one its
\* instance has registered.
SendsToRegistered ==
  \A t \in Task : job'[t] = job[t] \/ job'[t].step # "send" \/ job'[t].conn = reg[At(t)]

LEMMA Sendings == ASSUME BusInv, Next PROVE SendsToRegistered
<1>1. TypeOK /\ job \in [Task -> Job]
  BY DEF BusInv, TypeOK
<1>2. \A i \in Instance, m \in Message :
        SendToHost(i, m).step # "send" \/ SendToHost(i, m).conn = reg[i]
  <2> SUFFICES ASSUME NEW i \in Instance, NEW m \in Message
               PROVE  SendToHost(i, m).step # "send" \/ SendToHost(i, m).conn = reg[i]
    OBVIOUS
  <2> QED BY <1>1, SendsToHost, Kinds
<1>3. \A u \in Task : Then(u).step # "send"
  BY Thens, Kinds DEF Task
<1>4. ASSUME NEW u \in Task, NEW v, job' = [job EXCEPT ![u] = v],
             v.step # "send" \/ v.conn = reg[At(u)]
      PROVE  SendsToRegistered
  BY <1>1, <1>4 DEF SendsToRegistered
<1>5. ASSUME NEW m \in Message, Submit(m) PROVE SendsToRegistered
  <2> DEFINE v == IF m \in Unicasts THEN SendToHost(home[m], m)
                  ELSE IF reg[home[m]] # 0 THEN Waiting("start", m) ELSE Waiting("publish", m)
  <2>1. job' = [job EXCEPT ![m] = v] /\ m \in Task
    BY <1>5 DEF Submit, Task
  <2>2. At(m) = home[m] /\ home[m] \in Instance
    BY <1>1, <2>1, Coroutines
  <2>3. v.step # "send" \/ v.conn = reg[At(m)]
    BY <1>2, <2>2, Kinds
  <2> HIDE DEF v
  <2> QED BY <1>4, <2>1, <2>3
<1>6. ASSUME NEW m \in Message, Publish(m) PROVE SendsToRegistered
  BY <1>4, <1>6, Kinds DEF Publish, Task
<1>7. ASSUME NEW t \in Task, Started(t) PROVE SendsToRegistered
  <2>1. job' = [job EXCEPT ![t] = SendToHost(At(t), job[t].msg)] /\ job[t].step = "start"
    BY <1>7 DEF Started
  <2>2. At(t) \in Instance /\ job[t].msg \in Message
    BY <1>1, <2>1, Coroutines
  <2> QED BY <1>2, <1>4, <2>1, <2>2
<1>8. ASSUME NEW t \in Task, Sent(t) \/ SendFails(t) \/ FallsBack(t) PROVE SendsToRegistered
  BY <1>3, <1>4, <1>8 DEF Sent, SendFails, FallsBack
<1>9. ASSUME NEW i \in Instance, Listen(i) PROVE SendsToRegistered
  <2>1. /\ inbox[i] # <<>> /\ inbox[i] \in Seq(Item)
        /\ job' = [job EXCEPT ![i] = Hear(i, Head(inbox[i]))]
    BY <1>1, <1>9 DEF Listen, TypeOK
  <2>2. Head(inbox[i]) \in Item
    BY <2>1
  <2>3. Hear(i, Head(inbox[i])).step # "send" \/ Hear(i, Head(inbox[i])).conn = reg[i]
    BY <1>1, <2>2, Hears, Kinds
  <2>4. i \in Task /\ At(i) = i
    BY DEF Task, At
  <2> QED BY <1>4, <2>1, <2>3, <2>4
<1>10. ASSUME NEW i \in Instance, ListenerDies(i) \/ Connect(i) \/ Disconnect(i)
       PROVE  SendsToRegistered
  BY <1>10 DEF ListenerDies, Connect, Disconnect, redis, SendsToRegistered
<1>11. ASSUME NEW i \in Instance, Restart(i) PROVE SendsToRegistered
  <2>1. \A t \in Task : job'[t] = job[t] \/ job'[t] = Over \/ job'[t] = Idle
    BY <1>11 DEF Restart
  <2> QED BY <2>1, Kinds DEF SendsToRegistered
<1> QED BY <1>5, <1>6, <1>7, <1>8, <1>9, <1>10, <1>11 DEF Next, TaskNext

\* A registered connection is dropped, or a new one takes its place.
LEMMA Registers ==
    ASSUME BusInv, Next
    PROVE  /\ conns \in Nat /\ conns' \in Nat /\ conns <= conns' /\ home' = home
           /\ \A i \in Instance : /\ reg[i] \in Nat /\ reg[i] <= conns
                                  /\ reg'[i] \in {reg[i], 0, conns + 1}
<1>1. /\ reg \in [Instance -> {0} \cup Conn] /\ conns \in Nat
      /\ \A i \in Instance : reg[i] \in Nat /\ reg[i] <= conns
  BY ConnAssumption DEF BusInv, TypeOK, Distinct, Conn
<1>2. home' = home
  BY DEF Next, Submit, Publish, TaskNext, Started, Sent, SendFails, FallsBack, Listen,
         ListenerDies, Connect, Disconnect, Restart
<1>3. CASE UNCHANGED <<reg, conns>>
  BY <1>1, <1>2, <1>3
<1>4. ASSUME NEW i \in Instance, reg' = [reg EXCEPT ![i] = 0], conns' = conns
      PROVE  conns <= conns' /\ \A j \in Instance : reg'[j] \in {reg[j], 0, conns + 1}
  BY <1>1, <1>4
<1>5. ASSUME NEW i \in Instance, Connect(i)
      PROVE  /\ conns' \in Nat /\ conns <= conns'
             /\ \A j \in Instance : reg'[j] \in {reg[j], 0, conns + 1}
  <2>1. conns' = conns + 1 /\ reg' = [reg EXCEPT ![i] = conns + 1]
    BY <1>5 DEF Connect
  <2> QED BY <1>1, <2>1
<1> QED BY Moves, <1>1, <1>2, <1>3, <1>4, <1>5 DEF RegistryMoves

LEMMA ConnectionsKept ==
    ASSUME BusInv, OwnConnections, KnownConnections, Next
    PROVE  OwnConnections' /\ KnownConnections'
<1>1. TypeOK /\ SendsToRegistered
  BY Sendings DEF BusInv
<1>2. \A t \in Task : job[t].step = "send" => job[t].conn \in Nat
  BY <1>1, Coroutines, ConnAssumption DEF Conn
<1>3. KnownConnections'
  <2> SUFFICES ASSUME NEW t \in Task, job'[t].step = "send" PROVE job'[t].conn <= conns'
    BY DEF KnownConnections
  <2>1. At(t) \in Instance
    BY <1>1, Coroutines
  <2> QED BY <1>1, <1>2, <2>1, Registers DEF SendsToRegistered, KnownConnections
<1>4. OwnConnections'
  <2> SUFFICES ASSUME NEW i \in Instance, NEW j \in Instance, NEW c \in Conn,
                      Carries(i, c)', i # j
               PROVE  reg'[j] # c /\ ~Carries(j, c)'
    BY DEF OwnConnections
  <2>1. \A k \in Instance : Carries(k, c)' => Carries(k, c) \/ reg[k] = c
    BY <1>1 DEF SendsToRegistered, Carries, Task, At
  <2>2. c \in Nat /\ c # 0
    BY ConnAssumption DEF Conn
  <2>3. c <= conns /\ reg[j] # c
    <3>1. CASE Carries(i, c)
      BY <3>1 DEF OwnConnections, KnownConnections, Carries, Task
    <3>2. CASE reg[i] = c
      BY <2>2, <3>2, Registers DEF BusInv, Distinct
    <3> QED BY <2>1, <3>1, <3>2
  <2>4. ~Carries(j, c)
    BY <2>1 DEF OwnConnections
  <2> QED BY <2>1, <2>2, <2>3, <2>4, Registers
<1> QED BY <1>3, <1>4

\* A step that brings no copy of m anywhere.
LEMMA OnceKept ==
    ASSUME UnicastInv, Next, NEW m \in Unicasts,
           \/ job'[m] = job[m] \/ job'[m] = Over
           \/ job[m] # Over /\ job'[m].step \in {"send", "fallback"},
           \A i \in Instance :
             /\ InHand(i, m)' => InHand(i, m) /\ job'[i] = job[i]
             /\ Mentions(inbox'[i], m) => Mentions(inbox[i], m)
             /\ Single(inbox'[i], m) /\ Labelled(inbox'[i], m, home[m]),
           \A c \in Conn : got'[c][m] = got[c][m]
    PROVE  Once(m)'
<1>1. Once(m)
  BY DEF UnicastInv
<1>2. home' = home /\ conns \in Nat /\ conns' \in Nat /\ conns <= conns'
  BY Registers DEF UnicastInv
<1>3. ASSUME job'[m] # Over PROVE Untouched(m)' /\ job'[m].step \in {"idle", "send", "fallback"}
  BY <1>1, <1>3 DEF Once, Untouched
<1>4. ASSUME NEW i \in Instance PROVE Copies(i, m)'
  <2>1. Copies(i, m)
    BY <1>1 DEF Once
  <2> QED BY <1>2, <2>1 DEF Copies
<1>5. ASSUME NEW c \in Conn, got'[c][m] # 0
      PROVE  got'[c][m] = 1 /\ c <= conns' /\ \A i \in Instance : Spared(i, m, c)'
  <2>1. got[c][m] = 1 /\ c <= conns /\ \A i \in Instance : Spared(i, m, c)
    BY <1>1, <1>5 DEF Once
  <2>2. c \in Nat /\ c # 0
    BY ConnAssumption DEF Conn
  <2>3. ASSUME NEW i \in Instance PROVE Spared(i, m, c)'
    <3>1. reg'[i] \in {reg[i], 0, conns + 1}
      BY Registers DEF UnicastInv
    <3>2. conns + 1 # c
      BY <1>2, <2>1, <2>2
    <3>3. Spared(i, m, c)
      BY <2>1
    <3>4. Carries(i, c)' /\ InHand(i, m)' => Carries(i, c)
      BY DEF Carries
    <3> QED BY <2>2, <3>1, <3>2, <3>3, <3>4 DEF Spared
  <2> QED BY <1>2, <2>1, <2>2, <2>3
<1> QED BY <1>3, <1>4, <1>5 DEF Once

\* What one knows of a unicast before a step.
LEMMA OnceFacts ==
    ASSUME UnicastInv, NEW m \in Unicasts
    PROVE  /\ Once(m) /\ m \in Message /\ m \in Task /\ m \notin Instance /\ m \notin Broadcasts
           /\ TypeOK /\ BusInv /\ job \in [Task -> Job] /\ home[m] \in Instance
           /\ \A i \in Instance : /\ i \in Task /\ inbox[i] \in Seq(Item)
                                  /\ Single(inbox[i], m) /\ Labelled(inbox[i], m, home[m])
                                  /\ InHand(i, m) => job[i].step = "send"
BY DistinctAssumption DEF UnicastInv, BusInv, TypeOK, Message, Task, Once, Copies

\* A coroutine turns to something that is not about m.
LEMMA CoroutineKeeps ==
    ASSUME UnicastInv, Next, NEW m \in Unicasts, NEW t \in Task, NEW v,
           job' = [job EXCEPT ![t] = v],
           t = m => v = Over \/ (job[m] # Over /\ v.step \in {"send", "fallback"}),
           t \in Instance => v.step \in {"idle", "over"} \/ v.msg # m,
           InboxKeeps(m), \A c \in Conn : got'[c][m] = got[c][m]
    PROVE  Once(m)'
<1>1. job \in [Task -> Job] /\ m \in Task
  BY OnceFacts
<1>2. \/ job'[m] = job[m] \/ job'[m] = Over
      \/ job[m] # Over /\ job'[m].step \in {"send", "fallback"}
  BY <1>1
<1>3. ASSUME NEW i \in Instance PROVE InHand(i, m)' => InHand(i, m) /\ job'[i] = job[i]
  <2>1. i # t => job'[i] = job[i]
    BY <1>1 DEF Task
  <2>2. i = t => job'[i] = v
    BY <1>1
  <2> QED BY <2>1, <2>2 DEF InHand
<1>4. \A i \in Instance :
        /\ Mentions(inbox'[i], m) => Mentions(inbox[i], m)
        /\ Single(inbox'[i], m) /\ Labelled(inbox'[i], m, home[m])
  BY OnceFacts DEF InboxKeeps
<1> QED BY <1>2, <1>3, <1>4, OnceKept

LEMMA OnceSubmitted ==
    ASSUME UnicastInv, Next, NEW m \in Unicasts, NEW m0 \in Message, Submit(m0) PROVE Once(m)'
<1> DEFINE v == IF m0 \in Unicasts THEN SendToHost(home[m0], m0)
                ELSE IF reg[home[m0]] # 0 THEN Waiting("start", m0) ELSE Waiting("publish", m0)
<1>1. /\ job[m0] = Idle /\ job' = [job EXCEPT ![m0] = v]
      /\ UNCHANGED <<inbox, got, lossy>>
  BY DEF Submit, redis, history
<1>2. m0 \in Task /\ m0 \notin Instance /\ home[m0] \in Instance /\ TypeOK
  BY DistinctAssumption, OnceFacts DEF TypeOK, Message, Task
<1>3. m0 = m => job[m] # Over /\ v.step \in {"send", "fallback"}
  BY <1>1, <1>2, SendsToHost, Kinds
<1> HIDE DEF v
<1> QED BY <1>1, <1>2, <1>3, SameInbox, CoroutineKeeps

LEMMA OncePublished ==
    ASSUME UnicastInv, Next, NEW m \in Unicasts, NEW m0 \in Message, Publish(m0) PROVE Once(m)'
<1>1. /\ job[m0].step = "publish" /\ Published(m0, "broadcast", home[m0])
      /\ job' = [job EXCEPT ![m0] = Over] /\ UNCHANGED got
  BY DEF Publish
<1>2. m0 \in Task /\ m0 \notin Instance /\ home[m0] \in Instance
  BY DistinctAssumption, OnceFacts DEF TypeOK, Message, Task
<1>3. m # m0
  BY <1>1, OnceFacts, Kinds DEF Once
<1>4. InboxKeeps(m)
  BY <1>1, <1>2, <1>3, OnceFacts, PublishedKeeps
<1> QED BY <1>1, <1>2, <1>4, CoroutineKeeps

LEMMA OnceStarted ==
    ASSUME UnicastInv, Next, NEW m \in Unicasts, NEW t \in Task, Started(t) PROVE Once(m)'
<1>1. /\ job[t].step = "start" /\ job' = [job EXCEPT ![t] = SendToHost(At(t), job[t].msg)]
      /\ UNCHANGED <<inbox, got, lossy>>
  BY DEF Started, redis, history
<1>2. At(t) \in Instance /\ job[t].msg \in Message
  BY <1>1, OnceFacts, Coroutines
<1>3. t # m
  BY <1>1, OnceFacts, Kinds DEF Once
<1>4. t \in Instance => job[t].msg # m
  BY <1>1, OnceFacts DEF InHand
<1>5. SendToHost(At(t), job[t].msg).msg = job[t].msg
  BY <1>2, OnceFacts, SendsToHost
<1> QED BY <1>1, <1>3, <1>4, <1>5, SameInbox, CoroutineKeeps

LEMMA OnceSendFailed ==
    ASSUME UnicastInv, Next, NEW m \in Unicasts, NEW t \in Task, SendFails(t) PROVE Once(m)'
<1>1. job' = [job EXCEPT ![t] = Then(t)] /\ UNCHANGED <<inbox, got, lossy>>
  BY DEF SendFails, redis
<1>2. t = m => Then(t) = Over
  BY OnceFacts, Thens
<1>3. t \in Instance => Then(t).step = "idle"
  BY Thens, Kinds
<1> QED BY <1>1, <1>2, <1>3, SameInbox, CoroutineKeeps

\* The fallback of a unicast: until now nobody has heard of it.
LEMMA OnceFallenBack ==
    ASSUME UnicastInv, Next, NEW m \in Unicasts, NEW t \in Task, FallsBack(t) PROVE Once(m)'
<1>1. /\ job[t].step = "fallback" /\ Published(job[t].msg, "unicast", At(t))
      /\ job' = [job EXCEPT ![t] = Then(t)] /\ UNCHANGED got
  BY DEF FallsBack
<1>2. At(t) \in Instance /\ job[t].msg \in Message
  BY <1>1, OnceFacts, Coroutines
<1>3. t = m => Then(t) = Over
  BY OnceFacts, Thens
<1>4. t \in Instance => Then(t).step = "idle"
  BY Thens, Kinds
<1>5. CASE t # m
  <2>1. job[t].msg # m
    <3>1. CASE t \in Instance
      BY <1>1, <3>1, OnceFacts DEF InHand
    <3>2. CASE t \in Message
      BY <1>1, <1>5, <3>2, OnceFacts DEF BusInv, OwnMessage
    <3> QED BY <3>1, <3>2 DEF Task
  <2>2. InboxKeeps(m)
    BY <1>1, <1>2, <2>1, OnceFacts, PublishedKeeps
  <2> QED BY <1>1, <1>4, <1>5, <2>2, CoroutineKeeps
<1>6. CASE t = m
  <2>1. job[m] # Over /\ job[m].msg = m /\ At(t) = home[m]
    BY <1>1, <1>6, OnceFacts, Kinds DEF BusInv, OwnMessage, At
  <2>2. Untouched(m)
    BY <2>1, OnceFacts DEF Once
  <2>3. \A i \in Instance : Single(inbox'[i], m) /\ Labelled(inbox'[i], m, home[m])
    BY <1>1, <1>6, <2>1, <2>2, OnceFacts, PublishedReaches DEF Untouched
  <2>4. job'[m] = Over /\ \A i \in Instance : job'[i] = job[i]
    BY <1>1, <1>3, <1>6, OnceFacts
  <2>5. \A i \in Instance : ~InHand(i, m)'
    BY <2>2, <2>4 DEF InHand, Untouched
  <2>6. \A c \in Conn : got'[c][m] = 0
    BY <1>1, <2>2 DEF Untouched
  <2>7. home' = home
    BY DEF FallsBack
  <2> QED BY <2>3, <2>4, <2>5, <2>6, <2>7 DEF Once, Copies
<1> QED BY <1>5, <1>6

\* Whoever sends m has the last copy that can reach the connection.
LEMMA OnceSent ==
    ASSUME UnicastInv, Next, NEW m \in Unicasts, NEW t \in Task, Sent(t) PROVE Once(m)'
<1>1. /\ job[t].step = "send" /\ job' = [job EXCEPT ![t] = Then(t)]
      /\ UNCHANGED <<reg, conns, inbox, home>> /\ lossy \subseteq lossy'
      /\ got' = got \/ got' = [got EXCEPT ![job[t].conn][job[t].msg] = @ + 1]
  BY DEF Sent, world, redis
<1>2. /\ job[t].conn \in Conn /\ job[t].msg \in Message /\ got \in [Conn -> [Message -> Nat]]
      /\ job[t].conn <= conns
  BY <1>1, OnceFacts, Coroutines DEF TypeOK, UnicastInv, KnownConnections
<1>3. t = m => Then(t) = Over
  BY OnceFacts, Thens
<1>4. t \in Instance => Then(t).step = "idle"
  BY Thens, Kinds
<1>5. CASE \A c \in Conn : got'[c][m] = got[c][m]
  BY <1>1, <1>3, <1>4, <1>5, SameInbox, CoroutineKeeps
<1>6. CASE job[t].msg = m /\ got' = [got EXCEPT ![job[t].conn][m] = @ + 1]
  <2> DEFINE d == job[t].conn
  <2>1. \A c \in Conn : got'[c][m] = IF c = d THEN got[c][m] + 1 ELSE got[c][m]
    BY <1>2, <1>6, OnceFacts
  <2>2. CASE t \in Message
    <3>1. t = m /\ job[m] # Over
      BY <1>1, <1>6, <2>2, Kinds DEF UnicastInv, BusInv, OwnMessage
    <3>2. Untouched(m)
      BY <3>1, OnceFacts DEF Once
    <3>3. job'[m] = Over /\ \A i \in Instance : job'[i] = job[i]
      BY <1>1, <1>3, <3>1, OnceFacts
    <3>4. \A i \in Instance : ~InHand(i, m)' /\ ~Mentions(inbox'[i], m)
      BY <1>1, <3>2, <3>3 DEF InHand, Untouched
    <3>5. \A i \in Instance : Copies(i, m)' /\ \A c \in Conn : Spared(i, m, c)'
      BY <1>1, <3>4, OnceFacts DEF Copies, Spared
    <3>6. \A c \in Conn : got'[c][m] = IF c = d THEN 1 ELSE 0
      BY <2>1, <3>2 DEF Untouched
    <3> QED BY <1>1, <1>2, <3>3, <3>5, <3>6 DEF Once
  <2>3. CASE t \in Instance
    <3>1. InHand(t, m) /\ Carries(t, d) /\ job[m] = Over /\ ~Mentions(inbox[t], m)
      BY <1>1, <1>6, <2>3, OnceFacts DEF InHand, Carries, Once, Copies, Untouched
    <3>2. got[d][m] = 0
      BY <1>2, <2>3, <3>1, OnceFacts DEF Once, Spared
    <3>3. job'[m] = Over /\ \A i \in Instance : IF i = t THEN job'[i] = Idle ELSE job'[i] = job[i]
      BY <1>1, <2>3, <3>1, OnceFacts, Thens
    <3>4. ASSUME NEW i \in Instance
          PROVE  /\ InHand(i, m)' <=> InHand(i, m) /\ i # t
                 /\ i # t => \A c \in Conn : Carries(i, c)' <=> Carries(i, c)
      BY <3>3, Kinds DEF InHand, Carries
    <3>5. \A i \in Instance : Copies(i, m)'
      BY <1>1, <3>3, <3>4, OnceFacts DEF Once, Copies
    <3>6. ASSUME NEW c \in Conn, got'[c][m] # 0, NEW i \in Instance PROVE Spared(i, m, c)'
      <4>1. CASE i = t
        BY <1>1, <3>1, <3>4, <4>1 DEF Spared
      <4>2. CASE i # t /\ c = d
        <5>1. reg[i] # c /\ ~Carries(i, c)
          BY <1>2, <2>3, <3>1, <4>2 DEF UnicastInv, OwnConnections
        <5> QED BY <1>1, <3>4, <4>2, <5>1 DEF Spared
      <4>3. CASE i # t /\ c # d
        <5>1. Spared(i, m, c)
          BY <2>1, <3>6, <4>3, OnceFacts DEF Once
        <5> QED BY <1>1, <3>4, <4>3, <5>1 DEF Spared
      <4> QED BY <4>1, <4>2, <4>3
    <3>7. \A c \in Conn : got'[c][m] # 0 => got'[c][m] = 1 /\ c <= conns'
      <4>1. \A c \in Conn : got[c][m] # 0 => got[c][m] = 1 /\ c <= conns
        BY OnceFacts DEF Once
      <4> QED BY <1>1, <1>2, <2>1, <3>2, <4>1
    <3> QED BY <3>3, <3>5, <3>6, <3>7 DEF Once
  <2> QED BY <2>2, <2>3 DEF Task
<1>7. job[t].msg # m => \A c \in Conn : got'[c][m] = got[c][m]
  <2>1. m \in Message
    BY OnceFacts
  <2> QED BY <1>1, <1>2, <2>1
<1> QED BY <1>1, <1>5, <1>6, <1>7

\* A listener takes its copy in hand only for the connection it has registered.
LEMMA OnceHeard ==
    ASSUME UnicastInv, Next, NEW m \in Unicasts, NEW i \in Instance, Listen(i) PROVE Once(m)'
<1> DEFINE item == Head(inbox[i])
           v == Hear(i, item)
<1>1. /\ job[i] = Idle /\ inbox[i] # <<>>
      /\ job' = [job EXCEPT ![i] = v] /\ inbox' = [inbox EXCEPT ![i] = Tail(@)]
      /\ UNCHANGED <<reg, conns, home, got>>
  BY DEF Listen, world, history
<1>2. /\ item \in Item /\ Tail(inbox[i]) \in Seq(Item)
      /\ item.msg = m => /\ Mentions(inbox[i], m) /\ ~Mentions(Tail(inbox[i]), m)
                         /\ item.from = home[m] /\ item.kind = "unicast"
      /\ Mentions(Tail(inbox[i]), m) => Mentions(inbox[i], m)
      /\ Single(Tail(inbox[i]), m) /\ Labelled(Tail(inbox[i]), m, home[m])
  BY <1>1, OnceFacts, Taken
<1>3. ASSUME NEW k \in Instance
      PROVE  /\ inbox'[k] = IF k = i THEN Tail(inbox[i]) ELSE inbox[k]
             /\ job'[k] = IF k = i THEN v ELSE job[k]
  BY <1>1, OnceFacts DEF TypeOK
<1>4. v = Idle \/ v.msg = item.msg
  BY <1>2, OnceFacts, Hears, Kinds
<1>5. \A k \in Instance :
        /\ Mentions(inbox'[k], m) => Mentions(inbox[k], m)
        /\ Single(inbox'[k], m) /\ Labelled(inbox'[k], m, home[m])
  BY <1>2, <1>3, OnceFacts
<1>6. job'[m] = job[m]
  BY <1>1, OnceFacts
<1> HIDE DEF v, item
<1>7. CASE item.msg # m \/ v = Idle
  <2>1. \A k \in Instance : InHand(k, m)' => InHand(k, m) /\ job'[k] = job[k]
    BY <1>3, <1>4, <1>7, Kinds DEF InHand
  <2> QED BY <1>1, <1>5, <1>6, <2>1, OnceKept
<1>8. CASE item.msg = m /\ v # Idle
  <2>1. v = Sending(m, reg[i]) /\ reg[i] # 0
    <3>1. v = HearUnicast(i, m)
      BY <1>2, <1>8 DEF v, Hear
    <3> QED BY <1>8, <3>1 DEF HearUnicast
  <2>2. job[m] = Over
    BY <1>2, <1>8, OnceFacts DEF Once, Untouched
  <2>3. ~InHand(i, m) /\ ~Mentions(inbox'[i], m)
    BY <1>1, <1>2, <1>3, <1>8, Kinds DEF InHand
  <2>4. \A k \in Instance : k # i => (InHand(k, m)' <=> InHand(k, m))
    BY <1>3 DEF InHand
  <2>5. ASSUME NEW k \in Instance PROVE Copies(k, m)'
    <3>1. CASE k = i
      BY <1>1, <1>3, <1>5, <2>1, <2>3, <3>1, Kinds DEF Copies
    <3>2. CASE k # i
      BY <1>1, <1>3, <2>4, <3>2, OnceFacts DEF Once, Copies
    <3> QED BY <3>1, <3>2
  <2>6. ASSUME NEW c \in Conn, got'[c][m] # 0
        PROVE  got'[c][m] = 1 /\ c <= conns' /\ \A k \in Instance : Spared(k, m, c)'
    <3>1. got[c][m] = 1 /\ c <= conns /\ \A k \in Instance : Spared(k, m, c)
      BY <1>1, <2>6, OnceFacts DEF Once
    <3>2. reg[i] # c
      BY <1>2, <1>8, <3>1 DEF Spared
    <3>3. Spared(i, m, c)'
      BY <1>1, <1>3, <2>1, <3>2, Kinds DEF Spared, Carries
    <3>4. ASSUME NEW k \in Instance, k # i PROVE Spared(k, m, c)'
      <4>1. Spared(k, m, c)
        BY <3>1
      <4> QED BY <1>1, <1>3, <2>4, <3>4, <4>1 DEF Spared, Carries
    <3> QED BY <1>1, <3>1, <3>3, <3>4
  <2> QED BY <1>6, <2>2, <2>5, <2>6 DEF Once
<1> QED BY <1>7, <1>8

LEMMA OnceMoved ==
    ASSUME UnicastInv, Next, NEW m \in Unicasts, NEW i \in Instance,
           ListenerDies(i) \/ Connect(i) \/ Disconnect(i) \/ Restart(i)
    PROVE  Once(m)'
<1>1. UNCHANGED <<home, got>>
  BY DEF ListenerDies, Connect, Disconnect, Restart
<1>2. inbox' = inbox \/ inbox' = [inbox EXCEPT ![i] = <<>>]
  BY DEF ListenerDies, Connect, Disconnect, Restart, redis
<1>3. \A t \in Task : job'[t] = job[t] \/ job'[t] = Over \/ (t = i /\ job'[t] = Idle)
  BY DEF ListenerDies, Connect, Disconnect, Restart, redis
<1>4. job'[m] = job[m] \/ job'[m] = Over
  BY <1>3, OnceFacts
<1>5. ASSUME NEW k \in Instance
      PROVE  /\ InHand(k, m)' => InHand(k, m) /\ job'[k] = job[k]
             /\ Mentions(inbox'[k], m) => Mentions(inbox[k], m)
             /\ Single(inbox'[k], m) /\ Labelled(inbox'[k], m, home[m])
  <2>1. job'[k] = job[k] \/ job'[k] = Over \/ job'[k] = Idle
    BY <1>3 DEF Task
  <2>2. inbox'[k] = inbox[k] \/ inbox'[k] = <<>>
    BY <1>2, OnceFacts DEF TypeOK
  <2>3. InHand(k, m)' => InHand(k, m) /\ job'[k] = job[k]
    BY <2>1, Kinds DEF InHand
  <2>4. Single(inbox[k], m) /\ Labelled(inbox[k], m, home[m])
    BY OnceFacts
  <2>5. ~Mentions(<<>>, m) /\ Single(<<>>, m) /\ Labelled(<<>>, m, home[m])
    BY Emptied
  <2> QED BY <2>2, <2>3, <2>4, <2>5
<1> QED BY <1>1, <1>4, <1>5, OnceKept

LEMMA UnicastStep == UnicastInv /\ [Next]_vars => UnicastInv'
<1> SUFFICES ASSUME UnicastInv, [Next]_vars PROVE UnicastInv'
  OBVIOUS
<1>1. BusInv'
  BY BusStep DEF UnicastInv
<1>2. CASE UNCHANGED vars
  <2>1. UNCHANGED <<reg, conns, inbox, job, home, got>>
    BY <1>2 DEF vars, world, redis, history
  <2>2. OwnConnections' /\ KnownConnections'
    BY <2>1 DEF UnicastInv, OwnConnections, KnownConnections, Carries
  <2>3. ASSUME NEW m \in Unicasts PROVE Once(m)'
    BY <2>1 DEF UnicastInv, Once, Untouched, Copies, Spared, InHand, Carries
  <2> QED BY <1>1, <2>2, <2>3 DEF UnicastInv
<1>3. CASE Next
  <2>1. OwnConnections' /\ KnownConnections'
    BY <1>3, ConnectionsKept DEF UnicastInv
  <2>2. ASSUME NEW m \in Unicasts PROVE Once(m)'
    <3>1. ASSUME NEW m0 \in Message, Submit(m0) \/ Publish(m0) PROVE Once(m)'
      BY <1>3, <3>1, OnceSubmitted, OncePublished
    <3>2. ASSUME NEW t \in Task, TaskNext(t) PROVE Once(m)'
      BY <1>3, <3>2, OnceStarted, OnceSent, OnceSendFailed, OnceFallenBack DEF TaskNext
    <3>3. ASSUME NEW i \in Instance,
                 Listen(i) \/ ListenerDies(i) \/ Connect(i) \/ Disconnect(i) \/ Restart(i)
          PROVE  Once(m)'
      BY <1>3, <3>3, OnceHeard, OnceMoved
    <3> QED BY <1>3, <3>1, <3>2, <3>3 DEF Next
  <2> QED BY <1>1, <2>1, <2>2 DEF UnicastInv
<1> QED BY <1>2, <1>3

\* send_to_host, its fallback and the listeners: no connection is sent a message
\* for one agent twice, wherever the agent moves in the meantime and whatever is
\* lost, fails or restarts.
THEOREM NeverDoubled == Spec => []UnicastOnce
<1>1. UnicastInv => UnicastOnce
  <2> SUFFICES ASSUME UnicastInv, NEW m \in Unicasts, NEW c \in Conn PROVE got[c][m] <= 1
    BY DEF UnicastOnce
  <2>1. got[c][m] = 0 \/ got[c][m] = 1
    BY OnceFacts DEF Once
  <2> QED BY <2>1
<1> QED BY <1>1, UnicastInit, UnicastStep, PTL DEF Spec
=============================================================================
