------------------------- MODULE SharePolicy_proofs -------------------------
(***************************************************************************)
(* SharePolicy for any connections, peers and bounds: its types, that the  *)
(* hub, the document actor and the IO loop agree on who is connected, that *)
(* no check of a policy is lost between them, that no decision is undone   *)
(* by an older one, and that every sync message is handled once, in order. *)
(***************************************************************************)
EXTENDS SharePolicy, SequenceTheorems, FiniteSetTheorems, TLAPS

LEMMA NumbersAssociate ==
  ASSUME NEW a \in Seq(Nat), NEW b \in Seq(Nat), NEW d \in Seq(Nat)
  PROVE  (a \o b) \o d = a \o (b \o d)
BY ConcatAssociative, SMTT(60)

USE SharePolicyAssumption DEF SharePolicyAssumption

(* An enumeration of a finite set is a sequence that reaches all of it.    *)
LEMMA Enumerates ==
  ASSUME NEW S \in SUBSET Conn, NEW order \in SetToSeqs(S)
  PROVE  /\ order \in Seq(S) /\ DOMAIN order = 1 .. Len(order)
         /\ \A x \in S : \E i \in 1 .. Len(order) : order[i] = x
         /\ \A i, j \in 1 .. Len(order) : order[i] = order[j] => i = j
<1> DEFINE D == 1 .. Cardinality(S)
<1>1. IsFiniteSet(S) /\ Cardinality(S) \in Nat
  BY FS_Subset, FS_CardinalityType
<1>2. order \in [D -> S] /\ \A i, j \in D : i # j => order[i] # order[j]
  BY DEF SetToSeqs
<1>3. order \in Seq(S) /\ Len(order) = Cardinality(S) /\ DOMAIN order = D
  BY <1>1, <1>2
<1>4. order \in Injection(D, S)
  BY <1>2 DEF Injection, IsInjective
<1>5. IsFiniteSet(D) /\ Cardinality(D) = Cardinality(S)
  BY <1>1, FS_Interval
<1>6. order \in Surjection(D, S)
  BY <1>1, <1>4, <1>5, FS_Injection
<1>7. QED
  BY <1>2, <1>3, <1>6 DEF Surjection

(* What the hub tells the actor about connections it is not subscribed to. *)
LEMMA NewTasks ==
  ASSUME NEW S \in SUBSET Conn, NEW order \in SetToSeqs(S)
  PROVE  LET news == [i \in DOMAIN order |-> New(order[i])]
         IN  /\ news \in Seq(Task) /\ Len(news) = Len(order)
             /\ \A i \in 1 .. Len(order) : news[i] = New(order[i]) /\ order[i] \in S
<1> DEFINE news == [i \in DOMAIN order |-> New(order[i])]
<1>1. order \in Seq(S) /\ DOMAIN order = 1 .. Len(order) /\ Len(order) \in Nat
  BY Enumerates, LenProperties
<1>2. \A i \in 1 .. Len(order) : order[i] \in S
  BY <1>1, ElementOfSeq
<1>3. \A i \in 1 .. Len(order) : New(order[i]) \in Task
  BY <1>2 DEF New, Task
<1>4. news \in [1 .. Len(order) -> Task]
  BY <1>1, <1>3
<1>5. news \in Seq(Task) /\ Len(news) = Len(order)
  BY <1>1, <1>4
<1>6. QED
  BY <1>1, <1>2, <1>5

LEMMA CheckTasks ==
  ASSUME NEW S \in SUBSET Conn, NEW order \in SetToSeqs(S)
  PROVE  LET new == [i \in DOMAIN order |-> Check(order[i])]
         IN  /\ new \in Seq(IoTask) /\ Len(new) = Len(order)
             /\ \A i \in 1 .. Len(order) : new[i] = Check(order[i]) /\ order[i] \in S
<1> DEFINE new == [i \in DOMAIN order |-> Check(order[i])]
<1>1. order \in Seq(S) /\ DOMAIN order = 1 .. Len(order) /\ Len(order) \in Nat
  BY Enumerates, LenProperties
<1>2. \A i \in 1 .. Len(order) : order[i] \in S
  BY <1>1, ElementOfSeq
<1>3. \A i \in 1 .. Len(order) : Check(order[i]) \in IoTask
  BY <1>2 DEF Check, IoTask
<1>4. new \in [1 .. Len(order) -> IoTask]
  BY <1>1, <1>3
<1>5. new \in Seq(IoTask) /\ Len(new) = Len(order)
  BY <1>1, <1>4
<1>6. QED
  BY <1>1, <1>2, <1>5

(* The answers to the checks that waited for a decision.                   *)
LEMMA AnswerTasks ==
  ASSUME NEW told \in Seq(Conn), NEW v \in Nat
  PROVE  LET answers == [i \in DOMAIN told |-> Answer(told[i], v)]
         IN  /\ answers \in Seq(Task) /\ Len(answers) = Len(told)
             /\ \A i \in 1 .. Len(told) : answers[i] = Answer(told[i], v)
<1> DEFINE answers == [i \in DOMAIN told |-> Answer(told[i], v)]
<1>1. DOMAIN told = 1 .. Len(told) /\ Len(told) \in Nat
  BY LenProperties
<1>2. \A i \in 1 .. Len(told) : told[i] \in Conn
  BY ElementOfSeq
<1>3. \A i \in 1 .. Len(told) : Answer(told[i], v) \in Task
  BY <1>2 DEF Answer, Task
<1>4. answers \in [1 .. Len(told) -> Task]
  BY <1>1, <1>3
<1>5. answers \in Seq(Task) /\ Len(answers) = Len(told)
  BY <1>1, <1>4
<1>6. QED
  BY <1>1, <1>5

LEMMA TaskFields ==
  ASSUME NEW t \in Task
  PROVE  /\ t.kind \in {"new", "closed", "sync", "answer", "update"}
         /\ t.kind \in {"new", "closed", "sync", "answer"} => t.conn \in Conn
         /\ t.kind = "new" => t = New(t.conn)
         /\ t.kind = "closed" => t = Closed(t.conn)
         /\ t.kind = "sync" => t.n \in Nat
         /\ t.kind \in {"answer", "update"} => t.version \in Nat
         /\ t.kind = "answer" => t = Answer(t.conn, t.version)
         /\ t.kind = "update" => t.peer \in Peer
BY DEF Task, New, Closed, Answer

LEMMA IoTaskFields ==
  ASSUME NEW t \in IoTask
  PROVE  /\ t.kind \in {"peers", "check"}
         /\ t.kind = "peers" => t.peers \in SUBSET Peer
         /\ t.kind = "check" => t.conn \in Conn /\ t = Check(t.conn)
BY DEF IoTask, Check

LEMMA Tasks ==
  ASSUME NEW c \in Conn, NEW p \in Peer, NEW n \in Nat
  PROVE  /\ New(c) \in Task /\ Closed(c) \in Task /\ Sync(c, n) \in Task
         /\ Answer(c, n) \in Task /\ Update(p, n) \in Task
BY DEF Task, New, Closed, Sync, Answer, Update

LEMMA IoTasks ==
  ASSUME NEW c \in Conn, NEW S \in SUBSET Conn
  PROVE  Check(c) \in IoTask /\ Peers(PeersOf(S)) \in IoTask /\ PeersOf(S) \subseteq Peer
BY DEF IoTask, Check, Peers, PeersOf

LEMMA SlotFields ==
  ASSUME TypeOK, NEW p \in Peer
  PROVE  /\ slot[p] \in Slot
         /\ slot[p].state \in {"Absent", "Active", "Asked", "Decided"}
         /\ slot[p].latest \in Nat /\ slot[p].waiting \in Seq(Conn)
         /\ slot[p].next \in Nat /\ slot[p].ended \in BOOLEAN
<1>1. slot[p] \in Slot
  BY DEF TypeOK
<1>2. QED
  BY <1>1 DEF Slot

(* Messages go to whoever they go to, as sequences of numbers.             *)
LEMMA DeliverTypes ==
  ASSUME TypeOK, NEW ns \in [Conn -> Seq(Nat)], NEW v, NEW isReady \in BOOLEAN,
         NEW park \in [Conn -> Seq(Nat)], Deliver(ns, v, isReady, park)
  PROVE  /\ denied' \in [Conn -> SUBSET Nat]
         /\ received' \in [Conn -> Seq(Nat)] /\ parked' \in [Conn -> Seq(Nat)]
<1> DEFINE Denied(c) == Decision(PeerOf[c], v[c]) = Deny
           Pass(c) == IF Denied(c) THEN <<>> ELSE ns[c]
<1>1. /\ denied' = [c \in Conn |-> denied[c] \cup (IF Denied(c) THEN Range(ns[c]) ELSE {})]
      /\ received' = [c \in Conn |-> received[c] \o (IF isReady THEN Pass(c) ELSE <<>>)]
      /\ parked' = [c \in Conn |-> park[c] \o (IF isReady THEN <<>> ELSE Pass(c))]
  BY DEF Deliver
<1>2. \A c \in Conn : Range(ns[c]) \subseteq Nat
  <2> SUFFICES ASSUME NEW c \in Conn PROVE Range(ns[c]) \subseteq Nat
    OBVIOUS
  <2>1. ns[c] \in Seq(Nat)
    OBVIOUS
  <2>2. DOMAIN ns[c] = 1 .. Len(ns[c]) /\ \A i \in 1 .. Len(ns[c]) : ns[c][i] \in Nat
    BY <2>1, LenProperties, ElementOfSeq
  <2>3. QED
    BY <2>2 DEF Range
<1>3. \A c \in Conn : Pass(c) \in Seq(Nat)
  BY EmptySeq
<1> HIDE DEF Pass, Denied
<1>4. ASSUME NEW c \in Conn
      PROVE  /\ received[c] \o (IF isReady THEN Pass(c) ELSE <<>>) \in Seq(Nat)
             /\ park[c] \o (IF isReady THEN <<>> ELSE Pass(c)) \in Seq(Nat)
  <2>1. received[c] \in Seq(Nat) /\ park[c] \in Seq(Nat) /\ Pass(c) \in Seq(Nat)
    BY <1>3 DEF TypeOK
  <2>2. <<>> \in Seq(Nat)
    BY EmptySeq
  <2>3. QED
    BY <2>1, <2>2, ConcatProperties
<1>5. \A c \in Conn : denied[c] \in SUBSET Nat
  BY DEF TypeOK
<1>6. denied' \in [Conn -> SUBSET Nat]
  BY <1>1, <1>2, <1>5
<1>7. QED
  BY <1>1, <1>4, <1>6

LEMMA NothingTypes == Nothing \in [Conn -> Seq(Nat)]
BY EmptySeq DEF Nothing

LEMMA DrainedTypes ==
  ASSUME TypeOK, NEW S \in SUBSET Conn
  PROVE  /\ Drained(S) \in [Conn -> Seq(Nat)]
         /\ \A c \in Conn : Len(Drained(S)[c]) <= MaxBuffered
<1>1. \A c \in Conn : pending[c] \in Seq(Nat) /\ Len(pending[c]) <= MaxBuffered
  BY DEF TypeOK
<1>2. <<>> \in Seq(Nat) /\ Len(<<>>) = 0 /\ 0 <= MaxBuffered
  BY EmptySeq
<1>3. QED
  BY <1>1, <1>2 DEF Drained

LEMMA ApplyTypes ==
  ASSUME TypeOK, NEW S \in SUBSET Conn, NEW v \in Nat, ApplySharePolicy(S, v)
  PROVE  /\ policy' \in [Conn -> {"Absent", "Loading", "Ready"}]
         /\ version' \in [Conn -> Nat]
         /\ pending' \in [Conn -> Seq(Nat)] /\ \A c \in Conn : Len(pending'[c]) <= MaxBuffered
         /\ denied' \in [Conn -> SUBSET Nat]
         /\ received' \in [Conn -> Seq(Nat)] /\ parked' \in [Conn -> Seq(Nat)]
<1> DEFINE ns == [c \in Conn |-> IF c \in S THEN pending[c] ELSE <<>>]
<1>1. /\ policy' = [c \in Conn |-> IF c \in S THEN "Ready" ELSE policy[c]]
      /\ version' = [c \in Conn |-> IF c \in S THEN v ELSE version[c]]
      /\ pending' = Drained(S)
      /\ Deliver(ns, version', ready, parked)
  BY DEF ApplySharePolicy
<1>2. ns \in [Conn -> Seq(Nat)]
  BY EmptySeq DEF TypeOK
<1>3. ready \in BOOLEAN /\ parked \in [Conn -> Seq(Nat)]
  BY DEF TypeOK
<1>4. /\ denied' \in [Conn -> SUBSET Nat]
      /\ received' \in [Conn -> Seq(Nat)] /\ parked' \in [Conn -> Seq(Nat)]
  <2> HIDE DEF ns
  <2> QED
    BY <1>1, <1>2, <1>3, DeliverTypes
<1>5. policy' \in [Conn -> {"Absent", "Loading", "Ready"}] /\ version' \in [Conn -> Nat]
  BY <1>1 DEF TypeOK
<1>6. pending' \in [Conn -> Seq(Nat)] /\ \A c \in Conn : Len(pending'[c]) <= MaxBuffered
  BY <1>1, DrainedTypes
<1>7. QED
  BY <1>4, <1>5, <1>6

LEMMA ResultsTypes ==
  ASSUME TypeOK, NEW S \in SUBSET Conn, NEW new \in Seq(IoTask), SendResults(S, new)
  PROVE  io' \in Seq(IoTask) /\ observed' \subseteq Peer
<1>1. (IF PeersOf(S) = observed THEN <<>> ELSE <<Peers(PeersOf(S))>>) \in Seq(IoTask)
  <2>1. Peers(PeersOf(S)) \in IoTask
    BY DEF IoTask, Peers, PeersOf
  <2>2. QED
    BY <2>1, EmptySeq
<1>2. Results(S, new) \in Seq(IoTask)
  BY <1>1, ConcatProperties DEF Results
<1>3. QED
  BY <1>2, ConcatProperties DEF SendResults, TypeOK, PeersOf

LEMMA RemoveTypes ==
  ASSUME TypeOK, NEW c \in Conn, RemoveConnection(c)
  PROVE  /\ policy' \in [Conn -> {"Absent", "Loading", "Ready"}]
         /\ version' \in [Conn -> Nat] /\ checks' \subseteq Conn
         /\ pending' \in [Conn -> Seq(Nat)] /\ \A d \in Conn : Len(pending'[d]) <= MaxBuffered
         /\ io' \in Seq(IoTask) /\ observed' \subseteq Peer
<1>1. policy' \in [Conn -> {"Absent", "Loading", "Ready"}] /\ version' \in [Conn -> Nat]
      /\ checks' \subseteq Conn
  BY DEF RemoveConnection, TypeOK
<1>2. pending' \in [Conn -> Seq(Nat)] /\ \A d \in Conn : Len(pending'[d]) <= MaxBuffered
  <2>1. pending' = [pending EXCEPT ![c] = <<>>]
    BY DEF RemoveConnection
  <2>2. <<>> \in Seq(Nat) /\ Len(<<>>) = 0 /\ 0 <= MaxBuffered
    BY EmptySeq
  <2>3. QED
    BY <2>1, <2>2 DEF TypeOK
<1>3. SendResults(Known \ {c}, <<>>) /\ Known \ {c} \in SUBSET Conn /\ <<>> \in Seq(IoTask)
  BY EmptySeq DEF RemoveConnection, Known
<1>4. io' \in Seq(IoTask) /\ observed' \subseteq Peer
  BY <1>3, ResultsTypes
<1>5. QED
  BY <1>1, <1>2, <1>4

LEMMA DecideTypes ==
  ASSUME TypeOK, NEW p \in Peer, NEW v \in 0 .. Len(decisions[p]), Decide(p, v)
  PROVE  mailbox' \in Seq(Task) /\ slot' \in [Peer -> Slot] /\ slot'[p].latest = v
         /\ \A q \in Peer : q # p => slot'[q] = slot[q]
<1> DEFINE told == Answered(slot[p].waiting)
           answers == [i \in DOMAIN told |-> Answer(told[i], v)]
           new == IF slot[p].state = "Asked" THEN answers
                    ELSE IF Decision(p, v) # Decision(p, slot[p].latest) THEN <<Update(p, v)>> ELSE <<>>
           s == [state |-> "Decided", latest |-> v, waiting |-> <<>>,
                 next |-> IF v = 0 THEN slot[p].next ELSE v + 1, ended |-> v = 0]
<1>1. v \in Nat
  BY LenProperties DEF TypeOK
<1>2. slot[p] \in Slot /\ slot[p].waiting \in Seq(Conn) /\ slot[p].next \in Nat
  BY SlotFields
<1>3. answers \in Seq(Task)
  BY <1>1, <1>2, AnswerTasks DEF Answered
<1>4. <<Update(p, v)>> \in Seq(Task) /\ <<>> \in Seq(Task)
  BY <1>1, Tasks, EmptySeq DEF Update, Task
<1>5. mailbox' = mailbox \o new
  BY DEF Decide
<1>6. new \in Seq(Task)
  <2> HIDE DEF answers, told
  <2> QED
    BY <1>3, <1>4
<1>7. mailbox' \in Seq(Task)
  <2> HIDE DEF new
  <2> QED
    BY <1>5, <1>6, ConcatProperties DEF TypeOK
<1>8. slot' = [slot EXCEPT ![p] = s]
  BY DEF Decide, TypeOK
<1>9. s \in Slot
  BY <1>1, <1>2, EmptySeq DEF Slot
<1>10. slot' \in [Peer -> Slot] /\ slot'[p].latest = v
       /\ \A q \in Peer : q # p => slot'[q] = slot[q]
  BY <1>8, <1>9 DEF TypeOK
<1>11. QED
  BY <1>7, <1>10

----------------------------------------------------------------------------
(* Tables, queues and subscriptions keep their shape.                      *)
LEMMA HubTypes ==
  ASSUME TypeOK,
         \/ \E c \in Conn : Establish(c) \/ Lose(c) \/ Receive(c)
         \/ Disconnect \/ OpenDocument
  PROVE  TypeOK'
<1>1. ASSUME NEW c \in Conn, Establish(c) PROVE TypeOK'
  <2>1. hub' \in [Conn -> {"Unused", "Open", "Gone"}]
    BY <1>1 DEF Establish, TypeOK
  <2>2. mailbox' \in Seq(Task) /\ subscribed' \subseteq Conn
    <3>1. CASE spawned
      <4> DEFINE missing == (Open \cup {c}) \ subscribed
      <4>1. subscribed' = subscribed \cup missing /\ missing \in SUBSET Conn
        BY <1>1, <3>1 DEF Establish, EnsureConnections, Open
      <4>2. PICK order \in SetToSeqs(missing) :
                   mailbox' = mailbox \o [i \in DOMAIN order |-> New(order[i])]
        BY <1>1, <3>1 DEF Establish, EnsureConnections
      <4>3. [i \in DOMAIN order |-> New(order[i])] \in Seq(Task)
        BY <4>1, NewTasks
      <4>4. QED
        BY <4>1, <4>2, <4>3, ConcatProperties DEF TypeOK
    <3>2. CASE ~spawned
      BY <1>1, <3>2 DEF Establish, TypeOK
    <3>3. QED
      BY <3>1, <3>2
  <2>3. QED
    BY <1>1, <2>1, <2>2 DEF Establish, TypeOK, actorVars, connVars, msgVars, ioVars
<1>2. ASSUME NEW d \in Conn, RemoveFromHub(d)
      PROVE  /\ hub' \in [Conn -> {"Unused", "Open", "Gone"}] /\ spawned' \in BOOLEAN
             /\ subscribed' \subseteq Conn /\ mailbox' \in Seq(Task)
  <2>1. Append(mailbox, Closed(d)) \in Seq(Task)
    BY Tasks, AppendProperties DEF TypeOK, Closed, Task
  <2>2. QED
    BY <1>2, <2>1 DEF RemoveFromHub, TypeOK
<1>3. ASSUME NEW c \in Conn, Lose(c) PROVE TypeOK'
  BY <1>2, <1>3 DEF Lose, TypeOK, actorVars, connVars, msgVars, ioVars
<1>4. CASE Disconnect
  <2>1. Head(toHub) \in Conn /\ toHub' \in Seq(Conn)
    BY <1>4, HeadTailProperties DEF Disconnect, TypeOK
  <2>2. /\ hub' \in [Conn -> {"Unused", "Open", "Gone"}] /\ spawned' \in BOOLEAN
        /\ subscribed' \subseteq Conn /\ mailbox' \in Seq(Task)
    <3>1. CASE Head(toHub) \in Open
      BY <1>2, <1>4, <2>1, <3>1 DEF Disconnect
    <3>2. CASE Head(toHub) \notin Open
      BY <1>4, <3>2 DEF Disconnect, TypeOK, hubVars
    <3>3. QED
      BY <3>1, <3>2
  <2>3. QED
    BY <1>4, <2>1, <2>2 DEF Disconnect, TypeOK, actorVars, connVars, msgVars, ioVars
<1>5. ASSUME NEW pend \in [Conn -> Seq(Nat)], \A d \in Conn : Len(pend[d]) <= MaxBuffered,
             Spawn(pend), sent' \in [Conn -> Nat]
      PROVE  TypeOK'
  <2>1. Open \in SUBSET Conn /\ PeersOf(Open) \subseteq Peer
    BY DEF Open, PeersOf
  <2>2. subscribed' \subseteq Conn /\ mailbox' \in Seq(Task)
    <3> DEFINE missing == Open \ SubscribedAtSpawn
    <3>1. subscribed' = SubscribedAtSpawn \cup missing /\ missing \in SUBSET Conn
      BY <1>5, <2>1 DEF Spawn, EnsureConnections
    <3>2. PICK order \in SetToSeqs(missing) :
                 mailbox' = mailbox \o [i \in DOMAIN order |-> New(order[i])]
      BY <1>5 DEF Spawn, EnsureConnections
    <3>3. [i \in DOMAIN order |-> New(order[i])] \in Seq(Task)
      BY <3>1, NewTasks
    <3>4. QED
      BY <2>1, <3>1, <3>2, <3>3, ConcatProperties DEF TypeOK, SubscribedAtSpawn
  <2>3. io' \in Seq(IoTask)
    <3>1. PICK order \in SetToSeqs(Open) :
                 io' = (IF Open = {} THEN <<>> ELSE <<Peers(PeersOf(Open))>>)
                       \o [i \in DOMAIN order |-> Check(order[i])]
      BY <1>5 DEF Spawn
    <3>2. [i \in DOMAIN order |-> Check(order[i])] \in Seq(IoTask)
      BY <2>1, CheckTasks
    <3>3. Peers(PeersOf(Open)) \in IoTask
      BY <2>1 DEF IoTask, Peers
    <3>4. (IF Open = {} THEN <<>> ELSE <<Peers(PeersOf(Open))>>) \in Seq(IoTask)
      BY <3>3, EmptySeq
    <3>5. QED
      BY <3>1, <3>2, <3>4, ConcatProperties
  <2>4. policy' \in [Conn -> {"Absent", "Loading", "Ready"}] /\ checks' \subseteq Conn
    BY <1>5, <2>1 DEF Spawn
  <2>5. QED
    BY <1>5, <2>1, <2>2, <2>3, <2>4 DEF Spawn, TypeOK, msgVars, ioVars
<1>6. ASSUME NEW c \in Conn, Receive(c) PROVE TypeOK'
  <2>1. sent' \in [Conn -> Nat] /\ sent'[c] \in Nat
    BY <1>6 DEF Receive, TypeOK
  <2>2. CASE spawned /\ mailbox' = Append(mailbox, Sync(c, sent'[c]))
             /\ UNCHANGED <<hubVars, toHub, actorVars, io, ioVars>>
    <3>1. Sync(c, sent'[c]) \in Task
      BY <2>1 DEF Sync, Task
    <3>2. mailbox' \in Seq(Task)
      BY <2>2, <3>1, AppendProperties DEF TypeOK
    <3>3. QED
      BY <2>1, <2>2, <3>2 DEF TypeOK, hubVars, actorVars, connVars, msgVars, ioVars
  <2>3. CASE Spawn([pending EXCEPT ![c] = <<sent'[c]>>])
    <3> DEFINE pend == [pending EXCEPT ![c] = <<sent'[c]>>]
    <3>1. <<sent'[c]>> \in Seq(Nat) /\ Len(<<sent'[c]>>) = 1 /\ 1 <= MaxBuffered
      BY <2>1
    <3>2. pend \in [Conn -> Seq(Nat)] /\ \A d \in Conn : Len(pend[d]) <= MaxBuffered
      BY <3>1 DEF TypeOK
    <3> HIDE DEF pend
    <3>3. Spawn(pend)
      BY <2>3 DEF pend
    <3>4. QED
      BY <1>5, <2>1, <3>2, <3>3
  <2>4. QED
    BY <1>6, <2>2, <2>3 DEF Receive
<1>7. CASE OpenDocument
  <2>1. pending \in [Conn -> Seq(Nat)] /\ (\A d \in Conn : Len(pending[d]) <= MaxBuffered)
        /\ sent' \in [Conn -> Nat]
    BY <1>7 DEF TypeOK, OpenDocument
  <2>2. Spawn(pending)
    BY <1>7 DEF OpenDocument
  <2>3. QED
    BY <1>5, <2>1, <2>2
<1>8. QED
  BY <1>1, <1>3, <1>4, <1>6, <1>7

LEMMA ActorTypes ==
  ASSUME TypeOK, ActorStep \/ LoadDone
  PROVE  TypeOK'
<1>0. ASSUME NEW kind, Handles(kind)
      PROVE  /\ Head(mailbox) \in Task /\ mailbox' \in Seq(Task) /\ Head(mailbox).kind = kind
             /\ mailbox # <<>> /\ mailbox' = Tail(mailbox)
  BY <1>0, HeadTailProperties DEF Handles, TypeOK
<1>1. CASE NewConnection
  <2> DEFINE c == Head(mailbox).conn
  <2>1. c \in Conn /\ mailbox' \in Seq(Task)
    BY <1>0, <1>1, TaskFields DEF NewConnection
  <2>2. Known \cup {c} \in SUBSET Conn /\ <<Check(c)>> \in Seq(IoTask)
    <3>1. Check(c) \in IoTask
      BY <2>1 DEF Check, IoTask
    <3>2. QED
      BY <2>1, <3>1 DEF Known
  <2>3. SendResults(Known \cup {c}, <<Check(c)>>)
    BY <1>1 DEF NewConnection
  <2>4. io' \in Seq(IoTask) /\ observed' \subseteq Peer
    BY <2>2, <2>3, ResultsTypes
  <2>5. policy' \in [Conn -> {"Absent", "Loading", "Ready"}] /\ checks' \subseteq Conn
    BY <1>1, <2>1 DEF NewConnection, TypeOK
  <2>6. QED
    BY <1>1, <2>1, <2>4, <2>5 DEF NewConnection, TypeOK, hubVars, msgVars, ioVars
<1>2. CASE ConnectionClosed
  <2>1. Head(mailbox).conn \in Conn /\ mailbox' \in Seq(Task)
    BY <1>0, <1>2, TaskFields DEF ConnectionClosed
  <2>2. /\ policy' \in [Conn -> {"Absent", "Loading", "Ready"}]
        /\ version' \in [Conn -> Nat] /\ checks' \subseteq Conn
        /\ pending' \in [Conn -> Seq(Nat)] /\ \A d \in Conn : Len(pending'[d]) <= MaxBuffered
        /\ io' \in Seq(IoTask) /\ observed' \subseteq Peer
    BY <1>2, <2>1, RemoveTypes DEF ConnectionClosed
  <2>3. QED
    BY <1>2, <2>1, <2>2 DEF ConnectionClosed, TypeOK, hubVars, msgVars, ioVars
<1>3. CASE SyncMessage
  <2> DEFINE c == Head(mailbox).conn
             n == Head(mailbox).n
  <2>1. c \in Conn /\ n \in Nat /\ mailbox' \in Seq(Task)
    BY <1>0, <1>3, TaskFields DEF SyncMessage
  <2>2. UNCHANGED <<hubVars, ready, ioVars, sent>>
    BY <1>3 DEF SyncMessage
  <2>3. CASE policy[c] = "Absent" /\ UNCHANGED <<toHub, connVars, msgVars, observed, io>>
    BY <2>1, <2>2, <2>3 DEF TypeOK, hubVars, connVars, msgVars, ioVars
  <2>4. CASE ~Full(c) /\ pending' = [pending EXCEPT ![c] = Append(@, n)]
             /\ UNCHANGED <<toHub, policy, version, checks, msgVars, observed, io>>
    <3>1. pending[c] \in Seq(Nat) /\ Len(pending[c]) < MaxBuffered
      BY <2>1, <2>4, LenProperties DEF Full, TypeOK
    <3>2. Append(pending[c], n) \in Seq(Nat) /\ Len(Append(pending[c], n)) <= MaxBuffered
      BY <2>1, <3>1, AppendProperties, LenProperties
    <3>3. pending' \in [Conn -> Seq(Nat)] /\ \A d \in Conn : Len(pending'[d]) <= MaxBuffered
      BY <2>4, <3>2 DEF TypeOK
    <3>4. QED
      BY <2>1, <2>2, <2>4, <3>3 DEF TypeOK, hubVars, msgVars, ioVars
  <2>5. CASE RemoveConnection(c) /\ toHub' = Append(toHub, c) /\ UNCHANGED msgVars
    <3>1. /\ policy' \in [Conn -> {"Absent", "Loading", "Ready"}]
          /\ version' \in [Conn -> Nat] /\ checks' \subseteq Conn
          /\ pending' \in [Conn -> Seq(Nat)] /\ \A d \in Conn : Len(pending'[d]) <= MaxBuffered
          /\ io' \in Seq(IoTask) /\ observed' \subseteq Peer
      BY <2>1, <2>5, RemoveTypes
    <3>2. toHub' \in Seq(Conn)
      BY <2>1, <2>5, AppendProperties DEF TypeOK
    <3>3. QED
      BY <2>1, <2>2, <2>5, <3>1, <3>2 DEF TypeOK, hubVars, msgVars, ioVars
  <2>6. CASE Deliver([Nothing EXCEPT ![c] = <<n>>], version, ready, parked)
             /\ UNCHANGED <<toHub, connVars, observed, io>>
    <3> DEFINE ns == [Nothing EXCEPT ![c] = <<n>>]
    <3>1. ns \in [Conn -> Seq(Nat)] /\ ready \in BOOLEAN /\ parked \in [Conn -> Seq(Nat)]
      BY <2>1, NothingTypes DEF TypeOK
    <3>2. Deliver(ns, version, ready, parked)
      BY <2>6
    <3> HIDE DEF ns
    <3>3. /\ denied' \in [Conn -> SUBSET Nat]
          /\ received' \in [Conn -> Seq(Nat)] /\ parked' \in [Conn -> Seq(Nat)]
      BY <3>1, <3>2, DeliverTypes
    <3>4. QED
      BY <2>1, <2>2, <2>6, <3>3 DEF TypeOK, hubVars, connVars, ioVars
  <2>7. QED
    BY <1>3, <2>3, <2>4, <2>5, <2>6 DEF SyncMessage
<1>4. CASE CheckAnswered
  <2> DEFINE c == Head(mailbox).conn
             v == Head(mailbox).version
  <2>1. c \in Conn /\ v \in Nat /\ mailbox' \in Seq(Task)
    BY <1>0, <1>4, TaskFields DEF CheckAnswered
  <2>2. /\ policy' \in [Conn -> {"Absent", "Loading", "Ready"}]
        /\ version' \in [Conn -> Nat]
        /\ pending' \in [Conn -> Seq(Nat)] /\ \A d \in Conn : Len(pending'[d]) <= MaxBuffered
        /\ denied' \in [Conn -> SUBSET Nat]
        /\ received' \in [Conn -> Seq(Nat)] /\ parked' \in [Conn -> Seq(Nat)]
    <3>1. CASE c \in checks
      <4>1. ApplySharePolicy({c}, v) /\ {c} \in SUBSET Conn
        BY <1>4, <2>1, <3>1 DEF CheckAnswered
      <4> HIDE DEF c, v
      <4>2. QED
        BY <2>1, <4>1, ApplyTypes
    <3>2. CASE c \notin checks
      BY <1>4, <3>2 DEF CheckAnswered, TypeOK, msgVars
    <3>3. QED
      BY <3>1, <3>2
  <2>3. checks' \subseteq Conn
    BY <1>4 DEF CheckAnswered, TypeOK
  <2>4. QED
    BY <1>4, <2>1, <2>2, <2>3 DEF CheckAnswered, TypeOK, hubVars, ioVars
<1>5. CASE PolicyUpdated
  <2> DEFINE conns == Known \cap Of(Head(mailbox).peer)
             v == Head(mailbox).version
  <2>1. conns \in SUBSET Conn /\ v \in Nat /\ mailbox' \in Seq(Task)
    BY <1>0, <1>5, TaskFields DEF PolicyUpdated, Known
  <2>2. ApplySharePolicy(conns, v) /\ checks' = checks \ conns
    BY <1>5 DEF PolicyUpdated
  <2> HIDE DEF conns, v
  <2>3. /\ policy' \in [Conn -> {"Absent", "Loading", "Ready"}]
        /\ version' \in [Conn -> Nat]
        /\ pending' \in [Conn -> Seq(Nat)] /\ \A d \in Conn : Len(pending'[d]) <= MaxBuffered
        /\ denied' \in [Conn -> SUBSET Nat]
        /\ received' \in [Conn -> Seq(Nat)] /\ parked' \in [Conn -> Seq(Nat)]
    BY <2>1, <2>2, ApplyTypes
  <2>4. QED
    BY <1>5, <2>1, <2>2, <2>3 DEF PolicyUpdated, TypeOK, hubVars, ioVars
<1>6. CASE LoadDone
  <2> DEFINE ns == [c \in Conn |-> IF c \in Known THEN parked[c] ELSE <<>>]
  <2>1. ns \in [Conn -> Seq(Nat)] /\ Nothing \in [Conn -> Seq(Nat)]
    BY EmptySeq, NothingTypes DEF TypeOK
  <2>2. Deliver(ns, version, TRUE, Nothing)
    BY <1>6 DEF LoadDone
  <2> HIDE DEF ns
  <2>3. /\ denied' \in [Conn -> SUBSET Nat]
        /\ received' \in [Conn -> Seq(Nat)] /\ parked' \in [Conn -> Seq(Nat)]
    BY <2>1, <2>2, DeliverTypes
  <2>4. QED
    BY <1>6, <2>3 DEF LoadDone, TypeOK, hubVars, connVars, ioVars
<1>7. QED
  BY <1>1, <1>2, <1>3, <1>4, <1>5, <1>6 DEF ActorStep

LEMMA NoSlotType == NoSlot \in Slot /\ [NoSlot EXCEPT !.state = "Active"] \in Slot
BY EmptySeq DEF NoSlot, Slot

LEMMA IoTypes ==
  ASSUME TypeOK,
         \/ SetPeers \/ CheckPolicy
         \/ \E p \in Peer : StreamYields(p) \/ StreamEnds(p) \/ NewDecision(p)
  PROVE  TypeOK'
<1>0. ASSUME NEW kind, IoTakes(kind)
      PROVE  /\ Head(io) \in IoTask /\ io' \in Seq(IoTask) /\ Head(io).kind = kind
             /\ io # <<>> /\ io' = Tail(io)
  BY <1>0, HeadTailProperties DEF IoTakes, TypeOK
<1>1. CASE SetPeers
  <2> DEFINE peers == Head(io).peers
  <2>1. io' \in Seq(IoTask)
    BY <1>0, <1>1 DEF SetPeers
  <2>2. slot' = [q \in Peer |->
                   IF q \in peers /\ slot[q].state = "Absent" THEN [NoSlot EXCEPT !.state = "Active"]
                   ELSE IF Retains(q, peers) THEN slot[q] ELSE NoSlot]
    BY <1>1 DEF SetPeers
  <2> HIDE DEF peers
  <2>3. slot' \in [Peer -> Slot]
    BY <2>2, NoSlotType DEF TypeOK
  <2>4. \A q \in Peer : slot'[q].latest <= Len(decisions[q])
    <3> SUFFICES ASSUME NEW q \in Peer PROVE slot'[q].latest <= Len(decisions[q])
      OBVIOUS
    <3>1. decisions[q] \in Seq(Config) /\ Len(decisions[q]) \in Nat /\ slot[q].latest <= Len(decisions[q])
      BY LenProperties DEF TypeOK
    <3>2. slot'[q] = slot[q] \/ slot'[q].latest = 0
      BY <2>2 DEF NoSlot
    <3>3. QED
      BY <3>1, <3>2
  <2>5. QED
    BY <1>1, <2>1, <2>3, <2>4 DEF SetPeers, TypeOK, hubVars, actorVars, connVars, msgVars
<1>2. CASE CheckPolicy
  <2> DEFINE c == Head(io).conn
             q == PeerOf[c]
             first == [state |-> "Asked", latest |-> 0, waiting |-> <<c>>,
                       next |-> Len(decisions[q]), ended |-> FALSE]
  <2>1. io' \in Seq(IoTask) /\ c \in Conn /\ q \in Peer
    BY <1>0, <1>2, IoTaskFields DEF CheckPolicy
  <2>2. Len(decisions[q]) \in Nat
    BY <2>1, LenProperties DEF TypeOK
  <2>3. first \in Slot /\ first.latest = 0
    <3>1. <<c>> \in Seq(Conn)
      BY <2>1
    <3>2. QED
      BY <2>2, <3>1 DEF Slot
  <2>4. slot[q] \in Slot /\ slot[q].waiting \in Seq(Conn) /\ slot[q].latest \in Nat
        /\ slot[q].latest <= Len(decisions[q])
    BY <2>1, SlotFields DEF TypeOK
  <2>5. [slot[q] EXCEPT !.waiting = Append(@, c)] \in Slot
        /\ [slot[q] EXCEPT !.waiting = Append(@, c)].latest = slot[q].latest
    BY <2>1, <2>4, AppendProperties DEF Slot
  <2>6. Answer(c, slot[q].latest) \in Task
    BY <2>1, <2>4, Tasks DEF Answer, Task
  <2>7. Append(mailbox, Answer(c, slot[q].latest)) \in Seq(Task)
    BY <2>6, AppendProperties DEF TypeOK
  <2>8. \/ UNCHANGED <<slot, mailbox>>
        \/ slot' = [slot EXCEPT ![q] = first] /\ UNCHANGED mailbox
        \/ slot' = [slot EXCEPT ![q] = [slot[q] EXCEPT !.waiting = Append(@, c)]] /\ UNCHANGED mailbox
        \/ mailbox' = Append(mailbox, Answer(c, slot[q].latest)) /\ UNCHANGED slot
    BY <1>2, <2>1 DEF CheckPolicy, TypeOK
  <2>9. UNCHANGED <<hubVars, toHub, actorVars, decisions, sent>>
    BY <1>2 DEF CheckPolicy
  <2> HIDE DEF first, c, q
  <2>10. slot' \in [Peer -> Slot] /\ mailbox' \in Seq(Task)
    <3>1. mailbox \in Seq(Task) /\ slot \in [Peer -> Slot]
      BY DEF TypeOK
    <3>2. slot' \in [Peer -> Slot]
      BY <2>1, <2>3, <2>5, <2>8, <3>1
    <3>3. mailbox' \in Seq(Task)
      BY <2>7, <2>8, <3>1
    <3>4. QED
      BY <3>2, <3>3
  <2>11. \A r \in Peer : slot'[r].latest <= Len(decisions[r])
    <3> SUFFICES ASSUME NEW r \in Peer PROVE slot'[r].latest <= Len(decisions[r])
      OBVIOUS
    <3>1. slot[r].latest <= Len(decisions[r]) /\ Len(decisions[r]) \in Nat
      BY LenProperties DEF TypeOK
    <3>2. slot'[r].latest = slot[r].latest \/ slot'[r].latest = 0
      BY <2>3, <2>5, <2>8 DEF TypeOK
    <3>3. QED
      BY <3>1, <3>2
  <2>12. QED
    BY <2>1, <2>9, <2>10, <2>11 DEF TypeOK, hubVars, actorVars, connVars, msgVars
<1>3. ASSUME NEW p \in Peer, NEW v \in 0 .. Len(decisions[p]), Decide(p, v),
             UNCHANGED <<hubVars, toHub, actorVars, io, decisions, sent>>
      PROVE  TypeOK'
  <2>1. mailbox' \in Seq(Task) /\ slot' \in [Peer -> Slot] /\ slot'[p].latest = v
        /\ \A q \in Peer : q # p => slot'[q] = slot[q]
    BY <1>3, DecideTypes
  <2>2. \A q \in Peer : slot[q].latest <= Len(decisions[q]) /\ Len(decisions[q]) \in Nat
    BY LenProperties DEF TypeOK
  <2>3. \A q \in Peer : slot'[q].latest <= Len(decisions[q])
    BY <1>3, <2>1, <2>2
  <2>4. QED
    BY <1>3, <2>1, <2>3 DEF TypeOK, hubVars, actorVars, connVars, msgVars
<1>4. ASSUME NEW p \in Peer, StreamYields(p) PROVE TypeOK'
  <2>1. slot[p].next \in Nat /\ slot[p].next <= Len(decisions[p]) /\ Len(decisions[p]) \in Nat
    BY <1>4, SlotFields, LenProperties DEF StreamYields, TypeOK
  <2>2. slot[p].next \in 0 .. Len(decisions[p])
    BY <2>1
  <2>3. Decide(p, slot[p].next) /\ UNCHANGED <<hubVars, toHub, actorVars, io, decisions, sent>>
    BY <1>4 DEF StreamYields
  <2>4. QED
    BY <1>3, <2>2, <2>3
<1>5. ASSUME NEW p \in Peer, StreamEnds(p) PROVE TypeOK'
  <2>1. UNCHANGED <<hubVars, toHub, actorVars, io, decisions, sent>>
    BY <1>5 DEF StreamEnds
  <2>2. CASE DeniesAtEnd(p)
    <3>1. Decide(p, 0)
      BY <1>5, <2>2 DEF StreamEnds
    <3>2. 0 \in 0 .. Len(decisions[p])
      BY LenProperties DEF TypeOK
    <3>3. QED
      BY <1>3, <2>1, <3>1, <3>2
  <2>3. CASE ~DeniesAtEnd(p)
    <3>1. slot' = [slot EXCEPT ![p] = [slot[p] EXCEPT !.ended = TRUE]] /\ UNCHANGED mailbox
      BY <1>5, <2>3 DEF StreamEnds, TypeOK
    <3>2. [slot[p] EXCEPT !.ended = TRUE] \in Slot
          /\ [slot[p] EXCEPT !.ended = TRUE].latest = slot[p].latest
      BY SlotFields DEF Slot
    <3>3. slot' \in [Peer -> Slot] /\ \A q \in Peer : slot'[q].latest = slot[q].latest
      BY <3>1, <3>2 DEF TypeOK
    <3>4. QED
      BY <2>1, <3>1, <3>3 DEF TypeOK, hubVars, actorVars, connVars, msgVars
  <2>4. QED
    BY <2>2, <2>3
<1>6. ASSUME NEW p \in Peer, NewDecision(p) PROVE TypeOK'
  <2>1. PICK g \in Config : decisions' = [decisions EXCEPT ![p] = Append(@, g)]
    BY <1>6 DEF NewDecision
  <2>2. decisions[p] \in Seq(Config)
    BY DEF TypeOK
  <2>3. Append(decisions[p], g) \in Seq(Config)
        /\ Len(Append(decisions[p], g)) = Len(decisions[p]) + 1 /\ Len(decisions[p]) \in Nat
    BY <2>2, AppendProperties, LenProperties
  <2>4. decisions' \in [Peer -> Seq(Config)]
    BY <2>1, <2>3 DEF TypeOK
  <2>5. \A q \in Peer : slot[q].latest <= Len(decisions'[q])
    <3> SUFFICES ASSUME NEW q \in Peer PROVE slot[q].latest <= Len(decisions'[q])
      OBVIOUS
    <3>1. slot[q].latest \in Nat /\ slot[q].latest <= Len(decisions[q])
      BY SlotFields DEF TypeOK
    <3>2. CASE q = p
      BY <2>1, <2>3, <3>1, <3>2 DEF TypeOK
    <3>3. CASE q # p
      BY <2>1, <3>1, <3>3 DEF TypeOK
    <3>4. QED
      BY <3>2, <3>3
  <2>6. QED
    BY <1>6, <2>4, <2>5 DEF NewDecision, TypeOK, hubVars, actorVars, connVars, msgVars
<1>7. QED
  BY <1>1, <1>2, <1>4, <1>5, <1>6

LEMMA TypeStep == TypeOK /\ [Next]_vars => TypeOK'
<1> SUFFICES ASSUME TypeOK, [Next]_vars PROVE TypeOK'
  OBVIOUS
<1>1. CASE UNCHANGED vars
  BY <1>1 DEF vars, hubVars, actorVars, connVars, msgVars, ioVars, TypeOK
<1>2. QED
  BY <1>1, HubTypes, ActorTypes, IoTypes DEF Next

(* Any connections, peers, decisions and bounds.                           *)
THEOREM TypeCorrect == Spec => []TypeOK
<1>1. Init => TypeOK
  <2> SUFFICES ASSUME Init PROVE TypeOK
    OBVIOUS
  <2>1. /\ hub \in [Conn -> {"Unused", "Open", "Gone"}] /\ spawned \in BOOLEAN /\ ready \in BOOLEAN
        /\ subscribed \subseteq Conn /\ checks \subseteq Conn /\ observed \subseteq Peer
        /\ policy \in [Conn -> {"Absent", "Loading", "Ready"}]
        /\ version \in [Conn -> Nat] /\ sent \in [Conn -> Nat] /\ denied \in [Conn -> SUBSET Nat]
    BY DEF Init
  <2>2. mailbox \in Seq(Task) /\ toHub \in Seq(Conn) /\ io \in Seq(IoTask)
    BY EmptySeq DEF Init
  <2>3. /\ pending \in [Conn -> Seq(Nat)] /\ parked \in [Conn -> Seq(Nat)]
        /\ received \in [Conn -> Seq(Nat)]
        /\ \A c \in Conn : Len(pending[c]) <= MaxBuffered
    BY EmptySeq DEF Init
  <2>4. slot \in [Peer -> Slot] /\ \A p \in Peer : slot[p].latest = 0
    BY NoSlotType DEF Init, NoSlot
  <2>5. ASSUME NEW p \in Peer PROVE decisions[p] \in Seq(Config) /\ Len(decisions[p]) = 1
    <3>1. PICK g \in Config : decisions[p] = <<g>>
      BY DEF Init
    <3>2. QED
      BY <3>1
  <2>6. decisions \in [Peer -> Seq(Config)]
    BY <2>5 DEF Init
  <2>7. QED
    BY <2>1, <2>2, <2>3, <2>4, <2>5, <2>6 DEF TypeOK
<1>2. QED
  BY <1>1, TypeStep, PTL DEF Spec

----------------------------------------------------------------------------
(* Where something is in a queue.                                          *)
Has(q, e) == \E i \in 1 .. Len(q) : q[i] = e
Once(q, e) == \A i, j \in 1 .. Len(q) : q[i] = e /\ q[j] = e => i = j
Follows(q, e, f) == \A i \in 1 .. Len(q) : q[i] = e => \E j \in i + 1 .. Len(q) : q[j] = f

LEMMA AtTheEnd ==
  ASSUME NEW S, NEW q \in Seq(S), NEW x \in S, NEW e, NEW f
  PROVE  /\ Has(Append(q, x), e) <=> Has(q, e) \/ x = e
         /\ Once(q, e) /\ x # e => Once(Append(q, x), e)
         /\ Follows(q, e, f) /\ x # e => Follows(Append(q, x), e, f)
         /\ x = f /\ x # e => Follows(Append(q, x), e, f)
<1>1. /\ Len(Append(q, x)) = Len(q) + 1 /\ Len(q) \in Nat
      /\ \A i \in 1 .. Len(q) : Append(q, x)[i] = q[i]
      /\ Append(q, x)[Len(q) + 1] = x
  BY AppendProperties, LenProperties
<1> DEFINE r == Append(q, x)
<1> HIDE DEF r
<1>2. /\ Len(r) = Len(q) + 1 /\ Len(q) \in Nat
      /\ \A i \in 1 .. Len(q) : r[i] = q[i]
      /\ r[Len(q) + 1] = x
      /\ \A i \in 1 .. Len(r) : i \in 1 .. Len(q) \/ i = Len(q) + 1
  BY <1>1 DEF r
<1>3. Has(r, e) <=> Has(q, e) \/ x = e
  BY <1>2 DEF Has
<1>4. Once(q, e) /\ x # e => Once(r, e)
  BY <1>2 DEF Once
<1>5. Follows(q, e, f) /\ x # e => Follows(r, e, f)
  BY <1>2, SMTT(30) DEF Follows
<1>6. x = f /\ x # e => Follows(r, e, f)
  BY <1>2 DEF Follows
<1>7. QED
  BY <1>3, <1>4, <1>5, <1>6 DEF r

LEMMA AtTheFront ==
  ASSUME NEW S, NEW q \in Seq(S), q # <<>>, NEW e, NEW f
  PROVE  /\ Has(q, e) <=> Head(q) = e \/ Has(Tail(q), e)
         /\ Once(q, e) => Once(Tail(q), e)
         /\ Once(q, e) /\ Head(q) = e => ~Has(Tail(q), e)
         /\ Follows(q, e, f) => Follows(Tail(q), e, f)
         /\ Follows(q, e, f) /\ Head(q) = e => Has(Tail(q), f)
<1> DEFINE r == Tail(q)
           x == Head(q)
<1>1. /\ Len(r) = Len(q) - 1 /\ Len(q) \in Nat /\ Len(q) > 0 /\ x = q[1]
      /\ \A i \in 1 .. Len(r) : r[i] = q[i + 1]
  BY HeadTailProperties, LenProperties, EmptySeq
<1> HIDE DEF r, x
<1>2. \A i \in 1 .. Len(q) : i = 1 \/ i - 1 \in 1 .. Len(r)
  BY <1>1
<1>3. Has(q, e) <=> x = e \/ Has(r, e)
  <2>1. Has(q, e) => x = e \/ Has(r, e)
    <3> SUFFICES ASSUME NEW i \in 1 .. Len(q), q[i] = e, i # 1 PROVE Has(r, e)
      BY <1>1 DEF Has
    <3>1. i - 1 \in 1 .. Len(r) /\ r[i - 1] = e
      BY <1>1, <1>2
    <3>2. QED
      BY <3>1 DEF Has
  <2>2. x = e => Has(q, e)
    <3>1. 1 \in 1 .. Len(q)
      BY <1>1
    <3>2. QED
      BY <1>1, <3>1 DEF Has
  <2>3. Has(r, e) => Has(q, e)
    BY <1>1 DEF Has
  <2>4. QED
    BY <2>1, <2>2, <2>3
<1>4. Once(q, e) => Once(r, e)
  <2> SUFFICES ASSUME Once(q, e), NEW i \in 1 .. Len(r), NEW j \in 1 .. Len(r), r[i] = e, r[j] = e
               PROVE  i = j
    BY DEF Once
  <2>1. i + 1 \in 1 .. Len(q) /\ j + 1 \in 1 .. Len(q) /\ q[i + 1] = e /\ q[j + 1] = e
    BY <1>1
  <2>2. i + 1 = j + 1
    BY <2>1 DEF Once
  <2>3. QED
    BY <2>2
<1>5. Once(q, e) /\ x = e => ~Has(r, e)
  <2> SUFFICES ASSUME Once(q, e), x = e, NEW i \in 1 .. Len(r), r[i] = e PROVE FALSE
    BY DEF Has
  <2>1. i + 1 \in 1 .. Len(q) /\ q[i + 1] = e /\ 1 \in 1 .. Len(q) /\ q[1] = e
    BY <1>1
  <2>2. i + 1 = 1
    BY <2>1 DEF Once
  <2>3. QED
    BY <2>2
<1>6. Follows(q, e, f) => Follows(r, e, f)
  <2> SUFFICES ASSUME Follows(q, e, f), NEW i \in 1 .. Len(r), r[i] = e
               PROVE  \E j \in i + 1 .. Len(r) : r[j] = f
    BY DEF Follows
  <2>1. i + 1 \in 1 .. Len(q) /\ q[i + 1] = e
    BY <1>1
  <2>2. PICK j \in i + 2 .. Len(q) : q[j] = f
    BY <2>1 DEF Follows
  <2>3. j - 1 \in i + 1 .. Len(r) /\ j - 1 \in 1 .. Len(r)
    BY <1>1
  <2>4. r[j - 1] = f
    BY <1>1, <2>2, <2>3
  <2>5. QED
    BY <2>3, <2>4
<1>7. Follows(q, e, f) /\ x = e => Has(r, f)
  <2> SUFFICES ASSUME Follows(q, e, f), x = e PROVE Has(r, f)
    OBVIOUS
  <2>1. 1 \in 1 .. Len(q) /\ q[1] = e
    BY <1>1
  <2>2. PICK j \in 2 .. Len(q) : q[j] = f
    BY <2>1 DEF Follows
  <2>3. j - 1 \in 1 .. Len(r)
    BY <1>1
  <2>4. r[j - 1] = f
    BY <1>1, <2>2, <2>3
  <2>5. QED
    BY <2>3, <2>4 DEF Has
<1>8. QED
  BY <1>3, <1>4, <1>5, <1>6, <1>7 DEF r, x

LEMMA Joined ==
  ASSUME NEW S, NEW q \in Seq(S), NEW t \in Seq(S), NEW e, NEW f
  PROVE  /\ Has(q \o t, e) <=> Has(q, e) \/ Has(t, e)
         /\ Once(q, e) /\ ~Has(t, e) => Once(q \o t, e)
         /\ Once(t, e) /\ ~Has(q, e) => Once(q \o t, e)
         /\ Follows(q, e, f) /\ ~Has(t, e) => Follows(q \o t, e, f)
<1> DEFINE r == q \o t
           n == Len(q)
<1>1. /\ Len(r) = n + Len(t) /\ n \in Nat /\ Len(t) \in Nat
      /\ \A i \in 1 .. Len(r) : r[i] = IF i <= n THEN q[i] ELSE t[i - n]
  BY ConcatProperties, LenProperties
<1> HIDE DEF r, n
<1>2. /\ \A i \in 1 .. Len(r) : \/ i \in 1 .. n /\ r[i] = q[i]
                                \/ i - n \in 1 .. Len(t) /\ r[i] = t[i - n] /\ i > n
      /\ \A i \in 1 .. n : i \in 1 .. Len(r) /\ r[i] = q[i]
      /\ n = Len(q)
  <2>1. ASSUME NEW i \in 1 .. Len(r)
        PROVE  \/ i \in 1 .. n /\ r[i] = q[i]
               \/ i - n \in 1 .. Len(t) /\ r[i] = t[i - n] /\ i > n
    <3>1. CASE i <= n
      BY <1>1, <3>1
    <3>2. CASE ~(i <= n)
      BY <1>1, <3>2
    <3>3. QED
      BY <3>1, <3>2
  <2>2. ASSUME NEW i \in 1 .. n PROVE i \in 1 .. Len(r) /\ r[i] = q[i]
    BY <1>1
  <2>3. n = Len(q)
    BY DEF n
  <2>4. QED
    BY <2>1, <2>2, <2>3
<1>3. \A i \in 1 .. Len(t) : n + i \in 1 .. Len(r) /\ r[n + i] = t[i]
  <2> SUFFICES ASSUME NEW i \in 1 .. Len(t) PROVE n + i \in 1 .. Len(r) /\ r[n + i] = t[i]
    OBVIOUS
  <2>1. n + i \in 1 .. Len(r) /\ ~(n + i <= n) /\ n + i - n = i
    BY <1>1
  <2>2. QED
    BY <1>1, <2>1
<1>4. Has(r, e) <=> Has(q, e) \/ Has(t, e)
  <2>1. Has(r, e) => Has(q, e) \/ Has(t, e)
    BY <1>2 DEF Has
  <2>2. Has(q, e) => Has(r, e)
    BY <1>2 DEF Has
  <2>3. Has(t, e) => Has(r, e)
    BY <1>3 DEF Has
  <2>4. QED
    BY <2>1, <2>2, <2>3
<1>5. Once(q, e) /\ ~Has(t, e) => Once(r, e)
  BY <1>2 DEF Once, Has
<1>6. Once(t, e) /\ ~Has(q, e) => Once(r, e)
  <2> SUFFICES ASSUME Once(t, e), ~Has(q, e), NEW i \in 1 .. Len(r), NEW j \in 1 .. Len(r),
                      r[i] = e, r[j] = e
               PROVE  i = j
    BY DEF Once
  <2>1. i - n \in 1 .. Len(t) /\ t[i - n] = e /\ j - n \in 1 .. Len(t) /\ t[j - n] = e
    BY <1>2 DEF Has
  <2>2. i - n = j - n
    BY <2>1 DEF Once
  <2>3. QED
    BY <1>1, <2>2
<1>7. Follows(q, e, f) /\ ~Has(t, e) => Follows(r, e, f)
  <2> SUFFICES ASSUME Follows(q, e, f), ~Has(t, e), NEW i \in 1 .. Len(r), r[i] = e
               PROVE  \E j \in i + 1 .. Len(r) : r[j] = f
    BY DEF Follows
  <2>1. i \in 1 .. Len(q) /\ q[i] = e
    BY <1>2 DEF Has
  <2>2. PICK j \in i + 1 .. Len(q) : q[j] = f
    BY <2>1 DEF Follows
  <2>3. j \in 1 .. n /\ j \in i + 1 .. Len(r)
    BY <1>1, <1>2
  <2>4. QED
    BY <1>2, <2>2, <2>3
<1>8. QED
  BY <1>4, <1>5, <1>6, <1>7 DEF r

LEMMA TasksDiffer ==
  ASSUME NEW c, NEW d, NEW n, NEW p
  PROVE  /\ New(c) # Closed(d) /\ Closed(d) # New(c)
         /\ Sync(d, n) # New(c) /\ Sync(d, n) # Closed(c)
         /\ Answer(d, n) # New(c) /\ Answer(d, n) # Closed(c)
         /\ Update(p, n) # New(c) /\ Update(p, n) # Closed(c)
         /\ New(c) = New(d) => c = d
         /\ Closed(c) = Closed(d) => c = d
<1>1. /\ New(c).kind = "new" /\ Closed(d).kind = "closed" /\ Sync(d, n).kind = "sync"
      /\ Closed(c).kind = "closed" /\ Answer(d, n).kind = "answer" /\ Update(p, n).kind = "update"
      /\ New(c).conn = c /\ New(d).conn = d /\ Closed(c).conn = c /\ Closed(d).conn = d
  BY DEF New, Closed, Sync, Answer, Update
<1>2. QED
  BY <1>1

----------------------------------------------------------------------------
(* A connection on its way through hub, mailbox and actor: announced once, *)
(* and before its end; an established one is announced, known, or about to *)
(* be disconnected; the actor will hear that one it knows is gone.         *)
Route(c) ==
    /\ Once(mailbox, New(c))
    /\ Has(mailbox, New(c)) => policy[c] = "Absent" /\ ~Has(toHub, c)
    /\ c \in subscribed <=> (hub[c] = "Open" /\ spawned)
    /\ c \in subscribed =>
         /\ ~Has(mailbox, Closed(c))
         /\ Has(mailbox, New(c)) \/ policy[c] # "Absent" \/ Has(toHub, c)
    /\ Has(mailbox, New(c)) => hub[c] # "Unused" /\ spawned
    /\ Has(mailbox, Closed(c)) => hub[c] # "Unused" /\ spawned
    /\ policy[c] # "Absent" => hub[c] # "Unused" /\ spawned
    /\ Has(toHub, c) => hub[c] # "Unused" /\ spawned
    /\ hub[c] = "Gone" /\ policy[c] # "Absent" => Has(mailbox, Closed(c))
    /\ hub[c] = "Gone" => Follows(mailbox, New(c), Closed(c))
    /\ c \in checks => policy[c] = "Loading"

Routed == \A c \in Conn : Route(c)

(* A task that is neither announcement nor end changes nothing.            *)
LEMMA OtherTask ==
  ASSUME TypeOK, NEW t \in Task, NEW c \in Conn, t # New(c), t # Closed(c),
         mailbox' = Append(mailbox, t), Route(c),
         UNCHANGED <<hubVars, toHub, policy, checks>>
  PROVE  Route(c)'
<1>1. mailbox \in Seq(Task)
  BY DEF TypeOK
<1>2. /\ Has(mailbox', New(c)) <=> Has(mailbox, New(c))
      /\ Has(mailbox', Closed(c)) <=> Has(mailbox, Closed(c))
      /\ Once(mailbox, New(c)) => Once(mailbox', New(c))
      /\ Follows(mailbox, New(c), Closed(c)) => Follows(mailbox', New(c), Closed(c))
  BY <1>1, AtTheEnd
<1>3. New(c)' = New(c) /\ Closed(c)' = Closed(c)
  BY DEF New, Closed
<1>4. QED
  BY <1>2, <1>3 DEF Route, hubVars

LEMMA RouteOfHub ==
  ASSUME TypeOK, Routed,
         \/ \E c \in Conn : Establish(c) \/ Lose(c) \/ Receive(c)
         \/ Disconnect \/ OpenDocument
  PROVE  Routed'
<1> SUFFICES ASSUME NEW c \in Conn PROVE Route(c)'
  BY DEF Routed
<1>0. Route(c) /\ mailbox \in Seq(Task) /\ toHub \in Seq(Conn)
  BY DEF Routed, TypeOK
<1>1. ASSUME NEW d \in Conn, Establish(d) PROVE Route(c)'
  <2>1. hub[d] = "Unused" /\ hub' = [hub EXCEPT ![d] = "Open"]
        /\ UNCHANGED <<spawned, toHub, policy, checks>>
    BY <1>1 DEF Establish, actorVars, connVars
  <2>2. CASE ~spawned
    BY <1>0, <1>1, <2>1, <2>2 DEF Establish, Route, TypeOK
  <2>3. CASE spawned
    <3> DEFINE missing == (Open \cup {d}) \ subscribed
    <3>1. missing = {d}
      <4>1. \A x \in Conn : x \in subscribed <=> hub[x] = "Open"
        BY <2>3 DEF Routed, Route
      <4>2. d \notin subscribed
        BY <2>1, <4>1
      <4>3. QED
        BY <4>1, <4>2 DEF Open
    <3>2. subscribed' = subscribed \cup missing
      BY <1>1, <2>3 DEF Establish, EnsureConnections
    <3>3. PICK order \in SetToSeqs(missing) :
                 mailbox' = mailbox \o [i \in DOMAIN order |-> New(order[i])]
      BY <1>1, <2>3 DEF Establish, EnsureConnections
    <3> DEFINE news == [i \in DOMAIN order |-> New(order[i])]
    <3>4. /\ news \in Seq(Task) /\ Len(news) = Len(order) /\ Len(order) \in Nat
          /\ \A i \in 1 .. Len(order) : news[i] = New(order[i]) /\ order[i] = d
          /\ \E i \in 1 .. Len(order) : order[i] = d
          /\ \A i, j \in 1 .. Len(order) : order[i] = order[j] => i = j
      <4>1. missing \in SUBSET Conn
        BY <3>1
      <4>2. /\ news \in Seq(Task) /\ Len(news) = Len(order)
            /\ \A i \in 1 .. Len(order) : news[i] = New(order[i]) /\ order[i] \in missing
        BY <4>1, NewTasks
      <4>3. /\ \A x \in missing : \E i \in 1 .. Len(order) : order[i] = x
            /\ \A i, j \in 1 .. Len(order) : order[i] = order[j] => i = j
            /\ order \in Seq(missing)
        <5> HIDE DEF missing
        <5>1. order \in SetToSeqs(missing)
          BY <3>3
        <5>2. /\ order \in Seq(missing) /\ DOMAIN order = 1 .. Len(order)
              /\ \A x \in missing : \E i \in 1 .. Len(order) : order[i] = x
              /\ \A i, j \in 1 .. Len(order) : order[i] = order[j] => i = j
          BY <4>1, <5>1, Enumerates, Zenon
        <5> QED
          BY <5>2
      <4>4. QED
        BY <3>1, <4>2, <4>3, LenProperties
    <3> HIDE DEF news
    <3>5. mailbox' = mailbox \o news
      BY <3>3 DEF news
    <3>6. /\ Has(news, New(c)) <=> c = d
          /\ ~Has(news, Closed(c))
          /\ Once(news, New(c))
      BY <3>4, TasksDiffer DEF Has, Once
    <3>7. /\ Has(mailbox', New(c)) <=> Has(mailbox, New(c)) \/ c = d
          /\ Has(mailbox', Closed(c)) <=> Has(mailbox, Closed(c))
          /\ Once(mailbox, New(c)) /\ c # d => Once(mailbox', New(c))
          /\ ~Has(mailbox, New(c)) => Once(mailbox', New(c))
          /\ Follows(mailbox, New(c), Closed(c)) /\ c # d => Follows(mailbox', New(c), Closed(c))
      BY <1>0, <3>4, <3>5, <3>6, Joined
    <3>8. New(c)' = New(c) /\ Closed(c)' = Closed(c)
      BY DEF New, Closed
    <3>9. CASE c = d
      BY <1>0, <2>1, <2>3, <3>1, <3>2, <3>7, <3>8, <3>9 DEF Route, TypeOK
    <3>10. CASE c # d
      <4>1. hub'[c] = hub[c] /\ (c \in subscribed' <=> c \in subscribed)
        BY <2>1, <3>1, <3>2, <3>10 DEF TypeOK
      <4>2. QED
        BY <1>0, <2>1, <3>7, <3>8, <3>10, <4>1 DEF Route
    <3>11. QED
      BY <3>9, <3>10
  <2>4. QED
    BY <2>2, <2>3
<1>2. ASSUME NEW d \in Conn, d \in Open, RemoveFromHub(d), UNCHANGED <<policy, checks>>,
             c # d => (Has(toHub', c) <=> Has(toHub, c)),
             Has(toHub', c) => Has(toHub, c)
      PROVE  Route(c)'
  <2>1. /\ hub[d] = "Open" /\ hub' = [hub EXCEPT ![d] = "Gone"]
        /\ subscribed' = subscribed \ {d} /\ spawned' = spawned
        /\ mailbox' = IF spawned THEN Append(mailbox, Closed(d)) ELSE mailbox
    BY <1>2 DEF RemoveFromHub, Open
  <2>2. New(c)' = New(c) /\ Closed(c)' = Closed(c)
    BY DEF New, Closed
  <2>3. hub'[d] = "Gone" /\ (c # d => hub'[c] = hub[c])
    BY <2>1 DEF TypeOK
  <2>4. CASE ~spawned
    <3>1. ~Has(mailbox, New(c))
      BY <1>0, <2>4 DEF Route
    <3>2. Follows(mailbox, New(c), Closed(c))
      BY <3>1 DEF Has, Follows
    <3>3. QED
      BY <1>0, <1>2, <2>1, <2>2, <2>3, <2>4, <3>2 DEF Route
  <2>5. CASE spawned
    <3>1. Closed(d) \in Task
      BY DEF Closed, Task
    <3>2. /\ Closed(d) # New(c) /\ (Closed(d) = Closed(c) <=> d = c)
      BY TasksDiffer
    <3>3. /\ Has(mailbox', New(c)) <=> Has(mailbox, New(c))
          /\ Has(mailbox', Closed(c)) <=> Has(mailbox, Closed(c)) \/ c = d
          /\ Once(mailbox, New(c)) => Once(mailbox', New(c))
          /\ Follows(mailbox, New(c), Closed(c)) \/ c = d => Follows(mailbox', New(c), Closed(c))
      BY <1>0, <2>1, <2>5, <3>1, <3>2, AtTheEnd
    <3>4. QED
      BY <1>0, <1>2, <2>1, <2>2, <2>3, <2>5, <3>3 DEF Route
  <2>6. QED
    BY <2>4, <2>5
<1>3. ASSUME NEW d \in Conn, Lose(d) PROVE Route(c)'
  <2>1. d \in Open /\ RemoveFromHub(d) /\ UNCHANGED <<policy, checks, toHub>>
    BY <1>3 DEF Lose, actorVars, connVars, Open
  <2>2. QED
    BY <1>2, <2>1
<1>4. CASE Disconnect
  <2>1. toHub # <<>> /\ toHub' = Tail(toHub) /\ UNCHANGED <<policy, checks>>
        /\ Head(toHub) \in Conn
    BY <1>0, <1>4, HeadTailProperties DEF Disconnect, actorVars, connVars
  <2>2. Has(toHub, c) <=> Head(toHub) = c \/ Has(toHub', c)
    BY <1>0, <2>1, AtTheFront
  <2>3. CASE Head(toHub) \in Open
    <3>1. RemoveFromHub(Head(toHub))
      BY <1>4, <2>3 DEF Disconnect
    <3>2. c # Head(toHub) => (Has(toHub', c) <=> Has(toHub, c))
      BY <2>2
    <3>3. Has(toHub', c) => Has(toHub, c)
      BY <2>2
    <3>4. QED
      BY <1>2, <2>1, <2>3, <3>1, <3>2, <3>3
  <2>4. CASE Head(toHub) \notin Open
    <3>1. UNCHANGED <<hubVars, mailbox>>
      BY <1>4, <2>4 DEF Disconnect
    <3>2. c \in subscribed => c # Head(toHub)
      BY <1>0, <2>4 DEF Open, Route
    <3>3. New(c)' = New(c) /\ Closed(c)' = Closed(c)
      BY DEF New, Closed
    <3>4. QED
      BY <1>0, <2>1, <2>2, <3>1, <3>2, <3>3 DEF Route, hubVars
  <2>5. QED
    BY <2>3, <2>4
<1>5. ASSUME NEW pend, Spawn(pend) PROVE Route(c)'
  <2>1. /\ ~spawned /\ spawned' /\ UNCHANGED <<hub, toHub>>
        /\ policy' = [x \in Conn |-> IF x \in Open THEN "Loading" ELSE "Absent"]
        /\ checks' = Open
    BY <1>5 DEF Spawn
  <2>2. subscribed' = Open /\ mailbox' = mailbox
    <3>1. PICK order \in SetToSeqs({}) :
                 /\ subscribed' = Open
                 /\ mailbox' = mailbox \o [i \in DOMAIN order |-> New(order[i])]
      <4>1. SubscribedAtSpawn = Open /\ Open \ Open = {} /\ Open \cup {} = Open
        BY DEF SubscribedAtSpawn
      <4>2. QED
        BY <1>5, <4>1 DEF Spawn, EnsureConnections
    <3>2. order \in Seq({})
      BY Enumerates
    <3>3. order = <<>> /\ DOMAIN order = {}
      BY <3>2
    <3>4. [i \in DOMAIN order |-> New(order[i])] = <<>>
      BY <3>3
    <3>5. QED
      BY <1>0, <3>1, <3>4, ConcatEmptySeq
  <2>3. ~Has(mailbox, New(c)) /\ ~Has(mailbox, Closed(c)) /\ ~Has(toHub, c)
    BY <1>0, <2>1 DEF Route
  <2>4. Once(mailbox, New(c)) /\ Follows(mailbox, New(c), Closed(c))
    BY <2>3 DEF Has, Once, Follows
  <2>5. New(c)' = New(c) /\ Closed(c)' = Closed(c)
    BY DEF New, Closed
  <2>6. c \in Open <=> hub[c] = "Open"
    BY DEF Open
  <2>7. QED
    BY <2>1, <2>2, <2>3, <2>4, <2>5, <2>6 DEF Route
<1>6. ASSUME NEW d \in Conn, Receive(d) PROVE Route(c)'
  <2>1. sent' \in [Conn -> Nat] /\ sent'[d] \in Nat
    <3>1. sent \in [Conn -> Nat] /\ sent' = [sent EXCEPT ![d] = sent[d] + 1]
      BY <1>6 DEF Receive, TypeOK
    <3>2. sent[d] + 1 \in Nat
      BY <3>1
    <3>3. QED
      BY <3>1, <3>2
  <2>2. CASE spawned /\ mailbox' = Append(mailbox, Sync(d, sent'[d]))
             /\ UNCHANGED <<hubVars, toHub, actorVars, io, ioVars>>
    <3>1. Sync(d, sent'[d]) \in Task /\ Sync(d, sent'[d]) # New(c) /\ Sync(d, sent'[d]) # Closed(c)
      BY <2>1, TasksDiffer DEF Sync, Task
    <3>2. UNCHANGED <<hubVars, toHub, policy, checks>>
      BY <2>2 DEF actorVars, connVars
    <3>3. QED
      BY <1>0, <2>2, <3>1, <3>2, OtherTask
  <2>3. CASE Spawn([pending EXCEPT ![d] = <<sent'[d]>>])
    BY <1>5, <2>3
  <2>4. QED
    BY <1>6, <2>2, <2>3 DEF Receive
<1>7. CASE OpenDocument
  BY <1>5, <1>7 DEF OpenDocument
<1>8. QED
  BY <1>1, <1>3, <1>4, <1>6, <1>7

(* The actor takes the head of its mailbox.                                *)
LEMMA RouteOfActor ==
  ASSUME TypeOK, Routed, ActorStep \/ LoadDone
  PROVE  Routed'
<1> SUFFICES ASSUME NEW c \in Conn PROVE Route(c)'
  BY DEF Routed
<1>0. Route(c) /\ mailbox \in Seq(Task) /\ toHub \in Seq(Conn)
  BY DEF Routed, TypeOK
<1>1. New(c)' = New(c) /\ Closed(c)' = Closed(c)
  BY DEF New, Closed
<1>2. ASSUME NEW kind, Handles(kind)
      PROVE  /\ Head(mailbox) \in Task /\ Head(mailbox).kind = kind
             /\ mailbox # <<>> /\ mailbox' = Tail(mailbox)
             /\ Has(mailbox, New(c)) <=> Head(mailbox) = New(c) \/ Has(mailbox', New(c))
             /\ Has(mailbox, Closed(c)) <=> Head(mailbox) = Closed(c) \/ Has(mailbox', Closed(c))
             /\ Once(mailbox, New(c)) => Once(mailbox', New(c))
             /\ Once(mailbox, New(c)) /\ Head(mailbox) = New(c) => ~Has(mailbox', New(c))
             /\ Follows(mailbox, New(c), Closed(c)) => Follows(mailbox', New(c), Closed(c))
             /\ Follows(mailbox, New(c), Closed(c)) /\ Head(mailbox) = New(c) => Has(mailbox', Closed(c))
  BY <1>0, <1>2, HeadTailProperties, AtTheFront DEF Handles
<1>3. ASSUME NEW kind, Handles(kind), kind \notin {"new", "closed"}
      PROVE  /\ Has(mailbox, New(c)) <=> Has(mailbox', New(c))
             /\ Has(mailbox, Closed(c)) <=> Has(mailbox', Closed(c))
             /\ Once(mailbox, New(c)) => Once(mailbox', New(c))
             /\ Follows(mailbox, New(c), Closed(c)) => Follows(mailbox', New(c), Closed(c))
  <2>1. New(c).kind = "new" /\ Closed(c).kind = "closed"
    BY DEF New, Closed
  <2>2. Head(mailbox) # New(c) /\ Head(mailbox) # Closed(c)
    BY <1>2, <1>3, <2>1
  <2>3. QED
    BY <1>2, <1>3, <2>2
<1>4. CASE NewConnection
  <2> DEFINE d == Head(mailbox).conn
  <2>1. Head(mailbox) = New(d) /\ d \in Conn
    BY <1>2, <1>4, TaskFields DEF NewConnection
  <2>2. /\ policy' = [policy EXCEPT ![d] = "Loading"] /\ checks' = checks \cup {d}
        /\ UNCHANGED <<hubVars, toHub>>
    BY <1>4 DEF NewConnection
  <2> HIDE DEF d
  <2>3. New(d) # Closed(c) /\ (New(d) = New(c) <=> c = d)
    BY TasksDiffer
  <2>4. Handles("new")
    BY <1>4 DEF NewConnection
  <2>5. CASE c = d
    <3>1. policy'[c] = "Loading" /\ ~Has(mailbox', New(c)) /\ Has(mailbox, New(c))
      BY <1>0, <1>2, <2>1, <2>2, <2>3, <2>4, <2>5 DEF Route, TypeOK
    <3>2. QED
      BY <1>0, <1>1, <1>2, <2>1, <2>2, <2>3, <2>4, <2>5, <3>1 DEF Route, hubVars
  <2>6. CASE c # d
    <3>1. policy'[c] = policy[c] /\ (c \in checks' <=> c \in checks)
      BY <2>1, <2>2, <2>6 DEF TypeOK
    <3>2. QED
      BY <1>0, <1>1, <1>2, <2>1, <2>2, <2>3, <2>4, <2>6, <3>1 DEF Route, hubVars
  <2>7. QED
    BY <2>5, <2>6
<1>5. CASE ConnectionClosed
  <2> DEFINE d == Head(mailbox).conn
  <2>1. Head(mailbox) = Closed(d) /\ d \in Conn
    BY <1>2, <1>5, TaskFields DEF ConnectionClosed
  <2>2. /\ policy' = [policy EXCEPT ![d] = "Absent"] /\ checks' = checks \ {d}
        /\ UNCHANGED <<hubVars, toHub>>
    BY <1>5 DEF ConnectionClosed, RemoveConnection
  <2> HIDE DEF d
  <2>3. Closed(d) # New(c) /\ (Closed(d) = Closed(c) <=> c = d)
    BY TasksDiffer
  <2>4. Handles("closed")
    BY <1>5 DEF ConnectionClosed
  <2>5. CASE c = d
    <3>1. policy'[c] = "Absent" /\ c \notin checks' /\ Has(mailbox, Closed(c))
      BY <1>2, <2>1, <2>2, <2>4, <2>5 DEF TypeOK
    <3>2. QED
      BY <1>0, <1>1, <1>2, <2>1, <2>2, <2>3, <2>4, <3>1 DEF Route, hubVars
  <2>6. CASE c # d
    <3>1. policy'[c] = policy[c] /\ (c \in checks' <=> c \in checks)
      BY <2>1, <2>2, <2>6 DEF TypeOK
    <3>2. QED
      BY <1>0, <1>1, <1>2, <2>1, <2>2, <2>3, <2>4, <2>6, <3>1 DEF Route, hubVars
  <2>7. QED
    BY <2>5, <2>6
<1>6. CASE SyncMessage
  <2> DEFINE d == Head(mailbox).conn
  <2>1. Handles("sync") /\ d \in Conn /\ UNCHANGED hubVars
    BY <1>2, <1>6, TaskFields DEF SyncMessage
  <2>2. \/ UNCHANGED <<toHub, policy, checks>>
        \/ policy[d] = "Loading" /\ RemoveConnection(d) /\ toHub' = Append(toHub, d)
    BY <1>6 DEF SyncMessage, connVars
  <2> HIDE DEF d
  <2>3. CASE UNCHANGED <<toHub, policy, checks>>
    BY <1>0, <1>1, <1>3, <2>1, <2>3 DEF Route, hubVars
  <2>4. CASE policy[d] = "Loading" /\ RemoveConnection(d) /\ toHub' = Append(toHub, d)
    <3>1. policy' = [policy EXCEPT ![d] = "Absent"] /\ checks' = checks \ {d}
      BY <2>4 DEF RemoveConnection
    <3>2. Has(toHub', c) <=> Has(toHub, c) \/ d = c
      BY <1>0, <2>1, <2>4, AtTheEnd
    <3>3. CASE c = d
      BY <1>0, <1>1, <1>3, <2>1, <2>4, <3>1, <3>2, <3>3 DEF Route, hubVars, TypeOK
    <3>4. CASE c # d
      <4>1. policy'[c] = policy[c] /\ (c \in checks' <=> c \in checks)
        BY <2>1, <3>1, <3>4 DEF TypeOK
      <4>2. QED
        BY <1>0, <1>1, <1>3, <2>1, <3>2, <3>4, <4>1 DEF Route, hubVars
    <3>5. QED
      BY <3>3, <3>4
  <2>5. QED
    BY <2>2, <2>3, <2>4
<1>7. ASSUME NEW kind, Handles(kind), kind \notin {"new", "closed"},
             UNCHANGED <<hubVars, toHub>>,
             \/ policy'[c] = policy[c] /\ (c \in checks' => c \in checks)
             \/ policy[c] # "Absent" /\ policy'[c] # "Absent" /\ c \notin checks'
      PROVE  Route(c)'
  BY <1>0, <1>1, <1>3, <1>7 DEF Route, hubVars
<1>8. CASE CheckAnswered
  <2> DEFINE d == Head(mailbox).conn
  <2>1. /\ Handles("answer") /\ UNCHANGED <<hubVars, toHub>> /\ checks' = checks \ {d}
        /\ IF d \in checks THEN policy' = [x \in Conn |-> IF x \in {d} THEN "Ready" ELSE policy[x]]
                           ELSE policy' = policy
    BY <1>8 DEF CheckAnswered, ApplySharePolicy
  <2> HIDE DEF d
  <2>2. c \in checks => policy[c] # "Absent"
    BY <1>0 DEF Route
  <2>3. \/ policy'[c] = policy[c] /\ (c \in checks' => c \in checks)
        \/ policy[c] # "Absent" /\ policy'[c] # "Absent" /\ c \notin checks'
    BY <2>1, <2>2
  <2>4. QED
    BY <1>7, <2>1, <2>3
<1>9. CASE PolicyUpdated
  <2> DEFINE conns == Known \cap Of(Head(mailbox).peer)
  <2>1. /\ Handles("update") /\ UNCHANGED <<hubVars, toHub>> /\ checks' = checks \ conns
        /\ policy' = [x \in Conn |-> IF x \in conns THEN "Ready" ELSE policy[x]]
    BY <1>9 DEF PolicyUpdated, ApplySharePolicy
  <2>2. c \in conns => policy[c] # "Absent"
    BY DEF Known
  <2> HIDE DEF conns
  <2>3. \/ policy'[c] = policy[c] /\ (c \in checks' => c \in checks)
        \/ policy[c] # "Absent" /\ policy'[c] # "Absent" /\ c \notin checks'
    BY <2>1, <2>2
  <2>4. QED
    BY <1>7, <2>1, <2>3
<1>10. CASE LoadDone
  BY <1>0, <1>1, <1>10 DEF LoadDone, Route, hubVars, connVars
<1>11. QED
  BY <1>4, <1>5, <1>6, <1>8, <1>9, <1>10 DEF ActorStep

LEMMA RouteOfIo ==
  ASSUME TypeOK, Routed,
         \/ SetPeers \/ CheckPolicy
         \/ \E p \in Peer : StreamYields(p) \/ StreamEnds(p) \/ NewDecision(p)
  PROVE  Routed'
<1> SUFFICES ASSUME NEW c \in Conn PROVE Route(c)'
  BY DEF Routed
<1>0. Route(c) /\ mailbox \in Seq(Task)
  BY DEF Routed, TypeOK
<1>1. New(c)' = New(c) /\ Closed(c)' = Closed(c)
  BY DEF New, Closed
<1>2. UNCHANGED <<hubVars, toHub, policy, checks>>
  BY DEF SetPeers, CheckPolicy, StreamYields, StreamEnds, NewDecision, actorVars, connVars
<1>3. CASE UNCHANGED mailbox
  BY <1>0, <1>1, <1>2, <1>3 DEF Route, hubVars
<1>4. CASE CheckPolicy /\ ~UNCHANGED mailbox
  <2> DEFINE d == Head(io).conn
             v == slot[PeerOf[d]].latest
  <2>1. io # <<>> /\ Head(io).kind = "check" /\ mailbox' = Append(mailbox, Answer(d, v))
    BY <1>4 DEF CheckPolicy, IoTakes
  <2>2. d \in Conn
    BY <2>1, HeadTailProperties, IoTaskFields DEF TypeOK
  <2>3. v \in Nat
    BY <2>2, SlotFields
  <2> HIDE DEF d, v
  <2>4. Answer(d, v) \in Task /\ Answer(d, v) # New(c) /\ Answer(d, v) # Closed(c)
    BY <2>2, <2>3, TasksDiffer DEF Answer, Task
  <2>5. QED
    BY <1>0, <1>2, <2>1, <2>4, OtherTask
<1>5. ASSUME NEW p \in Peer, NEW v \in 0 .. Len(decisions[p]), Decide(p, v) PROVE Route(c)'
  <2> DEFINE told == Answered(slot[p].waiting)
             answers == [i \in DOMAIN told |-> Answer(told[i], v)]
             new == IF slot[p].state = "Asked" THEN answers
                    ELSE IF Decision(p, v) # Decision(p, slot[p].latest) THEN <<Update(p, v)>> ELSE <<>>
  <2>1. v \in Nat /\ told \in Seq(Conn)
    <3>1. Len(decisions[p]) \in Nat
      BY LenProperties DEF TypeOK
    <3>2. slot[p].waiting \in Seq(Conn)
      BY SlotFields
    <3>3. QED
      BY <3>1, <3>2 DEF Answered
  <2>2. /\ answers \in Seq(Task) /\ Len(answers) = Len(told)
        /\ \A i \in 1 .. Len(told) : answers[i] = Answer(told[i], v)
    BY <2>1, AnswerTasks
  <2>3. mailbox' = mailbox \o new
    BY <1>5 DEF Decide
  <2> HIDE DEF told, answers
  <2>4. ~Has(answers, New(c)) /\ ~Has(answers, Closed(c))
    BY <2>2, TasksDiffer DEF Has
  <2>5. /\ <<Update(p, v)>> \in Seq(Task) /\ <<>> \in Seq(Task)
        /\ ~Has(<<Update(p, v)>>, New(c)) /\ ~Has(<<Update(p, v)>>, Closed(c))
        /\ ~Has(<<>>, New(c)) /\ ~Has(<<>>, Closed(c))
    <3>1. Update(p, v) \in Task
      BY <2>1 DEF Update, Task
    <3>2. Update(p, v) # New(c) /\ Update(p, v) # Closed(c)
      BY TasksDiffer
    <3>3. QED
      BY <3>1, <3>2 DEF Has
  <2>6. new \in Seq(Task) /\ ~Has(new, New(c)) /\ ~Has(new, Closed(c))
    BY <2>2, <2>4, <2>5
  <2> HIDE DEF new
  <2>7. /\ Has(mailbox', New(c)) <=> Has(mailbox, New(c))
        /\ Has(mailbox', Closed(c)) <=> Has(mailbox, Closed(c))
        /\ Once(mailbox, New(c)) => Once(mailbox', New(c))
        /\ Follows(mailbox, New(c), Closed(c)) => Follows(mailbox', New(c), Closed(c))
    BY <1>0, <2>3, <2>6, Joined
  <2>8. QED
    BY <1>0, <1>1, <1>2, <2>7 DEF Route, hubVars
<1>6. ASSUME NEW p \in Peer, StreamYields(p) PROVE Route(c)'
  <2>1. slot[p].next \in 0 .. Len(decisions[p])
    <3>1. slot[p].next \in Nat /\ slot[p].next <= Len(decisions[p]) /\ Len(decisions[p]) \in Nat
      BY <1>6, SlotFields, LenProperties DEF StreamYields, TypeOK
    <3>2. QED
      BY <3>1
  <2>2. QED
    BY <1>5, <1>6, <2>1 DEF StreamYields
<1>7. ASSUME NEW p \in Peer, StreamEnds(p) PROVE Route(c)'
  <2>1. 0 \in 0 .. Len(decisions[p])
    BY LenProperties DEF TypeOK
  <2>2. QED
    BY <1>3, <1>5, <1>7, <2>1 DEF StreamEnds
<1>8. SetPeers \/ (\E p \in Peer : NewDecision(p)) => UNCHANGED mailbox
  BY DEF SetPeers, NewDecision
<1>9. QED
  BY <1>3, <1>4, <1>6, <1>7, <1>8

LEMMA RouteStep == TypeOK /\ Routed /\ [Next]_vars => Routed'
<1> SUFFICES ASSUME TypeOK, Routed, [Next]_vars PROVE Routed'
  OBVIOUS
<1>1. CASE UNCHANGED vars
  BY <1>1 DEF vars, hubVars, actorVars, connVars, Routed, Route, New, Closed
<1>2. QED
  BY <1>1, RouteOfHub, RouteOfActor, RouteOfIo DEF Next

LEMMA RouteInit == Init => Routed
<1> SUFFICES ASSUME Init, NEW c \in Conn PROVE Route(c)
  BY DEF Routed
<1>1. ~Has(<<>>, New(c)) /\ ~Has(<<>>, Closed(c)) /\ ~Has(<<>>, c)
  BY DEF Has
<1>2. Once(<<>>, New(c)) /\ Follows(<<>>, New(c), Closed(c))
  BY DEF Once, Follows
<1>3. QED
  BY <1>1, <1>2 DEF Init, Route

(* add_connection never meets a connection that it has.                    *)
THEOREM NeverAnnouncedTwice == Spec => []AnnouncedOnce
<1>1. TypeOK /\ Routed => AnnouncedOnce
  <2> SUFFICES ASSUME TypeOK, Routed, mailbox # <<>>, Head(mailbox).kind = "new"
               PROVE  Head(mailbox).conn \notin Known
    BY DEF AnnouncedOnce
  <2> DEFINE c == Head(mailbox).conn
  <2>1. mailbox \in Seq(Task) /\ Head(mailbox) \in Task
    BY HeadTailProperties DEF TypeOK
  <2>2. c \in Conn /\ Head(mailbox) = New(c)
    BY <2>1, TaskFields
  <2>3. Has(mailbox, New(c))
    <3> HIDE DEF c
    <3> QED
      BY <2>1, <2>2, AtTheFront
  <2>4. QED
    BY <2>2, <2>3 DEF Routed, Route, Known
<1>2. Spec => []Routed
  BY RouteInit, RouteStep, TypeCorrect, PTL DEF Spec
<1>3. QED
  BY <1>1, <1>2, TypeCorrect, PTL

----------------------------------------------------------------------------
(* The sets of peers in the IO loop's channel, in the order in which they  *)
(* will hold: at 0 the one that holds, the peers with a slot.              *)
HasSlot == {p \in Peer : slot[p].state # "Absent"}
IsSetAt(q, i) == i = 0 \/ q[i].kind = "peers"
SetAt(q, S, i) == IF i = 0 THEN S ELSE q[i].peers

(* The last set will be T.                                                 *)
Ends(q, S, T) ==
    \E i \in 0 .. Len(q) :
        /\ IsSetAt(q, i) /\ SetAt(q, S, i) = T
        /\ \A k \in i + 1 .. Len(q) : q[k].kind # "peers"

(* Whenever p will be without a slot, it will have one again before e.     *)
Ahead(q, S, p, e) ==
    \A i \in 0 .. Len(q) : IsSetAt(q, i) /\ p \notin SetAt(q, S, i) =>
        \E k \in i + 1 .. Len(q) : \E j \in k + 1 .. Len(q) :
            q[k].kind = "peers" /\ p \in q[k].peers /\ q[j] = e

LEMMA IoTaskKinds ==
  ASSUME NEW c, NEW d, NEW T
  PROVE  /\ Peers(T).kind = "peers" /\ Peers(T).peers = T
         /\ Check(c).kind = "check" /\ Check(c).conn = c
         /\ Check(c) = Check(d) => c = d
BY DEF Peers, Check

LEMMA SetAdded ==
  ASSUME NEW q \in Seq(IoTask), NEW T \in SUBSET Peer, NEW S, NEW p, NEW e
  PROVE  /\ Ends(Append(q, Peers(T)), S, T)
         /\ Ahead(q, S, p, e) /\ p \in T => Ahead(Append(q, Peers(T)), S, p, e)
<1> DEFINE r == Append(q, Peers(T))
           n == Len(q)
<1>1. Peers(T) \in IoTask
  BY DEF Peers, IoTask
<1>2. /\ Len(r) = n + 1 /\ n \in Nat /\ (\A i \in 1 .. n : r[i] = q[i]) /\ r[n + 1] = Peers(T)
  BY <1>1, AppendProperties, LenProperties
<1>3. r[n + 1].kind = "peers" /\ r[n + 1].peers = T
  BY <1>2, IoTaskKinds
<1>4. n = Len(q)
  OBVIOUS
<1> HIDE DEF r, n
<1>5. Ends(r, S, T)
  <2>1. n + 1 \in 0 .. Len(r) /\ IsSetAt(r, n + 1) /\ SetAt(r, S, n + 1) = T
    BY <1>2, <1>3 DEF IsSetAt, SetAt
  <2>2. \A k \in n + 2 .. Len(r) : r[k].kind # "peers"
    BY <1>2
  <2>3. n + 1 + 1 = n + 2
    BY <1>2
  <2>4. QED
    BY <2>1, <2>2, <2>3 DEF Ends
<1>6. ASSUME Ahead(q, S, p, e), p \in T PROVE Ahead(r, S, p, e)
  <2> SUFFICES ASSUME NEW i \in 0 .. Len(r), IsSetAt(r, i), p \notin SetAt(r, S, i)
               PROVE  \E k \in i + 1 .. Len(r) : \E j \in k + 1 .. Len(r) :
                          r[k].kind = "peers" /\ p \in r[k].peers /\ r[j] = e
    BY DEF Ahead
  <2>1. i # n + 1
    BY <1>2, <1>3, <1>6 DEF SetAt
  <2>2. i \in 0 .. n /\ (i # 0 => r[i] = q[i])
    BY <1>2, <2>1
  <2>3. IsSetAt(q, i) /\ p \notin SetAt(q, S, i)
    BY <2>2 DEF IsSetAt, SetAt
  <2>4. PICK k \in i + 1 .. n : \E j \in k + 1 .. n :
                q[k].kind = "peers" /\ p \in q[k].peers /\ q[j] = e
    BY <1>4, <1>6, <2>2, <2>3 DEF Ahead
  <2>5. PICK j \in k + 1 .. n : q[k].kind = "peers" /\ p \in q[k].peers /\ q[j] = e
    BY <2>4
  <2>6. k \in 1 .. n /\ j \in 1 .. n /\ k \in i + 1 .. Len(r) /\ j \in k + 1 .. Len(r)
    BY <1>2, <2>2
  <2>7. r[k] = q[k] /\ r[j] = q[j]
    BY <1>2, <2>6
  <2>8. QED
    BY <2>5, <2>6, <2>7
<1>7. QED
  BY <1>5, <1>6 DEF r

LEMMA CheckAdded ==
  ASSUME NEW q \in Seq(IoTask), NEW c \in Conn, NEW S, NEW T, NEW p, NEW e
  PROVE  /\ Ends(q, S, T) => Ends(Append(q, Check(c)), S, T)
         /\ Ahead(q, S, p, e) => Ahead(Append(q, Check(c)), S, p, e)
         /\ Ends(q, S, T) /\ p \in T => Ahead(Append(q, Check(c)), S, p, Check(c))
<1> DEFINE r == Append(q, Check(c))
           n == Len(q)
<1>1. Check(c) \in IoTask
  BY DEF Check, IoTask
<1>2. /\ Len(r) = n + 1 /\ n \in Nat /\ (\A i \in 1 .. n : r[i] = q[i]) /\ r[n + 1] = Check(c)
  BY <1>1, AppendProperties, LenProperties
<1>3. r[n + 1].kind = "check"
  BY <1>2, IoTaskKinds
<1>4. n = Len(q)
  OBVIOUS
<1> HIDE DEF r, n
<1>5. ASSUME Ends(q, S, T) PROVE Ends(r, S, T)
  <2>1. PICK i \in 0 .. n : /\ IsSetAt(q, i) /\ SetAt(q, S, i) = T
                            /\ \A k \in i + 1 .. n : q[k].kind # "peers"
    BY <1>4, <1>5 DEF Ends
  <2>2. i \in 0 .. Len(r) /\ (i # 0 => r[i] = q[i])
    BY <1>2
  <2>3. IsSetAt(r, i) /\ SetAt(r, S, i) = T
    BY <2>1, <2>2 DEF IsSetAt, SetAt
  <2>4. ASSUME NEW k \in i + 1 .. Len(r) PROVE r[k].kind # "peers"
    <3>1. k = n + 1 \/ (k \in i + 1 .. n /\ k \in 1 .. n)
      BY <1>2
    <3>2. QED
      BY <1>2, <1>3, <2>1, <3>1
  <2>5. QED
    BY <2>2, <2>3, <2>4 DEF Ends
<1>6. ASSUME NEW i \in 0 .. Len(r), IsSetAt(r, i)
      PROVE  i \in 0 .. n /\ IsSetAt(q, i) /\ SetAt(q, S, i) = SetAt(r, S, i)
  <2>1. i # n + 1
    BY <1>2, <1>3, <1>6 DEF IsSetAt
  <2>2. i \in 0 .. n /\ (i # 0 => r[i] = q[i])
    BY <1>2, <2>1
  <2>3. QED
    BY <1>6, <2>2 DEF IsSetAt, SetAt
<1>7. ASSUME Ahead(q, S, p, e) PROVE Ahead(r, S, p, e)
  <2> SUFFICES ASSUME NEW i \in 0 .. Len(r), IsSetAt(r, i), p \notin SetAt(r, S, i)
               PROVE  \E k \in i + 1 .. Len(r) : \E j \in k + 1 .. Len(r) :
                          r[k].kind = "peers" /\ p \in r[k].peers /\ r[j] = e
    BY DEF Ahead
  <2>1. i \in 0 .. n /\ IsSetAt(q, i) /\ p \notin SetAt(q, S, i)
    BY <1>6
  <2>2. PICK k \in i + 1 .. n : \E j \in k + 1 .. n :
                q[k].kind = "peers" /\ p \in q[k].peers /\ q[j] = e
    BY <1>4, <1>7, <2>1 DEF Ahead
  <2>3. PICK j \in k + 1 .. n : q[k].kind = "peers" /\ p \in q[k].peers /\ q[j] = e
    BY <2>2
  <2>4. k \in 1 .. n /\ j \in 1 .. n /\ k \in i + 1 .. Len(r) /\ j \in k + 1 .. Len(r)
    BY <1>2, <2>1
  <2>5. r[k] = q[k] /\ r[j] = q[j]
    BY <1>2, <2>4
  <2>6. QED
    BY <2>3, <2>4, <2>5
<1>8. ASSUME Ends(q, S, T), p \in T PROVE Ahead(r, S, p, Check(c))
  <2>1. PICK m \in 0 .. n : /\ IsSetAt(q, m) /\ SetAt(q, S, m) = T
                            /\ \A k \in m + 1 .. n : q[k].kind # "peers"
    BY <1>4, <1>8 DEF Ends
  <2> SUFFICES ASSUME NEW i \in 0 .. Len(r), IsSetAt(r, i), p \notin SetAt(r, S, i)
               PROVE  \E k \in i + 1 .. Len(r) : \E j \in k + 1 .. Len(r) :
                          r[k].kind = "peers" /\ p \in r[k].peers /\ r[j] = Check(c)
    BY DEF Ahead
  <2>2. i \in 0 .. n /\ IsSetAt(q, i) /\ p \notin SetAt(q, S, i)
    BY <1>6
  <2>3. i # m
    BY <1>8, <2>1, <2>2
  <2>4. ~(i > m)
    <3>1. SUFFICES ASSUME i > m PROVE FALSE
      OBVIOUS
    <3>2. i \in m + 1 .. n /\ i # 0
      BY <1>2, <2>2, <3>1
    <3>3. QED
      BY <2>1, <2>2, <3>2 DEF IsSetAt
  <2>5. m \in i + 1 .. Len(r) /\ m \in 1 .. n /\ m # 0 /\ n + 1 \in m + 1 .. Len(r)
    BY <1>2, <2>2, <2>3, <2>4
  <2>6. r[m] = q[m] /\ q[m].kind = "peers" /\ p \in q[m].peers
    BY <1>2, <1>8, <2>1, <2>5 DEF IsSetAt, SetAt
  <2>7. QED
    BY <1>2, <2>5, <2>6
<1>9. QED
  BY <1>5, <1>7, <1>8 DEF r

LEMMA SetTaken ==
  ASSUME NEW q \in Seq(IoTask), q # <<>>, NEW S, NEW T, NEW p, NEW e,
         Head(q).kind = "peers", e.kind = "check"
  PROVE  /\ Ends(q, S, T) => Ends(Tail(q), Head(q).peers, T)
         /\ Ahead(q, S, p, e) => Ahead(Tail(q), Head(q).peers, p, e)
         /\ Ahead(q, S, p, e) /\ p \notin Head(q).peers => Has(Tail(q), e)
<1> DEFINE r == Tail(q)
           H == Head(q).peers
<1>1. /\ Len(r) = Len(q) - 1 /\ Len(q) \in Nat /\ Len(q) > 0 /\ q[1].peers = H /\ q[1].kind = "peers"
      /\ \A i \in 1 .. Len(r) : r[i] = q[i + 1]
  BY HeadTailProperties, LenProperties, EmptySeq
<1> HIDE DEF r, H
<1>2. ASSUME NEW i \in 0 .. Len(r)
      PROVE  /\ i + 1 \in 0 .. Len(q)
             /\ IsSetAt(r, i) <=> IsSetAt(q, i + 1)
             /\ SetAt(r, H, i) = SetAt(q, S, i + 1)
  <2>1. i + 1 \in 0 .. Len(q) /\ i + 1 # 0
    BY <1>1
  <2>2. CASE i = 0
    BY <1>1, <2>1, <2>2 DEF IsSetAt, SetAt
  <2>3. CASE i # 0
    <3>1. r[i] = q[i + 1]
      BY <1>1, <2>3
    <3>2. QED
      BY <2>1, <2>3, <3>1 DEF IsSetAt, SetAt
  <2>4. QED
    BY <2>2, <2>3
<1>3. ASSUME Ends(q, S, T) PROVE Ends(r, H, T)
  <2>1. PICK m \in 0 .. Len(q) : /\ IsSetAt(q, m) /\ SetAt(q, S, m) = T
                                 /\ \A k \in m + 1 .. Len(q) : q[k].kind # "peers"
    BY <1>3 DEF Ends
  <2>2. m # 0
    <3>1. SUFFICES ASSUME m = 0 PROVE FALSE
      OBVIOUS
    <3>2. 1 \in m + 1 .. Len(q)
      BY <1>1, <3>1
    <3>3. QED
      BY <1>1, <2>1, <3>2
  <2>3. m - 1 \in 0 .. Len(r) /\ m - 1 + 1 = m
    BY <1>1, <2>2
  <2>4. IsSetAt(r, m - 1) /\ SetAt(r, H, m - 1) = T
    BY <1>2, <2>1, <2>3
  <2>5. ASSUME NEW k \in m .. Len(r) PROVE r[k].kind # "peers"
    <3>1. k \in 1 .. Len(r) /\ k + 1 \in m + 1 .. Len(q)
      BY <1>1, <2>2
    <3>2. QED
      BY <1>1, <2>1, <3>1
  <2>6. QED
    BY <2>3, <2>4, <2>5 DEF Ends
<1>4. ASSUME Ahead(q, S, p, e), NEW i \in 0 .. Len(r), IsSetAt(r, i), p \notin SetAt(r, H, i)
      PROVE  \E k \in i + 1 .. Len(r) : \E j \in k + 1 .. Len(r) :
                 r[k].kind = "peers" /\ p \in r[k].peers /\ r[j] = e
  <2>1. i + 1 \in 0 .. Len(q) /\ IsSetAt(q, i + 1) /\ p \notin SetAt(q, S, i + 1)
    BY <1>2, <1>4
  <2>2. PICK k \in i + 1 + 1 .. Len(q) : \E j \in k + 1 .. Len(q) :
                q[k].kind = "peers" /\ p \in q[k].peers /\ q[j] = e
    BY <1>4, <2>1 DEF Ahead
  <2>3. PICK j \in k + 1 .. Len(q) : q[k].kind = "peers" /\ p \in q[k].peers /\ q[j] = e
    BY <2>2
  <2>4. /\ k - 1 \in i + 1 .. Len(r) /\ j - 1 \in k - 1 + 1 .. Len(r)
        /\ k - 1 \in 1 .. Len(r) /\ j - 1 \in 1 .. Len(r) /\ k - 1 + 1 = k /\ j - 1 + 1 = j
    BY <1>1
  <2>5. r[k - 1] = q[k] /\ r[j - 1] = q[j]
    BY <1>1, <2>4
  <2>6. QED
    BY <2>3, <2>4, <2>5
<1>5. Ahead(q, S, p, e) => Ahead(r, H, p, e)
  BY <1>4 DEF Ahead
<1>6. ASSUME Ahead(q, S, p, e), p \notin H PROVE Has(r, e)
  <2>1. 0 \in 0 .. Len(r) /\ IsSetAt(r, 0) /\ p \notin SetAt(r, H, 0)
    BY <1>1, <1>6 DEF IsSetAt, SetAt
  <2>2. PICK k \in 0 + 1 .. Len(r) : \E j \in k + 1 .. Len(r) :
                r[k].kind = "peers" /\ p \in r[k].peers /\ r[j] = e
    BY <1>4, <1>6, <2>1
  <2>3. PICK j \in k + 1 .. Len(r) : r[j] = e
    BY <2>2
  <2>4. j \in 1 .. Len(r)
    BY <1>1
  <2>5. QED
    BY <2>3, <2>4 DEF Has
<1>7. QED
  BY <1>3, <1>5, <1>6 DEF r, H

LEMMA CheckTaken ==
  ASSUME NEW q \in Seq(IoTask), q # <<>>, NEW S, NEW T, NEW p, NEW e, Head(q).kind = "check"
  PROVE  /\ Ends(q, S, T) => Ends(Tail(q), S, T)
         /\ Ahead(q, S, p, e) => Ahead(Tail(q), S, p, e)
         /\ Ahead(q, S, p, e) /\ p \notin S => Has(Tail(q), e)
<1> DEFINE r == Tail(q)
<1>1. /\ Len(r) = Len(q) - 1 /\ Len(q) \in Nat /\ Len(q) > 0 /\ q[1].kind = "check"
      /\ \A i \in 1 .. Len(r) : r[i] = q[i + 1]
  BY HeadTailProperties, LenProperties, EmptySeq
<1> HIDE DEF r
<1>2. ASSUME NEW m \in 0 .. Len(q), IsSetAt(q, m)
      PROVE  m = 0 \/ (m - 1 \in 1 .. Len(r) /\ r[m - 1] = q[m] /\ m - 1 + 1 = m)
  <2>1. m # 1
    BY <1>1, <1>2 DEF IsSetAt
  <2>2. m # 0 => m - 1 \in 1 .. Len(r) /\ m - 1 + 1 = m
    BY <1>1, <2>1
  <2>3. QED
    BY <1>1, <2>2
<1>3. ASSUME Ends(q, S, T) PROVE Ends(r, S, T)
  <2>1. PICK m \in 0 .. Len(q) : /\ IsSetAt(q, m) /\ SetAt(q, S, m) = T
                                 /\ \A k \in m + 1 .. Len(q) : q[k].kind # "peers"
    BY <1>3 DEF Ends
  <2>2. ASSUME NEW k \in m .. Len(r), k # 0 PROVE r[k].kind # "peers"
    <3>1. k \in 1 .. Len(r) /\ k + 1 \in m + 1 .. Len(q)
      BY <1>1, <2>2
    <3>2. QED
      BY <1>1, <2>1, <3>1
  <2>3. CASE m = 0
    <3>1. \A k \in 0 + 1 .. Len(r) : r[k].kind # "peers"
      BY <1>1, <2>2, <2>3
    <3>2. 0 \in 0 .. Len(r) /\ IsSetAt(r, 0) /\ SetAt(r, S, 0) = T
      BY <1>1, <2>1, <2>3 DEF IsSetAt, SetAt
    <3>3. QED
      BY <3>1, <3>2 DEF Ends
  <2>4. CASE m # 0
    <3>1. m - 1 \in 0 .. Len(r) /\ m - 1 # 0 /\ r[m - 1] = q[m] /\ m - 1 + 1 = m
      BY <1>1, <1>2, <2>1, <2>4
    <3>2. IsSetAt(r, m - 1) /\ SetAt(r, S, m - 1) = T
      BY <2>1, <2>4, <3>1 DEF IsSetAt, SetAt
    <3>3. \A k \in m - 1 + 1 .. Len(r) : r[k].kind # "peers"
      BY <1>1, <2>2, <2>4, <3>1
    <3>4. QED
      BY <3>1, <3>2, <3>3 DEF Ends
  <2>5. QED
    BY <2>3, <2>4
<1>4. ASSUME Ahead(q, S, p, e), NEW m \in 0 .. Len(q), IsSetAt(q, m), p \notin SetAt(q, S, m)
      PROVE  \E k \in 1 .. Len(r) : \E j \in k + 1 .. Len(r) :
                 k >= m /\ r[k].kind = "peers" /\ p \in r[k].peers /\ r[j] = e
  <2>1. PICK k \in m + 1 .. Len(q) : \E j \in k + 1 .. Len(q) :
                q[k].kind = "peers" /\ p \in q[k].peers /\ q[j] = e
    BY <1>4 DEF Ahead
  <2>2. PICK j \in k + 1 .. Len(q) : q[k].kind = "peers" /\ p \in q[k].peers /\ q[j] = e
    BY <2>1
  <2>3. k # 1
    BY <1>1, <2>2
  <2>4. /\ k - 1 \in 1 .. Len(r) /\ j - 1 \in k - 1 + 1 .. Len(r) /\ k - 1 >= m
        /\ j - 1 \in 1 .. Len(r) /\ k - 1 + 1 = k /\ j - 1 + 1 = j
    BY <1>1, <2>3
  <2>5. r[k - 1] = q[k] /\ r[j - 1] = q[j]
    BY <1>1, <2>4
  <2>6. QED
    BY <2>2, <2>4, <2>5
<1>5. ASSUME Ahead(q, S, p, e), NEW i \in 0 .. Len(r), IsSetAt(r, i), p \notin SetAt(r, S, i)
      PROVE  \E k \in i + 1 .. Len(r) : \E j \in k + 1 .. Len(r) :
                 r[k].kind = "peers" /\ p \in r[k].peers /\ r[j] = e
  <2> DEFINE m == IF i = 0 THEN 0 ELSE i + 1
  <2>1. m \in 0 .. Len(q) /\ (i = 0 => m = 0) /\ (i # 0 => m = i + 1 /\ m # 0 /\ r[i] = q[m])
    BY <1>1
  <2> HIDE DEF m
  <2>2. IsSetAt(q, m) /\ p \notin SetAt(q, S, m)
    BY <1>5, <2>1 DEF IsSetAt, SetAt
  <2>3. PICK k \in 1 .. Len(r) : \E j \in k + 1 .. Len(r) :
                k >= m /\ r[k].kind = "peers" /\ p \in r[k].peers /\ r[j] = e
    BY <1>4, <1>5, <2>1, <2>2
  <2>4. k \in i + 1 .. Len(r)
    BY <1>1, <2>1, <2>3
  <2>5. QED
    BY <2>3, <2>4
<1>6. Ahead(q, S, p, e) => Ahead(r, S, p, e)
  BY <1>5 DEF Ahead
<1>7. ASSUME Ahead(q, S, p, e), p \notin S PROVE Has(r, e)
  <2>1. 0 \in 0 .. Len(q) /\ IsSetAt(q, 0) /\ p \notin SetAt(q, S, 0)
    BY <1>1, <1>7 DEF IsSetAt, SetAt
  <2>2. PICK k \in 1 .. Len(r) : \E j \in k + 1 .. Len(r) : r[j] = e
    BY <1>4, <1>7, <2>1
  <2>3. PICK j \in k + 1 .. Len(r) : r[j] = e
    BY <2>2
  <2>4. j \in 1 .. Len(r)
    BY <1>1
  <2>5. QED
    BY <2>3, <2>4 DEF Has
<1>8. QED
  BY <1>3, <1>6, <1>7 DEF r

----------------------------------------------------------------------------
(* The IO loop will hold the peers of the known connections, and a check   *)
(* that is still open is on its way to it, waits in it, or is answered.    *)
Somewhere(c) ==
    /\ c \in checks
    /\ \/ Has(io, Check(c))
       \/ slot[PeerOf[c]].state = "Asked" /\ Has(slot[PeerOf[c]].waiting, c)
       \/ \E v \in 0 .. MaxDecisions : Has(mailbox, Answer(c, v))

Underway(c) ==
    policy[c] = "Loading" => Ahead(io, HasSlot, PeerOf[c], Check(c)) /\ Somewhere(c)

IoAgrees ==
    /\ ~spawned => io = <<>> /\ HasSlot = {}
    /\ observed = PeersOf(Known)
    /\ Ends(io, HasSlot, observed)
    /\ \A c \in Conn : Underway(c)
    /\ \A p \in Peer : Len(decisions[p]) <= MaxDecisions

(* What handle_results sends: the set of peers if it changed, then a check.*)
LEMMA ResultsKeepUp ==
  ASSUME TypeOK, NEW S \in SUBSET Conn, NEW c \in Conn, NEW new \in {<<>>, <<Check(c)>>},
         SendResults(S, new), NEW H, Ends(io, H, observed)
  PROVE  /\ observed' = PeersOf(S) /\ Ends(io', H, observed')
         /\ \A d \in S : Ahead(io, H, PeerOf[d], Check(d)) => Ahead(io', H, PeerOf[d], Check(d))
         /\ \A e : Has(io, e) => Has(io', e)
         /\ new = <<Check(c)>> => Has(io', Check(c))
         /\ new = <<Check(c)>> /\ c \in S => Ahead(io', H, PeerOf[c], Check(c))
<1> DEFINE T == PeersOf(S)
           mid == IF T = observed THEN io ELSE Append(io, Peers(T))
<1>1. io \in Seq(IoTask) /\ T \in SUBSET Peer
  BY DEF TypeOK, PeersOf
<1>2. Peers(T) \in IoTask /\ Check(c) \in IoTask
  BY <1>1 DEF Peers, Check, IoTask
<1>3. observed' = T /\ io' = io \o ((IF T = observed THEN <<>> ELSE <<Peers(T)>>) \o new)
  BY DEF SendResults, Results
<1>4. \A d \in S : PeerOf[d] \in T
  BY DEF PeersOf
<1> HIDE DEF T
<1>5. io' = IF new = <<>> THEN mid ELSE Append(mid, Check(c))
  <2>1. <<>> \in Seq(IoTask) /\ <<Peers(T)>> \in Seq(IoTask) /\ <<Check(c)>> \in Seq(IoTask)
    BY <1>2
  <2>2. io \o <<Peers(T)>> = Append(io, Peers(T)) /\ Append(io, Peers(T)) \in Seq(IoTask)
    BY <1>1, <1>2, AppendIsConcat, AppendProperties
  <2>3. mid \in Seq(IoTask)
    BY <1>1, <2>2
  <2>4. io' = (io \o (IF T = observed THEN <<>> ELSE <<Peers(T)>>)) \o new
    BY <1>1, <1>3, <2>1, ConcatAssociative
  <2>5. io \o <<>> = io
    BY <1>1, ConcatEmptySeq
  <2>6. io' = mid \o new
    BY <2>2, <2>4, <2>5
  <2> HIDE DEF mid
  <2>7. mid \o <<>> = mid /\ mid \o <<Check(c)>> = Append(mid, Check(c))
    BY <1>2, <2>3, ConcatEmptySeq, AppendIsConcat
  <2>8. QED
    BY <2>6, <2>7
<1>6. /\ mid \in Seq(IoTask) /\ Ends(mid, H, T)
      /\ \A e : Has(io, e) => Has(mid, e)
      /\ \A d \in S : Ahead(io, H, PeerOf[d], Check(d)) => Ahead(mid, H, PeerOf[d], Check(d))
  <2>1. CASE T = observed
    BY <1>1, <2>1
  <2>2. CASE T # observed
    <3>1. mid = Append(io, Peers(T)) /\ mid \in Seq(IoTask)
      BY <1>1, <1>2, <2>2, AppendProperties
    <3>2. Ends(mid, H, T)
      BY <1>1, <3>1, SetAdded
    <3>3. \A e : Has(io, e) => Has(mid, e)
      BY <1>1, <1>2, <3>1, AtTheEnd
    <3>4. \A d \in S : Ahead(io, H, PeerOf[d], Check(d)) => Ahead(mid, H, PeerOf[d], Check(d))
      BY <1>1, <1>4, <3>1, SetAdded
    <3>5. QED
      BY <3>1, <3>2, <3>3, <3>4
  <2>3. QED
    BY <2>1, <2>2
<1> HIDE DEF mid
<1>7. CASE new = <<>>
  <2>1. io' = mid /\ new # <<Check(c)>>
    BY <1>5, <1>7
  <2>2. QED
    BY <1>3, <1>6, <2>1 DEF T
<1>8. CASE new = <<Check(c)>>
  <2>1. io' = Append(mid, Check(c))
    BY <1>5, <1>8
  <2>2. Ends(io', H, T)
    BY <1>6, <2>1, CheckAdded
  <2>3. \A e : Has(io', e) <=> Has(mid, e) \/ Check(c) = e
    BY <1>2, <1>6, <2>1, AtTheEnd, ZenonT(60)
  <2>4. Has(io', Check(c))
    BY <2>3
  <2>5. \A d \in S : Ahead(mid, H, PeerOf[d], Check(d)) => Ahead(io', H, PeerOf[d], Check(d))
    BY <1>6, <2>1, CheckAdded
  <2>6. c \in S => Ahead(io', H, PeerOf[c], Check(c))
    BY <1>4, <1>6, <2>1, CheckAdded
  <2>7. QED
    BY <1>3, <1>6, <2>2, <2>3, <2>4, <2>5, <2>6 DEF T
<1>9. QED
  BY <1>7, <1>8

(* An actor starts with the peers of its connections and a check of each.  *)
LEMMA SpawnAgrees ==
  ASSUME TypeOK, Routed, IoAgrees, NEW pend, Spawn(pend)
  PROVE  IoAgrees'
<1> DEFINE T == PeersOf(Open)
<1>1. /\ ~spawned /\ spawned' /\ UNCHANGED <<slot, decisions>>
      /\ policy' = [x \in Conn |-> IF x \in Open THEN "Loading" ELSE "Absent"]
      /\ checks' = Open /\ observed' = T
  BY DEF Spawn, ioVars
<1>2. Open \in SUBSET Conn /\ T \in SUBSET Peer
  BY DEF Open, PeersOf
<1>3. HasSlot = {} /\ HasSlot' = HasSlot
  BY <1>1 DEF IoAgrees, HasSlot
<1>4. Known' = Open
  BY <1>1, <1>2 DEF Known
<1>5. observed' = PeersOf(Known)'
  BY <1>1, <1>4 DEF PeersOf
<1>6. PICK order \in SetToSeqs(Open) :
             io' = (IF Open = {} THEN <<>> ELSE <<Peers(T)>>)
                   \o [i \in DOMAIN order |-> Check(order[i])]
  BY DEF Spawn
<1> DEFINE new == [i \in DOMAIN order |-> Check(order[i])]
<1>7. /\ new \in Seq(IoTask) /\ Len(new) = Len(order) /\ Len(order) \in Nat
      /\ \A i \in 1 .. Len(order) : new[i] = Check(order[i])
  <2>1. order \in Seq(Open)
    BY <1>2, Enumerates, Zenon
  <2>2. QED
    BY <1>2, <2>1, CheckTasks, LenProperties
<1>8. \A x \in Open : \E i \in 1 .. Len(order) : order[i] = x
  <2>1. /\ order \in Seq(Open) /\ DOMAIN order = 1 .. Len(order)
        /\ \A x \in Open : \E i \in 1 .. Len(order) : order[i] = x
        /\ \A i, j \in 1 .. Len(order) : order[i] = order[j] => i = j
    BY <1>2, Enumerates, Zenon
  <2>2. QED
    BY <2>1
<1>9. CASE Open = {}
  <2>1. io' = <<>>
    <3>1. Len(order) = 0
      <4>1. order \in Seq(Open)
        BY <1>2, Enumerates, Zenon
      <4>2. QED
        BY <1>9, <4>1
    <3>2. new = <<>>
      BY <1>7, <3>1
    <3>3. QED
      BY <1>6, <1>9, <3>2
  <2>2. Ends(<<>>, {}, {})
    BY DEF Ends, IsSetAt, SetAt
  <2>3. T = {}
    BY <1>9 DEF PeersOf
  <2>4. \A c \in Conn : policy'[c] # "Loading"
    BY <1>1, <1>9
  <2>5. QED
    BY <1>1, <1>3, <1>5, <2>1, <2>2, <2>3, <2>4 DEF IoAgrees, Underway
<1>10. CASE Open # {}
  <2>1. io' = <<Peers(T)>> \o new
    BY <1>6, <1>10
  <2>2. <<Peers(T)>> \in Seq(IoTask) /\ Len(<<Peers(T)>>) = 1 /\ <<Peers(T)>>[1] = Peers(T)
    BY <1>2 DEF Peers, IoTask
  <2> HIDE DEF new, T
  <2>3. /\ Len(io') = 1 + Len(order) /\ io'[1] = Peers(T)
        /\ \A i \in 1 .. Len(order) : io'[i + 1] = Check(order[i])
    <3>1. /\ Len(io') = 1 + Len(order)
          /\ \A i \in 1 .. 1 + Len(order) : io'[i] = IF i <= 1 THEN <<Peers(T)>>[i] ELSE new[i - 1]
      BY <1>7, <2>1, <2>2, ConcatProperties
    <3>2. 1 \in 1 .. 1 + Len(order)
      BY <1>7
    <3>3. ASSUME NEW i \in 1 .. Len(order) PROVE io'[i + 1] = Check(order[i])
      <4>1. i + 1 \in 1 .. 1 + Len(order) /\ ~(i + 1 <= 1) /\ i + 1 - 1 = i
        BY <1>7
      <4>2. QED
        BY <1>7, <3>1, <4>1
    <3>4. QED
      BY <2>2, <3>1, <3>2, <3>3
  <2>4. \A k \in 2 .. Len(io') : io'[k].kind = "check"
    <3> SUFFICES ASSUME NEW k \in 2 .. Len(io') PROVE io'[k].kind = "check"
      OBVIOUS
    <3>1. k - 1 \in 1 .. Len(order) /\ k - 1 + 1 = k
      BY <1>7, <2>3
    <3>2. QED
      BY <2>3, <3>1, IoTaskKinds
  <2>5. Peers(T).kind = "peers" /\ Peers(T).peers = T
    BY IoTaskKinds
  <2>6. Ends(io', {}, T)
    <3>1. 1 \in 0 .. Len(io') /\ IsSetAt(io', 1) /\ SetAt(io', {}, 1) = T
      BY <1>7, <2>3, <2>5 DEF IsSetAt, SetAt
    <3>2. \A k \in 1 + 1 .. Len(io') : io'[k].kind # "peers"
      BY <2>4
    <3>3. QED
      BY <3>1, <3>2 DEF Ends
  <2>7. ASSUME NEW c \in Open PROVE Ahead(io', {}, PeerOf[c], Check(c)) /\ Has(io', Check(c))
    <3>1. PICK m \in 1 .. Len(order) : order[m] = c
      BY <1>8
    <3>2. m + 1 \in 1 + 1 .. Len(io') /\ m + 1 \in 1 .. Len(io') /\ io'[m + 1] = Check(c)
      BY <1>7, <2>3, <3>1
    <3>3. PeerOf[c] \in T
      BY DEF T, PeersOf
    <3>4. ASSUME NEW i \in 0 .. Len(io'), IsSetAt(io', i), PeerOf[c] \notin SetAt(io', {}, i)
          PROVE  i = 0
      <4>1. i # 1
        BY <2>3, <2>5, <3>3, <3>4 DEF SetAt
      <4>2. i \in 2 .. Len(io') => FALSE
        BY <2>4, <3>4 DEF IsSetAt
      <4>3. QED
        BY <1>7, <2>3, <4>1, <4>2
    <3>5. 1 \in 0 + 1 .. Len(io')
      BY <1>7, <2>3
    <3>6. Ahead(io', {}, PeerOf[c], Check(c))
      BY <2>3, <2>5, <3>2, <3>3, <3>4, <3>5 DEF Ahead
    <3>7. QED
      BY <3>2, <3>6 DEF Has
  <2>8. ASSUME NEW c \in Conn PROVE Underway(c)'
    <3>1. Check(c)' = Check(c) /\ (policy'[c] = "Loading" => c \in Open)
      BY <1>1 DEF Check
    <3>2. QED
      BY <1>1, <1>3, <2>7, <3>1 DEF Underway, Somewhere
  <2>9. QED
    BY <1>1, <1>3, <1>5, <2>6, <2>8 DEF IoAgrees
<1>11. QED
  BY <1>9, <1>10

(* Hub steps that leave actor and IO loop alone only add to the mailbox.   *)
LEMMA HubAgrees ==
  ASSUME TypeOK, Routed, IoAgrees,
         \/ \E c \in Conn : Establish(c) \/ Lose(c) \/ Receive(c)
         \/ Disconnect \/ OpenDocument
  PROVE  IoAgrees'
<1>0. mailbox \in Seq(Task)
  BY DEF TypeOK
<1>1. ASSUME UNCHANGED <<spawned, actorVars, io, ioVars>>, \A e : Has(mailbox, e) => Has(mailbox', e)
      PROVE  IoAgrees'
  <2>1. ASSUME NEW c \in Conn PROVE Underway(c)'
    <3>1. Underway(c)
      BY DEF IoAgrees
    <3>2. Check(c)' = Check(c) /\ HasSlot' = HasSlot /\ \A v : Answer(c, v)' = Answer(c, v)
      BY <1>1 DEF Check, Answer, HasSlot, ioVars
    <3>3. UNCHANGED <<policy, checks, io, slot>>
      BY <1>1 DEF actorVars, connVars, ioVars
    <3>4. Somewhere(c) => Somewhere(c)'
      BY <1>1, <3>2, <3>3 DEF Somewhere
    <3>5. QED
      BY <3>1, <3>2, <3>3, <3>4 DEF Underway
  <2>2. HasSlot' = HasSlot /\ PeersOf(Known)' = PeersOf(Known)
    BY <1>1 DEF HasSlot, PeersOf, Known, ioVars, actorVars, connVars
  <2>3. QED
    BY <1>1, <2>1, <2>2 DEF IoAgrees, actorVars, ioVars
<1>2. ASSUME NEW d \in Conn, Establish(d) PROVE IoAgrees'
  <2>1. \A e : Has(mailbox, e) => Has(mailbox', e)
    <3>1. CASE spawned
      <4> DEFINE missing == (Open \cup {d}) \ subscribed
      <4>1. PICK order \in SetToSeqs(missing) :
                   mailbox' = mailbox \o [i \in DOMAIN order |-> New(order[i])]
        BY <1>2, <3>1 DEF Establish, EnsureConnections
      <4>2. missing \in SUBSET Conn
        BY DEF Open
      <4>3. [i \in DOMAIN order |-> New(order[i])] \in Seq(Task)
        BY <4>2, NewTasks
      <4>4. QED
        BY <1>0, <4>1, <4>3, Joined
    <3>2. CASE ~spawned
      BY <1>2, <3>2 DEF Establish
    <3>3. QED
      BY <3>1, <3>2
  <2>2. QED
    BY <1>1, <1>2, <2>1 DEF Establish
<1>3. ASSUME NEW d \in Conn, RemoveFromHub(d), UNCHANGED <<actorVars, io, ioVars>> PROVE IoAgrees'
  <2>1. Closed(d) \in Task
    BY DEF Closed, Task
  <2>2. \A e : Has(mailbox, e) => Has(mailbox', e)
    BY <1>0, <1>3, <2>1, AtTheEnd DEF RemoveFromHub
  <2>3. QED
    BY <1>1, <1>3, <2>2 DEF RemoveFromHub
<1>4. ASSUME NEW d \in Conn, Lose(d) PROVE IoAgrees'
  BY <1>3, <1>4 DEF Lose
<1>5. CASE Disconnect
  <2>1. Head(toHub) \in Conn
    BY <1>5, HeadTailProperties DEF Disconnect, TypeOK
  <2>2. CASE Head(toHub) \in Open
    BY <1>3, <1>5, <2>1, <2>2 DEF Disconnect
  <2>3. CASE Head(toHub) \notin Open
    BY <1>1, <1>5, <2>3 DEF Disconnect, hubVars
  <2>4. QED
    BY <2>2, <2>3
<1>6. ASSUME NEW d \in Conn, Receive(d) PROVE IoAgrees'
  <2>1. sent' \in [Conn -> Nat] /\ sent'[d] \in Nat
    BY <1>6 DEF Receive, TypeOK
  <2>2. CASE mailbox' = Append(mailbox, Sync(d, sent'[d])) /\ UNCHANGED <<hubVars, toHub, actorVars, io, ioVars>>
    <3>1. Sync(d, sent'[d]) \in Task
      BY <2>1 DEF Sync, Task
    <3>2. \A e : Has(mailbox, e) => Has(mailbox', e)
      BY <1>0, <2>2, <3>1, AtTheEnd
    <3>3. QED
      BY <1>1, <2>2, <3>2 DEF hubVars
  <2>3. CASE Spawn([pending EXCEPT ![d] = <<sent'[d]>>])
    BY <2>3, SpawnAgrees
  <2>4. QED
    BY <1>6, <2>2, <2>3 DEF Receive
<1>7. CASE OpenDocument
  BY <1>7, SpawnAgrees DEF OpenDocument
<1>8. QED
  BY <1>2, <1>4, <1>5, <1>6, <1>7

LEMMA ActorAgrees ==
  ASSUME TypeOK, Routed, IoAgrees, ActorStep \/ LoadDone
  PROVE  IoAgrees'
<1>0. mailbox \in Seq(Task)
  BY DEF TypeOK
<1>1. UNCHANGED <<slot, decisions, spawned>>
  BY DEF ActorStep, NewConnection, ConnectionClosed, SyncMessage, CheckAnswered, PolicyUpdated,
         LoadDone, hubVars, ioVars
<1>2. HasSlot' = HasSlot /\ \A c, v : Check(c)' = Check(c) /\ Answer(c, v)' = Answer(c, v)
  BY <1>1 DEF HasSlot, Check, Answer
<1>3. ASSUME NEW kind, Handles(kind)
      PROVE  /\ Head(mailbox) \in Task /\ Head(mailbox).kind = kind
             /\ \A e : Has(mailbox, e) <=> Head(mailbox) = e \/ Has(mailbox', e)
             /\ \A e : e.kind # kind /\ Has(mailbox, e) => Has(mailbox', e)
  <2>1. mailbox # <<>> /\ mailbox' = Tail(mailbox) /\ Head(mailbox).kind = kind
    BY <1>3 DEF Handles
  <2>2. Head(mailbox) \in Task /\ \A e : Has(mailbox, e) <=> Head(mailbox) = e \/ Has(mailbox', e)
    BY <1>0, <2>1, HeadTailProperties, AtTheFront
  <2>3. QED
    BY <2>1, <2>2
<1>4. \A c, v : Answer(c, v).kind = "answer"
  BY DEF Answer
<1>5. ASSUME NEW S \in SUBSET Conn, NEW d \in Conn, NEW new \in {<<>>, <<Check(d)>>},
             SendResults(S, new), Known' = S, spawned,
             \A c, v : Has(mailbox, Answer(c, v)) => Has(mailbox', Answer(c, v)),
             \A c \in Conn : policy'[c] = "Loading" =>
                 \/ c \in S /\ c \in checks' /\ policy[c] = "Loading"
                 \/ c = d /\ c \in S /\ c \in checks' /\ new = <<Check(d)>>
      PROVE  IoAgrees'
  <2>1. /\ observed' = PeersOf(S) /\ Ends(io', HasSlot, observed')
        /\ \A c \in S : Ahead(io, HasSlot, PeerOf[c], Check(c)) => Ahead(io', HasSlot, PeerOf[c], Check(c))
        /\ \A e : Has(io, e) => Has(io', e)
        /\ new = <<Check(d)>> => Has(io', Check(d))
        /\ new = <<Check(d)>> /\ d \in S => Ahead(io', HasSlot, PeerOf[d], Check(d))
    <3>1. Ends(io, HasSlot, observed)
      BY DEF IoAgrees
    <3>2. QED
      BY <1>5, <3>1, ResultsKeepUp
  <2>2. ASSUME NEW c \in Conn, policy'[c] = "Loading"
        PROVE  Ahead(io', HasSlot, PeerOf[c], Check(c)) /\ Somewhere(c)'
    <3>1. CASE c \in S /\ c \in checks' /\ policy[c] = "Loading"
      <4>1. Ahead(io, HasSlot, PeerOf[c], Check(c)) /\ Somewhere(c)
        BY <3>1 DEF IoAgrees, Underway
      <4>2. QED
        BY <1>1, <1>2, <1>5, <2>1, <3>1, <4>1 DEF Somewhere
    <3>2. CASE c = d /\ c \in S /\ c \in checks' /\ new = <<Check(d)>>
      BY <1>2, <2>1, <3>2 DEF Somewhere
    <3>3. QED
      BY <1>5, <2>2, <3>1, <3>2
  <2>3. PeersOf(Known)' = PeersOf(S)
    BY <1>5 DEF PeersOf
  <2>4. QED
    BY <1>1, <1>2, <1>5, <2>1, <2>2, <2>3 DEF IoAgrees, Underway
<1>6. ASSUME UNCHANGED <<io, observed>>, Known' = Known,
             \A c \in Conn : policy'[c] = "Loading" =>
                 /\ c \in checks' /\ policy[c] = "Loading"
                 /\ \A v : Has(mailbox, Answer(c, v)) => Has(mailbox', Answer(c, v))
      PROVE  IoAgrees'
  <2>1. ASSUME NEW c \in Conn, policy'[c] = "Loading"
        PROVE  Ahead(io', HasSlot, PeerOf[c], Check(c)) /\ Somewhere(c)'
    <3>1. Ahead(io, HasSlot, PeerOf[c], Check(c)) /\ Somewhere(c)
      BY <1>6, <2>1 DEF IoAgrees, Underway
    <3>2. QED
      BY <1>1, <1>2, <1>6, <2>1, <3>1 DEF Somewhere
  <2>2. PeersOf(Known)' = PeersOf(Known)
    BY <1>6 DEF PeersOf
  <2>3. QED
    BY <1>1, <1>2, <1>6, <2>1, <2>2 DEF IoAgrees, Underway
<1>7. ASSUME NEW c \in Conn, policy[c] = "Loading" PROVE c \in checks
  BY <1>7 DEF IoAgrees, Underway, Somewhere
<1>8. ASSUME NEW d \in Conn, RemoveConnection(d), spawned,
             \A c, v : Has(mailbox, Answer(c, v)) => Has(mailbox', Answer(c, v))
      PROVE  IoAgrees'
  <2>1. /\ policy' = [policy EXCEPT ![d] = "Absent"] /\ checks' = checks \ {d}
        /\ SendResults(Known \ {d}, <<>>)
    BY <1>8 DEF RemoveConnection
  <2>2. Known' = Known \ {d} /\ Known \ {d} \in SUBSET Conn
    BY <2>1 DEF Known, TypeOK
  <2>3. ASSUME NEW c \in Conn, policy'[c] = "Loading"
        PROVE  c \in Known \ {d} /\ c \in checks' /\ policy[c] = "Loading"
    <3>1. c # d /\ policy[c] = "Loading"
      BY <2>1, <2>3 DEF TypeOK
    <3>2. QED
      BY <1>7, <2>1, <3>1 DEF Known
  <2>4. QED
    BY <1>5, <1>8, <2>1, <2>2, <2>3
<1>9. CASE NewConnection
  <2> DEFINE d == Head(mailbox).conn
  <2>1. Handles("new") /\ Head(mailbox) = New(d) /\ d \in Conn
    BY <1>3, <1>9, TaskFields DEF NewConnection
  <2>2. /\ policy' = [policy EXCEPT ![d] = "Loading"] /\ checks' = checks \cup {d}
        /\ SendResults(Known \cup {d}, <<Check(d)>>)
    BY <1>9 DEF NewConnection
  <2> HIDE DEF d
  <2>3. Known' = Known \cup {d} /\ Known \cup {d} \in SUBSET Conn
    BY <2>1, <2>2 DEF Known, TypeOK
  <2>4. \A c, v : Has(mailbox, Answer(c, v)) => Has(mailbox', Answer(c, v))
    BY <1>3, <1>4, <2>1
  <2>5. spawned
    <3>1. Has(mailbox, New(d))
      BY <1>3, <2>1
    <3>2. QED
      BY <2>1, <3>1 DEF Routed, Route
  <2>6. ASSUME NEW c \in Conn, policy'[c] = "Loading"
        PROVE  \/ c \in Known \cup {d} /\ c \in checks' /\ policy[c] = "Loading"
               \/ c = d /\ c \in Known \cup {d} /\ c \in checks'
    <3>1. CASE c = d
      BY <2>2, <3>1
    <3>2. CASE c # d
      <4>1. policy[c] = "Loading"
        BY <2>2, <2>6, <3>2 DEF TypeOK
      <4>2. QED
        BY <1>7, <2>2, <4>1 DEF Known
    <3>3. QED
      BY <3>1, <3>2
  <2>7. QED
    BY <1>5, <2>1, <2>2, <2>3, <2>4, <2>5, <2>6
<1>10. CASE ConnectionClosed
  <2> DEFINE d == Head(mailbox).conn
  <2>1. Handles("closed") /\ Head(mailbox) = Closed(d) /\ d \in Conn /\ RemoveConnection(d)
    BY <1>3, <1>10, TaskFields DEF ConnectionClosed
  <2> HIDE DEF d
  <2>2. \A c, v : Has(mailbox, Answer(c, v)) => Has(mailbox', Answer(c, v))
    BY <1>3, <1>4, <2>1
  <2>3. spawned
    <3>1. Has(mailbox, Closed(d))
      BY <1>3, <2>1
    <3>2. QED
      BY <2>1, <3>1 DEF Routed, Route
  <2>4. QED
    BY <1>8, <2>1, <2>2, <2>3
<1>11. CASE SyncMessage
  <2> DEFINE d == Head(mailbox).conn
  <2>1. Handles("sync") /\ d \in Conn
    BY <1>3, <1>11, TaskFields DEF SyncMessage
  <2>2. \A c, v : Has(mailbox, Answer(c, v)) => Has(mailbox', Answer(c, v))
    BY <1>3, <1>4, <2>1
  <2>3. CASE UNCHANGED <<policy, checks, io, observed>>
    <3>1. Known' = Known
      BY <2>3 DEF Known
    <3>2. QED
      BY <1>6, <1>7, <2>2, <2>3, <3>1
  <2>4. CASE policy[d] = "Loading" /\ RemoveConnection(d)
    <3>1. spawned
      BY <2>1, <2>4 DEF Routed, Route
    <3>2. QED
      BY <1>8, <2>1, <2>2, <2>4, <3>1
  <2>5. QED
    BY <1>11, <2>3, <2>4 DEF SyncMessage, connVars
<1>12. CASE CheckAnswered
  <2> DEFINE d == Head(mailbox).conn
             w == Head(mailbox).version
  <2>1. /\ Handles("answer") /\ UNCHANGED <<observed, io>> /\ checks' = checks \ {d}
        /\ IF d \in checks THEN policy' = [x \in Conn |-> IF x \in {d} THEN "Ready" ELSE policy[x]]
                           ELSE policy' = policy
    BY <1>12 DEF CheckAnswered, ApplySharePolicy
  <2>2. Head(mailbox) = Answer(d, w) /\ d \in Conn
    BY <1>3, <2>1, TaskFields
  <2> HIDE DEF d, w
  <2>3. \A c \in Conn : c \in checks => policy[c] = "Loading"
    BY DEF Routed, Route
  <2>4. Known' = Known
    BY <2>1, <2>2, <2>3 DEF Known
  <2>5. ASSUME NEW c \in Conn, policy'[c] = "Loading"
        PROVE  /\ c \in checks' /\ policy[c] = "Loading"
               /\ \A v : Has(mailbox, Answer(c, v)) => Has(mailbox', Answer(c, v))
    <3>1. policy[c] = "Loading" /\ c # d
      BY <1>7, <2>1, <2>2, <2>5
    <3>2. \A v : Answer(c, v) # Answer(d, w)
      <4>1. \A v : Answer(c, v).conn = c /\ Answer(d, w).conn = d
        BY DEF Answer
      <4>2. QED
        BY <3>1, <4>1
    <3>3. QED
      BY <1>3, <1>7, <2>1, <2>2, <3>1, <3>2
  <2>6. QED
    BY <1>6, <2>1, <2>4, <2>5
<1>13. CASE PolicyUpdated
  <2> DEFINE conns == Known \cap Of(Head(mailbox).peer)
  <2>1. /\ Handles("update") /\ UNCHANGED <<observed, io>> /\ checks' = checks \ conns
        /\ policy' = [x \in Conn |-> IF x \in conns THEN "Ready" ELSE policy[x]]
    BY <1>13 DEF PolicyUpdated, ApplySharePolicy
  <2>2. conns \subseteq Known
    OBVIOUS
  <2> HIDE DEF conns
  <2>3. Known' = Known
    BY <2>1, <2>2 DEF Known
  <2>4. \A c, v : Has(mailbox, Answer(c, v)) => Has(mailbox', Answer(c, v))
    BY <1>3, <1>4, <2>1
  <2>5. ASSUME NEW c \in Conn, policy'[c] = "Loading" PROVE c \in checks' /\ policy[c] = "Loading"
    BY <1>7, <2>1, <2>5
  <2>6. QED
    BY <1>6, <2>1, <2>3, <2>4, <2>5
<1>14. CASE LoadDone
  <2>1. UNCHANGED <<mailbox, policy, checks, observed, io>>
    BY <1>14 DEF LoadDone, connVars
  <2>2. Known' = Known
    BY <2>1 DEF Known
  <2>3. QED
    BY <1>6, <1>7, <2>1, <2>2
<1>15. QED
  BY <1>9, <1>10, <1>11, <1>12, <1>13, <1>14 DEF ActorStep

(* The IO loop takes a set of peers, or a check, or a stream yields.       *)
LEMMA SetPeersAgrees ==
  ASSUME TypeOK, IoAgrees, SetPeers
  PROVE  IoAgrees'
<1> DEFINE H == Head(io).peers
<1>1. /\ io \in Seq(IoTask) /\ io # <<>> /\ io' = Tail(io) /\ Head(io).kind = "peers"
      /\ UNCHANGED <<mailbox, policy, checks, observed, decisions, spawned>>
  BY DEF SetPeers, IoTakes, TypeOK, hubVars, actorVars, connVars
<1>2. Head(io) \in IoTask /\ H \in SUBSET Peer
  <2>1. Head(io) \in IoTask
    BY <1>1, HeadTailProperties
  <2>2. QED
    BY <1>1, <2>1, IoTaskFields
<1>3. slot' = [p \in Peer |->
                 IF p \in H /\ slot[p].state = "Absent" THEN [NoSlot EXCEPT !.state = "Active"]
                 ELSE IF Retains(p, H) THEN slot[p] ELSE NoSlot]
  BY DEF SetPeers
<1> HIDE DEF H
<1>4. /\ NoSlot.state = "Absent" /\ [NoSlot EXCEPT !.state = "Active"].state = "Active"
  BY DEF NoSlot
<1>5. ASSUME NEW p \in Peer PROVE slot'[p].state # "Absent" <=> p \in H
  BY <1>3, <1>4 DEF Retains
<1>6. HasSlot' = H
  <2>1. HasSlot' = {p \in Peer : slot'[p].state # "Absent"}
    BY DEF HasSlot
  <2>2. QED
    BY <1>2, <1>5, <2>1
<1>7. Ends(io', HasSlot', observed')
  <2>1. Check(CHOOSE c : TRUE).kind = "check"
    BY IoTaskKinds
  <2>2. QED
    BY <1>1, <1>6, <2>1, SetTaken DEF IoAgrees, H
<1>8. ASSUME NEW c \in Conn PROVE Underway(c)'
  <2>1. SUFFICES ASSUME policy[c] = "Loading"
                 PROVE  Ahead(io', H, PeerOf[c], Check(c)) /\ Somewhere(c)'
    BY <1>1, <1>6 DEF Underway, Check
  <2>2. Ahead(io, HasSlot, PeerOf[c], Check(c)) /\ Somewhere(c)
    BY <2>1 DEF IoAgrees, Underway
  <2>3. Check(c).kind = "check" /\ Check(c)' = Check(c) /\ \A v : Answer(c, v)' = Answer(c, v)
    BY DEF Check, Answer
  <2>4. Ahead(io', H, PeerOf[c], Check(c)) /\ (PeerOf[c] \notin H => Has(io', Check(c)))
    BY <1>1, <2>2, <2>3, SetTaken DEF H
  <2>5. Has(io, Check(c)) => Has(io', Check(c))
    <3>1. Head(io) # Check(c)
      BY <1>1, <2>3
    <3>2. QED
      BY <1>1, <3>1, AtTheFront
  <2>6. PeerOf[c] \in H /\ slot[PeerOf[c]].state = "Asked" => slot'[PeerOf[c]] = slot[PeerOf[c]]
    BY <1>3 DEF Retains
  <2>7. c \in checks'
    BY <1>1, <2>2 DEF Somewhere
  <2>8. CASE Has(io, Check(c)) \/ PeerOf[c] \notin H
    BY <2>3, <2>4, <2>5, <2>7, <2>8 DEF Somewhere
  <2>9. CASE slot[PeerOf[c]].state = "Asked" /\ Has(slot[PeerOf[c]].waiting, c) /\ PeerOf[c] \in H
    BY <2>3, <2>4, <2>6, <2>7, <2>9 DEF Somewhere
  <2>10. CASE \E v \in 0 .. MaxDecisions : Has(mailbox, Answer(c, v))
    BY <1>1, <2>3, <2>4, <2>7, <2>10 DEF Somewhere
  <2>11. QED
    BY <2>2, <2>8, <2>9, <2>10 DEF Somewhere
<1>9. PeersOf(Known)' = PeersOf(Known)
  BY <1>1 DEF PeersOf, Known
<1>10. spawned
  BY <1>1 DEF IoAgrees
<1>11. QED
  BY <1>1, <1>7, <1>8, <1>9, <1>10 DEF IoAgrees

LEMMA CheckPolicyAgrees ==
  ASSUME TypeOK, IoAgrees, CheckPolicy
  PROVE  IoAgrees'
<1> DEFINE d == Head(io).conn
           q == PeerOf[d]
           v == slot[q].latest
<1>1. /\ io \in Seq(IoTask) /\ io # <<>> /\ io' = Tail(io) /\ Head(io).kind = "check"
      /\ UNCHANGED <<policy, checks, observed, decisions, spawned>>
      /\ mailbox \in Seq(Task) /\ slot \in [Peer -> Slot]
  BY DEF CheckPolicy, IoTakes, TypeOK, hubVars, actorVars, connVars
<1>2. d \in Conn /\ Head(io) = Check(d) /\ q \in Peer
  <2>1. Head(io) \in IoTask
    BY <1>1, HeadTailProperties
  <2>2. QED
    BY <1>1, <2>1, IoTaskFields
<1>3. slot[q].waiting \in Seq(Conn) /\ v \in 0 .. MaxDecisions
  <2>1. v \in Nat /\ slot[q].waiting \in Seq(Conn)
    BY <1>2, SlotFields
  <2>2. v <= Len(decisions[q]) /\ Len(decisions[q]) <= MaxDecisions /\ Len(decisions[q]) \in Nat
    BY <1>2, LenProperties DEF TypeOK, IoAgrees
  <2>3. QED
    BY <2>1, <2>2
<1>4. \/ slot[q].state = "Absent" /\ UNCHANGED <<slot, mailbox>>
      \/ /\ slot[q].state = "Active" /\ UNCHANGED mailbox
         /\ slot' = [slot EXCEPT ![q] = [state |-> "Asked", latest |-> 0, waiting |-> <<d>>,
                                         next |-> Len(decisions[q]), ended |-> FALSE]]
      \/ /\ slot[q].state = "Asked" /\ UNCHANGED mailbox
         /\ slot' = [slot EXCEPT ![q].waiting = Append(@, d)]
      \/ slot[q].state = "Decided" /\ mailbox' = Append(mailbox, Answer(d, v)) /\ UNCHANGED slot
  BY DEF CheckPolicy
<1> HIDE DEF d, q, v
<1>5. Answer(d, v) \in Task
  BY <1>2, <1>3 DEF Answer, Task
<1>6. \A e : Has(mailbox, e) => Has(mailbox', e)
  <2>1. CASE mailbox' = Append(mailbox, Answer(d, v))
    <3> DEFINE a == Answer(d, v)
    <3>1. a \in Task /\ mailbox' = Append(mailbox, a)
      BY <1>5, <2>1
    <3> HIDE DEF a
    <3>2. QED
      BY <1>1, <3>1, AtTheEnd
  <2>2. QED
    BY <1>4, <2>1
<1>7. ASSUME NEW p \in Peer
      PROVE  /\ slot'[p].state # "Absent" <=> slot[p].state # "Absent"
             /\ p # q => slot'[p] = slot[p]
  <2>1. CASE p # q
    BY <1>1, <1>4, <2>1
  <2>2. CASE p = q
    <3>1. slot[q] \in Slot
      BY <1>1, <1>2
    <3>2. CASE slot[q].state = "Active" \/ UNCHANGED slot
      BY <1>1, <1>2, <1>4, <2>2, <3>2
    <3>3. CASE slot' = [slot EXCEPT ![q].waiting = Append(@, d)]
      <4>1. slot'[q] = [slot[q] EXCEPT !.waiting = Append(@, d)]
        BY <1>1, <1>2, <3>3
      <4>2. slot'[q].state = slot[q].state
        BY <3>1, <4>1 DEF Slot
      <4>3. QED
        BY <2>2, <4>2
    <3>4. QED
      BY <1>4, <3>2, <3>3
  <2>3. QED
    BY <2>1, <2>2
<1>8. HasSlot' = HasSlot
  BY <1>7 DEF HasSlot
<1>9. /\ slot[q].state = "Asked" =>
           /\ slot'[q].state = "Asked"
           /\ \A c : Has(slot[q].waiting, c) \/ c = d => Has(slot'[q].waiting, c)
      /\ slot[q].state = "Active" => slot'[q].state = "Asked" /\ Has(slot'[q].waiting, d)
      /\ slot[q].state = "Decided" => Has(mailbox', Answer(d, v))
  <2>1. CASE slot[q].state = "Asked"
    <3>1. slot'[q].state = "Asked" /\ slot'[q].waiting = Append(slot[q].waiting, d)
      BY <1>1, <1>2, <1>4, <2>1 DEF Slot
    <3>2. \A c : Has(Append(slot[q].waiting, d), c) <=> Has(slot[q].waiting, c) \/ d = c
      BY <1>2, <1>3, AtTheEnd
    <3>3. QED
      BY <2>1, <3>1, <3>2
  <2>2. CASE slot[q].state = "Active"
    <3>1. slot'[q].state = "Asked" /\ slot'[q].waiting = <<d>>
      BY <1>1, <1>2, <1>4, <2>2
    <3>2. Has(<<d>>, d)
      BY DEF Has
    <3>3. QED
      BY <2>2, <3>1, <3>2
  <2>3. CASE slot[q].state = "Decided"
    <3>1. mailbox' = Append(mailbox, Answer(d, v))
      BY <1>4, <2>3
    <3>2. Has(Append(mailbox, Answer(d, v)), Answer(d, v))
      <4> DEFINE a == Answer(d, v)
      <4>1. a \in Task
        BY <1>5
      <4> HIDE DEF a
      <4>2. Has(Append(mailbox, a), a) <=> Has(mailbox, a) \/ a = a
        BY <1>1, <4>1, AtTheEnd
      <4>3. QED
        BY <4>2 DEF a
    <3>3. QED
      BY <2>3, <3>1, <3>2
  <2>4. CASE slot[q].state = "Absent"
    BY <2>4
  <2>5. QED
    BY <1>4, <2>1, <2>2, <2>3, <2>4
<1>10. Ends(io', HasSlot', observed')
  BY <1>1, <1>8, CheckTaken DEF IoAgrees
<1>11. ASSUME NEW c \in Conn PROVE Underway(c)'
  <2>1. SUFFICES ASSUME policy[c] = "Loading"
                 PROVE  Ahead(io', HasSlot, PeerOf[c], Check(c)) /\ Somewhere(c)'
    BY <1>1, <1>8 DEF Underway, Check
  <2>2. Ahead(io, HasSlot, PeerOf[c], Check(c)) /\ Somewhere(c)
    BY <2>1 DEF IoAgrees, Underway
  <2>3. Check(c)' = Check(c) /\ \A w : Answer(c, w)' = Answer(c, w)
    BY DEF Check, Answer
  <2>4. Ahead(io', HasSlot, PeerOf[c], Check(c)) /\ (PeerOf[c] \notin HasSlot => Has(io', Check(c)))
    BY <1>1, <2>2, CheckTaken
  <2>5. Has(io, Check(c)) => Head(io) = Check(c) \/ Has(io', Check(c))
    BY <1>1, AtTheFront
  <2>6. Head(io) = Check(c) => c = d
    BY <1>2, IoTaskKinds
  <2>7. c \in checks' /\ PeerOf[c] \in Peer
    BY <1>1, <2>2 DEF Somewhere
  <2>8. CASE c = d
    <3>1. q = PeerOf[c]
      BY <2>8 DEF q
    <3>2. CASE slot[q].state = "Absent"
      <4>1. PeerOf[c] \notin HasSlot
        BY <3>1, <3>2 DEF HasSlot
      <4>2. QED
        BY <2>3, <2>4, <2>7, <4>1 DEF Somewhere
    <3>3. CASE slot[q].state \in {"Active", "Asked"}
      BY <1>9, <2>4, <2>7, <2>8, <3>1, <3>3 DEF Somewhere
    <3>4. CASE slot[q].state = "Decided"
      BY <1>3, <1>9, <2>3, <2>4, <2>7, <2>8, <3>4 DEF Somewhere
    <3>5. QED
      BY <1>4, <3>2, <3>3, <3>4
  <2>9. CASE c # d
    <3>1. CASE Has(io, Check(c))
      BY <2>3, <2>4, <2>5, <2>6, <2>7, <2>9, <3>1 DEF Somewhere
    <3>2. CASE slot[PeerOf[c]].state = "Asked" /\ Has(slot[PeerOf[c]].waiting, c)
      <4>1. slot'[PeerOf[c]].state = "Asked" /\ Has(slot'[PeerOf[c]].waiting, c)
        BY <1>7, <1>9, <2>7, <3>2
      <4>2. QED
        BY <2>4, <2>7, <4>1 DEF Somewhere
    <3>3. CASE \E w \in 0 .. MaxDecisions : Has(mailbox, Answer(c, w))
      BY <1>6, <2>3, <2>4, <2>7, <3>3 DEF Somewhere
    <3>4. QED
      BY <2>2, <3>1, <3>2, <3>3 DEF Somewhere
  <2>10. QED
    BY <2>8, <2>9
<1>12. PeersOf(Known)' = PeersOf(Known) /\ spawned
  BY <1>1 DEF PeersOf, Known, IoAgrees
<1>13. QED
  BY <1>1, <1>10, <1>11, <1>12 DEF IoAgrees

LEMMA DecideAgrees ==
  ASSUME TypeOK, IoAgrees, NEW p \in Peer, NEW v \in 0 .. Len(decisions[p]), Subscribed(p),
         Decide(p, v), UNCHANGED <<hubVars, toHub, actorVars, io, decisions, sent>>
  PROVE  IoAgrees'
<1> DEFINE told == Answered(slot[p].waiting)
           answers == [i \in DOMAIN told |-> Answer(told[i], v)]
           new == IF slot[p].state = "Asked" THEN answers
                    ELSE IF Decision(p, v) # Decision(p, slot[p].latest) THEN <<Update(p, v)>> ELSE <<>>
<1>1. UNCHANGED <<policy, checks, observed, decisions, spawned, io>> /\ mailbox \in Seq(Task)
      /\ slot \in [Peer -> Slot]
  BY DEF TypeOK, hubVars, actorVars, connVars
<1>2. v \in Nat /\ v \in 0 .. MaxDecisions
  <2>1. Len(decisions[p]) \in Nat /\ Len(decisions[p]) <= MaxDecisions
    BY LenProperties DEF TypeOK, IoAgrees
  <2>2. QED
    BY <2>1
<1>3. told = slot[p].waiting /\ told \in Seq(Conn)
  BY SlotFields DEF Answered
<1>4. /\ answers \in Seq(Task) /\ Len(answers) = Len(told)
      /\ \A i \in 1 .. Len(told) : answers[i] = Answer(told[i], v)
  BY <1>2, <1>3, AnswerTasks
<1>5. mailbox' = mailbox \o new
  BY DEF Decide
<1>6. <<Update(p, v)>> \in Seq(Task) /\ <<>> \in Seq(Task)
  BY <1>2 DEF Update, Task
<1> HIDE DEF told, answers
<1>7. new \in Seq(Task) /\ (slot[p].state = "Asked" => new = answers)
  <2>1. CASE slot[p].state = "Asked"
    BY <1>4, <2>1
  <2>2. CASE slot[p].state # "Asked" /\ Decision(p, v) # Decision(p, slot[p].latest)
    BY <1>6, <2>2
  <2>3. CASE slot[p].state # "Asked" /\ Decision(p, v) = Decision(p, slot[p].latest)
    BY <1>6, <2>3
  <2>4. QED
    BY <2>1, <2>2, <2>3
<1> HIDE DEF new
<1>8. \A e : Has(mailbox', e) <=> Has(mailbox, e) \/ Has(new, e)
  BY <1>1, <1>5, <1>7, Joined
<1>9. \A c : Has(told, c) => Has(answers, Answer(c, v))
  BY <1>4 DEF Has
<1>10. slot' = [slot EXCEPT ![p] =
                 [state |-> "Decided", latest |-> v, waiting |-> <<>>,
                  next |-> IF v = 0 THEN @.next ELSE v + 1, ended |-> v = 0]]
  BY DEF Decide
<1>11. slot'[p].state = "Decided" /\ \A r \in Peer : r # p => slot'[r] = slot[r]
  BY <1>1, <1>10
<1>12. slot[p].state # "Absent"
  BY DEF Subscribed
<1>13. HasSlot' = HasSlot
  BY <1>11, <1>12 DEF HasSlot
<1>14. ASSUME NEW c \in Conn PROVE Underway(c)'
  <2>1. SUFFICES ASSUME policy[c] = "Loading"
                 PROVE  Ahead(io, HasSlot, PeerOf[c], Check(c)) /\ Somewhere(c)'
    BY <1>1, <1>13 DEF Underway, Check
  <2>2. Ahead(io, HasSlot, PeerOf[c], Check(c)) /\ Somewhere(c)
    BY <2>1 DEF IoAgrees, Underway
  <2>3. Check(c)' = Check(c) /\ (\A w : Answer(c, w)' = Answer(c, w)) /\ c \in checks'
    BY <1>1, <2>2 DEF Check, Answer, Somewhere
  <2>4. CASE Has(io, Check(c))
    BY <1>1, <2>2, <2>3, <2>4 DEF Somewhere
  <2>5. CASE slot[PeerOf[c]].state = "Asked" /\ Has(slot[PeerOf[c]].waiting, c)
    <3>1. CASE PeerOf[c] = p
      <4>1. Has(mailbox', Answer(c, v))
        BY <1>3, <1>7, <1>8, <1>9, <2>5, <3>1
      <4>2. QED
        BY <1>2, <2>2, <2>3, <4>1 DEF Somewhere
    <3>2. CASE PeerOf[c] # p
      BY <1>11, <2>2, <2>3, <2>5, <3>2 DEF Somewhere
    <3>3. QED
      BY <3>1, <3>2
  <2>6. CASE \E w \in 0 .. MaxDecisions : Has(mailbox, Answer(c, w))
    BY <1>8, <2>2, <2>3, <2>6 DEF Somewhere
  <2>7. QED
    BY <2>2, <2>4, <2>5, <2>6 DEF Somewhere
<1>15. PeersOf(Known)' = PeersOf(Known)
  BY <1>1 DEF PeersOf, Known
<1>16. spawned
  BY <1>12 DEF IoAgrees, HasSlot
<1>17. QED
  BY <1>1, <1>13, <1>14, <1>15, <1>16 DEF IoAgrees

LEMMA StreamAgrees ==
  ASSUME TypeOK, IoAgrees, NEW p \in Peer, StreamYields(p) \/ StreamEnds(p) \/ NewDecision(p)
  PROVE  IoAgrees'
<1>1. CASE StreamYields(p)
  <2>1. slot[p].next \in 0 .. Len(decisions[p])
    <3>1. slot[p].next \in Nat /\ slot[p].next <= Len(decisions[p]) /\ Len(decisions[p]) \in Nat
      BY <1>1, SlotFields, LenProperties DEF StreamYields, TypeOK
    <3>2. QED
      BY <3>1
  <2>2. QED
    BY <1>1, <2>1, DecideAgrees DEF StreamYields
<1>2. CASE StreamEnds(p) /\ DeniesAtEnd(p)
  <2>1. 0 \in 0 .. Len(decisions[p])
    BY LenProperties DEF TypeOK
  <2>2. QED
    BY <1>2, <2>1, DecideAgrees DEF StreamEnds
<1>3. ASSUME UNCHANGED <<mailbox, policy, checks, observed, spawned, io>>,
             \A r \in Peer : slot'[r].state = slot[r].state /\ slot'[r].waiting = slot[r].waiting,
             \A r \in Peer : Len(decisions'[r]) <= MaxDecisions
      PROVE  IoAgrees'
  <2>1. HasSlot' = HasSlot /\ PeersOf(Known)' = PeersOf(Known)
    BY <1>3 DEF HasSlot, PeersOf, Known
  <2>2. ASSUME NEW c \in Conn PROVE Underway(c)'
    <3>1. Underway(c) /\ PeerOf[c] \in Peer
      BY DEF IoAgrees
    <3>2. Check(c)' = Check(c) /\ \A w : Answer(c, w)' = Answer(c, w)
      BY DEF Check, Answer
    <3>3. Somewhere(c) => Somewhere(c)'
      BY <1>3, <3>1, <3>2 DEF Somewhere
    <3>4. QED
      BY <1>3, <2>1, <3>1, <3>2, <3>3 DEF Underway
  <2>3. QED
    BY <1>3, <2>1, <2>2 DEF IoAgrees
<1>4. CASE StreamEnds(p) /\ ~DeniesAtEnd(p)
  <2>1. slot' = [slot EXCEPT ![p].ended = TRUE] /\ UNCHANGED <<mailbox, policy, checks, observed, spawned, io, decisions>>
    BY <1>4 DEF StreamEnds, hubVars, actorVars, connVars
  <2>2. \A r \in Peer : slot[r] \in Slot
    BY DEF TypeOK
  <2>3. \A r \in Peer : slot'[r].state = slot[r].state /\ slot'[r].waiting = slot[r].waiting
    BY <2>1, <2>2 DEF TypeOK, Slot
  <2>4. QED
    BY <1>3, <2>1, <2>3 DEF IoAgrees
<1>5. CASE NewDecision(p)
  <2>1. UNCHANGED <<slot, mailbox, policy, checks, observed, spawned, io>>
        /\ Len(decisions[p]) < MaxDecisions
    BY <1>5 DEF NewDecision, hubVars, actorVars, connVars
  <2>2. PICK g \in Config : decisions' = [decisions EXCEPT ![p] = Append(@, g)]
    BY <1>5 DEF NewDecision
  <2>3. Len(Append(decisions[p], g)) = Len(decisions[p]) + 1 /\ Len(decisions[p]) \in Nat
    BY AppendProperties, LenProperties DEF TypeOK
  <2>4. ASSUME NEW r \in Peer PROVE Len(decisions'[r]) <= MaxDecisions
    <3>1. CASE r = p
      BY <2>1, <2>2, <2>3, <3>1 DEF TypeOK
    <3>2. CASE r # p
      BY <2>2, <3>2 DEF TypeOK, IoAgrees
    <3>3. QED
      BY <3>1, <3>2
  <2>5. QED
    BY <1>3, <2>1, <2>4
<1>6. QED
  BY <1>1, <1>2, <1>4, <1>5

LEMMA AgreesStep == TypeOK /\ Routed /\ IoAgrees /\ [Next]_vars => IoAgrees'
<1> SUFFICES ASSUME TypeOK, Routed, IoAgrees, [Next]_vars PROVE IoAgrees'
  OBVIOUS
<1>1. CASE UNCHANGED vars
  <2>1. UNCHANGED <<spawned, io, observed, slot, decisions, policy, checks, mailbox>>
    BY <1>1 DEF vars, hubVars, actorVars, connVars, ioVars
  <2>2. HasSlot' = HasSlot /\ PeersOf(Known)' = PeersOf(Known)
    BY <2>1 DEF HasSlot, PeersOf, Known
  <2>3. \A c \in Conn : Underway(c)'
    BY <2>1, <2>2 DEF IoAgrees, Underway, Somewhere, Check, Answer
  <2>4. QED
    BY <2>1, <2>2, <2>3 DEF IoAgrees
<1>2. QED
  BY <1>1, HubAgrees, ActorAgrees, SetPeersAgrees, CheckPolicyAgrees, StreamAgrees DEF Next

LEMMA AgreesInit == Init => IoAgrees
<1> SUFFICES ASSUME Init PROVE IoAgrees
  OBVIOUS
<1>1. HasSlot = {} /\ Known = {} /\ PeersOf(Known) = {}
  BY DEF Init, HasSlot, Known, PeersOf, NoSlot
<1>2. Ends(<<>>, {}, {})
  BY DEF Ends, IsSetAt, SetAt
<1>3. \A p \in Peer : Len(decisions[p]) <= MaxDecisions
  <2> SUFFICES ASSUME NEW p \in Peer PROVE Len(decisions[p]) <= MaxDecisions
    OBVIOUS
  <2>1. PICK g \in Config : decisions[p] = <<g>>
    BY DEF Init
  <2>2. QED
    BY <2>1
<1>4. \A c \in Conn : policy[c] # "Loading"
  BY DEF Init
<1>5. QED
  BY <1>1, <1>2, <1>3, <1>4 DEF Init, IoAgrees, Underway

LEMMA Inductive == Spec => [](TypeOK /\ Routed /\ IoAgrees)
<1>1. Init => Routed /\ IoAgrees
  BY RouteInit, AgreesInit
<1>2. QED
  BY <1>1, RouteStep, AgreesStep, TypeCorrect, PTL DEF Spec

LEMMA RangeHas ==
  ASSUME NEW S, NEW q \in Seq(S), NEW e
  PROVE  e \in Range(q) <=> Has(q, e)
BY LenProperties DEF Range, Has

(* No check is forgotten: a connection that waits for a decision has its   *)
(* check on the way, with the subscription, or answered.                   *)
THEOREM NoCheckIsLost == Spec => []CheckIsSomewhere
<1>1. TypeOK /\ IoAgrees => CheckIsSomewhere
  <2> SUFFICES ASSUME TypeOK, IoAgrees, NEW c \in Conn, policy[c] = "Loading"
               PROVE  /\ c \in checks
                      /\ \/ Check(c) \in Range(io)
                         \/ /\ slot[PeerOf[c]].state = "Asked"
                            /\ c \in Range(slot[PeerOf[c]].waiting)
                         \/ \E v \in 0 .. MaxDecisions : Answer(c, v) \in Range(mailbox)
    BY DEF CheckIsSomewhere
  <2>1. Somewhere(c)
    BY DEF IoAgrees, Underway
  <2>2. io \in Seq(IoTask) /\ mailbox \in Seq(Task) /\ slot[PeerOf[c]].waiting \in Seq(Conn)
    BY SlotFields DEF TypeOK
  <2>3. /\ Check(c) \in Range(io) <=> Has(io, Check(c))
        /\ c \in Range(slot[PeerOf[c]].waiting) <=> Has(slot[PeerOf[c]].waiting, c)
        /\ \A v : Answer(c, v) \in Range(mailbox) <=> Has(mailbox, Answer(c, v))
    BY <2>2, RangeHas
  <2>4. QED
    BY <2>1, <2>3 DEF Somewhere
<1>2. QED
  BY <1>1, Inductive, PTL

(* When nothing is under way, hub, actor and IO loop agree on who is there.*)
THEOREM ViewsAlwaysAgree == Spec => []ViewsAgree
<1>1. TypeOK /\ Routed /\ IoAgrees => ViewsAgree
  <2> SUFFICES ASSUME TypeOK, Routed, IoAgrees PROVE ViewsAgree
    OBVIOUS
  <2>1. ASSUME spawned, mailbox = <<>>, toHub = <<>> PROVE Known = Open
    <3>1. \A e : ~Has(mailbox, e) /\ ~Has(toHub, e)
      BY <2>1 DEF Has
    <3>2. ASSUME NEW c \in Conn PROVE policy[c] # "Absent" <=> hub[c] = "Open"
      BY <2>1, <3>1 DEF Routed, Route, TypeOK
    <3>3. QED
      BY <3>2 DEF Known, Open
  <2>2. ASSUME io = <<>> PROVE HasSlot = PeersOf(Known)
    BY <2>2 DEF IoAgrees, Ends, SetAt
  <2>3. QED
    BY <2>1, <2>2 DEF ViewsAgree, HasSlot
<1>2. QED
  BY <1>1, Inductive, PTL

----------------------------------------------------------------------------
(* What the mailbox says about a peer: no task or connection is ahead of   *)
(* the subscription, and no update is overtaken by a newer decision.       *)
IsUpdate(t, p) == t.kind = "update" /\ t.peer = p
Concerns(t, p) == IsUpdate(t, p) \/ (t.kind = "answer" /\ PeerOf[t.conn] = p)
UpTo(q, p, n) == \A i \in 1 .. Len(q) : Concerns(q[i], p) => q[i].version <= n
KnownUpTo(ver, p, n) == \A c \in Of(p) : ver[c] <= n
Ranked(q, p) ==
    \A i, j \in 1 .. Len(q) :
        i < j /\ Concerns(q[i], p) /\ IsUpdate(q[j], p) => q[i].version <= q[j].version
Outranks(q, ver, p) ==
    \A j \in 1 .. Len(q) : IsUpdate(q[j], p) => KnownUpTo(ver, p, q[j].version)

OwnChecks(waiting, p) == \A i \in 1 .. Len(waiting) : waiting[i] \in Of(p)

Versioned(p) ==
    /\ UpTo(mailbox, p, Len(decisions[p])) /\ KnownUpTo(version, p, Len(decisions[p]))
    /\ slot[p].latest <= slot[p].next
    /\ Subscribed(p) => UpTo(mailbox, p, slot[p].next) /\ KnownUpTo(version, p, slot[p].next)
    /\ Ranked(mailbox, p) /\ Outranks(mailbox, version, p)
    /\ OwnChecks(slot[p].waiting, p)

Versions == \A p \in Peer : Versioned(p)

(* A position of a concatenation is one of its halves.                     *)
LEMMA Halves ==
  ASSUME NEW S, NEW q \in Seq(S), NEW t \in Seq(S), NEW i \in 1 .. Len(q \o t)
  PROVE  \/ i \in 1 .. Len(q) /\ (q \o t)[i] = q[i]
         \/ i - Len(q) \in 1 .. Len(t) /\ (q \o t)[i] = t[i - Len(q)] /\ i > Len(q)
<1>1. /\ Len(q \o t) = Len(q) + Len(t) /\ Len(q) \in Nat /\ Len(t) \in Nat
      /\ (q \o t)[i] = IF i <= Len(q) THEN q[i] ELSE t[i - Len(q)]
  BY ConcatProperties, LenProperties
<1>2. QED
  BY <1>1

LEMMA VersionsAdded ==
  ASSUME NEW q \in Seq(Task), NEW t \in Seq(Task), NEW p \in Peer, NEW n \in Nat,
         NEW ver \in [Conn -> Nat]
  PROVE  /\ UpTo(q, p, n) /\ UpTo(t, p, n) => UpTo(q \o t, p, n)
         /\ /\ Ranked(q, p) /\ Ranked(t, p)
            /\ \A j \in 1 .. Len(t) : IsUpdate(t[j], p) => UpTo(q, p, t[j].version)
            => Ranked(q \o t, p)
         /\ Outranks(q, ver, p) /\ Outranks(t, ver, p) => Outranks(q \o t, ver, p)
<1> DEFINE r == q \o t
           k == Len(q)
<1>1. \A i \in 1 .. Len(r) : \/ i \in 1 .. Len(q) /\ r[i] = q[i]
                             \/ i - k \in 1 .. Len(t) /\ r[i] = t[i - k] /\ i > k
  BY Halves
<1>2. k = Len(q) /\ k \in Nat
  BY LenProperties
<1> HIDE DEF r, k
<1>3. UpTo(q, p, n) /\ UpTo(t, p, n) => UpTo(r, p, n)
  BY <1>1 DEF UpTo
<1>4. Outranks(q, ver, p) /\ Outranks(t, ver, p) => Outranks(r, ver, p)
  BY <1>1 DEF Outranks
<1>5. ASSUME Ranked(q, p), Ranked(t, p),
             \A j \in 1 .. Len(t) : IsUpdate(t[j], p) => UpTo(q, p, t[j].version)
      PROVE  Ranked(r, p)
  <2> SUFFICES ASSUME NEW i \in 1 .. Len(r), NEW j \in 1 .. Len(r), i < j,
                      Concerns(r[i], p), IsUpdate(r[j], p)
               PROVE  r[i].version <= r[j].version
    BY DEF Ranked
  <2>1. CASE j \in 1 .. Len(q) /\ r[j] = q[j]
    BY <1>1, <1>2, <1>5, <2>1 DEF Ranked
  <2>2. CASE j - k \in 1 .. Len(t) /\ r[j] = t[j - k] /\ j > k
    <3>1. CASE i \in 1 .. Len(q) /\ r[i] = q[i]
      <4>1. UpTo(q, p, r[j].version)
        BY <1>5, <2>2
      <4>2. QED
        BY <3>1, <4>1 DEF UpTo
    <3>2. CASE i - k \in 1 .. Len(t) /\ r[i] = t[i - k] /\ i > k
      <4>1. i - k < j - k
        BY <1>2
      <4>2. QED
        BY <1>5, <2>2, <3>2, <4>1 DEF Ranked
    <3>3. QED
      BY <1>1, <3>1, <3>2
  <2>3. QED
    BY <1>1, <2>1, <2>2
<1>6. QED
  BY <1>3, <1>4, <1>5 DEF r

LEMMA VersionsTaken ==
  ASSUME NEW q \in Seq(Task), q # <<>>, NEW p \in Peer, NEW n \in Nat, NEW ver \in [Conn -> Nat]
  PROVE  /\ UpTo(q, p, n) => UpTo(Tail(q), p, n)
         /\ UpTo(q, p, n) /\ Concerns(Head(q), p) => Head(q).version <= n
         /\ Ranked(q, p) => Ranked(Tail(q), p)
         /\ Outranks(q, ver, p) => Outranks(Tail(q), ver, p)
         /\ Outranks(q, ver, p) /\ IsUpdate(Head(q), p) => KnownUpTo(ver, p, Head(q).version)
         /\ Ranked(q, p) /\ Concerns(Head(q), p) =>
              \A j \in 1 .. Len(Tail(q)) : IsUpdate(Tail(q)[j], p) => Head(q).version <= Tail(q)[j].version
<1> DEFINE r == Tail(q)
           x == Head(q)
<1>1. /\ Len(r) = Len(q) - 1 /\ Len(q) \in Nat /\ Len(q) > 0 /\ x = q[1]
      /\ \A i \in 1 .. Len(r) : r[i] = q[i + 1]
  BY HeadTailProperties, LenProperties, EmptySeq
<1> HIDE DEF r, x
<1>2. 1 \in 1 .. Len(q) /\ \A i \in 1 .. Len(r) : i + 1 \in 1 .. Len(q) /\ 1 < i + 1
  BY <1>1
<1>3. UpTo(q, p, n) => UpTo(r, p, n) /\ (Concerns(x, p) => x.version <= n)
  BY <1>1, <1>2 DEF UpTo
<1>4. Ranked(q, p) => Ranked(r, p)
  <2> SUFFICES ASSUME Ranked(q, p), NEW i \in 1 .. Len(r), NEW j \in 1 .. Len(r), i < j,
                      Concerns(r[i], p), IsUpdate(r[j], p)
               PROVE  r[i].version <= r[j].version
    BY DEF Ranked
  <2>1. i + 1 < j + 1
    OBVIOUS
  <2>2. QED
    BY <1>1, <1>2, <2>1 DEF Ranked
<1>5. Outranks(q, ver, p) => Outranks(r, ver, p) /\ (IsUpdate(x, p) => KnownUpTo(ver, p, x.version))
  BY <1>1, <1>2 DEF Outranks
<1>6. Ranked(q, p) /\ Concerns(x, p) =>
        \A j \in 1 .. Len(r) : IsUpdate(r[j], p) => x.version <= r[j].version
  BY <1>1, <1>2 DEF Ranked
<1>7. QED
  BY <1>3, <1>4, <1>5, <1>6 DEF r, x

(* Tasks without a decision in them change nothing.                        *)
LEMMA VersionsStay ==
  ASSUME TypeOK, NEW p \in Peer, NEW t \in Seq(Task), Versioned(p), mailbox' = mailbox \o t,
         \A i \in 1 .. Len(t) : t[i].kind \in {"new", "closed", "sync"},
         UNCHANGED <<version, slot, decisions>>
  PROVE  Versioned(p)'
<1>1. mailbox \in Seq(Task) /\ version \in [Conn -> Nat] /\ slot[p].next \in Nat
      /\ Len(decisions[p]) \in Nat
  BY SlotFields, LenProperties DEF TypeOK
<1>2. \A i \in 1 .. Len(t) : ~Concerns(t[i], p) /\ ~IsUpdate(t[i], p)
  BY DEF Concerns, IsUpdate
<1>3. Ranked(t, p) /\ Outranks(t, version, p) /\ \A n : UpTo(t, p, n)
  BY <1>2 DEF Ranked, Outranks, UpTo
<1>4. Ranked(mailbox', p) /\ Outranks(mailbox', version, p)
  <2>1. Ranked(mailbox, p) /\ Outranks(mailbox, version, p)
    BY DEF Versioned
  <2>2. QED
    BY <1>1, <1>2, <1>3, <2>1, VersionsAdded
<1>5. \A n \in Nat : UpTo(mailbox, p, n) => UpTo(mailbox', p, n)
  BY <1>1, <1>3, VersionsAdded
<1>6. UpTo(mailbox', p, Len(decisions[p]))
      /\ (Subscribed(p) => UpTo(mailbox', p, slot[p].next))
  BY <1>1, <1>5 DEF Versioned
<1>7. Subscribed(p)' <=> Subscribed(p)
  BY DEF Subscribed
<1>8. QED
  BY <1>4, <1>6, <1>7 DEF Versioned

LEMMA VersionsOfHub ==
  ASSUME TypeOK, Versions,
         \/ \E c \in Conn : Establish(c) \/ Lose(c) \/ Receive(c)
         \/ Disconnect \/ OpenDocument
  PROVE  Versions'
<1>1. mailbox \in Seq(Task) /\ <<>> \in Seq(Task) /\ mailbox \o <<>> = mailbox
  BY EmptySeq, ConcatEmptySeq DEF TypeOK
<1>2. UNCHANGED <<version, slot, decisions>>
  BY DEF Establish, Lose, Receive, Disconnect, OpenDocument, Spawn, actorVars, connVars, ioVars
<1>3. ASSUME NEW t \in Seq(Task), mailbox' = mailbox \o t,
             \A i \in 1 .. Len(t) : t[i].kind \in {"new", "closed", "sync"}
      PROVE  Versions'
  BY <1>2, <1>3, VersionsStay DEF Versions
<1>4. ASSUME UNCHANGED mailbox PROVE Versions'
  <2>1. mailbox' = mailbox \o <<>> /\ \A i \in 1 .. Len(<<>>) : <<>>[i].kind \in {"new", "closed", "sync"}
    BY <1>1, <1>4
  <2>2. QED
    BY <1>1, <1>3, <2>1
<1>5. ASSUME NEW t \in Task, t.kind \in {"new", "closed", "sync"}, mailbox' = Append(mailbox, t)
      PROVE  Versions'
  <2>1. mailbox' = mailbox \o <<t>>
    BY <1>1, <1>5, AppendIsConcat
  <2>2. <<t>> \in Seq(Task) /\ \A i \in 1 .. Len(<<t>>) : <<t>>[i].kind \in {"new", "closed", "sync"}
    BY <1>5
  <2>3. QED
    BY <1>3, <2>1, <2>2
<1>6. ASSUME NEW conns \in SUBSET Conn, NEW subs, EnsureConnections(conns, subs, mailbox)
      PROVE  Versions'
  <2>1. conns \ subs \in SUBSET Conn
    OBVIOUS
  <2>2. PICK order \in SetToSeqs(conns \ subs) :
               mailbox' = mailbox \o [i \in DOMAIN order |-> New(order[i])]
    BY <1>6 DEF EnsureConnections
  <2> DEFINE t == [i \in DOMAIN order |-> New(order[i])]
  <2>3. t \in Seq(Task) /\ \A i \in 1 .. Len(t) : t[i] = New(order[i])
    BY <2>1, NewTasks
  <2>4. \A x : New(x).kind = "new"
    BY DEF New
  <2>5. mailbox' = mailbox \o t
    BY <2>2
  <2> HIDE DEF t
  <2>6. \A i \in 1 .. Len(t) : t[i].kind \in {"new", "closed", "sync"}
    BY <2>3, <2>4
  <2>7. QED
    BY <1>3, <2>3, <2>5, <2>6
<1>7. Open \in SUBSET Conn
  BY DEF Open
<1>8. ASSUME NEW c \in Conn, RemoveFromHub(c) PROVE Versions'
  <2>1. Closed(c) \in Task /\ Closed(c).kind = "closed"
    BY DEF Closed, Task
  <2>2. mailbox' = Append(mailbox, Closed(c)) \/ mailbox' = mailbox
    BY <1>8 DEF RemoveFromHub
  <2>3. QED
    BY <1>4, <1>5, <2>1, <2>2
<1>9. ASSUME NEW c \in Conn, Establish(c) PROVE Versions'
  <2>1. Open \cup {c} \in SUBSET Conn
    BY <1>7
  <2>2. EnsureConnections(Open \cup {c}, subscribed, mailbox) \/ UNCHANGED mailbox
    BY <1>9 DEF Establish
  <2>3. QED
    BY <1>4, <1>6, <2>1, <2>2
<1>10. ASSUME NEW c \in Conn, Receive(c) PROVE Versions'
  <2>1. CASE mailbox' = Append(mailbox, Sync(c, sent'[c]))
    <3>1. sent'[c] \in Nat
      BY <1>10 DEF Receive, TypeOK
    <3>2. Sync(c, sent'[c]) \in Task /\ Sync(c, sent'[c]).kind = "sync"
      BY <3>1 DEF Sync, Task
    <3>3. QED
      BY <1>5, <2>1, <3>2
  <2>2. CASE \E pend : Spawn(pend)
    BY <1>6, <1>7, <2>2 DEF Spawn
  <2>3. QED
    BY <1>10, <2>1, <2>2 DEF Receive
<1>11. CASE OpenDocument
  BY <1>6, <1>7, <1>11 DEF OpenDocument, Spawn
<1>12. CASE Disconnect
  <2>1. Head(toHub) \in Conn
    BY <1>12, HeadTailProperties DEF Disconnect, TypeOK
  <2>2. QED
    BY <1>4, <1>8, <1>12, <2>1 DEF Disconnect
<1>13. ASSUME NEW c \in Conn, Lose(c) PROVE Versions'
  BY <1>8, <1>13 DEF Lose
<1>14. QED
  BY <1>9, <1>10, <1>11, <1>12, <1>13

(* A connection's decision stays, is dropped, or is that of the task.      *)
LEMMA VersionsFollow ==
  ASSUME TypeOK, NEW p \in Peer, Versioned(p), mailbox # <<>>, mailbox' = Tail(mailbox),
         version' \in [Conn -> Nat], UNCHANGED <<slot, decisions>>,
         \A c \in Of(p) : \/ version'[c] = version[c] \/ version'[c] = 0
                          \/ Concerns(Head(mailbox), p) /\ version'[c] = Head(mailbox).version
  PROVE  Versioned(p)'
<1> DEFINE x == Head(mailbox)
<1>1. /\ mailbox \in Seq(Task) /\ version \in [Conn -> Nat] /\ slot[p].next \in Nat
      /\ Len(decisions[p]) \in Nat /\ x \in Task /\ mailbox' \in Seq(Task)
  BY SlotFields, LenProperties, HeadTailProperties DEF TypeOK
<1>2. Of(p) \subseteq Conn
  BY DEF Of
<1>3. \A c \in Of(p) : version'[c] \in Nat /\ version[c] \in Nat
  BY <1>1, <1>2
<1>4. ASSUME NEW n \in Nat, UpTo(mailbox, p, n), KnownUpTo(version, p, n)
      PROVE  UpTo(mailbox', p, n) /\ KnownUpTo(version', p, n)
  <2>1. UpTo(mailbox', p, n) /\ (Concerns(x, p) => x.version <= n)
    BY <1>1, <1>4, VersionsTaken
  <2> HIDE DEF x
  <2>2. \A c \in Of(p) : version'[c] \in {version[c], 0} \/ (Concerns(x, p) /\ version'[c] = x.version)
    BY DEF x
  <2>3. KnownUpTo(version', p, n)
    BY <1>3, <1>4, <2>1, <2>2 DEF KnownUpTo
  <2>4. QED
    BY <2>1, <2>3
<1>5. Ranked(mailbox', p) /\ Outranks(mailbox', version, p)
      /\ (Concerns(x, p) => \A j \in 1 .. Len(mailbox') :
                              IsUpdate(mailbox'[j], p) => x.version <= mailbox'[j].version)
  <2>1. Ranked(mailbox, p) /\ Outranks(mailbox, version, p)
    BY DEF Versioned
  <2>2. QED
    BY <1>1, <2>1, VersionsTaken
<1>6. Outranks(mailbox', version', p)
  <2> HIDE DEF x
  <2>1. \A c \in Of(p) : version'[c] \in {version[c], 0} \/ (Concerns(x, p) /\ version'[c] = x.version)
    BY DEF x
  <2> SUFFICES ASSUME NEW j \in 1 .. Len(mailbox'), IsUpdate(mailbox'[j], p), NEW c \in Of(p)
               PROVE  version'[c] <= mailbox'[j].version
    BY DEF Outranks, KnownUpTo
  <2>2. mailbox'[j].version \in Nat
    <3>1. mailbox'[j] \in Task
      BY <1>1, ElementOfSeq
    <3>2. QED
      BY <3>1, TaskFields DEF IsUpdate
  <2>3. version[c] <= mailbox'[j].version
    BY <1>5 DEF Outranks, KnownUpTo
  <2>4. Concerns(x, p) => x.version <= mailbox'[j].version
    BY <1>5
  <2>5. QED
    BY <2>1, <2>2, <2>3, <2>4
<1>7. Subscribed(p)' <=> Subscribed(p)
  BY DEF Subscribed
<1>8. QED
  BY <1>1, <1>4, <1>5, <1>6, <1>7 DEF Versioned

LEMMA VersionsOfActor ==
  ASSUME TypeOK, TypeOK', Versions, ActorStep \/ LoadDone
  PROVE  Versions'
<1> SUFFICES ASSUME NEW p \in Peer PROVE Versioned(p)'
  BY DEF Versions
<1> DEFINE x == Head(mailbox)
<1>1. Versioned(p) /\ version' \in [Conn -> Nat] /\ Of(p) \subseteq Conn
  BY DEF Versions, TypeOK, Of
<1>2. CASE LoadDone
  <2>1. UNCHANGED <<mailbox, version, slot, decisions>>
    BY <1>2 DEF LoadDone, connVars, ioVars
  <2>2. QED
    BY <1>1, <2>1 DEF Versioned, Subscribed
<1>3. ASSUME NEW kind, Handles(kind), UNCHANGED <<slot, decisions>>,
             \A c \in Of(p) : \/ version'[c] = version[c] \/ version'[c] = 0
                              \/ Concerns(x, p) /\ version'[c] = x.version
      PROVE  Versioned(p)'
  BY <1>1, <1>3, VersionsFollow DEF Handles
<1>4. ASSUME NEW d \in Conn, RemoveConnection(d)
      PROVE  \A c \in Of(p) : version'[c] = version[c] \/ version'[c] = 0
  BY <1>1, <1>4 DEF RemoveConnection, TypeOK
<1>5. ASSUME NEW kind, Handles(kind) PROVE x \in Task /\ x.kind = kind
  BY <1>5, HeadTailProperties DEF Handles, TypeOK
<1>6. UNCHANGED <<slot, decisions>>
  BY DEF ActorStep, LoadDone, NewConnection, ConnectionClosed, SyncMessage, CheckAnswered,
         PolicyUpdated, ioVars
<1>7. CASE NewConnection
  BY <1>3, <1>6, <1>7 DEF NewConnection
<1>8. CASE ConnectionClosed
  <2>1. x.conn \in Conn
    BY <1>5, <1>8, TaskFields DEF ConnectionClosed
  <2>2. QED
    BY <1>3, <1>4, <1>6, <1>8, <2>1 DEF ConnectionClosed
<1>9. CASE SyncMessage
  <2>1. x.conn \in Conn
    BY <1>5, <1>9, TaskFields DEF SyncMessage
  <2>2. UNCHANGED version \/ RemoveConnection(x.conn)
    BY <1>9 DEF SyncMessage, connVars
  <2>3. QED
    BY <1>3, <1>4, <1>6, <1>9, <2>1, <2>2 DEF SyncMessage
<1>10. CASE CheckAnswered
  <2> DEFINE d == x.conn
  <2>1. Handles("answer") /\ d \in Conn /\ x.kind = "answer"
    BY <1>5, <1>10, TaskFields DEF CheckAnswered
  <2>2. \/ version' = version
        \/ version' = [c \in Conn |-> IF c \in {d} THEN x.version ELSE version[c]]
    BY <1>10 DEF CheckAnswered, ApplySharePolicy
  <2>3. \A c \in Of(p) : version'[c] = version[c] \/ (c = d /\ version'[c] = x.version)
    BY <1>1, <2>2
  <2>4. d \in Of(p) => Concerns(x, p)
    BY <2>1 DEF Of, Concerns
  <2>5. QED
    BY <1>3, <1>6, <2>1, <2>3, <2>4
<1>11. CASE PolicyUpdated
  <2> DEFINE conns == Known \cap Of(x.peer)
  <2>1. Handles("update") /\ x.kind = "update"
    BY <1>5, <1>11 DEF PolicyUpdated
  <2>2. version' = [c \in Conn |-> IF c \in conns THEN x.version ELSE version[c]]
    BY <1>11 DEF PolicyUpdated, ApplySharePolicy
  <2>3. ASSUME NEW c \in Of(p), c \in conns PROVE Concerns(x, p)
    BY <2>1, <2>3 DEF Of, Concerns, IsUpdate
  <2> HIDE DEF conns
  <2>4. \A c \in Of(p) : version'[c] = version[c] \/ (Concerns(x, p) /\ version'[c] = x.version)
    BY <1>1, <2>2, <2>3
  <2>5. QED
    BY <1>3, <1>6, <2>1, <2>4
<1>12. QED
  BY <1>2, <1>7, <1>8, <1>9, <1>10, <1>11 DEF ActorStep

LEMMA SlotsVersioned ==
  ASSUME TypeOK, NEW p \in Peer, Versioned(p), UNCHANGED <<mailbox, version, decisions>>,
         slot'[p].latest <= slot'[p].next, OwnChecks(slot'[p].waiting, p),
         Subscribed(p)' => \/ Subscribed(p) /\ slot'[p].next = slot[p].next
                           \/ slot'[p].next = Len(decisions[p])
  PROVE  Versioned(p)'
BY DEF Versioned

LEMMA VersionsOfTables ==
  ASSUME TypeOK, Versions, SetPeers \/ \E p \in Peer : NewDecision(p)
  PROVE  Versions'
<1> SUFFICES ASSUME NEW p \in Peer PROVE Versioned(p)'
  BY DEF Versions
<1>1. Versioned(p) /\ slot[p] \in Slot
  BY SlotFields DEF Versions
<1>2. CASE SetPeers
  <2>1. UNCHANGED <<mailbox, version, decisions>>
    BY <1>2 DEF SetPeers, actorVars, connVars
  <2>2. \/ slot'[p] = [NoSlot EXCEPT !.state = "Active"] \/ slot'[p] = slot[p] \/ slot'[p] = NoSlot
    BY <1>2 DEF SetPeers
  <2>3. CASE slot'[p] = slot[p]
    BY <1>1, <2>1, <2>3, SlotsVersioned DEF Subscribed, Versioned
  <2>4. CASE slot'[p] \in {[NoSlot EXCEPT !.state = "Active"], NoSlot}
    <3>1. /\ slot'[p].latest = 0 /\ slot'[p].next = 0 /\ slot'[p].state \in {"Active", "Absent"}
          /\ slot'[p].waiting = <<>>
      BY <2>4 DEF NoSlot
    <3>0. OwnChecks(slot'[p].waiting, p)
      BY <3>1 DEF OwnChecks
    <3>2. ~Subscribed(p)'
      BY <3>1 DEF Subscribed
    <3>3. QED
      BY <1>1, <2>1, <3>0, <3>1, <3>2, SlotsVersioned
  <2>5. QED
    BY <2>2, <2>3, <2>4
<1>3. ASSUME NEW q \in Peer, NewDecision(q) PROVE Versioned(p)'
  <2>1. UNCHANGED <<mailbox, version, slot>>
    BY <1>3 DEF NewDecision, actorVars, connVars
  <2>2. PICK g \in Config : decisions' = [decisions EXCEPT ![q] = Append(@, g)]
    BY <1>3 DEF NewDecision
  <2>3. /\ Len(Append(decisions[q], g)) = Len(decisions[q]) + 1 /\ Len(decisions[q]) \in Nat
        /\ Len(decisions[p]) \in Nat
    BY AppendProperties, LenProperties DEF TypeOK
  <2>4. Len(decisions[p]) <= Len(decisions'[p]) /\ Len(decisions'[p]) \in Nat
    BY <2>2, <2>3 DEF TypeOK
  <2>5. ASSUME NEW i \in 1 .. Len(mailbox), Concerns(mailbox[i], p) PROVE mailbox[i].version \in Nat
    <3>1. mailbox[i] \in Task
      BY ElementOfSeq DEF TypeOK
    <3>2. QED
      BY <2>5, <3>1, TaskFields DEF Concerns, IsUpdate
  <2>6. \A c \in Of(p) : version[c] \in Nat
    BY DEF Of, TypeOK
  <2>7. UpTo(mailbox, p, Len(decisions'[p])) /\ KnownUpTo(version, p, Len(decisions'[p]))
    <3>1. UpTo(mailbox, p, Len(decisions[p])) /\ KnownUpTo(version, p, Len(decisions[p]))
      BY <1>1 DEF Versioned
    <3> DEFINE m == Len(decisions[p])
               n == Len(decisions'[p])
    <3>2. m \in Nat /\ n \in Nat /\ m <= n
      BY <2>3, <2>4
    <3> HIDE DEF m, n
    <3>3. UpTo(mailbox, p, m) => UpTo(mailbox, p, n)
      BY <2>5, <3>2 DEF UpTo
    <3>4. KnownUpTo(version, p, m) => KnownUpTo(version, p, n)
      BY <2>6, <3>2 DEF KnownUpTo
    <3>5. QED
      BY <3>1, <3>3, <3>4 DEF m, n
  <2>8. QED
    BY <1>1, <2>1, <2>7 DEF Versioned, Subscribed
<1>4. QED
  BY <1>2, <1>3

LEMMA VersionsOfCheck ==
  ASSUME TypeOK, Versions, CheckPolicy
  PROVE  Versions'
<1> SUFFICES ASSUME NEW p \in Peer PROVE Versioned(p)'
  BY DEF Versions
<1> DEFINE d == Head(io).conn
           q == PeerOf[d]
           v == slot[q].latest
<1>1. Versioned(p) /\ UNCHANGED <<version, decisions>>
  BY DEF Versions, CheckPolicy, actorVars, connVars
<1>2. d \in Conn /\ q \in Peer
  BY HeadTailProperties, IoTaskFields DEF TypeOK, CheckPolicy, IoTakes
<1>3. /\ slot[q] \in Slot /\ v \in Nat /\ v <= slot[q].next /\ v <= Len(decisions[q])
      /\ slot[q].next \in Nat /\ slot \in [Peer -> Slot] /\ Len(decisions[q]) \in Nat
      /\ mailbox \in Seq(Task) /\ version \in [Conn -> Nat]
  BY <1>2, SlotFields, LenProperties DEF Versions, Versioned, TypeOK
<1>4. \/ UNCHANGED <<slot, mailbox>>
      \/ /\ UNCHANGED mailbox
         /\ slot' = [slot EXCEPT ![q] = [state |-> "Asked", latest |-> 0, waiting |-> <<d>>,
                                         next |-> Len(decisions[q]), ended |-> FALSE]]
      \/ /\ slot[q].state = "Asked" /\ UNCHANGED mailbox
         /\ slot' = [slot EXCEPT ![q].waiting = Append(@, d)]
      \/ slot[q].state = "Decided" /\ mailbox' = Append(mailbox, Answer(d, v)) /\ UNCHANGED slot
  BY DEF CheckPolicy
<1> HIDE DEF d, q, v
<1>5. CASE UNCHANGED <<slot, mailbox>>
  BY <1>1, <1>5 DEF Versioned, Subscribed
<1>6. CASE UNCHANGED mailbox /\ p # q
  <2>1. slot'[p] = slot[p]
    BY <1>2, <1>3, <1>4, <1>6
  <2>2. QED
    BY <1>1, <1>6, <2>1 DEF Versioned, Subscribed
<1>7. CASE /\ UNCHANGED mailbox /\ p = q
           /\ slot' = [slot EXCEPT ![q] = [state |-> "Asked", latest |-> 0, waiting |-> <<d>>,
                                           next |-> Len(decisions[q]), ended |-> FALSE]]
  <2>1. slot'[p].latest = 0 /\ slot'[p].next = Len(decisions[p]) /\ slot'[p].waiting = <<d>>
    BY <1>2, <1>3, <1>7
  <2>2. OwnChecks(<<d>>, p)
    BY <1>2, <1>7 DEF OwnChecks, Of, q
  <2>3. Len(decisions[p]) \in Nat
    BY <1>3, <1>7
  <2>4. slot'[p].latest <= slot'[p].next /\ OwnChecks(slot'[p].waiting, p)
    BY <2>1, <2>2, <2>3
  <2>5. QED
    BY <1>1, <1>7, <2>1, <2>4, SlotsVersioned
<1>8. CASE /\ UNCHANGED mailbox /\ p = q
           /\ slot' = [slot EXCEPT ![q].waiting = Append(@, d)]
  <2>1. slot'[q] = [slot[q] EXCEPT !.waiting = Append(@, d)]
    BY <1>2, <1>3, <1>8
  <2>2. /\ slot'[q].latest = slot[q].latest /\ slot'[q].next = slot[q].next
        /\ slot'[q].state = slot[q].state /\ slot'[q].ended = slot[q].ended
        /\ slot'[q].waiting = Append(slot[q].waiting, d) /\ slot[q].waiting \in Seq(Conn)
    BY <1>3, <2>1 DEF Slot
  <2>3. OwnChecks(slot[q].waiting, q) /\ d \in Of(q)
    BY <1>1, <1>2, <1>8 DEF Versioned, Of, q
  <2>4. OwnChecks(Append(slot[q].waiting, d), q)
    <3>1. /\ Len(Append(slot[q].waiting, d)) = Len(slot[q].waiting) + 1 /\ Len(slot[q].waiting) \in Nat
          /\ \A i \in 1 .. Len(slot[q].waiting) : Append(slot[q].waiting, d)[i] = slot[q].waiting[i]
          /\ Append(slot[q].waiting, d)[Len(slot[q].waiting) + 1] = d
      BY <1>2, <2>2, AppendProperties, LenProperties
    <3>2. QED
      BY <2>3, <3>1 DEF OwnChecks
  <2>5. QED
    BY <1>1, <1>8, <2>2, <2>4 DEF Versioned, Subscribed
<1>9. CASE mailbox' = Append(mailbox, Answer(d, v)) /\ UNCHANGED slot
  <2> DEFINE a == Answer(d, v)
             t == <<a>>
  <2>1. a \in Task /\ a.kind = "answer" /\ a.conn = d /\ a.version = v
    BY <1>2, <1>3 DEF Answer, Task
  <2> HIDE DEF a
  <2>2. t \in Seq(Task) /\ mailbox' = mailbox \o t /\ Len(t) = 1 /\ t[1] = a
    <3>1. mailbox' = Append(mailbox, a)
      BY <1>9 DEF a
    <3>2. QED
      BY <1>3, <2>1, <3>1, AppendIsConcat
  <2> HIDE DEF t
  <2>3. ~IsUpdate(a, p) /\ (Concerns(a, p) => p = q)
    BY <2>1 DEF IsUpdate, Concerns, q
  <2>4. Ranked(t, p) /\ Outranks(t, version, p)
        /\ \A j \in 1 .. Len(t) : ~IsUpdate(t[j], p)
    BY <2>2, <2>3 DEF Ranked, Outranks
  <2>5. Ranked(mailbox', p) /\ Outranks(mailbox', version, p)
    <3>1. Ranked(mailbox, p) /\ Outranks(mailbox, version, p)
      BY <1>1 DEF Versioned
    <3>2. QED
      BY <1>3, <2>2, <2>4, <3>1, VersionsAdded
  <2>6. UpTo(t, p, Len(decisions[p])) /\ UpTo(t, p, slot[p].next)
    BY <1>3, <2>1, <2>2, <2>3 DEF UpTo
  <2>7. slot[p].next \in Nat /\ Len(decisions[p]) \in Nat
    BY SlotFields, LenProperties DEF TypeOK
  <2>8. UpTo(mailbox', p, Len(decisions[p])) /\ (Subscribed(p) => UpTo(mailbox', p, slot[p].next))
    BY <1>1, <1>3, <2>2, <2>6, <2>7, VersionsAdded DEF Versioned
  <2>9. Subscribed(p)' <=> Subscribed(p)
    BY <1>9 DEF Subscribed
  <2>10. QED
    BY <1>1, <1>9, <2>5, <2>8, <2>9 DEF Versioned
<1>10. QED
  BY <1>4, <1>5, <1>6, <1>7, <1>8, <1>9

LEMMA VersionsOfDecide ==
  ASSUME TypeOK, Versions, NEW q \in Peer, NEW v \in 0 .. Len(decisions[q]), Decide(q, v),
         Subscribed(q), slot[q].state = "Asked" \/ v = slot[q].next, v = 0 \/ v = slot[q].next,
         UNCHANGED <<version, decisions>>
  PROVE  Versions'
<1> SUFFICES ASSUME NEW p \in Peer PROVE Versioned(p)'
  BY DEF Versions
<1> DEFINE told == Answered(slot[q].waiting)
           answers == [i \in DOMAIN told |-> Answer(told[i], v)]
           new == IF slot[q].state = "Asked" THEN answers
                  ELSE IF Decision(q, v) # Decision(q, slot[q].latest) THEN <<Update(q, v)>> ELSE <<>>
           u == Update(q, v)
<1>1. /\ Versioned(p) /\ Versioned(q) /\ mailbox \in Seq(Task) /\ version \in [Conn -> Nat]
      /\ slot \in [Peer -> Slot] /\ told \in Seq(Conn) /\ slot[q].next \in Nat
      /\ Len(decisions[p]) \in Nat /\ slot[p].next \in Nat /\ Len(decisions[q]) \in Nat
  BY SlotFields, LenProperties DEF Versions, TypeOK, Answered
<1>2. v \in Nat /\ v <= Len(decisions[q])
  BY <1>1
<1>3. /\ answers \in Seq(Task) /\ Len(answers) = Len(told)
      /\ \A i \in 1 .. Len(told) : answers[i] = Answer(told[i], v)
  BY <1>1, <1>2, AnswerTasks
<1>4. mailbox' = mailbox \o new
  BY DEF Decide
<1>5. slot' = [slot EXCEPT ![q] =
                [state |-> "Decided", latest |-> v, waiting |-> <<>>,
                 next |-> IF v = 0 THEN slot[q].next ELSE v + 1, ended |-> v = 0]]
  BY DEF Decide
<1>6. /\ slot'[q].latest = v /\ slot'[q].next = (IF v = 0 THEN slot[q].next ELSE v + 1)
      /\ slot'[q].state = "Decided" /\ slot'[q].ended = (v = 0)
      /\ p # q => slot'[p] = slot[p]
  BY <1>1, <1>5
<1>7. u \in Task /\ u.kind = "update" /\ u.peer = q /\ u.version = v
  BY <1>2 DEF Update, Task
<1> HIDE DEF told, answers, u
<1> DEFINE Fits(t) == \A i \in 1 .. Len(t) :
                        /\ Concerns(t[i], p) => p = q /\ t[i].version = v
                        /\ IsUpdate(t[i], p) => p = q /\ slot[q].state # "Asked"
<1>8. ASSUME slot[q].state = "Asked" PROVE Fits(answers)
  <2> SUFFICES ASSUME NEW i \in 1 .. Len(answers)
               PROVE  /\ Concerns(answers[i], p) => p = q /\ answers[i].version = v
                      /\ ~IsUpdate(answers[i], p)
    OBVIOUS
  <2>1. answers[i].version = v /\ answers[i].kind = "answer" /\ answers[i].conn = told[i]
    <3>1. answers[i] = Answer(told[i], v)
      BY <1>3
    <3>2. QED
      BY <3>1 DEF Answer
  <2>2. told[i] \in Of(q)
    BY <1>1, <1>3 DEF Versioned, OwnChecks, told, Answered
  <2>3. QED
    BY <2>1, <2>2 DEF IsUpdate, Concerns, Of
<1>9. ASSUME slot[q].state # "Asked" PROVE Fits(<<u>>) /\ Fits(<<>>)
  <2>1. Len(<<u>>) = 1 /\ <<u>>[1] = u /\ Len(<<>>) = 0
    OBVIOUS
  <2>2. /\ IsUpdate(u, p) => p = q
        /\ Concerns(u, p) => p = q /\ u.version = v
    BY <1>7 DEF IsUpdate, Concerns
  <2>3. QED
    BY <1>9, <2>1, <2>2
<1>10. new \in Seq(Task) /\ Fits(new)
  <2>1. <<u>> \in Seq(Task) /\ <<>> \in Seq(Task)
    BY <1>7, EmptySeq
  <2> HIDE DEF Fits
  <2>2. CASE slot[q].state = "Asked"
    <3>1. new = answers
      BY <2>2
    <3>2. QED
      BY <1>3, <1>8, <2>2, <3>1
  <2>3. CASE slot[q].state # "Asked"
    <3>1. new = <<u>> \/ new = <<>>
      BY <2>3 DEF u
    <3> HIDE DEF new
    <3>2. QED
      BY <1>9, <2>1, <2>3, <3>1
  <2>4. QED
    BY <2>2, <2>3
<1> HIDE DEF new
<1>11. ASSUME NEW n \in Nat, UpTo(mailbox, p, n), p = q => v <= n
       PROVE  UpTo(mailbox', p, n)
  <2>1. UpTo(new, p, n)
    BY <1>10, <1>11 DEF UpTo
  <2>2. QED
    BY <1>1, <1>4, <1>10, <1>11, <2>1, VersionsAdded
<1>12. ASSUME p = q, slot[q].state # "Asked"
       PROVE  UpTo(mailbox, p, v) /\ KnownUpTo(version, p, v)
  BY <1>1, <1>12 DEF Versioned
<1>13. Ranked(mailbox', p) /\ Outranks(mailbox', version, p)
  <2>1. Ranked(mailbox, p) /\ Outranks(mailbox, version, p)
    BY <1>1 DEF Versioned
  <2>2. Ranked(new, p)
    <3>1. \A i, j \in 1 .. Len(new) : Concerns(new[i], p) /\ IsUpdate(new[j], p) =>
                                       new[i].version <= new[j].version
      BY <1>2, <1>10 DEF Concerns
    <3>2. QED
      BY <3>1 DEF Ranked
  <2>3. \A j \in 1 .. Len(new) : IsUpdate(new[j], p) =>
            /\ UpTo(mailbox, p, new[j].version) /\ KnownUpTo(version, p, new[j].version)
    <3> SUFFICES ASSUME NEW j \in 1 .. Len(new), IsUpdate(new[j], p)
                 PROVE  UpTo(mailbox, p, new[j].version) /\ KnownUpTo(version, p, new[j].version)
      OBVIOUS
    <3>1. p = q /\ slot[q].state # "Asked" /\ new[j].version = v
      BY <1>10 DEF Concerns
    <3>2. QED
      BY <1>12, <3>1
  <2>4. Outranks(new, version, p)
    BY <2>3 DEF Outranks
  <2>5. QED
    BY <1>1, <1>4, <1>10, <2>1, <2>2, <2>3, <2>4, VersionsAdded
<1>14. UpTo(mailbox', p, Len(decisions[p]))
  BY <1>1, <1>2, <1>11 DEF Versioned
<1>15. CASE p # q
  <2>1. slot'[p] = slot[p]
    BY <1>6, <1>15
  <2>2. Subscribed(p) => UpTo(mailbox', p, slot[p].next)
    BY <1>1, <1>11, <1>15 DEF Versioned
  <2>3. QED
    BY <1>1, <1>13, <1>14, <2>1, <2>2 DEF Versioned, Subscribed
<1>16. CASE p = q
  <2>1. slot'[p].latest <= slot'[p].next
    BY <1>1, <1>2, <1>6, <1>16
  <2>2. slot'[p].waiting = <<>> /\ OwnChecks(<<>>, p)
    BY <1>1, <1>5, <1>16 DEF OwnChecks
  <2>3. ASSUME Subscribed(p)'
        PROVE  UpTo(mailbox', p, slot'[p].next) /\ KnownUpTo(version, p, slot'[p].next)
    <3>1. v # 0 /\ v = slot[q].next /\ slot'[p].next = v + 1
      BY <1>6, <1>16, <2>3 DEF Subscribed
    <3>2. UpTo(mailbox, p, v) /\ KnownUpTo(version, p, v)
      BY <1>1, <1>16, <3>1 DEF Versioned
    <3>3. UpTo(mailbox', p, v)
      BY <1>2, <1>11, <3>2
    <3>4. \A i \in 1 .. Len(mailbox') : Concerns(mailbox'[i], p) => mailbox'[i].version \in Nat
      <4>1. mailbox' \in Seq(Task)
        BY <1>1, <1>4, <1>10, ConcatProperties
      <4>2. \A i \in 1 .. Len(mailbox') : mailbox'[i] \in Task
        BY <4>1, ElementOfSeq
      <4>3. QED
        BY <4>2, TaskFields DEF Concerns, IsUpdate
    <3>5. UpTo(mailbox', p, v + 1)
      BY <1>2, <3>3, <3>4 DEF UpTo
    <3>6. \A c \in Of(p) : version[c] \in Nat
      BY <1>1 DEF Of
    <3>7. KnownUpTo(version, p, v + 1)
      BY <1>2, <3>2, <3>6 DEF KnownUpTo
    <3>8. QED
      BY <3>1, <3>5, <3>7
  <2>4. QED
    BY <1>1, <1>13, <1>14, <2>1, <2>2, <2>3 DEF Versioned
<1>17. QED
  BY <1>15, <1>16

LEMMA VersionsOfStream ==
  ASSUME TypeOK, Versions, NEW p \in Peer, StreamYields(p) \/ StreamEnds(p)
  PROVE  Versions'
<1>1. UNCHANGED <<version, decisions>> /\ Subscribed(p)
  BY DEF StreamYields, StreamEnds, actorVars, connVars
<1>2. slot[p].next \in Nat /\ Len(decisions[p]) \in Nat
  BY SlotFields, LenProperties DEF TypeOK
<1>3. CASE StreamYields(p)
  <2>1. slot[p].next \in 0 .. Len(decisions[p]) /\ Decide(p, slot[p].next)
    BY <1>2, <1>3 DEF StreamYields
  <2>2. QED
    BY <1>1, <2>1, VersionsOfDecide
<1>4. CASE StreamEnds(p) /\ DeniesAtEnd(p)
  <2>1. 0 \in 0 .. Len(decisions[p]) /\ Decide(p, 0) /\ slot[p].state = "Asked"
    BY <1>2, <1>4 DEF StreamEnds, DeniesAtEnd
  <2>2. QED
    BY <1>1, <2>1, VersionsOfDecide
<1>5. CASE StreamEnds(p) /\ ~DeniesAtEnd(p)
  <2>1. slot' = [slot EXCEPT ![p].ended = TRUE] /\ UNCHANGED mailbox
    BY <1>5 DEF StreamEnds
  <2>2. \A r \in Peer : slot[r] \in Slot
    BY DEF TypeOK
  <2>3. ASSUME NEW r \in Peer PROVE Versioned(r)'
    <3>1. Versioned(r)
      BY DEF Versions
    <3>2. /\ slot'[r].latest = slot[r].latest /\ slot'[r].next = slot[r].next
          /\ slot'[r].waiting = slot[r].waiting
      BY <2>1, <2>2 DEF TypeOK, Slot
    <3>3. Subscribed(r)' => Subscribed(r)
      <4>1. CASE r = p
        <5>1. slot'[r].ended = TRUE
          BY <2>1, <2>2, <4>1 DEF TypeOK, Slot
        <5>2. QED
          BY <5>1 DEF Subscribed
      <4>2. CASE r # p
        BY <2>1, <4>2 DEF TypeOK, Subscribed
      <4>3. QED
        BY <4>1, <4>2
    <3>4. QED
      BY <1>1, <2>1, <3>1, <3>2, <3>3 DEF Versioned
  <2>4. QED
    BY <2>3 DEF Versions
<1>6. QED
  BY <1>3, <1>4, <1>5

LEMMA VersionsStep == TypeOK /\ TypeOK' /\ Versions /\ [Next]_vars => Versions'
<1> SUFFICES ASSUME TypeOK, TypeOK', Versions, [Next]_vars PROVE Versions'
  OBVIOUS
<1>1. CASE UNCHANGED vars
  BY <1>1 DEF vars, actorVars, connVars, ioVars, Versions, Versioned, Subscribed
<1>2. QED
  BY <1>1, VersionsOfHub, VersionsOfActor, VersionsOfTables, VersionsOfCheck, VersionsOfStream
  DEF Next

LEMMA VersionsInit == Init => Versions
<1> SUFFICES ASSUME Init, NEW p \in Peer PROVE Versioned(p)
  BY DEF Versions
<1>1. mailbox = <<>> /\ slot[p] = NoSlot /\ version = [c \in Conn |-> 0]
  BY DEF Init
<1>2. PICK g \in Config : decisions[p] = <<g>>
  BY DEF Init
<1>3. Len(decisions[p]) = 1
  BY <1>2
<1>4. KnownUpTo(version, p, Len(decisions[p]))
  BY <1>1, <1>3 DEF KnownUpTo, Of
<1>5. UpTo(<<>>, p, Len(decisions[p])) /\ Ranked(<<>>, p) /\ Outranks(<<>>, version, p)
  BY DEF UpTo, Ranked, Outranks
<1>6. /\ slot[p].latest = 0 /\ slot[p].next = 0 /\ slot[p].waiting = <<>>
      /\ slot[p].state = "Absent"
  BY <1>1 DEF NoSlot
<1>7. ~Subscribed(p) /\ OwnChecks(<<>>, p)
  BY <1>6 DEF Subscribed, OwnChecks
<1>8. QED
  BY <1>1, <1>4, <1>5, <1>6, <1>7 DEF Versioned

(* What a step does to a connection whose policy is known before and after.*)
LEMMA OnlyForward ==
  ASSUME TypeOK, Routed, Versions, [Next]_vars, NEW c \in Conn,
         policy[c] = "Ready", policy'[c] = "Ready"
  PROVE  version'[c] >= version[c]
<1> DEFINE x == Head(mailbox)
<1>1. version[c] \in Nat /\ c \notin checks /\ spawned /\ PeerOf[c] \in Peer
  BY DEF TypeOK, Routed, Route
<1>2. ASSUME UNCHANGED version PROVE version'[c] >= version[c]
  BY <1>1, <1>2
<1>3. CASE ConnectionClosed \/ SyncMessage
  <2>1. \A kind : Handles(kind) => x \in Task /\ x.kind = kind
    BY HeadTailProperties DEF Handles, TypeOK
  <2>2. x.conn \in Conn /\ (UNCHANGED version \/ RemoveConnection(x.conn))
    BY <1>3, <2>1, TaskFields DEF ConnectionClosed, SyncMessage, connVars
  <2> HIDE DEF x
  <2>3. CASE RemoveConnection(x.conn)
    <3>1. c # x.conn
      BY <2>2, <2>3 DEF RemoveConnection, TypeOK
    <3>2. version'[c] = version[c]
      BY <2>2, <2>3, <3>1 DEF RemoveConnection, TypeOK
    <3>3. QED
      BY <1>1, <3>2
  <2>4. QED
    BY <1>2, <2>2, <2>3
<1>4. CASE CheckAnswered
  <2> DEFINE d == x.conn
  <2>1. \/ version' = version
        \/ d \in checks /\ version' = [e \in Conn |-> IF e \in {d} THEN x.version ELSE version[e]]
    BY <1>4 DEF CheckAnswered, ApplySharePolicy
  <2>2. version'[c] = version[c]
    BY <1>1, <2>1
  <2>3. QED
    BY <1>1, <2>2
<1>5. CASE PolicyUpdated
  <2> DEFINE conns == Known \cap Of(x.peer)
  <2>1. mailbox # <<>> /\ x \in Task /\ x.kind = "update" /\ mailbox \in Seq(Task)
    BY <1>5, HeadTailProperties DEF PolicyUpdated, Handles, TypeOK
  <2>2. x.peer \in Peer /\ x.version \in Nat
    BY <2>1, TaskFields
  <2>3. version' = [e \in Conn |-> IF e \in conns THEN x.version ELSE version[e]]
    BY <1>5 DEF PolicyUpdated, ApplySharePolicy
  <2>4. CASE c \in conns
    <3> DEFINE p == x.peer
    <3>1. IsUpdate(x, p) /\ Outranks(mailbox, version, p) /\ version \in [Conn -> Nat]
      BY <2>1, <2>2 DEF IsUpdate, Versions, Versioned, TypeOK
    <3>2. KnownUpTo(version, p, x.version)
      BY <2>1, <2>2, <3>1, VersionsTaken
    <3>3. version[c] <= x.version
      BY <2>4, <3>2 DEF KnownUpTo
    <3>4. version'[c] = x.version
      BY <2>3, <2>4
    <3>5. QED
      BY <1>1, <2>2, <3>3, <3>4
  <2>5. CASE c \notin conns
    BY <1>1, <2>3, <2>5
  <2>6. QED
    BY <2>4, <2>5
<1>6. CASE NewConnection \/ LoadDone \/ UNCHANGED vars
  BY <1>2, <1>6 DEF NewConnection, LoadDone, vars, actorVars, connVars
<1>7. CASE \/ \E d \in Conn : Establish(d) \/ Lose(d) \/ Receive(d)
           \/ Disconnect \/ OpenDocument
  BY <1>2, <1>7 DEF Establish, Lose, Receive, Disconnect, OpenDocument, Spawn, actorVars, connVars
<1>8. CASE \/ SetPeers \/ CheckPolicy
           \/ \E p \in Peer : StreamYields(p) \/ StreamEnds(p) \/ NewDecision(p)
  BY <1>2, <1>8 DEF SetPeers, CheckPolicy, StreamYields, StreamEnds, NewDecision, actorVars, connVars
<1>9. QED
  BY <1>3, <1>4, <1>5, <1>6, <1>7, <1>8 DEF Next, ActorStep

(* Latest decision wins: an answer to a check that an update has overtaken *)
(* is dropped, and updates reach the actor in the order of the decisions.  *)
THEOREM NoDecisionIsUndone == Spec => NeverBackwards
<1>1. Spec => []Versions
  BY VersionsInit, VersionsStep, TypeCorrect, PTL DEF Spec
<1>2. TypeOK /\ Routed /\ Versions /\ [Next]_vars =>
        [\A c \in Conn : policy[c] = "Ready" /\ policy'[c] = "Ready"
                           => version'[c] >= version[c]]_vars
  BY OnlyForward
<1>3. QED
  BY <1>1, <1>2, Inductive, PTL DEF Spec, NeverBackwards

----------------------------------------------------------------------------
(* Lines of numbers, and the part of them that is still in the mailbox.    *)
Syncs(q, c) == {i \in 1 .. Len(q) : q[i].kind = "sync" /\ q[i].conn = c}
Numbers(q, c) == {q[i].n : i \in Syncs(q, c)}
InLine(q, c) == \A i, j \in Syncs(q, c) : i < j => q[i].n < q[j].n
Announced(q, c) == \A i \in 1 .. Len(q), j \in Syncs(q, c) : q[i] = New(c) => i < j
Below(S, T) == \A x \in S, y \in T : x < y

(* Everything that was sent, 1 .. s: the line of those received or held,   *)
(* then N, those in the mailbox; D were denied.                            *)
Orderly(line, N, D, s) ==
    /\ Increasing(line)
    /\ Below(Range(line), N)
    /\ Range(line) \cup N \cup D = 1 .. s
    /\ (Range(line) \cup N) \cap D = {}

LEMMA Positions ==
  ASSUME NEW q \in Seq(Nat)
  PROVE  /\ DOMAIN q = 1 .. Len(q) /\ Len(q) \in Nat
         /\ \A i \in 1 .. Len(q) : q[i] \in Nat /\ q[i] \in Range(q)
         /\ \A x \in Range(q) : x \in Nat /\ \E i \in 1 .. Len(q) : q[i] = x
<1>1. DOMAIN q = 1 .. Len(q) /\ Len(q) \in Nat /\ \A i \in 1 .. Len(q) : q[i] \in Nat
  BY LenProperties, ElementOfSeq
<1>2. QED
  BY <1>1 DEF Range

LEMMA IncreasingParts ==
  ASSUME NEW a \in Seq(Nat), NEW b \in Seq(Nat)
  PROVE  Increasing(a \o b) <=> Increasing(a) /\ Increasing(b) /\ Below(Range(a), Range(b))
<1> DEFINE r == a \o b
           k == Len(a)
<1>1. r \in Seq(Nat) /\ Len(r) = k + Len(b) /\ k = Len(a) /\ k \in Nat /\ Len(b) \in Nat
  BY ConcatProperties, LenProperties
<1>2. \A i \in 1 .. Len(r) : \/ i \in 1 .. Len(a) /\ r[i] = a[i]
                             \/ i - k \in 1 .. Len(b) /\ r[i] = b[i - k] /\ i > k
  BY Halves
<1>3. \A i \in 1 .. Len(r) : r[i] = IF i <= k THEN a[i] ELSE b[i - k]
  BY ConcatProperties
<1> HIDE DEF r, k
<1>4. /\ \A i \in 1 .. k : i \in 1 .. Len(r) /\ r[i] = a[i]
      /\ \A i \in 1 .. Len(b) : k + i \in 1 .. Len(r) /\ r[k + i] = b[i]
  <2>1. \A i \in 1 .. k : i \in 1 .. Len(r) /\ r[i] = a[i]
    BY <1>1, <1>3
  <2>2. ASSUME NEW i \in 1 .. Len(b) PROVE k + i \in 1 .. Len(r) /\ r[k + i] = b[i]
    <3>1. k + i \in 1 .. Len(r) /\ ~(k + i <= k) /\ (k + i) - k = i
      BY <1>1
    <3>2. r[k + i] = b[(k + i) - k]
      BY <1>3, <3>1
    <3>3. QED
      BY <3>1, <3>2
  <2>3. QED
    BY <2>1, <2>2
<1>5. /\ DOMAIN r = 1 .. Len(r) /\ DOMAIN a = 1 .. k /\ DOMAIN b = 1 .. Len(b)
  BY <1>1, Positions
<1>6. ASSUME Increasing(r) PROVE Increasing(a) /\ Increasing(b) /\ Below(Range(a), Range(b))
  <2>1. Increasing(a)
    BY <1>1, <1>4, <1>5, <1>6 DEF Increasing
  <2>2. Increasing(b)
    <3> SUFFICES ASSUME NEW i \in 1 .. Len(b), NEW j \in 1 .. Len(b), i < j PROVE b[i] < b[j]
      BY <1>5 DEF Increasing
    <3>1. k + i < k + j
      BY <1>1
    <3>2. QED
      BY <1>4, <1>5, <1>6, <3>1 DEF Increasing
  <2>3. ASSUME NEW x \in Range(a), NEW y \in Range(b) PROVE x < y
    <3>1. PICK i \in 1 .. k : a[i] = x
      BY <1>1, Positions
    <3>2. PICK j \in 1 .. Len(b) : b[j] = y
      BY Positions
    <3>3. i < k + j
      BY <1>1
    <3>4. QED
      BY <1>4, <1>5, <1>6, <3>1, <3>2, <3>3 DEF Increasing
  <2>4. QED
    BY <2>1, <2>2, <2>3 DEF Below
<1>7. ASSUME Increasing(a), Increasing(b), Below(Range(a), Range(b)) PROVE Increasing(r)
  <2> SUFFICES ASSUME NEW i \in 1 .. Len(r), NEW j \in 1 .. Len(r), i < j PROVE r[i] < r[j]
    BY <1>5 DEF Increasing
  <2>1. CASE j \in 1 .. Len(a) /\ r[j] = a[j]
    <3>1. i \in 1 .. Len(a) /\ r[i] = a[i]
      BY <1>1, <1>4, <2>1
    <3>2. QED
      BY <1>1, <1>5, <1>7, <2>1, <3>1 DEF Increasing
  <2>2. CASE j - k \in 1 .. Len(b) /\ r[j] = b[j - k] /\ j > k
    <3>1. CASE i \in 1 .. Len(a) /\ r[i] = a[i]
      <4>1. r[i] \in Range(a) /\ r[j] \in Range(b)
        BY <2>2, <3>1, Positions
      <4>2. QED
        BY <1>7, <4>1 DEF Below
    <3>2. CASE i - k \in 1 .. Len(b) /\ r[i] = b[i - k] /\ i > k
      <4>1. i - k < j - k
        BY <1>1
      <4>2. QED
        BY <1>5, <1>7, <2>2, <3>2, <4>1 DEF Increasing
    <3>3. QED
      BY <1>2, <3>1, <3>2
  <2>3. QED
    BY <1>2, <2>1, <2>2
<1>8. QED
  BY <1>6, <1>7 DEF r

(* A line of three parts.                                                  *)
LEMMA ThreeParts ==
  ASSUME NEW a \in Seq(Nat), NEW b \in Seq(Nat), NEW d \in Seq(Nat)
  PROVE  /\ a \o b \o d \in Seq(Nat)
         /\ Range(a \o b \o d) = Range(a) \cup Range(b) \cup Range(d)
         /\ Increasing(a \o b \o d) <=>
              /\ Increasing(a) /\ Increasing(b) /\ Increasing(d)
              /\ Below(Range(a), Range(b)) /\ Below(Range(a), Range(d)) /\ Below(Range(b), Range(d))
<1>1. a \o b \in Seq(Nat) /\ a \o b \o d \in Seq(Nat)
  BY ConcatProperties
<1>2. Range(a \o b) = Range(a) \cup Range(b) /\ Range(a \o b \o d) = Range(a \o b) \cup Range(d)
  <2> DEFINE ab == a \o b
  <2>1. Range(ab) = Range(a) \cup Range(b)
    BY RangeConcatenation
  <2>2. ab \in Seq(Nat)
    BY <1>1
  <2> HIDE DEF ab
  <2>3. Range(ab \o d) = Range(ab) \cup Range(d)
    BY <2>2, RangeConcatenation
  <2>4. QED
    BY <2>1, <2>3 DEF ab
<1>3. /\ Increasing(a \o b) <=> Increasing(a) /\ Increasing(b) /\ Below(Range(a), Range(b))
      /\ Increasing(a \o b \o d) <=> Increasing(a \o b) /\ Increasing(d) /\ Below(Range(a \o b), Range(d))
  BY <1>1, IncreasingParts
<1>4. Below(Range(a \o b), Range(d)) <=> Below(Range(a), Range(d)) /\ Below(Range(b), Range(d))
  BY <1>2 DEF Below
<1>5. QED
  BY <1>1, <1>2, <1>3, <1>4

(* What is turned away leaves the line, wherever it waited.                *)
LEMMA TurnedAway ==
  ASSUME NEW a \in Seq(Nat), NEW b \in Seq(Nat), NEW d \in Seq(Nat),
         NEW N, NEW D, NEW s, Orderly(a \o b \o d, N, D, s)
  PROVE  /\ Orderly(a \o b \o <<>>, N, D \cup Range(d), s)
         /\ Orderly(a \o <<>> \o d, N, D \cup Range(b), s)
<1> DEFINE e == <<>>
<1>1. e \in Seq(Nat) /\ Range(e) = {} /\ Increasing(e)
  BY EmptySeq DEF Range, Increasing
<1> HIDE DEF e
<1>2. /\ Increasing(a) /\ Increasing(b) /\ Increasing(d)
      /\ Below(Range(a), Range(b)) /\ Below(Range(a), Range(d)) /\ Below(Range(b), Range(d))
      /\ Range(a \o b \o d) = Range(a) \cup Range(b) \cup Range(d)
  BY ThreeParts DEF Orderly
<1>3. /\ Below(Range(a) \cup Range(b) \cup Range(d), N)
      /\ Range(a) \cup Range(b) \cup Range(d) \cup N \cup D = 1 .. s
      /\ (Range(a) \cup Range(b) \cup Range(d) \cup N) \cap D = {}
  BY <1>2 DEF Orderly
<1>4. Range(a) \subseteq Nat /\ Range(b) \subseteq Nat /\ Range(d) \subseteq Nat
  BY Positions
<1>5. Range(d) \cap (Range(a) \cup Range(b) \cup N) = {} /\ Range(b) \cap (Range(a) \cup Range(d) \cup N) = {}
  BY <1>2, <1>3, <1>4 DEF Below
<1>6. \A S : Below(S, {}) /\ Below({}, S)
  BY DEF Below
<1>7. Orderly(a \o b \o e, N, D \cup Range(d), s)
  <2>1. Range(a \o b \o e) = Range(a) \cup Range(b) /\ Increasing(a \o b \o e)
    <3>1. Below(Range(a), Range(e)) /\ Below(Range(b), Range(e))
      BY <1>1, <1>6
    <3>2. Increasing(a \o b \o e)
      BY <1>1, <1>2, <3>1, ThreeParts
    <3>3. Range(a \o b \o e) = Range(a) \cup Range(b) \cup Range(e)
      BY <1>1, ThreeParts
    <3>4. QED
      BY <1>1, <3>2, <3>3
  <2>2. Below(Range(a) \cup Range(b), N)
    BY <1>3 DEF Below
  <2>3. /\ Range(a) \cup Range(b) \cup N \cup (D \cup Range(d)) = 1 .. s
        /\ (Range(a) \cup Range(b) \cup N) \cap (D \cup Range(d)) = {}
    BY <1>3, <1>5
  <2>4. QED
    BY <2>1, <2>2, <2>3 DEF Orderly
<1>8. Orderly(a \o e \o d, N, D \cup Range(b), s)
  <2>1. Range(a \o e \o d) = Range(a) \cup Range(d) /\ Increasing(a \o e \o d)
    <3>1. Below(Range(a), Range(e)) /\ Below(Range(e), Range(d))
      BY <1>1, <1>6
    <3>2. Increasing(a \o e \o d)
      BY <1>1, <1>2, <3>1, ThreeParts
    <3>3. Range(a \o e \o d) = Range(a) \cup Range(e) \cup Range(d)
      BY <1>1, ThreeParts
    <3>4. QED
      BY <1>1, <3>2, <3>3
  <2>2. Below(Range(a) \cup Range(d), N)
    BY <1>3 DEF Below
  <2>3. /\ Range(a) \cup Range(d) \cup N \cup (D \cup Range(b)) = 1 .. s
        /\ (Range(a) \cup Range(d) \cup N) \cap (D \cup Range(b)) = {}
    BY <1>3, <1>5
  <2>4. QED
    BY <2>1, <2>2, <2>3 DEF Orderly
<1>9. QED
  BY <1>7, <1>8 DEF e

(* The next message is taken from the mailbox.                             *)
LEMMA TakenUp ==
  ASSUME NEW line \in Seq(Nat), NEW n \in Nat, NEW M \in SUBSET Nat, NEW D, NEW s,
         Orderly(line, {n} \cup M, D, s), \A m \in M : n < m
  PROVE  Orderly(line \o <<n>>, M, D, s) /\ Orderly(line, M, D \cup {n}, s)
<1>1. /\ Increasing(line) /\ Below(Range(line), {n} \cup M)
      /\ Range(line) \cup ({n} \cup M) \cup D = 1 .. s
      /\ (Range(line) \cup ({n} \cup M)) \cap D = {}
  BY DEF Orderly
<1>2. Range(line) \subseteq Nat
  BY Positions
<1>3. Below(Range(line), {n}) /\ Below(Range(line), M) /\ n \notin M /\ n \notin Range(line)
  BY <1>1, <1>2 DEF Below
<1> DEFINE l == <<n>>
<1>4. l \in Seq(Nat) /\ Range(l) = {n} /\ Increasing(l)
  BY DEF Range, Increasing
<1> HIDE DEF l
<1>5. Range(line \o l) = Range(line) \cup {n} /\ Increasing(line \o l)
  <2>1. Increasing(line \o l)
    BY <1>1, <1>3, <1>4, IncreasingParts, ZenonT(60)
  <2>2. Range(line \o l) = Range(line) \cup Range(l)
    BY <1>4, RangeConcatenation
  <2>3. QED
    BY <1>4, <2>1, <2>2
<1>6. Below(Range(line) \cup {n}, M)
  BY <1>3 DEF Below
<1>7. Orderly(line \o l, M, D, s)
  <2>1. /\ Range(line) \cup {n} \cup M \cup D = 1 .. s
        /\ (Range(line) \cup {n} \cup M) \cap D = {}
    BY <1>1
  <2>2. QED
    BY <1>5, <1>6, <2>1 DEF Orderly
<1>8. Orderly(line, M, D \cup {n}, s)
  <2>1. /\ Range(line) \cup M \cup (D \cup {n}) = 1 .. s
        /\ (Range(line) \cup M) \cap (D \cup {n}) = {}
    BY <1>1, <1>3
  <2>2. QED
    BY <1>1, <1>3, <2>1 DEF Orderly
<1>9. QED
  BY <1>7, <1>8 DEF l

(* A message comes in.                                                     *)
LEMMA ComesIn ==
  ASSUME NEW line, NEW N, NEW D, NEW s \in Nat, Orderly(line, N, D, s)
  PROVE  Orderly(line, N \cup {s + 1}, D, s + 1) /\ \A m \in N : m \in Nat /\ m < s + 1
<1>1. /\ Increasing(line) /\ Below(Range(line), N) /\ Range(line) \cup N \cup D = 1 .. s
      /\ (Range(line) \cup N) \cap D = {}
  BY DEF Orderly
<1>2. 1 .. (s + 1) = (1 .. s) \cup {s + 1} /\ s + 1 \notin 1 .. s /\ \A m \in 1 .. s : m \in Nat /\ m < s + 1
  OBVIOUS
<1>3. Below(Range(line), N \cup {s + 1})
  BY <1>1, <1>2 DEF Below
<1>4. /\ Range(line) \cup (N \cup {s + 1}) \cup D = 1 .. (s + 1)
      /\ (Range(line) \cup (N \cup {s + 1})) \cap D = {}
  BY <1>1, <1>2
<1>5. QED
  BY <1>1, <1>2, <1>3, <1>4 DEF Orderly

LEMMA SyncsAdded ==
  ASSUME NEW c \in Conn, NEW q \in Seq(Task), NEW t \in Seq(Task), Syncs(t, c) = {}
  PROVE  /\ Syncs(q \o t, c) = Syncs(q, c) /\ Numbers(q \o t, c) = Numbers(q, c)
         /\ InLine(q, c) => InLine(q \o t, c)
         /\ Announced(q, c) /\ (~Has(t, New(c)) \/ Syncs(q, c) = {}) => Announced(q \o t, c)
<1> DEFINE r == q \o t
           k == Len(q)
           e == New(c)
<1>1. Len(r) = k + Len(t) /\ k = Len(q) /\ k \in Nat /\ Len(t) \in Nat
  BY ConcatProperties, LenProperties
<1>2. \A i \in 1 .. Len(r) : \/ i \in 1 .. Len(q) /\ r[i] = q[i]
                             \/ i - k \in 1 .. Len(t) /\ r[i] = t[i - k] /\ i > k
  BY Halves
<1>3. \A i \in 1 .. Len(r) : r[i] = IF i <= k THEN q[i] ELSE t[i - k]
  BY ConcatProperties
<1> HIDE DEF r, k, e
<1>4. \A i \in 1 .. k : i \in 1 .. Len(r) /\ r[i] = q[i]
  BY <1>1, <1>3
<1>5. Syncs(r, c) = Syncs(q, c) /\ \A i \in Syncs(q, c) : r[i] = q[i] /\ i \in 1 .. k
  <2>1. \A i \in 1 .. Len(t) : ~(t[i].kind = "sync" /\ t[i].conn = c)
    BY DEF Syncs
  <2>2. \A i \in Syncs(r, c) : i \in Syncs(q, c)
    BY <1>2, <2>1 DEF Syncs
  <2>3. \A i \in Syncs(q, c) : i \in Syncs(r, c) /\ r[i] = q[i] /\ i \in 1 .. k
    BY <1>1, <1>4 DEF Syncs
  <2>4. QED
    BY <2>2, <2>3
<1>6. Numbers(r, c) = Numbers(q, c)
  BY <1>5 DEF Numbers
<1>7. InLine(q, c) => InLine(r, c)
  BY <1>5 DEF InLine
<1>8. ASSUME Announced(q, c), ~Has(t, e) \/ Syncs(q, c) = {} PROVE Announced(r, c)
  <2> SUFFICES ASSUME NEW i \in 1 .. Len(r), NEW j \in Syncs(q, c), r[i] = e PROVE i < j
    BY <1>5 DEF Announced, e
  <2>1. i \in 1 .. Len(q) /\ r[i] = q[i]
    BY <1>2, <1>8 DEF Has
  <2>2. QED
    BY <1>8, <2>1 DEF Announced, e
<1>9. QED
  BY <1>5, <1>6, <1>7, <1>8 DEF r, e

LEMMA SyncAdded ==
  ASSUME NEW c \in Conn, NEW q \in Seq(Task), NEW n \in Nat
  PROVE  LET r == Append(q, Sync(c, n))
         IN  /\ Numbers(r, c) = Numbers(q, c) \cup {n}
             /\ InLine(q, c) /\ (\A m \in Numbers(q, c) : m < n) => InLine(r, c)
             /\ Announced(q, c) => Announced(r, c)
<1> DEFINE x == Sync(c, n)
           r == Append(q, x)
           k == Len(q) + 1
           e == New(c)
<1>1. x \in Task /\ x.kind = "sync" /\ x.conn = c /\ x.n = n /\ e.kind = "new"
  BY DEF Sync, Task, New
<1>2. x # e
  BY <1>1
<1> HIDE DEF x, e
<1>3. /\ Len(r) = k /\ Len(q) \in Nat /\ k = Len(q) + 1
      /\ \A i \in 1 .. Len(q) : r[i] = q[i]
      /\ r[k] = x
  BY <1>1, AppendProperties, LenProperties
<1> HIDE DEF r, k
<1>4. \A i \in 1 .. Len(r) : (i \in 1 .. Len(q) /\ i < k) \/ i = k
  BY <1>3
<1>5. Syncs(r, c) = Syncs(q, c) \cup {k} /\ \A i \in Syncs(q, c) : i \in 1 .. Len(q) /\ r[i] = q[i] /\ i < k
  BY <1>1, <1>3, <1>4 DEF Syncs
<1>6. Numbers(r, c) = Numbers(q, c) \cup {n}
  BY <1>1, <1>3, <1>5 DEF Numbers
<1>7. ASSUME InLine(q, c), \A m \in Numbers(q, c) : m < n PROVE InLine(r, c)
  <2> SUFFICES ASSUME NEW i \in Syncs(r, c), NEW j \in Syncs(r, c), i < j PROVE r[i].n < r[j].n
    BY DEF InLine
  <2>1. k \in Nat /\ ~(k < k) /\ \A j1 \in Syncs(q, c) : ~(k < j1)
    BY <1>3, <1>5
  <2>2. i \in Syncs(q, c)
    BY <1>5, <2>1
  <2>3. CASE j \in Syncs(q, c)
    BY <1>5, <1>7, <2>2, <2>3 DEF InLine
  <2>4. CASE j = k
    <3>1. r[i].n \in Numbers(q, c)
      BY <1>5, <2>2 DEF Numbers
    <3>2. QED
      BY <1>1, <1>3, <1>7, <2>4, <3>1
  <2>5. QED
    BY <1>5, <2>3, <2>4
<1>8. ASSUME Announced(q, c) PROVE Announced(r, c)
  <2> SUFFICES ASSUME NEW i \in 1 .. Len(r), NEW j \in Syncs(r, c), r[i] = e PROVE i < j
    BY DEF Announced, e
  <2>1. i \in 1 .. Len(q) /\ i < k /\ q[i] = e
    BY <1>2, <1>3, <1>4
  <2>2. QED
    BY <1>5, <1>8, <2>1 DEF Announced, e
<1>9. QED
  BY <1>6, <1>7, <1>8 DEF r, x

LEMMA SyncsTaken ==
  ASSUME NEW c \in Conn, NEW q \in Seq(Task), q # <<>>
  PROVE  LET x == Head(q)
             r == Tail(q)
             isSync == x.kind = "sync" /\ x.conn = c
         IN  /\ ~isSync => Numbers(r, c) = Numbers(q, c)
             /\ isSync => Numbers(q, c) = {x.n} \cup Numbers(r, c)
             /\ isSync /\ InLine(q, c) => \A m \in Numbers(r, c) : x.n < m
             /\ isSync /\ Announced(q, c) => ~Has(q, New(c))
             /\ InLine(q, c) => InLine(r, c)
             /\ Announced(q, c) => Announced(r, c)
             /\ Syncs(q, c) = {} => Syncs(r, c) = {}
<1> DEFINE r == Tail(q)
           x == Head(q)
           e == New(c)
<1>1. /\ Len(r) = Len(q) - 1 /\ Len(q) \in Nat /\ Len(q) > 0 /\ x = q[1]
      /\ \A i \in 1 .. Len(r) : r[i] = q[i + 1]
  BY HeadTailProperties, LenProperties, EmptySeq
<1> HIDE DEF r, x, e
<1>2. /\ 1 \in 1 .. Len(q)
      /\ \A i \in 1 .. Len(r) : i + 1 \in 1 .. Len(q) /\ 1 < i + 1
      /\ \A i \in 1 .. Len(q) : i = 1 \/ (i - 1 \in 1 .. Len(r) /\ q[i] = r[i - 1])
  <2>1. ASSUME NEW i \in 1 .. Len(q), i # 1 PROVE i - 1 \in 1 .. Len(r) /\ q[i] = r[i - 1]
    <3>1. i - 1 \in 1 .. Len(r) /\ (i - 1) + 1 = i
      BY <1>1, <2>1
    <3>2. r[i - 1] = q[(i - 1) + 1]
      BY <1>1, <3>1
    <3>3. QED
      BY <3>1, <3>2
  <2>2. QED
    BY <1>1, <2>1
<1>3. /\ \A i \in Syncs(r, c) : i + 1 \in Syncs(q, c) /\ r[i] = q[i + 1] /\ i \in 1 .. Len(r)
      /\ \A i \in Syncs(q, c) : i = 1 \/ (i - 1 \in Syncs(r, c) /\ q[i] = r[i - 1])
      /\ 1 \in Syncs(q, c) <=> x.kind = "sync" /\ x.conn = c
  BY <1>1, <1>2 DEF Syncs
<1>4. \A m : m \in Numbers(q, c) <=> m \in Numbers(r, c) \/ (1 \in Syncs(q, c) /\ m = x.n)
  <2>1. ASSUME NEW i \in Syncs(q, c)
        PROVE  q[i].n \in Numbers(r, c) \/ (1 \in Syncs(q, c) /\ q[i].n = x.n)
    BY <1>1, <1>3 DEF Numbers
  <2>2. ASSUME NEW i \in Syncs(r, c) PROVE r[i].n \in Numbers(q, c)
    BY <1>3 DEF Numbers
  <2>3. 1 \in Syncs(q, c) => x.n \in Numbers(q, c)
    BY <1>1 DEF Numbers
  <2>4. QED
    BY <2>1, <2>2, <2>3 DEF Numbers
<1>5. ASSUME InLine(q, c) PROVE InLine(r, c)
  <2> SUFFICES ASSUME NEW i \in Syncs(r, c), NEW j \in Syncs(r, c), i < j PROVE r[i].n < r[j].n
    BY DEF InLine
  <2>1. i + 1 < j + 1
    BY <1>3
  <2>2. QED
    BY <1>3, <1>5, <2>1 DEF InLine
<1>6. ASSUME InLine(q, c), 1 \in Syncs(q, c), NEW m \in Numbers(r, c) PROVE x.n < m
  <2>1. PICK i \in Syncs(r, c) : m = r[i].n
    BY DEF Numbers
  <2>2. 1 < i + 1 /\ i + 1 \in Syncs(q, c) /\ m = q[i + 1].n
    BY <1>2, <1>3, <2>1
  <2>3. QED
    BY <1>1, <1>6, <2>2 DEF InLine
<1>7. ASSUME Announced(q, c), 1 \in Syncs(q, c) PROVE ~Has(q, e)
  <2> SUFFICES ASSUME NEW i \in 1 .. Len(q), q[i] = e PROVE FALSE
    BY DEF Has
  <2>1. i < 1
    BY <1>7 DEF Announced, e
  <2>2. QED
    BY <2>1
<1>8. ASSUME Announced(q, c) PROVE Announced(r, c)
  <2> SUFFICES ASSUME NEW i \in 1 .. Len(r), NEW j \in Syncs(r, c), r[i] = e PROVE i < j
    BY DEF Announced, e
  <2>1. i + 1 < j + 1
    BY <1>1, <1>2, <1>3, <1>8 DEF Announced, e
  <2>2. QED
    BY <1>3, <2>1
<1>9. Syncs(q, c) = {} => Syncs(r, c) = {}
  BY <1>3
<1>10. QED
  BY <1>3, <1>4, <1>5, <1>6, <1>7, <1>8, <1>9 DEF r, x, e

LEMMA Regrouped ==
  ASSUME NEW a \in Seq(Nat), NEW b \in Seq(Nat), NEW d \in Seq(Nat)
  PROVE  /\ (a \o d) \o <<>> \o <<>> = a \o <<>> \o d
         /\ a \o (b \o d) \o <<>> = a \o b \o d
         /\ (a \o b) \o <<>> \o d = a \o b \o d
<1> DEFINE e == <<>>
<1>1. e \in Seq(Nat) /\ \A q \in Seq(Nat) : q \o e = q /\ e \o q = q
  BY EmptySeq, ConcatEmptySeq
<1> HIDE DEF e
<1>2. a \o b \in Seq(Nat) /\ a \o d \in Seq(Nat) /\ b \o d \in Seq(Nat) /\ a \o (b \o d) \in Seq(Nat)
  <2>1. \A x, y \in Seq(Nat) : x \o y \in Seq(Nat)
    BY ConcatProperties
  <2>2. QED
    BY <2>1
<1>3. (a \o b) \o d = a \o (b \o d)
  BY NumbersAssociate, Zenon
<1>4. (a \o d) \o e \o e = a \o e \o d
  BY <1>1, <1>2
<1>5. a \o (b \o d) \o e = a \o b \o d
  BY <1>1, <1>2, <1>3
<1>6. (a \o b) \o e \o d = a \o b \o d
  BY <1>1, <1>2
<1>7. QED
  BY <1>4, <1>5, <1>6 DEF e

----------------------------------------------------------------------------
(* A connection's messages.  Until it is announced there are none; until   *)
(* the actor knows it they are all in the mailbox; from then on the line   *)
(* is what was received, what is parked and what waits for a decision.     *)
Line(c) == received[c] \o parked[c] \o pending[c]
Blank(c) == received[c] = <<>> /\ parked[c] = <<>> /\ pending[c] = <<>> /\ denied[c] = {}

Queued(c) ==
    /\ hub[c] = "Unused" \/ ~spawned => Blank(c) /\ sent[c] = 0 /\ Syncs(mailbox, c) = {}
    /\ Has(mailbox, New(c)) => Blank(c)
    /\ Announced(mailbox, c)
    /\ policy[c] # "Absent" \/ Has(mailbox, New(c)) =>
         /\ Orderly(Line(c), Numbers(mailbox, c), denied[c], sent[c])
         /\ InLine(mailbox, c)
    /\ ready => parked[c] = <<>>
    /\ policy[c] = "Ready" => pending[c] = <<>>

Lines == \A c \in Conn : Queued(c)

LEMMA LineTypes ==
  ASSUME TypeOK, NEW c \in Conn
  PROVE  /\ received[c] \in Seq(Nat) /\ parked[c] \in Seq(Nat) /\ pending[c] \in Seq(Nat)
         /\ Line(c) \in Seq(Nat) /\ sent[c] \in Nat /\ mailbox \in Seq(Task)
<1>1. /\ received[c] \in Seq(Nat) /\ parked[c] \in Seq(Nat) /\ pending[c] \in Seq(Nat)
      /\ sent[c] \in Nat /\ mailbox \in Seq(Task)
  BY DEF TypeOK
<1>2. QED
  BY <1>1, ThreeParts DEF Line

LEMMA LineGrows ==
  ASSUME TypeOK, NEW c \in Conn, NEW n \in Nat, pending'[c] = Append(pending[c], n),
         received'[c] = received[c], parked'[c] = parked[c]
  PROVE  Line(c)' = Line(c) \o <<n>>
<1> DEFINE p == received[c] \o parked[c]
           q == pending[c]
           l == <<n>>
<1>1. p \in Seq(Nat) /\ q \in Seq(Nat) /\ l \in Seq(Nat)
  BY LineTypes, ConcatProperties
<1>2. Line(c) = p \o q /\ Line(c)' = p \o Append(q, n)
  BY DEF Line
<1> HIDE DEF p, q
<1>3. Append(q, n) = q \o <<n>>
  BY <1>1, AppendIsConcat, Zenon
<1>4. Line(c)' = p \o (q \o l)
  BY <1>2, <1>3
<1> HIDE DEF l
<1>5. (p \o q) \o l = p \o (q \o l)
  BY <1>1, NumbersAssociate, Zenon
<1>6. Line(c)' = Line(c) \o l
  BY <1>2, <1>4, <1>5
<1>7. QED
  BY <1>6 DEF l

(* The mailbox grows by tasks that are not about this connection's         *)
(* messages.                                                               *)
LEMMA QueuedStays ==
  ASSUME TypeOK, NEW c \in Conn, NEW t \in Seq(Task), Queued(c),
         mailbox' = mailbox \o t, Syncs(t, c) = {}, ~Has(t, New(c)),
         received'[c] = received[c], parked'[c] = parked[c], pending'[c] = pending[c],
         denied'[c] = denied[c], sent'[c] = sent[c], policy'[c] = policy[c], ready' = ready,
         hub'[c] = "Unused" \/ ~spawned' => hub[c] = "Unused" \/ ~spawned
  PROVE  Queued(c)'
<1>1. mailbox \in Seq(Task)
  BY DEF TypeOK
<1>2. /\ Syncs(mailbox', c) = Syncs(mailbox, c) /\ Numbers(mailbox', c) = Numbers(mailbox, c)
      /\ InLine(mailbox, c) => InLine(mailbox', c)
      /\ Announced(mailbox, c) => Announced(mailbox', c)
  BY <1>1, SyncsAdded
<1>3. Has(mailbox', New(c)) => Has(mailbox, New(c))
  BY <1>1, Joined
<1>4. New(c)' = New(c) /\ (Blank(c) => Blank(c)') /\ Line(c)' = Line(c)
  BY DEF New, Blank, Line
<1>5. QED
  BY <1>2, <1>3, <1>4 DEF Queued

LEMMA QueuedStaysPut ==
  ASSUME TypeOK, NEW c \in Conn, Queued(c), UNCHANGED mailbox,
         received'[c] = received[c], parked'[c] = parked[c], pending'[c] = pending[c],
         denied'[c] = denied[c], sent'[c] = sent[c], policy'[c] = policy[c], ready' = ready,
         hub'[c] = "Unused" \/ ~spawned' => hub[c] = "Unused" \/ ~spawned
  PROVE  Queued(c)'
<1>1. New(c)' = New(c) /\ (Blank(c) => Blank(c)') /\ Line(c)' = Line(c)
  BY DEF New, Blank, Line
<1>2. QED
  BY <1>1 DEF Queued

LEMMA OneTask ==
  ASSUME NEW t \in Task, NEW c \in Conn
  PROVE  /\ <<t>> \in Seq(Task)
         /\ ~(t.kind = "sync" /\ t.conn = c) => Syncs(<<t>>, c) = {}
         /\ Has(<<t>>, New(c)) <=> t = New(c)
<1> DEFINE q == <<t>>
<1>1. q \in Seq(Task) /\ Len(q) = 1 /\ q[1] = t
  OBVIOUS
<1> HIDE DEF q
<1>2. QED
  BY <1>1 DEF Syncs, Has, q

(* The hub: an established connection is announced before its messages.    *)
News(order) == [i \in DOMAIN order |-> New(order[i])]

LEMMA NewsSyncs ==
  ASSUME NEW S \in SUBSET Conn, NEW order \in SetToSeqs(S), NEW c \in Conn
  PROVE  /\ News(order) \in Seq(Task) /\ Syncs(News(order), c) = {}
         /\ Has(News(order), New(c)) => c \in S
         /\ S = {} => News(order) = <<>>
<1> DEFINE news == News(order)
<1>1. /\ news \in Seq(Task) /\ Len(news) = Len(order)
      /\ \A i \in 1 .. Len(order) : news[i] = New(order[i]) /\ order[i] \in S
  BY NewTasks DEF News
<1> HIDE DEF news
<1>2. Syncs(news, c) = {}
  <2>1. \A x : New(x).kind = "new"
    BY DEF New
  <2>2. QED
    BY <1>1, <2>1 DEF Syncs
<1>3. Has(news, New(c)) => c \in S
  BY <1>1, TasksDiffer DEF Has
<1>4. S = {} => news = <<>>
  <2> SUFFICES ASSUME S = {} PROVE news = <<>>
    OBVIOUS
  <2>1. Len(news) \in Nat /\ \A i \in 1 .. Len(news) : FALSE
    BY <1>1, LenProperties
  <2>2. Len(news) = 0
    BY <2>1
  <2>3. QED
    BY <1>1, <2>2, EmptySeq
<1>5. QED
  BY <1>1, <1>2, <1>3, <1>4 DEF news

LEMMA SpawnLines ==
  ASSUME TypeOK, Routed, Lines, NEW pend, Spawn(pend), NEW c \in Conn,
         \/ pend[c] = <<>> /\ sent'[c] = sent[c]
         \/ hub[c] = "Open" /\ pend[c] = <<sent[c] + 1>> /\ sent'[c] = sent[c] + 1
  PROVE  Queued(c)'
<1>1. /\ ~spawned /\ spawned' = TRUE /\ UNCHANGED <<hub, ready, version, received, parked, denied>>
      /\ EnsureConnections(Open, SubscribedAtSpawn, mailbox)
      /\ policy' = [d \in Conn |-> IF d \in Open THEN "Loading" ELSE "Absent"]
      /\ pending' = pend
  BY DEF Spawn, msgVars
<1>2. Open \ SubscribedAtSpawn = {} /\ mailbox \in Seq(Task) /\ sent[c] \in Nat
  BY DEF SubscribedAtSpawn, TypeOK
<1> DEFINE missing == Open \ SubscribedAtSpawn
<1>3. PICK order \in SetToSeqs(missing) : mailbox' = mailbox \o News(order)
  BY <1>1 DEF EnsureConnections, News
<1>4. News(order) = <<>>
  <2>1. missing \in SUBSET Conn /\ missing = {}
    BY <1>2
  <2> HIDE DEF missing
  <2>2. QED
    BY <1>3, <2>1, NewsSyncs
<1>5. mailbox' = mailbox
  BY <1>2, <1>3, <1>4, ConcatEmptySeq
<1>6. Queued(c) /\ Blank(c) /\ sent[c] = 0 /\ Syncs(mailbox, c) = {}
  BY <1>1 DEF Lines, Queued
<1>7. ~Has(mailbox', New(c)) /\ New(c)' = New(c)
  <2>1. Route(c) /\ New(c)' = New(c)
    BY DEF Routed, New
  <2>2. QED
    BY <1>1, <1>5, <2>1 DEF Route
<1>8. Syncs(mailbox', c) = {} /\ Numbers(mailbox', c) = {} /\ InLine(mailbox', c) /\ Announced(mailbox', c)
  BY <1>5, <1>6 DEF Numbers, InLine, Announced
<1>9. received'[c] = <<>> /\ parked'[c] = <<>> /\ denied'[c] = {}
  BY <1>1, <1>6 DEF Blank
<1>10. CASE pend[c] = <<>> /\ sent'[c] = sent[c]
  <2>1. Blank(c)' /\ sent'[c] = 0 /\ pending'[c] = <<>>
    BY <1>1, <1>6, <1>9, <1>10 DEF Blank
  <2>2. Line(c)' = <<>>
    <3>1. <<>> \in Seq(Nat) /\ <<>> \o <<>> = <<>>
      BY EmptySeq, ConcatEmptySeq
    <3>2. Line(c)' = <<>> \o <<>> \o <<>>
      BY <1>9, <2>1 DEF Line
    <3>3. QED
      BY <3>1, <3>2, Zenon
  <2>3. Orderly(<<>>, {}, {}, 0)
    BY DEF Orderly, Increasing, Below, Range
  <2>4. QED
    BY <1>7, <1>8, <1>9, <2>1, <2>2, <2>3 DEF Queued
<1>11. CASE hub[c] = "Open" /\ pend[c] = <<sent[c] + 1>> /\ sent'[c] = sent[c] + 1
  <2>1. pending'[c] = <<1>> /\ sent'[c] = 1 /\ hub'[c] = "Open" /\ policy'[c] = "Loading"
    BY <1>1, <1>6, <1>11 DEF Open
  <2>2. Line(c)' = <<1>>
    <3>1. <<1>> \in Seq(Nat) /\ <<>> \in Seq(Nat)
      BY EmptySeq
    <3>2. QED
      BY <1>9, <2>1, <3>1, ConcatEmptySeq DEF Line
  <2>3. Orderly(<<1>>, {}, {}, 1)
    <3> DEFINE l == <<1>>
    <3>1. DOMAIN l = {1} /\ l[1] = 1
      OBVIOUS
    <3> HIDE DEF l
    <3>2. Range(l) = {1} /\ Increasing(l)
      BY <3>1 DEF Range, Increasing
    <3>3. Orderly(l, {}, {}, 1)
      BY <3>2 DEF Orderly, Below
    <3>4. QED
      BY <3>3 DEF l
  <2>4. QED
    BY <1>1, <1>7, <1>8, <1>9, <2>1, <2>2, <2>3 DEF Queued
<1>12. QED
  BY <1>10, <1>11

LEMMA LinesOfHub ==
  ASSUME TypeOK, Routed, Lines,
         \/ \E c \in Conn : Establish(c) \/ Lose(c) \/ Receive(c)
         \/ Disconnect \/ OpenDocument
  PROVE  Lines'
<1> SUFFICES ASSUME NEW c \in Conn PROVE Queued(c)'
  BY DEF Lines
<1>0. Queued(c) /\ mailbox \in Seq(Task) /\ sent[c] \in Nat
  BY DEF Lines, TypeOK
<1>1. ASSUME UNCHANGED <<received, parked, pending, denied, sent, policy, ready>>,
             hub'[c] = "Unused" \/ ~spawned' => hub[c] = "Unused" \/ ~spawned,
             \/ UNCHANGED mailbox
             \/ \E t \in Task : /\ mailbox' = Append(mailbox, t)
                                /\ ~(t.kind = "sync" /\ t.conn = c) /\ t # New(c)
      PROVE  Queued(c)'
  <2>1. CASE UNCHANGED mailbox
    BY <1>0, <1>1, <2>1, QueuedStaysPut
  <2>2. ASSUME NEW t \in Task, mailbox' = Append(mailbox, t),
               ~(t.kind = "sync" /\ t.conn = c), t # New(c)
        PROVE  Queued(c)'
    <3>1. mailbox' = mailbox \o <<t>>
      BY <1>0, <2>2, AppendIsConcat
    <3>2. <<t>> \in Seq(Task) /\ Syncs(<<t>>, c) = {} /\ ~Has(<<t>>, New(c))
      BY <2>2, OneTask
    <3> DEFINE q == <<t>>
    <3>3. q \in Seq(Task) /\ Syncs(q, c) = {} /\ ~Has(q, New(c)) /\ mailbox' = mailbox \o q
      BY <3>1, <3>2
    <3> HIDE DEF q
    <3>4. QED
      BY <1>0, <1>1, <3>3, QueuedStays
  <2>3. QED
    BY <1>1, <2>1, <2>2
<1>2. ASSUME NEW d \in Conn, RemoveFromHub(d), UNCHANGED <<actorVars, sent>> PROVE Queued(c)'
  <2>1. Closed(d) \in Task /\ Closed(d).kind = "closed" /\ Closed(d) # New(c)
    BY TasksDiffer DEF Closed, Task
  <2>2. mailbox' = Append(mailbox, Closed(d)) \/ UNCHANGED mailbox
    BY <1>2 DEF RemoveFromHub
  <2>3. hub'[c] = "Unused" \/ ~spawned' => hub[c] = "Unused" \/ ~spawned
    BY <1>2 DEF RemoveFromHub, TypeOK
  <2>4. UNCHANGED <<received, parked, pending, denied, sent, policy, ready>>
    BY <1>2 DEF actorVars, connVars, msgVars
  <2>5. QED
    BY <1>1, <2>1, <2>2, <2>3, <2>4
<1>3. ASSUME NEW d \in Conn, Lose(d) PROVE Queued(c)'
  BY <1>2, <1>3 DEF Lose
<1>4. CASE Disconnect
  <2>1. Head(toHub) \in Conn /\ UNCHANGED <<actorVars, sent>>
    BY <1>4, HeadTailProperties DEF Disconnect, TypeOK
  <2>2. CASE Head(toHub) \in Open
    BY <1>2, <1>4, <2>1, <2>2 DEF Disconnect
  <2>3. CASE Head(toHub) \notin Open
    <3>1. UNCHANGED <<hub, spawned, mailbox>>
      BY <1>4, <2>3 DEF Disconnect, hubVars
    <3>2. UNCHANGED <<received, parked, pending, denied, sent, policy, ready>>
      BY <2>1 DEF actorVars, connVars, msgVars
    <3>3. QED
      BY <1>1, <3>1, <3>2
  <2>4. QED
    BY <2>2, <2>3
<1>5. CASE OpenDocument
  <2>1. Spawn(pending) /\ sent' = sent /\ ~spawned
    BY <1>5 DEF OpenDocument, Spawn
  <2>2. pending[c] = <<>>
    BY <1>0, <2>1 DEF Queued, Blank
  <2>3. QED
    BY <2>1, <2>2, SpawnLines
<1>6. ASSUME NEW d \in Conn, Establish(d) PROVE Queued(c)'
  <2>1. /\ hub[d] = "Unused" /\ hub' = [hub EXCEPT ![d] = "Open"] /\ spawned' = spawned
        /\ UNCHANGED <<received, parked, pending, denied, sent, policy, ready>>
    BY <1>6 DEF Establish, actorVars, connVars, msgVars
  <2>2. CASE ~spawned
    <3>1. UNCHANGED mailbox
      BY <1>6, <2>2 DEF Establish
    <3>2. QED
      BY <1>1, <2>1, <2>2, <3>1
  <2>3. CASE spawned
    <3> DEFINE missing == (Open \cup {d}) \ subscribed
    <3>1. missing = {d}
      <4>1. \A x \in Conn : x \in subscribed <=> hub[x] = "Open"
        BY <2>3 DEF Routed, Route
      <4>2. d \notin subscribed
        BY <2>1, <4>1
      <4>3. QED
        BY <4>1, <4>2 DEF Open
    <3>2. PICK order \in SetToSeqs(missing) : mailbox' = mailbox \o News(order)
      BY <1>6, <2>3 DEF Establish, EnsureConnections, News
    <3>3. /\ News(order) \in Seq(Task) /\ Syncs(News(order), c) = {}
          /\ Has(News(order), New(c)) => c = d
      <4>1. missing \in SUBSET Conn /\ (c \in missing => c = d)
        BY <3>1
      <4> HIDE DEF missing
      <4>2. QED
        BY <3>2, <4>1, NewsSyncs
    <3> HIDE DEF missing
    <3>4. CASE c # d
      <4>1. hub'[c] = hub[c]
        BY <2>1, <3>4 DEF TypeOK
      <4>2. QED
        BY <1>0, <2>1, <3>2, <3>3, <3>4, <4>1, QueuedStays
    <3>5. CASE c = d
      <4>1. Blank(c) /\ sent[c] = 0 /\ Syncs(mailbox, c) = {} /\ hub'[c] = "Open"
        BY <1>0, <2>1, <3>5 DEF Queued, TypeOK
      <4>2. /\ Syncs(mailbox', c) = {} /\ Numbers(mailbox', c) = Numbers(mailbox, c)
            /\ Announced(mailbox, c) => Announced(mailbox', c)
        BY <1>0, <3>2, <3>3, <4>1, SyncsAdded
      <4>3. Numbers(mailbox', c) = {} /\ InLine(mailbox', c)
        BY <4>2 DEF Numbers, InLine
      <4>4. Blank(c)' /\ Line(c)' = Line(c)
        BY <2>1, <4>1 DEF Blank, Line
      <4>5. Line(c) = <<>>
        <5>1. <<>> \in Seq(Nat) /\ <<>> \o <<>> = <<>>
          BY EmptySeq, ConcatEmptySeq
        <5>2. Line(c) = <<>> \o <<>> \o <<>>
          BY <4>1 DEF Blank, Line
        <5>3. QED
          BY <5>1, <5>2, Zenon
      <4>6. Orderly(<<>>, {}, {}, 0)
        BY DEF Orderly, Increasing, Below, Range
      <4>7. denied'[c] = {} /\ sent'[c] = 0 /\ Announced(mailbox', c)
        BY <1>0, <2>1, <4>1, <4>2, <4>4 DEF Blank, Queued
      <4>8. Orderly(Line(c)', Numbers(mailbox', c), denied'[c], sent'[c])
        BY <4>3, <4>4, <4>5, <4>6, <4>7
      <4>9. (ready' => parked'[c] = <<>>) /\ (policy'[c] = "Ready" => pending'[c] = <<>>)
        BY <4>4 DEF Blank
      <4>10. QED
        BY <2>1, <2>3, <4>1, <4>3, <4>4, <4>7, <4>8, <4>9 DEF Queued
    <3>6. QED
      BY <3>4, <3>5
  <2>4. QED
    BY <2>2, <2>3
<1>7. ASSUME NEW d \in Conn, Receive(d) PROVE Queued(c)'
  <2>1. hub[d] = "Open" /\ sent' = [sent EXCEPT ![d] = @ + 1] /\ sent[d] \in Nat
    BY <1>7 DEF Receive, TypeOK
  <2>2. sent'[d] = sent[d] + 1 /\ (c # d => sent'[c] = sent[c])
    BY <2>1 DEF TypeOK
  <2>3. CASE Spawn([pending EXCEPT ![d] = <<sent'[d]>>])
    <3> DEFINE pend == [pending EXCEPT ![d] = <<sent'[d]>>]
    <3>1. Spawn(pend) /\ ~spawned
      BY <2>3 DEF Spawn
    <3>2. \/ pend[c] = <<>> /\ sent'[c] = sent[c]
          \/ hub[c] = "Open" /\ pend[c] = <<sent[c] + 1>> /\ sent'[c] = sent[c] + 1
      BY <1>0, <2>1, <2>2, <3>1 DEF Queued, Blank, TypeOK
    <3> HIDE DEF pend
    <3>3. QED
      BY <3>1, <3>2, SpawnLines
  <2>4. CASE /\ spawned /\ mailbox' = Append(mailbox, Sync(d, sent'[d]))
             /\ UNCHANGED <<hubVars, toHub, actorVars, io, ioVars>>
    <3>1. UNCHANGED <<received, parked, pending, denied, policy, ready, hub, spawned>>
      BY <2>4 DEF hubVars, actorVars, connVars, msgVars
    <3>2. CASE c # d
      <4>1. Sync(d, sent'[d]) \in Task /\ Sync(d, sent'[d]).conn = d /\ Sync(d, sent'[d]) # New(c)
        BY <2>1, <2>2, TasksDiffer DEF Sync, Task
      <4> DEFINE t == Sync(d, sent'[d])
                 q == <<t>>
      <4>2. t \in Task /\ t.conn = d /\ t # New(c) /\ mailbox' = Append(mailbox, t)
        BY <2>4, <4>1
      <4> HIDE DEF t
      <4>3. q \in Seq(Task) /\ Syncs(q, c) = {} /\ ~Has(q, New(c)) /\ mailbox' = mailbox \o q
        BY <1>0, <3>2, <4>2, OneTask, AppendIsConcat
      <4> HIDE DEF q
      <4>4. QED
        BY <1>0, <2>2, <3>1, <3>2, <4>3, QueuedStays
    <3>3. CASE c = d
      <4> DEFINE n == sent[c] + 1
      <4>1. n \in Nat /\ sent'[c] = n /\ mailbox' = Append(mailbox, Sync(c, n))
        BY <2>2, <2>4, <3>3, <1>0
      <4>2. /\ Numbers(mailbox', c) = Numbers(mailbox, c) \cup {n}
            /\ InLine(mailbox, c) /\ (\A m \in Numbers(mailbox, c) : m < n) => InLine(mailbox', c)
            /\ Announced(mailbox, c) => Announced(mailbox', c)
        <5> HIDE DEF n
        <5>1. QED
          BY <1>0, <4>1, SyncAdded
      <4>3. Has(mailbox', New(c)) <=> Has(mailbox, New(c))
        <5> HIDE DEF n
        <5> DEFINE t == Sync(c, n)
        <5>1. t \in Task /\ t # New(c) /\ mailbox' = Append(mailbox, t)
          BY <4>1, TasksDiffer DEF Sync, Task
        <5> HIDE DEF t
        <5>2. QED
          BY <1>0, <5>1, AtTheEnd
      <4>4. New(c)' = New(c) /\ (Blank(c) => Blank(c)') /\ Line(c)' = Line(c)
        BY <3>1 DEF New, Blank, Line
      <4>5. ASSUME policy[c] # "Absent" \/ Has(mailbox, New(c))
            PROVE  Orderly(Line(c), Numbers(mailbox', c), denied[c], n) /\ InLine(mailbox', c)
        <5>1. Orderly(Line(c), Numbers(mailbox, c), denied[c], sent[c]) /\ InLine(mailbox, c)
          BY <1>0, <4>5 DEF Queued
        <5>2. /\ Orderly(Line(c), Numbers(mailbox, c) \cup {n}, denied[c], n)
              /\ \A m \in Numbers(mailbox, c) : m < n
          BY <1>0, <5>1, ComesIn
        <5> HIDE DEF n
        <5>3. QED
          BY <4>2, <5>1, <5>2
      <4> HIDE DEF n
      <4>6. hub'[c] = "Open" /\ spawned'
        BY <2>1, <2>4, <3>1, <3>3
      <4>7. QED
        BY <1>0, <3>1, <4>1, <4>2, <4>3, <4>4, <4>5, <4>6 DEF Queued
    <3>4. QED
      BY <3>2, <3>3
  <2>5. QED
    BY <1>7, <2>3, <2>4 DEF Receive
<1>8. QED
  BY <1>3, <1>4, <1>5, <1>6, <1>7

(* The IO loop only adds answers and updates.                              *)
LEMMA DecideTells ==
  ASSUME TypeOK, NEW p \in Peer, NEW v \in 0 .. Len(decisions[p]), Decide(p, v)
  PROVE  \E t \in Seq(Task) : /\ mailbox' = mailbox \o t
                              /\ \A i \in 1 .. Len(t) : t[i].kind \in {"answer", "update"}
<1> DEFINE told == Answered(slot[p].waiting)
           answers == [i \in DOMAIN told |-> Answer(told[i], v)]
           u == Update(p, v)
           new == IF slot[p].state = "Asked" THEN answers
                  ELSE IF Decision(p, v) # Decision(p, slot[p].latest) THEN <<u>> ELSE <<>>
<1>1. v \in Nat /\ told \in Seq(Conn)
  BY SlotFields, LenProperties DEF TypeOK, Answered
<1>2. /\ answers \in Seq(Task) /\ Len(answers) = Len(told)
      /\ \A i \in 1 .. Len(told) : answers[i] = Answer(told[i], v)
  BY <1>1, AnswerTasks
<1>3. mailbox' = mailbox \o new
  BY DEF Decide
<1>4. u \in Task /\ u.kind = "update"
  BY <1>1 DEF Update, Task
<1> HIDE DEF told, answers, u
<1>5. \A i \in 1 .. Len(answers) : answers[i].kind \in {"answer", "update"}
  <2>1. \A x : Answer(x, v).kind = "answer"
    BY DEF Answer
  <2>2. QED
    BY <1>2, <2>1
<1>6. /\ <<u>> \in Seq(Task) /\ <<>> \in Seq(Task)
      /\ \A i \in 1 .. Len(<<u>>) : <<u>>[i].kind \in {"answer", "update"}
      /\ \A i \in 1 .. Len(<<>>) : <<>>[i].kind \in {"answer", "update"}
  BY <1>4, EmptySeq
<1>7. new = answers \/ new = <<u>> \/ new = <<>>
  OBVIOUS
<1> HIDE DEF new
<1>8. new \in Seq(Task) /\ \A i \in 1 .. Len(new) : new[i].kind \in {"answer", "update"}
  BY <1>2, <1>5, <1>6, <1>7
<1>9. QED
  BY <1>3, <1>8

LEMMA LinesOfIo ==
  ASSUME TypeOK, Lines,
         \/ SetPeers \/ CheckPolicy
         \/ \E p \in Peer : StreamYields(p) \/ StreamEnds(p) \/ NewDecision(p)
  PROVE  Lines'
<1> SUFFICES ASSUME NEW c \in Conn PROVE Queued(c)'
  BY DEF Lines
<1>0. Queued(c) /\ mailbox \in Seq(Task)
  BY DEF Lines, TypeOK
<1>1. UNCHANGED <<hub, spawned, received, parked, pending, denied, sent, policy, ready>>
  BY DEF SetPeers, CheckPolicy, StreamYields, StreamEnds, NewDecision, hubVars, actorVars,
         connVars, msgVars
<1>2. CASE UNCHANGED mailbox
  BY <1>0, <1>1, <1>2, QueuedStaysPut
<1>3. ASSUME NEW t \in Seq(Task), mailbox' = mailbox \o t,
             \A i \in 1 .. Len(t) : t[i].kind \in {"answer", "update"}
      PROVE  Queued(c)'
  <2>1. Syncs(t, c) = {}
    BY <1>3 DEF Syncs
  <2>2. ~Has(t, New(c))
    <3>1. New(c).kind = "new"
      BY DEF New
    <3>2. QED
      BY <1>3, <3>1 DEF Has
  <2>3. QED
    BY <1>0, <1>1, <1>3, <2>1, <2>2, QueuedStays
<1>4. CASE CheckPolicy /\ ~UNCHANGED mailbox
  <2> DEFINE d == Head(io).conn
             v == slot[PeerOf[d]].latest
             t == Answer(d, v)
  <2>1. io # <<>> /\ Head(io).kind = "check" /\ mailbox' = Append(mailbox, t)
    BY <1>4 DEF CheckPolicy, IoTakes
  <2>2. d \in Conn
    BY <2>1, HeadTailProperties, IoTaskFields DEF TypeOK
  <2>3. v \in Nat
    BY <2>2, SlotFields
  <2> HIDE DEF d, v
  <2>4. t \in Task /\ t.kind = "answer"
    BY <2>2, <2>3 DEF Answer, Task
  <2> HIDE DEF t
  <2>5. mailbox' = mailbox \o <<t>> /\ <<t>> \in Seq(Task)
    BY <1>0, <2>1, <2>4, AppendIsConcat
  <2>6. \A i \in 1 .. Len(<<t>>) : <<t>>[i].kind \in {"answer", "update"}
    BY <2>4
  <2>7. QED
    BY <1>3, <2>5, <2>6
<1>5. ASSUME NEW p \in Peer, StreamYields(p) PROVE Queued(c)'
  <2>1. slot[p].next \in Nat /\ slot[p].next <= Len(decisions[p]) /\ Len(decisions[p]) \in Nat
    BY <1>5, SlotFields, LenProperties DEF StreamYields, TypeOK
  <2>2. slot[p].next \in 0 .. Len(decisions[p]) /\ Decide(p, slot[p].next)
    BY <1>5, <2>1 DEF StreamYields
  <2>3. QED
    BY <1>3, <2>2, DecideTells
<1>6. ASSUME NEW p \in Peer, StreamEnds(p) PROVE Queued(c)'
  <2>1. 0 \in 0 .. Len(decisions[p])
    BY LenProperties DEF TypeOK
  <2>2. Decide(p, 0) \/ UNCHANGED mailbox
    BY <1>6 DEF StreamEnds
  <2>3. QED
    BY <1>2, <1>3, <2>1, <2>2, DecideTells
<1>7. SetPeers \/ (\E p \in Peer : NewDecision(p)) => UNCHANGED mailbox
  BY DEF SetPeers, NewDecision
<1>8. QED
  BY <1>2, <1>4, <1>5, <1>6, <1>7

(* The actor.  Deliver gives a connection its messages in one of three     *)
(* ways.                                                                   *)
Denies(c, seq, park) ==
    /\ denied'[c] = denied[c] \cup Range(seq)
    /\ received'[c] = received[c] /\ parked'[c] = park
Receives(c, seq, park) ==
    denied'[c] = denied[c] /\ received'[c] = received[c] \o seq /\ parked'[c] = park
Parks(c, seq, park) ==
    denied'[c] = denied[c] /\ received'[c] = received[c] /\ parked'[c] = park \o seq
KeepsLine(c) ==
    /\ received'[c] = received[c] /\ parked'[c] = parked[c] /\ pending'[c] = pending[c]
    /\ denied'[c] = denied[c]

LEMMA Delivered ==
  ASSUME NEW c \in Conn, NEW ns, NEW v, NEW isReady \in BOOLEAN, NEW park,
         Deliver(ns, v, isReady, park), received[c] \in Seq(Nat), park[c] \in Seq(Nat)
  PROVE  /\ \/ Denies(c, ns[c], park[c])
            \/ isReady /\ Receives(c, ns[c], park[c])
            \/ ~isReady /\ Parks(c, ns[c], park[c])
         /\ ns[c] = <<>> => /\ denied'[c] = denied[c] /\ received'[c] = received[c]
                            /\ parked'[c] = park[c]
<1> DEFINE Denied(d) == Decision(PeerOf[d], v[d]) = Deny
           Pass(d) == IF Denied(d) THEN <<>> ELSE ns[d]
<1>1. /\ denied'[c] = denied[c] \cup (IF Denied(c) THEN Range(ns[c]) ELSE {})
      /\ received'[c] = received[c] \o (IF isReady THEN Pass(c) ELSE <<>>)
      /\ parked'[c] = park[c] \o (IF isReady THEN <<>> ELSE Pass(c))
  BY DEF Deliver
<1>2. received[c] \o <<>> = received[c] /\ park[c] \o <<>> = park[c]
  BY ConcatEmptySeq
<1> DEFINE pass == Pass(c)
<1>3. pass = (IF Denied(c) THEN <<>> ELSE ns[c])
  OBVIOUS
<1> HIDE DEF pass, Denied
<1>4. /\ denied'[c] = denied[c] \cup (IF Denied(c) THEN Range(ns[c]) ELSE {})
      /\ isReady => received'[c] = received[c] \o pass /\ parked'[c] = park[c]
      /\ ~isReady => received'[c] = received[c] /\ parked'[c] = park[c] \o pass
  BY <1>1, <1>2 DEF pass
<1>5. CASE Denied(c)
  <2>1. pass = <<>> /\ denied'[c] = denied[c] \cup Range(ns[c])
    BY <1>3, <1>4, <1>5
  <2>2. Denies(c, ns[c], park[c])
    BY <1>2, <1>4, <2>1 DEF Denies
  <2>3. ns[c] = <<>> => Range(ns[c]) = {}
    BY DEF Range
  <2>4. QED
    BY <2>2, <2>3 DEF Denies
<1>6. CASE ~Denied(c)
  <2>1. pass = ns[c] /\ denied'[c] = denied[c]
    BY <1>3, <1>4, <1>6
  <2>2. \/ isReady /\ Receives(c, ns[c], park[c])
        \/ ~isReady /\ Parks(c, ns[c], park[c])
    BY <1>4, <2>1 DEF Receives, Parks
  <2>3. QED
    BY <1>2, <1>4, <2>1, <2>2
<1>7. QED
  BY <1>5, <1>6

(* What waited for the decision.                                           *)
LEMMA LineDrained ==
  ASSUME TypeOK, NEW c \in Conn, NEW N, NEW s, Orderly(Line(c), N, denied[c], s),
         ready => parked[c] = <<>>, pending'[c] = <<>>,
         \/ Denies(c, pending[c], parked[c])
         \/ ready /\ Receives(c, pending[c], parked[c])
         \/ ~ready /\ Parks(c, pending[c], parked[c])
  PROVE  Orderly(Line(c)', N, denied'[c], s) /\ (ready => parked'[c] = <<>>)
<1> DEFINE a == received[c]
           b == parked[c]
           d == pending[c]
<1>1. a \in Seq(Nat) /\ b \in Seq(Nat) /\ d \in Seq(Nat)
  BY LineTypes
<1>2. Line(c) = a \o b \o d /\ Line(c)' = received'[c] \o parked'[c] \o <<>>
  BY DEF Line
<1>3. CASE Denies(c, d, b)
  <2>1. denied'[c] = denied[c] \cup Range(d) /\ received'[c] = a /\ parked'[c] = b
    BY <1>3 DEF Denies
  <2> HIDE DEF a, b, d
  <2>2. Orderly(a \o b \o <<>>, N, denied[c] \cup Range(d), s)
    BY <1>1, <1>2, TurnedAway
  <2>3. QED
    BY <1>2, <2>1, <2>2 DEF b
<1>4. CASE ready /\ Receives(c, d, b)
  <2>1. denied'[c] = denied[c] /\ received'[c] = a \o d /\ parked'[c] = b /\ b = <<>>
    BY <1>4 DEF Receives
  <2> HIDE DEF a, b, d
  <2>2. (a \o d) \o <<>> \o <<>> = a \o <<>> \o d
    BY <1>1, Regrouped
  <2>3. Line(c)' = Line(c)
    BY <1>2, <2>1, <2>2
  <2>4. QED
    BY <2>1, <2>3
<1>5. CASE ~ready /\ Parks(c, d, b)
  <2>1. denied'[c] = denied[c] /\ received'[c] = a /\ parked'[c] = b \o d
    BY <1>5 DEF Parks
  <2> HIDE DEF a, b, d
  <2>2. a \o (b \o d) \o <<>> = a \o b \o d
    BY <1>1, Regrouped, Zenon
  <2>3. Line(c)' = Line(c)
    BY <1>2, <2>1, <2>2
  <2>4. QED
    BY <1>5, <2>1, <2>3
<1>6. QED
  BY <1>3, <1>4, <1>5

(* A message that finds the policy known.                                  *)
LEMMA LinePassed ==
  ASSUME TypeOK, NEW c \in Conn, NEW M, NEW s, NEW n \in Nat,
         Orderly(Line(c) \o <<n>>, M, denied[c], s), Orderly(Line(c), M, denied[c] \cup {n}, s),
         ready => parked[c] = <<>>, pending[c] = <<>>, pending'[c] = <<>>,
         \/ Denies(c, <<n>>, parked[c])
         \/ ready /\ Receives(c, <<n>>, parked[c])
         \/ ~ready /\ Parks(c, <<n>>, parked[c])
  PROVE  Orderly(Line(c)', M, denied'[c], s) /\ (ready => parked'[c] = <<>>)
<1> DEFINE a == received[c]
           b == parked[c]
           d == <<n>>
<1>1. a \in Seq(Nat) /\ b \in Seq(Nat) /\ d \in Seq(Nat) /\ a \o b \in Seq(Nat)
  BY LineTypes, ConcatProperties
<1>2. Line(c) = a \o b \o <<>> /\ Line(c)' = received'[c] \o parked'[c] \o <<>>
  BY DEF Line
<1>3. Range(d) = {n}
  BY DEF Range
<1> HIDE DEF d
<1>4. CASE Denies(c, d, b)
  <2>1. Line(c)' = Line(c) /\ denied'[c] = denied[c] \cup {n} /\ parked'[c] = b
    BY <1>2, <1>3, <1>4 DEF Denies
  <2>2. QED
    BY <2>1
<1>5. a \o b \o <<>> = a \o b
  <2> HIDE DEF a, b
  <2>1. QED
    BY <1>1, ConcatEmptySeq
<1>6. Orderly((a \o b) \o d, M, denied[c], s)
  BY <1>2, <1>5 DEF d
<1>7. CASE ready /\ Receives(c, d, b)
  <2>1. denied'[c] = denied[c] /\ received'[c] = a \o d /\ parked'[c] = b /\ b = <<>>
    BY <1>7 DEF Receives
  <2> HIDE DEF a, b
  <2>2. a \o b = a
    BY <1>1, <2>1, ConcatEmptySeq
  <2>3. a \o d \in Seq(Nat)
    BY <1>1, ConcatProperties
  <2>4. (a \o d) \o <<>> = a \o d
    BY <2>3, ConcatEmptySeq
  <2>5. Line(c)' = (a \o b) \o d
    BY <1>2, <2>1, <2>2, <2>4
  <2>6. QED
    BY <1>6, <2>1, <2>5
<1>8. CASE ~ready /\ Parks(c, d, b)
  <2>1. denied'[c] = denied[c] /\ received'[c] = a /\ parked'[c] = b \o d
    BY <1>8 DEF Parks
  <2> HIDE DEF a, b
  <2>2. a \o (b \o d) \o <<>> = a \o b \o d
    BY <1>1, Regrouped, ZenonT(60)
  <2>3. Line(c)' = (a \o b) \o d
    BY <1>2, <2>1, <2>2
  <2>4. QED
    BY <1>6, <1>8, <2>1, <2>3
<1>9. QED
  BY <1>4, <1>7, <1>8 DEF d

(* What waited for the load.                                               *)
LEMMA LineLoaded ==
  ASSUME TypeOK, NEW c \in Conn, NEW N, NEW s, Orderly(Line(c), N, denied[c], s),
         pending'[c] = pending[c],
         Denies(c, parked[c], <<>>) \/ Receives(c, parked[c], <<>>)
  PROVE  Orderly(Line(c)', N, denied'[c], s)
<1> DEFINE a == received[c]
           b == parked[c]
           d == pending[c]
<1>1. a \in Seq(Nat) /\ b \in Seq(Nat) /\ d \in Seq(Nat)
  BY LineTypes
<1>2. Line(c) = a \o b \o d /\ Line(c)' = received'[c] \o parked'[c] \o d
  BY DEF Line
<1>3. CASE Denies(c, b, <<>>)
  <2>1. denied'[c] = denied[c] \cup Range(b) /\ received'[c] = a /\ parked'[c] = <<>>
    BY <1>3 DEF Denies
  <2> HIDE DEF a, b, d
  <2>2. Orderly(a \o <<>> \o d, N, denied[c] \cup Range(b), s)
    BY <1>1, <1>2, TurnedAway
  <2>3. QED
    BY <1>2, <2>1, <2>2
<1>4. CASE Receives(c, b, <<>>)
  <2>1. denied'[c] = denied[c] /\ received'[c] = a \o b /\ parked'[c] = <<>>
    BY <1>4 DEF Receives
  <2> HIDE DEF a, b, d
  <2>2. (a \o b) \o <<>> \o d = a \o b \o d
    BY <1>1, Regrouped
  <2>3. Line(c)' = Line(c)
    BY <1>2, <2>1, <2>2
  <2>4. QED
    BY <2>1, <2>3
<1>5. QED
  BY <1>3, <1>4

(* A task that is no message of c is taken from the mailbox.               *)
LEMMA QueuedTakes ==
  ASSUME TypeOK, NEW c \in Conn, Queued(c), mailbox # <<>>, mailbox' = Tail(mailbox),
         ~(Head(mailbox).kind = "sync" /\ Head(mailbox).conn = c), KeepsLine(c),
         sent'[c] = sent[c], ready' = ready, hub'[c] = hub[c], spawned' = spawned,
         policy'[c] # "Absent" => policy[c] # "Absent" \/ Has(mailbox, New(c)),
         policy'[c] = "Ready" => pending[c] = <<>>
  PROVE  Queued(c)'
<1>1. mailbox \in Seq(Task)
  BY DEF TypeOK
<1>2. /\ Numbers(mailbox', c) = Numbers(mailbox, c)
      /\ InLine(mailbox, c) => InLine(mailbox', c)
      /\ Announced(mailbox, c) => Announced(mailbox', c)
      /\ Syncs(mailbox, c) = {} => Syncs(mailbox', c) = {}
  BY <1>1, SyncsTaken
<1>3. Has(mailbox', New(c)) => Has(mailbox, New(c))
  BY <1>1, AtTheFront
<1>4. New(c)' = New(c) /\ (Blank(c) => Blank(c)') /\ Line(c)' = Line(c)
  BY DEF New, Blank, Line, KeepsLine
<1>5. /\ received'[c] = received[c] /\ parked'[c] = parked[c] /\ pending'[c] = pending[c]
      /\ denied'[c] = denied[c]
  BY DEF KeepsLine
<1>6. QED
  BY <1>2, <1>3, <1>4, <1>5 DEF Queued

(* The connection is removed: what it sends from now on is lost.           *)
LEMMA QueuedGone ==
  ASSUME TypeOK, NEW c \in Conn, Queued(c), mailbox # <<>>, mailbox' = Tail(mailbox),
         received'[c] = received[c], parked'[c] = parked[c], denied'[c] = denied[c],
         pending'[c] = <<>>, policy'[c] = "Absent",
         sent'[c] = sent[c], ready' = ready, hub'[c] = hub[c], spawned' = spawned
  PROVE  Queued(c)'
<1>1. mailbox \in Seq(Task)
  BY DEF TypeOK
<1> DEFINE isSync == Head(mailbox).kind = "sync" /\ Head(mailbox).conn = c
<1>2. /\ ~isSync => Numbers(mailbox', c) = Numbers(mailbox, c)
      /\ isSync /\ Announced(mailbox, c) => ~Has(mailbox, New(c))
      /\ InLine(mailbox, c) => InLine(mailbox', c)
      /\ Announced(mailbox, c) => Announced(mailbox', c)
      /\ Syncs(mailbox, c) = {} => Syncs(mailbox', c) = {}
  BY <1>1, SyncsTaken
<1> HIDE DEF isSync
<1>3. Has(mailbox', New(c)) => Has(mailbox, New(c))
  BY <1>1, AtTheFront
<1>4. New(c)' = New(c) /\ (Blank(c) => Blank(c)' /\ Line(c)' = Line(c))
  BY DEF New, Blank, Line
<1>5. ASSUME Has(mailbox', New(c)) PROVE Orderly(Line(c)', Numbers(mailbox', c), denied'[c], sent'[c])
  <2>1. Blank(c) /\ ~isSync /\ Orderly(Line(c), Numbers(mailbox, c), denied[c], sent[c])
    BY <1>2, <1>3, <1>5 DEF Queued
  <2>2. QED
    BY <1>2, <1>4, <2>1
<1>6. QED
  BY <1>2, <1>3, <1>4, <1>5 DEF Queued

(* A message is taken from the mailbox.                                    *)
LEMMA QueuedHandles ==
  ASSUME TypeOK, NEW c \in Conn, Queued(c), mailbox # <<>>, mailbox' = Tail(mailbox),
         Head(mailbox).kind = "sync" /\ Head(mailbox).conn = c,
         policy'[c] = policy[c], sent'[c] = sent[c], ready' = ready,
         hub'[c] = hub[c], spawned' = spawned,
         policy[c] # "Absent" => Orderly(Line(c)', Numbers(mailbox', c), denied'[c], sent[c]),
         ready => parked'[c] = <<>>,
         policy[c] = "Ready" => pending'[c] = <<>>
  PROVE  Queued(c)'
<1>1. mailbox \in Seq(Task)
  BY DEF TypeOK
<1>2. /\ Numbers(mailbox, c) = {Head(mailbox).n} \cup Numbers(mailbox', c)
      /\ Announced(mailbox, c) => ~Has(mailbox, New(c)) /\ Announced(mailbox', c)
      /\ InLine(mailbox, c) => InLine(mailbox', c)
  BY <1>1, SyncsTaken
<1>3. Syncs(mailbox, c) # {}
  <2>1. Numbers(mailbox, c) # {}
    BY <1>2
  <2>2. QED
    BY <2>1 DEF Numbers
<1>4. Has(mailbox', New(c)) => Has(mailbox, New(c))
  BY <1>1, AtTheFront
<1>5. New(c)' = New(c)
  BY DEF New
<1>6. Announced(mailbox, c) /\ hub[c] # "Unused" /\ spawned
  BY <1>3 DEF Queued
<1>7. ~Has(mailbox', New(c)) /\ Announced(mailbox', c)
  BY <1>2, <1>4, <1>6
<1>8. policy[c] # "Absent" => InLine(mailbox', c)
  BY <1>2 DEF Queued
<1>9. QED
  BY <1>5, <1>6, <1>7, <1>8 DEF Queued

LEMMA LinesOfSync ==
  ASSUME TypeOK, Lines, SyncMessage, NEW c \in Conn
  PROVE  Queued(c)'
<1> DEFINE d == Head(mailbox).conn
           n == Head(mailbox).n
           ns == [Nothing EXCEPT ![d] = <<n>>]
<1>0. Queued(c) /\ mailbox \in Seq(Task)
  BY DEF Lines, TypeOK
<1>1. mailbox # <<>> /\ mailbox' = Tail(mailbox) /\ Head(mailbox).kind = "sync"
  BY DEF SyncMessage, Handles
<1>2. d \in Conn /\ n \in Nat
  BY <1>0, <1>1, HeadTailProperties, TaskFields
<1>3. ns[d] = <<n>> /\ (c # d => ns[c] = <<>>)
  BY <1>2 DEF Nothing
<1>4. sent'[c] = sent[c] /\ ready' = ready /\ hub'[c] = hub[c] /\ spawned' = spawned
  BY DEF SyncMessage, hubVars
<1> DEFINE Lost == policy[d] = "Absent" /\ UNCHANGED <<connVars, msgVars>>
           Waits == /\ policy[d] = "Loading" /\ pending' = [pending EXCEPT ![d] = Append(@, n)]
                    /\ UNCHANGED <<policy, msgVars>>
           Overflows == RemoveConnection(d) /\ UNCHANGED msgVars
           Passes == policy[d] = "Ready" /\ Deliver(ns, version, ready, parked) /\ UNCHANGED connVars
<1>5. Lost \/ Waits \/ Overflows \/ Passes
  BY DEF SyncMessage
<1>6. /\ received[c] \in Seq(Nat) /\ parked[c] \in Seq(Nat) /\ pending[c] \in Seq(Nat)
      /\ Line(c) \in Seq(Nat) /\ ready \in BOOLEAN
  BY LineTypes DEF TypeOK
<1> HIDE DEF d, n, ns
<1>7. CASE c # d
  <2>1. KeepsLine(c) /\ policy'[c] = policy[c]
    <3>1. CASE Lost
      BY <3>1 DEF connVars, msgVars, KeepsLine
    <3>2. CASE Waits
      BY <1>2, <1>7, <3>2 DEF msgVars, KeepsLine, TypeOK
    <3>3. CASE Overflows
      BY <1>2, <1>7, <3>3 DEF RemoveConnection, msgVars, KeepsLine, TypeOK
    <3>4. CASE Passes
      <4>1. ns[c] = <<>> /\ Deliver(ns, version, ready, parked)
        BY <1>3, <1>7, <3>4
      <4>2. denied'[c] = denied[c] /\ received'[c] = received[c] /\ parked'[c] = parked[c]
        BY <1>6, <4>1, Delivered
      <4>3. QED
        BY <3>4, <4>2 DEF connVars, KeepsLine
    <3>5. QED
      BY <1>5, <3>1, <3>2, <3>3, <3>4
  <2>2. ~(Head(mailbox).kind = "sync" /\ Head(mailbox).conn = c)
    BY <1>7 DEF d
  <2>3. policy[c] = "Ready" => pending[c] = <<>>
    BY <1>0 DEF Queued
  <2>4. QED
    BY <1>0, <1>1, <1>4, <2>1, <2>2, <2>3, QueuedTakes
<1>8. CASE c = d
  <2>1. Head(mailbox).kind = "sync" /\ Head(mailbox).conn = c /\ Head(mailbox).n = n
    BY <1>1, <1>8 DEF d, n
  <2> DEFINE M == Numbers(mailbox', c)
  <2>2. (ready => parked[c] = <<>>) /\ (policy[c] = "Ready" => pending[c] = <<>>)
    BY <1>0 DEF Queued
  <2>3. ASSUME policy[c] # "Absent"
        PROVE  Orderly(Line(c) \o <<n>>, M, denied[c], sent[c]) /\ Orderly(Line(c), M, denied[c] \cup {n}, sent[c])
    <3>1. Orderly(Line(c), Numbers(mailbox, c), denied[c], sent[c]) /\ InLine(mailbox, c)
      BY <1>0, <2>3 DEF Queued
    <3>2. Numbers(mailbox, c) = {n} \cup M /\ \A m \in M : n < m
      BY <1>0, <1>1, <2>1, <3>1, SyncsTaken
    <3>3. M \in SUBSET Nat
      <4>1. mailbox' \in Seq(Task)
        BY <1>0, <1>1, HeadTailProperties
      <4>2. ASSUME NEW i \in Syncs(mailbox', c) PROVE mailbox'[i].n \in Nat
        <5>1. mailbox'[i] \in Task /\ mailbox'[i].kind = "sync"
          BY <4>1, ElementOfSeq DEF Syncs
        <5>2. QED
          BY <5>1, TaskFields
      <4>3. QED
        BY <4>2 DEF Numbers
    <3> HIDE DEF M
    <3>4. QED
      BY <1>2, <1>6, <3>1, <3>2, <3>3, TakenUp
  <2> HIDE DEF M
  <2>4. CASE Lost
    <3>1. policy[c] = "Absent" /\ UNCHANGED <<policy, pending, received, parked, denied>>
      BY <1>8, <2>4 DEF connVars, msgVars
    <3>2. QED
      BY <1>0, <1>1, <1>4, <2>1, <2>2, <3>1, QueuedHandles
  <2>5. CASE Waits
    <3>1. policy[c] = "Loading" /\ pending'[c] = Append(pending[c], n)
          /\ UNCHANGED <<policy, received, parked, denied>>
      BY <1>2, <1>8, <2>5 DEF msgVars, TypeOK
    <3>2. Line(c)' = Line(c) \o <<n>>
      BY <1>2, <3>1, LineGrows
    <3>3. Orderly(Line(c)', M, denied'[c], sent[c])
      BY <2>3, <3>1, <3>2
    <3>4. QED
      BY <1>0, <1>1, <1>4, <2>1, <2>2, <3>1, <3>3, QueuedHandles DEF M
  <2>6. CASE Overflows
    <3>1. policy'[c] = "Absent" /\ pending'[c] = <<>> /\ UNCHANGED <<received, parked, denied>>
      BY <1>2, <1>8, <2>6 DEF RemoveConnection, msgVars, TypeOK
    <3>2. QED
      BY <1>0, <1>1, <1>4, <3>1, QueuedGone
  <2>7. CASE Passes
    <3>1. policy[c] = "Ready" /\ UNCHANGED <<policy, pending>> /\ pending[c] = <<>>
      BY <1>8, <2>2, <2>7 DEF connVars
    <3>2. \/ Denies(c, ns[c], parked[c])
          \/ ready /\ Receives(c, ns[c], parked[c])
          \/ ~ready /\ Parks(c, ns[c], parked[c])
      BY <1>6, <2>7, Delivered
    <3>3. ns[c] = <<n>>
      BY <1>3, <1>8
    <3>4. Orderly(Line(c)', M, denied'[c], sent[c]) /\ (ready => parked'[c] = <<>>)
      BY <1>2, <2>2, <2>3, <3>1, <3>2, <3>3, LinePassed
    <3>5. QED
      BY <1>0, <1>1, <1>4, <2>1, <3>1, <3>4, QueuedHandles DEF M
  <2>8. QED
    BY <1>5, <2>4, <2>5, <2>6, <2>7
<1>9. QED
  BY <1>7, <1>8

LEMMA QueuedDecided ==
  ASSUME TypeOK, Routed, NEW c \in Conn, Queued(c), mailbox # <<>>, mailbox' = Tail(mailbox),
         Head(mailbox).kind # "sync", NEW conns \in SUBSET Known, NEW v, ApplySharePolicy(conns, v),
         sent' = sent, ready' = ready, hub' = hub, spawned' = spawned
  PROVE  Queued(c)'
<1> DEFINE ns == [d \in Conn |-> IF d \in conns THEN pending[d] ELSE <<>>]
<1>1. /\ policy'[c] = (IF c \in conns THEN "Ready" ELSE policy[c])
      /\ pending'[c] = (IF c \in conns THEN <<>> ELSE pending[c])
      /\ Deliver(ns, version', ready, parked)
  BY DEF ApplySharePolicy, Drained
<1>2. ns[c] = (IF c \in conns THEN pending[c] ELSE <<>>)
  OBVIOUS
<1>3. received[c] \in Seq(Nat) /\ parked[c] \in Seq(Nat) /\ ready \in BOOLEAN /\ mailbox \in Seq(Task)
  BY DEF TypeOK
<1> HIDE DEF ns
<1>4. CASE c \notin conns
  <2>1. denied'[c] = denied[c] /\ received'[c] = received[c] /\ parked'[c] = parked[c]
    BY <1>1, <1>2, <1>3, <1>4, Delivered
  <2>2. KeepsLine(c) /\ policy'[c] = policy[c]
    BY <1>1, <1>4, <2>1 DEF KeepsLine
  <2>3. policy[c] = "Ready" => pending[c] = <<>>
    BY DEF Queued
  <2>4. QED
    BY <2>2, <2>3, QueuedTakes
<1>5. CASE c \in conns
  <2>1. policy[c] # "Absent" /\ policy'[c] = "Ready" /\ pending'[c] = <<>> /\ ns[c] = pending[c]
    BY <1>1, <1>2, <1>5 DEF Known
  <2>2. hub[c] # "Unused" /\ spawned /\ ~Has(mailbox, New(c))
    BY <2>1 DEF Routed, Route
  <2>3. /\ Orderly(Line(c), Numbers(mailbox, c), denied[c], sent[c]) /\ InLine(mailbox, c)
        /\ Announced(mailbox, c) /\ (ready => parked[c] = <<>>)
    BY <2>1 DEF Queued
  <2>4. \/ Denies(c, pending[c], parked[c])
        \/ ready /\ Receives(c, pending[c], parked[c])
        \/ ~ready /\ Parks(c, pending[c], parked[c])
    BY <1>1, <1>3, <2>1, Delivered
  <2>5. Orderly(Line(c)', Numbers(mailbox, c), denied'[c], sent[c]) /\ (ready => parked'[c] = <<>>)
    BY <2>1, <2>3, <2>4, LineDrained
  <2>6. /\ Numbers(mailbox', c) = Numbers(mailbox, c)
        /\ InLine(mailbox', c) /\ Announced(mailbox', c)
    BY <1>3, <2>3, SyncsTaken
  <2>7. ~Has(mailbox', New(c)) /\ New(c)' = New(c)
    BY <1>3, <2>2, AtTheFront DEF New
  <2>8. QED
    BY <2>1, <2>2, <2>5, <2>6, <2>7 DEF Queued
<1>6. QED
  BY <1>4, <1>5

LEMMA LinesOfPolicy ==
  ASSUME TypeOK, Routed, Lines, CheckAnswered \/ PolicyUpdated, NEW c \in Conn
  PROVE  Queued(c)'
<1>0. Queued(c)
  BY DEF Lines
<1>1. /\ mailbox # <<>> /\ mailbox' = Tail(mailbox) /\ Head(mailbox).kind # "sync"
      /\ sent' = sent /\ ready' = ready /\ hub' = hub /\ spawned' = spawned
  BY DEF CheckAnswered, PolicyUpdated, Handles, hubVars
<1>2. ASSUME NEW conns \in SUBSET Known, NEW v, ApplySharePolicy(conns, v) PROVE Queued(c)'
  BY <1>0, <1>1, <1>2, QueuedDecided
<1>3. CASE UNCHANGED <<policy, version, pending, msgVars>>
  <2>1. KeepsLine(c) /\ policy'[c] = policy[c]
    BY <1>3 DEF KeepsLine, msgVars
  <2>2. policy[c] = "Ready" => pending[c] = <<>>
    BY <1>0 DEF Queued
  <2>3. QED
    BY <1>0, <1>1, <2>1, <2>2, QueuedTakes
<1>4. CASE CheckAnswered /\ Head(mailbox).conn \in checks
  <2> DEFINE conns == {Head(mailbox).conn}
  <2>1. conns \in SUBSET Known
    BY <1>4 DEF Routed, Route, Known, TypeOK
  <2>2. ApplySharePolicy(conns, Head(mailbox).version)
    BY <1>4 DEF CheckAnswered
  <2> HIDE DEF conns
  <2>3. QED
    BY <1>2, <2>1, <2>2
<1>5. CASE PolicyUpdated
  <2> DEFINE conns == Known \cap Of(Head(mailbox).peer)
  <2>1. conns \in SUBSET Known /\ ApplySharePolicy(conns, Head(mailbox).version)
    BY <1>5 DEF PolicyUpdated
  <2> HIDE DEF conns
  <2>2. QED
    BY <1>2, <2>1
<1>6. QED
  BY <1>3, <1>4, <1>5 DEF CheckAnswered

LEMMA LinesOfActor ==
  ASSUME TypeOK, Routed, Lines, ActorStep \/ LoadDone
  PROVE  Lines'
<1> SUFFICES ASSUME NEW c \in Conn PROVE Queued(c)'
  BY DEF Lines
<1>0. Queued(c) /\ mailbox \in Seq(Task)
  BY DEF Lines, TypeOK
<1>1. policy[c] = "Ready" => pending[c] = <<>>
  BY <1>0 DEF Queued
<1>2. CASE NewConnection
  <2> DEFINE d == Head(mailbox).conn
  <2>1. mailbox # <<>> /\ mailbox' = Tail(mailbox) /\ Head(mailbox).kind = "new"
    BY <1>2 DEF NewConnection, Handles
  <2>2. Head(mailbox) = New(d) /\ d \in Conn
    BY <1>0, <2>1, HeadTailProperties, TaskFields
  <2>3. /\ policy' = [policy EXCEPT ![d] = "Loading"] /\ sent' = sent /\ ready' = ready
        /\ hub' = hub /\ spawned' = spawned /\ UNCHANGED <<pending, received, parked, denied>>
    BY <1>2 DEF NewConnection, hubVars, msgVars
  <2>4. KeepsLine(c)
    BY <2>3 DEF KeepsLine
  <2> HIDE DEF d
  <2>5. Has(mailbox, New(d))
    BY <1>0, <2>1, <2>2, AtTheFront
  <2>6. (policy'[c] # "Absent" => policy[c] # "Absent" \/ Has(mailbox, New(c)))
        /\ (policy'[c] = "Ready" => pending[c] = <<>>)
    BY <1>1, <2>2, <2>3, <2>5 DEF TypeOK
  <2>7. QED
    BY <1>0, <2>1, <2>3, <2>4, <2>6, QueuedTakes
<1>3. CASE ConnectionClosed
  <2> DEFINE d == Head(mailbox).conn
  <2>1. mailbox # <<>> /\ mailbox' = Tail(mailbox) /\ Head(mailbox).kind = "closed"
    BY <1>3 DEF ConnectionClosed, Handles
  <2>2. d \in Conn
    BY <1>0, <2>1, HeadTailProperties, TaskFields
  <2>3. /\ sent' = sent /\ ready' = ready /\ hub' = hub /\ spawned' = spawned
        /\ UNCHANGED <<received, parked, denied>>
    BY <1>3 DEF ConnectionClosed, hubVars, msgVars
  <2>4. policy' = [policy EXCEPT ![d] = "Absent"] /\ pending' = [pending EXCEPT ![d] = <<>>]
    BY <1>3 DEF ConnectionClosed, RemoveConnection
  <2> HIDE DEF d
  <2>5. CASE c = d
    <3>1. policy'[c] = "Absent" /\ pending'[c] = <<>>
      BY <2>2, <2>4, <2>5 DEF TypeOK
    <3>2. QED
      BY <1>0, <2>1, <2>3, <3>1, QueuedGone
  <2>6. CASE c # d
    <3>1. KeepsLine(c) /\ policy'[c] = policy[c]
      BY <2>2, <2>3, <2>4, <2>6 DEF KeepsLine, TypeOK
    <3>2. QED
      BY <1>0, <1>1, <2>1, <2>3, <3>1, QueuedTakes
  <2>7. QED
    BY <2>5, <2>6
<1>4. CASE LoadDone
  <2> DEFINE ns == [d \in Conn |-> IF d \in Known THEN parked[d] ELSE <<>>]
  <2>1. /\ ~ready /\ ready' = TRUE /\ Deliver(ns, version, TRUE, Nothing)
        /\ UNCHANGED <<hub, spawned, mailbox, policy, pending, sent>>
    BY <1>4 DEF LoadDone, hubVars, connVars
  <2>2. ns[c] = (IF c \in Known THEN parked[c] ELSE <<>>) /\ Nothing[c] = <<>>
    BY DEF Nothing
  <2> HIDE DEF ns
  <2>3. received[c] \in Seq(Nat) /\ Nothing[c] \in Seq(Nat) /\ parked[c] \in Seq(Nat)
    BY <2>2, EmptySeq DEF TypeOK
  <2>4. \/ Denies(c, ns[c], <<>>)
        \/ Receives(c, ns[c], <<>>)
    BY <2>1, <2>2, <2>3, Delivered
  <2>5. ns[c] = <<>> => denied'[c] = denied[c] /\ received'[c] = received[c]
    BY <2>1, <2>2, <2>3, Delivered
  <2>6. parked'[c] = <<>>
    BY <2>4 DEF Denies, Receives
  <2>7. New(c)' = New(c) /\ (policy[c] # "Absent" => c \in Known)
    BY DEF New, Known
  <2>8. ASSUME Blank(c) PROVE Blank(c)'
    <3>1. ns[c] = <<>>
      BY <2>2, <2>8 DEF Blank
    <3>2. QED
      BY <2>1, <2>5, <2>6, <2>8, <3>1 DEF Blank
  <2>9. ASSUME policy[c] # "Absent" \/ Has(mailbox, New(c))
        PROVE  Orderly(Line(c)', Numbers(mailbox, c), denied'[c], sent[c]) /\ InLine(mailbox, c)
    <3>1. Orderly(Line(c), Numbers(mailbox, c), denied[c], sent[c]) /\ InLine(mailbox, c)
      BY <1>0, <2>9 DEF Queued
    <3>2. CASE policy[c] # "Absent"
      <4>1. ns[c] = parked[c]
        BY <2>2, <2>7, <3>2
      <4>2. QED
        BY <2>1, <2>4, <3>1, <4>1, LineLoaded
    <3>3. CASE Has(mailbox, New(c))
      <4>1. Blank(c) /\ Blank(c)'
        BY <1>0, <2>8, <3>3 DEF Queued
      <4>2. Line(c)' = Line(c) /\ denied'[c] = denied[c]
        BY <4>1 DEF Blank, Line
      <4>3. QED
        BY <3>1, <4>2
    <3>4. QED
      BY <2>9, <3>2, <3>3
  <2>10. QED
    BY <1>0, <2>1, <2>6, <2>7, <2>8, <2>9 DEF Queued
<1>5. QED
  BY <1>2, <1>3, <1>4, LinesOfSync, LinesOfPolicy DEF ActorStep

LEMMA LinesStep == TypeOK /\ Routed /\ Lines /\ [Next]_vars => Lines'
<1> SUFFICES ASSUME TypeOK, Routed, Lines, [Next]_vars PROVE Lines'
  OBVIOUS
<1>1. CASE UNCHANGED vars
  <2> SUFFICES ASSUME NEW c \in Conn PROVE Queued(c)'
    BY DEF Lines
  <2>1. UNCHANGED <<mailbox, received, parked, pending, denied, sent, policy, ready, hub, spawned>>
    BY <1>1 DEF vars, hubVars, actorVars, connVars, msgVars
  <2>2. Queued(c)
    BY DEF Lines
  <2>3. QED
    BY <2>1, <2>2, QueuedStaysPut
<1>2. QED
  BY <1>1, LinesOfHub, LinesOfActor, LinesOfIo DEF Next

LEMMA LinesInit == Init => Lines
<1> SUFFICES ASSUME Init, NEW c \in Conn PROVE Queued(c)
  BY DEF Lines
<1>1. /\ hub[c] = "Unused" /\ policy[c] = "Absent" /\ ready = FALSE /\ mailbox = <<>> /\ sent[c] = 0
      /\ received[c] = <<>> /\ parked[c] = <<>> /\ pending[c] = <<>> /\ denied[c] = {}
  BY DEF Init
<1>2. ~Has(<<>>, New(c)) /\ Syncs(<<>>, c) = {} /\ Announced(<<>>, c)
  BY DEF Has, Syncs, Announced
<1>3. Blank(c)
  BY <1>1 DEF Blank
<1>4. QED
  BY <1>1, <1>2, <1>3 DEF Queued

(* Every sync message is received once, in the order in which it came, or  *)
(* is denied: what waits in the mailbox, for a decision or for the load is *)
(* neither lost nor overtaken.                                             *)
THEOREM MessagesStayInOrder == Spec => []MessagesInOrder
<1>1. TypeOK /\ Routed /\ Lines => MessagesInOrder
  <2> SUFFICES ASSUME TypeOK, Lines, NEW c \in Known
               PROVE  /\ Increasing(Line(c))
                      /\ \A i, j \in Places(c) : i < j => mailbox[i].n < mailbox[j].n
                      /\ \A n \in Range(Line(c)), m \in {mailbox[i].n : i \in Places(c)} : n < m
                      /\ Range(Line(c)) \cup {mailbox[i].n : i \in Places(c)} \cup denied[c]
                           = 1 .. sent[c]
                      /\ (Range(Line(c)) \cup {mailbox[i].n : i \in Places(c)}) \cap denied[c] = {}
    BY DEF MessagesInOrder, Line
  <2>1. c \in Conn /\ policy[c] # "Absent"
    BY DEF Known
  <2>2. Orderly(Line(c), Numbers(mailbox, c), denied[c], sent[c]) /\ InLine(mailbox, c)
    BY <2>1 DEF Lines, Queued
  <2>3. Places(c) = Syncs(mailbox, c)
    <3>1. DOMAIN mailbox = 1 .. Len(mailbox)
      BY LenProperties DEF TypeOK
    <3>2. QED
      BY <3>1 DEF Places, Syncs
  <2>4. {mailbox[i].n : i \in Places(c)} = Numbers(mailbox, c)
    BY <2>3 DEF Numbers
  <2>5. QED
    BY <2>2, <2>3, <2>4 DEF Orderly, InLine, Below
<1>2. Init => Routed /\ Lines
  BY RouteInit, LinesInit
<1>3. Spec => [](TypeOK /\ Routed /\ Lines)
  BY <1>2, RouteStep, LinesStep, TypeCorrect, PTL DEF Spec
<1>4. QED
  BY <1>1, <1>3, PTL
=============================================================================
