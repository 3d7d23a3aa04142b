---------------------------- MODULE SharePolicy ----------------------------
(***************************************************************************)
(* Which connections may exchange one document, and who knows it: the      *)
(* hub's table of connections (samod-core actors/hub/state.rs), the        *)
(* document actor with a policy per connection (document_actor.rs), and    *)
(* the IO loop with a subscription to the application's decisions per peer *)
(* (samod/src/io_loop/share_policy.rs).  Hub and IO loop write into the    *)
(* actor's mailbox; the actor writes into the channel of each.             *)
(*                                                                         *)
(* A connection's policy is checked once, when the actor learns of it, so  *)
(* a check is named by its connection.  Dropping a subscription aborts its *)
(* stream, so one that yields is the one in its peer's slot.  Decisions    *)
(* travel as their index in the application's history of them; index 0 is  *)
(* the denial that stands for a stream that ended without deciding.        *)
(*                                                                         *)
(* Abstracted: the shutdown, ephemera, what a message makes of the         *)
(* document, and the byte limit beside the message limit of the buffer.    *)
(***************************************************************************)
EXTENDS Naturals, Sequences, FiniteSets, SequencesExt

CONSTANTS
  Conn, Peer,
  PeerOf,         \* the peer at the other end of a connection
  Config, Deny,   \* the decisions, and the one that denies
  MaxBuffered,    \* 64 in the code: messages that may wait for a decision
  MaxSent,        \* bound: messages on each connection
  MaxDecisions    \* bound: decisions about one peer

ASSUME SharePolicyAssumption ==
    /\ IsFiniteSet(Conn) /\ PeerOf \in [Conn -> Peer]
    /\ Deny \in Config
    /\ MaxBuffered \in Nat \ {0} /\ MaxSent \in [Conn -> Nat] /\ MaxDecisions \in Nat \ {0}

VARIABLES
  hub,         \* State::connections: "Unused", "Open", "Gone"
  spawned,     \* the document has an actor
  subscribed,  \* connections with the document in document_subscriptions
  mailbox,     \* the actor's tasks
  toHub,       \* connections the actor asks the hub to disconnect
  ready,       \* the document is loaded: its phase is not Loading
  policy,      \* peer_connections: "Absent", or SharePolicyState
  version,     \* the decision of a Ready policy
  checks,      \* check_policy_tasks
  pending,     \* PeerDocConnection::pending_sync_messages
  parked,      \* Loading::pending_sync_messages
  observed,    \* DocActorInner::last_observed_peers
  io,          \* the IO loop's channel
  slot,        \* Policies::subscriptions
  decisions,   \* the application: what it has decided about a peer so far
  sent,        \* history: sync messages that came in on a connection,
  received,    \* those the document received,
  denied       \* and those that were answered with "unavailable"

hubVars == <<hub, spawned, subscribed>>
connVars == <<policy, version, checks, pending>>
msgVars == <<parked, received, denied>>
actorVars == <<ready, connVars, msgVars, observed>>
ioVars == <<slot, decisions>>
vars == <<hubVars, mailbox, toHub, actorVars, io, ioVars, sent>>

New(c) == [kind |-> "new", conn |-> c]
Closed(c) == [kind |-> "closed", conn |-> c]
Sync(c, n) == [kind |-> "sync", conn |-> c, n |-> n]
Answer(c, v) == [kind |-> "answer", conn |-> c, version |-> v]
Update(p, v) == [kind |-> "update", peer |-> p, version |-> v]
Task == [kind : {"new", "closed"}, conn : Conn]
        \cup [kind : {"sync"}, conn : Conn, n : Nat]
        \cup [kind : {"answer"}, conn : Conn, version : Nat]
        \cup [kind : {"update"}, peer : Peer, version : Nat]

Peers(ps) == [kind |-> "peers", peers |-> ps]
Check(c) == [kind |-> "check", conn |-> c]
IoTask == [kind : {"peers"}, peers : SUBSET Peer] \cup [kind : {"check"}, conn : Conn]

(* "Active" is the None in the map: no check has come yet.  A subscription *)
(* is "Asked" until it yields, and its checks wait for that.               *)
Slot == [state : {"Absent", "Active", "Asked", "Decided"},
         latest : Nat, waiting : Seq(Conn), next : Nat, ended : BOOLEAN]
NoSlot == [state |-> "Absent", latest |-> 0, waiting |-> <<>>, next |-> 0, ended |-> FALSE]

Open == {c \in Conn : hub[c] = "Open"}
Known == {c \in Conn : policy[c] # "Absent"}
PeersOf(conns) == {PeerOf[c] : c \in conns}
Of(p) == {c \in Conn : PeerOf[c] = p}
Decision(p, v) == IF v = 0 THEN Deny ELSE decisions[p][v]

(* The shape of the tables, the queues and the subscriptions; what waits   *)
(* for a decision is bounded, and a decision is one that was made.         *)
TypeOK ==
    /\ hub \in [Conn -> {"Unused", "Open", "Gone"}]
    /\ spawned \in BOOLEAN /\ ready \in BOOLEAN
    /\ subscribed \subseteq Conn /\ checks \subseteq Conn
    /\ mailbox \in Seq(Task) /\ toHub \in Seq(Conn) /\ io \in Seq(IoTask)
    /\ policy \in [Conn -> {"Absent", "Loading", "Ready"}]
    /\ version \in [Conn -> Nat]
    /\ pending \in [Conn -> Seq(Nat)] /\ \A c \in Conn : Len(pending[c]) <= MaxBuffered
    /\ parked \in [Conn -> Seq(Nat)] /\ received \in [Conn -> Seq(Nat)]
    /\ denied \in [Conn -> SUBSET Nat] /\ sent \in [Conn -> Nat]
    /\ observed \subseteq Peer
    /\ slot \in [Peer -> Slot]
    /\ decisions \in [Peer -> Seq(Config)]
    /\ \A p \in Peer : slot[p].latest <= Len(decisions[p])

Init ==
    /\ hub = [c \in Conn |-> "Unused"]
    /\ spawned = FALSE /\ ready = FALSE
    /\ subscribed = {} /\ checks = {} /\ observed = {}
    /\ mailbox = <<>> /\ toHub = <<>> /\ io = <<>>
    /\ policy = [c \in Conn |-> "Absent"]
    /\ version = [c \in Conn |-> 0]
    /\ pending = [c \in Conn |-> <<>>]
    /\ parked = pending /\ received = pending
    /\ denied = [c \in Conn |-> {}]
    /\ slot = [p \in Peer |-> NoSlot]
    /\ decisions \in [Peer -> {<<g>> : g \in Config}]
    /\ sent = [c \in Conn |-> 0]

----------------------------------------------------------------------------
(* The hub.                                                                *)

(* ensure_connections, at the end of every event: the actor is told of the *)
(* established connections that are not subscribed to its document.        *)
EnsureConnections(conns, subs, box) ==
    LET missing == conns \ subs
    IN /\ subscribed' = subs \cup missing
       /\ \E order \in SetToSeqs(missing) :
            mailbox' = box \o [i \in DOMAIN order |-> New(order[i])]

(* A handshake completes.                                                  *)
Establish(c) ==
    /\ hub[c] = "Unused"
    /\ hub' = [hub EXCEPT ![c] = "Open"]
    /\ IF spawned
         THEN EnsureConnections(Open \cup {c}, subscribed, mailbox)
         ELSE UNCHANGED <<subscribed, mailbox>>
    /\ UNCHANGED <<spawned, toHub, actorVars, io, ioVars, sent>>

(* handle_connection_lost and remove_connection.                           *)
RemoveFromHub(c) ==
    /\ hub' = [hub EXCEPT ![c] = "Gone"]
    /\ subscribed' = subscribed \ {c}
    /\ mailbox' = IF spawned THEN Append(mailbox, Closed(c)) ELSE mailbox
    /\ UNCHANGED spawned

Lose(c) ==
    /\ hub[c] = "Open"
    /\ RemoveFromHub(c)
    /\ UNCHANGED <<toHub, actorVars, io, ioVars, sent>>

(* The actor's Disconnect reaches the hub, which may have lost the         *)
(* connection in the meantime.                                             *)
Disconnect ==
    /\ toHub # <<>>
    /\ toHub' = Tail(toHub)
    /\ IF Head(toHub) \in Open THEN RemoveFromHub(Head(toHub)) ELSE UNCHANGED <<hubVars, mailbox>>
    /\ UNCHANGED <<actorVars, io, ioVars, sent>>

NoneAtSpawn == {}   \* mutant: add_document_to_connection is left out
SubscribedAtSpawn == Open

(* spawn_actor: the actor starts with every established connection, and    *)
(* with the message that called for it, if it was a message.  Its first    *)
(* results are handled before any task in its mailbox.                     *)
Spawn(pend) ==
    /\ ~spawned /\ spawned' = TRUE
    /\ EnsureConnections(Open, SubscribedAtSpawn, mailbox)
    /\ policy' = [c \in Conn |-> IF c \in Open THEN "Loading" ELSE "Absent"]
    /\ checks' = Open
    /\ pending' = pend
    /\ observed' = PeersOf(Open)
    /\ \E order \in SetToSeqs(Open) :
         io' = (IF Open = {} THEN <<>> ELSE <<Peers(PeersOf(Open))>>)
               \o [i \in DOMAIN order |-> Check(order[i])]
    /\ UNCHANGED <<hub, toHub, ready, version, msgVars, ioVars>>

(* The document is created (its load then completes at once) or searched   *)
(* for.                                                                    *)
OpenDocument == Spawn(pending) /\ UNCHANGED sent

(* handle_doc_message for a sync message.                                  *)
Receive(c) ==
    /\ hub[c] = "Open" /\ sent[c] < MaxSent[c]
    /\ sent' = [sent EXCEPT ![c] = @ + 1]
    /\ \/ /\ spawned
          /\ mailbox' = Append(mailbox, Sync(c, sent'[c]))
          /\ UNCHANGED <<hubVars, toHub, actorVars, io, ioVars>>
       \/ Spawn([pending EXCEPT ![c] = <<sent'[c]>>])

----------------------------------------------------------------------------
(* The document actor.  Each action handles the task at the head of the    *)
(* mailbox, and then the results (DocActorInner::handle_results): a change *)
(* of the set of peers goes to the IO loop before any check.               *)

Handles(kind) == mailbox # <<>> /\ Head(mailbox).kind = kind /\ mailbox' = Tail(mailbox)

ChecksFirst(conns, new) ==   \* mutant: the check overtakes the change of peers
    new \o (IF PeersOf(conns) = observed THEN <<>> ELSE <<Peers(PeersOf(conns))>>)
Results(conns, new) ==
    (IF PeersOf(conns) = observed THEN <<>> ELSE <<Peers(PeersOf(conns))>>) \o new

SendResults(conns, new) ==
    /\ io' = io \o Results(conns, new)
    /\ observed' = PeersOf(conns)

(* add_connection and enqueue_share_policy_checks.                         *)
NewConnection ==
    /\ Handles("new")
    /\ LET c == Head(mailbox).conn
       IN /\ policy' = [policy EXCEPT ![c] = "Loading"]
          /\ checks' = checks \cup {c}
          /\ SendResults(Known \cup {c}, <<Check(c)>>)
    /\ UNCHANGED <<hubVars, toHub, ready, version, pending, msgVars, ioVars, sent>>

(* remove_connection: what waits in the Loading phase is not looked at.    *)
RemoveConnection(c) ==
    /\ policy' = [policy EXCEPT ![c] = "Absent"]
    /\ version' = [version EXCEPT ![c] = 0]
    /\ pending' = [pending EXCEPT ![c] = <<>>]
    /\ checks' = checks \ {c}
    /\ SendResults(Known \ {c}, <<>>)

ConnectionClosed ==
    /\ Handles("closed")
    /\ RemoveConnection(Head(mailbox).conn)
    /\ UNCHANGED <<hubVars, toHub, ready, msgVars, ioVars, sent>>

(* handle_sync_message once the policy is known, for the messages ns[c] of *)
(* each connection c under the decision v[c]: a denied message is answered *)
(* at once, others are received, or parked until the document is loaded.   *)
Deliver(ns, v, isReady, park) ==
    LET Denied(c) == Decision(PeerOf[c], v[c]) = Deny
        Pass(c) == IF Denied(c) THEN <<>> ELSE ns[c]
    IN /\ denied' = [c \in Conn |-> denied[c] \cup (IF Denied(c) THEN Range(ns[c]) ELSE {})]
       /\ received' = [c \in Conn |-> received[c] \o (IF isReady THEN Pass(c) ELSE <<>>)]
       /\ parked' = [c \in Conn |-> park[c] \o (IF isReady THEN <<>> ELSE Pass(c))]

Nothing == [c \in Conn |-> <<>>]

Full(c) == Len(pending[c]) >= MaxBuffered

SyncMessage ==
    /\ Handles("sync")
    /\ LET c == Head(mailbox).conn
           n == Head(mailbox).n
       IN \/ /\ policy[c] = "Absent"
             /\ UNCHANGED <<toHub, connVars, msgVars, observed, io>>
          \/ /\ policy[c] = "Loading" /\ ~Full(c)
             /\ pending' = [pending EXCEPT ![c] = Append(@, n)]
             /\ UNCHANGED <<toHub, policy, version, checks, msgVars, observed, io>>
          \/ /\ policy[c] = "Loading" /\ Full(c)
             /\ RemoveConnection(c)
             /\ toHub' = Append(toHub, c)
             /\ UNCHANGED msgVars
          \/ /\ policy[c] = "Ready"
             /\ Deliver([Nothing EXCEPT ![c] = <<n>>], version, ready, parked)
             /\ UNCHANGED <<toHub, connVars, observed, io>>
    /\ UNCHANGED <<hubVars, ready, ioVars, sent>>

KeepWaiting(conns) == pending   \* mutant: buffered messages stay where they are
Drained(conns) == [c \in Conn |-> IF c \in conns THEN <<>> ELSE pending[c]]

(* apply_share_policy to the connections in conns.                         *)
ApplySharePolicy(conns, v) ==
    /\ policy' = [c \in Conn |-> IF c \in conns THEN "Ready" ELSE policy[c]]
    /\ version' = [c \in Conn |-> IF c \in conns THEN v ELSE version[c]]
    /\ pending' = Drained(conns)
    /\ Deliver([c \in Conn |-> IF c \in conns THEN pending[c] ELSE <<>>],
               version', ready, parked)

(* The answer to a check: dropped when a pushed update or the loss of the  *)
(* connection came first.                                                  *)
CheckAnswered ==
    /\ Handles("answer")
    /\ LET c == Head(mailbox).conn
       IN IF c \in checks
            THEN ApplySharePolicy({c}, Head(mailbox).version)
            ELSE UNCHANGED <<policy, version, pending, msgVars>>
    /\ checks' = checks \ {Head(mailbox).conn}
    /\ UNCHANGED <<hubVars, toHub, ready, observed, io, ioVars, sent>>

(* UpdateSharePolicy: "a delayed initial check must not overwrite a pushed *)
(* update".                                                                *)
PolicyUpdated ==
    /\ Handles("update")
    /\ LET conns == Known \cap Of(Head(mailbox).peer)
       IN /\ checks' = checks \ conns
          /\ ApplySharePolicy(conns, Head(mailbox).version)
    /\ UNCHANGED <<hubVars, toHub, ready, observed, io, ioVars, sent>>

(* The load completes (handle_load): what was parked is handled under the  *)
(* decisions of now.                                                       *)
LoadDone ==
    /\ spawned /\ ~ready
    /\ ready' = TRUE
    /\ Deliver([c \in Conn |-> IF c \in Known THEN parked[c] ELSE <<>>],
               version, TRUE, Nothing)
    /\ UNCHANGED <<hubVars, mailbox, toHub, connVars, observed, io, ioVars, sent>>

----------------------------------------------------------------------------
(* The IO loop.                                                            *)

IoTakes(kind) == io # <<>> /\ Head(io).kind = kind /\ io' = Tail(io)

\* mutant: subscriptions of peers that are gone are retained
Retained(p, peers) == TRUE
Retains(p, peers) == p \in peers

SetPeers ==
    /\ IoTakes("peers")
    /\ LET peers == Head(io).peers
       IN slot' = [p \in Peer |->
                     IF p \in peers /\ slot[p].state = "Absent" THEN [NoSlot EXCEPT !.state = "Active"]
                     ELSE IF Retains(p, peers) THEN slot[p] ELSE NoSlot]
    /\ UNCHANGED <<hubVars, mailbox, toHub, actorVars, decisions, sent>>

(* Policies::check: without a slot the check is forgotten; the first check *)
(* subscribes, and the stream starts with the decision of that moment.     *)
CheckPolicy ==
    /\ IoTakes("check")
    /\ LET c == Head(io).conn
           p == PeerOf[c]
           first == [state |-> "Asked", latest |-> 0, waiting |-> <<c>>,
                    next |-> Len(decisions[p]), ended |-> FALSE]
       IN \/ /\ slot[p].state = "Absent"
             /\ UNCHANGED <<slot, mailbox>>
          \/ /\ slot[p].state = "Active"
             /\ slot' = [slot EXCEPT ![p] = first]
             /\ UNCHANGED mailbox
          \/ /\ slot[p].state = "Asked"
             /\ slot' = [slot EXCEPT ![p].waiting = Append(@, c)]
             /\ UNCHANGED mailbox
          \/ /\ slot[p].state = "Decided"
             /\ mailbox' = Append(mailbox, Answer(c, slot[p].latest))
             /\ UNCHANGED slot
    /\ UNCHANGED <<hubVars, toHub, actorVars, decisions, sent>>

Subscribed(p) == slot[p].state \in {"Asked", "Decided"} /\ ~slot[p].ended

FirstOnly(waiting) ==   \* mutant: only the check that subscribed is answered
    <<waiting[1]>>
Answered(waiting) == waiting

(* handle_event with a decision: the first one answers the checks that     *)
(* wait for it, a later one that differs is pushed.                        *)
Decide(p, v) ==
    /\ slot' = [slot EXCEPT ![p] =
                   [state |-> "Decided", latest |-> v, waiting |-> <<>>,
                    next |-> IF v = 0 THEN @.next ELSE v + 1, ended |-> v = 0]]
    /\ LET told == Answered(slot[p].waiting)
       IN mailbox' = mailbox \o
            IF slot[p].state = "Asked" THEN [i \in DOMAIN told |-> Answer(told[i], v)]
            ELSE IF Decision(p, v) # Decision(p, slot[p].latest) THEN <<Update(p, v)>> ELSE <<>>

StreamYields(p) ==
    /\ Subscribed(p) /\ slot[p].next <= Len(decisions[p])
    /\ Decide(p, slot[p].next)
    /\ UNCHANGED <<hubVars, toHub, actorVars, io, decisions, sent>>

AlwaysDenies(p) == TRUE   \* mutant: an ended stream denies whatever it decided
DeniesAtEnd(p) == slot[p].state = "Asked"

(* The stream ends: its last decision stays, or access is denied.          *)
StreamEnds(p) ==
    /\ Subscribed(p)
    /\ IF DeniesAtEnd(p)
         THEN Decide(p, 0)
         ELSE slot' = [slot EXCEPT ![p].ended = TRUE] /\ UNCHANGED mailbox
    /\ UNCHANGED <<hubVars, toHub, actorVars, io, decisions, sent>>

(* The application changes its mind.                                       *)
NewDecision(p) ==
    /\ Len(decisions[p]) < MaxDecisions
    /\ \E g \in Config : decisions' = [decisions EXCEPT ![p] = Append(@, g)]
    /\ UNCHANGED <<hubVars, mailbox, toHub, actorVars, io, slot, sent>>

----------------------------------------------------------------------------
ActorStep ==
    \/ NewConnection \/ ConnectionClosed \/ SyncMessage \/ CheckAnswered \/ PolicyUpdated

Next ==
    \/ \E c \in Conn : Establish(c) \/ Lose(c) \/ Receive(c)
    \/ Disconnect \/ OpenDocument \/ LoadDone
    \/ ActorStep
    \/ SetPeers \/ CheckPolicy
    \/ \E p \in Peer : StreamYields(p) \/ StreamEnds(p) \/ NewDecision(p)

Spec == Init /\ [][Next]_vars

(* The mailbox and the IO loop's channel are worked off.  The application  *)
(* must "yield the initial decision promptly" (share_policy.rs:23), or end *)
(* its stream.                                                             *)
Fairness ==
    /\ WF_vars(ActorStep)
    /\ WF_vars(SetPeers \/ CheckPolicy)
    /\ \A p \in Peer : WF_vars(StreamYields(p) \/ StreamEnds(p))

FairSpec == Spec /\ Fairness

----------------------------------------------------------------------------
Increasing(seq) == \A i, j \in DOMAIN seq : i < j => seq[i] < seq[j]

(* The places in the mailbox of the sync messages of a connection.         *)
Places(c) == {i \in DOMAIN mailbox : mailbox[i].kind = "sync" /\ mailbox[i].conn = c}

(* A connection is announced to the actor once: add_connection panics on a *)
(* connection it has (document_actor.rs:684-688).                          *)
AnnouncedOnce ==
    mailbox # <<>> /\ Head(mailbox).kind = "new" => Head(mailbox).conn \notin Known

(* When nothing is under way between them, the hub, the actor and the IO   *)
(* loop agree on who is connected: the actor has the established           *)
(* connections, and the IO loop a slot for each of their peers, so that no *)
(* subscription outlives the peer's last connection (share_policy.rs:16-17 *)
(* of samod).                                                              *)
ViewsAgree ==
    /\ spawned /\ mailbox = <<>> /\ toHub = <<>> => Known = Open
    /\ io = <<>> => {p \in Peer : slot[p].state # "Absent"} = PeersOf(Known)

(* While a connection waits for its first decision, its check is in one    *)
(* place: on the way to the IO loop, waiting for the stream of the peer's  *)
(* subscription, or answered in the mailbox.  A check that finds no slot   *)
(* is forgotten (io_loop/share_policy.rs:77-79).                           *)
CheckIsSomewhere ==
    \A c \in Conn : policy[c] = "Loading" =>
        /\ c \in checks
        /\ \/ Check(c) \in Range(io)
           \/ slot[PeerOf[c]].state = "Asked" /\ c \in Range(slot[PeerOf[c]].waiting)
           \/ \E v \in 0 .. MaxDecisions : Answer(c, v) \in Range(mailbox)

(* Every sync message of a connection is received once, in the order in    *)
(* which it came, or denied, although it may wait in the mailbox, then for *)
(* the decision, then for the load: "preserve message ordering while the   *)
(* asynchronous policy lookup is pending" (peer_doc_connection.rs:28).     *)
MessagesInOrder ==
    \A c \in Known :
        LET line == received[c] \o parked[c] \o pending[c]
            coming == {mailbox[i].n : i \in Places(c)}
        IN /\ Increasing(line)
           /\ \A i, j \in Places(c) : i < j => mailbox[i].n < mailbox[j].n
           /\ \A n \in Range(line), m \in coming : n < m
           /\ Range(line) \cup coming \cup denied[c] = 1 .. sent[c]
           /\ (Range(line) \cup coming) \cap denied[c] = {}

(* A connection never goes back to an older decision, whatever overtakes   *)
(* what: "latest-decision-wins", and when a stream ends "its last decision *)
(* remains in force" (share_policy.rs:11-15 of samod).                     *)
NeverBackwards ==
    [][\A c \in Conn : policy[c] = "Ready" /\ policy'[c] = "Ready"
                         => version'[c] >= version[c]]_vars

(* No connection waits for ever for its policy.                            *)
EveryConnectionDecided ==
    \A c \in Conn : policy[c] = "Loading" ~> policy[c] # "Loading"
=============================================================================
