------------------------------ MODULE Request ------------------------------
(***************************************************************************)
(* How a network of repos finds one document: a document actor per repo    *)
(* (samod-core document_actor.rs), its phases (phase/loading.rs,           *)
(* request.rs, ready.rs) and the sync session of each of its connections   *)
(* (peer_doc_connection.rs), over channels that are FIFO until they break. *)
(*                                                                         *)
(* Abstracted: automerge.  Changes do not depend on each other, so the     *)
(* heads of a document are its changes, and what a message says its sender *)
(* has is its heads.  A session is what decides the next message; one that *)
(* went from read-only to writable asks its peer to start over ("reset").  *)
(* The application's decisions reach the actor in one step (SharePolicy    *)
(* models their way), and buffers do not overflow.                         *)
(***************************************************************************)
EXTENDS Naturals, Sequences, SequencesExt, FiniteSets

CONSTANTS
  Node, Change,
  Link,         \* pairs of nodes that may be connected
  Stored,       \* what a node has in storage
  Creator,      \* nodes that may create the document, with that content
  Finder,       \* nodes whose application calls find()
  Granted,      \* the decisions one end may start with about the other
  Regranted,    \* the decisions that may replace it
  MaxEvents     \* bound: losses, edits, creations, new decisions together

Config == [access : {"none", "read", "write"}, announce : BOOLEAN]
End == {e \in Node \X Node : {e[1], e[2]} \in Link}
Neighbours(n) == {k \in Node : {n, k} \in Link}

ASSUME RequestAssumption ==
    /\ IsFiniteSet(Node)
    /\ \A l \in Link : \E n, k \in Node : n # k /\ l = {n, k}
    /\ Stored \in [Node -> SUBSET Change]
    /\ Finder \subseteq Node /\ Creator \subseteq {n \in Node : Stored[n] # {}}
    /\ Granted \in [End -> SUBSET Config] /\ Regranted \in [End -> SUBSET Config]
    /\ MaxEvents \in Nat

VARIABLES
  actor,     \* the document actor of each node, see Actor
  sought,    \* nodes where find() was called
  grant,     \* the application's decision at each end
  wire,      \* messages on their way from a node to a neighbour
  up,        \* ends that have an established connection
  broken,    \* links whose connection is gone, but not at both ends yet
  updates,   \* history: the ends whose decision changed
  events     \* how many events of the bounded kinds there were

vars == <<actor, sought, grant, wire, up, broken, updates, events>>

NoConfig == [access |-> "absent", announce |-> FALSE]   \* no connection
Undecided == [access |-> "pending", announce |-> FALSE]
CanRead(g) == g.access \in {"read", "write"}
CanWrite(g) == g.access = "write"
CanRequest(g) == CanWrite(g) /\ g.announce
Decided(c) == c.policy.access \notin {"absent", "pending"}

Msg == [type : {"Request", "Sync", "DocUnavailable"},
        heads : SUBSET Change, changes : SUBSET Change,
        readOnly : BOOLEAN, reset : BOOLEAN]
DocUnavailable == [type |-> "DocUnavailable", heads |-> {}, changes |-> {},
                   readOnly |-> FALSE, reset |-> FALSE]

(* automerge's sync::State: what it knows of the other side and has sent.  *)
Session == [known : BOOLEAN, theirs : SUBSET Change, lastSent : SUBSET Change,
            sent : SUBSET Change, responded : BOOLEAN, inFlight : BOOLEAN,
            peerReadOnly : BOOLEAN, reset : BOOLEAN]
Fresh == [known |-> FALSE, theirs |-> {}, lastSent |-> {}, sent |-> {},
          responded |-> FALSE, inFlight |-> FALSE, peerReadOnly |-> FALSE, reset |-> FALSE]

Asking == {"AwaitingSend", "Sent", "AwaitingSharePolicy", "BlockedByPolicy"}
PeerState == Asking \cup {"RequestedFromUs", "Refused", "Unavailable", "Syncing", "None"}

(* A connection of the actor.  The phase Requesting keeps "peer" and       *)
(* "heads"; "Refused" is RequestedFromUs with the response sent.  "out" is *)
(* what the running handler sends.                                         *)
Conn == [policy : Config \cup {NoConfig, Undecided},
         hasRequested : BOOLEAN, sentAny : BOOLEAN, receivedAny : BOOLEAN, sync : Session,
         pending : Seq(Msg), parked : Seq(Msg),
         peer : PeerState, heads : SUBSET Change, out : Seq(Msg)]
NoConn == [policy |-> NoConfig, hasRequested |-> FALSE, sentAny |-> FALSE,
           receivedAny |-> FALSE, sync |-> Fresh, pending |-> <<>>, parked |-> <<>>,
           peer |-> "None", heads |-> {}, out |-> <<>>]

Actor(n) == [phase : {"None", "Loading", "Requesting", "Ready"}, doc : SUBSET Change,
             conns : [Neighbours(n) -> Conn]]

(* The shape of actors, sessions and messages; a handler leaves nothing in *)
(* its hands, and what waits for a decision or the load waits for that.    *)
TypeOK ==
    /\ \A n \in Node : actor[n] \in Actor(n)
    /\ \A n \in Node : \A k \in Neighbours(n) :
          LET c == actor[n].conns[k] IN
          /\ c.out = <<>>
          /\ c.pending # <<>> => c.policy = Undecided
          /\ c.parked # <<>> => actor[n].phase = "Loading"
          /\ c.peer # "None" <=> actor[n].phase = "Requesting" /\ c.policy # NoConfig
          /\ c.policy # NoConfig <=> actor[n].phase # "None" /\ <<n, k>> \in up
    /\ sought \subseteq Finder /\ up \subseteq End /\ broken \subseteq Link
    /\ grant \in [End -> Config] /\ wire \in [End -> Seq(Msg)]
    /\ updates \subseteq End /\ events \in 0 .. MaxEvents

Init ==
    /\ actor = [n \in Node |-> [phase |-> "None", doc |-> {},
                                conns |-> [k \in Neighbours(n) |-> NoConn]]]
    /\ sought = {} /\ up = {} /\ broken = {}
    /\ grant \in {g \in [End -> Config] : \A e \in End : g[e] \in Granted[e]}
    /\ wire = [e \in End |-> <<>>]
    /\ updates = {} /\ events = 0

----------------------------------------------------------------------------
(* A sync session.                                                         *)

CanSend(c) == CanRead(c.policy) /\ (c.hasRequested \/ c.sync.known \/ c.policy.announce)

(* Changes go to a side that takes them; once either side only reads, the  *)
(* heads need not become equal.                                            *)
NewChanges(s, doc) == IF s.known /\ ~s.peerReadOnly THEN (doc \ s.theirs) \ s.sent ELSE {}

Quiet(c, doc) ==
    LET s == c.sync
    IN  /\ s.lastSent = doc /\ s.responded
        /\ \/ s.inFlight
           \/ /\ s.known /\ NewChanges(s, doc) = {}
              /\ s.theirs = doc \/ s.peerReadOnly \/ ~CanWrite(c.policy)

(* The batch generate_sync_messages makes: a peer that has not said it     *)
(* knows the reset flag gets empty heads instead, then the real ones.      *)
Heads(c, heads, changes, reset) ==
    [type |-> "Sync", heads |-> heads, changes |-> changes,
     readOnly |-> ~CanWrite(c.policy), reset |-> reset]
ByEmptyHeads(c, doc) == c.sync.reset /\ ~c.receivedAny /\ doc # {}
BatchForgets(c, doc) ==   \* mutant: no real heads after empty ones
    <<Heads(c, IF ByEmptyHeads(c, doc) THEN {} ELSE doc, NewChanges(c.sync, doc),
            c.sync.reset /\ c.receivedAny)>>
Batch(c, doc) ==
    LET real == Heads(c, doc, NewChanges(c.sync, doc), c.sync.reset /\ c.receivedAny)
    IN  IF ByEmptyHeads(c, doc) THEN <<Heads(c, {}, {}, FALSE), real>> ELSE <<real>>

Told(s, doc) ==
    [s EXCEPT !.lastSent = doc, !.responded = TRUE, !.inFlight = TRUE,
              !.sent = @ \cup NewChanges(s, doc), !.reset = FALSE]

Generate(c, doc) ==
    IF Quiet(c, doc) THEN c
    ELSE [c EXCEPT !.sentAny = TRUE, !.out = @ \o Batch(c, doc), !.sync = Told(@, doc)]

(* The other side starts over if it says so, or has nothing.               *)
HeardBy(s, doc, m) ==
    LET over == m.reset \/ (m.heads = {} /\ ~m.readOnly)
        echoed == m.changes = {} /\ m.heads = doc
    IN  [s EXCEPT !.inFlight = FALSE, !.known = TRUE, !.theirs = m.heads,
                  !.peerReadOnly = m.readOnly,
                  !.sent = IF over THEN {} ELSE @ \ m.heads,
                  !.lastSent = IF over THEN {} ELSE IF echoed THEN doc ELSE @]

Heard(c, doc, m) == [c EXCEPT !.receivedAny = TRUE, !.sync = HeardBy(@, doc, m)]

Learnt(c, doc, m) == IF CanWrite(c.policy) THEN doc \cup m.changes ELSE doc

Applied(a, k, m) ==
    [a EXCEPT !.doc = Learnt(a.conns[k], @, m), !.conns[k] = Heard(@, a.doc, m)]

(* set_read_only(true) and set_read_only(false).                           *)
StartOver(c) == [c EXCEPT !.sync = [Fresh EXCEPT !.reset = TRUE]]

PrepareRequest(c) == IF c.sentAny \/ c.receivedAny THEN StartOver(c) ELSE c

RegrantIgnored(c, g) ==   \* mutant
    IF ~c.sentAny /\ ~c.receivedAny THEN [c EXCEPT !.policy = g, !.sync = Fresh]
    ELSE [c EXCEPT !.policy = g]
SetShareConfig(c, g) ==
    LET regranted == /\ Decided(c) /\ ~CanWrite(c.policy)
                     /\ CanWrite(g) \/ (~CanRead(c.policy) /\ CanRead(g))
        set == [c EXCEPT !.policy = g]
    IN  IF ~c.sentAny /\ ~c.receivedAny THEN [set EXCEPT !.sync = Fresh]
        ELSE IF regranted THEN StartOver(set) ELSE set

----------------------------------------------------------------------------
(* The phase Requesting.                                                   *)

FirstState(g) == IF g = Undecided THEN "AwaitingSharePolicy"
                 ELSE IF CanRequest(g) THEN "AwaitingSend" ELSE "BlockedByPolicy"

SharePolicyChanged(c, previous, g) ==
    LET restart == \/ c.peer = "AwaitingSharePolicy"
                   \/ /\ previous # g
                      /\ ~CanWrite(g) \/ (previous # Undecided /\ ~CanWrite(previous))
        asks == /\ previous # g /\ CanRequest(g)
                /\ c.peer \in {"BlockedByPolicy", "Unavailable", "RequestedFromUs", "Refused"}
        stops == previous # g /\ ~CanRequest(g) /\ c.peer = "AwaitingSend"
        state == IF restart THEN FirstState(g) ELSE IF asks THEN "AwaitingSend"
                 ELSE IF stops THEN "BlockedByPolicy" ELSE c.peer
    IN  [c EXCEPT !.peer = state, !.heads = IF state = "Syncing" THEN @ ELSE {}]

(* A peer that was unavailable, or asked us itself, may have it by now.    *)
AfterSync(before, heads) ==
    IF before \in Asking /\ heads = {} THEN "Unavailable" ELSE "Syncing"

(* What a message makes of the peer's state, "before"; peers that may not  *)
(* write are only listened to.                                             *)
ReceiveRequesting(a, k, m) ==
    LET before == a.conns[k].peer
        Now(b, s) == [b EXCEPT !.conns[k].peer = s,
                               !.conns[k].heads = IF s = "Syncing" THEN m.heads ELSE {}]
    IN  CASE m.type = "DocUnavailable" -> Now(a, "Unavailable")
          [] m.type = "Request" /\ before \in Asking -> Now(a, "RequestedFromUs")
          [] m.type = "Request" /\ before = "Syncing" -> Now(a, "Unavailable")
          [] m.type = "Request" /\ before \notin Asking \cup {"Syncing"} -> a
          [] m.type = "Sync" /\ (~CanWrite(a.conns[k].policy) \/ before = "Syncing") ->
               Applied(a, k, m)
          [] m.type = "Sync" /\ CanWrite(a.conns[k].policy) /\ before # "Syncing" ->
               Now(Applied(a, k, m), AfterSync(before, m.heads))

AnySyncing(a, n) ==
    \E k \in Neighbours(n) : Decided(a.conns[k]) /\ a.conns[k].peer = "Syncing"

AsRequest(c) == [c EXCEPT !.out = [@ EXCEPT ![1].type = "Request"]]

GenerateRequesting(c, doc, syncing) ==
    LET resumed == Generate(c, doc)
    IN  CASE ~CanRead(c.policy) -> c
          [] CanRead(c.policy) /\ ~CanWrite(c.policy) /\ c.sync.known -> resumed
          [] CanRead(c.policy) /\ (CanWrite(c.policy) \/ ~c.sync.known) ->
             CASE c.peer = "BlockedByPolicy" /\ CanWrite(c.policy) /\ CanSend(c) ->
                    IF resumed = c THEN c ELSE [resumed EXCEPT !.peer = "Sent"]
               [] c.peer = "AwaitingSend" /\ ~syncing ->
                    AsRequest(Generate([PrepareRequest(c) EXCEPT !.peer = "Sent"], doc))
               [] c.peer = "Syncing" -> resumed
               [] c.peer = "RequestedFromUs" ->
                    [c EXCEPT !.peer = "Refused", !.out = Append(@, DocUnavailable)]
               [] OTHER -> c

FoundAtOnce(a, n) ==   \* mutant
    \E k \in Neighbours(n) : Decided(a.conns[k]) /\ a.conns[k].peer = "Syncing"
Found(a, n) ==
    \E k \in Neighbours(n) : /\ Decided(a.conns[k]) /\ a.conns[k].peer = "Syncing"
                             /\ a.conns[k].heads \subseteq a.doc

----------------------------------------------------------------------------
(* The actor's handlers, as functions on the actor of node n; each ends in *)
(* its step.                                                               *)

(* Requestors are to finish their search, and learn nothing.               *)
RefuseSilently(a, k, m) == a   \* mutant
Refuse(a, k, m) ==
    IF m.type = "DocUnavailable" THEN a
    ELSE [a EXCEPT !.conns[k].out = Append(@, DocUnavailable)]

HandleSyncMessage(a, k, m) ==
    LET marked == [a EXCEPT !.conns[k].hasRequested = @ \/ m.type # "DocUnavailable"]
        c == marked.conns[k]
    IN  CASE c.policy = NoConfig -> a
          [] c.policy = Undecided -> [marked EXCEPT !.conns[k].pending = Append(@, m)]
          [] Decided(c) /\ ~CanRead(c.policy) ->
               Refuse(marked, k, m)
          [] Decided(c) /\ CanRead(c.policy) ->
               CASE a.phase = "Loading" -> [marked EXCEPT !.conns[k].parked = Append(@, m)]
                 [] a.phase = "Requesting" -> ReceiveRequesting(marked, k, m)
                 [] a.phase = "Ready" /\ m.type # "DocUnavailable" -> Applied(marked, k, m)
                 [] OTHER -> marked

HandleAll(a, k, ms) ==
    LET after[i \in 0 .. Len(ms)] ==
          IF i = 0 THEN a ELSE HandleSyncMessage(after[i - 1], k, ms[i])
    IN  after[Len(ms)]

BecomesReady(a, n) ==
    [a EXCEPT !.phase = "Ready",
              !.conns = [k \in Neighbours(n) |-> [@[k] EXCEPT !.peer = "None", !.heads = {}]]]

GenerateAll(a, n) ==
    LET syncing == AnySyncing(a, n)
        generated(c) == CASE a.phase = "Ready" /\ CanSend(c) -> Generate(c, a.doc)
                          [] a.phase = "Requesting" -> GenerateRequesting(c, a.doc, syncing)
                          [] OTHER -> c
    IN  [a EXCEPT !.conns = [k \in Neighbours(n) |-> generated(@[k])]]

Settled(a, n) == IF a.phase = "Requesting" /\ Found(a, n) THEN BecomesReady(a, n) ELSE a

AddConnection(a, k) ==
    LET new == [NoConn EXCEPT !.policy = Undecided,
                  !.peer = IF a.phase = "Requesting" THEN FirstState(Undecided) ELSE "None"]
    IN  [a EXCEPT !.conns[k] = IF a.phase = "None" THEN @ ELSE new]

RemoveConnection(a, k) == [a EXCEPT !.conns[k] = NoConn]

Spawned(n, phase, doc) ==
    [phase |-> phase, doc |-> doc,
     conns |-> [k \in Neighbours(n) |->
                  IF <<n, k>> \in up THEN [NoConn EXCEPT !.policy = Undecided] ELSE NoConn]]

TakePending(c) == [c EXCEPT !.pending = <<>>]

ApplySharePolicy(a, k, g) ==
    LET c == a.conns[k]
        set == TakePending(SetShareConfig(c, g))
        told == IF a.phase = "Requesting" THEN SharePolicyChanged(set, c.policy, g) ELSE set
    IN  IF c.policy = NoConfig THEN a
        ELSE HandleAll([a EXCEPT !.conns[k] = told], k, c.pending)

(* The load is complete: the messages that waited are handled connection   *)
(* by connection, in any order of the connections.                         *)
Loaded(a, n, doc) ==
    LET First(c) == [c EXCEPT !.peer = IF c.policy = NoConfig THEN "None" ELSE FirstState(c.policy)]
    IN  IF doc # {} THEN [a EXCEPT !.phase = "Ready", !.doc = doc]
        ELSE [a EXCEPT !.phase = "Requesting", !.doc = doc,
                       !.conns = [k \in Neighbours(n) |-> First(@[k])]]

Unpark(a, k) == HandleAll([a EXCEPT !.conns[k].parked = <<>>], k, a.conns[k].parked)

HandleLoad(a, n, doc, order) ==
    LET after[i \in 0 .. Len(order)] ==
          IF i = 0 THEN Loaded(a, n, doc) ELSE Unpark(after[i - 1], order[i])
    IN  after[Len(order)]

(* Node n has handled an input, which leaves the actor as a: its step, and *)
(* what it sent in both goes on the wire, if there still is one; "taken"   *)
(* is the end whose message it was.                                        *)
Rest(e, taken) == IF e = taken THEN Tail(wire[e]) ELSE wire[e]

StepAfter(n, a, taken) ==
    \E handled \in {a} : \E settled \in {Settled(handled, n)} :
    \E done \in {GenerateAll(settled, n)} :
        /\ actor' = [actor EXCEPT ![n] = [done EXCEPT
                        !.conns = [k \in Neighbours(n) |-> [@[k] EXCEPT !.out = <<>>]]]]
        /\ wire' = [e \in End |->
                      IF e[1] = n /\ {e[1], e[2]} \notin broken
                      THEN wire[e] \o done.conns[e[2]].out ELSE Rest(e, taken)]

Step(n, a) == StepAfter(n, a, <<>>)

----------------------------------------------------------------------------
(* The application.                                                        *)

(* find(): the hub spawns an actor unless there is one.                    *)
Find(n) ==
    /\ n \in Finder \ sought
    /\ sought' = sought \cup {n}
    /\ IF actor[n].phase = "None" THEN Step(n, Spawned(n, "Loading", {}))
       ELSE UNCHANGED <<actor, wire>>
    /\ UNCHANGED <<grant, up, broken, updates, events>>

(* create(): until then nobody can have heard of the document.             *)
Create(n) ==
    /\ n \in Creator /\ \A k \in Node : actor[k].phase = "None"
    /\ events < MaxEvents /\ events' = events + 1
    /\ Step(n, Spawned(n, "Ready", Stored[n]))
    /\ UNCHANGED <<sought, grant, up, broken, updates>>

(* A commit: the guard runs a turn of the actor.                           *)
Edit(n, x) ==
    /\ actor[n].phase = "Ready" /\ events < MaxEvents
    /\ x \notin UNION {actor[k].doc \cup Stored[k] : k \in Node}
    /\ Step(n, [actor[n] EXCEPT !.doc = @ \cup {x}])
    /\ events' = events + 1
    /\ UNCHANGED <<sought, grant, up, broken, updates>>

(* The initial check of a connection is answered.                          *)
Decide(n, k) ==
    /\ actor[n].conns[k].policy = Undecided
    /\ Step(n, ApplySharePolicy(actor[n], k, grant[<<n, k>>]))
    /\ UNCHANGED <<sought, grant, up, broken, updates, events>>

Update(n, k, g) ==
    /\ events < MaxEvents /\ g \in Regranted[<<n, k>>] \ {grant[<<n, k>>]}
    /\ grant' = [grant EXCEPT ![<<n, k>>] = g]
    /\ updates' = updates \cup {<<n, k>>} /\ events' = events + 1
    /\ Step(n, ApplySharePolicy(actor[n], k, g))
    /\ UNCHANGED <<sought, up, broken>>

----------------------------------------------------------------------------
(* Storage and network.                                                    *)

Load(n) ==
    /\ actor[n].phase = "Loading"
    /\ \E order \in SetToSeqs(Neighbours(n)) :
          Step(n, HandleLoad(actor[n], n, Stored[n], order))
    /\ UNCHANGED <<sought, grant, up, broken, updates, events>>

(* Node n takes the next message of k; its hub spawns an actor for the     *)
(* first message about the document.                                       *)
Deliver(n, k) ==
    /\ <<n, k>> \in up /\ wire[<<k, n>>] # <<>>
    /\ LET a == IF actor[n].phase = "None" THEN Spawned(n, "Loading", {}) ELSE actor[n]
       IN  StepAfter(n, HandleSyncMessage(a, k, Head(wire[<<k, n>>])), <<k, n>>)
    /\ UNCHANGED <<sought, grant, up, broken, updates, events>>

(* One end has established the connection.                                 *)
Open(n, k) ==
    /\ <<n, k>> \in End \ up /\ {n, k} \notin broken
    /\ up' = up \cup {<<n, k>>}
    /\ Step(n, AddConnection(actor[n], k))
    /\ UNCHANGED <<sought, grant, broken, updates, events>>

(* A connection breaks, and what is on it is lost; each end hears of it.   *)
Lose(l) ==
    /\ l \notin broken /\ events < MaxEvents
    /\ {e \in End : {e[1], e[2]} = l} \subseteq up
    /\ broken' = broken \cup {l} /\ events' = events + 1
    /\ wire' = [e \in End |-> IF {e[1], e[2]} = l THEN <<>> ELSE wire[e]]
    /\ UNCHANGED <<actor, sought, grant, up, updates>>

Close(n, k) ==
    /\ {n, k} \in broken /\ <<n, k>> \in up
    /\ up' = up \ {<<n, k>>}
    /\ broken' = IF <<k, n>> \in up THEN broken ELSE broken \ {{n, k}}
    /\ Step(n, RemoveConnection(actor[n], k))
    /\ UNCHANGED <<sought, grant, updates, events>>

(* The steps that storage, the policy and the network owe.                 *)
Work ==
    \/ \E n \in Node : Load(n)
    \/ \E e \in End : Deliver(e[1], e[2]) \/ Decide(e[1], e[2])
                      \/ Open(e[1], e[2]) \/ Close(e[1], e[2])

Next ==
    \/ Work
    \/ \E n \in Node : Find(n) \/ Create(n) \/ \E x \in Change : Edit(n, x)
    \/ \E e \in End : \E g \in Config : Update(e[1], e[2], g)
    \/ \E l \in Link : Lose(l)

Spec == Init /\ [][Next]_vars

(* Storage and the application's policy answer, messages arrive or their   *)
(* connection breaks, and a dialer connects again, each some time; nothing *)
(* is assumed of edits, losses and further decisions.                      *)
FairSpec == Spec /\ WF_vars(Work)

----------------------------------------------------------------------------
(* Properties.                                                             *)

Updated(n, k) == updates \cap {<<n, k>>, <<k, n>>} # {}

(* As long as no decision changes, a search only finds a document that has *)
(* content: nobody answers a request with empty heads (request.rs:141,     *)
(* 283), and unavailability is not taken for a document.                   *)
ReadyHasContent ==
    \A n \in Node : actor[n].phase = "Ready" /\ updates = {} => actor[n].doc # {}

(* Time and again no request is outstanding: whoever asks a neighbour is   *)
(* told something, or the connection or the decision that the request      *)
(* rests on goes away (request.rs:261-265).                                *)
RequestsAnswered ==
    []<>(\A n \in Node : \A k \in Neighbours(n) :
            actor[n].conns[k].peer = "Sent" => Updated(n, k))

Usable(n, k) ==
    /\ <<n, k>> \in up /\ <<k, n>> \in up /\ {n, k} \notin broken
    /\ CanRequest(grant[<<n, k>>]) /\ CanRequest(grant[<<k, n>>])

(* Nodes that reach n over at most i usable links.                         *)
Within(n) ==
    LET w[i \in 0 .. Cardinality(Node)] ==
          IF i = 0 THEN {n} ELSE w[i - 1] \cup {k \in Node : \E j \in w[i - 1] :
                                                  {j, k} \in Link /\ Usable(j, k)}
    IN  w[Cardinality(Node)]

HasContent(n) == Stored[n] # {} \/ actor[n].doc # {}

(* A search finds a document that is stored anywhere it can reach over     *)
(* connections both ends of which may request and announce, whoever else   *)
(* is searching meanwhile (request.rs:220-229).                            *)
SearchFinds ==
    []<>(\A n \in Node :
            actor[n].phase = "Requesting" => \A k \in Within(n) : ~HasContent(k))

(* Repos that have the document end up with the same changes once nobody   *)
(* edits it: no batch of a session is taken for sent that is not.          *)
Converges ==
    []<>(\A n \in Node : \A k \in Neighbours(n) :
            actor[n].phase = "Ready" /\ actor[k].phase = "Ready" /\ Usable(n, k)
                => actor[n].doc = actor[k].doc)

(* What the search reports of a neighbour (request.rs:299-322), and when   *)
(* find() takes it for an answer (doc_search.rs:28-41).                    *)
Negative(c) ==
    \/ c.peer = "Unavailable"
    \/ Decided(c) /\ c.peer = "BlockedByPolicy"
    \/ Decided(c) /\ c.peer \in {"RequestedFromUs", "Refused"} /\ ~CanWrite(c.policy)
CurrentlyUnavailable(n) ==
    actor[n].phase = "Requesting" /\ \A k \in Neighbours(n) :
        LET c == actor[n].conns[k] IN c.policy # NoConfig => Decided(c) /\ Negative(c)

(* What the documentation of find() promises: "None" once all peers have   *)
(* answered that they do not have the document (lib.rs:664-666).           *)
SearchEnds ==
    []<>(\A n \in sought : actor[n].phase = "Ready" \/ CurrentlyUnavailable(n))
=============================================================================
