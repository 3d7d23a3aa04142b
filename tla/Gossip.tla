------------------------------- MODULE Gossip -------------------------------
(***************************************************************************)
(* Ephemeral messages: a repo broadcasts to the neighbours that have the   *)
(* document, and every repo passes on what it hears.  The hub numbers and  *)
(* filters them (samod-core ephemera/ephemeral_session.rs, broadcast and   *)
(* handle_receive in actors/hub/state.rs), the document actor decides whom *)
(* to hear and tell (document_actor.rs), and DocActorInner hands them to   *)
(* the application (samod/src/doc_actor_inner.rs).                         *)
(*                                                                         *)
(* A session is named by its repo, which does not restart; a connection by *)
(* its two ends.  Abstracted: what the messages say, and why a document    *)
(* actor may send on a connection (Sends) or read from it (Reads).         *)
(***************************************************************************)
EXTENDS Naturals, Sequences, FiniteSets

CONSTANTS
  Node, Doc,
  Link,           \* pairs of nodes that may be connected
  Reads, Sends,   \* ends that the policy lets hear, and let tell, the other
  MaxBroadcasts,  \* bound: messages each node broadcasts
  MaxBreaks       \* bound: connections that break

End == {e \in Node \X Node : {e[1], e[2]} \in Link}

ASSUME GossipAssumption ==
    /\ IsFiniteSet(Node) /\ \A n \in Node : {n} \notin Link
    /\ Sends \subseteq Reads /\ Reads \subseteq End
    /\ MaxBroadcasts \in [Node -> Nat] /\ MaxBreaks \in Nat

VARIABLES
  counter,   \* EphemeralSession::counter
  seen,      \* EphemeralSession::session_counts; 0 for a session not heard of
  wire,      \* messages on their way from one end to the other
  mailbox,   \* tasks of the document's actor at a node
  toHub,     \* broadcasts the actors ask their hub for
  open,      \* links with an established connection
  conns,     \* neighbours the actor has a connection and a decision for
  heard,     \* what the application at a node heard of a document
  asked,     \* history: broadcasts a node's application asked for
  breaks,
  sure       \* history: the last broadcast of a node, if all could hear it

hubVars == <<counter, seen, open>>
vars == <<hubVars, wire, mailbox, toHub, conns, heard, asked, breaks, sure>>

Msg == [sender : Node, count : Nat, doc : Doc]
Heard(m, k) == [kind |-> "heard", msg |-> m, from |-> k]
Closed(k) == [kind |-> "closed", from |-> k]
Task == [kind : {"heard"}, msg : Msg, from : Node] \cup [kind : {"closed"}, from : Node]
New(d, to) == [kind |-> "new", doc |-> d, to |-> to]
PassOn(m, to) == [kind |-> "gossip", msg |-> m, to |-> to]
Request == [kind : {"new"}, doc : Doc, to : SUBSET Node]
           \cup [kind : {"gossip"}, msg : Msg, to : SUBSET Node]

(* The shape of sessions, queues and what the application heard.           *)
TypeOK ==
    /\ counter \in [Node -> Nat] /\ seen \in [Node -> [Node -> Nat]]
    /\ wire \in [End -> Seq(Msg)]
    /\ mailbox \in [Node -> [Doc -> Seq(Task)]] /\ toHub \in [Node -> Seq(Request)]
    /\ open \subseteq Link /\ conns \in [Node -> [Doc -> SUBSET Node]]
    /\ heard \in [Node -> [Doc -> Seq(Msg)]]
    /\ asked \in [Node -> Nat] /\ breaks \in Nat
    /\ sure \in [Node -> SUBSET Msg]

Init ==
    /\ counter = [n \in Node |-> 0] /\ seen = [n \in Node |-> [k \in Node |-> 0]]
    /\ wire = [e \in End |-> <<>>]
    /\ mailbox = [n \in Node |-> [d \in Doc |-> <<>>]] /\ toHub = [n \in Node |-> <<>>]
    /\ open = Link
    /\ conns = [n \in Node |-> [d \in Doc |-> {}]]
    /\ heard = [n \in Node |-> [d \in Doc |-> <<>>]]
    /\ asked = [n \in Node |-> 0] /\ breaks = 0
    /\ sure = [n \in Node |-> {}]

----------------------------------------------------------------------------
(* The document actor.                                                     *)

Targets(n, d) == {k \in conns[n][d] : <<n, k>> \in Sends}

(* DocHandle::broadcast                                                    *)
Broadcast(n, d) ==
    /\ asked[n] < MaxBroadcasts[n]
    /\ asked' = [asked EXCEPT ![n] = @ + 1]
    /\ toHub' = [toHub EXCEPT ![n] = Append(@, New(d, Targets(n, d)))]
    /\ UNCHANGED <<hubVars, wire, mailbox, conns, heard, breaks, sure>>

BackToSender(n, m) == Targets(n, m.doc)   \* mutant
GossipTargets(n, m) == {k \in Targets(n, m.doc) : k # m.sender}

(* The connections an ephemeral message is dropped for have no decision.   *)
HandleHeard(n, d) ==
    LET task == Head(mailbox[n][d])
    IN  /\ mailbox[n][d] # <<>> /\ task.kind = "heard"
        /\ mailbox' = [mailbox EXCEPT ![n][d] = Tail(@)]
        /\ IF task.from \in conns[n][d]
           THEN /\ heard' = [heard EXCEPT ![n][d] = Append(@, task.msg)]
                /\ toHub' = [toHub EXCEPT ![n] =
                               Append(@, PassOn(task.msg, GossipTargets(n, task.msg)))]
           ELSE UNCHANGED <<heard, toHub>>
        /\ UNCHANGED <<hubVars, wire, conns, asked, breaks, sure>>

HandleClosed(n, d) ==
    LET task == Head(mailbox[n][d])
    IN  /\ mailbox[n][d] # <<>> /\ task.kind = "closed"
        /\ mailbox' = [mailbox EXCEPT ![n][d] = Tail(@)]
        /\ conns' = [conns EXCEPT ![n][d] = @ \ {task.from}]
        /\ UNCHANGED <<hubVars, wire, toHub, heard, asked, breaks, sure>>

Closing(n, d, k) == \E i \in 1 .. Len(mailbox[n][d]) : mailbox[n][d][i] = Closed(k)

(* The actor has the connection and a decision that lets it read.          *)
Decide(n, d, k) ==
    /\ <<n, k>> \in Reads /\ {n, k} \in open /\ k \notin conns[n][d]
    /\ ~Closing(n, d, k)
    /\ conns' = [conns EXCEPT ![n][d] = @ \cup {k}]
    /\ UNCHANGED <<hubVars, wire, mailbox, toHub, heard, asked, breaks, sure>>

----------------------------------------------------------------------------
(* The hub.                                                                *)

(* Every broadcast takes a number, one that is passed on keeps its own.    *)
Numbered(n, r) ==
    IF r.kind = "new" THEN [sender |-> n, count |-> counter[n] + 1, doc |-> r.doc]
    ELSE r.msg

Everyone(n, d) == {k \in Node : <<n, k>> \in End}
AllHear(n, r) ==
    /\ r.to = Everyone(n, r.doc) /\ open = Link
    /\ \A k, j \in Node : /\ Targets(k, r.doc) = Everyone(k, r.doc)
                          /\ ~Closing(k, r.doc, j)

HubBroadcast(n) ==
    /\ toHub[n] # <<>>
    /\ LET r == Head(toHub[n])
           m == Numbered(n, r)
       IN  /\ counter' = [counter EXCEPT ![n] = @ + 1]
           /\ wire' = [e \in End |->
                         IF e[1] = n /\ e[2] \in r.to /\ {e[1], e[2]} \in open
                         THEN Append(wire[e], m) ELSE wire[e]]
           /\ sure' = IF r.kind = "new"
                      THEN [sure EXCEPT ![n] = IF AllHear(n, r) THEN {m} ELSE {}]
                      ELSE sure
    /\ toHub' = [toHub EXCEPT ![n] = Tail(@)]
    /\ UNCHANGED <<seen, open, mailbox, conns, heard, asked, breaks>>

NotOlder(n, m) == seen[n][m.sender] <= m.count        \* mutant
NewBySessionStart(n, m) == seen[n][m.sender] = 0      \* mutant
IsNews(n, m) == seen[n][m.sender] < m.count

Receive(n, k) ==
    /\ <<k, n>> \in End /\ wire[<<k, n>>] # <<>>
    /\ LET m == Head(wire[<<k, n>>])
       IN  IF IsNews(n, m)
           THEN /\ seen' = [seen EXCEPT ![n][m.sender] = m.count]
                /\ mailbox' = [mailbox EXCEPT ![n][m.doc] = Append(@, Heard(m, k))]
           ELSE UNCHANGED <<seen, mailbox>>
    /\ wire' = [wire EXCEPT ![<<k, n>>] = Tail(@)]
    /\ UNCHANGED <<counter, open, toHub, conns, heard, asked, breaks, sure>>

----------------------------------------------------------------------------
(* The network.                                                            *)

Break(l) ==
    /\ l \in open /\ breaks < MaxBreaks
    /\ open' = open \ {l} /\ breaks' = breaks + 1
    /\ wire' = [e \in End |-> IF {e[1], e[2]} = l THEN <<>> ELSE wire[e]]
    /\ mailbox' = [n \in Node |-> [d \in Doc |->
                     IF \E k \in Node : l = {n, k}
                     THEN Append(mailbox[n][d], Closed(CHOOSE k \in Node : l = {n, k}))
                     ELSE mailbox[n][d]]]
    /\ sure' = [n \in Node |-> {}]
    /\ UNCHANGED <<counter, seen, toHub, conns, heard, asked>>

Reopen(l) ==
    /\ l \in Link \ open
    /\ open' = open \cup {l}
    /\ UNCHANGED <<counter, seen, wire, mailbox, toHub, conns, heard, asked, breaks, sure>>

Works ==
    \/ \E n \in Node : HubBroadcast(n)
    \/ \E n \in Node, d \in Doc : HandleHeard(n, d) \/ HandleClosed(n, d)
    \/ \E n, k \in Node : Receive(n, k)

Next ==
    \/ Works
    \/ \E n \in Node, d \in Doc : Broadcast(n, d) \/ \E k \in Node : Decide(n, d, k)
    \/ \E l \in Link : Break(l) \/ Reopen(l)

Spec == Init /\ [][Next]_vars

(* Hubs and actors work off their queues and messages arrive; nobody needs *)
(* to broadcast, connect or decide.                                        *)
FairSpec == Spec /\ WF_vars(Works)

----------------------------------------------------------------------------
(* Properties.                                                             *)

(* However the network is shaped, the application hears a message once at  *)
(* most, those of a sender in the order it sent them, and never its own    *)
(* (ephemeral_session.rs:29-53, document_actor.rs:355).                    *)
HeardInOrder ==
    \A n \in Node, d \in Doc : \A i, j \in 1 .. Len(heard[n][d]) :
        /\ heard[n][d][i].sender # n
        /\ i < j /\ heard[n][d][i].sender = heard[n][d][j].sender
             => heard[n][d][i].count < heard[n][d][j].count

(* Gossip dies out in a network with cycles although every repo passes on  *)
(* what it hears: a hub sends each message once at most, its own and the   *)
(* others' (ephemeral_session.rs:29-53).                                   *)
AllAsked == UNION {{n} \X (1 .. asked[n]) : n \in Node}
CarriedOnce ==
    \A n \in Node : counter[n] + Len(toHub[n]) <= Cardinality(AllAsked)

(* The last message of a sender reaches every repo that a path of          *)
(* connections leads to, if none of them breaks, whichever of the paths    *)
(* is faster: only older messages are dropped for it.                      *)
LastIsHeard ==
    []<>(\A s \in Node : \A m \in sure[s] : \A n \in Node \ {s} :
            \E i \in 1 .. Len(heard[n][m.doc]) : heard[n][m.doc][i] = m)
=============================================================================
