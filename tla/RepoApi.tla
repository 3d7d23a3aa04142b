------------------------------ MODULE RepoApi ------------------------------
(***************************************************************************)
(* The calls of a repo that wait: create, search, find and stop            *)
(* (samod/src/lib.rs), between the hub that answers them (handle_event and *)
(* the searches and pending commands of actors/hub/state.rs), the document *)
(* actors that report to it, and the dialers whose state a search shows.   *)
(*                                                                         *)
(* A hub step is one handle_event of lib.rs under its lock, with the       *)
(* updates it sends to the streams of search().  Abstracted: storage (a    *)
(* load finds the document or not), what a peer is asked (see Request:     *)
(* here it answers that it has the document or not), retry budgets (see    *)
(* HubNet), and a shared policy that blocks.                               *)
(***************************************************************************)
EXTENDS Naturals, Sequences

CONSTANTS
  Dialer,
  MaxDials,    \* bound: transports a dialer asks for
  Searched,    \* documents that are searched for
  Created,     \* documents that create() makes, named by their call
  Finder,      \* calls of find()
  Watcher,     \* calls of search() whose stream is kept
  Stopper,     \* calls of stop()
  DocOf,       \* what a Finder or a Watcher asks for
  NoPhase

Doc == Searched \cup Created
Subscriber == Finder \cup Watcher
Call == Subscriber \cup Created \cup Stopper
Conn == Dialer \X (1 .. MaxDials)
Peers == UNION {[C -> {"Requested", "Unavailable"}] : C \in SUBSET Conn}
Phase == [kind : {"Loading", "Searching", "Ready"}, peers : Peers]

ASSUME RepoApiAssumption ==
    /\ MaxDials \in Nat \ {0} /\ DocOf \in [Subscriber -> Searched]
    /\ Searched \cap Created = {} /\ Subscriber \cap (Created \cup Stopper) = {}
    /\ Finder \cap Watcher = {} /\ Created \cap Stopper = {}
    /\ NoPhase \notin Phase

VARIABLES
  runState,     \* the hub's RunState
  status,       \* DialerStatus; "Handshaking" and "Connected" are its Connected
  dials,        \* transports asked for by each dialer
  phase,        \* ActorInfo::search_phase, NoPhase without an actor
  lastPhase,    \* Searches::phases
  lastDialers,  \* Searches::last_dialers
  creating,     \* PendingCommands::pending_create_commands
  actor,        \* the actor's own phase, with its peers at all times
  inbox,        \* tasks of the actor
  toHub,        \* the channel to the hub, tx_to_core
  pending,      \* calls of create() in Inner::pending_commands
  waiters,      \* Inner::stop_waiters
  last,         \* what the stream of a search() was told last
  verdict,      \* the first state told to a find() that ends it, if any
  answer        \* "idle", "waiting", or what the call returned

hubVars == <<runState, status, dials, phase, lastPhase, lastDialers, creating>>
actorVars == <<actor, inbox>>
apiVars == <<pending, waiters, last, verdict, answer>>
vars == <<hubVars, actorVars, toHub, apiVars>>

NoPeers == [c \in {} |-> "Requested"]
Loading == [kind |-> "Loading", peers |-> NoPeers]
Ready == [kind |-> "Ready", peers |-> NoPeers]
Statuses == {"Pending", "Handshaking", "Connected", "WaitingToRetry", "Failed", "Removed"}
SearchState == [phase : Phase, dialers : SUBSET Dialer]
Task == [kind : {"new", "closed"}, conn : Conn] \cup [kind : {"terminate"}]
Reported == [doc : Doc, phase : Phase \cup {NoPhase}]

(* The shape of phases, channels and answers.                              *)
TypeOK ==
    /\ runState \in {"Running", "Stopping", "Stopped"}
    /\ status \in [Dialer -> Statuses] /\ dials \in [Dialer -> 1 .. MaxDials]
    /\ phase \in [Doc -> Phase \cup {NoPhase}] /\ lastPhase \in [Doc -> Phase \cup {NoPhase}]
    /\ lastDialers \in [Dialer -> Statuses]
    /\ creating \subseteq Created /\ pending \subseteq Created /\ waiters \subseteq Stopper
    /\ actor \in [Doc -> Phase \cup {NoPhase}]
    /\ inbox \in [Doc -> Seq(Task)] /\ toHub \in Seq(Reported)
    /\ last \in [Watcher -> SearchState \cup {NoPhase}]
    /\ verdict \in [Finder -> {"open", "ok", "none"}]
    /\ answer \in [Call -> {"idle", "waiting", "ok", "none", "stopped"}]

Init ==
    /\ runState = "Running"
    /\ status = [k \in Dialer |-> "Pending"] /\ dials = [k \in Dialer |-> 1]
    /\ lastDialers = status
    /\ phase = [d \in Doc |-> NoPhase] /\ lastPhase = phase
    /\ actor = phase /\ inbox = [d \in Doc |-> <<>>] /\ toHub = <<>>
    /\ creating = {} /\ pending = {} /\ waiters = {}
    /\ last = [u \in Watcher |-> NoPhase] /\ verdict = [u \in Finder |-> "open"]
    /\ answer = [k \in Call |-> "idle"]

----------------------------------------------------------------------------
(* What a search shows.                                                    *)

(* pending_dialer_urls                                                     *)
PendingDialers(st) == {k \in Dialer : st[k] \in {"Pending", "Handshaking"}}

(* SearchState::from_doc_search: dialers are shown with a request only.    *)
Shown(p, st) ==
    [phase |-> p, dialers |-> IF p.kind = "Searching" THEN PendingDialers(st) ELSE {}]

(* Request::is_currently_unavailable                                       *)
Unavailable(s) ==
    /\ s.phase.kind = "Searching" /\ s.dialers = {}
    /\ \A c \in DOMAIN s.phase.peers : s.phase.peers[c] = "Unavailable"

(* find() ends at the first state that is found or unavailable, whatever   *)
(* the stream holds after it.                                              *)
Decided(v, s) ==
    IF v # "open" THEN v
    ELSE IF s.phase.kind = "Ready" THEN "ok" ELSE IF Unavailable(s) THEN "none" ELSE "open"

(* The status of a connected dialer does not say if it has shaken hands.   *)
Status(st) == [k \in Dialer |-> IF st[k] = "Handshaking" THEN "Connected" ELSE st[k]]

PhaseChanged(d, ph, st) == lastPhase[d] # ph[d]   \* mutant
(* Searches::pop_state_updates                                             *)
Updated(d, ph, st) == lastPhase[d] # ph[d] \/ Status(lastDialers) # Status(st)

Subscribed(u) == answer[u] = "waiting" \/ (u \in Watcher /\ answer[u] = "ok")

(* The end of handle_event: searches are told, creates answered, and a     *)
(* stopping hub without actors is stopped.                                 *)
Told(u, ph, st) ==
    /\ Subscribed(u) /\ ph[DocOf[u]] # NoPhase /\ Updated(DocOf[u], ph, st)

Finish(ph, st) ==
    /\ phase' = ph /\ status' = st
    /\ lastPhase' = [d \in Doc |-> IF ph[d] = NoPhase THEN lastPhase[d] ELSE ph[d]]
    /\ lastDialers' = st
    /\ last' = [u \in Watcher |->
                  IF Told(u, ph, st) THEN Shown(ph[DocOf[u]], st) ELSE last[u]]
    /\ verdict' = [u \in Finder |->
                     IF Told(u, ph, st) THEN Decided(verdict[u], Shown(ph[DocOf[u]], st))
                     ELSE verdict[u]]

Established == {<<k, dials[k]>> : k \in {j \in Dialer : status[j] = "Connected"}}
Asked(C) == [c \in C |-> "Requested"]

----------------------------------------------------------------------------
(* Calls.                                                                  *)

(* Repo::create: the event first, then the call is registered, even if the *)
(* hub ignored the event.                                                  *)
Create(d) ==
    /\ answer[d] = "idle" /\ answer' = [answer EXCEPT ![d] = "waiting"]
    /\ pending' = pending \cup {d}
    /\ IF runState = "Running"
       THEN /\ creating' = creating \cup {d}
            /\ actor' = [actor EXCEPT ![d] = [kind |-> "Ready", peers |-> Asked(Established)]]
            /\ toHub' = Append(toHub, [doc |-> d, phase |-> Ready])
            /\ Finish([phase EXCEPT ![d] = Loading], status)
       ELSE UNCHANGED <<creating, actor, toHub, phase, status, lastPhase, lastDialers, last, verdict>>
    /\ UNCHANGED <<runState, dials, inbox, waiters>>

(* Repo::search and the first part of find: a snapshot and a subscription. *)
Search(u) ==
    LET d == DocOf[u]
        ph == IF phase[d] = NoPhase THEN [phase EXCEPT ![d] = Loading] ELSE phase
        first == Shown(ph[d], status)
    IN  /\ answer[u] = "idle"
        /\ IF runState = "Running"
           THEN /\ answer' = [answer EXCEPT ![u] = IF u \in Finder THEN "waiting" ELSE "ok"]
                /\ phase' = ph
                /\ lastPhase' = [lastPhase EXCEPT ![d] = ph[d]]
                /\ actor' = IF phase[d] = NoPhase
                            THEN [actor EXCEPT ![d] = [kind |-> "Loading", peers |-> Asked(Established)]]
                            ELSE actor
                /\ last' = [w \in Watcher |-> IF w = u THEN first ELSE last[w]]
                /\ verdict' = [f \in Finder |-> IF f = u THEN Decided("open", first) ELSE verdict[f]]
           ELSE /\ answer' = [answer EXCEPT ![u] = "stopped"]
                /\ UNCHANGED <<phase, lastPhase, actor, last, verdict>>
        /\ UNCHANGED <<runState, status, dials, lastDialers, creating, inbox, toHub, pending, waiters>>

(* find() reads its stream up to that state.                               *)
Look(u) ==
    /\ answer[u] = "waiting" /\ verdict[u] # "open"
    /\ answer' = [answer EXCEPT ![u] = verdict[u]]
    /\ UNCHANGED <<hubVars, actorVars, toHub, pending, waiters, last, verdict>>

(* Repo::stop; the actors do not learn that their connections are closed.  *)
Stop(w) ==
    /\ answer[w] = "idle"
    /\ pending' = {}
    /\ LET done == runState = "Running" /\ \A d \in Doc : phase[d] = NoPhase
           asked == [answer EXCEPT ![w] = "waiting"]
       IN  /\ waiters' = IF done THEN {} ELSE waiters \cup {w}
           /\ answer' = [k \in Call |-> IF done /\ k = w THEN "ok"
                                        ELSE IF k \in pending THEN "stopped" ELSE asked[k]]
           /\ IF runState = "Running"
              THEN /\ runState' = IF done THEN "Stopped" ELSE "Stopping"
                   /\ inbox' = [d \in Doc |-> IF phase[d] = NoPhase THEN inbox[d]
                                              ELSE Append(inbox[d], [kind |-> "terminate"])]
                   /\ Finish(phase, [k \in Dialer |-> "Removed"])
              ELSE UNCHANGED <<runState, inbox, phase, status, lastPhase, lastDialers, last, verdict>>
    /\ UNCHANGED <<dials, creating, actor, toHub>>

----------------------------------------------------------------------------
(* Document actors.                                                        *)

(* What an actor reports of its phase.                                     *)
Report(a) == IF a.kind = "Searching" THEN a ELSE [kind |-> a.kind, peers |-> NoPeers]

Become(d, a) ==
    /\ actor' = [actor EXCEPT ![d] = a]
    /\ toHub' = IF Report(a) = Report(actor[d]) THEN toHub
                ELSE Append(toHub, [doc |-> d, phase |-> Report(a)])

Loaded(d) ==
    /\ actor[d] # NoPhase /\ actor[d].kind = "Loading"
    /\ \E k \in {"Searching", "Ready"} : Become(d, [actor[d] EXCEPT !.kind = k])
    /\ UNCHANGED <<hubVars, inbox, apiVars>>

(* A peer has the document, which is synced, or has not.                   *)
PeerAnswers(d) ==
    /\ actor[d] # NoPhase /\ actor[d].kind = "Searching"
    /\ \E c \in DOMAIN actor[d].peers :
          /\ actor[d].peers[c] = "Requested"
          /\ \/ Become(d, [actor[d] EXCEPT !.peers[c] = "Unavailable"])
             \/ Become(d, [actor[d] EXCEPT !.kind = "Ready"])
    /\ UNCHANGED <<hubVars, inbox, apiVars>>

HandleTask(d) ==
    /\ inbox[d] # <<>> /\ inbox' = [inbox EXCEPT ![d] = Tail(@)]
    /\ LET t == Head(inbox[d])
           p == actor[d].peers
       IN  CASE t.kind = "new" ->
                  Become(d, [actor[d] EXCEPT !.peers =
                               [c \in DOMAIN p \cup {t.conn} |-> IF c \in DOMAIN p THEN p[c] ELSE "Requested"]])
             [] t.kind = "closed" ->
                  Become(d, [actor[d] EXCEPT !.peers = [c \in DOMAIN p \ {t.conn} |-> p[c]]])
             [] t.kind = "terminate" ->
                  /\ actor' = [actor EXCEPT ![d] = NoPhase]
                  /\ toHub' = Append(toHub, [doc |-> d, phase |-> NoPhase])
    /\ UNCHANGED <<hubVars, apiVars>>

----------------------------------------------------------------------------
(* The hub.                                                                *)

KeepsCreating(d, p) == {}                                         \* mutant
Resolved(d, p) == IF p # NoPhase /\ p.kind = "Ready" THEN creating \cap {d} ELSE {}

(* DocSearchChanged, or Terminated for NoPhase.                            *)
HubHandle ==
    /\ toHub # <<>> /\ runState # "Stopped" /\ toHub' = Tail(toHub)
    /\ LET m == Head(toHub)
           ph == [phase EXCEPT ![m.doc] = m.phase]
           created == Resolved(m.doc, m.phase)
           done == runState = "Stopping" /\ \A d \in Doc : ph[d] = NoPhase
       IN  /\ creating' = creating \ created
           /\ pending' = pending \ created
           /\ runState' = IF done THEN "Stopped" ELSE runState
           /\ waiters' = IF done THEN {} ELSE waiters
           /\ answer' = [k \in Call |-> IF k \in created \cap pending \/ (done /\ k \in waiters)
                                        THEN "ok" ELSE answer[k]]
           /\ Finish(ph, status)
    /\ UNCHANGED <<dials, actorVars>>

(* A hub event that moves a dialer, and the tasks it gives the actors.     *)
Tell(task) ==
    inbox' = [d \in Doc |-> IF phase[d] = NoPhase THEN inbox[d] ELSE Append(inbox[d], task)]

MoveDialer(k, from, to) ==
    /\ runState = "Running" /\ status[k] \in from
    /\ Finish(phase, [status EXCEPT ![k] = to])
    /\ UNCHANGED <<runState, creating, actor, toHub, pending, waiters, answer>>

TransportUp(k) == MoveDialer(k, {"Pending"}, "Handshaking") /\ UNCHANGED <<dials, inbox>>
DialFails(k) ==
    /\ \E to \in {"WaitingToRetry", "Failed"} : MoveDialer(k, {"Pending"}, to)
    /\ UNCHANGED <<dials, inbox>>
ShakeHands(k) ==
    /\ MoveDialer(k, {"Handshaking"}, "Connected")
    /\ Tell([kind |-> "new", conn |-> <<k, dials[k]>>])
    /\ UNCHANGED dials
ConnectionLost(k) ==
    /\ \E to \in {"WaitingToRetry", "Failed"} : MoveDialer(k, {"Handshaking", "Connected"}, to)
    /\ Tell([kind |-> "closed", conn |-> <<k, dials[k]>>])
    /\ UNCHANGED dials
Tick(k) ==
    /\ dials[k] < MaxDials /\ dials' = [dials EXCEPT ![k] = @ + 1]
    /\ MoveDialer(k, {"WaitingToRetry"}, "Pending")
    /\ UNCHANGED inbox

Works ==
    \/ HubHandle \/ \E u \in Finder : Look(u)
    \/ \E d \in Doc : Loaded(d) \/ PeerAnswers(d) \/ HandleTask(d)
    \/ \E k \in Dialer : TransportUp(k) \/ DialFails(k) \/ ShakeHands(k)

Next ==
    \/ Works
    \/ \E d \in Created : Create(d)
    \/ \E u \in Subscriber : Search(u)
    \/ \E w \in Stopper : Stop(w)
    \/ \E k \in Dialer : ConnectionLost(k) \/ Tick(k)

Spec == Init /\ [][Next]_vars

(* Actors, hub and futures run, storage and peers answer, and a dial comes *)
(* to something.                                                           *)
FairSpec == Spec /\ WF_vars(Works)

----------------------------------------------------------------------------
(* Properties.                                                             *)

(* Whoever subscribed to a search has been told its current state; only    *)
(* that a dialer has shaken hands is told together with the phase in which *)
(* its connection first appears (searches.rs:28-49, lib.rs:648-656).       *)
SubscribersUpToDate ==
    \A u \in Watcher : answer[u] = "ok" /\ phase[DocOf[u]] # NoPhase =>
        \/ last[u] = Shown(phase[DocOf[u]], status)
        \/ \E c \in Established : c \notin DOMAIN phase[DocOf[u]].peers

(* find() of a running repo ends: it is told when the last thing it waits  *)
(* for is gone, be it a peer, a connection or a dialer that fails          *)
(* (lib.rs:676-698).                                                       *)
FindEnds ==
    []<>(\A u \in Finder : answer[u] = "waiting" => runState # "Running")

(* create() and stop() of a repo that is not stopping are answered         *)
(* (lib.rs:565-599, 928-943).                                              *)
CallsAnswered ==
    []<>(\A k \in Created \cup Stopper : answer[k] = "waiting" => runState # "Running" /\ k \in pending)
=============================================================================
