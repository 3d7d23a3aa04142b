--------------------------- MODULE RepoApi_proofs ---------------------------
(***************************************************************************)
(* RepoApi for any number of documents, dialers and calls: its types, and  *)
(* that whoever subscribed to a search has been told its current state.    *)
(***************************************************************************)
EXTENDS RepoApi, SequenceTheorems, TLAPS

USE RepoApiAssumption DEF RepoApiAssumption

----------------------------------------------------------------------------
(* Phases, peers and queues.                                               *)

Outcomes == {"Requested", "Unavailable"}

LEMMA PeersAre ==
  ASSUME NEW C \in SUBSET Conn, NEW f \in [C -> Outcomes]
  PROVE  f \in Peers
BY DEF Peers, Outcomes

LEMMA PeersShape ==
  ASSUME NEW p \in Peers
  PROVE  DOMAIN p \subseteq Conn /\ p \in [DOMAIN p -> Outcomes]
<1>1. PICK C \in SUBSET Conn : p \in [C -> Outcomes]
  BY DEF Peers, Outcomes
<1>2. QED
  BY <1>1

LEMMA PhaseShape ==
  ASSUME NEW a \in Phase
  PROVE  /\ a.kind \in {"Loading", "Searching", "Ready"} /\ a.peers \in Peers
         /\ a # NoPhase /\ DOMAIN a.peers \subseteq Conn
BY PeersShape DEF Phase

LEMMA PhaseIs ==
  ASSUME NEW kind \in {"Loading", "Searching", "Ready"}, NEW p \in Peers
  PROVE  [kind |-> kind, peers |-> p] \in Phase
BY DEF Phase

LEMMA NoPeersShape == NoPeers \in Peers /\ DOMAIN NoPeers = {}
<1>1. NoPeers \in [{} -> Outcomes] /\ DOMAIN NoPeers = {}
  BY DEF NoPeers
<1>2. QED
  BY <1>1, PeersAre

LEMMA FixedPhases ==
  /\ Loading \in Phase /\ DOMAIN Loading.peers = {}
  /\ Ready \in Phase /\ DOMAIN Ready.peers = {}
BY NoPeersShape, PhaseIs DEF Loading, Ready

LEMMA ReportShape ==
  ASSUME NEW a \in Phase
  PROVE  Report(a) \in Phase /\ DOMAIN Report(a).peers \subseteq DOMAIN a.peers
<1>1. CASE a.kind = "Searching"
  BY <1>1 DEF Report
<1>2. CASE a.kind # "Searching"
  <2>1. Report(a) = [kind |-> a.kind, peers |-> NoPeers]
    BY <1>2 DEF Report
  <2>2. QED
    BY <2>1, NoPeersShape, PhaseShape, PhaseIs
<1>3. QED
  BY <1>1, <1>2

LEMMA AskedShape ==
  ASSUME NEW C \in SUBSET Conn
  PROVE  Asked(C) \in Peers /\ DOMAIN Asked(C) = C
<1>1. Asked(C) \in [C -> Outcomes] /\ DOMAIN Asked(C) = C
  BY DEF Asked, Outcomes
<1>2. QED
  BY <1>1, PeersAre

LEMMA ShownShape ==
  ASSUME NEW p \in Phase, NEW st
  PROVE  Shown(p, st) \in SearchState
BY DEF Shown, SearchState, PendingDialers

LEMMA DecidedShape ==
  ASSUME NEW v \in {"open", "ok", "none"}, NEW s
  PROVE  Decided(v, s) \in {"open", "ok", "none"}
BY DEF Decided

(* One element more, and one less.                                         *)
LEMMA Appended ==
  ASSUME NEW S, NEW q \in Seq(S), NEW e \in S
  PROVE  /\ Append(q, e) \in Seq(S) /\ Len(Append(q, e)) = Len(q) + 1
         /\ \A i \in 1 .. Len(q) : Append(q, e)[i] = q[i]
         /\ Append(q, e)[Len(q) + 1] = e
         /\ Append(q, e) # <<>>
BY AppendProperties

LEMMA Shortened ==
  ASSUME NEW S, NEW q \in Seq(S), q # <<>>
  PROVE  /\ Head(q) \in S /\ Head(q) = q[1] /\ Len(q) \in Nat /\ Len(q) >= 1
         /\ Tail(q) \in Seq(S) /\ Len(Tail(q)) = Len(q) - 1
         /\ \A i \in 1 .. Len(Tail(q)) : Tail(q)[i] = q[i + 1]
BY HeadTailProperties

(* What was there and the one element that is new.                         *)
LEMMA OneMore ==
  ASSUME NEW q \in Seq(Reported), NEW m \in Reported, NEW r, r = Append(q, m)
  PROVE  /\ r \in Seq(Reported) /\ Len(q) \in Nat /\ Len(r) = Len(q) + 1
         /\ \A i \in 1 .. Len(r) : \/ i \in 1 .. Len(q) /\ r[i] = q[i]
                                   \/ i = Len(q) + 1 /\ r[i] = m
<1>1. /\ r \in Seq(Reported) /\ Len(r) = Len(q) + 1 /\ r[Len(q) + 1] = m
      /\ \A i \in 1 .. Len(q) : r[i] = q[i]
  BY Appended
<1>2. Len(q) \in Nat
  BY LenProperties
<1>3. \A i \in 1 .. Len(r) : i \in 1 .. Len(q) \/ i = Len(q) + 1
  BY <1>1, <1>2
<1>4. \A i \in 1 .. Len(r) : (i \in 1 .. Len(q) /\ r[i] = q[i]) \/ (i = Len(q) + 1 /\ r[i] = m)
  <2> TAKE i \in 1 .. Len(r)
  <2>1. CASE i \in 1 .. Len(q)
    BY <1>1, <2>1
  <2>2. CASE i = Len(q) + 1
    BY <1>1, <2>2
  <2>3. QED
    BY <1>3, <2>1, <2>2
<1>5. QED
  BY <1>1, <1>2, <1>4

LEMMA Calls ==
  /\ Finder \subseteq Call /\ Watcher \subseteq Call /\ Created \subseteq Call /\ Stopper \subseteq Call
  /\ Searched \subseteq Doc /\ Created \subseteq Doc
  /\ \A u \in Subscriber : DocOf[u] \in Searched /\ DocOf[u] \in Doc
BY DEF Call, Subscriber, Doc

LEMMA EstablishedConns ==
  ASSUME TypeOK
  PROVE  Established \in SUBSET Conn
BY DEF TypeOK, Established, Conn

----------------------------------------------------------------------------
(* Types.                                                                  *)

Answers == {"idle", "waiting", "ok", "none", "stopped"}

LEMMA FinishType ==
  ASSUME TypeOK, NEW ph \in [Doc -> Phase \cup {NoPhase}], NEW st \in [Dialer -> Statuses],
         Finish(ph, st)
  PROVE  /\ phase' \in [Doc -> Phase \cup {NoPhase}] /\ status' \in [Dialer -> Statuses]
         /\ lastPhase' \in [Doc -> Phase \cup {NoPhase}] /\ lastDialers' \in [Dialer -> Statuses]
         /\ last' \in [Watcher -> SearchState \cup {NoPhase}]
         /\ verdict' \in [Finder -> {"open", "ok", "none"}]
<1>1. phase' = ph /\ status' = st /\ lastDialers' = st
  BY DEF Finish
<1>2. lastPhase' \in [Doc -> Phase \cup {NoPhase}]
  BY DEF Finish, TypeOK
<1>3. last' \in [Watcher -> SearchState \cup {NoPhase}]
  <2>1. last' = [u \in Watcher |-> IF Told(u, ph, st) THEN Shown(ph[DocOf[u]], st) ELSE last[u]]
    BY DEF Finish
  <2>2. ASSUME NEW u \in Watcher, Told(u, ph, st) PROVE Shown(ph[DocOf[u]], st) \in SearchState
    BY <2>2, Calls, ShownShape DEF Told, Subscriber
  <2>3. QED
    BY <2>1, <2>2 DEF TypeOK
<1>4. verdict' \in [Finder -> {"open", "ok", "none"}]
  <2>1. verdict' = [u \in Finder |-> IF Told(u, ph, st) THEN Decided(verdict[u], Shown(ph[DocOf[u]], st))
                                     ELSE verdict[u]]
    BY DEF Finish
  <2>2. ASSUME NEW u \in Finder PROVE Decided(verdict[u], Shown(ph[DocOf[u]], st)) \in {"open", "ok", "none"}
    BY DecidedShape DEF TypeOK
  <2>3. QED
    BY <2>1, <2>2 DEF TypeOK
<1>5. QED
  BY <1>1, <1>2, <1>3, <1>4

(* A connection that has shaken hands, whether or not it is still there.   *)
Made(c) == \/ c[2] < dials[c[1]]
           \/ c[2] = dials[c[1]] /\ status[c[1]] \notin {"Pending", "Handshaking"}
Real(p) == \A c \in DOMAIN p.peers : Made(c)

LEMMA EstablishedMade ==
  ASSUME TypeOK
  PROVE  \A c \in Established : Made(c)
BY DEF Established, Made

(* An actor lives from the step in which the hub makes it until it has     *)
(* handled Terminate, the last of its tasks; what it reports then is the   *)
(* last that the hub hears of it.                                          *)
Lives ==
  \A d \in Doc :
    /\ phase[d] = NoPhase => actor[d] = NoPhase /\ \A i \in 1 .. Len(toHub) : toHub[i].doc # d
    /\ actor[d] = NoPhase => inbox[d] = <<>>
    /\ actor[d] = NoPhase /\ phase[d] # NoPhase => runState # "Running"
    /\ \A i \in 1 .. Len(inbox[d]) :
         inbox[d][i].kind = "terminate" => i = Len(inbox[d]) /\ runState # "Running"
    /\ \A i \in 1 .. Len(toHub) :
         toHub[i].doc = d /\ toHub[i].phase = NoPhase =>
           actor[d] = NoPhase /\ \A j \in 1 .. Len(toHub) : j > i => toHub[j].doc # d

(* What the actors and the dialers do.                                     *)
LEMMA BecomeType ==
  ASSUME TypeOK, NEW d \in Doc, NEW a \in Phase, Become(d, a)
  PROVE  /\ actor' = [actor EXCEPT ![d] = a]
         /\ actor' \in [Doc -> Phase \cup {NoPhase}] /\ toHub' \in Seq(Reported)
         /\ toHub' = toHub \/ toHub' = Append(toHub, [doc |-> d, phase |-> Report(a)])
<1>1. actor' = [actor EXCEPT ![d] = a]
  BY DEF Become
<1>2. actor' \in [Doc -> Phase \cup {NoPhase}]
  BY <1>1 DEF TypeOK
<1>3. toHub' = toHub \/ toHub' = Append(toHub, [doc |-> d, phase |-> Report(a)])
  BY DEF Become
<1>4. [doc |-> d, phase |-> Report(a)] \in Reported
  BY ReportShape DEF Reported
<1>5. Append(toHub, [doc |-> d, phase |-> Report(a)]) \in Seq(Reported)
  BY <1>4, Appended DEF TypeOK
<1>6. QED
  BY <1>1, <1>2, <1>3, <1>5 DEF TypeOK

LEMMA ActorSteps ==
  ASSUME TypeOK, NEW d \in Doc, Loaded(d) \/ PeerAnswers(d)
  PROVE  /\ UNCHANGED <<hubVars, inbox, apiVars>> /\ actor[d] \in Phase
         /\ \E a \in Phase : Become(d, a) /\ DOMAIN a.peers = DOMAIN actor[d].peers
<1>0. actor[d] \in Phase /\ UNCHANGED <<hubVars, inbox, apiVars>>
  BY DEF TypeOK, Loaded, PeerAnswers
<1> DEFINE p == actor[d].peers
           kind == actor[d].kind
<1>1. p \in Peers /\ kind \in {"Loading", "Searching", "Ready"}
      /\ actor[d] = [kind |-> kind, peers |-> p]
  BY <1>0, PhaseShape DEF Phase
<1>2. \A k \in {"Loading", "Searching", "Ready"} :
        /\ [actor[d] EXCEPT !.kind = k] = [kind |-> k, peers |-> p]
        /\ [kind |-> k, peers |-> p] \in Phase
  BY <1>1, PhaseIs
<1>3. CASE Loaded(d)
  <2>1. PICK k \in {"Searching", "Ready"} : Become(d, [actor[d] EXCEPT !.kind = k])
    BY <1>3 DEF Loaded
  <2>2. QED
    BY <1>0, <1>2, <2>1
<1>4. CASE PeerAnswers(d)
  <2>1. PICK c \in DOMAIN p : \/ Become(d, [actor[d] EXCEPT !.peers[c] = "Unavailable"])
                              \/ Become(d, [actor[d] EXCEPT !.kind = "Ready"])
    BY <1>4 DEF PeerAnswers
  <2>2. CASE Become(d, [actor[d] EXCEPT !.kind = "Ready"])
    BY <1>0, <1>2, <2>2
  <2>3. CASE Become(d, [actor[d] EXCEPT !.peers[c] = "Unavailable"])
    <3> DEFINE pp == [p EXCEPT ![c] = "Unavailable"]
    <3>1. pp \in [DOMAIN p -> Outcomes] /\ DOMAIN pp = DOMAIN p /\ DOMAIN p \subseteq Conn
      BY <1>1, PeersShape DEF Outcomes
    <3>2. pp \in Peers
      BY <3>1, PeersAre
    <3>3. [actor[d] EXCEPT !.peers[c] = "Unavailable"] = [kind |-> kind, peers |-> pp]
      BY <1>1
    <3>4. [kind |-> kind, peers |-> pp] \in Phase
      BY <1>1, <3>2, PhaseIs
    <3>5. QED
      BY <1>0, <2>3, <3>1, <3>3, <3>4
  <2>4. QED
    BY <2>1, <2>2, <2>3
<1>5. QED
  BY <1>3, <1>4

LEMMA TaskSteps ==
  ASSUME TypeOK, Lives, NEW d \in Doc, HandleTask(d)
  PROVE  /\ UNCHANGED <<hubVars, apiVars>> /\ inbox[d] # <<>> /\ inbox[d] \in Seq(Task)
         /\ inbox' = [inbox EXCEPT ![d] = Tail(inbox[d])] /\ actor[d] \in Phase
         /\ \/ /\ Head(inbox[d]).kind = "terminate" /\ actor' = [actor EXCEPT ![d] = NoPhase]
               /\ toHub' = Append(toHub, [doc |-> d, phase |-> NoPhase])
            \/ \E a \in Phase :
                 /\ Head(inbox[d]).kind # "terminate" /\ Become(d, a)
                 /\ \A c \in DOMAIN a.peers :
                      \/ c \in DOMAIN actor[d].peers
                      \/ Head(inbox[d]).kind = "new" /\ c = Head(inbox[d]).conn
<1>0. /\ UNCHANGED <<hubVars, apiVars>> /\ inbox[d] # <<>> /\ inbox[d] \in Seq(Task)
      /\ inbox' = [inbox EXCEPT ![d] = Tail(inbox[d])] /\ actor[d] \in Phase
  BY DEF HandleTask, TypeOK, Lives
<1> DEFINE t == Head(inbox[d])
           p == actor[d].peers
           kind == actor[d].kind
           more == [c \in DOMAIN p \cup {t.conn} |-> IF c \in DOMAIN p THEN p[c] ELSE "Requested"]
           less == [c \in DOMAIN p \ {t.conn} |-> p[c]]
<1>1. t \in Task
  BY <1>0, Shortened
<1>2. /\ p \in Peers /\ kind \in {"Loading", "Searching", "Ready"}
      /\ actor[d] = [kind |-> kind, peers |-> p]
      /\ DOMAIN p \subseteq Conn /\ p \in [DOMAIN p -> Outcomes]
  BY <1>0, PhaseShape, PeersShape DEF Phase
<1>3. CASE t.kind = "new"
  <2>1. Become(d, [actor[d] EXCEPT !.peers = more])
    BY <1>3 DEF HandleTask
  <2>2. t.conn \in Conn
    BY <1>1, <1>3 DEF Task
  <2>3. more \in [DOMAIN p \cup {t.conn} -> Outcomes] /\ DOMAIN more = DOMAIN p \cup {t.conn}
    BY <1>2 DEF Outcomes
  <2>4. more \in Peers
    BY <1>2, <2>2, <2>3, PeersAre
  <2>5. [actor[d] EXCEPT !.peers = more] = [kind |-> kind, peers |-> more]
    BY <1>2
  <2>6. [kind |-> kind, peers |-> more] \in Phase
    BY <1>2, <2>4, PhaseIs
  <2> HIDE DEF more
  <2>7. QED
    BY <1>0, <1>3, <2>1, <2>3, <2>5, <2>6
<1>4. CASE t.kind = "closed"
  <2>1. Become(d, [actor[d] EXCEPT !.peers = less])
    BY <1>4 DEF HandleTask
  <2>2. less \in [DOMAIN p \ {t.conn} -> Outcomes] /\ DOMAIN less = DOMAIN p \ {t.conn}
    BY <1>2 DEF Outcomes
  <2>3. less \in Peers
    BY <1>2, <2>2, PeersAre
  <2>4. [actor[d] EXCEPT !.peers = less] = [kind |-> kind, peers |-> less]
    BY <1>2
  <2>5. [kind |-> kind, peers |-> less] \in Phase
    BY <1>2, <2>3, PhaseIs
  <2> HIDE DEF less
  <2>6. QED
    BY <1>0, <1>4, <2>1, <2>2, <2>4, <2>5
<1>5. CASE t.kind = "terminate"
  BY <1>0, <1>5 DEF HandleTask
<1>6. QED
  BY <1>1, <1>3, <1>4, <1>5 DEF Task

DialerActs(k) == TransportUp(k) \/ DialFails(k) \/ ShakeHands(k) \/ ConnectionLost(k) \/ Tick(k)

LEMMA DialerSteps ==
  ASSUME TypeOK, NEW k \in Dialer, DialerActs(k)
  PROVE  /\ runState = "Running" /\ UNCHANGED <<runState, creating, actor, toHub, pending, waiters, answer>>
         /\ dials' \in [Dialer -> 1 .. MaxDials]
         /\ \E to \in Statuses :
              /\ Finish(phase, [status EXCEPT ![k] = to])
              /\ to = "Connected" => status[k] = "Handshaking" /\ dials' = dials
              /\ to = "Handshaking" => status[k] = "Pending" /\ dials' = dials
              /\ to = "Pending" => status[k] = "WaitingToRetry"
              /\ to # "Pending" => dials' = dials
              /\ \A j \in Dialer : j # k => dials'[j] = dials[j]
         /\ \/ inbox' = inbox
            \/ \E t \in Task : t.kind # "terminate" /\ Tell(t) /\ (t.kind = "new" => Made(t.conn)')
         /\ \A c \in Conn : Made(c) => Made(c)'
<1> DEFINE Settled(from, to) ==
             /\ runState = "Running" /\ status[k] \in from
             /\ Finish(phase, [status EXCEPT ![k] = to])
             /\ UNCHANGED <<runState, creating, actor, toHub, pending, waiters, answer>>
<1>1. \A from, to : MoveDialer(k, from, to) => Settled(from, to) /\ status' = [status EXCEPT ![k] = to]
  BY DEF MoveDialer, Finish
<1>2. \A c \in Conn : c[1] \in Dialer /\ c[2] \in 1 .. MaxDials
  BY DEF Conn
<1>3. <<k, dials[k]>> \in Conn /\ status \in [Dialer -> Statuses] /\ dials \in [Dialer -> 1 .. MaxDials]
  BY DEF TypeOK, Conn
<1>4. CASE TransportUp(k)
  <2>1. Settled({"Pending"}, "Handshaking") /\ status' = [status EXCEPT ![k] = "Handshaking"]
        /\ dials' = dials /\ inbox' = inbox
    BY <1>1, <1>4 DEF TransportUp
  <2>2. \A c \in Conn : Made(c) => Made(c)'
    BY <1>2, <1>3, <2>1 DEF Made
  <2>3. QED
    BY <1>3, <2>1, <2>2 DEF Statuses
<1>5. CASE DialFails(k)
  <2>1. PICK to \in {"WaitingToRetry", "Failed"} : MoveDialer(k, {"Pending"}, to)
    BY <1>5 DEF DialFails
  <2>2. Settled({"Pending"}, to) /\ status' = [status EXCEPT ![k] = to] /\ dials' = dials /\ inbox' = inbox
    BY <1>1, <1>5, <2>1 DEF DialFails
  <2>3. \A c \in Conn : Made(c) => Made(c)'
    BY <1>2, <1>3, <2>2 DEF Made
  <2>4. QED
    BY <1>3, <2>2, <2>3 DEF Statuses
<1>6. CASE ShakeHands(k)
  <2> DEFINE t == [kind |-> "new", conn |-> <<k, dials[k]>>]
  <2>1. Settled({"Handshaking"}, "Connected") /\ status' = [status EXCEPT ![k] = "Connected"]
        /\ dials' = dials /\ Tell(t)
    BY <1>1, <1>6 DEF ShakeHands
  <2>2. \A c \in Conn : Made(c) => Made(c)'
    BY <1>2, <1>3, <2>1 DEF Made
  <2>3. t \in Task
    BY <1>3 DEF Task
  <2>4. PICK s \in Task : s = t
    BY <2>3
  <2>5. s.kind = "new" /\ s.conn = <<k, dials[k]>> /\ Tell(s)
    BY <2>1, <2>4
  <2>6. Made(s.conn)'
    BY <1>3, <2>1, <2>5 DEF Made
  <2> HIDE DEF t
  <2>7. QED
    BY <1>3, <2>1, <2>2, <2>5, <2>6 DEF Statuses
<1>7. CASE ConnectionLost(k)
  <2> DEFINE t == [kind |-> "closed", conn |-> <<k, dials[k]>>]
  <2>1. PICK to \in {"WaitingToRetry", "Failed"} : MoveDialer(k, {"Handshaking", "Connected"}, to)
    BY <1>7 DEF ConnectionLost
  <2>2. Settled({"Handshaking", "Connected"}, to) /\ status' = [status EXCEPT ![k] = to]
        /\ dials' = dials /\ Tell(t)
    BY <1>1, <1>7, <2>1 DEF ConnectionLost
  <2>3. \A c \in Conn : Made(c) => Made(c)'
    BY <1>2, <1>3, <2>2 DEF Made
  <2>4. t \in Task /\ t.kind = "closed"
    BY <1>3 DEF Task
  <2> HIDE DEF t
  <2>5. QED
    BY <1>3, <2>2, <2>3, <2>4 DEF Statuses
<1>8. CASE Tick(k)
  <2>1. Settled({"WaitingToRetry"}, "Pending") /\ status' = [status EXCEPT ![k] = "Pending"]
        /\ dials' = [dials EXCEPT ![k] = dials[k] + 1] /\ dials[k] < MaxDials /\ inbox' = inbox
    BY <1>1, <1>8 DEF Tick
  <2>2. dials' \in [Dialer -> 1 .. MaxDials]
    BY <1>3, <2>1
  <2>3. \A c \in Conn : Made(c) => Made(c)'
    BY <1>2, <1>3, <2>1 DEF Made
  <2>4. QED
    BY <1>3, <2>1, <2>2, <2>3 DEF Statuses
<1>9. QED
  BY <1>4, <1>5, <1>6, <1>7, <1>8 DEF DialerActs

LEMMA TellType ==
  ASSUME TypeOK, NEW t \in Task, Tell(t)
  PROVE  inbox' \in [Doc -> Seq(Task)]
<1>1. \A d \in Doc : inbox[d] \in Seq(Task) /\ Append(inbox[d], t) \in Seq(Task)
  BY Appended DEF TypeOK
<1>2. QED
  BY <1>1 DEF Tell

(* The steps of the specification, put together as the proofs take them.   *)
LEMMA Steps ==
  ASSUME [Next]_vars
  PROVE  \/ UNCHANGED vars
         \/ HubHandle
         \/ \E u \in Finder : Look(u)
         \/ \E d \in Doc : Loaded(d) \/ PeerAnswers(d)
         \/ \E d \in Doc : HandleTask(d)
         \/ \E k \in Dialer : DialerActs(k)
         \/ \E d \in Created : Create(d)
         \/ \E u \in Subscriber : Search(u)
         \/ \E w \in Stopper : Stop(w)
BY DEF Next, Works, DialerActs

LEMMA InitType ==
  ASSUME Init
  PROVE  TypeOK
<1>1. status \in [Dialer -> Statuses] /\ lastDialers \in [Dialer -> Statuses]
      /\ dials \in [Dialer -> 1 .. MaxDials]
  BY DEF Init, Statuses
<1>2. /\ phase \in [Doc -> Phase \cup {NoPhase}] /\ lastPhase \in [Doc -> Phase \cup {NoPhase}]
      /\ actor \in [Doc -> Phase \cup {NoPhase}] /\ last \in [Watcher -> SearchState \cup {NoPhase}]
  BY DEF Init
<1>3. inbox \in [Doc -> Seq(Task)] /\ toHub \in Seq(Reported)
  BY DEF Init
<1>4. QED
  BY <1>1, <1>2, <1>3 DEF Init, TypeOK

LEMMA TypeStep ==
  ASSUME TypeOK, Lives, [Next]_vars
  PROVE  TypeOK'
<1>0. /\ toHub \in Seq(Reported) /\ phase \in [Doc -> Phase \cup {NoPhase}]
      /\ inbox \in [Doc -> Seq(Task)] /\ actor \in [Doc -> Phase \cup {NoPhase}]
      /\ status \in [Dialer -> Statuses] /\ answer \in [Call -> Answers]
      /\ Established \in SUBSET Conn
  BY EstablishedConns DEF TypeOK, Answers
<1>1. CASE UNCHANGED vars
  BY <1>1 DEF vars, hubVars, actorVars, apiVars, TypeOK
<1>2. CASE HubHandle
  <2> DEFINE m == Head(toHub)
             ph == [phase EXCEPT ![m.doc] = m.phase]
  <2>1. m \in Reported /\ Tail(toHub) \in Seq(Reported)
    BY <1>0, <1>2, Shortened DEF HubHandle
  <2>2. ph \in [Doc -> Phase \cup {NoPhase}]
    BY <1>0, <2>1 DEF Reported
  <2>3. Finish(ph, status)
    BY <1>2 DEF HubHandle
  <2> HIDE DEF ph
  <2>4. /\ phase' \in [Doc -> Phase \cup {NoPhase}] /\ status' \in [Dialer -> Statuses]
        /\ lastPhase' \in [Doc -> Phase \cup {NoPhase}] /\ lastDialers' \in [Dialer -> Statuses]
        /\ last' \in [Watcher -> SearchState \cup {NoPhase}]
        /\ verdict' \in [Finder -> {"open", "ok", "none"}]
    BY <1>0, <2>2, <2>3, FinishType
  <2>5. answer' \in [Call -> Answers]
    BY <1>0, <1>2 DEF HubHandle, Answers
  <2>6. /\ runState' \in {"Running", "Stopping", "Stopped"} /\ creating' \subseteq Created
        /\ pending' \subseteq Created /\ waiters' \subseteq Stopper
    BY <1>2 DEF HubHandle, TypeOK
  <2>7. toHub' \in Seq(Reported) /\ UNCHANGED <<dials, actor, inbox>>
    BY <1>2, <2>1 DEF HubHandle, actorVars
  <2>8. QED
    BY <2>4, <2>5, <2>6, <2>7 DEF TypeOK, Answers
<1>3. CASE \E u \in Finder : Look(u)
  BY <1>3, Calls DEF Look, TypeOK, hubVars, actorVars
<1>4. CASE \E d \in Doc : Loaded(d) \/ PeerAnswers(d)
  BY <1>4, ActorSteps, BecomeType DEF TypeOK, hubVars, apiVars
<1>5. CASE \E d \in Doc : HandleTask(d)
  <2>1. PICK d \in Doc : HandleTask(d)
    BY <1>5
  <2>2. UNCHANGED <<hubVars, apiVars>> /\ inbox' = [inbox EXCEPT ![d] = Tail(inbox[d])]
        /\ inbox[d] # <<>> /\ inbox[d] \in Seq(Task)
    BY <2>1, TaskSteps
  <2>3. inbox' \in [Doc -> Seq(Task)]
    <3>1. Tail(inbox[d]) \in Seq(Task)
      BY <2>2, Shortened
    <3>2. QED
      BY <1>0, <2>2, <3>1
  <2>4. actor' \in [Doc -> Phase \cup {NoPhase}] /\ toHub' \in Seq(Reported)
    <3>1. CASE /\ actor' = [actor EXCEPT ![d] = NoPhase]
               /\ toHub' = Append(toHub, [doc |-> d, phase |-> NoPhase])
      <4>1. [doc |-> d, phase |-> NoPhase] \in Reported
        BY DEF Reported
      <4>2. QED
        BY <1>0, <3>1, <4>1, Appended
    <3>2. CASE \E a \in Phase : Become(d, a)
      BY <3>2, BecomeType
    <3>3. QED
      BY <2>1, <3>1, <3>2, TaskSteps
  <2>5. QED
    BY <2>2, <2>3, <2>4 DEF TypeOK, hubVars, apiVars
<1>6. CASE \E k \in Dialer : DialerActs(k)
  <2>1. PICK k \in Dialer : DialerActs(k)
    BY <1>6
  <2>2. PICK to \in Statuses : Finish(phase, [status EXCEPT ![k] = to])
    BY <2>1, DialerSteps
  <2>3. [status EXCEPT ![k] = to] \in [Dialer -> Statuses]
    BY <1>0
  <2>4. /\ phase' \in [Doc -> Phase \cup {NoPhase}] /\ status' \in [Dialer -> Statuses]
        /\ lastPhase' \in [Doc -> Phase \cup {NoPhase}] /\ lastDialers' \in [Dialer -> Statuses]
        /\ last' \in [Watcher -> SearchState \cup {NoPhase}]
        /\ verdict' \in [Finder -> {"open", "ok", "none"}]
    BY <1>0, <2>2, <2>3, FinishType
  <2>5. inbox' \in [Doc -> Seq(Task)]
    BY <1>0, <2>1, DialerSteps, TellType
  <2>6. UNCHANGED <<runState, creating, actor, toHub, pending, waiters, answer>>
        /\ dials' \in [Dialer -> 1 .. MaxDials]
    BY <2>1, DialerSteps
  <2>7. QED
    BY <2>4, <2>5, <2>6 DEF TypeOK
<1>7. CASE \E d \in Created : Create(d)
  <2>1. PICK d \in Created : Create(d)
    BY <1>7
  <2>2. d \in Doc /\ d \in Call
    BY Calls
  <2>3. answer' \in [Call -> Answers] /\ pending' \subseteq Created
        /\ UNCHANGED <<runState, dials, inbox, waiters>>
    BY <1>0, <2>1, <2>2 DEF Create, TypeOK, Answers
  <2>4. CASE runState = "Running"
    <3> DEFINE a == [kind |-> "Ready", peers |-> Asked(Established)]
               m == [doc |-> d, phase |-> Ready]
               ph == [phase EXCEPT ![d] = Loading]
    <3>1. a \in Phase /\ m \in Reported /\ ph \in [Doc -> Phase \cup {NoPhase}]
      BY <1>0, <2>2, AskedShape, PhaseIs, FixedPhases DEF Reported
    <3>2. creating' = creating \cup {d} /\ actor' = [actor EXCEPT ![d] = a] /\ toHub' = Append(toHub, m)
          /\ Finish(ph, status)
      BY <2>1, <2>4 DEF Create
    <3> HIDE DEF a, m, ph
    <3>3. actor' \in [Doc -> Phase \cup {NoPhase}] /\ toHub' \in Seq(Reported) /\ creating' \subseteq Created
      <4>1. toHub' \in Seq(Reported)
        BY <1>0, <3>1, <3>2, Appended
      <4>2. actor' \in [Doc -> Phase \cup {NoPhase}]
        BY <1>0, <3>1, <3>2
      <4>3. creating' \subseteq Created
        BY <2>1, <3>2 DEF TypeOK
      <4>4. QED
        BY <4>1, <4>2, <4>3
    <3>4. /\ phase' \in [Doc -> Phase \cup {NoPhase}] /\ status' \in [Dialer -> Statuses]
          /\ lastPhase' \in [Doc -> Phase \cup {NoPhase}] /\ lastDialers' \in [Dialer -> Statuses]
          /\ last' \in [Watcher -> SearchState \cup {NoPhase}]
          /\ verdict' \in [Finder -> {"open", "ok", "none"}]
      BY <1>0, <3>1, <3>2, FinishType
    <3>5. QED
      BY <2>3, <3>3, <3>4 DEF TypeOK, Answers
  <2>5. CASE runState # "Running"
    BY <2>1, <2>3, <2>5 DEF Create, TypeOK, Answers
  <2>6. QED
    BY <2>4, <2>5
<1>8. CASE \E u \in Subscriber : Search(u)
  <2>1. PICK u \in Subscriber : Search(u)
    BY <1>8
  <2> DEFINE d == DocOf[u]
             ph == IF phase[d] = NoPhase THEN [phase EXCEPT ![d] = Loading] ELSE phase
             first == Shown(ph[d], status)
             a == [kind |-> "Loading", peers |-> Asked(Established)]
  <2>2. d \in Doc /\ u \in Call /\ u \in Finder \cup Watcher
    BY Calls DEF Subscriber
  <2>3. ph \in [Doc -> Phase \cup {NoPhase}] /\ ph[d] \in Phase
    BY <1>0, <2>2, FixedPhases
  <2>4. a \in Phase
    BY <1>0, AskedShape, PhaseIs
  <2>5. first \in SearchState
    BY <2>3, ShownShape
  <2>6. UNCHANGED <<runState, status, dials, lastDialers, creating, inbox, toHub, pending, waiters>>
    BY <2>1 DEF Search
  <2>7. CASE runState = "Running"
    <3>1. /\ answer' = [answer EXCEPT ![u] = IF u \in Finder THEN "waiting" ELSE "ok"]
          /\ phase' = ph /\ lastPhase' = [lastPhase EXCEPT ![d] = ph[d]]
          /\ actor' = IF phase[d] = NoPhase THEN [actor EXCEPT ![d] = a] ELSE actor
          /\ last' = [w \in Watcher |-> IF w = u THEN first ELSE last[w]]
          /\ verdict' = [f \in Finder |-> IF f = u THEN Decided("open", first) ELSE verdict[f]]
      BY <2>1, <2>7 DEF Search
    <3> HIDE DEF ph, first, a
    <3>2. phase' \in [Doc -> Phase \cup {NoPhase}] /\ lastPhase' \in [Doc -> Phase \cup {NoPhase}]
          /\ actor' \in [Doc -> Phase \cup {NoPhase}]
      BY <1>0, <2>3, <2>4, <3>1 DEF TypeOK
    <3>3. last' \in [Watcher -> SearchState \cup {NoPhase}]
      BY <2>5, <3>1 DEF TypeOK
    <3>4. verdict' \in [Finder -> {"open", "ok", "none"}]
      BY <3>1, DecidedShape DEF TypeOK
    <3>5. answer' \in [Call -> Answers]
      BY <1>0, <3>1 DEF Answers
    <3>6. QED
      BY <2>6, <3>2, <3>3, <3>4, <3>5 DEF TypeOK, Answers
  <2>8. CASE runState # "Running"
    BY <2>1, <2>2, <2>6, <2>8 DEF Search, TypeOK
  <2>9. QED
    BY <2>7, <2>8
<1>9. CASE \E w \in Stopper : Stop(w)
  <2>1. PICK w \in Stopper : Stop(w)
    BY <1>9
  <2>2. UNCHANGED <<dials, creating, actor, toHub>> /\ pending' = {} /\ waiters' \subseteq Stopper
    BY <2>1 DEF Stop, TypeOK
  <2>3. answer' \in [Call -> Answers]
    BY <1>0, <2>1 DEF Stop, Answers
  <2>4. CASE runState = "Running"
    <3> DEFINE st == [k \in Dialer |-> "Removed"]
               t == [kind |-> "terminate"]
    <3>1. runState' \in {"Stopped", "Stopping"} /\ Finish(phase, st)
          /\ inbox' = [d \in Doc |-> IF phase[d] = NoPhase THEN inbox[d] ELSE Append(inbox[d], t)]
      BY <2>1, <2>4 DEF Stop
    <3>2. st \in [Dialer -> Statuses] /\ t \in Task
      BY DEF Statuses, Task
    <3> HIDE DEF st, t
    <3>3. Tell(t)
      BY <3>1 DEF Tell
    <3>4. inbox' \in [Doc -> Seq(Task)]
      BY <3>2, <3>3, TellType
    <3>5. /\ phase' \in [Doc -> Phase \cup {NoPhase}] /\ status' \in [Dialer -> Statuses]
          /\ lastPhase' \in [Doc -> Phase \cup {NoPhase}] /\ lastDialers' \in [Dialer -> Statuses]
          /\ last' \in [Watcher -> SearchState \cup {NoPhase}]
          /\ verdict' \in [Finder -> {"open", "ok", "none"}]
      BY <1>0, <3>1, <3>2, FinishType
    <3>6. QED
      BY <2>2, <2>3, <3>1, <3>4, <3>5 DEF TypeOK, Answers
  <2>5. CASE runState # "Running"
    BY <2>1, <2>2, <2>3, <2>5 DEF Stop, TypeOK, Answers
  <2>6. QED
    BY <2>4, <2>5
<1>10. QED
  BY <1>1, <1>2, <1>3, <1>4, <1>5, <1>6, <1>7, <1>8, <1>9, Steps

----------------------------------------------------------------------------
(* Actors live and end as the hub believes.                                *)

LEMMA InitLives ==
  ASSUME Init
  PROVE  Lives
BY DEF Init, Lives

(* A living actor reports, or not.                                         *)
LEMMA LivesOn ==
  ASSUME TypeOK, Lives, NEW d \in Doc, NEW a \in Phase, Become(d, a), actor[d] \in Phase,
         UNCHANGED hubVars,
         \/ inbox' = inbox
         \/ /\ inbox[d] # <<>> /\ Head(inbox[d]).kind # "terminate"
            /\ inbox' = [inbox EXCEPT ![d] = Tail(inbox[d])]
  PROVE  Lives'
<1>0. /\ toHub \in Seq(Reported) /\ \A e \in Doc : inbox[e] \in Seq(Task)
      /\ inbox \in [Doc -> Seq(Task)]
      /\ phase' = phase /\ runState' = runState
  BY DEF TypeOK, hubVars
<1>1. /\ actor'[d] # NoPhase /\ actor[d] # NoPhase
      /\ \A e \in Doc : e # d => actor'[e] = actor[e]
  <2>1. actor' = [actor EXCEPT ![d] = a] /\ actor \in [Doc -> Phase \cup {NoPhase}]
    BY BecomeType DEF TypeOK
  <2>2. a # NoPhase /\ actor[d] # NoPhase
    BY PhaseShape
  <2>3. QED
    BY <2>1, <2>2
<1>2. phase[d] # NoPhase
  BY <1>1 DEF Lives
<1>3. \/ toHub' = toHub
      \/ \E m \in Reported :
            /\ m.doc = d /\ m.phase # NoPhase /\ Len(toHub) \in Nat /\ Len(toHub') = Len(toHub) + 1
            /\ \A i \in 1 .. Len(toHub') : \/ i \in 1 .. Len(toHub) /\ toHub'[i] = toHub[i]
                                           \/ i = Len(toHub) + 1 /\ toHub'[i] = m
  <2> DEFINE m == [doc |-> d, phase |-> Report(a)]
  <2>1. toHub' = toHub \/ toHub' = Append(toHub, m)
    BY BecomeType
  <2>2. Report(a) \in Phase /\ Report(a) # NoPhase
    BY ReportShape, PhaseShape
  <2>3. m \in Reported /\ m.doc = d /\ m.phase # NoPhase
    BY <2>2 DEF Reported
  <2> HIDE DEF m
  <2>4. QED
    BY <1>0, <2>1, <2>3, OneMore
<1>4. \A e \in Doc : phase'[e] = NoPhase =>
        actor'[e] = NoPhase /\ \A i \in 1 .. Len(toHub') : toHub'[i].doc # e
  <2>1. CASE toHub' = toHub
    BY <1>0, <1>1, <1>2, <2>1 DEF Lives
  <2>2. CASE toHub' # toHub
    <3> TAKE e \in Doc
    <3>1. phase[e] = NoPhase => e # d /\ actor'[e] = NoPhase /\ \A i \in 1 .. Len(toHub) : toHub[i].doc # e
      BY <1>1, <1>2 DEF Lives
    <3>2. QED
      BY <1>0, <1>3, <2>2, <3>1
  <2>3. QED
    BY <2>1, <2>2
<1>5. ASSUME NEW e \in Doc PROVE
        \A i \in 1 .. Len(toHub') : toHub'[i].doc = e /\ toHub'[i].phase = NoPhase =>
           actor'[e] = NoPhase /\ \A j \in 1 .. Len(toHub') : j > i => toHub'[j].doc # e
  <2>1. \A i \in 1 .. Len(toHub) : toHub[i].doc = e /\ toHub[i].phase = NoPhase =>
           e # d /\ actor[e] = NoPhase /\ \A j \in 1 .. Len(toHub) : j > i => toHub[j].doc # e
    BY <1>1 DEF Lives
  <2>2. CASE toHub' = toHub
    BY <1>1, <2>1, <2>2
  <2>3. CASE toHub' # toHub
    BY <1>1, <1>3, <2>1, <2>3
  <2>4. QED
    BY <2>2, <2>3
<1>6. ASSUME NEW e \in Doc PROVE
        /\ actor'[e] = NoPhase => inbox'[e] = <<>>
        /\ actor'[e] = NoPhase /\ phase'[e] # NoPhase => runState' # "Running"
        /\ \A i \in 1 .. Len(inbox'[e]) :
             inbox'[e][i].kind = "terminate" => i = Len(inbox'[e]) /\ runState' # "Running"
  <2>1. \A i \in 1 .. Len(inbox[e]) :
             inbox[e][i].kind = "terminate" => i = Len(inbox[e]) /\ runState # "Running"
    BY DEF Lives
  <2>2. CASE inbox'[e] = inbox[e]
    BY <1>0, <1>1, <2>1, <2>2 DEF Lives
  <2>3. CASE e = d /\ inbox[d] # <<>> /\ inbox'[d] = Tail(inbox[d])
    BY <1>0, <1>1, <2>1, <2>3, Shortened
  <2>4. QED
    BY <1>0, <2>2, <2>3
<1>7. QED
  BY <1>4, <1>5, <1>6 DEF Lives

(* Tasks that the hub of a running repo gives to the living.               *)
LEMMA LivesTold ==
  ASSUME TypeOK, Lives, runState = "Running", NEW t \in Task,
         \/ inbox' = inbox
         \/ Tell(t) /\ (t.kind = "terminate" => runState' # "Running"),
         UNCHANGED <<actor, toHub, phase>>
  PROVE  Lives'
<1>0. \A d \in Doc : inbox[d] \in Seq(Task)
  BY DEF TypeOK
<1>1. \A d \in Doc : actor[d] = NoPhase <=> phase[d] = NoPhase
  BY DEF Lives
<1>2. ASSUME NEW d \in Doc PROVE
        /\ actor'[d] = NoPhase => inbox'[d] = <<>>
        /\ \A i \in 1 .. Len(inbox'[d]) :
             inbox'[d][i].kind = "terminate" => i = Len(inbox'[d]) /\ runState' # "Running"
  <2>1. \A i \in 1 .. Len(inbox[d]) : inbox[d][i].kind # "terminate"
    BY DEF Lives
  <2>2. CASE inbox'[d] = inbox[d]
    BY <2>1, <2>2 DEF Lives
  <2>3. CASE phase[d] # NoPhase /\ inbox'[d] = Append(inbox[d], t) /\ (t.kind = "terminate" => runState' # "Running")
    BY <1>0, <1>1, <2>1, <2>3, Appended
  <2>4. QED
    BY <2>2, <2>3 DEF Tell
<1>3. ASSUME NEW d \in Doc PROVE
        /\ phase'[d] = NoPhase => actor'[d] = NoPhase /\ \A i \in 1 .. Len(toHub') : toHub'[i].doc # d
        /\ actor'[d] = NoPhase /\ phase'[d] # NoPhase => runState' # "Running"
        /\ \A i \in 1 .. Len(toHub') : toHub'[i].doc = d /\ toHub'[i].phase = NoPhase =>
           actor'[d] = NoPhase /\ \A j \in 1 .. Len(toHub') : j > i => toHub'[j].doc # d
  BY <1>1 DEF Lives
<1>4. QED
  BY <1>2, <1>3 DEF Lives

LEMMA LivesStep ==
  ASSUME TypeOK, Lives, [Next]_vars,
         \A d \in Created : answer[d] = "idle" => phase[d] = NoPhase
  PROVE  Lives'
<1>0. /\ toHub \in Seq(Reported) /\ phase \in [Doc -> Phase \cup {NoPhase}]
      /\ inbox \in [Doc -> Seq(Task)] /\ actor \in [Doc -> Phase \cup {NoPhase}]
      /\ Established \in SUBSET Conn
  BY EstablishedConns DEF TypeOK
<1>1. CASE UNCHANGED vars
  BY <1>1 DEF vars, hubVars, actorVars, Lives
<1>2. CASE HubHandle
  <2> DEFINE m == Head(toHub)
  <2>1. /\ m \in Reported /\ m = toHub[1] /\ Len(toHub) >= 1 /\ Len(toHub) \in Nat
        /\ toHub' = Tail(toHub) /\ Len(toHub') = Len(toHub) - 1
        /\ \A i \in 1 .. Len(toHub') : toHub'[i] = toHub[i + 1]
    BY <1>0, <1>2, Shortened DEF HubHandle
  <2>2. phase' = [phase EXCEPT ![m.doc] = m.phase] /\ UNCHANGED <<actor, inbox>>
    BY <1>2 DEF HubHandle, Finish, actorVars
  <2>3. runState # "Running" => runState' # "Running"
    BY <1>2 DEF HubHandle
  <2>4. m.doc \in Doc
    BY <2>1 DEF Reported
  <2>5. ASSUME NEW d \in Doc PROVE
          phase'[d] = NoPhase => actor'[d] = NoPhase /\ \A i \in 1 .. Len(toHub') : toHub'[i].doc # d
    <3>1. CASE d # m.doc
      BY <1>0, <2>1, <2>2, <3>1 DEF Lives
    <3>2. CASE d = m.doc /\ m.phase = NoPhase
      <4>1. actor[d] = NoPhase /\ \A j \in 1 .. Len(toHub) : j > 1 => toHub[j].doc # d
        BY <2>1, <3>2 DEF Lives
      <4>2. QED
        BY <2>1, <2>2, <4>1
    <3>3. CASE d = m.doc /\ m.phase # NoPhase
      BY <1>0, <2>2, <3>3
    <3>4. QED
      BY <3>1, <3>2, <3>3
  <2>6. ASSUME NEW d \in Doc PROVE
          actor'[d] = NoPhase /\ phase'[d] # NoPhase => runState' # "Running"
    <3>1. phase[d] = NoPhase => d # m.doc
      BY <2>1 DEF Lives
    <3>2. QED
      BY <1>0, <2>2, <2>3, <3>1 DEF Lives
  <2>7. ASSUME NEW d \in Doc PROVE
          \A i \in 1 .. Len(toHub') : toHub'[i].doc = d /\ toHub'[i].phase = NoPhase =>
             actor'[d] = NoPhase /\ \A j \in 1 .. Len(toHub') : j > i => toHub'[j].doc # d
    <3>1. \A i \in 1 .. Len(toHub) : toHub[i].doc = d /\ toHub[i].phase = NoPhase =>
             actor[d] = NoPhase /\ \A j \in 1 .. Len(toHub) : j > i => toHub[j].doc # d
      BY DEF Lives
    <3>2. QED
      BY <2>1, <2>2, <3>1
  <2>8. ASSUME NEW d \in Doc PROVE
          /\ actor'[d] = NoPhase => inbox'[d] = <<>>
          /\ \A i \in 1 .. Len(inbox'[d]) :
               inbox'[d][i].kind = "terminate" => i = Len(inbox'[d]) /\ runState' # "Running"
    BY <2>2, <2>3 DEF Lives
  <2>9. QED
    BY <2>5, <2>6, <2>7, <2>8 DEF Lives
<1>3. CASE \E u \in Finder : Look(u)
  BY <1>3 DEF Look, hubVars, actorVars, Lives
<1>4. CASE \E d \in Doc : Loaded(d) \/ PeerAnswers(d)
  BY <1>4, ActorSteps, LivesOn
<1>5. CASE \E d \in Doc : HandleTask(d)
  <2>1. PICK d \in Doc : HandleTask(d)
    BY <1>5
  <2>2. /\ UNCHANGED <<hubVars, apiVars>> /\ inbox[d] # <<>> /\ inbox[d] \in Seq(Task)
        /\ inbox' = [inbox EXCEPT ![d] = Tail(inbox[d])] /\ actor[d] \in Phase
    BY <2>1, TaskSteps
  <2>3. CASE \E a \in Phase : Head(inbox[d]).kind # "terminate" /\ Become(d, a)
    BY <2>2, <2>3, LivesOn
  <2>4. CASE /\ Head(inbox[d]).kind = "terminate" /\ actor' = [actor EXCEPT ![d] = NoPhase]
             /\ toHub' = Append(toHub, [doc |-> d, phase |-> NoPhase])
    <3>1. inbox'[d] = <<>> /\ runState # "Running"
      <4>1. inbox[d][1].kind = "terminate" /\ 1 \in 1 .. Len(inbox[d])
        BY <2>2, <2>4, Shortened
      <4>2. 1 = Len(inbox[d]) /\ runState # "Running"
        BY <4>1 DEF Lives
      <4>3. Tail(inbox[d]) \in Seq(Task) /\ Len(Tail(inbox[d])) = 0
        BY <2>2, <4>2, Shortened
      <4>4. Tail(inbox[d]) = <<>>
        BY <4>3, EmptySeq
      <4>5. QED
        BY <1>0, <2>2, <4>2, <4>4
    <3>2. PICK m \in Reported : toHub' = Append(toHub, m) /\ m.doc = d /\ m.phase = NoPhase
      <4>1. [doc |-> d, phase |-> NoPhase] \in Reported
        BY DEF Reported
      <4>2. QED
        BY <2>4, <4>1
    <3>a. /\ Len(toHub) \in Nat /\ Len(toHub') = Len(toHub) + 1
          /\ \A i \in 1 .. Len(toHub') : \/ i \in 1 .. Len(toHub) /\ toHub'[i] = toHub[i]
                                         \/ i = Len(toHub) + 1 /\ toHub'[i] = m
      BY <1>0, <3>2, OneMore
    <3>3. actor'[d] = NoPhase /\ \A e \in Doc : e # d => actor'[e] = actor[e] /\ inbox'[e] = inbox[e]
      BY <1>0, <2>2, <2>4
    <3>4. phase' = phase /\ runState' = runState
      BY <2>2 DEF hubVars
    <3>5. actor[d] # NoPhase /\ phase[d] # NoPhase
      BY <2>2, PhaseShape DEF Lives
    <3>6. \A i \in 1 .. Len(toHub) : toHub[i].doc = d => toHub[i].phase # NoPhase
      BY <3>5 DEF Lives
    <3>7. ASSUME NEW e \in Doc PROVE
            \A i \in 1 .. Len(toHub') : toHub'[i].doc = e /\ toHub'[i].phase = NoPhase =>
               actor'[e] = NoPhase /\ \A j \in 1 .. Len(toHub') : j > i => toHub'[j].doc # e
      <4>1. \A i \in 1 .. Len(toHub) : toHub[i].doc = e /\ toHub[i].phase = NoPhase =>
               actor[e] = NoPhase /\ \A j \in 1 .. Len(toHub) : j > i => toHub[j].doc # e
        BY DEF Lives
      <4>2. CASE e = d
        BY <3>2, <3>3, <3>a, <3>6, <4>2
      <4>3. CASE e # d
        BY <3>2, <3>3, <3>a, <4>1, <4>3
      <4>4. QED
        BY <4>2, <4>3
    <3>8. ASSUME NEW e \in Doc PROVE
            /\ phase'[e] = NoPhase => actor'[e] = NoPhase /\ \A i \in 1 .. Len(toHub') : toHub'[i].doc # e
            /\ actor'[e] = NoPhase => inbox'[e] = <<>>
            /\ actor'[e] = NoPhase /\ phase'[e] # NoPhase => runState' # "Running"
            /\ \A i \in 1 .. Len(inbox'[e]) :
                 inbox'[e][i].kind = "terminate" => i = Len(inbox'[e]) /\ runState' # "Running"
      <4>1. CASE e = d
        BY <3>1, <3>3, <3>4, <3>5, <4>1
      <4>2. CASE e # d
        BY <3>2, <3>3, <3>4, <3>a, <4>2 DEF Lives
      <4>3. QED
        BY <4>1, <4>2
    <3>9. QED
      BY <3>7, <3>8 DEF Lives
  <2>5. QED
    BY <2>1, <2>3, <2>4, TaskSteps
<1>6. CASE \E k \in Dialer : DialerActs(k)
  <2>1. PICK k \in Dialer : DialerActs(k)
    BY <1>6
  <2>2. runState = "Running" /\ UNCHANGED <<actor, toHub, phase>>
    BY <2>1, DialerSteps DEF Finish
  <2>3. [kind |-> "terminate"] \in Task
    BY DEF Task
  <2>4. inbox' = inbox \/ \E t \in Task : t.kind # "terminate" /\ Tell(t)
    BY <2>1, DialerSteps
  <2>5. QED
    BY <2>2, <2>3, <2>4, LivesTold
<1>7. CASE \E d \in Created : Create(d)
  <2>1. PICK d \in Created : Create(d)
    BY <1>7
  <2>2. d \in Doc /\ phase[d] = NoPhase
    BY <2>1, Calls DEF Create
  <2>3. CASE runState = "Running"
    <3> DEFINE a == [kind |-> "Ready", peers |-> Asked(Established)]
               m == [doc |-> d, phase |-> Ready]
    <3>1. a \in Phase /\ a # NoPhase /\ m \in Reported /\ m.doc = d /\ m.phase # NoPhase /\ Loading # NoPhase
      BY <1>0, <2>2, AskedShape, PhaseIs, PhaseShape, FixedPhases DEF Reported
    <3>2. actor' = [actor EXCEPT ![d] = a] /\ toHub' = Append(toHub, m)
          /\ phase' = [phase EXCEPT ![d] = Loading] /\ UNCHANGED <<runState, inbox>>
      BY <2>1, <2>3 DEF Create, Finish
    <3> HIDE DEF a, m
    <3>3. /\ Len(toHub) \in Nat /\ Len(toHub') = Len(toHub) + 1
          /\ \A i \in 1 .. Len(toHub') : \/ i \in 1 .. Len(toHub) /\ toHub'[i] = toHub[i]
                                         \/ i = Len(toHub) + 1 /\ toHub'[i] = m
      BY <1>0, <3>1, <3>2, OneMore
    <3>4. /\ actor'[d] # NoPhase /\ phase'[d] # NoPhase
          /\ \A e \in Doc : e # d => actor'[e] = actor[e] /\ phase'[e] = phase[e]
      BY <1>0, <2>2, <3>1, <3>2
    <3>5. \A i \in 1 .. Len(toHub) : toHub[i].doc # d
      BY <2>2 DEF Lives
    <3>6. ASSUME NEW e \in Doc PROVE
            \A i \in 1 .. Len(toHub') : toHub'[i].doc = e /\ toHub'[i].phase = NoPhase =>
               actor'[e] = NoPhase /\ \A j \in 1 .. Len(toHub') : j > i => toHub'[j].doc # e
      <4>1. \A i \in 1 .. Len(toHub) : toHub[i].doc = e /\ toHub[i].phase = NoPhase =>
               actor[e] = NoPhase /\ \A j \in 1 .. Len(toHub) : j > i => toHub[j].doc # e
        BY DEF Lives
      <4>2. QED
        BY <1>0, <3>1, <3>3, <3>4, <3>5, <4>1
    <3>7. ASSUME NEW e \in Doc PROVE
            /\ phase'[e] = NoPhase => actor'[e] = NoPhase /\ \A i \in 1 .. Len(toHub') : toHub'[i].doc # e
            /\ actor'[e] = NoPhase => inbox'[e] = <<>>
            /\ actor'[e] = NoPhase /\ phase'[e] # NoPhase => runState' # "Running"
            /\ \A i \in 1 .. Len(inbox'[e]) :
                 inbox'[e][i].kind = "terminate" => i = Len(inbox'[e]) /\ runState' # "Running"
      <4>1. CASE e = d
        BY <2>3, <3>2, <3>4, <4>1 DEF Lives
      <4>2. CASE e # d
        BY <2>3, <3>1, <3>2, <3>3, <3>4, <4>2 DEF Lives
      <4>3. QED
        BY <4>1, <4>2
    <3>8. QED
      BY <3>6, <3>7 DEF Lives
  <2>4. CASE runState # "Running"
    BY <2>1, <2>4 DEF Create, Lives
  <2>5. QED
    BY <2>3, <2>4
<1>8. CASE \E u \in Subscriber : Search(u)
  <2>1. PICK u \in Subscriber : Search(u)
    BY <1>8
  <2> DEFINE d == DocOf[u]
             a == [kind |-> "Loading", peers |-> Asked(Established)]
  <2>2. d \in Doc /\ UNCHANGED <<runState, inbox, toHub>>
    BY <2>1, Calls DEF Search
  <2>3. CASE runState = "Running" /\ phase[d] = NoPhase
    <3>1. a \in Phase /\ a # NoPhase /\ Loading # NoPhase
      BY <1>0, AskedShape, PhaseIs, PhaseShape, FixedPhases
    <3>2. actor' = [actor EXCEPT ![d] = a] /\ phase' = [phase EXCEPT ![d] = Loading]
      BY <2>1, <2>3 DEF Search
    <3> HIDE DEF a
    <3>3. /\ actor'[d] # NoPhase /\ phase'[d] # NoPhase
          /\ \A e \in Doc : e # d => actor'[e] = actor[e] /\ phase'[e] = phase[e]
      BY <1>0, <2>2, <3>1, <3>2
    <3>4. \A i \in 1 .. Len(toHub) : toHub[i].doc # d
      BY <2>2, <2>3 DEF Lives
    <3> HIDE DEF d
    <3>5. QED
      BY <2>2, <3>3, <3>4 DEF Lives
  <2>4. CASE runState # "Running" \/ phase[d] # NoPhase
    <3>1. actor' = actor /\ phase' = phase
      BY <2>1, <2>4 DEF Search
    <3>2. QED
      BY <2>2, <3>1 DEF Lives
  <2>5. QED
    BY <2>3, <2>4
<1>9. CASE \E w \in Stopper : Stop(w)
  <2>1. PICK w \in Stopper : Stop(w)
    BY <1>9
  <2>2. CASE runState = "Running"
    <3> DEFINE t == [kind |-> "terminate"]
    <3>1. /\ runState' # "Running" /\ UNCHANGED <<actor, toHub, phase>>
          /\ inbox' = [d \in Doc |-> IF phase[d] = NoPhase THEN inbox[d] ELSE Append(inbox[d], t)]
      BY <2>1, <2>2 DEF Stop, Finish
    <3>2. t \in Task
      BY DEF Task
    <3> HIDE DEF t
    <3>3. Tell(t)
      BY <3>1 DEF Tell
    <3>4. QED
      BY <2>2, <3>1, <3>2, <3>3, LivesTold
  <2>3. CASE runState # "Running"
    BY <2>1, <2>3 DEF Stop, Lives
  <2>4. QED
    BY <2>2, <2>3
<1>10. QED
  BY <1>1, <1>2, <1>3, <1>4, <1>5, <1>6, <1>7, <1>8, <1>9, Steps

----------------------------------------------------------------------------
(* Nobody reports a connection before the hub announced it.                *)

OnlyMade ==
  /\ \A d \in Doc : phase[d] # NoPhase => Real(phase[d])
  /\ \A d \in Doc : actor[d] # NoPhase => Real(actor[d])
  /\ \A d \in Doc : \A i \in 1 .. Len(inbox[d]) : inbox[d][i].kind = "new" => Made(inbox[d][i].conn)
  /\ \A i \in 1 .. Len(toHub) : toHub[i].phase # NoPhase => Real(toHub[i].phase)

LEMMA InitMade ==
  ASSUME Init
  PROVE  OnlyMade
BY DEF Init, OnlyMade

(* Nothing is unmade.                                                      *)
LEMMA MadeStays ==
  ASSUME TypeOK, [Next]_vars
  PROVE  /\ \A c \in Conn : Made(c) => Made(c)'
         /\ \A a \in Phase : Real(a) => Real(a)'
<1>0. /\ status \in [Dialer -> Statuses] /\ dials \in [Dialer -> 1 .. MaxDials]
      /\ \A c \in Conn : c[1] \in Dialer /\ c[2] \in 1 .. MaxDials
  BY DEF TypeOK, Conn
<1>1. \A c \in Conn : Made(c) => Made(c)'
  <2>1. CASE status' = status /\ dials' = dials
    BY <2>1 DEF Made
  <2>2. CASE \E k \in Dialer : DialerActs(k)
    BY <2>2, DialerSteps
  <2>3. CASE \E w \in Stopper : Stop(w)
    <3>1. dials' = dials /\ (status' = status \/ status' = [k \in Dialer |-> "Removed"])
      BY <2>3 DEF Stop, Finish
    <3>2. QED
      BY <1>0, <3>1 DEF Made
  <2>4. UNCHANGED vars => status' = status /\ dials' = dials
    BY DEF vars, hubVars
  <2>5. HubHandle => status' = status /\ dials' = dials
    BY DEF HubHandle, Finish
  <2>6. (\E u \in Finder : Look(u)) => status' = status /\ dials' = dials
    BY DEF Look, hubVars
  <2>7. (\E d \in Doc : Loaded(d) \/ PeerAnswers(d)) => status' = status /\ dials' = dials
    BY DEF Loaded, PeerAnswers, hubVars
  <2>8. (\E d \in Doc : HandleTask(d)) => status' = status /\ dials' = dials
    BY DEF HandleTask, hubVars
  <2>9. (\E d \in Created : Create(d)) => status' = status /\ dials' = dials
    BY DEF Create, Finish
  <2>10. (\E u \in Subscriber : Search(u)) => status' = status /\ dials' = dials
    BY DEF Search
  <2>11. QED
    BY <2>1, <2>2, <2>3, <2>4, <2>5, <2>6, <2>7, <2>8, <2>9, <2>10, Steps
<1>2. QED
  BY <1>1, PhaseShape DEF Real

LEMMA ReportsKnown ==
  ASSUME TypeOK, OnlyMade
  PROVE  \A i \in 1 .. Len(toHub) :
           /\ toHub[i].doc \in Doc /\ toHub[i].phase \in Phase \cup {NoPhase}
           /\ toHub[i].phase # NoPhase => toHub[i].phase \in Phase /\ Real(toHub[i].phase)
<1> SUFFICES ASSUME NEW i \in 1 .. Len(toHub)
             PROVE  /\ toHub[i].doc \in Doc /\ toHub[i].phase \in Phase \cup {NoPhase}
                    /\ toHub[i].phase # NoPhase => toHub[i].phase \in Phase /\ Real(toHub[i].phase)
  OBVIOUS
<1>1. toHub[i] \in Reported
  BY ElementOfSeq DEF TypeOK
<1>2. toHub[i].doc \in Doc /\ toHub[i].phase \in Phase \cup {NoPhase}
  BY <1>1 DEF Reported
<1>3. toHub[i].phase # NoPhase => Real(toHub[i].phase)
  BY DEF OnlyMade
<1>4. QED
  BY <1>2, <1>3

(* A report has no connection that the actor has not.                      *)
LEMMA MadeReport ==
  ASSUME TypeOK, OnlyMade, [Next]_vars, NEW d \in Doc, NEW a \in Phase, Become(d, a), Real(a)'
  PROVE  /\ \A e \in Doc : actor'[e] # NoPhase => Real(actor[e])'
         /\ \A i \in 1 .. Len(toHub') : toHub'[i].phase # NoPhase => Real(toHub[i].phase)'
<1>0. toHub \in Seq(Reported) /\ actor \in [Doc -> Phase \cup {NoPhase}]
  BY DEF TypeOK
<1>1. \A e \in Doc : actor'[e] # NoPhase => Real(actor[e])'
  <2> SUFFICES ASSUME NEW e \in Doc, actor'[e] # NoPhase PROVE Real(actor[e])'
    OBVIOUS
  <2>1. actor' = [actor EXCEPT ![d] = a]
    BY BecomeType
  <2>2. CASE e = d
    <3>1. actor'[e] = a
      BY <1>0, <2>1, <2>2
    <3>2. QED
      BY <3>1 DEF Real
  <2>3. CASE e # d
    <3>1. actor'[e] = actor[e] /\ actor[e] \in Phase /\ Real(actor[e])
      BY <1>0, <2>1, <2>3 DEF OnlyMade
    <3>2. QED
      BY <3>1, MadeStays DEF Real
  <2>4. QED
    BY <2>2, <2>3
<1>2. \A i \in 1 .. Len(toHub) :
        toHub[i].phase # NoPhase => (Real(toHub[i].phase) /\ toHub[i].phase \in Phase)
  BY ReportsKnown
<1>3. CASE toHub' = toHub
  <2> SUFFICES ASSUME NEW i \in 1 .. Len(toHub'), toHub'[i].phase # NoPhase PROVE Real(toHub[i].phase)'
    BY <1>1
  <2>1. QED
    BY <1>2, <1>3, MadeStays DEF Real
<1>4. CASE toHub' = Append(toHub, [doc |-> d, phase |-> Report(a)])
  <2> DEFINE m == [doc |-> d, phase |-> Report(a)]
  <2>1. Real(Report(a))'
    BY ReportShape DEF Real
  <2>2. m \in Reported /\ m.phase = Report(a)
    BY ReportShape DEF Reported
  <2> HIDE DEF m
  <2>3. toHub' = Append(toHub, m)
    BY <1>4 DEF m
  <2>4. \A i \in 1 .. Len(toHub') : \/ i \in 1 .. Len(toHub) /\ toHub'[i] = toHub[i]
                                    \/ i = Len(toHub) + 1 /\ toHub'[i] = m
    BY <1>0, <2>2, <2>3, OneMore
  <2>5. ASSUME NEW i \in 1 .. Len(toHub'), toHub'[i].phase # NoPhase PROVE Real(toHub[i].phase)'
    <3>1. CASE i \in 1 .. Len(toHub) /\ toHub'[i] = toHub[i]
      BY <1>2, <2>5, <3>1, MadeStays
    <3>2. CASE toHub'[i] = m
      BY <2>1, <2>2, <3>2 DEF Real
    <3>3. QED
      BY <2>4, <3>1, <3>2
  <2>6. QED
    BY <1>1, <2>5
<1>5. QED
  BY <1>1, <1>3, <1>4, BecomeType

LEMMA MadeStep ==
  ASSUME TypeOK, Lives, OnlyMade, [Next]_vars
  PROVE  OnlyMade'
<1>0. /\ toHub \in Seq(Reported) /\ phase \in [Doc -> Phase \cup {NoPhase}]
      /\ \A d \in Doc : inbox[d] \in Seq(Task)
      /\ inbox \in [Doc -> Seq(Task)] /\ actor \in [Doc -> Phase \cup {NoPhase}]
      /\ Established \in SUBSET Conn /\ \A c \in Established : Made(c)
  BY EstablishedConns, EstablishedMade DEF TypeOK
<1> DEFINE Phases == \A d \in Doc : phase'[d] # NoPhase => Real(phase[d])'
           Actors == \A d \in Doc : actor'[d] # NoPhase => Real(actor[d])'
           Inboxes == \A d \in Doc : \A i \in 1 .. Len(inbox'[d]) :
                        inbox'[d][i].kind = "new" => Made(inbox[d][i].conn)'
           Reports == \A i \in 1 .. Len(toHub') : toHub'[i].phase # NoPhase => Real(toHub[i].phase)'
<1>1. phase' = phase => Phases
  BY <1>0, MadeStays DEF OnlyMade
<1>2. actor' = actor => Actors
  BY <1>0, MadeStays DEF OnlyMade
<1>3. ASSUME NEW d \in Doc PROVE
        \A i \in 1 .. Len(inbox[d]) : inbox[d][i].kind = "new" =>
          (inbox[d][i].conn \in Conn /\ Made(inbox[d][i].conn))
  BY <1>0 DEF OnlyMade, Task
<1>4. inbox' = inbox => Inboxes
  BY <1>3, MadeStays DEF Made
<1>5. \A i \in 1 .. Len(toHub) : toHub[i].phase # NoPhase => (Real(toHub[i].phase) /\ toHub[i].phase \in Phase)
  BY ReportsKnown
<1>6. toHub' = toHub => Reports
  BY <1>5, MadeStays
<1>7. Phases /\ Actors /\ Inboxes /\ Reports => OnlyMade'
  BY DEF OnlyMade
<1>8. ASSUME NEW t \in Task, Tell(t), t.kind = "new" => Made(t.conn)' PROVE Inboxes
  <2> SUFFICES ASSUME NEW d \in Doc, NEW i \in 1 .. Len(inbox'[d]), inbox'[d][i].kind = "new"
               PROVE  Made(inbox[d][i].conn)'
    OBVIOUS
  <2>1. \/ inbox'[d] = inbox[d]
        \/ inbox'[d] = Append(inbox[d], t)
    BY <1>8 DEF Tell
  <2>2. CASE i \in 1 .. Len(inbox[d]) /\ inbox'[d][i] = inbox[d][i]
    BY <1>3, <2>2, MadeStays DEF Made
  <2>3. CASE inbox'[d][i] = t
    BY <1>8, <2>3 DEF Made
  <2>4. QED
    <3>1. CASE inbox'[d] = inbox[d]
      BY <2>2, <3>1
    <3>2. CASE inbox'[d] = Append(inbox[d], t)
      <4>1. /\ Len(inbox'[d]) = Len(inbox[d]) + 1 /\ inbox'[d][Len(inbox[d]) + 1] = t
            /\ \A j \in 1 .. Len(inbox[d]) : inbox'[d][j] = inbox[d][j]
        BY <1>0, <3>2, Appended
      <4>2. Len(inbox[d]) \in Nat
        BY <1>0, LenProperties
      <4>3. i \in 1 .. Len(inbox[d]) \/ i = Len(inbox[d]) + 1
        BY <4>1, <4>2
      <4>4. QED
        BY <2>2, <2>3, <4>1, <4>3
    <3>3. QED
      BY <2>1, <3>1, <3>2
<1> HIDE DEF Phases, Actors, Inboxes, Reports
<1>9. CASE UNCHANGED vars
  BY <1>1, <1>2, <1>4, <1>6, <1>7, <1>9 DEF vars, hubVars, actorVars
<1>10. CASE HubHandle
  <2> DEFINE m == Head(toHub)
  <2>1. /\ m \in Reported /\ m = toHub[1] /\ 1 \in 1 .. Len(toHub) /\ Len(toHub) \in Nat
        /\ toHub' = Tail(toHub) /\ Len(toHub') = Len(toHub) - 1
        /\ \A i \in 1 .. Len(toHub') : toHub'[i] = toHub[i + 1]
    BY <1>0, <1>10, Shortened DEF HubHandle
  <2>2. phase' = [phase EXCEPT ![m.doc] = m.phase] /\ UNCHANGED <<actor, inbox>>
    BY <1>10 DEF HubHandle, Finish, actorVars
  <2>a. PICK p \in Phase \cup {NoPhase} : p = m.phase
    BY <2>1 DEF Reported
  <2>3. p # NoPhase => Real(p)'
    BY <1>5, <2>1, <2>a, MadeStays
  <2>4. Phases
    <3> SUFFICES ASSUME NEW d \in Doc, phase'[d] # NoPhase PROVE Real(phase[d])'
      BY DEF Phases
    <3>1. CASE d = m.doc
      <4>1. phase'[d] = p
        BY <1>0, <2>2, <2>a, <3>1
      <4>2. QED
        BY <2>3, <4>1 DEF Real
    <3>2. CASE d # m.doc
      <4>1. phase'[d] = phase[d]
        BY <1>0, <2>2, <3>2
      <4>2. QED
        BY <1>0, <4>1, MadeStays DEF OnlyMade, Real
    <3>3. QED
      BY <3>1, <3>2
  <2>5. Reports
    <3> SUFFICES ASSUME NEW i \in 1 .. Len(toHub'), toHub'[i].phase # NoPhase PROVE Real(toHub[i].phase)'
      BY DEF Reports
    <3>1. i + 1 \in 1 .. Len(toHub) /\ toHub'[i] = toHub[i + 1]
      BY <2>1
    <3>2. QED
      BY <1>5, <3>1, MadeStays DEF Real
  <2>6. QED
    BY <1>2, <1>4, <1>7, <2>2, <2>4, <2>5
<1>11. CASE \E u \in Finder : Look(u)
  BY <1>1, <1>2, <1>4, <1>6, <1>7, <1>11 DEF Look, hubVars, actorVars
<1>12. CASE \E d \in Doc : Loaded(d) \/ PeerAnswers(d)
  <2>1. PICK d \in Doc : Loaded(d) \/ PeerAnswers(d)
    BY <1>12
  <2>2. PICK a \in Phase : Become(d, a) /\ DOMAIN a.peers = DOMAIN actor[d].peers
    BY <2>1, ActorSteps
  <2>3. actor[d] \in Phase /\ phase' = phase /\ inbox' = inbox
    BY <2>1, ActorSteps DEF hubVars
  <2>4. Real(a)'
    <3>1. Real(actor[d])
      BY <2>3, PhaseShape DEF OnlyMade
    <3>2. \A c \in DOMAIN a.peers : c \in Conn /\ Made(c)
      BY <2>2, <2>3, <3>1, PhaseShape DEF Real
    <3>3. QED
      BY <3>2, MadeStays DEF Real
  <2>5. Actors /\ Reports
    BY <2>2, <2>4, MadeReport DEF Actors, Reports
  <2>6. QED
    BY <1>1, <1>4, <1>7, <2>3, <2>5
<1>13. CASE \E d \in Doc : HandleTask(d)
  <2>1. PICK d \in Doc : HandleTask(d)
    BY <1>13
  <2>2. /\ phase' = phase /\ inbox[d] # <<>> /\ inbox[d] \in Seq(Task)
        /\ inbox' = [inbox EXCEPT ![d] = Tail(inbox[d])] /\ actor[d] \in Phase
    BY <2>1, TaskSteps DEF hubVars
  <2>3. /\ Head(inbox[d]) = inbox[d][1] /\ 1 \in 1 .. Len(inbox[d]) /\ Len(inbox[d]) \in Nat
        /\ Len(Tail(inbox[d])) = Len(inbox[d]) - 1
        /\ \A i \in 1 .. Len(Tail(inbox[d])) : Tail(inbox[d])[i] = inbox[d][i + 1]
    BY <2>2, Shortened
  <2>4. Inboxes
    <3> SUFFICES ASSUME NEW e \in Doc, NEW i \in 1 .. Len(inbox'[e]), inbox'[e][i].kind = "new"
                 PROVE  Made(inbox[e][i].conn)'
      BY DEF Inboxes
    <3>1. CASE e # d
      <4>1. inbox'[e] = inbox[e]
        BY <1>0, <2>2, <3>1
      <4>2. QED
        BY <1>3, <4>1, MadeStays DEF Made
    <3>2. CASE e = d
      <4>1. i + 1 \in 1 .. Len(inbox[d]) /\ inbox'[d][i] = inbox[d][i + 1]
        BY <1>0, <2>2, <2>3, <3>2
      <4>2. QED
        BY <1>3, <3>2, <4>1, MadeStays DEF Made
    <3>3. QED
      BY <3>1, <3>2
  <2>5. CASE /\ actor' = [actor EXCEPT ![d] = NoPhase]
             /\ toHub' = Append(toHub, [doc |-> d, phase |-> NoPhase])
    <3> DEFINE m == [doc |-> d, phase |-> NoPhase]
    <3>1. m \in Reported /\ m.phase = NoPhase
      BY DEF Reported
    <3>2. toHub' = Append(toHub, m)
      BY <2>5
    <3> HIDE DEF m
    <3>3. \A i \in 1 .. Len(toHub') : \/ i \in 1 .. Len(toHub) /\ toHub'[i] = toHub[i]
                                      \/ i = Len(toHub) + 1 /\ toHub'[i] = m
      BY <1>0, <3>1, <3>2, OneMore
    <3>4. Reports
      <4> SUFFICES ASSUME NEW i \in 1 .. Len(toHub'), toHub'[i].phase # NoPhase PROVE Real(toHub[i].phase)'
        BY DEF Reports
      <4>1. i \in 1 .. Len(toHub) /\ toHub'[i] = toHub[i]
        BY <3>1, <3>3
      <4>2. QED
        BY <1>5, <4>1, MadeStays DEF Real
    <3>5. Actors
      <4> SUFFICES ASSUME NEW e \in Doc, actor'[e] # NoPhase PROVE Real(actor[e])'
        BY DEF Actors
      <4>1. actor'[e] = actor[e] /\ actor[e] \in Phase /\ Real(actor[e])
        BY <1>0, <2>5 DEF OnlyMade
      <4>2. QED
        BY <4>1, MadeStays DEF Real
    <3>6. QED
      BY <1>1, <1>7, <2>2, <2>4, <3>4, <3>5
  <2>6. CASE \E a \in Phase :
                 /\ Head(inbox[d]).kind # "terminate" /\ Become(d, a)
                 /\ \A c \in DOMAIN a.peers :
                      \/ c \in DOMAIN actor[d].peers
                      \/ Head(inbox[d]).kind = "new" /\ c = Head(inbox[d]).conn
    <3>1. PICK a \in Phase :
                 /\ Become(d, a)
                 /\ \A c \in DOMAIN a.peers :
                      \/ c \in DOMAIN actor[d].peers
                      \/ Head(inbox[d]).kind = "new" /\ c = Head(inbox[d]).conn
      BY <2>6
    <3>2. Real(actor[d])
      BY <2>2, PhaseShape DEF OnlyMade
    <3>3. \A c \in DOMAIN a.peers : c \in Conn /\ Made(c)
      BY <1>3, <2>2, <2>3, <3>1, <3>2, PhaseShape DEF Real
    <3>4. Real(a)'
      BY <3>3, MadeStays DEF Real
    <3>5. Actors /\ Reports
      BY <3>1, <3>4, MadeReport DEF Actors, Reports
    <3>6. QED
      BY <1>1, <1>7, <2>2, <2>4, <3>5
  <2>7. QED
    BY <2>1, <2>5, <2>6, TaskSteps
<1>14. CASE \E k \in Dialer : DialerActs(k)
  <2>1. PICK k \in Dialer : DialerActs(k)
    BY <1>14
  <2>2. UNCHANGED <<actor, toHub, phase>>
    BY <2>1, DialerSteps DEF Finish
  <2>3. inbox' = inbox \/ \E t \in Task : Tell(t) /\ (t.kind = "new" => Made(t.conn)')
    BY <2>1, DialerSteps
  <2>4. Inboxes
    BY <1>4, <1>8, <2>3
  <2>5. QED
    BY <1>1, <1>2, <1>6, <1>7, <2>2, <2>4
<1>15. CASE \E d \in Created : Create(d)
  <2>1. PICK d \in Created : Create(d)
    BY <1>15
  <2>2. d \in Doc
    BY Calls
  <2>3. CASE runState = "Running"
    <3> DEFINE a == [kind |-> "Ready", peers |-> Asked(Established)]
               m == [doc |-> d, phase |-> Ready]
    <3>1. a \in Phase /\ m \in Reported /\ m.phase = Ready
      BY <1>0, <2>2, AskedShape, PhaseIs, FixedPhases DEF Reported
    <3>2. actor' = [actor EXCEPT ![d] = a] /\ toHub' = Append(toHub, m)
          /\ phase' = [phase EXCEPT ![d] = Loading] /\ inbox' = inbox
      BY <2>1, <2>3 DEF Create, Finish
    <3>3. Real(a)
      BY <1>0, AskedShape DEF Real
    <3>b. PICK b \in Phase : b = a
      BY <3>1
    <3> HIDE DEF a, m
    <3>4. Real(Loading)' /\ Real(Ready)' /\ Real(b)'
      <4>1. Real(Loading)' /\ Real(Ready)'
        BY FixedPhases DEF Real
      <4>2. QED
        BY <3>3, <3>b, <4>1, MadeStays
    <3>5. \A i \in 1 .. Len(toHub') : \/ i \in 1 .. Len(toHub) /\ toHub'[i] = toHub[i]
                                      \/ i = Len(toHub) + 1 /\ toHub'[i] = m
      BY <1>0, <3>1, <3>2, OneMore
    <3>6. Reports
      <4> SUFFICES ASSUME NEW i \in 1 .. Len(toHub'), toHub'[i].phase # NoPhase PROVE Real(toHub[i].phase)'
        BY DEF Reports
      <4>1. CASE i \in 1 .. Len(toHub) /\ toHub'[i] = toHub[i]
        BY <1>5, <4>1, MadeStays DEF Real
      <4>2. CASE toHub'[i] = m
        BY <3>1, <3>4, <4>2 DEF Real
      <4>3. QED
        BY <3>5, <4>1, <4>2
    <3>7. Actors
      <4> SUFFICES ASSUME NEW e \in Doc, actor'[e] # NoPhase PROVE Real(actor[e])'
        BY DEF Actors
      <4>1. CASE e = d
        <5>1. actor'[e] = b
          BY <1>0, <2>2, <3>2, <3>b, <4>1
        <5>2. QED
          BY <3>4, <5>1 DEF Real
      <4>2. CASE e # d
        <5>1. actor'[e] = actor[e] /\ actor[e] \in Phase /\ Real(actor[e])
          BY <1>0, <3>2, <4>2 DEF OnlyMade
        <5>2. QED
          BY <5>1, MadeStays DEF Real
      <4>3. QED
        BY <4>1, <4>2
    <3>8. Phases
      <4> SUFFICES ASSUME NEW e \in Doc, phase'[e] # NoPhase PROVE Real(phase[e])'
        BY DEF Phases
      <4>1. CASE e = d
        BY <1>0, <3>2, <3>4, <4>1 DEF Real
      <4>2. CASE e # d
        <5>1. phase'[e] = phase[e] /\ phase[e] \in Phase /\ Real(phase[e])
          BY <1>0, <3>2, <4>2 DEF OnlyMade
        <5>2. QED
          BY <5>1, MadeStays DEF Real
      <4>3. QED
        BY <4>1, <4>2
    <3>9. QED
      BY <1>4, <1>7, <3>2, <3>6, <3>7, <3>8
  <2>4. CASE runState # "Running"
    BY <1>1, <1>2, <1>4, <1>6, <1>7, <2>1, <2>4 DEF Create
  <2>5. QED
    BY <2>3, <2>4
<1>16. CASE \E u \in Subscriber : Search(u)
  <2>1. PICK u \in Subscriber : Search(u)
    BY <1>16
  <2> DEFINE d == DocOf[u]
             a == [kind |-> "Loading", peers |-> Asked(Established)]
  <2>2. d \in Doc /\ UNCHANGED <<inbox, toHub>>
    BY <2>1, Calls DEF Search
  <2>3. CASE runState = "Running" /\ phase[d] = NoPhase
    <3>1. actor' = [actor EXCEPT ![d] = a] /\ phase' = [phase EXCEPT ![d] = Loading]
      BY <2>1, <2>3 DEF Search
    <3>2. PICK b \in Phase : b = a /\ Real(b)
      <4>1. a \in Phase
        BY <1>0, AskedShape, PhaseIs
      <4>2. DOMAIN a.peers \subseteq Established
        BY <1>0, AskedShape
      <4>3. Real(a)
        BY <1>0, <4>2 DEF Real
      <4>4. QED
        BY <4>1, <4>3
    <3> HIDE DEF a, d
    <3>3. Real(Loading)' /\ Real(b)'
      <4>1. Real(Loading)'
        BY FixedPhases DEF Real
      <4>2. QED
        BY <3>2, <4>1, MadeStays
    <3>4. Actors
      <4> SUFFICES ASSUME NEW e \in Doc, actor'[e] # NoPhase PROVE Real(actor[e])'
        BY DEF Actors
      <4>1. CASE e = d
        <5>1. actor'[e] = b
          BY <1>0, <2>2, <3>1, <3>2, <4>1
        <5>2. QED
          BY <3>3, <5>1 DEF Real
      <4>2. CASE e # d
        <5>1. actor'[e] = actor[e] /\ actor[e] \in Phase /\ Real(actor[e])
          BY <1>0, <3>1, <4>2 DEF OnlyMade
        <5>2. QED
          BY <5>1, MadeStays DEF Real
      <4>3. QED
        BY <4>1, <4>2
    <3>5. Phases
      <4> SUFFICES ASSUME NEW e \in Doc, phase'[e] # NoPhase PROVE Real(phase[e])'
        BY DEF Phases
      <4>1. CASE e = d
        BY <1>0, <3>1, <3>3, <4>1 DEF Real
      <4>2. CASE e # d
        <5>1. phase'[e] = phase[e] /\ phase[e] \in Phase /\ Real(phase[e])
          BY <1>0, <3>1, <4>2 DEF OnlyMade
        <5>2. QED
          BY <5>1, MadeStays DEF Real
      <4>3. QED
        BY <4>1, <4>2
    <3>6. QED
      BY <1>4, <1>6, <1>7, <2>2, <3>4, <3>5
  <2>4. CASE runState # "Running" \/ phase[d] # NoPhase
    <3>1. actor' = actor /\ phase' = phase
      BY <2>1, <2>4 DEF Search
    <3>2. QED
      BY <1>1, <1>2, <1>4, <1>6, <1>7, <2>2, <3>1
  <2>5. QED
    BY <2>3, <2>4
<1>17. CASE \E w \in Stopper : Stop(w)
  <2>1. PICK w \in Stopper : Stop(w)
    BY <1>17
  <2>2. UNCHANGED <<actor, toHub, phase>>
    BY <2>1 DEF Stop, Finish
  <2>3. inbox' = inbox \/ Tell([kind |-> "terminate"])
    BY <2>1 DEF Stop, Tell
  <2>4. [kind |-> "terminate"] \in Task
    BY DEF Task
  <2>5. Inboxes
    BY <1>4, <1>8, <2>3, <2>4
  <2>6. QED
    BY <1>1, <1>2, <1>6, <1>7, <2>2, <2>5
<1>18. QED
  BY <1>9, <1>10, <1>11, <1>12, <1>13, <1>14, <1>15, <1>16, <1>17, Steps

----------------------------------------------------------------------------
(* What was told is what is.                                               *)

(* The phases and dialers that the subscribers were told last, and who     *)
(* subscribes to what.                                                     *)
Remembered ==
  /\ \A d \in Doc : phase[d] # NoPhase => lastPhase[d] = phase[d]
  /\ lastDialers = status
  /\ \A d \in Created : answer[d] = "idle" => phase[d] = NoPhase
  /\ \A u \in Watcher : answer[u] = "ok" => phase[DocOf[u]] # NoPhase \/ runState # "Running"

LEMMA InitRemembered ==
  ASSUME Init
  PROVE  Remembered
<1>1. \A k \in Call : answer[k] = "idle"
  BY DEF Init
<1>2. QED
  BY <1>1, Calls DEF Init, Remembered

LEMMA FinishRemembers ==
  ASSUME TypeOK, NEW ph \in [Doc -> Phase \cup {NoPhase}], NEW st, Finish(ph, st)
  PROVE  /\ \A d \in Doc : phase'[d] # NoPhase => lastPhase'[d] = phase'[d]
         /\ lastDialers' = status'
BY DEF Finish

(* A phase that was never there, or that is gone, does not come back       *)
(* without a call.                                                         *)
LEMMA HeadOfKnown ==
  ASSUME TypeOK, Lives, HubHandle
  PROVE  /\ Head(toHub) \in Reported /\ phase[Head(toHub).doc] # NoPhase
         /\ phase' = [phase EXCEPT ![Head(toHub).doc] = Head(toHub).phase]
         /\ Head(toHub).phase = NoPhase => runState # "Running"
<1>1. toHub # <<>> /\ phase' = [phase EXCEPT ![Head(toHub).doc] = Head(toHub).phase]
  BY DEF HubHandle, Finish
<1>2. Head(toHub) \in Reported /\ Head(toHub) = toHub[1] /\ 1 \in 1 .. Len(toHub)
  BY <1>1, Shortened DEF TypeOK
<1>3. Head(toHub).doc \in Doc
  BY <1>2 DEF Reported
<1>4. phase[Head(toHub).doc] # NoPhase
  BY <1>2, <1>3 DEF Lives
<1>5. ASSUME Head(toHub).phase = NoPhase PROVE runState # "Running"
  BY <1>2, <1>3, <1>4, <1>5 DEF Lives
<1>6. QED
  BY <1>1, <1>2, <1>4, <1>5

LEMMA RememberedStep ==
  ASSUME TypeOK, Lives, Remembered, [Next]_vars
  PROVE  Remembered'
<1>0. /\ phase \in [Doc -> Phase \cup {NoPhase}] /\ answer \in [Call -> Answers]
      /\ lastPhase \in [Doc -> Phase \cup {NoPhase}]
      /\ pending \subseteq Created /\ waiters \subseteq Stopper /\ creating \subseteq Created
  BY DEF TypeOK, Answers
<1>a. Watcher \cap (Created \cup Stopper \cup Finder) = {} /\ Created \cap (Subscriber \cup Stopper) = {}
      /\ \A u \in Subscriber : DocOf[u] \in Doc /\ DocOf[u] \notin Created
  BY Calls DEF Subscriber
<1> DEFINE Answered ==
             /\ \A d \in Created : answer'[d] = "idle" => phase'[d] = NoPhase
             /\ \A u \in Watcher : answer'[u] = "ok" => phase'[DocOf[u]] # NoPhase \/ runState' # "Running"
           Memory == /\ \A d \in Doc : phase'[d] # NoPhase => lastPhase'[d] = phase'[d]
                     /\ lastDialers' = status'
<1>b. Memory /\ Answered => Remembered'
  BY DEF Remembered
<1>1. CASE UNCHANGED vars
  BY <1>1 DEF vars, hubVars, apiVars, Remembered
<1>2. CASE HubHandle
  <2> DEFINE m == Head(toHub)
  <2>1. /\ m \in Reported /\ phase[m.doc] # NoPhase /\ phase' = [phase EXCEPT ![m.doc] = m.phase]
        /\ m.phase = NoPhase => runState # "Running"
    BY <1>2, HeadOfKnown
  <2>2. Memory
    <3>1. [phase EXCEPT ![m.doc] = m.phase] \in [Doc -> Phase \cup {NoPhase}]
      BY <1>0, <2>1 DEF Reported
    <3>2. Finish([phase EXCEPT ![m.doc] = m.phase], status)
      BY <1>2 DEF HubHandle
    <3>3. QED
      BY <3>1, <3>2, FinishRemembers
  <2>3. runState # "Running" => runState' # "Running"
    BY <1>2 DEF HubHandle
  <2>4. /\ \A k \in Call : answer'[k] = answer[k] \/ answer'[k] = "ok"
        /\ \A u \in Watcher : answer'[u] = answer[u]
    BY <1>0, <1>2, <1>a, Calls DEF HubHandle, Resolved
  <2>5. Answered
    BY <1>0, <1>a, <2>1, <2>3, <2>4, Calls DEF Remembered
  <2>6. QED
    BY <1>b, <2>2, <2>5
<1>3. CASE \E u \in Finder : Look(u)
  <2>1. PICK u \in Finder : Look(u)
    BY <1>3
  <2>2. answer' = [answer EXCEPT ![u] = verdict[u]] /\ UNCHANGED hubVars
    BY <2>1 DEF Look
  <2>3. \A k \in Created \cup Watcher : answer'[k] = answer[k]
    BY <1>0, <1>a, <2>2, Calls DEF Subscriber
  <2>4. QED
    BY <2>2, <2>3 DEF Remembered, hubVars
<1>4. CASE \E d \in Doc : Loaded(d) \/ PeerAnswers(d)
  BY <1>4, ActorSteps DEF hubVars, apiVars, Remembered
<1>5. CASE \E d \in Doc : HandleTask(d)
  BY <1>5 DEF HandleTask, hubVars, apiVars, Remembered
<1>6. CASE \E k \in Dialer : DialerActs(k)
  <2>1. PICK k \in Dialer : DialerActs(k)
    BY <1>6
  <2>2. PICK to \in Statuses : Finish(phase, [status EXCEPT ![k] = to])
    BY <2>1, DialerSteps
  <2>3. Memory /\ phase' = phase
    BY <1>0, <2>2, FinishRemembers DEF Finish
  <2>4. UNCHANGED <<runState, answer>>
    BY <2>1, DialerSteps
  <2>5. QED
    BY <1>b, <2>3, <2>4 DEF Remembered
<1>7. CASE \E d \in Created : Create(d)
  <2>1. PICK d \in Created : Create(d)
    BY <1>7
  <2>2. answer' = [answer EXCEPT ![d] = "waiting"] /\ runState' = runState /\ d \in Doc
    BY <2>1, Calls DEF Create
  <2>3. answer'[d] = "waiting" /\ \A k \in Call : k # d => answer'[k] = answer[k]
    BY <1>0, <2>2, Calls
  <2>4. CASE runState = "Running"
    <3>1. Finish([phase EXCEPT ![d] = Loading], status) /\ phase' = [phase EXCEPT ![d] = Loading]
      BY <2>1, <2>4 DEF Create, Finish
    <3>2. [phase EXCEPT ![d] = Loading] \in [Doc -> Phase \cup {NoPhase}] /\ Loading # NoPhase
      BY <1>0, <2>2, FixedPhases, PhaseShape
    <3>3. Memory
      BY <3>1, <3>2, FinishRemembers
    <3>4. Answered
      BY <1>0, <1>a, <2>2, <2>3, <3>1, <3>2, Calls DEF Remembered, Subscriber
    <3>5. QED
      BY <1>b, <3>3, <3>4
  <2>5. CASE runState # "Running"
    <3>1. UNCHANGED <<phase, status, lastPhase, lastDialers>>
      BY <2>1, <2>5 DEF Create
    <3>2. QED
      BY <1>a, <2>2, <2>3, <2>5, <3>1, Calls DEF Remembered
  <2>6. QED
    BY <2>4, <2>5
<1>8. CASE \E u \in Subscriber : Search(u)
  <2>1. PICK u \in Subscriber : Search(u)
    BY <1>8
  <2> DEFINE d == DocOf[u]
  <2>2. d \in Doc /\ d \notin Created /\ runState' = runState /\ UNCHANGED <<status, lastDialers>>
        /\ u \in Call /\ u \notin Created
    BY <1>a, <2>1, Calls DEF Search, Subscriber
  <2>3. CASE runState = "Running"
    <3>1. /\ \E a \in {"waiting", "ok"} : answer' = [answer EXCEPT ![u] = a]
          /\ phase' = IF phase[d] = NoPhase THEN [phase EXCEPT ![d] = Loading] ELSE phase
          /\ lastPhase' = [lastPhase EXCEPT ![d] = phase'[d]]
      BY <2>1, <2>3 DEF Search
    <3>2. Loading # NoPhase
      BY FixedPhases, PhaseShape
    <3> HIDE DEF d
    <3>3. /\ phase'[d] # NoPhase /\ lastPhase'[d] = phase'[d]
          /\ \A e \in Doc : e # d => phase'[e] = phase[e] /\ lastPhase'[e] = lastPhase[e]
      BY <1>0, <2>2, <3>1, <3>2
    <3>4. \A k \in Call : k # u => answer'[k] = answer[k]
      BY <1>0, <3>1
    <3>5. Memory
      BY <2>2, <3>3 DEF Remembered
    <3>6. \A e \in Created : answer'[e] = "idle" => phase'[e] = NoPhase
      BY <2>2, <3>3, <3>4, Calls DEF Remembered
    <3>7. \A w \in Watcher : answer'[w] = "ok" => phase'[DocOf[w]] # NoPhase
      <4> TAKE w \in Watcher
      <4>1. CASE w = u
        BY <3>3, <4>1 DEF d
      <4>2. CASE w # u
        <5>1. answer[w] = "ok" => phase[DocOf[w]] # NoPhase
          BY <2>3 DEF Remembered
        <5>2. DocOf[w] \in Doc
          BY Calls DEF Subscriber
        <5>3. QED
          BY <3>3, <3>4, <4>2, <5>1, <5>2, Calls
      <4>3. QED
        BY <4>1, <4>2
    <3>8. QED
      BY <1>b, <3>5, <3>6, <3>7
  <2>4. CASE runState # "Running"
    <3>1. UNCHANGED <<phase, lastPhase>> /\ answer' = [answer EXCEPT ![u] = "stopped"]
      BY <2>1, <2>4 DEF Search
    <3>2. \A e \in Created : answer'[e] = answer[e]
      BY <1>0, <2>2, <3>1, Calls
    <3>3. QED
      BY <2>2, <2>4, <3>1, <3>2 DEF Remembered
  <2>5. QED
    BY <2>3, <2>4
<1>9. CASE \E w \in Stopper : Stop(w)
  <2>1. PICK w \in Stopper : Stop(w)
    BY <1>9
  <2>2. /\ \A u \in Watcher : answer'[u] = answer[u]
        /\ \A d \in Created : answer'[d] = answer[d] \/ answer'[d] = "stopped"
    <3>1. \A k \in Call : k # w => answer'[k] = answer[k] \/ (k \in pending /\ answer'[k] = "stopped")
      BY <1>0, <2>1 DEF Stop
    <3>2. QED
      BY <1>0, <1>a, <3>1, Calls
  <2>3. CASE runState = "Running"
    <3>1. runState' # "Running" /\ Finish(phase, [k \in Dialer |-> "Removed"]) /\ phase' = phase
      BY <2>1, <2>3 DEF Stop, Finish
    <3>2. Memory
      BY <1>0, <3>1, FinishRemembers
    <3>3. Answered
      BY <2>2, <3>1, Calls DEF Remembered
    <3>4. QED
      BY <1>b, <3>2, <3>3
  <2>4. CASE runState # "Running"
    <3>1. UNCHANGED <<runState, phase, status, lastPhase, lastDialers>>
      BY <2>1, <2>4 DEF Stop, hubVars
    <3>2. QED
      BY <2>2, <2>4, <3>1, Calls DEF Remembered
  <2>5. QED
    BY <2>3, <2>4
<1>10. QED
  BY <1>1, <1>2, <1>3, <1>4, <1>5, <1>6, <1>7, <1>8, <1>9, Steps

----------------------------------------------------------------------------
(* The subscribers of a search.                                            *)

UpToDate(u) ==
  \/ last[u] = Shown(phase[DocOf[u]], status)
  \/ \E c \in Established : c \notin DOMAIN phase[DocOf[u]].peers

(* A hub step that tells, or has nothing to tell.                          *)
LEMMA FinishTells ==
  ASSUME TypeOK, Remembered, OnlyMade, SubscribersUpToDate,
         NEW ph \in [Doc -> Phase \cup {NoPhase}], NEW st \in [Dialer -> Statuses], Finish(ph, st),
         NEW u \in Watcher, answer[u] = "ok", ph[DocOf[u]] # NoPhase, phase[DocOf[u]] # NoPhase,
         \A k \in Dialer : /\ st[k] = "Connected" => status[k] \in {"Handshaking", "Connected"}
                           /\ st[k] = "Handshaking" => status[k] \in {"Pending", "Handshaking"}
                           /\ st[k] # "Pending" => dials'[k] = dials[k]
  PROVE  UpToDate(u)'
<1> DEFINE d == DocOf[u]
<1>0. /\ d \in Doc /\ u \in Subscriber /\ phase' = ph /\ status' = st /\ DocOf' = DocOf
      /\ status \in [Dialer -> Statuses] /\ dials \in [Dialer -> 1 .. MaxDials]
      /\ phase[d] \in Phase /\ lastPhase[d] = phase[d] /\ lastDialers = status
  BY Calls DEF Finish, TypeOK, Remembered, Subscriber
<1>1. CASE Told(u, ph, st)
  <2>1. last'[u] = Shown(ph[d], st)
    BY <1>1 DEF Finish
  <2>2. Shown(ph[d], st) = Shown(phase[d], status)'
    BY <1>0 DEF Shown, PendingDialers
  <2>3. QED
    BY <2>1, <2>2 DEF UpToDate
<1>2. CASE ~Told(u, ph, st)
  <2>1. last'[u] = last[u]
    BY <1>2 DEF Finish
  <2>2. ph[d] = phase[d] /\ Status(status) = Status(st)
    BY <1>0, <1>2 DEF Told, Updated, Subscribed
  <2>3. \A k \in Dialer : \/ st[k] = status[k]
                          \/ {st[k], status[k]} = {"Handshaking", "Connected"}
    <3> TAKE k \in Dialer
    <3>1. Status(status)[k] = Status(st)[k]
      BY <2>2
    <3>2. QED
      BY <3>1 DEF Status
  <2>4. CASE \E c \in Established : c \notin DOMAIN phase[d].peers
    <3>1. PICK k \in Dialer : status[k] = "Connected" /\ <<k, dials[k]>> \notin DOMAIN phase[d].peers
      <4>1. PICK c \in Established : c \notin DOMAIN phase[d].peers
        BY <2>4
      <4>2. PICK k \in {j \in Dialer : status[j] = "Connected"} : c = <<k, dials[k]>>
        BY DEF Established
      <4>3. QED
        BY <4>1, <4>2
    <3>2. st[k] = "Connected" /\ dials'[k] = dials[k]
      <4>1. st[k] # "Handshaking"
        BY <3>1
      <4>2. st[k] = "Connected"
        BY <2>3, <3>1, <4>1
      <4>3. QED
        BY <4>2
    <3>3. <<k, dials'[k]>> \in Established'
      BY <1>0, <3>2 DEF Established
    <3>4. QED
      BY <1>0, <2>2, <3>1, <3>2, <3>3 DEF UpToDate
  <2>5. CASE \E k \in Dialer : status[k] = "Handshaking" /\ st[k] = "Connected"
    <3>1. PICK k \in Dialer : status[k] = "Handshaking" /\ st[k] = "Connected"
      BY <2>5
    <3>2. ~Made(<<k, dials[k]>>)
      BY <1>0, <3>1 DEF Made
    <3>3. <<k, dials[k]>> \notin DOMAIN phase[d].peers
      BY <1>0, <3>2 DEF OnlyMade, Real
    <3>4. dials'[k] = dials[k] /\ <<k, dials[k]>> \in Established'
      BY <1>0, <3>1 DEF Established
    <3>5. QED
      BY <1>0, <2>2, <3>3, <3>4 DEF UpToDate
  <2>6. CASE /\ ~ \E c \in Established : c \notin DOMAIN phase[d].peers
             /\ ~ \E k \in Dialer : status[k] = "Handshaking" /\ st[k] = "Connected"
    <3>1. last[u] = Shown(phase[d], status)
      BY <1>0, <2>6 DEF SubscribersUpToDate
    <3>2. \A k \in Dialer : st[k] = status[k]
      <4>1. \A k \in Dialer : ~(status[k] = "Connected" /\ st[k] = "Handshaking")
        OBVIOUS
      <4>2. QED
        BY <2>3, <2>6, <4>1
    <3>3. PendingDialers(st) = PendingDialers(status)
      BY <3>2 DEF PendingDialers
    <3>4. Shown(ph[d], st) = Shown(phase[d], status)
      BY <2>2, <3>3 DEF Shown
    <3>5. Shown(phase[d], status)' = Shown(ph[d], st)
      BY <1>0 DEF Shown, PendingDialers
    <3>6. QED
      BY <2>1, <3>1, <3>4, <3>5 DEF UpToDate
  <2>7. QED
    BY <2>4, <2>5, <2>6
<1>3. QED
  BY <1>1, <1>2

(* What subscribers are told with does not change.                         *)
LEMMA StillUpToDate ==
  ASSUME SubscribersUpToDate, UNCHANGED <<phase, status, dials>>,
         NEW u \in Watcher, answer[u] = "ok", phase[DocOf[u]] # NoPhase, last'[u] = last[u]
  PROVE  UpToDate(u)'
<1>1. UpToDate(u)
  BY DEF SubscribersUpToDate, UpToDate
<1>2. Shown(phase[DocOf[u]], status)' = Shown(phase[DocOf[u]], status)
  BY DEF Shown, PendingDialers
<1>3. Established' = Established
  BY DEF Established
<1>4. QED
  BY <1>1, <1>2, <1>3 DEF UpToDate

LEMMA UpToDateStep ==
  ASSUME TypeOK, Lives, OnlyMade, Remembered, SubscribersUpToDate, [Next]_vars
  PROVE  SubscribersUpToDate'
<1>0. /\ phase \in [Doc -> Phase \cup {NoPhase}] /\ answer \in [Call -> Answers]
      /\ status \in [Dialer -> Statuses]
      /\ pending \subseteq Created /\ waiters \subseteq Stopper /\ creating \subseteq Created
  BY DEF TypeOK, Answers
<1>a. Watcher \cap (Created \cup Stopper \cup Finder) = {} /\ Watcher \subseteq Call
      /\ \A u \in Watcher : DocOf[u] \in Doc /\ DocOf[u] \notin Created
  BY Calls DEF Subscriber
<1> SUFFICES ASSUME NEW u \in Watcher, answer'[u] = "ok", phase'[DocOf[u]] # NoPhase
             PROVE  UpToDate(u)'
  BY DEF SubscribersUpToDate, UpToDate
<1>1. CASE UNCHANGED vars
  BY <1>1, StillUpToDate DEF vars, hubVars, apiVars
<1>2. CASE HubHandle
  <2> DEFINE m == Head(toHub)
             ph == [phase EXCEPT ![m.doc] = m.phase]
  <2>1. /\ m \in Reported /\ phase[m.doc] # NoPhase /\ phase' = ph
    BY <1>2, HeadOfKnown
  <2>2. ph \in [Doc -> Phase \cup {NoPhase}] /\ Finish(ph, status) /\ dials' = dials
    BY <1>0, <1>2, <2>1 DEF HubHandle, Reported
  <2>3. answer'[u] = answer[u]
    BY <1>0, <1>2, <1>a DEF HubHandle, Resolved
  <2>4. phase[DocOf[u]] # NoPhase
    BY <1>0, <1>a, <2>1
  <2>5. ph[DocOf[u]] # NoPhase
    BY <2>1
  <2> HIDE DEF ph
  <2>6. QED
    BY <1>0, <2>2, <2>3, <2>4, <2>5, FinishTells
<1>3. CASE \E f \in Finder : Look(f)
  <2>1. PICK f \in Finder : Look(f)
    BY <1>3
  <2>2. answer' = [answer EXCEPT ![f] = verdict[f]] /\ UNCHANGED hubVars /\ last' = last /\ u # f
    BY <1>a, <2>1 DEF Look
  <2>3. answer'[u] = answer[u]
    BY <1>0, <1>a, <2>2
  <2>4. QED
    BY <2>2, <2>3, StillUpToDate DEF hubVars
<1>4. CASE \E d \in Doc : Loaded(d) \/ PeerAnswers(d)
  BY <1>4, ActorSteps, StillUpToDate DEF hubVars, apiVars
<1>5. CASE \E d \in Doc : HandleTask(d)
  BY <1>5, StillUpToDate DEF HandleTask, hubVars, apiVars
<1>6. CASE \E k \in Dialer : DialerActs(k)
  <2>1. PICK k \in Dialer : DialerActs(k)
    BY <1>6
  <2> DEFINE st(to) == [status EXCEPT ![k] = to]
  <2>2. PICK to \in Statuses :
              /\ Finish(phase, st(to))
              /\ to = "Connected" => status[k] = "Handshaking" /\ dials' = dials
              /\ to = "Handshaking" => status[k] = "Pending" /\ dials' = dials
              /\ to # "Pending" => dials' = dials
              /\ \A j \in Dialer : j # k => dials'[j] = dials[j]
    BY <2>1, DialerSteps
  <2>3. UNCHANGED <<phase, answer>>
    BY <2>1, <2>2, DialerSteps DEF Finish
  <2>4. st(to) \in [Dialer -> Statuses]
    BY <1>0
  <2>5. \A j \in Dialer : /\ st(to)[j] = "Connected" => status[j] \in {"Handshaking", "Connected"}
                          /\ st(to)[j] = "Handshaking" => status[j] \in {"Pending", "Handshaking"}
                          /\ st(to)[j] # "Pending" => dials'[j] = dials[j]
    BY <1>0, <2>2
  <2> HIDE DEF st
  <2>6. QED
    BY <1>0, <2>2, <2>3, <2>4, <2>5, FinishTells
<1>7. CASE \E d \in Created : Create(d)
  <2>1. PICK d \in Created : Create(d)
    BY <1>7
  <2>2. answer'[u] = answer[u] /\ dials' = dials
    BY <1>0, <1>a, <2>1 DEF Create
  <2>3. CASE runState = "Running"
    <3> DEFINE ph == [phase EXCEPT ![d] = Loading]
    <3>1. ph \in [Doc -> Phase \cup {NoPhase}] /\ Finish(ph, status) /\ phase' = ph
      BY <1>0, <2>1, <2>3, FixedPhases DEF Create, Finish
    <3>2. ph[DocOf[u]] = phase[DocOf[u]] /\ ph[DocOf[u]] # NoPhase
      BY <1>0, <1>a, <3>1
    <3> HIDE DEF ph
    <3>3. QED
      BY <1>0, <2>2, <3>1, <3>2, FinishTells
  <2>4. CASE runState # "Running"
    <3>1. UNCHANGED <<phase, status, last>>
      BY <2>1, <2>4 DEF Create
    <3>2. QED
      BY <2>2, <3>1, StillUpToDate
  <2>5. QED
    BY <2>3, <2>4
<1>8. CASE \E s \in Subscriber : Search(s)
  <2>1. PICK s \in Subscriber : Search(s)
    BY <1>8
  <2>2. dials' = dials /\ status' = status
    BY <2>1 DEF Search
  <2>3. CASE runState = "Running"
    <3> DEFINE ph == IF phase[DocOf[s]] = NoPhase THEN [phase EXCEPT ![DocOf[s]] = Loading] ELSE phase
    <3>1. /\ answer' = [answer EXCEPT ![s] = IF s \in Finder THEN "waiting" ELSE "ok"]
          /\ phase' = ph
          /\ last' = [w \in Watcher |-> IF w = s THEN Shown(ph[DocOf[s]], status) ELSE last[w]]
      BY <2>1, <2>3 DEF Search
    <3>2. CASE u = s
      <4>1. last'[u] = Shown(ph[DocOf[u]], status)
        BY <3>1, <3>2
      <4>2. Shown(phase[DocOf[u]], status)' = Shown(ph[DocOf[u]], status)
        BY <2>2, <3>1 DEF Shown, PendingDialers
      <4>3. QED
        BY <4>1, <4>2 DEF UpToDate
    <3>3. CASE u # s
      <4>1. answer[u] = "ok" /\ last'[u] = last[u]
        BY <1>0, <1>a, <3>1, <3>3
      <4>2. phase[DocOf[u]] # NoPhase
        BY <2>3, <4>1 DEF Remembered
      <4>3. phase'[DocOf[u]] = phase[DocOf[u]]
        BY <1>0, <1>a, <3>1, <4>2
      <4>4. UpToDate(u)
        BY <4>1, <4>2 DEF SubscribersUpToDate, UpToDate
      <4>5. Shown(phase[DocOf[u]], status)' = Shown(phase[DocOf[u]], status)
        BY <2>2, <4>3 DEF Shown, PendingDialers
      <4>6. Established' = Established
        BY <2>2 DEF Established
      <4>7. QED
        BY <4>1, <4>3, <4>4, <4>5, <4>6 DEF UpToDate
    <3>4. QED
      BY <3>2, <3>3
  <2>4. CASE runState # "Running"
    <3>1. UNCHANGED <<phase, last>> /\ answer' = [answer EXCEPT ![s] = "stopped"]
      BY <2>1, <2>4 DEF Search
    <3>2. answer'[u] = answer[u]
      BY <1>0, <1>a, <3>1
    <3>3. QED
      BY <2>2, <3>1, <3>2, StillUpToDate
  <2>5. QED
    BY <2>3, <2>4
<1>9. CASE \E w \in Stopper : Stop(w)
  <2>1. PICK w \in Stopper : Stop(w)
    BY <1>9
  <2>2. answer'[u] = answer[u] /\ dials' = dials
    BY <1>0, <1>a, <2>1 DEF Stop
  <2>3. CASE runState = "Running"
    <3> DEFINE st == [k \in Dialer |-> "Removed"]
    <3>1. Finish(phase, st) /\ phase' = phase
      BY <2>1, <2>3 DEF Stop, Finish
    <3>2. st \in [Dialer -> Statuses] /\ \A k \in Dialer : st[k] = "Removed"
      BY DEF Statuses
    <3> HIDE DEF st
    <3>3. QED
      BY <1>0, <2>2, <3>1, <3>2, FinishTells
  <2>4. CASE runState # "Running"
    <3>1. UNCHANGED <<phase, status, last>>
      BY <2>1, <2>4 DEF Stop
    <3>2. QED
      BY <2>2, <3>1, StillUpToDate
  <2>5. QED
    BY <2>3, <2>4
<1>10. QED
  BY <1>1, <1>2, <1>3, <1>4, <1>5, <1>6, <1>7, <1>8, <1>9, Steps

----------------------------------------------------------------------------
IInv == TypeOK /\ Lives /\ OnlyMade /\ Remembered /\ SubscribersUpToDate

LEMMA Invariance == Spec => []IInv
<1>1. Init => IInv
  <2>1. ASSUME Init PROVE SubscribersUpToDate
    <3>1. \A u \in Watcher : answer[u] = "idle"
      BY <2>1, Calls DEF Init
    <3>2. QED
      BY <3>1 DEF SubscribersUpToDate
  <2>2. QED
    BY <2>1, InitType, InitLives, InitMade, InitRemembered DEF IInv
<1>2. IInv /\ [Next]_vars => IInv'
  BY TypeStep, LivesStep, MadeStep, RememberedStep, UpToDateStep DEF IInv, Remembered
<1>3. QED
  BY <1>1, <1>2, PTL DEF Spec

(* The tables, queues and answers keep their shape, for any documents,     *)
(* dialers and calls.                                                      *)
THEOREM TypeCorrect == Spec => []TypeOK
<1>1. IInv => TypeOK
  BY DEF IInv
<1>2. QED
  BY <1>1, Invariance, PTL

(* A stream of search() is never behind the hub: whatever reports,         *)
(* dialers and calls do, its last item is what the hub knows, but for a    *)
(* connection that no report has mentioned yet (searches.rs:28-49).        *)
THEOREM SubscribersStayUpToDate == Spec => []SubscribersUpToDate
<1>1. IInv => SubscribersUpToDate
  BY DEF IInv
<1>2. QED
  BY <1>1, Invariance, PTL
=============================================================================
