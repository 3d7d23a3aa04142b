--------------------------- MODULE Request_proofs ---------------------------
(***************************************************************************)
(* Request for any finite network, any decisions of the applications and   *)
(* any content: the types of its actors and messages, and that no search   *)
(* finds an empty document.                                                *)
(***************************************************************************)
EXTENDS Request, SequenceTheorems, FiniteSetTheorems, TLAPS

----------------------------------------------------------------------------
(* Connections and sessions.                                               *)

LEMMA GrantsApart ==
    /\ NoConfig \notin Config /\ Undecided \notin Config /\ NoConfig # Undecided
    /\ \A g \in Config : g.access \in {"none", "read", "write"} /\ g.announce \in BOOLEAN
BY DEF NoConfig, Undecided, Config

LEMMA ConstantTypes ==
    Fresh \in Session /\ NoConn \in Conn /\ DocUnavailable \in Msg
<1>1. Fresh \in Session
  BY DEF Fresh, Session
<1>2. <<>> \in Seq(Msg)
  OBVIOUS
<1>3. NoConn \in Conn
  BY <1>1, <1>2 DEF NoConn, Conn, PeerState
<1>4. QED
  BY <1>1, <1>3 DEF DocUnavailable, Msg

(* What a session makes of a message leaves the rest of its connection.    *)
LEMMA HeardType ==
    ASSUME NEW c \in Conn, NEW doc \in SUBSET Change, NEW m \in Msg
    PROVE  LET h == Heard(c, doc, m) IN
           /\ h \in Conn
           /\ h.policy = c.policy /\ h.hasRequested = c.hasRequested
           /\ h.pending = c.pending /\ h.parked = c.parked /\ h.out = c.out
           /\ h.peer = c.peer /\ h.heads = c.heads /\ h.sync.reset = c.sync.reset
<1> DEFINE s == HeardBy(c.sync, doc, m)
<1>1. c.sync \in Session
  BY DEF Conn
<1>2. s \in Session /\ s.reset = c.sync.reset
  BY <1>1 DEF HeardBy, Session, Msg
<1>3. Heard(c, doc, m) = [c EXCEPT !.receivedAny = TRUE, !.sync = s]
  BY DEF Heard
<1> HIDE DEF s
<1> QED BY <1>2, <1>3 DEF Conn

LEMMA HeadsType ==
    ASSUME NEW c \in Conn, NEW heads \in SUBSET Change, NEW changes \in SUBSET Change,
           NEW reset \in BOOLEAN
    PROVE  Heads(c, heads, changes, reset) \in Msg
BY DEF Heads, Msg, CanWrite

LEMMA NewChangesType ==
    ASSUME NEW s \in Session, NEW doc \in SUBSET Change
    PROVE  NewChanges(s, doc) \in SUBSET Change
BY DEF NewChanges

LEMMA BatchType ==
    ASSUME NEW c \in Conn, NEW doc \in SUBSET Change
    PROVE  Batch(c, doc) \in Seq(Msg)
<1> DEFINE real == Heads(c, doc, NewChanges(c.sync, doc), c.sync.reset /\ c.receivedAny)
           none == Heads(c, {}, {}, FALSE)
<1>1. real \in Msg
  BY HeadsType, NewChangesType DEF Conn, Session
<1>2. none \in Msg
  BY HeadsType
<1>3. Batch(c, doc) = IF ByEmptyHeads(c, doc) THEN <<none, real>> ELSE <<real>>
  BY DEF Batch
<1> HIDE DEF real, none
<1> QED BY <1>1, <1>2, <1>3

(* Generating messages adds to what is sent, and tells the session so.     *)
LEMMA GenerateType ==
    ASSUME NEW c \in Conn, NEW doc \in SUBSET Change
    PROVE  LET g == Generate(c, doc) IN
           /\ g \in Conn
           /\ g.policy = c.policy /\ g.hasRequested = c.hasRequested
           /\ g.receivedAny = c.receivedAny /\ g.sync.known = c.sync.known
           /\ g.pending = c.pending /\ g.parked = c.parked
           /\ g.peer = c.peer /\ g.heads = c.heads
           /\ ~c.sync.reset => ~g.sync.reset
           /\ g.out = c.out \/ (~Quiet(c, doc) /\ g.out = c.out \o Batch(c, doc))
<1> DEFINE new == NewChanges(c.sync, doc)
           batch == Batch(c, doc)
           s == Told(c.sync, doc)
<1>1. c.sync \in Session /\ c.out \in Seq(Msg)
  BY DEF Conn
<1>2. new \in SUBSET Change /\ batch \in Seq(Msg)
  BY <1>1, NewChangesType, BatchType
<1>3. Generate(c, doc) = IF Quiet(c, doc) THEN c
        ELSE [c EXCEPT !.sentAny = TRUE, !.out = @ \o batch, !.sync = s]
  BY DEF Generate
<1>4. s = [c.sync EXCEPT !.lastSent = doc, !.responded = TRUE, !.inFlight = TRUE,
                         !.sent = @ \cup new, !.reset = FALSE]
  BY DEF Told
<1> HIDE DEF new, batch, s
<1>5. s \in Session /\ s.known = c.sync.known /\ s.reset = FALSE
  BY <1>1, <1>2, <1>4 DEF Session
<1>6. c.out \o batch \in Seq(Msg)
  BY <1>1, <1>2
<1> HIDE DEF s
<1>7. CASE Quiet(c, doc)
  BY <1>3, <1>7
<1>8. CASE ~Quiet(c, doc)
  BY <1>3, <1>5, <1>6, <1>8 DEF Conn, batch
<1> QED BY <1>7, <1>8
----------------------------------------------------------------------------
(* One message.                                                            *)

(* Actor a with connection d to k, and with the document e.                *)
With(a, k, d, e) == [a EXCEPT !.conns[k] = d, !.doc = e]

(* What a message does to a connection of an actor in phase p: it waits, or *)
(* is refused, or reaches the session and what is known of the peer.       *)
Reaction(c, p, m, d) ==
    /\ d.policy = c.policy /\ d.sentAny = c.sentAny /\ d.sync.reset = c.sync.reset
    /\ d.pending = IF c.policy = Undecided THEN Append(c.pending, m) ELSE c.pending
    /\ d.parked = IF Decided(c) /\ CanRead(c.policy) /\ p = "Loading"
                  THEN Append(c.parked, m) ELSE c.parked
    /\ \/ d.out = c.out
       \/ Decided(c) /\ ~CanRead(c.policy) /\ d.out = Append(c.out, DocUnavailable)
    /\ c.policy = NoConfig => d = c
    /\ d.peer # "None" <=> c.peer # "None"
    /\ p \notin {"Requesting", "Ready"} \/ ~CanRead(c.policy) =>
          d.receivedAny = c.receivedAny /\ d.sync = c.sync
    /\ p # "Requesting" \/ ~CanRead(c.policy) => d.peer = c.peer /\ d.heads = c.heads
    /\ p = "Requesting" /\ m.type # "Sync" => d.receivedAny = c.receivedAny /\ d.sync = c.sync
    /\ d.peer = "Syncing" =>
          \/ c.peer = "Syncing" /\ d.heads = c.heads
          \/ p = "Requesting" /\ m.type = "Sync" /\ d.heads = m.heads
    /\ p = "Requesting" /\ CanRead(c.policy) /\ d.peer \in {"AwaitingSend", "BlockedByPolicy"} =>
          d.peer = c.peer /\ ~CanWrite(c.policy)

LEMMA WithType ==
    ASSUME NEW n \in Node, NEW a \in Actor(n), NEW k \in Neighbours(n),
           NEW d \in Conn, NEW e \in SUBSET Change
    PROVE  LET b == With(a, k, d, e) IN
           /\ b \in Actor(n) /\ b.phase = a.phase /\ b.doc = e /\ b.conns[k] = d
           /\ \A j \in Neighbours(n) : j # k => b.conns[j] = a.conns[j]
BY DEF With, Actor

LEMMA WithTwice ==
    ASSUME NEW n \in Node, NEW a \in Actor(n), NEW k \in Neighbours(n),
           NEW d \in Conn, NEW e \in SUBSET Change, NEW f, NEW g
    PROVE  With(With(a, k, d, e), k, f, g) = With(a, k, f, g)
BY DEF With, Actor

LEMMA WithSame ==
    ASSUME NEW n \in Node, NEW a \in Actor(n), NEW k \in Neighbours(n), NEW d
    PROVE  /\ a = With(a, k, a.conns[k], a.doc)
           /\ [a EXCEPT !.conns[k] = d] = With(a, k, d, a.doc)
BY DEF With, Actor

LEMMA DecidedOrNot ==
    ASSUME NEW c \in Conn
    PROVE  /\ Decided(c) <=> c.policy \in Config
           /\ c.policy \in Config \/ c.policy = NoConfig \/ c.policy = Undecided
           /\ CanRead(c.policy) => Decided(c)
           /\ CanWrite(c.policy) => CanRead(c.policy)
           /\ ~CanRead(NoConfig) /\ ~CanRead(Undecided)
BY DEF Conn, Decided, Config, NoConfig, Undecided, CanRead, CanWrite

(* A message for the session: Applied.                                     *)
LEMMA AppliedWith ==
    ASSUME NEW n \in Node, NEW a \in Actor(n), NEW k \in Neighbours(n), NEW m \in Msg
    PROVE  LET d == Heard(a.conns[k], a.doc, m)
               e == Learnt(a.conns[k], a.doc, m)
           IN  Applied(a, k, m) = With(a, k, d, e) /\ e \in SUBSET Change /\ a.doc \subseteq e
<1>1. a.doc \in SUBSET Change /\ m.changes \in SUBSET Change
  BY DEF Actor, Msg
<1>2. Applied(a, k, m) = With(a, k, Heard(a.conns[k], a.doc, m), Learnt(a.conns[k], a.doc, m))
  BY DEF Applied, With, Actor
<1> QED BY <1>1, <1>2 DEF Learnt

(* What is known of the peer, after message m.                             *)
Put(f, s, m) == [f EXCEPT !.peer = s, !.heads = IF s = "Syncing" THEN m.heads ELSE {}]
Now(b, k, s, m) == [b EXCEPT !.conns[k].peer = s,
                             !.conns[k].heads = IF s = "Syncing" THEN m.heads ELSE {}]

LEMMA NowWith ==
    ASSUME NEW n \in Node, NEW a \in Actor(n), NEW k \in Neighbours(n), NEW m \in Msg,
           NEW f \in Conn, NEW s \in PeerState, NEW e \in SUBSET Change
    PROVE  /\ Put(f, s, m) \in Conn
           /\ Now(With(a, k, f, e), k, s, m) = With(a, k, Put(f, s, m), e)
<1>1. m.heads \in SUBSET Change
  BY DEF Msg
<1>2. Put(f, s, m) \in Conn
  BY <1>1 DEF Conn, Put
<1>3. Now(With(a, k, f, e), k, s, m) = With(a, k, Put(f, s, m), e)
  BY DEF With, Actor, Now, Put
<1> QED BY <1>2, <1>3

(* The phase Requesting.                                                   *)
LEMMA RequestingHandles ==
    ASSUME NEW n \in Node, NEW a \in Actor(n), NEW k \in Neighbours(n), NEW m \in Msg,
           a.phase = "Requesting", CanRead(a.conns[k].policy), a.conns[k].peer # "None"
    PROVE  \E d \in Conn, e \in SUBSET Change :
              /\ ReceiveRequesting(a, k, m) = With(a, k, d, e) /\ a.doc \subseteq e
              /\ Reaction(a.conns[k], a.phase, m, d)
<1> DEFINE c == a.conns[k]
<1>1. c \in Conn /\ a.doc \in SUBSET Change /\ c.policy # Undecided /\ c.policy # NoConfig
  BY DecidedOrNot DEF Actor
<1>3. a = With(a, k, c, a.doc)
  BY WithSame
<1>4. PICK h \in Conn, e \in SUBSET Change :
        /\ Applied(a, k, m) = With(a, k, h, e) /\ a.doc \subseteq e
        /\ h.policy = c.policy /\ h.hasRequested = c.hasRequested /\ h.sentAny = c.sentAny
        /\ h.pending = c.pending /\ h.parked = c.parked /\ h.out = c.out
        /\ h.peer = c.peer /\ h.heads = c.heads /\ h.sync.reset = c.sync.reset
  <2>1. Heard(c, a.doc, m).sentAny = c.sentAny
    BY <1>1 DEF Heard, Conn
  <2> QED BY <1>1, <2>1, AppliedWith, HeardType
<1> HIDE DEF c
<1>5. ASSUME NEW s \in PeerState, s \notin {"None", "Syncing", "AwaitingSend", "BlockedByPolicy"},
             m.type # "Sync", ReceiveRequesting(a, k, m) = Now(a, k, s, m)
      PROVE  \E d \in Conn, g \in SUBSET Change :
                /\ ReceiveRequesting(a, k, m) = With(a, k, d, g) /\ a.doc \subseteq g
                /\ Reaction(c, a.phase, m, d)
  <2>1. ReceiveRequesting(a, k, m) = With(a, k, Put(c, s, m), a.doc)
    BY <1>1, <1>3, <1>5, NowWith
  <2>2. Reaction(c, a.phase, m, Put(c, s, m))
    BY <1>1, <1>5 DEF Reaction, Conn, c, Put
  <2> QED BY <1>1, <2>1, <2>2, NowWith
<1>6. CASE m.type = "DocUnavailable"
  <2>1. ReceiveRequesting(a, k, m) = Now(a, k, "Unavailable", m)
    BY <1>6 DEF ReceiveRequesting, Now
  <2> QED BY <1>5, <1>6, <2>1 DEF PeerState, c
<1>7. CASE m.type = "Request" /\ c.peer \in Asking
  <2>1. ReceiveRequesting(a, k, m) = Now(a, k, "RequestedFromUs", m)
    BY <1>7 DEF ReceiveRequesting, c, Asking, Now
  <2> QED BY <1>5, <1>7, <2>1 DEF PeerState, c
<1>8. CASE m.type = "Request" /\ c.peer = "Syncing"
  <2>1. ReceiveRequesting(a, k, m) = Now(a, k, "Unavailable", m)
    BY <1>8 DEF ReceiveRequesting, c, Asking, Now
  <2> QED BY <1>5, <1>8, <2>1 DEF PeerState, c
<1>9. CASE m.type = "Request" /\ c.peer \notin Asking \cup {"Syncing"}
  <2>1. ReceiveRequesting(a, k, m) = a
    BY <1>9 DEF ReceiveRequesting, c, Asking, Now
  <2>2. Reaction(c, a.phase, m, c)
    BY <1>1, <1>9 DEF Reaction, Conn, c, Asking
  <2> QED BY <1>1, <1>3, <2>1, <2>2 DEF c
<1>10. CASE m.type = "Sync" /\ (~CanWrite(c.policy) \/ c.peer = "Syncing")
  <2>1. ReceiveRequesting(a, k, m) = Applied(a, k, m)
    BY <1>10 DEF ReceiveRequesting, c
  <2>2. Reaction(c, a.phase, m, h)
    BY <1>1, <1>4, <1>10 DEF Reaction, c
  <2> QED BY <1>4, <2>1, <2>2 DEF c
<1>11. CASE m.type = "Sync" /\ CanWrite(c.policy) /\ c.peer # "Syncing"
  <2> DEFINE s == AfterSync(c.peer, m.heads)
  <2>1. ReceiveRequesting(a, k, m) = Now(Applied(a, k, m), k, s, m)
    BY <1>11 DEF ReceiveRequesting, c, Now
  <2>2. s \in {"Unavailable", "Syncing"} /\ s \in PeerState
    BY DEF AfterSync, PeerState
  <2> HIDE DEF s
  <2>3. ReceiveRequesting(a, k, m) = With(a, k, Put(h, s, m), e) /\ Put(h, s, m) \in Conn
    BY <1>4, <2>1, <2>2, NowWith
  <2>4. Reaction(c, a.phase, m, Put(h, s, m))
    BY <1>1, <1>4, <1>11, <2>2 DEF Reaction, Conn, c, Put
  <2> QED BY <1>4, <2>3, <2>4 DEF c
<1> QED BY <1>6, <1>7, <1>8, <1>9, <1>10, <1>11 DEF Msg, c

LEMMA QueueType ==
    ASSUME NEW c \in Conn, NEW ms \in Seq(Msg)
    PROVE  /\ [c EXCEPT !.pending = ms] \in Conn /\ [c EXCEPT !.parked = ms] \in Conn
           /\ [c EXCEPT !.out = ms] \in Conn
BY DEF Conn

(* A message, as the actor handles it in any phase.                        *)
LEMMA MessageHandled ==
    ASSUME NEW n \in Node, NEW a \in Actor(n), NEW k \in Neighbours(n), NEW m \in Msg,
           a.phase = "Requesting" /\ a.conns[k].policy # NoConfig => a.conns[k].peer # "None",
           a.phase # "Requesting" => a.conns[k].peer = "None"
    PROVE  \E d \in Conn, e \in SUBSET Change :
              /\ HandleSyncMessage(a, k, m) = With(a, k, d, e) /\ a.doc \subseteq e
              /\ Reaction(a.conns[k], a.phase, m, d)
<1> DEFINE c == a.conns[k]
           f == [c EXCEPT !.hasRequested = @ \/ m.type # "DocUnavailable"]
           marked == With(a, k, f, a.doc)
<1>1. c \in Conn /\ a.doc \in SUBSET Change
  BY DEF Actor
<1>2. /\ f \in Conn /\ f.policy = c.policy /\ f.sentAny = c.sentAny
      /\ f.receivedAny = c.receivedAny /\ f.sync = c.sync /\ f.pending = c.pending
      /\ f.parked = c.parked /\ f.peer = c.peer /\ f.heads = c.heads /\ f.out = c.out
  BY <1>1 DEF Conn
<1>3. [a EXCEPT !.conns[k].hasRequested = @ \/ m.type # "DocUnavailable"] = marked
  BY DEF With, Actor
<1>4. /\ marked \in Actor(n) /\ marked.phase = a.phase /\ marked.doc = a.doc
      /\ marked.conns[k] = f
  BY <1>1, <1>2, WithType
<1>5. \A d \in Conn : [marked EXCEPT !.conns[k] = d] = With(a, k, d, a.doc)
  BY <1>1, <1>2, <1>4, WithSame, WithTwice
<1>6. f.policy = c.policy /\ f \in Conn /\ (Decided(f) <=> Decided(c))
  BY <1>2 DEF Decided
<1>7. HandleSyncMessage(a, k, m) =
        CASE f.policy = NoConfig -> a
          [] f.policy = Undecided -> [marked EXCEPT !.conns[k].pending = Append(@, m)]
          [] Decided(f) /\ ~CanRead(f.policy) -> Refuse(marked, k, m)
          [] Decided(f) /\ CanRead(f.policy) ->
               CASE a.phase = "Loading" -> [marked EXCEPT !.conns[k].parked = Append(@, m)]
                 [] a.phase = "Requesting" -> ReceiveRequesting(marked, k, m)
                 [] a.phase = "Ready" /\ m.type # "DocUnavailable" -> Applied(marked, k, m)
                 [] OTHER -> marked
  BY <1>3, <1>4, Zenon DEF HandleSyncMessage
<1> HIDE DEF marked, f, c
<1>8. CASE c.policy = NoConfig
  <2>1. HandleSyncMessage(a, k, m) = With(a, k, c, a.doc)
    <3>1. f.policy = NoConfig /\ f.policy # Undecided /\ ~Decided(f)
      BY <1>6, <1>8, GrantsApart, DecidedOrNot
    <3>2. HandleSyncMessage(a, k, m) = a
      BY <1>7, <3>1
    <3> QED BY <3>2, WithSame DEF c
  <2>2. Reaction(c, a.phase, m, c)
    BY <1>1, <1>8, DecidedOrNot DEF Reaction, NoConfig, Undecided, c
  <2> QED BY <1>1, <2>1, <2>2 DEF c
<1>9. CASE c.policy = Undecided
  <2> DEFINE d == [f EXCEPT !.pending = Append(@, m)]
  <2>1. d \in Conn
    <3>1. f.pending \in Seq(Msg)
      BY <1>2 DEF Conn
    <3>2. Append(f.pending, m) \in Seq(Msg)
      BY <3>1
    <3> QED BY <1>2, <3>2, QueueType
  <2>2. HandleSyncMessage(a, k, m) = [marked EXCEPT !.conns[k] = d]
    <3>1. f.policy # NoConfig /\ f.policy = Undecided /\ ~Decided(f)
      BY <1>6, <1>9, GrantsApart, DecidedOrNot
    <3>2. HandleSyncMessage(a, k, m) = [marked EXCEPT !.conns[k].pending = Append(@, m)]
      BY <1>7, <3>1
    <3> QED BY <1>4, <3>2 DEF Actor
  <2>3. Reaction(c, a.phase, m, d)
    BY <1>1, <1>2, <1>9, DecidedOrNot, GrantsApart DEF Reaction, Conn
  <2> QED BY <1>1, <1>5, <2>1, <2>2, <2>3 DEF c
<1>10. CASE Decided(c) /\ ~CanRead(c.policy)
  <2> DEFINE d == [f EXCEPT !.out = Append(@, DocUnavailable)]
  <2>1. d \in Conn
    <3>1. f.out \in Seq(Msg)
      BY <1>2 DEF Conn
    <3>2. Append(f.out, DocUnavailable) \in Seq(Msg)
      BY <3>1, ConstantTypes
    <3> QED BY <1>2, <3>2, QueueType
  <2>2. c.policy # NoConfig /\ c.policy # Undecided
    BY <1>1, <1>10, DecidedOrNot, GrantsApart
  <2>3. HandleSyncMessage(a, k, m) = Refuse(marked, k, m)
    BY <1>2, <1>6, <1>7, <1>10, <2>2
  <2>4. CASE m.type = "DocUnavailable"
    <3>1. HandleSyncMessage(a, k, m) = marked
      BY <2>3, <2>4 DEF Refuse
    <3>2. Reaction(c, a.phase, m, f)
      BY <1>1, <1>2, <1>10, <2>2 DEF Reaction, Conn
    <3> QED BY <1>1, <1>2, <3>1, <3>2 DEF marked, c
  <2>5. CASE m.type # "DocUnavailable"
    <3>1. HandleSyncMessage(a, k, m) = [marked EXCEPT !.conns[k] = d]
      BY <1>4, <2>3, <2>5 DEF Refuse, Actor
    <3>2. Reaction(c, a.phase, m, d)
      BY <1>1, <1>2, <1>10, <2>2 DEF Reaction, Conn
    <3> QED BY <1>1, <1>5, <2>1, <3>1, <3>2 DEF c
  <2> QED BY <2>4, <2>5
<1>11. CASE CanRead(c.policy) /\ a.phase = "Loading"
  <2> DEFINE d == [f EXCEPT !.parked = Append(@, m)]
  <2>1. d \in Conn
    <3>1. f.parked \in Seq(Msg)
      BY <1>2 DEF Conn
    <3>2. Append(f.parked, m) \in Seq(Msg)
      BY <3>1
    <3> QED BY <1>2, <3>2, QueueType
  <2>2. c.policy # NoConfig /\ c.policy # Undecided /\ Decided(c)
    BY <1>1, <1>11, DecidedOrNot, GrantsApart
  <2>3. HandleSyncMessage(a, k, m) = [marked EXCEPT !.conns[k].parked = Append(@, m)]
    BY <1>2, <1>6, <1>7, <1>11, <2>2
  <2>4. HandleSyncMessage(a, k, m) = [marked EXCEPT !.conns[k] = d]
    BY <1>4, <2>3 DEF Actor
  <2>5. Reaction(c, a.phase, m, d)
    BY <1>1, <1>2, <1>11, <2>2 DEF Reaction, Conn
  <2> QED BY <1>1, <1>5, <2>1, <2>4, <2>5 DEF c
<1>12. CASE CanRead(c.policy) /\ a.phase = "Requesting"
  <2>1. c.policy # NoConfig /\ c.policy # Undecided /\ Decided(c)
    BY <1>1, <1>12, DecidedOrNot, GrantsApart
  <2>2. HandleSyncMessage(a, k, m) = ReceiveRequesting(marked, k, m)
    BY <1>2, <1>6, <1>7, <1>12, <2>1
  <2>3. f.peer # "None"
    BY <1>2, <1>12, <2>1 DEF c
  <2>4. PICK d \in Conn, e \in SUBSET Change :
          /\ ReceiveRequesting(marked, k, m) = With(marked, k, d, e) /\ marked.doc \subseteq e
          /\ Reaction(f, marked.phase, m, d)
    BY <1>2, <1>4, <1>12, <2>3, RequestingHandles
  <2>5. With(marked, k, d, e) = With(a, k, d, e)
    BY <1>1, <1>2, WithTwice DEF marked
  <2>6. Reaction(c, a.phase, m, d)
    BY <1>2, <1>4, <1>6, <1>12, <2>1, <2>4 DEF Reaction
  <2> QED BY <1>4, <2>2, <2>4, <2>5, <2>6 DEF c
<1>13. CASE CanRead(c.policy) /\ a.phase \in {"None", "Ready"}
  <2>1. c.policy # NoConfig /\ c.policy # Undecided /\ Decided(c)
    BY <1>1, <1>13, DecidedOrNot, GrantsApart
  <2>2. c.peer = "None"
    BY <1>13 DEF c
  <2>3. CASE a.phase = "Ready" /\ m.type # "DocUnavailable"
    <3> DEFINE d == Heard(f, a.doc, m)
               e == Learnt(f, a.doc, m)
    <3>1. HandleSyncMessage(a, k, m) = Applied(marked, k, m)
      BY <1>2, <1>6, <1>7, <1>13, <2>1, <2>3
    <3>2. Applied(marked, k, m) = With(marked, k, d, e) /\ e \in SUBSET Change /\ a.doc \subseteq e
      BY <1>4, AppliedWith
    <3>3. d \in Conn /\ d.sentAny = f.sentAny
      BY <1>1, <1>2, HeardType DEF Heard, Conn
    <3>7. /\ d.policy = f.policy /\ d.pending = f.pending /\ d.parked = f.parked
          /\ d.out = f.out /\ d.peer = f.peer /\ d.heads = f.heads
          /\ d.sync.reset = f.sync.reset
      BY <1>1, <1>2, HeardType
    <3> HIDE DEF d, e
    <3>4. With(marked, k, d, e) = With(a, k, d, e)
      BY <1>1, <1>2, WithTwice DEF marked
    <3>5. Reaction(f, a.phase, m, d)
      BY <1>2, <1>13, <2>1, <2>2, <2>3, <3>3, <3>7 DEF Reaction
    <3>6. Reaction(c, a.phase, m, d)
      BY <1>2, <1>6, <1>13, <2>1, <3>5 DEF Reaction
    <3> QED BY <3>1, <3>2, <3>3, <3>4, <3>6 DEF c
  <2>4. CASE ~ (a.phase = "Ready" /\ m.type # "DocUnavailable")
    <3>1. HandleSyncMessage(a, k, m) = marked
      BY <1>2, <1>6, <1>7, <1>13, <2>1, <2>4
    <3>2. Reaction(c, a.phase, m, f)
      BY <1>1, <1>2, <1>13, <2>1, <2>2 DEF Reaction, Conn
    <3> QED BY <1>1, <1>2, <3>1, <3>2 DEF marked, c
  <2> QED BY <2>3, <2>4
<1>14. a.phase \in {"None", "Loading", "Requesting", "Ready"}
  BY DEF Actor
<1> QED BY <1>1, <1>8, <1>9, <1>10, <1>11, <1>12, <1>13, <1>14, DecidedOrNot DEF Decided, Undecided, NoConfig
----------------------------------------------------------------------------
(* The messages that waited, one by one.                                   *)

(* A set of numbers that is not empty has a least one: what an induction   *)
(* over a sequence rests on.                                               *)
LEMMA Least ==
    ASSUME NEW S \in SUBSET Nat, S # {}
    PROVE  \E i \in S : \A j \in S : i <= j
<1>1. \E i \in S : \A j \in S : ~ (<<j, i>> \in OpToRel(<, Nat))
  <2> DEFINE R == OpToRel(<, Nat)
  <2>1. IsWellFoundedOn(R, Nat)
    BY NatLessThanWellFounded
  <2> HIDE DEF R
  <2>2. \E i \in S : \A j \in S : ~ (<<j, i>> \in R)
    BY <2>1, WFMin
  <2> QED BY <2>2 DEF R
<1>2. \A i \in S, j \in S : <<j, i>> \in OpToRel(<, Nat) <=> j < i
  BY Zenon DEF OpToRel
<1>3. \E i \in S : \A j \in S : ~ (j < i)
  BY <1>1, <1>2, Zenon
<1> QED BY <1>3

(* The actor after each of the messages: HandleAll is well defined.        *)
Handling(h, j, a, k, ms) ==
    h = [i \in 0 .. j |-> IF i = 0 THEN a ELSE HandleSyncMessage(h[i - 1], k, ms[i])]

LEMMA HandlingExists ==
    ASSUME NEW a, NEW k, NEW ms, NEW l \in Nat
    PROVE  \E h : Handling(h, l, a, k, ms)
<1> DEFINE Bad == {j \in Nat : ~ \E h : Handling(h, j, a, k, ms)}
<1>1. Handling([i \in 0 .. 0 |-> a], 0, a, k, ms)
  BY DEF Handling
<1>2. ASSUME NEW j \in Nat, NEW h, Handling(h, j, a, k, ms)
      PROVE  \E g : Handling(g, j + 1, a, k, ms)
  <2> DEFINE g == [i \in 0 .. j + 1 |->
                     IF i <= j THEN h[i] ELSE HandleSyncMessage(h[j], k, ms[j + 1])]
  <2>1. \A i \in 0 .. j : h[i] = IF i = 0 THEN a ELSE HandleSyncMessage(h[i - 1], k, ms[i])
    BY <1>2 DEF Handling
  <2>2. ASSUME NEW i \in 0 .. j + 1
        PROVE  g[i] = IF i = 0 THEN a ELSE HandleSyncMessage(g[i - 1], k, ms[i])
    <3>1. CASE i <= j
      BY <2>1, <3>1
    <3>2. CASE i = j + 1
      BY <3>2
    <3> QED BY <3>1, <3>2
  <2>3. Handling(g, j + 1, a, k, ms)
    BY <2>2 DEF Handling
  <2> QED BY <2>3, Zenon
<1>3. Bad = {}
  <2> SUFFICES ASSUME Bad # {} PROVE FALSE
    OBVIOUS
  <2>1. PICK j \in Bad : \A i \in Bad : j <= i
    BY Least
  <2>2. j # 0
    BY <1>1
  <2>3. j - 1 \in Nat /\ j - 1 \notin Bad /\ (j - 1) + 1 = j
    BY <2>1, <2>2
  <2>4. \E h : Handling(h, j - 1, a, k, ms)
    BY <2>3
  <2>5. \E g : Handling(g, (j - 1) + 1, a, k, ms)
    BY <1>2, <2>3, <2>4
  <2> QED BY <2>3, <2>5
<1> QED BY <1>3, Zenon

LEMMA AllUnfolds ==
    ASSUME NEW a, NEW k, NEW ms, Len(ms) \in Nat
    PROVE  \E h : /\ HandleAll(a, k, ms) = h[Len(ms)] /\ h[0] = a
                  /\ \A i \in 1 .. Len(ms) : h[i] = HandleSyncMessage(h[i - 1], k, ms[i])
<1> DEFINE h == CHOOSE h : Handling(h, Len(ms), a, k, ms)
<1>1. Handling(h, Len(ms), a, k, ms)
  <2>1. \E g : Handling(g, Len(ms), a, k, ms)
    BY HandlingExists
  <2> QED BY <2>1, Zenon
<1>2. HandleAll(a, k, ms) = h[Len(ms)]
  BY DEF HandleAll, Handling
<1> HIDE DEF h
<1>3. h[0] = a /\ \A i \in 1 .. Len(ms) : h[i] = HandleSyncMessage(h[i - 1], k, ms[i])
  BY <1>1 DEF Handling
<1> QED BY <1>2, <1>3

(* How a connection looks before any decision changes, in phase p; q says  *)
(* whether the peer has the document.  As long as neither side has it,     *)
(* nothing of the sync protocol passes between them.                       *)
Filled(ms) == \A i \in 1 .. Len(ms) : ms[i].type = "Sync" => ms[i].heads # {}
NoSync(ms) == \A i \in 1 .. Len(ms) : ms[i].type # "Sync"

Fitting(p, q, ms) == p # "Ready" => Filled(ms) /\ (~q => NoSync(ms))

Untouched(c) == ~c.sentAny /\ ~c.receivedAny /\ ~c.sync.known

Calm(c, p, q) ==
    /\ ~c.sync.reset /\ NoSync(c.out)
    /\ CanRead(c.policy) => c.out = <<>>
    /\ ~Decided(c) \/ p = "Loading" => Untouched(c)
    /\ Fitting(p, q, c.pending) /\ Fitting(p, q, c.parked)
    /\ p # "Ready" /\ ~q => ~c.sync.known /\ c.peer # "Syncing"
    /\ p = "Requesting" =>
         /\ c.policy = Undecided => c.peer = "AwaitingSharePolicy"
         /\ c.peer = "AwaitingSend" => CanRequest(c.policy) /\ ~c.sentAny /\ ~c.receivedAny
         /\ c.peer = "BlockedByPolicy" /\ CanWrite(c.policy) => ~c.policy.announce /\ ~c.sync.known
         /\ c.peer = "Syncing" => c.heads # {}

(* A request that came is waiting for the decision or the load, or was     *)
(* taken note of.                                                          *)
Pledged(c, p) ==
    c.hasRequested =>
        /\ c.policy # NoConfig
        /\ c.policy = Undecided => c.pending # <<>>
        /\ p = "Loading" /\ CanRead(c.policy) => c.parked # <<>>
        /\ p = "Requesting" /\ c.peer = "BlockedByPolicy" => ~CanWrite(c.policy)

LEMMA FittingAppend ==
    ASSUME NEW p, NEW q \in BOOLEAN, NEW ms \in Seq(Msg), NEW m \in Msg,
           Fitting(p, q, ms), Fitting(p, q, <<m>>)
    PROVE  Fitting(p, q, Append(ms, m))
<1>1. m.type = "Sync" /\ p # "Ready" => m.heads # {} /\ q
  BY DEF Fitting, Filled, NoSync
<1>2. Len(Append(ms, m)) = Len(ms) + 1 /\ Len(ms) \in Nat
  OBVIOUS
<1>3. \A i \in 1 .. Len(ms) + 1 : Append(ms, m)[i] = IF i = Len(ms) + 1 THEN m ELSE ms[i]
  OBVIOUS
<1> HIDE DEF Msg
<1> QED BY <1>1, <1>2, <1>3 DEF Fitting, Filled, NoSync

LEMMA ReactionCalm ==
    ASSUME NEW c \in Conn, NEW d \in Conn, NEW p, NEW q \in BOOLEAN, NEW m \in Msg,
           Reaction(c, p, m, d), Calm(c, p, q), Fitting(p, q, <<m>>)
    PROVE  Calm(d, p, q)
<1>1. m.type = "Sync" /\ p # "Ready" => m.heads # {} /\ q
  BY DEF Fitting, Filled, NoSync
<1>2. c.pending \in Seq(Msg) /\ c.parked \in Seq(Msg) /\ c.out \in Seq(Msg)
  BY DEF Conn
<1>3. Fitting(p, q, d.pending) /\ Fitting(p, q, d.parked)
  <2>1. Fitting(p, q, Append(c.pending, m)) /\ Fitting(p, q, Append(c.parked, m))
    BY <1>2, FittingAppend DEF Calm
  <2> QED BY <2>1 DEF Reaction, Calm
<1>4. NoSync(d.out)
  <2>1. d.out = c.out \/ d.out = Append(c.out, DocUnavailable)
    BY DEF Reaction
  <2>2. DocUnavailable.type # "Sync"
    BY DEF DocUnavailable
  <2>3. Len(Append(c.out, DocUnavailable)) = Len(c.out) + 1 /\ Len(c.out) \in Nat
    BY <1>2
  <2>4. \A i \in 1 .. Len(c.out) + 1 :
           Append(c.out, DocUnavailable)[i] = IF i = Len(c.out) + 1 THEN DocUnavailable ELSE c.out[i]
    BY <1>2
  <2> QED BY <2>1, <2>2, <2>3, <2>4 DEF NoSync, Calm
<1>5. d.policy = c.policy /\ d.sync.reset = c.sync.reset /\ d.sentAny = c.sentAny
  BY DEF Reaction
<1>6. CanRead(d.policy) => d.out = <<>>
  BY <1>5 DEF Reaction, Calm
<1>7. ~Decided(d) \/ p = "Loading" => Untouched(d)
  BY <1>5, DecidedOrNot DEF Reaction, Calm, Untouched, Decided
<1>8. p # "Ready" /\ ~q => ~d.sync.known /\ d.peer # "Syncing"
  <2> SUFFICES ASSUME p # "Ready", ~q PROVE ~d.sync.known /\ d.peer # "Syncing"
    OBVIOUS
  <2>1. m.type # "Sync"
    BY <1>1
  <2> QED BY <2>1 DEF Reaction, Calm
<1>9. ASSUME p = "Requesting"
      PROVE  /\ d.policy = Undecided => d.peer = "AwaitingSharePolicy"
             /\ d.peer = "AwaitingSend" => CanRequest(d.policy) /\ ~d.sentAny /\ ~d.receivedAny
             /\ d.peer = "BlockedByPolicy" /\ CanWrite(d.policy) =>
                   ~d.policy.announce /\ ~d.sync.known
             /\ d.peer = "Syncing" => d.heads # {}
  <2>1. CASE ~CanRead(c.policy)
    BY <1>5, <1>9, <2>1 DEF Reaction, Calm
  <2>2. CASE CanRead(c.policy)
    <3>1. d.policy # Undecided
      BY <1>5, <2>2, DecidedOrNot
    <3>2. d.peer \in {"AwaitingSend", "BlockedByPolicy"} => ~CanWrite(d.policy)
      BY <1>5, <1>9, <2>2 DEF Reaction
    <3>3. d.peer = "AwaitingSend" => CanRequest(d.policy) /\ ~d.sentAny /\ ~d.receivedAny
      BY <1>5, <1>9, <2>2, <3>2 DEF Reaction, Calm, CanRequest
    <3>4. d.peer = "Syncing" => d.heads # {}
      BY <1>1, <1>9 DEF Reaction, Calm
    <3> QED BY <3>1, <3>2, <3>3, <3>4
  <2> QED BY <2>1, <2>2
<1> QED BY <1>3, <1>4, <1>5, <1>6, <1>7, <1>8, <1>9 DEF Calm, Reaction

LEMMA ReactionPledged ==
    ASSUME NEW c \in Conn, NEW d \in Conn, NEW p, NEW m \in Msg, Reaction(c, p, m, d)
    PROVE  (c.policy = NoConfig /\ d = c) \/ Pledged(d, p)
<1>1. c.pending \in Seq(Msg) /\ c.parked \in Seq(Msg)
  BY DEF Conn
<1>2. Append(c.pending, m) # <<>> /\ Append(c.parked, m) # <<>>
  BY <1>1
<1> QED BY <1>2, DecidedOrNot DEF Reaction, Pledged

(* The peer's state is known while requesting, and only then.              *)
Placed(c, p) == c.peer # "None" <=> p = "Requesting" /\ c.policy # NoConfig

(* What i of the messages do to a connection.                              *)
Reactions(c, p, i, ms, d) ==
    /\ d.policy = c.policy /\ Placed(d, p)
    /\ c.policy # Undecided => d.pending = c.pending
    /\ p # "Loading" => d.parked = c.parked
    /\ i = 0 \/ c.policy = NoConfig => d = c
    /\ i > 0 /\ c.policy # NoConfig => Pledged(d, p)
    /\ \A q \in BOOLEAN : Calm(c, p, q) /\ Fitting(p, q, ms) => Calm(d, p, q)

LEMMA FittingMember ==
    ASSUME NEW p, NEW q \in BOOLEAN, NEW ms \in Seq(Msg), NEW i \in 1 .. Len(ms),
           Fitting(p, q, ms)
    PROVE  Fitting(p, q, <<ms[i]>>)
BY DEF Fitting, Filled, NoSync

LEMMA OneMore ==
    ASSUME NEW c \in Conn, NEW d \in Conn, NEW f \in Conn, NEW p, NEW ms \in Seq(Msg),
           NEW i \in 1 .. Len(ms), Placed(c, p), Reactions(c, p, i - 1, ms, d),
           Reaction(d, p, ms[i], f)
    PROVE  Reactions(c, p, i, ms, f)
<1>1. f.policy = c.policy /\ d.policy = c.policy /\ Placed(f, p)
  BY DEF Reactions, Reaction, Placed
<1>2. c.policy # Undecided => f.pending = c.pending
  BY DEF Reactions, Reaction
<1>3. p # "Loading" => f.parked = c.parked
  BY DEF Reactions, Reaction
<1>4. c.policy = NoConfig => f = c
  BY DEF Reactions, Reaction
<1>5. c.policy # NoConfig => Pledged(f, p)
  BY <1>1, ReactionPledged
<1>6. ASSUME NEW q \in BOOLEAN, Calm(c, p, q), Fitting(p, q, ms) PROVE Calm(f, p, q)
  <2>1. Calm(d, p, q)
    BY <1>6 DEF Reactions
  <2>2. Fitting(p, q, <<ms[i]>>)
    BY <1>6, FittingMember
  <2> QED BY <2>1, <2>2, ReactionCalm
<1> QED BY <1>1, <1>2, <1>3, <1>4, <1>5, <1>6 DEF Reactions

LEMMA AllHandled ==
    ASSUME NEW n \in Node, NEW a \in Actor(n), NEW k \in Neighbours(n), NEW ms \in Seq(Msg),
           Placed(a.conns[k], a.phase)
    PROVE  \E d \in Conn, e \in SUBSET Change :
              /\ HandleAll(a, k, ms) = With(a, k, d, e) /\ a.doc \subseteq e
              /\ Reactions(a.conns[k], a.phase, Len(ms), ms, d)
<1> DEFINE c == a.conns[k]
           p == a.phase
<1>1. c \in Conn /\ a.doc \in SUBSET Change /\ a = With(a, k, c, a.doc)
  BY WithSame DEF Actor
<1>2. PICK h : /\ HandleAll(a, k, ms) = h[Len(ms)] /\ h[0] = a
               /\ \A i \in 1 .. Len(ms) : h[i] = HandleSyncMessage(h[i - 1], k, ms[i])
  BY AllUnfolds
<1> DEFINE Reached(i) == \E d \in Conn, e \in SUBSET Change :
                            /\ h[i] = With(a, k, d, e) /\ a.doc \subseteq e
                            /\ Reactions(c, p, i, ms, d)
           Bad == {i \in 0 .. Len(ms) : ~Reached(i)}
<1>3. Reached(0)
  <2>1. Reactions(c, p, 0, ms, c)
    BY DEF Reactions
  <2> QED BY <1>1, <1>2, <2>1
<1>4. ASSUME NEW i \in 1 .. Len(ms), Reached(i - 1) PROVE Reached(i)
  <2>1. PICK d \in Conn, e \in SUBSET Change :
          /\ h[i - 1] = With(a, k, d, e) /\ a.doc \subseteq e
          /\ Reactions(c, p, i - 1, ms, d)
    BY <1>4
  <2> DEFINE b == With(a, k, d, e)
  <2>2. b \in Actor(n) /\ b.phase = p /\ b.doc = e /\ b.conns[k] = d
    BY WithType
  <2>3. Placed(d, p)
    BY <2>1 DEF Reactions
  <2>4. ms[i] \in Msg
    OBVIOUS
  <2> HIDE DEF b, p
  <2>5. PICK f \in Conn, g \in SUBSET Change :
          /\ HandleSyncMessage(b, k, ms[i]) = With(b, k, f, g) /\ b.doc \subseteq g
          /\ Reaction(d, p, ms[i], f)
    BY <2>2, <2>3, <2>4, MessageHandled DEF Placed
  <2>6. With(b, k, f, g) = With(a, k, f, g)
    BY WithTwice DEF b
  <2>7. h[i] = With(a, k, f, g)
    BY <1>2, <2>1, <2>5, <2>6 DEF b
  <2>8. Reactions(c, p, i, ms, f)
    BY <1>1, <2>1, <2>5, OneMore DEF p
  <2> QED BY <2>1, <2>2, <2>5, <2>7, <2>8
<1> HIDE DEF Reached
<1>5. Bad = {}
  <2> SUFFICES ASSUME Bad # {} PROVE FALSE
    OBVIOUS
  <2>1. PICK i \in Bad : \A j \in Bad : i <= j
    <3>1. Bad \in SUBSET Nat
      OBVIOUS
    <3> HIDE DEF Bad
    <3> QED BY <3>1, Least
  <2>2. i # 0
    BY <1>3
  <2>3. i \in 1 .. Len(ms) /\ i - 1 \in 0 .. Len(ms) /\ i - 1 \notin Bad
    BY <2>1, <2>2
  <2> QED BY <1>4, <2>1, <2>3
<1>6. Reached(Len(ms))
  BY <1>5
<1> QED BY <1>2, <1>6 DEF Reached
----------------------------------------------------------------------------
(* What the step sends.                                                    *)

(* The connection c of an actor in phase p, after it has sent what it has  *)
(* to send; GenerateAll does this to every connection.                     *)
Generated(c, p, doc, syncing) ==
    CASE p = "Ready" /\ CanSend(c) -> Generate(c, doc)
      [] p = "Requesting" -> GenerateRequesting(c, doc, syncing)
      [] OTHER -> c

Kept(c, g) ==
    /\ g.policy = c.policy /\ g.hasRequested = c.hasRequested
    /\ g.receivedAny = c.receivedAny /\ g.pending = c.pending /\ g.parked = c.parked
    /\ g.heads = c.heads

LEMMA RequestType ==
    ASSUME NEW c \in Conn, NEW doc \in SUBSET Change
    PROVE  LET f == [PrepareRequest(c) EXCEPT !.peer = "Sent"]
               g == AsRequest(Generate(f, doc))
           IN  /\ f \in Conn /\ Kept(c, f) /\ f.peer = "Sent" /\ f.out = c.out
               /\ ~c.sentAny /\ ~c.receivedAny => f.sync = c.sync
               /\ g \in Conn /\ Kept(c, g) /\ g.peer = "Sent"
               /\ g.sync = Generate(f, doc).sync
               /\ g.out = [Generate(f, doc).out EXCEPT ![1].type = "Request"]
<1> DEFINE r == [Fresh EXCEPT !.reset = TRUE]
           f == [PrepareRequest(c) EXCEPT !.peer = "Sent"]
           h == Generate(f, doc)
           o == [h.out EXCEPT ![1].type = "Request"]
           g == AsRequest(h)
<1>1. r \in Session
  BY DEF Session, Fresh
<1>2. PrepareRequest(c) = IF c.sentAny \/ c.receivedAny THEN [c EXCEPT !.sync = r] ELSE c
  BY DEF PrepareRequest, StartOver
<1> HIDE DEF r
<1>3. /\ f \in Conn /\ Kept(c, f) /\ f.peer = "Sent" /\ f.out = c.out
      /\ ~c.sentAny /\ ~c.receivedAny => f.sync = c.sync
  <2>1. /\ PrepareRequest(c) \in Conn /\ Kept(c, PrepareRequest(c))
        /\ PrepareRequest(c).out = c.out
        /\ ~c.sentAny /\ ~c.receivedAny => PrepareRequest(c).sync = c.sync
    BY <1>1, <1>2 DEF Conn, Kept
  <2>2. \A r1 \in Conn : LET x == [r1 EXCEPT !.peer = "Sent"] IN
          x \in Conn /\ Kept(r1, x) /\ x.peer = "Sent" /\ x.out = r1.out /\ x.sync = r1.sync
    BY DEF Conn, Kept, PeerState, Asking
  <2>3. f \in Conn /\ Kept(PrepareRequest(c), f) /\ f.peer = "Sent"
        /\ f.out = PrepareRequest(c).out /\ f.sync = PrepareRequest(c).sync
    BY <2>1, <2>2
  <2> HIDE DEF f
  <2> QED BY <2>1, <2>3 DEF Kept
<1> HIDE DEF f
<1>4. h \in Conn /\ Kept(f, h) /\ h.peer = "Sent"
  BY <1>3, GenerateType DEF Kept
<1> HIDE DEF h
<1>5. o \in Seq(Msg)
  <2>1. h.out \in Seq(Msg)
    BY <1>4 DEF Conn
  <2>2. \A x \in Msg : [x EXCEPT !.type = "Request"] \in Msg
    BY DEF Msg
  <2>3. Len(h.out) \in Nat /\ DOMAIN h.out = 1 .. Len(h.out) /\ h.out \in [1 .. Len(h.out) -> Msg]
    BY <2>1
  <2>4. o \in [1 .. Len(h.out) -> Msg]
    BY <2>2, <2>3
  <2> QED BY <2>3, <2>4, SeqDef
<1>6. g = [h EXCEPT !.out = o]
  BY DEF AsRequest
<1> HIDE DEF o
<1>7. g \in Conn /\ Kept(h, g) /\ g.peer = h.peer /\ g.sync = h.sync /\ g.out = o
  BY <1>4, <1>5, <1>6 DEF Conn, Kept
<1> QED BY <1>3, <1>4, <1>7 DEF Kept, f, h, o

LEMMA GeneratedType ==
    ASSUME NEW c \in Conn, NEW p, NEW doc \in SUBSET Change, NEW syncing, Placed(c, p)
    PROVE  LET g == Generated(c, p, doc, syncing) IN
           g \in Conn /\ Kept(c, g) /\ Placed(g, p)
<1> DEFINE g == Generated(c, p, doc, syncing)
           resumed == Generate(c, doc)
<1>1. c \in Conn /\ Kept(c, c)
  BY DEF Kept
<1>2. resumed \in Conn /\ Kept(c, resumed) /\ resumed.peer = c.peer
  BY GenerateType DEF Kept
<1>3. [resumed EXCEPT !.peer = "Sent"] \in Conn /\ Kept(c, [resumed EXCEPT !.peer = "Sent"])
      /\ [resumed EXCEPT !.peer = "Sent"].peer = "Sent"
  <2>1. \A f \in Conn : LET x == [f EXCEPT !.peer = "Sent"] IN
          x \in Conn /\ Kept(f, x) /\ x.peer = "Sent"
    BY DEF Conn, Kept, PeerState, Asking
  <2> QED BY <1>2, <2>1 DEF Kept
<1> DEFINE asked == AsRequest(Generate([PrepareRequest(c) EXCEPT !.peer = "Sent"], doc))
           refused == [c EXCEPT !.peer = "Refused", !.out = Append(@, DocUnavailable)]
<1>4. asked \in Conn /\ Kept(c, asked) /\ asked.peer = "Sent"
  BY RequestType
<1>5. refused \in Conn /\ Kept(c, refused) /\ refused.peer = "Refused"
  <2>1. Append(c.out, DocUnavailable) \in Seq(Msg)
    BY ConstantTypes DEF Conn
  <2> DEFINE o == Append(c.out, DocUnavailable)
  <2> HIDE DEF o
  <2>2. o \in Seq(Msg)
    BY <2>1 DEF o
  <2>3. refused = [c EXCEPT !.peer = "Refused", !.out = o]
    BY DEF o
  <2> HIDE DEF refused
  <2> QED BY <2>2, <2>3 DEF Conn, Kept, PeerState
<1>6. \/ g = c
      \/ g = resumed
      \/ p = "Requesting" /\ g = [resumed EXCEPT !.peer = "Sent"] /\ c.peer = "BlockedByPolicy"
      \/ p = "Requesting" /\ g = asked /\ c.peer = "AwaitingSend"
      \/ p = "Requesting" /\ g = refused /\ c.peer = "RequestedFromUs"
  BY DEF Generated, GenerateRequesting
<1> HIDE DEF g, resumed, asked, refused
<1>7. g \in Conn /\ Kept(c, g) /\ (g.peer = c.peer \/ (g.peer # "None" /\ c.peer # "None"))
  BY <1>1, <1>2, <1>3, <1>4, <1>5, <1>6
<1> QED BY <1>7 DEF Placed, Kept, g

LEMMA GenerateAllIs ==
    ASSUME NEW n \in Node, NEW a \in Actor(n)
    PROVE  GenerateAll(a, n) =
             [a EXCEPT !.conns = [k \in Neighbours(n) |->
                Generated(a.conns[k], a.phase, a.doc, AnySyncing(a, n))]]
<1>1. \A k \in Neighbours(n) :
        Generated(a.conns[k], a.phase, a.doc, AnySyncing(a, n)) =
          CASE a.phase = "Ready" /\ CanSend(a.conns[k]) -> Generate(a.conns[k], a.doc)
            [] a.phase = "Requesting" -> GenerateRequesting(a.conns[k], a.doc, AnySyncing(a, n))
            [] OTHER -> a.conns[k]
  BY DEF Generated
<1> QED BY <1>1 DEF GenerateAll

(* A session that does not start over sends its heads, and nothing else.   *)
LEMMA BatchIsHeads ==
    ASSUME NEW c \in Conn, NEW doc \in SUBSET Change, ~c.sync.reset
    PROVE  \E m \in Msg : Batch(c, doc) = <<m>> /\ m.type = "Sync" /\ m.heads = doc
<1> DEFINE m == Heads(c, doc, NewChanges(c.sync, doc), c.sync.reset /\ c.receivedAny)
<1>1. m \in Msg
  BY HeadsType, NewChangesType DEF Conn, Session
<1>2. m.type = "Sync" /\ m.heads = doc
  BY DEF Heads
<1>3. Batch(c, doc) = <<m>>
  BY DEF Batch, ByEmptyHeads
<1> HIDE DEF m
<1> QED BY <1>1, <1>2, <1>3

LEMMA JoinedQueues ==
    ASSUME NEW ms \in Seq(Msg), NEW os \in Seq(Msg)
    PROVE  /\ NoSync(ms) /\ NoSync(os) => NoSync(ms \o os)
           /\ Filled(ms) /\ Filled(os) => Filled(ms \o os)
           /\ NoSync(ms) => Filled(ms)
<1>1. /\ Len(ms) \in Nat /\ Len(os) \in Nat /\ Len(ms \o os) = Len(ms) + Len(os)
      /\ \A i \in 1 .. Len(ms) + Len(os) :
            (ms \o os)[i] = IF i <= Len(ms) THEN ms[i] ELSE os[i - Len(ms)]
  OBVIOUS
<1> DEFINE both == ms \o os
<1> HIDE DEF both
<1>2. /\ Len(both) = Len(ms) + Len(os)
      /\ \A i \in 1 .. Len(both) :
           \/ i \in 1 .. Len(ms) /\ both[i] = ms[i]
           \/ i - Len(ms) \in 1 .. Len(os) /\ both[i] = os[i - Len(ms)]
  BY <1>1 DEF both
<1> QED BY <1>2 DEF NoSync, Filled, both

LEMMA OneMessage ==
    ASSUME NEW m \in Msg
    PROVE  <<m>> \in Seq(Msg) /\ (NoSync(<<m>>) <=> m.type # "Sync")
           /\ (Filled(<<m>>) <=> (m.type = "Sync" => m.heads # {}))
<1>1. Len(<<m>>) = 1 /\ <<m>>[1] = m /\ 1 .. 1 = {1}
  OBVIOUS
<1> QED BY <1>1 DEF NoSync, Filled

LEMMA EmptiedCalm ==
    ASSUME NEW c \in Conn, NEW g \in Conn, NEW p, NEW q \in BOOLEAN,
           Kept(c, g), Calm(c, p, q), Pledged(c, p), ~g.sync.reset,
           g.sync.known = c.sync.known,
           g.sentAny => c.sentAny \/ (Decided(c) /\ p # "Loading"),
           p = "Requesting" /\ g.peer = "AwaitingSend" => g.sentAny = c.sentAny,
           g.peer = c.peer \/ (Decided(c) /\ g.peer \in {"Sent", "Refused"})
    PROVE  LET r == [g EXCEPT !.out = <<>>] IN Calm(r, p, q) /\ Pledged(r, p)
<1> DEFINE r == [g EXCEPT !.out = <<>>]
<1>1. /\ r.out = <<>> /\ Kept(c, r) /\ r.sync = g.sync /\ r.sentAny = g.sentAny
      /\ r.peer = g.peer
  BY DEF Conn, Kept
<1> HIDE DEF r
<1>2. NoSync(r.out) /\ ~r.sync.reset
  BY <1>1 DEF NoSync
<1>3. Fitting(p, q, r.pending) /\ Fitting(p, q, r.parked)
  BY <1>1 DEF Calm, Kept
<1>4. ~Decided(r) \/ p = "Loading" => Untouched(r)
  BY <1>1 DEF Calm, Kept, Decided, Untouched
<1>5. p # "Ready" /\ ~q => ~r.sync.known /\ r.peer # "Syncing"
  BY <1>1 DEF Calm
<1>6. p = "Requesting" =>
         /\ r.policy = Undecided => r.peer = "AwaitingSharePolicy"
         /\ r.peer = "AwaitingSend" => CanRequest(r.policy) /\ ~r.sentAny /\ ~r.receivedAny
         /\ r.peer = "BlockedByPolicy" /\ CanWrite(r.policy) => ~r.policy.announce /\ ~r.sync.known
         /\ r.peer = "Syncing" => r.heads # {}
  BY <1>1 DEF Calm, Kept, Decided, Undecided
<1>7. Pledged(r, p)
  BY <1>1 DEF Pledged, Kept
<1> QED BY <1>1, <1>2, <1>3, <1>4, <1>5, <1>6, <1>7 DEF Calm, r

LEMMA GeneratedCalm ==
    ASSUME NEW c \in Conn, NEW p, NEW q \in BOOLEAN, NEW doc \in SUBSET Change, NEW syncing,
           Placed(c, p), Calm(c, p, q), Pledged(c, p), p = "Ready" => doc # {}
    PROVE  LET g == Generated(c, p, doc, syncing)
               r == [g EXCEPT !.out = <<>>]
           IN  /\ Calm(r, p, q) /\ Pledged(r, p)
               /\ ~q => Filled(g.out) /\ (p # "Ready" => NoSync(g.out))
<1> DEFINE g == Generated(c, p, doc, syncing)
           resumed == Generate(c, doc)
           asked == AsRequest(Generate([PrepareRequest(c) EXCEPT !.peer = "Sent"], doc))
           refused == [c EXCEPT !.peer = "Refused", !.out = Append(@, DocUnavailable)]
           Sends(x) == ~q => Filled(x.out) /\ (p # "Ready" => NoSync(x.out))
           Fits(x) == LET r == [x EXCEPT !.out = <<>>] IN Calm(r, p, q) /\ Pledged(r, p)
<1>1. c.out \in Seq(Msg) /\ NoSync(c.out) /\ Filled(c.out) /\ ~c.sync.reset
  BY JoinedQueues DEF Conn, Calm
<1>2. Sends(c) /\ Fits(c)
  <2>1. Fits(c)
    BY EmptiedCalm, <1>1 DEF Kept
  <2> QED BY <1>1, <2>1
<1>3. ASSUME CanRead(c.policy), p = "Ready" \/ (q /\ p = "Requesting" /\ c.peer # "AwaitingSend")
      PROVE  Sends(resumed) /\ Fits(resumed)
  <2>1. resumed \in Conn /\ Kept(c, resumed) /\ resumed.peer = c.peer
        /\ resumed.sync.known = c.sync.known /\ ~resumed.sync.reset
        /\ (resumed.out = c.out \/ resumed.out = c.out \o Batch(c, doc))
    BY <1>1, GenerateType DEF Kept
  <2>2. Decided(c)
    BY <1>3, DecidedOrNot
  <2>3. Fits(resumed)
    <3> HIDE DEF resumed
    <3> QED BY <1>3, <2>1, <2>2, EmptiedCalm
  <2>4. PICK m \in Msg : Batch(c, doc) = <<m>> /\ m.type = "Sync" /\ m.heads = doc
    BY <1>1, BatchIsHeads
  <2>5. p = "Ready" => Filled(<<m>>)
    BY <2>4, OneMessage
  <2>6. p = "Ready" => Filled(resumed.out)
    <3>1. <<m>> \in Seq(Msg)
      OBVIOUS
    <3>2. p = "Ready" => Filled(c.out \o <<m>>)
      BY <1>1, <2>5, <3>1, JoinedQueues
    <3> QED BY <1>1, <2>1, <2>4, <3>2
  <2> QED BY <1>3, <2>3, <2>6
<1>4. ASSUME p = "Requesting", c.peer = "AwaitingSend" PROVE Sends(asked) /\ Fits(asked)
  <2> DEFINE f == [PrepareRequest(c) EXCEPT !.peer = "Sent"]
             h == Generate(f, doc)
  <2>1. CanRequest(c.policy) /\ ~c.sentAny /\ ~c.receivedAny
    BY <1>4 DEF Calm
  <2>2. CanRead(c.policy) /\ Decided(c) /\ c.out = <<>>
    BY <2>1, DecidedOrNot DEF CanRequest, Calm
  <2>3. f \in Conn /\ f.out = <<>> /\ f.sync = c.sync
    BY <2>1, <2>2, RequestType
  <2>4. /\ asked \in Conn /\ Kept(c, asked) /\ asked.peer = "Sent" /\ asked.sync = h.sync
        /\ asked.out = [h.out EXCEPT ![1].type = "Request"]
    BY RequestType
  <2> HIDE DEF f
  <2>5. ~h.sync.reset /\ h.sync.known = c.sync.known
        /\ (h.out = f.out \/ h.out = f.out \o Batch(f, doc))
    <3>1. ~f.sync.reset
      BY <1>1, <2>3
    <3>2. /\ ~h.sync.reset /\ h.sync.known = f.sync.known
          /\ (h.out = f.out \/ h.out = f.out \o Batch(f, doc))
      BY <2>3, <3>1, GenerateType
    <3> QED BY <2>3, <3>2
  <2> HIDE DEF h, asked
  <2>6. Fits(asked)
    BY <1>4, <2>2, <2>4, <2>5, EmptiedCalm
  <2>7. NoSync(asked.out)
    <3>1. PICK m \in Msg : Batch(f, doc) = <<m>>
      BY <1>1, <2>3, BatchIsHeads
    <3>2. h.out = <<>> \/ h.out = <<m>>
      BY <2>3, <2>5, <3>1
    <3>3. CASE h.out = <<>>
      <4>1. DOMAIN asked.out = DOMAIN h.out /\ DOMAIN h.out = {}
        BY <2>4, <3>3
      <4>2. asked.out \in Seq(Msg)
        BY <2>4 DEF Conn
      <4>3. DOMAIN asked.out = 1 .. Len(asked.out) /\ Len(asked.out) \in Nat
        BY <4>2
      <4> QED BY <4>1, <4>3 DEF NoSync
    <3>4. CASE h.out = <<m>>
      <4>1. asked.out = <<[m EXCEPT !.type = "Request"]>>
        BY <2>4, <3>4
      <4>2. [m EXCEPT !.type = "Request"] \in Msg /\ [m EXCEPT !.type = "Request"].type = "Request"
        BY DEF Msg
      <4> QED BY <4>1, <4>2, OneMessage
    <3> QED BY <3>2, <3>3, <3>4
  <2>8. asked.out \in Seq(Msg)
    BY <2>4 DEF Conn
  <2> QED BY <1>4, <2>6, <2>7, <2>8, JoinedQueues
<1>5. ASSUME p = "Requesting", c.peer = "RequestedFromUs" PROVE Sends(refused) /\ Fits(refused)
  <2> DEFINE o == Append(c.out, DocUnavailable)
  <2>1. o \in Seq(Msg) /\ NoSync(o)
    <3>1. <<DocUnavailable>> \in Seq(Msg) /\ NoSync(<<DocUnavailable>>)
      BY ConstantTypes DEF NoSync, DocUnavailable
    <3>2. o = c.out \o <<DocUnavailable>>
      BY <1>1
    <3>3. o \in Seq(Msg)
      BY <1>1, ConstantTypes
    <3> QED BY <1>1, <3>1, <3>2, <3>3, JoinedQueues
  <2>2. refused = [c EXCEPT !.peer = "Refused", !.out = o]
    OBVIOUS
  <2> HIDE DEF o, refused
  <2>3. /\ refused \in Conn /\ Kept(c, refused) /\ refused.peer = "Refused" /\ refused.out = o
        /\ refused.sync = c.sync /\ refused.sentAny = c.sentAny
    BY <2>1, <2>2 DEF Conn, Kept, PeerState
  <2>4. Decided(c)
    <3>1. c.policy # Undecided /\ (c.policy = NoConfig \/ Decided(c))
      BY <1>5, DecidedOrNot DEF Calm
    <3> QED BY <1>5, <3>1 DEF Placed
  <2>5. Fits(refused)
    BY <1>1, <1>5, <2>3, <2>4, EmptiedCalm
  <2> QED BY <1>5, <2>1, <2>3, <2>5, JoinedQueues
<1>6. \/ g = c
      \/ g = resumed /\ CanRead(c.policy)
           /\ (p = "Ready" \/ (p = "Requesting" /\ (c.peer = "Syncing"
                                 \/ (~CanWrite(c.policy) /\ c.sync.known))))
      \/ c.peer = "BlockedByPolicy" /\ CanWrite(c.policy) /\ CanSend(c) /\ p = "Requesting"
      \/ p = "Requesting" /\ g = asked /\ c.peer = "AwaitingSend"
      \/ p = "Requesting" /\ g = refused /\ c.peer = "RequestedFromUs"
  BY DEF Generated, GenerateRequesting, CanSend
<1>7. ~ (c.peer = "BlockedByPolicy" /\ CanWrite(c.policy) /\ CanSend(c) /\ p = "Requesting")
  BY DEF Calm, Pledged, CanSend
<1>8. g = resumed /\ p = "Requesting" /\ CanRead(c.policy)
        /\ (c.peer = "Syncing" \/ (~CanWrite(c.policy) /\ c.sync.known))
      => q /\ c.peer # "AwaitingSend"
  BY DEF Calm, CanRequest
<1> HIDE DEF g, resumed, asked, refused, Fits, Sends
<1>9. Sends(g) /\ Fits(g)
  BY <1>2, <1>3, <1>4, <1>5, <1>6, <1>7, <1>8
<1> QED BY <1>9 DEF Sends, Fits, g
----------------------------------------------------------------------------
(* The step that ends a handler.                                           *)

(* The actor of n as a handler leaves it, and its connections.             *)
Seemly(n, a) ==
    /\ a \in Actor(n)
    /\ \A k \in Neighbours(n) :
          LET c == a.conns[k] IN
          /\ c.pending # <<>> => c.policy = Undecided
          /\ c.parked # <<>> => a.phase = "Loading"
          /\ Placed(c, a.phase)

Linked(n, a, ends) ==
    \A k \in Neighbours(n) :
        a.conns[k].policy # NoConfig <=> a.phase # "None" /\ <<n, k>> \in ends

(* ... before any decision changes; "has" are the nodes that have the      *)
(* document.                                                               *)
Composed(n, a, has) ==
    /\ a.phase = "Ready" => a.doc # {}
    /\ \A k \in Neighbours(n) :
          Calm(a.conns[k], a.phase, k \in has) /\ Pledged(a.conns[k], a.phase)

Holders == {n \in Node : actor[n].phase = "Ready"}

(* The search is over: nothing is kept of what the peers said.             *)
Forgotten(c) == [c EXCEPT !.peer = "None", !.heads = {}]

LEMMA ForgottenConn ==
    ASSUME NEW c \in Conn
    PROVE  LET d == Forgotten(c) IN
           /\ d \in Conn /\ Placed(d, "Ready")
           /\ d.policy = c.policy /\ d.pending = c.pending /\ d.parked = c.parked
           /\ \A q \in BOOLEAN : Calm(c, "Requesting", q) => Calm(d, "Ready", q)
           /\ Pledged(c, "Requesting") => Pledged(d, "Ready")
<1> DEFINE d == Forgotten(c)
<1>1. /\ d \in Conn /\ d.peer = "None" /\ d.policy = c.policy /\ d.pending = c.pending
      /\ d.parked = c.parked /\ d.out = c.out /\ d.sync = c.sync /\ d.sentAny = c.sentAny
      /\ d.receivedAny = c.receivedAny /\ d.hasRequested = c.hasRequested
  BY DEF Forgotten, Conn, PeerState
<1> HIDE DEF d
<1>2. Placed(d, "Ready")
  BY <1>1 DEF Placed
<1>3. \A q \in BOOLEAN : Calm(c, "Requesting", q) => Calm(d, "Ready", q)
  BY <1>1 DEF Calm, Decided, Untouched, Fitting
<1>4. Pledged(c, "Requesting") => Pledged(d, "Ready")
  BY <1>1 DEF Pledged
<1> QED BY <1>1, <1>2, <1>3, <1>4 DEF d

LEMMA BecomesReadyIs ==
    ASSUME NEW n \in Node, NEW a \in Actor(n)
    PROVE  LET b == BecomesReady(a, n) IN
           /\ b \in Actor(n) /\ b.phase = "Ready" /\ b.doc = a.doc
           /\ \A k \in Neighbours(n) : b.conns[k] = Forgotten(a.conns[k])
<1> DEFINE b == BecomesReady(a, n)
           cs == [k \in Neighbours(n) |-> Forgotten(a.conns[k])]
<1>1. cs = [k \in Neighbours(n) |-> [a.conns[k] EXCEPT !.peer = "None", !.heads = {}]]
  BY DEF Forgotten
<1>2. b = [a EXCEPT !.phase = "Ready", !.conns = cs]
  BY <1>1 DEF BecomesReady, Actor
<1>3. cs \in [Neighbours(n) -> Conn] /\ \A k \in Neighbours(n) : cs[k] = Forgotten(a.conns[k])
  BY ForgottenConn DEF Actor
<1> HIDE DEF cs, b
<1>4. b \in Actor(n) /\ b.phase = "Ready" /\ b.doc = a.doc /\ b.conns = cs
  BY <1>2, <1>3 DEF Actor
<1> QED BY <1>3, <1>4 DEF b

(* A search ends only at a peer that has sent heads which are here.        *)
LEMMA SettledIs ==
    ASSUME NEW n \in Node, NEW a, Seemly(n, a)
    PROVE  LET b == Settled(a, n) IN
           /\ Seemly(n, b) /\ (b.phase = "None" <=> a.phase = "None") /\ b.doc = a.doc
           /\ a.phase = "Ready" => b.phase = "Ready"
           /\ \A k \in Neighbours(n) : b.conns[k].policy = a.conns[k].policy
           /\ \A has : Composed(n, a, has) => Composed(n, b, has)
<1> DEFINE b == Settled(a, n)
<1>1. CASE ~ (a.phase = "Requesting" /\ Found(a, n))
  BY <1>1 DEF Settled
<1>2. CASE a.phase = "Requesting" /\ Found(a, n)
  <2>1. b = BecomesReady(a, n)
    BY <1>2 DEF Settled
  <2>2. /\ b \in Actor(n) /\ b.phase = "Ready" /\ b.doc = a.doc
        /\ \A k \in Neighbours(n) : b.conns[k] = Forgotten(a.conns[k])
    BY <2>1, BecomesReadyIs DEF Seemly
  <2>3. \A k \in Neighbours(n) :
           LET c == a.conns[k] IN
           /\ c \in Conn /\ (c.pending # <<>> => c.policy = Undecided) /\ c.parked = <<>>
    BY <1>2 DEF Seemly, Actor
  <2> HIDE DEF b
  <2>4. Seemly(n, b)
    BY <2>2, <2>3, ForgottenConn DEF Seemly
  <2>5. ASSUME NEW has, Composed(n, a, has) PROVE Composed(n, b, has)
    <3>1. PICK k \in Neighbours(n) :
            a.conns[k].peer = "Syncing" /\ a.conns[k].heads \subseteq a.doc
      BY <1>2 DEF Found
    <3>2. a.conns[k].heads # {}
      BY <1>2, <2>5, <3>1 DEF Composed, Calm
    <3>3. ASSUME NEW j \in Neighbours(n)
          PROVE  Calm(b.conns[j], "Ready", j \in has) /\ Pledged(b.conns[j], "Ready")
      <4>1. Calm(a.conns[j], "Requesting", j \in has) /\ Pledged(a.conns[j], "Requesting")
        BY <1>2, <2>5 DEF Composed
      <4>2. (j \in has) \in BOOLEAN
        OBVIOUS
      <4> QED BY <2>2, <2>3, <4>1, <4>2, ForgottenConn
    <3> QED BY <2>2, <3>1, <3>2, <3>3 DEF Composed
  <2>6. \A k \in Neighbours(n) : b.conns[k].policy = a.conns[k].policy
    BY <2>2, <2>3, ForgottenConn
  <2> QED BY <1>2, <2>2, <2>4, <2>5, <2>6 DEF b
<1> QED BY <1>1, <1>2

(* What the step leaves on a connection, and what it has sent there.       *)
Emptied(c) == [c EXCEPT !.out = <<>>]

LEMMA EmptiedType ==
    ASSUME NEW c \in Conn, NEW p
    PROVE  /\ Emptied(c) \in Conn /\ Emptied(c).out = <<>> /\ Kept(c, Emptied(c))
           /\ c.out \in Seq(Msg) /\ (Placed(c, p) => Placed(Emptied(c), p))
<1>1. c.out \in Seq(Msg) /\ <<>> \in Seq(Msg)
  BY DEF Conn
<1>2. Emptied(c) \in Conn
  BY <1>1, QueueType DEF Emptied
<1>3. /\ Emptied(c).out = <<>> /\ Kept(c, Emptied(c)) /\ Emptied(c).peer = c.peer
      /\ Emptied(c).policy = c.policy
  BY DEF Emptied, Conn, Kept
<1> QED BY <1>1, <1>2, <1>3 DEF Placed

LEMMA Sending ==
    ASSUME NEW n \in Node, NEW a, Seemly(n, a), NEW k \in Neighbours(n)
    PROVE  LET g == Generated(a.conns[k], a.phase, a.doc, AnySyncing(a, n))
               d == Emptied(g)
           IN  /\ g \in Conn /\ d \in Conn /\ d.out = <<>> /\ d.policy = a.conns[k].policy
               /\ d.pending # <<>> => d.policy = Undecided
               /\ d.parked # <<>> => a.phase = "Loading"
               /\ Placed(d, a.phase)
               /\ \A has : Composed(n, a, has) =>
                     /\ Calm(d, a.phase, k \in has) /\ Pledged(d, a.phase)
                     /\ k \notin has => Filled(g.out) /\ (a.phase # "Ready" => NoSync(g.out))
<1> DEFINE c == a.conns[k]
           syncing == AnySyncing(a, n)
           g == Generated(c, a.phase, a.doc, syncing)
           d == Emptied(g)
<1>1. /\ c \in Conn /\ a.doc \in SUBSET Change /\ Placed(c, a.phase)
      /\ (c.pending # <<>> => c.policy = Undecided) /\ (c.parked # <<>> => a.phase = "Loading")
  BY DEF Seemly, Actor
<1> HIDE DEF c, syncing
<1>2. g \in Conn /\ Kept(c, g) /\ Placed(g, a.phase)
  BY <1>1, GeneratedType
<1>3. ASSUME NEW has, Composed(n, a, has)
      PROVE  /\ Calm(d, a.phase, k \in has) /\ Pledged(d, a.phase)
             /\ k \notin has => Filled(g.out) /\ (a.phase # "Ready" => NoSync(g.out))
  <2>1. /\ Calm(c, a.phase, k \in has) /\ Pledged(c, a.phase)
        /\ a.phase = "Ready" => a.doc # {}
    BY <1>3 DEF Composed, c
  <2>2. (k \in has) \in BOOLEAN
    OBVIOUS
  <2> QED BY <1>1, <2>1, <2>2, GeneratedCalm DEF Emptied
<1> HIDE DEF g
<1>4. /\ d \in Conn /\ d.out = <<>> /\ Kept(g, d) /\ Placed(d, a.phase)
  BY <1>2, EmptiedType
<1> HIDE DEF d
<1>5. d.policy = c.policy /\ d.pending = c.pending /\ d.parked = c.parked
  BY <1>2, <1>4 DEF Kept
<1> QED BY <1>1, <1>2, <1>3, <1>4, <1>5 DEF c, d, g, syncing

(* The actor, and the wires, after the step of actor a of node n.          *)
Actors == UNION {Actor(j) : j \in Node}

Sent(n, a, k) ==
    LET b == Settled(a, n) IN Generated(b.conns[k], b.phase, b.doc, AnySyncing(b, n)).out

Wired(n, a, taken) ==
    \A e \in End : wire'[e] = IF e[1] = n /\ {e[1], e[2]} \notin broken
                               THEN wire[e] \o Sent(n, a, e[2]) ELSE Rest(e, taken)

LEMMA StepIs ==
    ASSUME NEW n \in Node, NEW a, Seemly(n, a), NEW taken, actor[n] \in Actor(n),
           actor \in [Node -> Actors], StepAfter(n, a, taken)
    PROVE  /\ Seemly(n, actor'[n]) /\ actor'[n].doc = a.doc
           /\ actor'[n].phase = "None" <=> a.phase = "None"
           /\ a.phase = "Ready" => actor'[n].phase = "Ready"
           /\ \A k \in Neighbours(n) :
                 actor'[n].conns[k].out = <<>> /\ actor'[n].conns[k].policy = a.conns[k].policy
           /\ \A j \in Node : j # n => actor'[j] = actor[j]
           /\ actor' \in [Node -> Actors]
           /\ wire' = [e \in End |-> wire'[e]]
           /\ Wired(n, a, taken)
           /\ \A k \in Neighbours(n) : Sent(n, a, k) \in Seq(Msg)
           /\ \A has : Composed(n, a, has) =>
                 /\ Composed(n, actor'[n], has)
                 /\ \A k \in Neighbours(n) : k \notin has =>
                       /\ Filled(Sent(n, a, k))
                       /\ actor'[n].phase # "Ready" => NoSync(Sent(n, a, k))
<1> DEFINE b == Settled(a, n)
           Gen(k) == Generated(b.conns[k], b.phase, b.doc, AnySyncing(b, n))
           g == GenerateAll(b, n)
           cs == [k \in Neighbours(n) |-> Emptied(Gen(k))]
           f == [b EXCEPT !.conns = cs]
<1>1. /\ Seemly(n, b) /\ (b.phase = "None" <=> a.phase = "None") /\ b.doc = a.doc
      /\ a.phase = "Ready" => b.phase = "Ready"
      /\ \A k \in Neighbours(n) : b.conns[k].policy = a.conns[k].policy
      /\ \A has : Composed(n, a, has) => Composed(n, b, has)
  BY SettledIs
<1> HIDE DEF b
<1>2. b \in Actor(n) /\ g = [b EXCEPT !.conns = [k \in Neighbours(n) |-> Gen(k)]]
  BY <1>1, GenerateAllIs DEF Seemly
<1>3. \A k \in Neighbours(n) : g.conns[k] = Gen(k)
  BY <1>2 DEF Actor
<1>4. [g EXCEPT !.conns = [k \in Neighbours(n) |-> [@[k] EXCEPT !.out = <<>>]]] = f
  <2> HIDE DEF Gen
  <2>1. [g EXCEPT !.conns = [k \in Neighbours(n) |-> [@[k] EXCEPT !.out = <<>>]]]
          = [g EXCEPT !.conns = cs]
    BY <1>2, <1>3 DEF Emptied, Actor
  <2> QED BY <1>2, <2>1 DEF Actor
<1>5. /\ actor' = [actor EXCEPT ![n] = f]
      /\ wire' = [e \in End |-> IF e[1] = n /\ {e[1], e[2]} \notin broken
                                THEN wire[e] \o g.conns[e[2]].out ELSE Rest(e, taken)]
  <2> DEFINE h == [g EXCEPT !.conns = [k \in Neighbours(n) |-> [@[k] EXCEPT !.out = <<>>]]]
  <2>1. g = GenerateAll(Settled(a, n), n)
    BY DEF b
  <2>2. /\ actor' = [actor EXCEPT ![n] = h]
        /\ wire' = [e \in End |-> IF e[1] = n /\ {e[1], e[2]} \notin broken
                                  THEN wire[e] \o g.conns[e[2]].out ELSE Rest(e, taken)]
    <3> HIDE DEF g
    <3> QED BY <2>1 DEF StepAfter
  <2> HIDE DEF f, g
  <2> QED BY <1>4, <2>2
<1>6. \A k \in Neighbours(n) : g.conns[k].out = Sent(n, a, k) /\ Gen(k).out = Sent(n, a, k)
  BY <1>3 DEF Sent, b
<1>7. \A e \in End : e[1] = n => e[2] \in Neighbours(n)
  BY DEF End, Neighbours
<1>8. /\ wire' = [e \in End |-> wire'[e]]
      /\ Wired(n, a, taken)
  BY <1>5, <1>6, <1>7 DEF Wired
<1>9. ASSUME NEW k \in Neighbours(n)
      PROVE  LET d == Emptied(Gen(k)) IN
             /\ Gen(k) \in Conn /\ d \in Conn /\ d.out = <<>> /\ d.policy = a.conns[k].policy
             /\ d.pending # <<>> => d.policy = Undecided
             /\ d.parked # <<>> => b.phase = "Loading"
             /\ Placed(d, b.phase)
             /\ \A has : Composed(n, a, has) =>
                   /\ Calm(d, b.phase, k \in has) /\ Pledged(d, b.phase)
                   /\ k \notin has => Filled(Gen(k).out) /\ (b.phase # "Ready" => NoSync(Gen(k).out))
  BY <1>1, Sending
<1> HIDE DEF Gen, g
<1>10. /\ f \in Actor(n) /\ f.phase = b.phase /\ f.doc = b.doc
       /\ \A k \in Neighbours(n) : f.conns[k] = Emptied(Gen(k))
  BY <1>2, <1>9 DEF Actor
<1> HIDE DEF f, cs
<1>11. /\ actor' \in [Node -> Actors]
       /\ actor'[n] = f /\ \A j \in Node : j # n => actor'[j] = actor[j]
  <2>1. f \in Actors
    BY <1>10 DEF Actors
  <2> QED BY <1>5, <2>1
<1>12. Seemly(n, f)
  BY <1>9, <1>10 DEF Seemly
<1>13. \A k \in Neighbours(n) : Sent(n, a, k) \in Seq(Msg)
  BY <1>6, <1>9, EmptiedType
<1>14. ASSUME NEW has, Composed(n, a, has)
       PROVE  /\ Composed(n, f, has)
              /\ \A k \in Neighbours(n) : k \notin has =>
                    Filled(Sent(n, a, k)) /\ (f.phase # "Ready" => NoSync(Sent(n, a, k)))
  <2>1. f.phase = "Ready" => f.doc # {}
    BY <1>1, <1>10, <1>14 DEF Composed
  <2> QED BY <1>6, <1>9, <1>10, <1>14, <2>1 DEF Composed
<1> QED BY <1>1, <1>8, <1>9, <1>10, <1>11, <1>12, <1>13, <1>14
----------------------------------------------------------------------------
(* The handlers.                                                           *)

LEMMA CalmWeaker ==
    ASSUME NEW c \in Conn, NEW p, Calm(c, p, FALSE)
    PROVE  Calm(c, p, TRUE)
BY DEF Calm, Fitting

(* One connection of an actor changes, its phase does not.                 *)
LEMMA OneChanges ==
    ASSUME NEW n \in Node, NEW a, Seemly(n, a), NEW k \in Neighbours(n), NEW d \in Conn,
           NEW e \in SUBSET Change, a.doc \subseteq e,
           d.pending # <<>> => d.policy = Undecided,
           d.parked # <<>> => a.phase = "Loading", Placed(d, a.phase)
    PROVE  LET b == With(a, k, d, e) IN
           /\ Seemly(n, b) /\ b.phase = a.phase /\ b.doc = e
           /\ b.conns[k] = d /\ \A j \in Neighbours(n) : j # k => b.conns[j] = a.conns[j]
           /\ \A has : Composed(n, a, has) /\ Calm(d, a.phase, k \in has) /\ Pledged(d, a.phase)
                          => Composed(n, b, has)
<1> DEFINE b == With(a, k, d, e)
<1>1. /\ b \in Actor(n) /\ b.phase = a.phase /\ b.doc = e /\ b.conns[k] = d
      /\ \A j \in Neighbours(n) : j # k => b.conns[j] = a.conns[j]
  BY WithType DEF Seemly
<1> HIDE DEF b
<1>2. Seemly(n, b)
  BY <1>1 DEF Seemly
<1>3. ASSUME NEW has, Composed(n, a, has), Calm(d, a.phase, k \in has), Pledged(d, a.phase)
      PROVE  Composed(n, b, has)
  <2>1. b.phase = "Ready" => b.doc # {}
    BY <1>1, <1>3 DEF Composed
  <2>2. \A j \in Neighbours(n) : Calm(b.conns[j], b.phase, j \in has) /\ Pledged(b.conns[j], b.phase)
    BY <1>1, <1>3 DEF Composed
  <2> QED BY <2>1, <2>2 DEF Composed
<1> QED BY <1>1, <1>2, <1>3 DEF b

(* A message of a neighbour.                                               *)
LEMMA MessageSeemly ==
    ASSUME NEW n \in Node, NEW a, Seemly(n, a), NEW k \in Neighbours(n), NEW m \in Msg
    PROVE  LET b == HandleSyncMessage(a, k, m) IN
           /\ Seemly(n, b) /\ b.phase = a.phase
           /\ \A j \in Neighbours(n) : b.conns[j].policy = a.conns[j].policy
           /\ \A has : Composed(n, a, has) /\ Fitting(a.phase, k \in has, <<m>>)
                          => Composed(n, b, has)
<1> DEFINE c == a.conns[k]
<1>1. /\ a \in Actor(n) /\ c \in Conn /\ Placed(c, a.phase)
      /\ (c.pending # <<>> => c.policy = Undecided) /\ (c.parked # <<>> => a.phase = "Loading")
  BY DEF Seemly, Actor
<1>2. PICK d \in Conn, e \in SUBSET Change :
        /\ HandleSyncMessage(a, k, m) = With(a, k, d, e) /\ a.doc \subseteq e
        /\ Reaction(c, a.phase, m, d)
  BY <1>1, MessageHandled DEF Placed
<1> HIDE DEF c
<1>3. d.policy = c.policy /\ Placed(d, a.phase)
  BY <1>1, <1>2 DEF Reaction, Placed
<1>4. d.pending # <<>> => d.policy = Undecided
  BY <1>1, <1>2 DEF Reaction
<1>5. d.parked # <<>> => a.phase = "Loading"
  BY <1>1, <1>2 DEF Reaction
<1> DEFINE b == With(a, k, d, e)
<1>6. /\ Seemly(n, b) /\ b.phase = a.phase
      /\ b.conns[k] = d /\ \A j \in Neighbours(n) : j # k => b.conns[j] = a.conns[j]
      /\ \A has : Composed(n, a, has) /\ Calm(d, a.phase, k \in has) /\ Pledged(d, a.phase)
                     => Composed(n, b, has)
  BY <1>2, <1>3, <1>4, <1>5, OneChanges
<1> HIDE DEF b
<1>7. ASSUME NEW has, Composed(n, a, has), Fitting(a.phase, k \in has, <<m>>)
      PROVE  Composed(n, b, has)
  <2>1. Calm(c, a.phase, k \in has) /\ Pledged(c, a.phase)
    BY <1>7 DEF Composed, c
  <2>2. (k \in has) \in BOOLEAN
    OBVIOUS
  <2>3. Calm(d, a.phase, k \in has)
    <3>1. \A q \in BOOLEAN : Calm(c, a.phase, q) /\ Fitting(a.phase, q, <<m>>)
                               => Calm(d, a.phase, q)
      BY <1>1, <1>2, ReactionCalm
    <3> QED BY <1>7, <2>1, <2>2, <3>1
  <2>4. Pledged(d, a.phase)
    BY <1>1, <1>2, <2>1, ReactionPledged
  <2> QED BY <1>6, <1>7, <2>3, <2>4
<1> QED BY <1>2, <1>3, <1>6, <1>7 DEF b, c

(* The decision of a connection: what waited for it is handled.            *)
Share(c, p, g) ==
    LET set == TakePending(SetShareConfig(c, g))
    IN  IF p = "Requesting" THEN SharePolicyChanged(set, c.policy, g) ELSE set

LEMMA SetType ==
    ASSUME NEW c \in Conn, NEW g \in Config
    PROVE  LET d == TakePending(SetShareConfig(c, g)) IN
           /\ d \in Conn /\ d.policy = g /\ d.pending = <<>> /\ d.parked = c.parked
           /\ d.peer = c.peer /\ d.heads = c.heads /\ d.out = c.out
           /\ d.hasRequested = c.hasRequested
           /\ d.sentAny = c.sentAny /\ d.receivedAny = c.receivedAny
           /\ ~c.sentAny /\ ~c.receivedAny => d.sync = Fresh
<1> DEFINE r == [Fresh EXCEPT !.reset = TRUE]
           set == [c EXCEPT !.policy = g]
           f == SetShareConfig(c, g)
<1>1. r \in Session /\ Fresh \in Session /\ <<>> \in Seq(Msg)
  <2>1. r \in Session
    BY DEF Fresh, Session
  <2> QED BY <2>1, ConstantTypes
<1>2. /\ set \in Conn /\ set.policy = g /\ set.pending = c.pending /\ set.parked = c.parked
      /\ set.peer = c.peer /\ set.heads = c.heads /\ set.out = c.out
      /\ set.hasRequested = c.hasRequested
      /\ set.sentAny = c.sentAny /\ set.receivedAny = c.receivedAny
  BY DEF Conn
<1>3. f = set \/ f = [set EXCEPT !.sync = Fresh] \/ f = [set EXCEPT !.sync = r]
  BY DEF SetShareConfig, StartOver
<1>4. ~c.sentAny /\ ~c.receivedAny => f = [set EXCEPT !.sync = Fresh]
  BY DEF SetShareConfig
<1> HIDE DEF f, set, r
<1>5. /\ f \in Conn /\ f.policy = g /\ f.parked = c.parked
      /\ f.peer = c.peer /\ f.heads = c.heads /\ f.out = c.out
      /\ f.hasRequested = c.hasRequested
      /\ f.sentAny = c.sentAny /\ f.receivedAny = c.receivedAny
      /\ ~c.sentAny /\ ~c.receivedAny => f.sync = Fresh
  BY <1>1, <1>2, <1>3, <1>4 DEF Conn
<1>6. TakePending(f) = [f EXCEPT !.pending = <<>>]
  BY DEF TakePending
<1>7. TakePending(f) \in Conn
  BY <1>1, <1>5, <1>6, QueueType
<1>8. /\ TakePending(f).policy = f.policy /\ TakePending(f).pending = <<>>
      /\ TakePending(f).parked = f.parked /\ TakePending(f).peer = f.peer
      /\ TakePending(f).heads = f.heads /\ TakePending(f).out = f.out
      /\ TakePending(f).hasRequested = f.hasRequested /\ TakePending(f).sentAny = f.sentAny
      /\ TakePending(f).receivedAny = f.receivedAny /\ TakePending(f).sync = f.sync
  BY <1>5, <1>6 DEF Conn
<1> QED BY <1>5, <1>7, <1>8 DEF f

LEMMA ShareType ==
    ASSUME NEW c \in Conn, NEW p, NEW g \in Config, Placed(c, p), c.policy # NoConfig
    PROVE  LET d == Share(c, p, g) IN
           /\ d \in Conn /\ d.policy = g /\ d.pending = <<>> /\ d.parked = c.parked
           /\ d.out = c.out /\ d.hasRequested = c.hasRequested
           /\ Placed(d, p)
           /\ c.policy = Undecided /\ c.out = <<>> =>
                \A q \in BOOLEAN : Calm(c, p, q) => Calm(d, p, q)
           /\ c.policy = Undecided /\ Pledged(c, p) /\ c.pending = <<>> => Pledged(d, p)
<1> DEFINE set == TakePending(SetShareConfig(c, g))
           d == Share(c, p, g)
<1>1. /\ set \in Conn /\ set.policy = g /\ set.pending = <<>> /\ set.parked = c.parked
      /\ set.peer = c.peer /\ set.heads = c.heads /\ set.out = c.out
      /\ set.hasRequested = c.hasRequested
      /\ set.sentAny = c.sentAny /\ set.receivedAny = c.receivedAny
      /\ ~c.sentAny /\ ~c.receivedAny => set.sync = Fresh
  BY SetType
<1>2. d = IF p = "Requesting" THEN SharePolicyChanged(set, c.policy, g) ELSE set
  BY DEF Share
<1>3. FirstState(g) \in {"AwaitingSharePolicy", "AwaitingSend", "BlockedByPolicy"}
  BY DEF FirstState
<1> HIDE DEF set, d
<1>4. PICK s \in PeerState, hs \in SUBSET Change :
        /\ SharePolicyChanged(set, c.policy, g) = [set EXCEPT !.peer = s, !.heads = hs]
        /\ s = "None" => c.peer = "None"
        /\ c.peer = "AwaitingSharePolicy" => s = FirstState(g)
  <2> DEFINE restart == \/ set.peer = "AwaitingSharePolicy"
                        \/ /\ c.policy # g
                           /\ ~CanWrite(g) \/ (c.policy # Undecided /\ ~CanWrite(c.policy))
             asks == /\ c.policy # g /\ CanRequest(g)
                     /\ set.peer \in {"BlockedByPolicy", "Unavailable", "RequestedFromUs", "Refused"}
             stops == c.policy # g /\ ~CanRequest(g) /\ set.peer = "AwaitingSend"
             s == IF restart THEN FirstState(g) ELSE IF asks THEN "AwaitingSend"
                  ELSE IF stops THEN "BlockedByPolicy" ELSE set.peer
             hs == IF s = "Syncing" THEN set.heads ELSE {}
  <2>1. SharePolicyChanged(set, c.policy, g) = [set EXCEPT !.peer = s, !.heads = hs]
    BY DEF SharePolicyChanged
  <2>2. s \in PeerState /\ (s = "None" => set.peer = "None")
    BY <1>1, <1>3 DEF PeerState, Asking, Conn
  <2>3. set.peer = "AwaitingSharePolicy" => s = FirstState(g)
    OBVIOUS
  <2>4. hs \in SUBSET Change
    BY <1>1 DEF Conn
  <2> HIDE DEF s, hs
  <2> QED BY <1>1, <2>1, <2>2, <2>3, <2>4
<1>5. /\ d \in Conn /\ d.policy = g /\ d.pending = <<>> /\ d.parked = c.parked
      /\ d.out = c.out /\ d.hasRequested = c.hasRequested
      /\ d.sentAny = set.sentAny /\ d.receivedAny = set.receivedAny /\ d.sync = set.sync
      /\ p = "Requesting" => d.peer = s
      /\ p # "Requesting" => d.peer = c.peer
  BY <1>1, <1>2, <1>4 DEF Conn
<1>6. Placed(d, p)
  BY <1>4, <1>5, GrantsApart DEF Placed
<1>7. g # Undecided /\ g # NoConfig /\ Decided(d) /\ (Decided(c) <=> c.policy # Undecided)
  BY <1>5, GrantsApart, DecidedOrNot
<1>8. ASSUME c.policy = Undecided, c.out = <<>>, NEW q \in BOOLEAN, Calm(c, p, q)
      PROVE  Calm(d, p, q)
  <2>1. Untouched(c) /\ NoSync(d.out)
    BY <1>5, <1>7, <1>8 DEF Calm
  <2>2. ~d.sync.reset /\ ~d.sync.known /\ Untouched(d)
    BY <1>1, <1>5, <2>1 DEF Untouched, Fresh
  <2>3. Fitting(p, q, d.pending) /\ Fitting(p, q, d.parked)
    BY <1>5, <1>8 DEF Calm, Fitting, Filled, NoSync
  <2>4. p = "Requesting" => d.peer = FirstState(g)
    BY <1>4, <1>5, <1>8 DEF Calm
  <2>5. p # "Requesting" => d.peer = "None"
    BY <1>6 DEF Placed
  <2>6. p = "Requesting" =>
          /\ d.peer = "AwaitingSend" => CanRequest(d.policy) /\ ~d.sentAny /\ ~d.receivedAny
          /\ d.peer = "BlockedByPolicy" /\ CanWrite(d.policy) => ~d.policy.announce /\ ~d.sync.known
          /\ d.peer # "Syncing"
    BY <1>5, <1>7, <2>2, <2>4 DEF FirstState, CanRequest, Untouched
  <2> QED BY <1>5, <1>7, <1>8, <2>1, <2>2, <2>3, <2>5, <2>6 DEF Calm
<1>9. ASSUME c.policy = Undecided, Pledged(c, p), c.pending = <<>> PROVE Pledged(d, p)
  BY <1>5, <1>9 DEF Pledged
<1> QED BY <1>5, <1>6, <1>8, <1>9 DEF d

LEMMA PolicySeemly ==
    ASSUME NEW n \in Node, NEW a, Seemly(n, a), NEW k \in Neighbours(n), NEW g \in Config
    PROVE  LET b == ApplySharePolicy(a, k, g)
               c == a.conns[k]
           IN  /\ Seemly(n, b) /\ b.phase = a.phase
               /\ \A j \in Neighbours(n) :
                     b.conns[j].policy = NoConfig <=> a.conns[j].policy = NoConfig
               /\ c.policy = Undecided /\ c.out = <<>> =>
                     \A has : Composed(n, a, has) => Composed(n, b, has)
<1> DEFINE c == a.conns[k]
           p == a.phase
           told == Share(c, p, g)
           shared == With(a, k, told, a.doc)
           b == ApplySharePolicy(a, k, g)
<1>1. /\ a \in Actor(n) /\ c \in Conn /\ Placed(c, p) /\ a.doc \in SUBSET Change
      /\ (c.pending # <<>> => c.policy = Undecided) /\ (c.parked # <<>> => p = "Loading")
      /\ c.pending \in Seq(Msg)
  BY DEF Seemly, Actor, Conn
<1>2. CASE c.policy = NoConfig
  <2>1. b = a
    BY <1>2 DEF ApplySharePolicy
  <2> QED BY <1>2, <2>1, GrantsApart
<1>3. CASE c.policy # NoConfig
  <2>1. b = HandleAll([a EXCEPT !.conns[k] = told], k, c.pending)
    BY <1>3 DEF ApplySharePolicy, Share
  <2>2. [a EXCEPT !.conns[k] = told] = shared
    <3> HIDE DEF told
    <3> QED BY <1>1, WithSame
  <2> HIDE DEF c
  <2>3. /\ told \in Conn /\ told.policy = g /\ told.pending = <<>> /\ told.parked = c.parked
        /\ told.out = c.out /\ told.hasRequested = c.hasRequested /\ Placed(told, p)
        /\ c.policy = Undecided /\ c.out = <<>> =>
             \A q \in BOOLEAN : Calm(c, p, q) => Calm(told, p, q)
        /\ c.policy = Undecided /\ Pledged(c, p) /\ c.pending = <<>> => Pledged(told, p)
    BY <1>1, <1>3, ShareType
  <2> HIDE DEF told
  <2>4. shared \in Actor(n) /\ shared.phase = p /\ shared.doc = a.doc /\ shared.conns[k] = told
    BY <1>1, <2>3, WithType
  <2> HIDE DEF shared, p
  <2>5. PICK d \in Conn, e \in SUBSET Change :
          /\ HandleAll(shared, k, c.pending) = With(shared, k, d, e) /\ a.doc \subseteq e
          /\ Reactions(told, p, Len(c.pending), c.pending, d)
    BY <1>1, <2>3, <2>4, AllHandled
  <2>6. With(shared, k, d, e) = With(a, k, d, e)
    BY <1>1, <2>3, WithTwice DEF shared
  <2>7. g # Undecided /\ g # NoConfig
    BY GrantsApart
  <2>8. /\ d.policy = g /\ d.pending = <<>> /\ Placed(d, p)
        /\ d.parked # <<>> => p = "Loading"
    BY <1>1, <2>3, <2>5, <2>7 DEF Reactions
  <2> DEFINE f == With(a, k, d, e)
  <2>9. /\ Seemly(n, f) /\ f.phase = a.phase
        /\ f.conns[k] = d /\ \A j \in Neighbours(n) : j # k => f.conns[j] = a.conns[j]
        /\ \A has : Composed(n, a, has) /\ Calm(d, a.phase, k \in has) /\ Pledged(d, a.phase)
                       => Composed(n, f, has)
    BY <2>5, <2>8, OneChanges DEF p
  <2> HIDE DEF f
  <2>10. ASSUME c.policy = Undecided, c.out = <<>>, NEW has, Composed(n, a, has)
         PROVE  Composed(n, f, has)
    <3>1. Calm(c, p, k \in has) /\ Pledged(c, p) /\ (k \in has) \in BOOLEAN
      BY <2>10 DEF Composed, c, p
    <3>2. Calm(d, p, k \in has)
      <4>1. \A q \in BOOLEAN : Calm(c, p, q) => Calm(told, p, q)
        BY <2>3, <2>10
      <4>2. \A q \in BOOLEAN : Calm(told, p, q) /\ Fitting(p, q, c.pending) => Calm(d, p, q)
        BY <2>5 DEF Reactions
      <4>3. Fitting(p, k \in has, c.pending)
        BY <3>1 DEF Calm
      <4> QED BY <3>1, <4>1, <4>2, <4>3
    <3>3. Pledged(d, p)
      <4>1. CASE Len(c.pending) = 0
        <5>1. c.pending = <<>>
          BY <1>1, <4>1
        <5>2. d = told
          BY <2>5, <4>1 DEF Reactions
        <5> QED BY <2>3, <2>10, <3>1, <5>1, <5>2
      <4>2. CASE Len(c.pending) > 0
        BY <2>3, <2>5, <2>7, <4>2 DEF Reactions
      <4> QED BY <1>1, <4>1, <4>2
    <3> QED BY <2>9, <2>10, <3>2, <3>3 DEF p
  <2>11. b = f
    BY <2>1, <2>2, <2>5, <2>6 DEF f
  <2>12. \A j \in Neighbours(n) : f.conns[j].policy = NoConfig <=> a.conns[j].policy = NoConfig
    BY <1>3, <2>7, <2>8, <2>9 DEF c
  <2> QED BY <2>9, <2>10, <2>11, <2>12 DEF c
<1> QED BY <1>2, <1>3

(* The load is complete; d is a connection c of the actor that was loading, *)
(* when its parked messages were handled.                                  *)
Unparked(c, p, d) ==
    /\ d.policy = c.policy /\ d.parked = <<>> /\ Placed(d, p)
    /\ d.pending # <<>> => d.policy = Undecided
    /\ \A q \in BOOLEAN :
          Calm(c, "Loading", q) /\ Pledged(c, "Loading") /\ c.out = <<>>
              => Calm(d, p, q) /\ Pledged(d, p)

(* ... and before that.                                                    *)
FirstSeen(c) == [c EXCEPT !.peer = IF c.policy = NoConfig THEN "None" ELSE FirstState(c.policy)]
After(c, p) == IF p = "Ready" THEN c ELSE FirstSeen(c)

LEMMA AfterLoad ==
    ASSUME NEW c \in Conn, NEW p \in {"Ready", "Requesting"}, Placed(c, "Loading")
    PROVE  LET d == After(c, p) IN
           /\ d \in Conn /\ d.policy = c.policy /\ d.pending = c.pending /\ d.parked = c.parked
           /\ d.hasRequested = c.hasRequested /\ d.out = c.out
           /\ Placed(d, p)
           /\ \A q \in BOOLEAN : Calm(c, "Loading", q) /\ c.out = <<>> => Calm(d, p, q)
<1> DEFINE s == IF c.policy = NoConfig THEN "None" ELSE FirstState(c.policy)
           d == FirstSeen(c)
<1>1. s \in PeerState /\ (s = "None" <=> c.policy = NoConfig)
  BY DEF FirstState, PeerState, Asking
<1>2. d = [c EXCEPT !.peer = s]
  BY DEF FirstSeen
<1> HIDE DEF s
<1>3. /\ d \in Conn /\ d.policy = c.policy /\ d.pending = c.pending /\ d.parked = c.parked
      /\ d.out = c.out /\ d.sync = c.sync /\ d.sentAny = c.sentAny /\ d.peer = s
      /\ d.receivedAny = c.receivedAny /\ d.hasRequested = c.hasRequested
  BY <1>1, <1>2 DEF Conn
<1> HIDE DEF d
<1>4. CASE p = "Ready"
  <2>1. Placed(c, "Ready")
    BY DEF Placed
  <2>2. \A q \in BOOLEAN : Calm(c, "Loading", q) => Calm(c, "Ready", q)
    BY DEF Calm, Fitting
  <2>3. After(c, p) = c
    BY <1>4 DEF After
  <2> QED BY <1>4, <2>1, <2>2, <2>3
<1>5. CASE p = "Requesting"
  <2>1. Placed(d, "Requesting")
    BY <1>1, <1>3 DEF Placed
  <2>2. ASSUME NEW q \in BOOLEAN, Calm(c, "Loading", q), c.out = <<>>
        PROVE  Calm(d, "Requesting", q)
    <3>1. Untouched(c) /\ ~c.sync.known /\ ~c.sentAny /\ ~c.receivedAny
      BY <2>2 DEF Calm, Untouched
    <3>2. d.policy # NoConfig => d.peer = FirstState(d.policy)
      BY <1>3 DEF s
    <3>3. d.policy = NoConfig => d.peer = "None"
      BY <1>3 DEF s
    <3>4. NoConfig # Undecided
      BY GrantsApart
    <3>5. /\ d.policy = Undecided => d.peer = "AwaitingSharePolicy"
          /\ d.peer = "AwaitingSend" => CanRequest(d.policy) /\ ~d.sentAny /\ ~d.receivedAny
          /\ d.peer = "BlockedByPolicy" /\ CanWrite(d.policy) => ~d.policy.announce /\ ~d.sync.known
          /\ d.peer # "Syncing"
      BY <1>3, <3>1, <3>2, <3>3, <3>4 DEF FirstState, CanRequest
    <3>6. Fitting("Requesting", q, d.pending) /\ Fitting("Requesting", q, d.parked)
      BY <1>3, <2>2 DEF Calm, Fitting
    <3>7. Untouched(d) /\ ~d.sync.known
      BY <1>3, <3>1 DEF Untouched
    <3>8. ~d.sync.reset /\ NoSync(d.out) /\ d.out = <<>>
      BY <1>3, <2>2 DEF Calm
    <3> QED BY <3>5, <3>6, <3>7, <3>8 DEF Calm
  <2>3. After(c, p) = d
    BY <1>5 DEF After, d
  <2> QED BY <1>3, <1>5, <2>1, <2>2, <2>3
<1> QED BY <1>4, <1>5

LEMMA LoadedIs ==
    ASSUME NEW n \in Node, NEW a, Seemly(n, a), a.phase = "Loading", NEW doc \in SUBSET Change
    PROVE  LET b == Loaded(a, n, doc) IN
           /\ b \in Actor(n) /\ b.doc = doc
           /\ b.phase = IF doc # {} THEN "Ready" ELSE "Requesting"
           /\ \A k \in Neighbours(n) : b.conns[k] = After(a.conns[k], b.phase)
<1> DEFINE cs == [k \in Neighbours(n) |-> FirstSeen(a.conns[k])]
           b == Loaded(a, n, doc)
<1>1. a \in Actor(n)
  BY DEF Seemly
<1>2. CASE doc # {}
  <2>1. b = [a EXCEPT !.phase = "Ready", !.doc = doc]
    BY <1>2 DEF Loaded
  <2> QED BY <1>1, <1>2, <2>1 DEF Actor, After
<1>3. CASE doc = {}
  <2>1. cs = [k \in Neighbours(n) |->
               [a.conns[k] EXCEPT !.peer = IF a.conns[k].policy = NoConfig THEN "None"
                                           ELSE FirstState(a.conns[k].policy)]]
    BY DEF FirstSeen
  <2>2. b = [a EXCEPT !.phase = "Requesting", !.doc = doc, !.conns = cs]
    BY <1>1, <1>3, <2>1 DEF Loaded, Actor
  <2>3. \A k \in Neighbours(n) : FirstSeen(a.conns[k]) \in Conn
    <3>1. \A k \in Neighbours(n) : a.conns[k] \in Conn /\ Placed(a.conns[k], "Loading")
      BY DEF Seemly, Actor
    <3>2. \A k \in Neighbours(n) : After(a.conns[k], "Requesting") \in Conn
      BY <3>1, AfterLoad
    <3> QED BY <3>2 DEF After
  <2>4. cs \in [Neighbours(n) -> Conn]
    BY <2>3
  <2>5. \A k \in Neighbours(n) : cs[k] = After(a.conns[k], "Requesting")
    BY DEF After
  <2> HIDE DEF cs, b
  <2>6. b \in Actor(n) /\ b.doc = doc /\ b.phase = "Requesting" /\ b.conns = cs
    BY <1>1, <2>2, <2>4 DEF Actor
  <2> QED BY <1>3, <2>5, <2>6 DEF b
<1> QED BY <1>2, <1>3

(* The parked messages of one connection.                                  *)
LEMMA OneUnparked ==
    ASSUME NEW n \in Node, NEW b \in Actor(n), b.phase \in {"Ready", "Requesting"},
           NEW k \in Neighbours(n), NEW c \in Conn, Placed(c, "Loading"),
           c.pending # <<>> => c.policy = Undecided,
           b.conns[k] = After(c, b.phase)
    PROVE  \E d \in Conn, e \in SUBSET Change :
              Unpark(b, k) = With(b, k, d, e) /\ b.doc \subseteq e /\ Unparked(c, b.phase, d)
<1> DEFINE p == b.phase
           f == After(c, p)
           g == [f EXCEPT !.parked = <<>>]
           freed == With(b, k, g, b.doc)
<1>1. p \in {"Ready", "Requesting"} /\ b.conns[k] = f /\ b.doc \in SUBSET Change
  BY DEF Actor
<1> HIDE DEF p
<1>2. /\ f \in Conn /\ f.policy = c.policy /\ f.pending = c.pending /\ f.parked = c.parked
      /\ f.hasRequested = c.hasRequested /\ f.out = c.out /\ Placed(f, p)
      /\ \A q \in BOOLEAN : Calm(c, "Loading", q) /\ c.out = <<>> => Calm(f, p, q)
  BY <1>1, AfterLoad
<1> HIDE DEF f
<1>3. /\ g \in Conn /\ g.policy = f.policy /\ g.pending = f.pending /\ g.parked = <<>>
      /\ g.hasRequested = f.hasRequested /\ g.out = f.out /\ g.peer = f.peer /\ g.sync = f.sync
      /\ g.heads = f.heads /\ g.sentAny = f.sentAny /\ g.receivedAny = f.receivedAny
  <2>1. <<>> \in Seq(Msg)
    OBVIOUS
  <2> QED BY <1>2, <2>1 DEF Conn
<1>4. f.parked \in Seq(Msg)
  BY <1>2 DEF Conn
<1>5. [b EXCEPT !.conns[k].parked = <<>>] = freed
  BY <1>1 DEF With, Actor
<1> HIDE DEF g
<1>6. freed \in Actor(n) /\ freed.phase = p /\ freed.doc = b.doc /\ freed.conns[k] = g
  BY <1>1, <1>3, WithType DEF p
<1>7. Placed(g, p)
  BY <1>2, <1>3 DEF Placed
<1>8. Unpark(b, k) = HandleAll(freed, k, f.parked)
  BY <1>1, <1>5 DEF Unpark
<1> HIDE DEF freed
<1>9. PICK d \in Conn, e \in SUBSET Change :
        /\ HandleAll(freed, k, f.parked) = With(freed, k, d, e) /\ b.doc \subseteq e
        /\ Reactions(g, p, Len(f.parked), f.parked, d)
  BY <1>4, <1>6, <1>7, AllHandled
<1>10. With(freed, k, d, e) = With(b, k, d, e)
  BY <1>1, <1>3, WithTwice DEF freed
<1>11. d.policy = c.policy /\ d.parked = <<>> /\ Placed(d, p)
  BY <1>1, <1>2, <1>3, <1>9 DEF Reactions
<1>12. d.pending # <<>> => d.policy = Undecided
  <2>1. c.policy # Undecided => d.pending = c.pending
    BY <1>2, <1>3, <1>9 DEF Reactions
  <2> QED BY <1>11, <2>1
<1>13. ASSUME NEW q \in BOOLEAN, Calm(c, "Loading", q), Pledged(c, "Loading"), c.out = <<>>
       PROVE  Calm(d, p, q) /\ Pledged(d, p)
  <2>1. Calm(f, p, q)
    BY <1>2, <1>13
  <2>2. Fitting(p, q, g.parked)
    BY <1>3 DEF Fitting, Filled, NoSync
  <2>3. Calm(g, p, q)
    BY <1>3, <2>1, <2>2 DEF Calm, Decided, Untouched
  <2>4. Fitting(p, q, f.parked)
    BY <2>1 DEF Calm
  <2>5. Calm(d, p, q)
    BY <1>9, <2>3, <2>4 DEF Reactions
  <2>6. CASE Len(f.parked) > 0 /\ c.policy # NoConfig
    BY <1>2, <1>3, <1>9, <2>5, <2>6 DEF Reactions
  <2>7. CASE Len(f.parked) = 0 \/ c.policy = NoConfig
    <3>1. d = g
      BY <1>2, <1>3, <1>9, <2>7 DEF Reactions
    <3>2. f.parked = <<>> \/ c.policy = NoConfig
      BY <1>4, <2>7
    <3>3. c.hasRequested =>
             /\ c.policy # NoConfig
             /\ c.policy = Undecided => c.pending # <<>>
             /\ ~CanRead(c.policy)
      BY <1>2, <1>13, <3>2 DEF Pledged
    <3>4. Pledged(d, p)
      BY <1>1, <1>2, <1>3, <3>1, <3>3, DecidedOrNot DEF Pledged
    <3> QED BY <2>5, <3>4
  <2> QED BY <1>4, <2>6, <2>7
<1>14. Unparked(c, p, d)
  BY <1>11, <1>12, <1>13 DEF Unparked
<1> QED BY <1>8, <1>9, <1>10, <1>14 DEF p

(* The connections in turn: HandleLoad is well defined.                    *)
Unparking(h, j, b, order) ==
    h = [i \in 0 .. j |-> IF i = 0 THEN b ELSE Unpark(h[i - 1], order[i])]

LEMMA UnparkingExists ==
    ASSUME NEW b, NEW order, NEW l \in Nat
    PROVE  \E h : Unparking(h, l, b, order)
<1> DEFINE Bad == {j \in Nat : ~ \E h : Unparking(h, j, b, order)}
<1>1. Unparking([i \in 0 .. 0 |-> b], 0, b, order)
  BY DEF Unparking
<1>2. ASSUME NEW j \in Nat, NEW h, Unparking(h, j, b, order)
      PROVE  \E g : Unparking(g, j + 1, b, order)
  <2> DEFINE g == [i \in 0 .. j + 1 |-> IF i <= j THEN h[i] ELSE Unpark(h[j], order[j + 1])]
  <2>1. \A i \in 0 .. j : h[i] = IF i = 0 THEN b ELSE Unpark(h[i - 1], order[i])
    BY <1>2 DEF Unparking
  <2>2. ASSUME NEW i \in 0 .. j + 1
        PROVE  g[i] = IF i = 0 THEN b ELSE Unpark(g[i - 1], order[i])
    <3>1. CASE i <= j
      BY <2>1, <3>1
    <3>2. CASE i = j + 1
      BY <3>2
    <3> QED BY <3>1, <3>2
  <2>3. Unparking(g, j + 1, b, order)
    BY <2>2 DEF Unparking
  <2> QED BY <2>3, Zenon
<1>3. Bad = {}
  <2> SUFFICES ASSUME Bad # {} PROVE FALSE
    OBVIOUS
  <2>1. PICK j \in Bad : \A i \in Bad : j <= i
    BY Least
  <2>2. j # 0
    BY <1>1
  <2>3. j - 1 \in Nat /\ j - 1 \notin Bad /\ (j - 1) + 1 = j
    BY <2>1, <2>2
  <2>4. \E h : Unparking(h, j - 1, b, order)
    BY <2>3
  <2>5. \E g : Unparking(g, (j - 1) + 1, b, order)
    BY <1>2, <2>3, <2>4
  <2> QED BY <2>3, <2>5
<1> QED BY <1>3, Zenon

LEMMA LoadUnfolds ==
    ASSUME NEW a, NEW n, NEW doc, NEW order, Len(order) \in Nat
    PROVE  \E h : /\ HandleLoad(a, n, doc, order) = h[Len(order)] /\ h[0] = Loaded(a, n, doc)
                  /\ \A i \in 1 .. Len(order) : h[i] = Unpark(h[i - 1], order[i])
<1> DEFINE h == CHOOSE h : Unparking(h, Len(order), Loaded(a, n, doc), order)
<1>1. Unparking(h, Len(order), Loaded(a, n, doc), order)
  <2>1. \E g : Unparking(g, Len(order), Loaded(a, n, doc), order)
    BY UnparkingExists
  <2> QED BY <2>1, Zenon
<1>2. HandleLoad(a, n, doc, order) = h[Len(order)]
  BY DEF HandleLoad, Unparking
<1> HIDE DEF h
<1>3. /\ h[0] = Loaded(a, n, doc)
      /\ \A i \in 1 .. Len(order) : h[i] = Unpark(h[i - 1], order[i])
  BY <1>1 DEF Unparking
<1> QED BY <1>2, <1>3

(* Every neighbour is in the order, once.                                  *)
LEMMA Orders ==
    ASSUME NEW n \in Node, NEW order \in SetToSeqs(Neighbours(n))
    PROVE  /\ Len(order) \in Nat
           /\ \A i \in 1 .. Len(order) : order[i] \in Neighbours(n)
           /\ \A i, j \in 1 .. Len(order) : i # j => order[i] # order[j]
           /\ \A k \in Neighbours(n) : \E i \in 1 .. Len(order) : order[i] = k
<1> DEFINE S == Neighbours(n)
           l == Cardinality(S)
<1>1. IsFiniteSet(S)
  <2>1. S \in SUBSET Node
    BY DEF Neighbours
  <2> QED BY <2>1, RequestAssumption, FS_Subset
<1> HIDE DEF S
<1>2. l \in Nat
  BY <1>1, FS_CardinalityType
<1>3. order \in [1 .. l -> S] /\ \A i, j \in 1 .. l : i # j => order[i] # order[j]
  BY DEF SetToSeqs, S
<1>4. Len(order) = l
  BY <1>2, <1>3
<1>5. order \in Injection(1 .. l, S)
  BY <1>3 DEF Injection, IsInjective
<1>6. Cardinality(1 .. l) = l
  <2>1. 1 \in Int /\ l \in Int /\ Cardinality(1 .. l) = IF 1 > l THEN 0 ELSE l - 1 + 1
    BY <1>2, FS_Interval
  <2> QED BY <1>2, <2>1
<1>7. order \in Surjection(1 .. l, S)
  BY <1>1, <1>5, <1>6, FS_Injection
<1>8. \A k \in S : \E i \in 1 .. l : order[i] = k
  BY <1>7 DEF Surjection
<1> QED BY <1>2, <1>3, <1>4, <1>8 DEF S

LEMMA LoadSeemly ==
    ASSUME NEW n \in Node, NEW a, Seemly(n, a), a.phase = "Loading",
           NEW doc \in SUBSET Change, NEW order \in SetToSeqs(Neighbours(n))
    PROVE  LET b == HandleLoad(a, n, doc, order) IN
           /\ Seemly(n, b) /\ b.phase \in {"Ready", "Requesting"}
           /\ \A k \in Neighbours(n) : b.conns[k].policy = a.conns[k].policy
           /\ (\A k \in Neighbours(n) : a.conns[k].out = <<>>) =>
                 \A has : Composed(n, a, has) => Composed(n, b, has)
<1> DEFINE S == Neighbours(n)
           l == Len(order)
           first == Loaded(a, n, doc)
           p == IF doc # {} THEN "Ready" ELSE "Requesting"
<1>1. /\ l \in Nat /\ \A i \in 1 .. l : order[i] \in S
      /\ \A i, j \in 1 .. l : i # j => order[i] # order[j]
      /\ \A k \in S : \E i \in 1 .. l : order[i] = k
  BY Orders
<1>2. PICK h : /\ HandleLoad(a, n, doc, order) = h[l] /\ h[0] = first
               /\ \A i \in 1 .. l : h[i] = Unpark(h[i - 1], order[i])
  BY <1>1, LoadUnfolds
<1>3. /\ first \in Actor(n) /\ first.doc = doc /\ first.phase = p
      /\ \A k \in S : first.conns[k] = After(a.conns[k], p)
  BY LoadedIs
<1>4. \A k \in S : /\ a.conns[k] \in Conn /\ Placed(a.conns[k], "Loading")
                   /\ a.conns[k].pending # <<>> => a.conns[k].policy = Undecided
  BY DEF Seemly, Actor
<1>5. p \in {"Ready", "Requesting"} /\ (p = "Ready" => doc # {})
  OBVIOUS
<1> HIDE DEF first, p, l, S
<1> DEFINE Turned(i, k) == \E j \in 1 .. i : order[j] = k
           Reached(i) ==
             /\ h[i] \in Actor(n) /\ h[i].phase = p /\ doc \subseteq h[i].doc
             /\ \A k \in S : IF Turned(i, k) THEN Unparked(a.conns[k], p, h[i].conns[k])
                             ELSE h[i].conns[k] = After(a.conns[k], p)
           Bad == {i \in 0 .. l : ~Reached(i)}
<1>6. Reached(0)
  BY <1>2, <1>3
<1>7. ASSUME NEW i \in 1 .. l, Reached(i - 1) PROVE Reached(i)
  <2> DEFINE k == order[i]
             b == h[i - 1]
  <2>1. k \in S /\ ~Turned(i - 1, k)
    BY <1>1
  <2>2. b \in Actor(n) /\ b.phase = p /\ doc \subseteq b.doc /\ b.conns[k] = After(a.conns[k], p)
    BY <1>7, <2>1
  <2> HIDE DEF b
  <2>3. PICK d \in Conn, e \in SUBSET Change :
          Unpark(b, k) = With(b, k, d, e) /\ b.doc \subseteq e /\ Unparked(a.conns[k], p, d)
    BY <1>4, <1>5, <2>1, <2>2, OneUnparked DEF S
  <2>4. h[i] = With(b, k, d, e)
    BY <1>2, <2>3 DEF b
  <2>5. /\ h[i] \in Actor(n) /\ h[i].phase = p /\ h[i].doc = e /\ h[i].conns[k] = d
        /\ \A j \in S : j # k => h[i].conns[j] = b.conns[j]
    BY <2>1, <2>2, <2>3, <2>4, WithType DEF S
  <2>6. \A j \in S : Turned(i, j) <=> Turned(i - 1, j) \/ j = k
    <3>1. \A x \in 1 .. i : x \in 1 .. i - 1 \/ x = i
      OBVIOUS
    <3>2. \A x \in 1 .. i - 1 : x \in 1 .. i
      OBVIOUS
    <3> QED BY <3>1, <3>2
  <2> HIDE DEF Turned
  <2>7. \A j \in S : IF Turned(i, j) THEN Unparked(a.conns[j], p, h[i].conns[j])
                     ELSE h[i].conns[j] = After(a.conns[j], p)
    BY <1>7, <2>1, <2>3, <2>5, <2>6 DEF b
  <2> QED BY <2>2, <2>3, <2>5, <2>7
<1> HIDE DEF Reached
<1>8. Bad = {}
  <2> SUFFICES ASSUME Bad # {} PROVE FALSE
    OBVIOUS
  <2>1. PICK i \in Bad : \A j \in Bad : i <= j
    <3>1. Bad \in SUBSET Nat
      OBVIOUS
    <3> HIDE DEF Bad
    <3> QED BY <3>1, Least
  <2>2. i # 0
    BY <1>6
  <2>3. i \in 1 .. l /\ i - 1 \in 0 .. l /\ i - 1 \notin Bad
    BY <1>1, <2>1, <2>2
  <2> QED BY <1>7, <2>1, <2>3
<1>9. Reached(l)
  BY <1>1, <1>8
<1> DEFINE b == HandleLoad(a, n, doc, order)
<1>10. /\ b \in Actor(n) /\ b.phase = p /\ doc \subseteq b.doc
       /\ \A k \in S : Unparked(a.conns[k], p, b.conns[k])
  BY <1>1, <1>2, <1>9 DEF Reached
<1> HIDE DEF b
<1>11. Seemly(n, b) /\ \A k \in S : b.conns[k].policy = a.conns[k].policy
  BY <1>10 DEF Seemly, Unparked, S
<1>12. ASSUME \A k \in S : a.conns[k].out = <<>>, NEW has, Composed(n, a, has)
       PROVE  Composed(n, b, has)
  <2>1. b.phase = "Ready" => b.doc # {}
    BY <1>5, <1>10
  <2>2. ASSUME NEW k \in S
        PROVE  Calm(b.conns[k], b.phase, k \in has) /\ Pledged(b.conns[k], b.phase)
    <3>1. Calm(a.conns[k], "Loading", k \in has) /\ Pledged(a.conns[k], "Loading")
      BY <1>12 DEF Composed, S
    <3>2. (k \in has) \in BOOLEAN
      OBVIOUS
    <3> QED BY <1>10, <1>12, <3>1, <3>2 DEF Unparked
  <2> QED BY <2>1, <2>2 DEF Composed, S
<1> QED BY <1>5, <1>10, <1>11, <1>12 DEF b, S

(* Connections come and go, actors are spawned.                            *)
LEMMA NewConn ==
    LET u == [NoConn EXCEPT !.policy = Undecided]
        v == [NoConn EXCEPT !.policy = Undecided, !.peer = FirstState(Undecided)]
    IN  /\ u \in Conn /\ v \in Conn
        /\ u.pending = <<>> /\ v.pending = <<>> /\ NoConn.pending = <<>>
        /\ u.parked = <<>> /\ v.parked = <<>> /\ NoConn.parked = <<>>
        /\ u.policy = Undecided /\ v.policy = Undecided /\ NoConn.policy = NoConfig
        /\ \A p : /\ Placed(NoConn, p)
                  /\ p # "Requesting" => Placed(u, p)
                  /\ p = "Requesting" => Placed(v, p)
                  /\ Pledged(u, p) /\ Pledged(v, p) /\ Pledged(NoConn, p)
                  /\ \A q \in BOOLEAN :
                        /\ Calm(NoConn, p, q) /\ Calm(v, p, q)
                        /\ p # "Requesting" => Calm(u, p, q)
<1> DEFINE u == [NoConn EXCEPT !.policy = Undecided]
           v == [NoConn EXCEPT !.policy = Undecided, !.peer = FirstState(Undecided)]
           Plain(c) == /\ c.hasRequested = FALSE /\ c.sentAny = FALSE /\ c.receivedAny = FALSE
                       /\ c.sync = Fresh /\ c.pending = <<>> /\ c.parked = <<>>
                       /\ c.heads = {} /\ c.out = <<>>
<1>1. FirstState(Undecided) = "AwaitingSharePolicy"
  BY DEF FirstState
<1>2. NoConn.policy = NoConfig /\ NoConn.peer = "None" /\ Plain(NoConn) /\ NoConn \in Conn
  BY ConstantTypes DEF NoConn
<1>3. u \in Conn /\ u.policy = Undecided /\ u.peer = "None" /\ Plain(u)
  BY <1>2 DEF Conn
<1>4. v \in Conn /\ v.policy = Undecided /\ v.peer = "AwaitingSharePolicy" /\ Plain(v)
  BY <1>1, <1>2 DEF Conn, PeerState, Asking
<1> HIDE DEF u, v
<1>5. NoConfig # Undecided /\ ~CanRead(NoConfig) /\ ~CanRead(Undecided)
  BY GrantsApart DEF CanRead, NoConfig, Undecided
<1>6. ~Fresh.reset /\ ~Fresh.known
  BY DEF Fresh
<1>7. NoSync(<<>>) /\ \A p, q : Fitting(p, q, <<>>)
  BY DEF NoSync, Fitting, Filled
<1>8. \A p : /\ Placed(NoConn, p)
             /\ p # "Requesting" => Placed(u, p)
             /\ p = "Requesting" => Placed(v, p)
             /\ Pledged(u, p) /\ Pledged(v, p) /\ Pledged(NoConn, p)
  BY <1>2, <1>3, <1>4, <1>5 DEF Placed, Pledged
<1>9. ASSUME NEW p, NEW q \in BOOLEAN
      PROVE  /\ Calm(NoConn, p, q) /\ Calm(v, p, q)
             /\ p # "Requesting" => Calm(u, p, q)
  <2>1. Untouched(NoConn) /\ Untouched(u) /\ Untouched(v)
    BY <1>2, <1>3, <1>4, <1>6 DEF Untouched
  <2>2. Calm(NoConn, p, q)
    BY <1>2, <1>5, <1>6, <1>7, <2>1 DEF Calm
  <2>3. Calm(v, p, q)
    BY <1>4, <1>5, <1>6, <1>7, <2>1 DEF Calm
  <2>4. p # "Requesting" => Calm(u, p, q)
    BY <1>3, <1>5, <1>6, <1>7, <2>1 DEF Calm
  <2> QED BY <2>2, <2>3, <2>4
<1> QED BY <1>2, <1>3, <1>4, <1>8, <1>9 DEF u, v

LEMMA AddSeemly ==
    ASSUME NEW n \in Node, NEW a, Seemly(n, a), NEW k \in Neighbours(n)
    PROVE  LET b == AddConnection(a, k) IN
           /\ Seemly(n, b) /\ b.phase = a.phase
           /\ b.conns[k].policy =
                IF a.phase = "None" THEN a.conns[k].policy ELSE Undecided
           /\ \A j \in Neighbours(n) : j # k => b.conns[j].policy = a.conns[j].policy
           /\ \A has : Composed(n, a, has) => Composed(n, b, has)
<1> DEFINE d == [NoConn EXCEPT !.policy = Undecided,
                   !.peer = IF a.phase = "Requesting" THEN FirstState(Undecided) ELSE "None"]
           b == AddConnection(a, k)
<1>1. a \in Actor(n) /\ a.doc \in SUBSET Change /\ a.conns[k] \in Conn
  BY DEF Seemly, Actor
<1>2. CASE a.phase = "None"
  <2>1. b = a
    BY <1>1, <1>2 DEF AddConnection, Actor
  <2> QED BY <1>2, <2>1
<1>3. CASE a.phase # "None"
  <2>1. /\ d \in Conn /\ d.policy = Undecided /\ d.parked = <<>>
        /\ Placed(d, a.phase) /\ Pledged(d, a.phase)
        /\ \A q \in BOOLEAN : Calm(d, a.phase, q)
    <3> DEFINE u == [NoConn EXCEPT !.policy = Undecided]
               v == [NoConn EXCEPT !.policy = Undecided, !.peer = FirstState(Undecided)]
    <3>1. d = IF a.phase = "Requesting" THEN v ELSE u
      <4>1. [NoConn EXCEPT !.policy = Undecided, !.peer = "None"] = u
        <5>1. NoConn.peer = "None"
          BY DEF NoConn
        <5>2. NoConn \in Conn
          BY ConstantTypes
        <5> QED BY <5>1, <5>2 DEF Conn
      <4>2. CASE a.phase = "Requesting"
        BY <4>2
      <4>3. CASE a.phase # "Requesting"
        BY <4>1, <4>3
      <4> QED BY <4>2, <4>3
    <3> HIDE DEF d
    <3> QED BY <3>1, NewConn
  <2> HIDE DEF d
  <2>2. b = With(a, k, d, a.doc)
    <3>1. b = [a EXCEPT !.conns[k] = d]
      BY <1>3 DEF AddConnection, d
    <3> QED BY <1>1, <3>1, WithSame
  <2> HIDE DEF b
  <2>3. /\ Seemly(n, b) /\ b.phase = a.phase /\ b.conns[k] = d
        /\ \A j \in Neighbours(n) : j # k => b.conns[j] = a.conns[j]
        /\ \A has : Composed(n, a, has) /\ Calm(d, a.phase, k \in has) /\ Pledged(d, a.phase)
                       => Composed(n, b, has)
    BY <1>1, <2>1, <2>2, OneChanges
  <2>4. \A has : (k \in has) \in BOOLEAN
    OBVIOUS
  <2> QED BY <1>3, <2>1, <2>3, <2>4 DEF b
<1> QED BY <1>2, <1>3

LEMMA RemoveSeemly ==
    ASSUME NEW n \in Node, NEW a, Seemly(n, a), NEW k \in Neighbours(n)
    PROVE  LET b == RemoveConnection(a, k) IN
           /\ Seemly(n, b) /\ b.phase = a.phase /\ b.conns[k].policy = NoConfig
           /\ \A j \in Neighbours(n) : j # k => b.conns[j].policy = a.conns[j].policy
           /\ \A has : Composed(n, a, has) => Composed(n, b, has)
<1> DEFINE b == RemoveConnection(a, k)
<1>1. a \in Actor(n) /\ a.doc \in SUBSET Change
  BY DEF Seemly, Actor
<1>2. /\ NoConn \in Conn /\ NoConn.pending = <<>> /\ NoConn.parked = <<>>
      /\ NoConn.policy = NoConfig /\ Placed(NoConn, a.phase) /\ Pledged(NoConn, a.phase)
      /\ \A q \in BOOLEAN : Calm(NoConn, a.phase, q)
  BY NewConn, ConstantTypes
<1>3. b = With(a, k, NoConn, a.doc)
  BY <1>1, WithSame DEF RemoveConnection
<1> HIDE DEF b
<1>4. /\ Seemly(n, b) /\ b.phase = a.phase /\ b.conns[k] = NoConn
      /\ \A j \in Neighbours(n) : j # k => b.conns[j] = a.conns[j]
      /\ \A has : Composed(n, a, has) /\ Calm(NoConn, a.phase, k \in has)
                     /\ Pledged(NoConn, a.phase) => Composed(n, b, has)
  BY <1>1, <1>2, <1>3, OneChanges
<1>5. \A has : (k \in has) \in BOOLEAN
  OBVIOUS
<1> QED BY <1>2, <1>4, <1>5 DEF b

LEMMA SpawnedSeemly ==
    ASSUME NEW n \in Node, NEW p \in {"Loading", "Ready"}, NEW doc \in SUBSET Change
    PROVE  LET b == Spawned(n, p, doc) IN
           /\ Seemly(n, b) /\ b.phase = p /\ Linked(n, b, up)
           /\ (p = "Ready" => doc # {}) => \A has : Composed(n, b, has)
<1> DEFINE u == [NoConn EXCEPT !.policy = Undecided]
           b == Spawned(n, p, doc)
<1>1. b = [phase |-> p, doc |-> doc,
           conns |-> [k \in Neighbours(n) |-> IF <<n, k>> \in up THEN u ELSE NoConn]]
  BY DEF Spawned
<1>2. /\ u \in Conn /\ NoConn \in Conn
      /\ u.pending = <<>> /\ u.parked = <<>> /\ u.policy = Undecided
      /\ NoConn.pending = <<>> /\ NoConn.parked = <<>> /\ NoConn.policy = NoConfig
      /\ Placed(u, p) /\ Placed(NoConn, p) /\ Pledged(u, p) /\ Pledged(NoConn, p)
      /\ \A q \in BOOLEAN : Calm(u, p, q) /\ Calm(NoConn, p, q)
  BY NewConn, ConstantTypes
<1> HIDE DEF u, b
<1>3. /\ b \in Actor(n) /\ b.phase = p /\ b.doc = doc
      /\ \A k \in Neighbours(n) : b.conns[k] = IF <<n, k>> \in up THEN u ELSE NoConn
  BY <1>1, <1>2 DEF Actor
<1>4. Seemly(n, b)
  BY <1>2, <1>3 DEF Seemly
<1>5. Linked(n, b, up)
  BY <1>2, <1>3, GrantsApart DEF Linked
<1>6. ASSUME p = "Ready" => doc # {}, NEW has PROVE Composed(n, b, has)
  <2>1. \A k \in Neighbours(n) : (k \in has) \in BOOLEAN
    OBVIOUS
  <2> QED BY <1>2, <1>3, <1>6, <2>1 DEF Composed
<1> QED BY <1>3, <1>4, <1>5, <1>6 DEF b

LEMMA EditSeemly ==
    ASSUME NEW n \in Node, NEW a, Seemly(n, a), NEW x \in Change
    PROVE  LET b == [a EXCEPT !.doc = @ \cup {x}] IN
           /\ Seemly(n, b) /\ b.phase = a.phase
           /\ \A k \in Neighbours(n) : b.conns[k] = a.conns[k]
           /\ \A has : Composed(n, a, has) => Composed(n, b, has)
<1> DEFINE b == [a EXCEPT !.doc = @ \cup {x}]
<1>1. /\ b \in Actor(n) /\ b.phase = a.phase /\ b.doc # {}
      /\ \A k \in Neighbours(n) : b.conns[k] = a.conns[k]
  BY DEF Seemly, Actor
<1> HIDE DEF b
<1> QED BY <1>1 DEF Seemly, Composed, b
----------------------------------------------------------------------------
(* The inductive invariant.                                                *)

Formed ==
    /\ actor \in [Node -> Actors]
    /\ \A j \in Node : /\ Seemly(j, actor[j]) /\ Linked(j, actor[j], up)
                       /\ \A k \in Neighbours(j) : actor[j].conns[k].out = <<>>
    /\ wire \in [End -> Seq(Msg)]

Listed ==
    /\ sought \subseteq Finder /\ up \subseteq End /\ broken \subseteq Link
    /\ grant \in [End -> Config] /\ updates \subseteq End /\ events \in 0 .. MaxEvents

(* As long as no decision changes: what is on its way to a node that does  *)
(* not have the document has content, and comes from one that has it.      *)
Serene ==
    /\ \A n \in Node : Composed(n, actor[n], Holders)
    /\ \A e \in End : Fitting(actor[e[2]].phase, e[1] \in Holders, wire[e])

IInv == Formed /\ Listed /\ (updates = {} => Serene)

LEMMA EndIs ==
    /\ \A e \in End : /\ e[1] \in Node /\ e[2] \in Node /\ e = <<e[1], e[2]>>
                      /\ e[2] \in Neighbours(e[1]) /\ e[1] \in Neighbours(e[2]) /\ e[1] # e[2]
    /\ \A n \in Node : \A k \in Neighbours(n) :
          <<n, k>> \in End /\ <<k, n>> \in End /\ n # k /\ k \in Node
<1>1. ASSUME NEW n \in Node, NEW k \in Node, {n, k} \in Link
      PROVE  /\ n # k /\ k \in Neighbours(n) /\ n \in Neighbours(k)
             /\ <<n, k>> \in End /\ <<k, n>> \in End
  <2>1. PICK i, j \in Node : i # j /\ {n, k} = {i, j}
    BY <1>1, RequestAssumption
  <2>2. n # k /\ {k, n} \in Link
    <3>1. {n, k} = {k, n}
      OBVIOUS
    <3> QED BY <1>1, <2>1, <3>1
  <2> QED BY <1>1, <2>2 DEF End, Neighbours
<1>2. ASSUME NEW e \in End
      PROVE  e[1] \in Node /\ e[2] \in Node /\ e = <<e[1], e[2]>> /\ {e[1], e[2]} \in Link
  BY DEF End
<1>3. ASSUME NEW n \in Node, NEW k \in Neighbours(n)
      PROVE  k \in Node /\ {n, k} \in Link
  BY DEF Neighbours
<1> QED BY <1>1, <1>2, <1>3

LEMMA FittingParts ==
    ASSUME NEW p, NEW q \in BOOLEAN, NEW ms \in Seq(Msg), Fitting(p, q, ms), ms # <<>>
    PROVE  /\ Head(ms) \in Msg /\ Tail(ms) \in Seq(Msg)
           /\ Fitting(p, q, <<Head(ms)>>) /\ Fitting(p, q, Tail(ms))
<1>1. /\ Len(ms) \in Nat /\ Len(ms) > 0 /\ 1 \in 1 .. Len(ms) /\ Head(ms) = ms[1]
      /\ Tail(ms) \in Seq(Msg) /\ Len(Tail(ms)) = Len(ms) - 1 /\ Head(ms) \in Msg
  OBVIOUS
<1>2. \A i \in 1 .. Len(ms) - 1 : Tail(ms)[i] = ms[i + 1] /\ i + 1 \in 1 .. Len(ms)
  OBVIOUS
<1>3. Fitting(p, q, <<Head(ms)>>)
  BY <1>1, FittingMember
<1> HIDE DEF Msg
<1>4. Fitting(p, q, Tail(ms))
  BY <1>1, <1>2 DEF Fitting, Filled, NoSync
<1> QED BY <1>1, <1>3, <1>4

(* The step of a handler; "taken" is no end, or has a message.             *)
Takes(taken) == taken = <<>> \/ (taken \in End /\ wire[taken] # <<>>)

LEMMA StepFormed ==
    ASSUME Formed, NEW n \in Node, NEW a, Seemly(n, a), Linked(n, a, up'),
           NEW taken, Takes(taken),
           \A j \in Node : \A k \in Node : j # n => (<<j, k>> \in up' <=> <<j, k>> \in up),
           StepAfter(n, a, taken)
    PROVE  Formed'
<1>1. actor[n] \in Actor(n) /\ actor \in [Node -> Actors]
  BY DEF Formed, Seemly
<1>2. /\ Seemly(n, actor'[n])
      /\ actor'[n].phase = "None" <=> a.phase = "None"
      /\ \A k \in Neighbours(n) :
            actor'[n].conns[k].out = <<>> /\ actor'[n].conns[k].policy = a.conns[k].policy
      /\ \A j \in Node : j # n => actor'[j] = actor[j]
      /\ actor' \in [Node -> Actors]
      /\ wire' = [e \in End |-> wire'[e]]
      /\ Wired(n, a, taken)
      /\ \A k \in Neighbours(n) : Sent(n, a, k) \in Seq(Msg)
  BY <1>1, StepIs, Zenon
<1>3. Linked(n, actor'[n], up')
  BY <1>2 DEF Linked
<1>4. ASSUME NEW j \in Node, j # n PROVE Linked(j, actor'[j], up')
  <2>1. \A k \in Neighbours(j) : <<j, k>> \in up' <=> <<j, k>> \in up
    BY <1>4, EndIs
  <2>2. Linked(j, actor[j], up) /\ actor'[j] = actor[j]
    BY <1>2, <1>4 DEF Formed
  <2> QED BY <2>1, <2>2 DEF Linked
<1>5. wire' \in [End -> Seq(Msg)]
  <2>1. ASSUME NEW e \in End
        PROVE  (IF e[1] = n /\ {e[1], e[2]} \notin broken
                THEN wire[e] \o Sent(n, a, e[2]) ELSE Rest(e, taken)) \in Seq(Msg)
    <3>1. wire[e] \in Seq(Msg) /\ e # <<>>
      BY DEF Formed, End
    <3>2. e[1] = n => wire[e] \o Sent(n, a, e[2]) \in Seq(Msg)
      BY <1>2, <3>1, EndIs
    <3>3. Rest(e, taken) \in Seq(Msg)
      BY <3>1 DEF Rest, Takes
    <3> QED BY <3>2, <3>3
  <2> QED BY <1>2, <2>1 DEF Wired
<1>6. \A j \in Node : Seemly(j, actor'[j]) /\ \A k \in Neighbours(j) : actor'[j].conns[k].out = <<>>
  BY <1>2 DEF Formed
<1> QED BY <1>2, <1>3, <1>4, <1>5, <1>6 DEF Formed

LEMMA StepSerene ==
    ASSUME Formed, Serene, NEW n \in Node, NEW a, Seemly(n, a), Composed(n, a, Holders),
           actor[n].phase = "Ready" => a.phase = "Ready",
           NEW taken, Takes(taken),
           StepAfter(n, a, taken)
    PROVE  Serene'
<1>1. actor[n] \in Actor(n) /\ actor \in [Node -> Actors]
  BY DEF Formed, Seemly
<1>8. Seemly(n, actor'[n]) /\ (a.phase = "Ready" => actor'[n].phase = "Ready")
  BY <1>1, StepIs, Zenon
<1>2. /\ \A j \in Node : j # n => actor'[j] = actor[j]
      /\ Wired(n, a, taken)
      /\ \A k \in Neighbours(n) : Sent(n, a, k) \in Seq(Msg)
  <2>1. \A j \in Node : j # n => actor'[j] = actor[j]
    BY <1>1, StepIs, Zenon
  <2>2. Wired(n, a, taken)
    BY <1>1, StepIs, Zenon
  <2>3. \A k \in Neighbours(n) : Sent(n, a, k) \in Seq(Msg)
    BY <1>1, StepIs, Zenon
  <2> QED BY <2>1, <2>2, <2>3
<1>7. /\ Composed(n, actor'[n], Holders)
      /\ \A k \in Neighbours(n) : k \notin Holders =>
            Filled(Sent(n, a, k)) /\ (actor'[n].phase # "Ready" => NoSync(Sent(n, a, k)))
  <2>1. \A has : Composed(n, a, has) =>
           /\ Composed(n, actor'[n], has)
           /\ \A k \in Neighbours(n) : k \notin has =>
                 /\ Filled(Sent(n, a, k))
                 /\ actor'[n].phase # "Ready" => NoSync(Sent(n, a, k))
    BY <1>1, StepIs, Zenon
  <2> QED BY <2>1
<1>3. /\ \A j \in Node : j # n => (j \in Holders' <=> j \in Holders)
      /\ n \in Holders => n \in Holders'
      /\ n \in Holders' <=> actor'[n].phase = "Ready"
  BY <1>2, <1>8 DEF Holders
<1>4. Composed(n, actor'[n], Holders')
  <2>1. \A k \in Neighbours(n) : k \in Holders' <=> k \in Holders
    BY <1>3, EndIs
  <2> QED BY <1>7, <2>1 DEF Composed
<1>5. ASSUME NEW j \in Node, j # n PROVE Composed(j, actor'[j], Holders')
  <2>1. Composed(j, actor[j], Holders) /\ actor'[j] = actor[j]
    BY <1>2, <1>5 DEF Serene
  <2>2. ASSUME NEW k \in Neighbours(j)
        PROVE  Calm(actor[j].conns[k], actor[j].phase, k \in Holders')
    <3>1. actor[j].conns[k] \in Conn /\ Calm(actor[j].conns[k], actor[j].phase, k \in Holders)
      BY <2>1 DEF Formed, Seemly, Actor, Composed
    <3>2. (k \in Holders' <=> k \in Holders) \/ (k \notin Holders /\ k \in Holders')
      BY <1>3, EndIs
    <3> HIDE DEF Holders
    <3>3. CASE k \in Holders' <=> k \in Holders
      BY <3>1, <3>3
    <3>4. CASE k \notin Holders /\ k \in Holders'
      <4>1. (k \in Holders) = FALSE /\ (k \in Holders') = TRUE
        BY <3>4
      <4>2. Calm(actor[j].conns[k], actor[j].phase, FALSE)
        BY <3>1, <4>1
      <4> QED BY <3>1, <4>1, <4>2, CalmWeaker
    <3> QED BY <3>2, <3>3, <3>4
  <2> QED BY <2>1, <2>2 DEF Composed
<1>6. ASSUME NEW e \in End
      PROVE  Fitting(actor'[e[2]].phase, e[1] \in Holders', wire'[e])
  <2>1. /\ e[1] \in Node /\ e[2] \in Node /\ e[2] \in Neighbours(e[1]) /\ e[1] # e[2]
        /\ wire[e] \in Seq(Msg) /\ e # <<>>
        /\ Fitting(actor[e[2]].phase, e[1] \in Holders, wire[e])
    BY EndIs DEF Formed, Serene, End
  <2>2. CASE e[1] = n /\ {e[1], e[2]} \notin broken
    <3> DEFINE k == e[2]
    <3>1. k # n /\ k \in Neighbours(n) /\ actor'[k] = actor[k]
      BY <1>2, <2>1, <2>2
    <3>2. wire'[e] = wire[e] \o Sent(n, a, k) /\ Sent(n, a, k) \in Seq(Msg)
      BY <1>2, <2>2, <3>1 DEF Wired
    <3>3. actor[k].phase # "Ready" => k \notin Holders
      BY DEF Holders
    <3>4. actor[k].phase # "Ready" =>
            /\ Filled(wire[e]) /\ Filled(Sent(n, a, k))
            /\ n \notin Holders' => NoSync(wire[e]) /\ NoSync(Sent(n, a, k))
      BY <1>3, <1>7, <2>1, <2>2, <3>1, <3>3 DEF Fitting
    <3>5. actor[k].phase # "Ready" =>
            Filled(wire'[e]) /\ (n \notin Holders' => NoSync(wire'[e]))
      BY <2>1, <3>2, <3>4, JoinedQueues
    <3> QED BY <2>2, <3>1, <3>5 DEF Fitting
  <2>3. CASE ~ (e[1] = n /\ {e[1], e[2]} \notin broken)
    <3>1. wire'[e] = Rest(e, taken)
      BY <1>2, <2>3 DEF Wired
    <3>2. /\ actor'[e[2]].phase # "Ready" => actor[e[2]].phase # "Ready"
          /\ e[1] \in Holders => e[1] \in Holders'
      BY <1>2, <1>3, <2>1 DEF Holders
    <3>6. e = taken =>
            LET ms == wire[e] IN
            /\ Len(ms) \in Nat /\ Len(Tail(ms)) = Len(ms) - 1
            /\ \A i \in 1 .. Len(ms) - 1 : Tail(ms)[i] = ms[i + 1] /\ i + 1 \in 1 .. Len(ms)
      <4>1. e = taken => wire[e] # <<>>
        BY <2>1 DEF Takes
      <4> HIDE DEF Msg
      <4> QED BY <2>1, <4>1
    <3>3. Filled(wire[e]) => Filled(Rest(e, taken))
      <4>1. CASE e = taken
        BY <2>1, <3>6, <4>1 DEF Rest, Filled
      <4>2. CASE e # taken
        BY <4>2 DEF Rest
      <4> QED BY <4>1, <4>2
    <3>4. NoSync(wire[e]) => NoSync(Rest(e, taken))
      <4>1. CASE e = taken
        BY <2>1, <3>6, <4>1 DEF Rest, NoSync
      <4>2. CASE e # taken
        BY <4>2 DEF Rest
      <4> QED BY <4>1, <4>2
    <3> QED BY <2>1, <3>1, <3>2, <3>3, <3>4 DEF Fitting
  <2> QED BY <2>2, <2>3
<1> QED BY <1>4, <1>5, <1>6 DEF Serene

LEMMA StepKeeps ==
    ASSUME IInv, NEW n \in Node, NEW a, Seemly(n, a), Linked(n, a, up'),
           NEW taken, Takes(taken), Listed',
           \A j \in Node : \A k \in Node : j # n => (<<j, k>> \in up' <=> <<j, k>> \in up),
           StepAfter(n, a, taken),
           updates' = {} => updates = {} /\ (Serene => Composed(n, a, Holders))
                                         /\ (actor[n].phase = "Ready" => a.phase = "Ready")
    PROVE  IInv'
<1>1. Formed'
  BY StepFormed DEF IInv
<1>2. ASSUME updates' = {} PROVE Serene'
  <2>1. Formed /\ Serene /\ Composed(n, a, Holders) /\ (actor[n].phase = "Ready" => a.phase = "Ready")
    BY <1>2 DEF IInv
  <2> QED BY <2>1, StepSerene
<1> QED BY <1>1, <1>2 DEF IInv

LEMMA HereNow ==
    ASSUME Formed, NEW n \in Node
    PROVE  /\ actor[n] \in Actor(n) /\ Seemly(n, actor[n]) /\ Linked(n, actor[n], up)
           /\ \A k \in Neighbours(n) : actor[n].conns[k].out = <<>>
           /\ Serene => Composed(n, actor[n], Holders)
BY DEF Formed, Seemly, Serene

LEMMA FindKeeps == ASSUME IInv, NEW n \in Node, Find(n) PROVE IInv'
<1>1. Listed' /\ up' = up /\ updates' = updates
  BY DEF Find, IInv, Listed
<1>2. CASE actor[n].phase = "None"
  <2> DEFINE a == Spawned(n, "Loading", {})
  <2>1. Seemly(n, a) /\ Linked(n, a, up) /\ Composed(n, a, Holders)
    BY SpawnedSeemly
  <2>2. StepAfter(n, a, <<>>)
    BY <1>2 DEF Find, Step
  <2> HIDE DEF a
  <2> QED BY <1>1, <1>2, <2>1, <2>2, StepKeeps DEF Takes, Linked
<1>3. CASE actor[n].phase # "None"
  <2>1. actor' = actor /\ wire' = wire
    BY <1>3 DEF Find
  <2> QED BY <1>1, <2>1 DEF IInv, Formed, Serene, Holders, Composed, Seemly, Linked
<1> QED BY <1>2, <1>3

LEMMA CreateKeeps == ASSUME IInv, NEW n \in Node, Create(n) PROVE IInv'
<1> DEFINE a == Spawned(n, "Ready", Stored[n])
<1>1. Listed' /\ up' = up /\ updates' = updates
  BY RequestAssumption DEF Create, IInv, Listed
<1>2. Stored[n] \in SUBSET Change /\ Stored[n] # {}
  BY RequestAssumption DEF Create
<1>3. Seemly(n, a) /\ Linked(n, a, up) /\ Composed(n, a, Holders) /\ a.phase = "Ready"
  BY <1>2, SpawnedSeemly
<1>4. StepAfter(n, a, <<>>)
  BY DEF Create, Step
<1> HIDE DEF a
<1> QED BY <1>1, <1>3, <1>4, StepKeeps DEF Takes, Linked

LEMMA EditKeeps == ASSUME IInv, NEW n \in Node, NEW x \in Change, Edit(n, x) PROVE IInv'
<1> DEFINE a == [actor[n] EXCEPT !.doc = @ \cup {x}]
<1>1. Listed' /\ up' = up /\ updates' = updates
  BY RequestAssumption DEF Edit, IInv, Listed
<1>2. /\ Seemly(n, actor[n]) /\ Linked(n, actor[n], up)
      /\ Serene => Composed(n, actor[n], Holders)
  BY HereNow DEF IInv
<1>3. /\ Seemly(n, a) /\ a.phase = actor[n].phase
      /\ \A k \in Neighbours(n) : a.conns[k] = actor[n].conns[k]
      /\ Composed(n, actor[n], Holders) => Composed(n, a, Holders)
  BY <1>2, EditSeemly
<1>4. StepAfter(n, a, <<>>)
  BY DEF Edit, Step
<1> HIDE DEF a
<1>5. Linked(n, a, up)
  BY <1>2, <1>3 DEF Linked
<1> QED BY <1>1, <1>2, <1>3, <1>4, <1>5, StepKeeps DEF Takes, Linked

LEMMA LoadKeeps == ASSUME IInv, NEW n \in Node, Load(n) PROVE IInv'
<1>1. Listed' /\ up' = up /\ updates' = updates
  BY DEF Load, IInv, Listed
<1>2. /\ Seemly(n, actor[n]) /\ Linked(n, actor[n], up) /\ actor[n].phase = "Loading"
      /\ \A k \in Neighbours(n) : actor[n].conns[k].out = <<>>
      /\ Serene => Composed(n, actor[n], Holders)
  BY HereNow DEF IInv, Load
<1>3. PICK order \in SetToSeqs(Neighbours(n)) : Step(n, HandleLoad(actor[n], n, Stored[n], order))
  BY DEF Load
<1> DEFINE a == HandleLoad(actor[n], n, Stored[n], order)
<1>4. Stored[n] \in SUBSET Change
  BY RequestAssumption
<1>5. /\ Seemly(n, a) /\ a.phase \in {"Ready", "Requesting"}
      /\ \A k \in Neighbours(n) : a.conns[k].policy = actor[n].conns[k].policy
      /\ Composed(n, actor[n], Holders) => Composed(n, a, Holders)
  BY <1>2, <1>4, LoadSeemly
<1>6. StepAfter(n, a, <<>>)
  BY <1>3 DEF Step
<1> HIDE DEF a
<1>7. Linked(n, a, up)
  BY <1>2, <1>5 DEF Linked
<1> QED BY <1>1, <1>2, <1>5, <1>6, <1>7, StepKeeps DEF Takes, Linked

LEMMA DecideKeeps ==
    ASSUME IInv, NEW n \in Node, NEW k \in Neighbours(n), Decide(n, k) PROVE IInv'
<1> DEFINE g == grant[<<n, k>>]
           a == ApplySharePolicy(actor[n], k, g)
<1>1. Listed' /\ up' = up /\ updates' = updates
  BY DEF Decide, IInv, Listed
<1>2. /\ Seemly(n, actor[n]) /\ Linked(n, actor[n], up) /\ actor[n].conns[k].policy = Undecided
      /\ actor[n].conns[k].out = <<>>
      /\ Serene => Composed(n, actor[n], Holders)
  BY HereNow DEF IInv, Decide
<1>3. g \in Config
  BY EndIs DEF IInv, Listed
<1>4. /\ Seemly(n, a) /\ a.phase = actor[n].phase
      /\ \A j \in Neighbours(n) :
            a.conns[j].policy = NoConfig <=> actor[n].conns[j].policy = NoConfig
      /\ Composed(n, actor[n], Holders) => Composed(n, a, Holders)
  <2> HIDE DEF g
  <2> QED BY <1>2, <1>3, PolicySeemly
<1>5. StepAfter(n, a, <<>>)
  BY DEF Decide, Step
<1> HIDE DEF a
<1>6. Linked(n, a, up)
  BY <1>2, <1>4 DEF Linked
<1> QED BY <1>1, <1>2, <1>4, <1>5, <1>6, StepKeeps DEF Takes, Linked

LEMMA UpdateKeeps ==
    ASSUME IInv, NEW n \in Node, NEW k \in Neighbours(n), NEW g \in Config, Update(n, k, g)
    PROVE  IInv'
<1> DEFINE a == ApplySharePolicy(actor[n], k, g)
<1>1. <<n, k>> \in End
  BY EndIs
<1>2. Listed' /\ up' = up /\ updates' # {}
  BY <1>1, RequestAssumption DEF Update, IInv, Listed
<1>3. Seemly(n, actor[n]) /\ Linked(n, actor[n], up)
  BY HereNow DEF IInv
<1>4. /\ Seemly(n, a) /\ a.phase = actor[n].phase
      /\ \A j \in Neighbours(n) :
            a.conns[j].policy = NoConfig <=> actor[n].conns[j].policy = NoConfig
  BY <1>3, PolicySeemly
<1>5. StepAfter(n, a, <<>>)
  BY DEF Update, Step
<1> HIDE DEF a
<1>6. Linked(n, a, up)
  BY <1>3, <1>4 DEF Linked
<1> QED BY <1>2, <1>4, <1>5, <1>6, StepKeeps DEF Takes, Linked

LEMMA DeliverKeeps ==
    ASSUME IInv, NEW n \in Node, NEW k \in Neighbours(n), Deliver(n, k) PROVE IInv'
<1> DEFINE e == <<k, n>>
           m == Head(wire[e])
           b == IF actor[n].phase = "None" THEN Spawned(n, "Loading", {}) ELSE actor[n]
           a == HandleSyncMessage(b, k, m)
<1>1. Listed' /\ up' = up /\ updates' = updates
  BY DEF Deliver, IInv, Listed
<1>2. e \in End /\ wire[e] # <<>> /\ wire[e] \in Seq(Msg) /\ e[1] = k /\ e[2] = n
  BY EndIs DEF Deliver, IInv, Formed
<1>3. m \in Msg
  BY <1>2
<1>4. /\ Seemly(n, b) /\ Linked(n, b, up)
      /\ Serene => Composed(n, b, Holders)
      /\ actor[n].phase # "Ready" => b.phase # "Ready"
      /\ actor[n].phase = "Ready" => b.phase = "Ready"
  <2>1. CASE actor[n].phase = "None"
    <3>1. b = Spawned(n, "Loading", {})
      BY <2>1
    <3> HIDE DEF b
    <3> QED BY <2>1, <3>1, SpawnedSeemly
  <2>2. CASE actor[n].phase # "None"
    BY <2>2, HereNow DEF IInv
  <2> QED BY <2>1, <2>2
<1>5. StepAfter(n, a, e)
  BY DEF Deliver
<1>6. ASSUME Serene PROVE Fitting(b.phase, k \in Holders, <<m>>)
  <2>1. Fitting(actor[n].phase, k \in Holders, wire[e])
    BY <1>2, <1>6 DEF Serene
  <2>2. (k \in Holders) \in BOOLEAN
    OBVIOUS
  <2>3. Fitting(actor[n].phase, k \in Holders, <<m>>)
    <3>1. \A q \in BOOLEAN : Fitting(actor[n].phase, q, wire[e])
                               => Fitting(actor[n].phase, q, <<m>>)
      BY <1>2, FittingParts
    <3> QED BY <2>1, <2>2, <3>1
  <2> QED BY <1>4, <2>3 DEF Fitting
<1> HIDE DEF b, m, e
<1>7. /\ Seemly(n, a) /\ a.phase = b.phase
      /\ \A j \in Neighbours(n) : a.conns[j].policy = b.conns[j].policy
      /\ Composed(n, b, Holders) /\ Fitting(b.phase, k \in Holders, <<m>>)
            => Composed(n, a, Holders)
  BY <1>3, <1>4, MessageSeemly
<1> HIDE DEF a
<1>8. Linked(n, a, up)
  BY <1>4, <1>7 DEF Linked
<1> QED BY <1>1, <1>2, <1>4, <1>5, <1>6, <1>7, <1>8, StepKeeps DEF Takes, Linked

LEMMA OpenKeeps ==
    ASSUME IInv, NEW n \in Node, NEW k \in Neighbours(n), Open(n, k) PROVE IInv'
<1> DEFINE a == AddConnection(actor[n], k)
<1>1. up' = up \cup {<<n, k>>} /\ <<n, k>> \in End /\ <<n, k>> \notin up
  BY DEF Open
<1>2. Listed' /\ updates' = updates
  BY <1>1 DEF Open, IInv, Listed
<1>3. /\ Seemly(n, actor[n]) /\ Linked(n, actor[n], up)
      /\ Serene => Composed(n, actor[n], Holders)
  BY HereNow DEF IInv
<1>4. /\ Seemly(n, a) /\ a.phase = actor[n].phase
      /\ a.conns[k].policy = IF a.phase = "None" THEN actor[n].conns[k].policy ELSE Undecided
      /\ \A j \in Neighbours(n) : j # k => a.conns[j].policy = actor[n].conns[j].policy
      /\ Composed(n, actor[n], Holders) => Composed(n, a, Holders)
  BY <1>3, AddSeemly
<1>5. StepAfter(n, a, <<>>)
  BY DEF Open, Step
<1> HIDE DEF a
<1>6. Linked(n, a, up')
  BY <1>1, <1>3, <1>4, GrantsApart DEF Linked
<1>7. \A j \in Node : \A i \in Node : j # n => (<<j, i>> \in up' <=> <<j, i>> \in up)
  BY <1>1
<1> QED BY <1>2, <1>3, <1>4, <1>5, <1>6, <1>7, StepKeeps DEF Takes

LEMMA CloseKeeps ==
    ASSUME IInv, NEW n \in Node, NEW k \in Neighbours(n), Close(n, k) PROVE IInv'
<1> DEFINE a == RemoveConnection(actor[n], k)
<1>1. up' = up \ {<<n, k>>} /\ (broken' = broken \/ broken' = broken \ {{n, k}})
  BY DEF Close
<1>2. Listed' /\ updates' = updates
  BY <1>1 DEF Close, IInv, Listed
<1>3. /\ Seemly(n, actor[n]) /\ Linked(n, actor[n], up)
      /\ Serene => Composed(n, actor[n], Holders)
  BY HereNow DEF IInv
<1>4. /\ Seemly(n, a) /\ a.phase = actor[n].phase /\ a.conns[k].policy = NoConfig
      /\ \A j \in Neighbours(n) : j # k => a.conns[j].policy = actor[n].conns[j].policy
      /\ Composed(n, actor[n], Holders) => Composed(n, a, Holders)
  BY <1>3, RemoveSeemly
<1>5. StepAfter(n, a, <<>>)
  BY DEF Close, Step
<1> HIDE DEF a
<1>6. Linked(n, a, up')
  BY <1>1, <1>3, <1>4 DEF Linked
<1>7. \A j \in Node : \A i \in Node : j # n => (<<j, i>> \in up' <=> <<j, i>> \in up)
  BY <1>1
<1> QED BY <1>2, <1>3, <1>4, <1>5, <1>6, <1>7, StepKeeps DEF Takes

LEMMA LoseKeeps == ASSUME IInv, NEW l \in Link, Lose(l) PROVE IInv'
<1>1. /\ actor' = actor /\ up' = up /\ updates' = updates
      /\ wire' = [e \in End |-> IF {e[1], e[2]} = l THEN <<>> ELSE wire[e]]
  BY DEF Lose
<1>2. Listed'
  BY RequestAssumption DEF Lose, IInv, Listed
<1>3. wire' \in [End -> Seq(Msg)]
  <2>1. \A e \in End : (IF {e[1], e[2]} = l THEN <<>> ELSE wire[e]) \in Seq(Msg)
    BY DEF IInv, Formed
  <2> QED BY <1>1, <2>1
<1>4. Formed'
  BY <1>1, <1>3 DEF IInv, Formed, Seemly, Linked
<1>5. ASSUME Serene PROVE Serene'
  <2>1. Holders' = Holders
    BY <1>1 DEF Holders
  <2>2. \A p, q : Fitting(p, q, <<>>)
    BY DEF Fitting, Filled, NoSync
  <2>3. \A e \in End : Fitting(actor[e[2]].phase, e[1] \in Holders, wire'[e])
    BY <1>1, <1>5, <2>2 DEF Serene
  <2>4. \A n \in Node : Composed(n, actor[n], Holders)
    BY <1>5 DEF Serene
  <2> QED BY <1>1, <2>1, <2>3, <2>4 DEF Serene
<1> QED BY <1>1, <1>2, <1>4, <1>5 DEF IInv

----------------------------------------------------------------------------
(* The theorems.                                                           *)

LEMMA InitHolds == Init => IInv
<1> SUFFICES ASSUME Init PROVE IInv
  OBVIOUS
<1> DEFINE a(n) == [phase |-> "None", doc |-> {}, conns |-> [k \in Neighbours(n) |-> NoConn]]
<1>1. actor = [n \in Node |-> a(n)] /\ wire = [e \in End |-> <<>>] /\ up = {}
  BY DEF Init
<1>2. /\ NoConn \in Conn /\ NoConn.pending = <<>> /\ NoConn.parked = <<>> /\ NoConn.out = <<>>
      /\ NoConn.policy = NoConfig /\ Placed(NoConn, "None") /\ Pledged(NoConn, "None")
      /\ \A q \in BOOLEAN : Calm(NoConn, "None", q)
  BY NewConn, ConstantTypes DEF NoConn
<1>3. \A n \in Node : /\ a(n) \in Actor(n) /\ a(n).phase = "None"
                      /\ \A k \in Neighbours(n) : a(n).conns[k] = NoConn
  BY <1>2 DEF Actor
<1> HIDE DEF a
<1>4. Formed
  <2>1. actor \in [Node -> Actors]
    BY <1>1, <1>3 DEF Actors
  <2>2. \A n \in Node : Seemly(n, a(n)) /\ Linked(n, a(n), up)
    BY <1>1, <1>2, <1>3 DEF Seemly, Linked
  <2>3. wire \in [End -> Seq(Msg)]
    BY <1>1
  <2> QED BY <1>1, <1>2, <1>3, <2>1, <2>2, <2>3 DEF Formed
<1>5. Listed
  BY RequestAssumption DEF Init, Listed
<1>6. Serene
  <2>1. \A n \in Node : \A has : Composed(n, a(n), has)
    <3>1. \A k, has : (k \in has) \in BOOLEAN
      OBVIOUS
    <3> QED BY <1>2, <1>3, <3>1 DEF Composed
  <2>2. \A p, q : Fitting(p, q, <<>>)
    BY DEF Fitting, Filled, NoSync
  <2> QED BY <1>1, <2>1, <2>2 DEF Serene
<1> QED BY <1>4, <1>5, <1>6 DEF IInv

LEMMA NextKeeps == IInv /\ [Next]_vars => IInv'
<1> SUFFICES ASSUME IInv, [Next]_vars PROVE IInv'
  OBVIOUS
<1>1. CASE UNCHANGED vars
  BY <1>1 DEF vars, IInv, Formed, Listed, Serene, Holders, Composed, Seemly, Linked
<1>2. ASSUME NEW n \in Node, Load(n) PROVE IInv'
  BY <1>2, LoadKeeps
<1>3. ASSUME NEW e \in End, Deliver(e[1], e[2]) PROVE IInv'
  BY <1>3, EndIs, DeliverKeeps
<1>4. ASSUME NEW e \in End, Decide(e[1], e[2]) PROVE IInv'
  BY <1>4, EndIs, DecideKeeps
<1>5. ASSUME NEW e \in End, Open(e[1], e[2]) PROVE IInv'
  BY <1>5, EndIs, OpenKeeps
<1>6. ASSUME NEW e \in End, Close(e[1], e[2]) PROVE IInv'
  BY <1>6, EndIs, CloseKeeps
<1>7. ASSUME NEW n \in Node, Find(n) PROVE IInv'
  BY <1>7, FindKeeps
<1>8. ASSUME NEW n \in Node, Create(n) PROVE IInv'
  BY <1>8, CreateKeeps
<1>9. ASSUME NEW n \in Node, NEW x \in Change, Edit(n, x) PROVE IInv'
  BY <1>9, EditKeeps
<1>10. ASSUME NEW e \in End, NEW g \in Config, Update(e[1], e[2], g) PROVE IInv'
  BY <1>10, EndIs, UpdateKeeps
<1>11. ASSUME NEW l \in Link, Lose(l) PROVE IInv'
  BY <1>11, LoseKeeps
<1> QED BY <1>1, <1>2, <1>3, <1>4, <1>5, <1>6, <1>7, <1>8, <1>9, <1>10, <1>11 DEF Next, Work

LEMMA Invariant == Spec => []IInv
BY InitHolds, NextKeeps, PTL DEF Spec

(* In every network: a handler leaves nothing in the actor's hands, what   *)
(* waits for the load or a decision waits for that, and the connections of *)
(* an actor are those its node has (document_actor.rs, loading.rs).        *)
THEOREM TypeCorrect == Spec => []TypeOK
<1>1. IInv => TypeOK
  BY DEF IInv, Formed, Listed, Seemly, Linked, Placed, TypeOK
<1> QED BY <1>1, Invariant, PTL

(* As long as no decision changes, no search finds an empty document,      *)
(* whatever is asked, lost, edited and connected meanwhile: empty heads    *)
(* are sent to nobody who could take them for an answer (request.rs:141,   *)
(* 283, peer_doc_connection.rs).                                           *)
THEOREM FoundHasContent == Spec => []ReadyHasContent
<1>1. IInv => ReadyHasContent
  BY DEF IInv, Serene, Composed, ReadyHasContent
<1> QED BY <1>1, Invariant, PTL
=============================================================================
