---------------------------- MODULE Connections ----------------------------
(***************************************************************************)
(* A connection from both of its ends: the handshake of the two hubs       *)
(* (samod-core actors/hub/connection/connection.rs), the IO future that    *)
(* moves their messages (drive_connection in samod/src/io_loop.rs), and    *)
(* the handles by which applications wait for it (connection_handle.rs,    *)
(* dialer_handle.rs, acceptor_handle.rs, when_connected in lib.rs).        *)
(*                                                                         *)
(* One repo dials ("out"), the other accepts ("in").  A step of a hub      *)
(* includes what lib.rs does with its results under the same lock.         *)
(* Abstracted: the CBOR encoding, protocol versions other than "1", what   *)
(* sync messages say, and when a dialer dials again (see HubNet).          *)
(***************************************************************************)
EXTENDS Naturals, Sequences

CONSTANTS Conn,          \* ids of connections, taken in order
          Calls,         \* the futures that applications may await, see Call
          MaxEnds,       \* bound: transports that break, disconnects, handles closed and stops
          Senders,       \* sides that send documents
          Expectations,  \* what the two ends may expect of each other
          Anyone, NoPeer

Side == {"out", "in"}
End == Side \X Conn
Other(e) == <<IF e[1] = "out" THEN "in" ELSE "out", e[2]>>

(* A repo's peer id and storage id are named by its side.                  *)
Peer == Side
Info == [peer : Peer, storage : Peer]

(* handshake_complete() and finished() of a connection, established() of   *)
(* the dialer, when_connected() of either repo for the other.              *)
Call == [kind : {"handshake", "finished"}, end : End]
        \cup [kind : {"when"}, side : Side] \cup [kind : {"established"}]

ASSUME ConnectionsAssumption ==
    /\ Conn \subseteq Nat /\ Calls \subseteq Call /\ MaxEnds \in Nat
    /\ Senders \subseteq Side /\ Expectations \subseteq [Side -> Peer \cup {Anyone}]
    /\ Anyone \notin Peer /\ NoPeer \notin Info

VARIABLES
  expect,      \* Transport::expected_peer_id of the transports of a side
  stopped,     \* the hub of a side is stopped
  registered,  \* the dialer, the listener, and their handles
  phase,       \* ConnectionPhase; "Gone" once State::connections drops it
  outbox,      \* channel of ConnectionHandle
  open,        \* ConnectionHandle::tx is Some
  info,        \* ConnectionHandle::info
  finished,    \* ConnectionHandle::finished_reason is Some
  loop,        \* where drive_connection is
  wire,        \* what an end's sink has sent and the other has not read
  up,          \* the transport works
  dialerConn,  \* DialerHandle: connection_id, peer_info with it
  failure,     \* DialerHandle: failure is Some
  active,      \* AcceptorHandle::active_connections
  call,        \* "idle", "waiting", or the answer, of every future
  ends, rejected, sent   \* history: ends that refused a message, and that sent documents

hubVars == <<expect, stopped, registered, phase>>
handleVars == <<open, info, finished, dialerConn, failure, active>>
vars == <<hubVars, outbox, handleVars, loop, wire, up, call, ends, rejected, sent>>

Msg == [kind : {"join", "sync"}, sender : Peer] \cup [kind : {"peer"}, sender : Peer, target : Peer]
       \cup [kind : {"error"}]

(* The shape of handles, queues and loops.                                 *)
TypeOK ==
    /\ expect \in Expectations
    /\ stopped \in [Side -> BOOLEAN] /\ registered \in [Side -> BOOLEAN]
    /\ phase \in [End -> {"Unused", "WaitingForPeer", "WaitingForJoin", "Established", "Gone"}]
    /\ outbox \in [End -> Seq(Msg)] /\ wire \in [End -> Seq(Msg)]
    /\ open \in [End -> BOOLEAN] /\ finished \in [End -> BOOLEAN]
    /\ info \in [End -> Info \cup {NoPeer}]
    /\ loop \in [End -> {"none", "running", "broke", "closing", "done", "refused"}]
    /\ up \in [Conn -> BOOLEAN]
    /\ dialerConn \subseteq Conn /\ failure \in BOOLEAN /\ active \subseteq Conn
    /\ call \in [Calls -> {"idle", "waiting", "ok", "err"}]
    /\ ends \in Nat /\ rejected \subseteq End /\ sent \subseteq End

Init ==
    /\ expect \in Expectations
    /\ stopped = [s \in Side |-> FALSE] /\ registered = [s \in Side |-> TRUE]
    /\ phase = [e \in End |-> "Unused"]
    /\ outbox = [e \in End |-> <<>>] /\ wire = [e \in End |-> <<>>]
    /\ open = [e \in End |-> FALSE] /\ finished = [e \in End |-> FALSE]
    /\ info = [e \in End |-> NoPeer]
    /\ loop = [e \in End |-> "none"] /\ up = [c \in Conn |-> TRUE]
    /\ dialerConn = {} /\ failure = FALSE /\ active = {}
    /\ call = [k \in Calls |-> "idle"]
    /\ ends = 0 /\ rejected = {} /\ sent = {}

Live(e) == phase[e] \in {"WaitingForPeer", "WaitingForJoin", "Established"}
Answer(calls, a) == [k \in Calls |-> IF call[k] = "waiting" /\ k \in calls THEN a ELSE call[k]]

----------------------------------------------------------------------------
(* The hub's connections, and the handles that follow them.                *)

(* remove_connection, and what lib.rs does on Disconnect and on            *)
(* ConnectionFailed: a handle that is still registered forgets it.         *)
DialerForgets(gone, reg) == reg["out"] /\ \E c \in Conn : <<"out", c>> \in gone
AcceptorForgetsNone(gone, reg) == active      \* mutant
AcceptorKeeps(gone, reg) == IF reg["in"] THEN {c \in active : <<"in", c>> \notin gone} ELSE active

Remove(gone, reg) ==
    /\ phase' = [e \in End |-> IF e \in gone THEN "Gone" ELSE phase[e]]
    /\ open' = [e \in End |-> open[e] /\ e \notin gone]
    /\ dialerConn' = IF DialerForgets(gone, reg) THEN {} ELSE dialerConn
    /\ active' = AcceptorKeeps(gone, reg)

LiveOf(s) == {e \in End : e[1] = s /\ Live(e)}

(* establish_transport for a dialer without a connection: the connection   *)
(* starts with its Join in the handle's channel.                           *)
Dial(c) ==
    LET e == <<"out", c>>
    IN  /\ phase[e] = "Unused" /\ registered["out"] /\ ~stopped["out"] /\ ~failure
        /\ LiveOf("out") = {} /\ \A d \in Conn : d < c => phase[<<"out", d>>] # "Unused"
        /\ phase' = [phase EXCEPT ![e] = "WaitingForPeer"]
        /\ outbox' = [outbox EXCEPT ![e] = <<[kind |-> "join", sender |-> "out"]>>]
        /\ open' = [open EXCEPT ![e] = TRUE]
        /\ loop' = [loop EXCEPT ![e] = "running"]
        /\ UNCHANGED <<expect, stopped, registered, info, finished, dialerConn, failure,
                       active, wire, up, call, ends, rejected, sent>>

(* AcceptorHandle::accept of what was dialled.                             *)
Accept(c) ==
    LET e == <<"in", c>>
    IN  /\ phase[e] = "Unused" /\ phase[Other(e)] # "Unused" /\ ~stopped["in"]
        /\ phase' = [phase EXCEPT ![e] = "WaitingForJoin"]
        /\ open' = [open EXCEPT ![e] = TRUE]
        /\ loop' = [loop EXCEPT ![e] = "running"]
        /\ UNCHANGED <<expect, stopped, registered, outbox, info, finished, dialerConn,
                       failure, active, wire, up, call, ends, rejected, sent>>

(* A stopped repo drops the transport instead.                             *)
Refuse(c) ==
    LET e == <<"in", c>>
    IN  /\ phase[e] = "Unused" /\ phase[Other(e)] # "Unused" /\ stopped["in"]
        /\ phase' = [phase EXCEPT ![e] = "Gone"]
        /\ loop' = [loop EXCEPT ![e] = "refused"]
        /\ UNCHANGED <<expect, stopped, registered, outbox, handleVars, wire, up, call,
                       ends, rejected, sent>>

(* validate_identity                                                       *)
Expected(e) == IF phase[e] = "Established" THEN Other(e)[1] ELSE expect[e[1]]
IdentityOk(e, m) ==
    m.kind # "error" => /\ Expected(e) \in {Anyone, m.sender}
                        /\ m.kind = "peer" => m.target = e[1]

Fits(e, m) ==
    CASE phase[e] = "WaitingForJoin" -> m.kind = "join"
      [] phase[e] = "WaitingForPeer" -> m.kind = "peer"
      [] OTHER -> m.kind \in {"sync", "error"}

(* The reason goes to the peer before the channel is closed.               *)
Reject(e, m) ==
    /\ outbox' = [outbox EXCEPT ![e] = Append(@, [kind |-> "error"])]
    /\ Remove({e}, registered)

(* HandshakeCompleted: the storage id is that of get_local_metadata().     *)
TheirInfo(e, m) == [peer |-> m.sender, storage |-> e[1]]

OnlyOnThisHandle(e, k) == k.kind = "handshake" /\ k.end = e   \* mutant
WaitsFor(e, k) ==
    \/ k.kind = "handshake" /\ k.end = e
    \/ k.kind = "when" /\ k.side = e[1]
    \/ k.kind = "established" /\ e[1] = "out" /\ registered["out"]

Complete(e, m) ==
    /\ phase' = [phase EXCEPT ![e] = "Established"]
    /\ outbox' = IF m.kind = "join"
                 THEN [outbox EXCEPT ![e] =
                         Append(@, [kind |-> "peer", sender |-> e[1], target |-> m.sender])]
                 ELSE outbox
    /\ info' = [info EXCEPT ![e] = TheirInfo(e, m)]
    /\ dialerConn' = IF e[1] = "out" /\ registered["out"] THEN {e[2]} ELSE dialerConn
    /\ active' = IF e[1] = "in" /\ registered["in"] THEN active \cup {e[2]} ELSE active
    /\ call' = Answer({k \in Calls : WaitsFor(e, k)}, "ok")

HandleReceive(e, m) ==
    IF ~Live(e) THEN UNCHANGED <<phase, outbox, open, info, dialerConn, active, call, rejected>>
    ELSE IF ~IdentityOk(e, m) \/ ~Fits(e, m)
    THEN /\ Reject(e, m) /\ rejected' = rejected \cup {e}
         /\ UNCHANGED <<info, call>>
    ELSE /\ CASE m.kind \in {"join", "peer"} -> Complete(e, m) /\ UNCHANGED open
              [] m.kind = "sync" ->
                   UNCHANGED <<phase, outbox, open, info, dialerConn, active, call>>
              [] m.kind = "error" ->
                   Remove({e}, registered) /\ UNCHANGED <<outbox, info, call>>
         /\ UNCHANGED rejected

(* Documents are sent on established connections only.                     *)
SendsWhileHandshaking(e) == Live(e)   \* mutant
Sends(e) == phase[e] = "Established"

SendSync(e) ==
    /\ Sends(e) /\ e[1] \in Senders /\ e \notin sent /\ ~stopped[e[1]]
    /\ sent' = sent \cup {e}
    /\ outbox' = [outbox EXCEPT ![e] = Append(@, [kind |-> "sync", sender |-> e[1]])]
    /\ UNCHANGED <<hubVars, handleVars, loop, wire, up, call, ends, rejected>>

(* A document actor asks for it: DocToHubMsgPayload::Disconnect.           *)
Disconnect(e) ==
    /\ phase[e] = "Established" /\ ~stopped[e[1]] /\ ends < MaxEnds
    /\ ends' = ends + 1
    /\ Remove({e}, registered)
    /\ UNCHANGED <<expect, stopped, registered, outbox, info, finished, failure, loop, wire,
                   up, call, rejected, sent>>

(* DialerHandle::close, AcceptorHandle::close: the handle is taken out of  *)
(* the table first, so that the event finds none.                          *)
CloseHandle(s) ==
    /\ registered[s] /\ ends < MaxEnds /\ ends' = ends + 1
    /\ registered' = [registered EXCEPT ![s] = FALSE]
    /\ IF stopped[s] THEN UNCHANGED <<phase, open, dialerConn, active>>
       ELSE Remove(LiveOf(s), registered')
    /\ UNCHANGED <<expect, stopped, outbox, info, finished, failure, loop, wire, up, call,
                   rejected, sent>>

(* Repo::stop of a repo without documents.                                 *)
Stop(s) ==
    /\ ~stopped[s] /\ ends < MaxEnds /\ ends' = ends + 1
    /\ stopped' = [stopped EXCEPT ![s] = TRUE]
    /\ Remove(LiveOf(s), registered)
    /\ UNCHANGED <<expect, registered, outbox, info, finished, failure, loop, wire, up, call,
                   rejected, sent>>

(* MaxRetriesReached or a permanent failure of the dialer.                 *)
Fail ==
    /\ registered["out"] /\ ~stopped["out"] /\ ~failure /\ LiveOf("out") = {}
    /\ failure' = TRUE
    /\ call' = Answer({k \in Calls : k.kind = "established"}, "err")
    /\ UNCHANGED <<hubVars, outbox, open, info, finished, dialerConn, active, loop, wire, up,
                   ends, rejected, sent>>

----------------------------------------------------------------------------
(* drive_connection                                                        *)

Shut(e) == loop[e] \in {"done", "refused"}

LoopRead(e) ==
    /\ loop[e] = "running" /\ up[e[2]] /\ wire[Other(e)] # <<>>
    /\ wire' = [wire EXCEPT ![Other(e)] = Tail(@)]
    /\ IF stopped[e[1]]
       THEN UNCHANGED <<phase, outbox, open, info, dialerConn, active, call, rejected>>
       ELSE HandleReceive(e, Head(wire[Other(e)]))
    /\ UNCHANGED <<expect, stopped, registered, finished, failure, loop, up, ends, sent>>

LoopEof(e) ==
    /\ loop[e] = "running"
    /\ ~up[e[2]] \/ (wire[Other(e)] = <<>> /\ Shut(Other(e)))
    /\ loop' = [loop EXCEPT ![e] = "broke"]
    /\ UNCHANGED <<hubVars, outbox, handleVars, wire, up, call, ends, rejected, sent>>

(* Writing to a peer that is gone may fail, or not.                        *)
LoopWrite(e) ==
    /\ loop[e] = "running" /\ outbox[e] # <<>>
    /\ outbox' = [outbox EXCEPT ![e] = Tail(@)]
    /\ \/ /\ up[e[2]]
          /\ wire' = [wire EXCEPT ![e] = Append(@, Head(outbox[e]))]
          /\ UNCHANGED loop
       \/ /\ ~up[e[2]] \/ Shut(Other(e))
          /\ loop' = [loop EXCEPT ![e] = "broke"]
          /\ UNCHANGED wire
    /\ UNCHANGED <<hubVars, handleVars, up, call, ends, rejected, sent>>

LoopClosed(e) ==
    /\ loop[e] = "running" /\ outbox[e] = <<>> /\ ~open[e]
    /\ loop' = [loop EXCEPT ![e] = "closing"]
    /\ UNCHANGED <<hubVars, outbox, handleVars, wire, up, call, ends, rejected, sent>>

(* HubEvent::connection_lost, unless we closed it.                         *)
LoopLost(e) ==
    /\ loop[e] = "broke"
    /\ loop' = [loop EXCEPT ![e] = "closing"]
    /\ IF Live(e) /\ ~stopped[e[1]] THEN Remove({e}, registered)
       ELSE UNCHANGED <<phase, open, dialerConn, active>>
    /\ UNCHANGED <<expect, stopped, registered, outbox, info, finished, failure, wire, up,
                   call, ends, rejected, sent>>

FinishKeepsHandshakes(e, k) == k.kind = "finished" /\ k.end = e   \* mutant
EndsWith(e, k) == k.kind \in {"handshake", "finished"} /\ k.end = e

(* The sink is closed and the handle notified.                             *)
LoopFinish(e) ==
    /\ loop[e] = "closing"
    /\ loop' = [loop EXCEPT ![e] = "done"]
    /\ finished' = [finished EXCEPT ![e] = TRUE]
    /\ call' = [k \in Calls |-> IF call[k] = "waiting" /\ EndsWith(e, k)
                                THEN IF k.kind = "finished" THEN "ok" ELSE "err"
                                ELSE call[k]]
    /\ UNCHANGED <<hubVars, outbox, open, info, dialerConn, failure, active, wire, up, ends,
                   rejected, sent>>

Break(c) ==
    /\ up[c] /\ ends < MaxEnds /\ \E e \in End : e[2] = c /\ loop[e] = "running"
    /\ up' = [up EXCEPT ![c] = FALSE] /\ ends' = ends + 1
    /\ wire' = [e \in End |-> IF e[2] = c THEN <<>> ELSE wire[e]]
    /\ UNCHANGED <<hubVars, outbox, handleVars, loop, call, rejected, sent>>

----------------------------------------------------------------------------
(* Futures: each looks and, if it must wait, registers under one lock.     *)

Handshake(e) ==
    IF finished[e] THEN "err" ELSE IF info[e] # NoPeer THEN "ok" ELSE "waiting"
Finished(e) == IF finished[e] THEN "ok" ELSE "waiting"

(* when_connected looks at the handles of Inner::connections.              *)
WhenConnected(s) == IF \E e \in LiveOf(s) : info[e] # NoPeer THEN "ok" ELSE "waiting"

Established == IF dialerConn # {} THEN "ok" ELSE IF failure THEN "err" ELSE "waiting"

Await(k) ==
    /\ call[k] = "idle"
    /\ k.kind \in {"handshake", "finished"} => loop[k.end] \notin {"none", "refused"}
    /\ call' = [call EXCEPT ![k] =
                  CASE k.kind = "handshake" -> Handshake(k.end)
                    [] k.kind = "finished" -> Finished(k.end)
                    [] k.kind = "when" -> WhenConnected(k.side)
                    [] k.kind = "established" -> Established]
    /\ UNCHANGED <<hubVars, outbox, handleVars, loop, wire, up, ends, rejected, sent>>

Works ==
    \/ \E c \in Conn : Accept(c) \/ Refuse(c)
    \/ \E e \in End : \/ LoopRead(e) \/ LoopEof(e) \/ LoopWrite(e) \/ LoopClosed(e)
                      \/ LoopLost(e) \/ LoopFinish(e)

Next ==
    \/ Works
    \/ \E c \in Conn : Dial(c) \/ Break(c)
    \/ \E e \in End : SendSync(e) \/ Disconnect(e)
    \/ \E s \in Side : CloseHandle(s) \/ Stop(s)
    \/ Fail
    \/ \E k \in Calls : Await(k)

Spec == Init /\ [][Next]_vars

(* The IO loop polls its futures, transports deliver or fail, and servers  *)
(* accept.                                                                 *)
FairSpec == Spec /\ WF_vars(Works)

----------------------------------------------------------------------------
(* Properties.                                                             *)

(* No future waits for what is already the case: checking and registering  *)
(* cannot miss the notification (connection_handle.rs:102-123, 162-202,    *)
(* dialer_handle.rs:139-169, lib.rs:704-728, 1088-1119).                   *)
NoWaiterMissed ==
    \A k \in Calls : call[k] = "waiting" =>
        CASE k.kind = "handshake" -> info[k.end] = NoPeer /\ ~finished[k.end]
          [] k.kind = "finished" -> ~finished[k.end]
          [] k.kind = "when" -> \A e \in LiveOf(k.side) : phase[e] # "Established"
          [] k.kind = "established" ->
               ~failure /\ (registered["out"] => \A e \in LiveOf("out") : phase[e] # "Established")

(* What the handles report is what the hub has: is_connected() and         *)
(* connection_count() (lib.rs:1102-1156).                                  *)
HandlesAgree ==
    /\ registered["out"] => dialerConn = {c \in Conn : phase[<<"out", c>>] = "Established"}
    /\ registered["in"] => active = {c \in Conn : phase[<<"in", c>>] = "Established"}

(* Repos that may talk to each other never see a message out of place:     *)
(* documents are not sent before the peer has finished the handshake       *)
(* (connection.rs:126-325).                                                *)
OnlyStrangersRejected ==
    rejected # {} => expect["out"] \notin {Anyone, "in"} \/ expect["in"] \notin {Anyone, "out"}

(* One end does not outlive the other, and those who wait for the          *)
(* handshake or the end of a connection learn of it, whoever rejects,      *)
(* disconnects, closes or stops and whatever the transport does            *)
(* (io_loop.rs:268-326, state.rs:544-548).                                 *)
EndsTogether ==
    []<>(/\ \A c \in Conn : Live(<<"out", c>>) <=> Live(<<"in", c>>)
         /\ \A k \in Calls : call[k] = "waiting" =>
               /\ k.kind # "handshake"
               /\ k.kind = "finished" => Live(k.end))
=============================================================================
