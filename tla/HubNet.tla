------------------------------- MODULE HubNet -------------------------------
(***************************************************************************)
(* The network side of one repository: the hub's dialers, listeners and    *)
(* connections and its run state (samod-core actors/hub/state.rs,          *)
(* dialer.rs, listener.rs), together with the IO loop of samod that calls  *)
(* it (samod/src/io_loop.rs, and dial, accept, close and stop in lib.rs).  *)
(*                                                                         *)
(* An action is one hub event handled under the `inner` lock, with         *)
(* everything handle_event does after its match (closed connections are    *)
(* torn down, a stopping hub with no actors becomes Stopped), or one step  *)
(* of an IO future that does not hold that lock.                           *)
(*                                                                         *)
(* Abstracted: the clock (a backoff has expired at a tick, or has not),    *)
(* the content of messages, the documents behind the actors, and           *)
(* NeedTransport and Closed, which no event ends in.                       *)
(***************************************************************************)
EXTENDS Naturals

CONSTANTS DialerId, ListenerId, ConnId, Actor,
          MaxRetries,   \* BackoffConfig::max_retries: a number, or
          NoLimit,      \* None: retry forever
          NoConn, NoOwner, NoDialer

ASSUME HubNetAssumption ==
    /\ MaxRetries \in Nat \cup {NoLimit}
    /\ NoLimit \notin Nat
    /\ NoConn \notin ConnId
    /\ NoOwner \notin DialerId \cup ListenerId
    /\ NoDialer \notin DialerId
    /\ DialerId \cap ListenerId = {}

VARIABLES
  runState,     \* the hub's RunState
  actors,       \* document actors in State::actors
  terminating,  \* actors that were sent Terminate and have not answered
  spawned,      \* every actor there has been: actor ids are fresh
  \* ---- dialers: DialerState
  status,       \* DialerStatus, "Unused" before add_dialer, "Removed" after
  active,       \* the connection of a Connected dialer, or NoConn
  attempts,     \* DialerState::attempts
  \* ---- listeners: ListenerState
  lstatus,      \* "Unused", "Registered", "Removed"
  lconns,       \* ListenerState::active_connections
  \* ---- State::connections
  phase,        \* "Unused", "Handshaking", "Established", "Removed"
  owner,        \* ConnectionOwner
  \* ---- samod: Repo and its IO loop
  registered,   \* keys of Inner::dialers
  registering,  \* the dialer whose dial() call holds `inner`, or NoDialer
  queued,       \* EstablishTransport tasks in the IO loop's channel
  notFound,     \* tasks that found no dialer and will report a failed dial
  connecting,   \* calls of Dialer::connect in progress
  driving,      \* connections with a running drive_connection
  \* ---- history
  redials       \* dial requests by tick since add_dialer or the last handshake

hubVars == <<runState, actors, terminating, spawned>>
dialerVars == <<status, active, attempts>>
listenerVars == <<lstatus, lconns>>
connVars == <<phase, owner>>
ioVars == <<registered, registering, queued, notFound, connecting, driving>>
vars == <<hubVars, dialerVars, listenerVars, connVars, ioVars, redials>>

Present == {"TransportPending", "Connected", "WaitingToRetry", "Failed"}
Owner == DialerId \cup ListenerId
Live(c) == phase[c] \in {"Handshaking", "Established"}

(* The shape of the hub's tables and of the IO loop's work in progress.    *)
TypeOK ==
    /\ runState \in {"Running", "Stopping", "Stopped"}
    /\ actors \subseteq Actor /\ terminating \subseteq Actor /\ spawned \subseteq Actor
    /\ status \in [DialerId -> Present \cup {"Unused", "Removed"}]
    /\ active \in [DialerId -> ConnId \cup {NoConn}]
    /\ attempts \in [DialerId -> Nat]
    /\ lstatus \in [ListenerId -> {"Unused", "Registered", "Removed"}]
    /\ lconns \in [ListenerId -> SUBSET ConnId]
    /\ phase \in [ConnId -> {"Unused", "Handshaking", "Established", "Removed"}]
    /\ owner \in [ConnId -> Owner \cup {NoOwner}]
    /\ registered \subseteq DialerId
    /\ registering \in DialerId \cup {NoDialer}
    /\ queued \in [DialerId -> Nat]
    /\ notFound \in [DialerId -> Nat]
    /\ connecting \in [DialerId -> Nat]
    /\ driving \subseteq ConnId
    /\ redials \in [DialerId -> Nat]

Init ==
    /\ runState = "Running"
    /\ actors = {} /\ terminating = {} /\ spawned = {}
    /\ status = [d \in DialerId |-> "Unused"]
    /\ active = [d \in DialerId |-> NoConn]
    /\ attempts = [d \in DialerId |-> 0]
    /\ lstatus = [l \in ListenerId |-> "Unused"]
    /\ lconns = [l \in ListenerId |-> {}]
    /\ phase = [c \in ConnId |-> "Unused"]
    /\ owner = [c \in ConnId |-> NoOwner]
    /\ registered = {} /\ registering = NoDialer
    /\ queued = [d \in DialerId |-> 0]
    /\ notFound = [d \in DialerId |-> 0]
    /\ connecting = [d \in DialerId |-> 0]
    /\ driving = {}
    /\ redials = [d \in DialerId |-> 0]

----------------------------------------------------------------------------
(* A hub event needs the `inner` lock; a stopped hub ignores every event.  *)
LockFree == registering = NoDialer
HubTakes == LockFree /\ runState # "Stopped"

GivesUpEarly(n) == MaxRetries # NoLimit /\ n >= MaxRetries   \* mutant: off by one
OverBudget(n) == MaxRetries # NoLimit /\ n > MaxRetries

\* mutant: the failed dialer keeps its status
StatusKept(d) ==
    /\ attempts' = [attempts EXCEPT ![d] = @ + 1]
    /\ UNCHANGED status

(* DialerState::handle_connection_lost and handle_dial_failed, past their  *)
(* guards: count the attempt, then give up or wait for the backoff.        *)
Charge(d) ==
    /\ attempts' = [attempts EXCEPT ![d] = @ + 1]
    /\ status' = [status EXCEPT
         ![d] = IF OverBudget(attempts[d] + 1) THEN "Failed" ELSE "WaitingToRetry"]

\* mutant: the owner is not told that its connection is gone
LoseConnectionSilently(c) ==
    /\ phase' = [phase EXCEPT ![c] = "Removed"]
    /\ UNCHANGED <<owner, dialerVars, listenerVars>>

(* remove_connection and the owner's bookkeeping in handle_connection_lost: *)
(* only a dialer whose active connection this is starts its backoff.       *)
LoseConnection(c) ==
    /\ phase' = [phase EXCEPT ![c] = "Removed"]
    /\ UNCHANGED owner
    /\ \/ /\ owner[c] \in DialerId
          /\ status[owner[c]] = "Connected" /\ active[owner[c]] = c
          /\ Charge(owner[c])
          /\ active' = [active EXCEPT ![owner[c]] = NoConn]
          /\ UNCHANGED listenerVars
       \/ /\ owner[c] \in DialerId
          /\ ~(status[owner[c]] = "Connected" /\ active[owner[c]] = c)
          /\ UNCHANGED <<dialerVars, listenerVars>>
       \/ /\ owner[c] \in ListenerId
          /\ lconns' = [lconns EXCEPT ![owner[c]] =
                          IF lstatus[owner[c]] = "Registered" THEN @ \ {c} ELSE @]
          /\ UNCHANGED <<dialerVars, lstatus>>

----------------------------------------------------------------------------
(* Dialers.                                                                *)

(* Repo::dial up to the hub event: the dialer is known to the hub, its     *)
(* first dial request is in the IO loop's channel, and `inner` is held.    *)
AddDialer(d) ==
    /\ HubTakes
    /\ status[d] = "Unused"
    /\ status' = [status EXCEPT ![d] = "TransportPending"]
    /\ queued' = [queued EXCEPT ![d] = @ + 1]
    /\ registering' = d
    /\ UNCHANGED <<hubVars, active, attempts, listenerVars, connVars, registered,
                   notFound, connecting, driving, redials>>

(* ... and the rest of it: the dialer enters Inner::dialers, `inner` is    *)
(* released.  The IO loop may look the dialer up before that.              *)
RegisterDialer ==
    /\ registering # NoDialer
    /\ registered' = registered \cup {registering}
    /\ registering' = NoDialer
    /\ UNCHANGED <<hubVars, dialerVars, listenerVars, connVars, queued, notFound,
                   connecting, driving, redials>>

(* The IO loop takes an EstablishTransport task.  It holds the lock of     *)
(* Inner::dialers only, so it needs no LockFree.                           *)
EstablishTransport(d) ==
    /\ queued[d] > 0
    /\ queued' = [queued EXCEPT ![d] = @ - 1]
    /\ \/ /\ d \in registered
          /\ connecting' = [connecting EXCEPT ![d] = @ + 1]
          /\ UNCHANGED notFound
       \/ /\ d \notin registered
          /\ notFound' = [notFound EXCEPT ![d] = @ + 1]
          /\ UNCHANGED connecting
    /\ UNCHANGED <<hubVars, dialerVars, listenerVars, connVars, registered, registering,
                   driving, redials>>

(* Dialer::connect succeeded: handle_create_dialer_connection makes the    *)
(* connection whether or not the dialer is still there, and set_connected  *)
(* associates it only with a dialer that is waiting for a transport.       *)
TransportUp(d, c) ==
    /\ LockFree
    /\ connecting[d] > 0
    /\ connecting' = [connecting EXCEPT ![d] = @ - 1]
    /\ \/ /\ runState # "Stopped"
          /\ phase[c] = "Unused"
          /\ phase' = [phase EXCEPT ![c] = "Handshaking"]
          /\ owner' = [owner EXCEPT ![c] = d]
          /\ driving' = driving \cup {c}
          /\ IF status[d] = "TransportPending"
               THEN /\ status' = [status EXCEPT ![d] = "Connected"]
                    /\ active' = [active EXCEPT ![d] = c]
               ELSE UNCHANGED <<status, active>>
       \/ /\ runState = "Stopped"
          /\ UNCHANGED <<status, active, connVars, driving>>
    /\ UNCHANGED <<hubVars, attempts, listenerVars, registered, registering, queued,
                   notFound, redials>>

(* Dialer::connect failed, for good or not, or no dialer was found:        *)
(* handle_dial_failed, which touches a TransportPending dialer only.       *)
DialFailed(d, permanent) ==
    /\ LockFree
    /\ \/ /\ connecting[d] > 0
          /\ connecting' = [connecting EXCEPT ![d] = @ - 1]
          /\ UNCHANGED notFound
       \/ /\ notFound[d] > 0 /\ ~permanent
          /\ notFound' = [notFound EXCEPT ![d] = @ - 1]
          /\ UNCHANGED connecting
    /\ IF runState = "Stopped" \/ status[d] # "TransportPending"
         THEN UNCHANGED <<status, attempts>>
         ELSE IF permanent
                THEN status' = [status EXCEPT ![d] = "Failed"] /\ UNCHANGED attempts
                ELSE Charge(d)
    /\ UNCHANGED <<hubVars, active, listenerVars, connVars, registered, registering,
                   queued, driving, redials>>

DueAgain(d) == status[d] \in {"WaitingToRetry", "TransportPending"}   \* mutant
Due(d) == status[d] = "WaitingToRetry"

(* A tick at which the backoff of the dialers in S has expired.            *)
Tick(S) ==
    /\ HubTakes
    /\ \A d \in S : Due(d)
    /\ status' = [d \in DialerId |-> IF d \in S THEN "TransportPending" ELSE status[d]]
    /\ queued' = [d \in DialerId |-> IF d \in S THEN queued[d] + 1 ELSE queued[d]]
    /\ redials' = [d \in DialerId |-> IF d \in S THEN redials[d] + 1 ELSE redials[d]]
    /\ UNCHANGED <<hubVars, active, attempts, listenerVars, connVars, registered,
                   registering, notFound, connecting, driving>>

(* DialerHandle::close, remove_dialer_by_id: Inner::dialers forgets the    *)
(* dialer even when the hub is stopped; handle_remove_dialer closes its    *)
(* active connection, and nothing stops a dial in progress.                *)
RemoveDialer(d) ==
    /\ LockFree
    /\ status[d] \in Present \/ d \in registered
    /\ registered' = registered \ {d}
    /\ IF runState # "Stopped" /\ status[d] \in Present
         THEN /\ status' = [status EXCEPT ![d] = "Removed"]
              /\ active' = [active EXCEPT ![d] = NoConn]
              /\ phase' = [c \in ConnId |->
                             IF status[d] = "Connected" /\ c = active[d] THEN "Removed" ELSE phase[c]]
         ELSE UNCHANGED <<status, active, phase>>
    /\ UNCHANGED <<hubVars, attempts, listenerVars, owner, registering, queued, notFound,
                   connecting, driving, redials>>

----------------------------------------------------------------------------
(* Listeners.                                                              *)

(* Repo::make_acceptor for a URL that has no acceptor yet.                 *)
AddListener(l) ==
    /\ HubTakes
    /\ lstatus[l] = "Unused"
    /\ lstatus' = [lstatus EXCEPT ![l] = "Registered"]
    /\ UNCHANGED <<hubVars, dialerVars, lconns, connVars, ioVars, redials>>

(* AcceptorHandle::accept: as for dialers, the connection is made whether  *)
(* or not the listener is still registered.                                *)
Accept(l, c) ==
    /\ HubTakes
    /\ lstatus[l] # "Unused" /\ phase[c] = "Unused"
    /\ phase' = [phase EXCEPT ![c] = "Handshaking"]
    /\ owner' = [owner EXCEPT ![c] = l]
    /\ lconns' = [lconns EXCEPT ![l] = IF lstatus[l] = "Registered" THEN @ \cup {c} ELSE @]
    /\ driving' = driving \cup {c}
    /\ UNCHANGED <<hubVars, dialerVars, lstatus, registered, registering, queued,
                   notFound, connecting, redials>>

(* AcceptorHandle::close: handle_remove_listener.                          *)
RemoveListener(l) ==
    /\ HubTakes
    /\ lstatus[l] = "Registered"
    /\ lstatus' = [lstatus EXCEPT ![l] = "Removed"]
    /\ lconns' = [lconns EXCEPT ![l] = {}]
    /\ phase' = [c \in ConnId |-> IF c \in lconns[l] THEN "Removed" ELSE phase[c]]
    /\ UNCHANGED <<hubVars, dialerVars, owner, ioVars, redials>>

----------------------------------------------------------------------------
(* Connections: drive_connection and the messages it delivers.             *)

(* The message that completes the handshake; commands need a Running hub.  *)
Handshake(c) ==
    /\ HubTakes /\ runState = "Running"
    /\ c \in driving /\ phase[c] = "Handshaking"
    /\ phase' = [phase EXCEPT ![c] = "Established"]
    /\ IF owner[c] \in DialerId /\ status[owner[c]] \in Present
         THEN /\ attempts' = [attempts EXCEPT ![owner[c]] = 0]
              /\ redials' = [redials EXCEPT ![owner[c]] = 0]
         ELSE UNCHANGED <<attempts, redials>>
    /\ UNCHANGED <<hubVars, status, active, listenerVars, owner, ioVars>>

(* A message that does not decode, a protocol error, or an identity that   *)
(* is refused: the connection closes and this event tears it down.         *)
ProtocolError(c) ==
    /\ HubTakes /\ runState = "Running"
    /\ c \in driving /\ Live(c)
    /\ LoseConnection(c)
    /\ UNCHANGED <<hubVars, ioVars, redials>>

(* An actor asks for the disconnection of a peer (DocToHubMsg Disconnect). *)
ActorDisconnects(c) ==
    /\ HubTakes
    /\ actors # {} /\ phase[c] = "Established"
    /\ LoseConnection(c)
    /\ UNCHANGED <<hubVars, ioVars, redials>>

(* drive_connection sees its stream end, or fail, or the sink fail, and    *)
(* reports connection_lost: the hub may have removed the connection since. *)
StreamEnds(c) ==
    /\ LockFree
    /\ c \in driving
    /\ driving' = driving \ {c}
    /\ IF runState # "Stopped" /\ Live(c)
         THEN LoseConnection(c)
         ELSE UNCHANGED <<dialerVars, listenerVars, connVars>>
    /\ UNCHANGED <<hubVars, registered, registering, queued, notFound, connecting,
                   redials>>

(* drive_connection sees its outgoing channel closed by the hub.           *)
WeDisconnected(c) ==
    /\ c \in driving /\ phase[c] = "Removed"
    /\ driving' = driving \ {c}
    /\ UNCHANGED <<hubVars, dialerVars, listenerVars, connVars, registered, registering,
                   queued, notFound, connecting, redials>>

----------------------------------------------------------------------------
(* Actors and shutdown.                                                    *)

(* Any command that spawns a document actor.                               *)
SpawnActor(a) ==
    /\ HubTakes /\ runState = "Running"
    /\ a \notin spawned
    /\ actors' = actors \cup {a}
    /\ spawned' = spawned \cup {a}
    /\ UNCHANGED <<runState, terminating, dialerVars, listenerVars, connVars, ioVars, redials>>

NobodyAsked == {}   \* mutant: the actors are not told to terminate
AskedToTerminate == actors

(* HubInput::Stop: Terminate to every actor, then close_all_network_state. *)
Stop ==
    /\ HubTakes /\ runState = "Running"
    /\ runState' = IF actors = {} THEN "Stopped" ELSE "Stopping"
    /\ terminating' = AskedToTerminate
    /\ phase' = [c \in ConnId |-> IF Live(c) THEN "Removed" ELSE phase[c]]
    /\ status' = [d \in DialerId |-> IF status[d] \in Present THEN "Removed" ELSE status[d]]
    /\ active' = [d \in DialerId |-> NoConn]
    /\ lstatus' = [l \in ListenerId |->
                     IF lstatus[l] = "Registered" THEN "Removed" ELSE lstatus[l]]
    /\ lconns' = [l \in ListenerId |-> {}]
    /\ UNCHANGED <<actors, spawned, attempts, owner, ioVars, redials>>

(* A Terminated message of an actor; the last one stops the hub.           *)
ActorTerminated(a) ==
    /\ HubTakes
    /\ a \in terminating
    /\ actors' = actors \ {a}
    /\ terminating' = terminating \ {a}
    /\ runState' = IF runState = "Stopping" /\ actors' = {} THEN "Stopped" ELSE runState
    /\ UNCHANGED <<spawned, dialerVars, listenerVars, connVars, ioVars, redials>>

DialOutcome(d) ==
    \/ \E c \in ConnId : TransportUp(d, c)
    \/ \E permanent \in BOOLEAN : DialFailed(d, permanent)

Next ==
    \/ RegisterDialer \/ Stop
    \/ \E S \in SUBSET DialerId : S # {} /\ Tick(S)
    \/ \E d \in DialerId :
         AddDialer(d) \/ EstablishTransport(d) \/ DialOutcome(d) \/ RemoveDialer(d)
    \/ \E l \in ListenerId :
         AddListener(l) \/ RemoveListener(l) \/ \E c \in ConnId : Accept(l, c)
    \/ \E c \in ConnId :
         \/ Handshake(c) \/ ProtocolError(c) \/ ActorDisconnects(c)
         \/ StreamEnds(c) \/ WeDisconnected(c)
    \/ \E a \in Actor : SpawnActor(a) \/ ActorTerminated(a)

Spec == Init /\ [][Next]_vars

(* dial() runs to its end; the IO loop takes its tasks and a connect()     *)
(* answers; the tick task fires for ever and a backoff is finite; an actor *)
(* that was told to terminate answers once its storage tasks are done.     *)
Fairness ==
    /\ WF_vars(RegisterDialer)
    /\ \A d \in DialerId :
         /\ WF_vars(EstablishTransport(d))
         /\ WF_vars(DialOutcome(d))
         /\ WF_vars(\E S \in SUBSET DialerId : d \in S /\ Tick(S))
    /\ \A a \in Actor : WF_vars(ActorTerminated(a))

FairSpec == Spec /\ Fairness

----------------------------------------------------------------------------
Dials(d) == queued[d] + notFound[d] + connecting[d]

(* "At most one active connection at a time" (dialer.rs:9), in place or in *)
(* the making: no two live connections belong to one dialer, and no dial   *)
(* is in progress beside another dial or beside a live connection.  This   *)
(* holds for dialers that are registered, not yet registered or removed,   *)
(* and when the hub stops: a transport that comes up too late leaves one   *)
(* connection behind, and nothing that would become another                *)
(* (hub/state.rs:1073-1078).                                               *)
OneConnectionPerDialer ==
    /\ \A c, e \in ConnId :
         Live(c) /\ Live(e) /\ owner[c] \in DialerId /\ owner[c] = owner[e] => c = e
    /\ \A d \in DialerId :
         Dials(d) > 0 => Dials(d) = 1 /\ \A c \in ConnId : Live(c) => owner[c] # d

(* A dialer's status agrees with the table of connections: it is Connected *)
(* exactly when a live connection belongs to it, and then to that one.  A  *)
(* dialer stuck in Connected after its connection went would never dial.   *)
ConnectedIsLive ==
    \A d \in DialerId :
        /\ status[d] = "Connected" =>
             active[d] \in ConnId /\ Live(active[d]) /\ owner[active[d]] = d
        /\ status[d] \in Present =>
             \A c \in ConnId : Live(c) /\ owner[c] = d => status[d] = "Connected" /\ active[d] = c

(* A dialer waits for a transport exactly while one dial of it is on its   *)
(* way through the IO loop: neither forgotten nor dialled twice.  (A       *)
(* stopped hub no longer follows the dials.)                               *)
PendingIsDialling ==
    \A d \in DialerId :
        /\ status[d] \in Present /\ runState # "Stopped" =>
             (status[d] = "TransportPending" <=> Dials(d) = 1)
        /\ Dials(d) <= 1

(* A registered listener's active set is the set of its live connections,  *)
(* so closing it closes them all (acceptor_handle.rs:112-113).             *)
ListenerTracksConnections ==
    \A l \in ListenerId :
        lstatus[l] = "Registered" =>
            \A c \in ConnId : c \in lconns[l] <=> Live(c) /\ owner[c] = l

(* max_retries is "the maximum number of reconnection attempts before      *)
(* giving up" (connector_config.rs:44): never more than that since the     *)
(* dialer was added or last shook hands, and never fewer when it failed    *)
(* after a loss that no redial followed.                                   *)
RetryBudget ==
    \A d \in DialerId :
        MaxRetries # NoLimit =>
            /\ redials[d] <= MaxRetries
            /\ status[d] = "Failed" /\ attempts[d] > redials[d] => redials[d] = MaxRetries

(* A hub that was asked to stop does stop (state.rs:591-598).              *)
StopCompletes == runState = "Stopping" ~> runState = "Stopped"

(* A dialer never rests without a connection: it gets one, fails for good  *)
(* or is removed.  (A stopped hub answers no dial.)                        *)
DialerSettles ==
    \A d \in DialerId :
        status[d] \in {"TransportPending", "WaitingToRetry"} ~>
            \/ status[d] \in {"Connected", "Failed", "Removed"}
            \/ runState = "Stopped"
=============================================================================
