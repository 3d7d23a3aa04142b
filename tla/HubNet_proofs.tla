---------------------------- MODULE HubNet_proofs ----------------------------
(***************************************************************************)
(* HubNet for any sets of dialers, listeners, connections and actors and   *)
(* any retry limit: its types, and the agreement of the dialer, listener   *)
(* and connection tables with each other and with the dials in the IO      *)
(* loop.                                                                   *)
(***************************************************************************)
EXTENDS HubNet, TLAPS

(* Why the properties are not inductive by themselves: a connection is     *)
(* made for whatever dialer or listener the IO loop names, so its owner    *)
(* must be known to have existed (Ownership), and a dial that completes    *)
(* after its dialer was removed must be the only thing left of it          *)
(* (DialToken).                                                            *)
Ownership ==
    /\ \A c \in ConnId :
         /\ phase[c] = "Unused" <=> owner[c] = NoOwner
         /\ owner[c] \in DialerId => status[owner[c]] # "Unused"
         /\ owner[c] \in ListenerId => lstatus[owner[c]] # "Unused"
    /\ \A l \in ListenerId : lstatus[l] # "Registered" => lconns[l] = {}

DialToken ==
    \A d \in DialerId :
        /\ Dials(d) <= 1
        /\ status[d] = "Unused" => Dials(d) = 0
        /\ Dials(d) = 1 => \A c \in ConnId : ~(Live(c) /\ owner[c] = d)

OneLive ==
    \A c, e \in ConnId :
        Live(c) /\ Live(e) /\ owner[c] \in DialerId /\ owner[c] = owner[e] => c = e

IInv ==
    /\ TypeOK
    /\ Ownership
    /\ DialToken
    /\ OneLive
    /\ ConnectedIsLive
    /\ PendingIsDialling
    /\ ListenerTracksConnections

----------------------------------------------------------------------------
(* A connect() in progress is the only thing its dialer has.               *)
LEMMA DialIsAlone ==
  ASSUME TypeOK, DialToken, NEW d \in DialerId
  PROVE  /\ Dials(d) \in {0, 1}
         /\ connecting[d] > 0 =>
              /\ queued[d] = 0 /\ notFound[d] = 0 /\ connecting[d] = 1
              /\ status[d] # "Unused"
              /\ \A c \in ConnId : ~(Live(c) /\ owner[c] = d)
<1>1. queued[d] \in Nat /\ notFound[d] \in Nat /\ connecting[d] \in Nat
  BY DEF TypeOK
<1>2. Dials(d) \in {0, 1}
  <2>1. Dials(d) <= 1
    BY DEF DialToken
  <2>2. QED
    BY <1>1, <2>1 DEF Dials
<1>3. ASSUME connecting[d] > 0
      PROVE  queued[d] = 0 /\ notFound[d] = 0 /\ connecting[d] = 1 /\ Dials(d) = 1
  BY <1>1, <1>2, <1>3 DEF Dials
<1>4. QED
  BY <1>2, <1>3 DEF DialToken

LEMMA TypePreserved == TypeOK /\ [Next]_vars => TypeOK'
<1> SUFFICES ASSUME TypeOK, [Next]_vars PROVE TypeOK'
  BY DEF IInv
<1> USE HubNetAssumption DEF HubNetAssumption, TypeOK, Present, Owner,
    hubVars, dialerVars, listenerVars, connVars, ioVars,
    Live, LockFree, HubTakes
<1>1. ASSUME NEW d \in DialerId, AddDialer(d) PROVE TypeOK'
  BY <1>1 DEF AddDialer
<1>2. ASSUME RegisterDialer PROVE TypeOK'
  BY <1>2 DEF RegisterDialer
<1>3. ASSUME NEW d \in DialerId, EstablishTransport(d) PROVE TypeOK'
  BY <1>3 DEF EstablishTransport
<1>4. ASSUME NEW d \in DialerId, NEW c \in ConnId, TransportUp(d, c) PROVE TypeOK'
  BY <1>4 DEF TransportUp
<1>5. ASSUME NEW d \in DialerId, NEW permanent \in BOOLEAN, DialFailed(d, permanent) PROVE TypeOK'
  BY <1>5 DEF DialFailed, Charge
<1>6. ASSUME NEW S \in SUBSET DialerId, Tick(S) PROVE TypeOK'
  BY <1>6 DEF Tick, Due
<1>7. ASSUME NEW d \in DialerId, RemoveDialer(d) PROVE TypeOK'
  BY <1>7 DEF RemoveDialer
<1>8. ASSUME NEW l \in ListenerId, AddListener(l) PROVE TypeOK'
  BY <1>8 DEF AddListener
<1>9. ASSUME NEW l \in ListenerId, NEW c \in ConnId, Accept(l, c) PROVE TypeOK'
  BY <1>9 DEF Accept
<1>10. ASSUME NEW l \in ListenerId, RemoveListener(l) PROVE TypeOK'
  BY <1>10 DEF RemoveListener
<1>11. ASSUME NEW c \in ConnId, Handshake(c) PROVE TypeOK'
  BY <1>11 DEF Handshake
<1>12. ASSUME NEW c \in ConnId, ProtocolError(c) PROVE TypeOK'
  BY <1>12 DEF ProtocolError, LoseConnection, Charge
<1>13. ASSUME NEW c \in ConnId, ActorDisconnects(c) PROVE TypeOK'
  BY <1>13 DEF ActorDisconnects, LoseConnection, Charge
<1>14. ASSUME NEW c \in ConnId, StreamEnds(c) PROVE TypeOK'
  BY <1>14 DEF StreamEnds, LoseConnection, Charge
<1>15. ASSUME NEW c \in ConnId, WeDisconnected(c) PROVE TypeOK'
  BY <1>15 DEF WeDisconnected
<1>16. ASSUME NEW a \in Actor, SpawnActor(a) PROVE TypeOK'
  BY <1>16 DEF SpawnActor
<1>17. ASSUME Stop PROVE TypeOK'
  BY <1>17 DEF Stop, AskedToTerminate
<1>18. ASSUME NEW a \in Actor, ActorTerminated(a) PROVE TypeOK'
  BY <1>18 DEF ActorTerminated
<1>19. CASE UNCHANGED vars
  BY <1>19 DEF vars
<1>20. QED
  BY <1>1, <1>2, <1>3, <1>4, <1>5, <1>6, <1>7, <1>8, <1>9,
     <1>10, <1>11, <1>12, <1>13, <1>14, <1>15, <1>16, <1>17, <1>18,
     <1>19
     DEF Next, DialOutcome

(* A connection is given an owner that exists when it is made.             *)
LEMMA OwnershipPreserved == IInv /\ [Next]_vars => Ownership'
<1> SUFFICES ASSUME TypeOK, Ownership, DialToken, ConnectedIsLive, ListenerTracksConnections, [Next]_vars PROVE Ownership'
  BY DEF IInv
<1> USE HubNetAssumption DEF HubNetAssumption, TypeOK, Present, Owner,
    hubVars, dialerVars, listenerVars, connVars, ioVars,
    Ownership, DialToken, ConnectedIsLive, ListenerTracksConnections,
    Live, LockFree, HubTakes
<1>1. ASSUME NEW d \in DialerId, AddDialer(d) PROVE Ownership'
  BY <1>1 DEF AddDialer
<1>2. ASSUME RegisterDialer PROVE Ownership'
  BY <1>2 DEF RegisterDialer
<1>3. ASSUME NEW d \in DialerId, EstablishTransport(d) PROVE Ownership'
  BY <1>3 DEF EstablishTransport
<1>4. ASSUME NEW d \in DialerId, NEW c \in ConnId, TransportUp(d, c) PROVE Ownership'
  BY <1>4, DialIsAlone DEF TransportUp
<1>5. ASSUME NEW d \in DialerId, NEW permanent \in BOOLEAN, DialFailed(d, permanent) PROVE Ownership'
  BY <1>5 DEF DialFailed, Charge
<1>6. ASSUME NEW S \in SUBSET DialerId, Tick(S) PROVE Ownership'
  BY <1>6 DEF Tick, Due
<1>7. ASSUME NEW d \in DialerId, RemoveDialer(d) PROVE Ownership'
  BY <1>7 DEF RemoveDialer
<1>8. ASSUME NEW l \in ListenerId, AddListener(l) PROVE Ownership'
  BY <1>8 DEF AddListener
<1>9. ASSUME NEW l \in ListenerId, NEW c \in ConnId, Accept(l, c) PROVE Ownership'
  BY <1>9 DEF Accept
<1>10. ASSUME NEW l \in ListenerId, RemoveListener(l) PROVE Ownership'
  BY <1>10 DEF RemoveListener
<1>11. ASSUME NEW c \in ConnId, Handshake(c) PROVE Ownership'
  BY <1>11 DEF Handshake
<1>12. ASSUME NEW c \in ConnId, ProtocolError(c) PROVE Ownership'
  BY <1>12 DEF ProtocolError, LoseConnection, Charge
<1>13. ASSUME NEW c \in ConnId, ActorDisconnects(c) PROVE Ownership'
  BY <1>13 DEF ActorDisconnects, LoseConnection, Charge
<1>14. ASSUME NEW c \in ConnId, StreamEnds(c) PROVE Ownership'
  BY <1>14 DEF StreamEnds, LoseConnection, Charge
<1>15. ASSUME NEW c \in ConnId, WeDisconnected(c) PROVE Ownership'
  BY <1>15 DEF WeDisconnected
<1>16. ASSUME NEW a \in Actor, SpawnActor(a) PROVE Ownership'
  BY <1>16 DEF SpawnActor
<1>17. ASSUME Stop PROVE Ownership'
  BY <1>17 DEF Stop, AskedToTerminate
<1>18. ASSUME NEW a \in Actor, ActorTerminated(a) PROVE Ownership'
  BY <1>18 DEF ActorTerminated
<1>19. CASE UNCHANGED vars
  BY <1>19 DEF vars
<1>20. QED
  BY <1>1, <1>2, <1>3, <1>4, <1>5, <1>6, <1>7, <1>8, <1>9,
     <1>10, <1>11, <1>12, <1>13, <1>14, <1>15, <1>16, <1>17, <1>18,
     <1>19
     DEF Next, DialOutcome

(* Dials(d) counts up only for a dialer that has neither dial nor          *)
(* connection, and a connection is made out of the dial.                   *)
LEMMA DialTokenPreserved == IInv /\ [Next]_vars => DialToken'
<1> SUFFICES ASSUME TypeOK, Ownership, DialToken, PendingIsDialling, ConnectedIsLive, [Next]_vars PROVE DialToken'
  BY DEF IInv
<1> USE HubNetAssumption DEF HubNetAssumption, TypeOK, Present, Owner,
    hubVars, dialerVars, listenerVars, connVars, ioVars,
    Dials, Ownership, DialToken, PendingIsDialling, ConnectedIsLive,
    Live, LockFree, HubTakes
<1>1. ASSUME NEW d \in DialerId, AddDialer(d) PROVE DialToken'
  BY <1>1 DEF AddDialer
<1>2. ASSUME RegisterDialer PROVE DialToken'
  BY <1>2 DEF RegisterDialer
<1>3. ASSUME NEW d \in DialerId, EstablishTransport(d) PROVE DialToken'
  BY <1>3 DEF EstablishTransport
<1>4. ASSUME NEW d \in DialerId, NEW c \in ConnId, TransportUp(d, c) PROVE DialToken'
  <2>1. connecting[d] = 1 /\ queued[d] = 0 /\ notFound[d] = 0 /\ status[d] # "Unused"
    BY <1>4, DialIsAlone DEF TransportUp
  <2>2. Dials(d)' = 0
    BY <1>4, <2>1 DEF TransportUp
  <2>3. ASSUME NEW e \in DialerId, e # d
        PROVE  Dials(e)' = Dials(e) /\ status'[e] = status[e]
    BY <1>4, <2>3 DEF TransportUp
  <2>4. ASSUME NEW e \in DialerId, e # d, NEW x \in ConnId, Live(x)', owner'[x] = e
        PROVE  Live(x) /\ owner[x] = e
    BY <1>4, <2>4 DEF TransportUp
  <2>5. status'[d] # "Unused"
    BY <1>4, <2>1 DEF TransportUp
  <2>6. QED
    BY <2>2, <2>3, <2>4, <2>5
<1>5. ASSUME NEW d \in DialerId, NEW permanent \in BOOLEAN, DialFailed(d, permanent) PROVE DialToken'
  BY <1>5 DEF DialFailed, Charge
<1>6. ASSUME NEW S \in SUBSET DialerId, Tick(S) PROVE DialToken'
  BY <1>6 DEF Tick, Due
<1>7. ASSUME NEW d \in DialerId, RemoveDialer(d) PROVE DialToken'
  BY <1>7 DEF RemoveDialer
<1>8. ASSUME NEW l \in ListenerId, AddListener(l) PROVE DialToken'
  BY <1>8 DEF AddListener
<1>9. ASSUME NEW l \in ListenerId, NEW c \in ConnId, Accept(l, c) PROVE DialToken'
  BY <1>9 DEF Accept
<1>10. ASSUME NEW l \in ListenerId, RemoveListener(l) PROVE DialToken'
  BY <1>10 DEF RemoveListener
<1>11. ASSUME NEW c \in ConnId, Handshake(c) PROVE DialToken'
  BY <1>11 DEF Handshake
<1>12. ASSUME NEW c \in ConnId, ProtocolError(c) PROVE DialToken'
  BY <1>12 DEF ProtocolError, LoseConnection, Charge
<1>13. ASSUME NEW c \in ConnId, ActorDisconnects(c) PROVE DialToken'
  BY <1>13 DEF ActorDisconnects, LoseConnection, Charge
<1>14. ASSUME NEW c \in ConnId, StreamEnds(c) PROVE DialToken'
  BY <1>14 DEF StreamEnds, LoseConnection, Charge
<1>15. ASSUME NEW c \in ConnId, WeDisconnected(c) PROVE DialToken'
  BY <1>15 DEF WeDisconnected
<1>16. ASSUME NEW a \in Actor, SpawnActor(a) PROVE DialToken'
  BY <1>16 DEF SpawnActor
<1>17. ASSUME Stop PROVE DialToken'
  BY <1>17 DEF Stop, AskedToTerminate
<1>18. ASSUME NEW a \in Actor, ActorTerminated(a) PROVE DialToken'
  BY <1>18 DEF ActorTerminated
<1>19. CASE UNCHANGED vars
  BY <1>19 DEF vars
<1>20. QED
  BY <1>1, <1>2, <1>3, <1>4, <1>5, <1>6, <1>7, <1>8, <1>9,
     <1>10, <1>11, <1>12, <1>13, <1>14, <1>15, <1>16, <1>17, <1>18,
     <1>19
     DEF Next, DialOutcome

(* A new connection takes the place of the only dial of its dialer.        *)
LEMMA OneLivePreserved == IInv /\ [Next]_vars => OneLive'
<1> SUFFICES ASSUME TypeOK, DialToken, OneLive, [Next]_vars PROVE OneLive'
  BY DEF IInv
<1> USE HubNetAssumption DEF HubNetAssumption, TypeOK, Present, Owner,
    hubVars, dialerVars, listenerVars, connVars, ioVars,
    Dials, DialToken, OneLive,
    Live, LockFree, HubTakes
<1>1. ASSUME NEW d \in DialerId, AddDialer(d) PROVE OneLive'
  BY <1>1 DEF AddDialer
<1>2. ASSUME RegisterDialer PROVE OneLive'
  BY <1>2 DEF RegisterDialer
<1>3. ASSUME NEW d \in DialerId, EstablishTransport(d) PROVE OneLive'
  BY <1>3 DEF EstablishTransport
<1>4. ASSUME NEW d \in DialerId, NEW c \in ConnId, TransportUp(d, c) PROVE OneLive'
  <2>1. CASE runState = "Stopped"
    BY <1>4, <2>1 DEF TransportUp
  <2>2. CASE runState # "Stopped"
    <3>1. \A e \in ConnId : ~(Live(e) /\ owner[e] = d)
      BY <1>4, DialIsAlone DEF TransportUp
    <3>2. \A e \in ConnId \ {c} : Live(e)' = Live(e) /\ owner'[e] = owner[e]
      BY <1>4, <2>2 DEF TransportUp
    <3>3. owner'[c] = d
      BY <1>4, <2>2 DEF TransportUp
    <3>4. QED
      BY <3>1, <3>2, <3>3
  <2>3. QED
    BY <2>1, <2>2
<1>5. ASSUME NEW d \in DialerId, NEW permanent \in BOOLEAN, DialFailed(d, permanent) PROVE OneLive'
  BY <1>5 DEF DialFailed, Charge
<1>6. ASSUME NEW S \in SUBSET DialerId, Tick(S) PROVE OneLive'
  BY <1>6 DEF Tick, Due
<1>7. ASSUME NEW d \in DialerId, RemoveDialer(d) PROVE OneLive'
  BY <1>7 DEF RemoveDialer
<1>8. ASSUME NEW l \in ListenerId, AddListener(l) PROVE OneLive'
  BY <1>8 DEF AddListener
<1>9. ASSUME NEW l \in ListenerId, NEW c \in ConnId, Accept(l, c) PROVE OneLive'
  BY <1>9 DEF Accept
<1>10. ASSUME NEW l \in ListenerId, RemoveListener(l) PROVE OneLive'
  BY <1>10 DEF RemoveListener
<1>11. ASSUME NEW c \in ConnId, Handshake(c) PROVE OneLive'
  BY <1>11 DEF Handshake
<1>12. ASSUME NEW c \in ConnId, ProtocolError(c) PROVE OneLive'
  BY <1>12 DEF ProtocolError, LoseConnection, Charge
<1>13. ASSUME NEW c \in ConnId, ActorDisconnects(c) PROVE OneLive'
  BY <1>13 DEF ActorDisconnects, LoseConnection, Charge
<1>14. ASSUME NEW c \in ConnId, StreamEnds(c) PROVE OneLive'
  BY <1>14 DEF StreamEnds, LoseConnection, Charge
<1>15. ASSUME NEW c \in ConnId, WeDisconnected(c) PROVE OneLive'
  BY <1>15 DEF WeDisconnected
<1>16. ASSUME NEW a \in Actor, SpawnActor(a) PROVE OneLive'
  BY <1>16 DEF SpawnActor
<1>17. ASSUME Stop PROVE OneLive'
  BY <1>17 DEF Stop, AskedToTerminate
<1>18. ASSUME NEW a \in Actor, ActorTerminated(a) PROVE OneLive'
  BY <1>18 DEF ActorTerminated
<1>19. CASE UNCHANGED vars
  BY <1>19 DEF vars
<1>20. QED
  BY <1>1, <1>2, <1>3, <1>4, <1>5, <1>6, <1>7, <1>8, <1>9,
     <1>10, <1>11, <1>12, <1>13, <1>14, <1>15, <1>16, <1>17, <1>18,
     <1>19
     DEF Next, DialOutcome

(* Every way a connection goes tells the dialer it belongs to.             *)
LEMMA ConnectedIsLivePreserved == IInv /\ [Next]_vars => ConnectedIsLive'
<1> SUFFICES ASSUME TypeOK, Ownership, DialToken, OneLive, ConnectedIsLive, PendingIsDialling, ListenerTracksConnections, [Next]_vars PROVE ConnectedIsLive'
  BY DEF IInv
<1> USE HubNetAssumption DEF HubNetAssumption, TypeOK, Present, Owner,
    hubVars, dialerVars, listenerVars, connVars, ioVars,
    Dials, Ownership, DialToken, OneLive, ConnectedIsLive,
    PendingIsDialling, ListenerTracksConnections,
    Live, LockFree, HubTakes
<1>1. ASSUME NEW d \in DialerId, AddDialer(d) PROVE ConnectedIsLive'
  BY <1>1 DEF AddDialer
<1>2. ASSUME RegisterDialer PROVE ConnectedIsLive'
  BY <1>2 DEF RegisterDialer
<1>3. ASSUME NEW d \in DialerId, EstablishTransport(d) PROVE ConnectedIsLive'
  BY <1>3 DEF EstablishTransport
<1>4. ASSUME NEW d \in DialerId, NEW c \in ConnId, TransportUp(d, c) PROVE ConnectedIsLive'
  <2>1. CASE runState = "Stopped"
    BY <1>4, <2>1 DEF TransportUp
  <2>2. CASE runState # "Stopped" /\ status[d] = "TransportPending"
    <3>1. \A e \in ConnId \ {c} : ~(Live(e)' /\ owner'[e] = d)
      BY <1>4, <2>2, DialIsAlone DEF TransportUp
    <3>2. \A e \in DialerId : e # d => status'[e] = status[e] /\ active'[e] = active[e]
      BY <1>4, <2>2 DEF TransportUp
    <3>3. status'[d] = "Connected" /\ active'[d] = c /\ owner'[c] = d /\ Live(c)'
      BY <1>4, <2>2 DEF TransportUp
    <3>4. ASSUME NEW e \in ConnId, e # c
          PROVE  phase'[e] = phase[e] /\ owner'[e] = owner[e]
      BY <1>4, <2>2, <3>4 DEF TransportUp
    <3>5. phase[c] = "Unused"
      BY <1>4, <2>2 DEF TransportUp
    <3>6. QED
      BY <3>1, <3>2, <3>3, <3>4, <3>5
  <2>3. CASE runState # "Stopped" /\ status[d] # "TransportPending"
    <3>1. status[d] \notin Present
      BY <1>4, <2>3, DialIsAlone DEF TransportUp
    <3>2. QED
      BY <1>4, <2>3, <3>1 DEF TransportUp
  <2>4. QED
    BY <2>1, <2>2, <2>3
<1>5. ASSUME NEW d \in DialerId, NEW permanent \in BOOLEAN, DialFailed(d, permanent) PROVE ConnectedIsLive'
  BY <1>5 DEF DialFailed, Charge
<1>6. ASSUME NEW S \in SUBSET DialerId, Tick(S) PROVE ConnectedIsLive'
  BY <1>6 DEF Tick, Due
<1>7. ASSUME NEW d \in DialerId, RemoveDialer(d) PROVE ConnectedIsLive'
  BY <1>7 DEF RemoveDialer
<1>8. ASSUME NEW l \in ListenerId, AddListener(l) PROVE ConnectedIsLive'
  BY <1>8 DEF AddListener
<1>9. ASSUME NEW l \in ListenerId, NEW c \in ConnId, Accept(l, c) PROVE ConnectedIsLive'
  BY <1>9 DEF Accept
<1>10. ASSUME NEW l \in ListenerId, RemoveListener(l) PROVE ConnectedIsLive'
  BY <1>10 DEF RemoveListener
<1>11. ASSUME NEW c \in ConnId, Handshake(c) PROVE ConnectedIsLive'
  BY <1>11 DEF Handshake
<1>12. ASSUME NEW c \in ConnId, ProtocolError(c) PROVE ConnectedIsLive'
  BY <1>12 DEF ProtocolError, LoseConnection, Charge
<1>13. ASSUME NEW c \in ConnId, ActorDisconnects(c) PROVE ConnectedIsLive'
  BY <1>13 DEF ActorDisconnects, LoseConnection, Charge
<1>14. ASSUME NEW c \in ConnId, StreamEnds(c) PROVE ConnectedIsLive'
  BY <1>14 DEF StreamEnds, LoseConnection, Charge
<1>15. ASSUME NEW c \in ConnId, WeDisconnected(c) PROVE ConnectedIsLive'
  BY <1>15 DEF WeDisconnected
<1>16. ASSUME NEW a \in Actor, SpawnActor(a) PROVE ConnectedIsLive'
  BY <1>16 DEF SpawnActor
<1>17. ASSUME Stop PROVE ConnectedIsLive'
  BY <1>17 DEF Stop, AskedToTerminate
<1>18. ASSUME NEW a \in Actor, ActorTerminated(a) PROVE ConnectedIsLive'
  BY <1>18 DEF ActorTerminated
<1>19. CASE UNCHANGED vars
  BY <1>19 DEF vars
<1>20. QED
  BY <1>1, <1>2, <1>3, <1>4, <1>5, <1>6, <1>7, <1>8, <1>9,
     <1>10, <1>11, <1>12, <1>13, <1>14, <1>15, <1>16, <1>17, <1>18,
     <1>19
     DEF Next, DialOutcome

(* Each event that makes a dialer wait for a transport starts one dial.    *)
LEMMA PendingIsDiallingPreserved == IInv /\ [Next]_vars => PendingIsDialling'
<1> SUFFICES ASSUME TypeOK, DialToken, PendingIsDialling, [Next]_vars PROVE PendingIsDialling'
  BY DEF IInv
<1> USE HubNetAssumption DEF HubNetAssumption, TypeOK, Present, Owner,
    hubVars, dialerVars, listenerVars, connVars, ioVars,
    Dials, DialToken, PendingIsDialling,
    Live, LockFree, HubTakes
<1>1. ASSUME NEW d \in DialerId, AddDialer(d) PROVE PendingIsDialling'
  BY <1>1 DEF AddDialer
<1>2. ASSUME RegisterDialer PROVE PendingIsDialling'
  BY <1>2 DEF RegisterDialer
<1>3. ASSUME NEW d \in DialerId, EstablishTransport(d) PROVE PendingIsDialling'
  BY <1>3 DEF EstablishTransport
<1>4. ASSUME NEW d \in DialerId, NEW c \in ConnId, TransportUp(d, c) PROVE PendingIsDialling'
  BY <1>4 DEF TransportUp
<1>5. ASSUME NEW d \in DialerId, NEW permanent \in BOOLEAN, DialFailed(d, permanent) PROVE PendingIsDialling'
  BY <1>5 DEF DialFailed, Charge
<1>6. ASSUME NEW S \in SUBSET DialerId, Tick(S) PROVE PendingIsDialling'
  <2>1. ASSUME NEW d \in DialerId
        PROVE  /\ Dials(d)' <= 1
               /\ status'[d] \in Present /\ runState' # "Stopped" =>
                    (status'[d] = "TransportPending" <=> Dials(d)' = 1)
    <3>1. CASE d \in S
      <4>1. runState # "Stopped" /\ status[d] = "WaitingToRetry"
        BY <1>6, <3>1 DEF Tick, Due
      <4>2. Dials(d) # 1
        BY <4>1
      <4>3. Dials(d) = 0
        BY <4>2, DialIsAlone
      <4>4. QED
        BY <1>6, <3>1, <4>3 DEF Tick, Due
    <3>2. CASE d \notin S
      BY <1>6, <3>2 DEF Tick, Due
    <3>3. QED
      BY <3>1, <3>2
  <2>2. QED
    BY <2>1
<1>7. ASSUME NEW d \in DialerId, RemoveDialer(d) PROVE PendingIsDialling'
  BY <1>7 DEF RemoveDialer
<1>8. ASSUME NEW l \in ListenerId, AddListener(l) PROVE PendingIsDialling'
  BY <1>8 DEF AddListener
<1>9. ASSUME NEW l \in ListenerId, NEW c \in ConnId, Accept(l, c) PROVE PendingIsDialling'
  BY <1>9 DEF Accept
<1>10. ASSUME NEW l \in ListenerId, RemoveListener(l) PROVE PendingIsDialling'
  BY <1>10 DEF RemoveListener
<1>11. ASSUME NEW c \in ConnId, Handshake(c) PROVE PendingIsDialling'
  BY <1>11 DEF Handshake
<1>12. ASSUME NEW c \in ConnId, ProtocolError(c) PROVE PendingIsDialling'
  BY <1>12 DEF ProtocolError, LoseConnection, Charge
<1>13. ASSUME NEW c \in ConnId, ActorDisconnects(c) PROVE PendingIsDialling'
  BY <1>13 DEF ActorDisconnects, LoseConnection, Charge
<1>14. ASSUME NEW c \in ConnId, StreamEnds(c) PROVE PendingIsDialling'
  BY <1>14 DEF StreamEnds, LoseConnection, Charge
<1>15. ASSUME NEW c \in ConnId, WeDisconnected(c) PROVE PendingIsDialling'
  BY <1>15 DEF WeDisconnected
<1>16. ASSUME NEW a \in Actor, SpawnActor(a) PROVE PendingIsDialling'
  BY <1>16 DEF SpawnActor
<1>17. ASSUME Stop PROVE PendingIsDialling'
  BY <1>17 DEF Stop, AskedToTerminate
<1>18. ASSUME NEW a \in Actor, ActorTerminated(a) PROVE PendingIsDialling'
  BY <1>18 DEF ActorTerminated
<1>19. CASE UNCHANGED vars
  BY <1>19 DEF vars
<1>20. QED
  BY <1>1, <1>2, <1>3, <1>4, <1>5, <1>6, <1>7, <1>8, <1>9,
     <1>10, <1>11, <1>12, <1>13, <1>14, <1>15, <1>16, <1>17, <1>18,
     <1>19
     DEF Next, DialOutcome

(* Every way a connection goes tells the listener it belongs to.           *)
LEMMA ListenerTracksConnectionsPreserved == IInv /\ [Next]_vars => ListenerTracksConnections'
<1> SUFFICES ASSUME TypeOK, Ownership, ConnectedIsLive, ListenerTracksConnections, [Next]_vars PROVE ListenerTracksConnections'
  BY DEF IInv
<1> USE HubNetAssumption DEF HubNetAssumption, TypeOK, Present, Owner,
    hubVars, dialerVars, listenerVars, connVars, ioVars,
    Ownership, ConnectedIsLive, ListenerTracksConnections,
    Live, LockFree, HubTakes
<1>1. ASSUME NEW d \in DialerId, AddDialer(d) PROVE ListenerTracksConnections'
  BY <1>1 DEF AddDialer
<1>2. ASSUME RegisterDialer PROVE ListenerTracksConnections'
  BY <1>2 DEF RegisterDialer
<1>3. ASSUME NEW d \in DialerId, EstablishTransport(d) PROVE ListenerTracksConnections'
  BY <1>3 DEF EstablishTransport
<1>4. ASSUME NEW d \in DialerId, NEW c \in ConnId, TransportUp(d, c) PROVE ListenerTracksConnections'
  BY <1>4 DEF TransportUp
<1>5. ASSUME NEW d \in DialerId, NEW permanent \in BOOLEAN, DialFailed(d, permanent) PROVE ListenerTracksConnections'
  BY <1>5 DEF DialFailed, Charge
<1>6. ASSUME NEW S \in SUBSET DialerId, Tick(S) PROVE ListenerTracksConnections'
  BY <1>6 DEF Tick, Due
<1>7. ASSUME NEW d \in DialerId, RemoveDialer(d) PROVE ListenerTracksConnections'
  BY <1>7 DEF RemoveDialer
<1>8. ASSUME NEW l \in ListenerId, AddListener(l) PROVE ListenerTracksConnections'
  BY <1>8 DEF AddListener
<1>9. ASSUME NEW l \in ListenerId, NEW c \in ConnId, Accept(l, c) PROVE ListenerTracksConnections'
  BY <1>9 DEF Accept
<1>10. ASSUME NEW l \in ListenerId, RemoveListener(l) PROVE ListenerTracksConnections'
  BY <1>10 DEF RemoveListener
<1>11. ASSUME NEW c \in ConnId, Handshake(c) PROVE ListenerTracksConnections'
  BY <1>11 DEF Handshake
<1>12. ASSUME NEW c \in ConnId, ProtocolError(c) PROVE ListenerTracksConnections'
  BY <1>12 DEF ProtocolError, LoseConnection, Charge
<1>13. ASSUME NEW c \in ConnId, ActorDisconnects(c) PROVE ListenerTracksConnections'
  BY <1>13 DEF ActorDisconnects, LoseConnection, Charge
<1>14. ASSUME NEW c \in ConnId, StreamEnds(c) PROVE ListenerTracksConnections'
  BY <1>14 DEF StreamEnds, LoseConnection, Charge
<1>15. ASSUME NEW c \in ConnId, WeDisconnected(c) PROVE ListenerTracksConnections'
  BY <1>15 DEF WeDisconnected
<1>16. ASSUME NEW a \in Actor, SpawnActor(a) PROVE ListenerTracksConnections'
  BY <1>16 DEF SpawnActor
<1>17. ASSUME Stop PROVE ListenerTracksConnections'
  BY <1>17 DEF Stop, AskedToTerminate
<1>18. ASSUME NEW a \in Actor, ActorTerminated(a) PROVE ListenerTracksConnections'
  BY <1>18 DEF ActorTerminated
<1>19. CASE UNCHANGED vars
  BY <1>19 DEF vars
<1>20. QED
  BY <1>1, <1>2, <1>3, <1>4, <1>5, <1>6, <1>7, <1>8, <1>9,
     <1>10, <1>11, <1>12, <1>13, <1>14, <1>15, <1>16, <1>17, <1>18,
     <1>19
     DEF Next, DialOutcome

(* Every attempt but the first is one that a tick started: a dialer that   *)
(* waits for its backoff, or has given up, has lost one more than it has   *)
(* started.                                                                *)
AttemptsCounted ==
    \A d \in DialerId :
        /\ MaxRetries # NoLimit => redials[d] <= MaxRetries
        /\ status[d] \in {"Unused", "TransportPending", "Connected"} => attempts[d] = redials[d]
        /\ status[d] = "WaitingToRetry" =>
             attempts[d] = redials[d] + 1 /\ ~OverBudget(attempts[d])
        /\ status[d] = "Failed" /\ attempts[d] # redials[d] =>
             attempts[d] = redials[d] + 1 /\ OverBudget(attempts[d])

LEMMA AttemptsCountedPreserved == IInv /\ AttemptsCounted /\ [Next]_vars => AttemptsCounted'
<1> SUFFICES ASSUME TypeOK, ConnectedIsLive, AttemptsCounted, [Next]_vars PROVE AttemptsCounted'
  BY DEF IInv
<1> USE HubNetAssumption DEF HubNetAssumption, TypeOK, Present, Owner, OverBudget,
    hubVars, dialerVars, listenerVars, connVars, ioVars, AttemptsCounted
<1>1. ASSUME UNCHANGED <<status, attempts, redials>> PROVE AttemptsCounted'
  BY <1>1
<1>2. ASSUME NEW d \in DialerId, status[d] \in {"TransportPending", "Connected"}, Charge(d),
             UNCHANGED redials
      PROVE  AttemptsCounted'
  BY <1>2 DEF Charge
<1>3. ASSUME NEW c \in ConnId, LoseConnection(c), UNCHANGED redials PROVE AttemptsCounted'
  <2>1. CASE UNCHANGED dialerVars
    BY <1>3, <2>1
  <2>2. CASE ~UNCHANGED dialerVars
    BY <1>2, <1>3, <2>2 DEF LoseConnection
  <2>3. QED
    BY <2>1, <2>2
<1>4. ASSUME NEW d \in DialerId, AddDialer(d) PROVE AttemptsCounted'
  BY <1>4 DEF AddDialer
<1>5. ASSUME NEW d \in DialerId, NEW c \in ConnId, TransportUp(d, c) PROVE AttemptsCounted'
  BY <1>5 DEF TransportUp
<1>6. ASSUME NEW d \in DialerId, NEW permanent \in BOOLEAN, DialFailed(d, permanent)
      PROVE  AttemptsCounted'
  <2>1. CASE UNCHANGED <<status, attempts>>
    BY <1>6, <2>1 DEF DialFailed
  <2>2. CASE status[d] = "TransportPending" /\ status' = [status EXCEPT ![d] = "Failed"]
             /\ UNCHANGED attempts
    BY <1>6, <2>2 DEF DialFailed
  <2>3. CASE status[d] = "TransportPending" /\ Charge(d)
    BY <1>2, <1>6, <2>3 DEF DialFailed
  <2>4. QED
    BY <1>6, <2>1, <2>2, <2>3 DEF DialFailed
<1>7. ASSUME NEW S \in SUBSET DialerId, Tick(S) PROVE AttemptsCounted'
  BY <1>7 DEF Tick, Due
<1>8. ASSUME NEW d \in DialerId, RemoveDialer(d) PROVE AttemptsCounted'
  BY <1>8 DEF RemoveDialer
<1>9. ASSUME NEW c \in ConnId, Handshake(c) PROVE AttemptsCounted'
  <2>1. CASE UNCHANGED <<attempts, redials>>
    BY <1>9, <2>1 DEF Handshake
  <2>2. CASE owner[c] \in DialerId /\ status[owner[c]] \in Present
    <3>1. status[owner[c]] = "Connected"
      BY <1>9, <2>2 DEF Handshake, ConnectedIsLive, Live
    <3>2. QED
      BY <1>9, <2>2, <3>1 DEF Handshake
  <2>3. QED
    BY <1>9, <2>1, <2>2 DEF Handshake
<1>10. ASSUME NEW c \in ConnId, ProtocolError(c) \/ ActorDisconnects(c) \/ StreamEnds(c)
       PROVE  AttemptsCounted'
  BY <1>1, <1>3, <1>10 DEF ProtocolError, ActorDisconnects, StreamEnds
<1>11. ASSUME Stop PROVE AttemptsCounted'
  BY <1>11 DEF Stop
<1>12. ASSUME \/ RegisterDialer \/ \E d \in DialerId : EstablishTransport(d)
              \/ \E l \in ListenerId :
                   AddListener(l) \/ RemoveListener(l) \/ \E c \in ConnId : Accept(l, c)
              \/ \E c \in ConnId : WeDisconnected(c)
              \/ \E a \in Actor : SpawnActor(a) \/ ActorTerminated(a)
       PROVE  AttemptsCounted'
  <2>1. UNCHANGED <<status, attempts, redials>>
    BY <1>12 DEF RegisterDialer, EstablishTransport, AddListener, RemoveListener, Accept,
                 WeDisconnected, SpawnActor, ActorTerminated
  <2>2. QED
    BY <1>1, <2>1
<1>13. CASE UNCHANGED vars
  BY <1>1, <1>13 DEF vars
<1>14. QED
  BY <1>4, <1>5, <1>6, <1>7, <1>8, <1>9, <1>10, <1>11, <1>12, <1>13 DEF Next, DialOutcome

----------------------------------------------------------------------------
LEMMA Initially == Init => IInv
<1> SUFFICES ASSUME Init PROVE IInv
  OBVIOUS
<1> USE HubNetAssumption DEF HubNetAssumption, Init, Owner, Present
<1>1. TypeOK
  BY DEF TypeOK
<1>2. Ownership /\ OneLive /\ ConnectedIsLive /\ ListenerTracksConnections
  BY DEF Ownership, OneLive, ConnectedIsLive, ListenerTracksConnections, Live
<1>3. DialToken /\ PendingIsDialling
  BY DEF DialToken, PendingIsDialling, Dials, Live
<1>4. QED
  BY <1>1, <1>2, <1>3 DEF IInv

LEMMA Invariance == Spec => []IInv
<1>1. IInv /\ [Next]_vars => IInv'
  BY TypePreserved, OwnershipPreserved, DialTokenPreserved, OneLivePreserved,
     ConnectedIsLivePreserved, PendingIsDiallingPreserved,
     ListenerTracksConnectionsPreserved DEF IInv
<1>2. QED
  BY Initially, <1>1, PTL DEF Spec

(* The shape of the hub's tables and of the IO loop's work in progress.    *)
THEOREM TypeCorrect == Spec => []TypeOK
BY Invariance, PTL DEF IInv

(* A dialer has at most one live connection, or dial (dialer.rs:9), although *)
(* handle_create_dialer_connection makes a connection for any dialer id,   *)
(* known or not, waiting for a transport or not.                           *)
THEOREM AtMostOneConnection == Spec => []OneConnectionPerDialer
<1>1. IInv => OneConnectionPerDialer
  <2> SUFFICES ASSUME TypeOK, DialToken, OneLive PROVE OneConnectionPerDialer
    BY DEF IInv
  <2>1. ASSUME NEW d \in DialerId, Dials(d) > 0
        PROVE  Dials(d) = 1 /\ \A c \in ConnId : Live(c) => owner[c] # d
    <3>1. Dials(d) = 1
      BY <2>1, DialIsAlone
    <3> QED BY <3>1 DEF DialToken
  <2> QED BY <2>1 DEF OneLive, OneConnectionPerDialer
<1> QED BY <1>1, Invariance, PTL

(* A dialer is Connected exactly while its connection lives.               *)
THEOREM ConnectedExactlyWhileLive == Spec => []ConnectedIsLive
BY Invariance, PTL DEF IInv

(* A dialer that waits for a transport has exactly one dial on its way.    *)
THEOREM PendingExactlyWhileDialling == Spec => []PendingIsDialling
BY Invariance, PTL DEF IInv

(* A listener's active set is exactly its live connections.                *)
THEOREM ListenerSetIsLive == Spec => []ListenerTracksConnections
BY Invariance, PTL DEF IInv

(* Whatever becomes of the dials and connections of a dialer, it redials   *)
(* max_retries times at most between handshakes, and gives up after a loss *)
(* only when it has (dialer.rs, connector_config.rs:44).                   *)
THEOREM BudgetIsKept == Spec => []RetryBudget
<1>1. Init => AttemptsCounted
  <2>1. MaxRetries # NoLimit => 0 <= MaxRetries
    BY HubNetAssumption DEF HubNetAssumption
  <2>2. ASSUME Init, NEW d \in DialerId
        PROVE  status[d] = "Unused" /\ attempts[d] = 0 /\ redials[d] = 0
    BY <2>2 DEF Init
  <2>3. QED
    BY <2>1, <2>2 DEF AttemptsCounted
<1>2. TypeOK /\ AttemptsCounted => RetryBudget
  BY HubNetAssumption DEF HubNetAssumption, TypeOK, AttemptsCounted, RetryBudget, OverBudget
<1>3. IInv => TypeOK
  BY DEF IInv
<1>4. QED
  BY Invariance, AttemptsCountedPreserved, <1>1, <1>2, <1>3, PTL DEF Spec
=============================================================================
