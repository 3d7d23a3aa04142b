------------------------- MODULE Connections_proofs -------------------------
(***************************************************************************)
(* Connections for any number of connections and of futures that wait for  *)
(* them: its types, that the handles agree with the hub, that no future    *)
(* misses what it waits for, and that ends which accept each other refuse  *)
(* nothing that the other says.                                            *)
(***************************************************************************)
EXTENDS Connections, SequenceTheorems, TLAPS

USE ConnectionsAssumption DEF ConnectionsAssumption

LEMMA Ends ==
  ASSUME NEW e \in End
  PROVE  /\ e[1] \in Side /\ e[2] \in Conn /\ e = <<e[1], e[2]>>
         /\ Other(e) \in End
BY DEF End, Side, Other

LEMMA Sides ==
  ASSUME NEW c \in Conn, NEW s \in Side
  PROVE  <<s, c>> \in End
BY DEF End

LEMMA Messages ==
  ASSUME NEW e \in End, NEW m \in Msg
  PROVE  /\ [kind |-> "error"] \in Msg
         /\ [kind |-> "sync", sender |-> e[1]] \in Msg
         /\ [kind |-> "join", sender |-> e[1]] \in Msg
         /\ m.kind \in {"join", "sync", "peer", "error"}
         /\ m.kind # "error" =>
              /\ m.sender \in Peer
              /\ [kind |-> "peer", sender |-> e[1], target |-> m.sender] \in Msg
              /\ TheirInfo(e, m) \in Info
<1>1. e[1] \in Peer
  BY Ends DEF Peer
<1>2. [kind |-> "error"] \in Msg
  BY DEF Msg
<1>3. [kind |-> "sync", sender |-> e[1]] \in Msg /\ [kind |-> "join", sender |-> e[1]] \in Msg
  BY <1>1 DEF Msg
<1>4. m.kind \in {"join", "sync", "peer", "error"} /\ (m.kind # "error" => m.sender \in Peer)
  BY DEF Msg
<1>5. \A p \in Peer : [kind |-> "peer", sender |-> e[1], target |-> p] \in Msg
  BY <1>1 DEF Msg
<1>6. m.kind # "error" => TheirInfo(e, m) \in Info
  BY <1>1, <1>4 DEF TheirInfo, Info
<1>7. QED
  BY <1>2, <1>3, <1>4, <1>5, <1>6

LEMMA CallFields ==
  ASSUME NEW k \in Calls
  PROVE  /\ k.kind \in {"handshake", "finished", "when", "established"}
         /\ k.kind \in {"handshake", "finished"} => k.end \in End
         /\ k.kind = "when" => k.side \in Side
BY DEF Call

(* A message is appended to a queue, or its first taken off.               *)
LEMMA Queues ==
  ASSUME NEW q \in [End -> Seq(Msg)], NEW e \in End
  PROVE  /\ \A m \in Msg : [q EXCEPT ![e] = Append(@, m)] \in [End -> Seq(Msg)]
         /\ q[e] # <<>> => /\ Head(q[e]) \in Msg
                           /\ [q EXCEPT ![e] = Tail(@)] \in [End -> Seq(Msg)]
<1>1. q[e] \in Seq(Msg)
  OBVIOUS
<1>2. \A m \in Msg : Append(q[e], m) \in Seq(Msg)
  BY <1>1, AppendProperties
<1>3. q[e] # <<>> => Head(q[e]) \in Msg /\ Tail(q[e]) \in Seq(Msg)
  BY <1>1, HeadTailProperties
<1>4. QED
  BY <1>2, <1>3

----------------------------------------------------------------------------
Phases == {"Unused", "WaitingForPeer", "WaitingForJoin", "Established", "Gone"}
Answers == {"idle", "waiting", "ok", "err"}

(* What the removal of connections does to the tables.                     *)
LEMMA RemoveType ==
  ASSUME TypeOK, NEW gone \in SUBSET End, NEW reg \in [Side -> BOOLEAN], Remove(gone, reg)
  PROVE  /\ phase' \in [End -> Phases] /\ open' \in [End -> BOOLEAN]
         /\ dialerConn' \subseteq Conn /\ active' \subseteq Conn
<1>1. phase' \in [End -> Phases] /\ open' \in [End -> BOOLEAN]
  BY DEF Remove, TypeOK, Phases
<1>2. dialerConn' \subseteq Conn
  BY DEF Remove, TypeOK
<1>3. active' \subseteq Conn
  BY DEF Remove, AcceptorKeeps, TypeOK
<1>4. QED
  BY <1>1, <1>2, <1>3

LEMMA AnswerType ==
  ASSUME TypeOK, NEW calls, NEW a \in Answers
  PROVE  Answer(calls, a) \in [Calls -> Answers]
BY DEF Answer, TypeOK, Answers

LEMMA CompleteType ==
  ASSUME TypeOK, NEW e \in End, NEW m \in Msg, m.kind # "error", Complete(e, m)
  PROVE  /\ phase' \in [End -> Phases] /\ outbox' \in [End -> Seq(Msg)]
         /\ info' \in [End -> Info \cup {NoPeer}] /\ call' \in [Calls -> Answers]
         /\ dialerConn' \subseteq Conn /\ active' \subseteq Conn
<1>1. phase' \in [End -> Phases]
  BY DEF Complete, TypeOK, Phases
<1>2. outbox' \in [End -> Seq(Msg)]
  BY Messages, Queues DEF Complete, TypeOK
<1>3. info' \in [End -> Info \cup {NoPeer}]
  BY Messages DEF Complete, TypeOK
<1>4. call' \in [Calls -> Answers]
  BY AnswerType DEF Complete, Answers
<1>5. dialerConn' \subseteq Conn /\ active' \subseteq Conn
  BY Ends DEF Complete, TypeOK
<1>6. QED
  BY <1>1, <1>2, <1>3, <1>4, <1>5

(* A message that is received is for a connection that is gone, is         *)
(* refused, completes the handshake, is an error, or says something.       *)
LEMMA Receipt ==
  ASSUME NEW e \in End, NEW m \in Msg, HandleReceive(e, m)
  PROVE  \/ UNCHANGED <<phase, outbox, open, info, dialerConn, active, call, rejected>>
         \/ Live(e) /\ Reject(e, m) /\ rejected' = rejected \cup {e} /\ UNCHANGED <<info, call>>
         \/ /\ Live(e) /\ m.kind # "error" /\ Complete(e, m) /\ UNCHANGED <<open, rejected>>
         \/ /\ Live(e) /\ Remove({e}, registered)
            /\ UNCHANGED <<outbox, info, call, rejected>>
<1>1. m.kind \in {"join", "sync", "peer", "error"}
  BY Messages
<1>2. QED
  BY <1>1 DEF HandleReceive

LEMMA ReceiveType ==
  ASSUME TypeOK, NEW e \in End, NEW m \in Msg, HandleReceive(e, m)
  PROVE  /\ phase' \in [End -> Phases] /\ outbox' \in [End -> Seq(Msg)]
         /\ open' \in [End -> BOOLEAN] /\ info' \in [End -> Info \cup {NoPeer}]
         /\ dialerConn' \subseteq Conn /\ active' \subseteq Conn
         /\ call' \in [Calls -> Answers] /\ rejected' \subseteq End
<1>0. {e} \in SUBSET End /\ registered \in [Side -> BOOLEAN]
  BY DEF TypeOK
<1>1. CASE UNCHANGED <<phase, outbox, open, info, dialerConn, active, call, rejected>>
  BY <1>1 DEF TypeOK, Phases, Answers
<1>2. CASE Reject(e, m) /\ rejected' = rejected \cup {e} /\ UNCHANGED <<info, call>>
  <2>1. outbox' \in [End -> Seq(Msg)]
    BY <1>2, Messages, Queues DEF Reject, TypeOK
  <2>2. Remove({e}, registered)
    BY <1>2 DEF Reject
  <2>3. QED
    BY <1>0, <1>2, <2>1, <2>2, RemoveType DEF TypeOK, Answers
<1>3. CASE m.kind # "error" /\ Complete(e, m) /\ UNCHANGED <<open, rejected>>
  BY <1>3, CompleteType DEF TypeOK
<1>4. CASE Remove({e}, registered) /\ UNCHANGED <<outbox, info, call, rejected>>
  BY <1>0, <1>4, RemoveType DEF TypeOK, Answers
<1>5. QED
  BY <1>1, <1>2, <1>3, <1>4, Receipt

LEMMA TypeStep == TypeOK /\ [Next]_vars => TypeOK'
<1> SUFFICES ASSUME TypeOK, [Next]_vars PROVE TypeOK'
  OBVIOUS
<1> USE DEF Phases, Answers
<1>1. ASSUME NEW c \in Conn, Dial(c) PROVE TypeOK'
  <2>1. <<"out", c>> \in End
    BY DEF End, Side
  <2>2. <<[kind |-> "join", sender |-> "out"]>> \in Seq(Msg)
    <3>1. [kind |-> "join", sender |-> "out"] \in Msg
      BY DEF Msg, Peer, Side
    <3>2. QED
      BY <3>1
  <2>3. QED
    BY <1>1, <2>1, <2>2 DEF Dial, TypeOK
<1>2. ASSUME NEW c \in Conn, Accept(c) PROVE TypeOK'
  BY <1>2 DEF Accept, TypeOK
<1>3. ASSUME NEW c \in Conn, Refuse(c) PROVE TypeOK'
  BY <1>3 DEF Refuse, TypeOK, handleVars
<1>4. ASSUME NEW e \in End, SendSync(e) PROVE TypeOK'
  <2>1. outbox' \in [End -> Seq(Msg)]
    <3>1. [kind |-> "sync", sender |-> e[1]] \in Msg
      BY Ends DEF Msg, Peer
    <3>2. QED
      BY <1>4, <3>1, Queues DEF SendSync, TypeOK
  <2>2. QED
    BY <1>4, <2>1 DEF SendSync, TypeOK, hubVars, handleVars
<1>5. ASSUME NEW e \in End, Disconnect(e) PROVE TypeOK'
  <2>1. Remove({e}, registered) /\ {e} \in SUBSET End /\ registered \in [Side -> BOOLEAN]
    BY <1>5 DEF Disconnect, TypeOK
  <2>2. /\ phase' \in [End -> Phases] /\ open' \in [End -> BOOLEAN]
        /\ dialerConn' \subseteq Conn /\ active' \subseteq Conn
    BY <2>1, RemoveType
  <2>3. QED
    BY <1>5, <2>2 DEF Disconnect, TypeOK
<1>6. ASSUME NEW s \in Side, CloseHandle(s) PROVE TypeOK'
  <2>1. registered' \in [Side -> BOOLEAN] /\ LiveOf(s) \in SUBSET End
    BY <1>6 DEF CloseHandle, TypeOK, LiveOf
  <2>2. UNCHANGED <<phase, open, dialerConn, active>> \/ Remove(LiveOf(s), registered')
    BY <1>6 DEF CloseHandle
  <2>3. /\ phase' \in [End -> Phases] /\ open' \in [End -> BOOLEAN]
        /\ dialerConn' \subseteq Conn /\ active' \subseteq Conn
    BY <2>1, <2>2, RemoveType DEF TypeOK
  <2>4. QED
    BY <1>6, <2>1, <2>3 DEF CloseHandle, TypeOK
<1>7. ASSUME NEW s \in Side, Stop(s) PROVE TypeOK'
  <2>1. Remove(LiveOf(s), registered) /\ LiveOf(s) \in SUBSET End
        /\ registered \in [Side -> BOOLEAN]
    BY <1>7 DEF Stop, TypeOK, LiveOf
  <2>2. /\ phase' \in [End -> Phases] /\ open' \in [End -> BOOLEAN]
        /\ dialerConn' \subseteq Conn /\ active' \subseteq Conn
    BY <2>1, RemoveType
  <2>3. QED
    BY <1>7, <2>2 DEF Stop, TypeOK
<1>8. ASSUME Fail PROVE TypeOK'
  BY <1>8, AnswerType DEF Fail, TypeOK, hubVars
<1>9. ASSUME NEW e \in End, LoopRead(e) PROVE TypeOK'
  <2> DEFINE m == Head(wire[Other(e)])
  <2>1. m \in Msg /\ wire' \in [End -> Seq(Msg)]
    BY <1>9, Ends, Queues DEF LoopRead, TypeOK
  <2>2. UNCHANGED <<phase, outbox, open, info, dialerConn, active, call, rejected>>
        \/ HandleReceive(e, m)
    BY <1>9 DEF LoopRead
  <2> HIDE DEF m
  <2>3. /\ phase' \in [End -> Phases] /\ outbox' \in [End -> Seq(Msg)]
        /\ open' \in [End -> BOOLEAN] /\ info' \in [End -> Info \cup {NoPeer}]
        /\ dialerConn' \subseteq Conn /\ active' \subseteq Conn
        /\ call' \in [Calls -> Answers] /\ rejected' \subseteq End
    <3>1. CASE UNCHANGED <<phase, outbox, open, info, dialerConn, active, call, rejected>>
      BY <3>1 DEF TypeOK
    <3>2. CASE HandleReceive(e, m)
      BY <3>2, <2>1, ReceiveType
    <3>3. QED
      BY <2>2, <3>1, <3>2
  <2>4. QED
    BY <1>9, <2>1, <2>3 DEF LoopRead, TypeOK
<1>10. ASSUME NEW e \in End, LoopEof(e) PROVE TypeOK'
  BY <1>10 DEF LoopEof, TypeOK, hubVars, handleVars
<1>11. ASSUME NEW e \in End, LoopWrite(e) PROVE TypeOK'
  <2> DEFINE m == Head(outbox[e])
  <2>1. m \in Msg /\ outbox' \in [End -> Seq(Msg)]
    BY <1>11, Queues DEF LoopWrite, TypeOK
  <2>2. \/ wire' = [wire EXCEPT ![e] = Append(@, m)] /\ loop' = loop
        \/ loop' = [loop EXCEPT ![e] = "broke"] /\ wire' = wire
    BY <1>11 DEF LoopWrite
  <2> HIDE DEF m
  <2>3. wire' \in [End -> Seq(Msg)]
    <3>1. wire \in [End -> Seq(Msg)]
      BY DEF TypeOK
    <3>2. [wire EXCEPT ![e] = Append(@, m)] \in [End -> Seq(Msg)]
      BY <3>1, <2>1, Queues
    <3>3. QED
      BY <3>1, <3>2, <2>2
  <2>4. loop' \in [End -> {"none", "running", "broke", "closing", "done", "refused"}]
    BY <2>2 DEF TypeOK
  <2>5. QED
    BY <1>11, <2>1, <2>3, <2>4 DEF LoopWrite, TypeOK, hubVars, handleVars
<1>12. ASSUME NEW e \in End, LoopClosed(e) PROVE TypeOK'
  BY <1>12 DEF LoopClosed, TypeOK, hubVars, handleVars
<1>13. ASSUME NEW e \in End, LoopLost(e) PROVE TypeOK'
  <2>1. UNCHANGED <<phase, open, dialerConn, active>> \/ Remove({e}, registered)
    BY <1>13 DEF LoopLost
  <2>2. {e} \in SUBSET End /\ registered \in [Side -> BOOLEAN]
    BY DEF TypeOK
  <2>3. /\ phase' \in [End -> Phases] /\ open' \in [End -> BOOLEAN]
        /\ dialerConn' \subseteq Conn /\ active' \subseteq Conn
    BY <2>1, <2>2, RemoveType DEF TypeOK
  <2>4. QED
    BY <1>13, <2>3 DEF LoopLost, TypeOK
<1>14. ASSUME NEW e \in End, LoopFinish(e) PROVE TypeOK'
  <2>1. call' \in [Calls -> Answers]
    BY <1>14 DEF LoopFinish, TypeOK
  <2>2. QED
    BY <1>14, <2>1 DEF LoopFinish, TypeOK, hubVars
<1>15. ASSUME NEW c \in Conn, Break(c) PROVE TypeOK'
  <2>1. wire' \in [End -> Seq(Msg)]
    BY <1>15 DEF Break, TypeOK
  <2>2. QED
    BY <1>15, <2>1 DEF Break, TypeOK, hubVars, handleVars
<1>16. ASSUME NEW k \in Calls, Await(k) PROVE TypeOK'
  <2>1. call' \in [Calls -> Answers]
    BY <1>16, CallFields DEF Await, TypeOK, Handshake, Finished, WhenConnected, Established
  <2>2. QED
    BY <1>16, <2>1 DEF Await, TypeOK, hubVars, handleVars
<1>17. CASE UNCHANGED vars
  BY <1>17 DEF vars, hubVars, handleVars, TypeOK
<1>18. QED
  BY <1>1, <1>2, <1>3, <1>4, <1>5, <1>6, <1>7, <1>8, <1>9, <1>10, <1>11, <1>12, <1>13,
     <1>14, <1>15, <1>16, <1>17 DEF Next, Works

(* The tables, queues and futures keep their shape.                        *)
THEOREM TypeCorrect == Spec => []TypeOK
<1>1. Init => TypeOK
  <2> SUFFICES ASSUME Init PROVE TypeOK
    OBVIOUS
  <2>1. /\ expect \in Expectations
        /\ stopped \in [Side -> BOOLEAN] /\ registered \in [Side -> BOOLEAN]
        /\ open \in [End -> BOOLEAN] /\ finished \in [End -> BOOLEAN] /\ up \in [Conn -> BOOLEAN]
    BY DEF Init
  <2>2. /\ outbox \in [End -> Seq(Msg)] /\ wire \in [End -> Seq(Msg)]
        /\ info \in [End -> Info \cup {NoPeer}]
    BY DEF Init
  <2>3. /\ phase \in [End -> {"Unused", "WaitingForPeer", "WaitingForJoin", "Established", "Gone"}]
        /\ loop \in [End -> {"none", "running", "broke", "closing", "done", "refused"}]
        /\ call \in [Calls -> {"idle", "waiting", "ok", "err"}]
    BY DEF Init
  <2>4. /\ dialerConn \subseteq Conn /\ failure \in BOOLEAN /\ active \subseteq Conn
        /\ ends \in Nat /\ rejected \subseteq End /\ sent \subseteq End
    BY DEF Init
  <2>5. QED
    BY <2>1, <2>2, <2>3, <2>4 DEF TypeOK
<1>2. QED
  BY <1>1, TypeStep, PTL DEF Spec

----------------------------------------------------------------------------
(* A dialer has one live connection, and the hub knows the peer of every   *)
(* connection that is established.                                         *)
OneDialled ==
    \A c, d \in Conn : Live(<<"out", c>>) /\ Live(<<"out", d>>) => c = d
KnowsPeer == \A e \in End : phase[e] = "Established" => info[e] # NoPeer

(* NoWaiterMissed, kind by kind.                                           *)
NoneEstablished(s) == \A e \in End : e[1] = s => phase[e] # "Established"
Waits(k, kind) == call[k] = "waiting" /\ k.kind = kind
WaitsRightly ==
    \A k \in Calls :
        /\ Waits(k, "handshake") => info[k.end] = NoPeer /\ ~finished[k.end]
        /\ Waits(k, "finished") => ~finished[k.end]
        /\ Waits(k, "when") => NoneEstablished(k.side)
        /\ Waits(k, "established") =>
             ~failure /\ (registered["out"] => NoneEstablished("out"))

IInv == OneDialled /\ KnowsPeer /\ HandlesAgree /\ WaitsRightly

(* The dialer's only connection, or some of the acceptor's, are removed.   *)
LEMMA RemoveKeeps ==
  ASSUME TypeOK, IInv, NEW gone \in SUBSET End, \A e \in gone : Live(e),
         registered' \in [Side -> BOOLEAN], \A s \in Side : registered'[s] => registered[s],
         Remove(gone, registered'), UNCHANGED <<info, finished, failure, call>>
  PROVE  IInv'
<1>1. \A e \in End : phase'[e] = IF e \in gone THEN "Gone" ELSE phase[e]
  BY DEF Remove, TypeOK
<1>2. \A e \in End : Live(e)' => Live(e)
  BY <1>1 DEF Live
<1>3. OneDialled'
  <2>1. ASSUME NEW c \in Conn, NEW d \in Conn, Live(<<"out", c>>)', Live(<<"out", d>>)'
        PROVE  c = d
    <3>1. <<"out", c>> \in End /\ <<"out", d>> \in End
      BY DEF End, Side
    <3>2. QED
      BY <2>1, <3>1, <1>2 DEF IInv, OneDialled
  <2>2. QED
    BY <2>1 DEF OneDialled
<1>4. KnowsPeer'
  BY <1>1 DEF IInv, KnowsPeer
<1>5. \A s : NoneEstablished(s) => NoneEstablished(s)'
  BY <1>1 DEF NoneEstablished
<1>6. WaitsRightly'
  <2>1. \A k \in Calls : \A x : Waits(k, x)' <=> Waits(k, x)
    BY DEF Waits
  <2>2. "out" \in Side
    BY DEF Side
  <2>3. QED
    BY <1>5, <2>1, <2>2 DEF IInv, WaitsRightly
<1>7. HandlesAgree'
  <2>1. "out" \in Side /\ "in" \in Side
    BY DEF Side
  <2>2. \A c \in Conn : <<"out", c>> \in End /\ <<"in", c>> \in End
    BY DEF End, Side
  <2>3. ASSUME registered'["in"]
        PROVE  active' = {c \in Conn : phase'[<<"in", c>>] = "Established"}
    <3>1. active = {c \in Conn : phase[<<"in", c>>] = "Established"}
      BY <2>1, <2>3 DEF IInv, HandlesAgree
    <3>2. active' = {c \in active : <<"in", c>> \notin gone}
      BY <2>3 DEF Remove, AcceptorKeeps
    <3>3. QED
      BY <3>1, <3>2, <2>2, <1>1
  <2>4. ASSUME registered'["out"]
        PROVE  dialerConn' = {c \in Conn : phase'[<<"out", c>>] = "Established"}
    <3>1. dialerConn = {c \in Conn : phase[<<"out", c>>] = "Established"}
      BY <2>1, <2>4 DEF IInv, HandlesAgree
    <3>2. CASE \E c \in Conn : <<"out", c>> \in gone
      <4>1. PICK c \in Conn : <<"out", c>> \in gone
        BY <3>2
      <4>2. dialerConn' = {}
        BY <2>4, <3>2 DEF Remove, DialerForgets
      <4>3. ASSUME NEW d \in Conn, phase'[<<"out", d>>] = "Established" PROVE FALSE
        <5>1. phase[<<"out", d>>] = "Established" /\ <<"out", d>> \notin gone
          BY <4>3, <2>2, <1>1
        <5>2. Live(<<"out", d>>) /\ Live(<<"out", c>>)
          BY <4>1, <5>1 DEF Live
        <5>3. c = d
          BY <5>2 DEF IInv, OneDialled
        <5>4. QED
          BY <4>1, <5>1, <5>3
      <4>4. QED
        BY <4>2, <4>3
    <3>3. CASE ~\E c \in Conn : <<"out", c>> \in gone
      <4>1. dialerConn' = dialerConn
        BY <3>3 DEF Remove, DialerForgets
      <4>2. \A c \in Conn : phase'[<<"out", c>>] = phase[<<"out", c>>]
        BY <3>3, <2>2, <1>1
      <4>3. QED
        BY <3>1, <4>1, <4>2
    <3>4. QED
      BY <3>2, <3>3
  <2>5. QED
    BY <2>3, <2>4 DEF HandlesAgree
<1>8. QED
  BY <1>3, <1>4, <1>6, <1>7 DEF IInv

(* A handshake completes: the handles learn of it and all who wait.        *)
LEMMA CompleteKeeps ==
  ASSUME TypeOK, IInv, NEW e \in End, NEW m \in Msg, m.kind # "error", Live(e),
         Complete(e, m), UNCHANGED <<registered, finished, failure>>
  PROVE  IInv'
<1>1. \A x \in End : phase'[x] = IF x = e THEN "Established" ELSE phase[x]
  BY DEF Complete, TypeOK
<1>2. \A x \in End : Live(x)' <=> Live(x)
  BY <1>1 DEF Live
<1>3. OneDialled'
  <2>1. \A c \in Conn : <<"out", c>> \in End
    BY DEF End, Side
  <2>2. QED
    BY <2>1, <1>2 DEF IInv, OneDialled
<1>4. \A x \in End : info'[x] = IF x = e THEN TheirInfo(e, m) ELSE info[x]
  BY DEF Complete, TypeOK
<1>5. KnowsPeer'
  <2>1. TheirInfo(e, m) # NoPeer
    BY Messages
  <2>2. QED
    BY <2>1, <1>1, <1>4 DEF IInv, KnowsPeer
<1>6. WaitsRightly'
  <2>1. ASSUME NEW k \in Calls, call'[k] = "waiting"
        PROVE  call[k] = "waiting" /\ ~WaitsFor(e, k)
    BY <2>1 DEF Complete, Answer
  <2>2. ASSUME NEW k \in Calls, Waits(k, "handshake")'
        PROVE  (info[k.end] = NoPeer /\ ~finished[k.end])'
    <3>1. Waits(k, "handshake") /\ ~WaitsFor(e, k)
      BY <2>1, <2>2 DEF Waits
    <3>2. k.end # e /\ k.end \in End
      BY <3>1, CallFields DEF WaitsFor, Waits
    <3>3. QED
      BY <3>1, <3>2, <1>4 DEF IInv, WaitsRightly
  <2>3. ASSUME NEW k \in Calls, Waits(k, "finished")' PROVE ~finished'[k.end]
    BY <2>1, <2>3 DEF Waits, IInv, WaitsRightly
  <2>4. ASSUME NEW k \in Calls, Waits(k, "when")' PROVE NoneEstablished(k.side)'
    <3>1. Waits(k, "when") /\ k.side # e[1]
      BY <2>1, <2>4 DEF Waits, WaitsFor
    <3>2. NoneEstablished(k.side)
      BY <3>1 DEF IInv, WaitsRightly
    <3>3. QED
      BY <3>1, <3>2, <1>1 DEF NoneEstablished
  <2>5. ASSUME NEW k \in Calls, Waits(k, "established")'
        PROVE  (~failure /\ (registered["out"] => NoneEstablished("out")))'
    <3>1. Waits(k, "established") /\ (e[1] # "out" \/ ~registered["out"])
      BY <2>1, <2>5 DEF Waits, WaitsFor
    <3>2. ~failure /\ (registered["out"] => NoneEstablished("out"))
      BY <3>1 DEF IInv, WaitsRightly
    <3>3. QED
      BY <3>1, <3>2, <1>1 DEF NoneEstablished
  <2>6. QED
    BY <2>2, <2>3, <2>4, <2>5 DEF WaitsRightly
<1>7. HandlesAgree'
  <2>1. \A c \in Conn, s \in Side : <<s, c>> \in End
    BY Sides
  <2>2. ASSUME registered["in"]
        PROVE  active' = {c \in Conn : phase'[<<"in", c>>] = "Established"}
    <3>1. active = {c \in Conn : phase[<<"in", c>>] = "Established"}
      BY <2>2 DEF IInv, HandlesAgree
    <3>2. CASE e[1] = "in"
      <4>1. active' = active \cup {e[2]}
        BY <2>2, <3>2 DEF Complete
      <4>2. \A c \in Conn : phase'[<<"in", c>>] = "Established"
                           <=> c = e[2] \/ phase[<<"in", c>>] = "Established"
        BY <3>2, <2>1, <1>1, Ends DEF Side
      <4>3. QED
        BY <3>1, <4>1, <4>2, Ends
    <3>3. CASE e[1] # "in"
      <4>1. active' = active
        BY <3>3 DEF Complete
      <4>2. \A c \in Conn : phase'[<<"in", c>>] = phase[<<"in", c>>]
        BY <3>3, <2>1, <1>1, Ends DEF Side
      <4>3. QED
        BY <3>1, <4>1, <4>2
    <3>4. QED
      BY <3>2, <3>3
  <2>3. ASSUME registered["out"]
        PROVE  dialerConn' = {c \in Conn : phase'[<<"out", c>>] = "Established"}
    <3>1. dialerConn = {c \in Conn : phase[<<"out", c>>] = "Established"}
      BY <2>3 DEF IInv, HandlesAgree
    <3>2. CASE e[1] = "out"
      <4>1. dialerConn' = {e[2]}
        BY <2>3, <3>2 DEF Complete
      <4>2. e = <<"out", e[2]>> /\ e[2] \in Conn
        BY <3>2, Ends
      <4>3. ASSUME NEW c \in Conn, phase'[<<"out", c>>] = "Established" PROVE c = e[2]
        <5>1. Live(<<"out", c>>)
          BY <4>3, <2>1, <1>2 DEF Live, Side
        <5>2. Live(<<"out", e[2]>>)
          BY <4>2
        <5>3. QED
          BY <4>2, <5>1, <5>2 DEF IInv, OneDialled
      <4>4. phase'[<<"out", e[2]>>] = "Established"
        BY <4>2, <1>1
      <4>5. QED
        BY <4>1, <4>2, <4>3, <4>4
    <3>3. CASE e[1] # "out"
      <4>1. dialerConn' = dialerConn
        BY <3>3 DEF Complete
      <4>2. \A c \in Conn : phase'[<<"out", c>>] = phase[<<"out", c>>]
        BY <3>3, <2>1, <1>1, Ends DEF Side
      <4>3. QED
        BY <3>1, <4>1, <4>2
    <3>4. QED
      BY <3>2, <3>3
  <2>4. QED
    BY <2>2, <2>3 DEF HandlesAgree
<1>8. QED
  BY <1>3, <1>5, <1>6, <1>7 DEF IInv

(* Nothing changes that the invariant speaks of.                           *)
LEMMA Untouched ==
  ASSUME IInv, UNCHANGED <<registered, phase, info, finished, dialerConn, failure, active, call>>
  PROVE  IInv'
BY DEF IInv, OneDialled, KnowsPeer, HandlesAgree, WaitsRightly, Waits, NoneEstablished, Live

(* A connection begins, or is refused: it is not established before or     *)
(* after, and the dialer's is its only one.                                *)
LEMMA BeginKeeps ==
  ASSUME TypeOK, IInv, NEW e \in End, NEW p \in {"WaitingForPeer", "WaitingForJoin", "Gone"},
         phase[e] = "Unused", phase' = [phase EXCEPT ![e] = p],
         e[1] = "out" => LiveOf("out") = {},
         UNCHANGED <<registered, info, finished, dialerConn, failure, active, call>>
  PROVE  IInv'
<1>1. \A x \in End : phase'[x] = IF x = e THEN p ELSE phase[x]
  BY DEF TypeOK
<1>2. \A x \in End : phase'[x] = "Established" <=> phase[x] = "Established"
  BY <1>1
<1>3. OneDialled'
  <2>1. ASSUME NEW c \in Conn, NEW d \in Conn, Live(<<"out", c>>)', Live(<<"out", d>>)'
        PROVE  c = d
    <3>1. <<"out", c>> \in End /\ <<"out", d>> \in End
      BY DEF End, Side
    <3>2. CASE e[1] = "out"
      <4>1. <<"out", c>> = e /\ <<"out", d>> = e
        BY <2>1, <3>1, <3>2, <1>1 DEF Live, LiveOf
      <4>2. QED
        BY <4>1
    <3>3. CASE e[1] # "out"
      <4>1. Live(<<"out", c>>) /\ Live(<<"out", d>>)
        BY <2>1, <3>1, <3>3, <1>1 DEF Live
      <4>2. QED
        BY <4>1 DEF IInv, OneDialled
    <3>4. QED
      BY <3>2, <3>3
  <2>2. QED
    BY <2>1 DEF OneDialled
<1>4. KnowsPeer'
  BY <1>2 DEF IInv, KnowsPeer
<1>5. WaitsRightly'
  <2>1. \A s : NoneEstablished(s)' <=> NoneEstablished(s)
    BY <1>2 DEF NoneEstablished
  <2>2. \A k \in Calls : \A x : Waits(k, x)' <=> Waits(k, x)
    BY DEF Waits
  <2>3. QED
    BY <2>1, <2>2 DEF IInv, WaitsRightly
<1>6. HandlesAgree'
  <2>1. \A c \in Conn : <<"out", c>> \in End /\ <<"in", c>> \in End
    BY DEF End, Side
  <2>2. QED
    BY <2>1, <1>2 DEF IInv, HandlesAgree
<1>7. QED
  BY <1>3, <1>4, <1>5, <1>6 DEF IInv

LEMMA IInvStep == TypeOK /\ IInv /\ [Next]_vars => IInv'
<1> SUFFICES ASSUME TypeOK, IInv, [Next]_vars PROVE IInv'
  OBVIOUS
<1>0. registered \in [Side -> BOOLEAN]
  BY DEF TypeOK
<1>1. ASSUME NEW c \in Conn, Dial(c) PROVE IInv'
  <2> DEFINE e == <<"out", c>>
  <2>1. e \in End /\ e[1] = "out"
    BY DEF End, Side
  <2>2. /\ phase[e] = "Unused" /\ phase' = [phase EXCEPT ![e] = "WaitingForPeer"]
        /\ LiveOf("out") = {}
        /\ UNCHANGED <<registered, info, finished, dialerConn, failure, active, call>>
    BY <1>1 DEF Dial
  <2>3. QED
    BY <2>1, <2>2, BeginKeeps
<1>2. ASSUME NEW c \in Conn, Accept(c) PROVE IInv'
  <2> DEFINE e == <<"in", c>>
  <2>1. e \in End /\ e[1] # "out"
    BY DEF End, Side
  <2>2. /\ phase[e] = "Unused" /\ phase' = [phase EXCEPT ![e] = "WaitingForJoin"]
        /\ UNCHANGED <<registered, info, finished, dialerConn, failure, active, call>>
    BY <1>2 DEF Accept
  <2>3. QED
    BY <2>1, <2>2, BeginKeeps
<1>3. ASSUME NEW c \in Conn, Refuse(c) PROVE IInv'
  <2> DEFINE e == <<"in", c>>
  <2>1. e \in End /\ e[1] # "out"
    BY DEF End, Side
  <2>2. /\ phase[e] = "Unused" /\ phase' = [phase EXCEPT ![e] = "Gone"]
        /\ UNCHANGED <<registered, info, finished, dialerConn, failure, active, call>>
    BY <1>3 DEF Refuse, handleVars
  <2>3. QED
    BY <2>1, <2>2, BeginKeeps
<1>4. ASSUME NEW e \in End, SendSync(e) PROVE IInv'
  BY <1>4, Untouched DEF SendSync, hubVars, handleVars
<1>5. ASSUME NEW e \in End, Disconnect(e) PROVE IInv'
  <2>1. /\ Live(e) /\ Remove({e}, registered) /\ registered' = registered
        /\ UNCHANGED <<info, finished, failure, call>>
    BY <1>5 DEF Disconnect, Live
  <2>2. QED
    BY <2>1, <1>0, RemoveKeeps
<1>6. ASSUME NEW s \in Side, CloseHandle(s) PROVE IInv'
  <2>1. /\ registered' \in [Side -> BOOLEAN]
        /\ \A x \in Side : registered'[x] => registered[x]
        /\ UNCHANGED <<info, finished, failure, call>>
    BY <1>6, <1>0 DEF CloseHandle
  <2>2. CASE Remove(LiveOf(s), registered')
    <3>1. LiveOf(s) \in SUBSET End /\ \A e \in LiveOf(s) : Live(e)
      BY DEF LiveOf
    <3>2. QED
      BY <2>1, <2>2, <3>1, RemoveKeeps
  <2>3. CASE UNCHANGED <<phase, open, dialerConn, active>>
    <3>1. "out" \in Side /\ "in" \in Side
      BY DEF Side
    <3>2. \A x : NoneEstablished(x)' <=> NoneEstablished(x)
      BY <2>3 DEF NoneEstablished
    <3>3. WaitsRightly'
      BY <2>1, <2>3, <3>1, <3>2 DEF IInv, WaitsRightly, Waits
    <3>4. HandlesAgree'
      BY <2>1, <2>3, <3>1 DEF IInv, HandlesAgree
    <3>5. OneDialled' /\ KnowsPeer'
      BY <2>1, <2>3 DEF IInv, OneDialled, KnowsPeer, Live
    <3>6. QED
      BY <3>3, <3>4, <3>5 DEF IInv
  <2>4. QED
    BY <1>6, <2>2, <2>3 DEF CloseHandle
<1>7. ASSUME NEW s \in Side, Stop(s) PROVE IInv'
  <2>1. /\ Remove(LiveOf(s), registered) /\ registered' = registered
        /\ UNCHANGED <<info, finished, failure, call>>
    BY <1>7 DEF Stop
  <2>2. LiveOf(s) \in SUBSET End /\ \A e \in LiveOf(s) : Live(e)
    BY DEF LiveOf
  <2>3. QED
    BY <2>1, <2>2, <1>0, RemoveKeeps
<1>8. ASSUME Fail PROVE IInv'
  <2>1. /\ UNCHANGED <<registered, phase, info, finished, dialerConn, active>>
        /\ \A k \in Calls : call'[k] = "waiting" => call[k] = "waiting" /\ k.kind # "established"
    BY <1>8 DEF Fail, hubVars, Answer
  <2>2. \A x : NoneEstablished(x)' <=> NoneEstablished(x)
    BY <2>1 DEF NoneEstablished
  <2>3. WaitsRightly'
    BY <2>1, <2>2 DEF IInv, WaitsRightly, Waits
  <2>4. OneDialled' /\ KnowsPeer' /\ HandlesAgree'
    BY <2>1 DEF IInv, OneDialled, KnowsPeer, HandlesAgree, Live
  <2>5. QED
    BY <2>3, <2>4 DEF IInv
<1>9. ASSUME NEW e \in End, LoopRead(e) PROVE IInv'
  <2> DEFINE m == Head(wire[Other(e)])
  <2>1. m \in Msg
    BY <1>9, Ends, Queues DEF LoopRead, TypeOK
  <2>2. UNCHANGED <<registered, finished, failure>>
    BY <1>9 DEF LoopRead
  <2>3. UNCHANGED <<phase, outbox, open, info, dialerConn, active, call, rejected>>
        \/ HandleReceive(e, m)
    BY <1>9 DEF LoopRead
  <2> HIDE DEF m
  <2>4. CASE UNCHANGED <<phase, outbox, open, info, dialerConn, active, call, rejected>>
    BY <2>2, <2>4, Untouched
  <2>5. CASE HandleReceive(e, m)
    <3>1. CASE Live(e) /\ Reject(e, m) /\ rejected' = rejected \cup {e} /\ UNCHANGED <<info, call>>
      BY <1>0, <2>2, <3>1, RemoveKeeps DEF Reject
    <3>2. CASE Live(e) /\ m.kind # "error" /\ Complete(e, m) /\ UNCHANGED <<open, rejected>>
      BY <2>1, <2>2, <3>2, CompleteKeeps
    <3>3. CASE /\ Live(e) /\ Remove({e}, registered)
               /\ UNCHANGED <<outbox, info, call, rejected>>
      BY <1>0, <2>2, <3>3, RemoveKeeps
    <3>4. QED
      BY <2>1, <2>4, <2>5, <3>1, <3>2, <3>3, Receipt
  <2>6. QED
    BY <2>3, <2>4, <2>5
<1>10. ASSUME NEW e \in End, LoopEof(e) PROVE IInv'
  BY <1>10, Untouched DEF LoopEof, hubVars, handleVars
<1>11. ASSUME NEW e \in End, LoopWrite(e) PROVE IInv'
  BY <1>11, Untouched DEF LoopWrite, hubVars, handleVars
<1>12. ASSUME NEW e \in End, LoopClosed(e) PROVE IInv'
  BY <1>12, Untouched DEF LoopClosed, hubVars, handleVars
<1>13. ASSUME NEW e \in End, LoopLost(e) PROVE IInv'
  <2>1. UNCHANGED <<registered, info, finished, failure, call>>
    BY <1>13 DEF LoopLost
  <2>2. CASE Live(e) /\ Remove({e}, registered)
    BY <1>0, <2>1, <2>2, RemoveKeeps
  <2>3. CASE UNCHANGED <<phase, open, dialerConn, active>>
    BY <2>1, <2>3, Untouched
  <2>4. QED
    BY <1>13, <2>2, <2>3 DEF LoopLost
<1>14. ASSUME NEW e \in End, LoopFinish(e) PROVE IInv'
  <2>1. /\ UNCHANGED <<registered, phase, info, dialerConn, failure, active>>
        /\ finished' = [finished EXCEPT ![e] = TRUE]
    BY <1>14 DEF LoopFinish, hubVars
  <2>2. \A k \in Calls : call'[k] = "waiting" => call[k] = "waiting" /\ ~EndsWith(e, k)
    BY <1>14 DEF LoopFinish
  <2>3. \A x : NoneEstablished(x)' <=> NoneEstablished(x)
    BY <2>1 DEF NoneEstablished
  <2>4. ASSUME NEW k \in Calls, Waits(k, "handshake")' \/ Waits(k, "finished")'
        PROVE  /\ Waits(k, "handshake") \/ Waits(k, "finished")
               /\ finished'[k.end] = finished[k.end]
    <3>1. k.end # e /\ k.end \in End
      BY <2>2, <2>4, CallFields DEF Waits, EndsWith
    <3>2. QED
      BY <3>1, <2>1, <2>2, <2>4 DEF Waits, TypeOK
  <2>5. WaitsRightly'
    BY <2>1, <2>2, <2>3, <2>4 DEF IInv, WaitsRightly, Waits
  <2>6. OneDialled' /\ KnowsPeer' /\ HandlesAgree'
    BY <2>1 DEF IInv, OneDialled, KnowsPeer, HandlesAgree, Live
  <2>7. QED
    BY <2>5, <2>6 DEF IInv
<1>15. ASSUME NEW c \in Conn, Break(c) PROVE IInv'
  BY <1>15, Untouched DEF Break, hubVars, handleVars
<1>16. ASSUME NEW k \in Calls, Await(k) PROVE IInv'
  <2>1. /\ UNCHANGED <<registered, phase, info, finished, dialerConn, failure, active>>
        /\ \A j \in Calls : j # k => call'[j] = call[j]
        /\ call'[k] = CASE k.kind = "handshake" -> Handshake(k.end)
                        [] k.kind = "finished" -> Finished(k.end)
                        [] k.kind = "when" -> WhenConnected(k.side)
                        [] k.kind = "established" -> Established
    BY <1>16 DEF Await, hubVars, handleVars, TypeOK
  <2>2. \A x : NoneEstablished(x)' <=> NoneEstablished(x)
    BY <2>1 DEF NoneEstablished
  <2>3. Waits(k, "handshake")' => info[k.end] = NoPeer /\ ~finished[k.end]
    BY <2>1 DEF Waits, Handshake
  <2>4. Waits(k, "finished")' => ~finished[k.end]
    BY <2>1 DEF Waits, Finished
  <2>5. Waits(k, "when")' => NoneEstablished(k.side)
    BY <2>1 DEF Waits, WhenConnected, LiveOf, Live, NoneEstablished, IInv, KnowsPeer
  <2>6. Waits(k, "established")' => ~failure /\ (registered["out"] => NoneEstablished("out"))
    <3> SUFFICES ASSUME Waits(k, "established")' PROVE ~failure /\ (registered["out"] => NoneEstablished("out"))
      OBVIOUS
    <3>1. dialerConn = {} /\ ~failure
      BY <2>1 DEF Waits, Established
    <3>2. ASSUME registered["out"], NEW e \in End, e[1] = "out" PROVE phase[e] # "Established"
      <4>1. e = <<"out", e[2]>> /\ e[2] \in Conn
        BY <3>2, Ends
      <4>2. QED
        BY <3>1, <3>2, <4>1 DEF IInv, HandlesAgree
    <3>3. QED
      BY <3>1, <3>2 DEF NoneEstablished
  <2>7. WaitsRightly'
    BY <2>1, <2>2, <2>3, <2>4, <2>5, <2>6 DEF IInv, WaitsRightly, Waits
  <2>8. OneDialled' /\ KnowsPeer' /\ HandlesAgree'
    BY <2>1 DEF IInv, OneDialled, KnowsPeer, HandlesAgree, Live
  <2>9. QED
    BY <2>7, <2>8 DEF IInv
<1>17. CASE UNCHANGED vars
  BY <1>17, Untouched DEF vars, hubVars, handleVars
<1>18. QED
  BY <1>1, <1>2, <1>3, <1>4, <1>5, <1>6, <1>7, <1>8, <1>9, <1>10, <1>11, <1>12, <1>13,
     <1>14, <1>15, <1>16, <1>17 DEF Next, Works

LEMMA IInvAlways == Spec => []IInv
<1>1. Init => IInv
  <2> SUFFICES ASSUME Init PROVE IInv
    OBVIOUS
  <2>1. \A e \in End : phase[e] = "Unused"
    BY DEF Init
  <2>2. \A c \in Conn : <<"out", c>> \in End /\ <<"in", c>> \in End
    BY DEF End, Side
  <2>3. \A k \in Calls : call[k] = "idle"
    BY DEF Init
  <2>4. OneDialled /\ KnowsPeer
    BY <2>1, <2>2 DEF OneDialled, KnowsPeer, Live
  <2>5. HandlesAgree
    BY <2>1, <2>2 DEF Init, HandlesAgree
  <2>6. WaitsRightly
    BY <2>3 DEF WaitsRightly, Waits
  <2>7. QED
    BY <2>4, <2>5, <2>6 DEF IInv
<1>2. QED
  BY <1>1, IInvStep, TypeCorrect, PTL DEF Spec

(* The handles report the connections that the hub has, whatever the ends  *)
(* do: is_connected() and connection_count() (lib.rs:1102-1156).           *)
THEOREM HandlesAlwaysAgree == Spec => []HandlesAgree
<1>1. IInv => HandlesAgree
  BY DEF IInv
<1>2. QED
  BY <1>1, IInvAlways, PTL

(* No future is left waiting for what has happened: it is either seen when *)
(* the future first looks, or its notification finds the future waiting.   *)
THEOREM NoneWaitsInVain == Spec => []NoWaiterMissed
<1>1. IInv => NoWaiterMissed
  <2> SUFFICES ASSUME IInv, NEW k \in Calls, call[k] = "waiting"
               PROVE  CASE k.kind = "handshake" -> info[k.end] = NoPeer /\ ~finished[k.end]
                        [] k.kind = "finished" -> ~finished[k.end]
                        [] k.kind = "when" -> \A e \in LiveOf(k.side) : phase[e] # "Established"
                        [] k.kind = "established" ->
                             ~failure /\ (registered["out"] =>
                                            \A e \in LiveOf("out") : phase[e] # "Established")
    BY DEF NoWaiterMissed
  <2>1. \A s : NoneEstablished(s) => \A e \in LiveOf(s) : phase[e] # "Established"
    BY DEF NoneEstablished, LiveOf
  <2>2. k.kind \in {"handshake", "finished", "when", "established"}
    BY CallFields
  <2>3. QED
    BY <2>1, <2>2 DEF IInv, WaitsRightly, Waits
<1>2. QED
  BY <1>1, IInvAlways, PTL

----------------------------------------------------------------------------
(* Where the loop of an end is says what the end may still do: a           *)
(* connection that lives has a loop that reads or is about to report its   *)
(* end, and one whose loop is done is gone.                                *)
Awaits(e) == IF e[1] = "out" THEN "WaitingForPeer" ELSE "WaitingForJoin"
LoopAgrees(e) ==
    /\ phase[e] \in {"Unused", Awaits(e), "Established", "Gone"}
    /\ phase[e] = "Unused" => loop[e] = "none"
    /\ Live(e) => loop[e] \in {"running", "broke"} /\ open[e] /\ ~stopped[e[1]]
LoopsAgree == \A e \in End : LoopAgrees(e)

LEMMA LoopKept ==
  ASSUME NEW e \in End, LoopAgrees(e), phase'[e] = phase[e], open'[e] = open[e],
         stopped'[e[1]] = stopped[e[1]],
         \/ loop'[e] = loop[e]
         \/ loop[e] = "running" /\ loop'[e] = "broke"
         \/ loop[e] # "none" /\ ~Live(e)
  PROVE  LoopAgrees(e)'
BY DEF LoopAgrees, Awaits, Live

(* An end that is removed is gone, the others are as they were.            *)
LEMMA RemoveLoop ==
  ASSUME TypeOK, LoopsAgree, NEW gone \in SUBSET End, NEW reg, Remove(gone, reg),
         NEW e \in End,
         e \notin gone => loop'[e] = loop[e] /\ (Live(e) => stopped'[e[1]] = stopped[e[1]])
  PROVE  LoopAgrees(e)'
<1>1. /\ phase'[e] = IF e \in gone THEN "Gone" ELSE phase[e]
      /\ open'[e] = (open[e] /\ e \notin gone)
  BY DEF Remove
<1>2. QED
  BY <1>1 DEF LoopsAgree, LoopAgrees, Awaits, Live, TypeOK

LEMMA LoopsAgreeStep == TypeOK /\ LoopsAgree /\ [Next]_vars => LoopsAgree'
<1> SUFFICES ASSUME TypeOK, LoopsAgree, [Next]_vars, NEW x \in End PROVE LoopAgrees(x)'
  BY DEF LoopsAgree
<1>0. LoopAgrees(x) /\ x[1] \in Side /\ x[2] \in Conn /\ x = <<x[1], x[2]>>
  BY Ends DEF LoopsAgree
<1>1. ASSUME NEW c \in Conn, Dial(c) PROVE LoopAgrees(x)'
  <2>1. <<"out", c>> \in End
    BY DEF End, Side
  <2>2. QED
    BY <1>0, <1>1, <2>1 DEF Dial, LoopAgrees, Awaits, Live, TypeOK
<1>2. ASSUME NEW c \in Conn, Accept(c) PROVE LoopAgrees(x)'
  <2>1. <<"in", c>> \in End
    BY DEF End, Side
  <2>2. QED
    BY <1>0, <1>2, <2>1 DEF Accept, LoopAgrees, Awaits, Live, TypeOK
<1>3. ASSUME NEW c \in Conn, Refuse(c) PROVE LoopAgrees(x)'
  <2>1. <<"in", c>> \in End
    BY DEF End, Side
  <2>2. QED
    BY <1>0, <1>3, <2>1 DEF Refuse, LoopAgrees, Awaits, Live, TypeOK, handleVars
<1>4. ASSUME NEW e \in End, SendSync(e) PROVE LoopAgrees(x)'
  BY <1>0, <1>4, LoopKept DEF SendSync, hubVars, handleVars
<1>5. ASSUME NEW e \in End, Disconnect(e) PROVE LoopAgrees(x)'
  BY <1>5, RemoveLoop DEF Disconnect
<1>6. ASSUME NEW s \in Side, CloseHandle(s) PROVE LoopAgrees(x)'
  <2>1. LiveOf(s) \in SUBSET End /\ UNCHANGED <<loop, stopped>>
    BY <1>6 DEF CloseHandle, LiveOf
  <2>2. CASE UNCHANGED <<phase, open, dialerConn, active>>
    BY <1>0, <2>1, <2>2, LoopKept
  <2>3. CASE Remove(LiveOf(s), registered')
    BY <2>1, <2>3, RemoveLoop
  <2>4. QED
    BY <1>6, <2>2, <2>3 DEF CloseHandle
<1>7. ASSUME NEW s \in Side, Stop(s) PROVE LoopAgrees(x)'
  <2>1. /\ LiveOf(s) \in SUBSET End /\ loop' = loop /\ Remove(LiveOf(s), registered)
        /\ stopped' = [stopped EXCEPT ![s] = TRUE]
    BY <1>7 DEF Stop, LiveOf
  <2>2. x \notin LiveOf(s) /\ Live(x) => stopped'[x[1]] = stopped[x[1]]
    BY <1>0, <2>1 DEF LiveOf, TypeOK
  <2>3. QED
    BY <2>1, <2>2, RemoveLoop
<1>8. ASSUME Fail PROVE LoopAgrees(x)'
  BY <1>0, <1>8, LoopKept DEF Fail, hubVars
<1>9. ASSUME NEW e \in End, LoopRead(e) PROVE LoopAgrees(x)'
  <2> DEFINE m == Head(wire[Other(e)])
  <2>1. m \in Msg /\ UNCHANGED <<loop, stopped>>
    BY <1>9, Ends, Queues DEF LoopRead, TypeOK
  <2>2. UNCHANGED <<phase, outbox, open, info, dialerConn, active, call, rejected>>
        \/ HandleReceive(e, m)
    BY <1>9 DEF LoopRead
  <2> HIDE DEF m
  <2>3. CASE UNCHANGED <<phase, outbox, open, info, dialerConn, active, call, rejected>>
    BY <1>0, <2>1, <2>3, LoopKept
  <2>4. CASE Remove({e}, registered)
    BY <2>1, <2>4, RemoveLoop
  <2>5. CASE Live(e) /\ Complete(e, m) /\ UNCHANGED open
    BY <1>0, <2>1, <2>5 DEF Complete, LoopAgrees, Live, Awaits, TypeOK
  <2>6. QED
    BY <2>1, <2>2, <2>3, <2>4, <2>5, Receipt DEF Reject
<1>10. ASSUME NEW e \in End, LoopEof(e) PROVE LoopAgrees(x)'
  <2>1. loop'[x] = loop[x] \/ (loop[x] = "running" /\ loop'[x] = "broke")
    BY <1>10 DEF LoopEof, TypeOK
  <2>2. QED
    BY <1>0, <1>10, <2>1, LoopKept DEF LoopEof, hubVars, handleVars
<1>11. ASSUME NEW e \in End, LoopWrite(e) PROVE LoopAgrees(x)'
  <2>1. loop'[x] = loop[x] \/ (loop[x] = "running" /\ loop'[x] = "broke")
    BY <1>11 DEF LoopWrite, TypeOK
  <2>2. QED
    BY <1>0, <1>11, <2>1, LoopKept DEF LoopWrite, hubVars, handleVars
<1>12. ASSUME NEW e \in End, LoopClosed(e) PROVE LoopAgrees(x)'
  <2>1. loop'[x] = loop[x] \/ (loop[x] # "none" /\ ~Live(x))
    BY <1>0, <1>12 DEF LoopClosed, TypeOK, LoopAgrees
  <2>2. QED
    BY <1>0, <1>12, <2>1, LoopKept DEF LoopClosed, hubVars, handleVars
<1>13. ASSUME NEW e \in End, LoopLost(e) PROVE LoopAgrees(x)'
  <2>1. /\ loop[e] = "broke" /\ loop' = [loop EXCEPT ![e] = "closing"] /\ UNCHANGED stopped
    BY <1>13 DEF LoopLost
  <2>2. CASE Remove({e}, registered)
    <3>1. {e} \in SUBSET End /\ (x \notin {e} => loop'[x] = loop[x])
      BY <2>1
    <3>2. QED
      BY <2>1, <2>2, <3>1, RemoveLoop
  <2>3. CASE ~(Live(e) /\ ~stopped[e[1]]) /\ UNCHANGED <<phase, open, dialerConn, active>>
    <3>1. ~Live(e)
      BY <2>3 DEF LoopsAgree, LoopAgrees
    <3>2. loop'[x] = loop[x] \/ (loop[x] # "none" /\ ~Live(x))
      BY <2>1, <3>1 DEF TypeOK
    <3>3. QED
      BY <1>0, <2>1, <2>3, <3>2, LoopKept
  <2>4. QED
    BY <1>13, <2>2, <2>3 DEF LoopLost
<1>14. ASSUME NEW e \in End, LoopFinish(e) PROVE LoopAgrees(x)'
  <2>1. loop'[x] = loop[x] \/ (loop[x] # "none" /\ ~Live(x))
    BY <1>0, <1>14 DEF LoopFinish, TypeOK, LoopAgrees
  <2>2. QED
    BY <1>0, <1>14, <2>1, LoopKept DEF LoopFinish, hubVars
<1>15. ASSUME NEW c \in Conn, Break(c) PROVE LoopAgrees(x)'
  BY <1>0, <1>15, LoopKept DEF Break, hubVars, handleVars
<1>16. ASSUME NEW k \in Calls, Await(k) PROVE LoopAgrees(x)'
  BY <1>0, <1>16, LoopKept DEF Await, hubVars, handleVars
<1>17. CASE UNCHANGED vars
  BY <1>0, <1>17, LoopKept DEF vars, hubVars, handleVars
<1>18. QED
  BY <1>1, <1>2, <1>3, <1>4, <1>5, <1>6, <1>7, <1>8, <1>9, <1>10, <1>11, <1>12, <1>13,
     <1>14, <1>15, <1>16, <1>17 DEF Next, Works

----------------------------------------------------------------------------
(* All that an end has said and the other has not read, in order.          *)
Stream(e) == wire[e] \o outbox[e]

LEMMA Concatenation ==
  ASSUME NEW w \in Seq(Msg), NEW o \in Seq(Msg)
  PROVE  /\ w \o o \in Seq(Msg)
         /\ \A m \in Msg : w \o Append(o, m) = Append(w \o o, m)
         /\ w # <<>> => /\ w \o o # <<>> /\ Head(w \o o) = Head(w)
                        /\ Tail(w) \o o = Tail(w \o o)
         /\ o # <<>> => /\ w \o o # <<>>
                        /\ Append(w, Head(o)) \o Tail(o) = w \o o
<1>1. w \o o \in Seq(Msg) /\ (w # <<>> \/ o # <<>> => w \o o # <<>>)
  BY ConcatProperties, ConcatEqualIffEmpty
<1>2. ASSUME NEW m \in Msg PROVE w \o Append(o, m) = Append(w \o o, m)
  <2>1. <<m>> \in Seq(Msg)
    OBVIOUS
  <2>2. (w \o o) \o <<m>> = w \o (o \o <<m>>)
    BY <2>1, ConcatAssociative
  <2>3. QED
    BY <1>1, <2>2, AppendIsConcat
<1>3. ASSUME w # <<>> PROVE Head(w \o o) = Head(w) /\ Tail(w) \o o = Tail(w \o o)
  <2> DEFINE h == <<Head(w)>>  t == Tail(w)
  <2>1. h \in Seq(Msg) /\ t \in Seq(Msg) /\ w = h \o t
    BY <1>3, HeadTailProperties
  <2>2. w \o o = h \o (t \o o) /\ t \o o \in Seq(Msg)
    BY <2>1, ConcatAssociative, ConcatProperties
  <2>3. \A u \in Seq(Msg) : Head(h \o u) = Head(w) /\ Tail(h \o u) = u
    BY <1>3, HeadTailProperties
  <2>4. QED
    BY <2>2, <2>3, SMTT(30)
<1>4. ASSUME o # <<>> PROVE Append(w, Head(o)) \o Tail(o) = w \o o
  <2> DEFINE h == <<Head(o)>>  t == Tail(o)
  <2>1. h \in Seq(Msg) /\ t \in Seq(Msg) /\ o = h \o t /\ Head(o) \in Msg
    BY <1>4, HeadTailProperties
  <2>2. (w \o h) \o t = w \o o
    BY <2>1, ConcatAssociative
  <2>3. Append(w, Head(o)) = w \o h
    BY <2>1, AppendIsConcat
  <2>4. QED
    BY <2>2, <2>3
<1>5. QED
  BY <1>1, <1>2, <1>3, <1>4

(* What is put on a queue ends its stream, what is read began it, and what *)
(* is written stays where it was.                                          *)
LEMMA StreamStep ==
  ASSUME TypeOK, NEW e \in End
  PROVE  /\ wire[e] \in Seq(Msg) /\ outbox[e] \in Seq(Msg) /\ Stream(e) \in Seq(Msg)
         /\ wire'[e] = wire[e] =>
              /\ outbox'[e] = outbox[e] => Stream(e)' = Stream(e)
              /\ \A m \in Msg : outbox'[e] = Append(outbox[e], m)
                                => Stream(e)' = Append(Stream(e), m)
         /\ wire[e] # <<>> => Stream(e) # <<>> /\ Head(wire[e]) = Head(Stream(e))
         /\ wire[e] # <<>> /\ wire'[e] = Tail(wire[e]) /\ outbox'[e] = outbox[e]
              => Stream(e)' = Tail(Stream(e))
         /\ outbox[e] # <<>> => Stream(e) # <<>>
         /\ outbox[e] # <<>> /\ outbox'[e] = Tail(outbox[e])
            /\ wire'[e] = Append(wire[e], Head(outbox[e])) => Stream(e)' = Stream(e)
<1>1. wire[e] \in Seq(Msg) /\ outbox[e] \in Seq(Msg)
  BY DEF TypeOK
<1>2. Stream(e) = wire[e] \o outbox[e] /\ Stream(e)' = wire'[e] \o outbox'[e]
  BY DEF Stream
<1> DEFINE w == wire[e]  o == outbox[e]  v == wire'[e]  p == outbox'[e]
<1> HIDE DEF w, o, v, p
<1>3. w \in Seq(Msg) /\ o \in Seq(Msg) /\ w \o o \in Seq(Msg)
  BY <1>1, Concatenation DEF w, o
<1>4. /\ \A m \in Msg : w \o Append(o, m) = Append(w \o o, m)
      /\ w # <<>> => w \o o # <<>> /\ Head(w \o o) = Head(w) /\ Tail(w) \o o = Tail(w \o o)
      /\ o # <<>> => w \o o # <<>> /\ Append(w, Head(o)) \o Tail(o) = w \o o
  BY <1>3, Concatenation
<1>5. Stream(e) = w \o o /\ Stream(e)' = v \o p
  BY <1>2 DEF w, o, v, p
<1>6. QED
  BY <1>3, <1>4, <1>5 DEF w, o, v, p

(* The kinds of the messages of a stream: the first, and those after it.   *)
Kinds(s, first, later) == \A i \in 1..Len(s) : s[i].kind = IF i = 1 THEN first ELSE later
OnlyJoin(s) == s # <<>> => Len(s) = 1 /\ s[1].kind = "join"

LEMMA KindsTail ==
  ASSUME NEW s \in Seq(Msg), s # <<>>
  PROVE  /\ \A a, b : Kinds(s, a, b) => Head(s).kind = a /\ Kinds(Tail(s), b, b)
         /\ OnlyJoin(s) => Head(s).kind = "join" /\ Tail(s) = <<>>
<1>1. /\ Tail(s) \in Seq(Msg) /\ Len(Tail(s)) = Len(s) - 1 /\ Head(s) = s[1] /\ Len(s) \in Nat \ {0}
      /\ \A i \in 1..Len(Tail(s)) : Tail(s)[i] = s[i + 1]
  BY HeadTailProperties, EmptySeq
<1>2. ASSUME NEW a, NEW b, Kinds(s, a, b) PROVE Head(s).kind = a /\ Kinds(Tail(s), b, b)
  <2>1. Head(s).kind = a
    BY <1>1, <1>2 DEF Kinds
  <2>2. ASSUME NEW i \in 1..Len(Tail(s)) PROVE Tail(s)[i].kind = b
    <3>1. i + 1 \in 1..Len(s) /\ i + 1 # 1
      BY <1>1
    <3>2. QED
      BY <1>1, <1>2, <3>1 DEF Kinds
  <2>3. QED
    BY <2>1, <2>2 DEF Kinds
<1>3. ASSUME OnlyJoin(s) PROVE Head(s).kind = "join" /\ Tail(s) = <<>>
  <2>1. Len(s) = 1 /\ s[1].kind = "join"
    BY <1>3 DEF OnlyJoin
  <2>2. Head(s).kind = "join"
    BY <1>1, <2>1
  <2>3. Len(Tail(s)) = 0
    BY <1>1, <2>1
  <2>4. QED
    BY <1>1, <2>2, <2>3, EmptySeq
<1>4. QED
  BY <1>2, <1>3

LEMMA KindsAppend ==
  ASSUME NEW s \in Seq(Msg), NEW m \in Msg
  PROVE  /\ Append(s, m) \in Seq(Msg) /\ Append(s, m) # <<>>
         /\ \A a, b : Kinds(s, a, b) /\ m.kind = (IF s = <<>> THEN a ELSE b)
                        => Kinds(Append(s, m), a, b)
         /\ s = <<>> /\ m.kind = "join" => OnlyJoin(Append(s, m))
<1>1. /\ Append(s, m) \in Seq(Msg) /\ Append(s, m) # <<>> /\ Len(s) \in Nat
      /\ Len(Append(s, m)) = Len(s) + 1 /\ Append(s, m)[Len(s) + 1] = m
      /\ \A i \in 1..Len(s) : Append(s, m)[i] = s[i]
  BY AppendProperties
<1>2. s = <<>> <=> Len(s) = 0
  BY EmptySeq
<1>3. ASSUME NEW a, NEW b, Kinds(s, a, b), m.kind = IF s = <<>> THEN a ELSE b,
             NEW i \in 1..Len(Append(s, m))
      PROVE  Append(s, m)[i].kind = IF i = 1 THEN a ELSE b
  <2>1. CASE i = Len(s) + 1
    BY <1>1, <1>2, <1>3, <2>1
  <2>2. CASE i # Len(s) + 1
    <3>1. i \in 1..Len(s)
      BY <1>1, <2>2
    <3>2. QED
      BY <1>1, <1>3, <3>1 DEF Kinds
  <2>3. QED
    BY <2>1, <2>2
<1>4. s = <<>> /\ m.kind = "join" => OnlyJoin(Append(s, m))
  BY <1>1, <1>2 DEF OnlyJoin
<1>5. QED
  BY <1>1, <1>3, <1>4 DEF Kinds

----------------------------------------------------------------------------
(* Ends that accept each other, what they say, and when.                   *)
Compatible == expect["out"] \in {Anyone, "in"} /\ expect["in"] \in {Anyone, "out"}

(* An end says who it is and whom it speaks to.                            *)
Says(e) == [kind : {"join", "sync"}, sender : {e[1]}]
           \cup [kind : {"peer"}, sender : {e[1]}, target : {Other(e)[1]}]
Truthful == \A e \in End : wire[e] \in Seq(Says(e)) /\ outbox[e] \in Seq(Says(e))

(* The join comes first and alone, the answer to it before any document.   *)
InStep(c) ==
    LET o == <<"out", c>>
        i == <<"in", c>>
    IN  /\ phase[o] = "Unused" => phase[i] = "Unused" /\ Stream(o) = <<>>
        /\ phase[i] \in {"Unused", "WaitingForJoin"} =>
             Stream(i) = <<>> /\ OnlyJoin(Stream(o)) /\ phase[o] # "Established"
        /\ phase[i] = "Established" =>
             Kinds(Stream(o), "sync", "sync") /\ (phase[o] = "WaitingForPeer" => Stream(i) # <<>>)
        /\ phase[o] = "WaitingForPeer" => Kinds(Stream(i), "peer", "sync")
        /\ phase[o] = "Established" => Kinds(Stream(i), "sync", "sync")

InOrder ==
    /\ rejected = {}
    /\ Truthful
    /\ \A c \in Conn : up[c] => InStep(c)

LEMMA Pair ==
  ASSUME NEW c \in Conn
  PROVE  /\ <<"out", c>> \in End /\ <<"in", c>> \in End
         /\ Other(<<"out", c>>) = <<"in", c>> /\ Other(<<"in", c>>) = <<"out", c>>
         /\ \A e \in End : e[2] = c <=> e \in {<<"out", c>>, <<"in", c>>}
BY DEF End, Side, Other

(* What is taken off or put on the queues of an end it has said itself.    *)
LEMMA Said ==
  ASSUME NEW e \in End, NEW q \in Seq(Says(e))
  PROVE  /\ q \in Seq(Msg) /\ <<>> \in Seq(Says(e))
         /\ \A m \in Says(e) : Append(q, m) \in Seq(Says(e))
         /\ q # <<>> => Head(q) \in Says(e) /\ Tail(q) \in Seq(Says(e))
<1>1. Says(e) \subseteq Msg
  BY Ends DEF Says, Msg, Peer
<1>2. q \in Seq(Msg)
  BY <1>1
<1>3. \A m \in Says(e) : Append(q, m) \in Seq(Says(e))
  BY AppendProperties
<1>4. q # <<>> => Head(q) \in Says(e) /\ Tail(q) \in Seq(Says(e))
  BY HeadTailProperties
<1>5. QED
  BY <1>2, <1>3, <1>4

LEMMA StillTruthful ==
  ASSUME InOrder,
         \A e \in End : wire[e] \in Seq(Says(e)) /\ outbox[e] \in Seq(Says(e))
                       => wire'[e] \in Seq(Says(e)) /\ outbox'[e] \in Seq(Says(e))
  PROVE  Truthful'
<1>1. \A e \in End : wire'[e] \in Seq(Says(e)) /\ outbox'[e] \in Seq(Says(e))
  BY DEF InOrder, Truthful
<1>2. QED
  BY <1>1 DEF Truthful

LEMMA InStepKept ==
  ASSUME NEW c \in Conn, InStep(c), \A e \in End : e[2] = c => Stream(e)' = Stream(e),
         \A e \in End : e[2] = c => phase'[e] = phase[e] \/ (phase'[e] = "Gone" /\ Live(e))
  PROVE  InStep(c)'
<1> DEFINE o == <<"out", c>>  i == <<"in", c>>
<1>1. o \in End /\ i \in End /\ o[2] = c /\ i[2] = c
  BY Pair
<1>2. /\ Stream(o)' = Stream(o) /\ Stream(i)' = Stream(i)
      /\ phase'[o] = phase[o] \/ phase'[o] = "Gone"
      /\ phase'[i] = phase[i] \/ (phase'[i] = "Gone" /\ phase[i] # "Unused")
  BY <1>1 DEF Live
<1>3. QED
  BY <1>2 DEF InStep

(* Connections go, or nothing happens to them.                             *)
LEMMA Quiet ==
  ASSUME TypeOK, InOrder, NEW gone \in SUBSET End, \A e \in gone : Live(e),
         \A e \in End : phase'[e] = IF e \in gone THEN "Gone" ELSE phase[e],
         UNCHANGED <<outbox, wire, up, rejected>>
  PROVE  InOrder'
<1>1. \A e \in End : Stream(e)' = Stream(e)
  BY DEF Stream
<1>2. \A c \in Conn : up'[c] => InStep(c)'
  BY <1>1, InStepKept DEF InOrder
<1>3. QED
  BY <1>2 DEF InOrder, Truthful

LEMMA RemoveInOrder ==
  ASSUME TypeOK, InOrder, NEW gone \in SUBSET End, \A e \in gone : Live(e), NEW reg,
         Remove(gone, reg), UNCHANGED <<outbox, wire, up, rejected>>
  PROVE  InOrder'
<1>1. \A e \in End : phase'[e] = IF e \in gone THEN "Gone" ELSE phase[e]
  BY DEF Remove
<1>2. QED
  BY <1>1, Quiet

LEMMA SameInOrder ==
  ASSUME TypeOK, InOrder, UNCHANGED <<phase, outbox, wire, up, rejected>>
  PROVE  InOrder'
<1> DEFINE gone == {}
<1>1. gone \in SUBSET End /\ \A e \in gone : Live(e)
  OBVIOUS
<1>2. \A e \in End : phase'[e] = IF e \in gone THEN "Gone" ELSE phase[e]
  OBVIOUS
<1> HIDE DEF gone
<1>3. QED
  BY <1>1, <1>2, Quiet

(* An end that takes part reads only what it is waiting for, from the peer *)
(* it expects.                                                             *)
LEMMA NextFits ==
  ASSUME TypeOK, LoopsAgree, Compatible, InOrder, NEW e \in End, Live(e), up[e[2]],
         wire[Other(e)] # <<>>
  PROVE  LET m == Head(wire[Other(e)])
         IN  /\ m \in Says(Other(e)) /\ m \in Msg
             /\ IdentityOk(e, m) /\ Fits(e, m)
             /\ phase[e] = Awaits(e) => m.kind = IF e[1] = "out" THEN "peer" ELSE "join"
             /\ phase[e] = "Established" => m.kind = "sync"
<1> DEFINE f == Other(e)  m == Head(wire[f])  s == Stream(f)
<1>1. f \in End /\ Other(f) = e /\ e[1] \in Side /\ e[2] \in Conn /\ e = <<e[1], e[2]>>
      /\ f[1] = IF e[1] = "out" THEN "in" ELSE "out"
  BY Ends DEF Other, Side
<1>2. m \in Says(f) /\ m \in Msg
  <2>1. wire[f] \in Seq(Says(f))
    BY <1>1 DEF InOrder, Truthful
  <2>2. m \in Says(f)
    BY <1>1, <2>1, Said
  <2>3. QED
    BY <1>1, <2>2, Queues DEF TypeOK
<1>3. s \in Seq(Msg) /\ s # <<>> /\ Head(s) = m
  BY <1>1, StreamStep
<1>4. InStep(e[2])
  BY <1>1 DEF InOrder
<1>5. phase[e] \in {Awaits(e), "Established"}
  BY DEF LoopsAgree, LoopAgrees, Live
<1>6. /\ phase[e] = Awaits(e) => m.kind = IF e[1] = "out" THEN "peer" ELSE "join"
      /\ phase[e] = "Established" => m.kind = "sync"
  <2>1. CASE e[1] = "out"
    <3>1. e = <<"out", e[2]>> /\ f = <<"in", e[2]>>
      BY <2>1, <1>1 DEF Other
    <3>2. /\ phase[e] = "WaitingForPeer" => Kinds(s, "peer", "sync")
          /\ phase[e] = "Established" => Kinds(s, "sync", "sync")
      BY <3>1, <1>4 DEF InStep
    <3>3. QED
      BY <2>1, <3>2, <1>3, KindsTail DEF Awaits
  <2>2. CASE e[1] = "in"
    <3>1. e = <<"in", e[2]>> /\ f = <<"out", e[2]>>
      BY <2>2, <1>1 DEF Other
    <3>2. /\ phase[e] = "WaitingForJoin" => OnlyJoin(s)
          /\ phase[e] = "Established" => Kinds(s, "sync", "sync")
      BY <3>1, <1>4 DEF InStep
    <3>3. QED
      BY <2>2, <3>2, <1>3, KindsTail DEF Awaits
  <2>3. QED
    BY <2>1, <2>2, <1>1 DEF Side
<1>7. m.sender = f[1] /\ (m.kind = "peer" => m.target = e[1]) /\ m.kind \in {"join", "sync", "peer"}
  BY <1>1, <1>2 DEF Says
<1>8. IdentityOk(e, m)
  BY <1>1, <1>7 DEF IdentityOk, Expected, Compatible, Side
<1>9. Fits(e, m)
  BY <1>5, <1>6, <1>1 DEF Fits, Awaits, Side
<1>10. QED
  BY <1>2, <1>6, <1>8, <1>9

(* The end that was waiting has what it waited for.                        *)
LEMMA CompleteInOrder ==
  ASSUME TypeOK, LoopsAgree, InOrder, NEW e \in End, NEW m \in Msg, Live(e), up[e[2]],
         phase[e] = Awaits(e), m \in Says(Other(e)),
         m.kind = IF e[1] = "out" THEN "peer" ELSE "join",
         wire[Other(e)] # <<>>, wire' = [wire EXCEPT ![Other(e)] = Tail(@)],
         Complete(e, m), UNCHANGED <<up, rejected>>
  PROVE  InOrder'
<1> DEFINE f == Other(e)
<1>1. /\ f \in End /\ f # e /\ e[1] \in Side /\ e[2] \in Conn /\ f[2] = e[2]
      /\ e = <<e[1], e[2]>> /\ f = <<f[1], e[2]>> /\ Other(f) = e
      /\ f[1] = IF e[1] = "out" THEN "in" ELSE "out"
  BY Ends DEF Other, Side
<1>2. \A x \in End : phase'[x] = IF x = e THEN "Established" ELSE phase[x]
  BY DEF Complete, TypeOK
<1>3. \A x \in End : wire'[x] = IF x = f THEN Tail(wire[x]) ELSE wire[x]
  BY DEF TypeOK
<1>4. \A x \in End : x # e => outbox'[x] = outbox[x]
  BY DEF Complete, TypeOK
<1>5. \A x \in End : Stream(x) \in Seq(Msg)
  BY StreamStep
<1>6. /\ Stream(f)' = Tail(Stream(f)) /\ Stream(f) # <<>>
      /\ \A x \in End \ {e, f} : Stream(x)' = Stream(x)
  BY <1>1, <1>3, <1>4, StreamStep
<1>7. Truthful'
  <2> SUFFICES ASSUME NEW x \in End PROVE wire'[x] \in Seq(Says(x)) /\ outbox'[x] \in Seq(Says(x))
    BY DEF Truthful, Says
  <2>1. wire[x] \in Seq(Says(x)) /\ outbox[x] \in Seq(Says(x))
    BY DEF InOrder, Truthful
  <2>2. wire'[x] \in Seq(Says(x))
    BY <2>1, <1>3, Said
  <2>3. CASE x # e \/ m.kind # "join"
    <3>1. outbox'[x] = outbox[x]
      BY <2>3, <1>4 DEF Complete
    <3>2. QED
      BY <3>1, <2>1, <2>2
  <2>4. CASE x = e /\ m.kind = "join"
    <3> DEFINE answer == [kind |-> "peer", sender |-> e[1], target |-> m.sender]
    <3>1. m.sender = f[1]
      BY DEF Says
    <3>2. answer \in Says(e)
      BY <3>1 DEF Says
    <3>3. outbox'[x] = Append(outbox[x], answer)
      BY <2>4 DEF Complete, TypeOK
    <3>4. QED
      BY <2>1, <2>2, <2>4, <3>2, <3>3, Said
  <2>5. QED
    BY <2>3, <2>4
<1>8. ASSUME NEW c \in Conn, up[c], c # e[2] PROVE InStep(c)'
  <2>1. \A x \in End : x[2] = c => x \notin {e, f}
    BY <1>1, <1>8
  <2>2. \A x \in End : x[2] = c => Stream(x)' = Stream(x) /\ phase'[x] = phase[x]
    BY <2>1, <1>2, <1>6
  <2>3. QED
    BY <1>8, <2>2, InStepKept DEF InOrder
<1>9. InStep(e[2])'
  <2>0. InStep(e[2])
    BY <1>1 DEF InOrder
  <2>1. CASE e[1] = "out"
    <3>1. e = <<"out", e[2]>> /\ f = <<"in", e[2]>> /\ phase[e] = "WaitingForPeer"
      BY <2>1, <1>1 DEF Awaits
    <3>2. Stream(e)' = Stream(e)
      <4>1. outbox' = outbox
        BY <2>1 DEF Complete
      <4>2. QED
        BY <4>1, <1>1, <1>3 DEF Stream
    <3>3. Kinds(Stream(f)', "sync", "sync") /\ phase[f] \notin {"Unused", "WaitingForJoin"}
      <4>1. Kinds(Stream(f), "peer", "sync") /\ phase[f] \notin {"Unused", "WaitingForJoin"}
        BY <2>0, <3>1, <1>6 DEF InStep
      <4>2. Kinds(Tail(Stream(f)), "sync", "sync")
        BY <4>1, <1>1, <1>5, <1>6, KindsTail
      <4>3. QED
        BY <4>1, <4>2, <1>6
    <3>4. phase'[e] = "Established" /\ phase'[f] = phase[f]
      BY <1>1, <1>2
    <3>5. phase[f] = "Established" => Kinds(Stream(e)', "sync", "sync")
      BY <2>0, <3>1, <3>2 DEF InStep
    <3>6. QED
      BY <3>1, <3>3, <3>4, <3>5 DEF InStep
  <2>2. CASE e[1] = "in"
    <3> DEFINE answer == [kind |-> "peer", sender |-> e[1], target |-> m.sender]
    <3>1. e = <<"in", e[2]>> /\ f = <<"out", e[2]>> /\ phase[e] = "WaitingForJoin" /\ m.kind = "join"
      BY <2>2, <1>1 DEF Awaits
    <3>2. Stream(e) = <<>> /\ OnlyJoin(Stream(f)) /\ phase[f] \notin {"Unused", "Established"}
      BY <2>0, <3>1 DEF InStep
    <3>3. answer \in Msg
      BY <3>1, Messages
    <3>4. Stream(e)' = Append(Stream(e), answer)
      <4>1. outbox'[e] = Append(outbox[e], answer) /\ wire'[e] = wire[e]
        BY <1>1, <1>3, <3>1 DEF Complete, TypeOK
      <4>2. QED
        BY <4>1, <3>3, StreamStep
    <3>5. Stream(e)' # <<>> /\ Kinds(Stream(e)', "peer", "sync")
      <4>1. Kinds(Stream(e), "peer", "sync")
        BY <3>2, EmptySeq DEF Kinds
      <4>2. QED
        <5>1. Append(Stream(e), answer) # <<>> /\ Kinds(Append(Stream(e), answer), "peer", "sync")
          <6> HIDE DEF answer
          <6>1. answer.kind = "peer"
            BY DEF answer
          <6>2. QED
            BY <4>1, <6>1, <3>2, <3>3, <1>5, KindsAppend
        <5>2. QED
          BY <5>1, <3>4
    <3>6. Stream(f)' = <<>>
      BY <3>2, <1>1, <1>5, <1>6, KindsTail
    <3>7. phase'[e] = "Established" /\ phase'[f] = phase[f]
      BY <1>1, <1>2
    <3>8. Kinds(Stream(f)', "sync", "sync")
      BY <3>6, EmptySeq DEF Kinds
    <3>9. QED
      BY <3>1, <3>2, <3>5, <3>7, <3>8 DEF InStep
  <2>3. QED
    BY <2>1, <2>2, <1>1 DEF Side
<1>10. QED
  BY <1>7, <1>8, <1>9 DEF InOrder

(* What is read is dropped by an end that is gone or stopped, or is a      *)
(* document's message.                                                     *)
LEMMA ReadInOrder ==
  ASSUME TypeOK, InOrder, NEW e \in End, wire[Other(e)] # <<>>,
         phase[e] # "Unused", Live(e) => phase[e] = "Established",
         wire' = [wire EXCEPT ![Other(e)] = Tail(@)], UNCHANGED <<phase, outbox, up, rejected>>
  PROVE  InOrder'
<1> DEFINE f == Other(e)
<1>1. /\ f \in End /\ f # e /\ e[1] \in Side /\ e[2] \in Conn /\ f[2] = e[2]
      /\ e = <<e[1], e[2]>> /\ f = <<f[1], e[2]>> /\ Other(f) = e
      /\ f[1] = IF e[1] = "out" THEN "in" ELSE "out"
  BY Ends DEF Other, Side
<1>3. \A x \in End : wire'[x] = IF x = f THEN Tail(wire[x]) ELSE wire[x]
  BY DEF TypeOK
<1>5. \A x \in End : Stream(x) \in Seq(Msg)
  BY StreamStep
<1>6. /\ Stream(f)' = Tail(Stream(f)) /\ Stream(f) # <<>>
      /\ \A x \in End \ {f} : Stream(x)' = Stream(x)
  BY <1>1, <1>3, StreamStep
<1>7. Truthful'
  BY <1>3, Said, StillTruthful
<1>8. ASSUME NEW c \in Conn, up[c], c # e[2] PROVE InStep(c)'
  <2>1. \A x \in End : x[2] = c => Stream(x)' = Stream(x) /\ phase'[x] = phase[x]
    BY <1>1, <1>6, <1>8
  <2>2. QED
    BY <1>8, <2>1, InStepKept DEF InOrder
<1>9. ASSUME up[e[2]] PROVE InStep(e[2])'
  <2>0. InStep(e[2])
    BY <1>1, <1>9 DEF InOrder
  <2>1. Kinds(Stream(f), "sync", "sync") => Kinds(Stream(f)', "sync", "sync")
    BY <1>1, <1>5, <1>6, KindsTail
  <2>2. phase[e] \in {"Established", "Gone"}
    BY DEF Live, TypeOK
  <2>3. Stream(e)' = Stream(e)
    BY <1>1, <1>6
  <2>4. CASE e[1] = "out"
    <3>1. e = <<"out", e[2]>> /\ f = <<"in", e[2]>>
      BY <2>4, <1>1
    <3>2. QED
      BY <3>1, <2>0, <2>1, <2>2, <2>3, <1>6 DEF InStep
  <2>5. CASE e[1] = "in"
    <3>1. e = <<"in", e[2]>> /\ f = <<"out", e[2]>>
      BY <2>5, <1>1
    <3>2. QED
      BY <3>1, <2>0, <2>1, <2>2, <2>3, <1>6 DEF InStep
  <2>6. QED
    BY <2>4, <2>5, <1>1 DEF Side
<1>10. QED
  BY <1>7, <1>8, <1>9 DEF InOrder

LEMMA DialInOrder ==
  ASSUME TypeOK, InOrder, NEW c \in Conn, Dial(c)
  PROVE  InOrder'
<1> DEFINE o == <<"out", c>>  i == <<"in", c>>  join == [kind |-> "join", sender |-> "out"]
<1>1. o \in End /\ i \in End /\ o # i /\ o[1] = "out"
  BY Pair
<1>2. /\ phase[o] = "Unused" /\ UNCHANGED <<wire, up, rejected>>
      /\ \A x \in End : phase'[x] = IF x = o THEN "WaitingForPeer" ELSE phase[x]
      /\ \A x \in End : outbox'[x] = IF x = o THEN <<join>> ELSE outbox[x]
  BY <1>1 DEF Dial, TypeOK
<1>3. join \in Says(o)
  BY DEF Says
<1>4. Truthful'
  <2>1. <<join>> \in Seq(Says(o))
    BY <1>3
  <2>2. QED
    BY <1>2, <2>1, StillTruthful
<1>5. ASSUME NEW d \in Conn, up[d], d # c PROVE InStep(d)'
  <2>1. \A x \in End : x[2] = d => Stream(x)' = Stream(x) /\ phase'[x] = phase[x]
    <3>1. \A x \in End : x[2] = d => x # o
      BY <1>5
    <3>2. QED
      BY <3>1, <1>2, StreamStep
  <2>2. QED
    BY <1>5, <2>1, InStepKept DEF InOrder
<1>6. ASSUME up[c] PROVE InStep(c)'
  <2>1. phase[i] = "Unused" /\ Stream(o) = <<>> /\ Stream(i) = <<>>
    BY <1>2, <1>6 DEF InOrder, InStep
  <2>2. wire[o] = <<>>
    BY <2>1, <1>1, Concatenation DEF Stream, TypeOK
  <2>3. Stream(o)' = <<join>>
    <3>1. join \in Msg
      BY DEF Msg, Peer, Side
    <3>2. <<join>> \in Seq(Msg)
      BY <3>1
    <3>3. QED
      BY <2>2, <3>2, <1>1, <1>2, ConcatEmptySeq DEF Stream
  <2>4. Stream(i)' = <<>> /\ phase'[i] = "Unused" /\ phase'[o] = "WaitingForPeer"
    BY <2>1, <1>1, <1>2 DEF Stream
  <2>5. OnlyJoin(Stream(o)')
    BY <2>3 DEF OnlyJoin
  <2>6. Kinds(Stream(i)', "peer", "sync")
    BY <2>4, EmptySeq DEF Kinds
  <2>7. QED
    BY <2>4, <2>5, <2>6 DEF InStep
<1>7. QED
  BY <1>2, <1>4, <1>5, <1>6 DEF InOrder

(* An accepted connection waits for the join, a refused one is gone.       *)
LEMMA AcceptInOrder ==
  ASSUME TypeOK, InOrder, NEW c \in Conn, NEW p \in {"WaitingForJoin", "Gone"},
         phase[<<"in", c>>] = "Unused", phase[<<"out", c>>] # "Unused",
         phase' = [phase EXCEPT ![<<"in", c>>] = p], UNCHANGED <<outbox, wire, up, rejected>>
  PROVE  InOrder'
<1> DEFINE o == <<"out", c>>  i == <<"in", c>>
<1>1. o \in End /\ i \in End /\ o # i
  BY Pair
<1>2. /\ \A x \in End : phase'[x] = IF x = i THEN p ELSE phase[x]
      /\ \A x \in End : Stream(x)' = Stream(x)
  BY <1>1 DEF TypeOK, Stream
<1>3. ASSUME NEW d \in Conn, up[d], d # c PROVE InStep(d)'
  BY <1>2, <1>3, InStepKept DEF InOrder
<1>4. ASSUME up[c] PROVE InStep(c)'
  BY <1>1, <1>2, <1>4 DEF InOrder, InStep
<1>5. QED
  BY <1>3, <1>4 DEF InOrder, Truthful

(* A document is sent by an end that knows that the other one is listening. *)
LEMMA SendInOrder ==
  ASSUME TypeOK, InOrder, NEW e \in End, SendSync(e)
  PROVE  InOrder'
<1> DEFINE m == [kind |-> "sync", sender |-> e[1]]
<1>1. e[2] \in Conn /\ e \in {<<"out", e[2]>>, <<"in", e[2]>>}
  BY Ends DEF Side
<1>2. /\ phase[e] = "Established" /\ UNCHANGED <<phase, wire, up, rejected>>
      /\ \A x \in End : outbox'[x] = IF x = e THEN Append(outbox[x], m) ELSE outbox[x]
  BY DEF SendSync, Sends, hubVars, TypeOK
<1>3. m \in Says(e) /\ m \in Msg
  BY Ends DEF Says, Msg, Peer
<1>4. \A x \in End : Stream(x) \in Seq(Msg)
  BY StreamStep
<1>5. /\ Stream(e)' = Append(Stream(e), m)
      /\ \A x \in End \ {e} : Stream(x)' = Stream(x)
  <2> HIDE DEF m
  <2>1. QED
    BY <1>2, <1>3, StreamStep
<1>6. Truthful'
  <2> HIDE DEF m
  <2>1. ASSUME NEW x \in End, wire[x] \in Seq(Says(x)), outbox[x] \in Seq(Says(x))
        PROVE  outbox'[x] \in Seq(Says(x))
    <3>1. CASE x = e
      <4>1. Append(outbox[e], m) \in Seq(Says(e))
        BY <2>1, <3>1, <1>3, AppendProperties
      <4>2. QED
        BY <3>1, <4>1, <1>2
    <3>2. CASE x # e
      BY <2>1, <3>2, <1>2
    <3>3. QED
      BY <3>1, <3>2
  <2>2. QED
    BY <2>1, <1>2, StillTruthful
<1>7. ASSUME NEW d \in Conn, up[d], d # e[2] PROVE InStep(d)'
  <2>1. \A x \in End : x[2] = d => Stream(x)' = Stream(x) /\ phase'[x] = phase[x]
    BY <1>2, <1>5, <1>7
  <2>2. QED
    BY <1>7, <2>1, InStepKept DEF InOrder
<1>8. ASSUME up[e[2]] PROVE InStep(e[2])'
  <2> DEFINE o == <<"out", e[2]>>  i == <<"in", e[2]>>
  <2>0. InStep(e[2]) /\ o \in End /\ i \in End /\ o # i
    BY <1>1, <1>8, Pair DEF InOrder
  <2>1. /\ Kinds(Stream(e), "sync", "sync") => Kinds(Stream(e)', "sync", "sync")
        /\ Kinds(Stream(e), "peer", "sync") /\ Stream(e) # <<>> => Kinds(Stream(e)', "peer", "sync")
        /\ Stream(e)' # <<>>
    BY <1>3, <1>4, <1>5, KindsAppend
  <2>2. CASE e = o
    <3>1. Stream(i)' = Stream(i)
      BY <2>0, <2>2, <1>5
    <3>2. QED
      BY <2>0, <2>1, <2>2, <3>1, <1>2 DEF InStep
  <2>3. CASE e = i
    <3>1. Stream(o)' = Stream(o)
      BY <2>0, <2>3, <1>5
    <3>2. QED
      BY <2>0, <2>1, <2>3, <3>1, <1>2 DEF InStep
  <2>4. QED
    BY <2>2, <2>3, <1>1
<1>9. QED
  BY <1>2, <1>6, <1>7, <1>8 DEF InOrder

(* Writing moves a message along its stream; one that is lost was for an   *)
(* end that reads no more.                                                 *)
LEMMA WriteInOrder ==
  ASSUME TypeOK, LoopsAgree, InOrder, NEW e \in End, LoopWrite(e)
  PROVE  InOrder'
<1> DEFINE m == Head(outbox[e])  f == Other(e)
<1>1. /\ e[2] \in Conn /\ f \in End /\ f[2] = e[2] /\ f # e
      /\ (e = <<"out", e[2]>> /\ f = <<"in", e[2]>>) \/ (e = <<"in", e[2]>> /\ f = <<"out", e[2]>>)
  BY Ends DEF Other, Side
<1>2. /\ outbox[e] # <<>> /\ UNCHANGED <<phase, up, rejected>>
      /\ \A x \in End : outbox'[x] = IF x = e THEN Tail(outbox[x]) ELSE outbox[x]
  BY DEF LoopWrite, hubVars, TypeOK
<1>3. \/ /\ wire' = [wire EXCEPT ![e] = Append(@, m)]
         /\ \A x \in End : wire'[x] = IF x = e THEN Append(wire[x], m) ELSE wire[x]
      \/ wire' = wire /\ (~up[e[2]] \/ Shut(f))
  <2>1. \/ wire' = [wire EXCEPT ![e] = Append(@, m)]
        \/ wire' = wire /\ (~up[e[2]] \/ Shut(f))
    BY DEF LoopWrite
  <2> HIDE DEF m
  <2>2. wire \in [End -> Seq(Msg)]
    BY DEF TypeOK
  <2>3. wire' = [wire EXCEPT ![e] = Append(@, m)]
          => \A x \in End : wire'[x] = IF x = e THEN Append(wire[x], m) ELSE wire[x]
    BY <2>2
  <2>4. QED
    BY <2>1, <2>3 DEF m
<1>4. \A x \in End : Stream(x) \in Seq(Msg)
  BY StreamStep
<1>5. Truthful'
  <2> SUFFICES ASSUME NEW x \in End PROVE wire'[x] \in Seq(Says(x)) /\ outbox'[x] \in Seq(Says(x))
    BY DEF Truthful, Says
  <2>1. wire[x] \in Seq(Says(x)) /\ outbox[x] \in Seq(Says(x))
    BY DEF InOrder, Truthful
  <2>2. CASE x = e
    <3>1. m \in Says(x) /\ outbox'[x] \in Seq(Says(x))
      BY <2>1, <2>2, <1>2, Said
    <3>2. wire'[x] \in {wire[x], Append(wire[x], m)}
      BY <2>2, <1>3
    <3>3. QED
      BY <2>1, <3>1, <3>2, Said
  <2>3. CASE x # e
    BY <2>1, <2>3, <1>2, <1>3
  <2>4. QED
    BY <2>2, <2>3
<1>6. \A x \in End : x # e => Stream(x)' = Stream(x)
  BY <1>2, <1>3 DEF Stream
<1>7. Stream(e)' = Stream(e) \/ ~up[e[2]] \/ Shut(f)
  <2>1. CASE wire'[e] = Append(wire[e], m)
    BY <2>1, <1>2, StreamStep
  <2>2. QED
    BY <2>1, <1>3
<1>8. ASSUME NEW d \in Conn, up[d], d # e[2] \/ ~Shut(f) PROVE InStep(d)'
  <2>1. \A x \in End : x[2] = d => Stream(x)' = Stream(x) /\ phase'[x] = phase[x]
    BY <1>2, <1>6, <1>7, <1>8
  <2>2. QED
    BY <1>8, <2>1, InStepKept DEF InOrder
<1>9. ASSUME up[e[2]], Shut(f) PROVE InStep(e[2])'
  <2>1. InStep(e[2])
    BY <1>1, <1>9 DEF InOrder
  <2>2. phase[f] = "Gone"
    <3>1. LoopAgrees(f) /\ loop[f] \in {"done", "refused"}
      BY <1>1, <1>9 DEF LoopsAgree, Shut
    <3>2. phase[f] # "Unused" /\ ~Live(f)
      BY <3>1 DEF LoopAgrees
    <3>3. phase[f] \in Phases
      BY <1>1 DEF TypeOK, Phases
    <3>4. QED
      BY <3>2, <3>3 DEF Live, Phases
  <2>3. Stream(f)' = Stream(f) /\ phase' = phase /\ Stream(e) # <<>>
    BY <1>1, <1>2, <1>6, StreamStep
  <2>4. QED
    BY <1>1, <2>1, <2>2, <2>3 DEF InStep
<1>10. QED
  BY <1>1, <1>2, <1>5, <1>8, <1>9 DEF InOrder

LEMMA BreakInOrder ==
  ASSUME TypeOK, InOrder, NEW c \in Conn, Break(c)
  PROVE  InOrder'
<1>1. /\ UNCHANGED <<phase, outbox, rejected>>
      /\ \A d \in Conn : up'[d] => up[d] /\ d # c
      /\ \A e \in End : wire'[e] = IF e[2] = c THEN <<>> ELSE wire[e]
  BY DEF Break, hubVars, TypeOK
<1>2. Truthful'
  BY <1>1, Said, StillTruthful
<1>3. ASSUME NEW d \in Conn, up'[d] PROVE InStep(d)'
  <2>1. \A x \in End : x[2] = d => Stream(x)' = Stream(x) /\ phase'[x] = phase[x]
    BY <1>1, <1>3 DEF Stream
  <2>2. QED
    BY <1>1, <1>3, <2>1, InStepKept DEF InOrder
<1>4. QED
  BY <1>1, <1>2, <1>3 DEF InOrder

LEMMA InOrderStep ==
  ASSUME TypeOK, LoopsAgree, Compatible, InOrder, [Next]_vars
  PROVE  InOrder'
<1>1. ASSUME NEW c \in Conn, Accept(c) \/ Refuse(c) PROVE InOrder'
  <2>1. PICK p \in {"WaitingForJoin", "Gone"} : phase' = [phase EXCEPT ![<<"in", c>>] = p]
    BY <1>1 DEF Accept, Refuse
  <2>2. /\ phase[<<"in", c>>] = "Unused" /\ phase[<<"out", c>>] # "Unused"
        /\ UNCHANGED <<outbox, wire, up, rejected>>
    BY <1>1, Pair DEF Accept, Refuse
  <2>3. QED
    BY <2>1, <2>2, AcceptInOrder
<1>2. ASSUME NEW e \in End, Disconnect(e) PROVE InOrder'
  BY <1>2, RemoveInOrder DEF Disconnect, Live
<1>3. ASSUME NEW s \in Side, CloseHandle(s) \/ Stop(s) PROVE InOrder'
  <2>1. LiveOf(s) \in SUBSET End /\ \A e \in LiveOf(s) : Live(e)
    BY DEF LiveOf
  <2>2. UNCHANGED <<outbox, wire, up, rejected>>
    BY <1>3 DEF CloseHandle, Stop
  <2>3. Remove(LiveOf(s), registered) \/ Remove(LiveOf(s), registered') \/ phase' = phase
    BY <1>3 DEF CloseHandle, Stop
  <2>4. QED
    BY <2>1, <2>2, <2>3, RemoveInOrder, SameInOrder
<1>4. ASSUME NEW e \in End, LoopLost(e) PROVE InOrder'
  <2>1. UNCHANGED <<outbox, wire, up, rejected>>
    BY <1>4 DEF LoopLost
  <2>2. (Live(e) /\ Remove({e}, registered)) \/ phase' = phase
    BY <1>4 DEF LoopLost
  <2>3. QED
    BY <2>1, <2>2, RemoveInOrder, SameInOrder
<1>5. ASSUME NEW e \in End, LoopRead(e) PROVE InOrder'
  <2> DEFINE m == Head(wire[Other(e)])
  <2>1. /\ loop[e] = "running" /\ up[e[2]] /\ wire[Other(e)] # <<>>
        /\ wire' = [wire EXCEPT ![Other(e)] = Tail(@)] /\ up' = up
    BY <1>5 DEF LoopRead
  <2>2. \/ /\ stopped[e[1]]
           /\ UNCHANGED <<phase, outbox, open, info, dialerConn, active, call, rejected>>
        \/ HandleReceive(e, m)
    BY <1>5 DEF LoopRead
  <2>3. phase[e] # "Unused" /\ (stopped[e[1]] => ~Live(e))
    BY <2>1 DEF LoopsAgree, LoopAgrees
  <2>4. CASE ~Live(e)
    <3>1. UNCHANGED <<phase, outbox, rejected>>
      BY <2>2, <2>4 DEF HandleReceive
    <3>2. QED
      BY <2>1, <2>3, <2>4, <3>1, ReadInOrder
  <2>5. CASE Live(e)
    <3>1. HandleReceive(e, m)
      BY <2>2, <2>3, <2>5
    <3>2. /\ m \in Says(Other(e)) /\ m \in Msg /\ IdentityOk(e, m) /\ Fits(e, m)
          /\ phase[e] = Awaits(e) => m.kind = IF e[1] = "out" THEN "peer" ELSE "join"
          /\ phase[e] = "Established" => m.kind = "sync"
      BY <2>1, <2>5, NextFits
    <3>3. phase[e] \in {Awaits(e), "Established"}
      BY <2>5 DEF LoopsAgree, LoopAgrees, Live
    <3> HIDE DEF m
    <3>4. CASE phase[e] = "Established"
      <4>1. UNCHANGED <<phase, outbox, rejected>>
        BY <2>5, <3>1, <3>2, <3>4 DEF HandleReceive
      <4>2. QED
        BY <2>1, <2>3, <3>4, <4>1, ReadInOrder
    <3>5. CASE phase[e] = Awaits(e)
      <4>1. Complete(e, m) /\ UNCHANGED rejected
        BY <2>5, <3>1, <3>2, <3>5 DEF HandleReceive
      <4>2. QED
        BY <2>1, <2>5, <3>2, <3>5, <4>1, CompleteInOrder
    <3>6. QED
      BY <3>3, <3>4, <3>5
  <2>6. QED
    BY <2>4, <2>5
<1>6. CASE \/ Fail \/ UNCHANGED vars
           \/ \E e \in End : LoopEof(e) \/ LoopClosed(e) \/ LoopFinish(e)
           \/ \E k \in Calls : Await(k)
  <2>1. UNCHANGED <<phase, outbox, wire, up, rejected>>
    BY <1>6 DEF Fail, LoopEof, LoopClosed, LoopFinish, Await, vars, hubVars
  <2>2. QED
    BY <2>1, SameInOrder
<1>7. QED
  BY <1>1, <1>2, <1>3, <1>4, <1>5, <1>6, DialInOrder, SendInOrder, WriteInOrder, BreakInOrder
     DEF Next, Works

(* Two repos that accept each other never refuse a message of the other:   *)
(* each hears of the handshake first, and documents follow when both are   *)
(* done with it (connection.rs:126-325).                                   *)
THEOREM NoneTurnedAway == Spec => []OnlyStrangersRejected
<1> DEFINE Inv == LoopsAgree /\ (Compatible => InOrder)
<1>1. Init => LoopsAgree /\ InOrder
  <2> SUFFICES ASSUME Init PROVE LoopsAgree /\ InOrder
    OBVIOUS
  <2>1. \A e \in End : phase[e] = "Unused" /\ loop[e] = "none"
    BY DEF Init
  <2>2. \A e \in End : wire[e] = <<>> /\ outbox[e] = <<>>
    BY DEF Init
  <2>3. \A e \in End : Stream(e) = <<>>
    BY <2>2, ConcatEmptySeq DEF Stream
  <2>4. LoopsAgree
    BY <2>1 DEF LoopsAgree, LoopAgrees, Live, Awaits
  <2>5. \A c \in Conn : InStep(c)
    BY <2>1, <2>3, Pair DEF InStep, OnlyJoin
  <2>6. Truthful /\ rejected = {}
    BY <2>2, Said DEF Truthful, Init
  <2>7. QED
    BY <2>4, <2>5, <2>6 DEF InOrder
<1>2. TypeOK /\ Inv /\ [Next]_vars => Inv'
  <2> SUFFICES ASSUME TypeOK, Inv, [Next]_vars PROVE Inv'
    OBVIOUS
  <2>1. expect' = expect
    BY DEF Next, Works, Dial, Accept, Refuse, SendSync, Disconnect, CloseHandle, Stop, Fail,
       LoopRead, LoopEof, LoopWrite, LoopClosed, LoopLost, LoopFinish, Break, Await, vars, hubVars
  <2>2. Compatible' <=> Compatible
    BY <2>1 DEF Compatible
  <2>3. LoopsAgree'
    BY LoopsAgreeStep
  <2>4. Compatible => InOrder'
    BY InOrderStep
  <2>5. QED
    BY <2>2, <2>3, <2>4
<1>3. Inv => OnlyStrangersRejected
  BY DEF InOrder, OnlyStrangersRejected, Compatible
<1>4. QED
  BY <1>1, <1>2, <1>3, TypeCorrect, PTL DEF Spec
=============================================================================
