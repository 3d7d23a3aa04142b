---------------------------- MODULE Gossip_proofs ---------------------------
(***************************************************************************)
(* Gossip on any network, whatever breaks and reopens: its types, that the *)
(* applications hear messages once, in order and never their own, and that *)
(* no hub sends more than there was to say.                                *)
(***************************************************************************)
EXTENDS Gossip, SequenceTheorems, FunctionTheorems, FiniteSetTheorems, TLAPS

USE GossipAssumption DEF GossipAssumption

LEMMA HeardTask ==
  ASSUME NEW m \in Msg, NEW k \in Node
  PROVE  /\ Heard(m, k) \in Task
         /\ Heard(m, k).kind = "heard" /\ Heard(m, k).msg = m
BY DEF Heard, Task

LEMMA ClosedTask ==
  ASSUME NEW k \in Node
  PROVE  Closed(k) \in Task /\ Closed(k).kind = "closed"
BY DEF Closed, Task

LEMMA TaskFields ==
  ASSUME NEW t \in Task
  PROVE  /\ t.from \in Node /\ t.kind \in {"heard", "closed"}
         /\ t.kind = "heard" => t.msg \in Msg
BY DEF Task

LEMMA MsgFields ==
  ASSUME NEW m \in Msg
  PROVE  m.sender \in Node /\ m.count \in Nat /\ m.doc \in Doc
BY DEF Msg

LEMMA RequestFields ==
  ASSUME NEW r \in Request
  PROVE  /\ r.to \subseteq Node /\ r.kind \in {"new", "gossip"}
         /\ r.kind = "new" => r.doc \in Doc
         /\ r.kind = "gossip" => r.msg \in Msg
BY DEF Request

(* What a request of an actor becomes on the wire.                         *)
LEMMA NumberedMsg ==
  ASSUME TypeOK, NEW n \in Node, NEW r \in Request
  PROVE  /\ Numbered(n, r) \in Msg
         /\ r.kind = "new" => Numbered(n, r).sender = n
         /\ r.kind = "gossip" => Numbered(n, r) = r.msg
<1>1. r.kind = "new" => r.doc \in Doc
  BY RequestFields
<1>2. r.kind = "gossip" => r.msg \in Msg
  BY RequestFields
<1>3. r.kind \in {"new", "gossip"}
  BY RequestFields
<1>4. counter[n] + 1 \in Nat
  BY DEF TypeOK
<1>5. CASE r.kind = "new"
  BY <1>1, <1>4, <1>5 DEF Numbered, Msg
<1>6. CASE r.kind = "gossip"
  BY <1>2, <1>6 DEF Numbered
<1>7. QED
  BY <1>3, <1>5, <1>6

(* An actor asks to tell neighbours only, and a neighbour is another node. *)
LEMMA TargetsAreOthers ==
  ASSUME TypeOK, NEW n \in Node, NEW d \in Doc
  PROVE  Targets(n, d) \subseteq Node /\ n \notin Targets(n, d)
<1>1. Targets(n, d) \subseteq Node
  BY DEF Targets, TypeOK
<1>2. ASSUME n \in Targets(n, d) PROVE FALSE
  <2>1. <<n, n>> \in End
    BY <1>2 DEF Targets
  <2>2. {n, n} \in Link
    BY <2>1 DEF End
  <2>3. {n, n} = {n}
    OBVIOUS
  <2>4. QED
    BY <2>2, <2>3
<1>3. QED
  BY <1>1, <1>2

LEMMA Requests ==
  ASSUME TypeOK, NEW n \in Node, NEW d \in Doc, NEW m \in Msg
  PROVE  New(d, Targets(n, d)) \in Request /\ PassOn(m, GossipTargets(n, m)) \in Request
<1>1. Targets(n, d) \subseteq Node /\ GossipTargets(n, m) \subseteq Node
  BY TargetsAreOthers, MsgFields DEF GossipTargets
<1>2. QED
  BY <1>1 DEF Request, New, PassOn

----------------------------------------------------------------------------
(* Sessions, queues and what the applications heard keep their shape.      *)
LEMMA TypeStep == TypeOK /\ [Next]_vars => TypeOK'
<1> SUFFICES ASSUME TypeOK, [Next]_vars PROVE TypeOK'
  OBVIOUS
<1>1. ASSUME NEW n \in Node, NEW d \in Doc, Broadcast(n, d) PROVE TypeOK'
  <2>1. New(d, Targets(n, d)) \in Request
    <3>1. Targets(n, d) \subseteq Node
      BY TargetsAreOthers
    <3>2. QED
      BY <3>1 DEF Request, New
  <2>2. Append(toHub[n], New(d, Targets(n, d))) \in Seq(Request)
    BY <2>1, AppendProperties DEF TypeOK
  <2>3. toHub' \in [Node -> Seq(Request)]
    BY <1>1, <2>2 DEF Broadcast, TypeOK
  <2>4. asked' \in [Node -> Nat]
    BY <1>1 DEF Broadcast, TypeOK
  <2>5. QED
    BY <1>1, <2>3, <2>4 DEF Broadcast, TypeOK, hubVars
<1>2. ASSUME NEW n \in Node, NEW d \in Doc, HandleHeard(n, d) PROVE TypeOK'
  <2> DEFINE task == Head(mailbox[n][d])
  <2>0. mailbox[n][d] \in Seq(Task) /\ mailbox[n][d] # <<>> /\ task.kind = "heard"
    BY <1>2 DEF HandleHeard, TypeOK
  <2>1. Tail(mailbox[n][d]) \in Seq(Task) /\ task \in Task
    BY <2>0, HeadTailProperties
  <2>2. mailbox' \in [Node -> [Doc -> Seq(Task)]]
    BY <1>2, <2>1 DEF HandleHeard, TypeOK
  <2>3. task.msg \in Msg
    BY <2>0, <2>1, TaskFields
  <2>4. PassOn(task.msg, GossipTargets(n, task.msg)) \in Request
    BY <2>3, Requests
  <2>5. /\ Append(heard[n][d], task.msg) \in Seq(Msg)
        /\ Append(toHub[n], PassOn(task.msg, GossipTargets(n, task.msg))) \in Seq(Request)
    BY <2>3, <2>4, AppendProperties DEF TypeOK
  <2>6. heard' \in [Node -> [Doc -> Seq(Msg)]] /\ toHub' \in [Node -> Seq(Request)]
    <3>1. CASE task.from \in conns[n][d]
      <4>1. /\ heard' = [heard EXCEPT ![n][d] = Append(@, task.msg)]
            /\ toHub' = [toHub EXCEPT ![n] =
                           Append(@, PassOn(task.msg, GossipTargets(n, task.msg)))]
        BY <1>2, <3>1 DEF HandleHeard
      <4>2. heard' \in [Node -> [Doc -> Seq(Msg)]]
        BY <4>1, <2>5 DEF TypeOK
      <4>3. toHub' \in [Node -> Seq(Request)]
        BY <4>1, <2>5 DEF TypeOK
      <4>4. QED
        BY <4>2, <4>3
    <3>2. CASE task.from \notin conns[n][d]
      BY <1>2, <3>2 DEF HandleHeard, TypeOK
    <3>3. QED
      BY <3>1, <3>2
  <2>7. QED
    BY <1>2, <2>2, <2>6 DEF HandleHeard, TypeOK, hubVars
<1>3. ASSUME NEW n \in Node, NEW d \in Doc, HandleClosed(n, d) PROVE TypeOK'
  <2>1. Tail(mailbox[n][d]) \in Seq(Task)
    BY <1>3, HeadTailProperties DEF HandleClosed, TypeOK
  <2>2. mailbox' \in [Node -> [Doc -> Seq(Task)]]
    BY <1>3, <2>1 DEF HandleClosed, TypeOK
  <2>3. conns' \in [Node -> [Doc -> SUBSET Node]]
    BY <1>3 DEF HandleClosed, TypeOK
  <2>4. QED
    BY <1>3, <2>2, <2>3 DEF HandleClosed, TypeOK, hubVars
<1>4. ASSUME NEW n \in Node, NEW d \in Doc, NEW k \in Node, Decide(n, d, k) PROVE TypeOK'
  <2>1. conns' \in [Node -> [Doc -> SUBSET Node]]
    BY <1>4, SMTT(30) DEF Decide, TypeOK
  <2>2. QED
    BY <1>4, <2>1 DEF Decide, TypeOK, hubVars
<1>5. ASSUME NEW n \in Node, HubBroadcast(n) PROVE TypeOK'
  <2> DEFINE r == Head(toHub[n])
             m == Numbered(n, r)
  <2>1. r \in Request /\ Tail(toHub[n]) \in Seq(Request)
    BY <1>5, HeadTailProperties DEF HubBroadcast, TypeOK
  <2>2. m \in Msg
    BY <2>1, NumberedMsg
  <2> HIDE DEF m, r
  <2>3. \A e \in End : Append(wire[e], m) \in Seq(Msg)
    BY <2>2, AppendProperties DEF TypeOK
  <2>4. wire' \in [End -> Seq(Msg)]
    BY <1>5, <2>3 DEF HubBroadcast, TypeOK, m, r
  <2>5. sure' \in [Node -> SUBSET Msg]
    <3>1. sure' = IF r.kind = "new"
                  THEN [sure EXCEPT ![n] = IF AllHear(n, r) THEN {m} ELSE {}] ELSE sure
      BY <1>5 DEF HubBroadcast, m, r
    <3>2. (IF AllHear(n, r) THEN {m} ELSE {}) \in SUBSET Msg
      BY <2>2
    <3>3. QED
      BY <3>1, <3>2 DEF TypeOK
  <2>6. toHub' \in [Node -> Seq(Request)] /\ counter' \in [Node -> Nat]
    BY <1>5, <2>1 DEF HubBroadcast, TypeOK
  <2>7. QED
    BY <1>5, <2>4, <2>5, <2>6 DEF HubBroadcast, TypeOK
<1>6. ASSUME NEW n \in Node, NEW k \in Node, Receive(n, k) PROVE TypeOK'
  <2> DEFINE m == Head(wire[<<k, n>>])
  <2>1. /\ <<k, n>> \in End
        /\ m \in Msg /\ Tail(wire[<<k, n>>]) \in Seq(Msg)
    BY <1>6, HeadTailProperties DEF Receive, TypeOK
  <2>2. wire' \in [End -> Seq(Msg)]
    BY <1>6, <2>1 DEF Receive, TypeOK
  <2>3. m.sender \in Node /\ m.count \in Nat /\ m.doc \in Doc
    BY <2>1, MsgFields
  <2>4. Append(mailbox[n][m.doc], Heard(m, k)) \in Seq(Task)
    <3>1. Heard(m, k) \in Task
      BY <2>1, HeardTask
    <3>2. \A d \in Doc : mailbox[n][d] \in Seq(Task)
      BY DEF TypeOK
    <3>3. mailbox[n][m.doc] \in Seq(Task)
      BY <2>3, <3>2
    <3>4. QED
      BY <3>1, <3>3, AppendProperties
  <2>5. seen' \in [Node -> [Node -> Nat]] /\ mailbox' \in [Node -> [Doc -> Seq(Task)]]
    <3>1. CASE IsNews(n, m)
      <4>1. /\ seen' = [seen EXCEPT ![n][m.sender] = m.count]
            /\ mailbox' = [mailbox EXCEPT ![n][m.doc] = Append(@, Heard(m, k))]
        BY <1>6, <3>1 DEF Receive
      <4>2. seen' \in [Node -> [Node -> Nat]]
        BY <4>1, <2>3 DEF TypeOK
      <4>3. mailbox' \in [Node -> [Doc -> Seq(Task)]]
        BY <4>1, <2>3, <2>4 DEF TypeOK
      <4>4. QED
        BY <4>2, <4>3
    <3>2. CASE ~IsNews(n, m)
      BY <1>6, <3>2 DEF Receive, TypeOK
    <3>3. QED
      BY <3>1, <3>2
  <2>6. QED
    BY <1>6, <2>2, <2>5 DEF Receive, TypeOK
<1>7. ASSUME NEW l \in Link, Break(l) PROVE TypeOK'
  <2>1. wire' \in [End -> Seq(Msg)]
    BY <1>7 DEF Break, TypeOK
  <2>2. mailbox' \in [Node -> [Doc -> Seq(Task)]]
    <3> SUFFICES ASSUME NEW n \in Node, NEW d \in Doc,
                        NEW k \in Node, k = CHOOSE x \in Node : l = {n, x}
                 PROVE  Append(mailbox[n][d], Closed(k)) \in Seq(Task)
      BY <1>7 DEF Break, TypeOK
    <3>1. QED
      BY ClosedTask, AppendProperties DEF TypeOK
  <2>3. open' \subseteq Link /\ breaks' \in Nat /\ sure' \in [Node -> SUBSET Msg]
    BY <1>7 DEF Break, TypeOK
  <2>4. QED
    BY <1>7, <2>1, <2>2, <2>3 DEF Break, TypeOK
<1>8. ASSUME NEW l \in Link, Reopen(l) PROVE TypeOK'
  BY <1>8 DEF Reopen, TypeOK
<1>9. CASE UNCHANGED vars
  BY <1>9 DEF vars, hubVars, TypeOK
<1>10. QED
  BY <1>1, <1>2, <1>3, <1>4, <1>5, <1>6, <1>7, <1>8, <1>9 DEF Next, Works

(* Any network, any numbers of broadcasts and breaks.                      *)
THEOREM TypeCorrect == Spec => []TypeOK
<1>1. Init => TypeOK
  <2> SUFFICES ASSUME Init PROVE TypeOK
    OBVIOUS
  <2>1. /\ counter \in [Node -> Nat] /\ seen \in [Node -> [Node -> Nat]]
        /\ asked \in [Node -> Nat] /\ breaks \in Nat
    BY DEF Init
  <2>2. /\ wire \in [End -> Seq(Msg)] /\ toHub \in [Node -> Seq(Request)]
        /\ mailbox \in [Node -> [Doc -> Seq(Task)]]
        /\ heard \in [Node -> [Doc -> Seq(Msg)]]
    BY DEF Init
  <2>3. /\ open \subseteq Link /\ conns \in [Node -> [Doc -> SUBSET Node]]
        /\ sure \in [Node -> SUBSET Msg]
    BY DEF Init
  <2>4. QED
    BY <2>1, <2>2, <2>3 DEF TypeOK
<1>2. QED
  BY <1>1, TypeStep, PTL DEF Spec

----------------------------------------------------------------------------
(* Nobody is told its own message: not by what an actor asks for, not on   *)
(* the wire, not in a mailbox, not in the end.                             *)
NotToItself(n, r) == IF r.kind = "new" THEN n \notin r.to ELSE r.msg.sender \notin r.to
NoneToItself(n, rs) == \A i \in 1 .. Len(rs) : NotToItself(n, rs[i])
NoneFrom(n, ms) == \A i \in 1 .. Len(ms) : ms[i].sender # n
NoneHeardFrom(n, q) == \A i \in 1 .. Len(q) : q[i].kind = "heard" => q[i].msg.sender # n

NeverOwn ==
    /\ \A n \in Node : NoneToItself(n, toHub[n])
    /\ \A e \in End : NoneFrom(e[2], wire[e])
    /\ \A n \in Node, d \in Doc : NoneHeardFrom(n, mailbox[n][d])
    /\ \A n \in Node, d \in Doc : NoneFrom(n, heard[n][d])

LEMMA TailsAreOthers ==
  ASSUME NEW n
  PROVE  /\ \A rs \in Seq(Request) : rs # <<>> /\ NoneToItself(n, rs) =>
              NotToItself(n, Head(rs)) /\ NoneToItself(n, Tail(rs))
         /\ \A ms \in Seq(Msg) : ms # <<>> /\ NoneFrom(n, ms) =>
              Head(ms).sender # n /\ NoneFrom(n, Tail(ms))
         /\ \A q \in Seq(Task) : q # <<>> /\ NoneHeardFrom(n, q) =>
              /\ Head(q).kind = "heard" => Head(q).msg.sender # n
              /\ NoneHeardFrom(n, Tail(q))
<1>1. ASSUME NEW S, NEW s \in Seq(S), s # <<>>
      PROVE  /\ Head(s) = s[1] /\ 1 \in 1 .. Len(s)
             /\ \A i \in 1 .. Len(Tail(s)) : i + 1 \in 1 .. Len(s) /\ Tail(s)[i] = s[i + 1]
  BY <1>1, HeadTailProperties
<1>2. QED
  BY <1>1 DEF NoneToItself, NoneFrom, NoneHeardFrom

LEMMA LongerAreOthers ==
  ASSUME NEW n
  PROVE  /\ \A rs \in Seq(Request), r \in Request :
              NoneToItself(n, rs) /\ NotToItself(n, r) => NoneToItself(n, Append(rs, r))
         /\ \A ms \in Seq(Msg), m \in Msg :
              NoneFrom(n, ms) /\ m.sender # n => NoneFrom(n, Append(ms, m))
         /\ \A q \in Seq(Task), x \in Task :
              NoneHeardFrom(n, q) /\ (x.kind = "heard" => x.msg.sender # n)
              => NoneHeardFrom(n, Append(q, x))
<1>1. ASSUME NEW S, NEW s \in Seq(S), NEW x \in S
      PROVE  \A i \in 1 .. Len(Append(s, x)) :
                (i \in 1 .. Len(s) /\ Append(s, x)[i] = s[i]) \/ Append(s, x)[i] = x
  BY <1>1, AppendProperties
<1>2. QED
  BY <1>1 DEF NoneToItself, NoneFrom, NoneHeardFrom

LEMMA NeverOwnStep == TypeOK /\ NeverOwn /\ [Next]_vars => NeverOwn'
<1> SUFFICES ASSUME TypeOK, NeverOwn, [Next]_vars PROVE NeverOwn'
  OBVIOUS
<1>1. ASSUME NEW n \in Node, NEW d \in Doc, Broadcast(n, d) PROVE NeverOwn'
  <2> DEFINE r == New(d, Targets(n, d))
  <2>1. r \in Request
    <3>1. Targets(n, d) \subseteq Node
      BY TargetsAreOthers
    <3>2. QED
      BY <3>1 DEF New, Request
  <2>2. NotToItself(n, r)
    BY TargetsAreOthers DEF NotToItself, New
  <2> HIDE DEF r
  <2>3. toHub' = [toHub EXCEPT ![n] = Append(@, r)]
    BY <1>1 DEF Broadcast, r
  <2>4. NoneToItself(n, Append(toHub[n], r))
    BY <2>1, <2>2, LongerAreOthers DEF NeverOwn, TypeOK
  <2>5. \A k \in Node : NoneToItself(k, toHub'[k])
    BY <2>3, <2>4 DEF NeverOwn, TypeOK
  <2>6. QED
    BY <1>1, <2>5 DEF Broadcast, NeverOwn, hubVars
<1>2. ASSUME NEW n \in Node, NEW d \in Doc, HandleHeard(n, d) PROVE NeverOwn'
  <2> DEFINE q == mailbox[n][d]
             m == Head(q).msg
             r == PassOn(m, GossipTargets(n, m))
  <2>0. q \in Seq(Task) /\ q # <<>> /\ Head(q).kind = "heard"
    BY <1>2 DEF HandleHeard, TypeOK
  <2>1. Head(q) \in Task
    BY <2>0, HeadTailProperties
  <2>2. NoneHeardFrom(n, q)
    BY DEF NeverOwn
  <2>3. NoneHeardFrom(n, Tail(q)) /\ m.sender # n
    BY <2>0, <2>2, TailsAreOthers
  <2>4. m \in Msg
    BY <2>0, <2>1, TaskFields
  <2>5. r \in Request /\ NotToItself(n, r)
    BY <2>4, Requests DEF NotToItself, PassOn, GossipTargets
  <2>6. /\ mailbox' = [mailbox EXCEPT ![n][d] = Tail(q)]
        /\ \/ heard' = heard /\ toHub' = toHub
           \/ /\ heard' = [heard EXCEPT ![n][d] = Append(@, m)]
              /\ toHub' = [toHub EXCEPT ![n] = Append(@, r)]
        /\ wire' = wire
    BY <1>2 DEF HandleHeard
  <2> HIDE DEF q, m, r
  <2>7. \A k \in Node, c \in Doc : NoneHeardFrom(k, mailbox'[k][c])
    <3>1. \A k \in Node, c \in Doc :
             mailbox'[k][c] = IF k = n /\ c = d THEN Tail(q) ELSE mailbox[k][c]
      BY <2>6, SMTT(30) DEF TypeOK
    <3>2. QED
      BY <2>3, <3>1 DEF NeverOwn
  <2>8. NoneToItself(n, Append(toHub[n], r)) /\ NoneFrom(n, Append(heard[n][d], m))
    <3>1. toHub[n] \in Seq(Request) /\ heard[n][d] \in Seq(Msg)
      BY DEF TypeOK
    <3>2. NoneToItself(n, toHub[n]) /\ NoneFrom(n, heard[n][d])
      BY DEF NeverOwn
    <3>3. NoneToItself(n, Append(toHub[n], r))
      BY <2>5, <3>1, <3>2, LongerAreOthers
    <3>4. NoneFrom(n, Append(heard[n][d], m))
      BY <2>3, <2>4, <3>1, <3>2, LongerAreOthers
    <3>5. QED
      BY <3>3, <3>4
  <2>9. \A k \in Node : NoneToItself(k, toHub'[k])
    BY <2>6, <2>8 DEF NeverOwn, TypeOK
  <2>10. \A k \in Node, c \in Doc : NoneFrom(k, heard'[k][c])
    <3>1. \A k \in Node, c \in Doc :
             \/ heard'[k][c] = heard[k][c]
             \/ k = n /\ c = d /\ heard'[k][c] = Append(heard[n][d], m)
      <4>1. CASE heard' = heard
        BY <4>1
      <4>2. CASE heard' = [heard EXCEPT ![n][d] = Append(@, m)]
        BY <4>2 DEF TypeOK
      <4>3. QED
        BY <2>6, <4>1, <4>2
    <3>2. QED
      BY <2>8, <3>1 DEF NeverOwn
  <2>11. QED
    BY <2>6, <2>7, <2>9, <2>10 DEF NeverOwn
<1>3. ASSUME NEW n \in Node, NEW d \in Doc, HandleClosed(n, d) PROVE NeverOwn'
  <2>1. mailbox[n][d] \in Seq(Task) /\ mailbox[n][d] # <<>> /\ NoneHeardFrom(n, mailbox[n][d])
    BY <1>3 DEF HandleClosed, TypeOK, NeverOwn
  <2>2. NoneHeardFrom(n, Tail(mailbox[n][d]))
    BY <2>1, TailsAreOthers
  <2>3. \A k \in Node, c \in Doc : NoneHeardFrom(k, mailbox'[k][c])
    BY <1>3, <2>2 DEF HandleClosed, NeverOwn, TypeOK
  <2>4. QED
    BY <1>3, <2>3 DEF HandleClosed, NeverOwn
<1>4. ASSUME NEW n \in Node, NEW d \in Doc, NEW k \in Node, Decide(n, d, k) PROVE NeverOwn'
  BY <1>4 DEF Decide, NeverOwn
<1>5. ASSUME NEW n \in Node, HubBroadcast(n) PROVE NeverOwn'
  <2> DEFINE r == Head(toHub[n])
             m == Numbered(n, r)
  <2>1. toHub[n] \in Seq(Request) /\ toHub[n] # <<>> /\ NoneToItself(n, toHub[n])
    BY <1>5 DEF HubBroadcast, TypeOK, NeverOwn
  <2>2. NotToItself(n, r) /\ NoneToItself(n, Tail(toHub[n]))
    BY <2>1, TailsAreOthers
  <2>3. r \in Request
    BY <2>1, HeadTailProperties
  <2>4. m \in Msg /\ m.sender \notin r.to
    BY <2>2, <2>3, NumberedMsg, RequestFields DEF NotToItself
  <2>5. /\ toHub' = [toHub EXCEPT ![n] = Tail(@)]
        /\ wire' = [e \in End |->
                      IF e[1] = n /\ e[2] \in r.to /\ {e[1], e[2]} \in open
                      THEN Append(wire[e], m) ELSE wire[e]]
    BY <1>5 DEF HubBroadcast
  <2> HIDE DEF r, m
  <2>6. \A k \in Node : NoneToItself(k, toHub'[k])
    BY <2>2, <2>5 DEF NeverOwn, TypeOK
  <2>7. \A e \in End : e[2] \in r.to => NoneFrom(e[2], Append(wire[e], m))
    BY <2>4, LongerAreOthers DEF NeverOwn, TypeOK
  <2>8. \A e \in End : NoneFrom(e[2], wire'[e])
    BY <2>5, <2>7 DEF NeverOwn
  <2>9. QED
    BY <1>5, <2>6, <2>8 DEF HubBroadcast, NeverOwn
<1>6. ASSUME NEW n \in Node, NEW k \in Node, Receive(n, k) PROVE NeverOwn'
  <2> DEFINE e == <<k, n>>
             m == Head(wire[e])
  <2>1. /\ e \in End /\ e[2] = n /\ wire[e] \in Seq(Msg) /\ wire[e] # <<>>
        /\ NoneFrom(n, wire[e])
    BY <1>6 DEF Receive, TypeOK, NeverOwn
  <2>2. m.sender # n /\ NoneFrom(n, Tail(wire[e]))
    BY <2>1, TailsAreOthers
  <2>3. m \in Msg
    BY <2>1, HeadTailProperties
  <2>4. m.doc \in Doc /\ Heard(m, k) \in Task /\ Heard(m, k).msg = m
    BY <2>3, MsgFields, HeardTask
  <2>5. /\ wire' = [wire EXCEPT ![e] = Tail(wire[e])]
        /\ \/ mailbox' = mailbox
           \/ mailbox' = [mailbox EXCEPT ![n][m.doc] = Append(@, Heard(m, k))]
    BY <1>6 DEF Receive
  <2> HIDE DEF m, e
  <2>6. \A x \in End : NoneFrom(x[2], wire'[x])
    <3>1. \A x \in End : wire'[x] = IF x = e THEN Tail(wire[e]) ELSE wire[x]
      BY <2>1, <2>5 DEF TypeOK
    <3>2. QED
      BY <2>1, <2>2, <3>1 DEF NeverOwn
  <2>7. \A d \in Doc : NoneHeardFrom(n, Append(mailbox[n][d], Heard(m, k)))
    <3>1. \A d \in Doc : mailbox[n][d] \in Seq(Task) /\ NoneHeardFrom(n, mailbox[n][d])
      BY DEF NeverOwn, TypeOK
    <3>2. QED
      BY <2>2, <2>4, <3>1, LongerAreOthers
  <2>8. \A j \in Node, d \in Doc : NoneHeardFrom(j, mailbox'[j][d])
    <3>1. CASE mailbox' = mailbox
      BY <3>1 DEF NeverOwn
    <3>2. CASE mailbox' = [mailbox EXCEPT ![n][m.doc] = Append(@, Heard(m, k))]
      BY <3>2, <2>4, <2>7 DEF NeverOwn, TypeOK
    <3>3. QED
      BY <2>5, <3>1, <3>2
  <2>9. QED
    BY <1>6, <2>6, <2>8 DEF Receive, NeverOwn
<1>7. ASSUME NEW l \in Link, Break(l) PROVE NeverOwn'
  <2>1. \A e \in End : NoneFrom(e[2], wire'[e])
    <3>1. \A n : NoneFrom(n, <<>>)
      BY DEF NoneFrom
    <3>2. QED
      BY <1>7, <3>1 DEF Break, NeverOwn
  <2>2. \A n \in Node, d \in Doc, k \in Node : NoneHeardFrom(n, Append(mailbox[n][d], Closed(k)))
    <3>1. \A n \in Node, d \in Doc :
             mailbox[n][d] \in Seq(Task) /\ NoneHeardFrom(n, mailbox[n][d])
      BY DEF NeverOwn, TypeOK
    <3>2. \A k \in Node : Closed(k) \in Task /\ Closed(k).kind # "heard"
      BY ClosedTask
    <3>3. QED
      BY <3>1, <3>2, LongerAreOthers
  <2>3. \A n \in Node, d \in Doc : NoneHeardFrom(n, mailbox'[n][d])
    BY <1>7, <2>2 DEF Break, NeverOwn, TypeOK
  <2>4. QED
    BY <1>7, <2>1, <2>3 DEF Break, NeverOwn
<1>8. ASSUME NEW l \in Link, Reopen(l) PROVE NeverOwn'
  BY <1>8 DEF Reopen, NeverOwn
<1>9. CASE UNCHANGED vars
  BY <1>9 DEF vars, hubVars, NeverOwn
<1>10. QED
  BY <1>1, <1>2, <1>3, <1>4, <1>5, <1>6, <1>7, <1>8, <1>9 DEF Next, Works

----------------------------------------------------------------------------
(* What the application at a node heard of a document, what waits in the   *)
(* mailbox for it, and what the hub counted: for each sender in order, and *)
(* nothing newer than the hub has seen.                                    *)
Before(x, y) == x.sender = y.sender => x.count < y.count
UpTo(s, x) == x.count <= s[x.sender]

HeardPart(h, s) ==
    /\ \A i, j \in 1 .. Len(h) : i < j => Before(h[i], h[j])
    /\ \A i \in 1 .. Len(h) : UpTo(s, h[i])
WaitingPart(q, s) ==
    /\ \A i, j \in 1 .. Len(q) :
          i < j /\ q[i].kind = "heard" /\ q[j].kind = "heard" => Before(q[i].msg, q[j].msg)
    /\ \A i \in 1 .. Len(q) : q[i].kind = "heard" => UpTo(s, q[i].msg)
HeardFirst(h, q) ==
    \A i \in 1 .. Len(h), j \in 1 .. Len(q) : q[j].kind = "heard" => Before(h[i], q[j].msg)
Sorted(h, q, s) == HeardPart(h, s) /\ WaitingPart(q, s) /\ HeardFirst(h, q)

AllSorted == \A n \in Node, d \in Doc : Sorted(heard[n][d], mailbox[n][d], seen[n])

Counts == [Node -> Nat]

(* A task leaves the mailbox.                                              *)
LEMMA SortedTail ==
  ASSUME NEW h \in Seq(Msg), NEW q \in Seq(Task), q # <<>>, NEW s \in Counts, Sorted(h, q, s)
  PROVE  Sorted(h, Tail(q), s)
<1>1. \A i \in 1 .. Len(Tail(q)) : i + 1 \in 1 .. Len(q) /\ Tail(q)[i] = q[i + 1]
  BY HeadTailProperties
<1>2. WaitingPart(Tail(q), s)
  <2>1. \A i, j \in 1 .. Len(Tail(q)) : i < j => i + 1 < j + 1
    BY HeadTailProperties
  <2>2. QED
    BY <1>1, <2>1 DEF Sorted, WaitingPart
<1>3. HeardFirst(h, Tail(q))
  BY <1>1 DEF Sorted, HeardFirst
<1>4. QED
  BY <1>2, <1>3 DEF Sorted

(* ... and its message is heard.                                           *)
LEMMA SortedHear ==
  ASSUME NEW h \in Seq(Msg), NEW q \in Seq(Task), q # <<>>, NEW s \in Counts, Sorted(h, q, s),
         Head(q).kind = "heard", Head(q).msg \in Msg
  PROVE  Sorted(Append(h, Head(q).msg), Tail(q), s)
<1> DEFINE m == Head(q).msg
           g == Append(h, m)
<1>1. Head(q) = q[1] /\ 1 \in 1 .. Len(q)
  BY HeadTailProperties
<1>2. \A i \in 1 .. Len(Tail(q)) :
         i + 1 \in 1 .. Len(q) /\ 1 < i + 1 /\ Tail(q)[i] = q[i + 1]
  BY HeadTailProperties
<1>3. UpTo(s, m)
  BY <1>1 DEF Sorted, WaitingPart
<1>4. \A i \in 1 .. Len(h) : Before(h[i], m)
  BY <1>1 DEF Sorted, HeardFirst
<1>5. \A j \in 1 .. Len(Tail(q)) : Tail(q)[j].kind = "heard" => Before(m, Tail(q)[j].msg)
  BY <1>1, <1>2 DEF Sorted, WaitingPart
<1>6. Sorted(h, Tail(q), s)
  BY SortedTail
<1> HIDE DEF m
<1>7. /\ \A i \in 1 .. Len(h) : g[i] = h[i]
      /\ g[Len(h) + 1] = m /\ Len(g) = Len(h) + 1 /\ Len(h) \in Nat
  <2>1. m \in Msg
    BY DEF m
  <2>2. QED
    BY <2>1, AppendProperties
<1> HIDE DEF g
<1>8. HeardPart(g, s)
  <2>1. ASSUME NEW i \in 1 .. Len(g), NEW j \in 1 .. Len(g), i < j PROVE Before(g[i], g[j])
    <3>1. Len(g) = Len(h) + 1 /\ Len(h) \in Nat
      BY <1>7
    <3>2. i \in 1 .. Len(h) /\ (j \in 1 .. Len(h) \/ j = Len(h) + 1)
      BY <2>1, <3>1
    <3>3. CASE j \in 1 .. Len(h)
      BY <2>1, <3>2, <3>3, <1>6, <1>7 DEF Sorted, HeardPart
    <3>4. CASE j = Len(h) + 1
      BY <3>2, <3>4, <1>4, <1>7
    <3>5. QED
      BY <3>2, <3>3, <3>4
  <2>2. ASSUME NEW i \in 1 .. Len(g) PROVE UpTo(s, g[i])
    <3>1. i \in 1 .. Len(h) \/ i = Len(h) + 1
      BY <1>7
    <3>2. QED
      BY <3>1, <1>3, <1>6, <1>7 DEF Sorted, HeardPart
  <2>3. QED
    BY <2>1, <2>2 DEF HeardPart
<1>9. HeardFirst(g, Tail(q))
  <2>1. ASSUME NEW i \in 1 .. Len(g), NEW j \in 1 .. Len(Tail(q)), Tail(q)[j].kind = "heard"
        PROVE  Before(g[i], Tail(q)[j].msg)
    <3>1. i \in 1 .. Len(h) \/ i = Len(h) + 1
      BY <1>7
    <3>2. QED
      BY <2>1, <3>1, <1>5, <1>6, <1>7 DEF Sorted, HeardFirst
  <2>2. QED
    BY <2>1 DEF HeardFirst
<1>10. Sorted(g, Tail(q), s)
  BY <1>6, <1>8, <1>9 DEF Sorted
<1>11. QED
  BY <1>10 DEF g, m

(* The hub counts further.                                                 *)
LEMMA SortedMore ==
  ASSUME NEW h \in Seq(Msg), NEW q \in Seq(Task), NEW s \in Counts, NEW r \in Counts,
         \A k \in Node : s[k] <= r[k], Sorted(h, q, s)
  PROVE  Sorted(h, q, r)
<1>1. \A m \in Msg : UpTo(s, m) => UpTo(r, m)
  BY MsgFields DEF UpTo, Counts
<1>2. \A i \in 1 .. Len(h) : h[i] \in Msg
  OBVIOUS
<1>3. \A i \in 1 .. Len(q) : q[i].kind = "heard" => q[i].msg \in Msg
  BY TaskFields
<1>4. QED
  BY <1>1, <1>2, <1>3 DEF Sorted, HeardPart, WaitingPart

(* A task that is no message, or one newer than all before, is queued.     *)
LEMMA SortedAppend ==
  ASSUME NEW h \in Seq(Msg), NEW q \in Seq(Task), NEW s \in Counts, Sorted(h, q, s),
         NEW x \in Task,
         x.kind = "heard" =>
           /\ UpTo(s, x.msg)
           /\ \A i \in 1 .. Len(h) : Before(h[i], x.msg)
           /\ \A i \in 1 .. Len(q) : q[i].kind = "heard" => Before(q[i].msg, x.msg)
  PROVE  Sorted(h, Append(q, x), s)
<1> DEFINE p == Append(q, x)
<1>1. /\ \A i \in 1 .. Len(q) : p[i] = q[i]
      /\ p[Len(q) + 1] = x /\ Len(p) = Len(q) + 1 /\ Len(q) \in Nat
  BY AppendProperties
<1> HIDE DEF p
<1>2. \A i \in 1 .. Len(p) : i \in 1 .. Len(q) \/ i = Len(q) + 1
  BY <1>1
<1>3. \A i, j \in 1 .. Len(p) : i < j => i \in 1 .. Len(q)
  BY <1>1
<1>4. WaitingPart(p, s)
  <2>1. ASSUME NEW i \in 1 .. Len(p), NEW j \in 1 .. Len(p), i < j,
               p[i].kind = "heard", p[j].kind = "heard"
        PROVE  Before(p[i].msg, p[j].msg)
    <3>1. CASE j \in 1 .. Len(q)
      BY <2>1, <3>1, <1>1, <1>3 DEF Sorted, WaitingPart
    <3>2. CASE j = Len(q) + 1
      <4>1. i \in 1 .. Len(q)
        BY <2>1, <1>3
      <4>2. p[i] = q[i] /\ p[j] = x
        BY <4>1, <3>2, <1>1
      <4>3. q[i].kind = "heard" /\ x.kind = "heard"
        BY <2>1, <4>2
      <4>4. Before(q[i].msg, x.msg)
        BY <4>1, <4>3
      <4>5. QED
        BY <4>2, <4>4
    <3>3. QED
      BY <3>1, <3>2, <1>2
  <2>2. ASSUME NEW i \in 1 .. Len(p), p[i].kind = "heard" PROVE UpTo(s, p[i].msg)
    BY <2>2, <1>1, <1>2 DEF Sorted, WaitingPart
  <2>3. QED
    BY <2>1, <2>2 DEF WaitingPart
<1>5. HeardFirst(h, p)
  BY <1>1, <1>2 DEF Sorted, HeardFirst
<1>6. QED
  BY <1>4, <1>5 DEF Sorted, p

LEMMA AllSortedStep == TypeOK /\ AllSorted /\ [Next]_vars => AllSorted'
<1> SUFFICES ASSUME TypeOK, AllSorted, [Next]_vars PROVE AllSorted'
  OBVIOUS
<1>0. ASSUME NEW n \in Node, NEW d \in Doc
      PROVE  /\ heard[n][d] \in Seq(Msg) /\ mailbox[n][d] \in Seq(Task) /\ seen[n] \in Counts
             /\ Sorted(heard[n][d], mailbox[n][d], seen[n])
  BY DEF AllSorted, TypeOK, Counts
<1>1. ASSUME NEW n \in Node, NEW d \in Doc, Broadcast(n, d) PROVE AllSorted'
  BY <1>1 DEF Broadcast, AllSorted, hubVars
<1>2. ASSUME NEW n \in Node, NEW d \in Doc, HandleHeard(n, d) PROVE AllSorted'
  <2> DEFINE q == mailbox[n][d]
             h == heard[n][d]
             s == seen[n]
             m == Head(q).msg
  <2>1. /\ q # <<>> /\ Head(q).kind = "heard" /\ mailbox' = [mailbox EXCEPT ![n][d] = Tail(q)]
        /\ heard' = heard \/ heard' = [heard EXCEPT ![n][d] = Append(h, m)]
        /\ seen' = seen
    BY <1>2 DEF HandleHeard, hubVars
  <2>2. h \in Seq(Msg) /\ q \in Seq(Task) /\ s \in Counts /\ Sorted(h, q, s)
    BY <1>0
  <2>3. m \in Msg
    <3>1. Head(q) \in Task
      BY <2>1, <2>2, HeadTailProperties
    <3>2. QED
      BY <2>1, <3>1, TaskFields
  <2>4. Sorted(h, Tail(q), s)
    BY <2>1, <2>2, SortedTail
  <2>5. Sorted(Append(h, m), Tail(q), s)
    BY <2>1, <2>2, <2>3, SortedHear
  <2> HIDE DEF q, h, m, s
  <2>6. \A k \in Node, c \in Doc :
          mailbox'[k][c] = IF k = n /\ c = d THEN Tail(q) ELSE mailbox[k][c]
    BY <2>1 DEF TypeOK
  <2>7. \A k \in Node, c \in Doc :
          \/ heard'[k][c] = heard[k][c]
          \/ k = n /\ c = d /\ heard'[k][c] = Append(h, m)
    <3>1. CASE heard' = heard
      BY <3>1
    <3>2. CASE heard' = [heard EXCEPT ![n][d] = Append(h, m)]
      BY <3>2 DEF TypeOK
    <3>3. QED
      BY <2>1, <3>1, <3>2
  <2>8. ASSUME NEW k \in Node, NEW c \in Doc
        PROVE  Sorted(heard'[k][c], mailbox'[k][c], seen'[k])
    <3>1. CASE k = n /\ c = d
      BY <3>1, <2>1, <2>4, <2>5, <2>6, <2>7 DEF h, s
    <3>2. CASE ~(k = n /\ c = d)
      BY <3>2, <2>1, <2>6, <2>7, <1>0
    <3>3. QED
      BY <3>1, <3>2
  <2>9. QED
    BY <2>8 DEF AllSorted
<1>3. ASSUME NEW n \in Node, NEW d \in Doc, HandleClosed(n, d) PROVE AllSorted'
  <2>1. /\ mailbox[n][d] # <<>> /\ mailbox' = [mailbox EXCEPT ![n][d] = Tail(@)]
        /\ heard' = heard /\ seen' = seen
    BY <1>3 DEF HandleClosed, hubVars
  <2>2. Sorted(heard[n][d], Tail(mailbox[n][d]), seen[n])
    BY <1>0, <2>1, SortedTail
  <2>3. \A k \in Node, c \in Doc :
          mailbox'[k][c] = IF k = n /\ c = d THEN Tail(mailbox[n][d]) ELSE mailbox[k][c]
    BY <2>1 DEF TypeOK
  <2>4. QED
    BY <2>1, <2>2, <2>3 DEF AllSorted
<1>4. ASSUME NEW n \in Node, NEW d \in Doc, NEW k \in Node, Decide(n, d, k) PROVE AllSorted'
  BY <1>4 DEF Decide, AllSorted, hubVars
<1>5. ASSUME NEW n \in Node, HubBroadcast(n) PROVE AllSorted'
  BY <1>5 DEF HubBroadcast, AllSorted
<1>6. ASSUME NEW n \in Node, NEW k \in Node, Receive(n, k) PROVE AllSorted'
  <2> DEFINE m == Head(wire[<<k, n>>])
             x == Heard(m, k)
             s == [seen[n] EXCEPT ![m.sender] = m.count]
  <2>1. m \in Msg
    BY <1>6, HeadTailProperties DEF Receive, TypeOK
  <2>2. m.sender \in Node /\ m.count \in Nat /\ m.doc \in Doc
    BY <2>1, MsgFields
  <2>3. x \in Task /\ x.msg = m
    BY <2>1, HeardTask
  <2>4. CASE ~IsNews(n, m)
    BY <1>6, <2>4 DEF Receive, AllSorted
  <2>5. CASE IsNews(n, m)
    <3>1. /\ seen' = [seen EXCEPT ![n][m.sender] = m.count]
          /\ mailbox' = [mailbox EXCEPT ![n][m.doc] = Append(@, x)]
          /\ heard' = heard
      BY <1>6, <2>5 DEF Receive
    <3>2. seen[n][m.sender] < m.count
      BY <2>5 DEF IsNews
    <3>3. \A y \in Msg : UpTo(seen[n], y) => Before(y, m)
      BY <3>2, <2>1, <1>0, MsgFields DEF UpTo, Before, Counts
    <3> HIDE DEF m
    <3>4. /\ s \in Counts /\ \A j \in Node : seen[n][j] <= s[j]
          /\ s[m.sender] = m.count
      BY <2>2, <3>2, <1>0 DEF Counts
    <3>5. seen' = [seen EXCEPT ![n] = s]
      BY <3>1, <2>2 DEF TypeOK
    <3> HIDE DEF s, x
    <3>6. ASSUME NEW d \in Doc PROVE Sorted(heard[n][d], mailbox[n][d], s)
      BY <1>0, <3>4, SortedMore
    <3>7. ASSUME NEW d \in Doc PROVE Sorted(heard[n][d], Append(mailbox[n][d], x), s)
      <4> DEFINE h == heard[n][d]
                 q == mailbox[n][d]
      <4>1. h \in Seq(Msg) /\ q \in Seq(Task) /\ Sorted(h, q, seen[n])
        <5>1. /\ heard[n][d] \in Seq(Msg) /\ mailbox[n][d] \in Seq(Task)
              /\ Sorted(heard[n][d], mailbox[n][d], seen[n])
          BY <1>0
        <5>2. QED
          BY <5>1
      <4>2. UpTo(s, x.msg)
        BY <2>2, <2>3, <3>4 DEF UpTo
      <4>3. \A i \in 1 .. Len(h) : Before(h[i], x.msg)
        BY <4>1, <3>3, <2>3 DEF Sorted, HeardPart
      <4>4. \A i \in 1 .. Len(q) : q[i].kind = "heard" => Before(q[i].msg, x.msg)
        <5>1. \A i \in 1 .. Len(q) : q[i].kind = "heard" => q[i].msg \in Msg
          BY <4>1, TaskFields
        <5>2. QED
          BY <5>1, <4>1, <3>3, <2>3 DEF Sorted, WaitingPart
      <4>5. Sorted(h, q, s)
        BY <3>6
      <4> HIDE DEF h, q
      <4>6. Sorted(h, Append(q, x), s)
        BY <4>1, <4>2, <4>3, <4>4, <4>5, <2>3, <3>4, SortedAppend
      <4>7. QED
        BY <4>6 DEF h, q
    <3>8. \A j \in Node, c \in Doc :
            mailbox'[j][c] = IF j = n /\ c = m.doc THEN Append(mailbox[n][c], x) ELSE mailbox[j][c]
      BY <3>1, <2>2 DEF TypeOK
    <3>9. \A j \in Node : seen'[j] = IF j = n THEN s ELSE seen[j]
      BY <3>5 DEF TypeOK
    <3>10. ASSUME NEW j \in Node, NEW c \in Doc
           PROVE  Sorted(heard'[j][c], mailbox'[j][c], seen'[j])
      <4>1. CASE j = n /\ c = m.doc
        BY <4>1, <3>1, <3>7, <3>8, <3>9
      <4>2. CASE j = n /\ c # m.doc
        BY <4>2, <3>1, <3>6, <3>8, <3>9
      <4>3. CASE j # n
        BY <4>3, <1>0, <3>1, <3>8, <3>9
      <4>4. QED
        BY <4>1, <4>2, <4>3
    <3>11. QED
      BY <3>10 DEF AllSorted
  <2>6. QED
    BY <2>4, <2>5
<1>7. ASSUME NEW l \in Link, Break(l) PROVE AllSorted'
  <2>1. ASSUME NEW n \in Node, NEW d \in Doc, NEW k \in Node
        PROVE  Sorted(heard[n][d], Append(mailbox[n][d], Closed(k)), seen[n])
    <3>1. Closed(k) \in Task /\ Closed(k).kind # "heard"
      BY ClosedTask
    <3>2. QED
      BY <1>0, <3>1, SortedAppend
  <2>2. ASSUME NEW n \in Node, NEW d \in Doc
        PROVE  \/ mailbox'[n][d] = mailbox[n][d]
               \/ \E k \in Node : mailbox'[n][d] = Append(mailbox[n][d], Closed(k))
    BY <1>7 DEF Break
  <2>3. heard' = heard /\ seen' = seen
    BY <1>7 DEF Break
  <2>4. QED
    BY <2>1, <2>2, <2>3, <1>0 DEF AllSorted
<1>8. ASSUME NEW l \in Link, Reopen(l) PROVE AllSorted'
  BY <1>8 DEF Reopen, AllSorted
<1>9. CASE UNCHANGED vars
  BY <1>9 DEF vars, hubVars, AllSorted
<1>10. QED
  BY <1>1, <1>2, <1>3, <1>4, <1>5, <1>6, <1>7, <1>8, <1>9 DEF Next, Works

(* An application hears a message once at most, those of a sender in the   *)
(* order it sent them, and never its own, on any network, whatever breaks. *)
THEOREM HeardOnceInOrder == Spec => []HeardInOrder
<1> DEFINE IInv == NeverOwn /\ AllSorted
<1>1. Init => IInv
  BY DEF Init, NeverOwn, AllSorted, NoneToItself, NoneFrom, NoneHeardFrom,
         Sorted, HeardPart, WaitingPart, HeardFirst
<1>2. TypeOK /\ IInv /\ [Next]_vars => IInv'
  BY NeverOwnStep, AllSortedStep
<1>3. TypeOK /\ IInv => HeardInOrder
  <2> SUFFICES ASSUME TypeOK, IInv, NEW n \in Node, NEW d \in Doc,
                      NEW i \in 1 .. Len(heard[n][d]), NEW j \in 1 .. Len(heard[n][d])
               PROVE  /\ heard[n][d][i].sender # n
                      /\ i < j /\ heard[n][d][i].sender = heard[n][d][j].sender
                           => heard[n][d][i].count < heard[n][d][j].count
    BY DEF HeardInOrder
  <2>1. NoneFrom(n, heard[n][d]) /\ HeardPart(heard[n][d], seen[n])
    BY DEF NeverOwn, AllSorted, Sorted
  <2>2. QED
    BY <2>1 DEF NoneFrom, HeardPart, Before
<1>4. QED
  BY <1>1, <1>2, <1>3, TypeCorrect, PTL DEF Spec

----------------------------------------------------------------------------
(* Where messages are: on the wire, waiting for an actor, with an          *)
(* application, or waiting for a hub to pass them on.                      *)
In(x, q) == \E i \in 1 .. Len(q) : q[i] = x
ToHear(m, q) == \E i \in 1 .. Len(q) : q[i].kind = "heard" /\ q[i].msg = m
ToPass(m, q) == \E i \in 1 .. Len(q) : q[i].kind = "gossip" /\ q[i].msg = m

Accepted(n, d, m) == In(m, heard[n][d]) \/ ToHear(m, mailbox[n][d])
Present(m) ==
    \/ \E e \in End : In(m, wire[e])
    \/ \E n \in Node, d \in Doc : Accepted(n, d, m)
    \/ \E n \in Node : ToPass(m, toHub[n])

LEMMA Positions ==
  ASSUME NEW S, NEW q \in Seq(S)
  PROVE  /\ q # <<>> => /\ Head(q) = q[1] /\ 1 \in 1 .. Len(q)
                        /\ \A i \in 1 .. Len(Tail(q)) : i + 1 \in 1 .. Len(q) /\ Tail(q)[i] = q[i + 1]
         /\ \A x \in S : \A i \in 1 .. Len(Append(q, x)) :
               \/ i \in 1 .. Len(q) /\ Append(q, x)[i] = q[i]
               \/ i = Len(q) + 1 /\ Append(q, x)[i] = x
         /\ \A x \in S : \A i \in 1 .. Len(q) :
               i \in 1 .. Len(Append(q, x)) /\ Append(q, x)[i] = q[i]
         /\ \A x \in S : /\ Len(q) + 1 \in 1 .. Len(Append(q, x))
                         /\ Append(q, x)[Len(q) + 1] = x
<1>1. ASSUME q # <<>>
      PROVE  /\ Head(q) = q[1] /\ 1 \in 1 .. Len(q)
             /\ \A i \in 1 .. Len(Tail(q)) : i + 1 \in 1 .. Len(q) /\ Tail(q)[i] = q[i + 1]
  BY <1>1, HeadTailProperties
<1>2. ASSUME NEW x \in S
      PROVE  /\ \A i \in 1 .. Len(Append(q, x)) :
                  \/ i \in 1 .. Len(q) /\ Append(q, x)[i] = q[i]
                  \/ i = Len(q) + 1 /\ Append(q, x)[i] = x
             /\ \A i \in 1 .. Len(q) : i \in 1 .. Len(Append(q, x)) /\ Append(q, x)[i] = q[i]
             /\ Len(q) + 1 \in 1 .. Len(Append(q, x)) /\ Append(q, x)[Len(q) + 1] = x
  BY <1>2, AppendProperties
<1>3. QED
  BY <1>1, <1>2

(* A message enters a queue with what is appended, and none enters when    *)
(* the first is taken off.                                                 *)
LEMMA InMsgs ==
  ASSUME NEW q \in Seq(Msg), NEW m
  PROVE  /\ q # <<>> => In(Head(q), q) /\ (In(m, Tail(q)) => In(m, q))
         /\ \A x \in Msg : In(m, Append(q, x)) <=> In(m, q) \/ m = x
<1>1. ASSUME q # <<>> PROVE In(Head(q), q) /\ (In(m, Tail(q)) => In(m, q))
  <2>1. /\ Head(q) = q[1] /\ 1 \in 1 .. Len(q)
        /\ \A i \in 1 .. Len(Tail(q)) : i + 1 \in 1 .. Len(q) /\ Tail(q)[i] = q[i + 1]
    BY <1>1, Positions
  <2>2. QED
    BY <2>1 DEF In
<1>2. ASSUME NEW x \in Msg PROVE In(m, Append(q, x)) <=> In(m, q) \/ m = x
  <2> DEFINE p == Append(q, x)
  <2>1. /\ \A i \in 1 .. Len(p) : (i \in 1 .. Len(q) /\ p[i] = q[i]) \/ p[i] = x
        /\ \A i \in 1 .. Len(q) : i \in 1 .. Len(p) /\ p[i] = q[i]
        /\ Len(q) + 1 \in 1 .. Len(p) /\ p[Len(q) + 1] = x
    BY Positions
  <2> HIDE DEF p
  <2>2. In(m, p) <=> In(m, q) \/ m = x
    BY <2>1 DEF In
  <2>3. QED
    BY <2>2 DEF p
<1>3. QED
  BY <1>1, <1>2

LEMMA InTasks ==
  ASSUME NEW q \in Seq(Task), NEW m
  PROVE  /\ q # <<>> => /\ ToHear(m, Tail(q)) => ToHear(m, q)
                        /\ Head(q).kind = "heard" => ToHear(Head(q).msg, q)
         /\ \A x \in Task :
               ToHear(m, Append(q, x)) => ToHear(m, q) \/ (x.kind = "heard" /\ m = x.msg)
<1>1. ASSUME q # <<>> PROVE /\ ToHear(m, Tail(q)) => ToHear(m, q)
                            /\ Head(q).kind = "heard" => ToHear(Head(q).msg, q)
  <2>1. /\ Head(q) = q[1] /\ 1 \in 1 .. Len(q)
        /\ \A i \in 1 .. Len(Tail(q)) : i + 1 \in 1 .. Len(q) /\ Tail(q)[i] = q[i + 1]
    BY <1>1, Positions
  <2>2. QED
    BY <2>1 DEF ToHear
<1>2. ASSUME NEW x \in Task
      PROVE  ToHear(m, Append(q, x)) => ToHear(m, q) \/ (x.kind = "heard" /\ m = x.msg)
  <2> DEFINE p == Append(q, x)
  <2>1. \A i \in 1 .. Len(p) : (i \in 1 .. Len(q) /\ p[i] = q[i]) \/ p[i] = x
    BY Positions
  <2> HIDE DEF p
  <2>2. ToHear(m, p) => ToHear(m, q) \/ (x.kind = "heard" /\ m = x.msg)
    BY <2>1 DEF ToHear
  <2>3. QED
    BY <2>2 DEF p
<1>3. QED
  BY <1>1, <1>2

LEMMA InRequests ==
  ASSUME NEW q \in Seq(Request), NEW m
  PROVE  /\ q # <<>> => /\ ToPass(m, Tail(q)) => ToPass(m, q)
                        /\ Head(q).kind = "gossip" => ToPass(Head(q).msg, q)
         /\ \A x \in Request :
               ToPass(m, Append(q, x)) => ToPass(m, q) \/ (x.kind = "gossip" /\ m = x.msg)
<1>1. ASSUME q # <<>> PROVE /\ ToPass(m, Tail(q)) => ToPass(m, q)
                            /\ Head(q).kind = "gossip" => ToPass(Head(q).msg, q)
  <2>1. /\ Head(q) = q[1] /\ 1 \in 1 .. Len(q)
        /\ \A i \in 1 .. Len(Tail(q)) : i + 1 \in 1 .. Len(q) /\ Tail(q)[i] = q[i + 1]
    BY <1>1, Positions
  <2>2. QED
    BY <2>1 DEF ToPass
<1>2. ASSUME NEW x \in Request
      PROVE  ToPass(m, Append(q, x)) => ToPass(m, q) \/ (x.kind = "gossip" /\ m = x.msg)
  <2> DEFINE p == Append(q, x)
  <2>1. \A i \in 1 .. Len(p) : (i \in 1 .. Len(q) /\ p[i] = q[i]) \/ p[i] = x
    BY Positions
  <2> HIDE DEF p
  <2>2. ToPass(m, p) => ToPass(m, q) \/ (x.kind = "gossip" /\ m = x.msg)
    BY <2>1 DEF ToPass
  <2>3. QED
    BY <2>2 DEF p
<1>3. QED
  BY <1>1, <1>2

(* An application or a mailbox has a message that it had before, or that   *)
(* the hub has just found new.                                             *)
LEMMA AcceptedStep ==
  ASSUME TypeOK, [Next]_vars, NEW n \in Node, NEW d \in Doc, NEW m \in Msg, Accepted(n, d, m)'
  PROVE  \/ Accepted(n, d, m)
         \/ \E k \in Node : /\ Receive(n, k) /\ m = Head(wire[<<k, n>>]) /\ IsNews(n, m)
                            /\ d = m.doc
<1> DEFINE q == mailbox[n][d]  h == heard[n][d]
<1>0. q \in Seq(Task) /\ h \in Seq(Msg)
  BY DEF TypeOK
<1>1. ASSUME mailbox'[n][d] = mailbox[n][d], heard'[n][d] = heard[n][d] PROVE Accepted(n, d, m)
  BY <1>1 DEF Accepted
<1>2. ASSUME NEW k \in Node, NEW c \in Doc, HandleHeard(k, c) PROVE Accepted(n, d, m)
  <2> DEFINE u == mailbox[k][c]  x == Head(u).msg
  <2>0. /\ u # <<>> /\ Head(u).kind = "heard"
        /\ mailbox' = [mailbox EXCEPT ![k][c] = Tail(u)]
        /\ heard' = heard \/ heard' = [heard EXCEPT ![k][c] = Append(heard[k][c], x)]
    BY <1>2 DEF HandleHeard
  <2> HIDE DEF u, x
  <2>1. /\ mailbox'[n][d] = IF k = n /\ c = d THEN Tail(u) ELSE mailbox[n][d]
        /\ \/ heard'[n][d] = heard[n][d]
           \/ k = n /\ c = d /\ heard'[n][d] = Append(heard[n][d], x)
    <3>1. mailbox'[n][d] = IF k = n /\ c = d THEN Tail(u) ELSE mailbox[n][d]
      BY <2>0 DEF TypeOK
    <3>2. CASE heard' = heard
      BY <3>1, <3>2
    <3>3. CASE heard' = [heard EXCEPT ![k][c] = Append(heard[k][c], x)]
      BY <3>1, <3>3 DEF TypeOK
    <3>4. QED
      BY <2>0, <3>2, <3>3
  <2>2. CASE k = n /\ c = d
    <3>1. /\ q # <<>> /\ Head(q).kind = "heard" /\ mailbox'[n][d] = Tail(q)
          /\ heard'[n][d] = h \/ heard'[n][d] = Append(h, Head(q).msg)
      BY <2>0, <2>1, <2>2 DEF u, x
    <3>2. Head(q).msg \in Msg
      BY <1>0, <3>1, HeadTailProperties, TaskFields
    <3>3. /\ ToHear(m, Tail(q)) => ToHear(m, q)
          /\ ToHear(Head(q).msg, q)
      BY <1>0, <3>1, InTasks
    <3> HIDE DEF q, h
    <3>4. In(m, Append(h, Head(q).msg)) => In(m, h) \/ m = Head(q).msg
      BY <1>0, <3>2, InMsgs
    <3>5. QED
      BY <3>1, <3>3, <3>4 DEF Accepted, q, h
  <2>3. CASE ~(k = n /\ c = d)
    <3>1. mailbox'[n][d] = mailbox[n][d] /\ heard'[n][d] = heard[n][d]
      BY <2>3, <2>1
    <3>2. QED
      BY <3>1, <1>1
  <2>4. QED
    BY <2>2, <2>3
<1>3. ASSUME NEW k \in Node, NEW c \in Doc, HandleClosed(k, c) PROVE Accepted(n, d, m)
  <2>1. heard' = heard /\ (mailbox'[n][d] = q \/ (q # <<>> /\ mailbox'[n][d] = Tail(q)))
    BY <1>3 DEF HandleClosed, TypeOK
  <2>2. q # <<>> /\ ToHear(m, Tail(q)) => ToHear(m, q)
    BY <1>0, InTasks
  <2>3. QED
    BY <2>1, <2>2 DEF Accepted
<1>4. ASSUME NEW j \in Node, NEW k \in Node, Receive(j, k)
      PROVE  \/ Accepted(n, d, m)
             \/ j = n /\ m = Head(wire[<<k, n>>]) /\ IsNews(n, m) /\ d = m.doc
  <2> DEFINE p == Head(wire[<<k, j>>])
  <2>1. p \in Msg
    BY <1>4, HeadTailProperties DEF Receive, TypeOK
  <2>2. /\ heard' = heard
        /\ IF IsNews(j, p) THEN mailbox' = [mailbox EXCEPT ![j][p.doc] = Append(@, Heard(p, k))]
           ELSE mailbox' = mailbox
    BY <1>4 DEF Receive
  <2> HIDE DEF p
  <2>3. CASE mailbox'[n][d] = mailbox[n][d]
    BY <2>2, <2>3, <1>1
  <2>4. CASE mailbox'[n][d] # mailbox[n][d]
    <3>1. j = n /\ p.doc = d /\ IsNews(j, p) /\ mailbox'[n][d] = Append(q, Heard(p, k))
      <4>1. p.doc \in Doc
        BY <2>1, MsgFields
      <4>2. /\ IsNews(j, p)
            /\ mailbox' = [mailbox EXCEPT ![j][p.doc] = Append(mailbox[j][p.doc], Heard(p, k))]
        BY <2>2, <2>4
      <4>3. mailbox'[n][d] = IF n = j /\ d = p.doc THEN Append(mailbox[j][p.doc], Heard(p, k))
                             ELSE mailbox[n][d]
        <5> DEFINE y == Append(mailbox[j][p.doc], Heard(p, k))
        <5>1. mailbox' = [mailbox EXCEPT ![j][p.doc] = y]
          BY <4>2
        <5> HIDE DEF y
        <5>2. mailbox'[n][d] = IF n = j /\ d = p.doc THEN y ELSE mailbox[n][d]
          BY <4>1, <5>1 DEF TypeOK
        <5>3. QED
          BY <5>2 DEF y
      <4>4. QED
        BY <4>2, <4>3, <2>4
    <3>2. Heard(p, k) \in Task /\ Heard(p, k).msg = p
      BY <2>1, HeardTask
    <3>3. ToHear(m, Append(q, Heard(p, k))) => ToHear(m, q) \/ m = p
      BY <1>0, <3>2, InTasks
    <3>4. QED
      BY <3>1, <3>3, <2>2 DEF Accepted, p
  <2>5. QED
    BY <2>3, <2>4
<1>5. ASSUME NEW l \in Link, Break(l) PROVE Accepted(n, d, m)
  <2>1. heard' = heard
    BY <1>5 DEF Break
  <2>2. \/ mailbox'[n][d] = q
        \/ \E k \in Node : mailbox'[n][d] = Append(q, Closed(k))
    BY <1>5 DEF Break
  <2>3. \A k \in Node : ToHear(m, Append(q, Closed(k))) => ToHear(m, q)
    <3>1. \A k \in Node : Closed(k) \in Task /\ Closed(k).kind # "heard"
      BY ClosedTask
    <3>2. QED
      BY <1>0, <3>1, InTasks
  <2>4. QED
    BY <2>1, <2>2, <2>3 DEF Accepted
<1>6. CASE \/ \E k \in Node : HubBroadcast(k)
           \/ \E k \in Node, c \in Doc : Broadcast(k, c) \/ \E j \in Node : Decide(k, c, j)
           \/ \E l \in Link : Reopen(l)
           \/ UNCHANGED vars
  <2>1. UNCHANGED <<mailbox, heard>>
    BY <1>6 DEF HubBroadcast, Broadcast, Decide, Reopen, vars
  <2>2. QED
    BY <2>1, <1>1
<1>7. QED
  BY <1>2, <1>3, <1>4, <1>5, <1>6 DEF Next, Works

(* All that is anywhere was somewhere before, or has just been numbered.   *)
LEMMA PresentStep ==
  ASSUME TypeOK, [Next]_vars, NEW m \in Msg, Present(m)'
  PROVE  \/ Present(m)
         \/ \E n \in Node : /\ HubBroadcast(n) /\ Head(toHub[n]).kind = "new"
                            /\ m = Numbered(n, Head(toHub[n]))
<1>0. /\ \A e \in End : wire[e] \in Seq(Msg)
      /\ \A n \in Node : toHub[n] \in Seq(Request)
  BY DEF TypeOK
<1>1. ASSUME NEW n \in Node, NEW d \in Doc, Accepted(n, d, m)' PROVE Present(m)
  <2>1. CASE Accepted(n, d, m)
    BY <2>1 DEF Present
  <2>2. ASSUME NEW k \in Node, Receive(n, k), m = Head(wire[<<k, n>>]) PROVE Present(m)
    <3>1. <<k, n>> \in End /\ wire[<<k, n>>] # <<>>
      BY <2>2 DEF Receive
    <3>2. In(m, wire[<<k, n>>])
      BY <1>0, <2>2, <3>1, InMsgs
    <3>3. QED
      BY <3>1, <3>2 DEF Present
  <2>3. QED
    BY <1>1, <2>1, <2>2, AcceptedStep
<1>2. ASSUME NEW e \in End, In(m, wire'[e])
      PROVE  \/ Present(m)
             \/ \E n \in Node : /\ HubBroadcast(n) /\ Head(toHub[n]).kind = "new"
                                /\ m = Numbered(n, Head(toHub[n]))
  <2>1. CASE In(m, wire[e])
    BY <2>1 DEF Present
  <2>2. ASSUME NEW n \in Node, HubBroadcast(n), ~In(m, wire[e])
        PROVE  \/ Present(m)
               \/ Head(toHub[n]).kind = "new" /\ m = Numbered(n, Head(toHub[n]))
    <3> DEFINE r == Head(toHub[n])
    <3>1. r \in Request /\ toHub[n] # <<>>
      BY <1>0, <2>2, HeadTailProperties DEF HubBroadcast
    <3>2. wire'[e] = wire[e] \/ wire'[e] = Append(wire[e], Numbered(n, r))
      BY <2>2 DEF HubBroadcast
    <3> HIDE DEF r
    <3>3. Numbered(n, r) \in Msg /\ (r.kind = "gossip" => Numbered(n, r) = r.msg)
          /\ r.kind \in {"new", "gossip"}
      BY <3>1, NumberedMsg, RequestFields
    <3>4. m = Numbered(n, r)
      <4>1. In(m, Append(wire[e], Numbered(n, r))) => In(m, wire[e]) \/ m = Numbered(n, r)
        BY <1>0, <3>3, InMsgs
      <4>2. QED
        BY <1>2, <2>2, <3>2, <4>1
    <3>5. r.kind = "gossip" => ToPass(r.msg, toHub[n])
      BY <1>0, <3>1, InRequests DEF r
    <3>6. QED
      BY <3>3, <3>4, <3>5 DEF Present, r
  <2>3. ASSUME ~In(m, wire[e]) PROVE \E n \in Node : HubBroadcast(n)
    <3>1. \/ \E n \in Node : HubBroadcast(n)
          \/ wire' = wire
          \/ \E n, k \in Node : Receive(n, k)
          \/ \E l \in Link : Break(l)
      BY DEF Next, Works, HandleHeard, HandleClosed, Broadcast, Decide, Reopen, vars
    <3>2. ASSUME NEW n \in Node, NEW k \in Node, Receive(n, k) PROVE FALSE
      <4>1. wire'[e] = wire[e] \/ (wire[e] # <<>> /\ wire'[e] = Tail(wire[e]))
        BY <3>2 DEF Receive, TypeOK
      <4>2. QED
        BY <1>0, <1>2, <2>3, <4>1, InMsgs
    <3>3. ASSUME NEW l \in Link, Break(l) PROVE FALSE
      <4>1. wire'[e] = wire[e] \/ wire'[e] = <<>>
        BY <3>3 DEF Break
      <4>2. ~In(m, <<>>)
        BY DEF In
      <4>3. QED
        BY <1>2, <2>3, <4>1, <4>2
    <3>4. QED
      BY <3>1, <3>2, <3>3, <1>2, <2>3
  <2>4. QED
    BY <2>1, <2>2, <2>3
<1>3. ASSUME NEW n \in Node, ToPass(m, toHub'[n]) PROVE Present(m)
  <2>1. CASE ToPass(m, toHub[n])
    BY <2>1 DEF Present
  <2>2. ASSUME NEW k \in Node, NEW d \in Doc, HandleHeard(k, d), ~ToPass(m, toHub[n])
        PROVE  Present(m)
    <3> DEFINE t == Head(mailbox[k][d])  r == PassOn(t.msg, GossipTargets(k, t.msg))
    <3>1. mailbox[k][d] \in Seq(Task) /\ mailbox[k][d] # <<>> /\ t.kind = "heard" /\ t \in Task
      <4>1. mailbox[k][d] \in Seq(Task)
        BY DEF TypeOK
      <4>2. mailbox[k][d] # <<>> /\ t.kind = "heard"
        BY <2>2 DEF HandleHeard
      <4>3. QED
        BY <4>1, <4>2, HeadTailProperties
    <3>2. r \in Request /\ r.msg = t.msg
      BY <3>1, TaskFields, Requests DEF PassOn
    <3>3. toHub'[n] = toHub[n] \/ toHub'[n] = Append(toHub[n], r)
      BY <2>2 DEF HandleHeard, TypeOK
    <3>4. ToHear(t.msg, mailbox[k][d])
      BY <3>1, InTasks
    <3> HIDE DEF r, t
    <3>5. m = t.msg
      <4>1. ToPass(m, Append(toHub[n], r)) => ToPass(m, toHub[n]) \/ m = r.msg
        BY <1>0, <3>2, InRequests
      <4>2. QED
        BY <1>3, <2>2, <3>2, <3>3, <4>1
    <3>6. QED
      BY <3>4, <3>5 DEF Present, Accepted
  <2>3. ASSUME NEW k \in Node, NEW d \in Doc, Broadcast(k, d) PROVE ToPass(m, toHub[n])
    <3> DEFINE r == New(d, Targets(k, d))
    <3>1. r \in Request /\ r.kind = "new"
      <4>1. Targets(k, d) \subseteq Node
        BY TargetsAreOthers
      <4>2. QED
        BY <4>1 DEF Request, New
    <3>2. toHub'[n] = toHub[n] \/ toHub'[n] = Append(toHub[n], r)
      BY <2>3 DEF Broadcast, TypeOK
    <3> HIDE DEF r
    <3>3. ToPass(m, Append(toHub[n], r)) => ToPass(m, toHub[n])
      BY <1>0, <3>1, InRequests
    <3>4. QED
      BY <1>3, <3>2, <3>3
  <2>4. ASSUME NEW k \in Node, HubBroadcast(k) PROVE ToPass(m, toHub[n])
    <3>1. toHub'[n] = toHub[n] \/ (toHub[n] # <<>> /\ toHub'[n] = Tail(toHub[n]))
      BY <2>4 DEF HubBroadcast, TypeOK
    <3>2. QED
      BY <1>0, <1>3, <3>1, InRequests
  <2>5. \/ \E k \in Node, d \in Doc : HandleHeard(k, d) \/ Broadcast(k, d)
        \/ \E k \in Node : HubBroadcast(k)
        \/ toHub' = toHub
    BY DEF Next, Works, HandleClosed, Decide, Receive, Break, Reopen, vars
  <2>6. QED
    BY <1>3, <2>1, <2>2, <2>3, <2>4, <2>5
<1>4. QED
  BY <1>1, <1>2, <1>3 DEF Present

----------------------------------------------------------------------------
(* A node accepts a message of a sender under its number once, whichever   *)
(* document it is about: the hub counts by sender.                         *)
SameId(m, p) == m.sender = p.sender /\ m.count = p.count
Apart ==
    \A n \in Node : \A d, f \in Doc : \A m, p \in Msg :
        d # f /\ Accepted(n, d, m) /\ Accepted(n, f, p) => ~SameId(m, p)

LEMMA AcceptedUpTo ==
  ASSUME TypeOK, AllSorted, NEW n \in Node, NEW d \in Doc, NEW m \in Msg, Accepted(n, d, m)
  PROVE  m.count <= seen[n][m.sender]
<1>1. Sorted(heard[n][d], mailbox[n][d], seen[n])
  BY DEF AllSorted
<1>2. CASE In(m, heard[n][d])
  BY <1>1, <1>2 DEF In, Sorted, HeardPart, UpTo
<1>3. CASE ToHear(m, mailbox[n][d])
  BY <1>1, <1>3 DEF ToHear, Sorted, WaitingPart, UpTo
<1>4. QED
  BY <1>2, <1>3 DEF Accepted

LEMMA ApartStep == TypeOK /\ AllSorted /\ Apart /\ [Next]_vars => Apart'
<1> SUFFICES ASSUME TypeOK, AllSorted, Apart, [Next]_vars,
                    NEW n \in Node, NEW d \in Doc, NEW f \in Doc, NEW m \in Msg, NEW p \in Msg,
                    d # f, Accepted(n, d, m)', Accepted(n, f, p)', SameId(m, p)
             PROVE  FALSE
  BY DEF Apart
<1>1. ASSUME NEW k \in Node, Receive(n, k) PROVE wire[<<k, n>>] # <<>>
  BY <1>1 DEF Receive
<1>2. ASSUME NEW x \in Msg, NEW c \in Doc, Accepted(n, c, x), NEW y \in Msg, IsNews(n, y)
      PROVE  ~SameId(x, y)
  <2>1. x.count <= seen[n][x.sender] /\ seen[n][y.sender] < y.count
    BY <1>2, AcceptedUpTo DEF IsNews
  <2>2. x.count \in Nat /\ y.count \in Nat /\ x.sender \in Node /\ y.sender \in Node
    BY MsgFields
  <2>3. seen[n][x.sender] \in Nat
    <3>1. seen[n] \in [Node -> Nat]
      BY DEF TypeOK
    <3>2. QED
      BY <2>2, <3>1
  <2>4. SUFFICES ASSUME x.sender = y.sender, x.count = y.count PROVE FALSE
    BY DEF SameId
  <2>5. seen[n][x.sender] < x.count
    BY <2>1, <2>4
  <2>6. QED
    BY <2>1, <2>2, <2>3, <2>5
<1>3. CASE Accepted(n, d, m) /\ Accepted(n, f, p)
  BY <1>3 DEF Apart
<1>4. CASE Accepted(n, d, m) /\ ~Accepted(n, f, p)
  <2>1. IsNews(n, p)
    BY <1>4, AcceptedStep
  <2>2. QED
    BY <2>1, <1>2, <1>4
<1>5. CASE ~Accepted(n, d, m) /\ Accepted(n, f, p)
  <2>1. IsNews(n, m)
    BY <1>5, AcceptedStep
  <2>2. QED
    BY <2>1, <1>2, <1>5 DEF SameId
<1>6. CASE ~Accepted(n, d, m) /\ ~Accepted(n, f, p)
  <2>1. PICK k \in Node : Receive(n, k) /\ m = Head(wire[<<k, n>>]) /\ IsNews(n, m) /\ d = m.doc
    BY <1>6, AcceptedStep
  <2>2. PICK j \in Node : Receive(n, j) /\ p = Head(wire[<<j, n>>]) /\ IsNews(n, p) /\ f = p.doc
    BY <1>6, AcceptedStep
  <2>3. seen' = [seen EXCEPT ![n][m.sender] = m.count]
    BY <2>1 DEF Receive
  <2>4. mailbox' = [mailbox EXCEPT ![n][d] = Append(@, Heard(m, k))] /\ heard' = heard
    BY <2>1 DEF Receive
  <2>5. mailbox'[n][f] = mailbox[n][f]
    BY <2>4 DEF TypeOK
  <2>6. Accepted(n, f, p)
    BY <2>4, <2>5 DEF Accepted
  <2>7. QED
    BY <2>6, <1>6
<1>7. QED
  BY <1>3, <1>4, <1>5, <1>6

----------------------------------------------------------------------------
(* Every request that a hub has taken or has before it was a broadcast of  *)
(* its application, or passes on a message that the application heard.     *)
HeardIds(n) ==
    {i \in Node \X Nat : \E d \in Doc, m \in Msg :
        In(m, heard[n][d]) /\ m.sender = i[1] /\ m.count = i[2]}
Tally ==
    \A n \in Node : /\ IsFiniteSet(HeardIds(n))
                    /\ counter[n] + Len(toHub[n]) = asked[n] + Cardinality(HeardIds(n))

LEMMA TallySame ==
  ASSUME TypeOK, Tally, UNCHANGED <<heard, counter, toHub, asked>>
  PROVE  Tally'
<1>1. \A n \in Node : HeardIds(n)' = HeardIds(n)
  BY DEF HeardIds
<1>2. QED
  BY <1>1 DEF Tally

LEMMA TallyStep == TypeOK /\ AllSorted /\ Apart /\ Tally /\ [Next]_vars => Tally'
<1> SUFFICES ASSUME TypeOK, AllSorted, Apart, Tally, [Next]_vars PROVE Tally'
  OBVIOUS
<1>0. \A n \in Node : /\ toHub[n] \in Seq(Request) /\ Len(toHub[n]) \in Nat
                      /\ counter[n] \in Nat /\ asked[n] \in Nat
                      /\ Cardinality(HeardIds(n)) \in Nat
  BY FS_CardinalityType DEF TypeOK, Tally
<1>1. ASSUME NEW n \in Node, NEW d \in Doc, Broadcast(n, d) PROVE Tally'
  <2> DEFINE r == New(d, Targets(n, d))
  <2>1. /\ toHub' = [toHub EXCEPT ![n] = Append(toHub[n], r)]
        /\ asked' = [asked EXCEPT ![n] = asked[n] + 1]
        /\ UNCHANGED <<heard, counter>>
    BY <1>1 DEF Broadcast, hubVars
  <2>2. Len(Append(toHub[n], r)) = Len(toHub[n]) + 1
    <3>1. r \in Request
      <4>1. Targets(n, d) \subseteq Node
        BY TargetsAreOthers
      <4>2. QED
        BY <4>1 DEF Request, New
    <3>2. QED
      BY <1>0, <3>1, AppendProperties
  <2> HIDE DEF r
  <2>3. \A k \in Node : HeardIds(k)' = HeardIds(k)
    BY <2>1 DEF HeardIds
  <2>4. ASSUME NEW k \in Node
        PROVE  counter'[k] + Len(toHub'[k]) = asked'[k] + Cardinality(HeardIds(k))
    <3>1. counter[k] + Len(toHub[k]) = asked[k] + Cardinality(HeardIds(k))
      BY DEF Tally
    <3>2. CASE k = n
      <4>1. Len(toHub'[k]) = Len(toHub[k]) + 1 /\ asked'[k] = asked[k] + 1 /\ counter'[k] = counter[k]
        BY <2>1, <2>2, <3>2 DEF TypeOK
      <4> DEFINE c == counter[k]  l == Len(toHub[k])  a == asked[k]
                 h == Cardinality(HeardIds(k))  m == Len(toHub'[k])  b == asked'[k]
      <4>2. c \in Nat /\ l \in Nat /\ a \in Nat /\ h \in Nat /\ c + l = a + h
        BY <1>0, <3>1
      <4>3. m = l + 1 /\ b = a + 1
        BY <4>1
      <4>4. c + m = b + h => counter'[k] + Len(toHub'[k]) = asked'[k] + Cardinality(HeardIds(k))
        BY <4>1
      <4> HIDE DEF c, l, a, h, m, b
      <4>5. c + m = b + h
        BY <4>2, <4>3
      <4>6. QED
        BY <4>4, <4>5
    <3>3. CASE k # n
      <4>1. toHub'[k] = toHub[k] /\ asked'[k] = asked[k] /\ counter'[k] = counter[k]
        BY <2>1, <3>3 DEF TypeOK
      <4>2. QED
        BY <3>1, <4>1
    <3>4. QED
      BY <3>2, <3>3
  <2>5. QED
    BY <2>3, <2>4 DEF Tally
<1>2. ASSUME NEW n \in Node, NEW d \in Doc, HandleHeard(n, d) PROVE Tally'
  <2> DEFINE q == mailbox[n][d]  m == Head(q).msg  r == PassOn(m, GossipTargets(n, m))
             id == <<m.sender, m.count>>
  <2>1. /\ q # <<>> /\ Head(q).kind = "heard" /\ UNCHANGED <<counter, asked>>
        /\ \/ UNCHANGED <<heard, toHub>>
           \/ /\ heard' = [heard EXCEPT ![n][d] = Append(heard[n][d], m)]
              /\ toHub' = [toHub EXCEPT ![n] = Append(toHub[n], r)]
    BY <1>2 DEF HandleHeard, hubVars
  <2>2. q \in Seq(Task)
    BY DEF TypeOK
  <2>3. m \in Msg /\ r \in Request
    BY <2>1, <2>2, HeadTailProperties, TaskFields, Requests
  <2>4. CASE UNCHANGED <<heard, toHub>>
    BY <2>1, <2>4, TallySame
  <2>5. CASE /\ heard' = [heard EXCEPT ![n][d] = Append(heard[n][d], m)]
             /\ toHub' = [toHub EXCEPT ![n] = Append(toHub[n], r)]
    <3>1. ToHear(m, q)
      BY <2>1, <2>2, InTasks
    <3>2. id \notin HeardIds(n)
      <4> SUFFICES ASSUME NEW c \in Doc, NEW p \in Msg, In(p, heard[n][c]), SameId(p, m)
                   PROVE  FALSE
        BY DEF HeardIds, SameId
      <4>1. CASE c # d
        <5>1. Accepted(n, c, p) /\ Accepted(n, d, m)
          BY <3>1 DEF Accepted
        <5>2. QED
          BY <4>1, <5>1, <2>3 DEF Apart
      <4>2. CASE c = d
        <5>1. Before(p, m)
          <6>1. HeardFirst(heard[n][d], q)
            BY DEF AllSorted, Sorted
          <6>2. QED
            BY <3>1, <4>2, <6>1 DEF HeardFirst, In, ToHear
        <5>2. QED
          BY <5>1, <2>3, MsgFields DEF SameId, Before
      <4>3. QED
        BY <4>1, <4>2
    <3> HIDE DEF q, m, r
    <3>3. \A k \in Node, c \in Doc :
             heard'[k][c] = IF k = n /\ c = d THEN Append(heard[n][d], m) ELSE heard[k][c]
      BY <2>5 DEF TypeOK
    <3>4. \A k \in Node : toHub'[k] = IF k = n THEN Append(toHub[n], r) ELSE toHub[k]
      BY <2>5 DEF TypeOK
    <3>5. \A x \in Msg : In(x, Append(heard[n][d], m)) <=> In(x, heard[n][d]) \/ x = m
      <4>1. heard[n][d] \in Seq(Msg)
        BY DEF TypeOK
      <4>2. QED
        BY <4>1, <2>3, InMsgs
    <3>6. HeardIds(n)' = HeardIds(n) \cup {id}
      <4>1. id \in Node \X Nat /\ id[1] = m.sender /\ id[2] = m.count
        BY <2>3, MsgFields
      <4>2. ASSUME NEW i \in HeardIds(n)' PROVE i \in HeardIds(n) \cup {id}
        <5>1. PICK c \in Doc, x \in Msg : In(x, heard'[n][c]) /\ x.sender = i[1] /\ x.count = i[2]
          BY <4>2 DEF HeardIds
        <5>2. i \in Node \X Nat /\ i = <<i[1], i[2]>>
          BY <4>2 DEF HeardIds
        <5>3. CASE In(x, heard[n][c])
          BY <5>1, <5>2, <5>3 DEF HeardIds
        <5>4. CASE ~In(x, heard[n][c])
          <6>1. x = m
            BY <5>1, <5>4, <3>3, <3>5
          <6>2. QED
            BY <6>1, <5>1, <5>2
        <5>5. QED
          BY <5>3, <5>4
      <4>3. ASSUME NEW i \in HeardIds(n) PROVE i \in HeardIds(n)'
        <5>1. PICK c \in Doc, x \in Msg : In(x, heard[n][c]) /\ x.sender = i[1] /\ x.count = i[2]
          BY <4>3 DEF HeardIds
        <5>2. In(x, heard'[n][c])
          BY <5>1, <3>3, <3>5
        <5>3. QED
          BY <4>3, <5>1, <5>2 DEF HeardIds
      <4>4. id \in HeardIds(n)'
        <5>1. In(m, heard'[n][d])
          BY <2>3, <3>3, <3>5
        <5>2. QED
          BY <2>3, <4>1, <5>1 DEF HeardIds
      <4>5. QED
        BY <4>2, <4>3, <4>4
    <3>7. /\ IsFiniteSet(HeardIds(n)')
          /\ Cardinality(HeardIds(n)') = Cardinality(HeardIds(n)) + 1
      <4>1. IsFiniteSet(HeardIds(n))
        BY DEF Tally
      <4> HIDE DEF id
      <4>2. QED
        BY <4>1, <3>2, <3>6, FS_AddElement
    <3>8. Len(toHub'[n]) = Len(toHub[n]) + 1
      <4>1. toHub'[n] = Append(toHub[n], r)
        BY <3>4
      <4>2. Len(Append(toHub[n], r)) = Len(toHub[n]) + 1
        BY <1>0, <2>3, AppendProperties
      <4>3. QED
        BY <4>1, <4>2
    <3>9. ASSUME NEW k \in Node, k # n
          PROVE  HeardIds(k)' = HeardIds(k) /\ toHub'[k] = toHub[k]
      <4>1. \A c \in Doc : heard'[k][c] = heard[k][c]
        BY <3>3, <3>9
      <4>2. toHub'[k] = toHub[k]
        BY <3>4, <3>9
      <4>3. \A c \in Doc, x \in Msg : In(x, heard'[k][c]) <=> In(x, heard[k][c])
        BY <4>1
      <4>4. QED
        BY <4>2, <4>3 DEF HeardIds
    <3>10. counter[n] + Len(toHub'[n]) = asked[n] + Cardinality(HeardIds(n)')
      <4>1. counter[n] + Len(toHub[n]) = asked[n] + Cardinality(HeardIds(n))
        BY DEF Tally
      <4> DEFINE c == counter[n]  l == Len(toHub[n])  a == asked[n]
                 h == Cardinality(HeardIds(n))  x == Len(toHub'[n])
                 g == Cardinality(HeardIds(n)')
      <4>2. c \in Nat /\ l \in Nat /\ a \in Nat /\ h \in Nat /\ c + l = a + h
        BY <1>0, <4>1
      <4>3. x = l + 1 /\ g = h + 1
        BY <3>7, <3>8
      <4>4. c + x = a + g => counter[n] + Len(toHub'[n]) = asked[n] + Cardinality(HeardIds(n)')
        OBVIOUS
      <4> HIDE DEF c, l, a, h, x, g
      <4>5. c + x = a + g
        BY <4>2, <4>3
      <4>6. QED
        BY <4>4, <4>5
    <3>11. QED
      BY <2>1, <3>7, <3>9, <3>10 DEF Tally
  <2>6. QED
    BY <2>1, <2>4, <2>5
<1>3. ASSUME NEW n \in Node, HubBroadcast(n) PROVE Tally'
  <2>1. /\ toHub[n] # <<>> /\ toHub' = [toHub EXCEPT ![n] = Tail(toHub[n])]
        /\ counter' = [counter EXCEPT ![n] = counter[n] + 1]
        /\ UNCHANGED <<heard, asked>>
    BY <1>3 DEF HubBroadcast
  <2>2. Len(Tail(toHub[n])) = Len(toHub[n]) - 1
    BY <1>0, <2>1, HeadTailProperties
  <2>3. \A k \in Node : HeardIds(k)' = HeardIds(k)
    BY <2>1 DEF HeardIds
  <2>4. ASSUME NEW k \in Node
        PROVE  counter'[k] + Len(toHub'[k]) = counter[k] + Len(toHub[k])
    <3>1. CASE k = n
      <4>1. toHub'[k] = Tail(toHub[k]) /\ counter'[k] = counter[k] + 1
        BY <2>1, <3>1 DEF TypeOK
      <4>2. QED
        BY <1>0, <2>2, <3>1, <4>1
    <3>2. CASE k # n
      BY <2>1, <3>2 DEF TypeOK
    <3>3. QED
      BY <3>1, <3>2
  <2>5. QED
    BY <2>1, <2>3, <2>4 DEF Tally
<1>4. CASE \/ \E n \in Node, d \in Doc : HandleClosed(n, d) \/ \E k \in Node : Decide(n, d, k)
           \/ \E n, k \in Node : Receive(n, k)
           \/ \E l \in Link : Break(l) \/ Reopen(l)
           \/ UNCHANGED vars
  <2>1. UNCHANGED <<heard, counter, toHub, asked>>
    BY <1>4 DEF HandleClosed, Decide, Receive, Break, Reopen, vars, hubVars
  <2>2. QED
    BY <2>1, TallySame
<1>5. QED
  BY <1>1, <1>2, <1>3, <1>4 DEF Next, Works

----------------------------------------------------------------------------
(* The numbers of a sender's messages: those that are somewhere, and those *)
(* that the broadcasts in its hub's queue are going to take.  There are no *)
(* more of them than broadcasts its application asked for.                 *)
DueAt(q, b, c) == \E i \in 1 .. Len(q) : q[i].kind = "new" /\ c = b + i
Numbers(s) ==
    {c \in Nat : \/ DueAt(toHub[s], counter[s], c)
                 \/ \E m \in Msg : Present(m) /\ m.sender = s /\ m.count = c}
FewNumbers ==
    \A s \in Node : IsFiniteSet(Numbers(s)) /\ Cardinality(Numbers(s)) <= asked[s]

LEMMA DueSteps ==
  ASSUME NEW q \in Seq(Request), NEW b \in Nat, NEW c \in Nat
  PROVE  /\ q # <<>> => /\ DueAt(Tail(q), b + 1, c) => DueAt(q, b, c)
                        /\ Head(q).kind = "new" => DueAt(q, b, b + 1)
         /\ \A x \in Request :
               DueAt(Append(q, x), b, c) => DueAt(q, b, c) \/ c = b + (Len(q) + 1)
<1>1. ASSUME q # <<>> PROVE /\ DueAt(Tail(q), b + 1, c) => DueAt(q, b, c)
                            /\ Head(q).kind = "new" => DueAt(q, b, b + 1)
  <2> DEFINE p == Tail(q)
  <2>1. /\ Head(q) = q[1] /\ 1 \in 1 .. Len(q)
        /\ \A i \in 1 .. Len(p) : i + 1 \in 1 .. Len(q) /\ p[i] = q[i + 1]
    BY <1>1, Positions
  <2> HIDE DEF p
  <2>2. ASSUME DueAt(p, b + 1, c) PROVE DueAt(q, b, c)
    <3>1. PICK i \in 1 .. Len(p) : p[i].kind = "new" /\ c = (b + 1) + i
      BY <2>2 DEF DueAt
    <3>2. i + 1 \in 1 .. Len(q) /\ q[i + 1].kind = "new"
      BY <2>1, <3>1
    <3>3. c = b + (i + 1)
      BY <3>1
    <3>4. QED
      BY <3>2, <3>3 DEF DueAt
  <2>3. QED
    BY <2>1, <2>2 DEF p, DueAt
<1>2. ASSUME NEW x \in Request, DueAt(Append(q, x), b, c)
      PROVE  DueAt(q, b, c) \/ c = b + (Len(q) + 1)
  <2> DEFINE p == Append(q, x)
  <2>1. \A i \in 1 .. Len(p) : (i \in 1 .. Len(q) /\ p[i] = q[i]) \/ i = Len(q) + 1
    BY Positions
  <2>2. DueAt(p, b, c)
    BY <1>2
  <2> HIDE DEF p
  <2>3. QED
    BY <2>1, <2>2 DEF DueAt
<1>3. QED
  BY <1>1, <1>2

(* Only a broadcast of its application adds to the numbers of a sender.    *)
LEMMA NumbersStep ==
  ASSUME TypeOK, [Next]_vars, NEW s \in Node, NEW c \in Numbers(s)'
  PROVE  \/ c \in Numbers(s)
         \/ \E d \in Doc : Broadcast(s, d) /\ c = counter[s] + (Len(toHub[s]) + 1)
<1>0. c \in Nat /\ counter[s] \in Nat /\ toHub[s] \in Seq(Request)
  BY DEF Numbers, TypeOK
<1>1. ASSUME NEW m \in Msg, Present(m)', m.sender = s, m.count = c
      PROVE  c \in Numbers(s)
  <2>1. CASE Present(m)
    BY <1>0, <1>1, <2>1 DEF Numbers
  <2>2. ASSUME NEW n \in Node, HubBroadcast(n), Head(toHub[n]).kind = "new",
               m = Numbered(n, Head(toHub[n]))
        PROVE  c \in Numbers(s)
    <3>1. n = s /\ c = counter[s] + 1
      <4>1. m = [sender |-> n, count |-> counter[n] + 1, doc |-> Head(toHub[n]).doc]
        BY <2>2 DEF Numbered
      <4>2. QED
        BY <1>1, <4>1
    <3>2. toHub[s] # <<>>
      BY <2>2, <3>1 DEF HubBroadcast
    <3>3. DueAt(toHub[s], counter[s], c)
      BY <1>0, <2>2, <3>1, <3>2, DueSteps
    <3>4. QED
      BY <1>0, <3>3 DEF Numbers
  <2>3. QED
    BY <1>1, <2>1, <2>2, PresentStep
<1>2. ASSUME DueAt(toHub'[s], counter'[s], c)
      PROVE  \/ DueAt(toHub[s], counter[s], c)
             \/ \E d \in Doc : Broadcast(s, d) /\ c = counter[s] + (Len(toHub[s]) + 1)
  <2>1. ASSUME toHub'[s] = toHub[s], counter'[s] = counter[s]
        PROVE  DueAt(toHub[s], counter[s], c)
    BY <1>2, <2>1
  <2>2. ASSUME NEW n \in Node, HubBroadcast(n) PROVE DueAt(toHub[s], counter[s], c)
    <3>1. toHub[n] # <<>> /\ toHub' = [toHub EXCEPT ![n] = Tail(toHub[n])]
          /\ counter' = [counter EXCEPT ![n] = counter[n] + 1]
      BY <2>2 DEF HubBroadcast
    <3>2. CASE n = s
      <4>1. toHub'[s] = Tail(toHub[s]) /\ counter'[s] = counter[s] + 1
        BY <3>1, <3>2 DEF TypeOK
      <4>2. QED
        BY <1>0, <1>2, <3>1, <3>2, <4>1, DueSteps
    <3>3. CASE n # s
      <4>1. toHub'[s] = toHub[s] /\ counter'[s] = counter[s]
        BY <3>1, <3>3 DEF TypeOK
      <4>2. QED
        BY <2>1, <4>1
    <3>4. QED
      BY <3>2, <3>3
  <2>3. ASSUME NEW n \in Node, NEW d \in Doc, Broadcast(n, d)
        PROVE  \/ DueAt(toHub[s], counter[s], c)
               \/ Broadcast(s, d) /\ c = counter[s] + (Len(toHub[s]) + 1)
    <3> DEFINE r == New(d, Targets(n, d))
    <3>1. toHub' = [toHub EXCEPT ![n] = Append(toHub[n], r)] /\ counter' = counter
      BY <2>3 DEF Broadcast, hubVars
    <3>2. CASE n = s
      <4>1. r \in Request
        BY TargetsAreOthers DEF Request, New
      <4> HIDE DEF r
      <4>2. toHub'[s] = Append(toHub[s], r) /\ counter'[s] = counter[s]
        BY <3>1, <3>2 DEF TypeOK
      <4>3. DueAt(Append(toHub[s], r), counter[s], c)
        BY <1>2, <4>2
      <4>4. QED
        BY <1>0, <2>3, <3>2, <4>1, <4>3, DueSteps
    <3>3. CASE n # s
      <4> HIDE DEF r
      <4>1. toHub'[s] = toHub[s] /\ counter'[s] = counter[s]
        BY <3>1, <3>3 DEF TypeOK
      <4>2. QED
        BY <2>1, <4>1
    <3>4. QED
      BY <3>2, <3>3
  <2>4. ASSUME NEW n \in Node, NEW d \in Doc, HandleHeard(n, d)
        PROVE  DueAt(toHub[s], counter[s], c)
    <3> DEFINE t == Head(mailbox[n][d])  r == PassOn(t.msg, GossipTargets(n, t.msg))
    <3>1. counter' = counter
          /\ (toHub' = toHub \/ toHub' = [toHub EXCEPT ![n] = Append(toHub[n], r)])
      BY <2>4 DEF HandleHeard, hubVars
    <3>2. r.kind = "gossip"
      BY DEF PassOn
    <3> HIDE DEF r
    <3>3. toHub'[s] = toHub[s] \/ toHub'[s] = Append(toHub[s], r)
      BY <3>1 DEF TypeOK
    <3>4. ASSUME toHub'[s] = Append(toHub[s], r) PROVE DueAt(toHub[s], counter[s], c)
      <4> DEFINE p == Append(toHub[s], r)
      <4>1. \A i \in 1 .. Len(p) : \/ i \in 1 .. Len(toHub[s]) /\ p[i] = toHub[s][i]
                                   \/ p[i] = r
        BY <1>0, AppendProperties
      <4>2. DueAt(p, counter[s], c)
        BY <1>2, <3>1, <3>4
      <4> HIDE DEF p
      <4>3. QED
        BY <3>2, <4>1, <4>2 DEF DueAt
    <3>5. QED
      BY <2>1, <3>1, <3>3, <3>4
  <2>5. \/ toHub' = toHub /\ counter' = counter
        \/ \E n \in Node : HubBroadcast(n)
        \/ \E n \in Node, d \in Doc : Broadcast(n, d) \/ HandleHeard(n, d)
    BY DEF Next, Works, HandleClosed, Decide, Receive, Break, Reopen, vars, hubVars
  <2>6. QED
    BY <2>1, <2>2, <2>3, <2>4, <2>5
<1>3. QED
  BY <1>0, <1>1, <1>2 DEF Numbers

LEMMA FewNumbersStep == TypeOK /\ FewNumbers /\ [Next]_vars => FewNumbers'
<1> SUFFICES ASSUME TypeOK, FewNumbers, [Next]_vars, NEW s \in Node
             PROVE  IsFiniteSet(Numbers(s)') /\ Cardinality(Numbers(s)') <= asked'[s]
  BY DEF FewNumbers
<1> DEFINE N == Numbers(s)  M == Numbers(s)'  a == asked[s]  b == asked'[s]
           x == counter[s] + (Len(toHub[s]) + 1)
<1>1. IsFiniteSet(N) /\ Cardinality(N) <= a /\ a \in Nat /\ Cardinality(N) \in Nat
  BY FS_CardinalityType DEF FewNumbers, TypeOK
<1>2. CASE \E d \in Doc : Broadcast(s, d)
  <2>1. M \subseteq N \cup {x}
    BY NumbersStep
  <2>2. asked' = [asked EXCEPT ![s] = asked[s] + 1]
    BY <1>2 DEF Broadcast
  <2>3. b = a + 1
    BY <2>2 DEF TypeOK
  <2> HIDE DEF N, M, a, b, x
  <2>4. IsFiniteSet(N \cup {x}) /\ Cardinality(N \cup {x}) \in Nat /\ Cardinality(N \cup {x}) <= b
    <3>1. /\ IsFiniteSet(N \cup {x})
          /\ Cardinality(N \cup {x}) = IF x \in N THEN Cardinality(N) ELSE Cardinality(N) + 1
      BY <1>1, FS_AddElement
    <3>2. Cardinality(N) <= b /\ Cardinality(N) + 1 <= b
      BY <1>1, <2>3
    <3>3. QED
      BY <1>1, <3>1, <3>2
  <2>5. IsFiniteSet(M) /\ Cardinality(M) <= Cardinality(N \cup {x}) /\ Cardinality(M) \in Nat
    BY <2>1, <2>4, FS_Subset, FS_CardinalityType
  <2>6. b \in Nat
    BY <1>1, <2>3
  <2>7. Cardinality(M) <= b
    BY <2>4, <2>5, <2>6
  <2>8. QED
    BY <2>5, <2>7 DEF M, b
<1>3. CASE ~\E d \in Doc : Broadcast(s, d)
  <2>1. M \subseteq N
    BY <1>3, NumbersStep
  <2>2. b = a
    <3>1. ASSUME NEW n \in Node, NEW d \in Doc, Broadcast(n, d) PROVE b = a
      <4>1. n # s /\ asked' = [asked EXCEPT ![n] = asked[n] + 1]
        BY <1>3, <3>1 DEF Broadcast
      <4>2. QED
        BY <4>1 DEF TypeOK
    <3>2. \/ asked' = asked
          \/ \E n \in Node, d \in Doc : Broadcast(n, d)
      BY DEF Next, Works, HubBroadcast, HandleHeard, HandleClosed, Decide, Receive, Break,
             Reopen, vars
    <3>3. QED
      BY <3>1, <3>2
  <2> HIDE DEF N, M, a, b
  <2>3. IsFiniteSet(M) /\ Cardinality(M) <= Cardinality(N) /\ Cardinality(M) \in Nat
    BY <1>1, <2>1, FS_Subset, FS_CardinalityType
  <2>4. Cardinality(M) <= b
    BY <1>1, <2>2, <2>3
  <2>5. QED
    BY <2>3, <2>4 DEF M, b
<1>4. QED
  BY <1>2, <1>3

(* What a node heard are numbers of the others.                            *)
LEMMA HeardAreNumbered ==
  ASSUME TypeOK, NeverOwn, NEW n \in Node, NEW i \in HeardIds(n)
  PROVE  i = <<i[1], i[2]>> /\ i[1] \in Node \ {n} /\ i[2] \in Numbers(i[1])
<1>1. i \in Node \X Nat
  BY DEF HeardIds
<1>2. PICK d \in Doc, m \in Msg : In(m, heard[n][d]) /\ m.sender = i[1] /\ m.count = i[2]
  BY DEF HeardIds
<1>3. m.sender # n
  BY <1>2 DEF NeverOwn, NoneFrom, In
<1>4. Present(m)
  BY <1>2 DEF Present, Accepted
<1>5. QED
  BY <1>1, <1>2, <1>3, <1>4 DEF Numbers

LEMMA IntervalSize ==
  ASSUME NEW k \in Nat
  PROVE  IsFiniteSet(1 .. k) /\ Cardinality(1 .. k) = k
<1>1. 1 \in Int /\ k \in Int
  OBVIOUS
<1>2. /\ IsFiniteSet(1 .. k)
      /\ Cardinality(1 .. k) = IF 1 > k THEN 0 ELSE k - 1 + 1
  BY <1>1, FS_Interval
<1>3. QED
  BY <1>2

(* A finite set is no larger than an interval it can be mapped into.       *)
LEMMA IntoInterval ==
  ASSUME NEW S, IsFiniteSet(S), NEW a \in Nat, Cardinality(S) <= a
  PROVE  \E f \in [S -> 1 .. a] : \A x, y \in S : f[x] = f[y] => x = y
<1>1. Cardinality(S) \in Nat /\ ExistsBijection(S, 1 .. Cardinality(S))
  BY FS_CardinalityType, Fun_ExistsBijSymmetric
<1>2. PICK f : f \in Bijection(S, 1 .. Cardinality(S))
  BY <1>1 DEF ExistsBijection
<1>3. f \in [S -> 1 .. Cardinality(S)] /\ \A x, y \in S : f[x] = f[y] => x = y
  BY <1>2 DEF Bijection, Injection, IsInjective
<1>4. 1 .. Cardinality(S) \subseteq 1 .. a
  BY <1>1
<1>5. f \in [S -> 1 .. a]
  BY <1>3, <1>4
<1>6. QED
  BY <1>3, <1>5

(* The broadcasts of one node and the messages of the others it heard are  *)
(* no more than the broadcasts of all.                                     *)
LEMMA Counting ==
  ASSUME NEW a \in [Node -> Nat], NEW N \in [Node -> SUBSET Nat], NEW n \in Node, NEW H,
         \A s \in Node : IsFiniteSet(N[s]) /\ Cardinality(N[s]) <= a[s],
         \A i \in H : i = <<i[1], i[2]>> /\ i[1] \in Node \ {n} /\ i[2] \in N[i[1]]
  PROVE  a[n] + Cardinality(H) <= Cardinality(UNION {{s} \X (1 .. a[s]) : s \in Node})
<1> DEFINE U == UNION {{s} \X (1 .. a[s]) : s \in Node}
           D == {n} \X (1 .. a[n])
           inj == [s \in Node |-> CHOOSE f \in [N[s] -> 1 .. a[s]] :
                                    \A x, y \in N[s] : f[x] = f[y] => x = y]
           g == [i \in H |-> <<i[1], inj[i[1]][i[2]]>>]
<1>1. \A s \in Node : /\ inj[s] \in [N[s] -> 1 .. a[s]]
                      /\ \A x, y \in N[s] : inj[s][x] = inj[s][y] => x = y
  BY IntoInterval
<1> HIDE DEF inj
<1>2. g \in [H -> U \ D]
  <2> SUFFICES ASSUME NEW i \in H PROVE <<i[1], inj[i[1]][i[2]]>> \in U \ D
    OBVIOUS
  <2>1. i[1] \in Node \ {n} /\ inj[i[1]][i[2]] \in 1 .. a[i[1]]
    BY <1>1
  <2>2. QED
    BY <2>1
<1>3. ASSUME NEW i \in H, NEW j \in H, g[i] = g[j] PROVE i = j
  <2>1. i[1] = j[1] /\ inj[i[1]][i[2]] = inj[j[1]][j[2]]
    BY <1>3
  <2>2. i[2] = j[2]
    BY <1>1, <2>1
  <2>3. QED
    BY <2>1, <2>2
<1> HIDE DEF g
<1>4. IsFiniteSet(D) /\ Cardinality(D) = a[n]
  <2>1. IsFiniteSet({n}) /\ Cardinality({n}) = 1
    BY FS_Singleton
  <2>2. IsFiniteSet(1 .. a[n]) /\ Cardinality(1 .. a[n]) = a[n] /\ a[n] \in Nat
    BY IntervalSize
  <2>3. IsFiniteSet(D) /\ Cardinality(D) = 1 * Cardinality(1 .. a[n])
    BY <2>1, <2>2, FS_Product
  <2>4. QED
    BY <2>2, <2>3
<1>5. IsFiniteSet(U)
  <2> DEFINE part == [s \in Node |-> {s} \X (1 .. a[s])]  P == {{s} \X (1 .. a[s]) : s \in Node}
  <2>1. part \in Surjection(Node, P)
    BY Fun_IsSurj
  <2>2. IsFiniteSet(P)
    BY <2>1, FS_Surjection
  <2>3. ASSUME NEW s \in Node PROVE IsFiniteSet({s} \X (1 .. a[s]))
    <3>1. IsFiniteSet({s})
      BY FS_Singleton, Zenon
    <3>2. IsFiniteSet(1 .. a[s])
      BY IntervalSize
    <3>3. QED
      BY <3>1, <3>2, FS_Product
  <2>4. QED
    BY <2>2, <2>3, FS_UNION
<1>6. U \cap D = D
  OBVIOUS
<1> HIDE DEF U, D
<1>7. /\ IsFiniteSet(U \ D)
      /\ Cardinality(U \ D) = Cardinality(U) - Cardinality(D)
  BY <1>5, <1>6, FS_Difference
<1>8. IsFiniteSet(H) /\ Cardinality(H) <= Cardinality(U \ D)
  <2>1. g \in Injection(H, U \ D)
    BY <1>2, <1>3, Fun_IsInj
  <2>2. QED
    BY <1>7, <2>1, FS_Injection
<1>9. Cardinality(H) \in Nat /\ Cardinality(U) \in Nat /\ Cardinality(U \ D) \in Nat
  BY <1>5, <1>7, <1>8, FS_CardinalityType
<1>10. a[n] + Cardinality(H) <= Cardinality(U)
  BY <1>4, <1>7, <1>8, <1>9
<1>11. QED
  BY <1>10 DEF U

(* On any network, cycles included, and however often connections break,   *)
(* no hub sends more than the applications of the network broadcast: each  *)
(* message is passed on once (handle_receive in hub/state.rs and           *)
(* ephemeral_session.rs:29-53).                                            *)
THEOREM GossipDiesOut == Spec => []CarriedOnce
<1> DEFINE IInv == NeverOwn /\ AllSorted /\ Apart /\ Tally /\ FewNumbers
<1>1. Init => IInv
  <2> SUFFICES ASSUME Init PROVE IInv
    OBVIOUS
  <2>1. NeverOwn /\ AllSorted
    BY DEF Init, NeverOwn, NoneToItself, NoneFrom, NoneHeardFrom, AllSorted, Sorted,
           HeardPart, WaitingPart, HeardFirst
  <2>2. \A n \in Node : toHub[n] = <<>> /\ counter[n] = 0 /\ asked[n] = 0
    BY DEF Init
  <2>3. \A m : ~Present(m)
    BY DEF Init, Present, Accepted, In, ToHear, ToPass
  <2>4. Apart
    BY <2>3 DEF Apart, Present
  <2>5. \A n \in Node : HeardIds(n) = {}
    BY <2>3 DEF HeardIds, Present, Accepted
  <2>6. Tally
    BY <2>2, <2>5, FS_EmptySet DEF Tally
  <2>7. \A s \in Node : Numbers(s) = {}
    BY <2>2, <2>3 DEF Numbers, DueAt
  <2>8. FewNumbers
    <3> SUFFICES ASSUME NEW s \in Node
                 PROVE  IsFiniteSet(Numbers(s)) /\ Cardinality(Numbers(s)) <= asked[s]
      BY DEF FewNumbers
    <3>1. IsFiniteSet(Numbers(s)) /\ Cardinality(Numbers(s)) = 0
      BY <2>7, FS_EmptySet, Zenon
    <3>2. QED
      BY <2>2, <3>1
  <2>9. QED
    BY <2>1, <2>4, <2>6, <2>8
<1>2. TypeOK /\ IInv /\ [Next]_vars => IInv'
  BY NeverOwnStep, AllSortedStep, ApartStep, TallyStep, FewNumbersStep
<1>3. TypeOK /\ IInv => CarriedOnce
  <2> SUFFICES ASSUME TypeOK, IInv, NEW n \in Node
               PROVE  counter[n] + Len(toHub[n]) <= Cardinality(AllAsked)
    BY DEF CarriedOnce
  <2> DEFINE N == [s \in Node |-> Numbers(s)]
  <2>1. asked \in [Node -> Nat] /\ N \in [Node -> SUBSET Nat]
    BY DEF TypeOK, Numbers
  <2>2. \A s \in Node : IsFiniteSet(N[s]) /\ Cardinality(N[s]) <= asked[s]
    BY DEF FewNumbers
  <2>3. \A i \in HeardIds(n) :
           i = <<i[1], i[2]>> /\ i[1] \in Node \ {n} /\ i[2] \in N[i[1]]
    BY HeardAreNumbered
  <2> HIDE DEF N
  <2>4. asked[n] + Cardinality(HeardIds(n)) <= Cardinality(AllAsked)
    BY <2>1, <2>2, <2>3, Counting DEF AllAsked
  <2>5. counter[n] + Len(toHub[n]) = asked[n] + Cardinality(HeardIds(n))
    BY DEF Tally
  <2>6. QED
    BY <2>4, <2>5
<1>4. QED
  BY <1>1, <1>2, <1>3, TypeCorrect, PTL DEF Spec
=============================================================================
