--------------------------- MODULE Mailbox_proofs ---------------------------
(***************************************************************************)
(* Mailbox for any number of dispatching threads, pool workers and tasks   *)
(* and any batch size: its types, the runner token, and that it implements *)
(* the sequential FIFO actor.                                              *)
(***************************************************************************)
EXTENDS Mailbox, TLAPS

(* The shape of the mailbox is kept by every step of every thread.         *)
THEOREM TypeCorrect == Spec => []TypeOK
<1>1. Init => TypeOK
  <2> SUFFICES ASSUME Init PROVE TypeOK
    OBVIOUS
  <2> USE MailboxAssumption DEF MailboxAssumption, Init
  <2>1. tasks \in Seq(Task) /\ handled \in Seq(Task)
    OBVIOUS
  <2>2. budget \in [Worker -> 0 .. Batch] /\ cur \in [Worker -> Task \cup {NoTask}]
    OBVIOUS
  <2>3. senderPc \in [Sender -> {"idle", "schedule"}]
    OBVIOUS
  <2>4. workerPc \in [Worker -> {"idle", "pop", "handle", "schedule"}]
    OBVIOUS
  <2>5. \A w \in Worker : workerPc[w] = "idle" /\ cur[w] = NoTask
    OBVIOUS
  <2>6. QED
    BY <2>1, <2>2, <2>3, <2>4, <2>5 DEF TypeOK
<1>2. TypeOK /\ [Next]_vars => TypeOK'
  <2> SUFFICES ASSUME TypeOK, [Next]_vars PROVE TypeOK'
    OBVIOUS
  <2> USE MailboxAssumption DEF MailboxAssumption, TypeOK
  <2>1. ASSUME NEW s \in Sender, NEW t \in Task, Dispatch(s, t) PROVE TypeOK'
    BY <2>1 DEF Dispatch, Enqueued, NeedsRunner
  <2>2. ASSUME NEW s \in Sender, Schedule(s) PROVE TypeOK'
    BY <2>2 DEF Schedule
  <2>3. ASSUME NEW w \in Worker, TakeJob(w) PROVE TypeOK'
    BY <2>3 DEF TakeJob
  <2>4. ASSUME NEW w \in Worker, Pop(w) PROVE TypeOK'
    BY <2>4 DEF Pop
  <2>5. ASSUME NEW w \in Worker, Relinquish(w) PROVE TypeOK'
    BY <2>5 DEF Relinquish
  <2>6. ASSUME NEW w \in Worker, Handle(w) PROVE TypeOK'
    BY <2>6 DEF Handle, BatchEnds
  <2>7. ASSUME NEW w \in Worker, Reschedule(w) PROVE TypeOK'
    BY <2>7 DEF Reschedule
  <2>8. CASE UNCHANGED vars
    BY <2>8 DEF vars
  <2>9. QED
    BY <2>1, <2>2, <2>3, <2>4, <2>5, <2>6, <2>7, <2>8 DEF Next, RunStep
<1>3. QED
  BY <1>1, <1>2, PTL DEF Spec

----------------------------------------------------------------------------
(* "Only one runner drains it": the token is in at most one place, and a   *)
(* mailbox that holds tasks has one (threadpool.rs:9, 57-58).              *)
THEOREM OneRunnerAlways == Spec => []OneRunner
<1>1. Init => OneRunner
  BY DEF Init, OneRunner, Scheduling, Active
<1>2. TypeOK /\ OneRunner /\ [Next]_vars => OneRunner'
  <2> SUFFICES ASSUME TypeOK, OneRunner, [Next]_vars PROVE OneRunner'
    OBVIOUS
  <2> USE DEF TypeOK, OneRunner, Scheduling, Active
  <2>1. ASSUME NEW s \in Sender, NEW t \in Task, Dispatch(s, t) PROVE OneRunner'
    <3>1. CASE running
      BY <2>1, <3>1 DEF Dispatch, Enqueued, NeedsRunner
    <3>2. CASE ~running
      BY <2>1, <3>2 DEF Dispatch, Enqueued, NeedsRunner
    <3>3. QED BY <3>1, <3>2
  <2>2. ASSUME NEW s \in Sender, Schedule(s) PROVE OneRunner'
    BY <2>2 DEF Schedule
  <2>3. ASSUME NEW w \in Worker, TakeJob(w) PROVE OneRunner'
    BY <2>3 DEF TakeJob
  <2>4. ASSUME NEW w \in Worker, Pop(w) PROVE OneRunner'
    BY <2>4 DEF Pop
  <2>5. ASSUME NEW w \in Worker, Relinquish(w) PROVE OneRunner'
    BY <2>5 DEF Relinquish
  <2>6. ASSUME NEW w \in Worker, Handle(w) PROVE OneRunner'
    BY <2>6 DEF Handle, BatchEnds
  <2>7. ASSUME NEW w \in Worker, Reschedule(w) PROVE OneRunner'
    BY <2>7 DEF Reschedule
  <2>8. CASE UNCHANGED vars
    BY <2>8 DEF vars
  <2>9. QED
    BY <2>1, <2>2, <2>3, <2>4, <2>5, <2>6, <2>7, <2>8 DEF Next, RunStep
<1>3. QED
  BY <1>1, <1>2, TypeCorrect, PTL DEF Spec

----------------------------------------------------------------------------
(* The refinement mapping on the states OneRunner allows: the abstract     *)
(* current task is the one the only active worker holds.                   *)
LEMMA CurrentTask ==
  ASSUME TypeOK, OneRunner
  PROVE  /\ \A w \in Worker : workerPc[w] = "handle" => current = cur[w]
         /\ (\A w \in Worker : workerPc[w] # "handle") => current = NoTask
<1>1. ASSUME NEW w \in Worker, workerPc[w] = "handle"
      PROVE  current = cur[w]
  <2>1. Busy = {w}
    BY <1>1 DEF OneRunner, Active, Busy
  <2>2. QED
    BY <2>1 DEF current
<1>2. ASSUME \A w \in Worker : workerPc[w] # "handle"
      PROVE  current = NoTask
  BY <1>2 DEF current, Busy
<1>3. QED
  BY <1>1, <1>2

(* The mailbox implements the sequential FIFO actor: a dispatch accepts a  *)
(* task, a pop starts the oldest one when none is being handled, and the   *)
(* end of handle_task finishes it (threadpool.rs:8-10).                    *)
THEOREM ImplementsFifo == Spec => FifoSpec
<1> USE DEF Fifo!vars
<1>1. Init => Fifo!Init
  BY DEF Init, Fifo!Init, current, Busy
<1>2. ASSUME TypeOK, TypeOK', OneRunner, OneRunner', [Next]_vars
      PROVE  [Fifo!Next]_(Fifo!vars)
  <2> USE <1>2
  <2> DEFINE Idle == \A w \in Worker : workerPc[w] # "handle"
  <2>1. ASSUME NEW s \in Sender, NEW t \in Task, Dispatch(s, t)
        PROVE  Fifo!Accept(t)
    BY <2>1 DEF Dispatch, Enqueued, Fifo!Accept, current, Busy
  <2>2. ASSUME NEW s \in Sender, Schedule(s) PROVE UNCHANGED Fifo!vars
    BY <2>2 DEF Schedule, current, Busy
  <2>3. ASSUME NEW w \in Worker,
               workerPc[w] # "handle", workerPc'[w] # "handle",
               UNCHANGED <<tasks, cur, handled>>,
               \A v \in Worker \ {w} : workerPc'[v] = workerPc[v]
        PROVE  UNCHANGED Fifo!vars
    <3>1. Busy' = Busy
      BY <2>3 DEF Busy
    <3>2. QED
      BY <3>1, <2>3 DEF current
  <2>4. ASSUME NEW w \in Worker, Pop(w) PROVE Fifo!Start
    <3>1. workerPc[w] = "pop" /\ workerPc'[w] = "handle" /\ cur'[w] = Head(tasks)
      BY <2>4 DEF Pop, TypeOK
    <3>2. Idle
      BY <3>1 DEF OneRunner, Active
    <3>3. current = NoTask
      BY <3>2, CurrentTask
    <3>4. Busy' = {w}
      BY <3>1, <3>2, <2>4 DEF Pop, TypeOK, Busy
    <3>5. current' = Head(tasks)
      BY <3>1, <3>4 DEF current
    <3>6. QED
      BY <3>3, <3>5, <2>4 DEF Pop, Fifo!Start
  <2>5. ASSUME NEW w \in Worker, Handle(w) PROVE Fifo!Finish
    <3>1. workerPc[w] = "handle" /\ workerPc'[w] # "handle" /\ cur[w] # NoTask
      BY <2>5 DEF Handle, BatchEnds, TypeOK
    <3>2. \A v \in Worker \ {w} : workerPc[v] = "idle" /\ workerPc'[v] = workerPc[v]
      BY <3>1, <2>5 DEF OneRunner, Active, Handle, BatchEnds, TypeOK
    <3>3. current = cur[w] /\ Idle'
      BY <3>1, <3>2, CurrentTask
    <3>4. current' = NoTask
      BY <3>3 DEF current, Busy
    <3>5. QED
      BY <3>1, <3>3, <3>4, <2>5 DEF Handle, Fifo!Finish
  <2>6. ASSUME NEW w \in Worker, TakeJob(w) \/ Relinquish(w) \/ Reschedule(w)
        PROVE  UNCHANGED Fifo!vars
    BY <2>3, <2>6 DEF TakeJob, Relinquish, Reschedule, TypeOK
  <2>7. CASE UNCHANGED vars
    BY <2>7 DEF vars, current, Busy
  <2>8. QED
    BY <2>1, <2>2, <2>4, <2>5, <2>6, <2>7 DEF Next, RunStep, Fifo!Next
<1>3. QED
  BY <1>1, <1>2, TypeCorrect, OneRunnerAlways, PTL DEF Spec, FifoSpec, Fifo!Spec
=============================================================================
