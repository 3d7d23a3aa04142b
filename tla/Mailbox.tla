------------------------------ MODULE Mailbox ------------------------------
(***************************************************************************)
(* The mailbox of one document actor in threadpool mode: ThreadpoolActor   *)
(* (samod/src/doc_runner/threadpool.rs).  Any thread may dispatch a task   *)
(* (the hub loop, the IO loop, a DocHandle); the rayon pool runs `run`     *)
(* jobs, which pop tasks under the mailbox lock and handle them without    *)
(* it.  An action is a critical section of the mailbox lock, or a step     *)
(* between two of them.                                                    *)
(*                                                                         *)
(* Abstracted: what a task does (it is a model value), the other documents *)
(* that share the pool (a queued job is taken by some idle worker), and    *)
(* the document lock, which only ever delays Handle.                       *)
(***************************************************************************)
EXTENDS Naturals, Sequences

CONSTANTS Sender,      \* threads that dispatch tasks
          Worker,      \* threads of the rayon pool
          Task,        \* the tasks
          NoTask,      \* no task
          Batch        \* BATCH_SIZE

ASSUME MailboxAssumption ==
    /\ Batch \in Nat \ {0}
    /\ NoTask \notin Task

VARIABLES tasks,       \* mailbox.tasks
          running,     \* mailbox.running
          jobs,        \* `run` jobs of this actor queued in the pool
          senderPc,    \* "idle", or "schedule": between the unlock and spawn_fifo
          workerPc,    \* "idle", "pop", "handle", "schedule"
          budget,      \* iterations left of a worker's batch
          cur,         \* the task a worker popped and has not handled
          unsent,      \* tasks nobody dispatched yet: every task is sent once
          handled      \* tasks handled so far, in order

vars == <<tasks, running, jobs, senderPc, workerPc, budget, cur, unsent, handled>>

(* The shape of the mailbox and of the threads that touch it: a worker     *)
(* holds a task exactly between its pop and its handle_task, and it is     *)
(* inside the loop only with iterations left.                              *)
TypeOK ==
    /\ tasks \in Seq(Task)
    /\ running \in BOOLEAN
    /\ jobs \in Nat
    /\ senderPc \in [Sender -> {"idle", "schedule"}]
    /\ workerPc \in [Worker -> {"idle", "pop", "handle", "schedule"}]
    /\ budget \in [Worker -> 0 .. Batch]
    /\ cur \in [Worker -> Task \cup {NoTask}]
    /\ unsent \in SUBSET Task
    /\ handled \in Seq(Task)
    /\ \A w \in Worker :
         /\ workerPc[w] = "handle" <=> cur[w] # NoTask
         /\ workerPc[w] \in {"pop", "handle"} => budget[w] > 0

Init ==
    /\ tasks = <<>>
    /\ running = FALSE
    /\ jobs = 0
    /\ senderPc = [s \in Sender |-> "idle"]
    /\ workerPc = [w \in Worker |-> "idle"]
    /\ budget = [w \in Worker |-> 0]
    /\ cur = [w \in Worker |-> NoTask]
    /\ unsent = Task
    /\ handled = <<>>

----------------------------------------------------------------------------
(* The parts of dispatch and run that decide order, ownership and batches. *)

EnqueuedInFront(t) == <<t>> \o tasks   \* mutant: push_front
Enqueued(t) == Append(tasks, t)

AlwaysSchedules == TRUE   \* mutant: the early return is forgotten
NeedsRunner == ~running

BatchEnds(w) == budget[w] = 1

----------------------------------------------------------------------------
(* ThreadpoolActor::dispatch: push the task, and when no runner is active  *)
(* become responsible for scheduling one after the lock is released.       *)
Dispatch(s, t) ==
    /\ senderPc[s] = "idle"
    /\ t \in unsent
    /\ tasks' = Enqueued(t)
    /\ running' = TRUE
    /\ senderPc' = IF NeedsRunner THEN [senderPc EXCEPT ![s] = "schedule"] ELSE senderPc
    /\ unsent' = unsent \ {t}
    /\ UNCHANGED <<jobs, workerPc, budget, cur, handled>>

(* The dispatching thread's call of ThreadpoolActor::schedule.             *)
Schedule(s) ==
    /\ senderPc[s] = "schedule"
    /\ jobs' = jobs + 1
    /\ senderPc' = [senderPc EXCEPT ![s] = "idle"]
    /\ UNCHANGED <<tasks, running, workerPc, budget, cur, unsent, handled>>

(* rayon gives a queued job to an idle worker, which enters `run`.         *)
TakeJob(w) ==
    /\ workerPc[w] = "idle"
    /\ jobs > 0
    /\ jobs' = jobs - 1
    /\ workerPc' = [workerPc EXCEPT ![w] = "pop"]
    /\ budget' = [budget EXCEPT ![w] = Batch]
    /\ UNCHANGED <<tasks, running, senderPc, cur, unsent, handled>>

(* Under the mailbox lock: pop a task ...                                  *)
Pop(w) ==
    /\ workerPc[w] = "pop"
    /\ tasks # <<>>
    /\ cur' = [cur EXCEPT ![w] = Head(tasks)]
    /\ tasks' = Tail(tasks)
    /\ workerPc' = [workerPc EXCEPT ![w] = "handle"]
    /\ UNCHANGED <<running, jobs, senderPc, budget, unsent, handled>>

(* ... or find none and relinquish the runner in the same critical section. *)
Relinquish(w) ==
    /\ workerPc[w] = "pop"
    /\ tasks = <<>>
    /\ running' = FALSE
    /\ workerPc' = [workerPc EXCEPT ![w] = "idle"]
    /\ UNCHANGED <<tasks, jobs, senderPc, budget, cur, unsent, handled>>

(* DocActorInner::handle_task, under the document lock only.               *)
Handle(w) ==
    /\ workerPc[w] = "handle"
    /\ handled' = Append(handled, cur[w])
    /\ cur' = [cur EXCEPT ![w] = NoTask]
    /\ budget' = [budget EXCEPT ![w] = @ - 1]
    /\ workerPc' = [workerPc EXCEPT ![w] = IF BatchEnds(w) THEN "schedule" ELSE "pop"]
    /\ UNCHANGED <<tasks, running, jobs, senderPc, unsent>>

(* Mutant: a batch that ends without scheduling the next one.              *)
BatchEndForgotten(w) ==
    /\ workerPc[w] = "schedule"
    /\ workerPc' = [workerPc EXCEPT ![w] = "idle"]
    /\ UNCHANGED <<tasks, running, jobs, senderPc, budget, cur, unsent, handled>>

(* A full batch: the runner yields and queues its own continuation.        *)
Reschedule(w) ==
    /\ workerPc[w] = "schedule"
    /\ jobs' = jobs + 1
    /\ workerPc' = [workerPc EXCEPT ![w] = "idle"]
    /\ UNCHANGED <<tasks, running, senderPc, budget, cur, unsent, handled>>

RunStep(w) == TakeJob(w) \/ Pop(w) \/ Relinquish(w) \/ Handle(w) \/ Reschedule(w)

Next ==
    \/ \E s \in Sender : Schedule(s) \/ \E t \in Task : Dispatch(s, t)
    \/ \E w \in Worker : RunStep(w)

Spec == Init /\ [][Next]_vars

(* A thread that left the critical section of dispatch runs on to          *)
(* spawn_fifo; the pool runs the jobs it holds; tasks terminate.           *)
Fairness ==
    /\ \A s \in Sender : WF_vars(Schedule(s))
    /\ WF_vars(\E w \in Worker : RunStep(w))

FairSpec == Spec /\ Fairness

----------------------------------------------------------------------------
Scheduling == {s \in Sender : senderPc[s] = "schedule"}
Active == {w \in Worker : workerPc[w] # "idle"}

(* "Only one runner drains it" (threadpool.rs:9): the right to drain is a  *)
(* token.  `running` says that it exists, and it is then in exactly one    *)
(* place: a thread about to schedule, a queued job, or a worker.  A        *)
(* mailbox with tasks always has its token, so no task is stranded.        *)
OneRunner ==
    /\ jobs <= 1
    /\ \A s, r \in Scheduling : s = r
    /\ \A w, v \in Active : w = v
    /\ jobs = 1 => Scheduling = {} /\ Active = {}
    /\ Scheduling # {} => Active = {}
    /\ running <=> (jobs = 1 \/ Scheduling # {} \/ Active # {})
    /\ tasks # <<>> => running

(* The task that is being handled, for the abstract mailbox.               *)
Busy == {w \in Worker : workerPc[w] = "handle"}
current == IF Busy = {} THEN NoTask ELSE cur[CHOOSE w \in Busy : TRUE]

Fifo == INSTANCE ActorFifo WITH queue <- tasks

(* The mailbox implements the sequential FIFO actor (threadpool.rs:8-10).  *)
FifoSpec == Fifo!Spec

(* Every task that was dispatched is handled: nothing is stranded when a   *)
(* dispatch races with a runner that finds the mailbox empty               *)
(* (threadpool.rs:57-58), nor at the end of a batch (line 68).             *)
EveryTaskHandled ==
    \A t \in Task : t \notin unsent ~> \E i \in DOMAIN handled : handled[i] = t
=============================================================================
