----------------------------- MODULE ActorFifo -----------------------------
(***************************************************************************)
(* What a document's mailbox promises to the rest of samod: the tasks      *)
(* submitted for a document are handled one at a time, in the order they   *)
(* were accepted (samod/src/doc_runner/threadpool.rs:8-10).  Nothing here  *)
(* says how many threads there are, or how a runner is found.              *)
(***************************************************************************)
EXTENDS Sequences

CONSTANTS Task,     \* the tasks that may be submitted
          NoTask    \* "the document is not handling a task"

VARIABLES queue,    \* accepted tasks that were not started
          current,  \* the task being handled, or NoTask
          handled   \* the tasks handled so far, in order

vars == <<queue, current, handled>>

TypeOK ==
    /\ queue \in Seq(Task)
    /\ current \in Task \cup {NoTask}
    /\ handled \in Seq(Task)

Init ==
    /\ queue = <<>>
    /\ current = NoTask
    /\ handled = <<>>

Accept(t) ==
    /\ queue' = Append(queue, t)
    /\ UNCHANGED <<current, handled>>

Start ==
    /\ current = NoTask
    /\ queue # <<>>
    /\ current' = Head(queue)
    /\ queue' = Tail(queue)
    /\ UNCHANGED handled

Finish ==
    /\ current # NoTask
    /\ handled' = Append(handled, current)
    /\ current' = NoTask
    /\ UNCHANGED queue

Next == (\E t \in Task : Accept(t)) \/ Start \/ Finish

Spec == Init /\ [][Next]_vars
=============================================================================
