----------------------------- MODULE MCMailbox -----------------------------
(* Two threads that dispatch, two pool workers, batches of two tasks.      *)
EXTENDS Mailbox, FiniteSets

(* Four tasks with batches of two: a batch ends with tasks left, and       *)
(* another ends exactly when the mailbox is empty.                         *)
ASSUME SmallInstance == Cardinality(Task) = 2 * Batch
=============================================================================
