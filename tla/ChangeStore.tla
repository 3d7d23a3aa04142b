---------------------------- MODULE ChangeStore ----------------------------
(***************************************************************************)
(* What the stored copies of one document promise, however many repos     *)
(* share the storage: a repo that has the document open only learns        *)
(* changes until it closes or dies, storage only gains changes, and only   *)
(* ones that some repo has.  There are no chunks, keys, compactions or     *)
(* deletes here.                                                           *)
(***************************************************************************)
CONSTANTS Repo, Change

VARIABLES mem,      \* the changes each repo has in memory
          durable   \* the changes that storage would give back

vars == <<mem, durable>>

TypeOK ==
    /\ mem \in [Repo -> SUBSET Change]
    /\ durable \subseteq Change

Init ==
    /\ mem = [r \in Repo |-> {}]
    /\ durable = {}

(* A repo learns changes: from its user, from a peer or from storage.      *)
Learn(r) ==
    /\ \E S \in SUBSET Change : mem' = [mem EXCEPT ![r] = @ \cup S]
    /\ UNCHANGED durable

(* Some of what a repo knows reaches storage.                              *)
Persist(r) ==
    /\ \E S \in SUBSET mem[r] : durable' = durable \cup S
    /\ UNCHANGED mem

(* A repo stops or dies.                                                   *)
Forget(r) ==
    /\ mem' = [mem EXCEPT ![r] = {}]
    /\ UNCHANGED durable

Next == \E r \in Repo : Learn(r) \/ Persist(r) \/ Forget(r)

Spec == Init /\ [][Next]_vars
=============================================================================
