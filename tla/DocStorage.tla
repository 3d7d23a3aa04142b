----------------------------- MODULE DocStorage -----------------------------
(***************************************************************************)
(* How one document reaches storage and comes back: the document actor's   *)
(* OnDiskState and Load (samod-core actors/document/on_disk_state.rs and   *)
(* load.rs), the parts of document_actor.rs that drive them, and the       *)
(* storage tasks that samod's IO loop runs concurrently.                   *)
(*                                                                         *)
(* A change is an opaque value, a document is the set of changes it has    *)
(* been given, and a chunk in storage is a key and the changes stored      *)
(* under it.  Handlers are functions from an actor to an actor, composed   *)
(* as the code calls them; every one that is not returned from early ends  *)
(* in Stepped.  Several repos may share the storage, as storage.rs:19-25   *)
(* allows, and a repo may crash between any two steps.                     *)
(*                                                                         *)
(* Abstracted: the phases Requesting and Ready are both "Ready", since     *)
(* changes may reach the document in both; a put is atomic.                *)
(***************************************************************************)
EXTENDS Naturals, FiniteSets

CONSTANTS
  Repo,        \* the repos that share the storage
  Change,      \* the changes that are ever made to the document
  Before,      \* the changes that each change depends on, transitively
  Threshold,   \* 10 in the code: more changes or keys than that are compacted
  MaxDeletes   \* bound: deletes of one key in progress when a repo opens

ASSUME DocStorageAssumption ==
    /\ Before \in [Change -> SUBSET Change]
    /\ \A c \in Change : \A b \in Before[c] : Before[b] \subseteq Before[c]
    /\ Threshold \in Nat /\ MaxDeletes \in Nat

(* StorageKey::incremental_path names a change, and snapshot_path the      *)
(* heads of a document, that is, the changes it consists of.               *)
Key == [kind : {"incremental"}, of : {{c} : c \in Change}]
       \cup [kind : {"snapshot"}, of : SUBSET Change]
Chunk == [key : Key, data : SUBSET Change]

Changes(chunks) == UNION {ch.data : ch \in chunks}
OfKind(chunks, kind) == {ch \in chunks : ch.key.kind = kind}

(* The document made of the changes in `held`: Automerge queues a change   *)
(* until it has everything the change depends on.                          *)
Doc(held) == {c \in held : Before[c] \subseteq held}

VARIABLES
  disk,     \* the chunks in storage
  actor,    \* each repo's document actor, with its storage tasks
  stale,    \* deletes still in progress that stopped repos started, per key
  fresh     \* nobody has created or opened the document yet

vars == <<disk, actor, stale, fresh>>

NoDeletes == [k \in Key |-> 0]

Actor ==
  [run : {"Down", "Running", "Stopping", "Stopped"},  \* RunState
   phase : {"Loading", "Ready"},
   creating : SUBSET Change,         \* content of the create() in progress
   held : SUBSET Change,             \* changes in the document and its queue
   saved : SUBSET Change,            \* the document at last_saved_heads
   onDisk : SUBSET Key,              \* OnDiskState::on_disk
   compacting : BOOLEAN,             \* OnDiskState::compaction, and its set
   supercedes : SUBSET Key,
   deletions : SUBSET Key,           \* OnDiskState::deletions
   putting : SUBSET Chunk,           \* running_puts storage has not executed
   written : SUBSET Chunk,           \* running_puts it has
   deleting : [Key -> Nat],          \* running_deletes it has not executed
   deleted : [Key -> Nat],           \* running_deletes it has
   loading : BOOLEAN,                \* LoadState::WaitingForResults
   awaited : SUBSET {"incremental", "snapshot"},  \* its LoadRange tasks, and
   loaded : SUBSET Chunk,                         \* what the others returned
   atOpen : SUBSET Change]  \* history: what was stored when the load began

Absent ==
  [run |-> "Down", phase |-> "Loading", creating |-> {}, held |-> {}, saved |-> {},
   onDisk |-> {}, compacting |-> FALSE, supercedes |-> {}, deletions |-> {},
   putting |-> {}, written |-> {}, deleting |-> NoDeletes, deleted |-> NoDeletes,
   loading |-> FALSE, awaited |-> {}, loaded |-> {}, atOpen |-> {}]

(* The shape of the storage and of the actors.                             *)
TypeOK ==
    /\ disk \subseteq Chunk
    /\ actor \in [Repo -> Actor]
    /\ stale \in [Key -> Nat]
    /\ fresh \in BOOLEAN

Init ==
    /\ disk = {}
    /\ actor = [r \in Repo |-> Absent]
    /\ stale = NoDeletes
    /\ fresh = TRUE

----------------------------------------------------------------------------
(* OnDiskState.                                                            *)

IncrementalKey(c) == [kind |-> "incremental", of |-> {c}]
SnapshotKey(held) == [kind |-> "snapshot", of |-> Doc(held)]
Incremental(c) == [key |-> IncrementalKey(c), data |-> {c}]
Snapshot(held) == [key |-> SnapshotKey(held), data |-> held]

NewChanges(a) == Doc(a.held) \ a.saved

\* mutant: off by one
EligibleAtThreshold(a) ==
    /\ ~a.compacting
    /\ Cardinality(NewChanges(a)) >= Threshold \/ Cardinality(a.onDisk) >= Threshold
Eligible(a) ==
    /\ ~a.compacting
    /\ Cardinality(NewChanges(a)) > Threshold \/ Cardinality(a.onDisk) > Threshold

(* The keys a snapshot supersedes: not its own, which is on disk already   *)
(* when a process died between writing it and deleting the rest.           *)
OwnKeyToo(a) == a.onDisk   \* mutant: CHANGELOG.md:446
Superseded(a) == a.onDisk \ {SnapshotKey(a.held)}

\* mutants: new changes wait for the load, or the compaction; then are not new
NoneWhileLoading(a) ==
    IF a.loading THEN {} ELSE {Incremental(c) : c \in NewChanges(a)}
NoneWhileCompacting(a) ==
    IF a.compacting THEN {} ELSE {Incremental(c) : c \in NewChanges(a)}
NewPuts(a) == {Incremental(c) : c \in NewChanges(a)}

DueDeletes(a) == a.deletions

(* save_new_changes: put the new changes one by one, or the whole document *)
(* as a snapshot that will supersede everything known to be on disk; then  *)
(* delete what an earlier compaction superseded.                           *)
SaveNewChanges(a) ==
    LET issued == [a EXCEPT !.saved = Doc(a.held),
                            !.deletions = {},
                            !.deleting = [k \in Key |-> IF k \in DueDeletes(a)
                                                        THEN a.deleting[k] + 1
                                                        ELSE a.deleting[k]]]
    IN IF Eligible(a)
       THEN [issued EXCEPT !.putting = @ \cup {Snapshot(a.held)},
                           !.compacting = TRUE,
                           !.supercedes = Superseded(a)]
       ELSE [issued EXCEPT !.putting = @ \cup NewPuts(a)]

\* mutants: the compaction is not waited for; deletes are, but never issued
AllButCompaction(a) == (a.putting = {} /\ a.written = {}) \/ a.compacting
DeletesToo(a) == a.putting = {} /\ a.written = {} /\ a.deletions = {}
IsFlushed(a) == a.putting = {} /\ a.written = {}

(* DocumentActor::step.  A stopping actor saves nothing any more: it waits *)
(* for its puts, and not for its deletes.                                  *)
Stepped(a) ==
    IF a.run = "Running" THEN SaveNewChanges(a)
    ELSE IF a.run = "Stopping" /\ IsFlushed(a) THEN [a EXCEPT !.run = "Stopped"]
    ELSE a

KeysKept(a) == a.onDisk \ a.supercedes

(* mark_put_complete: the put of a snapshot is always the compaction's.    *)
MarkPutComplete(a, ch) ==
    LET done == [a EXCEPT !.written = @ \ {ch}]
    IN IF ch.key.kind = "snapshot"
       THEN [done EXCEPT !.onDisk = KeysKept(a) \cup {ch.key},
                         !.deletions = @ \cup a.supercedes,
                         !.supercedes = {}, !.compacting = FALSE]
       ELSE [done EXCEPT !.onDisk = @ \cup {ch.key}]

MarkDeleteComplete(a, k) ==
    [a EXCEPT !.deleted[k] = @ - 1, !.onDisk = @ \ {k}]

(* handle_load and add_keys: every chunk goes into the document, then the  *)
(* changes in sync messages that were waiting for it, and every key that   *)
(* was read is known to be on disk.                                        *)
HandleLoad(a, pending) ==
    [a EXCEPT !.held = @ \cup Changes(a.loaded) \cup pending,
              !.phase = "Ready",
              !.onDisk = @ \cup {ch.key : ch \in a.loaded},
              !.loading = FALSE, !.loaded = {}, !.atOpen = {}]

----------------------------------------------------------------------------
(* The life of an actor.                                                   *)

Alive(r) == actor[r].run # "Down"
Handling(r) == actor[r].run \in {"Running", "Stopping"}

(* DocumentActor::new up to its first step: the load is dispatched, and a  *)
(* document with content is Ready, and saved, without waiting for it.      *)
NewActor(content) ==
    Stepped([Absent EXCEPT !.run = "Running",
                           !.phase = IF content = {} THEN "Loading" ELSE "Ready",
                           !.creating = content, !.held = content,
                           !.loading = TRUE, !.awaited = {"incremental", "snapshot"},
                           !.atOpen = Changes(disk)])

(* Repo::create.  The document's id is new: nothing is stored under it.    *)
Create(r, content) ==
    /\ fresh /\ ~Alive(r)
    /\ content # {} /\ Doc(content) = content
    /\ actor' = [actor EXCEPT ![r] = NewActor(content)]
    /\ fresh' = FALSE
    /\ UNCHANGED <<disk, stale>>

(* The first step reported Ready, so the hub answers the create command.   *)
CreateReturns(r) ==
    /\ actor[r].creating # {}
    /\ actor' = [actor EXCEPT ![r].creating = {}]
    /\ UNCHANGED <<disk, stale, fresh>>

(* The document is opened by a search or a sync message, in a new process  *)
(* or in a new repo after the old one stopped: the deletes of the old one  *)
(* may still be in progress, since stop does not wait for them.            *)
Open(r) ==
    /\ actor[r].run \in {"Down", "Stopped"}
    /\ \A k \in Key : stale[k] + actor[r].deleting[k] <= MaxDeletes
    /\ actor' = [actor EXCEPT ![r] = NewActor({})]
    /\ stale' = [k \in Key |-> stale[k] + actor[r].deleting[k]]
    /\ fresh' = FALSE
    /\ UNCHANGED disk

(* The hub tells the actor to stop.                                        *)
Terminate(r) ==
    /\ actor[r].run = "Running"
    /\ actor' = [actor EXCEPT ![r] = Stepped([actor[r] EXCEPT !.run = "Stopping"])]
    /\ UNCHANGED <<disk, stale, fresh>>

(* The process dies, and with it the tasks that storage has not executed.  *)
Crash(r) ==
    /\ Alive(r)
    /\ actor' = [actor EXCEPT ![r] = Absent]
    /\ UNCHANGED <<disk, stale, fresh>>

(* The document changes: a peer's sync message is applied, or with_document *)
(* commits, whose only condition is the phase.                              *)
ChangesArrive(r, S) ==
    /\ Alive(r) /\ actor[r].phase = "Ready"
    /\ ~(S \subseteq actor[r].held)
    /\ actor' = [actor EXCEPT ![r] = Stepped([actor[r] EXCEPT !.held = @ \cup S])]
    /\ UNCHANGED <<disk, stale, fresh>>

----------------------------------------------------------------------------
(* Storage executes the tasks of the IO loop, in any order, and the actor  *)
(* handles their completions, in any order.  A stopped actor ignores them. *)

(* One of the two LoadRange tasks reads storage.                           *)
ReadRange(r, kind) ==
    /\ kind \in actor[r].awaited
    /\ actor' = [actor EXCEPT ![r].awaited = @ \ {kind},
                              ![r].loaded = @ \cup OfKind(disk, kind)]
    /\ UNCHANGED <<disk, stale, fresh>>

\* mutant: one of the two results is enough
HalfIsIn(a) == a.loading /\ Cardinality(a.awaited) < 2
AllIsIn(a) == a.loading /\ a.awaited = {}

(* The second LoadRange completes, and the load with it.                   *)
LoadDone(r, pending) ==
    /\ Handling(r)
    /\ AllIsIn(actor[r])
    /\ actor[r].phase = "Ready" => pending = {}
    /\ actor' = [actor EXCEPT ![r] = Stepped(HandleLoad(@, pending))]
    /\ UNCHANGED <<disk, stale, fresh>>

PutExecutes(r, ch) ==
    /\ ch \in actor[r].putting
    /\ disk' = {other \in disk : other.key # ch.key} \cup {ch}
    /\ actor' = [actor EXCEPT ![r].putting = @ \ {ch}, ![r].written = @ \cup {ch}]
    /\ UNCHANGED <<stale, fresh>>

PutDone(r, ch) ==
    /\ Handling(r)
    /\ ch \in actor[r].written
    /\ actor' = [actor EXCEPT ![r] = Stepped(MarkPutComplete(@, ch))]
    /\ UNCHANGED <<disk, stale, fresh>>

DeleteExecutes(r, k) ==
    /\ actor[r].deleting[k] > 0
    /\ disk' = {ch \in disk : ch.key # k}
    /\ actor' = [actor EXCEPT ![r].deleting[k] = @ - 1, ![r].deleted[k] = @ + 1]
    /\ UNCHANGED <<stale, fresh>>

DeleteDone(r, k) ==
    /\ Handling(r)
    /\ actor[r].deleted[k] > 0
    /\ actor' = [actor EXCEPT ![r] = Stepped(MarkDeleteComplete(@, k))]
    /\ UNCHANGED <<disk, stale, fresh>>

(* A delete of a repo that has stopped.                                    *)
StaleDelete(k) ==
    /\ stale[k] > 0
    /\ disk' = {ch \in disk : ch.key # k}
    /\ stale' = [stale EXCEPT ![k] = @ - 1]
    /\ UNCHANGED <<actor, fresh>>

StorageStep(r) ==
    \/ \E kind \in {"incremental", "snapshot"} : ReadRange(r, kind)
    \/ \E S \in SUBSET Change : LoadDone(r, S)
    \/ \E ch \in actor[r].putting : PutExecutes(r, ch)
    \/ \E ch \in actor[r].written : PutDone(r, ch)
    \/ \E k \in Key : DeleteExecutes(r, k) \/ DeleteDone(r, k)

Next ==
    \/ \E r \in Repo :
         \/ \E S \in SUBSET Change : Create(r, S) \/ ChangesArrive(r, S)
         \/ CreateReturns(r) \/ Open(r) \/ Terminate(r) \/ Crash(r)
         \/ StorageStep(r)
    \/ \E k \in Key : StaleDelete(k)

Spec == Init /\ [][Next]_vars

(* Storage tasks terminate, and the actor's mailbox is worked off.         *)
FairSpec == Spec /\ \A r \in Repo : WF_vars(StorageStep(r))

----------------------------------------------------------------------------
Stored == Changes(disk)
Tasks(a) == a.putting \cup a.written

Store == INSTANCE ChangeStore
           WITH mem <- [r \in Repo |-> actor[r].held], durable <- Stored

(* Repos that share storage never lose data, whatever the order in which   *)
(* storage executes their operations (storage.rs:19-25): saving,           *)
(* compacting, deleting, crashing and reopening add to what storage gives  *)
(* back, and never take from it.                                           *)
StoreSpec == Store!Spec

(* What an actor believes it has saved is in storage, or in a put that     *)
(* storage has yet to execute (last_saved_heads moves on at once,          *)
(* on_disk_state.rs:89).                                                   *)
SavedIsSafe ==
    \A r \in Repo : actor[r].saved \subseteq Stored \cup Changes(actor[r].putting)

(* A document that stopped is in storage, together with everything that    *)
(* its changes depend on, as it was when Terminate was handled: "flush     *)
(* everything to storage before shutting down" (lib.rs:461-462).           *)
FlushedWhenStopped ==
    \A r \in Repo : actor[r].run = "Stopped" => actor[r].saved \subseteq Doc(Stored)

(* A completed load has found every change that was in storage when the    *)
(* document was opened (document_actor.rs:400-408), although its two       *)
(* ranges are read at different times, while deletes are in progress.      *)
LoadFindsAll ==
    [][\A r \in Repo, S \in SUBSET Change :
         LoadDone(r, S) => actor[r].atOpen \subseteq actor'[r].held]_vars

(* A document told to stop does stop, unless the process dies first        *)
(* (document_actor.rs:419-426).                                            *)
StopCompletes ==
    \A r \in Repo : actor[r].run = "Stopping" ~> actor[r].run # "Stopping"

(* Compaction does not chase its own tail: what it writes is not itself    *)
(* reason to compact for ever (on_disk_state.rs:65-70, 131-136).           *)
CompactionSettles == \A r \in Repo : []<>(~actor[r].compacting)
=============================================================================
