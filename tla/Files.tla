-------------------------------- MODULE Files --------------------------------
(***************************************************************************)
(* DocStorage on samod's own storage back ends: the two of                 *)
(* samod/src/storage/filesystem.rs and in_memory.rs.  DocStorage takes a   *)
(* put, and the reading of a range, for one step each, and no put fails.   *)
(* Here a put to a file may fail, or be cut short by a crash after         *)
(* tokio::fs::write has truncated the file and before it has filled it     *)
(* (gio replaces the file at once); a range is a walk over a directory     *)
(* that goes on changing; and a repo loads its id before its documents.    *)
(*                                                                         *)
(* Abstracted: the names of the files (a key is its path), directories     *)
(* being created, and reads failing.  A file that was cut short cannot be  *)
(* parsed, so it holds no changes, but its key is read all the same.       *)
(***************************************************************************)
EXTENDS DocStorage

CONSTANTS
  BackEnds,      \* of "memory", "gio" and "tokio"
  MaxIds,        \* bound: ids in use
  MaxFailures,   \* bound, by back end: puts that fail
  MaxCuts,       \* bound: puts that a crash cuts short
  NoFile

ASSUME FilesAssumption ==
    /\ BackEnds \subseteq {"memory", "gio", "tokio"}
    /\ MaxIds \in Nat /\ NoFile \notin 0 .. MaxIds
    /\ MaxFailures \in [BackEnds -> Nat] /\ MaxCuts \in Nat

VARIABLES
  backend, loader, id, idFile, failures, used, unsaved,  \* Loader
  writing,   \* chunks whose files are truncated, with their repos
  cuts,      \* puts that were cut short
  walk,      \* per repo and kind: a load_range in progress
  blamed,    \* history: changes in puts that failed, were cut short or condemned
  durable    \* history: changes that storage has held

L == INSTANCE Loader

idVars == <<loader, id, idFile, used, unsaved>>
fileVars == <<backend, idVars, failures, cuts, writing, walk, blamed>>
allVars == <<vars, fileVars, durable>>

Kinds == {"incremental", "snapshot"}
NoWalk == [open |-> FALSE, due |-> {}, read |-> {}]
NoWalks == [kind \in Kinds |-> NoWalk]

FilesInit ==
    /\ Init /\ L!LoaderInit
    /\ backend \in BackEnds
    /\ writing = {} /\ cuts = 0 /\ blamed = {} /\ durable = {}
    /\ walk = [r \in Repo |-> NoWalks]

OnDiskKeys == {ch.key : ch \in disk}
CutShort(ch) == [key |-> ch.key, data |-> {}]
Others(ch) == {other \in disk : other.key # ch.key}

----------------------------------------------------------------------------
(* The repo: it is built, then has its document.                           *)

Rest == UNCHANGED <<backend, cuts, writing, walk, blamed>>

LoaderRuns(r) ==
    /\ ~Handling(r)
    /\ L!Begin(r) \/ L!LoaderStep(r)
    /\ UNCHANGED vars /\ Rest

(* What the actor does without its storage, in a repo that is built.       *)
ActorActs(r) ==
    /\ loader[r] = "Done"
    /\ \/ \E S \in SUBSET Change : Create(r, S) \/ ChangesArrive(r, S)
       \/ CreateReturns(r)
    /\ UNCHANGED fileVars

(* A new actor: what the walks of a stopped one return is ignored.         *)
OpenDocument(r) ==
    /\ loader[r] = "Done"
    /\ Open(r)
    /\ walk' = [walk EXCEPT ![r] = NoWalks]
    /\ UNCHANGED <<backend, idVars, failures, cuts, writing, blamed>>

(* Repo::stop; the next repo is built once the actor has stopped.          *)
StopRepo(r) ==
    /\ Terminate(r) /\ L!LoaderGone(r)
    /\ UNCHANGED failures /\ Rest

Truncated(r) == {w.chunk : w \in {v \in writing : v.repo = r}}

(* The process dies.  The memory back end dies with it: not modelled.      *)
Die(r) ==
    /\ backend # "memory"
    /\ loader[r] # "Down" \/ Alive(r)
    /\ cuts' = cuts + Cardinality(Truncated(r))
    /\ cuts' <= MaxCuts
    /\ actor' = [actor EXCEPT ![r] = Absent]
    /\ L!LoaderGone(r)
    /\ writing' = {w \in writing : w.repo # r}
    /\ walk' = [walk EXCEPT ![r] = NoWalks]
    /\ blamed' = blamed \cup Changes(Truncated(r))
    /\ UNCHANGED <<disk, stale, fresh, backend, failures>>

----------------------------------------------------------------------------
(* Puts and deletes.                                                       *)

Unchanged == UNCHANGED <<backend, cuts, idVars, walk>>

(* The key of a snapshot leaves out what the document has queued, so a     *)
(* snapshot may replace a smaller one.  After a fault, the smaller one may *)
(* be all that a repo found, and yet be due for deletion by an earlier one *)
(* whose own snapshot is lost: what replaces it will be deleted as well.   *)
Condemned(ch) ==
    IF /\ ch.key.kind = "snapshot" /\ failures + cuts > 0
       /\ \/ stale[ch.key] > 0
          \/ \E r \in Repo : ch.key \in actor[r].deletions \/ actor[r].deleting[ch.key] > 0
    THEN ch.data ELSE {}

(* tokio: the file is there, and empty.                                    *)
PutTruncates(r, ch) ==
    /\ backend = "tokio"
    /\ ch \in actor[r].putting /\ ch \notin Truncated(r)
    /\ disk' = Others(ch) \cup {CutShort(ch)}
    /\ writing' = writing \cup {[repo |-> r, chunk |-> ch]}
    /\ blamed' = blamed \cup Condemned(ch)
    /\ UNCHANGED <<actor, stale, fresh, failures>> /\ Unchanged

(* tokio: the file is filled, if it has not been removed meanwhile.        *)
PutFills(r, ch) ==
    /\ ch \in Truncated(r)
    /\ disk' = IF ch.key \in OnDiskKeys THEN Others(ch) \cup {ch} ELSE disk
    /\ actor' = [actor EXCEPT ![r].putting = @ \ {ch}, ![r].written = @ \cup {ch}]
    /\ writing' = writing \ {[repo |-> r, chunk |-> ch]}
    /\ UNCHANGED <<stale, fresh, failures, blamed>> /\ Unchanged

(* gio: replace_contents; memory: insert.                                  *)
PutReplaces(r, ch) ==
    /\ backend # "tokio"
    /\ PutExecutes(r, ch)
    /\ blamed' = blamed \cup Condemned(ch)
    /\ UNCHANGED <<failures, writing>> /\ Unchanged

(* The error of create_dir_all, write or replace_contents goes nowhere:    *)
(* the task is complete.                                                   *)
PutFails(r, ch) ==
    /\ backend # "memory" /\ failures < MaxFailures[backend]
    /\ ch \in actor[r].putting
    /\ actor' = [actor EXCEPT ![r].putting = @ \ {ch}, ![r].written = @ \cup {ch}]
    /\ writing' = writing \ {[repo |-> r, chunk |-> ch]}
    /\ failures' = failures + 1
    /\ blamed' = blamed \cup ch.data
    /\ UNCHANGED <<disk, stale, fresh>> /\ Unchanged

(* A directory does not list what has been removed from it.                *)
Unlisted(k) ==
    walk' = [r \in Repo |-> [walk[r] EXCEPT ![k.kind].due = @ \ {k}]]

Remove(k) ==
    /\ StaleDelete(k) \/ \E r \in Repo : DeleteExecutes(r, k)
    /\ Unlisted(k)
    /\ UNCHANGED <<backend, idVars, failures, cuts, writing, blamed>>

----------------------------------------------------------------------------
(* load_range.                                                             *)

RestOfLoad == UNCHANGED <<backend, idVars, failures, cuts, writing, blamed>>

(* memory: under the lock of the map.                                      *)
RangeRead(r, kind) ==
    /\ backend = "memory"
    /\ ReadRange(r, kind)
    /\ UNCHANGED walk /\ RestOfLoad

(* read_dir.  What is in the directory until the end will be listed.       *)
WalkBegins(r, kind) ==
    /\ backend # "memory"
    /\ kind \in actor[r].awaited /\ ~walk[r][kind].open
    /\ walk' = [walk EXCEPT ![r][kind] =
                  [open |-> TRUE, due |-> {ch.key : ch \in OfKind(disk, kind)}, read |-> {}]]
    /\ UNCHANGED vars /\ RestOfLoad

(* A file that next_entry lists is read, unless it is gone by then.        *)
WalkReads(r, ch) ==
    LET at == walk[r][ch.key.kind] IN
    /\ at.open /\ ch \in disk /\ ch.key \notin at.read
    /\ walk' = [walk EXCEPT ![r][ch.key.kind].read = @ \cup {ch.key}]
    /\ actor' = [actor EXCEPT ![r].loaded = @ \cup {ch}]
    /\ UNCHANGED <<disk, stale, fresh>> /\ RestOfLoad

StopsEarly(at) == at.open   \* mutant: the walk ends at the first trouble
AllRead(at) == at.open /\ at.due \subseteq at.read

WalkEnds(r, kind) ==
    /\ AllRead(walk[r][kind])
    /\ actor' = [actor EXCEPT ![r].awaited = @ \ {kind}]
    /\ walk' = [walk EXCEPT ![r][kind] = NoWalk]
    /\ UNCHANGED <<disk, stale, fresh>> /\ RestOfLoad

(* The actor handles what its tasks returned.                              *)
Complete(r) ==
    /\ \/ \E S \in SUBSET Change : LoadDone(r, S)
       \/ \E ch \in actor[r].written : PutDone(r, ch)
       \/ \E k \in Key : DeleteDone(r, k)
    /\ UNCHANGED fileVars

FileStep(r) ==
    \/ \E ch \in actor[r].putting :
         PutTruncates(r, ch) \/ PutFills(r, ch) \/ PutReplaces(r, ch) \/ PutFails(r, ch)
    \/ \E kind \in Kinds : RangeRead(r, kind) \/ WalkBegins(r, kind) \/ WalkEnds(r, kind)
    \/ \E ch \in disk : WalkReads(r, ch)
    \/ Complete(r)

Remembered == durable' = durable \cup Changes(disk')

FilesNext ==
    /\ \/ \E r \in Repo :
            LoaderRuns(r) \/ ActorActs(r) \/ OpenDocument(r) \/ StopRepo(r) \/ Die(r) \/ FileStep(r)
       \/ \E k \in Key : Remove(k)
    /\ Remembered

FilesSpec == FilesInit /\ [][FilesNext]_allVars

(* Storage operations return, and the actor's mailbox is worked off.       *)
FairFiles ==
    /\ FilesSpec
    /\ \A r \in Repo : WF_allVars(FileStep(r) /\ Remembered)

----------------------------------------------------------------------------
InRewrite == UNION {w.chunk.data : w \in writing}

(* What is lost was lost to a fault: whatever order files are written,     *)
(* replaced, listed and removed in, a change that was once in storage is   *)
(* there, or its file is being rewritten, or a put that held it failed or  *)
(* was cut short, or went, after such a put, to a key that a delete was on *)
(* its way to (filesystem.rs:124-145, on_disk_state.rs:121-137).           *)
LostOnlyByFaults == durable \subseteq Stored \cup InRewrite \cup blamed

(* "This is okay, worst case we end up with some extra data on disk which  *)
(* gets cleared up on next boot" (on_disk_state.rs:127-128): a process     *)
(* that dies takes nothing with it that storage held.                      *)
NeverLost == durable \subseteq Stored \cup InRewrite

(* A load that walks two directories while files are removed from them     *)
(* finds every change that was stored when it began, whatever part of the  *)
(* listing is stale (filesystem.rs:71-122, 215-292).                       *)
WalksFindAll ==
    [][\A r \in Repo, S \in SUBSET Change :
         LoadDone(r, S) => actor[r].atOpen \subseteq actor'[r].held \cup blamed]_allVars

(* A change in a running document reaches storage without another change   *)
(* or a stop to push it there (document_actor.rs:434-435), unless its put  *)
(* fails.                                                                  *)
ChangesReachDisk ==
    \A r \in Repo, c \in Change :
      actor[r].run = "Running" /\ c \in Doc(actor[r].held)
        ~> c \in Stored \cup blamed \/ actor[r].run # "Running"

(* A storage keeps its id (Loader).                                        *)
IdKept == L!IdKept
=============================================================================
