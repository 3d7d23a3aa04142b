--------------------------- MODULE Storage_proofs ---------------------------
(***************************************************************************)
(* Proofs about DocStorage, for any number of repos that share the         *)
(* storage, any set of changes and any threshold, while no snapshot is put *)
(* with changes queued, or for one repo always; and about Files, on any    *)
(* back end and however often its repo boots, stops, dies and saves: the   *)
(* storage keeps its id, and loses no change but to a fault.  The latter   *)
(* for one repo at a time, for two that boot at once on a new storage may  *)
(* each generate an id, and the one whose file is replaced keeps its own.  *)
(***************************************************************************)
EXTENDS Files, FiniteSetTheorems, TLAPS

----------------------------------------------------------------------------
(* Types.                                                                  *)

(* Incremental chunks and snapshots are chunks.                            *)
LEMMA ChunkTypes ==
    /\ \A c \in Change : Incremental(c) \in Chunk
    /\ \A h \in SUBSET Change : Snapshot(h) \in Chunk /\ SnapshotKey(h) \in Key
    /\ \A h \in SUBSET Change : Doc(h) \in SUBSET Change
    /\ NoDeletes \in [Key -> Nat]
  BY DEF Incremental, IncrementalKey, Snapshot, SnapshotKey, Chunk, Key, Doc, NoDeletes

(* A step of an actor is an actor.                                         *)
LEMMA SteppedType == ASSUME NEW a \in Actor PROVE Stepped(a) \in Actor
<1> DEFINE dels == [k \in Key |-> IF k \in DueDeletes(a) THEN a.deleting[k] + 1
                                                         ELSE a.deleting[k]]
<1>1. dels \in [Key -> Nat]
  BY DEF Actor
<1>2. Superseded(a) \in SUBSET Key /\ NewPuts(a) \in SUBSET Chunk
      /\ Snapshot(a.held) \in Chunk /\ Doc(a.held) \in SUBSET Change
  BY ChunkTypes DEF Actor, Superseded, NewPuts, NewChanges
<1>3. SaveNewChanges(a) \in Actor
  <2> HIDE DEF dels
  <2> DEFINE issued == [a EXCEPT !.saved = Doc(a.held), !.deletions = {}, !.deleting = dels]
  <2>1. issued \in Actor
    BY <1>1, <1>2 DEF Actor
  <2>2. [issued EXCEPT !.putting = @ \cup {Snapshot(a.held)}, !.compacting = TRUE,
                       !.supercedes = Superseded(a)] \in Actor
    BY <2>1, <1>2, ZenonT(60) DEF Actor
  <2>3. [issued EXCEPT !.putting = @ \cup NewPuts(a)] \in Actor
    BY <2>1, <1>2 DEF Actor
  <2> QED BY <2>2, <2>3 DEF SaveNewChanges, dels
<1>4. [a EXCEPT !.run = "Stopped"] \in Actor
  BY DEF Actor
<1> QED BY <1>3, <1>4 DEF Stepped

LEMMA AbsentType == Absent \in Actor
  BY ChunkTypes DEF Absent, Actor

LEMMA NewActorType ==
    ASSUME TypeOK, NEW content \in SUBSET Change PROVE NewActor(content) \in Actor
<1> DEFINE a == [Absent EXCEPT !.run = "Running",
                               !.phase = IF content = {} THEN "Loading" ELSE "Ready",
                               !.creating = content, !.held = content,
                               !.loading = TRUE, !.awaited = {"incremental", "snapshot"},
                               !.atOpen = Changes(disk)]
<1>1. Changes(disk) \in SUBSET Change
  BY DEF TypeOK, Changes, Chunk
<1>2. a \in Actor
  BY AbsentType, <1>1 DEF Actor
<1> QED BY <1>2, SteppedType DEF NewActor

LEMMA HandleLoadType ==
    ASSUME NEW a \in Actor, NEW S \in SUBSET Change PROVE HandleLoad(a, S) \in Actor
<1>1. Changes(a.loaded) \in SUBSET Change /\ {ch.key : ch \in a.loaded} \in SUBSET Key
  BY DEF Actor, Changes, Chunk
<1> QED BY <1>1 DEF HandleLoad, Actor

LEMMA MarkPutType ==
    ASSUME NEW a \in Actor, NEW ch \in Chunk PROVE MarkPutComplete(a, ch) \in Actor
<1>1. ch.key \in Key
  BY DEF Chunk
<1>2. KeysKept(a) \in SUBSET Key
  BY DEF KeysKept, Actor
<1> QED BY <1>1, <1>2, ZenonT(60) DEF MarkPutComplete, Actor

LEMMA MarkDeleteType ==
    ASSUME NEW a \in Actor, NEW k \in Key, a.deleted[k] > 0
    PROVE  MarkDeleteComplete(a, k) \in Actor
<1> DEFINE dels == [a.deleted EXCEPT ![k] = @ - 1]
<1>1. dels \in [Key -> Nat]
  BY DEF Actor
<1> HIDE DEF dels
<1>2. [a EXCEPT !.deleted = dels, !.onDisk = @ \ {k}] \in Actor
  BY <1>1 DEF Actor
<1>3. MarkDeleteComplete(a, k) = [a EXCEPT !.deleted = dels, !.onDisk = @ \ {k}]
  BY DEF MarkDeleteComplete, Actor, dels
<1> QED BY <1>2, <1>3

(* The variables keep their types.                                         *)
LEMMA TypeStep == TypeOK /\ [Next]_vars => TypeOK'
<1> SUFFICES ASSUME TypeOK, [Next]_vars PROVE TypeOK'
  OBVIOUS
<1>0. \A r \in Repo : actor[r] \in Actor
  BY DEF TypeOK
<1>1. ASSUME NEW r \in Repo, NEW b \in Actor, actor' = [actor EXCEPT ![r] = b],
             disk' \subseteq Chunk, stale' = stale, fresh' \in BOOLEAN
      PROVE TypeOK'
  BY <1>1 DEF TypeOK
<1>2. ASSUME NEW r \in Repo, NEW S \in SUBSET Change, Create(r, S) PROVE TypeOK'
  <2>1. NewActor(S) \in Actor
    BY NewActorType, <1>2
  <2> QED BY <1>1, <1>2, <2>1 DEF Create, TypeOK
<1>3. ASSUME NEW r \in Repo, NEW S \in SUBSET Change, ChangesArrive(r, S) PROVE TypeOK'
  <2> DEFINE a == [actor[r] EXCEPT !.held = @ \cup S]
  <2>0. actor[r] \in Actor
    BY <1>0
  <2>1. a \in Actor
    BY <2>0 DEF Actor
  <2>2. Stepped(a) \in Actor
    BY <2>1, SteppedType
  <2> QED BY <1>1, <1>3, <2>2 DEF ChangesArrive, TypeOK
<1>4. ASSUME NEW r \in Repo, CreateReturns(r) PROVE TypeOK'
  <2> DEFINE b == [actor[r] EXCEPT !.creating = {}]
  <2>0. actor[r] \in Actor
    BY <1>0
  <2>1. b \in Actor
    BY <2>0 DEF Actor
  <2>2. actor' = [actor EXCEPT ![r] = b]
    BY <1>0, <1>4 DEF CreateReturns, TypeOK, Actor
  <2> HIDE DEF b
  <2> QED BY <1>1, <1>4, <2>1, <2>2 DEF CreateReturns, TypeOK
<1>5. ASSUME NEW r \in Repo, Open(r) PROVE TypeOK'
  <2>1. NewActor({}) \in Actor
    BY NewActorType
  <2>2. \A k \in Key : stale[k] + actor[r].deleting[k] \in Nat
    BY <1>0 DEF Actor, TypeOK
  <2> QED BY <1>5, <2>1, <2>2 DEF Open, TypeOK
<1>6. ASSUME NEW r \in Repo, Terminate(r) PROVE TypeOK'
  <2> DEFINE a == [actor[r] EXCEPT !.run = "Stopping"]
  <2>0. actor[r] \in Actor
    BY <1>0
  <2>1. a \in Actor
    BY <2>0 DEF Actor
  <2>2. Stepped(a) \in Actor
    BY <2>1, SteppedType
  <2> QED BY <1>1, <1>6, <2>2 DEF Terminate, TypeOK
<1>7. ASSUME NEW r \in Repo, Crash(r) PROVE TypeOK'
  BY <1>1, <1>7, AbsentType DEF Crash, TypeOK
<1>8. ASSUME NEW r \in Repo, NEW kind \in {"incremental", "snapshot"}, ReadRange(r, kind)
      PROVE TypeOK'
  <2> DEFINE b == [actor[r] EXCEPT !.awaited = @ \ {kind}, !.loaded = @ \cup OfKind(disk, kind)]
  <2>1. OfKind(disk, kind) \subseteq Chunk
    BY DEF OfKind, TypeOK
  <2>0. actor[r] \in Actor
    BY <1>0
  <2>2. b \in Actor
    BY <2>0, <2>1 DEF Actor
  <2>3. actor' = [actor EXCEPT ![r] = b]
    BY <1>0, <1>8 DEF ReadRange, TypeOK, Actor
  <2> HIDE DEF b
  <2> QED BY <1>1, <1>8, <2>2, <2>3 DEF ReadRange, TypeOK
<1>9. ASSUME NEW r \in Repo, NEW S \in SUBSET Change, LoadDone(r, S) PROVE TypeOK'
  <2>1. HandleLoad(actor[r], S) \in Actor
    BY <1>0, HandleLoadType
  <2>2. Stepped(HandleLoad(actor[r], S)) \in Actor
    BY <2>1, SteppedType
  <2> QED BY <1>1, <1>9, <2>2 DEF LoadDone, TypeOK
<1>10. ASSUME NEW r \in Repo, NEW ch \in actor[r].putting, PutExecutes(r, ch) PROVE TypeOK'
  <2> DEFINE b == [actor[r] EXCEPT !.putting = @ \ {ch}, !.written = @ \cup {ch}]
  <2>0. actor[r] \in Actor
    BY <1>0
  <2>1. b \in Actor /\ ch \in Chunk
    BY <2>0 DEF Actor
  <2>2. actor' = [actor EXCEPT ![r] = b]
    BY <1>0, <1>10 DEF PutExecutes, TypeOK, Actor
  <2> HIDE DEF b
  <2> QED BY <1>1, <1>10, <2>1, <2>2 DEF PutExecutes, TypeOK
<1>11. ASSUME NEW r \in Repo, NEW ch \in actor[r].written, PutDone(r, ch) PROVE TypeOK'
  <2>1. ch \in Chunk
    BY <1>0 DEF Actor
  <2>2. MarkPutComplete(actor[r], ch) \in Actor
    BY <1>0, <2>1, MarkPutType
  <2>3. Stepped(MarkPutComplete(actor[r], ch)) \in Actor
    BY <2>2, SteppedType
  <2> QED BY <1>1, <1>11, <2>3 DEF PutDone, TypeOK
<1>12. ASSUME NEW r \in Repo, NEW k \in Key, DeleteExecutes(r, k) PROVE TypeOK'
  <2> DEFINE left == [actor[r].deleting EXCEPT ![k] = @ - 1]
             done == [actor[r].deleted EXCEPT ![k] = @ + 1]
             b == [actor[r] EXCEPT !.deleting = left, !.deleted = done]
  <2>1. left \in [Key -> Nat] /\ done \in [Key -> Nat]
    BY <1>0, <1>12 DEF DeleteExecutes, Actor
  <2>2. actor' = [actor EXCEPT ![r] = b]
    BY <1>0, <1>12 DEF DeleteExecutes, TypeOK, Actor
  <2> HIDE DEF left, done
  <2>0. actor[r] \in Actor
    BY <1>0
  <2>3. b \in Actor
    BY <2>0, <2>1 DEF Actor
  <2> HIDE DEF b
  <2> QED BY <1>1, <1>12, <2>2, <2>3 DEF DeleteExecutes, TypeOK
<1>13. ASSUME NEW r \in Repo, NEW k \in Key, DeleteDone(r, k) PROVE TypeOK'
  <2>1. MarkDeleteComplete(actor[r], k) \in Actor
    BY <1>0, <1>13, MarkDeleteType DEF DeleteDone
  <2>2. Stepped(MarkDeleteComplete(actor[r], k)) \in Actor
    BY <2>1, SteppedType
  <2> QED BY <1>1, <1>13, <2>2 DEF DeleteDone, TypeOK
<1>14. ASSUME NEW k \in Key, StaleDelete(k) PROVE TypeOK'
  BY <1>14 DEF StaleDelete, TypeOK
<1>15. CASE UNCHANGED vars
  BY <1>15 DEF vars, TypeOK
<1> QED BY <1>2, <1>3, <1>4, <1>5, <1>6, <1>7, <1>8, <1>9, <1>10, <1>11, <1>12, <1>13,
           <1>14, <1>15 DEF Next, StorageStep

(* The storage, the actors and their tasks keep their shape.               *)
THEOREM TypeCorrect == Spec => []TypeOK
<1>1. Init => TypeOK
  BY ChunkTypes, AbsentType DEF Init, TypeOK
<1> QED BY <1>1, TypeStep, PTL DEF Spec

----------------------------------------------------------------------------
(* Shared storage, whatever the changes depend on.  One thing is assumed   *)
(* of the behaviour: no repo puts a snapshot while its document has        *)
(* changes queued for want of those they depend on.  The key of such a     *)
(* snapshot leaves out what is queued (run docstorage_orphan).             *)

PutsComplete(a) == \A ch \in a.putting : ch.key.kind = "snapshot" => ch.data = ch.key.of
CompleteSnapshots == \A r \in Repo : PutsComplete(actor[r])

Below(k, s) == k.of \subseteq s.of /\ k # s

(* The keys an actor has given up: their deletes are in progress, or wait. *)
GivenUp(a) == {k \in Key : a.deleting[k] > 0} \cup a.deletions

(* What one actor knows: its chunks hold what their keys say, everything   *)
(* it puts or has seen on disk is in its document, and all that a          *)
(* compaction supersedes is in the compaction's snapshot.  With a change   *)
(* it has saved what the change depends on.                                *)
Consistent(a) ==
    /\ \A ch \in Tasks(a) \cup a.loaded : ch.data = ch.key.of
    /\ \A ch \in Tasks(a) : ch.key.of \subseteq a.held
    /\ \A k \in a.onDisk : k.of \subseteq a.held
    /\ \A ch \in Tasks(a) :
         ch.key.kind = "snapshot" =>
           /\ a.compacting
           /\ \A k \in a.supercedes : Below(k, ch.key)
           /\ \A other \in Tasks(a) : other.key.kind = "snapshot" => other = ch
           /\ ch \notin a.putting \/ ch \notin a.written
    /\ \A c \in a.saved : Before[c] \subseteq a.saved
    /\ a.run = "Down" => a.held = {} /\ a.saved = {}
    /\ a.run = "Stopped" => Tasks(a) = {}

LEMMA DocClosed ==
    ASSUME NEW h \in SUBSET Change, NEW c \in Doc(h)
    PROVE  Before[c] \subseteq Doc(h)
  BY DocStorageAssumption DEF Doc, DocStorageAssumption

(* A step changes nothing that the document holds.                         *)
LEMMA SteppedHeld == ASSUME NEW a \in Actor PROVE Stepped(a).held = a.held
<1>1. SaveNewChanges(a).held = a.held
  BY DEF SaveNewChanges, Actor
<1> QED BY <1>1 DEF Stepped, Actor

(* A save keeps the actor consistent and gives up nothing more.            *)
LEMMA SaveConsistent ==
    ASSUME NEW a \in Actor, Consistent(a), a.run = "Running",
           PutsComplete(SaveNewChanges(a))
    PROVE  LET b == SaveNewChanges(a)
           IN  /\ Consistent(b)
               /\ b.held = a.held /\ b.written = a.written /\ b.run = a.run
               /\ GivenUp(b) = GivenUp(a)
               /\ a.putting \subseteq b.putting
               /\ b.saved \subseteq a.saved \cup Changes(b.putting)
<1> DEFINE b == SaveNewChanges(a)
<1>1. b.held = a.held /\ b.written = a.written /\ b.run = a.run
      /\ b.loaded = a.loaded /\ b.onDisk = a.onDisk /\ b.saved = Doc(a.held)
      /\ b.deletions = {}
  BY DEF SaveNewChanges, Actor
<1>2. b.deleting = [k \in Key |-> IF k \in a.deletions THEN a.deleting[k] + 1
                                                        ELSE a.deleting[k]]
  BY DEF SaveNewChanges, DueDeletes, Actor
<1>3. GivenUp(b) = GivenUp(a)
  BY <1>1, <1>2 DEF GivenUp, Actor
<1>closed. \A c \in b.saved : Before[c] \subseteq b.saved
  BY <1>1, DocClosed DEF Actor
<1>4. CASE Eligible(a)
  <2>1. b.putting = a.putting \cup {Snapshot(a.held)} /\ b.compacting = TRUE
        /\ b.supercedes = a.onDisk \ {SnapshotKey(a.held)}
    BY <1>4 DEF SaveNewChanges, Superseded, Actor
  <2>fields. Snapshot(a.held).key = SnapshotKey(a.held) /\ Snapshot(a.held).data = a.held
             /\ SnapshotKey(a.held).of = Doc(a.held)
             /\ SnapshotKey(a.held).kind = "snapshot"
    BY DEF Snapshot, SnapshotKey
  <2>whole. Snapshot(a.held).data = Snapshot(a.held).key.of
    BY <2>1, <2>fields DEF PutsComplete
  <2>2. Snapshot(a.held).key = SnapshotKey(a.held) /\ Snapshot(a.held).data = a.held
        /\ SnapshotKey(a.held).of = a.held /\ SnapshotKey(a.held).kind = "snapshot"
        /\ Doc(a.held) = a.held
    BY <2>fields, <2>whole
  <2>3. \A ch \in Tasks(a) : ch.key.kind # "snapshot"
    BY <1>4 DEF Eligible, Consistent
  <2>4. Tasks(b) = Tasks(a) \cup {Snapshot(a.held)}
    BY <1>1, <2>1 DEF Tasks
  <2>5. /\ \A ch \in Tasks(b) \cup b.loaded : ch.data = ch.key.of
        /\ \A ch \in Tasks(b) : ch.key.of \subseteq b.held
        /\ \A k \in b.onDisk : k.of \subseteq b.held
    BY <1>1, <2>2, <2>4 DEF Consistent
  <2>own. \A k \in b.supercedes : Below(k, SnapshotKey(a.held))
    BY <1>1, <2>1, <2>2, <2>5 DEF Below
  <2>one. \A ch \in Tasks(b) : ch.key.kind = "snapshot" => ch = Snapshot(a.held)
    BY <2>3, <2>4
  <2>new. Snapshot(a.held) \notin b.written
    BY <1>1, <2>2, <2>3 DEF Tasks
  <2>6. Consistent(b)
    BY <1>1, <1>closed, <2>1, <2>2, <2>5, <2>own, <2>one, <2>new DEF Consistent
  <2>7. a.held \subseteq Changes(b.putting)
    BY <2>1, <2>2 DEF Changes
  <2> QED BY <1>1, <1>3, <2>1, <2>2, <2>6, <2>7
<1>5. CASE ~Eligible(a)
  <2>1. b.putting = a.putting \cup NewPuts(a) /\ b.compacting = a.compacting
        /\ b.supercedes = a.supercedes
    BY <1>5 DEF SaveNewChanges, Actor
  <2>2. NewPuts(a) = {Incremental(c) : c \in Doc(a.held) \ a.saved}
        /\ Doc(a.held) \subseteq a.held
    BY DEF NewPuts, NewChanges, Doc
  <2>3. \A c \in Change : /\ Incremental(c).key.kind = "incremental"
                          /\ Incremental(c).key.of = {c} /\ Incremental(c).data = {c}
    BY DEF Incremental, IncrementalKey
  <2>4. \A ch \in NewPuts(a) : /\ ch.key.kind # "snapshot" /\ ch.data = ch.key.of
                               /\ ch.key.of \subseteq a.held
    <3> SUFFICES ASSUME NEW c \in a.held
                 PROVE  LET ch == Incremental(c)
                        IN  /\ ch.key.kind # "snapshot" /\ ch.data = ch.key.of
                            /\ ch.key.of \subseteq a.held
      BY <2>2
    <3>1. c \in Change
      BY DEF Actor
    <3> QED BY <2>3, <3>1
  <2>5. Tasks(b) = Tasks(a) \cup NewPuts(a)
    BY <1>1, <2>1 DEF Tasks
  <2>6. Consistent(b)
    BY <1>1, <1>closed, <2>1, <2>4, <2>5 DEF Consistent
  <2>7. Doc(a.held) \ a.saved \subseteq Changes(b.putting)
    <3> SUFFICES ASSUME NEW c \in Doc(a.held) \ a.saved PROVE c \in Changes(b.putting)
      OBVIOUS
    <3>1. Incremental(c) \in b.putting /\ c \in Incremental(c).data
      BY <2>1, <2>2, <2>3 DEF Actor
    <3> QED BY <3>1 DEF Changes
  <2> QED BY <1>1, <1>3, <2>1, <2>6, <2>7
<1> QED BY <1>4, <1>5

(* So does a step, whatever the run state.                                 *)
LEMMA SteppedConsistent ==
    ASSUME NEW a \in Actor, Consistent(a), PutsComplete(Stepped(a))
    PROVE  LET b == Stepped(a)
           IN  /\ Consistent(b)
               /\ b.held = a.held /\ b.written = a.written
               /\ GivenUp(b) = GivenUp(a)
               /\ a.putting \subseteq b.putting
               /\ b.saved \subseteq a.saved \cup Changes(b.putting)
<1>1. CASE a.run = "Running"
  BY <1>1, SaveConsistent DEF Stepped
<1>2. CASE a.run = "Stopping" /\ IsFlushed(a)
  BY <1>2 DEF Stepped, IsFlushed, Consistent, Tasks, GivenUp, Actor
<1>3. CASE a.run # "Running" /\ ~(a.run = "Stopping" /\ IsFlushed(a))
  BY <1>3 DEF Stepped
<1> QED BY <1>1, <1>2, <1>3

(* The keys that some delete will still remove; and a key whose contents   *)
(* are safe in a snapshot that none will.                                  *)
Doomed == {k \in Key : stale[k] > 0 \/ \E r \in Repo : k \in GivenUp(actor[r])}
Safe(k) == \E w \in disk : /\ w.key \notin Doomed /\ w.key.kind = "snapshot"
                           /\ k.of \subseteq w.key.of

(* The inductive invariant: whatever is given up is in a snapshot that is  *)
(* not, and so is the snapshot that a compaction wrote, although another   *)
(* repo may already be deleting it.  The snapshots that supersede each     *)
(* other grow, so the largest stays.                                       *)
SafeDeletes ==
    /\ \A ch \in disk : ch.data = ch.key.of
    /\ \A r \in Repo : Consistent(actor[r])
    /\ \A k \in Doomed : Safe(k)
    /\ \A r \in Repo : \A ch \in actor[r].written : ch.key.kind = "snapshot" => Safe(ch.key)

StoreInv == TypeOK /\ SafeDeletes /\ SavedIsSafe

(* A step that leaves storage alone, gives up nothing and completes at     *)
(* most what storage executed.                                             *)
LEMMA QuietStep ==
    ASSUME StoreInv, TypeOK', NEW r \in Repo, NEW b \in Actor,
           actor' = [actor EXCEPT ![r] = b], disk' = disk,
           Consistent(b), b.written \subseteq actor[r].written,
           b.saved \subseteq Stored \cup Changes(b.putting),
           Doomed' \subseteq Doomed
    PROVE  StoreInv'
<1>1. \A k : Safe(k) => Safe(k)'
  BY DEF Safe
<1>2. \A q \in Repo : actor'[q] = IF q = r THEN b ELSE actor[q]
  BY DEF StoreInv, TypeOK
<1>3. SafeDeletes'
  BY <1>1, <1>2 DEF StoreInv, SafeDeletes
<1>4. SavedIsSafe'
  BY <1>2 DEF StoreInv, SavedIsSafe, Stored
<1> QED BY <1>3, <1>4 DEF StoreInv

(* The same for a handler that runs a step of the actor on its outcome.    *)
LEMMA QuietHandler ==
    ASSUME StoreInv, TypeOK', CompleteSnapshots', NEW r \in Repo, NEW a \in Actor,
           actor' = [actor EXCEPT ![r] = Stepped(a)], disk' = disk, stale' = stale,
           Consistent(a), a.written \subseteq actor[r].written,
           a.saved \subseteq Stored \cup Changes(a.putting),
           GivenUp(a) \subseteq GivenUp(actor[r])
    PROVE  StoreInv'
<1> DEFINE b == Stepped(a)
<1>1. b \in Actor
  BY SteppedType
<1>0. PutsComplete(Stepped(a))
  BY DEF CompleteSnapshots, StoreInv, TypeOK
<1>2. /\ Consistent(b) /\ b.written = a.written /\ GivenUp(b) = GivenUp(a)
      /\ a.putting \subseteq b.putting
      /\ b.saved \subseteq a.saved \cup Changes(b.putting)
  BY <1>0, SteppedConsistent
<1> HIDE DEF b
<1>3. Changes(a.putting) \subseteq Changes(b.putting)
  BY <1>2 DEF Changes
<1>4. \A q \in Repo : actor'[q] = IF q = r THEN b ELSE actor[q]
  BY DEF StoreInv, TypeOK, b
<1>5. Doomed' \subseteq Doomed
  BY <1>2, <1>4 DEF Doomed
<1>6. actor' = [actor EXCEPT ![r] = b]
  BY DEF b
<1> QED BY <1>1, <1>2, <1>3, <1>5, <1>6, QuietStep

(* A new actor has given up nothing.                                       *)
LEMMA NewActorConsistent ==
    ASSUME TypeOK, NEW S \in SUBSET Change, PutsComplete(NewActor(S))
    PROVE  LET b == NewActor(S)
           IN  /\ b \in Actor /\ Consistent(b) /\ GivenUp(b) = {} /\ b.written = {}
               /\ b.held = S /\ b.saved \subseteq Changes(b.putting)
<1> DEFINE a == [Absent EXCEPT !.run = "Running",
                               !.phase = IF S = {} THEN "Loading" ELSE "Ready",
                               !.creating = S, !.held = S,
                               !.loading = TRUE, !.awaited = {"incremental", "snapshot"},
                               !.atOpen = Changes(disk)]
<1>1. Changes(disk) \in SUBSET Change
  BY DEF TypeOK, Changes, Chunk
<1>2. a \in Actor
  BY AbsentType, <1>1 DEF Actor
<1>3. Consistent(a) /\ GivenUp(a) = {} /\ a.written = {} /\ a.held = S /\ a.saved = {}
  BY DEF Absent, Consistent, GivenUp, Tasks, NoDeletes
<1>4. NewActor(S) = Stepped(a)
  BY DEF NewActor
<1> HIDE DEF a
<1> QED BY <1>2, <1>3, <1>4, SteppedType, SteppedConsistent

(* A put adds its chunk; what it replaces under the same key is the same.  *)
LEMMA PutStep ==
    ASSUME StoreInv, TypeOK', NEW r \in Repo, NEW ch \in actor[r].putting,
           PutExecutes(r, ch)
    PROVE  StoreInv' /\ Stored' = Stored \cup ch.data /\ ch.data \subseteq actor[r].held
<1> DEFINE b == [actor[r] EXCEPT !.putting = @ \ {ch}, !.written = @ \cup {ch}]
<1> USE DEF StoreInv
<1>1. /\ ch \in Chunk /\ ch.data = ch.key.of /\ ch.data \subseteq actor[r].held
      /\ ch.key \in Key
  BY DEF TypeOK, Actor, SafeDeletes, Consistent, Tasks, Chunk
<1>2. disk' = {other \in disk : other.key # ch.key} \cup {ch}
  BY DEF PutExecutes
<1>3. \A old \in disk : old.key = ch.key => old.data = ch.data
  BY <1>1 DEF SafeDeletes
<1>4. Stored' = Stored \cup ch.data
  BY <1>2, <1>3 DEF Stored, Changes
<1>5. \A q \in Repo : actor'[q] = IF q = r THEN b ELSE actor[q]
  BY DEF PutExecutes, TypeOK, Actor
<1>6. /\ b.putting = actor[r].putting \ {ch} /\ b.written = actor[r].written \cup {ch}
      /\ b.deleting = actor[r].deleting /\ b.deletions = actor[r].deletions
      /\ b.saved = actor[r].saved /\ Tasks(b) = Tasks(actor[r])
  BY DEF TypeOK, Actor, Tasks
<1>7. Consistent(b)
  BY <1>6 DEF SafeDeletes, Consistent, TypeOK, Actor
<1>8. Doomed' = Doomed
  BY <1>5, <1>6, ZenonT(60) DEF Doomed, GivenUp, PutExecutes
<1>9. \A k : Safe(k) => Safe(k)'
  <2> SUFFICES ASSUME NEW k, NEW w \in disk, w.key \notin Doomed, w.key.kind = "snapshot",
                      k.of \subseteq w.key.of
               PROVE  Safe(k)'
    BY DEF Safe
  <2>1. CASE w.key = ch.key
    BY <1>2, <1>8, <2>1 DEF Safe
  <2>2. CASE w.key # ch.key
    BY <1>2, <1>8, <2>2 DEF Safe
  <2> QED BY <2>1, <2>2
<1>10. ch.key.kind = "snapshot" => Safe(ch.key)'
  <2>1. CASE ch.key \in Doomed
    BY <1>9, <2>1 DEF SafeDeletes
  <2>2. CASE ch.key \notin Doomed
    BY <1>2, <1>8, <2>2 DEF Safe
  <2> QED BY <2>1, <2>2
<1> HIDE DEF b
<1>11. SafeDeletes'
  <2>1. \A x \in disk' : x.data = x.key.of
    BY <1>1, <1>2 DEF SafeDeletes
  <2>2. \A q \in Repo : Consistent(actor'[q])
    BY <1>5, <1>7 DEF SafeDeletes
  <2>3. \A k \in Doomed' : Safe(k)'
    BY <1>8, <1>9 DEF SafeDeletes
  <2>4. \A q \in Repo : \A x \in actor'[q].written : x.key.kind = "snapshot" => Safe(x.key)'
    BY <1>5, <1>6, <1>9, <1>10 DEF SafeDeletes
  <2> QED BY <2>1, <2>2, <2>3, <2>4 DEF SafeDeletes
<1>12. SavedIsSafe'
  <2> SUFFICES ASSUME NEW q \in Repo
               PROVE  actor'[q].saved \subseteq Stored' \cup Changes(actor'[q].putting)
    BY DEF SavedIsSafe
  <2>1. actor[q].saved \subseteq Stored \cup Changes(actor[q].putting)
    BY DEF SavedIsSafe
  <2>2. Changes(actor[q].putting) \subseteq Changes(actor'[q].putting) \cup ch.data
    BY <1>5, <1>6 DEF Changes
  <2> QED BY <1>4, <1>5, <1>6, <2>1, <2>2
<1> QED BY <1>1, <1>4, <1>11, <1>12

(* A delete removes a chunk whose changes a snapshot still has.            *)
LEMMA DeleteStep ==
    ASSUME StoreInv, TypeOK', NEW k \in Key, k \in Doomed,
           disk' = {ch \in disk : ch.key # k}, Doomed' \subseteq Doomed,
           \A q \in Repo : /\ Consistent(actor'[q])
                          /\ actor'[q].written = actor[q].written
                          /\ actor'[q].putting = actor[q].putting
                          /\ actor'[q].saved = actor[q].saved
    PROVE  StoreInv' /\ Stored' = Stored
<1> USE DEF StoreInv
<1>1. \A x : Safe(x) => Safe(x)'
  BY DEF Safe
<1>2. Stored' = Stored
  <2>1. Stored' \subseteq Stored
    BY DEF Stored, Changes
  <2>2. ASSUME NEW c \in Stored PROVE c \in Stored'
    <3>1. PICK ch \in disk : c \in ch.data
      BY <2>2 DEF Stored, Changes
    <3>2. CASE ch.key # k
      BY <3>1, <3>2 DEF Stored, Changes
    <3>3. CASE ch.key = k
      <4>1. PICK w \in disk : w.key \notin Doomed /\ k.of \subseteq w.key.of
        BY DEF SafeDeletes, Safe
      <4>2. c \in w.data /\ w \in disk'
        BY <3>1, <3>3, <4>1 DEF SafeDeletes
      <4> QED BY <4>2 DEF Stored, Changes
    <3> QED BY <3>2, <3>3
  <2> QED BY <2>1, <2>2
<1>3. SafeDeletes'
  BY <1>1 DEF SafeDeletes
<1>4. SavedIsSafe'
  BY <1>2 DEF SavedIsSafe
<1> QED BY <1>2, <1>3, <1>4

(* A completed compaction gives up what it supersedes.  The snapshot it    *)
(* wrote is in a snapshot that nobody gives up, and that one is not among  *)
(* the superseded, which are all smaller.                                  *)
LEMMA CompactionStep ==
    ASSUME StoreInv, TypeOK', CompleteSnapshots', NEW r \in Repo, NEW ch \in actor[r].written,
           ch.key.kind = "snapshot", PutDone(r, ch)
    PROVE  StoreInv' /\ actor'[r].held = actor[r].held
<1> USE DEF StoreInv
<1> DEFINE a == MarkPutComplete(actor[r], ch)
           b == Stepped(a)
           superseded == actor[r].supercedes
<1>1. ch \in Chunk /\ ch.key \in Key /\ actor[r] \in Actor
  BY DEF TypeOK, Actor, Chunk
<1>2. a \in Actor
  BY <1>1, MarkPutType
<1>3. /\ a.putting = actor[r].putting /\ a.written = actor[r].written \ {ch}
      /\ a.onDisk = (actor[r].onDisk \ superseded) \cup {ch.key}
      /\ a.deletions = actor[r].deletions \cup superseded
      /\ a.deleting = actor[r].deleting /\ a.held = actor[r].held
      /\ a.saved = actor[r].saved /\ a.loaded = actor[r].loaded /\ a.run = actor[r].run
  BY <1>1 DEF MarkPutComplete, KeysKept, Actor
<1>4. Consistent(actor[r]) /\ ch \in Tasks(actor[r])
  BY DEF SafeDeletes, Tasks
<1>5. \A k \in superseded : Below(k, ch.key)
  BY <1>4 DEF Consistent
<1>6. Tasks(a) \subseteq Tasks(actor[r]) /\ ch \notin Tasks(a)
  BY <1>3, <1>4 DEF Tasks, Consistent
<1>7. Consistent(a)
  BY <1>3, <1>4, <1>6 DEF Consistent
<1>9. actor' = [actor EXCEPT ![r] = b] /\ disk' = disk /\ stale' = stale
  BY DEF PutDone
<1> HIDE DEF a
<1>complete. PutsComplete(b)
  BY <1>9 DEF CompleteSnapshots, TypeOK
<1>8. /\ Consistent(b) /\ b.written = a.written /\ GivenUp(b) = GivenUp(a) /\ b.held = a.held
      /\ a.putting \subseteq b.putting
      /\ b.saved \subseteq a.saved \cup Changes(b.putting)
  BY <1>2, <1>7, <1>complete, SteppedConsistent
<1> HIDE DEF b
<1>10. \A q \in Repo : actor'[q] = IF q = r THEN b ELSE actor[q]
  BY <1>9 DEF TypeOK
<1>11. GivenUp(b) = GivenUp(actor[r]) \cup superseded
  BY <1>3, <1>8 DEF GivenUp
<1>12. Doomed' = Doomed \cup superseded
  <2>1. superseded \subseteq Key
    BY <1>1 DEF Actor
  <2> QED BY <1>9, <1>10, <1>11, <2>1 DEF Doomed
<1>13. PICK top \in disk : /\ top.key \notin Doomed /\ top.key.kind = "snapshot"
                          /\ ch.key.of \subseteq top.key.of
  BY DEF SafeDeletes, Safe
<1>14. top.key \notin superseded
  <2> SUFFICES ASSUME top.key \in superseded PROVE FALSE
    OBVIOUS
  <2>1. top.key.of = ch.key.of /\ top.key # ch.key
    BY <1>5, <1>13 DEF Below
  <2>2. top.key \in Key
    BY DEF TypeOK, Chunk
  <2>3. top.key = ch.key
    BY <1>1, <1>13, <2>1, <2>2 DEF Key
  <2> QED BY <2>1, <2>3
<1>15. ASSUME NEW k, k.of \subseteq ch.key.of PROVE Safe(k)'
  BY <1>9, <1>12, <1>13, <1>14, <1>15 DEF Safe
<1>16. ASSUME NEW k, Safe(k) PROVE Safe(k)'
  <2>1. PICK w \in disk : /\ w.key \notin Doomed /\ w.key.kind = "snapshot"
                         /\ k.of \subseteq w.key.of
    BY <1>16 DEF Safe
  <2>2. CASE w.key \in superseded
    BY <1>5, <1>15, <2>1, <2>2 DEF Below
  <2>3. CASE w.key \notin superseded
    BY <1>9, <1>12, <2>1, <2>3 DEF Safe
  <2> QED BY <2>2, <2>3
<1>17. SafeDeletes'
  <2>1. \A x \in disk' : x.data = x.key.of
    BY <1>9 DEF SafeDeletes
  <2>2. \A q \in Repo : Consistent(actor'[q])
    BY <1>8, <1>10 DEF SafeDeletes
  <2>3. \A k \in Doomed' : Safe(k)'
    BY <1>5, <1>12, <1>15, <1>16 DEF SafeDeletes, Below
  <2>4. \A q \in Repo : \A x \in actor'[q].written : x.key.kind = "snapshot" => Safe(x.key)'
    BY <1>3, <1>8, <1>10, <1>16 DEF SafeDeletes
  <2> QED BY <2>1, <2>2, <2>3, <2>4 DEF SafeDeletes
<1>18. SavedIsSafe'
  <2> SUFFICES ASSUME NEW q \in Repo
               PROVE  actor'[q].saved \subseteq Stored' \cup Changes(actor'[q].putting)
    BY DEF SavedIsSafe
  <2>1. Stored' = Stored
    BY <1>9 DEF Stored
  <2>2. actor[q].saved \subseteq Stored \cup Changes(actor[q].putting)
    BY DEF SavedIsSafe
  <2>3. Changes(a.putting) \subseteq Changes(b.putting)
    BY <1>8 DEF Changes
  <2> QED BY <1>3, <1>8, <1>10, <2>1, <2>2, <2>3
<1> QED BY <1>3, <1>8, <1>10, <1>17, <1>18

(* Every other completion gives up nothing.                                *)
LEMMA IncrementalStep ==
    ASSUME StoreInv, TypeOK', CompleteSnapshots', NEW r \in Repo, NEW ch \in actor[r].written,
           ch.key.kind # "snapshot", PutDone(r, ch)
    PROVE  StoreInv' /\ actor'[r].held = actor[r].held
<1> DEFINE a == MarkPutComplete(actor[r], ch)
<1>1. ch \in Chunk /\ actor[r] \in Actor /\ Consistent(actor[r])
      /\ actor[r].saved \subseteq Stored \cup Changes(actor[r].putting)
  BY DEF StoreInv, TypeOK, Actor, SafeDeletes, SavedIsSafe
<1>2. a \in Actor
  BY <1>1, MarkPutType
<1>3. /\ a.written = actor[r].written \ {ch} /\ a.onDisk = actor[r].onDisk \cup {ch.key}
      /\ a.deleting = actor[r].deleting /\ a.deletions = actor[r].deletions
      /\ a.putting = actor[r].putting /\ a.held = actor[r].held /\ a.saved = actor[r].saved
      /\ a.loaded = actor[r].loaded /\ a.run = actor[r].run
      /\ a.compacting = actor[r].compacting /\ a.supercedes = actor[r].supercedes
  BY <1>1 DEF MarkPutComplete, Actor
<1>4. Tasks(a) \subseteq Tasks(actor[r]) /\ ch \in Tasks(actor[r])
  BY <1>3 DEF Tasks
<1>5. Consistent(a)
  BY <1>1, <1>3, <1>4 DEF Consistent
<1>6. GivenUp(a) = GivenUp(actor[r])
  BY <1>3 DEF GivenUp
<1>7. actor' = [actor EXCEPT ![r] = Stepped(a)] /\ disk' = disk /\ stale' = stale
  BY DEF PutDone
<1>8. Stepped(a).held = a.held
  BY <1>2, SteppedHeld
<1> HIDE DEF a
<1>9. actor'[r].held = actor[r].held
  BY <1>3, <1>7, <1>8 DEF StoreInv, TypeOK
<1> QED BY <1>1, <1>2, <1>3, <1>5, <1>6, <1>7, <1>9, QuietHandler

LEMMA DeleteDoneStep ==
    ASSUME StoreInv, TypeOK', CompleteSnapshots', NEW r \in Repo, NEW k \in Key, DeleteDone(r, k)
    PROVE  StoreInv' /\ actor'[r].held = actor[r].held
<1> DEFINE a == MarkDeleteComplete(actor[r], k)
<1>1. actor[r] \in Actor /\ Consistent(actor[r])
      /\ actor[r].saved \subseteq Stored \cup Changes(actor[r].putting)
  BY DEF StoreInv, TypeOK, SafeDeletes, SavedIsSafe
<1>2. a \in Actor
  BY <1>1, MarkDeleteType DEF DeleteDone
<1>3. Consistent(a) /\ GivenUp(a) = GivenUp(actor[r]) /\ a.written = actor[r].written
      /\ a.putting = actor[r].putting /\ a.saved = actor[r].saved
      /\ a.held = actor[r].held
  BY <1>1 DEF MarkDeleteComplete, Consistent, GivenUp, Tasks, Actor
<1>4. actor' = [actor EXCEPT ![r] = Stepped(a)] /\ disk' = disk /\ stale' = stale
  BY DEF DeleteDone
<1>5. Stepped(a).held = a.held
  BY <1>2, SteppedHeld
<1> HIDE DEF a
<1>6. actor'[r].held = actor[r].held
  BY <1>3, <1>4, <1>5 DEF StoreInv, TypeOK
<1> QED BY <1>1, <1>2, <1>3, <1>4, <1>6, QuietHandler

LEMMA LoadStep ==
    ASSUME StoreInv, TypeOK', CompleteSnapshots', NEW r \in Repo, NEW S \in SUBSET Change,
           LoadDone(r, S)
    PROVE  /\ StoreInv'
           /\ actor'[r].held = actor[r].held \cup Changes(actor[r].loaded) \cup S
<1> DEFINE a == HandleLoad(actor[r], S)
<1>1. actor[r] \in Actor /\ Consistent(actor[r]) /\ actor[r].run \notin {"Down", "Stopped"}
      /\ actor[r].saved \subseteq Stored \cup Changes(actor[r].putting)
  BY DEF StoreInv, TypeOK, SafeDeletes, SavedIsSafe, LoadDone, Handling
<1>2. a \in Actor
  BY <1>1, HandleLoadType
<1>3. /\ a.held = actor[r].held \cup Changes(actor[r].loaded) \cup S
      /\ a.onDisk = actor[r].onDisk \cup {ch.key : ch \in actor[r].loaded}
      /\ a.loaded = {} /\ a.run = actor[r].run /\ Tasks(a) = Tasks(actor[r])
      /\ a.written = actor[r].written /\ a.putting = actor[r].putting
      /\ a.saved = actor[r].saved /\ GivenUp(a) = GivenUp(actor[r])
      /\ a.compacting = actor[r].compacting /\ a.supercedes = actor[r].supercedes
  BY <1>1 DEF HandleLoad, Tasks, GivenUp, Actor
<1>4. \A ch \in actor[r].loaded : ch.key.of \subseteq a.held
  BY <1>1, <1>3 DEF Consistent, Changes
<1>5. Consistent(a)
  BY <1>1, <1>3, <1>4 DEF Consistent
<1>6. actor' = [actor EXCEPT ![r] = Stepped(a)] /\ disk' = disk /\ stale' = stale
  BY DEF LoadDone
<1>7. Stepped(a).held = a.held
  BY <1>2, SteppedHeld
<1> HIDE DEF a
<1>8. actor'[r].held = a.held
  BY <1>6, <1>7 DEF StoreInv, TypeOK
<1> QED BY <1>1, <1>2, <1>3, <1>5, <1>6, <1>8, QuietHandler

LEMMA ArriveStep ==
    ASSUME StoreInv, TypeOK', CompleteSnapshots', NEW r \in Repo, NEW S \in SUBSET Change,
           ChangesArrive(r, S)
    PROVE  StoreInv' /\ actor'[r].held = actor[r].held \cup S
<1> DEFINE a == [actor[r] EXCEPT !.held = @ \cup S]
<1>1. actor[r] \in Actor /\ Consistent(actor[r]) /\ actor[r].run # "Down"
      /\ actor[r].saved \subseteq Stored \cup Changes(actor[r].putting)
  BY DEF StoreInv, TypeOK, SafeDeletes, SavedIsSafe, ChangesArrive, Alive
<1>2. a \in Actor
  BY <1>1 DEF Actor
<1>3. Consistent(a) /\ GivenUp(a) = GivenUp(actor[r]) /\ a.written = actor[r].written
      /\ a.putting = actor[r].putting /\ a.saved = actor[r].saved
      /\ a.held = actor[r].held \cup S
  BY <1>1 DEF Consistent, GivenUp, Tasks, Actor
<1>4. actor' = [actor EXCEPT ![r] = Stepped(a)] /\ disk' = disk /\ stale' = stale
  BY DEF ChangesArrive
<1>5. Stepped(a).held = a.held
  BY <1>2, SteppedHeld
<1> HIDE DEF a
<1>6. actor'[r].held = a.held
  BY <1>4, <1>5 DEF StoreInv, TypeOK
<1> QED BY <1>1, <1>2, <1>3, <1>4, <1>6, QuietHandler

LEMMA TerminateStep ==
    ASSUME StoreInv, TypeOK', CompleteSnapshots', NEW r \in Repo, Terminate(r)
    PROVE  StoreInv' /\ actor'[r].held = actor[r].held
<1> DEFINE a == [actor[r] EXCEPT !.run = "Stopping"]
<1>1. actor[r] \in Actor /\ Consistent(actor[r])
      /\ actor[r].saved \subseteq Stored \cup Changes(actor[r].putting)
  BY DEF StoreInv, TypeOK, SafeDeletes, SavedIsSafe
<1>2. a \in Actor
  BY <1>1 DEF Actor
<1>3. Consistent(a) /\ GivenUp(a) = GivenUp(actor[r]) /\ a.written = actor[r].written
      /\ a.putting = actor[r].putting /\ a.saved = actor[r].saved
      /\ a.held = actor[r].held
  BY <1>1 DEF Consistent, GivenUp, Tasks, Actor
<1>4. actor' = [actor EXCEPT ![r] = Stepped(a)] /\ disk' = disk /\ stale' = stale
  BY DEF Terminate
<1>5. Stepped(a).held = a.held
  BY <1>2, SteppedHeld
<1> HIDE DEF a
<1>6. actor'[r].held = a.held
  BY <1>4, <1>5 DEF StoreInv, TypeOK
<1> QED BY <1>1, <1>2, <1>3, <1>4, <1>6, QuietHandler

(* An actor that begins anew, or is gone, has given up nothing; the        *)
(* deletes of a stopped one go on.                                         *)
LEMMA FreshActorStep ==
    ASSUME StoreInv, TypeOK', NEW r \in Repo, NEW b \in Actor,
           actor' = [actor EXCEPT ![r] = b], disk' = disk,
           Consistent(b), GivenUp(b) = {}, b.written = {},
           b.saved \subseteq Changes(b.putting),
           \A k \in Key : stale'[k] > 0 => stale[k] > 0 \/ actor[r].deleting[k] > 0
    PROVE  StoreInv'
<1>1. \A q \in Repo : actor'[q] = IF q = r THEN b ELSE actor[q]
  BY DEF StoreInv, TypeOK
<1>2. Doomed' \subseteq Doomed
  BY <1>1 DEF Doomed, GivenUp
<1> QED BY <1>2, QuietStep

----------------------------------------------------------------------------
(* Steps of the detailed store as steps of the abstract one.               *)

Held(q) == actor[q].held

LEMMA StoreLearns ==
    ASSUME TypeOK, TypeOK', NEW r \in Repo, NEW S \in SUBSET Change, Stored' = Stored,
           \A q \in Repo : Held(q)' = IF q = r THEN Held(r) \cup S ELSE Held(q)
    PROVE  Store!Next
<1> DEFINE mem == [q \in Repo |-> actor[q].held]
<1>1. mem' = [mem EXCEPT ![r] = @ \cup S]
  BY DEF Held
<1>2. Store!Learn(r)
  BY <1>1 DEF Store!Learn
<1> QED BY <1>2 DEF Store!Next

LEMMA StoreForgets ==
    ASSUME TypeOK, TypeOK', NEW r \in Repo, Stored' = Stored,
           \A q \in Repo : Held(q)' = IF q = r THEN {} ELSE Held(q)
    PROVE  Store!Next
<1> DEFINE mem == [q \in Repo |-> actor[q].held]
<1>1. mem' = [mem EXCEPT ![r] = {}]
  BY DEF Held
<1>2. Store!Forget(r)
  BY <1>1 DEF Store!Forget
<1> QED BY <1>2 DEF Store!Next

LEMMA StorePersists ==
    ASSUME TypeOK, TypeOK', NEW r \in Repo, NEW S \in SUBSET Held(r), Stored' = Stored \cup S,
           \A q \in Repo : Held(q)' = Held(q)
    PROVE  Store!Next
<1> DEFINE mem == [q \in Repo |-> actor[q].held]
<1>1. mem' = mem /\ S \in SUBSET mem[r]
  BY DEF Held
<1>2. Store!Persist(r)
  BY <1>1 DEF Store!Persist
<1> QED BY <1>2 DEF Store!Next

LEMMA StoreStutters ==
    ASSUME Stored' = Stored, \A q \in Repo : Held(q)' = Held(q)
    PROVE  UNCHANGED Store!vars
  BY DEF Held, Store!vars

(* Every step keeps the invariant, and is one of the abstract store's.     *)
LEMMA StoreStep ==
    ASSUME StoreInv, CompleteSnapshots', [Next]_vars
    PROVE  StoreInv' /\ [Store!Next]_(Store!vars)
<1>0. TypeOK /\ TypeOK'
  BY TypeStep DEF StoreInv
<1>same. ASSUME disk' = disk PROVE Stored' = Stored
  BY <1>same DEF Stored
<1>others. ASSUME NEW r \in Repo, NEW b, actor' = [actor EXCEPT ![r] = b]
           PROVE  \A q \in Repo : Held(q)' = IF q = r THEN b.held ELSE Held(q)
  BY <1>0, <1>others DEF TypeOK, Held
<1>1. ASSUME NEW r \in Repo, NEW S \in SUBSET Change, Create(r, S)
      PROVE  StoreInv' /\ Store!Next
  <2>2. actor' = [actor EXCEPT ![r] = NewActor(S)] /\ disk' = disk /\ stale' = stale
    BY <1>1 DEF Create
  <2>0. PutsComplete(NewActor(S))
    BY <1>0, <2>2 DEF CompleteSnapshots, TypeOK
  <2>1. /\ NewActor(S) \in Actor /\ Consistent(NewActor(S)) /\ GivenUp(NewActor(S)) = {}
        /\ NewActor(S).written = {} /\ NewActor(S).held = S
        /\ NewActor(S).saved \subseteq Changes(NewActor(S).putting)
    BY <1>0, <2>0, NewActorConsistent
  <2>3. Held(r) = {}
    BY <1>1 DEF StoreInv, SafeDeletes, Consistent, Create, Alive, Held, TypeOK, Actor
  <2>4. \A q \in Repo : Held(q)' = IF q = r THEN Held(r) \cup S ELSE Held(q)
    BY <1>others, <2>1, <2>2, <2>3
  <2>5. StoreInv'
    BY <1>0, <2>1, <2>2, FreshActorStep
  <2> QED BY <1>0, <1>same, <2>2, <2>4, <2>5, StoreLearns
<1>2. ASSUME NEW r \in Repo, NEW S \in SUBSET Change, ChangesArrive(r, S)
      PROVE  StoreInv' /\ Store!Next
  <2>1. StoreInv' /\ actor'[r].held = actor[r].held \cup S
    BY <1>0, <1>2, ArriveStep
  <2>2. disk' = disk /\ \A q \in Repo : Held(q)' = IF q = r THEN Held(r) \cup S ELSE Held(q)
    BY <1>0, <1>2, <2>1 DEF ChangesArrive, Held, TypeOK
  <2> QED BY <1>0, <1>same, <2>1, <2>2, StoreLearns
<1>3. ASSUME NEW r \in Repo, CreateReturns(r) PROVE StoreInv' /\ UNCHANGED Store!vars
  <2> DEFINE b == [actor[r] EXCEPT !.creating = {}]
  <2>1. /\ actor[r] \in Actor /\ Consistent(actor[r])
        /\ actor[r].saved \subseteq Stored \cup Changes(actor[r].putting)
    BY <1>0 DEF StoreInv, TypeOK, SafeDeletes, SavedIsSafe
  <2>2. /\ b \in Actor /\ b.held = actor[r].held /\ b.written = actor[r].written
        /\ b.putting = actor[r].putting /\ b.saved = actor[r].saved
        /\ Consistent(b) /\ GivenUp(b) = GivenUp(actor[r])
    BY <2>1 DEF Actor, Consistent, GivenUp, Tasks
  <2>3. actor' = [actor EXCEPT ![r] = b] /\ disk' = disk /\ stale' = stale
    BY <1>0, <1>3 DEF CreateReturns, TypeOK
  <2> HIDE DEF b
  <2>4. \A q \in Repo : actor'[q] = IF q = r THEN b ELSE actor[q]
    BY <1>0, <2>3 DEF TypeOK
  <2>5. Doomed' \subseteq Doomed
    BY <2>2, <2>3, <2>4 DEF Doomed
  <2>6. StoreInv'
    BY <1>0, <2>1, <2>2, <2>3, <2>5, QuietStep
  <2>7. \A q \in Repo : Held(q)' = Held(q)
    BY <2>2, <2>4 DEF Held
  <2> QED BY <1>same, <2>3, <2>6, <2>7, StoreStutters
<1>4. ASSUME NEW r \in Repo, Open(r) PROVE StoreInv' /\ Store!Next
  <2> DEFINE b == NewActor({})
  <2>2. actor' = [actor EXCEPT ![r] = b] /\ disk' = disk
        /\ stale' = [k \in Key |-> stale[k] + actor[r].deleting[k]]
    BY <1>4 DEF Open
  <2>0. PutsComplete(NewActor({}))
    BY <1>0, <2>2 DEF CompleteSnapshots, TypeOK
  <2>1. /\ b \in Actor /\ Consistent(b) /\ GivenUp(b) = {} /\ b.written = {} /\ b.held = {}
        /\ b.saved \subseteq Changes(b.putting)
    BY <1>0, <2>0, NewActorConsistent
  <2> HIDE DEF b
  <2>3. \A k \in Key : stale'[k] > 0 => stale[k] > 0 \/ actor[r].deleting[k] > 0
    BY <1>0, <2>2 DEF TypeOK, Actor
  <2>4. StoreInv'
    BY <1>0, <2>1, <2>2, <2>3, FreshActorStep
  <2>5. \A q \in Repo : Held(q)' = IF q = r THEN {} ELSE Held(q)
    BY <1>others, <2>1, <2>2
  <2> QED BY <1>0, <1>same, <2>2, <2>4, <2>5, StoreForgets
<1>5. ASSUME NEW r \in Repo, Terminate(r) PROVE StoreInv' /\ UNCHANGED Store!vars
  <2>1. StoreInv' /\ actor'[r].held = actor[r].held
    BY <1>0, <1>5, TerminateStep
  <2>2. disk' = disk /\ \A q \in Repo : Held(q)' = Held(q)
    BY <1>0, <1>5, <2>1 DEF Terminate, Held, TypeOK
  <2> QED BY <1>same, <2>1, <2>2, StoreStutters
<1>6. ASSUME NEW r \in Repo, Crash(r) PROVE StoreInv' /\ Store!Next
  <2>1. /\ Consistent(Absent) /\ GivenUp(Absent) = {} /\ Absent.written = {}
        /\ Absent.held = {} /\ Absent.saved = {}
    BY DEF Absent, Consistent, GivenUp, Tasks, NoDeletes
  <2>2. actor' = [actor EXCEPT ![r] = Absent] /\ disk' = disk /\ stale' = stale
    BY <1>6 DEF Crash
  <2>3. StoreInv'
    BY <1>0, <2>1, <2>2, AbsentType, FreshActorStep
  <2>4. \A q \in Repo : Held(q)' = IF q = r THEN {} ELSE Held(q)
    BY <1>others, <2>1, <2>2
  <2> QED BY <1>0, <1>same, <2>2, <2>3, <2>4, StoreForgets
<1>7. ASSUME NEW r \in Repo, NEW kind \in {"incremental", "snapshot"}, ReadRange(r, kind)
      PROVE  StoreInv' /\ UNCHANGED Store!vars
  <2> DEFINE b == [actor[r] EXCEPT !.awaited = @ \ {kind}, !.loaded = @ \cup OfKind(disk, kind)]
  <2>1. /\ actor[r] \in Actor /\ Consistent(actor[r])
        /\ actor[r].saved \subseteq Stored \cup Changes(actor[r].putting)
        /\ OfKind(disk, kind) \subseteq Chunk
        /\ \A ch \in OfKind(disk, kind) : ch.data = ch.key.of
    BY <1>0 DEF StoreInv, TypeOK, SafeDeletes, SavedIsSafe, OfKind
  <2>2. /\ b \in Actor /\ b.held = actor[r].held /\ b.written = actor[r].written
        /\ b.putting = actor[r].putting /\ b.saved = actor[r].saved
        /\ Consistent(b) /\ GivenUp(b) = GivenUp(actor[r])
    BY <2>1 DEF Actor, Consistent, GivenUp, Tasks
  <2>3. actor' = [actor EXCEPT ![r] = b] /\ disk' = disk /\ stale' = stale
    BY <1>0, <1>7 DEF ReadRange, TypeOK, Actor
  <2> HIDE DEF b
  <2>4. \A q \in Repo : actor'[q] = IF q = r THEN b ELSE actor[q]
    BY <1>0, <2>3 DEF TypeOK
  <2>5. Doomed' \subseteq Doomed
    BY <2>2, <2>3, <2>4 DEF Doomed
  <2>6. StoreInv'
    BY <1>0, <2>1, <2>2, <2>3, <2>5, QuietStep
  <2>7. \A q \in Repo : Held(q)' = Held(q)
    BY <2>2, <2>4 DEF Held
  <2> QED BY <1>same, <2>3, <2>6, <2>7, StoreStutters
<1>8. ASSUME NEW r \in Repo, NEW S \in SUBSET Change, LoadDone(r, S)
      PROVE  StoreInv' /\ Store!Next
  <2> DEFINE learned == Changes(actor[r].loaded) \cup S
  <2>1. StoreInv' /\ actor'[r].held = actor[r].held \cup learned
    BY <1>0, <1>8, LoadStep
  <2>2. learned \in SUBSET Change
    BY <1>0 DEF TypeOK, Actor, Chunk, Changes
  <2> HIDE DEF learned
  <2>3. /\ disk' = disk
        /\ \A q \in Repo : Held(q)' = IF q = r THEN Held(r) \cup learned ELSE Held(q)
    BY <1>0, <1>8, <2>1 DEF LoadDone, Held, TypeOK
  <2> QED BY <1>0, <1>same, <2>1, <2>2, <2>3, StoreLearns
<1>9. ASSUME NEW r \in Repo, NEW ch \in actor[r].putting, PutExecutes(r, ch)
      PROVE  StoreInv' /\ Store!Next
  <2>1. StoreInv' /\ Stored' = Stored \cup ch.data /\ ch.data \subseteq Held(r)
    BY <1>0, <1>9, PutStep DEF Held
  <2>2. \A q \in Repo : Held(q)' = Held(q)
    BY <1>0, <1>9 DEF PutExecutes, Held, TypeOK, Actor
  <2> QED BY <1>0, <2>1, <2>2, StorePersists
<1>10. ASSUME NEW r \in Repo, NEW ch \in actor[r].written, PutDone(r, ch)
       PROVE  StoreInv' /\ UNCHANGED Store!vars
  <2>1. StoreInv' /\ actor'[r].held = actor[r].held
    <3>1. CASE ch.key.kind = "snapshot"
      BY <1>0, <1>10, <3>1, CompactionStep
    <3>2. CASE ch.key.kind # "snapshot"
      BY <1>0, <1>10, <3>2, IncrementalStep
    <3> QED BY <3>1, <3>2
  <2>2. disk' = disk /\ \A q \in Repo : Held(q)' = Held(q)
    BY <1>0, <1>10, <2>1 DEF PutDone, Held, TypeOK
  <2> QED BY <1>same, <2>1, <2>2, StoreStutters
<1>11. ASSUME NEW r \in Repo, NEW k \in Key, DeleteExecutes(r, k)
       PROVE  StoreInv' /\ UNCHANGED Store!vars
  <2> DEFINE b == [actor[r] EXCEPT !.deleting[k] = @ - 1, !.deleted[k] = @ + 1]
  <2>1. actor[r] \in Actor /\ Consistent(actor[r])
    BY <1>0 DEF StoreInv, TypeOK, SafeDeletes
  <2>2. /\ b.held = actor[r].held /\ b.written = actor[r].written
        /\ b.putting = actor[r].putting /\ b.saved = actor[r].saved
        /\ Consistent(b) /\ GivenUp(b) \subseteq GivenUp(actor[r])
    BY <2>1 DEF Actor, Consistent, GivenUp, Tasks
  <2>3. /\ actor[r].deleting[k] > 0 /\ stale' = stale /\ disk' = {ch \in disk : ch.key # k}
        /\ \A q \in Repo : actor'[q] = IF q = r THEN b ELSE actor[q]
    BY <1>0, <1>11 DEF DeleteExecutes, TypeOK, Actor
  <2> HIDE DEF b
  <2>4. k \in Doomed /\ Doomed' \subseteq Doomed
    BY <2>2, <2>3 DEF Doomed, GivenUp
  <2>5. \A q \in Repo : /\ Consistent(actor'[q])
                       /\ actor'[q].written = actor[q].written
                       /\ actor'[q].putting = actor[q].putting
                       /\ actor'[q].saved = actor[q].saved
    BY <2>2, <2>3 DEF StoreInv, SafeDeletes
  <2>6. StoreInv' /\ Stored' = Stored
    BY <1>0, <2>3, <2>4, <2>5, DeleteStep
  <2>7. \A q \in Repo : Held(q)' = Held(q)
    BY <2>2, <2>3 DEF Held
  <2> QED BY <2>6, <2>7, StoreStutters
<1>12. ASSUME NEW r \in Repo, NEW k \in Key, DeleteDone(r, k)
       PROVE  StoreInv' /\ UNCHANGED Store!vars
  <2>1. StoreInv' /\ actor'[r].held = actor[r].held
    BY <1>0, <1>12, DeleteDoneStep
  <2>2. disk' = disk /\ \A q \in Repo : Held(q)' = Held(q)
    BY <1>0, <1>12, <2>1 DEF DeleteDone, Held, TypeOK
  <2> QED BY <1>same, <2>1, <2>2, StoreStutters
<1>13. ASSUME NEW k \in Key, StaleDelete(k) PROVE StoreInv' /\ UNCHANGED Store!vars
  <2>1. k \in Doomed /\ Doomed' \subseteq Doomed
    BY <1>0, <1>13 DEF StaleDelete, Doomed, TypeOK
  <2>2. StoreInv' /\ Stored' = Stored
    BY <1>0, <1>13, <2>1, DeleteStep DEF StaleDelete, StoreInv, SafeDeletes
  <2> QED BY <1>13, <2>2, StoreStutters DEF StaleDelete, Held
<1>14. CASE UNCHANGED vars
  <2>1. StoreInv'
    BY <1>14 DEF vars, StoreInv, TypeOK, SafeDeletes, SavedIsSafe, Safe, Doomed, Stored
  <2> QED BY <1>14, <1>same, <2>1, StoreStutters DEF vars, Held
<1> QED BY <1>1, <1>2, <1>3, <1>4, <1>5, <1>6, <1>7, <1>8, <1>9, <1>10, <1>11, <1>12,
           <1>13, <1>14 DEF Next, StorageStep

LEMMA Initially == Init => StoreInv /\ Store!Init
<1> SUFFICES ASSUME Init PROVE StoreInv /\ Store!Init
  OBVIOUS
<1>1. /\ disk = {} /\ stale = NoDeletes /\ Absent \in Actor
      /\ \A r \in Repo : actor[r] = Absent
  BY AbsentType DEF Init
<1>2. /\ Consistent(Absent) /\ GivenUp(Absent) = {} /\ Absent.written = {}
      /\ Absent.held = {} /\ Absent.saved = {}
  BY DEF Absent, Consistent, GivenUp, Tasks, NoDeletes
<1>3. TypeOK
  BY <1>1, ChunkTypes DEF Init, TypeOK
<1>4. Doomed = {}
  BY <1>1, <1>2 DEF Doomed, NoDeletes
<1>5. SafeDeletes /\ SavedIsSafe
  BY <1>1, <1>2, <1>4 DEF SafeDeletes, SavedIsSafe
<1>6. Store!Init
  BY <1>1, <1>2 DEF Store!Init, Stored, Changes
<1> QED BY <1>3, <1>5, <1>6 DEF StoreInv

(* Repos that share storage implement the abstract store (storage.rs:19-25), *)
(* whatever the changes depend on and in whatever order storage executes   *)
(* the tasks of the repos, unless a repo puts a snapshot of a document     *)
(* with queued changes: nothing else makes sharing lose data.              *)
THEOREM SharedStorageSafe == Spec /\ []CompleteSnapshots => StoreSpec
<1>1. Init => StoreInv /\ Store!Init
  BY Initially
<1>2. StoreInv /\ CompleteSnapshots' /\ [Next]_vars
      => StoreInv' /\ [Store!Next]_(Store!vars)
  BY StoreStep
<1> QED BY <1>1, <1>2, PTL DEF Spec, StoreSpec, Store!Spec

(* What an actor believes it has saved stays in storage, or in a put it is *)
(* waiting for, whatever the others compact and delete.                    *)
THEOREM SavedStaysSafe == Spec /\ []CompleteSnapshots => []SavedIsSafe
<1>1. Init => StoreInv
  BY Initially
<1>2. StoreInv /\ CompleteSnapshots' /\ [Next]_vars => StoreInv'
  BY StoreStep
<1>3. StoreInv => SavedIsSafe
  BY DEF StoreInv
<1> QED BY <1>1, <1>2, <1>3, PTL DEF Spec

(* A document that stopped is in storage as it was when it was told to,    *)
(* with all that its changes depend on, whatever the other repos that      *)
(* share the storage compact and delete.                                   *)
THEOREM StoppedIsFlushed == Spec /\ []CompleteSnapshots => []FlushedWhenStopped
<1>1. Init => StoreInv
  BY Initially
<1>2. StoreInv /\ CompleteSnapshots' /\ [Next]_vars => StoreInv'
  BY StoreStep
<1>3. ASSUME StoreInv PROVE FlushedWhenStopped
  <2> SUFFICES ASSUME NEW r \in Repo, actor[r].run = "Stopped"
               PROVE  actor[r].saved \subseteq Doc(Stored)
    BY DEF FlushedWhenStopped
  <2>1. actor[r].saved \subseteq Stored \cup Changes(actor[r].putting)
    BY <1>3 DEF StoreInv, SavedIsSafe
  <2>2. /\ Changes(actor[r].putting) = {}
        /\ \A c \in actor[r].saved : Before[c] \subseteq actor[r].saved
    BY <1>3 DEF StoreInv, SafeDeletes, Consistent, Tasks, Changes
  <2> QED BY <2>1, <2>2 DEF Doc
<1> QED BY <1>1, <1>2, <1>3, PTL DEF Spec

----------------------------------------------------------------------------
(* One repo on its storage, whatever the changes depend on.  The lemmas    *)
(* are about an actor `a`, the chunks `V` in storage and the keys `D` that *)
(* deletes will remove.  `B` is what `n` faults of the storage have taken: *)
(* here there are none, Files has some.                                    *)

IsSnapshot(ch) == ch.key.kind = "snapshot"

(* A key tells what its chunk holds; that of a snapshot leaves out what    *)
(* the document has queued.  A file that was cut short holds nothing.      *)
Whole(ch) == ch.key.of = IF IsSnapshot(ch) THEN Doc(ch.data) ELSE ch.data
Sound(ch, B, n) == Whole(ch) \/ (n # 0 /\ ch.data = {} /\ ch.key.of \subseteq B)

Within(k, h) == k.of \subseteq IF k.kind = "snapshot" THEN Doc(h) ELSE h
WithinOrTaken(k, h, B, n) == Within(k, h) \/ (n # 0 /\ k.of \subseteq B)

(* A snapshot that no delete will remove holds h, or h is lost to faults.  *)
Keeps(w, h, D) == IsSnapshot(w) /\ Whole(w) /\ w.key \notin D /\ h \subseteq w.data
Backed(h, V, D, B, n) == (\E w \in V : Keeps(w, h, D)) \/ (n # 0 /\ h \subseteq B)

(* A key can be deleted: what it names, and holds, is backed elsewhere.    *)
Covered(k, V, D, B, n) ==
    \E h \in SUBSET Change :
      /\ Backed(h, V, D, B, n)
      /\ WithinOrTaken(k, h, B, n)
      /\ \A ch \in V : ch.key = k => ch.data \subseteq h \cup B

(* What the actor knows.  A compaction's snapshot, of which there is one   *)
(* at a time, has all that it supersedes.                                  *)
Informed(a, B, n) ==
    /\ \A ch \in Tasks(a) : Whole(ch) /\ ch.data \subseteq a.held
    /\ \A ch \in a.loaded : WithinOrTaken(ch.key, a.held \cup Changes(a.loaded), B, n)
    /\ \A k \in a.onDisk : WithinOrTaken(k, a.held, B, n)
    /\ \A s \in Tasks(a) : IsSnapshot(s) =>
         /\ a.compacting
         /\ \A k \in a.supercedes : k # s.key /\ WithinOrTaken(k, s.data, B, n)
         /\ \A other \in Tasks(a) : IsSnapshot(other) => other = s
         /\ s \notin a.putting \/ s \notin a.written
    /\ \A c \in a.saved : Before[c] \subseteq a.saved
    /\ a.run = "Down" => /\ a.held = {} /\ a.saved = {} /\ Tasks(a) = {}
                         /\ a.atOpen = {} /\ a.awaited = {}
    /\ a.run = "Stopped" => Tasks(a) = {}
    /\ a.phase = "Loading" => /\ a.held = {} /\ a.saved = {} /\ Tasks(a) = {}
                              /\ a.onDisk = {} /\ ~a.compacting

(* How storage agrees with it.  Once the document is loaded, storage holds *)
(* nothing that it does not.                                               *)
Agrees(a, V, D, B, n) ==
    /\ a.phase = "Ready" => Changes(V) \cup Changes(a.loaded) \subseteq a.held
    /\ a.phase = "Loading" /\ a.run # "Down" =>
         \A ch \in V : ch.key.kind \in a.awaited \/ ch \in a.loaded
    /\ \A s \in Tasks(a) : IsSnapshot(s) =>
         \A ch \in V : IsSnapshot(ch) => ch.data \subseteq s.data
    /\ \A s \in a.written : IsSnapshot(s) => Backed(s.data, V, D, B, n)
    /\ \A s \in a.putting : IsSnapshot(s) /\ s.key \in D => n # 0
    /\ a.saved \cup a.atOpen \subseteq Changes(V) \cup Changes(a.putting) \cup B

Kept(V, D, B, n) ==
    /\ \A ch \in V : Sound(ch, B, n)
    /\ \A k \in D : Covered(k, V, D, B, n)

Alone(a, V, D, B, n) == Informed(a, B, n) /\ Agrees(a, V, D, B, n) /\ Kept(V, D, B, n)

LEMMA DocGrows ==
    ASSUME NEW h \in SUBSET Change, NEW g \in SUBSET Change, h \subseteq g
    PROVE  Doc(h) \subseteq Doc(g) /\ Doc(h) \subseteq h
  BY DEF Doc

LEMMA SaidBy ==
    ASSUME NEW ch \in Chunk, Whole(ch)
    PROVE  Within(ch.key, ch.data)
  BY DEF Whole, Within, IsSnapshot

LEMMA WithinGrows ==
    ASSUME NEW k \in Key, NEW h \in SUBSET Change, NEW g \in SUBSET Change, h \subseteq g,
           NEW B, NEW n
    PROVE  /\ Within(k, h) => Within(k, g)
           /\ WithinOrTaken(k, h, B, n) => WithinOrTaken(k, g, B, n)
  BY DocGrows DEF Within, WithinOrTaken

(* Snapshots of the same document have the same key.                       *)
LEMMA SameKey ==
    ASSUME NEW w \in Chunk, NEW s \in Chunk, IsSnapshot(w), IsSnapshot(s),
           w.key.of = s.key.of
    PROVE  w.key = s.key
  BY DEF Chunk, Key, IsSnapshot

LEMMA NewChunks ==
    ASSUME NEW h \in SUBSET Change
    PROVE  /\ Snapshot(h) \in Chunk /\ IsSnapshot(Snapshot(h)) /\ Whole(Snapshot(h))
           /\ Snapshot(h).data = h /\ Snapshot(h).key = SnapshotKey(h)
           /\ SnapshotKey(h).of = Doc(h) /\ SnapshotKey(h).kind = "snapshot"
           /\ \A c \in Change : /\ Incremental(c) \in Chunk /\ ~IsSnapshot(Incremental(c))
                                /\ Whole(Incremental(c)) /\ Incremental(c).data = {c}
<1>1. /\ Snapshot(h) \in Chunk /\ Snapshot(h).data = h /\ Snapshot(h).key = SnapshotKey(h)
      /\ SnapshotKey(h).of = Doc(h) /\ SnapshotKey(h).kind = "snapshot"
  BY ChunkTypes DEF Snapshot, SnapshotKey
<1>2. ASSUME NEW c \in Change
      PROVE  /\ Incremental(c) \in Chunk /\ Incremental(c).data = {c}
             /\ Incremental(c).key.of = {c} /\ Incremental(c).key.kind = "incremental"
  BY ChunkTypes DEF Incremental, IncrementalKey
<1> QED BY <1>1, <1>2 DEF IsSnapshot, Whole

(* A save does not write to a key that a delete will remove: its changes   *)
(* would be in a snapshot with the same key that none will.                *)
LEMMA FreshSnapshot ==
    ASSUME NEW V \in SUBSET Chunk, NEW D \in SUBSET Key, NEW B, NEW n \in Nat,
           NEW held \in SUBSET Change, Changes(V) \subseteq held, Kept(V, D, B, n),
           SnapshotKey(held) \in D
    PROVE  n # 0
<1> SUFFICES ASSUME n = 0 PROVE FALSE
  OBVIOUS
<1> DEFINE k == SnapshotKey(held)
<1>1. PICK h \in SUBSET Change : Backed(h, V, D, B, n) /\ WithinOrTaken(k, h, B, n)
  BY DEF Kept, Covered
<1>2. PICK w \in V : Keeps(w, h, D)
  BY <1>1 DEF Backed
<1>3. w \in Chunk /\ w.data \in SUBSET Change /\ w.data \subseteq held /\ w.key \in Key
  BY DEF Changes, Chunk
<1>4. k.of = Doc(held) /\ Snapshot(held) \in Chunk /\ IsSnapshot(Snapshot(held))
      /\ Snapshot(held).key = k /\ k.kind = "snapshot"
  BY NewChunks, Zenon
<1> HIDE DEF k
<1>5. Doc(held) \subseteq Doc(h)
  BY <1>1, <1>4 DEF WithinOrTaken, Within
<1>6. Doc(h) \subseteq Doc(w.data) /\ Doc(w.data) \subseteq Doc(held)
  <2>1. h \subseteq w.data
    BY <1>2 DEF Keeps
  <2> QED BY <1>3, <2>1, DocGrows
<1>7. w.key.of = k.of
  <2>1. w.key.of = Doc(w.data)
    BY <1>2 DEF Keeps, Whole
  <2>2. Doc(w.data) = Doc(held)
    BY <1>5, <1>6
  <2> QED BY <1>4, <2>1, <2>2
<1>8. w.key = k
  BY <1>2, <1>3, <1>4, <1>7, SameKey DEF Keeps
<1> QED BY <1>2, <1>8 DEF Keeps, k

(* What a save does to an actor.                                           *)
LEMMA SaveFields ==
    ASSUME NEW a \in Actor
    PROVE  LET b == SaveNewChanges(a)
           IN  /\ b.run = a.run /\ b.phase = a.phase /\ b.held = a.held
               /\ b.written = a.written /\ b.loaded = a.loaded /\ b.awaited = a.awaited
               /\ b.onDisk = a.onDisk /\ b.atOpen = a.atOpen /\ b.saved = Doc(a.held)
               /\ GivenUp(b) = GivenUp(a)
               /\ Eligible(a) => /\ b.putting = a.putting \cup {Snapshot(a.held)}
                                 /\ b.compacting = TRUE /\ b.supercedes = Superseded(a)
               /\ ~Eligible(a) => /\ b.putting = a.putting \cup NewPuts(a)
                                  /\ b.compacting = a.compacting
                                  /\ b.supercedes = a.supercedes
<1> DEFINE b == SaveNewChanges(a)
<1>1. /\ b.run = a.run /\ b.phase = a.phase /\ b.held = a.held
      /\ b.written = a.written /\ b.loaded = a.loaded /\ b.awaited = a.awaited
      /\ b.onDisk = a.onDisk /\ b.atOpen = a.atOpen /\ b.saved = Doc(a.held)
      /\ b.deletions = {}
      /\ Eligible(a) => /\ b.putting = a.putting \cup {Snapshot(a.held)}
                        /\ b.compacting = TRUE /\ b.supercedes = Superseded(a)
      /\ ~Eligible(a) => /\ b.putting = a.putting \cup NewPuts(a)
                         /\ b.compacting = a.compacting /\ b.supercedes = a.supercedes
  BY DEF SaveNewChanges, Actor
<1>2. b.deleting = [k \in Key |-> IF k \in a.deletions THEN a.deleting[k] + 1
                                                        ELSE a.deleting[k]]
  BY DEF SaveNewChanges, DueDeletes, Actor
<1>3. GivenUp(b) = GivenUp(a)
  BY <1>1, <1>2 DEF GivenUp, Actor
<1> QED BY <1>1, <1>3

(* A document that is loading is empty, and nothing is compacted.          *)
LEMMA IdleWhileLoading ==
    ASSUME NEW a \in Actor, a.held = {}, a.onDisk = {}, ~a.compacting
    PROVE  ~Eligible(a) /\ NewPuts(a) = {} /\ Doc(a.held) = {}
<1>1. NewChanges(a) = {} /\ Doc(a.held) = {}
  BY DEF NewChanges, Doc
<1>2. Cardinality({}) = 0 /\ Threshold \in Nat
  BY FS_EmptySet, DocStorageAssumption DEF DocStorageAssumption
<1>3. ~Eligible(a)
  BY <1>1, <1>2 DEF Eligible
<1> QED BY <1>1, <1>3 DEF NewPuts

LEMMA SaveAlone ==
    ASSUME NEW a \in Actor, NEW V \in SUBSET Chunk, NEW D \in SUBSET Key,
           NEW B \in SUBSET Change, NEW n \in Nat,
           Alone(a, V, D, B, n), a.run = "Running"
    PROVE  Alone(SaveNewChanges(a), V, D, B, n)
<1> DEFINE b == SaveNewChanges(a)
<1>1. /\ b.run = a.run /\ b.phase = a.phase /\ b.held = a.held
      /\ b.written = a.written /\ b.loaded = a.loaded /\ b.awaited = a.awaited
      /\ b.onDisk = a.onDisk /\ b.atOpen = a.atOpen /\ b.saved = Doc(a.held)
      /\ Eligible(a) => /\ b.putting = a.putting \cup {Snapshot(a.held)}
                        /\ b.compacting = TRUE /\ b.supercedes = Superseded(a)
      /\ ~Eligible(a) => /\ b.putting = a.putting \cup NewPuts(a)
                         /\ b.compacting = a.compacting /\ b.supercedes = a.supercedes
  BY SaveFields
<1>2. a.held \in SUBSET Change /\ a.phase \in {"Loading", "Ready"}
  BY DEF Actor
<1>3. Doc(a.held) \subseteq a.held /\ \A c \in Doc(a.held) : Before[c] \subseteq Doc(a.held)
  BY <1>2, DocClosed DEF Doc
<1> HIDE DEF b
<1>4. CASE Eligible(a)
  <2> DEFINE s == Snapshot(a.held)
  <2>1. /\ s \in Chunk /\ IsSnapshot(s) /\ Whole(s) /\ s.data = a.held
        /\ s.key = SnapshotKey(a.held)
    BY <1>2, NewChunks, Zenon
  <2>2. ~a.compacting /\ a.phase = "Ready"
    <3>1. a.phase = "Loading" => FALSE
      BY <1>4, IdleWhileLoading DEF Alone, Informed
    <3> QED BY <1>2, <1>4, <3>1 DEF Eligible
  <2>3. \A ch \in Tasks(a) : ~IsSnapshot(ch)
    BY <2>2 DEF Alone, Informed
  <2> HIDE DEF s
  <2>4. b.putting = a.putting \cup {s} /\ b.compacting = TRUE
        /\ b.supercedes = a.onDisk \ {SnapshotKey(a.held)}
    BY <1>1, <1>4 DEF s, Superseded
  <2>5. Tasks(b) = Tasks(a) \cup {s}
    BY <1>1, <2>4 DEF Tasks
  <2>6. Changes(V) \subseteq a.held
    BY <2>2 DEF Alone, Agrees
  <2>7. Informed(b, B, n)
    <3>1. /\ \A ch \in Tasks(b) : Whole(ch) /\ ch.data \subseteq b.held
          /\ \A ch \in b.loaded :
               WithinOrTaken(ch.key, b.held \cup Changes(b.loaded), B, n)
          /\ \A k \in b.onDisk : WithinOrTaken(k, b.held, B, n)
      BY <1>1, <2>1, <2>5 DEF Alone, Informed
    <3>2. ASSUME NEW t \in Tasks(b), IsSnapshot(t)
          PROVE  /\ b.compacting
                 /\ \A k \in b.supercedes : k # t.key /\ WithinOrTaken(k, t.data, B, n)
                 /\ \A other \in Tasks(b) : IsSnapshot(other) => other = t
                 /\ t \notin b.putting \/ t \notin b.written
      <4>1. t = s /\ \A other \in Tasks(b) : IsSnapshot(other) => other = s
        BY <2>3, <2>5, <3>2
      <4>2. \A k \in b.supercedes : k # s.key /\ WithinOrTaken(k, s.data, B, n)
        BY <1>1, <2>1, <2>4, <3>1
      <4>3. s \notin b.written
        BY <1>1, <2>1, <2>3 DEF Tasks
      <4> QED BY <2>4, <4>1, <4>2, <4>3
    <3>3. /\ \A c \in b.saved : Before[c] \subseteq b.saved
          /\ b.run = "Running" /\ b.phase = "Ready"
      BY <1>1, <1>3, <2>2
    <3> QED BY <3>1, <3>2, <3>3 DEF Informed
  <2>8. Agrees(b, V, D, B, n)
    <3>1. b.phase = "Ready" => Changes(V) \cup Changes(b.loaded) \subseteq b.held
      BY <1>1 DEF Alone, Agrees
    <3>2. ASSUME NEW t \in Tasks(b), IsSnapshot(t), NEW ch \in V
          PROVE  ch.data \subseteq t.data
      BY <2>1, <2>3, <2>5, <2>6, <3>2 DEF Changes
    <3>3. \A t \in b.written : ~IsSnapshot(t)
      BY <1>1, <2>3 DEF Tasks
    <3>4. ASSUME NEW t \in b.putting, IsSnapshot(t), t.key \in D PROVE n # 0
      <4>1. t.key = SnapshotKey(a.held)
        BY <2>1, <2>3, <2>4, <3>4 DEF Tasks
      <4> QED BY <1>2, <2>6, <3>4, <4>1, FreshSnapshot DEF Alone
    <3>5. b.saved \cup b.atOpen \subseteq Changes(V) \cup Changes(b.putting) \cup B
      <4>1. a.held \subseteq Changes(b.putting)
        BY <2>1, <2>4 DEF Changes
      <4>2. Changes(a.putting) \subseteq Changes(b.putting)
        BY <2>4 DEF Changes
      <4> QED BY <1>1, <1>3, <4>1, <4>2 DEF Alone, Agrees
    <3> QED BY <1>1, <2>2, <3>1, <3>2, <3>3, <3>4, <3>5 DEF Agrees
  <2> QED BY <2>7, <2>8 DEF Alone, b
<1>5. CASE ~Eligible(a)
  <2>1. NewPuts(a) = {Incremental(c) : c \in Doc(a.held) \ a.saved}
    BY DEF NewPuts, NewChanges
  <2>2. ASSUME NEW ch \in NewPuts(a)
        PROVE  /\ ch \in Chunk /\ ~IsSnapshot(ch) /\ Whole(ch) /\ ch.data \subseteq a.held
    <3>1. PICK c \in Doc(a.held) : ch = Incremental(c)
      BY <2>1
    <3>2. c \in Change /\ c \in a.held
      BY <1>2, <1>3
    <3>3. /\ Incremental(c) \in Chunk /\ ~IsSnapshot(Incremental(c))
          /\ Whole(Incremental(c)) /\ Incremental(c).data = {c}
      BY <1>2, <3>2, NewChunks
    <3> QED BY <3>1, <3>2, <3>3
  <2>3. /\ b.putting = a.putting \cup NewPuts(a) /\ b.compacting = a.compacting
        /\ b.supercedes = a.supercedes
    BY <1>1, <1>5
  <2>4. Tasks(b) = Tasks(a) \cup NewPuts(a)
    BY <1>1, <2>3 DEF Tasks
  <2>5. a.phase = "Loading" => NewPuts(a) = {} /\ Doc(a.held) = {}
    BY IdleWhileLoading DEF Alone, Informed
  <2>6. Informed(b, B, n)
    <3>1. /\ \A ch \in Tasks(b) : Whole(ch) /\ ch.data \subseteq b.held
          /\ \A ch \in b.loaded :
               WithinOrTaken(ch.key, b.held \cup Changes(b.loaded), B, n)
          /\ \A k \in b.onDisk : WithinOrTaken(k, b.held, B, n)
      BY <1>1, <2>2, <2>4 DEF Alone, Informed
    <3>2. ASSUME NEW t \in Tasks(b), IsSnapshot(t)
          PROVE  /\ b.compacting
                 /\ \A k \in b.supercedes : k # t.key /\ WithinOrTaken(k, t.data, B, n)
                 /\ \A other \in Tasks(b) : IsSnapshot(other) => other = t
                 /\ t \notin b.putting \/ t \notin b.written
      <4>1. t \in Tasks(a) /\ t \notin NewPuts(a)
        BY <2>2, <2>4, <3>2
      <4> QED BY <1>1, <2>2, <2>3, <2>4, <3>2, <4>1 DEF Alone, Informed
    <3>3. /\ \A c \in b.saved : Before[c] \subseteq b.saved
          /\ b.run = "Running"
      BY <1>1, <1>3
    <3>4. b.phase = "Loading" => /\ b.held = {} /\ b.saved = {} /\ Tasks(b) = {}
                                 /\ b.onDisk = {} /\ ~b.compacting
      BY <1>1, <2>3, <2>4, <2>5 DEF Alone, Informed
    <3> QED BY <3>1, <3>2, <3>3, <3>4 DEF Informed
  <2>7. Agrees(b, V, D, B, n)
    <3>1. \A t : IsSnapshot(t) => (t \in Tasks(b) <=> t \in Tasks(a))
                                  /\ (t \in b.putting <=> t \in a.putting)
      BY <2>2, <2>3, <2>4
    <3>2. b.saved \cup b.atOpen \subseteq Changes(V) \cup Changes(b.putting) \cup B
      <4>1. ASSUME NEW c \in Doc(a.held) \ a.saved PROVE c \in Changes(b.putting)
        <5>1. Incremental(c) \in b.putting
          BY <2>1, <2>3
        <5>2. c \in Incremental(c).data
          BY <1>2, <1>3, NewChunks
        <5> QED BY <5>1, <5>2 DEF Changes
      <4>2. Changes(a.putting) \subseteq Changes(b.putting)
        BY <2>3 DEF Changes
      <4> QED BY <1>1, <4>1, <4>2 DEF Alone, Agrees
    <3> QED BY <1>1, <3>1, <3>2 DEF Alone, Agrees
  <2> QED BY <2>6, <2>7 DEF Alone, b
<1> QED BY <1>4, <1>5

(* A delete less is no harm.                                               *)
LEMMA FewerDoomed ==
    ASSUME NEW a \in Actor, NEW V \in SUBSET Chunk, NEW D \in SUBSET Key,
           NEW E \in SUBSET D, NEW B \in SUBSET Change, NEW n \in Nat
    PROVE  /\ Kept(V, D, B, n) => Kept(V, E, B, n)
           /\ Alone(a, V, D, B, n) => Alone(a, V, E, B, n)
<1>1. ASSUME NEW h PROVE Backed(h, V, D, B, n) => Backed(h, V, E, B, n)
  BY DEF Backed, Keeps
<1>2. ASSUME NEW k \in Key PROVE Covered(k, V, D, B, n) => Covered(k, V, E, B, n)
  BY <1>1 DEF Covered
<1>3. Kept(V, D, B, n) => Kept(V, E, B, n)
  BY <1>2 DEF Kept
<1>4. Agrees(a, V, D, B, n) => Agrees(a, V, E, B, n)
  BY <1>1 DEF Agrees
<1> QED BY <1>3, <1>4 DEF Alone

(* What an actor may forget, and how it ends, without any harm.            *)
LEMMA EndAlone ==
    ASSUME NEW a \in Actor, NEW b \in Actor, NEW V \in SUBSET Chunk, NEW D \in SUBSET Key,
           NEW B \in SUBSET Change, NEW n \in Nat,
           Alone(a, V, D, B, n),
           b.phase = a.phase, b.held = a.held, b.saved = a.saved, b.atOpen = a.atOpen,
           b.onDisk \subseteq a.onDisk, b.compacting = a.compacting,
           b.supercedes = a.supercedes, b.putting = a.putting, b.written = a.written,
           b.awaited = a.awaited, b.loaded = a.loaded,
           \/ b.run = a.run
           \/ a.run # "Down" /\ b.run = "Stopping"
           \/ a.run # "Down" /\ b.run = "Stopped" /\ Tasks(a) = {}
    PROVE  Alone(b, V, D, B, n)
<1>1. Tasks(b) = Tasks(a)
  BY DEF Tasks
<1>2. Informed(b, B, n)
  <2>1. /\ \A ch \in Tasks(b) : Whole(ch) /\ ch.data \subseteq b.held
        /\ \A ch \in b.loaded : WithinOrTaken(ch.key, b.held \cup Changes(b.loaded), B, n)
        /\ \A k \in b.onDisk : WithinOrTaken(k, b.held, B, n)
        /\ \A c \in b.saved : Before[c] \subseteq b.saved
    BY <1>1 DEF Alone, Informed
  <2>2. \A s \in Tasks(b) : IsSnapshot(s) =>
          /\ b.compacting
          /\ \A k \in b.supercedes : k # s.key /\ WithinOrTaken(k, s.data, B, n)
          /\ \A other \in Tasks(b) : IsSnapshot(other) => other = s
          /\ s \notin b.putting \/ s \notin b.written
    BY <1>1 DEF Alone, Informed
  <2>3. /\ b.run = "Down" =>
             /\ b.held = {} /\ b.saved = {} /\ Tasks(b) = {}
             /\ b.atOpen = {} /\ b.awaited = {}
        /\ b.run = "Stopped" => Tasks(b) = {}
        /\ b.phase = "Loading" => /\ b.held = {} /\ b.saved = {} /\ Tasks(b) = {}
                                  /\ b.onDisk = {} /\ ~b.compacting
    BY <1>1 DEF Alone, Informed
  <2> QED BY <2>1, <2>2, <2>3 DEF Informed
<1>3. Agrees(b, V, D, B, n)
  BY <1>1 DEF Alone, Agrees
<1> QED BY <1>2, <1>3 DEF Alone

LEMMA SteppedAlone ==
    ASSUME NEW a \in Actor, NEW V \in SUBSET Chunk, NEW D \in SUBSET Key,
           NEW B \in SUBSET Change, NEW n \in Nat, Alone(a, V, D, B, n)
    PROVE  /\ Alone(Stepped(a), V, D, B, n) /\ GivenUp(Stepped(a)) = GivenUp(a)
           /\ Stepped(a).held = a.held /\ Stepped(a).phase = a.phase
           /\ Stepped(a).run = "Down" <=> a.run = "Down"
           /\ a.putting \subseteq Stepped(a).putting
<1>1. CASE a.run = "Running"
  <2>1. Stepped(a) = SaveNewChanges(a)
    BY <1>1 DEF Stepped
  <2> QED BY <1>1, <2>1, SaveAlone, SaveFields
<1>2. CASE a.run = "Stopping" /\ IsFlushed(a)
  <2> DEFINE b == [a EXCEPT !.run = "Stopped"]
  <2>1. Stepped(a) = b
    BY <1>2 DEF Stepped
  <2>2. /\ b \in Actor
        /\ b.phase = a.phase /\ b.held = a.held /\ b.saved = a.saved /\ b.atOpen = a.atOpen
        /\ b.onDisk = a.onDisk /\ b.compacting = a.compacting
        /\ b.supercedes = a.supercedes /\ b.putting = a.putting /\ b.written = a.written
        /\ b.awaited = a.awaited /\ b.loaded = a.loaded /\ b.run = "Stopped"
        /\ b.deleting = a.deleting /\ b.deletions = a.deletions
    BY DEF Actor
  <2>3. Tasks(a) = {}
    BY <1>2 DEF IsFlushed, Tasks
  <2> HIDE DEF b
  <2>4. Alone(b, V, D, B, n)
    BY <1>2, <2>2, <2>3, EndAlone
  <2>5. GivenUp(b) = GivenUp(a)
    BY <2>2 DEF GivenUp
  <2> QED BY <1>2, <2>1, <2>2, <2>4, <2>5
<1>3. CASE a.run # "Running" /\ ~(a.run = "Stopping" /\ IsFlushed(a))
  <2>1. Stepped(a) = a
    BY <1>3 DEF Stepped
  <2> QED BY <2>1
<1> QED BY <1>1, <1>2, <1>3

(* The process died, or has not begun.                                     *)
LEMMA AbsentAlone ==
    ASSUME NEW V \in SUBSET Chunk, NEW D \in SUBSET Key,
           NEW B \in SUBSET Change, NEW n \in Nat, Kept(V, D, B, n)
    PROVE  Alone(Absent, V, D, B, n) /\ GivenUp(Absent) = {}
<1>1. /\ Absent.run = "Down" /\ Absent.phase = "Loading" /\ Absent.held = {}
      /\ Absent.saved = {} /\ Absent.onDisk = {} /\ Absent.compacting = FALSE
      /\ Absent.putting = {} /\ Absent.written = {} /\ Absent.loaded = {}
      /\ Absent.atOpen = {} /\ Absent.deletions = {} /\ Absent.deleting = NoDeletes
      /\ Absent.awaited = {}
  BY DEF Absent
<1>2. Tasks(Absent) = {}
  BY <1>1 DEF Tasks
<1>3. Informed(Absent, B, n)
  BY <1>1, <1>2 DEF Informed
<1>4. Agrees(Absent, V, D, B, n)
  BY <1>1, <1>2 DEF Agrees
<1>5. GivenUp(Absent) = {}
  BY <1>1 DEF GivenUp, NoDeletes
<1> QED BY <1>3, <1>4, <1>5 DEF Alone

(* A new actor opens what is stored, or creates what is not.               *)
LEMMA NewAlone ==
    ASSUME NEW V \in SUBSET Chunk, NEW D \in SUBSET Key,
           NEW B \in SUBSET Change, NEW n \in Nat, Kept(V, D, B, n),
           NEW S \in SUBSET Change, S = {} \/ V = {},
           Changes(disk) \in SUBSET Change, Changes(disk) \subseteq Changes(V)
    PROVE  /\ Alone(NewActor(S), V, D, B, n) /\ GivenUp(NewActor(S)) = {}
           /\ NewActor(S).held = S
<1> DEFINE a == [Absent EXCEPT !.run = "Running",
                               !.phase = IF S = {} THEN "Loading" ELSE "Ready",
                               !.creating = S, !.held = S,
                               !.loading = TRUE, !.awaited = {"incremental", "snapshot"},
                               !.atOpen = Changes(disk)]
<1>1. a \in Actor
  BY AbsentType DEF Actor
<1>2. /\ a.run = "Running" /\ a.phase = (IF S = {} THEN "Loading" ELSE "Ready")
      /\ a.held = S /\ a.awaited = {"incremental", "snapshot"} /\ a.atOpen = Changes(disk)
      /\ a.saved = {} /\ a.onDisk = {} /\ a.compacting = FALSE /\ a.putting = {}
      /\ a.written = {} /\ a.loaded = {} /\ a.deletions = {} /\ a.deleting = NoDeletes
  BY DEF Absent
<1>3. NewActor(S) = Stepped(a)
  BY DEF NewActor
<1> HIDE DEF a
<1>4. Tasks(a) = {} /\ Changes(a.loaded) = {}
  BY <1>2 DEF Tasks, Changes
<1>5. Informed(a, B, n)
  BY <1>2, <1>4 DEF Informed
<1>6. Agrees(a, V, D, B, n)
  <2>1. a.phase = "Ready" => Changes(V) \cup Changes(a.loaded) \subseteq a.held
    BY <1>2, <1>4 DEF Changes
  <2>2. \A ch \in V : ch.key.kind \in a.awaited
    BY <1>2 DEF Chunk, Key
  <2> QED BY <1>2, <1>4, <2>1, <2>2 DEF Agrees, Tasks
<1>7. Alone(a, V, D, B, n)
  BY <1>5, <1>6 DEF Alone
<1>8. GivenUp(a) = {}
  BY <1>2 DEF GivenUp, NoDeletes
<1> QED BY <1>1, <1>2, <1>3, <1>7, <1>8, SteppedAlone

(* Changes arrive in a document that is loaded.                            *)
Arrived(a, S) == [a EXCEPT !.held = @ \cup S]

LEMMA ArriveAlone ==
    ASSUME NEW a \in Actor, NEW V \in SUBSET Chunk, NEW D \in SUBSET Key,
           NEW B \in SUBSET Change, NEW n \in Nat,
           NEW S \in SUBSET Change, NEW b, b = Arrived(a, S),
           Alone(a, V, D, B, n), a.phase = "Ready", a.run # "Down"
    PROVE  b \in Actor /\ Alone(b, V, D, B, n)
<1>1. /\ b \in Actor /\ b.held = a.held \cup S
      /\ b.run = a.run /\ b.phase = a.phase /\ b.saved = a.saved /\ b.atOpen = a.atOpen
      /\ b.onDisk = a.onDisk /\ b.compacting = a.compacting
      /\ b.supercedes = a.supercedes /\ b.putting = a.putting /\ b.written = a.written
      /\ b.awaited = a.awaited /\ b.loaded = a.loaded
      /\ b.deleting = a.deleting /\ b.deletions = a.deletions
  BY DEF Actor, Arrived
<1>2. a.held \in SUBSET Change /\ a.onDisk \in SUBSET Key /\ a.loaded \in SUBSET Chunk
  BY DEF Actor
<1>3. Tasks(b) = Tasks(a) /\ GivenUp(b) = GivenUp(a)
  BY <1>1 DEF Tasks, GivenUp
<1>4. Informed(b, B, n)
  <2>1. \A ch \in Tasks(b) : Whole(ch) /\ ch.data \subseteq b.held
    BY <1>1, <1>3 DEF Alone, Informed
  <2>2. ASSUME NEW ch \in b.loaded
        PROVE  WithinOrTaken(ch.key, b.held \cup Changes(b.loaded), B, n)
    <3>1. ch.key \in Key /\ Changes(a.loaded) \in SUBSET Change
      BY <1>1, <1>2, <2>2 DEF Chunk, Changes
    <3>2. WithinOrTaken(ch.key, a.held \cup Changes(a.loaded), B, n)
      BY <1>1, <2>2 DEF Alone, Informed
    <3>3. a.held \cup Changes(a.loaded) \subseteq b.held \cup Changes(b.loaded)
      BY <1>1
    <3>4. a.held \cup Changes(a.loaded) \in SUBSET Change
          /\ b.held \cup Changes(b.loaded) \in SUBSET Change
      BY <1>1, <1>2, <3>1
    <3> QED BY <3>1, <3>2, <3>3, <3>4, WithinGrows
  <2>3. ASSUME NEW k \in b.onDisk PROVE WithinOrTaken(k, b.held, B, n)
    <3>1. WithinOrTaken(k, a.held, B, n) /\ k \in Key
      BY <1>1, <1>2, <2>3 DEF Alone, Informed
    <3>2. b.held \in SUBSET Change /\ a.held \subseteq b.held
      BY <1>1, <1>2
    <3> QED BY <1>2, <3>1, <3>2, WithinGrows
  <2>4. \A s \in Tasks(b) : IsSnapshot(s) =>
          /\ b.compacting
          /\ \A k \in b.supercedes : k # s.key /\ WithinOrTaken(k, s.data, B, n)
          /\ \A other \in Tasks(b) : IsSnapshot(other) => other = s
          /\ s \notin b.putting \/ s \notin b.written
    BY <1>1, <1>3 DEF Alone, Informed
  <2>5. /\ \A c \in b.saved : Before[c] \subseteq b.saved
        /\ b.run = "Stopped" => Tasks(b) = {}
    BY <1>1, <1>3 DEF Alone, Informed
  <2> QED BY <1>1, <2>1, <2>2, <2>3, <2>4, <2>5 DEF Informed
<1>5. Agrees(b, V, D, B, n)
  BY <1>1, <1>3 DEF Alone, Agrees
<1> QED BY <1>1, <1>3, <1>4, <1>5 DEF Alone

(* Storage is read: all or part of a range.                                *)
LEMMA ReadAlone ==
    ASSUME NEW a \in Actor, NEW b \in Actor, NEW V \in SUBSET Chunk, NEW D \in SUBSET Key,
           NEW B \in SUBSET Change, NEW n \in Nat,
           NEW W \in SUBSET Chunk, Alone(a, V, D, B, n), a.run # "Down",
           b.run = a.run, b.phase = a.phase, b.held = a.held, b.saved = a.saved,
           b.atOpen = a.atOpen, b.onDisk = a.onDisk, b.compacting = a.compacting,
           b.supercedes = a.supercedes, b.putting = a.putting, b.written = a.written,
           b.loaded = a.loaded \cup W, b.awaited \subseteq a.awaited,
           a.phase = "Ready" => Changes(W) \subseteq a.held,
           \A ch \in W : WithinOrTaken(ch.key, b.held \cup Changes(b.loaded), B, n),
           \A ch \in V : ch.key.kind \in a.awaited => ch.key.kind \in b.awaited
                                                      \/ ch \in b.loaded
                                                      \/ a.phase = "Ready"
    PROVE  Alone(b, V, D, B, n)
<1>1. Tasks(b) = Tasks(a) /\ Changes(b.loaded) = Changes(a.loaded) \cup Changes(W)
  BY DEF Tasks, Changes
<1>2. a.held \in SUBSET Change /\ a.loaded \in SUBSET Chunk /\ Changes(a.loaded) \in SUBSET Change
      /\ Changes(W) \in SUBSET Change /\ a.phase \in {"Loading", "Ready"}
  BY DEF Actor, Changes, Chunk
<1>3. Informed(b, B, n)
  <2>1. /\ \A ch \in Tasks(b) : Whole(ch) /\ ch.data \subseteq b.held
        /\ \A k \in b.onDisk : WithinOrTaken(k, b.held, B, n)
        /\ \A c \in b.saved : Before[c] \subseteq b.saved
    BY <1>1 DEF Alone, Informed
  <2>2. ASSUME NEW ch \in a.loaded
        PROVE  WithinOrTaken(ch.key, b.held \cup Changes(b.loaded), B, n)
    <3>1. WithinOrTaken(ch.key, a.held \cup Changes(a.loaded), B, n) /\ ch.key \in Key
      BY <1>2 DEF Alone, Informed, Chunk
    <3>2. /\ a.held \cup Changes(a.loaded) \subseteq b.held \cup Changes(b.loaded)
          /\ a.held \cup Changes(a.loaded) \in SUBSET Change
          /\ b.held \cup Changes(b.loaded) \in SUBSET Change
      BY <1>1, <1>2
    <3> DEFINE old == a.held \cup Changes(a.loaded)
               new == b.held \cup Changes(b.loaded)
    <3>3. /\ old \in SUBSET Change /\ new \in SUBSET Change /\ old \subseteq new
          /\ WithinOrTaken(ch.key, old, B, n) /\ ch.key \in Key
      BY <3>1, <3>2
    <3> HIDE DEF old, new
    <3>4. WithinOrTaken(ch.key, new, B, n)
      BY <3>3, WithinGrows, Zenon
    <3> QED BY <3>4 DEF new
  <2>3. \A s \in Tasks(b) : IsSnapshot(s) =>
          /\ b.compacting
          /\ \A k \in b.supercedes : k # s.key /\ WithinOrTaken(k, s.data, B, n)
          /\ \A other \in Tasks(b) : IsSnapshot(other) => other = s
          /\ s \notin b.putting \/ s \notin b.written
    BY <1>1 DEF Alone, Informed
  <2>4. /\ b.run = "Stopped" => Tasks(b) = {}
        /\ b.phase = "Loading" => /\ b.held = {} /\ b.saved = {} /\ Tasks(b) = {}
                                  /\ b.onDisk = {} /\ ~b.compacting
    BY <1>1 DEF Alone, Informed
  <2> QED BY <2>1, <2>2, <2>3, <2>4 DEF Informed
<1>4. Agrees(b, V, D, B, n)
  <2>1. b.phase = "Ready" => Changes(V) \cup Changes(b.loaded) \subseteq b.held
    BY <1>1 DEF Alone, Agrees
  <2>2. b.phase = "Loading" => \A ch \in V : ch.key.kind \in b.awaited \/ ch \in b.loaded
    BY DEF Alone, Agrees
  <2> QED BY <1>1, <2>1, <2>2 DEF Alone, Agrees
<1> QED BY <1>3, <1>4 DEF Alone

(* The load is complete: the document will have all that is in storage,    *)
(* and all that was when it began.                                         *)
LEMMA LoadFinds ==
    ASSUME NEW a \in Actor, NEW V \in SUBSET Chunk, NEW D \in SUBSET Key,
           NEW B \in SUBSET Change, NEW n \in Nat,
           Alone(a, V, D, B, n), a.run # "Down", a.awaited = {}
    PROVE  /\ Changes(V) \subseteq a.held \cup Changes(a.loaded)
           /\ a.atOpen \subseteq a.held \cup Changes(a.loaded) \cup B
<1>1. Changes(V) \subseteq a.held \cup Changes(a.loaded)
  <2>1. CASE a.phase = "Ready"
    BY <2>1 DEF Alone, Agrees
  <2>2. CASE a.phase = "Loading"
    <3>1. V \subseteq a.loaded
      BY <2>2 DEF Alone, Agrees
    <3> QED BY <3>1 DEF Changes
  <2> QED BY <2>1, <2>2 DEF Actor
<1>2. Changes(a.putting) \subseteq a.held
  BY DEF Alone, Informed, Tasks, Changes
<1> QED BY <1>1, <1>2 DEF Alone, Agrees

LEMMA LoadAlone ==
    ASSUME NEW a \in Actor, NEW V \in SUBSET Chunk, NEW D \in SUBSET Key,
           NEW B \in SUBSET Change, NEW n \in Nat,
           NEW P \in SUBSET Change, NEW b, b = HandleLoad(a, P),
           Alone(a, V, D, B, n), a.run # "Down", a.awaited = {}
    PROVE  Alone(b, V, D, B, n)
<1>0. b \in Actor
  BY HandleLoadType
<1>1. /\ b.held = a.held \cup Changes(a.loaded) \cup P
      /\ b.phase = "Ready" /\ b.onDisk = a.onDisk \cup {ch.key : ch \in a.loaded}
      /\ b.loaded = {} /\ b.atOpen = {}
      /\ b.run = a.run /\ b.saved = a.saved /\ b.compacting = a.compacting
      /\ b.supercedes = a.supercedes /\ b.putting = a.putting /\ b.written = a.written
      /\ b.awaited = a.awaited /\ b.deleting = a.deleting /\ b.deletions = a.deletions
  BY DEF HandleLoad, Actor
<1>2. /\ a.held \in SUBSET Change /\ a.onDisk \in SUBSET Key /\ a.loaded \in SUBSET Chunk
      /\ a.phase \in {"Loading", "Ready"} /\ Changes(a.loaded) \in SUBSET Change
      /\ b.held \in SUBSET Change
  BY <1>0 DEF Actor, Changes, Chunk
<1>3. Tasks(b) = Tasks(a) /\ GivenUp(b) = GivenUp(a) /\ Changes(b.loaded) = {}
  BY <1>1 DEF Tasks, GivenUp, Changes
<1>4. Changes(V) \subseteq b.held
  BY <1>1, LoadFinds
<1>5. Informed(b, B, n)
  <2>1. ASSUME NEW k \in b.onDisk PROVE WithinOrTaken(k, b.held, B, n)
    <3>1. CASE k \in a.onDisk
      <4>1. WithinOrTaken(k, a.held, B, n) /\ k \in Key /\ a.held \subseteq b.held
        BY <1>1, <1>2, <3>1 DEF Alone, Informed
      <4> QED BY <1>2, <4>1, WithinGrows, Zenon
    <3>2. CASE k \notin a.onDisk
      <4> DEFINE read == a.held \cup Changes(a.loaded)
      <4>1. PICK ch \in a.loaded : k = ch.key
        BY <1>1, <2>1, <3>2
      <4>2. /\ WithinOrTaken(k, read, B, n) /\ k \in Key /\ read \subseteq b.held
            /\ read \in SUBSET Change
        BY <1>1, <1>2, <4>1 DEF Alone, Informed, Chunk
      <4> HIDE DEF read
      <4> QED BY <1>2, <4>2, WithinGrows, Zenon
    <3> QED BY <3>1, <3>2
  <2>2. /\ \A ch \in Tasks(b) : Whole(ch) /\ ch.data \subseteq b.held
        /\ \A c \in b.saved : Before[c] \subseteq b.saved
    BY <1>1, <1>3 DEF Alone, Informed
  <2>3. \A s \in Tasks(b) : IsSnapshot(s) =>
          /\ b.compacting
          /\ \A k \in b.supercedes : k # s.key /\ WithinOrTaken(k, s.data, B, n)
          /\ \A other \in Tasks(b) : IsSnapshot(other) => other = s
          /\ s \notin b.putting \/ s \notin b.written
    BY <1>1, <1>3 DEF Alone, Informed
  <2>4. b.run = "Stopped" => Tasks(b) = {}
    BY <1>1, <1>3 DEF Alone, Informed
  <2> QED BY <1>1, <2>1, <2>2, <2>3, <2>4 DEF Informed
<1>6. Agrees(b, V, D, B, n)
  <2>1. b.saved \cup b.atOpen \subseteq Changes(V) \cup Changes(b.putting) \cup B
    BY <1>1 DEF Alone, Agrees
  <2> QED BY <1>1, <1>3, <1>4, <2>1 DEF Alone, Agrees
<1> QED BY <1>5, <1>6 DEF Alone

(* An incremental put is complete.                                         *)
LEMMA IncrementalDoneAlone ==
    ASSUME NEW a \in Actor, NEW V \in SUBSET Chunk, NEW D \in SUBSET Key,
           NEW B \in SUBSET Change, NEW n \in Nat,
           NEW ch \in a.written, NEW b, b = MarkPutComplete(a, ch),
           Alone(a, V, D, B, n), ~IsSnapshot(ch)
    PROVE  b \in Actor /\ Alone(b, V, D, B, n) /\ GivenUp(b) = GivenUp(a)
<1>1. b \in Actor
  BY MarkPutType DEF Actor
<1>2. /\ b.onDisk = a.onDisk \cup {ch.key} /\ b.written = a.written \ {ch}
      /\ b.held = a.held /\ b.phase = a.phase /\ b.loaded = a.loaded /\ b.atOpen = a.atOpen
      /\ b.run = a.run /\ b.saved = a.saved /\ b.compacting = a.compacting
      /\ b.supercedes = a.supercedes /\ b.putting = a.putting
      /\ b.awaited = a.awaited /\ b.deleting = a.deleting /\ b.deletions = a.deletions
  BY DEF MarkPutComplete, Actor, IsSnapshot
<1>3. Tasks(b) \subseteq Tasks(a) /\ GivenUp(b) = GivenUp(a)
  BY <1>2 DEF Tasks, GivenUp
<1>4. ch \in Chunk /\ ch \in Tasks(a) /\ a.held \in SUBSET Change
  BY DEF Tasks, Actor
<1>5. Informed(b, B, n)
  <2>1. WithinOrTaken(ch.key, a.held, B, n)
    <3>1. Whole(ch) /\ ch.data \subseteq a.held /\ ch.data \in SUBSET Change /\ ch.key \in Key
      BY <1>4 DEF Alone, Informed, Chunk
    <3>2. Within(ch.key, ch.data)
      BY <1>4, <3>1, SaidBy
    <3>3. Within(ch.key, a.held)
      BY <1>4, <3>1, <3>2, WithinGrows, Zenon
    <3> QED BY <3>3 DEF WithinOrTaken
  <2>2. /\ \A t \in Tasks(b) : Whole(t) /\ t.data \subseteq b.held
        /\ \A t \in b.loaded : WithinOrTaken(t.key, b.held \cup Changes(b.loaded), B, n)
        /\ \A c \in b.saved : Before[c] \subseteq b.saved
    BY <1>2, <1>3 DEF Alone, Informed
  <2>3. \A k \in b.onDisk : WithinOrTaken(k, b.held, B, n)
    BY <1>2, <2>1 DEF Alone, Informed
  <2>4. \A s \in Tasks(b) : IsSnapshot(s) =>
          /\ b.compacting
          /\ \A k \in b.supercedes : k # s.key /\ WithinOrTaken(k, s.data, B, n)
          /\ \A other \in Tasks(b) : IsSnapshot(other) => other = s
          /\ s \notin b.putting \/ s \notin b.written
    BY <1>2, <1>3 DEF Alone, Informed
  <2>5. /\ b.run # "Down" /\ b.run # "Stopped" /\ b.phase # "Loading"
    BY <1>2, <1>4 DEF Alone, Informed
  <2> QED BY <2>2, <2>3, <2>4, <2>5 DEF Informed
<1>6. Agrees(b, V, D, B, n)
  BY <1>2, <1>3 DEF Alone, Agrees
<1> QED BY <1>1, <1>3, <1>5, <1>6 DEF Alone

(* A compaction is complete: all that it supersedes is to be deleted, and  *)
(* is in the snapshot that it wrote, or in a larger one.                   *)
LEMMA CompactionAlone ==
    ASSUME NEW a \in Actor, NEW V \in SUBSET Chunk, NEW D \in SUBSET Key,
           NEW B \in SUBSET Change, NEW n \in Nat,
           NEW ch \in a.written, NEW b, b = MarkPutComplete(a, ch),
           Alone(a, V, D, B, n), IsSnapshot(ch)
    PROVE  /\ b \in Actor /\ Alone(b, V, D \cup a.supercedes, B, n)
<1> DEFINE E == D \cup a.supercedes
<1>1. b \in Actor
  BY MarkPutType DEF Actor
<1>2. /\ b.onDisk = KeysKept(a) \cup {ch.key} /\ b.written = a.written \ {ch}
      /\ b.deletions = a.deletions \cup a.supercedes /\ b.supercedes = {}
      /\ b.compacting = FALSE
      /\ b.held = a.held /\ b.phase = a.phase /\ b.loaded = a.loaded /\ b.atOpen = a.atOpen
      /\ b.run = a.run /\ b.saved = a.saved /\ b.putting = a.putting
      /\ b.awaited = a.awaited /\ b.deleting = a.deleting
  BY DEF MarkPutComplete, Actor, IsSnapshot
<1> HIDE DEF E
<1>3. /\ ch \in Chunk /\ ch \in Tasks(a) /\ a.held \in SUBSET Change
      /\ ch.data \in SUBSET Change /\ ch.key \in Key /\ a.supercedes \in SUBSET Key
  BY DEF Tasks, Actor, Chunk
<1>4. /\ Whole(ch) /\ ch.data \subseteq a.held
      /\ \A k \in a.supercedes : k # ch.key /\ WithinOrTaken(k, ch.data, B, n)
      /\ \A other \in Tasks(a) : IsSnapshot(other) => other = ch
      /\ ch \notin a.putting
      /\ a.run # "Down" /\ a.run # "Stopped" /\ a.phase # "Loading"
  BY <1>3 DEF Alone, Informed
<1>5. /\ \A x \in V : IsSnapshot(x) => x.data \subseteq ch.data
      /\ Backed(ch.data, V, D, B, n)
  BY <1>3 DEF Alone, Agrees
<1>6. Tasks(b) \subseteq Tasks(a) /\ \A t \in Tasks(b) : ~IsSnapshot(t)
  BY <1>2, <1>4 DEF Tasks
<1>7. GivenUp(b) = GivenUp(a) \cup a.supercedes
  BY <1>2 DEF GivenUp
<1>8. Informed(b, B, n)
  <2>1. WithinOrTaken(ch.key, a.held, B, n)
    <3>1. Within(ch.key, ch.data)
      BY <1>3, <1>4, SaidBy
    <3>2. Within(ch.key, a.held)
      BY <1>3, <1>4, <3>1, WithinGrows, Zenon
    <3> QED BY <3>2 DEF WithinOrTaken
  <2>2. /\ \A t \in Tasks(b) : Whole(t) /\ t.data \subseteq b.held
        /\ \A t \in b.loaded : WithinOrTaken(t.key, b.held \cup Changes(b.loaded), B, n)
        /\ \A c \in b.saved : Before[c] \subseteq b.saved
    BY <1>2, <1>6 DEF Alone, Informed
  <2>3. \A k \in b.onDisk : WithinOrTaken(k, b.held, B, n)
    BY <1>2, <2>1 DEF Alone, Informed, KeysKept
  <2> QED BY <1>2, <1>4, <1>6, <2>2, <2>3 DEF Informed
<1>9. Agrees(b, V, E, B, n)
  <2>1. /\ \A t \in b.written : ~IsSnapshot(t)
        /\ \A t \in b.putting : ~IsSnapshot(t)
    BY <1>6 DEF Tasks
  <2> QED BY <1>2, <1>4, <1>6, <2>1 DEF Alone, Agrees
<1>10. Backed(ch.data, V, E, B, n)
  <2>1. CASE n # 0 /\ ch.data \subseteq B
    BY <2>1 DEF Backed
  <2>2. ASSUME NEW w \in V, Keeps(w, ch.data, D) PROVE Keeps(w, ch.data, E)
    <3>1. w.data = ch.data /\ IsSnapshot(w) /\ Whole(w) /\ w \in Chunk
      BY <1>5, <2>2 DEF Keeps
    <3>2. w.key.of = ch.key.of
      BY <1>4, <3>1 DEF Whole
    <3>3. w.key = ch.key
      BY <1>3, <3>1, <3>2, SameKey
    <3>4. w.key \notin E
      BY <1>4, <2>2, <3>3 DEF Keeps, E
    <3> QED BY <3>1, <3>4 DEF Keeps
  <2> QED BY <1>5, <2>1, <2>2 DEF Backed
<1>11. ASSUME NEW h \in SUBSET Change, Backed(h, V, D, B, n)
       PROVE  Backed(h, V, E, B, n)
  <2>1. CASE n # 0 /\ h \subseteq B
    BY <2>1 DEF Backed
  <2>2. ASSUME NEW w \in V, Keeps(w, h, D), w.key \notin a.supercedes
        PROVE  Keeps(w, h, E)
    BY <2>2 DEF Keeps, E
  <2>3. ASSUME NEW w \in V, Keeps(w, h, D), w.key \in a.supercedes
        PROVE  Backed(h, V, E, B, n)
    <3>1. h \subseteq ch.data
      BY <1>5, <2>3 DEF Keeps
    <3> QED BY <1>10, <3>1 DEF Backed, Keeps
  <2> QED BY <1>11, <2>1, <2>2, <2>3 DEF Backed
<1>12. Kept(V, E, B, n)
  <2>1. \A x \in V : Sound(x, B, n)
    BY DEF Alone, Kept
  <2>2. ASSUME NEW k \in D PROVE Covered(k, V, E, B, n)
    BY <1>11 DEF Alone, Kept, Covered
  <2>3. ASSUME NEW k \in a.supercedes PROVE Covered(k, V, E, B, n)
    <3>1. WithinOrTaken(k, ch.data, B, n)
      BY <1>4
    <3>2. ASSUME NEW x \in V, x.key = k PROVE x.data \subseteq ch.data \cup B
      <4>1. CASE IsSnapshot(x)
        BY <1>5, <4>1
      <4>2. CASE ~IsSnapshot(x) /\ x.data # {}
        <5>1. x.data = k.of /\ k.kind # "snapshot"
          BY <2>1, <3>2, <4>2 DEF Sound, Whole, IsSnapshot
        <5> QED BY <3>1, <5>1 DEF WithinOrTaken, Within
      <4> QED BY <4>1, <4>2
    <3> QED BY <1>3, <1>10, <3>1, <3>2 DEF Covered
  <2> QED BY <2>1, <2>2, <2>3 DEF Kept, E
<1> QED BY <1>1, <1>7, <1>8, <1>9, <1>12 DEF Alone, E

(* Faults of the storage take no more than they are blamed for.            *)
LEMMA TakenAlone ==
    ASSUME NEW a \in Actor, NEW V \in SUBSET Chunk, NEW D \in SUBSET Key,
           NEW B \in SUBSET Change, NEW n \in Nat,
           NEW C \in SUBSET Change, NEW m \in Nat, B \subseteq C, n # 0 => m # 0
    PROVE  /\ Kept(V, D, B, n) => Kept(V, D, C, m)
           /\ Alone(a, V, D, B, n) => Alone(a, V, D, C, m)
<1>1. \A k, h : WithinOrTaken(k, h, B, n) => WithinOrTaken(k, h, C, m)
  BY DEF WithinOrTaken
<1>2. \A h : Backed(h, V, D, B, n) => Backed(h, V, D, C, m)
  BY DEF Backed
<1>3. \A k : Covered(k, V, D, B, n) => Covered(k, V, D, C, m)
  BY <1>1, <1>2 DEF Covered
<1>4. \A ch : Sound(ch, B, n) => Sound(ch, C, m)
  BY DEF Sound
<1>5. Kept(V, D, B, n) => Kept(V, D, C, m)
  BY <1>3, <1>4 DEF Kept
<1>6. Informed(a, B, n) => Informed(a, C, m)
  <2> SUFFICES ASSUME Informed(a, B, n) PROVE Informed(a, C, m)
    OBVIOUS
  <2>1. /\ \A ch \in Tasks(a) : Whole(ch) /\ ch.data \subseteq a.held
        /\ \A ch \in a.loaded : WithinOrTaken(ch.key, a.held \cup Changes(a.loaded), C, m)
        /\ \A k \in a.onDisk : WithinOrTaken(k, a.held, C, m)
        /\ \A c \in a.saved : Before[c] \subseteq a.saved
    BY <1>1 DEF Informed
  <2>2. \A s \in Tasks(a) : IsSnapshot(s) =>
          /\ a.compacting
          /\ \A k \in a.supercedes : k # s.key /\ WithinOrTaken(k, s.data, C, m)
          /\ \A other \in Tasks(a) : IsSnapshot(other) => other = s
          /\ s \notin a.putting \/ s \notin a.written
    BY <1>1 DEF Informed
  <2>3. /\ a.run = "Down" =>
             /\ a.held = {} /\ a.saved = {} /\ Tasks(a) = {}
             /\ a.atOpen = {} /\ a.awaited = {}
        /\ a.run = "Stopped" => Tasks(a) = {}
        /\ a.phase = "Loading" => /\ a.held = {} /\ a.saved = {} /\ Tasks(a) = {}
                                  /\ a.onDisk = {} /\ ~a.compacting
    BY DEF Informed
  <2> QED BY <2>1, <2>2, <2>3 DEF Informed
<1>7. Agrees(a, V, D, B, n) => Agrees(a, V, D, C, m)
  BY <1>2 DEF Agrees
<1> QED BY <1>5, <1>6, <1>7 DEF Alone

(* Storage executes a put.  What it replaces under the same key is a part  *)
(* of it.  Only after a fault may a delete of its key be on the way.       *)
With(V, ch) == {other \in V : other.key # ch.key} \cup {ch}

MayStay(ch, D, B, n) == IsSnapshot(ch) /\ ch.key \in D => n # 0 /\ ch.data \subseteq B

LEMMA PutAlone ==
    ASSUME NEW a \in Actor, NEW V \in SUBSET Chunk, NEW D \in SUBSET Key,
           NEW B \in SUBSET Change, NEW n \in Nat,
           NEW ch \in a.putting, Alone(a, V, D, B, n), MayStay(ch, D, B, n)
    PROVE  /\ Alone(a, With(V, ch), D, B, n)
           /\ Changes(With(V, ch)) = Changes(V) \cup ch.data
           /\ ch.data \subseteq a.held
           /\ IsSnapshot(ch) => Backed(ch.data, With(V, ch), D, B, n)
<1> DEFINE W == With(V, ch)
<1>0. IsSnapshot(ch) /\ ch.key \in D => n # 0 /\ ch.data \subseteq B
  BY DEF MayStay
<1>1. /\ ch \in Chunk /\ ch \in Tasks(a) /\ ch.data \in SUBSET Change /\ ch.key \in Key
      /\ a.phase \in {"Loading", "Ready"}
  BY DEF Tasks, Actor, Chunk
<1>2. Whole(ch) /\ ch.data \subseteq a.held /\ a.phase = "Ready"
  BY <1>1 DEF Alone, Informed
<1>3. IsSnapshot(ch) => \A x \in V : IsSnapshot(x) => x.data \subseteq ch.data
  BY <1>1 DEF Alone, Agrees
<1>4. ASSUME NEW x \in V, x.key = ch.key PROVE x.data \subseteq ch.data
  <2>1. CASE IsSnapshot(ch)
    BY <1>3, <1>4, <2>1 DEF IsSnapshot
  <2>2. CASE ~IsSnapshot(ch)
    <3>1. ~IsSnapshot(x) /\ ch.key.of = ch.data
      BY <1>2, <1>4, <2>2 DEF IsSnapshot, Whole
    <3>2. x.data = x.key.of \/ x.data = {}
      BY <3>1 DEF Alone, Kept, Sound, Whole
    <3> QED BY <1>4, <3>1, <3>2
  <2> QED BY <2>1, <2>2
<1> HIDE DEF W
<1>5. Changes(W) = Changes(V) \cup ch.data
  <2>1. \A x \in W : x \in V \/ x = ch
    BY DEF W, With
  <2>2. ch \in W /\ \A x \in V : x \in W \/ x.key = ch.key
    BY DEF W, With
  <2> QED BY <1>4, <2>1, <2>2 DEF Changes
<1>6. ASSUME NEW h, Backed(h, V, D, B, n) PROVE Backed(h, W, D, B, n)
  <2>1. CASE n # 0 /\ h \subseteq B
    BY <2>1 DEF Backed
  <2>2. ASSUME NEW w \in V, Keeps(w, h, D) PROVE \E x \in W : Keeps(x, h, D)
    <3>1. CASE w.key # ch.key
      BY <2>2, <3>1 DEF W, With
    <3>2. CASE w.key = ch.key
      <4>1. IsSnapshot(ch) /\ ch.key \notin D /\ h \subseteq ch.data
        BY <1>0, <1>4, <2>2, <3>2 DEF Keeps, IsSnapshot
      <4> QED BY <1>2, <4>1 DEF Keeps, W, With
    <3> QED BY <3>1, <3>2
  <2> QED BY <1>6, <2>1, <2>2 DEF Backed
<1>7. Kept(W, D, B, n)
  <2>1. ASSUME NEW x \in W PROVE Sound(x, B, n)
    BY <1>2 DEF Alone, Kept, Sound, W, With
  <2>2. ASSUME NEW k \in D PROVE Covered(k, W, D, B, n)
    <3>1. PICK h \in SUBSET Change : /\ Backed(h, V, D, B, n) /\ WithinOrTaken(k, h, B, n)
                                     /\ \A x \in V : x.key = k => x.data \subseteq h \cup B
      BY DEF Alone, Kept, Covered
    <3>2. k = ch.key => ch.data \subseteq h \cup B
      <4>1. CASE IsSnapshot(ch)
        BY <1>0, <2>2, <4>1
      <4>2. CASE ~IsSnapshot(ch)
        BY <1>2, <3>1, <4>2 DEF Whole, IsSnapshot, WithinOrTaken, Within
      <4> QED BY <4>1, <4>2
    <3>3. \A x \in W : x.key = k => x.data \subseteq h \cup B
      BY <3>1, <3>2 DEF W, With
    <3> QED BY <1>6, <3>1, <3>3 DEF Covered
  <2> QED BY <2>1, <2>2 DEF Kept
<1>8. Agrees(a, W, D, B, n)
  <2>1. a.phase = "Ready" => Changes(W) \cup Changes(a.loaded) \subseteq a.held
    BY <1>2, <1>5 DEF Alone, Agrees
  <2>2. ASSUME NEW s \in Tasks(a), IsSnapshot(s), NEW x \in W, IsSnapshot(x)
        PROVE  x.data \subseteq s.data
    <3>1. CASE x = ch
      BY <1>1, <2>2, <3>1 DEF Alone, Informed
    <3>2. CASE x \in V
      BY <2>2, <3>2 DEF Alone, Agrees
    <3> QED BY <3>1, <3>2 DEF W, With
  <2>3. /\ \A s \in a.written : IsSnapshot(s) => Backed(s.data, W, D, B, n)
        /\ \A s \in a.putting : IsSnapshot(s) /\ s.key \in D => n # 0
        /\ a.saved \cup a.atOpen \subseteq Changes(W) \cup Changes(a.putting) \cup B
    BY <1>5, <1>6 DEF Alone, Agrees
  <2> QED BY <1>2, <2>1, <2>2, <2>3 DEF Agrees
<1>9. IsSnapshot(ch) => Backed(ch.data, W, D, B, n)
  <2>1. IsSnapshot(ch) /\ ch.key \notin D => Keeps(ch, ch.data, D) /\ ch \in W
    BY <1>2 DEF Keeps, W, With
  <2> QED BY <1>0, <2>1 DEF Backed
<1> QED BY <1>2, <1>5, <1>7, <1>8, <1>9 DEF Alone, W, With

(* The put was executed.                                                   *)
LEMMA ExecutedAlone ==
    ASSUME NEW a \in Actor, NEW b \in Actor, NEW V \in SUBSET Chunk, NEW D \in SUBSET Key,
           NEW B \in SUBSET Change, NEW n \in Nat,
           NEW ch \in a.putting, Alone(a, V, D, B, n),
           IsSnapshot(ch) => Backed(ch.data, V, D, B, n),
           ch.data \subseteq Changes(V) \cup B,
           b.putting = a.putting \ {ch}, b.written = a.written \cup {ch},
           b.run = a.run, b.phase = a.phase, b.held = a.held, b.saved = a.saved,
           b.atOpen = a.atOpen, b.onDisk = a.onDisk, b.compacting = a.compacting,
           b.supercedes = a.supercedes, b.loaded = a.loaded, b.awaited = a.awaited
    PROVE  Alone(b, V, D, B, n)
<1>1. Tasks(b) = Tasks(a) /\ ch \in Tasks(a)
  BY DEF Tasks
<1>2. Informed(b, B, n)
  <2>1. /\ \A t \in Tasks(b) : Whole(t) /\ t.data \subseteq b.held
        /\ \A t \in b.loaded : WithinOrTaken(t.key, b.held \cup Changes(b.loaded), B, n)
        /\ \A k \in b.onDisk : WithinOrTaken(k, b.held, B, n)
        /\ \A c \in b.saved : Before[c] \subseteq b.saved
    BY <1>1 DEF Alone, Informed
  <2>2. \A s \in Tasks(b) : IsSnapshot(s) =>
          /\ b.compacting
          /\ \A k \in b.supercedes : k # s.key /\ WithinOrTaken(k, s.data, B, n)
          /\ \A other \in Tasks(b) : IsSnapshot(other) => other = s
          /\ s \notin b.putting \/ s \notin b.written
    BY <1>1 DEF Alone, Informed
  <2>3. b.run # "Down" /\ b.run # "Stopped" /\ b.phase # "Loading"
    BY <1>1 DEF Alone, Informed
  <2> QED BY <2>1, <2>2, <2>3 DEF Informed
<1>3. Agrees(b, V, D, B, n)
  <2>1. Changes(a.putting) \subseteq Changes(b.putting) \cup ch.data
    BY DEF Changes
  <2> QED BY <1>1, <2>1 DEF Alone, Agrees
<1> QED BY <1>2, <1>3 DEF Alone

(* Storage executes a delete.                                              *)
Without(V, k) == {ch \in V : ch.key # k}

LEMMA RemovedAlone ==
    ASSUME NEW a \in Actor, NEW V \in SUBSET Chunk, NEW D \in SUBSET Key,
           NEW B \in SUBSET Change, NEW n \in Nat, NEW k \in D,
           Alone(a, V, D, B, n)
    PROVE  /\ Alone(a, Without(V, k), D, B, n)
           /\ Changes(V) \subseteq Changes(Without(V, k)) \cup B
<1> DEFINE W == Without(V, k)
<1>1. W \subseteq V /\ \A x \in V : x \in W \/ x.key = k
  BY DEF Without
<1>3. \A x \in V : x.key \notin D => x \in W
  BY DEF Without
<1> HIDE DEF W
<1>4. ASSUME NEW h, Backed(h, V, D, B, n) PROVE Backed(h, W, D, B, n)
  BY <1>3, <1>4 DEF Backed, Keeps
<1>5. Changes(W) \subseteq Changes(V)
  BY <1>1 DEF Changes
<1>6. Changes(V) \subseteq Changes(W) \cup B
  <2>1. PICK h \in SUBSET Change : /\ Backed(h, W, D, B, n)
                                   /\ \A x \in V : x.key = k => x.data \subseteq h \cup B
    BY <1>4 DEF Alone, Kept, Covered
  <2>2. h \subseteq Changes(W) \cup B
    BY <2>1 DEF Backed, Keeps, Changes
  <2>3. \A x \in V : x.data \subseteq Changes(W) \cup B
    BY <1>1, <2>1, <2>2 DEF Changes
  <2> QED BY <2>3 DEF Changes
<1>7. Kept(W, D, B, n)
  <2>1. ASSUME NEW key \in D PROVE Covered(key, W, D, B, n)
    BY <1>1, <1>4 DEF Alone, Kept, Covered
  <2> QED BY <1>1, <2>1 DEF Alone, Kept
<1>8. Agrees(a, W, D, B, n)
  <2>1. /\ a.phase = "Ready" => Changes(W) \cup Changes(a.loaded) \subseteq a.held
        /\ a.saved \cup a.atOpen \subseteq Changes(W) \cup Changes(a.putting) \cup B
    BY <1>5, <1>6 DEF Alone, Agrees
  <2>2. a.phase = "Loading" /\ a.run # "Down" =>
          \A ch \in W : ch.key.kind \in a.awaited \/ ch \in a.loaded
    BY <1>1 DEF Alone, Agrees
  <2>3. /\ \A s \in Tasks(a) : IsSnapshot(s) =>
             \A ch \in W : IsSnapshot(ch) => ch.data \subseteq s.data
        /\ \A s \in a.written : IsSnapshot(s) => Backed(s.data, W, D, B, n)
        /\ \A s \in a.putting : IsSnapshot(s) /\ s.key \in D => n # 0
    BY <1>1, <1>4 DEF Alone, Agrees
  <2> QED BY <2>1, <2>2, <2>3 DEF Agrees
<1> QED BY <1>6, <1>7, <1>8 DEF Alone, W

----------------------------------------------------------------------------
(* The same for the steps of the specification.                            *)

OneRepo == \E r \in Repo : Repo = {r}

LEMMA DoomedByOne ==
    ASSUME OneRepo, NEW r \in Repo
    PROVE  /\ Doomed = {k \in Key : stale[k] > 0 \/ k \in GivenUp(actor[r])}
           /\ Doomed' = {k \in Key : stale'[k] > 0 \/ k \in GivenUp(actor'[r])}
<1>1. \A q \in Repo : q = r
  BY DEF OneRepo
<1> QED BY <1>1 DEF Doomed

LEMMA Becomes ==
    ASSUME OneRepo, NEW r \in Repo, actor'[r] \in Actor, NEW V \in SUBSET Chunk,
           NEW E \in SUBSET Key, NEW B \in SUBSET Change, NEW n \in Nat,
           Alone(actor'[r], V, E, B, n),
           \A k \in Key : stale'[k] > 0 \/ k \in GivenUp(actor'[r]) => k \in E
    PROVE  Alone(actor'[r], V, Doomed', B, n)
<1>1. Doomed' = {k \in Key : stale'[k] > 0 \/ k \in GivenUp(actor'[r])}
  BY DoomedByOne
<1>2. Doomed' \in SUBSET E
  BY <1>1
<1> QED BY <1>2, FewerDoomed

(* A handler that runs a step of the actor on its outcome.                 *)
LEMMA Handles ==
    ASSUME OneRepo, NEW r \in Repo, NEW a \in Actor, NEW V \in SUBSET Chunk,
           NEW E \in SUBSET Key, NEW B \in SUBSET Change, NEW n \in Nat,
           Alone(a, V, E, B, n), actor'[r] = Stepped(a),
           \A k \in Key : stale'[k] > 0 \/ k \in GivenUp(a) => k \in E
    PROVE  Alone(actor'[r], V, Doomed', B, n) /\ actor'[r].held = a.held
<1>1. Stepped(a) \in Actor
  BY SteppedType
<1>2. /\ Alone(Stepped(a), V, E, B, n) /\ GivenUp(Stepped(a)) = GivenUp(a)
      /\ Stepped(a).held = a.held
  BY SteppedAlone
<1>3. /\ actor'[r] \in Actor /\ Alone(actor'[r], V, E, B, n)
      /\ GivenUp(actor'[r]) = GivenUp(a) /\ actor'[r].held = a.held
  BY <1>1, <1>2
<1>4. Alone(actor'[r], V, Doomed', B, n)
  BY <1>3, Becomes
<1> QED BY <1>3, <1>4

(* What an actor does while storage does nothing.                          *)
Handler(r) ==
    \/ CreateReturns(r) \/ Terminate(r)
    \/ \E S \in SUBSET Change : ChangesArrive(r, S) \/ LoadDone(r, S)
    \/ \E ch \in actor[r].written : PutDone(r, ch)
    \/ \E k \in Key : DeleteDone(r, k)

LEMMA HandlerAlone ==
    ASSUME OneRepo, TypeOK, NEW r \in Repo, NEW V \in SUBSET Chunk,
           NEW B \in SUBSET Change, NEW n \in Nat,
           Alone(actor[r], V, Doomed, B, n), Handler(r)
    PROVE  /\ Alone(actor'[r], V, Doomed', B, n)
           /\ actor[r].held \subseteq actor'[r].held
           /\ actor[r] # Absent /\ UNCHANGED <<disk, stale, fresh>>
           /\ \A S \in SUBSET Change :
                LoadDone(r, S) => actor[r].atOpen \subseteq actor'[r].held \cup B
<1>1. /\ actor[r] \in Actor /\ Doomed \in SUBSET Key
      /\ \A k \in Key : stale[k] > 0 \/ k \in GivenUp(actor[r]) => k \in Doomed
  BY DoomedByOne DEF TypeOK
<1>type. actor[r] \in Actor /\ Doomed \in SUBSET Key
  BY <1>1
<1>2. CreateReturns(r) \/ Terminate(r) => actor'[r].held = actor[r].held
                                          /\ Alone(actor'[r], V, Doomed', B, n)
  <2>1. CASE CreateReturns(r)
    <3> DEFINE b == [actor[r] EXCEPT !.creating = {}]
    <3>1. /\ b \in Actor
          /\ b.phase = actor[r].phase /\ b.held = actor[r].held /\ b.saved = actor[r].saved
          /\ b.atOpen = actor[r].atOpen /\ b.onDisk = actor[r].onDisk
          /\ b.compacting = actor[r].compacting /\ b.supercedes = actor[r].supercedes
          /\ b.putting = actor[r].putting /\ b.written = actor[r].written
          /\ b.awaited = actor[r].awaited /\ b.loaded = actor[r].loaded
          /\ b.run = actor[r].run
          /\ b.deleting = actor[r].deleting /\ b.deletions = actor[r].deletions
      BY <1>1 DEF Actor
    <3>2. actor'[r] = b /\ stale' = stale
      BY <2>1 DEF CreateReturns, TypeOK
    <3> HIDE DEF b
    <3>3. Alone(b, V, Doomed, B, n)
      BY <1>1, <3>1, EndAlone
    <3>4. GivenUp(b) = GivenUp(actor[r])
      BY <3>1 DEF GivenUp
    <3> QED BY <1>1, <3>1, <3>2, <3>3, <3>4, Becomes
  <2>2. CASE Terminate(r)
    <3> DEFINE b == [actor[r] EXCEPT !.run = "Stopping"]
    <3>1. /\ b \in Actor
          /\ b.phase = actor[r].phase /\ b.held = actor[r].held /\ b.saved = actor[r].saved
          /\ b.atOpen = actor[r].atOpen /\ b.onDisk = actor[r].onDisk
          /\ b.compacting = actor[r].compacting /\ b.supercedes = actor[r].supercedes
          /\ b.putting = actor[r].putting /\ b.written = actor[r].written
          /\ b.awaited = actor[r].awaited /\ b.loaded = actor[r].loaded
          /\ b.run = "Stopping" /\ actor[r].run # "Down"
          /\ b.deleting = actor[r].deleting /\ b.deletions = actor[r].deletions
      BY <1>1, <2>2 DEF Actor, Terminate
    <3>2. actor'[r] = Stepped(b) /\ stale' = stale
      BY <2>2 DEF Terminate, TypeOK
    <3> HIDE DEF b
    <3>3. Alone(b, V, Doomed, B, n)
      BY <1>1, <3>1, EndAlone
    <3>4. GivenUp(b) = GivenUp(actor[r])
      BY <3>1 DEF GivenUp
    <3> QED BY <1>1, <3>1, <3>2, <3>3, <3>4, Handles
  <2> QED BY <2>1, <2>2
<1>3. ASSUME NEW S \in SUBSET Change, ChangesArrive(r, S)
      PROVE  actor[r].held \subseteq actor'[r].held /\ Alone(actor'[r], V, Doomed', B, n)
  <2> DEFINE b == Arrived(actor[r], S)
  <2>1. b.held = actor[r].held \cup S
    BY <1>1 DEF Actor, Arrived
  <2>2. /\ actor[r].phase = "Ready" /\ actor[r].run # "Down"
        /\ actor'[r] = Stepped(b) /\ stale' = stale
    BY <1>3 DEF ChangesArrive, Alive, TypeOK, Arrived
  <2>3. b = Arrived(actor[r], S)
    OBVIOUS
  <2> HIDE DEF b
  <2>4. Alone(b, V, Doomed, B, n)
    BY <1>type, <2>2, <2>3, ArriveAlone
  <2>5. b \in Actor /\ GivenUp(b) = GivenUp(actor[r])
    BY <1>1, <2>3 DEF GivenUp, Arrived, Actor
  <2> QED BY <1>1, <2>1, <2>2, <2>4, <2>5, Handles
<1>4. ASSUME NEW S \in SUBSET Change, LoadDone(r, S)
      PROVE  /\ actor[r].held \subseteq actor'[r].held /\ Alone(actor'[r], V, Doomed', B, n)
             /\ actor[r].atOpen \subseteq actor'[r].held \cup B
  <2> DEFINE b == HandleLoad(actor[r], S)
  <2>1. /\ actor[r].awaited = {} /\ actor[r].run # "Down"
        /\ actor'[r] = Stepped(b) /\ stale' = stale
    BY <1>4 DEF LoadDone, AllIsIn, Handling, TypeOK
  <2>2. b = HandleLoad(actor[r], S)
    OBVIOUS
  <2> HIDE DEF b
  <2>3. Alone(b, V, Doomed, B, n)
    BY <1>type, <2>1, <2>2, LoadAlone
  <2>6. actor[r].atOpen \subseteq b.held \cup B
    <3>1. actor[r].atOpen \subseteq actor[r].held \cup Changes(actor[r].loaded) \cup B
      <4>1. actor[r].awaited = {} /\ actor[r].run # "Down"
        BY <2>1
      <4> QED BY <1>type, <4>1, LoadFinds
    <3>2. b.held = actor[r].held \cup Changes(actor[r].loaded) \cup S
      BY <1>type, <2>2 DEF HandleLoad, Actor
    <3> QED BY <3>1, <3>2
  <2>7. actor[r].held \subseteq b.held
    BY <1>type, <2>2 DEF HandleLoad, Actor
  <2>4. b \in Actor
    BY <1>1, <2>2, HandleLoadType
  <2>5. GivenUp(b) = GivenUp(actor[r])
    BY <1>1, <2>2 DEF GivenUp, HandleLoad, Actor
  <2> QED BY <1>1, <2>1, <2>3, <2>4, <2>5, <2>6, <2>7, Handles
<1>5. ASSUME NEW ch \in actor[r].written, PutDone(r, ch)
      PROVE  actor'[r].held = actor[r].held /\ Alone(actor'[r], V, Doomed', B, n)
  <2> DEFINE b == MarkPutComplete(actor[r], ch)
  <2>1. /\ actor'[r] = Stepped(b) /\ stale' = stale
    BY <1>5 DEF PutDone, TypeOK
  <2>2. b.held = actor[r].held /\ b = MarkPutComplete(actor[r], ch)
    BY <1>1 DEF MarkPutComplete, Actor
  <2> HIDE DEF b
  <2>3. CASE IsSnapshot(ch)
    <3> DEFINE E == Doomed \cup actor[r].supercedes
    <3>0. b \in Actor
      BY <1>1, <2>2, MarkPutType DEF Actor
    <3>4. Alone(b, V, E, B, n)
      BY <1>type, <2>2, <2>3, CompactionAlone
    <3>1. b.deletions = actor[r].deletions \cup actor[r].supercedes
          /\ b.deleting = actor[r].deleting
      BY <1>1, <2>2, <2>3 DEF MarkPutComplete, Actor, IsSnapshot
    <3>2. E \in SUBSET Key
      BY <1>1 DEF Actor
    <3>3. \A k \in Key : stale'[k] > 0 \/ k \in GivenUp(b) => k \in E
      BY <1>1, <2>1, <3>1 DEF GivenUp
    <3> HIDE DEF E
    <3> QED BY <2>1, <2>2, <3>0, <3>2, <3>3, <3>4, Handles
  <2>4. CASE ~IsSnapshot(ch)
    <3>1. b \in Actor /\ Alone(b, V, Doomed, B, n) /\ GivenUp(b) = GivenUp(actor[r])
      BY <1>1, <2>2, <2>4, IncrementalDoneAlone
    <3> QED BY <1>1, <2>1, <2>2, <3>1, Handles
  <2> QED BY <2>3, <2>4
<1>6. ASSUME NEW k \in Key, DeleteDone(r, k)
      PROVE  actor'[r].held = actor[r].held /\ Alone(actor'[r], V, Doomed', B, n)
  <2> DEFINE b == MarkDeleteComplete(actor[r], k)
  <2>1. /\ actor'[r] = Stepped(b) /\ stale' = stale
        /\ actor[r].deleted[k] > 0
    BY <1>6 DEF DeleteDone, TypeOK
  <2>2. b \in Actor
    BY <1>1, <2>1, MarkDeleteType
  <2>3. /\ b.phase = actor[r].phase /\ b.held = actor[r].held /\ b.saved = actor[r].saved
        /\ b.atOpen = actor[r].atOpen /\ b.onDisk = actor[r].onDisk \ {k}
        /\ b.compacting = actor[r].compacting /\ b.supercedes = actor[r].supercedes
        /\ b.putting = actor[r].putting /\ b.written = actor[r].written
        /\ b.awaited = actor[r].awaited /\ b.loaded = actor[r].loaded
        /\ b.run = actor[r].run
        /\ b.deleting = actor[r].deleting /\ b.deletions = actor[r].deletions
    BY <1>1 DEF MarkDeleteComplete, Actor
  <2> HIDE DEF b
  <2>4. Alone(b, V, Doomed, B, n)
    BY <1>1, <2>2, <2>3, EndAlone
  <2>5. GivenUp(b) = GivenUp(actor[r])
    BY <2>3 DEF GivenUp
  <2> QED BY <1>1, <2>1, <2>2, <2>3, <2>4, <2>5, Handles
<1>7. actor[r] # Absent /\ UNCHANGED <<disk, stale, fresh>>
  <2>1. Absent.run = "Down" /\ Absent.creating = {}
    BY DEF Absent
  <2>2. actor[r].run # "Down" \/ actor[r].creating # {}
    BY DEF Handler, CreateReturns, Terminate, ChangesArrive, LoadDone, PutDone, DeleteDone,
           Alive, Handling
  <2>3. UNCHANGED <<disk, stale, fresh>>
    BY DEF Handler, CreateReturns, Terminate, ChangesArrive, LoadDone, PutDone, DeleteDone
  <2> QED BY <2>1, <2>2, <2>3
<1> QED BY <1>2, <1>3, <1>4, <1>5, <1>6, <1>7 DEF Handler

(* A process that dies, or an actor that is new, leaves deletes behind     *)
(* that it had begun, and no others.                                       *)
LEMMA OpenAlone ==
    ASSUME OneRepo, TypeOK, NEW r \in Repo, NEW V \in SUBSET Chunk,
           NEW B \in SUBSET Change, NEW n \in Nat,
           Alone(actor[r], V, Doomed, B, n), Stored \subseteq Changes(V), Open(r)
    PROVE  Alone(actor'[r], V, Doomed', B, n) /\ actor'[r].held = {}
<1>1. /\ actor[r] \in Actor /\ Doomed \in SUBSET Key
      /\ \A k \in Key : stale[k] > 0 \/ k \in GivenUp(actor[r]) => k \in Doomed
  BY DoomedByOne DEF TypeOK
<1>2. /\ actor'[r] = NewActor({}) /\ stale' = [k \in Key |-> stale[k] + actor[r].deleting[k]]
  BY DEF Open, TypeOK
<1>3. Changes(disk) \in SUBSET Change /\ Changes(disk) \subseteq Changes(V)
  BY DEF TypeOK, Changes, Chunk, Stored
<1>4. Kept(V, Doomed, B, n)
  BY DEF Alone
<1>5. /\ Alone(NewActor({}), V, Doomed, B, n) /\ GivenUp(NewActor({})) = {}
      /\ NewActor({}).held = {}
  BY <1>1, <1>3, <1>4, NewAlone
<1>6. NewActor({}) \in Actor
  BY NewActorType DEF TypeOK
<1>7. ASSUME NEW k \in Key, stale'[k] > 0 PROVE k \in Doomed
  <2>1. stale[k] \in Nat /\ actor[r].deleting[k] \in Nat
    BY <1>1 DEF TypeOK, Actor
  <2>2. stale[k] > 0 \/ actor[r].deleting[k] > 0
    BY <1>2, <1>7, <2>1
  <2> QED BY <1>1, <2>2 DEF GivenUp
<1> QED BY <1>1, <1>2, <1>5, <1>6, <1>7, Becomes

LEMMA CreateAlone ==
    ASSUME OneRepo, TypeOK, NEW r \in Repo, NEW S \in SUBSET Change,
           NEW B \in SUBSET Change, NEW n \in Nat,
           Alone(actor[r], {}, Doomed, B, n), disk = {}, Create(r, S)
    PROVE  Alone(actor'[r], {}, Doomed', B, n) /\ actor'[r].held = S
<1>1. /\ actor[r] \in Actor /\ Doomed \in SUBSET Key
      /\ \A k \in Key : stale[k] > 0 \/ k \in GivenUp(actor[r]) => k \in Doomed
  BY DoomedByOne DEF TypeOK
<1>2. actor'[r] = NewActor(S) /\ stale' = stale
  BY DEF Create, TypeOK
<1>3. Changes(disk) \in SUBSET Change /\ Changes(disk) \subseteq Changes({})
  BY DEF Changes
<1>4. Kept({}, Doomed, B, n) /\ {} \in SUBSET Chunk
  BY DEF Alone
<1>5. /\ Alone(NewActor(S), {}, Doomed, B, n) /\ GivenUp(NewActor(S)) = {}
      /\ NewActor(S).held = S
  BY <1>1, <1>3, <1>4, NewAlone
<1>6. NewActor(S) \in Actor
  BY NewActorType DEF TypeOK
<1> QED BY <1>1, <1>2, <1>4, <1>5, <1>6, Becomes

LEMMA DeadAlone ==
    ASSUME OneRepo, TypeOK, NEW r \in Repo, NEW V \in SUBSET Chunk,
           NEW B \in SUBSET Change, NEW n \in Nat,
           Kept(V, Doomed, B, n), actor'[r] = Absent, stale' = stale
    PROVE  Alone(actor'[r], V, Doomed', B, n) /\ actor'[r].held = {}
<1>1. /\ Doomed \in SUBSET Key /\ Absent \in Actor
      /\ \A k \in Key : stale[k] > 0 => k \in Doomed
  BY DoomedByOne, AbsentType DEF TypeOK
<1>2. Alone(Absent, V, Doomed, B, n) /\ GivenUp(Absent) = {}
  BY <1>1, AbsentAlone
<1>3. Absent.held = {}
  BY DEF Absent
<1> QED BY <1>1, <1>2, <1>3, Becomes

(* Storage executes a delete, of an actor or of one that is gone.          *)
LEMMA DeleteAlone ==
    ASSUME OneRepo, TypeOK, NEW r \in Repo, NEW V \in SUBSET Chunk,
           NEW B \in SUBSET Change, NEW n \in Nat, NEW k \in Key,
           Alone(actor[r], V, Doomed, B, n), DeleteExecutes(r, k) \/ StaleDelete(k)
    PROVE  /\ Alone(actor'[r], Without(V, k), Doomed', B, n)
           /\ Changes(V) \subseteq Changes(Without(V, k)) \cup B
           /\ disk' = Without(disk, k) /\ fresh' = fresh
           /\ actor'[r].held = actor[r].held /\ k \in Doomed /\ Doomed' \subseteq Doomed
           /\ actor'[r].putting = actor[r].putting /\ actor'[r].phase = actor[r].phase
           /\ actor'[r].loaded = actor[r].loaded /\ actor'[r].run = actor[r].run
<1> DEFINE W == Without(V, k)
<1>1. /\ actor[r] \in Actor /\ Doomed \in SUBSET Key
      /\ \A key \in Key : stale[key] > 0 \/ key \in GivenUp(actor[r]) => key \in Doomed
  BY DoomedByOne DEF TypeOK
<1>2. disk' = Without(disk, k) /\ fresh' = fresh
  BY DEF DeleteExecutes, StaleDelete, Without
<1>3. k \in Doomed
  <2>1. StaleDelete(k) => stale[k] > 0
    BY DEF StaleDelete
  <2>2. DeleteExecutes(r, k) => k \in GivenUp(actor[r])
    BY DEF DeleteExecutes, GivenUp
  <2> QED BY <1>1, <2>1, <2>2
<1>4. Alone(actor[r], W, Doomed, B, n) /\ Changes(V) \subseteq Changes(W) \cup B
  BY <1>1, <1>3, RemovedAlone
<1>5. W \in SUBSET Chunk
  BY DEF Without
<1> HIDE DEF W
<1>6. CASE StaleDelete(k)
  <2>1. actor' = actor /\ stale' = [stale EXCEPT ![k] = @ - 1]
    BY <1>6 DEF StaleDelete
  <2>2. \A key \in Key : stale'[key] > 0 => stale[key] > 0
    BY <2>1 DEF TypeOK
  <2>3. actor'[r] \in Actor /\ Alone(actor'[r], W, Doomed, B, n)
        /\ GivenUp(actor'[r]) = GivenUp(actor[r])
    BY <1>1, <1>4, <2>1
  <2>4. Alone(actor'[r], W, Doomed', B, n)
    BY <1>1, <1>5, <2>2, <2>3, Becomes
  <2>5. Doomed' \subseteq Doomed
    BY <1>1, <2>2, <2>3, DoomedByOne
  <2> QED BY <1>2, <1>3, <1>4, <2>1, <2>4, <2>5 DEF W
<1>7. CASE DeleteExecutes(r, k)
  <2> DEFINE b == [actor[r] EXCEPT !.deleting[k] = @ - 1, !.deleted[k] = @ + 1]
  <2>1. actor'[r] = b /\ stale' = stale
    BY <1>7 DEF DeleteExecutes, TypeOK
  <2>2. /\ b.phase = actor[r].phase /\ b.held = actor[r].held /\ b.saved = actor[r].saved
        /\ b.atOpen = actor[r].atOpen /\ b.onDisk = actor[r].onDisk
        /\ b.compacting = actor[r].compacting /\ b.supercedes = actor[r].supercedes
        /\ b.putting = actor[r].putting /\ b.written = actor[r].written
        /\ b.awaited = actor[r].awaited /\ b.loaded = actor[r].loaded
        /\ b.run = actor[r].run /\ b.deletions = actor[r].deletions
        /\ b.deleting = [actor[r].deleting EXCEPT ![k] = @ - 1]
    BY <1>1 DEF Actor
  <2>3. actor[r].deleting[k] - 1 \in Nat /\ actor[r].deleted[k] + 1 \in Nat
        /\ actor[r].deleting \in [Key -> Nat]
    BY <1>1, <1>7 DEF DeleteExecutes, Actor
  <2>4. b \in Actor
    BY <1>1, <2>3 DEF Actor
  <2> HIDE DEF b
  <2>5. Alone(b, W, Doomed, B, n)
    BY <1>1, <1>4, <1>5, <2>2, <2>4, EndAlone
  <2>6. GivenUp(b) \subseteq GivenUp(actor[r])
    BY <2>2, <2>3 DEF GivenUp
  <2>7. Alone(actor'[r], W, Doomed', B, n)
    BY <1>1, <1>5, <2>1, <2>4, <2>5, <2>6, Becomes
  <2>8. Doomed' \subseteq Doomed
    BY <1>1, <2>1, <2>6, DoomedByOne
  <2> QED BY <1>2, <1>3, <1>4, <2>1, <2>2, <2>7, <2>8 DEF W
<1> QED BY <1>6, <1>7

LEMMA SoundRead ==
    ASSUME NEW ch \in Chunk, NEW h \in SUBSET Change, NEW B, NEW n,
           Sound(ch, B, n), ch.data \subseteq h
    PROVE  WithinOrTaken(ch.key, h, B, n)
<1>1. ch.key \in Key /\ ch.data \in SUBSET Change
  BY DEF Chunk
<1>2. CASE Whole(ch)
  <2>1. Within(ch.key, ch.data)
    BY <1>2, SaidBy
  <2>2. Within(ch.key, h)
    BY <1>1, <2>1, WithinGrows, Zenon
  <2> QED BY <2>2 DEF WithinOrTaken
<1> QED BY <1>2 DEF Sound, WithinOrTaken

LEMMA ReadRangeAlone ==
    ASSUME OneRepo, TypeOK, NEW r \in Repo, NEW kind,
           NEW B \in SUBSET Change, NEW n \in Nat,
           Alone(actor[r], disk, Doomed, B, n), ReadRange(r, kind)
    PROVE  /\ Alone(actor'[r], disk, Doomed', B, n) /\ actor'[r].held = actor[r].held
           /\ actor[r] # Absent /\ UNCHANGED <<disk, stale, fresh>>
<1> DEFINE b == [actor[r] EXCEPT !.awaited = @ \ {kind},
                                 !.loaded = @ \cup OfKind(disk, kind)]
           W == OfKind(disk, kind)
<1>1. /\ actor[r] \in Actor /\ Doomed \in SUBSET Key /\ disk \in SUBSET Chunk
      /\ \A k \in Key : stale[k] > 0 \/ k \in GivenUp(actor[r]) => k \in Doomed
  BY DoomedByOne DEF TypeOK
<1>2. actor'[r] = b /\ UNCHANGED <<disk, stale, fresh>> /\ kind \in actor[r].awaited
  BY DEF ReadRange, TypeOK
<1>3. W \in SUBSET Chunk /\ W \subseteq disk /\ \A ch \in disk : ch.key.kind = kind => ch \in W
  BY <1>1 DEF OfKind
<1>4. /\ b \in Actor
      /\ b.phase = actor[r].phase /\ b.held = actor[r].held /\ b.saved = actor[r].saved
      /\ b.atOpen = actor[r].atOpen /\ b.onDisk = actor[r].onDisk
      /\ b.compacting = actor[r].compacting /\ b.supercedes = actor[r].supercedes
      /\ b.putting = actor[r].putting /\ b.written = actor[r].written
      /\ b.run = actor[r].run
      /\ b.deleting = actor[r].deleting /\ b.deletions = actor[r].deletions
      /\ b.awaited = actor[r].awaited \ {kind} /\ b.loaded = actor[r].loaded \cup W
  BY <1>1, <1>3 DEF Actor
<1> HIDE DEF b, W
<1>5. actor[r].run # "Down" /\ actor[r] # Absent
  <2>1. Absent.awaited = {}
    BY DEF Absent
  <2>2. actor[r].awaited # {}
    BY <1>2
  <2> QED BY <2>1, <2>2 DEF Alone, Informed
<1>6. actor[r].phase = "Ready" => Changes(W) \subseteq actor[r].held
  BY <1>3 DEF Alone, Agrees, Changes
<1>7. ASSUME NEW ch \in W PROVE WithinOrTaken(ch.key, b.held \cup Changes(b.loaded), B, n)
  <2> DEFINE h == b.held \cup Changes(b.loaded)
  <2>1. h \in SUBSET Change
    BY <1>4 DEF Actor, Changes, Chunk
  <2>2. ch \in Chunk /\ Sound(ch, B, n) /\ ch.data \subseteq h
    BY <1>3, <1>4 DEF Alone, Kept, Changes
  <2> HIDE DEF h
  <2>3. WithinOrTaken(ch.key, h, B, n)
    BY <2>1, <2>2, SoundRead
  <2> QED BY <2>3 DEF h
<1>8. \A ch \in disk : ch.key.kind \in actor[r].awaited =>
        ch.key.kind \in b.awaited \/ ch \in b.loaded \/ actor[r].phase = "Ready"
  BY <1>3, <1>4
<1>9. b.awaited \subseteq actor[r].awaited
  BY <1>4
<1>10. Alone(b, disk, Doomed, B, n)
  BY <1>1, <1>3, <1>4, <1>5, <1>6, <1>7, <1>8, <1>9, ReadAlone
<1>11. GivenUp(b) = GivenUp(actor[r])
  BY <1>4 DEF GivenUp
<1>12. Alone(actor'[r], disk, Doomed', B, n)
  BY <1>1, <1>2, <1>4, <1>10, <1>11, Becomes
<1> QED BY <1>2, <1>4, <1>5, <1>12

LEMMA PutExecutesAlone ==
    ASSUME OneRepo, TypeOK, NEW r \in Repo, NEW ch \in actor[r].putting,
           NEW B \in SUBSET Change, NEW n \in Nat,
           Alone(actor[r], disk, Doomed, B, n), PutExecutes(r, ch),
           MayStay(ch, Doomed, B, n)
    PROVE  /\ Alone(actor'[r], disk', Doomed', B, n) /\ Stored' = Stored \cup ch.data
           /\ ch.data \subseteq actor[r].held /\ actor'[r].held = actor[r].held
           /\ actor[r] # Absent /\ fresh' = fresh
<1> DEFINE b == [actor[r] EXCEPT !.putting = @ \ {ch}, !.written = @ \cup {ch}]
           W == With(disk, ch)
<1>1. /\ actor[r] \in Actor /\ Doomed \in SUBSET Key /\ disk \in SUBSET Chunk
      /\ \A k \in Key : stale[k] > 0 \/ k \in GivenUp(actor[r]) => k \in Doomed
  BY DoomedByOne DEF TypeOK
<1>2. actor'[r] = b /\ disk' = W /\ UNCHANGED <<stale, fresh>>
  BY DEF PutExecutes, TypeOK, With
<1>3. ch \in Chunk /\ W \in SUBSET Chunk /\ ch \in W
  BY <1>1 DEF Actor, With
<1>4. /\ b \in Actor
      /\ b.phase = actor[r].phase /\ b.held = actor[r].held /\ b.saved = actor[r].saved
      /\ b.atOpen = actor[r].atOpen /\ b.onDisk = actor[r].onDisk
      /\ b.compacting = actor[r].compacting /\ b.supercedes = actor[r].supercedes
      /\ b.awaited = actor[r].awaited /\ b.loaded = actor[r].loaded
      /\ b.run = actor[r].run
      /\ b.deleting = actor[r].deleting /\ b.deletions = actor[r].deletions
      /\ b.putting = actor[r].putting \ {ch} /\ b.written = actor[r].written \cup {ch}
  BY <1>1, <1>3 DEF Actor
<1> HIDE DEF b
<1>5. /\ Alone(actor[r], W, Doomed, B, n) /\ Changes(W) = Changes(disk) \cup ch.data
      /\ ch.data \subseteq actor[r].held
      /\ IsSnapshot(ch) => Backed(ch.data, W, Doomed, B, n)
  BY <1>1, PutAlone
<1> HIDE DEF W
<1>6. ch.data \subseteq Changes(W) \cup B
  BY <1>5
<1>7. Alone(b, W, Doomed, B, n)
  BY <1>1, <1>3, <1>4, <1>5, <1>6, ExecutedAlone
<1>8. GivenUp(b) = GivenUp(actor[r])
  BY <1>4 DEF GivenUp
<1>9. Alone(actor'[r], W, Doomed', B, n)
  BY <1>1, <1>2, <1>3, <1>4, <1>7, <1>8, Becomes
<1>10. Absent.putting = {}
  BY DEF Absent
<1> QED BY <1>2, <1>4, <1>5, <1>9, <1>10 DEF Stored

----------------------------------------------------------------------------
(* One repo, whatever the changes depend on: the theorems.                 *)

AloneInv ==
    /\ TypeOK
    /\ \A r \in Repo : Alone(actor[r], disk, Doomed, {}, 0)
    /\ fresh => disk = {} /\ \A r \in Repo : actor[r] = Absent

(* Every step keeps the invariant, is one of the abstract store's, and a   *)
(* load that completes has found what it should.                           *)
LEMMA AloneStep ==
    ASSUME OneRepo, AloneInv, [Next]_vars
    PROVE  /\ AloneInv' /\ [Store!Next]_(Store!vars)
           /\ \A r \in Repo, S \in SUBSET Change :
                LoadDone(r, S) => actor[r].atOpen \subseteq actor'[r].held
<1>0. TypeOK /\ TypeOK'
  BY TypeStep DEF AloneInv
<1>1. PICK r \in Repo : \A q \in Repo : q = r
  BY DEF OneRepo
<1>2. /\ actor[r] \in Actor /\ Alone(actor[r], disk, Doomed, {}, 0) /\ disk \in SUBSET Chunk
      /\ {} \in SUBSET Change /\ 0 \in Nat /\ Doomed \in SUBSET Key
  BY <1>0 DEF AloneInv, TypeOK, Doomed
<1>3. /\ actor'[r].held \in SUBSET Change /\ actor[r].held \in SUBSET Change
      /\ Stored \in SUBSET Change
  BY <1>0 DEF TypeOK, Actor, Stored, Changes, Chunk
<1> DEFINE Goal == AloneInv' /\ [Store!Next]_(Store!vars)
           FreshStays == fresh' => disk' = {} /\ actor'[r] = Absent
<1>4. ASSUME Alone(actor'[r], disk', Doomed', {}, 0), FreshStays PROVE AloneInv'
  BY <1>0, <1>1, <1>4 DEF AloneInv
<1>5. ASSUME actor'[r].held = actor[r].held \cup actor'[r].held, Stored' = Stored
      PROVE  [Store!Next]_(Store!vars)
  <2>1. \A q \in Repo : Held(q)' = IF q = r THEN Held(r) \cup actor'[r].held ELSE Held(q)
    BY <1>1, <1>5 DEF Held
  <2> QED BY <1>0, <1>3, <1>5, <2>1, StoreLearns
<1>6. ASSUME actor'[r].held = {}, Stored' = Stored PROVE [Store!Next]_(Store!vars)
  <2>1. \A q \in Repo : Held(q)' = IF q = r THEN {} ELSE Held(q)
    BY <1>1, <1>6 DEF Held
  <2> QED BY <1>0, <1>6, <2>1, StoreForgets
<1>7. ASSUME disk' = disk PROVE Stored' = Stored
  BY <1>7 DEF Stored
<1>8. \A q \in Repo, S \in SUBSET Change :
        LoadDone(q, S) => actor[q].atOpen \subseteq actor'[q].held
  <2>1. ASSUME NEW S \in SUBSET Change, LoadDone(r, S)
        PROVE  actor[r].atOpen \subseteq actor'[r].held
    <3>1. Handler(r)
      BY <2>1 DEF Handler
    <3>2. actor[r].atOpen \subseteq actor'[r].held \cup {}
      BY <1>0, <1>2, <2>1, <3>1, HandlerAlone
    <3> QED BY <3>2
  <2> QED BY <1>1, <2>1
<1>9. ASSUME Handler(r) PROVE Goal
  <2>1. /\ Alone(actor'[r], disk, Doomed', {}, 0) /\ actor[r].held \subseteq actor'[r].held
        /\ actor[r] # Absent /\ disk' = disk /\ fresh' = fresh
    BY <1>0, <1>2, <1>9, HandlerAlone
  <2>2. FreshStays
    BY <1>1, <2>1 DEF AloneInv
  <2>3. AloneInv'
    BY <1>4, <2>1, <2>2
  <2> QED BY <1>5, <1>7, <2>1, <2>3
<1>10. ASSUME NEW S \in SUBSET Change, Create(r, S) PROVE Goal
  <2>1. fresh /\ disk' = disk /\ fresh' = FALSE
    BY <1>10 DEF Create
  <2>2. disk = {} /\ actor[r] = Absent
    BY <2>1 DEF AloneInv
  <2>3. Alone(actor'[r], {}, Doomed', {}, 0) /\ actor'[r].held = S
    BY <1>0, <1>2, <1>10, <2>2, CreateAlone
  <2>4. actor[r].held = {}
    BY <2>2 DEF Absent
  <2>5. AloneInv'
    BY <1>4, <2>1, <2>2, <2>3
  <2> QED BY <1>5, <1>7, <2>1, <2>3, <2>4, <2>5
<1>11. ASSUME Open(r) PROVE Goal
  <2>1. disk' = disk /\ fresh' = FALSE /\ Stored \subseteq Changes(disk)
    BY <1>11 DEF Open, Stored
  <2>2. Alone(actor'[r], disk, Doomed', {}, 0) /\ actor'[r].held = {}
    BY <1>0, <1>2, <1>11, <2>1, OpenAlone
  <2>3. AloneInv'
    BY <1>4, <2>1, <2>2
  <2> QED BY <1>6, <1>7, <2>1, <2>2, <2>3
<1>12. ASSUME Crash(r) PROVE Goal
  <2>1. actor'[r] = Absent /\ disk' = disk /\ stale' = stale /\ fresh' = fresh
    BY <1>0, <1>12 DEF Crash, TypeOK
  <2>2. Kept(disk, Doomed, {}, 0)
    BY <1>2 DEF Alone
  <2>3. Alone(actor'[r], disk, Doomed', {}, 0) /\ actor'[r].held = {}
    BY <1>0, <1>2, <2>1, <2>2, DeadAlone
  <2>4. FreshStays
    BY <2>1 DEF AloneInv
  <2>5. AloneInv'
    BY <1>4, <2>1, <2>3, <2>4
  <2> QED BY <1>6, <1>7, <2>1, <2>3, <2>5
<1>13. ASSUME NEW kind, ReadRange(r, kind) PROVE Goal
  <2>1. /\ Alone(actor'[r], disk, Doomed', {}, 0) /\ actor'[r].held = actor[r].held
        /\ actor[r] # Absent /\ disk' = disk /\ fresh' = fresh
    BY <1>0, <1>2, <1>13, ReadRangeAlone
  <2>2. FreshStays
    BY <2>1 DEF AloneInv
  <2>3. AloneInv'
    BY <1>4, <2>1, <2>2
  <2> QED BY <1>5, <1>7, <2>1, <2>3
<1>14. ASSUME NEW ch \in actor[r].putting, PutExecutes(r, ch) PROVE Goal
  <2>1. MayStay(ch, Doomed, {}, 0)
    BY <1>2 DEF Alone, Agrees, MayStay
  <2>2. /\ Alone(actor'[r], disk', Doomed', {}, 0) /\ Stored' = Stored \cup ch.data
        /\ ch.data \subseteq actor[r].held /\ actor'[r].held = actor[r].held
        /\ actor[r] # Absent /\ fresh' = fresh
    BY <1>0, <1>2, <1>14, <2>1, PutExecutesAlone
  <2>3. FreshStays
    BY <2>2 DEF AloneInv
  <2>4. AloneInv'
    BY <1>4, <2>2, <2>3
  <2>5. ch.data \in SUBSET Held(r) /\ \A q \in Repo : Held(q)' = Held(q)
    BY <1>1, <2>2 DEF Held
  <2>6. Store!Next
    BY <1>0, <2>2, <2>5, StorePersists
  <2> QED BY <2>4, <2>6
<1>15. ASSUME NEW k \in Key, DeleteExecutes(r, k) \/ StaleDelete(k) PROVE Goal
  <2> DEFINE W == Without(disk, k)
  <2>1. /\ Alone(actor'[r], W, Doomed', {}, 0) /\ Changes(disk) \subseteq Changes(W) \cup {}
        /\ disk' = W /\ fresh' = fresh /\ actor'[r].held = actor[r].held
    BY <1>0, <1>2, <1>15, DeleteAlone
  <2>2. Stored' = Stored
    <3>1. Changes(W) \subseteq Changes(disk)
      BY DEF Changes, Without
    <3> QED BY <2>1, <3>1 DEF Stored
  <2>3. FreshStays
    <3>1. Absent.deleting = NoDeletes
      BY DEF Absent
    <3>2. DeleteExecutes(r, k) => actor[r] # Absent
      BY <3>1 DEF DeleteExecutes, NoDeletes
    <3>3. StaleDelete(k) => actor' = actor
      BY DEF StaleDelete
    <3>4. fresh' => disk = {} /\ actor[r] = Absent
      BY <2>1 DEF AloneInv
    <3>5. disk = {} => W = {}
      BY DEF Without
    <3> QED BY <1>15, <2>1, <3>2, <3>3, <3>4, <3>5
  <2>4. AloneInv'
    BY <1>4, <2>1, <2>3
  <2> QED BY <1>5, <2>1, <2>2, <2>4
<1>16. ASSUME UNCHANGED vars PROVE Goal
  <2>1. AloneInv'
    BY <1>0, <1>16 DEF vars, AloneInv, Doomed
  <2>2. actor'[r].held = actor[r].held /\ disk' = disk
    BY <1>16 DEF vars
  <2> QED BY <1>5, <1>7, <2>1, <2>2
<1>17. ASSUME NEW q \in Repo, StorageStep(q) PROVE Goal
  <2>1. q = r
    BY <1>1
  <2>2. \/ Handler(r)
        \/ \E kind \in {"incremental", "snapshot"} : ReadRange(r, kind)
        \/ \E ch \in actor[r].putting : PutExecutes(r, ch)
        \/ \E k \in Key : DeleteExecutes(r, k)
    BY <1>17, <2>1 DEF StorageStep, Handler
  <2> QED BY <1>9, <1>13, <1>14, <1>15, <2>2
<1>18. ASSUME NEW q \in Repo, CreateReturns(q) \/ Open(q) \/ Terminate(q) \/ Crash(q) PROVE Goal
  <2>1. q = r
    BY <1>1
  <2>2. Handler(r) \/ Open(r) \/ Crash(r)
    BY <1>18, <2>1 DEF Handler
  <2> QED BY <1>9, <1>11, <1>12, <2>2
<1>19. ASSUME NEW q \in Repo, NEW S \in SUBSET Change, Create(q, S) \/ ChangesArrive(q, S)
       PROVE  Goal
  <2>1. q = r
    BY <1>1
  <2>2. Create(r, S) \/ Handler(r)
    BY <1>19, <2>1 DEF Handler
  <2> QED BY <1>9, <1>10, <2>2
<1> QED BY <1>8, <1>15, <1>16, <1>17, <1>18, <1>19 DEF Next

LEMMA AloneAtFirst == ASSUME OneRepo, Init PROVE AloneInv /\ Store!Init
<1>1. /\ disk = {} /\ stale = NoDeletes /\ Absent \in Actor
      /\ \A r \in Repo : actor[r] = Absent
  BY AbsentType DEF Init
<1>2. GivenUp(Absent) = {} /\ Absent.held = {}
  BY DEF GivenUp, Absent, NoDeletes
<1>3. TypeOK
  BY <1>1, ChunkTypes DEF Init, TypeOK
<1>4. Doomed = {}
  BY <1>1, <1>2 DEF Doomed, NoDeletes
<1>5. Kept({}, {}, {}, 0)
  BY DEF Kept
<1>6. Alone(Absent, {}, {}, {}, 0)
  BY <1>5, AbsentAlone
<1>7. Store!Init
  BY <1>1, <1>2 DEF Store!Init, Stored, Changes
<1> QED BY <1>1, <1>3, <1>4, <1>6, <1>7 DEF AloneInv

(* A repo that has the storage to itself implements the abstract store,    *)
(* whatever its changes depend on, however often it crashes, reopens and   *)
(* compacts (storage.rs:19-25).                                            *)
THEOREM OneRepoStorageSafe == ASSUME OneRepo PROVE Spec => StoreSpec
<1>1. Init => AloneInv /\ Store!Init
  BY AloneAtFirst
<1>2. AloneInv /\ [Next]_vars => AloneInv' /\ [Store!Next]_(Store!vars)
  BY AloneStep
<1> QED BY <1>1, <1>2, PTL DEF Spec, StoreSpec, Store!Spec

LEMMA AloneAlways == ASSUME OneRepo PROVE Spec => []AloneInv
<1>1. Init => AloneInv
  BY AloneAtFirst
<1>2. AloneInv /\ [Next]_vars => AloneInv'
  BY AloneStep
<1> QED BY <1>1, <1>2, PTL DEF Spec

(* What it believes it has saved is in storage, or in a put that storage   *)
(* has yet to execute (on_disk_state.rs:89).                               *)
THEOREM OneRepoSavedIsSafe == ASSUME OneRepo PROVE Spec => []SavedIsSafe
<1>1. AloneInv => SavedIsSafe
  BY DEF AloneInv, Alone, Agrees, SavedIsSafe, Stored
<1> QED BY <1>1, AloneAlways, PTL

(* When it has stopped, storage gives its document back, with all that its *)
(* changes depend on (lib.rs:461-462).                                     *)
THEOREM OneRepoFlushed == ASSUME OneRepo PROVE Spec => []FlushedWhenStopped
<1>1. ASSUME AloneInv PROVE FlushedWhenStopped
  <2> SUFFICES ASSUME NEW r \in Repo, actor[r].run = "Stopped"
               PROVE  actor[r].saved \subseteq Doc(Stored)
    BY DEF FlushedWhenStopped
  <2>1. actor[r].saved \in SUBSET Change
    BY <1>1 DEF AloneInv, TypeOK, Actor
  <2>2. /\ actor[r].saved \subseteq Stored \cup Changes(actor[r].putting)
        /\ Tasks(actor[r]) = {} /\ \A c \in actor[r].saved : Before[c] \subseteq actor[r].saved
    BY <1>1 DEF AloneInv, Alone, Agrees, Informed, Stored
  <2>3. Changes(actor[r].putting) = {}
    BY <2>2 DEF Tasks, Changes
  <2> QED BY <2>1, <2>2, <2>3 DEF Doc
<1> QED BY <1>1, AloneAlways, PTL

(* A load that completes has found every change that was in storage when   *)
(* the document was opened, while deletes that the repo left behind, or    *)
(* has begun since, were in progress (document_actor.rs:400-408).          *)
THEOREM OneRepoLoadFindsAll == ASSUME OneRepo PROVE Spec => LoadFindsAll
<1>1. AloneInv /\ [Next]_vars =>
        [\A r \in Repo, S \in SUBSET Change :
           LoadDone(r, S) => actor[r].atOpen \subseteq actor'[r].held]_vars
  BY AloneStep
<1> QED BY <1>1, AloneAlways, PTL DEF Spec, LoadFindsAll

----------------------------------------------------------------------------
(* Files: the back ends, the id, crashes and faults of the storage.        *)

USE FilesAssumption DEF FilesAssumption

----------------------------------------------------------------------------
(* The id.                                                                 *)

LoaderStates ==
  {"Down", "LoadingStorageId", "PuttingStorageId", "WritingStorageId", "Done"}
Writes(r) == loader[r] \in {"PuttingStorageId", "WritingStorageId"}

(* The id that a hub has been given is the id in the file, and as long as  *)
(* there is an id that waits to be written, no hub has been given any.     *)
IdInv ==
  /\ loader \in [Repo -> LoaderStates] /\ unsaved \in Nat
  /\ id \in [Repo -> 0 .. MaxIds \cup {NoFile}]
  /\ \A r \in Repo : Writes(r) => id[r] # NoFile
  /\ \/ unsaved > 0
     \/ /\ used \subseteq {idFile} /\ NoFile \notin used
        /\ \A r \in Repo : Writes(r) => used = {}

LEMMA IdInit ==
  ASSUME FilesInit
  PROVE  IdInv
BY DEF FilesInit, L!LoaderInit, IdInv, LoaderStates, Writes

(* A repo boots.                                                           *)
LEMMA LoaderActs ==
  ASSUME OneRepo, IdInv, idFile \in 0 .. MaxIds \cup {NoFile}, NEW r \in Repo,
         L!Begin(r) \/ L!LoaderStep(r)
  PROVE  IdInv' /\ idFile' \in 0 .. MaxIds \cup {NoFile}
<1>0. /\ loader \in [Repo -> LoaderStates] /\ unsaved \in Nat
      /\ id \in [Repo -> 0 .. MaxIds \cup {NoFile}]
      /\ \A s \in Repo : s = r
  BY DEF IdInv, OneRepo
<1>1. CASE L!Begin(r)
  BY <1>0, <1>1 DEF L!Begin, IdInv, LoaderStates, Writes
<1>2. CASE L!IdLoaded(r)
  <2>1. /\ idFile # NoFile /\ loader' = [loader EXCEPT ![r] = "Done"] /\ id' = [id EXCEPT ![r] = idFile]
        /\ used' = used \cup {idFile} /\ UNCHANGED <<idFile, unsaved>>
    BY <1>2 DEF L!IdLoaded, L!Done, L!Load
  <2>2. /\ loader' \in [Repo -> LoaderStates] /\ id' \in [Repo -> 0 .. MaxIds \cup {NoFile}]
        /\ ~Writes(r)'
    BY <1>0, <2>1 DEF LoaderStates, Writes
  <2>3. QED
    BY <1>0, <2>1, <2>2 DEF IdInv
<1>3. CASE L!NewId(r)
  <2> DEFINE new == CHOOSE i \in L!Unused : TRUE
  <2>1. /\ idFile = NoFile /\ L!Unused # {} /\ id' = [id EXCEPT ![r] = new]
        /\ loader' = [loader EXCEPT ![r] = "PuttingStorageId"] /\ UNCHANGED <<idFile, used, unsaved>>
    BY <1>3 DEF L!NewId, L!Load
  <2>2. new \in 0 .. MaxIds /\ new # NoFile
    <3>1. new \in L!Unused
      BY <2>1
    <3>2. QED
      BY <3>1 DEF L!Unused, L!Id
  <2> HIDE DEF new
  <2>3. /\ loader' \in [Repo -> LoaderStates] /\ id' \in [Repo -> 0 .. MaxIds \cup {NoFile}]
        /\ id'[r] # NoFile
    BY <1>0, <2>1, <2>2 DEF LoaderStates
  <2>4. unsaved > 0 \/ used = {}
    BY <2>1 DEF IdInv
  <2>5. QED
    BY <1>0, <2>1, <2>3, <2>4 DEF IdInv
<1>4. CASE L!TruncateId(r)
  <2>1. /\ loader[r] = "PuttingStorageId" /\ loader' = [loader EXCEPT ![r] = "WritingStorageId"]
        /\ idFile' = 0 /\ UNCHANGED <<id, used, unsaved>>
    BY <1>4 DEF L!TruncateId, L!CutShort
  <2>2. loader' \in [Repo -> LoaderStates] /\ Writes(r)
    BY <1>0, <2>1 DEF LoaderStates, Writes
  <2>3. id[r] # NoFile /\ (unsaved > 0 \/ used = {})
    BY <2>2 DEF IdInv
  <2>4. QED
    BY <1>0, <2>1, <2>2, <2>3 DEF IdInv
<1>5. CASE L!PutId(r)
  <2>1. /\ Writes(r) /\ idFile' = id[r] /\ loader' = [loader EXCEPT ![r] = "Done"]
        /\ id' = [id EXCEPT ![r] = id[r]] /\ used' = used \cup {id[r]} /\ unsaved' = unsaved
    BY <1>5 DEF L!PutId, L!ReadyToWrite, L!Written, L!Done, Writes
  <2>2. id[r] # NoFile /\ (unsaved > 0 \/ used = {})
    BY <2>1 DEF IdInv
  <2>3. loader' \in [Repo -> LoaderStates] /\ ~Writes(r)' /\ id' = id
    BY <1>0, <2>1 DEF LoaderStates, Writes
  <2>4. QED
    BY <1>0, <2>1, <2>2, <2>3 DEF IdInv
<1>6. CASE L!PutIdFails(r)
  <2>1. /\ Writes(r) /\ loader' = [loader EXCEPT ![r] = "Done"] /\ id' = [id EXCEPT ![r] = id[r]]
        /\ unsaved' = unsaved + 1 /\ idFile' = idFile
    BY <1>6 DEF L!PutIdFails, L!Done, Writes
  <2>2. loader' \in [Repo -> LoaderStates] /\ ~Writes(r)' /\ id' = id /\ unsaved' \in Nat /\ unsaved' > 0
    BY <1>0, <2>1 DEF LoaderStates, Writes
  <2>3. QED
    BY <1>0, <2>1, <2>2 DEF IdInv
<1>7. QED
  BY <1>1, <1>2, <1>3, <1>4, <1>5, <1>6 DEF L!LoaderStep

(* A repo ends, in any way.                                                *)
LEMMA LoaderEnds ==
  ASSUME OneRepo, IdInv, NEW r \in Repo, L!LoaderGone(r)
  PROVE  IdInv' /\ idFile' = idFile
<1>0. /\ loader \in [Repo -> LoaderStates] /\ unsaved \in Nat
      /\ id \in [Repo -> 0 .. MaxIds \cup {NoFile}]
      /\ \A s \in Repo : s = r
  BY DEF IdInv, OneRepo
<1>1. /\ loader' = [loader EXCEPT ![r] = "Down"] /\ id' = [id EXCEPT ![r] = NoFile]
      /\ UNCHANGED <<idFile, used, unsaved>>
  BY DEF L!LoaderGone
<1>2. /\ loader' \in [Repo -> LoaderStates] /\ id' \in [Repo -> 0 .. MaxIds \cup {NoFile}]
      /\ ~Writes(r)'
  BY <1>0, <1>1 DEF LoaderStates, Writes
<1>3. QED
  BY <1>0, <1>1, <1>2 DEF IdInv

(* Every other step leaves the id alone.                                   *)
LEMMA OnlyLoader ==
  ASSUME [FilesNext]_allVars
  PROVE  \/ UNCHANGED idVars
         \/ \E r \in Repo : L!Begin(r) \/ L!LoaderStep(r)
         \/ \E r \in Repo : L!LoaderGone(r)
<1>1. CASE UNCHANGED allVars
  BY <1>1 DEF allVars, fileVars
<1>2. CASE FilesNext
  <2>1. ASSUME NEW r \in Repo, LoaderRuns(r) PROVE L!Begin(r) \/ L!LoaderStep(r)
    BY <2>1 DEF LoaderRuns
  <2>2. ASSUME NEW r \in Repo, ActorActs(r) \/ OpenDocument(r) PROVE UNCHANGED idVars
    BY <2>2 DEF ActorActs, OpenDocument, fileVars
  <2>3. ASSUME NEW r \in Repo, StopRepo(r) \/ Die(r) PROVE L!LoaderGone(r)
    BY <2>3 DEF StopRepo, Die
  <2>4. ASSUME NEW r \in Repo, FileStep(r) PROVE UNCHANGED idVars
    BY <2>4 DEF FileStep, PutTruncates, PutFills, PutReplaces, PutFails, Unchanged,
                RangeRead, WalkBegins, WalkEnds, WalkReads, RestOfLoad, Complete, fileVars
  <2>5. ASSUME NEW k \in Key, Remove(k) PROVE UNCHANGED idVars
    BY <2>5 DEF Remove
  <2>6. QED
    BY <1>2, <2>1, <2>2, <2>3, <2>4, <2>5 DEF FilesNext
<1>3. QED
  BY <1>1, <1>2

LEMMA IdInvariance ==
  ASSUME OneRepo
  PROVE  FilesSpec => [](IdInv /\ idFile \in 0 .. MaxIds \cup {NoFile})
<1> DEFINE Inv == IdInv /\ idFile \in 0 .. MaxIds \cup {NoFile}
<1>1. FilesInit => Inv
  BY IdInit DEF FilesInit, L!LoaderInit
<1>2. Inv /\ [FilesNext]_allVars => Inv'
  <2> SUFFICES ASSUME Inv, [FilesNext]_allVars PROVE Inv'
    OBVIOUS
  <2>1. CASE UNCHANGED idVars
    BY <2>1 DEF idVars, IdInv, Writes
  <2>2. CASE \E r \in Repo : L!Begin(r) \/ L!LoaderStep(r)
    BY <2>2, LoaderActs
  <2>3. CASE \E r \in Repo : L!LoaderGone(r)
    BY <2>3, LoaderEnds
  <2>4. QED
    BY <2>1, <2>2, <2>3, OnlyLoader
<1>3. QED
  BY <1>1, <1>2, PTL DEF FilesSpec

(* A repo finds on every boot the id under which it ran before, however it *)
(* ended, be it in the middle of writing the id, unless a put of the id    *)
(* failed (loader.rs:105-141), for any documents, back end and bounds.     *)
THEOREM TheIdIsKept == OneRepo => (FilesSpec => []IdKept)
<1>1. ASSUME OneRepo PROVE FilesSpec => []IdKept
  <2>1. IdInv => IdKept
    BY DEF IdInv, IdKept, L!IdKept
  <2>2. QED
    BY <1>1, <2>1, IdInvariance, PTL
<1>2. QED
  BY <1>1

HIDE FilesAssumption DEF FilesAssumption

----------------------------------------------------------------------------
(* The changes.  A file that is being rewritten counts as filled, as long  *)
(* as it is there.                                                         *)

Filled(chunks, puts) ==
    {ch \in chunks : \A w \in puts : w.chunk.key # ch.key}
    \cup {w.chunk : w \in {v \in puts : \E ch \in chunks : ch.key = v.chunk.key}}
Virtual == Filled(disk, writing)
Faults == IF failures = 0 /\ cuts = 0 THEN 0 ELSE 1

FilesType ==
    /\ TypeOK
    /\ writing \subseteq [repo : Repo, chunk : Chunk] /\ IsFiniteSet(writing)
    /\ blamed \subseteq Change /\ failures \in Nat /\ cuts \in Nat
    /\ walk \in [Repo -> [Kinds -> [open : BOOLEAN, due : SUBSET Key, read : SUBSET Key]]]

(* A put whose file is not filled yet: what it holds is not missing, should *)
(* the file be filled in vain.                                             *)
Fills(w) ==
    /\ w.chunk \in actor[w.repo].putting
    /\ w.chunk.data \subseteq Changes(Virtual) \cup blamed
    /\ IsSnapshot(w.chunk) => Backed(w.chunk.data, Virtual, Doomed, blamed, Faults)
    /\ \A ch \in disk : ch.key = w.chunk.key => ch.data = {}

(* A walk whose results the document waits for misses no file that stays.  *)
Walks(r, kind) ==
    walk[r][kind].open =>
      /\ actor[r].run # "Down"
      /\ actor[r].phase = "Loading" =>
           \A ch \in disk : ch.key.kind = kind =>
             /\ ch.key \in walk[r][kind].due
             /\ ch.key \in walk[r][kind].read => ch \in actor[r].loaded

Distinct(chunks) == \A x, y \in chunks : x.key = y.key => x = y

FilesInv ==
    /\ FilesType
    /\ \A r \in Repo : Alone(actor[r], Virtual, Doomed, blamed, Faults)
    /\ fresh => disk = {} /\ \A r \in Repo : actor[r] = Absent
    /\ backend # "tokio" => writing = {}
    /\ \A w \in writing : Fills(w)
    /\ Distinct(disk)
    /\ \A r \in Repo, kind \in Kinds : Walks(r, kind)
    /\ durable \subseteq Changes(Virtual) \cup blamed

LEMMA BackedMore ==
    ASSUME NEW h, NEW V, NEW D, NEW E, E \subseteq D, NEW B, NEW C, B \subseteq C,
           NEW n \in Nat, NEW m \in Nat, n # 0 => m # 0, Backed(h, V, D, B, n)
    PROVE  Backed(h, V, E, C, m)
  BY DEF Backed, Keeps

(* Chunks that are found cut short.                                        *)
LEMMA CutAlone ==
    ASSUME NEW V \in SUBSET Chunk, NEW W \in SUBSET Chunk, NEW D \in SUBSET Key,
           NEW B \in SUBSET Change, NEW n \in Nat,
           \A x \in W : x \in V \/ (n # 0 /\ \E ch \in V : x = CutShort(ch) /\ ch.data \subseteq B),
           \A x \in V : x \in W \/ (n # 0 /\ x.data \subseteq B)
    PROVE  /\ Changes(V) \subseteq Changes(W) \cup B
           /\ \A h : Backed(h, V, D, B, n) => Backed(h, W, D, B, n)
           /\ Kept(V, D, B, n) => Kept(W, D, B, n)
           /\ \A a \in Actor : Alone(a, V, D, B, n) /\ a.phase = "Ready" => Alone(a, W, D, B, n)
<1>1. \A ch : CutShort(ch).key = ch.key /\ CutShort(ch).data = {}
  BY DEF CutShort
<1>2. \A x \in W : x \in V \/ x.data = {}
  BY <1>1
<1>3. Changes(V) \subseteq Changes(W) \cup B /\ Changes(W) \subseteq Changes(V)
  BY <1>2 DEF Changes
<1>4. \A h : Backed(h, V, D, B, n) => Backed(h, W, D, B, n)
  BY DEF Backed, Keeps
<1>5. ASSUME Kept(V, D, B, n) PROVE Kept(W, D, B, n)
  <2>1. ASSUME NEW x \in W, x \notin V PROVE Sound(x, B, n)
    <3>1. PICK ch \in V : x = CutShort(ch) /\ ch.data \subseteq B /\ n # 0
      BY <2>1
    <3>2. Sound(ch, B, n) /\ x.key = ch.key /\ x.data = {}
      BY <1>1, <1>5, <3>1 DEF Kept
    <3>3. ch.key.of \subseteq B
      BY <3>1, <3>2 DEF Sound, Whole, Doc
    <3> QED BY <3>1, <3>2, <3>3 DEF Sound
  <2>2. ASSUME NEW k \in D PROVE Covered(k, W, D, B, n)
    <3>1. PICK h \in SUBSET Change :
            /\ Backed(h, V, D, B, n) /\ WithinOrTaken(k, h, B, n)
            /\ \A ch \in V : ch.key = k => ch.data \subseteq h \cup B
      BY <1>5 DEF Kept, Covered
    <3>2. \A ch \in W : ch.key = k => ch.data \subseteq h \cup B
      BY <1>2, <3>1
    <3> QED BY <1>4, <3>1, <3>2 DEF Covered
  <2> QED BY <1>5, <2>1, <2>2 DEF Kept
<1>6. ASSUME NEW a \in Actor, Alone(a, V, D, B, n), a.phase = "Ready"
      PROVE  Alone(a, W, D, B, n)
  <2>1. ASSUME NEW s \in Tasks(a), IsSnapshot(s), NEW x \in W, IsSnapshot(x)
        PROVE  x.data \subseteq s.data
    BY <1>2, <1>6, <2>1 DEF Alone, Agrees
  <2>2. Agrees(a, W, D, B, n)
    BY <1>3, <1>4, <1>6, <2>1 DEF Alone, Agrees
  <2> QED BY <1>5, <1>6, <2>2 DEF Alone
<1> QED BY <1>3, <1>4, <1>5, <1>6

(* Two puts at a time have different keys.                                 *)
LEMMA SameTask ==
    ASSUME NEW a \in Actor, NEW B, NEW n, Informed(a, B, n),
           NEW s \in Tasks(a), NEW t \in Tasks(a), s.key = t.key
    PROVE  s = t
<1>1. s \in Chunk /\ t \in Chunk /\ Whole(s) /\ Whole(t)
  BY DEF Tasks, Actor, Informed
<1>2. CASE IsSnapshot(s)
  BY <1>2 DEF Informed, IsSnapshot
<1>3. CASE ~IsSnapshot(s)
  <2>1. s.data = t.data
    BY <1>1, <1>3 DEF Whole, IsSnapshot
  <2> QED BY <1>1, <2>1 DEF Chunk
<1> QED BY <1>2, <1>3

(* What a step of the actor leaves as it is.                               *)
LEMMA SteppedKeeps ==
    ASSUME NEW a \in Actor
    PROVE  /\ Stepped(a).phase = a.phase /\ Stepped(a).loaded = a.loaded
           /\ a.putting \subseteq Stepped(a).putting
           /\ GivenUp(Stepped(a)) = GivenUp(a)
           /\ a.run # "Down" => Stepped(a).run # "Down"
<1>1. CASE a.run = "Running"
  <2>1. Stepped(a) = SaveNewChanges(a)
    BY <1>1 DEF Stepped
  <2> QED BY <1>1, <2>1, SaveFields
<1>2. CASE a.run # "Running"
  <2>1. Stepped(a) = a \/ Stepped(a) = [a EXCEPT !.run = "Stopped"]
    BY <1>2 DEF Stepped
  <2> QED BY <2>1 DEF Actor, GivenUp
<1> QED BY <1>1, <1>2

(* A handler leaves the puts in progress alone.  When it gives keys up,    *)
(* the compaction is complete, and there is no snapshot among them.        *)
NoSnapshots(chunks) == \A ch \in chunks : ~IsSnapshot(ch)

LEMMA HandlerKeeps ==
    ASSUME OneRepo, TypeOK, NEW r \in Repo, NEW B, NEW n,
           Informed(actor[r], B, n), Handler(r)
    PROVE  /\ actor'[r] \in Actor /\ actor[r].putting \subseteq actor'[r].putting
           /\ Doomed' \subseteq Doomed \/ NoSnapshots(actor[r].putting)
           /\ actor'[r].phase = "Loading" =>
                actor[r].phase = "Loading" /\ actor'[r].loaded = actor[r].loaded
           /\ actor[r].run # "Down" => actor'[r].run # "Down"
<1> DEFINE Goal == /\ actor'[r] \in Actor /\ actor[r].putting \subseteq actor'[r].putting
                   /\ Doomed' \subseteq Doomed \/ NoSnapshots(actor[r].putting)
                   /\ actor'[r].phase = "Loading" =>
                        actor[r].phase = "Loading" /\ actor'[r].loaded = actor[r].loaded
                   /\ actor[r].run # "Down" => actor'[r].run # "Down"
<1>1. actor[r] \in Actor /\ TypeOK
  BY DEF TypeOK
<1>2. ASSUME NEW b \in Actor, actor'[r] = b \/ actor'[r] = Stepped(b),
             b.putting = actor[r].putting,
             GivenUp(b) \subseteq GivenUp(actor[r]) \/ NoSnapshots(actor[r].putting),
             b.phase = "Ready" \/ (b.phase = actor[r].phase /\ b.loaded = actor[r].loaded),
             actor[r].run # "Down" => b.run # "Down", stale' = stale
      PROVE  Goal
  <2>1. /\ actor'[r] \in Actor /\ actor'[r].phase = b.phase /\ actor'[r].loaded = b.loaded
        /\ b.putting \subseteq actor'[r].putting /\ GivenUp(actor'[r]) = GivenUp(b)
        /\ b.run # "Down" => actor'[r].run # "Down"
    BY <1>2, SteppedKeeps, SteppedType
  <2>2. GivenUp(b) \subseteq GivenUp(actor[r]) => Doomed' \subseteq Doomed
    BY <1>2, <2>1, DoomedByOne
  <2> QED BY <1>2, <2>1, <2>2
<1> HIDE DEF Goal
<1>3. ASSUME CreateReturns(r) PROVE Goal
  <2> DEFINE b == [actor[r] EXCEPT !.creating = {}]
  <2>1. /\ b \in Actor /\ b.putting = actor[r].putting /\ b.phase = actor[r].phase
        /\ b.loaded = actor[r].loaded /\ b.run = actor[r].run
        /\ GivenUp(b) = GivenUp(actor[r])
    BY <1>1 DEF Actor, GivenUp
  <2>2. actor'[r] = b /\ stale' = stale
    BY <1>1, <1>3 DEF CreateReturns, TypeOK
  <2> HIDE DEF b
  <2> QED BY <1>2, <2>1, <2>2
<1>4. ASSUME Terminate(r) PROVE Goal
  <2> DEFINE b == [actor[r] EXCEPT !.run = "Stopping"]
  <2>1. /\ b \in Actor /\ b.putting = actor[r].putting /\ b.phase = actor[r].phase
        /\ b.loaded = actor[r].loaded /\ b.run # "Down"
        /\ GivenUp(b) = GivenUp(actor[r])
    BY <1>1 DEF Actor, GivenUp
  <2>2. actor'[r] = Stepped(b) /\ stale' = stale
    BY <1>1, <1>4 DEF Terminate, TypeOK
  <2> HIDE DEF b
  <2> QED BY <1>2, <2>1, <2>2
<1>5. ASSUME NEW S \in SUBSET Change, ChangesArrive(r, S) PROVE Goal
  <2> DEFINE b == Arrived(actor[r], S)
  <2>1. /\ b \in Actor /\ b.putting = actor[r].putting /\ b.phase = actor[r].phase
        /\ b.loaded = actor[r].loaded /\ b.run = actor[r].run
        /\ GivenUp(b) = GivenUp(actor[r])
    BY <1>1 DEF Actor, GivenUp, Arrived
  <2>2. actor'[r] = Stepped(b) /\ stale' = stale
    BY <1>1, <1>5 DEF ChangesArrive, TypeOK, Arrived
  <2> HIDE DEF b
  <2> QED BY <1>2, <2>1, <2>2
<1>6. ASSUME NEW S \in SUBSET Change, LoadDone(r, S) PROVE Goal
  <2> DEFINE b == HandleLoad(actor[r], S)
  <2>1. b \in Actor
    BY <1>1, HandleLoadType
  <2>2. /\ b.putting = actor[r].putting /\ b.phase = "Ready" /\ b.run = actor[r].run
        /\ GivenUp(b) = GivenUp(actor[r])
    BY <1>1 DEF Actor, GivenUp, HandleLoad
  <2>3. actor'[r] = Stepped(b) /\ stale' = stale
    BY <1>1, <1>6 DEF LoadDone, TypeOK
  <2> HIDE DEF b
  <2> QED BY <1>2, <2>1, <2>2, <2>3
<1>7. ASSUME NEW ch \in actor[r].written, PutDone(r, ch) PROVE Goal
  <2> DEFINE b == MarkPutComplete(actor[r], ch)
  <2>1. b \in Actor
    BY <1>1, MarkPutType DEF Actor
  <2>2. /\ b.putting = actor[r].putting /\ b.phase = actor[r].phase
        /\ b.loaded = actor[r].loaded /\ b.run = actor[r].run
        /\ ~IsSnapshot(ch) => GivenUp(b) = GivenUp(actor[r])
    BY <1>1 DEF Actor, GivenUp, MarkPutComplete, IsSnapshot
  <2>3. IsSnapshot(ch) => NoSnapshots(actor[r].putting)
    <3>1. ch \in Tasks(actor[r]) /\ \A s \in actor[r].putting : s \in Tasks(actor[r])
      BY DEF Tasks
    <3> QED BY <3>1 DEF Informed, NoSnapshots
  <2>4. actor'[r] = Stepped(b) /\ stale' = stale
    BY <1>1, <1>7 DEF PutDone, TypeOK
  <2> HIDE DEF b
  <2> QED BY <1>2, <2>1, <2>2, <2>3, <2>4
<1>8. ASSUME NEW k \in Key, DeleteDone(r, k) PROVE Goal
  <2> DEFINE b == MarkDeleteComplete(actor[r], k)
  <2>1. b \in Actor
    BY <1>1, <1>8, MarkDeleteType DEF DeleteDone
  <2>2. /\ b.putting = actor[r].putting /\ b.phase = actor[r].phase
        /\ b.loaded = actor[r].loaded /\ b.run = actor[r].run
        /\ GivenUp(b) = GivenUp(actor[r])
    BY <1>1 DEF Actor, GivenUp, MarkDeleteComplete
  <2>3. actor'[r] = Stepped(b) /\ stale' = stale
    BY <1>1, <1>8 DEF DeleteDone, TypeOK
  <2> HIDE DEF b
  <2> QED BY <1>2, <2>1, <2>2, <2>3
<1>9. Goal
  BY <1>3, <1>4, <1>5, <1>6, <1>7, <1>8 DEF Handler
<1> QED BY <1>9 DEF Goal

LEMMA FilledHas ==
    ASSUME NEW S, NEW W, NEW x
    PROVE  x \in Filled(S, W) <=>
             \/ x \in S /\ \A w \in W : w.chunk.key # x.key
             \/ \E w \in W : x = w.chunk /\ \E y \in S : y.key = x.key
  BY DEF Filled

(* What is on disk counts, for a file in the middle of a put holds nothing. *)
LEMMA StoredFilled ==
    ASSUME NEW S, NEW W, \A w \in W, ch \in S : ch.key = w.chunk.key => ch.data = {}
    PROVE  Changes(S) \subseteq Changes(Filled(S, W))
<1>1. \A x \in S : x.data = {} \/ x \in Filled(S, W)
  BY FilledHas
<1> QED BY <1>1 DEF Changes

LEMMA VirtualType ==
    ASSUME FilesType
    PROVE  Virtual \in SUBSET Chunk /\ disk \in SUBSET Chunk /\ Faults \in Nat
           /\ blamed \in SUBSET Change /\ Doomed \in SUBSET Key
           /\ \A r \in Repo : actor[r] \in Actor
<1>1. \A w \in writing : w.chunk \in Chunk
  BY DEF FilesType
<1>2. Virtual \in SUBSET Chunk
  BY <1>1, FilledHas DEF Virtual, FilesType, TypeOK
<1> QED BY <1>2 DEF FilesType, TypeOK, Faults, Doomed

LEMMA FaultsType == Faults \in Nat /\ Faults' \in Nat
  BY DEF Faults

(* The parts of the invariant, put together.                               *)
LEMMA Assembled ==
    ASSUME OneRepo, FilesInv, NEW r \in Repo, FilesType',
           Alone(actor'[r], Virtual', Doomed', blamed', Faults'),
           fresh' => disk' = {} /\ actor'[r] = Absent,
           backend' # "tokio" => writing' = {},
           \A w \in writing' : Fills(w)',
           Distinct(disk'),
           \A kind \in Kinds : Walks(r, kind)',
           Changes(Virtual) \subseteq Changes(Virtual') \cup blamed', blamed \subseteq blamed',
           Remembered
    PROVE  FilesInv'
<1>1. \A q \in Repo : q = r
  BY DEF OneRepo
<1>2. durable' \subseteq Changes(Virtual') \cup blamed'
  <2>1. \A w \in writing', ch \in disk' : ch.key = w.chunk.key => ch.data = {}
    BY DEF Fills
  <2>2. Changes(disk') \subseteq Changes(Virtual')
    BY <2>1, StoredFilled DEF Virtual
  <2>3. durable \subseteq Changes(Virtual) \cup blamed /\ durable' = durable \cup Changes(disk')
    BY DEF FilesInv, Remembered
  <2> QED BY <2>2, <2>3
<1>3. (\A q \in Repo : Alone(actor[q], Virtual, Doomed, blamed, Faults))'
  BY <1>1
<1>4. (fresh => disk = {} /\ \A q \in Repo : actor[q] = Absent)'
  BY <1>1
<1>5. (\A q \in Repo, kind \in Kinds : Walks(q, kind))'
  BY <1>1
<1> QED BY <1>2, <1>3, <1>4, <1>5 DEF FilesInv

(* A step that writes and removes nothing.                                 *)
LEMMA SameFiles ==
    ASSUME OneRepo, FilesInv, NEW r \in Repo, FilesType',
           UNCHANGED <<disk, writing, backend, blamed>>, Faults # 0 => Faults' # 0,
           Alone(actor'[r], Virtual, Doomed', blamed, Faults'),
           fresh' => fresh /\ actor'[r] = actor[r],
           \A w \in writing : w.chunk \in actor'[r].putting,
           Doomed' \subseteq Doomed \/ \A w \in writing : ~IsSnapshot(w.chunk),
           \A kind \in Kinds : Walks(r, kind)',
           Remembered
    PROVE  FilesInv'
<1>1. \A q \in Repo : q = r
  BY DEF OneRepo
<1>2. Virtual' = Virtual
  BY DEF Virtual
<1>3. ASSUME NEW w \in writing' PROVE Fills(w)'
  <2>1. w \in writing /\ w.repo = r /\ Fills(w)
    BY <1>1, <1>3 DEF FilesInv, FilesType
  <2>2. Faults \in Nat /\ Faults' \in Nat /\ blamed \subseteq blamed'
    <3>1. blamed \subseteq blamed'
      OBVIOUS
    <3> QED BY <3>1, FaultsType
  <2>3. ASSUME IsSnapshot(w.chunk) PROVE Backed(w.chunk.data, Virtual, Doomed', blamed', Faults')
    <3>1. Backed(w.chunk.data, Virtual, Doomed, blamed, Faults) /\ Doomed' \subseteq Doomed
      BY <2>1, <2>3 DEF Fills
    <3> QED BY <2>2, <3>1, BackedMore
  <2> QED BY <1>2, <2>1, <2>3 DEF Fills
<1>4. fresh' => disk' = {} /\ actor'[r] = Absent
  BY DEF FilesInv
<1>5. (backend' # "tokio" => writing' = {}) /\ Distinct(disk')
  BY DEF FilesInv
<1>6. /\ Changes(Virtual) \subseteq Changes(Virtual') \cup blamed' /\ blamed \subseteq blamed'
      /\ Alone(actor'[r], Virtual', Doomed', blamed', Faults')
  BY <1>2
<1> QED BY <1>3, <1>4, <1>5, <1>6, Assembled

(* A walk goes on as it was, as long as it is not waited for in vain.      *)
LEMMA SameWalks ==
    ASSUME FilesInv, NEW r \in Repo, NEW kind \in Kinds, walk'[r] = walk[r],
           disk' \subseteq disk,
           actor[r].run # "Down" => actor'[r].run # "Down",
           actor'[r].phase = "Loading" =>
             actor[r].phase = "Loading" /\ actor[r].loaded \subseteq actor'[r].loaded
    PROVE  Walks(r, kind)'
<1>1. Walks(r, kind)
  BY DEF FilesInv
<1> QED BY <1>1 DEF Walks

LEMMA NoWalksLeft ==
    ASSUME NEW r \in Repo, NEW kind \in Kinds, walk'[r] = NoWalks PROVE Walks(r, kind)'
  BY DEF Walks, NoWalks, NoWalk

(* Types.                                                                  *)
LEMMA FilesTypeStep == ASSUME FilesType, [FilesNext]_allVars PROVE FilesType'
<1>0. /\ TypeOK /\ \A r \in Repo : actor[r] \in Actor
      /\ writing \subseteq [repo : Repo, chunk : Chunk] /\ IsFiniteSet(writing)
      /\ blamed \subseteq Change /\ failures \in Nat /\ cuts \in Nat
      /\ walk \in [Repo -> [Kinds -> [open : BOOLEAN, due : SUBSET Key, read : SUBSET Key]]]
  BY DEF FilesType, TypeOK
<1> DEFINE Walk == [open : BOOLEAN, due : SUBSET Key, read : SUBSET Key]
           Files == /\ writing' \subseteq [repo : Repo, chunk : Chunk] /\ IsFiniteSet(writing')
                    /\ blamed' \subseteq Change /\ failures' \in Nat /\ cuts' \in Nat
           Dirs == walk' \in [Repo -> [Kinds -> Walk]]
<1>1. ASSUME [Next]_vars, Files, Dirs PROVE FilesType'
  <2>1. TypeOK'
    BY <1>0, <1>1, TypeStep
  <2> QED BY <1>1, <2>1 DEF FilesType
<1>2. ASSUME NEW r \in Repo, NEW b \in Actor, actor' = [actor EXCEPT ![r] = b] \/ actor' = actor,
             disk' \subseteq Chunk, UNCHANGED <<stale, fresh>>, Files, Dirs
      PROVE  FilesType'
  <2>1. TypeOK'
    BY <1>0, <1>2 DEF TypeOK
  <2> QED BY <1>2, <2>1 DEF FilesType
<1>3. UNCHANGED <<writing, blamed, failures, cuts>> => Files
  BY <1>0
<1>4. UNCHANGED walk => Dirs
  BY <1>0
<1>5. /\ NoWalks \in [Kinds -> Walk]
      /\ \A r \in Repo, k \in Kinds : walk[r] \in [Kinds -> Walk] /\ walk[r][k] \in Walk
  BY <1>0 DEF NoWalks, NoWalk
<1> DEFINE Goal == FilesType'
<1> HIDE DEF Files, Dirs, Goal
<1>6. ASSUME NEW r \in Repo, LoaderRuns(r) PROVE Goal
  <2>1. vars' = vars /\ failures' \in Nat /\ UNCHANGED <<cuts, writing, walk, blamed>>
    BY <1>0, <1>6 DEF LoaderRuns, Rest, L!Begin, L!LoaderStep, L!IdLoaded, L!NewId,
       L!TruncateId, L!PutId, L!PutIdFails
  <2>2. Files /\ Dirs
    BY <1>0, <1>4, <2>1 DEF Files
  <2> QED BY <1>1, <2>1, <2>2 DEF Goal
<1>7. ASSUME NEW r \in Repo, ActorActs(r) \/ StopRepo(r) \/ Complete(r) PROVE Goal
  <2>1. UNCHANGED <<writing, blamed, failures, cuts>> /\ UNCHANGED walk
    BY <1>7 DEF ActorActs, StopRepo, Complete, fileVars, Rest
  <2>2. Next
    BY <1>7 DEF ActorActs, StopRepo, Complete, Next, StorageStep
  <2> QED BY <1>1, <1>3, <1>4, <2>1, <2>2 DEF Goal
<1>8. ASSUME NEW r \in Repo, OpenDocument(r) PROVE Goal
  <2>1. UNCHANGED <<writing, blamed, failures, cuts>> /\ walk' = [walk EXCEPT ![r] = NoWalks]
        /\ Next
    BY <1>8 DEF OpenDocument, Next
  <2>2. Dirs
    BY <1>0, <1>5, <2>1 DEF Dirs
  <2> QED BY <1>1, <1>3, <2>1, <2>2 DEF Goal
<1>9. ASSUME NEW r \in Repo, Die(r) PROVE Goal
  <2>1. /\ actor' = [actor EXCEPT ![r] = Absent] /\ UNCHANGED <<disk, stale, fresh, failures>>
        /\ walk' = [walk EXCEPT ![r] = NoWalks] /\ writing' = {w \in writing : w.repo # r}
        /\ cuts' = cuts + Cardinality(Truncated(r)) /\ blamed' = blamed \cup Changes(Truncated(r))
    BY <1>9 DEF Die
  <2>2. Dirs
    BY <1>0, <1>5, <2>1 DEF Dirs
  <2>3. Truncated(r) \subseteq Chunk
    BY <1>0 DEF Truncated
  <2>4. Cardinality(Truncated(r)) \in Nat
    <3> DEFINE mine == {v \in writing : v.repo = r}
    <3>1. IsFiniteSet(mine)
      BY <1>0, FS_Subset
    <3> DEFINE file == [w \in mine |-> w.chunk]
    <3>2. file \in Surjection(mine, Truncated(r))
      BY DEF Surjection, Truncated
    <3> HIDE DEF mine, file
    <3>3. IsFiniteSet(Truncated(r))
      BY <3>1, <3>2, FS_Surjection
    <3> QED BY <3>3, FS_CardinalityType
  <2>5. IsFiniteSet(writing')
    BY <1>0, <2>1, FS_Subset
  <2>6. Changes(Truncated(r)) \subseteq Change
    BY <2>3 DEF Changes, Chunk
  <2>7. Files
    BY <1>0, <2>1, <2>4, <2>5, <2>6 DEF Files
  <2> QED BY <1>0, <1>2, <2>1, <2>2, <2>7, AbsentType DEF TypeOK, Goal
<1>10. ASSUME NEW r \in Repo, NEW ch \in actor[r].putting, PutTruncates(r, ch) PROVE Goal
  <2>1. /\ actor' = actor /\ UNCHANGED <<stale, fresh, failures, cuts, walk>>
        /\ disk' = Others(ch) \cup {CutShort(ch)}
        /\ writing' = writing \cup {[repo |-> r, chunk |-> ch]}
        /\ blamed' = blamed \cup Condemned(ch)
    BY <1>10 DEF PutTruncates, Unchanged
  <2>2. ch \in Chunk /\ CutShort(ch) \in Chunk /\ ch.data \subseteq Change
    BY <1>0 DEF Actor, Chunk, CutShort
  <2>3. disk' \subseteq Chunk
    BY <1>0, <2>1, <2>2 DEF Others, TypeOK
  <2>4. IsFiniteSet(writing') /\ writing' \subseteq [repo : Repo, chunk : Chunk]
    <3>1. [repo |-> r, chunk |-> ch] \in [repo : Repo, chunk : Chunk]
      BY <2>2
    <3>2. IsFiniteSet(writing')
      BY <1>0, <2>1, FS_AddElement
    <3> QED BY <1>0, <2>1, <3>1, <3>2
  <2>5. Condemned(ch) \subseteq Change
    BY <2>2 DEF Condemned
  <2>6. Files
    BY <1>0, <2>1, <2>4, <2>5 DEF Files
  <2> QED BY <1>0, <1>2, <1>4, <2>1, <2>3, <2>6 DEF Goal
<1>11. ASSUME NEW r \in Repo, NEW ch \in actor[r].putting, PutFills(r, ch) \/ PutFails(r, ch)
       PROVE  Goal
  <2> DEFINE b == [actor[r] EXCEPT !.putting = @ \ {ch}, !.written = @ \cup {ch}]
  <2>1. /\ actor' = [actor EXCEPT ![r].putting = @ \ {ch}, ![r].written = @ \cup {ch}]
        /\ UNCHANGED <<stale, fresh, cuts, walk>>
        /\ disk' = disk \/ disk' = Others(ch) \cup {ch}
        /\ writing' = writing \ {[repo |-> r, chunk |-> ch]}
        /\ failures' = failures \/ failures' = failures + 1
        /\ blamed' = blamed \/ blamed' = blamed \cup ch.data
    BY <1>11 DEF PutFills, PutFails, Unchanged
  <2>2. ch \in Chunk /\ ch.data \subseteq Change /\ b \in Actor
    <3>1. actor[r] \in Actor /\ ch \in Chunk
      BY <1>0 DEF Actor
    <3>2. b \in Actor
      BY <3>1 DEF Actor
    <3> QED BY <3>1, <3>2 DEF Chunk
  <2>3. disk' \subseteq Chunk
    BY <1>0, <2>1, <2>2 DEF Others, TypeOK
  <2>4. actor' = [actor EXCEPT ![r] = b]
    BY <1>0, <2>1 DEF TypeOK
  <2>5. IsFiniteSet(writing')
    BY <1>0, <2>1, FS_Subset
  <2> HIDE DEF b
  <2>6. Files
    BY <1>0, <2>1, <2>2, <2>5 DEF Files
  <2> QED BY <1>2, <1>4, <2>1, <2>2, <2>3, <2>4, <2>6 DEF Goal
<1>12. ASSUME NEW r \in Repo, NEW ch \in actor[r].putting, PutReplaces(r, ch) PROVE Goal
  <2>1. /\ Next /\ UNCHANGED <<failures, writing, cuts, walk>>
        /\ blamed' = blamed \cup Condemned(ch)
    BY <1>12 DEF PutReplaces, Unchanged, Next, StorageStep
  <2>2. ch.data \subseteq Change
    BY <1>0 DEF Actor, Chunk
  <2>3. Files
    BY <1>0, <2>1, <2>2 DEF Files, Condemned
  <2> QED BY <1>1, <1>4, <2>1, <2>3 DEF Goal
<1>13. ASSUME NEW r \in Repo, NEW kind \in Kinds, RangeRead(r, kind) PROVE Goal
  <2>1. Next /\ UNCHANGED <<writing, blamed, failures, cuts>> /\ UNCHANGED walk
    BY <1>13 DEF RangeRead, RestOfLoad, Next, StorageStep, Kinds
  <2> QED BY <1>1, <1>3, <1>4, <2>1 DEF Goal
<1>14. ASSUME NEW r \in Repo, NEW kind \in Kinds, WalkBegins(r, kind) PROVE Goal
  <2>1. /\ vars' = vars /\ UNCHANGED <<writing, blamed, failures, cuts>>
        /\ walk' = [walk EXCEPT ![r][kind] =
                  [open |-> TRUE, due |-> {ch.key : ch \in OfKind(disk, kind)}, read |-> {}]]
    BY <1>14 DEF WalkBegins, RestOfLoad
  <2>2. {ch.key : ch \in OfKind(disk, kind)} \subseteq Key
    BY <1>0 DEF OfKind, TypeOK, Chunk
  <2>3. Dirs
    BY <1>0, <1>5, <2>1, <2>2 DEF Dirs
  <2> QED BY <1>1, <1>3, <2>1, <2>3 DEF Goal
<1>15. ASSUME NEW r \in Repo, NEW ch \in disk, WalkReads(r, ch) PROVE Goal
  <2> DEFINE b == [actor[r] EXCEPT !.loaded = @ \cup {ch}]
  <2>1. /\ actor' = [actor EXCEPT ![r].loaded = @ \cup {ch}]
        /\ UNCHANGED <<disk, stale, fresh>> /\ UNCHANGED <<writing, blamed, failures, cuts>>
        /\ walk' = [walk EXCEPT ![r][ch.key.kind].read = @ \cup {ch.key}]
    BY <1>15 DEF WalkReads, RestOfLoad
  <2>2. ch \in Chunk /\ ch.key \in Key /\ ch.key.kind \in Kinds
    BY <1>0 DEF TypeOK, Chunk, Key, Kinds
  <2>3. b \in Actor /\ actor' = [actor EXCEPT ![r] = b]
    <3>1. actor[r] \in Actor
      BY <1>0
    <3>2. b \in Actor
      BY <2>2, <3>1 DEF Actor
    <3> QED BY <1>0, <2>1, <3>2 DEF TypeOK
  <2>4. Dirs
    <3> DEFINE at == [walk[r][ch.key.kind] EXCEPT !.read = @ \cup {ch.key}]
    <3>1. at \in Walk
      BY <1>5, <2>2
    <3>2. walk' = [walk EXCEPT ![r][ch.key.kind] = at]
      BY <1>0, <2>1, <2>2
    <3> HIDE DEF at
    <3> QED BY <1>0, <1>5, <2>2, <3>1, <3>2 DEF Dirs
  <2> QED BY <1>0, <1>2, <1>3, <2>1, <2>3, <2>4 DEF Goal, TypeOK
<1>16. ASSUME NEW r \in Repo, NEW kind \in Kinds, WalkEnds(r, kind) PROVE Goal
  <2> DEFINE b == [actor[r] EXCEPT !.awaited = @ \ {kind}]
  <2>1. /\ actor' = [actor EXCEPT ![r].awaited = @ \ {kind}]
        /\ UNCHANGED <<disk, stale, fresh>> /\ UNCHANGED <<writing, blamed, failures, cuts>>
        /\ walk' = [walk EXCEPT ![r][kind] = NoWalk]
    BY <1>16 DEF WalkEnds, RestOfLoad
  <2>2. b \in Actor /\ actor' = [actor EXCEPT ![r] = b]
    <3>1. actor[r] \in Actor
      BY <1>0
    <3>2. b \in Actor
      BY <3>1 DEF Actor
    <3> QED BY <1>0, <2>1, <3>2 DEF TypeOK
  <2>3. Dirs
    BY <1>0, <1>5, <2>1 DEF Dirs, NoWalk
  <2> QED BY <1>0, <1>2, <1>3, <2>1, <2>2, <2>3 DEF Goal, TypeOK
<1>17. ASSUME NEW k \in Key, Remove(k) PROVE Goal
  <2>1. /\ Next /\ UNCHANGED <<writing, blamed, failures, cuts>>
        /\ walk' = [r \in Repo |-> [walk[r] EXCEPT ![k.kind].due = @ \ {k}]]
    BY <1>17 DEF Remove, Unlisted, Next, StorageStep
  <2>2. k.kind \in Kinds
    BY DEF Key, Kinds
  <2>3. \A r \in Repo : [walk[r] EXCEPT ![k.kind].due = @ \ {k}] \in [Kinds -> Walk]
    <3> SUFFICES ASSUME NEW r \in Repo
                 PROVE  [walk[r] EXCEPT ![k.kind].due = @ \ {k}] \in [Kinds -> Walk]
      OBVIOUS
    <3>1. [walk[r][k.kind] EXCEPT !.due = @ \ {k}] \in Walk
      BY <1>5, <2>2
    <3> QED BY <1>5, <2>2, <3>1
  <2>4. Dirs
    BY <2>1, <2>3 DEF Dirs
  <2> QED BY <1>1, <1>3, <2>1, <2>4 DEF Goal
<1>18. ASSUME UNCHANGED allVars PROVE Goal
  <2>1. vars' = vars /\ UNCHANGED <<writing, blamed, failures, cuts>> /\ UNCHANGED walk
    BY <1>18 DEF allVars, fileVars
  <2> QED BY <1>1, <1>3, <1>4, <2>1 DEF Goal
<1>19. ASSUME NEW r \in Repo, FileStep(r) PROVE Goal
  BY <1>7, <1>10, <1>11, <1>12, <1>13, <1>14, <1>15, <1>16, <1>19 DEF FileStep
<1>20. Goal
  BY <1>6, <1>7, <1>8, <1>9, <1>17, <1>18, <1>19 DEF FilesNext
<1> QED BY <1>20 DEF Goal

(* What holds of the only repo.                                            *)
LEMMA Facts ==
    ASSUME OneRepo, FilesInv, NEW r \in Repo
    PROVE  /\ FilesType /\ TypeOK /\ Alone(actor[r], Virtual, Doomed, blamed, Faults)
           /\ \A w \in writing : /\ w.repo = r /\ w.chunk \in actor[r].putting
                                 /\ w.chunk \in Tasks(actor[r]) /\ w.chunk \in Chunk
                                 /\ w = [repo |-> r, chunk |-> w.chunk]
           /\ \A w \in writing, ch \in disk : ch.key = w.chunk.key => ch.data = {}
           /\ Stored \subseteq Changes(Virtual)
           /\ fresh => disk = {} /\ actor[r] = Absent
<1>1. FilesType /\ TypeOK /\ Alone(actor[r], Virtual, Doomed, blamed, Faults)
      /\ (fresh => disk = {} /\ actor[r] = Absent)
  BY DEF FilesInv, FilesType
<1>2. ASSUME NEW w \in writing
      PROVE  /\ w.repo = r /\ w.chunk \in actor[r].putting /\ w.chunk \in Tasks(actor[r])
             /\ w.chunk \in Chunk /\ w = [repo |-> r, chunk |-> w.chunk]
             /\ \A ch \in disk : ch.key = w.chunk.key => ch.data = {}
  <2>1. w \in [repo : Repo, chunk : Chunk] /\ Fills(w)
    BY <1>1 DEF FilesInv, FilesType
  <2>2. w.repo = r
    BY <2>1 DEF OneRepo
  <2> QED BY <2>1, <2>2 DEF Fills, Tasks
<1>3. Stored \subseteq Changes(Virtual)
  BY <1>2, StoredFilled DEF Stored, Virtual
<1> QED BY <1>1, <1>2, <1>3

LEMMA HandlerFiles ==
    ASSUME OneRepo, FilesInv, FilesType', NEW r \in Repo, Handler(r),
           UNCHANGED <<backend, writing, walk, blamed, failures, cuts>>, Remembered
    PROVE  FilesInv'
<1>1. /\ TypeOK /\ Alone(actor[r], Virtual, Doomed, blamed, Faults)
      /\ \A w \in writing : w.chunk \in actor[r].putting
  BY Facts
<1>2. Virtual \in SUBSET Chunk /\ blamed \in SUBSET Change /\ Faults \in Nat
  BY VirtualType DEF FilesInv
<1>3. /\ Alone(actor'[r], Virtual, Doomed', blamed, Faults)
      /\ actor[r] # Absent /\ UNCHANGED <<disk, stale, fresh>>
  BY <1>1, <1>2, HandlerAlone
<1>4. /\ actor[r].putting \subseteq actor'[r].putting
      /\ Doomed' \subseteq Doomed \/ NoSnapshots(actor[r].putting)
      /\ actor'[r].phase = "Loading" =>
           actor[r].phase = "Loading" /\ actor'[r].loaded = actor[r].loaded
      /\ actor[r].run # "Down" => actor'[r].run # "Down"
  BY <1>1, HandlerKeeps DEF Alone
<1>5. \A kind \in Kinds : Walks(r, kind)'
  BY <1>3, <1>4, SameWalks
<1>6. Doomed' \subseteq Doomed \/ \A w \in writing : ~IsSnapshot(w.chunk)
  BY <1>1, <1>4 DEF NoSnapshots
<1>7. fresh' => fresh /\ actor'[r] = actor[r]
  BY <1>3 DEF FilesInv
<1>8. Faults' = Faults
  BY DEF Faults
<1> QED BY <1>1, <1>3, <1>4, <1>5, <1>6, <1>7, <1>8, SameFiles

LEMMA OpenFiles ==
    ASSUME OneRepo, FilesInv, FilesType', NEW r \in Repo, OpenDocument(r), Remembered
    PROVE  FilesInv'
<1>1. /\ TypeOK /\ Alone(actor[r], Virtual, Doomed, blamed, Faults)
      /\ \A w \in writing : w.chunk \in Tasks(actor[r])
      /\ Stored \subseteq Changes(Virtual)
  BY Facts
<1>2. Virtual \in SUBSET Chunk /\ blamed \in SUBSET Change /\ Faults \in Nat
  BY VirtualType DEF FilesInv
<1>3. /\ Open(r) /\ UNCHANGED <<backend, failures, cuts, writing, blamed>>
      /\ walk' = [walk EXCEPT ![r] = NoWalks]
  BY DEF OpenDocument
<1>4. actor[r].run \in {"Down", "Stopped"} /\ fresh' = FALSE /\ disk' = disk
  BY <1>3 DEF Open
<1>5. writing = {}
  BY <1>1, <1>4 DEF Alone, Informed
<1>6. Alone(actor'[r], Virtual, Doomed', blamed, Faults)
  BY <1>1, <1>2, <1>3, OpenAlone
<1>7. walk'[r] = NoWalks
  BY <1>3 DEF FilesInv, FilesType
<1>8. \A kind \in Kinds : Walks(r, kind)'
  BY <1>7, NoWalksLeft
<1>9. Faults' = Faults
  BY <1>3 DEF Faults
<1> QED BY <1>3, <1>4, <1>5, <1>6, <1>8, <1>9, SameFiles

LEMMA CreateFiles ==
    ASSUME OneRepo, FilesInv, FilesType', NEW r \in Repo, NEW S \in SUBSET Change,
           Create(r, S), UNCHANGED fileVars, Remembered
    PROVE  FilesInv'
<1>1. /\ TypeOK /\ Alone(actor[r], Virtual, Doomed, blamed, Faults)
      /\ \A w \in writing : w.chunk \in Tasks(actor[r])
      /\ fresh => disk = {} /\ actor[r] = Absent
  BY Facts
<1>2. blamed \in SUBSET Change /\ Faults \in Nat
  BY VirtualType DEF FilesInv
<1>3. /\ fresh /\ fresh' = FALSE /\ disk' = disk
      /\ UNCHANGED <<backend, failures, cuts, writing, blamed, walk>>
  BY DEF Create, fileVars
<1>4. disk = {} /\ actor[r] = Absent
  BY <1>1, <1>3
<1>5. writing = {}
  <2>1. Tasks(Absent) = {}
    BY DEF Tasks, Absent
  <2> QED BY <1>1, <1>4, <2>1
<1>6. Virtual = {}
  BY <1>4, <1>5 DEF Virtual, Filled
<1>7. Alone(actor'[r], Virtual, Doomed', blamed, Faults)
  BY <1>1, <1>2, <1>4, <1>6, CreateAlone
<1>8. ASSUME NEW kind \in Kinds PROVE Walks(r, kind)'
  <2>1. Walks(r, kind) /\ Absent.run = "Down"
    BY DEF FilesInv, Absent
  <2>2. ~walk[r][kind].open
    BY <1>4, <2>1 DEF Walks
  <2> QED BY <1>3, <2>2 DEF Walks
<1>9. Faults' = Faults
  BY <1>3 DEF Faults
<1> QED BY <1>3, <1>5, <1>7, <1>8, <1>9, SameFiles

(* A repo that boots, and a stuttering step: the put of an id may fail.    *)
LEMMA IdleFiles ==
    ASSUME OneRepo, FilesInv, FilesType', UNCHANGED vars,
           UNCHANGED <<backend, writing, walk, blamed, cuts>>,
           failures' = failures \/ failures' = failures + 1,
           Remembered \/ durable' = durable
    PROVE  FilesInv'
<1>1. PICK r \in Repo : TRUE
  BY DEF OneRepo
<1>2. /\ TypeOK /\ Alone(actor[r], Virtual, Doomed, blamed, Faults)
      /\ \A w \in writing : w.chunk \in actor[r].putting
      /\ Stored \subseteq Changes(Virtual)
  BY Facts
<1>3. /\ Virtual \in SUBSET Chunk /\ blamed \in SUBSET Change /\ Faults \in Nat
      /\ Doomed \in SUBSET Key /\ actor[r] \in Actor
  BY VirtualType DEF FilesInv
<1>4. Faults # 0 => Faults' # 0
  <2>1. failures \in Nat /\ cuts' = cuts
    BY DEF FilesInv, FilesType
  <2> QED BY <2>1 DEF Faults
<1>5. actor' = actor /\ disk' = disk /\ stale' = stale /\ fresh' = fresh
  BY DEF vars
<1>6. Doomed' = Doomed
  BY <1>5 DEF Doomed
<1>7. Alone(actor'[r], Virtual, Doomed', blamed, Faults')
  BY <1>2, <1>3, <1>4, <1>5, <1>6, FaultsType, TakenAlone
<1>8. \A kind \in Kinds : Walks(r, kind)'
  BY <1>5, SameWalks
<1>9. CASE Remembered
  BY <1>2, <1>4, <1>5, <1>6, <1>7, <1>8, <1>9, SameFiles
<1>10. CASE durable' = durable
  <2>1. FilesInv => durable \subseteq Changes(Virtual) \cup blamed
    BY DEF FilesInv
  <2>2. \A q \in Repo : q = r
    BY DEF OneRepo
  <2>3. Virtual' = Virtual
    BY <1>5 DEF Virtual
  <2>4. ASSUME NEW w \in writing' PROVE Fills(w)'
    <3>1. w \in writing /\ Fills(w)
      BY <2>4 DEF FilesInv
    <3>2. IsSnapshot(w.chunk) => Backed(w.chunk.data, Virtual, Doomed, blamed, Faults')
      BY <1>3, <1>4, <3>1, FaultsType, BackedMore DEF Fills
    <3> QED BY <1>5, <1>6, <2>3, <3>1, <3>2 DEF Fills
  <2>5. /\ (\A q \in Repo : Alone(actor[q], Virtual, Doomed, blamed, Faults))'
        /\ (\A q \in Repo, kind \in Kinds : Walks(q, kind))'
    BY <1>7, <1>8, <2>2, <2>3
  <2> QED BY <1>5, <1>10, <2>1, <2>3, <2>4, <2>5 DEF FilesInv
<1> QED BY <1>9, <1>10

----------------------------------------------------------------------------
(* Reads.                                                                  *)

(* While a document loads, all that is in storage is on disk.              *)
LEMMA NothingPending ==
    ASSUME OneRepo, FilesInv, NEW r \in Repo,
           backend # "tokio" \/ actor[r].phase = "Loading"
    PROVE  writing = {} /\ Virtual = disk
<1>1. \A w \in writing : w.chunk \in Tasks(actor[r])
  BY Facts
<1>2. actor[r].phase = "Loading" => Tasks(actor[r]) = {}
  BY Facts DEF Alone, Informed
<1>3. writing = {}
  BY <1>1, <1>2 DEF FilesInv
<1> QED BY <1>3 DEF Virtual, Filled

LEMMA RangeFiles ==
    ASSUME OneRepo, FilesInv, FilesType', NEW r \in Repo, NEW kind \in Kinds,
           RangeRead(r, kind), Remembered
    PROVE  FilesInv'
<1>1. /\ backend # "tokio" /\ ReadRange(r, kind)
      /\ UNCHANGED <<backend, failures, cuts, writing, blamed, walk>>
  BY DEF RangeRead, RestOfLoad
<1>2. TypeOK /\ Alone(actor[r], Virtual, Doomed, blamed, Faults) /\ actor[r] \in Actor
  BY Facts DEF TypeOK
<1>3. blamed \in SUBSET Change /\ Faults \in Nat
  BY VirtualType DEF FilesInv
<1>4. writing = {} /\ Virtual = disk
  BY <1>1, NothingPending
<1>5. /\ Alone(actor'[r], disk, Doomed', blamed, Faults)
      /\ actor[r] # Absent /\ UNCHANGED <<disk, stale, fresh>>
  BY <1>1, <1>2, <1>3, <1>4, ReadRangeAlone
<1>6. /\ actor'[r].run = actor[r].run /\ actor'[r].phase = actor[r].phase
      /\ actor[r].loaded \subseteq actor'[r].loaded
  BY <1>1, <1>2 DEF ReadRange, TypeOK, Actor
<1>7. \A k \in Kinds : Walks(r, k)'
  BY <1>1, <1>5, <1>6, SameWalks
<1>8. fresh' => fresh /\ actor'[r] = actor[r]
  BY <1>5 DEF FilesInv
<1>9. Faults' = Faults
  BY <1>1 DEF Faults
<1> QED BY <1>1, <1>4, <1>5, <1>7, <1>8, <1>9, SameFiles

LEMMA WalkBeginsFiles ==
    ASSUME OneRepo, FilesInv, FilesType', NEW r \in Repo, NEW kind \in Kinds,
           WalkBegins(r, kind), Remembered
    PROVE  FilesInv'
<1> DEFINE at == [open |-> TRUE, due |-> {ch.key : ch \in OfKind(disk, kind)}, read |-> {}]
<1>1. /\ vars' = vars /\ UNCHANGED <<backend, failures, cuts, writing, blamed>>
      /\ walk' = [walk EXCEPT ![r][kind] = at] /\ kind \in actor[r].awaited
  BY DEF WalkBegins, RestOfLoad
<1>2. /\ Alone(actor[r], Virtual, Doomed, blamed, Faults)
      /\ \A w \in writing : w.chunk \in actor[r].putting
  BY Facts
<1>3. disk' = disk /\ actor' = actor /\ stale' = stale /\ fresh' = fresh
  BY <1>1 DEF vars
<1>4. actor[r].run # "Down"
  BY <1>1, <1>2 DEF Alone, Informed
<1>5. /\ at.open /\ at.read = {}
      /\ \A ch \in disk : ch.key.kind = kind => ch.key \in at.due
  BY DEF OfKind
<1>6. walk'[r][kind] = at /\ \A k \in Kinds : k # kind => walk'[r][k] = walk[r][k]
  BY <1>1 DEF FilesInv, FilesType
<1> HIDE DEF at
<1>7. \A k \in Kinds : Walks(r, k)'
  BY <1>3, <1>4, <1>5, <1>6 DEF Walks, FilesInv
<1>8. Doomed' = Doomed /\ Faults' = Faults
  BY <1>1, <1>3 DEF Doomed, Faults
<1> QED BY <1>1, <1>2, <1>3, <1>7, <1>8, SameFiles

(* What is read of a file whose put is not complete names what is put.     *)
LEMMA WalkReadsFiles ==
    ASSUME OneRepo, FilesInv, FilesType', NEW r \in Repo, NEW ch \in disk,
           WalkReads(r, ch), Remembered
    PROVE  FilesInv'
<1> DEFINE kind == ch.key.kind
           b == [actor[r] EXCEPT !.loaded = @ \cup {ch}]
           at == [walk[r][kind] EXCEPT !.read = @ \cup {ch.key}]
<1>1. /\ UNCHANGED <<disk, stale, fresh, backend, failures, cuts, writing, blamed>>
      /\ walk' = [walk EXCEPT ![r][kind].read = @ \cup {ch.key}] /\ walk[r][kind].open
      /\ actor' = [actor EXCEPT ![r].loaded = @ \cup {ch}]
  BY DEF WalkReads, RestOfLoad
<1>2. /\ TypeOK /\ Alone(actor[r], Virtual, Doomed, blamed, Faults) /\ actor[r] \in Actor
      /\ \A w \in writing : /\ w.chunk \in actor[r].putting /\ w.chunk \in Tasks(actor[r])
                            /\ w.chunk \in Chunk
      /\ \A w \in writing, x \in disk : x.key = w.chunk.key => x.data = {}
      /\ fresh => disk = {}
  BY Facts DEF TypeOK
<1>3. /\ Virtual \in SUBSET Chunk /\ blamed \in SUBSET Change /\ Faults \in Nat
      /\ Doomed \in SUBSET Key
  BY VirtualType DEF FilesInv
<1>4. ch \in Chunk /\ kind \in Kinds /\ ch.key \in Key
  BY <1>2 DEF TypeOK, Chunk, Key, Kinds
<1>5. walk[r] \in [Kinds -> [open : BOOLEAN, due : SUBSET Key, read : SUBSET Key]]
      /\ walk[r][kind] \in [open : BOOLEAN, due : SUBSET Key, read : SUBSET Key]
  BY <1>4 DEF FilesInv, FilesType
<1>6. /\ at.open /\ at.due = walk[r][kind].due /\ at.read = walk[r][kind].read \cup {ch.key}
  BY <1>1, <1>5
<1>7. walk'[r][kind] = at /\ \A k \in Kinds : k # kind => walk'[r][k] = walk[r][k]
  BY <1>1, <1>4, <1>5 DEF FilesInv, FilesType
<1>8. actor[r].run # "Down"
  BY <1>1, <1>4 DEF FilesInv, Walks
<1>9. /\ b \in Actor
      /\ b.run = actor[r].run /\ b.phase = actor[r].phase /\ b.held = actor[r].held
      /\ b.saved = actor[r].saved /\ b.atOpen = actor[r].atOpen /\ b.onDisk = actor[r].onDisk
      /\ b.compacting = actor[r].compacting /\ b.supercedes = actor[r].supercedes
      /\ b.putting = actor[r].putting /\ b.written = actor[r].written
      /\ b.awaited = actor[r].awaited /\ b.loaded = actor[r].loaded \cup {ch}
      /\ b.deleting = actor[r].deleting /\ b.deletions = actor[r].deletions
  BY <1>2, <1>4 DEF Actor
<1>10. actor'[r] = b
  BY <1>1, <1>2 DEF TypeOK
<1> HIDE DEF b, at, kind
<1>11. ch \in Virtual \/ (ch.data = {} /\ \E w \in writing : w.chunk.key = ch.key)
  BY <1>2, FilledHas DEF Virtual
<1>12. actor[r].phase = "Ready" => Changes({ch}) \subseteq actor[r].held
  BY <1>2, <1>11 DEF Alone, Agrees, Changes
<1>13. WithinOrTaken(ch.key, b.held \cup Changes(b.loaded), blamed, Faults)
  <2> DEFINE h == b.held \cup Changes(b.loaded)
  <2>1. h \in SUBSET Change
    BY <1>9 DEF Actor, Changes, Chunk
  <2>2. b.held \subseteq h /\ ch.data \subseteq h
    BY <1>9 DEF Changes
  <2> HIDE DEF h
  <2>3. CASE ch \in Virtual
    <3>1. Sound(ch, blamed, Faults)
      BY <1>2, <2>3 DEF Alone, Kept
    <3>2. WithinOrTaken(ch.key, h, blamed, Faults)
      BY <1>4, <2>1, <2>2, <3>1, SoundRead
    <3> QED BY <3>2 DEF h
  <2>4. ASSUME NEW w \in writing, w.chunk.key = ch.key
        PROVE  WithinOrTaken(ch.key, b.held \cup Changes(b.loaded), blamed, Faults)
    <3>1. w.chunk \in Chunk /\ Whole(w.chunk) /\ w.chunk.data \subseteq h
      BY <1>2, <1>9, <2>2 DEF Alone, Informed
    <3>2. Sound(w.chunk, blamed, Faults)
      BY <3>1 DEF Sound
    <3>3. WithinOrTaken(w.chunk.key, h, blamed, Faults)
      BY <2>1, <3>1, <3>2, SoundRead
    <3> QED BY <2>4, <3>3 DEF h
  <2> QED BY <1>11, <2>3, <2>4
<1>14. Alone(b, Virtual, Doomed, blamed, Faults)
  <2>1. /\ {ch} \in SUBSET Chunk /\ b.awaited \subseteq actor[r].awaited
        /\ \A x \in {ch} : WithinOrTaken(x.key, b.held \cup Changes(b.loaded), blamed, Faults)
        /\ \A x \in Virtual : x.key.kind \in actor[r].awaited =>
             x.key.kind \in b.awaited \/ x \in b.loaded \/ actor[r].phase = "Ready"
    BY <1>4, <1>9, <1>13
  <2> QED BY <1>2, <1>3, <1>8, <1>9, <1>12, <2>1, ReadAlone
<1>15. /\ Doomed' = Doomed
  <2>1. GivenUp(b) = GivenUp(actor[r])
    BY <1>9 DEF GivenUp
  <2> QED BY <1>1, <1>10, <2>1, DoomedByOne
<1>16. ASSUME NEW k \in Kinds PROVE Walks(r, k)'
  <2>1. Walks(r, k) /\ Walks(r, kind) /\ Distinct(disk)
    BY <1>4 DEF FilesInv, kind
  <2>2. CASE k # kind
    BY <1>1, <1>7, <1>9, <1>10, <2>1, <2>2 DEF Walks
  <2>3. CASE k = kind
    <3>1. \A x \in disk : x.key = ch.key => x \in b.loaded
      BY <1>9, <2>1 DEF Distinct
    <3> QED BY <1>1, <1>6, <1>7, <1>8, <1>9, <1>10, <2>1, <2>3, <3>1 DEF Walks
  <2> QED BY <2>2, <2>3
<1>17. Faults' = Faults /\ ~fresh'
  BY <1>1, <1>2 DEF Faults
<1>18. Alone(actor'[r], Virtual, Doomed', blamed, Faults')
  BY <1>10, <1>14, <1>15, <1>17
<1>19. \A w \in writing : w.chunk \in actor'[r].putting
  BY <1>2, <1>9, <1>10
<1> QED BY <1>1, <1>15, <1>16, <1>17, <1>18, <1>19, SameFiles

(* A walk ends: a document that waits for it has read all there is.        *)
LEMMA WalkEndsFiles ==
    ASSUME OneRepo, FilesInv, FilesType', NEW r \in Repo, NEW kind \in Kinds,
           WalkEnds(r, kind), Remembered
    PROVE  FilesInv'
<1> DEFINE b == [actor[r] EXCEPT !.awaited = @ \ {kind}]
<1>1. /\ UNCHANGED <<disk, stale, fresh, backend, failures, cuts, writing, blamed>>
      /\ walk' = [walk EXCEPT ![r][kind] = NoWalk]
      /\ walk[r][kind].open /\ walk[r][kind].due \subseteq walk[r][kind].read
      /\ actor' = [actor EXCEPT ![r].awaited = @ \ {kind}]
  BY DEF WalkEnds, RestOfLoad, AllRead
<1>2. /\ TypeOK /\ Alone(actor[r], Virtual, Doomed, blamed, Faults) /\ actor[r] \in Actor
      /\ \A w \in writing : w.chunk \in actor[r].putting
  BY Facts DEF TypeOK
<1>3. /\ Virtual \in SUBSET Chunk /\ blamed \in SUBSET Change /\ Faults \in Nat
      /\ Doomed \in SUBSET Key
  BY VirtualType DEF FilesInv
<1>4. Walks(r, kind) /\ walk'[r][kind] = NoWalk /\ ~NoWalk.open
      /\ \A k \in Kinds : k # kind => walk'[r][k] = walk[r][k]
  BY <1>1 DEF FilesInv, FilesType, NoWalk
<1>5. actor[r].run # "Down"
  BY <1>1, <1>4 DEF Walks
<1>6. /\ b \in Actor
      /\ b.run = actor[r].run /\ b.phase = actor[r].phase /\ b.held = actor[r].held
      /\ b.saved = actor[r].saved /\ b.atOpen = actor[r].atOpen /\ b.onDisk = actor[r].onDisk
      /\ b.compacting = actor[r].compacting /\ b.supercedes = actor[r].supercedes
      /\ b.putting = actor[r].putting /\ b.written = actor[r].written
      /\ b.awaited = actor[r].awaited \ {kind} /\ b.loaded = actor[r].loaded
      /\ b.deleting = actor[r].deleting /\ b.deletions = actor[r].deletions
  BY <1>2 DEF Actor
<1>7. actor'[r] = b
  BY <1>1, <1>2 DEF TypeOK
<1> HIDE DEF b
<1>8. ASSUME NEW x \in Virtual, x.key.kind \in actor[r].awaited
      PROVE  x.key.kind \in b.awaited \/ x \in b.loaded \/ actor[r].phase = "Ready"
  <2>1. CASE actor[r].phase = "Loading" /\ x.key.kind = kind
    <3>1. x \in disk
      BY <2>1, NothingPending
    <3>2. x \in actor[r].loaded
      BY <1>1, <1>4, <2>1, <3>1 DEF Walks
    <3> QED BY <1>6, <3>2
  <2>2. actor[r].phase \in {"Loading", "Ready"}
    BY <1>2 DEF Actor
  <2> QED BY <1>6, <1>8, <2>1, <2>2
<1>9. Alone(b, Virtual, Doomed, blamed, Faults)
  <2>1. {} \in SUBSET Chunk /\ b.awaited \subseteq actor[r].awaited
        /\ b.loaded = actor[r].loaded \cup {} /\ Changes({}) \subseteq actor[r].held
        /\ \A x \in {} : WithinOrTaken(x.key, b.held \cup Changes(b.loaded), blamed, Faults)
    BY <1>6 DEF Changes
  <2> QED BY <1>2, <1>3, <1>5, <1>6, <1>8, <2>1, ReadAlone
<1>10. /\ Doomed' = Doomed
  <2>1. GivenUp(b) = GivenUp(actor[r])
    BY <1>6 DEF GivenUp
  <2> QED BY <1>1, <1>7, <2>1, DoomedByOne
<1>11. ASSUME NEW k \in Kinds PROVE Walks(r, k)'
  <2>1. Walks(r, k)
    BY DEF FilesInv
  <2> QED BY <1>1, <1>4, <1>6, <1>7, <2>1 DEF Walks
<1>12. Faults' = Faults
  BY <1>1 DEF Faults
<1>13. Alone(actor'[r], Virtual, Doomed', blamed, Faults')
  BY <1>7, <1>9, <1>10, <1>12
<1>14. \A w \in writing : w.chunk \in actor'[r].putting
  BY <1>2, <1>6, <1>7
<1>15. fresh' => fresh /\ actor'[r] = actor[r]
  <2>1. Absent.run = "Down"
    BY DEF Absent
  <2> QED BY <1>1, <1>5, <2>1 DEF FilesInv
<1> QED BY <1>1, <1>10, <1>11, <1>12, <1>13, <1>14, <1>15, SameFiles

----------------------------------------------------------------------------
(* Puts.                                                                   *)

(* A snapshot that is put where a delete is on its way is condemned.       *)
LEMMA PutCondemned ==
    ASSUME OneRepo, FilesInv, NEW r \in Repo, NEW ch \in actor[r].putting,
           IsSnapshot(ch), ch.key \in Doomed
    PROVE  Faults # 0 /\ Condemned(ch) = ch.data
<1>1. Faults # 0
  BY Facts DEF Alone, Agrees
<1>2. failures + cuts > 0
  BY <1>1 DEF FilesInv, FilesType, Faults
<1>3. \/ stale[ch.key] > 0
      \/ \E q \in Repo : ch.key \in actor[q].deletions \/ actor[q].deleting[ch.key] > 0
  BY DEF Doomed, GivenUp
<1> QED BY <1>1, <1>2, <1>3 DEF Condemned, IsSnapshot

(* A chunk that is being put is like no other whose file is rewritten.     *)
LEMMA OtherPuts ==
    ASSUME OneRepo, FilesInv, NEW r \in Repo, NEW ch \in actor[r].putting,
           NEW w \in writing
    PROVE  w = [repo |-> r, chunk |-> ch] \/ w.chunk.key # ch.key
<1>1. /\ w.chunk \in Tasks(actor[r]) /\ w = [repo |-> r, chunk |-> w.chunk]
      /\ actor[r] \in Actor /\ Informed(actor[r], blamed, Faults)
  BY Facts DEF TypeOK, Alone
<1>2. ch \in Tasks(actor[r])
  BY DEF Tasks
<1> QED BY <1>1, <1>2, SameTask

LEMMA PutReplacesFiles ==
    ASSUME OneRepo, FilesInv, FilesType', NEW r \in Repo, NEW ch \in actor[r].putting,
           PutReplaces(r, ch), Remembered
    PROVE  FilesInv'
<1> DEFINE C == blamed \cup Condemned(ch)
<1>1. /\ backend # "tokio" /\ PutExecutes(r, ch) /\ blamed' = C
      /\ UNCHANGED <<failures, writing, backend, cuts, walk>>
  BY DEF PutReplaces, Unchanged
<1>2. /\ TypeOK /\ Alone(actor[r], Virtual, Doomed, blamed, Faults) /\ actor[r] \in Actor
      /\ ch \in Chunk
  BY Facts DEF TypeOK, Actor
<1>3. /\ Virtual \in SUBSET Chunk /\ blamed \in SUBSET Change /\ Faults \in Nat
      /\ Doomed \in SUBSET Key
  BY VirtualType DEF FilesInv
<1>4. writing = {} /\ Virtual = disk
  BY <1>1, NothingPending
<1>5. MayStay(ch, Doomed, C, Faults)
  BY PutCondemned DEF MayStay
<1>6. C \in SUBSET Change /\ blamed \subseteq C
  BY <1>2, <1>3 DEF Condemned, Chunk
<1> HIDE DEF C
<1>7. Alone(actor[r], disk, Doomed, C, Faults)
  BY <1>2, <1>3, <1>4, <1>6, TakenAlone
<1>8. /\ Alone(actor'[r], disk', Doomed', C, Faults) /\ Stored' = Stored \cup ch.data
      /\ actor[r] # Absent /\ fresh' = fresh
  BY <1>1, <1>2, <1>3, <1>5, <1>6, <1>7, PutExecutesAlone
<1>9. Virtual' = disk' /\ Faults' = Faults /\ writing' = {}
  BY <1>1, <1>4 DEF Virtual, Filled, Faults
<1>10. /\ actor'[r].run = actor[r].run /\ actor'[r].phase = actor[r].phase
       /\ disk' = Others(ch) \cup {ch}
  BY <1>1, <1>2 DEF PutExecutes, TypeOK, Actor, Others
<1>11. Distinct(disk')
  BY <1>10 DEF FilesInv, Distinct, Others
<1>12. actor[r].phase # "Loading"
  BY <1>2 DEF Alone, Informed, Tasks
<1>13. ASSUME NEW k \in Kinds PROVE Walks(r, k)'
  BY <1>1, <1>10, <1>12 DEF FilesInv, Walks
<1>14. fresh' => disk' = {} /\ actor'[r] = Absent
  BY <1>8 DEF FilesInv
<1>15. Changes(Virtual) \subseteq Changes(Virtual') \cup blamed' /\ blamed \subseteq blamed'
  BY <1>1, <1>4, <1>6, <1>8, <1>9 DEF Stored
<1>16. Alone(actor'[r], Virtual', Doomed', blamed', Faults')
  BY <1>1, <1>8, <1>9
<1>17. \A w \in writing' : Fills(w)'
  BY <1>9
<1> QED BY <1>9, <1>11, <1>13, <1>14, <1>15, <1>16, <1>17, Assembled

LEMMA PutTruncatesFiles ==
    ASSUME OneRepo, FilesInv, FilesType', NEW r \in Repo, NEW ch \in actor[r].putting,
           PutTruncates(r, ch), Remembered
    PROVE  FilesInv'
<1> DEFINE C == blamed \cup Condemned(ch)
           W == With(Virtual, ch)
           new == [repo |-> r, chunk |-> ch]
<1>1. /\ backend = "tokio" /\ ch \notin Truncated(r) /\ blamed' = C
      /\ disk' = Others(ch) \cup {CutShort(ch)} /\ writing' = writing \cup {new}
      /\ UNCHANGED <<actor, stale, fresh, failures, backend, cuts, walk>>
  BY DEF PutTruncates, Unchanged
<1>2. /\ TypeOK /\ Alone(actor[r], Virtual, Doomed, blamed, Faults) /\ actor[r] \in Actor
      /\ ch \in Chunk /\ ch \in Tasks(actor[r])
      /\ \A w \in writing : w.repo = r /\ w.chunk \in Chunk /\ w.chunk \in actor[r].putting
      /\ fresh => actor[r] = Absent
  BY Facts DEF TypeOK, Actor, Tasks
<1>3. /\ Virtual \in SUBSET Chunk /\ blamed \in SUBSET Change /\ Faults \in Nat
      /\ Doomed \in SUBSET Key
  BY VirtualType DEF FilesInv
<1>4. new.repo = r /\ new.chunk = ch /\ CutShort(ch).key = ch.key /\ CutShort(ch).data = {}
  BY DEF CutShort
<1>5. new \notin writing
  BY <1>1, <1>4 DEF Truncated
<1>6. \A w \in writing : w.chunk.key # ch.key
  BY <1>5, OtherPuts
<1>7. MayStay(ch, Doomed, C, Faults)
  BY PutCondemned DEF MayStay
<1>8. C \in SUBSET Change /\ blamed \subseteq C
  BY <1>2, <1>3 DEF Condemned, Chunk
<1> HIDE DEF C, new
<1>9. \A w \in writing' : w \in writing \/ w = new
  BY <1>1
<1>10. \A k : k # ch.key =>
         ((\E y \in disk' : y.key = k) <=> (\E y \in disk : y.key = k))
  BY <1>1, <1>4 DEF Others
<1>11. Virtual' = W
  <2>1. ASSUME NEW x \in Virtual' PROVE x \in W
    <3>1. CASE x \in disk' /\ \A w \in writing' : w.chunk.key # x.key
      <4>1. x.key # ch.key /\ x \in disk /\ \A w \in writing : w.chunk.key # x.key
        BY <1>1, <1>4, <3>1 DEF Others
      <4> QED BY <4>1, FilledHas DEF Virtual, With
    <3>2. ASSUME NEW w \in writing', x = w.chunk, \E y \in disk' : y.key = x.key
          PROVE  x \in W
      <4>1. CASE w = new
        BY <1>4, <3>2, <4>1 DEF With
      <4>2. CASE w \in writing
        <5>1. x.key # ch.key
          BY <1>6, <3>2, <4>2
        <5>2. x \in Virtual
          BY <1>10, <3>2, <4>2, <5>1, FilledHas DEF Virtual
        <5> QED BY <5>1, <5>2 DEF With
      <4> QED BY <1>9, <4>1, <4>2
    <3>3. \/ x \in disk' /\ \A w \in writing' : w.chunk.key # x.key
          \/ \E w \in writing' : x = w.chunk /\ \E y \in disk' : y.key = x.key
      BY <2>1, FilledHas DEF Virtual
    <3> QED BY <3>1, <3>2, <3>3
  <2>2. ch \in Virtual'
    <3>1. new \in writing' /\ \E y \in disk' : y.key = ch.key
      BY <1>1, <1>4
    <3> QED BY <1>4, <3>1, FilledHas DEF Virtual
  <2>3. ASSUME NEW x \in Virtual, x.key # ch.key PROVE x \in Virtual'
    <3>1. CASE x \in disk /\ \A w \in writing : w.chunk.key # x.key
      <4>1. x \in disk' /\ \A w \in writing' : w.chunk.key # x.key
        BY <1>1, <1>4, <1>9, <2>3, <3>1 DEF Others
      <4> QED BY <4>1, FilledHas DEF Virtual
    <3>2. ASSUME NEW w \in writing, x = w.chunk, \E y \in disk : y.key = x.key
          PROVE  x \in Virtual'
      <4>1. w \in writing' /\ \E y \in disk' : y.key = x.key
        BY <1>1, <1>10, <2>3, <3>2
      <4> QED BY <3>2, <4>1, FilledHas DEF Virtual
    <3>3. \/ x \in disk /\ \A w \in writing : w.chunk.key # x.key
          \/ \E w \in writing : x = w.chunk /\ \E y \in disk : y.key = x.key
      BY <2>3, FilledHas DEF Virtual
    <3> QED BY <3>1, <3>2, <3>3
  <2> QED BY <2>1, <2>2, <2>3 DEF With
<1>12. Alone(actor[r], Virtual, Doomed, C, Faults)
  BY <1>2, <1>3, <1>8, TakenAlone
<1>13. /\ Alone(actor[r], W, Doomed, C, Faults) /\ Changes(W) = Changes(Virtual) \cup ch.data
       /\ IsSnapshot(ch) => Backed(ch.data, W, Doomed, C, Faults)
  <2>1. actor[r] \in Actor
    BY <1>2
  <2> QED BY <1>3, <1>7, <1>8, <1>12, <2>1, PutAlone
<1>14. Doomed' = Doomed /\ Faults' = Faults
  BY <1>1 DEF Doomed, Faults
<1>15. \A x \in Virtual : x.key # ch.key => x \in W
  BY DEF With
<1> HIDE DEF W
<1>16. ASSUME NEW w \in writing' PROVE Fills(w)'
  <2>1. CASE w = new
    <3>1. \A y \in disk' : y.key = ch.key => y.data = {}
      BY <1>1, <1>4 DEF Others
    <3> QED BY <1>1, <1>4, <1>11, <1>13, <1>14, <2>1, <3>1 DEF Fills
  <2>2. CASE w \in writing
    <3>1. Fills(w) /\ w.chunk \in actor[r].putting /\ w.repo = r
      BY <1>2, <2>2 DEF FilesInv
    <3>2. w.chunk.data \subseteq Changes(W) \cup C
      BY <1>8, <1>13, <3>1 DEF Fills
    <3>3. ASSUME IsSnapshot(w.chunk) PROVE Backed(w.chunk.data, W, Doomed, C, Faults)
      <4>1. ~IsSnapshot(ch)
        <5>1. w.chunk \in Tasks(actor[r]) /\ w.chunk # ch
          BY <1>6, <2>2, <3>1 DEF Tasks
        <5> QED BY <1>2, <3>3, <5>1 DEF Alone, Informed
      <4>2. Backed(w.chunk.data, Virtual, Doomed, C, Faults)
        <5>1. Backed(w.chunk.data, Virtual, Doomed, blamed, Faults)
          BY <3>1, <3>3 DEF Fills
        <5> QED BY <1>3, <1>8, <5>1, BackedMore
      <4>3. ASSUME NEW x \in Virtual, Keeps(x, w.chunk.data, Doomed) PROVE x \in W
        BY <1>15, <4>1, <4>3 DEF Keeps, IsSnapshot
      <4> QED BY <4>2, <4>3 DEF Backed
    <3>4. \A y \in disk' : y.key = w.chunk.key => y.data = {}
      BY <1>1, <1>4, <1>6, <2>2, <3>1 DEF Fills, Others
    <3> QED BY <1>1, <1>11, <1>14, <3>1, <3>2, <3>3, <3>4 DEF Fills
  <2> QED BY <1>9, <2>1, <2>2
<1>17. Distinct(disk')
  BY <1>1, <1>4 DEF FilesInv, Distinct, Others
<1>18. actor[r].phase # "Loading" /\ actor[r] # Absent
  <2>1. Tasks(Absent) = {}
    BY DEF Tasks, Absent
  <2> QED BY <1>2, <2>1 DEF Alone, Informed
<1>19. \A k \in Kinds : Walks(r, k)'
  BY <1>1, <1>18 DEF FilesInv, Walks
<1>20. /\ Alone(actor'[r], Virtual', Doomed', blamed', Faults')
       /\ Changes(Virtual) \subseteq Changes(Virtual') \cup blamed' /\ blamed \subseteq blamed'
  BY <1>1, <1>8, <1>11, <1>13, <1>14
<1>21. (fresh' => disk' = {} /\ actor'[r] = Absent) /\ backend' = "tokio"
  BY <1>1, <1>2, <1>18
<1> QED BY <1>16, <1>17, <1>19, <1>20, <1>21, Assembled

(* A put returns, whatever came of it: what storage should then have, it   *)
(* has, or the put is to blame.                                            *)
LEMMA PutReturnsAlone ==
    ASSUME OneRepo, TypeOK, NEW r \in Repo, NEW ch \in actor[r].putting,
           NEW V \in SUBSET Chunk, NEW B \in SUBSET Change, NEW n \in Nat,
           Alone(actor[r], V, Doomed, B, n),
           IsSnapshot(ch) => Backed(ch.data, V, Doomed, B, n),
           ch.data \subseteq Changes(V) \cup B,
           actor' = [actor EXCEPT ![r].putting = @ \ {ch}, ![r].written = @ \cup {ch}],
           stale' = stale
    PROVE  /\ Alone(actor'[r], V, Doomed', B, n) /\ Doomed' = Doomed
           /\ actor'[r].putting = actor[r].putting \ {ch}
           /\ actor'[r].run = actor[r].run /\ actor'[r].phase = actor[r].phase
<1> DEFINE b == [actor[r] EXCEPT !.putting = @ \ {ch}, !.written = @ \cup {ch}]
<1>1. /\ actor[r] \in Actor /\ Doomed \in SUBSET Key
      /\ \A k \in Key : stale[k] > 0 \/ k \in GivenUp(actor[r]) => k \in Doomed
  BY DoomedByOne DEF TypeOK
<1>2. actor'[r] = b
  BY DEF TypeOK
<1>3. ch \in Chunk
  BY <1>1 DEF Actor
<1>4. /\ b \in Actor
      /\ b.phase = actor[r].phase /\ b.held = actor[r].held /\ b.saved = actor[r].saved
      /\ b.atOpen = actor[r].atOpen /\ b.onDisk = actor[r].onDisk
      /\ b.compacting = actor[r].compacting /\ b.supercedes = actor[r].supercedes
      /\ b.awaited = actor[r].awaited /\ b.loaded = actor[r].loaded
      /\ b.run = actor[r].run
      /\ b.deleting = actor[r].deleting /\ b.deletions = actor[r].deletions
      /\ b.putting = actor[r].putting \ {ch} /\ b.written = actor[r].written \cup {ch}
  BY <1>1, <1>3 DEF Actor
<1> HIDE DEF b
<1>5. Alone(b, V, Doomed, B, n)
  BY <1>1, <1>4, ExecutedAlone
<1>6. GivenUp(b) = GivenUp(actor[r])
  BY <1>4 DEF GivenUp
<1>7. Alone(actor'[r], V, Doomed', B, n)
  BY <1>1, <1>2, <1>4, <1>5, <1>6, Becomes
<1>8. Doomed' = Doomed
  BY <1>2, <1>6, DoomedByOne
<1> QED BY <1>2, <1>4, <1>7, <1>8

LEMMA PutFillsFiles ==
    ASSUME OneRepo, FilesInv, FilesType', NEW r \in Repo, NEW ch \in actor[r].putting,
           PutFills(r, ch), Remembered
    PROVE  FilesInv'
<1> DEFINE new == [repo |-> r, chunk |-> ch]
<1>1. /\ ch \in Truncated(r) /\ UNCHANGED <<stale, fresh, failures, blamed, backend, cuts, walk>>
      /\ actor' = [actor EXCEPT ![r].putting = @ \ {ch}, ![r].written = @ \cup {ch}]
      /\ writing' = writing \ {new}
      /\ disk' = IF ch.key \in OnDiskKeys THEN Others(ch) \cup {ch} ELSE disk
  BY DEF PutFills, Unchanged
<1>2. /\ TypeOK /\ Alone(actor[r], Virtual, Doomed, blamed, Faults) /\ actor[r] \in Actor
      /\ \A w \in writing : w = [repo |-> r, chunk |-> w.chunk] /\ w.repo = r
      /\ fresh => actor[r] = Absent
  BY Facts DEF TypeOK
<1>3. /\ Virtual \in SUBSET Chunk /\ blamed \in SUBSET Change /\ Faults \in Nat
  BY VirtualType DEF FilesInv
<1>4. new \in writing /\ new.chunk = ch /\ new.repo = r
  BY <1>1, <1>2 DEF Truncated
<1>5. Fills(new)
  BY <1>4 DEF FilesInv
<1>6. /\ ch.data \subseteq Changes(Virtual) \cup blamed
      /\ IsSnapshot(ch) => Backed(ch.data, Virtual, Doomed, blamed, Faults)
  BY <1>4, <1>5 DEF Fills
<1>7. \A w \in writing' : w \in writing /\ w # new /\ w.chunk.key # ch.key
  BY <1>1, OtherPuts
<1>8. \A w \in writing : w \in writing' \/ w = new
  BY <1>1
<1> HIDE DEF new
<1>9. /\ Alone(actor'[r], Virtual, Doomed', blamed, Faults) /\ Doomed' = Doomed
      /\ actor'[r].putting = actor[r].putting \ {ch}
      /\ actor'[r].run = actor[r].run /\ actor'[r].phase = actor[r].phase
  BY <1>1, <1>2, <1>3, <1>6, PutReturnsAlone
<1>10. /\ \A y \in disk' : y \in disk \/ (y = ch /\ ch.key \in OnDiskKeys)
       /\ \A y \in disk' : y.key = ch.key => y = ch /\ ch.key \in OnDiskKeys
       /\ \A y \in disk : y.key # ch.key => y \in disk'
       /\ ch.key \in OnDiskKeys => ch \in disk'
  BY <1>1 DEF Others, OnDiskKeys
<1>11. \A k : (\E y \in disk' : y.key = k) <=> (\E y \in disk : y.key = k)
  BY <1>10 DEF OnDiskKeys
<1>12. Virtual' = Virtual
  <2>1. ASSUME NEW x \in Virtual' PROVE x \in Virtual
    <3>1. CASE x \in disk' /\ \A w \in writing' : w.chunk.key # x.key
      <4>1. CASE x.key = ch.key
        <5>1. x = new.chunk /\ \E y \in disk : y.key = x.key
          BY <1>4, <1>10, <1>11, <3>1, <4>1
        <5> QED BY <1>4, <5>1, FilledHas DEF Virtual
      <4>2. CASE x.key # ch.key
        <5>1. x \in disk /\ \A w \in writing : w.chunk.key # x.key
          BY <1>4, <1>8, <1>10, <3>1, <4>2
        <5> QED BY <5>1, FilledHas DEF Virtual
      <4> QED BY <4>1, <4>2
    <3>2. ASSUME NEW w \in writing', x = w.chunk, \E y \in disk' : y.key = x.key
          PROVE  x \in Virtual
      <4>1. w \in writing /\ \E y \in disk : y.key = x.key
        BY <1>7, <1>11, <3>2
      <4> QED BY <3>2, <4>1, FilledHas DEF Virtual
    <3>3. \/ x \in disk' /\ \A w \in writing' : w.chunk.key # x.key
          \/ \E w \in writing' : x = w.chunk /\ \E y \in disk' : y.key = x.key
      BY <2>1, FilledHas DEF Virtual
    <3> QED BY <3>1, <3>2, <3>3
  <2>2. ASSUME NEW x \in Virtual PROVE x \in Virtual'
    <3>1. CASE x \in disk /\ \A w \in writing : w.chunk.key # x.key
      <4>1. x \in disk' /\ \A w \in writing' : w.chunk.key # x.key
        BY <1>4, <1>7, <1>10, <3>1
      <4> QED BY <4>1, FilledHas DEF Virtual
    <3>2. ASSUME NEW w \in writing, x = w.chunk, \E y \in disk : y.key = x.key
          PROVE  x \in Virtual'
      <4>1. CASE w = new
        <5>1. x \in disk' /\ \A v \in writing' : v.chunk.key # x.key
          BY <1>4, <1>7, <1>10, <3>2, <4>1 DEF OnDiskKeys
        <5> QED BY <5>1, FilledHas DEF Virtual
      <4>2. CASE w \in writing'
        <5>1. \E y \in disk' : y.key = x.key
          BY <1>11, <3>2
        <5> QED BY <3>2, <4>2, <5>1, FilledHas DEF Virtual
      <4> QED BY <1>8, <4>1, <4>2
    <3>3. \/ x \in disk /\ \A w \in writing : w.chunk.key # x.key
          \/ \E w \in writing : x = w.chunk /\ \E y \in disk : y.key = x.key
      BY <2>2, FilledHas DEF Virtual
    <3> QED BY <3>1, <3>2, <3>3
  <2> QED BY <2>1, <2>2
<1>13. Faults' = Faults /\ blamed' = blamed
  BY <1>1 DEF Faults
<1>14. ASSUME NEW w \in writing' PROVE Fills(w)'
  <2>1. Fills(w) /\ w.repo = r /\ w.chunk.key # ch.key
    BY <1>2, <1>7 DEF FilesInv
  <2>2. w.chunk \in actor'[r].putting
    BY <1>9, <2>1 DEF Fills
  <2>3. \A y \in disk' : y.key = w.chunk.key => y.data = {}
    BY <1>10, <2>1 DEF Fills
  <2> QED BY <1>9, <1>12, <1>13, <2>1, <2>2, <2>3 DEF Fills
<1>15. Distinct(disk')
  BY <1>10 DEF FilesInv, Distinct
<1>16. actor[r].phase # "Loading" /\ actor[r] # Absent
  <2>1. ch \in Tasks(actor[r]) /\ Tasks(Absent) = {}
    BY DEF Tasks, Absent
  <2> QED BY <1>2, <2>1 DEF Alone, Informed
<1>17. \A k \in Kinds : Walks(r, k)'
  BY <1>1, <1>9, <1>16 DEF FilesInv, Walks
<1>18. /\ Alone(actor'[r], Virtual', Doomed', blamed', Faults')
       /\ Changes(Virtual) \subseteq Changes(Virtual') \cup blamed' /\ blamed \subseteq blamed'
  BY <1>9, <1>12, <1>13
<1>19. fresh' => disk' = {} /\ actor'[r] = Absent
  BY <1>1, <1>2, <1>16
<1>20. backend' # "tokio" => writing' = {}
  BY <1>1 DEF FilesInv
<1> QED BY <1>14, <1>15, <1>17, <1>18, <1>19, <1>20, Assembled

LEMMA PutFailsFiles ==
    ASSUME OneRepo, FilesInv, FilesType', NEW r \in Repo, NEW ch \in actor[r].putting,
           PutFails(r, ch), Remembered
    PROVE  FilesInv'
<1> DEFINE new == [repo |-> r, chunk |-> ch]
           C == blamed \cup ch.data
<1>1. /\ UNCHANGED <<disk, stale, fresh, backend, cuts, walk>> /\ failures' = failures + 1
      /\ actor' = [actor EXCEPT ![r].putting = @ \ {ch}, ![r].written = @ \cup {ch}]
      /\ writing' = writing \ {new} /\ blamed' = C
  BY DEF PutFails, Unchanged
<1>2. /\ FilesType /\ TypeOK /\ Alone(actor[r], Virtual, Doomed, blamed, Faults)
      /\ actor[r] \in Actor
      /\ \A w \in writing : /\ w = [repo |-> r, chunk |-> w.chunk] /\ w.repo = r
                            /\ w.chunk \in Chunk
      /\ \A w \in writing, y \in disk : y.key = w.chunk.key => y.data = {}
      /\ fresh => actor[r] = Absent
  BY Facts DEF TypeOK
<1>3. /\ Virtual \in SUBSET Chunk /\ blamed \in SUBSET Change /\ Faults \in Nat
      /\ Doomed \in SUBSET Key /\ disk \in SUBSET Chunk
  BY VirtualType DEF FilesInv
<1>4. Virtual' \in SUBSET Chunk
  BY <1>1, <1>2, <1>3, FilledHas DEF Virtual
<1>5. ch \in Chunk /\ C \in SUBSET Change /\ blamed \subseteq C /\ ch.data \subseteq C
  <2>1. ch \in Chunk
    BY <1>2 DEF Actor
  <2> QED BY <1>3, <2>1 DEF Chunk
<1>6. Faults' \in Nat /\ Faults' # 0
  BY <1>1, <1>2 DEF FilesType, Faults
<1>7. \A w \in writing' : w \in writing /\ w # new /\ w.chunk.key # ch.key
  BY <1>1, OtherPuts
<1>8. (\A w \in writing : w \in writing' \/ w = new) /\ new.chunk = ch
  BY <1>1
<1> HIDE DEF new, C
<1>9. actor[r].phase = "Ready" /\ actor[r] # Absent
  <2>1. ch \in Tasks(actor[r]) /\ Tasks(Absent) = {} /\ actor[r].phase \in {"Loading", "Ready"}
    BY <1>2 DEF Tasks, Absent, Actor
  <2> QED BY <1>2, <2>1 DEF Alone, Informed
<1>10. ASSUME NEW x \in Virtual'
       PROVE  \/ x \in Virtual
              \/ Faults' # 0 /\ \E y \in Virtual : x = CutShort(y) /\ y.data \subseteq C
  <2>1. CASE x \in disk /\ \A w \in writing' : w.chunk.key # x.key
    <3>1. CASE \A w \in writing : w.chunk.key # x.key
      BY <2>1, <3>1, FilledHas DEF Virtual
    <3>2. CASE new \in writing /\ ch.key = x.key
      <4>1. x.data = {} /\ x \in Chunk
        BY <1>2, <1>3, <1>8, <2>1, <3>2
      <4>2. x = CutShort(ch)
        BY <3>2, <4>1 DEF Chunk, CutShort
      <4>3. ch \in Virtual
        BY <1>8, <2>1, <3>2, FilledHas DEF Virtual
      <4> QED BY <1>5, <1>6, <4>2, <4>3
    <3> QED BY <1>8, <2>1, <3>1, <3>2
  <2>2. ASSUME NEW w \in writing', x = w.chunk, \E y \in disk : y.key = x.key
        PROVE  x \in Virtual
    BY <1>7, <2>2, FilledHas DEF Virtual
  <2>3. \/ x \in disk /\ \A w \in writing' : w.chunk.key # x.key
        \/ \E w \in writing' : x = w.chunk /\ \E y \in disk : y.key = x.key
    BY <1>1, <1>10, FilledHas DEF Virtual
  <2> QED BY <2>1, <2>2, <2>3
<1>11. ASSUME NEW x \in Virtual
       PROVE  x \in Virtual' \/ (Faults' # 0 /\ x.data \subseteq C)
  <2>1. CASE x \in disk /\ \A w \in writing : w.chunk.key # x.key
    <3>1. x \in disk' /\ \A w \in writing' : w.chunk.key # x.key
      BY <1>1, <1>7, <2>1
    <3> QED BY <3>1, FilledHas DEF Virtual
  <2>2. ASSUME NEW w \in writing, x = w.chunk, \E y \in disk : y.key = x.key
        PROVE  x \in Virtual' \/ (Faults' # 0 /\ x.data \subseteq C)
    <3>1. CASE w = new
      BY <1>5, <1>6, <1>8, <2>2, <3>1
    <3>2. CASE w \in writing'
      <4>1. \E y \in disk' : y.key = x.key
        BY <1>1, <2>2
      <4> QED BY <2>2, <3>2, <4>1, FilledHas DEF Virtual
    <3> QED BY <1>8, <3>1, <3>2
  <2>3. \/ x \in disk /\ \A w \in writing : w.chunk.key # x.key
        \/ \E w \in writing : x = w.chunk /\ \E y \in disk : y.key = x.key
    BY <1>11, FilledHas DEF Virtual
  <2> QED BY <2>1, <2>2, <2>3
<1>12. Alone(actor[r], Virtual, Doomed, C, Faults')
  BY <1>2, <1>3, <1>5, <1>6, TakenAlone
<1>13. /\ Alone(actor[r], Virtual', Doomed, C, Faults')
       /\ Changes(Virtual) \subseteq Changes(Virtual') \cup C
       /\ \A h : Backed(h, Virtual, Doomed, C, Faults') => Backed(h, Virtual', Doomed, C, Faults')
  <2>1. actor[r] \in Actor /\ actor[r].phase = "Ready"
    BY <1>2, <1>9
  <2>2. /\ Virtual \in SUBSET Chunk /\ Virtual' \in SUBSET Chunk /\ Doomed \in SUBSET Key
        /\ C \in SUBSET Change /\ Faults' \in Nat
    BY <1>3, <1>4, <1>5, <1>6
  <2>3. /\ Changes(Virtual) \subseteq Changes(Virtual') \cup C
        /\ \A h : Backed(h, Virtual, Doomed, C, Faults') => Backed(h, Virtual', Doomed, C, Faults')
        /\ \A a \in Actor : Alone(a, Virtual, Doomed, C, Faults') /\ a.phase = "Ready" =>
             Alone(a, Virtual', Doomed, C, Faults')
    BY <1>10, <1>11, <2>2, CutAlone
  <2> QED BY <1>12, <2>1, <2>3
<1>14. /\ Alone(actor'[r], Virtual', Doomed', C, Faults') /\ Doomed' = Doomed
       /\ actor'[r].putting = actor[r].putting \ {ch}
       /\ actor'[r].run = actor[r].run /\ actor'[r].phase = actor[r].phase
  <2>1. /\ ch.data \subseteq Changes(Virtual') \cup C
        /\ IsSnapshot(ch) => Backed(ch.data, Virtual', Doomed, C, Faults')
    BY <1>5, <1>6 DEF Backed
  <2> QED BY <1>1, <1>2, <1>4, <1>5, <1>6, <1>13, <2>1, PutReturnsAlone
<1>15. ASSUME NEW w \in writing' PROVE Fills(w)'
  <2>1. Fills(w) /\ w.repo = r /\ w.chunk.key # ch.key
    BY <1>2, <1>7 DEF FilesInv
  <2>2. w.chunk \in actor'[r].putting
    BY <1>14, <2>1 DEF Fills
  <2>3. w.chunk.data \subseteq Changes(Virtual') \cup C
    BY <1>5, <1>13, <2>1 DEF Fills
  <2>4. ASSUME IsSnapshot(w.chunk) PROVE Backed(w.chunk.data, Virtual', Doomed', C, Faults')
    <3>1. Backed(w.chunk.data, Virtual, Doomed, blamed, Faults)
      BY <2>1, <2>4 DEF Fills
    <3>2. Backed(w.chunk.data, Virtual, Doomed, C, Faults')
      BY <1>3, <1>5, <1>6, <3>1, BackedMore
    <3> QED BY <1>13, <1>14, <3>2
  <2> QED BY <1>1, <2>1, <2>2, <2>3, <2>4 DEF Fills
<1>16. \A k \in Kinds : Walks(r, k)'
  BY <1>1, <1>9, <1>14 DEF FilesInv, Walks
<1>17. /\ Alone(actor'[r], Virtual', Doomed', blamed', Faults')
       /\ Changes(Virtual) \subseteq Changes(Virtual') \cup blamed' /\ blamed \subseteq blamed'
  BY <1>1, <1>5, <1>13, <1>14
<1>18. fresh' => disk' = {} /\ actor'[r] = Absent
  BY <1>1, <1>2, <1>9
<1>19. (backend' # "tokio" => writing' = {}) /\ Distinct(disk')
  BY <1>1 DEF FilesInv
<1> QED BY <1>15, <1>16, <1>17, <1>18, <1>19, Assembled

----------------------------------------------------------------------------
(* The process dies.                                                       *)
LEMMA DieFiles ==
    ASSUME OneRepo, FilesInv, FilesType', NEW r \in Repo, Die(r), Remembered
    PROVE  FilesInv'
<1> DEFINE C == blamed \cup Changes(Truncated(r))
<1>1. /\ cuts' = cuts + Cardinality(Truncated(r)) /\ blamed' = C
      /\ actor' = [actor EXCEPT ![r] = Absent] /\ writing' = {w \in writing : w.repo # r}
      /\ walk' = [walk EXCEPT ![r] = NoWalks]
      /\ UNCHANGED <<disk, stale, fresh, backend, failures>>
  BY DEF Die
<1>2. /\ FilesType /\ TypeOK /\ Alone(actor[r], Virtual, Doomed, blamed, Faults)
      /\ actor[r] \in Actor
      /\ \A w \in writing : w = [repo |-> r, chunk |-> w.chunk] /\ w.repo = r
      /\ \A w \in writing, y \in disk : y.key = w.chunk.key => y.data = {}
      /\ fresh => disk = {}
  BY Facts DEF TypeOK
<1>3. /\ Virtual \in SUBSET Chunk /\ blamed \in SUBSET Change /\ Faults \in Nat
      /\ Doomed \in SUBSET Key /\ disk \in SUBSET Chunk
  BY VirtualType DEF FilesInv
<1>4. C \in SUBSET Change /\ blamed \subseteq C
  BY <1>1, <1>3 DEF FilesType
<1>5. \A w \in writing : w.chunk \in Truncated(r) /\ w.chunk.data \subseteq C
  BY <1>2 DEF Truncated, Changes
<1> HIDE DEF C
<1>6. writing' = {} /\ Virtual' = disk
  BY <1>1, <1>2 DEF Virtual, Filled
<1>7. /\ Faults' \in Nat
      /\ Faults # 0 => Faults' # 0
      /\ writing # {} => Faults' # 0
  <2>1. IsFiniteSet(Truncated(r))
    <3> DEFINE mine == {v \in writing : v.repo = r}
    <3>1. IsFiniteSet(mine)
      BY <1>2, FS_Subset DEF FilesType
    <3> DEFINE file == [w \in mine |-> w.chunk]
    <3>2. file \in Surjection(mine, Truncated(r))
      BY DEF Surjection, Truncated
    <3> HIDE DEF mine, file
    <3> QED BY <3>1, <3>2, FS_Surjection
  <2>2. Cardinality(Truncated(r)) \in Nat
    BY <2>1, FS_CardinalityType
  <2>3. writing # {} => Cardinality(Truncated(r)) # 0
    BY <1>5, <2>1, FS_EmptySet
  <2>4. failures' = failures /\ failures \in Nat /\ cuts \in Nat
    BY <1>1, <1>2 DEF FilesType
  <2>5. (cuts # 0 => cuts' # 0) /\ (writing # {} => cuts' # 0)
    BY <1>1, <2>2, <2>3, <2>4
  <2> QED BY <2>4, <2>5 DEF Faults
<1>8. ASSUME NEW x \in disk
      PROVE  \/ x \in Virtual
             \/ Faults' # 0 /\ \E y \in Virtual : x = CutShort(y) /\ y.data \subseteq C
  <2>1. CASE \A w \in writing : w.chunk.key # x.key
    BY <2>1, FilledHas DEF Virtual
  <2>2. ASSUME NEW w \in writing, w.chunk.key = x.key
        PROVE  Faults' # 0 /\ \E y \in Virtual : x = CutShort(y) /\ y.data \subseteq C
    <3>1. x.data = {} /\ x \in Chunk
      BY <1>2, <1>3, <2>2
    <3>2. x = CutShort(w.chunk)
      BY <2>2, <3>1 DEF Chunk, CutShort
    <3>3. w.chunk \in Virtual
      BY <2>2, FilledHas DEF Virtual
    <3> QED BY <1>5, <1>7, <3>2, <3>3
  <2> QED BY <2>1, <2>2
<1>9. ASSUME NEW x \in Virtual PROVE x \in disk \/ (Faults' # 0 /\ x.data \subseteq C)
  BY <1>5, <1>7, FilledHas DEF Virtual
<1>10. Kept(Virtual, Doomed, C, Faults')
  <2>1. Kept(Virtual, Doomed, blamed, Faults)
    BY <1>2 DEF Alone
  <2> QED BY <1>2, <1>3, <1>4, <1>7, <2>1, TakenAlone
<1>11. Kept(disk, Doomed, C, Faults') /\ Changes(Virtual) \subseteq Changes(disk) \cup C
  BY <1>3, <1>4, <1>7, <1>8, <1>9, <1>10, CutAlone
<1>12. actor'[r] = Absent /\ walk'[r] = NoWalks
  BY <1>1, <1>2 DEF FilesType, TypeOK
<1>13. Alone(actor'[r], disk, Doomed', C, Faults')
  BY <1>1, <1>2, <1>3, <1>4, <1>7, <1>11, <1>12, DeadAlone
<1>14. \A k \in Kinds : Walks(r, k)'
  BY <1>12, NoWalksLeft
<1>15. /\ Alone(actor'[r], Virtual', Doomed', blamed', Faults')
       /\ Changes(Virtual) \subseteq Changes(Virtual') \cup blamed' /\ blamed \subseteq blamed'
  BY <1>1, <1>4, <1>6, <1>11, <1>13
<1>16. fresh' => disk' = {} /\ actor'[r] = Absent
  BY <1>1, <1>2, <1>12
<1>17. /\ Distinct(disk') /\ \A w \in writing' : Fills(w)'
  BY <1>1, <1>6 DEF FilesInv
<1> QED BY <1>6, <1>14, <1>15, <1>16, <1>17, Assembled

----------------------------------------------------------------------------
(* A delete is executed.                                                   *)
LEMMA RemoveFiles ==
    ASSUME OneRepo, FilesInv, FilesType', NEW r \in Repo, NEW k \in Key, Remove(k),
           Remembered
    PROVE  FilesInv'
<1>1. /\ DeleteExecutes(r, k) \/ StaleDelete(k)
      /\ UNCHANGED <<backend, failures, cuts, writing, blamed>> /\ Unlisted(k)
  BY DEF Remove, OneRepo
<1>2. /\ TypeOK /\ Alone(actor[r], Virtual, Doomed, blamed, Faults) /\ actor[r] \in Actor
      /\ fresh => disk = {} /\ actor[r] = Absent
      /\ \A w \in writing : w.repo = r
  BY Facts DEF TypeOK
<1>3. Virtual \in SUBSET Chunk /\ blamed \in SUBSET Change /\ Faults \in Nat
  BY VirtualType DEF FilesInv
<1>4. /\ Alone(actor'[r], Without(Virtual, k), Doomed', blamed, Faults)
      /\ Changes(Virtual) \subseteq Changes(Without(Virtual, k)) \cup blamed
      /\ disk' = Without(disk, k) /\ fresh' = fresh /\ k \in Doomed /\ Doomed' \subseteq Doomed
      /\ actor'[r].putting = actor[r].putting /\ actor'[r].phase = actor[r].phase
      /\ actor'[r].loaded = actor[r].loaded /\ actor'[r].run = actor[r].run
  <2>1. TypeOK /\ Alone(actor[r], Virtual, Doomed, blamed, Faults)
    BY <1>2
  <2>2. DeleteExecutes(r, k) \/ StaleDelete(k)
    BY <1>1
  <2> QED BY <1>3, <2>1, <2>2, DeleteAlone
<1>5. \A x : x \in disk' <=> x \in disk /\ x.key # k
  BY <1>4 DEF Without
<1>6. Virtual' = Without(Virtual, k)
  <2>1. ASSUME NEW x \in Virtual' PROVE x \in Virtual /\ x.key # k
    <3>1. CASE x \in disk' /\ \A w \in writing : w.chunk.key # x.key
      BY <1>5, <3>1, FilledHas DEF Virtual
    <3>2. ASSUME NEW w \in writing, x = w.chunk, \E y \in disk' : y.key = x.key
          PROVE  x \in Virtual /\ x.key # k
      <4>1. x.key # k /\ \E y \in disk : y.key = x.key
        BY <1>5, <3>2
      <4> QED BY <3>2, <4>1, FilledHas DEF Virtual
    <3>3. \/ x \in disk' /\ \A w \in writing : w.chunk.key # x.key
          \/ \E w \in writing : x = w.chunk /\ \E y \in disk' : y.key = x.key
      BY <1>1, <2>1, FilledHas DEF Virtual
    <3> QED BY <3>1, <3>2, <3>3
  <2>2. ASSUME NEW x \in Virtual, x.key # k PROVE x \in Virtual'
    <3>1. CASE x \in disk /\ \A w \in writing : w.chunk.key # x.key
      <4>1. x \in disk' /\ \A w \in writing' : w.chunk.key # x.key
        BY <1>1, <1>5, <2>2, <3>1
      <4> QED BY <4>1, FilledHas DEF Virtual
    <3>2. ASSUME NEW w \in writing, x = w.chunk, \E y \in disk : y.key = x.key
          PROVE  x \in Virtual'
      <4>1. w \in writing' /\ \E y \in disk' : y.key = x.key
        BY <1>1, <1>5, <2>2, <3>2
      <4> QED BY <3>2, <4>1, FilledHas DEF Virtual
    <3>3. \/ x \in disk /\ \A w \in writing : w.chunk.key # x.key
          \/ \E w \in writing : x = w.chunk /\ \E y \in disk : y.key = x.key
      BY <2>2, FilledHas DEF Virtual
    <3> QED BY <3>1, <3>2, <3>3
  <2> QED BY <2>1, <2>2 DEF Without
<1>7. Faults' = Faults /\ blamed' = blamed
  BY <1>1 DEF Faults
<1>8. ASSUME NEW w \in writing' PROVE Fills(w)'
  <2>1. Fills(w) /\ w.repo = r
    BY <1>1, <1>2, <1>8 DEF FilesInv
  <2>2. w.chunk.data \subseteq Changes(Virtual') \cup blamed
    BY <1>4, <1>6, <2>1 DEF Fills
  <2>3. ASSUME IsSnapshot(w.chunk)
        PROVE  Backed(w.chunk.data, Virtual', Doomed', blamed, Faults)
    <3>1. Backed(w.chunk.data, Virtual, Doomed, blamed, Faults)
      BY <2>1, <2>3 DEF Fills
    <3>2. ASSUME NEW x \in Virtual, Keeps(x, w.chunk.data, Doomed)
          PROVE  x \in Virtual' /\ Keeps(x, w.chunk.data, Doomed')
      BY <1>4, <1>6, <3>2 DEF Keeps, Without
    <3> QED BY <3>1, <3>2 DEF Backed
  <2>4. \A y \in disk' : y.key = w.chunk.key => y.data = {}
    BY <1>5, <2>1 DEF Fills
  <2> QED BY <1>4, <1>7, <2>1, <2>2, <2>3, <2>4 DEF Fills
<1>9. ASSUME NEW kind \in Kinds PROVE Walks(r, kind)'
  <2>1. Walks(r, kind) /\ walk[r] \in [Kinds -> [open : BOOLEAN, due : SUBSET Key, read : SUBSET Key]]
    BY <1>2 DEF FilesInv, FilesType
  <2>2. walk'[r] = [walk[r] EXCEPT ![k.kind].due = @ \ {k}]
    BY <1>1 DEF Unlisted
  <2>3. /\ walk'[r][kind].open = walk[r][kind].open /\ walk'[r][kind].read = walk[r][kind].read
        /\ \A key \in walk[r][kind].due : key = k \/ key \in walk'[r][kind].due
    BY <2>1, <2>2
  <2> QED BY <1>4, <1>5, <2>1, <2>3 DEF Walks
<1>10. fresh' => disk' = {} /\ actor'[r] = Absent
  <2>1. Absent.deleting[k] = 0
    BY DEF Absent, NoDeletes
  <2>2. actor[r] = Absent => ~DeleteExecutes(r, k)
    BY <2>1 DEF DeleteExecutes
  <2>3. StaleDelete(k) => actor' = actor
    BY DEF StaleDelete
  <2> QED BY <1>1, <1>2, <1>4, <1>5, <2>2, <2>3
<1>11. Distinct(disk') /\ (backend' # "tokio" => writing' = {})
  BY <1>1, <1>5 DEF FilesInv, Distinct
<1>12. /\ Alone(actor'[r], Virtual', Doomed', blamed', Faults')
       /\ Changes(Virtual) \subseteq Changes(Virtual') \cup blamed' /\ blamed \subseteq blamed'
  BY <1>4, <1>6, <1>7
<1> QED BY <1>8, <1>9, <1>10, <1>11, <1>12, Assembled

----------------------------------------------------------------------------
(* Every step.                                                             *)

LEMMA FilesStep == ASSUME OneRepo, FilesInv, [FilesNext]_allVars PROVE FilesInv'
<1>1. FilesType'
  BY FilesTypeStep DEF FilesInv
<1> DEFINE Goal == FilesInv'
<1> HIDE DEF Goal
<1>2. CASE UNCHANGED allVars
  <2>1. /\ UNCHANGED vars /\ UNCHANGED <<backend, writing, walk, blamed, cuts>>
        /\ failures' = failures /\ durable' = durable
    BY <1>2 DEF allVars, fileVars
  <2> QED BY <1>1, <2>1, IdleFiles
<1>3. ASSUME Remembered, NEW r \in Repo, LoaderRuns(r) PROVE Goal
  <2>1. /\ UNCHANGED vars /\ UNCHANGED <<backend, writing, walk, blamed, cuts>>
        /\ failures' = failures \/ failures' = failures + 1
    BY <1>3 DEF LoaderRuns, Rest, L!Begin, L!LoaderStep, L!IdLoaded, L!NewId,
       L!TruncateId, L!PutId, L!PutIdFails
  <2> QED BY <1>1, <1>3, <2>1, IdleFiles DEF Goal
<1>4. ASSUME Remembered, NEW r \in Repo, Handler(r),
             UNCHANGED <<backend, writing, walk, blamed, failures, cuts>>
      PROVE  Goal
  BY <1>1, <1>4, HandlerFiles DEF Goal
<1>5. ASSUME Remembered, NEW r \in Repo, ActorActs(r) PROVE Goal
  <2>1. /\ UNCHANGED fileVars
        /\ \/ \E S \in SUBSET Change : Create(r, S)
           \/ Handler(r)
    BY <1>5 DEF ActorActs, Handler
  <2>2. UNCHANGED <<backend, writing, walk, blamed, failures, cuts>>
    BY <2>1 DEF fileVars
  <2> QED BY <1>1, <1>4, <1>5, <2>1, <2>2, CreateFiles DEF Goal
<1>6. ASSUME Remembered, NEW r \in Repo, OpenDocument(r) PROVE Goal
  BY <1>1, <1>6, OpenFiles DEF Goal
<1>7. ASSUME Remembered, NEW r \in Repo, StopRepo(r) PROVE Goal
  <2>1. Handler(r) /\ UNCHANGED <<backend, writing, walk, blamed, failures, cuts>>
    BY <1>7 DEF StopRepo, Rest, Handler
  <2> QED BY <1>4, <1>7, <2>1
<1>8. ASSUME Remembered, NEW r \in Repo, Die(r) PROVE Goal
  BY <1>1, <1>8, DieFiles DEF Goal
<1>9. ASSUME Remembered, NEW r \in Repo, Complete(r) PROVE Goal
  <2>1. Handler(r) /\ UNCHANGED <<backend, writing, walk, blamed, failures, cuts>>
    BY <1>9 DEF Complete, Handler, fileVars
  <2> QED BY <1>4, <1>9, <2>1
<1>10. ASSUME Remembered, NEW r \in Repo, NEW ch \in actor[r].putting,
              PutTruncates(r, ch) \/ PutFills(r, ch) \/ PutReplaces(r, ch) \/ PutFails(r, ch)
       PROVE  Goal
  BY <1>1, <1>10, PutTruncatesFiles, PutFillsFiles, PutReplacesFiles, PutFailsFiles DEF Goal
<1>11. ASSUME Remembered, NEW r \in Repo, NEW kind \in Kinds,
              RangeRead(r, kind) \/ WalkBegins(r, kind) \/ WalkEnds(r, kind)
       PROVE  Goal
  BY <1>1, <1>11, RangeFiles, WalkBeginsFiles, WalkEndsFiles DEF Goal
<1>12. ASSUME Remembered, NEW r \in Repo, NEW ch \in disk, WalkReads(r, ch) PROVE Goal
  BY <1>1, <1>12, WalkReadsFiles DEF Goal
<1>13. ASSUME Remembered, NEW r \in Repo, FileStep(r) PROVE Goal
  BY <1>9, <1>10, <1>11, <1>12, <1>13 DEF FileStep
<1>14. ASSUME Remembered, NEW k \in Key, Remove(k) PROVE Goal
  <2>1. PICK r \in Repo : TRUE
    BY DEF OneRepo
  <2> QED BY <1>1, <1>14, <2>1, RemoveFiles DEF Goal
<1>15. FilesNext => Goal
  BY <1>3, <1>5, <1>6, <1>7, <1>8, <1>13, <1>14 DEF FilesNext
<1> QED BY <1>2, <1>15 DEF Goal

LEMMA FilesAtFirst == ASSUME OneRepo, FilesInit PROVE FilesInv
<1>1. /\ Init /\ writing = {} /\ cuts = 0 /\ blamed = {} /\ durable = {}
      /\ walk = [r \in Repo |-> NoWalks] /\ failures = 0
  BY DEF FilesInit, L!LoaderInit
<1>2. AloneInv
  BY <1>1, AloneAtFirst
<1>3. disk = {} /\ \A r \in Repo : actor[r] = Absent
  BY <1>1 DEF Init
<1>4. Virtual = disk /\ Faults = 0
  BY <1>1 DEF Virtual, Filled, Faults
<1>5. NoWalks \in [Kinds -> [open : BOOLEAN, due : SUBSET Key, read : SUBSET Key]]
  BY DEF NoWalks, NoWalk
<1>6. FilesType
  BY <1>1, <1>2, <1>5, FS_EmptySet DEF FilesType, AloneInv
<1>7. \A r \in Repo : Alone(actor[r], Virtual, Doomed, blamed, Faults)
  BY <1>1, <1>2, <1>4 DEF AloneInv
<1>8. \A r \in Repo, kind \in Kinds : Walks(r, kind)
  BY <1>1 DEF Walks, NoWalks, NoWalk
<1> QED BY <1>1, <1>3, <1>6, <1>7, <1>8 DEF FilesInv, Distinct

LEMMA FilesAlways == ASSUME OneRepo PROVE FilesSpec => []FilesInv
<1>1. FilesInit => FilesInv
  BY FilesAtFirst
<1>2. FilesInv /\ [FilesNext]_allVars => FilesInv'
  BY FilesStep
<1> QED BY <1>1, <1>2, PTL DEF FilesSpec

(* Whatever order a repo's files are written, replaced, listed and removed *)
(* in, and wherever its process dies: what was once in storage is there,   *)
(* or its file is being rewritten, or the put that held it failed, was cut *)
(* short or condemned (filesystem.rs:124-145, on_disk_state.rs:121-137).   *)
THEOREM OneRepoLosesByFaults == ASSUME OneRepo PROVE FilesSpec => []LostOnlyByFaults
<1>1. ASSUME FilesInv PROVE LostOnlyByFaults
  <2>1. durable \subseteq Changes(Virtual) \cup blamed
    BY <1>1 DEF FilesInv
  <2>2. ASSUME NEW x \in Virtual PROVE x.data \subseteq Stored \cup InRewrite
    <3>1. CASE x \in disk
      BY <3>1 DEF Stored, Changes
    <3>2. CASE \E w \in writing : x = w.chunk
      BY <3>2 DEF InRewrite
    <3> QED BY <2>2, <3>1, <3>2, FilledHas DEF Virtual
  <2>3. Changes(Virtual) \subseteq Stored \cup InRewrite
    BY <2>2 DEF Changes
  <2> QED BY <2>1, <2>3 DEF LostOnlyByFaults
<1> QED BY <1>1, FilesAlways, PTL

(* A load that walks two directories while files are removed from them     *)
(* finds every change that was stored when it began, whatever part of the  *)
(* listing is stale (filesystem.rs:71-122, 215-292).                       *)
THEOREM OneRepoWalksFindAll == ASSUME OneRepo PROVE FilesSpec => WalksFindAll
<1>1. ASSUME FilesInv, [FilesNext]_allVars
      PROVE  [\A r \in Repo, S \in SUBSET Change :
                LoadDone(r, S) => actor[r].atOpen \subseteq actor'[r].held \cup blamed]_allVars
  <2> SUFFICES ASSUME NEW r \in Repo, NEW S \in SUBSET Change, LoadDone(r, S)
               PROVE  actor[r].atOpen \subseteq actor'[r].held \cup blamed
    OBVIOUS
  <2>1. TypeOK /\ Alone(actor[r], Virtual, Doomed, blamed, Faults)
    BY <1>1, Facts
  <2>2. Virtual \in SUBSET Chunk /\ blamed \in SUBSET Change /\ Faults \in Nat
    BY <1>1, VirtualType DEF FilesInv
  <2>3. Handler(r)
    BY DEF Handler
  <2> QED BY <2>1, <2>2, <2>3, HandlerAlone
<1> QED BY <1>1, FilesAlways, PTL DEF FilesSpec, WalksFindAll
=============================================================================
