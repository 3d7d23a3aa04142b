------------------------------- MODULE Loader -------------------------------
(***************************************************************************)
(* How a repo gets its storage id before its hub exists: SamodLoader       *)
(* (samod-core/src/loader.rs) driven by load_hub (samod/src/lib.rs), on a  *)
(* storage back end whose files may be written in place                    *)
(* (samod/src/storage/filesystem.rs).                                      *)
(*                                                                         *)
(* provide_io_result and the step() that follows it are one step here, as  *)
(* load_hub calls nothing between them.  A file that was cut short reads   *)
(* as a string, and hence as an id: all of those are CutShort.             *)
(***************************************************************************)
EXTENDS Naturals

CONSTANTS
  Repo,        \* the repos that are built on the storage
  MaxIds,      \* bound: ids in use
  MaxFailures, \* bound, by back end: puts that fail
  NoFile       \* also: no id yet

CutShort == 0
Id == 1 .. MaxIds

VARIABLES
  backend,   \* "memory", "gio" or "tokio": never changes
  loader,    \* State of each repo's loader; "Down" before there is one
  id,        \* the id the loader holds
  idFile,    \* what is stored under storage_id_path
  failures,  \* puts that failed or were cut short, of ids and of chunks
  used,      \* history: the ids that hubs have been given
  unsaved    \* history: puts of an id that failed

LoaderInit ==
    /\ loader = [r \in Repo |-> "Down"]
    /\ id = [r \in Repo |-> NoFile]
    /\ idFile = NoFile
    /\ failures = 0 /\ used = {} /\ unsaved = 0

(* The first step asks for the file.                                       *)
Begin(r) ==
    /\ loader[r] = "Down"
    /\ loader' = [loader EXCEPT ![r] = "LoadingStorageId"]
    /\ UNCHANGED <<id, idFile, used, unsaved, failures>>

(* Storage::load: what is not there, or cannot be read, is nothing.        *)
Load == idFile

(* Loader::step, done: there is a hub with this id.                        *)
Done(r, i) ==
    /\ loader' = [loader EXCEPT ![r] = "Done"]
    /\ id' = [id EXCEPT ![r] = i]
    /\ used' = used \cup {i}

(* The file is there: any string is an id.                                 *)
IdLoaded(r) ==
    /\ loader[r] = "LoadingStorageId" /\ Load # NoFile
    /\ Done(r, Load)
    /\ UNCHANGED <<idFile, unsaved, failures>>

(* It is not: a new id is generated, and put.  Any that is not in use is   *)
(* as good as one that was never generated.                                *)
Unused == {i \in Id : i \notin used \cup {idFile} /\ \A r \in Repo : i # id[r]}

NewId(r) ==
    /\ loader[r] = "LoadingStorageId" /\ Load = NoFile
    /\ Unused # {}
    /\ id' = [id EXCEPT ![r] = CHOOSE i \in Unused : TRUE]
    /\ loader' = [loader EXCEPT ![r] = "PuttingStorageId"]
    /\ UNCHANGED <<idFile, used, unsaved, failures>>

(* tokio::fs::write truncates the file, and then fills it.                 *)
TruncateId(r) ==
    /\ backend = "tokio" /\ loader[r] = "PuttingStorageId"
    /\ loader' = [loader EXCEPT ![r] = "WritingStorageId"]
    /\ idFile' = CutShort
    /\ UNCHANGED <<id, used, unsaved, failures>>

ReadyToWrite(r) ==
    loader[r] = IF backend = "tokio" THEN "WritingStorageId" ELSE "PuttingStorageId"

IdKeptInMemory(r) == idFile   \* mutant: the id is not put
Written(r) == id[r]
PutId(r) ==
    /\ ReadyToWrite(r)
    /\ idFile' = Written(r)
    /\ Done(r, id[r])
    /\ UNCHANGED <<unsaved, failures>>

(* The put fails, which nobody is told.  The memory cannot fail.           *)
PutIdFails(r) ==
    /\ backend # "memory" /\ failures < MaxFailures[backend]
    /\ loader[r] \in {"PuttingStorageId", "WritingStorageId"}
    /\ failures' = failures + 1 /\ unsaved' = unsaved + 1
    /\ Done(r, id[r])
    /\ UNCHANGED <<idFile>>

(* The repo stops, or its process dies.                                    *)
LoaderGone(r) ==
    /\ loader' = [loader EXCEPT ![r] = "Down"]
    /\ id' = [id EXCEPT ![r] = NoFile]
    /\ UNCHANGED <<idFile, used, unsaved>>

LoaderStep(r) ==
    \/ IdLoaded(r) \/ NewId(r) \/ TruncateId(r) \/ PutId(r) \/ PutIdFails(r)

----------------------------------------------------------------------------
(* A storage keeps its id.  Repos that are built on it one after another   *)
(* run under the same id, however they end, unless the put of the id has   *)
(* failed (loader.rs:105-141): peers know a repo's storage by it.  At no   *)
(* time may a hub exist under an id that the next one will not find.       *)
IdKept == \A i, j \in used : i = j \/ unsaved > 0
=============================================================================
