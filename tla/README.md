# A verification of samod

samod is an implementation of the automerge-repo protocol: a *repo* keeps
automerge documents, stores them, and synchronises them with the repos it is
connected to. This directory holds TLA+ modules that model its control, the
configurations that check them with TLC on small instances, and proofs that
TLAPS checks for every instance. Paths below are relative to the repository.

## 1. The system

`samod-core` is a set of sans-IO state machines; `samod` runs them.

| part | state | operations | talks to | modelled in |
|---|---|---|---|---|
| hub (`samod-core/src/actors/hub/state.rs`) | actors, connections, dialers, listeners, pending commands, run state | `handle_event`, one event at a time under the `inner` mutex of `samod/src/lib.rs` | actors by messages, IO loop by tasks | `HubNet`, `RepoApi`, `SharePolicy` |
| dialer (`hub/dialer.rs`), listener (`hub/listener.rs`) | status, attempts; active connections | add, remove, connected, lost, dial failed, tick | owned by the hub | `HubNet` |
| connection (`hub/connection/`) | phase, subscriptions of documents | join / peer / error messages, close | owned by the hub; `drive_connection` of the IO loop moves its messages | `Connections`, `SharePolicy` |
| document actor (`actors/document/document_actor.rs`) | automerge document, phase, peers, share policies, storage state | hub messages, IO completions, `with_document` | hub by messages, IO loop by tasks | `SharePolicy`, `Request`, `DocStorage` |
| on-disk state and load (`document/on_disk_state.rs`, `load.rs`) | keys on disk, running puts and deletes, a compaction | save, compact, delete, load | owned by the actor | `DocStorage`, `Files` |
| request (`document/phase/request.rs`) and the sync session of a connection (`peer_doc_connection.rs`) | what each peer answered; what each side knows of the other | sync messages, policy changes, connections come and go | owned by the actor | `Request` |
| mailbox (`samod/src/doc_runner/threadpool.rs`) | queued tasks, is there a runner | dispatch, run | a rayon pool | `Mailbox` |
| IO loop (`samod/src/io_loop.rs`) | futures of storage tasks, connections, dials, policies | executes them concurrently | storage, transports, hub | in each of them, where it acts |
| share policies (`samod/src/io_loop/share_policy.rs`) | a stream per peer and document, its last answer | check, update, clear | IO loop, actors | `SharePolicy` |
| searches (`hub/state/searches.rs`, `samod/src/search.rs`) | observers of a search | find, search | hub, API | `RepoApi` |
| ephemera (`samod-core/src/ephemera/`) | the own counter, the last count heard of each session | broadcast, gossip | hub, actors | `Gossip` |
| loader (`samod-core/src/loader.rs`) | storage id | load or create the id | storage | `Loader` |
| storage back ends (`samod/src/storage/`) | files, or a map | load, load_range, put, delete | file system | `Files` |
| API (`samod/src/lib.rs`, `doc_handle.rs`, handles) | futures waiting for answers | create, find, search, dial, accept, stop, close | hub | `RepoApi`, `Connections` |

What makes it hard: the hub, the IO loop, the pool's threads and user threads
interleave; the hub, an actor, the IO loop and the handles each keep a view of
the others that queued messages make stale; storage tasks complete in any order
and take several steps each, several repos may share the storage, and a process
may die between any two of them; dials and connections end while their owner is
being removed or the hub is stopping; repos ask each other for a document at the
same time, and network cycles bring messages back.

What makes each part correct:

- *mailbox*: one task of a document at a time, in order, none stranded;
- *hub*: its tables agree with each other and with the IO work in progress; a
  dialer has at most one connection, keeps to its retry budget and never gets
  stuck; a stop completes;
- *connections and handles*: the two ends end together; documents are not sent
  before the handshake is over; nobody waits for what has already happened;
- *storage*: nothing stored is ever lost; what an actor believes is saved is;
  what is in memory gets to storage; compactions and stops end; the id is kept;
- *document actor*: hub, actor and IO loop agree on the connections; every
  connection gets a decision and keeps to the latest; messages that wait for it
  are neither lost nor reordered;
- *requests*: a request is answered, a search finds what it can reach, documents
  converge;
- *API*: observers of a search are up to date, `find` decides, calls are
  answered;
- *ephemera*: at most once per repo and in order, also in a network with cycles.

## 2. The modules

| module | what it models |
|---|---|
| `ActorFifo` | what a mailbox promises: a FIFO queue and one task at a time |
| `Mailbox` | `ThreadpoolActor`: dispatch, schedule, run, with threads interleaved between critical sections; implements `ActorFifo` |
| `HubNet` | dialers, listeners, connections and run state of the hub, and the IO futures that feed it |
| `Connections` | both ends of a connection, `drive_connection`, and the handles and futures that wait for it |
| `ChangeStore` | what storage promises: a growing set of changes, each learnt by some repo before |
| `DocStorage` | `OnDiskState`, `Load`, the storage tasks, crashes, restarts and shared storage; implements `ChangeStore` |
| `Loader` | how a repo gets its storage id |
| `Files` | `DocStorage` and `Loader` composed on the three real back ends |
| `SharePolicy` | the hub, a document actor and the IO loop's policy subscriptions: who is connected, what it may do, and what its messages wait for |
| `Request` | the document actors of several repos that search for one document, with their sync sessions |
| `Gossip` | ephemeral messages of several repos, from the application through actor and hub to the application |
| `RepoApi` | create, search, find and stop between the callers, the hub, the actors and the dialers |
| `MC*` | instances of them: constants, symmetry, bounds |
| `*_proofs` | the theorems |

What one module takes as given another one models. `HubNet` decides when a dialer
dials again, and `Connections` and `RepoApi` let it happen at any time it could;
`SharePolicy` models the way of a decision to the actor, `Request` what the actor
does with it and `Gossip` the set of connections that it leads to; `Request`
models how a peer answers, which is one step of `RepoApi`; `DocStorage` takes for
one step what `Files` takes apart.

### Mailbox

State: `tasks` and `running` are the fields of `Mailbox`; `jobs` counts the
closures given to `spawn_fifo`; each dispatching thread and each worker has a
program counter, because both release the lock before they schedule or handle.
Actions: `Dispatch` is `dispatch` up to `drop(mailbox)`; `Schedule` the call
that follows; `TakeJob`, `Pop`, `Relinquish`, `Handle`, `Reschedule` are the
steps of `run`. A task is a model value and is sent once. `FifoSpec` says that
the mailbox refines `ActorFifo`.

### HubNet

Each action is one event of `handle_event` with what follows the match: closed
connections are torn down and a stopping hub without actors becomes Stopped.
`LockFree` stands for the `inner` mutex: `Repo::dial` holds it from the event
that adds the dialer to the insertion in `Inner::dialers` (`AddDialer`,
`RegisterDialer`), and the IO loop looks a dialer up under the lock of that map
alone (`EstablishTransport`). `queued`, `notFound`, `connecting` count the dials
of a dialer on their way through the IO loop. Time is abstracted: at a `Tick`
any set of waiting dialers may be due. `redials` is history.

### Connections

One repo dials, the other accepts, and each connection has an end at both.
`phase` is the hub's connection, `outbox` the channel of its `ConnectionHandle`,
`loop` where `drive_connection` is and `wire` what the transport carries. A step
of a hub includes what `lib.rs` does with the event's results under the same
lock: `Complete` also sets the peer info of the handle, the connection of the
`DialerHandle` or the set of the `AcceptorHandle`, and answers the futures that
waited. `Reject` puts the error message in the channel before it closes it.
`Await` starts any of the futures in `Calls`; each looks and registers under one
lock, and its waiter is in `call`. A `DialerHandle` or `AcceptorHandle` that is
closed leaves the table of handles first, so that it hears of nothing after.

### DocStorage

A change is a value, `Before` its dependencies; `Doc` is what automerge shows of
a set of changes (it queues one whose dependencies are missing). A chunk is a
key with the changes stored under it: incremental chunks are keyed by their
change, snapshots by the heads, which determine the changes of the document but
not the queued ones that `save()` retains as well. The record `Actor` holds
`OnDiskState`, `Load` and the actor's storage tasks; the handlers are functions
on it, composed as `handle_input` composes them, each ending in `step`
(`Stepped`). Puts and deletes execute and complete in any order; deletes of a
stopped repo may still execute (`StaleDelete`), since `stop` does not wait for
them; `Crash` loses memory and the tasks not executed.

### Loader and Files

`Files` extends `DocStorage`, instantiates `Loader`, and replaces the steps that
DocStorage takes as a whole by those of the back ends. A put of the tokio back
end truncates its file and then fills it (`PutTruncates`, `PutFills`), which a
crash may cut short (`Die`); gio replaces the content at once; both may fail, and
`filesystem.rs:131-136` then reports success (`PutFails`). `load_range` opens a
directory (`WalkBegins`), reads what is listed and still there (`WalkReads`) and
ends when everything has been read that has been in the directory all along
(`WalkEnds`); what is added or removed meanwhile may be listed or not. A file
that was cut short parses to nothing, but its key is read and counts as being on
disk. A cut id file is taken as an id, whatever it holds. Abstracted: file names
and paths, the creation of directories, failing reads, and the semaphore of 500
concurrent reads. The memory back end does not survive its process, so there
repos only stop.

`Loader` is driven by `load_hub` before there is a hub: the id is loaded, or else
generated and put. `blamed`, `durable`, `used` and `unsaved` are history: which
changes were in puts that failed, were cut short or condemned (section 5), what
storage has held, which ids hubs were given, how many puts of an id failed.

### SharePolicy

One document, its connections and the peers they lead to. `hub`, `subscribed`
are the hub's connections and their `document_subscriptions`; an event ends in
`EnsureConnections`, and `Spawn` starts the actor with the connections of that
moment. `mailbox`, `io` and `toHub` are the three channels. The actor's actions
each handle the head of the mailbox, as `handle_input` does, with the checks it
enqueues and the change of peers that `DocActorInner` sends before them. `slot`
is `Policies`; `StreamYields` and `StreamEnds` are `handle_event`. A decision is
the index of a decision in the application's history (`decisions`), so that
older and newer can be told apart; `sent`, `received` and `denied` follow each
sync message through the mailbox, the buffer of an undecided connection
(`pending`) and the buffer of a loading document (`parked`).

### Request

A document actor per node. `actor[n].conns[k]` is what the actor of n keeps of
its connection to k: the policy, `PeerDocConnection` with the sync session, what
waits for a decision (`pending`) or for the load (`parked`), and the peer's state
in the phase Requesting. The handlers are functions on the actor, as in the code:
`HandleSyncMessage`, `ApplySharePolicy`, `HandleLoad`, `AddConnection`; each input
ends in `StepAfter`, which is `step`: a request that is over makes the document
ready, then every connection generates its messages, and these go on the wire.
`wire` is FIFO until the connection breaks, which each end learns by itself
(`Lose`, `Close`). Automerge is abstracted to sets of changes that do not depend
on each other, and its sync protocol to what decides the next message: what the
other side is known to have, what was sent, who may only read, and the request to
start over that follows a change from read-only to writable.

### Gossip

`counter` and `seen` are `EphemeralSession`. A broadcast goes from the
application (`Broadcast`) to the hub, which numbers it and sends it to the actor's
targets (`HubBroadcast`); a hub that receives it (`Receive`) drops it unless the
count is greater than the last of its session, and gives it to the actor, which
tells the application and passes it on to the others (`HandleHeard`). Everything
between them is a queue. `Reads` and `Sends` stand for the policies; `Decide` is
the moment a connection gets one. Connections break, lose what is on them, and
open again.

### RepoApi

`Create`, `Search` (also the first half of `find`) and `Stop` are the calls of
`lib.rs` up to the point where they wait. `HubHandle` takes what the actors report
(`toHub`), as `MoveDialer` takes what dialers do; both end in `Finish`, which is
`Searches::pop_state_updates`: subscribers are told if the phase of their document
or the status of a dialer has changed since the last time. `verdict` is the first
state a `find` was sent that ends it, `Look` the moment its future reads that far.
Actors load, hear from their peers (`PeerAnswers`) and handle the connections and
the Terminate in their `inbox`.

## 3. The runs

Each answers a question of its own. The type invariants are in no run: they are
theorems (section 4).

| run | instance | shows |
|---|---|---|
| `mailbox` | 2 dispatchers, 2 workers, 4 tasks, batches of 2 | one runner at a time; the mailbox is a FIFO actor; every task is handled |
| `hubnet` | 1 dialer, 1 listener, 3 connections, 2 actors, 1 retry | the hub's tables agree with each other and with the dials in the IO loop; the retry budget is kept; a stop completes, a dialer settles |
| `connections` | 2 connections, 4 awaited calls, 1 end of the application's or the transport's making; the listener may expect another peer | handles agree with the hub, no future misses what it waits for, only strangers are rejected, the two ends end together (402 064 states) |
| `docstorage` | 1 repo, 3 changes of which two depend on the first | save, compaction, load, stop and crash lose nothing, a stopped document is flushed, and a load finds all (226 573) |
| `files` | 1 repo on each back end, 2 changes of which one depends on the other, one put may fail (gio) | what is lost was lost to a put that failed; the id is kept; a walk over directories finds all; changes reach storage, compactions and stops end (142 530) |
| `sharepolicy` | 2 connections of 1 peer, 2 messages, 2 decisions | hub, actor and IO loop agree; no check or message is lost, none overtakes another; no decision is replaced by an older one of the same subscription; every connection is decided (288 778) |
| `request` | 3 nodes in a row, the last stores the document and may create it, the first searches; 2 events (losses, edits, creations, decisions) | ready documents have content; requests are answered; searches find what they can reach; documents converge (58 883) |
| `gossip` | a triangle, 2 broadcasts of one node, 1 connection breaks | heard once and in order; gossip dies out; the last message gets everywhere (248 811) |
| `repoapi` | 1 searched and 1 created document, 1 dialer that dials twice, one `find`, `search`, `create` and `stop` each | subscribers are up to date; `find` decides; `create` and `stop` are answered (181 312) |
| `docstorage_orphan`, `files_cut_short`, `request_hang` | see section 5 | where the code departs from its documentation |

`CHECK_DEADLOCK FALSE` is in every configuration: each of these systems may come
to rest, when all callers are answered, the bounds are used up, or the repo has
stopped.

### Bounds

*mailbox*: with two tasks per batch and four tasks a batch ends both with tasks
left and exactly when the mailbox becomes empty (64 in the code differs only in
how long that takes). *hubnet*: three connections let a dialer connect, shake
hands, lose the connection, and use up a budget of one reconnection; several
dialers only share `inner`. Two actors make a stop wait for the last.
*connections*: with two connections a handle that was connected connects again
while the end of the first is still on its way; the four calls wait at both ends
and on the handle of the dialer, and one end by the application, a stop or the
transport can hit any of the phases of either. *docstorage*: `Threshold` is 10 in
the code and 1 here, so that two changes or keys start a compaction and the third
arrives during it; `MaxDeletes` bounds how many deletes of a key survive a
restart. In `docstorage_orphan`, with two repos, documents are only opened and
repos crash, and the changes come in pairs (`TwoPairs`). *files*: two changes are
enough for a compaction, and the first for the chunk that it supersedes; gio has
the failing put since its puts are otherwise atomic, and crashes in the middle of
a put are in `files_cut_short`. Two ids tell an id that is kept from one that is
not. *sharepolicy*: two connections of one peer are what it takes for a peer to
leave and return, or to stay with one of two; a second decision makes the
subscription push an update; the buffer holds 1 message (64 in the code) and two
come in on one connection, so that it overflows. *request*: three nodes in a row
have one in the middle that is asked before it has an answer, and asks in its
turn; a decision between the first two starts as any of four combinations and may
change; two events let a connection be lost and the document be edited, or a
decision be taken back. *gossip*: a triangle is the smallest cycle, where a
message gets to each node on two ways and overtakes itself; two broadcasts overtake
each other. *repoapi*: a second dial lets a dialer come back while a search is
told of its failure.

### Fairness

Fairness is weak, and on the steps that the runtime takes on its own:

- mailbox: rayon runs the jobs it has, a thread leaves `dispatch`, and a task
  terminates;
- hubnet: `dial` returns, the IO loop takes its tasks, `connect` answers one way
  or the other, ticks come for ever (`samod/src/lib.rs` spawns the tick task) and
  an actor told to terminate answers; no fairness for handshakes, messages or
  losses;
- connections: the IO loop polls its futures, a transport that works delivers
  and a server accepts or refuses what was dialled;
- files: storage operations return, and the actor's mailbox is worked off.
  `ChangesReachDisk` and `CompactionSettles` do not assume that changes stop;
- sharepolicy: the mailbox and the IO loop's channel are worked off, and a policy
  stream yields a first item or ends, which `samod/src/share_policy.rs:23` asks of
  the application;
- request: storage and the policy answer, messages arrive unless their connection
  breaks, both ends hear of a break, and a lost connection is dialled again;
- gossip: hubs and actors work off their queues, messages arrive;
- repoapi: hub, actors and futures run, storage and peers answer, and a dial that
  has begun comes to something.

Nobody is assumed to call, create, edit, broadcast, decide again, stop, connect
(but for `request`) or fail. Most of these conditions are one disjunction (`Works`
or `Work`) with one `WF`: whatever the order, the system does some of its work as
long as there is any. That implies less than fairness for each step.

## 4. What is proved

For every value of the constants that satisfies the named assumptions. Each module
with a type invariant has its type correctness proved, except the two abstract ones.

- `Mailbox_proofs`: `OneRunner`, and the refinement of `ActorFifo`. `OneRunner`
  together with the type invariant is inductive: the right to drain is a token
  that is in one place, a thread about to schedule, a job or a worker, and exists
  whenever tasks do.
- `HubNet_proofs`: `OneConnectionPerDialer`, `ConnectedIsLive`,
  `PendingIsDialling`, `ListenerTracksConnections`, `RetryBudget`. The invariant is
  the conjunction of the first four with facts about connections not made yet and
  dialers not added yet (`Ownership`) and about what a removed dialer leaves in the
  IO loop (`DialToken`). `OneConnectionPerDialer` follows from it and needs
  `PendingIsDialling`: a second connection could only come from a second dial.
  `RetryBudget` compares the attempts that a dialer counts with those it made, status
  by status (`AttemptsCounted`).
- `Connections_proofs`: `HandlesAgree` and `NoWaiterMissed` for any number of
  connections and of callers. They need each other, that the dialer's connections
  follow one another (`OneDialled`), and that an established connection knows its
  peer (`KnowsPeer`): a waiter is answered by the step that makes the handle
  report what it waits for. `OnlyStrangersRejected`: for two repos that accept each
  other, what is in the channel, the loop and the transport of one end is what the
  phase of the other end lets it expect (`InOrder`), and the loop of an end that
  lives still runs (`LoopsAgree`).
- `Storage_proofs`, about `DocStorage`, in two parts, both for changes with any
  dependencies. For any number of repos on one storage: the refinement of
  `ChangeStore`, `SavedIsSafe` and `FlushedWhenStopped`, in every behaviour in which
  no repo puts a snapshot while its document has changes queued for want of what
  they depend on (`CompleteSnapshots`). The condition is about the behaviour and not
  about the changes, and it cannot be dropped: such a snapshot is how
  `docstorage_orphan` loses a change. The theorems say that it is the only way: a
  load that misses chunks, repos that compact at the same time and delete each
  other's chunks, old deletes, crashes and changes read without those they depend on
  do no harm as long as what is queued does not get into a snapshot. The invariant
  `StoreInv` adds `SafeDeletes`: every key that is superseded, awaiting deletion or
  being deleted has all its changes in a snapshot that is stored and that no delete
  names. For one repo (`OneRepo`), without that condition, the same three and
  `LoadFindsAll`.
  There a snapshot holds more than its key names, and one with the same key may
  replace it, so `SafeDeletes` is not enough: `Alone` says that whatever a key names
  and whatever is stored under it is in one snapshot that no delete will remove, and
  that the key names no more than the actor holds.
- `Storage_proofs`, about `Files`, for one repo on any back end, however it ended. `IdKept`: while an
  id waits to be written, no hub has been given one; the id given out is the one in
  the file. With two repos that boot at once on new storage it is false: each may
  generate an id. `LostOnlyByFaults` and `WalksFindAll`, for changes with any
  dependencies: the invariant `FilesInv` is `Alone` again, about the storage as it
  will be when the files that are being rewritten are filled (`Virtual`), where what
  faults took (`blamed`) need not be found, and with what a walk that has begun will
  still find (`Walks`).
- `SharePolicy_proofs`, for any finite set of connections, any peers and any size of
  the buffer. `AnnouncedOnce`, `CheckIsSomewhere` and `ViewsAgree`: the invariant
  follows a connection through the mailbox (`Routed`: announced once, closed after
  that, and the actor has it in between) and its peers and checks through the IO
  loop's channel (`IoAgrees`). `NeverBackwards`: no answer and no connection is ahead
  of the subscription or of the decisions made, and an update in the mailbox outranks
  what is before it and what the connections of its peer have (`Versions`).
  `MessagesInOrder`: from the moment a connection is announced, what the document
  received, what is parked, what waits for the decision and what is in the mailbox
  are one increasing line of all that was sent and not denied (`Lines`). That there
  is nothing to lose before (`Blank`) needs that the announcement is ahead of the
  messages in the mailbox, and `Routed`.
- `Gossip_proofs`, on any finite network. `HeardInOrder`: the counts of a sender's
  messages increase along what a node has heard, what waits in its mailbox, and
  what the hub has seen; a node's own messages never pass its hub. `CarriedOnce`: what
  a hub has sent or is asked to send is its own broadcasts and, once each, the
  messages that its application heard (`Tally`; under different documents they are
  different messages, `Apart`), and a sender has no more of those under way than it
  broadcast (`FewNumbers`).
- `RepoApi_proofs`: `SubscribersUpToDate`. What was told last is what `Searches`
  remembers (`Remembered`), which is compared at the end of every event. It needs
  that an actor's last report is the last the hub hears of it (`Lives`) and that no
  report mentions a connection before the hub has announced it (`OnlyMade`).
- `Request_proofs`, on any finite network and with any content and decisions:
  `ReadyHasContent`. As long as no decision has changed (`Serene`), whatever is on
  its way to a node that does not have the document, on the wire, undecided or
  parked, has content and comes from a node that has it: two neighbours without the
  document exchange nothing of the sync protocol (`Calm`), though they may ask each
  other. It needs that a request that came is still waiting or was taken note of
  (`Pledged`): a peer that has requested but still counts as blocked by policy would
  be sent an empty sync message, which ends its own search with nothing. The handlers
  go through the messages that waited, in any number. This is an induction over data,
  for which the library's theorems cannot be instantiated: if the invariant
  failed after some message there would be a first one after which it fails
  (`Least`), and the step to that one preserves it (`AllHandled`; `LoadSeemly` for
  the connections whose messages a load hands over). That the recursive functions
  in `HandleAll` and `HandleLoad` exist is shown in the same way (`HandlingExists`,
  `UnparkingExists`).

Only model-checked: storage that several repos share once a snapshot was put with
changes queued, where the properties are false; and every liveness property, since
fairness needs ENABLED, which the provers do not handle. Every safety property of
the runs that pass is a theorem.

## 5. Where code and documentation disagree

Three are runs that are expected to find a violation; PROJECT.json quotes both
sides.

- `docstorage_orphan`: two repos on one storage can lose a change. A load reads
  its two ranges around the other repo's compaction and misses changes that
  later ones depend on; those are queued, so they are in the data of the next
  snapshot but not in its key; two snapshots with one key and different content
  overwrite each other.
- `files_cut_short`: a document that has been opened counts all of its changes as
  new, so a large one is compacted at once, to the key of the snapshot that it was
  loaded from. The tokio back end truncates that file in place: a process that dies
  before it is filled has lost the document. (gio replaces files at once.)
- `request_hang`: two repos that request a document from each other and do not
  have it. A peer that asked before it was asked is `RequestedFromUs`: it is told
  that the document is not available and never asked itself. `outcome` counts it as
  unavailable, but `peer_states` reports it as requested, so neither `find` ever
  ends with `None`.

What was met while modelling and has no run of its own:

- a dial or an accept that completes while the hub is stopping leaves a connection
  open after it has stopped (`hub/state.rs:1073`, against 410-412);
- a dial in progress when its dialer is closed still becomes a connection
  (`dialer_handle.rs:204-205`), at most one (`OneConnectionPerDialer`), as does
  whatever a clone of a closed `AcceptorHandle` accepts, although `close` "stops
  accepting new ones" (`acceptor_handle.rs:112-113`; the hub only warns,
  `hub/state.rs:1130-1136`): no listener tracks it. A closed acceptor handle misses
  ClientDisconnected (`lib.rs:1144-1154`), and `accept` after the stop panics
  (`lib.rs:897`) while it holds the lock of `inner`, which poisons it, where
  `Connections` only drops the transport;
- a first dial may be charged as failed before `Dialer::connect` was called: the
  IO loop looks the dialer up before `dial` has registered it (`lib.rs:795-810`,
  762-764);
- `create` returns before its content is stored (`lib.rs:564`), and a commit that
  is accepted after Terminate, while the last put runs, is never saved
  (`lib.rs:461-462`);
- a `create` or a second `stop` that is called after the hub has stopped waits for
  an answer that nobody gives (`lib.rs:565`, 928), and so does a `find` that is
  under way when it stops: its stream is never closed (`lib.rs:692`);
- an update of a policy from a subscription that has ended, still in the mailbox
  when its peer returns, is applied to the new connection and cancels its check
  (`document_actor.rs:319-326`). The answer of the new subscription, which may be a
  newer decision, or the denial due when the new stream ends without one, is then
  dropped, and unless a later item comes the older decision stays in force for the
  life of the connection. `share_policy.rs:16-22` has updates win by being the
  latest, a new subscription for a later connection, and access denied by a stream
  that ends without a decision. That is why no property here demands the newest
  decision on every connection: `NeverBackwards` only excludes a step back from what
  a connection had;
- the `PeerInfo` of a connection carries the local storage id instead of the peer's
  (`hub/state.rs:673-677`; `TheirInfo`);
- a peer that starts to sync with empty heads, after a policy change, can make
  `find` return an empty document (`request.rs:201-215`, 282-286; this is why
  `ReadyHasContent` is about unchanged policies), and a request that is repeated
  after such a change may stay unanswered (`request.rs:129-130`; hence `Updated` in
  `RequestsAnswered`);
- a put that fails is reported as done (`filesystem.rs:131-136`), so that the
  compaction goes on to delete the chunks it was to replace; `LostOnlyByFaults`
  counts what is lost this way as `blamed`;
- after such a fault a snapshot may be put to a key that a delete is still on its
  way to, and be removed with it: the earlier compaction that scheduled the delete
  has lost its own snapshot, and the repo that boots again finds, and replaces under
  the same key, the one that was to go (`Condemned`). What such a put held counts as
  `blamed`, too: the proof of `LostOnlyByFaults` does not go through without it.

## 6. Plan

Done: the modules of section 2, with the theorems of section 4. Left, in order:

1. `StopSharePolicies` when a document stops, in `SharePolicy`.
2. The streams of a `DocHandle` (changes, ephemeral messages, peers) and of the
   dialer and acceptor handles, with what a slow reader misses.
3. Two repos on shared files, with changes that depend on each other.

## 7. Not modelled

- Encodings: CBOR (`wire_protocol.rs`) and keys as paths. What is received is what
  was sent; a message that does not parse closes the connection like one that does
  not fit.
- Websocket and stream adapters (`websocket.rs`, `tokio_io.rs`, `transport.rs`):
  they have no state that the rest sees.
- Builder, runtimes and observer events; the event streams of the handles.
- The test harness, which is a simulated network for the repository's own tests.
- The content of automerge documents and its sync protocol, beyond which changes a
  document has and what decides the next message.
- In `Files`: names of files, directories that must be created, reads that fail.
