# iroh-nix: a verification project in TLA+

iroh-nix lets nix machines share store paths and builds over a peer-to-peer
network. This directory models its concurrent core, model-checks it with TLC and
proves theorems about it with TLAPS. Paths below are relative to the repository;
`build.rs` and the like are in `src/iroh-nix/src/`.

`PROJECT.json` is the machine-readable side: components, runs, the mutant that
breaks each property, the source lines each definition models, findings, hazards
and theorems.

## 1. Inventory of the system

A *requester* is a node that wants derivations built. It keeps a queue and
announces by gossip which features it needs. A *builder* hears this, connects,
pulls jobs, builds them and reports. Nix reaches a requester's daemon through a
build hook and a Unix socket, or a user runs `build-push`. Beside that, every node
indexes store paths by hash and serves them to its peers.

| Component | Source | State it keeps | Operations | Interacts with |
|---|---|---|---|---|
| Build queue | `build.rs` | `next_job_id`, `pending`, `leased`, `completed`, `pending_fetch`, `needed_features`, each under its own mutex | `push`, `pull`, `heartbeat`, `complete`, `fail`, `check_timeouts`, `take_pending_fetches`, getters | called by handlers, the control socket, `build-push` |
| Builder sessions | `builder.rs` | worker: current job, stream; handler: request being served | worker loop, `execute_job_with_heartbeat`, `fetch_dependencies`; request handler | queue, gossip, NAR transfer |
| Control socket | `control.rs` | a connection per client | SubmitBuild, PollBuild, HasBuilders, CancelBuild | queue, gossip |
| Build hook | `build_hook.rs` | the job it waits for | submit, poll until completed or failed | nix, control socket |
| build-push | `main.rs` | the plan, the monitor loop | plan, queue all jobs, re-announce, fetch results, stop | queue, gossip, node |
| Gossip | `gossip.rs` | provider cache, requester cache | receive Have/Want/IHave/NeedBuilder/BuildComplete, NeighborDown; announce | all of the above |
| Hash index | `hash_index.rs` | SQLite rows (blake3, sha256, store path) | insert-or-replace, lookups, delete | node, transfer, cleanup, substituter |
| Stale cleanup | `gc.rs` | the list of rows of the current pass | list, check the disk, delete | hash index, disk |
| NAR transfer, node | `transfer.rs`, `node.rs` | a connection per request | serve by hash or path, fetch, index | hash index, disk, HTTP cache |
| Retry | `retry.rs` | attempt counter, delay | retry with back-off | transfer, sessions |
| Log streaming | `build.rs`, `builder.rs` | the log channel of a build, subscriber lists | write a line, send it, subscribe, broadcast | sessions |
| Substituter | `substituter.rs` | a connection per request | narinfo, nar | hash index, gossip, transfer |
| HTTP cache client | `http_cache.rs` | none | fetch and parse narinfo, fetch NAR | transfer |
| Formats | `nar.rs`, `nix_protocol.rs`, `protocol.rs`, `nix_info.rs` | none | encode, decode | all |

What makes each correct, and what is hard about it:

* **Queue**: a job is in one place, is never lost, ends once and only by its
  lease holder, and its result is fetched once. Each field has a mutex of its
  own; `push` releases one before it takes the next; leases expire under builders
  that still work.
* **Sessions**: no job is executed twice at once, requests and responses stay in
  step, what was acknowledged stays accepted, every job ends. Connections drop at
  any step, a request is carried out after its connection died, `complete` acts on a
  copy of the leases it took before, either end restarts.
* **Control socket and hook**: a poll's answer is true of the job, a verdict
  given to nix is real. A poll looks at the queue five times under separate
  locks; outcomes are kept by derivation, not by job.
* **build-push**: the plan is complete and ordered, the command ends, and not
  before everything is over and fetched, unless with an error. Builders deliver while it
  fetches and counts; an announcement may fail between two pushes.
* **Hash index and cleanup**: each key identifies a row, stale rows go, live rows
  stay, and a pass deletes what it looked at. Rows are inserted before or after their path
  exists; a cleanup pass lists, looks and deletes under three separate locks and goes on after
  a delete that failed; nix changes the store meanwhile.
* **Gossip**: a provider is a peer that announced the NAR, listed once, gone when it
  goes; the first in a list is displaced by no other. Messages come over other nodes, several
  times or never, and a receiver that lags loses events, among them that a peer has gone.
* **Transfer and retry**: a fetch ends and returns what was asked for. The peer looks the
  hash up, checks the path, sends the header and reads the path while nix changes the
  store; connections fail at both ends, and what was verified may still not be indexed or
  restored.
* **Log streaming**: the lines of a build wait in a bounded channel, and the build for
  room in it, while the worker shares one stream between lines, heartbeats and the
  completion.
* **HTTP cache client**: a cache may have another NAR of the path than the row says, and
  a third one when the NAR is downloaded.
* **Substituter**: nix gets an answer to every request, whichever peers fail, go or come
  while one after the other is asked, and no peer is asked twice.

## 2. The modules

| Module | Models | Extends |
|---|---|---|
| `Listings`, `Derivations` | sequences that list things; the derivations | |
| `JobLifecycle` | what a queue promises about each job (abstract) | |
| `BuildQueue` | `struct BuildQueue` | `Listings`, `Derivations`, instance of `JobLifecycle` |
| `BuilderProtocol` | queue, connections, handlers, workers, build logs, gossip of NeedBuilder, faults | `BuildQueue` |
| `ControlSocket` | queue, build hooks, PollBuild | `BuildQueue` |
| `BuildPlan` | `topological_sort` | `Listings`, `Derivations` |
| `BuildPush` | the command: plan, queue, monitor loop | `BuildQueue`, `BuildPlan` |
| `HashIndex` | index, indexing tasks, cleanup, nix store | |
| `Gossip` | broadcasts of Have, provider caches, neighbors | `Listings` |
| `NarFetch` | what fetching a NAR promises (abstract) | |
| `Transfer` | fetching, serving, HTTP caches, retries, the stores of several nodes | `Gossip`, instance of `NarFetch` |
| `Substituter` | nix's requests to a node, answered over all of `Transfer` | `Transfer` |
| `ListingLemmas` | lemmas about sequences | `Listings`, TLAPS |
| `BuildQueueProofs`, `BuildPlanProofs`, `HashIndexProofs` | theorems | the module they are about, `ListingLemmas` or TLAPS |
| `BuilderProtocolProofs`, `ControlSocketProofs`, `BuildPushProofs` | theorems | the module they are about and the proofs of what it is built on |
| `SharingProofs` | theorems about `Gossip`, `Transfer` and `Substituter` | `Substituter`, `ListingLemmas` |
| `MC*` | constants of the model-checked instances | |

Definitions keep the names of the code where they can. Definitions headed "Seeded
fault" are no part of any specification: each is the mutated form of one action
that shows that a property can fail.

### BuildQueue

One variable per field: `nextJobId`, `pending` (front first), `holder` and `age`
(the `leased` map: who, and ticks since the last heartbeat), `completed`,
`pendingFetch`, `needed`; `job[j]` is the record that `push` builds and nobody
changes. `pushing[s]` is the id a task has allocated and not enqueued yet. `accepted`
and `taken` are history.

An action is one stretch of code whose effects other tasks cannot tell apart.
`push` is two (`PushAllocate`, `PushEnqueue`) because it drops the id lock before it
takes the queue's; `pull`, `complete`, `fail` and `check_timeouts` change what they
change under nested locks. `CheckTimeouts` puts the expired jobs back in any order, as
the hash map is iterated. `Tick` ages leases; `age` saturates one tick past the
timeout, which is all the code distinguishes.

`JobLifecycle` is what a client may rely on: a job is leased only while it waits,
finished only by its lease holder, final once finished. `ImplementsLifecycle` is the
refinement, with `phase` computed from where the job is and `owner` the lease holder.
The programs around the queue never call `check_timeouts` and promise more: `RunSpec` is the
life cycle in which no lease is withdrawn (`ImplementsRun`, of `BuildPush` and
`ControlSocket`), `RestartSpec` the one which only a restart of the requester cuts short.

### BuilderProtocol

`pc[b]` is where a worker is in `run`, `connect_and_work` and
`execute_job_with_heartbeat`; `cur[b]` is the job it executes; `toServer`, `serving`
and `toWorker` are the stream and the request the handler has read. A dropped
connection leaves a request that was read in `stale`: it is still carried out. The
handler of Complete looks the lease up in a copy (`LookUpLease`) before it completes
it. `CancelBuild` does the same with `fail` (`CancelLookUp`, `CancelFail`).

A build writes `output[b]` lines into a channel of `LogCapacity` lines (`WriteLine`), of
which `lines[b]` are in it; between two heartbeats the worker takes one off and sends it
(`SendLog`), and waits for its acknowledgement (`ReceiveLogAck`). The build ends only when
its output is read to the end, so a full channel holds it up; lines still in the channel
when the build ends are dropped (`BuildEnds`), as the loop's `select!` breaks on the
cancellation.

Faults are dropped connections, failed connects, crashes of a builder, lost neighbours,
lost announcements and restarts of the requester, `MaxFaults` in all. A restart of the
requester (`RestartRequester`) empties the queue, which is in memory only, and lets job
ids begin at 1 again; builders notice by their link, which is `"lost"`, and go on with what
they were building until then. `ImplementsRestarts` relates the protocol to
`JobLifecycle!RestartSpec`, in which a restart ends the life of all jobs at once (`Forget`),
under the queue's mapping. `ExclusiveExecution` and `ExecutionHoldsLease` speak of
workers whose link is not lost: a job of the earlier process is no longer the queue's.

### ControlSocket

A hook submits, then polls; the daemon's answer to a poll is five separate looks at
the queue, one action each (`PollReadsPending` to `PollChecksOutcome`). `seen` records
the phases the job was in during the poll, so that the answer can be compared. nix may
end a hook at any time (`HookDies`), in a poll or while it submits; the job stays and the
next hook may submit the same derivation.

### BuildPlan and BuildPush

`BuildPlan` is Kahn's algorithm as `topological_sort` runs it, one `Visit` per loop
iteration, hash maps iterated in any order. `BuildPush` runs the sort, queues the result
job by job, serves builders only afterwards (as the code does), and runs the monitor:
take results, fetch each, read the statistics, decide. A push that has to be announced and
cannot be (`node.rs:437`) ends the command with an error while jobs are queued: phase
`"failed"` (`QueueNextEnds`). The repeated announcements of the monitor only warn.
`stats()` holds all three of its locks to the end of its expression, so it is one
action (`CountJobs`); `has_pending_fetches` is read separately (`Decide`).

### HashIndex

`rows` is the SQLite table, `disk` the nix store. A task queries nix, hashes what is on
disk and inserts, or fetches, inserts and then imports (`node.rs`), or restores first
and inserts afterwards (`builder.rs`). A pass of the cleanup is `CleanList`, then
`CleanCheck` and, if the path is missing, `CleanDelete` or `CleanDeleteFails` for each entry:
a delete that fails is a warning and the row stays (`gc.rs:65`). A pass that cannot list the
table changes nothing and is left out; a task whose query, hashing, insert or import fails is
over (`GivesUp`). A restart forgets tasks and the pass and keeps the table. History of the
running pass: `missing` (paths that were missing all the time), `standing` (rows that have
stood since the pass listed them) and `undeleted` (those it failed to delete).

### Gossip and Transfer

`haves` are the messages broadcast so far and `reached[i]` the nodes message `i` has come
to; a node gets it from a neighbor that has it, or never. The cache is a list per hash,
as in the code, because a fetch takes the first entry. The neighbors of the nodes in `Mover`
come and go. Going comes in the same stream as messages, and when its receiver lags, the
events it drops are gone (`Event::Lagged`, `gossip.rs:316`): `NeighborDownMissed` leaves the
peer in the cache, where nothing ever corrects it but the peer's return and a later departure
that is heard of. `missed` (history) says which peers have gone unheard.

`fetch[n]` is a fetch of node `n`,
stage by stage, together with the task at the peer that serves it; the stages between
which other tasks or nix can act are separate actions: the query, the three reads of the
provider cache, the peer's lookup, check and read of the path, indexing and importing. `tries`
counts attempts; "not found" and a hash mismatch are final, a broken stream is not. So are the
errors that come before and after the transfer: the query cannot be broadcast (`QueryFails`),
the row cannot be inserted or the restore fails, as it does if the path exists (`KeepingFails`;
`node.rs:572`, `main.rs:1482`). An indexing task that fails announces nothing (`IndexFails`).

A peer in `Proxy` that has the row and not the path asks the HTTP caches, a sequence in
order of priority: `AsksCache` passes to the next or gives up (a narinfo that cannot be
read ends the search), `CacheHasPath` takes a narinfo, and `Downloads` is a second request
to the same cache, which may have another NAR by then; only what has the SHA256 of the
narinfo and the BLAKE3 asked for is indexed and sent on. `had` (history) holds what a path
has had in any store or may have in a cache.

`NarFetch` is what a caller may rely on: a fetch holds what it was asked for, under a path
that had it, or fails; it delivers only what it held, and once it holds it nobody is asked any
more, whether it delivers or fails to index or import it; and fetching makes up no content.
`ImplementsFetch` is the refinement, with `phase` and `held` computed
from the stage of the fetch.

### Substituter

`client[n]` is one request of nix after the other, with the task that answers it. A
narinfo request looks into the index (`LooksUpPath`), then for the path in the provider
cache (`ScansProviders`): a path known only from gossip is offered under a hash of zeros
(`url` is `Null`), as the code does. A NAR request looks the hash up again, checks the
path, and serves it or asks the providers listed at that moment one after the other, each
a whole fetch of `Transfer` with its retries (`TriesProvider` to `NoProviderLeft`). nix
may ask for the NAR any time after the offer or not at all.

## 3. The runs

| Run | Question | Instance |
|---|---|---|
| `queue` | the queue's invariants and the refinement | 3 jobs, 2 derivations, 2 builders of which one lacks a feature, 2 submitters, leases that expire after 1 tick |
| `protocol_safety` | exclusive execution, stream in step, truthful acknowledgements, the life cycle of jobs | 2 builders, 2 jobs of one derivation without inputs, 1 line of log, 1 fault of any kind, CancelBuild |
| `protocol_live` | every job ends | 2 builders, 2 jobs with inputs whose fetch may fail, 2 lines of log in a channel for 1, no fault |
| `protocol_lost_builder` | *violated*: a lost builder's lease returns | 1 fault |
| `control_safety` | polls and verdicts are true, whenever nix ends a hook | 2 hooks, 3 jobs, 2 derivations |
| `control_done_poll` | *violated*: a poll of a finished job tells its outcome | the same |
| `push` | the sort is right; builders start in its order; jobs live as `RunSpec` says; the command ends, and without an error only when everything is over | every graph over 3 derivations, every set of them to build, 2 builders |
| `push_dependents` | *violated*: dependents wait for their dependencies | the same |
| `index` | keys are unique; a pass misses no stale row but those it failed to delete, and hits no other than the one it looked at; stale rows go at last | 2 paths, 2 contents, 1 task, restarts |
| `index_cleanup_race` | *violated*: the cleanup deletes stale rows only | the same |
| `sharing` | the provider cache is in order, its first entry stays first, and who has gone is in it only unheard; a fetch panics only when its last provider goes between two looks; no peer is asked twice for nix; fetches end, are genuine and implement `NarFetch`; nix is answered | 3 nodes in a row (one indexes and serves, with 2 HTTP caches; one hands messages on; one fetches and answers nix), 1 path, 2 contents, 2 broadcasts, 1 neighbor change (of the node that fetches), 1 change of the store, 1 retry |
| `sharing_providers` | *violated*: a provider has announced the NAR | the same, 1 broadcast |

Why these bounds are enough to meet the interesting cases: three jobs let one be pending, one
leased and one pushed at once, with two of the same derivation; two builders let one hold what
the other asks for; one fault is what the protocol meets at a time, and a single fault already
reaches stale requests, lost responses and forgotten leases; three derivations contain chains
with shortcuts, shared dependencies and cycles (the proofs hold for any number); three nodes
are the fewest of which one is not a neighbor of another, two broadcasts of one hash the fewest
that could list a peer twice, and one change of the store can come between any two looks of the
serving task; one line of log and one place for it let the stream meet a line between any two
other requests, and two lines let the build wait for room; two caches of which only the second
has something let the search pass one over, and two contents let a cache have another NAR than
the row names; only the neighbors of the node that fetches change (`Mover`), as the one that
announces reads no list of its own and the one in the middle, losing a neighbor, does to the
others what a message that never arrives does; two paths with two contents let one insert
conflict with two rows, and let a row be replaced, deleted and inserted again within one pass.
Jobs with inputs run under no fault and those under faults have no inputs: together they would
take more time than a run has, and the proofs about the protocol cover both at once. Symmetry
over submitters, derivations or builders is used only in runs without temporal properties
beyond a refinement of safety.

`CHECK_DEADLOCK FALSE` stands in the runs of systems that stop: a bounded number of
jobs has been pushed and is over.

### Fairness

* `FairSpec` (BuilderProtocol): workers and handlers take the steps their code
  takes without waiting for anybody else; a build writes what it has to write when there
  is room (`WriteLine`) and then ends; `build-push` repeats its announcement every 10 s
  (`main.rs:1267`). The worker's `select!` chooses at random among the branches that are
  ready, so neither a line in the channel nor the end of the build is passed over for ever:
  strong fairness of `SendLog` and `BuildEnds`, as a heartbeat in between disables them
  for a while. Nothing is assumed of clients or faults.
* `BPFairSpec`: the command's own steps run on; a builder that is free asks for jobs
  and one that has a job ends it. The first is what `protocol_live` shows, the second
  is the assumption that builds end. Every builder has the features the jobs need.
* `TFairSpec` and, on top of it, `SFairSpec`, which the run uses: a fetch and the task that
  serves it run on, and so does the task that answers nix; a connection comes up and
  delivers or fails, it does not hang. Messages, neighbors and nix owe nothing: nix need
  never ask for the NAR it was offered.
* `HFairSpec`: the cleanup task keeps running (`main.rs` starts it with the daemon), listing
  the table succeeds, and from some point on the node is not restarted and no delete fails
  (`Trouble` ends): without that a stale row may stay, and the code promises no more. Indexing
  tasks owe nothing.

### What the violated runs show

1. A builder that is gone keeps its lease: nothing calls `check_timeouts`.
2. A job that ends between two polls is polled for ever: its derivation is looked up
   among pending and leased jobs only.
3. The cleanup deletes a row whose path was imported after the pass looked. In the daemon the
   substituter indexes what it fetches for nix, and nix imports the path itself, later.
4. With two builders, a derivation is handed out while its dependency is being built.
5. A node takes the neighbor that handed a Have on for the one that sent it: what is
   announced two hops away is looked for at a node that has nothing.

Other disagreements seen while reading, kept as hazards and not as runs: the hook reports
success although the daemon never fetches outputs (only `build-push` takes the results);
`fetch` panics when the last provider goes between its two reads of the cache (`main.rs:659`;
`PanicsOnlyOnLoss` shows that nothing else makes it: the list was not empty when the fetch
looked, and was emptied by the departure of the one neighbor left in it before the fetch took
the first); a peer whose departure fell among lagged events stays a provider until it returns
and goes again (`gossip.rs:316`), so that fetches go to it in vain; a path that only gossip
knows is offered to nix under a hash of zeros, which no row has, so nix is told "not found" for
the NAR it was just offered (`substituter.rs:297`, although `substituter.rs:424` can fetch from
peers); the input paths of the hook's jobs have a hash of zeros with the comment "daemon will
look up or compute" (`build_hook.rs:142`) and nobody does, so that a builder that lacks one of
them always fails the job; the lines of a log that are still in the channel when the build ends
are dropped (`builder.rs:577`); the `logs` command subscribes to the queue of its own process,
to which no builder connects (`main.rs:1394`); the hook's wait has no limit although
`control.rs:296` expects one; `build-push` prints "All {} builds completed!" after failed
builds; a failed fetch is forgotten; indexing a path evicts another one with the same NAR.

## 4. What is proved

TLAPS checks these for every value of the constants: any number of builders, jobs, hooks,
nodes, faults, changes and retries, any graph, topic, stores and caches. Every safety property
the passing runs check, invariant or action property, is a theorem here, and so are the
refinements: five of them, of the queue, the protocol, the daemon, `build-push` and fetching.
TLC checked each inductive invariant on the run of its module before it was proved.

The specifications that share the queue are proved on top of it: `DaemonUsesQueue`,
`PushUsesQueue` and `ProtocolUsesQueue` say that they make the queue no step but its operations
(for the protocol: between restarts of the requester), so that the queue's invariant `IndInv`
holds in each of them. `Call` is a step of the queue other than `check_timeouts`, which the
program never makes; the lemmas `CallKeeps` and `LeaseStays` say what such steps preserve (the
records of jobs, that a job is over and how it ended, that a leased job waits no more, whose
a lease is).

**BuildQueue** (`BuildQueueProofs`). The inductive invariant is

    IndInv == TypeOK /\ JobsDescribed /\ OnePlace /\ NoJobLost
              /\ OutcomeOfFinishedJob /\ FetchedExactlyOnce

`OnePlace` carries the argument: one lemma per operation says how it moves jobs
between the tasks that push, the queue and the leases, and that it leaves them
disjoint. `JobsDescribed` (an allocated id has a derivation) is needed for `NoJobLost`:
`complete` and `fail` record the outcome under the job's derivation. `OutcomeOfFinishedJob`
needs `OnePlace` because only a leased job can end, and a job that is over can be in none
of the three places again. Theorems: `TypeCorrect`, `JobInOnePlace`, `NoJobIsLost`,
`OutcomesAreFinal`, `ResultsFetchedOnce`, and `Refinement` (every step is a step of
`JobLifecycle` or a stutter).

**BuilderProtocol** (`BuilderProtocolProofs`). `StreamInStep` counts messages. It is not
inductive: to know what the worker will read next one must know where its one message is and
that nothing is left on a connection that is gone. `InStepOf` therefore says that a connected
worker that awaits a response has it unread, being served or answered, as the request of its
own job, and that there is silence otherwise. `ExclusiveExecution` speaks of jobs that are
executed, but a job belongs to a builder as soon as `pull` has leased it: `InHand` adds the
jobs whose response is still on its way, `HandHasLease` binds them to the lease, and
`InOneHand` keeps the hands disjoint, since `pull` takes a job that is in the queue and so in
nobody's hand (`OnePlace`). `AckOnTheWay` is `AckMeansAccepted` for an acknowledgement that
was not read yet: it is not the handler's copy of the leases that makes it true but
`complete`'s own check. A restart empties all hands at once, as every link is lost.
Theorems: `ProtocolTypesCorrect`, `StreamsStayInStep`, `AcksAreTrue`, `ExecutionIsLeased`,
`ExecutionIsExclusive`, `LeasesAreForLife` (no step but the end of the job or the requester's
restart takes a lease from its builder, which is why a lost builder's job is stuck),
`ProtocolUsesQueue`, and `ProtocolRefinement`: the protocol implements
`JobLifecycle!RestartSpec`. The latter needs no more than that a step is a `Call`
(`LifecycleCall`: it moves at most one job on) or the restart (`RestartForgets`).

**ControlSocket** (`ControlSocketProofs`). What a poll will answer depends on what its earlier
reads found, each true only when it was made. `ReadsSoFar` says what follows from them at
each of the five points: a poll that goes on has seen the job waiting, or the job is over, and
both stay so. `EndedIn` is stable because how a job ended is final and a derivation, once
shared with another job, is shared for ever. `KindTold` is the invariant of the queue that the
socket needs and the queue alone does not state: the kind of a recorded outcome tells whether
its job's completion was accepted. Theorems: `HookTypesCorrect`, `PollAnswersOneState`,
`HookTellsTruth`, `DaemonUsesQueue`, and `DaemonRefinement`: every step is a `Call`, and
`LifecycleCall` makes that a step of `JobLifecycle!RunSpec` or a stutter.

**BuildPlan** (`BuildPlanProofs`). The invariant says what the counters count
(`DegreesCount`: `in_degree` is the number of dependencies not in the result) and when a
derivation is listed (`ListedWhenFree`: exactly when its counter is zero, once).
Then a visited derivation has no open dependency, so the order is right; a counter is
never decremented at zero; and if the work list is empty, what is left would be a set
each of whose members depends on another: a cycle.

**BuildPush** (`BuildPushProofs`). The invariants of the queue and of the plan, joined by
`JobsOfPlan` (job `j` is the `j`-th derivation of the plan, and builders are served only when
all are queued), `InOrder` (the queue is ascending, and builders that can do every job have
taken a prefix of it) and `MonitorKnows` (what the loop counted as idle is still idle when it
decides: nothing comes back, as nothing calls `check_timeouts`). Theorems: `PushTypesCorrect`,
`PushStopsWhenOver`, `DependenciesAreStartedFirst`, `PushPlanIsRight`, `PushUsesQueue`, and
`PushRefinement`, as in the daemon. `PushAssumption` names what the argument needs of the
command: its jobs are pushed by one task (`main.rs`, the loop over the plan), whatever it is
called.

**HashIndex** (`HashIndexProofs`). `PassRemembers` says that a row that has stood since the
pass listed it and whose path has been missing ever since is still to be looked at, about to be
deleted, or was not deleted because that failed; with `MissingIsMissing` and `StandingStands`
(the history variables agree with disk and table) it is inductive and gives
`CleanupIsComplete`: what is left when a pass ends is what it failed to delete.
`KeysStayUnique` follows from `Insert` alone. `PruneIsAimed` is about a step: a pass deletes by
BLAKE3 and takes, of the rows it listed, no other than the one it looked at. It needs
`SeenHashesDiffer`: what a pass has seen comes from one state of the table, in which hashes
were unique (`UniqueKeys`, when the pass began), although by now two rows of that list may have
been replaced by others; `PassIsOver` says that nothing of an earlier pass is left when one
begins. That the row still is what it was when the path was looked for does not follow, and is
what the run `index_cleanup_race` refutes.

**Gossip, Transfer, Substituter** (`SharingProofs`), proved of the composition `SSpec`. The
invariant `SharingInv` says what is known of a fetch at each stage (`FetchKnows`): that its
peer, its path and its cache are defined before they are used; that an answer that is what was
asked for was read from a store or a cache, which makes it genuine because `DiskWasHad` (a
store holds only what `had` holds). `ClientKnows` adds that a node that answers nix runs no
fetch but the one it started for nix. `ProvidersOnce` and `GoneOnlyIfMissed` are inductive
together with the types. One lemma per action shows that it moves at most one fetch, and how
(`FetchMoves`); the invariant and the refinement both use them. Theorems: `SharingTypesCorrect`
(which bounds the attempts), `ProvidersListedOnce`, `OnlyTheMissedStay`, `FetchesAreGenuine`,
and `FetchRefinement` (every step is a step of `NarFetch` or a stutter). `PanicOnlyAfterLoss`
is about steps: a fetch comes to the point where it takes the first provider only with a list
that is not empty (`ChoosesFromAList`), and the one action that empties a list is a departure
of the last peer in it (`ListsKept`, `EmptiedByLoss`), as `add_provider` appends and a missed
departure changes no list; so is `FirstProviderIsKept`: the only steps that change a list are
`add_provider`, which appends, and `remove_provider`, of which `RetainedHead` says that a first
entry that is kept stays first. `NoPeerIsAskedTwice` rests on `ProvidersOnce` at the moment the
list is read; from then on the list is a copy from which entries are taken (`FirstIsAnother`)
and the fetch it starts keeps its peer through all its retries (`TransferKeepsPeer`).

Assumptions: those named `...Assumption` in the modules (types of the constants, `Null`
is none of the values, the derivations are finitely many, one task pushes the plan). TLC
evaluates them in the runs. `ListingLemmas` has the facts about sequences the proofs share;
`RetainedFacts` says what is left of a list after `Vec::retain`, which rests on
`AscendingOrderExists`: finitely many positions can be put in order.

Only model-checked: everything under fairness, which is out of the provers' reach here
(`EveryJobEnds`, `StaleRowsGo`, `PushEnds`, `FetchEnds`, `NixIsAnswered`), and the properties of
the violated runs, which do not hold.

## 5. What is not modelled, and why

* Bytes: NAR encoding, postcard and JSON framing, narinfo and nix output parsing, base32.
  Sequential code without shared state.
* Processes: `nix-store`, `nix`; a build is a step with two outcomes. Ed25519 signatures:
  made and never verified.
* `HasBuilders` answers yes. The input paths a job lists are data nobody checks: a job with
  some may fail to fetch them at any time (`WithInputs`, `FetchDependencies`), which covers the
  outputs that `build-push` looks up before they are built (`main.rs:1169`) and the zero
  hashes of the hook.
* Requests for a NAR by store path, which
  nobody sends; the gossip messages nobody sends or answers (Want, IHave, BuildComplete); `clear_needed_features` and
  `with_retry_providers`, which nothing calls.
* The lock order: `check_timeouts` takes `leased` before `pending` and `pull` the other way
  round, a deadlock if both ran at once, but nothing calls `check_timeouts`; the other
  operations take several locks in one order.
* Subscribers of logs and statistics of retries: only printed. HTTP itself, compression, HEAD
  requests, cache-info and malformed requests of the substituter.
* Several requesters for one builder (it works for one at a time), and several fetches of
  one node at once beyond the `HashIndex` tasks.
* Size, references and deriver of index rows; schema migration. A restore that stops half-way
  and leaves part of a tree: an import happens or fails.
* A NAR's SHA256 comes from the header the peer sends and is not verified; the model takes it to
  agree with the BLAKE3, which is. Rows whose two hashes disagree are reached by the other way
  there is, indexing while the path changes.
* A job queued behind another is not announced (`build.rs:236`), so a builder with the features
  only it needs may never hear of it. The jobs of `protocol_live` need no features; that a job of
  the daemon finds a builder with its features is promised nowhere and checked nowhere.

## 6. Plan

In this order; each with its hazards from `PROJECT.json`.

1. The indexes and stores of requester and builder in one model, so that the input paths of
   a job can be followed from `build-push` to `fetch_dependencies`.
2. Several requesters in a worker's round (`builder.rs:254`).
