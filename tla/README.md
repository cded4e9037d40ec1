# Sigla: a TLA+ model of its shared state

Sigla serves code search, navigation and repository history to an MCP client.
One process keeps, on disk and in memory, everything it learnt about local
workspaces, fetched repositories and packages. Almost all that can go wrong in
it and that a unit test hardly reaches lies where these caches are shared: by
requests, by background maintenance, by earlier and later processes. This
directory models that shared state, checks it with TLC, and proves the central
results with TLAPS. Paths below are relative to `src/src/`.

## 1. Inventory

Each entry: the state a part keeps, what changes it, what it talks to, what is
hard, and what makes it correct. `PROJECT.json` lists the same parts with
their status and what is left out of each, and under `hazards` the lines where
each one bites. Section 2 says which module models which part.

**Git object pool** (`repository/cache.rs`, `repository/rebuild.rs`; client:
`repository/history.rs`). One directory per repository: a bare store `current`,
a backup `previous` during replacement, `pool.json` (clock, retained hash),
`history.json` (which history objects the store holds), reader views. In
memory: an operation mutex with a generation number, pins, reader
registrations. Operations: acquire (fetch under the mutex, pin), publish a
selector (no mutex), object leases (open, fetch, retain, publish back, close),
maintenance (scan all selectors once, then visit each pool), rebuild and
replace, recover, remove. Hard: roots change while they are collected; the
shared scan is older than the pool it is used on; two renames with crashes and
failures between them; claims in `history.json` about a store that may have
been replaced. Correct: nothing pinned or selected is lost, coverage is true,
leased views stay whole, the mutex is given back.

**Branch manager** (`repository/manager.rs`, `repository/retention.rs`). Per
branch: `state.json` (prepared revision, selection, indexed revision, repair
marker), the checked-out sources, locks for state, analysis, publication and
acquisition; a registry of open branches with a running flag each. Operations:
resolve, schedule, refresh, extend inputs, expire, evict. Hard: a refresh
replaces files one by one after the state naming them is durable; extension and
indexing change state during an acquisition; eviction races a request that
revives the branch. Correct: the state never names files that are not there
without its repair marker; an indexed revision is the prepared one only if the
indexed files are the prepared files; a leased or running branch is not evicted.

**Admission** (`repository/admission.rs`, `acquisition.rs`). Semaphores for
staging (4), transfers (2) and imports (2); two process-wide package permits
with a condition variable; a stop flag. Hard: shutdown against waiters; permits
held while asking for others. Correct: bounds kept, every waiter answered.

**View leases and owners** (`cache/views.rs`, `cache/owners.rs`,
`cache/packages.rs`). Reference counts by root, retirement by rename into
`retired-views`, an owner catalog staged and published by revision. Hard: a
count read before a rename; a catalog staged from a stale copy. Correct: no
leased view is retired; no observation is lost.

**Blob store** (`cache/blobs.rs`, `cache/artifacts.rs`; `repository/lfs.rs`).
Content-addressed files shared by hard links; the link count is the reference
count. Operations: import, adopt, link, collect. Hard: link counts read before
deletion; concurrent importers; the file lock shared between processes.
Correct: a linked blob is never collected or altered.

**Analysis store** (`store/shared.rs`, `store/publication.rs`,
`store/format.rs`). An LMDB environment with objects, bindings of files to
objects per scope, reference counts, posting lists, manifests. Operations:
prepare, install (through a group commit queue), detach, finish a refresh,
collect, retire a namespace. Hard: leader election, batches that abort and
replay, bisection and retry; collection against prepared bindings. Correct:
a batch is atomic, a neighbour's failure is not one's own, counts are the
bindings there are.

**Compaction** (`cache/compaction.rs`, `service_cache.rs`). Copies the
analysis database and swaps it in with a backup. Hard: commits after the copy;
a crash between renames. Correct: no committed record is lost.

**Disk policy and schedule** (`cache/policy.rs`, `service_cache.rs`). Usage,
pressure with hysteresis, deadlines with backoff. Correct: reclaiming stops at
the low mark, every task is eventually run.

**Memory budget** (`memory.rs`). FIFO tickets for bytes and workers; requests
above the budget are clamped; caches are trimmed. Correct: no overcommitment,
no starvation, a cancelled ticket does not block the queue.

**Preparation and index jobs** (`service/preparation.rs`,
`service/indexes.rs`, `native/jobs.rs`, `unity/assets/jobs.rs`). One job per
key, tickets for waiting callers, generations. Hard: superseded jobs, panics,
retry delays. Correct: nothing stale is published, every ticket is resolved.

**Directory watches** (`watch.rs`, `repository/source_validation.rs`). Fences
that say whether anything changed since. Correct: a change after the fence is
seen, or the watch falls back to reading files.

**Telemetry journal** (`telemetry/journal.rs`). Framed appends and a snapshot;
recovery of a torn tail and of interrupted work.

**Sequential parts.** History matching and path following (`history/`),
language front ends (`extract/`, `csharp/`, `native/`), Unity project graphs
(`unity/`), search and rendering. They compute data from data. Candidates for
operators checked against a reference definition are `history/sequence.rs`,
`repository/retention.rs` and `cache/policy.rs`; the rest is out of reach of a
finite model.

**Input and output only.** Git transport and credentials, archive download,
child processes, the MCP protocol, configuration.

## 2. Modules and plan

| module | models | proofs | run |
|---|---|---|---|
| `GitPool` | the shared object pool (section 3) | `GitPoolProofs` | `pool`, `pool_progress` |
| `GroupCommit`, `AtomicPublish` | the publication queue and its contract (4) | `GroupCommitProofs` | `group_shared`, `background` |
| `BranchRefresh` | refresh, extension, repair and indexing of one branch (5) | `BranchRefreshProofs` | `branches`, `progress`, `refresh_require` |
| `BranchRegistry` | the registry of branches: resolve, expire, evict (5) | `BranchRegistryProofs` | `progress` |
| `DefaultBranch` | which copies survive a rename of the default (5) | `BackgroundProofs` | `background` |
| `AcquisitionGate` | admission of package preparations (5) | `BranchRefreshProofs` | `branches`, `progress` |
| `PackageView` | the writable package view and its seal (6) | `RequestsProofs` | `requests` |
| `WorkspaceRefresh` | validation, planning and indexing of a workspace (6) | `RequestsProofs` | `requests` |
| `QueryFlow` | shared preparations, tickets, locks of a query (6) | `RequestsProofs` | `requests`, `progress` |
| `SourceJobs`, `AssetJobs` | background index jobs (6) | `RequestsProofs` | `requests`, `progress` |
| `AnalysisStore` | the database that workspaces share (7) | `AnalysisStoreProofs` | `store` |
| `Compaction` | its replacement by a compact copy (7) | `StorageProofs` | `storage`, `progress` |
| `BlobStore` | hard-linked blobs and LFS objects (7) | `StorageProofs` | `storage`, `progress`, `blobs_left` |
| `ViewLeases` | leases, owners, retirement of views (7) | `StorageProofs` | `storage` |
| `Journal` | the telemetry journal and its export (8) | `BackgroundProofs` | `background` |
| `WatchFence` | directory watches and their readers (8) | `BackgroundProofs` | `background` |
| `MaintenanceLoop` | the maintenance worker's schedule (8) | `BackgroundProofs` | `background` |
| `MemoryBudget` | admission to memory (8) | `BackgroundProofs` | `background`, `progress` |
| `HistoryGraph`, `HistoryWalk`, `HistoryLog` | intervals, merge bases and pages of a history (9) | | `history` |
| `LineEdits` | alignment of lines and single edits (9) | | `history` |

`Branches`, `Requests`, `Storage` and `Background` put components side by side
that share no state: each EXTENDs one of them, instantiates the others with
constants and variables of its own, names the assumptions on the constants, and
states the properties (`GatePermitsKept`, `FlowTrue`, `BlobsTrue`, `MemoryTrue`
and so on) of which the proof module of the same group proves that every
behaviour of the component's specification has them.

The `MC` modules EXTEND these and give the constants small values: a variable
`part` says which component runs in a behaviour, and the others stay in an
initial state. So a run of five components is five runs with one configuration,
and it evaluates the very definitions and assumptions the theorems name.
`MCProgress` and `MCBackground` also instantiate modules whose proofs are about
another instance.

Where components do interact, the module of the user has the part it uses of
the other: `GitPool`'s `Publish` is the persist of `BranchRefresh`, a refresh
and a preparation are steps of `QueryFlow` and `AssetJobs`, an installation is
one step of `AnalysisStore` and many of `GroupCommit`, an eviction of
`BranchRegistry` removes the directory that `BranchRefresh` fills, and
`BlobStore` joins the three users of one directory of blobs.

**Left to do.** Refinements: `GitPool` as an object store whose rooted objects
never disappear, and `AnalysisStore` with `GroupCommit` as its writer. Not
planned: the parts that section 13 lists.

## 3. GitPool: the shared Git object pool

**State.**

| variable | in the code |
|---|---|
| `op`, `phase` | who holds `Pool::operation`, and how far it is |
| `force`, `cap`, `todo` | the holder's `pressure` flag, the `Retention` it captures, and the selectors `visit_selectors` has still to read |
| `gen` | the `u64` inside the mutex |
| `current`, `previous`, `staged` | the stores on disk: their objects, whether the completion marker is there, and the id in `sigla-generation` |
| `history`, `poolJson` | `history.json`, and `retained` of `pool.json` |
| `pinned` | the objects of each acquisition's live `Pin` |
| `persisted` | what each branch's `state.json` selects |
| `lease`, `held`, `view` | per reader: its lease, the ids it retained, its view directory |
| `snap` | per maintenance pass, its `Snapshot` of this pool: generation, roots, selectors left to visit |

**Actions.** `Begin`, `GitStart` to `EndTurn` and `Unpin` are one turn of
`Acquisition`: lock, bump the generation, `recover`, perhaps rebuild, run the
job, pin. `Publish` and `Retire` are `Manager::refresh` and `views::retire`,
which touch `state.json` *without* the mutex. `OpenLock` to `Close` are the
object lease. `Capture` and `Visit` are the shared scan of `maintain_pools`,
`Maintain` and `Survey` a pool's turn in `maintain_pool`. `CaptureSelector`,
`CaptureHistory`, the removal steps, `Rebuild` and the `Swap` steps are
`retain_history`, `remove_dir_all`, `execute` and `Pool::replace`, one step per
rename or deletion; a deletion that stops half way leaves any part.
`Recover*` are the branches of `Pool::recover`. Every `?` that leaves the
mutex is `Abort` or a `*Fail` step; `Crash` is possible everywhere; `Forget`
is the weak registry dropping a pool nobody holds, whose generation then starts
again from zero.

**Abstractions.** A Git object and the tree it closes over are one member of
`Objects`. Clocks are free choices: a rebuild, an idle removal, a retry may be
due whenever the code would look at its time. The hash of a retention is the
retention. What a job fetches and prepares is any set. A generation id is
fresh for every store, as the hash of a unique path is; reusing a member of
`Gids` that nothing names any more is allowed. Sizes, permits and the listing
of pools for owners are left out.

**Properties.**

* `KeepRooted` (action property): an object that a live pin or a persisted
  selector needs before and after a step, and that recovery would find before
  it, recovery finds after it. It is broken only by several actors: a scan that
  is too old, a selector published between two reads, a swap interrupted at
  the wrong rename.
* `HistoryCovered`: coverage that names the current store is true of it.
* `LeaseReadable`: a live reader's view holds what it retained.
* `SnapshotCovers`: while its generation is the pool's, the scan made without
  the mutex covers every pin and each selector it has passed.
* `OperationEnds`: whoever takes the operation mutex gives it back.
* `IInv`: the inductive invariant (section 11).

## 4. GroupCommit: the publication queue

**What it promises.** `AtomicPublish` is the contract: a batch of files is
`pending`, then bound to its objects in one durable step, possibly together
with the batches of others, or not at all; its publisher is told which.

**State.**

| variable | in the code |
|---|---|
| `db`, `tx` | the LMDB environment and the leader's `Writer`: bindings, stored objects, phases of workspaces |
| `waiting`, `leader`, `asleep` | `Queue::waiting`, `Queue::active` and who set it, the threads in `publication_changed.wait` |
| `stage`, `group`, `outcome`, `applied` | where the leader is in `publish` and `apply`, `Leader::requests`, its local `results`, and what `values` holds |
| `put`, `result` | which files the answer has as `Some`, and `Request::result` |
| `pc`, `plan`, `batch`, `single` | where a publisher is in `publish_subset`, the batches on its recursion stack, the files of its request, whether it is the last retry |
| `expected`, `encoded` | of a `PendingInstall`: the binding it was prepared against, and whether it carries an encoding |
| `answer`, `changed` | its results per file, and the files for which `verify` fails |

**Actions.** `Prepare` is `prepare_install`; `Submit`, `ReadFresh`, `TakeOk`,
`Bisect` and `TakeErr` are `publish_subset` around its call of `publish`, with
the fences checked before each attempt; `Sleep` and `Lead` are the loop of
`publish`. The leader takes the writer (`TakeWriter`, `WriterFail`), drains the
queue (`Collect`), applies requests in order (`Apply`), aborts and starts again
without one that fails (`Reject`), commits (`CommitTx`, `CommitFail`), hands
out results (`StoreResults`) and steps down (`Drop`); `Unwind` is a panic with
the group in its hands, seen by `Leader::drop`. `Change`, `CollectObject` and
`Retire` are an edit of a source file, one deletion by `collect_before`, and
`mark_deleting`; the latter two are transactions of their own and so excluded
while the leader's is open.

**Abstractions.** A binding is its object: records, postings, members, input
aliases and reference counts follow from it, and an object is collected only
when nothing is bound to it (a pin of a snapshot or its age only keep it
longer). The limit of a group counts files, not bytes. A batch has no order:
which half bisection takes first, and whether a neighbour brings a missing
object in time, are free choices. Detaching and the single-file `install` write
bindings too and are left to `AnalysisStore`.

**Properties.**

* `Atomic`: the queue implements `AtomicPublish`. The mapping shows how each
  request stands (`Standing`): `idle`, `pending`, or decided, by the leader's
  local result or by the stored one, whichever exists. Going on with a
  transaction in which a request failed breaks it.
* `BoundLive`: no binding names an object that is gone, although objects are
  collected between preparation and installation.
* `Resilient`: a file fails only if its source changed, its workspace was
  retired, or two other things went wrong, a fault or a rival for the same
  file: a neighbour's failure costs nothing, nor does one disturbance.
* `AnswersTrue`: what a publisher is told of a file that nobody else publishes
  is what the database holds.
* `AllAnswered`: every publisher ends.
* `IInv`: the inductive invariant (section 11).

## 5. Branches

**`BranchRefresh`** follows one branch through `Manager::refresh`,
`extend_inputs` (with `require_inputs` and `complete_assets`), the selection in
`materialize.rs`, and the preparation that indexes the files and marks the
revision. `state` is the applied selector, `saved` what `state.json` holds,
`disk` the files below `source/`, `job` the one job at work with its step and
what it acquired, `prep` and `index` the preparation and the database.
`BeginRefresh`, `Fetch`, `PublishChanged` (persist with the repair marker, then
`Remove` and `Place` one file at a time, then `Finish`) and `PublishUnchanged`
are the refresh; `Fail` and `Crash` may come between any two of them. The rules
of selection (source, optional, large, LFS pointer, extra) are constants, so a
selection is computed as the code computes it.
`RefreshTrue` collects five claims: types; `SourcesTrue` (with no repair marker,
the files on disk are those of the applied selector), `SavedTrue` (so is what a
restart would load), `StillWhileIndexed` (no file moves under a reader that
indexes) and `MarkFresh` (a preparation marks only what it indexed).

**`BranchRegistry`** has `resolve`, `schedule`, the tasks, `expire` and `evict`
with the handles of the branch objects: `registry` (which object serves a
selector), `dir` (which object made the directory on disk), `branch` (whether it
is usable, its refresh, its retry delay), `query`, `idle` (what maintenance found
expired) and `victim` (an eviction in progress). A count of handles is the number
of `Holders`. `RegistryTrue`: whoever
holds a branch holds the registered one (`OneBranch`), its directory is the one
it was opened on (`FilesKept`), and a query is never given a failure that ended
before it asked (`OwnFailure`).

**`DefaultBranch`** is the memory of the default branch (`previous_default`,
`retention.rs`): a lookup that decides and then records, copies that become
ready, are refreshed or evicted at any time, also between the two. `FallbackKept`:
a default that was ready when the lookup of its successor decided, and is renamed
away, stays until a successor is ready. `CopyKept`: while some copy has served as
the default, one stays. The code does not promise this always: a lookup may find
the default it replaces between two revisions, not ready, and record an older
branch. The history variable `missed` says when that has happened, and `CopyKept`
is claimed until then (section 12).

**`AcquisitionGate`** is `acquisition.rs`: permits under a mutex with a condition
variable, one preparation per destination, remembered failures, a stop flag set
without the mutex. `GatePermitsKept`: the permits counted are the permits held.

## 6. Requests

**`PackageView`** (`cache/packages.rs`): the directory below, the writes above,
the seal that exchanges the two directories' names, its journal, and the
recovery by whoever opens the view next. `RecoveredFirst`: a build starts
without traces of an earlier seal. `OnlyBuildsShow`: only builds change what
the view shows. `PublishesAll`: a directory that takes another's place holds
all that is shown.

**`WorkspaceRefresh`** (`workspace.rs`, as `service/preparation.rs` calls it):
stamps and watches decide whether the manifest still holds; otherwise
discovery, planning, indexing and a new manifest, while files are edited.
`WorkspaceTrue`: served sources are not older than the question, manifest and
bindings agree, stamps are not older than the question either.

**`QueryFlow`** (`service.rs`, `service/preparation.rs`): the shared preparation
of a workspace, tickets, the mutex of the workspace before the analysis lock of
the branch, permits taken last. `FlowTrue`: what is ready has been indexed, what
is evaluated stands still, and a query sees the edits made before it.

**`SourceJobs`**, **`AssetJobs`** (`native/jobs.rs`, `unity/assets/jobs.rs`): index
jobs per group or revision, superseded by newer ones, trimmed, forgotten,
stopped. `SourcesTrue`: one job of a group writes at a time, a saved manifest
lists what is bound, a superseded job publishes nothing. `AssetsTrue`: an index
of a branch is of the revision it was asked for, one of a local directory of files
that were there after it was asked for, and nothing had moved when it was
published. A branch is refreshed to any revision, one it has left too: the history
variable `returned` has the jobs whose branch did so between their two looks at it,
and of these nothing is claimed (section 12).

## 7. Storage

**`AnalysisStore`** (`store/shared.rs`): namespaces with bindings, reference
counts, members, aliases, the index of unused objects, manifests, pins of
readers; a step is a transaction. `StoreTrue`: counts, members, aliases and the
unused index agree with the bindings, a clean namespace binds its manifest, the
postings name every file that is bound, and a view stays readable.

**`Compaction`** (`cache/compaction.rs`): `dir` is the directory as the process
sees it, `disk` the directories a power failure may leave (a rename is sure only
after a sync), files are inodes with the number of the last commit they hold.
`NothingLost`: recovery would find every commit, in any of these directories.
`HandleTrue`: no request uses a file that was replaced. Every step may fail, the
rename back after a failed validation and the caller's `recover()` too; where that
one fails the second name stays and requests open the database beside it. Then
`NotRolledBack`, which `StorageProofs` proves: recovery would choose the file that
requests use.

**`BlobStore`** (`cache/blobs.rs`, `repository/cache.rs`, `repository/lfs.rs`): names
and inodes, importers and LFS hydrators, one batch of the collector.
`BlobsTrue`: contents are those of the id, in the store, in views and after a
power failure, and what a job found stays until it linked it.

**`ViewLeases`** (`cache/views.rs`, `cache/owners.rs`, `service_cache.rs`): leases in
memory, the catalog, its staged writes, manifests in the database, and the
collector that seeds and retires. `LeasesTrue`: what is in use or indexed stays
on disk, an older manifest or catalog never replaces a newer one.

## 8. Background

**`Journal`** (`telemetry/journal.rs`): queue, writer, snapshot, frames of a day,
packing and rolling up, the exporter and its cursor. `JournalTrue`: what ended is
recorded once, readable, and not forgotten by a crash or a repacked day; it leaves
the snapshot only for its day, or when the gaps have grown since the journal was
opened: what is missing is owned up to. An export misses nothing. `Count` is the
exchange of gaps with the recorder: those the recorder counted, of messages it
dropped, and the writer's own, of frames or snapshots it could not write, make
every active operation unknown, and an unknown one makes room for others. The
first flush of a process is part of opening the journal. A variable `limits`, chosen at the start, says what
may happen to a journal: its operations and days, its crashes and exports, the
writes that may fail. Parts of `JournalTrue` hold in some circumstances only, and
name them: an operation is recorded once where no day is rolled up to a summary
(`NeverRolledUp`); nothing is stranded or forgotten where a failed append can be
cut off again (`Undone`); and a position is told from an older one by its
generation where there are, besides, neither crashes nor rollups
(`Distinguished`, section 13). The run has a journal for each.

**`WatchFence`** (`watch.rs`, `source_validation.rs`): the kernel's queue, shared
watches, a reader that fences, reads and trusts its snapshot. `WatchTrue`: what a
snapshot does not report did not change.

**`MaintenanceLoop`** (`service.rs`, `service_cache.rs`): deadlines as the time left.
`LoopTrue`: collections and refreshes are not put off, fruitless scans back off,
the worker does not spin.

**`MemoryBudget`** (`memory.rs`): two budgets, tickets in order of arrival, clamped
requests, cancelled ones. `MemoryTrue`: bytes and workers are free or reserved
exactly once, and the queue holds the tickets of those who wait.

## 9. Histories

**`HistoryWalk`** (`history/walk.rs`): the breadth-first discovery of an interval,
with its groups, missing commits, cancelled and repeated requests, checked
against definitions over the whole graph: the interval is closed exactly when
every path passes one commit, the nearest one, and is listed children first;
merge bases and certified ancestry are those of the graph (`WalkTrue`).
**`HistoryLog`** (`history/mod.rs`): pages computed anew, with commits missing;
`LogTrue`: they never repeat or misorder a row, tell truly whether there is more,
and none is empty. **`LineEdits`** (`history/sequence.rs`, `history/merges.rs`):
`EditsTrue`: the anchors are a longest chain, all edits applied give the new
text, none gives the old, and rejecting one keeps the others.

## 10. Runs

| run | module | distinct states | shows |
|---|---|---|---|
| `pool` | `MCGitPool` | 2 976 000 | `KeepRooted`, `HistoryCovered`, `LeaseReadable`, `SnapshotCovers`, `IInv` |
| `pool_progress` | `GitPool` | 480 000 | `OperationEnds` |
| `group_shared` | `MCGroupCommit` | 455 000 | `Atomic`, `BoundLive`, `Resilient`, `AnswersTrue`, `IInv`, `AllAnswered` |
| `branches` | `MCBranches` | 330 000 | `RefreshTrue`, `GatePermitsKept` |
| `requests` | `MCRequests` | 2 256 000 | `PackageView`'s three, `WorkspaceTrue`, `FlowTrue`, `SourcesTrue`, `AssetsTrue` |
| `store` | `MCStore` | 3 307 000 | `StoreTrue` |
| `storage` | `MCStorage` | 1 055 000 | `NothingLost`, `HandleTrue`, `BlobsTrue`, `LeasesTrue` |
| `background` | `MCBackground` | 2 280 000 | `FallbackKept`, `CopyKept`, `JournalTrue`, `WatchTrue`, `LoopTrue`, `MemoryTrue`, `GroupsTrue` |
| `history` | `MCHistory` | 2 147 000 | `WalkTrue`, `LogTrue`, `EditsTrue` |
| `progress` | `MCProgress` | 155 000 | `CallersReturn`, `JobsEnd`, `LeftoversRemoved`, `RegistryTrue` |
| `blobs_left` | `BlobStore` | stops | `Disposable` violated (section 12) |
| `refresh_require` | `MCBranchRequire` | stops | `AppliedSources` violated (section 12) |

**Bounds of the pool.** `MCGitPool` runs three slices: a branch and a package
acquisition, two history readers (each with two objects), and a branch with a
reader (one object), each against a maintenance pass. Two objects tell "the one
that was kept" from "the one that was lost"; three generation ids are what
`current`, `previous` or `staged`, and a claim in `history.json` can name at
once; `MaxGen` 2 lets a scan be older than one acquisition and the same age as
the next. The `MaxGen` guard in `GitStart` is the only bound in the model, and
the theorems hold for each value of it. Deadlock is checked.

**Bounds of the queue.** Two publishers that share a file let an expectation
go stale; a batch of two files can be halved to files that are retried; a
group of three files holds both batches. In `background` three publishers of
two workspaces meet in groups of two, which leaves the third to the next leader.
There the second workspace starts with nothing published; `group_shared` starts from
every database.
`MaxFaults` (guards of `WriterFail`, `CommitFail` and `Unwind`) and `MaxOthers`
(guard `Other`) are 1: one fault and one disturbance can hit any point of two
complete publications, and a second fault would only make `Resilient` vacuous.
Deadlock is not checked: publishers end, and then nothing need happen.

**The other bounds.** Every counter that the code does not bound is bounded by a
constant whose name begins with `Max`, in the guard of the action that
increments it; deadlock is not checked in these runs, because they stop there,
except in `store`.

* *Branches.* Two commits that differ in a source, an optional asset and a file
  that only an extension asks for, one blob of them large and an LFS pointer;
  two moves of the remote branch (away and back), one fault, one lost LFS object,
  two generations. Three callers and three destinations for one permit, so
  that somebody always waits.
* *Registry.* One selector, two queries, two objects, two refreshes: enough for
  an eviction that meets a query of the object it is about to retire, and for a
  second object on the same directory. With two selectors the state space is
  beyond a run; they share only the lock, and the theorem covers any number.
* *Requests.* Two sessions, two files and two contents, three writes, two seals
  and two faults for the package view; three versions of two sources and a
  project file; two queries and three versions of a branch, or of a local
  directory; three jobs of a source group over two versions; two asset jobs over
  two revisions, of a local directory or a branch: the code changes and the branch
  is refreshed to another revision once, or the code stays and the branch is
  refreshed twice, so that it can return (`MaxChanges`).
* *Store.* One namespace with two files and two objects at two times, or two
  namespaces that share a file and its object, of two workspaces or of one that
  is opened anew; a reader in both. Deadlock is checked.
* *Storage.* Three commits, two compactions, four files and two deaths; two
  importers or two hydrators with two contents; two workspaces that share a
  view, or two views each with a pass that must not undo what is newer.
* *Background.* Four journals, with one active operation and two messages in the
  channel: with a crash and a failed write (three operations of one day, so that
  one makes room for another), with two crashes and a failed write (two
  operations of one day), with two exports of days that are packed (two
  operations, two days), and with days rolled up (two operations, three days, a
  crash, a failed write that may not be undone); two
  directories and two readers with a kernel queue of two; an interval of 8, a
  retry of 1 and work of up to 2 units of time; three tasks for one worker and a
  capacity below what two of them want; three branches and four renames.
* *Histories.* All graphs of five commits with two parents in any order, one
  commit missing; of six commits with none missing; of four commits with up to
  three parents and two requests; pages of up to three rows over five commits
  with two missing; texts of up to five lines of three values, where a text of
  six lines is already past `MaxExact`.

Symmetry is used for interchangeable model values in the safety runs and never
in a run with a liveness property.

**Fairness.** `GitPool!FairSpec` asks for weak fairness of `HolderStep`: whoever
holds the mutex goes on. The code justifies it: a job is killed after 300 s, a
Git command after 120 s, and file operations return. Nothing is assumed of
readers, publishers, or of anybody getting the mutex. `GroupCommit!FairSpec`
asks for weak fairness of the leader and of each publisher's own steps: they
are threads inside a function, the writer is handed out in the order of its
tickets, and those who hold it do a bounded batch.

`MCProgress!FairSpec` asks, while a component runs, for weak fairness of

* the steps of a caller of `acquire` and the announcement of a shutdown: they
  run on threads, and a preparation ends because its transfers have timeouts;
* the steps of a refresh and of an indexing reader, of a query of the registry
  (waiting, and releasing its branch), of a refresh in the registry and of the
  end of an eviction: each is a task that does bounded work;
* `Maintain`, `Recover` and `RecoverSyncs` of the compaction: the maintenance
  worker calls the one, every start the others;
* importers, hydrators and the collector of blobs: jobs are bounded by 300 s,
  and the maintenance loop collects;
* `Admit`, `GiveUp` and `Work` in the memory budget: a waiter looks again at
  least every 50 ms, and admitted work ends. In the part "polls" only `GiveUp`
  is fair: a cancelled request leaves the queue although nothing else moves;
* the end of a refresh and of a preparation, and the steps of index jobs.

Strong fairness is asked where a lock is taken in turn: of a refresh of an
unusable branch (requests keep coming and schedule it), and of the steps of
preparations, queries and asset jobs that wait for a mutex, an analysis lock or
a permit, because the mutex, lock and semaphore of the runtime are fair queues.

## 11. Proofs

All theorems hold for any values of the constants, finite or infinite where
not said otherwise. Their assumptions are the modules' named `ASSUME`s: that
the names of "nothing" name nothing, that classes of actors are disjoint, and
that constants which are functions or numbers are. TLC evaluates them in the
runs.

**`GitPoolProofs`**: `Invariant` (`Spec => []IInv`, inductive), `TypeCorrect`,
`CoverageTrue`, `LeaseSafe`, `SnapshotSafe` (the invariants the run checks) and
`RootedKept` (`Spec => KeepRooted`). No property is assumed of ids except that
the code picks fresh ones (`FreshGid`).
`HistoryCovered` alone is not inductive: a replacement must know that coverage
was captured (`CarryInv`), packed (`RebuildInv`), that a stale claim cannot name
the new store (`GidInv`), and that the backup a failed swap restores still
satisfies the claims about it (`BackupInv`). `KeepRooted` needs the captured
roots to cover pins and selectors although both move while they are read
(`CaptureInv`), which for a maintenance pass rests on the generation
(`SnapshotInv`, `SnapshotCovers`). `OwnerInv` and `DiskInv` say who can be at
which phase and which stores exist then. The crucial step of `CaptureInv` is the
order of `selector_roots`: pins first, then selectors. A selector is published
only out of a live pin, so a root that appears behind the capture was a pin in
front of it.

**`GroupCommitProofs`**: `Invariant`, `BindingsLive` and `Implements`
(`Spec => Atomic`: every step is one of `AtomicPublish` or one it does not see).
That a commit is atomic needs `Faithful`: at every moment of a transaction it
is the durable state, changed in exactly the files put for the requests applied
since it began. That holds because a failed request takes the whole transaction
with it. That a request is committed once, and that its answer is its own, needs
`Placed`: it is queued, in the one group, or answered. `Staged` ties both to the
leader: a group is worked on only while something in it is undecided, and only
undecided requests are applied. `BoundLive` rests on the same transaction: what
it binds is in it, because it was found there, is carried along, or came with a
neighbour.

Its last part has `Answers` (`AnswersTrue`) and `Resists` (`Resilient`).
`Pieces` says that the files of a batch are those already answered, those of its
request and those of the pieces still on the recursion stack, each in one
place; so bisection loses none and answers none twice. `Value` says that a file
of one publisher is bound to its object if its request succeeded, and to what it
expected otherwise. For `Resilient` a failed attempt is charged to what caused
it: a fault, a rival, or a changed source. The retry re-reads the binding, so a
rival is charged once. Counting sharers alone is not enough, and TLC shows why
with four publishers `p{f}`, `q{f,g}`, `r{g}`, `s{g}`: `q`'s binding of `f` makes
`p` fail, `q`'s transaction is aborted because of `r` on `g`, and when `q` is
replayed it disturbs `p` again. So `Rivals` also contains those who share a file
with a sharer. The theorem assumes that the publishers are finitely many.

**`BranchRefreshProofs`**: `PermitsCounted` (`GatePermitsKept`) from `GateInvariant`,
and `RefreshCorrect` (`Spec => RefreshTrue`) from
`Invariant`. `Chosen` says why a tracked file of a selector is selected,
deferred or omitted, so that acquiring the assets of a selection leaves the
inputs of an index alone; `Carries` what a job has done so far: what it has not
to place is on disk already, and what it placed is there; `Prepared` ties what a
preparation planned and indexed to the generation of the branch. Everything is
claimed until an extension runs over a repair marker (`trusted`): from then on
the finding of section 12 applies.

**`BranchRegistryProofs`**: `RegistryCorrect` (`Spec => []RegistryTrue`) from
`Invariant`. A held object counts two handles, the registry's and the holder's,
so an eviction or expiry that sees one handle meets nobody (`Alone`, `HeldOK`). `RegisteredOK`
says that a registered object was opened on the directory that is there,
`IdleOK` that what maintenance found idle is registered until its own expiry,
`QueryOK` that a query waits for a refresh that runs or ended since it asked.

**`StorageProofs`**: `NoCommitLost`, `HandlesTrue`, `NoRollback` from
`CompactionInvariant`. For every directory the disk may come back with, what
recovery would choose in it is a whole, synced file with all commits. A commit
goes to one file, so while the database is open all these directories name that
file and where one has a second name, left by a `recover()` that failed, the first is
valid and recovery keeps it (`NoRollback`). They differ only during a
publication, when nothing is open and the copy is as good as the file it replaces.
`BlobsCorrect` (`BlobsTrue`) from `BlobInvariant`: `KindTrue` says what a worker
knows of its file step by step, `LeaseTrue` that it has a lease while it does,
`OthersTrue` that a file which another owner may write is not marked as verified.
What a step leaves to the others is stated once (`Guarantee`), so a step is proved
for its worker only. `LeasesCorrect` (`LeasesTrue`) from `LeaseInvariant`: a pass that
knows every dependency has seen the manifest of each workspace that is not in
memory (`Known`), and one that loaded an older catalog will see another revision
before it writes (`FreshTrue`).

**`BackgroundProofs`** has five components.

* *Default branch.* `FallbackStays` and `CopyStays`, with no hypothesis on the order
  of lookups, indexing, refreshes and evictions: what a lookup decided to keep is
  what it records and has its copy until then (`ReadyDecided`, `FallbackDecided`),
  and until a record has `missed` it, what has served is the default or the
  previous branch on record (`OneServed`, `ServedDecided`).
* *Memory.* `MemoryCorrect` (`MemoryTrue`): `Reserves` is what a task has reserved at
  each of its places, and the sums over all tasks change by what the moving task
  changes (`TotalChanges`, for any finite set).
* *Maintenance.* `LoopCorrect` (`LoopTrue`): for each place of an iteration, bounds on
  the time since the last collection (`CollectionBound`) and the last refresh
  (`BranchesBound`), and that what was found due is handled before it is looked at
  again (`DueHandled`). The proof needs six operations of `MaxWork` in `BranchesDue`:
  one iteration may end just before the refresh is due, one retries the compaction
  while it becomes due, and one has to sweep and retry before it refreshes. With
  the durations of the run five are enough.
* *Watches.* `WatchCorrect` (`WatchTrue`): what a reader has read since its fence is
  still so, or the change is recorded under a later generation, or an event of it,
  or of the loss of one, or of the end of its watch is still in the kernel's queue
  (`Covered`, `Noticed`, `Kept`). `Drain` reads the queue event by event, a recursive
  function `Read`; that nothing is forgotten on the way is an induction over the
  events read (`ToldSoFar`).
* *Journal.* `JournalCorrect` (`JournalTrue`) from `LogInvariant`, for any circumstances.
  A torn frame is the last of its day, and the first append of a process cuts it
  off (`TornLast`); this is why a failed truncation strands what follows. What left
  the snapshot in memory is in its day, about to be appended, or owned up to by gaps
  that have grown since the journal was opened (`LeftKnown`): an operation is made
  unknown only by gaps, the recorder's or the writer's own. So a snapshot, written
  last, forgets nothing. An operation
  ends once: in the channel, in what is to be appended, or in its day (`EndsOnce`),
  and what ended never runs again (`Traced`). A repacking has the operations of the
  frames it has read, and frames are only added behind them (`Repacked`). For the
  exporter, generations only grow, so a position of the same generation is one of
  the same file (`Generations`), and what an export owes is in a day it has read or
  has still to read (`Owed`), because the snapshot is read before the days.

**`RequestsProofs`** has five components.

* *Package view.* `TypeCorrect`, `Recovers`, `OnlyBuilds`, `Publishes` from `Invariant`.
  The writes above are cleared only where the journal names the generation below,
  and then each of them is in that directory already; hence a seal may be cut
  anywhere.
* *Queries.* `FlowCorrect` (`FlowTrue`): `BranchLocks` says who holds which lock, so a
  publication meets neither a preparation nor an evaluation; `Preparation` says what
  a job has found, planned, indexed and sent in terms of versions that were there
  after a generation (`HoldsAt`).
* *Workspaces.* `WorkspaceCorrect` (`WorkspaceTrue`): every stamp is current or was
  reported since the fence, for what is bound, validated, planned and indexed.
* *Source jobs.* `SourcesCorrect` (`SourcesTrue`): a job that writes holds the mutex it
  was given (`Owning`), one that is not cancelled is the registered one, and what it
  was to index is bound or known to be missing (`Accounted`).
* *Asset jobs.* `AssetsCorrect` (`AssetsTrue`): what was built without a lock is of the
  job's revision as long as the branch is at it and has not left it and come back,
  for any sequence of revisions. A job whose branch has `returned` may publish an
  index of the revision between; the property does not speak of it (section 12).

**`AnalysisStoreProofs`**: `StoreCorrect` (`Spec => []StoreTrue`) from
`Invariant`. A count agrees with the bindings only if each transaction changes
both alike, and the same three changes make up an installation, a prune and the
deletion of a namespace: releasing bindings of one object, binding one, and
moving one. `Counted` and `Indexed` say of each what it does to the counts and
to the tables, and every transaction is a sequence of them. A clean namespace
binds its manifest although a refresh takes several transactions, because who
installs has made it dirty first (`HandleOK`). `SpacesOK` says that a namespace
belongs to one workspace or is retired, so what deletes a retired one meets no
writer; `PinsOK` that there is a pin for every reader that holds an object, so
the collector passes it by; `OrdinalsOK` that a new number was never given, and
`TimesOK` that an object has a time in the index exactly if it has no bindings.
Files and readers are assumed to be finitely many, as they are counted.

**Induction.** The induction theorems of the library take an operator as a
parameter, which no installed prover instantiates. In its first-order form, that a
nonempty set of numbers has a least element, induction can be used: sums over
finite sets, the doubling of a back-off and the events a monitor reads are proved
about in this way.

**Only model-checked.** Liveness (`OperationEnds`, `AllAnswered`, `CallersReturn`,
`JobsEnd`, `LeftoversRemoved`) is outside what the prover handles. `HistoryWalk`,
`HistoryLog` and `LineEdits` are recursion over graphs and sequences, with RECURSIVE
operators. `GroupsTrue` is an instance of `Resists` and `Answers`, which
`GroupCommitProofs` proves of the module itself.

## 12. Where the code disagrees

Two runs end in a violation.

* `blobs_left`: when two jobs download one LFS object, the second renames one
  link of the blob onto another. `rename` does nothing between two links of one
  inode, the temporary name stays, and the collector, which looks for two links
  and 64 digits, never removes it (`repository/lfs.rs:429`), although "canonical
  links with no retained views are disposable" (`cache/blobs.rs:485`).
* `refresh_require`: `extend_inputs` looks at the repair marker only for assets. A
  branch that went to another commit and back, and whose last publication
  failed half way, has files of the other commit on disk; `require_inputs` then
  trusts them and clears the marker (`repository/manager.rs:1519`), although it is
  to acquire inputs "from the applied commit" (`:1450`).

Further properties that one might expect, most of them stated in a module, are
not what the code does. No run checks them, or one checks them with the
circumstance named here excluded.

| property | when it fails |
|---|---|
| `BranchRefresh!MarkerMeansIndexed` | a refresh carries the marker into the next selector, and an extension keeps it, whatever was indexed since (`manager.rs:1826`; "only mark the generation we actually indexed", `service/preparation.rs:495`) |
| `DefaultBranch!CopyKept`, without `missed` | a default that was just refreshed counts as not ready when it is renamed, or becomes ready only between the lookup (`manager.rs:1098`) and its record (`manager.rs:1106`), so an older branch, which may be evicted already, is recorded as the one to keep (`manager.rs:862`) |
| `Journal!NoneStranded`, with a failing truncation | the result of `set_len` after a failed append is ignored, and the next frame follows a torn one (`telemetry/journal.rs:530`) |
| `QueryFlow!OneRevision` | a branch refreshed between the preparation a query waited for and the locks it takes is reported with the index of the revision before (`service.rs:1120`) |
| `ViewLeases!OwnersFresh`, with faults | a preparation that failed between manifest and catalog lets the collector undo a newer observation (`service_cache.rs:876`) |
| `WorkspaceRefresh!ProjectFresh` | a project file edited after discovery read it and before planning stamps it is served from its old contents until it is edited again (`workspace.rs:441`) |
| `AssetJobs!BranchIndexTrue`, without `returned` | a branch that leaves a revision and returns to it during a build, as after a forced push that is undone, lets an index of the other one be published (`unity/assets/jobs.rs:382`) |
| `Journal!NeverForgotten`, with `snap.gaps` for `opened` | a failed append makes the active operations unknown; a later one takes the room of one of them, and the next snapshot leaves it out with no frame and no further gap (`telemetry/journal.rs:578`, `:417`) |
| no rollback name beside an open database | `recover()` after a failed publication may fail too (`service_cache.rs:751`): `data.mdb.previous` stays, and each attempt to compact is refused until the next start (`cache/compaction.rs:203`) |

## 13. Not modelled

Pure functions of data too large for a finite instance: the language front ends
(`extract/`, `csharp/`, `native/` parsing), search and navigation, Unity project
graphs, history matching, the encoding of records (`store/format.rs`), the choice
and order of eviction candidates (`cache/policy.rs`). Input and output with no
shared state of their own: Git transport and credentials, archives, child
processes, the MCP protocol. The permits of `repository/admission.rs` are
semaphores of the runtime. Each component's note in `PROJECT.json` says what it
leaves out; in particular:

* `Journal`: a day that is packed while a late event moves its generation on can
  get one generation twice; `CursorTrue` and `WholeExport` are stated and proved
  without crashes and rolling up.
* `AnalysisStore`, `Compaction`: the database runs with `NO_META_SYNC`, so a power
  failure may cost its last commit; this is left out, and a commit is durable.
* `Compaction`: the branch of recovery that restores a backup is taken only
  where a copy was not synced. A validation that fails for another reason than the
  file, as when memory runs out, would take it too, and where a rollback name was
  left behind restore an older file; this is left out, like a sync of a directory
  that fails.
