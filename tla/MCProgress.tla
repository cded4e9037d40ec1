------------------------------ MODULE MCProgress ------------------------------
(***************************************************************************)
(* Small instances of the components in which somebody waits, under the    *)
(* fairness of their specifications.  They share no state: one of them     *)
(* runs in a behaviour, `part`, and the others stay in an initial state.   *)
(***************************************************************************)
EXTENDS BranchRegistry

CONSTANTS
  q1, q2, preparer, refresher

VARIABLES
  part,   \* the component that runs
  \* AcquisitionGate
  at, call, holder, poisoned, failure, active, mutex, asleep, stopped,
  stopping, calls,
  \* BranchRefresh
  upstream, refreshSaved, state, disk, generation, job, prep, index, moves, faults,
  losses, gone, trusted,
  \* Compaction
  compactionDir, compactionDisk, file, committed, up, user, cached, open, pc,
  candidate, copies, deaths,
  \* BlobStore
  names, inode, blobsPc, path, id, runs, leases, batch, locked,
  \* MemoryBudget
  available, workers, waiting, memoryAt, want, held, working, cancelled,
  \* QueryFlow
  branched, flowDisk, gen, repair, code, progress, flowAt, plan, required, lock,
  analysis, writer, permits, sees, since, answer, asked,
  \* SourceJobs
  sourcesDisk, sourcesCode, count, sourcesJob, sourcesAt, canceled, running,
  sourcesWriter, sourcesLock, batches, tasks, work, omitted, outcome, bound,
  sourcesSaved, ticket, sourcesStopped,
  \* AssetJobs
  remote, files, assetsCode, assetsBranch, assetsLock, reading, writing, assetsCount,
  assetsWant, assetsAt, assetsCanceled, assetsRunning, worker, content,
  returned, changes, assetsSince, assetsOutcome, snapshot, assetsTicket

\* Both commits track the same code, one file of which is an LFS pointer.
Commits == [c1 |-> [code |-> "b1", asset |-> "b1", extra |-> "b2"],
            c2 |-> [code |-> "b1", asset |-> "b2", extra |-> "b2"]]

Listed(v) == IF v = "v1" THEN {} ELSE {"f"}

TwoAndOne == [b \in {"parsing", "sources"} |-> IF b = "parsing" THEN 2 ELSE 1]

\* Callers and destinations are interchangeable: whoever asks for one of its own
\* asks for the next.
Destinations == <<{"i1"}, {"i1", "i2"}, {"i1", "i2", "i3"}>>

Gate == INSTANCE AcquisitionGate WITH
  Callers <- {1, 2, 3}, Identities <- {"i1", "i2", "i3"}, Versions <- {"x1"},
  Nobody <- None, Wants <- Destinations, Permits <- 1, MaxCalls <- 3
Refreshing == INSTANCE BranchRefresh WITH
  Files <- {"code", "asset", "extra"}, Blobs <- {"b1", "b2"}, Revisions <-
  {"c1", "c2"}, Tree <- Commits, Optional <- {"asset"}, Extra <- {"extra"},
  Large <- {"b2"}, Pointers <- {"b1"}, MaxMoves <- 2, MaxFaults <- 1, MaxLost
  <- 0, MaxGenerations <- 1, saved <- refreshSaved
Compacting == INSTANCE Compaction WITH
  Users <- {"u1"}, Inodes <- {1, 2, 3, 4}, FaultsAllowed <- TRUE, MaxCommits
  <- 1, MaxCopies <- 2, MaxDeaths <- 1, dir <- compactionDir, disk <-
  compactionDisk
Blobs == INSTANCE BlobStore WITH
  Importers <- {"i1"}, Hydrators <- {"h1"}, Contents <- {"x1"}, Inodes <- 1 ..
  8, KillsAllowed <- FALSE, MaxRuns <- 1, pc <- blobsPc
Memory == INSTANCE MemoryBudget WITH
  Tasks <- {1, 2}, Capacity <- TwoAndOne, Workers <- 1, MaxBytes <- 3, Kinds
  <- {"batch", "view"}, at <- memoryAt
Polled == INSTANCE MemoryBudget WITH
  Tasks <- {1, 2}, Capacity <- TwoAndOne, Workers <- 1, MaxBytes <- 3, Kinds
  <- {"batch", "view"}, at <- memoryAt
Flow == INSTANCE QueryFlow WITH
  Queries <- {q1}, Nobody <- None, Preparer <- preparer, Refresher <-
  refresher, Workers <- 1, MaxVersion <- 1, MaxQueries <- 2, disk <- flowDisk,
  at <- flowAt
Sources == INSTANCE SourceJobs WITH
  Groups <- {"g1"}, Queries <- {q1}, Versions <- {"v1", "v2"}, Files <- {"f"},
  Listed <- Listed, Nobody <- None, Workers <- 1, Tasks <- 1, MaxJobs <- 2,
  disk <- sourcesDisk, code <- sourcesCode, job <- sourcesJob, at <-
  sourcesAt, writer <- sourcesWriter, lock <- sourcesLock, saved <-
  sourcesSaved, stopped <- sourcesStopped
Assets == INSTANCE AssetJobs WITH
  Queries <- {q1}, Codes <- {"c1"}, Revisions <- {1, 2},
  Nobody <- None, Refresher <- refresher, Preparer <-
  preparer, MaxJobs <- 2, MaxChanges <- 1, code <- assetsCode, branch <- assetsBranch, lock <-
  assetsLock, count <- assetsCount, want <- assetsWant, at <- assetsAt,
  canceled <- assetsCanceled, running <- assetsRunning, since <- assetsSince,
  outcome <- assetsOutcome, ticket <- assetsTicket

gateVars == <<at, call, holder, poisoned, failure, active, mutex, asleep,
  stopped, stopping, calls>>
refreshingVars == <<upstream, refreshSaved, state, disk, generation, job, prep,
  index, moves, faults, losses, gone, trusted>>
compactingVars == <<compactionDir, compactionDisk, file, committed, up, user,
  cached, open, pc, candidate, copies, deaths>>
blobsVars == <<names, inode, blobsPc, path, id, runs, leases, batch, locked>>
memoryVars == <<available, workers, waiting, memoryAt, want, held, working,
  cancelled>>
flowVars == <<branched, flowDisk, gen, repair, code, progress, flowAt, plan, required,
  lock, analysis, writer, permits, sees, since, answer, asked>>
sourcesVars == <<sourcesDisk, sourcesCode, count, sourcesJob, sourcesAt,
  canceled, running, sourcesWriter, sourcesLock, batches, tasks, work, omitted,
  outcome, bound, sourcesSaved, ticket, sourcesStopped>>
assetsVars == <<remote, files, assetsCode, assetsBranch, assetsLock, reading, writing,
  assetsCount, assetsWant, assetsAt, assetsCanceled, assetsRunning, worker,
  content, returned, changes, assetsSince, assetsOutcome, snapshot, assetsTicket>>

parts == <<part, gateVars, refreshingVars, vars, compactingVars, blobsVars, memoryVars, flowVars, sourcesVars, assetsVars>>

\* The other components stay in an initial state.
PartsInit ==
  /\ part \in {"gate", "refresh", "registry", "compaction", "blobs", "memory", "polls", "flow", "sources", "assets"}
  /\ Gate!Init
  /\ Refreshing!Init
  /\ part # "refresh" => upstream = "c1"
  /\ Init
  /\ Compacting!Init
  /\ Blobs!Init
  /\ part # "blobs" => names[Blobs!Lfs("x1")] = None
  /\ IF part = "polls" THEN Polled!Init ELSE Memory!Init
  /\ Flow!Init /\ branched
  /\ Sources!Init
  /\ part # "sources" => sourcesDisk = "v1"
  /\ Assets!Init /\ remote
  /\ part # "assets" => files = 1

PartsNext ==
  /\ UNCHANGED part
  /\ \/ part = "gate" /\ Gate!Next
        /\ UNCHANGED <<refreshingVars, vars, compactingVars, blobsVars,
          memoryVars, flowVars, sourcesVars, assetsVars>>
     \/ part = "refresh" /\ Refreshing!Next
        /\ UNCHANGED <<gateVars, vars, compactingVars, blobsVars,
          memoryVars, flowVars, sourcesVars, assetsVars>>
     \/ part = "registry" /\ Next
        /\ UNCHANGED <<gateVars, refreshingVars, compactingVars, blobsVars,
          memoryVars, flowVars, sourcesVars, assetsVars>>
     \/ part = "compaction" /\ Compacting!Next
        /\ UNCHANGED <<gateVars, refreshingVars, vars, blobsVars,
          memoryVars, flowVars, sourcesVars, assetsVars>>
     \/ part = "blobs" /\ Blobs!Next
        /\ UNCHANGED <<gateVars, refreshingVars, vars, compactingVars,
          memoryVars, flowVars, sourcesVars, assetsVars>>
     \/ part = "memory" /\ Memory!Next
        /\ UNCHANGED <<gateVars, refreshingVars, vars, compactingVars,
          blobsVars, flowVars, sourcesVars, assetsVars>>
     \/ part = "polls" /\ Polled!Next
        /\ UNCHANGED <<gateVars, refreshingVars, vars, compactingVars,
          blobsVars, flowVars, sourcesVars, assetsVars>>
     \/ part = "flow" /\ Flow!Next
        /\ UNCHANGED <<gateVars, refreshingVars, vars, compactingVars,
          blobsVars, memoryVars, sourcesVars, assetsVars>>
     \/ part = "sources" /\ Sources!Next
        /\ UNCHANGED <<gateVars, refreshingVars, vars, compactingVars,
          blobsVars, memoryVars, flowVars, assetsVars>>
     \/ part = "assets" /\ Assets!Next
        /\ UNCHANGED <<gateVars, refreshingVars, vars, compactingVars,
          blobsVars, memoryVars, flowVars, sourcesVars>>

PartsSpec == PartsInit /\ [][PartsNext]_parts

\* The fairness of each specification, while its component runs
Fairness ==
  /\ WF_gateVars(part = "gate" /\ Gate!Announce)
  /\ \A t \in {1, 2, 3} : WF_gateVars(part = "gate" /\ Gate!CallerStep(t))
  /\ WF_refreshingVars(part = "refresh"
       /\ \/ Refreshing!Fetch \/ Refreshing!PublishUnchanged \/ Refreshing!PublishChanged
          \/ Refreshing!Remove \/ Refreshing!Place \/ Refreshing!Finish)
  /\ WF_refreshingVars(part = "refresh" /\ Refreshing!EndIndex)
  /\ \A q \in {q1, q2} :
       /\ WF_vars(part = "registry" /\ (Check(q) \/ Wake(q)))
       /\ WF_vars(part = "registry" /\ Release(q))
  /\ \A n \in {1, 2} : WF_vars(part = "registry" /\ Refresh(n))
  /\ WF_vars(part = "registry" /\ FinishEvict)
  /\ WF_compactingVars(part = "compaction" /\ Compacting!Maintain)
  /\ WF_compactingVars(part = "compaction" /\ Compacting!Recover)
  /\ WF_compactingVars(part = "compaction" /\ Compacting!RecoverSyncs)
  /\ WF_blobsVars(part = "blobs" /\ Blobs!Importer("i1"))
  /\ WF_blobsVars(part = "blobs" /\ Blobs!Hydrator("h1"))
  /\ WF_blobsVars(part = "blobs" /\ Blobs!Collect)
  /\ \A t \in {1, 2} :
       /\ WF_memoryVars(part = "memory" /\ Memory!Admit(t))
       /\ WF_memoryVars(part \in {"memory", "polls"} /\ Memory!GiveUp(t))
       /\ WF_memoryVars(part = "memory" /\ Memory!Work(t))
  /\ WF_flowVars(part = "flow" /\ Flow!RefreshEnd)
  /\ \A j \in {1, 2} : WF_sourcesVars(part = "sources" /\ Sources!JobStep(j))
  /\ WF_assetsVars(part = "assets" /\ Assets!RefreshEnd)
  /\ WF_assetsVars(part = "assets" /\ Assets!PrepareEnd)

\* Strong fairness of one action of each component; `part' does not change, so
\* that of a disjunction is that of the component that runs.
StrongVars == <<refreshingVars, flowVars, assetsVars>>
Strongly(refreshing, flow, assets) ==
  \/ part = "refresh" /\ refreshing /\ UNCHANGED <<flowVars, assetsVars>>
  \/ part = "flow" /\ flow /\ UNCHANGED <<refreshingVars, assetsVars>>
  \/ part = "assets" /\ assets /\ UNCHANGED <<refreshingVars, flowVars>>

StrongFairness ==
  /\ SF_StrongVars(Strongly(Refreshing!BeginRefresh /\ Refreshing!Unusable,
                           Flow!PreparerStep, Assets!PrepareState))
  /\ SF_StrongVars(Strongly(FALSE, Flow!Discover \/ Flow!Index \/ Flow!PrepareFails, Assets!JobStep(1)))
  /\ SF_StrongVars(Strongly(FALSE, Flow!QueryStep(q1), Assets!JobStep(2)))

FairSpec == PartsSpec /\ Fairness /\ StrongFairness

-----------------------------------------------------------------------------
\* Who waits: a caller of acquire() for its turn, a task for memory (among the
\* polls, one whose request went away), a query for the inputs of its answer,
\* a query for the next refresh of a branch, or a preparation for the files it
\* asked a branch for.  Callers, tasks and queries are interchangeable, and one
\* of them stands for all.
CallerWaits ==
  \/ part = "gate" /\ at[1] # "idle"
  \/ part = "memory" /\ memoryAt[1] \in Memory!Asking
  \/ part = "polls" /\ memoryAt[1] \in Memory!Asking /\ 1 \in cancelled
  \/ part = "flow" /\ flowAt[q1] # "idle"
  \/ part = "registry" /\ query[q1] # None /\ query[q1].at = "waiting"
  \/ part = "refresh" /\ prep.step = "waiting"

\* Nobody waits for ever.
CallersReturn == CallerWaits ~> ~CallerWaits

JobRuns(j) ==
  \/ part = "sources" /\ sourcesAt[j] # "idle" /\ outcome[j] = "none"
  \/ part = "assets" /\ j \in Assets!Unfinished /\ assetsOutcome[j] = "none"

\* Every index job that was started has an outcome in the end, the superseded
\* ones too, through locks and permits that jobs and refreshes take.
JobsEnd == \A j \in {1, 2} : JobRuns(j) ~> ~JobRuns(j)

\* What a step that failed leaves behind: a selector that needs repair, files
\* that a publication retired, and blobs and LFS objects nobody uses.
Leftovers ==
  \/ part = "refresh" /\ state # None /\ state.repair
  \/ part = "compaction" /\ ~Compacting!Disposed
  \/ part = "blobs" /\ Blobs!Unneeded

LeftoversRemoved == Leftovers ~> ~Leftovers
=============================================================================
