------------------------------- MODULE Requests -------------------------------
(***************************************************************************)
(* The components that answer one request: the package view its build      *)
(* writes to (PackageView), the query that waits for a preparation and     *)
(* evaluates what it indexed (QueryFlow), the preparation of a workspace   *)
(* (WorkspaceRefresh), and the jobs that index its sources (SourceJobs)    *)
(* and its assets (AssetJobs).  They share no state.                       *)
(***************************************************************************)
EXTENDS PackageView

CONSTANTS
  \* QueryFlow
  Queries, Nobody, Preparer, Refresher, Workers, MaxVersion, MaxQueries,
  \* WorkspaceRefresh
  ProjectSources, Project, Lists, MaxEdits,
  \* SourceJobs
  Groups, Askers, SourceVersions, SourceFiles, Listed(_), ExtractionWorkers, Tasks,
  MaxSourceJobs,
  \* AssetJobs
  AssetCodes, AssetRevisions, MaxAssetJobs, MaxChanges

VARIABLES
  \* QueryFlow
  branched, flowDisk, gen, repair, code, progress, at, plan, required,
  flowLock, analysis, writer, permits, sees, since, answer, asked,
  \* WorkspaceRefresh
  disk, store, ws, job,
  \* SourceJobs
  sourcesDisk, sourcesCode, count, sourcesJob, sourcesAt, canceled, running,
  sourcesWriter, sourcesLock, batches, tasks, work, omitted, outcome, bound,
  saved, ticket, stopped,
  \* AssetJobs
  remote, files, assetsCode, branch, assetsLock, reading, writing, assetsCount, want,
  assetsAt, assetsCanceled, assetsRunning, worker, content, returned, changes,
  assetsSince, assetsOutcome, snapshot, assetsTicket

Flow == INSTANCE QueryFlow WITH disk <- flowDisk, lock <- flowLock
Workspace == INSTANCE WorkspaceRefresh WITH Sources <- ProjectSources
Sources == INSTANCE SourceJobs WITH
  Queries <- Askers, Versions <- SourceVersions, Files <- SourceFiles, Workers <-
  ExtractionWorkers, MaxJobs <- MaxSourceJobs, disk <- sourcesDisk, code <-
  sourcesCode, job <- sourcesJob, at <- sourcesAt, writer <- sourcesWriter,
  lock <- sourcesLock
Assets == INSTANCE AssetJobs WITH
  Queries <- Askers, Codes <- AssetCodes, Revisions <- AssetRevisions, MaxJobs <-
  MaxAssetJobs, code <- assetsCode, lock <- assetsLock, count <- assetsCount, at <- assetsAt, canceled <- assetsCanceled, running <-
  assetsRunning, since <- assetsSince, outcome <- assetsOutcome, ticket <-
  assetsTicket

flowVars == <<branched, flowDisk, gen, repair, code, progress, at, plan,
  required, flowLock, analysis, writer, permits, sees, since, answer, asked>>
workspaceVars == <<disk, store, ws, job>>
sourcesVars == <<sourcesDisk, sourcesCode, count, sourcesJob, sourcesAt,
  canceled, running, sourcesWriter, sourcesLock, batches, tasks, work, omitted,
  outcome, bound, saved, ticket, stopped>>
assetsVars == <<remote, files, assetsCode, branch, assetsLock, reading, writing,
  assetsCount, want, assetsAt, assetsCanceled, assetsRunning, worker, content,
  returned, changes, assetsSince, assetsOutcome, snapshot, assetsTicket>>

\* Queries, the preparer and the refresher are different threads.
ASSUME ActorsAssumption ==
  /\ Preparer \notin Queries /\ Refresher \notin Queries /\ Preparer # Refresher
  /\ Nobody \notin Queries \union {Preparer, Refresher}

\* Each version of the project file names some of the sources.
ASSUME ListsAssumption ==
  /\ MaxEdits \in Nat /\ Project \notin ProjectSources
  /\ Lists \in [Workspace!Versions -> SUBSET ProjectSources]

\* None is no workspace and no preparation.
ASSUME NothingAssumption ==
  None \notin Workspace!Workspaces /\ None \notin Workspace!Jobs

\* Jobs are numbered, and each version of the code lists some of the files.
ASSUME SourceJobsAssumption ==
  /\ MaxSourceJobs \in Nat /\ Nobody \notin Nat /\ Groups # {}
  /\ \A v \in SourceVersions : Listed(v) \subseteq SourceFiles

\* Asset jobs are numbered; a branch may be at any revision at any time.
ASSUME AssetJobsAssumption == MaxAssetJobs \in Nat /\ MaxChanges \in Nat

-----------------------------------------------------------------------------
\* A query: a preparation that is ready has indexed what the branch has, and
\* what a query evaluates stands still and holds the edits made before it.
FlowTrue == Flow!ReadyTrue /\ Flow!StillWhileEvaluated /\ Flow!SeesOwnEdits

\* A workspace: what is served is never older than the question, and manifest
\* and bindings agree whatever was edited, failed or planned again.
WorkspaceTrue ==
  /\ Workspace!TypeOK
  /\ Workspace!SourcesFresh /\ Workspace!Agrees /\ Workspace!StampsFresh

\* Source jobs: one job of a group writes at a time, the saved manifest lists
\* what the store binds, and a superseded job publishes nothing, however jobs
\* supersede each other, are trimmed or forgotten.
SourcesTrue ==
  /\ [](Sources!OneWriter /\ Sources!SavedBound)
  /\ Sources!NeverOver

\* Asset jobs: an index describes the revision it was asked for, unless the
\* branch left it and returned while the job ran, or local files that were there
\* after it was asked for; and when it is published the code and the revision
\* are those it was asked for, and no later job has been started.
AssetsTrue ==
  /\ [](Assets!BranchIndexTrue /\ Assets!LocalIndexTrue)
  /\ Assets!PublishesCurrent
=============================================================================
