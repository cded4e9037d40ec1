--------------------------- MODULE WorkspaceRefresh ---------------------------
(***************************************************************************)
(* src/src/workspace.rs, refreshed as service/preparation.rs does it: from *)
(* the watches and stamps that decide whether the manifest still holds, to *)
(* discovery, planning, indexing and the new manifest.                     *)
(*                                                                         *)
(* A project file names the sources of the workspace.  Files are edited at *)
(* any time.  A file has a version in place of its stamp and contents, and *)
(* its directory is its own; what a fence has to report is the set of the  *)
(* files that changed since, of those that are watched (WatchFence has the *)
(* monitor, AnalysisStore the database, QueryFlow who waits for whom).     *)
(* Left out: policies, leases, skipped files and the modules of Rust.      *)
(***************************************************************************)
EXTENDS Naturals, FiniteSets

CONSTANTS
  Sources,
  Project,      \* the project file
  Lists,        \* version of the project file -> the sources it names
  None,
  MaxEdits      \* of each file

AllFiles == Sources \union {Project}
Versions == 0 .. MaxEdits

VARIABLES
  disk,    \* file -> version
  store,   \* phase, manifest and bindings in the database
  ws,      \* None, or the workspace: manifest, directories, since, initialized
  job      \* None, or a preparation: at, asked, since and what it found

vars == <<disk, store, ws, job>>

Empty == [project |-> None, stamps |-> [f \in AllFiles |-> None]]
Named(m) == IF m.project = None THEN {} ELSE Lists[m.project] \union {Project}

Init ==
  /\ disk = [f \in AllFiles |-> 0]
  /\ store = [phase |-> "dirty", manifest |-> Empty, bound |-> [s \in Sources |-> None]]
  /\ ws = None /\ job = None

At(here) == job # None /\ job.at = here

\* An edit is reported to every fence, if the file is watched.
Reported(f, x) == IF x = None THEN None ELSE [x EXCEPT !.since = @ \union {f}]

Edit(f) ==
  /\ disk[f] < MaxEdits
  /\ disk' = [disk EXCEPT ![f] = @ + 1]
  /\ IF ws # None /\ f \in ws.directories
       THEN ws' = Reported(f, ws) /\ job' = Reported(f, job)
       ELSE UNCHANGED <<ws, job>>
  /\ UNCHANGED store

\* Workspace::open()
Open ==
  /\ ws = None
  /\ ws' = [manifest |-> store.manifest, directories |-> {}, since |-> {}, initialized |-> FALSE]
  /\ UNCHANGED <<disk, store, job>>

-----------------------------------------------------------------------------
(* prepare_with_budget()                                                   *)

\* Of an opened workspace everything is validated; later on what the watches
\* report since the last fence.
Suspect == IF ws.initialized THEN ws.since \intersect ws.directories ELSE AllFiles

\* The fence is taken with the changes, before any stamp is read.
Begin(asked) ==
  /\ ws' = [ws EXCEPT !.directories = IF ws.initialized THEN @ ELSE @ \union Named(ws.manifest)]
  /\ job' = [asked |-> asked, since |-> {}, project |-> None, stamps |-> Empty.stamps,
             left |-> Suspect \intersect Named(ws.manifest), changed |-> {}, todo |-> {},
             at |-> IF ws.initialized /\ Suspect = {} /\ store.phase = "clean"
                      THEN "done" ELSE "validate"]
  /\ UNCHANGED <<disk, store>>

Ask == ws # None /\ job = None /\ Begin(disk)

Validate(f) ==
  /\ At("validate") /\ f \in job.left
  /\ job' = [job EXCEPT !.left = @ \ {f},
                        !.changed = IF disk[f] # ws.manifest.stamps[f] THEN @ \union {f} ELSE @]
  /\ UNCHANGED <<disk, store, ws>>

\* Mutant: the fence is taken when the stamps have been read.
LateFence == [ws EXCEPT !.since = {}, !.initialized = TRUE]
\* What changed after the fence of this preparation is left to the next.
Validated == [ws EXCEPT !.since = job.since, !.initialized = TRUE]

Current ==
  /\ At("validate") /\ job.left = {}
  /\ job.changed = {} /\ store.phase = "clean" /\ ws.manifest.project # None
  /\ ws' = Validated
  /\ job' = [job EXCEPT !.at = "done"]
  /\ UNCHANGED <<disk, store>>

MustDiscover == ws.manifest.project = None \/ Project \in job.changed

\* The project file is read; or the sources are those of the last manifest.
Discover ==
  /\ At("validate") /\ job.left = {}
  /\ MustDiscover \/ job.changed # {} \/ store.phase = "dirty"
  /\ job' = [job EXCEPT !.project = IF MustDiscover THEN disk[Project] ELSE ws.manifest.project,
                        !.at = "plan"]
  /\ UNCHANGED <<disk, store, ws>>

-----------------------------------------------------------------------------
(* plan() and apply_plan()                                                 *)

Planned == Lists[job.project] \union {Project}

\* Mutant: what is planned is watched once it is indexed.
Unwatched(f) == ws
Watched(f) == [ws EXCEPT !.directories = @ \union {f}]

\* The directory is watched, then the stamp read.
Plan(f) ==
  /\ At("plan") /\ f \in Planned /\ job.stamps[f] = None
  /\ ws' = Watched(f)
  /\ job' = [job EXCEPT !.stamps[f] = disk[f]]
  /\ UNCHANGED <<disk, store>>

\* The plan's watches cover its own directories, since the preparation began.
Moved == \E f \in job.since \intersect Planned : disk[f] # job.stamps[f]
Ready == At("plan") /\ \A f \in Planned : job.stamps[f] # None

\* A worker was waited for: what changed meanwhile is planned anew.
Replan == ws # None /\ Ready /\ Moved /\ Begin(job.asked)

\* Interrupted publications must probe the persisted bindings again.
Reuses == ws.initialized /\ store.phase = "clean"

Start ==
  /\ Ready /\ ~Moved
  /\ job' = [job EXCEPT !.at = "index",
       !.todo = {s \in Lists[job.project] : ~Reuses \/ ws.manifest.stamps[s] # job.stamps[s]}]
  /\ ws' = [ws EXCEPT !.initialized = FALSE]
  /\ store' = [store EXCEPT !.phase = "dirty"]
  /\ UNCHANGED disk

\* index_sources(): the contents are read between two equal stamps.
Index(s) ==
  /\ At("index") /\ s \in job.todo
  /\ store' = [store EXCEPT !.bound[s] = disk[s]]
  /\ job' = [job EXCEPT !.todo = @ \ {s}, !.left = @ \ {s}]
  /\ UNCHANGED <<disk, ws>>

Indexed == At("index") /\ job.todo = {}

\* The stamps are read again, one by one: "File changed during indexing".
Check ==
  /\ Indexed
  /\ job' = [job EXCEPT !.at = "check", !.left = Lists[job.project]]
  /\ UNCHANGED <<disk, store, ws>>

\* Mutant: a file that changed while it was indexed is accepted.
Accepted(s) == TRUE
Unmoved(s) == disk[s] = job.stamps[s]

CheckSource(s) ==
  /\ At("check") /\ s \in job.left /\ Unmoved(s)
  /\ job' = [job EXCEPT !.left = @ \ {s}]
  /\ UNCHANGED <<disk, store, ws>>

\* save_manifest(), and the watches that are not needed any more are given up.
Save ==
  /\ At("check") /\ job.left = {}
  /\ LET m == [project |-> job.project, stamps |-> job.stamps] IN
     /\ store' = [phase |-> "clean", manifest |-> m,
          bound |-> [s \in Sources |-> IF s \in Lists[job.project] THEN store.bound[s] ELSE None]]
     /\ ws' = [manifest |-> m, directories |-> Planned, initialized |-> TRUE,
               since |-> job.since \union (ws.directories \ Planned)]
  /\ job' = [job EXCEPT !.at = "done"]
  /\ UNCHANGED disk

\* An error ends a preparation; the watches it added stay.
Fail ==
  /\ job # None
  /\ job' = None
  /\ UNCHANGED <<disk, store, ws>>

Answer == At("done") /\ job' = None /\ UNCHANGED <<disk, store, ws>>

\* The workspace is dropped when it is idle, or with the process.
Close ==
  /\ ws # None
  /\ ws' = None /\ job' = None
  /\ UNCHANGED <<disk, store>>

Next ==
  \/ Open \/ Ask \/ Current \/ Discover \/ Replan \/ Start \/ Check \/ Save
  \/ Fail \/ Answer \/ Close
  \/ \E f \in AllFiles : Edit(f) \/ Validate(f) \/ Plan(f)
  \/ \E s \in Sources : Index(s) \/ CheckSource(s)

Spec == Init /\ [][Next]_vars

-----------------------------------------------------------------------------
(* Properties                                                              *)

Stamps == [AllFiles -> {None} \union Versions]
Manifests == [project : {None} \union Versions, stamps : Stamps]
Workspaces == [manifest : Manifests, directories : SUBSET AllFiles, since : SUBSET AllFiles,
               initialized : BOOLEAN]
Jobs == [asked : [AllFiles -> Versions], since : SUBSET AllFiles,
         project : {None} \union Versions, stamps : Stamps, left : SUBSET AllFiles,
         changed : SUBSET AllFiles, todo : SUBSET Sources,
         at : {"validate", "plan", "index", "check", "done"}]
Stores == [phase : {"clean", "dirty"}, manifest : Manifests,
           bound : [Sources -> {None} \union Versions]]

TypeOK ==
  /\ disk \in [AllFiles -> Versions] /\ store \in Stores
  /\ ws \in {None} \union Workspaces /\ job \in {None} \union Jobs

\* A question is answered from sources as they were when it was asked, or
\* later ones, whatever was edited while earlier preparations ran or failed.
SourcesFresh ==
  At("done") => \A s \in Lists[ws.manifest.project] :
    store.bound[s] # None /\ store.bound[s] >= job.asked[s]

\* The manifest that is served describes the contents that are bound: neither
\* an interrupted indexing nor an edit in the middle of one mixes two versions.
Agrees ==
  At("done") => \A s \in Lists[ws.manifest.project] : store.bound[s] = ws.manifest.stamps[s]

\* No preparation validates stamps that are older than the question.
StampsFresh ==
  At("done") => \A f \in Named(ws.manifest) : ws.manifest.stamps[f] >= job.asked[f]

\* What is indexed and served refreshes itself: the sources are those of the
\* project file as it was when the question was asked, or later.
ProjectFresh ==
  At("done") => ws.manifest.project >= job.asked[Project]
=============================================================================
