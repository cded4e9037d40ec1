----------------------------- MODULE ViewLeases -----------------------------
(***************************************************************************)
(* The managed views of a cache (unpacked packages, editors, metadata, job *)
(* directories), who keeps them, and the collection that retires the rest. *)
(*                                                                         *)
(*   src/src/cache/views.rs    the registry of leases and the retirement   *)
(*   src/src/cache/owners.rs   the catalog of dependencies, owners.json    *)
(*   src/src/workspace.rs      a workspace leases what its manifest names  *)
(*   src/src/service_cache.rs  seed_owners, collect_views, evict_candidate *)
(*                                                                         *)
(* A view is kept by a lease of a workspace in memory, then by the catalog *)
(* once the workspace's manifest was observed.  The collector first makes  *)
(* the catalog complete from the manifests in the analysis database, then  *)
(* retires what neither a lease nor the catalog names.  Leases and catalog *)
(* die with the process; the database and owners.json stay.                *)
(*                                                                         *)
(* Abstracted: a manifest is the set of views it names; a workspace has    *)
(* one database scope; retired storage is out of reach once it is renamed, *)
(* its disposal is left out, as are entries whose directory vanished.      *)
(***************************************************************************)
EXTENDS Integers, FiniteSets

CONSTANTS
  Workspaces,
  Views,
  None,           \* no manifest, no catalog entry
  MaxDiscoveries, \* preparations that discover anew
  MaxPasses,      \* passes of the collector
  MaxFaults       \* failed preparations and crashes

VARIABLES
  views,     \* the views at their place on disk
  db,        \* workspace -> the manifest in the analysis database, or None
  owners,    \* workspace -> the dependencies in the catalog, or None
  revision,  \* Catalog::revision
  dependencyRevision, \* Catalog::dependency_revision
  saved,     \* owners.json
  savedAt,   \* the revision it was published from
  stage,     \* the publication a flush staged, or None
  work,      \* workspace -> its object in memory and what it does
  leases,    \* workspace -> roots its LeaseSet retains
  pending,   \* workspace -> roots the discovery under way retains
  gc,        \* the collector
  fresh,     \* workspaces whose newest manifest was observed
  discoveries, passes, faults

vars == <<views, db, owners, revision, dependencyRevision, saved, savedAt,
          stage, work, leases, pending, gc, fresh, discoveries, passes, faults>>
catalog == <<owners, revision, dependencyRevision>>
file == <<saved, savedAt, stage>>
counts == <<discoveries, passes, faults>>

Manifests == {None} \union SUBSET Views
Closed == [step |-> "closed"]
Opened == [step |-> "open"]
Idle == [step |-> "idle"]

Init ==
  /\ views = {}
  /\ db = [w \in Workspaces |-> None]
  /\ owners = [w \in Workspaces |-> None]
  /\ revision = 0 /\ dependencyRevision = 0
  /\ saved = owners /\ savedAt = 0 /\ stage = None
  /\ work = [w \in Workspaces |-> Closed]
  /\ leases = [w \in Workspaces |-> {}]
  /\ pending = [w \in Workspaces |-> {}]
  /\ gc = Idle /\ fresh = {}
  /\ discoveries = 0 /\ passes = 0 /\ faults = 0

\* Registry::roots: the roots with a positive count.
Leased == UNION {leases[w] \union pending[w] : w \in Workspaces}

\* Catalog::retains
Retains(entries, v) == \E w \in Workspaces : entries[w] # None /\ v \in entries[w]

\* Catalog::observe
Observed(w, deps) ==
  /\ owners' = [owners EXCEPT ![w] = deps]
  /\ revision' = revision + 1
  /\ dependencyRevision' = dependencyRevision + IF owners[w] = deps THEN 0 ELSE 1

-----------------------------------------------------------------------------
(* A workspace, from Workspace::open to Catalog::observe.                  *)

\* Workspace::open reads the manifest and leases everything it names, before
\* anything of it is probed.
Open(w) ==
  /\ work[w] = Closed
  /\ work' = [work EXCEPT ![w] = Opened]
  /\ leases' = [leases EXCEPT ![w] = IF db[w] = None THEN {} ELSE db[w]]
  /\ UNCHANGED <<views, db, catalog, file, pending, gc, fresh, counts>>

\* Workspace::prepare finds everything the manifest names in its place.
Validate(w) ==
  /\ work[w] = Opened
  /\ db[w] # None
  /\ leases[w] = db[w]
  /\ db[w] \subseteq views
  /\ work' = [work EXCEPT ![w] = [step |-> "apply", need |-> db[w], seen |-> db[w]]]
  /\ pending' = [pending EXCEPT ![w] = leases[w]]
  /\ UNCHANGED <<views, db, catalog, file, leases, gc, fresh, counts>>

\* Otherwise, or when an input changed, it discovers its dependencies anew.
Discover(w) ==
  /\ work[w].step \in {"open", "ready"}
  /\ discoveries < MaxDiscoveries
  /\ \E need \in SUBSET Views \ {{}} :
       work' = [work EXCEPT ![w] = [step |-> "discover", need |-> need, seen |-> {}]]
  /\ pending' = [pending EXCEPT ![w] = {}]
  /\ discoveries' = discoveries + 1
  /\ UNCHANGED <<views, db, catalog, file, leases, gc, fresh, passes, faults>>

\* LeaseSet::retain
Retain(w) ==
  /\ work[w].step = "discover"
  /\ \E v \in work[w].need \ pending[w] :
       pending' = [pending EXCEPT ![w] = @ \union {v}]
  /\ UNCHANGED <<views, db, catalog, file, work, leases, gc, fresh, counts>>

\* Mutant: a view is found or made first and leased some time later.
AnyOrder(w, v) == TRUE

\* "Call before probing or creating a view, including on cache hits."
LeasedFirst(w, v) == v \in pending[w]

\* Find the view, or make it.
Probe(w) ==
  /\ work[w].step = "discover"
  /\ \E v \in work[w].need \ work[w].seen :
       LET seen == work[w].seen \union {v} IN
       /\ LeasedFirst(w, v)
       /\ views' = views \union {v}
       /\ work' = [work EXCEPT
                     ![w] = [step |-> IF @.need = seen THEN "apply" ELSE "discover",
                             need |-> @.need, seen |-> seen]]
  /\ UNCHANGED <<db, catalog, file, leases, pending, gc, fresh, counts>>

\* Workspace::apply_plan saves the manifest, then takes the plan's leases for
\* its own.
Apply(w) ==
  /\ work[w].step = "apply"
  /\ work[w].need \subseteq pending[w]
  /\ db' = [db EXCEPT ![w] = work[w].need]
  /\ leases' = [leases EXCEPT ![w] = pending[w]]
  /\ pending' = [pending EXCEPT ![w] = {}]
  /\ work' = [work EXCEPT ![w].step = "observe"]
  /\ fresh' = fresh \ {w}
  /\ UNCHANGED <<views, catalog, file, gc, counts>>

\* The preparation's last act.
Observe(w) ==
  /\ work[w].step = "observe"
  /\ Observed(w, db[w])
  /\ work' = [work EXCEPT ![w] = [step |-> "ready"]]
  /\ fresh' = fresh \union {w}
  /\ UNCHANGED <<views, db, file, leases, pending, gc, counts>>

\* The preparation fails; its workspace stays in the registry.
Fail(w) ==
  /\ faults < MaxFaults
  /\ work[w].step \in {"discover", "apply", "observe"}
  /\ work' = [work EXCEPT ![w] = Opened]
  /\ pending' = [pending EXCEPT ![w] = {}]
  /\ faults' = faults + 1
  /\ UNCHANGED <<views, db, catalog, file, leases, gc, fresh, discoveries, passes>>

\* Mutant: the workspace and its leases are dropped before the catalog and the
\* database forget it.
EvictedEarly(w) ==
  /\ leases' = [leases EXCEPT ![w] = {}]
  /\ work' = [work EXCEPT ![w] = Closed]
  /\ UNCHANGED <<db, catalog, fresh>>

\* Mutant: the registry still counts the leases of a workspace that is gone.
EvictedLeased(w) ==
  /\ db' = [db EXCEPT ![w] = None]
  /\ owners' = [owners EXCEPT ![w] = None]
  /\ revision' = revision + IF owners[w] = None THEN 0 ELSE 1
  /\ dependencyRevision' = dependencyRevision + IF owners[w] = None THEN 0 ELSE 1
  /\ work' = [work EXCEPT ![w] = Closed]
  /\ fresh' = fresh \ {w}
  /\ UNCHANGED leases

\* evict_candidate, under the workspace registry: the scope is marked, the
\* catalog forgets the entry, then the workspace goes with its leases.
Evicted(w) ==
  /\ db' = [db EXCEPT ![w] = None]
  /\ owners' = [owners EXCEPT ![w] = None]
  /\ revision' = revision + IF owners[w] = None THEN 0 ELSE 1
  /\ dependencyRevision' = dependencyRevision + IF owners[w] = None THEN 0 ELSE 1
  /\ leases' = [leases EXCEPT ![w] = {}]
  /\ work' = [work EXCEPT ![w] = Closed]
  /\ fresh' = fresh \ {w}

Evict(w) ==
  /\ work[w].step \in {"closed", "open", "ready"}
  /\ db[w] # None \/ owners[w] # None
  /\ Evicted(w)
  /\ UNCHANGED <<views, file, pending, gc, counts>>

-----------------------------------------------------------------------------
(* The collector.                                                          *)

\* seed_owners goes through the workspaces of the analysis database.
GcStart ==
  /\ gc = Idle
  /\ passes < MaxPasses
  /\ gc' = [step |-> "seed", known |-> TRUE,
            todo |-> {w \in Workspaces : db[w] # None}]
  /\ passes' = passes + 1
  /\ UNCHANGED <<views, db, catalog, file, work, leases, pending, fresh,
                 discoveries, faults>>

\* Note the dependency revision, then load a manifest with no lock held.
GcNote ==
  /\ gc.step = "seed"
  /\ \E w \in gc.todo :
       gc' = [step |-> "load", known |-> gc.known, todo |-> gc.todo \ {w},
              at |-> w, revision |-> dependencyRevision]
  /\ UNCHANGED <<views, db, catalog, file, work, leases, pending, fresh, counts>>

GcLoad ==
  /\ gc.step = "load"
  /\ gc' = IF db[gc.at] = None
             THEN [step |-> "seed", known |-> FALSE, todo |-> gc.todo]
             ELSE [step |-> "observe", known |-> gc.known, todo |-> gc.todo,
                   at |-> gc.at, revision |-> gc.revision, manifest |-> db[gc.at]]
  /\ UNCHANGED <<views, db, catalog, file, work, leases, pending, fresh, counts>>

\* Mutant: a manifest is observed whatever happened since it was loaded.
StillThen(noted) == TRUE

\* Nothing changed the dependencies since the manifest was loaded.
SameDependencies(noted) == dependencyRevision = noted

GcObserve ==
  /\ gc.step = "observe"
  /\ IF SameDependencies(gc.revision)
       THEN /\ Observed(gc.at, gc.manifest)
            /\ gc' = [step |-> "seed", known |-> gc.known, todo |-> gc.todo]
       ELSE /\ gc' = [step |-> "seed", known |-> FALSE, todo |-> gc.todo]
            /\ UNCHANGED catalog
  /\ UNCHANGED <<views, db, file, work, leases, pending, fresh, counts>>

\* flush_owners: write a snapshot of the catalog with no lock held,
GcStage ==
  /\ gc.step = "seed" /\ gc.todo = {}
  /\ stage' = [at |-> revision, entries |-> owners]
  /\ gc' = [gc EXCEPT !.step = "flush"]
  /\ UNCHANGED <<views, db, catalog, saved, savedAt, work, leases, pending,
                 fresh, counts>>

\* Mutant: a publication replaces owners.json whatever the catalog says now.
PublishesAny(at) == TRUE

\* Catalog::publish
Publishes(at) == revision = at

\* and publish it if the catalog is still the one that was written.  A pass
\* that does not know every dependency collects nothing.
GcFlush ==
  /\ gc.step = "flush"
  /\ IF Publishes(stage.at)
       THEN saved' = stage.entries /\ savedAt' = stage.at
       ELSE UNCHANGED <<saved, savedAt>>
  /\ stage' = None
  /\ gc' = IF gc.known THEN [step |-> "collect", todo |-> Views]
                       ELSE Idle
  /\ UNCHANGED <<views, db, catalog, work, leases, pending, fresh, counts>>

\* Another path flushes the catalog under its lock (a history publication,
\* the end of the program).
FlushNow ==
  /\ savedAt # revision
  /\ saved' = owners /\ savedAt' = revision
  /\ UNCHANGED <<views, db, catalog, stage, work, leases, pending, gc, fresh, counts>>

\* Mutant: ownership is what a snapshot said, and leases what they were then.
RetiresUnleased(v) == ~Retains(saved, v)

\* Registry::try_retire: under the registry's lock no lease overlaps, and the
\* catalog, read inside it, does not retain the view.
Retires(v) == v \notin Leased /\ ~Retains(owners, v)

\* collect_views: retire one view, or leave it.
GcTry ==
  /\ gc.step = "collect"
  /\ \E v \in gc.todo :
       /\ gc' = IF gc.todo = {v} THEN Idle ELSE [gc EXCEPT !.todo = @ \ {v}]
       /\ views' = IF Retires(v) THEN views \ {v} ELSE views
  /\ UNCHANGED <<db, catalog, file, work, leases, pending, fresh, counts>>

-----------------------------------------------------------------------------
\* The process dies and starts again with owners.json and the database.
Crash ==
  /\ faults < MaxFaults
  /\ faults' = faults + 1
  /\ owners' = saved
  /\ revision' = savedAt /\ dependencyRevision' = 0
  /\ stage' = None
  /\ work' = [w \in Workspaces |-> Closed]
  /\ leases' = [w \in Workspaces |-> {}]
  /\ pending' = [w \in Workspaces |-> {}]
  /\ gc' = Idle
  /\ fresh' = {w \in fresh : saved[w] = db[w]}
  /\ UNCHANGED <<views, db, saved, savedAt, discoveries, passes>>

WorkspaceStep(w) ==
  \/ Open(w) \/ Validate(w) \/ Discover(w) \/ Retain(w) \/ Probe(w)
  \/ Apply(w) \/ Observe(w) \/ Fail(w) \/ Evict(w)
GcStep ==
  \/ GcStart \/ GcNote \/ GcLoad \/ GcObserve \/ GcStage \/ GcFlush \/ GcTry

Next == (\E w \in Workspaces : WorkspaceStep(w)) \/ GcStep \/ FlushNow \/ Crash

Spec == Init /\ [][Next]_vars

-----------------------------------------------------------------------------
(* Properties                                                              *)

\* Types, and: a workspace that is gone leases nothing, and only a plan in the
\* making has leases beside its workspace's.
TypeOK ==
  /\ views \subseteq Views
  /\ db \in [Workspaces -> Manifests]
  /\ owners \in [Workspaces -> Manifests] /\ saved \in [Workspaces -> Manifests]
  /\ revision \in Nat /\ dependencyRevision \in Nat /\ savedAt \in Nat
  /\ leases \in [Workspaces -> SUBSET Views]
  /\ pending \in [Workspaces -> SUBSET Views]
  /\ fresh \subseteq Workspaces
  /\ \A w \in Workspaces :
       /\ work[w].step \in {"closed", "open", "discover", "apply", "observe", "ready"}
       /\ work[w] = Closed => leases[w] = {}
       /\ work[w].step \in {"closed", "open", "observe", "ready"} => pending[w] = {}

\* A view a workspace found or made for the plan it works on is not retired
\* under it, although the collector decided from older snapshots.
InUseKept ==
  \A w \in Workspaces :
    work[w].step \in {"discover", "apply"} => work[w].seen \subseteq views

\* What an indexed workspace depends on stays on disk, in the hand-over from
\* leases to the catalog, after the workspace was closed, and after a crash
\* that lost both ("in-flight users pin managed views until durable ownership
\* is published").
IndexedKept ==
  \A w \in Workspaces : db[w] # None => db[w] \subseteq views

\* Once the newest manifest of a workspace was observed, the collector never
\* puts an older one in its place.
OwnersFresh == \A w \in fresh : owners[w] = db[w]

\* A flush that was overtaken never replaces a newer owners.json.
SavedForward == [][savedAt' >= savedAt]_vars
=============================================================================
