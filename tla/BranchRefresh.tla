---------------------------- MODULE BranchRefresh ----------------------------
(***************************************************************************)
(* One branch of a repository: the jobs that change its files and its      *)
(* selector (src/src/repository/manager.rs: refresh, extend_inputs), the   *)
(* selection they acquire (src/src/repository/materialize.rs) and the      *)
(* preparation that indexes the files and records that it did              *)
(* (src/src/service/preparation.rs).                                       *)
(*                                                                         *)
(* A job runs alone (branch.acquiring).  It fetches with no publication    *)
(* lock, then publishes under the writer of the analysis and state locks:  *)
(* it persists the new selector with a repair marker, removes and places   *)
(* files one at a time, clears the marker and bumps the generation.  It    *)
(* can fail, and the process can die, between any two of these steps.      *)
(*                                                                         *)
(* Abstracted: a blob is a model value; the pool and the transfer of       *)
(* objects are one step that may fail; files are removed and placed in any *)
(* order; policy, transport and directories do not change; LFS content is  *)
(* available or not at each acquisition.                                   *)
(***************************************************************************)
EXTENDS Integers, FiniteSets

CONSTANTS
  Files,        \* paths some revision tracks
  Blobs,        \* contents
  Revisions,    \* commits of the branch
  Tree,         \* Tree[r][f]: the blob of path f at commit r, or None
  None,         \* not a blob, a commit or a selector
  Optional,     \* assets (optional_asset): deferred until somebody needs them
  Extra,        \* paths no selection pattern takes, that discovery may require
  Large,        \* blobs over ASSET_LIMIT
  Pointers,     \* blobs that are LFS pointers
  MaxMoves,     \* pushes to the branch
  MaxFaults,    \* failed steps and crashes
  MaxLost,      \* files deleted by something else
  MaxGenerations \* generations after which a job starts only to repair what
                 \* a fault left

ASSUME TreeAssumption == Tree \in [Revisions -> [Files -> Blobs \union {None}]]
ASSUME BoundAssumption ==
  MaxMoves \in Nat /\ MaxFaults \in Nat /\ MaxLost \in Nat /\ MaxGenerations \in Nat

VARIABLES
  upstream,     \* the commit the remote branch is at
  saved,        \* state.json
  state,        \* Branch::state, the selector in memory
  disk,         \* source/: path -> blob, or None
  generation,   \* Branch::generation
  job,          \* the refresh or extension that holds branch.acquiring
  prep,         \* the preparation of the workspace
  index,        \* what the analysis database was last built from
  moves, faults, losses, \* what happened so far
  gone,         \* files deleted by something else and not placed again
  trusted       \* FALSE once an extension published over a repair marker

vars == <<upstream, saved, state, disk, generation, job, prep, index,
          moves, faults, losses, gone, trusted>>

Selector == [rev : Revisions, selected : SUBSET Files,
             unavailable : SUBSET Files, omitted : SUBSET Files,
             deferred : SUBSET Files, additional : SUBSET Files,
             indexed : Revisions \union {None}, repair : BOOLEAN]

\* The content of each file that is planned for the index, and what is indexed.
Plans == UNION {[S -> Blobs \union {None}] : S \in SUBSET Files}
Indexes == [rev : Revisions, files : Plans]
ASSUME NoneAssumption == None \notin Selector /\ None \notin Indexes

Tracked(r) == {f \in Files : Tree[r][f] # None}
SameBlob(r, q, f) == Tree[r][f] = Tree[q][f]

NoJob == [kind |-> "none"]
NoPrep == [step |-> "idle"]
Publishing == job.kind # "none" /\ job.step \in {"remove", "place", "finish"}

Reading == prep.step = "indexing"

\* Mutant: the publisher takes only the state lock, which short reads hold.
AnyReaders == TRUE

\* Branch::publish waits for the AnalysisGuard that indexing holds.
ReadersDone == ~Reading

Init ==
  /\ upstream \in Revisions
  /\ saved = None /\ state = None
  /\ disk = [f \in Files |-> None]
  /\ generation = 0
  /\ job = NoJob /\ prep = NoPrep /\ index = None
  /\ moves = 0 /\ faults = 0 /\ losses = 0
  /\ gone = {} /\ trusted = TRUE

-----------------------------------------------------------------------------
(* The world.                                                              *)

\* The remote branch moves, also back to a commit it was at before.
Push ==
  /\ moves < MaxMoves
  /\ \E r \in Revisions \ {upstream} : upstream' = r
  /\ moves' = moves + 1
  /\ UNCHANGED <<saved, state, disk, generation, job, prep, index, faults,
                 losses, gone, trusted>>

\* Something else deletes a file below source/.
Lose ==
  /\ losses < MaxLost
  /\ \E f \in Files :
       /\ disk[f] # None
       /\ disk' = [disk EXCEPT ![f] = None]
       /\ gone' = gone \union {f}
  /\ losses' = losses + 1
  /\ UNCHANGED <<upstream, saved, state, generation, job, prep, index, moves,
                 faults, trusted>>

\* The process dies: the next one loads the selector from state.json.
Crash ==
  /\ faults < MaxFaults
  /\ state' = saved
  /\ generation' = 0
  /\ job' = NoJob /\ prep' = NoPrep
  /\ faults' = faults + 1
  /\ UNCHANGED <<upstream, saved, disk, index, moves, losses, gone, trusted>>

-----------------------------------------------------------------------------
(* Selection of a commit's files (materialize).                            *)

\* `request.previous`: the files of the applied selector that an acquisition
\* need not fetch again.  A refresh trusts none of a selector under repair;
\* a request for inputs does not ask.
OnDisk(s) == {f \in s.selected : disk[f] # None}

\* Mutant: a refresh keeps the files of a selector under repair.
TrustsRepair(s) == IF s = None THEN {} ELSE OnDisk(s)

PreviousOfRefresh(s) == IF s = None \/ s.repair THEN {} ELSE OnDisk(s)
PreviousOfRequire(s) == OnDisk(s)
PreviousOfAssets(s) == s.selected

Kept(s, previous, r) ==
  {f \in previous : SameBlob(s.rev, r, f)}

\* What an acquisition of commit r returns and what it stages, when
\* `previous` is kept from selector s.
Acquired(s, previous, r, required, additional, sources, lfs) ==
  LET wanted   == required \union additional
      chosen   == {f \in Tracked(r) : f \notin Extra \/ f \in wanted}
      kept     == IF s = None THEN {} ELSE Kept(s, previous, r)
      deferred == IF sources
                    THEN ((chosen \intersect Optional) \ kept) \ wanted
                    ELSE {}
      changed  == (chosen \ deferred) \ kept
      large    == {f \in changed \intersect Optional : Tree[r][f] \in Large}
  IN [rev |-> r,
      selected    |-> (chosen \ deferred) \ large,
      staged      |-> changed \ large,
      omitted     |-> large,
      deferred    |-> deferred,
      unavailable |-> {f \in (changed \ large) \intersect lfs :
                         Tree[r][f] \in Pointers}]

\* Mutant: an asset that stays omitted is still listed as deferred.
OmitsDeferred(s, a) ==
  LET again == IF s = None THEN {}
               ELSE {f \in a.deferred \intersect s.omitted :
                       SameBlob(s.rev, a.rev, f)}
  IN [a EXCEPT !.omitted = @ \union again]

\* State::reuse_omissions: a deferred asset the last selector found too
\* large stays omitted while its blob is the same.
ReuseOmissions(s, a) ==
  LET again == IF s = None THEN {}
               ELSE IF s.repair THEN {}
               ELSE {f \in a.deferred \intersect s.omitted :
                       SameBlob(s.rev, a.rev, f)}
  IN [a EXCEPT !.deferred = @ \ again, !.omitted = @ \union again]

Selecting(a, additional, indexed, repair) ==
  [rev |-> a.rev, selected |-> a.selected, unavailable |-> a.unavailable,
   omitted |-> a.omitted, deferred |-> a.deferred,
   additional |-> additional, indexed |-> indexed, repair |-> repair]

SameFiles(s, t) ==
  /\ s.selected = t.selected
  /\ \A f \in s.selected : SameBlob(s.rev, t.rev, f)

\* State::same_inputs
SameInputs(s, t) ==
  /\ ~s.repair
  /\ s.rev = t.rev /\ s.additional = t.additional
  /\ s.selected = t.selected /\ s.unavailable = t.unavailable
  /\ s.omitted = t.omitted /\ s.deferred = t.deferred

-----------------------------------------------------------------------------
(* RepositoryManager::refresh and extend_inputs, up to the publication.    *)

Unusable == IF state = None THEN TRUE ELSE state.repair
MayStart ==
  /\ job = NoJob
  /\ generation < IF Unusable THEN MaxGenerations + MaxFaults + 1
                              ELSE MaxGenerations

\* schedule / resolve_with: a refresh when one is due or the branch is not
\* usable.  It reads the selector and the files it can keep.
BeginRefresh ==
  /\ MayStart
  /\ job' = [kind |-> "refresh", step |-> "fetch", before |-> state,
             previous |-> PreviousOfRefresh(state), required |-> {}]
  /\ UNCHANGED <<upstream, saved, state, disk, generation, prep, index, moves,
                 faults, losses, gone, trusted>>

\* require_inputs: the preparation asks for paths of the commit it discovered.
BeginRequire ==
  /\ MayStart
  /\ prep.step = "require"
  /\ state # None
  /\ IF state.rev # prep.rev
       THEN /\ job' = NoJob
            /\ prep' = NoPrep
       ELSE /\ job' = [kind |-> "require", step |-> "fetch", before |-> state,
                       previous |-> PreviousOfRequire(state),
                       required |-> prep.want]
            /\ prep' = [step |-> "waiting"]
  /\ UNCHANGED <<upstream, saved, state, disk, generation, index, moves,
                 faults, losses, gone, trusted>>

\* complete_assets: an asset job wants the files the refresh deferred.
BeginAssets ==
  /\ MayStart
  /\ state # None
  /\ ~state.repair
  /\ state.deferred # {}
  /\ job' = [kind |-> "assets", step |-> "fetch", before |-> state,
             previous |-> PreviousOfAssets(state), required |-> {}]
  /\ UNCHANGED <<upstream, saved, state, disk, generation, prep, index, moves,
                 faults, losses, gone, trusted>>

Extending == job.kind \in {"require", "assets"}

\* Git acquisition, omissions and LFS hydration into the job's stage.
Fetch ==
  /\ job.kind # "none" /\ job.step = "fetch"
  /\ \E lfs \in SUBSET Files :
     LET before == job.before
         r == IF Extending THEN before.rev ELSE upstream
         additional == IF before = None THEN {} ELSE before.additional
         a == ReuseOmissions(before,
                Acquired(before, job.previous, r, job.required, additional,
                         job.kind # "assets", lfs))
     IN /\ lfs \subseteq {f \in Files : Tree[r][f] \in Pointers}
        /\ job' = [kind |-> job.kind, step |-> "publish", before |-> before,
                   required |-> job.required, staged |-> a.staged,
                   next |-> Selecting(
                     IF job.kind = "assets"
                       THEN [a EXCEPT !.unavailable = @ \union before.unavailable]
                       ELSE a,
                     additional \union job.required,
                     IF before = None THEN None ELSE before.indexed,
                     TRUE)]
  /\ UNCHANGED <<upstream, saved, state, disk, generation, prep, index, moves,
                 faults, losses, gone, trusted>>

-----------------------------------------------------------------------------
(* The publication, under Branch::publish.                                 *)

\* Mutant: a preparation that waits is not told.
KeepWaiting(p) == p

\* The preparation that waited for require_inputs discovers again.
Release(p) == IF p.step = "waiting" THEN NoPrep ELSE p

Unchanged == /\ job.before # None
             /\ job.kind # "assets"
             /\ SameInputs(job.before, job.next)
             /\ job.staged = {}

\* Nothing to place: keep the latest indexing marker, since indexing can
\* finish during acquisition.
PublishUnchanged ==
  /\ job.kind # "none" /\ job.step = "publish"
  /\ ReadersDone
  /\ Unchanged
  /\ state' = [job.next EXCEPT !.indexed = state.indexed, !.repair = FALSE]
  /\ saved' = state'
  /\ job' = NoJob
  /\ prep' = IF job.kind = "require" THEN Release(prep) ELSE prep
  /\ UNCHANGED <<upstream, disk, generation, index, moves, faults, losses,
                 gone, trusted>>

\* Mutant: the selector is persisted as applied before its files are placed.
MarkedAsApplied(next) == [next EXCEPT !.repair = FALSE]

MarkedForRepair(next) == next

\* The selector is persisted with its repair marker before any file changes.
\* Extensions keep the current marker of the index; completing assets writes
\* no repair marker.
PublishChanged ==
  /\ job.kind # "none" /\ job.step = "publish"
  /\ ReadersDone
  /\ ~Unchanged
  /\ LET next == [job.next EXCEPT
                    !.indexed = IF Extending THEN state.indexed ELSE @]
         dropped == IF Extending \/ job.before = None THEN {}
                    ELSE job.before.selected \ next.selected
     IN /\ IF job.kind = "assets"
             THEN UNCHANGED <<state, saved>>
             ELSE state' = MarkedForRepair(next) /\ saved' = state'
        /\ job' = [kind |-> job.kind, step |-> "remove",
                   before |-> job.before, next |-> next,
                   staged |-> job.staged, todo |-> dropped]
  /\ trusted' = (trusted /\ ~(job.kind = "require" /\ job.before.repair))
  /\ UNCHANGED <<upstream, disk, generation, prep, index, moves, faults,
                 losses, gone>>

\* Remove the files of the old selection that the new one does not have.
Remove ==
  /\ job.kind # "none" /\ job.step = "remove"
  /\ IF job.todo = {}
       THEN /\ job' = [job EXCEPT !.step = "place",
                         !.todo = @ \union
                           (job.next.selected \intersect
                             (job.staged \union job.next.unavailable))]
            /\ UNCHANGED disk
       ELSE \E f \in job.todo :
              /\ disk' = [disk EXCEPT ![f] = None]
              /\ job' = [job EXCEPT !.todo = @ \ {f}]
  /\ UNCHANGED <<upstream, saved, state, generation, prep, index, moves,
                 faults, losses, gone, trusted>>

\* Place one staged file, or remove one whose content is not available.
Place ==
  /\ job.kind # "none" /\ job.step = "place"
  /\ IF job.todo = {}
       THEN job' = [job EXCEPT !.step = "finish"] /\ UNCHANGED <<disk, gone>>
       ELSE \E f \in job.todo :
              /\ disk' = [disk EXCEPT ![f] =
                            IF f \in job.next.unavailable THEN None
                            ELSE Tree[job.next.rev][f]]
              /\ gone' = gone \ {f}
              /\ job' = [job EXCEPT !.todo = @ \ {f}]
  /\ UNCHANGED <<upstream, saved, state, generation, prep, index, moves,
                 faults, losses, trusted>>

\* The marker follows a refresh that changed nothing an index reads.
Carried(before, next) ==
  IF /\ before # None
     /\ ~before.repair
     /\ SameFiles(before, next)
     /\ before.unavailable = next.unavailable
     /\ before.indexed = before.rev
    THEN next.rev ELSE next.indexed

\* Completing assets leaves the inputs of the index alone.
NextGeneration(kind, n) == IF kind = "assets" THEN n ELSE n + 1

\* Mutant: the repair marker is left when every file is placed.
StillMarked(next) == next

Applied(next) == [next EXCEPT !.repair = FALSE]

Finish ==
  /\ job.kind # "none" /\ job.step = "finish"
  /\ state' = [Applied(job.next) EXCEPT
                 !.indexed = IF Extending THEN @
                             ELSE Carried(job.before, job.next)]
  /\ saved' = state'
  /\ generation' = NextGeneration(job.kind, generation)
  /\ job' = NoJob
  /\ prep' = IF job.kind = "require" THEN Release(prep) ELSE prep
  /\ UNCHANGED <<upstream, disk, index, moves, faults, losses, gone, trusted>>

\* An acquisition, a removal, a rename or a write of the selector fails: the
\* job ends where it is and drops its locks.
Fail ==
  /\ faults < MaxFaults
  /\ job.kind # "none"
  /\ job' = NoJob
  /\ prep' = IF job.kind = "require" THEN NoPrep ELSE prep
  /\ faults' = faults + 1
  /\ UNCHANGED <<upstream, saved, state, disk, generation, index, moves,
                 losses, gone, trusted>>

-----------------------------------------------------------------------------
(* The preparation of the workspace.                                       *)

Visible(s) == (Tracked(s.rev) \ s.unavailable) \ s.omitted
\* The files the code index reads.
Inputs(s) == (s.selected \ s.unavailable) \ (Optional \ s.additional)
Snapshot(s) == [f \in Inputs(s) |-> disk[f]]

\* Discovery under the state guard: plan the index of what is on disk, or ask
\* for the tracked files it needs and does not find.
Discover ==
  /\ prep.step = "idle"
  /\ ~Publishing
  /\ state # None
  /\ ~state.repair
  /\ LET missing == {f \in Visible(state) \intersect Extra : disk[f] = None}
     IN prep' = IF missing # {}
          THEN [step |-> "require", rev |-> state.rev, want |-> missing]
          ELSE [step |-> "planned", rev |-> state.rev, gen |-> generation,
                plan |-> Snapshot(state)]
  /\ UNCHANGED <<upstream, saved, state, disk, generation, job, index, moves,
                 faults, losses, gone, trusted>>

\* Indexing was admitted: the plan stands if no publication replaced the
\* inputs and no planned file changed while it was queued.
BeginIndex ==
  /\ prep.step = "planned"
  /\ ~Publishing
  /\ prep' = IF /\ prep.gen = generation
                /\ \A f \in DOMAIN prep.plan : disk[f] = prep.plan[f]
               THEN [prep EXCEPT !.step = "indexing"]
               ELSE NoPrep
  /\ UNCHANGED <<upstream, saved, state, disk, generation, job, index, moves,
                 faults, losses, gone, trusted>>

\* apply_plan returns, and the guards are dropped with the generation noted.
EndIndex ==
  /\ prep.step = "indexing"
  /\ index' = [rev |-> prep.rev, files |-> prep.plan]
  /\ prep' = [step |-> "mark", gen |-> generation]
  /\ UNCHANGED <<upstream, saved, state, disk, generation, job, moves,
                 faults, losses, gone, trusted>>

\* Mutant: whatever is published when the gate opens is marked.
MarksAny(gen) == ~state.repair /\ state.indexed # state.rev

\* Publication can win the gap between releasing the read guard and acquiring
\* the writer.
Marks(gen) ==
  /\ ~state.repair
  /\ gen = generation
  /\ state.indexed # state.rev

\* Record under the publication gate that the applied commit is indexed; the
\* write of state.json may fail.
Mark ==
  /\ prep.step = "mark"
  /\ ~Publishing
  /\ prep' = NoPrep
  /\ IF Marks(prep.gen)
       THEN /\ state' = [state EXCEPT !.indexed = state.rev]
            /\ \/ saved' = state' /\ UNCHANGED faults
               \/ /\ faults < MaxFaults
                  /\ faults' = faults + 1
                  /\ UNCHANGED saved
       ELSE UNCHANGED <<state, saved, faults>>
  /\ UNCHANGED <<upstream, disk, generation, job, index, moves, losses, gone,
                 trusted>>

-----------------------------------------------------------------------------
JobStep ==
  \/ BeginRefresh \/ BeginRequire \/ BeginAssets \/ Fetch
  \/ PublishUnchanged \/ PublishChanged \/ Remove \/ Place \/ Finish
PrepStep == Discover \/ BeginIndex \/ EndIndex \/ Mark

Next == Push \/ Lose \/ Crash \/ Fail \/ JobStep \/ PrepStep

Spec == Init /\ [][Next]_vars

-----------------------------------------------------------------------------
(* Properties                                                              *)

\* A tracked file is selected, deferred or omitted, and only one of them.
SelectorOK(s) ==
  \/ s = None
  \/ /\ s \in Selector
     /\ s.selected \union s.deferred \union s.omitted \subseteq Tracked(s.rev)
     /\ s.selected \intersect s.deferred = {}
     /\ (s.selected \union s.deferred) \intersect s.omitted = {}
     /\ s.unavailable \subseteq s.selected

\* The sets of a selector are disjoint and tracked at its commit, and jobs and
\* preparations are at one of their steps.
TypeOK ==
  /\ upstream \in Revisions
  /\ SelectorOK(saved) /\ SelectorOK(state)
  /\ disk \in [Files -> Blobs \union {None}]
  /\ generation \in Nat
  /\ job.kind \in {"none", "refresh", "require", "assets"}
  /\ prep.step \in {"idle", "require", "waiting", "planned", "indexing", "mark"}
  /\ moves \in 0 .. MaxMoves /\ faults \in 0 .. MaxFaults
  /\ losses \in 0 .. MaxLost
  /\ gone \subseteq Files /\ trusted \in BOOLEAN

\* The files below source/ are those the selector says.
Matches(s) ==
  \A f \in s.selected :
    /\ f \notin s.unavailable =>
         \/ disk[f] = Tree[s.rev][f]
         \/ disk[f] = None /\ f \in gone
    /\ f \in s.unavailable => disk[f] = None

\* A selector without a repair marker tells the truth about the files below
\* source/, whatever failed or died on the way there: no file of another
\* commit is read as one of this commit.  Asset completion, which places
\* files without a marker, is covered: a file it lost half-way is not yet
\* selected.  Excepted: an extension published over a repair marker.
SourcesTrue ==
  trusted /\ ~Publishing /\ state # None => (~state.repair => Matches(state))

\* What a restart would load is as true.
SavedTrue ==
  trusted /\ saved # None => (~saved.repair /\ ~Publishing => Matches(saved))

\* The same without the exception: require_inputs "acquires
\* discovery-requested inputs from the applied commit".
AppliedSources ==
  ~Publishing /\ state # None => (~state.repair => Matches(state))

\* No publication changes a file under a reader that indexes it.
StillWhileIndexed ==
  Reading => \A f \in Files : disk'[f] = disk[f] \/ f \in gone'

\* The marker is only set for files the analysis database was built from:
\* every input of the selector, with its content at that commit.
IndexIs(s) ==
  /\ index # None
  /\ \A f \in Inputs(s) :
       /\ f \in DOMAIN index.files
       /\ \/ index.files[f] = Tree[s.rev][f]
          \/ index.files[f] = None
Marked == /\ prep.step = "mark" /\ prep' = NoPrep /\ job' = job
          /\ state' # state
MarkFresh == Marked /\ trusted /\ faults' = faults => IndexIs(state')

\* All of this: the applied selector, and the one a restart loads, tell the
\* truth about the files whatever step of a refresh or an extension failed or
\* died; readers see the files they index; and only what was indexed is marked.
RefreshTrue ==
  /\ [](TypeOK /\ SourcesTrue /\ SavedTrue)
  /\ [][StillWhileIndexed]_vars
  /\ [][MarkFresh]_vars

\* What the marker is taken to mean when retention counts a default branch
\* as ready: the analysis database was built from the selected inputs.
MarkerMeansIndexed ==
  trusted /\ state # None =>
    (~state.repair /\ ~Publishing /\ state.indexed = state.rev => IndexIs(state))
=============================================================================
