------------------------------ MODULE AssetJobs ------------------------------
(***************************************************************************)
(* src/src/unity/assets/jobs.rs: the background jobs that build the asset  *)
(* index of a Unity workspace.                                             *)
(*                                                                         *)
(* A job reads the code workspace and the branch under their locks, drops  *)
(* them to build, takes them again to publish.  Locks are always taken     *)
(* workspace first, then the state of the branch; the branch is refreshed  *)
(* under the second alone.                                                 *)
(*                                                                         *)
(* Abstracted: an index is the version of the asset files it describes; a  *)
(* version of the code manifest stands for its hash; the 30 seconds after  *)
(* which a failed remote job may be started again end at any time.         *)
(***************************************************************************)
EXTENDS Integers, FiniteSets

CONSTANTS
  Queries,
  Codes,      \* versions of the code manifest
  Revisions,  \* versions of the asset files
  Nobody,
  Refresher, Preparer,  \* who else takes the locks
  MaxJobs,
  MaxChanges

Jobs == 1 .. MaxJobs

VARIABLES
  remote,   \* the workspace is a branch, and its files are what it checked out
  files,    \* version of the asset files, or Nobody while they are replaced
  code,     \* version of the code manifest
  branch,   \* revision and repair marker of the branch
  lock,     \* who holds the workspace mutex
  reading,  \* jobs that hold the state of the branch for reading
  writing,  \* who holds it for writing
  count,
  want,     \* job -> what it was started for
  at,       \* job -> where it is
  canceled,
  running,  \* the registered job
  worker,   \* who holds the permit of the only worker
  content,  \* job -> version its index describes
  returned, \* jobs whose branch was refreshed to the revision they were
            \* started for between their two looks at it
  changes,  \* of the revision of the branch
  since,    \* job -> versions the files had since it started
  outcome,  \* job -> "none", "ok" or "err"
  snapshot, \* the completed generation in the cache
  ticket    \* query -> job it waits for

guards == <<lock, reading, writing>>
registry == <<count, want, running>>
past == <<returned, changes>>
indexes == <<content, past, snapshot>>
vars == <<remote, files, code, branch, guards, registry, at, canceled, worker, indexes, since,
          outcome, ticket>>

NoSnapshot == [code |-> Nobody, revision |-> Nobody, content |-> Nobody]
Current == [code |-> code, revision |-> IF remote THEN branch.revision ELSE Nobody]

Init ==
  /\ remote \in BOOLEAN /\ files \in Revisions /\ code \in Codes
  /\ branch = [revision |-> files, repair |-> FALSE]
  /\ lock = Nobody /\ reading = {} /\ writing = Nobody
  /\ count = 0 /\ running = Nobody
  /\ want = [j \in Jobs |-> [gen |-> Current, previous |-> Nobody]]
  /\ at = [j \in Jobs |-> "idle"] /\ canceled = {}
  /\ worker = Nobody
  /\ content = [j \in Jobs |-> Nobody] /\ returned = {} /\ changes = 0
  /\ since = [j \in Jobs |-> {}]
  /\ outcome = [j \in Jobs |-> "none"]
  /\ snapshot = NoSnapshot
  /\ ticket = [q \in Queries |-> Nobody]

Unfinished == {j \in Jobs : at[j] \notin {"idle", "done"}}
Seen(v) == since' = [j \in Jobs |-> IF j \in Unfinished THEN since[j] \union {v} ELSE since[j]]

\* Local files are edited at any time.
Edit ==
  /\ ~remote
  /\ \E v \in Revisions \ {files} : files' = v /\ Seen(v)
  /\ UNCHANGED <<remote, code, branch, guards, registry, at, canceled, worker, indexes,
                 outcome, ticket>>

\* A query discovers other code, under the workspace mutex.
Discover ==
  /\ lock = Nobody
  /\ \E c \in Codes \ {code} : code' = c
  /\ UNCHANGED <<remote, files, branch, guards, registry, at, canceled, worker, indexes,
                 since, outcome, ticket>>

\* Jobs that have looked at the branch, and will look again to publish.
Unlocked == {j \in Jobs : at[j] \in {"build", "relock", "relock state"}}

\* A refresh publishes another revision under the state of the branch, one it
\* has left perhaps: the marker first, then the files.
Refresh ==
  /\ remote /\ writing = Nobody /\ reading = {}
  /\ writing' = Refresher
  /\ \E r \in Revisions :
       /\ \/ r # branch.revision /\ changes < MaxChanges /\ changes' = changes + 1
          \/ r = branch.revision /\ branch.repair /\ UNCHANGED changes
       /\ branch' = [revision |-> r, repair |-> TRUE]
       /\ returned' = returned \union {j \in Unlocked : want[j].gen.revision = r}
  /\ files' = Nobody
  /\ UNCHANGED <<remote, code, lock, reading, registry, at, canceled, worker, content,
                 snapshot, since, outcome, ticket>>

\* It may be cut short and leave the marker over a mixture of files.
RefreshEnd ==
  /\ writing = Refresher
  /\ writing' = Nobody
  /\ \/ files' = branch.revision /\ branch' = [branch EXCEPT !.repair = FALSE]
     \/ UNCHANGED <<files, branch>>
  /\ UNCHANGED <<remote, code, lock, reading, registry, at, canceled, worker, indexes,
                 since, outcome, ticket>>

\* The preparation of a branch publishes under both locks.
PrepareLock ==
  /\ remote /\ lock = Nobody
  /\ lock' = Preparer
  /\ UNCHANGED <<remote, files, code, branch, reading, writing, registry, at, canceled,
                 worker, indexes, since, outcome, ticket>>

PrepareState ==
  /\ lock = Preparer /\ writing = Nobody /\ reading = {}
  /\ writing' = Preparer
  /\ UNCHANGED <<remote, files, code, branch, lock, reading, registry, at, canceled,
                 worker, indexes, since, outcome, ticket>>

PrepareEnd ==
  /\ lock = Preparer /\ writing = Preparer
  /\ lock' = Nobody /\ writing' = Nobody
  /\ UNCHANGED <<remote, files, code, branch, reading, registry, at, canceled, worker,
                 indexes, since, outcome, ticket>>

\* What a request may ask for: a query knows the revision it holds, a preparation
\* the one it has indexed, which the branch may have left.
Requested ==
  {[code |-> code, revision |-> r] : r \in IF remote THEN Revisions ELSE {Nobody}}

SameGeneration(gen) == IF running = Nobody THEN FALSE ELSE want[running].gen = gen

\* The registered job answers a request for its generation.  Local queries about
\* assets ask to look at the files again; a failure is repeated for 30 seconds.
Reusable(gen, refresh) ==
  /\ SameGeneration(gen)
  /\ CASE outcome[running] = "none" -> TRUE
       [] outcome[running] = "ok" -> ~refresh
       [] outcome[running] = "err" -> remote

MustReuse(gen, refresh) == Reusable(gen, refresh) /\ outcome[running] # "err"

\* Kept for a local job of the same generation.
Previous(gen) ==
  IF ~SameGeneration(gen) \/ remote THEN Nobody
  ELSE IF outcome[running] = "ok" THEN content[running] ELSE Nobody

Join(q, gen) ==
  /\ \E refresh \in BOOLEAN : Reusable(gen, refresh)
  /\ ticket' = [ticket EXCEPT ![q] = running]
  /\ UNCHANGED <<registry, at, canceled, since>>

Begin(q, gen) ==
  LET j == count + 1 IN
  /\ j \in Jobs
  /\ \E refresh \in BOOLEAN : ~MustReuse(gen, refresh)
  /\ count' = j /\ running' = j
  /\ want' = [want EXCEPT ![j] = [gen |-> gen, previous |-> Previous(gen)]]
  /\ canceled' = IF running = Nobody THEN canceled ELSE canceled \union {running}
  /\ at' = [at EXCEPT ![j] = IF remote THEN "acquire" ELSE "admission"]
  /\ since' = [since EXCEPT ![j] = {files}]
  /\ ticket' = [ticket EXCEPT ![q] = j]

\* start(), under the workspace mutex.
Start(q) ==
  /\ ticket[q] = Nobody /\ lock \in {Nobody, Preparer}
  /\ \E gen \in Requested : Join(q, gen) \/ Begin(q, gen)
  /\ UNCHANGED <<remote, files, code, branch, guards, worker, indexes, outcome>>

Leave(q) ==
  /\ ticket[q] # Nobody
  /\ ticket' = [ticket EXCEPT ![q] = Nobody]
  /\ UNCHANGED <<remote, files, code, branch, guards, registry, at, canceled, worker,
                 indexes, since, outcome>>

\* trim_to(): completed, and held by nobody.
Trim ==
  /\ IF running = Nobody THEN FALSE ELSE outcome[running] # "none"
  /\ \A q \in Queries : ticket[q] # running
  /\ running' = Nobody
  /\ UNCHANGED <<remote, files, code, branch, guards, count, want, at, canceled, worker,
                 indexes, since, outcome, ticket>>

Shutdown ==
  /\ canceled # Jobs /\ canceled' = Jobs
  /\ UNCHANGED <<remote, files, code, branch, guards, registry, at, worker, indexes,
                 since, outcome, ticket>>

Goes(j, here, next) == at[j] = here /\ at' = [at EXCEPT ![j] = next]

\* complete_assets(), which needs the branch still to be at the revision.
Acquire(j) ==
  /\ Goes(j, "acquire", "admission") \/ Goes(j, "acquire", "failed")
  /\ j \in canceled => at'[j] = "failed"
  /\ at'[j] = "admission" =>
       writing = Nobody /\ ~branch.repair /\ branch.revision = want[j].gen.revision
  /\ UNCHANGED <<remote, files, code, branch, guards, registry, canceled, worker, indexes,
                 since, outcome, ticket>>

\* A wait that is given up for cancellation drops what it has.
Cancel(j) ==
  /\ j \in canceled
  /\ at[j] \in {"admission", "capture", "capture state", "relock", "relock state"}
  /\ at' = [at EXCEPT ![j] = "failed"]
  /\ lock' = IF lock = j THEN Nobody ELSE lock
  /\ worker' = IF worker = j THEN Nobody ELSE worker
  /\ UNCHANGED <<remote, files, code, branch, reading, writing, registry, canceled,
                 indexes, since, outcome, ticket>>

\* The select is biased to cancellation.
Permit(j) ==
  /\ j \notin canceled /\ worker = Nobody
  /\ Goes(j, "admission", "capture") /\ worker' = j
  /\ UNCHANGED <<remote, files, code, branch, guards, registry, canceled, indexes, since,
                 outcome, ticket>>

\* Mutant: publication takes the state of the branch before the workspace.
StateFirst(j) ==
  \/ at[j] = "relock" /\ at' = [at EXCEPT ![j] = "relock state"]
     /\ writing = Nobody /\ reading' = reading \union {j} /\ UNCHANGED lock
  \/ at[j] = "relock state" /\ at' = [at EXCEPT ![j] = "publish"]
     /\ lock = Nobody /\ lock' = j /\ UNCHANGED reading
  \/ at[j] = "capture" /\ at' = [at EXCEPT ![j] = "capture state"]
     /\ lock = Nobody /\ lock' = j /\ UNCHANGED reading
  \/ at[j] = "capture state" /\ at' = [at EXCEPT ![j] = "check"]
     /\ writing = Nobody /\ reading' = reading \union {j} /\ UNCHANGED lock

\* The guards of capture and of publication, workspace first.
Guards(j) ==
  \/ /\ lock = Nobody /\ lock' = j
     /\ Goes(j, "capture", "capture state") \/ Goes(j, "relock", "relock state")
     /\ UNCHANGED reading
  \/ /\ remote => writing = Nobody
     /\ Goes(j, "capture state", "check") \/ Goes(j, "relock state", "publish")
     /\ reading' = IF remote THEN reading \union {j} ELSE reading
     /\ UNCHANGED lock

TakeGuards(j) ==
  /\ Guards(j)
  /\ UNCHANGED <<remote, files, code, branch, writing, registry, canceled, worker,
                 indexes, since, outcome, ticket>>

\* Nothing the job was started for has changed.
AsRequested(j) == want[j].gen = Current /\ (remote => ~branch.repair)

DropGuards(j) == lock' = Nobody /\ reading' = reading \ {j}

Check(j) ==
  /\ at[j] = "check"
  /\ at' = [at EXCEPT ![j] = IF AsRequested(j) THEN "build" ELSE "failed"]
  /\ DropGuards(j)
  /\ worker' = IF AsRequested(j) THEN worker ELSE Nobody
  /\ UNCHANGED <<remote, files, code, branch, writing, registry, canceled, indexes, since,
                 outcome, ticket>>

Stored(j) == snapshot.code = want[j].gen.code /\ snapshot.revision = want[j].gen.revision

\* Mutant: an index of the same generation is taken without a look at the files.
Trusted(j) == {want[j].previous} \union (IF Stored(j) THEN {snapshot.content} ELSE {})

\* What needs no build: the previous index of a local workspace, or the stored
\* one, whose files are all as it observed them.
Retained(j) ==
  {v \in {want[j].previous} \union (IF Stored(j) THEN {snapshot.content} ELSE {}) : v = files}

\* With no guard held: reuse or build from the files as they are, or fail.
Build(j) ==
  /\ at[j] = "build"
  /\ \/ /\ LET kept == Retained(j) \ {Nobody} IN
           content' = [content EXCEPT ![j] = IF kept = {} THEN files ELSE CHOOSE v \in kept : TRUE]
        /\ at' = [at EXCEPT ![j] = IF j \in canceled THEN "failed" ELSE "relock"]
        /\ worker' = IF j \in canceled THEN Nobody ELSE worker
     \/ at' = [at EXCEPT ![j] = "failed"] /\ worker' = Nobody /\ UNCHANGED content
  /\ UNCHANGED <<remote, files, code, branch, guards, registry, canceled, snapshot, past, since,
                 outcome, ticket>>

\* Mutant: the branch is not compared again at publication.
SameCode(j) == want[j].gen.code = code /\ j \notin canceled

\* The checks of publish().
Publishable(j) == AsRequested(j) /\ j \notin canceled

Publish(j) ==
  /\ at[j] = "publish"
  /\ \/ /\ Publishable(j)
        /\ outcome' = [outcome EXCEPT ![j] = "ok"]
        /\ snapshot' = [code |-> want[j].gen.code, revision |-> want[j].gen.revision,
                        content |-> content[j]]
        /\ at' = [at EXCEPT ![j] = "done"]
     \/ at' = [at EXCEPT ![j] = "failed"] /\ UNCHANGED <<outcome, snapshot>>
  /\ DropGuards(j) /\ worker' = Nobody
  /\ UNCHANGED <<remote, files, code, branch, writing, registry, canceled, content, past, since,
                 ticket>>

SendError(j) ==
  /\ Goes(j, "failed", "done")
  /\ outcome' = [outcome EXCEPT ![j] = "err"]
  /\ UNCHANGED <<remote, files, code, branch, guards, registry, canceled, worker, indexes,
                 since, ticket>>

JobStep(j) ==
  \/ Acquire(j) \/ Cancel(j) \/ Permit(j) \/ TakeGuards(j) \/ Check(j) \/ Build(j)
  \/ Publish(j) \/ SendError(j)

Next ==
  \/ Edit \/ Discover \/ Refresh \/ RefreshEnd
  \/ PrepareLock \/ PrepareState \/ PrepareEnd
  \/ \E q \in Queries : Start(q) \/ Leave(q)
  \/ Trim \/ Shutdown
  \/ \E j \in Jobs : JobStep(j)

Spec == Init /\ [][Next]_vars

-----------------------------------------------------------------------------
(* Properties                                                              *)

\* An index that is served describes the revision of the branch it was asked
\* for, although it was built with no lock held and may come from an earlier
\* job or from the cache, unless the branch has `returned` to the revision
\* meanwhile: the job compares revisions, and does not see what lay between.
BranchIndexTrue ==
  \A j \in Jobs : remote /\ outcome[j] = "ok" /\ j \notin returned =>
    content[j] = want[j].gen.revision

\* An index of a local directory describes files that were there after it was
\* asked for.
LocalIndexTrue ==
  \A j \in Jobs : ~remote /\ outcome[j] = "ok" => content[j] \in since[j]

\* When an index is published, nothing it depends on has moved and no later
\* job has been started.
PublishedCurrent ==
  \A j \in Jobs : outcome'[j] = "ok" /\ outcome[j] = "none" =>
    running = j /\ want[j].gen = Current /\ (remote => ~branch.repair /\ writing = Nobody)
PublishesCurrent == [][PublishedCurrent]_vars
=============================================================================
