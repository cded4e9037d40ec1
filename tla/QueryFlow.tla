------------------------------ MODULE QueryFlow ------------------------------
(***************************************************************************)
(* src/src/service.rs and src/src/service/preparation.rs: queries share    *)
(* the preparation job of a workspace, wait for it with no lock held, and  *)
(* are admitted to a worker together with the locks.                       *)
(*                                                                         *)
(* The workspace mutex is taken before the analysis lock of the branch.    *)
(* A publication of the branch takes the analysis lock for writing.        *)
(*                                                                         *)
(* Abstracted: the sources of a workspace are a version; a branch changes  *)
(* them in a publication, a local directory at any time.  A version is     *)
(* also the revision a branch reports.  Permits of the preparation workers *)
(* are shared with other workspaces, so they may be free or not at any     *)
(* time.  Deadlines only end a wait early and are left out; so is the      *)
(* state lock of the branch, which navigation alone takes by itself.       *)
(***************************************************************************)
EXTENDS Integers, FiniteSets

CONSTANTS
  Queries,
  Nobody,
  Preparer, Refresher,
  Workers,    \* permits of the query workers
  MaxVersion, \* publications or edits
  MaxQueries

Versions == 0 .. MaxVersion

VARIABLES
  branched, \* the workspace is a branch of a repository
  disk,     \* version of the sources
  gen,      \* generation of the branch
  repair,   \* its repair marker
  code,     \* version of the manifest of the workspace, or Nobody
  progress, \* what the preparation job has sent
  at,       \* actor -> where it is
  plan,     \* version and generation the preparation has planned
  required, \* a preparation still asks for inputs
  lock,     \* who holds the workspace mutex
  analysis, \* who holds the analysis lock for reading
  writer,   \* who holds it for writing
  permits,  \* who holds a permit of the query workers
  sees,     \* query -> version, revision and generation it has captured
  since,    \* query -> versions there were since it arrived
  answer,   \* query -> version evaluated and revision reported, or Nobody
  asked     \* queries that arrived

sources == <<branched, disk, gen, repair>>
locks == <<lock, analysis, writer>>
results == <<sees, answer>>
vars == <<sources, code, progress, at, plan, required, locks, permits, results, since, asked>>

Actors == Queries \union {Preparer, Refresher}
NoProgress == [kind |-> "none", version |-> Nobody, gen |-> 0]

Init ==
  /\ branched \in BOOLEAN /\ disk = 0 /\ gen = 0 /\ repair = FALSE
  /\ code = Nobody /\ progress = NoProgress
  /\ at = [a \in Actors |-> "idle"]
  /\ plan = [version |-> Nobody, gen |-> 0] /\ required = FALSE
  /\ lock = Nobody /\ analysis = {} /\ writer = Nobody /\ permits = {}
  /\ sees = [q \in Queries |-> [code |-> Nobody, revision |-> 0, gen |-> 0]]
  /\ since = [q \in Queries |-> {}]
  /\ answer = [q \in Queries |-> Nobody]
  /\ asked = 0

Waiting == {q \in Queries : at[q] # "idle"}
Moves(v) ==
  /\ disk' = v
  /\ since' = [q \in Queries |-> IF q \in Waiting THEN since[q] \union {v} ELSE since[q]]

Goes(a, here, next) == at[a] = here /\ at' = [at EXCEPT ![a] = next]
Keeps == UNCHANGED <<sources, since>>

Edit ==
  /\ ~branched /\ disk < MaxVersion
  /\ Moves(disk + 1)
  /\ UNCHANGED <<branched, gen, repair, code, progress, at, plan, required, locks, permits, results, asked>>

-----------------------------------------------------------------------------
(* Publications of the branch                                              *)

RefreshLock ==
  /\ branched /\ disk < MaxVersion
  /\ writer = Nobody /\ analysis = {}
  /\ Goes(Refresher, "idle", "placing") /\ writer' = Refresher
  /\ repair' = TRUE /\ Moves(disk + 1)
  /\ UNCHANGED <<branched, gen, code, progress, plan, required, lock, analysis, permits, results,
                 asked>>

\* The files are placed; or not, and the marker stays.
RefreshEnd ==
  /\ Goes(Refresher, "placing", "idle") /\ writer' = Nobody
  /\ \/ repair' = FALSE /\ gen' = gen + 1
     \/ UNCHANGED <<gen, repair>>
  /\ UNCHANGED <<branched, disk, since, code, progress, plan, required, lock, analysis, permits,
                 results, asked>>

-----------------------------------------------------------------------------
(* The preparation job                                                     *)

Current(v) == v = disk  \* the watched files are as the inventory has them

\* needs_refresh()
NeedsRefresh ==
  CASE progress.kind = "ready" -> (branched /\ progress.gen # gen) \/ ~Current(progress.version)
    [] progress.kind \in {"none", "failed"} -> TRUE
    [] OTHER -> FALSE

Send(kind, v, g) == progress' = [kind |-> kind, version |-> v, gen |-> g]

\* Wait for the branch, then for the discovery; a wait for a permit drops the
\* locks, and who gets one then and finds a lock taken waits for the lock.
PrepareLock ==
  /\ lock = Nobody /\ lock' = Preparer
  /\ Goes(Preparer, "admission", "analyze") \/ Goes(Preparer, "admission 2", "analyze 2")
  /\ Keeps /\ UNCHANGED <<code, progress, plan, required, analysis, writer, permits, results, asked>>

PrepareAnalyze ==
  /\ writer = Nobody
  /\ Goes(Preparer, "analyze", "discover") \/ Goes(Preparer, "analyze 2", "index")
  /\ analysis' = IF branched THEN analysis \union {Preparer} ELSE analysis
  /\ Keeps /\ UNCHANGED <<code, progress, plan, required, lock, writer, permits, results, asked>>

PrepareDrops == lock' = Nobody /\ analysis' = analysis \ {Preparer}

\* No permit was free.
PrepareQueues ==
  /\ Goes(Preparer, "discover", "admission") \/ Goes(Preparer, "index", "admission 2")
  /\ PrepareDrops
  /\ Keeps /\ UNCHANGED <<code, progress, plan, required, writer, permits, results, asked>>

PrepareFails ==
  /\ at[Preparer] \in {"discover", "index", "require", "acquire"}
  /\ at' = [at EXCEPT ![Preparer] = "idle"]
  /\ LET files == progress.kind = "files" IN
     Send("failed", IF files THEN progress.version ELSE Nobody, 0)
  /\ PrepareDrops
  /\ Keeps /\ UNCHANGED <<code, plan, required, writer, permits, results, asked>>

\* ready() of the branch has returned.
Acquired ==
  /\ Goes(Preparer, "acquire", "admission")
  /\ Keeps
  /\ UNCHANGED <<code, progress, plan, required, locks, permits, results, asked>>

Discover ==
  /\ at[Preparer] = "discover" /\ ~repair
  /\ \/ /\ required /\ branched   \* RequiredInputs
        /\ at' = [at EXCEPT ![Preparer] = "require"]
        /\ PrepareDrops
        /\ Send("pending", Nobody, 0) /\ UNCHANGED plan
     \/ /\ ~required /\ code = disk  \* nothing has changed
        /\ at' = [at EXCEPT ![Preparer] = "indexed"]
        /\ UNCHANGED <<lock, analysis, progress, plan>>
     \/ /\ ~required /\ code # disk
        /\ at' = [at EXCEPT ![Preparer] = "admission 2"]
        /\ plan' = [version |-> disk, gen |-> gen]
        /\ Send("files", disk, 0)
        /\ PrepareDrops
  /\ Keeps /\ UNCHANGED <<code, required, writer, permits, results, asked>>

\* require_inputs() publishes the branch again, with what was missing.
RequireInputs ==
  /\ Goes(Preparer, "require", "admission")
  /\ writer = Nobody /\ analysis = {}
  /\ required' = FALSE
  /\ gen' = gen + 1
  /\ UNCHANGED <<branched, disk, repair, since, code, progress, plan, locks, permits, results,
                 asked>>

\* Mutant: what was published while indexing was queued is not noticed.
AnyPlan == plan.gen <= gen

\* The branch is still the one that was planned for, and the files too.
PlanCurrent == (branched => plan.gen = gen) /\ Current(plan.version)

Index ==
  /\ at[Preparer] = "index"
  /\ \/ /\ PlanCurrent
        /\ code' = plan.version
        /\ at' = [at EXCEPT ![Preparer] = "indexed"]
        /\ UNCHANGED <<lock, analysis, progress>>
     \/ /\ ~PlanCurrent
        /\ at' = [at EXCEPT ![Preparer] = "admission"]
        /\ Send("pending", Nobody, 0)
        /\ PrepareDrops /\ UNCHANGED code
  /\ Keeps /\ UNCHANGED <<plan, required, writer, permits, results, asked>>

\* Mutant: the analysis lock is kept to the end of the job.
KeepsReading == UNCHANGED analysis

\* The generation is noted and the analysis lock dropped, the mutex is kept.
DropsReading == analysis' = analysis \ {Preparer}

Unlock ==
  /\ Goes(Preparer, "indexed", "mark")
  /\ plan' = [version |-> code, gen |-> gen]
  /\ DropsReading
  /\ Keeps /\ UNCHANGED <<code, progress, required, lock, writer, permits, results, asked>>

\* publish(): waits for the analyses that run; then the job is ready.
Mark ==
  /\ Goes(Preparer, "mark", "idle")
  /\ writer = Nobody /\ (branched => analysis = {})
  /\ Send("ready", plan.version, plan.gen)
  /\ lock' = Nobody
  /\ Keeps
  /\ UNCHANGED <<code, plan, required, analysis, writer, permits, results, asked>>

-----------------------------------------------------------------------------
(* Queries                                                                 *)

Ask(q) ==
  /\ asked < MaxQueries /\ asked' = asked + 1
  /\ Goes(q, "idle", "prepare")
  /\ since' = [since EXCEPT ![q] = {disk}]
  /\ answer' = [answer EXCEPT ![q] = Nobody]
  /\ UNCHANGED <<sources, code, progress, plan, required, locks, permits, sees>>

\* Join the job of the workspace, or start one.
Prepare(q) ==
  /\ at[q] = "prepare"
  /\ IF NeedsRefresh
       THEN /\ at' = [at EXCEPT ![q] = "inventory",
                                ![Preparer] = IF branched THEN "acquire" ELSE "admission"]
            /\ Send("pending", Nobody, 0)
            /\ required' \in {FALSE, branched}
       ELSE at' = [at EXCEPT ![q] = "inventory"] /\ UNCHANGED <<progress, required>>
  /\ Keeps /\ UNCHANGED <<code, plan, locks, permits, results, asked>>

\* Mutant: the inventory of a job that began before the query is good enough.
AnyInventory(q) == at' = [at EXCEPT ![q] = "complete"]

\* An inventory that changed since is drained, and another prepared.
Validated(q) == at' = [at EXCEPT ![q] = IF Current(progress.version) THEN "complete" ELSE "drain"]

Inventory(q) ==
  /\ at[q] = "inventory"
  /\ progress.kind # "pending"
  /\ IF progress.version = Nobody THEN at' = [at EXCEPT ![q] = "idle"] ELSE Validated(q)
  /\ Keeps /\ UNCHANGED <<code, progress, plan, required, locks, permits, results, asked>>

Drain(q) ==
  /\ Goes(q, "drain", "prepare") /\ progress.kind \in {"ready", "failed"}
  /\ Keeps /\ UNCHANGED <<code, progress, plan, required, locks, permits, results, asked>>

Complete(q) ==
  /\ at[q] = "complete" /\ progress.kind \in {"ready", "failed"}
  /\ at' = [at EXCEPT ![q] = IF progress.kind = "ready" THEN "lock" ELSE "idle"]
  /\ Keeps /\ UNCHANGED <<code, progress, plan, required, locks, permits, results, asked>>

Lock(q) ==
  /\ lock = Nobody /\ lock' = q
  /\ Goes(q, "lock", "analyze") \/ Goes(q, "admission", "admit")
  /\ Keeps /\ UNCHANGED <<code, progress, plan, required, analysis, writer, permits, results, asked>>

Analyze(q) ==
  /\ writer = Nobody
  /\ Goes(q, "analyze", "capture") \/ Goes(q, "admit", "permit")
  /\ analysis' = IF branched THEN analysis \union {q} ELSE analysis
  /\ Keeps /\ UNCHANGED <<code, progress, plan, required, lock, writer, permits, results, asked>>

Drops(q) == lock' = Nobody /\ analysis' = analysis \ {q}

View == [code |-> code, revision |-> disk, gen |-> gen]

\* Note what there is, start the index jobs, and wait for them without locks.
Capture(q) ==
  /\ Goes(q, "capture", "admission")
  /\ sees' = [sees EXCEPT ![q] = View]
  /\ Drops(q)
  /\ Keeps /\ UNCHANGED <<code, progress, plan, required, writer, permits, answer, asked>>

\* try_acquire_owned(), else queue for a permit without the locks.
TryPermit(q) ==
  /\ IF Cardinality(permits) < Workers
       THEN Goes(q, "permit", "evaluate") /\ permits' = permits \union {q}
            /\ UNCHANGED <<lock, analysis>>
       ELSE Goes(q, "permit", "queue") /\ Drops(q) /\ UNCHANGED permits
  /\ Keeps /\ UNCHANGED <<code, progress, plan, required, writer, results, asked>>

Queue(q) ==
  /\ Cardinality(permits) < Workers
  /\ Goes(q, "queue", "try") /\ permits' = permits \union {q}
  /\ Keeps /\ UNCHANGED <<code, progress, plan, required, locks, results, asked>>

\* Both locks at once, or the permit goes back.
TryLocks(q) ==
  /\ IF lock = Nobody /\ writer = Nobody
       THEN /\ Goes(q, "try", "evaluate") /\ lock' = q
            /\ analysis' = IF branched THEN analysis \union {q} ELSE analysis
            /\ UNCHANGED permits
       ELSE /\ Goes(q, "try", "admission") /\ permits' = permits \ {q}
            /\ UNCHANGED <<lock, analysis>>
  /\ Keeps /\ UNCHANGED <<code, progress, plan, required, writer, results, asked>>

\* Mutant: only the workspace is compared with what was captured.
SameManifest(q) == sees[q].code = code

\* What was captured is still there.
Unmoved(q) ==
  /\ sees[q].code = code
  /\ branched => sees[q].revision = disk /\ sees[q].gen = gen /\ ~repair

\* Pin the snapshot, drop the mutex, and keep the branch until the answer.
Evaluate(q) ==
  /\ at[q] = "evaluate"
  /\ IF Unmoved(q)
       THEN /\ at' = [at EXCEPT ![q] = "answer"]
            /\ answer' = [answer EXCEPT ![q] = [code |-> code, revision |-> sees[q].revision]]
            /\ UNCHANGED <<analysis, permits>>
       ELSE /\ at' = [at EXCEPT ![q] = "idle"]
            /\ analysis' = analysis \ {q} /\ permits' = permits \ {q}
            /\ UNCHANGED answer
  /\ lock' = Nobody
  /\ Keeps /\ UNCHANGED <<code, progress, plan, required, writer, sees, asked>>

Answer(q) ==
  /\ Goes(q, "answer", "idle")
  /\ analysis' = analysis \ {q} /\ permits' = permits \ {q}
  /\ Keeps /\ UNCHANGED <<code, progress, plan, required, lock, writer, results, asked>>

\* The client goes away at an await; what was held is dropped.
Abandon(q) ==
  /\ at[q] \notin {"idle", "evaluate", "answer"}
  /\ at' = [at EXCEPT ![q] = "idle"]
  /\ lock' = IF lock = q THEN Nobody ELSE lock
  /\ analysis' = analysis \ {q} /\ permits' = permits \ {q}
  /\ Keeps /\ UNCHANGED <<code, progress, plan, required, writer, results, asked>>

PreparerStep ==
  \/ Acquired \/ PrepareLock \/ PrepareAnalyze \/ Discover \/ RequireInputs
  \/ Index \/ Unlock \/ Mark \/ PrepareFails

QueryStep(q) ==
  \/ Prepare(q) \/ Inventory(q) \/ Drain(q) \/ Complete(q) \/ Lock(q) \/ Analyze(q)
  \/ Capture(q) \/ TryPermit(q) \/ Queue(q) \/ TryLocks(q) \/ Evaluate(q) \/ Answer(q)

Next ==
  \/ Edit \/ RefreshLock \/ RefreshEnd
  \/ PreparerStep \/ PrepareQueues
  \/ \E q \in Queries : Ask(q) \/ Abandon(q) \/ QueryStep(q)

Spec == Init /\ [][Next]_vars

-----------------------------------------------------------------------------
(* Properties                                                              *)

TypeOK ==
  /\ disk \in Versions /\ gen \in Nat /\ repair \in BOOLEAN
  /\ code \in Versions \union {Nobody}
  /\ progress.kind \in {"none", "pending", "files", "ready", "failed"}
  /\ lock \in {Nobody, Preparer} \union Queries
  /\ analysis \subseteq Queries \union {Preparer}
  /\ writer \in {Nobody, Refresher} /\ (writer # Nobody => analysis = {})
  /\ permits \subseteq Queries /\ Cardinality(permits) <= Workers
  /\ required \in BOOLEAN /\ asked \in 0 .. MaxQueries

\* A query is answered from sources that were there after it arrived, although
\* it shares a job that may have begun before and waits without locks.
SeesOwnEdits == \A q \in Queries : answer[q] # Nobody => answer[q].code \in since[q]

\* A job that is ready at a generation has indexed what the branch had at it.
ReadyTrue ==
  branched /\ progress.kind = "ready" /\ progress.gen = gen /\ ~repair => progress.version = disk

\* While a query evaluates, the branch is as it was when its jobs were started.
StillWhileEvaluated ==
  \A q \in Queries : at[q] = "answer" /\ branched =>
    /\ ~repair /\ sees[q].revision = disk /\ sees[q].gen = gen

\* The index that is evaluated was made of the revision the answer reports.
OneRevision == \A q \in Queries : answer[q] # Nobody /\ branched => answer[q].code = answer[q].revision
=============================================================================
