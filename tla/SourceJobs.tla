----------------------------- MODULE SourceJobs ------------------------------
(***************************************************************************)
(* src/src/native/jobs.rs: the background jobs that index the native and   *)
(* the shader sources of a workspace.                                      *)
(*                                                                         *)
(* A query that has discovered the workspace starts a job for a group, or  *)
(* joins the one that runs.  A job belongs to a version of the group's     *)
(* sources (its generation); a newer one supersedes it, and inherits the   *)
(* mutex under which the group's store is written.                         *)
(*                                                                         *)
(* Abstracted: a batch is one file; the store of a group is the set of     *)
(* files it has bound and the manifest saved over them; progress counts.   *)
(* A query discovers and starts while it holds the workspace mutex, which  *)
(* is one step here; a job takes that mutex to publish.                    *)
(***************************************************************************)
EXTENDS Integers, FiniteSets

CONSTANTS
  Groups, Queries, Versions,
  Files,        \* of every group
  Listed(_),    \* files of a version of the sources
  Nobody,
  Workers,      \* permits of the extraction workers
  Tasks,        \* extraction tasks of a job at a time
  MaxJobs

Jobs == 1 .. MaxJobs

VARIABLES
  disk,     \* version of the sources on disk
  code,     \* version in the manifest of the code workspace
  count,    \* jobs started
  job,      \* job -> group, version and the writer mutex it was given
  at,       \* job -> where it is
  canceled, \* jobs whose token is cancelled
  running,  \* group -> its registered job
  writer,   \* writer mutex -> the job that holds it
  lock,     \* job that holds the workspace mutex
  batches,  \* job -> files no task was spawned for
  tasks,    \* job -> files whose task waits for a worker
  work,     \* job -> files an extraction worker has
  omitted,  \* job -> files that failed
  outcome,  \* job -> "none", "ok" or "err"
  bound,    \* group -> files bound in its store
  saved,    \* group -> manifest saved in its store
  ticket,   \* query -> job it waits for
  stopped   \* shutdown

sources == <<disk, code>>
registry == <<count, job, running>>
places == <<at, outcome>>
queue == <<batches, tasks, work, omitted>>
store == <<bound, saved>>
vars == <<sources, registry, places, canceled, writer, lock, queue, store, ticket, stopped>>

NoManifest == [version |-> Nobody, files |-> {}]

Init ==
  /\ disk \in Versions /\ code = disk
  /\ count = 0
  /\ job = [j \in Jobs |-> [group |-> CHOOSE g \in Groups : TRUE,
                            version |-> CHOOSE v \in Versions : TRUE, writer |-> j]]
  /\ at = [j \in Jobs |-> "idle"] /\ outcome = [j \in Jobs |-> "none"]
  /\ canceled = {}
  /\ running = [g \in Groups |-> Nobody]
  /\ writer = [j \in Jobs |-> Nobody] /\ lock = Nobody
  /\ batches = [j \in Jobs |-> {}] /\ tasks = [j \in Jobs |-> {}]
  /\ work = [j \in Jobs |-> {}] /\ omitted = [j \in Jobs |-> {}]
  /\ bound = [g \in Groups |-> {}] /\ saved = [g \in Groups |-> NoManifest]
  /\ ticket = [q \in Queries |-> Nobody]
  /\ stopped = FALSE

\* Somebody edits the sources.
Edit ==
  /\ \E v \in Versions \ {disk} : disk' = v
  /\ UNCHANGED <<code, registry, places, canceled, writer, lock, queue, store, ticket, stopped>>

\* A query discovers the workspace again, under its mutex.
Discover ==
  /\ lock = Nobody /\ code # disk
  /\ code' = disk
  /\ UNCHANGED <<disk, registry, places, canceled, writer, lock, queue, store, ticket, stopped>>

Joins(g) == running[g] # Nobody /\ job[running[g]].version = code
            /\ outcome[running[g]] # "err"

\* Mutant: a job that supersedes another gets a mutex of its own.
OwnWriter(g, j) == j

\* The writer mutex of the registered job, or a new one.
InheritedWriter(g, j) == IF running[g] = Nobody THEN j ELSE job[running[g]].writer

\* start(), under the workspace mutex.
Start(q, g) ==
  /\ lock = Nobody /\ ticket[q] = Nobody
  /\ IF Joins(g)
       THEN /\ ticket' = [ticket EXCEPT ![q] = running[g]]
            /\ UNCHANGED <<registry, canceled, at>>
       ELSE LET j == count + 1 IN
            /\ j \in Jobs
            /\ count' = j
            /\ job' = [job EXCEPT ![j] = [group |-> g, version |-> code,
                                          writer |-> InheritedWriter(g, j)]]
            /\ running' = [running EXCEPT ![g] = j]
            /\ canceled' = canceled \union (IF running[g] = Nobody THEN {} ELSE {running[g]})
                                    \union (IF stopped THEN {j} ELSE {})
            /\ at' = [at EXCEPT ![j] = "admission"]
            /\ ticket' = [ticket EXCEPT ![q] = j]
  /\ UNCHANGED <<sources, outcome, writer, lock, queue, store, stopped>>

\* The query leaves with the outcome, or because its client went away.
Leave(q) ==
  /\ ticket[q] # Nobody
  /\ ticket' = [ticket EXCEPT ![q] = Nobody]
  /\ UNCHANGED <<sources, registry, places, canceled, writer, lock, queue, store, stopped>>

\* Only what has an outcome, and nobody holds, is trimmed.
Idle(g) == outcome[running[g]] # "none" /\ \A q \in Queries : ticket[q] # running[g]

\* trim_to()
Trim(g) ==
  /\ running[g] # Nobody /\ Idle(g)
  /\ running' = [running EXCEPT ![g] = Nobody]
  /\ UNCHANGED <<sources, count, job, places, canceled, writer, lock, queue, store, ticket, stopped>>

Ended == {"idle", "done"}
\* Places where a job has given up its reference to the workspace.
Detached == Ended \union {"fail"}

\* forget(), whose callers have seen that nobody refers to the workspace; they
\* retire its store with it.
Forget(g) ==
  /\ running[g] # Nobody
  /\ \A j \in Jobs : at[j] \in Detached
  /\ \A q \in Queries : ticket[q] = Nobody
  /\ canceled' = canceled \union {running[g]}
  /\ running' = [running EXCEPT ![g] = Nobody]
  /\ bound' = [bound EXCEPT ![g] = {}]
  /\ saved' = [saved EXCEPT ![g] = NoManifest]
  /\ UNCHANGED <<sources, count, job, places, writer, lock, queue, ticket, stopped>>

\* shutdown(): the parent token of every job.
Shutdown ==
  /\ ~stopped /\ stopped' = TRUE
  /\ canceled' = Jobs
  /\ UNCHANGED <<sources, registry, places, writer, lock, queue, store, ticket>>

Goes(j, here, next) == at[j] = here /\ at' = [at EXCEPT ![j] = next]
Group(j) == job[j].group
Wanted(j) == Listed(job[j].version)

\* writer.lock_owned(): not given up when the job is cancelled.
Admit(j) ==
  /\ Goes(j, "admission", IF j \in canceled THEN "release"
                          ELSE IF Wanted(j) = {} THEN "empty" ELSE "lookup")
  /\ writer[job[j].writer] = Nobody
  /\ writer' = [writer EXCEPT ![job[j].writer] = j]
  /\ UNCHANGED <<sources, registry, outcome, canceled, lock, queue, store, ticket, stopped>>

\* A group without files is answered from the code workspace itself.
Empty(j) ==
  /\ lock = Nobody
  /\ at[j] = "empty" /\ at' = [at EXCEPT ![j] = "release"]
  /\ outcome' = [outcome EXCEPT ![j] = IF code = job[j].version THEN "ok" ELSE "none"]
  /\ UNCHANGED <<sources, registry, canceled, writer, lock, queue, store, ticket, stopped>>

\* The saved manifest of the same files is reused if they are still current.
Reusable(j) ==
  saved[Group(j)] = [version |-> job[j].version, files |-> Wanted(j)] /\ disk = job[j].version

Lookup(j) ==
  /\ \/ Reusable(j) /\ Goes(j, "lookup", "reused") /\ UNCHANGED batches
     \/ ~Reusable(j) /\ Goes(j, "lookup", "index")
        /\ batches' = [batches EXCEPT ![j] = Wanted(j)]
     \/ Goes(j, "lookup", "release") /\ UNCHANGED batches  \* the store fails
  /\ UNCHANGED <<sources, registry, outcome, canceled, writer, lock, tasks, work, omitted,
                 store, ticket, stopped>>

Spawn(j) ==
  /\ at[j] = "index" /\ j \notin canceled
  /\ Cardinality(tasks[j] \union work[j]) < Tasks
  /\ \E f \in batches[j] :
       /\ batches' = [batches EXCEPT ![j] = @ \ {f}]
       /\ tasks' = [tasks EXCEPT ![j] = @ \union {f}]
  /\ UNCHANGED <<sources, registry, places, canceled, writer, lock, work, omitted, store,
                 ticket, stopped>>

Busy == UNION {{<<j, f>> : f \in work[j]} : j \in Jobs}

TakeWorker(j) ==
  /\ Cardinality(Busy) < Workers
  /\ \E f \in tasks[j] :
       /\ tasks' = [tasks EXCEPT ![j] = @ \ {f}]
       /\ work' = [work EXCEPT ![j] = @ \union {f}]
  /\ UNCHANGED <<sources, registry, places, canceled, writer, lock, batches, omitted, store,
                 ticket, stopped>>

\* A task that waits for a worker gives up when the job is cancelled, and the
\* job fails with it.
GiveUp(j) ==
  /\ j \in canceled
  /\ \E f \in tasks[j] : tasks' = [tasks EXCEPT ![j] = @ \ {f}]
  /\ UNCHANGED <<sources, registry, places, canceled, writer, lock, batches, work, omitted,
                 store, ticket, stopped>>

\* Mutant: a file that could not be read stays in the manifest.
NothingOmitted(j, f) == UNCHANGED omitted

\* A file that fails is left out of the manifest, with a diagnostic.
Omits(j, f) == omitted' = [omitted EXCEPT ![j] = @ \union {f}]

\* An extraction ends: its file is bound in the store, failed on its own, or
\* the worker failed, which cancels the job.
Extract(j) ==
  /\ \E f \in work[j] :
       /\ work' = [work EXCEPT ![j] = @ \ {f}]
       /\ \/ bound' = [bound EXCEPT ![Group(j)] = @ \union {f}]
             /\ UNCHANGED <<omitted, canceled>>
          \/ Omits(j, f) /\ UNCHANGED <<bound, canceled>>
          \/ canceled' = canceled \union {j} /\ UNCHANGED <<omitted, bound>>
  /\ UNCHANGED <<sources, registry, places, writer, lock, batches, tasks, saved, ticket, stopped>>

\* Mutant: a cancelled job waits for the batches it no longer spawns.
EveryBatch(j) == batches[j] \union tasks[j] \union work[j] = {}

\* Every task was joined, and none is left to spawn.
Joined(j) == tasks[j] \union work[j] = {} /\ (batches[j] = {} \/ j \in canceled)

Drain(j) ==
  /\ Joined(j)
  /\ Goes(j, "index", IF j \in canceled THEN "release" ELSE "indexed")
  /\ batches' = [batches EXCEPT ![j] = {}]
  /\ UNCHANGED <<sources, registry, outcome, canceled, writer, lock, tasks, work, omitted, store,
                 ticket, stopped>>

\* Wait for the workspace mutex to publish.
Relock(j) ==
  /\ lock = Nobody /\ lock' = j
  /\ \/ Goes(j, "indexed", "publish") \/ Goes(j, "reused", "republish")
  /\ UNCHANGED <<sources, registry, outcome, canceled, writer, queue, store, ticket, stopped>>

\* Mutant: cancellation is not looked at again under the mutex.
NotMoved(j) == code = job[j].version /\ disk = job[j].version

Publishable(j) == j \notin canceled /\ code = job[j].version /\ disk = job[j].version

\* save_manifest() saves the manifest and detaches every other file.
Publish(j) ==
  /\ at[j] \in {"publish", "republish"}
  /\ at' = [at EXCEPT ![j] = "release"]
  /\ LET g == Group(j)
         kept == Wanted(j) \ omitted[j] IN
     \/ /\ Publishable(j)
        /\ outcome' = [outcome EXCEPT ![j] = "ok"]
        /\ IF at[j] = "republish"
             THEN UNCHANGED store
             ELSE /\ saved' = [saved EXCEPT ![g] = [version |-> job[j].version, files |-> kept]]
                  /\ bound' = [bound EXCEPT ![g] = @ \intersect kept]
     \/ UNCHANGED <<outcome, store>>  \* a check, or the store, fails
  /\ lock' = Nobody
  /\ UNCHANGED <<sources, registry, canceled, writer, queue, ticket, stopped>>

\* The end of the inner future returns the writer mutex; a failure is sent
\* after it.
Release(j) ==
  /\ at[j] = "release"
  /\ at' = [at EXCEPT ![j] = IF outcome[j] = "ok" THEN "done" ELSE "fail"]
  /\ writer' = [writer EXCEPT ![job[j].writer] = Nobody]
  /\ UNCHANGED <<sources, registry, outcome, canceled, lock, queue, store, ticket, stopped>>

SendError(j) ==
  /\ Goes(j, "fail", "done")
  /\ outcome' = [outcome EXCEPT ![j] = "err"]
  /\ UNCHANGED <<sources, registry, canceled, writer, lock, queue, store, ticket, stopped>>

JobStep(j) ==
  \/ Admit(j) \/ Empty(j) \/ Lookup(j) \/ Spawn(j) \/ TakeWorker(j) \/ GiveUp(j)
  \/ Extract(j) \/ Drain(j) \/ Relock(j) \/ Publish(j) \/ Release(j) \/ SendError(j)

Next ==
  \/ Edit \/ Discover \/ Shutdown
  \/ \E q \in Queries : Leave(q) \/ \E g \in Groups : Start(q, g)
  \/ \E g \in Groups : Trim(g) \/ Forget(g)
  \/ \E j \in Jobs : JobStep(j)

Spec == Init /\ [][Next]_vars

-----------------------------------------------------------------------------
(* Properties                                                              *)

TypeOK ==
  /\ disk \in Versions /\ code \in Versions
  /\ count \in 0 .. MaxJobs
  /\ job \in [Jobs -> [group : Groups, version : Versions, writer : Jobs]]
  /\ \A j \in Jobs :
       at[j] \in {"idle", "admission", "empty", "lookup", "reused", "index", "indexed",
                  "publish", "republish", "release", "fail", "done"}
  /\ outcome \in [Jobs -> {"none", "ok", "err"}]
  /\ canceled \subseteq Jobs
  /\ running \in [Groups -> Jobs \union {Nobody}]
  /\ writer \in [Jobs -> Jobs \union {Nobody}]
  /\ lock \in Jobs \union {Nobody}
  /\ batches \in [Jobs -> SUBSET Files] /\ tasks \in [Jobs -> SUBSET Files]
  /\ work \in [Jobs -> SUBSET Files] /\ omitted \in [Jobs -> SUBSET Files]
  /\ bound \in [Groups -> SUBSET Files]
  /\ saved \in [Groups -> [version : Versions \union {Nobody}, files : SUBSET Files]]
  /\ ticket \in [Queries -> Jobs \union {Nobody}]
  /\ stopped \in BOOLEAN

\* However jobs supersede each other, are trimmed or forgotten, one of a group
\* at a time has extractions in flight or a manifest to save: the store is not
\* safe for two.
Writing(j) == at[j] \in {"lookup", "index", "indexed", "publish"} \/ tasks[j] \union work[j] # {}
OneWriter ==
  \A j, k \in Jobs : Writing(j) /\ Writing(k) /\ Group(j) = Group(k) => j = k

\* A saved manifest lists only files the store still binds.
SavedBound == \A g \in Groups : saved[g].files \subseteq bound[g]

\* A job that publishes is the registered one: a superseded job never
\* publishes over its successor.
NeverOver ==
  [][\A j \in Jobs : outcome'[j] = "ok" /\ outcome[j] = "none" /\ at[j] # "empty"
        => running[Group(j)] = j]_vars
=============================================================================
