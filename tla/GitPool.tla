------------------------------ MODULE GitPool ------------------------------
(***************************************************************************)
(* The shared Git object pool of one repository: src/src/repository/cache.rs *)
(* together with the offline rebuild of src/src/repository/rebuild.rs.     *)
(*                                                                         *)
(* A pool is a directory.  "current" is the live bare store, "previous" the *)
(* backup that exists only while a rebuilt store is swapped in, and        *)
(* history.json claims which history objects the current store holds.      *)
(* Every change of a store is made under the pool's operation mutex; what  *)
(* runs WITHOUT it is the interesting part: publication of selectors,      *)
(* release of pins, objects retained by readers, and the shared selector   *)
(* scan of maintenance, which is revalidated by the generation number kept *)
(* inside the mutex.                                                       *)
(*                                                                         *)
(* Data is abstracted: Git objects and the trees they close over are       *)
(* members of Objects, times ("due", "idle", "retry after") are free       *)
(* choices, and the hash of a retention is the retention itself.           *)
(***************************************************************************)
EXTENDS Naturals, FiniteSets

CONSTANTS
    Objects,     \* Git objects, snapshot and history alike
    Branches,    \* selectors of this repository, each with a state.json
    Packages,    \* package acquisitions: they pin, but persist no selector
    Readers,     \* history readers, each with at most one object lease
    Collectors,  \* maintenance passes over the pools
    Gids,        \* contents of sigla-generation files
    MaxGen,      \* u64::MAX in the code
    NoGid, NoStore, NoFile, NoHash, NoSnapshot, Free

Acquirers == Branches \cup Packages
Actors == Acquirers \cup Readers \cup Collectors

Store == [objs : SUBSET Objects, complete : BOOLEAN, gid : Gids \cup {NoGid}]
Coverage == [gid : Gids, objs : SUBSET Objects]
Retention == [snapshot : SUBSET Objects, history : SUBSET Objects]
Captured == [snapshot : SUBSET Objects, history : SUBSET Objects, carry : BOOLEAN]
Snapshots == [gen : Nat, roots : SUBSET Objects, todo : SUBSET Branches]
Phases == {"idle", "begin", "recover", "ready", "capture", "decide", "staged",
           "swapped", "installed", "replaced", "recorded", "repair", "job", "pinned",
           "linked", "removing"}

ASSUME ActorAssumption ==
    /\ \A a \in Acquirers : a \notin Readers \cup Collectors
    /\ Readers \cap Collectors = {}
    /\ Branches \cap Packages = {}
    /\ Free \notin Actors
ASSUME AbsenceAssumption ==
    /\ NoGid \notin Gids
    /\ NoStore \notin Store
    /\ \A objs \in SUBSET Objects : NoStore # objs
    /\ NoFile \notin Coverage
    /\ NoHash \notin Retention
    /\ NoFile \notin Retention /\ NoFile # NoHash
    /\ NoSnapshot \notin Snapshots
ASSUME GenAssumption == MaxGen \in Nat

VARIABLES
    op,        \* holder of Pool::operation
    phase,     \* how far that holder is
    force,     \* the holder is a pressure pass
    cap, todo, \* the retention it captures, and the selectors left to visit
    gen,       \* the u64 inside the mutex
    current, previous, staged,   \* the stores on disk
    history, poolJson,           \* history.json, and "retained" of pool.json
    pinned,    \* per acquisition, the objects of its live Pin
    persisted, \* per branch, the objects its state.json selects
    lease, held, view,           \* per reader: lease, retained ids, directory
    snap       \* per collector, its Snapshot

lockVars == <<op, phase, force, cap, todo>>
diskVars == <<current, previous, staged, history, poolJson>>
pinVars == <<pinned, persisted>>
readerVars == <<lease, held, view>>
vars == <<lockVars, gen, diskVars, pinVars, readerVars, snap>>

EmptyCap == [snapshot |-> {}, history |-> {}, carry |-> FALSE]

LockOK ==
    /\ op \in Actors \cup {Free}
    /\ phase \in Phases
    /\ force \in BOOLEAN
    /\ cap \in Captured
    /\ todo \in SUBSET Branches

DiskOK ==
    /\ current \in Store \cup {NoStore}
    /\ previous \in Store \cup {NoStore}
    /\ staged \in Store \cup {NoStore}
    /\ history \in Coverage \cup {NoFile}
    /\ poolJson \in Retention \cup {NoHash, NoFile}

PinOK ==
    /\ pinned \in [Acquirers -> SUBSET Objects]
    /\ persisted \in [Branches -> SUBSET Objects]

ReaderOK ==
    /\ lease \in [Readers -> BOOLEAN]
    /\ held \in [Readers -> SUBSET Objects]
    /\ view \in [Readers -> (SUBSET Objects) \cup {NoStore}]

TypeOK ==
    /\ LockOK /\ DiskOK /\ PinOK /\ ReaderOK
    /\ gen \in Nat
    /\ snap \in [Collectors -> Snapshots \cup {NoSnapshot}]

-----------------------------------------------------------------------------
\* The objects of every live pin, and of every persisted selector.
Pins == UNION {pinned[a] : a \in Acquirers}
Selected == UNION {persisted[b] : b \in Branches}
Rooted == Pins \cup Selected

Active == \E r \in Readers : lease[r]
ReaderRoots == UNION {held[r] : r \in {q \in Readers : lease[q]}}

\* history_coverage: a claim counts only for the store whose id it names.
ValidCoverage ==
    /\ history # NoFile
    /\ current # NoStore
    /\ current.gid = history.gid
Covered == IF ValidCoverage THEN history.objs ELSE {}

\* The store recover() leaves as "current".
Usable ==
    IF previous # NoStore /\ (current = NoStore \/ ~current.complete)
    THEN previous.objs
    ELSE IF current = NoStore THEN {} ELSE current.objs

\* A generation id is the hash of a unique path: none that anything names.
FreshGid(g) ==
    /\ g \in Gids
    /\ \A s \in {current, previous, staged} : s # NoStore => s.gid # g
    /\ history # NoFile => history.gid # g

\* generation(store) reads the id and creates it once.
WithGid(s, g) == IF s.gid = NoGid THEN [s EXCEPT !.gid = g] ELSE s
GidChoice(s, g) == IF s.gid = NoGid THEN FreshGid(g) ELSE g = s.gid

NewStore == [objs |-> {}, complete |-> FALSE, gid |-> NoGid]
Inited(s) == IF s = NoStore THEN NewStore ELSE s
Adding(s, more) == [s EXCEPT !.objs = @ \cup more]

\* state(): the clock of a pool is persisted as soon as it is read.
Opened == IF poolJson = NoFile THEN NoHash ELSE poolJson
\* Mutant: the hash covers bookkeeping that is not part of the retention.
RetentionHashOfAll == cap
RetentionHash == [snapshot |-> cap.snapshot, history |-> cap.history]

-----------------------------------------------------------------------------
Init ==
    /\ op = Free /\ phase = "idle" /\ force = FALSE
    /\ cap = EmptyCap /\ todo = {}
    /\ gen = 0
    /\ current = NoStore /\ previous = NoStore /\ staged = NoStore
    /\ history = NoFile /\ poolJson = NoFile
    /\ pinned = [a \in Acquirers |-> {}]
    /\ persisted = [b \in Branches |-> {}]
    /\ lease = [r \in Readers |-> FALSE]
    /\ held = [r \in Readers |-> {}]
    /\ view = [r \in Readers |-> NoStore]
    /\ snap = [c \in Collectors |-> NoSnapshot]

-----------------------------------------------------------------------------
(* The operation mutex                                                     *)

Lock(h, at) == op = Free /\ op' = h /\ phase' = at

Release ==
    /\ op' = Free /\ phase' = "idle" /\ force' = FALSE
    /\ cap' = EmptyCap /\ todo' = {}

Goto(at) == phase' = at /\ UNCHANGED <<op, force, cap, todo>>

\* maybe_rebuild returns: an acquisition goes on to its job, maintenance ends.
EndRebuild ==
    \/ op \in Acquirers /\ Goto("job")
    \/ op \in Collectors /\ Release

\* An error: the guard, and a collector's snapshot, are dropped with "?".
Abort ==
    /\ phase \in {"begin", "recover", "ready", "capture", "decide", "repair",
                  "recorded", "linked", "removing"}
    /\ Release
    /\ snap' = [c \in Collectors |-> IF c = op THEN NoSnapshot ELSE snap[c]]
    /\ UNCHANGED <<gen, diskVars, pinVars, readerVars>>

-----------------------------------------------------------------------------
(* recover(), called first by every operation and after a failed rebuild   *)

AfterRecover ==
    \/ phase = "recover" /\ Goto("ready")
    \/ phase = "repair" /\ EndRebuild

Recovering == phase \in {"recover", "repair"}

RecoverNothing ==
    /\ Recovering /\ previous = NoStore
    /\ AfterRecover
    /\ UNCHANGED <<gen, diskVars, pinVars, readerVars, snap>>

\* The new store is validated: the backup goes, file by file.
RecoverDrop ==
    /\ Recovering /\ previous # NoStore /\ current # NoStore
    /\ current.complete
    /\ \/ \E part \in (SUBSET previous.objs) \ {previous.objs} :
             /\ previous' = [previous EXCEPT !.objs = part]
             /\ UNCHANGED lockVars
       \/ previous' = NoStore /\ AfterRecover
    /\ UNCHANGED <<gen, current, staged, history, poolJson, pinVars, readerVars, snap>>

\* A current store without its marker is set aside; the backup comes back.
RecoverAside ==
    /\ Recovering /\ previous # NoStore /\ current # NoStore
    /\ ~current.complete
    /\ current' = NoStore
    /\ UNCHANGED <<lockVars, gen, previous, staged, history, poolJson, pinVars, readerVars, snap>>

RecoverRename ==
    /\ Recovering /\ previous # NoStore /\ current = NoStore
    /\ current' = previous /\ previous' = NoStore
    /\ AfterRecover
    /\ UNCHANGED <<gen, staged, history, poolJson, pinVars, readerVars, snap>>

-----------------------------------------------------------------------------
(* Acquisition: begin, git, pin, publication of the selector               *)

Begin(a) ==
    /\ Lock(a, "begin")
    /\ UNCHANGED <<force, cap, todo, gen, diskVars, pinVars, readerVars, snap>>

\* Mutant: only an acquisition that succeeds invalidates earlier snapshots.
GitStartSilent(a) ==
    /\ op = a /\ phase \in {"begin", "pinned"}
    /\ Goto("recover")
    /\ UNCHANGED <<gen, diskVars, pinVars, readerVars, snap>>
\* git(): even a failed acquisition invalidates earlier snapshots.  A cold
\* refresh calls it twice under one turn.
GitStart(a) ==
    /\ op = a /\ phase \in {"begin", "pinned"}
    /\ gen < MaxGen
    /\ gen' = gen + 1
    /\ Goto("recover")
    /\ UNCHANGED <<diskVars, pinVars, readerVars, snap>>

\* maybe_rebuild, not due: straight to the job.
GitReady(a) ==
    /\ op = a /\ phase = "ready"
    /\ poolJson' = Opened
    /\ Goto("job")
    /\ UNCHANGED <<gen, current, previous, staged, history, pinVars, readerVars, snap>>

\* selector_roots, first half: pins BEFORE selectors.
CapturePins ==
    /\ cap' = [EmptyCap EXCEPT !.snapshot = Pins]
    /\ todo' = Branches
    /\ phase' = "capture"
    /\ UNCHANGED <<op, force>>

GitCapture(a) ==
    /\ op = a /\ phase = "ready" /\ current # NoStore
    /\ poolJson' = Opened
    /\ CapturePins
    /\ UNCHANGED <<gen, current, previous, staged, history, pinVars, readerVars, snap>>

\* The job's subprocess fetches into current and names what it prepared; a
\* file reused from the alias cache is prepared but never enters the store.
GitJob(a) ==
    /\ op = a /\ phase = "job"
    /\ \E fetched \in SUBSET Objects, prepared \in (SUBSET Objects) \ {{}} :
          /\ current' = Adding(Inited(current), fetched)
          /\ pinned' = [pinned EXCEPT ![a] = @ \cup prepared]
    /\ poolJson' = NoHash
    /\ Goto("pinned")
    /\ UNCHANGED <<gen, previous, staged, history, persisted, readerVars, snap>>

\* Mutant: a failed job is tried again under the same turn.
GitFailRetry(a) ==
    /\ op = a /\ phase = "job"
    /\ Goto("ready")
    /\ UNCHANGED <<gen, diskVars, pinVars, readerVars, snap>>
\* A job that fails, or is killed at its deadline, may have fetched anyway.
GitFail(a) ==
    /\ op = a /\ phase = "job"
    /\ \/ UNCHANGED current
       \/ \E fetched \in SUBSET Objects : current' = Adding(Inited(current), fetched)
    /\ Release
    /\ UNCHANGED <<gen, previous, staged, history, poolJson, pinVars, readerVars, snap>>

EndTurn(a) ==
    /\ op = a /\ phase = "pinned"
    /\ Release
    /\ UNCHANGED <<gen, diskVars, pinVars, readerVars, snap>>

\* refresh and extend_inputs persist the selector while they hold the pin
\* and no operation lock; an extension keeps what was selected before.
Publish(b) ==
    /\ op # b /\ pinned[b] # {}
    /\ \E root \in (SUBSET pinned[b]) \ {{}}, kept \in {{}, persisted[b]} :
          persisted' = [persisted EXCEPT ![b] = root \cup kept]
    /\ UNCHANGED <<lockVars, gen, diskVars, pinned, readerVars, snap>>

\* The refresh returns, or its publication is abandoned.
Unpin(a) ==
    /\ op # a /\ pinned[a] # {}
    /\ pinned' = [pinned EXCEPT ![a] = {}]
    /\ UNCHANGED <<lockVars, gen, diskVars, persisted, readerVars, snap>>

\* Retirement renames the branch root away, state.json with it.
Retire(b) ==
    /\ persisted[b] # {}
    /\ persisted' = [persisted EXCEPT ![b] = {}]
    /\ UNCHANGED <<lockVars, gen, diskVars, pinned, readerVars, snap>>

-----------------------------------------------------------------------------
(* Object leases of history readers                                        *)

OpenLock(r) ==
    /\ ~lease[r]
    /\ Lock(r, "recover")
    /\ UNCHANGED <<force, cap, todo, gen, diskVars, pinVars, readerVars, snap>>

\* object_lease: views left by a crash go when no reader is registered; the
\* new view hard-links every object of current; coverage starts out empty.
OpenViewSweeping(r, live) ==
    /\ op = r /\ phase = "ready" /\ ~lease[r]
    /\ \E g \in Gids :
          /\ GidChoice(Inited(current), g)
          /\ current' = WithGid(Inited(current), g)
          /\ history' = IF ValidCoverage THEN history ELSE [gid |-> g, objs |-> {}]
    /\ view' = [q \in Readers |->
                  IF q = r THEN current'.objs
                  ELSE IF live THEN view[q] ELSE NoStore]
    /\ lease' = [lease EXCEPT ![r] = TRUE]
    /\ held' = [held EXCEPT ![r] = {}]
    /\ poolJson' = Opened
    /\ Release
    /\ UNCHANGED <<gen, previous, staged, pinVars, snap>>
\* Mutant: views are swept whether or not another reader is registered.
OpenViewAlwaysSweeps(r) == OpenViewSweeping(r, FALSE)
OpenView(r) == OpenViewSweeping(r, Active)

\* An error after init(current), before the reader is registered: the store,
\* the sweep and the empty coverage may have been written by then.
OpenFail(r) ==
    /\ op = r /\ phase = "ready" /\ ~lease[r]
    /\ \E g \in Gids :
          /\ GidChoice(Inited(current), g)
          /\ \/ current' = Inited(current) /\ UNCHANGED <<history, view>>
             \/ /\ current' = WithGid(Inited(current), g)
                /\ history' \in {history,
                      IF ValidCoverage THEN history ELSE [gid |-> g, objs |-> {}]}
                /\ view' = IF Active THEN view ELSE [q \in Readers |-> NoStore]
    /\ poolJson' = Opened
    /\ Release
    /\ UNCHANGED <<gen, previous, staged, pinVars, lease, held, snap>>

FetchLock(r) ==
    /\ lease[r]
    /\ Lock(r, "recover")
    /\ UNCHANGED <<force, cap, todo, gen, diskVars, pinVars, readerVars, snap>>

\* ObjectLease::acquire: fetch into current, then link it into the view.
Fetch(r) ==
    /\ op = r /\ phase = "ready" /\ lease[r] /\ current # NoStore
    /\ \E fetched \in SUBSET Objects : current' = Adding(current, fetched)
    /\ view' = [view EXCEPT ![r] = @ \cup current'.objs]
    /\ poolJson' = NoHash
    /\ Release
    /\ UNCHANGED <<gen, previous, staged, history, pinVars, lease, held, snap>>

FetchFail(r) ==
    /\ op = r /\ phase = "ready" /\ lease[r] /\ current # NoStore
    /\ \E fetched \in SUBSET Objects : current' = Adding(current, fetched)
    /\ \E part \in SUBSET current'.objs : view' = [view EXCEPT ![r] = @ \cup part]
    /\ Release
    /\ UNCHANGED <<gen, previous, staged, history, poolJson, pinVars, lease, held, snap>>

\* retain: the matcher keeps an id it read from its view.  No lock.
Retain(r) ==
    /\ lease[r]
    /\ \E o \in view[r] \ held[r] : held' = [held EXCEPT ![r] = @ \cup {o}]
    /\ UNCHANGED <<lockVars, gen, diskVars, pinVars, lease, view, snap>>

\* publish_cancellable does NOT recover: it links the view into whatever
\* current is, creating its directories if a failed replacement left none.
PublishLink(r) ==
    /\ lease[r]
    /\ Lock(r, "linked")
    /\ current' = Adding(Inited(current), view[r])
    /\ UNCHANGED <<force, cap, todo, gen, previous, staged, history, poolJson,
                   pinVars, readerVars, snap>>

PublishCoverage(r) ==
    /\ op = r /\ phase = "linked"
    /\ \E g \in Gids :
          /\ GidChoice(current, g)
          /\ current' = WithGid(current, g)
          /\ history' = [gid |-> g, objs |-> Covered \cup held[r]]
    /\ poolJson' = NoHash
    /\ Release
    /\ UNCHANGED <<gen, previous, staged, pinVars, readerVars, snap>>

\* Linking back can fail half way.
PublishFail(r) ==
    /\ lease[r] /\ op = Free
    /\ \E part \in SUBSET view[r] : current' = Adding(Inited(current), part)
    /\ UNCHANGED <<lockVars, gen, previous, staged, history, poolJson,
                   pinVars, readerVars, snap>>

\* Dropping the lease removes its view directory and its registration.
Close(r) ==
    /\ lease[r] /\ op # r
    /\ lease' = [lease EXCEPT ![r] = FALSE]
    /\ held' = [held EXCEPT ![r] = {}]
    /\ view' = [view EXCEPT ![r] = NoStore]
    /\ UNCHANGED <<lockVars, gen, diskVars, pinVars, snap>>

\* evict_history, called by the owner policy under disk pressure.
EvictHistory ==
    /\ op = Free /\ poolJson # NoFile /\ ~Active
    /\ history # NoFile
    /\ history' = NoFile
    /\ UNCHANGED <<lockVars, gen, current, previous, staged, poolJson, pinVars, readerVars, snap>>

-----------------------------------------------------------------------------
(* Maintenance: one scan for all pools, then each pool under its mutex     *)

\* Snapshot::capture: pins and generation, under try_lock, for a known pool.
Capture(c) ==
    /\ op = Free /\ poolJson # NoFile /\ snap[c] = NoSnapshot
    /\ snap' = [snap EXCEPT ![c] = [gen |-> gen, roots |-> Pins, todo |-> Branches]]
    /\ UNCHANGED <<lockVars, gen, diskVars, pinVars, readerVars>>

\* maintain_pools visits the selectors with no lock at all.
Visit(c, b) ==
    /\ snap[c] # NoSnapshot /\ b \in snap[c].todo
    /\ snap' = [snap EXCEPT ![c].roots = @ \cup persisted[b], ![c].todo = @ \ {b}]
    /\ UNCHANGED <<lockVars, gen, diskVars, pinVars, readerVars>>

\* maintain_pool gives way to any operation, and the pass can fail.
Skip(c) ==
    /\ snap[c] # NoSnapshot /\ op # c
    /\ snap' = [snap EXCEPT ![c] = NoSnapshot]
    /\ UNCHANGED <<lockVars, gen, diskVars, pinVars, readerVars>>

\* With a snapshot from the shared scan, or without one (maintain).
Maintain(c) ==
    /\ snap[c] # NoSnapshot => snap[c].todo = {}
    /\ Lock(c, "recover")
    /\ force' \in (IF snap[c] = NoSnapshot THEN {FALSE} ELSE BOOLEAN)
    /\ UNCHANGED <<cap, todo, gen, diskVars, pinVars, readerVars, snap>>

\* Idle coverage is retired; then the snapshot's roots are taken only if no
\* acquisition ran since, else pins and selectors are captured again.
SurveyIf(c, unchanged) ==
    /\ op = c /\ phase = "ready"
    /\ poolJson' = Opened
    /\ \/ UNCHANGED history
       \/ ~Active /\ ~force /\ history' = NoFile
    /\ IF snap[c] # NoSnapshot /\ unchanged
       THEN /\ cap' = [EmptyCap EXCEPT !.snapshot = snap[c].roots]
            /\ todo' = {}
            /\ phase' = "capture"
            /\ UNCHANGED <<op, force>>
       ELSE CapturePins
    /\ snap' = [snap EXCEPT ![c] = NoSnapshot]
    /\ UNCHANGED <<gen, current, previous, staged, pinVars, readerVars>>
\* Mutant: the shared scan is trusted although an acquisition ran since.
SurveyStale(c) == SurveyIf(c, TRUE)
Survey(c) == SurveyIf(c, snap[c] # NoSnapshot => snap[c].gen = gen)

-----------------------------------------------------------------------------
(* Capturing the roots and rebuilding                                      *)

\* visit_selectors reads one state.json after the other; selectors are
\* published and retired meanwhile.
CaptureSelector(b) ==
    /\ phase = "capture" /\ b \in todo
    /\ cap' = [cap EXCEPT !.snapshot = @ \cup persisted[b]]
    /\ todo' = todo \ {b}
    /\ UNCHANGED <<op, phase, force, gen, diskVars, pinVars, readerVars, snap>>

\* retain_history: readers first, then coverage.
CaptureHistoryOf(objs) ==
    /\ phase = "capture" /\ todo = {}
    /\ cap' = [cap EXCEPT !.history = objs, !.carry = ValidCoverage]
    /\ phase' = "decide"
    /\ UNCHANGED <<op, force, todo, gen, diskVars, pinVars, readerVars, snap>>
\* Mutant: published coverage is not retained, only what readers hold.
CaptureReaders == CaptureHistoryOf(ReaderRoots)
CaptureHistory == CaptureHistoryOf(ReaderRoots \cup Covered)

\* An idle pool, or one under pressure, that nothing needs is removed.
RemoveBegin ==
    /\ phase = "decide" /\ op \in Collectors /\ ~Active
    /\ cap.snapshot = {} /\ cap.history = {}
    /\ Goto("removing")
    /\ UNCHANGED <<gen, diskVars, pinVars, readerVars, snap>>

\* remove_dir_all deletes in no particular order: a crash leaves any part.
RemovePart ==
    /\ phase = "removing"
    /\ history' \in {history, NoFile}
    /\ poolJson' \in {poolJson, NoFile}
    /\ \/ UNCHANGED current
       \/ /\ current # NoStore
          /\ \E part \in SUBSET current.objs, marker \in {current.complete, FALSE},
                g \in {current.gid, NoGid} :
                current' = [objs |-> part, complete |-> marker, gid |-> g]
    /\ UNCHANGED <<lockVars, gen, previous, staged, pinVars, readerVars, snap>>

RemoveAll ==
    /\ phase = "removing"
    /\ current' = NoStore /\ previous' = NoStore
    /\ history' = NoFile /\ poolJson' = NoFile
    /\ view' = [r \in Readers |-> NoStore]
    /\ Release
    /\ UNCHANGED <<gen, staged, pinVars, lease, held, snap>>

\* Not due, no store, or the same retention as last time.
RebuildSkip ==
    /\ phase = "decide"
    /\ op \in Acquirers => poolJson = RetentionHash
    /\ EndRebuild
    /\ UNCHANGED <<gen, diskVars, pinVars, readerVars, snap>>

\* execute: pack what is present of the snapshot roots and all of the
\* history roots into a new store; it refuses incomplete history.
Rebuild ==
    /\ phase = "decide" /\ current # NoStore /\ poolJson # RetentionHash
    /\ cap.history \subseteq current.objs
    /\ \E g \in Gids :
          /\ FreshGid(g)
          /\ staged' = [objs |-> (cap.snapshot \cap current.objs) \cup cap.history,
                        complete |-> TRUE, gid |-> g]
    /\ Goto("staged")
    /\ UNCHANGED <<gen, current, previous, history, poolJson, pinVars, readerVars, snap>>

RebuildFail ==
    /\ phase = "decide" /\ current # NoStore /\ poolJson # RetentionHash
    /\ Goto("repair")
    /\ UNCHANGED <<gen, diskVars, pinVars, readerVars, snap>>

\* replace: current becomes previous ...
SwapOut ==
    /\ phase = "staged"
    /\ \/ /\ previous = NoStore /\ previous' = current /\ current' = NoStore
          /\ Goto("swapped") /\ UNCHANGED staged
       \/ staged' = NoStore /\ Goto("repair") /\ UNCHANGED <<current, previous>>
    /\ UNCHANGED <<gen, history, poolJson, pinVars, readerVars, snap>>

\* ... the staged store becomes current ...
SwapIn ==
    /\ phase = "swapped"
    /\ current' = staged /\ staged' = NoStore
    /\ Goto("installed")
    /\ UNCHANGED <<gen, previous, history, poolJson, pinVars, readerVars, snap>>

\* ... or cannot, and the roll back may fail as well.
SwapInFail ==
    /\ phase = "swapped"
    /\ staged' = NoStore
    /\ \/ current' = previous /\ previous' = NoStore
       \/ UNCHANGED <<current, previous>>
    /\ Goto("repair")
    /\ UNCHANGED <<gen, history, poolJson, pinVars, readerVars, snap>>

\* ... and the backup is deleted, which may stop half way.
DropPrevious ==
    /\ phase = "installed"
    /\ \/ previous' = NoStore /\ Goto("replaced")
       \/ \E part \in SUBSET previous.objs :
             previous' = [previous EXCEPT !.objs = part] /\ Goto("repair")
    /\ UNCHANGED <<gen, current, staged, history, poolJson, pinVars, readerVars, snap>>

\* The coverage read before the rebuild is moved to the new generation ...
Rewrite ==
    /\ phase = "replaced"
    /\ history' = IF cap.carry THEN [history EXCEPT !.gid = current.gid] ELSE history
    /\ Goto("recorded")
    /\ UNCHANGED <<gen, current, previous, staged, poolJson, pinVars, readerVars, snap>>

\* ... unless a directory cannot be synchronised, or the claim not written ...
RewriteFail ==
    /\ phase = "replaced"
    /\ Goto("repair")
    /\ UNCHANGED <<gen, diskVars, pinVars, readerVars, snap>>

\* ... and the retention is recorded, so that it is not rebuilt again.
Record ==
    /\ phase = "recorded"
    /\ poolJson' = RetentionHash
    /\ EndRebuild
    /\ UNCHANGED <<gen, current, previous, staged, history, pinVars, readerVars, snap>>

-----------------------------------------------------------------------------
(* The process                                                             *)

\* Memory is lost and every temporary directory that crosses a restart is
\* garbage; reader views stay until the first lease of the next process.
Crash ==
    /\ Release
    /\ gen' = 0
    /\ staged' = NoStore
    /\ pinned' = [a \in Acquirers |-> {}]
    /\ lease' = [r \in Readers |-> FALSE]
    /\ held' = [r \in Readers |-> {}]
    /\ snap' = [c \in Collectors |-> NoSnapshot]
    /\ UNCHANGED <<current, previous, history, poolJson, persisted, view>>

\* The registry holds pools weakly: an unused pool is forgotten, and opened
\* again with a new mutex.  Pins, leases and snapshots hold it.
ForgetUnless(kept) ==
    /\ op = Free /\ ~Active /\ ~kept
    /\ \A a \in Acquirers : pinned[a] = {}
    /\ gen # 0 /\ gen' = 0
    /\ UNCHANGED <<lockVars, diskVars, pinVars, readerVars, snap>>
\* Mutant: a snapshot does not keep its pool open.
ForgetSnapshots == ForgetUnless(FALSE)
Forget == ForgetUnless(\E c \in Collectors : snap[c] # NoSnapshot)

RecoverStep == RecoverNothing \/ RecoverDrop \/ RecoverAside \/ RecoverRename

AcquireStep(a) ==
    \/ Begin(a) \/ GitStart(a) \/ GitReady(a) \/ GitCapture(a) \/ GitJob(a)
    \/ GitFail(a) \/ EndTurn(a) \/ Unpin(a)

SelectorStep(b) == Publish(b) \/ Retire(b) \/ CaptureSelector(b)

ReaderStep(r) ==
    \/ OpenLock(r) \/ OpenView(r) \/ OpenFail(r) \/ FetchLock(r) \/ Fetch(r)
    \/ FetchFail(r) \/ Retain(r) \/ PublishLink(r) \/ PublishFail(r) \/ PublishCoverage(r) \/ Close(r)

CollectorStep(c) ==
    \/ Capture(c) \/ (\E b \in Branches : Visit(c, b)) \/ Skip(c) \/ Maintain(c) \/ Survey(c)

RebuildStep ==
    \/ CaptureHistory \/ RemoveBegin \/ RemovePart \/ RemoveAll \/ RebuildSkip
    \/ Rebuild \/ RebuildFail \/ SwapOut \/ SwapIn \/ SwapInFail \/ DropPrevious
    \/ Rewrite \/ RewriteFail \/ Record

Next ==
    \/ RecoverStep
    \/ \E a \in Acquirers : AcquireStep(a)
    \/ \E b \in Branches : SelectorStep(b)
    \/ \E r \in Readers : ReaderStep(r)
    \/ \E c \in Collectors : CollectorStep(c)
    \/ RebuildStep
    \/ EvictHistory \/ Abort \/ Crash \/ Forget

Spec == Init /\ [][Next]_vars

\* What the holder of the operation mutex does next.  Every wait in it is
\* bounded (a job by 300 s, a Git command by 120 s), so a holder goes on.
HolderStep ==
    \/ RecoverStep \/ RebuildStep \/ Abort
    \/ \E b \in Branches : CaptureSelector(b)
    \/ \E a \in Acquirers :
          GitStart(a) \/ GitReady(a) \/ GitCapture(a) \/ GitJob(a) \/ GitFail(a) \/ EndTurn(a)
    \/ \E r \in Readers : OpenView(r) \/ OpenFail(r) \/ Fetch(r) \/ FetchFail(r) \/ PublishCoverage(r)
    \/ \E c \in Collectors : Survey(c)

FairSpec == Spec /\ WF_vars(HolderStep)

-----------------------------------------------------------------------------
\* An object that a live pin or a persisted selector needs, and that the pool
\* has, is still there after the step: through every replacement, roll back,
\* recovery, removal and crash, whoever publishes or releases meanwhile.
KeepRooted == [][Rooted \cap Rooted' \cap Usable \subseteq Usable']_vars

\* Coverage that names the current store is true of it: readers that trust
\* history.json never fetch, so a false claim would be a missing object.
HistoryCovered == ValidCoverage => history.objs \subseteq current.objs

\* A live lease keeps its view directory, with every object it retains,
\* while stores are replaced and whole pools removed around it.
LeaseReadable ==
    \A r \in Readers : lease[r] => view[r] # NoStore /\ held[r] \subseteq view[r]

\* While its generation is current, a maintenance snapshot taken without the
\* mutex covers every pin, and every selector it has passed already.
SnapshotCovers ==
    \A c \in Collectors : snap[c] # NoSnapshot /\ snap[c].gen = gen =>
        /\ Pins \subseteq snap[c].roots
        /\ \A b \in Branches \ snap[c].todo : persisted[b] \subseteq snap[c].roots

\* Whoever takes the operation mutex gives it back.
OperationEnds == op # Free ~> op = Free

-----------------------------------------------------------------------------
(* The inductive invariant behind the properties above.                    *)

\* Which actor can be at which phase.
OwnerInv ==
    /\ (op = Free) <=> (phase = "idle")
    /\ phase \in {"begin", "job", "pinned"} => op \in Acquirers
    /\ phase \in {"capture", "decide", "staged", "swapped", "installed", "replaced",
                  "recorded", "repair"} => op \in Acquirers \cup Collectors
    /\ phase = "removing" => op \in Collectors /\ ~Active
    /\ phase = "linked" =>
          op \in Readers /\ lease[op] /\ current # NoStore /\ view[op] \subseteq current.objs

\* Once recover() returned there is no backup until the next replacement.
DiskInv ==
    /\ phase \in {"ready", "capture", "decide", "staged", "replaced", "recorded",
                  "job", "pinned", "removing"} => previous = NoStore
    /\ phase \in {"staged", "replaced", "recorded", "installed"} => current # NoStore
    /\ phase = "swapped" => current = NoStore /\ previous # NoStore
    /\ phase = "installed" => previous # NoStore /\ current.complete
    /\ phase \in {"staged", "swapped"} => staged # NoStore /\ staged.complete
    /\ phase \notin {"staged", "swapped"} => staged = NoStore

\* The captured roots cover every root, although selectors are published and
\* pins released while they are collected.
CaptureInv ==
    phase \in {"capture", "decide", "staged", "swapped", "installed", "replaced", "removing"} =>
        /\ Pins \subseteq cap.snapshot
        /\ \A b \in Branches \ todo : persisted[b] \subseteq cap.snapshot
        /\ phase # "capture" => todo = {}
        /\ phase = "removing" => cap.snapshot = {}

\* The rebuilt store holds what was captured of the store it replaces.
RebuildInv ==
    /\ phase = "staged" => cap.snapshot \cap current.objs \subseteq staged.objs
    /\ phase = "swapped" => cap.snapshot \cap previous.objs \subseteq staged.objs

\* Coverage claimed before a rebuild is captured, rebuilt, and claimed again.
CarryInv ==
    /\ phase \in {"decide", "staged", "swapped", "installed", "replaced"} /\ cap.carry =>
          history # NoFile /\ history.objs \subseteq cap.history
    /\ phase = "decide" => (ValidCoverage => cap.carry)
    /\ phase \in {"staged", "swapped"} => cap.history \subseteq staged.objs
    /\ phase \in {"installed", "replaced"} => cap.history \subseteq current.objs
    /\ phase = "removing" => (ValidCoverage => history.objs = {})

\* Generation ids tell stores, and claims about them, apart.
GidInv ==
    /\ current # NoStore /\ previous # NoStore /\ current.gid # NoGid =>
          current.gid # previous.gid
    /\ phase \in {"staged", "swapped"} =>
          /\ staged.gid # NoGid
          /\ history # NoFile => history.gid # staged.gid
          /\ current # NoStore => current.gid # staged.gid
          /\ previous # NoStore => previous.gid # staged.gid
    /\ phase \in {"installed", "replaced"} => current.gid # NoGid

\* A backup that would be restored still satisfies the claims about it.
BackupInv ==
    previous # NoStore /\ (current = NoStore \/ ~current.complete) =>
        (history # NoFile /\ history.gid = previous.gid => history.objs \subseteq previous.objs)

\* A generation number in use by an acquisition is newer than any snapshot.
SnapshotInv ==
    \A c \in Collectors : snap[c] # NoSnapshot =>
        /\ snap[c].gen <= gen
        /\ op \in Acquirers /\ phase # "begin" => snap[c].gen < gen
        /\ op = c => snap[c].todo = {}

IInv ==
    /\ TypeOK /\ OwnerInv /\ DiskInv /\ CaptureInv /\ RebuildInv /\ CarryInv
    /\ GidInv /\ BackupInv /\ SnapshotInv
    /\ HistoryCovered /\ LeaseReadable /\ SnapshotCovers
=============================================================================
