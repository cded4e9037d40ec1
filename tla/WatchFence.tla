----------------------------- MODULE WatchFence ------------------------------
(***************************************************************************)
(* src/src/watch.rs: the directory watches that workspaces share, and the  *)
(* fence by which a reader learns what changed since it read.              *)
(* src/src/repository/source_validation.rs is such a reader: it fences,    *)
(* reads its files, keeps a snapshot of that generation, and as long as    *)
(* the snapshot reports no change it does not read them again.             *)
(*                                                                         *)
(* The kernel is modelled as the code uses it: it queues an event for a    *)
(* watched directory when a file in it changes, one overflow event when    *)
(* the queue is full, and a last one when the directory goes away.         *)
(***************************************************************************)
EXTENDS Integers, Sequences, FiniteSets

CONSTANTS
  Dirs, Files, DirOf(_),
  Readers, Reads(_),  \* directories of a reader
  None,
  KernelQueue,        \* events the kernel keeps
  Batch, Batches,     \* events of a read, and reads of one call
  EventLimit,         \* EVENT_LIMIT
  MaxVersion, MaxWatches

VARIABLES
  version,   \* file -> number of its last change
  present,   \* directories that exist
  watched,   \* directory -> the kernel's watch of it, 0 for none
  queue,     \* events the kernel holds
  count,     \* watches made
  mon,       \* Monitor
  uses,      \* reader -> directories it has registered
  reading,   \* reader -> None, or the generation of its fence and what it read
  snapshot   \* reader -> None, or a Snapshot and what was read for it

kernel == <<version, present, watched, queue, count>>
vars == <<kernel, mon, uses, reading, snapshot>>

Init ==
  /\ version = [f \in Files |-> 0] /\ present = Dirs
  /\ watched = [d \in Dirs |-> 0] /\ queue = <<>> /\ count = 0
  /\ mon = [wd |-> [d \in Dirs |-> 0], users |-> [d \in Dirs |-> 0], events |-> <<>>,
            coverage |-> 0, generation |-> 0, fallback |-> FALSE]
  /\ uses = [r \in Readers |-> {}]
  /\ reading = [r \in Readers |-> None] /\ snapshot = [r \in Readers |-> None]

-----------------------------------------------------------------------------
(* The kernel                                                              *)

Overflow == [wd |-> 0, path |-> None, gone |-> FALSE]

Queued(q, e) ==
  IF e.wd = 0 \/ (q # <<>> /\ q[Len(q)] = Overflow) THEN q
  ELSE IF Len(q) < KernelQueue THEN Append(q, e) ELSE Append(q, Overflow)

\* A file is written, created or deleted.
Change(f) ==
  /\ DirOf(f) \in present /\ version[f] < MaxVersion
  /\ version' = [version EXCEPT ![f] = @ + 1]
  /\ queue' = Queued(queue, [wd |-> watched[DirOf(f)], path |-> f, gone |-> FALSE])
  /\ UNCHANGED <<present, watched, count, mon, uses, reading, snapshot>>

\* A directory is moved or deleted with its files; its watch ends.
Vanish(d) ==
  /\ d \in present /\ \A f \in Files : DirOf(f) = d => version[f] < MaxVersion
  /\ present' = present \ {d}
  /\ version' = [f \in Files |-> IF DirOf(f) = d THEN version[f] + 1 ELSE version[f]]
  /\ queue' = Queued(queue, [wd |-> watched[d], path |-> d, gone |-> TRUE])
  /\ watched' = [watched EXCEPT ![d] = 0]
  /\ UNCHANGED <<count, mon, uses, reading, snapshot>>

\* Another directory takes its place.
Create(d) ==
  /\ d \notin present /\ present' = present \union {d}
  /\ UNCHANGED <<version, watched, queue, count, mon, uses, reading, snapshot>>

-----------------------------------------------------------------------------
(* Monitor                                                                 *)

\* Mutant: the events that make room for new ones are simply forgotten.
Forgets(m, e) ==
  [m EXCEPT !.events = IF Len(@) < EventLimit THEN Append(@, e) ELSE Tail(Append(@, e))]

\* record(): what is dropped is no longer covered.
Records(m, e) ==
  LET all == Append(m.events, e) IN
  IF Len(all) <= EventLimit THEN [m EXCEPT !.events = all]
  ELSE [m EXCEPT !.events = Tail(all),
                 !.coverage = IF Head(all).generation > @ THEN Head(all).generation ELSE @]

\* One event of a batch.
ReadEvent(m, e) ==
  LET known == {d \in Dirs : m.wd[d] # 0 /\ m.wd[d] = e.wd}
      lost == [m EXCEPT !.fallback = @ \/ e = Overflow \/ (e.gone /\ known # {})] IN
  IF known = {} THEN lost
  ELSE LET d == CHOOSE x \in known : TRUE IN
       Records(lost, [dir |-> d, path |-> e.path, tree |-> e.gone, generation |-> m.generation])

\* A batch is of one generation.
ReadNext(m, k) ==
  ReadEvent([m EXCEPT !.generation = IF (k - 1) % Batch = 0 THEN @ + 1 ELSE @], queue[k])

Least(a, b) == IF a < b THEN a ELSE b

\* changes() reads until the queue is empty; it gives up after a number of
\* batches.
EventsRead == Least(Len(queue), Batch * Batches)
Read[k \in 0 .. EventsRead] == IF k = 0 THEN mon ELSE ReadNext(Read[k - 1], k)
Drained ==
  [Read[EventsRead] EXCEPT !.fallback = @ \/ EventsRead > Batch * (Batches - 1)]
Rest == SubSeq(queue, Batch * Batches + 1, Len(queue))

\* affects(): what Changes since a generation name.
Affects(m, dirs, since, f) ==
  \/ m.fallback \/ since < m.coverage
  \/ \E i \in DOMAIN m.events :
       LET e == m.events[i] IN
       /\ e.generation > since /\ e.dir \in dirs
       /\ e.path = f \/ (e.tree /\ e.path = DirOf(f))

\* register()
Register(r, d) ==
  /\ d \in Reads(r) \ uses[r] /\ reading[r] = None /\ snapshot[r] = None
  /\ uses' = [uses EXCEPT ![r] = @ \union {d}]
  /\ IF mon.users[d] > 0
       THEN mon' = [mon EXCEPT !.users[d] = @ + 1] /\ UNCHANGED <<watched, count>>
       ELSE IF mon.fallback THEN UNCHANGED <<mon, watched, count>>
       ELSE IF d \notin present
         THEN mon' = [mon EXCEPT !.fallback = TRUE] /\ UNCHANGED <<watched, count>>
       ELSE /\ count < MaxWatches /\ count' = count + 1
            /\ watched' = [watched EXCEPT ![d] = count + 1]
            /\ mon' = [mon EXCEPT !.wd[d] = count + 1, !.users[d] = 1]
  /\ UNCHANGED <<version, present, queue, reading, snapshot>>

\* Mutant: whoever leaves takes the watch along.
LastUser(d) == TRUE

\* Other users of the directory keep its watch.
NoOthers(d) == mon.users[d] = 1

\* unregister(): snapshots that outlive the watch see a change of the tree.
Unregister(r, d) ==
  /\ d \in uses[r] /\ reading[r] = None
  /\ uses' = [uses EXCEPT ![r] = @ \ {d}]
  /\ IF mon.users[d] = 0 THEN UNCHANGED <<mon, watched>>
     ELSE IF ~NoOthers(d)
       THEN mon' = [mon EXCEPT !.users[d] = @ - 1] /\ UNCHANGED watched
       ELSE /\ mon' = Records([mon EXCEPT !.wd[d] = 0, !.users[d] = 0, !.generation = @ + 1],
                 [dir |-> d, path |-> d, tree |-> TRUE, generation |-> mon.generation + 1])
            /\ watched' = [watched EXCEPT ![d] = 0]
  /\ UNCHANGED <<version, present, queue, count, reading, snapshot>>

-----------------------------------------------------------------------------
(* Readers                                                                 *)

Fence(r) ==
  /\ uses[r] = Reads(r) /\ reading[r] = None /\ snapshot[r] = None
  /\ mon' = Drained /\ queue' = Rest
  /\ reading' = [reading EXCEPT ![r] = [generation |-> Drained.generation, read |-> [f \in {} |-> 0]]]
  /\ UNCHANGED <<version, present, watched, count, uses, snapshot>>

Mine(r) == {f \in Files : DirOf(f) \in Reads(r)}

\* A file is read, or found missing.
ReadFile(r) ==
  /\ reading[r] # None
  /\ \E f \in Mine(r) \ DOMAIN reading[r].read :
       reading' = [reading EXCEPT ![r].read =
         [g \in DOMAIN @ \union {f} |-> IF g = f THEN version[f] ELSE @[g]]]
  /\ UNCHANGED <<kernel, mon, uses, snapshot>>

\* Mutant: the generation is the one after the files were read.
LateGeneration(r) == mon.generation

\* The snapshot is of the generation of the fence that preceded the reading.
Generation(r) == reading[r].generation

Publish(r) ==
  /\ reading[r] # None /\ DOMAIN reading[r].read = Mine(r)
  /\ snapshot' = [snapshot EXCEPT ![r] = [generation |-> Generation(r), read |-> reading[r].read]]
  /\ reading' = [reading EXCEPT ![r] = None]
  /\ UNCHANGED <<kernel, mon, uses>>

Affected(m, r) ==
  {f \in Mine(r) : Affects(m, Reads(r), snapshot[r].generation, f)}

\* changed(): the snapshot is kept while it reports no change.
Ask(r) ==
  /\ snapshot[r] # None
  /\ mon' = Drained /\ queue' = Rest
  /\ snapshot' = IF Affected(Drained, r) = {} THEN snapshot
                 ELSE [snapshot EXCEPT ![r] = None]
  /\ UNCHANGED <<version, present, watched, count, uses, reading>>

Next ==
  \/ \E f \in Files : Change(f)
  \/ \E d \in Dirs : Vanish(d) \/ Create(d)
  \/ \E r \in Readers :
       \/ Fence(r) \/ ReadFile(r) \/ Publish(r) \/ Ask(r)
       \/ \E d \in Dirs : Register(r, d) \/ Unregister(r, d)

Spec == Init /\ [][Next]_vars

-----------------------------------------------------------------------------
(* Properties                                                              *)

\* Whatever a snapshot does not report changed is as it was read: through
\* changes while it was read, events that were dropped, watches that others
\* gave up or that ended with their directory.
FenceTrue ==
  \A r \in Readers : snapshot[r] # None =>
    \A f \in Mine(r) \ Affected(Drained, r) : version[f] = snapshot[r].read[f]

\* The watches outlive the reader that made them while another one uses them.
WatchesShared ==
  \A r \in Readers, d \in Dirs : d \in uses[r] /\ ~mon.fallback => mon.wd[d] # 0
=============================================================================
