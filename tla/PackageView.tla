----------------------------- MODULE PackageView -----------------------------
(***************************************************************************)
(* The writable package view of src/src/cache/packages.rs: an immutable    *)
(* directory of packages below, the writes of sandboxed builds above, and  *)
(* the seal that folds the writes into a new directory with one exchange   *)
(* of names.  A journal beside it lets whoever opens the view next finish  *)
(* or undo a seal that was cut.                                            *)
(*                                                                         *)
(* A process dies between any two calls; any call may fail, and then the   *)
(* guards of the function (the temporary directory, the lock) are dropped. *)
(*                                                                         *)
(* Abstracted: the directories are functions from paths to contents; the   *)
(* store files are linked from and the syncs before a rename are left out, *)
(* as the disk itself does not fail here.                                  *)
(***************************************************************************)
EXTENDS Integers

CONSTANTS
  Sessions,   \* who opens the view: threads of one process, other processes
  Files,      \* paths in it
  Contents,   \* what a file may hold
  Gone,       \* no such file; as a write: the whiteout of a removed file
  Link,       \* a link or a special file
  Same,       \* above: no write to this path
  None,       \* nobody, no directory, no journal, no generation
  Legacy,     \* files of the former package directory
  MaxWrites,  \* writes of builds
  MaxSeals,   \* seals that find something to fold
  MaxFaults   \* calls that fail, crashes

ASSUME ValueAssumption ==
  /\ {Gone, Link, Same} \intersect Contents = {}
  /\ Gone # Link /\ Gone # Same /\ Link # Same
ASSUME NoneAssumption == None \notin Sessions /\ None \notin Nat
ASSUME LegacyAssumption == Legacy \in [Files -> Contents \union {Gone}]
ASSUME BoundAssumption == MaxWrites \in Nat /\ MaxSeals \in Nat /\ MaxFaults \in Nat

VARIABLES
  lower,      \* packages/: path -> content
  generation, \* packages/.sigla-generation, or None
  upper,      \* package-writes/: path -> write
  staged,     \* package-snapshot-*/contents: path -> content
  stamp,      \* the generation in the staged contents, or None
  stage,      \* the name of the staged directory, or None
  journal,    \* package-publish.json: the name of a stage, or None
  imported,   \* the legacy-imported marker
  lock,       \* the session that holds packages.lock, or None
  pc,         \* session -> where it is
  writes, seals, faults

vars == <<lower, generation, upper, staged, stamp, stage, journal, imported,
          lock, pc, writes, seals, faults>>
below == <<lower, generation>>
staging == <<staged, stamp, stage>>
counts == <<writes, seals, faults>>

Initial == 0
Clean == [f \in Files |-> Same]
Empty == [f \in Files |-> Gone]

Init ==
  /\ lower = Empty /\ generation = None
  /\ upper = Clean
  /\ staged = Empty /\ stamp = None /\ stage = None
  /\ journal = None /\ imported = FALSE
  /\ lock = None /\ pc = [s \in Sessions |-> "closed"]
  /\ writes = 0 /\ seals = 0 /\ faults = 0

\* What overlayfs shows.
Merge == [f \in Files |-> IF upper[f] = Same THEN lower[f] ELSE upper[f]]

At(s, here, next) == pc[s] = here /\ pc' = [pc EXCEPT ![s] = next]

-----------------------------------------------------------------------------
(* View::open and View::recover.                                           *)

\* Mutant: the lock file is opened and never locked.
AnyLock == TRUE

LockFree == lock = None

Open(s) ==
  /\ LockFree
  /\ lock' = s
  /\ At(s, "closed", "recover")
  /\ UNCHANGED <<below, upper, staging, journal, imported, counts>>

\* Mutant: a journal alone is taken for a finished exchange.
JournalFound == TRUE

\* The stage of the journal is the directory in place.
Installed == generation = journal

\* Without a journal every stage is a leftover.  With one, the writes above
\* are in the directory below exactly if its generation is the journal's.
Recover(s) ==
  /\ pc[s] = "recover"
  /\ pc' = [pc EXCEPT ![s] =
       IF journal = None THEN "opened" ELSE IF Installed THEN "clear" ELSE "unstage"]
  /\ IF journal = None
       THEN staged' = Empty /\ stamp' = None /\ stage' = None
       ELSE UNCHANGED staging
  /\ UNCHANGED <<below, upper, journal, imported, lock, counts>>

\* clear_writes removes one entry after another.
Clear(s) ==
  /\ pc[s] = "clear"
  /\ \E f \in Files : upper[f] # Same /\ upper' = [upper EXCEPT ![f] = Same]
  /\ UNCHANGED <<below, staging, journal, imported, lock, pc, counts>>

Cleared(s) ==
  /\ upper = Clean
  /\ At(s, "clear", "unstage")
  /\ UNCHANGED <<below, upper, staging, journal, imported, lock, counts>>

Unstage(s) ==
  /\ At(s, "unstage", "unjournal")
  /\ staged' = Empty /\ stamp' = None /\ stage' = None
  /\ UNCHANGED <<below, upper, journal, imported, lock, counts>>

\* Mutant: a recovered seal leaves its journal behind.
JournalKept == journal' = journal

JournalRemoved == journal' = None

Unjournal(s) ==
  /\ At(s, "unjournal", "opened")
  /\ JournalRemoved
  /\ UNCHANGED <<below, upper, staging, imported, lock, counts>>

\* The rest of View::open stamps a new directory; View::local then imports the
\* former package directory once.
Begin(s) ==
  /\ pc[s] = "opened"
  /\ generation' = IF generation = None THEN Initial ELSE generation
  /\ pc' = [pc EXCEPT ![s] = IF imported THEN "ready" ELSE "import"]
  /\ UNCHANGED <<lower, upper, staging, journal, imported, lock, counts>>

\* Store::link_tree links what is not there.
Import(s) ==
  /\ pc[s] = "import"
  /\ \E f \in Files :
       /\ lower[f] = Gone /\ Legacy[f] # Gone
       /\ lower' = [lower EXCEPT ![f] = Legacy[f]]
  /\ UNCHANGED <<generation, upper, staging, journal, imported, lock, pc, counts>>

\* Mutant: the marker of the import is not written.
Unmarked == imported' = imported

Marked == imported' = TRUE

MarkImported(s) ==
  /\ \A f \in Files : lower[f] # Gone \/ Legacy[f] = Gone
  /\ At(s, "import", "ready")
  /\ Marked
  /\ UNCHANGED <<below, upper, staging, journal, lock, counts>>

Close(s) ==
  /\ At(s, "ready", "closed")
  /\ lock' = None
  /\ UNCHANGED <<below, upper, staging, journal, imported, counts>>

-----------------------------------------------------------------------------
(* A build on the mounted overlay, and View::seal once it has ended.       *)

Build(s) ==
  /\ pc[s] = "ready"
  /\ writes < MaxWrites
  /\ \E f \in Files, c \in Contents \union {Gone, Link} :
       /\ Merge[f] # c
       /\ upper' = [upper EXCEPT ![f] = c]
  /\ writes' = writes + 1
  /\ UNCHANGED <<below, staging, journal, imported, lock, pc, seals, faults>>

\* Nothing written: nothing to do.  A link or a special file: an error, before
\* anything is staged.
Seal(s) ==
  /\ upper # Clean
  /\ \A f \in Files : upper[f] # Link
  /\ seals < MaxSeals
  /\ seals' = seals + 1
  /\ stage' = seals' /\ staged' = Empty /\ stamp' = None
  /\ At(s, "ready", "merge")
  /\ UNCHANGED <<below, upper, journal, imported, lock, writes, faults>>

\* Mutant: only what the build wrote is copied.
WritesOnly == [f \in Files |-> IF upper[f] = Same THEN Gone ELSE upper[f]]

\* The sandboxed host copies the merged tree.
Snapshot == Merge

SealMerge(s) ==
  /\ At(s, "merge", "stamp")
  /\ staged' = Snapshot
  /\ UNCHANGED <<below, upper, stamp, stage, journal, imported, lock, counts>>

SealStamp(s) ==
  /\ At(s, "stamp", "journal")
  /\ stamp' = stage
  /\ UNCHANGED <<below, upper, staged, stage, journal, imported, lock, counts>>

SealJournal(s) ==
  /\ At(s, "journal", "exchange")
  /\ journal' = stage
  /\ UNCHANGED <<below, upper, staging, imported, lock, counts>>

\* RENAME_EXCHANGE of the staged contents and packages/, then recover() cleans
\* up.
SealExchange(s) ==
  /\ stage # None
  /\ At(s, "exchange", "exchanged")
  /\ lower' = staged /\ generation' = stamp
  /\ staged' = lower /\ stamp' = generation
  /\ UNCHANGED <<upper, stage, journal, imported, lock, counts>>

SealKeep(s) ==
  /\ At(s, "exchanged", "recover")
  /\ UNCHANGED <<below, upper, staging, journal, imported, lock, counts>>

-----------------------------------------------------------------------------
Sealing == {"merge", "stamp", "journal", "exchange", "exchanged"}

\* A call fails: the error returns through the function, whose temporary
\* directory goes until it is kept, and the view is dropped.
Fail(s) ==
  /\ faults < MaxFaults
  /\ pc[s] # "closed"
  /\ faults' = faults + 1
  /\ pc' = [pc EXCEPT ![s] = "closed"]
  /\ lock' = None
  /\ IF pc[s] \in Sealing
       THEN staged' = Empty /\ stamp' = None /\ stage' = None
       ELSE UNCHANGED staging
  /\ UNCHANGED <<below, upper, journal, imported, writes, seals>>

Crash ==
  /\ faults < MaxFaults
  /\ faults' = faults + 1
  /\ pc' = [s \in Sessions |-> "closed"]
  /\ lock' = None
  /\ UNCHANGED <<below, upper, staging, journal, imported, writes, seals>>

SessionStep(s) ==
  \/ Open(s) \/ Recover(s) \/ Clear(s) \/ Cleared(s) \/ Unstage(s) \/ Unjournal(s)
  \/ Begin(s) \/ Import(s) \/ MarkImported(s) \/ Close(s)
  \/ Build(s) \/ Seal(s) \/ SealMerge(s) \/ SealStamp(s) \/ SealJournal(s)
  \/ SealExchange(s) \/ SealKeep(s) \/ Fail(s)

Next == (\E s \in Sessions : SessionStep(s)) \/ Crash

Spec == Init /\ [][Next]_vars

-----------------------------------------------------------------------------
(* Properties                                                              *)

Steps == {"closed", "recover", "clear", "unstage", "unjournal", "opened",
          "import", "ready"} \union Sealing
Written == Contents \union {Gone, Link}

\* Types, and: whoever is past open() holds the lock.
TypeOK ==
  /\ lower \in [Files -> Written] /\ staged \in [Files -> Written]
  /\ upper \in [Files -> Written \union {Same}]
  /\ generation \in Nat \union {None} /\ stamp \in Nat \union {None}
  /\ stage \in Nat \union {None} /\ journal \in Nat \union {None}
  /\ imported \in BOOLEAN
  /\ lock \in Sessions \union {None}
  /\ pc \in [Sessions -> Steps]
  /\ \A s \in Sessions : pc[s] # "closed" <=> lock = s
  /\ writes \in Nat /\ seals \in Nat /\ faults \in Nat

\* A build starts on a view without traces of an earlier seal: a journal it
\* outlived would clear the writes of this build.
RecoveredFirst ==
  \A s \in Sessions : pc[s] = "ready" => journal = None /\ stage = None

\* What the view shows is what the builds made of it: a seal, its recovery, a
\* failure or a crash anywhere between loses no write, brings no removed file
\* back and shows no half of a snapshot.  Before the first write, the import.
OnlyBuildsShow == [][Merge' = Merge \/ writes' # writes \/ writes = 0]_vars

\* A published directory is complete: it holds everything the view shows the
\* moment it takes the place of the old one.
PublishesAll ==
  [][generation' # generation /\ generation # None => lower' = Merge]_vars
=============================================================================
