------------------------------ MODULE Compaction ------------------------------
(***************************************************************************)
(* src/src/cache/compaction.rs with its caller in service_cache.rs: the    *)
(* analysis database is replaced by a compact copy of itself.              *)
(*                                                                         *)
(* The copy is made beside requests that read and commit; it is published  *)
(* when the service is idle and nothing was committed since.  The old file *)
(* keeps a second name until the new one is validated, so that a process   *)
(* that dies, or a power failure, at any step can be recovered from.       *)
(* A file is an inode with the number of the last commit it contains.      *)
(* Left out: the contents and the validation of tables, disk space, syncs  *)
(* of a directory that fail, and the loss of a last commit by the          *)
(* NO_META_SYNC mode of the database.                                      *)
(***************************************************************************)
EXTENDS Naturals, FiniteSets

CONSTANTS
  Users,        \* requests
  None,
  Inodes,
  FaultsAllowed, \* steps of a publication may fail
  MaxCommits,
  MaxCopies,
  MaxDeaths     \* process deaths and power failures

ASSUME FaultsAssumption == FaultsAllowed \in BOOLEAN
ASSUME BoundAssumption == MaxCommits \in Nat /\ MaxCopies \in Nat /\ MaxDeaths \in Nat

VARIABLES
  dir,       \* the names: data, pending, previous -> inode or None; retired: a set
  disk,      \* the directories that may be found after a power failure
  file,      \* inode -> None, or its last commit, and whether it is whole and synced
  committed, \* the number of commits
  up,        \* "down", "recovering" or "up"
  user,      \* user -> "idle", "active" (holds the activity) or "open" (uses the database)
  cached,    \* a workspace in memory keeps the database open
  open,      \* the inode of the open environment, or None
  pc,        \* the maintenance worker's step
  candidate, \* None, or the generation of the copy
  copies, deaths

vars == <<dir, disk, file, committed, up, user, cached, open, pc, candidate, copies, deaths>>
bounds == <<copies, deaths>>

Directories == [data : Inodes \union {None}, pending : Inodes \union {None},
                previous : Inodes \union {None}, retired : SUBSET Inodes]
Databases == [commit : 0..MaxCommits, whole : BOOLEAN, synced : BOOLEAN]
ASSUME NoneAssumption == None \notin Inodes \union Databases /\ Inodes # {}

TypeOK ==
  /\ dir \in Directories /\ disk \subseteq Directories
  /\ file \in [Inodes -> {None} \union Databases]
  /\ committed \in 0..MaxCommits
  /\ up \in {"down", "recovering", "up"}
  /\ user \in [Users -> {"idle", "active", "open"}]
  /\ cached \in BOOLEAN /\ open \in Inodes \union {None}
  /\ pc \in {"idle", "copying", "copied", "ready", "exclusive", "linked", "renamed",
             "failed", "valid", "disarmed", "cleaning"}
  /\ candidate \in {None} \union [commit : 0..MaxCommits, inode : Inodes]
  /\ copies \in 0..MaxCopies /\ deaths \in 0..MaxDeaths

First == CHOOSE i \in Inodes : TRUE

Init ==
  /\ dir = [data |-> First, pending |-> None, previous |-> None, retired |-> {}]
  /\ disk = {dir}
  /\ file = [i \in Inodes |-> IF i = First THEN [commit |-> 0, whole |-> TRUE, synced |-> TRUE]
                              ELSE None]
  /\ committed = 0 /\ up = "up"
  /\ user = [u \in Users |-> "idle"]
  /\ cached = FALSE /\ open = None
  /\ pc = "idle" /\ candidate = None
  /\ copies = 0 /\ deaths = 0

InodesOf(d) == {d.data, d.pending, d.previous} \union d.retired
Free == {i \in Inodes : file[i] = None}

\* The directory changes; the disk has it, or any earlier one since the last sync.
Enter(d) == dir' = d /\ disk' = disk \union {d}
Synced(d) == dir' = d /\ disk' = {d}

Used(d, possible) == InodesOf(d) \union UNION {InodesOf(p) : p \in possible} \union {open}

Valid(i) == IF i = None THEN FALSE ELSE IF file[i] = None THEN FALSE ELSE file[i].whole

-----------------------------------------------------------------------------
(* Requests                                                                *)

Exclusive == pc \in {"exclusive", "linked", "renamed", "failed", "valid"}

\* A request takes the shared activity.
Arrive(u) ==
  /\ up = "up" /\ user[u] = "idle" /\ ~Exclusive
  /\ user' = [user EXCEPT ![u] = "active"]
  /\ UNCHANGED <<dir, disk, file, committed, up, cached, open, pc, candidate, bounds>>

\* Database::open() joins the open environment, or opens the file.
Open(u) ==
  /\ user[u] = "active"
  /\ user' = [user EXCEPT ![u] = "open"]
  /\ open' = IF open = None THEN dir.data ELSE open
  /\ UNCHANGED <<dir, disk, file, committed, up, cached, pc, candidate, bounds>>

Commit(u) ==
  /\ user[u] = "open" /\ committed < MaxCommits
  /\ committed' = committed + 1
  /\ file' = [file EXCEPT ![open].commit = committed']
  /\ UNCHANGED <<dir, disk, up, user, cached, open, pc, candidate, bounds>>

Holders == {u \in Users : user[u] = "open"}
MaintenanceHolds == pc \in {"copying", "copied", "ready"}

\* The environment closes with its last handle.
Leave(u) ==
  \E keep \in BOOLEAN :
    /\ user[u] \in {"active", "open"}
    /\ user' = [user EXCEPT ![u] = "idle"]
    /\ cached' = (cached \/ (keep /\ user[u] = "open"))
    /\ open' = IF ~cached' /\ Holders \subseteq {u} /\ ~MaintenanceHolds THEN None ELSE open
    /\ UNCHANGED <<dir, disk, file, committed, up, pc, candidate, bounds>>

\* A workspace leaves the memory.
Forget ==
  /\ cached /\ cached' = FALSE
  /\ open' = IF Holders = {} /\ ~MaintenanceHolds THEN None ELSE open
  /\ UNCHANGED <<dir, disk, file, committed, up, user, pc, candidate, bounds>>

-----------------------------------------------------------------------------
(* prepare(): the copy                                                     *)

\* Mutant: files that a publication retired are forgotten.
CleanedPending(d) == IF d.previous # None THEN d ELSE [d EXCEPT !.pending = None]

\* cleanup()
Cleaned(d) == IF d.previous # None THEN d ELSE [d EXCEPT !.pending = None, !.retired = {}]

Collected(d) ==
  [i \in Inodes |-> IF i \in Used(d, disk') THEN file[i] ELSE None]

\* try_compaction_with() under the shared activity; the service is up to it.
Prepare ==
  /\ up = "up" /\ pc = "idle" /\ copies < MaxCopies /\ copies' = copies + 1
  /\ dir.previous = None
  /\ Synced(Cleaned(dir)) /\ file' = Collected(Cleaned(dir))
  /\ open' = IF open = None THEN dir.data ELSE open
  /\ candidate' = [commit |-> file[open'].commit, inode |-> dir.data]
  /\ pc' = "copying"
  /\ UNCHANGED <<committed, up, user, cached, deaths>>

\* copy_to_path() copies a snapshot.
CopyStarts ==
  /\ pc = "copying" /\ dir.pending = None /\ Free # {}
  /\ \E i \in Free :
       /\ Enter([dir EXCEPT !.pending = i])
       /\ file' = [file EXCEPT ![i] = [commit |-> file[open].commit, whole |-> FALSE,
                                       synced |-> FALSE]]
  /\ UNCHANGED <<committed, up, user, cached, open, pc, candidate, bounds>>

\* Mutant: the copy is not synced.
CopyUnsynced ==
  /\ pc = "copying" /\ dir.pending # None /\ pc' = "copied"
  /\ file' = [file EXCEPT ![dir.pending].whole = TRUE]
  /\ UNCHANGED <<dir, disk, committed, up, user, cached, open, candidate, bounds>>

CopyEnds ==
  /\ pc = "copying" /\ dir.pending # None /\ pc' = "copied"
  /\ file' = [file EXCEPT ![dir.pending].whole = TRUE, ![dir.pending].synced = TRUE]
  /\ UNCHANGED <<dir, disk, committed, up, user, cached, open, candidate, bounds>>

\* Candidate::drop() and the maintenance's handle.
Discard ==
  /\ Enter([dir EXCEPT !.pending = None])
  /\ file' = Collected(dir')
  /\ open' = IF Holders = {} /\ ~cached THEN None ELSE open
  /\ candidate' = None /\ pc' = "idle"

\* Mutant: whatever was committed during the copy.
AnyCurrent == TRUE

\* Candidate::current()
Current == candidate = [commit |-> file[open].commit, inode |-> dir.data]

Check ==
  /\ pc = "copied"
  /\ IF Current THEN pc' = "ready" /\ UNCHANGED <<dir, disk, file, open, candidate>> ELSE Discard
  /\ UNCHANGED <<committed, up, user, cached, bounds>>

-----------------------------------------------------------------------------
(* publish(), under the exclusive activity                                 *)

\* Mutant: requests that use the database are not waited for.
TakeAtOnce ==
  /\ pc = "ready"
  /\ IF Current THEN pc' = "exclusive" /\ UNCHANGED <<dir, disk, file, open, candidate>> ELSE Discard
  /\ UNCHANGED <<committed, up, user, cached, bounds>>

\* The copy is discarded while requests are active, or when it is stale;
\* otherwise the caches let the database go and its environment is closed.
Take ==
  /\ pc = "ready"
  /\ IF Current /\ \A u \in Users : user[u] = "idle"
       THEN pc' = "exclusive" /\ cached' = FALSE /\ open' = None
            /\ UNCHANGED <<dir, disk, file, candidate>>
       ELSE Discard /\ UNCHANGED cached
  /\ UNCHANGED <<committed, up, user, bounds>>

Link ==
  /\ pc = "exclusive"
  /\ \/ pc' = "linked" /\ Synced([dir EXCEPT !.previous = dir.data])
     \/ FaultsAllowed /\ pc' = "failed" /\ UNCHANGED <<dir, disk>>
  /\ UNCHANGED <<file, committed, up, user, cached, open, candidate, bounds>>

Replace ==
  /\ pc = "linked"
  /\ \/ pc' = "renamed" /\ Enter([dir EXCEPT !.data = dir.pending, !.pending = None])
     \/ FaultsAllowed /\ pc' = "failed" /\ UNCHANGED <<dir, disk>>
  /\ UNCHANGED <<file, committed, up, user, cached, open, candidate, bounds>>

\* The new file is validated; if that fails the old one is renamed back, unless
\* this fails as well.
Validate ==
  /\ pc = "renamed"
  /\ \/ pc' = "valid" /\ Valid(dir.data) /\ Synced(dir)
     \/ /\ FaultsAllowed \/ ~Valid(dir.data)
        /\ pc' = "failed" /\ Synced([dir EXCEPT !.data = dir.previous, !.previous = None])
     \/ FaultsAllowed /\ pc' = "failed" /\ Synced(dir)
  /\ UNCHANGED <<file, committed, up, user, cached, open, candidate, bounds>>

Restore(d) == [d EXCEPT !.data = d.previous, !.previous = None]
Retire(d) == [d EXCEPT !.previous = None, !.retired = @ \union {d.previous}]

\* recover() chooses what a directory becomes.
Recovered(d) ==
  IF d.previous = None THEN d ELSE IF ~Valid(d.data) THEN Restore(d) ELSE Retire(d)

\* The copy of a failed publication is removed (Candidate::drop), and recover()
\* gives up the second name: the publication's own, or the caller's when this
\* or the publication failed.  Where the caller's fails too, the name stays.
Disarm ==
  /\ pc \in {"valid", "failed"} /\ pc' = "disarmed"
  /\ LET d == [dir EXCEPT !.pending = None] IN
     \/ d.previous # None /\ Synced(Recovered(d))
     \/ (d.previous = None \/ FaultsAllowed) /\ Enter(d)
  /\ UNCHANGED <<file, committed, up, user, cached, open, candidate, bounds>>

\* The activity ends, and the obsolete files are removed; not where the
\* publication failed, or another request came first.
Dispose ==
  /\ pc = "disarmed" /\ pc' = "idle" /\ candidate' = None
  /\ \/ dir.previous = None /\ Synced(Cleaned(dir)) /\ file' = Collected(Cleaned(dir))
     \/ UNCHANGED <<dir, disk, file>>
  /\ UNCHANGED <<committed, up, user, cached, open, bounds>>

\* cleanup() of a later maintenance
Clean ==
  /\ up = "up" /\ pc = "idle" /\ Cleaned(dir) # dir
  /\ Synced(Cleaned(dir)) /\ file' = Collected(Cleaned(dir))
  /\ UNCHANGED <<committed, up, user, cached, open, pc, candidate, bounds>>

-----------------------------------------------------------------------------
(* Deaths, and recover() before the environment is opened again            *)

Die(d, survives) ==
  /\ deaths < MaxDeaths /\ deaths' = deaths + 1
  /\ up' = "down"
  /\ dir' = d /\ disk' = IF survives THEN disk ELSE {d}
  /\ open' = None /\ cached' = FALSE /\ user' = [u \in Users |-> "idle"]
  /\ pc' = "idle" /\ candidate' = None
  /\ UNCHANGED <<committed, copies>>

ProcessDies == Die(dir, TRUE) /\ UNCHANGED file

\* Unsynced data is lost with the power, and an old directory may come back.
PowerFails ==
  \E d \in disk :
    /\ Die(d, FALSE)
    /\ file' = [i \in Inodes |->
                  IF file[i] = None \/ i \notin InodesOf(d) THEN None
                  ELSE [file[i] EXCEPT !.whole = @ /\ file[i].synced]]

Recover ==
  /\ up = "down" /\ up' = "recovering"
  /\ dir.previous = None \/ Valid(dir.data) \/ Valid(dir.previous)
  /\ Enter(Recovered(dir))
  /\ UNCHANGED <<file, committed, user, cached, open, pc, candidate, bounds>>

RecoverSyncs ==
  /\ up = "recovering" /\ up' = "up"
  /\ Synced(dir)
  /\ UNCHANGED <<file, committed, user, cached, open, pc, candidate, bounds>>

-----------------------------------------------------------------------------

User(u) == Arrive(u) \/ Open(u) \/ Commit(u) \/ Leave(u)

Maintain ==
  \/ CopyStarts \/ CopyEnds \/ Check \/ Take \/ Link \/ Replace \/ Validate
  \/ Disarm \/ Dispose \/ Clean

Next ==
  \/ \E u \in Users : User(u)
  \/ Forget
  \/ Prepare \/ Maintain
  \/ ProcessDies \/ PowerFails \/ Recover \/ RecoverSyncs

Spec == Init /\ [][Next]_vars

-----------------------------------------------------------------------------
(* Properties                                                              *)

Holds(d) ==
  LET data == Recovered(d).data IN
  /\ Valid(data) /\ file[data].commit = committed

\* Whatever step the process dies at, and whichever directory the disk has
\* after a power failure: recover() finds a valid database with every commit.
NothingLost ==
  /\ Holds(dir)
  /\ \A d \in disk :
       LET data == Recovered(d).data IN
       /\ Valid(data) /\ file[data].synced /\ file[data].commit = committed

\* Requests never use a file that a publication replaced.
HandleTrue == open # None => open = dir.data

\* A rollback name that is left when recover() fails is never restored over
\* newer commits: whichever directory is found after a death, recover() chooses
\* the file that requests use.
NotRolledBack == open # None => \A d \in disk : Recovered(d).data = open

\* Nothing is left of earlier publications, or of an interrupted one.
Disposed == dir.retired = {} /\ (dir.pending = None \/ pc # "idle")
=============================================================================
