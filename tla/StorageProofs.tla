---------------------------- MODULE StorageProofs ----------------------------
(***************************************************************************)
(* Proofs about the components that keep files, for any number of workers, *)
(* requests, files, contents, views, copies, faults and deaths:            *)
(*                                                                         *)
(*   Compaction  replacing the analysis database by a compact copy loses   *)
(*               no commit (NothingLost), and no request uses a file that  *)
(*               was replaced (HandleTrue);                                *)
(*   BlobStore   what has a name has its contents, and what was found can  *)
(*               be linked (BlobsTrue);                                    *)
(*   ViewLeases  what is in use or indexed is not retired, and the catalog *)
(*               goes forward (LeasesTrue).                                *)
(***************************************************************************)
EXTENDS Storage, TLAPS, FiniteSetTheorems

-----------------------------------------------------------------------------
(***************************************************************************)
(* Compaction                                                              *)
(*                                                                         *)
(* What is kept for every directory the disk may come back with is what    *)
(* recover() would choose in it: a whole, synced file with all commits.    *)
(* A commit goes to one file, so while the database is open all of these   *)
(* directories have that file under the live name, and as it is whole no   *)
(* second name is restored over it.  The rename of a publication is the    *)
(* only time they differ, and then nothing is open and the copy is as good *)
(* as the file it replaces.                                                *)
(***************************************************************************)

Good(i) == Valid(i) /\ file[i].synced /\ file[i].commit = committed
Kept(d) == Good(Recovered(d).data)
Plain(d) == d.data = dir.data

DiskOK == dir \in disk /\ \A d \in disk : Kept(d)

\* But for the rename of a publication the disk knows one file.
Swapping == pc = "renamed"
Settled ==
  /\ up = "up" /\ ~Swapping => \A d \in disk : Plain(d)
  /\ up = "up" => Good(dir.data)
  /\ up = "recovering" => dir.previous = None

\* Who uses the database, and when nobody does.
Usage ==
  /\ up # "up" => pc = "idle"
  /\ up # "up" \/ Exclusive => open = None /\ ~cached /\ \A u \in Users : user[u] = "idle"
  /\ open # None => open = dir.data
  /\ MaintenanceHolds \/ (\E u \in Users : user[u] = "open") => open # None

\* The copy contains the candidate's commits at least, and all of them once
\* nothing is committed any more.
Copy ==
  /\ MaintenanceHolds =>
       /\ candidate \in [commit : 0..MaxCommits, inode : Inodes]
       /\ candidate.commit <= committed
       /\ dir.pending # None =>
            /\ dir.pending # dir.data /\ file[dir.pending] # None
            /\ candidate.commit <= file[dir.pending].commit
            /\ file[dir.pending].commit <= committed
  /\ pc \in {"copied", "ready"} =>
       dir.pending # None /\ Valid(dir.pending) /\ file[dir.pending].synced
  /\ pc \in {"exclusive", "linked"} => Good(dir.pending)
  /\ pc \in {"linked", "renamed"} => Good(dir.previous)

CompactionInv == TypeOK /\ DiskOK /\ Settled /\ Usage /\ Copy

-----------------------------------------------------------------------------
(* Directories and files.                                                  *)

\* What recover() chooses depends on the named files only.
LEMMA KeptAs ==
    ASSUME NEW d \in Directories, committed' = committed,
           \A i \in InodesOf(d) \cap Inodes : file'[i] = file[i]
    PROVE  Kept(d)' <=> Kept(d)
<1>1. /\ d.data \in Inodes \cup {None} /\ d.previous \in Inodes \cup {None}
      /\ d.data \in InodesOf(d) /\ d.previous \in InodesOf(d)
  BY DEF Directories, InodesOf
<1>2. ASSUME NEW i \in {d.data, d.previous}
      PROVE  (Valid(i)' <=> Valid(i)) /\ (Good(i)' <=> Good(i))
  BY <1>1 DEF Valid, Good
<1>3. Recovered(d)' = Recovered(d)
  BY <1>2 DEF Recovered, Restore, Retire
<1>4. Recovered(d).data \in {d.data, d.previous}
  BY DEF Recovered, Restore, Retire, Directories
<1> QED
  BY <1>2, <1>3, <1>4 DEF Kept

\* A name for a good file is kept, and so is a good file for another name.
LEMMA GoodKept ==
    ASSUME NEW d \in Directories, Good(d.data) PROVE Kept(d)
BY DEF Kept, Recovered, Good, Retire, Directories

\* Collection spares what the disk may still name.
LEMMA CollectedKeeps ==
    ASSUME NEW d, d \in disk' \/ d = dir', NEW e, dir' = e, file' = Collected(e),
           NEW i \in InodesOf(d) \cap Inodes
    PROVE  file'[i] = file[i]
BY DEF Collected, Used

LEMMA CleanedOK ==
    ASSUME NEW d \in Directories
    PROVE  /\ Cleaned(d) \in Directories
           /\ Cleaned(d).data = d.data /\ Cleaned(d).previous = d.previous
BY DEF Cleaned, Directories

LEMMA GoodInode ==
    ASSUME TypeOK, NEW i, Good(i), i \in Inodes \cup {None}
    PROVE  i \in Inodes /\ file[i] \in Databases /\ file[i].whole /\ file[i].synced
           /\ file[i].commit = committed
BY DEF Good, Valid, TypeOK

\* A directory that names the good file is kept, in a step that spares it.
LEMMA NewKept ==
    ASSUME TypeOK, NEW d \in Directories, Good(d.data), committed' = committed,
           \A i \in InodesOf(d) \cap Inodes : file'[i] = file[i]
    PROVE  Kept(d)'
BY KeptAs, GoodKept

LEMMA GoodAs ==
    ASSUME NEW i \in Inodes, Good(i), committed' = committed, file'[i] = file[i]
    PROVE  Good(i)'
BY DEF Good, Valid

-----------------------------------------------------------------------------
(* Requests.                                                               *)

LEMMA Still ==
    ASSUME CompactionInv, UNCHANGED <<dir, disk, file, committed>>
    PROVE  /\ DiskOK' /\ \A i : Good(i)' <=> Good(i)
           /\ (up' = up /\ (Swapping' <=> Swapping) => Settled')
<1>1. \A i : (Good(i)' <=> Good(i)) /\ (Valid(i)' <=> Valid(i))
  BY DEF Good, Valid
<1>2. ASSUME NEW d \in disk PROVE Kept(d)' <=> Kept(d)
  BY <1>2, KeptAs DEF CompactionInv, TypeOK
<1> QED
  BY <1>1, <1>2 DEF CompactionInv, DiskOK, Settled, Plain

LEMMA StepRequest ==
    ASSUME CompactionInv,
           (\E u \in Users : Arrive(u) \/ Open(u) \/ Leave(u)) \/ Forget
    PROVE  CompactionInv'
<1> USE DEF CompactionInv, TypeOK
<1>1. UNCHANGED <<dir, disk, file, committed, up, pc, candidate, bounds>>
  BY DEF Arrive, Open, Leave, Forget
<1>2. DiskOK' /\ Settled' /\ \A i : (Good(i)' <=> Good(i))
  BY <1>1, Still DEF Swapping
<1>3. Copy'
  BY <1>1, <1>2 DEF Copy, MaintenanceHolds, Valid
<1>4. TypeOK' /\ Usage'
  <2>1. ASSUME NEW u \in Users, Arrive(u) PROVE TypeOK' /\ Usage'
    BY <1>1, <2>1 DEF Arrive, Usage, Exclusive, MaintenanceHolds, bounds
  <2>2. ASSUME NEW u \in Users, Open(u) PROVE TypeOK' /\ Usage'
    <3>1. up = "up" /\ ~Exclusive
      BY <2>2 DEF Open, Usage
    <3>2. dir.data # None /\ dir.data \in Inodes
      BY <3>1, GoodInode, NoneAssumption DEF Settled, Directories
    <3> QED
      BY <1>1, <2>2, <3>1, <3>2 DEF Open, Usage, Exclusive, MaintenanceHolds, bounds
  <2>3. ASSUME NEW u \in Users, Leave(u) PROVE TypeOK' /\ Usage'
    <3>1. up = "up" /\ ~Exclusive
      BY <2>3 DEF Leave, Usage
    <3> QED
      BY <1>1, <2>3, <3>1 DEF Leave, Usage, Exclusive, MaintenanceHolds, Holders, bounds
  <2>4. CASE Forget
    <3>1. up = "up" /\ ~Exclusive
      BY <2>4 DEF Forget, Usage
    <3> QED
      BY <1>1, <2>4, <3>1 DEF Forget, Usage, Exclusive, MaintenanceHolds, Holders,
         bounds
  <2> QED
    BY <2>1, <2>2, <2>3, <2>4
<1> QED
  BY <1>2, <1>3, <1>4

\* A commit goes to the file that every directory names.
LEMMA StepCommit == ASSUME CompactionInv, NEW u \in Users, Commit(u) PROVE CompactionInv'
<1> USE DEF CompactionInv, TypeOK
<1>1. /\ open # None /\ open = dir.data /\ up = "up" /\ ~Exclusive
      /\ committed' = committed + 1 /\ committed < MaxCommits
      /\ file' = [file EXCEPT ![open].commit = committed']
      /\ UNCHANGED <<dir, disk, up, user, cached, open, pc, candidate, bounds>>
  BY DEF Commit, Usage
<1>2. Good(dir.data) /\ open \in Inodes /\ file[open] \in Databases /\ ~Swapping
  BY <1>1, GoodInode DEF Settled, Exclusive, Swapping, Directories
<1>3. /\ file[open].whole /\ file[open].synced /\ committed \in Nat /\ committed' \in 0..MaxCommits
      /\ file'[open] = [commit |-> committed', whole |-> TRUE, synced |-> TRUE]
      /\ \A i \in Inodes \ {open} : file'[i] = file[i]
  <2>1. /\ file[open].commit = committed /\ file[open].whole = TRUE
        /\ file[open].synced = TRUE /\ committed \in 0..MaxCommits
    BY <1>1, <1>2, GoodInode DEF Databases
  <2>2. file[open] = [commit |-> committed, whole |-> TRUE, synced |-> TRUE]
    BY <1>2, <2>1 DEF Databases
  <2>3. committed \in Nat /\ committed' \in 0..MaxCommits
    BY <1>1, <2>1, BoundAssumption
  <2> QED
    BY <1>1, <1>2, <2>1, <2>2, <2>3
<1>4. file' \in [Inodes -> {None} \union Databases] /\ file'[open] # None
  BY <1>1, <1>2, <1>3, NoneAssumption DEF Databases
<1>5. Good(open)'
  BY <1>1, <1>2, <1>3, <1>4, NoneAssumption DEF Good, Valid
<1>6. ASSUME NEW d \in disk PROVE Kept(d)'
  <2>1. d.data = open /\ d \in Directories
    BY <1>1, <1>2 DEF Settled, Plain
  <2>2. Recovered(d)'.data = open
    BY <1>1, <1>5, <2>1 DEF Good, Recovered, Retire, Directories
  <2> QED
    BY <1>1, <1>5, <2>2 DEF Kept
<1>7. DiskOK' /\ Settled'
  BY <1>1, <1>2, <1>5, <1>6 DEF DiskOK, Settled, Plain, Swapping
<1>8. Copy'
  <2>1. pc \notin {"exclusive", "linked", "renamed"}
    BY <1>1 DEF Exclusive
  <2>2. CASE MaintenanceHolds
    <3>1. candidate \in [commit : 0..MaxCommits, inode : Inodes] /\ candidate.commit <= committed
      BY <2>2 DEF Copy
    <3>2. candidate.commit \in Nat /\ candidate.commit <= committed'
      BY <1>1, <1>3, <3>1
    <3>3. ASSUME dir.pending # None
          PROVE  /\ dir.pending # dir.data /\ file[dir.pending] \in Databases
                 /\ file'[dir.pending] = file[dir.pending]
                 /\ candidate.commit <= file[dir.pending].commit
                 /\ file[dir.pending].commit <= committed'
      <4>1. dir.pending \in Inodes \ {open} /\ file[dir.pending] # None
        BY <1>1, <2>2, <3>3 DEF Copy, Directories
      <4>2. file[dir.pending] \in Databases
        BY <4>1
      <4>3. file[dir.pending].commit \in Nat /\ file[dir.pending].commit <= committed
        BY <2>2, <3>3, <4>2 DEF Copy, Databases
      <4> QED
        BY <1>1, <1>3, <2>2, <3>3, <4>1, <4>2, <4>3 DEF Copy
    <3> QED
      BY <1>1, <2>1, <2>2, <3>1, <3>2, <3>3, NoneAssumption DEF Copy,
         MaintenanceHolds, Valid
  <2>3. CASE ~MaintenanceHolds
    BY <1>1, <2>1, <2>3 DEF Copy, MaintenanceHolds
  <2> QED
    BY <2>2, <2>3
<1>9. TypeOK' /\ Usage'
  BY <1>1, <1>3, <1>4 DEF Usage, Exclusive, MaintenanceHolds, bounds
<1> QED
  BY <1>7, <1>8, <1>9

-----------------------------------------------------------------------------
(* The copy.                                                               *)

\* The obsolete files go; what every directory would recover to stays.
LEMMA CleanUp ==
    ASSUME CompactionInv, Synced(Cleaned(dir)), file' = Collected(Cleaned(dir)), committed' = committed,
           dir.previous = None, up = "up"
    PROVE  /\ dir' \in Directories /\ disk' = {dir'}
           /\ dir'.data = dir.data /\ dir'.previous = None /\ dir'.pending = None
           /\ dir.data \in Inodes /\ file'[dir.data] = file[dir.data] /\ Good(dir.data)'
           /\ file' \in [Inodes -> {None} \union Databases]
           /\ DiskOK' /\ \A d \in disk' : Plain(d)'
<1> USE DEF CompactionInv, TypeOK
<1>1. /\ dir' \in Directories /\ disk' = {dir'} /\ dir' = Cleaned(dir)
      /\ dir'.data = dir.data /\ dir'.previous = None /\ dir'.pending = None
  <2>1. dir' = Cleaned(dir) /\ disk' = {dir'}
    BY DEF Synced
  <2>2. Cleaned(dir).pending = None
    BY DEF Cleaned, Directories
  <2> QED
    BY <2>1, <2>2, CleanedOK
<1>2. Good(dir.data) /\ dir.data \in Inodes
  BY GoodInode DEF Settled, Directories
<1>3. ASSUME NEW d \in disk' PROVE Kept(d)' /\ file'[dir.data] = file[dir.data]
  <2>1. d \in Directories /\ Good(d.data) /\ dir.data \in InodesOf(d)
    BY <1>1, <1>2, <1>3 DEF InodesOf
  <2>2. \A i \in InodesOf(d) \cap Inodes : file'[i] = file[i]
    BY <1>1, <1>3, CollectedKeeps
  <2> QED
    BY <1>2, <2>1, <2>2, NewKept
<1>4. file'[dir.data] = file[dir.data]
  BY <1>1, <1>3
<1>5. Good(dir.data)'
  BY <1>1, <1>2, <1>4 DEF Good, Valid
<1>6. file' \in [Inodes -> {None} \union Databases]
  BY DEF Collected
<1> QED
  BY <1>1, <1>2, <1>3, <1>4, <1>5, <1>6 DEF DiskOK, Plain

LEMMA StepPrepare == ASSUME CompactionInv, Prepare PROVE CompactionInv'
<1> USE DEF CompactionInv, TypeOK
<1>1. /\ up = "up" /\ pc = "idle" /\ dir.previous = None /\ pc' = "copying"
      /\ copies' \in 0..MaxCopies
      /\ open' = (IF open = None THEN dir.data ELSE open)
      /\ candidate' = [commit |-> file[open'].commit, inode |-> dir.data]
      /\ UNCHANGED <<committed, up, user, cached, deaths>>
      /\ Synced(Cleaned(dir)) /\ file' = Collected(Cleaned(dir))
  BY BoundAssumption DEF Prepare
<1>2. /\ dir' \in Directories /\ disk' = {dir'}
      /\ dir'.data = dir.data /\ dir'.previous = None /\ dir'.pending = None
      /\ dir.data \in Inodes /\ file'[dir.data] = file[dir.data] /\ Good(dir.data)'
      /\ file' \in [Inodes -> {None} \union Databases]
      /\ DiskOK' /\ \A d \in disk' : Plain(d)'
  BY <1>1, CleanUp
<1>3. open' = dir.data
  BY <1>1 DEF Usage
<1>4. file[dir.data] \in Databases /\ file[dir.data].commit = committed
  BY <1>1, <1>2, GoodInode DEF Settled
<1>5. candidate' = [commit |-> committed, inode |-> dir.data]
  BY <1>1, <1>3, <1>4
<1>6. TypeOK'
  BY <1>1, <1>2, <1>3, <1>5
<1>7. Settled' /\ Usage'
  BY <1>1, <1>2, <1>3, NoneAssumption DEF Settled, Swapping, Usage, Exclusive,
     MaintenanceHolds
<1>8. Copy'
  BY <1>1, <1>2, <1>5 DEF Copy, MaintenanceHolds
<1> QED
  BY <1>2, <1>6, <1>7, <1>8

LEMMA StepCopyStarts == ASSUME CompactionInv, CopyStarts PROVE CompactionInv'
<1> USE DEF CompactionInv, TypeOK
<1>1. PICK i \in Free :
          /\ Enter([dir EXCEPT !.pending = i])
          /\ file' = [file EXCEPT ![i] = [commit |-> file[open].commit, whole |-> FALSE,
                                          synced |-> FALSE]]
  BY DEF CopyStarts
<1>2. /\ pc = "copying" /\ up = "up" /\ open # None /\ open = dir.data
      /\ UNCHANGED <<committed, up, user, cached, open, pc, candidate, bounds>>
  BY DEF CopyStarts, Usage, MaintenanceHolds
<1>3. Good(dir.data) /\ dir.data \in Inodes /\ file[dir.data] \in Databases
      /\ file[dir.data].commit = committed
  BY <1>2, GoodInode DEF Settled, Directories
<1>4. i \in Inodes /\ file[i] = None /\ i # dir.data
  BY <1>3, NoneAssumption DEF Free
<1>5. /\ dir' = [dir EXCEPT !.pending = i] /\ dir' \in Directories /\ disk' = disk \union {dir'}
      /\ dir'.data = dir.data /\ dir'.previous = dir.previous /\ dir'.pending = i
  BY <1>1, <1>4 DEF Enter, Directories
<1>6. /\ file'[i] = [commit |-> committed, whole |-> FALSE, synced |-> FALSE] /\ file'[i] \in Databases
      /\ \A j \in Inodes \ {i} : file'[j] = file[j]
      /\ file' \in [Inodes -> {None} \union Databases]
  BY <1>1, <1>2, <1>3, <1>4 DEF Databases
<1>7. Good(dir.data)'
  BY <1>2, <1>3, <1>4, <1>5, <1>6 DEF Good, Valid
<1>8. ASSUME NEW d \in disk' PROVE Plain(d)' /\ Kept(d)'
  <2>1. d.data = dir.data /\ d \in Directories
    <3>1. ~Swapping /\ dir \in disk
      BY <1>2 DEF Swapping, DiskOK
    <3> QED
      BY <1>2, <1>5, <1>8, <3>1 DEF Settled, Plain
  <2>2. Recovered(d)'.data = dir.data
    BY <1>5, <1>7, <2>1 DEF Good, Recovered, Retire, Directories
  <2> QED
    BY <1>5, <1>7, <2>1, <2>2 DEF Plain, Kept
<1>9. DiskOK' /\ Settled'
  BY <1>2, <1>5, <1>7, <1>8 DEF DiskOK, Settled
<1>10. TypeOK' /\ Usage'
  BY <1>2, <1>5, <1>6 DEF Usage, Exclusive, MaintenanceHolds, bounds
<1>11. Copy'
  <2>1. candidate \in [commit : 0..MaxCommits, inode : Inodes] /\ candidate.commit <= committed
    BY <1>2 DEF Copy, MaintenanceHolds
  <2>2. dir'.pending = i /\ file'[i] # None /\ i # dir'.data
    BY <1>4, <1>5, <1>6, NoneAssumption
  <2>3. file'[i].commit = committed /\ committed <= committed
    BY <1>6
  <2> QED
    BY <1>2, <2>1, <2>2, <2>3 DEF Copy, MaintenanceHolds
<1> QED
  BY <1>9, <1>10, <1>11

LEMMA StepCopyEnds == ASSUME CompactionInv, CopyEnds PROVE CompactionInv'
<1> USE DEF CompactionInv, TypeOK
<1> DEFINE p == dir.pending
<1>1. /\ pc = "copying" /\ up = "up" /\ p # None /\ pc' = "copied"
      /\ file' = [file EXCEPT ![p].whole = TRUE, ![p].synced = TRUE]
      /\ UNCHANGED <<dir, disk, committed, up, user, cached, open, candidate, bounds>>
  BY DEF CopyEnds, Usage
<1>2. p # dir.data /\ file[p] \in Databases /\ p \in Inodes
  BY <1>1 DEF Copy, MaintenanceHolds, Directories
<1>3. /\ file'[p] = [commit |-> file[p].commit, whole |-> TRUE, synced |-> TRUE]
      /\ file'[p] \in Databases
      /\ \A j \in Inodes \ {p} : file'[j] = file[j]
      /\ file' \in [Inodes -> {None} \union Databases]
  BY <1>1, <1>2 DEF Databases
<1>4. Good(dir.data) /\ dir.data \in Inodes
  BY <1>1, GoodInode DEF Settled, Directories
<1>5. Good(dir.data)'
  BY <1>1, <1>2, <1>3, <1>4 DEF Good, Valid
<1>6. ASSUME NEW d \in disk PROVE Plain(d) /\ Kept(d)'
  <2>1. Plain(d) /\ d \in Directories
    BY <1>1 DEF Settled, Swapping
  <2>2. Recovered(d)'.data = dir.data
    BY <1>1, <1>5, <2>1 DEF Plain, Good, Recovered, Retire, Directories
  <2> QED
    BY <1>1, <1>5, <2>1, <2>2 DEF Kept
<1>7. DiskOK' /\ Settled'
  BY <1>1, <1>5, <1>6 DEF DiskOK, Settled, Plain
<1>8. TypeOK' /\ Usage'
  BY <1>1, <1>3 DEF Usage, Exclusive, MaintenanceHolds, bounds
<1>9. Copy'
  BY <1>1, <1>2, <1>3, NoneAssumption DEF Copy, MaintenanceHolds, Valid, Databases
<1> QED
  BY <1>7, <1>8, <1>9

LEMMA StepDiscard ==
    ASSUME CompactionInv, Discard, MaintenanceHolds, UNCHANGED <<committed, up, user, cached, bounds>>
    PROVE  CompactionInv'
<1> USE DEF CompactionInv, TypeOK
<1>1. /\ dir' = [dir EXCEPT !.pending = None] /\ dir' \in Directories /\ disk' = disk \union {dir'}
      /\ dir'.data = dir.data /\ dir'.previous = dir.previous
      /\ file' = Collected(dir') /\ file' \in [Inodes -> {None} \union Databases]
      /\ open' = (IF Holders = {} /\ ~cached THEN None ELSE open)
      /\ candidate' = None /\ pc' = "idle" /\ up = "up" /\ ~Swapping /\ dir \in disk
  BY DEF Discard, Enter, Directories, Collected, MaintenanceHolds, Usage, Swapping,
     DiskOK
<1>2. Good(dir.data) /\ dir.data \in Inodes
  BY <1>1, GoodInode DEF Settled, Directories
<1>3. ASSUME NEW d \in disk' PROVE Plain(d)' /\ Kept(d)' /\ file'[dir.data] = file[dir.data]
  <2>1. d \in Directories /\ d.data = dir.data
    BY <1>1, <1>3 DEF Settled, Plain
  <2>2. \A i \in InodesOf(d) \cap Inodes : file'[i] = file[i]
    BY <1>1, <1>3, CollectedKeeps
  <2>3. Kept(d)' /\ dir.data \in InodesOf(d)
    BY <1>2, <2>1, <2>2, NewKept DEF InodesOf
  <2> QED
    BY <1>1, <1>2, <2>1, <2>2, <2>3 DEF Plain
<1>4. Good(dir.data)'
  BY <1>1, <1>2, <1>3 DEF Good, Valid
<1>5. DiskOK' /\ Settled'
  BY <1>1, <1>3, <1>4 DEF DiskOK, Settled
<1>6. TypeOK' /\ Usage' /\ Copy'
  BY <1>1 DEF Usage, Exclusive, MaintenanceHolds, Holders, Copy, bounds
<1> QED
  BY <1>5, <1>6

\* The copy is current when the candidate is: nothing was committed since.
LEMMA StepTake == ASSUME CompactionInv, Check \/ Take PROVE CompactionInv'
<1> USE DEF CompactionInv, TypeOK
<1>1. CASE Discard
  <2>1. MaintenanceHolds
    BY DEF Check, Take, MaintenanceHolds
  <2>2. UNCHANGED <<committed, up, user, bounds>> /\ cached' = cached
    <3>1. pc' = "idle"
      BY <1>1 DEF Discard
    <3> QED
      BY <3>1 DEF Check, Take
  <2> QED
    BY <1>1, <2>1, <2>2, StepDiscard
<1>2. CASE Check /\ ~Discard
  <2>1. /\ pc = "copied" /\ pc' = "ready"
        /\ UNCHANGED <<dir, disk, file, open, candidate, committed, up, user, cached, bounds>>
    BY <1>2 DEF Check
  <2>2. DiskOK' /\ Settled' /\ \A i : (Good(i)' <=> Good(i))
    BY <2>1, Still DEF Swapping
  <2> QED
    BY <2>1, <2>2 DEF Usage, Exclusive, MaintenanceHolds, Copy, Valid, bounds
<1>3. CASE Take /\ ~Discard
  <2>1. /\ pc = "ready" /\ pc' = "exclusive" /\ Current /\ \A u \in Users : user[u] = "idle"
        /\ ~cached' /\ cached' \in BOOLEAN /\ open' = None
        /\ UNCHANGED <<dir, disk, file, candidate, committed, up, user, bounds>>
    BY <1>3 DEF Take
  <2>2. DiskOK' /\ Settled' /\ \A i : (Good(i)' <=> Good(i))
    BY <2>1, Still DEF Swapping
  <2>3. Good(dir.pending)
    <3>1. up = "up" /\ open = dir.data
      BY <2>1 DEF Usage, MaintenanceHolds
    <3>2. candidate.commit = committed
      BY <2>1, <3>1, GoodInode DEF Current, Settled, Directories
    <3>3. /\ Valid(dir.pending) /\ file[dir.pending].synced /\ dir.pending \in Inodes
          /\ committed <= file[dir.pending].commit /\ file[dir.pending].commit <= committed
      BY <2>1, <3>2 DEF Copy, MaintenanceHolds, Directories
    <3>4. file[dir.pending].commit \in Nat /\ committed \in Nat
      BY <3>3, BoundAssumption DEF Valid, Databases
    <3> QED
      BY <3>3, <3>4 DEF Good
  <2>4. Usage' /\ Copy'
    <3>1. up = "up"
      BY <2>1 DEF Usage
    <3> QED
      BY <2>1, <2>2, <2>3, <3>1 DEF Usage, Exclusive, MaintenanceHolds, Copy
  <2> QED
    BY <2>1, <2>2, <2>4 DEF bounds
<1> QED
  BY <1>1, <1>2, <1>3

-----------------------------------------------------------------------------
(* The publication: the names change, and no file does.                    *)

\* No publication step begins before the copy is current, and while it lasts
\* nobody uses the database.
LEMMA Publishing ==
    ASSUME CompactionInv, Link \/ Replace \/ Validate \/ Disarm
    PROVE  /\ up = "up" /\ Exclusive /\ open = None /\ ~cached
           /\ \A u \in Users : user[u] = "idle"
           /\ UNCHANGED <<file, committed, up, user, cached, open, candidate, bounds>>
           /\ Good(dir.data) /\ dir.data \in Inodes /\ dir \in disk /\ dir \in Directories
           /\ \A i : (Good(i)' <=> Good(i))
           /\ \A d \in Directories : Good(d.data) => Kept(d)'
<1> USE DEF CompactionInv, TypeOK
<1>1. /\ up = "up" /\ Exclusive
      /\ UNCHANGED <<file, committed, up, user, cached, open, candidate, bounds>>
  BY DEF Link, Replace, Validate, Disarm, Exclusive, Usage
<1>2. open = None /\ ~cached /\ \A u \in Users : user[u] = "idle"
  BY <1>1 DEF Usage
<1>3. Good(dir.data) /\ dir.data \in Inodes /\ dir \in disk /\ dir \in Directories
  BY <1>1, GoodInode DEF Settled, DiskOK, Directories
<1>4. \A i : (Good(i)' <=> Good(i))
  BY <1>1 DEF Good, Valid
<1>5. \A d \in Directories : Good(d.data) => Kept(d)'
  BY <1>1, NewKept
<1> QED
  BY <1>1, <1>2, <1>3, <1>4, <1>5

\* A step of the publication that fails changes no name.
LEMMA StepFails ==
    ASSUME CompactionInv, Link \/ Replace, pc' = "failed", UNCHANGED <<dir, disk>>
    PROVE  CompactionInv'
<1> USE DEF CompactionInv, TypeOK
<1>1. /\ up = "up" /\ Exclusive /\ open = None /\ ~cached
      /\ \A u \in Users : user[u] = "idle"
      /\ UNCHANGED <<file, committed, up, user, cached, open, candidate, bounds>>
      /\ Good(dir.data) /\ \A i : (Good(i)' <=> Good(i))
  BY Publishing
<1>2. DiskOK'
  BY <1>1, Still
<1>3. Settled' /\ Usage' /\ Copy'
  BY <1>1 DEF Settled, Plain, Swapping, Link, Replace, Usage, Exclusive, MaintenanceHolds, Copy
<1> QED
  BY <1>1, <1>2, <1>3 DEF bounds

LEMMA StepLink == ASSUME CompactionInv, Link PROVE CompactionInv'
<1> USE DEF CompactionInv, TypeOK
<1>1. CASE pc' = "failed" /\ UNCHANGED <<dir, disk>>
  BY <1>1, StepFails
<1>2. CASE ~(pc' = "failed" /\ UNCHANGED <<dir, disk>>)
  <2>1. /\ pc = "exclusive" /\ pc' = "linked" /\ Synced([dir EXCEPT !.previous = dir.data])
    BY <1>2 DEF Link
  <2>2. /\ up = "up" /\ open = None /\ ~cached /\ \A u \in Users : user[u] = "idle"
        /\ UNCHANGED <<file, committed, up, user, cached, open, candidate, bounds>>
        /\ Good(dir.data) /\ dir.data \in Inodes /\ \A i : (Good(i)' <=> Good(i))
        /\ \A d \in Directories : Good(d.data) => Kept(d)'
    BY Publishing
  <2>3. /\ dir' \in Directories /\ disk' = {dir'}
        /\ dir'.data = dir.data /\ dir'.previous = dir.data /\ dir'.pending = dir.pending
    BY <2>1, <2>2 DEF Synced, Directories
  <2>4. DiskOK'
    BY <2>2, <2>3 DEF DiskOK
  <2>5. Good(dir.pending)
    BY <2>1 DEF Copy
  <2>6. Settled' /\ Usage' /\ Copy'
    BY <2>1, <2>2, <2>3, <2>5 DEF Settled, Plain, Swapping, Usage, Exclusive,
       MaintenanceHolds, Copy
  <2> QED
    BY <2>1, <2>2, <2>3, <2>4, <2>6 DEF bounds
<1> QED
  BY <1>1, <1>2

LEMMA StepReplace == ASSUME CompactionInv, Replace PROVE CompactionInv'
<1> USE DEF CompactionInv, TypeOK
<1>1. CASE pc' = "failed" /\ UNCHANGED <<dir, disk>>
  BY <1>1, StepFails
<1>2. CASE ~(pc' = "failed" /\ UNCHANGED <<dir, disk>>)
  <2>1. /\ pc = "linked" /\ pc' = "renamed"
        /\ Enter([dir EXCEPT !.data = dir.pending, !.pending = None])
    BY <1>2 DEF Replace
  <2>2. /\ up = "up" /\ open = None /\ ~cached /\ \A u \in Users : user[u] = "idle"
        /\ UNCHANGED <<file, committed, up, user, cached, open, candidate, bounds>>
        /\ \A i : (Good(i)' <=> Good(i))
        /\ \A d \in Directories : Good(d.data) => Kept(d)'
    BY Publishing
  <2>3. Good(dir.pending) /\ Good(dir.previous)
    BY <2>1 DEF Copy
  <2>4. /\ dir' \in Directories /\ disk' = disk \union {dir'}
        /\ dir'.data = dir.pending /\ dir'.previous = dir.previous
    BY <2>1 DEF Enter, Directories
  <2>5. DiskOK'
    <3>1. ASSUME NEW d \in disk PROVE Kept(d)'
      BY <2>2, <3>1, KeptAs DEF DiskOK
    <3> QED
      BY <2>2, <2>3, <2>4, <3>1 DEF DiskOK
  <2>6. Settled' /\ Usage' /\ Copy'
    BY <2>1, <2>2, <2>3, <2>4 DEF Settled, Swapping, Usage, Exclusive,
       MaintenanceHolds, Copy
  <2> QED
    BY <2>1, <2>2, <2>4, <2>5, <2>6 DEF bounds
<1> QED
  BY <1>1, <1>2

\* Whether the new file passes or the old one is renamed back.
LEMMA StepValidate == ASSUME CompactionInv, Validate PROVE CompactionInv'
<1> USE DEF CompactionInv, TypeOK
<1>1. /\ up = "up" /\ open = None /\ ~cached /\ \A u \in Users : user[u] = "idle"
      /\ UNCHANGED <<file, committed, up, user, cached, open, candidate, bounds>>
      /\ Good(dir.data) /\ \A i : (Good(i)' <=> Good(i))
      /\ \A d \in Directories : Good(d.data) => Kept(d)'
  BY Publishing
<1>2. pc = "renamed" /\ pc' \in {"valid", "failed"} /\ Good(dir.previous)
  BY DEF Validate, Copy
<1>3. dir' \in Directories /\ disk' = {dir'} /\ dir'.data \in {dir.data, dir.previous}
  BY DEF Validate, Synced, Directories
<1>4. DiskOK'
  BY <1>1, <1>2, <1>3 DEF DiskOK
<1>5. Settled' /\ Usage' /\ Copy'
  BY <1>1, <1>2, <1>3 DEF Settled, Plain, Swapping, Usage, Exclusive, MaintenanceHolds, Copy
<1> QED
  BY <1>1, <1>2, <1>3, <1>4, <1>5 DEF bounds

LEMMA StepDisarm == ASSUME CompactionInv, Disarm PROVE CompactionInv'
<1> USE DEF CompactionInv, TypeOK
<1> DEFINE e == [dir EXCEPT !.pending = None]
<1>1. /\ up = "up" /\ open = None /\ ~cached /\ \A u \in Users : user[u] = "idle"
      /\ UNCHANGED <<file, committed, up, user, cached, open, candidate, bounds>>
      /\ Good(dir.data) /\ \A i : (Good(i)' <=> Good(i))
      /\ \A d \in Directories : Good(d.data) => Kept(d)'
  BY Publishing
<1>2. pc \in {"valid", "failed"} /\ pc' = "disarmed" /\ \A d \in disk : Plain(d)
  BY <1>1 DEF Disarm, Settled, Swapping
<1>3. e \in Directories /\ e.data = dir.data /\ e.previous = dir.previous
  BY DEF Directories
<1>4. CASE e.previous # None /\ Synced(Recovered(e))
  <2>1. Recovered(e) = Retire(e) /\ e.previous \in Inodes
    BY <1>1, <1>3, <1>4 DEF Recovered, Good, Directories
  <2>2. Retire(e) \in Directories /\ Retire(e).data = dir.data
    BY <1>3, <2>1 DEF Retire, Directories
  <2>3. dir' \in Directories /\ disk' = {dir'} /\ dir'.data = dir.data
    BY <1>4, <2>1, <2>2 DEF Synced
  <2>4. DiskOK'
    BY <1>1, <2>3 DEF DiskOK
  <2>5. Settled' /\ Usage' /\ Copy'
    BY <1>1, <1>2, <2>3 DEF Settled, Plain, Swapping, Usage, Exclusive,
       MaintenanceHolds, Copy
  <2> QED
    BY <1>1, <1>2, <2>3, <2>4, <2>5 DEF bounds
<1>5. CASE Enter(e)
  <2>1. dir' = e /\ dir' \in Directories /\ disk' = disk \union {dir'} /\ dir'.data = dir.data
    BY <1>3, <1>5 DEF Enter
  <2>2. \A d \in disk' : d \in Directories /\ d.data = dir.data
    BY <1>2, <2>1 DEF Plain
  <2>3. DiskOK'
    BY <1>1, <2>1, <2>2 DEF DiskOK
  <2>4. Settled' /\ Usage' /\ Copy'
    BY <1>1, <1>2, <2>1, <2>2 DEF Settled, Plain, Swapping, Usage, Exclusive,
       MaintenanceHolds, Copy
  <2> QED
    BY <1>1, <1>2, <2>1, <2>3, <2>4 DEF bounds
<1> QED
  BY <1>4, <1>5 DEF Disarm

\* Requests may have come in by now.
LEMMA StepDispose == ASSUME CompactionInv, Dispose \/ Clean PROVE CompactionInv'
<1> USE DEF CompactionInv, TypeOK
<1>1. /\ up = "up" /\ pc \in {"disarmed", "idle"} /\ pc' = "idle"
      /\ candidate' \in {None, candidate}
      /\ UNCHANGED <<committed, up, user, cached, open, bounds>>
  BY DEF Dispose, Clean, Usage
<1>2. CASE dir.previous = None /\ Synced(Cleaned(dir)) /\ file' = Collected(Cleaned(dir))
  <2>1. /\ dir' \in Directories /\ disk' = {dir'} /\ dir'.data = dir.data
        /\ Good(dir.data)' /\ file' \in [Inodes -> {None} \union Databases]
        /\ DiskOK' /\ \A d \in disk' : Plain(d)'
    BY <1>1, <1>2, CleanUp
  <2>2. Settled' /\ Usage' /\ Copy'
    BY <1>1, <2>1 DEF Settled, Usage, Exclusive, MaintenanceHolds, Copy
  <2> QED
    BY <1>1, <2>1, <2>2 DEF bounds
<1>3. CASE UNCHANGED <<dir, disk, file>>
  <2>1. DiskOK' /\ Settled'
    BY <1>1, <1>3, Still DEF Swapping
  <2>2. Usage' /\ Copy'
    BY <1>1, <1>3 DEF Usage, Exclusive, MaintenanceHolds, Copy
  <2> QED
    BY <1>1, <1>3, <2>1, <2>2 DEF bounds
<1>4. Clean => dir.previous = None
  BY DEF Clean, Cleaned
<1> QED
  BY <1>2, <1>3, <1>4 DEF Dispose, Clean

-----------------------------------------------------------------------------
(* Deaths.                                                                 *)

\* A power failure spoils no file that recover() would choose.
LEMMA PowerKeeps ==
    ASSUME TypeOK, NEW d \in Directories, Kept(d), committed' = committed,
           file' = [i \in Inodes |->
                      IF file[i] = None \/ i \notin InodesOf(d) THEN None
                      ELSE [file[i] EXCEPT !.whole = @ /\ file[i].synced]]
    PROVE  Kept(d)' /\ file' \in [Inodes -> {None} \union Databases]
<1> USE DEF TypeOK
<1>1. /\ d.data \in Inodes \cup {None} /\ d.previous \in Inodes \cup {None}
      /\ d.data \in InodesOf(d) /\ d.previous \in InodesOf(d)
  BY DEF Directories, InodesOf
<1>2. ASSUME NEW i \in Inodes, i \in InodesOf(d)
      PROVE  /\ file'[i] \in {None} \union Databases
             /\ Valid(i) /\ file[i].synced => file'[i] = file[i]
             /\ ~Valid(i) => ~Valid(i)'
  <2>1. CASE file[i] = None
    BY <1>2, <2>1, NoneAssumption DEF Valid
  <2>2. CASE file[i] # None
    <3>1. /\ file[i] \in Databases
          /\ file'[i] = [file[i] EXCEPT !.whole = @ /\ file[i].synced]
      BY <1>2, <2>2
    <3>2. file'[i] = [commit |-> file[i].commit, whole |-> (file[i].whole /\ file[i].synced),
                      synced |-> file[i].synced]
      BY <3>1 DEF Databases
    <3> QED
      BY <1>2, <2>2, <3>1, <3>2 DEF Valid, Databases
  <2> QED
    BY <2>1, <2>2
<1>3. file' \in [Inodes -> {None} \union Databases]
  BY <1>2
<1>4. ASSUME NEW i \in {d.data, d.previous}
      PROVE  (Good(i) => Good(i)') /\ (~Valid(i) => ~Valid(i)')
  <2>1. CASE i = None
    BY <2>1 DEF Good, Valid
  <2>2. CASE i # None
    <3>1. i \in Inodes /\ i \in InodesOf(d)
      BY <1>1, <2>2
    <3>2. /\ Valid(i) /\ file[i].synced => file'[i] = file[i]
          /\ ~Valid(i) => ~Valid(i)'
      BY <1>2, <3>1
    <3> QED
      BY <3>2 DEF Good, Valid
  <2> QED
    BY <2>1, <2>2
<1>5. CASE d.previous = None \/ Valid(d.data)
  <2>1. Recovered(d).data = d.data /\ Good(d.data)
    BY <1>5 DEF Kept, Recovered, Retire, Directories
  <2>2. Good(d.data)' /\ Recovered(d)'.data = d.data
    BY <1>4, <2>1 DEF Recovered, Retire, Directories, Good
  <2> QED
    BY <1>3, <2>2 DEF Kept
<1>6. CASE d.previous # None /\ ~Valid(d.data)
  <2>1. Recovered(d).data = d.previous /\ Good(d.previous)
    BY <1>6 DEF Kept, Recovered, Restore, Directories
  <2>2. Good(d.previous)' /\ Recovered(d)'.data = d.previous
    BY <1>4, <1>6, <2>1 DEF Recovered, Restore, Directories
  <2> QED
    BY <1>3, <2>2 DEF Kept
<1> QED
  BY <1>5, <1>6

LEMMA StepDie == ASSUME CompactionInv, ProcessDies \/ PowerFails PROVE CompactionInv'
<1> USE DEF CompactionInv, TypeOK
<1>1. /\ up' = "down" /\ pc' = "idle" /\ open' = None /\ cached' = FALSE /\ candidate' = None
      /\ user' = [u \in Users |-> "idle"] /\ UNCHANGED <<committed, copies>>
      /\ deaths' \in 0..MaxDeaths
  BY BoundAssumption DEF ProcessDies, PowerFails, Die
<1>2. Settled' /\ Usage' /\ Copy'
  BY <1>1 DEF Settled, Usage, Exclusive, MaintenanceHolds, Copy
<1>3. CASE ProcessDies
  <2>1. UNCHANGED <<dir, disk, file>>
    BY <1>3 DEF ProcessDies, Die
  <2> QED
    BY <1>1, <1>2, <2>1, Still
<1>4. CASE PowerFails
  <2>1. PICK d \in disk :
            /\ dir' = d /\ disk' = {d}
            /\ file' = [i \in Inodes |->
                          IF file[i] = None \/ i \notin InodesOf(d) THEN None
                          ELSE [file[i] EXCEPT !.whole = @ /\ file[i].synced]]
    BY <1>4 DEF PowerFails, Die
  <2>2. Kept(d)' /\ file' \in [Inodes -> {None} \union Databases]
    BY <1>1, <2>1, PowerKeeps DEF DiskOK
  <2> QED
    BY <1>1, <1>2, <2>1, <2>2 DEF DiskOK
<1> QED
  BY <1>3, <1>4

LEMMA StepRecover == ASSUME CompactionInv, Recover \/ RecoverSyncs PROVE CompactionInv'
<1> USE DEF CompactionInv, TypeOK
<1>1. /\ up \in {"down", "recovering"} /\ pc = "idle" /\ open = None /\ ~cached
      /\ \A u \in Users : user[u] = "idle"
      /\ UNCHANGED <<file, committed, user, cached, open, pc, candidate, bounds>>
      /\ dir \in disk /\ Kept(dir) /\ dir \in Directories
  BY DEF Recover, RecoverSyncs, Usage, DiskOK
<1>2. \A i : (Good(i)' <=> Good(i))
  BY <1>1 DEF Good, Valid
<1>3. Usage' /\ Copy'
  BY <1>1 DEF Recover, RecoverSyncs, Usage, Exclusive, MaintenanceHolds, Copy
<1>4. CASE Recover
  <2>1. /\ Recovered(dir) \in Directories /\ Recovered(dir).previous = None
        /\ Good(Recovered(dir).data)
    <3>1. dir.previous # None => dir.previous \in Inodes
      BY <1>1 DEF Directories
    <3> QED
      BY <1>1, <3>1 DEF Kept, Recovered, Restore, Retire, Directories
  <2>2. up' = "recovering" /\ dir' = Recovered(dir) /\ disk' = disk \union {dir'}
    BY <1>4 DEF Recover, Enter
  <2>3. ASSUME NEW d \in disk' PROVE Kept(d)'
    <3>1. CASE d \in disk
      BY <1>1, <3>1, KeptAs DEF DiskOK
    <3>2. CASE d = dir'
      BY <1>1, <2>1, <2>2, <3>2, NewKept
    <3> QED
      BY <2>2, <3>1, <3>2
  <2>4. DiskOK' /\ Settled'
    BY <2>1, <2>2, <2>3 DEF DiskOK, Settled
  <2> QED
    BY <1>1, <1>3, <2>1, <2>2, <2>4 DEF bounds
<1>5. CASE RecoverSyncs
  <2>1. up' = "up" /\ dir' = dir /\ disk' = {dir} /\ dir.previous = None
    BY <1>5 DEF RecoverSyncs, Synced, Settled
  <2>2. Good(dir.data)
    BY <1>1, <2>1 DEF Kept, Recovered
  <2>3. Kept(dir)'
    BY <1>1, <2>1, <2>2, <1>2 DEF Kept, Recovered
  <2>4. DiskOK' /\ Settled'
    BY <1>2, <2>1, <2>2, <2>3 DEF DiskOK, Settled, Plain
  <2> QED
    BY <1>1, <1>3, <2>1, <2>4 DEF bounds
<1> QED
  BY <1>4, <1>5

-----------------------------------------------------------------------------

LEMMA InitInvariant == Init => CompactionInv
<1> SUFFICES ASSUME Init PROVE CompactionInv
  OBVIOUS
<1>1. First \in Inodes
  BY NoneAssumption DEF First
<1>2. [commit |-> 0, whole |-> TRUE, synced |-> TRUE] \in Databases
  BY BoundAssumption DEF Databases
<1>3. TypeOK
  <2>1. dir \in Directories /\ disk \subseteq Directories
    BY <1>1 DEF Init, Directories
  <2>2. file \in [Inodes -> {None} \union Databases]
    BY <1>2 DEF Init
  <2>3. committed \in 0..MaxCommits /\ copies \in 0..MaxCopies /\ deaths \in 0..MaxDeaths
    BY BoundAssumption DEF Init
  <2> QED
    BY <2>1, <2>2, <2>3 DEF Init, TypeOK
<1>4. Good(dir.data) /\ dir.data = First /\ dir \in Directories /\ dir.previous = None
  BY <1>1, <1>2, NoneAssumption DEF Init, Good, Valid, Directories
<1>5. DiskOK /\ Settled
  BY <1>4, GoodKept DEF Init, DiskOK, Settled, Plain
<1>6. Usage /\ Copy
  BY DEF Init, Usage, Exclusive, MaintenanceHolds, Copy
<1> QED
  BY <1>3, <1>5, <1>6 DEF CompactionInv

LEMMA StepInvariant == CompactionInv /\ [Next]_vars => CompactionInv'
<1> SUFFICES ASSUME CompactionInv, [Next]_vars PROVE CompactionInv'
  OBVIOUS
<1>1. CASE UNCHANGED vars
  <2>1. DiskOK' /\ Settled' /\ \A i : (Good(i)' <=> Good(i))
    BY <1>1, Still DEF vars, Swapping
  <2> QED
    BY <1>1, <2>1 DEF CompactionInv, TypeOK, vars, bounds, Usage, Exclusive,
       MaintenanceHolds, Copy, Valid
<1>2. CASE Maintain
  BY <1>2, StepCopyStarts, StepCopyEnds, StepTake, StepLink, StepReplace,
     StepValidate, StepDisarm,
     StepDispose DEF Maintain
<1> QED
  BY <1>1, <1>2, StepRequest, StepCommit, StepPrepare, StepDie, StepRecover DEF Next,
     User

\* The inductive invariant of Compaction.
THEOREM CompactionInvariant == Spec => []CompactionInv
BY InitInvariant, StepInvariant, PTL DEF Spec

\* NothingLost: at whatever step of prepare() or publish() the process dies or
\* the power fails, recover() finds a whole, synced database with every commit,
\* in the directory of now and in each that the disk may come back with.
THEOREM NoCommitLost == Spec => []NothingLost
<1>1. CompactionInv => NothingLost
  <2> SUFFICES ASSUME CompactionInv PROVE NothingLost
    OBVIOUS
  <2>1. dir \in disk /\ \A d \in disk : Good(Recovered(d).data)
    BY DEF CompactionInv, DiskOK, Kept
  <2> QED
    BY <2>1 DEF NothingLost, Holds, Good
<1> QED
  BY <1>1, CompactionInvariant, PTL

\* HandleTrue: the environment that requests share is of the file under the
\* live name, never of one that a publication has replaced.
THEOREM HandlesTrue == Spec => []HandleTrue
<1>1. CompactionInv => HandleTrue
  BY DEF CompactionInv, Usage, HandleTrue
<1> QED
  BY <1>1, CompactionInvariant, PTL

\* NotRolledBack: where recover() fails after a publication the rollback name
\* stays beside the database that requests commit to; no directory the disk may
\* come back with makes a later recover() restore it over their commits.
THEOREM NoRollback == Spec => []NotRolledBack
<1>1. CompactionInv => NotRolledBack
  <2> SUFFICES ASSUME CompactionInv, open # None, NEW d \in disk PROVE Recovered(d).data = open
    BY DEF NotRolledBack
  <2>1. up = "up" /\ ~Swapping /\ open = dir.data /\ d \in Directories
    BY DEF CompactionInv, TypeOK, Usage, Exclusive, Swapping
  <2>2. Good(dir.data) /\ d.data = dir.data
    BY <2>1 DEF CompactionInv, Settled, Plain
  <2> QED
    BY <2>1, <2>2 DEF Recovered, Retire, Good, Directories
<1> QED
  BY <1>1, CompactionInvariant, PTL

-----------------------------------------------------------------------------
(***************************************************************************)
(* Blobs                                                                   *)
(*                                                                         *)
(* At(w) says what worker w knows of its file at each step.  A step of one *)
(* worker keeps At of the others because of what it leaves alone, which is *)
(* Guarantee: the names of the others, every blob that has a name, and an  *)
(* LFS object unless it becomes a link of its blob.  A step that only adds *)
(* and removes names (Moves) keeps what is common to all, Shared, if the   *)
(* names it adds are of blobs or of private files; a file that another     *)
(* owner may write is never marked.  The collector acts when no worker has *)
(* a lease, so all of them are idle, or have a stage, or have a view, and  *)
(* the link of a view keeps its blob in use.                               *)
(***************************************************************************)

Inode == [data : Contents, mark : Contents \union {None}, synced : BOOLEAN]
Full(c) == [data |-> c, mark |-> c, synced |-> TRUE]
Own(w) == {Blobs!Stage(w), Blobs!Other(w), Blobs!Temp(w), Blobs!Pending(w), Blobs!Download(w)}

\* No name is left without its inode.
Live == \A n \in Blobs!Names : names[n] # None => inode[names[n]] # None

\* An LFS object that is marked has the contents of its name.
LfsTrue ==
  \A c \in Contents : names[Blobs!Lfs(c)] # None => inode[names[Blobs!Lfs(c)]].mark \in {None, c}

\* A file that another owner may write is neither marked nor anybody else's.
OthersTrue ==
  \A w \in Blobs!Workers : names[Blobs!Other(w)] # None =>
    /\ inode[names[Blobs!Other(w)]].mark = None
    /\ \A n \in Blobs!Names : names[n] = names[Blobs!Other(w)] => n \in {Blobs!Stage(w), Blobs!Other(w)}

\* A job has a lease while it works, and the collector waits for leases.
LeaseTrue ==
  /\ \A w \in Blobs!Workers : blobPc[w] \notin {"idle", "staged", "view"} => w \in leases
  /\ locked => leases = {}

\* What a worker knows of its file, step by step
KindTrue(w) ==
  /\ blobPc[w] \in {"hint", "link", "staged"} => w \in Importers
  /\ blobPc[w] \in {"cached", "download", "publish"} => w \in Hydrators
PathTrue(w) ==
  blobPc[w] \in {"hash", "exists", "mark", "adopt", "copy", "persist", "replace", "rename", "imported"} =>
    \/ w \in Importers /\ path[w] = Blobs!Stage(w)
    \/ w \in Hydrators /\ path[w] = Blobs!Download(w)
    \/ w \in Hydrators /\ path[w] = Blobs!Lfs(id[w]) /\ blobPc[w] \notin {"hash", "exists", "mark", "adopt"}
IdTrue(w) ==
  blobPc[w] \notin {"idle", "staged"} => id[w] \in Contents \/ (w \in Importers /\ blobPc[w] \in {"hash"})
WantTrue(w) ==
  w \in Hydrators /\ blobPc[w] \in {"hash", "copy"} =>
    names[path[w]] # None /\ inode[names[path[w]]].data = id[w]
PrivateTrue(w) ==
  blobPc[w] \in {"exists", "mark", "adopt"} =>
    /\ names[path[w]] # None
    /\ \A n \in Blobs!Names : names[n] = names[path[w]] => n = path[w]
    /\ inode[names[path[w]]].data = id[w]
    /\ blobPc[w] = "adopt" => inode[names[path[w]]] = Full(id[w])
PendingTrue(w) ==
  blobPc[w] = "persist" => names[Blobs!Pending(w)] # None /\ inode[names[Blobs!Pending(w)]] = Full(id[w])
LinkTrue(w) ==
  /\ blobPc[w] \in {"link", "replace", "rename", "imported", "publish", "view"} => names[Blobs!Blob(id[w])] # None
  /\ blobPc[w] = "rename" => names[Blobs!Temp(w)] = names[Blobs!Blob(id[w])]
  /\ blobPc[w] = "imported" => names[path[w]] = names[Blobs!Blob(id[w])]
  /\ blobPc[w] = "publish" => names[Blobs!Lfs(id[w])] = names[Blobs!Blob(id[w])]
  /\ blobPc[w] = "view" => names[Blobs!Stage(w)] = names[Blobs!Blob(id[w])]
  /\ blobPc[w] = "copy" => names[path[w]] # None

At(w) ==
  /\ KindTrue(w) /\ PathTrue(w) /\ IdTrue(w) /\ WantTrue(w)
  /\ PrivateTrue(w) /\ PendingTrue(w) /\ LinkTrue(w)

Shared == Live /\ Blobs!BlobTrue /\ LfsTrue /\ OthersTrue /\ LeaseTrue
BlobInv == Blobs!TypeOK /\ Shared /\ \A w \in Blobs!Workers : At(w)

-----------------------------------------------------------------------------
Places == [Blobs!Names -> BlobInodes \union {None}]
Disk == [BlobInodes -> {None} \union Inode]

LEMMA NamesAre ==
           /\ \A w \in Blobs!Workers : Own(w) \subseteq Blobs!Names
           /\ \A w \in Blobs!Workers : {Blobs!Stage(w), Blobs!Other(w), Blobs!Temp(w), Blobs!Pending(w), Blobs!Download(w)} \subseteq Own(w)
           /\ \A c \in Contents : Blobs!Lfs(c) \in Blobs!Names /\ Blobs!Blob(c) \in Blobs!Names
           /\ \A w, v \in Blobs!Workers : w # v => Own(w) \intersect Own(v) = {}
           /\ \A w \in Blobs!Workers, c \in Contents : Blobs!Lfs(c) \notin Own(w) /\ Blobs!Blob(c) \notin Own(w)
           /\ \A c, d \in Contents : Blobs!Lfs(c) # Blobs!Blob(d) /\ (c # d => Blobs!Lfs(c) # Blobs!Lfs(d) /\ Blobs!Blob(c) # Blobs!Blob(d))
           /\ \A w \in Blobs!Workers :
                /\ Blobs!Stage(w) # Blobs!Other(w) /\ Blobs!Stage(w) # Blobs!Temp(w) /\ Blobs!Stage(w) # Blobs!Pending(w)
                /\ Blobs!Stage(w) # Blobs!Download(w) /\ Blobs!Other(w) # Blobs!Temp(w) /\ Blobs!Other(w) # Blobs!Pending(w)
                /\ Blobs!Other(w) # Blobs!Download(w) /\ Blobs!Temp(w) # Blobs!Pending(w) /\ Blobs!Temp(w) # Blobs!Download(w)
                /\ Blobs!Pending(w) # Blobs!Download(w)
<1>1. \A w \in Blobs!Workers : Own(w) \subseteq Blobs!Names
  BY DEF Own, Blobs!Names, Blobs!Stage, Blobs!Other, Blobs!Temp, Blobs!Pending,
     Blobs!Download
<1>2. \A c \in Contents : Blobs!Lfs(c) \in Blobs!Names /\ Blobs!Blob(c) \in Blobs!Names
  BY DEF Blobs!Names, Blobs!Lfs, Blobs!Blob
<1>3. \A w, v \in Blobs!Workers : w # v => Own(w) \intersect Own(v) = {}
  BY DEF Own, Blobs!Stage, Blobs!Other, Blobs!Temp, Blobs!Pending, Blobs!Download
<1>4. \A w \in Blobs!Workers, c \in Contents : Blobs!Lfs(c) \notin Own(w) /\ Blobs!Blob(c) \notin Own(w)
  BY DEF Own, Blobs!Stage, Blobs!Other, Blobs!Temp, Blobs!Pending, Blobs!Download,
     Blobs!Lfs, Blobs!Blob
<1>5. \A c, d \in Contents : Blobs!Lfs(c) # Blobs!Blob(d) /\ (c # d => Blobs!Lfs(c) # Blobs!Lfs(d) /\ Blobs!Blob(c) # Blobs!Blob(d))
  BY DEF Blobs!Lfs, Blobs!Blob
<1>6. \A w \in Blobs!Workers :
                /\ Blobs!Stage(w) # Blobs!Other(w) /\ Blobs!Stage(w) # Blobs!Temp(w) /\ Blobs!Stage(w) # Blobs!Pending(w)
                /\ Blobs!Stage(w) # Blobs!Download(w) /\ Blobs!Other(w) # Blobs!Temp(w) /\ Blobs!Other(w) # Blobs!Pending(w)
                /\ Blobs!Other(w) # Blobs!Download(w) /\ Blobs!Temp(w) # Blobs!Pending(w) /\ Blobs!Temp(w) # Blobs!Download(w)
                /\ Blobs!Pending(w) # Blobs!Download(w)
  BY DEF Blobs!Stage, Blobs!Other, Blobs!Temp, Blobs!Pending, Blobs!Download
<1>7. QED
  BY <1>1, <1>2, <1>3, <1>4, <1>5, <1>6, FS_Singleton DEF Own

LEMMA PairFinite ==
    ASSUME NEW a, NEW b
    PROVE  IsFiniteSet({a, b})
<1>1. {a, b} = {a} \union {b}
  OBVIOUS
<1>2. IsFiniteSet({a} \union {b})
  BY FS_Singleton, FS_Union
<1>3. QED
  BY <1>1, <1>2

LEMMA NamesFinite == IsFiniteSet(Blobs!Names)
<1>1. IsFiniteSet({"stage", "other", "temp", "pending", "download"}) /\ IsFiniteSet({"lfs", "blob"})
  <2>1. IsFiniteSet({"lfs", "blob"}) /\ IsFiniteSet({"stage", "other"}) /\ IsFiniteSet({"temp", "pending"})
    BY PairFinite
  <2>2. {"stage", "other", "temp", "pending", "download"} =
          ({"stage", "other"} \union {"temp", "pending"}) \union {"download"}
    OBVIOUS
  <2>3. IsFiniteSet({"stage", "other"} \union {"temp", "pending"})
    BY <2>1, FS_Union
  <2>4. IsFiniteSet(({"stage", "other"} \union {"temp", "pending"}) \union {"download"})
    BY <2>3, FS_Union, FS_Singleton
  <2>5. QED
    BY <2>1, <2>2, <2>4
<1>2. QED
  BY <1>1, BlobAssumption, FS_Product, FS_Union DEF Blobs!Names

\* The blob store counts links as FiniteSets counts elements.
LEMMA CardinalityIs == \A set : Blobs!Cardinality(set) = Cardinality(set)
  BY DEF Blobs!Cardinality, Cardinality

\* A file with one link is its only name; with two, the other is known.
LEMMA LinksAre ==
    ASSUME Blobs!TypeOK, NEW n \in Blobs!Names, names[n] # None
    PROVE  LET links == Blobs!Links(names[n]) IN
           /\ Cardinality(links) = 1 => links = {n}
           /\ Cardinality(links) = 2 => \A m \in links \ {n} : links = {n, m}
           /\ links = {n} => Cardinality(links) = 1
<1> DEFINE links == Blobs!Links(names[n])
<1>1. IsFiniteSet(links) /\ n \in links
  BY NamesFinite, FS_Subset DEF Blobs!Links
<1>2. links = {n} => Cardinality(links) = 1
  BY FS_Singleton
<1>3. ASSUME Cardinality(links) = 1 PROVE links = {n}
  BY <1>1, <1>3, FS_Singleton
<1>4. ASSUME Cardinality(links) = 2, NEW m \in links \ {n} PROVE links = {n, m}
  <2>1. IsFiniteSet(links \ {n}) /\ Cardinality(links \ {n}) = 1
    BY <1>1, <1>4, FS_RemoveElement
  <2>2. links \ {n} = {m}
    BY <2>1, <1>4, FS_Singleton
  <2>3. QED
    BY <2>2, <1>1
<1>5. QED
  BY <1>2, <1>3, <1>4

-----------------------------------------------------------------------------
\* Names are added and removed, inodes are kept while they have one.
Moves ==
  /\ names' \in Places
  /\ \A n \in Blobs!Names : names'[n] # None => \E m \in Blobs!Names : names'[n] = names[m]
  /\ inode' = [i \in BlobInodes |-> IF i \in {names'[n] : n \in Blobs!Names} THEN inode[i] ELSE None]

LEMMA MovesFiles ==
    ASSUME Blobs!TypeOK, Live, Moves
    PROVE  /\ names' \in Places /\ inode' \in Disk /\ Live'
           /\ \A n \in Blobs!Names : names'[n] # None =>
                /\ inode'[names'[n]] = inode[names'[n]]
                /\ inode[names'[n]] \in Inode
<1>1. names' \in Places /\ names \in Places
  BY DEF Moves, Blobs!TypeOK, Places
<1>2. inode \in Disk
  BY DEF Blobs!TypeOK, Disk, Inode
<1>3. inode' \in Disk
  BY <1>2 DEF Moves, Disk
<1>4. ASSUME NEW n \in Blobs!Names, names'[n] # None
      PROVE  inode'[names'[n]] = inode[names'[n]] /\ inode[names'[n]] \in Inode
  <2>1. names'[n] \in BlobInodes
    BY <1>1, <1>4 DEF Places
  <2>2. inode'[names'[n]] = inode[names'[n]]
    BY <2>1 DEF Moves
  <2>3. inode[names'[n]] # None
    BY <1>4 DEF Moves, Live
  <2>4. QED
    BY <2>1, <2>2, <2>3, <1>2 DEF Disk
<1>5. Live'
  BY <1>4, BlobNoneAssumption DEF Live, Inode
<1>6. QED
  BY <1>1, <1>3, <1>4, <1>5

LEMMA MovesShared ==
    ASSUME Blobs!TypeOK, Live, Blobs!BlobTrue, LfsTrue, OthersTrue, Moves,
           \A c \in Contents :
             /\ names'[Blobs!Blob(c)] \in {None, names[Blobs!Blob(c)]} \/ inode[names'[Blobs!Blob(c)]] = Full(c)
             /\ names'[Blobs!Lfs(c)] \in {None, names[Blobs!Lfs(c)]} \/ inode[names'[Blobs!Lfs(c)]] = Full(c),
           \A w \in Blobs!Workers : names'[Blobs!Other(w)] \in {None, names[Blobs!Other(w)]},
           \A n \in Blobs!Names :
             \/ names'[n] \in {None, names[n]}
             \/ \A w \in Blobs!Workers : names'[n] # names[Blobs!Other(w)]
    PROVE  Live' /\ Blobs!BlobTrue' /\ LfsTrue' /\ OthersTrue'
<1> USE NamesAre, MovesFiles
<1>1. Blobs!BlobTrue'
  BY DEF Blobs!BlobTrue, Full
<1>2. LfsTrue'
  <2> SUFFICES ASSUME NEW c \in Contents, names'[Blobs!Lfs(c)] # None
               PROVE  inode'[names'[Blobs!Lfs(c)]].mark \in {None, c}
    BY DEF LfsTrue
  <2>1. inode'[names'[Blobs!Lfs(c)]] = inode[names'[Blobs!Lfs(c)]]
    OBVIOUS
  <2>2. CASE names'[Blobs!Lfs(c)] = names[Blobs!Lfs(c)]
    BY <2>1, <2>2 DEF LfsTrue
  <2>3. CASE inode[names'[Blobs!Lfs(c)]] = Full(c)
    BY <2>1, <2>3 DEF Full
  <2>4. QED
    BY <2>2, <2>3
<1>3. OthersTrue'
  <2> SUFFICES ASSUME NEW w \in Blobs!Workers, names'[Blobs!Other(w)] # None
               PROVE  /\ inode'[names'[Blobs!Other(w)]].mark = None
                      /\ \A n \in Blobs!Names : names'[n] = names'[Blobs!Other(w)] => n \in {Blobs!Stage(w), Blobs!Other(w)}
    BY DEF OthersTrue
  <2>1. names'[Blobs!Other(w)] = names[Blobs!Other(w)] /\ Blobs!Other(w) \in Blobs!Names
    OBVIOUS
  <2>2. inode'[names'[Blobs!Other(w)]].mark = None
    BY <2>1 DEF OthersTrue
  <2>3. QED
    BY <2>1, <2>2 DEF OthersTrue
<1>4. QED
  BY <1>1, <1>2, <1>3

\* A new inode had no names.
LEMMA CreatedIs ==
    ASSUME Blobs!TypeOK, Live, NEW ns \in SUBSET Blobs!Names, NEW c \in Contents,
           NEW m \in Contents \union {None}, Blobs!Create(ns, c, m)
    PROVE  \E i \in BlobInodes :
             /\ inode[i] = None /\ \A n \in Blobs!Names : names[n] # i
             /\ names' = [n \in Blobs!Names |-> IF n \in ns THEN i ELSE names[n]]
             /\ inode' = [inode EXCEPT ![i] = Blobs!File(c, m)]
             /\ names' \in Places /\ inode' \in Disk /\ Live'
<1> DEFINE i == Blobs!NewInode
<1>1. i \in BlobInodes /\ inode[i] = None
  BY DEF Blobs!Create, Blobs!NewInode, Blobs!Free
<1>2. \A n \in Blobs!Names : names[n] # i
  BY <1>1, BlobNoneAssumption DEF Live
<1>3. Blobs!File(c, m) \in Inode /\ Blobs!File(c, m) # None
  <2>1. (m # None) \in BOOLEAN
    OBVIOUS
  <2>2. Blobs!File(c, m) \in Inode
    BY <2>1 DEF Blobs!File, Inode
  <2>3. QED
    BY <2>2, BlobNoneAssumption DEF Inode
<1>4. names' = [n \in Blobs!Names |-> IF n \in ns THEN i ELSE names[n]] /\ inode' = [inode EXCEPT ![i] = Blobs!File(c, m)]
  BY DEF Blobs!Create
<1>5. names' \in Places
  BY <1>1, <1>4 DEF Blobs!TypeOK, Places
<1>6. inode' \in Disk
  BY <1>1, <1>3, <1>4 DEF Blobs!TypeOK, Disk, Inode
<1>7. Live'
  <2> SUFFICES ASSUME NEW n \in Blobs!Names, names'[n] # None PROVE inode'[names'[n]] # None
    BY DEF Live
  <2>1. CASE n \in ns
    BY <2>1, <1>1, <1>3, <1>4 DEF Blobs!TypeOK
  <2>2. CASE n \notin ns
    BY <2>2, <1>1, <1>2, <1>4 DEF Blobs!TypeOK, Live
  <2>3. QED
    BY <2>1, <2>2
<1>8. QED
  BY <1>1, <1>2, <1>4, <1>5, <1>6, <1>7

-----------------------------------------------------------------------------
\* What a step of w leaves to another worker
Guarantee(w) ==
  /\ \A v \in Blobs!Workers \ {w} : blobPc'[v] = blobPc[v] /\ path'[v] = path[v] /\ id'[v] = id[v]
  /\ \A v \in Blobs!Workers \ {w} : \A n \in Own(v) :
       /\ names'[n] = names[n]
       /\ names[n] # None =>
            /\ inode'[names[n]] = inode[names[n]]
            /\ \A m \in Blobs!Names : names'[m] = names[n] =>
                 names[m] = names[n] \/ \E k \in Blobs!Names \ Own(v) : names[k] = names[n]
  /\ \A c \in Contents : names[Blobs!Blob(c)] # None => names'[Blobs!Blob(c)] = names[Blobs!Blob(c)]
  /\ \A c \in Contents : names[Blobs!Lfs(c)] # None =>
       \/ names'[Blobs!Lfs(c)] = names[Blobs!Lfs(c)] /\ inode'[names[Blobs!Lfs(c)]] = inode[names[Blobs!Lfs(c)]]
       \/ names'[Blobs!Blob(c)] # None /\ names'[Blobs!Lfs(c)] = names'[Blobs!Blob(c)]

LEMMA OthersKept ==
    ASSUME Blobs!TypeOK, NEW w, Guarantee(w), Blobs!BlobTrue', NEW v \in Blobs!Workers \ {w}, At(v)
    PROVE  At(v)'
<1> USE NamesAre
<1>1. blobPc'[v] = blobPc[v] /\ path'[v] = path[v] /\ id'[v] = id[v]
  BY DEF Guarantee
<1>2. KindTrue(v)' /\ PathTrue(v)' /\ IdTrue(v)'
  BY <1>1 DEF At, KindTrue, PathTrue, IdTrue
<1>3. WantTrue(v)'
  <2> SUFFICES ASSUME v \in Hydrators, blobPc[v] \in {"hash", "copy"}
               PROVE  names'[path[v]] # None /\ inode'[names'[path[v]]].data = id[v]
    BY <1>1 DEF WantTrue
  <2>1. names[path[v]] # None /\ inode[names[path[v]]].data = id[v]
    BY DEF At, WantTrue
  <2>2. CASE path[v] \in Own(v)
    BY <2>1, <2>2 DEF Guarantee
  <2>3. CASE path[v] = Blobs!Lfs(id[v]) /\ id[v] \in Contents
    <3> HIDE NamesAre
    <3>1. names'[Blobs!Blob(id[v])] # None => inode'[names'[Blobs!Blob(id[v])]].data = id[v]
      <4> SUFFICES ASSUME names'[Blobs!Blob(id[v])] # None PROVE inode'[names'[Blobs!Blob(id[v])]].data = id[v]
        OBVIOUS
      <4>1. inode'[names'[Blobs!Blob(id[v])]] = [data |-> id[v], mark |-> id[v], synced |-> TRUE]
        BY <2>3 DEF Blobs!BlobTrue
      <4>2. QED
        BY <4>1
    <3>2. \/ names'[Blobs!Lfs(id[v])] = names[Blobs!Lfs(id[v])] /\ inode'[names[Blobs!Lfs(id[v])]] = inode[names[Blobs!Lfs(id[v])]]
          \/ names'[Blobs!Blob(id[v])] # None /\ names'[Blobs!Lfs(id[v])] = names'[Blobs!Blob(id[v])]
      BY <2>1, <2>3 DEF Guarantee
    <3>3. QED
      BY <2>1, <2>3, <3>1, <3>2
  <2>4. QED
    BY <2>2, <2>3, BlobAssumption DEF At, PathTrue, IdTrue
<1>4. PrivateTrue(v)'
  <2> SUFFICES ASSUME blobPc[v] \in {"exists", "mark", "adopt"}
               PROVE  /\ names'[path[v]] # None
                      /\ \A n \in Blobs!Names : names'[n] = names'[path[v]] => n = path[v]
                      /\ inode'[names'[path[v]]].data = id[v]
                      /\ blobPc[v] = "adopt" => inode'[names'[path[v]]] = Full(id[v])
    BY <1>1 DEF PrivateTrue, Full
  <2>1. path[v] \in Own(v)
    BY DEF At, PathTrue
  <2>2. QED
    BY <2>1 DEF Guarantee, At, PrivateTrue
<1>5. PendingTrue(v)'
  BY <1>1 DEF At, PendingTrue, Guarantee, Full
<1>6. LinkTrue(v)'
  <2>1. blobPc[v] \in {"link", "replace", "rename", "imported", "publish", "view"} =>
          id[v] \in Contents /\ names'[Blobs!Blob(id[v])] # None /\ names'[Blobs!Blob(id[v])] = names[Blobs!Blob(id[v])]
    BY DEF Guarantee, At, LinkTrue, IdTrue
  <2>2. blobPc[v] = "rename" => names'[Blobs!Temp(v)] = names'[Blobs!Blob(id[v])]
    BY <2>1 DEF Guarantee, At, LinkTrue
  <2>3. ASSUME blobPc[v] = "imported" PROVE names'[path[v]] = names'[Blobs!Blob(id[v])]
    <3>1. CASE path[v] \in Own(v)
      BY <2>1, <2>3, <3>1 DEF Guarantee, At, LinkTrue
    <3>2. CASE path[v] = Blobs!Lfs(id[v])
      BY <2>1, <2>3, <3>2 DEF Guarantee, At, LinkTrue
    <3>3. QED
      BY <2>3, <3>1, <3>2 DEF At, PathTrue
  <2>4. blobPc[v] = "publish" => names'[Blobs!Lfs(id[v])] = names'[Blobs!Blob(id[v])]
    BY <2>1 DEF Guarantee, At, LinkTrue
  <2>5. blobPc[v] = "view" => names'[Blobs!Stage(v)] = names'[Blobs!Blob(id[v])]
    BY <2>1 DEF Guarantee, At, LinkTrue
  <2>6. ASSUME blobPc[v] = "copy" PROVE names'[path[v]] # None
    <3>1. CASE path[v] \in Own(v)
      BY <2>6, <3>1 DEF Guarantee, At, LinkTrue
    <3>2. CASE path[v] = Blobs!Lfs(id[v])
      BY <2>6, <3>2 DEF Guarantee, At, LinkTrue, IdTrue
    <3>3. QED
      BY <2>6, <3>1, <3>2 DEF At, PathTrue
  <2>7. QED
    BY <1>1, <2>1, <2>2, <2>3, <2>4, <2>5, <2>6 DEF LinkTrue
<1>7. QED
  BY <1>2, <1>3, <1>4, <1>5, <1>6 DEF At

-----------------------------------------------------------------------------
(* The steps of a worker.                                                  *)

\* A step that touches no file, and of other workers neither
LEMMA NoFiles ==
    ASSUME Blobs!TypeOK, Shared, NEW w, UNCHANGED Blobs!files,
           \A v \in Blobs!Workers \ {w} : blobPc'[v] = blobPc[v] /\ path'[v] = path[v] /\ id'[v] = id[v]
    PROVE  /\ names' \in Places /\ inode' \in Disk
           /\ Live' /\ Blobs!BlobTrue' /\ LfsTrue' /\ OthersTrue' /\ Guarantee(w)
<1>1. names' = names /\ inode' = inode
  BY DEF Blobs!files
<1>2. names' \in Places /\ inode' \in Disk
  BY <1>1 DEF Blobs!TypeOK, Places, Disk, Inode
<1>3. Live' /\ Blobs!BlobTrue' /\ LfsTrue' /\ OthersTrue'
  BY <1>1 DEF Shared, Live, Blobs!BlobTrue, LfsTrue, OthersTrue
<1>4. Guarantee(w)
  BY <1>1 DEF Guarantee
<1>5. QED
  BY <1>2, <1>3, <1>4

\* What the steps below establish
Done(w) == Blobs!TypeOK' /\ Shared' /\ At(w)' /\ Guarantee(w)

\* The steps that only look at files, or take and give leases
Quiet(w) ==
  \/ w \in Importers /\ (Blobs!Hint(w) \/ Blobs!CachedSize(w) \/ Blobs!ImportStage(w))
  \/ w \in Hydrators /\ (Blobs!Hydrate(w) \/ Blobs!Cached(w) \/ Blobs!DownloadFails(w) \/ Blobs!Kill(w))
  \/ Blobs!ImportEnds(w) \/ Blobs!Hash(w) \/ Blobs!Exists(w)

LEMMA QuietStep == ASSUME BlobInv, NEW w \in Blobs!Workers, Quiet(w) PROVE Done(w)
<1> USE DEF BlobInv
<1>1. UNCHANGED Blobs!files /\ UNCHANGED Blobs!collector
  BY DEF Quiet, Blobs!Hint, Blobs!CachedSize, Blobs!ImportStage, Blobs!Hydrate,
     Blobs!Cached, Blobs!DownloadFails, Blobs!Kill, Blobs!ImportEnds, Blobs!Hash,
     Blobs!Exists
<1>2. \A v \in Blobs!Workers \ {w} : blobPc'[v] = blobPc[v] /\ path'[v] = path[v] /\ id'[v] = id[v]
  BY DEF Blobs!TypeOK, Quiet, Blobs!Hint, Blobs!CachedSize, Blobs!ImportStage,
     Blobs!Hydrate, Blobs!Cached, Blobs!DownloadFails, Blobs!Kill, Blobs!ImportEnds,
     Blobs!Hash, Blobs!Exists,
         Blobs!Step, Blobs!Goto, Blobs!Ended, Blobs!job
<1>3. Live' /\ Blobs!BlobTrue' /\ LfsTrue' /\ OthersTrue' /\ Guarantee(w) /\ names' \in Places /\ inode' \in Disk
  BY <1>1, <1>2, NoFiles
<1>4. Blobs!TypeOK'
  <2>1. names' \in [Blobs!Names -> BlobInodes \union {None}] /\ inode' \in [BlobInodes -> {None} \union
             [data : Contents, mark : Contents \union {None}, synced : BOOLEAN]]
    BY <1>3 DEF Places, Disk, Inode
  <2>2. runs' \in [Blobs!Workers -> 0 .. MaxRuns]
    BY BlobAssumption DEF Blobs!TypeOK, Quiet, Blobs!Hint, Blobs!CachedSize,
       Blobs!ImportStage, Blobs!Hydrate, Blobs!Cached, Blobs!DownloadFails, Blobs!Kill,
       Blobs!ImportEnds, Blobs!Hash, Blobs!Exists, Blobs!Start, Blobs!job
  <2>3. leases' \subseteq Blobs!Workers /\ batch' \subseteq Blobs!Names /\ locked' \in BOOLEAN
    BY <1>1 DEF Blobs!TypeOK, Quiet, Blobs!Hint, Blobs!CachedSize, Blobs!ImportStage,
       Blobs!Hydrate, Blobs!Cached, Blobs!DownloadFails, Blobs!Kill,
       Blobs!ImportEnds, Blobs!Hash, Blobs!Exists, Blobs!Lease, Blobs!Release, Blobs!job, Blobs!collector
  <2>4. blobPc' \in [Blobs!Workers -> {"idle", "hint", "link", "staged", "hash", "exists", "mark", "adopt",
                         "copy", "persist", "replace", "rename", "imported", "cached",
                         "download", "publish", "view"}]
    BY DEF Blobs!TypeOK, Quiet, Blobs!Hint, Blobs!CachedSize, Blobs!ImportStage,
       Blobs!Hydrate, Blobs!Cached, Blobs!DownloadFails, Blobs!Kill, Blobs!ImportEnds,
       Blobs!Hash, Blobs!Exists,
         Blobs!Step, Blobs!Goto, Blobs!Ended
  <2>5. path' \in [Blobs!Workers -> Blobs!Names \union {None}]
    BY NamesAre DEF Blobs!TypeOK, Quiet, Blobs!Hint, Blobs!CachedSize,
       Blobs!ImportStage, Blobs!Hydrate, Blobs!Cached, Blobs!DownloadFails,
       Blobs!Kill, Blobs!ImportEnds, Blobs!Hash, Blobs!Exists, Blobs!Ended, Blobs!job,
       At, IdTrue, Own
  <2>6. id' \in [Blobs!Workers -> Contents \union {None}]
    <3>1. CASE Blobs!Hash(w)
      <4>1. path[w] \in Blobs!Names
        BY <3>1, BlobNoneAssumption, NamesAre DEF Blobs!Hash, Blobs!TypeOK, At,
           PathTrue, IdTrue
      <4>2. inode[names[path[w]]] \in Inode
        BY <3>1, <4>1 DEF Blobs!Hash, Blobs!TypeOK, Shared, Live, Inode
      <4>3. QED
        BY <3>1, <4>2 DEF Blobs!Hash, Blobs!TypeOK, Inode
    <3>2. CASE ~Blobs!Hash(w)
      BY <3>2 DEF Blobs!TypeOK, Quiet, Blobs!Hint, Blobs!CachedSize,
         Blobs!ImportStage, Blobs!Hydrate, Blobs!Cached, Blobs!DownloadFails,
         Blobs!Kill, Blobs!ImportEnds, Blobs!Hash, Blobs!Exists, Blobs!Ended, Blobs!job
    <3>3. QED
      BY <3>1, <3>2
  <2>7. QED
    BY <2>1, <2>2, <2>3, <2>4, <2>5, <2>6 DEF Blobs!TypeOK
<1>5. LeaseTrue'
  BY <1>1 DEF Shared, LeaseTrue, Blobs!TypeOK, Quiet, Blobs!Hint, Blobs!CachedSize,
     Blobs!ImportStage, Blobs!Hydrate, Blobs!Cached, Blobs!DownloadFails, Blobs!Kill,
     Blobs!ImportEnds, Blobs!Hash, Blobs!Exists,
       Blobs!Step, Blobs!Start, Blobs!Goto, Blobs!Ended, Blobs!Lease, Blobs!Release, Blobs!job, Blobs!collector
<1>6. At(w)'
  <2> USE DEF Blobs!TypeOK
  <2>1. CASE w \in Importers /\ Blobs!Hint(w)
    BY <2>1, <1>1, <1>2, BlobAssumption, NamesAre DEF Blobs!Hint, Blobs!TypeOK,
       Blobs!Step, Blobs!Start, Blobs!Goto, Blobs!Ended, Blobs!Lease, Blobs!Release,
       Blobs!job, Blobs!collector, Blobs!files, At, KindTrue, PathTrue, IdTrue,
       WantTrue, PrivateTrue, PendingTrue, LinkTrue
  <2>2. CASE w \in Importers /\ Blobs!CachedSize(w)
    BY <2>2, <1>1, <1>2, BlobAssumption, NamesAre DEF Blobs!CachedSize, Blobs!TypeOK,
       Blobs!Step, Blobs!Start, Blobs!Goto, Blobs!Ended, Blobs!Lease, Blobs!Release,
       Blobs!job, Blobs!collector, Blobs!files, At, KindTrue, PathTrue, IdTrue,
       WantTrue, PrivateTrue, PendingTrue, LinkTrue
  <2>3. CASE w \in Importers /\ Blobs!ImportStage(w)
    BY <2>3, <1>1, <1>2, BlobAssumption, NamesAre DEF Blobs!ImportStage, Blobs!TypeOK,
       Blobs!Step, Blobs!Start, Blobs!Goto, Blobs!Ended, Blobs!Lease, Blobs!Release,
       Blobs!job, Blobs!collector, Blobs!files, At, KindTrue, PathTrue, IdTrue,
       WantTrue, PrivateTrue, PendingTrue, LinkTrue
  <2>4. CASE w \in Hydrators /\ Blobs!Hydrate(w)
    BY <2>4, <1>1, <1>2, BlobAssumption, NamesAre DEF Blobs!Hydrate, Blobs!TypeOK,
       Blobs!Step, Blobs!Start, Blobs!Goto, Blobs!Ended, Blobs!Lease, Blobs!Release,
       Blobs!job, Blobs!collector, Blobs!files, At, KindTrue, PathTrue, IdTrue,
       WantTrue, PrivateTrue, PendingTrue, LinkTrue
  <2>5. CASE w \in Hydrators /\ Blobs!Cached(w)
    BY <2>5, <1>1, <1>2, BlobAssumption, NamesAre DEF Blobs!Cached, Blobs!TypeOK,
       Blobs!Step, Blobs!Start, Blobs!Goto, Blobs!Ended, Blobs!Lease, Blobs!Release,
       Blobs!job, Blobs!collector, Blobs!files, At, KindTrue, PathTrue, IdTrue,
       WantTrue, PrivateTrue, PendingTrue, LinkTrue, Blobs!Identity, Shared, LfsTrue
  <2>6. CASE w \in Hydrators /\ (Blobs!DownloadFails(w) \/ Blobs!Kill(w))
    BY <2>6, <1>1, <1>2, BlobAssumption, NamesAre DEF Blobs!DownloadFails, Blobs!Kill,
       Blobs!TypeOK, Blobs!Step, Blobs!Start, Blobs!Goto, Blobs!Ended, Blobs!Lease,
       Blobs!Release, Blobs!job, Blobs!collector, Blobs!files, At, KindTrue, PathTrue,
       IdTrue, WantTrue, PrivateTrue, PendingTrue, LinkTrue
  <2>7. CASE Blobs!ImportEnds(w)
    BY <2>7, <1>1, <1>2, BlobAssumption, NamesAre DEF Blobs!ImportEnds, Blobs!TypeOK,
       Blobs!Step, Blobs!Start, Blobs!Goto, Blobs!Ended, Blobs!Lease, Blobs!Release,
       Blobs!job, Blobs!collector, Blobs!files, At, KindTrue, PathTrue, IdTrue,
       WantTrue, PrivateTrue, PendingTrue, LinkTrue
  <2>8. CASE Blobs!Hash(w)
    <3>1. blobPc[w] = "hash" /\ path[w] \in Blobs!Names /\ names[path[w]] # None /\ names[path[w]] \in BlobInodes
      BY <2>8, BlobNoneAssumption, NamesAre DEF Blobs!Hash, At, PathTrue, IdTrue
    <3> DEFINE i == names[path[w]]
    <3>2. inode[i] \in Inode
      BY <3>1 DEF Shared, Live, Inode
    <3>3. id'[w] = inode[i].data /\ inode[i].data \in Contents
      BY <2>8, <3>2 DEF Blobs!Hash, Inode
    <3>4. KindTrue(w)' /\ PathTrue(w)' /\ IdTrue(w)' /\ PendingTrue(w)'
      BY <2>8, <3>1, <3>3, <1>1 DEF Blobs!Hash, Blobs!Goto, At, KindTrue, PathTrue,
         IdTrue, PendingTrue
    <3>5. WantTrue(w)'
      BY <2>8, <3>1, <3>3, <1>1 DEF Blobs!Hash, Blobs!Goto, At, WantTrue, Blobs!files
    <3>6. PrivateTrue(w)'
      BY <2>8, <3>1, <3>3, <1>1, LinksAre, CardinalityIs DEF Blobs!Hash, Blobs!Goto,
         PrivateTrue, Blobs!files, Blobs!Links
    <3>7. LinkTrue(w)'
      <4>1. CASE Blobs!Identity(path[w])
        <5>1. inode[i].mark \in Contents /\ names[Blobs!Blob(inode[i].mark)] = i
          BY <4>1, <3>2 DEF Blobs!Identity, Inode
        <5>2. inode[i] = [data |-> inode[i].mark, mark |-> inode[i].mark, synced |-> TRUE]
          BY <5>1, <3>1 DEF Shared, Blobs!BlobTrue
        <5>3. inode[i].data = inode[i].mark
          BY <5>2
        <5>4. QED
          BY <2>8, <3>1, <3>3, <4>1, <5>1, <5>3, <1>1 DEF Blobs!Hash, Blobs!Goto,
             LinkTrue, Blobs!files
      <4>2. CASE ~Blobs!Identity(path[w])
        BY <2>8, <3>1, <4>2, <1>1 DEF Blobs!Hash, Blobs!Goto, LinkTrue, Blobs!files
      <4>3. QED
        BY <4>1, <4>2
    <3>8. QED
      BY <3>4, <3>5, <3>6, <3>7 DEF At
  <2>9. CASE Blobs!Exists(w)
    BY <2>9, <1>1, <1>2, BlobAssumption, NamesAre DEF Blobs!Exists, Blobs!TypeOK,
       Blobs!Step, Blobs!Start, Blobs!Goto, Blobs!Ended, Blobs!Lease, Blobs!Release,
       Blobs!job, Blobs!collector, Blobs!files, At, KindTrue, PathTrue, IdTrue,
       WantTrue, PrivateTrue, PendingTrue, LinkTrue
  <2>10. QED
    BY <2>1, <2>2, <2>3, <2>4, <2>5, <2>6, <2>7, <2>8, <2>9 DEF Quiet
<1>7. QED
  BY <1>3, <1>4, <1>5, <1>6 DEF Done, Shared

LEMMA LinkCachedStep == ASSUME BlobInv, NEW w \in Importers, Blobs!LinkCached(w) PROVE Done(w)
<1> USE NamesAre
<1>1. w \in Blobs!Workers /\ blobPc[w] = "link" /\ id[w] \in Contents /\ names[Blobs!Blob(id[w])] # None
  BY DEF Blobs!Workers, Blobs!LinkCached, Blobs!Step, BlobInv, At, IdTrue
<1>2. names' = [names EXCEPT ![Blobs!Stage(w)] = names[Blobs!Blob(id[w])]]
  BY DEF Blobs!LinkCached, Blobs!Relink
<1>3. Moves
  BY <1>1, <1>2 DEF Moves, Blobs!LinkCached, Blobs!Relink, BlobInv, Blobs!TypeOK, Places
<1>4. names' \in Places /\ inode' \in Disk /\ \A n \in Blobs!Names : names'[n] # None => inode'[names'[n]] = inode[names'[n]]
  BY <1>3, MovesFiles DEF BlobInv, Shared
<1>5. \A v \in Blobs!Workers : names[Blobs!Blob(id[w])] # names[Blobs!Other(v)]
  BY <1>1 DEF BlobInv, Shared, OthersTrue
<1>6. Live' /\ Blobs!BlobTrue' /\ LfsTrue' /\ OthersTrue'
  BY <1>1, <1>2, <1>3, <1>5, MovesShared DEF BlobInv, Shared, Blobs!TypeOK
<1>7. Blobs!TypeOK'
  BY <1>1, <1>4 DEF Blobs!LinkCached, BlobInv, Blobs!TypeOK, Blobs!Goto, Blobs!Step,
     Blobs!Release, Blobs!job, Blobs!collector, Places, Disk, Inode
<1>8. LeaseTrue'
  BY <1>1 DEF Blobs!LinkCached, Blobs!Step, BlobInv, Blobs!TypeOK, Shared, LeaseTrue,
     Blobs!Goto, Blobs!Release, Blobs!job, Blobs!collector
<1>9. At(w)'
  BY <1>1, BlobAssumption DEF Blobs!LinkCached, Blobs!Step, BlobInv, Blobs!TypeOK,
     Blobs!Goto, At, KindTrue, PathTrue, IdTrue, WantTrue, PrivateTrue, PendingTrue,
     LinkTrue
<1>10. Guarantee(w)
  BY <1>1, <1>2, <1>4 DEF Blobs!LinkCached, Blobs!Step, Blobs!job, Blobs!Goto,
     Guarantee, BlobInv, Blobs!TypeOK
<1>11. QED
  BY <1>6, <1>7, <1>8, <1>9, <1>10 DEF Done, Shared

LEMMA AdoptStep == ASSUME BlobInv, NEW w \in Blobs!Workers, Blobs!Adopt(w) PROVE Done(w)
<1> USE NamesAre DEF BlobInv
<1>1. blobPc[w] = "adopt" /\ id[w] \in Contents /\ path[w] \in {Blobs!Stage(w), Blobs!Download(w)}
      /\ names[path[w]] # None /\ inode[names[path[w]]] = Full(id[w])
      /\ \A n \in Blobs!Names : names[n] = names[path[w]] => n = path[w]
  BY BlobAssumption, BlobNoneAssumption DEF Blobs!Workers, Blobs!Adopt, Blobs!Step,
     At, KindTrue, PathTrue, IdTrue, WantTrue, PrivateTrue, PendingTrue, LinkTrue
<1>2. names' = [names EXCEPT ![Blobs!Blob(id[w])] = IF @ = None THEN names[path[w]] ELSE @]
  BY <1>1 DEF Blobs!Adopt, Blobs!Relink, Blobs!Renamed
<1>3. Moves
  BY <1>1, <1>2 DEF Moves, Blobs!Adopt, Blobs!Relink, Blobs!TypeOK, Places
<1>4. names' \in Places /\ inode' \in Disk
      /\ \A n \in Blobs!Names : names'[n] # None => inode'[names'[n]] = inode[names'[n]]
  BY <1>3, MovesFiles DEF Shared
<1>5. \A v \in Blobs!Workers : names[path[w]] # names[Blobs!Other(v)]
  BY <1>1 DEF Shared, OthersTrue, Blobs!BlobTrue, Full
<1>6. Live' /\ Blobs!BlobTrue' /\ LfsTrue' /\ OthersTrue'
  <2>1. \A c \in Contents : names'[Blobs!Blob(c)] \in {None, names[Blobs!Blob(c)]} \/ inode[names'[Blobs!Blob(c)]] = Full(c)
    BY <1>1, <1>2, <1>5 DEF Blobs!TypeOK
  <2>2. \A c \in Contents : names'[Blobs!Lfs(c)] \in {None, names[Blobs!Lfs(c)]} \/ inode[names'[Blobs!Lfs(c)]] = Full(c)
    BY <1>1, <1>2, <1>5 DEF Blobs!TypeOK
  <2>3. \A v \in Blobs!Workers : names'[Blobs!Other(v)] \in {None, names[Blobs!Other(v)]}
    BY <1>1, <1>2 DEF Blobs!TypeOK
  <2>4. \A n \in Blobs!Names : names'[n] \in {None, names[n]} \/ \A v \in Blobs!Workers : names'[n] # names[Blobs!Other(v)]
    BY <1>1, <1>2, <1>5 DEF Blobs!TypeOK
  <2>5. QED
    BY <1>3, <2>1, <2>2, <2>3, <2>4, MovesShared DEF Shared
<1>7. Blobs!TypeOK'
  BY <1>1, <1>4 DEF Blobs!Adopt, Blobs!TypeOK, Blobs!Goto, Blobs!Step, Blobs!Release,
     Blobs!Ended, Blobs!job, Blobs!collector, Places, Disk, Inode
<1>8. LeaseTrue'
  BY <1>1 DEF Blobs!Adopt, Blobs!Step, Blobs!TypeOK, Shared, LeaseTrue, Blobs!Goto,
     Blobs!Release, Blobs!Ended, Blobs!job, Blobs!collector
<1>9. At(w)'
  BY <1>1, <1>2, <1>4, BlobAssumption DEF Blobs!Adopt, Blobs!Step, Blobs!TypeOK,
     Blobs!Goto, Blobs!Ended, Blobs!job, At, KindTrue, PathTrue, IdTrue, WantTrue,
     PrivateTrue, PendingTrue, LinkTrue
<1>10. Guarantee(w)
  BY <1>1, <1>2, <1>4 DEF Blobs!Adopt, Blobs!Step, Blobs!job, Blobs!Goto, Blobs!Ended,
     Guarantee, Blobs!TypeOK
<1>11. QED
  BY <1>6, <1>7, <1>8, <1>9, <1>10 DEF Done, Shared

LEMMA PersistStep == ASSUME BlobInv, NEW w \in Blobs!Workers, Blobs!Persist(w) PROVE Done(w)
<1> USE NamesAre DEF BlobInv
<1>1. blobPc[w] = "persist" /\ id[w] \in Contents
      /\ names[Blobs!Pending(w)] # None /\ inode[names[Blobs!Pending(w)]] = Full(id[w])
  BY BlobAssumption, BlobNoneAssumption DEF Blobs!Workers, Blobs!Persist, Blobs!Step,
     At, KindTrue, PathTrue, IdTrue, WantTrue, PrivateTrue, PendingTrue, LinkTrue
<1>2. names' = [names EXCEPT ![Blobs!Pending(w)] = None,
                                        ![Blobs!Blob(id[w])] = IF @ = None THEN names[Blobs!Pending(w)] ELSE @]
  BY <1>1 DEF Blobs!Persist, Blobs!Relink, Blobs!Renamed
<1>3. Moves
  BY <1>1, <1>2 DEF Moves, Blobs!Persist, Blobs!Relink, Blobs!TypeOK, Places
<1>4. names' \in Places /\ inode' \in Disk
      /\ \A n \in Blobs!Names : names'[n] # None => inode'[names'[n]] = inode[names'[n]]
  BY <1>3, MovesFiles DEF Shared
<1>5. \A v \in Blobs!Workers : names[Blobs!Pending(w)] # names[Blobs!Other(v)]
  BY <1>1 DEF Shared, OthersTrue, Blobs!BlobTrue, Full
<1>6. Live' /\ Blobs!BlobTrue' /\ LfsTrue' /\ OthersTrue'
  <2>1. \A c \in Contents : names'[Blobs!Blob(c)] \in {None, names[Blobs!Blob(c)]} \/ inode[names'[Blobs!Blob(c)]] = Full(c)
    BY <1>1, <1>2, <1>5 DEF Blobs!TypeOK
  <2>2. \A c \in Contents : names'[Blobs!Lfs(c)] \in {None, names[Blobs!Lfs(c)]} \/ inode[names'[Blobs!Lfs(c)]] = Full(c)
    BY <1>1, <1>2, <1>5 DEF Blobs!TypeOK
  <2>3. \A v \in Blobs!Workers : names'[Blobs!Other(v)] \in {None, names[Blobs!Other(v)]}
    BY <1>1, <1>2 DEF Blobs!TypeOK
  <2>4. \A n \in Blobs!Names : names'[n] \in {None, names[n]} \/ \A v \in Blobs!Workers : names'[n] # names[Blobs!Other(v)]
    BY <1>1, <1>2, <1>5 DEF Blobs!TypeOK
  <2>5. QED
    BY <1>3, <2>1, <2>2, <2>3, <2>4, MovesShared DEF Shared
<1>7. Blobs!TypeOK'
  BY <1>1, <1>4 DEF Blobs!Persist, Blobs!TypeOK, Blobs!Goto, Blobs!Step,
     Blobs!Release, Blobs!Ended, Blobs!job, Blobs!collector, Places, Disk, Inode
<1>8. LeaseTrue'
  BY <1>1 DEF Blobs!Persist, Blobs!Step, Blobs!TypeOK, Shared, LeaseTrue, Blobs!Goto,
     Blobs!Release, Blobs!Ended, Blobs!job, Blobs!collector
<1>9. At(w)'
  BY <1>1, <1>2, <1>4, BlobAssumption DEF Blobs!Persist, Blobs!Step, Blobs!TypeOK,
     Blobs!Goto, Blobs!Ended, Blobs!job, At, KindTrue, PathTrue, IdTrue, WantTrue,
     PrivateTrue, PendingTrue, LinkTrue
<1>10. Guarantee(w)
  BY <1>1, <1>2, <1>4 DEF Blobs!Persist, Blobs!Step, Blobs!job, Blobs!Goto,
     Blobs!Ended, Guarantee, Blobs!TypeOK
<1>11. QED
  BY <1>6, <1>7, <1>8, <1>9, <1>10 DEF Done, Shared

LEMMA ReplaceStep == ASSUME BlobInv, NEW w \in Blobs!Workers, Blobs!Replace(w) PROVE Done(w)
<1> USE NamesAre DEF BlobInv
<1>1. blobPc[w] = "replace" /\ id[w] \in Contents /\ names[Blobs!Blob(id[w])] # None
  BY BlobAssumption, BlobNoneAssumption DEF Blobs!Workers, Blobs!Replace, Blobs!Step,
     At, KindTrue, PathTrue, IdTrue, WantTrue, PrivateTrue, PendingTrue, LinkTrue
<1>2. names' = [names EXCEPT ![Blobs!Temp(w)] = names[Blobs!Blob(id[w])]]
  BY <1>1 DEF Blobs!Replace, Blobs!Relink, Blobs!Renamed
<1>3. Moves
  BY <1>1, <1>2 DEF Moves, Blobs!Replace, Blobs!Relink, Blobs!TypeOK, Places
<1>4. names' \in Places /\ inode' \in Disk
      /\ \A n \in Blobs!Names : names'[n] # None => inode'[names'[n]] = inode[names'[n]]
  BY <1>3, MovesFiles DEF Shared
<1>5. \A v \in Blobs!Workers : names[Blobs!Blob(id[w])] # names[Blobs!Other(v)]
  BY <1>1 DEF Shared, OthersTrue, Blobs!BlobTrue, Full
<1>6. Live' /\ Blobs!BlobTrue' /\ LfsTrue' /\ OthersTrue'
  <2>1. \A c \in Contents : names'[Blobs!Blob(c)] \in {None, names[Blobs!Blob(c)]} \/ inode[names'[Blobs!Blob(c)]] = Full(c)
    BY <1>1, <1>2, <1>5 DEF Blobs!TypeOK
  <2>2. \A c \in Contents : names'[Blobs!Lfs(c)] \in {None, names[Blobs!Lfs(c)]} \/ inode[names'[Blobs!Lfs(c)]] = Full(c)
    BY <1>1, <1>2, <1>5 DEF Blobs!TypeOK
  <2>3. \A v \in Blobs!Workers : names'[Blobs!Other(v)] \in {None, names[Blobs!Other(v)]}
    BY <1>1, <1>2 DEF Blobs!TypeOK
  <2>4. \A n \in Blobs!Names : names'[n] \in {None, names[n]} \/ \A v \in Blobs!Workers : names'[n] # names[Blobs!Other(v)]
    BY <1>1, <1>2, <1>5 DEF Blobs!TypeOK
  <2>5. QED
    BY <1>3, <2>1, <2>2, <2>3, <2>4, MovesShared DEF Shared
<1>7. Blobs!TypeOK'
  BY <1>1, <1>4 DEF Blobs!Replace, Blobs!TypeOK, Blobs!Goto, Blobs!Step,
     Blobs!Release, Blobs!Ended, Blobs!job, Blobs!collector, Places, Disk, Inode
<1>8. LeaseTrue'
  BY <1>1 DEF Blobs!Replace, Blobs!Step, Blobs!TypeOK, Shared, LeaseTrue, Blobs!Goto,
     Blobs!Release, Blobs!Ended, Blobs!job, Blobs!collector
<1>9. At(w)'
  BY <1>1, <1>2, <1>4, BlobAssumption DEF Blobs!Replace, Blobs!Step, Blobs!TypeOK,
     Blobs!Goto, Blobs!Ended, Blobs!job, At, KindTrue, PathTrue, IdTrue, WantTrue,
     PrivateTrue, PendingTrue, LinkTrue
<1>10. Guarantee(w)
  BY <1>1, <1>2, <1>4 DEF Blobs!Replace, Blobs!Step, Blobs!job, Blobs!Goto,
     Blobs!Ended, Guarantee, Blobs!TypeOK
<1>11. QED
  BY <1>6, <1>7, <1>8, <1>9, <1>10 DEF Done, Shared

LEMMA RenameStep == ASSUME BlobInv, NEW w \in Blobs!Workers, Blobs!Rename(w) PROVE Done(w)
<1> USE NamesAre DEF BlobInv
<1>1. blobPc[w] = "rename" /\ id[w] \in Contents /\ names[Blobs!Blob(id[w])] # None
      /\ names[Blobs!Temp(w)] = names[Blobs!Blob(id[w])] /\ path[w] \in {Blobs!Stage(w), Blobs!Download(w), Blobs!Lfs(id[w])}
  BY BlobAssumption, BlobNoneAssumption DEF Blobs!Workers, Blobs!Rename, Blobs!Step,
     At, KindTrue, PathTrue, IdTrue, WantTrue, PrivateTrue, PendingTrue, LinkTrue
<1>2. names' = [names EXCEPT ![path[w]] = names[Blobs!Blob(id[w])], ![Blobs!Temp(w)] = None]
  BY <1>1 DEF Blobs!Rename, Blobs!Relink, Blobs!Renamed
<1>3. Moves
  <2>1. inode' = [i \in BlobInodes |-> IF i \in {names'[n] : n \in Blobs!Names} THEN inode[i] ELSE None]
    BY DEF Blobs!Rename, Blobs!Relink
  <2>2. names' \in Places /\ \A n \in Blobs!Names : names'[n] # None => \E m \in Blobs!Names : names'[n] = names[m]
    BY <1>1, <1>2 DEF Blobs!TypeOK, Places
  <2>3. QED
    BY <2>1, <2>2 DEF Moves
<1>4. names' \in Places /\ inode' \in Disk
      /\ \A n \in Blobs!Names : names'[n] # None => inode'[names'[n]] = inode[names'[n]]
  BY <1>3, MovesFiles DEF Shared
<1>5. inode[names[Blobs!Blob(id[w])]] = Full(id[w]) /\ \A v \in Blobs!Workers : names[Blobs!Blob(id[w])] # names[Blobs!Other(v)]
  BY <1>1 DEF Shared, OthersTrue, Blobs!BlobTrue, Full
<1>6. Live' /\ Blobs!BlobTrue' /\ LfsTrue' /\ OthersTrue'
  <2>1. \A c \in Contents : names'[Blobs!Blob(c)] \in {None, names[Blobs!Blob(c)]} \/ inode[names'[Blobs!Blob(c)]] = Full(c)
    BY <1>1, <1>2, <1>5 DEF Blobs!TypeOK
  <2>2. \A c \in Contents : names'[Blobs!Lfs(c)] \in {None, names[Blobs!Lfs(c)]} \/ inode[names'[Blobs!Lfs(c)]] = Full(c)
    BY <1>1, <1>2, <1>5 DEF Blobs!TypeOK
  <2>3. \A v \in Blobs!Workers : names'[Blobs!Other(v)] \in {None, names[Blobs!Other(v)]}
    BY <1>1, <1>2 DEF Blobs!TypeOK
  <2>4. \A n \in Blobs!Names : names'[n] \in {None, names[n]} \/ \A v \in Blobs!Workers : names'[n] # names[Blobs!Other(v)]
    BY <1>1, <1>2, <1>5 DEF Blobs!TypeOK
  <2>5. QED
    BY <1>3, <2>1, <2>2, <2>3, <2>4, MovesShared DEF Shared
<1>7. Blobs!TypeOK'
  BY <1>1, <1>4 DEF Blobs!Rename, Blobs!TypeOK, Blobs!Goto, Blobs!Step, Blobs!Release,
     Blobs!Ended, Blobs!job, Blobs!collector, Places, Disk, Inode
<1>8. LeaseTrue'
  BY <1>1 DEF Blobs!Rename, Blobs!Step, Blobs!TypeOK, Shared, LeaseTrue, Blobs!Goto,
     Blobs!Release, Blobs!Ended, Blobs!job, Blobs!collector
<1>9. At(w)'
  BY <1>1, <1>2, <1>4, BlobAssumption DEF Blobs!Rename, Blobs!Step, Blobs!TypeOK,
     Blobs!Goto, Blobs!Ended, Blobs!job, At, KindTrue, PathTrue, IdTrue, WantTrue,
     PrivateTrue, PendingTrue, LinkTrue
<1>10. Guarantee(w)
  BY <1>1, <1>2, <1>4 DEF Blobs!Rename, Blobs!Step, Blobs!job, Blobs!Goto,
     Blobs!Ended, Guarantee, Blobs!TypeOK
<1>11. QED
  BY <1>6, <1>7, <1>8, <1>9, <1>10 DEF Done, Shared

LEMMA PersistDownloadStep == ASSUME BlobInv, NEW w \in Hydrators, Blobs!PersistDownload(w) PROVE Done(w)
<1> USE NamesAre DEF BlobInv
<1>1. w \in Blobs!Workers /\ blobPc[w] = "imported" /\ id[w] \in Contents /\ names[Blobs!Blob(id[w])] # None
      /\ names[path[w]] = names[Blobs!Blob(id[w])] /\ path[w] \in {Blobs!Download(w), Blobs!Lfs(id[w])}
  BY BlobAssumption, BlobNoneAssumption DEF Blobs!Workers, Blobs!PersistDownload,
     Blobs!Step, At, KindTrue, PathTrue, IdTrue, WantTrue, PrivateTrue, PendingTrue,
     LinkTrue
<1>2. names' = IF path[w] = Blobs!Download(w) /\ names[Blobs!Lfs(id[w])] # names[Blobs!Blob(id[w])]
               THEN [names EXCEPT ![Blobs!Lfs(id[w])] = names[Blobs!Blob(id[w])], ![Blobs!Download(w)] = None] ELSE names
  BY <1>1 DEF Blobs!PersistDownload, Blobs!Relink, Blobs!Renamed
<1>3. Moves
  BY <1>1, <1>2 DEF Moves, Blobs!PersistDownload, Blobs!Relink, Blobs!TypeOK, Places
<1>4. names' \in Places /\ inode' \in Disk
      /\ \A n \in Blobs!Names : names'[n] # None => inode'[names'[n]] = inode[names'[n]]
  BY <1>3, MovesFiles DEF Shared
<1>5. inode[names[Blobs!Blob(id[w])]] = Full(id[w]) /\ \A v \in Blobs!Workers : names[Blobs!Blob(id[w])] # names[Blobs!Other(v)]
  BY <1>1 DEF Shared, OthersTrue, Blobs!BlobTrue, Full
<1>6. Live' /\ Blobs!BlobTrue' /\ LfsTrue' /\ OthersTrue'
  <2>1. \A c \in Contents : names'[Blobs!Blob(c)] \in {None, names[Blobs!Blob(c)]} \/ inode[names'[Blobs!Blob(c)]] = Full(c)
    BY <1>1, <1>2, <1>5 DEF Blobs!TypeOK
  <2>2. \A c \in Contents : names'[Blobs!Lfs(c)] \in {None, names[Blobs!Lfs(c)]} \/ inode[names'[Blobs!Lfs(c)]] = Full(c)
    BY <1>1, <1>2, <1>5 DEF Blobs!TypeOK
  <2>3. \A v \in Blobs!Workers : names'[Blobs!Other(v)] \in {None, names[Blobs!Other(v)]}
    BY <1>1, <1>2 DEF Blobs!TypeOK
  <2>4. \A n \in Blobs!Names : names'[n] \in {None, names[n]} \/ \A v \in Blobs!Workers : names'[n] # names[Blobs!Other(v)]
    BY <1>1, <1>2, <1>5 DEF Blobs!TypeOK
  <2>5. QED
    BY <1>3, <2>1, <2>2, <2>3, <2>4, MovesShared DEF Shared
<1>7. Blobs!TypeOK'
  BY <1>1, <1>4 DEF Blobs!PersistDownload, Blobs!TypeOK, Blobs!Goto, Blobs!Step,
     Blobs!Release, Blobs!Ended, Blobs!job, Blobs!collector, Places, Disk, Inode
<1>8. LeaseTrue'
  BY <1>1 DEF Blobs!PersistDownload, Blobs!Step, Blobs!TypeOK, Shared, LeaseTrue,
     Blobs!Goto, Blobs!Release, Blobs!Ended, Blobs!job, Blobs!collector
<1>9. At(w)'
  BY <1>1, <1>2, <1>4, BlobAssumption DEF Blobs!PersistDownload, Blobs!Step,
     Blobs!TypeOK, Blobs!Goto, Blobs!Ended, Blobs!job, At, KindTrue, PathTrue, IdTrue,
     WantTrue, PrivateTrue, PendingTrue, LinkTrue
<1>10. Guarantee(w)
  BY <1>1, <1>2, <1>4 DEF Blobs!PersistDownload, Blobs!Step, Blobs!job, Blobs!Goto,
     Blobs!Ended, Guarantee, Blobs!TypeOK
<1>11. QED
  BY <1>6, <1>7, <1>8, <1>9, <1>10 DEF Done, Shared

LEMMA PublishStep == ASSUME BlobInv, NEW w \in Hydrators, Blobs!Publish(w) PROVE Done(w)
<1> USE NamesAre DEF BlobInv
<1>1. w \in Blobs!Workers /\ blobPc[w] = "publish" /\ id[w] \in Contents /\ names[Blobs!Blob(id[w])] # None
      /\ names[Blobs!Lfs(id[w])] = names[Blobs!Blob(id[w])]
  BY BlobAssumption, BlobNoneAssumption DEF Blobs!Workers, Blobs!Publish, Blobs!Step,
     At, KindTrue, PathTrue, IdTrue, WantTrue, PrivateTrue, PendingTrue, LinkTrue
<1>2. names' = [names EXCEPT ![Blobs!Stage(w)] = names[Blobs!Blob(id[w])]]
  BY <1>1 DEF Blobs!Publish, Blobs!Relink, Blobs!Renamed
<1>3. Moves
  BY <1>1, <1>2 DEF Moves, Blobs!Publish, Blobs!Relink, Blobs!TypeOK, Places
<1>4. names' \in Places /\ inode' \in Disk
      /\ \A n \in Blobs!Names : names'[n] # None => inode'[names'[n]] = inode[names'[n]]
  BY <1>3, MovesFiles DEF Shared
<1>5. \A v \in Blobs!Workers : names[Blobs!Blob(id[w])] # names[Blobs!Other(v)]
  BY <1>1 DEF Shared, OthersTrue, Blobs!BlobTrue, Full
<1>6. Live' /\ Blobs!BlobTrue' /\ LfsTrue' /\ OthersTrue'
  <2>1. \A c \in Contents : names'[Blobs!Blob(c)] \in {None, names[Blobs!Blob(c)]} \/ inode[names'[Blobs!Blob(c)]] = Full(c)
    BY <1>1, <1>2, <1>5 DEF Blobs!TypeOK
  <2>2. \A c \in Contents : names'[Blobs!Lfs(c)] \in {None, names[Blobs!Lfs(c)]} \/ inode[names'[Blobs!Lfs(c)]] = Full(c)
    BY <1>1, <1>2, <1>5 DEF Blobs!TypeOK
  <2>3. \A v \in Blobs!Workers : names'[Blobs!Other(v)] \in {None, names[Blobs!Other(v)]}
    BY <1>1, <1>2 DEF Blobs!TypeOK
  <2>4. \A n \in Blobs!Names : names'[n] \in {None, names[n]} \/ \A v \in Blobs!Workers : names'[n] # names[Blobs!Other(v)]
    BY <1>1, <1>2, <1>5 DEF Blobs!TypeOK
  <2>5. QED
    BY <1>3, <2>1, <2>2, <2>3, <2>4, MovesShared DEF Shared
<1>7. Blobs!TypeOK'
  BY <1>1, <1>4 DEF Blobs!Publish, Blobs!TypeOK, Blobs!Goto, Blobs!Step,
     Blobs!Release, Blobs!Ended, Blobs!job, Blobs!collector, Places, Disk, Inode
<1>8. LeaseTrue'
  BY <1>1 DEF Blobs!Publish, Blobs!Step, Blobs!TypeOK, Shared, LeaseTrue, Blobs!Goto,
     Blobs!Release, Blobs!Ended, Blobs!job, Blobs!collector
<1>9. At(w)'
  BY <1>1, <1>2, <1>4, BlobAssumption DEF Blobs!Publish, Blobs!Step, Blobs!TypeOK,
     Blobs!Goto, Blobs!Ended, Blobs!job, At, KindTrue, PathTrue, IdTrue, WantTrue,
     PrivateTrue, PendingTrue, LinkTrue
<1>10. Guarantee(w)
  BY <1>1, <1>2, <1>4 DEF Blobs!Publish, Blobs!Step, Blobs!job, Blobs!Goto,
     Blobs!Ended, Guarantee, Blobs!TypeOK
<1>11. QED
  BY <1>6, <1>7, <1>8, <1>9, <1>10 DEF Done, Shared

LEMMA DropStageStep == ASSUME BlobInv, NEW w \in Blobs!Workers, Blobs!DropStage(w) PROVE Done(w)
<1> USE NamesAre DEF BlobInv
<1>1. blobPc[w] \in {"staged", "view"}
  BY BlobAssumption, BlobNoneAssumption DEF Blobs!Workers, Blobs!DropStage,
     Blobs!Step, At, KindTrue, PathTrue, IdTrue, WantTrue, PrivateTrue, PendingTrue,
     LinkTrue
<1>2. names' = [names EXCEPT ![Blobs!Stage(w)] = None]
  BY <1>1 DEF Blobs!DropStage, Blobs!Relink, Blobs!Renamed
<1>3. Moves
  BY <1>1, <1>2 DEF Moves, Blobs!DropStage, Blobs!Relink, Blobs!TypeOK, Places
<1>4. names' \in Places /\ inode' \in Disk
      /\ \A n \in Blobs!Names : names'[n] # None => inode'[names'[n]] = inode[names'[n]]
  BY <1>3, MovesFiles DEF Shared
<1>5. Blobs!Stage(w) \in Blobs!Names
  BY <1>1 DEF Shared, OthersTrue, Blobs!BlobTrue, Full
<1>6. Live' /\ Blobs!BlobTrue' /\ LfsTrue' /\ OthersTrue'
  <2>1. \A c \in Contents : names'[Blobs!Blob(c)] \in {None, names[Blobs!Blob(c)]} \/ inode[names'[Blobs!Blob(c)]] = Full(c)
    BY <1>1, <1>2, <1>5 DEF Blobs!TypeOK
  <2>2. \A c \in Contents : names'[Blobs!Lfs(c)] \in {None, names[Blobs!Lfs(c)]} \/ inode[names'[Blobs!Lfs(c)]] = Full(c)
    BY <1>1, <1>2, <1>5 DEF Blobs!TypeOK
  <2>3. \A v \in Blobs!Workers : names'[Blobs!Other(v)] \in {None, names[Blobs!Other(v)]}
    BY <1>1, <1>2 DEF Blobs!TypeOK
  <2>4. \A n \in Blobs!Names : names'[n] \in {None, names[n]} \/ \A v \in Blobs!Workers : names'[n] # names[Blobs!Other(v)]
    BY <1>1, <1>2, <1>5 DEF Blobs!TypeOK
  <2>5. QED
    BY <1>3, <2>1, <2>2, <2>3, <2>4, MovesShared DEF Shared
<1>7. Blobs!TypeOK'
  BY <1>1, <1>4 DEF Blobs!DropStage, Blobs!TypeOK, Blobs!Goto, Blobs!Step,
     Blobs!Release, Blobs!Ended, Blobs!job, Blobs!collector, Places, Disk, Inode
<1>8. LeaseTrue'
  BY <1>1 DEF Blobs!DropStage, Blobs!Step, Blobs!TypeOK, Shared, LeaseTrue,
     Blobs!Goto, Blobs!Release, Blobs!Ended, Blobs!job, Blobs!collector
<1>9. At(w)'
  BY <1>1, <1>2, <1>4, BlobAssumption DEF Blobs!DropStage, Blobs!Step, Blobs!TypeOK,
     Blobs!Goto, Blobs!Ended, Blobs!job, At, KindTrue, PathTrue, IdTrue, WantTrue,
     PrivateTrue, PendingTrue, LinkTrue
<1>10. Guarantee(w)
  BY <1>1, <1>2, <1>4 DEF Blobs!DropStage, Blobs!Step, Blobs!job, Blobs!Goto,
     Blobs!Ended, Guarantee, Blobs!TypeOK
<1>11. QED
  BY <1>6, <1>7, <1>8, <1>9, <1>10 DEF Done, Shared

LEMMA MarkedIs ==
    ASSUME NEW c \in Contents
    PROVE  Blobs!File(c, c) = Full(c) /\ Full(c) \in Inode /\ Full(c) # None
<1>1. Blobs!File(c, c) = Full(c)
  BY BlobNoneAssumption DEF Blobs!File, Full
<1>2. Full(c) \in Inode
  BY DEF Full, Inode
<1>3. QED
  BY <1>1, <1>2, BlobNoneAssumption DEF Inode

LEMMA MarkFileStep == ASSUME BlobInv, NEW w \in Blobs!Workers, Blobs!MarkFile(w) PROVE Done(w)
<1> USE NamesAre DEF BlobInv
<1> DEFINE i == names[path[w]]
<1>1. blobPc[w] = "mark" /\ id[w] \in Contents /\ path[w] \in {Blobs!Stage(w), Blobs!Download(w)} /\ i # None
      /\ inode[i].data = id[w] /\ \A n \in Blobs!Names : names[n] = i => n = path[w]
  BY BlobAssumption, BlobNoneAssumption DEF Blobs!MarkFile, Blobs!Step, At, PathTrue,
     IdTrue, PrivateTrue
<1>2. names' = names /\ i \in BlobInodes /\ inode[i] \in Inode
  BY <1>1 DEF Blobs!MarkFile, Blobs!TypeOK, Shared, Live, Inode
<1>3. inode' = [inode EXCEPT ![i] = Full(id[w])]
  BY <1>1, MarkedIs DEF Blobs!MarkFile
<1>4. Full(id[w]) \in Inode /\ Full(id[w]) # None
  BY <1>1, <1>2, MarkedIs
<1>5. inode' \in Disk /\ inode'[i] = Full(id[w]) /\ \A j \in BlobInodes \ {i} : inode'[j] = inode[j]
  BY <1>2, <1>3, <1>4 DEF Disk, Blobs!TypeOK, Inode
<1>6. Live' /\ Blobs!BlobTrue' /\ LfsTrue' /\ OthersTrue'
  <2>1. Live'
    BY <1>2, <1>4, <1>5 DEF Live, Shared, Blobs!TypeOK
  <2>2. \A c \in Contents : names[Blobs!Blob(c)] # i /\ names[Blobs!Lfs(c)] # i
    BY <1>1
  <2>3. \A v \in Blobs!Workers : names[Blobs!Other(v)] # i
    BY <1>1
  <2>4. Blobs!BlobTrue' /\ LfsTrue'
    BY <1>2, <1>5, <2>2 DEF Blobs!BlobTrue, LfsTrue, Shared, Blobs!TypeOK
  <2>5. OthersTrue'
    BY <1>2, <1>5, <2>3 DEF OthersTrue, Shared, Blobs!TypeOK
  <2>6. QED
    BY <2>1, <2>4, <2>5
<1>7. Blobs!TypeOK'
  BY <1>1, <1>2, <1>5 DEF Blobs!MarkFile, Blobs!TypeOK, Blobs!Goto, Blobs!Step,
     Blobs!job, Blobs!collector, Disk, Inode
<1>8. LeaseTrue'
  BY <1>1 DEF Blobs!MarkFile, Blobs!Step, Blobs!TypeOK, Shared, LeaseTrue, Blobs!Goto,
     Blobs!job, Blobs!collector
<1>9. At(w)'
  BY <1>1, <1>2, <1>5, BlobAssumption DEF Full, Blobs!MarkFile, Blobs!Step,
     Blobs!TypeOK, Blobs!Goto, Blobs!Ended, Blobs!job, At, KindTrue, PathTrue, IdTrue,
     WantTrue, PrivateTrue, PendingTrue, LinkTrue
<1>10. Guarantee(w)
  <2>1. \A v \in Blobs!Workers \ {w} : \A n \in Own(v) : names[n] # i
    BY <1>1
  <2>2. \A c \in Contents : names[Blobs!Lfs(c)] # i
    BY <1>1
  <2>3. \A v \in Blobs!Workers \ {w} : blobPc'[v] = blobPc[v] /\ path'[v] = path[v] /\ id'[v] = id[v]
    BY DEF Blobs!MarkFile, Blobs!Step, Blobs!job, Blobs!Goto, Blobs!TypeOK
  <2>4. \A n \in Blobs!Names : names[n] \in BlobInodes \union {None}
    BY DEF Blobs!TypeOK
  <2>5. QED
    BY <1>2, <1>5, <2>1, <2>2, <2>3, <2>4 DEF Guarantee
<1>11. QED
  BY <1>6, <1>7, <1>8, <1>9, <1>10 DEF Done, Shared

\* A worker creates a file with names of its own.
LEMMA CreatedShared ==
    ASSUME Blobs!TypeOK, Shared, NEW w \in Blobs!Workers, NEW ns \in SUBSET Own(w), NEW c \in Contents,
           NEW m \in Contents \union {None}, Blobs!Create(ns, c, m),
           \A n \in ns : names[n] = None \/ n # Blobs!Other(w),
           Blobs!Other(w) \in ns => ns \subseteq {Blobs!Stage(w), Blobs!Other(w)} /\ m = None,
           \A v \in Blobs!Workers \ {w} : blobPc'[v] = blobPc[v] /\ path'[v] = path[v] /\ id'[v] = id[v]
    PROVE  /\ names' \in Places /\ inode' \in Disk
           /\ Live' /\ Blobs!BlobTrue' /\ LfsTrue' /\ OthersTrue' /\ Guarantee(w)
           /\ \A n \in Blobs!Names \ ns : names'[n] = names[n]
           /\ \A n \in Blobs!Names \ ns : names[n] # None => inode'[names[n]] = inode[names[n]]
           /\ \A n \in ns : /\ names'[n] # None /\ inode'[names'[n]] = Blobs!File(c, m)
                            /\ \A k \in Blobs!Names \ ns : names'[k] # names'[n]
<1> USE NamesAre
<1>1. PICK i \in BlobInodes :
             /\ inode[i] = None /\ \A n \in Blobs!Names : names[n] # i
             /\ names' = [n \in Blobs!Names |-> IF n \in ns THEN i ELSE names[n]]
             /\ inode' = [inode EXCEPT ![i] = Blobs!File(c, m)]
             /\ names' \in Places /\ inode' \in Disk /\ Live'
  <2> HIDE NamesAre
  <2>1. ns \in SUBSET Blobs!Names
    BY NamesAre
  <2>2. QED
    BY <2>1, CreatedIs DEF Shared
<1>2. inode'[i] = Blobs!File(c, m) /\ \A j \in BlobInodes \ {i} : inode'[j] = inode[j]
  BY <1>1 DEF Blobs!TypeOK
<1>3. ns \subseteq Blobs!Names /\ \A n \in ns : names'[n] = i
  BY <1>1
<1>4. \A n \in Blobs!Names \ ns : names'[n] = names[n] /\ names'[n] # i
  BY <1>1
<1>5. \A n \in Blobs!Names : names[n] # None => names[n] \in BlobInodes \ {i} /\ inode'[names[n]] = inode[names[n]]
  BY <1>1, <1>2 DEF Blobs!TypeOK
<1>6. Blobs!BlobTrue' /\ LfsTrue'
  <2>1. \A d \in Contents : Blobs!Blob(d) \in Blobs!Names \ ns /\ Blobs!Lfs(d) \in Blobs!Names \ ns
    OBVIOUS
  <2>2. QED
    BY <2>1, <1>4, <1>5 DEF Shared, Blobs!BlobTrue, LfsTrue
<1>7. OthersTrue'
  <2> SUFFICES ASSUME NEW v \in Blobs!Workers, names'[Blobs!Other(v)] # None
               PROVE  /\ inode'[names'[Blobs!Other(v)]].mark = None
                      /\ \A n \in Blobs!Names : names'[n] = names'[Blobs!Other(v)] => n \in {Blobs!Stage(v), Blobs!Other(v)}
    BY DEF OthersTrue
  <2>1. CASE Blobs!Other(v) \in ns
    <3>1. v = w /\ ns \subseteq {Blobs!Stage(w), Blobs!Other(w)} /\ m = None
      BY <2>1
    <3>2. inode'[names'[Blobs!Other(v)]] = Blobs!File(c, None) /\ Blobs!File(c, None).mark = None
      BY <3>1, <2>1, <1>2, <1>3 DEF Blobs!File
    <3>3. QED
      BY <3>1, <3>2, <2>1, <1>3, <1>4
  <2>2. CASE Blobs!Other(v) \notin ns
    <3>1. names'[Blobs!Other(v)] = names[Blobs!Other(v)] /\ Blobs!Other(v) \in Blobs!Names /\ names[Blobs!Other(v)] # i
      BY <2>2, <1>4
    <3>2. inode'[names'[Blobs!Other(v)]] = inode[names[Blobs!Other(v)]]
      BY <3>1, <1>5
    <3>3. QED
      BY <3>1, <3>2, <1>3, <1>4 DEF Shared, OthersTrue
  <2>3. QED
    BY <2>1, <2>2
<1>8. Guarantee(w)
  <2>1. \A v \in Blobs!Workers \ {w} : \A n \in Own(v) : n \in Blobs!Names \ ns
    OBVIOUS
  <2>2. \A d \in Contents : Blobs!Blob(d) \in Blobs!Names \ ns /\ Blobs!Lfs(d) \in Blobs!Names \ ns
    OBVIOUS
  <2>3. QED
    BY <2>1, <2>2, <1>3, <1>4, <1>5 DEF Guarantee
<1>9. \A n \in ns : /\ names'[n] # None /\ inode'[names'[n]] = Blobs!File(c, m)
                   /\ \A k \in Blobs!Names \ ns : names'[k] # names'[n]
  <2>1. i # None
    BY BlobNoneAssumption
  <2>2. QED
    BY <2>1, <1>2, <1>3, <1>4
<1> HIDE NamesAre
<1>10. QED
  BY <1>1, <1>4, <1>5, <1>6, <1>7, <1>8, <1>9

LEMMA CopyStep == ASSUME BlobInv, NEW w \in Blobs!Workers, Blobs!Copy(w) PROVE Done(w)
<1> USE NamesAre DEF BlobInv
<1>1. blobPc[w] = "copy" /\ id[w] \in Contents /\ path[w] \in {Blobs!Stage(w), Blobs!Download(w), Blobs!Lfs(id[w])}
      /\ path[w] \in Blobs!Names /\ names[path[w]] # None
  BY BlobAssumption, BlobNoneAssumption DEF Blobs!Copy, Blobs!Step, At, PathTrue, IdTrue
<1>2. inode[names[path[w]]] \in Inode
  BY <1>1 DEF Blobs!TypeOK, Shared, Live, Inode
<1>3. PICK c \in Contents : c = inode[names[path[w]]].data
  BY <1>2 DEF Inode
<1>4. Blobs!Create({Blobs!Pending(w)}, c, c) /\ id' = [id EXCEPT ![w] = c]
  BY <1>3 DEF Blobs!Copy
<1>5. \A v \in Blobs!Workers \ {w} : blobPc'[v] = blobPc[v] /\ path'[v] = path[v] /\ id'[v] = id[v]
  BY <1>4 DEF Blobs!Copy, Blobs!Step, Blobs!Goto, Blobs!TypeOK
<1>6. {Blobs!Pending(w)} \in SUBSET Own(w) /\ Blobs!Other(w) \notin {Blobs!Pending(w)}
      /\ \A n \in {Blobs!Pending(w)} : names[n] = None \/ n # Blobs!Other(w)
  OBVIOUS
<1>7. /\ names' \in Places /\ inode' \in Disk
      /\ Live' /\ Blobs!BlobTrue' /\ LfsTrue' /\ OthersTrue' /\ Guarantee(w)
      /\ \A n \in Blobs!Names \ {Blobs!Pending(w)} : names'[n] = names[n]
      /\ \A n \in Blobs!Names \ {Blobs!Pending(w)} : names[n] # None => inode'[names[n]] = inode[names[n]]
      /\ names'[Blobs!Pending(w)] # None /\ inode'[names'[Blobs!Pending(w)]] = Blobs!File(c, c)
  <2> HIDE NamesAre
  <2>1. c \in Contents /\ c \in Contents \union {None} /\ Blobs!TypeOK /\ Shared
    BY <1>3
  <2>2. QED
    BY <2>1, <1>4, <1>5, <1>6, CreatedShared
<1>8. Blobs!File(c, c) = Full(c)
  BY <1>3, BlobNoneAssumption DEF Blobs!File, Full
<1>9. Blobs!TypeOK'
  BY <1>4, <1>7 DEF Blobs!Copy, Blobs!TypeOK, Blobs!Goto, Blobs!Step, Blobs!collector,
     Places, Disk, Inode
<1>10. LeaseTrue'
  BY <1>1 DEF Blobs!Copy, Blobs!Step, Blobs!TypeOK, Shared, LeaseTrue, Blobs!Goto,
     Blobs!collector
<1>11. At(w)'
  <2>1. blobPc'[w] = "persist" /\ path'[w] = path[w] /\ id'[w] = c /\ (w \in Hydrators => id[w] = c)
    BY <1>1, <1>3, <1>4 DEF Blobs!Copy, Blobs!Step, Blobs!Goto, Blobs!TypeOK, At,
       WantTrue
  <2>2. PathTrue(w)
    BY DEF At
  <2>3. KindTrue(w)' /\ PathTrue(w)' /\ IdTrue(w)' /\ WantTrue(w)' /\ PrivateTrue(w)' /\ LinkTrue(w)'
    BY <1>1, <2>1, <2>2 DEF KindTrue, PathTrue, IdTrue, WantTrue, PrivateTrue, LinkTrue
  <2>4. PendingTrue(w)'
    BY <2>1, <1>7, <1>8 DEF PendingTrue, Full
  <2>5. QED
    BY <2>3, <2>4 DEF At
<1>12. QED
  BY <1>7, <1>9, <1>10, <1>11 DEF Done, Shared

LEMMA StoreDownloadStep == ASSUME BlobInv, NEW w \in Hydrators, Blobs!StoreDownload(w) PROVE Done(w)
<1> USE NamesAre DEF BlobInv
<1>1. w \in Blobs!Workers /\ blobPc[w] = "download" /\ id[w] \in Contents
  BY BlobAssumption DEF Blobs!StoreDownload, Blobs!Step, Blobs!Workers, At, IdTrue
<1>2. PICK c \in Contents : c = id[w]
  BY <1>1
<1>3. Blobs!Create({Blobs!Download(w)}, c, None) /\ id' = id
  BY <1>2 DEF Blobs!StoreDownload
<1>4. \A v \in Blobs!Workers \ {w} : blobPc'[v] = blobPc[v] /\ path'[v] = path[v] /\ id'[v] = id[v]
  BY DEF Blobs!StoreDownload, Blobs!Step, Blobs!Goto, Blobs!TypeOK
<1>5. {Blobs!Download(w)} \in SUBSET Own(w) /\ Blobs!Other(w) \notin {Blobs!Download(w)}
      /\ \A n \in {Blobs!Download(w)} : names[n] = None \/ n # Blobs!Other(w)
  BY <1>1
<1>6. /\ names' \in Places /\ inode' \in Disk
      /\ Live' /\ Blobs!BlobTrue' /\ LfsTrue' /\ OthersTrue' /\ Guarantee(w)
      /\ names'[Blobs!Download(w)] # None /\ inode'[names'[Blobs!Download(w)]] = Blobs!File(c, None)
  <2> HIDE NamesAre
  <2>1. c \in Contents /\ None \in Contents \union {None} /\ Blobs!TypeOK /\ Shared
    BY <1>2
  <2>2. QED
    <3> HIDE DEF BlobInv
    <3>1. Blobs!Create({Blobs!Download(w)}, c, None)
      BY <1>3
    <3> DEFINE ns == {Blobs!Download(w)}
    <3>2. ns \in SUBSET Own(w) /\ Blobs!Other(w) \notin ns /\ \A n \in ns : n # Blobs!Other(w)
      BY <1>5, <1>1, NamesAre
    <3>3. Blobs!Download(w) \in ns /\ Blobs!Create(ns, c, None)
      BY <3>1
    <3> HIDE DEF ns
    <3>4. QED
      BY <2>1, <1>1, <3>2, <3>3, <1>4, CreatedShared
<1>7. Blobs!File(c, None).data = c
  BY DEF Blobs!File
<1>8. Blobs!TypeOK'
  BY <1>1, <1>3, <1>6 DEF Blobs!StoreDownload, Blobs!TypeOK, Blobs!Goto, Blobs!Step,
     Blobs!collector, Places, Disk, Inode
<1>9. LeaseTrue'
  BY <1>1 DEF Blobs!StoreDownload, Blobs!Step, Blobs!TypeOK, Shared, LeaseTrue,
     Blobs!Goto, Blobs!collector
<1>10. At(w)'
  <2>1. blobPc'[w] = "hash" /\ path'[w] = Blobs!Download(w) /\ id'[w] = c
    BY <1>1, <1>2, <1>3 DEF Blobs!StoreDownload, Blobs!Step, Blobs!Goto, Blobs!TypeOK
  <2>2. KindTrue(w)' /\ PathTrue(w)' /\ IdTrue(w)' /\ PendingTrue(w)' /\ PrivateTrue(w)' /\ LinkTrue(w)'
    BY <2>1 DEF KindTrue, PathTrue, IdTrue, PendingTrue, PrivateTrue, LinkTrue
  <2>3. WantTrue(w)'
    BY <2>1, <1>6, <1>7 DEF WantTrue
  <2>4. QED
    BY <2>2, <2>3 DEF At
<1>11. QED
  BY <1>6, <1>8, <1>9, <1>10 DEF Done, Shared

LEMMA ExtractStep == ASSUME BlobInv, NEW w \in Importers, Blobs!Extract(w) PROVE Done(w)
<1> USE NamesAre DEF BlobInv
<1>1. PICK c \in Contents, ns \in {{Blobs!Stage(w), Blobs!Other(w)}, {Blobs!Stage(w)}} :
        /\ Blobs!Start(w) /\ Blobs!Goto(w, "staged") /\ names[Blobs!Other(w)] = None
        /\ Blobs!Create(ns, c, None)
        /\ UNCHANGED <<path, id, leases, Blobs!collector>>
  BY DEF Blobs!Extract
<1>2. w \in Blobs!Workers
  BY DEF Blobs!Workers
<1>3. \A v \in Blobs!Workers \ {w} : blobPc'[v] = blobPc[v] /\ path'[v] = path[v] /\ id'[v] = id[v]
  BY <1>1 DEF Blobs!Goto, Blobs!TypeOK
<1>4. ns \in SUBSET Own(w) /\ ns \subseteq {Blobs!Stage(w), Blobs!Other(w)}
      /\ \A n \in ns : names[n] = None \/ n # Blobs!Other(w)
  BY <1>1, <1>2
<1>5. /\ names' \in Places /\ inode' \in Disk
      /\ Live' /\ Blobs!BlobTrue' /\ LfsTrue' /\ OthersTrue' /\ Guarantee(w)
  <2> HIDE NamesAre
  <2>1. c \in Contents /\ None \in Contents \union {None} /\ Blobs!TypeOK /\ Shared
    OBVIOUS
  <2>2. QED
    BY <2>1, <1>1, <1>2, <1>3, <1>4, CreatedShared
<1>6. Blobs!TypeOK'
  <2>1. runs' \in [Blobs!Workers -> 0 .. MaxRuns]
    <3> HIDE NamesAre
    <3>1. QED
      BY <1>1, <1>2, BlobAssumption DEF Blobs!TypeOK, Blobs!Start
  <2>2. QED
    BY <1>1, <1>5, <2>1 DEF Blobs!TypeOK, Blobs!Goto, Blobs!collector, Places, Disk,
       Inode
<1>7. LeaseTrue'
  BY <1>1, <1>2 DEF Blobs!TypeOK, Shared, LeaseTrue, Blobs!Goto, Blobs!collector
<1>8. At(w)'
  <2>1. blobPc'[w] = "staged"
    BY <1>1, <1>2 DEF Blobs!Goto, Blobs!TypeOK
  <2>2. QED
    BY <2>1, BlobAssumption DEF At, KindTrue, PathTrue, IdTrue, WantTrue, PrivateTrue,
       PendingTrue, LinkTrue
<1>9. QED
  BY <1>5, <1>6, <1>7, <1>8 DEF Done, Shared

LEMMA OtherWritesStep == ASSUME BlobInv, NEW w \in Blobs!Workers, Blobs!OtherWrites(w) PROVE Done(w)
<1> USE NamesAre DEF BlobInv
<1> DEFINE i == names[Blobs!Other(w)]
<1>1. PICK c \in Contents : inode' = [inode EXCEPT ![i].data = c]
  BY DEF Blobs!OtherWrites
<1>2. i # None /\ i \in BlobInodes /\ inode[i] \in Inode /\ names' = names
  BY DEF Blobs!OtherWrites, Blobs!TypeOK, Shared, Live, Inode
<1>3. /\ inode[i].mark = None
      /\ \A n \in Blobs!Names : names[n] = i => n \in {Blobs!Stage(w), Blobs!Other(w)}
  BY <1>2 DEF Shared, OthersTrue
<1>4. inode' \in Disk /\ inode'[i] # None /\ \A j \in BlobInodes \ {i} : inode'[j] = inode[j]
  <2> HIDE NamesAre
  <2>1. inode \in Disk
    BY DEF Blobs!TypeOK, Disk, Inode
  <2>2. [inode[i] EXCEPT !.data = c] \in Inode
    BY <1>2 DEF Inode
  <2>3. inode' = [inode EXCEPT ![i] = [inode[i] EXCEPT !.data = c]]
    BY <1>1, <1>2, <2>1 DEF Disk
  <2>4. QED
    BY <2>1, <2>2, <2>3, <1>2, BlobNoneAssumption DEF Disk, Inode
<1>5. inode'[i].mark = None
  <2> HIDE NamesAre
  <2>1. inode'[i] = [inode[i] EXCEPT !.data = c]
    BY <1>1, <1>2 DEF Blobs!TypeOK
  <2>2. [inode[i] EXCEPT !.data = c].mark = inode[i].mark
    BY <1>2 DEF Inode
  <2>3. QED
    BY <2>1, <2>2, <1>3
<1>6. \A n \in Blobs!Names : names[n] # None => names[n] \in BlobInodes
  BY DEF Blobs!TypeOK
<1>7. Live' /\ Blobs!BlobTrue' /\ LfsTrue' /\ OthersTrue'
  <2>1. Live'
    BY <1>2, <1>4, <1>6 DEF Live, Shared
  <2>2. \A d \in Contents : names[Blobs!Blob(d)] # i /\ names[Blobs!Lfs(d)] # i
    BY <1>3
  <2>3. Blobs!BlobTrue' /\ LfsTrue'
    BY <1>2, <1>4, <1>6, <2>2 DEF Blobs!BlobTrue, LfsTrue, Shared
  <2>4. \A v \in Blobs!Workers \ {w} : names[Blobs!Other(v)] # i
    BY <1>3
  <2>5. OthersTrue'
    BY <1>2, <1>4, <1>5, <1>6, <2>4 DEF OthersTrue, Shared
  <2>6. QED
    BY <2>1, <2>3, <2>5
<1>8. UNCHANGED <<blobPc, path, id, runs, leases, batch, locked>>
  BY DEF Blobs!OtherWrites, Blobs!job, Blobs!collector
<1>9. Blobs!TypeOK'
  BY <1>2, <1>4, <1>8 DEF Blobs!TypeOK, Disk, Inode
<1>10. LeaseTrue'
  BY <1>8 DEF LeaseTrue, Shared
<1>11. At(w)'
  <2>1. KindTrue(w)' /\ PathTrue(w)' /\ IdTrue(w)' /\ LinkTrue(w)'
    BY <1>2, <1>8 DEF At, KindTrue, PathTrue, IdTrue, LinkTrue
  <2>2. PendingTrue(w)'
    BY <1>2, <1>3, <1>4, <1>6, <1>8 DEF At, PendingTrue
  <2>3. ASSUME blobPc[w] \in {"exists", "mark", "adopt"} PROVE names[path[w]] # i /\ names[path[w]] \in BlobInodes
    <3>1. path[w] \in {Blobs!Stage(w), Blobs!Download(w)} /\ names[path[w]] # None
          /\ \A n \in Blobs!Names : names[n] = names[path[w]] => n = path[w]
      BY <2>3 DEF At, PathTrue, PrivateTrue
    <3>2. QED
      BY <3>1, <1>6
  <2>4. PrivateTrue(w)'
    BY <1>2, <1>4, <1>8, <2>3 DEF At, PrivateTrue
  <2>5. ASSUME w \in Hydrators, blobPc[w] \in {"hash", "copy"} PROVE names[path[w]] # i /\ names[path[w]] \in BlobInodes
    <3>1. path[w] \in {Blobs!Download(w), Blobs!Lfs(id[w])} /\ id[w] \in Contents /\ names[path[w]] # None
      BY <2>5, BlobAssumption DEF At, PathTrue, IdTrue, WantTrue
    <3>2. QED
      BY <3>1, <1>3, <1>6
  <2>6. WantTrue(w)'
    BY <1>2, <1>4, <1>8, <2>5 DEF At, WantTrue
  <2>7. QED
    BY <2>1, <2>2, <2>4, <2>6 DEF At
<1>12. Guarantee(w)
  <2>1. \A v \in Blobs!Workers \ {w} : \A n \in Own(v) : n \in Blobs!Names /\ names[n] # i
    BY <1>3
  <2>2. \A d \in Contents : names[Blobs!Lfs(d)] # i
    BY <1>3
  <2>3. QED
    BY <1>2, <1>4, <1>6, <1>8, <2>1, <2>2 DEF Guarantee
<1>13. QED
  BY <1>7, <1>9, <1>10, <1>11, <1>12 DEF Done, Shared

LEMMA OtherRemovesStep == ASSUME BlobInv, NEW w \in Blobs!Workers, Blobs!OtherRemoves(w) PROVE Done(w)
<1> USE NamesAre DEF BlobInv
<1>1. names' = [names EXCEPT ![Blobs!Other(w)] = None] /\ UNCHANGED <<blobPc, path, id, runs, leases, batch, locked>>
  BY DEF Blobs!OtherRemoves, Blobs!Relink, Blobs!job, Blobs!collector
<1>2. Moves
  BY <1>1 DEF Moves, Blobs!OtherRemoves, Blobs!Relink, Blobs!TypeOK, Places
<1>3. names' \in Places /\ inode' \in Disk
      /\ \A n \in Blobs!Names : names'[n] # None => inode'[names'[n]] = inode[names'[n]]
  BY <1>2, MovesFiles DEF Shared
<1>4. \A n \in Blobs!Names : n # Blobs!Other(w) => names'[n] = names[n]
  BY <1>1 DEF Blobs!TypeOK
<1>5. names'[Blobs!Other(w)] = None
  BY <1>1 DEF Blobs!TypeOK
<1>6. Live' /\ Blobs!BlobTrue' /\ LfsTrue' /\ OthersTrue'
  <2>1. \A c \in Contents : names'[Blobs!Blob(c)] = names[Blobs!Blob(c)] /\ names'[Blobs!Lfs(c)] = names[Blobs!Lfs(c)]
    BY <1>4
  <2>2. \A n \in Blobs!Names : names'[n] \in {None, names[n]}
    BY <1>4, <1>5
  <2>3. QED
    BY <1>2, <2>1, <2>2, MovesShared DEF Shared
<1>7. Blobs!TypeOK'
  BY <1>1, <1>3 DEF Blobs!TypeOK, Places, Disk, Inode
<1>8. LeaseTrue'
  BY <1>1 DEF LeaseTrue, Shared
<1>9. At(w)'
  <2>1. path[w] \in Blobs!Names \ {Blobs!Other(w)} \/ blobPc[w] \notin {"hash", "exists", "mark", "adopt", "copy", "persist", "replace", "rename", "imported"}
    BY BlobAssumption DEF At, PathTrue, IdTrue
  <2>2. KindTrue(w)' /\ PathTrue(w)' /\ IdTrue(w)' /\ PendingTrue(w)'
    BY <1>1, <1>3, <1>4 DEF At, KindTrue, PathTrue, IdTrue, PendingTrue
  <2>3. WantTrue(w)'
    BY <1>1, <1>3, <1>4, <2>1 DEF At, WantTrue
  <2>4. PrivateTrue(w)'
    BY <1>1, <1>3, <1>4, <1>5, <2>1 DEF At, PrivateTrue
  <2>5. LinkTrue(w)'
    BY <1>1, <1>4, <2>1 DEF At, LinkTrue, IdTrue
  <2>6. QED
    BY <2>2, <2>3, <2>4, <2>5 DEF At
<1>10. Guarantee(w)
  BY <1>1, <1>3, <1>4, <1>5 DEF Guarantee
<1>11. QED
  BY <1>6, <1>7, <1>8, <1>9, <1>10 DEF Done, Shared

-----------------------------------------------------------------------------
(* The collector                                                           *)

LEMMA CollectQuietly ==
    ASSUME BlobInv, Blobs!List \/ Blobs!TryLock \/ Blobs!Unlock
    PROVE  BlobInv'
<1>1. UNCHANGED <<names, inode, blobPc, path, id, runs, leases>>
  BY DEF Blobs!List, Blobs!TryLock, Blobs!Unlock, Blobs!files, Blobs!job
<1>2. Blobs!TypeOK'
  BY <1>1 DEF BlobInv, Blobs!TypeOK, Blobs!List, Blobs!TryLock, Blobs!Unlock
<1>3. Live' /\ Blobs!BlobTrue' /\ LfsTrue' /\ OthersTrue'
  BY <1>1 DEF BlobInv, Shared, Live, Blobs!BlobTrue, LfsTrue, OthersTrue
<1>4. LeaseTrue'
  <2>1. locked' => leases' = {}
    <3>1. CASE Blobs!List
      BY <3>1 DEF Blobs!List
    <3>2. CASE Blobs!TryLock
      <4>1. locked' = (leases = {})
        BY <3>2 DEF Blobs!TryLock
      <4>2. QED
        BY <4>1, <1>1
    <3>3. CASE Blobs!Unlock
      BY <3>3 DEF Blobs!Unlock
    <3>4. QED
      BY <3>1, <3>2, <3>3
  <2>2. QED
    BY <1>1, <2>1 DEF BlobInv, Shared, LeaseTrue
<1>5. \A w \in Blobs!Workers : At(w)'
  BY <1>1 DEF BlobInv, At, KindTrue, PathTrue, IdTrue, WantTrue, PrivateTrue,
     PendingTrue, LinkTrue
<1>6. QED
  BY <1>2, <1>3, <1>4, <1>5 DEF BlobInv, Shared

\* While the lock is held every worker is at rest, and a view's link counts.
LEMMA ExamineStep ==
    ASSUME BlobInv, NEW n \in Blobs!Names, Blobs!Examine(n)
    PROVE  BlobInv'
<1> USE NamesAre DEF BlobInv
<1>1. UNCHANGED <<blobPc, path, id, runs, leases, locked>> /\ batch' \subseteq Blobs!Names
  BY DEF Blobs!Examine, Blobs!job, Blobs!TypeOK
<1>2. names' = IF Blobs!Unused(n) THEN [names EXCEPT ![n] = None] ELSE names
  BY DEF Blobs!Examine, Blobs!Relink
<1>3. Moves
  <2>1. inode' = [i \in BlobInodes |-> IF i \in {names'[m] : m \in Blobs!Names} THEN inode[i] ELSE None]
    BY DEF Blobs!Examine, Blobs!Relink
  <2>2. names' \in Places /\ \A m \in Blobs!Names : names'[m] # None => \E k \in Blobs!Names : names'[m] = names[k]
    BY <1>2 DEF Blobs!TypeOK, Places
  <2>3. QED
    BY <2>1, <2>2 DEF Moves
<1>4. names' \in Places /\ inode' \in Disk
  BY <1>3, MovesFiles DEF Shared
<1>5. \A m \in Blobs!Names : names'[m] \in {None, names[m]} /\ (m # n => names'[m] = names[m])
  BY <1>2 DEF Blobs!TypeOK
<1>6. Live' /\ Blobs!BlobTrue' /\ LfsTrue' /\ OthersTrue'
  BY <1>3, <1>5, MovesShared DEF Shared
<1>7. Blobs!TypeOK'
  BY <1>1, <1>4 DEF Blobs!TypeOK, Places, Disk, Inode
<1>8. LeaseTrue'
  BY <1>1 DEF LeaseTrue, Shared
<1>9. \A w \in Blobs!Workers : blobPc[w] \in {"idle", "staged", "view"}
  BY DEF Blobs!Examine, Shared, LeaseTrue
<1>10. ASSUME NEW w \in Blobs!Workers PROVE At(w)'
  <2>1. CASE blobPc[w] \in {"idle", "staged"}
    BY <2>1, <1>1 DEF At, KindTrue, PathTrue, IdTrue, WantTrue, PrivateTrue,
       PendingTrue, LinkTrue
  <2>2. CASE blobPc[w] = "view"
    <3>1. id[w] \in Contents /\ names[Blobs!Blob(id[w])] # None /\ names[Blobs!Stage(w)] = names[Blobs!Blob(id[w])]
      BY <2>2 DEF At, IdTrue, LinkTrue
    <3>2. ASSUME n \in {Blobs!Stage(w), Blobs!Blob(id[w])} PROVE ~Blobs!Unused(n)
      <4>1. Blobs!Stage(w) \in Blobs!Links(names[n]) /\ Blobs!Blob(id[w]) \in Blobs!Links(names[n]) /\ Blobs!Stage(w) # Blobs!Blob(id[w])
        BY <3>1, <3>2 DEF Blobs!Links
      <4>2. names[n] # None /\ Cardinality(Blobs!Links(names[n])) # 1
        <5> HIDE NamesAre
        <5>1. names[n] # None
          BY <3>1, <3>2
        <5>2. Cardinality(Blobs!Links(names[n])) = 1 => Blobs!Links(names[n]) = {n}
          BY <5>1, LinksAre
        <5>3. QED
          BY <5>1, <5>2, <4>1
      <4>3. n[1] # "lfs"
        BY <3>2 DEF Blobs!Stage, Blobs!Blob
      <4>4. QED
        BY <4>2, <4>3, CardinalityIs DEF Blobs!Unused
    <3>3. names'[Blobs!Stage(w)] = names[Blobs!Stage(w)] /\ names'[Blobs!Blob(id[w])] = names[Blobs!Blob(id[w])]
      BY <3>1, <3>2, <1>2, <1>5
    <3>4. QED
      BY <2>2, <3>1, <3>3, <1>1 DEF At, KindTrue, PathTrue, IdTrue, WantTrue,
         PrivateTrue, PendingTrue, LinkTrue
  <2>3. QED
    BY <2>1, <2>2, <1>9
<1>11. QED
  BY <1>6, <1>7, <1>8, <1>10 DEF Shared

-----------------------------------------------------------------------------
LEMMA BlobInit == ASSUME Blobs!Init PROVE BlobInv
<1>1. PICK old \in Contents \union {None}, c \in Contents, first \in BlobInodes :
       /\ names = [n \in Blobs!Names |-> IF old # None /\ n = Blobs!Lfs(old) THEN first ELSE None]
       /\ inode = [i \in BlobInodes |-> IF old # None /\ i = first THEN Blobs!File(c, None) ELSE None]
  BY DEF Blobs!Init
<1>2. Blobs!File(c, None) \in Inode /\ Blobs!File(c, None) # None /\ Blobs!File(c, None).mark = None
  <2>1. (None # None) \in BOOLEAN
    OBVIOUS
  <2>2. Blobs!File(c, None) \in Inode
    BY <2>1 DEF Blobs!File, Inode
  <2>3. QED
    BY <2>2, BlobNoneAssumption DEF Blobs!File, Inode
<1>3. names \in Places /\ inode \in Disk
  BY <1>1, <1>2 DEF Places, Disk
<1>4. Blobs!TypeOK
  <2>1. /\ blobPc = [w \in Blobs!Workers |-> "idle"] /\ path = [w \in Blobs!Workers |-> None]
        /\ id = [w \in Blobs!Workers |-> None] /\ runs = [w \in Blobs!Workers |-> 0]
        /\ leases = {} /\ batch = {} /\ locked = FALSE
    BY DEF Blobs!Init
  <2>2. runs \in [Blobs!Workers -> 0 .. MaxRuns]
    BY <2>1, BlobAssumption
  <2>3. path \in [Blobs!Workers -> Blobs!Names \union {None}] /\ id \in [Blobs!Workers -> Contents \union {None}]
    BY <2>1
  <2>4. QED
    BY <1>3, <2>1, <2>2, <2>3 DEF Blobs!TypeOK, Places, Disk, Inode
<1> USE NamesAre
<1>5. Live
  BY <1>1, <1>2 DEF Live
<1>6. Blobs!BlobTrue /\ OthersTrue
  BY <1>1 DEF Blobs!BlobTrue, OthersTrue
<1>7. LfsTrue
  <2> SUFFICES ASSUME NEW d \in Contents, names[Blobs!Lfs(d)] # None
               PROVE  inode[names[Blobs!Lfs(d)]].mark = None
    BY DEF LfsTrue
  <2>1. names[Blobs!Lfs(d)] = first /\ inode[first] = Blobs!File(c, None)
    BY <1>1
  <2>2. QED
    BY <2>1, <1>2
<1>8. LeaseTrue
  BY DEF Blobs!Init, LeaseTrue
<1>9. \A w \in Blobs!Workers : At(w)
  BY DEF Blobs!Init, At, KindTrue, PathTrue, IdTrue, WantTrue, PrivateTrue,
     PendingTrue, LinkTrue
<1>10. QED
  BY <1>4, <1>5, <1>6, <1>7, <1>8, <1>9 DEF BlobInv, Shared

LEMMA WorkerStep ==
    ASSUME BlobInv, NEW w \in Blobs!Workers, Done(w)
    PROVE  BlobInv'
<1>1. Blobs!TypeOK' /\ Shared' /\ At(w)' /\ Guarantee(w) /\ Blobs!BlobTrue'
  BY DEF Done, Shared
<1>2. \A v \in Blobs!Workers \ {w} : At(v)'
  BY <1>1, OthersKept DEF BlobInv
<1>3. \A v \in Blobs!Workers : At(v)'
  BY <1>1, <1>2
<1>4. QED
  BY <1>1, <1>3 DEF BlobInv

LEMMA BlobNext == ASSUME BlobInv, [Blobs!Next]_(Blobs!vars) PROVE BlobInv'
<1>1. CASE UNCHANGED Blobs!vars
  BY <1>1 DEF Blobs!vars, BlobInv, Blobs!TypeOK, Shared, Live, Blobs!BlobTrue,
     LfsTrue, OthersTrue, LeaseTrue, At, KindTrue, PathTrue, IdTrue, WantTrue,
     PrivateTrue, PendingTrue, LinkTrue
<1>2. ASSUME NEW w \in Importers, Blobs!Importer(w) \/ Blobs!DropStage(w) \/ Blobs!OtherWrites(w) \/ Blobs!OtherRemoves(w)
      PROVE  BlobInv'
  <2>1. w \in Blobs!Workers
    BY DEF Blobs!Workers
  <2>2. CASE Blobs!Extract(w)
    BY <2>1, <2>2, ExtractStep, WorkerStep
  <2>3. CASE Blobs!LinkCached(w)
    BY <2>1, <2>3, LinkCachedStep, WorkerStep
  <2>4. CASE Blobs!Hint(w) \/ Blobs!CachedSize(w) \/ Blobs!ImportStage(w) \/ Blobs!ImportEnds(w)
    BY <2>1, <2>4, QuietStep, WorkerStep DEF Quiet
  <2>5. CASE Blobs!Import(w)
    BY <2>1, <2>5, QuietStep, MarkFileStep, AdoptStep, CopyStep, PersistStep,
       ReplaceStep, RenameStep, WorkerStep
       DEF Blobs!Import, Quiet
  <2>6. CASE Blobs!DropStage(w) \/ Blobs!OtherWrites(w) \/ Blobs!OtherRemoves(w)
    BY <2>1, <2>6, DropStageStep, OtherWritesStep, OtherRemovesStep, WorkerStep
  <2>7. QED
    BY <1>2, <2>2, <2>3, <2>4, <2>5, <2>6 DEF Blobs!Importer
<1>3. ASSUME NEW w \in Hydrators, Blobs!Hydrator(w) \/ Blobs!DropStage(w) \/ Blobs!Kill(w)
      PROVE  BlobInv'
  <2>1. w \in Blobs!Workers
    BY DEF Blobs!Workers
  <2>2. CASE Blobs!StoreDownload(w) \/ Blobs!PersistDownload(w) \/ Blobs!Publish(w)
    BY <2>1, <2>2, StoreDownloadStep, PersistDownloadStep, PublishStep, WorkerStep
  <2>3. CASE Blobs!Hydrate(w) \/ Blobs!Cached(w) \/ Blobs!DownloadFails(w) \/ Blobs!Kill(w)
    BY <2>1, <2>3, QuietStep, WorkerStep DEF Quiet
  <2>4. CASE Blobs!Import(w)
    BY <2>1, <2>4, QuietStep, MarkFileStep, AdoptStep, CopyStep, PersistStep,
       ReplaceStep, RenameStep, WorkerStep
       DEF Blobs!Import, Quiet
  <2>5. CASE Blobs!DropStage(w)
    BY <2>1, <2>5, DropStageStep, WorkerStep
  <2>6. QED
    BY <1>3, <2>2, <2>3, <2>4, <2>5 DEF Blobs!Hydrator
<1>4. CASE Blobs!Collect
  BY <1>4, CollectQuietly, ExamineStep DEF Blobs!Collect
<1>5. QED
  BY <1>1, <1>2, <1>3, <1>4 DEF Blobs!Next

\* The invariant holds in every reachable state of the blob store.
THEOREM BlobInvariant == Blobs!Spec => []BlobInv
<1>1. Blobs!Init => BlobInv
  BY BlobInit
<1>2. BlobInv /\ [Blobs!Next]_(Blobs!vars) => BlobInv'
  BY BlobNext
<1>3. QED
  BY <1>1, <1>2, PTL DEF Blobs!Spec

LEMMA BlobInvTrue == ASSUME BlobInv PROVE Blobs!BlobTrue /\ Blobs!ViewTrue /\ Blobs!LinkKept
<1> USE NamesAre DEF BlobInv
<1>1. Blobs!BlobTrue
  BY DEF Shared
<1>2. Blobs!ViewTrue
  <2> SUFFICES ASSUME NEW w \in Blobs!Workers, blobPc[w] = "view"
               PROVE  /\ names[Blobs!Stage(w)] # None /\ names[Blobs!Stage(w)] = names[Blobs!Blob(id[w])]
                      /\ inode[names[Blobs!Stage(w)]].data = id[w]
    BY DEF Blobs!ViewTrue
  <2>1. id[w] \in Contents /\ names[Blobs!Blob(id[w])] # None /\ names[Blobs!Stage(w)] = names[Blobs!Blob(id[w])]
    BY DEF At, IdTrue, LinkTrue
  <2>2. inode[names[Blobs!Blob(id[w])]] = [data |-> id[w], mark |-> id[w], synced |-> TRUE]
    BY <2>1, <1>1 DEF Blobs!BlobTrue
  <2>3. inode[names[Blobs!Blob(id[w])]].data = id[w]
    BY <2>2
  <2>4. QED
    BY <2>1, <2>3
<1>3. Blobs!LinkKept
  BY DEF Blobs!LinkKept, At, LinkTrue
<1>4. QED
  BY <1>1, <1>2, <1>3

\* BlobsTrue holds in every reachable state: no name ever has other contents
\* than it says, and what a job found can be linked.
THEOREM BlobsCorrect == Blobs!Spec => []BlobsTrue
<1>1. BlobInv => BlobsTrue
  BY BlobInvTrue DEF BlobsTrue
<1>2. QED
  BY <1>1, BlobInvariant, PTL

-----------------------------------------------------------------------------
(***************************************************************************)
(* Views                                                                   *)
(*                                                                         *)
(* A manifest in the database is leased while its workspace is in memory.  *)
(* It is not in memory only before its first use or after a crash; then no *)
(* pass is under way, and the next one that comes to collect has observed  *)
(* that manifest (Known).  What a plan found it leased before (WorkTrue).  *)
(* A pass observes a manifest it loaded only if the dependencies have the  *)
(* revision they had; a preparation that saves another one either raises   *)
(* it, or is yet to observe its own, or found the same (Loaded).           *)
(***************************************************************************)

Ready == [step |-> "ready"]
Plans == [step : {"discover", "apply", "observe"}, need : SUBSET Views, seen : SUBSET Views]
Passes ==
  {Leases!Idle}
    \union [step : {"seed", "flush"}, known : BOOLEAN, todo : SUBSET Workspaces]
    \union [step : {"load"}, known : BOOLEAN, todo : SUBSET Workspaces, at : Workspaces,
            revision : Nat]
    \union [step : {"observe"}, known : BOOLEAN, todo : SUBSET Workspaces, at : Workspaces,
            revision : Nat, manifest : SUBSET Views]
    \union [step : {"collect"}, todo : SUBSET Views]

LeaseTypes ==
  /\ Leases!TypeOK
  /\ work \in [Workspaces -> {Leases!Closed, Leases!Opened, Ready} \union Plans]
  /\ gc \in Passes
  /\ stage \in {None} \union [at : Nat, entries : [Workspaces -> Leases!Manifests]]
  /\ gc.step = "flush" => stage # None /\ gc.todo = {}
  /\ gc.step \in {"load", "observe"} => gc.revision <= dependencyRevision
  /\ savedAt <= revision
  /\ faults \in Nat

\* A workspace in memory leases its manifest, and what its plan found so far.
WorkTrue(w) ==
  /\ work[w] # Leases!Closed /\ db[w] # None => db[w] \subseteq viewLeases[w]
  /\ work[w].step \in {"discover", "apply"} =>
       work[w].seen \subseteq pending[w] /\ work[w].seen \subseteq views
  /\ work[w].step = "apply" => work[w].need = work[w].seen
  /\ db[w] # None => db[w] \subseteq views

\* A pass that knows every dependency has seen the manifest of a workspace
\* that is not in memory, or is about to.
Known(w) ==
  work[w] = Leases!Closed /\ db[w] # None =>
    /\ gc.step \in {"seed", "load", "observe", "flush"} =>
         \/ ~gc.known \/ w \in gc.todo \/ owners[w] = db[w]
         \/ gc.step \in {"load", "observe"} /\ gc.at = w
    /\ gc.step = "observe" /\ gc.at = w => gc.manifest = db[w]
    /\ gc.step = "collect" => owners[w] = db[w]

\* Without failures the catalog has the manifest of the database, but for a
\* preparation about to observe it; a pass that loaded an older one sees
\* another revision by then, or observes what is there.
FreshTrue(w) ==
  /\ work[w].step # "observe" => owners[w] = db[w]
  /\ work[w].step = "observe" => w \notin fresh
Loaded ==
  gc.step = "observe" /\ gc.revision = dependencyRevision =>
    \/ gc.manifest = db[gc.at]
    \/ work[gc.at].step = "observe" /\ gc.manifest = owners[gc.at]

Works == \A w \in Workspaces : WorkTrue(w)
AllKnown == \A w \in Workspaces : Known(w)
Fresh == faults = 0 => Loaded /\ \A w \in Workspaces : FreshTrue(w)
LeaseInv == LeaseTypes /\ Works /\ AllKnown /\ Fresh

-----------------------------------------------------------------------------
LEMMA OpenStep == ASSUME LeaseInv, NEW w \in Workspaces, Leases!Open(w) PROVE LeaseInv'
<1> USE ManifestAssumption DEF LeaseInv, Leases!Open, Leases!catalog, Leases!file, Leases!counts, Leases!Closed, Leases!Opened, Ready, Leases!Idle, Leases!Manifests, Leases!Observed, Leases!Evicted, Leases!LeasedFirst, Leases!SameDependencies, Leases!Publishes, Leases!Retires, Leases!Retains, Leases!Leased
<1>1. LeaseTypes'
  BY DEF LeaseTypes, Leases!TypeOK, Plans, Passes
<1>2. Works'
  BY DEF LeaseTypes, Leases!TypeOK, Plans, Works, WorkTrue
<1>3. AllKnown'
  BY DEF LeaseTypes, Leases!TypeOK, Plans, Passes, AllKnown, Known
<1>4. Fresh'
  BY DEF LeaseTypes, Leases!TypeOK, Plans, Passes, Fresh, Loaded, FreshTrue
<1>5. QED
  BY <1>1, <1>2, <1>3, <1>4

LEMMA ValidateStep == ASSUME LeaseInv, NEW w \in Workspaces, Leases!Validate(w) PROVE LeaseInv'
<1> USE ManifestAssumption DEF LeaseInv, Leases!Validate, Leases!catalog, Leases!file, Leases!counts, Leases!Closed, Leases!Opened, Ready, Leases!Idle, Leases!Manifests, Leases!Observed, Leases!Evicted, Leases!LeasedFirst, Leases!SameDependencies, Leases!Publishes, Leases!Retires, Leases!Retains, Leases!Leased
<1>1. LeaseTypes'
  BY DEF LeaseTypes, Leases!TypeOK, Plans, Passes
<1>2. Works'
  BY DEF LeaseTypes, Leases!TypeOK, Plans, Works, WorkTrue
<1>3. AllKnown'
  BY DEF LeaseTypes, Leases!TypeOK, Plans, Passes, AllKnown, Known
<1>4. Fresh'
  BY DEF LeaseTypes, Leases!TypeOK, Plans, Passes, Fresh, Loaded, FreshTrue
<1>5. QED
  BY <1>1, <1>2, <1>3, <1>4

LEMMA DiscoverStep == ASSUME LeaseInv, NEW w \in Workspaces, Leases!Discover(w) PROVE LeaseInv'
<1> USE ManifestAssumption DEF LeaseInv, Leases!Discover, Leases!catalog, Leases!file, Leases!counts, Leases!Closed, Leases!Opened, Ready, Leases!Idle, Leases!Manifests, Leases!Observed, Leases!Evicted, Leases!LeasedFirst, Leases!SameDependencies, Leases!Publishes, Leases!Retires, Leases!Retains, Leases!Leased
<1>1. LeaseTypes'
  BY DEF LeaseTypes, Leases!TypeOK, Plans, Passes
<1>2. Works'
  BY DEF LeaseTypes, Leases!TypeOK, Plans, Works, WorkTrue
<1>3. AllKnown'
  BY DEF LeaseTypes, Leases!TypeOK, Plans, Passes, AllKnown, Known
<1>4. Fresh'
  BY DEF LeaseTypes, Leases!TypeOK, Plans, Passes, Fresh, Loaded, FreshTrue
<1>5. QED
  BY <1>1, <1>2, <1>3, <1>4

LEMMA RetainStep == ASSUME LeaseInv, NEW w \in Workspaces, Leases!Retain(w) PROVE LeaseInv'
<1> USE ManifestAssumption DEF LeaseInv, Leases!Retain, Leases!catalog, Leases!file, Leases!counts, Leases!Closed, Leases!Opened, Ready, Leases!Idle, Leases!Manifests, Leases!Observed, Leases!Evicted, Leases!LeasedFirst, Leases!SameDependencies, Leases!Publishes, Leases!Retires, Leases!Retains, Leases!Leased
<1>1. LeaseTypes'
  BY DEF LeaseTypes, Leases!TypeOK, Plans, Passes
<1>2. Works'
  BY DEF LeaseTypes, Leases!TypeOK, Plans, Works, WorkTrue
<1>3. AllKnown'
  BY DEF LeaseTypes, Leases!TypeOK, Plans, Passes, AllKnown, Known
<1>4. Fresh'
  BY DEF LeaseTypes, Leases!TypeOK, Plans, Passes, Fresh, Loaded, FreshTrue
<1>5. QED
  BY <1>1, <1>2, <1>3, <1>4

LEMMA ProbeStep == ASSUME LeaseInv, NEW w \in Workspaces, Leases!Probe(w) PROVE LeaseInv'
<1> USE ManifestAssumption DEF LeaseInv, Leases!Probe, Leases!catalog, Leases!file, Leases!counts, Leases!Closed, Leases!Opened, Ready, Leases!Idle, Leases!Manifests, Leases!Observed, Leases!Evicted, Leases!LeasedFirst, Leases!SameDependencies, Leases!Publishes, Leases!Retires, Leases!Retains, Leases!Leased
<1>a. work[w] \in Plans /\ work[w].step = "discover"
  BY DEF LeaseTypes, Plans
<1>b. PICK v \in Views, s \in {"discover", "apply"} :
        /\ v \in pending[w] /\ views' = views \union {v}
        /\ s = "apply" => work[w].need = work[w].seen \union {v}
        /\ work' = [work EXCEPT ![w] = [step |-> s, need |-> work[w].need, seen |-> work[w].seen \union {v}]]
  BY <1>a DEF Plans, LeaseTypes
<1>c. [step |-> s, need |-> work[w].need, seen |-> work[w].seen \union {v}] \in Plans
  BY <1>a DEF Plans
<1>d. /\ work'[w] = [step |-> s, need |-> work[w].need, seen |-> work[w].seen \union {v}]
      /\ \A u \in Workspaces \ {w} : work'[u] = work[u]
  BY <1>b DEF LeaseTypes
<1>e. work'[w].step = s /\ work'[w].need = work[w].need /\ work'[w].seen = work[w].seen \union {v}
      /\ work'[w] # Leases!Closed
  BY <1>d
<1>1. LeaseTypes'
  <2>1. work' \in [Workspaces -> {Leases!Closed, Leases!Opened, Ready} \union Plans]
    BY <1>b, <1>c DEF LeaseTypes
  <2>2. Leases!TypeOK'
    BY <1>b, <1>d, <1>e DEF LeaseTypes, Leases!TypeOK
  <2>3. QED
    BY <2>1, <2>2 DEF LeaseTypes
<1>2. Works'
  <2> SUFFICES ASSUME NEW u \in Workspaces PROVE WorkTrue(u)'
    BY DEF Works
  <2>1. WorkTrue(u) /\ UNCHANGED <<db, viewLeases, pending>> /\ views \subseteq views'
    BY <1>b DEF Works
  <2>2. CASE u = w
    <3>1. work[w].seen \subseteq pending[w] /\ work[w].seen \subseteq views
      BY <1>a, <2>1, <2>2 DEF WorkTrue
    <3> HIDE DEF Leases!Probe, LeaseInv
    <3>2. work[w] # Leases!Closed
      BY <1>a
    <3>3. QED
      BY <1>b, <1>e, <2>1, <2>2, <3>1, <3>2 DEF WorkTrue
  <2>3. CASE u # w
    <3> HIDE DEF Leases!Probe, LeaseInv
    <3>1. QED
      BY <1>d, <2>1, <2>3 DEF WorkTrue
  <2>4. QED
    BY <2>2, <2>3
<1>3. AllKnown'
  BY <1>d, <1>e DEF AllKnown, Known
<1>4. Fresh'
  BY <1>a, <1>d, <1>e DEF LeaseTypes, Leases!TypeOK, Fresh, Loaded, FreshTrue
<1>5. QED
  BY <1>1, <1>2, <1>3, <1>4

LEMMA ApplyStep == ASSUME LeaseInv, NEW w \in Workspaces, Leases!Apply(w) PROVE LeaseInv'
<1> USE ManifestAssumption DEF LeaseInv, Leases!Apply, Leases!catalog, Leases!file, Leases!counts, Leases!Closed, Leases!Opened, Ready, Leases!Idle, Leases!Manifests, Leases!Observed, Leases!Evicted, Leases!LeasedFirst, Leases!SameDependencies, Leases!Publishes, Leases!Retires, Leases!Retains, Leases!Leased
<1>1. LeaseTypes'
  BY DEF LeaseTypes, Leases!TypeOK, Plans, Passes
<1>2. Works'
  BY DEF LeaseTypes, Leases!TypeOK, Plans, Works, WorkTrue
<1>3. AllKnown'
  BY DEF LeaseTypes, Leases!TypeOK, Plans, Passes, AllKnown, Known
<1>4. Fresh'
  BY DEF LeaseTypes, Leases!TypeOK, Plans, Passes, Fresh, Loaded, FreshTrue
<1>5. QED
  BY <1>1, <1>2, <1>3, <1>4

LEMMA ObserveStep == ASSUME LeaseInv, NEW w \in Workspaces, Leases!Observe(w) PROVE LeaseInv'
<1> USE ManifestAssumption DEF LeaseInv, Leases!Observe, Leases!catalog, Leases!file, Leases!counts, Leases!Closed, Leases!Opened, Ready, Leases!Idle, Leases!Manifests, Leases!Observed, Leases!Evicted, Leases!LeasedFirst, Leases!SameDependencies, Leases!Publishes, Leases!Retires, Leases!Retains, Leases!Leased
<1>1. LeaseTypes'
  BY DEF LeaseTypes, Leases!TypeOK, Plans, Passes
<1>2. Works'
  BY DEF LeaseTypes, Leases!TypeOK, Plans, Works, WorkTrue
<1>3. AllKnown'
  BY DEF LeaseTypes, Leases!TypeOK, Plans, Passes, AllKnown, Known
<1>4. Fresh'
  BY DEF LeaseTypes, Leases!TypeOK, Plans, Passes, Fresh, Loaded, FreshTrue
<1>5. QED
  BY <1>1, <1>2, <1>3, <1>4

LEMMA FailStep == ASSUME LeaseInv, NEW w \in Workspaces, Leases!Fail(w) PROVE LeaseInv'
<1> USE ManifestAssumption DEF LeaseInv, Leases!Fail, Leases!catalog, Leases!file, Leases!counts, Leases!Closed, Leases!Opened, Ready, Leases!Idle, Leases!Manifests, Leases!Observed, Leases!Evicted, Leases!LeasedFirst, Leases!SameDependencies, Leases!Publishes, Leases!Retires, Leases!Retains, Leases!Leased
<1>1. LeaseTypes'
  BY DEF LeaseTypes, Leases!TypeOK, Plans, Passes
<1>2. Works'
  BY DEF LeaseTypes, Leases!TypeOK, Plans, Works, WorkTrue
<1>3. AllKnown'
  BY DEF LeaseTypes, Leases!TypeOK, Plans, Passes, AllKnown, Known
<1>4. Fresh'
  BY DEF LeaseTypes, Leases!TypeOK, Plans, Passes, Fresh, Loaded, FreshTrue
<1>5. QED
  BY <1>1, <1>2, <1>3, <1>4

LEMMA EvictStep == ASSUME LeaseInv, NEW w \in Workspaces, Leases!Evict(w) PROVE LeaseInv'
<1> USE ManifestAssumption DEF LeaseInv, Leases!Evict, Leases!catalog, Leases!file, Leases!counts, Leases!Closed, Leases!Opened, Ready, Leases!Idle, Leases!Manifests, Leases!Observed, Leases!Evicted, Leases!LeasedFirst, Leases!SameDependencies, Leases!Publishes, Leases!Retires, Leases!Retains, Leases!Leased
<1>1. LeaseTypes'
  BY DEF LeaseTypes, Leases!TypeOK, Plans, Passes
<1>2. Works'
  BY DEF LeaseTypes, Leases!TypeOK, Plans, Works, WorkTrue
<1>3. AllKnown'
  BY DEF LeaseTypes, Leases!TypeOK, Plans, Passes, AllKnown, Known
<1>4. Fresh'
  BY DEF LeaseTypes, Leases!TypeOK, Plans, Passes, Fresh, Loaded, FreshTrue
<1>5. QED
  BY <1>1, <1>2, <1>3, <1>4

LEMMA GcStartStep == ASSUME LeaseInv, Leases!GcStart PROVE LeaseInv'
<1> USE ManifestAssumption DEF LeaseInv, Leases!GcStart, Leases!catalog, Leases!file, Leases!counts, Leases!Closed, Leases!Opened, Ready, Leases!Idle, Leases!Manifests, Leases!Observed, Leases!Evicted, Leases!LeasedFirst, Leases!SameDependencies, Leases!Publishes, Leases!Retires, Leases!Retains, Leases!Leased
<1>1. LeaseTypes'
  BY DEF LeaseTypes, Leases!TypeOK, Plans, Passes
<1>2. Works'
  BY DEF LeaseTypes, Leases!TypeOK, Plans, Works, WorkTrue
<1>3. AllKnown'
  BY DEF LeaseTypes, Leases!TypeOK, Plans, Passes, AllKnown, Known
<1>4. Fresh'
  BY DEF LeaseTypes, Leases!TypeOK, Plans, Passes, Fresh, Loaded, FreshTrue
<1>5. QED
  BY <1>1, <1>2, <1>3, <1>4

LEMMA GcNoteStep == ASSUME LeaseInv, Leases!GcNote PROVE LeaseInv'
<1> USE ManifestAssumption DEF LeaseInv, Leases!GcNote, Leases!catalog, Leases!file, Leases!counts, Leases!Closed, Leases!Opened, Ready, Leases!Idle, Leases!Manifests, Leases!Observed, Leases!Evicted, Leases!LeasedFirst, Leases!SameDependencies, Leases!Publishes, Leases!Retires, Leases!Retains, Leases!Leased
<1>1. LeaseTypes'
  BY DEF LeaseTypes, Leases!TypeOK, Plans, Passes
<1>2. Works'
  BY DEF LeaseTypes, Leases!TypeOK, Plans, Works, WorkTrue
<1>3. AllKnown'
  BY DEF LeaseTypes, Leases!TypeOK, Plans, Passes, AllKnown, Known
<1>4. Fresh'
  BY DEF LeaseTypes, Leases!TypeOK, Plans, Passes, Fresh, Loaded, FreshTrue
<1>5. QED
  BY <1>1, <1>2, <1>3, <1>4

LEMMA GcLoadStep == ASSUME LeaseInv, Leases!GcLoad PROVE LeaseInv'
<1> USE ManifestAssumption DEF LeaseInv, Leases!GcLoad, Leases!catalog, Leases!file, Leases!counts, Leases!Closed, Leases!Opened, Ready, Leases!Idle, Leases!Manifests, Leases!Observed, Leases!Evicted, Leases!LeasedFirst, Leases!SameDependencies, Leases!Publishes, Leases!Retires, Leases!Retains, Leases!Leased
<1>1. LeaseTypes'
  BY DEF LeaseTypes, Leases!TypeOK, Plans, Passes
<1>2. Works'
  BY DEF LeaseTypes, Leases!TypeOK, Plans, Works, WorkTrue
<1>3. AllKnown'
  BY DEF LeaseTypes, Leases!TypeOK, Plans, Passes, AllKnown, Known
<1>4. Fresh'
  BY DEF LeaseTypes, Leases!TypeOK, Plans, Passes, Fresh, Loaded, FreshTrue
<1>5. QED
  BY <1>1, <1>2, <1>3, <1>4

LEMMA GcObserveStep == ASSUME LeaseInv, Leases!GcObserve PROVE LeaseInv'
<1> USE ManifestAssumption DEF LeaseInv, Leases!GcObserve, Leases!catalog, Leases!file, Leases!counts, Leases!Closed, Leases!Opened, Ready, Leases!Idle, Leases!Manifests, Leases!Observed, Leases!Evicted, Leases!LeasedFirst, Leases!SameDependencies, Leases!Publishes, Leases!Retires, Leases!Retains, Leases!Leased
<1>a. gc.at \in Workspaces /\ gc.manifest \in SUBSET Views /\ gc.todo \in SUBSET Workspaces /\ gc.known \in BOOLEAN
  BY DEF LeaseTypes, Passes
<1>b. PICK known \in BOOLEAN :
        /\ gc' = [step |-> "seed", known |-> known, todo |-> gc.todo]
        /\ known => gc.known /\ owners' = [owners EXCEPT ![gc.at] = gc.manifest]
  <2>1. CASE Leases!SameDependencies(gc.revision)
    BY <1>a, <2>1
  <2>2. CASE ~Leases!SameDependencies(gc.revision)
    BY <2>2
  <2>3. QED
    BY <2>1, <2>2
<1>c. gc' \in Passes /\ gc'.step = "seed" /\ gc'.known = known /\ gc'.todo = gc.todo
  <2>1. [step |-> "seed", known |-> known, todo |-> gc.todo] \in Passes
    BY <1>a DEF Passes
  <2>2. QED
    BY <1>b, <2>1
<1>1. LeaseTypes'
  <2>1. Leases!TypeOK'
    BY <1>a DEF LeaseTypes, Leases!TypeOK
  <2>2. savedAt' <= revision'
    BY DEF LeaseTypes, Leases!TypeOK
  <2>3. QED
    BY <1>c, <2>1, <2>2 DEF LeaseTypes
<1>2. Works'
  BY DEF LeaseTypes, Leases!TypeOK, Plans, Works, WorkTrue
<1>3. AllKnown'
  <2> SUFFICES ASSUME NEW w \in Workspaces, work[w] = Leases!Closed, db[w] # None, gc'.known
               PROVE  w \in gc'.todo \/ owners'[w] = db[w]
    BY <1>c DEF AllKnown, Known
  <2>1. known /\ gc.known /\ owners' = [owners EXCEPT ![gc.at] = gc.manifest]
    BY <1>b, <1>c
  <2>2. w \in gc.todo \/ (owners[w] = db[w] /\ gc.at # w) \/ (gc.at = w /\ gc.manifest = db[w])
    <3>1. gc.step = "observe" /\ Known(w)
      BY DEF AllKnown
    <3>2. QED
      <4> HIDE DEF Leases!GcObserve, Leases!SameDependencies, LeaseInv
      <4>1. QED
        BY <2>1, <3>1 DEF Known
  <2>3. gc'.todo = gc.todo /\ owners \in [Workspaces -> Leases!Manifests]
    BY <1>c DEF LeaseTypes, Leases!TypeOK
  <2>4. QED
    <3> HIDE DEF Leases!GcObserve, Leases!SameDependencies, LeaseInv
    <3>1. owners' = [owners EXCEPT ![gc.at] = gc.manifest]
      BY <2>1
    <3>2. gc.at = w => owners'[w] = gc.manifest
      BY <3>1, <2>3
    <3>3. gc.at # w => owners'[w] = owners[w]
      BY <3>1, <2>3
    <3>4. QED
      BY <2>2, <2>3, <3>2, <3>3
<1>4. Fresh'
  BY DEF LeaseTypes, Leases!TypeOK, Plans, Passes, Fresh, Loaded, FreshTrue
<1>5. QED
  BY <1>1, <1>2, <1>3, <1>4

LEMMA GcStageStep == ASSUME LeaseInv, Leases!GcStage PROVE LeaseInv'
<1> USE ManifestAssumption DEF LeaseInv, Leases!GcStage, Leases!catalog, Leases!file, Leases!counts, Leases!Closed, Leases!Opened, Ready, Leases!Idle, Leases!Manifests, Leases!Observed, Leases!Evicted, Leases!LeasedFirst, Leases!SameDependencies, Leases!Publishes, Leases!Retires, Leases!Retains, Leases!Leased
<1>1. LeaseTypes'
  BY DEF LeaseTypes, Leases!TypeOK, Plans, Passes
<1>2. Works'
  BY DEF LeaseTypes, Leases!TypeOK, Plans, Works, WorkTrue
<1>3. AllKnown'
  BY DEF LeaseTypes, Leases!TypeOK, Plans, Passes, AllKnown, Known
<1>4. Fresh'
  BY DEF LeaseTypes, Leases!TypeOK, Plans, Passes, Fresh, Loaded, FreshTrue
<1>5. QED
  BY <1>1, <1>2, <1>3, <1>4

LEMMA GcFlushStep == ASSUME LeaseInv, Leases!GcFlush PROVE LeaseInv'
<1> USE ManifestAssumption DEF LeaseInv, Leases!GcFlush, Leases!catalog, Leases!file, Leases!counts, Leases!Closed, Leases!Opened, Ready, Leases!Idle, Leases!Manifests, Leases!Observed, Leases!Evicted, Leases!LeasedFirst, Leases!SameDependencies, Leases!Publishes, Leases!Retires, Leases!Retains, Leases!Leased
<1>1. LeaseTypes'
  BY DEF LeaseTypes, Leases!TypeOK, Plans, Passes
<1>2. Works'
  BY DEF LeaseTypes, Leases!TypeOK, Plans, Works, WorkTrue
<1>3. AllKnown'
  BY DEF LeaseTypes, Leases!TypeOK, Plans, Passes, AllKnown, Known
<1>4. Fresh'
  BY DEF LeaseTypes, Leases!TypeOK, Plans, Passes, Fresh, Loaded, FreshTrue
<1>5. QED
  BY <1>1, <1>2, <1>3, <1>4

LEMMA GcTryStep == ASSUME LeaseInv, Leases!GcTry PROVE LeaseInv'
<1> USE ManifestAssumption DEF LeaseInv, Leases!GcTry, Leases!catalog, Leases!file, Leases!counts, Leases!Closed, Leases!Opened, Ready, Leases!Idle, Leases!Manifests, Leases!Observed, Leases!Evicted, Leases!LeasedFirst, Leases!SameDependencies, Leases!Publishes, Leases!Retires, Leases!Retains, Leases!Leased
<1>1. LeaseTypes'
  BY DEF LeaseTypes, Leases!TypeOK, Plans, Passes
<1>2. Works'
  <2>1. PICK v \in gc.todo : views' = IF Leases!Retires(v) THEN views \ {v} ELSE views
    OBVIOUS
  <2>2. gc.step = "collect" /\ UNCHANGED <<work, db, viewLeases, pending, owners>>
    OBVIOUS
  <2> SUFFICES ASSUME NEW w \in Workspaces PROVE WorkTrue(w)'
    BY DEF Works
  <2>3. WorkTrue(w) /\ Known(w)
    BY DEF Works, AllKnown
  <2>4. ASSUME Leases!Retires(v), work[w].step \in {"discover", "apply"} PROVE v \notin work[w].seen
    BY <2>3, <2>4 DEF WorkTrue
  <2>5. ASSUME Leases!Retires(v), db[w] # None PROVE v \notin db[w]
    <3>1. CASE work[w] = Leases!Closed
      BY <2>2, <2>3, <2>5, <3>1 DEF Known
    <3>2. CASE work[w] # Leases!Closed
      BY <2>3, <2>5, <3>2 DEF WorkTrue
    <3>3. QED
      BY <3>1, <3>2
  <2>6. QED
    <3> HIDE DEF Leases!Retires, Leases!GcTry
    <3>1. QED
      BY <2>1, <2>2, <2>3, <2>4, <2>5 DEF WorkTrue
<1>3. AllKnown'
  BY DEF LeaseTypes, Leases!TypeOK, Plans, Passes, AllKnown, Known
<1>4. Fresh'
  BY DEF LeaseTypes, Leases!TypeOK, Plans, Passes, Fresh, Loaded, FreshTrue
<1>5. QED
  BY <1>1, <1>2, <1>3, <1>4

LEMMA FlushNowStep == ASSUME LeaseInv, Leases!FlushNow PROVE LeaseInv'
<1> USE ManifestAssumption DEF LeaseInv, Leases!FlushNow, Leases!catalog, Leases!file, Leases!counts, Leases!Closed, Leases!Opened, Ready, Leases!Idle, Leases!Manifests, Leases!Observed, Leases!Evicted, Leases!LeasedFirst, Leases!SameDependencies, Leases!Publishes, Leases!Retires, Leases!Retains, Leases!Leased
<1>1. LeaseTypes'
  BY DEF LeaseTypes, Leases!TypeOK, Plans, Passes
<1>2. Works'
  BY DEF LeaseTypes, Leases!TypeOK, Plans, Works, WorkTrue
<1>3. AllKnown'
  BY DEF LeaseTypes, Leases!TypeOK, Plans, Passes, AllKnown, Known
<1>4. Fresh'
  BY DEF LeaseTypes, Leases!TypeOK, Plans, Passes, Fresh, Loaded, FreshTrue
<1>5. QED
  BY <1>1, <1>2, <1>3, <1>4

LEMMA CrashStep == ASSUME LeaseInv, Leases!Crash PROVE LeaseInv'
<1> USE ManifestAssumption DEF LeaseInv, Leases!Crash, Leases!catalog, Leases!file, Leases!counts, Leases!Closed, Leases!Opened, Ready, Leases!Idle, Leases!Manifests, Leases!Observed, Leases!Evicted, Leases!LeasedFirst, Leases!SameDependencies, Leases!Publishes, Leases!Retires, Leases!Retains, Leases!Leased
<1>1. LeaseTypes'
  BY DEF LeaseTypes, Leases!TypeOK, Plans, Passes
<1>2. Works'
  BY DEF LeaseTypes, Leases!TypeOK, Plans, Works, WorkTrue
<1>3. AllKnown'
  BY DEF LeaseTypes, Leases!TypeOK, Plans, Passes, AllKnown, Known
<1>4. Fresh'
  BY DEF LeaseTypes, Leases!TypeOK, Plans, Passes, Fresh, Loaded, FreshTrue
<1>5. QED
  BY <1>1, <1>2, <1>3, <1>4

-----------------------------------------------------------------------------
LEMMA LeaseInit == ASSUME Leases!Init PROVE LeaseInv
<1> USE DEF Leases!Init, Leases!Closed, Leases!Idle, Leases!Opened, Ready
<1>1. LeaseTypes
  BY DEF LeaseTypes, Leases!TypeOK, Leases!Manifests, Passes
<1>2. Works /\ AllKnown /\ Fresh
  BY DEF Works, WorkTrue, AllKnown, Known, Fresh, FreshTrue, Loaded
<1>3. QED
  BY <1>1, <1>2 DEF LeaseInv

LEMMA LeaseNext == ASSUME LeaseInv, [Leases!Next]_(Leases!vars) PROVE LeaseInv'
<1>1. CASE UNCHANGED Leases!vars
  BY <1>1 DEF Leases!vars, Leases!catalog, Leases!file, Leases!counts, LeaseInv,
     LeaseTypes, Leases!TypeOK, Works, WorkTrue, AllKnown, Known, Fresh, FreshTrue,
     Loaded
<1>2. ASSUME NEW w \in Workspaces, Leases!WorkspaceStep(w) PROVE LeaseInv'
  BY <1>2, OpenStep, ValidateStep, DiscoverStep, RetainStep, ProbeStep, ApplyStep,
     ObserveStep, FailStep, EvictStep
     DEF Leases!WorkspaceStep
<1>3. CASE Leases!GcStep
  BY <1>3, GcStartStep, GcNoteStep, GcLoadStep, GcObserveStep, GcStageStep,
     GcFlushStep, GcTryStep DEF Leases!GcStep
<1>4. QED
  BY <1>1, <1>2, <1>3, FlushNowStep, CrashStep DEF Leases!Next

\* The invariant holds in every reachable state of the views.
THEOREM LeaseInvariant == Leases!Spec => []LeaseInv
<1>1. Leases!Init => LeaseInv
  BY LeaseInit
<1>2. LeaseInv /\ [Leases!Next]_(Leases!vars) => LeaseInv'
  BY LeaseNext
<1>3. QED
  BY <1>1, <1>2, PTL DEF Leases!Spec

LEMMA LeaseInvTrue ==
    ASSUME LeaseInv
    PROVE  Leases!TypeOK /\ Leases!InUseKept /\ Leases!IndexedKept /\ (faults = 0 => Leases!OwnersFresh)
<1>1. Leases!TypeOK
  BY DEF LeaseInv, LeaseTypes
<1>2. Leases!InUseKept
  BY DEF LeaseInv, Works, WorkTrue, Leases!InUseKept
<1>3. Leases!IndexedKept
  BY DEF LeaseInv, Works, WorkTrue, Leases!IndexedKept
<1>4. faults = 0 => Leases!OwnersFresh
  BY <1>1 DEF LeaseInv, Fresh, FreshTrue, Leases!OwnersFresh, Leases!TypeOK
<1>5. QED
  BY <1>1, <1>2, <1>3, <1>4

\* Whatever is published was read from the catalog of that revision.
LEMMA SavedStep == ASSUME LeaseInv, [Leases!Next]_(Leases!vars) PROVE savedAt' >= savedAt
<1>1. savedAt \in Nat /\ revision \in Nat /\ savedAt <= revision
  BY DEF LeaseInv, LeaseTypes, Leases!TypeOK
<1>2. ASSUME NEW w \in Workspaces, Leases!WorkspaceStep(w) PROVE savedAt' = savedAt
  BY <1>2 DEF Leases!WorkspaceStep, Leases!Open, Leases!Validate, Leases!Discover,
     Leases!Retain, Leases!Probe, Leases!Apply, Leases!Observe, Leases!Fail,
     Leases!Evict, Leases!file
<1>3. CASE Leases!GcFlush
  BY <1>1, <1>3 DEF Leases!GcFlush, Leases!Publishes
<1>4. CASE Leases!GcStart \/ Leases!GcNote \/ Leases!GcLoad \/ Leases!GcObserve \/ Leases!GcStage \/ Leases!GcTry
  BY <1>1, <1>4 DEF Leases!GcStart, Leases!GcNote, Leases!GcLoad, Leases!GcObserve,
     Leases!GcStage, Leases!GcTry, Leases!file
<1>5. CASE Leases!FlushNow \/ Leases!Crash \/ UNCHANGED Leases!vars
  BY <1>1, <1>5 DEF Leases!FlushNow, Leases!Crash, Leases!vars, Leases!file
<1>6. QED
  BY <1>1, <1>2, <1>3, <1>4, <1>5 DEF Leases!Next, Leases!GcStep

\* LeasesTrue: what is in use or indexed stays on disk, the catalog is not
\* undone without a fault, and owners.json goes forward.
THEOREM LeasesCorrect == Leases!Spec => LeasesTrue
<1>1. LeaseInv => Leases!TypeOK /\ Leases!InUseKept /\ Leases!IndexedKept
                    /\ (faults = 0 => Leases!OwnersFresh)
  BY LeaseInvTrue
<1>2. LeaseInv /\ [Leases!Next]_(Leases!vars) => [savedAt' >= savedAt]_(Leases!vars)
  BY SavedStep
<1>3. Leases!Spec => []LeaseInv /\ [][Leases!Next]_(Leases!vars)
  BY LeaseInvariant, PTL DEF Leases!Spec
<1>4. QED
  BY <1>1, <1>2, <1>3, PTL DEF LeasesTrue, Leases!SavedForward
=============================================================================
