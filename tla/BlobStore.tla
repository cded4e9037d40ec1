------------------------------- MODULE BlobStore -------------------------------
(***************************************************************************)
(* src/src/cache/blobs.rs, with the jobs that use it: a stage of a git job *)
(* is imported (repository/cache.rs, after repository/files.rs linked what *)
(* is known), and LFS objects are downloaded, imported and linked          *)
(* (repository/lfs.rs).                                                    *)
(*                                                                         *)
(* Files are names that point to inodes; equal contents share the inode of *)
(* the blob with their id.  Each worker handles one file.  Jobs hold a     *)
(* shared lock, the collector tries the exclusive one for a batch of names *)
(* it listed before.                                                       *)
(* Left out: file modes, size limits, a pass without memory pressure       *)
(* (which removes fewer downloads), and directories and their syncs.       *)
(***************************************************************************)
EXTENDS Naturals, FiniteSets

CONSTANTS
  Importers,     \* jobs that import a stage
  Hydrators,     \* jobs that replace a pointer by the LFS object
  Contents,
  None,
  Inodes,
  KillsAllowed,  \* the process of a hydrator may be killed at its deadline
  MaxRuns        \* jobs of each worker

Workers == Importers \union Hydrators

\* The names of files: the file in the stage of a worker, which becomes the
\* view's; a copy that another owner keeps; the temporary link that replaces
\* a file; a pending blob; an unpublished download; an LFS object; a blob.
Stage(w)    == <<"stage", w>>
Other(w)    == <<"other", w>>
Temp(w)     == <<"temp", w>>
Pending(w)  == <<"pending", w>>
Download(w) == <<"download", w>>
Lfs(c)      == <<"lfs", c>>
Blob(c)     == <<"blob", c>>

Names == ({"stage", "other", "temp", "pending", "download"} \X Workers)
           \union ({"lfs", "blob"} \X Contents)

VARIABLES
  names,   \* name -> its inode, or None
  inode,   \* inode -> None, or its data, the id in its attribute or None, and
           \* whether both are synced
  pc,      \* worker -> its next step
  path,    \* worker -> the name it imports
  id,      \* worker -> the contents it computed, or wants
  runs,    \* worker -> jobs started
  leases,  \* the workers that hold a shared lease
  batch,   \* the names the collector listed and did not examine yet
  locked   \* the collector holds the lock

vars == <<names, inode, pc, path, id, runs, leases, batch, locked>>
files == <<names, inode>>
collector == <<batch, locked>>
job == <<path, id, runs>>

TypeOK ==
  /\ names \in [Names -> Inodes \union {None}]
  /\ inode \in [Inodes -> {None} \union
                 [data : Contents, mark : Contents \union {None}, synced : BOOLEAN]]
  /\ pc \in [Workers -> {"idle", "hint", "link", "staged", "hash", "exists", "mark", "adopt",
                         "copy", "persist", "replace", "rename", "imported", "cached",
                         "download", "publish", "view"}]
  /\ path \in [Workers -> Names \union {None}]
  /\ id \in [Workers -> Contents \union {None}]
  /\ runs \in [Workers -> 0..MaxRuns]
  /\ leases \subseteq Workers
  /\ batch \subseteq Names /\ locked \in BOOLEAN

Links(i) == {n \in Names : names[n] = i}
Free == {i \in Inodes : inode[i] = None}
NewInode == CHOOSE i \in Free : TRUE
File(c, marked) == [data |-> c, mark |-> marked, synced |-> marked # None]

\* An inode without links and handles is gone.
Relink(new) ==
  /\ names' = new
  /\ inode' = [i \in Inodes |-> IF i \in {new[n] : n \in Names} THEN inode[i] ELSE None]

Create(ns, c, marked) ==
  /\ Free # {}
  /\ names' = [n \in Names |-> IF n \in ns THEN NewInode ELSE names[n]]
  /\ inode' = [inode EXCEPT ![NewInode] = File(c, marked)]

\* rename(2) does nothing when both names are links of one inode.
Renamed(from, to) ==
  IF names[from] = names[to] THEN names
  ELSE [names EXCEPT ![to] = names[from], ![from] = None]

\* Store::identity()
Identity(n) ==
  LET i == names[n] IN
  /\ i # None /\ Cardinality(Links(i)) >= 2
  /\ inode[i].mark # None
  /\ names[Blob(inode[i].mark)] = i

\* A cache may hold an LFS object of an older version, whatever it contains.
Init ==
  /\ \E old \in Contents \union {None}, c \in Contents, first \in Inodes :
       /\ first = CHOOSE i \in Inodes : TRUE
       /\ names = [n \in Names |-> IF old # None /\ n = Lfs(old) THEN first ELSE None]
       /\ inode = [i \in Inodes |-> IF old # None /\ i = first THEN File(c, None) ELSE None]
  /\ pc = [w \in Workers |-> "idle"]
  /\ path = [w \in Workers |-> None] /\ id = [w \in Workers |-> None]
  /\ runs = [w \in Workers |-> 0]
  /\ leases = {} /\ batch = {} /\ locked = FALSE

Goto(w, at) == pc' = [pc EXCEPT ![w] = at]
Step(w, at, to) == pc[w] = at /\ Goto(w, to)

Start(w) ==
  /\ pc[w] = "idle" /\ runs[w] < MaxRuns
  /\ runs' = [runs EXCEPT ![w] = @ + 1]

\* Store::lease() waits for the collector.
Lease(w) == ~locked /\ leases' = leases \union {w}
Release(w) == leases' = leases \ {w}

\* A job that ended keeps nothing.
Ended(w) ==
  /\ Goto(w, "idle")
  /\ path' = [path EXCEPT ![w] = None] /\ id' = [id EXCEPT ![w] = None]

-----------------------------------------------------------------------------
(* The stage of a git job                                                  *)

\* The job writes its file; or the file is linked from elsewhere, and its
\* other owner may write it later.
Extract(w) ==
  \E c \in Contents, shared \in BOOLEAN :
    /\ Start(w) /\ Goto(w, "staged")
    /\ names[Other(w)] = None
    /\ Create(IF shared THEN {Stage(w), Other(w)} ELSE {Stage(w)}, c, None)
    /\ UNCHANGED <<path, id, leases, collector>>

\* files::reuse(): a known id is a weak hint.
Hint(w) ==
  \E c \in Contents :
    /\ Start(w) /\ Goto(w, "hint")
    /\ Lease(w)
    /\ id' = [id EXCEPT ![w] = c]
    /\ UNCHANGED <<files, path, collector>>

\* Store::cached_size()
CachedSize(w) ==
  LET blob == names[Blob(id[w])]
      cached == IF blob = None THEN FALSE ELSE inode[blob].mark = id[w]
  IN
  /\ pc[w] = "hint"
  /\ IF cached THEN Goto(w, "link") /\ UNCHANGED <<path, id, leases>>
     ELSE Ended(w) /\ Release(w)
  /\ UNCHANGED <<files, runs, collector>>

\* Store::link_cached()
LinkCached(w) ==
  /\ Step(w, "link", "staged") /\ names[Blob(id[w])] # None
  /\ Relink([names EXCEPT ![Stage(w)] = names[Blob(id[w])]])
  /\ Release(w)
  /\ UNCHANGED <<job, collector>>

\* import_owned_tree()
ImportStage(w) ==
  /\ Step(w, "staged", "hash")
  /\ Lease(w) /\ path' = [path EXCEPT ![w] = Stage(w)]
  /\ UNCHANGED <<files, id, runs, collector>>

ImportEnds(w) ==
  /\ w \in Importers /\ Step(w, "imported", "view")
  /\ Release(w)
  /\ UNCHANGED <<files, job, collector>>

-----------------------------------------------------------------------------
(* import_owned() and import() of the file at path[w]                      *)

\* Mutant: a file with other links is adopted like a private one.
HashAnything(w) ==
  /\ pc[w] = "hash" /\ names[path[w]] # None
  /\ id' = [id EXCEPT ![w] = inode[names[path[w]]].data]
  /\ Goto(w, IF Identity(path[w]) THEN "imported" ELSE "exists")
  /\ UNCHANGED <<files, path, runs, leases, collector>>

\* Only a private file can be adopted: a shared inode can still be modified
\* by its other owner.
Hash(w) ==
  LET i == names[path[w]] IN
  /\ pc[w] = "hash" /\ names[path[w]] # None
  /\ id' = [id EXCEPT ![w] = inode[i].data]
  /\ Goto(w, IF Identity(path[w]) THEN "imported"
             ELSE IF Cardinality(Links(i)) # 1 THEN "copy" ELSE "exists")
  /\ UNCHANGED <<files, path, runs, leases, collector>>

Exists(w) ==
  /\ pc[w] = "exists"
  /\ Goto(w, IF names[Blob(id[w])] = None THEN "mark" ELSE "replace")
  /\ UNCHANGED <<files, job, leases, collector>>

\* Mutant: the file is marked and linked before it is synced.
MarkUnsynced(w) ==
  /\ Step(w, "mark", "adopt")
  /\ inode' = [inode EXCEPT ![names[path[w]]].mark = id[w]]
  /\ UNCHANGED <<names, job, leases, collector>>

MarkFile(w) ==
  /\ Step(w, "mark", "adopt")
  /\ inode' = [inode EXCEPT ![names[path[w]]] = File(@.data, id[w])]
  /\ UNCHANGED <<names, job, leases, collector>>

\* Another importer of the same contents may have come first.
Adopt(w) ==
  /\ pc[w] = "adopt"
  /\ Goto(w, IF names[Blob(id[w])] = None THEN "imported" ELSE "replace")
  /\ Relink([names EXCEPT ![Blob(id[w])] = IF @ = None THEN names[path[w]] ELSE @])
  /\ UNCHANGED <<job, leases, collector>>

\* import() copies what it hashes, marks the copy and syncs it.
Copy(w) ==
  /\ Step(w, "copy", "persist") /\ names[path[w]] # None
  /\ id' = [id EXCEPT ![w] = inode[names[path[w]]].data]
  /\ Create({Pending(w)}, inode[names[path[w]]].data, inode[names[path[w]]].data)
  /\ UNCHANGED <<path, runs, leases, collector>>

Persist(w) ==
  /\ Step(w, "persist", "replace")
  /\ Relink([names EXCEPT ![Pending(w)] = None,
                          ![Blob(id[w])] = IF @ = None THEN names[Pending(w)] ELSE @])
  /\ UNCHANGED <<job, leases, collector>>

\* The file becomes a link of the blob by a temporary name beside it.
Replace(w) ==
  /\ Step(w, "replace", "rename") /\ names[Blob(id[w])] # None
  /\ Relink([names EXCEPT ![Temp(w)] = names[Blob(id[w])]])
  /\ UNCHANGED <<job, leases, collector>>

Rename(w) ==
  /\ Step(w, "rename", "imported")
  /\ Relink([Renamed(Temp(w), path[w]) EXCEPT ![Temp(w)] = None])
  /\ UNCHANGED <<job, leases, collector>>

-----------------------------------------------------------------------------
(* lfs.rs: hydrate_with(), cached(), store_download(), Pending::publish()  *)

Hydrate(w) ==
  \E c \in Contents :
    /\ Start(w) /\ Goto(w, "cached")
    /\ \A n \in {Download(w), Temp(w), Pending(w)} : names[n] = None  \* or a killed job's
    /\ Lease(w)
    /\ id' = [id EXCEPT ![w] = c]
    /\ UNCHANGED <<files, path, collector>>

\* Mutant: an object in the cache is used as it is.
CachedUnverified(w) ==
  /\ pc[w] = "cached"
  /\ Goto(w, IF names[Lfs(id[w])] # None THEN "publish" ELSE "download")
  /\ UNCHANGED <<files, job, leases, collector>>

\* An object that is not a link of a blob is verified, and imported.
Cached(w) ==
  LET object == Lfs(id[w])
      verified == IF names[object] = None THEN FALSE ELSE inode[names[object]].data = id[w]
  IN
  /\ pc[w] = "cached"
  /\ Goto(w, IF Identity(object) THEN "publish" ELSE IF verified THEN "copy" ELSE "download")
  /\ path' = [path EXCEPT ![w] = object]
  /\ UNCHANGED <<files, id, runs, leases, collector>>

StoreDownload(w) ==
  /\ Step(w, "download", "hash")
  /\ Create({Download(w)}, id[w], None)
  /\ path' = [path EXCEPT ![w] = Download(w)]
  /\ UNCHANGED <<id, runs, leases, collector>>

\* The object is unavailable, its path is left out.
DownloadFails(w) ==
  /\ pc[w] = "download" /\ Ended(w) /\ Release(w)
  /\ UNCHANGED <<files, runs, collector>>

PersistDownload(w) ==
  /\ w \in Hydrators /\ Step(w, "imported", "publish")
  /\ Relink(IF path[w] = Download(w) THEN Renamed(Download(w), Lfs(id[w])) ELSE names)
  /\ UNCHANGED <<job, leases, collector>>

Publish(w) ==
  /\ Step(w, "publish", "view") /\ names[Lfs(id[w])] # None
  /\ Relink([names EXCEPT ![Stage(w)] = names[Lfs(id[w])]])
  /\ Release(w)
  /\ UNCHANGED <<job, collector>>

\* The deadline of the git job: its process is killed, its stage removed.
Kill(w) ==
  /\ KillsAllowed /\ pc[w] \notin {"idle", "view"}
  /\ Ended(w) /\ Release(w)
  /\ UNCHANGED <<files, runs, collector>>

-----------------------------------------------------------------------------
(* Owners of files, and the collector                                      *)

\* The view is removed, or the job is dropped before it has one.
DropStage(w) ==
  /\ pc[w] \in {"staged", "view"}
  /\ Ended(w)
  /\ Relink([names EXCEPT ![Stage(w)] = None])
  /\ UNCHANGED <<runs, leases, collector>>

\* The other owner of a staged file writes it, or removes its name.
OtherWrites(w) ==
  /\ names[Other(w)] # None
  /\ inode' \in {[inode EXCEPT ![names[Other(w)]].data = c] : c \in Contents}
  /\ UNCHANGED <<names, pc, job, leases, collector>>

OtherRemoves(w) ==
  /\ names[Other(w)] # None
  /\ Relink([names EXCEPT ![Other(w)] = None])
  /\ UNCHANGED <<pc, job, leases, collector>>

List ==
  /\ batch = {} /\ ~locked
  /\ batch' = {n \in Names : n[1] \in {"lfs", "blob", "pending"} /\ names[n] # None}
  /\ UNCHANGED <<files, pc, job, leases, locked>>

\* Mutant: collection does not wait for leases.
LockAnyway ==
  /\ batch # {} /\ ~locked /\ locked' = TRUE
  /\ UNCHANGED <<files, pc, job, leases, batch>>

\* collect_batch(): a batch is skipped while any lease is held.
TryLock ==
  /\ batch # {} /\ ~locked
  /\ locked' = (leases = {})
  /\ batch' = IF leases = {} THEN batch ELSE {}
  /\ UNCHANGED <<files, pc, job, leases>>

\* Mutant: an LFS object with a blob counts as used.
UnusedAlone(n) == names[n] # None /\ Cardinality(Links(names[n])) = 1

Unused(n) ==
  LET links == Links(names[n]) IN
  /\ names[n] # None
  /\ \/ Cardinality(links) = 1
     \/ n[1] = "lfs" /\ Cardinality(links) = 2 /\ Identity(n)

Examine(n) ==
  /\ locked /\ n \in batch /\ batch' = batch \ {n}
  /\ Relink(IF Unused(n) THEN [names EXCEPT ![n] = None] ELSE names)
  /\ UNCHANGED <<pc, job, leases, locked>>

Unlock ==
  /\ locked /\ batch = {} /\ locked' = FALSE
  /\ UNCHANGED <<files, pc, job, leases, batch>>

-----------------------------------------------------------------------------

Import(w) ==
  \/ Hash(w) \/ Exists(w) \/ MarkFile(w) \/ Adopt(w)
  \/ Copy(w) \/ Persist(w) \/ Replace(w) \/ Rename(w)

Importer(w) ==
  \/ Extract(w) \/ Hint(w) \/ CachedSize(w) \/ LinkCached(w)
  \/ ImportStage(w) \/ Import(w) \/ ImportEnds(w)

Hydrator(w) ==
  \/ Hydrate(w) \/ Cached(w) \/ StoreDownload(w) \/ DownloadFails(w)
  \/ Import(w) \/ PersistDownload(w) \/ Publish(w)

Collect == List \/ TryLock \/ (\E n \in Names : Examine(n)) \/ Unlock

Next ==
  \/ \E w \in Importers : Importer(w) \/ DropStage(w) \/ OtherWrites(w) \/ OtherRemoves(w)
  \/ \E w \in Hydrators : Hydrator(w) \/ DropStage(w) \/ Kill(w)
  \/ Collect

Spec == Init /\ [][Next]_vars

-----------------------------------------------------------------------------
(* Properties                                                              *)

\* What is reachable under an id has the contents of that id, survives a
\* power failure, and carries the mark that lets later jobs trust it: another
\* owner of an imported file, a lost race or a killed job never changes it.
BlobTrue ==
  \A c \in Contents :
    names[Blob(c)] # None =>
      inode[names[Blob(c)]] = [data |-> c, mark |-> c, synced |-> TRUE]

\* The file of a view keeps the contents the job computed or asked for, and
\* it is a link of the blob.
ViewTrue ==
  \A w \in Workers :
    pc[w] = "view" =>
      /\ names[Stage(w)] # None /\ names[Stage(w)] = names[Blob(id[w])]
      /\ inode[names[Stage(w)]].data = id[w]

\* A job links the blob or object it found a few steps before: the collector
\* never removes it in between, however many links it had when it was listed.
LinkKept ==
  \A w \in Workers :
    /\ pc[w] \in {"link", "replace"} => names[Blob(id[w])] # None
    /\ pc[w] = "copy" => names[path[w]] # None
    /\ pc[w] = "publish" => names[Lfs(id[w])] # None

\* Canonical links with no retained views are disposable: without jobs and
\* views, nothing but an LFS object holds a blob.
Disposable ==
  (\A w \in Workers : pc[w] = "idle") =>
    \A c \in Contents :
      names[Blob(c)] # None => Links(names[Blob(c)]) \subseteq {Blob(c), Lfs(c)}

\* No jobs and no views are left, but something that they kept is.
Unneeded ==
  /\ \A w \in Workers : pc[w] = "idle"
  /\ \E c \in Contents : names[Blob(c)] # None \/ names[Lfs(c)] # None
=============================================================================
