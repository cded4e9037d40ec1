------------------------------- MODULE Storage -------------------------------
(***************************************************************************)
(* The components that keep files in the cache: the compaction of the      *)
(* analysis database (Compaction), blobs with LFS objects (BlobStore), and *)
(* the views that workspaces retain (ViewLeases).  They share no state.    *)
(***************************************************************************)
EXTENDS Compaction

CONSTANTS
  \* BlobStore
  Importers, Hydrators, Contents, BlobInodes, KillsAllowed, MaxRuns,
  \* ViewLeases
  Workspaces, Views, MaxDiscoveries, MaxPasses, MaxFaults

VARIABLES
  \* BlobStore
  names, inode, blobPc, path, id, runs, leases, batch, locked,
  \* ViewLeases
  views, db, owners, revision, dependencyRevision, saved, savedAt, stage,
  work, viewLeases, pending, gc, fresh, discoveries, passes, faults

Blobs == INSTANCE BlobStore WITH Inodes <- BlobInodes, pc <- blobPc
Leases == INSTANCE ViewLeases WITH leases <- viewLeases

blobsVars == <<names, inode, blobPc, path, id, runs, leases, batch, locked>>
leasesVars == <<views, db, owners, revision, dependencyRevision, saved,
  savedAt, stage, work, viewLeases, pending, gc, fresh, discoveries, passes,
  faults>>

\* A job imports or hydrates; links are counted.
ASSUME BlobAssumption ==
  /\ Importers \intersect Hydrators = {}
  /\ IsFiniteSet(Blobs!Workers) /\ IsFiniteSet(Contents) /\ MaxRuns \in Nat
ASSUME BlobNoneAssumption ==
  /\ None \notin BlobInodes \union Contents \union Blobs!Names
  /\ None \notin [data : Contents, mark : Contents \union {None}, synced : BOOLEAN]
ASSUME ManifestAssumption ==
  /\ \A manifest \in SUBSET Views : None # manifest
  /\ None \notin [at : Nat, entries : [Workspaces -> Leases!Manifests]]

-----------------------------------------------------------------------------
\* Blobs: what is reachable under an id has the contents of that id, survives
\* a power failure, and carries the mark that lets later jobs trust it, in the
\* store and in a view, whatever another owner, a lost race or a killed job
\* does; and the collector never removes what a job found and is to link.
BlobsTrue == Blobs!BlobTrue /\ Blobs!ViewTrue /\ Blobs!LinkKept

\* Views: what is in use or indexed stays on disk, through the hand-over from
\* leases to the catalog and through a crash that loses both; the collector
\* does not undo the catalog with an older manifest while no preparation fails;
\* and no older catalog replaces a newer owners.json.
LeasesTrue ==
  /\ [](Leases!TypeOK /\ Leases!InUseKept /\ Leases!IndexedKept
          /\ (faults = 0 => Leases!OwnersFresh))
  /\ Leases!SavedForward
=============================================================================
