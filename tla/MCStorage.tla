------------------------------ MODULE MCStorage -------------------------------
(***************************************************************************)
(* Small instances of the components of Storage.  One of them runs in a    *)
(* behaviour, `part`, and the others stay in an initial state; a part is a *)
(* component, or some of its workers with larger bounds.                   *)
(***************************************************************************)
EXTENDS Storage, TLC

CONSTANTS
  i1, h1, v1, x1, x2

VARIABLES
  part   \* the component that runs

parts == <<part, blobsVars, leasesVars, vars>>

PartsInit ==
  /\ part \in {"blobs", "objects", "both", "leases", "owners", "compaction"}
  /\ Blobs!Init
  /\ part \notin {"blobs", "objects", "both"} => \A c \in Contents : names[Blobs!Lfs(c)] = None
  /\ Leases!Init
  /\ Init

\* Two jobs of one kind, or one of each.
Only(ws) == \A w \in (Importers \union Hydrators) \ ws : blobPc'[w] = "idle"

\* One view with failures and crashes; two views and one pass without.
OneView == \A w \in Workspaces : work'[w].step = "discover" => work'[w].need = {v1}
NoFaults == passes' <= 1 /\ faults' = 0

PartsNext ==
  /\ UNCHANGED part
  /\ \/ part = "blobs" /\ Blobs!Next /\ Only(Importers)
        /\ UNCHANGED <<leasesVars, vars>>
     \/ part = "objects" /\ Blobs!Next /\ Only(Hydrators)
        /\ UNCHANGED <<leasesVars, vars>>
     \/ part = "both" /\ Blobs!Next /\ Only({i1, h1})
        /\ UNCHANGED <<leasesVars, vars>>
     \/ part = "leases" /\ Leases!Next /\ OneView
        /\ UNCHANGED <<blobsVars, vars>>
     \/ part = "owners" /\ Leases!Next /\ NoFaults
        /\ UNCHANGED <<blobsVars, vars>>
     \/ part = "compaction" /\ Next
        /\ UNCHANGED <<blobsVars, leasesVars>>

PartsSpec == PartsInit /\ [][PartsNext]_parts

Symmetry == Permutations({x1, x2})
=============================================================================
