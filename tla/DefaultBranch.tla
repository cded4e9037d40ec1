----------------------------- MODULE DefaultBranch -----------------------------
(***************************************************************************)
(* src/src/repository/retention.rs and the default branch of manager.rs:   *)
(* which copies of an explicitly allowed repository are kept while the     *)
(* remote renames its default branch.                                      *)
(*                                                                         *)
(* The default is looked up from time to time and recorded together with   *)
(* the one it replaced.  A copy is ready when its current revision is      *)
(* indexed.  Copies that are not protected may be evicted at any time.     *)
(* Left out: other selection policies, tags and commits, and idle times.   *)
(***************************************************************************)
EXTENDS Naturals

CONSTANTS
  Branches,
  None,
  MaxRenames

\* What is recorded, and what a lookup knows
Records == [branch : Branches, previous : Branches \union {None}]
Lookups == [at : {"asked", "decided"}, branch : Branches,
            previous : Branches \union {None}, ready : BOOLEAN]

ASSUME NoneAssumption ==
  /\ None \notin Branches \union {"acquired", "ready"}
  /\ None \notin Records \union Lookups
ASSUME MaxRenamesAssumption == MaxRenames \in Nat

VARIABLES
  remote,   \* the default branch of the remote
  saved,    \* None, or the recorded default and the previous one
  copy,     \* branch -> None, "acquired" or "ready"
  lookup,   \* None, or a lookup: the branch it found, the previous one, and
            \* whether it replaces a default that was ready when it decided
  served,   \* the copies that were ready while they were the default
  fallback, \* None, or the last default that was replaced by such a lookup,
            \* until a successor is ready
  missed,   \* the default that was replaced had served, and is not recorded as
            \* the previous one; until a successor is ready
  renames

vars == <<remote, saved, copy, lookup, served, fallback, missed, renames>>

Init ==
  /\ remote \in Branches /\ saved = None /\ lookup = None
  /\ copy = [b \in Branches |-> None]
  /\ served = {} /\ fallback = None /\ missed = FALSE /\ renames = 0

Rename ==
  /\ renames < MaxRenames /\ renames' = renames + 1
  /\ remote' \in Branches \ {remote}
  /\ UNCHANGED <<saved, copy, lookup, served, fallback, missed>>

\* default_ready()
Ready(b) == copy[b] = "ready"

-----------------------------------------------------------------------------
(* default_branch()                                                        *)

Ask ==
  /\ lookup = None
  /\ lookup' = [at |-> "asked", branch |-> remote, previous |-> None, ready |-> FALSE]
  /\ UNCHANGED <<remote, saved, copy, served, fallback, missed, renames>>

\* Mutant: the last default is recorded, ready or not.
LastDefault(found) ==
  IF saved = None THEN None ELSE IF saved.branch = found THEN saved.previous ELSE saved.branch

\* previous_default()
PreviousDefault(found) ==
  IF saved = None THEN None
  ELSE IF saved.branch = found THEN saved.previous
  ELSE IF Ready(saved.branch) \/ saved.previous = None THEN saved.branch
  ELSE saved.previous

Decide ==
  /\ lookup # None /\ lookup.at = "asked"
  /\ lookup' = [lookup EXCEPT !.at = "decided", !.previous = PreviousDefault(lookup.branch),
       !.ready = saved # None /\ saved.branch # lookup.branch /\ Ready(saved.branch)]
  /\ UNCHANGED <<remote, saved, copy, served, fallback, missed, renames>>

\* The default that a lookup replaces has served, and is lost to the record.
Misses ==
  /\ saved # None /\ saved.branch # lookup.branch
  /\ saved.branch \in served /\ saved.branch # lookup.previous

Save ==
  /\ lookup # None /\ lookup.at = "decided"
  /\ saved' = [branch |-> lookup.branch, previous |-> lookup.previous]
  /\ IF Ready(lookup.branch)
       THEN /\ served' = served \union {lookup.branch}
            /\ fallback' = None /\ missed' = FALSE
       ELSE /\ fallback' = IF lookup.ready THEN saved.branch ELSE fallback
            /\ missed' = (missed \/ Misses)
            /\ UNCHANGED served
  /\ lookup' = None
  /\ UNCHANGED <<remote, copy, renames>>

\* A lookup fails, or ends with the process.
LookupFails ==
  /\ lookup # None /\ lookup' = None
  /\ UNCHANGED <<remote, saved, copy, served, fallback, missed, renames>>

-----------------------------------------------------------------------------
(* Copies                                                                  *)

Acquire(b) ==
  /\ copy[b] = None
  /\ copy' = [copy EXCEPT ![b] = "acquired"]
  /\ UNCHANGED <<remote, saved, lookup, served, fallback, missed, renames>>

\* The copy is marked as indexed at its revision.
Index(b) ==
  /\ copy[b] = "acquired"
  /\ copy' = [copy EXCEPT ![b] = "ready"]
  /\ IF saved # None /\ saved.branch = b
       THEN served' = served \union {b} /\ fallback' = None /\ missed' = FALSE
       ELSE UNCHANGED <<served, fallback, missed>>
  /\ UNCHANGED <<remote, saved, lookup, renames>>

\* A refresh publishes a revision, which is not indexed yet.
Refresh(b) ==
  /\ copy[b] = "ready"
  /\ copy' = [copy EXCEPT ![b] = "acquired"]
  /\ UNCHANGED <<remote, saved, lookup, served, fallback, missed, renames>>

\* Mutant: only the default is protected.
OnlyDefault(b) == saved = None \/ saved.branch = b

\* Policy::decision()
Protected(b) ==
  \/ saved = None
  \/ saved.branch = b
  \/ saved.previous = b /\ ~Ready(saved.branch)

Evict(b) ==
  /\ copy[b] # None /\ ~Protected(b)
  /\ copy' = [copy EXCEPT ![b] = None]
  /\ served' = served \ {b}
  /\ UNCHANGED <<remote, saved, lookup, fallback, missed, renames>>

Next ==
  \/ Rename \/ Ask \/ Decide \/ Save \/ LookupFails
  \/ \E b \in Branches : Acquire(b) \/ Index(b) \/ Refresh(b) \/ Evict(b)

Spec == Init /\ [][Next]_vars

-----------------------------------------------------------------------------
(* Properties                                                              *)

TypeOK ==
  /\ remote \in Branches
  /\ saved \in Records \union {None} /\ lookup \in Lookups \union {None}
  /\ lookup # None /\ lookup.ready => saved # None
  /\ copy \in [Branches -> {None, "acquired", "ready"}]
  /\ served \subseteq Branches /\ fallback \in Branches \union {None}
  /\ missed \in BOOLEAN
  /\ renames \in 0 .. MaxRenames

\* Once a default branch has been indexed there is a copy to answer from: a
\* rename of the default keeps the previous copy until the new one is ready,
\* also when copies are refreshed or it is renamed again before that, unless the
\* record has `missed` it: a default that is between two revisions when a lookup
\* decides is not recorded where another one precedes it.
CopyKept == [][~missed /\ served # {} => served' # {}]_vars

\* A default that was ready when the lookup of its successor decided stays
\* until a successor is ready, while copies are indexed, refreshed and evicted
\* and the default is renamed further.
FallbackKept == fallback # None => copy[fallback] # None
=============================================================================
