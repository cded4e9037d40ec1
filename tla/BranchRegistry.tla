---------------------------- MODULE BranchRegistry ----------------------------
(***************************************************************************)
(* src/src/repository/manager.rs: the registry of branches.  A query finds *)
(* or creates the branch of its selector and waits for the refresh that    *)
(* makes it usable; maintenance expires idle branches and disk pressure    *)
(* evicts them, while other queries come in.                               *)
(*                                                                         *)
(* A branch object is known by a number and counts its handles: one of the *)
(* registry, one of a refresh, and one of every query and task that holds  *)
(* it.  What a refresh does to the files is in BranchRefresh; retention    *)
(* and idle times are free choices (DefaultBranch has the rules).          *)
(***************************************************************************)
EXTENDS Integers, FiniteSets

CONSTANTS
  Roots,        \* selectors: the directories of branches
  Queries,
  None,
  MaxObjects,   \* branch objects that are created
  MaxEnds       \* refreshes that end, per object

Ids == 1 .. MaxObjects

Branches == [root : Roots, usable : BOOLEAN, refresh : {None, "running", "ok", "failed"},
             ended : Nat, retry : BOOLEAN, dir : Ids]
Asked == [branch : Ids, at : {"found", "waiting", "using", "failed"}, asked : Nat]
Evictions == [root : Roots, branch : Ids \union {None}, dir : Ids]

ASSUME QueriesAssumption == IsFiniteSet(Queries)
ASSUME BoundAssumption == MaxObjects \in Nat /\ MaxEnds \in Nat
ASSUME NoneAssumption ==
  None \notin Ids /\ None \notin Branches /\ None \notin Asked /\ None \notin Evictions


VARIABLES
  registry,  \* root -> None, or the object in the registry
  dir,       \* root -> None, or the object that created its directory
  saved,     \* root -> state.json says that the branch is usable
  next,      \* the next object
  branch,    \* object -> None, or root, usable, refresh, ended, retry
  gate,      \* object -> whether a task has its state locked for writing
  query,     \* query -> None, or object, at and asked
  idle,      \* the objects the maintenance task found expired
  victim     \* None, or an eviction in progress: root, object and directory

vars == <<registry, dir, saved, next, branch, gate, query, idle, victim>>

Init ==
  /\ registry = [r \in Roots |-> None] /\ dir = [r \in Roots |-> None]
  /\ saved = [r \in Roots |-> FALSE]
  /\ next = 1
  /\ branch = [b \in Ids |-> None] /\ gate = [b \in Ids |-> FALSE]
  /\ query = [q \in Queries |-> None]
  /\ idle = {} /\ victim = None

Running(b) == branch[b].refresh = "running"

Holders(b) ==
  {<<"query", q>> : q \in {q \in Queries : query[q] # None /\ query[q].branch = b}}
  \union {<<"idle", i>> : i \in idle \intersect {b}}
  \union (IF victim # None /\ victim.branch = b THEN {<<"evict", b>>} ELSE {})
  \union (IF Running(b) THEN {<<"refresh", b>>} ELSE {})

\* Mutant: one handle too many is allowed.
OffByOne(b) == Cardinality(Holders(b)) <= 2
\* Arc::strong_count(): the registry and the task that asks.
Alone(b) == Cardinality(Holders(b)) <= 1

-----------------------------------------------------------------------------
(* Queries                                                                 *)

\* resolve_with(), under the lock of the registry: the branch of the selector,
\* or a new one with the persisted state.
Resolve(q) ==
  /\ query[q] = None
  /\ \E r \in Roots :
       IF registry[r] # None
         THEN /\ query' = [query EXCEPT ![q] =
                   [branch |-> registry[r], at |-> "found", asked |-> branch[registry[r]].ended]]
              /\ UNCHANGED <<registry, dir, next, branch>>
         ELSE /\ next \in Ids
              /\ next' = next + 1
              /\ registry' = [registry EXCEPT ![r] = next]
              /\ dir' = [dir EXCEPT ![r] = IF @ = None THEN next ELSE @]
              /\ branch' = [branch EXCEPT ![next] =
                   [root |-> r, usable |-> saved[r], refresh |-> None, ended |-> 0,
                    retry |-> FALSE, dir |-> dir'[r]]]
              /\ query' = [query EXCEPT ![q] = [branch |-> next, at |-> "found", asked |-> 0]]
  /\ UNCHANGED <<saved, gate, idle, victim>>

\* Mutant: a refresh that failed a while ago is waited for.
Background(b, requested) == Running(b) \/ branch[b].retry
\* schedule(): nothing is started beside a refresh, nor, unless it is asked
\* for, in the thirty seconds after a failed one.
NotNow(b, requested) == Running(b) \/ (~requested /\ branch[b].retry)

Scheduled(b, requested) ==
  IF NotNow(b, requested) \/ branch[b].ended = MaxEnds THEN branch
  ELSE [branch EXCEPT ![b].refresh = "running"]

\* The state is read; an unusable branch is refreshed, and one that is due.
Check(q) ==
  /\ query[q] # None /\ query[q].at = "found" /\ ~gate[query[q].branch]
  /\ LET b == query[q].branch IN
     IF branch[b].usable
       THEN /\ query' = [query EXCEPT ![q].at = "using"]
            /\ \E due \in BOOLEAN : branch' = IF due THEN Scheduled(b, FALSE) ELSE branch
       ELSE /\ Running(b) \/ branch[b].ended < MaxEnds
            /\ branch' = Scheduled(b, TRUE)
            /\ query' = [query EXCEPT ![q].at = "waiting"]
  /\ UNCHANGED <<registry, dir, saved, next, gate, idle, victim>>

\* The outcome of the refresh that was running when the query began to wait,
\* or of a later one.
Wake(q) ==
  /\ query[q] # None /\ query[q].at = "waiting"
  /\ LET b == query[q].branch IN
     /\ branch[b].refresh \in {"ok", "failed"}
     /\ query' = [query EXCEPT ![q].at = IF branch[b].refresh = "ok" THEN "using" ELSE "failed"]
  /\ UNCHANGED <<registry, dir, saved, next, branch, gate, idle, victim>>

Release(q) ==
  /\ query[q] # None /\ query[q].at \in {"using", "failed"}
  /\ query' = [query EXCEPT ![q] = None]
  /\ UNCHANGED <<registry, dir, saved, next, branch, gate, idle, victim>>

\* A source that was changed by hand makes the branch unusable.
Damage(b) ==
  /\ branch[b] # None /\ branch[b].usable /\ registry[branch[b].root] = b
  /\ branch' = [branch EXCEPT ![b].usable = FALSE]
  /\ saved' = [saved EXCEPT ![branch[b].root] = FALSE]
  /\ UNCHANGED <<registry, dir, next, gate, query, idle, victim>>

-----------------------------------------------------------------------------
(* Refreshes                                                               *)

\* Mutant: the outcome of a refresh that had nothing to do is not sent.
PublishQuietly(b) ==
  /\ branch[b] # None /\ Running(b) /\ ~gate[b]
  /\ branch' = [branch EXCEPT ![b].usable = TRUE]
  /\ saved' = [saved EXCEPT ![branch[b].root] = TRUE]
  /\ UNCHANGED <<registry, dir, next, gate, query, idle, victim>>

Publish(b) ==
  /\ branch[b] # None /\ Running(b) /\ ~gate[b]
  /\ branch' = [branch EXCEPT ![b].usable = TRUE, ![b].refresh = "ok", ![b].retry = FALSE,
                              ![b].ended = @ + 1]
  /\ saved' = [saved EXCEPT ![branch[b].root] = TRUE]
  /\ UNCHANGED <<registry, dir, next, gate, query, idle, victim>>

RefreshFails(b) ==
  /\ branch[b] # None /\ Running(b)
  /\ branch' = [branch EXCEPT ![b].refresh = "failed", ![b].retry = TRUE, ![b].ended = @ + 1]
  /\ UNCHANGED <<registry, dir, saved, next, gate, query, idle, victim>>

RetryPasses(b) ==
  /\ branch[b] # None /\ branch[b].retry
  /\ branch' = [branch EXCEPT ![b].retry = FALSE]
  /\ UNCHANGED <<registry, dir, saved, next, gate, query, idle, victim>>

-----------------------------------------------------------------------------
(* Expiry and eviction                                                     *)

Registered == {registry[r] : r \in {x \in Roots : registry[x] # None}}

\* maintain(): the branches that look expired, and a refresh of others.
Maintain ==
  /\ idle = {}
  /\ \E found \in SUBSET Registered :
       /\ found # {} /\ idle' = found
       /\ \E due \in (Registered \ found) \union {None} :
            branch' = IF due = None THEN branch ELSE Scheduled(due, FALSE)
  /\ UNCHANGED <<registry, dir, saved, next, gate, query, victim>>

\* views::retire() moves the directory away; the registry forgets the branch.
Retired(r) ==
  /\ dir' = [dir EXCEPT ![r] = None]
  /\ saved' = [saved EXCEPT ![r] = FALSE]
  /\ registry' = [registry EXCEPT ![r] = None]

\* expire_idle() and expire(), under the locks of the state and the registry.
Expire(b) ==
  /\ b \in idle
  /\ idle' = idle \ {b}
  /\ IF ~gate[b] /\ Alone(b) /\ ~Running(b)
       THEN Retired(branch[b].root) \/ UNCHANGED <<registry, dir, saved>>
       ELSE UNCHANGED <<registry, dir, saved>>
  /\ UNCHANGED <<next, branch, gate, query, victim>>

\* evict(): the state is locked and the directory looked at; the registry is
\* left to others while the caller lists what belongs to the branch.
BeginEvict(r) ==
  /\ victim = None /\ dir[r] # None
  /\ LET b == registry[r] IN
     /\ b # None => (Cardinality(Holders(b)) = 0 /\ ~gate[b])
     /\ victim' = [root |-> r, branch |-> b, dir |-> dir[r]]
     /\ gate' = IF b = None THEN gate ELSE [gate EXCEPT ![b] = TRUE]
  /\ UNCHANGED <<registry, dir, saved, next, branch, query, idle>>

\* Mutant: what was seen before is not looked at again.
Planned == TRUE
\* The branch is the same, nobody took it meanwhile, nor replaced the directory.
Unchanged ==
  /\ registry[victim.root] = victim.branch
  /\ victim.branch # None => (Alone(victim.branch) /\ ~Running(victim.branch))
  /\ dir[victim.root] = victim.dir

FinishEvict ==
  /\ victim # None
  /\ IF Unchanged
       THEN Retired(victim.root) \/ UNCHANGED <<registry, dir, saved>>
       ELSE UNCHANGED <<registry, dir, saved>>
  /\ victim' = None
  /\ gate' = IF victim.branch = None THEN gate ELSE [gate EXCEPT ![victim.branch] = FALSE]
  /\ UNCHANGED <<next, branch, query, idle>>

\* The process starts again: objects, waiters and locks are gone.
Restart ==
  /\ registry' = [r \in Roots |-> None] /\ branch' = [b \in Ids |-> None]
  /\ gate' = [b \in Ids |-> FALSE] /\ query' = [q \in Queries |-> None]
  /\ idle' = {} /\ victim' = None
  /\ UNCHANGED <<dir, saved, next>>

Ask(q) == Resolve(q) \/ Check(q) \/ Wake(q) \/ Release(q)
Refresh(b) == Publish(b) \/ RefreshFails(b)

Next ==
  \/ \E q \in Queries : Ask(q)
  \/ \E b \in Ids : Refresh(b) \/ RetryPasses(b) \/ Damage(b) \/ Expire(b)
  \/ Maintain \/ FinishEvict \/ Restart
  \/ \E r \in Roots : BeginEvict(r)

Spec == Init /\ [][Next]_vars

-----------------------------------------------------------------------------
(* Properties                                                              *)

TypeOK ==
  /\ registry \in [Roots -> Ids \union {None}] /\ dir \in [Roots -> Ids \union {None}]
  /\ saved \in [Roots -> BOOLEAN] /\ gate \in [Ids -> BOOLEAN]
  /\ next \in 1 .. MaxObjects + 1
  /\ branch \in [Ids -> Branches \union {None}]
  /\ query \in [Queries -> Asked \union {None}]
  /\ idle \subseteq Ids /\ victim \in Evictions \union {None}

Held(b) == (\E q \in Queries : query[q] # None /\ query[q].branch = b)
           \/ (branch[b] # None /\ Running(b))

\* A branch that a query or a refresh holds is the one in the registry: two
\* objects never work on the files of one selector, however queries, expiry
\* and eviction overlap.
OneBranch == \A b \in Ids : Held(b) => registry[branch[b].root] = b

\* Its files are there, and are those it was opened on.
FilesKept == \A b \in Ids : Held(b) => dir[branch[b].root] = branch[b].dir

\* A query is not told of a failure that happened before it asked.
OwnFailure ==
  \A q \in Queries : query[q] # None /\ query[q].at = "failed" =>
    branch[query[q].branch].ended > query[q].asked

\* The registry: one branch per directory, whose files stay while it is held,
\* and no query is given the failure of a refresh before its own.
RegistryTrue == OneBranch /\ FilesKept /\ OwnFailure
=============================================================================
