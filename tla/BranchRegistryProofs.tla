------------------------ MODULE BranchRegistryProofs ------------------------
(***************************************************************************)
(* Proof of RegistryTrue, for any selectors, queries and branch objects.   *)
(*                                                                         *)
(* Whoever retires a directory has made sure that nobody else holds the    *)
(* registered object: a held object counts two handles.  What the proof    *)
(* needs besides is that the registered object is the one the directory    *)
(* was opened by (RegisteredOK), that what maintenance found idle is still *)
(* registered (IdleOK: only its own expiry could change that), and that a  *)
(* query waits for a refresh that runs, or for one that ended since it     *)
(* asked (QueryOK).                                                        *)
(***************************************************************************)
EXTENDS BranchRegistry, FiniteSetTheorems, TLAPS

RegisteredOK ==
    \A r \in Roots : registry[r] # None =>
        LET b == branch[registry[r]] IN b # None /\ b.root = r /\ b.dir = dir[r]
UnusedOK == \A b \in Ids : b >= next => branch[b] = None
IdleOK == \A b \in idle : branch[b] # None /\ registry[branch[b].root] = b
VictimOK == victim # None /\ victim.branch # None => branch[victim.branch] # None
QueryOK(q) ==
    query[q] # None =>
        LET b == branch[query[q].branch] IN
        /\ b # None /\ query[q].asked <= b.ended
        /\ query[q].at = "waiting" => b.refresh = "running" \/ query[q].asked < b.ended
        /\ query[q].at = "failed" => query[q].asked < b.ended

HeldOK ==
    \A b \in Ids : Held(b) => branch[b] # None /\ registry[branch[b].root] = b

IInv ==
    /\ TypeOK /\ RegisteredOK /\ UnusedOK /\ IdleOK /\ VictimOK /\ HeldOK
    /\ \A q \in Queries : QueryOK(q)

-----------------------------------------------------------------------------
(* Who holds a branch.                                                     *)

LEMMA HoldersFinite ==
    ASSUME NEW b PROVE IsFiniteSet(Holders(b))
<1> DEFINE S == {q \in Queries : query[q] # None /\ query[q].branch = b}
           T == {<<"query", q>> : q \in S}
           f == [q \in S |-> <<"query", q>>]
<1>1. IsFiniteSet(S)
  BY QueriesAssumption, FS_Subset
<1>2. f \in Surjection(S, T)
  BY DEF Surjection
<1>3. IsFiniteSet(T)
  BY <1>1, <1>2, FS_Surjection
<1>4. IsFiniteSet({<<"idle", i>> : i \in idle \intersect {b}})
  <2>1. {<<"idle", i>> : i \in idle \intersect {b}} \in SUBSET {<<"idle", b>>}
    OBVIOUS
  <2> QED
    BY <2>1, FS_Singleton, FS_Subset
<1>5. IsFiniteSet(IF victim # None /\ victim.branch = b THEN {<<"evict", b>>} ELSE {})
  BY FS_Singleton, FS_EmptySet
<1>6. IsFiniteSet(IF Running(b) THEN {<<"refresh", b>>} ELSE {})
  BY FS_Singleton, FS_EmptySet
<1>7. IsFiniteSet(T \union {<<"idle", i>> : i \in idle \intersect {b}})
  BY <1>3, <1>4, FS_Union
<1>8. IsFiniteSet((T \union {<<"idle", i>> : i \in idle \intersect {b}})
        \union (IF victim # None /\ victim.branch = b THEN {<<"evict", b>>} ELSE {}))
  BY <1>5, <1>7, FS_Union
<1> QED
  BY <1>6, <1>8, FS_Union DEF Holders

\* A branch that only one handle is left of has no other.
LEMMA AloneOnly ==
    ASSUME NEW b, Alone(b), NEW x \in Holders(b), NEW y \in Holders(b)
    PROVE  x = y
<1> SUFFICES ASSUME x # y PROVE FALSE
  OBVIOUS
<1>1. IsFiniteSet({x}) /\ Cardinality({x}) = 1
  BY FS_Singleton
<1>2. IsFiniteSet({x} \union {y}) /\ Cardinality({x} \union {y}) = 2
  BY <1>1, FS_AddElement
<1>3. Cardinality({x} \union {y}) <= Cardinality(Holders(b)) /\ Cardinality(Holders(b)) \in Nat
  BY HoldersFinite, FS_Subset, FS_CardinalityType
<1> QED
  BY <1>2, <1>3 DEF Alone

\* Where expiry or eviction finds nobody else, no query holds the branch.
LEMMA AloneIdle ==
    ASSUME NEW b \in idle, Alone(b)
    PROVE  \A q \in Queries : query[q] # None => query[q].branch # b
<1> SUFFICES ASSUME NEW q \in Queries, query[q] # None, query[q].branch = b PROVE FALSE
  OBVIOUS
<1>1. <<"query", q>> \in Holders(b) /\ <<"idle", b>> \in Holders(b)
  BY DEF Holders
<1>2. <<"query", q>> = <<"idle", b>>
  BY <1>1, AloneOnly
<1> QED
  BY <1>2

LEMMA AloneVictim ==
    ASSUME victim # None, Alone(victim.branch)
    PROVE  /\ victim.branch \notin idle
           /\ \A q \in Queries : query[q] # None => query[q].branch # victim.branch
<1> DEFINE b == victim.branch
<1>1. <<"evict", b>> \in Holders(b)
  BY DEF Holders
<1>2. b \notin idle
  <2> SUFFICES ASSUME b \in idle PROVE FALSE
    OBVIOUS
  <2>1. <<"idle", b>> \in Holders(b)
    BY DEF Holders
  <2>2. <<"idle", b>> = <<"evict", b>>
    BY <1>1, <2>1, AloneOnly
  <2> QED
    BY <2>2
<1>3. ASSUME NEW q \in Queries, query[q] # None, query[q].branch = b PROVE FALSE
  <2>1. <<"query", q>> \in Holders(b)
    BY <1>3 DEF Holders
  <2>2. <<"query", q>> = <<"evict", b>>
    BY <1>1, <2>1, AloneOnly
  <2> QED
    BY <2>2
<1> QED
  BY <1>2, <1>3

-----------------------------------------------------------------------------
(* Types.                                                                  *)

LEMMA ScheduledType ==
    ASSUME TypeOK, NEW b \in Ids, branch[b] # None, NEW requested \in BOOLEAN
    PROVE  /\ Scheduled(b, requested) \in [Ids -> Branches \union {None}]
           /\ Scheduled(b, requested) \in {branch, [branch EXCEPT ![b].refresh = "running"]}
<1>1. branch[b] \in Branches
  BY DEF TypeOK
<1>2. [branch EXCEPT ![b].refresh = "running"] \in [Ids -> Branches \union {None}]
  BY <1>1 DEF TypeOK, Branches
<1> QED
  BY <1>2 DEF Scheduled, TypeOK

LEMMA RegisteredIds ==
    ASSUME TypeOK, RegisteredOK, NEW b \in Registered
    PROVE  b \in Ids /\ branch[b] # None /\ registry[branch[b].root] = b
BY DEF TypeOK, Registered, RegisteredOK

LEMMA PublishedOK ==
    ASSUME NEW x \in Branches
    PROVE  LET y == [x EXCEPT !.usable = TRUE, !.refresh = "ok", !.retry = FALSE, !.ended = @ + 1] IN
           /\ y \in Branches /\ y.root = x.root /\ y.dir = x.dir
           /\ y.ended = x.ended + 1 /\ y.refresh = "ok"
<1> DEFINE n == x.ended + 1
<1>1. n \in Nat
  BY DEF Branches
<1> HIDE DEF n
<1> DEFINE y == [x EXCEPT !.usable = TRUE, !.refresh = "ok", !.retry = FALSE, !.ended = n]
<1>2. y \in Branches /\ y.root = x.root /\ y.dir = x.dir /\ y.ended = n /\ y.refresh = "ok"
  BY <1>1 DEF Branches
<1> QED
  BY <1>2 DEF n

LEMMA FailedOK ==
    ASSUME NEW x \in Branches
    PROVE  LET y == [x EXCEPT !.refresh = "failed", !.retry = TRUE, !.ended = @ + 1] IN
           /\ y \in Branches /\ y.root = x.root /\ y.dir = x.dir
           /\ y.ended = x.ended + 1 /\ y.refresh = "failed"
<1> DEFINE n == x.ended + 1
<1>1. n \in Nat
  BY DEF Branches
<1> HIDE DEF n
<1> DEFINE y == [x EXCEPT !.refresh = "failed", !.retry = TRUE, !.ended = n]
<1>2. y \in Branches /\ y.root = x.root /\ y.dir = x.dir /\ y.ended = n /\ y.refresh = "failed"
  BY <1>1 DEF Branches
<1> QED
  BY <1>2 DEF n

LEMMA InitType == Init => TypeOK
BY BoundAssumption DEF Init, TypeOK, Ids

LEMMA ResolveType ==
    ASSUME TypeOK, RegisteredOK, NEW q \in Queries, Resolve(q) PROVE TypeOK'
<1>1. PICK r \in Roots :
       IF registry[r] # None
         THEN /\ query' = [query EXCEPT ![q] =
                   [branch |-> registry[r], at |-> "found", asked |-> branch[registry[r]].ended]]
              /\ UNCHANGED <<registry, dir, next, branch>>
         ELSE /\ next \in Ids
              /\ next' = next + 1
              /\ registry' = [registry EXCEPT ![r] = next]
              /\ dir' = [dir EXCEPT ![r] = IF @ = None THEN next ELSE @]
              /\ branch' = [branch EXCEPT ![next] =
                   [root |-> r, usable |-> saved[r], refresh |-> None, ended |-> 0,
                    retry |-> FALSE, dir |-> dir'[r]]]
              /\ query' = [query EXCEPT ![q] = [branch |-> next, at |-> "found", asked |-> 0]]
  BY DEF Resolve
<1>2. UNCHANGED <<saved, gate, idle, victim>>
  BY DEF Resolve
<1>3. CASE registry[r] # None
  <2>1. registry[r] \in Ids /\ branch[registry[r]] \in Branches
    BY <1>3 DEF TypeOK, RegisteredOK
  <2>2. [branch |-> registry[r], at |-> "found", asked |-> branch[registry[r]].ended] \in Asked
    BY <2>1 DEF Asked, Branches
  <2> QED
    BY <1>1, <1>2, <1>3, <2>2 DEF TypeOK
<1>4. CASE registry[r] = None
  <2>1. next \in Ids /\ dir'[r] \in Ids
    BY <1>1, <1>4 DEF TypeOK
  <2>2. next' \in 1 .. MaxObjects + 1
    BY <1>1, <1>4, <2>1, BoundAssumption DEF Ids
  <2>3. [branch |-> next, at |-> "found", asked |-> 0] \in Asked
    BY <2>1 DEF Asked
  <2>4. [root |-> r, usable |-> saved[r], refresh |-> None, ended |-> 0,
         retry |-> FALSE, dir |-> dir'[r]] \in Branches
    BY <2>1 DEF Branches, TypeOK
  <2>5. branch' \in [Ids -> Branches \union {None}]
    BY <1>1, <1>4, <2>4 DEF TypeOK
  <2>6. query' \in [Queries -> Asked \union {None}]
    BY <1>1, <1>4, <2>3 DEF TypeOK
  <2>7. registry' \in [Roots -> Ids \union {None}] /\ dir' \in [Roots -> Ids \union {None}]
    BY <1>1, <1>4, <2>1 DEF TypeOK
  <2> QED
    BY <1>2, <2>2, <2>5, <2>6, <2>7 DEF TypeOK
<1> QED
  BY <1>3, <1>4

LEMMA StepType ==
    ASSUME IInv, [Next]_vars PROVE TypeOK'
<1> USE DEF IInv
<1>1. ASSUME NEW q \in Queries, Resolve(q) PROVE TypeOK'
  BY <1>1, ResolveType
<1>2. ASSUME NEW q \in Queries, Check(q) PROVE TypeOK'
  <2> DEFINE b == query[q].branch
  <2>1. query[q] \in Asked /\ b \in Ids /\ branch[b] # None
    BY <1>2 DEF Check, TypeOK, Asked, QueryOK
  <2>2. query' \in [Queries -> Asked \union {None}]
    <3>1. \A a \in {"using", "waiting"} : [query[q] EXCEPT !.at = a] \in Asked
      BY <2>1 DEF Asked
    <3>2. query' \in {[query EXCEPT ![q].at = "using"], [query EXCEPT ![q].at = "waiting"]}
      BY <1>2 DEF Check
    <3> QED
      BY <3>1, <3>2 DEF TypeOK
  <2>3. branch' \in [Ids -> Branches \union {None}]
    BY ZenonT(30), <1>2, <2>1, ScheduledType DEF Check, TypeOK
  <2> QED
    BY <1>2, <2>2, <2>3 DEF Check, TypeOK
<1>3. ASSUME NEW q \in Queries, Wake(q) \/ Release(q) PROVE TypeOK'
  <2>1. query[q] \in Asked
    BY <1>3 DEF Wake, Release, TypeOK
  <2>2. query' \in [Queries -> Asked \union {None}]
    BY <1>3, <2>1 DEF Wake, Release, TypeOK, Asked
  <2> QED
    BY <1>3, <2>2 DEF Wake, Release, TypeOK
<1>4. ASSUME NEW b \in Ids, Refresh(b) \/ RetryPasses(b) \/ Damage(b) PROVE TypeOK'
  <2>1. branch[b] \in Branches
    BY <1>4 DEF Refresh, Publish, RefreshFails, RetryPasses, Damage, TypeOK
  <2>2. branch' \in [Ids -> Branches \union {None}]
    <3>1. [branch[b] EXCEPT !.usable = TRUE, !.refresh = "ok", !.retry = FALSE, !.ended = @ + 1] \in Branches
      BY <2>1, PublishedOK
    <3>2. [branch[b] EXCEPT !.refresh = "failed", !.retry = TRUE, !.ended = @ + 1] \in Branches
      BY <2>1, FailedOK
    <3>3. [branch[b] EXCEPT !.retry = FALSE] \in Branches
      BY <2>1 DEF Branches
    <3>4. [branch[b] EXCEPT !.usable = FALSE] \in Branches
      BY <2>1 DEF Branches
    <3> QED
      BY <1>4, <3>1, <3>2, <3>3, <3>4 DEF Refresh, Publish, RefreshFails, RetryPasses, Damage, TypeOK
  <2>3. saved' \in [Roots -> BOOLEAN]
    BY <1>4, <2>1, Zenon DEF Refresh, Publish, RefreshFails, RetryPasses, Damage, TypeOK
  <2> QED
    BY <1>4, <2>2, <2>3 DEF Refresh, Publish, RefreshFails, RetryPasses, Damage, TypeOK
<1>5. ASSUME NEW r \in Roots, Retired(r) PROVE
        /\ registry' \in [Roots -> Ids \union {None}] /\ dir' \in [Roots -> Ids \union {None}]
        /\ saved' \in [Roots -> BOOLEAN]
  BY <1>5 DEF Retired, TypeOK
<1>6. ASSUME NEW b \in Ids, Expire(b) PROVE TypeOK'
  <2>1. branch[b] \in Branches /\ branch[b].root \in Roots
    BY <1>6 DEF Expire, IdleOK, TypeOK, Branches
  <2>2. Retired(branch[b].root) \/ UNCHANGED <<registry, dir, saved>>
    BY <1>6 DEF Expire
  <2> QED
    BY <1>5, <1>6, <2>1, <2>2 DEF Expire, TypeOK
<1>7. ASSUME Maintain PROVE TypeOK'
  <2>1. idle' \subseteq Ids
    BY <1>7, RegisteredIds DEF Maintain
  <2>2. branch' \in [Ids -> Branches \union {None}]
    <3>1. PICK due \in Registered \union {None} :
            branch' = IF due = None THEN branch ELSE Scheduled(due, FALSE)
      BY <1>7 DEF Maintain
    <3> QED
      BY <3>1, RegisteredIds, ScheduledType DEF TypeOK
  <2> QED
    BY <1>7, <2>1, <2>2 DEF Maintain, TypeOK
<1>8. ASSUME NEW r \in Roots, BeginEvict(r) PROVE TypeOK'
  <2>1. victim' \in Evictions
    BY <1>8 DEF BeginEvict, Evictions, TypeOK
  <2>2. gate' \in [Ids -> BOOLEAN]
    BY <1>8 DEF BeginEvict, TypeOK
  <2> QED
    BY <1>8, <2>1, <2>2 DEF BeginEvict, TypeOK
<1>9. ASSUME FinishEvict PROVE TypeOK'
  <2>1. victim \in Evictions
    BY <1>9 DEF FinishEvict, TypeOK
  <2>2. Retired(victim.root) \/ UNCHANGED <<registry, dir, saved>>
    BY <1>9 DEF FinishEvict
  <2>3. gate' \in [Ids -> BOOLEAN]
    BY <1>9, <2>1 DEF FinishEvict, Evictions, TypeOK
  <2> QED
    BY <1>5, <1>9, <2>1, <2>2, <2>3 DEF FinishEvict, Evictions, TypeOK
<1>10. ASSUME Restart PROVE TypeOK'
  BY <1>10 DEF Restart, TypeOK
<1>11. ASSUME UNCHANGED vars PROVE TypeOK'
  BY <1>11 DEF vars, TypeOK
<1> QED
  BY <1>1, <1>2, <1>3, <1>4, <1>6, <1>7, <1>8, <1>9, <1>10, <1>11 DEF Next, Ask

-----------------------------------------------------------------------------
(* What is registered.                                                     *)

\* A step that leaves where a branch belongs as it is.
Same(b) ==
    /\ branch[b] = None <=> branch'[b] = None
    /\ branch[b] # None => branch'[b].root = branch[b].root /\ branch'[b].dir = branch[b].dir
Ends(b) ==
    branch[b] # None =>
        /\ branch'[b].ended >= branch[b].ended
        /\ Running(b) => branch'[b].refresh = "running" \/ branch'[b].ended > branch[b].ended
Starts(b) == branch'[b] # None /\ branch'[b].refresh = "running" =>
                 Running(b) \/ registry[branch[b].root] = b

\* No step but the creation of a branch and a restart changes which branches
\* there are, and a refresh starts for a registered branch only.
LEMMA ScheduledSame ==
    ASSUME IInv, NEW b \in Ids, branch[b] # None, registry[branch[b].root] = b,
           NEW requested \in BOOLEAN, branch' = Scheduled(b, requested), NEW c \in Ids
    PROVE  Same(c) /\ Ends(c) /\ Starts(c)
<1>1. branch[b] \in Branches /\ (branch[c] # None => branch[c] \in Branches)
  BY DEF IInv, TypeOK
<1>2. CASE branch' = branch
  BY <1>1, <1>2 DEF Same, Ends, Starts, Running, Branches
<1>3. CASE branch' = [branch EXCEPT ![b].refresh = "running"]
  <2>1. branch'[b] = [branch[b] EXCEPT !.refresh = "running"] /\ (c # b => branch'[c] = branch[c])
    BY <1>3 DEF IInv, TypeOK
  <2>2. branch'[b] \in Branches /\ branch'[b].root = branch[b].root
        /\ branch'[b].dir = branch[b].dir /\ branch'[b].ended = branch[b].ended
        /\ branch'[b].refresh = "running"
    BY <1>1, <2>1 DEF Branches
  <2> QED
    BY <1>1, <2>1, <2>2, NoneAssumption DEF Same, Ends, Starts, Running, Branches
<1> QED
  BY <1>2, <1>3, ScheduledType DEF IInv

LEMMA RefreshSame ==
    ASSUME IInv, NEW b \in Ids, Refresh(b) \/ RetryPasses(b) \/ Damage(b), NEW c \in Ids
    PROVE  Same(c) /\ Ends(c) /\ Starts(c)
<1>1. branch[b] # None /\ branch[b] \in Branches
  BY DEF IInv, TypeOK, Refresh, Publish, RefreshFails, RetryPasses, Damage
<1>2. branch \in [Ids -> Branches \union {None}]
  BY DEF IInv, TypeOK
<1>3. c # b => branch'[c] = branch[c]
  BY <1>2 DEF Refresh, Publish, RefreshFails, RetryPasses, Damage
<1>4. /\ branch'[b] \in Branches
      /\ branch'[b].root = branch[b].root /\ branch'[b].dir = branch[b].dir
      /\ \/ branch'[b].ended = branch[b].ended /\ branch'[b].refresh = branch[b].refresh
         \/ branch'[b].ended = branch[b].ended + 1 /\ Running(b)
            /\ branch'[b].refresh \in {"ok", "failed"}
  <2>1. CASE Publish(b)
    <3>1. branch'[b] = [branch[b] EXCEPT !.usable = TRUE, !.refresh = "ok", !.retry = FALSE,
                                         !.ended = @ + 1]
      BY <2>1, <1>2 DEF Publish
    <3> QED
      BY <1>1, <2>1, <3>1, PublishedOK DEF Publish
  <2>2. CASE RefreshFails(b)
    <3>1. branch'[b] = [branch[b] EXCEPT !.refresh = "failed", !.retry = TRUE, !.ended = @ + 1]
      BY <2>2, <1>2 DEF RefreshFails
    <3> QED
      BY <1>1, <2>2, <3>1, FailedOK DEF RefreshFails
  <2>3. CASE RetryPasses(b)
    <3>1. branch'[b] = [branch[b] EXCEPT !.retry = FALSE]
      BY <2>3, <1>2 DEF RetryPasses
    <3> QED
      BY <1>1, <3>1 DEF Branches
  <2>4. CASE Damage(b)
    <3>1. branch'[b] = [branch[b] EXCEPT !.usable = FALSE]
      BY <2>4, <1>2 DEF Damage
    <3> QED
      BY <1>1, <3>1 DEF Branches
  <2> QED
    BY <2>1, <2>2, <2>3, <2>4 DEF Refresh
<1>5. branch'[b] # None
  BY <1>4, NoneAssumption
<1>6. branch[c] # None => branch[c] \in Branches
  BY <1>2
<1> QED
  BY <1>1, <1>3, <1>4, <1>5, <1>6 DEF Same, Ends, Starts, Running, Branches

\* What such a step keeps.
LEMMA SameKeeps ==
    ASSUME IInv, UNCHANGED <<registry, dir, next>>, \A c \in Ids : Same(c)
    PROVE  /\ RegisteredOK' /\ UnusedOK'
           /\ idle' \subseteq idle => IdleOK'
           /\ victim' = victim => VictimOK'
<1> USE DEF IInv
<1>1. RegisteredOK'
  <2> SUFFICES ASSUME NEW r \in Roots, registry[r] # None
               PROVE  LET b == branch'[registry[r]] IN b # None /\ b.root = r /\ b.dir = dir[r]
    BY DEF RegisteredOK
  <2>1. registry[r] \in Ids
    BY DEF TypeOK
  <2> QED
    BY <2>1 DEF RegisteredOK, Same
<1>2. UnusedOK'
  BY DEF UnusedOK, Same
<1>3. idle' \subseteq idle => IdleOK'
  BY DEF IdleOK, TypeOK, Same
<1>4. victim' = victim => VictimOK'
  BY DEF VictimOK, TypeOK, Evictions, Same
<1> QED
  BY <1>1, <1>2, <1>3, <1>4

\* No query comes to hold another branch.
Fewer == \A q \in Queries : query'[q] # None =>
             query[q] # None /\ query'[q].branch = query[q].branch
                             /\ query'[q].asked = query[q].asked

LEMMA HeldKept ==
    ASSUME IInv, Fewer, UNCHANGED registry, \A c \in Ids : Same(c) /\ Starts(c)
    PROVE  HeldOK'
<1> USE DEF IInv
<1> SUFFICES ASSUME NEW b \in Ids, Held(b)'
             PROVE  branch'[b] # None /\ registry[branch'[b].root] = b
  BY DEF HeldOK
<1>1. CASE \E q \in Queries : query'[q] # None /\ query'[q].branch = b
  <2>1. Held(b)
    BY <1>1 DEF Fewer, Held
  <2> QED
    BY <2>1 DEF HeldOK, Same
<1>2. CASE branch'[b] # None /\ branch'[b].refresh = "running"
  <2>1. branch[b] # None /\ branch'[b].root = branch[b].root
    BY <1>2 DEF Same
  <2>2. CASE Running(b)
    BY <2>1, <2>2 DEF HeldOK, Held, Same
  <2>3. CASE registry[branch[b].root] = b
    BY <2>1, <2>3, <1>2
  <2> QED
    BY <1>2, <2>2, <2>3 DEF Starts
<1> QED
  BY <1>1, <1>2 DEF Held, Running

\* A query that stays as it is, while refreshes start and end.
LEMMA QueryKept ==
    ASSUME IInv, TypeOK', NEW q \in Queries, query'[q] = query[q],
           \A c \in Ids : Same(c) /\ Ends(c)
    PROVE  QueryOK(q)'
<1> SUFFICES ASSUME query[q] # None
             PROVE  LET b == branch'[query[q].branch] IN
                    /\ b # None /\ query[q].asked <= b.ended
                    /\ query[q].at = "waiting" => b.refresh = "running" \/ query[q].asked < b.ended
                    /\ query[q].at = "failed" => query[q].asked < b.ended
  BY DEF QueryOK
<1> DEFINE b == query[q].branch
<1>1. b \in Ids /\ query[q].asked \in Nat
  BY DEF IInv, TypeOK, Asked
<1>2. branch[b] # None /\ branch'[b] # None
  BY <1>1 DEF IInv, QueryOK, Same
<1>3. branch[b].ended \in Nat /\ branch'[b].ended \in Nat
  BY <1>1, <1>2 DEF IInv, TypeOK, Branches
<1>4. branch'[b].ended >= branch[b].ended
      /\ (Running(b) => branch'[b].refresh = "running" \/ branch'[b].ended > branch[b].ended)
  BY <1>1, <1>2 DEF Ends
<1>5. /\ query[q].asked <= branch[b].ended
      /\ query[q].at = "waiting" => Running(b) \/ query[q].asked < branch[b].ended
      /\ query[q].at = "failed" => query[q].asked < branch[b].ended
  BY DEF IInv, QueryOK, Running
<1> QED
  BY <1>1, <1>2, <1>3, <1>4, <1>5

-----------------------------------------------------------------------------
(* The steps.                                                              *)

LEMMA ResolveKeeps ==
    ASSUME IInv, NEW q \in Queries, Resolve(q) PROVE IInv'
<1> USE DEF IInv
<1>1. PICK r \in Roots :
       IF registry[r] # None
         THEN /\ query' = [query EXCEPT ![q] =
                   [branch |-> registry[r], at |-> "found", asked |-> branch[registry[r]].ended]]
              /\ UNCHANGED <<registry, dir, next, branch>>
         ELSE /\ next \in Ids
              /\ next' = next + 1
              /\ registry' = [registry EXCEPT ![r] = next]
              /\ dir' = [dir EXCEPT ![r] = IF @ = None THEN next ELSE @]
              /\ branch' = [branch EXCEPT ![next] =
                   [root |-> r, usable |-> saved[r], refresh |-> None, ended |-> 0,
                    retry |-> FALSE, dir |-> dir'[r]]]
              /\ query' = [query EXCEPT ![q] = [branch |-> next, at |-> "found", asked |-> 0]]
  BY DEF Resolve
<1>2. UNCHANGED <<saved, gate, idle, victim>> /\ query[q] = None
  BY DEF Resolve
<1>3. TypeOK'
  BY ResolveType
<1>4. \A c \in Ids : branch[c] # None => branch[c] \in Branches
  BY DEF TypeOK
<1>5. CASE registry[r] # None
  <2> DEFINE n == registry[r]
  <2>1. n \in Ids /\ branch[n] # None /\ branch[n].root = r
    BY <1>5 DEF TypeOK, RegisteredOK
  <2>2. query' = [query EXCEPT ![q] = [branch |-> n, at |-> "found", asked |-> branch[n].ended]]
        /\ UNCHANGED <<registry, dir, next, branch>>
    BY <1>1, <1>5
  <2>3. RegisteredOK' /\ UnusedOK' /\ IdleOK' /\ VictimOK'
    BY <1>2, <2>2 DEF RegisteredOK, UnusedOK, IdleOK, VictimOK
  <2>4. \A p \in Queries : p # q => query'[p] = query[p]
    BY <2>2 DEF TypeOK
  <2>5. query'[q] = [branch |-> n, at |-> "found", asked |-> branch[n].ended]
    BY <2>2 DEF TypeOK
  <2>6. HeldOK'
    <3> SUFFICES ASSUME NEW b \in Ids, Held(b)'
                 PROVE  branch[b] # None /\ registry[branch[b].root] = b
      BY <2>2 DEF HeldOK
    <3>1. Held(b) \/ b = n
      BY <2>2, <2>4, <2>5 DEF Held, Running
    <3> QED
      BY <2>1, <3>1 DEF HeldOK
  <2>7. ASSUME NEW p \in Queries PROVE QueryOK(p)'
    <3>1. CASE p # q
      BY <2>2, <2>4, <3>1 DEF QueryOK
    <3>2. CASE p = q
      <4>1. branch[n].ended \in Nat
        BY <1>4, <2>1 DEF Branches
      <4> QED
        BY <2>1, <2>2, <2>5, <3>2, <4>1 DEF QueryOK
    <3> QED
      BY <3>1, <3>2
  <2> QED
    BY <1>3, <2>3, <2>6, <2>7
<1>6. CASE registry[r] = None
  <2> DEFINE new == [root |-> r, usable |-> saved[r], refresh |-> None, ended |-> 0,
                     retry |-> FALSE, dir |-> dir'[r]]
  <2>1. /\ next \in Ids /\ next' = next + 1
        /\ registry' = [registry EXCEPT ![r] = next]
        /\ dir' = [dir EXCEPT ![r] = IF @ = None THEN next ELSE @]
        /\ branch' = [branch EXCEPT ![next] = new]
        /\ query' = [query EXCEPT ![q] = [branch |-> next, at |-> "found", asked |-> 0]]
    BY <1>1, <1>6
  <2>2. branch[next] = None
    BY <2>1, BoundAssumption DEF UnusedOK, Ids
  <2>3. branch'[next] = new /\ \A c \in Ids : c # next => branch'[c] = branch[c]
    BY <2>1 DEF TypeOK
  <2>4. new # None
    <3>1. dir'[r] \in Ids
      BY <2>1 DEF TypeOK
    <3>2. new \in Branches
      BY <3>1 DEF Branches, TypeOK
    <3> QED
      BY <3>2, NoneAssumption
  <2>5. registry'[r] = next /\ \A s \in Roots : s # r => registry'[s] = registry[s] /\ dir'[s] = dir[s]
    BY <2>1 DEF TypeOK
  <2>6. RegisteredOK'
    <3> SUFFICES ASSUME NEW s \in Roots, registry'[s] # None
                 PROVE  LET b == branch'[registry'[s]] IN b # None /\ b.root = s /\ b.dir = dir'[s]
      BY DEF RegisteredOK
    <3>1. CASE s = r
      BY <2>3, <2>4, <2>5, <3>1
    <3>2. CASE s # r
      <4>1. registry[s] \in Ids /\ branch[registry[s]] # None /\ branch[registry[s]].root = s
            /\ branch[registry[s]].dir = dir[s]
        BY <2>5, <3>2 DEF TypeOK, RegisteredOK
      <4> QED
        BY <2>2, <2>3, <2>5, <3>2, <4>1
    <3> QED
      BY <3>1, <3>2
  <2>7. UnusedOK'
    <3> SUFFICES ASSUME NEW b \in Ids, b >= next + 1 PROVE branch'[b] = None
      BY <2>1 DEF UnusedOK
    <3>1. b # next /\ b >= next
      BY <2>1 DEF Ids
    <3> QED
      BY <2>3, <3>1 DEF UnusedOK
  <2>8. \A b \in Ids : branch[b] # None /\ registry[branch[b].root] = b
             => branch'[b] = branch[b] /\ registry'[branch[b].root] = b
    <3> SUFFICES ASSUME NEW b \in Ids, branch[b] # None, registry[branch[b].root] = b
                 PROVE  branch'[b] = branch[b] /\ registry'[branch[b].root] = b
      OBVIOUS
    <3>1. branch[b].root \in Roots /\ b # None
      BY <1>4, NoneAssumption DEF Branches
    <3> QED
      BY <1>6, <2>2, <2>3, <2>5, <3>1
  <2>9. IdleOK'
    BY <1>2, <2>8 DEF IdleOK, TypeOK
  <2>10. VictimOK'
    BY <1>2, <2>2, <2>3 DEF VictimOK, TypeOK, Evictions
  <2>11. query'[q] = [branch |-> next, at |-> "found", asked |-> 0]
         /\ \A p \in Queries : p # q => query'[p] = query[p]
    BY <2>1 DEF TypeOK
  <2>12. HeldOK'
    <3> SUFFICES ASSUME NEW b \in Ids, Held(b)'
                 PROVE  branch'[b] # None /\ registry'[branch'[b].root] = b
      BY DEF HeldOK
    <3>1. CASE b = next
      BY <2>3, <2>4, <2>5, <3>1
    <3>2. CASE b # next
      <4>1. Held(b)
        BY <2>3, <2>11, <3>2 DEF Held, Running
      <4>2. branch[b] # None /\ registry[branch[b].root] = b
        BY <4>1 DEF HeldOK
      <4> QED
        BY <2>8, <4>2
    <3> QED
      BY <3>1, <3>2
  <2>13. ASSUME NEW p \in Queries PROVE QueryOK(p)'
    <3>1. CASE p # q
      <4> SUFFICES ASSUME query[p] # None
                   PROVE  query[p].branch \in Ids /\ query[p].branch # next
        BY <2>3, <2>11, <3>1 DEF QueryOK
      <4> QED
        BY <2>2 DEF QueryOK, TypeOK, Asked
    <3>2. CASE p = q
      BY <2>3, <2>4, <2>11, <3>2 DEF QueryOK
    <3> QED
      BY <3>1, <3>2
  <2> QED
    BY <1>3, <2>6, <2>7, <2>9, <2>10, <2>12, <2>13
<1> QED
  BY <1>5, <1>6

LEMMA CheckKeeps ==
    ASSUME IInv, NEW q \in Queries, Check(q) PROVE IInv'
<1> USE DEF IInv
<1> DEFINE b == query[q].branch
<1>1. TypeOK'
  BY StepType DEF Next, Ask
<1>2. query[q] # None /\ query[q] \in Asked /\ b \in Ids /\ query[q].at = "found"
  BY DEF Check, TypeOK, Asked
<1>3. Held(b)
  BY <1>2 DEF Held
<1>4. branch[b] # None /\ registry[branch[b].root] = b
  BY <1>2, <1>3 DEF HeldOK
<1>5. branch' = branch \/ \E requested \in BOOLEAN : branch' = Scheduled(b, requested)
  BY DEF Check
<1>6. \A c \in Ids : Same(c) /\ Ends(c) /\ Starts(c)
  <2>1. CASE branch' = branch
    BY <2>1 DEF Same, Ends, Starts, Running, TypeOK, Branches
  <2>2. ASSUME NEW requested \in BOOLEAN, branch' = Scheduled(b, requested)
        PROVE  \A c \in Ids : Same(c) /\ Ends(c) /\ Starts(c)
    BY <1>2, <1>4, <2>2, ScheduledSame
  <2> QED
    BY <1>5, <2>1, <2>2
<1>7. UNCHANGED <<registry, dir, next, idle, victim>>
  BY DEF Check
<1>8. \A p \in Queries : p # q => query'[p] = query[p]
  BY DEF Check, TypeOK
<1>9. query'[q] \in {[query[q] EXCEPT !.at = "using"], [query[q] EXCEPT !.at = "waiting"]}
  BY DEF Check, TypeOK
<1>10. query'[q].branch = b /\ query'[q].asked = query[q].asked
       /\ query'[q].at \in {"using", "waiting"}
  BY <1>2, <1>9 DEF Asked
<1>11. Fewer
  BY <1>2, <1>8, <1>10 DEF Fewer
<1>12. ASSUME query'[q].at = "waiting" PROVE branch'[b].refresh = "running"
  <2>1. ~branch[b].usable
    <3> SUFFICES ASSUME branch[b].usable PROVE FALSE
      OBVIOUS
    <3>1. query'[q] = [query[q] EXCEPT !.at = "using"]
      BY DEF Check, TypeOK
    <3> QED
      BY <1>2, <1>12, <3>1 DEF Asked
  <2>2. (Running(b) \/ branch[b].ended < MaxEnds) /\ branch' = Scheduled(b, TRUE)
    BY <2>1 DEF Check
  <2>3. branch[b].ended < MaxEnds => branch[b].ended # MaxEnds
    BY <1>2, <1>4, BoundAssumption DEF TypeOK, Branches
  <2>4. branch[b] \in Branches
    BY <1>2, <1>4 DEF TypeOK
  <2>5. CASE Running(b)
    BY <2>2, <2>5 DEF Scheduled, NotNow, Running
  <2>6. CASE ~Running(b)
    <3>1. branch' = [branch EXCEPT ![b].refresh = "running"]
      BY <2>2, <2>3, <2>6 DEF Scheduled, NotNow
    <3>2. branch'[b] = [branch[b] EXCEPT !.refresh = "running"]
      BY <1>2, <3>1 DEF TypeOK
    <3> QED
      BY <2>4, <3>2 DEF Branches
  <2> QED
    BY <2>5, <2>6
<1>13. ASSUME NEW p \in Queries PROVE QueryOK(p)'
  <2>1. CASE p # q
    BY <1>1, <1>6, <1>8, <2>1, QueryKept
  <2>2. CASE p = q
    <3>1. branch'[b] # None /\ branch'[b].ended >= branch[b].ended
      BY <1>2, <1>4, <1>6 DEF Same, Ends
    <3>2. query[q].asked <= branch[b].ended
      BY <1>2 DEF QueryOK
    <3>3. branch[b].ended \in Nat /\ branch'[b].ended \in Nat /\ query[q].asked \in Nat
      BY <1>1, <1>2, <1>4, <3>1 DEF TypeOK, Branches, Asked
    <3> QED
      BY <1>2, <1>10, <1>12, <2>2, <3>1, <3>2, <3>3 DEF QueryOK
  <2> QED
    BY <2>1, <2>2
<1>14. RegisteredOK' /\ UnusedOK' /\ IdleOK' /\ VictimOK'
  BY <1>6, <1>7, SameKeeps
<1>15. HeldOK'
  BY <1>6, <1>7, <1>11, HeldKept
<1> QED
  BY <1>1, <1>13, <1>14, <1>15

LEMMA AnswerKeeps ==
    ASSUME IInv, NEW q \in Queries, Wake(q) \/ Release(q) PROVE IInv'
<1> USE DEF IInv
<1> DEFINE b == query[q].branch
<1>1. TypeOK'
  BY StepType DEF Next, Ask
<1>2. query[q] # None /\ query[q] \in Asked /\ b \in Ids
  BY DEF Wake, Release, TypeOK, Asked
<1>3. UNCHANGED <<registry, dir, next, branch, idle, victim>>
  BY DEF Wake, Release
<1>4. \A c \in Ids : Same(c) /\ Ends(c) /\ Starts(c)
  BY <1>3 DEF Same, Ends, Starts, Running, TypeOK, Branches
<1>5. \A p \in Queries : p # q => query'[p] = query[p]
  BY DEF Wake, Release, TypeOK
<1>6. \/ query'[q] = None
      \/ /\ query[q].at = "waiting" /\ branch[b].refresh \in {"ok", "failed"}
         /\ query'[q].branch = b /\ query'[q].asked = query[q].asked
         /\ query'[q].at \in {"using", "failed"}
  <2>1. CASE Release(q)
    BY <2>1 DEF Release, TypeOK
  <2>2. CASE Wake(q)
    <3>1. \E a \in {"using", "failed"} : query'[q] = [query[q] EXCEPT !.at = a]
      BY <2>2 DEF Wake, TypeOK
    <3> QED
      BY <1>2, <2>2, <3>1 DEF Wake, Asked
  <2> QED
    BY <2>1, <2>2
<1>7. Fewer
  BY <1>2, <1>5, <1>6 DEF Fewer
<1>8. ASSUME NEW p \in Queries PROVE QueryOK(p)'
  <2>1. CASE p # q
    BY <1>1, <1>4, <1>5, <2>1, QueryKept
  <2>2. CASE p = q
    <3>1. QueryOK(q)
      OBVIOUS
    <3> QED
      BY <1>2, <1>3, <1>6, <2>2, <3>1 DEF QueryOK
  <2> QED
    BY <2>1, <2>2
<1>9. RegisteredOK' /\ UnusedOK' /\ IdleOK' /\ VictimOK'
  BY <1>3, <1>4, SameKeeps
<1>10. HeldOK'
  BY <1>3, <1>4, <1>7, HeldKept
<1> QED
  BY <1>1, <1>8, <1>9, <1>10

LEMMA RefreshKeeps ==
    ASSUME IInv, NEW b \in Ids, Refresh(b) \/ RetryPasses(b) \/ Damage(b) PROVE IInv'
<1> USE DEF IInv
<1>1. TypeOK'
  BY StepType DEF Next
<1>2. UNCHANGED <<registry, dir, next, query, idle, victim>>
  BY DEF Refresh, Publish, RefreshFails, RetryPasses, Damage
<1>3. \A c \in Ids : Same(c) /\ Ends(c) /\ Starts(c)
  BY RefreshSame
<1>4. Fewer
  BY <1>2 DEF Fewer
<1>5. \A q \in Queries : QueryOK(q)'
  BY <1>1, <1>2, <1>3, QueryKept
<1>6. RegisteredOK' /\ UnusedOK' /\ IdleOK' /\ VictimOK'
  BY <1>2, <1>3, SameKeeps
<1>7. HeldOK'
  BY <1>2, <1>3, <1>4, HeldKept
<1> QED
  BY <1>1, <1>5, <1>6, <1>7

LEMMA MaintainKeeps ==
    ASSUME IInv, Maintain PROVE IInv'
<1> USE DEF IInv
<1>1. TypeOK'
  BY StepType DEF Next
<1>2. UNCHANGED <<registry, dir, next, query, victim>> /\ idle' \subseteq Registered
  BY DEF Maintain
<1>3. PICK due \in Registered \union {None} :
        branch' = IF due = None THEN branch ELSE Scheduled(due, FALSE)
  BY DEF Maintain
<1>4. \A c \in Ids : Same(c) /\ Ends(c) /\ Starts(c)
  <2>1. CASE branch' = branch
    BY <2>1 DEF Same, Ends, Starts, Running, TypeOK, Branches
  <2>2. CASE due # None /\ branch' = Scheduled(due, FALSE)
    <3>1. due \in Ids /\ branch[due] # None /\ registry[branch[due].root] = due
      BY <1>3, <2>2, RegisteredIds
    <3> QED
      BY <2>2, <3>1, ScheduledSame
  <2> QED
    BY <1>3, <2>1, <2>2
<1>5. Fewer
  BY <1>2 DEF Fewer
<1>6. \A q \in Queries : QueryOK(q)'
  BY <1>1, <1>2, <1>4, QueryKept
<1>7. RegisteredOK' /\ UnusedOK' /\ VictimOK'
  BY <1>2, <1>4, SameKeeps
<1>8. HeldOK'
  BY <1>2, <1>4, <1>5, HeldKept
<1>9. IdleOK'
  <2> SUFFICES ASSUME NEW b \in idle' PROVE branch'[b] # None /\ registry[branch'[b].root] = b
    BY <1>2 DEF IdleOK
  <2>1. b \in Ids /\ branch[b] # None /\ registry[branch[b].root] = b
    BY <1>2, RegisteredIds
  <2> QED
    BY <1>4, <2>1 DEF Same
<1> QED
  BY <1>1, <1>6, <1>7, <1>8, <1>9

LEMMA BeginEvictKeeps ==
    ASSUME IInv, NEW r \in Roots, BeginEvict(r) PROVE IInv'
<1> USE DEF IInv
<1>1. TypeOK'
  BY StepType DEF Next
<1>2. UNCHANGED <<registry, dir, next, branch, query, idle>>
      /\ victim' = [root |-> r, branch |-> registry[r], dir |-> dir[r]]
  BY DEF BeginEvict
<1>3. VictimOK'
  BY <1>2 DEF VictimOK, RegisteredOK
<1>4. RegisteredOK' /\ UnusedOK' /\ IdleOK' /\ HeldOK' /\ \A q \in Queries : QueryOK(q)'
  BY <1>2 DEF RegisteredOK, UnusedOK, IdleOK, HeldOK, Held, Running, QueryOK
<1> QED
  BY <1>1, <1>3, <1>4

\* A directory is retired, and its branch forgotten, when no query, refresh or
\* expiry has that branch.
LEMMA RetiredKeeps ==
    ASSUME IInv, NEW r \in Roots, Retired(r), idle' \subseteq idle, UNCHANGED <<next, branch, query>>,
           \A b \in Ids : branch[b] # None /\ registry[r] = b =>
               ~Held(b) /\ b \notin idle'
    PROVE  RegisteredOK' /\ UnusedOK' /\ IdleOK' /\ HeldOK' /\ \A q \in Queries : QueryOK(q)'
<1> USE DEF IInv
<1>1. registry'[r] = None
      /\ \A s \in Roots : s # r => registry'[s] = registry[s] /\ dir'[s] = dir[s]
  BY DEF Retired, TypeOK
<1>2. ASSUME NEW b \in Ids, branch[b] # None, registry[branch[b].root] = b, Held(b) \/ b \in idle'
      PROVE  registry'[branch[b].root] = b
  <2>1. branch[b].root \in Roots
    BY <1>2 DEF TypeOK, Branches
  <2> QED
    BY <1>1, <1>2, <2>1
<1>3. RegisteredOK'
  BY <1>1 DEF RegisteredOK
<1>4. IdleOK'
  BY <1>2 DEF IdleOK, TypeOK
<1>5. HeldOK'
  BY <1>2 DEF HeldOK, Held, Running
<1> QED
  BY <1>3, <1>4, <1>5 DEF UnusedOK, QueryOK

LEMMA ExpireKeeps ==
    ASSUME IInv, NEW b \in Ids, Expire(b) PROVE IInv'
<1> USE DEF IInv
<1>1. TypeOK'
  BY StepType DEF Next
<1>2. b \in idle /\ idle' = idle \ {b} /\ UNCHANGED <<next, branch, gate, query, victim>>
  BY DEF Expire
<1>3. branch[b] # None /\ registry[branch[b].root] = b
  BY <1>2 DEF IdleOK
<1>4. branch[b].root \in Roots
  BY <1>3 DEF TypeOK, Branches
<1>5. VictimOK'
  BY <1>2 DEF VictimOK
<1>6. CASE UNCHANGED <<registry, dir, saved>>
  BY <1>1, <1>2, <1>5, <1>6 DEF RegisteredOK, UnusedOK, IdleOK, HeldOK, Held, Running, QueryOK
<1>7. CASE Alone(b) /\ ~Running(b) /\ Retired(branch[b].root)
  <2>1. ~Held(b)
    BY <1>2, <1>7, AloneIdle DEF Held
  <2>2. \A c \in Ids : branch[c] # None /\ registry[branch[b].root] = c =>
            ~Held(c) /\ c \notin idle'
    BY <1>2, <1>3, <2>1
  <2>3. RegisteredOK' /\ UnusedOK' /\ IdleOK' /\ HeldOK' /\ \A q \in Queries : QueryOK(q)'
    BY <1>2, <1>4, <1>7, <2>2, RetiredKeeps
  <2> QED
    BY <1>1, <1>5, <2>3
<1> QED
  BY <1>6, <1>7 DEF Expire

LEMMA FinishEvictKeeps ==
    ASSUME IInv, FinishEvict PROVE IInv'
<1> USE DEF IInv
<1>1. TypeOK'
  BY StepType DEF Next
<1>2. victim # None /\ victim' = None /\ UNCHANGED <<next, branch, query, idle>>
  BY DEF FinishEvict
<1>3. victim \in Evictions /\ victim.root \in Roots
  BY <1>2 DEF TypeOK, Evictions
<1>4. VictimOK'
  BY <1>2 DEF VictimOK
<1>5. CASE UNCHANGED <<registry, dir, saved>>
  BY <1>1, <1>2, <1>4, <1>5 DEF RegisteredOK, UnusedOK, IdleOK, HeldOK, Held, Running, QueryOK
<1>6. CASE Unchanged /\ Retired(victim.root)
  <2>1. ASSUME NEW c \in Ids, branch[c] # None, registry[victim.root] = c
        PROVE  ~Held(c) /\ c \notin idle
    <3>1. victim.branch = c /\ c # None
      BY <1>6, <2>1, NoneAssumption DEF Unchanged
    <3>2. Alone(victim.branch) /\ ~Running(victim.branch)
      BY <1>6, <3>1 DEF Unchanged
    <3> QED
      BY <1>2, <3>1, <3>2, AloneVictim DEF Held
  <2>2. RegisteredOK' /\ UnusedOK' /\ IdleOK' /\ HeldOK' /\ \A q \in Queries : QueryOK(q)'
    BY <1>2, <1>3, <1>6, <2>1, RetiredKeeps
  <2> QED
    BY <1>1, <1>4, <2>2
<1> QED
  BY <1>5, <1>6 DEF FinishEvict

LEMMA RestartKeeps ==
    ASSUME IInv, Restart PROVE IInv'
<1> USE DEF IInv
<1>1. TypeOK'
  BY StepType DEF Next
<1>2. /\ registry' = [r \in Roots |-> None] /\ branch' = [b \in Ids |-> None]
      /\ query' = [q \in Queries |-> None] /\ idle' = {} /\ victim' = None
  BY DEF Restart
<1> QED
  BY <1>1, <1>2 DEF RegisteredOK, UnusedOK, IdleOK, VictimOK, HeldOK, Held, QueryOK

-----------------------------------------------------------------------------
(* The theorems.                                                           *)

LEMMA InitInv == Init => IInv
<1> SUFFICES ASSUME Init PROVE IInv
  OBVIOUS
<1> QED
  BY InitType DEF IInv, Init, RegisteredOK, UnusedOK, IdleOK, VictimOK, HeldOK, Held, QueryOK

LEMMA StepInv == IInv /\ [Next]_vars => IInv'
<1> SUFFICES ASSUME IInv, [Next]_vars PROVE IInv'
  OBVIOUS
<1>1. ASSUME NEW q \in Queries, Ask(q) PROVE IInv'
  BY <1>1, ResolveKeeps, CheckKeeps, AnswerKeeps DEF Ask
<1>2. ASSUME NEW b \in Ids, Refresh(b) \/ RetryPasses(b) \/ Damage(b) \/ Expire(b) PROVE IInv'
  BY <1>2, RefreshKeeps, ExpireKeeps
<1>3. ASSUME NEW r \in Roots, BeginEvict(r) PROVE IInv'
  BY <1>3, BeginEvictKeeps
<1>4. CASE Maintain \/ FinishEvict \/ Restart
  BY <1>4, MaintainKeeps, FinishEvictKeeps, RestartKeeps
<1>5. CASE UNCHANGED vars
  BY <1>5 DEF vars, IInv, TypeOK, RegisteredOK, UnusedOK, IdleOK, VictimOK, HeldOK, Held,
              Running, QueryOK
<1> QED
  BY <1>1, <1>2, <1>3, <1>4, <1>5 DEF Next

\* What is known of the registry, its branches and whoever holds one, in every
\* reachable state (manager.rs).
THEOREM Invariant == Spec => []IInv
<1> QED
  BY InitInv, StepInv, PTL DEF Spec

\* However queries, refreshes, expiry, eviction and restarts overlap, a held
\* branch is the one in the registry, its directory is the one it was opened
\* on, and no query is given a failure older than itself (manager.rs).
THEOREM RegistryCorrect == Spec => []RegistryTrue
<1>1. IInv => RegistryTrue
  <2> SUFFICES ASSUME IInv PROVE RegistryTrue
    OBVIOUS
  <2> USE DEF IInv
  <2>1. OneBranch
    BY DEF OneBranch, HeldOK
  <2>2. FilesKept
    <3> SUFFICES ASSUME NEW b \in Ids, Held(b) PROVE dir[branch[b].root] = branch[b].dir
      BY DEF FilesKept
    <3>1. branch[b] # None /\ registry[branch[b].root] = b
      BY DEF HeldOK
    <3>2. branch[b].root \in Roots /\ b # None
      BY <3>1, NoneAssumption DEF TypeOK, Branches
    <3> QED
      BY <3>1, <3>2 DEF RegisteredOK
  <2>3. OwnFailure
    BY DEF OwnFailure, QueryOK, TypeOK, Asked, Branches
  <2> QED
    BY <2>1, <2>2, <2>3 DEF RegistryTrue
<1> QED
  BY <1>1, Invariant, PTL
=============================================================================
