--------------------------- MODULE BackgroundProofs ---------------------------
(***************************************************************************)
(* Proofs about the components that serve all requests at once:            *)
(*                                                                         *)
(*   DefaultBranch    a copy is left to answer from while the default      *)
(*                    branch is renamed (FallbackKept, CopyKept);          *)
(*   MemoryBudget     every byte, worker and ticket is accounted for, for  *)
(*                    any number of tasks and any capacity (MemoryTrue);   *)
(*   MaintenanceLoop  collections and refreshes come in time, for any      *)
(*                    schedule and any duration of an operation            *)
(*                    (LoopTrue);                                          *)
(*   WatchFence       a snapshot misses no change, for any directories,    *)
(*                    files and readers (WatchTrue);                       *)
(*   Journal          what ended is recorded once and none is forgotten,   *)
(*                    for any number of operations and days, crashes and   *)
(*                    failed writes (JournalTrue).                         *)
(***************************************************************************)
EXTENDS Background, FiniteSetTheorems, SequenceTheorems, WellFoundedInduction, TLAPS

-----------------------------------------------------------------------------
(***************************************************************************)
(* Default branch                                                          *)
(*                                                                         *)
(* A lookup may decide long before it is recorded; copies are indexed,     *)
(* refreshed and evicted meanwhile.  The fallback is the previous branch   *)
(* on record; and unless the record has missed it, the default or the      *)
(* previous branch is one that served.                                     *)
(***************************************************************************)

Decided == lookup # None /\ lookup.at = "decided"

-----------------------------------------------------------------------------
(* The invariant of FallbackKept                                           *)

\* The fallback is the previous branch on record, and its successor is not
\* ready; this is what protects it.
FallbackRecorded ==
  fallback # None =>
    /\ saved # None /\ saved.previous = fallback
    /\ ~Ready(saved.branch)
    /\ copy[fallback] # None

\* A lookup that has decided will record the fallback again.
FallbackDecided == Decided /\ fallback # None => lookup.previous = fallback /\ ~lookup.ready

\* One that found its default ready will record it, and it has its copy.
ReadyDecided ==
  Decided /\ lookup.ready =>
    /\ saved # None /\ lookup.branch # saved.branch
    /\ lookup.previous = saved.branch /\ copy[saved.branch] # None

FallbackInv == TypeOK /\ FallbackRecorded /\ FallbackDecided /\ ReadyDecided

-----------------------------------------------------------------------------
(* The invariant of CopyKept                                               *)

\* A default that is ready has been served.
DefaultServed == saved # None /\ Ready(saved.branch) => saved.branch \in served

\* Of what has been served, the default or the previous branch is left.
OneServed ==
  ~missed /\ served # {} =>
    saved # None /\ (saved.branch \in served \/ saved.previous \in served)

\* What a lookup will record: the previous branch again, unless the default has
\* served or there is none.
ServedDecided ==
  Decided /\ saved # None =>
    /\ lookup.branch = saved.branch => lookup.previous = saved.previous
    /\ saved.branch \in served \/ saved.previous = None \/ lookup.previous = saved.previous

CopyInv == TypeOK /\ DefaultServed /\ OneServed /\ ServedDecided

-----------------------------------------------------------------------------
(* Types                                                                   *)

\* default_branch() and the policy keep every record well formed.
LEMMA InitTypes == Init => TypeOK
  <1> SUFFICES ASSUME Init PROVE TypeOK
    OBVIOUS
  <1>1. remote \in Branches /\ served \subseteq Branches /\ missed \in BOOLEAN
    BY DEF Init
  <1>2. saved \in Records \union {None} /\ lookup \in Lookups \union {None}
        /\ lookup = None
    BY DEF Init
  <1>3. copy \in [Branches -> {None, "acquired", "ready"}]
    BY DEF Init
  <1>4. fallback \in Branches \union {None} /\ renames \in 0 .. MaxRenames
    BY MaxRenamesAssumption DEF Init
  <1> QED
    BY <1>1, <1>2, <1>3, <1>4 DEF TypeOK

\* What previous_default() answers is a branch or nothing.
LEMMA PreviousType ==
  ASSUME TypeOK, NEW found
  PROVE  PreviousDefault(found) \in Branches \union {None}
  BY NoneAssumption DEF TypeOK, PreviousDefault, Records

\* A decision keeps the branch that was found.
LEMMA DecideRecord ==
  ASSUME TypeOK, Decide
  PROVE  /\ lookup \in Lookups /\ lookup' \in Lookups
         /\ lookup'.at = "decided" /\ lookup'.branch = lookup.branch
         /\ lookup'.previous = PreviousDefault(lookup.branch)
         /\ lookup'.ready = (saved # None /\ saved.branch # lookup.branch /\ Ready(saved.branch))
  <1> DEFINE r == saved # None /\ saved.branch # lookup.branch /\ Ready(saved.branch)
  <1>1. lookup \in Lookups /\ r \in BOOLEAN
    BY DEF TypeOK, Decide
  <1> HIDE DEF r
  <1>2. lookup' = [at |-> "decided", branch |-> lookup.branch,
                   previous |-> PreviousDefault(lookup.branch), ready |-> r]
    BY <1>1 DEF Decide, Lookups, r
  <1>3. /\ lookup' \in Lookups /\ lookup'.at = "decided" /\ lookup'.branch = lookup.branch
        /\ lookup'.previous = PreviousDefault(lookup.branch) /\ lookup'.ready = r
    BY <1>1, <1>2, PreviousType DEF Lookups
  <1> QED
    BY <1>1, <1>3 DEF r

LEMMA StepTypes == TypeOK /\ [Next]_vars => TypeOK'
  <1> SUFFICES ASSUME TypeOK, [Next]_vars PROVE TypeOK'
    OBVIOUS
  <1> USE DEF TypeOK
  <1>1. CASE Rename
    BY <1>1, MaxRenamesAssumption DEF Rename
  <1>2. CASE Ask
    BY <1>2, NoneAssumption DEF Ask, Lookups
  <1>3. CASE Decide
    BY <1>3, DecideRecord DEF Decide
  <1>4. CASE Save
    <2>1. lookup \in Lookups
      BY <1>4 DEF Save
    <2>2. saved' \in Records
      BY <1>4, <2>1 DEF Save, Lookups, Records
    <2>3. served' \subseteq Branches
      BY <1>4, <2>1 DEF Save, Lookups
    <2>4. missed' \in BOOLEAN
      BY <1>4 DEF Save
    <2>5. UNCHANGED <<remote, copy, renames>> /\ lookup' = None
      BY <1>4 DEF Save
    <2>6. fallback' \in Branches \union {None}
      BY <1>4 DEF Save, Records
    <2> QED
      BY <2>2, <2>3, <2>4, <2>5, <2>6
  <1>5. CASE LookupFails
    BY <1>5 DEF LookupFails
  <1>6. ASSUME NEW b \in Branches, Acquire(b) PROVE TypeOK'
    BY <1>6 DEF Acquire
  <1>7. ASSUME NEW b \in Branches, Index(b) PROVE TypeOK'
    BY <1>7 DEF Index
  <1>8. ASSUME NEW b \in Branches, Refresh(b) PROVE TypeOK'
    BY <1>8 DEF Refresh
  <1>9. ASSUME NEW b \in Branches, Evict(b) PROVE TypeOK'
    BY <1>9 DEF Evict
  <1>10. CASE UNCHANGED vars
    BY <1>10 DEF vars
  <1> QED
    BY <1>1, <1>2, <1>3, <1>4, <1>5, <1>6, <1>7, <1>8, <1>9, <1>10 DEF Next

-----------------------------------------------------------------------------
(* FallbackKept                                                            *)

LEMMA FallbackStep ==
  ASSUME FallbackInv, TypeOK', [Next]_vars
  PROVE  FallbackInv'
  <1> USE NoneAssumption DEF FallbackInv, FallbackRecorded, FallbackDecided, ReadyDecided, Decided, Ready
  <1>1. CASE Rename
    BY <1>1 DEF Rename
  <1>2. CASE Ask
    BY <1>2 DEF Ask
  <1>3. CASE Decide
    \* A fallback is the previous branch of a default that is not ready.
    <2>1. /\ lookup'.branch = lookup.branch /\ lookup'.previous = PreviousDefault(lookup.branch)
          /\ lookup'.ready = (saved # None /\ saved.branch # lookup.branch /\ Ready(saved.branch))
      BY <1>3, DecideRecord
    <2>2. UNCHANGED <<saved, copy, fallback>>
      BY <1>3 DEF Decide
    <2>3. FallbackRecorded'
      BY <2>2
    <2>4. FallbackDecided'
      BY <2>1, <2>2 DEF PreviousDefault, TypeOK
    <2>5. ReadyDecided'
      BY <2>1, <2>2 DEF PreviousDefault
    <2> QED
      BY <2>3, <2>4, <2>5
  <1>4. CASE Save
    <2>1. lookup \in Lookups /\ Decided /\ lookup' = None /\ copy' = copy
      BY <1>4 DEF Save, TypeOK
    <2>2. saved' = [branch |-> lookup.branch, previous |-> lookup.previous]
      BY <1>4 DEF Save
    <2>3. saved' # None /\ saved'.branch = lookup.branch
          /\ saved'.previous = lookup.previous
      BY <2>1, <2>2 DEF Lookups, Records
    <2>4. CASE Ready(lookup.branch)
      BY <1>4, <2>1, <2>4 DEF Save
    \* The default that is replaced was ready when the lookup decided: it is the
    \* new fallback, and the lookup has noticed it.
    <2>5. CASE ~Ready(lookup.branch) /\ lookup.ready
      <3>1. fallback' = saved.branch
        BY <1>4, <2>5 DEF Save
      <3> QED
        BY <2>1, <2>3, <2>5, <3>1
    <2>6. CASE ~Ready(lookup.branch) /\ ~lookup.ready
      <3>1. fallback' = fallback
        BY <1>4, <2>6 DEF Save
      <3> QED
        BY <2>1, <2>3, <2>6, <3>1
    <2> QED
      BY <2>4, <2>5, <2>6
  <1>5. CASE LookupFails
    BY <1>5 DEF LookupFails
  <1>6. ASSUME NEW b \in Branches, Acquire(b) PROVE FallbackInv'
    BY <1>6 DEF Acquire, TypeOK
  \* Between a decision and its record too: a successor that becomes ready ends
  \* the fallback.
  <1>7. ASSUME NEW b \in Branches, Index(b) PROVE FallbackInv'
    <2>1. copy' = [copy EXCEPT ![b] = "ready"] /\ UNCHANGED <<saved, lookup>>
          /\ fallback' = IF saved # None /\ saved.branch = b THEN None ELSE fallback
      BY <1>7 DEF Index
    <2> QED
      BY <2>1 DEF TypeOK
  <1>8. ASSUME NEW b \in Branches, Refresh(b) PROVE FallbackInv'
    BY <1>8 DEF Refresh, TypeOK
  <1>9. ASSUME NEW b \in Branches, Evict(b) PROVE FallbackInv'
    <2>1. fallback # None => b # fallback
      BY <1>9 DEF Evict, Protected
    <2>2. saved # None => b # saved.branch
      BY <1>9 DEF Evict, Protected
    <2> QED
      BY <1>9, <2>1, <2>2 DEF Evict, TypeOK
  <1>10. CASE UNCHANGED vars
    BY <1>10 DEF vars
  <1> QED
    BY <1>1, <1>2, <1>3, <1>4, <1>5, <1>6, <1>7, <1>8, <1>9, <1>10 DEF Next

LEMMA FallbackInvariant == Spec => []FallbackInv
  <1>1. Init => FallbackInv
    BY InitTypes DEF Init, FallbackInv, FallbackRecorded, FallbackDecided,
       ReadyDecided, Decided
  <1>2. FallbackInv /\ [Next]_vars => FallbackInv'
    BY FallbackStep, StepTypes DEF FallbackInv
  <1> QED
    BY <1>1, <1>2, PTL DEF Spec

\* A default that was ready when the lookup of its successor decided stays until
\* a successor is ready, with any number of renames, refreshes and evictions,
\* also between the decision and its record (retention.rs, Policy::decision).
THEOREM FallbackStays == Spec => []FallbackKept
  <1>1. FallbackInv => FallbackKept
    BY DEF FallbackInv, FallbackRecorded, FallbackKept
  <1> QED
    BY <1>1, FallbackInvariant, PTL

-----------------------------------------------------------------------------
(* CopyKept                                                                *)

LEMMA CopyStep ==
  ASSUME CopyInv, TypeOK', [Next]_vars
  PROVE  CopyInv' /\ (~missed /\ served # {} => served' # {})
  <1> USE NoneAssumption DEF CopyInv, DefaultServed, OneServed, ServedDecided, Decided, Ready
  <1>1. CASE Rename
    BY <1>1 DEF Rename
  <1>2. CASE Ask
    BY <1>2 DEF Ask
  <1>3. CASE Decide
    <2>1. lookup'.branch = lookup.branch /\ lookup'.previous = PreviousDefault(lookup.branch)
      BY <1>3, DecideRecord
    <2>2. UNCHANGED <<saved, copy, served, missed>>
      BY <1>3 DEF Decide
    <2> QED
      BY <2>1, <2>2 DEF PreviousDefault
  <1>4. CASE Save
    <2>1. lookup \in Lookups /\ Decided /\ lookup' = None /\ copy' = copy
      BY <1>4 DEF Save, TypeOK
    <2>2. saved' = [branch |-> lookup.branch, previous |-> lookup.previous]
      BY <1>4 DEF Save
    <2>3. saved' # None /\ saved'.branch = lookup.branch
          /\ saved'.previous = lookup.previous
      BY <2>1, <2>2 DEF Lookups, Records
    <2>4. CASE Ready(lookup.branch)
      <3>1. served' = served \union {lookup.branch}
        BY <1>4, <2>4 DEF Save
      <3> QED
        BY <2>1, <2>3, <2>4, <3>1
    \* The record names the one that is left, or misses it.
    <2>5. CASE ~Ready(lookup.branch)
      <3>1. served' = served /\ (~missed' => ~missed /\ ~Misses)
        BY <1>4, <2>5 DEF Save
      <3>2. ~missed' /\ served # {} => lookup.branch \in served \/ lookup.previous \in served
        BY <2>1, <3>1 DEF Misses, TypeOK
      <3> QED
        BY <2>1, <2>3, <2>5, <3>1, <3>2
    <2> QED
      BY <2>4, <2>5
  <1>5. CASE LookupFails
    BY <1>5 DEF LookupFails
  <1>6. ASSUME NEW b \in Branches, Acquire(b) PROVE CopyInv' /\ served' = served
    BY <1>6 DEF Acquire, TypeOK
  <1>7. ASSUME NEW b \in Branches, Index(b) PROVE CopyInv' /\ (served # {} => served' # {})
    <2>1. copy' = [copy EXCEPT ![b] = "ready"] /\ UNCHANGED <<saved, lookup>>
      BY <1>7 DEF Index
    <2>2. CASE saved # None /\ saved.branch = b
      <3>1. served' = served \union {b}
        BY <1>7, <2>2 DEF Index
      <3> QED
        BY <2>1, <2>2, <3>1
    <2>3. CASE ~(saved # None /\ saved.branch = b)
      <3>1. UNCHANGED <<served, missed>>
        BY <1>7, <2>3 DEF Index
      <3> QED
        BY <2>1, <2>3, <3>1 DEF TypeOK
    <2> QED
      BY <2>2, <2>3
  <1>8. ASSUME NEW b \in Branches, Refresh(b) PROVE CopyInv' /\ served' = served
    BY <1>8 DEF Refresh, TypeOK
  <1>9. ASSUME NEW b \in Branches, Evict(b)
        PROVE  CopyInv' /\ (~missed /\ served # {} => served' # {})
    <2>1. saved # None /\ b # saved.branch
      BY <1>9 DEF Evict, Protected
    <2>2. Ready(saved.branch)' <=> Ready(saved.branch)
      BY <1>9, <2>1 DEF Evict, TypeOK
    <2>3. ~Ready(saved.branch) => b # saved.previous
      BY <1>9 DEF Evict, Protected
    <2>4. served' = served \ {b} /\ UNCHANGED <<saved, lookup, missed>>
      BY <1>9 DEF Evict
    <2>5. saved.branch \in served <=> saved.branch \in served'
      BY <2>1, <2>4
    <2>6. saved.branch \notin served => (saved.previous \in served <=> saved.previous \in served')
      BY <2>1, <2>3, <2>4
    <2> QED
      BY <2>1, <2>2, <2>4, <2>5, <2>6
  <1>10. CASE UNCHANGED vars
    BY <1>10 DEF vars
  <1> QED
    BY <1>1, <1>2, <1>3, <1>4, <1>5, <1>6, <1>7, <1>8, <1>9, <1>10 DEF Next

\* Unless the record has missed a default that served, the last copy that was
\* served is never evicted, however often the default is renamed and copies are
\* refreshed (manager.rs, previous_default).
THEOREM CopyStays == Spec => CopyKept
  <1>1. Init => CopyInv
    BY InitTypes DEF Init, CopyInv, DefaultServed, OneServed, ServedDecided, Decided
  <1>2. CopyInv /\ [Next]_vars => CopyInv' /\ [~missed /\ served # {} => served' # {}]_vars
    BY StepTypes, CopyStep DEF CopyInv
  <1> QED
    BY <1>1, <1>2, PTL DEF Spec, CopyKept

-----------------------------------------------------------------------------
(***************************************************************************)
(* Induction on numbers                                                    *)
(*                                                                         *)
(* A nonempty set of numbers has a least element (WFMin), so a set that    *)
(* has 0 and the successors of its elements has all numbers.  Stated of a  *)
(* set instead of a predicate, this is a fact of first-order logic, and    *)
(* what recursive functions compute follows from it.                       *)
(***************************************************************************)

\* A set of numbers has a least one.
LEMMA LeastNumber ==
    ASSUME NEW numbers \in SUBSET Nat, numbers # {}
    PROVE  \E x \in numbers : \A y \in numbers : x <= y
<1>1. PICK x \in numbers : \A y \in numbers : ~(<<y, x>> \in OpToRel(<, Nat))
  BY NatLessThanWellFounded, WFMin
<1>2. \A y \in numbers : ~(y < x)
  BY <1>1 DEF OpToRel
<1>3. QED
  BY <1>2

\* Induction, with a set of numbers for the predicate
LEMMA Induction ==
    ASSUME NEW numbers, 0 \in numbers, \A n \in Nat : n \in numbers => n + 1 \in numbers
    PROVE  \A n \in Nat : n \in numbers
<1> DEFINE others == Nat \ numbers
<1>1. SUFFICES ASSUME others # {} PROVE FALSE
  OBVIOUS
<1>2. PICK x \in others : \A y \in others : x <= y
  BY <1>1, LeastNumber
<1>3. x # 0 /\ x - 1 \in Nat /\ x - 1 \notin others
  BY <1>2
<1>4. QED
  BY <1>3, <1>2

-----------------------------------------------------------------------------
(***************************************************************************)
(* Memory                                                                  *)
(*                                                                         *)
(* The bytes that all tasks hold of a budget are a sum over a finite set;  *)
(* TotalChanges says what a change of one task does to it.  A step moves   *)
(* one task to another place with other reservations (Moves), and its      *)
(* ticket along (Queues); what a task in a place may have (Reserves) makes *)
(* sure that an admission finds nothing reserved that it would overwrite.  *)
(***************************************************************************)

Some(s) == CHOOSE t \in s : TRUE
SumAt(f, b, g, s) == IF s = {} THEN 0 ELSE f[Some(s)][b] + g[s \ {Some(s)}]
Sums(f, b, g) == g = [s \in SUBSET Tasks |-> SumAt(f, b, g, s)]
Reservations == [Tasks -> [Memory!Budgets -> Nat]]
TotalOf(f, b) == Memory!MapThenSumSet(LAMBDA t : f[t][b], Tasks)

\* A set of tasks is smaller without one of them.
LEMMA Smaller ==
    ASSUME NEW s \in SUBSET Tasks
    PROVE  /\ Cardinality(s) \in Nat
           /\ s = {} <=> Cardinality(s) = 0
           /\ s # {} => /\ Some(s) \in s /\ Some(s) \in Tasks
                        /\ s \ {Some(s)} \in SUBSET Tasks
                        /\ Cardinality(s \ {Some(s)}) = Cardinality(s) - 1
<1>1. IsFiniteSet(s)
  BY TasksAssumption, FS_Subset
<1>2. Cardinality(s) \in Nat /\ (s = {} <=> Cardinality(s) = 0)
  BY <1>1, FS_CardinalityType, FS_EmptySet
<1>3. ASSUME s # {} PROVE Some(s) \in s
  BY <1>3 DEF Some
<1>4. ASSUME s # {} PROVE Cardinality(s \ {Some(s)}) = Cardinality(s) - 1
  BY <1>1, <1>3, <1>4, FS_RemoveElement
<1>5. QED
  BY <1>2, <1>3, <1>4

\* The recursion that MapThenSumSet is defined by has a solution.
LEMMA SumsExist ==
    ASSUME NEW f \in Reservations, NEW b \in Memory!Budgets
    PROVE  \E g : Sums(f, b, g)
<1> DEFINE Until(n, g) == \A s \in SUBSET Tasks : Cardinality(s) <= n => g[s] = SumAt(f, b, g, s)
           numbers == {n \in Nat : \E g \in [SUBSET Tasks -> Nat] : Until(n, g)}
<1>1. 0 \in numbers
  <2> DEFINE g == [s \in SUBSET Tasks |-> 0]
  <2>1. ASSUME NEW s \in SUBSET Tasks, Cardinality(s) <= 0 PROVE g[s] = SumAt(f, b, g, s)
    <3>1. Cardinality(s) \in Nat
      BY Smaller
    <3>2. Cardinality(s) = 0
      BY <2>1, <3>1
    <3>3. s = {}
      BY <3>2, Smaller
    <3>4. QED
      BY <3>3 DEF SumAt
  <2>2. QED
    BY <2>1
<1>2. ASSUME NEW n \in Nat, n \in numbers PROVE n + 1 \in numbers
  <2>1. PICK g \in [SUBSET Tasks -> Nat] : Until(n, g)
    BY <1>2
  <2> DEFINE h == [s \in SUBSET Tasks |-> IF Cardinality(s) = n + 1 THEN SumAt(f, b, g, s) ELSE g[s]]
  <2>2. h \in [SUBSET Tasks -> Nat]
    BY Smaller DEF SumAt, Reservations
  <2>3. ASSUME NEW s \in SUBSET Tasks, Cardinality(s) <= n + 1 PROVE h[s] = SumAt(f, b, h, s)
    <3>1. s # {} => h[s \ {Some(s)}] = g[s \ {Some(s)}]
      BY <2>3, Smaller
    <3>2. SumAt(f, b, h, s) = SumAt(f, b, g, s)
      BY <3>1 DEF SumAt
    <3>3. h[s] = SumAt(f, b, g, s)
      <4> DEFINE k == Cardinality(s)
      <4>0. k \in Nat
        BY Smaller
      <4>1. k # n + 1 => k <= n
        <5>1. k <= n + 1
          BY <2>3
        <5> HIDE DEF k
        <5>2. QED
          BY <5>1, <4>0
      <4>2. h[s] = IF Cardinality(s) = n + 1 THEN SumAt(f, b, g, s) ELSE g[s]
        OBVIOUS
      <4>3. Cardinality(s) # n + 1 => g[s] = SumAt(f, b, g, s)
        BY <2>1, <4>1
      <4>4. QED
        BY <4>2, <4>3
    <3>4. QED
      BY <3>2, <3>3
  <2> HIDE DEF h
  <2>4. Until(n + 1, h)
    BY <2>3
  <2>5. QED
    BY <2>2, <2>4
<1>3. \A n \in Nat : n \in numbers
  <2> HIDE DEF numbers
  <2>1. QED
    BY <1>1, <1>2, Induction
<1>4. Cardinality(Tasks) \in Nat
  BY Smaller
<1>5. PICK g \in [SUBSET Tasks -> Nat] : Until(Cardinality(Tasks), g)
  BY <1>3, <1>4
<1>6. ASSUME NEW s \in SUBSET Tasks PROVE g[s] = SumAt(f, b, g, s)
  BY <1>5, TasksAssumption, FS_Subset
<1>7. Sums(f, b, g)
  BY <1>6 DEF Sums
<1>8. QED
  BY <1>7

\* TotalOf is the value of a solution.
LEMMA TotalIs ==
    ASSUME NEW f \in Reservations, NEW b \in Memory!Budgets
    PROVE  \E g : Sums(f, b, g) /\ TotalOf(f, b) = g[Tasks]
<1> DEFINE g == CHOOSE g : g = [s \in SUBSET Tasks |->
                   IF s = {} THEN 0 ELSE f[CHOOSE t \in s : TRUE][b] + g[s \ {CHOOSE t \in s : TRUE}]]
<1>1. TotalOf(f, b) = g[Tasks]
  BY DEF TotalOf, Memory!MapThenSumSet, Memory!MapThenFoldSet
<1>2. \E h : h = [s \in SUBSET Tasks |->
                   IF s = {} THEN 0 ELSE f[CHOOSE t \in s : TRUE][b] + h[s \ {CHOOSE t \in s : TRUE}]]
  BY SumsExist DEF Sums, SumAt, Some
<1>3. g = [s \in SUBSET Tasks |->
             IF s = {} THEN 0 ELSE f[CHOOSE t \in s : TRUE][b] + g[s \ {CHOOSE t \in s : TRUE}]]
  BY <1>2
<1> HIDE DEF g
<1>4. Sums(f, b, g)
  BY <1>3 DEF Sums, SumAt, Some
<1>5. QED
  BY <1>1, <1>4

\* What one task reserves more, the total is more.
LEMMA TotalChanges ==
    ASSUME NEW f \in Reservations, NEW h \in Reservations, NEW b \in Memory!Budgets, NEW t \in Tasks,
           \A u \in Tasks \ {t} : h[u][b] = f[u][b]
    PROVE  TotalOf(f, b) \in Nat /\ TotalOf(h, b) \in Nat
           /\ TotalOf(h, b) - h[t][b] = TotalOf(f, b) - f[t][b]
           /\ f[t][b] <= TotalOf(f, b)
<1>1. PICK p : Sums(f, b, p) /\ TotalOf(f, b) = p[Tasks]
  BY TotalIs
<1>2. PICK q : Sums(h, b, q) /\ TotalOf(h, b) = q[Tasks]
  BY TotalIs
<1> DEFINE Good(s) == /\ p[s] \in Nat /\ q[s] \in Nat
                      /\ t \notin s => q[s] = p[s]
                      /\ t \in s => q[s] - h[t][b] = p[s] - f[t][b] /\ f[t][b] <= p[s]
           numbers == {n \in Nat : \A s \in SUBSET Tasks : Cardinality(s) = n => Good(s)}
<1>3. \A s \in SUBSET Tasks : p[s] = SumAt(f, b, p, s) /\ q[s] = SumAt(h, b, q, s)
  BY <1>1, <1>2 DEF Sums
<1>4. 0 \in numbers
  BY <1>3, Smaller DEF SumAt
<1>5. ASSUME NEW n \in Nat, n \in numbers PROVE n + 1 \in numbers
  <2>1. ASSUME NEW s \in SUBSET Tasks, Cardinality(s) = n + 1 PROVE Good(s)
    <3> DEFINE u == Some(s)
               r == s \ {u}
    <3>1. s # {} /\ u \in s /\ u \in Tasks /\ r \in SUBSET Tasks /\ Cardinality(r) = n
      BY <2>1, Smaller
    <3>2. Good(r)
      BY <1>5, <3>1
    <3>3. p[s] = f[u][b] + p[r] /\ q[s] = h[u][b] + q[r]
      BY <1>3, <3>1 DEF SumAt
    <3>4. f[u][b] \in Nat /\ h[u][b] \in Nat /\ f[t][b] \in Nat /\ h[t][b] \in Nat
      BY <3>1 DEF Reservations
    <3>5. t \in r <=> t \in s /\ t # u
      OBVIOUS
    <3> HIDE DEF u, r
    <3>6. CASE u = t
      BY <3>2, <3>3, <3>4, <3>5, <3>6, <3>1
    <3>7. CASE u # t
      <4>1. h[u][b] = f[u][b]
        BY <3>1, <3>7
      <4>2. QED
        BY <3>2, <3>3, <3>4, <3>5, <3>7, <4>1
    <3>8. QED
      BY <3>6, <3>7
  <2>2. QED
    BY <2>1
<1>6. \A n \in Nat : n \in numbers
  <2> HIDE DEF numbers
  <2>1. QED
    BY <1>4, <1>5, Induction
<1>7. Cardinality(Tasks) \in Nat
  BY Smaller
<1>8. Good(Tasks)
  BY <1>6, <1>7
<1>9. QED
  BY <1>1, <1>2, <1>8

\* Nothing reserved, no total
LEMMA NoTotal ==
    ASSUME NEW f \in Reservations, NEW b \in Memory!Budgets, \A t \in Tasks : f[t][b] = 0
    PROVE  TotalOf(f, b) = 0
<1>1. PICK p : Sums(f, b, p) /\ TotalOf(f, b) = p[Tasks]
  BY TotalIs
<1>2. \A s \in SUBSET Tasks : p[s] = SumAt(f, b, p, s)
  BY <1>1 DEF Sums
<1> DEFINE numbers == {n \in Nat : \A s \in SUBSET Tasks : Cardinality(s) = n => p[s] = 0}
<1>3. 0 \in numbers
  BY <1>2, Smaller DEF SumAt
<1>4. ASSUME NEW n \in Nat, n \in numbers PROVE n + 1 \in numbers
  <2>1. ASSUME NEW s \in SUBSET Tasks, Cardinality(s) = n + 1 PROVE p[s] = 0
    <3>1. s # {} /\ Some(s) \in Tasks /\ s \ {Some(s)} \in SUBSET Tasks
          /\ Cardinality(s \ {Some(s)}) = n
      <4>1. Cardinality(s) # 0
        BY <2>1
      <4>2. s # {}
        BY <4>1, Smaller
      <4>3. QED
        BY <4>2, <2>1, Smaller
    <3>2. p[s] = f[Some(s)][b] + p[s \ {Some(s)}]
      BY <1>2, <3>1 DEF SumAt
    <3>3. QED
      BY <3>1, <3>2, <1>4
  <2>2. QED
    BY <2>1
<1>5. \A n \in Nat : n \in numbers
  <2> HIDE DEF numbers
  <2>1. QED
    BY <1>3, <1>4, Induction
<1>6. Cardinality(Tasks) \in Nat
  BY Smaller
<1>7. p[Tasks] = 0
  BY <1>5, <1>6
<1>8. QED
  BY <1>1, <1>7

-----------------------------------------------------------------------------
(* Queues *)

LEMMA AppendTicket ==
    ASSUME NEW q \in Seq(Tasks), NEW t \in Tasks, t \notin Memory!ToSet(q), Memory!IsInjective(q)
    PROVE  /\ Append(q, t) \in Seq(Tasks) /\ Memory!IsInjective(Append(q, t))
           /\ Memory!ToSet(Append(q, t)) = Memory!ToSet(q) \union {t}
<1> DEFINE n == Len(q)
           r == Append(q, t)
<1>1. n \in Nat /\ r \in Seq(Tasks) /\ DOMAIN r = 1..(n + 1) /\ DOMAIN q = 1..n
  OBVIOUS
<1>2. r[n + 1] = t /\ \A i \in 1..n : r[i] = q[i]
  OBVIOUS
<1> HIDE DEF r, n
<1>3. \A i \in 1..n : q[i] # t
  BY <1>1 DEF Memory!ToSet
<1>4. Memory!IsInjective(r)
  BY <1>1, <1>2, <1>3 DEF Memory!IsInjective
<1>5. Memory!ToSet(r) = Memory!ToSet(q) \union {t}
  BY <1>1, <1>2 DEF Memory!ToSet
<1>6. QED
  BY <1>1, <1>4, <1>5 DEF r

LEMMA RemoveTicket ==
    ASSUME NEW q \in Seq(Tasks), NEW k \in DOMAIN q, Memory!IsInjective(q)
    PROVE  /\ Memory!RemoveAt(q, k) \in Seq(Tasks) /\ Memory!IsInjective(Memory!RemoveAt(q, k))
           /\ Memory!ToSet(Memory!RemoveAt(q, k)) = Memory!ToSet(q) \ {q[k]}
<1> DEFINE n == Len(q)
           r == Memory!RemoveAt(q, k)
           a == SubSeq(q, 1, k - 1)
           b == SubSeq(q, k + 1, n)
<1>1. n \in Nat /\ DOMAIN q = 1..n /\ k \in 1..n /\ \A i \in 1..n : q[i] \in Tasks
  BY LenProperties
<1>2. a \in Seq(Tasks) /\ Len(a) = k - 1 /\ \A i \in 1..(k - 1) : a[i] = q[i]
  BY <1>1, SubSeqProperties
<1>3. b \in Seq(Tasks) /\ Len(b) = n - k /\ \A i \in 1..(n - k) : b[i] = q[k + i]
  BY <1>1, SubSeqProperties
<1>4. r = a \o b
  BY DEF Memory!RemoveAt
<1> HIDE DEF r, n, a, b
<1>5. r \in Seq(Tasks) /\ Len(r) = n - 1
  <2>1. r \in Seq(Tasks) /\ Len(r) = Len(a) + Len(b)
    BY <1>2, <1>3, <1>4, ConcatProperties
  <2>2. Len(r) = (k - 1) + (n - k)
    BY <2>1, <1>2, <1>3
  <2>3. QED
    BY <2>1, <2>2, <1>1
<1>6. \A i \in 1..(n - 1) : r[i] = IF i < k THEN q[i] ELSE q[i + 1]
  <2>1. \A i \in 1..Len(a) + Len(b) : r[i] = IF i <= Len(a) THEN a[i] ELSE b[i - Len(a)]
    BY <1>2, <1>3, <1>4, ConcatProperties
  <2>2. Len(a) + Len(b) = n - 1
    BY <1>1, <1>2, <1>3
  <2>3. ASSUME NEW i \in 1..(n - 1) PROVE r[i] = IF i < k THEN q[i] ELSE q[i + 1]
    <3>1. r[i] = IF i <= k - 1 THEN a[i] ELSE b[i - (k - 1)]
      BY <2>1, <2>2, <1>2
    <3>2. CASE i < k
      BY <3>1, <3>2, <1>1, <1>2
    <3>3. CASE ~(i < k)
      <4>1. i - (k - 1) \in 1..(n - k) /\ k + (i - (k - 1)) = i + 1 /\ ~(i <= k - 1)
        BY <3>3, <1>1
      <4>2. b[i - (k - 1)] = q[k + (i - (k - 1))]
        BY <4>1, <1>3
      <4>3. QED
        BY <3>1, <3>3, <4>1, <4>2
    <3>4. QED
      BY <3>2, <3>3
  <2>4. QED
    BY <2>3
<1>7. DOMAIN r = 1..(n - 1)
  BY <1>5, LenProperties
<1>8. Memory!IsInjective(r)
  <2>1. \A i, m \in 1..n : q[i] = q[m] => i = m
    BY <1>1 DEF Memory!IsInjective
  <2>2. ASSUME NEW i \in 1..(n - 1), NEW m \in 1..(n - 1), r[i] = r[m] PROVE i = m
    <3>1. /\ i \in 1..n /\ m \in 1..n /\ i + 1 \in 1..n /\ m + 1 \in 1..n
      BY <1>1
    <3>2. QED
      BY <2>1, <2>2, <3>1, <1>1, <1>6
  <2>3. QED
    BY <2>2, <1>7 DEF Memory!IsInjective
<1>9. Memory!ToSet(r) = Memory!ToSet(q) \ {q[k]}
  <2>1. ASSUME NEW i \in 1..(n - 1) PROVE r[i] \in Memory!ToSet(q) \ {q[k]}
    <3>1. PICK m \in 1..n : r[i] = q[m] /\ m # k
      BY <1>1, <1>6
    <3>2. q[m] # q[k] /\ q[m] \in Memory!ToSet(q)
      BY <1>1, <3>1 DEF Memory!ToSet, Memory!IsInjective
    <3>3. QED
      BY <3>1, <3>2
  <2>2. ASSUME NEW i \in 1..n, i # k PROVE \E m \in 1..(n - 1) : r[m] = q[i]
    <3>1. CASE i < k
      BY <3>1, <1>1, <1>6
    <3>2. CASE i > k
      <4>1. i - 1 \in 1..(n - 1) /\ r[i - 1] = q[i]
        BY <3>2, <1>1, <1>6
      <4>2. QED
        BY <4>1
    <3>3. QED
      BY <2>2, <3>1, <3>2, <1>1
  <2>3. QED
    <3>1. Memory!ToSet(r) = {r[i] : i \in 1..(n - 1)} /\ Memory!ToSet(q) = {q[i] : i \in 1..n}
      BY <1>1, <1>7 DEF Memory!ToSet
    <3>2. Memory!ToSet(r) \subseteq Memory!ToSet(q) \ {q[k]}
      BY <2>1, <3>1
    <3>3. Memory!ToSet(q) \ {q[k]} \subseteq Memory!ToSet(r)
      BY <2>2, <3>1
    <3>4. QED
      BY <3>2, <3>3
<1>10. QED
  BY <1>5, <1>8, <1>9 DEF r

LEMMA TailTicket ==
    ASSUME NEW q \in Seq(Tasks), q # <<>>, Memory!IsInjective(q)
    PROVE  /\ Tail(q) \in Seq(Tasks) /\ Memory!IsInjective(Tail(q))
           /\ Memory!ToSet(Tail(q)) = Memory!ToSet(q) \ {Head(q)}
<1> DEFINE n == Len(q)
           r == Tail(q)
<1>1. n \in Nat /\ n > 0 /\ DOMAIN q = 1..n /\ Head(q) = q[1]
  BY LenProperties, EmptySeq
<1>2. r \in Seq(Tasks) /\ DOMAIN r = 1..(n - 1) /\ \A i \in 1..(n - 1) : r[i] = q[i + 1]
  BY <1>1
<1> HIDE DEF r, n
<1>3. Memory!IsInjective(r)
  BY SMTT(20), <1>1, <1>2 DEF Memory!IsInjective
<1>4. Memory!ToSet(r) = Memory!ToSet(q) \ {q[1]}
  <2>1. ASSUME NEW i \in 1..(n - 1) PROVE r[i] \in Memory!ToSet(q) \ {q[1]}
    <3>1. i + 1 \in 1..n /\ 1 \in 1..n /\ i + 1 # 1
      BY <1>1
    <3>2. r[i] = q[i + 1] /\ q[i + 1] # q[1]
      BY <3>1, <1>1, <1>2 DEF Memory!IsInjective
    <3>3. q[i + 1] \in Memory!ToSet(q)
      BY <3>1, <1>1 DEF Memory!ToSet
    <3>4. QED
      BY <3>2, <3>3
  <2>2. ASSUME NEW i \in 1..n, i # 1 PROVE i - 1 \in 1..(n - 1) /\ r[i - 1] = q[i]
    BY <2>2, <1>1, <1>2
  <2>3. QED
    <3>1. Memory!ToSet(r) = {r[i] : i \in 1..(n - 1)} /\ Memory!ToSet(q) = {q[i] : i \in 1..n}
      BY <1>1, <1>2 DEF Memory!ToSet
    <3>2. Memory!ToSet(r) \subseteq Memory!ToSet(q) \ {q[1]}
      BY <2>1, <3>1
    <3>3. Memory!ToSet(q) \ {q[1]} \subseteq Memory!ToSet(r)
      BY <2>2, <3>1
    <3>4. QED
      BY <3>2, <3>3
<1>5. QED
  BY <1>1, <1>2, <1>3, <1>4 DEF r

-----------------------------------------------------------------------------
(* The invariant *)

Places == Memory!Asking \union {"idle", "parse", "install", "file", "read", "render"}

\* What a task in a place has reserved: a worker while it parses, nothing while
\* it waits for its first reservation, and no working space while it has a
\* source only.
Reserves(place, bytes, worker) ==
  /\ place \in {"idle", "batch?", "file?", "source?"} => bytes = Memory!Idle /\ worker = FALSE
  /\ place \in {"read", "render?"} => bytes["parsing"] = 0 /\ worker = FALSE
  /\ place \in {"parse", "file", "render"} => worker = TRUE
  /\ place = "install" => worker = FALSE

MemoryRanges ==
  /\ available \in [Memory!Budgets -> Nat] /\ workers \in Nat
  /\ waiting \in [Memory!Budgets -> Seq(Tasks)] /\ memoryAt \in [Tasks -> Places]
  /\ want \in [Tasks -> Nat] /\ held \in Reservations
  /\ working \in [Tasks -> BOOLEAN] /\ cancelled \subseteq Tasks

ParserTasks == {t \in Tasks : working[t]}
Counted ==
  /\ \A b \in Memory!Budgets : available[b] + TotalOf(held, b) = Capacity[b]
  /\ workers + Cardinality(ParserTasks) = Workers

MemoryInv ==
  /\ MemoryRanges /\ Counted /\ Memory!Ticketed
  /\ \A t \in Tasks : Reserves(memoryAt[t], held[t], working[t])

\* A task goes to another place with other reservations.
Moves(t, place, bytes, worker) ==
  /\ place \in Places /\ bytes \in [Memory!Budgets -> Nat] /\ worker \in BOOLEAN
  /\ Reserves(place, bytes, worker)
  /\ memoryAt' = [memoryAt EXCEPT ![t] = place]
  /\ held' \in Reservations /\ held'[t] = bytes /\ \A u \in Tasks \ {t} : held'[u] = held[u]
  /\ working' \in [Tasks -> BOOLEAN] /\ working'[t] = worker
  /\ \A u \in Tasks \ {t} : working'[u] = working[u]
  /\ available' \in [Memory!Budgets -> Nat]
  /\ \A b \in Memory!Budgets : available'[b] + bytes[b] = available[b] + held[t][b]
  /\ workers' \in Nat
  /\ workers' + (IF worker THEN 1 ELSE 0) = workers + (IF working[t] THEN 1 ELSE 0)
  /\ want' \in [Tasks -> Nat] /\ cancelled' \subseteq Tasks

\* Its ticket goes along.
Queues(t, place) ==
  /\ waiting' \in [Memory!Budgets -> Seq(Tasks)]
  /\ \A b \in Memory!Budgets :
       /\ Memory!IsInjective(waiting'[b])
       /\ Memory!ToSet(waiting'[b]) = (Memory!ToSet(waiting[b]) \ {t})
                               \union {u \in {t} : place \in Memory!Asking /\ Memory!BudgetOf(place) = b}

LEMMA WorkersCounted ==
    ASSUME MemoryRanges, NEW t \in Tasks, working' \in [Tasks -> BOOLEAN],
           \A u \in Tasks \ {t} : working'[u] = working[u]
    PROVE  /\ Cardinality(ParserTasks) \in Nat /\ Cardinality(ParserTasks') \in Nat
           /\ Cardinality(ParserTasks') - (IF working'[t] THEN 1 ELSE 0)
                = Cardinality(ParserTasks) - (IF working[t] THEN 1 ELSE 0)
<1>1. IsFiniteSet(ParserTasks) /\ IsFiniteSet(ParserTasks')
  BY TasksAssumption, FS_Subset DEF ParserTasks
<1>2. Cardinality(ParserTasks) \in Nat /\ Cardinality(ParserTasks') \in Nat
  BY <1>1, FS_CardinalityType
<1>3. ParserTasks' \ {t} = ParserTasks \ {t} /\ (t \in ParserTasks <=> working[t]) /\ (t \in ParserTasks' <=> working'[t])
  BY DEF ParserTasks
<1>4. Cardinality(ParserTasks \ {t}) = Cardinality(ParserTasks) - (IF working[t] THEN 1 ELSE 0)
  <2>1. CASE t \in ParserTasks
    BY <2>1, <1>1, <1>3, FS_RemoveElement
  <2>2. CASE t \notin ParserTasks
    <3>1. ParserTasks \ {t} = ParserTasks
      BY <2>2
    <3>2. (IF working[t] THEN 1 ELSE 0) = 0
      BY <2>2, <1>3
    <3>3. Cardinality(ParserTasks) - 0 = Cardinality(ParserTasks)
      BY <1>2
    <3>4. QED
      BY <3>1, <3>2, <3>3
  <2>3. QED
    BY <2>1, <2>2
<1>5. Cardinality(ParserTasks' \ {t}) = Cardinality(ParserTasks') - (IF working'[t] THEN 1 ELSE 0)
  <2>1. CASE t \in ParserTasks'
    BY <2>1, <1>1, <1>3, FS_RemoveElement
  <2>2. CASE t \notin ParserTasks'
    <3>1. ParserTasks' \ {t} = ParserTasks'
      BY <2>2
    <3>2. (IF working'[t] THEN 1 ELSE 0) = 0
      BY <2>2, <1>3
    <3>3. Cardinality(ParserTasks') - 0 = Cardinality(ParserTasks')
      BY <1>2
    <3>4. QED
      BY <3>1, <3>2, <3>3
  <2>3. QED
    BY <2>1, <2>2
<1>6. QED
  BY <1>2, <1>3, <1>4, <1>5

LEMMA MovesKeep ==
    ASSUME MemoryInv, NEW t \in Tasks, NEW place, NEW bytes, NEW worker,
           Moves(t, place, bytes, worker), Queues(t, place)
    PROVE  MemoryInv'
<1>1. memoryAt' = [memoryAt EXCEPT ![t] = place] /\ place \in Places
      /\ memoryAt' \in [Tasks -> Places]
  BY DEF Moves, MemoryInv, MemoryRanges
<1>2. MemoryRanges'
  BY <1>1 DEF Moves, Queues, MemoryInv, MemoryRanges
<1>3. \A b \in Memory!Budgets : available'[b] + TotalOf(held', b) = Capacity[b]
  <2>1. TAKE b \in Memory!Budgets
  <2>2. TotalOf(held, b) \in Nat /\ TotalOf(held', b) \in Nat
        /\ TotalOf(held', b) - held'[t][b] = TotalOf(held, b) - held[t][b]
    <3>1. \A f, h \in Reservations :
            (\A u \in Tasks \ {t} : h[u][b] = f[u][b]) =>
              /\ TotalOf(f, b) \in Nat /\ TotalOf(h, b) \in Nat
              /\ TotalOf(h, b) - h[t][b] = TotalOf(f, b) - f[t][b]
      BY TotalChanges
    <3>2. held \in Reservations /\ held' \in Reservations /\ \A u \in Tasks \ {t} : held'[u][b] = held[u][b]
      BY DEF Moves, MemoryInv, MemoryRanges
    <3>3. QED
      BY <3>1, <3>2
  <2>3. held[t][b] \in Nat /\ held'[t][b] \in Nat /\ available[b] \in Nat /\ available'[b] \in Nat
        /\ available'[b] + held'[t][b] = available[b] + held[t][b]
    BY DEF Moves, MemoryInv, MemoryRanges, Reservations
  <2>4. available[b] + TotalOf(held, b) = Capacity[b] /\ Capacity[b] \in Nat
    BY CapacityAssumption DEF MemoryInv, Counted
  <2>5. QED
    BY <2>2, <2>3, <2>4
<1>4. workers' + Cardinality(ParserTasks') = Workers
  <2>1. /\ Cardinality(ParserTasks) \in Nat /\ Cardinality(ParserTasks') \in Nat
        /\ Cardinality(ParserTasks') - (IF working'[t] THEN 1 ELSE 0)
             = Cardinality(ParserTasks) - (IF working[t] THEN 1 ELSE 0)
    BY WorkersCounted DEF Moves, MemoryInv
  <2>2. /\ workers \in Nat /\ workers' \in Nat /\ workers + Cardinality(ParserTasks) = Workers
        /\ workers' + (IF working'[t] THEN 1 ELSE 0) = workers + (IF working[t] THEN 1 ELSE 0)
    BY DEF Moves, MemoryInv, MemoryRanges, Counted
  <2>3. PICK was, is \in Nat : was = Cardinality(ParserTasks) /\ is = Cardinality(ParserTasks')
    BY <2>1
  <2>4. PICK had, has \in Nat :
          had = (IF working[t] THEN 1 ELSE 0) /\ has = (IF working'[t] THEN 1 ELSE 0)
    OBVIOUS
  <2>5. is - has = was - had /\ workers + was = Workers
        /\ workers' + has = workers + had
    BY <2>1, <2>2, <2>3, <2>4
  <2>6. workers' + is = Workers
    <3>1. workers \in Nat /\ workers' \in Nat /\ Workers \in Nat
      BY <2>2, CapacityAssumption
    <3>2. PICK before, after, all \in Nat : before = workers /\ after = workers' /\ all = Workers
      BY <3>1
    <3>3. is - has = was - had /\ before + was = all /\ after + has = before + had
      BY <2>5, <3>2
    <3>4. after + is = all
      BY <3>3
    <3>5. QED
      BY <3>2, <3>4
  <2>7. QED
    BY <2>3, <2>6
<1>5. Memory!Ticketed'
  <2>1. SUFFICES ASSUME NEW b \in Memory!Budgets
                 PROVE  Memory!ToSet(waiting'[b]) = {u \in Tasks : memoryAt'[u] \in Memory!Asking /\ Memory!BudgetOf(memoryAt'[u]) = b}
    BY DEF Memory!Ticketed, Queues, Memory!BudgetOf
  <2>2. Memory!ToSet(waiting[b]) = {u \in Tasks : memoryAt[u] \in Memory!Asking /\ Memory!BudgetOf(memoryAt[u]) = b}
    BY DEF MemoryInv, Memory!Ticketed
  <2>3. \A u \in Tasks : memoryAt'[u] = IF u = t THEN place ELSE memoryAt[u]
    BY <1>1 DEF MemoryInv, MemoryRanges
  <2>4. QED
    BY <2>2, <2>3 DEF Queues
<1>6. \A u \in Tasks : Reserves(memoryAt[u], held[u], working[u])'
  <2>1. TAKE u \in Tasks
  <2>2. CASE u = t
    BY <2>2, <1>1 DEF Moves, MemoryInv, MemoryRanges
  <2>3. CASE u # t
    <3>1. memoryAt'[u] = memoryAt[u] /\ held'[u] = held[u] /\ working'[u] = working[u]
      BY <2>3, <1>1 DEF Moves, MemoryInv, MemoryRanges
    <3>2. Reserves(memoryAt[u], held[u], working[u])
      BY DEF MemoryInv
    <3>3. QED
      BY <3>1, <3>2
  <2>4. QED
    BY <2>2, <2>3
<1>7. QED
  BY <1>2, <1>3, <1>4, <1>5, <1>6 DEF MemoryInv, Counted

\* Where the tickets of a task are
LEMMA TicketIn ==
    ASSUME MemoryInv, NEW t \in Tasks, NEW b \in Memory!Budgets
    PROVE  /\ t \in Memory!ToSet(waiting[b]) <=> (memoryAt[t] \in Memory!Asking /\ Memory!BudgetOf(memoryAt[t]) = b)
           /\ waiting[b] \in Seq(Tasks) /\ Memory!IsInjective(waiting[b])
  BY DEF MemoryInv, Memory!Ticketed, MemoryRanges

LEMMA BudgetOfIs == \A place : Memory!BudgetOf(place) \in Memory!Budgets
  BY DEF Memory!BudgetOf, Memory!Budgets

LEMMA StaysOut ==
    ASSUME MemoryInv, NEW t \in Tasks, NEW place, UNCHANGED waiting,
           memoryAt[t] \notin Memory!Asking, place \notin Memory!Asking
    PROVE  Queues(t, place)
<1>1. waiting' \in [Memory!Budgets -> Seq(Tasks)]
  BY DEF MemoryInv, MemoryRanges
<1>2. QED
  BY <1>1, TicketIn DEF Queues

LEMMA Enqueues ==
    ASSUME MemoryInv, NEW t \in Tasks, NEW place, memoryAt[t] \notin Memory!Asking, place \in Memory!Asking,
           waiting' = [waiting EXCEPT ![Memory!BudgetOf(place)] = Append(@, t)]
    PROVE  Queues(t, place)
<1> DEFINE c == Memory!BudgetOf(place)
<1>1. c \in Memory!Budgets /\ waiting \in [Memory!Budgets -> Seq(Tasks)]
  BY BudgetOfIs DEF MemoryInv, MemoryRanges
<1>2. /\ Append(waiting[c], t) \in Seq(Tasks) /\ Memory!IsInjective(Append(waiting[c], t))
      /\ Memory!ToSet(Append(waiting[c], t)) = Memory!ToSet(waiting[c]) \union {t}
  BY <1>1, TicketIn, AppendTicket
<1> HIDE DEF c
<1>3. \A b \in Memory!Budgets : waiting'[b] = IF b = c THEN Append(waiting[c], t) ELSE waiting[b]
  BY <1>1 DEF c
<1>4. waiting' \in [Memory!Budgets -> Seq(Tasks)]
  BY <1>1, <1>2 DEF c
<1>5. ASSUME NEW b \in Memory!Budgets
      PROVE  /\ Memory!IsInjective(waiting'[b])
             /\ Memory!ToSet(waiting'[b]) = (Memory!ToSet(waiting[b]) \ {t})
                                     \union {u \in {t} : place \in Memory!Asking /\ Memory!BudgetOf(place) = b}
  <2>1. t \notin Memory!ToSet(waiting[b]) /\ Memory!IsInjective(waiting[b])
    BY TicketIn
  <2>2. {u \in {t} : place \in Memory!Asking /\ Memory!BudgetOf(place) = b} = IF b = c THEN {t} ELSE {}
    BY DEF c
  <2>3. CASE b = c
    BY <2>1, <2>2, <2>3, <1>2, <1>3
  <2>4. CASE b # c
    BY <2>1, <2>2, <2>4, <1>3
  <2>5. QED
    BY <2>3, <2>4
<1>6. QED
  BY <1>4, <1>5 DEF Queues

LEMMA Dequeues ==
    ASSUME MemoryInv, NEW t \in Tasks, NEW place, NEW q, memoryAt[t] \in Memory!Asking, place \notin Memory!Asking,
           q \in Seq(Tasks), Memory!IsInjective(q), Memory!ToSet(q) = Memory!ToSet(waiting[Memory!BudgetOf(memoryAt[t])]) \ {t},
           waiting' = [waiting EXCEPT ![Memory!BudgetOf(memoryAt[t])] = q]
    PROVE  Queues(t, place)
<1> DEFINE c == Memory!BudgetOf(memoryAt[t])
<1>1. c \in Memory!Budgets /\ waiting \in [Memory!Budgets -> Seq(Tasks)]
  BY BudgetOfIs DEF MemoryInv, MemoryRanges
<1>2. Memory!ToSet(q) = Memory!ToSet(waiting[c]) \ {t}
  OBVIOUS
<1> HIDE DEF c
<1>3. \A b \in Memory!Budgets : waiting'[b] = IF b = c THEN q ELSE waiting[b]
  BY <1>1 DEF c
<1>4. waiting' \in [Memory!Budgets -> Seq(Tasks)]
  BY <1>1 DEF c
<1>5. ASSUME NEW b \in Memory!Budgets
      PROVE  /\ Memory!IsInjective(waiting'[b])
             /\ Memory!ToSet(waiting'[b]) = (Memory!ToSet(waiting[b]) \ {t})
                                     \union {u \in {t} : place \in Memory!Asking /\ Memory!BudgetOf(place) = b}
  <2>1. Memory!IsInjective(waiting[b]) /\ (b # c => t \notin Memory!ToSet(waiting[b]))
    BY TicketIn DEF c
  <2>2. CASE b = c
    BY <2>2, <1>2, <1>3
  <2>3. CASE b # c
    BY <2>1, <2>3, <1>3
  <2>4. QED
    BY <2>2, <2>3
<1>6. QED
  BY <1>4, <1>5 DEF Queues

-----------------------------------------------------------------------------
(* The steps *)

LEMMA ReturnsAll ==
    ASSUME MemoryInv, NEW t \in Tasks, NEW place \in Places, Memory!Returned(t),
           memoryAt' = [memoryAt EXCEPT ![t] = place],
           place \in {"idle", "batch?", "file?", "source?"},
           want' \in [Tasks -> Nat], cancelled' \subseteq Tasks
    PROVE  Moves(t, place, Memory!Idle, FALSE)
<1>1. /\ available \in [Memory!Budgets -> Nat] /\ workers \in Nat
      /\ held \in [Tasks -> [Memory!Budgets -> Nat]] /\ working \in [Tasks -> BOOLEAN]
  BY DEF MemoryInv, MemoryRanges, Reservations
<1>2. Memory!Idle \in [Memory!Budgets -> Nat] /\ \A b \in Memory!Budgets : Memory!Idle[b] = 0
  BY DEF Memory!Idle
<1>3. held' \in Reservations /\ held'[t] = Memory!Idle /\ \A u \in Tasks \ {t} : held'[u] = held[u]
  BY <1>1, <1>2 DEF Memory!Returned, Reservations
<1>4. /\ working' \in [Tasks -> BOOLEAN] /\ working'[t] = FALSE
      /\ \A u \in Tasks \ {t} : working'[u] = working[u]
  BY <1>1 DEF Memory!Returned
<1>5. available' \in [Memory!Budgets -> Nat] /\ \A b \in Memory!Budgets : available'[b] = available[b] + held[t][b]
  BY <1>1 DEF Memory!Returned
<1>6. workers' \in Nat /\ workers' = workers + (IF working[t] THEN 1 ELSE 0)
  BY <1>1 DEF Memory!Returned
<1>7. Reserves(place, Memory!Idle, FALSE)
  BY <1>2 DEF Reserves, Memory!Budgets
<1>8. \A b \in Memory!Budgets : available'[b] + Memory!Idle[b] = available[b] + held[t][b]
  BY <1>1, <1>2, <1>5
<1>9. workers' + (IF FALSE THEN 1 ELSE 0) = workers + (IF working[t] THEN 1 ELSE 0)
  BY <1>6
<1> HIDE DEF Memory!Idle, Reserves
<1>10. QED
  BY <1>2, <1>3, <1>4, <1>5, <1>6, <1>7, <1>8, <1>9 DEF Moves

\* Steps that leave the reservations alone
LEMMA KeepsAll ==
    ASSUME MemoryInv, NEW t \in Tasks, NEW place \in Places, UNCHANGED <<available,
                                                                         workers,
                                                                         held,
                                                                         working>>,
           memoryAt' = [memoryAt EXCEPT ![t] = place], Reserves(place, held[t], working[t]),
           want' \in [Tasks -> Nat], cancelled' \subseteq Tasks
    PROVE  Moves(t, place, held[t], working[t])
  BY DEF MemoryInv, MemoryRanges, Reservations, Moves

LEMMA ClampedIs ==
    ASSUME NEW place, NEW n \in Nat
    PROVE  Memory!Clamped(Memory!BudgetOf(place), n) \in Nat
<1>1. Capacity[Memory!BudgetOf(place)] \in Nat
  BY CapacityAssumption, BudgetOfIs
<1>2. \A x, y \in Nat : Memory!Max({x, y}) \in Nat /\ Memory!Min({x, y}) \in Nat
  <2>1. TAKE x, y \in Nat
  <2>2. \E z \in {x, y} : \A w \in {x, y} : z >= w
    OBVIOUS
  <2>3. \E z \in {x, y} : \A w \in {x, y} : z <= w
    OBVIOUS
  <2>4. Memory!Max({x, y}) \in {x, y} /\ Memory!Min({x, y}) \in {x, y}
    BY <2>2, <2>3 DEF Memory!Max, Memory!Min
  <2>5. QED
    BY <2>4
<1>3. QED
  BY <1>1, <1>2 DEF Memory!Clamped

LEMMA AskStep ==
    ASSUME MemoryInv, NEW t \in Tasks, NEW place \in Memory!Asking, NEW n \in 0..MaxBytes, Memory!Ask(t, place, n)
    PROVE  memoryAt' = [memoryAt EXCEPT ![t] = place] /\ want' \in [Tasks -> Nat]
           /\ (memoryAt[t] \notin Memory!Asking => Queues(t, place))
<1>1. n \in Nat /\ want \in [Tasks -> Nat]
  BY DEF MemoryInv, MemoryRanges
<1>2. want' \in [Tasks -> Nat]
  BY <1>1, ClampedIs DEF Memory!Ask
<1>3. QED
  BY <1>2, Enqueues DEF Memory!Ask

LEMMA NotAsking ==
    /\ Memory!Asking = {"batch?", "file?", "source?", "render?"}
    /\ Memory!Budgets = {"parsing", "sources"}
    /\ Memory!BudgetOf("source?") = "sources"
    /\ \A place \in {"batch?", "file?", "render?"} : Memory!BudgetOf(place) = "parsing"
  BY DEF Memory!Asking, Memory!Budgets, Memory!BudgetOf

LEMMA BeginStep == ASSUME MemoryInv, NEW t \in Tasks, Memory!Begin(t) PROVE MemoryInv'
<1>1. PICK k \in Kinds, n \in 0..MaxBytes :
        Memory!Ask(t, CASE k = "batch" -> "batch?" [] k = "file" -> "file?" [] k = "view" -> "source?", n)
  BY DEF Memory!Begin
<1>2. PICK place \in {"batch?", "file?", "source?"} : Memory!Ask(t, place, n)
  BY <1>1, TasksAssumption
<1>3. memoryAt[t] = "idle" /\ UNCHANGED <<available, workers, held, working, cancelled>>
  BY DEF Memory!Begin
<1>4. memoryAt' = [memoryAt EXCEPT ![t] = place] /\ want' \in [Tasks -> Nat]
      /\ Queues(t, place)
  BY <1>2, <1>3, AskStep, NotAsking
<1>5. Reserves(place, held[t], working[t])
  BY <1>3 DEF MemoryInv, Reserves
<1>6. Moves(t, place, held[t], working[t])
  BY <1>3, <1>4, <1>5, KeepsAll, NotAsking DEF MemoryInv, MemoryRanges, Places
<1>7. QED
  BY <1>4, <1>6, MovesKeep

LEMMA RenderStep == ASSUME MemoryInv, NEW t \in Tasks, Memory!Render(t) PROVE MemoryInv'
<1>1. PICK n \in 0..MaxBytes : Memory!Ask(t, "render?", n)
  BY DEF Memory!Render
<1>2. memoryAt[t] = "read" /\ UNCHANGED <<available, workers, held, working, cancelled>>
  BY DEF Memory!Render
<1>3. memoryAt' = [memoryAt EXCEPT ![t] = "render?"] /\ want' \in [Tasks -> Nat]
      /\ Queues(t, "render?")
  BY <1>1, <1>2, AskStep, NotAsking
<1>4. Reserves("render?", held[t], working[t])
  BY <1>2 DEF MemoryInv, Reserves
<1>5. Moves(t, "render?", held[t], working[t])
  BY <1>2, <1>3, <1>4, KeepsAll, NotAsking DEF MemoryInv, MemoryRanges, Places
<1>6. QED
  BY <1>3, <1>5, MovesKeep

LEMMA RetryStep == ASSUME MemoryInv, NEW t \in Tasks, Memory!Retry(t) PROVE MemoryInv'
<1>1. PICK n \in 0..MaxBytes : Memory!Ask(t, "file?", n)
  BY DEF Memory!Retry
<1>2. memoryAt[t] = "install" /\ Memory!Returned(t) /\ UNCHANGED cancelled
  BY DEF Memory!Retry, Memory!DroppedForRetry
<1>3. memoryAt' = [memoryAt EXCEPT ![t] = "file?"] /\ want' \in [Tasks -> Nat]
      /\ Queues(t, "file?")
  BY <1>1, <1>2, AskStep, NotAsking
<1>4. Moves(t, "file?", Memory!Idle, FALSE)
  BY <1>2, <1>3, ReturnsAll, NotAsking DEF MemoryInv, MemoryRanges, Places
<1>5. QED
  BY <1>3, <1>4, MovesKeep

LEMMA EndStep == ASSUME MemoryInv, NEW t \in Tasks, Memory!End(t) PROVE MemoryInv'
<1>1. Moves(t, "idle", Memory!Idle, FALSE)
  BY ReturnsAll DEF Memory!End, MemoryInv, MemoryRanges, Places
<1>2. Queues(t, "idle")
  BY StaysOut, NotAsking DEF Memory!End
<1>3. QED
  BY <1>1, <1>2, MovesKeep

LEMMA GiveUpStep == ASSUME MemoryInv, NEW t \in Tasks, Memory!GiveUp(t) PROVE MemoryInv'
<1> DEFINE b == Memory!BudgetOf(memoryAt[t])
<1>1. memoryAt[t] \in Memory!Asking /\ b \in Memory!Budgets
  BY BudgetOfIs DEF Memory!GiveUp
<1>2. PICK k \in DOMAIN waiting[b] :
        waiting[b][k] = t /\ waiting' = [waiting EXCEPT ![b] = Memory!RemoveAt(waiting[b], k)]
  BY DEF Memory!GiveUp, Memory!LeavesQueue
<1>3. waiting[b] \in Seq(Tasks) /\ Memory!IsInjective(waiting[b])
  BY <1>1, TicketIn
<1>4. /\ Memory!RemoveAt(waiting[b], k) \in Seq(Tasks) /\ Memory!IsInjective(Memory!RemoveAt(waiting[b], k))
      /\ Memory!ToSet(Memory!RemoveAt(waiting[b], k)) = Memory!ToSet(waiting[b]) \ {t}
  BY <1>2, <1>3, RemoveTicket
<1>5. Queues(t, "idle")
  <2> DEFINE q == Memory!RemoveAt(waiting[b], k)
  <2>1. /\ q \in Seq(Tasks) /\ Memory!IsInjective(q) /\ Memory!ToSet(q) = Memory!ToSet(waiting[b]) \ {t}
        /\ waiting' = [waiting EXCEPT ![b] = q]
    BY <1>2, <1>4
  <2> HIDE DEF q
  <2>2. "idle" \notin Memory!Asking
    BY NotAsking
  <2>3. QED
    BY <1>1, <2>1, <2>2, Dequeues
<1>6. Moves(t, "idle", Memory!Idle, FALSE)
  BY ReturnsAll DEF Memory!GiveUp, MemoryInv, MemoryRanges, Places
<1>7. QED
  BY <1>5, <1>6, MovesKeep

LEMMA CancelStep == ASSUME MemoryInv, NEW t \in Tasks, Memory!Cancel(t) PROVE MemoryInv'
<1>1. UNCHANGED <<available, workers, waiting, memoryAt, want, held,
                  working>> /\ cancelled' \subseteq Tasks
  BY DEF Memory!Cancel, MemoryInv, MemoryRanges
<1>2. QED
  BY <1>1 DEF MemoryInv, MemoryRanges, Counted, Memory!Ticketed, ParserTasks

LEMMA ShrinkStep == ASSUME MemoryInv, NEW t \in Tasks, Memory!Shrink(t) PROVE MemoryInv'
<1>1. PICK kept \in 0..held[t].parsing :
        /\ held' = [held EXCEPT ![t].parsing = kept]
        /\ available' = [available EXCEPT !.parsing = @ + Memory!GivesRest(t, kept)]
  BY DEF Memory!Shrink
<1>2. memoryAt[t] = "parse" /\ memoryAt' = [memoryAt EXCEPT ![t] = "install"]
      /\ workers' = workers + 1
      /\ working' = [working EXCEPT ![t] = FALSE] /\ UNCHANGED <<waiting, want,
                                                                 cancelled>>
  BY DEF Memory!Shrink
<1>3. /\ available \in [Memory!Budgets -> Nat] /\ workers \in Nat
      /\ held \in [Tasks -> [Memory!Budgets -> Nat]] /\ working \in [Tasks -> BOOLEAN]
      /\ working[t] = TRUE
  BY <1>2 DEF MemoryInv, MemoryRanges, Reservations, Reserves
<1> DEFINE bytes == [b \in Memory!Budgets |-> IF b = "parsing" THEN kept ELSE held[t][b]]
<1>4. /\ held[t]["parsing"] \in Nat /\ kept \in Nat /\ kept <= held[t]["parsing"]
      /\ bytes \in [Memory!Budgets -> Nat]
  BY <1>1, <1>3, NotAsking
<1>5. held'[t] = bytes /\ \A u \in Tasks \ {t} : held'[u] = held[u]
  BY <1>1, <1>3, NotAsking
<1>6. held' \in Reservations
  BY <1>1, <1>3, <1>4, <1>5, NotAsking DEF Reservations
<1>7. /\ available' \in [Memory!Budgets -> Nat]
      /\ \A b \in Memory!Budgets : available'[b] + bytes[b] = available[b] + held[t][b]
  BY <1>1, <1>3, <1>4, NotAsking DEF Memory!GivesRest
<1>8. /\ working' \in [Tasks -> BOOLEAN] /\ working'[t] = FALSE
      /\ \A u \in Tasks \ {t} : working'[u] = working[u]
  BY <1>2, <1>3
<1>9. workers' \in Nat /\ workers' + (IF FALSE THEN 1 ELSE 0) = workers + (IF working[t] THEN 1 ELSE 0)
  BY <1>2, <1>3
<1>10. Reserves("install", bytes, FALSE)
  BY DEF Reserves
<1> HIDE DEF bytes
<1>11. Moves(t, "install", bytes, FALSE)
  BY <1>2, <1>4, <1>5, <1>6, <1>7, <1>8, <1>9, <1>10 DEF Moves, Places, MemoryInv,
     MemoryRanges
<1>12. Queues(t, "install")
  BY <1>2, StaysOut, NotAsking
<1>13. QED
  BY <1>11, <1>12, MovesKeep

LEMMA AdmitStep == ASSUME MemoryInv, NEW t \in Tasks, Memory!Admit(t) PROVE MemoryInv'
<1> DEFINE b == Memory!BudgetOf(memoryAt[t])
           place == Memory!Granted[memoryAt[t]]
           worker == (b = "parsing")
           bytes == [c \in Memory!Budgets |-> IF c = b THEN want[t] ELSE held[t][c]]
<1>1. /\ memoryAt[t] \in Memory!Asking /\ Head(waiting[b]) = t /\ available[b] >= want[t]
      /\ b = "parsing" => workers > 0
      /\ waiting' = [waiting EXCEPT ![b] = Tail(waiting[b])]
      /\ available' = [available EXCEPT ![b] = available[b] - want[t]]
      /\ workers' = workers - IF b = "parsing" THEN 1 ELSE 0
      /\ held' = [held EXCEPT ![t][b] = want[t]]
      /\ working' = [working EXCEPT ![t] = worker]
      /\ memoryAt' = [memoryAt EXCEPT ![t] = place]
      /\ UNCHANGED <<want, cancelled>>
  BY DEF Memory!Admit
<1>2. b \in Memory!Budgets
  BY BudgetOfIs
<1>3. /\ available \in [Memory!Budgets -> Nat] /\ workers \in Nat /\ want[t] \in Nat
      /\ held \in [Tasks -> [Memory!Budgets -> Nat]] /\ working \in [Tasks -> BOOLEAN]
  BY DEF MemoryInv, MemoryRanges, Reservations
<1>4. held[t][b] = 0 /\ working[t] = FALSE
  BY <1>1, <1>2, NotAsking DEF MemoryInv, Reserves, Memory!Idle
<1>5. place \in Places \ Memory!Asking /\ Reserves(place, bytes, worker)
  <2>1. Reserves(memoryAt[t], held[t], working[t])
    BY DEF MemoryInv
  <2>2. CASE memoryAt[t] \in {"batch?", "file?", "render?"}
    <3>1. b = "parsing" /\ place \in {"parse", "file", "render"}
      BY <2>2, NotAsking DEF Memory!Granted
    <3>2. QED
      BY <3>1, NotAsking DEF Reserves, Places
  <2>3. CASE memoryAt[t] = "source?"
    <3>1. b = "sources" /\ place = "read"
      BY <2>3, NotAsking DEF Memory!Granted
    <3>2. bytes["parsing"] = 0
      BY <3>1, <2>1, <2>3, NotAsking DEF Reserves, Memory!Idle
    <3>3. QED
      BY <3>1, <3>2, NotAsking DEF Reserves, Places
  <2>4. QED
    BY <2>2, <2>3, <1>1, NotAsking
<1>6. Queues(t, place)
  <2>1. /\ waiting[b] \in Seq(Tasks) /\ Memory!IsInjective(waiting[b]) /\ t \in Memory!ToSet(waiting[b])
    BY <1>1, <1>2, TicketIn
  <2>2. waiting[b] # <<>>
    BY <2>1 DEF Memory!ToSet
  <2>3. /\ Tail(waiting[b]) \in Seq(Tasks) /\ Memory!IsInjective(Tail(waiting[b]))
        /\ Memory!ToSet(Tail(waiting[b])) = Memory!ToSet(waiting[b]) \ {t}
    BY <2>1, <2>2, <1>1, TailTicket
  <2>4. QED
    BY <1>1, <1>5, <2>3, Dequeues
<1>7. /\ bytes \in [Memory!Budgets -> Nat] /\ held'[t] = bytes /\ \A u \in Tasks \ {t} : held'[u] = held[u]
      /\ held' \in Reservations
  BY <1>1, <1>2, <1>3 DEF Reservations
<1>8. /\ working' \in [Tasks -> BOOLEAN] /\ working'[t] = worker /\ worker \in BOOLEAN
      /\ \A u \in Tasks \ {t} : working'[u] = working[u]
  BY <1>1, <1>3
<1>9. /\ available' \in [Memory!Budgets -> Nat]
      /\ \A c \in Memory!Budgets : available'[c] + bytes[c] = available[c] + held[t][c]
  BY <1>1, <1>2, <1>3, <1>4
<1>10. /\ workers' \in Nat
       /\ workers' + (IF worker THEN 1 ELSE 0) = workers + (IF working[t] THEN 1 ELSE 0)
  BY <1>1, <1>3, <1>4
<1>11. want' \in [Tasks -> Nat] /\ cancelled' \subseteq Tasks
  BY <1>1 DEF MemoryInv, MemoryRanges
<1>12. memoryAt' = [memoryAt EXCEPT ![t] = place]
  BY <1>1
<1> HIDE DEF bytes, worker, place
<1>13. Moves(t, place, bytes, worker)
  BY <1>5, <1>7, <1>8, <1>9, <1>10, <1>11, <1>12 DEF Moves
<1>14. QED
  BY <1>6, <1>13, MovesKeep

LEMMA MemoryInit == ASSUME Memory!Init PROVE MemoryInv
<1>1. MemoryRanges
  BY CapacityAssumption DEF Memory!Init, MemoryRanges, Places, Memory!Idle, Reservations
<1>2. Memory!Ticketed
  BY NotAsking DEF Memory!Init, Memory!Ticketed, Memory!ToSet, Memory!IsInjective
<1>3. ParserTasks = {}
  BY DEF Memory!Init, ParserTasks
<1>4. \A t \in Tasks : Reserves(memoryAt[t], held[t], working[t])
  BY DEF Memory!Init, Reserves
<1>5. \A b \in Memory!Budgets : TotalOf(held, b) = 0
  BY <1>1, NoTotal DEF MemoryRanges, Memory!Init, Memory!Idle
<1>6. Counted
  BY <1>3, <1>5, FS_EmptySet, CapacityAssumption DEF Counted, Memory!Init
<1>7. QED
  BY <1>1, <1>2, <1>4, <1>6 DEF MemoryInv

LEMMA MemoryNext == ASSUME MemoryInv, [Memory!Next]_(Memory!vars) PROVE MemoryInv'
<1>1. CASE \E t \in Tasks : Memory!Begin(t) \/ Memory!Admit(t) \/ Memory!GiveUp(t) \/ Memory!Cancel(t) \/ Memory!Work(t)
  BY <1>1, BeginStep, AdmitStep, GiveUpStep, CancelStep, ShrinkStep, RetryStep,
     RenderStep, EndStep DEF Memory!Work
<1>2. CASE UNCHANGED Memory!vars
  BY <1>2 DEF Memory!vars, MemoryInv, MemoryRanges, Counted, Memory!Ticketed,
     ParserTasks
<1>3. QED
  BY <1>1, <1>2 DEF Memory!Next

\* Cardinality of the instance
LEMMA MemoryCardinality == \A set : Memory!Cardinality(set) = Cardinality(set)
  BY DEF Memory!Cardinality, Cardinality

LEMMA MemoryInvTrue ==
    ASSUME MemoryInv
    PROVE  Memory!TypeOK /\ Memory!Conserved /\ Memory!Ticketed
<1>1. Memory!Conserved
  <2>1. workers + Memory!Cardinality(ParserTasks) = Workers
    BY MemoryCardinality DEF MemoryInv, Counted
  <2>2. \A b \in Memory!Budgets : available[b] + TotalOf(held, b) = Capacity[b]
    BY DEF MemoryInv, Counted
  <2>3. QED
    BY <2>1, <2>2 DEF Memory!Conserved, TotalOf, ParserTasks
<1>2. ASSUME NEW b \in Memory!Budgets PROVE available[b] \in 0..Capacity[b]
  <2>1. CASE Tasks = {}
    BY <2>1, NoTotal, CapacityAssumption DEF MemoryInv, MemoryRanges, Counted
  <2>2. CASE Tasks # {}
    <3>1. PICK t \in Tasks : TRUE
      BY <2>2
    <3>2. TotalOf(held, b) \in Nat
      BY <3>1, TotalChanges DEF MemoryInv, MemoryRanges
    <3>3. QED
      BY <3>2, CapacityAssumption DEF MemoryInv, MemoryRanges, Counted
  <2>3. QED
    BY <2>1, <2>2
<1>3. workers \in 0..Workers
  <2>1. Cardinality(ParserTasks) \in Nat
    BY TasksAssumption, FS_Subset, FS_CardinalityType DEF ParserTasks
  <2>2. QED
    BY <2>1, CapacityAssumption DEF MemoryInv, MemoryRanges, Counted
<1>4. QED
  BY <1>1, <1>2, <1>3 DEF MemoryInv, MemoryRanges, Memory!TypeOK, Places, Reservations

\* The invariant holds in every reachable state of the budgets.
THEOREM MemoryInvariant == Memory!Spec => []MemoryInv
<1>1. Memory!Init => MemoryInv
  BY MemoryInit
<1>2. MemoryInv /\ [Memory!Next]_(Memory!vars) => MemoryInv'
  BY MemoryNext
<1>3. QED
  BY <1>1, <1>2, PTL DEF Memory!Spec

\* MemoryTrue holds in every reachable state: bytes and workers are conserved,
\* and the queues have the tickets of those who wait.
THEOREM MemoryCorrect == Memory!Spec => []MemoryTrue
<1>1. MemoryInv => MemoryTrue
  BY MemoryInvTrue DEF MemoryTrue
<1>2. QED
  BY <1>1, MemoryInvariant, PTL

-----------------------------------------------------------------------------
(***************************************************************************)
(* Maintenance                                                             *)
(*                                                                         *)
(* While a deadline is ahead, the time since the last collection and the   *)
(* time that is left are bounded together, and a compaction that is to be  *)
(* retried was set by the last collection, so that it puts off the next    *)
(* one at most once (CollectionBound).  Once the time is up, the bounds    *)
(* follow the worker from one operation to the next (Late, BranchesBound). *)
(* An iteration that has taken no time has handled whatever was due when   *)
(* it began (DueHandled).                                                  *)
(***************************************************************************)

\* The recursion of Doubled has a solution, which grows without bound.
Doubles(f) == f = [n \in Nat |-> IF n = 0 THEN RetryAfter ELSE 2 * f[n - 1]]

LEMMA DoublesExist == \E f : Doubles(f)
<1> DEFINE Until(n, f) == \A k \in 0..n : f[k] = IF k = 0 THEN RetryAfter ELSE 2 * f[k - 1]
           numbers == {n \in Nat : \E f \in [Nat -> Nat] : Until(n, f)}
<1>1. RetryAfter \in Nat
  BY ScheduleAssumption
<1>2. 0 \in numbers
  <2>1. Until(0, [k \in Nat |-> RetryAfter]) /\ [k \in Nat |-> RetryAfter] \in [Nat -> Nat]
    BY <1>1
  <2>2. QED
    BY <2>1
<1>3. ASSUME NEW n \in Nat, n \in numbers PROVE n + 1 \in numbers
  <2>1. PICK f \in [Nat -> Nat] : Until(n, f)
    BY <1>3
  <2> DEFINE g == [f EXCEPT ![n + 1] = 2 * f[n]]
  <2>2. g \in [Nat -> Nat] /\ g[n + 1] = 2 * f[n] /\ \A k \in 0..n : g[k] = f[k]
    OBVIOUS
  <2> HIDE DEF g
  <2>3. Until(n + 1, g)
    BY <2>1, <2>2
  <2>4. QED
    BY <2>2, <2>3
<1>4. \A n \in Nat : n \in numbers
  <2> HIDE DEF numbers
  <2>1. QED
    BY <1>2, <1>3, Induction
<1> DEFINE F(n) == CHOOSE f : f \in [Nat -> Nat] /\ Until(n, f)
<1>5. ASSUME NEW n \in Nat PROVE F(n) \in [Nat -> Nat] /\ Until(n, F(n))
  BY <1>4
<1>6. ASSUME NEW f \in [Nat -> Nat], NEW g \in [Nat -> Nat], NEW m \in Nat, Until(m, f), Until(m, g)
      PROVE  \A k \in 0..m : f[k] = g[k]
  <2> DEFINE same == {k \in Nat : k <= m => f[k] = g[k]}
  <2>1. 0 \in same
    BY <1>6
  <2>2. ASSUME NEW k \in Nat, k \in same PROVE k + 1 \in same
    <3>1. CASE k + 1 <= m
      <4>1. f[k] = g[k] /\ f[k + 1] = 2 * f[k] /\ g[k + 1] = 2 * g[k]
        BY <1>6, <2>2, <3>1
      <4>2. QED
        BY <4>1
    <3>2. QED
      BY <3>1
  <2>3. \A k \in Nat : k \in same
    <3> HIDE DEF same
    <3>1. QED
      BY <2>1, <2>2, Induction
  <2>4. QED
    BY <2>3
<1> DEFINE f == [n \in Nat |-> F(n)[n]]
<1>7. ASSUME NEW n \in Nat, n # 0 PROVE f[n] = 2 * f[n - 1]
  <2>1. n - 1 \in Nat /\ n \in 0..n /\ n - 1 \in 0..(n - 1) /\ n - 1 \in 0..n
    BY <1>7
  <2>2. F(n) \in [Nat -> Nat] /\ Until(n, F(n)) /\ F(n - 1) \in [Nat -> Nat] /\ Until(n - 1, F(n - 1))
    BY <1>5, <2>1
  <2> HIDE DEF F
  <2>3. Until(n - 1, F(n))
    BY <2>1, <2>2
  <2>4. F(n)[n - 1] = F(n - 1)[n - 1]
    BY <1>6, <2>1, <2>2, <2>3
  <2>5. F(n)[n] = 2 * F(n)[n - 1]
    BY <1>7, <2>1, <2>2
  <2>6. QED
    BY <2>1, <2>4, <2>5
<1>8. f[0] = RetryAfter
  <2>1. Until(0, F(0))
    BY <1>5
  <2> HIDE DEF F
  <2>2. F(0)[0] = RetryAfter
    BY <2>1
  <2>3. QED
    BY <2>2
<1> HIDE DEF F
<1>9. f = [n \in Nat |-> IF n = 0 THEN RetryAfter ELSE 2 * f[n - 1]]
  BY <1>7, <1>8
<1>10. QED
  BY <1>9 DEF Doubles

LEMMA DoubledIs ==
    /\ Loop!Doubled[0] = RetryAfter
    /\ \A n \in Nat : Loop!Doubled[n + 1] = 2 * Loop!Doubled[n]
    /\ \A n \in Nat : Loop!Doubled[n] \in Nat /\ Loop!Doubled[n] > n
<1>1. Doubles(Loop!Doubled)
  BY DoublesExist DEF Loop!Doubled, Doubles
<1>2. Loop!Doubled[0] = RetryAfter /\ \A n \in Nat : Loop!Doubled[n + 1] = 2 * Loop!Doubled[n]
  <2>1. \A n \in Nat : Loop!Doubled[n] = IF n = 0 THEN RetryAfter ELSE 2 * Loop!Doubled[n - 1]
    BY <1>1 DEF Doubles
  <2>2. QED
    BY <2>1
<1> DEFINE numbers == {n \in Nat : Loop!Doubled[n] \in Nat /\ Loop!Doubled[n] > n}
<1>3. 0 \in numbers
  BY <1>2, ScheduleAssumption
<1>4. \A n \in Nat : n \in numbers => n + 1 \in numbers
  BY <1>2
<1>5. \A n \in Nat : n \in numbers
  <2> HIDE DEF numbers
  <2>1. QED
    BY <1>3, <1>4, Induction
<1>6. QED
  BY <1>2, <1>5

-----------------------------------------------------------------------------
(* The invariant *)

LoopRanges ==
  /\ pc \in {"sleep", "startup", "check", "retry", "branches", "collect", "git", "stopped"}
  /\ collection \in 0..Interval /\ compaction \in {None} \union (0..RetryAfter)
  /\ stalled \in RetryAfter..Interval /\ regular \in 0..Regular /\ startup \in {None} \union Nat
  /\ owed \in {"nothing", "branches", "all"} /\ shutdown \in BOOLEAN
  /\ work \in 0..MaxWork /\ spent \in Nat /\ idle \in Nat /\ unfetched \in Nat
  /\ row \in 0..Interval

\* What an iteration does was decided by its check.
OwedDecided ==
  /\ pc = "retry" => owed # "all"
  /\ pc = "branches" => owed # "nothing"
  /\ pc \in {"collect", "git"} => owed = "all"
  /\ pc \in {"branches", "collect"} /\ owed = "all" => collection = 0

\* A compaction without pressure puts the collection off once: until the next
\* collection there is nothing to retry.
Span == IF compaction = None THEN 2 * Interval + MaxWork ELSE Interval
LateSpan == IF compaction = None THEN 2 * Interval + MaxWork ELSE Interval + MaxWork
Late(l, i, w) ==
  /\ pc = "branches" /\ owed = "branches" => i <= l + w
  /\ pc = "sleep" => i <= l + MaxWork
  /\ pc = "startup" => i <= l + MaxWork + w
  /\ pc = "check" => i <= l + 2 * MaxWork
  /\ pc = "branches" /\ owed = "all" => i <= l + 2 * MaxWork + w
  /\ pc = "collect" => i <= l + 3 * MaxWork + w
CollectionBound ==
  /\ collection > 0 => idle + collection <= Span
  /\ pc = "retry" => compaction # None /\ idle < Interval + work
  /\ pc = "git" => idle <= work
  /\ collection = 0 => Late(LateSpan, idle, work)

\* A refresh, a collection and the packing take up to three operations until
\* the time to the next refresh starts.
BranchesBound ==
  /\ pc = "branches" => unfetched <= work
  /\ pc = "collect" => unfetched <= MaxWork + work
  /\ pc = "git" => unfetched <= 2 * MaxWork + work
  /\ pc \in {"sleep", "startup", "check", "retry"} /\ regular > 0 =>
       unfetched + regular <= Regular + 3 * MaxWork
  /\ pc \in {"sleep", "startup", "check"} /\ regular = 0 =>
       unfetched <= Regular + 4 * MaxWork + (IF pc = "startup" THEN work ELSE IF pc = "check" THEN MaxWork ELSE 0)
  /\ pc = "retry" /\ regular = 0 =>
       unfetched <= Regular + (IF owed = "branches" THEN 5 ELSE 3) * MaxWork + work

\* What an iteration found due is not due again at once.
DueHandled ==
  spent = 0 =>
    /\ pc \in {"check", "retry", "branches", "collect", "git"} => startup # 0
    /\ pc = "retry" => collection # 0 /\ (owed = "nothing" => regular # 0)
    /\ pc = "branches" /\ owed = "branches" => collection # 0 /\ compaction # 0
    /\ pc = "git" => collection # 0 /\ compaction # 0

LoopInv ==
  LoopRanges /\ OwedDecided /\ CollectionBound /\ BranchesBound /\ DueHandled
  /\ Loop!BackOff

LEMMA Numbers ==
    /\ Interval \in Nat /\ Regular \in Nat /\ Regular > 0 /\ RetryAfter \in Nat /\ 0 < RetryAfter /\ RetryAfter <= Interval
    /\ Soon \in Nat /\ Soon > 0 /\ MaxWork \in Nat /\ \A n \in Nat : n # None
    /\ None # "busy"
  BY ScheduleAssumption

LEMMA LeastIs == \A a, b \in Int : Loop!Least(a, b) \in {a, b} /\ Loop!Least(a, b) <= a /\ Loop!Least(a, b) <= b
  BY DEF Loop!Least

LEMMA LateAtFirst ==
    ASSUME NEW l \in Nat, NEW i \in Nat, NEW w \in Nat, i <= l
    PROVE  Late(l, i, w)
  BY Numbers DEF Late

LEMMA LateGoesOn ==
    ASSUME NEW l \in Nat, NEW i \in Nat, NEW w \in Nat, Late(l, i, w), pc \notin {"sleep", "check"}
    PROVE  Late(l, i + 1, w + 1)
  BY Numbers DEF Late

LEMMA LoopInit == ASSUME Loop!Init PROVE LoopInv
<1>1. LoopRanges
  <2>1. /\ collection \in 0..Interval /\ compaction \in {None} \union (0..RetryAfter)
        /\ stalled \in RetryAfter..Interval /\ regular \in 0..Regular
    BY Numbers DEF Loop!Init
  <2>2. /\ startup \in {None} \union Nat /\ work \in 0..MaxWork /\ row \in 0..Interval
    BY Numbers DEF Loop!Init
  <2>3. QED
    BY <2>1, <2>2 DEF Loop!Init, LoopRanges
<1>5. OwedDecided /\ BranchesBound /\ DueHandled
  BY Numbers DEF Loop!Init, OwedDecided, BranchesBound, DueHandled
<1>2. CollectionBound
  BY Numbers DEF Loop!Init, CollectionBound, Span
<1>3. Loop!BackOff
  <2>1. row = 0 /\ stalled = RetryAfter
    BY DEF Loop!Init
  <2>2. Loop!Doubled[row] = RetryAfter
    BY <2>1, DoubledIs
  <2>3. Loop!Least(RetryAfter, Interval) = RetryAfter
    BY Numbers DEF Loop!Least
  <2>4. QED
    BY <2>1, <2>2, <2>3 DEF Loop!BackOff
<1>4. QED
  BY <1>1, <1>5, <1>2, <1>3 DEF LoopInv

LEMMA TickStep == ASSUME LoopInv, Loop!Tick PROVE LoopInv'
<1>1. LoopRanges /\ OwedDecided /\ CollectionBound /\ BranchesBound /\ DueHandled
      /\ Loop!BackOff
  BY DEF LoopInv
<1>2. /\ collection' = Loop!Left(collection) /\ regular' = Loop!Left(regular)
      /\ compaction' = IF compaction = None THEN None ELSE Loop!Left(compaction)
      /\ startup' = IF startup = None THEN None ELSE Loop!Left(startup)
      /\ idle' = idle + 1 /\ unfetched' = unfetched + 1
      /\ UNCHANGED <<pc, stalled, owed, shutdown, row>>
      /\ pc \notin {"check", "stopped"}
  BY DEF Loop!Tick
<1>3. CASE pc = "sleep"
  <2>1. collection # 0 /\ regular # 0 /\ compaction # 0 /\ startup # 0 /\ UNCHANGED <<work, spent>>
    BY <1>3 DEF Loop!Tick, Loop!Due
  <2>2. LoopRanges'
    BY <1>1, <1>2, <2>1, Numbers DEF LoopRanges, Loop!Left
  <2>3. QED
    BY <1>1, <1>2, <1>3, <2>1, <2>2, Numbers
       DEF LoopInv, LoopRanges, OwedDecided, CollectionBound, Late, BranchesBound,
           DueHandled, Loop!BackOff, Span, LateSpan, Loop!Left
<1>4. CASE pc # "sleep"
  <2>1. work < MaxWork /\ work' = work + 1 /\ spent' = spent + 1
    BY <1>4 DEF Loop!Tick
  <2>2. LoopRanges'
    BY <1>1, <1>2, <2>1, Numbers DEF LoopRanges, Loop!Left
  <2>3. OwedDecided'
    BY <1>1, <1>2 DEF OwedDecided, Loop!Left
  <2>4. CollectionBound'
    <3>1. compaction' = None <=> compaction = None
      BY <1>1, <1>2, Numbers DEF LoopRanges, Loop!Left
    <3>2. Span' = Span /\ LateSpan' = LateSpan /\ Span \in Nat /\ LateSpan \in Nat
          /\ Span <= LateSpan
          /\ Interval <= Span
      BY <3>1, Numbers DEF Span, LateSpan
    <3>6. pc = "git" => idle' <= work'
      BY <1>1, <1>2, <2>1 DEF CollectionBound, LoopRanges
    <3>3. CASE pc = "retry"
      BY <1>1, <1>2, <2>1, <3>1, <3>2, <3>3, Numbers DEF LoopRanges, CollectionBound,
         Late, Loop!Left
    <3>4. CASE pc # "retry"
      <4>1. collection \in 0..Interval /\ idle \in Nat /\ work \in 0..MaxWork /\ MaxWork \in Nat /\ Interval \in Nat
        BY <1>1, Numbers DEF LoopRanges
      <4>2. CASE collection' > 0
        BY <1>1, <1>2, <3>2, <3>4, <2>1, <4>1, <4>2 DEF CollectionBound, Loop!Left
      <4>3. CASE collection > 0 /\ collection' = 0
        <5>1. idle' <= LateSpan' /\ work' \in Nat
          BY <1>1, <1>2, <2>1, <3>2, <4>1, <4>3 DEF CollectionBound, Loop!Left
        <5>2. Late(LateSpan, idle', work')
          <6>1. LateSpan \in Nat /\ idle' \in Nat /\ idle' <= LateSpan
            BY <1>2, <3>2, <4>1, <5>1
          <6>2. \A l, i, w \in Nat : i <= l => Late(l, i, w)
            BY LateAtFirst
          <6>3. QED
            BY <6>1, <6>2, <5>1
        <5>3. QED
          BY <1>2, <3>2, <3>6, <3>4, <4>3, <5>2 DEF CollectionBound, Late
      <4>4. CASE collection = 0
        <5>1. Late(LateSpan, idle + 1, work + 1)
          BY <1>1, <1>2, <1>4, <3>2, <4>1, <4>4, LateGoesOn DEF CollectionBound
        <5>2. QED
          BY <1>2, <2>1, <3>2, <3>6, <3>4, <4>1, <4>4, <5>1 DEF CollectionBound, Late,
             Loop!Left
      <4>5. QED
        BY <1>2, <4>1, <4>2, <4>3, <4>4 DEF Loop!Left
    <3>5. QED
      BY <3>3, <3>4
  <2>5. BranchesBound'
    BY <1>1, <1>2, <1>4, <2>1, Numbers DEF LoopRanges, BranchesBound, Loop!Left
  <2>6. DueHandled' /\ Loop!BackOff'
    BY <1>1, <1>2, <2>1 DEF LoopRanges, DueHandled, Loop!BackOff
  <2>7. QED
    BY <2>2, <2>3, <2>4, <2>5, <2>6 DEF LoopInv
<1>5. QED
  BY <1>3, <1>4

LEMMA QuietStep ==
    ASSUME LoopInv, Loop!Shutdown \/ Loop!Wake \/ Loop!Swept \/ Loop!Check \/ Loop!Fetched \/ Loop!Packed \/ Loop!Stop
    PROVE  LoopInv'
<1> USE Numbers DEF LoopInv, LoopRanges, OwedDecided, CollectionBound, Late, BranchesBound, DueHandled, Loop!BackOff, Span, LateSpan, Loop!schedule, Loop!clocks, Loop!Goto, Loop!Fetch
<1>1. CASE Loop!Shutdown
  BY <1>1 DEF Loop!Shutdown
<1>2. CASE Loop!Wake
  BY <1>2 DEF Loop!Wake, Loop!Due
<1>3. CASE Loop!Swept
  BY <1>3 DEF Loop!Swept
<1>4. CASE Loop!Check
  BY <1>4 DEF Loop!Check
<1>5. CASE Loop!Fetched
  BY <1>5 DEF Loop!Fetched
<1>6. CASE Loop!Packed
  BY <1>6 DEF Loop!Packed
<1>7. CASE Loop!Stop
  BY <1>7 DEF Loop!Stop
<1>8. QED
  BY <1>1, <1>2, <1>3, <1>4, <1>5, <1>6, <1>7

LEMMA MaintainedStep == ASSUME LoopInv, Loop!Maintained PROVE LoopInv'
<1>1. PICK outcome \in Loop!Collected : Loop!AfterCollection(outcome) /\ compaction' = Loop!BusyRetry(outcome)
  BY DEF Loop!Maintained
<1>2. /\ pc = "collect" /\ pc' = (IF shutdown THEN "stopped" ELSE "git") /\ work' = 0 /\ idle' = 0
      /\ UNCHANGED <<regular, startup, owed, shutdown, spent, unfetched>>
  BY DEF Loop!Maintained, Loop!Goto
<1>3. LoopRanges /\ OwedDecided /\ BranchesBound /\ DueHandled /\ Loop!BackOff
  BY DEF LoopInv
<1>4. /\ collection' \in 1..Interval /\ stalled' \in RetryAfter..Interval /\ row' \in 0..Interval
      /\ stalled' = Loop!Least(Loop!Doubled[row'], Interval)
  <2>1. CASE outcome # None /\ (~outcome.pressure \/ outcome.progress)
    <3>1. stalled' = RetryAfter /\ row' = 0 /\ collection' \in {RetryAfter, Interval}
      BY <1>1, <2>1 DEF Loop!AfterCollection
    <3>2. Loop!Doubled[row'] = RetryAfter
      BY <3>1, DoubledIs
    <3>3. Loop!Least(RetryAfter, Interval) = RetryAfter
      BY Numbers DEF Loop!Least
    <3>4. QED
      BY <3>1, <3>2, <3>3, Numbers
  <2>2. CASE ~(outcome # None /\ (~outcome.pressure \/ outcome.progress))
    <3>1. /\ stalled' = Loop!Least(2 * stalled, Interval) /\ row' = Loop!Least(row + 1, Interval)
          /\ collection' = Loop!Least(stalled, Interval)
      BY <1>1, <2>2 DEF Loop!AfterCollection
    <3>2. stalled \in RetryAfter..Interval /\ row \in 0..Interval /\ stalled = Loop!Least(Loop!Doubled[row], Interval)
      BY <1>3 DEF LoopRanges, Loop!BackOff
    <3>3. /\ Loop!Doubled[row + 1] = 2 * Loop!Doubled[row] /\ Loop!Doubled[row] \in Nat /\ Loop!Doubled[row] > row
      BY <3>2, Numbers, DoubledIs
    <3>4. QED
      BY <3>1, <3>2, <3>3, Numbers DEF Loop!Least
  <2>3. QED
    BY <2>1, <2>2
<1>5. compaction' \in {None, RetryAfter}
  BY <1>1 DEF Loop!BusyRetry
<1>6. LoopRanges' /\ OwedDecided' /\ Loop!BackOff'
  BY <1>2, <1>3, <1>4, <1>5, Numbers DEF LoopRanges, OwedDecided, Loop!BackOff
<1>7. CollectionBound'
  <2>1. Span' \in Nat /\ Interval <= Span'
    BY Numbers DEF Span
  <2>2. collection' > 0 /\ collection' <= Interval /\ collection' \in Nat
        /\ Interval \in Nat
    BY <1>4, Numbers
  <2>3. pc' \in {"stopped", "git"} /\ idle' = 0 /\ work' = 0
    BY <1>2
  <2>4. idle' + collection' <= Span'
    <3> DEFINE s == Span'
               c == collection'
    <3>1. s \in Nat /\ Interval <= s /\ c \in Nat /\ c <= Interval /\ Interval \in Nat
      BY <2>1, <2>2
    <3> HIDE DEF s, c
    <3>2. 0 + c <= s
      BY <3>1
    <3>3. QED
      BY <2>3, <3>2 DEF s, c
  <2>5. QED
    BY <2>2, <2>3, <2>4 DEF CollectionBound
<1>8. BranchesBound' /\ DueHandled'
  BY <1>2, <1>3, <1>4, <1>5, Numbers DEF LoopRanges, OwedDecided, BranchesBound,
     DueHandled
<1>9. QED
  BY <1>6, <1>7, <1>8 DEF LoopInv

LEMMA CompactedStep == ASSUME LoopInv, Loop!Compacted PROVE LoopInv'
<1>1. PICK outcome \in Loop!Retried : Loop!AfterRetry(outcome)
  BY DEF Loop!Compacted
<1>2. /\ pc = "retry" /\ pc' = (IF owed = "nothing" THEN "sleep" ELSE "branches") /\ work' = 0
      /\ unfetched' = (IF owed = "nothing" THEN unfetched ELSE 0)
      /\ UNCHANGED <<regular, startup, owed, shutdown, spent, idle>>
  BY DEF Loop!Compacted, Loop!Fetch, Loop!Goto
<1>3. LoopRanges /\ OwedDecided /\ CollectionBound /\ BranchesBound /\ DueHandled
      /\ Loop!BackOff
  BY DEF LoopInv
<1>4. compaction' \in {None, RetryAfter}
  BY <1>1 DEF Loop!AfterRetry, Loop!BusyRetry
<1>5. \/ collection' = Interval /\ compaction' = None
      \/ collection' \in {collection, Loop!Least(collection, RetryAfter)}
  <2>1. CASE outcome = None
    BY <1>1, <2>1 DEF Loop!AfterRetry
  <2>2. CASE outcome # None /\ ~outcome.pressure
    <3>1. outcome.deferred = None
      BY <2>2 DEF Loop!Retried, Loop!Outcome
    <3>2. compaction' = None
      BY <1>1, <3>1, Numbers DEF Loop!AfterRetry, Loop!BusyRetry
    <3>3. QED
      BY <1>1, <2>2, <3>2 DEF Loop!AfterRetry, Loop!AfterCompaction
  <2>3. CASE outcome # None /\ outcome.pressure
    BY <1>1, <2>3 DEF Loop!AfterRetry, Loop!AfterCompaction
  <2>4. QED
    BY <2>1, <2>2, <2>3
<1>6. (stalled' = RetryAfter /\ row' = 0) \/ (stalled' = stalled /\ row' = row)
  BY <1>1 DEF Loop!AfterRetry, Loop!AfterCompaction
<1>7. collection' \in 0..Interval /\ (collection # 0 => collection' # 0)
  BY <1>3, <1>5, Numbers, LeastIs DEF LoopRanges
<1>8. LoopRanges' /\ OwedDecided'
  BY <1>2, <1>3, <1>4, <1>6, <1>7, Numbers DEF LoopRanges, OwedDecided
<1>9. Loop!BackOff'
  <2>1. CASE stalled' = RetryAfter /\ row' = 0
    <3>1. Loop!Doubled[row'] = RetryAfter
      BY <2>1, DoubledIs
    <3>2. Loop!Least(RetryAfter, Interval) = RetryAfter
      BY Numbers DEF Loop!Least
    <3>3. QED
      BY <2>1, <3>1, <3>2 DEF Loop!BackOff
  <2>2. CASE stalled' = stalled /\ row' = row
    BY <1>3, <2>2 DEF Loop!BackOff
  <2>3. QED
    BY <1>6, <2>1, <2>2
<1>10. CollectionBound'
  <2>1. compaction # None /\ idle \in Nat /\ idle < Interval + MaxWork
        /\ collection \in 0..Interval
        /\ (collection > 0 => idle + collection <= Interval)
    BY <1>2, <1>3, Numbers DEF CollectionBound, LoopRanges, Span
  <2>2. CASE collection' = Interval /\ compaction' = None
    <3>1. Span' = 2 * Interval + MaxWork
      BY <2>2 DEF Span
    <3>2. Interval \in Nat /\ Interval > 0 /\ MaxWork \in Nat
      BY Numbers
    <3>3. QED
      BY <1>2, <2>1, <2>2, <3>1, <3>2 DEF CollectionBound
  <2>3. CASE collection' \in {collection, Loop!Least(collection, RetryAfter)}
    <3>1. collection' <= collection
      BY <2>1, <2>3, Numbers, LeastIs
    <3>2. Interval \in Nat /\ Interval > 0 /\ MaxWork \in Nat /\ collection' \in Nat
      BY <1>7, Numbers
    <3>3. Span' \in Nat /\ LateSpan' \in Nat /\ Interval <= Span' /\ Interval + MaxWork <= LateSpan'
      BY <3>2 DEF Span, LateSpan
    <3>4. pc' \in {"sleep", "branches"} /\ idle' = idle /\ work' = 0 /\ (pc' = "branches" => owed' = "branches")
      BY <1>2, <1>3 DEF LoopRanges, OwedDecided
    <3>5. idle <= LateSpan'
      BY <2>1, <3>2, <3>3
    <3>6. CASE collection' > 0
      <4>1. idle + collection' <= Span'
        <5> DEFINE s == Span'
                   c == collection'
        <5>1. s \in Nat /\ Interval <= s /\ c \in Nat /\ c <= collection /\ idle + collection <= Interval
          BY <2>1, <3>1, <3>2, <3>3, <3>6
        <5> HIDE DEF s, c
        <5>2. idle + c <= s
          BY <2>1, <3>2, <5>1
        <5>3. QED
          BY <5>2 DEF s, c
      <4>2. QED
        BY <3>4, <3>6, <4>1 DEF CollectionBound
    <3>7. CASE collection' = 0
      <4> DEFINE l == LateSpan'
      <4>1. l \in Nat /\ idle <= l
        BY <3>3, <3>5
      <4> HIDE DEF l
      <4>2. idle <= l + 0 /\ idle <= l + MaxWork
        BY <2>1, <3>2, <4>1
      <4>3. QED
        BY <3>4, <3>7, <4>2 DEF CollectionBound, Late, l
    <3>8. QED
      BY <3>2, <3>6, <3>7
  <2>4. QED
    BY <1>5, <2>2, <2>3
<1>11. BranchesBound' /\ DueHandled'
  BY <1>2, <1>3, <1>4, <1>7, Numbers DEF LoopRanges, OwedDecided, BranchesBound,
     DueHandled
<1>12. QED
  BY <1>8, <1>9, <1>10, <1>11 DEF LoopInv

LEMMA LoopNext == ASSUME LoopInv, [Loop!Next]_(Loop!vars) PROVE LoopInv'
<1>1. CASE UNCHANGED Loop!vars
  BY <1>1 DEF Loop!vars, Loop!schedule, Loop!clocks, LoopInv, LoopRanges, OwedDecided,
     CollectionBound, Late, BranchesBound, DueHandled, Loop!BackOff, Span, LateSpan
<1>2. QED
  BY <1>1, TickStep, QuietStep, MaintainedStep, CompactedStep DEF Loop!Next, Loop!Worker

\* The invariant holds in every reachable state of the worker.
THEOREM LoopInvariant == Loop!Spec => []LoopInv
<1>1. Loop!Init => LoopInv
  BY LoopInit
<1>2. LoopInv /\ [Loop!Next]_(Loop!vars) => LoopInv'
  BY LoopNext
<1>3. QED
  BY <1>1, <1>2, PTL DEF Loop!Spec

LEMMA LoopInvTrue ==
    ASSUME LoopInv
    PROVE  Loop!CollectionDue /\ Loop!BranchesDue /\ Loop!BackOff
<1>1. Loop!CollectionDue
  BY Numbers DEF LoopInv, LoopRanges, OwedDecided, CollectionBound, Late,
     Loop!CollectionDue, Span, LateSpan
<1>2. Loop!BranchesDue
  BY Numbers DEF LoopInv, LoopRanges, BranchesBound, Loop!BranchesDue
<1>3. QED
  BY <1>1, <1>2 DEF LoopInv

LEMMA SpinStep ==
    ASSUME LoopInv, [Loop!Next]_(Loop!vars)
    PROVE  pc # "sleep" /\ pc' = "sleep" /\ spent = 0 => ~Loop!Due'
<1>1. SUFFICES ASSUME pc # "sleep", pc' = "sleep", spent = 0 PROVE ~Loop!Due'
  OBVIOUS
<1>2. LoopRanges /\ OwedDecided /\ DueHandled
  BY DEF LoopInv
<1>3. CASE Loop!Check
  <2>1. collection # 0 /\ compaction # 0 /\ regular # 0
    BY <1>1, <1>3 DEF Loop!Check, Loop!Fetch, Loop!Goto
  <2>2. QED
    BY <1>1, <1>2, <1>3, <2>1 DEF Loop!Check, Loop!Due, DueHandled, Loop!schedule
<1>4. CASE Loop!Compacted
  <2>1. PICK outcome \in Loop!Retried : Loop!AfterRetry(outcome)
    BY <1>4 DEF Loop!Compacted
  <2>2. pc = "retry" /\ owed = "nothing" /\ UNCHANGED <<regular, startup>>
    BY <1>1, <1>4 DEF Loop!Compacted, Loop!Fetch, Loop!Goto
  <2>3. compaction' \in {None, RetryAfter}
    BY <2>1 DEF Loop!AfterRetry, Loop!BusyRetry
  <2>4. collection' \in {Interval, collection, Loop!Least(collection, RetryAfter)}
    BY <2>1 DEF Loop!AfterRetry, Loop!AfterCompaction
  <2>5. collection' # 0 /\ compaction' # 0
    BY <1>1, <1>2, <2>2, <2>3, <2>4, Numbers, LeastIs DEF DueHandled, LoopRanges
  <2>6. QED
    BY <1>1, <1>2, <2>2, <2>5 DEF DueHandled, Loop!Due
<1>5. CASE Loop!Fetched \/ Loop!Packed
  <2>1. CASE Loop!Fetched
    <3>1. pc = "branches" /\ owed = "branches" /\ regular' = Regular /\ UNCHANGED <<Loop!schedule, startup>>
      BY <1>1, <1>2, <2>1 DEF Loop!Fetched, Loop!Goto, LoopRanges, OwedDecided
    <3>2. QED
      BY <1>1, <1>2, <3>1, Numbers DEF DueHandled, Loop!Due, Loop!schedule
  <2>2. CASE Loop!Packed
    <3>1. pc = "git" /\ regular' = Regular /\ UNCHANGED <<Loop!schedule, startup>>
      BY <2>2 DEF Loop!Packed
    <3>2. QED
      BY <1>1, <1>2, <3>1, Numbers DEF DueHandled, Loop!Due, Loop!schedule
  <2>3. QED
    BY <1>5, <2>1, <2>2
<1>6. CASE ~(Loop!Check \/ Loop!Compacted \/ Loop!Fetched \/ Loop!Packed)
  BY <1>1, <1>6 DEF Loop!Next, Loop!Worker, Loop!Wake, Loop!Swept, Loop!Maintained,
     Loop!Stop, Loop!Tick, Loop!Shutdown, Loop!Goto, Loop!vars
<1>7. QED
  BY <1>3, <1>4, <1>5, <1>6

\* LoopTrue: the cache is collected and the branches are refreshed in time,
\* scans that free nothing back off, and the worker does not spin.
THEOREM LoopCorrect == Loop!Spec => LoopTrue
<1>1. LoopInv => Loop!CollectionDue /\ Loop!BranchesDue /\ Loop!BackOff
  BY LoopInvTrue
<1>2. LoopInv /\ [Loop!Next]_(Loop!vars)
        => [pc # "sleep" /\ pc' = "sleep" /\ spent = 0 => ~Loop!Due']_(Loop!vars)
  BY SpinStep
<1>3. Loop!Spec => []LoopInv /\ [][Loop!Next]_(Loop!vars)
  BY LoopInvariant, PTL DEF Loop!Spec
<1>4. QED
  BY <1>1, <1>2, <1>3, PTL DEF LoopTrue, Loop!NoSpin

-----------------------------------------------------------------------------
(***************************************************************************)
(* Watches                                                                 *)
(*                                                                         *)
(* What a reader has read of a file stays true while the file's directory  *)
(* is watched under the number the monitor knows.  Whoever ends this, a    *)
(* write, the directory's end or the last user, leaves word: an event in   *)
(* the kernel's queue that names the file, or a change that the monitor    *)
(* has recorded of a generation after the reader's fence (Covered).        *)
(* Reading the queue turns the one into the other (DrainReads), and what   *)
(* is dropped on the way raises the coverage or sets the fallback.         *)
(***************************************************************************)

WatchPaths == Files \union Dirs \union {None}
WatchEvents == [wd : Nat, path : WatchPaths, gone : BOOLEAN]
WatchChanges == [dir : Dirs, path : WatchPaths, tree : BOOLEAN, generation : Nat]
Monitors == [wd : [Dirs -> Nat], users : [Dirs -> Nat], events : Seq(WatchChanges),
             coverage : Nat, generation : Nat, fallback : BOOLEAN]
FilesRead == UNION {[some -> Nat] : some \in SUBSET Files}
WatchReadings == [generation : Nat, read : FilesRead]

\* The types
WatchTypes ==
  /\ version \in [Files -> Nat] /\ present \subseteq Dirs
  /\ watched \in [Dirs -> Nat] /\ watchQueue \in Seq(WatchEvents) /\ count \in Nat
  /\ mon \in Monitors /\ Len(mon.events) <= EventLimit
  /\ uses \in [Readers -> SUBSET Dirs]
  /\ reading \in [Readers -> WatchReadings \union {None}]
  /\ snapshot \in [Readers -> WatchReadings \union {None}]

\* A number stands for one directory, and a new one for none so far.
Distinct(m, n) ==
  /\ \A d \in Dirs : m.wd[d] <= n
  /\ \A c, d \in Dirs : m.wd[c] = m.wd[d] /\ m.wd[c] # 0 => c = d

\* The users that are counted are those that registered, and they have a watch.
UsersOf(d) == {r \in Readers : d \in uses[r]}
WatchCounted ==
  ~mon.fallback => \A d \in Dirs :
    mon.users[d] = Cardinality(UsersOf(d)) /\ (mon.wd[d] = 0 <=> mon.users[d] = 0)

\* An event that ends the watch of d, or that says some were lost
Ends(m, e, d) ==
  \/ e = Watch!Overflow
  \/ m.wd[d] # 0 /\ e.wd = m.wd[d] /\ e.gone

\* A watch that has ended without the monitor's doing left such an event.
Watching ==
  \A d \in Dirs : mon.wd[d] # 0 =>
    \/ watched[d] = mon.wd[d] \/ mon.fallback
    \/ \E i \in DOMAIN watchQueue : Ends(mon, watchQueue[i], d)

\* An event that will be recorded as a change of f
Names(m, e, f) ==
  \/ e = Watch!Overflow
  \/ m.wd[DirOf(f)] # 0 /\ e.wd = m.wd[DirOf(f)] /\ (e.gone \/ e.path = f)

\* A change of f since a generation is recorded or will be.
Noticed(m, q, r, since, f) ==
  \/ Watch!Affects(m, Reads(r), since, f)
  \/ \E i \in DOMAIN q : Names(m, q[i], f)

\* f is watched, and as it was read.
Kept(x, f) ==
  /\ watched[DirOf(f)] # 0 /\ watched[DirOf(f)] = mon.wd[DirOf(f)]
  /\ f \in DOMAIN x.read => version[f] = x.read[f]

\* What a reader has read since its fence is true or noticed.
Covered(r, x) ==
  /\ x.generation <= mon.generation /\ DOMAIN x.read \subseteq Watch!Mine(r)
  /\ \A f \in Watch!Mine(r) : Noticed(mon, watchQueue, r, x.generation, f) \/ Kept(x, f)

ReadersCovered ==
  \A r \in Readers :
    /\ reading[r] # None => Covered(r, reading[r])
    /\ snapshot[r] # None =>
         Covered(r, snapshot[r]) /\ DOMAIN snapshot[r].read = Watch!Mine(r)

WatchInv ==
  WatchTypes /\ Distinct(mon, count) /\ WatchCounted /\ Watching /\ ReadersCovered

-----------------------------------------------------------------------------
(* The monitor *)

\* A change that is recorded, and all that were, are still told afterwards.
LEMMA RecordTells ==
    ASSUME NEW m \in Monitors, Len(m.events) <= EventLimit, NEW e \in WatchChanges,
           NEW n, n = Watch!Records(m, e)
    PROVE  /\ n \in Monitors /\ Len(n.events) <= EventLimit
           /\ n.wd = m.wd /\ n.users = m.users /\ n.generation = m.generation
           /\ n.fallback = m.fallback
           /\ \A dirs, f : \A since \in Nat :
                /\ Watch!Affects(m, dirs, since, f) => Watch!Affects(n, dirs, since, f)
                /\ /\ since < e.generation /\ e.dir \in dirs
                   /\ e.path = f \/ (e.tree /\ e.path = DirOf(f))
                   => Watch!Affects(n, dirs, since, f)
<1> DEFINE all == Append(m.events, e)
           Of(x, dirs, since, f) == x.generation > since /\ x.dir \in dirs
                                    /\ (x.path = f \/ (x.tree /\ x.path = DirOf(f)))
<1>1. /\ m.events \in Seq(WatchChanges) /\ EventLimit \in Nat /\ m.coverage \in Nat
      /\ all \in Seq(WatchChanges) /\ Len(all) = Len(m.events) + 1 /\ all # <<>>
      /\ all[Len(all)] = e /\ \A i \in 1..Len(m.events) : all[i] = m.events[i]
  <2>1. m.events \in Seq(WatchChanges) /\ m.coverage \in Nat
    BY DEF Monitors
  <2>2. EventLimit \in Nat
    BY WatchAssumption
  <2>3. /\ all \in Seq(WatchChanges) /\ Len(all) = Len(m.events) + 1 /\ all # <<>>
        /\ all[Len(all)] = e /\ \A i \in 1..Len(m.events) : all[i] = m.events[i]
    BY <2>1
  <2>4. QED
    BY <2>1, <2>2, <2>3
<1>2. \A dirs, f : \A since \in Nat :
        /\ Watch!Affects(m, dirs, since, f) =>
             m.fallback \/ since < m.coverage \/ \E i \in 1..Len(all) : Of(all[i], dirs, since, f)
        /\ Of(e, dirs, since, f) => \E i \in 1..Len(all) : Of(all[i], dirs, since, f)
  BY <1>1 DEF Watch!Affects
<1>3. CASE Len(all) <= EventLimit
  <2>1. n = [m EXCEPT !.events = all]
    BY <1>3 DEF Watch!Records
  <2>2. /\ n \in Monitors /\ n.events = all /\ n.wd = m.wd /\ n.users = m.users
        /\ n.generation = m.generation /\ n.fallback = m.fallback /\ n.coverage = m.coverage
    BY <2>1, <1>1 DEF Monitors
  <2>3. \A dirs, f : \A since \in Nat : Watch!Affects(n, dirs, since, f) <=>
          m.fallback \/ since < m.coverage \/ \E i \in 1..Len(all) : Of(all[i], dirs, since, f)
    BY <2>2, <1>1 DEF Watch!Affects
  <2>4. QED
    BY <1>2, <1>3, <2>2, <2>3
<1>4. CASE ~(Len(all) <= EventLimit)
  <2> DEFINE most == IF Head(all).generation > m.coverage THEN Head(all).generation ELSE m.coverage
  <2>1. n = [m EXCEPT !.events = Tail(all), !.coverage = most]
    BY <1>4 DEF Watch!Records
  <2>2. /\ Head(all) = all[1] /\ all[1].generation \in Nat /\ most \in Nat
        /\ m.coverage <= most /\ all[1].generation <= most
    <3>1. Head(all) = all[1] /\ all[1] \in WatchChanges
      BY <1>1
    <3>2. all[1].generation \in Nat
      BY <3>1 DEF WatchChanges
    <3>3. QED
      BY <1>1, <3>1, <3>2
  <2>3. /\ Tail(all) \in Seq(WatchChanges) /\ Len(Tail(all)) = Len(m.events)
        /\ \A i \in 1..Len(m.events) : Tail(all)[i] = all[i + 1]
    BY <1>1
  <2> HIDE DEF all, most
  <2>4. /\ n \in Monitors /\ n.events = Tail(all) /\ n.wd = m.wd /\ n.users = m.users
        /\ n.generation = m.generation /\ n.fallback = m.fallback /\ n.coverage = most
    BY <2>1, <2>2, <2>3 DEF Monitors
  <2>5. ASSUME NEW dirs, NEW f, NEW since \in Nat, NEW i \in 1..Len(all), Of(all[i], dirs, since, f)
        PROVE  Watch!Affects(n, dirs, since, f)
    <3>1. CASE i = 1
      BY <2>2, <2>4, <2>5, <3>1 DEF Watch!Affects
    <3>2. CASE i # 1
      <4>1. i - 1 \in 1..Len(m.events) /\ Tail(all)[i - 1] = all[i]
        BY <1>1, <2>3, <3>2
      <4>2. i - 1 \in DOMAIN n.events /\ n.events[i - 1] = all[i]
        BY <2>3, <2>4, <4>1
      <4>3. QED
        BY <2>5, <4>2 DEF Watch!Affects
    <3>3. QED
      BY <3>1, <3>2
  <2>6. \A dirs, f : \A since \in Nat :
          m.fallback \/ since < m.coverage => Watch!Affects(n, dirs, since, f)
    BY <2>2, <2>4, <1>1 DEF Watch!Affects
  <2> HIDE DEF Of
  <2>7. \A dirs, f : \A since \in Nat :
          /\ Watch!Affects(m, dirs, since, f) => Watch!Affects(n, dirs, since, f)
          /\ Of(e, dirs, since, f) => Watch!Affects(n, dirs, since, f)
    BY <1>2, <2>5, <2>6
  <2>8. QED
    BY <2>3, <2>4, <2>7 DEF Of
<1>5. QED
  BY <1>3, <1>4

\* An event of the kernel that names a file is told as a change of it, one
\* that ends a watch, or says that events were lost, as a change of anything.
LEMMA EventTells ==
    ASSUME NEW m \in Monitors, Len(m.events) <= EventLimit, NEW c \in Nat, Distinct(m, c),
           NEW e \in WatchEvents, NEW n, n = Watch!ReadEvent(m, e)
    PROVE  /\ n \in Monitors /\ Len(n.events) <= EventLimit
           /\ n.wd = m.wd /\ n.users = m.users /\ n.generation = m.generation
           /\ m.fallback => n.fallback
           /\ \A d \in Dirs : Ends(m, e, d) => n.fallback
           /\ \A dirs, f : \A since \in Nat :
                /\ Watch!Affects(m, dirs, since, f) => Watch!Affects(n, dirs, since, f)
                /\ since < m.generation /\ f \in Files /\ DirOf(f) \in dirs /\ Names(m, e, f)
                   => Watch!Affects(n, dirs, since, f)
<1> DEFINE known == {d \in Dirs : m.wd[d] # 0 /\ m.wd[d] = e.wd}
           falls == m.fallback \/ e = Watch!Overflow \/ (e.gone /\ known # {})
           lost == [m EXCEPT !.fallback = falls]
<1>1. /\ lost \in Monitors /\ lost.events = m.events /\ lost.wd = m.wd /\ lost.users = m.users
      /\ lost.generation = m.generation /\ lost.coverage = m.coverage
      /\ m.fallback => lost.fallback
      /\ lost.fallback <=> falls
  BY DEF Monitors, WatchEvents
<1>2. \A d \in Dirs : Ends(m, e, d) => lost.fallback
  BY <1>1 DEF Ends
<1>3. \A dirs, f : \A since \in Nat :
        Watch!Affects(m, dirs, since, f) => Watch!Affects(lost, dirs, since, f)
  BY <1>1 DEF Watch!Affects
<1>4. \A f \in Files : DirOf(f) \in Dirs
  BY WatchAssumption
<1>5. CASE known = {}
  <2>1. n = lost
    BY <1>5 DEF Watch!ReadEvent
  <2>2. \A f \in Files : Names(m, e, f) => lost.fallback
    BY <1>1, <1>4, <1>5 DEF Names
  <2> HIDE DEF lost, known
  <2>3. \A dirs, since, f : lost.fallback => Watch!Affects(lost, dirs, since, f)
    BY DEF Watch!Affects
  <2>4. QED
    BY <1>1, <1>2, <1>3, <2>1, <2>2, <2>3
<1>6. CASE known # {}
  <2>1. PICK d \in known : d = CHOOSE x \in known : TRUE
    BY <1>6
  <2> DEFINE change == [dir |-> d, path |-> e.path, tree |-> e.gone, generation |-> m.generation]
  <2>2. n = Watch!Records(lost, change)
    BY <1>6, <2>1 DEF Watch!ReadEvent
  <2>3. /\ change \in WatchChanges /\ change.generation = m.generation /\ change.dir = d
        /\ change.path = e.path /\ change.tree = e.gone
    BY <2>1 DEF WatchChanges, WatchEvents, Monitors
  <2>4. \A f \in Files : Names(m, e, f) =>
          lost.fallback \/ (DirOf(f) = d /\ e.path = f)
    BY <1>1, <1>4, <2>1 DEF Names, Distinct, Monitors
  <2>5. \A dirs, since, f : lost.fallback => Watch!Affects(lost, dirs, since, f)
    BY DEF Watch!Affects
  <2> HIDE DEF lost, known, falls, change
  <2>6. /\ n \in Monitors /\ Len(n.events) <= EventLimit
        /\ n.wd = lost.wd /\ n.users = lost.users /\ n.generation = lost.generation
        /\ n.fallback = lost.fallback
        /\ \A dirs, f : \A since \in Nat :
             /\ Watch!Affects(lost, dirs, since, f) => Watch!Affects(n, dirs, since, f)
             /\ /\ since < change.generation /\ change.dir \in dirs
                /\ change.path = f \/ (change.tree /\ change.path = DirOf(f))
                => Watch!Affects(n, dirs, since, f)
    BY <1>1, <2>2, <2>3, RecordTells
  <2>7. ASSUME NEW dirs, NEW f \in Files, NEW since \in Nat, since < m.generation,
               DirOf(f) \in dirs, Names(m, e, f)
        PROVE  Watch!Affects(n, dirs, since, f)
    BY <2>3, <2>4, <2>5, <2>6, <2>7
  <2>8. QED
    BY <1>1, <1>2, <1>3, <2>6, <2>7
<1>7. QED
  BY <1>5, <1>6

\* The recursion that reads the queue has a solution.
LEMMA ReadExists ==
    ASSUME NEW last \in Nat
    PROVE  \E f : f = [k \in 0..last |-> IF k = 0 THEN mon ELSE Watch!ReadNext(f[k - 1], k)]
<1> DEFINE At(f, k) == IF k = 0 THEN mon ELSE Watch!ReadNext(f[k - 1], k)
           numbers == {n \in Nat : \E f : f = [k \in 0..n |-> At(f, k)]}
<1>1. 0 \in numbers
  <2> DEFINE f == [k \in 0..0 |-> mon]
  <2>1. f = [k \in 0..0 |-> At(f, k)]
    OBVIOUS
  <2>2. QED
    BY <2>1
<1>2. ASSUME NEW n \in Nat, n \in numbers PROVE n + 1 \in numbers
  <2>1. PICK f : f = [k \in 0..n |-> At(f, k)]
    BY <1>2
  <2> DEFINE next == Watch!ReadNext(f[n], n + 1)
             g == [k \in 0..(n + 1) |-> IF k = n + 1 THEN next ELSE f[k]]
  <2> HIDE DEF next
  <2>2. (\A k \in 0..n : g[k] = f[k]) /\ g[n + 1] = next /\ DOMAIN g = 0..(n + 1)
    OBVIOUS
  <2>3. \A k \in 0..n : f[k] = At(f, k)
    BY <2>1
  <2>4. \A k \in 0..n : g[k] = At(g, k)
    BY <2>2, <2>3
  <2>5. g[n + 1] = At(g, n + 1)
    BY <2>2 DEF next
  <2>6. \A k \in 0..(n + 1) : g[k] = At(g, k)
    <3> HIDE DEF g, At
    <3>1. \A k \in 0..(n + 1) : k \in 0..n \/ k = n + 1
      OBVIOUS
    <3>2. QED
      BY <2>4, <2>5, <3>1
  <2>7. g = [k \in 0..(n + 1) |-> At(g, k)]
    <3>1. g = [k \in 0..(n + 1) |-> g[k]]
      OBVIOUS
    <3> HIDE DEF g
    <3>2. [k \in 0..(n + 1) |-> g[k]] = [k \in 0..(n + 1) |-> At(g, k)]
      BY <2>6
    <3>3. QED
      BY <3>1, <3>2
  <2>8. \E h : h = [k \in 0..(n + 1) |-> At(h, k)]
    <3> HIDE DEF g, At
    <3>1. QED
      BY <2>7
  <2>9. QED
    BY <2>8
<1>3. \A n \in Nat : n \in numbers
  <2> HIDE DEF numbers
  <2>1. QED
    BY <1>1, <1>2, Induction
<1>4. QED
  BY <1>3

LEMMA ReadIs ==
    ASSUME Watch!EventsRead \in Nat
    PROVE  /\ Watch!Read[0] = mon
           /\ \A k \in 1..Watch!EventsRead : Watch!Read[k] = Watch!ReadNext(Watch!Read[k - 1], k)
<1>1. Watch!Read = [k \in 0..Watch!EventsRead |->
        IF k = 0 THEN mon ELSE Watch!ReadNext(Watch!Read[k - 1], k)]
  BY ReadExists DEF Watch!Read
<1>2. \A k \in 0..Watch!EventsRead : Watch!Read[k] =
        IF k = 0 THEN mon ELSE Watch!ReadNext(Watch!Read[k - 1], k)
  BY <1>1
<1>3. QED
  BY <1>2

\* Whatever was read of the queue so far is told of a later generation.
ToldSoFar(k, m) ==
  /\ m \in Monitors /\ Len(m.events) <= EventLimit
  /\ m.wd = mon.wd /\ m.users = mon.users /\ (mon.fallback => m.fallback)
  /\ m.generation >= mon.generation /\ (k # 0 => m.generation > mon.generation)
  /\ \A d \in Dirs : \A i \in 1..k : Ends(mon, watchQueue[i], d) => m.fallback
  /\ \A dirs, f : \A since \in Nat : since <= mon.generation =>
       /\ Watch!Affects(mon, dirs, since, f) => Watch!Affects(m, dirs, since, f)
       /\ f \in Files /\ DirOf(f) \in dirs
          => \A i \in 1..k : Names(mon, watchQueue[i], f) => Watch!Affects(m, dirs, since, f)

\* The next event is told as well.
LEMMA NextTells ==
    ASSUME WatchTypes, Distinct(mon, count), NEW k \in Nat, k + 1 \in 1..Len(watchQueue),
           NEW m, ToldSoFar(k, m)
    PROVE  ToldSoFar(k + 1, Watch!ReadNext(m, k + 1))
<1> DEFINE e == watchQueue[k + 1]
           begun == [m EXCEPT !.generation = IF k % Batch = 0 THEN @ + 1 ELSE @]
           n == Watch!ReadEvent(begun, e)
<1>1. e \in WatchEvents /\ count \in Nat /\ mon \in Monitors /\ mon.generation \in Nat
  BY DEF WatchTypes, Monitors
<1>2. m \in Monitors /\ m.generation \in Nat /\ m.generation >= mon.generation
  BY DEF ToldSoFar, Monitors
<1>3. begun.generation > mon.generation
  <2>1. k = 0 => k % Batch = 0
    BY WatchAssumption
  <2>2. m.generation + 1 > mon.generation /\ (k # 0 => m.generation > mon.generation)
    BY <1>1, <1>2 DEF ToldSoFar
  <2>3. begun.generation = IF k % Batch = 0 THEN m.generation + 1 ELSE m.generation
    BY <1>2 DEF Monitors
  <2>4. QED
    BY <2>1, <2>2, <2>3
<1>4. /\ begun \in Monitors /\ begun.events = m.events /\ begun.wd = m.wd /\ begun.users = m.users
      /\ begun.coverage = m.coverage /\ begun.fallback = m.fallback
      /\ begun.generation \in Nat
  <2>1. (IF k % Batch = 0 THEN m.generation + 1 ELSE m.generation) \in Nat
    BY <1>2
  <2> DEFINE generation == IF k % Batch = 0 THEN m.generation + 1 ELSE m.generation
  <2>2. begun = [m EXCEPT !.generation = generation]
    BY <1>2 DEF Monitors
  <2> HIDE DEF generation, begun
  <2>3. generation \in Nat
    BY <2>1 DEF generation
  <2>4. QED
    BY <1>2, <2>2, <2>3 DEF Monitors
<1>5. Watch!ReadNext(m, k + 1) = n
  <2>1. (k + 1) - 1 = k
    OBVIOUS
  <2>2. QED
    BY <2>1 DEF Watch!ReadNext
<1>6. \A dirs, f, since : Watch!Affects(m, dirs, since, f) => Watch!Affects(begun, dirs, since, f)
  BY <1>4 DEF Watch!Affects
<1>7. Distinct(begun, count)
  BY <1>4 DEF Distinct, ToldSoFar
<1> HIDE DEF begun, e, n
<1>8. /\ n \in Monitors /\ Len(n.events) <= EventLimit
      /\ n.wd = begun.wd /\ n.users = begun.users /\ n.generation = begun.generation
      /\ begun.fallback => n.fallback
      /\ \A d \in Dirs : Ends(begun, e, d) => n.fallback
      /\ \A dirs, f : \A since \in Nat :
           /\ Watch!Affects(begun, dirs, since, f) => Watch!Affects(n, dirs, since, f)
           /\ since < begun.generation /\ f \in Files /\ DirOf(f) \in dirs /\ Names(begun, e, f)
              => Watch!Affects(n, dirs, since, f)
  <2>1. Len(begun.events) <= EventLimit
    BY <1>4 DEF ToldSoFar
  <2>2. QED
    BY <1>1, <1>4, <1>7, <2>1, EventTells DEF n
<1>9. /\ \A d : Ends(mon, e, d) => Ends(begun, e, d)
      /\ \A f : Names(mon, e, f) => Names(begun, e, f)
  BY <1>4 DEF Ends, Names, ToldSoFar
<1>10. \A i \in 1..(k + 1) : i \in 1..k \/ watchQueue[i] = e
  BY DEF e
<1>11. ASSUME NEW d \in Dirs, NEW i \in 1..(k + 1), Ends(mon, watchQueue[i], d)
       PROVE  n.fallback
  BY <1>4, <1>8, <1>9, <1>10, <1>11 DEF ToldSoFar
<1>12. ASSUME NEW dirs, NEW f, NEW since \in Nat, since <= mon.generation
       PROVE  /\ Watch!Affects(m, dirs, since, f) => Watch!Affects(n, dirs, since, f)
              /\ f \in Files /\ DirOf(f) \in dirs /\ Names(mon, e, f) => Watch!Affects(n, dirs, since, f)
  <2>1. since < begun.generation
    BY <1>1, <1>3, <1>4, <1>12
  <2>2. QED
    BY <1>6, <1>8, <1>9, <1>12, <2>1
<1>13. ASSUME NEW dirs, NEW f, NEW since \in Nat, since <= mon.generation
       PROVE  /\ Watch!Affects(mon, dirs, since, f) => Watch!Affects(n, dirs, since, f)
              /\ f \in Files /\ DirOf(f) \in dirs
                 => \A i \in 1..(k + 1) : Names(mon, watchQueue[i], f) => Watch!Affects(n, dirs, since, f)
  BY <1>10, <1>12, <1>13 DEF ToldSoFar
<1>14. /\ n.wd = mon.wd /\ n.users = mon.users /\ (mon.fallback => n.fallback)
       /\ n.generation > mon.generation /\ n.generation >= mon.generation
  BY <1>1, <1>3, <1>4, <1>8 DEF ToldSoFar
<1>15. QED
  BY <1>5, <1>8, <1>11, <1>13, <1>14 DEF ToldSoFar

\* After the queue was read nothing is left to be told.
LEMMA DrainReads ==
    ASSUME WatchTypes, Distinct(mon, count)
    PROVE  /\ Watch!Drained \in Monitors /\ Len(Watch!Drained.events) <= EventLimit
           /\ Watch!Drained.wd = mon.wd /\ Watch!Drained.users = mon.users
           /\ Watch!Drained.generation >= mon.generation
           /\ mon.fallback => Watch!Drained.fallback
           /\ Watch!Rest \in Seq(WatchEvents)
           /\ \A d \in Dirs : \A i \in DOMAIN watchQueue :
                Ends(mon, watchQueue[i], d) => Watch!Drained.fallback
           /\ \A r \in Readers : \A f \in Watch!Mine(r) : \A since \in Nat :
                since <= mon.generation /\ Noticed(mon, watchQueue, r, since, f)
                => Watch!Affects(Watch!Drained, Reads(r), since, f)
<1> DEFINE last == Watch!EventsRead
           m == Watch!Read[last]
           most == Batch * Batches
<1>1. /\ watchQueue \in Seq(WatchEvents) /\ Len(watchQueue) \in Nat /\ most \in Nat
      /\ last \in Nat /\ last <= Len(watchQueue) /\ (last = Len(watchQueue) \/ last = most)
  BY WatchAssumption DEF WatchTypes, Watch!EventsRead, Watch!Least
<1>2. Watch!Read[0] = mon
      /\ \A k \in 1..last : Watch!Read[k] = Watch!ReadNext(Watch!Read[k - 1], k)
  BY <1>1, ReadIs
<1> HIDE DEF last
<1> DEFINE numbers == {k \in Nat : k <= last => ToldSoFar(k, Watch!Read[k])}
<1>3. 0 \in numbers
  BY <1>2 DEF ToldSoFar, WatchTypes, Monitors
<1>4. ASSUME NEW k \in Nat, k \in numbers PROVE k + 1 \in numbers
  <2>1. SUFFICES ASSUME k + 1 <= last PROVE ToldSoFar(k + 1, Watch!Read[k + 1])
    OBVIOUS
  <2>2. k + 1 \in 1..last /\ k + 1 \in 1..Len(watchQueue) /\ (k + 1) - 1 = k /\ k <= last
    BY <1>1, <2>1
  <2>3. Watch!Read[k + 1] = Watch!ReadNext(Watch!Read[k], k + 1)
    BY <1>2, <2>2
  <2>4. ToldSoFar(k, Watch!Read[k])
    BY <1>4, <2>2
  <2>5. QED
    BY <2>2, <2>3, <2>4, NextTells
<1>5. ToldSoFar(last, m)
  <2>1. \A k \in Nat : k \in numbers
    <3> HIDE DEF numbers
    <3>1. QED
      BY <1>3, <1>4, Induction
  <2>2. QED
    BY <1>1, <2>1
<1> HIDE DEF m
<1>6. Watch!Drained = [m EXCEPT !.fallback = @ \/ last > Batch * (Batches - 1)]
  BY DEF Watch!Drained, m, last
<1>7. /\ Watch!Drained \in Monitors /\ Watch!Drained.events = m.events
      /\ Watch!Drained.wd = m.wd /\ Watch!Drained.users = m.users
      /\ Watch!Drained.generation = m.generation /\ Watch!Drained.coverage = m.coverage
      /\ Watch!Drained.fallback <=> (m.fallback \/ last > Batch * (Batches - 1))
  BY <1>5, <1>6 DEF ToldSoFar, Monitors
<1>8. last = most => Watch!Drained.fallback
  <2>1. Batch * (Batches - 1) = most - Batch /\ Batch \in Nat /\ Batch > 0
    BY WatchAssumption
  <2>2. most > Batch * (Batches - 1)
    BY <1>1, <2>1
  <2>3. QED
    BY <1>7, <2>2
<1>9. \A dirs, since, f :
        Watch!Affects(m, dirs, since, f) \/ Watch!Drained.fallback
        => Watch!Affects(Watch!Drained, dirs, since, f)
  BY <1>7 DEF Watch!Affects
<1>10. Watch!Rest \in Seq(WatchEvents)
  BY <1>1 DEF Watch!Rest
<1>11. ASSUME NEW d \in Dirs, NEW i \in DOMAIN watchQueue, Ends(mon, watchQueue[i], d)
       PROVE  Watch!Drained.fallback
  <2>1. CASE last = Len(watchQueue)
    BY <1>1, <1>5, <1>7, <1>11, <2>1 DEF ToldSoFar
  <2>2. QED
    BY <1>1, <1>8, <2>1
<1>12. ASSUME NEW r \in Readers, NEW f \in Watch!Mine(r), NEW since \in Nat, since <= mon.generation,
              Noticed(mon, watchQueue, r, since, f)
       PROVE  Watch!Affects(Watch!Drained, Reads(r), since, f)
  <2>1. f \in Files /\ DirOf(f) \in Reads(r)
    BY DEF Watch!Mine
  <2>2. CASE Watch!Affects(mon, Reads(r), since, f)
    BY <1>5, <1>9, <1>12, <2>2 DEF ToldSoFar
  <2>3. ASSUME NEW i \in DOMAIN watchQueue, Names(mon, watchQueue[i], f)
        PROVE  Watch!Affects(Watch!Drained, Reads(r), since, f)
    <3>1. CASE last = Len(watchQueue)
      <4>1. i \in 1..last
        BY <1>1, <3>1
      <4>2. Watch!Affects(m, Reads(r), since, f)
        BY <1>5, <1>12, <2>1, <2>3, <4>1 DEF ToldSoFar
      <4>3. QED
        BY <1>9, <4>2
    <3>2. QED
      BY <1>1, <1>8, <1>9, <3>1
  <2>4. QED
    BY <1>12, <2>2, <2>3 DEF Noticed
<1>13. QED
  BY <1>5, <1>7, <1>10, <1>11, <1>12 DEF ToldSoFar

-----------------------------------------------------------------------------
(* Steps *)

\* Readers that neither begin nor end keep what they rely on.
CoveringStays == \A r \in Readers : \A x \in WatchReadings : Covered(r, x) => Covered(r, x)'

LEMMA ReadersStay ==
    ASSUME WatchTypes, ReadersCovered, CoveringStays, UNCHANGED <<reading, snapshot>>
    PROVE  ReadersCovered'
<1>1. \A r \in Readers :
        /\ reading[r] # None => reading[r] \in WatchReadings
        /\ snapshot[r] # None => snapshot[r] \in WatchReadings
  BY DEF WatchTypes
<1>2. ASSUME NEW r \in Readers, NEW x, x = reading'[r], x # None PROVE Covered(r, x)'
  <2>1. x = reading[r]
    BY <1>2
  <2>2. Covered(r, x) /\ x \in WatchReadings
    BY <1>1, <1>2, <2>1 DEF ReadersCovered
  <2>3. QED
    BY <2>2 DEF CoveringStays
<1>3. ASSUME NEW r \in Readers, NEW x, x = snapshot'[r], x # None
      PROVE  Covered(r, x)' /\ DOMAIN x.read = Watch!Mine(r)
  <2>1. x = snapshot[r]
    BY <1>3
  <2>2. Covered(r, x) /\ x \in WatchReadings /\ DOMAIN x.read = Watch!Mine(r)
    BY <1>1, <1>3, <2>1 DEF ReadersCovered
  <2>3. QED
    BY <2>2 DEF CoveringStays
<1>4. QED
  BY <1>2, <1>3 DEF ReadersCovered

\* It is enough that a file that was noticed or kept is so still.
LEMMA CoveringIs ==
    ASSUME mon' \in Monitors, mon \in Monitors, mon'.generation >= mon.generation,
           \A r \in Readers : \A x \in WatchReadings : \A f \in Watch!Mine(r) :
             /\ x.generation <= mon.generation
             /\ Noticed(mon, watchQueue, r, x.generation, f) \/ Kept(x, f)
             => Noticed(mon', watchQueue', r, x.generation, f) \/ Kept(x, f)'
    PROVE  CoveringStays
<1>1. SUFFICES ASSUME NEW r \in Readers, NEW x \in WatchReadings, Covered(r, x) PROVE Covered(r, x)'
  BY DEF CoveringStays
<1>2. x.generation <= mon'.generation
  <2>1. x.generation \in Nat /\ mon.generation \in Nat /\ mon'.generation \in Nat
    BY DEF WatchReadings, Monitors
  <2>2. QED
    BY <1>1, <2>1 DEF Covered
<1>3. \A f \in Watch!Mine(r) : Noticed(mon', watchQueue', r, x.generation, f) \/ Kept(x, f)'
  BY <1>1 DEF Covered
<1>4. DOMAIN x.read \subseteq Watch!Mine(r)
  BY <1>1 DEF Covered
<1>5. QED
  BY <1>2, <1>3, <1>4 DEF Covered

\* The kernel queues an event of a watch, or says that some were lost.
LEMMA QueuedHas ==
    ASSUME NEW q \in Seq(WatchEvents), NEW e \in WatchEvents, NEW n, n = Watch!Queued(q, e)
    PROVE  /\ n \in Seq(WatchEvents)
           /\ \A i \in DOMAIN q : i \in DOMAIN n /\ n[i] = q[i]
           /\ e.wd # 0 => \E i \in DOMAIN n : n[i] = e \/ n[i] = Watch!Overflow
<1>1. Watch!Overflow \in WatchEvents
  BY DEF Watch!Overflow, WatchEvents, WatchPaths
<1>2. \A x \in WatchEvents : LET a == Append(q, x) IN
        /\ a \in Seq(WatchEvents) /\ Len(a) = Len(q) + 1 /\ Len(a) \in DOMAIN a /\ a[Len(a)] = x
        /\ \A i \in DOMAIN q : i \in DOMAIN a /\ a[i] = q[i]
  OBVIOUS
<1>3. CASE e.wd = 0
  BY <1>3 DEF Watch!Queued
<1>4. CASE e.wd # 0 /\ q # <<>> /\ q[Len(q)] = Watch!Overflow
  <2>1. n = q /\ Len(q) \in DOMAIN q
    BY <1>4 DEF Watch!Queued
  <2>2. QED
    BY <1>4, <2>1
<1>5. CASE e.wd # 0 /\ ~(q # <<>> /\ q[Len(q)] = Watch!Overflow)
  <2>1. n = Append(q, e) \/ n = Append(q, Watch!Overflow)
    BY <1>5 DEF Watch!Queued
  <2>2. QED
    BY <1>1, <1>2, <2>1
<1>6. QED
  BY <1>3, <1>4, <1>5

\* A longer queue notices no less.
LEMMA LongerNotices ==
    ASSUME NEW q, NEW n, \A i \in DOMAIN q : i \in DOMAIN n /\ n[i] = q[i]
    PROVE  /\ \A m, r, since, f : Noticed(m, q, r, since, f) => Noticed(m, n, r, since, f)
           /\ \A m, d : (\E i \in DOMAIN q : Ends(m, q[i], d)) => \E i \in DOMAIN n : Ends(m, n[i], d)
<1>1. \A m, r, since, f : Noticed(m, q, r, since, f) => Noticed(m, n, r, since, f)
  BY DEF Noticed
<1>2. \A m, d : (\E i \in DOMAIN q : Ends(m, q[i], d)) => \E i \in DOMAIN n : Ends(m, n[i], d)
  OBVIOUS
<1>3. QED
  BY <1>1, <1>2

LEMMA MineIs ==
    \A r \in Readers : \A f \in Watch!Mine(r) :
      f \in Files /\ DirOf(f) \in Reads(r) /\ DirOf(f) \in Dirs
BY WatchAssumption DEF Watch!Mine

LEMMA WatchInit == ASSUME Watch!Init PROVE WatchInv
<1>1. WatchTypes
  <2>1. mon \in Monitors /\ Len(mon.events) <= EventLimit
    BY WatchAssumption DEF Watch!Init, Monitors
  <2>2. QED
    BY <2>1 DEF Watch!Init, WatchTypes
<1>2. Distinct(mon, count) /\ Watching /\ ReadersCovered
  BY DEF Watch!Init, Distinct, Watching, ReadersCovered
<1>3. WatchCounted
  <2>1. \A d \in Dirs : UsersOf(d) = {}
    BY DEF Watch!Init, UsersOf
  <2>2. \A d \in Dirs : Cardinality(UsersOf(d)) = 0
    BY <2>1, FS_EmptySet
  <2>3. QED
    BY <2>2 DEF Watch!Init, WatchCounted
<1>4. QED
  BY <1>1, <1>2, <1>3 DEF WatchInv

LEMMA ChangeStep == ASSUME WatchInv, NEW c \in Files, Watch!Change(c) PROVE WatchInv'
<1> DEFINE e == [wd |-> watched[DirOf(c)], path |-> c, gone |-> FALSE]
<1>1. WatchTypes /\ WatchCounted /\ Watching /\ ReadersCovered /\ Distinct(mon, count)
  BY DEF WatchInv
<1>2. /\ version' = [version EXCEPT ![c] = @ + 1] /\ watchQueue' = Watch!Queued(watchQueue, e)
      /\ UNCHANGED <<present, watched, count, mon, uses, reading, snapshot>>
  BY DEF Watch!Change
<1>3. DirOf(c) \in Dirs /\ watched[DirOf(c)] \in Nat
  BY <1>1, WatchAssumption DEF WatchTypes
<1>4. e \in WatchEvents /\ e.wd = watched[DirOf(c)] /\ e.path = c
  BY <1>3 DEF WatchEvents, WatchPaths
<1>5. version' \in [Files -> Nat] /\ \A f \in Files \ {c} : version'[f] = version[f]
  BY <1>1, <1>2 DEF WatchTypes
<1> HIDE DEF e
<1>6. /\ watchQueue' \in Seq(WatchEvents)
      /\ \A i \in DOMAIN watchQueue : i \in DOMAIN watchQueue' /\ watchQueue'[i] = watchQueue[i]
      /\ e.wd # 0 => \E i \in DOMAIN watchQueue' : watchQueue'[i] = e \/ watchQueue'[i] = Watch!Overflow
  BY <1>1, <1>2, <1>4, QueuedHas DEF WatchTypes
<1>7. /\ \A m, r, since, f :
           Noticed(m, watchQueue, r, since, f) => Noticed(m, watchQueue', r, since, f)
      /\ \A m, d : (\E i \in DOMAIN watchQueue : Ends(m, watchQueue[i], d))
                   => \E i \in DOMAIN watchQueue' : Ends(m, watchQueue'[i], d)
  BY <1>6, LongerNotices
<1>8. WatchTypes'
  BY <1>1, <1>2, <1>5, <1>6 DEF WatchTypes
<1>9. Distinct(mon, count)' /\ WatchCounted'
  <2>1. \A d \in Dirs : UsersOf(d)' = UsersOf(d)
    BY <1>2 DEF UsersOf
  <2>2. QED
    BY <1>1, <1>2, <2>1 DEF WatchCounted, Distinct
<1>10. Watching'
  BY <1>1, <1>2, <1>7 DEF Watching
<1>11. ASSUME NEW r \in Readers, NEW x \in WatchReadings, NEW f \in Watch!Mine(r), Kept(x, f)
       PROVE  Noticed(mon', watchQueue', r, x.generation, f) \/ Kept(x, f)'
  <2>1. f \in Files
    BY MineIs
  <2>2. CASE f # c
    BY <1>2, <1>5, <1>11, <2>1, <2>2 DEF Kept
  <2>3. CASE f = c
    <3>1. e.wd # 0 /\ mon'.wd[DirOf(f)] # 0 /\ e.wd = mon'.wd[DirOf(f)] /\ e.path = f
      BY <1>2, <1>4, <1>11, <2>3 DEF Kept
    <3>2. \E i \in DOMAIN watchQueue' : Names(mon', watchQueue'[i], f)
      BY <1>6, <3>1 DEF Names
    <3>3. QED
      BY <3>2 DEF Noticed
  <2>4. QED
    BY <2>2, <2>3
<1>12. CoveringStays
  <2>1. mon \in Monitors /\ mon.generation \in Nat
    BY <1>1 DEF WatchTypes, Monitors
  <2>2. mon' \in Monitors /\ mon'.generation >= mon.generation
    BY <1>2, <2>1
  <2>3. QED
    BY <1>2, <1>7, <1>11, <2>1, <2>2, CoveringIs
<1>13. QED
  BY <1>1, <1>2, <1>8, <1>9, <1>10, <1>12, ReadersStay DEF WatchInv

LEMMA VanishStep == ASSUME WatchInv, NEW g \in Dirs, Watch!Vanish(g) PROVE WatchInv'
<1> DEFINE e == [wd |-> watched[g], path |-> g, gone |-> TRUE]
<1>1. WatchTypes /\ WatchCounted /\ Watching /\ ReadersCovered /\ Distinct(mon, count)
  BY DEF WatchInv
<1>2. /\ version' = [f \in Files |-> IF DirOf(f) = g THEN version[f] + 1 ELSE version[f]]
      /\ present' = present \ {g} /\ watched' = [watched EXCEPT ![g] = 0]
      /\ watchQueue' = Watch!Queued(watchQueue, e)
      /\ UNCHANGED <<count, mon, uses, reading, snapshot>>
  BY DEF Watch!Vanish
<1>3. e \in WatchEvents /\ e.wd = watched[g] /\ e.gone
  BY <1>1 DEF WatchEvents, WatchPaths, WatchTypes
<1>4. /\ version' \in [Files -> Nat] /\ watched' \in [Dirs -> Nat]
      /\ \A f \in Files : DirOf(f) # g => version'[f] = version[f]
      /\ \A d \in Dirs \ {g} : watched'[d] = watched[d]
  BY <1>1, <1>2 DEF WatchTypes
<1> HIDE DEF e
<1>5. /\ watchQueue' \in Seq(WatchEvents)
      /\ \A i \in DOMAIN watchQueue : i \in DOMAIN watchQueue' /\ watchQueue'[i] = watchQueue[i]
      /\ e.wd # 0 => \E i \in DOMAIN watchQueue' : watchQueue'[i] = e \/ watchQueue'[i] = Watch!Overflow
  BY <1>1, <1>2, <1>3, QueuedHas DEF WatchTypes
<1>6. /\ \A m, r, since, f :
           Noticed(m, watchQueue, r, since, f) => Noticed(m, watchQueue', r, since, f)
      /\ \A m, d : (\E i \in DOMAIN watchQueue : Ends(m, watchQueue[i], d))
                   => \E i \in DOMAIN watchQueue' : Ends(m, watchQueue'[i], d)
  BY <1>5, LongerNotices
<1>7. WatchTypes'
  BY <1>1, <1>2, <1>4, <1>5 DEF WatchTypes
<1>8. Distinct(mon, count)' /\ WatchCounted'
  <2>1. \A d \in Dirs : UsersOf(d)' = UsersOf(d)
    BY <1>2 DEF UsersOf
  <2>2. QED
    BY <1>1, <1>2, <2>1 DEF WatchCounted, Distinct
<1>9. Watching'
  <2>1. SUFFICES ASSUME NEW d \in Dirs, mon.wd[d] # 0, ~mon.fallback, watched'[d] # mon.wd[d]
                 PROVE  \E i \in DOMAIN watchQueue' : Ends(mon, watchQueue'[i], d)
    BY <1>2 DEF Watching
  <2>2. CASE watched[d] # mon.wd[d]
    BY <1>1, <1>6, <2>1, <2>2 DEF Watching
  <2>3. CASE watched[d] = mon.wd[d]
    <3>1. d = g /\ e.wd = mon.wd[d]
      BY <1>3, <1>4, <2>1, <2>3
    <3>2. QED
      BY <1>3, <1>5, <2>1, <3>1 DEF Ends
  <2>4. QED
    BY <2>2, <2>3
<1>10. ASSUME NEW r \in Readers, NEW x \in WatchReadings, NEW f \in Watch!Mine(r), Kept(x, f)
       PROVE  Noticed(mon', watchQueue', r, x.generation, f) \/ Kept(x, f)'
  <2>1. f \in Files /\ DirOf(f) \in Dirs
    BY MineIs
  <2>2. CASE DirOf(f) # g
    BY <1>2, <1>4, <1>10, <2>1, <2>2 DEF Kept
  <2>3. CASE DirOf(f) = g
    <3>1. e.wd # 0 /\ mon'.wd[DirOf(f)] # 0 /\ e.wd = mon'.wd[DirOf(f)]
      BY <1>2, <1>3, <1>10, <2>3 DEF Kept
    <3>2. \E i \in DOMAIN watchQueue' : Names(mon', watchQueue'[i], f)
      BY <1>3, <1>5, <3>1 DEF Names
    <3>3. QED
      BY <3>2 DEF Noticed
  <2>4. QED
    BY <2>2, <2>3
<1>11. CoveringStays
  <2>1. mon \in Monitors /\ mon.generation \in Nat
    BY <1>1 DEF WatchTypes, Monitors
  <2>2. mon' \in Monitors /\ mon'.generation >= mon.generation
    BY <1>2, <2>1
  <2>3. QED
    BY <1>2, <1>6, <1>10, <2>1, <2>2, CoveringIs
<1>12. QED
  BY <1>1, <1>2, <1>7, <1>8, <1>9, <1>11, ReadersStay DEF WatchInv

LEMMA CreateStep == ASSUME WatchInv, NEW d \in Dirs, Watch!Create(d) PROVE WatchInv'
<1>1. WatchTypes /\ WatchCounted /\ Watching /\ ReadersCovered /\ Distinct(mon, count)
  BY DEF WatchInv
<1>2. present' = present \union {d}
      /\ UNCHANGED <<version, watched, watchQueue, count, mon, uses, reading, snapshot>>
  BY DEF Watch!Create
<1>3. WatchTypes'
  BY <1>1, <1>2 DEF WatchTypes
<1>4. Distinct(mon, count)' /\ Watching'
  BY <1>1, <1>2 DEF Distinct, Watching
<1>5. WatchCounted'
  <2>1. \A c \in Dirs : UsersOf(c)' = UsersOf(c)
    BY <1>2 DEF UsersOf
  <2>2. QED
    BY <1>1, <1>2, <2>1 DEF WatchCounted
<1>6. CoveringStays
  <2>1. \A x, f : Kept(x, f) => Kept(x, f)'
    BY <1>2 DEF Kept
  <2>2. QED
    BY <1>2, <2>1 DEF CoveringStays, Covered
<1>7. QED
  BY <1>1, <1>2, <1>3, <1>4, <1>5, <1>6, ReadersStay DEF WatchInv

\* One reader more or less uses d.
LEMMA UsersChange ==
    ASSUME NEW r \in Readers, NEW d \in Dirs, uses \in [Readers -> SUBSET Dirs],
           NEW some \in SUBSET Dirs, uses' = [uses EXCEPT ![r] = some],
           \A c \in Dirs \ {d} : c \in some <=> c \in uses[r]
    PROVE  /\ \A c \in Dirs \ {d} : UsersOf(c)' = UsersOf(c)
           /\ d \notin uses[r] /\ d \in some
              => Cardinality(UsersOf(d)') = Cardinality(UsersOf(d)) + 1
           /\ d \in uses[r] /\ d \notin some
              => Cardinality(UsersOf(d)') = Cardinality(UsersOf(d)) - 1
           /\ \A c \in Dirs : Cardinality(UsersOf(c)) \in Nat
           /\ d \in uses[r] => Cardinality(UsersOf(d)) # 0
<1>1. /\ uses'[r] = some /\ \A s \in Readers \ {r} : uses'[s] = uses[s]
  OBVIOUS
<1>2. \A c \in Dirs \ {d} : UsersOf(c)' = UsersOf(c)
  BY <1>1 DEF UsersOf
<1>3. \A c \in Dirs : IsFiniteSet(UsersOf(c))
  BY WatchAssumption, FS_Subset DEF UsersOf
<1>4. \A c \in Dirs : Cardinality(UsersOf(c)) \in Nat
  BY <1>3, FS_CardinalityType
<1>5. CASE d \notin uses[r] /\ d \in some
  <2>1. UsersOf(d)' = UsersOf(d) \union {r} /\ r \notin UsersOf(d)
    BY <1>1, <1>5 DEF UsersOf
  <2>2. Cardinality(UsersOf(d) \union {r}) = Cardinality(UsersOf(d)) + 1
    BY <1>3, <2>1, FS_AddElement
  <2>3. QED
    BY <1>2, <1>4, <1>5, <2>1, <2>2
<1>6. CASE d \in uses[r] /\ d \notin some
  <2>1. UsersOf(d)' = UsersOf(d) \ {r} /\ r \in UsersOf(d)
    BY <1>1, <1>6 DEF UsersOf
  <2>2. Cardinality(UsersOf(d) \ {r}) = Cardinality(UsersOf(d)) - 1
    BY <1>3, <2>1, FS_RemoveElement
  <2>3. QED
    BY <1>2, <1>3, <1>4, <1>6, <2>1, <2>2, FS_EmptySet
<1>7. d \in uses[r] => Cardinality(UsersOf(d)) # 0
  <2>1. d \in uses[r] => UsersOf(d) # {}
    BY DEF UsersOf
  <2>2. QED
    BY <1>3, <2>1, FS_EmptySet
<1>8. QED
  BY <1>2, <1>4, <1>5, <1>6, <1>7

LEMMA RegisterStep ==
    ASSUME WatchInv, NEW r \in Readers, NEW d \in Dirs, Watch!Register(r, d)
    PROVE  WatchInv'
<1> DEFINE some == uses[r] \union {d}
<1>1. WatchTypes /\ WatchCounted /\ Watching /\ ReadersCovered /\ Distinct(mon, count)
  BY DEF WatchInv
<1>2. /\ d \notin uses[r] /\ uses' = [uses EXCEPT ![r] = some]
      /\ UNCHANGED <<version, present, watchQueue, reading, snapshot>>
  BY DEF Watch!Register
<1>3. uses \in [Readers -> SUBSET Dirs] /\ some \in SUBSET Dirs /\ uses' \in [Readers -> SUBSET Dirs]
      /\ d \in some /\ \A c \in Dirs \ {d} : c \in some <=> c \in uses[r]
  BY <1>1, <1>2 DEF WatchTypes
<1>4. /\ \A c \in Dirs \ {d} : UsersOf(c)' = UsersOf(c)
      /\ Cardinality(UsersOf(d)') = Cardinality(UsersOf(d)) + 1
      /\ Cardinality(UsersOf(d)) \in Nat
  <2> HIDE DEF some
  <2>1. QED
    BY <1>2, <1>3, UsersChange
<1>5. /\ mon \in Monitors /\ mon.wd \in [Dirs -> Nat] /\ mon.users \in [Dirs -> Nat]
      /\ mon.generation \in Nat /\ count \in Nat /\ watched \in [Dirs -> Nat]
  BY <1>1 DEF WatchTypes, Monitors
\* The number that is left or given; what is recorded does not change.
<1>6. ASSUME mon' \in Monitors, mon'.events = mon.events, mon'.coverage = mon.coverage,
             mon'.generation = mon.generation, mon.fallback => mon'.fallback,
             watched' \in [Dirs -> Nat], count' \in Nat, Distinct(mon, count)', WatchCounted', Watching',
             \A c \in Dirs : mon.wd[c] # 0 => mon'.wd[c] = mon.wd[c] /\ watched'[c] = watched[c]
      PROVE  WatchInv'
  <2>1. WatchTypes'
    BY <1>1, <1>2, <1>3, <1>6 DEF WatchTypes
  <2>2. ASSUME NEW x \in WatchReadings, NEW s \in Readers, NEW f \in Watch!Mine(s)
        PROVE  /\ Noticed(mon, watchQueue, s, x.generation, f)
                  => Noticed(mon', watchQueue', s, x.generation, f)
               /\ Kept(x, f) => Kept(x, f)'
    <3>1. DirOf(f) \in Dirs
      BY MineIs
    <3>2. Watch!Affects(mon, Reads(s), x.generation, f) => Watch!Affects(mon', Reads(s), x.generation, f)
      BY <1>6 DEF Watch!Affects
    <3>3. \A i : Names(mon, watchQueue[i], f) => Names(mon', watchQueue[i], f)
      BY <1>6, <3>1 DEF Names
    <3>4. Kept(x, f) => Kept(x, f)'
      BY <1>2, <1>6, <3>1 DEF Kept
    <3>5. QED
      BY <1>2, <3>2, <3>3, <3>4 DEF Noticed
  <2>3. CoveringStays
    <3>1. mon'.generation >= mon.generation
      BY <1>5, <1>6
    <3>2. QED
      BY <1>5, <1>6, <2>2, <3>1, CoveringIs
  <2>4. QED
    BY <1>1, <1>2, <1>6, <2>1, <2>3, ReadersStay DEF WatchInv
<1>7. CASE mon.users[d] > 0
  <2>1. mon' = [mon EXCEPT !.users = [mon.users EXCEPT ![d] = mon.users[d] + 1]]
        /\ UNCHANGED <<watched, count>>
    BY <1>5, <1>7 DEF Watch!Register, Monitors
  <2>2. [mon.users EXCEPT ![d] = mon.users[d] + 1] \in [Dirs -> Nat]
    BY <1>5
  <2>3. /\ mon' \in Monitors /\ mon'.events = mon.events /\ mon'.coverage = mon.coverage
        /\ mon'.generation = mon.generation /\ mon'.fallback = mon.fallback /\ mon'.wd = mon.wd
        /\ mon'.users = [mon.users EXCEPT ![d] = mon.users[d] + 1]
    BY <1>5, <2>1, <2>2 DEF Monitors
  <2>4. Distinct(mon, count)'
    BY <1>1, <2>1, <2>3 DEF Distinct
  <2>5. Watching'
    BY <1>1, <1>2, <2>1, <2>3 DEF Watching, Ends
  <2>6. WatchCounted'
    <3>1. mon'.users[d] = mon.users[d] + 1 /\ \A c \in Dirs \ {d} : mon'.users[c] = mon.users[c]
      BY <1>5, <2>3
    <3>2. QED
      BY <1>1, <1>4, <1>5, <1>7, <2>3, <3>1 DEF WatchCounted
  <2>7. QED
    BY <1>5, <1>6, <2>1, <2>3, <2>4, <2>5, <2>6
<1>8. CASE ~(mon.users[d] > 0) /\ mon.fallback
  <2>1. UNCHANGED <<mon, watched, count>>
    BY <1>8 DEF Watch!Register
  <2>2. Distinct(mon, count)' /\ Watching' /\ WatchCounted'
    BY <1>1, <1>2, <1>8, <2>1 DEF Distinct, Watching, WatchCounted
  <2>3. QED
    BY <1>5, <1>6, <2>1, <2>2
<1>9. CASE ~(mon.users[d] > 0) /\ ~mon.fallback /\ d \notin present
  <2>1. mon' = [mon EXCEPT !.fallback = TRUE] /\ UNCHANGED <<watched, count>>
    BY <1>9 DEF Watch!Register
  <2>2. /\ mon' \in Monitors /\ mon'.events = mon.events /\ mon'.coverage = mon.coverage
        /\ mon'.generation = mon.generation /\ mon'.fallback /\ mon'.wd = mon.wd
    BY <1>5, <2>1 DEF Monitors
  <2>3. Distinct(mon, count)' /\ Watching' /\ WatchCounted'
    BY <1>1, <1>2, <2>1, <2>2 DEF Distinct, Watching, WatchCounted
  <2>4. QED
    BY <1>5, <1>6, <2>1, <2>2, <2>3
<1>10. CASE ~(mon.users[d] > 0) /\ ~mon.fallback /\ d \in present
  <2>1. /\ count' = count + 1 /\ watched' = [watched EXCEPT ![d] = count + 1]
        /\ mon' = [mon EXCEPT !.wd = [mon.wd EXCEPT ![d] = count + 1],
                              !.users = [mon.users EXCEPT ![d] = 1]]
    BY <1>5, <1>10 DEF Watch!Register, Monitors
  <2>2. /\ [mon.wd EXCEPT ![d] = count + 1] \in [Dirs -> Nat]
        /\ [mon.users EXCEPT ![d] = 1] \in [Dirs -> Nat]
    BY <1>5
  <2>3. /\ mon' \in Monitors /\ mon'.events = mon.events /\ mon'.coverage = mon.coverage
        /\ mon'.generation = mon.generation /\ mon'.fallback = mon.fallback
        /\ mon'.wd = [mon.wd EXCEPT ![d] = count + 1] /\ mon'.users = [mon.users EXCEPT ![d] = 1]
    BY <1>5, <2>1, <2>2 DEF Monitors
  <2>4. /\ mon'.wd[d] = count + 1 /\ \A c \in Dirs \ {d} : mon'.wd[c] = mon.wd[c]
        /\ mon'.users[d] = 1 /\ \A c \in Dirs \ {d} : mon'.users[c] = mon.users[c]
        /\ watched'[d] = count + 1 /\ \A c \in Dirs \ {d} : watched'[c] = watched[c]
        /\ watched' \in [Dirs -> Nat] /\ count' \in Nat
    BY <1>5, <2>1, <2>3
  <2>5. mon.users[d] = 0 /\ mon.wd[d] = 0 /\ Cardinality(UsersOf(d)) = 0
    BY <1>1, <1>5, <1>10 DEF WatchCounted
  <2>6. Distinct(mon, count)'
    <3>1. \A c \in Dirs : mon.wd[c] \in Nat /\ mon.wd[c] <= count
      BY <1>1, <1>5 DEF Distinct
    <3>2. \A c \in Dirs : mon'.wd[c] <= count'
      BY <1>5, <2>1, <2>4, <3>1
    <3>3. ASSUME NEW b \in Dirs, NEW c \in Dirs, mon'.wd[b] = mon'.wd[c], mon'.wd[b] # 0 PROVE b = c
      BY <1>1, <1>5, <2>4, <3>1, <3>3 DEF Distinct
    <3>4. QED
      BY <3>2, <3>3 DEF Distinct
  <2>7. Watching'
    BY <1>1, <1>2, <2>3, <2>4 DEF Watching, Ends
  <2>8. WatchCounted'
    BY <1>1, <1>4, <1>5, <2>3, <2>4, <2>5 DEF WatchCounted
  <2>9. \A c \in Dirs : mon.wd[c] # 0 => mon'.wd[c] = mon.wd[c] /\ watched'[c] = watched[c]
    BY <2>4, <2>5
  <2>10. QED
    BY <1>6, <2>3, <2>4, <2>6, <2>7, <2>8, <2>9
<1>11. QED
  BY <1>7, <1>8, <1>9, <1>10

LEMMA UnregisterStep ==
    ASSUME WatchInv, NEW r \in Readers, NEW d \in Dirs, Watch!Unregister(r, d)
    PROVE  WatchInv'
<1> DEFINE some == uses[r] \ {d}
<1>1. WatchTypes /\ WatchCounted /\ Watching /\ ReadersCovered /\ Distinct(mon, count)
  BY DEF WatchInv
<1>2. /\ d \in uses[r] /\ uses' = [uses EXCEPT ![r] = some]
      /\ UNCHANGED <<version, present, watchQueue, count, reading, snapshot>>
  BY DEF Watch!Unregister
<1>3. uses \in [Readers -> SUBSET Dirs] /\ some \in SUBSET Dirs /\ uses' \in [Readers -> SUBSET Dirs]
      /\ d \notin some /\ \A c \in Dirs \ {d} : c \in some <=> c \in uses[r]
  BY <1>1, <1>2 DEF WatchTypes
<1>4. /\ \A c \in Dirs \ {d} : UsersOf(c)' = UsersOf(c)
      /\ Cardinality(UsersOf(d)') = Cardinality(UsersOf(d)) - 1
      /\ Cardinality(UsersOf(d)) \in Nat /\ Cardinality(UsersOf(d)) # 0
  <2> HIDE DEF some
  <2>1. QED
    BY <1>2, <1>3, UsersChange
<1>5. /\ mon \in Monitors /\ mon.wd \in [Dirs -> Nat] /\ mon.users \in [Dirs -> Nat]
      /\ mon.generation \in Nat /\ count \in Nat /\ watched \in [Dirs -> Nat]
  BY <1>1 DEF WatchTypes, Monitors
<1>6. CASE mon.users[d] = 0
  <2>1. UNCHANGED <<mon, watched>>
    BY <1>6 DEF Watch!Unregister
  <2>2. mon.fallback
    BY <1>1, <1>4, <1>6 DEF WatchCounted
  <2>3. WatchTypes'
    BY <1>1, <1>2, <1>3, <2>1 DEF WatchTypes
  <2>4. Distinct(mon, count)' /\ Watching' /\ WatchCounted'
    BY <1>1, <1>2, <2>1, <2>2 DEF Distinct, Watching, WatchCounted
  <2>5. CoveringStays
    <3>1. \A x, f : Kept(x, f) => Kept(x, f)'
      BY <1>2, <2>1 DEF Kept
    <3>2. QED
      BY <1>2, <2>1, <3>1 DEF CoveringStays, Covered
  <2>6. QED
    BY <1>1, <1>2, <2>3, <2>4, <2>5, ReadersStay DEF WatchInv
<1>7. CASE mon.users[d] # 0 /\ ~Watch!NoOthers(d)
  <2>1. mon' = [mon EXCEPT !.users = [mon.users EXCEPT ![d] = mon.users[d] - 1]]
        /\ watched' = watched
    BY <1>5, <1>7 DEF Watch!Unregister, Monitors
  <2>2. mon.users[d] \in Nat /\ mon.users[d] > 1 /\ mon.users[d] - 1 \in Nat
    BY <1>5, <1>7 DEF Watch!NoOthers
  <2>3. [mon.users EXCEPT ![d] = mon.users[d] - 1] \in [Dirs -> Nat]
    BY <1>5, <2>2
  <2>4. /\ mon' \in Monitors /\ mon'.events = mon.events /\ mon'.coverage = mon.coverage
        /\ mon'.generation = mon.generation /\ mon'.fallback = mon.fallback /\ mon'.wd = mon.wd
        /\ mon'.users = [mon.users EXCEPT ![d] = mon.users[d] - 1]
    BY <1>5, <2>1, <2>3 DEF Monitors
  <2>5. WatchTypes'
    BY <1>1, <1>2, <1>3, <2>1, <2>4 DEF WatchTypes
  <2>6. Distinct(mon, count)' /\ Watching'
    BY <1>1, <1>2, <2>1, <2>4 DEF Distinct, Watching, Ends
  <2>7. WatchCounted'
    <3>1. mon'.users[d] = mon.users[d] - 1 /\ \A c \in Dirs \ {d} : mon'.users[c] = mon.users[c]
      BY <1>5, <2>4
    <3>2. QED
      BY <1>1, <1>4, <2>2, <2>4, <3>1 DEF WatchCounted
  <2>8. CoveringStays
    <3>1. \A x, f : Kept(x, f) => Kept(x, f)'
      BY <1>2, <2>1, <2>4 DEF Kept
    <3>2. \A s, since, f : Noticed(mon, watchQueue, s, since, f) => Noticed(mon', watchQueue', s, since, f)
      BY <1>2, <2>4 DEF Noticed, Names, Watch!Affects
    <3>3. mon'.generation >= mon.generation
      BY <1>5, <2>4
    <3>4. QED
      BY <1>5, <2>4, <3>1, <3>2, <3>3, CoveringIs
  <2>9. QED
    BY <1>1, <1>2, <2>5, <2>6, <2>7, <2>8, ReadersStay DEF WatchInv
<1>8. CASE mon.users[d] # 0 /\ Watch!NoOthers(d)
  <2> DEFINE left == [mon EXCEPT !.wd = [mon.wd EXCEPT ![d] = 0], !.users = [mon.users EXCEPT ![d] = 0],
                                 !.generation = mon.generation + 1]
             change == [dir |-> d, path |-> d, tree |-> TRUE, generation |-> mon.generation + 1]
  <2>1. mon' = Watch!Records(left, change) /\ watched' = [watched EXCEPT ![d] = 0]
    BY <1>5, <1>8 DEF Watch!Unregister, Monitors
  <2>2. /\ [mon.wd EXCEPT ![d] = 0] \in [Dirs -> Nat] /\ [mon.users EXCEPT ![d] = 0] \in [Dirs -> Nat]
        /\ mon.generation + 1 \in Nat
    BY <1>5
  <2>3. /\ left \in Monitors /\ left.events = mon.events /\ left.coverage = mon.coverage
        /\ left.fallback = mon.fallback /\ left.generation = mon.generation + 1
        /\ left.wd = [mon.wd EXCEPT ![d] = 0] /\ left.users = [mon.users EXCEPT ![d] = 0]
    BY <1>5, <2>2 DEF Monitors
  <2>4. change \in WatchChanges /\ change.generation = mon.generation + 1 /\ change.dir = d
        /\ change.path = d /\ change.tree
    BY <2>2 DEF WatchChanges, WatchPaths
  <2> HIDE DEF left, change
  <2>5. /\ mon' \in Monitors /\ Len(mon'.events) <= EventLimit
        /\ mon'.wd = left.wd /\ mon'.users = left.users /\ mon'.generation = left.generation
        /\ mon'.fallback = left.fallback
        /\ \A dirs, f : \A since \in Nat :
             /\ Watch!Affects(left, dirs, since, f) => Watch!Affects(mon', dirs, since, f)
             /\ /\ since < change.generation /\ change.dir \in dirs
                /\ change.path = f \/ (change.tree /\ change.path = DirOf(f))
                => Watch!Affects(mon', dirs, since, f)
    <3>1. Len(left.events) <= EventLimit
      BY <1>1, <2>3 DEF WatchTypes
    <3>2. QED
      BY <2>1, <2>3, <2>4, <3>1, RecordTells
  <2>6. /\ mon'.wd[d] = 0 /\ \A c \in Dirs \ {d} : mon'.wd[c] = mon.wd[c]
        /\ mon'.users[d] = 0 /\ \A c \in Dirs \ {d} : mon'.users[c] = mon.users[c]
        /\ watched'[d] = 0 /\ \A c \in Dirs \ {d} : watched'[c] = watched[c]
        /\ watched' \in [Dirs -> Nat]
        /\ mon'.fallback = mon.fallback
    BY <1>5, <2>1, <2>3, <2>5
  <2>7. WatchTypes'
    BY <1>1, <1>2, <1>3, <2>5, <2>6 DEF WatchTypes
  <2>8. Distinct(mon, count)'
    BY <1>1, <1>2, <1>5, <2>6 DEF Distinct
  <2>9. Watching'
    BY <1>1, <1>2, <2>6 DEF Watching, Ends
  <2>10. WatchCounted'
    <3>1. mon.users[d] = 1
      BY <1>8 DEF Watch!NoOthers
    <3>2. QED
      BY <1>1, <1>4, <2>6, <3>1 DEF WatchCounted
  <2>11. ASSUME NEW s \in Readers, NEW x \in WatchReadings, NEW f \in Watch!Mine(s),
                x.generation <= mon.generation,
                Noticed(mon, watchQueue, s, x.generation, f) \/ Kept(x, f)
         PROVE  Noticed(mon', watchQueue', s, x.generation, f) \/ Kept(x, f)'
    <3>1. f \in Files /\ DirOf(f) \in Dirs /\ DirOf(f) \in Reads(s) /\ x.generation \in Nat
      BY MineIs DEF WatchReadings
    <3>2. CASE DirOf(f) = d
      <4>1. x.generation < change.generation
        BY <1>5, <2>4, <2>11, <3>1
      <4>2. Watch!Affects(mon', Reads(s), x.generation, f)
        BY <2>4, <2>5, <3>1, <3>2, <4>1
      <4>3. QED
        BY <4>2 DEF Noticed
    <3>3. CASE DirOf(f) # d
      <4>1. Watch!Affects(mon, Reads(s), x.generation, f) => Watch!Affects(left, Reads(s), x.generation, f)
        BY <2>3 DEF Watch!Affects
      <4>2. Watch!Affects(mon, Reads(s), x.generation, f) => Watch!Affects(mon', Reads(s), x.generation, f)
        BY <2>5, <3>1, <4>1
      <4>3. \A i : Names(mon, watchQueue[i], f) => Names(mon', watchQueue[i], f)
        BY <2>6, <3>1, <3>3 DEF Names
      <4>4. Kept(x, f) => Kept(x, f)'
        BY <1>2, <2>6, <3>1, <3>3 DEF Kept
      <4>5. QED
        BY <1>2, <2>11, <4>2, <4>3, <4>4 DEF Noticed
    <3>4. QED
      BY <3>2, <3>3
  <2>12. CoveringStays
    <3>1. mon'.generation >= mon.generation
      BY <1>5, <2>3, <2>5
    <3>2. QED
      BY <1>5, <2>5, <2>11, <3>1, CoveringIs
  <2>13. QED
    BY <1>1, <1>2, <2>7, <2>8, <2>9, <2>10, <2>12, ReadersStay DEF WatchInv
<1>9. QED
  BY <1>6, <1>7, <1>8

-----------------------------------------------------------------------------
(* Readers *)

\* Reading the queue costs nobody what it relies on.
LEMMA DrainKeeps ==
    ASSUME WatchInv, mon' = Watch!Drained, watchQueue' = Watch!Rest,
           UNCHANGED <<version, present, watched, count, uses>>
    PROVE  /\ mon' \in Monitors /\ Len(mon'.events) <= EventLimit
           /\ watchQueue' \in Seq(WatchEvents)
           /\ Distinct(mon, count)' /\ WatchCounted' /\ Watching' /\ CoveringStays
<1>1. WatchTypes /\ WatchCounted /\ Watching /\ Distinct(mon, count)
  BY DEF WatchInv
<1>2. /\ mon' \in Monitors /\ Len(mon'.events) <= EventLimit
      /\ mon'.wd = mon.wd /\ mon'.users = mon.users /\ mon'.generation >= mon.generation
      /\ mon.fallback => mon'.fallback
      /\ watchQueue' \in Seq(WatchEvents)
      /\ \A d \in Dirs : \A i \in DOMAIN watchQueue : Ends(mon, watchQueue[i], d) => mon'.fallback
      /\ \A r \in Readers : \A f \in Watch!Mine(r) : \A since \in Nat :
           since <= mon.generation /\ Noticed(mon, watchQueue, r, since, f)
           => Watch!Affects(mon', Reads(r), since, f)
  BY <1>1, DrainReads
<1>3. Distinct(mon, count)'
  BY <1>1, <1>2 DEF Distinct
<1>4. WatchCounted'
  <2>1. \A d \in Dirs : UsersOf(d)' = UsersOf(d)
    BY DEF UsersOf
  <2>2. QED
    BY <1>1, <1>2, <2>1 DEF WatchCounted
<1>5. Watching'
  BY <1>1, <1>2 DEF Watching
<1>6. CoveringStays
  <2>1. mon \in Monitors
    BY <1>1 DEF WatchTypes
  <2>2. ASSUME NEW r \in Readers, NEW x \in WatchReadings, NEW f \in Watch!Mine(r),
               x.generation <= mon.generation,
               Noticed(mon, watchQueue, r, x.generation, f) \/ Kept(x, f)
        PROVE  Noticed(mon', watchQueue', r, x.generation, f) \/ Kept(x, f)'
    <3>1. x.generation \in Nat
      BY DEF WatchReadings
    <3>2. CASE Noticed(mon, watchQueue, r, x.generation, f)
      BY <1>2, <2>2, <3>1, <3>2 DEF Noticed
    <3>3. CASE Kept(x, f)
      BY <1>2, <3>3 DEF Kept
    <3>4. QED
      BY <2>2, <3>2, <3>3
  <2>3. QED
    BY <1>2, <2>1, <2>2, CoveringIs
<1>7. QED
  BY <1>2, <1>3, <1>4, <1>5, <1>6

\* One reader has another reading or snapshot; the others' stay covered.
LEMMA OneReader ==
    ASSUME WatchTypes, ReadersCovered, CoveringStays, NEW r \in Readers,
           NEW x \in WatchReadings \union {None}, NEW y \in WatchReadings \union {None},
           reading' = [reading EXCEPT ![r] = x], snapshot' = [snapshot EXCEPT ![r] = y],
           x # None => Covered(r, x)',
           y # None => Covered(r, y)' /\ DOMAIN y.read = Watch!Mine(r)
    PROVE  /\ ReadersCovered'
           /\ reading' \in [Readers -> WatchReadings \union {None}]
           /\ snapshot' \in [Readers -> WatchReadings \union {None}]
<1>1. /\ reading \in [Readers -> WatchReadings \union {None}]
      /\ snapshot \in [Readers -> WatchReadings \union {None}]
  BY DEF WatchTypes
<1>2. /\ reading'[r] = x /\ snapshot'[r] = y
      /\ \A s \in Readers \ {r} : reading'[s] = reading[s] /\ snapshot'[s] = snapshot[s]
  BY <1>1
<1>3. ASSUME NEW s \in Readers, NEW z, z = reading'[s], z # None PROVE Covered(s, z)'
  <2>1. CASE s = r
    BY <1>2, <1>3, <2>1
  <2>2. CASE s # r
    <3>1. z = reading[s] /\ z \in WatchReadings
      BY <1>1, <1>2, <1>3, <2>2
    <3>2. Covered(s, z)
      BY <1>3, <3>1 DEF ReadersCovered
    <3>3. QED
      BY <3>1, <3>2 DEF CoveringStays
  <2>3. QED
    BY <2>1, <2>2
<1>4. ASSUME NEW s \in Readers, NEW z, z = snapshot'[s], z # None
      PROVE  Covered(s, z)' /\ DOMAIN z.read = Watch!Mine(s)
  <2>1. CASE s = r
    BY <1>2, <1>4, <2>1
  <2>2. CASE s # r
    <3>1. z = snapshot[s] /\ z \in WatchReadings
      BY <1>1, <1>2, <1>4, <2>2
    <3>2. Covered(s, z) /\ DOMAIN z.read = Watch!Mine(s)
      BY <1>4, <3>1 DEF ReadersCovered
    <3>3. QED
      BY <3>1, <3>2 DEF CoveringStays
  <2>3. QED
    BY <2>1, <2>2
<1>5. ReadersCovered'
  BY <1>3, <1>4 DEF ReadersCovered
<1>6. QED
  BY <1>1, <1>5

\* At a fence every directory of the reader is watched, or its end is told.
LEMMA FenceStep == ASSUME WatchInv, NEW r \in Readers, Watch!Fence(r) PROVE WatchInv'
<1>0. PICK x : x = [generation |-> Watch!Drained.generation, read |-> [f \in {} |-> 0]]
  OBVIOUS
<1>1. WatchTypes /\ WatchCounted /\ Watching /\ ReadersCovered /\ Distinct(mon, count)
  BY DEF WatchInv
<1>2. /\ uses[r] = Reads(r) /\ snapshot[r] = None
      /\ mon' = Watch!Drained /\ watchQueue' = Watch!Rest /\ reading' = [reading EXCEPT ![r] = x]
      /\ UNCHANGED <<version, present, watched, count, uses, snapshot>>
  BY <1>0 DEF Watch!Fence
<1>3. /\ mon' \in Monitors /\ Len(mon'.events) <= EventLimit
      /\ watchQueue' \in Seq(WatchEvents)
      /\ Distinct(mon, count)' /\ WatchCounted' /\ Watching' /\ CoveringStays
  BY <1>2, DrainKeeps
<1>4. x.generation \in Nat /\ x.generation = mon'.generation /\ DOMAIN x.read = {}
  BY <1>0, <1>2, <1>3 DEF Monitors
<1>5. x \in WatchReadings
  <2>1. [f \in {} |-> 0] \in [{} -> Nat] /\ {} \in SUBSET Files
    OBVIOUS
  <2>2. [f \in {} |-> 0] \in FilesRead
    BY <2>1 DEF FilesRead
  <2>3. QED
    BY <1>0, <1>4, <2>2 DEF WatchReadings
<1>6. ASSUME NEW f \in Watch!Mine(r)
      PROVE  Noticed(mon', watchQueue', r, x.generation, f) \/ Kept(x, f)'
  <2>1. CASE mon'.fallback
    BY <2>1 DEF Noticed, Watch!Affects
  <2>2. CASE ~mon'.fallback
    <3>1. DirOf(f) \in Dirs /\ DirOf(f) \in uses[r]
      BY <1>2, MineIs
    <3>2. Cardinality(UsersOf(DirOf(f))') # 0
      <4>1. uses' = uses /\ r \in UsersOf(DirOf(f))' /\ IsFiniteSet(UsersOf(DirOf(f))')
        BY <1>2, <3>1, WatchAssumption, FS_Subset DEF UsersOf
      <4>2. QED
        BY <4>1, FS_EmptySet
    <3>3. mon'.wd[DirOf(f)] # 0
      BY <1>3, <2>2, <3>1, <3>2 DEF WatchCounted
    <3>4. CASE watched'[DirOf(f)] = mon'.wd[DirOf(f)]
      BY <1>4, <3>3, <3>4 DEF Kept
    <3>5. CASE \E i \in DOMAIN watchQueue' : Ends(mon', watchQueue'[i], DirOf(f))
      BY <3>5 DEF Noticed, Names, Ends
    <3>6. QED
      BY <1>3, <2>2, <3>1, <3>3, <3>4, <3>5 DEF Watching
  <2>3. QED
    BY <2>1, <2>2
<1>7. Covered(r, x)'
  <2>1. x.generation <= mon'.generation /\ DOMAIN x.read \subseteq Watch!Mine(r)
    BY <1>4
  <2>2. QED
    BY <1>6, <2>1 DEF Covered
<1>8. /\ ReadersCovered'
      /\ reading' \in [Readers -> WatchReadings \union {None}]
  <2>1. snapshot' = [snapshot EXCEPT ![r] = None]
    BY <1>1, <1>2 DEF WatchTypes
  <2>2. QED
    BY <1>1, <1>2, <1>3, <1>5, <1>7, <2>1, OneReader
<1>9. WatchTypes'
  BY <1>1, <1>2, <1>3, <1>8 DEF WatchTypes
<1>10. QED
  BY <1>3, <1>8, <1>9 DEF WatchInv

LEMMA AskingStep == ASSUME WatchInv, NEW r \in Readers, Watch!Ask(r) PROVE WatchInv'
<1>1. WatchTypes /\ ReadersCovered
  BY DEF WatchInv
<1>2. /\ mon' = Watch!Drained /\ watchQueue' = Watch!Rest
      /\ UNCHANGED <<version, present, watched, count, uses, reading>>
      /\ snapshot' = snapshot \/ snapshot' = [snapshot EXCEPT ![r] = None]
  BY DEF Watch!Ask
<1>3. /\ mon' \in Monitors /\ Len(mon'.events) <= EventLimit
      /\ watchQueue' \in Seq(WatchEvents)
      /\ Distinct(mon, count)' /\ WatchCounted' /\ Watching' /\ CoveringStays
  BY <1>2, DrainKeeps
<1>4. ReadersCovered' /\ snapshot' \in [Readers -> WatchReadings \union {None}]
  <2>1. CASE snapshot' = snapshot
    BY <1>1, <1>2, <1>3, <2>1, ReadersStay DEF WatchTypes
  <2>2. CASE snapshot' = [snapshot EXCEPT ![r] = None]
    <3>1. PICK x : x = reading[r]
      OBVIOUS
    <3>2. x \in WatchReadings \union {None} /\ reading' = [reading EXCEPT ![r] = x]
      BY <1>1, <1>2, <3>1 DEF WatchTypes
    <3>3. x # None => Covered(r, x)'
      BY <1>1, <1>3, <3>1, <3>2 DEF ReadersCovered, CoveringStays
    <3>4. QED
      BY <1>1, <1>3, <2>2, <3>2, <3>3, OneReader
  <2>3. QED
    BY <1>2, <2>1, <2>2
<1>5. WatchTypes'
  BY <1>1, <1>2, <1>3, <1>4 DEF WatchTypes
<1>6. QED
  BY <1>3, <1>4, <1>5 DEF WatchInv

LEMMA ReadingStep ==
    ASSUME WatchInv, NEW r \in Readers, Watch!ReadFile(r)
    PROVE  WatchInv'
<1>1. WatchTypes /\ WatchCounted /\ Watching /\ ReadersCovered /\ Distinct(mon, count)
  BY DEF WatchInv
<1>2. PICK x : x = reading[r]
  OBVIOUS
<1>3. x # None /\ x \in WatchReadings /\ x.generation \in Nat /\ x.read \in FilesRead
  BY <1>1, <1>2 DEF Watch!ReadFile, WatchTypes, WatchReadings
<1>4. UNCHANGED <<version, present, watched, watchQueue, count, mon, uses, snapshot>>
  BY DEF Watch!ReadFile, Watch!kernel
<1>5. PICK f \in Watch!Mine(r) \ DOMAIN x.read :
        reading' = [reading EXCEPT ![r].read =
          [g \in DOMAIN @ \union {f} |-> IF g = f THEN version[f] ELSE @[g]]]
  BY <1>2 DEF Watch!ReadFile
<1>6. PICK read : read = [g \in DOMAIN x.read \union {f} |-> IF g = f THEN version[f] ELSE x.read[g]]
  OBVIOUS
<1>7. PICK y : y = [generation |-> x.generation, read |-> read]
  OBVIOUS
<1>8. reading' = [reading EXCEPT ![r] = y]
  <2>1. y = [x EXCEPT !.read = read]
    BY <1>3, <1>7 DEF WatchReadings
  <2>2. QED
    BY <1>1, <1>2, <1>5, <1>6, <2>1 DEF WatchTypes
<1>9. f \in Files /\ version[f] \in Nat
  BY <1>1, MineIs DEF WatchTypes
<1>10. y \in WatchReadings
  <2>1. PICK some \in SUBSET Files : x.read \in [some -> Nat]
    BY <1>3 DEF FilesRead
  <2>2. read \in [some \union {f} -> Nat] /\ some \union {f} \in SUBSET Files
    BY <1>6, <1>9, <2>1
  <2>3. read \in FilesRead
    BY <2>2 DEF FilesRead
  <2>4. QED
    BY <1>3, <1>7, <2>3 DEF WatchReadings
<1>11. CoveringStays
  <2>1. \A z, g : Kept(z, g) => Kept(z, g)'
    BY <1>4 DEF Kept
  <2>2. QED
    BY <1>4, <2>1 DEF CoveringStays, Covered
<1>12. Covered(r, y)'
  <2>1. Covered(r, x)'
    BY <1>1, <1>2, <1>3, <1>11 DEF ReadersCovered, CoveringStays
  <2>2. \A g : Kept(x, g)' => Kept(y, g)'
    BY <1>4, <1>6, <1>7 DEF Kept
  <2>3. DOMAIN y.read \subseteq Watch!Mine(r) /\ y.generation = x.generation
    BY <1>5, <1>6, <1>7, <2>1 DEF Covered
  <2>4. QED
    BY <2>1, <2>2, <2>3 DEF Covered
<1>13. ReadersCovered' /\ reading' \in [Readers -> WatchReadings \union {None}]
  <2>1. PICK s : s = snapshot[r]
    OBVIOUS
  <2>2. s \in WatchReadings \union {None} /\ snapshot' = [snapshot EXCEPT ![r] = s]
    BY <1>1, <1>4, <2>1 DEF WatchTypes
  <2>3. s # None => Covered(r, s)' /\ DOMAIN s.read = Watch!Mine(r)
    BY <1>1, <1>11, <2>1, <2>2 DEF ReadersCovered, CoveringStays
  <2>4. QED
    BY <1>1, <1>8, <1>10, <1>11, <1>12, <2>2, <2>3, OneReader
<1>14. WatchTypes'
  BY <1>1, <1>4, <1>13 DEF WatchTypes
<1>15. Distinct(mon, count)' /\ Watching'
  BY <1>1, <1>4 DEF Distinct, Watching
<1>16. WatchCounted'
  <2>1. \A c \in Dirs : UsersOf(c)' = UsersOf(c)
    BY <1>4 DEF UsersOf
  <2>2. QED
    BY <1>1, <1>4, <2>1 DEF WatchCounted
<1>17. QED
  BY <1>13, <1>14, <1>15, <1>16 DEF WatchInv

LEMMA PublishStep ==
    ASSUME WatchInv, NEW r \in Readers, Watch!Publish(r)
    PROVE  WatchInv'
<1>1. WatchTypes /\ WatchCounted /\ Watching /\ ReadersCovered /\ Distinct(mon, count)
  BY DEF WatchInv
<1>2. PICK x : x = reading[r]
  OBVIOUS
<1>3. x # None /\ x \in WatchReadings /\ DOMAIN x.read = Watch!Mine(r)
  BY <1>1, <1>2 DEF Watch!Publish, WatchTypes
<1>4. UNCHANGED <<version, present, watched, watchQueue, count, mon, uses>>
  BY DEF Watch!Publish, Watch!kernel
<1>5. snapshot' = [snapshot EXCEPT ![r] = x] /\ reading' = [reading EXCEPT ![r] = None]
  <2>1. x = [generation |-> x.generation, read |-> x.read]
    BY <1>3 DEF WatchReadings
  <2>2. QED
    BY <1>2, <2>1 DEF Watch!Publish, Watch!Generation
<1>6. CoveringStays
  <2>1. \A z, g : Kept(z, g) => Kept(z, g)'
    BY <1>4 DEF Kept
  <2>2. QED
    BY <1>4, <2>1 DEF CoveringStays, Covered
<1>7. /\ ReadersCovered' /\ reading' \in [Readers -> WatchReadings \union {None}]
      /\ snapshot' \in [Readers -> WatchReadings \union {None}]
  <2>1. Covered(r, x)'
    BY <1>1, <1>2, <1>3, <1>6 DEF ReadersCovered, CoveringStays
  <2>2. QED
    BY <1>1, <1>3, <1>5, <1>6, <2>1, OneReader
<1>8. WatchTypes'
  BY <1>1, <1>4, <1>7 DEF WatchTypes
<1>9. Distinct(mon, count)' /\ Watching'
  BY <1>1, <1>4 DEF Distinct, Watching
<1>10. WatchCounted'
  <2>1. \A c \in Dirs : UsersOf(c)' = UsersOf(c)
    BY <1>4 DEF UsersOf
  <2>2. QED
    BY <1>1, <1>4, <2>1 DEF WatchCounted
<1>11. QED
  BY <1>7, <1>8, <1>9, <1>10 DEF WatchInv

LEMMA WatchIdle == ASSUME WatchInv, UNCHANGED Watch!vars PROVE WatchInv'
<1>1. WatchTypes /\ WatchCounted /\ Watching /\ ReadersCovered /\ Distinct(mon, count)
  BY DEF WatchInv
<1>2. UNCHANGED <<version, present, watched, watchQueue, count, mon, uses, reading,
                  snapshot>>
  BY DEF Watch!vars, Watch!kernel
<1>3. WatchTypes' /\ Distinct(mon, count)' /\ Watching'
  BY <1>1, <1>2 DEF WatchTypes, Distinct, Watching
<1>4. WatchCounted'
  <2>1. \A c \in Dirs : UsersOf(c)' = UsersOf(c)
    BY <1>2 DEF UsersOf
  <2>2. QED
    BY <1>1, <1>2, <2>1 DEF WatchCounted
<1>5. CoveringStays
  <2>1. \A z, g : Kept(z, g) => Kept(z, g)'
    BY <1>2 DEF Kept
  <2>2. QED
    BY <1>2, <2>1 DEF CoveringStays, Covered
<1>6. QED
  BY <1>1, <1>2, <1>3, <1>4, <1>5, ReadersStay DEF WatchInv

LEMMA WatchNext == ASSUME WatchInv, [Watch!Next]_(Watch!vars) PROVE WatchInv'
<1>1. CASE Watch!Next
  BY <1>1, ChangeStep, VanishStep, CreateStep, RegisterStep, UnregisterStep, FenceStep,
     ReadingStep, PublishStep, AskingStep DEF Watch!Next
<1>2. CASE UNCHANGED Watch!vars
  BY <1>2, WatchIdle
<1>3. QED
  BY <1>1, <1>2

\* The watches (watch.rs): numbers, users and watches agree, and what a reader
\* has read since its fence is still so or noticed, for any directories, files
\* and readers, any queue of the kernel and any limit of events.
THEOREM WatchInvariant == Watch!Spec => []WatchInv
<1>1. Watch!Init => WatchInv
  BY WatchInit
<1>2. WatchInv /\ [Watch!Next]_(Watch!vars) => WatchInv'
  BY WatchNext
<1>3. QED
  BY <1>1, <1>2, PTL DEF Watch!Spec

LEMMA WatchInvTrue == ASSUME WatchInv PROVE WatchTrue
<1>1. WatchTypes /\ WatchCounted /\ ReadersCovered /\ Distinct(mon, count)
  BY DEF WatchInv
<1>2. Watch!FenceTrue
  <2>1. SUFFICES ASSUME NEW r \in Readers, snapshot[r] # None,
                        NEW f \in Watch!Mine(r) \ Watch!Affected(Watch!Drained, r)
                 PROVE  version[f] = snapshot[r].read[f]
    BY DEF Watch!FenceTrue
  <2>2. /\ snapshot[r].generation \in Nat /\ snapshot[r].generation <= mon.generation
        /\ DOMAIN snapshot[r].read = Watch!Mine(r)
        /\ Noticed(mon, watchQueue, r, snapshot[r].generation, f) \/ Kept(snapshot[r], f)
    BY <1>1, <2>1 DEF WatchTypes, WatchReadings, ReadersCovered, Covered
  <2>3. ~Watch!Affects(Watch!Drained, Reads(r), snapshot[r].generation, f)
    BY DEF Watch!Affected
  <2>4. ~Noticed(mon, watchQueue, r, snapshot[r].generation, f)
    BY <1>1, <2>2, <2>3, DrainReads
  <2>5. QED
    BY <2>2, <2>4 DEF Kept
<1>3. Watch!WatchesShared
  <2>1. SUFFICES ASSUME NEW r \in Readers, NEW d \in Dirs, d \in uses[r], ~mon.fallback
                 PROVE  mon.wd[d] # 0
    BY DEF Watch!WatchesShared
  <2>2. r \in UsersOf(d) /\ IsFiniteSet(UsersOf(d))
    BY <2>1, WatchAssumption, FS_Subset DEF UsersOf
  <2>3. Cardinality(UsersOf(d)) # 0
    BY <2>2, FS_EmptySet
  <2>4. QED
    BY <1>1, <2>1, <2>3 DEF WatchCounted
<1>4. QED
  BY <1>2, <1>3 DEF WatchTrue

\* What a snapshot does not report has not changed, however events are lost,
\* dropped or read in batches, and watches shared, given up or ended; and a
\* directory that somebody relies on is watched.
THEOREM WatchCorrect == Watch!Spec => []WatchTrue
<1>1. WatchInv => WatchTrue
  BY WatchInvTrue
<1>2. QED
  BY <1>1, WatchInvariant, PTL
-----------------------------------------------------------------------------
(***************************************************************************)
(* Journal                                                                 *)
(*                                                                         *)
(* A frame is complete or torn, and Complete() keeps those before the      *)
(* first torn one: a torn frame that is the last of its day hides nothing  *)
(* (TornLast), and appends only add to what can be read (WrittenKeeps).    *)
(* An operation that the snapshot in memory has no more is in a frame, is  *)
(* about to be, or the gaps have grown (LeftKnown); once what was pending  *)
(* is appended the same is true of the snapshot that goes to disk.  It is  *)
(* recorded once as its end is in the queue, pending or in its day, and in *)
(* one of them (EndsOnce).  A repacking has the operations of the frames   *)
(* it has read (Repacked), so that its file can replace the day.  The      *)
(* generations of a day only grow (Generations): an exporter that finds    *)
(* its own again finds the frames it has (CursorTrue), and what an export  *)
(* owes is in a day it has read or has yet to read (Owed).                 *)
(***************************************************************************)
\* The frames of a day, and its operations
Logs == [gen : Nat \X Nat, frames : Seq(Log!Frames)]
Positions == [gen : Nat \X Nat, next : Nat \ {0}]
Packings == [day : Log!Days, gen : Nat \X Nat, next : Nat, kept : Seq(Log!Happened)]
Exports == [active : SUBSET Ops, gaps : Nat, next : Nat \ {0}, due : SUBSET Ops]
Snapshots == [gaps : Nat, active : SUBSET Ops, unknown : SUBSET Ops]
Messages == [op : Ops, over : BOOLEAN]

\* The types
LogTypes ==
  /\ limits \in Log!Circumstances /\ today \in Log!Days
  /\ op \in [Ops -> {"new", "running", "over"}] /\ day \in [Ops -> Log!Days]
  /\ queue \in Seq(Messages) /\ dropped \in Nat
  /\ at \in {"down", "opening", "idle", "flush"} /\ {shared, opened} \subseteq Nat
  /\ mem \in Snapshots /\ snap \in Snapshots
  /\ pending \in [Log!Days -> Seq(Log!Happened)] /\ prepared \subseteq Log!Days
  /\ packing \in Packings \union {None}
  /\ file \in [Log!Days -> Logs \union {None}]
  /\ cursor \in [Log!Days -> Positions \union {None}]
  /\ got \in [Log!Days -> Seq(Log!Frames)]
  /\ exporting \in Exports \union {None} /\ shown \subseteq Ops
  /\ {crashes, failures, exports} \subseteq Nat

\* The operations of a sequence of events
Ended(events) == {events[k][1] : k \in DOMAIN events}
EndedOnce(events) == \A k, l \in DOMAIN events : events[k][1] = events[l][1] => k = l

\* The operations that are recorded on a day
On(d) == Log!Named(Log!Journaled(d))

\* Whoever has left a trace has started, and whoever ended has ended on the
\* day it started.
Traced ==
  /\ \A o \in mem.active \union snap.active : op[o] # "new"
  /\ \A i \in DOMAIN queue : op[queue[i].op] # "new" /\ (queue[i].over => op[queue[i].op] = "over")
  /\ \A d \in Log!Days : \A o \in On(d) \union Ended(pending[d]) : day[o] = d /\ op[o] = "over"
  /\ at \in {"down", "opening"} => queue = <<>> /\ \A o \in Ops : op[o] # "running"
  /\ at = "down" => \A d \in Log!Days : pending[d] = <<>>

\* The gaps grow; while the journal is open none is unknown unless they have.
GapsGrow ==
  at # "down" => /\ opened <= snap.gaps /\ snap.gaps <= mem.gaps
                 /\ at # "opening" => opened <= shared
                 /\ mem.unknown # {} => mem.gaps > opened

\* A torn frame is the last one, and none is left in a day that is prepared.
TornLast ==
  Log!Undone => \A d \in Log!Days : file[d] # None =>
    /\ ~Log!Stranded(d)
    /\ d \in prepared => Log!Journaled(d) = file[d].frames

\* What has left the snapshot in memory is recorded, about to be, or owned up to.
LeftKnown ==
  Log!Undone /\ at # "down" => \A o \in snap.active \ mem.active :
    \/ \E d \in Log!Days : o \in On(d) \union Ended(pending[d])
    \/ mem.gaps > opened

\* The repacking has the operations of the frames it has read.
Repacked ==
  packing # None =>
    /\ file[packing.day] # None /\ packing.next > 0
    /\ packing.next <= Len(Log!Journaled(packing.day)) + 1
    /\ \A o : o \in Ended(packing.kept) <=>
         \E i \in 1 .. (packing.next - 1) : o \in Ended(Log!Journaled(packing.day)[i].events)

\* An operation ends once: in the queue, in what is to be appended, or in its day.
EndsOnce ==
  Log!NeverRolledUp =>
    /\ \A d \in Log!Days : Log!Once(Log!Journaled(d)) /\ EndedOnce(pending[d])
                           /\ On(d) \intersect Ended(pending[d]) = {}
    /\ \A i \in DOMAIN queue : queue[i].over =>
         /\ \A d \in Log!Days : queue[i].op \notin On(d) \union Ended(pending[d])
         /\ \A j \in DOMAIN queue : queue[j] = queue[i] => i = j
    /\ packing # None => EndedOnce(packing.kept)

\* Where no day is rolled up nothing is only counted.
NotCounted ==
  /\ today = 1 \/ today <= limits.days
  /\ Log!NeverRolledUp =>
       /\ \A d \in Log!Days : \A e \in Log!Events(Log!Journaled(d)) \union Log!ToSet(pending[d]) : e[2] # "counted"
       /\ packing # None => packing.gen[2] = 1 /\ \A e \in Log!ToSet(packing.kept) : e[2] # "counted"

\* A generation is not used again: the positions of an exporter are those of the
\* file there is, or of an older one.
Newer(g, h) == g[1] > h[1] \/ (g[1] = h[1] /\ g[2] > h[2])
Generations ==
  Log!Distinguished =>
    /\ \A d \in Log!Days : file[d] # None =>
         file[d].gen[2] \in {0, 1} /\ Log!Journaled(d) = file[d].frames
    /\ packing # None => /\ packing.gen = <<file[packing.day].gen[1], 1>>
                         /\ file[packing.day].gen[2] = 0
    /\ \A d \in Log!Days : cursor[d] # None =>
         /\ file[d] # None /\ cursor[d].next > 0
         /\ file[d].gen = cursor[d].gen \/ Newer(file[d].gen, cursor[d].gen)

\* What was reported active is still so, or recorded; and what an export owes it
\* has read, or will read.
Owed ==
  Log!Distinguished =>
    /\ \A o \in shown : o \in snap.active \/ (\E d \in Log!Days : o \in On(d)) \/ snap.gaps > 0
    /\ exporting # None /\ exporting.gaps = 0 =>
         \A o \in exporting.due \ exporting.active : \E d \in Log!Days :
           o \in On(d) /\ (d < exporting.next => o \in Log!Named(got[d]))

LogInv ==
  /\ LogTypes /\ Traced /\ GapsGrow /\ TornLast /\ LeftKnown /\ Repacked
  /\ EndsOnce /\ NotCounted /\ Generations /\ Log!CursorTrue /\ Owed
-----------------------------------------------------------------------------
(* Frames                                                                  *)

\* Complete() is the longest prefix without a torn frame.
LEMMA CompleteIs ==
    ASSUME NEW f \in Seq(Log!Frames), NEW c, c = Log!Complete(f)
    PROVE  /\ c \in Seq(Log!Frames) /\ Len(c) \in Nat /\ Len(c) <= Len(f)
           /\ \A i \in 1 .. Len(c) : c[i] = f[i] /\ f[i].ok
           /\ Len(c) < Len(f) => ~f[Len(c) + 1].ok
<1> DEFINE torn == {i \in 1 .. Len(f) : ~f[i].ok}
<1>1. Len(f) \in Nat /\ DOMAIN f = 1 .. Len(f) /\ \A i \in 1 .. Len(f) : f[i] \in Log!Frames
  BY LenProperties, ElementOfSeq
<1>2. CASE torn = {}
  <2>1. c = f
    BY <1>1, <1>2 DEF Log!Complete
  <2>2. QED
    BY <1>1, <1>2, <2>1
<1>3. CASE torn # {}
  <2> DEFINE First(i) == i \in DOMAIN f /\ ~f[i].ok /\ \A k \in 1 .. (i - 1) : f[k].ok
             n == CHOOSE i \in DOMAIN f : ~f[i].ok /\ \A k \in 1 .. (i - 1) : f[k].ok
  <2>1. PICK least \in torn : \A i \in torn : least <= i
    <3>1. torn \in SUBSET Nat /\ torn # {}
      BY <1>1, <1>3
    <3> HIDE DEF torn
    <3>2. QED
      BY <3>1, LeastNumber
  <2>2. First(least)
    BY <1>1, <2>1
  <2>3. First(n)
    BY <2>2
  <2>4. c = SubSeq(f, 1, n - 1)
    BY <1>1, <1>3 DEF Log!Complete
  <2>5. n \in 1 .. Len(f) /\ ~f[n].ok /\ \A k \in 1 .. (n - 1) : f[k].ok
    BY <1>1, <2>3
  <2> HIDE DEF n, First
  <2>6. \A i \in 1 .. (n - 1) : f[i] \in Log!Frames
    BY <1>1, <2>5
  <2>7. /\ c \in Seq(Log!Frames) /\ Len(c) = n - 1
        /\ \A i \in 1 .. (n - 1) : c[i] = f[i]
    <3>1. /\ SubSeq(f, 1, n - 1) \in Seq(Log!Frames)
          /\ Len(SubSeq(f, 1, n - 1)) = IF 1 <= n - 1 THEN (n - 1) - 1 + 1 ELSE 0
          /\ \A i \in 1 .. (n - 1) - 1 + 1 : SubSeq(f, 1, n - 1)[i] = f[1 + i - 1]
      BY <2>5, <2>6, SubSeqProperties
    <3>2. QED
      BY <2>4, <2>5, <3>1
  <2>8. QED
    BY <1>1, <2>5, <2>7
<1>4. QED
  BY <1>2, <1>3

\* These properties determine it.
LEMMA CompleteWhen ==
    ASSUME NEW f \in Seq(Log!Frames), NEW c \in Seq(Log!Frames), Len(c) <= Len(f),
           \A i \in 1 .. Len(c) : c[i] = f[i] /\ f[i].ok,
           Len(c) < Len(f) => ~f[Len(c) + 1].ok
    PROVE  Log!Complete(f) = c
<1>1. PICK d : d = Log!Complete(f)
  OBVIOUS
<1>2. /\ d \in Seq(Log!Frames) /\ Len(d) \in Nat /\ Len(d) <= Len(f)
      /\ \A i \in 1 .. Len(d) : d[i] = f[i] /\ f[i].ok
      /\ Len(d) < Len(f) => ~f[Len(d) + 1].ok
  BY <1>1, CompleteIs
<1>3. Len(f) \in Nat /\ Len(c) \in Nat
  BY LenProperties
<1>4. ~(Len(c) < Len(d))
  <2>1. SUFFICES ASSUME Len(c) < Len(d) PROVE FALSE
    OBVIOUS
  <2>2. Len(c) + 1 \in 1 .. Len(d) /\ Len(c) < Len(f)
    BY <1>2, <1>3, <2>1
  <2>3. QED
    BY <1>2, <2>2
<1>5. ~(Len(d) < Len(c))
  <2>1. SUFFICES ASSUME Len(d) < Len(c) PROVE FALSE
    OBVIOUS
  <2>2. Len(d) + 1 \in 1 .. Len(c) /\ Len(d) < Len(f)
    BY <1>2, <1>3, <2>1
  <2>3. QED
    BY <1>2, <2>2
<1>6. Len(c) = Len(d)
  BY <1>2, <1>3, <1>4, <1>5
<1>7. d = c
  BY <1>2, <1>3, <1>6, SeqEqual
<1>8. QED
  BY <1>1, <1>7

\* A frame that is added is complete unless a torn one is before it, and a torn
\* one changes nothing.
LEMMA CompleteAppend ==
    ASSUME NEW f \in Seq(Log!Frames), NEW g \in Log!Frames
    PROVE  /\ f \o <<g>> \in Seq(Log!Frames) /\ Len(f \o <<g>>) = Len(f) + 1
           /\ \A i \in 1 .. Len(f) : (f \o <<g>>)[i] = f[i]
           /\ (f \o <<g>>)[Len(f) + 1] = g
           /\ Log!Complete(f) = f /\ g.ok => Log!Complete(f \o <<g>>) = f \o <<g>>
           /\ Log!Complete(f) # f \/ ~g.ok => Log!Complete(f \o <<g>>) = Log!Complete(f)
<1> DEFINE h == f \o <<g>>
<1>1. Len(f) \in Nat
  BY LenProperties
<1>2. <<g>> \in Seq(Log!Frames) /\ Len(<<g>>) = 1 /\ <<g>>[1] = g
  OBVIOUS
<1>3. h \in Seq(Log!Frames) /\ Len(h) = Len(f) + 1
      /\ (\A i \in 1 .. Len(f) : h[i] = f[i]) /\ h[Len(f) + 1] = g
  <2>1. /\ h \in Seq(Log!Frames) /\ Len(h) = Len(f) + Len(<<g>>)
        /\ \A i \in 1 .. Len(f) + Len(<<g>>) :
             h[i] = IF i <= Len(f) THEN f[i] ELSE <<g>>[i - Len(f)]
    BY <1>2, ConcatProperties
  <2>2. QED
    BY <1>1, <1>2, <2>1
<1> HIDE DEF h
<1>4. PICK c : c = Log!Complete(f)
  OBVIOUS
<1>5. /\ c \in Seq(Log!Frames) /\ Len(c) \in Nat /\ Len(c) <= Len(f)
      /\ \A i \in 1 .. Len(c) : c[i] = f[i] /\ f[i].ok
      /\ Len(c) < Len(f) => ~f[Len(c) + 1].ok
  BY <1>4, CompleteIs
<1>6. ASSUME c = f, g.ok PROVE Log!Complete(h) = h
  <2>1. \A i \in 1 .. Len(h) : h[i] = h[i] /\ h[i].ok
    BY <1>1, <1>3, <1>5, <1>6
  <2>2. Len(h) \in Nat
    BY <1>1, <1>3
  <2>3. QED
    BY <1>3, <2>1, <2>2, CompleteWhen
<1>7. ASSUME c # f \/ ~g.ok PROVE Log!Complete(h) = c
  <2>1. Len(c) = Len(f) => c = f
    BY <1>1, <1>5, SeqEqual
  <2>2. Len(c) < Len(h) /\ \A i \in 1 .. Len(c) : c[i] = h[i] /\ h[i].ok
    BY <1>1, <1>3, <1>5
  <2>3. ~h[Len(c) + 1].ok
    <3>1. CASE Len(c) < Len(f)
      <4>1. Len(c) + 1 \in 1 .. Len(f)
        BY <1>1, <1>5, <3>1
      <4>2. QED
        BY <1>3, <1>5, <3>1, <4>1
    <3>2. CASE Len(c) = Len(f)
      BY <1>3, <1>7, <2>1, <3>2
    <3>3. QED
      BY <1>1, <1>5, <3>1, <3>2
  <2>4. QED
    BY <1>1, <1>3, <1>5, <2>2, <2>3, CompleteWhen
<1>8. QED
  BY <1>3, <1>4, <1>6, <1>7 DEF h

LEMMA CompleteTwice ==
    ASSUME NEW f \in Seq(Log!Frames)
    PROVE  /\ Log!Complete(f) \in Seq(Log!Frames)
           /\ Log!Complete(Log!Complete(f)) = Log!Complete(f)
<1>1. PICK c : c = Log!Complete(f)
  OBVIOUS
<1>2. /\ c \in Seq(Log!Frames) /\ Len(c) \in Nat
      /\ \A i \in 1 .. Len(c) : c[i] = f[i] /\ f[i].ok
  BY <1>1, CompleteIs
<1>3. Log!Complete(c) = c
  BY <1>2, CompleteWhen
<1>4. QED
  BY <1>1, <1>2, <1>3

LEMMA NoFrames == Log!Complete(<<>>) = <<>> /\ <<>> \in Seq(Log!Frames) /\ Log!Named(<<>>) = {}
<1>1. <<>> \in Seq(Log!Frames) /\ Len(<<>>) = 0 /\ DOMAIN <<>> = {}
  OBVIOUS
<1>2. Log!Complete(<<>>) = <<>>
  BY <1>1 DEF Log!Complete
<1>3. Log!Named(<<>>) = {}
  BY <1>1 DEF Log!Named, Log!Events
<1>4. QED
  BY <1>1, <1>2, <1>3

\* The events and operations of frames, and of a frame that is added
LEMMA EventsAre ==
    ASSUME NEW f \in Seq(Log!Frames)
    PROVE  /\ \A e : e \in Log!Events(f) <=>
                \E i \in 1 .. Len(f) : e \in Log!ToSet(f[i].events)
           /\ \A o : o \in Log!Named(f) <=> \E i \in 1 .. Len(f) : o \in Ended(f[i].events)
<1>1. DOMAIN f = 1 .. Len(f)
  BY LenProperties
<1>2. \A e : e \in Log!Events(f) <=> \E i \in 1 .. Len(f) : e \in Log!ToSet(f[i].events)
  BY <1>1 DEF Log!Events
<1>3. \A events, o : o \in Ended(events) <=> \E e \in Log!ToSet(events) : o = e[1]
  BY DEF Ended, Log!ToSet
<1>4. \A o : o \in Log!Named(f) <=> \E e \in Log!Events(f) : o = e[1]
  BY DEF Log!Named
<1>5. QED
  BY <1>2, <1>3, <1>4

LEMMA EventsAdded ==
    ASSUME NEW f \in Seq(Log!Frames), NEW g \in Log!Frames
    PROVE  /\ Log!Events(f \o <<g>>) = Log!Events(f) \union Log!ToSet(g.events)
           /\ Log!Named(f \o <<g>>) = Log!Named(f) \union Ended(g.events)
<1> DEFINE h == f \o <<g>>
<1>1. Len(f) \in Nat /\ h \in Seq(Log!Frames) /\ Len(h) = Len(f) + 1
      /\ (\A i \in 1 .. Len(f) : h[i] = f[i]) /\ h[Len(f) + 1] = g
  BY CompleteAppend, LenProperties
<1> HIDE DEF h
<1>2. \A i : i \in 1 .. Len(h) <=> i \in 1 .. Len(f) \/ i = Len(f) + 1
  BY <1>1
<1>3. \A e : e \in Log!Events(h) <=> e \in Log!Events(f) \/ e \in Log!ToSet(g.events)
  BY <1>1, <1>2, EventsAre
<1>4. \A o : o \in Log!Named(h) <=> o \in Log!Named(f) \/ o \in Ended(g.events)
  BY <1>1, <1>2, EventsAre
<1>5. QED
  BY <1>3, <1>4 DEF h

\* A frame of operations that are not there yet keeps each of them once.
LEMMA OnceAdded ==
    ASSUME NEW f \in Seq(Log!Frames), NEW g \in Log!Frames,
           Log!Once(f), EndedOnce(g.events), Log!Named(f) \intersect Ended(g.events) = {}
    PROVE  Log!Once(f \o <<g>>)
<1> DEFINE h == f \o <<g>>
<1>1. Len(f) \in Nat /\ h \in Seq(Log!Frames) /\ Len(h) = Len(f) + 1
      /\ (\A i \in 1 .. Len(f) : h[i] = f[i]) /\ h[Len(f) + 1] = g
  BY CompleteAppend, LenProperties
<1>2. DOMAIN h = 1 .. Len(h) /\ DOMAIN f = 1 .. Len(f)
  BY <1>1, LenProperties
<1> HIDE DEF h
<1>3. SUFFICES ASSUME NEW i \in DOMAIN h, NEW j \in DOMAIN h,
                      NEW k \in DOMAIN h[i].events, NEW l \in DOMAIN h[j].events,
                      h[i].events[k][1] = h[j].events[l][1]
               PROVE  i = j /\ k = l
  BY DEF Log!Once, h
<1>4. \A n \in DOMAIN h : n \in 1 .. Len(f) \/ n = Len(f) + 1
  BY <1>1, <1>2
<1>5. \A n \in 1 .. Len(f) : \A m \in DOMAIN f[n].events : f[n].events[m][1] \in Log!Named(f)
  BY EventsAre DEF Ended
<1>6. \A m \in DOMAIN g.events : g.events[m][1] \notin Log!Named(f)
  BY DEF Ended
<1>7. CASE i \in 1 .. Len(f) /\ j \in 1 .. Len(f)
  <2>1. h[i] = f[i] /\ h[j] = f[j]
    BY <1>1, <1>7
  <2>2. QED
    BY <1>2, <1>3, <1>7, <2>1 DEF Log!Once
<1>8. CASE i = Len(f) + 1 /\ j = Len(f) + 1
  BY <1>1, <1>3, <1>8 DEF EndedOnce
<1>9. CASE i \in 1 .. Len(f) /\ j = Len(f) + 1
  BY <1>1, <1>3, <1>5, <1>6, <1>9
<1>10. CASE i = Len(f) + 1 /\ j \in 1 .. Len(f)
  BY <1>1, <1>3, <1>5, <1>6, <1>10
<1>11. QED
  BY <1>4, <1>7, <1>8, <1>9, <1>10

\* Sequences of events, one after the other
LEMMA EndedConcat ==
    ASSUME NEW s \in Seq(Log!Happened), NEW t \in Seq(Log!Happened)
    PROVE  /\ s \o t \in Seq(Log!Happened)
           /\ Ended(s \o t) = Ended(s) \union Ended(t)
           /\ Log!ToSet(s \o t) = Log!ToSet(s) \union Log!ToSet(t)
           /\ EndedOnce(s) /\ EndedOnce(t) /\ Ended(s) \intersect Ended(t) = {}
                => EndedOnce(s \o t)
<1> DEFINE u == s \o t
<1>1. /\ u \in Seq(Log!Happened) /\ Len(s) \in Nat /\ Len(t) \in Nat /\ Len(u) = Len(s) + Len(t)
      /\ \A i \in 1 .. Len(s) + Len(t) : u[i] = IF i <= Len(s) THEN s[i] ELSE t[i - Len(s)]
      /\ DOMAIN u = 1 .. Len(u) /\ DOMAIN s = 1 .. Len(s) /\ DOMAIN t = 1 .. Len(t)
  BY ConcatProperties, LenProperties
<1> HIDE DEF u
<1>2. \A i \in DOMAIN s : i \in DOMAIN u /\ u[i] = s[i]
  BY <1>1
<1>3. \A i \in DOMAIN t : i + Len(s) \in DOMAIN u /\ u[i + Len(s)] = t[i]
  BY <1>1
<1>4. \A i \in DOMAIN u : \/ i \in DOMAIN s /\ u[i] = s[i]
                          \/ i - Len(s) \in DOMAIN t /\ u[i] = t[i - Len(s)]
  BY <1>1
<1>5. Ended(u) = Ended(s) \union Ended(t)
  <2>1. Ended(u) \subseteq Ended(s) \union Ended(t)
    BY <1>4 DEF Ended
  <2>2. Ended(s) \subseteq Ended(u)
    BY <1>2 DEF Ended
  <2>3. Ended(t) \subseteq Ended(u)
    BY <1>3 DEF Ended
  <2>4. QED
    BY <2>1, <2>2, <2>3
<1>6. Log!ToSet(u) = Log!ToSet(s) \union Log!ToSet(t)
  <2>1. Log!ToSet(u) \subseteq Log!ToSet(s) \union Log!ToSet(t)
    BY <1>4 DEF Log!ToSet
  <2>2. Log!ToSet(s) \subseteq Log!ToSet(u)
    BY <1>2 DEF Log!ToSet
  <2>3. Log!ToSet(t) \subseteq Log!ToSet(u)
    BY <1>3 DEF Log!ToSet
  <2>4. QED
    BY <2>1, <2>2, <2>3
<1>7. ASSUME EndedOnce(s), EndedOnce(t), Ended(s) \intersect Ended(t) = {}
      PROVE  EndedOnce(u)
  <2>1. SUFFICES ASSUME NEW k \in DOMAIN u, NEW l \in DOMAIN u, u[k][1] = u[l][1]
                 PROVE  k = l
    BY DEF EndedOnce
  <2>2. \A i \in DOMAIN s, j \in DOMAIN t : s[i][1] # t[j][1]
    BY <1>7 DEF Ended
  <2>3. CASE k \in DOMAIN s /\ u[k] = s[k] /\ l \in DOMAIN s /\ u[l] = s[l]
    BY <1>7, <2>1, <2>3 DEF EndedOnce
  <2>4. CASE /\ k - Len(s) \in DOMAIN t /\ u[k] = t[k - Len(s)]
             /\ l - Len(s) \in DOMAIN t /\ u[l] = t[l - Len(s)]
    <3>1. k - Len(s) = l - Len(s)
      BY <1>7, <2>1, <2>4 DEF EndedOnce
    <3>2. QED
      BY <1>1, <3>1
  <2>5. QED
    BY <1>4, <2>1, <2>2, <2>3, <2>4
<1>8. QED
  BY <1>1, <1>5, <1>6, <1>7 DEF u

LEMMA EndedAppend ==
    ASSUME NEW s \in Seq(Log!Happened), NEW e \in Log!Happened
    PROVE  /\ Append(s, e) \in Seq(Log!Happened)
           /\ Ended(Append(s, e)) = Ended(s) \union {e[1]}
           /\ Log!ToSet(Append(s, e)) = Log!ToSet(s) \union {e}
           /\ EndedOnce(s) /\ e[1] \notin Ended(s) => EndedOnce(Append(s, e))
<1>1. <<e>> \in Seq(Log!Happened) /\ DOMAIN <<e>> = {1} /\ <<e>>[1] = e
  OBVIOUS
<1>2. Ended(<<e>>) = {e[1]} /\ Log!ToSet(<<e>>) = {e} /\ EndedOnce(<<e>>)
  BY <1>1 DEF Ended, Log!ToSet, EndedOnce
<1>3. Append(s, e) = s \o <<e>>
  BY <1>1, AppendIsConcat
<1>4. PICK t : t = <<e>>
  OBVIOUS
<1>5. /\ s \o t \in Seq(Log!Happened) /\ Ended(s \o t) = Ended(s) \union Ended(t)
      /\ Log!ToSet(s \o t) = Log!ToSet(s) \union Log!ToSet(t)
      /\ EndedOnce(s) /\ EndedOnce(t) /\ Ended(s) \intersect Ended(t) = {} => EndedOnce(s \o t)
  BY <1>1, <1>4, EndedConcat
<1>6. Ended(t) = {e[1]} /\ Log!ToSet(t) = {e} /\ EndedOnce(t) /\ Append(s, e) = s \o t
  BY <1>2, <1>3, <1>4
<1> HIDE <1>4
<1>7. QED
  BY <1>5, <1>6

LEMMA NoneEnded ==
  /\ <<>> \in Seq(Log!Happened) /\ Ended(<<>>) = {} /\ EndedOnce(<<>>) /\ Log!ToSet(<<>>) = {}
<1>1. <<>> \in Seq(Log!Happened) /\ DOMAIN <<>> = {}
  OBVIOUS
<1>2. QED
  BY <1>1 DEF Ended, EndedOnce, Log!ToSet

\* A rollup keeps the operations.
LEMMA RolledIs ==
    ASSUME NEW s \in Seq(Log!Happened), NEW r, r = Log!Rolled(s)
    PROVE  /\ r \in Seq(Log!Happened) /\ Ended(r) = Ended(s)
           /\ EndedOnce(s) => EndedOnce(r)
           /\ packing.gen[2] # 2 => Log!ToSet(r) = Log!ToSet(s)
<1>1. Len(s) \in Nat /\ DOMAIN s = 1 .. Len(s) /\ \A i \in 1 .. Len(s) : s[i] \in Log!Happened
  BY LenProperties, ElementOfSeq
<1>2. \A i \in DOMAIN s : r[i] = IF packing.gen[2] = 2 /\ s[i][2] = "success"
                                   THEN <<s[i][1], "counted">> ELSE s[i]
  BY DEF Log!Rolled
<1>3. DOMAIN r = DOMAIN s
  BY DEF Log!Rolled
<1>4. \A i \in DOMAIN s : r[i] \in Log!Happened /\ r[i][1] = s[i][1]
  <2>1. TAKE i \in DOMAIN s
  <2>2. s[i] \in Ops \X {"success", "unfinished", "counted"}
    BY <1>1 DEF Log!Happened, Log!Statuses
  <2>3. s[i][1] \in Ops /\ <<s[i][1], "counted">> \in Log!Happened
    BY <2>2 DEF Log!Happened, Log!Statuses
  <2>4. CASE packing.gen[2] = 2 /\ s[i][2] = "success"
    <3>1. r[i] = <<s[i][1], "counted">>
      BY <1>2, <2>4
    <3>2. QED
      BY <2>3, <3>1
  <2>5. CASE ~(packing.gen[2] = 2 /\ s[i][2] = "success")
    <3>1. r[i] = s[i]
      BY <1>2, <2>5
    <3>2. QED
      BY <1>1, <3>1
  <2>6. QED
    BY <2>4, <2>5
<1>5. r \in [1 .. Len(s) -> Log!Happened]
  <2>1. r = [i \in DOMAIN s |-> IF packing.gen[2] = 2 /\ s[i][2] = "success"
                                   THEN <<s[i][1], "counted">> ELSE s[i]]
    BY DEF Log!Rolled
  <2>2. r = [i \in DOMAIN r |-> r[i]]
    BY <2>1
  <2>3. QED
    BY <1>1, <1>3, <1>4, <2>2
<1>6. r \in Seq(Log!Happened)
  BY <1>1, <1>5, SeqDef
<1>7. Ended(r) = Ended(s) /\ (EndedOnce(s) => EndedOnce(r))
  BY <1>3, <1>4 DEF Ended, EndedOnce
<1>8. packing.gen[2] # 2 => Log!ToSet(r) = Log!ToSet(s)
  BY <1>2, <1>3 DEF Log!ToSet
<1>9. QED
  BY <1>6, <1>7, <1>8

\* The elements of a finite set, one after the other
LEMMA LogCardinality == \A set : Log!Cardinality(set) = Cardinality(set)
  BY DEF Log!Cardinality, Cardinality

LEMMA SeqOfSet ==
    ASSUME NEW set \in SUBSET Log!Happened, IsFiniteSet(set), NEW s, s = Log!SetToSeq(set)
    PROVE  s \in Seq(Log!Happened) /\ Log!ToSet(s) = set /\ \A i, j \in DOMAIN s : s[i] = s[j] => i = j
<1> DEFINE n == Cardinality(set)
<1>1. n \in Nat /\ ExistsBijection(1 .. n, set)
  BY FS_CardinalityType
<1>2. PICK f \in [1 .. n -> set] : \A i, j \in 1 .. n : f[i] = f[j] => i = j
  BY <1>1 DEF ExistsBijection, Bijection, Injection, IsInjective
<1> HIDE DEF n
<1>3. f \in [1 .. n -> set] /\ Log!IsInjective(f)
  BY <1>2 DEF Log!IsInjective
<1>4. s = CHOOSE g \in [1 .. n -> set] : Log!IsInjective(g)
  BY LogCardinality DEF Log!SetToSeq, n
<1>5. s \in [1 .. n -> set] /\ Log!IsInjective(s)
  BY <1>3, <1>4
<1>6. s \in Seq(Log!Happened)
  <2>1. s \in [1 .. n -> Log!Happened]
    BY <1>5
  <2>2. QED
    BY <1>1, <2>1, SeqDef
<1>7. \A i, j \in DOMAIN s : s[i] = s[j] => i = j
  BY <1>5 DEF Log!IsInjective
<1>8. s \in Injection(1 .. n, set)
  BY <1>5, <1>7 DEF Injection, IsInjective
<1>9. IsFiniteSet(1 .. n) /\ Cardinality(1 .. n) = n
  BY <1>1, FS_Interval
<1>10. s \in Surjection(1 .. n, set)
  BY <1>8, <1>9, FS_Injection DEF n
<1>11. Log!ToSet(s) = set
  <2>1. \A x \in set : \E i \in 1 .. n : s[i] = x
    BY <1>10 DEF Surjection
  <2>2. QED
    BY <1>5, <2>1 DEF Log!ToSet
<1>12. QED
  BY <1>6, <1>7, <1>11

\* Subsequences of frames
LEMMA PrefixIs ==
    ASSUME NEW f \in Seq(Log!Frames), NEW n \in Nat, n <= Len(f)
    PROVE  /\ SubSeq(f, 1, n) \in Seq(Log!Frames) /\ Len(SubSeq(f, 1, n)) = n
           /\ \A i \in 1 .. n : SubSeq(f, 1, n)[i] = f[i]
<1>1. Len(f) \in Nat /\ \A i \in 1 .. Len(f) : f[i] \in Log!Frames
  BY LenProperties, ElementOfSeq
<1>2. \A i \in 1 .. n : f[i] \in Log!Frames
  BY <1>1
<1>3. /\ SubSeq(f, 1, n) \in Seq(Log!Frames)
      /\ Len(SubSeq(f, 1, n)) = IF 1 <= n THEN n - 1 + 1 ELSE 0
      /\ \A i \in 1 .. n - 1 + 1 : SubSeq(f, 1, n)[i] = f[1 + i - 1]
  BY <1>2, SubSeqProperties
<1>4. QED
  BY <1>3

LEMMA SamePrefix ==
    ASSUME NEW f \in Seq(Log!Frames), NEW h \in Seq(Log!Frames), NEW n \in Nat,
           n <= Len(f), n <= Len(h), \A i \in 1 .. n : h[i] = f[i]
    PROVE  SubSeq(h, 1, n) = SubSeq(f, 1, n)
<1>1. PICK a, b : a = SubSeq(h, 1, n) /\ b = SubSeq(f, 1, n)
  OBVIOUS
<1>2. a \in Seq(Log!Frames) /\ Len(a) = n /\ \A i \in 1 .. n : a[i] = h[i]
  BY <1>1, PrefixIs
<1>3. b \in Seq(Log!Frames) /\ Len(b) = n /\ \A i \in 1 .. n : b[i] = f[i]
  BY <1>1, PrefixIs
<1>4. a = b
  BY <1>2, <1>3, SeqEqual
<1>5. QED
  BY <1>1, <1>4

LEMMA WholePrefix ==
    ASSUME NEW f \in Seq(Log!Frames)
    PROVE  SubSeq(f, 1, Len(f)) = f
<1>1. PICK a : a = SubSeq(f, 1, Len(f))
  OBVIOUS
<1>2. Len(f) \in Nat
  BY LenProperties
<1>3. a \in Seq(Log!Frames) /\ Len(a) = Len(f) /\ \A i \in 1 .. Len(f) : a[i] = f[i]
  BY <1>1, <1>2, PrefixIs
<1>4. a = f
  BY <1>3, SeqEqual
<1>5. QED
  BY <1>1, <1>4

\* A page continues what the reader has.
LEMMA PageRead ==
    ASSUME NEW f \in Seq(Log!Frames), NEW from \in Nat \ {0}, NEW last \in Nat,
           from - 1 <= last, last <= Len(f)
    PROVE  /\ SubSeq(f, 1, from - 1) \o SubSeq(f, from, last) = SubSeq(f, 1, last)
           /\ SubSeq(f, from, last) \in Seq(Log!Frames)
           /\ from = 1 => <<>> \o SubSeq(f, from, last) = SubSeq(f, 1, last)
<1>1. Len(f) \in Nat /\ \A i \in 1 .. Len(f) : f[i] \in Log!Frames
  BY LenProperties, ElementOfSeq
<1>2. PICK a, b, c : a = SubSeq(f, 1, from - 1) /\ b = SubSeq(f, from, last) /\ c = SubSeq(f, 1, last)
  OBVIOUS
<1>3. a \in Seq(Log!Frames) /\ Len(a) = from - 1 /\ \A i \in 1 .. from - 1 : a[i] = f[i]
  <2>1. from - 1 \in Nat /\ from - 1 <= Len(f)
    BY <1>1
  <2>2. QED
    BY <1>2, <2>1, PrefixIs
<1>4. c \in Seq(Log!Frames) /\ Len(c) = last /\ \A i \in 1 .. last : c[i] = f[i]
  BY <1>2, PrefixIs
<1>5. /\ b \in Seq(Log!Frames) /\ Len(b) = last - (from - 1)
      /\ \A i \in 1 .. last - (from - 1) : b[i] = f[from - 1 + i]
  <2>1. \A i \in from .. last : f[i] \in Log!Frames
    BY <1>1
  <2>2. /\ SubSeq(f, from, last) \in Seq(Log!Frames)
        /\ Len(SubSeq(f, from, last)) = IF from <= last THEN last - from + 1 ELSE 0
        /\ \A i \in 1 .. last - from + 1 : SubSeq(f, from, last)[i] = f[from + i - 1]
    BY <2>1, SubSeqProperties
  <2>3. QED
    BY <1>2, <2>2
<1>6. /\ a \o b \in Seq(Log!Frames) /\ Len(a \o b) = Len(a) + Len(b)
      /\ \A i \in 1 .. Len(a) + Len(b) :
           (a \o b)[i] = IF i <= Len(a) THEN a[i] ELSE b[i - Len(a)]
  BY <1>3, <1>5, ConcatProperties
<1>7. \A i \in 1 .. last : (a \o b)[i] = c[i]
  <2>1. SUFFICES ASSUME NEW i \in 1 .. last PROVE (a \o b)[i] = f[i]
    BY <1>4
  <2>2. CASE i <= from - 1
    BY <1>3, <1>5, <1>6, <2>2
  <2>3. CASE i > from - 1
    <3>1. i - (from - 1) \in 1 .. last - (from - 1) /\ i \in 1 .. Len(a) + Len(b)
      BY <1>3, <1>5, <2>3
    <3>2. b[i - (from - 1)] = f[from - 1 + (i - (from - 1))]
      BY <1>5, <3>1
    <3>3. from - 1 + (i - (from - 1)) = i
      OBVIOUS
    <3>4. QED
      BY <1>3, <1>6, <2>3, <3>1, <3>2, <3>3
  <2>4. i <= from - 1 \/ i > from - 1
    OBVIOUS
  <2>5. QED
    BY <2>2, <2>3, <2>4, Zenon
<1>8. a \o b = c
  <2>1. Len(a \o b) = Len(c)
    BY <1>3, <1>4, <1>5, <1>6
  <2>2. QED
    BY <1>4, <1>6, <1>7, <2>1, SeqEqual
<1>9. from = 1 => a = <<>>
  BY <1>3, EmptySeq
<1>10. QED
  BY <1>2, <1>5, <1>8, <1>9

-----------------------------------------------------------------------------
(* Days                                                                    *)

\* What a day has, with its torn tail
Held(d) == IF file[d] = None THEN <<>> ELSE file[d].frames

LEMMA DayIs ==
    ASSUME LogTypes, NEW d \in Log!Days
    PROVE  /\ Held(d) \in Seq(Log!Frames) /\ Log!Journaled(d) = Log!Complete(Held(d))
           /\ Log!Journaled(d) \in Seq(Log!Frames) /\ Len(Log!Journaled(d)) \in Nat
           /\ file[d] # None => /\ file[d] \in Logs
                                /\ file[d].frames \in Seq(Log!Frames) /\ file[d].gen \in Nat \X Nat
                                /\ Log!Journaled(d) = Log!Complete(file[d].frames)
<1>1. file[d] # None => file[d] \in Logs /\ file[d].frames \in Seq(Log!Frames)
                         /\ file[d].gen \in Nat \X Nat
  BY DEF LogTypes, Logs
<1>2. Held(d) \in Seq(Log!Frames) /\ Log!Journaled(d) = Log!Complete(Held(d))
  BY <1>1, NoFrames DEF Held, Log!Journaled
<1>3. PICK h : h = Held(d)
  OBVIOUS
<1>4. Log!Complete(h) \in Seq(Log!Frames) /\ Len(Log!Complete(h)) \in Nat
  BY <1>2, <1>3, CompleteIs
<1>5. QED
  BY <1>1, <1>2, <1>3, <1>4 DEF Log!Journaled

LEMMA DaySame ==
    ASSUME file' = file
    PROVE  \A d : /\ Log!Journaled(d)' = Log!Journaled(d) /\ On(d)' = On(d)
                  /\ Log!Stranded(d)' = Log!Stranded(d)
BY DEF Log!Journaled, On, Log!Stranded

\* A first append cuts off the torn tail; it makes a packed day a new one.
LEMMA PreparedIs ==
    ASSUME LogTypes, NEW d \in Log!Days, NEW p, p = Log!Prepared(d)
    PROVE  /\ p.gen \in Nat \X Nat /\ p.tail \in Nat
           /\ p.frames = IF d \in prepared THEN Held(d) ELSE Log!Journaled(d)
           /\ p.frames \in Seq(Log!Frames) /\ Log!Complete(p.frames) = Log!Journaled(d)
           /\ Log!Journaled(d) = Held(d) /\ file[d] # None =>
                /\ p.gen = file[d].gen \/ Newer(p.gen, file[d].gen)
                /\ file[d].gen[2] = 0 => p.gen = file[d].gen
                /\ file[d].gen[2] \in {0, 1} => p.gen[2] \in {0, 1}
           /\ file[d] = None => p.gen = <<0, 0>>
<1> DEFINE f == IF file[d] = None THEN [gen |-> <<0, 0>>, frames |-> <<>>] ELSE file[d]
           fresh == IF f.gen[2] # 0 THEN Log!Next4(f.gen) ELSE f.gen
<1>1. Held(d) \in Seq(Log!Frames) /\ Log!Journaled(d) = Log!Complete(Held(d))
  BY DayIs
<1>2. f.frames = Held(d) /\ f.gen \in Nat \X Nat /\ f = [gen |-> f.gen, frames |-> f.frames]
  <2>1. CASE file[d] = None
    BY <2>1 DEF Held
  <2>2. CASE file[d] # None
    <3>1. file[d] \in Logs
      BY <2>2, DayIs
    <3>2. QED
      BY <2>2, <3>1 DEF Held, Logs
  <2>3. QED
    BY <2>1, <2>2
<1>3. file[d] # None => f = file[d]
  OBVIOUS
<1>4. file[d] = None => f.gen = <<0, 0>> /\ Held(d) = <<>>
  BY DEF Held
<1>5. p = IF d \in prepared THEN [gen |-> f.gen, frames |-> f.frames, tail |-> 0]
          ELSE [gen |-> IF Log!Complete(f.frames) # f.frames THEN Log!Next4(fresh) ELSE fresh,
                frames |-> Log!Complete(f.frames),
                tail |-> IF Log!Complete(f.frames) # f.frames THEN 1 ELSE 0]
  BY DEF Log!Prepared, Log!Prepare
<1> HIDE DEF f
<1>6. /\ f.gen \in Nat \X Nat /\ f.gen[1] \in Nat /\ f.gen[2] \in Nat
      /\ f.gen = <<f.gen[1], f.gen[2]>>
  BY <1>2
<1>7. fresh \in Nat \X Nat /\ (fresh = f.gen \/ Newer(fresh, f.gen)) /\ (f.gen[2] = 0 => fresh = f.gen)
      /\ (f.gen[2] \in {0, 1} => fresh[2] \in {0, 1})
  <2>1. CASE f.gen[2] = 0
    BY <1>6, <2>1
  <2>2. CASE f.gen[2] # 0
    <3>1. fresh = <<f.gen[1] + 1, 0>>
      BY <2>2 DEF Log!Next4
    <3>2. QED
      BY <1>6, <2>2, <3>1 DEF Newer
  <2>3. QED
    BY <2>1, <2>2
<1>8. Log!Next4(fresh) \in Nat \X Nat
  BY <1>7 DEF Log!Next4
<1> HIDE DEF fresh
<1>9. CASE d \in prepared
  <2>1. p.gen = f.gen /\ p.frames = Held(d) /\ p.tail = 0
    BY <1>2, <1>5, <1>9
  <2>2. QED
    BY <1>1, <1>3, <1>4, <1>6, <1>9, <2>1
<1>10. CASE d \notin prepared
  <2>1. PICK c : c = Log!Complete(Held(d))
    OBVIOUS
  <2>2. c \in Seq(Log!Frames) /\ Log!Complete(c) = c
    BY <1>1, <2>1, CompleteTwice
  <2>3. p.frames = c /\ p.tail \in Nat /\ p.gen = IF c # Held(d) THEN Log!Next4(fresh) ELSE fresh
    BY <1>2, <1>5, <1>10, <2>1
  <2>4. p.gen \in Nat \X Nat
    BY <1>7, <1>8, <2>3
  <2>5. Log!Journaled(d) = Held(d) => p.gen = fresh
    BY <1>1, <2>1, <2>3
  <2>6. file[d] = None => p.gen = <<0, 0>>
    <3>1. SUFFICES ASSUME file[d] = None PROVE p.gen = <<0, 0>>
      OBVIOUS
    <3>2. c = Held(d)
      BY <1>4, <2>1, <3>1, NoFrames
    <3>3. QED
      BY <1>4, <1>7, <2>3, <3>1, <3>2
  <2>7. QED
    BY <1>1, <1>3, <1>7, <1>10, <2>1, <2>2, <2>3, <2>4, <2>5, <2>6
<1>11. QED
  BY <1>9, <1>10

\* What a write makes of the day, and that it leaves the others alone
LEMMA DayWritten ==
    ASSUME LogTypes, NEW d \in Log!Days, NEW added,
           added = <<>> \/ \E g \in Log!Frames : added = <<g>>,
           file' = [file EXCEPT ![d] = Log!Written(d, added)]
    PROVE  /\ file' \in [Log!Days -> Logs \union {None}] /\ file'[d] \in Logs /\ file'[d] # None
           /\ \A e \in Log!Days \ {d} : /\ file'[e] = file[e] /\ On(e)' = On(e)
                                        /\ Log!Journaled(e)' = Log!Journaled(e)
                                        /\ Log!Stranded(e)' = Log!Stranded(e)
           /\ file'[d].gen = Log!Prepared(d).gen
           /\ file'[d].frames = Log!Prepared(d).frames \o added
           /\ Log!Journaled(d)' = Log!Complete(Log!Prepared(d).frames \o added)
<1> DEFINE w == Log!Written(d, added)
<1>1. PICK p : p = Log!Prepared(d)
  OBVIOUS
<1>2. p.gen \in Nat \X Nat /\ p.frames \in Seq(Log!Frames)
  BY <1>1, PreparedIs
<1>3. w = [gen |-> p.gen, frames |-> p.frames \o added]
  BY <1>1 DEF Log!Written
<1>4. added \in Seq(Log!Frames)
  <2>1. \A g \in Log!Frames : <<g>> \in Seq(Log!Frames)
    OBVIOUS
  <2>2. QED
    BY <2>1, NoFrames
<1>5. p.frames \o added \in Seq(Log!Frames)
  BY <1>2, <1>4, ConcatProperties
<1>6. w \in Logs /\ w.gen = p.gen /\ w.frames = p.frames \o added
  BY <1>2, <1>3, <1>5 DEF Logs
<1>7. None \notin Logs
  BY JournalNoneAssumption DEF Logs
<1> HIDE DEF w
<1>8. file' = [file EXCEPT ![d] = w] /\ file \in [Log!Days -> Logs \union {None}]
  BY DEF w, LogTypes
<1>9. file' \in [Log!Days -> Logs \union {None}] /\ file'[d] = w
      /\ \A e \in Log!Days \ {d} : file'[e] = file[e]
  BY <1>6, <1>8
<1>10. \A e \in Log!Days \ {d} : /\ Log!Journaled(e)' = Log!Journaled(e)
                                 /\ Log!Stranded(e)' = Log!Stranded(e)
  BY <1>9 DEF Log!Journaled, Log!Stranded
<1>11. \A e \in Log!Days \ {d} : On(e)' = On(e)
  BY <1>10 DEF On
<1>12. Log!Journaled(d)' = Log!Complete(w.frames)
  BY <1>6, <1>7, <1>9 DEF Log!Journaled
<1>13. QED
  BY <1>1, <1>6, <1>7, <1>9, <1>10, <1>11, <1>12

\* A frame is added to those that can be read, unless a torn one hides it; a
\* torn one, and none, add nothing.
LEMMA FrameWritten ==
    ASSUME LogTypes, NEW d \in Log!Days, NEW added,
           added = <<>> \/ \E g \in Log!Frames : added = <<g>>,
           file' = [file EXCEPT ![d] = Log!Written(d, added)]
    PROVE  /\ added = <<>> => Log!Journaled(d)' = Log!Journaled(d)
           /\ added = <<>> => file'[d].frames = Log!Prepared(d).frames
           /\ \A g \in Log!Frames : added = <<g>> /\ ~g.ok => Log!Journaled(d)' = Log!Journaled(d)
           /\ \A g \in Log!Frames : added = <<g>> /\ g.ok =>
                Log!Journaled(d)' \in {Log!Journaled(d), Log!Journaled(d) \o <<g>>}
           /\ \A g \in Log!Frames :
                added = <<g>> /\ g.ok /\ Log!Prepared(d).frames = Log!Journaled(d) =>
                  /\ Log!Journaled(d)' = Log!Journaled(d) \o <<g>>
                  /\ file'[d].frames = Log!Journaled(d)'
<1>1. PICK p : p = Log!Prepared(d)
  OBVIOUS
<1>2. p.frames \in Seq(Log!Frames) /\ Log!Complete(p.frames) = Log!Journaled(d)
  BY <1>1, PreparedIs
<1>3. PICK f : f = p.frames
  OBVIOUS
<1>4. PICK j : j = Log!Journaled(d)
  OBVIOUS
<1>5. f \in Seq(Log!Frames) /\ Log!Complete(f) = j
  BY <1>2, <1>3, <1>4
<1>6. file'[d].frames = f \o added /\ Log!Journaled(d)' = Log!Complete(f \o added)
  BY <1>1, <1>3, DayWritten
<1>7. added = <<>> => f \o added = f
  BY <1>5, ConcatEmptySeq
<1>8. ASSUME NEW g \in Log!Frames, added = <<g>>
      PROVE  /\ f = j /\ g.ok => Log!Journaled(d)' = j \o <<g>> /\ file'[d].frames = Log!Journaled(d)'
             /\ f # j \/ ~g.ok => Log!Journaled(d)' = j
  <2>1. /\ Log!Complete(f) = f /\ g.ok => Log!Complete(f \o <<g>>) = f \o <<g>>
        /\ Log!Complete(f) # f \/ ~g.ok => Log!Complete(f \o <<g>>) = Log!Complete(f)
    BY <1>5, CompleteAppend
  <2>2. QED
    BY <1>5, <1>6, <1>8, <2>1
<1>9. QED
  BY <1>1, <1>3, <1>4, <1>5, <1>6, <1>7, <1>8

\* The counters of a snapshot
LEMMA GapsCounted ==
    ASSUME NEW m \in Snapshots, NEW n \in Nat
    PROVE  /\ [m EXCEPT !.gaps = @ + n] \in Snapshots
           /\ [m EXCEPT !.gaps = @ + n].gaps = m.gaps + n
           /\ [m EXCEPT !.gaps = @ + n].active = m.active
           /\ [m EXCEPT !.gaps = @ + n].unknown = m.unknown
BY DEF Snapshots

-----------------------------------------------------------------------------
(* What a step leaves alone keeps its part of the invariant.               *)

LEMMA TracedSame ==
    ASSUME Traced, UNCHANGED <<mem, snap, op, queue, file, pending, day, at>>
    PROVE  Traced'
BY DaySame DEF Traced

LEMMA GapsSame ==
    ASSUME GapsGrow, UNCHANGED <<mem, snap, at, shared, opened>>
    PROVE  GapsGrow'
BY DEF GapsGrow

LEMMA TornSame ==
    ASSUME TornLast, UNCHANGED <<limits, file>>, prepared' \subseteq prepared
    PROVE  TornLast'
BY DaySame DEF TornLast, Log!Undone

LEMMA LeftSame ==
    ASSUME LeftKnown, UNCHANGED <<limits, mem, opened, snap, file, pending>>,
           at' # "down" => at # "down"
    PROVE  LeftKnown'
BY DaySame DEF LeftKnown, Log!Undone

LEMMA RepackedSame ==
    ASSUME Repacked, UNCHANGED <<packing, file>>
    PROVE  Repacked'
BY DaySame DEF Repacked

LEMMA EndsSame ==
    ASSUME EndsOnce, UNCHANGED <<limits, file, pending, queue, packing>>
    PROVE  EndsOnce'
BY DaySame DEF EndsOnce, Log!NeverRolledUp

LEMMA CountedSame ==
    ASSUME NotCounted, UNCHANGED <<limits, today, file, pending, packing>>
    PROVE  NotCounted'
BY DaySame DEF NotCounted, Log!NeverRolledUp

LEMMA GenerationsSame ==
    ASSUME Generations, UNCHANGED <<limits, file, packing, cursor>>
    PROVE  Generations'
BY DaySame DEF Generations, Log!Distinguished, Log!Undone, Log!NeverRolledUp, Newer

LEMMA CursorSame ==
    ASSUME Log!CursorTrue, UNCHANGED <<limits, file, cursor, got>>
    PROVE  Log!CursorTrue'
BY DEF Log!CursorTrue, Log!Distinguished, Log!Undone, Log!NeverRolledUp, Log!Resumes

LEMMA OwedSame ==
    ASSUME Owed, UNCHANGED <<limits, shown, snap, file, exporting, got>>
    PROVE  Owed'
BY DaySame DEF Owed, Log!Distinguished, Log!Undone, Log!NeverRolledUp, Log!Named

\* What is recorded, or about to be, is of operations.
LEMMA EventsInOps ==
    ASSUME LogTypes, NEW d \in Log!Days
    PROVE  On(d) \union Ended(pending[d]) \subseteq Ops
<1>1. \A s \in Seq(Log!Happened) : Ended(s) \subseteq Ops
  <2>1. SUFFICES ASSUME NEW s \in Seq(Log!Happened), NEW k \in DOMAIN s PROVE s[k][1] \in Ops
    BY DEF Ended
  <2>2. s[k] \in Log!Happened
    BY LenProperties, ElementOfSeq
  <2>3. QED
    BY <2>2 DEF Log!Happened
<1>2. PICK f : f = Log!Journaled(d)
  OBVIOUS
<1>3. f \in Seq(Log!Frames)
  BY <1>2, DayIs
<1>4. \A i \in 1 .. Len(f) : f[i].events \in Seq(Log!Happened)
  <2>1. \A i \in 1 .. Len(f) : f[i] \in Log!Frames
    BY <1>3, ElementOfSeq
  <2>2. QED
    BY <2>1 DEF Log!Frames
<1>5. Log!Named(f) \subseteq Ops
  BY <1>1, <1>3, <1>4, EventsAre
<1>6. QED
  BY <1>1, <1>2, <1>5 DEF On, LogTypes

-----------------------------------------------------------------------------
(* The recorder                                                            *)

LEMMA LogInit == Log!Init => LogInv
<1>1. SUFFICES ASSUME Log!Init PROVE LogInv
  OBVIOUS
<1>2. 1 \in Log!Days /\ MaxDays \in Nat \ {0}
  BY JournalAssumption DEF Log!Days
<1>3. /\ limits \in Log!Circumstances /\ today = 1 /\ op = [o \in Ops |-> "new"]
      /\ day = [o \in Ops |-> 1] /\ queue = <<>> /\ dropped = 0 /\ at = "down"
      /\ shared = 0 /\ opened = 0 /\ mem = Log!NoSnapshot /\ snap = Log!NoSnapshot /\ prepared = {} /\ packing = None
      /\ crashes = 0 /\ failures = 0 /\ exports = 0 /\ exporting = None /\ shown = {}
  BY <1>1, JournalAssumption DEF Log!Init
<1>4. \A d \in Log!Days : /\ pending[d] = <<>> /\ file[d] = None /\ cursor[d] = None /\ got[d] = <<>>
  BY <1>1 DEF Log!Init, Log!NoEvents
<1>5. /\ mem = [gaps |-> 0, active |-> {}, unknown |-> {}] /\ snap = mem
      /\ mem.gaps = 0 /\ mem.active = {} /\ mem.unknown = {} /\ mem \in Snapshots
  BY <1>3 DEF Log!NoSnapshot, Snapshots
<1>6. LogTypes
  <2>1. /\ pending = [d \in Log!Days |-> <<>>] /\ file = [d \in Log!Days |-> None]
        /\ cursor = [d \in Log!Days |-> None] /\ got = [d \in Log!Days |-> <<>>]
    BY <1>1 DEF Log!Init, Log!NoEvents
  <2>2. queue \in Seq(Messages)
    BY <1>3
  <2>3. pending \in [Log!Days -> Seq(Log!Happened)] /\ got \in [Log!Days -> Seq(Log!Frames)]
    BY <2>1
  <2>4. file \in [Log!Days -> Logs \union {None}] /\ cursor \in [Log!Days -> Positions \union {None}]
    BY <2>1
  <2>5. op \in [Ops -> {"new", "running", "over"}] /\ day \in [Ops -> Log!Days]
    BY <1>2, <1>3
  <2>6. QED
    BY <1>2, <1>3, <1>5, <2>2, <2>3, <2>4, <2>5 DEF LogTypes
<1>7. \A d \in Log!Days : /\ Log!Journaled(d) = <<>> /\ On(d) = {} /\ Log!Events(Log!Journaled(d)) = {}
                          /\ Ended(pending[d]) = {} /\ Log!ToSet(pending[d]) = {}
                          /\ EndedOnce(pending[d]) /\ Log!Once(Log!Journaled(d))
  <2>1. SUFFICES ASSUME NEW d \in Log!Days
                 PROVE  /\ Log!Journaled(d) = <<>> /\ On(d) = {} /\ Log!Events(Log!Journaled(d)) = {}
                        /\ Ended(pending[d]) = {} /\ Log!ToSet(pending[d]) = {}
                        /\ EndedOnce(pending[d]) /\ Log!Once(Log!Journaled(d))
    OBVIOUS
  <2>2. Log!Journaled(d) = <<>>
    BY <1>4 DEF Log!Journaled
  <2>3. DOMAIN <<>> = {}
    OBVIOUS
  <2>4. On(d) = {} /\ Log!Events(Log!Journaled(d)) = {} /\ Log!Once(Log!Journaled(d))
    BY <2>2, <2>3 DEF On, Log!Named, Log!Events, Log!Once
  <2>5. QED
    BY <1>4, <2>2, <2>4, NoneEnded
<1>8. DOMAIN queue = {}
  BY <1>3
<1>9. Traced
  <2>1. \A o \in mem.active \union snap.active : op[o] # "new"
    BY <1>5
  <2>2. \A o \in Ops : op[o] # "running"
    BY <1>3
  <2>3. QED
    BY <1>3, <1>4, <1>7, <1>8, <2>1, <2>2 DEF Traced
<1>10. GapsGrow /\ TornLast /\ LeftKnown /\ Repacked
  BY <1>3, <1>4, <1>5 DEF GapsGrow, TornLast, LeftKnown, Repacked
<1>11. EndsOnce /\ NotCounted
  BY <1>3, <1>7, <1>8 DEF EndsOnce, NotCounted
<1>12. Generations /\ Log!CursorTrue /\ Owed
  BY <1>3, <1>4 DEF Generations, Log!CursorTrue, Owed
<1>13. QED
  BY <1>6, <1>9, <1>10, <1>11, <1>12 DEF LogInv

LEMMA MidnightStep ==
    ASSUME LogInv, Log!Midnight
    PROVE  LogInv'
<1>1. /\ today + 1 \in Log!Days /\ today < limits.days /\ today' = today + 1
      /\ UNCHANGED <<op, day, queue, dropped, at, mem, shared, opened, pending, prepared, packing, snap, file,
                     cursor, got, exporting, shown, exports, limits, crashes, failures>>
  BY DEF Log!Midnight, Log!gaps, Log!channel, Log!writer, Log!disk, Log!reader, Log!trouble
<1>2. LogTypes'
  BY <1>1 DEF LogInv, LogTypes
<1>3. NotCounted'
  <2>1. today \in Nat /\ limits.days \in Nat
    BY JournalAssumption DEF LogInv, LogTypes, Log!Days, Log!Circumstances
  <2>2. today' <= limits'.days
    BY <1>1, <2>1
  <2>3. QED
    BY <1>1, <2>2, DaySame DEF LogInv, NotCounted, Log!NeverRolledUp
<1>4. Traced' /\ GapsGrow' /\ TornLast' /\ LeftKnown' /\ Repacked'
  BY <1>1, TracedSame, GapsSame, TornSame, LeftSame, RepackedSame DEF LogInv
<1>5. EndsOnce' /\ Generations' /\ Log!CursorTrue' /\ Owed'
  BY <1>1, EndsSame, GenerationsSame, CursorSame, OwedSame DEF LogInv
<1>6. QED
  BY <1>2, <1>3, <1>4, <1>5 DEF LogInv

\* A message is queued or counted.
LEMMA Queued ==
    ASSUME LogTypes, NEW o \in Ops, NEW over \in BOOLEAN, Log!Send(o, over)
    PROVE  /\ queue' \in Seq(Messages) /\ dropped' \in Nat
           /\ queue' = queue \/ /\ Len(queue') = Len(queue) + 1 /\ Len(queue) \in Nat
                                /\ DOMAIN queue' = 1 .. Len(queue) + 1 /\ DOMAIN queue = 1 .. Len(queue)
                                /\ queue'[Len(queue) + 1] = [op |-> o, over |-> over]
                                /\ \A i \in DOMAIN queue : queue'[i] = queue[i]
<1>1. CASE queue' = queue /\ dropped' = dropped + 1
  BY <1>1 DEF LogTypes
<1>2. CASE queue' = Append(queue, [op |-> o, over |-> over]) /\ dropped' = dropped
  <2>1. PICK m : m = [op |-> o, over |-> over]
    OBVIOUS
  <2>2. m \in Messages
    BY <2>1 DEF Messages
  <2>3. queue \in Seq(Messages) /\ Len(queue) \in Nat /\ DOMAIN queue = 1 .. Len(queue)
    BY LenProperties DEF LogTypes
  <2>4. /\ Append(queue, m) \in Seq(Messages) /\ Len(Append(queue, m)) = Len(queue) + 1
        /\ \A i \in 1 .. Len(queue) : Append(queue, m)[i] = queue[i]
        /\ Append(queue, m)[Len(queue) + 1] = m
    BY <2>2, <2>3, AppendProperties
  <2>5. DOMAIN queue' = 1 .. Len(queue) + 1
    BY <1>2, <2>1, <2>4, LenProperties
  <2>6. QED
    BY <1>2, <2>1, <2>3, <2>4, <2>5 DEF LogTypes
<1>3. QED
  BY <1>1, <1>2 DEF Log!Send

LEMMA MessagesAre ==
    ASSUME LogTypes
    PROVE  /\ queue \in Seq(Messages) /\ DOMAIN queue = 1 .. Len(queue) /\ Len(queue) \in Nat
           /\ \A i \in DOMAIN queue : queue[i].op \in Ops /\ queue[i].over \in BOOLEAN
<1>1. queue \in Seq(Messages) /\ DOMAIN queue = 1 .. Len(queue) /\ Len(queue) \in Nat
  BY LenProperties DEF LogTypes
<1>2. \A i \in 1 .. Len(queue) : queue[i] \in Messages
  BY <1>1, ElementOfSeq
<1>3. QED
  BY <1>1, <1>2 DEF Messages

LEMMA StartStep ==
    ASSUME LogInv, NEW o \in Ops, Log!Start(o)
    PROVE  LogInv'
<1>1. /\ at \notin {"down", "opening"} /\ op[o] = "new" /\ op' = [op EXCEPT ![o] = "running"]
      /\ day' = [day EXCEPT ![o] = today] /\ Log!Send(o, FALSE)
      /\ UNCHANGED <<today, at, mem, shared, opened, pending, prepared, packing, snap, file,
                     cursor, got, exporting, shown, exports, limits, crashes, failures>>
  BY DEF Log!Start, Log!Recording, Log!gaps, Log!writer, Log!disk, Log!reader, Log!trouble
<1>2. LogTypes
  BY DEF LogInv
<1>3. PICK n : n = Len(queue)
  OBVIOUS
<1>4. /\ queue' \in Seq(Messages) /\ dropped' \in Nat
      /\ queue' = queue \/ /\ n \in Nat /\ DOMAIN queue' = 1 .. n + 1 /\ DOMAIN queue = 1 .. n
                           /\ queue'[n + 1] = [op |-> o, over |-> FALSE]
                           /\ \A i \in DOMAIN queue : queue'[i] = queue[i]
  BY <1>1, <1>2, <1>3, Queued
<1>5. /\ op' \in [Ops -> {"new", "running", "over"}] /\ op'[o] = "running"
      /\ \A x \in Ops \ {o} : op'[x] = op[x]
  BY <1>1, <1>2 DEF LogTypes
<1>6. day' \in [Ops -> Log!Days] /\ \A x \in Ops \ {o} : day'[x] = day[x]
  BY <1>1, <1>2 DEF LogTypes
<1>7. \A i \in DOMAIN queue : queue[i].op \in Ops
  BY <1>2, MessagesAre
<1>8. \A i \in DOMAIN queue' : \/ i \in DOMAIN queue /\ queue'[i] = queue[i]
                               \/ queue'[i].op = o /\ ~queue'[i].over
  <2>1. CASE queue' = queue
    BY <2>1
  <2>2. CASE queue' # queue
    <3>1. SUFFICES ASSUME NEW i \in DOMAIN queue'
                   PROVE  \/ i \in DOMAIN queue /\ queue'[i] = queue[i]
                          \/ queue'[i].op = o /\ ~queue'[i].over
      OBVIOUS
    <3>2. i \in DOMAIN queue \/ i = n + 1
      BY <1>4, <2>2
    <3>3. QED
      BY <1>4, <2>2, <3>2
  <2>3. QED
    BY <2>1, <2>2
<1>9. LogTypes'
  BY <1>1, <1>2, <1>4, <1>5, <1>6 DEF LogTypes
<1>10. mem.active \subseteq Ops /\ snap.active \subseteq Ops
  BY <1>2 DEF LogTypes, Snapshots
<1>11. \A d \in Log!Days : On(d)' = On(d) /\ pending'[d] = pending[d]
  BY <1>1, DaySame
<1>12. \A d \in Log!Days : On(d) \union Ended(pending[d]) \subseteq Ops \ {o}
  <2>1. SUFFICES ASSUME NEW d \in Log!Days, NEW x \in On(d) \union Ended(pending[d])
                 PROVE  x \in Ops \ {o}
    OBVIOUS
  <2>2. x # o
    BY <1>1, <2>1 DEF LogInv, Traced
  <2>3. x \in Ops
    BY <1>2, <2>1, EventsInOps
  <2>4. QED
    BY <2>2, <2>3
<1>13. Traced'
  <2>1. \A x \in mem'.active \union snap'.active : op'[x] # "new"
    <3>1. \A x \in mem.active \union snap.active : op[x] # "new"
      BY DEF LogInv, Traced
    <3>2. QED
      BY <1>1, <1>5, <1>10, <3>1
  <2>2. ASSUME NEW i \in DOMAIN queue'
        PROVE  op'[queue'[i].op] # "new" /\ (queue'[i].over => op'[queue'[i].op] = "over")
    <3>1. \A j \in DOMAIN queue : op[queue[j].op] # "new" /\ (queue[j].over => op[queue[j].op] = "over")
      BY DEF LogInv, Traced
    <3>2. CASE i \in DOMAIN queue /\ queue'[i] = queue[i]
      <4>1. queue[i].op \in Ops \ {o}
        BY <1>1, <1>7, <3>1, <3>2
      <4>2. QED
        BY <1>5, <3>1, <3>2, <4>1
    <3>3. CASE queue'[i].op = o /\ ~queue'[i].over
      BY <1>5, <3>3
    <3>4. QED
      BY <1>8, <3>2, <3>3
  <2>3. ASSUME NEW d \in Log!Days, NEW x \in On(d)' \union Ended(pending'[d])
        PROVE  day'[x] = d /\ op'[x] = "over"
    <3>1. x \in On(d) \union Ended(pending[d]) /\ x \in Ops \ {o}
      BY <1>11, <1>12, <2>3
    <3>2. day[x] = d /\ op[x] = "over"
      BY <3>1 DEF LogInv, Traced
    <3>3. QED
      BY <1>5, <1>6, <3>1, <3>2
  <2>4. QED
    BY <1>1, <2>1, <2>2, <2>3 DEF Traced
<1>14. LeftKnown'
  BY <1>1, LeftSame DEF LogInv
<1>15. EndsOnce'
  <2>1. SUFFICES ASSUME Log!NeverRolledUp PROVE
          /\ \A d \in Log!Days : Log!Once(Log!Journaled(d)) /\ EndedOnce(pending[d])
                                 /\ On(d) \intersect Ended(pending[d]) = {}
          /\ \A i \in DOMAIN queue' : queue'[i].over =>
               /\ \A d \in Log!Days : queue'[i].op \notin On(d) \union Ended(pending[d])
               /\ \A j \in DOMAIN queue' : queue'[j] = queue'[i] => i = j
          /\ packing # None => EndedOnce(packing.kept)
    BY <1>1, DaySame DEF EndsOnce, Log!NeverRolledUp
  <2>2. /\ \A d \in Log!Days : Log!Once(Log!Journaled(d)) /\ EndedOnce(pending[d])
                                /\ On(d) \intersect Ended(pending[d]) = {}
        /\ packing # None => EndedOnce(packing.kept)
        /\ \A i \in DOMAIN queue : queue[i].over =>
             /\ \A d \in Log!Days : queue[i].op \notin On(d) \union Ended(pending[d])
             /\ \A j \in DOMAIN queue : queue[j] = queue[i] => i = j
    BY <2>1 DEF LogInv, EndsOnce
  <2>3. ASSUME NEW i \in DOMAIN queue', queue'[i].over
        PROVE  /\ \A d \in Log!Days : queue'[i].op \notin On(d) \union Ended(pending[d])
               /\ \A j \in DOMAIN queue' : queue'[j] = queue'[i] => i = j
    <3>1. i \in DOMAIN queue /\ queue'[i] = queue[i]
      BY <1>8, <2>3
    <3>2. \A j \in DOMAIN queue' : queue'[j] = queue'[i] => j \in DOMAIN queue /\ queue'[j] = queue[j]
      BY <1>8, <2>3
    <3>3. QED
      BY <2>2, <2>3, <3>1, <3>2
  <2>4. QED
    BY <2>2, <2>3
<1>16. GapsGrow' /\ TornLast' /\ Repacked' /\ NotCounted'
  BY <1>1, GapsSame, TornSame, RepackedSame, CountedSame DEF LogInv
<1>17. Generations' /\ Log!CursorTrue' /\ Owed'
  BY <1>1, GenerationsSame, CursorSame, OwedSame DEF LogInv
<1>18. QED
  BY <1>9, <1>13, <1>14, <1>15, <1>16, <1>17 DEF LogInv

LEMMA FinishStep ==
    ASSUME LogInv, NEW o \in Ops, Log!Finish(o)
    PROVE  LogInv'
<1>1. /\ at \notin {"down", "opening"} /\ op[o] = "running" /\ op' = [op EXCEPT ![o] = "over"]
      /\ Log!Send(o, TRUE)
      /\ UNCHANGED <<today, day, at, mem, shared, opened, pending, prepared, packing, snap, file,
                     cursor, got, exporting, shown, exports, limits, crashes, failures>>
  BY DEF Log!Finish, Log!Recording, Log!gaps, Log!writer, Log!disk, Log!reader, Log!trouble
<1>2. LogTypes
  BY DEF LogInv
<1>3. PICK n : n = Len(queue)
  OBVIOUS
<1>4. /\ queue' \in Seq(Messages) /\ dropped' \in Nat
      /\ queue' = queue \/ /\ n \in Nat /\ DOMAIN queue' = 1 .. n + 1 /\ DOMAIN queue = 1 .. n
                           /\ queue'[n + 1] = [op |-> o, over |-> TRUE]
                           /\ \A i \in DOMAIN queue : queue'[i] = queue[i]
  BY <1>1, <1>2, <1>3, Queued
<1>5. /\ op' \in [Ops -> {"new", "running", "over"}] /\ op'[o] = "over"
      /\ \A x \in Ops \ {o} : op'[x] = op[x]
  BY <1>1, <1>2 DEF LogTypes
<1>6. \A i \in DOMAIN queue' : \/ i \in DOMAIN queue /\ queue'[i] = queue[i]
                               \/ i = n + 1 /\ queue'[i] = [op |-> o, over |-> TRUE]
  BY <1>4
<1>7. LogTypes'
  BY <1>1, <1>2, <1>4, <1>5 DEF LogTypes
<1>8. mem.active \subseteq Ops /\ snap.active \subseteq Ops
  BY <1>2 DEF LogTypes, Snapshots
<1>9. \A d \in Log!Days : On(d) \union Ended(pending[d]) \subseteq Ops \ {o}
  <2>1. SUFFICES ASSUME NEW d \in Log!Days, NEW x \in On(d) \union Ended(pending[d])
                 PROVE  x \in Ops \ {o}
    OBVIOUS
  <2>2. x # o
    BY <1>1, <2>1 DEF LogInv, Traced
  <2>3. x \in Ops
    BY <1>2, <2>1, EventsInOps
  <2>4. QED
    BY <2>2, <2>3
<1>10. \A i \in DOMAIN queue : op[queue[i].op] # "new" /\ (queue[i].over => op[queue[i].op] = "over")
                               /\ queue[i].op \in Ops
  BY <1>2, MessagesAre DEF LogInv, Traced
<1>11. Traced'
  <2>1. \A x \in mem.active \union snap.active : op'[x] # "new"
    <3>1. \A x \in mem.active \union snap.active : op[x] # "new"
      BY DEF LogInv, Traced
    <3>2. QED
      BY <1>5, <1>8, <3>1
  <2>2. \A i \in DOMAIN queue' : op'[queue'[i].op] # "new" /\ (queue'[i].over => op'[queue'[i].op] = "over")
    BY <1>5, <1>6, <1>10
  <2>3. \A d \in Log!Days : \A x \in On(d) \union Ended(pending[d]) : day[x] = d /\ op'[x] = "over"
    BY <1>5, <1>9 DEF LogInv, Traced
  <2>4. \A d \in Log!Days : \A x \in On(d)' \union Ended(pending'[d]) : day'[x] = d /\ op'[x] = "over"
    BY <1>1, <2>3, DaySame
  <2>5. QED
    BY <1>1, <2>1, <2>2, <2>4 DEF Traced
<1>12. EndsOnce'
  <2>1. SUFFICES ASSUME Log!NeverRolledUp PROVE
          /\ \A d \in Log!Days : Log!Once(Log!Journaled(d)) /\ EndedOnce(pending[d])
                                 /\ On(d) \intersect Ended(pending[d]) = {}
          /\ \A i \in DOMAIN queue' : queue'[i].over =>
               /\ \A d \in Log!Days : queue'[i].op \notin On(d) \union Ended(pending[d])
               /\ \A j \in DOMAIN queue' : queue'[j] = queue'[i] => i = j
          /\ packing # None => EndedOnce(packing.kept)
    BY <1>1, DaySame DEF EndsOnce, Log!NeverRolledUp
  <2>2. /\ \A d \in Log!Days : Log!Once(Log!Journaled(d)) /\ EndedOnce(pending[d])
                                /\ On(d) \intersect Ended(pending[d]) = {}
        /\ packing # None => EndedOnce(packing.kept)
        /\ \A i \in DOMAIN queue : queue[i].over =>
             /\ \A d \in Log!Days : queue[i].op \notin On(d) \union Ended(pending[d])
             /\ \A j \in DOMAIN queue : queue[j] = queue[i] => i = j
    BY <2>1 DEF LogInv, EndsOnce
  <2>3. \A i \in DOMAIN queue : queue[i] # [op |-> o, over |-> TRUE]
    BY <1>1, <1>10
  <2>4. ASSUME NEW i \in DOMAIN queue', queue'[i].over
        PROVE  /\ \A d \in Log!Days : queue'[i].op \notin On(d) \union Ended(pending[d])
               /\ \A j \in DOMAIN queue' : queue'[j] = queue'[i] => i = j
    <3>1. CASE i \in DOMAIN queue /\ queue'[i] = queue[i]
      <4>1. \A j \in DOMAIN queue' : queue'[j] = queue'[i] => j \in DOMAIN queue /\ queue'[j] = queue[j]
        BY <1>6, <2>3, <3>1
      <4>2. QED
        BY <2>2, <2>4, <3>1, <4>1
    <3>2. CASE i = n + 1 /\ queue'[i] = [op |-> o, over |-> TRUE]
      <4>1. \A j \in DOMAIN queue' : queue'[j] = queue'[i] => j = n + 1
        BY <1>6, <2>3, <3>2
      <4>2. QED
        BY <1>9, <3>2, <4>1
    <3>3. QED
      BY <1>6, <3>1, <3>2
  <2>5. QED
    BY <2>2, <2>4
<1>13. GapsGrow' /\ TornLast' /\ LeftKnown' /\ Repacked' /\ NotCounted'
  BY <1>1, GapsSame, TornSame, LeftSame, RepackedSame, CountedSame DEF LogInv
<1>14. Generations' /\ Log!CursorTrue' /\ Owed'
  BY <1>1, GenerationsSame, CursorSame, OwedSame DEF LogInv
<1>15. QED
  BY <1>7, <1>11, <1>12, <1>13, <1>14 DEF LogInv

-----------------------------------------------------------------------------
(* The writer                                                              *)

\* At its start the writer reports as unfinished what has not ended.
LEMMA OpenStep ==
    ASSUME LogInv, Log!Open
    PROVE  LogInv'
<1>1. /\ at = "down" /\ at' = "opening" /\ mem' = [gaps |-> snap.gaps, active |-> {}, unknown |-> {}]
      /\ opened' = snap.gaps /\ shared' = shared
      /\ prepared' = {} /\ packing' = None /\ queue' = <<>> /\ dropped' = 0
      /\ UNCHANGED <<today, op, day, snap, file, cursor, got, exporting, shown, exports, limits,
                     crashes, failures>>
      /\ pending' = [d \in Log!Days |->
           Log!SetToSeq({<<x, "unfinished">> : x \in {u \in Log!Unfinished : day[u] = d}})]
  BY DEF Log!Open, Log!gaps, Log!requests, Log!disk, Log!reader, Log!trouble
<1>2. LogTypes
  BY DEF LogInv
<1>3. snap \in Snapshots /\ snap.active \subseteq Ops /\ snap.gaps \in Nat
  BY <1>2 DEF LogTypes, Snapshots
<1>4. mem' \in Snapshots /\ mem'.gaps = snap.gaps /\ mem'.active = {} /\ mem'.unknown = {}
  BY <1>1, <1>3 DEF Snapshots
<1> DEFINE LeftOver(d) == {<<x, "unfinished">> : x \in {u \in Log!Unfinished : day[u] = d}}
<1>5. ASSUME NEW d \in Log!Days
      PROVE  /\ pending'[d] \in Seq(Log!Happened) /\ EndedOnce(pending'[d])
             /\ Log!ToSet(pending'[d]) = LeftOver(d)
             /\ Ended(pending'[d]) = {u \in Log!Unfinished : day[u] = d}
  <2>1. PICK set : set = LeftOver(d)
    OBVIOUS
  <2>2. Log!Unfinished \subseteq Ops
    BY <1>3 DEF Log!Unfinished
  <2>3. set \subseteq Log!Happened
    BY <2>1, <2>2 DEF Log!Happened, Log!Statuses
  <2>4. IsFiniteSet(set)
    <3>1. PICK some : some = {u \in Log!Unfinished : day[u] = d}
      OBVIOUS
    <3>2. IsFiniteSet(some)
      BY <2>2, <3>1, FS_Subset, JournalAssumption
    <3>3. set = {<<x, "unfinished">> : x \in some}
      BY <2>1, <3>1
    <3>4. PICK f : f = [x \in some |-> <<x, "unfinished">>]
      OBVIOUS
    <3>5. f \in [some -> set] /\ \A e \in set : \E x \in some : f[x] = e
      BY <3>3, <3>4
    <3>6. f \in Surjection(some, set)
      BY <3>5 DEF Surjection
    <3>7. QED
      BY <3>2, <3>6, FS_Surjection
  <2>5. PICK s : s = pending'[d]
    OBVIOUS
  <2>6. s = Log!SetToSeq(set)
    BY <1>1, <2>1, <2>5
  <2>7. s \in Seq(Log!Happened) /\ Log!ToSet(s) = set /\ \A i, j \in DOMAIN s : s[i] = s[j] => i = j
    BY <2>3, <2>4, <2>6, SeqOfSet
  <2>8. Ended(s) = {u \in Log!Unfinished : day[u] = d}
    <3>1. \A x : x \in Ended(s) <=> \E e \in set : x = e[1]
      BY <2>7 DEF Ended, Log!ToSet
    <3>2. \A x : <<x, "unfinished">>[1] = x
      OBVIOUS
    <3>3. PICK some : some = {u \in Log!Unfinished : day[u] = d}
      OBVIOUS
    <3>4. set = {<<x, "unfinished">> : x \in some}
      BY <2>1, <3>3
    <3>5. ASSUME NEW e \in set PROVE e[1] \in some
      <4>1. PICK x \in some : e = <<x, "unfinished">>
        BY <3>4
      <4>2. QED
        BY <4>1
    <3>6. ASSUME NEW x \in some PROVE \E e \in set : x = e[1]
      <4>1. <<x, "unfinished">> \in set
        BY <3>4
      <4>2. QED
        BY <3>2, <4>1
    <3>7. QED
      BY <3>1, <3>3, <3>5, <3>6
  <2>9. EndedOnce(s)
    <3>1. \A i \in DOMAIN s : s[i] \in set
      BY <2>7 DEF Log!ToSet
    <3>2. \A i \in DOMAIN s : s[i] = <<s[i][1], "unfinished">>
      BY <2>1, <3>1
    <3>3. QED
      BY <2>7, <3>2 DEF EndedOnce
  <2>10. QED
    BY <2>1, <2>5, <2>7, <2>8, <2>9
<1> HIDE DEF LeftOver
<1>6. LogTypes'
  <2>1. pending' \in [Log!Days -> Seq(Log!Happened)]
    <3>1. pending' = [d \in Log!Days |-> pending'[d]]
      BY <1>1
    <3>2. QED
      BY <1>5, <3>1
  <2>2. queue' \in Seq(Messages)
    BY <1>1
  <2>3. QED
    BY <1>1, <1>2, <1>3, <1>4, <2>1, <2>2 DEF LogTypes
<1>7. \A u \in Log!Unfinished : u \in snap.active /\ u \in Ops /\ op[u] = "over" /\ day[u] \in Log!Days
  BY <1>1, <1>2, <1>3 DEF LogInv, Traced, LogTypes, Log!Unfinished
<1>8. DOMAIN queue' = {}
  BY <1>1
<1>9. Traced'
  <2>1. \A x \in mem'.active \union snap'.active : op'[x] # "new"
    BY <1>1, <1>4 DEF LogInv, Traced
  <2>2. ASSUME NEW d \in Log!Days, NEW x \in On(d)' \union Ended(pending'[d])
        PROVE  day'[x] = d /\ op'[x] = "over"
    <3>1. CASE x \in On(d)'
      BY <1>1, <3>1, DaySame DEF LogInv, Traced
    <3>2. CASE x \in Ended(pending'[d])
      BY <1>1, <1>5, <1>7, <3>2
    <3>3. QED
      BY <2>2, <3>1, <3>2
  <2>3. \A o \in Ops : op'[o] # "running"
    BY <1>1 DEF LogInv, Traced
  <2>4. QED
    BY <1>1, <1>8, <2>1, <2>2, <2>3 DEF Traced
<1>10. GapsGrow'
  BY <1>1, <1>3, <1>4 DEF LogInv, GapsGrow
<1>11. TornLast'
  BY <1>1, TornSame DEF LogInv
<1>12. LeftKnown'
  <2>1. SUFFICES ASSUME NEW x \in snap.active
                 PROVE  \E d \in Log!Days : x \in On(d) \union Ended(pending'[d])
    <3>1. snap' = snap /\ mem'.active = {} /\ \A d : On(d)' = On(d)
      BY <1>1, <1>4, DaySame
    <3>2. QED
      BY <3>1 DEF LeftKnown
  <2>2. day[x] \in Log!Days
    BY <1>2, <1>3 DEF LogTypes
  <2>3. CASE x \in Log!Unfinished
    BY <1>5, <2>2, <2>3
  <2>4. CASE x \notin Log!Unfinished
    <3>1. x \in Log!Recorded(day[x])
      BY <2>4 DEF Log!Unfinished
    <3>2. x \in On(day[x])
      BY <3>1 DEF Log!Recorded, On, Log!Named
    <3>3. QED
      BY <2>2, <3>2
  <2>5. QED
    BY <2>3, <2>4
<1>13. Repacked'
  BY <1>1 DEF Repacked
<1>14. EndsOnce'
  <2>1. SUFFICES ASSUME Log!NeverRolledUp, NEW d \in Log!Days
                 PROVE  /\ Log!Once(Log!Journaled(d)) /\ EndedOnce(pending'[d])
                        /\ On(d) \intersect Ended(pending'[d]) = {}
    BY <1>1, <1>8, DaySame DEF EndsOnce, Log!NeverRolledUp
  <2>2. \A x \in On(d) : x \in Log!Recorded(d)
    <3>1. \A e \in Log!Events(Log!Journaled(d)) : e[2] # "counted"
      BY <2>1 DEF LogInv, NotCounted
    <3>2. QED
      BY <3>1 DEF On, Log!Named, Log!Recorded
  <2>3. On(d) \intersect Ended(pending'[d]) = {}
    BY <1>5, <2>2 DEF Log!Unfinished
  <2>4. QED
    BY <1>5, <2>1, <2>3 DEF LogInv, EndsOnce
<1>15. NotCounted'
  <2>1. \A d \in Log!Days : \A e \in Log!ToSet(pending'[d]) : e[2] # "counted"
    BY <1>5 DEF LeftOver
  <2>2. QED
    BY <1>1, <2>1, DaySame DEF LogInv, NotCounted, Log!NeverRolledUp
<1>16. Generations'
  BY <1>1, DaySame DEF LogInv, Generations, Log!Distinguished, Log!Undone, Log!NeverRolledUp, Newer
<1>17. Log!CursorTrue' /\ Owed'
  BY <1>1, CursorSame, OwedSame DEF LogInv
<1>18. QED
  BY <1>6, <1>9, <1>10, <1>11, <1>12, <1>13, <1>14, <1>15, <1>16, <1>17 DEF LogInv

LEMMA CountStep ==
    ASSUME LogInv, Log!Count
    PROVE  LogInv'
<1>1. /\ at = "idle" /\ dropped' = 0 /\ shared' = mem.gaps + dropped
      /\ dropped > 0 \/ mem.gaps > shared
      /\ \/ mem' = [mem EXCEPT !.gaps = @ + dropped, !.unknown = mem.active]
         \/ mem.gaps = shared /\ mem' = [mem EXCEPT !.gaps = @ + dropped]
      /\ UNCHANGED <<today, op, day, queue, at, opened, pending, prepared, packing, snap, file,
                     cursor, got, exporting, shown, exports, limits, crashes, failures>>
  BY DEF Log!Count, Log!gaps, Log!requests, Log!disk, Log!reader, Log!trouble
<1>2. /\ LogTypes /\ mem \in Snapshots /\ snap \in Snapshots /\ dropped \in Nat
      /\ shared \in Nat /\ opened \in Nat
  BY DEF LogInv, LogTypes
<1>3. /\ mem' \in Snapshots /\ mem'.gaps = mem.gaps + dropped /\ mem'.active = mem.active
      /\ mem.gaps \in Nat /\ snap.gaps \in Nat
  <2>1. /\ mem.gaps \in Nat /\ snap.gaps \in Nat /\ mem.active \in SUBSET Ops /\ mem.unknown \in SUBSET Ops
        /\ mem = [gaps |-> mem.gaps, active |-> mem.active, unknown |-> mem.unknown]
    BY <1>2 DEF Snapshots
  <2>2. PICK u \in SUBSET Ops : mem' = [gaps |-> mem.gaps + dropped, active |-> mem.active, unknown |-> u]
    BY <1>1, <2>1
  <2>3. QED
    BY <1>2, <2>1, <2>2 DEF Snapshots
<1>4. LogTypes'
  BY <1>1, <1>2, <1>3 DEF LogTypes
\* The writer has agreed on the gaps of its start, so they have grown since.
<1>5. mem'.gaps > opened
  BY <1>1, <1>2, <1>3 DEF LogInv, GapsGrow
<1>6. Traced'
  BY <1>1, <1>3, DaySame DEF LogInv, Traced
<1>7. GapsGrow'
  BY <1>1, <1>2, <1>3, <1>5 DEF LogInv, GapsGrow
<1>8. LeftKnown'
  BY <1>1, <1>5 DEF LeftKnown
<1>9. TornLast' /\ Repacked' /\ EndsOnce' /\ NotCounted'
  BY <1>1, TornSame, RepackedSame, EndsSame, CountedSame DEF LogInv
<1>10. Generations' /\ Log!CursorTrue' /\ Owed'
  BY <1>1, GenerationsSame, CursorSame, OwedSame DEF LogInv
<1>11. QED
  BY <1>4, <1>6, <1>7, <1>8, <1>9, <1>10 DEF LogInv

LEMMA FlushStep ==
    ASSUME LogInv, Log!Flush
    PROVE  LogInv'
<1>1. /\ at = "idle" /\ at' = "flush"
      /\ UNCHANGED <<today, op, day, queue, dropped, mem, shared, opened, pending, prepared, packing, snap, file,
                     cursor, got, exporting, shown, exports, limits, crashes, failures>>
  BY DEF Log!Flush, Log!gaps, Log!requests, Log!channel, Log!disk, Log!reader, Log!trouble
<1>2. LogTypes'
  BY <1>1 DEF LogInv, LogTypes
<1>3. Traced' /\ GapsGrow' /\ LeftKnown'
  BY <1>1, DaySame DEF LogInv, Traced, GapsGrow, LeftKnown, Log!Undone
<1>4. TornLast' /\ Repacked' /\ EndsOnce' /\ NotCounted'
  BY <1>1, TornSame, RepackedSame, EndsSame, CountedSame DEF LogInv
<1>5. Generations' /\ Log!CursorTrue' /\ Owed'
  BY <1>1, GenerationsSame, CursorSame, OwedSame DEF LogInv
<1>6. QED
  BY <1>2, <1>3, <1>4, <1>5 DEF LogInv

\* The first message leaves the queue.
LEMMA Taken ==
    ASSUME LogTypes, queue # <<>>, queue' = Tail(queue), NEW m, m = Head(queue)
    PROVE  /\ m \in Messages /\ 1 \in DOMAIN queue /\ queue[1] = m /\ queue' \in Seq(Messages)
           /\ \A i \in DOMAIN queue' : i + 1 \in DOMAIN queue /\ queue'[i] = queue[i + 1]
                                       /\ i + 1 # 1 /\ i \in Nat
<1>1. /\ queue \in Seq(Messages) /\ DOMAIN queue = 1 .. Len(queue) /\ Len(queue) \in Nat
  BY MessagesAre
<1>2. Len(queue) # 0
  BY <1>1, EmptySeq
<1>3. m \in Messages /\ queue[1] = m
  <2>1. queue[1] = m
    BY <1>1, <1>2
  <2>2. QED
    BY <1>1, <1>2, <2>1, ElementOfSeq
<1>4. /\ Tail(queue) \in Seq(Messages) /\ Len(Tail(queue)) = Len(queue) - 1
      /\ \A i \in 1 .. Len(Tail(queue)) : Tail(queue)[i] = queue[i + 1]
  BY <1>1, HeadTailProperties
<1>5. DOMAIN queue' = 1 .. (Len(queue) - 1)
  BY <1>4, LenProperties
<1>6. QED
  BY <1>1, <1>2, <1>3, <1>4, <1>5

\* What the writer makes of a message about an operation that began
LEMMA Activated ==
    ASSUME NEW m \in Snapshots, NEW o \in Ops, NEW n \in Log!Activate(m, o)
    PROVE  /\ n \in Snapshots /\ n.active \subseteq m.active \union {o} /\ n.unknown \subseteq m.unknown
           /\ m.active \ n.active \subseteq m.unknown
           /\ n.gaps \in Nat /\ m.gaps \in Nat /\ n.gaps >= m.gaps
<1>1. /\ m.gaps \in Nat /\ m.active \in SUBSET Ops /\ m.unknown \in SUBSET Ops
      /\ m = [gaps |-> m.gaps, active |-> m.active, unknown |-> m.unknown]
  BY DEF Snapshots
<1>2. CASE n = [m EXCEPT !.active = @ \union {o}]
  <2>1. n = [gaps |-> m.gaps, active |-> m.active \union {o}, unknown |-> m.unknown]
    BY <1>1, <1>2
  <2>2. QED
    BY <1>1, <2>1 DEF Snapshots
<1>3. CASE n = [m EXCEPT !.gaps = @ + 1]
  <2>1. n = [gaps |-> m.gaps + 1, active |-> m.active, unknown |-> m.unknown]
    BY <1>1, <1>3
  <2>2. QED
    BY <1>1, <2>1 DEF Snapshots
<1>4. CASE \E u \in m.unknown : n = [m EXCEPT !.active = (@ \ {u}) \union {o}, !.unknown = @ \ {u}]
  <2>1. PICK u \in m.unknown : n = [m EXCEPT !.active = (@ \ {u}) \union {o}, !.unknown = @ \ {u}]
    BY <1>4
  <2>2. n = [gaps |-> m.gaps, active |-> (m.active \ {u}) \union {o}, unknown |-> m.unknown \ {u}]
    BY <1>1, <2>1
  <2>3. QED
    BY <1>1, <2>2 DEF Snapshots
<1>5. QED
  BY <1>2, <1>3, <1>4 DEF Log!Activate

LEMMA AcceptStep ==
    ASSUME LogInv, Log!Accept
    PROVE  LogInv'
<1>1. PICK m : m = Head(queue)
  OBVIOUS
<1>2. PICK o : o = m.op
  OBVIOUS
<1>3. /\ at = "idle" /\ queue # <<>> /\ queue' = Tail(queue)
      /\ UNCHANGED <<today, op, day, dropped, at, shared, opened, prepared, packing, snap, file,
                     cursor, got, exporting, shown, exports, limits, crashes, failures>>
      /\ IF m.over
           THEN /\ mem' = [mem EXCEPT !.active = @ \ {o}, !.unknown = @ \ {o}]
                /\ pending' = [pending EXCEPT ![day[o]] = Append(@, <<o, "success">>)]
           ELSE mem' \in Log!Activate(mem, o) /\ UNCHANGED pending
  BY <1>1, <1>2 DEF Log!Accept, Log!gaps, Log!requests, Log!disk, Log!reader, Log!trouble
<1>4. LogTypes /\ mem \in Snapshots /\ snap \in Snapshots /\ opened \in Nat
  BY DEF LogInv, LogTypes
<1>5. /\ m \in Messages /\ 1 \in DOMAIN queue /\ queue[1] = m /\ queue' \in Seq(Messages)
      /\ \A i \in DOMAIN queue' : i + 1 \in DOMAIN queue /\ queue'[i] = queue[i + 1]
                                  /\ i + 1 # 1 /\ i \in Nat
  BY <1>1, <1>3, <1>4, Taken
<1>6. o \in Ops /\ op[o] # "new" /\ (m.over => op[o] = "over") /\ m.over \in BOOLEAN
      /\ day[o] \in Log!Days
  <2>1. o \in Ops /\ m.over \in BOOLEAN
    BY <1>2, <1>5 DEF Messages
  <2>2. QED
    BY <1>2, <1>4, <1>5, <2>1 DEF LogInv, Traced, LogTypes
<1>7. /\ mem' \in Snapshots /\ mem'.active \subseteq mem.active \union {o}
      /\ mem'.unknown \subseteq mem.unknown
      /\ mem.active \ mem'.active \subseteq mem.unknown \union (IF m.over THEN {o} ELSE {})
      /\ mem'.gaps \in Nat /\ mem.gaps \in Nat /\ mem'.gaps >= mem.gaps /\ snap.gaps \in Nat
  <2>1. CASE m.over
    <3>1. mem' = [mem EXCEPT !.active = @ \ {o}, !.unknown = @ \ {o}]
      BY <1>3, <2>1
    <3>2. /\ mem.gaps \in Nat /\ mem.active \in SUBSET Ops /\ mem.unknown \in SUBSET Ops
          /\ mem = [gaps |-> mem.gaps, active |-> mem.active, unknown |-> mem.unknown]
          /\ snap.gaps \in Nat
      BY <1>4 DEF Snapshots
    <3>3. mem' = [gaps |-> mem.gaps, active |-> mem.active \ {o}, unknown |-> mem.unknown \ {o}]
      BY <3>1, <3>2
    <3>4. QED
      BY <2>1, <3>2, <3>3 DEF Snapshots
  <2>2. CASE ~m.over
    <3>1. mem' \in Log!Activate(mem, o)
      BY <1>3, <2>2
    <3>2. snap.gaps \in Nat
      BY <1>4 DEF Snapshots
    <3>3. QED
      BY <1>4, <1>6, <2>2, <3>1, <3>2, Activated
  <2>3. QED
    BY <2>1, <2>2
<1>8. PICK e : e = <<o, "success">>
  OBVIOUS
<1>9. e \in Log!Happened /\ e[1] = o /\ e[2] # "counted"
  BY <1>6, <1>8 DEF Log!Happened, Log!Statuses
<1>10. /\ pending' \in [Log!Days -> Seq(Log!Happened)]
       /\ \A d \in Log!Days : d # day[o] => pending'[d] = pending[d]
       /\ pending'[day[o]] = IF m.over THEN Append(pending[day[o]], e) ELSE pending[day[o]]
  <2>1. pending \in [Log!Days -> Seq(Log!Happened)]
    BY <1>4 DEF LogTypes
  <2>2. CASE m.over
    <3>1. Append(pending[day[o]], e) \in Seq(Log!Happened)
      BY <1>6, <1>9, <2>1, EndedAppend
    <3>2. QED
      BY <1>3, <1>6, <1>8, <2>1, <2>2, <3>1
  <2>3. CASE ~m.over
    BY <1>3, <2>1, <2>3
  <2>4. QED
    BY <2>2, <2>3
<1>11. /\ \A d \in Log!Days : Ended(pending[d]) \subseteq Ended(pending'[d])
       /\ \A d \in Log!Days : Ended(pending'[d]) \subseteq Ended(pending[d]) \union
                                 (IF m.over /\ d = day[o] THEN {o} ELSE {})
       /\ m.over => o \in Ended(pending'[day[o]])
       /\ \A d \in Log!Days : Log!ToSet(pending'[d]) \subseteq Log!ToSet(pending[d]) \union {e}
       /\ \A d \in Log!Days : EndedOnce(pending[d]) /\ (m.over => o \notin Ended(pending[d]))
                                => EndedOnce(pending'[d])
  <2>1. PICK s : s = pending[day[o]]
    OBVIOUS
  <2>2. s \in Seq(Log!Happened)
    BY <1>4, <1>6, <2>1 DEF LogTypes
  <2>3. /\ Ended(Append(s, e)) = Ended(s) \union {o}
        /\ Log!ToSet(Append(s, e)) = Log!ToSet(s) \union {e}
        /\ EndedOnce(s) /\ o \notin Ended(s) => EndedOnce(Append(s, e))
    BY <1>9, <2>2, EndedAppend
  <2>4. CASE m.over
    <3>1. pending'[day[o]] = Append(s, e)
      BY <1>10, <2>1, <2>4
    <3>2. QED
      BY <1>6, <1>10, <2>1, <2>3, <2>4, <3>1
  <2>5. CASE ~m.over
    BY <1>10, <2>5
  <2>6. QED
    BY <2>4, <2>5
<1>12. LogTypes'
  BY <1>3, <1>4, <1>5, <1>7, <1>10 DEF LogTypes
<1>13. Traced'
  <2>1. \A x \in mem'.active \union snap'.active : op'[x] # "new"
    BY <1>3, <1>6, <1>7 DEF LogInv, Traced
  <2>2. \A i \in DOMAIN queue' : op'[queue'[i].op] # "new" /\ (queue'[i].over => op'[queue'[i].op] = "over")
    BY <1>3, <1>5 DEF LogInv, Traced
  <2>3. \A d \in Log!Days : \A x \in On(d) \union Ended(pending'[d]) : day[x] = d /\ op[x] = "over"
    BY <1>6, <1>11 DEF LogInv, Traced
  <2>4. \A d \in Log!Days : \A x \in On(d)' \union Ended(pending'[d]) : day'[x] = d /\ op'[x] = "over"
    BY <1>3, <2>3, DaySame
  <2>5. QED
    BY <1>3, <2>1, <2>2, <2>4 DEF Traced
<1>14. GapsGrow'
  BY <1>3, <1>4, <1>7 DEF LogInv, GapsGrow
<1>15. LeftKnown'
  <2>1. SUFFICES ASSUME Log!Undone, NEW x \in snap.active \ mem'.active
                 PROVE  \/ \E d \in Log!Days : x \in On(d) \union Ended(pending'[d])
                        \/ mem'.gaps > opened
    <3>1. snap' = snap /\ limits' = limits /\ opened' = opened /\ \A d : On(d)' = On(d)
      BY <1>3, DaySame
    <3>2. QED
      BY <3>1 DEF LeftKnown, Log!Undone
  <2>2. CASE x \notin mem.active
    <3>1. \/ \E d \in Log!Days : x \in On(d) \union Ended(pending[d])
          \/ mem.gaps > opened
      BY <1>3, <2>1, <2>2 DEF LogInv, LeftKnown
    <3>2. QED
      BY <1>4, <1>7, <1>11, <3>1
  <2>3. CASE x \in mem.unknown
    <3>1. mem.gaps > opened
      BY <1>3, <2>3 DEF LogInv, GapsGrow
    <3>2. QED
      BY <1>4, <1>7, <3>1
  <2>4. CASE m.over /\ x = o
    BY <1>6, <1>11, <2>4
  <2>5. QED
    BY <1>7, <2>1, <2>2, <2>3, <2>4
<1>16. EndsOnce'
  <2>1. SUFFICES ASSUME Log!NeverRolledUp PROVE
          /\ \A d \in Log!Days : Log!Once(Log!Journaled(d)) /\ EndedOnce(pending'[d])
                                 /\ On(d) \intersect Ended(pending'[d]) = {}
          /\ \A i \in DOMAIN queue' : queue'[i].over =>
               /\ \A d \in Log!Days : queue'[i].op \notin On(d) \union Ended(pending'[d])
               /\ \A j \in DOMAIN queue' : queue'[j] = queue'[i] => i = j
          /\ packing # None => EndedOnce(packing.kept)
    <3>1. packing' = packing /\ limits' = limits /\ \A d : On(d)' = On(d) /\ Log!Journaled(d)' = Log!Journaled(d)
      BY <1>3, DaySame
    <3>2. QED
      BY <3>1 DEF EndsOnce, Log!NeverRolledUp
  <2>2. /\ \A d \in Log!Days : Log!Once(Log!Journaled(d)) /\ EndedOnce(pending[d])
                                /\ On(d) \intersect Ended(pending[d]) = {}
        /\ packing # None => EndedOnce(packing.kept)
        /\ \A i \in DOMAIN queue : queue[i].over =>
             /\ \A d \in Log!Days : queue[i].op \notin On(d) \union Ended(pending[d])
             /\ \A j \in DOMAIN queue : queue[j] = queue[i] => i = j
    BY <2>1 DEF LogInv, EndsOnce
  <2>3. m.over => \A d \in Log!Days : o \notin On(d) \union Ended(pending[d])
    BY <1>2, <1>5, <2>2
  <2>4. \A d \in Log!Days : EndedOnce(pending'[d]) /\ On(d) \intersect Ended(pending'[d]) = {}
    BY <1>11, <2>2, <2>3
  <2>5. ASSUME NEW i \in DOMAIN queue', queue'[i].over
        PROVE  /\ \A d \in Log!Days : queue'[i].op \notin On(d) \union Ended(pending'[d])
               /\ \A j \in DOMAIN queue' : queue'[j] = queue'[i] => i = j
    <3>1. i + 1 \in DOMAIN queue /\ queue'[i] = queue[i + 1] /\ i + 1 # 1
      BY <1>5
    <3>2. queue[i + 1].op # o \/ ~m.over
      <4>1. SUFFICES ASSUME queue[i + 1].op = o, m.over PROVE FALSE
        OBVIOUS
      <4>2. queue[i + 1] = queue[1]
        <5>1. queue[i + 1] \in Messages
          BY <1>4, <3>1, MessagesAre, ElementOfSeq
        <5>2. queue[i + 1].over = TRUE /\ m.over = TRUE
          BY <1>6, <2>5, <3>1, <4>1, <5>1 DEF Messages
        <5>3. QED
          BY <1>2, <1>5, <4>1, <5>1, <5>2 DEF Messages
      <4>3. QED
        BY <1>5, <2>2, <2>5, <3>1, <4>2
    <3>3. \A d \in Log!Days : queue'[i].op \notin On(d) \union Ended(pending'[d])
      BY <1>11, <2>2, <2>5, <3>1, <3>2
    <3>4. ASSUME NEW j \in DOMAIN queue', queue'[j] = queue'[i] PROVE i = j
      <4>1. j + 1 \in DOMAIN queue /\ queue'[j] = queue[j + 1] /\ j \in Nat /\ i \in Nat
        BY <1>5
      <4>2. i + 1 = j + 1
        BY <2>2, <2>5, <3>1, <3>4, <4>1
      <4>3. QED
        BY <4>1, <4>2
    <3>5. QED
      BY <3>3, <3>4
  <2>6. QED
    BY <2>2, <2>4, <2>5
<1>17. NotCounted'
  <2>1. \A d : Log!Journaled(d)' = Log!Journaled(d)
    BY <1>3, DaySame
  <2>2. Log!NeverRolledUp => \A d \in Log!Days : \A x \in Log!Events(Log!Journaled(d)) \union Log!ToSet(pending'[d]) : x[2] # "counted"
    BY <1>9, <1>11 DEF LogInv, NotCounted
  <2>3. QED
    BY <1>3, <2>1, <2>2 DEF LogInv, NotCounted, Log!NeverRolledUp
<1>18. TornLast' /\ Repacked' /\ Generations' /\ Log!CursorTrue' /\ Owed'
  BY <1>3, TornSame, RepackedSame, GenerationsSame, CursorSame, OwedSame DEF LogInv
<1>19. QED
  BY <1>12, <1>13, <1>14, <1>15, <1>16, <1>17, <1>18 DEF LogInv

\* What the end of a repacking leaves as it is, when the files are
LEMMA PackingSame ==
    ASSUME LogInv, UNCHANGED <<today, limits, queue, pending, file, cursor, got>>,
           prepared' \subseteq prepared, packing' \in {packing, None}
    PROVE  TornLast' /\ EndsOnce' /\ NotCounted' /\ Generations' /\ Repacked' /\ Log!CursorTrue'
<1>1. TornLast' /\ Log!CursorTrue'
  BY TornSame, CursorSame DEF LogInv
<1>2. CASE packing' = packing
  BY <1>1, <1>2, EndsSame, CountedSame, GenerationsSame, RepackedSame DEF LogInv
<1>3. CASE packing' = None
  <2>1. EndsOnce'
    BY <1>3, DaySame DEF LogInv, EndsOnce, Log!NeverRolledUp
  <2>2. NotCounted'
    BY <1>3, DaySame DEF LogInv, NotCounted, Log!NeverRolledUp
  <2>3. Generations'
    BY <1>3, DaySame DEF LogInv, Generations, Log!Distinguished, Log!Undone,
                         Log!NeverRolledUp, Newer
  <2>4. Repacked'
    BY <1>3 DEF Repacked
  <2>5. QED
    BY <1>1, <2>1, <2>2, <2>3, <2>4
<1>4. QED
  BY <1>2, <1>3

\* The snapshot replaces the one on disk after the frames have been appended.
LEMMA SnapshotStep ==
    ASSUME LogInv, Log!Snapshot
    PROVE  LogInv'
<1>1. /\ at \in {"opening", "flush"} /\ pending = Log!NoEvents /\ at' = "idle" /\ snap' = mem
      /\ shared' = IF at = "opening" THEN mem.gaps ELSE shared
      /\ UNCHANGED <<today, op, day, queue, dropped, mem, opened, pending, prepared, packing, file,
                     cursor, got, exporting, shown, exports, limits, crashes, failures>>
  BY DEF Log!Snapshot, Log!Flushing, Log!Appended, Log!requests, Log!channel, Log!reader, Log!trouble
<1>2. LogTypes /\ mem \in Snapshots /\ snap \in Snapshots
  BY DEF LogInv, LogTypes
<1>3. /\ mem.gaps \in Nat /\ snap.gaps \in Nat /\ opened \in Nat /\ shared \in Nat
      /\ opened <= snap.gaps /\ snap.gaps <= mem.gaps
      /\ (at = "flush" => opened <= shared) /\ (mem.unknown # {} => mem.gaps > opened)
  BY <1>1, <1>2 DEF LogInv, LogTypes, GapsGrow, Snapshots
<1>4. TornLast' /\ EndsOnce' /\ NotCounted' /\ Generations' /\ Repacked' /\ Log!CursorTrue'
  BY <1>1, PackingSame
<1>5. LogTypes'
  BY <1>1, <1>2, <1>3 DEF LogTypes
<1>6. Traced'
  BY <1>1, DaySame DEF LogInv, Traced
<1>7. GapsGrow'
  BY <1>1, <1>3 DEF GapsGrow
<1>8. LeftKnown'
  BY <1>1 DEF LeftKnown
<1>9. Owed'
  <2>1. SUFFICES ASSUME Log!Distinguished
                 PROVE  \A o \in shown : o \in mem.active \/ (\E d \in Log!Days : o \in On(d)) \/ mem.gaps > 0
    <3>1. /\ snap' = mem /\ shown' = shown /\ exporting' = exporting /\ limits' = limits
          /\ got' = got /\ \A d : On(d)' = On(d)
      BY <1>1, DaySame
    <3>2. Log!Distinguished =>
            (exporting # None /\ exporting.gaps = 0 =>
               \A o \in exporting.due \ exporting.active : \E d \in Log!Days :
                 o \in On(d) /\ (d < exporting.next => o \in Log!Named(got[d])))
      BY DEF LogInv, Owed
    <3>3. QED
      BY <2>1, <3>1, <3>2 DEF Owed, Log!Distinguished, Log!Undone, Log!NeverRolledUp, Log!Named
  <2>2. TAKE o \in shown
  <2>3. o \in snap.active \/ (\E d \in Log!Days : o \in On(d)) \/ snap.gaps > 0
    BY <2>1 DEF LogInv, Owed
  <2>4. \A d \in Log!Days : Ended(pending[d]) = {}
    BY <1>1, NoneEnded DEF Log!NoEvents
  <2>5. o \in snap.active \ mem.active => (\E d \in Log!Days : o \in On(d)) \/ mem.gaps > opened
    BY <1>1, <2>1, <2>4 DEF LogInv, LeftKnown, Log!Distinguished
  <2>6. QED
    BY <1>3, <2>3, <2>5
<1>10. QED
  BY <1>4, <1>5, <1>6, <1>7, <1>8, <1>9 DEF LogInv

\* Its write fails: the gaps grow, or the journal is not open.
LEMMA SnapshotFailsStep ==
    ASSUME LogInv, Log!SnapshotFails
    PROVE  LogInv'
<1>1. /\ at \in {"opening", "flush"} /\ pending = Log!NoEvents /\ failures' = failures + 1
      /\ at' = IF at = "opening" THEN "down" ELSE "idle"
      /\ mem' = IF at = "opening" THEN Log!NoSnapshot
                ELSE [mem EXCEPT !.gaps = @ + IF packing = None THEN 1 ELSE 0]
      /\ packing' = None /\ prepared' = IF at = "opening" THEN {} ELSE prepared
      /\ UNCHANGED <<today, op, day, queue, dropped, shared, opened, pending, snap, file,
                     cursor, got, exporting, shown, exports, limits, crashes>>
  BY DEF Log!SnapshotFails, Log!Fails, Log!Flushing, Log!Appended, Log!gaps, Log!requests,
         Log!channel, Log!disk, Log!reader
<1>2. LogTypes /\ mem \in Snapshots /\ snap \in Snapshots
  BY DEF LogInv, LogTypes
<1>3. PICK n \in Nat : n = IF packing = None THEN 1 ELSE 0
  OBVIOUS
<1>4. /\ mem' \in Snapshots
      /\ at = "opening" => mem'.active = {}
      /\ at = "flush" => /\ mem'.gaps = mem.gaps + n /\ mem'.active = mem.active
                         /\ mem'.unknown = mem.unknown
  <2>1. CASE at = "opening"
    BY <1>1, <2>1 DEF Log!NoSnapshot, Snapshots
  <2>2. CASE at = "flush"
    <3>1. mem' = [mem EXCEPT !.gaps = @ + n]
      BY <1>1, <1>3, <2>2
    <3>2. QED
      BY <1>2, <2>2, <3>1, GapsCounted
  <2>3. QED
    BY <1>1, <2>1, <2>2
<1>5. /\ mem.gaps \in Nat /\ snap.gaps \in Nat /\ opened \in Nat /\ shared \in Nat
      /\ opened <= snap.gaps /\ snap.gaps <= mem.gaps
      /\ (at = "flush" => opened <= shared) /\ (mem.unknown # {} => mem.gaps > opened)
  BY <1>1, <1>2 DEF LogInv, LogTypes, GapsGrow, Snapshots
<1>6. TornLast' /\ EndsOnce' /\ NotCounted' /\ Generations' /\ Repacked' /\ Log!CursorTrue'
  <2>1. prepared' \subseteq prepared /\ packing' \in {packing, None}
    BY <1>1
  <2>2. QED
    BY <1>1, <2>1, PackingSame
<1>7. LogTypes'
  <2>1. prepared' \subseteq Log!Days /\ failures' \in Nat /\ at' \in {"down", "idle"}
    BY <1>1, <1>2 DEF LogTypes
  <2>2. QED
    BY <1>1, <1>2, <1>4, <2>1 DEF LogTypes
<1>8. Traced'
  <2>1. \A x \in mem'.active \union snap'.active : op'[x] # "new"
    BY <1>1, <1>4 DEF LogInv, Traced
  <2>2. \A d \in Log!Days : pending'[d] = <<>>
    BY <1>1 DEF Log!NoEvents
  <2>3. at' = "down" => queue = <<>> /\ \A o \in Ops : op[o] # "running"
    BY <1>1 DEF LogInv, Traced
  <2>4. QED
    BY <1>1, <2>1, <2>2, <2>3, DaySame DEF LogInv, Traced
<1>9. GapsGrow'
  BY <1>1, <1>4, <1>5 DEF GapsGrow
<1>10. LeftKnown'
  <2>1. CASE at = "opening"
    BY <1>1, <2>1 DEF LeftKnown
  <2>2. CASE at = "flush"
    BY <1>1, <1>4, <1>5, <2>2, DaySame DEF LogInv, LeftKnown, Log!Undone
  <2>3. QED
    BY <1>1, <2>1, <2>2
<1>11. Owed'
  BY <1>1, OwedSame DEF LogInv
<1>12. QED
  BY <1>6, <1>7, <1>8, <1>9, <1>10, <1>11 DEF LogInv

-----------------------------------------------------------------------------
(* Repacking                                                               *)

LEMMA PackStep ==
    ASSUME LogInv, NEW d \in Log!Days, Log!Pack(d)
    PROVE  LogInv'
<1>1. /\ at = "idle" /\ d < today /\ file[d] # None /\ file[d].gen[2] < Log!Level(d)
      /\ packing' = [day |-> d, gen |-> <<file[d].gen[1], Log!Level(d)>>, next |-> 1, kept |-> <<>>]
      /\ UNCHANGED <<today, op, day, queue, dropped, at, mem, shared, opened, pending, prepared, snap, file,
                     cursor, got, exporting, shown, exports, limits, crashes, failures>>
  BY DEF Log!Pack, Log!gaps, Log!Retained, Log!requests, Log!channel, Log!disk, Log!reader, Log!trouble
<1>2. LogTypes
  BY DEF LogInv
<1>3. file[d] \in Logs /\ file[d].gen \in Nat \X Nat /\ Log!Journaled(d) \in Seq(Log!Frames)
      /\ Len(Log!Journaled(d)) \in Nat
  BY <1>1, <1>2, DayIs
<1>4. file[d].gen[1] \in Nat /\ file[d].gen[2] \in Nat /\ Log!Level(d) \in {1, 2}
  BY <1>3 DEF Log!Level
<1>5. /\ packing' \in Packings /\ packing'.day = d /\ packing'.gen = <<file[d].gen[1], Log!Level(d)>>
      /\ packing'.next = 1 /\ packing'.kept = <<>> /\ packing' # None
  <2>1. packing' \in Packings
    BY <1>1, <1>4, NoneEnded DEF Packings
  <2>2. QED
    BY <1>1, <2>1, JournalNoneAssumption DEF Packings
<1>6. LogTypes'
  BY <1>1, <1>2, <1>5 DEF LogTypes
<1>7. Repacked'
  <2>1. \A o : o \notin Ended(packing'.kept)
    BY <1>5, NoneEnded
  <2>2. \A i : i \notin 1 .. (packing'.next - 1)
    BY <1>5
  <2>3. Log!Journaled(d)' = Log!Journaled(d) /\ file'[d] # None
    BY <1>1, DaySame
  <2>4. PICK n : n = Len(Log!Journaled(d))
    OBVIOUS
  <2>5. Len(Log!Journaled(packing.day)') = n
    BY <1>5, <2>3, <2>4 DEF Log!Journaled
  <2>6. packing'.next > 0 /\ packing'.next <= Len(Log!Journaled(packing.day)') + 1
    BY <1>3, <1>5, <2>4, <2>5
  <2>7. QED
    BY <1>5, <2>1, <2>2, <2>3, <2>6 DEF Repacked
<1>8. EndsOnce'
  <2>1. EndedOnce(packing'.kept)
    BY <1>5, NoneEnded
  <2>2. QED
    BY <1>1, <2>1, DaySame DEF LogInv, EndsOnce, Log!NeverRolledUp
<1>9. NotCounted'
  <2>1. Log!ToSet(packing'.kept) = {}
    BY <1>5, NoneEnded
  <2>2. Log!NeverRolledUp => Log!Level(d) = 1
    <3>1. d \in Nat \ {0} /\ today \in Nat /\ limits.days \in Nat /\ Retain \in Nat
      BY <1>2, JournalAssumption DEF LogTypes, Log!Days, Log!Circumstances
    <3>2. today = 1 \/ today <= limits.days
      BY DEF LogInv, NotCounted
    <3>3. Log!NeverRolledUp => ~(d + Retain < today)
      BY <3>1, <3>2 DEF Log!NeverRolledUp
    <3>4. QED
      BY <3>3 DEF Log!Level
  <2>3. Log!NeverRolledUp => packing'.gen[2] = 1
    BY <1>5, <2>2
  <2>4. QED
    BY <1>1, <2>1, <2>3, DaySame DEF LogInv, NotCounted, Log!NeverRolledUp
<1>10. Generations'
  <2>1. SUFFICES ASSUME Log!Distinguished
                 PROVE  packing'.gen = <<file[d].gen[1], 1>> /\ file[d].gen[2] = 0
    BY <1>1, <1>5, DaySame DEF LogInv, Generations, Log!Distinguished, Log!Undone,
                               Log!NeverRolledUp, Newer
  <2>2. Log!Level(d) = 1
    <3>1. d \in Nat \ {0} /\ today \in Nat /\ limits.days \in Nat /\ Retain \in Nat
      BY <1>2, JournalAssumption DEF LogTypes, Log!Days, Log!Circumstances
    <3>2. today = 1 \/ today <= limits.days
      BY DEF LogInv, NotCounted
    <3>3. ~(d + Retain < today)
      BY <2>1, <3>1, <3>2 DEF Log!Distinguished, Log!NeverRolledUp
    <3>4. QED
      BY <3>3 DEF Log!Level
  <2>3. QED
    BY <1>1, <1>4, <1>5, <2>2
<1>11. Traced' /\ GapsGrow' /\ TornLast' /\ LeftKnown'
  BY <1>1, TracedSame, GapsSame, TornSame, LeftSame DEF LogInv
<1>12. Log!CursorTrue' /\ Owed'
  BY <1>1, CursorSame, OwedSame DEF LogInv
<1>13. QED
  BY <1>6, <1>7, <1>8, <1>9, <1>10, <1>11, <1>12 DEF LogInv

\* The repacking reads a frame.
LEMMA PackFrameStep ==
    ASSUME LogInv, Log!PackFrame
    PROVE  LogInv'
<1>1. PICK p : p = packing
  OBVIOUS
<1>2. PICK d : d = p.day
  OBVIOUS
<1>3. PICK n : n = p.next
  OBVIOUS
<1>4. LogTypes
  BY DEF LogInv
<1>5. /\ at = "idle" /\ packing # None /\ n <= Len(Log!Complete(file[d].frames))
      /\ packing' = [packing EXCEPT !.next = @ + 1,
                       !.kept = @ \o Log!Rolled(file[d].frames[n].events)]
      /\ UNCHANGED <<today, op, day, queue, dropped, at, mem, shared, opened, pending, prepared, snap, file,
                     cursor, got, exporting, shown, exports, limits, crashes, failures>>
  BY <1>1, <1>2, <1>3 DEF Log!PackFrame, Log!gaps, Log!requests, Log!channel, Log!disk, Log!reader, Log!trouble
<1>6. /\ p \in Packings /\ d \in Log!Days /\ p.gen \in Nat \X Nat /\ n \in Nat
      /\ p.kept \in Seq(Log!Happened) /\ p = [day |-> d, gen |-> p.gen, next |-> n, kept |-> p.kept]
  BY <1>1, <1>2, <1>3, <1>4, <1>5 DEF LogTypes, Packings
<1>7. PICK j : j = Log!Journaled(d)
  OBVIOUS
<1>8. /\ file[d] # None /\ n > 0 /\ n <= Len(j) + 1
      /\ \A o : o \in Ended(p.kept) <=> \E i \in 1 .. (n - 1) : o \in Ended(j[i].events)
  BY <1>1, <1>2, <1>3, <1>5, <1>7 DEF LogInv, Repacked
<1>9. /\ file[d].frames \in Seq(Log!Frames) /\ j = Log!Complete(file[d].frames)
      /\ j \in Seq(Log!Frames) /\ Len(j) \in Nat
  BY <1>4, <1>6, <1>7, <1>8, DayIs
<1>10. /\ n \in 1 .. Len(j) /\ file[d].frames[n] = j[n] /\ j[n] \in Log!Frames
       /\ j[n].events \in Seq(Log!Happened)
  <2>1. n \in 1 .. Len(j)
    BY <1>5, <1>6, <1>8, <1>9
  <2>2. PICK f : f = file[d].frames
    OBVIOUS
  <2>3. \A i \in 1 .. Len(j) : j[i] = f[i]
    BY <1>9, <2>2, CompleteIs
  <2>4. j[n] \in Log!Frames
    BY <1>9, <2>1, ElementOfSeq
  <2>5. QED
    BY <2>1, <2>2, <2>3, <2>4 DEF Log!Frames
<1>11. PICK s : s = j[n].events
  OBVIOUS
<1>12. PICK r : r = Log!Rolled(s)
  OBVIOUS
<1>13. /\ s \in Seq(Log!Happened) /\ r \in Seq(Log!Happened) /\ Ended(r) = Ended(s)
       /\ EndedOnce(s) => EndedOnce(r)
       /\ p.gen[2] # 2 => Log!ToSet(r) = Log!ToSet(s)
  BY <1>1, <1>10, <1>11, <1>12, RolledIs
<1>14. /\ p.kept \o r \in Seq(Log!Happened)
       /\ Ended(p.kept \o r) = Ended(p.kept) \union Ended(r)
       /\ Log!ToSet(p.kept \o r) = Log!ToSet(p.kept) \union Log!ToSet(r)
       /\ EndedOnce(p.kept) /\ EndedOnce(r) /\ Ended(p.kept) \intersect Ended(r) = {}
            => EndedOnce(p.kept \o r)
  BY <1>6, <1>13, EndedConcat
<1>15. PICK q : q = packing'
  OBVIOUS
<1>16. /\ q \in Packings /\ q.day = d /\ q.gen = p.gen /\ q.next = n + 1 /\ q.kept = p.kept \o r /\ q # None
  <2>1. packing' = [p EXCEPT !.next = @ + 1, !.kept = @ \o r]
    BY <1>1, <1>5, <1>10, <1>11, <1>12
  <2>2. q = [day |-> d, gen |-> p.gen, next |-> n + 1, kept |-> p.kept \o r]
    <3>1. PICK g, k : g = p.gen /\ k = p.kept
      OBVIOUS
    <3>2. p = [day |-> d, gen |-> g, next |-> n, kept |-> k]
      BY <1>6, <3>1
    <3>3. q = [p EXCEPT !.next = n + 1, !.kept = k \o r]
      BY <1>3, <1>15, <2>1, <3>1
    <3>4. PICK x : x = k \o r
      OBVIOUS
    <3>5. q = [day |-> d, gen |-> g, next |-> n + 1, kept |-> x]
      BY <3>2, <3>3, <3>4
    <3>6. QED
      BY <3>1, <3>4, <3>5
  <2>3. q \in Packings
    BY <1>6, <1>14, <2>2 DEF Packings
  <2>4. QED
    BY <2>2, <2>3, JournalNoneAssumption DEF Packings
<1>17. LogTypes'
  BY <1>4, <1>5, <1>15, <1>16 DEF LogTypes
<1>18. Repacked'
  <2>1. \A o : o \in Ended(q.kept) <=> \E i \in 1 .. (q.next - 1) : o \in Ended(j[i].events)
    <3>1. q.next - 1 = n
      BY <1>6, <1>16
    <3>2. \A i : i \in 1 .. n <=> i \in 1 .. (n - 1) \/ i = n
      BY <1>6, <1>10
    <3>3. QED
      BY <1>8, <1>11, <1>13, <1>14, <1>16, <3>1, <3>2
  <2>2. Log!Journaled(d)' = j /\ file' = file
    BY <1>5, <1>7, DaySame
  <2>3. q.next > 0 /\ q.next <= Len(j) + 1
    BY <1>6, <1>9, <1>10, <1>16
  <2>4. Log!Journaled(packing.day)' = j
    BY <1>15, <1>16, <2>2 DEF Log!Journaled
  <2>5. QED
    BY <1>8, <1>15, <1>16, <2>1, <2>2, <2>3, <2>4 DEF Repacked
<1>19. EndsOnce'
  <2>1. SUFFICES ASSUME Log!NeverRolledUp PROVE EndedOnce(q.kept)
    BY <1>5, <1>15, DaySame DEF LogInv, EndsOnce, Log!NeverRolledUp
  <2>2. Log!Once(j) /\ EndedOnce(p.kept)
    BY <1>1, <1>5, <1>6, <1>7, <2>1 DEF LogInv, EndsOnce
  <2>3. DOMAIN j = 1 .. Len(j)
    BY <1>9, LenProperties
  <2>4. EndedOnce(s)
    BY <1>10, <1>11, <2>2, <2>3 DEF Log!Once, EndedOnce
  <2>5. Ended(p.kept) \intersect Ended(r) = {}
    <3>1. SUFFICES ASSUME NEW o, o \in Ended(p.kept), o \in Ended(s) PROVE FALSE
      BY <1>13
    <3>2. PICK i \in 1 .. (n - 1) : o \in Ended(j[i].events)
      BY <1>8, <3>1
    <3>3. i \in DOMAIN j /\ n \in DOMAIN j /\ i # n
      BY <1>6, <1>9, <1>10, <2>3, <3>2
    <3>4. PICK k \in DOMAIN j[i].events : o = j[i].events[k][1]
      BY <3>2 DEF Ended
    <3>5. PICK l \in DOMAIN j[n].events : o = j[n].events[l][1]
      BY <1>11, <3>1 DEF Ended
    <3>6. QED
      BY <2>2, <3>3, <3>4, <3>5 DEF Log!Once
  <2>6. QED
    BY <1>13, <1>14, <1>16, <2>2, <2>4, <2>5
<1>20. NotCounted'
  <2>1. ASSUME Log!NeverRolledUp
        PROVE  q.gen[2] = 1 /\ \A e \in Log!ToSet(q.kept) : e[2] # "counted"
    <3>1. /\ p.gen[2] = 1 /\ \A e \in Log!ToSet(p.kept) : e[2] # "counted"
          /\ \A e \in Log!Events(j) : e[2] # "counted"
      BY <1>1, <1>5, <1>6, <1>7, <2>1 DEF LogInv, NotCounted
    <3>2. Log!ToSet(s) \subseteq Log!Events(j)
      BY <1>9, <1>10, <1>11, EventsAre
    <3>3. QED
      BY <1>13, <1>14, <1>16, <3>1, <3>2
  <2>2. QED
    BY <1>5, <1>15, <2>1, DaySame DEF LogInv, NotCounted, Log!NeverRolledUp
<1>21. Generations'
  <2>1. Log!Distinguished => p.gen = <<file[d].gen[1], 1>> /\ file[d].gen[2] = 0
    BY <1>1, <1>2, <1>5 DEF LogInv, Generations
  <2>2. QED
    BY <1>5, <1>15, <1>16, <2>1, DaySame DEF LogInv, Generations, Log!Distinguished, Log!Undone,
                               Log!NeverRolledUp, Newer
<1>22. Traced' /\ GapsGrow' /\ TornLast' /\ LeftKnown'
  BY <1>5, TracedSame, GapsSame, TornSame, LeftSame DEF LogInv
<1>23. Log!CursorTrue' /\ Owed'
  BY <1>5, CursorSame, OwedSame DEF LogInv
<1>24. QED
  BY <1>17, <1>18, <1>19, <1>20, <1>21, <1>22, <1>23 DEF LogInv

\* Frames that have the operations of a day replace it.
LEMMA PackEndStep ==
    ASSUME LogInv, Log!PackEnd
    PROVE  LogInv' /\ \A e \in Log!Days : On(e)' = On(e)
<1>1. PICK p : p = packing
  OBVIOUS
<1>2. PICK d : d = p.day
  OBVIOUS
<1>3. LogTypes
  BY DEF LogInv
<1>4. /\ at = "idle" /\ packing # None /\ p.next > Len(Log!Complete(file[d].frames)) /\ packing' = None
      /\ UNCHANGED <<today, op, day, queue, dropped, at, shared, opened, pending, snap,
                     cursor, got, exporting, shown, exports, limits, crashes, failures>>
      /\ IF Log!Stranded(d)
           THEN UNCHANGED <<mem, prepared, file>>
           ELSE /\ file' = [file EXCEPT ![d] = [gen |-> p.gen,
                     frames |-> IF p.kept = <<>> THEN <<>> ELSE <<Log!Frame(p.kept)>>]]
                /\ prepared' = prepared \ {d}
                /\ mem' = [mem EXCEPT !.gaps = @ +
                             IF Log!Complete(file[d].frames) # file[d].frames THEN 1 ELSE 0]
  BY <1>1, <1>2 DEF Log!PackEnd, Log!gaps, Log!requests, Log!channel, Log!reader, Log!trouble
<1>5. p \in Packings /\ d \in Log!Days /\ p.gen \in Nat \X Nat /\ p.kept \in Seq(Log!Happened) /\ p.next \in Nat
  BY <1>1, <1>2, <1>3, <1>4 DEF LogTypes, Packings
<1>6. PICK j : j = Log!Journaled(d)
  OBVIOUS
<1>7. /\ file[d] # None /\ p.next > 0 /\ p.next <= Len(j) + 1
      /\ \A o : o \in Ended(p.kept) <=> \E i \in 1 .. (p.next - 1) : o \in Ended(j[i].events)
  BY <1>1, <1>2, <1>4, <1>6 DEF LogInv, Repacked
<1>8. j = Log!Complete(file[d].frames) /\ j \in Seq(Log!Frames) /\ Len(j) \in Nat
  BY <1>3, <1>5, <1>6, <1>7, DayIs
<1>9. Ended(p.kept) = On(d)
  <2>1. p.next - 1 = Len(j)
    BY <1>4, <1>5, <1>7, <1>8
  <2>2. \A o : o \in Log!Named(j) <=> \E i \in 1 .. Len(j) : o \in Ended(j[i].events)
    BY <1>8, EventsAre
  <2>3. QED
    BY <1>6, <1>7, <2>1, <2>2 DEF On
<1>10. CASE Log!Stranded(d)
  <2>1. UNCHANGED <<mem, prepared, file>>
    BY <1>4, <1>10
  <2>2. LogTypes'
    BY <1>3, <1>4, <2>1 DEF LogTypes
  <2>3. Repacked'
    BY <1>4 DEF Repacked
  <2>4. EndsOnce'
    BY <1>4, <2>1, DaySame DEF LogInv, EndsOnce, Log!NeverRolledUp
  <2>5. NotCounted'
    BY <1>4, <2>1, DaySame DEF LogInv, NotCounted, Log!NeverRolledUp
  <2>6. Generations'
    BY <1>4, <2>1, DaySame DEF LogInv, Generations, Log!Distinguished, Log!Undone,
                               Log!NeverRolledUp, Newer
  <2>7. Traced' /\ GapsGrow' /\ TornLast' /\ LeftKnown' /\ Log!CursorTrue' /\ Owed'
    BY <1>4, <2>1, TracedSame, GapsSame, TornSame, LeftSame, CursorSame, OwedSame DEF LogInv
  <2>8. \A e \in Log!Days : On(e)' = On(e)
    BY <2>1, DaySame
  <2>9. QED
    BY <2>2, <2>3, <2>4, <2>5, <2>6, <2>7, <2>8 DEF LogInv
<1>11. CASE ~Log!Stranded(d)
  <2>1. PICK g : g = Log!Frame(p.kept)
    OBVIOUS
  <2>2. PICK h : h = IF p.kept = <<>> THEN <<>> ELSE <<g>>
    OBVIOUS
  <2>3. g \in Log!Frames /\ g.ok /\ g.events = p.kept
    BY <1>5, <2>1 DEF Log!Frame, Log!Frames
  <2>4. /\ h \in Seq(Log!Frames) /\ Log!Complete(h) = h /\ Log!Named(h) = Ended(p.kept)
        /\ Log!Events(h) = Log!ToSet(p.kept) /\ (EndedOnce(p.kept) => Log!Once(h))
    <3>1. CASE p.kept = <<>>
      <4>1. h = <<>> /\ DOMAIN <<>> = {}
        BY <2>2, <3>1
      <4>2. Log!Events(h) = {} /\ Log!Once(h)
        BY <4>1 DEF Log!Events, Log!Once
      <4>3. QED
        BY <3>1, <4>1, <4>2, NoFrames, NoneEnded
    <3>2. CASE p.kept # <<>>
      <4>1. h = <<g>> /\ DOMAIN <<g>> = {1} /\ <<g>>[1] = g /\ <<g>> \in Seq(Log!Frames) /\ Len(<<g>>) = 1
        BY <2>2, <2>3, <3>2
      <4>2. Log!Complete(h) = h
        BY <2>3, <4>1 DEF Log!Complete
      <4>3. Log!Events(h) = Log!ToSet(p.kept)
        BY <2>3, <4>1 DEF Log!Events
      <4>4. \A o : o \in Log!Named(h) <=> o \in Ended(p.kept)
        <5>1. \A i : i \in 1 .. Len(h) <=> i = 1
          BY <4>1
        <5>2. \A o : o \in Log!Named(h) <=> \E i \in 1 .. Len(h) : o \in Ended(h[i].events)
          BY <4>1, EventsAre
        <5>3. QED
          BY <2>3, <4>1, <5>1, <5>2
      <4>5. EndedOnce(p.kept) => Log!Once(h)
        BY <2>3, <4>1 DEF EndedOnce, Log!Once
      <4>6. QED
        BY <4>1, <4>2, <4>3, <4>4, <4>5
    <3>3. QED
      BY <3>1, <3>2
  <2>5. PICK w : w = [gen |-> p.gen, frames |-> h]
    OBVIOUS
  <2>6. w \in Logs /\ w.gen = p.gen /\ w.frames = h /\ w # None
    <3>1. w \in Logs
      BY <1>5, <2>4, <2>5 DEF Logs
    <3>2. QED
      BY <2>5, <3>1, JournalNoneAssumption DEF Logs
  <2>7. /\ file' = [file EXCEPT ![d] = w] /\ prepared' = prepared \ {d}
        /\ mem' = [mem EXCEPT !.gaps = @ + IF j # file[d].frames THEN 1 ELSE 0]
    BY <1>4, <1>8, <1>11, <2>1, <2>2, <2>5
  <2>8. /\ file' \in [Log!Days -> Logs \union {None}] /\ file'[d] = w
        /\ \A e \in Log!Days \ {d} : file'[e] = file[e]
    BY <1>3, <1>5, <2>6, <2>7 DEF LogTypes
  <2>9. /\ Log!Journaled(d)' = h /\ On(d)' = On(d) /\ ~Log!Stranded(d)'
        /\ \A e \in Log!Days \ {d} : /\ Log!Journaled(e)' = Log!Journaled(e) /\ On(e)' = On(e)
                                     /\ Log!Stranded(e)' = Log!Stranded(e)
    <3>1. Log!Journaled(d)' = h
      BY <2>4, <2>6, <2>8 DEF Log!Journaled
    <3>2. On(d)' = On(d)
      BY <1>9, <2>4, <3>1 DEF On
    <3>3. ~Log!Stranded(d)'
      <4>1. Len(h) \in Nat /\ ~(Len(h) + 1 < Len(h))
        BY <2>4, LenProperties
      <4>2. QED
        BY <2>4, <2>6, <2>8, <4>1 DEF Log!Stranded
    <3>4. \A e \in Log!Days \ {d} : /\ Log!Journaled(e)' = Log!Journaled(e)
                                    /\ Log!Stranded(e)' = Log!Stranded(e)
      BY <2>8 DEF Log!Journaled, Log!Stranded
    <3>5. \A e \in Log!Days \ {d} : On(e)' = On(e)
      BY <3>4 DEF On
    <3>6. QED
      BY <3>1, <3>2, <3>3, <3>4, <3>5
  <2>10. \A e \in Log!Days : On(e)' = On(e)
    BY <2>9
  <2>11. PICK t \in Nat : t = IF j # file[d].frames THEN 1 ELSE 0
    OBVIOUS
  <2>12. /\ mem' \in Snapshots /\ mem'.gaps = mem.gaps + t /\ mem'.active = mem.active
         /\ mem'.unknown = mem.unknown /\ mem.gaps \in Nat /\ snap.gaps \in Nat
         /\ opened \in Nat
    <3>1. mem \in Snapshots /\ snap \in Snapshots
      BY <1>3 DEF LogTypes
    <3>2. mem' = [mem EXCEPT !.gaps = @ + t]
      BY <2>7, <2>11
    <3>3. mem.gaps \in Nat /\ snap.gaps \in Nat /\ opened \in Nat
      BY <1>3, <3>1 DEF LogTypes, Snapshots
    <3>4. QED
      BY <3>1, <3>2, <3>3, GapsCounted
  <2>13. LogTypes'
    BY <1>3, <1>4, <2>7, <2>8, <2>12 DEF LogTypes
  <2>14. Traced'
    BY <1>4, <2>10, <2>12 DEF LogInv, Traced
  <2>15. GapsGrow'
    BY <1>4, <2>12 DEF LogInv, GapsGrow
  <2>16. TornLast'
    BY <1>4, <2>6, <2>7, <2>8, <2>9 DEF LogInv, TornLast, Log!Undone
  <2>17. LeftKnown'
    <3>1. SUFFICES ASSUME Log!Undone, NEW x \in snap.active \ mem.active
                   PROVE  \/ \E e \in Log!Days : x \in On(e) \union Ended(pending[e])
                          \/ mem'.gaps > opened
      BY <1>4, <2>10, <2>12 DEF LeftKnown, Log!Undone
    <3>2. \/ \E e \in Log!Days : x \in On(e) \union Ended(pending[e])
          \/ mem.gaps > opened
      BY <1>4, <3>1 DEF LogInv, LeftKnown
    <3>3. QED
      BY <2>12, <3>2
  <2>18. Repacked'
    BY <1>4 DEF Repacked
  <2>19. EndsOnce'
    <3>1. Log!NeverRolledUp => EndedOnce(p.kept)
      BY <1>1, <1>4 DEF LogInv, EndsOnce
    <3>2. Log!NeverRolledUp => \A e \in Log!Days : Log!Once(Log!Journaled(e)')
      BY <2>4, <2>9, <3>1 DEF LogInv, EndsOnce
    <3>3. QED
      BY <1>4, <2>10, <3>2 DEF LogInv, EndsOnce, Log!NeverRolledUp
  <2>20. NotCounted'
    <3>1. Log!NeverRolledUp => \A e \in Log!ToSet(p.kept) : e[2] # "counted"
      BY <1>1, <1>4 DEF LogInv, NotCounted
    <3>2. Log!NeverRolledUp => \A e \in Log!Days : \A x \in Log!Events(Log!Journaled(e)') : x[2] # "counted"
      BY <2>4, <2>9, <3>1 DEF LogInv, NotCounted
    <3>3. QED
      BY <1>4, <3>2 DEF LogInv, NotCounted, Log!NeverRolledUp
  <2>21. ASSUME Log!Distinguished
         PROVE  w.gen[2] = 1 /\ Newer(w.gen, file[d].gen)
    <3>1. p.gen = <<file[d].gen[1], 1>> /\ file[d].gen[2] = 0
      BY <1>1, <1>2, <1>4, <2>21 DEF LogInv, Generations
    <3>2. QED
      BY <2>6, <3>1 DEF Newer
  <2>22. \A e \in Log!Days : file'[e] # None => file[e] # None
    BY <1>7, <2>8
  <2>23. Generations'
    <3>1. SUFFICES ASSUME Log!Distinguished
                   PROVE  /\ \A e \in Log!Days : file'[e] # None =>
                               file'[e].gen[2] \in {0, 1} /\ Log!Journaled(e)' = file'[e].frames
                          /\ \A e \in Log!Days : cursor[e] # None =>
                               /\ file'[e] # None /\ cursor[e].next > 0
                               /\ file'[e].gen = cursor[e].gen \/ Newer(file'[e].gen, cursor[e].gen)
      BY <1>4 DEF Generations, Log!Distinguished, Log!Undone, Log!NeverRolledUp, Newer
    <3>2. ASSUME NEW e \in Log!Days, file'[e] # None
          PROVE  file'[e].gen[2] \in {0, 1} /\ Log!Journaled(e)' = file'[e].frames
      <4>1. CASE e = d
        BY <2>6, <2>8, <2>9, <2>21, <3>1, <4>1
      <4>2. CASE e # d
        BY <2>8, <2>9, <3>1, <3>2, <4>2 DEF LogInv, Generations
      <4>3. QED
        BY <4>1, <4>2
    <3>3. ASSUME NEW e \in Log!Days, cursor[e] # None
          PROVE  /\ file'[e] # None /\ cursor[e].next > 0
                 /\ file'[e].gen = cursor[e].gen \/ Newer(file'[e].gen, cursor[e].gen)
      <4>1. /\ file[e] # None /\ cursor[e].next > 0
            /\ file[e].gen = cursor[e].gen \/ Newer(file[e].gen, cursor[e].gen)
        BY <3>1, <3>3 DEF LogInv, Generations
      <4>2. CASE e = d
        <5>1. cursor[e].gen \in Nat \X Nat
          BY <1>3, <3>3 DEF LogTypes, Positions
        <5>2. w.gen \in Nat \X Nat /\ file[d].gen \in Nat \X Nat
          BY <1>3, <1>5, <1>7, <2>6, DayIs
        <5>3. Newer(w.gen, cursor[e].gen)
          BY <2>21, <3>1, <4>1, <4>2, <5>1, <5>2 DEF Newer
        <5>4. QED
          BY <2>6, <2>8, <4>1, <4>2, <5>3
      <4>3. CASE e # d
        BY <2>8, <4>1, <4>3
      <4>4. QED
        BY <4>2, <4>3
    <3>4. QED
      BY <3>2, <3>3
  <2>24. Log!CursorTrue'
    <3>1. SUFFICES ASSUME Log!Distinguished, NEW e \in Log!Days, file'[e] # None,
                          cursor[e] # None, cursor[e].gen = file'[e].gen
                   PROVE  /\ cursor[e].next <= Len(file'[e].frames) + 1
                          /\ got[e] = SubSeq(file'[e].frames, 1, cursor[e].next - 1)
      BY <1>4 DEF Log!CursorTrue, Log!Resumes, Log!Distinguished, Log!Undone, Log!NeverRolledUp
    <3>2. e # d
      <4>1. SUFFICES ASSUME e = d PROVE FALSE
        OBVIOUS
      <4>2. file[e].gen = cursor[e].gen \/ Newer(file[e].gen, cursor[e].gen)
        BY <3>1 DEF LogInv, Generations
      <4>3. cursor[e].gen = w.gen /\ w.gen \in Nat \X Nat /\ file[d].gen \in Nat \X Nat
        BY <1>3, <1>5, <1>7, <2>6, <2>8, <3>1, <4>1, DayIs
      <4>4. QED
        BY <2>21, <3>1, <4>1, <4>2, <4>3 DEF Newer
    <3>3. file'[e] = file[e]
      BY <2>8, <3>2
    <3>4. QED
      BY <3>1, <3>3 DEF LogInv, Log!CursorTrue, Log!Resumes
  <2>25. Owed'
    <3>1. /\ snap' = snap /\ shown' = shown /\ exporting' = exporting /\ limits' = limits /\ got' = got
          /\ \A e \in Log!Days : On(e)' = On(e)
      BY <1>4, <2>10
    <3>2. QED
      BY <3>1 DEF LogInv, Owed, Log!Distinguished, Log!Undone, Log!NeverRolledUp, Log!Named
  <2>26. QED
    BY <2>10, <2>13, <2>14, <2>15, <2>16, <2>17, <2>18, <2>19, <2>20, <2>23, <2>24, <2>25 DEF LogInv
<1>12. QED
  BY <1>10, <1>11

-----------------------------------------------------------------------------
(* Appending                                                               *)

LEMMA NewerTwice ==
    ASSUME NEW a \in Nat \X Nat, NEW b \in Nat \X Nat, NEW c \in Nat \X Nat,
           a = b \/ Newer(a, b), b = c \/ Newer(b, c)
    PROVE  a = c \/ Newer(a, c)
<1>1. /\ a[1] \in Nat /\ a[2] \in Nat /\ b[1] \in Nat /\ b[2] \in Nat
      /\ c[1] \in Nat /\ c[2] \in Nat
  OBVIOUS
<1>2. CASE a = b \/ b = c
  BY <1>2
<1>3. CASE Newer(a, b) /\ Newer(b, c)
  BY <1>1, <1>3 DEF Newer
<1>4. QED
  BY <1>2, <1>3

\* What a day has read of it does not change under an append, and nothing else
\* does: the operations that are recorded, those to come, and the generations.
LEMMA WrittenKeeps ==
    ASSUME LogTypes, NEW d \in Log!Days, NEW added, NEW events \in Seq(Log!Happened),
           added \in {<<>>, <<Log!Torn>>, <<Log!Frame(events)>>},
           file' = [file EXCEPT ![d] = Log!Written(d, added)]
    PROVE  \E more \in {<<>>, <<Log!Frame(events)>>} :
             /\ Log!Journaled(d)' = Log!Journaled(d) \o more
             /\ Log!Journaled(d)' \in Seq(Log!Frames)
             /\ \A i \in 1 .. Len(Log!Journaled(d)) : Log!Journaled(d)'[i] = Log!Journaled(d)[i]
             /\ Len(Log!Journaled(d)') >= Len(Log!Journaled(d)) /\ Len(Log!Journaled(d)') \in Nat
             /\ On(d)' = On(d) \union (IF more = <<>> THEN {} ELSE Ended(events))
             /\ Log!Events(Log!Journaled(d)') =
                  Log!Events(Log!Journaled(d)) \union (IF more = <<>> THEN {} ELSE Log!ToSet(events))
             /\ Log!Once(Log!Journaled(d)) /\ EndedOnce(events) /\ On(d) \intersect Ended(events) = {}
                  => Log!Once(Log!Journaled(d)')
<1>1. PICK j : j = Log!Journaled(d)
  OBVIOUS
<1>2. PICK g : g = Log!Frame(events)
  OBVIOUS
<1>3. g \in Log!Frames /\ g.ok /\ g.events = events
  BY <1>2 DEF Log!Frame, Log!Frames
<1>4. Log!Torn \in Log!Frames /\ ~Log!Torn.ok
  BY NoneEnded DEF Log!Torn, Log!Frames
<1>5. j \in Seq(Log!Frames) /\ Len(j) \in Nat
  BY <1>1, DayIs
<1>6. Log!Journaled(d)' \in {j, j \o <<g>>}
  <2>1. added = <<>> \/ \E x \in Log!Frames : added = <<x>>
    BY <1>2, <1>3, <1>4
  <2>2. CASE added = <<>>
    BY <1>1, <2>1, <2>2, FrameWritten
  <2>3. CASE added = <<Log!Torn>>
    BY <1>1, <1>4, <2>1, <2>3, FrameWritten
  <2>4. CASE added = <<g>>
    BY <1>1, <1>3, <2>1, <2>4, FrameWritten
  <2>5. QED
    BY <1>2, <2>2, <2>3, <2>4
<1>7. CASE Log!Journaled(d)' = j
  <2>1. j \o <<>> = j
    BY <1>5, ConcatEmptySeq
  <2>2. On(d)' = On(d)
    BY <1>1, <1>7 DEF On
  <2>3. QED
    BY <1>1, <1>5, <1>7, <2>1, <2>2
<1>8. CASE Log!Journaled(d)' = j \o <<g>>
  <2>1. /\ j \o <<g>> \in Seq(Log!Frames) /\ Len(j \o <<g>>) = Len(j) + 1
        /\ \A i \in 1 .. Len(j) : (j \o <<g>>)[i] = j[i]
    BY <1>3, <1>5, CompleteAppend
  <2>2. /\ Log!Events(j \o <<g>>) = Log!Events(j) \union Log!ToSet(events)
        /\ Log!Named(j \o <<g>>) = Log!Named(j) \union Ended(events)
    BY <1>3, <1>5, EventsAdded
  <2>3. On(d)' = On(d) \union Ended(events) /\ On(d) = Log!Named(j)
    BY <1>1, <1>8, <2>2 DEF On
  <2>4. Log!Once(j) /\ EndedOnce(events) /\ On(d) \intersect Ended(events) = {} => Log!Once(j \o <<g>>)
    BY <1>3, <1>5, <2>3, OnceAdded
  <2>5. <<g>> # <<>>
    OBVIOUS
  <2>6. QED
    BY <1>1, <1>2, <1>5, <1>8, <2>1, <2>2, <2>3, <2>4, <2>5
<1>9. QED
  BY <1>6, <1>7, <1>8

\* The generation of a day that is appended to
LEMMA WrittenGeneration ==
    ASSUME LogInv, NEW d \in Log!Days, NEW added,
           added = <<>> \/ \E g \in Log!Frames : added = <<g>> /\ g.ok,
           file' = [file EXCEPT ![d] = Log!Written(d, added)], UNCHANGED <<limits, cursor, got>>,
           packing' = packing
    PROVE  Generations' /\ Log!CursorTrue'
<1>1. LogTypes
  BY DEF LogInv
<1>2. PICK f : f = file'[d]
  OBVIOUS
<1>3. PICK p : p = Log!Prepared(d)
  OBVIOUS
<1>4. PICK j : j = Log!Journaled(d)
  OBVIOUS
<1>5. added = <<>> \/ \E g \in Log!Frames : added = <<g>>
  OBVIOUS
<1>6. /\ f \in Logs /\ f # None /\ f.gen = p.gen /\ f.frames = p.frames \o added
      /\ \A e \in Log!Days \ {d} : /\ file'[e] = file[e]
                                   /\ Log!Journaled(e)' = Log!Journaled(e)
  BY <1>1, <1>2, <1>3, <1>5, DayWritten
<1>7. /\ p.gen \in Nat \X Nat /\ p.frames \in Seq(Log!Frames)
      /\ p.frames = IF d \in prepared THEN Held(d) ELSE j
      /\ j = Held(d) /\ file[d] # None =>
           /\ p.gen = file[d].gen \/ Newer(p.gen, file[d].gen)
           /\ file[d].gen[2] = 0 => p.gen = file[d].gen
           /\ file[d].gen[2] \in {0, 1} => p.gen[2] \in {0, 1}
      /\ file[d] = None => p.gen = <<0, 0>>
  BY <1>1, <1>3, <1>4, PreparedIs
<1>8. SUFFICES ASSUME Log!Distinguished PROVE Generations' /\ Log!CursorTrue'
  BY DEF Generations, Log!CursorTrue, Log!Distinguished, Log!Undone, Log!NeverRolledUp
<1>9. /\ \A e \in Log!Days : file[e] # None =>
           file[e].gen[2] \in {0, 1} /\ Log!Journaled(e) = file[e].frames
      /\ packing # None => /\ packing.gen = <<file[packing.day].gen[1], 1>>
                           /\ file[packing.day].gen[2] = 0
      /\ \A e \in Log!Days : cursor[e] # None =>
           /\ file[e] # None /\ cursor[e].next > 0
           /\ file[e].gen = cursor[e].gen \/ Newer(file[e].gen, cursor[e].gen)
  BY <1>8 DEF LogInv, Generations
<1>10. j = Held(d) /\ p.frames = j
  <2>1. CASE file[d] = None
    <3>1. Held(d) = <<>> /\ j = <<>>
      BY <1>4, <2>1 DEF Held, Log!Journaled
    <3>2. QED
      BY <1>7, <3>1
  <2>2. CASE file[d] # None
    BY <1>4, <1>7, <1>9, <2>2 DEF Held
  <2>3. QED
    BY <2>1, <2>2
<1>11. Log!Journaled(d)' = f.frames
  <2>1. CASE added = <<>>
    BY <1>1, <1>2, <1>3, <1>4, <1>10, <2>1, FrameWritten
  <2>2. CASE \E g \in Log!Frames : added = <<g>> /\ g.ok
    BY <1>1, <1>2, <1>3, <1>4, <1>5, <1>10, <2>2, FrameWritten
  <2>3. QED
    BY <2>1, <2>2
<1>12. f.gen[2] \in {0, 1}
  <2>1. CASE file[d] = None
    BY <1>6, <1>7, <2>1
  <2>2. CASE file[d] # None
    BY <1>6, <1>7, <1>9, <1>10, <2>2
  <2>3. QED
    BY <2>1, <2>2
<1>13. Generations'
  <2>1. packing # None => /\ packing.day \in Log!Days /\ file[packing.day] # None
    BY <1>1 DEF LogTypes, Packings, LogInv, Repacked
  <2>2. packing # None => /\ packing.gen = <<file'[packing.day].gen[1], 1>>
                          /\ file'[packing.day].gen[2] = 0
    <3>1. SUFFICES ASSUME packing # None
                   PROVE  file'[packing.day].gen = file[packing.day].gen
      BY <1>9
    <3>2. CASE packing.day = d
      BY <1>2, <1>6, <1>7, <1>9, <1>10, <2>1, <3>1, <3>2
    <3>3. CASE packing.day # d
      BY <1>6, <2>1, <3>1, <3>3
    <3>4. QED
      BY <3>2, <3>3
  <2>3. \A e \in Log!Days : file'[e] # None =>
           file'[e].gen[2] \in {0, 1} /\ Log!Journaled(e)' = file'[e].frames
    BY <1>2, <1>6, <1>9, <1>11, <1>12
  <2>4. ASSUME NEW e \in Log!Days, cursor[e] # None
        PROVE  /\ file'[e] # None /\ cursor[e].next > 0
               /\ file'[e].gen = cursor[e].gen \/ Newer(file'[e].gen, cursor[e].gen)
    <3>1. CASE e = d
      <4>1. /\ file[d] # None /\ cursor[d].next > 0
            /\ file[d].gen = cursor[d].gen \/ Newer(file[d].gen, cursor[d].gen)
        BY <1>9, <2>4, <3>1
      <4>2. f.gen = file[d].gen \/ Newer(f.gen, file[d].gen)
        BY <1>6, <1>7, <1>10, <4>1
      <4>3. f.gen \in Nat \X Nat /\ file[d].gen \in Nat \X Nat /\ cursor[d].gen \in Nat \X Nat
        BY <1>1, <1>6, <1>7, <2>4, <3>1, <4>1, DayIs DEF LogTypes, Positions
      <4>4. f.gen = cursor[d].gen \/ Newer(f.gen, cursor[d].gen)
        BY <4>1, <4>2, <4>3, NewerTwice
      <4>5. QED
        BY <1>2, <1>6, <3>1, <4>1, <4>4
    <3>2. CASE e # d
      BY <1>6, <1>9, <2>4, <3>2
    <3>3. QED
      BY <3>1, <3>2
  <2>5. QED
    BY <2>2, <2>3, <2>4 DEF Generations, Newer
<1>14. Log!CursorTrue'
  <2>1. SUFFICES ASSUME NEW e \in Log!Days, file'[e] # None,
                        cursor[e] # None, cursor[e].gen = file'[e].gen
                 PROVE  /\ cursor[e].next <= Len(file'[e].frames) + 1
                        /\ got[e] = SubSeq(file'[e].frames, 1, cursor[e].next - 1)
    BY DEF Log!CursorTrue, Log!Resumes
  <2>2. CASE e # d
    <3>1. file'[e] = file[e]
      BY <1>6, <2>2
    <3>2. QED
      BY <1>8, <2>1, <3>1 DEF LogInv, Log!CursorTrue, Log!Resumes
  <2>3. CASE e = d
    <3>1. /\ file[d] # None /\ cursor[d].next > 0
          /\ file[d].gen = cursor[d].gen \/ Newer(file[d].gen, cursor[d].gen)
      BY <1>9, <2>1, <2>3
    <3>2. f.gen = file[d].gen \/ Newer(f.gen, file[d].gen)
      BY <1>6, <1>7, <1>10, <3>1
    <3>3. f.gen \in Nat \X Nat /\ file[d].gen \in Nat \X Nat
      BY <1>1, <1>6, <1>7, <3>1, DayIs
    <3>4. cursor[d].gen = file[d].gen
      BY <1>2, <2>1, <2>3, <3>1, <3>2, <3>3 DEF Newer
    <3>5. /\ cursor[d].next <= Len(j) + 1 /\ got[d] = SubSeq(j, 1, cursor[d].next - 1)
          /\ j = file[d].frames
      BY <1>4, <1>8, <1>9, <2>1, <2>3, <3>1, <3>4 DEF LogInv, Log!CursorTrue, Log!Resumes
    <3>6. cursor[d].next \in Nat /\ j \in Seq(Log!Frames) /\ Len(j) \in Nat
      BY <1>1, <1>4, <2>1, <2>3, DayIs DEF LogTypes, Positions
    <3>7. /\ f.frames \in Seq(Log!Frames) /\ Len(f.frames) \in Nat /\ Len(f.frames) >= Len(j)
          /\ \A i \in 1 .. Len(j) : f.frames[i] = j[i]
      <4>1. CASE added = <<>>
        <5>1. j \o <<>> = j
          BY <3>6, ConcatEmptySeq
        <5>2. QED
          BY <1>6, <1>10, <3>6, <4>1, <5>1
      <4>2. CASE \E g \in Log!Frames : added = <<g>> /\ g.ok
        <5>1. PICK g \in Log!Frames : added = <<g>>
          BY <4>2
        <5>2. /\ j \o <<g>> \in Seq(Log!Frames) /\ Len(j \o <<g>>) = Len(j) + 1
              /\ \A i \in 1 .. Len(j) : (j \o <<g>>)[i] = j[i]
          BY <3>6, CompleteAppend
        <5>3. f.frames = j \o <<g>>
          BY <1>6, <1>10, <5>1
        <5>4. QED
          BY <3>6, <5>2, <5>3
      <4>3. QED
        BY <4>1, <4>2
    <3>8. PICK n \in Nat : n = cursor[d].next - 1
      BY <3>1, <3>6
    <3>9. n <= Len(j) /\ n <= Len(f.frames) /\ \A i \in 1 .. n : f.frames[i] = j[i]
      <4>1. n <= Len(j)
        BY <3>5, <3>6, <3>8
      <4>2. n <= Len(f.frames)
        BY <3>6, <3>7, <4>1
      <4>3. \A i \in 1 .. n : i \in 1 .. Len(j)
        BY <3>6, <4>1
      <4>4. QED
        BY <3>7, <4>1, <4>2, <4>3
    <3>10. PICK h : h = f.frames
      OBVIOUS
    <3>11. SubSeq(h, 1, n) = SubSeq(j, 1, n)
      BY <3>6, <3>7, <3>9, <3>10, SamePrefix
    <3>12. cursor[d].next <= Len(h) + 1
      BY <3>6, <3>8, <3>9, <3>10
    <3>13. QED
      BY <1>2, <2>3, <3>5, <3>8, <3>10, <3>11, <3>12
  <2>4. QED
    BY <2>2, <2>3
<1>15. QED
  BY <1>13, <1>14

\* What an append to a day keeps of the invariant, however it ends.
LEMMA WrittenStep ==
    ASSUME LogInv, NEW d \in Log!Days, NEW added, NEW events \in Seq(Log!Happened),
           added \in {<<>>, <<Log!Torn>>, <<Log!Frame(events)>>}, events = pending[d],
           file' = [file EXCEPT ![d] = Log!Written(d, added)], UNCHANGED limits
    PROVE  /\ file' \in [Log!Days -> Logs \union {None}]
           /\ \A e \in Log!Days : On(e) \subseteq On(e)' /\ On(e)' \subseteq On(e) \union Ended(pending[e])
           /\ \A e \in Log!Days \ {d} : On(e)' = On(e)
           /\ Log!NeverRolledUp =>
                /\ \A e \in Log!Days : Log!Once(Log!Journaled(e)')
                /\ \A e \in Log!Days : \A x \in Log!Events(Log!Journaled(e)') : x[2] # "counted"
           /\ packing' = packing => Repacked'
<1>1. LogTypes
  BY DEF LogInv
<1>2. PICK j : j = Log!Journaled(d)
  OBVIOUS
<1>3. Log!Frame(events) \in Log!Frames /\ Log!Torn \in Log!Frames
  BY NoneEnded DEF Log!Frame, Log!Frames, Log!Torn
<1>4. added = <<>> \/ \E g \in Log!Frames : added = <<g>>
  BY <1>3
<1>5. /\ file' \in [Log!Days -> Logs \union {None}] /\ file'[d] # None
      /\ \A e \in Log!Days \ {d} : /\ file'[e] = file[e] /\ On(e)' = On(e)
                                   /\ Log!Journaled(e)' = Log!Journaled(e)
  BY <1>1, <1>4, DayWritten
<1>6. PICK k : k = Log!Journaled(d)'
  OBVIOUS
<1>7. PICK more \in {<<>>, <<Log!Frame(events)>>} :
        /\ k \in Seq(Log!Frames) /\ \A i \in 1 .. Len(j) : k[i] = j[i]
        /\ Len(k) >= Len(j) /\ Len(k) \in Nat
        /\ On(d)' = On(d) \union (IF more = <<>> THEN {} ELSE Ended(events))
        /\ Log!Events(k) = Log!Events(j) \union (IF more = <<>> THEN {} ELSE Log!ToSet(events))
        /\ Log!Once(j) /\ EndedOnce(events) /\ On(d) \intersect Ended(events) = {} => Log!Once(k)
  BY <1>1, <1>2, <1>6, WrittenKeeps
<1>8. On(d) \subseteq On(d)' /\ On(d)' \subseteq On(d) \union Ended(events)
  BY <1>7
<1>9. \A e \in Log!Days : On(e) \subseteq On(e)' /\ On(e)' \subseteq On(e) \union Ended(pending[e])
  <2>1. TAKE e \in Log!Days
  <2>2. CASE e = d
    BY <1>8, <2>2
  <2>3. CASE e # d
    BY <1>5, <2>3
  <2>4. QED
    BY <2>2, <2>3
<1>10. ASSUME Log!NeverRolledUp
       PROVE  /\ \A e \in Log!Days : Log!Once(Log!Journaled(e)')
              /\ \A e \in Log!Days : \A x \in Log!Events(Log!Journaled(e)') : x[2] # "counted"
  <2>1. \A e \in Log!Days : /\ Log!Once(Log!Journaled(e)) /\ EndedOnce(pending[e])
                            /\ On(e) \intersect Ended(pending[e]) = {}
    BY <1>10 DEF LogInv, EndsOnce
  <2>2. \A e \in Log!Days : \A x \in Log!Events(Log!Journaled(e)) \union Log!ToSet(pending[e]) : x[2] # "counted"
    BY <1>10 DEF LogInv, NotCounted
  <2>3. SUFFICES ASSUME NEW e \in Log!Days
                 PROVE  /\ Log!Once(Log!Journaled(e)')
                        /\ \A x \in Log!Events(Log!Journaled(e)') : x[2] # "counted"
    OBVIOUS
  <2>4. CASE e = d
    <3>1. Log!Once(k)
      BY <1>2, <1>7, <2>1
    <3>2. \A x \in Log!Events(k) : x[2] # "counted"
      BY <1>2, <1>7, <2>2
    <3>3. QED
      BY <1>6, <2>4, <3>1, <3>2
  <2>5. CASE e # d
    BY <1>5, <2>1, <2>2, <2>5
  <2>6. QED
    BY <2>4, <2>5
<1>11. ASSUME packing' = packing PROVE Repacked'
  <2>1. SUFFICES ASSUME packing # None PROVE Repacked'
    BY <1>11 DEF Repacked
  <2>2. PICK p : p = packing
    OBVIOUS
  <2>3. PICK c : c = p.day
    OBVIOUS
  <2>4. PICK q : q = Log!Journaled(c)
    OBVIOUS
  <2>5. PICK r : r = Log!Journaled(c)'
    OBVIOUS
  <2>6. c \in Log!Days /\ p.next \in Nat
    BY <1>1, <2>1, <2>2, <2>3 DEF LogTypes, Packings
  <2>7. /\ file[c] # None /\ p.next > 0 /\ p.next <= Len(q) + 1
        /\ \A o : o \in Ended(p.kept) <=> \E i \in 1 .. (p.next - 1) : o \in Ended(q[i].events)
    BY <2>1, <2>2, <2>3, <2>4 DEF LogInv, Repacked
  <2>8. /\ file'[c] # None /\ Len(r) \in Nat /\ Len(q) \in Nat /\ Len(r) >= Len(q)
        /\ \A i \in 1 .. Len(q) : r[i] = q[i]
    <3>1. Len(q) \in Nat
      BY <1>1, <2>4, <2>6, DayIs
    <3>2. CASE c = d
      <4>1. q = j /\ r = k
        BY <1>2, <1>6, <2>4, <2>5, <3>2
      <4>2. QED
        BY <1>5, <1>7, <3>1, <3>2, <4>1
    <3>3. CASE c # d
      BY <1>5, <2>4, <2>5, <2>6, <2>7, <3>1, <3>3
    <3>4. QED
      BY <3>2, <3>3
  <2>9. \A i \in 1 .. (p.next - 1) : r[i] = q[i]
    BY <2>6, <2>7, <2>8
  <2>10. \A o : o \in Ended(p.kept) <=> \E i \in 1 .. (p.next - 1) : o \in Ended(r[i].events)
    BY <2>7, <2>9
  <2>11. p.next <= Len(r) + 1
    BY <2>6, <2>7, <2>8
  <2>12. Log!Journaled(packing.day)' = r
    BY <1>11, <2>2, <2>3, <2>5 DEF Log!Journaled
  <2>13. QED
    BY <1>11, <2>2, <2>3, <2>7, <2>8, <2>10, <2>11, <2>12 DEF Repacked
<1>12. QED
  BY <1>5, <1>9, <1>10, <1>11

\* Where a failed write can be undone, what is prepared has no torn tail.
LEMMA PreparedWhole ==
    ASSUME LogInv, Log!Undone, NEW d \in Log!Days
    PROVE  Log!Prepared(d).frames = Log!Journaled(d)
<1>1. PICK p : p = Log!Prepared(d)
  OBVIOUS
<1>2. p.frames = IF d \in prepared THEN Held(d) ELSE Log!Journaled(d)
  BY <1>1, PreparedIs DEF LogInv
<1>3. d \in prepared => Held(d) = Log!Journaled(d)
  BY DEF LogInv, TornLast, Held, Log!Journaled
<1>4. QED
  BY <1>1, <1>2, <1>3

\* A torn frame that is written is the last one.
LEMMA TornWritten ==
    ASSUME LogInv, NEW d \in Log!Days, NEW added, NEW g \in Log!Frames, g.ok,
           added \in {<<>>, <<Log!Torn>>, <<g>>}, UNCHANGED limits,
           file' = [file EXCEPT ![d] = Log!Written(d, added)],
           prepared' \subseteq prepared \union {d}, added = <<Log!Torn>> => prepared' = {}
    PROVE  TornLast'
<1>1. SUFFICES ASSUME Log!Undone PROVE TornLast'
  BY DEF TornLast, Log!Undone
<1>2. LogTypes
  BY DEF LogInv
<1>3. Log!Torn \in Log!Frames /\ ~Log!Torn.ok
  BY NoneEnded DEF Log!Torn, Log!Frames
<1>4. added = <<>> \/ \E x \in Log!Frames : added = <<x>>
  BY <1>3
<1>5. PICK j : j = Log!Journaled(d)
  OBVIOUS
<1>6. j \in Seq(Log!Frames) /\ Len(j) \in Nat /\ Log!Complete(j) = j
  <2>1. PICK h : h = Held(d)
    OBVIOUS
  <2>2. h \in Seq(Log!Frames) /\ j = Log!Complete(h) /\ j \in Seq(Log!Frames) /\ Len(j) \in Nat
    BY <1>2, <1>5, <2>1, DayIs
  <2>3. QED
    BY <2>2, CompleteTwice
<1>7. Log!Prepared(d).frames = j
  BY <1>1, <1>5, PreparedWhole
<1>8. PICK f : f = file'[d]
  OBVIOUS
<1>9. /\ f # None /\ f.frames = j \o added /\ Log!Journaled(d)' = Log!Complete(j \o added)
      /\ \A e \in Log!Days \ {d} : /\ file'[e] = file[e]
                                   /\ Log!Journaled(e)' = Log!Journaled(e)
                                   /\ Log!Stranded(e)' = Log!Stranded(e)
  BY <1>2, <1>4, <1>7, <1>8, DayWritten
<1>10. CASE added = <<Log!Torn>>
  <2>1. PICK t \in Log!Frames : t = Log!Torn /\ ~t.ok
    BY <1>3
  <2>2. Len(j \o <<t>>) = Len(j) + 1 /\ Log!Complete(j \o <<t>>) = j
    BY <1>6, <2>1, CompleteAppend
  <2>3. Len(f.frames) = Len(j) + 1 /\ Log!Complete(f.frames) = j
    BY <1>9, <1>10, <2>1, <2>2
  <2>4. ~Log!Stranded(d)'
    BY <1>6, <1>8, <2>3 DEF Log!Stranded
  <2>5. QED
    BY <1>9, <1>10, <2>4 DEF LogInv, TornLast, Log!Undone
<1>11. CASE added # <<Log!Torn>>
  <2>1. Log!Complete(f.frames) = f.frames /\ f.frames \in Seq(Log!Frames)
    <3>1. CASE added = <<>>
      <4>1. j \o <<>> = j
        BY <1>6, ConcatEmptySeq
      <4>2. f.frames = j
        BY <1>9, <3>1, <4>1
      <4>3. QED
        BY <1>6, <4>2
    <3>2. CASE added = <<g>>
      <4>1. j \o <<g>> \in Seq(Log!Frames) /\ Log!Complete(j \o <<g>>) = j \o <<g>>
        BY <1>6, CompleteAppend
      <4>2. f.frames = j \o <<g>>
        BY <1>9, <3>2
      <4>3. QED
        BY <4>1, <4>2
    <3>3. QED
      BY <1>11, <3>1, <3>2
  <2>2. Len(f.frames) \in Nat
    BY <2>1, LenProperties
  <2>3. ~Log!Stranded(d)'
    BY <1>8, <2>1, <2>2 DEF Log!Stranded
  <2>4. Log!Journaled(d)' = file'[d].frames
    BY <1>8, <1>9, <2>1
  <2>5. QED
    BY <1>1, <1>9, <2>3, <2>4 DEF LogInv, TornLast, Log!Undone
<1>12. QED
  BY <1>10, <1>11

\* The writer has appended what was pending for a day, or lost it and counted it.
LEMMA AppendedStep ==
    ASSUME LogInv, at \in {"opening", "flush"}, NEW d \in Log!Days, NEW n \in Nat,
           pending' = [pending EXCEPT ![d] = <<>>], mem' = [mem EXCEPT !.gaps = @ + n],
           file' \in [Log!Days -> Logs \union {None}], failures' \in Nat, prepared' \subseteq Log!Days,
           UNCHANGED <<today, op, day, queue, dropped, at, shared, opened, packing, snap, cursor, got, exporting,
                       shown, exports, limits, crashes>>,
           \A e \in Log!Days : On(e) \subseteq On(e)' /\ On(e)' \subseteq On(e) \union Ended(pending[e]),
           \A e \in Log!Days \ {d} : On(e)' = On(e),
           Log!NeverRolledUp =>
             /\ \A e \in Log!Days : Log!Once(Log!Journaled(e)')
             /\ \A e \in Log!Days : \A x \in Log!Events(Log!Journaled(e)') : x[2] # "counted",
           Log!Undone => n > 0 \/ On(d)' = On(d) \union Ended(pending[d])
    PROVE  LogTypes' /\ Traced' /\ GapsGrow' /\ LeftKnown' /\ EndsOnce' /\ NotCounted' /\ Owed'
<1>1. LogTypes /\ mem \in Snapshots /\ snap \in Snapshots
  BY DEF LogInv, LogTypes
<1>2. /\ mem' \in Snapshots /\ mem'.gaps = mem.gaps + n /\ mem'.active = mem.active
      /\ mem'.unknown = mem.unknown /\ mem.gaps \in Nat /\ snap.gaps \in Nat
      /\ opened \in Nat
  BY <1>1, GapsCounted DEF LogTypes, Snapshots
<1>3. /\ pending' \in [Log!Days -> Seq(Log!Happened)] /\ pending'[d] = <<>>
      /\ \A e \in Log!Days \ {d} : pending'[e] = pending[e]
  BY <1>1, NoneEnded DEF LogTypes
<1>4. /\ Ended(pending'[d]) = {} /\ Log!ToSet(pending'[d]) = {} /\ EndedOnce(pending'[d])
      /\ \A e \in Log!Days : /\ Ended(pending'[e]) \subseteq Ended(pending[e])
                             /\ Log!ToSet(pending'[e]) \subseteq Log!ToSet(pending[e])
  BY <1>3, NoneEnded
<1>5. \A e \in Log!Days : On(e)' \union Ended(pending'[e]) \subseteq On(e) \union Ended(pending[e])
  BY <1>4
<1>6. LogTypes'
  BY <1>1, <1>2, <1>3 DEF LogTypes
<1>7. Traced'
  <2>1. \A x \in mem'.active \union snap'.active : op'[x] # "new"
    BY <1>2 DEF LogInv, Traced
  <2>2. \A e \in Log!Days : \A x \in On(e)' \union Ended(pending'[e]) : day'[x] = e /\ op'[x] = "over"
    BY <1>5 DEF LogInv, Traced
  <2>3. \A i \in DOMAIN queue' : op'[queue'[i].op] # "new" /\ (queue'[i].over => op'[queue'[i].op] = "over")
    BY DEF LogInv, Traced
  <2>4. at = "opening" => queue = <<>> /\ \A o \in Ops : op[o] # "running"
    BY DEF LogInv, Traced
  <2>5. QED
    BY <2>1, <2>2, <2>3, <2>4 DEF Traced
<1>8. GapsGrow'
  BY <1>2 DEF LogInv, GapsGrow
<1>9. LeftKnown'
  <2>1. SUFFICES ASSUME Log!Undone, NEW x \in snap.active \ mem.active
                 PROVE  \/ \E e \in Log!Days : x \in On(e)' \union Ended(pending'[e])
                        \/ mem'.gaps > opened
    BY <1>2 DEF LeftKnown, Log!Undone
  <2>2. \/ \E e \in Log!Days : x \in On(e) \union Ended(pending[e])
        \/ mem.gaps > opened
    BY <2>1 DEF LogInv, LeftKnown
  <2>3. mem.gaps >= opened
    BY <1>2 DEF LogInv, LogTypes, Snapshots, GapsGrow
  <2>4. CASE n > 0
    BY <1>2, <2>3, <2>4
  <2>5. CASE On(d)' = On(d) \union Ended(pending[d])
    <3>1. \A e \in Log!Days : On(e) \union Ended(pending[e]) \subseteq On(e)' \union Ended(pending'[e])
      BY <1>3, <2>5
    <3>2. QED
      BY <1>2, <2>2, <3>1
  <2>6. QED
    BY <2>1, <2>4, <2>5
<1>10. EndsOnce'
  <2>1. SUFFICES ASSUME Log!NeverRolledUp PROVE
          /\ \A e \in Log!Days : Log!Once(Log!Journaled(e)') /\ EndedOnce(pending'[e])
                                 /\ On(e)' \intersect Ended(pending'[e]) = {}
          /\ \A i \in DOMAIN queue : queue[i].over =>
               /\ \A e \in Log!Days : queue[i].op \notin On(e)' \union Ended(pending'[e])
               /\ \A j \in DOMAIN queue : queue[j] = queue[i] => i = j
          /\ packing # None => EndedOnce(packing.kept)
    BY DEF EndsOnce, Log!NeverRolledUp
  <2>2. /\ \A e \in Log!Days : Log!Once(Log!Journaled(e)) /\ EndedOnce(pending[e])
                                /\ On(e) \intersect Ended(pending[e]) = {}
        /\ packing # None => EndedOnce(packing.kept)
        /\ \A i \in DOMAIN queue : queue[i].over =>
             /\ \A e \in Log!Days : queue[i].op \notin On(e) \union Ended(pending[e])
             /\ \A j \in DOMAIN queue : queue[j] = queue[i] => i = j
    BY <2>1 DEF LogInv, EndsOnce
  <2>3. \A e \in Log!Days : EndedOnce(pending'[e]) /\ On(e)' \intersect Ended(pending'[e]) = {}
    <3>1. TAKE e \in Log!Days
    <3>2. CASE e = d
      BY <1>4, <3>2
    <3>3. CASE e # d
      BY <1>3, <2>2, <3>3
    <3>4. QED
      BY <3>2, <3>3
  <2>4. QED
    BY <1>5, <2>1, <2>2, <2>3
<1>11. NotCounted'
  <2>1. Log!NeverRolledUp =>
          /\ \A e \in Log!Days : \A x \in Log!Events(Log!Journaled(e)') \union Log!ToSet(pending'[e]) : x[2] # "counted"
          /\ packing # None => packing.gen[2] = 1 /\ \A x \in Log!ToSet(packing.kept) : x[2] # "counted"
    BY <1>4 DEF LogInv, NotCounted
  <2>2. today = 1 \/ today <= limits.days
    BY DEF LogInv, NotCounted
  <2>3. QED
    BY <2>1, <2>2 DEF NotCounted, Log!NeverRolledUp
<1>12. Owed'
  <2>1. Log!Distinguished =>
          /\ \A o \in shown : o \in snap.active \/ (\E e \in Log!Days : o \in On(e)) \/ snap.gaps > 0
          /\ exporting # None /\ exporting.gaps = 0 =>
               \A o \in exporting.due \ exporting.active : \E e \in Log!Days :
                 o \in On(e) /\ (e < exporting.next => o \in Log!Named(got[e]))
    BY DEF LogInv, Owed
  <2>2. Log!Distinguished =>
          /\ \A o \in shown : o \in snap.active \/ (\E e \in Log!Days : o \in On(e)') \/ snap.gaps > 0
          /\ exporting # None /\ exporting.gaps = 0 =>
               \A o \in exporting.due \ exporting.active : \E e \in Log!Days :
                 o \in On(e)' /\ (e < exporting.next => o \in Log!Named(got[e]))
    BY <2>1
  <2>3. QED
    BY <2>2 DEF Owed, Log!Distinguished, Log!Undone, Log!NeverRolledUp, Log!Named
<1>13. QED
  BY <1>6, <1>7, <1>8, <1>9, <1>10, <1>11, <1>12

LEMMA AppendDayStep ==
    ASSUME LogInv, NEW d \in Log!Days, Log!AppendDay(d)
    PROVE  LogInv'
<1>1. PICK events : events = pending[d]
  OBVIOUS
<1>2. PICK p : p = Log!Prepared(d)
  OBVIOUS
<1>3. PICK lost : lost = Len(events)
  OBVIOUS
<1>4. /\ at \in {"opening", "flush"} /\ events # <<>> /\ pending' = [pending EXCEPT ![d] = <<>>]
      /\ UNCHANGED <<today, op, day, queue, dropped, at, shared, opened, packing, snap, cursor, got, exporting,
                     shown, exports, limits, crashes>>
      /\ IF d \notin prepared /\ Log!Stranded(d)
           THEN mem' = [mem EXCEPT !.gaps = @ + lost] /\ UNCHANGED <<file, prepared, failures>>
           ELSE /\ prepared' = prepared \union {d}
                /\ \/ /\ file' = [file EXCEPT ![d] = Log!Written(d, <<Log!Frame(events)>>)]
                      /\ mem' = [mem EXCEPT !.gaps = @ + p.tail]
                      /\ UNCHANGED failures
                   \/ /\ Log!Fails({"append"})
                      /\ mem' = [mem EXCEPT !.gaps = @ + p.tail + lost]
                      /\ file' = [file EXCEPT ![d] = Log!Written(d, <<>>)]
                   \/ /\ Log!Fails({"append", "truncate"})
                      /\ mem' = [mem EXCEPT !.gaps = @ + p.tail + lost]
                      /\ file' = [file EXCEPT ![d] = Log!Written(d, <<Log!Torn>>)]
  BY <1>1, <1>2, <1>3 DEF Log!AppendDay, Log!Flushing, Log!gaps, Log!requests, Log!channel, Log!reader
<1>5. LogTypes
  BY DEF LogInv
<1>6. events \in Seq(Log!Happened) /\ lost \in Nat /\ lost > 0
  <2>1. events \in Seq(Log!Happened)
    BY <1>1, <1>5 DEF LogTypes
  <2>2. QED
    BY <1>3, <1>4, <2>1, EmptySeq
<1>7. p.tail \in Nat /\ failures \in Nat /\ file \in [Log!Days -> Logs \union {None}]
      /\ prepared \subseteq Log!Days
  BY <1>2, <1>5, PreparedIs DEF LogTypes
<1>8. PICK g : g = Log!Frame(events)
  OBVIOUS
<1>9. g \in Log!Frames /\ g.ok /\ g.events = events
  BY <1>6, <1>8 DEF Log!Frame, Log!Frames
<1>10. CASE d \notin prepared /\ Log!Stranded(d)
  <2>1. mem' = [mem EXCEPT !.gaps = @ + lost] /\ UNCHANGED <<file, prepared, failures>>
    BY <1>4, <1>10
  <2>2. \A e \in Log!Days : On(e)' = On(e) /\ Log!Journaled(e)' = Log!Journaled(e)
    BY <2>1, DaySame
  <2>3. Log!NeverRolledUp =>
          /\ \A e \in Log!Days : Log!Once(Log!Journaled(e)')
          /\ \A e \in Log!Days : \A x \in Log!Events(Log!Journaled(e)') : x[2] # "counted"
    BY <2>2 DEF LogInv, EndsOnce, NotCounted
  <2>4. LogTypes' /\ Traced' /\ GapsGrow' /\ LeftKnown' /\ EndsOnce' /\ NotCounted' /\ Owed'
    BY <1>4, <1>6, <1>7, <2>1, <2>2, <2>3, AppendedStep
  <2>5. TornLast' /\ Repacked' /\ Generations' /\ Log!CursorTrue'
    BY <1>4, <2>1, TornSame, RepackedSame, GenerationsSame, CursorSame DEF LogInv
  <2>6. QED
    BY <2>4, <2>5 DEF LogInv
<1>11. CASE ~(d \notin prepared /\ Log!Stranded(d))
  <2>1. ASSUME NEW added, added \in {<<>>, <<Log!Torn>>, <<g>>}, NEW n \in Nat,
               file' = [file EXCEPT ![d] = Log!Written(d, added)],
               mem' = [mem EXCEPT !.gaps = @ + n], failures' \in Nat,
               added # <<g>> => n > 0, added = <<Log!Torn>> => ~Log!Undone
        PROVE  LogInv'
    <3>1. prepared' = prepared \union {d}
      BY <1>4, <1>11
    <3>2. Log!Torn \in Log!Frames
      BY NoneEnded DEF Log!Frames, Log!Torn
    <3>3. added \in {<<>>, <<Log!Torn>>, <<Log!Frame(events)>>}
      BY <1>8, <2>1
    <3>4. /\ file' \in [Log!Days -> Logs \union {None}]
          /\ \A e \in Log!Days : On(e) \subseteq On(e)' /\ On(e)' \subseteq On(e) \union Ended(pending[e])
          /\ \A e \in Log!Days \ {d} : On(e)' = On(e)
          /\ Log!NeverRolledUp =>
               /\ \A e \in Log!Days : Log!Once(Log!Journaled(e)')
               /\ \A e \in Log!Days : \A x \in Log!Events(Log!Journaled(e)') : x[2] # "counted"
          /\ packing' = packing => Repacked'
      BY <1>1, <1>4, <1>6, <2>1, <3>3, WrittenStep
    <3>5. ASSUME Log!Undone, added = <<g>> PROVE On(d)' = On(d) \union Ended(pending[d])
      <4>1. PICK j : j = Log!Journaled(d)
        OBVIOUS
      <4>2. j \in Seq(Log!Frames)
        BY <1>5, <4>1, DayIs
      <4>3. Log!Prepared(d).frames = j
        BY <3>5, <4>1, PreparedWhole
      <4>4. Log!Journaled(d)' = j \o <<g>>
        BY <1>5, <1>9, <2>1, <3>5, <4>1, <4>3, FrameWritten
      <4>5. Log!Named(j \o <<g>>) = Log!Named(j) \union Ended(events)
        BY <1>9, <4>2, EventsAdded
      <4>6. QED
        BY <1>1, <4>1, <4>4, <4>5 DEF On
    <3>6. Log!Undone => n > 0 \/ On(d)' = On(d) \union Ended(pending[d])
      BY <2>1, <3>5
    <3>7. prepared' \subseteq Log!Days
      BY <1>7, <3>1
    <3>8. LogTypes' /\ Traced' /\ GapsGrow' /\ LeftKnown' /\ EndsOnce' /\ NotCounted' /\ Owed'
      BY <1>4, <2>1, <3>4, <3>6, <3>7, AppendedStep
    <3>9. Repacked'
      BY <1>4, <3>4
    <3>10. TornLast'
      <4>1. CASE added = <<Log!Torn>>
        BY <1>4, <2>1, <4>1 DEF TornLast, Log!Undone
      <4>2. CASE added # <<Log!Torn>>
        BY <1>4, <1>9, <2>1, <3>1, <4>2, TornWritten
      <4>3. QED
        BY <4>1, <4>2
    <3>11. Generations' /\ Log!CursorTrue'
      <4>1. CASE added = <<Log!Torn>>
        BY <1>4, <2>1, <4>1 DEF Generations, Log!CursorTrue, Log!Distinguished, Log!Undone
      <4>2. CASE added # <<Log!Torn>>
        <5>1. added = <<>> \/ \E x \in Log!Frames : added = <<x>> /\ x.ok
          BY <1>9, <2>1, <4>2
        <5>2. QED
          BY <1>4, <2>1, <5>1, WrittenGeneration
      <4>3. QED
        BY <4>1, <4>2
    <3>12. QED
      BY <3>8, <3>9, <3>10, <3>11 DEF LogInv
  <2>2. CASE /\ file' = [file EXCEPT ![d] = Log!Written(d, <<Log!Frame(events)>>)]
             /\ mem' = [mem EXCEPT !.gaps = @ + p.tail]
             /\ UNCHANGED failures
    <3>1. PICK added : added = <<g>>
      OBVIOUS
    <3>2. added # <<Log!Torn>>
      BY <1>9, <3>1 DEF Log!Torn
    <3>3. QED
      BY <1>7, <1>8, <2>1, <2>2, <3>1, <3>2
  <2>3. CASE /\ Log!Fails({"append"})
             /\ mem' = [mem EXCEPT !.gaps = @ + p.tail + lost]
             /\ file' = [file EXCEPT ![d] = Log!Written(d, <<>>)]
    <3>1. PICK n \in Nat : n = p.tail + lost /\ n > 0
      BY <1>6, <1>7
    <3>2. mem' = [mem EXCEPT !.gaps = @ + n] /\ failures' \in Nat
      <4>1. mem.gaps \in Nat
        BY <1>5 DEF LogTypes, Snapshots
      <4>2. mem.gaps + p.tail + lost = mem.gaps + n
        BY <1>6, <1>7, <3>1, <4>1
      <4>3. QED
        BY <1>7, <2>3, <4>2 DEF Log!Fails
    <3>3. <<>> # <<Log!Torn>>
      OBVIOUS
    <3>4. QED
      BY <2>1, <2>3, <3>1, <3>2, <3>3
  <2>4. CASE /\ Log!Fails({"append", "truncate"})
             /\ mem' = [mem EXCEPT !.gaps = @ + p.tail + lost]
             /\ file' = [file EXCEPT ![d] = Log!Written(d, <<Log!Torn>>)]
    <3>1. PICK n \in Nat : n = p.tail + lost /\ n > 0
      BY <1>6, <1>7
    <3>2. mem' = [mem EXCEPT !.gaps = @ + n] /\ failures' \in Nat
      <4>1. mem.gaps \in Nat
        BY <1>5 DEF LogTypes, Snapshots
      <4>2. mem.gaps + p.tail + lost = mem.gaps + n
        BY <1>6, <1>7, <3>1, <4>1
      <4>3. QED
        BY <1>7, <2>4, <4>2 DEF Log!Fails
    <3>3. ~Log!Undone
      BY <2>4 DEF Log!Fails, Log!Undone
    <3>4. PICK added : added = <<Log!Torn>>
      OBVIOUS
    <3>5. QED
      BY <2>1, <2>4, <3>1, <3>2, <3>3, <3>4
  <2>5. QED
    BY <1>4, <1>11, <2>2, <2>3, <2>4
<1>12. QED
  BY <1>10, <1>11

\* The process dies: its operations have ended unseen, and the file of one day
\* may have got a torn frame.
LEMMA CrashStep ==
    ASSUME LogInv, Log!Crash
    PROVE  LogInv'
<1>1. /\ at # "down" /\ crashes < limits.crashes /\ crashes' = crashes + 1
      /\ at' = "down" /\ queue' = <<>> /\ dropped' = 0
      /\ mem' = Log!NoSnapshot /\ pending' = Log!NoEvents /\ prepared' = {} /\ packing' = None
      /\ op' = [o \in Ops |-> IF op[o] = "running" THEN "over" ELSE op[o]]
      /\ UNCHANGED <<limits, today, day, shared, opened, snap, cursor, got, exporting, shown, exports, failures>>
      /\ \/ file' = file
         \/ \E d \in Log!Days : file' = [file EXCEPT ![d] = Log!Written(d, <<Log!Torn>>)]
  BY DEF Log!Crash, Log!gaps, Log!reader
<1>2. LogTypes
  BY DEF LogInv
<1>3. mem' \in Snapshots /\ mem'.active = {} /\ mem'.unknown = {}
  BY <1>1 DEF Log!NoSnapshot, Snapshots
<1>4. /\ pending' \in [Log!Days -> Seq(Log!Happened)]
      /\ \A d \in Log!Days : /\ pending'[d] = <<>> /\ Ended(pending'[d]) = {} /\ EndedOnce(pending'[d])
                             /\ Log!ToSet(pending'[d]) = {}
  BY <1>1, NoneEnded DEF Log!NoEvents
<1>5. /\ op' \in [Ops -> {"new", "running", "over"}]
      /\ \A o \in Ops : op'[o] # "running" /\ (op[o] # "new" => op'[o] = "over")
  BY <1>1, <1>2 DEF LogTypes
<1>6. /\ file' \in [Log!Days -> Logs \union {None}] /\ TornLast'
      /\ \A d \in Log!Days : On(d)' \subseteq On(d) \union Ended(pending[d])
      /\ Log!NeverRolledUp =>
           /\ \A d \in Log!Days : Log!Once(Log!Journaled(d)')
           /\ \A d \in Log!Days : \A x \in Log!Events(Log!Journaled(d)') : x[2] # "counted"
  <2>1. CASE file' = file
    <3>1. \A d \in Log!Days : On(d)' = On(d) /\ Log!Journaled(d)' = Log!Journaled(d)
      BY <2>1, DaySame
    <3>2. TornLast'
      BY <1>1, <2>1, TornSame DEF LogInv
    <3>3. QED
      BY <1>2, <2>1, <3>1, <3>2 DEF LogInv, LogTypes, EndsOnce, NotCounted
  <2>2. ASSUME NEW d \in Log!Days, file' = [file EXCEPT ![d] = Log!Written(d, <<Log!Torn>>)]
        PROVE  /\ file' \in [Log!Days -> Logs \union {None}] /\ TornLast'
               /\ \A e \in Log!Days : On(e)' \subseteq On(e) \union Ended(pending[e])
               /\ Log!NeverRolledUp =>
                    /\ \A e \in Log!Days : Log!Once(Log!Journaled(e)')
                    /\ \A e \in Log!Days : \A x \in Log!Events(Log!Journaled(e)') : x[2] # "counted"
    <3>1. PICK added : added = <<Log!Torn>>
      OBVIOUS
    <3>2. PICK events : events = pending[d]
      OBVIOUS
    <3>3. events \in Seq(Log!Happened)
      BY <1>2, <3>2 DEF LogTypes
    <3>4. PICK g \in Log!Frames : g = Log!Frame(events) /\ g.ok
      <4>1. Log!Frame(events) \in Log!Frames /\ Log!Frame(events).ok
        BY <3>3 DEF Log!Frame, Log!Frames
      <4>2. QED
        BY <4>1
    <3>5. added \in {<<>>, <<Log!Torn>>, <<Log!Frame(events)>>} /\ added \in {<<>>, <<Log!Torn>>, <<g>>}
      BY <3>1
    <3>6. file' = [file EXCEPT ![d] = Log!Written(d, added)]
      BY <2>2, <3>1
    <3>7. prepared' = {}
      BY <1>1
    <3>8. TornLast'
      BY <1>1, <3>4, <3>5, <3>6, <3>7, TornWritten
    <3>9. QED
      BY <1>1, <2>2, <3>2, <3>3, <3>5, <3>6, <3>8, WrittenStep
  <2>3. QED
    BY <1>1, <2>1, <2>2
<1>7. DOMAIN queue' = {} /\ queue' \in Seq(Messages)
  BY <1>1
<1>8. LogTypes'
  BY <1>1, <1>2, <1>3, <1>4, <1>5, <1>6, <1>7 DEF LogTypes
<1>9. Traced'
  <2>1. snap.active \subseteq Ops
    BY <1>2 DEF LogTypes, Snapshots
  <2>2. \A x \in mem'.active \union snap'.active : op'[x] # "new"
    BY <1>1, <1>3, <1>5, <2>1 DEF LogInv, Traced
  <2>3. ASSUME NEW d \in Log!Days, NEW x \in On(d)' \union Ended(pending'[d])
        PROVE  day'[x] = d /\ op'[x] = "over"
    <3>1. x \in On(d) \union Ended(pending[d])
      BY <1>4, <1>6, <2>3
    <3>2. x \in Ops
      BY <1>2, <3>1, EventsInOps
    <3>3. day[x] = d /\ op[x] = "over"
      BY <3>1 DEF LogInv, Traced
    <3>4. QED
      BY <1>1, <1>5, <3>2, <3>3
  <2>4. QED
    BY <1>1, <1>4, <1>5, <1>7, <2>2, <2>3 DEF Traced
<1>10. GapsGrow'
  BY <1>1, <1>3 DEF LogInv, GapsGrow
<1>11. LeftKnown' /\ Repacked'
  BY <1>1 DEF LeftKnown, Repacked
<1>12. EndsOnce'
  BY <1>1, <1>4, <1>6, <1>7 DEF EndsOnce, Log!NeverRolledUp
<1>13. NotCounted'
  BY <1>1, <1>4, <1>6 DEF LogInv, NotCounted, Log!NeverRolledUp
<1>14. ~Log!Distinguished'
  <2>1. crashes \in Nat /\ limits.crashes \in Nat
    BY <1>2 DEF LogTypes, Log!Circumstances
  <2>2. QED
    BY <1>1, <2>1 DEF Log!Distinguished
<1>15. Generations' /\ Log!CursorTrue' /\ Owed'
  BY <1>14 DEF Generations, Log!CursorTrue, Owed
<1>16. QED
  BY <1>6, <1>8, <1>9, <1>10, <1>11, <1>12, <1>13, <1>15 DEF LogInv

-----------------------------------------------------------------------------
(* The exporter                                                            *)

LEMMA ExportStep ==
    ASSUME LogInv, Log!Export
    PROVE  LogInv'
<1>1. PICK due : due = shown \union UNION {Log!Recorded(d) : d \in Log!Days}
  OBVIOUS
<1>2. /\ exporting = None /\ exports' = exports + 1
      /\ exporting' = [active |-> snap.active, gaps |-> snap.gaps, next |-> 1, due |-> due]
      /\ shown' = snap.active
      /\ UNCHANGED <<today, op, day, queue, dropped, at, mem, shared, opened, pending, prepared, packing, snap, file,
                     cursor, got, limits, crashes, failures>>
  BY <1>1 DEF Log!Export, Log!gaps, Log!requests, Log!channel, Log!writer, Log!disk, Log!trouble
<1>3. LogTypes
  BY DEF LogInv
<1>4. snap.active \subseteq Ops /\ snap.gaps \in Nat
  BY <1>3 DEF LogTypes, Snapshots
<1>5. \A d \in Log!Days : Log!Recorded(d) \subseteq On(d)
  BY DEF Log!Recorded, On, Log!Named
<1>6. \A d \in Log!Days : On(d) \subseteq Ops
  BY <1>3, EventsInOps
<1>7. due \subseteq Ops
  BY <1>1, <1>3, <1>5, <1>6 DEF LogTypes
<1>8. /\ exporting' \in Exports /\ exporting'.active = snap.active /\ exporting'.gaps = snap.gaps
      /\ exporting'.next = 1 /\ exporting'.due = due
  BY <1>2, <1>4, <1>7 DEF Exports
<1>9. LogTypes'
  BY <1>2, <1>3, <1>4, <1>8 DEF LogTypes
<1>10. Owed'
  <2>1. SUFFICES ASSUME Log!Distinguished, snap.gaps = 0, NEW o \in due \ snap.active
                 PROVE  \E d \in Log!Days : o \in On(d)
    <3>1. \A d : On(d)' = On(d)
      BY <1>2, DaySame
    <3>2. \A d \in Log!Days : ~(d < exporting'.next)
      BY <1>8 DEF Log!Days
    <3>3. limits' = limits /\ shown' = snap.active /\ snap' = snap
      BY <1>2
    <3>4. ASSUME Log!Distinguished, exporting'.gaps = 0
          PROVE  \A o \in exporting'.due \ exporting'.active : \E d \in Log!Days :
                   o \in On(d)' /\ (d < exporting'.next => o \in Log!Named(got'[d]))
      BY <1>8, <2>1, <3>1, <3>2, <3>4
    <3>5. QED
      BY <3>3, <3>4 DEF Owed, Log!Distinguished, Log!Undone, Log!NeverRolledUp
  <2>2. CASE o \in shown
    BY <2>1, <2>2, <1>4 DEF LogInv, Owed
  <2>3. CASE o \notin shown
    BY <1>1, <1>5, <2>1, <2>3
  <2>4. QED
    BY <2>2, <2>3
<1>11. Traced' /\ GapsGrow' /\ TornLast' /\ LeftKnown' /\ Repacked'
  BY <1>2, TracedSame, GapsSame, TornSame, LeftSame, RepackedSame DEF LogInv
<1>12. EndsOnce' /\ NotCounted' /\ Generations' /\ Log!CursorTrue'
  BY <1>2, EndsSame, CountedSame, GenerationsSame, CursorSame DEF LogInv
<1>13. QED
  BY <1>9, <1>10, <1>11, <1>12 DEF LogInv

\* A page of a day
LEMMA ExportDayStep ==
    ASSUME LogInv, NEW d \in Log!Days, Log!ExportDay(d)
    PROVE  LogInv'
<1>1. LogTypes
  BY DEF LogInv
<1>2. PICK x : x = exporting
  OBVIOUS
<1>3. PICK from : from = IF Log!Resumes(d) THEN cursor[d].next ELSE 1
  OBVIOUS
<1>4. PICK all : all = Log!Journaled(d)
  OBVIOUS
<1>5. PICK kept : kept = IF Log!Resumes(d) THEN got[d] ELSE <<>>
  OBVIOUS
<1>6. file[d] # None /\ x # None /\ x.next = d
  BY <1>2 DEF Log!ExportDay
<1>7. /\ all = Log!Complete(file[d].frames) /\ all \in Seq(Log!Frames) /\ Len(all) \in Nat
      /\ file[d].gen \in Nat \X Nat
  BY <1>1, <1>4, <1>6, DayIs
<1>8. PICK last \in (from - 1) .. Len(all) :
        /\ last = Len(all) \/ last >= from
        /\ cursor' = [cursor EXCEPT ![d] = [gen |-> file[d].gen, next |-> last + 1]]
        /\ got' = [got EXCEPT ![d] = kept \o SubSeq(all, from, last)]
        /\ exporting' = IF last = Len(all) THEN [x EXCEPT !.next = d + 1] ELSE None
  BY <1>2, <1>3, <1>5, <1>7 DEF Log!ExportDay
<1>9. UNCHANGED <<today, op, day, queue, dropped, at, mem, shared, opened, pending, prepared, packing, snap, file,
                  shown, exports, limits, crashes, failures>>
  BY DEF Log!ExportDay, Log!gaps, Log!requests, Log!channel, Log!writer, Log!disk, Log!trouble
<1>10. d \in Nat \ {0}
  BY JournalAssumption DEF Log!Days
<1>11. from \in Nat \ {0} /\ kept \in Seq(Log!Frames)
  <2>1. CASE Log!Resumes(d)
    <3>1. cursor[d] \in Positions /\ got[d] \in Seq(Log!Frames)
      BY <1>1, <2>1 DEF LogTypes, Log!Resumes
    <3>2. QED
      BY <1>3, <1>5, <2>1, <3>1 DEF Positions
  <2>2. CASE ~Log!Resumes(d)
    BY <1>3, <1>5, <2>2, NoFrames
  <2>3. QED
    BY <2>1, <2>2
<1>12. last \in Nat /\ from - 1 <= last /\ last <= Len(all)
  BY <1>7, <1>8, <1>11
<1>13. PICK page : page = SubSeq(all, from, last)
  OBVIOUS
<1>14. /\ SubSeq(all, 1, from - 1) \o page = SubSeq(all, 1, last)
       /\ page \in Seq(Log!Frames)
       /\ from = 1 => <<>> \o page = SubSeq(all, 1, last)
  BY <1>7, <1>11, <1>12, <1>13, PageRead
<1>15. PICK c : c = [gen |-> file[d].gen, next |-> last + 1]
  OBVIOUS
<1>16. c \in Positions /\ c.gen = file[d].gen /\ c.next = last + 1
  BY <1>7, <1>12, <1>15 DEF Positions
<1>17. /\ cursor' \in [Log!Days -> Positions \union {None}] /\ cursor'[d] = c
       /\ \A e \in Log!Days \ {d} : cursor'[e] = cursor[e]
  BY <1>1, <1>8, <1>15, <1>16 DEF LogTypes
<1>18. PICK more : more = kept \o page
  OBVIOUS
<1>19. more \in Seq(Log!Frames)
  BY <1>11, <1>14, <1>18, ConcatProperties
<1>20. /\ got' \in [Log!Days -> Seq(Log!Frames)] /\ got'[d] = more
       /\ \A e \in Log!Days \ {d} : got'[e] = got[e]
  BY <1>1, <1>8, <1>13, <1>18, <1>19 DEF LogTypes
<1>21. \/ exporting' = None
       \/ /\ last = Len(all) /\ exporting' \in Exports /\ exporting'.next = d + 1
          /\ exporting'.due = x.due /\ exporting'.active = x.active /\ exporting'.gaps = x.gaps
  <2>1. x \in Exports
    BY <1>1, <1>2, <1>6 DEF LogTypes
  <2>2. CASE last = Len(all)
    <3>1. exporting' = [x EXCEPT !.next = d + 1]
      BY <1>8, <2>2
    <3>2. QED
      BY <1>10, <2>1, <2>2, <3>1 DEF Exports
  <2>3. CASE last # Len(all)
    BY <1>8, <2>3
  <2>4. QED
    BY <2>2, <2>3
<1>22. LogTypes'
  BY <1>1, <1>9, <1>17, <1>20, <1>21 DEF LogTypes
<1>23. ASSUME Log!Distinguished
       PROVE  more = SubSeq(all, 1, last) /\ all = file[d].frames
  <2>1. all = file[d].frames
    BY <1>4, <1>6, <1>23 DEF LogInv, Generations
  <2>2. CASE Log!Resumes(d)
    <3>1. from = cursor[d].next /\ kept = got[d]
      BY <1>3, <1>5, <2>2
    <3>2. kept = SubSeq(all, 1, from - 1)
      BY <1>6, <1>23, <2>1, <2>2, <3>1 DEF LogInv, Log!CursorTrue
    <3>3. QED
      BY <1>14, <1>18, <2>1, <3>2
  <2>3. CASE ~Log!Resumes(d)
    BY <1>3, <1>5, <1>14, <1>18, <2>1, <2>3
  <2>4. QED
    BY <2>2, <2>3
<1>24. Generations'
  <2>1. SUFFICES ASSUME Log!Distinguished, NEW e \in Log!Days, cursor'[e] # None
                 PROVE  /\ file[e] # None /\ cursor'[e].next > 0
                        /\ file[e].gen = cursor'[e].gen \/ Newer(file[e].gen, cursor'[e].gen)
    <3>1. \A e : Log!Journaled(e)' = Log!Journaled(e)
      BY <1>9, DaySame
    <3>2. QED
      BY <1>9, <3>1 DEF LogInv, Generations, Log!Distinguished, Log!Undone, Log!NeverRolledUp, Newer
  <2>2. CASE e = d
    BY <1>6, <1>12, <1>16, <1>17, <2>2
  <2>3. CASE e # d
    BY <1>17, <2>1, <2>3 DEF LogInv, Generations
  <2>4. QED
    BY <2>2, <2>3
<1>25. Log!CursorTrue'
  <2>1. SUFFICES ASSUME Log!Distinguished, NEW e \in Log!Days, file[e] # None,
                        cursor'[e] # None, cursor'[e].gen = file[e].gen
                 PROVE  /\ cursor'[e].next <= Len(file[e].frames) + 1
                        /\ got'[e] = SubSeq(file[e].frames, 1, cursor'[e].next - 1)
    BY <1>9 DEF Log!CursorTrue, Log!Resumes, Log!Distinguished, Log!Undone, Log!NeverRolledUp
  <2>2. CASE e = d
    <3>1. /\ cursor'[e].next = last + 1 /\ cursor'[e].next - 1 = last
          /\ got'[e] = SubSeq(all, 1, last) /\ all = file[e].frames
      BY <1>12, <1>16, <1>17, <1>20, <1>23, <2>1, <2>2
    <3>2. QED
      BY <1>7, <1>12, <3>1
  <2>3. CASE e # d
    BY <1>17, <1>20, <2>1, <2>3 DEF LogInv, Log!CursorTrue, Log!Resumes
  <2>4. QED
    BY <2>2, <2>3
<1>26. Owed'
  <2>1. SUFFICES ASSUME Log!Distinguished
                 PROVE  /\ \A o \in shown : o \in snap.active \/ (\E e \in Log!Days : o \in On(e)) \/ snap.gaps > 0
                        /\ exporting' # None /\ exporting'.gaps = 0 =>
                             \A o \in exporting'.due \ exporting'.active : \E e \in Log!Days :
                               o \in On(e) /\ (e < exporting'.next => o \in Log!Named(got'[e]))
    <3>1. \A e : On(e)' = On(e)
      BY <1>9, DaySame
    <3>2. QED
      BY <1>9, <3>1 DEF Owed, Log!Distinguished, Log!Undone, Log!NeverRolledUp
  <2>2. \A o \in shown : o \in snap.active \/ (\E e \in Log!Days : o \in On(e)) \/ snap.gaps > 0
    BY <2>1 DEF LogInv, Owed
  <2>3. ASSUME exporting' # None, exporting'.gaps = 0,
               NEW o \in exporting'.due \ exporting'.active
        PROVE  \E e \in Log!Days : o \in On(e) /\ (e < exporting'.next => o \in Log!Named(got'[e]))
    <3>1. /\ last = Len(all) /\ exporting'.next = d + 1 /\ x.gaps = 0 /\ o \in x.due \ x.active
      BY <1>21, <2>3
    <3>2. PICK e \in Log!Days : o \in On(e) /\ (e < d => o \in Log!Named(got[e]))
      BY <1>2, <1>6, <2>1, <3>1 DEF LogInv, Owed
    <3>3. got'[d] = all
      BY <1>7, <1>20, <1>23, <2>1, <3>1, WholePrefix
    <3>4. Log!Named(got'[d]) = On(d)
      BY <1>4, <3>3 DEF On
    <3>5. e < d + 1 => e = d \/ e < d
      BY <1>10 DEF Log!Days
    <3>6. e < d => got'[e] = got[e]
      BY <1>10, <1>20
    <3>7. e < d + 1 => o \in Log!Named(got'[e])
      BY <3>2, <3>4, <3>5, <3>6
    <3>8. QED
      BY <3>1, <3>2, <3>7
  <2>4. QED
    BY <2>2, <2>3
<1>27. Traced' /\ GapsGrow' /\ TornLast' /\ LeftKnown' /\ Repacked' /\ EndsOnce' /\ NotCounted'
  BY <1>9, TracedSame, GapsSame, TornSame, LeftSame, RepackedSame, EndsSame, CountedSame DEF LogInv
<1>28. QED
  BY <1>22, <1>24, <1>25, <1>26, <1>27 DEF LogInv

LEMMA SkipDayStep ==
    ASSUME LogInv, NEW d \in Log!Days, Log!SkipDay(d)
    PROVE  LogInv'
<1>1. PICK x : x = exporting
  OBVIOUS
<1>2. /\ x # None /\ x.next = d /\ file[d] = None /\ exporting' = [x EXCEPT !.next = d + 1]
      /\ UNCHANGED <<today, op, day, queue, dropped, at, mem, shared, opened, pending, prepared, packing, snap, file,
                     cursor, got, shown, exports, limits, crashes, failures>>
  BY <1>1 DEF Log!SkipDay, Log!gaps, Log!requests, Log!channel, Log!writer, Log!disk, Log!trouble
<1>3. LogTypes
  BY DEF LogInv
<1>4. d \in Nat \ {0}
  BY JournalAssumption DEF Log!Days
<1>5. /\ exporting' \in Exports /\ exporting'.next = d + 1
      /\ exporting'.due = x.due /\ exporting'.active = x.active /\ exporting'.gaps = x.gaps
  <2>1. x \in Exports
    BY <1>1, <1>2, <1>3 DEF LogTypes
  <2>2. QED
    BY <1>2, <1>4, <2>1 DEF Exports
<1>6. LogTypes'
  BY <1>2, <1>3, <1>5 DEF LogTypes
<1>7. Owed'
  <2>1. SUFFICES ASSUME Log!Distinguished, x.gaps = 0, NEW o \in x.due \ x.active
                 PROVE  \E e \in Log!Days : o \in On(e) /\ (e < d + 1 => o \in Log!Named(got[e]))
    <3>1. \A e : On(e)' = On(e)
      BY <1>2, DaySame
    <3>2. Log!Distinguished =>
            \A o \in shown : o \in snap.active \/ (\E e \in Log!Days : o \in On(e)) \/ snap.gaps > 0
      BY DEF LogInv, Owed
    <3>3. ASSUME Log!Distinguished, exporting'.gaps = 0
          PROVE  \A o \in exporting'.due \ exporting'.active : \E e \in Log!Days :
                   o \in On(e)' /\ (e < exporting'.next => o \in Log!Named(got'[e]))
      BY <1>2, <1>5, <2>1, <3>1, <3>3
    <3>4. limits' = limits /\ shown' = shown /\ snap' = snap
      BY <1>2
    <3>5. QED
      BY <3>1, <3>2, <3>3, <3>4 DEF Owed, Log!Distinguished, Log!Undone, Log!NeverRolledUp
  <2>2. PICK e \in Log!Days : o \in On(e) /\ (e < d => o \in Log!Named(got[e]))
    BY <1>1, <1>2, <2>1 DEF LogInv, Owed
  <2>3. e # d
    <3>1. On(d) = {}
      BY <1>2, NoFrames DEF On, Log!Journaled
    <3>2. QED
      BY <2>2, <3>1
  <2>4. e < d + 1 => e < d
    BY <1>4, <2>3 DEF Log!Days
  <2>5. QED
    BY <2>2, <2>4
<1>8. Traced' /\ GapsGrow' /\ TornLast' /\ LeftKnown' /\ Repacked'
  BY <1>2, TracedSame, GapsSame, TornSame, LeftSame, RepackedSame DEF LogInv
<1>9. EndsOnce' /\ NotCounted' /\ Generations' /\ Log!CursorTrue'
  BY <1>2, EndsSame, CountedSame, GenerationsSame, CursorSame DEF LogInv
<1>10. QED
  BY <1>6, <1>7, <1>8, <1>9 DEF LogInv

LEMMA ExportEndStep ==
    ASSUME LogInv, Log!ExportEnd
    PROVE  LogInv'
<1>1. /\ exporting' = None
      /\ UNCHANGED <<today, op, day, queue, dropped, at, mem, shared, opened, pending, prepared, packing, snap, file,
                     cursor, got, shown, exports, limits, crashes, failures>>
  BY DEF Log!ExportEnd, Log!gaps, Log!requests, Log!channel, Log!writer, Log!disk, Log!trouble
<1>2. LogTypes'
  BY <1>1 DEF LogInv, LogTypes
<1>3. Owed'
  <2>1. \A e : On(e)' = On(e)
    BY <1>1, DaySame
  <2>2. QED
    BY <1>1, <2>1 DEF LogInv, Owed, Log!Distinguished, Log!Undone, Log!NeverRolledUp
<1>4. Traced' /\ GapsGrow' /\ TornLast' /\ LeftKnown' /\ Repacked'
  BY <1>1, TracedSame, GapsSame, TornSame, LeftSame, RepackedSame DEF LogInv
<1>5. EndsOnce' /\ NotCounted' /\ Generations' /\ Log!CursorTrue'
  BY <1>1, EndsSame, CountedSame, GenerationsSame, CursorSame DEF LogInv
<1>6. QED
  BY <1>2, <1>3, <1>4, <1>5 DEF LogInv

LEMMA LogStutter ==
    ASSUME LogInv, UNCHANGED journalVars
    PROVE  LogInv'
<1>1. UNCHANGED <<today, op, day, queue, dropped, at, mem, shared, opened, pending, prepared, packing, snap, file,
                  cursor, got, exporting, shown, exports, limits, crashes, failures>>
  BY DEF journalVars
<1>2. LogTypes'
  BY <1>1 DEF LogInv, LogTypes
<1>3. Traced' /\ GapsGrow' /\ TornLast' /\ LeftKnown' /\ Repacked'
  BY <1>1, TracedSame, GapsSame, TornSame, LeftSame, RepackedSame DEF LogInv
<1>4. EndsOnce' /\ NotCounted' /\ Generations' /\ Log!CursorTrue' /\ Owed'
  BY <1>1, EndsSame, CountedSame, GenerationsSame, CursorSame, OwedSame DEF LogInv
<1>5. QED
  BY <1>2, <1>3, <1>4 DEF LogInv

LEMMA LogNext ==
    ASSUME LogInv, [Log!Next]_(Log!vars)
    PROVE  LogInv'
<1>1. CASE Log!Next
  BY <1>1, MidnightStep, OpenStep, AcceptStep, CountStep, FlushStep, SnapshotStep,
     SnapshotFailsStep, PackFrameStep,
     PackEndStep, CrashStep, StartStep, FinishStep, AppendDayStep, PackStep, ExportDayStep,
     SkipDayStep, ExportStep, ExportEndStep DEF Log!Next
<1>2. CASE UNCHANGED Log!vars
  BY <1>2, LogStutter DEF Log!vars, Log!requests, Log!channel, Log!gaps, Log!writer, Log!disk,
     Log!reader, Log!trouble, journalVars
<1>3. QED
  BY <1>1, <1>2

-----------------------------------------------------------------------------
(* What the journal promises                                               *)

LEMMA LogInvTrue ==
    ASSUME LogInv
    PROVE  Log!NoneStranded /\ Log!RecordedOnce /\ Log!CursorTrue /\ Log!WholeExport
<1>1. Log!NoneStranded
  <2>1. \A d \in Log!Days : file[d] = None => ~Log!Stranded(d)
    BY DEF Log!Stranded
  <2>2. QED
    BY <2>1 DEF LogInv, TornLast, Log!NoneStranded
<1>2. Log!RecordedOnce
  BY DEF LogInv, EndsOnce, Log!RecordedOnce
<1>3. Log!WholeExport
  <2>1. SUFFICES ASSUME Log!Distinguished, exporting # None, exporting.next \notin Log!Days,
                        exporting.gaps = 0, NEW o \in exporting.due \ exporting.active
                 PROVE  \E d \in Log!Days : o \in Log!Named(got[d])
    BY DEF Log!WholeExport
  <2>2. exporting.next \in Nat \ {0} /\ MaxDays \in Nat
    BY <2>1, JournalAssumption DEF LogInv, LogTypes, Exports
  <2>3. \A d \in Log!Days : d < exporting.next
    BY <2>1, <2>2 DEF Log!Days
  <2>4. QED
    BY <2>1, <2>3 DEF LogInv, Owed
<1>4. QED
  BY <1>1, <1>2, <1>3 DEF LogInv

\* Only the snapshot replaces the one there is.
LEMMA SnapKept == Log!Next => Log!Snapshot \/ snap' = snap
<1>1. /\ Log!Midnight => snap' = snap
      /\ Log!Open => snap' = snap
      /\ Log!Accept => snap' = snap
      /\ Log!Count => snap' = snap
      /\ Log!Flush => snap' = snap
      /\ Log!SnapshotFails => snap' = snap
  BY DEF Log!Midnight, Log!Open, Log!Accept, Log!Count, Log!Flush, Log!SnapshotFails, Log!disk
<1>2. /\ Log!PackFrame => snap' = snap
      /\ Log!PackEnd => snap' = snap
      /\ Log!Crash => snap' = snap
      /\ Log!Export => snap' = snap
      /\ Log!ExportEnd => snap' = snap
  BY DEF Log!PackFrame, Log!PackEnd, Log!Crash, Log!Export, Log!ExportEnd, Log!disk
<1>3. \A o \in Ops : Log!Start(o) \/ Log!Finish(o) => snap' = snap
  BY DEF Log!Start, Log!Finish, Log!disk
<1>4. \A d \in Log!Days : Log!AppendDay(d) \/ Log!Pack(d) \/ Log!ExportDay(d) \/ Log!SkipDay(d) => snap' = snap
  BY DEF Log!AppendDay, Log!Pack, Log!ExportDay, Log!SkipDay, Log!disk
<1>5. QED
  BY <1>1, <1>2, <1>3, <1>4 DEF Log!Next

LEMMA LogAccounted ==
    ASSUME LogInv, [Log!Next]_(Log!vars)
    PROVE  Log!Accounted
<1>1. CASE snap' = snap
  BY <1>1 DEF Log!Accounted
<1>2. CASE Log!Snapshot
  <2>1. SUFFICES ASSUME Log!Undone, NEW o \in snap.active \ snap'.active
                 PROVE  \/ o \in Log!Named(Log!Journaled(day[o])')
                        \/ snap'.gaps > opened
    BY DEF Log!Accounted
  <2>2. at # "down" /\ pending = Log!NoEvents /\ UNCHANGED <<file, day>>
    BY <1>2 DEF Log!Snapshot, Log!Flushing, Log!Appended, Log!requests
  <2>3. snap' = mem
    BY <1>2 DEF Log!Snapshot
  <2>4. \A d \in Log!Days : Ended(pending[d]) = {}
    BY <2>2, NoneEnded DEF Log!NoEvents
  <2>5. \/ \E d \in Log!Days : o \in On(d)
        \/ mem.gaps > opened
    BY <2>1, <2>2, <2>3, <2>4 DEF LogInv, LeftKnown
  <2>6. \A d \in Log!Days : o \in On(d) => o \in On(day[o])
    BY DEF LogInv, Traced
  <2>7. Log!Named(Log!Journaled(day[o])') = On(day[o])
    BY <2>2 DEF On, Log!Journaled
  <2>8. QED
    BY <2>3, <2>5, <2>6, <2>7
<1>3. QED
  BY <1>1, <1>2, SnapKept DEF Log!vars, Log!disk

\* Only appends, the end of a repacking and a crash write to a day.
LEMMA FilesKept ==
    Log!Next => \/ file' = file \/ Log!PackEnd \/ Log!Crash \/ \E d \in Log!Days : Log!AppendDay(d)
<1>1. /\ Log!Midnight => file' = file
      /\ Log!Open => file' = file
      /\ Log!Accept => file' = file
      /\ Log!Count => file' = file
      /\ Log!Flush => file' = file
  BY DEF Log!Midnight, Log!Open, Log!Accept, Log!Count, Log!Flush, Log!disk
<1>2. /\ Log!PackFrame => file' = file
      /\ Log!Snapshot => file' = file
      /\ Log!SnapshotFails => file' = file
      /\ Log!Export => file' = file
      /\ Log!ExportEnd => file' = file
  BY DEF Log!PackFrame, Log!Snapshot, Log!SnapshotFails, Log!Export, Log!ExportEnd, Log!disk
<1>3. \A o \in Ops : Log!Start(o) \/ Log!Finish(o) => file' = file
  BY DEF Log!Start, Log!Finish, Log!disk
<1>4. \A d \in Log!Days : Log!Pack(d) \/ Log!ExportDay(d) \/ Log!SkipDay(d) => file' = file
  BY DEF Log!Pack, Log!ExportDay, Log!SkipDay, Log!disk
<1>5. QED
  BY <1>1, <1>2, <1>3, <1>4 DEF Log!Next

LEMMA LogKeepsEvents ==
    ASSUME LogInv, [Log!Next]_(Log!vars)
    PROVE  Log!KeepsEvents
<1>1. SUFFICES \A e \in Log!Days : On(e) \subseteq On(e)'
  BY DEF Log!KeepsEvents, On
<1>2. CASE file' = file
  BY <1>2, DaySame
<1>3. CASE Log!PackEnd
  BY <1>3, PackEndStep
<1>4. ASSUME NEW d \in Log!Days, NEW added,
             added \in {<<>>, <<Log!Torn>>, <<Log!Frame(pending[d])>>}, UNCHANGED limits,
             file' = [file EXCEPT ![d] = Log!Written(d, added)]
      PROVE  \A e \in Log!Days : On(e) \subseteq On(e)'
  <2>1. PICK events : events = pending[d]
    OBVIOUS
  <2>2. events \in Seq(Log!Happened) /\ added \in {<<>>, <<Log!Torn>>, <<Log!Frame(events)>>}
    BY <1>4, <2>1 DEF LogInv, LogTypes
  <2>3. QED
    BY <1>4, <2>1, <2>2, WrittenStep
<1>5. CASE Log!Crash
  <2>1. /\ limits' = limits
        /\ \/ file' = file
           \/ \E d \in Log!Days : file' = [file EXCEPT ![d] = Log!Written(d, <<Log!Torn>>)]
    BY <1>5 DEF Log!Crash
  <2>2. PICK torn : torn = <<Log!Torn>>
    OBVIOUS
  <2>3. QED
    BY <1>2, <1>4, <2>1, <2>2
<1>6. ASSUME NEW d \in Log!Days, Log!AppendDay(d) PROVE \A e \in Log!Days : On(e) \subseteq On(e)'
  <2>1. /\ limits' = limits
        /\ \/ file' = file
           \/ \E added \in {<<>>, <<Log!Torn>>, <<Log!Frame(pending[d])>>} :
                file' = [file EXCEPT ![d] = Log!Written(d, added)]
    <3>1. limits' = limits
      BY <1>6 DEF Log!AppendDay
    <3>2. \/ file' = file
          \/ file' = [file EXCEPT ![d] = Log!Written(d, <<>>)]
          \/ file' = [file EXCEPT ![d] = Log!Written(d, <<Log!Torn>>)]
          \/ file' = [file EXCEPT ![d] = Log!Written(d, <<Log!Frame(pending[d])>>)]
      BY <1>6 DEF Log!AppendDay
    <3>3. QED
      BY <3>1, <3>2
  <2>2. QED
    BY <1>2, <1>4, <2>1
<1>7. QED
  BY <1>2, <1>3, <1>5, <1>6, FilesKept DEF Log!vars, Log!disk

\* The inductive invariant of the journal: the operations are those that have
\* started and ended, a torn frame is the last of its day, and an operation that
\* left the snapshot is in a frame, about to be, or the gaps have grown since the
\* journal was opened.
THEOREM LogInvariant == Log!Spec => []LogInv
<1>1. Log!Init => LogInv
  BY LogInit
<1>2. LogInv /\ [Log!Next]_(Log!vars) => LogInv'
  BY LogNext
<1>3. QED
  BY <1>1, <1>2, PTL DEF Log!Spec

\* The journal of operations: through crashes of the process, failed writes,
\* messages that were not queued and days that are repacked while they are
\* written to, an operation is recorded once, none is forgotten but where the
\* gaps have grown since the journal was opened,
\* and an export that resumes has what it skips.
THEOREM JournalCorrect == Log!Spec => JournalTrue
<1>1. LogInv => Log!NoneStranded /\ Log!RecordedOnce /\ Log!CursorTrue /\ Log!WholeExport
  BY LogInvTrue
<1>2. LogInv /\ [Log!Next]_(Log!vars) => [Log!Accounted]_(Log!vars)
  BY LogAccounted
<1>3. LogInv /\ [Log!Next]_(Log!vars) => [Log!KeepsEvents]_(Log!vars)
  BY LogKeepsEvents
<1>4. Log!Spec => [](Log!NoneStranded /\ Log!RecordedOnce /\ Log!CursorTrue /\ Log!WholeExport)
  BY LogInvariant, <1>1, PTL
<1>5. Log!Spec => [][Log!Accounted]_(Log!vars)
  BY LogInvariant, <1>2, PTL DEF Log!Spec
<1>6. Log!Spec => [][Log!KeepsEvents]_(Log!vars)
  BY LogInvariant, <1>3, PTL DEF Log!Spec
<1>7. QED
  BY <1>4, <1>5, <1>6, PTL DEF JournalTrue, Log!NeverForgotten, Log!PackingKeeps
==============================================================================
