------------------------- MODULE AnalysisStoreProofs -------------------------
(***************************************************************************)
(* Proof of StoreTrue, for any workspaces, files, objects, inputs and      *)
(* readers.                                                                *)
(*                                                                         *)
(* A namespace is written by the workspace it is registered for, or, once  *)
(* it is retired, by its deletion (SpacesOK, HandleOK).  An installation   *)
(* moves one binding and keeps what is counted, listed and posted in step  *)
(* with it: this is the same argument for pruning, where a binding ends,   *)
(* and for deletion, where those of one object end together.  What a       *)
(* reader holds is pinned (PinsOK), so collection finds it in use.         *)
(***************************************************************************)
EXTENDS AnalysisStore, TLAPS, FiniteSetTheorems

\* Every namespace has one workspace, which is live or retired.
SpacesOK ==
  /\ \A w \in Workspaces : spaces[w] # None =>
       /\ spaces[w].id < next.id /\ retired[spaces[w].id] = None
       /\ \A v \in Workspaces : spaces[v] # None /\ spaces[v].id = spaces[w].id => v = w
  /\ \A i \in Ids : retired[i] # None => i < next.id

\* Who installs bindings has made its namespace dirty.
HandleOK ==
  \A w \in Workspaces : At(w, "install") /\ Writable(w) => spaces[w].phase = "dirty"

\* An object has a time in the index exactly if it has no bindings.
TimesOK ==
  \A o \in Live : (live[o].unused = None) <=> (live[o].bindings # 0)

OrdinalsOK == \A o \in Live : live[o].ordinal < next.ordinal

\* A pin for every reader that holds the object.
Holding(o) == {r \in Readers : view[r] # None /\ o \in Held(view[r])}
PinsOK == \A o \in Objects : pins[o] = Cardinality(Holding(o))

\* The inductive invariant.
IInv == StoreTrue /\ SpacesOK /\ HandleOK /\ TimesOK /\ OrdinalsOK /\ PinsOK

-----------------------------------------------------------------------------
(* Counted objects.                                                        *)

Lives == [Objects -> Stored \union {None}]
\* The index that belongs to stored objects
Listing(l) == {<<o, l[o].unused>> : o \in {x \in Objects : l[x] # None /\ l[x].bindings = 0}}
\* What enters it when n bindings of an object end
Entered(l, o, n, at) == IF l[o].bindings = n THEN {<<o, at>>} ELSE {}
Timed(l) == \A o \in Objects : l[o] # None => ((l[o].unused = None) <=> (l[o].bindings # 0))

\* The record of an object that gets a binding, and of one that loses n
One(x) == [ordinal |-> x.ordinal, bindings |-> x.bindings + 1, unused |-> None]
Less(x, n, at) == [ordinal |-> x.ordinal, bindings |-> x.bindings - n,
                   unused |-> IF x.bindings = n THEN at ELSE x.unused]

LEMMA BoundOthers ==
    ASSUME NEW l \in Lives, NEW u, NEW o \in Objects, NEW p \in Objects, p # o
    PROVE  Bound(l, u, o).live[p] = l[p]
BY DEF Bound, Lives

LEMMA ReleasedOthers ==
    ASSUME NEW l \in Lives, NEW u, NEW o \in Objects, NEW n, NEW at,
           NEW p \in Objects, p # o
    PROVE  Released(l, u, o, n, at).live[p] = l[p]
BY DEF Released, Lives

LEMMA BoundIs ==
    ASSUME NEW l \in Lives, NEW u, NEW o \in Objects, l[o] # None
    PROVE  /\ Bound(l, u, o).live \in Lives
           /\ Bound(l, u, o).live[o] = One(l[o]) /\ One(l[o]) \in Stored
<1> DEFINE n == l[o].bindings + 1
           m == [l EXCEPT ![o].bindings = n, ![o].unused = None]
<1>1. l[o] \in Stored
  BY DEF Lives
<1>2. n \in Nat
  BY <1>1 DEF Stored
<1>3. Bound(l, u, o).live = m
  BY DEF Bound, Lives
<1>4. One(l[o]) = [ordinal |-> l[o].ordinal, bindings |-> n, unused |-> None]
  BY DEF One
<1> HIDE DEF n
<1>5. m[o] = [ordinal |-> l[o].ordinal, bindings |-> n, unused |-> None]
  BY <1>1 DEF Lives, Stored
<1>6. \A p \in Objects : p # o => m[p] = l[p]
  BY DEF Lives
<1>7. m[o] \in Stored
  BY <1>1, <1>2, <1>5 DEF Stored
<1>8. DOMAIN m = Objects /\ m = [p \in Objects |-> m[p]]
  BY DEF Lives
<1> HIDE DEF m
<1>9. m \in Lives
  BY <1>6, <1>7, <1>8 DEF Lives
<1> QED
  BY <1>3, <1>4, <1>5, <1>7, <1>9

LEMMA BoundIndex ==
    ASSUME NEW l, NEW u, NEW o
    PROVE  Bound(l, u, o).unused = u \ Unlisted(l, o)
BY DEF Bound

LEMMA ReleasedIs ==
    ASSUME NEW l \in Lives, NEW u, NEW o \in Objects, l[o] # None,
           NEW n \in Nat, n <= l[o].bindings, NEW at \in Times
    PROVE  /\ Released(l, u, o, n, at).live \in Lives
           /\ Released(l, u, o, n, at).live[o] = Less(l[o], n, at)
           /\ Less(l[o], n, at) \in Stored
<1> DEFINE left == l[o].bindings - n
           t == IF l[o].bindings = n THEN at ELSE l[o].unused
           m == [l EXCEPT ![o].bindings = left, ![o].unused = t]
<1>1. l[o] \in Stored
  BY DEF Lives
<1>2. left \in Nat /\ (left = 0 <=> l[o].bindings = n)
  BY <1>1 DEF Stored
<1>3. t \in Times \union {None}
  BY <1>1 DEF Stored
<1>4. Released(l, u, o, n, at).live = [l EXCEPT ![o].bindings = left,
        ![o].unused = IF left = 0 THEN at ELSE l[o].unused]
  BY DEF Released, Lives
<1>5. Released(l, u, o, n, at).live = m
  BY <1>2, <1>4
<1>7. Less(l[o], n, at) = [ordinal |-> l[o].ordinal, bindings |-> left, unused |-> t]
  BY DEF Less
<1> HIDE DEF left, t
<1>8. m[o] = [ordinal |-> l[o].ordinal, bindings |-> left, unused |-> t]
  BY <1>1 DEF Lives, Stored
<1>9. \A p \in Objects : p # o => m[p] = l[p]
  BY DEF Lives
<1>10. m[o] \in Stored
  BY <1>1, <1>2, <1>3, <1>8 DEF Stored
<1>11. DOMAIN m = Objects /\ m = [p \in Objects |-> m[p]]
  BY DEF Lives
<1> HIDE DEF m
<1>12. m \in Lives
  BY <1>9, <1>10, <1>11 DEF Lives
<1> QED
  BY <1>5, <1>7, <1>8, <1>10, <1>12

LEMMA ReleasedIndex ==
    ASSUME NEW l \in Lives, NEW u, NEW o \in Objects, l[o] # None,
           NEW n \in Nat, NEW at
    PROVE  Released(l, u, o, n, at).unused = u \union Entered(l, o, n, at)
<1>1. l[o].bindings \in Nat
  BY DEF Lives, Stored
<1>2. l[o].bindings - n = 0 <=> l[o].bindings = n
  BY <1>1
<1> QED
  BY <1>2 DEF Released, Entered

\* An object that is bound leaves the index.
LEMMA BoundListing ==
    ASSUME NEW l \in Lives, NEW u, NEW o \in Objects, l[o] # None, Timed(l)
    PROVE  /\ Listing(Bound(l, u, o).live) = Listing(l) \ Unlisted(l, o)
           /\ Timed(Bound(l, u, o).live)
<1> DEFINE m == Bound(l, u, o).live
<1>1. m[o] = One(l[o]) /\ One(l[o]) \in Stored
  BY BoundIs
<1>2. \A p \in Objects : p # o => m[p] = l[p]
  BY BoundOthers
<1> HIDE DEF m
<1>3. l[o] \in Stored /\ l[o].bindings \in Nat
  BY DEF Lives, Stored
<1>4. m[o].bindings # 0 /\ m[o].unused = None
  BY <1>1, <1>3 DEF One
<1>5. m[o] # None
  BY <1>1, NoneAssumption
<1>6. Timed(m)
  BY <1>2, <1>4 DEF Timed
<1>7. ASSUME NEW e \in Listing(m) PROVE e \in Listing(l) \ Unlisted(l, o)
  <2>1. PICK p \in Objects : m[p] # None /\ m[p].bindings = 0 /\ e = <<p, m[p].unused>>
    BY <1>7 DEF Listing
  <2>2. p # o /\ m[p] = l[p]
    BY <1>2, <1>4, <2>1
  <2>3. e \in Listing(l)
    BY <2>1, <2>2 DEF Listing
  <2> QED
    BY <2>1, <2>2, <2>3 DEF Unlisted
<1>8. ASSUME NEW e \in Listing(l), e \notin Unlisted(l, o) PROVE e \in Listing(m)
  <2>1. PICK p \in Objects : l[p] # None /\ l[p].bindings = 0 /\ e = <<p, l[p].unused>>
    BY <1>8 DEF Listing
  <2>2. p # o
    BY <1>8, <2>1 DEF Unlisted, Timed
  <2> QED
    BY <1>2, <2>1, <2>2 DEF Listing
<1> QED
  BY <1>6, <1>7, <1>8 DEF m

\* One whose last binding ends enters it.
LEMMA ReleasedListing ==
    ASSUME NEW l \in Lives, NEW u, NEW o \in Objects, l[o] # None, Timed(l),
           NEW n \in Nat, 0 < n, n <= l[o].bindings, NEW at \in Times
    PROVE  /\ Listing(Released(l, u, o, n, at).live) = Listing(l) \union Entered(l, o, n, at)
           /\ Timed(Released(l, u, o, n, at).live)
<1> DEFINE m == Released(l, u, o, n, at).live
<1>1. m[o] = Less(l[o], n, at) /\ Less(l[o], n, at) \in Stored
  BY ReleasedIs
<1>2. \A p \in Objects : p # o => m[p] = l[p]
  BY ReleasedOthers
<1> HIDE DEF m
<1> DEFINE t == IF l[o].bindings = n THEN at ELSE l[o].unused
<1>3. l[o] \in Stored /\ l[o].bindings \in Nat /\ l[o].bindings # 0
  BY DEF Lives, Stored
<1>4. m[o].unused = t /\ (m[o].bindings = 0 <=> l[o].bindings = n)
  BY <1>1, <1>3 DEF Less
<1>5. m[o] # None
  BY <1>1, NoneAssumption
<1>6. t = None <=> l[o].bindings # n
  BY <1>3, NoneAssumption DEF Timed
<1> HIDE DEF t
<1>7. Timed(m)
  BY <1>2, <1>4, <1>6 DEF Timed
<1>8. ASSUME NEW e \in Listing(m)
      PROVE  e \in Listing(l) \union Entered(l, o, n, at)
  <2>1. PICK p \in Objects : m[p] # None /\ m[p].bindings = 0 /\ e = <<p, m[p].unused>>
    BY <1>8 DEF Listing
  <2>2. CASE p = o
    BY <1>4, <2>1, <2>2 DEF t, Entered
  <2>3. CASE p # o
    BY <1>2, <2>1, <2>3 DEF Listing
  <2> QED
    BY <2>2, <2>3
<1>9. ASSUME NEW e \in Listing(l) PROVE e \in Listing(m)
  <2>1. PICK p \in Objects : l[p] # None /\ l[p].bindings = 0 /\ e = <<p, l[p].unused>>
    BY <1>9 DEF Listing
  <2>2. p # o
    BY <1>3, <2>1
  <2> QED
    BY <1>2, <2>1, <2>2 DEF Listing
<1>10. Entered(l, o, n, at) \subseteq Listing(m)
  BY <1>4, <1>5 DEF Listing, t, Entered
<1> QED
  BY <1>7, <1>8, <1>9, <1>10 DEF m

-----------------------------------------------------------------------------
(* Counted bindings.                                                       *)

\* The bindings to an object in a table of each namespace
Uses(bs, o) ==
  {b \in Ids \X Files : bs[b[1]][b[2]] # None /\ bs[b[1]][b[2]].object = o}
CountsOf(l, bs) ==
  \A o \in Objects : Cardinality(Uses(bs, o)) = IF l[o] = None THEN 0 ELSE l[o].bindings
\* The same objects are stored, under the same ordinals.
SameObjects(l, m) ==
  \A p \in Objects : /\ m[p] = None <=> l[p] = None
                     /\ l[p] # None => m[p].ordinal = l[p].ordinal

\* Objects with the bindings that they count
Counted(l, bs) == l \in Lives /\ Timed(l) /\ CountsOf(l, bs)
\* An index that lists them, except perhaps an object that is about to be bound
Indexed(l, u, o) == Listing(l) \ Unlisted(l, o) \subseteq u /\ u \subseteq Listing(l)
\* The bindings of a set end; a binding is placed.
Ended(bs, bt, S) ==
  \A b \in Ids \X Files : bt[b[1]][b[2]] = IF b \in S THEN None ELSE bs[b[1]][b[2]]
Placed(bs, bt, x, o) ==
  /\ bt[x[1]][x[2]] # None /\ bt[x[1]][x[2]].object = o
  /\ \A b \in Ids \X Files : b # x => bt[b[1]][b[2]] = bs[b[1]][b[2]]

LEMMA UsesFinite ==
    ASSUME NEW bs, NEW o
    PROVE  IsFiniteSet(Uses(bs, o)) /\ Cardinality(Uses(bs, o)) \in Nat
<1>1. IsFiniteSet(Ids)
  BY BoundAssumption, FS_Interval DEF Ids
<1>2. IsFiniteSet(Ids \X Files)
  BY <1>1, FiniteAssumption, FS_Product
<1>3. Uses(bs, o) \in SUBSET (Ids \X Files)
  BY DEF Uses
<1>4. IsFiniteSet(Uses(bs, o))
  BY <1>2, <1>3, FS_Subset
<1> QED
  BY <1>4, FS_CardinalityType

\* A set of bindings to one object ends.
LEMMA UsesEnd ==
    ASSUME NEW bs, NEW bt, NEW o \in Objects, NEW S \in SUBSET Uses(bs, o),
           Ended(bs, bt, S)
    PROVE  /\ Cardinality(Uses(bt, o)) = Cardinality(Uses(bs, o)) - Cardinality(S)
           /\ \A p \in Objects : p # o => Uses(bt, p) = Uses(bs, p)
           /\ IsFiniteSet(S) /\ Cardinality(S) \in Nat
           /\ Cardinality(S) <= Cardinality(Uses(bs, o))
<1>1. Uses(bt, o) = Uses(bs, o) \ S
  BY DEF Uses, Ended
<1>2. ASSUME NEW p \in Objects, p # o PROVE Uses(bt, p) = Uses(bs, p)
  BY <1>2 DEF Uses, Ended
<1>3. IsFiniteSet(S) /\ Cardinality(S) <= Cardinality(Uses(bs, o))
  BY UsesFinite, FS_Subset
<1>4. Uses(bs, o) \cap S = S
  OBVIOUS
<1>5. Cardinality(Uses(bs, o) \ S) = Cardinality(Uses(bs, o)) - Cardinality(Uses(bs, o) \cap S)
  BY UsesFinite, FS_Difference
<1>6. Cardinality(S) \in Nat
  BY <1>3, FS_CardinalityType
<1>7. Cardinality(Uses(bt, o)) = Cardinality(Uses(bs, o)) - Cardinality(S)
  BY <1>1, <1>4, <1>5
<1> QED
  BY <1>2, <1>3, <1>6, <1>7

LEMMA ReleasedData ==
    ASSUME NEW l, NEW u, NEW o \in Objects, NEW at \in Times,
           NEW bs, NEW bt, Counted(l, bs),
           NEW S \in SUBSET Uses(bs, o), S # {}, Ended(bs, bt, S),
           NEW r, r = Released(l, u, o, Cardinality(S), at)
    PROVE  /\ Counted(r.live, bt) /\ SameObjects(l, r.live)
           /\ u = Listing(l) => r.unused = Listing(r.live)
           /\ \A p \in Objects : p # o /\ Indexed(l, u, p) => Indexed(r.live, r.unused, p)
<1> DEFINE n == Cardinality(S)
           m == r.live
<1>0. l \in Lives /\ Timed(l) /\ CountsOf(l, bs)
  BY DEF Counted
<1>1. /\ Cardinality(Uses(bt, o)) = Cardinality(Uses(bs, o)) - n
      /\ \A p \in Objects : p # o => Uses(bt, p) = Uses(bs, p)
      /\ IsFiniteSet(S) /\ n \in Nat /\ n <= Cardinality(Uses(bs, o))
  <2>1. Cardinality(Uses(bt, o)) = Cardinality(Uses(bs, o)) - Cardinality(S)
    BY UsesEnd
  <2>2. \A p \in Objects : p # o => Uses(bt, p) = Uses(bs, p)
    BY UsesEnd
  <2>3. IsFiniteSet(S) /\ Cardinality(S) \in Nat /\ Cardinality(S) <= Cardinality(Uses(bs, o))
    BY UsesEnd
  <2> QED
    BY <2>1, <2>2, <2>3
<1>2. 0 < n
  BY <1>1, FS_EmptySet
<1>3a. m = Released(l, u, o, n, at).live /\ r.unused = Released(l, u, o, n, at).unused
  OBVIOUS
<1> HIDE DEF n, m
<1>3. l[o] # None /\ l[o].bindings = Cardinality(Uses(bs, o)) /\ l[o] \in Stored
  <2>1. Cardinality(Uses(bs, o)) \in Nat /\ Cardinality(Uses(bs, o)) # 0
    BY <1>1, <1>2, UsesFinite
  <2> QED
    BY <1>0, <2>1 DEF CountsOf, Lives
<1>4. n <= l[o].bindings
  BY <1>1, <1>3
<1>5. m \in Lives
  BY <1>0, <1>1, <1>3, <1>4, <1>3a, ReleasedIs
<1>6. m[o] = Less(l[o], n, at) /\ Less(l[o], n, at) \in Stored
  BY <1>0, <1>1, <1>3, <1>4, <1>3a, ReleasedIs
<1>7. Listing(m) = Listing(l) \union Entered(l, o, n, at)
  BY <1>0, <1>1, <1>2, <1>3, <1>4, <1>3a, ReleasedListing
<1>8. Timed(m)
  BY <1>0, <1>1, <1>2, <1>3, <1>4, <1>3a, ReleasedListing
<1>9. r.unused = u \union Entered(l, o, n, at)
  BY <1>0, <1>1, <1>3, <1>3a, ReleasedIndex
<1>10. \A p \in Objects : p # o => m[p] = l[p]
  BY <1>0, <1>3a, ReleasedOthers
<1>11. /\ m[o] # None /\ m[o].ordinal = l[o].ordinal
       /\ m[o].bindings = l[o].bindings - n
  BY <1>6, NoneAssumption DEF Less
<1>12. CountsOf(m, bt)
  <2> SUFFICES ASSUME NEW p \in Objects
               PROVE  Cardinality(Uses(bt, p)) = IF m[p] = None THEN 0 ELSE m[p].bindings
    BY DEF CountsOf
  <2>1. CASE p = o
    BY <1>1, <1>3, <1>11, <2>1
  <2>2. CASE p # o
    BY <1>0, <1>1, <1>10, <2>2 DEF CountsOf
  <2> QED
    BY <2>1, <2>2
<1>13. SameObjects(l, m)
  BY <1>3, <1>10, <1>11 DEF SameObjects
<1>14. u = Listing(l) => r.unused = Listing(m)
  BY <1>7, <1>9
<1>15. ASSUME NEW p \in Objects, p # o, Indexed(l, u, p) PROVE Indexed(m, r.unused, p)
  <2>1. Unlisted(m, p) = Unlisted(l, p)
    BY <1>10, <1>15 DEF Unlisted
  <2> QED
    BY <1>7, <1>9, <1>15, <2>1 DEF Indexed
<1> QED
  BY <1>5, <1>8, <1>12, <1>13, <1>14, <1>15 DEF Counted, m

LEMMA BoundData ==
    ASSUME NEW l, NEW u, NEW o \in Objects, l[o] # None,
           NEW bs, NEW bt, Counted(l, bs),
           NEW x \in Ids \X Files, bs[x[1]][x[2]] = None,
           Placed(bs, bt, x, o), Indexed(l, u, o),
           NEW m, m = Bound(l, u, o).live
    PROVE  Counted(m, bt) /\ SameObjects(l, m) /\ Bound(l, u, o).unused = Listing(m)
<1>0. l \in Lives /\ Timed(l) /\ CountsOf(l, bs)
  BY DEF Counted
<1>1. m \in Lives
  BY <1>0, BoundIs
<1>2. m[o] = One(l[o]) /\ One(l[o]) \in Stored
  BY <1>0, BoundIs
<1>3. \A p \in Objects : p # o => m[p] = l[p]
  BY <1>0, BoundOthers
<1>4. Listing(m) = Listing(l) \ Unlisted(l, o)
  BY <1>0, BoundListing
<1>5. Timed(m)
  BY <1>0, BoundListing
<1>6. Bound(l, u, o).unused = u \ Unlisted(l, o)
  BY BoundIndex
<1>7. Bound(l, u, o).unused = Listing(m)
  <2>1. u \ Unlisted(l, o) = Listing(l) \ Unlisted(l, o)
    BY DEF Indexed
  <2> QED
    BY <1>4, <1>6, <2>1
<1>8. /\ m[o] # None /\ m[o].ordinal = l[o].ordinal
      /\ m[o].bindings = l[o].bindings + 1
  BY <1>2, NoneAssumption DEF One
<1>9. Uses(bt, o) = Uses(bs, o) \union {x} /\ x \notin Uses(bs, o)
  BY DEF Uses, Placed
<1>10. \A p \in Objects : p # o => Uses(bt, p) = Uses(bs, p)
  BY DEF Uses, Placed
<1>11. Cardinality(Uses(bt, o)) = Cardinality(Uses(bs, o)) + 1
  BY <1>9, UsesFinite, FS_AddElement
<1>12. CountsOf(m, bt)
  <2> SUFFICES ASSUME NEW p \in Objects
               PROVE  Cardinality(Uses(bt, p)) = IF m[p] = None THEN 0 ELSE m[p].bindings
    BY DEF CountsOf
  <2>1. CASE p = o
    BY <1>0, <1>8, <1>11, <2>1 DEF CountsOf
  <2>2. CASE p # o
    BY <1>0, <1>3, <1>10, <2>2 DEF CountsOf
  <2> QED
    BY <2>1, <2>2
<1>13. SameObjects(l, m)
  BY <1>3, <1>8 DEF SameObjects
<1> QED
  BY <1>1, <1>5, <1>7, <1>12, <1>13 DEF Counted

\* A binding moves to an object, which may just have been stored.
LEMMA ReboundData ==
    ASSUME NEW l, NEW u, NEW o \in Objects, l[o] # None, NEW at \in Times,
           NEW bs, NEW bt, Counted(l, bs),
           NEW x \in Ids \X Files, NEW old, old = bs[x[1]][x[2]],
           old # None => old.object \in Objects,
           Placed(bs, bt, x, o), Indexed(l, u, o),
           NEW r, r = Rebound(l, u, old, o, at)
    PROVE  Counted(r.live, bt) /\ SameObjects(l, r.live) /\ r.unused = Listing(r.live)
<1>1. CASE old # None /\ old.object = o
  <2>1. r.live = l /\ r.unused = u
    BY <1>1 DEF Rebound
  <2>2. \A p \in Objects : Uses(bt, p) = Uses(bs, p)
    BY <1>1 DEF Uses, Placed
  <2>3. Counted(l, bt)
    BY <2>2 DEF CountsOf, Counted
  <2>4. x \in Uses(bs, o)
    BY <1>1 DEF Uses
  <2>5. Cardinality(Uses(bs, o)) # 0
    BY <2>4, UsesFinite, FS_EmptySet
  <2>6. l[o].unused = None
    BY <2>5 DEF CountsOf, Timed, Counted
  <2>7. Listing(l) = u
    BY <2>6 DEF Unlisted, Indexed
  <2>8. SameObjects(l, l)
    BY DEF SameObjects
  <2> QED
    BY <2>1, <2>3, <2>7, <2>8
<1>2. CASE old = None
  <2> DEFINE m == Bound(l, u, o).live
  <2>1. r = Bound(l, u, o) /\ r.live = m
    BY <1>2 DEF Rebound
  <2>2. bs[x[1]][x[2]] = None
    BY <1>2
  <2>3. Counted(m, bt) /\ SameObjects(l, m) /\ Bound(l, u, o).unused = Listing(m)
    BY <2>2, BoundData
  <2> QED
    BY <2>1, <2>3
<1>3. CASE old # None /\ old.object # o
  <2> DEFINE p == old.object
             S == {x}
             q == Released(l, u, p, Cardinality(S), at)
             c == [i \in Ids |-> [f \in Files |-> IF <<i, f>> = x THEN None ELSE bs[i][f]]]
  <2>1. r = Bound(q.live, q.unused, o)
    BY <1>3, FS_Singleton DEF Rebound
  <2>2. p \in Objects
    BY <1>3
  <2>3. S \in SUBSET Uses(bs, p) /\ S # {} /\ 1 = Cardinality(S)
    BY FS_Singleton, <1>3 DEF Uses
  <2>4. ASSUME NEW b \in Ids \X Files
        PROVE  c[b[1]][b[2]] = IF b \in S THEN None ELSE bs[b[1]][b[2]]
    <3>1. b[1] \in Ids /\ b[2] \in Files /\ b = <<b[1], b[2]>>
      OBVIOUS
    <3>2. c[b[1]][b[2]] = IF <<b[1], b[2]>> = x THEN None ELSE bs[b[1]][b[2]]
      BY <3>1
    <3> HIDE DEF c
    <3> QED
      BY <3>1, <3>2
  <2>5. c[x[1]][x[2]] = None
    BY <2>4
  <2>6. Ended(bs, c, S)
    BY <2>4 DEF Ended
  <2>7. Placed(c, bt, x, o)
    BY <2>4 DEF Placed
  <2> HIDE DEF c, S, p
  <2>8. Counted(q.live, c) /\ SameObjects(l, q.live) /\ Indexed(q.live, q.unused, o)
    BY <1>3, <2>2, <2>3, <2>6, ReleasedData DEF p
  <2>9. q.live[o] = l[o]
    BY <1>3, <2>2, ReleasedOthers DEF p, Counted
  <2> HIDE DEF q
  <2>12. Counted(r.live, bt) /\ SameObjects(q.live, r.live) /\ r.unused = Listing(r.live)
    BY <2>1, <2>5, <2>7, <2>8, <2>9, BoundData
  <2>13. SameObjects(l, r.live)
    BY <2>8, <2>12 DEF SameObjects
  <2> QED
    BY <2>12, <2>13
<1> QED
  BY <1>1, <1>2, <1>3

-----------------------------------------------------------------------------
(* What the database counts.                                               *)

\* The invariant's statements about live, bindings and unused
Data == Counts /\ UnusedTrue /\ TimesOK

LEMMA DataIs ==
    /\ TypeOK => (Data <=> Counted(live, bindings) /\ unused = Listing(live))
    /\ TypeOK' => (Data' <=> Counted(live', bindings') /\ unused' = Listing(live'))
<1>1. ASSUME NEW o PROVE Users(o) = Uses(bindings, o) /\ Users(o)' = Uses(bindings', o)
  BY DEF Users, Uses, Bindings, Object
<1>2. Counts <=> CountsOf(live, bindings)
  BY <1>1 DEF Counts, CountsOf
<1>3. Counts' <=> CountsOf(live', bindings')
  BY <1>1 DEF Counts, CountsOf
<1>4. UnusedTrue <=> unused = Listing(live)
  <2>1. {<<o, live[o].unused>> : o \in {x \in Live : live[x].bindings = 0}} = Listing(live)
    BY DEF Listing, Live
  <2> QED
    BY <2>1 DEF UnusedTrue
<1>5. UnusedTrue' <=> unused' = Listing(live')
  <2>1. {<<o, live[o].unused>> : o \in {x \in Live : live[x].bindings = 0}}' = Listing(live')
    BY DEF Listing, Live
  <2> QED
    BY <2>1 DEF UnusedTrue
<1>6. TimesOK <=> Timed(live)
  BY DEF TimesOK, Timed, Live
<1>7. TimesOK' <=> Timed(live')
  BY DEF TimesOK, Timed, Live
<1>8. (TypeOK => live \in Lives) /\ (TypeOK' => live' \in Lives)
  BY DEF TypeOK, Lives
<1> QED
  BY <1>2, <1>3, <1>4, <1>5, <1>6, <1>7, <1>8 DEF Data, Counted

\* An object that is stored is not bound yet.
LEMMA StockedData ==
    ASSUME TypeOK, Data, NEW o \in Objects, NEW at \in Times,
           live[o] # None \/ next.ordinal <= MaxOrdinals,
           NEW l, l = Stocked(o, at)
    PROVE  /\ Counted(l, bindings) /\ Indexed(l, unused, o) /\ l[o] # None
           /\ \A p \in Objects : p # o => l[p] = live[p]
           /\ l[o].ordinal = IF live[o] = None THEN next.ordinal ELSE live[o].ordinal
<1>1. Counted(live, bindings) /\ unused = Listing(live) /\ live \in Lives
  BY DataIs DEF TypeOK, Lives
<1>2. CASE live[o] # None
  <2>1. l = live
    BY <1>2 DEF Stocked
  <2>2. Indexed(live, unused, o)
    BY <1>1 DEF Indexed
  <2> QED
    BY <1>1, <1>2, <2>1, <2>2
<1>3. CASE live[o] = None
  <2> DEFINE fresh == [ordinal |-> next.ordinal, bindings |-> 0, unused |-> at]
  <2>1. fresh \in Stored /\ fresh # None
    BY <1>3, NoneAssumption DEF Stored, TypeOK
  <2>2. l = [live EXCEPT ![o] = fresh]
    BY <1>3 DEF Stocked
  <2>3. l \in Lives /\ l[o] = fresh /\ \A p \in Objects : p # o => l[p] = live[p]
    BY <1>1, <2>1, <2>2 DEF Lives
  <2>4. Timed(l)
    BY <1>1, <2>3, NoneAssumption DEF Timed, Counted
  <2>5. CountsOf(l, bindings)
    <3> SUFFICES ASSUME NEW p \in Objects
                 PROVE  Cardinality(Uses(bindings, p)) = IF l[p] = None THEN 0 ELSE l[p].bindings
      BY DEF CountsOf
    <3>1. CASE p = o
      BY <1>1, <1>3, <2>1, <2>3, <3>1 DEF Counted, CountsOf
    <3>2. CASE p # o
      BY <1>1, <2>3, <3>2 DEF Counted, CountsOf
    <3> QED
      BY <3>1, <3>2
  <2>6. Listing(l) = Listing(live) \union {<<o, at>>}
    <3>1. ASSUME NEW e \in Listing(l) PROVE e \in Listing(live) \union {<<o, at>>}
      BY <2>3 DEF Listing
    <3>2. ASSUME NEW e \in Listing(live) PROVE e \in Listing(l)
      BY <1>3, <2>3 DEF Listing
    <3>3. <<o, at>> \in Listing(l)
      BY <2>1, <2>3 DEF Listing
    <3> QED
      BY <3>1, <3>2, <3>3
  <2>7. Unlisted(l, o) = {<<o, at>>}
    BY <2>3, NoneAssumption DEF Unlisted
  <2>8. Indexed(l, unused, o)
    BY <1>1, <2>6, <2>7 DEF Indexed
  <2> QED
    BY <1>3, <2>1, <2>3, <2>4, <2>5, <2>8 DEF Counted
<1> QED
  BY <1>2, <1>3

\* What a refresh, its job and a binding are
LEMMA RefreshIs ==
    ASSUME TypeOK, NEW w \in Workspaces, handle[w] # None
    PROVE  /\ handle[w] \in Refreshes /\ handle[w].id \in Ids /\ handle[w].keep \subseteq Files
           /\ handle[w].job # None => handle[w].job \in Jobs
BY DEF TypeOK, Refreshes

LEMMA JobIs ==
    ASSUME TypeOK, NEW w \in Workspaces, handle[w] # None, handle[w].job # None
    PROVE  /\ handle[w].job.file \in Files /\ handle[w].job.object \in Objects
           /\ handle[w].job.input \in Inputs \union {None}
           /\ handle[w].job.at \in Times
BY RefreshIs DEF Jobs

LEMMA TableIs ==
    ASSUME TypeOK, NEW i \in Ids, NEW f \in Files
    PROVE  /\ bindings[i] \in Tables /\ bindings[i][f] \in Binding \union {None}
           /\ bindings[i][f] # None => bindings[i][f].object \in Objects
BY DEF TypeOK, Tables, Binding

LEMMA InstallData ==
    ASSUME TypeOK, Data, NEW w \in Workspaces, Install(w)
    PROVE  /\ Counted(live', bindings') /\ unused' = Listing(live')
           /\ SameObjects(Stocked(handle[w].job.object, handle[w].job.at), live')
           /\ Placed(bindings, bindings', <<handle[w].id, handle[w].job.file>>,
                     handle[w].job.object)
<1> DEFINE h == handle[w]
           j == h.job
           o == j.object
           x == <<h.id, j.file>>
           old == bindings[h.id][j.file]
           l == Stocked(o, j.at)
           r == Rebound(l, unused, old, o, j.at)
<1>1. handle[w] # None /\ handle[w].job # None
  BY DEF Install, At
<1>2. /\ h.id \in Ids /\ j.file \in Files /\ o \in Objects /\ j.at \in Times
      /\ x \in Ids \X Files
  BY <1>1, RefreshIs, JobIs
<1>3. live[o] # None \/ next.ordinal <= MaxOrdinals
  BY DEF Install
<1>4. live' = r.live /\ unused' = r.unused
  BY DEF Install
<1>5. bindings' = [bindings EXCEPT ![h.id][j.file] = [object |-> o, revision |-> j.input]]
  BY DEF Install
<1>6. old # None => old.object \in Objects
  BY <1>2, TableIs
<1> HIDE DEF o, l, r, h, j
<1>7. /\ Counted(l, bindings) /\ Indexed(l, unused, o) /\ l[o] # None
  BY <1>2, <1>3, StockedData DEF l
<1>8. Placed(bindings, bindings', x, o)
  <2> DEFINE b == [object |-> o, revision |-> j.input]
  <2>1. b # None
    BY <1>2, JobIs, <1>1, NoneAssumption DEF h, j, Binding
  <2>2. b.object = o
    OBVIOUS
  <2>3. bindings' = [bindings EXCEPT ![h.id][j.file] = b]
    BY <1>5
  <2> HIDE DEF b
  <2>4. bindings'[h.id][j.file] = b
    BY <1>2, <2>3 DEF TypeOK, Tables
  <2>5. ASSUME NEW i \in Ids, NEW f \in Files, <<i, f>> # x
        PROVE  bindings'[i][f] = bindings[i][f]
    BY <1>2, <2>3, <2>5 DEF TypeOK, Tables
  <2> QED
    BY <2>1, <2>2, <2>4, <2>5 DEF Placed
<1>9. old = bindings[x[1]][x[2]]
  OBVIOUS
<1> HIDE DEF x, old
<1>10. Counted(r.live, bindings') /\ SameObjects(l, r.live) /\ r.unused = Listing(r.live)
  BY <1>2, <1>6, <1>7, <1>8, <1>9, ReboundData DEF r
<1> QED
  BY <1>4, <1>8, <1>10 DEF l, o, j, h, x

LEMMA InstallStored ==
    ASSUME TypeOK, Data, NEW w \in Workspaces, Install(w)
    PROVE  /\ handle[w].job.object \in Objects /\ live'[handle[w].job.object] # None
           /\ \A p \in Objects : live[p] # None => live'[p] # None
<1> DEFINE o == handle[w].job.object
           l == Stocked(o, handle[w].job.at)
<1>1. o \in Objects /\ handle[w].job.at \in Times /\ (live[o] # None \/ next.ordinal <= MaxOrdinals)
  BY JobIs DEF Install, At
<1>2. SameObjects(l, live')
  BY InstallData
<1>3. l[o] # None /\ \A p \in Objects : p # o => l[p] = live[p]
  BY <1>1, StockedData
<1> QED
  BY <1>1, <1>2, <1>3 DEF SameObjects

LEMMA PruneData ==
    ASSUME TypeOK, Data, NEW w \in Workspaces, NEW f \in Files, NEW at \in Times,
           NEW i \in Ids, bindings[i][f] # None,
           NEW r, r = Released(live, unused, bindings[i][f].object, 1, at),
           NEW bt, bt = [bindings EXCEPT ![i][f] = None]
    PROVE  Counted(r.live, bt) /\ r.unused = Listing(r.live) /\ SameObjects(live, r.live)
<1> DEFINE o == bindings[i][f].object
           S == {<<i, f>>}
<1>1. Counted(live, bindings) /\ unused = Listing(live)
  BY DataIs
<1>2. o \in Objects
  BY TableIs
<1>3. S \in SUBSET Uses(bindings, o) /\ S # {} /\ Cardinality(S) = 1
  <2>1. <<i, f>> \in Uses(bindings, o)
    BY DEF Uses
  <2>2. Cardinality(S) = 1
    BY FS_Singleton
  <2> QED
    BY <2>1, <2>2
<1>4. r = Released(live, unused, o, Cardinality(S), at)
  BY <1>3
<1>5. Ended(bindings, bt, S)
  <2>1. bindings \in [Ids -> Tables] /\ bindings[i] \in [Files -> Binding \union {None}]
    BY DEF TypeOK, Tables
  <2>2. ASSUME NEW k \in Ids, NEW g \in Files
        PROVE  bt[k][g] = IF k = i /\ g = f THEN None ELSE bindings[k][g]
    BY <2>1
  <2>3. \A b \in Ids \X Files : b \in S <=> b[1] = i /\ b[2] = f
    OBVIOUS
  <2> QED
    BY <2>2, <2>3 DEF Ended
<1> HIDE DEF o, S
<1> QED
  BY <1>1, <1>2, <1>3, <1>4, <1>5, ReleasedData

LEMMA DeletionEnds ==
    ASSUME TypeOK, NEW i \in Ids, NEW fs \in SUBSET Files,
           NEW bt, bt = [bindings EXCEPT ![i] = [f \in Files |-> IF f \in fs THEN None ELSE @[f]]]
    PROVE  Ended(bindings, bt, {i} \X fs)
<1> SUFFICES ASSUME NEW b \in Ids \X Files
             PROVE  bt[b[1]][b[2]] = IF b \in {i} \X fs THEN None ELSE bindings[b[1]][b[2]]
  BY DEF Ended
<1>1. bindings \in [Ids -> Tables]
  BY DEF TypeOK
<1>2. CASE b[1] = i
  <2>1. bt[i] = [f \in Files |-> IF f \in fs THEN None ELSE bindings[i][f]]
    BY <1>1
  <2>2. bt[i][b[2]] = IF b[2] \in fs THEN None ELSE bindings[i][b[2]]
    BY <2>1
  <2>3. b \in {i} \X fs <=> b[2] \in fs
    BY <1>2
  <2> QED
    BY <1>2, <2>2, <2>3
<1>3. CASE b[1] # i
  BY <1>1, <1>3
<1> QED
  BY <1>2, <1>3

LEMMA DeletionData ==
    ASSUME TypeOK, Data, NEW i \in Ids, NEW o \in Objects, NEW at \in Times,
           NEW fs \in SUBSET Files, fs # {},
           \A f \in fs : bindings[i][f] # None /\ bindings[i][f].object = o,
           NEW r, r = Released(live, unused, o, Cardinality(fs), at),
           NEW bt, Ended(bindings, bt, {i} \X fs)
    PROVE  Counted(r.live, bt) /\ r.unused = Listing(r.live) /\ SameObjects(live, r.live)
<1> DEFINE S == {i} \X fs
<1>1. Counted(live, bindings) /\ unused = Listing(live)
  BY DataIs
<1>2. S \in SUBSET Uses(bindings, o) /\ S # {}
  <2>1. PICK f \in fs : TRUE
    OBVIOUS
  <2>2. <<i, f>> \in S
    BY <2>1
  <2>3. \A b \in S : b[1] = i /\ b[2] \in fs /\ b \in Ids \X Files
    OBVIOUS
  <2> QED
    BY <2>2, <2>3 DEF Uses
<1>3. Cardinality(S) = Cardinality(fs)
  <2>2. IsFiniteSet(fs)
    BY FiniteAssumption, FS_Subset
  <2>3. IsFiniteSet({i}) /\ Cardinality({i}) = 1
    BY FS_Singleton
  <2>4. Cardinality(S) = Cardinality({i}) * Cardinality(fs)
    BY <2>2, <2>3, FS_Product
  <2>5. Cardinality(fs) \in Nat
    BY <2>2, FS_CardinalityType
  <2> QED
    BY <2>3, <2>4, <2>5
<1>4. r = Released(live, unused, o, Cardinality(S), at)
  BY <1>3
<1>5. Ended(bindings, bt, S)
  OBVIOUS
<1> HIDE DEF S
<1> QED
  BY SMTT(20), <1>1, <1>2, <1>4, <1>5, ReleasedData

LEMMA CollectData ==
    ASSUME TypeOK, Data, NEW o \in Objects, live[o] # None, live[o].bindings = 0,
           NEW m, m = [live EXCEPT ![o] = None],
           NEW v, v = unused \ {<<o, live[o].unused>>}
    PROVE  /\ Counted(m, bindings) /\ v = Listing(m)
           /\ m[o] = None /\ \A p \in Objects : p # o => m[p] = live[p]
<1>1. Counted(live, bindings) /\ unused = Listing(live) /\ live \in Lives
  BY DataIs DEF TypeOK, Lives
<1>2. m \in Lives /\ m[o] = None /\ \A p \in Objects : p # o => m[p] = live[p]
  BY <1>1 DEF Lives
<1>3. Timed(m)
  BY <1>1, <1>2 DEF Timed, Counted
<1>4. CountsOf(m, bindings)
  BY <1>1, <1>2 DEF CountsOf, Counted
<1>5. Listing(m) = Listing(live) \ {<<o, live[o].unused>>}
  <2>1. ASSUME NEW e \in Listing(m)
        PROVE  e \in Listing(live) /\ e # <<o, live[o].unused>>
    BY <1>2 DEF Listing
  <2>2. ASSUME NEW e \in Listing(live), e # <<o, live[o].unused>> PROVE e \in Listing(m)
    BY <1>2, <2>2 DEF Listing
  <2> QED
    BY <2>1, <2>2
<1> QED
  BY <1>1, <1>2, <1>3, <1>4, <1>5 DEF Counted

LEMMA ListingType ==
    ASSUME NEW l, NEW bs, Counted(l, bs)
    PROVE  Listing(l) \subseteq Objects \X Times /\ l \in [Objects -> Stored \union {None}]
<1>1. l \in Lives /\ Timed(l)
  BY DEF Counted
<1>2. ASSUME NEW e \in Listing(l) PROVE e \in Objects \X Times
  <2>1. PICK o \in Objects : l[o] # None /\ l[o].bindings = 0 /\ e = <<o, l[o].unused>>
    BY <1>2 DEF Listing
  <2>2. l[o] \in Stored /\ l[o].unused # None
    BY <1>1, <2>1 DEF Lives, Timed
  <2>3. l[o].unused \in Times
    BY <2>2 DEF Stored
  <2> QED
    BY <2>1, <2>3
<1> QED
  BY <1>1, <1>2 DEF Lives

\* What the other actions that change a count come down to
LEMMA PruneStep ==
    ASSUME TypeOK, Data, NEW w \in Workspaces, Prune(w)
    PROVE  \E f \in Files \ handle[w].keep :
             /\ handle[w].id \in Ids /\ bindings[handle[w].id][f] # None
             /\ members' = members \ {<<handle[w].id, live[bindings[handle[w].id][f].object].ordinal, f>>}
             /\ bindings' = [bindings EXCEPT ![handle[w].id][f] = None]
             /\ Counted(live', bindings') /\ unused' = Listing(live')
             /\ SameObjects(live, live')
<1>1. handle[w] # None /\ handle[w].id \in Ids
  BY RefreshIs DEF Prune
<1>2. PICK f \in Files \ handle[w].keep :
        LET i == handle[w].id
            o == bindings[i][f].object
            r == Released(live, unused, o, 1, now) IN
        /\ bindings[i][f] # None
        /\ live' = r.live /\ unused' = r.unused
        /\ members' = members \ {<<i, live[o].ordinal, f>>}
        /\ bindings' = [bindings EXCEPT ![i][f] = None]
  BY DEF Prune
<1>3. now \in Times
  BY DEF TypeOK
<1>4. Counted(live', bindings') /\ unused' = Listing(live') /\ SameObjects(live, live')
  BY <1>1, <1>2, <1>3, PruneData
<1> QED
  BY <1>1, <1>2, <1>4

LEMMA DeletionStep ==
    ASSUME TypeOK, Data, NEW i \in Ids, DeleteBindings(i)
    PROVE  /\ \E fs \in SUBSET Files : Ended(bindings, bindings', {i} \X fs)
           /\ bindings' \in [Ids -> Tables]
           /\ Counted(live', bindings') /\ unused' = Listing(live')
           /\ SameObjects(live, live')
<1> DEFINE fs(o) == {f \in Files : bindings[i][f] # None /\ bindings[i][f].object = o}
<1>1. PICK o \in Objects :
        /\ fs(o) # {}
        /\ live' = Released(live, unused, o, Cardinality(fs(o)), now).live
        /\ unused' = Released(live, unused, o, Cardinality(fs(o)), now).unused
        /\ bindings' = [bindings EXCEPT ![i] = [f \in Files |-> IF f \in fs(o) THEN None ELSE @[f]]]
  BY DEF DeleteBindings
<1> DEFINE F == fs(o)
<1>2. F \in SUBSET Files /\ F # {}
  BY <1>1
<1>3. \A f \in F : bindings[i][f] # None /\ bindings[i][f].object = o
  OBVIOUS
<1>4. bindings' = [bindings EXCEPT ![i] = [f \in Files |-> IF f \in F THEN None ELSE @[f]]]
  BY <1>1
<1>5. /\ live' = Released(live, unused, o, Cardinality(F), now).live
      /\ unused' = Released(live, unused, o, Cardinality(F), now).unused
  BY <1>1
<1>6. now \in Times
  BY DEF TypeOK
<1> HIDE DEF F
<1>7. Ended(bindings, bindings', {i} \X F)
  BY <1>2, <1>4, DeletionEnds
<1>8. Counted(live', bindings') /\ unused' = Listing(live') /\ SameObjects(live, live')
  BY <1>2, <1>3, <1>5, <1>6, <1>7, DeletionData
<1>9. bindings' \in [Ids -> Tables]
  BY <1>4 DEF TypeOK, Tables
<1> QED
  BY <1>2, <1>7, <1>8, <1>9

LEMMA CollectStep ==
    ASSUME TypeOK, Data, Collect
    PROVE  \E o \in Objects :
             /\ live[o] # None /\ live[o].bindings = 0 /\ pins[o] = 0
             /\ posted' = posted \ {live[o].ordinal}
             /\ alias' = Unaliased(o) /\ aliases' = {a \in aliases : a[1] # o}
             /\ live'[o] = None /\ \A p \in Objects : p # o => live'[p] = live[p]
             /\ Counted(live', bindings') /\ unused' = Listing(live')
<1>1. PICK e \in unused :
        /\ Unpinned(e[1]) /\ posted' = posted \ {live[e[1]].ordinal}
        /\ alias' = Unaliased(e[1]) /\ aliases' = {a \in aliases : a[1] # e[1]}
        /\ live' = [live EXCEPT ![e[1]] = None] /\ unused' = unused \ {e}
  BY DEF Collect
<1>2. unused = Listing(live)
  BY DataIs
<1>3. e[1] \in Objects /\ live[e[1]] # None /\ live[e[1]].bindings = 0 /\ e = <<e[1], live[e[1]].unused>>
  BY <1>2 DEF Listing
<1>4. bindings' = bindings
  BY DEF Collect
<1> DEFINE o == e[1]
<1>5. /\ Counted(live', bindings') /\ unused' = Listing(live')
      /\ live'[o] = None /\ \A p \in Objects : p # o => live'[p] = live[p]
  <2>1. o \in Objects /\ live[o] # None /\ live[o].bindings = 0 /\ live' = [live EXCEPT ![o] = None]
    BY <1>1, <1>3
  <2>2. unused' = unused \ {<<o, live[o].unused>>}
    BY <1>1, <1>3
  <2> HIDE DEF o
  <2> DEFINE m == live'
  <2>3. m = [live EXCEPT ![o] = None]
    BY <2>1
  <2>4. Counted(m, bindings)
    BY <2>1, CollectData
  <2>5. unused' = Listing(m)
    BY <2>1, <2>2, CollectData
  <2>6. live'[o] = None /\ \A p \in Objects : p # o => live'[p] = live[p]
    BY ZenonT(30), <2>1, CollectData
  <2> QED
    BY <1>4, <2>2, <2>4, <2>5, <2>6
<1> QED
  BY <1>1, <1>3, <1>5 DEF Unpinned

-----------------------------------------------------------------------------
(* Pins.                                                                   *)

LEMMA HoldingFinite ==
    ASSUME NEW o
    PROVE  IsFiniteSet(Holding(o)) /\ Cardinality(Holding(o)) \in Nat
BY FiniteAssumption, FS_Subset, FS_CardinalityType DEF Holding

LEMMA SnapshotPins ==
    ASSUME TypeOK, PinsOK, NEW r \in Readers, NEW w \in Workspaces, Snapshot(r, w),
           NEW o \in Objects
    PROVE  pins'[o] \in Nat /\ pins'[o] = Cardinality(Holding(o)')
<1> DEFINE t == bindings[spaces[w].id]
<1>1. pins[o] = Cardinality(Holding(o)) /\ pins[o] \in Nat
  BY DEF PinsOK, TypeOK
<1>2. t # None
  BY NoneAssumption DEF Snapshot, TypeOK, Spaces
<1>3. view[r] = None /\ view' = [view EXCEPT ![r] = t]
  BY DEF Snapshot
<1>4. pins'[o] = pins[o] + IF o \in Held(t) THEN 1 ELSE 0
  BY DEF Snapshot
<1> HIDE DEF t
<1>5. view'[r] = t /\ \A q \in Readers : q # r => view'[q] = view[q]
  BY <1>3 DEF TypeOK
<1>6. CASE o \in Held(t)
  <2>1. Holding(o)' = Holding(o) \union {r} /\ r \notin Holding(o)
    BY <1>2, <1>3, <1>5, <1>6 DEF Holding, Held
  <2>2. Cardinality(Holding(o)') = Cardinality(Holding(o)) + 1
    BY <2>1, HoldingFinite, FS_AddElement
  <2> QED
    BY <1>1, <1>4, <1>6, <2>2
<1>7. CASE o \notin Held(t)
  <2>1. Holding(o)' = Holding(o)
    BY <1>2, <1>3, <1>5, <1>7 DEF Holding, Held
  <2> QED
    BY <1>1, <1>4, <1>7, <2>1
<1> QED
  BY <1>6, <1>7

LEMMA DropPins ==
    ASSUME TypeOK, PinsOK, NEW r \in Readers, Drop(r), NEW o \in Objects
    PROVE  pins'[o] \in Nat /\ pins'[o] = Cardinality(Holding(o)')
<1> DEFINE t == view[r]
<1>1. pins[o] = Cardinality(Holding(o)) /\ pins[o] \in Nat
  BY DEF PinsOK, TypeOK
<1>2. t # None /\ view' = [view EXCEPT ![r] = None]
  BY DEF Drop
<1>3. pins'[o] = pins[o] - IF o \in Held(t) THEN 1 ELSE 0
  BY DEF Drop
<1>4. view'[r] = None /\ \A q \in Readers : q # r => view'[q] = view[q]
  BY <1>2 DEF TypeOK
<1>5. CASE o \in Held(t)
  <2>1. Holding(o)' = Holding(o) \ {r} /\ r \in Holding(o)
    BY <1>2, <1>4, <1>5 DEF Holding, Held
  <2>2. Cardinality(Holding(o)') = Cardinality(Holding(o)) - 1
    BY <2>1, HoldingFinite, FS_RemoveElement
  <2>3. Cardinality(Holding(o)) # 0
    BY <2>1, HoldingFinite, FS_EmptySet
  <2> QED
    BY <1>1, <1>3, <1>5, <2>2, <2>3
<1>6. CASE o \notin Held(t)
  <2>1. Holding(o)' = Holding(o)
    BY <1>2, <1>4, <1>6 DEF Holding, Held
  <2> QED
    BY <1>1, <1>3, <1>6, <2>1
<1> QED
  BY <1>5, <1>6

-----------------------------------------------------------------------------
(* Types.                                                                  *)

LEMMA OpenType ==
    ASSUME TypeOK, NEW w \in Workspaces, Open(w)
    PROVE  TypeOK'
<1>1. spaces' \in [Workspaces -> Spaces \union {None}] /\ spaces'[w] # None
  <2>1. CASE spaces[w] # None
    BY <2>1 DEF Open, TypeOK
  <2>2. CASE spaces[w] = None
    <3> DEFINE s == [id |-> next.id, phase |-> "dirty"]
    <3>1. spaces' = [spaces EXCEPT ![w] = s] /\ next.id \in Ids
      BY <2>2 DEF Open
    <3>2. s \in Spaces /\ s # None
      BY <3>1, NoneAssumption DEF Spaces
    <3> HIDE DEF s
    <3> QED
      BY <3>1, <3>2 DEF TypeOK
  <2> QED
    BY <2>1, <2>2
<1>2. next' \in [id : 1 .. MaxSpaces + 1, ordinal : 1 .. MaxOrdinals + 1]
  <2>1. CASE spaces[w] # None
    BY <2>1 DEF Open, TypeOK
  <2>2. CASE spaces[w] = None
    <3> DEFINE n == next.id + 1
    <3>1. next' = [next EXCEPT !.id = n] /\ next.id \in Ids
      BY <2>2 DEF Open, TypeOK
    <3>2. n \in 1 .. MaxSpaces + 1
      BY <3>1, BoundAssumption DEF Ids
    <3> HIDE DEF n
    <3> QED
      BY <3>1, <3>2 DEF TypeOK
  <2> QED
    BY <2>1, <2>2
<1>3. handle' \in [Workspaces -> Refreshes \union {None}]
  <2>1. PICK keep \in SUBSET Files :
          handle' = [handle EXCEPT ![w] = [id |-> spaces'[w].id, at |-> "open", keep |-> keep,
                                           todo |-> keep, job |-> None]]
    BY DEF Open
  <2>2. spaces'[w].id \in Ids
    BY <1>1 DEF Spaces
  <2>3. [id |-> spaces'[w].id, at |-> "open", keep |-> keep, todo |-> keep, job |-> None]
          \in Refreshes
    BY <2>2 DEF Refreshes
  <2> QED
    BY <2>1, <2>3 DEF TypeOK
<1> QED
  BY <1>1, <1>2, <1>3 DEF TypeOK, Open, objects

LEMMA RefreshType ==
    ASSUME TypeOK, NEW w \in Workspaces,
           Abandon(w) \/ Begin(w) \/ Retire(w) \/ Prepare(w) \/ Rebuild(w) \/ Commit(w)
    PROVE  TypeOK'
<1>1. CASE Abandon(w)
  BY <1>1 DEF TypeOK, Abandon, db, names, objects
<1>2. CASE Begin(w)
  <2>1. handle[w] \in Refreshes /\ spaces[w] \in Spaces
    BY <1>2 DEF TypeOK, Begin, At, Writable
  <2>2. [spaces[w] EXCEPT !.phase = "dirty"] \in Spaces
    BY <2>1 DEF Spaces
  <2>3. [handle[w] EXCEPT !.at = "install"] \in Refreshes
    BY <2>1 DEF Refreshes
  <2>4. spaces' \in [Workspaces -> Spaces \union {None}]
    BY <1>2, <2>2 DEF TypeOK, Begin
  <2>5. handle' \in [Workspaces -> Refreshes \union {None}]
    BY <1>2, <2>3 DEF TypeOK, Begin
  <2> QED
    BY <1>2, <2>4, <2>5 DEF TypeOK, Begin, objects
<1>3. CASE Retire(w)
  <2>1. spaces[w] \in Spaces /\ spaces[w].id \in Ids
    BY <1>3 DEF TypeOK, Retire, Spaces
  <2>2. retired' \in [Ids -> Workspaces \union {None}]
    BY <1>3, <2>1 DEF TypeOK, Retire
  <2>3. spaces' \in [Workspaces -> Spaces \union {None}]
    BY <1>3 DEF TypeOK, Retire
  <2> QED
    BY <1>3, <2>2, <2>3 DEF TypeOK, Retire, objects
<1>4. CASE Prepare(w)
  <2>1. PICK f \in handle[w].todo, i \in Inputs \union {None}, o \in Objects :
          /\ (i # None /\ alias[i] # None) => o = alias[i]
          /\ handle' = [handle EXCEPT ![w].job =
            [file |-> f, input |-> i, object |-> o, expected |-> bindings[handle[w].id][f],
             encoded |-> live[o] = None, at |-> now]]
    BY <1>4, Zenon DEF Prepare
  <2> DEFINE j == [file |-> f, input |-> i, object |-> o,
                   expected |-> bindings[handle[w].id][f],
                   encoded |-> live[o] = None, at |-> now]
  <2>2. handle[w] \in Refreshes
    BY <1>4 DEF TypeOK, Prepare, At
  <2>3. f \in Files /\ bindings[handle[w].id][f] \in Binding \union {None}
    BY <2>2, TableIs DEF Refreshes
  <2>4. (live[o] = None) \in BOOLEAN
    OBVIOUS
  <2>5. j \in Jobs
    BY <2>3, <2>4 DEF Jobs, TypeOK
  <2>6. handle' = [handle EXCEPT ![w].job = j]
    BY <2>1
  <2> HIDE DEF j
  <2>7. [handle[w] EXCEPT !.job = j] \in Refreshes
    BY <2>2, <2>5 DEF Refreshes
  <2>8. handle' \in [Workspaces -> Refreshes \union {None}]
    BY <2>6, <2>7 DEF TypeOK
  <2> QED
    BY <1>4, <2>8 DEF TypeOK, Prepare, db, names, objects
<1>5. CASE Rebuild(w)
  <2>1. handle[w] \in Refreshes /\ handle[w].job \in Jobs
    BY <1>5 DEF TypeOK, Rebuild, At, Refreshes
  <2>2. [handle[w].job EXCEPT !.encoded = TRUE] \in Jobs
    BY <2>1 DEF Jobs
  <2>3. [handle[w] EXCEPT !.job.encoded = TRUE] \in Refreshes
    BY <2>1, <2>2 DEF Refreshes
  <2>4. handle' \in [Workspaces -> Refreshes \union {None}]
    BY <1>5, <2>3 DEF TypeOK, Rebuild
  <2> QED
    BY <1>5, <2>4 DEF TypeOK, Rebuild, db, names, objects
<1>6. CASE Commit(w)
  <2>1. handle[w] \in Refreshes /\ spaces[w] \in Spaces
    BY <1>6 DEF TypeOK, Commit, Writable
  <2>2. [spaces[w] EXCEPT !.phase = "clean"] \in Spaces
    BY <2>1 DEF Spaces
  <2>3. spaces' \in [Workspaces -> Spaces \union {None}]
    BY <1>6, <2>2 DEF TypeOK, Commit
  <2>4. manifest' \in [Ids -> (SUBSET Files) \union {None}]
    BY <1>6, <2>1 DEF TypeOK, Commit, Refreshes
  <2>5. handle' \in [Workspaces -> Refreshes \union {None}]
    BY <1>6 DEF TypeOK, Commit
  <2> QED
    BY <1>6, <2>3, <2>4, <2>5 DEF TypeOK, Commit, objects
<1> QED
  BY <1>1, <1>2, <1>3, <1>4, <1>5, <1>6

LEMMA InstallType ==
    ASSUME TypeOK, Data, NEW w \in Workspaces, Install(w)
    PROVE  TypeOK'
<1> DEFINE h == handle[w]
           j == h.job
           o == j.object
           b == [object |-> o, revision |-> j.input]
           old == bindings[h.id][j.file]
           l == Stocked(o, j.at)
<1>1. h # None /\ j # None /\ h \in Refreshes /\ h.id \in Ids
  BY RefreshIs DEF Install, At
<1>2. /\ j.file \in Files /\ o \in Objects /\ j.at \in Times /\ j.input \in Inputs \union {None}
  BY <1>1, JobIs
<1>3. live[o] # None \/ next.ordinal <= MaxOrdinals
  BY DEF Install
<1>4. Counted(live', bindings') /\ unused' = Listing(live')
  BY InstallData
<1>5. /\ live' \in [Objects -> Stored \union {None}]
      /\ unused' \subseteq Objects \X Times
  BY <1>4, ListingType
<1>6. spaces' \in [Workspaces -> Spaces \union {None}]
  <2>1. spaces[w] \in Spaces
    BY DEF TypeOK, Install, Writable
  <2>2. [spaces[w] EXCEPT !.phase = "dirty"] \in Spaces
    BY <2>1 DEF Spaces
  <2> QED
    BY <2>2 DEF TypeOK, Install
<1>7. bindings' \in [Ids -> Tables]
  <2>1. b \in Binding
    BY <1>2 DEF Binding
  <2>2. bindings' = [bindings EXCEPT ![h.id][j.file] = b]
    BY DEF Install
  <2> HIDE DEF b, h, j
  <2> QED
    BY <1>1, <1>2, <2>1, <2>2 DEF TypeOK, Tables
<1>8. handle' \in [Workspaces -> Refreshes \union {None}]
  <2> DEFINE todo == h.todo \ {j.file}
             g == [h EXCEPT !.todo = todo, !.job = None]
  <2>1. handle' = [handle EXCEPT ![w] = g]
    BY <1>1 DEF Install, TypeOK
  <2>2. todo \in SUBSET Files
    BY <1>1 DEF Refreshes
  <2> HIDE DEF todo
  <2>3. g \in Refreshes
    BY <1>1, <2>2 DEF Refreshes
  <2> QED
    BY <2>1, <2>3 DEF TypeOK
<1>9. next' \in [id : 1 .. MaxSpaces + 1, ordinal : 1 .. MaxOrdinals + 1]
  <2>1. CASE live[o] = None
    <3> DEFINE n == next.ordinal + 1
    <3>1. next' = [next EXCEPT !.ordinal = n]
      BY <2>1 DEF Install
    <3>2. n \in 1 .. MaxOrdinals + 1
      BY <1>3, <2>1, BoundAssumption DEF TypeOK
    <3> HIDE DEF n
    <3> QED
      BY <3>1, <3>2 DEF TypeOK
  <2>2. CASE live[o] # None
    BY <2>2 DEF TypeOK, Install
  <2> QED
    BY <2>1, <2>2
<1>10. posted' \subseteq 1 .. MaxOrdinals
  <2>1. CASE live[o] = None
    <3>1. next.ordinal \in 1 .. MaxOrdinals
      BY <1>3, <2>1, BoundAssumption DEF TypeOK
    <3>2. posted' = posted \union {next.ordinal}
      BY <2>1 DEF Install
    <3> QED
      BY <3>1, <3>2 DEF TypeOK
  <2>2. CASE live[o] # None
    BY <2>2 DEF TypeOK, Install
  <2> QED
    BY <2>1, <2>2
<1>11. members' \subseteq Ids \X (1 .. MaxOrdinals) \X Files
  <2>1. Counted(l, bindings) /\ l[o] # None
    BY <1>2, <1>3, StockedData
  <2>2. l[o].ordinal \in 1 .. MaxOrdinals
    BY <1>2, <2>1 DEF Counted, Lives, Stored
  <2>3. members' \subseteq members \union {<<h.id, l[o].ordinal, j.file>>}
    BY DEF Install, Moved
  <2> HIDE DEF l, h, j
  <2> QED
    BY <1>1, <1>2, <2>2, <2>3 DEF TypeOK
<1>12. alias' \in [Inputs -> Objects \union {None}] /\ aliases' \subseteq Objects \X Inputs
  <2>1. alias' = [i \in Inputs |-> IF i = j.input THEN o ELSE alias[i]]
    BY DEF Install
  <2>2. aliases' = aliases \union {<<o, i>> : i \in Inputs \intersect {j.input}}
    BY DEF Install
  <2> HIDE DEF o, j
  <2> QED
    BY <1>2, <2>1, <2>2 DEF TypeOK
<1>13. UNCHANGED <<retired, manifest, pins, view, now>>
  BY DEF Install
<1> HIDE DEF h, j, o, l, old, b
<1> QED
  BY <1>5, <1>6, <1>7, <1>8, <1>9, <1>10, <1>11, <1>12, <1>13 DEF TypeOK

LEMMA TypePreserved ==
    ASSUME TypeOK, Data, PinsOK, Next
    PROVE  TypeOK'
<1>1. CASE Tick
  BY <1>1, BoundAssumption DEF TypeOK, Times, Tick, db, names, objects
<1>2. CASE Collect
  <2>1. PICK e \in unused :
          /\ posted' = posted \ {live[e[1]].ordinal}
          /\ alias' = Unaliased(e[1]) /\ aliases' = {a \in aliases : a[1] # e[1]}
          /\ live' = [live EXCEPT ![e[1]] = None] /\ unused' = unused \ {e}
    BY <1>2 DEF Collect
  <2>2. alias' \in [Inputs -> Objects \union {None}]
    BY <2>1 DEF TypeOK, Unaliased
  <2>3. live' \in [Objects -> Stored \union {None}]
    BY <2>1 DEF TypeOK
  <2> QED
    BY <1>2, <2>1, <2>2, <2>3 DEF TypeOK, Collect, names
<1>3. CASE Crash
  BY <1>3 DEF TypeOK, Crash, db, names, objects
<1>4. ASSUME NEW w \in Workspaces, Open(w) PROVE TypeOK'
  BY <1>4, OpenType
<1>5. ASSUME NEW w \in Workspaces,
             Abandon(w) \/ Begin(w) \/ Retire(w) \/ Prepare(w) \/ Rebuild(w) \/ Commit(w)
      PROVE  TypeOK'
  BY <1>5, RefreshType
<1>6. ASSUME NEW w \in Workspaces, Install(w) PROVE TypeOK'
  BY <1>6, InstallType
<1>7. ASSUME NEW w \in Workspaces, Prune(w) PROVE TypeOK'
  <2>1. PICK f \in Files \ handle[w].keep :
          /\ handle[w].id \in Ids
          /\ members' = members \ {<<handle[w].id, live[bindings[handle[w].id][f].object].ordinal, f>>}
          /\ bindings' = [bindings EXCEPT ![handle[w].id][f] = None]
          /\ Counted(live', bindings') /\ unused' = Listing(live')
    BY <1>7, PruneStep
  <2>2. live' \in [Objects -> Stored \union {None}] /\ unused' \subseteq Objects \X Times
    BY <2>1, ListingType
  <2>3. bindings' \in [Ids -> Tables]
    BY <2>1 DEF TypeOK, Tables
  <2>4. members' \subseteq members
    BY <2>1
  <2>5. UNCHANGED <<names, next, posted, alias, aliases, pins, view, handle, now>>
    BY <1>7 DEF Prune
  <2> QED
    BY <2>2, <2>3, <2>4, <2>5 DEF TypeOK, names
<1>8. ASSUME NEW i \in Ids, DeleteMember(i) PROVE TypeOK'
  <2>1. members' \subseteq members
    BY <1>8 DEF DeleteMember
  <2> QED
    BY <1>8, <2>1 DEF TypeOK, DeleteMember, names, objects
<1>9. ASSUME NEW i \in Ids, DeleteBindings(i) PROVE TypeOK'
  <2>1. Counted(live', bindings') /\ unused' = Listing(live') /\ bindings' \in [Ids -> Tables]
    BY <1>9, DeletionStep
  <2>2. live' \in [Objects -> Stored \union {None}] /\ unused' \subseteq Objects \X Times
    BY <2>1, ListingType
  <2>3. UNCHANGED <<names, next, members, posted, alias, aliases, pins, view, handle, now>>
    BY <1>9 DEF DeleteBindings
  <2> QED
    BY <2>1, <2>2, <2>3 DEF TypeOK, names
<1>10. ASSUME NEW i \in Ids, DeleteNamespace(i) PROVE TypeOK'
  BY <1>10 DEF TypeOK, DeleteNamespace, objects
<1>11. ASSUME NEW r \in Readers, Drop(r) PROVE TypeOK'
  <2>1. pins' \in [Objects -> Nat]
    BY <1>11, DropPins, Zenon DEF Drop
  <2> QED
    BY <1>11, <2>1 DEF TypeOK, Drop, db, names, objects
<1>12. ASSUME NEW r \in Readers, NEW w \in Workspaces, Snapshot(r, w) PROVE TypeOK'
  <2>1. pins' \in [Objects -> Nat]
    BY <1>12, SnapshotPins, Zenon DEF Snapshot
  <2>2. view' \in [Readers -> Tables \union {None}]
    BY <1>12 DEF TypeOK, Snapshot, Spaces
  <2> QED
    BY <1>12, <2>1, <2>2 DEF TypeOK, Snapshot, db, names, objects
<1> QED
  BY <1>1, <1>2, <1>3, <1>4, <1>5, <1>6, <1>7, <1>8, <1>9, <1>10, <1>11, <1>12 DEF Next

-----------------------------------------------------------------------------
(* Counts and postings.                                                    *)

LEMMA DataPreserved ==
    ASSUME TypeOK, TypeOK', Data, Next
    PROVE  Data'
<1> SUFFICES Counted(live', bindings') /\ unused' = Listing(live')
  BY DataIs
<1> DEFINE P == Counted(live', bindings') /\ unused' = Listing(live')
<1>1. ASSUME UNCHANGED <<live, bindings, unused>> PROVE P
  BY <1>1, DataIs
<1>2. ASSUME Tick \/ Crash PROVE P
  BY <1>1, <1>2 DEF Tick, Crash, db, objects
<1>3. ASSUME Collect PROVE P
  BY <1>3, CollectStep
<1>4. ASSUME NEW w \in Workspaces, Open(w) \/ Abandon(w) \/ Begin(w) \/ Retire(w)
      PROVE  P
  BY <1>1, <1>4 DEF Open, Abandon, Begin, Retire, db, objects
<1>5. ASSUME NEW w \in Workspaces, Prepare(w) \/ Rebuild(w) \/ Commit(w) PROVE P
  BY <1>1, <1>5 DEF Prepare, Rebuild, Commit, db, objects
<1>6. ASSUME NEW w \in Workspaces, Install(w) PROVE P
  BY <1>6, InstallData
<1>7. ASSUME NEW w \in Workspaces, Prune(w) PROVE P
  BY <1>7, PruneStep
<1>8. ASSUME NEW i \in Ids, DeleteMember(i) \/ DeleteNamespace(i) PROVE P
  BY <1>1, <1>8 DEF DeleteMember, DeleteNamespace, objects
<1>9. ASSUME NEW i \in Ids, DeleteBindings(i) PROVE P
  BY <1>9, DeletionStep
<1>10. ASSUME NEW r \in Readers, Drop(r) \/ \E w \in Workspaces : Snapshot(r, w) PROVE P
  BY <1>1, <1>10 DEF Drop, Snapshot, db, objects
<1> HIDE DEF P
<1>11. P
  BY <1>2, <1>3, <1>4, <1>5, <1>6, <1>7, <1>8, <1>9, <1>10 DEF Next
<1> QED
  BY <1>11 DEF P

\* The postings have the ordinals of what is stored.
Posted == PostedTrue /\ OrdinalsOK

LEMMA InstallPosted ==
    ASSUME TypeOK, Data, Posted, NEW w \in Workspaces, Install(w)
    PROVE  Posted'
<1> DEFINE o == handle[w].job.object
           l == Stocked(o, handle[w].job.at)
<1>1. o \in Objects /\ handle[w].job.at \in Times /\ (live[o] # None \/ next.ordinal <= MaxOrdinals)
  BY JobIs DEF Install, At
<1>2. SameObjects(l, live')
  BY InstallData
<1>3. /\ l[o] # None /\ \A p \in Objects : p # o => l[p] = live[p]
      /\ l[o].ordinal = IF live[o] = None THEN next.ordinal ELSE live[o].ordinal
  BY <1>1, StockedData
<1>4. next.ordinal \in Nat /\ \A p \in Live : live[p].ordinal \in Nat
  BY BoundAssumption DEF TypeOK, Live, Stored
<1>5. CASE live[o] # None
  <2>1. next' = next /\ posted' = posted
    BY <1>5 DEF Install
  <2>2. Live' = Live /\ \A p \in Live : live'[p].ordinal = live[p].ordinal
    BY <1>2, <1>3, <1>5 DEF Live, SameObjects
  <2> HIDE DEF o, l
  <2> QED
    BY <2>1, <2>2 DEF Posted, PostedTrue, OrdinalsOK
<1>6. CASE live[o] = None
  <2>1. posted' = posted \union {next.ordinal}
    BY <1>6 DEF Install
  <2>2. next'.ordinal = next.ordinal + 1
    BY <1>6 DEF Install, TypeOK
  <2>3. /\ Live' = Live \union {o} /\ o \notin Live /\ live'[o].ordinal = next.ordinal
        /\ \A p \in Live : live'[p].ordinal = live[p].ordinal
    BY <1>1, <1>2, <1>3, <1>6 DEF Live, SameObjects
  <2> HIDE DEF o, l
  <2>4. posted' = {live'[p].ordinal : p \in Live'}
    <3>1. posted = {live[p].ordinal : p \in Live}
      BY DEF Posted, PostedTrue
    <3>2. {live'[p].ordinal : p \in Live'} = {live[p].ordinal : p \in Live} \union {next.ordinal}
      BY <2>3
    <3> QED
      BY <2>1, <3>1, <3>2
  <2>5. ASSUME NEW p \in Live', NEW q \in Live', live'[p].ordinal = live'[q].ordinal PROVE p = q
    <3>1. \A z \in Live : live'[z].ordinal < next.ordinal
      BY <2>3 DEF Posted, OrdinalsOK
    <3> QED
      BY <1>4, <2>3, <2>5, <3>1 DEF Posted, PostedTrue
  <2>6. ASSUME NEW p \in Live' PROVE live'[p].ordinal < next'.ordinal
    BY <1>4, <2>2, <2>3 DEF Posted, OrdinalsOK
  <2> QED
    BY <2>4, <2>5, <2>6 DEF Posted, PostedTrue, OrdinalsOK
<1> QED
  BY <1>5, <1>6

LEMMA PostedPreserved ==
    ASSUME TypeOK, Data, Posted, Next
    PROVE  Posted'
<1>1. ASSUME UNCHANGED posted, next'.ordinal = next.ordinal, SameObjects(live, live')
      PROVE  Posted'
  <2>1. Live' = Live /\ \A p \in Live : live'[p].ordinal = live[p].ordinal
    BY <1>1 DEF Live, SameObjects
  <2> QED
    BY <1>1, <2>1 DEF Posted, PostedTrue, OrdinalsOK
<1>2. UNCHANGED live => SameObjects(live, live')
  BY DEF SameObjects
<1>3. CASE Tick \/ Crash
  BY <1>1, <1>2, <1>3 DEF Tick, Crash, db, objects
<1>4. CASE Collect
  <2>1. PICK o \in Objects :
          /\ live[o] # None /\ posted' = posted \ {live[o].ordinal} /\ live'[o] = None
          /\ \A p \in Objects : p # o => live'[p] = live[p]
    BY <1>4, CollectStep
  <2>2. Live' = Live \ {o} /\ o \in Live /\ \A p \in Live' : live'[p].ordinal = live[p].ordinal
    BY <2>1 DEF Live
  <2>3. {live'[p].ordinal : p \in Live'} = {live[p].ordinal : p \in Live} \ {live[o].ordinal}
    BY <2>2 DEF Posted, PostedTrue
  <2>4. UNCHANGED next
    BY <1>4 DEF Collect
  <2> QED
    BY <2>1, <2>2, <2>3, <2>4 DEF Posted, PostedTrue, OrdinalsOK
<1>5. ASSUME NEW w \in Workspaces, Open(w) PROVE Posted'
  <2>1. next'.ordinal = next.ordinal
    BY <1>5 DEF Open, TypeOK
  <2> QED
    BY <1>1, <1>2, <1>5, <2>1 DEF Open, objects
<1>6. ASSUME NEW w \in Workspaces, Abandon(w) \/ Begin(w) \/ Retire(w) PROVE Posted'
  BY <1>1, <1>2, <1>6 DEF Abandon, Begin, Retire, db, objects
<1>7. ASSUME NEW w \in Workspaces, Prepare(w) \/ Rebuild(w) \/ Commit(w) PROVE Posted'
  BY <1>1, <1>2, <1>7 DEF Prepare, Rebuild, Commit, db, objects
<1>8. ASSUME NEW w \in Workspaces, Install(w) PROVE Posted'
  BY <1>8, InstallPosted
<1>9. ASSUME NEW w \in Workspaces, Prune(w) PROVE Posted'
  <2>1. SameObjects(live, live')
    BY <1>9, PruneStep
  <2> QED
    BY <1>1, <1>9, <2>1 DEF Prune
<1>10. ASSUME NEW i \in Ids, DeleteMember(i) \/ DeleteNamespace(i) PROVE Posted'
  BY <1>1, <1>2, <1>10 DEF DeleteMember, DeleteNamespace, objects
<1>11. ASSUME NEW i \in Ids, DeleteBindings(i) PROVE Posted'
  <2>1. SameObjects(live, live')
    BY <1>11, DeletionStep
  <2> QED
    BY <1>1, <1>11, <2>1 DEF DeleteBindings
<1>12. ASSUME NEW r \in Readers, Drop(r) \/ \E w \in Workspaces : Snapshot(r, w) PROVE Posted'
  BY <1>1, <1>2, <1>12 DEF Drop, Snapshot, db, objects
<1> QED
  BY <1>3, <1>4, <1>5, <1>6, <1>7, <1>8, <1>9, <1>10, <1>11, <1>12 DEF Next

-----------------------------------------------------------------------------
(* Member rows.                                                            *)

\* Member rows that agree with bindings, objects and retirements
Rows(ms, bs, l, rt) ==
  /\ \A i \in Ids, n \in 1 .. MaxOrdinals, f \in Files : <<i, n, f>> \in ms =>
       bs[i][f] # None /\ l[bs[i][f].object].ordinal = n
  /\ \A i \in Ids, f \in Files : bs[i][f] # None /\ rt[i] = None =>
       <<i, l[bs[i][f].object].ordinal, f>> \in ms

LEMMA RowsAre ==
    /\ TypeOK => (MembersTrue <=> Rows(members, bindings, live, retired))
    /\ TypeOK' => (MembersTrue' <=> Rows(members', bindings', live', retired'))
<1> DEFINE B(bs) == {b \in Ids \X Files : bs[b[1]][b[2]] # None}
           M(ms, bs, l, rt) ==
             /\ \A m \in ms : \E b \in B(bs) :
                  b[1] = m[1] /\ b[2] = m[3] /\ l[bs[b[1]][b[2]].object].ordinal = m[2]
             /\ \A b \in B(bs) : rt[b[1]] = None =>
                  <<b[1], l[bs[b[1]][b[2]].object].ordinal, b[2]>> \in ms
<1>1. ASSUME NEW ms \in SUBSET (Ids \X (1 .. MaxOrdinals) \X Files), NEW bs, NEW l, NEW rt
      PROVE  M(ms, bs, l, rt) <=> Rows(ms, bs, l, rt)
  <2>1. ASSUME M(ms, bs, l, rt) PROVE Rows(ms, bs, l, rt)
    <3>1. ASSUME NEW i \in Ids, NEW n \in 1 .. MaxOrdinals, NEW f \in Files, <<i, n, f>> \in ms
          PROVE  bs[i][f] # None /\ l[bs[i][f].object].ordinal = n
      <4>1. PICK b \in B(bs) :
              b[1] = i /\ b[2] = f /\ l[bs[b[1]][b[2]].object].ordinal = n
        BY <2>1, <3>1
      <4> QED
        BY <4>1
    <3>2. ASSUME NEW i \in Ids, NEW f \in Files, bs[i][f] # None, rt[i] = None
          PROVE  <<i, l[bs[i][f].object].ordinal, f>> \in ms
      <4>1. <<i, f>> \in B(bs)
        BY <3>2
      <4> QED
        BY <2>1, <3>2, <4>1
    <3> QED
      BY <3>1, <3>2 DEF Rows
  <2>2. ASSUME Rows(ms, bs, l, rt) PROVE M(ms, bs, l, rt)
    <3>1. ASSUME NEW m \in ms
          PROVE  \E b \in B(bs) :
                   b[1] = m[1] /\ b[2] = m[3] /\ l[bs[b[1]][b[2]].object].ordinal = m[2]
      <4>1. m[1] \in Ids /\ m[2] \in 1 .. MaxOrdinals /\ m[3] \in Files /\ m = <<m[1], m[2], m[3]>>
        OBVIOUS
      <4>2. bs[m[1]][m[3]] # None /\ l[bs[m[1]][m[3]].object].ordinal = m[2]
        BY <2>2, <4>1 DEF Rows
      <4>3. <<m[1], m[3]>> \in B(bs)
        BY <4>1, <4>2
      <4> QED
        BY <4>2, <4>3
    <3>2. ASSUME NEW b \in B(bs), rt[b[1]] = None
          PROVE  <<b[1], l[bs[b[1]][b[2]].object].ordinal, b[2]>> \in ms
      BY <2>2, <3>2 DEF Rows
    <3> QED
      BY <3>1, <3>2
  <2> HIDE DEF M
  <2> QED
    BY <2>1, <2>2
<1>2. MembersTrue <=> M(members, bindings, live, retired)
  BY DEF MembersTrue, Bindings, Object
<1>3. MembersTrue' <=> M(members', bindings', live', retired')
  BY DEF MembersTrue, Bindings, Object
<1>4. TypeOK => members \in SUBSET (Ids \X (1 .. MaxOrdinals) \X Files)
  BY DEF TypeOK
<1>5. TypeOK' => members' \in SUBSET (Ids \X (1 .. MaxOrdinals) \X Files)
  BY DEF TypeOK
<1> HIDE DEF M, B
<1> QED
  BY <1>1, <1>2, <1>3, <1>4, <1>5

\* What is bound is stored.
LEMMA BoundLive ==
    ASSUME NEW l, NEW bs, Counted(l, bs), NEW i \in Ids, NEW f \in Files,
           bs[i][f] # None, bs[i][f].object \in Objects
    PROVE  l[bs[i][f].object] # None /\ l[bs[i][f].object].bindings # 0
<1> DEFINE o == bs[i][f].object
<1>1. <<i, f>> \in Uses(bs, o)
  BY DEF Uses
<1>2. Cardinality(Uses(bs, o)) # 0
  BY <1>1, UsesFinite, FS_EmptySet
<1> QED
  BY <1>2 DEF Counted, CountsOf

LEMMA InstallRows ==
    ASSUME TypeOK, Data, SpacesOK, Rows(members, bindings, live, retired),
           NEW w \in Workspaces, Install(w)
    PROVE  Rows(members', bindings', live', retired')
<1> DEFINE h == handle[w]
           k == h.id
           g == h.job.file
           o == h.job.object
           old == bindings[k][g]
           l == Stocked(o, h.job.at)
<1>1. k \in Ids /\ g \in Files /\ o \in Objects /\ h.job.at \in Times
  BY RefreshIs, JobIs DEF Install, At
<1>2. live[o] # None \/ next.ordinal <= MaxOrdinals
  BY DEF Install
<1>3. retired' = retired
  BY DEF Install
<1>4. members' = Moved(k, g, old, o, l)
  BY DEF Install
<1>5. SameObjects(l, live') /\ Placed(bindings, bindings', <<k, g>>, o)
  BY InstallData
<1>6. /\ Counted(l, bindings) /\ l[o] # None
      /\ \A p \in Objects : p # o => l[p] = live[p]
      /\ live[o] # None => l[o].ordinal = live[o].ordinal
  BY <1>1, <1>2, StockedData
<1>7. retired[k] = None
  BY DEF Install, Writable, SpacesOK
<1>8. Counted(live, bindings)
  BY DataIs
<1>9. ASSUME NEW i \in Ids, NEW f \in Files, bindings[i][f] # None
      PROVE  /\ bindings[i][f].object \in Objects
             /\ live'[bindings[i][f].object].ordinal = live[bindings[i][f].object].ordinal
             /\ l[bindings[i][f].object].ordinal = live[bindings[i][f].object].ordinal
  <2> DEFINE p == bindings[i][f].object
  <2>1. p \in Objects /\ live[p] # None
    BY <1>8, <1>9, BoundLive, TableIs
  <2>2. l[p] # None /\ l[p].ordinal = live[p].ordinal
    BY <1>6, <2>1
  <2> QED
    BY <1>5, <2>1, <2>2 DEF SameObjects
<1>10. live'[o].ordinal = l[o].ordinal
  BY <1>1, <1>5, <1>6 DEF SameObjects
<1>11. /\ bindings'[k][g] # None /\ bindings'[k][g].object = o
       /\ \A i \in Ids, f \in Files : <<i, f>> # <<k, g>> => bindings'[i][f] = bindings[i][f]
  <2> HIDE DEF k, g, o, l
  <2>1. bindings'[k][g] # None /\ bindings'[k][g].object = o
    BY <1>5 DEF Placed
  <2>2. ASSUME NEW i \in Ids, NEW f \in Files, <<i, f>> # <<k, g>>
        PROVE  bindings'[i][f] = bindings[i][f]
    <3> DEFINE b == <<i, f>>
    <3>1. b \in Ids \X Files /\ b # <<k, g>> /\ b[1] = i /\ b[2] = f
      BY <2>2
    <3> HIDE DEF b
    <3>2. bindings'[b[1]][b[2]] = bindings[b[1]][b[2]]
      BY <1>5, <3>1 DEF Placed
    <3> QED
      BY <3>1, <3>2
  <2> QED
    BY <2>1, <2>2
<1>12. ASSUME NEW i \in Ids, NEW n \in 1 .. MaxOrdinals, NEW f \in Files
       PROVE  <<i, n, f>> \in members' <=>
                IF i = k /\ f = g THEN n = l[o].ordinal ELSE <<i, n, f>> \in members
  <2>1. CASE i = k /\ f = g
    <3>1. CASE old = None
      <4>1. <<i, n, f>> \notin members
        BY <2>1, <3>1 DEF Rows
      <4>2. members' = members \union {<<k, l[o].ordinal, g>>}
        BY <1>4, <3>1 DEF Moved
      <4> HIDE DEF l, o, old, k, g
      <4> QED
        BY <2>1, <4>1, <4>2
    <3>2. CASE old # None
      <4>1. <<i, n, f>> \in members => n = l[old.object].ordinal
        BY <1>1, <1>9, <2>1, <3>2 DEF Rows
      <4>2. members' = (members \ {<<k, l[old.object].ordinal, g>>}) \union {<<k, l[o].ordinal, g>>}
        BY <1>4, <3>2 DEF Moved
      <4> HIDE DEF l, o, old, k, g
      <4> QED
        BY <2>1, <4>1, <4>2
    <3> QED
      BY <3>1, <3>2
  <2>2. CASE ~(i = k /\ f = g)
    <3> HIDE DEF l, o, old, k, g
    <3> QED
      BY <1>4, <2>2 DEF Moved
  <2> QED
    BY <2>1, <2>2
<1> HIDE DEF h, k, g, o, old, l
<1>13. ASSUME NEW i \in Ids, NEW n \in 1 .. MaxOrdinals, NEW f \in Files, <<i, n, f>> \in members'
       PROVE  bindings'[i][f] # None /\ live'[bindings'[i][f].object].ordinal = n
  <2>1. CASE i = k /\ f = g
    BY <1>10, <1>11, <1>12, <1>13, <2>1
  <2>2. CASE ~(i = k /\ f = g)
    <3>1. <<i, n, f>> \in members /\ bindings'[i][f] = bindings[i][f]
      BY <1>11, <1>12, <1>13, <2>2
    <3>2. bindings[i][f] # None /\ live[bindings[i][f].object].ordinal = n
      BY <3>1 DEF Rows
    <3> QED
      BY <1>9, <3>1, <3>2
  <2> QED
    BY <2>1, <2>2
<1>14. ASSUME NEW i \in Ids, NEW f \in Files, bindings'[i][f] # None, retired'[i] = None
       PROVE  <<i, live'[bindings'[i][f].object].ordinal, f>> \in members'
  <2>1. CASE i = k /\ f = g
    <3>1. members' = Moved(k, g, old, o, l)
      BY <1>4
    <3>2. <<k, l[o].ordinal, g>> \in members'
      BY <3>1 DEF Moved
    <3> QED
      BY <1>10, <1>11, <2>1, <3>2
  <2>2. CASE ~(i = k /\ f = g)
    <3>1. bindings'[i][f] = bindings[i][f]
      BY <1>11, <2>2
    <3> DEFINE n == live[bindings[i][f].object].ordinal
    <3>2. bindings[i][f] # None /\ n = live'[bindings'[i][f].object].ordinal
      BY <1>9, <1>14, <3>1
    <3>3. <<i, n, f>> \in members
      BY <1>3, <1>14, <3>2 DEF Rows
    <3>4. n \in 1 .. MaxOrdinals
      BY <3>3 DEF TypeOK
    <3> HIDE DEF n
    <3> QED
      BY <1>12, <2>2, <3>2, <3>3, <3>4
  <2> QED
    BY <2>1, <2>2
<1> QED
  BY <1>13, <1>14 DEF Rows

LEMMA MembersPreserved ==
    ASSUME TypeOK, TypeOK', Data, SpacesOK, MembersTrue, Next
    PROVE  MembersTrue'
<1> DEFINE P == Rows(members', bindings', live', retired')
<1> SUFFICES P
  BY RowsAre
<1> HIDE DEF P
<1>1. Rows(members, bindings, live, retired)
  BY RowsAre
<1>2. Counted(live, bindings)
  BY DataIs
<1>3. ASSUME UNCHANGED <<members, bindings, live>>, \A i \in Ids : retired'[i] = None => retired[i] = None
      PROVE  P
  BY <1>1, <1>3 DEF Rows, P
<1>4. ASSUME NEW i \in Ids, NEW f \in Files, bindings[i][f] # None
      PROVE  /\ live[bindings[i][f].object] # None
             /\ SameObjects(live, live') =>
                  live'[bindings[i][f].object].ordinal = live[bindings[i][f].object].ordinal
  <2>1. bindings[i][f].object \in Objects
    BY <1>4, TableIs
  <2>2. live[bindings[i][f].object] # None
    BY <1>2, <1>4, <2>1, BoundLive
  <2> QED
    BY <2>1, <2>2 DEF SameObjects
<1>5. CASE Tick \/ Crash
  BY <1>3, <1>5 DEF Tick, Crash, db, objects, names
<1>6. CASE Collect
  <2>1. PICK o \in Objects :
          live[o].bindings = 0 /\ \A p \in Objects : p # o => live'[p] = live[p]
    BY <1>6, CollectStep
  <2>2. UNCHANGED <<members, bindings, retired>>
    BY <1>6 DEF Collect, names
  <2>3. ASSUME NEW i \in Ids, NEW f \in Files, bindings[i][f] # None
        PROVE  live'[bindings[i][f].object].ordinal = live[bindings[i][f].object].ordinal
    <3>1. bindings[i][f].object \in Objects /\ bindings[i][f].object # o
      BY <1>2, <2>1, <2>3, TableIs, BoundLive
    <3> QED
      BY <2>1, <3>1
  <2> QED
    BY <1>1, <2>2, <2>3 DEF Rows, P
<1>7. ASSUME NEW w \in Workspaces, Open(w) \/ Abandon(w) \/ Begin(w) PROVE P
  BY <1>3, <1>7 DEF Open, Abandon, Begin, db, objects, names
<1>8. ASSUME NEW w \in Workspaces, Prepare(w) \/ Rebuild(w) \/ Commit(w) PROVE P
  BY <1>3, <1>8 DEF Prepare, Rebuild, Commit, db, objects, names
<1>9. ASSUME NEW w \in Workspaces, Retire(w) PROVE P
  <2>1. retired' = [retired EXCEPT ![spaces[w].id] = w] /\ w # None
    BY <1>9, NoneAssumption DEF Retire
  <2>2. \A i \in Ids : retired'[i] = None => retired[i] = None
    BY <2>1 DEF TypeOK
  <2> QED
    BY <1>3, <1>9, <2>2 DEF Retire, objects
<1>10. ASSUME NEW w \in Workspaces, Install(w) PROVE P
  BY <1>1, <1>10, InstallRows DEF P
<1>11. ASSUME NEW w \in Workspaces, Prune(w) PROVE P
  <2> DEFINE k == handle[w].id
  <2>1. PICK g \in Files \ handle[w].keep :
          /\ k \in Ids /\ bindings[k][g] # None
          /\ members' = members \ {<<k, live[bindings[k][g].object].ordinal, g>>}
          /\ bindings' = [bindings EXCEPT ![k][g] = None]
          /\ SameObjects(live, live')
    BY <1>11, PruneStep
  <2>2. retired' = retired
    BY <1>11 DEF Prune, names
  <2>3. \A i \in Ids, f \in Files :
          bindings'[i][f] = IF i = k /\ f = g THEN None ELSE bindings[i][f]
    BY <2>1 DEF TypeOK, Tables
  <2> HIDE DEF k
  <2>4. ASSUME NEW i \in Ids, NEW n \in 1 .. MaxOrdinals, NEW f \in Files, <<i, n, f>> \in members'
        PROVE  bindings'[i][f] # None /\ live'[bindings'[i][f].object].ordinal = n
    <3>1. <<i, n, f>> \in members
      BY <2>1, <2>4
    <3>2. bindings[i][f] # None /\ live[bindings[i][f].object].ordinal = n
      BY <1>1, <3>1 DEF Rows
    <3>3. ~(i = k /\ f = g)
      BY <2>1, <2>4, <3>2
    <3> QED
      BY <1>4, <2>1, <2>3, <3>2, <3>3
  <2>5. ASSUME NEW i \in Ids, NEW f \in Files, bindings'[i][f] # None, retired'[i] = None
        PROVE  <<i, live'[bindings'[i][f].object].ordinal, f>> \in members'
    <3>1. ~(i = k /\ f = g) /\ bindings'[i][f] = bindings[i][f] /\ bindings[i][f] # None
      BY <2>3, <2>5
    <3>2. live'[bindings[i][f].object].ordinal = live[bindings[i][f].object].ordinal
      BY <1>4, <2>1, <3>1
    <3>3. <<i, live[bindings[i][f].object].ordinal, f>> \in members
      BY <1>1, <2>2, <2>5, <3>1 DEF Rows
    <3> QED
      BY <2>1, <3>1, <3>2, <3>3
  <2> QED
    BY <2>4, <2>5 DEF Rows, P
<1>12. ASSUME NEW k \in Ids, DeleteMember(k) PROVE P
  <2>1. PICK m \in members : members' = {x \in members : x[1] # k \/ x[2] # m[2]}
    BY <1>12 DEF DeleteMember
  <2>2. UNCHANGED <<bindings, live, retired>> /\ retired[k] # None
    BY <1>12 DEF DeleteMember, objects, names
  <2>3. \A i \in Ids, n \in 1 .. MaxOrdinals, f \in Files :
          <<i, n, f>> \in members' => <<i, n, f>> \in members
    BY <2>1
  <2>4. ASSUME NEW i \in Ids, NEW f \in Files, bindings[i][f] # None, retired[i] = None
        PROVE  <<i, live[bindings[i][f].object].ordinal, f>> \in members'
    <3>1. <<i, live[bindings[i][f].object].ordinal, f>> \in members
      BY <1>1, <2>4 DEF Rows
    <3> QED
      BY <2>1, <2>2, <2>4, <3>1
  <2> QED
    BY <1>1, <2>2, <2>3, <2>4 DEF Rows, P
<1>13. ASSUME NEW k \in Ids, DeleteBindings(k) PROVE P
  <2>1. PICK fs \in SUBSET Files : Ended(bindings, bindings', {k} \X fs)
    BY <1>13, DeletionStep
  <2>2. SameObjects(live, live')
    BY <1>13, DeletionStep
  <2>3. UNCHANGED <<members, retired>> /\ retired[k] # None /\ \A m \in members : m[1] # k
    BY <1>13 DEF DeleteBindings, names
  <2>4. ASSUME NEW i \in Ids, NEW f \in Files
        PROVE  bindings'[i][f] = IF i = k /\ f \in fs THEN None ELSE bindings[i][f]
    <3>1. <<i, f>> \in {k} \X fs <=> i = k /\ f \in fs
      OBVIOUS
    <3>2. bindings'[i][f] = IF <<i, f>> \in {k} \X fs THEN None ELSE bindings[i][f]
      BY <2>1 DEF Ended
    <3> QED
      BY <3>1, <3>2
  <2>5. ASSUME NEW i \in Ids, NEW n \in 1 .. MaxOrdinals, NEW f \in Files, <<i, n, f>> \in members'
        PROVE  bindings'[i][f] # None /\ live'[bindings'[i][f].object].ordinal = n
    <3>1. i # k /\ <<i, n, f>> \in members
      BY <2>3, <2>5
    <3> QED
      BY <1>1, <1>4, <2>2, <2>4, <3>1 DEF Rows
  <2>6. ASSUME NEW i \in Ids, NEW f \in Files, bindings'[i][f] # None, retired'[i] = None
        PROVE  <<i, live'[bindings'[i][f].object].ordinal, f>> \in members'
    <3>1. bindings'[i][f] = bindings[i][f] /\ retired[i] = None /\ bindings[i][f] # None
      BY <2>3, <2>4, <2>6
    <3> QED
      BY <1>1, <1>4, <2>2, <2>3, <3>1 DEF Rows
  <2> QED
    BY <2>5, <2>6 DEF Rows, P
<1>14. ASSUME NEW k \in Ids, DeleteNamespace(k) PROVE P
  <2>1. /\ retired' = [retired EXCEPT ![k] = None]
        /\ \A f \in Files : bindings[k][f] = None
        /\ UNCHANGED <<members, bindings, live>>
    BY <1>14 DEF DeleteNamespace, objects
  <2>2. \A i \in Ids : i # k => retired'[i] = retired[i]
    BY <2>1 DEF TypeOK
  <2> QED
    BY <1>1, <2>1, <2>2 DEF Rows, P
<1>15. ASSUME NEW r \in Readers, Drop(r) \/ \E w \in Workspaces : Snapshot(r, w) PROVE P
  BY <1>3, <1>15 DEF Drop, Snapshot, db, objects, names
<1> QED
  BY <1>5, <1>6, <1>7, <1>8, <1>9, <1>10, <1>11, <1>12, <1>13, <1>14, <1>15 DEF Next

-----------------------------------------------------------------------------
(* Aliases.                                                                *)

LEMMA AliasPreserved ==
    ASSUME TypeOK, Data, AliasTrue, Next
    PROVE  AliasTrue'
<1>1. ASSUME UNCHANGED <<alias, aliases>>, \A o \in Objects : live[o] # None => live'[o] # None
      PROVE  AliasTrue'
  BY <1>1 DEF AliasTrue, TypeOK
<1>2. CASE Tick \/ Crash
  BY <1>1, <1>2 DEF Tick, Crash, db, objects
<1>3. CASE Collect
  <2>1. PICK o \in Objects :
          /\ alias' = Unaliased(o) /\ aliases' = {a \in aliases : a[1] # o}
          /\ \A p \in Objects : p # o => live'[p] = live[p]
    BY <1>3, CollectStep
  <2>2. ASSUME NEW i \in Inputs, alias'[i] # None
        PROVE  live'[alias'[i]] # None /\ <<alias'[i], i>> \in aliases'
    <3>1. alias'[i] = alias[i] /\ ~(<<o, i>> \in aliases /\ alias[i] = o)
      BY <2>1, <2>2 DEF Unaliased
    <3>2. live[alias[i]] # None /\ <<alias[i], i>> \in aliases
      BY <2>2, <3>1 DEF AliasTrue
    <3>3. alias[i] # o /\ alias[i] \in Objects
      BY <2>2, <3>1, <3>2 DEF TypeOK
    <3> QED
      BY <2>1, <3>1, <3>2, <3>3
  <2> QED
    BY <2>2 DEF AliasTrue
<1>4. ASSUME NEW w \in Workspaces, Open(w) \/ Abandon(w) \/ Begin(w) \/ Retire(w)
      PROVE  AliasTrue'
  BY <1>1, <1>4 DEF Open, Abandon, Begin, Retire, db, objects
<1>5. ASSUME NEW w \in Workspaces, Prepare(w) \/ Rebuild(w) \/ Commit(w) PROVE AliasTrue'
  BY <1>1, <1>5 DEF Prepare, Rebuild, Commit, db, objects
<1>6. ASSUME NEW w \in Workspaces, Install(w) PROVE AliasTrue'
  <2> DEFINE j == handle[w].job
             o == j.object
  <2>1. o \in Objects /\ live'[o] # None /\ \A p \in Objects : live[p] # None => live'[p] # None
    BY <1>6, InstallStored
  <2>2. alias' = [i \in Inputs |-> IF i = j.input THEN o ELSE alias[i]]
    BY <1>6 DEF Install
  <2>3. aliases' = aliases \union {<<o, i>> : i \in Inputs \intersect {j.input}}
    BY <1>6 DEF Install
  <2> HIDE DEF j, o
  <2>4. ASSUME NEW i \in Inputs, alias'[i] # None
        PROVE  live'[alias'[i]] # None /\ <<alias'[i], i>> \in aliases'
    BY <2>1, <2>2, <2>3, <2>4 DEF AliasTrue, TypeOK
  <2> QED
    BY <2>4 DEF AliasTrue
<1>7. ASSUME NEW w \in Workspaces, Prune(w) PROVE AliasTrue'
  <2>1. SameObjects(live, live')
    BY <1>7, PruneStep
  <2> QED
    BY <1>1, <1>7, <2>1 DEF Prune, SameObjects
<1>8. ASSUME NEW i \in Ids, DeleteMember(i) \/ DeleteNamespace(i) PROVE AliasTrue'
  BY <1>1, <1>8 DEF DeleteMember, DeleteNamespace, objects
<1>9. ASSUME NEW i \in Ids, DeleteBindings(i) PROVE AliasTrue'
  <2>1. SameObjects(live, live')
    BY <1>9, DeletionStep
  <2> QED
    BY <1>1, <1>9, <2>1 DEF DeleteBindings, SameObjects
<1>10. ASSUME NEW r \in Readers, Drop(r) \/ \E w \in Workspaces : Snapshot(r, w) PROVE AliasTrue'
  BY <1>1, <1>10 DEF Drop, Snapshot, db, objects
<1> QED
  BY <1>2, <1>3, <1>4, <1>5, <1>6, <1>7, <1>8, <1>9, <1>10 DEF Next

-----------------------------------------------------------------------------
(* Readers.                                                                *)

LEMMA ReadersPreserved ==
    ASSUME TypeOK, Data, PinsOK, ViewsReadable, Next
    PROVE  PinsOK' /\ ViewsReadable'
<1>1. ASSUME UNCHANGED <<pins, view>>, \A o \in Objects : live[o] # None => live'[o] # None
      PROVE  PinsOK' /\ ViewsReadable'
  <2>1. \A o : Holding(o)' = Holding(o)
    BY <1>1 DEF Holding
  <2>2. PinsOK'
    BY <1>1, <2>1 DEF PinsOK
  <2>3. Live \subseteq Live'
    BY <1>1 DEF Live
  <2> QED
    BY <1>1, <2>2, <2>3 DEF ViewsReadable
<1>2. CASE Tick
  BY <1>1, <1>2 DEF Tick, db, objects
<1>3. CASE Crash
  <2>1. \A o : Holding(o)' = {}
    BY <1>3 DEF Crash, Holding
  <2>2. PinsOK'
    BY <1>3, <2>1, FS_EmptySet DEF Crash, PinsOK
  <2> QED
    BY <1>3, <2>2 DEF Crash, ViewsReadable
<1>4. CASE Collect
  <2>1. PICK o \in Objects :
          pins[o] = 0 /\ \A p \in Objects : p # o => live'[p] = live[p]
    BY <1>4, CollectStep
  <2>2. UNCHANGED <<pins, view>>
    BY <1>4 DEF Collect
  <2>3. Holding(o) = {}
    BY <2>1, HoldingFinite, FS_EmptySet DEF PinsOK
  <2>4. PinsOK'
    BY <2>2 DEF PinsOK, Holding
  <2>5. ASSUME NEW r \in Readers, view'[r] # None PROVE Held(view'[r]) \subseteq Live'
    <3>1. o \notin Held(view[r]) /\ Held(view[r]) \subseteq Live
      BY <2>2, <2>3, <2>5 DEF Holding, ViewsReadable
    <3> QED
      BY <2>1, <2>2, <3>1 DEF Live
  <2> QED
    BY <2>4, <2>5 DEF ViewsReadable
<1>5. ASSUME NEW w \in Workspaces, Open(w) \/ Abandon(w) \/ Begin(w) \/ Retire(w)
      PROVE  PinsOK' /\ ViewsReadable'
  BY <1>1, <1>5 DEF Open, Abandon, Begin, Retire, db, objects
<1>6. ASSUME NEW w \in Workspaces, Prepare(w) \/ Rebuild(w) \/ Commit(w)
      PROVE  PinsOK' /\ ViewsReadable'
  BY <1>1, <1>6 DEF Prepare, Rebuild, Commit, db, objects
<1>7. ASSUME NEW w \in Workspaces, Install(w) PROVE PinsOK' /\ ViewsReadable'
  BY <1>1, <1>7, InstallStored DEF Install
<1>8. ASSUME NEW w \in Workspaces, Prune(w) PROVE PinsOK' /\ ViewsReadable'
  <2>1. SameObjects(live, live')
    BY <1>8, PruneStep
  <2> QED
    BY <1>1, <1>8, <2>1 DEF Prune, SameObjects
<1>9. ASSUME NEW i \in Ids, DeleteMember(i) \/ DeleteNamespace(i)
      PROVE  PinsOK' /\ ViewsReadable'
  BY <1>1, <1>9 DEF DeleteMember, DeleteNamespace, objects
<1>10. ASSUME NEW i \in Ids, DeleteBindings(i) PROVE PinsOK' /\ ViewsReadable'
  <2>1. SameObjects(live, live')
    BY <1>10, DeletionStep
  <2> QED
    BY <1>1, <1>10, <2>1 DEF DeleteBindings, SameObjects
<1>11. ASSUME NEW r \in Readers, Drop(r) PROVE PinsOK' /\ ViewsReadable'
  <2>1. PinsOK'
    BY <1>11, DropPins DEF PinsOK
  <2>2. view' = [view EXCEPT ![r] = None] /\ Live' = Live
    BY <1>11 DEF Drop, db, objects, Live
  <2>3. \A q \in Readers : view'[q] # None => view'[q] = view[q]
    BY <2>2 DEF TypeOK
  <2> QED
    BY <2>1, <2>2, <2>3 DEF ViewsReadable
<1>12. ASSUME NEW r \in Readers, NEW w \in Workspaces, Snapshot(r, w)
       PROVE  PinsOK' /\ ViewsReadable'
  <2> DEFINE k == spaces[w].id
  <2>1. PinsOK'
    BY <1>12, SnapshotPins DEF PinsOK
  <2>2. k \in Ids
    BY <1>12 DEF TypeOK, Spaces, Snapshot
  <2>3. view' = [view EXCEPT ![r] = bindings[k]] /\ Live' = Live
    BY <1>12 DEF Snapshot, db, objects, Live
  <2>4. \A q \in Readers : view'[q] # None => view'[q] = view[q] \/ view'[q] = bindings[k]
    BY <2>3 DEF TypeOK
  <2> HIDE DEF k
  <2>5. Held(bindings[k]) \subseteq Live
    <3>1. ASSUME NEW f \in Files, bindings[k][f] # None PROVE bindings[k][f].object \in Live
      BY <2>2, <3>1, TableIs, DataIs, BoundLive DEF Live
    <3> QED
      BY <3>1 DEF Held
  <2> QED
    BY <2>1, <2>3, <2>4, <2>5 DEF ViewsReadable
<1> QED
  BY <1>2, <1>3, <1>4, <1>5, <1>6, <1>7, <1>8, <1>9, <1>10, <1>11, <1>12 DEF Next

-----------------------------------------------------------------------------
(* Namespaces.                                                             *)

\* A change of phase
LEMMA PhaseIs ==
    ASSUME TypeOK, NEW w \in Workspaces, spaces[w] # None, NEW phase \in {"dirty", "clean"},
           spaces' = [spaces EXCEPT ![w].phase = phase]
    PROVE  /\ spaces'[w] # None /\ spaces'[w].id = spaces[w].id /\ spaces'[w].phase = phase
           /\ \A v \in Workspaces : v # w => spaces'[v] = spaces[v]
<1>1. spaces[w] \in Spaces
  BY DEF TypeOK
<1>2. spaces'[w] = [spaces[w] EXCEPT !.phase = phase]
  BY DEF TypeOK
<1>3. spaces'[w] \in Spaces /\ spaces'[w].id = spaces[w].id /\ spaces'[w].phase = phase
  BY <1>1, <1>2 DEF Spaces
<1> QED
  BY <1>3, NoneAssumption DEF TypeOK

LEMMA SpacesPreserved ==
    ASSUME TypeOK, TypeOK', SpacesOK, Next
    PROVE  SpacesOK'
<1>1. ASSUME next'.id = next.id, \A i \in Ids : retired'[i] # None => retired[i] # None,
             \A v \in Workspaces :
               /\ spaces'[v] # None <=> spaces[v] # None
               /\ spaces'[v] # None => spaces'[v].id = spaces[v].id
      PROVE  SpacesOK'
  BY <1>1 DEF SpacesOK, TypeOK, Spaces
<1>2. CASE Tick \/ Crash \/ Collect
  BY <1>1, <1>2 DEF Tick, Crash, Collect, db, names
<1>3. ASSUME NEW w \in Workspaces, Open(w) PROVE SpacesOK'
  <2>1. CASE spaces[w] # None
    BY <1>1, <1>3, <2>1 DEF Open
  <2>2. CASE spaces[w] = None
    <3> DEFINE s == [id |-> next.id, phase |-> "dirty"]
    <3>1. spaces' = [spaces EXCEPT ![w] = s] /\ next'.id = next.id + 1 /\ retired' = retired
      BY <1>3, <2>2 DEF Open, TypeOK
    <3>2. s.id = next.id
      OBVIOUS
    <3> HIDE DEF s
    <3>3. spaces'[w] = s /\ \A v \in Workspaces : v # w => spaces'[v] = spaces[v]
      BY <3>1 DEF TypeOK
    <3>4. next.id \in Ids /\ next.id \in Nat /\ retired[next.id] = None
      BY <1>3, <2>2, BoundAssumption DEF Open, Ids, SpacesOK
    <3>5. \A v \in Workspaces : spaces[v] # None => spaces[v].id \in Nat
      BY BoundAssumption DEF TypeOK, Spaces, Ids
    <3>6. \A i \in Ids : retired'[i] # None => i < next'.id
      BY <3>1, <3>4 DEF SpacesOK, Ids
    <3>7. ASSUME NEW v \in Workspaces, spaces'[v] # None
          PROVE  /\ spaces'[v].id < next'.id /\ retired'[spaces'[v].id] = None
                 /\ \A u \in Workspaces : spaces'[u] # None /\ spaces'[u].id = spaces'[v].id => u = v
      <4>1. CASE v = w
        BY <3>1, <3>2, <3>3, <3>4, <3>5, <4>1 DEF SpacesOK
      <4>2. CASE v # w
        BY <3>1, <3>2, <3>3, <3>4, <3>5, <3>7, <4>2 DEF SpacesOK
      <4> QED
        BY <4>1, <4>2
    <3> QED
      BY <3>6, <3>7 DEF SpacesOK
  <2> QED
    BY <2>1, <2>2
<1>4. ASSUME NEW w \in Workspaces, Abandon(w) \/ Prepare(w) \/ Rebuild(w) \/ Prune(w)
      PROVE  SpacesOK'
  BY <1>1, <1>4 DEF Abandon, Prepare, Rebuild, Prune, db, names
<1>5. ASSUME NEW w \in Workspaces, Begin(w) \/ Install(w) \/ Commit(w) PROVE SpacesOK'
  <2>1. /\ spaces[w] # None /\ UNCHANGED retired /\ next'.id = next.id
        /\ \/ spaces' = [spaces EXCEPT ![w].phase = "dirty"]
           \/ spaces' = [spaces EXCEPT ![w].phase = "clean"]
    BY <1>5 DEF Begin, Install, Commit, Writable, TypeOK
  <2>2. /\ spaces'[w] # None /\ spaces'[w].id = spaces[w].id
        /\ \A v \in Workspaces : v # w => spaces'[v] = spaces[v]
    BY <2>1, PhaseIs
  <2> QED
    BY <1>1, <2>1, <2>2
<1>6. ASSUME NEW w \in Workspaces, Retire(w) PROVE SpacesOK'
  <2> DEFINE k == spaces[w].id
  <2>1. /\ spaces[w] # None /\ retired' = [retired EXCEPT ![k] = w]
        /\ spaces' = [spaces EXCEPT ![w] = None] /\ next' = next
    BY <1>6 DEF Retire
  <2>2. k \in Ids /\ k < next.id /\ \A v \in Workspaces : spaces[v] # None /\ spaces[v].id = k => v = w
    BY <2>1 DEF SpacesOK, TypeOK, Spaces
  <2> HIDE DEF k
  <2>3. spaces'[w] = None /\ \A v \in Workspaces : v # w => spaces'[v] = spaces[v]
    BY <2>1 DEF TypeOK
  <2>4. \A i \in Ids : i # k => retired'[i] = retired[i]
    BY <2>1 DEF TypeOK
  <2>5. \A v \in Workspaces : spaces[v] # None => spaces[v].id \in Ids
    BY DEF TypeOK, Spaces
  <2> QED
    BY <2>1, <2>2, <2>3, <2>4, <2>5 DEF SpacesOK
<1>7. ASSUME NEW i \in Ids, DeleteMember(i) \/ DeleteBindings(i) PROVE SpacesOK'
  BY <1>1, <1>7 DEF DeleteMember, DeleteBindings, names
<1>8. ASSUME NEW i \in Ids, DeleteNamespace(i) PROVE SpacesOK'
  BY <1>1, <1>8 DEF DeleteNamespace, TypeOK
<1>9. ASSUME NEW r \in Readers, Drop(r) \/ \E w \in Workspaces : Snapshot(r, w) PROVE SpacesOK'
  BY <1>1, <1>9 DEF Drop, Snapshot, db, names
<1> QED
  BY <1>2, <1>3, <1>4, <1>5, <1>6, <1>7, <1>8, <1>9 DEF Next

LEMMA HandlePreserved ==
    ASSUME TypeOK, TypeOK', SpacesOK, HandleOK, Next
    PROVE  HandleOK'
<1>1. ASSUME UNCHANGED spaces,
             \A v \in Workspaces : handle'[v] # None =>
               handle[v] # None /\ handle'[v].id = handle[v].id /\ handle'[v].at = handle[v].at
      PROVE  HandleOK'
  BY <1>1 DEF HandleOK, At, Writable
<1>2. CASE Tick \/ Collect
  BY <1>1, <1>2 DEF Tick, Collect, db, names
<1>3. CASE Crash
  BY <1>3 DEF Crash, HandleOK, At
<1>4. ASSUME NEW w \in Workspaces, Open(w) PROVE HandleOK'
  <2>1. handle'[w].at = "open" /\ \A v \in Workspaces : v # w => handle'[v] = handle[v]
    BY <1>4 DEF Open, TypeOK
  <2>2. \A v \in Workspaces : v # w => spaces'[v] = spaces[v]
    BY <1>4 DEF Open, TypeOK
  <2> QED
    BY <2>1, <2>2 DEF HandleOK, At, Writable
<1>5. ASSUME NEW w \in Workspaces, Abandon(w) \/ Prune(w) PROVE HandleOK'
  BY <1>1, <1>5 DEF Abandon, Prune, db, names, TypeOK
<1>6. ASSUME NEW w \in Workspaces, Prepare(w) \/ Rebuild(w) PROVE HandleOK'
  <2>1. handle[w] \in Refreshes /\ spaces' = spaces
    BY <1>6 DEF Prepare, Rebuild, At, TypeOK, db, names
  <2>2. handle'[w].id = handle[w].id /\ handle'[w].at = handle[w].at
    BY <1>6, <2>1 DEF Prepare, Rebuild, TypeOK, Refreshes
  <2>3. \A v \in Workspaces : v # w => handle'[v] = handle[v]
    BY <1>6 DEF Prepare, Rebuild, TypeOK
  <2> QED
    BY <1>1, <1>6, <2>1, <2>2, <2>3 DEF Prepare, Rebuild, At
<1>7. ASSUME NEW w \in Workspaces, Begin(w) \/ Install(w) PROVE HandleOK'
  <2>1. spaces[w] # None /\ spaces' = [spaces EXCEPT ![w].phase = "dirty"]
    BY <1>7 DEF Begin, Install, Writable
  <2>2. spaces'[w].phase = "dirty" /\ \A v \in Workspaces : v # w => spaces'[v] = spaces[v]
    BY <2>1, PhaseIs
  <2>3. \A v \in Workspaces : v # w => handle'[v] = handle[v]
    BY <1>7 DEF Begin, Install, TypeOK
  <2> QED
    BY <2>2, <2>3 DEF HandleOK, At, Writable
<1>8. ASSUME NEW w \in Workspaces, Commit(w) PROVE HandleOK'
  <2>1. handle'[w] = None /\ \A v \in Workspaces : v # w => handle'[v] = handle[v] /\ spaces'[v] = spaces[v]
    BY <1>8 DEF Commit, TypeOK
  <2> QED
    BY <2>1 DEF HandleOK, At, Writable
<1>9. ASSUME NEW w \in Workspaces, Retire(w) PROVE HandleOK'
  <2>1. spaces'[w] = None /\ \A v \in Workspaces : v # w => spaces'[v] = spaces[v]
    BY <1>9 DEF Retire, TypeOK
  <2>2. handle' = handle
    BY <1>9 DEF Retire
  <2> QED
    BY <2>1, <2>2 DEF HandleOK, At, Writable
<1>10. ASSUME NEW i \in Ids, DeleteMember(i) \/ DeleteBindings(i) \/ DeleteNamespace(i)
       PROVE  HandleOK'
  BY <1>1, <1>10 DEF DeleteMember, DeleteBindings, DeleteNamespace, names
<1>11. ASSUME NEW r \in Readers, Drop(r) \/ \E w \in Workspaces : Snapshot(r, w) PROVE HandleOK'
  BY <1>1, <1>11 DEF Drop, Snapshot, db, names
<1> QED
  BY <1>2, <1>3, <1>4, <1>5, <1>6, <1>7, <1>8, <1>9, <1>10, <1>11 DEF Next

\* What is bound in a namespace
BoundFiles(bs, i) == {f \in Files : bs[i][f] # None}

LEMMA CleanPreserved ==
    ASSUME TypeOK, TypeOK', Data, SpacesOK, HandleOK, CleanTrue, Next
    PROVE  CleanTrue'
<1> DEFINE Kept1(v) == /\ spaces[v] # None /\ spaces[v].phase = "clean"
                       /\ spaces'[v] = spaces[v]
                       /\ manifest'[spaces[v].id] = manifest[spaces[v].id]
                       /\ BoundFiles(bindings', spaces[v].id) = BoundFiles(bindings, spaces[v].id)
<1>1. ASSUME \A v \in Workspaces : spaces'[v] # None /\ spaces'[v].phase = "clean" =>
               \/ Kept1(v)
               \/ manifest'[spaces'[v].id] = BoundFiles(bindings', spaces'[v].id)
      PROVE  CleanTrue'
  <2>1. ASSUME NEW v \in Workspaces, spaces'[v] # None, spaces'[v].phase = "clean"
        PROVE  manifest'[spaces'[v].id] = BoundFiles(bindings', spaces'[v].id)
    <3>1. CASE Kept1(v)
      <4>1. manifest[spaces[v].id] = BoundFiles(bindings, spaces[v].id)
        BY <3>1 DEF CleanTrue, BoundFiles
      <4> QED
        BY <3>1, <4>1
    <3> QED
      BY <1>1, <2>1, <3>1
  <2> QED
    BY <2>1 DEF CleanTrue, BoundFiles
<1>2. ASSUME UNCHANGED <<spaces, manifest, bindings>> PROVE CleanTrue'
  BY <1>2 DEF CleanTrue
<1>3. \A v \in Workspaces : spaces[v] # None => spaces[v].id \in Ids
  BY DEF TypeOK, Spaces
<1>4. CASE Tick \/ Crash \/ Collect
  BY <1>2, <1>4 DEF Tick, Crash, Collect, db, names
<1>5. ASSUME NEW w \in Workspaces, Open(w) PROVE CleanTrue'
  <2>1. CASE spaces[w] # None
    BY <1>2, <1>5, <2>1 DEF Open
  <2>2. CASE spaces[w] = None
    <3>1. spaces' = [spaces EXCEPT ![w] = [id |-> next.id, phase |-> "dirty"]]
      BY <1>5, <2>2 DEF Open
    <3>2. spaces'[w].phase = "dirty" /\ \A v \in Workspaces : v # w => spaces'[v] = spaces[v]
      BY <3>1 DEF TypeOK
    <3>3. UNCHANGED <<manifest, bindings>>
      BY <1>5 DEF Open
    <3> QED
      BY <3>2, <3>3 DEF CleanTrue
  <2> QED
    BY <2>1, <2>2
<1>6. ASSUME NEW w \in Workspaces, Abandon(w) \/ Prepare(w) \/ Rebuild(w) PROVE CleanTrue'
  BY <1>2, <1>6 DEF Abandon, Prepare, Rebuild, db, names
<1>7. ASSUME NEW w \in Workspaces, Begin(w) PROVE CleanTrue'
  <2>1. spaces[w] # None /\ spaces' = [spaces EXCEPT ![w].phase = "dirty"] /\ UNCHANGED <<manifest, bindings>>
    BY <1>7 DEF Begin, Writable
  <2>2. spaces'[w].phase = "dirty" /\ \A v \in Workspaces : v # w => spaces'[v] = spaces[v]
    BY <2>1, PhaseIs
  <2> QED
    BY <2>1, <2>2 DEF CleanTrue
<1>8. ASSUME NEW w \in Workspaces, Retire(w) PROVE CleanTrue'
  <2>1. spaces'[w] = None /\ \A v \in Workspaces : v # w => spaces'[v] = spaces[v]
    BY <1>8 DEF Retire, TypeOK
  <2>2. UNCHANGED <<manifest, bindings>>
    BY <1>8 DEF Retire
  <2> QED
    BY <2>1, <2>2 DEF CleanTrue
<1>9. ASSUME NEW w \in Workspaces, Install(w) PROVE CleanTrue'
  <2> DEFINE k == handle[w].id
             g == handle[w].job.file
  <2>1. /\ spaces[w] # None /\ spaces[w].id = k /\ manifest' = manifest
        /\ spaces' = [spaces EXCEPT ![w].phase = "dirty"]
    BY <1>9 DEF Install, Writable
  <2>2. spaces'[w].phase = "dirty" /\ \A v \in Workspaces : v # w => spaces'[v] = spaces[v]
    BY <2>1, PhaseIs
  <2>3. \A i \in Ids : i # k => bindings'[i] = bindings[i]
    BY <1>9 DEF Install, TypeOK
  <2> HIDE DEF k
  <2>4. \A v \in Workspaces : v # w /\ spaces[v] # None => spaces[v].id # k
    BY <2>1 DEF SpacesOK
  <2> QED
    BY <1>3, <2>1, <2>2, <2>3, <2>4 DEF CleanTrue
<1>10. ASSUME NEW w \in Workspaces, Prune(w) PROVE CleanTrue'
  <2> DEFINE k == handle[w].id
  <2>1. /\ handle[w] # None /\ handle[w].at = "install" /\ Writable(w)
        /\ spaces[w] # None /\ spaces[w].id = k
    BY <1>10 DEF Prune, Finishing, Writable
  <2>2. spaces[w].phase = "dirty"
    BY <2>1 DEF HandleOK, At
  <2>3. UNCHANGED <<spaces, manifest>>
    BY <1>10 DEF Prune, names
  <2>4. PICK f \in Files : bindings' = [bindings EXCEPT ![k][f] = None]
    BY <1>10, PruneStep
  <2>5. \A i \in Ids : i # k => bindings'[i] = bindings[i]
    BY <2>4 DEF TypeOK
  <2> HIDE DEF k
  <2>6. \A v \in Workspaces : v # w /\ spaces[v] # None => spaces[v].id # k
    BY <2>1 DEF SpacesOK
  <2> QED
    BY <1>3, <2>2, <2>3, <2>5, <2>6 DEF CleanTrue
<1>11. ASSUME NEW w \in Workspaces, Commit(w) PROVE CleanTrue'
  <2> DEFINE k == handle[w].id
  <2>1. /\ spaces[w] # None /\ spaces[w].id = k /\ bindings' = bindings
        /\ spaces' = [spaces EXCEPT ![w].phase = "clean"]
        /\ manifest' = [manifest EXCEPT ![k] = handle[w].keep]
    BY <1>11 DEF Commit, Writable
  <2>2. spaces'[w].id = k /\ \A v \in Workspaces : v # w => spaces'[v] = spaces[v]
    BY <2>1, PhaseIs
  <2>3. handle[w].keep = BoundFiles(bindings, k)
    <3>1. handle[w].keep \subseteq Files
      BY <1>11, RefreshIs DEF Commit
    <3>2. \A f \in Files : f \in handle[w].keep <=> bindings[k][f] # None
      BY <1>11 DEF Commit, Reconciled
    <3> QED
      BY <3>1, <3>2 DEF BoundFiles
  <2> HIDE DEF k
  <2>4. \A v \in Workspaces : v # w /\ spaces[v] # None => spaces[v].id # k
    BY <2>1 DEF SpacesOK
  <2>5. k \in Ids
    BY <1>3, <2>1
  <2>6. manifest'[k] = BoundFiles(bindings', k) /\ \A i \in Ids : i # k => manifest'[i] = manifest[i]
    BY <2>1, <2>3, <2>5 DEF TypeOK
  <2>7. ASSUME NEW v \in Workspaces, v # w, spaces'[v] # None, spaces'[v].phase = "clean"
        PROVE  Kept1(v)
    BY <1>3, <2>1, <2>2, <2>4, <2>6, <2>7
  <2> HIDE DEF Kept1
  <2> QED
    BY <1>1, <2>2, <2>6, <2>7
<1>12. ASSUME NEW i \in Ids, DeleteMember(i) PROVE CleanTrue'
  BY <1>2, <1>12 DEF DeleteMember, names
<1>13. ASSUME NEW k \in Ids, DeleteBindings(k) PROVE CleanTrue'
  <2>1. retired[k] # None /\ UNCHANGED <<spaces, manifest>>
    BY <1>13 DEF DeleteBindings, names
  <2>2. PICK fs \in SUBSET Files : Ended(bindings, bindings', {k} \X fs)
    BY <1>13, DeletionStep
  <2>3. ASSUME NEW i \in Ids, i # k PROVE BoundFiles(bindings', i) = BoundFiles(bindings, i)
    <3>1. ASSUME NEW f \in Files PROVE bindings'[i][f] = bindings[i][f]
      <4>1. <<i, f>> \in Ids \X Files /\ <<i, f>> \notin {k} \X fs
        BY <2>3
      <4> QED
        BY <2>2, <4>1 DEF Ended
    <3> QED
      BY <3>1 DEF BoundFiles
  <2>4. \A v \in Workspaces : spaces[v] # None => spaces[v].id # k
    BY <2>1 DEF SpacesOK
  <2>5. \A v \in Workspaces : spaces'[v] # None /\ spaces'[v].phase = "clean" => Kept1(v)
    BY <1>3, <2>1, <2>3, <2>4
  <2> HIDE DEF Kept1
  <2> QED
    BY <1>1, <2>5
<1>14. ASSUME NEW k \in Ids, DeleteNamespace(k) PROVE CleanTrue'
  <2>1. /\ retired[k] # None /\ UNCHANGED <<spaces, bindings>>
        /\ manifest' = [manifest EXCEPT ![k] = None]
    BY <1>14 DEF DeleteNamespace
  <2>2. \A i \in Ids : i # k => manifest'[i] = manifest[i]
    BY <2>1 DEF TypeOK
  <2>3. \A v \in Workspaces : spaces[v] # None => spaces[v].id # k
    BY <2>1 DEF SpacesOK
  <2> QED
    BY <1>3, <2>1, <2>2, <2>3 DEF CleanTrue
<1>15. ASSUME NEW r \in Readers, Drop(r) \/ \E w \in Workspaces : Snapshot(r, w) PROVE CleanTrue'
  BY <1>2, <1>15 DEF Drop, Snapshot, db, names
<1> QED
  BY <1>4, <1>5, <1>6, <1>7, <1>8, <1>9, <1>10, <1>11, <1>12, <1>13, <1>14, <1>15 DEF Next

-----------------------------------------------------------------------------
(* Together.                                                               *)

LEMMA Initially ==
    Init => IInv
<1> SUFFICES ASSUME Init PROVE IInv
  OBVIOUS
<1>1. TypeOK
  <2>1. [f \in Files |-> None] \in Tables
    BY DEF Tables
  <2>2. next \in [id : 1 .. MaxSpaces + 1, ordinal : 1 .. MaxOrdinals + 1]
    BY BoundAssumption DEF Init
  <2>3. now \in Times
    BY BoundAssumption DEF Init, Times
  <2> QED
    BY <2>1, <2>2, <2>3 DEF Init, TypeOK
<1>2. Counts
  <2>1. \A o \in Objects : Users(o) = {}
    BY DEF Init, Users, Bindings
  <2> QED
    BY <2>1, FS_EmptySet DEF Counts, Init
<1>3. Live = {}
  BY DEF Init, Live
<1>4. PostedTrue /\ UnusedTrue /\ TimesOK /\ OrdinalsOK
  BY <1>3 DEF Init, PostedTrue, UnusedTrue, TimesOK, OrdinalsOK
<1>5. MembersTrue
  BY DEF Init, MembersTrue, Bindings
<1>6. AliasTrue /\ CleanTrue /\ ViewsReadable
  BY DEF Init, AliasTrue, CleanTrue, ViewsReadable
<1>7. SpacesOK /\ HandleOK
  BY DEF Init, SpacesOK, HandleOK, At
<1>8. PinsOK
  <2>1. \A o : Holding(o) = {}
    BY DEF Init, Holding
  <2> QED
    BY <2>1, FS_EmptySet DEF PinsOK, Init
<1> QED
  BY <1>1, <1>2, <1>4, <1>5, <1>6, <1>7, <1>8 DEF IInv, StoreTrue

LEMMA Preserved ==
    IInv /\ [Next]_vars => IInv'
<1> SUFFICES ASSUME IInv, [Next]_vars PROVE IInv'
  OBVIOUS
<1>1. /\ TypeOK /\ Data /\ Posted /\ MembersTrue /\ AliasTrue /\ CleanTrue /\ ViewsReadable
      /\ SpacesOK /\ HandleOK /\ PinsOK
  BY DEF IInv, StoreTrue, Data, Posted
<1>2. CASE UNCHANGED vars
  <2>1. TypeOK' /\ SpacesOK' /\ HandleOK' /\ CleanTrue' /\ AliasTrue'
    BY <1>1, <1>2 DEF vars, db, names, objects, TypeOK, SpacesOK, HandleOK, At, Writable,
                      CleanTrue, AliasTrue
  <2>2. Data' /\ Posted'
    BY <1>1, <1>2 DEF vars, db, names, objects, Data, Counts, Users, Bindings, Object,
                      UnusedTrue, TimesOK, Live, Posted, PostedTrue, OrdinalsOK
  <2>3. MembersTrue' /\ ViewsReadable' /\ PinsOK'
    BY <1>1, <1>2 DEF vars, db, names, objects, MembersTrue, Bindings, Object,
                      ViewsReadable, Live, PinsOK, Holding
  <2> QED
    BY <2>1, <2>2, <2>3 DEF IInv, StoreTrue, Data, Posted
<1>3. CASE Next
  <2>1. TypeOK'
    BY <1>1, <1>3, TypePreserved
  <2>2. Data' /\ Posted'
    BY <1>1, <1>3, <2>1, DataPreserved, PostedPreserved
  <2>3. SpacesOK' /\ HandleOK' /\ CleanTrue'
    BY <1>1, <1>3, <2>1, SpacesPreserved, HandlePreserved, CleanPreserved
  <2>4. MembersTrue' /\ AliasTrue'
    BY <1>1, <1>3, <2>1, MembersPreserved, AliasPreserved
  <2>5. PinsOK' /\ ViewsReadable'
    BY <1>1, <1>3, ReadersPreserved
  <2> QED
    BY <2>1, <2>2, <2>3, <2>4, <2>5 DEF IInv, StoreTrue, Data, Posted
<1> QED
  BY <1>2, <1>3

\* The inductive invariant holds in every reachable state.
THEOREM Invariant == Spec => []IInv
  BY Initially, Preserved, PTL DEF Spec

\* The shared database stays consistent: however refreshes, retirements,
\* deletions, collections, crashes and readers interleave, what it counts,
\* lists, posts and aliases agrees with what is bound, a clean namespace binds
\* its manifest, and a reader can read every object of its view.
THEOREM StoreCorrect == Spec => []StoreTrue
<1>1. IInv => StoreTrue
  BY DEF IInv
<1> QED
  BY <1>1, Invariant, PTL
=============================================================================
