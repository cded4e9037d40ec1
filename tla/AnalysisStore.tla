---------------------------- MODULE AnalysisStore ----------------------------
(***************************************************************************)
(* src/src/store/shared.rs: the analysis database that workspaces share.   *)
(*                                                                         *)
(* A workspace owns a namespace in which it binds its files to immutable   *)
(* objects, which other workspaces may bind as well.  A refresh makes the  *)
(* namespace dirty, installs bindings, prunes the others and commits a     *)
(* manifest.  Objects count their bindings; what nobody binds is listed    *)
(* and collected later.  Readers pin the objects of a clean namespace.     *)
(*                                                                         *)
(* A transaction of the database is a step; what is prepared outside of    *)
(* one is a step of its own.  Abstracted: a batch is one file (GroupCommit *)
(* models how batches share a transaction); the names an object posts are  *)
(* the fact that its ordinal is posted; a revision is the input it was     *)
(* made from.  Namespaces of older layouts are left out.                   *)
(***************************************************************************)
EXTENDS Integers, FiniteSets

CONSTANTS
  Workspaces,   \* fingerprints
  Files, Objects, Inputs, Readers,
  None,
  MaxSpaces,    \* namespaces that are given out
  MaxOrdinals,  \* objects that are stored
  MaxNow

Ids == 1 .. MaxSpaces
Times == 0 .. MaxNow

\* What the database and the process keep: records of the live namespaces,
\* bindings, stored objects, prepared installations, and refreshes in progress.
Spaces == [id : Ids, phase : {"dirty", "clean"}]
Binding == [object : Objects, revision : Inputs \union {None}]
Stored == [ordinal : 1 .. MaxOrdinals, bindings : Nat, unused : Times \union {None}]
Jobs == [file : Files, input : Inputs \union {None}, object : Objects,
         expected : Binding \union {None}, encoded : BOOLEAN, at : Times]
Refreshes == [id : Ids, at : {"open", "install"}, keep : SUBSET Files,
              todo : SUBSET Files, job : Jobs \union {None}]
\* The bindings of one namespace
Tables == [Files -> Binding \union {None}]

ASSUME BoundAssumption == MaxSpaces \in Nat /\ MaxOrdinals \in Nat /\ MaxNow \in Nat
ASSUME FiniteAssumption == IsFiniteSet(Files) /\ IsFiniteSet(Readers)
\* The name of nothing names nothing.
ASSUME NoneAssumption ==
  /\ None \notin Workspaces /\ None \notin Objects /\ None \notin Inputs
  /\ None \notin Times /\ None \notin Spaces /\ None \notin Binding
  /\ None \notin Stored /\ None \notin Jobs /\ None \notin Refreshes
  /\ None \notin Tables

VARIABLES
  spaces,    \* workspace -> None, or the id and phase of its namespace
  retired,   \* id -> the workspace of a retired namespace, or None
  next,      \* next-workspace and next-object
  bindings,  \* namespace, file -> None, or object and revision
  live,      \* object -> None, or ordinal, bindings and unused_since
  members,   \* namespace, ordinal and file
  posted,    \* ordinals in the shared postings
  unused,    \* the index of unused objects: object and time
  alias,     \* input -> the object made from it, or None
  aliases,   \* object and input: the records that undo an alias
  manifest,  \* namespace -> None, or the files of its manifest
  pins,      \* object -> views that hold it
  view,      \* reader -> None, or the bindings it pinned
  handle,    \* workspace -> None, or a refresh in progress
  now

names == <<spaces, retired, manifest>>
objects == <<live, posted, unused, alias, aliases>>
db == <<names, next, bindings, members, objects>>
vars == <<db, pins, view, handle, now>>

Init ==
  /\ spaces = [w \in Workspaces |-> None] /\ retired = [i \in Ids |-> None]
  /\ next = [id |-> 1, ordinal |-> 1]
  /\ bindings = [i \in Ids |-> [f \in Files |-> None]]
  /\ live = [o \in Objects |-> None]
  /\ members = {} /\ posted = {} /\ unused = {}
  /\ alias = [i \in Inputs |-> None] /\ aliases = {}
  /\ manifest = [i \in Ids |-> None]
  /\ pins = [o \in Objects |-> 0]
  /\ view = [r \in Readers |-> None] /\ handle = [w \in Workspaces |-> None]
  /\ now = 0

Tick == now < MaxNow /\ now' = now + 1 /\ UNCHANGED <<db, pins, view, handle>>

-----------------------------------------------------------------------------
(* Namespaces                                                              *)

\* workspace(): the live namespace of the fingerprint, or a new one.
Open(w) ==
  /\ handle[w] = None
  /\ IF spaces[w] # None
       THEN UNCHANGED <<spaces, next>>
       ELSE /\ next.id \in Ids
            /\ spaces' = [spaces EXCEPT ![w] = [id |-> next.id, phase |-> "dirty"]]
            /\ next' = [next EXCEPT !.id = @ + 1]
  /\ \E keep \in SUBSET Files :
       handle' = [handle EXCEPT ![w] = [id |-> spaces'[w].id, at |-> "open", keep |-> keep,
                                        todo |-> keep, job |-> None]]
  /\ UNCHANGED <<retired, manifest, bindings, members, objects, pins, view, now>>

\* A handle outlives its namespace; writable() refuses it.
Writable(w) == spaces[w] # None /\ spaces[w].id = handle[w].id

At(w, here) == handle[w] # None /\ handle[w].at = here

\* A refused or failed refresh is given up.
Abandon(w) ==
  /\ handle[w] # None
  /\ handle' = [handle EXCEPT ![w] = None]
  /\ UNCHANGED <<db, pins, view, now>>

\* begin_refresh()
Begin(w) ==
  /\ At(w, "open") /\ Writable(w)
  /\ spaces' = [spaces EXCEPT ![w].phase = "dirty"]
  /\ handle' = [handle EXCEPT ![w].at = "install"]
  /\ UNCHANGED <<retired, manifest, next, bindings, members, objects, pins, view, now>>

\* mark_deleting(): the namespace leaves its fingerprint.
Retire(w) ==
  /\ spaces[w] # None
  /\ retired' = [retired EXCEPT ![spaces[w].id] = w]
  /\ spaces' = [spaces EXCEPT ![w] = None]
  /\ UNCHANGED <<manifest, next, bindings, members, objects, pins, view, handle, now>>

-----------------------------------------------------------------------------
(* Objects                                                                 *)

\* Mutant: an object that is bound again stays in the index.
StaysListed(l, o) == {}

\* adjust(): a binding more takes the object out of the unused index.
Unlisted(l, o) == IF l[o].unused = None THEN {} ELSE {<<o, l[o].unused>>}

Bound(l, u, o) ==
  [live |-> [l EXCEPT ![o].bindings = @ + 1, ![o].unused = None],
   unused |-> u \ Unlisted(l, o)]

\* adjust(): the last binding puts it in.
Released(l, u, o, n, at) ==
  LET left == l[o].bindings - n IN
  [live |-> [l EXCEPT ![o].bindings = left, ![o].unused = IF left = 0 THEN at ELSE @],
   unused |-> IF left = 0 THEN u \union {<<o, at>>} ELSE u]

\* prepare_install() or prepare_reuse(), in a transaction of its own: the
\* binding it expects, and an encoding unless the object is there.
Prepare(w) ==
  /\ At(w, "install") /\ handle[w].job = None /\ Writable(w)
  /\ \E f \in handle[w].todo, i \in Inputs \union {None}, o \in Objects :
       /\ (i # None /\ alias[i] # None) => o = alias[i]
       /\ handle' = [handle EXCEPT ![w].job =
            [file |-> f, input |-> i, object |-> o, expected |-> bindings[handle[w].id][f],
             encoded |-> live[o] = None, at |-> now]]
  /\ UNCHANGED <<db, pins, view, now>>

\* A hit that was collected after it was prepared is built again.
Rebuild(w) ==
  /\ At(w, "install") /\ handle[w].job # None
  /\ live[handle[w].job.object] = None /\ ~handle[w].job.encoded
  /\ handle' = [handle EXCEPT ![w].job.encoded = TRUE]
  /\ UNCHANGED <<db, pins, view, now>>

\* Mutant: the old binding of the file stays counted.
Unreleased(l, u, old, o, at) == Bound(l, u, o)

\* The counts of the object a file leaves and of the one it is bound to.
Rebound(l, u, old, o, at) ==
  IF old # None /\ old.object = o THEN [live |-> l, unused |-> u]
  ELSE IF old = None THEN Bound(l, u, o)
  ELSE LET r == Released(l, u, old.object, 1, at) IN Bound(r.live, r.unused, o)

\* Mutant: the member row of the old object stays.
Added(i, f, old, o, l) == members \union {<<i, l[o].ordinal, f>>}

\* The member row of the file moves to the ordinal of its new object.
Moved(i, f, old, o, l) ==
  (IF old = None THEN members ELSE members \ {<<i, l[old.object].ordinal, f>>})
  \union {<<i, l[o].ordinal, f>>}

\* install_in() stores an object that is not there.
Stocked(o, at) ==
  IF live[o] # None THEN live
  ELSE [live EXCEPT ![o] = [ordinal |-> next.ordinal, bindings |-> 0, unused |-> at]]

\* install_in() and the alias of apply_batch_in(), in one transaction.
Install(w) ==
  /\ At(w, "install") /\ handle[w].job # None /\ Writable(w)
  /\ LET h == handle[w]
         j == h.job
         o == j.object
         old == bindings[h.id][j.file]
         l == Stocked(o, j.at)
         r == Rebound(l, unused, old, o, j.at) IN
     /\ old = j.expected
     /\ live[o] # None \/ (j.encoded /\ next.ordinal <= MaxOrdinals)
     /\ live' = r.live /\ unused' = r.unused
     /\ IF live[o] = None
          THEN posted' = posted \union {next.ordinal}
               /\ next' = [next EXCEPT !.ordinal = @ + 1]
          ELSE UNCHANGED <<posted, next>>
     /\ members' = Moved(h.id, j.file, old, o, l)
     /\ bindings' = [bindings EXCEPT ![h.id][j.file] = [object |-> o, revision |-> j.input]]
     /\ spaces' = [spaces EXCEPT ![w].phase = "dirty"]
     /\ alias' = [i \in Inputs |-> IF i = j.input THEN o ELSE alias[i]]
     /\ aliases' = aliases \union {<<o, i>> : i \in Inputs \intersect {j.input}}
     /\ handle' = [handle EXCEPT ![w].todo = @ \ {j.file}, ![w].job = None]
  /\ UNCHANGED <<retired, manifest, pins, view, now>>

\* Every file of the refresh is installed.
Finishing(w) == handle[w].at = "install" /\ handle[w].todo = {}

\* finish_refresh() detaches what the manifest does not keep.
Prune(w) ==
  /\ handle[w] # None /\ Finishing(w) /\ Writable(w)
  /\ LET h == handle[w] IN
     \E f \in Files \ h.keep :
       /\ bindings[h.id][f] # None
       /\ LET o == bindings[h.id][f].object
              r == Released(live, unused, o, 1, now) IN
          /\ live' = r.live /\ unused' = r.unused
          /\ members' = members \ {<<h.id, live[o].ordinal, f>>}
       /\ bindings' = [bindings EXCEPT ![h.id][f] = None]
  /\ UNCHANGED <<names, next, posted, alias, aliases, pins, view, handle, now>>

\* Mutant: the manifest is committed without pruning.
Kept(h) == \A f \in h.keep : bindings[h.id][f] # None

\* Every file of the manifest is bound, and no other is.
Reconciled(h) == \A f \in Files : (f \in h.keep) <=> (bindings[h.id][f] # None)

\* The last transaction of finish_refresh().
Commit(w) ==
  /\ handle[w] # None /\ Finishing(w) /\ Writable(w)
  /\ Reconciled(handle[w])
  /\ spaces' = [spaces EXCEPT ![w].phase = "clean"]
  /\ manifest' = [manifest EXCEPT ![handle[w].id] = handle[w].keep]
  /\ handle' = [handle EXCEPT ![w] = None]
  /\ UNCHANGED <<retired, next, bindings, members, objects, pins, view, now>>

-----------------------------------------------------------------------------
(* Collection, deletion and readers                                        *)

\* Mutant: pins are not looked at.
AnyUnused(o) == TRUE
Unpinned(o) == pins[o] = 0

\* Mutant: the aliases of a collected object stay.
Aliased(o) == alias

\* An alias that points to another object by now is left alone.
Unaliased(o) == [i \in Inputs |-> IF <<o, i>> \in aliases /\ alias[i] = o THEN None ELSE alias[i]]

\* collect_before(): one expired, unused and unpinned object.
Collect ==
  /\ \E e \in unused :
       LET o == e[1] IN
       /\ e[2] <= now /\ Unpinned(o)
       /\ posted' = posted \ {live[o].ordinal}
       /\ alias' = Unaliased(o)
       /\ aliases' = {a \in aliases : a[1] # o}
       /\ live' = [live EXCEPT ![o] = None]
       /\ unused' = unused \ {e}
  /\ UNCHANGED <<names, next, bindings, members, pins, view, handle, now>>

\* delete_batch(): member rows first, then bindings, then the namespace.
DeleteMember(i) ==
  /\ retired[i] # None
  /\ \E m \in members : m[1] = i /\ members' = {x \in members : x[1] # i \/ x[2] # m[2]}
  /\ UNCHANGED <<names, next, bindings, objects, pins, view, handle, now>>

DeleteBindings(i) ==
  /\ retired[i] # None /\ \A m \in members : m[1] # i
  /\ \E o \in Objects :
       LET fs == {f \in Files : bindings[i][f] # None /\ bindings[i][f].object = o}
           r == Released(live, unused, o, Cardinality(fs), now) IN
       /\ fs # {}
       /\ live' = r.live /\ unused' = r.unused
       /\ bindings' = [bindings EXCEPT ![i] = [f \in Files |-> IF f \in fs THEN None ELSE @[f]]]
  /\ UNCHANGED <<names, next, members, posted, alias, aliases, pins, view, handle, now>>

DeleteNamespace(i) ==
  /\ retired[i] # None /\ \A m \in members : m[1] # i
  /\ \A f \in Files : bindings[i][f] = None
  /\ retired' = [retired EXCEPT ![i] = None]
  /\ manifest' = [manifest EXCEPT ![i] = None]
  /\ UNCHANGED <<spaces, next, bindings, members, objects, pins, view, handle, now>>

Held(v) == {v[f].object : f \in {g \in Files : v[g] # None}}

\* snapshot(): the bindings of a clean namespace are pinned as they are read.
Snapshot(r, w) ==
  /\ view[r] = None /\ spaces[w] # None /\ spaces[w].phase = "clean"
  /\ view' = [view EXCEPT ![r] = bindings[spaces[w].id]]
  /\ pins' = [o \in Objects |-> pins[o] + IF o \in Held(bindings[spaces[w].id]) THEN 1 ELSE 0]
  /\ UNCHANGED <<db, handle, now>>

Drop(r) ==
  /\ view[r] # None
  /\ pins' = [o \in Objects |-> pins[o] - IF o \in Held(view[r]) THEN 1 ELSE 0]
  /\ view' = [view EXCEPT ![r] = None]
  /\ UNCHANGED <<db, handle, now>>

\* What is not in the database ends with the process.
Crash ==
  /\ handle' = [w \in Workspaces |-> None] /\ view' = [r \in Readers |-> None]
  /\ pins' = [o \in Objects |-> 0]
  /\ UNCHANGED <<db, now>>

Next ==
  \/ Tick \/ Collect \/ Crash
  \/ \E w \in Workspaces :
       \/ Open(w) \/ Abandon(w) \/ Begin(w) \/ Retire(w) \/ Prepare(w) \/ Rebuild(w)
       \/ Install(w) \/ Prune(w) \/ Commit(w)
  \/ \E i \in Ids : DeleteMember(i) \/ DeleteBindings(i) \/ DeleteNamespace(i)
  \/ \E r \in Readers : Drop(r) \/ \E w \in Workspaces : Snapshot(r, w)

Spec == Init /\ [][Next]_vars

-----------------------------------------------------------------------------
(* Properties                                                              *)

Bindings == {b \in Ids \X Files : bindings[b[1]][b[2]] # None}
Object(b) == bindings[b[1]][b[2]].object
Users(o) == {b \in Bindings : Object(b) = o}
Live == {o \in Objects : live[o] # None}

TypeOK ==
  /\ spaces \in [Workspaces -> Spaces \union {None}]
  /\ retired \in [Ids -> Workspaces \union {None}]
  /\ next \in [id : 1 .. MaxSpaces + 1, ordinal : 1 .. MaxOrdinals + 1]
  /\ bindings \in [Ids -> Tables]
  /\ live \in [Objects -> Stored \union {None}]
  /\ members \subseteq Ids \X (1 .. MaxOrdinals) \X Files
  /\ posted \subseteq 1 .. MaxOrdinals
  /\ unused \subseteq Objects \X Times
  /\ alias \in [Inputs -> Objects \union {None}]
  /\ aliases \subseteq Objects \X Inputs
  /\ manifest \in [Ids -> (SUBSET Files) \union {None}]
  /\ pins \in [Objects -> Nat]
  /\ view \in [Readers -> Tables \union {None}]
  /\ handle \in [Workspaces -> Refreshes \union {None}]
  /\ now \in Times

\* Through every refresh, retirement and crash an object counts its bindings,
\* and no binding points to an object that was collected.
Counts ==
  \A o \in Objects :
    Cardinality(Users(o)) = IF live[o] = None THEN 0 ELSE live[o].bindings

\* The shared postings have an ordinal of its own for every object there is:
\* a search meets each of them once, and none that was collected.
PostedTrue ==
  /\ posted = {live[o].ordinal : o \in Live}
  /\ \A o, p \in Live : live[o].ordinal = live[p].ordinal => o = p

\* What has no binding is in the unused index, once, at its own time: nothing
\* leaks, and nothing that is bound is collected.
UnusedTrue ==
  unused = {<<o, live[o].unused>> : o \in {x \in Live : live[x].bindings = 0}}

\* The member rows of a namespace agree with its bindings, so that a search by
\* name finds a file under the object it is bound to.
MembersTrue ==
  /\ \A m \in members : \E b \in Bindings :
       b[1] = m[1] /\ b[2] = m[3] /\ live[Object(b)].ordinal = m[2]
  /\ \A b \in Bindings : retired[b[1]] = None => <<b[1], live[Object(b)].ordinal, b[2]>> \in members

\* An input never names an object that was collected, and every alias can be
\* undone by the object it names.
AliasTrue ==
  \A i \in Inputs : alias[i] # None => live[alias[i]] # None /\ <<alias[i], i>> \in aliases

\* A clean namespace binds exactly the files of its manifest.
CleanTrue ==
  \A w \in Workspaces : spaces[w] # None /\ spaces[w].phase = "clean" =>
    manifest[spaces[w].id] = {f \in Files : bindings[spaces[w].id][f] # None}

\* A reader can read every object of its view, whatever becomes of the
\* namespace it was taken from.
ViewsReadable ==
  \A r \in Readers : view[r] # None => Held(view[r]) \subseteq Live

\* All of this: counts, postings, member rows, aliases and the index of unused
\* objects agree with what is bound, a clean namespace binds its manifest, and
\* a reader's view stays readable, whatever is retired, collected or cut off.
StoreTrue ==
  /\ TypeOK
  /\ Counts /\ PostedTrue /\ UnusedTrue /\ MembersTrue
  /\ AliasTrue /\ CleanTrue /\ ViewsReadable
=============================================================================
