----------------------------- MODULE MCGitPool -----------------------------
(***************************************************************************)
(* GitPool on small instances: see the .cfg files for the values.  The     *)
(* actors take part by slices: in a behaviour of SliceSpec only those of   *)
(* `slice` take the mutex of the pool or lease its history, and the others *)
(* stay as they begin.  A behaviour of SliceSpec is one of Spec.           *)
(***************************************************************************)
EXTENDS GitPool, FiniteSets, TLC

CONSTANTS b1, p1, r1, r2, c1

VARIABLE slice

\* A branch and a package acquisition, two history readers, or a branch and a
\* reader, each against maintenance, over so many objects at a time.
Slices == {[actors |-> {b1, p1, c1}, objects |-> 2],
           [actors |-> {r1, r2, c1}, objects |-> 2],
           [actors |-> {b1, r1, c1}, objects |-> 1]}

Named ==
  Rooted \cup ReaderRoots
  \cup UNION {store.objs : store \in {current, previous, staged} \ {NoStore}}

Takes(part) ==
  /\ op' \in part.actors \cup {Free}
  /\ \A r \in Readers \ part.actors : ~lease'[r]
  /\ Cardinality(Named') <= part.objects

SliceSpec == (Init /\ slice \in Slices) /\ [][Next /\ Takes(slice) /\ UNCHANGED slice]_<<vars, slice>>

Symmetry == Permutations(Objects) \cup Permutations(Gids)
=============================================================================
