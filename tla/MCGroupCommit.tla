--------------------------- MODULE MCGroupCommit ---------------------------
(* GroupCommit on small instances: see the .cfg files for the values.      *)
EXTENDS GroupCommit

\* Two batches of one workspace that share a file.
TwoScopeOf == [p1 |-> "s1", p2 |-> "s1"]
TwoWork == [p1 |-> {"f1", "f2"}, p2 |-> {"f2"}]
TwoWant == [p1 |-> [f1 |-> "o1", f2 |-> "o1"], p2 |-> [f1 |-> "o1", f2 |-> "o2"]]

\* Single files of three publishers in two workspaces.
ThreeScopeOf == [p1 |-> "s1", p2 |-> "s1", p3 |-> "s2"]
ThreeWork == [p1 |-> {"f1"}, p2 |-> {"f2"}, p3 |-> {"f3"}]
ThreeWant == [p \in {"p1", "p2", "p3"} |-> [f \in {"f1", "f2", "f3"} |-> "o1"]]
=============================================================================
