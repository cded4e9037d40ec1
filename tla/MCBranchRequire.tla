--------------------------- MODULE MCBranchRequire ---------------------------
(***************************************************************************)
(* BranchRefresh for TLC: a code file, an asset and a file that discovery  *)
(* asks for, at two commits.                                               *)
(***************************************************************************)
EXTENDS BranchRefresh

\* The second commit changes the code file and the asset, and tracks `extra`.
Commits == [c1 |-> [code |-> "b1", asset |-> "b1", extra |-> None],
            c2 |-> [code |-> "b2", asset |-> "b2", extra |-> "b1"]]
=============================================================================
