------------------------------ MODULE MCRequests ------------------------------
(***************************************************************************)
(* Small instances of the components that answer a query: the preparation  *)
(* of a workspace, its package view, the jobs that index sources and       *)
(* assets, and the query itself.  They share no state: one of them runs in *)
(* a behaviour, `part`, and the others stay in an initial state.  The jobs *)
(* of a branch run twice: the code and the revision of the branch change,  *)
(* or the branch leaves a revision and returns while the code stays.       *)
(***************************************************************************)
EXTENDS Requests, TLC

CONSTANTS
  s1, s2, f1, f2, c1, c2, q1, q2

VARIABLES
  part    \* the component that runs

\* Package: one file of the former directory.
OneFile == [f \in Files |-> IF f = f1 THEN c1 ELSE Gone]

\* Edits of the project file add a source, then remove the other.
ProjectLists == [v \in 0 .. 2 |-> IF v = 0 THEN {"a"} ELSE IF v = 1 THEN {"a", "b"} ELSE {"b"}]

\* The sources of the second version are empty.
ListedFiles(v) == IF v = "v1" THEN {"a"} ELSE {}

parts == <<part, workspaceVars, flowVars, sourcesVars, assetsVars, vars>>

\* The other components stay in an initial state.
PartsInit ==
  /\ part \in {"workspace", "flow", "sources", "assets", "returning", "package"}
  /\ Workspace!Init
  /\ Flow!Init
  /\ part # "flow" => branched
  /\ Sources!Init
  /\ part # "sources" => sourcesDisk = "v1"
  /\ Assets!Init
  /\ part = "returning" => remote
  /\ part \notin {"assets", "returning"} => remote /\ files = 1
  /\ part # "assets" => assetsCode = "c1"
  /\ Init

PartsNext ==
  /\ UNCHANGED part
  /\ \/ part = "workspace" /\ Workspace!Next
        /\ UNCHANGED <<flowVars, sourcesVars, assetsVars, vars>>
     \/ part = "flow" /\ Flow!Next
        /\ UNCHANGED <<workspaceVars, sourcesVars, assetsVars, vars>>
     \/ part = "sources" /\ Sources!Next
        /\ UNCHANGED <<workspaceVars, flowVars, assetsVars, vars>>
     \/ part = "assets" /\ Assets!Next /\ changes' < 2
        /\ UNCHANGED <<workspaceVars, flowVars, sourcesVars, vars>>
     \/ part = "returning" /\ Assets!Next /\ UNCHANGED assetsCode
        /\ UNCHANGED <<workspaceVars, flowVars, sourcesVars, vars>>
     \/ part = "package" /\ Next
        /\ UNCHANGED <<workspaceVars, flowVars, sourcesVars, assetsVars>>

PartsSpec == PartsInit /\ [][PartsNext]_parts

Symmetry == Permutations({s1, s2}) \union Permutations({q1, q2})
=============================================================================
