------------------------------ MODULE MCBranches ------------------------------
(***************************************************************************)
(* Small instances of the refresh of a branch, and of the admission of     *)
(* preparations.  They share no state: one of them runs in a behaviour,    *)
(* `part`, and the other stays in an initial state.                        *)
(***************************************************************************)
EXTENDS Branches

VARIABLE part   \* the component that runs

\* The second commit changes the code file and the asset, and tracks `extra`.
Commits == [c1 |-> [code |-> "b1", asset |-> "b1", extra |-> None],
            c2 |-> [code |-> "b2", asset |-> "b2", extra |-> "b1"]]

Everything == [t \in Callers |-> Identities]

parts == <<part, gateVars, vars>>

\* The other component stays in an initial state.
PartsInit ==
  /\ part \in {"gate", "refresh"}
  /\ Gate!Init
  /\ Init
  /\ part # "refresh" => upstream = "c1"

PartsNext ==
  /\ UNCHANGED part
  /\ \/ part = "gate" /\ Gate!Next /\ UNCHANGED vars
     \/ part = "refresh" /\ Next /\ UNCHANGED gateVars

PartsSpec == PartsInit /\ [][PartsNext]_parts
=============================================================================
