------------------------------ MODULE Branches ------------------------------
(***************************************************************************)
(* What stands between a request and its branch: the admission of the      *)
(* preparations (AcquisitionGate) and the refresh of the branch            *)
(* (BranchRefresh).  They share no state.                                  *)
(***************************************************************************)
EXTENDS BranchRefresh

CONSTANTS
  \* AcquisitionGate
  Callers, Identities, Versions, Wants, Permits, MaxCalls

VARIABLES
  \* AcquisitionGate
  at, call, holder, poisoned, failure, active, mutex, asleep, stopped,
  stopping, calls

Gate == INSTANCE AcquisitionGate WITH Nobody <- None

gateVars == <<at, call, holder, poisoned, failure, active, mutex, asleep,
  stopped, stopping, calls>>

\* Callers can be counted, and a mutex nobody holds is told from a held one.
ASSUME GateAssumption ==
  Permits \in Nat /\ IsFiniteSet(Callers) /\ None \notin Callers

-----------------------------------------------------------------------------
\* The permits that are counted are those that are held, and never more than
\* there are: errors and panics return theirs.
GatePermitsKept == Gate!PermitsKept
=============================================================================
