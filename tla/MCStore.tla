------------------------------ MODULE MCStore -------------------------------
(***************************************************************************)
(* AnalysisStore on small instances: see the .cfg file for the values.     *)
(* What takes part is cut into slices: in a behaviour of SliceSpec only    *)
(* the workspaces, files, objects and inputs of `slice` occur, and only so *)
(* many namespaces and so much time.  It is a behaviour of Spec.           *)
(***************************************************************************)
EXTENDS AnalysisStore, TLC

CONSTANTS w1, w2, f1, o1

VARIABLE slice

\* One namespace with two files from its first refresh to its deletion, or two
\* workspaces that bind the same object, where one may be opened anew.
Slices ==
  {[workspaces |-> {w1}, files |-> Files, objects |-> Objects, inputs |-> Inputs,
    spaces |-> 1, now |-> 1],
   [workspaces |-> {w1, w2}, files |-> {f1}, objects |-> {o1}, inputs |-> {},
    spaces |-> 2, now |-> 0]}

Takes(part) ==
  /\ next'.id <= part.spaces + 1 /\ now' <= part.now
  /\ \A w \in Workspaces : handle'[w] # None =>
       /\ w \in part.workspaces /\ handle'[w].keep \subseteq part.files
       /\ handle'[w].job # None =>
            /\ handle'[w].job.object \in part.objects
            /\ handle'[w].job.input \in part.inputs \union {None}

SliceInit == Init /\ slice \in Slices

SliceSpec == SliceInit /\ [][Next /\ Takes(slice) /\ UNCHANGED slice]_<<vars, slice>>
=============================================================================
