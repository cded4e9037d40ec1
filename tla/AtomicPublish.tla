--------------------------- MODULE AtomicPublish ---------------------------
(***************************************************************************)
(* What src/src/store/publication.rs promises to those who publish analyses: *)
(* a batch of files is bound to its objects in one durable step, possibly  *)
(* together with the batches of others, or not at all; and the answer says *)
(* which of the two it was.  How publishers queue, elect a leader, abort   *)
(* and replay is GroupCommit's business.                                   *)
(***************************************************************************)
CONSTANTS
    Publishers, Files, Objects, NoObject,
    Want       \* Want[p][f]: the object publisher p binds file f to

VARIABLES
    bound,     \* per file, the object it is durably bound to
    state,     \* per publisher, how its request stands
    asked,     \* the files of the request
    put        \* the files an answered request says it has bound

vars == <<bound, state, asked, put>>

Init ==
    /\ bound \in [Files -> Objects \cup {NoObject}]
    /\ state = [p \in Publishers |-> "idle"]
    /\ asked = [p \in Publishers |-> {}]
    /\ put = [p \in Publishers |-> {}]

Submit(p) ==
    /\ state[p] = "idle"
    /\ \E batch \in (SUBSET Files) \ {{}} : asked' = [asked EXCEPT ![p] = batch]
    /\ state' = [state EXCEPT ![p] = "pending"]
    /\ UNCHANGED <<bound, put>>

\* All requests of a group become durable together.  A file that two of them
\* bind keeps one of the two objects; a file whose object is gone is not put.
Commit(group) ==
    /\ group # {} /\ \A p \in group : state[p] = "pending"
    /\ state' = [p \in Publishers |-> IF p \in group THEN "ok" ELSE state[p]]
    /\ put' \in [Publishers -> SUBSET Files]
    /\ \A p \in Publishers :
          IF p \in group THEN put'[p] \subseteq asked[p] ELSE put'[p] = put[p]
    /\ \A f \in Files :
          \/ \E p \in group : f \in put'[p] /\ bound'[f] = Want[p][f]
          \/ (\A p \in group : f \notin put'[p]) /\ bound'[f] = bound[f]
    /\ UNCHANGED asked

Fail(group) ==
    /\ group # {} /\ \A p \in group : state[p] = "pending"
    /\ state' = [p \in Publishers |-> IF p \in group THEN "err" ELSE state[p]]
    /\ UNCHANGED <<bound, asked, put>>

Answer(p) ==
    /\ state[p] \in {"ok", "err"}
    /\ state' = [state EXCEPT ![p] = "idle"]
    /\ asked' = [asked EXCEPT ![p] = {}]
    /\ put' = [put EXCEPT ![p] = {}]
    /\ UNCHANGED bound

Next ==
    \/ \E p \in Publishers : Submit(p) \/ Answer(p)
    \/ \E group \in SUBSET Publishers : Commit(group) \/ Fail(group)

Spec == Init /\ [][Next]_vars
=============================================================================
