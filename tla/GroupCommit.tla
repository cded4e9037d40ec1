---------------------------- MODULE GroupCommit ----------------------------
(***************************************************************************)
(* The publication queue of the shared analysis store:                     *)
(* src/src/store/publication.rs, with the installation of one binding and  *)
(* its preparation from src/src/store/shared.rs.                           *)
(*                                                                         *)
(* Many threads publish batches of files.  Whoever finds no leader becomes *)
(* one: it takes the database writer, collects a prefix of the queue into  *)
(* one transaction, replays it without a request that fails, commits, and  *)
(* hands out the results.  A publisher whose batch failed splits it, down  *)
(* to single files that are tried once more with a fresh expectation.      *)
(*                                                                         *)
(* A binding is the object it names; records, postings, members and input  *)
(* aliases follow from bindings and objects and are left out, as are sizes *)
(* in bytes: the limit of a group counts files.                            *)
(***************************************************************************)
EXTENDS Naturals, Sequences, FiniteSets

CONSTANTS
    Publishers,  \* threads with one batch each
    Scopes,      \* workspaces
    Files,       \* keys of bindings; each belongs to one scope
    Objects,     \* analyses, shared by all scopes
    NoObject, NoOne, NoTx,
    ScopeOf,     \* ScopeOf[p]: the scope publisher p publishes for
    Want,        \* Want[p][f]: the object it binds file f to
    Work,        \* Work[p]: the files of its batch
    Limit,       \* GROUP_FILES
    MaxFaults,   \* bound: failed writers, failed commits, unwinding leaders
    MaxOthers    \* bound: changed sources, collected objects, retired scopes

ASSUME NamesAssumption ==
    NoObject \notin Objects /\ NoOne \notin Publishers /\ IsFiniteSet(Publishers)
ASSUME WorkAssumption ==
    /\ ScopeOf \in [Publishers -> Scopes]
    /\ Want \in [Publishers -> [Files -> Objects]]
    /\ Work \in [Publishers -> (SUBSET Files) \ {{}}]
    /\ \A p, q \in Publishers : Work[p] \cap Work[q] # {} => ScopeOf[p] = ScopeOf[q]
ASSUME BoundAssumption == Limit \in Nat /\ MaxFaults \in Nat /\ MaxOthers \in Nat

VARIABLES
    db,        \* the durable state: bindings, stored objects, phase of scopes
    tx,        \* the leader's write transaction: a copy of it, or none
    waiting,   \* Queue::waiting
    leader,    \* Queue::active, and who it is
    stage,     \* how far the leader is
    group,     \* Leader::requests
    outcome,   \* its local results, per publisher
    applied,   \* the requests applied to tx
    put,       \* of an applied or answered request, the files it bound
    result,    \* Request::result
    asleep,    \* publishers waiting for publication_changed
    pc,        \* how far each publisher is
    plan,      \* the batches it has still to publish: the stack of bisection
    batch,     \* the files of its request
    single,    \* its request is the fresh retry of a single file
    expected,  \* PendingInstall::expected, per file
    encoded,   \* the files whose object it can build
    answer,    \* what it knows of each file
    changed,   \* the files whose source changed under it
    faults, others

leaderVars == <<tx, leader, stage, group, outcome, applied, put, result>>
publisherVars == <<pc, plan, batch, single, expected, encoded, answer>>
otherVars == <<changed, others>>
vars == <<db, leaderVars, waiting, asleep, publisherVars, otherVars, faults>>

Databases ==
    [bound : [Files -> Objects \cup {NoObject}],
     live : SUBSET Objects,
     phase : [Scopes -> {"clean", "dirty", "deleting"}]]

StoreOK ==
    /\ db \in Databases /\ tx \in Databases \cup {NoTx}
    /\ changed \in [Publishers -> SUBSET Files]
    /\ faults \in 0..MaxFaults /\ others \in 0..MaxOthers
LeaderOK ==
    /\ waiting \in Seq(Publishers) /\ group \in Seq(Publishers)
    /\ leader \in Publishers \cup {NoOne}
    /\ stage \in {"none", "writer", "collect", "broken", "apply", "store", "drop"}
    /\ outcome \in [Publishers -> {"none", "ok", "err"}]
    /\ result \in [Publishers -> {"none", "ok", "err"}]
    /\ applied \in SUBSET Publishers /\ asleep \in SUBSET Publishers
    /\ put \in [Publishers -> SUBSET Files]
PublisherOK ==
    /\ pc \in [Publishers -> {"prepare", "ready", "queued", "retry", "finished", "gone"}]
    /\ plan \in [Publishers -> Seq(SUBSET Files)]
    /\ batch \in [Publishers -> SUBSET Files]
    /\ single \in [Publishers -> BOOLEAN]
    /\ expected \in [Publishers -> [Files -> Objects \cup {NoObject}]]
    /\ encoded \in [Publishers -> SUBSET Files]
    /\ answer \in [Publishers -> [Files -> {"none", "bound", "missing", "err"}]]
TypeOK == StoreOK /\ LeaderOK /\ PublisherOK

-----------------------------------------------------------------------------
Elements(s) == {s[i] : i \in DOMAIN s}

\* The files that the first n requests of the queue carry.
Carried(n) == {c \in (1..n) \X Files : c[2] \in batch[waiting[c[1]]]}
Fits(n) == n = 1 \/ Cardinality(Carried(n)) <= Limit

\* The first request that has no outcome and is not in the transaction.
Undecided == {p \in Elements(group) : outcome[p] = "none"}
IsNext(p) ==
    \E i \in DOMAIN group :
        /\ group[i] = p /\ p \in Undecided \ applied
        /\ \A j \in 1..(i - 1) : group[j] \notin Undecided \ applied

\* install_in: the scope is being deleted, or a binding is neither what was
\* expected nor already what is wanted.
Conflict(p) ==
    \/ tx.phase[ScopeOf[p]] = "deleting"
    \/ \E f \in batch[p] : tx.bound[f] \notin {expected[p][f], Want[p][f]}

\* Files found in the store whose object was collected since: nothing can be
\* bound to it, unless a neighbour that comes first in the batch brings it.
\* Mutant: what was found when the binding was prepared is believed.
MissableNone(p) == {}
Missable(p) == {f \in batch[p] \ encoded[p] : Want[p][f] \notin tx.live}
Brings(p) == {Want[p][f] : f \in batch[p] \cap encoded[p]}
Missing(p) == {f \in Missable(p) : Want[p][f] \notin Brings(p)}

\* The transaction once the files new of p are installed: bound, the encoding
\* stored, and the scope marked dirty unless all was so already.
Installed(p, new) ==
    [bound |-> [f \in Files |-> IF f \in new THEN Want[p][f] ELSE tx.bound[f]],
     live |-> tx.live \cup {Want[p][f] : f \in new \cap encoded[p]},
     phase |-> IF \A f \in new : tx.bound[f] = Want[p][f] THEN tx.phase
               ELSE [tx.phase EXCEPT ![ScopeOf[p]] = "dirty"]]

\* What is left to publish, and whether that is all.
Proceed(p, rest) ==
    /\ plan' = [plan EXCEPT ![p] = rest]
    /\ pc' = [pc EXCEPT ![p] = IF rest = <<>> THEN "finished" ELSE "ready"]

Init ==
    /\ db \in Databases
    /\ \A f \in Files : db.bound[f] \in db.live \cup {NoObject}
    /\ \A s \in Scopes : db.phase[s] = "clean"
    /\ tx = NoTx
    /\ waiting = <<>> /\ group = <<>> /\ leader = NoOne /\ stage = "none"
    /\ outcome = [p \in Publishers |-> "none"]
    /\ result = [p \in Publishers |-> "none"]
    /\ applied = {} /\ asleep = {}
    /\ put = [p \in Publishers |-> {}]
    /\ pc = [p \in Publishers |-> "prepare"]
    /\ plan = [p \in Publishers |-> <<{}>>]
    /\ batch = [p \in Publishers |-> {}]
    /\ single = [p \in Publishers |-> FALSE]
    /\ expected = [p \in Publishers |-> db.bound]
    /\ encoded = [p \in Publishers |-> {}]
    /\ answer = [p \in Publishers |-> [f \in Files |-> "none"]]
    /\ changed = [p \in Publishers |-> {}]
    /\ faults = 0 /\ others = 0

-----------------------------------------------------------------------------
(* Preparation and retry, outside of the writer                            *)

\* prepare_install: expectation and need for an encoding, in one read.
Prepare(p, f) ==
    /\ pc[p] = "prepare"
    /\ f \in Work[p] \ Head(plan[p]) /\ answer[p][f] = "none"
    /\ LET refused == db.phase[ScopeOf[p]] = "deleting"
           ready == IF refused THEN Head(plan[p]) ELSE Head(plan[p]) \cup {f}
       IN  /\ answer' = [answer EXCEPT ![p][f] = IF refused THEN "err" ELSE @]
           /\ IF \A g \in Work[p] \ {f} : g \in ready \/ answer[p][g] # "none"
              THEN Proceed(p, IF ready = {} THEN <<>> ELSE <<ready>>)
              ELSE plan' = [plan EXCEPT ![p] = <<ready>>] /\ UNCHANGED pc
    /\ expected' = [expected EXCEPT ![p][f] = db.bound[f]]
    /\ encoded' = [encoded EXCEPT ![p] = IF Want[p][f] \in db.live THEN @ ELSE @ \cup {f}]
    /\ UNCHANGED <<db, leaderVars, waiting, asleep, batch, single, otherVars, faults>>

\* publish_subset: the fences are checked before EVERY attempt; what passes
\* is queued, and whoever sleeps is woken.
Submit(p) ==
    /\ pc[p] = "ready"
    /\ answer' = [answer EXCEPT ![p] = [f \in Files |->
                    IF f \in Head(plan[p]) \cap changed[p] THEN "err" ELSE @[f]]]
    /\ IF Head(plan[p]) \subseteq changed[p]
       THEN /\ Proceed(p, Tail(plan[p]))
            /\ single' = [single EXCEPT ![p] = FALSE]
            /\ UNCHANGED <<waiting, asleep, batch>>
       ELSE /\ batch' = [batch EXCEPT ![p] = Head(plan[p]) \ changed[p]]
            /\ plan' = [plan EXCEPT ![p] = Tail(@)]
            /\ waiting' = Append(waiting, p)
            /\ asleep' = {}
            /\ pc' = [pc EXCEPT ![p] = "queued"]
            /\ UNCHANGED single
    /\ UNCHANGED <<db, leaderVars, expected, encoded, otherVars, faults>>

\* The single file that failed is tried again, against the binding of now.
ReadFreshAs(p, f, object) ==
    /\ pc[p] = "retry" /\ Head(plan[p]) = {f}
    /\ IF f \in changed[p]
       THEN /\ answer' = [answer EXCEPT ![p][f] = "err"]
            /\ Proceed(p, Tail(plan[p]))
            /\ UNCHANGED <<single, expected>>
       ELSE /\ expected' = [expected EXCEPT ![p][f] = object]
            /\ single' = [single EXCEPT ![p] = TRUE]
            /\ pc' = [pc EXCEPT ![p] = "ready"]
            /\ UNCHANGED <<plan, answer>>
    /\ UNCHANGED <<db, leaderVars, waiting, asleep, batch, encoded, otherVars, faults>>
\* Mutant: it is tried again with the expectation it was prepared with.
ReadStale(p) == \E f \in Files : ReadFreshAs(p, f, expected[p][f])
ReadFresh(p) == \E f \in Files : ReadFreshAs(p, f, db.bound[f])

-----------------------------------------------------------------------------
(* The loop of publish(), under the queue mutex                            *)

Returned(p) ==
    /\ pc[p] = "queued" /\ p \notin asleep /\ leader # p /\ result[p] # "none"
    /\ result' = [result EXCEPT ![p] = "none"]
    /\ batch' = [batch EXCEPT ![p] = {}]
    /\ put' = [put EXCEPT ![p] = {}]
    /\ UNCHANGED <<db, tx, leader, stage, group, outcome, applied, waiting, asleep, expected,
                   encoded, otherVars, faults>>

TakeOkWith(p, bound) ==
    /\ Returned(p) /\ result[p] = "ok"
    /\ answer' = [answer EXCEPT ![p] = [f \in Files |->
                    IF f \notin batch[p] THEN @[f]
                    ELSE IF f \in bound THEN "bound" ELSE "missing"]]
    /\ Proceed(p, plan[p])
    /\ single' = [single EXCEPT ![p] = FALSE]
\* Mutant: a None among the results is taken for success.
TakeAll(p) == TakeOkWith(p, batch[p])
TakeOk(p) == TakeOkWith(p, put[p])

\* A batch that failed is halved ...
Bisect(p) ==
    /\ Returned(p) /\ result[p] = "err" /\ Cardinality(batch[p]) > 1
    /\ \E left \in SUBSET batch[p] :
          /\ Cardinality(left) = Cardinality(batch[p]) \div 2
          /\ Proceed(p, <<left, batch[p] \ left>> \o plan[p])
    /\ UNCHANGED <<single, answer>>

\* ... a single file is tried once more, and then it has failed.
TakeErr(p) ==
    /\ Returned(p) /\ result[p] = "err" /\ Cardinality(batch[p]) = 1
    /\ IF single[p]
       THEN /\ answer' = [answer EXCEPT ![p] = [f \in Files |->
                            IF f \in batch[p] THEN "err" ELSE @[f]]]
            /\ Proceed(p, plan[p])
            /\ single' = [single EXCEPT ![p] = FALSE]
       ELSE /\ plan' = [plan EXCEPT ![p] = <<batch[p]>> \o @]
            /\ pc' = [pc EXCEPT ![p] = "retry"]
            /\ UNCHANGED <<answer, single>>

\* The result is read before "active", so it may be missed, but only while
\* the leader that stores it is active.
Sleep(p) ==
    /\ pc[p] = "queued" /\ p \notin asleep /\ leader \notin {p, NoOne}
    /\ result[p] = "none" \/ stage = "drop"
    /\ asleep' = asleep \cup {p}
    /\ UNCHANGED <<db, leaderVars, waiting, publisherVars, otherVars, faults>>

Lead(p) ==
    /\ pc[p] = "queued" /\ p \notin asleep /\ leader = NoOne /\ result[p] = "none"
    /\ leader' = p /\ stage' = "writer"
    /\ UNCHANGED <<db, tx, group, outcome, applied, put, result, waiting, asleep,
                   publisherVars, otherVars, faults>>

-----------------------------------------------------------------------------
(* The leader                                                              *)

\* Database::write: one writer at a time; the transaction sees what is durable.
Writing == stage \in {"collect", "apply"}

TakeWriter ==
    /\ stage = "writer"
    /\ tx' = db /\ applied' = {}
    /\ stage' = IF group = <<>> THEN "collect" ELSE "apply"
    /\ UNCHANGED <<db, leader, group, outcome, put, result, waiting, asleep, publisherVars,
                   otherVars, faults>>

WriterFail ==
    /\ stage = "writer" /\ faults < MaxFaults
    /\ faults' = faults + 1
    /\ applied' = {}
    /\ IF group = <<>>
       THEN stage' = "broken" /\ UNCHANGED outcome
       ELSE /\ stage' = "store"
            /\ outcome' = [p \in Publishers |-> IF p \in Undecided THEN "err" ELSE outcome[p]]
    /\ UNCHANGED <<db, tx, leader, group, put, result, waiting, asleep, publisherVars, otherVars>>

\* The requests that are queued by now, up to the limit; the first always.
Collect ==
    /\ stage \in {"collect", "broken"}
    /\ \E n \in 1..Len(waiting) :
          /\ Fits(n) /\ (n < Len(waiting) => ~Fits(n + 1))
          /\ group' = SubSeq(waiting, 1, n)
          /\ waiting' = SubSeq(waiting, n + 1, Len(waiting))
    /\ IF stage = "broken"
       THEN /\ stage' = "store"
            /\ outcome' = [p \in Publishers |->
                             IF p \in Elements(group') THEN "err" ELSE outcome[p]]
       ELSE stage' = "apply" /\ UNCHANGED outcome
    /\ UNCHANGED <<db, tx, leader, applied, put, result, asleep, publisherVars, otherVars, faults>>

\* apply_batch_in: every file of the request, or an error.
Apply(p) ==
    /\ stage = "apply" /\ IsNext(p) /\ ~Conflict(p)
    /\ \E missing \in SUBSET Missable(p) :
          /\ Missing(p) \subseteq missing
          /\ put' = [put EXCEPT ![p] = batch[p] \ missing]
          /\ tx' = Installed(p, batch[p] \ missing)
    /\ applied' = applied \cup {p}
    /\ UNCHANGED <<db, leader, stage, group, outcome, result, waiting, asleep, publisherVars,
                   otherVars, faults>>

\* A request that fails may have changed the transaction: it is aborted as a
\* WHOLE, and the others are replayed under a new writer.
RejectWith(p, failed, kept) ==
    /\ stage = "apply" /\ IsNext(p) /\ Conflict(p)
    /\ outcome' = [q \in Publishers |-> IF q \in failed THEN "err" ELSE outcome[q]]
    /\ stage' = IF Undecided \subseteq failed THEN "store"
                ELSE IF kept = NoTx THEN "writer" ELSE "apply"
    /\ tx' = kept
    /\ UNCHANGED <<db, leader, group, applied, put, result, waiting, asleep, publisherVars,
                   otherVars, faults>>
\* Mutant: the transaction goes on with what the failed request left in it.
RejectInPlace(p) ==
    /\ stage = "apply"
    /\ \E part \in SUBSET {f \in batch[p] : tx.bound[f] = expected[p][f]} :
          RejectWith(p, {p}, Installed(p, part))
\* Mutant: the whole group fails with it.
RejectAll(p) == RejectWith(p, Undecided, NoTx)
Reject(p) == RejectWith(p, {p}, NoTx)

CommitTx ==
    /\ stage = "apply" /\ Undecided \subseteq applied
    /\ db' = tx /\ tx' = NoTx
    /\ outcome' = [p \in Publishers |-> IF p \in Undecided THEN "ok" ELSE outcome[p]]
    /\ stage' = "store"
    /\ UNCHANGED <<leader, group, applied, put, result, waiting, asleep, publisherVars,
                   otherVars, faults>>

CommitFail ==
    /\ stage = "apply" /\ Undecided \subseteq applied /\ faults < MaxFaults
    /\ faults' = faults + 1
    /\ tx' = NoTx
    /\ outcome' = [p \in Publishers |-> IF p \in Undecided THEN "err" ELSE outcome[p]]
    /\ stage' = "store"
    /\ UNCHANGED <<db, leader, group, applied, put, result, waiting, asleep, publisherVars,
                   otherVars>>

Disband ==
    /\ group' = <<>> /\ applied' = {}
    /\ outcome' = [p \in Publishers |-> "none"]

StoreResults ==
    /\ stage = "store"
    /\ result' = [p \in Publishers |-> IF p \in Elements(group) THEN outcome[p] ELSE result[p]]
    /\ Disband
    /\ stage' = "drop"
    /\ UNCHANGED <<db, tx, leader, put, waiting, asleep, publisherVars, otherVars, faults>>

\* Leader::drop: nobody is active any more, and everybody looks again.
DropWaking(woken) ==
    /\ stage = "drop"
    /\ leader' = NoOne /\ stage' = "none"
    /\ asleep' = asleep \ woken
    /\ UNCHANGED <<db, tx, group, outcome, applied, put, result, waiting, publisherVars, otherVars, faults>>
\* Mutant: only those that have a result are woken.
DropSilently == DropWaking({p \in Publishers : result[p] # "none"})
Drop == DropWaking(Publishers)

UnwindTelling(told) ==
    /\ stage = "apply" /\ faults < MaxFaults
    /\ faults' = faults + 1
    /\ tx' = NoTx
    /\ result' = [p \in Publishers |-> IF p \in told THEN "err" ELSE result[p]]
    /\ pc' = [pc EXCEPT ![leader] = "gone"]
    /\ leader' = NoOne /\ stage' = "none" /\ Disband
    /\ asleep' = {}
    /\ UNCHANGED <<db, put, waiting, plan, batch, single, expected, encoded, answer,
                   otherVars>>
\* Mutant: the group of an unwound leader is forgotten.
UnwindSilently == UnwindTelling({})
\* The leader unwinds inside the transaction: its group is told so.
Unwind == UnwindTelling(Elements(group))

-----------------------------------------------------------------------------
(* Others                                                                  *)

Other == others < MaxOthers /\ others' = others + 1

\* A source file changes while its analysis is on the way.
Change(p, f) ==
    /\ Other
    /\ f \in Work[p] \ changed[p] /\ pc[p] \notin {"finished", "gone"}
    /\ changed' = [changed EXCEPT ![p] = @ \cup {f}]
    /\ UNCHANGED <<db, leaderVars, waiting, asleep, publisherVars, faults>>

\* collect_before: an object nothing is bound to is deleted.
CollectObject(o) ==
    /\ Other /\ ~Writing /\ o \in db.live /\ \A f \in Files : db.bound[f] # o
    /\ db' = [db EXCEPT !.live = @ \ {o}]
    /\ UNCHANGED <<leaderVars, waiting, asleep, publisherVars, changed, faults>>

\* mark_deleting: the workspace is retired.
Retire(s) ==
    /\ Other /\ ~Writing /\ db.phase[s] # "deleting"
    /\ db' = [db EXCEPT !.phase[s] = "deleting"]
    /\ UNCHANGED <<leaderVars, waiting, asleep, publisherVars, changed, faults>>

PublisherStep(p) ==
    \/ \E f \in Files : Prepare(p, f)
    \/ Submit(p) \/ ReadFresh(p)
    \/ TakeOk(p) \/ Bisect(p) \/ TakeErr(p) \/ Sleep(p) \/ Lead(p)

LeaderStep ==
    \/ TakeWriter \/ WriterFail \/ Collect
    \/ \E p \in Publishers : Apply(p) \/ Reject(p)
    \/ CommitTx \/ CommitFail \/ StoreResults \/ Drop \/ Unwind

OtherStep ==
    \/ \E p \in Publishers, f \in Files : Change(p, f)
    \/ \E o \in Objects : CollectObject(o)
    \/ \E s \in Scopes : Retire(s)

Next == (\E p \in Publishers : PublisherStep(p)) \/ LeaderStep \/ OtherStep

Spec == Init /\ [][Next]_vars

\* Threads run; a leader gets the writer, which others hold for bounded batches.
FairSpec ==
    /\ Spec
    /\ WF_vars(LeaderStep)
    /\ \A p \in Publishers : WF_vars(PublisherStep(p))

-----------------------------------------------------------------------------
(* Properties                                                              *)

\* How a request stands, for whoever asked.
Standing(p) ==
    IF batch[p] = {} THEN "idle"
    ELSE IF result[p] # "none" THEN result[p]
    ELSE IF outcome[p] # "none" THEN outcome[p]
    ELSE "pending"

Abstract == INSTANCE AtomicPublish WITH
    bound <- db.bound,
    state <- [p \in Publishers |-> Standing(p)],
    asked <- batch,
    put <- [p \in Publishers |-> IF Standing(p) = "ok" THEN put[p] ELSE {}]

\* The queue implements atomic publication: whatever is aborted and replayed,
\* a request is bound as a whole in one commit, or not, and is told which.
Atomic == Abstract!Spec

\* No request is lost and none is in two places: what a publisher waits for is
\* queued, in the hands of the one leader, or answered.
Open == Elements(waiting) \cup Elements(group)
Place(p) ==
    /\ batch[p] # {} <=> p \in Open \/ result[p] # "none"
    /\ p \in Open => result[p] = "none"
    /\ outcome[p] # "none" => p \in Elements(group)
    /\ pc[p] = "queued" => batch[p] # {}
    /\ pc[p] \notin {"queued", "gone"} => batch[p] = {}
    /\ pc[p] \in {"prepare", "ready", "retry"} => plan[p] # <<>>
Placed ==
    /\ \A i, j \in DOMAIN waiting : waiting[i] = waiting[j] => i = j
    /\ \A i, j \in DOMAIN group : group[i] = group[j] => i = j
    /\ Elements(waiting) \cap Elements(group) = {}
    /\ \A p \in Publishers : Place(p)

\* How far the leader is, and what that says of its group.
Staged ==
    /\ leader = NoOne <=> stage = "none"
    /\ stage \in {"none", "collect", "broken", "drop"} => group = <<>>
    /\ stage \in {"writer", "apply"} =>
          /\ group # <<>> => Undecided # {}
          /\ \A p \in Publishers : outcome[p] # "ok"
    /\ stage = "apply" => group # <<>> /\ applied \subseteq Undecided
    /\ stage = "collect" => applied = {}
    /\ stage = "store" => Undecided = {}

\* The transaction is what is durable, and over it exactly the files put for
\* the requests applied, whatever was aborted before.
Faithful ==
    Writing =>
        /\ tx \in Databases
        /\ \A p \in applied : put[p] \subseteq batch[p]
        /\ \A f \in Files :
              \/ \E p \in applied : f \in put[p] /\ tx.bound[f] = Want[p][f]
              \/ (\A p \in applied : f \notin put[p]) /\ tx.bound[f] = db.bound[f]
        /\ \A f \in Files : tx.bound[f] \in tx.live \cup {NoObject}

\* No binding dangles, although objects are collected between the moment a
\* publisher finds one and the moment it binds to it.
BoundLive == \A f \in Files : db.bound[f] # NoObject => db.bound[f] \in db.live

\* The inductive invariant: no step of a publisher, the leader or others breaks
\* it, and it implies that every step is one of AtomicPublish.
IInv == TypeOK /\ Placed /\ Staged /\ Faithful /\ BoundLive

\* The publishers that can disturb file f of p: those that publish f too, and
\* those that share a file with one of these and so make it fail and try again.
Sharing(p, f) == {q \in Publishers \ {p} : f \in Work[q]}
Rivals(p, f) == {r \in Publishers \ {p} : \E q \in Sharing(p, f) : Work[r] \cap Work[q] # {}}

\* Neither a neighbour's failure nor one disturbance of its own costs a file
\* its result: a fault, or a rival.  Bisection and the fresh retry need two to
\* give up.
Resilient ==
    \A p \in Publishers : \A f \in Work[p] :
        /\ answer[p][f] = "err" /\ f \notin changed[p]
        /\ db.phase[ScopeOf[p]] # "deleting"
        => faults + Cardinality(Rivals(p, f)) >= 2

\* What a publisher is told of a file that only it publishes is what the
\* database holds: the new object, or untouched.
AnswersTrue ==
    \A p \in Publishers : pc[p] = "finished" => \A f \in Work[p] :
        /\ answer[p][f] # "none"
        /\ (\A q \in Publishers \ {p} : f \notin Work[q]) =>
              db.bound[f] = IF answer[p][f] = "bound" THEN Want[p][f] ELSE expected[p][f]

\* Every publisher comes to an end: nobody sleeps through its result, and a
\* queue without a leader finds one.
AllAnswered == \A p \in Publishers : <>(pc[p] \in {"finished", "gone"})
=============================================================================
