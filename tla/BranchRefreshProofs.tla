-------------------------- MODULE BranchRefreshProofs --------------------------
(***************************************************************************)
(* Proofs about the branches: RefreshTrue, for any files, commits,         *)
(* selection rules, faults and pushes; and, at the end, GatePermitsKept,   *)
(* for any callers, destinations and permits.                              *)
(*                                                                         *)
(* Chosen says why each tracked file of a selector is selected, deferred   *)
(* or omitted; so acquiring the assets of a selection leaves the inputs of *)
(* an index alone, and a preparation can go on beside it. Carries says     *)
(* what a job has done so far: what it has not to place is on disk         *)
(* already, and what it placed is there. Prepared ties what a preparation  *)
(* planned and indexed to the generation of the branch.                    *)
(*                                                                         *)
(* `trusted' ends when an extension has run over a repair marker: from     *)
(* then on what is marked may not be what is on disk (AppliedSources,      *)
(* which MCBranchRequire shows violated), and the marker is claimed for    *)
(* trusted states only.                                                    *)
(***************************************************************************)
EXTENDS Branches, TLAPS, FiniteSetTheorems

-----------------------------------------------------------------------------
(* The invariant                                                           *)

\* Two selectors that differ in the indexing marker at most.
Alike(s, t) ==
  \/ s = None /\ t = None
  \/ /\ s # None /\ t # None
     /\ s.rev = t.rev /\ s.selected = t.selected /\ s.unavailable = t.unavailable
     /\ s.omitted = t.omitted /\ s.deferred = t.deferred
     /\ s.additional = t.additional /\ s.repair = t.repair

\* Which tracked files a selector has, and why it has not the others.
Chosen(s) ==
  /\ \A f \in s.selected : f \in Extra => f \in s.additional
  /\ \A f \in Tracked(s.rev) :
       f \notin Extra \/ f \in s.additional =>
         f \in s.selected \/ f \in s.deferred \/ f \in s.omitted
  /\ \A f \in s.deferred : f \in Optional /\ f \notin s.additional
  /\ \A f \in s.omitted : f \in Optional /\ Tree[s.rev][f] \in Large

WellChosen(s) == SelectorOK(s) /\ (s # None => Chosen(s))

Kinds == {"refresh", "require", "assets"}
FetchJobs == [kind : Kinds, step : {"fetch"}, before : Selector \union {None},
              previous : SUBSET Files, required : SUBSET Files]
PublishJobs == [kind : Kinds, step : {"publish"}, before : Selector \union {None},
                required : SUBSET Files, staged : SUBSET Files, next : Selector]
PlaceJobs == [kind : Kinds, step : {"remove", "place", "finish"},
              before : Selector \union {None}, next : Selector,
              staged : SUBSET Files, todo : SUBSET Files]
Preps == [step : {"idle", "waiting"}] \union [step : {"require"}, rev : Revisions, want : SUBSET Files]
         \union [step : {"planned", "indexing"}, rev : Revisions, gen : Nat, plan : Plans]
         \union [step : {"mark"}, gen : Nat]

Shapes ==
  /\ job \in {NoJob} \union FetchJobs \union PublishJobs \union PlaceJobs
  /\ prep \in Preps

Ranges ==
  /\ upstream \in Revisions
  /\ disk \in [Files -> Blobs \union {None}]
  /\ generation \in Nat
  /\ moves \in 0 .. MaxMoves /\ faults \in 0 .. MaxFaults
  /\ losses \in 0 .. MaxLost
  /\ gone \subseteq Files /\ trusted \in BOOLEAN

Selectors == WellChosen(state) /\ WellChosen(saved) /\ Alike(saved, state)

\* What completing the assets of a selector adds to it.
Completes(s, t, staged) ==
  /\ t.rev = s.rev /\ t.additional = s.additional
  /\ s.selected \subseteq t.selected /\ staged \intersect s.selected = {}
  /\ t.unavailable \intersect s.selected = s.unavailable
  /\ Inputs(t) = Inputs(s)

\* A job starts from the selector that is applied, until it persists its own.
Started ==
  /\ job \in FetchJobs \union PublishJobs =>
       /\ Alike(job.before, state)
       /\ job.kind # "refresh" => job.before # None
  /\ job \in FetchJobs /\ job.kind = "assets" =>
       job.required = {} /\ job.previous = job.before.selected
  /\ job \in FetchJobs /\ job.before = None => job.previous = {}
  /\ job \in PublishJobs \union PlaceJobs => WellChosen(job.next) /\ job.next.repair = TRUE
  /\ job \in PlaceJobs /\ job.kind # "assets" => Alike(job.next, state)
  /\ job.kind = "assets" =>
       /\ state # None /\ state.repair = FALSE /\ Alike(job.before, state)
       /\ job \notin FetchJobs => Completes(job.before, job.next, job.staged)
       /\ job \in PlaceJobs /\ job.step = "remove" => job.todo = {}

Has(r, f) == disk[f] = Tree[r][f] \/ (disk[f] = None /\ f \in gone)
\* A job that may take the files on disk for those of the selector.
Sound == trusted /\ ~(job.kind = "require" /\ job.before.repair)
Placed(s, f) ==
  /\ f \notin s.unavailable => Has(s.rev, f)
  /\ f \in s.unavailable => disk[f] = None

\* What a job has not to place is there, and so is what it has placed.
FetchCarries ==
  job \in FetchJobs /\ Sound =>
    \A f \in job.previous :
      \/ Has(job.before.rev, f)
      \/ job.kind = "assets" /\ f \in job.before.unavailable

PublishCarries ==
  job \in PublishJobs /\ Sound =>
    \A f \in job.next.selected :
      f \in job.staged \/ f \in job.next.unavailable \/ Has(job.next.rev, f)

PlaceCarries ==
  job \in PlaceJobs /\ trusted =>
    /\ job.step = "remove" =>
         /\ job.todo \intersect job.next.selected = {}
         /\ \A f \in job.next.selected :
              f \in job.staged \/ f \in job.next.unavailable \/ Has(job.next.rev, f)
    /\ job.step # "remove" =>
         /\ \A f \in job.next.selected : f \in job.todo \/ Placed(job.next, f)
         /\ job.todo \subseteq job.staged \union job.next.unavailable
         /\ job.step = "finish" => job.todo = {}

Carries == FetchCarries /\ PublishCarries /\ PlaceCarries

Truth == trusted /\ state # None /\ ~state.repair => Matches(state)

PlanIs(plan, s) ==
  \A f \in Inputs(s) : f \in DOMAIN plan /\ plan[f] \in {Tree[s.rev][f], None}

Prepared ==
  /\ ~(Reading /\ Publishing)
  /\ prep.step \in {"planned", "indexing", "mark"} =>
       state # None /\ prep.gen <= generation
  /\ Reading => prep.gen = generation
  /\ prep.step \in {"planned", "indexing", "mark"} /\ prep.gen = generation
     /\ trusted /\ state # None /\ ~state.repair =>
       IF prep.step = "mark" THEN IndexIs(state) ELSE PlanIs(prep.plan, state)

IInv == Ranges /\ Shapes /\ Selectors /\ Started /\ Carries /\ Truth /\ Prepared

-----------------------------------------------------------------------------
(* The selection of a commit's files                                       *)

Acquisition == [rev : Revisions, selected : SUBSET Files, staged : SUBSET Files,
                omitted : SUBSET Files, deferred : SUBSET Files,
                unavailable : SUBSET Files]

\* File f is kept from selector s, and is among those commit r offers.
KeptBy(s, previous, r, f) == s # None /\ f \in previous /\ SameBlob(s.rev, r, f)
Offered(r, wanted, f) == f \in Tracked(r) /\ (f \notin Extra \/ f \in wanted)

\* What an acquisition a is, file by file.
IsAcquired(a, s, previous, r, wanted, sources) ==
  /\ a \in Acquisition
  /\ a.rev = r
  /\ \A f \in Files :
       /\ f \in a.deferred <=>
            /\ sources /\ Offered(r, wanted, f) /\ f \in Optional
            /\ ~KeptBy(s, previous, r, f) /\ f \notin wanted
       /\ f \in a.omitted <=>
            /\ Offered(r, wanted, f) /\ f \notin a.deferred
            /\ ~KeptBy(s, previous, r, f)
            /\ f \in Optional /\ Tree[r][f] \in Large
       /\ f \in a.selected <=>
            Offered(r, wanted, f) /\ f \notin a.deferred /\ f \notin a.omitted
       /\ f \in a.staged <=> f \in a.selected /\ ~KeptBy(s, previous, r, f)
       /\ f \in a.unavailable => f \in a.staged

\* What the acquisition of the pool returns and stages.
LEMMA Acquiring ==
  ASSUME NEW s \in Selector \union {None}, NEW previous \in SUBSET Files,
         NEW r \in Revisions, NEW required \in SUBSET Files,
         NEW additional \in SUBSET Files, NEW sources \in BOOLEAN,
         NEW lfs \in SUBSET Files
  PROVE  IsAcquired(Acquired(s, previous, r, required, additional, sources, lfs),
                    s, previous, r, required \union additional, sources)
<1> DEFINE wanted   == required \union additional
           chosen   == {f \in Tracked(r) : f \notin Extra \/ f \in wanted}
           kept     == IF s = None THEN {} ELSE Kept(s, previous, r)
           deferred == IF sources
                         THEN ((chosen \intersect Optional) \ kept) \ wanted
                         ELSE {}
           changed  == (chosen \ deferred) \ kept
           large    == {f \in changed \intersect Optional : Tree[r][f] \in Large}
           a == [rev |-> r,
                 selected    |-> (chosen \ deferred) \ large,
                 staged      |-> changed \ large,
                 omitted     |-> large,
                 deferred    |-> deferred,
                 unavailable |-> {f \in (changed \ large) \intersect lfs :
                                    Tree[r][f] \in Pointers}]
<1>1. Acquired(s, previous, r, required, additional, sources, lfs) = a
  BY DEF Acquired
<1>2. \A f : f \in chosen <=> Offered(r, wanted, f)
  BY DEF Offered
<1>3. \A f \in Files : f \in kept <=> KeptBy(s, previous, r, f)
  BY DEF KeptBy, Kept
<1>4. chosen \subseteq Files
  BY DEF Tracked
<1> HIDE DEF chosen, kept, wanted
<1>5. deferred \subseteq Files /\ changed \subseteq Files /\ large \subseteq Files
  BY <1>4
<1>6. \A f \in Files : f \in deferred <=>
        /\ sources /\ Offered(r, wanted, f) /\ f \in Optional
        /\ ~KeptBy(s, previous, r, f) /\ f \notin wanted
  BY <1>2, <1>3
<1> HIDE DEF deferred
<1>7. \A f \in Files : f \in large <=>
        /\ Offered(r, wanted, f) /\ f \notin deferred
        /\ ~KeptBy(s, previous, r, f)
        /\ f \in Optional /\ Tree[r][f] \in Large
  BY <1>2, <1>3
<1>8. \A f \in Files : f \in (chosen \ deferred) \ large <=>
        Offered(r, wanted, f) /\ f \notin deferred /\ f \notin large
  BY <1>2
<1>9. \A f \in Files : f \in changed \ large <=>
        f \in (chosen \ deferred) \ large /\ ~KeptBy(s, previous, r, f)
  BY <1>3
<1> HIDE DEF large
<1>10. a \in Acquisition
  BY <1>4, <1>5 DEF Acquisition
<1>11. IsAcquired(a, s, previous, r, wanted, sources)
  BY <1>6, <1>7, <1>8, <1>9, <1>10 DEF IsAcquired
<1> QED BY <1>1, <1>11 DEF wanted

\* Reusing omissions moves deferred files of the same content to the omitted.
LEMMA Reusing ==
  ASSUME NEW s \in Selector \union {None}, NEW a \in Acquisition
  PROVE  LET b == ReuseOmissions(s, a) IN
         /\ b \in Acquisition
         /\ b.rev = a.rev /\ b.selected = a.selected /\ b.staged = a.staged
         /\ b.unavailable = a.unavailable
         /\ \A f \in Files :
              /\ f \in b.deferred => f \in a.deferred
              /\ f \in b.deferred /\ f \in b.omitted => f \in a.omitted
              /\ f \in a.omitted => f \in b.omitted
              /\ f \in a.deferred => f \in b.deferred \/ f \in b.omitted
              /\ f \in b.omitted =>
                   \/ f \in a.omitted
                   \/ /\ f \in a.deferred /\ s # None /\ f \in s.omitted
                      /\ SameBlob(s.rev, a.rev, f)
<1> DEFINE again == IF s = None THEN {}
                    ELSE IF s.repair THEN {}
                    ELSE {f \in a.deferred \intersect s.omitted :
                            SameBlob(s.rev, a.rev, f)}
           b == [a EXCEPT !.deferred = @ \ again, !.omitted = @ \union again]
<1>1. ReuseOmissions(s, a) = b
  BY DEF ReuseOmissions
<1>2. \A f : f \in again => /\ f \in a.deferred /\ s # None /\ f \in s.omitted
                            /\ SameBlob(s.rev, a.rev, f)
  OBVIOUS
<1> HIDE DEF again
<1>3. /\ b \in Acquisition
      /\ b.rev = a.rev /\ b.selected = a.selected /\ b.staged = a.staged
      /\ b.unavailable = a.unavailable
      /\ b.deferred = a.deferred \ again /\ b.omitted = a.omitted \union again
  <2>1. again \subseteq Files
    BY <1>2 DEF Acquisition
  <2> QED BY <2>1 DEF Acquisition
<1> HIDE DEF b
<1> QED BY <1>1, <1>2, <1>3

-----------------------------------------------------------------------------
(* Selectors                                                               *)

\* A selector that differs in the marker of the index from one that is well
\* chosen is as well chosen, and has the same inputs.
LEMMA AlikeChosen ==
  ASSUME NEW s \in Selector \union {None}, NEW t, WellChosen(t), Alike(s, t)
  PROVE  WellChosen(s)
BY NoneAssumption DEF WellChosen, Alike, SelectorOK, Chosen

LEMMA AlikeInputs ==
  ASSUME NEW s, NEW t, Alike(s, t), t # None
  PROVE  /\ s # None /\ s.rev = t.rev /\ s.repair = t.repair
         /\ s.selected = t.selected /\ s.unavailable = t.unavailable
         /\ Inputs(s) = Inputs(t)
BY DEF Alike, Inputs

LEMMA AlikeTwice ==
  ASSUME NEW s, NEW t, NEW u, Alike(s, t), Alike(t, u)
  PROVE  Alike(s, u) /\ Alike(t, s) /\ Alike(s, s)
BY DEF Alike

LEMMA WellChosenType ==
  ASSUME NEW s, WellChosen(s)
  PROVE  /\ s \in Selector \union {None} /\ SelectorOK(s)
         /\ s # None => s \in Selector
BY DEF WellChosen, SelectorOK

\* An acquisition for assets asks for nothing and keeps all of the selector.
ForAssets(kind, s, r, previous, required) ==
  /\ s # None /\ r = s.rev /\ previous = s.selected /\ required = {}
  /\ kind = "assets"

\* What Fetch hands to the publication.
Acquires(kind, s, previous, r, required, lfs) ==
  LET additional == IF s = None THEN {} ELSE s.additional
  IN ReuseOmissions(s, Acquired(s, previous, r, required, additional,
                                kind # "assets", lfs))
NextSelector(kind, s, required, a) ==
  Selecting(IF kind = "assets"
              THEN [a EXCEPT !.unavailable = @ \union s.unavailable] ELSE a,
            (IF s = None THEN {} ELSE s.additional) \union required,
            IF s = None THEN None ELSE s.indexed, TRUE)

\* The selector a job will publish is well chosen, what it does not stage it
\* kept with the same content, and completing assets leaves the inputs alone.
LEMMA Fetching ==
  ASSUME NEW kind \in Kinds, NEW s, WellChosen(s),
         NEW previous \in SUBSET Files, NEW r \in Revisions,
         NEW required \in SUBSET Files, NEW lfs \in SUBSET Files,
         kind = "assets" => ForAssets(kind, s, r, previous, required)
  PROVE  LET a == Acquires(kind, s, previous, r, required, lfs)
             t == NextSelector(kind, s, required, a)
         IN /\ t \in Selector /\ WellChosen(t) /\ t.repair = TRUE /\ t.rev = r
            /\ a.staged \in SUBSET Files
            /\ kind = "assets" => Completes(s, t, a.staged)
            /\ \A f \in t.selected : f \in a.staged \/ KeptBy(s, previous, r, f)
<1> DEFINE additional == IF s = None THEN {} ELSE s.additional
           wanted == required \union additional
           sources == kind # "assets"
           b == Acquired(s, previous, r, required, additional, sources, lfs)
           a == Acquires(kind, s, previous, r, required, lfs)
           t == NextSelector(kind, s, required, a)
<1>1. /\ s \in Selector \union {None} /\ additional \in SUBSET Files
      /\ wanted \in SUBSET Files /\ sources \in BOOLEAN
      /\ s # None => s \in Selector
  BY WellChosenType DEF Selector
<1>2. IsAcquired(b, s, previous, r, wanted, sources)
  BY <1>1, Acquiring
<1>3. a = ReuseOmissions(s, b)
  BY DEF Acquires
<1> HIDE DEF b
<1>4. b \in Acquisition
  BY <1>2 DEF IsAcquired
<1>5. /\ a \in Acquisition
      /\ a.rev = r /\ a.selected = b.selected /\ a.staged = b.staged
      /\ a.unavailable = b.unavailable
      /\ \A f \in Files :
           /\ f \in a.deferred => f \in b.deferred
           /\ f \in a.deferred /\ f \in a.omitted => f \in b.omitted
           /\ f \in b.omitted => f \in a.omitted
           /\ f \in b.deferred => f \in a.deferred \/ f \in a.omitted
           /\ f \in a.omitted =>
                \/ f \in b.omitted
                \/ /\ f \in b.deferred /\ s # None /\ f \in s.omitted
                   /\ SameBlob(s.rev, r, f)
  <2>1. b.rev = r
    BY <1>2 DEF IsAcquired
  <2> QED BY <1>1, <1>3, <1>4, <2>1, Reusing
<1> HIDE DEF a, additional, sources
<1>6. /\ t.rev = r /\ t.selected = a.selected /\ t.omitted = a.omitted
      /\ t.deferred = a.deferred /\ t.repair = TRUE
      /\ t.additional = additional \union required
      /\ t.indexed = IF s = None THEN None ELSE s.indexed
      /\ t.unavailable = IF kind = "assets"
                           THEN a.unavailable \union s.unavailable
                           ELSE a.unavailable
  <2>1. CASE kind = "assets"
    <3> DEFINE c == [a EXCEPT !.unavailable = @ \union s.unavailable]
    <3>1. /\ c.rev = a.rev /\ c.selected = a.selected /\ c.omitted = a.omitted
          /\ c.deferred = a.deferred
          /\ c.unavailable = a.unavailable \union s.unavailable
      BY <1>5 DEF Acquisition
    <3>2. t = Selecting(c, additional \union required,
                        IF s = None THEN None ELSE s.indexed, TRUE)
      BY <2>1 DEF NextSelector, additional
    <3> HIDE DEF c
    <3> QED BY <2>1, <1>5, <3>1, <3>2 DEF Selecting
  <2>2. CASE kind # "assets"
    BY <2>2, <1>5 DEF NextSelector, Selecting, additional
  <2> QED BY <2>1, <2>2
<1>7. t \in Selector
  <2>1. /\ s # None => s.indexed \in Revisions \union {None}
        /\ kind = "assets" => s.unavailable \in SUBSET Files
    BY <1>1 DEF Selector, ForAssets
  <2>2. /\ t.rev \in Revisions /\ t.selected \in SUBSET Files
        /\ t.omitted \in SUBSET Files /\ t.deferred \in SUBSET Files
        /\ t.repair \in BOOLEAN /\ t.additional \in SUBSET Files
        /\ t.indexed \in Revisions \union {None}
        /\ t.unavailable \in SUBSET Files
    BY <1>1, <1>5, <1>6, <2>1 DEF Acquisition
  <2>3. t = [rev |-> t.rev, selected |-> t.selected,
             unavailable |-> t.unavailable, omitted |-> t.omitted,
             deferred |-> t.deferred, additional |-> t.additional,
             indexed |-> t.indexed, repair |-> t.repair]
    BY DEF NextSelector, Selecting
  <2> HIDE DEF t
  <2> QED BY <2>2, <2>3 DEF Selector
<1> HIDE DEF t
<1>8. \A f \in Files :
        /\ f \in a.selected =>
             Offered(r, wanted, f) /\ f \notin a.deferred /\ f \notin a.omitted
        /\ Offered(r, wanted, f) =>
             f \in a.selected \/ f \in a.deferred \/ f \in a.omitted
        /\ f \in a.deferred => /\ Offered(r, wanted, f) /\ f \in Optional
                               /\ f \notin wanted /\ f \notin a.omitted
        /\ f \in a.omitted => Offered(r, wanted, f) /\ f \in Optional
        /\ f \in a.unavailable => f \in a.staged
        /\ f \in a.staged <=> f \in a.selected /\ ~KeptBy(s, previous, r, f)
  BY <1>2, <1>5 DEF IsAcquired
<1>9. \A f \in Files : f \in a.omitted => Tree[r][f] \in Large
  <2> SUFFICES ASSUME NEW f \in Files, f \in a.omitted
               PROVE  Tree[r][f] \in Large
    OBVIOUS
  <2>1. CASE f \in b.omitted
    BY <2>1, <1>2 DEF IsAcquired
  <2>2. CASE f \notin b.omitted
    <3>1. s # None /\ f \in s.omitted /\ SameBlob(s.rev, r, f)
      BY <2>2, <1>5
    <3> QED BY <3>1 DEF WellChosen, Chosen, SameBlob
  <2> QED BY <2>1, <2>2
<1>10. a.staged \in SUBSET Files /\ a.selected \in SUBSET Files
       /\ a.omitted \in SUBSET Files /\ a.deferred \in SUBSET Files
       /\ a.unavailable \in SUBSET Files
  BY <1>5 DEF Acquisition
<1>11. ASSUME kind = "assets"
       PROVE  /\ s.selected \subseteq a.selected
              /\ a.staged \intersect s.selected = {}
              /\ s.unavailable \subseteq s.selected
              /\ wanted = s.additional /\ r = s.rev /\ s # None
  <2>1. /\ s # None /\ r = s.rev /\ previous = s.selected /\ required = {}
        /\ wanted = s.additional /\ sources = FALSE
    BY <1>11 DEF ForAssets, additional, sources
  <2>2. /\ s.selected \subseteq Tracked(r) /\ s.unavailable \subseteq s.selected
        /\ s.selected \subseteq Files
    BY <2>1, <1>1 DEF WellChosen, SelectorOK, Tracked
  <2>3. \A f \in s.selected : KeptBy(s, previous, r, f)
    BY <2>1 DEF KeptBy, SameBlob
  <2>4. \A f \in s.selected : Offered(r, wanted, f)
    BY <2>1, <2>2 DEF Offered, WellChosen, Chosen
  <2>5. \A f \in Files : f \notin b.deferred
    BY <2>1, <1>2 DEF IsAcquired
  <2>6. \A f \in s.selected : f \notin b.omitted
    BY <2>2, <2>3, <1>2 DEF IsAcquired
  <2>7. s.selected \subseteq a.selected
    BY <2>2, <2>4, <2>5, <2>6, <1>2, <1>5 DEF IsAcquired
  <2>8. a.staged \intersect s.selected = {}
    BY <2>3, <1>8, <1>10
  <2> QED BY <2>1, <2>2, <2>7, <2>8
<1>12. SelectorOK(t)
  <2>1. t.selected \union t.deferred \union t.omitted \subseteq Tracked(t.rev)
    BY <1>6, <1>8, <1>10 DEF Offered
  <2>2. t.selected \intersect t.deferred = {}
        /\ (t.selected \union t.deferred) \intersect t.omitted = {}
    BY <1>6, <1>8, <1>10
  <2>3. t.unavailable \subseteq t.selected
    BY <1>6, <1>8, <1>10, <1>11
  <2> QED BY <1>7, <2>1, <2>2, <2>3 DEF SelectorOK
<1>13. Chosen(t)
  <2>1. t.additional = wanted
    BY <1>6
  <2>2. \A f \in t.selected : f \in Extra => f \in t.additional
    BY <2>1, <1>6, <1>8, <1>10 DEF Offered
  <2>3. \A f \in Tracked(t.rev) :
          f \notin Extra \/ f \in t.additional =>
            f \in t.selected \/ f \in t.deferred \/ f \in t.omitted
    BY <2>1, <1>6, <1>8 DEF Offered, Tracked
  <2>4. \A f \in t.deferred : f \in Optional /\ f \notin t.additional
    BY <2>1, <1>6, <1>8, <1>10
  <2>5. \A f \in t.omitted : f \in Optional /\ Tree[t.rev][f] \in Large
    BY <1>6, <1>8, <1>9, <1>10
  <2> QED BY <2>2, <2>3, <2>4, <2>5 DEF Chosen
<1>14. ASSUME kind = "assets" PROVE Completes(s, t, a.staged)
  <2>1. /\ t.rev = s.rev /\ t.additional = s.additional
        /\ s.selected \subseteq t.selected /\ a.staged \intersect s.selected = {}
        /\ t.unavailable = a.unavailable \union s.unavailable
    BY <1>14, <1>6, <1>11
  <2>2. t.unavailable \intersect s.selected = s.unavailable
    BY <2>1, <1>8, <1>10, <1>11, <1>14
  <2>3. ASSUME NEW f, f \in t.selected, f \notin s.selected
        PROVE  f \in Optional /\ f \notin s.additional
    <3>1. f \in Files /\ Offered(r, wanted, f)
      BY <2>3, <1>6, <1>8, <1>10
    <3>2. f \in s.deferred \/ f \in s.omitted
      BY <3>1, <2>3, <1>11, <1>14 DEF WellChosen, Chosen, Offered
    <3>3. CASE f \in s.deferred
      BY <3>3, <1>11, <1>14 DEF WellChosen, Chosen
    <3>4. CASE f \in s.omitted
      <4>1. f \in Optional /\ Tree[r][f] \in Large
        BY <3>4, <1>11, <1>14 DEF WellChosen, Chosen
      <4>2. ~KeptBy(s, previous, r, f) /\ f \notin b.deferred
        BY <3>1, <2>3, <1>2, <1>14 DEF KeptBy, ForAssets, IsAcquired, sources
      <4>3. f \in b.omitted
        BY <3>1, <4>1, <4>2, <1>2 DEF IsAcquired
      <4>4. FALSE
        BY <4>3, <2>3, <3>1, <1>2, <1>5, <1>6 DEF IsAcquired
      <4> QED BY <4>4
    <3> QED BY <3>2, <3>3, <3>4
  <2>4. Inputs(t) = Inputs(s)
    BY <2>1, <2>2, <2>3 DEF Inputs
  <2> QED BY <2>1, <2>2, <2>4 DEF Completes
<1>15. \A f \in t.selected : f \in a.staged \/ KeptBy(s, previous, r, f)
  BY <1>6, <1>8, <1>10
<1> QED
  BY <1>6, <1>7, <1>10, <1>12, <1>13, <1>14, <1>15 DEF WellChosen, t, a

-----------------------------------------------------------------------------
(* Shapes and frames                                                       *)

LEMMA JobShape ==
  ASSUME NEW j \in {NoJob} \union FetchJobs \union PublishJobs \union PlaceJobs
  PROVE  /\ j.kind = "none" <=> j = NoJob
         /\ j.kind # "none" => j.kind \in Kinds
         /\ j.kind # "none" /\ j.step = "fetch" <=> j \in FetchJobs
         /\ j.kind # "none" /\ j.step = "publish" <=> j \in PublishJobs
         /\ j.kind # "none" /\ j.step \in {"remove", "place", "finish"}
              <=> j \in PlaceJobs
         /\ ~(j \in FetchJobs /\ j \in PublishJobs)
         /\ ~(j \in FetchJobs /\ j \in PlaceJobs)
         /\ ~(j \in PublishJobs /\ j \in PlaceJobs)
BY DEF NoJob, FetchJobs, PublishJobs, PlaceJobs, Kinds

LEMMA PrepShape ==
  ASSUME NEW p \in Preps
  PROVE  /\ p.step \in {"idle", "waiting"} => p \in [step : {"idle", "waiting"}]
         /\ p.step = "require" =>
              p \in [step : {"require"}, rev : Revisions, want : SUBSET Files]
         /\ p.step \in {"planned", "indexing"} =>
              p \in [step : {"planned", "indexing"}, rev : Revisions, gen : Nat,
                     plan : Plans]
         /\ p.step = "mark" => p \in [step : {"mark"}, gen : Nat]
         /\ p.step \in {"idle", "require", "waiting", "planned", "indexing", "mark"}
         /\ p = NoPrep <=> p.step = "idle"
BY DEF Preps, NoPrep

LEMMA TypeFromIInv ==
  IInv => TypeOK
BY JobShape, PrepShape DEF IInv, Ranges, Selectors, WellChosen, Shapes, TypeOK, Kinds

\* A job and the files it may rely on are left alone.
LEMMA JobFrame ==
  ASSUME IInv, UNCHANGED <<saved, state, disk, job, gone, trusted>>
  PROVE  Selectors' /\ Started' /\ Carries' /\ Truth'
BY DEF IInv, Selectors, Started, Carries, FetchCarries, PublishCarries,
       PlaceCarries, Truth, Sound, Has, Placed, Matches

\* An empty job has nothing to carry.
LEMMA NothingCarried ==
  ASSUME job' = NoJob
  PROVE  Started' /\ Carries'
<1>1. job' \notin FetchJobs /\ job' \notin PublishJobs /\ job' \notin PlaceJobs
  BY DEF NoJob, FetchJobs, PublishJobs, PlaceJobs, Kinds
<1>2. job'.kind = "none"
  BY DEF NoJob
<1> QED BY <1>1, <1>2 DEF Started, Carries, FetchCarries, PublishCarries, PlaceCarries

\* A preparation that has planned nothing has nothing to keep.
LEMMA NothingPrepared ==
  ASSUME prep'.step \in {"idle", "require", "waiting"}
  PROVE  Prepared'
BY DEF Prepared, Reading

LEMMA StutterStep ==
  ASSUME IInv, UNCHANGED vars
  PROVE  IInv'
<1>1. Selectors' /\ Started' /\ Carries' /\ Truth'
  BY JobFrame DEF vars
<1>2. Ranges' /\ Shapes'
  BY DEF IInv, vars, Ranges, Shapes
<1>3. Prepared'
  BY DEF IInv, vars, Prepared, Reading, Publishing, IndexIs, PlanIs
<1> QED BY <1>1, <1>2, <1>3 DEF IInv

LEMMA PushStep ==
  ASSUME IInv, Push
  PROVE  IInv'
<1>1. Selectors' /\ Started' /\ Carries' /\ Truth'
  BY JobFrame DEF Push
<1>2. Ranges' /\ Shapes'
  BY BoundAssumption DEF IInv, Push, Ranges, Shapes
<1>3. Prepared'
  BY DEF IInv, Push, Prepared, Reading, Publishing, IndexIs, PlanIs
<1> QED BY <1>1, <1>2, <1>3 DEF IInv

LEMMA LoseStep ==
  ASSUME IInv, Lose
  PROVE  IInv'
<1> PICK f \in Files : /\ disk' = [disk EXCEPT ![f] = None]
                       /\ gone' = gone \union {f}
  BY DEF Lose
<1>1. Ranges' /\ Shapes'
  BY BoundAssumption DEF IInv, Lose, Ranges, Shapes
<1>2. \A r, g : g \in Files /\ Has(r, g) => Has(r, g)'
  BY DEF Has, IInv, Ranges
<1>3. \A s, g : g \in Files /\ Placed(s, g) => Placed(s, g)'
  BY <1>2 DEF Placed, IInv, Ranges
<1>4. Selectors' /\ Started'
  BY DEF IInv, Lose, Selectors, Started
<1>5. Carries'
  <2>1. FetchCarries'
    BY <1>2 DEF IInv, Lose, Carries, FetchCarries, Sound, FetchJobs
  <2>2. PublishCarries'
    BY <1>2 DEF IInv, Lose, Carries, PublishCarries, Sound, PublishJobs, Selector
  <2>3. PlaceCarries'
    BY <1>2, <1>3 DEF IInv, Lose, Carries, PlaceCarries, PlaceJobs, Selector
  <2> QED BY <2>1, <2>2, <2>3 DEF Carries
<1>6. Truth'
  <2>1. UNCHANGED <<state, trusted>>
    BY DEF Lose
  <2>2. state # None => state.selected \subseteq Files
    BY WellChosenType DEF IInv, Selectors, Selector
  <2>3. \A s : Matches(s) <=> \A g \in s.selected : Placed(s, g)
    BY DEF Matches, Placed, Has
  <2>4. \A s : Matches(s)' <=> \A g \in s.selected : Placed(s, g)'
    BY DEF Matches, Placed, Has
  <2> QED BY <1>3, <2>1, <2>2, <2>3, <2>4 DEF IInv, Truth
<1>7. Prepared'
  BY DEF IInv, Lose, Prepared, Reading, Publishing, IndexIs, PlanIs
<1> QED BY <1>1, <1>4, <1>5, <1>6, <1>7 DEF IInv

\* What is true of the applied selector is true of one that is alike.
LEMMA TruthFollows ==
  ASSUME IInv, Alike(state', state), UNCHANGED <<disk, gone, trusted>>
  PROVE  Truth'
<1> SUFFICES ASSUME trusted, state' # None, ~state'.repair
             PROVE  Matches(state)'
  BY DEF Truth
<1>1. /\ state # None /\ state'.rev = state.rev /\ ~state.repair
      /\ state'.selected = state.selected /\ state'.unavailable = state.unavailable
  BY DEF Alike
<1>2. Matches(state)
  BY <1>1 DEF IInv, Truth
<1> QED BY <1>1, <1>2 DEF Matches

LEMMA PreparedFollows ==
  ASSUME IInv, Alike(state', state), UNCHANGED <<generation, prep, index, trusted>>,
         ~(Reading /\ Publishing')
  PROVE  Prepared'
<1>1. /\ state # None => Inputs(state') = Inputs(state)
      /\ state # None <=> state' # None
      /\ state # None => state'.rev = state.rev /\ state'.repair = state.repair
  BY AlikeInputs DEF Alike
<1>2. /\ ~(Reading /\ Publishing)'
      /\ prep'.step \in {"planned", "indexing", "mark"} =>
           state' # None /\ prep'.gen <= generation'
      /\ Reading' => prep'.gen = generation'
  BY <1>1 DEF IInv, Prepared, Reading
<1>3. ASSUME prep'.step \in {"planned", "indexing", "mark"},
             prep'.gen = generation', trusted', state' # None, ~state'.repair
      PROVE  IF prep'.step = "mark" THEN IndexIs(state)' ELSE PlanIs(prep'.plan, state')
  <2>1. IF prep.step = "mark" THEN IndexIs(state) ELSE PlanIs(prep.plan, state)
    BY <1>1, <1>3 DEF IInv, Prepared
  <2>2. CASE prep.step = "mark"
    BY <2>1, <2>2, <1>1, <1>3 DEF IndexIs
  <2>3. CASE prep.step # "mark"
    BY <2>1, <2>3, <1>1, <1>3 DEF PlanIs
  <2> QED BY <2>2, <2>3
<1> QED BY <1>2, <1>3 DEF Prepared

LEMMA CrashStep ==
  ASSUME IInv, Crash
  PROVE  IInv'
<1>1. Ranges' /\ Shapes'
  BY BoundAssumption DEF IInv, Crash, Ranges, Shapes, Preps, NoPrep
<1>2. Selectors'
  BY DEF IInv, Crash, Selectors, Alike
<1>3. Truth'
  BY TruthFollows DEF IInv, Crash, Selectors
<1>4. Started' /\ Carries'
  BY NothingCarried DEF Crash
<1>5. Prepared'
  BY NothingPrepared DEF Crash, NoPrep
<1> QED BY <1>1, <1>2, <1>3, <1>4, <1>5 DEF IInv

LEMMA FailStep ==
  ASSUME IInv, Fail
  PROVE  IInv'
<1>1. Ranges' /\ Shapes'
  BY BoundAssumption DEF IInv, Fail, Ranges, Shapes, Preps, NoPrep
<1>2. Selectors' /\ Alike(state', state)
  BY DEF IInv, Fail, Selectors, Alike
<1>3. Truth'
  BY <1>2, TruthFollows DEF Fail
<1>4. Started' /\ Carries'
  BY NothingCarried DEF Fail
<1>5. Prepared'
  <2>1. CASE prep' = NoPrep
    BY <2>1, NothingPrepared DEF NoPrep
  <2>2. CASE prep' = prep
    <3>1. ~Publishing'
      BY DEF Fail, Publishing, NoJob
    <3> QED BY <2>2, <3>1, <1>2, PreparedFollows DEF Fail
  <2> QED BY <2>1, <2>2 DEF Fail
<1> QED BY <1>1, <1>2, <1>3, <1>4, <1>5 DEF IInv

\* A job that starts in the state of the branch it reads.
LEMMA BeginStep ==
  ASSUME IInv, NEW kind \in Kinds, NEW previous \in SUBSET Files,
         NEW required \in SUBSET Files,
         job' = [kind |-> kind, step |-> "fetch", before |-> state,
                 previous |-> previous, required |-> required],
         UNCHANGED <<saved, state, disk, gone, trusted>>,
         kind # "refresh" => state # None,
         kind = "assets" => /\ ~state.repair /\ required = {}
                            /\ previous = state.selected,
         state = None => previous = {},
         kind # "assets" => \A f \in previous : f \in state.selected /\ disk[f] # None,
         kind = "refresh" /\ state # None /\ state.repair => previous = {}
  PROVE  /\ job' \in FetchJobs
         /\ Selectors' /\ Started' /\ Carries' /\ Truth' /\ ~Publishing'
<1>1. state \in Selector \union {None}
  BY WellChosenType DEF IInv, Selectors
<1>2. job' \in FetchJobs
  BY <1>1 DEF FetchJobs
<1>3. job' \notin PublishJobs /\ job' \notin PlaceJobs
  BY <1>2 DEF PublishJobs, PlaceJobs, FetchJobs
<1>4. Alike(state, state)
  BY DEF Alike
<1>5. Selectors' /\ ~Publishing'
  BY DEF IInv, Selectors, Publishing
<1>6. Truth'
  BY <1>4, TruthFollows
<1>7. Started'
  <2>1. state # None => state.repair \in BOOLEAN
    BY <1>1 DEF Selector
  <2> QED BY <1>2, <1>3, <1>4, <2>1 DEF Started
<1>8. Carries'
  <2>1. FetchCarries'
    <3> SUFFICES ASSUME Sound', NEW f \in previous
                 PROVE  \/ Has(state.rev, f)'
                        \/ kind = "assets" /\ f \in state.unavailable
      BY DEF FetchCarries
    <3>1. trusted /\ state # None /\ ~state.repair
      BY DEF Sound, Kinds
    <3>2. Matches(state) /\ f \in state.selected
      BY <3>1 DEF IInv, Truth
    <3> QED BY <3>2 DEF Matches, Has
  <2> QED BY <2>1, <1>3 DEF Carries, PublishCarries, PlaceCarries
<1> QED BY <1>2, <1>5, <1>6, <1>7, <1>8

LEMMA BeginRefreshStep ==
  ASSUME IInv, BeginRefresh
  PROVE  IInv'
<1> DEFINE previous == PreviousOfRefresh(state)
<1>1. state # None => state \in Selector
  BY WellChosenType DEF IInv, Selectors
<1>2. /\ previous \in SUBSET Files
      /\ state = None => previous = {}
      /\ \A f \in previous : f \in state.selected /\ disk[f] # None
      /\ state # None /\ state.repair => previous = {}
  BY <1>1 DEF PreviousOfRefresh, OnDisk, Selector
<1>3. job' = [kind |-> "refresh", step |-> "fetch", before |-> state,
              previous |-> previous, required |-> {}]
  BY DEF BeginRefresh
<1> HIDE DEF previous
<1>4. /\ job' \in FetchJobs
      /\ Selectors' /\ Started' /\ Carries' /\ Truth' /\ ~Publishing'
  BY <1>2, <1>3, BeginStep DEF BeginRefresh, Kinds
<1>5. Ranges' /\ Shapes'
  BY <1>4 DEF IInv, BeginRefresh, Ranges, Shapes
<1>6. Prepared'
  BY <1>4, AlikeTwice, PreparedFollows DEF BeginRefresh, Alike
<1> QED BY <1>4, <1>5, <1>6 DEF IInv

LEMMA BeginAssetsStep ==
  ASSUME IInv, BeginAssets
  PROVE  IInv'
<1>1. state \in Selector
  BY WellChosenType DEF IInv, Selectors, BeginAssets
<1>2. /\ job' \in FetchJobs
      /\ Selectors' /\ Started' /\ Carries' /\ Truth' /\ ~Publishing'
  BY <1>1, BeginStep DEF BeginAssets, Kinds, PreviousOfAssets, Selector
<1>3. Ranges' /\ Shapes'
  BY <1>2 DEF IInv, BeginAssets, Ranges, Shapes
<1>4. Prepared'
  BY <1>2, PreparedFollows DEF BeginAssets, Alike
<1> QED BY <1>2, <1>3, <1>4 DEF IInv

LEMMA BeginRequireStep ==
  ASSUME IInv, BeginRequire
  PROVE  IInv'
<1>1. state \in Selector
  BY WellChosenType DEF IInv, Selectors, BeginRequire
<1>2. prep \in [step : {"require"}, rev : Revisions, want : SUBSET Files]
  BY PrepShape DEF IInv, Shapes, BeginRequire
<1>3. prep' \in [step : {"idle", "waiting"}]
  BY DEF BeginRequire, NoPrep
<1>4. Prepared'
  BY <1>3, NothingPrepared
<1>5. prep' \in Preps
  BY <1>3 DEF Preps
<1>6. CASE state.rev # prep.rev
  <2>1. UNCHANGED <<saved, state, disk, job, gone, trusted>>
    BY <1>6 DEF BeginRequire, MayStart
  <2>2. Ranges' /\ Shapes'
    BY <2>1, <1>5 DEF IInv, BeginRequire, Ranges, Shapes
  <2> QED BY <2>1, <2>2, <1>4, JobFrame DEF IInv
<1>7. CASE state.rev = prep.rev
  <2>1. /\ job' = [kind |-> "require", step |-> "fetch", before |-> state,
                   previous |-> OnDisk(state), required |-> prep.want]
        /\ OnDisk(state) \in SUBSET Files /\ prep.want \in SUBSET Files
        /\ \A f \in OnDisk(state) : f \in state.selected /\ disk[f] # None
    BY <1>1, <1>2, <1>7 DEF BeginRequire, PreviousOfRequire, OnDisk, Selector
  <2>2. /\ job' \in FetchJobs
        /\ Selectors' /\ Started' /\ Carries' /\ Truth' /\ ~Publishing'
    BY <2>1, BeginStep DEF BeginRequire, Kinds
  <2>3. Ranges' /\ Shapes'
    BY <2>2, <1>5 DEF IInv, BeginRequire, Ranges, Shapes
  <2> QED BY <2>2, <2>3, <1>4 DEF IInv
<1> QED BY <1>6, <1>7

LEMMA FetchStep ==
  ASSUME IInv, Fetch
  PROVE  IInv'
<1> DEFINE before == job.before
           r == IF Extending THEN before.rev ELSE upstream
<1>1. job \in FetchJobs
  BY JobShape DEF IInv, Shapes, Fetch
<1>2. /\ job.kind \in Kinds /\ before \in Selector \union {None}
      /\ job.previous \in SUBSET Files /\ job.required \in SUBSET Files
      /\ Alike(before, state) /\ (job.kind # "refresh" => before # None)
      /\ Extending <=> job.kind # "refresh"
  BY <1>1 DEF FetchJobs, IInv, Started, Extending, Kinds
<1>3. WellChosen(before)
  BY <1>2, AlikeChosen DEF IInv, Selectors
<1>4. r \in Revisions
  BY <1>2 DEF IInv, Ranges, Selector
<1>5. job.kind = "assets" =>
        ForAssets(job.kind, before, r, job.previous, job.required)
  BY <1>1, <1>2 DEF ForAssets, IInv, Started
<1> HIDE DEF r
<1> PICK lfs \in SUBSET Files :
      LET a == Acquires(job.kind, before, job.previous, r, job.required, lfs)
      IN job' = [kind |-> job.kind, step |-> "publish", before |-> before,
                 required |-> job.required, staged |-> a.staged,
                 next |-> NextSelector(job.kind, before, job.required, a)]
  BY DEF Fetch, Acquires, NextSelector, r
<1> DEFINE a == Acquires(job.kind, before, job.previous, r, job.required, lfs)
           t == NextSelector(job.kind, before, job.required, a)
<1>6. /\ t \in Selector /\ WellChosen(t) /\ t.repair = TRUE /\ t.rev = r
      /\ a.staged \in SUBSET Files
      /\ job.kind = "assets" => Completes(before, t, a.staged)
      /\ \A f \in t.selected :
           f \in a.staged \/ KeptBy(before, job.previous, r, f)
  BY <1>2, <1>3, <1>4, <1>5, Fetching
<1> DEFINE staged == a.staged
<1>7. job' = [kind |-> job.kind, step |-> "publish", before |-> before,
              required |-> job.required, staged |-> staged, next |-> t]
  OBVIOUS
<1> HIDE DEF a, t, staged
<1>8. /\ t \in Selector /\ WellChosen(t) /\ t.repair = TRUE /\ t.rev = r
      /\ staged \in SUBSET Files
      /\ job.kind = "assets" => Completes(before, t, staged)
      /\ \A f \in t.selected :
           f \in staged \/ KeptBy(before, job.previous, r, f)
  BY <1>6 DEF staged
<1>9. UNCHANGED <<upstream, saved, state, disk, generation, prep, index, moves,
                  faults, losses, gone, trusted>>
  BY DEF Fetch
<1>10. job' \in PublishJobs
  BY <1>2, <1>7, <1>8 DEF PublishJobs
<1>11. job' \notin FetchJobs /\ job' \notin PlaceJobs /\ ~Publishing'
  BY <1>7 DEF FetchJobs, PlaceJobs, Publishing
<1>12. Ranges' /\ Shapes' /\ Selectors'
  BY <1>9, <1>10 DEF IInv, Ranges, Shapes, Selectors
<1>13. Truth' /\ Prepared'
  <2>1. Alike(state', state)
    BY <1>9 DEF Alike
  <2> QED BY <2>1, <1>9, <1>11, TruthFollows, PreparedFollows
<1>14. Started'
  <2>1. job.kind = "assets" =>
          state # None /\ state.repair = FALSE /\ Alike(before, state)
    BY DEF IInv, Started
  <2> QED BY <2>1, <1>2, <1>7, <1>8, <1>9, <1>10, <1>11 DEF Started
<1>15. Carries'
  <2> SUFFICES ASSUME Sound', NEW f \in t.selected,
                      f \notin staged, f \notin t.unavailable
               PROVE  \/ disk'[f] = Tree[t.rev][f]
                      \/ disk'[f] = None /\ f \in gone'
    BY <1>7, <1>11 DEF Carries, FetchCarries, PublishCarries, PlaceCarries, Has
  <2>1. /\ before # None /\ f \in job.previous
        /\ Tree[before.rev][f] = Tree[r][f]
    BY <1>8 DEF KeptBy, SameBlob
  <2>2. Sound
    BY <1>7, <1>9 DEF Sound
  <2>3. Has(before.rev, f) \/ (job.kind = "assets" /\ f \in before.unavailable)
    BY <1>1, <2>1, <2>2 DEF IInv, Carries, FetchCarries
  <2>4. ~(job.kind = "assets" /\ f \in before.unavailable)
    BY <1>8 DEF Completes
  <2> QED BY <2>1, <2>3, <2>4, <1>8, <1>9 DEF Has
<1> QED BY <1>12, <1>13, <1>14, <1>15 DEF IInv

LEMMA PublishUnchangedStep ==
  ASSUME IInv, PublishUnchanged
  PROVE  IInv'
<1>1. job \in PublishJobs
  BY JobShape DEF IInv, Shapes, PublishUnchanged
<1>2. /\ job.next \in Selector /\ job.before # None /\ Alike(job.before, state)
      /\ SameInputs(job.before, job.next) /\ WellChosen(job.next)
  BY <1>1 DEF PublishJobs, PublishUnchanged, Unchanged, IInv, Started
<1>3. state \in Selector
  BY <1>2, WellChosenType DEF IInv, Selectors, Alike
<1>4. state' = [job.next EXCEPT !.indexed = state.indexed, !.repair = FALSE]
  BY DEF PublishUnchanged
<1>5. /\ state' \in Selector
      /\ state'.rev = job.next.rev /\ state'.selected = job.next.selected
      /\ state'.unavailable = job.next.unavailable
      /\ state'.omitted = job.next.omitted /\ state'.deferred = job.next.deferred
      /\ state'.additional = job.next.additional /\ state'.repair = FALSE
  BY <1>2, <1>3, <1>4 DEF Selector
<1>6. Alike(state', state)
  BY <1>2, <1>3, <1>5, NoneAssumption DEF Alike, SameInputs, Selector
<1>7. Selectors'
  <2>1. WellChosen(state')
    BY <1>5, <1>6, AlikeChosen DEF IInv, Selectors
  <2> QED BY <2>1 DEF Selectors, PublishUnchanged, Alike
<1>8. job' = NoJob /\ UNCHANGED <<upstream, disk, generation, index, moves,
                                  faults, losses, gone, trusted>>
  BY DEF PublishUnchanged
<1>9. Started' /\ Carries' /\ Truth'
  BY <1>6, <1>8, NothingCarried, TruthFollows
<1>10. prep' = prep \/ prep' = NoPrep
  BY DEF PublishUnchanged, Release
<1>11. Ranges' /\ Shapes'
  BY <1>8, <1>10 DEF IInv, Ranges, Shapes, Preps, NoPrep
<1>12. Prepared'
  <2>1. CASE prep' = NoPrep
    BY <2>1, NothingPrepared DEF NoPrep
  <2>2. CASE prep' = prep
    <3>1. ~Publishing'
      BY <1>8 DEF Publishing, NoJob
    <3> QED BY <2>2, <3>1, <1>6, <1>8, PreparedFollows
  <2> QED BY <2>1, <2>2, <1>10
<1> QED BY <1>7, <1>9, <1>11, <1>12 DEF IInv

LEMMA PublishChangedStep ==
  ASSUME IInv, PublishChanged
  PROVE  IInv'
<1> DEFINE next == [job.next EXCEPT
                      !.indexed = IF Extending THEN state.indexed ELSE @]
           dropped == IF Extending \/ job.before = None THEN {}
                      ELSE job.before.selected \ next.selected
<1>1. job \in PublishJobs
  BY JobShape DEF IInv, Shapes, PublishChanged
<1>2. /\ job.kind \in Kinds /\ job.next \in Selector /\ WellChosen(job.next)
      /\ job.next.repair = TRUE /\ job.staged \in SUBSET Files
      /\ job.before \in Selector \union {None}
      /\ Alike(job.before, state) /\ (job.kind # "refresh" => job.before # None)
  BY <1>1 DEF PublishJobs, IInv, Started
<1>3. Extending => state \in Selector
  BY <1>2, WellChosenType DEF IInv, Selectors, Alike, Extending
<1>4. /\ next \in Selector
      /\ next.rev = job.next.rev /\ next.selected = job.next.selected
      /\ next.unavailable = job.next.unavailable
      /\ next.omitted = job.next.omitted /\ next.deferred = job.next.deferred
      /\ next.additional = job.next.additional /\ next.repair = TRUE
  BY <1>2, <1>3 DEF Selector
<1>5. /\ job' = [kind |-> job.kind, step |-> "remove", before |-> job.before,
                 next |-> next, staged |-> job.staged, todo |-> dropped]
      /\ job.kind # "assets" => state' = next /\ saved' = next
      /\ job.kind = "assets" => UNCHANGED <<state, saved>>
      /\ trusted' = (trusted /\ ~(job.kind = "require" /\ job.before.repair))
      /\ UNCHANGED <<upstream, disk, generation, prep, index, moves, faults,
                     losses, gone>>
  BY DEF PublishChanged, MarkedForRepair
<1>6. dropped \in SUBSET Files /\ dropped \intersect next.selected = {}
      /\ (job.kind = "assets" => dropped = {})
  BY <1>2, <1>4 DEF Selector, Extending
<1> HIDE DEF next, dropped
<1>7. job' \in PlaceJobs /\ job' \notin FetchJobs /\ job' \notin PublishJobs
  BY <1>2, <1>4, <1>5, <1>6 DEF PlaceJobs, FetchJobs, PublishJobs
<1>8. WellChosen(next)
  BY <1>2, <1>4, AlikeChosen, NoneAssumption DEF Alike
<1>9. ~Reading
  BY DEF PublishChanged, ReadersDone
<1>10. Ranges' /\ Shapes'
  BY <1>2, <1>5, <1>7 DEF IInv, Ranges, Shapes
<1>11. Selectors'
  BY <1>5, <1>8 DEF IInv, Selectors, Alike
<1>12. Started'
  <2>1. job.kind = "assets" =>
          /\ state # None /\ state.repair = FALSE
          /\ Completes(job.before, next, job.staged)
    BY <1>1, <1>4, JobShape DEF IInv, Shapes, Started, Completes, Inputs
  <2>2. Alike(next, next)
    BY DEF Alike
  <2> QED BY <2>1, <2>2, <1>2, <1>4, <1>5, <1>6, <1>7, <1>8 DEF Started
<1>13. Carries'
  <2> SUFFICES ASSUME trusted', NEW f \in next.selected, f \notin job.staged,
                      f \notin next.unavailable
               PROVE  \/ disk'[f] = Tree[next.rev][f]
                      \/ disk'[f] = None /\ f \in gone'
    BY <1>5, <1>6, <1>7 DEF Carries, FetchCarries, PublishCarries, PlaceCarries, Has
  <2>1. Sound
    BY <1>5 DEF Sound
  <2> QED BY <2>1, <1>1, <1>4, <1>5 DEF IInv, Carries, PublishCarries, Has
<1>14. Truth' /\ Prepared'
  <2>1. CASE job.kind = "assets"
    <3>1. Alike(state', state)
      BY <2>1, <1>5 DEF Alike
    <3>2. trusted' = trusted
      BY <2>1, <1>5 DEF IInv, Ranges
    <3> QED BY <3>1, <3>2, <1>5, <1>9, TruthFollows, PreparedFollows
  <2>2. CASE job.kind # "assets"
    <3>1. state' # None /\ state'.repair = TRUE
      BY <2>2, <1>4, <1>5, NoneAssumption
    <3>2. Truth'
      BY <3>1 DEF Truth
    <3>3. Prepared'
      BY <3>1, <1>5, <1>9 DEF IInv, Prepared, Reading
    <3> QED BY <3>2, <3>3
  <2> QED BY <2>1, <2>2
<1> QED BY <1>10, <1>11, <1>12, <1>13, <1>14 DEF IInv

\* A placing job at another step, with other files to do.
Placing(j, step, todo) ==
  [kind |-> j.kind, step |-> step, before |-> j.before, next |-> j.next,
   staged |-> j.staged, todo |-> todo]

LEMMA PlaceJobType ==
  ASSUME NEW j \in PlaceJobs
  PROVE  /\ j.kind \in Kinds /\ j.step \in {"remove", "place", "finish"}
         /\ j.before \in Selector \union {None} /\ j.next \in Selector
         /\ j.staged \in SUBSET Files /\ j.todo \in SUBSET Files
         /\ j = Placing(j, j.step, j.todo)
BY DEF PlaceJobs, Placing

\* A placing job goes on: it keeps its selector and the one it started from.
LEMMA PlacingStep ==
  ASSUME IInv, job \in PlaceJobs,
         NEW step \in {"remove", "place", "finish"}, NEW todo \in SUBSET Files,
         job' = Placing(job, step, todo),
         job.kind = "assets" /\ step = "remove" => todo = {},
         UNCHANGED <<saved, state>>
  PROVE  /\ job' \in PlaceJobs
         /\ job'.kind = job.kind /\ job'.step = step /\ job'.before = job.before
         /\ job'.next = job.next /\ job'.staged = job.staged /\ job'.todo = todo
         /\ Selectors' /\ Started' /\ FetchCarries' /\ PublishCarries'
<1>1. /\ job' \in PlaceJobs
      /\ job'.kind = job.kind /\ job'.step = step /\ job'.before = job.before
      /\ job'.next = job.next /\ job'.staged = job.staged /\ job'.todo = todo
  BY PlaceJobType DEF PlaceJobs, Placing
<1>2. job' \notin FetchJobs /\ job' \notin PublishJobs
  BY <1>1, JobShape
<1>3. Selectors'
  BY DEF IInv, Selectors
<1>4. Started'
  BY <1>1, <1>2, JobShape DEF IInv, Started
<1> QED BY <1>1, <1>2, <1>3, <1>4 DEF FetchCarries, PublishCarries

\* While a job other than an assets job places files, the selector is under
\* repair and promises nothing.
LEMMA UnderRepair ==
  ASSUME IInv, job \in PlaceJobs, job.kind # "assets"
  PROVE  state # None /\ state.repair = TRUE
<1>1. job.next \in Selector /\ job.next.repair = TRUE /\ Alike(job.next, state)
  BY PlaceJobType DEF IInv, Started
<1> QED BY <1>1, NoneAssumption DEF Alike

LEMMA RemoveStep ==
  ASSUME IInv, Remove
  PROVE  IInv'
<1>1. job \in PlaceJobs /\ job.step = "remove"
  BY JobShape DEF IInv, Shapes, Remove
<1>2. /\ job.kind \in Kinds /\ job.next \in Selector
      /\ job.staged \in SUBSET Files /\ job.todo \in SUBSET Files
  BY <1>1, PlaceJobType
<1>3. job.kind = "assets" => job.todo = {}
  BY <1>1 DEF IInv, Started
<1>4. ~Reading
  BY <1>1 DEF IInv, Prepared, Publishing, Remove
<1>5. CASE job.todo = {}
  <2> DEFINE todo == job.next.selected \intersect
                       (job.staged \union job.next.unavailable)
  <2>1. job' = Placing(job, "place", todo)
    <3> DEFINE j == [job EXCEPT !.step = "place"]
               k == [j EXCEPT !.todo = @ \union todo]
    <3>1. job' = k
      BY <1>5 DEF Remove
    <3> HIDE DEF todo
    <3>2. j = Placing(job, "place", job.todo)
      BY <1>1 DEF PlaceJobs, Placing
    <3> HIDE DEF j
    <3>4. k = Placing(job, "place", job.todo \union todo)
      BY SMTT(20), <3>2 DEF Placing
    <3>3. job.todo \union todo = todo
      BY <1>5
    <3> HIDE DEF k, todo
    <3> QED BY <3>1, <3>4, <3>3
  <2>2. todo \in SUBSET Files
    BY <1>2 DEF Selector
  <2>3. UNCHANGED <<upstream, saved, state, disk, generation, prep, index,
                    moves, faults, losses, gone, trusted>>
    BY <1>5 DEF Remove
  <2> HIDE DEF todo
  <2>4. /\ job' \in PlaceJobs
        /\ job'.next = job.next /\ job'.staged = job.staged
        /\ job'.todo = todo /\ job'.step = "place"
        /\ Selectors' /\ Started' /\ FetchCarries' /\ PublishCarries'
    BY <1>1, <2>1, <2>2, <2>3, PlacingStep
  <2>5. PlaceCarries'
    <3>1. trusted => \A f \in job.next.selected :
            \/ f \in job.staged \/ f \in job.next.unavailable
            \/ disk[f] = Tree[job.next.rev][f]
            \/ disk[f] = None /\ f \in gone
      BY <1>1 DEF IInv, Carries, PlaceCarries, Has
    <3>2. trusted => \A f \in job.next.selected : f \in todo \/ Placed(job.next, f)
      BY <3>1 DEF Placed, Has, todo
    <3>3. todo \subseteq job.staged \union job.next.unavailable
      BY DEF todo
    <3> QED BY <2>3, <2>4, <3>2, <3>3 DEF PlaceCarries, Placed, Has
  <2>6. Ranges' /\ Shapes'
    BY <2>3, <2>4 DEF IInv, Ranges, Shapes
  <2>7. Truth' /\ Prepared'
    <3>1. Alike(state', state)
      BY <2>3 DEF Alike
    <3> QED BY <3>1, <1>4, <2>3, TruthFollows, PreparedFollows
  <2> QED BY <2>4, <2>5, <2>6, <2>7 DEF IInv, Carries
<1>6. CASE job.todo # {}
  <2> PICK f \in job.todo : /\ disk' = [disk EXCEPT ![f] = None]
                            /\ job' = [job EXCEPT !.todo = @ \ {f}]
    BY <1>6 DEF Remove
  <2> DEFINE todo == job.todo \ {f}
  <2>1. job' = Placing(job, "remove", todo)
    BY <1>1 DEF PlaceJobs, Placing
  <2>2. todo \in SUBSET Files /\ f \in Files /\ job.kind # "assets"
    BY <1>2, <1>3, <1>6
  <2>3. UNCHANGED <<upstream, saved, state, generation, prep, index,
                    moves, faults, losses, gone, trusted>>
    BY DEF Remove
  <2> HIDE DEF todo
  <2>4. /\ job' \in PlaceJobs
        /\ job'.next = job.next /\ job'.staged = job.staged
        /\ job'.todo = todo /\ job'.step = "remove"
        /\ Selectors' /\ Started' /\ FetchCarries' /\ PublishCarries'
    BY <1>1, <2>1, <2>2, <2>3, PlacingStep
  <2>5. PlaceCarries'
    <3>1. trusted => /\ job.todo \intersect job.next.selected = {}
                     /\ \A g \in job.next.selected :
                          \/ g \in job.staged \/ g \in job.next.unavailable
                          \/ disk[g] = Tree[job.next.rev][g]
                          \/ disk[g] = None /\ g \in gone
      BY <1>1 DEF IInv, Carries, PlaceCarries, Has
    <3>2. \A g \in Files : g # f => disk'[g] = disk[g]
      BY DEF IInv, Ranges
    <3>3. job.next.selected \subseteq Files
      BY <1>2 DEF Selector
    <3>4. trusted => /\ todo \intersect job.next.selected = {}
                     /\ \A g \in job.next.selected :
                          \/ g \in job.staged \/ g \in job.next.unavailable
                          \/ disk'[g] = Tree[job.next.rev][g]
                          \/ disk'[g] = None /\ g \in gone
      BY <3>1, <3>2, <3>3 DEF todo
    <3> QED BY <2>3, <2>4, <3>4 DEF PlaceCarries, Has
  <2>6. Ranges' /\ Shapes'
    BY <2>2, <2>3, <2>4 DEF IInv, Ranges, Shapes
  <2>7. state # None /\ state.repair = TRUE
    BY <1>1, <2>2, UnderRepair
  <2>8. Truth'
    BY <2>3, <2>7 DEF Truth
  <2>9. Prepared'
    BY <1>4, <2>3, <2>7 DEF IInv, Prepared, Reading
  <2> QED BY <2>4, <2>5, <2>6, <2>8, <2>9 DEF IInv, Carries
<1> QED BY <1>5, <1>6

LEMMA PlaceStep ==
  ASSUME IInv, Place
  PROVE  IInv'
<1>1. job \in PlaceJobs /\ job.step = "place"
  BY JobShape DEF IInv, Shapes, Place
<1>2. /\ job.kind \in Kinds /\ job.next \in Selector
      /\ job.staged \in SUBSET Files /\ job.todo \in SUBSET Files
      /\ job.next.selected \subseteq Files
  BY <1>1, PlaceJobType DEF Selector
<1>3. ~Reading
  BY <1>1 DEF IInv, Prepared, Publishing, Place
<1>4. UNCHANGED <<upstream, saved, state, generation, prep, index,
                  moves, faults, losses, trusted>>
  BY DEF Place
<1>5. trusted =>
        /\ \A g \in job.next.selected : g \in job.todo \/ Placed(job.next, g)
        /\ job.todo \subseteq job.staged \union job.next.unavailable
  BY <1>1 DEF IInv, Carries, PlaceCarries
<1>6. Alike(state', state)
  BY <1>4 DEF Alike
<1>7. Prepared'
  BY <1>3, <1>4, <1>6, PreparedFollows
<1>8. CASE job.todo = {}
  <2>1. /\ job' = Placing(job, "finish", {})
        /\ UNCHANGED <<disk, gone>>
    BY <1>1, <1>8 DEF Place, PlaceJobs, Placing
  <2>2. /\ job' \in PlaceJobs
        /\ job'.next = job.next /\ job'.staged = job.staged
        /\ job'.todo = {} /\ job'.step = "finish"
        /\ Selectors' /\ Started' /\ FetchCarries' /\ PublishCarries'
    BY <1>1, <1>4, <2>1, PlacingStep
  <2>3. PlaceCarries'
    BY <1>4, <1>5, <1>8, <2>1, <2>2 DEF PlaceCarries, Placed, Has
  <2>4. Ranges' /\ Shapes' /\ Truth'
    BY <1>4, <1>6, <2>1, <2>2, TruthFollows DEF IInv, Ranges, Shapes
  <2> QED BY <1>7, <2>2, <2>3, <2>4 DEF IInv, Carries
<1>9. CASE job.todo # {}
  <2> DEFINE content(f) == IF f \in job.next.unavailable THEN None
                           ELSE Tree[job.next.rev][f]
  <2> PICK f \in job.todo : /\ disk' = [disk EXCEPT ![f] = content(f)]
                            /\ gone' = gone \ {f}
                            /\ job' = [job EXCEPT !.todo = @ \ {f}]
    BY <1>9 DEF Place
  <2> DEFINE todo == job.todo \ {f}
  <2>1. job' = Placing(job, "place", todo)
    BY <1>1 DEF PlaceJobs, Placing
  <2>2. /\ todo \in SUBSET Files /\ f \in Files
        /\ content(f) \in Blobs \union {None}
    BY <1>2, TreeAssumption DEF Selector
  <2>3. /\ disk'[f] = content(f)
        /\ \A g \in Files : g # f => /\ disk'[g] = disk[g]
                                     /\ g \in gone' <=> g \in gone
    BY <2>2 DEF IInv, Ranges
  <2>4. /\ job' \in PlaceJobs
        /\ job'.next = job.next /\ job'.staged = job.staged
        /\ job'.todo = todo /\ job'.step = "place"
        /\ Selectors' /\ Started' /\ FetchCarries' /\ PublishCarries'
    BY <1>1, <1>4, <2>1, <2>2, PlacingStep
  <2>5. PlaceCarries'
    <3> SUFFICES ASSUME trusted, NEW g \in job.next.selected, g \notin todo
                 PROVE  /\ g \notin job.next.unavailable =>
                             \/ disk'[g] = Tree[job.next.rev][g]
                             \/ disk'[g] = None /\ g \in gone'
                        /\ g \in job.next.unavailable => disk'[g] = None
      BY <1>4, <1>5, <2>4 DEF PlaceCarries, Placed, Has
    <3>1. CASE g = f
      BY <2>3, <3>1
    <3>2. CASE g # f
      BY <1>2, <1>5, <2>3, <3>2 DEF Placed, Has
    <3> QED BY <3>1, <3>2
  <2>6. Ranges' /\ Shapes'
    BY <1>4, <2>2, <2>4 DEF IInv, Ranges, Shapes
  <2>7. Truth'
    <3>1. CASE job.kind # "assets"
      <4>1. state # None /\ state.repair = TRUE
        BY <1>1, <3>1, UnderRepair
      <4> QED BY <1>4, <4>1 DEF Truth
    <3>2. CASE job.kind = "assets"
      <4> SUFFICES ASSUME trusted, NEW g \in state.selected
                   PROVE  /\ g \notin state.unavailable =>
                               \/ disk'[g] = Tree[state.rev][g]
                               \/ disk'[g] = None /\ g \in gone'
                          /\ g \in state.unavailable => disk'[g] = None
        BY <1>4 DEF Truth, Matches
      <4>1. /\ state # None /\ state.repair = FALSE /\ Alike(job.before, state)
            /\ Completes(job.before, job.next, job.staged)
        BY <3>2, <1>1, JobShape DEF IInv, Shapes, Started
      <4>2. /\ g \notin job.staged
            /\ g \in job.next.unavailable <=> g \in state.unavailable
        BY <4>1, AlikeInputs DEF Completes
      <4>3. /\ g \notin state.unavailable =>
                 disk[g] = Tree[state.rev][g] \/ (disk[g] = None /\ g \in gone)
            /\ g \in state.unavailable => disk[g] = None
        BY <4>1 DEF IInv, Truth, Matches
      <4>4. g \in Files
        BY <4>1, WellChosenType DEF IInv, Selectors, Selector
      <4>5. CASE g = f
        BY <1>5, <2>3, <4>2, <4>5
      <4>6. CASE g # f
        BY <2>3, <4>3, <4>4, <4>6
      <4> QED BY <4>5, <4>6
    <3> QED BY <3>1, <3>2
  <2> QED BY <1>7, <2>4, <2>5, <2>6, <2>7 DEF IInv, Carries
<1> QED BY <1>8, <1>9

LEMMA FinishStep ==
  ASSUME IInv, Finish
  PROVE  IInv'
<1>1. job \in PlaceJobs /\ job.step = "finish"
  BY JobShape DEF IInv, Shapes, Finish
<1>2. /\ job.kind \in Kinds /\ job.next \in Selector
      /\ job.before \in Selector \union {None}
      /\ WellChosen(job.next) /\ job.next.repair = TRUE
  BY <1>1, PlaceJobType DEF IInv, Started
<1> DEFINE marker == IF Extending THEN job.next.indexed
                     ELSE Carried(job.before, job.next)
<1>3. marker \in Revisions \union {None}
  BY <1>2 DEF Carried, Selector
<1>4. /\ state' \in Selector
      /\ state'.rev = job.next.rev /\ state'.selected = job.next.selected
      /\ state'.unavailable = job.next.unavailable
      /\ state'.omitted = job.next.omitted /\ state'.deferred = job.next.deferred
      /\ state'.additional = job.next.additional /\ state'.repair = FALSE
  <2> DEFINE t == [job.next EXCEPT !.repair = FALSE]
  <2>1. /\ t \in Selector /\ t.rev = job.next.rev
        /\ t.selected = job.next.selected
        /\ t.unavailable = job.next.unavailable /\ t.omitted = job.next.omitted
        /\ t.deferred = job.next.deferred /\ t.additional = job.next.additional
        /\ t.repair = FALSE /\ t.indexed = job.next.indexed
    BY <1>2 DEF Selector
  <2>2. state' = [t EXCEPT !.indexed = IF Extending THEN @
                                       ELSE Carried(job.before, job.next)]
    BY DEF Finish, Applied
  <2> HIDE DEF t
  <2>3. state' = [t EXCEPT !.indexed = marker]
    BY <2>1, <2>2
  <2> HIDE DEF marker
  <2> QED BY <1>3, <2>1, <2>3 DEF Selector
<1>5. state' # None /\ job.next # None
  BY <1>2, <1>4, NoneAssumption
<1>6. WellChosen(state')
  <2>1. SelectorOK(state')
    BY <1>2, <1>4, <1>5 DEF WellChosen, SelectorOK
  <2>2. Chosen(state')
    BY <1>2, <1>4, <1>5 DEF WellChosen, Chosen
  <2> QED BY <2>1, <2>2 DEF WellChosen
<1>7. /\ saved' = state' /\ job' = NoJob
      /\ generation' = IF job.kind = "assets" THEN generation ELSE generation + 1
      /\ UNCHANGED <<upstream, disk, index, moves, faults, losses, gone, trusted>>
  BY DEF Finish, NextGeneration
<1>8. Selectors'
  BY <1>6, <1>7 DEF Selectors, Alike
<1>9. Started' /\ Carries'
  BY <1>7, NothingCarried
<1>10. prep' = prep \/ prep' = NoPrep
  BY DEF Finish, Release
<1>11. Ranges' /\ Shapes'
  BY <1>7, <1>10 DEF IInv, Ranges, Shapes, Preps, NoPrep
<1>12. Truth'
  <2> SUFFICES ASSUME trusted, NEW f \in job.next.selected
               PROVE  /\ f \notin job.next.unavailable =>
                           \/ disk[f] = Tree[job.next.rev][f]
                           \/ disk[f] = None /\ f \in gone
                      /\ f \in job.next.unavailable => disk[f] = None
    BY <1>4, <1>7 DEF Truth, Matches
  <2>1. job.todo = {} /\ (f \in job.todo \/ Placed(job.next, f))
    BY <1>1 DEF IInv, Carries, PlaceCarries
  <2> QED BY <2>1 DEF Placed, Has
<1>13. Prepared'
  <2>1. CASE prep' = NoPrep
    BY <2>1, NothingPrepared DEF NoPrep
  <2>2. CASE prep' = prep
    <3>1. ~Publishing' /\ ~Reading
      BY <1>1, <1>7 DEF Publishing, NoJob, IInv, Prepared, Finish
    <3>2. CASE job.kind = "assets"
      <4>1. /\ state # None /\ state.repair = FALSE /\ Alike(job.before, state)
            /\ Completes(job.before, job.next, job.staged)
        BY <3>2, <1>1, JobShape DEF IInv, Shapes, Started
      <4>2. /\ Inputs(state') = Inputs(job.next)
            /\ state'.rev = job.next.rev
        BY <1>4 DEF Inputs
      <4>3. Inputs(state') = Inputs(state) /\ state'.rev = state.rev
        BY <4>1, <4>2, AlikeInputs DEF Completes
      <4>4. ASSUME prep.step \in {"planned", "indexing", "mark"},
                   prep.gen = generation, trusted
            PROVE  IF prep.step = "mark" THEN IndexIs(state)'
                                         ELSE PlanIs(prep.plan, state')
        <5>1. IF prep.step = "mark" THEN IndexIs(state)
                                    ELSE PlanIs(prep.plan, state)
          BY <4>1, <4>4 DEF IInv, Prepared
        <5>2. CASE prep.step = "mark"
          BY <1>7, <4>3, <5>1, <5>2 DEF IndexIs
        <5>3. CASE prep.step # "mark"
          BY <4>3, <5>1, <5>3 DEF PlanIs
        <5> QED BY <5>2, <5>3
      <4>5. prep.step \in {"planned", "indexing", "mark"} =>
              prep.gen <= generation
        BY DEF IInv, Prepared
      <4> QED BY <1>5, <1>7, <2>2, <3>1, <3>2, <4>4, <4>5 DEF Prepared, Reading
    <3>3. CASE job.kind # "assets"
      <4>1. prep.step \in {"planned", "indexing", "mark"} =>
              prep.gen <= generation /\ prep.gen \in Nat
        BY PrepShape DEF IInv, Prepared, Shapes
      <4>2. generation \in Nat /\ generation' = generation + 1
        BY <1>7, <3>3 DEF IInv, Ranges
      <4>3. prep.step \in {"planned", "indexing", "mark"} =>
              prep.gen <= generation' /\ prep.gen # generation'
        BY <4>1, <4>2
      <4> QED BY <1>5, <2>2, <3>1, <4>3 DEF Prepared, Reading
    <3> QED BY <3>2, <3>3
  <2> QED BY <1>10, <2>1, <2>2
<1> QED BY <1>8, <1>9, <1>11, <1>12, <1>13 DEF IInv

-----------------------------------------------------------------------------
(* The preparation                                                         *)

LEMMA DiscoverStep ==
  ASSUME IInv, Discover
  PROVE  IInv'
<1>1. UNCHANGED <<upstream, saved, state, disk, generation, job, index, moves,
                  faults, losses, gone, trusted>>
  BY DEF Discover
<1>2. Selectors' /\ Started' /\ Carries' /\ Truth'
  BY <1>1, JobFrame
<1>3. state \in Selector /\ state # None /\ ~state.repair /\ ~Publishing
  BY WellChosenType DEF IInv, Selectors, Discover
<1> DEFINE missing == {f \in Visible(state) \intersect Extra : disk[f] = None}
<1>4. CASE missing # {}
  <2>1. prep' = [step |-> "require", rev |-> state.rev, want |-> missing]
    BY <1>4 DEF Discover
  <2>2. missing \in SUBSET Files
    BY DEF Visible, Tracked
  <2> HIDE DEF missing
  <2>3. prep' \in Preps
    BY <1>3, <2>1, <2>2 DEF Preps, Selector
  <2>4. Prepared'
    BY <2>1, NothingPrepared
  <2>5. Ranges' /\ Shapes'
    BY <1>1, <2>3 DEF IInv, Ranges, Shapes
  <2> QED BY <1>2, <2>4, <2>5 DEF IInv
<1>5. CASE missing = {}
  <2> DEFINE plan == Snapshot(state)
  <2>1. prep' = [step |-> "planned", rev |-> state.rev, gen |-> generation,
                 plan |-> plan]
    BY <1>5 DEF Discover
  <2>2. plan \in Plans
    <3>1. Inputs(state) \in SUBSET Files
      BY <1>3 DEF Inputs, Selector
    <3>2. plan \in [Inputs(state) -> Blobs \union {None}]
      BY <3>1 DEF Snapshot, IInv, Ranges
    <3> QED BY <3>1, <3>2 DEF Plans
  <2>3. trusted => PlanIs(plan, state)
    <3> SUFFICES ASSUME trusted, NEW f \in Inputs(state)
                 PROVE  disk[f] \in {Tree[state.rev][f], None}
      BY DEF PlanIs, Snapshot
    <3>1. Matches(state)
      BY <1>3 DEF IInv, Truth
    <3>2. f \in state.selected /\ f \notin state.unavailable
      BY DEF Inputs
    <3> QED BY <3>1, <3>2 DEF Matches
  <2> HIDE DEF plan
  <2>4. prep' \in Preps
    BY <1>3, <2>1, <2>2 DEF Preps, Selector, IInv, Ranges
  <2>5. Prepared'
    <3>1. generation <= generation
      BY DEF IInv, Ranges
    <3> QED BY <1>1, <1>3, <2>1, <2>3, <3>1 DEF Prepared, Reading, PlanIs
  <2>6. Ranges' /\ Shapes'
    BY <1>1, <2>4 DEF IInv, Ranges, Shapes
  <2> QED BY <1>2, <2>5, <2>6 DEF IInv
<1> QED BY <1>4, <1>5

LEMMA BeginIndexStep ==
  ASSUME IInv, BeginIndex
  PROVE  IInv'
<1>1. UNCHANGED <<upstream, saved, state, disk, generation, job, index, moves,
                  faults, losses, gone, trusted>>
  BY DEF BeginIndex
<1>2. Selectors' /\ Started' /\ Carries' /\ Truth'
  BY <1>1, JobFrame
<1>3. prep \in [step : {"planned", "indexing"}, rev : Revisions, gen : Nat,
                plan : Plans]
  BY PrepShape DEF IInv, Shapes, BeginIndex
<1>4. CASE prep' = NoPrep
  <2>1. Prepared'
    BY <1>4, NothingPrepared DEF NoPrep
  <2>2. Ranges' /\ Shapes'
    BY <1>1, <1>4 DEF IInv, Ranges, Shapes, Preps, NoPrep
  <2> QED BY <1>2, <2>1, <2>2 DEF IInv
<1>5. CASE prep.gen = generation /\ prep' = [prep EXCEPT !.step = "indexing"]
  <2>1. /\ prep' \in Preps /\ prep'.step = "indexing" /\ prep'.gen = prep.gen
        /\ prep'.plan = prep.plan
    BY <1>3, <1>5 DEF Preps
  <2>2. ~Publishing'
    BY <1>1 DEF BeginIndex, Publishing
  <2>3. /\ state # None
        /\ trusted /\ ~state.repair => PlanIs(prep.plan, state)
    BY <1>5 DEF IInv, Prepared, BeginIndex
  <2>4. Prepared'
    <3>1. generation <= generation
      BY DEF IInv, Ranges
    <3> QED BY <1>1, <1>5, <2>1, <2>2, <2>3, <3>1 DEF Prepared, Reading, PlanIs
  <2>5. Ranges' /\ Shapes'
    BY <1>1, <2>1 DEF IInv, Ranges, Shapes
  <2> QED BY <1>2, <2>4, <2>5 DEF IInv
<1> QED BY <1>4, <1>5 DEF BeginIndex

LEMMA EndIndexStep ==
  ASSUME IInv, EndIndex
  PROVE  IInv'
<1>1. /\ UNCHANGED <<upstream, saved, state, disk, generation, job, moves,
                     faults, losses, gone, trusted>>
      /\ index' = [rev |-> prep.rev, files |-> prep.plan]
      /\ prep' = [step |-> "mark", gen |-> generation]
  BY DEF EndIndex
<1>2. Selectors' /\ Started' /\ Carries' /\ Truth'
  BY <1>1, JobFrame
<1>3. Ranges' /\ Shapes'
  BY <1>1 DEF IInv, Ranges, Shapes, Preps
<1>4. prep \in [step : {"planned", "indexing"}, rev : Revisions, gen : Nat,
                plan : Plans]
  BY PrepShape DEF IInv, Shapes, EndIndex
<1>5. /\ prep.gen = generation /\ state # None
      /\ trusted /\ ~state.repair => PlanIs(prep.plan, state)
  BY DEF IInv, Prepared, EndIndex, Reading
<1>6. trusted /\ ~state.repair => IndexIs(state)'
  <2> SUFFICES ASSUME trusted, ~state.repair PROVE IndexIs(state)'
    OBVIOUS
  <2>1. index' # None
    BY <1>1, <1>4, NoneAssumption DEF Indexes
  <2> QED BY <1>1, <1>5, <2>1 DEF IndexIs, PlanIs
<1>7. Prepared'
  <2>1. generation <= generation
    BY DEF IInv, Ranges
  <2> QED BY <1>1, <1>5, <1>6, <2>1 DEF Prepared, Reading
<1> QED BY <1>2, <1>3, <1>7 DEF IInv

LEMMA MarkStep ==
  ASSUME IInv, Mark
  PROVE  IInv'
<1>1. /\ prep' = NoPrep /\ prep.step = "mark"
      /\ UNCHANGED <<upstream, disk, generation, job, index, moves, losses,
                     gone, trusted>>
  BY DEF Mark
<1>2. state # None /\ state \in Selector
  BY <1>1, WellChosenType DEF IInv, Prepared, Selectors
<1>3. \/ UNCHANGED <<state, saved, faults>>
      \/ /\ state' = [state EXCEPT !.indexed = state.rev]
         /\ saved' = state' \/ saved' = saved
         /\ faults' = faults \/ (faults < MaxFaults /\ faults' = faults + 1)
  BY DEF Mark
<1>4. Alike(state', state) /\ Alike(saved', state')
  <2>1. Alike(saved, state)
    BY DEF IInv, Selectors
  <2>2. Alike(state', state)
    <3>1. CASE state' = state
      BY <3>1 DEF Alike
    <3>2. CASE state' = [state EXCEPT !.indexed = state.rev]
      BY <1>2, <3>2, NoneAssumption DEF Alike, Selector
    <3> QED BY <1>3, <3>1, <3>2
  <2>3. Alike(saved, state') /\ Alike(state', state')
    BY <2>1, <2>2 DEF Alike
  <2> QED BY <1>3, <2>1, <2>2, <2>3
<1>5. WellChosen(state') /\ WellChosen(saved')
  <2>1. state' \in Selector
    BY <1>2, <1>3 DEF Selector
  <2>2. WellChosen(state')
    BY <1>4, <2>1, AlikeChosen DEF IInv, Selectors
  <2> QED BY <1>3, <2>2 DEF IInv, Selectors
<1>6. Selectors'
  BY <1>4, <1>5 DEF Selectors
<1>7. Started'
  BY <1>1, <1>4 DEF IInv, Started, Alike
<1>8. Carries'
  BY <1>1 DEF IInv, Carries, FetchCarries, PublishCarries, PlaceCarries,
              Sound, Has, Placed
<1>9. Truth'
  BY <1>1, <1>4, TruthFollows
<1>10. Prepared'
  BY <1>1, NothingPrepared DEF NoPrep
<1>11. Ranges' /\ Shapes'
  BY <1>1, <1>3, BoundAssumption DEF IInv, Ranges, Shapes, Preps, NoPrep
<1> QED BY <1>6, <1>7, <1>8, <1>9, <1>10, <1>11 DEF IInv

-----------------------------------------------------------------------------
(* Theorems                                                                *)

\* At the start no job, no preparation and no selector exists.
LEMMA InitIInv ==
  Init => IInv
<1> SUFFICES ASSUME Init PROVE IInv
  OBVIOUS
<1>1. Ranges
  BY BoundAssumption DEF Init, Ranges
<1>2. Shapes
  BY DEF Init, Shapes, Preps, NoPrep
<1>3. Selectors /\ Truth
  BY DEF Init, Selectors, WellChosen, SelectorOK, Alike, Truth
<1>4. Started /\ Carries
  <2>1. job \notin FetchJobs /\ job \notin PublishJobs /\ job \notin PlaceJobs
    BY DEF Init, NoJob, FetchJobs, PublishJobs, PlaceJobs, Kinds
  <2>2. job.kind = "none"
    BY DEF Init, NoJob
  <2> QED BY <2>1, <2>2 DEF Started, Carries, FetchCarries, PublishCarries,
                            PlaceCarries
<1>5. Prepared
  BY DEF Init, Prepared, NoPrep, Reading
<1> QED BY <1>1, <1>2, <1>3, <1>4, <1>5 DEF IInv

LEMMA StepIInv ==
  IInv /\ [Next]_vars => IInv'
<1> SUFFICES ASSUME IInv, [Next]_vars PROVE IInv'
  OBVIOUS
<1>1. CASE Push \/ Lose \/ Crash \/ Fail
  BY <1>1, PushStep, LoseStep, CrashStep, FailStep
<1>2. CASE BeginRefresh \/ BeginRequire \/ BeginAssets \/ Fetch
  BY <1>2, BeginRefreshStep, BeginRequireStep, BeginAssetsStep, FetchStep
<1>3. CASE PublishUnchanged \/ PublishChanged
  BY <1>3, PublishUnchangedStep, PublishChangedStep
<1>4. CASE Remove \/ Place \/ Finish
  BY <1>4, RemoveStep, PlaceStep, FinishStep
<1>5. CASE PrepStep
  BY <1>5, DiscoverStep, BeginIndexStep, EndIndexStep, MarkStep DEF PrepStep
<1>6. CASE UNCHANGED vars
  BY <1>6, StutterStep
<1> QED BY <1>1, <1>2, <1>3, <1>4, <1>5, <1>6 DEF Next, JobStep

\* The invariant holds in every reachable state: whatever step of a job
\* failed or died, the selector, its jobs and the files below source/ are
\* related as IInv says.
THEOREM Invariant == Spec => []IInv
BY InitIInv, StepIInv, PTL DEF Spec

\* The applied selector and the saved one tell the truth about the files.
LEMMA SourcesFromIInv ==
  IInv => SourcesTrue /\ SavedTrue
<1> SUFFICES ASSUME IInv PROVE SourcesTrue /\ SavedTrue
  OBVIOUS
<1>1. SourcesTrue
  BY DEF IInv, Truth, SourcesTrue
<1>2. SavedTrue
  <2> SUFFICES ASSUME trusted, saved # None, ~saved.repair PROVE Matches(saved)
    BY DEF SavedTrue
  <2>1. /\ state # None /\ ~state.repair /\ saved.rev = state.rev
        /\ saved.selected = state.selected
        /\ saved.unavailable = state.unavailable
    BY DEF IInv, Selectors, Alike
  <2>2. Matches(state)
    BY <2>1 DEF IInv, Truth
  <2> QED BY <2>1, <2>2 DEF Matches
<1> QED BY <1>1, <1>2

\* Only a placing job and another program change files below source/, and no
\* job places while a reader indexes.
LEMMA StillStep ==
  ASSUME IInv, [Next]_vars, Reading
  PROVE  \A f \in Files : disk'[f] = disk[f] \/ f \in gone'
<1>1. ~Publishing
  BY DEF IInv, Prepared
<1>2. CASE Lose
  BY <1>2 DEF Lose, IInv, Ranges
<1>3. CASE Remove \/ Place
  BY <1>1, <1>3 DEF Remove, Place, Publishing
<1>4. CASE Push \/ Crash \/ Fail
  BY <1>4 DEF Push, Crash, Fail
<1>5. CASE BeginRefresh \/ BeginRequire \/ BeginAssets \/ Fetch
  BY <1>5 DEF BeginRefresh, BeginRequire, BeginAssets, Fetch
<1>6. CASE PublishUnchanged \/ PublishChanged \/ Finish
  BY <1>6 DEF PublishUnchanged, PublishChanged, Finish
<1>7. CASE PrepStep
  BY <1>7 DEF PrepStep, Discover, BeginIndex, EndIndex, Mark
<1>8. CASE UNCHANGED vars
  BY <1>8 DEF vars
<1> QED
  BY <1>2, <1>3, <1>4, <1>5, <1>6, <1>7, <1>8 DEF Next, JobStep

\* The marker is set by Mark alone, which checks that no publication came
\* between the index and it.
LEMMA MarkedStep ==
  ASSUME IInv, [Next]_vars, Marked, trusted, faults' = faults
  PROVE  IndexIs(state')
<1>1. prep.step = "mark" /\ prep' = NoPrep /\ prep' # prep
  BY DEF Marked, NoPrep
<1>2. job' = job /\ state' # state
  BY DEF Marked
<1>3. faults \in Nat
  BY BoundAssumption DEF IInv, Ranges
<1>4. /\ ~Push /\ ~Lose
      /\ ~BeginRefresh /\ ~BeginAssets
      /\ ~Remove /\ ~Place
  BY <1>2 DEF Push, Lose, BeginRefresh, BeginAssets, Remove, Place
<1>5. ~Crash /\ ~Fail
  <2>1. Crash \/ Fail => faults' = faults + 1
    BY DEF Crash, Fail
  <2>2. faults # faults + 1
    BY <1>3
  <2>3. faults' = faults
    OBVIOUS
  <2> QED BY <2>1, <2>2, <2>3
<1>6. ~BeginRequire /\ ~Fetch
  BY <1>2 DEF BeginRequire, Fetch
<1>7. ~PublishUnchanged /\ ~PublishChanged /\ ~Finish
  BY <1>1 DEF PublishUnchanged, PublishChanged, Finish, Release
<1>8. ~Discover /\ ~BeginIndex /\ ~EndIndex
  BY <1>1 DEF Discover, BeginIndex, EndIndex
<1>9. Mark
  <2>1. ~UNCHANGED vars
    BY <1>2 DEF vars
  <2> QED BY <1>4, <1>5, <1>6, <1>7, <1>8, <2>1 DEF Next, JobStep, PrepStep
<1>10. /\ ~state.repair /\ prep.gen = generation
       /\ state' = [state EXCEPT !.indexed = state.rev]
  BY <1>2, <1>9 DEF Mark, Marks
<1>11. state # None /\ state \in Selector
  BY <1>1, WellChosenType DEF IInv, Prepared, Selectors
<1>12. IndexIs(state)
  BY <1>1, <1>10, <1>11 DEF IInv, Prepared
<1>13. Inputs(state') = Inputs(state) /\ state'.rev = state.rev
  BY <1>10, <1>11 DEF Inputs, Selector
<1> QED BY <1>12, <1>13 DEF IndexIs

\* The selectors, the files and the marker of the index, together.
THEOREM RefreshCorrect == Spec => RefreshTrue
<1>1. IInv => TypeOK /\ SourcesTrue /\ SavedTrue
  BY TypeFromIInv, SourcesFromIInv
<1>2. IInv /\ [Next]_vars => [StillWhileIndexed]_vars
  BY StillStep DEF StillWhileIndexed
<1>3. IInv /\ [Next]_vars => [MarkFresh]_vars
  BY MarkedStep DEF MarkFresh
<1> QED
  BY Invariant, <1>1, <1>2, <1>3, PTL
  DEF Spec, RefreshTrue

-----------------------------------------------------------------------------
(***************************************************************************)
(* Admission.  Who looks at the count, or acts on it, has the mutex; so a  *)
(* permit that was free when it was looked for is free when it is taken.   *)
(***************************************************************************)

Places ==
  {"idle", "called", "entered", "admission", "check", "sleep", "waiting", "decide", "prepare",
   "success", "failure", "panic", "succeeded", "failed", "panicked"}
Holding == {"prepare", "success", "failure", "panic"}
Holders == {t \in Callers : at[t] \in Holding}

\* The inductive invariant of the admission
GateInv ==
  /\ at \in [Callers -> Places] /\ active \in Nat
  /\ \A t \in Callers : at[t] \in {"check", "sleep", "decide"} => mutex = t
  /\ \A t \in Callers : at[t] = "decide" => active < Permits \/ stopped
  /\ active = Cardinality(Holders) /\ active <= Permits

LEMMA GateCardinality == \A set : Gate!Cardinality(set) = Cardinality(set)
  BY DEF Gate!Cardinality, Cardinality

LEMMA HoldersFinite == IsFiniteSet(Holders)
  BY GateAssumption, FS_Subset DEF Holders

LEMMA AnnouncingIs ==
    /\ Gate!Ended = {"success", "failure", "panic"}
    /\ \A o \in Gate!Ended : Gate!Announcing[o] \in {"succeeded", "failed", "panicked"}
  BY DEF Gate!Ended, Gate!Announcing

\* A step of a caller that neither takes nor returns a permit
LEMMA SameHolders ==
    ASSUME GateInv, at' \in [Callers -> Places], UNCHANGED active, stopped => stopped',
           \A t \in Callers : at'[t] \in Holding <=> at[t] \in Holding,
           \A t \in Callers : at'[t] \in {"check", "sleep", "decide"} => mutex' = t,
           \A t \in Callers : at'[t] = "decide" => at[t] = "decide" \/ active < Permits \/ stopped
    PROVE  GateInv'
<1>1. Holders' = Holders
  BY DEF Holders
<1>2. QED
  BY <1>1 DEF GateInv

LEMMA GateStep ==
    ASSUME GateInv, NEW t \in Callers, Gate!Call(t) \/ Gate!CallerStep(t)
    PROVE  GateInv'
<1> USE DEF GateInv
<1>1. CASE Gate!Call(t) \/ Gate!Enter(t) \/ Gate!Consult(t) \/ Gate!Notify(t)
  <2>1. PICK p \in Places \ (Holding \union {"check", "sleep", "decide"}) :
          /\ at' = [at EXCEPT ![t] = p] /\ at[t] \notin Holding \union {"check", "sleep", "decide"}
          /\ UNCHANGED <<active, mutex, stopped>>
    <3>1. CASE Gate!Call(t)
      BY <3>1 DEF Gate!Call, Gate!Goes, Places, Holding, Gate!identities, Gate!capacity, Gate!stop
    <3>2. CASE Gate!Enter(t)
      BY <3>2 DEF Gate!Enter, Gate!Goes, Places, Holding, Gate!capacity, Gate!stop
    <3>3. CASE Gate!Consult(t)
      BY <3>3 DEF Gate!Consult, Gate!Goes, Places, Holding, Gate!capacity, Gate!stop
    <3>4. CASE Gate!Notify(t)
      BY <3>4, AnnouncingIs DEF Gate!Notify, Places, Holding, Gate!stop
    <3>5. QED
      BY <1>1, <3>1, <3>2, <3>3, <3>4
  <2>2. QED
    BY <2>1, SameHolders DEF Holding, Places
<1>2. CASE Gate!Lock(t)
  BY <1>2, SameHolders, GateAssumption DEF Gate!Lock, Holding, Places, Gate!stop
<1>3. CASE Gate!Check(t)
  BY <1>3, SameHolders, GateAssumption DEF Gate!Check, Gate!MustWait, Gate!Goes, Holding, Places, Gate!stop, Gate!capacity
<1>4. CASE Gate!Sleep(t)
  BY <1>4, SameHolders, GateAssumption DEF Gate!Sleep, Gate!Goes, Holding, Places, Gate!stop
<1>5. CASE Gate!Decide(t)
  <2>1. mutex = t /\ at[t] = "decide" /\ UNCHANGED stopped
    BY <1>5 DEF Gate!Decide, Gate!Goes, Gate!stop
  <2>2. CASE stopped
    BY <1>5, <2>1, <2>2, SameHolders, GateAssumption DEF Gate!Decide, Gate!Goes, Holding, Places
  <2>3. CASE ~stopped
    <3>1. at' = [at EXCEPT ![t] = "prepare"] /\ active' = active + 1 /\ active < Permits
      BY <1>5, <2>1, <2>3 DEF Gate!Decide, Gate!Goes
    <3>2. Holders' = Holders \union {t} /\ t \notin Holders
      BY <2>1, <3>1 DEF Holders, Holding
    <3>3. Cardinality(Holders') = Cardinality(Holders) + 1
      BY <3>2, HoldersFinite, FS_AddElement
    <3>4. at' \in [Callers -> Places] /\ \A u \in Callers : at'[u] \notin {"check", "sleep", "decide"}
      BY <2>1, <3>1, GateAssumption DEF Places
    <3>5. QED
      BY <3>1, <3>3, <3>4, GateAssumption
  <2>4. QED
    BY <2>2, <2>3
<1>6. CASE Gate!Prepare(t)
  BY <1>6, SameHolders DEF Gate!Prepare, Holding, Places, Gate!stop, Gate!capacity
<1>7. CASE Gate!Release(t)
  <2>1. at[t] \in {"success", "failure", "panic"} /\ mutex = None /\ active' = active - 1
        /\ UNCHANGED <<mutex, stopped>> /\ at' = [at EXCEPT ![t] = Gate!Announcing[at[t]]]
        /\ Gate!Announcing[at[t]] \in {"succeeded", "failed", "panicked"}
    BY <1>7, AnnouncingIs DEF Gate!Release, Gate!ReturnsPermit, Gate!stop
  <2>2. Holders' = Holders \ {t} /\ t \in Holders
    BY <2>1 DEF Holders, Holding
  <2>3. Cardinality(Holders') = Cardinality(Holders) - 1 /\ Cardinality(Holders') \in Nat
    BY <2>2, HoldersFinite, FS_RemoveElement, FS_CardinalityType, FS_Subset
  <2>4. at' \in [Callers -> Places] /\ \A u \in Callers : at'[u] \notin {"check", "sleep", "decide"}
    BY <2>1, GateAssumption DEF Places
  <2>5. QED
    BY <2>1, <2>3, <2>4, GateAssumption
<1>8. QED
  BY <1>1, <1>2, <1>3, <1>4, <1>5, <1>6, <1>7 DEF Gate!CallerStep

LEMMA GateInitInv == ASSUME Gate!Init PROVE GateInv
<1>1. at = [t \in Callers |-> "idle"] /\ active = 0
  BY DEF Gate!Init
<1>2. Holders = {}
  BY <1>1 DEF Holders, Holding
<1>3. QED
  BY <1>1, <1>2, GateAssumption, FS_EmptySet DEF GateInv, Places

LEMMA GateNextInv == ASSUME GateInv, [Gate!Next]_(Gate!vars) PROVE GateInv'
<1>1. CASE \E t \in Callers : Gate!Call(t) \/ Gate!CallerStep(t)
  BY <1>1, GateStep
<1>2. CASE Gate!Forget \/ Gate!Stop \/ Gate!Announce \/ UNCHANGED Gate!vars
  <2>1. UNCHANGED <<at, active, mutex>> /\ (stopped => stopped')
    BY <1>2 DEF Gate!Forget, Gate!Stop, Gate!Announce, Gate!vars, Gate!capacity, Gate!stop
  <2>2. QED
    BY <2>1, SameHolders DEF GateInv
<1>3. QED
  BY <1>1, <1>2 DEF Gate!Next

\* The invariant holds in every reachable state of the admission.
THEOREM GateInvariant == Gate!Spec => []GateInv
<1>1. Gate!Init => GateInv
  BY GateInitInv
<1>2. GateInv /\ [Gate!Next]_(Gate!vars) => GateInv'
  BY GateNextInv
<1>3. QED
  BY <1>1, <1>2, PTL DEF Gate!Spec

\* GatePermitsKept: whatever a preparation ends in, and whenever shutdown()
\* comes, a permit is counted while it is held and only then, and there are
\* never more of them than Permits.
THEOREM PermitsCounted == Gate!Spec => []GatePermitsKept
<1>1. GateInv => GatePermitsKept
  BY AnnouncingIs, GateCardinality DEF GateInv, GatePermitsKept, Gate!PermitsKept, Holders, Holding
<1>2. QED
  BY <1>1, GateInvariant, PTL
=============================================================================
