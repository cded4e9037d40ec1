------------------------- MODULE GroupCommitProofs -------------------------
(***************************************************************************)
(* Proofs about GroupCommit, for any number of publishers, files, objects, *)
(* workspaces, faults and disturbances, and any limit of a group.          *)
(*                                                                         *)
(* The inductive invariant is IInv: each kind of step keeps its types, the *)
(* place of every request, the stage of the leader, the contents of the    *)
(* transaction, and the bindings.  From it every step is one of            *)
(* AtomicPublish, or changes nothing that AtomicPublish speaks of.         *)
(*                                                                         *)
(* The last part is what a publisher is told: the truth of the files only  *)
(* it publishes (AnswersTrue), and no failure for a single disturbance     *)
(* (Resilient).                                                            *)
(***************************************************************************)
EXTENDS GroupCommit, SequenceTheorems, TLAPS, FiniteSetTheorems

-----------------------------------------------------------------------------
(* Sequences without repetition.                                           *)

Distinct(s) == \A i, j \in DOMAIN s : s[i] = s[j] => i = j

LEMMA ElementsOK == ASSUME NEW S, NEW s \in Seq(S) PROVE Elements(s) \subseteq S
BY DEF Elements

LEMMA EmptyElements == Elements(<<>>) = {} /\ Distinct(<<>>)
BY DEF Elements, Distinct

LEMMA NonemptyElements ==
    ASSUME NEW S, NEW s \in Seq(S) PROVE s # <<>> <=> Elements(s) # {}
<1>1. ASSUME s # <<>> PROVE s[1] \in Elements(s)
  BY <1>1, EmptySeq DEF Elements
<1> QED
  BY <1>1, EmptyElements

LEMMA AppendElements ==
    ASSUME NEW S, NEW s \in Seq(S), NEW e \in S, Distinct(s), e \notin Elements(s)
    PROVE  /\ Append(s, e) \in Seq(S)
           /\ Elements(Append(s, e)) = Elements(s) \cup {e}
           /\ Distinct(Append(s, e))
<1> DEFINE t == Append(s, e)
<1>1. /\ t \in Seq(S) /\ Len(t) = Len(s) + 1
      /\ \A i \in 1..Len(s) : t[i] = s[i]
      /\ t[Len(s) + 1] = e
  BY AppendProperties
<1>2. Len(s) \in Nat /\ DOMAIN s = 1..Len(s) /\ DOMAIN t = 1..(Len(s) + 1)
  BY <1>1, LenProperties
<1> HIDE DEF t
<1>3. Elements(t) = Elements(s) \cup {e}
  BY <1>1, <1>2 DEF Elements
<1>4. Distinct(t)
  BY <1>1, <1>2 DEF Elements, Distinct
<1> QED
  BY <1>1, <1>3, <1>4 DEF t

LEMMA SplitElements ==
    ASSUME NEW S, NEW s \in Seq(S), Distinct(s), NEW n \in 1..Len(s)
    PROVE  LET a == SubSeq(s, 1, n)
               b == SubSeq(s, n + 1, Len(s))
           IN  /\ a \in Seq(S) /\ b \in Seq(S) /\ a # <<>>
               /\ Distinct(a) /\ Distinct(b)
               /\ Elements(a) \cap Elements(b) = {}
               /\ Elements(a) \cup Elements(b) = Elements(s)
<1> DEFINE a == SubSeq(s, 1, n)
           b == SubSeq(s, n + 1, Len(s))
<1>1. Len(s) \in Nat /\ DOMAIN s = 1..Len(s) /\ \A i \in 1..Len(s) : s[i] \in S
  BY LenProperties
<1>0. n \in Nat /\ n <= Len(s)
  <2>1. Len(s) \in Nat
    BY <1>1
  <2> QED
    BY <2>1
<1>2. a \in Seq(S) /\ Len(a) = n /\ \A i \in 1..n : a[i] = s[i]
  BY <1>1, SubSeqProperties
<1>3. /\ b \in Seq(S) /\ Len(b) = Len(s) - n
      /\ \A i \in 1..(Len(s) - n) : b[i] = s[n + i]
  <2>1. \A i \in (n + 1)..Len(s) : s[i] \in S
    BY <1>1
  <2>2. /\ b \in Seq(S)
        /\ Len(b) = IF n + 1 <= Len(s) THEN Len(s) - (n + 1) + 1 ELSE 0
        /\ \A i \in 1..(Len(s) - (n + 1) + 1) : b[i] = s[(n + 1) + i - 1]
    BY <1>1, <2>1, SubSeqProperties
  <2> HIDE DEF b
  <2>3. Len(b) = Len(s) - n
    <3>1. CASE n + 1 <= Len(s)
      <4>1. Len(b) = Len(s) - (n + 1) + 1
        BY <2>2, <3>1
      <4> QED
        BY <1>1, <4>1
    <3>2. CASE n = Len(s)
      <4>1. ~(n + 1 <= Len(s)) /\ Len(s) - n = 0
        BY <1>1, <3>2
      <4> QED
        BY <2>2, <4>1
    <3>3. n + 1 <= Len(s) \/ n = Len(s)
      <4>1. Len(s) \in Nat
        BY <1>1
      <4> QED
        BY <1>0, <4>1
    <3> QED
      BY <3>1, <3>2, <3>3
  <2>4. ASSUME NEW i \in 1..(Len(s) - n) PROVE b[i] = s[n + i]
    <3>1. (n + 1) + i - 1 = n + i /\ i \in 1..(Len(s) - (n + 1) + 1)
      BY <1>1
    <3> QED
      BY <2>2, <3>1
  <2> QED
    BY <2>2, <2>3, <2>4
<1>4. DOMAIN a = 1..n /\ DOMAIN b = 1..(Len(s) - n)
  BY <1>2, <1>3, LenProperties
<1> HIDE DEF a, b
<1>5. ASSUME NEW i \in DOMAIN a
      PROVE  i \in DOMAIN s /\ i \in Int /\ i <= n /\ a[i] = s[i]
  BY <1>1, <1>2, <1>4
<1>6. ASSUME NEW i \in DOMAIN b
      PROVE  i \in Int /\ n + i \in DOMAIN s /\ n + i > n /\ b[i] = s[n + i]
  <2>1. i \in 1..(Len(s) - n)
    BY <1>4
  <2>2. n + i \in 1..Len(s) /\ n + i > n /\ i \in Int
    BY <1>1, <2>1
  <2> QED
    BY <1>1, <1>3, <2>1, <2>2
<1>a. Distinct(a)
  BY <1>5 DEF Distinct
<1>b. ASSUME NEW i \in DOMAIN b, NEW j \in DOMAIN b, b[i] = b[j] PROVE i = j
  <2>1. n + i = n + j
    BY <1>6, <1>b DEF Distinct
  <2> QED
    BY <2>1, <1>6
<1>c. ASSUME NEW i \in DOMAIN a, NEW j \in DOMAIN b PROVE a[i] # b[j]
  <2>1. i # n + j
    BY <1>5, <1>6
  <2> QED
    BY <2>1, <1>5, <1>6 DEF Distinct
<1>d. Elements(a) \cap Elements(b) = {}
  BY <1>c DEF Elements
<1>7. ASSUME NEW e \in Elements(s) PROVE e \in Elements(a) \cup Elements(b)
  <2>1. PICK i \in 1..Len(s) : s[i] = e
    BY <1>1, <1>7 DEF Elements
  <2>2. CASE i <= n
    BY <1>1, <1>2, <1>4, <2>1, <2>2 DEF Elements
  <2>3. CASE i > n
    <3>1. i - n \in 1..(Len(s) - n) /\ n + (i - n) = i
      BY <1>1, <2>1, <2>3
    <3>2. b[i - n] = s[i]
      BY <1>3, <3>1
    <3> QED
      BY <1>4, <2>1, <3>1, <3>2 DEF Elements
  <2> QED
    BY <1>1, <2>1, <2>2, <2>3
<1>8. Elements(a) \cup Elements(b) \subseteq Elements(s)
  BY <1>5, <1>6 DEF Elements
<1>9. a # <<>>
  BY <1>2, EmptySeq
<1>10. Distinct(b)
  BY <1>b DEF Distinct
<1> QED
  BY <1>2, <1>3, <1>a, <1>d, <1>7, <1>8, <1>9, <1>10 DEF a, b

-----------------------------------------------------------------------------
(* The operators of the model.                                             *)

LEMMA UndecidedOK == LeaderOK => Undecided \subseteq Publishers
BY ElementsOK DEF LeaderOK, Undecided

\* One queue is distinct as Placed says it.
LEMMA PlacedDistinct == Placed => Distinct(waiting) /\ Distinct(group)
BY DEF Placed, Distinct

LEMMA HeadOK ==
    ASSUME PublisherOK, NEW p \in Publishers, plan[p] # <<>>
    PROVE  Head(plan[p]) \in SUBSET Files /\ Tail(plan[p]) \in Seq(SUBSET Files)
<1>1. plan[p] \in Seq(SUBSET Files)
  BY DEF PublisherOK
<1> QED
  BY <1>1, HeadTailProperties

LEMMA UpdateOK ==
    ASSUME NEW A, NEW B, NEW C, NEW h \in [A -> [B -> C]], NEW a \in A, NEW b \in B, NEW c \in C
    PROVE  [h EXCEPT ![a][b] = c] \in [A -> [B -> C]]
OBVIOUS

LEMMA SingletonOK ==
    ASSUME NEW S, NEW a \in S
    PROVE  <<a>> \in Seq(S) /\ <<>> \in Seq(S) /\ <<a>> # <<>>
OBVIOUS

LEMMA PushOK ==
    ASSUME NEW S, NEW s \in Seq(S), NEW a \in S, NEW b \in S
    PROVE  /\ <<a>> \o s \in Seq(S) /\ <<a>> \o s # <<>>
           /\ <<a, b>> \o s \in Seq(S) /\ <<a, b>> \o s # <<>>
<1>1. <<a>> \in Seq(S) /\ <<a, b>> \in Seq(S) /\ <<>> \in Seq(S)
  OBVIOUS
<1>2. Len(<<a>>) = 1 /\ Len(<<a, b>>) = 2 /\ Len(s) \in Nat
  BY LenProperties
<1>3. /\ <<a>> \o s \in Seq(S) /\ Len(<<a>> \o s) = 1 + Len(s)
      /\ <<a, b>> \o s \in Seq(S) /\ Len(<<a, b>> \o s) = 2 + Len(s)
  BY <1>1, <1>2, ConcatProperties
<1>4. 1 + Len(s) # 0 /\ 2 + Len(s) # 0 /\ Len(<<>>) = 0
  BY <1>2, EmptySeq
<1> QED
  BY <1>1, <1>3, <1>4

LEMMA SingleOK ==
    ASSUME PublisherOK, NEW p \in Publishers,
           \/ single' = single
           \/ \E b \in BOOLEAN : single' = [single EXCEPT ![p] = b]
    PROVE  single' \in [Publishers -> BOOLEAN]
<1>1. single \in [Publishers -> BOOLEAN]
  BY DEF PublisherOK
<1> QED
  BY <1>1, Zenon

LEMMA ProceedOK ==
    ASSUME PublisherOK, NEW p \in Publishers, NEW rest \in Seq(SUBSET Files), Proceed(p, rest)
    PROVE  /\ plan' \in [Publishers -> Seq(SUBSET Files)]
           /\ pc' \in [Publishers ->
                         {"prepare", "ready", "queued", "retry", "finished", "gone"}]
           /\ plan'[p] = rest
           /\ pc'[p] = IF rest = <<>> THEN "finished" ELSE "ready"
           /\ \A q \in Publishers \ {p} : plan'[q] = plan[q] /\ pc'[q] = pc[q]
BY DEF PublisherOK, Proceed

LEMMA InstalledOK ==
    ASSUME PublisherOK, tx \in Databases, NEW p \in Publishers, NEW new \in SUBSET Files
    PROVE  /\ Installed(p, new) \in Databases
           /\ \A f \in Files : Installed(p, new).bound[f] =
                 IF f \in new THEN Want[p][f] ELSE tx.bound[f]
           /\ tx.live \subseteq Installed(p, new).live
           /\ \A f \in new \cap encoded[p] : Want[p][f] \in Installed(p, new).live
<1>1. \A f \in Files : Want[p][f] \in Objects
  BY WorkAssumption
<1>2. tx.live \cup {Want[p][f] : f \in new \cap encoded[p]} \in SUBSET Objects
  BY <1>1 DEF Databases
<1>3. [f \in Files |-> IF f \in new THEN Want[p][f] ELSE tx.bound[f]]
        \in [Files -> Objects \cup {NoObject}]
  BY <1>1 DEF Databases
<1>4. ScopeOf[p] \in Scopes
  BY WorkAssumption
<1>5. (IF \A f \in new : tx.bound[f] = Want[p][f] THEN tx.phase
       ELSE [tx.phase EXCEPT ![ScopeOf[p]] = "dirty"])
        \in [Scopes -> {"clean", "dirty", "deleting"}]
  BY <1>4 DEF Databases
<1>6. Installed(p, new) \in Databases
  BY <1>2, <1>3, <1>5 DEF Installed, Databases
<1> QED
  BY <1>6 DEF Installed

-----------------------------------------------------------------------------
(* Types.                                                                  *)

LEMMA StoreKept == StoreOK /\ UNCHANGED <<db, tx, otherVars, faults>> => StoreOK'
BY DEF StoreOK, otherVars

LEMMA LeaderKept ==
    LeaderOK /\ UNCHANGED <<waiting, leader, stage, group, outcome, applied, put, result, asleep>>
    => LeaderOK'
BY DEF LeaderOK

LEMMA PublisherKept == PublisherOK /\ UNCHANGED publisherVars => PublisherOK'
BY DEF PublisherOK, publisherVars

\* What a publisher does keeps every variable in its type.
LEMMA TypePublisher ==
    ASSUME IInv, NEW p \in Publishers, PublisherStep(p) PROVE TypeOK'
<1> USE DEF IInv, TypeOK
<1>1. ASSUME NEW f \in Files, Prepare(p, f) PROVE TypeOK'
  <2>1. plan[p] # <<>>
    BY <1>1 DEF Prepare, Placed, Place
  <2>2. Head(plan[p]) \in SUBSET Files
    BY <2>1, HeadOK
  <2> DEFINE refused == db.phase[ScopeOf[p]] = "deleting"
             ready == IF refused THEN Head(plan[p]) ELSE Head(plan[p]) \cup {f}
             rest == IF ready = {} THEN <<>> ELSE <<ready>>
             done == \A g \in Work[p] \ {f} : g \in ready \/ answer[p][g] # "none"
  <2>3. ready \in SUBSET Files
    BY <2>2
  <2>4. rest \in Seq(SUBSET Files) /\ <<ready>> \in Seq(SUBSET Files)
    BY <2>3, SingletonOK
  <2>5. IF done THEN Proceed(p, rest)
        ELSE plan' = [plan EXCEPT ![p] = <<ready>>] /\ UNCHANGED pc
    BY <1>1 DEF Prepare
  <2> HIDE DEF ready, rest, done
  <2>6. plan' \in [Publishers -> Seq(SUBSET Files)]
    <3>1. CASE done
      BY <2>4, <2>5, <3>1, ProceedOK
    <3>2. CASE ~done
      BY <2>4, <2>5, <3>2 DEF PublisherOK
    <3> QED
      BY <3>1, <3>2
  <2>7. pc' \in [Publishers -> {"prepare", "ready", "queued", "retry", "finished", "gone"}]
    <3>1. CASE done
      BY <2>4, <2>5, <3>1, ProceedOK
    <3>2. CASE ~done
      BY <2>5, <3>2 DEF PublisherOK
    <3> QED
      BY <3>1, <3>2
  <2>8. /\ answer' \in [Publishers -> [Files -> {"none", "bound", "missing", "err"}]]
        /\ expected' \in [Publishers -> [Files -> Objects \cup {NoObject}]]
        /\ encoded' \in [Publishers -> SUBSET Files]
    <3>1. answer' \in [Publishers -> [Files -> {"none", "bound", "missing", "err"}]]
      BY <1>1 DEF Prepare, PublisherOK
    <3>2. db.bound[f] \in Objects \cup {NoObject}
      BY DEF StoreOK, Databases
    <3>3. expected' \in [Publishers -> [Files -> Objects \cup {NoObject}]]
      BY <1>1, <3>2 DEF Prepare, PublisherOK
    <3>4. encoded' \in [Publishers -> SUBSET Files]
      BY <1>1 DEF Prepare, PublisherOK
    <3> QED
      BY <3>1, <3>3, <3>4
  <2>9. PublisherOK'
    BY <1>1, <2>6, <2>7, <2>8 DEF Prepare, PublisherOK
  <2> QED
    BY <1>1, <2>9, StoreKept, LeaderKept DEF Prepare, leaderVars
<1>2. CASE Submit(p)
  <2>1. plan[p] # <<>>
    BY <1>2 DEF Submit, Placed, Place
  <2>2. Head(plan[p]) \in SUBSET Files /\ Tail(plan[p]) \in Seq(SUBSET Files)
    BY <2>1, HeadOK
  <2>3. answer' \in [Publishers -> [Files -> {"none", "bound", "missing", "err"}]]
    BY <1>2 DEF Submit, PublisherOK
  <2>4. CASE Head(plan[p]) \subseteq changed[p]
    <3>1. /\ plan' \in [Publishers -> Seq(SUBSET Files)]
          /\ pc' \in [Publishers -> {"prepare", "ready", "queued", "retry", "finished", "gone"}]
      BY <1>2, <2>2, <2>4, ProceedOK DEF Submit
    <3>2. PublisherOK'
      BY <1>2, <2>3, <2>4, <3>1 DEF Submit, PublisherOK
    <3> QED
      BY <1>2, <2>4, <3>2, StoreKept, LeaderKept DEF Submit, leaderVars
  <2>5. CASE ~(Head(plan[p]) \subseteq changed[p])
    <3>1. PublisherOK'
      <4>1. /\ plan' \in [Publishers -> Seq(SUBSET Files)]
            /\ pc' \in [Publishers -> {"prepare", "ready", "queued", "retry", "finished", "gone"}]
        BY <1>2, <2>2, <2>5 DEF Submit, PublisherOK
      <4>2. batch' \in [Publishers -> SUBSET Files]
        <5>1. batch' = [batch EXCEPT ![p] = Head(plan[p]) \ changed[p]]
          BY <1>2, <2>5 DEF Submit
        <5> QED
          BY <2>2, <5>1 DEF PublisherOK
      <4>3. single' = single /\ expected' = expected /\ encoded' = encoded
        BY <1>2, <2>5 DEF Submit
      <4> QED
        BY <2>3, <4>1, <4>2, <4>3 DEF PublisherOK
    <3>2. waiting' \in Seq(Publishers)
      <4>1. waiting' = Append(waiting, p) /\ waiting \in Seq(Publishers)
        BY <1>2, <2>5 DEF Submit, LeaderOK
      <4> QED
        BY <4>1, AppendProperties
    <3>3. LeaderOK'
      BY <1>2, <2>5, <3>2 DEF Submit, LeaderOK, leaderVars
    <3> QED
      BY <1>2, <3>1, <3>3, StoreKept DEF Submit, leaderVars
  <2> QED
    BY <2>4, <2>5
<1>3. CASE ReadFresh(p)
  <2>1. PICK f \in Files : ReadFreshAs(p, f, db.bound[f])
    BY <1>3 DEF ReadFresh
  <2>2. plan[p] # <<>>
    BY <2>1 DEF ReadFreshAs, Placed, Place
  <2>3. Tail(plan[p]) \in Seq(SUBSET Files) /\ db.bound[f] \in Objects \cup {NoObject}
    BY <2>2, HeadOK DEF StoreOK, Databases
  <2>4. /\ plan' \in [Publishers -> Seq(SUBSET Files)]
        /\ pc' \in [Publishers -> {"prepare", "ready", "queued", "retry", "finished", "gone"}]
    <3>1. CASE f \in changed[p]
      BY <2>1, <2>3, <3>1, ProceedOK DEF ReadFreshAs
    <3>2. CASE f \notin changed[p]
      BY <2>1, <3>2 DEF ReadFreshAs, PublisherOK
    <3> QED
      BY <3>1, <3>2
  <2>5. answer' \in [Publishers -> [Files -> {"none", "bound", "missing", "err"}]]
    <3>1. answer' = answer \/ answer' = [answer EXCEPT ![p][f] = "err"]
      BY <2>1 DEF ReadFreshAs
    <3>2. answer \in [Publishers -> [Files -> {"none", "bound", "missing", "err"}]]
      BY DEF PublisherOK
    <3> QED
      BY <3>1, <3>2, UpdateOK
  <2>6. expected' \in [Publishers -> [Files -> Objects \cup {NoObject}]]
    <3>1. CASE f \in changed[p]
      BY <2>1, <3>1 DEF ReadFreshAs, PublisherOK
    <3>2. CASE f \notin changed[p]
      <4>1. expected' = [expected EXCEPT ![p][f] = db.bound[f]]
        BY <2>1, <3>2 DEF ReadFreshAs
      <4> QED
        BY <2>3, <4>1 DEF PublisherOK
    <3> QED
      BY <3>1, <3>2
  <2>7. single' \in [Publishers -> BOOLEAN]
    BY <2>1, SingleOK DEF ReadFreshAs
  <2>8. PublisherOK'
    BY <2>1, <2>4, <2>5, <2>6, <2>7 DEF ReadFreshAs, PublisherOK
  <2> QED
    BY <2>1, <2>8, StoreKept, LeaderKept DEF ReadFreshAs, leaderVars
<1>4. ASSUME Returned(p), plan' \in [Publishers -> Seq(SUBSET Files)],
             pc' \in [Publishers -> {"prepare", "ready", "queued", "retry", "finished", "gone"}],
             single' \in [Publishers -> BOOLEAN],
             answer' \in [Publishers -> [Files -> {"none", "bound", "missing", "err"}]]
      PROVE  TypeOK'
  <2>1. PublisherOK'
    BY <1>4 DEF Returned, PublisherOK
  <2>2. LeaderOK'
    BY <1>4 DEF Returned, LeaderOK
  <2> QED
    BY <1>4, <2>1, <2>2, StoreKept DEF Returned
<1>5. plan[p] \in Seq(SUBSET Files) /\ batch[p] \in SUBSET Files
  BY DEF PublisherOK
<1>6. CASE TakeOk(p)
  <2>1. answer' \in [Publishers -> [Files -> {"none", "bound", "missing", "err"}]]
    BY <1>6 DEF TakeOk, TakeOkWith, PublisherOK
  <2>2. single' \in [Publishers -> BOOLEAN]
    BY <1>6 DEF TakeOk, TakeOkWith, PublisherOK
  <2> QED
    BY <1>4, <1>5, <1>6, <2>1, <2>2, ProceedOK DEF TakeOk, TakeOkWith
<1>7. CASE Bisect(p)
  <2>1. PICK left \in SUBSET batch[p] : Proceed(p, <<left, batch[p] \ left>> \o plan[p])
    BY <1>7 DEF Bisect
  <2>2. <<left, batch[p] \ left>> \o plan[p] \in Seq(SUBSET Files)
    BY <1>5, PushOK
  <2>3. /\ answer' \in [Publishers -> [Files -> {"none", "bound", "missing", "err"}]]
        /\ single' \in [Publishers -> BOOLEAN]
    BY <1>7 DEF Bisect, PublisherOK
  <2> QED
    BY <1>4, <1>7, <2>1, <2>2, <2>3, ProceedOK DEF Bisect
<1>8. CASE TakeErr(p)
  <2>1. /\ answer' \in [Publishers -> [Files -> {"none", "bound", "missing", "err"}]]
        /\ single' \in [Publishers -> BOOLEAN]
    <3>1. answer' \in [Publishers -> [Files -> {"none", "bound", "missing", "err"}]]
      <4>1. \/ answer' = answer
            \/ answer' = [answer EXCEPT ![p] =
                            [f \in Files |-> IF f \in batch[p] THEN "err" ELSE @[f]]]
        <5>1. CASE single[p]
          BY <1>8, <5>1 DEF TakeErr
        <5>2. CASE ~single[p]
          BY <1>8, <5>2 DEF TakeErr
        <5> QED
          BY <5>1, <5>2
      <4> QED
        BY <4>1 DEF PublisherOK
    <3>2. single' \in [Publishers -> BOOLEAN]
      BY <1>8, SingleOK DEF TakeErr
    <3> QED
      BY <3>1, <3>2
  <2>2. <<batch[p]>> \o plan[p] \in Seq(SUBSET Files)
    BY <1>5, PushOK
  <2>3. CASE single[p]
    BY <1>4, <1>5, <1>8, <2>1, <2>3, ProceedOK DEF TakeErr
  <2>4. CASE ~single[p]
    <3>1. /\ plan' \in [Publishers -> Seq(SUBSET Files)]
          /\ pc' \in [Publishers -> {"prepare", "ready", "queued", "retry", "finished", "gone"}]
      BY <1>8, <2>2, <2>4 DEF TakeErr, PublisherOK
    <3> QED
      BY <1>4, <1>8, <2>1, <3>1 DEF TakeErr
  <2> QED
    BY <2>3, <2>4
<1>9. CASE Sleep(p)
  <2>1. LeaderOK'
    BY <1>9 DEF Sleep, LeaderOK, leaderVars
  <2> QED
    BY <1>9, <2>1, StoreKept, PublisherKept DEF Sleep, leaderVars
<1>10. CASE Lead(p)
  <2>1. LeaderOK'
    BY <1>10 DEF Lead, LeaderOK
  <2> QED
    BY <1>10, <2>1, StoreKept, PublisherKept DEF Lead
<1> QED
  BY <1>1, <1>2, <1>3, <1>6, <1>7, <1>8, <1>9, <1>10 DEF PublisherStep

\* So does what the leader does.
LEMMA TypeLeader == ASSUME IInv, LeaderStep PROVE TypeOK'
<1> USE DEF IInv, TypeOK
<1>0. MaxFaults \in Nat /\ faults \in Nat
  BY BoundAssumption DEF StoreOK
<1>1. CASE TakeWriter
  <2>1. StoreOK'
    BY <1>1 DEF TakeWriter, StoreOK, otherVars
  <2>2. LeaderOK'
    BY <1>1 DEF TakeWriter, LeaderOK
  <2> QED
    BY <1>1, <2>1, <2>2, PublisherKept DEF TakeWriter
<1>2. CASE WriterFail
  <2>1. StoreOK'
    BY <1>0, <1>2 DEF WriterFail, StoreOK, otherVars
  <2>2. LeaderOK'
    BY <1>2 DEF WriterFail, LeaderOK
  <2> QED
    BY <1>2, <2>1, <2>2, PublisherKept DEF WriterFail
<1>3. CASE Collect
  <2>1. PICK n \in 1..Len(waiting) :
            /\ group' = SubSeq(waiting, 1, n)
            /\ waiting' = SubSeq(waiting, n + 1, Len(waiting))
    BY <1>3 DEF Collect
  <2>2. waiting \in Seq(Publishers) /\ Distinct(waiting)
    BY PlacedDistinct DEF LeaderOK
  <2>3. group' \in Seq(Publishers) /\ waiting' \in Seq(Publishers)
    BY <2>1, <2>2, SplitElements
  <2>4. /\ stage' \in {"store", "apply"}
        /\ outcome' \in [Publishers -> {"none", "ok", "err"}]
    BY <1>3 DEF Collect, LeaderOK
  <2>5. LeaderOK'
    BY <1>3, <2>3, <2>4 DEF Collect, LeaderOK
  <2> QED
    BY <1>3, <2>5, StoreKept, PublisherKept DEF Collect
<1>4. ASSUME NEW p \in Publishers, Apply(p) PROVE TypeOK'
  <2>1. PICK missing \in SUBSET Missable(p) :
            /\ put' = [put EXCEPT ![p] = batch[p] \ missing]
            /\ tx' = Installed(p, batch[p] \ missing)
    BY <1>4 DEF Apply
  <2>2. batch[p] \ missing \in SUBSET Files /\ tx \in Databases
    BY <1>4 DEF Apply, PublisherOK, Faithful, Writing
  <2>3. tx' \in Databases
    BY <2>1, <2>2, InstalledOK
  <2>4. StoreOK'
    BY <1>4, <2>3 DEF Apply, StoreOK, otherVars
  <2>5. LeaderOK'
    BY <1>4, <2>1, <2>2 DEF Apply, LeaderOK
  <2> QED
    BY <1>4, <2>4, <2>5, PublisherKept DEF Apply
<1>5. ASSUME NEW p \in Publishers, Reject(p) PROVE TypeOK'
  <2>1. StoreOK'
    BY <1>5 DEF Reject, RejectWith, StoreOK, otherVars
  <2>2. LeaderOK'
    BY <1>5 DEF Reject, RejectWith, LeaderOK
  <2> QED
    BY <1>5, <2>1, <2>2, PublisherKept DEF Reject, RejectWith
<1>6. CASE CommitTx
  <2>1. tx \in Databases
    BY <1>6 DEF CommitTx, Faithful, Writing
  <2>2. StoreOK'
    BY <1>6, <2>1 DEF CommitTx, StoreOK, otherVars
  <2>3. LeaderOK'
    BY <1>6 DEF CommitTx, LeaderOK
  <2> QED
    BY <1>6, <2>2, <2>3, PublisherKept DEF CommitTx
<1>7. CASE CommitFail
  <2>1. StoreOK'
    BY <1>0, <1>7 DEF CommitFail, StoreOK, otherVars
  <2>2. LeaderOK'
    BY <1>7 DEF CommitFail, LeaderOK
  <2> QED
    BY <1>7, <2>1, <2>2, PublisherKept DEF CommitFail
<1>8. CASE StoreResults
  <2>1. LeaderOK'
    BY <1>8, SingletonOK DEF StoreResults, Disband, LeaderOK
  <2> QED
    BY <1>8, <2>1, StoreKept, PublisherKept DEF StoreResults
<1>9. CASE Drop
  <2>1. LeaderOK'
    BY <1>9 DEF Drop, DropWaking, LeaderOK
  <2> QED
    BY <1>9, <2>1, StoreKept, PublisherKept DEF Drop, DropWaking
<1>10. CASE Unwind
  <2>1. StoreOK'
    BY <1>0, <1>10 DEF Unwind, UnwindTelling, StoreOK, otherVars
  <2>2. LeaderOK'
    BY <1>10, SingletonOK DEF Unwind, UnwindTelling, Disband, LeaderOK
  <2>3. pc' \in [Publishers -> {"prepare", "ready", "queued", "retry", "finished", "gone"}]
    BY <1>10 DEF Unwind, UnwindTelling, PublisherOK
  <2>4. PublisherOK'
    BY <1>10, <2>3 DEF Unwind, UnwindTelling, PublisherOK
  <2> QED
    BY <2>1, <2>2, <2>4
<1> QED
  BY <1>1, <1>2, <1>3, <1>4, <1>5, <1>6, <1>7, <1>8, <1>9, <1>10 DEF LeaderStep

\* So do the others.
LEMMA TypeOthers == ASSUME IInv, OtherStep PROVE TypeOK'
<1> USE DEF IInv, TypeOK
<1>0. MaxOthers \in Nat /\ others \in Nat
  BY BoundAssumption DEF StoreOK
<1>1. ASSUME NEW p \in Publishers, NEW f \in Files, Change(p, f) PROVE TypeOK'
  <2>1. StoreOK'
    BY <1>0, <1>1 DEF Change, Other, StoreOK, leaderVars
  <2> QED
    BY <1>1, <2>1, LeaderKept, PublisherKept DEF Change, leaderVars
<1>2. ASSUME NEW o \in Objects, CollectObject(o) PROVE TypeOK'
  <2>1. db' \in Databases
    BY <1>2 DEF CollectObject, StoreOK, Databases
  <2>2. StoreOK'
    BY <1>0, <1>2, <2>1 DEF CollectObject, Other, StoreOK, leaderVars
  <2> QED
    BY <1>2, <2>2, LeaderKept, PublisherKept DEF CollectObject, leaderVars
<1>3. ASSUME NEW s \in Scopes, Retire(s) PROVE TypeOK'
  <2>1. db' \in Databases
    BY <1>3 DEF Retire, StoreOK, Databases
  <2>2. StoreOK'
    BY <1>0, <1>3, <2>1 DEF Retire, Other, StoreOK, leaderVars
  <2> QED
    BY <1>3, <2>2, LeaderKept, PublisherKept DEF Retire, leaderVars
<1> QED
  BY <1>1, <1>2, <1>3 DEF OtherStep

-----------------------------------------------------------------------------
(* The place of each request.                                              *)

LEMMA PlacedKept ==
    Placed /\ UNCHANGED <<waiting, group, outcome, result, batch, pc, plan>> => Placed'
BY DEF Placed, Place, Open

LEMMA StagedKept ==
    Staged /\ UNCHANGED <<leader, stage, group, outcome, applied>> => Staged'
BY DEF Staged, Undecided

LEMMA FaithfulKept ==
    Faithful /\ UNCHANGED <<stage, tx, db, applied, put, batch>> => Faithful'
BY DEF Faithful, Writing

LEMMA PlaceKept ==
    ASSUME NEW q \in Publishers, Place(q),
           q \in Open' <=> q \in Open, q \in Elements(group)' <=> q \in Elements(group),
           result'[q] = result[q], outcome'[q] = outcome[q], batch'[q] = batch[q],
           pc'[q] = pc[q], plan'[q] = plan[q]
    PROVE  Place(q)'
BY DEF Place

\* While a request is nowhere, only its publisher's counter and plan change.
LEMMA PlacedAside ==
    ASSUME IInv, NEW p \in Publishers, batch[p] = {},
           UNCHANGED <<waiting, group, outcome, result, batch>>,
           pc'[p] \in {"prepare", "ready", "retry", "finished"},
           pc'[p] # "finished" => plan'[p] # <<>>,
           \A q \in Publishers \ {p} : plan'[q] = plan[q] /\ pc'[q] = pc[q]
    PROVE  Placed'
<1> USE DEF IInv
<1>1. Elements(group)' = Elements(group) /\ Open' = Open
  BY DEF Open
<1>2. ASSUME NEW q \in Publishers PROVE Place(q)'
  <2>1. CASE q = p
    BY <1>1, <2>1 DEF Placed, Place
  <2>2. CASE q # p
    BY <1>1, <2>2, PlaceKept DEF Placed
  <2> QED
    BY <2>1, <2>2
<1> QED
  BY <1>2 DEF Placed

\* A publisher submits what is nowhere, and takes back what is answered.
LEMMA PlacedPublisher ==
    ASSUME IInv, NEW p \in Publishers, PublisherStep(p) PROVE Placed'
<1> USE DEF IInv, TypeOK
<1>0. Place(p) /\ plan[p] \in Seq(SUBSET Files) /\ batch[p] \in SUBSET Files
  BY DEF Placed, PublisherOK
<1>1. ASSUME NEW f \in Files, Prepare(p, f) PROVE Placed'
  <2>1. batch[p] = {} /\ plan[p] # <<>>
    BY <1>0, <1>1 DEF Prepare, Place
  <2>2. Head(plan[p]) \in SUBSET Files
    BY <2>1, HeadOK
  <2> DEFINE refused == db.phase[ScopeOf[p]] = "deleting"
             ready == IF refused THEN Head(plan[p]) ELSE Head(plan[p]) \cup {f}
             rest == IF ready = {} THEN <<>> ELSE <<ready>>
             done == \A g \in Work[p] \ {f} : g \in ready \/ answer[p][g] # "none"
  <2>3. ready \in SUBSET Files
    BY <2>2
  <2>4. rest \in Seq(SUBSET Files) /\ <<ready>> # <<>>
    BY <2>3, SingletonOK
  <2>5. IF done THEN Proceed(p, rest)
        ELSE plan' = [plan EXCEPT ![p] = <<ready>>] /\ UNCHANGED pc
    BY <1>1 DEF Prepare
  <2> HIDE DEF ready, rest, done
  <2>6. /\ pc'[p] \in {"prepare", "ready", "retry", "finished"}
        /\ pc'[p] # "finished" => plan'[p] # <<>>
        /\ \A q \in Publishers \ {p} : plan'[q] = plan[q] /\ pc'[q] = pc[q]
    <3>1. CASE done
      BY <2>4, <2>5, <3>1, ProceedOK
    <3>2. CASE ~done
      BY <1>1, <2>4, <2>5, <3>2 DEF PublisherOK, Prepare
    <3> QED
      BY <3>1, <3>2
  <2> QED
    BY <1>1, <2>1, <2>6, PlacedAside DEF Prepare, leaderVars
<1>2. CASE Submit(p)
  <2>1. batch[p] = {} /\ plan[p] # <<>>
    BY <1>0, <1>2 DEF Submit, Place
  <2>2. Tail(plan[p]) \in Seq(SUBSET Files)
    BY <2>1, HeadOK
  <2>3. CASE Head(plan[p]) \subseteq changed[p]
    <3>1. Proceed(p, Tail(plan[p])) /\ UNCHANGED <<waiting, batch>>
      BY <1>2, <2>3 DEF Submit
    <3>2. UNCHANGED <<group, outcome, result>>
      BY <1>2 DEF Submit, leaderVars
    <3> QED
      BY <2>1, <2>2, <3>1, <3>2, ProceedOK, PlacedAside
  <2>4. CASE ~(Head(plan[p]) \subseteq changed[p])
    <3>1. /\ waiting' = Append(waiting, p)
          /\ batch' = [batch EXCEPT ![p] = Head(plan[p]) \ changed[p]]
          /\ plan' = [plan EXCEPT ![p] = Tail(@)]
          /\ pc' = [pc EXCEPT ![p] = "queued"]
          /\ UNCHANGED <<group, outcome, result>>
      BY <1>2, <2>4 DEF Submit, leaderVars
    <3>2. p \notin Open /\ result[p] = "none" /\ outcome[p] = "none"
      BY <1>0, <2>1 DEF Place, Open
    <3>3. waiting \in Seq(Publishers) /\ Distinct(waiting) /\ p \notin Elements(waiting)
      BY <3>2, PlacedDistinct DEF LeaderOK, Open
    <3>4. /\ Elements(waiting') = Elements(waiting) \cup {p} /\ Distinct(waiting')
          /\ Elements(group)' = Elements(group)
      BY <3>1, <3>3, AppendElements
    <3>5. Open' = Open \cup {p}
      BY <3>4 DEF Open
    <3>6. ASSUME NEW q \in Publishers PROVE Place(q)'
      <4>1. CASE q = p
        BY <2>4, <3>1, <3>2, <3>5, <4>1 DEF Place, PublisherOK
      <4>2. CASE q # p
        BY <3>1, <3>4, <3>5, <4>2, PlaceKept DEF Placed, PublisherOK
      <4> QED
        BY <4>1, <4>2
    <3>7. Elements(waiting') \cap Elements(group') = {}
      BY <3>1, <3>2, <3>4 DEF Placed, Open
    <3> QED
      BY <3>1, <3>4, <3>6, <3>7 DEF Placed, Distinct
  <2> QED
    BY <2>3, <2>4
<1>3. CASE ReadFresh(p)
  <2>1. PICK f \in Files : ReadFreshAs(p, f, db.bound[f])
    BY <1>3 DEF ReadFresh
  <2>2. batch[p] = {} /\ plan[p] # <<>>
    BY <1>0, <2>1 DEF ReadFreshAs, Place
  <2>3. Tail(plan[p]) \in Seq(SUBSET Files)
    BY <2>2, HeadOK
  <2>4. /\ pc'[p] \in {"prepare", "ready", "retry", "finished"}
        /\ pc'[p] # "finished" => plan'[p] # <<>>
        /\ \A q \in Publishers \ {p} : plan'[q] = plan[q] /\ pc'[q] = pc[q]
    <3>1. CASE f \in changed[p]
      BY <2>1, <2>3, <3>1, ProceedOK DEF ReadFreshAs
    <3>2. CASE f \notin changed[p]
      BY <2>1, <2>2, <3>2 DEF ReadFreshAs, PublisherOK
    <3> QED
      BY <3>1, <3>2
  <2> QED
    BY <2>1, <2>2, <2>4, PlacedAside DEF ReadFreshAs, leaderVars
<1>4. ASSUME Returned(p), pc'[p] \in {"ready", "retry", "finished"},
             pc'[p] # "finished" => plan'[p] # <<>>,
             \A q \in Publishers \ {p} : plan'[q] = plan[q] /\ pc'[q] = pc[q]
      PROVE  Placed'
  <2>1. p \notin Open /\ outcome[p] = "none"
    BY <1>0, <1>4 DEF Returned, Place, Open
  <2>2. UNCHANGED <<waiting, group, outcome>>
    BY <1>4 DEF Returned
  <2>3. Open' = Open /\ Elements(group)' = Elements(group)
    BY <2>2 DEF Open
  <2>4. ASSUME NEW q \in Publishers PROVE Place(q)'
    <3>1. CASE q = p
      BY <1>4, <2>1, <2>2, <2>3, <3>1 DEF Place, Returned, LeaderOK, PublisherOK
    <3>2. CASE q # p
      BY <1>4, <2>2, <2>3, <3>2, PlaceKept DEF Placed, Returned, LeaderOK, PublisherOK
    <3> QED
      BY <3>1, <3>2
  <2> QED
    BY <2>2, <2>4 DEF Placed
<1>5. CASE TakeOk(p)
  BY <1>0, <1>4, <1>5, ProceedOK DEF TakeOk, TakeOkWith
<1>6. CASE Bisect(p)
  <2>1. PICK left \in SUBSET batch[p] : Proceed(p, <<left, batch[p] \ left>> \o plan[p])
    BY <1>6 DEF Bisect
  <2>2. <<left, batch[p] \ left>> \o plan[p] \in Seq(SUBSET Files)
    BY <1>0, PushOK
  <2> QED
    BY <1>4, <1>6, <2>1, <2>2, ProceedOK DEF Bisect
<1>7. CASE TakeErr(p)
  <2>1. <<batch[p]>> \o plan[p] \in Seq(SUBSET Files) /\ <<batch[p]>> \o plan[p] # <<>>
    BY <1>0, PushOK
  <2>2. CASE single[p]
    BY <1>0, <1>4, <1>7, <2>2, ProceedOK DEF TakeErr
  <2>3. CASE ~single[p]
    <3>1. /\ plan' = [plan EXCEPT ![p] = <<batch[p]>> \o @]
          /\ pc' = [pc EXCEPT ![p] = "retry"]
      BY <1>7, <2>3 DEF TakeErr
    <3>2. /\ pc'[p] = "retry" /\ plan'[p] # <<>>
          /\ \A q \in Publishers \ {p} : plan'[q] = plan[q] /\ pc'[q] = pc[q]
      BY <2>1, <3>1 DEF PublisherOK
    <3> QED
      BY <1>4, <1>7, <3>2 DEF TakeErr
  <2> QED
    BY <2>2, <2>3
<1>8. CASE Sleep(p)
  BY <1>8, PlacedKept DEF Sleep, leaderVars, publisherVars
<1>9. CASE Lead(p)
  BY <1>9, PlacedKept DEF Lead, publisherVars
<1> QED
  BY <1>1, <1>2, <1>3, <1>5, <1>6, <1>7, <1>8, <1>9 DEF PublisherStep

\* The leader decides requests of its group, and none of them otherwise.
LEMMA PlacedDecided ==
    ASSUME IInv, UNCHANGED <<waiting, group, result, batch, pc, plan>>,
           \A q \in Publishers : outcome'[q] = outcome[q] \/ q \in Elements(group)
    PROVE  Placed'
<1> USE DEF IInv
<1>1. Open' = Open /\ Elements(group)' = Elements(group)
  BY DEF Open
<1>2. ASSUME NEW q \in Publishers PROVE Place(q)'
  BY <1>1 DEF Placed, Place
<1> QED
  BY <1>2 DEF Placed

\* When the group is disbanded, each of its requests is answered.
LEMMA PlacedDisbanded ==
    ASSUME IInv, Disband, UNCHANGED <<waiting, batch, plan>>,
           \A q \in Publishers :
              /\ q \in Elements(group) => result'[q] # "none"
              /\ q \notin Elements(group) => result'[q] = result[q]
              /\ pc'[q] \in {pc[q], "gone"}
    PROVE  Placed'
<1> USE DEF IInv
<1>1. Elements(group)' = {} /\ Open' = Elements(waiting)
  BY EmptyElements DEF Open, Disband
<1>2. ASSUME NEW q \in Publishers PROVE Place(q)'
  <2>1. outcome'[q] = "none"
    BY DEF Disband
  <2> QED
    BY <1>1, <2>1 DEF Placed, Place, Open
<1>3. Distinct(<<>>)
  BY EmptyElements
<1> QED
  BY <1>1, <1>2, <1>3 DEF Placed, Disband, Distinct

LEMMA PlacedLeader == ASSUME IInv, LeaderStep PROVE Placed'
<1> USE DEF IInv, TypeOK
<1>0. Undecided \subseteq Elements(group)
  BY DEF Undecided
<1>1. CASE TakeWriter
  BY <1>1, PlacedKept DEF TakeWriter, publisherVars
<1>2. CASE WriterFail
  BY <1>0, <1>2, PlacedDecided DEF WriterFail, publisherVars, LeaderOK
<1>3. CASE Collect
  <2>1. PICK n \in 1..Len(waiting) :
            /\ group' = SubSeq(waiting, 1, n)
            /\ waiting' = SubSeq(waiting, n + 1, Len(waiting))
    BY <1>3 DEF Collect
  <2>2. waiting \in Seq(Publishers) /\ Distinct(waiting)
    BY PlacedDistinct DEF LeaderOK
  <2>3. /\ Distinct(group') /\ Distinct(waiting')
        /\ Elements(group') \cap Elements(waiting') = {}
        /\ Elements(group') \cup Elements(waiting') = Elements(waiting)
    BY <2>1, <2>2, SplitElements
  <2>4. group = <<>> /\ Elements(group) = {}
    BY <1>3, EmptyElements DEF Collect, Staged
  <2>5. Open' = Open
    BY <2>3, <2>4 DEF Open
  <2>6. UNCHANGED <<result, batch, pc, plan>>
    BY <1>3 DEF Collect, publisherVars
  <2>7. ASSUME NEW q \in Publishers PROVE Place(q)'
    <3>1. outcome[q] = "none"
      BY <2>4 DEF Placed, Place
    <3>2. outcome'[q] # "none" => q \in Elements(group')
      BY <1>3, <3>1 DEF Collect, LeaderOK
    <3> QED
      BY <2>5, <2>6, <3>2 DEF Placed, Place
  <2> QED
    BY <2>3, <2>7 DEF Placed, Distinct
<1>4. ASSUME NEW p \in Publishers, Apply(p) PROVE Placed'
  BY <1>4, PlacedKept DEF Apply, publisherVars
<1>5. ASSUME NEW p \in Publishers, Reject(p) PROVE Placed'
  <2>1. p \in Elements(group)
    BY <1>5 DEF Reject, RejectWith, IsNext, Undecided
  <2> QED
    BY <1>5, <2>1, PlacedDecided DEF Reject, RejectWith, publisherVars, LeaderOK
<1>6. CASE CommitTx
  BY <1>0, <1>6, PlacedDecided DEF CommitTx, publisherVars, LeaderOK
<1>7. CASE CommitFail
  BY <1>0, <1>7, PlacedDecided DEF CommitFail, publisherVars, LeaderOK
<1>8. CASE StoreResults
  <2>1. \A q \in Elements(group) : outcome[q] # "none"
    BY <1>8 DEF StoreResults, Staged, Undecided
  <2> QED
    BY <1>8, <2>1, PlacedDisbanded DEF StoreResults, publisherVars
<1>9. CASE Drop
  BY <1>9, PlacedKept DEF Drop, DropWaking, publisherVars
<1>10. CASE Unwind
  <2>1. \A q \in Publishers :
           /\ q \in Elements(group) => result'[q] = "err"
           /\ q \notin Elements(group) => result'[q] = result[q]
    BY <1>10 DEF Unwind, UnwindTelling
  <2>2. \A q \in Publishers : pc'[q] \in {pc[q], "gone"}
    BY <1>10 DEF Unwind, UnwindTelling, PublisherOK
  <2>3. Disband /\ UNCHANGED <<waiting, batch, plan>>
    BY <1>10 DEF Unwind, UnwindTelling
  <2> QED
    BY <2>1, <2>2, <2>3, PlacedDisbanded
<1> QED
  BY <1>1, <1>2, <1>3, <1>4, <1>5, <1>6, <1>7, <1>8, <1>9, <1>10 DEF LeaderStep

LEMMA PlacedOthers == ASSUME IInv, OtherStep PROVE Placed'
BY PlacedKept DEF IInv, OtherStep, Change, CollectObject, Retire, leaderVars, publisherVars

-----------------------------------------------------------------------------
(* The stage of the leader.                                                *)

LEMMA StagedPublisher ==
    ASSUME IInv, NEW p \in Publishers, PublisherStep(p) PROVE Staged'
<1> USE DEF IInv
<1>1. CASE Lead(p)
  <2>1. stage = "none" /\ group = <<>> /\ leader' # NoOne /\ stage' = "writer"
    BY <1>1, NamesAssumption DEF Lead, Staged
  <2>2. \A q \in Publishers : outcome[q] = "none"
    BY <2>1, EmptyElements DEF Placed, Place
  <2>3. UNCHANGED <<group, outcome, applied>>
    BY <1>1 DEF Lead
  <2> QED
    BY <2>1, <2>2, <2>3 DEF Staged
<1>2. ASSUME NEW f \in Files, Prepare(p, f) PROVE Staged'
  BY <1>2, StagedKept DEF Prepare, leaderVars
<1>3. CASE Submit(p)
  BY <1>3, StagedKept DEF Submit, leaderVars
<1>4. CASE ReadFresh(p)
  BY <1>4, StagedKept DEF ReadFresh, ReadFreshAs, leaderVars
<1>5. CASE Returned(p)
  BY <1>5, StagedKept DEF Returned
<1>6. CASE Sleep(p)
  BY <1>6, StagedKept DEF Sleep, leaderVars
<1> QED
  BY <1>1, <1>2, <1>3, <1>4, <1>5, <1>6
  DEF PublisherStep, TakeOk, TakeOkWith, Bisect, TakeErr

\* Once everything undecided is decided, nothing is.
LEMMA Decided ==
    ASSUME LeaderOK, UNCHANGED group, NEW how \in {"ok", "err"},
           outcome' = [p \in Publishers |-> IF p \in Undecided THEN how ELSE outcome[p]]
    PROVE  Undecided' = {}
<1>1. ASSUME NEW p \in Elements(group) PROVE outcome'[p] # "none"
  <2>1. p \in Publishers
    BY ElementsOK DEF LeaderOK
  <2> QED
    BY <2>1 DEF Undecided
<1> QED
  BY <1>1 DEF Undecided

LEMMA StagedLeader == ASSUME IInv, LeaderStep PROVE Staged'
<1> USE DEF IInv, TypeOK
<1>1. CASE TakeWriter
  <2>1. /\ stage = "writer" /\ applied' = {}
        /\ stage' = IF group = <<>> THEN "collect" ELSE "apply"
        /\ UNCHANGED <<leader, group, outcome>>
    BY <1>1 DEF TakeWriter
  <2>2. Undecided' = Undecided
    BY <2>1 DEF Undecided
  <2> QED
    BY <2>1, <2>2 DEF Staged
<1>2. CASE WriterFail
  <2>1. CASE group = <<>>
    BY <1>2, <2>1 DEF WriterFail, Staged
  <2>2. CASE group # <<>>
    <3>1. Undecided' = {}
      BY <1>2, <2>2, Decided DEF WriterFail
    <3> QED
      BY <1>2, <2>2, <3>1 DEF WriterFail, Staged
  <2> QED
    BY <2>1, <2>2
<1>3. CASE Collect
  <2>1. PICK n \in 1..Len(waiting) :
            /\ group' = SubSeq(waiting, 1, n)
            /\ waiting' = SubSeq(waiting, n + 1, Len(waiting))
    BY <1>3 DEF Collect
  <2>2. waiting \in Seq(Publishers) /\ Distinct(waiting)
    BY PlacedDistinct DEF LeaderOK
  <2>3. group' \in Seq(Publishers) /\ group' # <<>>
    BY <2>1, <2>2, SplitElements
  <2>4. Elements(group') # {} /\ Elements(group') \subseteq Publishers
    BY <2>3, NonemptyElements, ElementsOK
  <2>5. \A q \in Publishers : outcome[q] = "none"
    BY <1>3, EmptyElements DEF Collect, Staged, Placed, Place
  <2>6. CASE stage = "broken"
    <3>1. Undecided' = {}
      BY <1>3, <2>4, <2>6 DEF Collect, Undecided
    <3> QED
      BY <1>3, <2>6, <3>1 DEF Collect, Staged
  <2>7. CASE stage = "collect"
    <3>1. stage' = "apply" /\ UNCHANGED <<outcome, applied, leader>>
      BY <1>3, <2>7 DEF Collect
    <3>2. Undecided' = Elements(group')
      BY <2>4, <2>5, <3>1 DEF Undecided
    <3> QED
      BY <2>3, <2>4, <2>5, <2>7, <3>1, <3>2 DEF Staged
  <2> QED
    BY <1>3, <2>6, <2>7 DEF Collect
<1>4. ASSUME NEW p \in Publishers, Apply(p) PROVE Staged'
  <2>1. p \in Undecided /\ applied' = applied \cup {p} /\ stage = "apply"
    BY <1>4 DEF Apply, IsNext
  <2>2. UNCHANGED <<leader, stage, group, outcome>>
    BY <1>4 DEF Apply
  <2>3. Undecided' = Undecided
    BY <2>2 DEF Undecided
  <2> QED
    BY <2>1, <2>2, <2>3 DEF Staged
<1>5. ASSUME NEW p \in Publishers, Reject(p) PROVE Staged'
  <2>1. /\ outcome' = [q \in Publishers |-> IF q \in {p} THEN "err" ELSE outcome[q]]
        /\ stage = "apply"
        /\ stage' = IF Undecided \subseteq {p} THEN "store" ELSE "writer"
        /\ UNCHANGED <<leader, group>>
    BY <1>5 DEF Reject, RejectWith
  <2>2. Undecided' = Undecided \ {p}
    <3>1. Elements(group) \subseteq Publishers
      BY ElementsOK DEF LeaderOK
    <3> QED
      BY <2>1, <3>1 DEF Undecided
  <2> QED
    BY <2>1, <2>2 DEF Staged
<1>6. CASE CommitTx
  <2>1. Undecided' = {}
    BY <1>6, Decided DEF CommitTx
  <2> QED
    BY <1>6, <2>1 DEF CommitTx, Staged
<1>7. CASE CommitFail
  <2>1. Undecided' = {}
    BY <1>7, Decided DEF CommitFail
  <2> QED
    BY <1>7, <2>1 DEF CommitFail, Staged
<1>8. CASE StoreResults
  BY <1>8 DEF StoreResults, Disband, Staged
<1>9. CASE Drop
  BY <1>9 DEF Drop, DropWaking, Staged
<1>10. CASE Unwind
  BY <1>10 DEF Unwind, UnwindTelling, Disband, Staged
<1> QED
  BY <1>1, <1>2, <1>3, <1>4, <1>5, <1>6, <1>7, <1>8, <1>9, <1>10 DEF LeaderStep

LEMMA StagedOthers == ASSUME IInv, OtherStep PROVE Staged'
BY StagedKept DEF IInv, OtherStep, Change, CollectObject, Retire, leaderVars

-----------------------------------------------------------------------------
(* The transaction and the bindings.                                       *)

\* What is applied is in the group, so whoever is nowhere is not applied.
LEMMA AppliedOpen == ASSUME IInv, Writing PROVE applied \subseteq Open
BY DEF IInv, Writing, Staged, Undecided, Open

LEMMA FaithfulPublisher ==
    ASSUME IInv, NEW p \in Publishers, PublisherStep(p) PROVE Faithful'
<1> USE DEF IInv, TypeOK
<1>1. ASSUME p \notin Open, UNCHANGED <<stage, tx, db, applied>>,
             \A q \in Publishers \ {p} : batch'[q] = batch[q] /\ put'[q] = put[q]
      PROVE  Faithful'
  <2>1. Writing' <=> Writing
    BY <1>1 DEF Writing
  <2>2. Writing => p \notin applied /\ applied \subseteq Publishers
    BY <1>1, AppliedOpen DEF LeaderOK
  <2> QED
    BY <1>1, <2>1, <2>2 DEF Faithful
<1>2. Place(p)
  BY DEF Placed
<1>3. ASSUME NEW f \in Files, Prepare(p, f) PROVE Faithful'
  BY <1>3, FaithfulKept DEF Prepare, leaderVars
<1>4. CASE Submit(p)
  <2>1. p \notin Open
    BY <1>2, <1>4 DEF Submit, Place
  <2>2. \A q \in Publishers \ {p} : batch'[q] = batch[q]
    BY <1>4 DEF Submit, PublisherOK
  <2> QED
    BY <1>1, <1>4, <2>1, <2>2 DEF Submit, leaderVars
<1>5. CASE ReadFresh(p)
  BY <1>5, FaithfulKept DEF ReadFresh, ReadFreshAs, leaderVars
<1>6. CASE Returned(p)
  <2>1. p \notin Open
    BY <1>2, <1>6 DEF Returned, Place
  <2>2. \A q \in Publishers \ {p} : batch'[q] = batch[q] /\ put'[q] = put[q]
    BY <1>6 DEF Returned, PublisherOK, LeaderOK
  <2> QED
    BY <1>1, <1>6, <2>1, <2>2 DEF Returned
<1>7. CASE Sleep(p)
  BY <1>7, FaithfulKept DEF Sleep, leaderVars, publisherVars
<1>8. CASE Lead(p)
  <2>1. ~Writing'
    BY <1>8 DEF Lead, Writing
  <2> QED
    BY <2>1 DEF Faithful
<1> QED
  BY <1>2, <1>3, <1>4, <1>5, <1>6, <1>7, <1>8
  DEF PublisherStep, TakeOk, TakeOkWith, Bisect, TakeErr

\* A request that is applied adds its files, and no binding to what is not there.
LEMMA FaithfulApply == ASSUME IInv, NEW p \in Publishers, Apply(p) PROVE Faithful'
<1> USE DEF IInv, TypeOK
<1>1. PICK missing \in SUBSET Missable(p) :
          /\ Missing(p) \subseteq missing
          /\ put' = [put EXCEPT ![p] = batch[p] \ missing]
          /\ tx' = Installed(p, batch[p] \ missing)
  BY DEF Apply
<1> DEFINE new == batch[p] \ missing
<1>2. /\ Writing /\ p \notin applied /\ applied' = applied \cup {p}
      /\ applied \subseteq Publishers /\ UNCHANGED <<db, batch, stage>>
  BY DEF Apply, IsNext, Writing, LeaderOK, publisherVars
<1>3. batch[p] \in SUBSET Files /\ new \in SUBSET Files /\ tx \in Databases
  BY <1>2 DEF PublisherOK, Faithful
<1>4. /\ tx' \in Databases
      /\ \A f \in Files : tx'.bound[f] = IF f \in new THEN Want[p][f] ELSE tx.bound[f]
      /\ tx.live \subseteq tx'.live
      /\ \A f \in new \cap encoded[p] : Want[p][f] \in tx'.live
  BY <1>1, <1>3, InstalledOK
<1>5. put'[p] = new /\ \A q \in applied : put'[q] = put[q]
  BY <1>1, <1>2 DEF LeaderOK
<1>6. \A q \in applied' : put'[q] \subseteq batch'[q]
  BY <1>2, <1>5 DEF Faithful
<1> HIDE DEF new
<1>7. ASSUME NEW f \in Files
      PROVE  \/ \E q \in applied' : f \in put'[q] /\ tx'.bound[f] = Want[q][f]
             \/ (\A q \in applied' : f \notin put'[q]) /\ tx'.bound[f] = db'.bound[f]
  <2>1. CASE f \in new
    BY <1>2, <1>4, <1>5, <2>1
  <2>2. CASE f \notin new
    BY <1>2, <1>4, <1>5, <2>2 DEF Faithful
  <2> QED
    BY <2>1, <2>2
<1>8. ASSUME NEW f \in new PROVE Want[p][f] \in tx'.live
  <2>1. f \in batch[p] /\ f \notin missing
    BY DEF new
  <2>2. CASE f \in encoded[p]
    BY <1>4, <2>2
  <2>3. CASE f \notin encoded[p] /\ Want[p][f] \in tx.live
    BY <1>4, <2>3
  <2>4. CASE f \notin encoded[p] /\ Want[p][f] \notin tx.live
    <3>1. f \in Missable(p) /\ f \notin Missing(p)
      BY <1>1, <2>1, <2>4 DEF Missable
    <3>2. PICK g \in batch[p] \cap encoded[p] : Want[p][f] = Want[p][g]
      BY <3>1 DEF Missing, Brings
    <3>3. g \in new \cap encoded[p]
      BY <1>1, <3>2 DEF Missable, new
    <3> QED
      BY <1>4, <3>2, <3>3
  <2> QED
    BY <2>2, <2>3, <2>4
<1>9. ASSUME NEW f \in Files PROVE tx'.bound[f] \in tx'.live \cup {NoObject}
  <2>1. CASE f \in new
    BY <1>4, <1>8, <2>1
  <2>2. CASE f \notin new
    <3>1. tx.bound[f] \in tx.live \cup {NoObject}
      BY <1>2 DEF Faithful
    <3> QED
      BY <1>4, <2>2, <3>1
  <2> QED
    BY <2>1, <2>2
<1> QED
  BY <1>4, <1>6, <1>7, <1>9 DEF Faithful

LEMMA FaithfulLeader == ASSUME IInv, LeaderStep PROVE Faithful'
<1> USE DEF IInv, TypeOK
<1>1. CASE TakeWriter
  <2>1. tx' = db /\ db' = db /\ applied' = {}
    BY <1>1 DEF TakeWriter
  <2>2. db \in Databases /\ \A f \in Files : db.bound[f] \in db.live \cup {NoObject}
    BY DEF StoreOK, BoundLive
  <2> QED
    BY <2>1, <2>2 DEF Faithful
<1>2. CASE Collect
  <2>1. CASE stage = "collect"
    BY <1>2, <2>1 DEF Collect, Faithful, Writing, publisherVars
  <2>2. CASE stage = "broken"
    BY <1>2, <2>2 DEF Collect, Faithful, Writing
  <2> QED
    BY <1>2, <2>1, <2>2 DEF Collect
<1>3. ASSUME NEW p \in Publishers, Apply(p) PROVE Faithful'
  BY <1>3, FaithfulApply
<1>4. CASE WriterFail \/ CommitTx \/ CommitFail \/ StoreResults \/ Drop \/ Unwind
  <2>1. stage' \in {"broken", "store", "drop", "none"}
    BY <1>4 DEF WriterFail, CommitTx, CommitFail, StoreResults, Drop, DropWaking, Unwind,
                UnwindTelling
  <2> QED
    BY <2>1 DEF Faithful, Writing
<1>5. ASSUME NEW p \in Publishers, Reject(p) PROVE Faithful'
  <2>1. stage' \in {"store", "writer"}
    BY <1>5 DEF Reject, RejectWith
  <2> QED
    BY <2>1 DEF Faithful, Writing
<1> QED
  BY <1>1, <1>2, <1>3, <1>4, <1>5 DEF LeaderStep

\* Nobody else writes while the leader does.
LEMMA FaithfulOthers == ASSUME IInv, OtherStep PROVE Faithful'
<1>1. CASE Writing
  BY <1>1, FaithfulKept DEF IInv, OtherStep, Change, CollectObject, Retire, leaderVars,
                            publisherVars
<1>2. CASE ~Writing
  <2>1. ~Writing'
    BY <1>2 DEF OtherStep, Change, CollectObject, Retire, leaderVars, Writing
  <2> QED
    BY <2>1 DEF Faithful
<1> QED
  BY <1>1, <1>2

\* The bindings change with a commit only; an object goes only when unbound.
LEMMA BoundLiveKept == ASSUME IInv, [Next]_vars PROVE BoundLive'
<1> USE DEF IInv, TypeOK
<1>1. ASSUME UNCHANGED db PROVE BoundLive'
  BY <1>1 DEF BoundLive
<1>2. ASSUME NEW p \in Publishers, PublisherStep(p) PROVE UNCHANGED db
  BY <1>2 DEF PublisherStep, Prepare, Submit, ReadFresh, ReadFreshAs, TakeOk, TakeOkWith, Bisect,
              TakeErr, Returned, Sleep, Lead
<1>3. CASE LeaderStep
  <2>1. CASE CommitTx
    BY <2>1 DEF CommitTx, Faithful, Writing, BoundLive
  <2>2. CASE ~CommitTx
    <3>1. UNCHANGED db
      BY <1>3, <2>2 DEF LeaderStep, TakeWriter, WriterFail, Collect, Apply, Reject, RejectWith,
                        CommitFail, StoreResults, Drop, DropWaking, Unwind, UnwindTelling
    <3> QED
      BY <1>1, <3>1
  <2> QED
    BY <2>1, <2>2
<1>4. CASE OtherStep
  <2>1. ASSUME NEW o \in Objects, CollectObject(o) PROVE BoundLive'
    BY <2>1 DEF CollectObject, BoundLive, StoreOK, Databases
  <2>2. ASSUME NEW s \in Scopes, Retire(s) PROVE BoundLive'
    BY <2>2 DEF Retire, BoundLive, StoreOK, Databases
  <2> QED
    BY <1>1, <1>4, <2>1, <2>2 DEF OtherStep, Change
<1>5. CASE UNCHANGED vars
  BY <1>1, <1>5 DEF vars
<1> QED
  BY <1>1, <1>2, <1>3, <1>4, <1>5 DEF Next

-----------------------------------------------------------------------------
(* The invariant.                                                          *)

LEMMA InitInvariant == Init => IInv
<1> SUFFICES ASSUME Init PROVE IInv
  OBVIOUS
<1> USE DEF Init
<1>1. \A p \in Publishers : <<{}>> \in Seq(SUBSET Files) /\ <<{}>> # <<>>
  BY SingletonOK
<1>2. StoreOK
  BY BoundAssumption DEF StoreOK, Databases
<1>3. LeaderOK
  BY SingletonOK DEF LeaderOK
<1>4. PublisherOK
  <2>1. single \in [Publishers -> BOOLEAN]
    BY Zenon
  <2>2. plan \in [Publishers -> Seq(SUBSET Files)]
    BY <1>1
  <2>3. expected \in [Publishers -> [Files -> Objects \cup {NoObject}]]
    BY DEF Databases
  <2> QED
    BY <2>1, <2>2, <2>3 DEF PublisherOK
<1>5. Placed
  BY <1>1, EmptyElements DEF Placed, Place, Open, Distinct
<1>6. Staged /\ Faithful
  BY DEF Staged, Faithful, Writing
<1>7. BoundLive
  BY DEF BoundLive
<1> QED
  BY <1>2, <1>3, <1>4, <1>5, <1>6, <1>7 DEF IInv, TypeOK

LEMMA StepInvariant == IInv /\ [Next]_vars => IInv'
<1> SUFFICES ASSUME IInv, [Next]_vars PROVE IInv'
  OBVIOUS
<1>1. BoundLive'
  BY BoundLiveKept
<1>2. ASSUME NEW p \in Publishers, PublisherStep(p) PROVE IInv'
  BY <1>1, <1>2, TypePublisher, PlacedPublisher, StagedPublisher, FaithfulPublisher DEF IInv
<1>3. CASE LeaderStep
  BY <1>1, <1>3, TypeLeader, PlacedLeader, StagedLeader, FaithfulLeader DEF IInv
<1>4. CASE OtherStep
  BY <1>1, <1>4, TypeOthers, PlacedOthers, StagedOthers, FaithfulOthers DEF IInv
<1>5. CASE UNCHANGED vars
  <2>1. TypeOK'
    BY <1>5, StoreKept, LeaderKept, PublisherKept
    DEF vars, leaderVars, publisherVars, otherVars, IInv, TypeOK
  <2>2. Placed' /\ Staged' /\ Faithful'
    BY <1>5, PlacedKept, StagedKept, FaithfulKept DEF vars, leaderVars, publisherVars, IInv
  <2> QED
    BY <1>1, <2>1, <2>2 DEF IInv
<1> QED
  BY <1>2, <1>3, <1>4, <1>5 DEF Next

\* Every reachable state satisfies the inductive invariant: a request is in one
\* place, and the leader's transaction holds the applied requests and no others.
THEOREM Invariant == Spec => []IInv
BY InitInvariant, StepInvariant, PTL DEF Spec

\* No file is ever bound to an analysis that collection has deleted.
THEOREM BindingsLive == Spec => []BoundLive
<1>1. IInv => BoundLive
  BY DEF IInv
<1> QED
  BY <1>1, Invariant, PTL

-----------------------------------------------------------------------------
(* The queue implements atomic publication.                                *)

LEMMA InitAbstract == Init => Abstract!Init
<1> SUFFICES ASSUME Init PROVE Abstract!Init
  OBVIOUS
<1>1. \A p \in Publishers : Standing(p) = "idle" /\ batch[p] = {}
  BY DEF Init, Standing
<1> QED
  BY <1>1 DEF Init, Abstract!Init, Databases

LEMMA PendingOK ==
    ASSUME IInv, NEW p \in Publishers, p \in Open, outcome[p] = "none"
    PROVE  Standing(p) = "pending"
BY DEF IInv, Placed, Place, Standing

LEMMA Stutters ==
    ASSUME db'.bound = db.bound, batch' = batch,
           \A p \in Publishers :
              /\ Standing(p)' = Standing(p)
              /\ Standing(p) = "ok" => put'[p] = put[p]
    PROVE  UNCHANGED Abstract!vars
BY DEF Abstract!vars

LEMMA Fails ==
    ASSUME NEW G \in SUBSET Publishers, G # {},
           \A p \in G : Standing(p) = "pending",
           \A p \in Publishers : Standing(p)' = IF p \in G THEN "err" ELSE Standing(p),
           db'.bound = db.bound, UNCHANGED <<batch, put>>
    PROVE  Abstract!Next
<1>1. Abstract!Fail(G)
  BY DEF Abstract!Fail
<1> QED
  BY <1>1 DEF Abstract!Next

LEMMA Commits ==
    ASSUME NEW G \in SUBSET Publishers, G # {},
           \A p \in G : Standing(p) = "pending",
           \A p \in Publishers : Standing(p)' = IF p \in G THEN "ok" ELSE Standing(p),
           put \in [Publishers -> SUBSET Files], UNCHANGED <<batch, put>>,
           \A p \in G : put[p] \subseteq batch[p],
           \A f \in Files :
              \/ \E p \in G : f \in put[p] /\ db'.bound[f] = Want[p][f]
              \/ (\A p \in G : f \notin put[p]) /\ db'.bound[f] = db.bound[f]
    PROVE  Abstract!Next
<1> DEFINE P == [p \in Publishers |-> IF Standing(p) = "ok" THEN put[p] ELSE {}]
<1>1. /\ P' \in [Publishers -> SUBSET Files]
      /\ \A p \in Publishers : P'[p] = IF Standing(p)' = "ok" THEN put[p] ELSE {}
      /\ \A p \in Publishers : P[p] = IF Standing(p) = "ok" THEN put[p] ELSE {}
  OBVIOUS
<1>2. \A p \in Publishers : IF p \in G THEN P'[p] \subseteq batch[p] ELSE P'[p] = P[p]
  BY <1>1
<1>3. \A f \in Files :
         \/ \E p \in G : f \in P'[p] /\ db'.bound[f] = Want[p][f]
         \/ (\A p \in G : f \notin P'[p]) /\ db'.bound[f] = db.bound[f]
  BY <1>1
<1>4. \A p \in G : [q \in Publishers |-> Standing(q)][p] = "pending"
  OBVIOUS
<1>5. [q \in Publishers |-> Standing(q)]'
        = [q \in Publishers |-> IF q \in G THEN "ok"
                               ELSE [r \in Publishers |-> Standing(r)][q]]
  OBVIOUS
<1>6. Abstract!Commit(G)
  BY <1>1, <1>2, <1>3, <1>4, <1>5 DEF Abstract!Commit
<1> QED
  BY <1>6 DEF Abstract!Next

LEMMA AbstractPublisher ==
    ASSUME IInv, NEW p \in Publishers, PublisherStep(p)
    PROVE  Abstract!Next \/ UNCHANGED Abstract!vars
<1> USE DEF IInv, TypeOK
<1>1. ASSUME UNCHANGED <<db, batch, result, outcome, put>> PROVE UNCHANGED Abstract!vars
  BY <1>1, Stutters DEF Standing
<1>2. Place(p)
  BY DEF Placed
<1>3. ASSUME NEW f \in Files, Prepare(p, f) PROVE UNCHANGED <<db, batch, result, outcome, put>>
  BY <1>3 DEF Prepare, leaderVars
<1>4. CASE Submit(p)
  <2>1. CASE Head(plan[p]) \subseteq changed[p]
    BY <1>1, <1>4, <2>1 DEF Submit, leaderVars
  <2>2. CASE ~(Head(plan[p]) \subseteq changed[p])
    <3>1. batch[p] = {} /\ plan[p] # <<>> /\ result[p] = "none" /\ outcome[p] = "none"
      BY <1>2, <1>4 DEF Submit, Place, Open
    <3>2. Head(plan[p]) \ changed[p] \in (SUBSET Files) \ {{}}
      BY <2>2, <3>1, HeadOK
    <3>3. batch' = [batch EXCEPT ![p] = Head(plan[p]) \ changed[p]]
      BY <1>4, <2>2 DEF Submit
    <3>4. UNCHANGED <<db, result, outcome, put>>
      BY <1>4 DEF Submit, leaderVars
    <3>5. Standing(p) = "idle" /\ Standing(p)' = "pending"
      BY <3>1, <3>2, <3>3, <3>4 DEF Standing, PublisherOK
    <3>6. \A q \in Publishers \ {p} : Standing(q)' = Standing(q)
      BY <3>3, <3>4 DEF Standing, PublisherOK
    <3>7. Abstract!Submit(p)
      BY <3>2, <3>3, <3>4, <3>5, <3>6 DEF Abstract!Submit
    <3> QED
      BY <3>7 DEF Abstract!Next
  <2> QED
    BY <2>1, <2>2
<1>5. CASE ReadFresh(p)
  BY <1>1, <1>5 DEF ReadFresh, ReadFreshAs, leaderVars
<1>6. CASE Returned(p)
  <2>1. batch[p] # {} /\ p \notin Open /\ outcome[p] = "none"
    BY <1>2, <1>6 DEF Returned, Place, Open
  <2>2. /\ result' = [result EXCEPT ![p] = "none"] /\ batch' = [batch EXCEPT ![p] = {}]
        /\ put' = [put EXCEPT ![p] = {}] /\ UNCHANGED <<db, outcome>>
    BY <1>6 DEF Returned
  <2>3. Standing(p) \in {"ok", "err"} /\ Standing(p)' = "idle"
    BY <1>6, <2>1, <2>2 DEF Returned, Standing, LeaderOK, PublisherOK
  <2>4. \A q \in Publishers \ {p} : Standing(q)' = Standing(q) /\ put'[q] = put[q]
    BY <2>2 DEF Standing, LeaderOK, PublisherOK
  <2>5. Abstract!Answer(p)
    BY <2>2, <2>3, <2>4 DEF Abstract!Answer
  <2> QED
    BY <2>5 DEF Abstract!Next
<1>7. CASE Sleep(p)
  BY <1>1, <1>7 DEF Sleep, leaderVars, publisherVars
<1>8. CASE Lead(p)
  BY <1>1, <1>8 DEF Lead, publisherVars
<1> QED
  BY <1>1, <1>3, <1>4, <1>5, <1>6, <1>7, <1>8
  DEF PublisherStep, TakeOk, TakeOkWith, Bisect, TakeErr

\* Everything undecided fails at once.
LEMMA AbstractFailAll ==
    ASSUME IInv, Undecided # {}, UNCHANGED <<db, batch, put>>,
           \A p \in Publishers : Standing(p)' = IF p \in Undecided THEN "err" ELSE Standing(p)
    PROVE  Abstract!Next
<1>1. Undecided \in SUBSET Publishers
  BY UndecidedOK DEF IInv, TypeOK
<1>2. \A p \in Undecided : Standing(p) = "pending"
  BY <1>1, PendingOK DEF Undecided, Open
<1> QED
  BY <1>1, <1>2, Fails

LEMMA AbstractLeader ==
    ASSUME IInv, LeaderStep PROVE Abstract!Next \/ UNCHANGED Abstract!vars
<1> USE DEF IInv, TypeOK
<1>0. /\ Undecided \subseteq Publishers
      /\ \A p \in Undecided : outcome[p] = "none" /\ result[p] = "none" /\ batch[p] # {}
  BY UndecidedOK DEF Undecided, Placed, Place, Open
<1>1. ASSUME UNCHANGED <<db, batch, result, outcome, put>> PROVE UNCHANGED Abstract!vars
  BY <1>1, Stutters DEF Standing
<1>2. CASE TakeWriter
  BY <1>1, <1>2 DEF TakeWriter, publisherVars
<1>3. CASE WriterFail
  <2>1. CASE group = <<>>
    BY <1>1, <1>3, <2>1 DEF WriterFail, publisherVars
  <2>2. CASE group # <<>>
    <3>1. /\ outcome' = [p \in Publishers |-> IF p \in Undecided THEN "err" ELSE outcome[p]]
          /\ UNCHANGED <<db, batch, put, result>>
      BY <1>3, <2>2 DEF WriterFail, publisherVars
    <3>2. Undecided # {}
      BY <1>3, <2>2 DEF WriterFail, Staged
    <3> QED
      BY <1>0, <3>1, <3>2, AbstractFailAll DEF Standing
  <2> QED
    BY <2>1, <2>2
<1>4. CASE Collect
  <2>1. CASE stage = "collect"
    BY <1>1, <1>4, <2>1 DEF Collect, publisherVars
  <2>2. CASE stage = "broken"
    <3> DEFINE G == Elements(group')
    <3>1. PICK n \in 1..Len(waiting) : group' = SubSeq(waiting, 1, n)
      BY <1>4 DEF Collect
    <3>2. waiting \in Seq(Publishers) /\ Distinct(waiting)
      BY PlacedDistinct DEF LeaderOK
    <3>3. group' \in Seq(Publishers) /\ group' # <<>> /\ G \subseteq Elements(waiting)
      BY <3>1, <3>2, SplitElements
    <3>4. G \in SUBSET Publishers /\ G # {}
      BY <3>3, NonemptyElements, ElementsOK
    <3>5. \A p \in Publishers : outcome[p] = "none"
      BY <2>2, EmptyElements DEF Staged, Placed, Place
    <3>6. \A p \in G : Standing(p) = "pending"
      BY <3>3, <3>4, <3>5, PendingOK DEF Open
    <3>7. /\ outcome' = [p \in Publishers |-> IF p \in G THEN "err" ELSE outcome[p]]
          /\ UNCHANGED <<db, batch, put, result>>
      BY <1>4, <2>2 DEF Collect, publisherVars
    <3> HIDE DEF G
    <3>8. \A p \in Publishers : Standing(p)' = IF p \in G THEN "err" ELSE Standing(p)
      <4>1. ASSUME NEW p \in G PROVE Standing(p)' = "err"
        <5>1. batch[p] # {} /\ result[p] = "none" /\ p \in Publishers
          BY <3>3, <3>4, <4>1 DEF Placed, Place, Open
        <5> QED
          BY <3>7, <5>1 DEF Standing
      <4>2. ASSUME NEW p \in Publishers \ G PROVE Standing(p)' = Standing(p)
        BY <3>7, <4>2 DEF Standing
      <4> QED
        BY <4>1, <4>2
    <3> QED
      BY <3>4, <3>6, <3>7, <3>8, Fails
  <2> QED
    BY <1>4, <2>1, <2>2 DEF Collect
<1>5. ASSUME NEW p \in Publishers, Apply(p) PROVE UNCHANGED Abstract!vars
  <2>1. p \in Undecided
    BY <1>5 DEF Apply, IsNext
  <2>2. Standing(p) = "pending"
    BY <1>0, <2>1 DEF Standing
  <2>3. UNCHANGED <<db, batch, result, outcome>>
    BY <1>5 DEF Apply, publisherVars
  <2>4. \A q \in Publishers \ {p} : put'[q] = put[q]
    BY <1>5 DEF Apply, LeaderOK
  <2>5. \A q \in Publishers : Standing(q)' = Standing(q)
    BY <2>3 DEF Standing
  <2> QED
    BY <2>2, <2>3, <2>4, <2>5, Stutters
<1>6. ASSUME NEW p \in Publishers, Reject(p) PROVE Abstract!Next
  <2>1. p \in Undecided
    BY <1>6 DEF Reject, RejectWith, IsNext
  <2>2. Standing(p) = "pending"
    BY <1>0, <2>1 DEF Standing
  <2>3. /\ outcome' = [q \in Publishers |-> IF q \in {p} THEN "err" ELSE outcome[q]]
        /\ UNCHANGED <<db, batch, put, result>>
    BY <1>6 DEF Reject, RejectWith, publisherVars
  <2>4. \A q \in Publishers : Standing(q)' = IF q \in {p} THEN "err" ELSE Standing(q)
    BY <1>0, <2>1, <2>3 DEF Standing
  <2>5. {p} \in SUBSET Publishers /\ {p} # {}
    OBVIOUS
  <2> QED
    BY <2>2, <2>3, <2>4, <2>5, Fails
<1>7. CASE CommitTx
  <2>1. /\ stage = "apply" /\ Undecided \subseteq applied /\ db' = tx
        /\ outcome' = [p \in Publishers |-> IF p \in Undecided THEN "ok" ELSE outcome[p]]
        /\ UNCHANGED <<batch, put, result>>
    BY <1>7 DEF CommitTx, publisherVars
  <2>2. Undecided # {} /\ applied = Undecided
    BY <2>1 DEF Staged
  <2>3. \A p \in Undecided : Standing(p) = "pending"
    BY <1>0 DEF Standing
  <2>4. \A p \in Publishers : Standing(p)' = IF p \in Undecided THEN "ok" ELSE Standing(p)
    BY <1>0, <2>1 DEF Standing
  <2>5. /\ \A p \in Undecided : put[p] \subseteq batch[p]
        /\ \A f \in Files :
              \/ \E p \in Undecided : f \in put[p] /\ db'.bound[f] = Want[p][f]
              \/ (\A p \in Undecided : f \notin put[p]) /\ db'.bound[f] = db.bound[f]
    BY <2>1, <2>2 DEF Faithful, Writing
  <2>6. put \in [Publishers -> SUBSET Files]
    BY DEF LeaderOK
  <2> QED
    BY <1>0, <2>1, <2>2, <2>3, <2>4, <2>5, <2>6, Commits
<1>8. CASE CommitFail
  <2>1. /\ outcome' = [p \in Publishers |-> IF p \in Undecided THEN "err" ELSE outcome[p]]
        /\ UNCHANGED <<db, batch, put, result>>
    BY <1>8 DEF CommitFail, publisherVars
  <2>2. Undecided # {}
    BY <1>8 DEF CommitFail, Staged
  <2> QED
    BY <1>0, <2>1, <2>2, AbstractFailAll DEF Standing
<1>9. CASE StoreResults
  <2>1. /\ result' = [p \in Publishers |-> IF p \in Elements(group) THEN outcome[p] ELSE result[p]]
        /\ outcome' = [p \in Publishers |-> "none"]
        /\ UNCHANGED <<db, batch, put>>
    BY <1>9 DEF StoreResults, Disband, publisherVars
  <2>2. ASSUME NEW p \in Publishers PROVE Standing(p)' = Standing(p)
    <3>1. CASE p \in Elements(group)
      BY <2>1, <3>1 DEF Standing, Placed, Place, Open
    <3>2. CASE p \notin Elements(group)
      BY <2>1, <3>2 DEF Standing, Placed, Place
    <3> QED
      BY <3>1, <3>2
  <2> QED
    BY <2>1, <2>2, Stutters
<1>10. CASE Drop
  BY <1>1, <1>10 DEF Drop, DropWaking, publisherVars
<1>11. CASE Unwind
  <2>1. /\ result' = [p \in Publishers |-> IF p \in Elements(group) THEN "err" ELSE result[p]]
        /\ outcome' = [p \in Publishers |-> "none"]
        /\ stage = "apply"
        /\ UNCHANGED <<db, batch, put>>
    BY <1>11 DEF Unwind, UnwindTelling, Disband
  <2>2. Undecided # {} /\ \A p \in Publishers : outcome[p] # "ok"
    BY <2>1 DEF Staged
  <2>3. ASSUME NEW p \in Publishers
        PROVE  Standing(p)' = IF p \in Undecided THEN "err" ELSE Standing(p)
    <3>1. CASE p \in Elements(group)
      <4>1. batch[p] # {} /\ result[p] = "none" /\ outcome[p] \in {"none", "err"}
        BY <2>2, <3>1 DEF Placed, Place, Open, LeaderOK
      <4> QED
        BY <2>1, <3>1, <4>1 DEF Standing, Undecided
    <3>2. CASE p \notin Elements(group)
      BY <2>1, <3>2 DEF Standing, Undecided, Placed, Place
    <3> QED
      BY <3>1, <3>2
  <2> QED
    BY <2>1, <2>2, <2>3, AbstractFailAll
<1> QED
  BY <1>2, <1>3, <1>4, <1>5, <1>6, <1>7, <1>8, <1>9, <1>10, <1>11 DEF LeaderStep

LEMMA AbstractOthers == ASSUME IInv, OtherStep PROVE UNCHANGED Abstract!vars
<1>1. UNCHANGED <<batch, result, outcome, put>>
  BY DEF OtherStep, Change, CollectObject, Retire, leaderVars, publisherVars
<1>2. db'.bound = db.bound
  <2>1. db \in Databases
    BY DEF IInv, TypeOK, StoreOK
  <2> QED
    BY <2>1 DEF OtherStep, Change, CollectObject, Retire, Databases
<1> QED
  BY <1>1, <1>2, Stutters DEF Standing

LEMMA StepAbstract == IInv /\ [Next]_vars => [Abstract!Next]_(Abstract!vars)
<1> SUFFICES ASSUME IInv, [Next]_vars PROVE Abstract!Next \/ UNCHANGED Abstract!vars
  OBVIOUS
<1>1. CASE UNCHANGED vars
  BY <1>1, Stutters DEF vars, leaderVars, publisherVars, Standing
<1> QED
  BY <1>1, AbstractPublisher, AbstractLeader, AbstractOthers DEF Next

\* Group commit is atomic publication: batches of different publishers share a
\* transaction that may be aborted and replayed, yet each is bound as a whole
\* in one commit, or not at all, and its publisher is told which.
THEOREM Implements == Spec => Atomic
BY Invariant, InitAbstract, StepAbstract, PTL DEF Spec, Atomic, Abstract!Spec

-----------------------------------------------------------------------------
(* What a publisher is told.                                               *)
(*                                                                         *)
(* Two facts are added to the invariant.  Pieces: the files of a batch are *)
(* the answered ones, those of its request and those of the pieces it has  *)
(* still to publish, and no file is in two places, so none is lost or      *)
(* answered twice by bisection.  Value: what is bound to a file of one     *)
(* publisher is its object if its request succeeded, and what it expected  *)
(* otherwise.                                                              *)

Whole(s) == UNION Elements(s)
Apart(s) == \A i, j \in DOMAIN s : i # j => s[i] \cap s[j] = {}

\* What p has still to publish.
Left(p) == Whole(plan[p])

Pieces(p) ==
    /\ Apart(plan[p])
    /\ Left(p) \cap batch[p] = {}
    /\ Left(p) \cup batch[p] \subseteq Work[p]
    /\ \A f \in Left(p) \cup batch[p] : answer[p][f] = "none"
    /\ pc[p] = "prepare" => plan[p] = <<Head(plan[p])>>
    /\ pc[p] = "finished" => plan[p] = <<>>
    /\ pc[p] \notin {"prepare", "gone"} =>
          \A f \in Work[p] : answer[p][f] # "none" \/ f \in Left(p) \cup batch[p]

Sole(p, f) == \A q \in Publishers \ {p} : f \notin Work[q]
Unread(p, f) == pc[p] = "prepare" /\ f \notin Left(p) /\ answer[p][f] = "none"
Done(p, f) ==
    answer[p][f] = "bound" \/ (Standing(p) = "ok" /\ f \in batch[p] \cap put[p])

Value(p) ==
    \A f \in Work[p] : Sole(p, f) /\ pc[p] # "gone" /\ ~Unread(p, f) =>
        db.bound[f] = IF Done(p, f) THEN Want[p][f] ELSE expected[p][f]

Told == \A p \in Publishers : Pieces(p) /\ Value(p)
TInv == IInv /\ Told

-----------------------------------------------------------------------------
(* Pieces of a batch.                                                      *)

LEMMA FewPieces ==
    ASSUME NEW a
    PROVE  /\ Apart(<<>>) /\ Whole(<<>>) = {}
           /\ Apart(<<a>>) /\ Whole(<<a>>) = a
<1>1. Apart(<<>>) /\ Whole(<<>>) = {}
  BY DEF Apart, Whole, Elements
<1>2. DOMAIN <<a>> = {1} /\ <<a>>[1] = a
  OBVIOUS
<1>3. Elements(<<a>>) = {a}
  BY <1>2 DEF Elements
<1>4. Apart(<<a>>)
  BY <1>2 DEF Apart
<1> QED
  BY <1>1, <1>3, <1>4 DEF Whole

LEMMA TailPieces ==
    ASSUME NEW s \in Seq(SUBSET Files), s # <<>>, Apart(s)
    PROVE  /\ Apart(Tail(s)) /\ Tail(s) \in Seq(SUBSET Files)
           /\ Head(s) \subseteq Whole(s) /\ Head(s) \in SUBSET Files
           /\ Whole(Tail(s)) = Whole(s) \ Head(s)
<1> DEFINE t == Tail(s)
<1>1. /\ Len(s) \in Nat /\ DOMAIN s = 1..Len(s) /\ 1 \in DOMAIN s
      /\ Head(s) = s[1] /\ Head(s) \in SUBSET Files
  BY EmptySeq, LenProperties, HeadTailProperties
<1>2. /\ t \in Seq(SUBSET Files) /\ Len(t) = Len(s) - 1
      /\ \A i \in 1..Len(t) : t[i] = s[i + 1]
  BY HeadTailProperties
<1>3. DOMAIN t = 1..Len(t)
  BY <1>2, LenProperties
<1> HIDE DEF t
<1>4. ASSUME NEW i \in DOMAIN t
      PROVE  i \in Int /\ i + 1 \in DOMAIN s /\ i + 1 # 1 /\ t[i] = s[i + 1]
  BY <1>1, <1>2, <1>3
<1>5. ASSUME NEW i \in DOMAIN s, i # 1
      PROVE  \E j \in DOMAIN t : t[j] = s[i]
  <2>1. i - 1 \in DOMAIN t /\ (i - 1) + 1 = i
    BY <1>1, <1>2, <1>3, <1>5
  <2> QED
    BY <2>1, <1>4
<1>6. Apart(t)
  <2>1. ASSUME NEW i \in DOMAIN t, NEW j \in DOMAIN t, i # j PROVE t[i] \cap t[j] = {}
    <3>1. i + 1 # j + 1
      BY <1>4, <2>1
    <3> QED
      BY <1>4, <3>1 DEF Apart
  <2> QED
    BY <2>1 DEF Apart
<1>7. ASSUME NEW f \in Whole(t) PROVE f \in Whole(s) \ Head(s)
  <2>1. PICK i \in DOMAIN t : f \in t[i]
    BY <1>7 DEF Whole, Elements
  <2>2. i + 1 \in DOMAIN s /\ i + 1 # 1 /\ f \in s[i + 1]
    BY <1>4, <2>1
  <2>3. f \in Whole(s)
    BY <2>2 DEF Whole, Elements
  <2>4. f \notin s[1]
    BY <1>1, <2>2 DEF Apart
  <2> QED
    BY <1>1, <2>3, <2>4
<1>8. ASSUME NEW f \in Whole(s), f \notin Head(s) PROVE f \in Whole(t)
  <2>1. PICK i \in DOMAIN s : f \in s[i]
    BY <1>8 DEF Whole, Elements
  <2>2. i # 1
    BY <1>1, <1>8, <2>1
  <2>3. PICK j \in DOMAIN t : t[j] = s[i]
    BY <1>5, <2>2
  <2> QED
    BY <2>1, <2>3 DEF Whole, Elements
<1>9. Head(s) \subseteq Whole(s)
  BY <1>1 DEF Whole, Elements
<1> QED
  BY <1>1, <1>2, <1>6, <1>7, <1>8, <1>9 DEF t

LEMMA PushPiece ==
    ASSUME NEW s \in Seq(SUBSET Files), NEW a \in SUBSET Files,
           Apart(s), a \cap Whole(s) = {}
    PROVE  LET t == <<a>> \o s
           IN  /\ t \in Seq(SUBSET Files) /\ t # <<>> /\ Head(t) = a
               /\ Apart(t) /\ Whole(t) = a \cup Whole(s)
<1> DEFINE t == <<a>> \o s
<1>1. <<a>> \in Seq(SUBSET Files) /\ Len(<<a>>) = 1 /\ <<a>>[1] = a
  OBVIOUS
<1>2. Len(s) \in Nat /\ DOMAIN s = 1..Len(s)
  BY LenProperties
<1>3. /\ t \in Seq(SUBSET Files) /\ Len(t) = 1 + Len(s)
      /\ \A i \in 1..(1 + Len(s)) : t[i] = IF i <= 1 THEN <<a>>[i] ELSE s[i - 1]
  BY <1>1, ConcatProperties
<1>4. DOMAIN t = 1..(1 + Len(s))
  BY <1>3, LenProperties
<1> HIDE DEF t
<1>5. 1 \in DOMAIN t /\ t[1] = a
  BY <1>1, <1>2, <1>3, <1>4
<1>6. ASSUME NEW i \in DOMAIN t, i # 1 PROVE i - 1 \in DOMAIN s /\ i \in Int /\ t[i] = s[i - 1]
  <2>1. i \in Int /\ i > 1 /\ i - 1 \in 1..Len(s) /\ i \in 1..(1 + Len(s)) /\ ~(i <= 1)
    BY <1>2, <1>4, <1>6
  <2> QED
    BY <1>2, <1>3, <2>1
<1>7. ASSUME NEW i \in DOMAIN s PROVE i + 1 \in DOMAIN t /\ t[i + 1] = s[i]
  <2>1. i \in Int /\ i + 1 \in DOMAIN t /\ i + 1 # 1 /\ (i + 1) - 1 = i
    BY <1>2, <1>4
  <2> QED
    BY <1>6, <2>1
<1>8. \A i \in DOMAIN s : s[i] \subseteq Whole(s)
  BY DEF Whole, Elements
<1>9. ASSUME NEW i \in DOMAIN t, NEW j \in DOMAIN t, i # j PROVE t[i] \cap t[j] = {}
  <2>1. CASE i = 1
    BY <1>5, <1>6, <1>8, <1>9, <2>1
  <2>2. CASE j = 1
    BY <1>5, <1>6, <1>8, <1>9, <2>2
  <2>3. CASE i # 1 /\ j # 1
    <3>1. i - 1 # j - 1
      BY <1>6, <1>9, <2>3
    <3> QED
      BY <1>6, <2>3, <3>1 DEF Apart
  <2> QED
    BY <2>1, <2>2, <2>3
<1>10. ASSUME NEW f PROVE f \in Whole(t) <=> f \in a \cup Whole(s)
  <2>1. ASSUME f \in Whole(t) PROVE f \in a \cup Whole(s)
    <3>1. PICK i \in DOMAIN t : f \in t[i]
      BY <2>1 DEF Whole, Elements
    <3> QED
      BY <1>5, <1>6, <1>8, <3>1
  <2>2. ASSUME f \in a PROVE f \in Whole(t)
    BY <1>5, <2>2 DEF Whole, Elements
  <2>3. ASSUME f \in Whole(s) PROVE f \in Whole(t)
    <3>1. PICK i \in DOMAIN s : f \in s[i]
      BY <2>3 DEF Whole, Elements
    <3> QED
      BY <1>7, <3>1 DEF Whole, Elements
  <2> QED
    BY <2>1, <2>2, <2>3
<1>11. t # <<>> /\ Head(t) = a
  BY <1>3, <1>4, <1>5, EmptySeq, HeadTailProperties
<1>12. Apart(t)
  BY <1>9 DEF Apart
<1>13. Whole(t) = a \cup Whole(s)
  BY <1>10
<1> QED
  BY <1>3, <1>11, <1>12, <1>13 DEF t

LEMMA PushPieces ==
    ASSUME NEW s \in Seq(SUBSET Files), NEW a \in SUBSET Files, NEW b \in SUBSET Files,
           Apart(s), a \cap Whole(s) = {}, b \cap Whole(s) = {}, a \cap b = {}
    PROVE  LET t == <<a, b>> \o s
           IN  /\ t \in Seq(SUBSET Files) /\ t # <<>>
               /\ Apart(t) /\ Whole(t) = a \cup b \cup Whole(s)
<1> DEFINE u == <<b>> \o s
           t == <<a>> \o u
<1>1. u \in Seq(SUBSET Files) /\ Apart(u) /\ Whole(u) = b \cup Whole(s)
  BY PushPiece
<1> HIDE DEF u
<1>2. t \in Seq(SUBSET Files) /\ t # <<>> /\ Apart(t) /\ Whole(t) = a \cup Whole(u)
  BY <1>1, PushPiece
<1>3. <<a, b>> \o s = t
  <2> DEFINE x == <<a>>
             y == <<b>>
             z == <<a, b>>
  <2>1. /\ x \in Seq(SUBSET Files) /\ y \in Seq(SUBSET Files) /\ z \in Seq(SUBSET Files)
        /\ Len(x) = 1 /\ Len(y) = 1 /\ Len(z) = 2
        /\ x[1] = a /\ y[1] = b /\ z[1] = a /\ z[2] = b
    OBVIOUS
  <2> HIDE DEF x, y, z
  <2>2. /\ x \o y \in Seq(SUBSET Files) /\ Len(x \o y) = Len(x) + Len(y)
        /\ \A i \in 1..(Len(x) + Len(y)) :
              (x \o y)[i] = IF i <= Len(x) THEN x[i] ELSE y[i - Len(x)]
    <3>1. x \in Seq(SUBSET Files) /\ y \in Seq(SUBSET Files)
      BY <2>1
    <3> QED
      BY <3>1, ConcatProperties, Zenon
  <2>3. (x \o y)[1] = a /\ (x \o y)[2] = b /\ Len(x \o y) = 2
    <3>1. 1 \in 1..(1 + 1) /\ 2 \in 1..(1 + 1) /\ 1 <= 1 /\ ~(2 <= 1) /\ 2 - 1 = 1
      OBVIOUS
    <3> QED
      BY <2>1, <2>2, <3>1
  <2>4. \A i \in 1..2 : (x \o y)[i] = z[i]
    BY <2>1, <2>3
  <2>5. x \o y = z
    BY <2>1, <2>2, <2>3, <2>4, SeqEqual
  <2>6. (x \o y) \o s = x \o (y \o s)
    BY SMTT(20), <2>1, ConcatAssociative
  <2>7. z \o s = x \o (y \o s)
    BY <2>5, <2>6
  <2> QED
    BY <2>7 DEF u, x, y, z
<1>4. Whole(t) = a \cup b \cup Whole(s)
  BY <1>1, <1>2
<1> HIDE DEF t
<1> QED
  BY <1>2, <1>3, <1>4

-----------------------------------------------------------------------------
(* Publishers.                                                             *)

LEMMA StandingKept ==
    ASSUME NEW q \in Publishers,
           batch'[q] = batch[q], result'[q] = result[q], outcome'[q] = outcome[q]
    PROVE  Standing(q)' = Standing(q)
BY DEF Standing

\* A step that leaves a publisher alone, and its bindings.
LEMMA ToldAside ==
    ASSUME NEW q \in Publishers, Pieces(q), Value(q), db'.bound = db.bound,
           plan'[q] = plan[q], batch'[q] = batch[q], answer'[q] = answer[q],
           expected'[q] = expected[q], pc'[q] \in {pc[q], "gone"}, Standing(q)' = Standing(q),
           Standing(q) = "ok" => put'[q] = put[q]
    PROVE  Pieces(q)' /\ Value(q)'
<1>1. Left(q)' = Left(q)
  BY DEF Left
<1>2. Pieces(q)'
  BY <1>1 DEF Pieces
<1>3. ASSUME NEW f PROVE Done(q, f)' = Done(q, f) /\ (pc'[q] # "gone" => Unread(q, f)' = Unread(q, f))
  BY <1>1 DEF Done, Unread
<1>4. Value(q)'
  BY <1>3 DEF Value, Sole
<1> QED
  BY <1>2, <1>4

\* A step that has nothing to do with the batch of q.
Aside(q) ==
    /\ plan'[q] = plan[q] /\ batch'[q] = batch[q] /\ single'[q] = single[q]
    /\ answer'[q] = answer[q] /\ expected'[q] = expected[q]
    /\ pc'[q] = pc[q] /\ result'[q] = result[q] /\ put'[q] = put[q]

\* What a publisher does, it does to its own batch and to no other, and to
\* nothing of the leader's except that it may become one.
OwnStep(p) ==
    /\ UNCHANGED <<db, tx, group, outcome, applied, changed, faults>>
    /\ stage' = stage \/ (leader = NoOne /\ stage' = "writer")
    /\ \A q \in Publishers \ {p} : Aside(q)

LEMMA LeavesOthers ==
    ASSUME TypeOK, NEW p \in Publishers, PublisherStep(p) PROVE OwnStep(p)
<1> USE DEF TypeOK, Aside, OwnStep
<1>1. ASSUME NEW f \in Files, Prepare(p, f) PROVE OwnStep(p)
  BY <1>1 DEF Prepare, Proceed, leaderVars, otherVars, PublisherOK
<1>2. CASE Submit(p)
  BY <1>2 DEF Submit, Proceed, leaderVars, otherVars, PublisherOK
<1>3. CASE ReadFresh(p)
  BY <1>3 DEF ReadFresh, ReadFreshAs, Proceed, leaderVars, otherVars, PublisherOK
<1>4. CASE TakeOk(p)
  BY <1>4 DEF TakeOk, TakeOkWith, Returned, Proceed, otherVars, PublisherOK, LeaderOK
<1>5. CASE Bisect(p)
  BY <1>5 DEF Bisect, Returned, Proceed, otherVars, PublisherOK, LeaderOK
<1>6. CASE TakeErr(p)
  BY <1>6 DEF TakeErr, Returned, Proceed, otherVars, PublisherOK, LeaderOK
<1>7. CASE Sleep(p)
  BY <1>7 DEF Sleep, leaderVars, publisherVars, otherVars
<1>8. CASE Lead(p)
  BY <1>8 DEF Lead, publisherVars, otherVars
<1> QED
  BY <1>1, <1>2, <1>3, <1>4, <1>5, <1>6, <1>7, <1>8 DEF PublisherStep

\* The leader changes results, and no batch and nothing a publisher knows.
LEMMA LeaderLeaves ==
    ASSUME TypeOK, LeaderStep
    PROVE  /\ UNCHANGED <<batch, plan, single, answer, expected, encoded, changed>>
           /\ \A q \in Publishers : pc'[q] \in {pc[q], "gone"}
BY DEF LeaderStep, TakeWriter, WriterFail, Collect, Apply, Reject, RejectWith, CommitTx,
       CommitFail, StoreResults, Drop, DropWaking, Unwind, UnwindTelling, publisherVars,
       otherVars, TypeOK, PublisherOK

LEMMA ToldOthers ==
    ASSUME TInv, NEW p \in Publishers, PublisherStep(p), NEW q \in Publishers \ {p}
    PROVE  Pieces(q)' /\ Value(q)'
<1>1. Aside(q) /\ db' = db /\ outcome' = outcome
  BY LeavesOthers DEF TInv, IInv, OwnStep
<1>2. Standing(q)' = Standing(q)
  BY <1>1, StandingKept DEF Aside
<1> QED
  BY <1>1, <1>2, ToldAside DEF Told, TInv, Aside

LEMMA ToldPrepare ==
    ASSUME TInv, NEW p \in Publishers, NEW f \in Files, Prepare(p, f)
    PROVE  Pieces(p)' /\ Value(p)'
<1> USE DEF TInv, IInv, TypeOK
<1> DEFINE h == Head(plan[p])
           refused == db.phase[ScopeOf[p]] = "deleting"
           ready == IF refused THEN h ELSE h \cup {f}
           rest == IF ready = {} THEN <<>> ELSE <<ready>>
           finish == \A g \in Work[p] \ {f} : g \in ready \/ answer[p][g] # "none"
<1>1. /\ pc[p] = "prepare" /\ f \in Work[p] \ h /\ answer[p][f] = "none"
      /\ answer' = [answer EXCEPT ![p][f] = IF refused THEN "err" ELSE @]
      /\ IF finish THEN Proceed(p, rest)
         ELSE plan' = [plan EXCEPT ![p] = <<ready>>] /\ UNCHANGED pc
      /\ expected' = [expected EXCEPT ![p][f] = db.bound[f]]
      /\ UNCHANGED <<db, batch, result, outcome, put>>
  BY DEF Prepare, leaderVars
<1>2. Place(p) /\ batch[p] = {} /\ plan[p] # <<>> /\ batch'[p] = {}
  BY <1>1 DEF Placed, Place
<1>3. h \in SUBSET Files /\ Pieces(p) /\ Value(p)
  BY <1>2, HeadOK DEF Told
<1>4. plan[p] = <<h>> /\ Left(p) = h
  BY <1>1, <1>3, FewPieces DEF Pieces, Left
<1>5. h \subseteq Work[p] /\ \A g \in h : answer[p][g] = "none"
  BY <1>3, <1>4 DEF Pieces
<1>6. /\ answer'[p][f] = IF refused THEN "err" ELSE "none"
      /\ expected'[p][f] = db.bound[f]
      /\ \A g \in Files \ {f} : answer'[p][g] = answer[p][g] /\ expected'[p][g] = expected[p][g]
  BY <1>1 DEF PublisherOK
<1>7. /\ ready \subseteq Work[p] /\ ready \in SUBSET Files
      /\ \A g \in ready : answer'[p][g] = "none"
  BY <1>1, <1>3, <1>5, <1>6
<1>8. rest \in Seq(SUBSET Files) /\ <<ready>> \in Seq(SUBSET Files)
  BY <1>7, SingletonOK
<1>r. /\ ~refused => f \in ready
      /\ \A g \in ready \ {f} : g \in h
      /\ h \subseteq ready
  OBVIOUS
<1> HIDE DEF ready, rest, finish
<1>9. /\ plan'[p] \in {<<ready>>, <<>>}
      /\ plan'[p] = <<>> => ready = {}
      /\ pc'[p] \in {"prepare", "ready", "finished"}
      /\ pc'[p] = "finished" <=> plan'[p] = <<>>
      /\ pc'[p] # "prepare" <=> finish
  <2>0. <<ready>> # <<>>
    BY <1>7, SingletonOK
  <2>1. CASE finish
    <3>1. plan'[p] = rest /\ pc'[p] = IF rest = <<>> THEN "finished" ELSE "ready"
      BY <1>1, <1>8, <2>1, ProceedOK
    <3>2. rest \in {<<ready>>, <<>>} /\ (rest = <<>> => ready = {})
      BY <2>0 DEF rest
    <3> QED
      BY <2>1, <3>1, <3>2
  <2>2. CASE ~finish
    <3>1. plan'[p] = <<ready>> /\ pc'[p] = "prepare"
      BY <1>1, <2>2 DEF PublisherOK
    <3> QED
      BY <2>0, <2>2, <3>1
  <2> QED
    BY <2>1, <2>2
<1>10. Apart(plan[p])' /\ Left(p)' = ready
  <2>1. CASE plan'[p] = <<ready>>
    <3>1. Apart(<<ready>>) /\ Whole(<<ready>>) = ready
      BY FewPieces
    <3> QED
      BY <2>1, <3>1 DEF Left, Apart
  <2>2. CASE plan'[p] = <<>>
    <3>1. Apart(<<>>) /\ Whole(<<>>) = {} /\ ready = {}
      BY <1>9, <2>2, FewPieces
    <3> QED
      BY <2>2, <3>1 DEF Left, Apart
  <2> QED
    BY <1>9, <2>1, <2>2
<1>11. pc'[p] = "prepare" => plan'[p] = <<Head(plan'[p])>>
  <2>1. Head(<<ready>>) = ready
    OBVIOUS
  <2> QED
    BY <1>9, <2>1
<1>12. pc'[p] # "prepare" =>
         \A g \in Work[p] : answer'[p][g] # "none" \/ g \in ready
  <2>1. \A g \in Work[p] : g \in Files
    BY WorkAssumption
  <2> QED
    BY <1>6, <1>9, <1>r, <2>1 DEF finish
<1>13. Pieces(p)'
  BY <1>2, <1>7, <1>9, <1>10, <1>11, <1>12 DEF Pieces
<1>14. ASSUME NEW g \in Work[p], Sole(p, g), ~Unread(p, g)'
       PROVE  db.bound[g] = IF Done(p, g)' THEN Want[p][g] ELSE expected'[p][g]
  <2>1. Done(p, g)' <=> answer'[p][g] = "bound"
    BY <1>2 DEF Done
  <2>2. CASE g = f
    BY <1>6, <2>1, <2>2
  <2>3. CASE g # f
    <3>1. g \in Files /\ answer'[p][g] = answer[p][g] /\ expected'[p][g] = expected[p][g]
      BY <1>6, <2>3, WorkAssumption
    <3>2. ~Unread(p, g)
      <4>1. CASE pc'[p] = "prepare"
        BY <1>4, <1>10, <1>14, <1>r, <2>3, <3>1, <4>1 DEF Unread
      <4>2. CASE pc'[p] # "prepare"
        BY <1>4, <1>9, <1>r, <2>3, <4>2 DEF Unread, finish
      <4> QED
        BY <4>1, <4>2
    <3>3. Done(p, g) <=> answer[p][g] = "bound"
      BY <1>2 DEF Done
    <3> QED
      BY <1>1, <1>3, <1>14, <2>1, <3>1, <3>2, <3>3 DEF Value
  <2> QED
    BY <2>2, <2>3
<1>15. Value(p)'
  BY <1>1, <1>14 DEF Value, Sole
<1> QED
  BY <1>13, <1>15

\* The value of its files, for a publisher that has prepared them all.
LEMMA ValueStep ==
    ASSUME NEW p \in Publishers, Value(p), pc[p] \notin {"prepare", "gone"}, db' = db,
           expected'[p] = expected[p], pc'[p] # "prepare",
           \A f \in Work[p] : Done(p, f)' = Done(p, f)
    PROVE  Value(p)'
BY DEF Value, Unread, Sole

LEMMA ToldSubmit ==
    ASSUME TInv, NEW p \in Publishers, Submit(p) PROVE Pieces(p)' /\ Value(p)'
<1> USE DEF TInv, IInv, TypeOK
<1> DEFINE h == Head(plan[p])
           t == Tail(plan[p])
<1>1. /\ pc[p] = "ready" /\ Pieces(p) /\ Value(p) /\ Place(p)
      /\ UNCHANGED <<db, result, outcome, put, expected>>
      /\ answer'[p] = [f \in Files |-> IF f \in h \cap changed[p] THEN "err" ELSE answer[p][f]]
  BY DEF Submit, leaderVars, Told, Placed, PublisherOK
<1>2. batch[p] = {} /\ plan[p] # <<>> /\ result[p] = "none" /\ outcome[p] = "none"
  BY <1>1 DEF Place, Open
<1>3. /\ Apart(t) /\ t \in Seq(SUBSET Files) /\ h \in SUBSET Files
      /\ h \subseteq Left(p) /\ Whole(t) = Left(p) \ h
  BY <1>1, <1>2, TailPieces DEF Pieces, Left, PublisherOK
<1>4. /\ Left(p) \subseteq Work[p] /\ Work[p] \subseteq Files
      /\ \A f \in Left(p) : answer[p][f] = "none"
      /\ \A f \in Work[p] : answer[p][f] # "none" \/ f \in Left(p)
  BY <1>1, <1>2, WorkAssumption DEF Pieces
<1> HIDE DEF h, t
<1>5. /\ \A f \in h \cap changed[p] : answer'[p][f] = "err"
      /\ \A f \in Work[p] \ (h \cap changed[p]) : answer'[p][f] = answer[p][f]
      /\ \A f \in Work[p] : answer'[p][f] = "bound" <=> answer[p][f] = "bound"
  BY <1>1, <1>3, <1>4
<1>6. CASE h \subseteq changed[p]
  <2>1. Proceed(p, t) /\ UNCHANGED batch
    BY <1>6 DEF Submit, h, t
  <2>2. /\ plan'[p] = t /\ batch'[p] = {}
        /\ pc'[p] = IF t = <<>> THEN "finished" ELSE "ready"
    BY <1>2, <1>3, <2>1, ProceedOK
  <2>3. Left(p)' = Left(p) \ h
    BY <1>3, <2>2 DEF Left
  <2>4. Apart(plan[p])'
    BY <1>3, <2>2 DEF Apart
  <2>5. Pieces(p)'
    BY <1>3, <1>4, <1>5, <1>6, <2>2, <2>3, <2>4 DEF Pieces
  <2>6. \A f \in Work[p] : Done(p, f)' = Done(p, f)
    BY <1>2, <1>5, <2>2 DEF Done
  <2>7. Value(p)'
    BY <1>1, <2>2, <2>6, ValueStep
  <2> QED
    BY <2>5, <2>7
<1>7. CASE ~(h \subseteq changed[p])
  <2>1. /\ batch' = [batch EXCEPT ![p] = h \ changed[p]]
        /\ plan' = [plan EXCEPT ![p] = Tail(@)]
        /\ pc' = [pc EXCEPT ![p] = "queued"]
    BY <1>7 DEF Submit, h, t
  <2>2. batch'[p] = h \ changed[p] /\ plan'[p] = t /\ pc'[p] = "queued"
    BY <2>1 DEF PublisherOK, t
  <2>3. Left(p)' = Left(p) \ h
    BY <1>3, <2>2 DEF Left
  <2>4. Apart(plan[p])'
    BY <1>3, <2>2 DEF Apart
  <2>5. Pieces(p)'
    BY <1>3, <1>4, <1>5, <1>7, <2>2, <2>3, <2>4 DEF Pieces
  <2>6. Standing(p)' = "pending"
    BY <1>1, <1>2, <1>7, <2>2 DEF Standing
  <2>7. \A f \in Work[p] : Done(p, f)' = Done(p, f)
    BY <1>2, <1>5, <2>2, <2>6 DEF Done
  <2>8. Value(p)'
    BY <1>1, <2>2, <2>7, ValueStep
  <2> QED
    BY <2>5, <2>8
<1> QED
  BY <1>6, <1>7

LEMMA ToldReadFresh ==
    ASSUME TInv, NEW p \in Publishers, ReadFresh(p) PROVE Pieces(p)' /\ Value(p)'
<1> USE DEF TInv, IInv, TypeOK
<1>0. PICK f \in Files : ReadFreshAs(p, f, db.bound[f])
  BY DEF ReadFresh
<1> DEFINE t == Tail(plan[p])
<1>1. /\ pc[p] = "retry" /\ Head(plan[p]) = {f} /\ Pieces(p) /\ Value(p) /\ Place(p)
      /\ UNCHANGED <<db, result, outcome, put, batch>>
  BY <1>0 DEF ReadFreshAs, leaderVars, Told, Placed, PublisherOK
<1>2. batch[p] = {} /\ plan[p] # <<>> /\ batch'[p] = {}
  BY <1>1 DEF Place
<1>3. /\ Apart(t) /\ t \in Seq(SUBSET Files) /\ f \in Left(p)
      /\ Whole(t) = Left(p) \ {f}
  BY <1>1, <1>2, TailPieces DEF Pieces, Left, PublisherOK
<1>4. /\ Left(p) \subseteq Work[p] /\ Work[p] \subseteq Files
      /\ \A g \in Left(p) : answer[p][g] = "none"
      /\ \A g \in Work[p] : answer[p][g] # "none" \/ g \in Left(p)
  BY <1>1, <1>2, WorkAssumption DEF Pieces
<1> HIDE DEF t
<1>5. CASE f \in changed[p]
  <2>1. /\ answer' = [answer EXCEPT ![p][f] = "err"]
        /\ Proceed(p, t) /\ expected' = expected
    BY <1>0, <1>5 DEF ReadFreshAs, t
  <2>2. plan'[p] = t /\ pc'[p] = IF t = <<>> THEN "finished" ELSE "ready"
    BY <1>3, <2>1, ProceedOK
  <2>3. /\ answer'[p][f] = "err"
        /\ \A g \in Work[p] \ {f} : answer'[p][g] = answer[p][g]
    BY <1>4, <2>1 DEF PublisherOK
  <2>4. Left(p)' = Left(p) \ {f}
    BY <1>3, <2>2 DEF Left
  <2>5. Apart(plan[p])'
    BY <1>3, <2>2 DEF Apart
  <2>6. Pieces(p)'
    BY <1>2, <1>3, <1>4, <2>2, <2>3, <2>4, <2>5 DEF Pieces
  <2>7. \A g \in Work[p] : Done(p, g)' = Done(p, g)
    BY <1>2, <1>3, <1>4, <2>3 DEF Done
  <2>8. Value(p)'
    BY <1>1, <2>1, <2>2, <2>7, ValueStep
  <2> QED
    BY <2>6, <2>8
<1>6. CASE f \notin changed[p]
  <2>1. /\ expected' = [expected EXCEPT ![p][f] = db.bound[f]]
        /\ pc' = [pc EXCEPT ![p] = "ready"] /\ UNCHANGED <<plan, answer>>
    BY <1>0, <1>6 DEF ReadFreshAs
  <2>2. /\ pc'[p] = "ready" /\ expected'[p][f] = db.bound[f]
        /\ \A g \in Work[p] \ {f} : expected'[p][g] = expected[p][g]
    BY <1>4, <2>1 DEF PublisherOK
  <2>3. Left(p)' = Left(p)
    BY <2>1 DEF Left
  <2>4. Pieces(p)'
    BY <1>1, <1>2, <2>1, <2>2, <2>3 DEF Pieces
  <2>5. \A g \in Work[p] : Done(p, g)' = Done(p, g)
    BY <1>2, <2>1 DEF Done
  <2>6. ~Done(p, f)
    BY <1>2, <1>3, <1>4 DEF Done
  <2>7. ASSUME NEW g \in Work[p], Sole(p, g)
        PROVE  db.bound[g] = IF Done(p, g)' THEN Want[p][g] ELSE expected'[p][g]
    <3>1. CASE g = f
      BY <2>2, <2>5, <2>6, <3>1
    <3>2. CASE g # f
      BY <1>1, <2>2, <2>5, <2>7, <3>2 DEF Value, Unread
    <3> QED
      BY <3>1, <3>2
  <2>8. Value(p)'
    BY <1>1, <2>7 DEF Value, Sole
  <2> QED
    BY <2>4, <2>8
<1> QED
  BY <1>5, <1>6

\* What is known when a publisher takes its result back.
LEMMA BackAgain ==
    ASSUME TInv, NEW p \in Publishers, Returned(p)
    PROVE  /\ pc[p] = "queued" /\ Pieces(p) /\ Value(p)
           /\ batch[p] # {} /\ Standing(p) = result[p] /\ batch'[p] = {}
           /\ db' = db /\ expected' = expected
           /\ plan[p] \in Seq(SUBSET Files) /\ batch[p] \in SUBSET Files
           /\ Work[p] \subseteq Files /\ Left(p) \cup batch[p] \subseteq Work[p]
           /\ \A f \in Left(p) \cup batch[p] : answer[p][f] = "none"
           /\ \A f \in Work[p] : answer[p][f] # "none" \/ f \in Left(p) \cup batch[p]
<1> USE DEF TInv, IInv, TypeOK
<1>1. /\ pc[p] = "queued" /\ result[p] # "none" /\ Pieces(p) /\ Value(p) /\ Place(p)
      /\ batch' = [batch EXCEPT ![p] = {}] /\ UNCHANGED <<db, expected>>
  BY DEF Returned, Told, Placed
<1>2. batch[p] # {} /\ Standing(p) = result[p] /\ batch'[p] = {}
  BY <1>1 DEF Place, Standing, PublisherOK
<1>3. plan[p] \in Seq(SUBSET Files) /\ batch[p] \in SUBSET Files /\ Work[p] \subseteq Files
  BY WorkAssumption DEF PublisherOK
<1> QED
  BY <1>1, <1>2, <1>3 DEF Pieces

LEMMA ToldTakeOk ==
    ASSUME TInv, NEW p \in Publishers, TakeOk(p) PROVE Pieces(p)' /\ Value(p)'
<1> USE DEF TInv, IInv, TypeOK
<1>1. Returned(p) /\ result[p] = "ok" /\ Proceed(p, plan[p])
  BY DEF TakeOk, TakeOkWith
<1>2. answer'[p] = [f \in Files |->
         IF f \notin batch[p] THEN answer[p][f]
         ELSE IF f \in put[p] THEN "bound" ELSE "missing"]
  BY DEF TakeOk, TakeOkWith, PublisherOK
<1>3. plan'[p] = plan[p] /\ pc'[p] = IF plan[p] = <<>> THEN "finished" ELSE "ready"
  BY <1>1, BackAgain, ProceedOK
<1>4. Left(p)' = Left(p) /\ Apart(plan[p])'
  BY <1>1, <1>3, BackAgain DEF Left, Pieces, Apart
<1>5. Pieces(p)'
  BY <1>1, <1>2, <1>3, <1>4, BackAgain DEF Pieces
<1>6. ASSUME NEW f \in Work[p] PROVE Done(p, f)' = Done(p, f)
  <2>1. f \in Files /\ Done(p, f)' <=> answer'[p][f] = "bound"
    BY <1>1, BackAgain DEF Done
  <2>2. CASE f \in batch[p]
    <3>1. Done(p, f) <=> f \in put[p]
      BY <1>1, <2>2, BackAgain DEF Done
    <3>2. answer'[p][f] = "bound" <=> f \in put[p]
      BY <1>1, <1>2, <2>2, BackAgain
    <3> QED
      BY <1>1, <3>1, <3>2, BackAgain DEF Done
  <2>3. CASE f \notin batch[p]
    BY <1>1, <1>2, <2>3, BackAgain DEF Done
  <2> QED
    BY <2>2, <2>3
<1>7. Value(p)'
  BY <1>1, <1>3, <1>6, BackAgain, ValueStep
<1> QED
  BY <1>5, <1>7

LEMMA ToldTakeErr ==
    ASSUME TInv, NEW p \in Publishers, Bisect(p) \/ TakeErr(p) PROVE Pieces(p)' /\ Value(p)'
<1> USE DEF TInv, IInv, TypeOK
<1>0. Returned(p) /\ result[p] = "err"
  BY DEF Bisect, TakeErr
<1>1. Apart(plan[p]) /\ batch[p] \cap Whole(plan[p]) = {}
  BY <1>0, BackAgain DEF Pieces, Left
<1>2. ASSUME pc'[p] \in {"ready", "retry", "finished"}, pc'[p] = "finished" => plan'[p] = <<>>,
             \A f \in Work[p] : answer'[p][f] = answer[p][f] \/ (f \in batch[p] /\ answer'[p][f] = "err"),
             Apart(plan[p]'), Whole(plan[p]') = Left(p) \cup {f \in batch[p] : answer'[p][f] = "none"}
      PROVE  Pieces(p)' /\ Value(p)'
  <2>1. Left(p)' = Left(p) \cup {f \in batch[p] : answer'[p][f] = "none"} /\ Apart(plan[p])'
    BY <1>2 DEF Left, Apart
  <2>2. /\ batch'[p] = {}
        /\ Left(p) \cup batch[p] \subseteq Work[p] /\ Left(p) \cap batch[p] = {}
        /\ \A f \in Left(p) \cup batch[p] : answer[p][f] = "none"
        /\ \A f \in Work[p] : answer[p][f] # "none" \/ f \in Left(p) \cup batch[p]
    BY <1>0, BackAgain DEF Pieces
  <2>3. Pieces(p)'
    BY <1>2, <2>1, <2>2 DEF Pieces
  <2>4. \A f \in Work[p] : Done(p, f)' = Done(p, f)
    BY <1>0, <1>2, <2>2, BackAgain DEF Done
  <2>5. Value(p)'
    BY <1>0, <1>2, <2>4, BackAgain, ValueStep
  <2> QED
    BY <2>3, <2>5
<1>3. CASE Bisect(p)
  <2>1. PICK left \in SUBSET batch[p] : Proceed(p, <<left, batch[p] \ left>> \o plan[p])
    BY <1>3 DEF Bisect
  <2> DEFINE t == <<left, batch[p] \ left>> \o plan[p]
  <2>2. left \in SUBSET Files /\ batch[p] \ left \in SUBSET Files
    BY <1>0, BackAgain
  <2>3. /\ t \in Seq(SUBSET Files) /\ t # <<>> /\ Apart(t)
        /\ Whole(t) = left \cup (batch[p] \ left) \cup Whole(plan[p])
    BY <1>0, <1>1, <2>2, PushPieces, BackAgain
  <2>4. UNCHANGED answer
    BY <1>3 DEF Bisect
  <2> HIDE DEF t
  <2>5. plan'[p] = t /\ pc'[p] = "ready"
    BY <2>1, <2>3, ProceedOK DEF t
  <2>6. \A f \in batch[p] : answer[p][f] = "none"
    BY <1>0, BackAgain
  <2>7. Whole(t) = Left(p) \cup {f \in batch[p] : answer[p][f] = "none"}
    BY <2>3, <2>6 DEF Left
  <2> QED
    BY <1>2, <2>3, <2>4, <2>5, <2>7
<1>4. CASE TakeErr(p) /\ single[p]
  <2>1. /\ answer' = [answer EXCEPT ![p] = [f \in Files |->
                         IF f \in batch[p] THEN "err" ELSE @[f]]]
        /\ Proceed(p, plan[p])
    BY <1>4 DEF TakeErr
  <2>2. plan'[p] = plan[p] /\ pc'[p] = IF plan[p] = <<>> THEN "finished" ELSE "ready"
    BY <1>0, <2>1, BackAgain, ProceedOK
  <2>3. answer'[p] = [f \in Files |-> IF f \in batch[p] THEN "err" ELSE answer[p][f]]
    BY <2>1 DEF PublisherOK
  <2>4. /\ \A f \in batch[p] : answer'[p][f] = "err"
        /\ \A f \in Work[p] \ batch[p] : answer'[p][f] = answer[p][f]
    BY <1>0, <2>3, BackAgain
  <2>5. Whole(plan'[p]) = Left(p) \cup {f \in batch[p] : answer'[p][f] = "none"}
    BY <2>2, <2>4 DEF Left
  <2> QED
    BY <1>1, <1>2, <2>2, <2>4, <2>5
<1>5. CASE TakeErr(p) /\ ~single[p]
  <2> DEFINE t == <<batch[p]>> \o plan[p]
  <2>1. /\ plan' = [plan EXCEPT ![p] = <<batch[p]>> \o @]
        /\ pc' = [pc EXCEPT ![p] = "retry"] /\ UNCHANGED answer
    BY <1>5 DEF TakeErr
  <2>2. plan'[p] = t /\ pc'[p] = "retry"
    BY <2>1 DEF PublisherOK
  <2>3. Apart(t) /\ Whole(t) = batch[p] \cup Whole(plan[p])
    BY <1>0, <1>1, PushPiece, BackAgain
  <2> HIDE DEF t
  <2>4. \A f \in batch[p] : answer[p][f] = "none"
    BY <1>0, BackAgain
  <2>5. Whole(t) = Left(p) \cup {f \in batch[p] : answer[p][f] = "none"}
    BY <2>3, <2>4 DEF Left
  <2> QED
    BY <1>2, <2>1, <2>2, <2>3, <2>5
<1> QED
  BY <1>3, <1>4, <1>5

LEMMA ToldPublisher == ASSUME TInv, NEW p \in Publishers, PublisherStep(p) PROVE Told'
<1>1. ASSUME UNCHANGED <<db, plan, batch, answer, expected, pc, put, result, outcome>>
      PROVE  Pieces(p)' /\ Value(p)'
  BY <1>1, ToldAside, StandingKept DEF TInv, Told
<1>2. ASSUME Sleep(p) \/ Lead(p) PROVE Pieces(p)' /\ Value(p)'
  BY <1>1, <1>2 DEF Sleep, Lead, leaderVars, publisherVars
<1>3. Pieces(p)' /\ Value(p)'
  BY <1>2, ToldPrepare, ToldSubmit, ToldReadFresh, ToldTakeOk, ToldTakeErr DEF PublisherStep
<1> QED
  BY <1>3, ToldOthers DEF Told

-----------------------------------------------------------------------------
(* The leader and the others.                                              *)

\* What the leader does of a batch is a step of AtomicPublish.
LEMMA ToldLeader == ASSUME TInv, LeaderStep PROVE Told'
<1> USE DEF TInv, IInv, TypeOK
<1>1. /\ UNCHANGED <<batch, plan, answer, expected>>
      /\ \A q \in Publishers : pc'[q] \in {pc[q], "gone"}
  BY LeaderLeaves
<1>2. ASSUME NEW q \in Publishers,
             \A f \in Work[q] : Sole(q, f) =>
                \/ Done(q, f)' /\ db'.bound[f] = Want[q][f]
                \/ (Done(q, f)' <=> Done(q, f)) /\ db'.bound[f] = db.bound[f]
      PROVE  Pieces(q)' /\ Value(q)'
  <2>1. Left(q)' = Left(q)
    BY <1>1 DEF Left
  <2>2. Pieces(q)'
    BY <1>1, <2>1 DEF Pieces, Told
  <2>3. pc'[q] # "gone" => \A f \in Work[q] : Unread(q, f)' <=> Unread(q, f)
    BY <1>1, <2>1 DEF Unread
  <2>4. Value(q)'
    BY <1>1, <1>2, <2>3 DEF Value, Told, Sole
  <2> QED
    BY <2>2, <2>4
<1>3. CASE UNCHANGED Abstract!vars
  <2>1. ASSUME NEW q \in Publishers
        PROVE  /\ Standing(q)' = Standing(q) /\ db'.bound = db.bound
               /\ Standing(q) = "ok" => put'[q] = put[q]
    BY <1>3 DEF Abstract!vars
  <2> QED
    BY <1>1, <1>2, <2>1 DEF Told, Done
<1>4. ASSUME NEW q \in Publishers, Abstract!Submit(q) \/ Abstract!Answer(q) PROVE FALSE
  <2>1. batch[q] = {} <=> Standing(q) = "idle"
    BY DEF Standing, LeaderOK
  <2>2. CASE Abstract!Submit(q)
    BY <1>1, <2>1, <2>2 DEF Abstract!Submit, PublisherOK
  <2>3. CASE Abstract!Answer(q)
    BY <1>1, <2>1, <2>3 DEF Abstract!Answer, PublisherOK
  <2> QED
    BY <1>4, <2>2, <2>3
<1>5. ASSUME NEW G \in SUBSET Publishers, Abstract!Fail(G) PROVE Told'
  <2>1. /\ \A q \in G : Standing(q) = "pending"
        /\ \A q \in Publishers : Standing(q)' = IF q \in G THEN "err" ELSE Standing(q)
        /\ \A q \in Publishers :
              (IF Standing(q)' = "ok" THEN put'[q] ELSE {})
                = (IF Standing(q) = "ok" THEN put[q] ELSE {})
        /\ db'.bound = db.bound
    BY <1>5 DEF Abstract!Fail
  <2> QED
    BY <1>1, <1>2, <2>1 DEF Told, Done
<1>6. ASSUME NEW G \in SUBSET Publishers, Abstract!Commit(G) PROVE Told'
  <2> DEFINE P == [p \in Publishers |-> IF Standing(p) = "ok" THEN put[p] ELSE {}]
  <2>1. /\ \A q \in G : Standing(q) = "pending"
        /\ \A q \in Publishers : Standing(q)' = IF q \in G THEN "ok" ELSE Standing(q)
        /\ \A q \in Publishers : IF q \in G THEN P'[q] \subseteq batch[q] ELSE P'[q] = P[q]
        /\ \A f \in Files :
              \/ \E p \in G : f \in P'[p] /\ db'.bound[f] = Want[p][f]
              \/ (\A p \in G : f \notin P'[p]) /\ db'.bound[f] = db.bound[f]
    BY <1>6 DEF Abstract!Commit
  <2>2. \A q \in G : P'[q] = put'[q]
    BY <2>1
  <2>3. \A q \in Publishers \ G : Standing(q) = "ok" => put'[q] = put[q]
    BY <2>1
  <2>4. \A q \in Publishers : batch[q] \subseteq Work[q] /\ Work[q] \subseteq Files
    BY WorkAssumption DEF Told, Pieces
  <2> HIDE DEF P
  <2>5. ASSUME NEW q \in Publishers, NEW f \in Work[q], Sole(q, f)
        PROVE  \/ Done(q, f)' /\ db'.bound[f] = Want[q][f]
               \/ (Done(q, f)' <=> Done(q, f)) /\ db'.bound[f] = db.bound[f]
    <3>1. \A p \in G : f \in P'[p] => p = q
      BY <2>1, <2>4, <2>5 DEF Sole
    <3>2. CASE q \in G /\ f \in put'[q]
      <4>1. db'.bound[f] = Want[q][f]
        BY <2>1, <2>2, <2>4, <3>1, <3>2
      <4>2. Done(q, f)'
        BY <1>1, <2>1, <2>2, <3>2 DEF Done
      <4> QED
        BY <4>1, <4>2
    <3>3. CASE q \in G /\ f \notin put'[q]
      <4>1. db'.bound[f] = db.bound[f]
        BY <2>1, <2>2, <2>4, <3>1, <3>3
      <4>2. Done(q, f)' <=> Done(q, f)
        BY <1>1, <2>1, <3>3 DEF Done
      <4> QED
        BY <4>1, <4>2
    <3>4. CASE q \notin G
      <4>1. db'.bound[f] = db.bound[f]
        BY <2>1, <2>4, <3>1, <3>4
      <4>2. Done(q, f)' <=> Done(q, f)
        BY <1>1, <2>1, <2>3, <3>4 DEF Done
      <4> QED
        BY <4>1, <4>2
    <3> QED
      BY <3>2, <3>3, <3>4
  <2> QED
    BY <1>2, <2>5 DEF Told
<1> QED
  BY <1>3, <1>4, <1>5, <1>6, AbstractLeader DEF Abstract!Next

LEMMA StepTold == TInv /\ [Next]_vars => TInv'
<1> SUFFICES ASSUME TInv, [Next]_vars PROVE TInv'
  OBVIOUS
<1>1. IInv'
  BY StepInvariant DEF TInv
<1>2. CASE OtherStep
  <2>1. /\ UNCHANGED <<batch, plan, answer, expected, pc, put, result, outcome>>
        /\ db'.bound = db.bound
    <3>1. db \in Databases
      BY DEF TInv, IInv, TypeOK, StoreOK
    <3> QED
      BY <1>2, <3>1 DEF OtherStep, Change, CollectObject, Retire, leaderVars, publisherVars,
                        Databases
  <2>2. Told'
    BY <2>1, ToldAside, StandingKept DEF TInv, Told
  <2> QED
    BY <1>1, <2>2 DEF TInv
<1>3. CASE UNCHANGED vars
  <2>1. Told'
    BY <1>3, ToldAside, StandingKept DEF TInv, Told, vars, leaderVars, publisherVars
  <2> QED
    BY <1>1, <2>1 DEF TInv
<1> QED
  BY <1>1, <1>2, <1>3, ToldPublisher, ToldLeader DEF Next, TInv

LEMMA InitTold == Init => TInv
<1> SUFFICES ASSUME Init PROVE Told
  BY InitInvariant DEF TInv
<1>1. ASSUME NEW p \in Publishers PROVE Pieces(p) /\ Value(p)
  <2>1. plan[p] = <<{}>> /\ batch[p] = {} /\ pc[p] = "prepare"
        /\ \A f \in Work[p] : answer[p][f] = "none"
    BY WorkAssumption DEF Init
  <2>2. Apart(plan[p]) /\ Left(p) = {}
    BY <2>1, FewPieces DEF Left, Apart
  <2>3. plan[p] = <<Head(plan[p])>>
    BY <2>1
  <2>4. Pieces(p)
    BY <2>1, <2>2, <2>3 DEF Pieces
  <2>5. Value(p)
    BY <2>1, <2>2 DEF Value, Unread
  <2> QED
    BY <2>4, <2>5
<1> QED
  BY <1>1 DEF Told

\* Every publisher that is done knows of each file what became of it, and of
\* a file only it publishes that is what the database holds: bisection, aborted
\* groups and the fresh retry lose no file and tell no lie (publication.rs).
THEOREM Answers == Spec => []AnswersTrue
<1>1. TInv => AnswersTrue
  <2> SUFFICES ASSUME TInv, NEW p \in Publishers, pc[p] = "finished", NEW f \in Work[p]
               PROVE  /\ answer[p][f] # "none"
                      /\ Sole(p, f) => db.bound[f] =
                            IF answer[p][f] = "bound" THEN Want[p][f] ELSE expected[p][f]
    BY DEF AnswersTrue, Sole
  <2>1. plan[p] = <<>> /\ batch[p] = {}
    BY DEF TInv, Told, Pieces, IInv, Placed, Place
  <2>2. Left(p) = {}
    BY <2>1, FewPieces DEF Left
  <2>3. answer[p][f] # "none"
    BY <2>1, <2>2 DEF TInv, Told, Pieces
  <2>4. ~Unread(p, f) /\ (Done(p, f) <=> answer[p][f] = "bound")
    BY <2>1 DEF Unread, Done
  <2> QED
    BY <2>3, <2>4 DEF TInv, Told, Value
<1> QED
  BY <1>1, InitTold, StepTold, PTL DEF Spec

-----------------------------------------------------------------------------
(***************************************************************************)
(* Why a file keeps its result through one disturbance.                    *)
(*                                                                         *)
(* A batch of one file fails for one of three reasons: a fault; a rival    *)
(* that has bound the file, and is through with it; a rival in the same    *)
(* group, that was applied first and is replayed without it.  Where there  *)
(* is no second rival to make that one fail, its replay succeeds, and it   *)
(* is through when the file is tried again.  So the second attempt fails   *)
(* for a fault only.  What the retry reads stays true until then.          *)
(***************************************************************************)
\* At most one other publisher can disturb file f of p.
Few(p, f) == \A r, s \in Rivals(p, f) : r = s
Held(p) == db.phase[ScopeOf[p]] # "deleting"

\* q is through with f.
Over(q, f) == answer[q][f] # "none" \/ (f \in batch[q] /\ Standing(q) = "ok")
SomeOver(p, f) == \E q \in Sharing(p, f) : Over(q, f)

\* q made p fail, is replayed without it, and cannot fail but by a fault.
Coming(p, q, f) ==
    /\ q \in Undecided /\ stage \in {"writer", "apply"} /\ f \in batch[q]
    /\ p \in Elements(group) /\ outcome[p] # "none"
    /\ \A g \in batch[q] : db.bound[g] \in {expected[q][g], Want[q][g]}

\* There was a fault, and another if the next group is already lost.
Faulty == faults >= 1 /\ (stage = "broken" => faults >= 2)
Twice(p, f) == faults >= 2 \/ (faults >= 1 /\ Sharing(p, f) # {})

\* f is in its fresh retry, or about to be.
OnSingle(p, f) ==
    single[p] /\ ((pc[p] = "ready" /\ Head(plan[p]) = {f}) \/ batch[p] = {f})
OnRetry(p, f) == (pc[p] = "retry" /\ Head(plan[p]) = {f}) \/ OnSingle(p, f)

Phases ==
    Writing => \A s \in Scopes : tx.phase[s] = "deleting" <=> db.phase[s] = "deleting"
Based ==
    Writing => \A q \in applied : \A g \in batch[q] :
        \/ db.bound[g] \in {expected[q][g], Want[q][g]}
        \/ \E r \in applied \ {q} : g \in put[r]
Broken == stage = "broken" => faults >= 1
Singly(p) ==
    single[p] /\ pc[p] # "gone" =>
        \/ pc[p] = "ready" /\ \E f \in Files : Head(plan[p]) = {f}
        \/ pc[p] = "queued" /\ \E f \in Files : batch[p] = {f}

Moved(p, f) ==
    ~Unread(p, f) /\ ~Done(p, f) /\ db.bound[f] # expected[p][f] => SomeOver(p, f)
First(p, f) ==
    batch[p] = {f} /\ Standing(p) = "err" =>
        Faulty \/ SomeOver(p, f) \/ \E q \in Sharing(p, f) : Coming(p, q, f)
Again(p, f) == OnRetry(p, f) => Faulty \/ SomeOver(p, f)
Fresh(p, f) == OnSingle(p, f) /\ ~Done(p, f) /\ faults = 0 => db.bound[f] = expected[p][f]
Last(p, f) == single[p] /\ batch[p] = {f} /\ Standing(p) = "err" => Twice(p, f)
Failed(p, f) == answer[p][f] = "err" /\ f \notin changed[p] => Twice(p, f)

Trying(p, f) ==
    pc[p] # "gone" =>
        Moved(p, f) /\ First(p, f) /\ Again(p, f) /\ Fresh(p, f) /\ Last(p, f)
Steady(p) ==
    \A f \in Work[p] : Few(p, f) /\ Held(p) => Trying(p, f) /\ Failed(p, f)

Leading == Phases /\ Based /\ Broken
RInv == TInv /\ Leading /\ \A p \in Publishers : Singly(p) /\ Steady(p)

-----------------------------------------------------------------------------
(* What a step does to anybody.                                            *)

LEMMA SharingRivals ==
    ASSUME NEW p \in Publishers, NEW f
    PROVE  Sharing(p, f) \subseteq Rivals(p, f) /\ Sharing(p, f) \subseteq Publishers \ {p}
<1>1. \A q \in Publishers : Work[q] # {}
  BY WorkAssumption
<1> QED
  BY <1>1 DEF Sharing, Rivals

LEMMA OneScope ==
    ASSUME NEW p \in Publishers, NEW f \in Work[p], NEW q \in Sharing(p, f)
    PROVE  ScopeOf[q] = ScopeOf[p]
BY WorkAssumption DEF Sharing

\* What is undecided is open, and has no result.
LEMMA UndecidedPending ==
    ASSUME IInv, NEW q \in Undecided
    PROVE  /\ q \in Publishers /\ q \in Open /\ q \in Elements(group) /\ outcome[q] = "none"
           /\ result[q] = "none" /\ batch[q] # {} /\ Standing(q) = "pending"
           /\ pc[q] \in {"queued", "gone"}
<1> USE DEF IInv, TypeOK
<1>1. q \in Publishers
  BY UndecidedOK
<1>2. q \in Elements(group) /\ outcome[q] = "none" /\ q \in Open
  BY DEF Undecided, Open
<1>3. Place(q)
  BY <1>1 DEF Placed
<1> QED
  BY <1>1, <1>2, <1>3 DEF Place, Standing

\* A request in the transaction is through with none of its files.
LEMMA NotOver ==
    ASSUME TInv, NEW q \in Undecided, NEW f \in batch[q] PROVE ~Over(q, f)
<1>1. q \in Publishers /\ Standing(q) = "pending"
  BY UndecidedPending DEF TInv
<1>2. answer[q][f] = "none"
  BY <1>1 DEF TInv, Told, Pieces
<1> QED
  BY <1>1, <1>2 DEF Over

\* Writing means: the applied are undecided, and put no file but their own.
LEMMA AppliedOK ==
    ASSUME TInv, Writing, NEW q \in applied
    PROVE  /\ q \in Undecided /\ q \in Publishers
           /\ put[q] \subseteq batch[q] /\ batch[q] \subseteq Work[q] /\ Work[q] \subseteq Files
<1>1. q \in Undecided
  BY DEF TInv, IInv, Staged, Writing
<1>2. q \in Publishers
  BY <1>1, UndecidedPending DEF TInv
<1>3. put[q] \subseteq batch[q]
  BY DEF TInv, IInv, Faithful
<1>4. batch[q] \subseteq Work[q] /\ Work[q] \subseteq Files
  BY <1>2, WorkAssumption DEF TInv, Told, Pieces
<1> QED
  BY <1>1, <1>2, <1>3, <1>4

\* A scope that is being deleted stays so.
LEMMA HeldBack ==
    ASSUME TInv, Phases, [Next]_vars, NEW p \in Publishers, Held(p)' PROVE Held(p)
<1> USE DEF Held
<1>0. ScopeOf[p] \in Scopes
  BY WorkAssumption
<1>1. ASSUME NEW q \in Publishers, PublisherStep(q) PROVE Held(p)
  BY <1>1, LeavesOthers DEF OwnStep, TInv, IInv
<1>2. CASE LeaderStep
  <2>1. CASE CommitTx
    BY <1>0, <2>1 DEF CommitTx, Phases, Writing
  <2>2. CASE ~CommitTx
    BY <1>2, <2>2 DEF LeaderStep, TakeWriter, WriterFail, Collect, Apply, Reject, RejectWith,
                      CommitFail, StoreResults, Drop, DropWaking, Unwind, UnwindTelling
  <2> QED
    BY <2>1, <2>2
<1>3. CASE OtherStep
  <2>1. db \in Databases
    BY DEF TInv, IInv, TypeOK, StoreOK
  <2> QED
    BY <1>0, <1>3, <2>1 DEF OtherStep, Change, CollectObject, Retire, Databases
<1> QED
  BY <1>1, <1>2, <1>3 DEF Next, vars

LEMMA FaultsGrow ==
    ASSUME IInv, [Next]_vars
    PROVE  /\ faults \in Nat /\ faults' \in Nat /\ faults <= faults'
           /\ stage' = "broken" /\ stage # "broken" => faults' = faults + 1
<1>1. faults \in Nat
  BY BoundAssumption DEF IInv, TypeOK, StoreOK
<1>2. ASSUME NEW q \in Publishers, PublisherStep(q)
      PROVE  faults' = faults /\ stage' \in {stage, "writer"}
  BY <1>2, LeavesOthers DEF OwnStep, IInv
<1>3. CASE LeaderStep
  <2>1. \/ faults' = faults /\ (stage' = "broken" => stage = "broken")
        \/ faults' = faults + 1
    BY <1>3 DEF LeaderStep, TakeWriter, WriterFail, Collect, Apply, Reject, RejectWith, CommitTx,
                CommitFail, StoreResults, Drop, DropWaking, Unwind, UnwindTelling
  <2> QED
    BY <1>1, <2>1
<1>4. CASE OtherStep
  BY <1>1, <1>4 DEF OtherStep, Change, CollectObject, Retire, leaderVars
<1>5. CASE UNCHANGED vars
  BY <1>1, <1>5 DEF vars, leaderVars
<1> QED
  BY <1>1, <1>2, <1>3, <1>4, <1>5 DEF Next

LEMMA FaultyKept ==
    ASSUME IInv, [Next]_vars
    PROVE  /\ Faulty => Faulty'
           /\ \A p, f : Twice(p, f) => Twice(p, f)'
BY FaultsGrow DEF Faulty, Twice, Sharing

\* The bindings change by a commit, to what an applied request put.
LEMMA BoundMoved ==
    ASSUME TInv, [Next]_vars, NEW f \in Files, db'.bound[f] # db.bound[f]
    PROVE  CommitTx /\ \E r \in applied : f \in put[r]
<1>1. db \in Databases
  BY DEF TInv, IInv, TypeOK, StoreOK
<1>2. ASSUME NEW q \in Publishers, PublisherStep(q) PROVE FALSE
  BY <1>2, LeavesOthers DEF OwnStep, TInv, IInv
<1>3. CASE LeaderStep
  <2>1. CommitTx
    BY <1>3 DEF LeaderStep, TakeWriter, WriterFail, Collect, Apply, Reject, RejectWith,
                CommitFail, StoreResults, Drop, DropWaking, Unwind, UnwindTelling
  <2>2. Writing /\ db' = tx
    BY <2>1 DEF CommitTx, Writing
  <2> QED
    BY <2>1, <2>2 DEF TInv, IInv, Faithful
<1>4. CASE OtherStep
  BY <1>1, <1>4 DEF OtherStep, Change, CollectObject, Retire, Databases
<1> QED
  BY <1>2, <1>3, <1>4 DEF Next, vars

\* What is committed is done.
LEMMA Committed ==
    ASSUME TInv, CommitTx, NEW r \in applied
    PROVE  /\ Standing(r)' = "ok" /\ batch'[r] = batch[r] /\ put'[r] = put[r]
           /\ r \in Undecided /\ r \in Publishers /\ put[r] \subseteq batch[r]
           /\ batch[r] \subseteq Work[r]
<1>1. Writing
  BY DEF CommitTx, Writing
<1>2. /\ r \in Undecided /\ r \in Publishers /\ put[r] \subseteq batch[r]
      /\ batch[r] \subseteq Work[r]
  BY <1>1, AppliedOK
<1>3. result[r] = "none" /\ batch[r] # {}
  BY <1>2, UndecidedPending DEF TInv
<1>4. batch' = batch /\ put' = put /\ result' = result /\ outcome'[r] = "ok"
  BY <1>2 DEF CommitTx, publisherVars
<1> QED
  BY <1>2, <1>3, <1>4 DEF Standing

-----------------------------------------------------------------------------
(* The transaction.                                                        *)

LEMMA BrokenKept == ASSUME IInv, Broken, [Next]_vars PROVE Broken'
BY FaultsGrow DEF Broken

\* A publisher that is applied does nothing but sleep.
LEMMA AppliedStill ==
    ASSUME TInv, Writing, NEW p \in Publishers, PublisherStep(p), NEW q \in applied
    PROVE  batch'[q] = batch[q] /\ expected'[q] = expected[q] /\ put'[q] = put[q]
<1>1. q \in Undecided
  BY AppliedOK
<1>2. CASE q # p
  BY <1>2, LeavesOthers, AppliedOK DEF OwnStep, Aside, TInv, IInv
<1>3. CASE q = p
  <2>1. pc[p] \in {"queued", "gone"} /\ result[p] = "none"
    BY <1>1, <1>3, UndecidedPending DEF TInv
  <2>2. ASSUME NEW f \in Files PROVE ~Prepare(p, f)
    BY <2>1 DEF Prepare
  <2>3. ~Submit(p) /\ ~ReadFresh(p) /\ ~Returned(p)
    BY <2>1 DEF Submit, ReadFresh, ReadFreshAs, Returned
  <2>4. Sleep(p) \/ Lead(p)
    BY <2>2, <2>3 DEF PublisherStep, TakeOk, TakeOkWith, Bisect, TakeErr
  <2> QED
    BY <1>3, <2>4 DEF Sleep, Lead, leaderVars, publisherVars
<1> QED
  BY <1>2, <1>3

\* Applying p binds what it expected, or what another has put.
LEMMA BasedApply ==
    ASSUME TInv, Phases, Based, NEW p \in Publishers, Apply(p) PROVE Phases' /\ Based'
<1> USE DEF TInv, IInv, TypeOK
<1>1. /\ Writing /\ Writing' /\ p \in Undecided \ applied /\ ~Conflict(p)
      /\ applied' = applied \cup {p} /\ UNCHANGED <<db, batch, expected>>
  BY DEF Apply, IsNext, Writing, publisherVars
<1>2. PICK missing \in SUBSET Missable(p) :
          put' = [put EXCEPT ![p] = batch[p] \ missing] /\ tx' = Installed(p, batch[p] \ missing)
  BY DEF Apply
<1>3. applied \subseteq Publishers /\ \A q \in applied : put'[q] = put[q]
  BY <1>1, <1>2 DEF LeaderOK
<1>4. batch[p] \subseteq Files
  BY DEF PublisherOK
<1>5. ASSUME NEW g \in batch[p]
      PROVE  db.bound[g] \in {expected[p][g], Want[p][g]} \/ \E r \in applied : g \in put[r]
  <2>1. tx.bound[g] \in {expected[p][g], Want[p][g]}
    BY <1>1 DEF Conflict
  <2> QED
    BY <1>1, <1>4, <2>1 DEF Faithful
<1>6. Based'
  <2>1. ASSUME NEW q \in applied', NEW g \in batch'[q]
        PROVE  \/ db'.bound[g] \in {expected'[q][g], Want[q][g]}
               \/ \E r \in applied' \ {q} : g \in put'[r]
    <3>1. CASE q = p
      BY <1>1, <1>3, <1>5, <2>1, <3>1
    <3>2. CASE q \in applied
      <4>1. \/ db.bound[g] \in {expected[q][g], Want[q][g]}
            \/ \E r \in applied \ {q} : g \in put[r]
        BY <1>1, <2>1, <3>2 DEF Based
      <4> QED
        BY <1>1, <1>3, <4>1
    <3> QED
      BY <1>1, <3>1, <3>2
  <2> QED
    BY <2>1 DEF Based
<1>7. Phases'
  <2>1. tx \in Databases /\ tx.phase[ScopeOf[p]] # "deleting" /\ ScopeOf[p] \in Scopes
    BY <1>1, WorkAssumption DEF Faithful, Conflict
  <2>2. tx'.phase \in {tx.phase, [tx.phase EXCEPT ![ScopeOf[p]] = "dirty"]}
    BY <1>2 DEF Installed
  <2>3. \A s \in Scopes : tx'.phase[s] = "deleting" <=> tx.phase[s] = "deleting"
    BY <2>1, <2>2 DEF Databases
  <2> QED
    BY <1>1, <2>3 DEF Phases
<1> QED
  BY <1>6, <1>7

LEMMA BasedKept ==
    ASSUME TInv, Phases, Based, [Next]_vars PROVE Phases' /\ Based'
<1>1. ASSUME Writing' => Writing,
             UNCHANGED <<db, tx, applied>>,
             Writing => \A q \in applied :
                batch'[q] = batch[q] /\ expected'[q] = expected[q] /\ put'[q] = put[q]
      PROVE  Phases' /\ Based'
  BY <1>1 DEF Phases, Based
<1>2. ASSUME NEW p \in Publishers, PublisherStep(p) PROVE Phases' /\ Based'
  <2>1. Writing' => Writing
    BY <1>2, LeavesOthers DEF OwnStep, Writing, TInv, IInv
  <2> QED
    BY <1>1, <1>2, <2>1, AppliedStill, LeavesOthers DEF OwnStep, TInv, IInv
<1>3. CASE LeaderStep
  <2>1. CASE TakeWriter
    BY <2>1 DEF TakeWriter, Phases, Based
  <2>2. CASE Collect
    <3>1. Writing' => Writing
      BY <2>2 DEF Collect, Writing
    <3> QED
      BY <1>1, <2>2, <3>1 DEF Collect, publisherVars
  <2>3. ASSUME NEW p \in Publishers, Apply(p) PROVE Phases' /\ Based'
    BY <2>3, BasedApply
  <2>4. CASE WriterFail \/ CommitTx \/ CommitFail \/ StoreResults \/ Drop \/ Unwind
    <3>1. ~Writing'
      BY <2>4 DEF WriterFail, CommitTx, CommitFail, StoreResults, Drop, DropWaking, Unwind,
                  UnwindTelling, Writing
    <3> QED
      BY <3>1 DEF Phases, Based
  <2>5. ASSUME NEW p \in Publishers, Reject(p) PROVE Phases' /\ Based'
    <3>1. ~Writing'
      BY <2>5 DEF Reject, RejectWith, Writing
    <3> QED
      BY <3>1 DEF Phases, Based
  <2> QED
    BY <1>3, <2>1, <2>2, <2>3, <2>4, <2>5 DEF LeaderStep
<1>4. CASE OtherStep
  <2>1. CASE Writing
    BY <1>1, <1>4, <2>1 DEF OtherStep, Change, CollectObject, Retire, leaderVars, publisherVars
  <2>2. CASE ~Writing
    <3>1. ~Writing'
      BY <1>4, <2>2 DEF OtherStep, Change, CollectObject, Retire, leaderVars, Writing
    <3> QED
      BY <3>1 DEF Phases, Based
  <2> QED
    BY <2>1, <2>2
<1>5. CASE UNCHANGED vars
  BY <1>1, <1>5 DEF vars, leaderVars, publisherVars, Writing
<1> QED
  BY <1>2, <1>3, <1>4, <1>5 DEF Next

LEMMA LeadingKept == ASSUME TInv, Leading, [Next]_vars PROVE Leading'
BY BasedKept, BrokenKept DEF Leading, TInv

-----------------------------------------------------------------------------
(* The fresh retry is of a single file.                                    *)

LEMMA SinglyKept ==
    ASSUME TInv, NEW p \in Publishers, Singly(p), [Next]_vars PROVE Singly(p)'
<1> USE DEF TInv, IInv, TypeOK
<1>1. ASSUME pc'[p] \in {pc[p], "gone"}, plan'[p] = plan[p], batch'[p] = batch[p],
             single'[p] = single[p]
      PROVE  Singly(p)'
  BY <1>1 DEF Singly
<1>2. ASSUME NEW q \in Publishers \ {p}, PublisherStep(q) PROVE Singly(p)'
  BY <1>1, <1>2, LeavesOthers DEF OwnStep, Aside
<1>3. CASE LeaderStep
  BY <1>1, <1>3, LeaderLeaves
<1>4. CASE OtherStep \/ UNCHANGED vars
  BY <1>1, <1>4 DEF OtherStep, Change, CollectObject, Retire, vars, publisherVars
<1>5. CASE PublisherStep(p)
  <2>1. ASSUME NEW f \in Files, Prepare(p, f) PROVE Singly(p)'
    BY <2>1 DEF Prepare, Singly
  <2>2. CASE Submit(p)
    <3>1. CASE Head(plan[p]) \subseteq changed[p]
      <4>1. single' = [single EXCEPT ![p] = FALSE]
        BY <2>2, <3>1 DEF Submit
      <4>2. ~single'[p]
        BY <4>1, Zenon DEF PublisherOK
      <4> QED
        BY <4>2 DEF Singly
    <3>2. CASE ~(Head(plan[p]) \subseteq changed[p])
      <4>1. single' = single /\ pc'[p] = "queued" /\ batch'[p] = Head(plan[p]) \ changed[p]
        BY <2>2, <3>2 DEF Submit, PublisherOK
      <4>2. pc[p] = "ready"
        BY <2>2 DEF Submit
      <4> QED
        BY <3>2, <4>1, <4>2 DEF Singly
    <3> QED
      BY <3>1, <3>2
  <2>3. CASE ReadFresh(p)
    <3>1. PICK f \in Files : ReadFreshAs(p, f, db.bound[f])
      BY <2>3 DEF ReadFresh
    <3>2. CASE f \in changed[p]
      BY <3>1, <3>2 DEF ReadFreshAs, Singly
    <3>3. CASE f \notin changed[p]
      <4>1. plan' = plan /\ Head(plan[p]) = {f} /\ pc'[p] = "ready"
        BY <3>1, <3>3 DEF ReadFreshAs, PublisherOK
      <4> QED
        BY <4>1 DEF Singly
    <3> QED
      BY <3>2, <3>3
  <2>4. CASE TakeOk(p)
    <3>1. single' = [single EXCEPT ![p] = FALSE]
      BY <2>4 DEF TakeOk, TakeOkWith
    <3>2. ~single'[p]
      BY <3>1, Zenon DEF PublisherOK
    <3> QED
      BY <3>2 DEF Singly
  <2>5. CASE Bisect(p)
    <3>1. single' = single /\ pc[p] = "queued" /\ Cardinality(batch[p]) > 1
      BY <2>5 DEF Bisect, Returned
    <3>2. ASSUME NEW f \in Files, batch[p] = {f} PROVE FALSE
      BY SMTT(20), <3>1, <3>2, FS_Singleton
    <3> QED
      BY <3>1, <3>2 DEF Singly
  <2>6. CASE TakeErr(p)
    <3>1. CASE single[p]
      <4>1. single' = [single EXCEPT ![p] = FALSE]
        BY <2>6, <3>1 DEF TakeErr
      <4>2. ~single'[p]
        BY <4>1, Zenon DEF PublisherOK
      <4> QED
        BY <4>2 DEF Singly
    <3>2. CASE ~single[p]
      BY <2>6, <3>2 DEF TakeErr, Singly
    <3> QED
      BY <3>1, <3>2
  <2>7. CASE Sleep(p) \/ Lead(p)
    BY <1>1, <2>7 DEF Sleep, Lead, publisherVars
  <2> QED
    BY <1>5, <2>1, <2>2, <2>3, <2>4, <2>5, <2>6, <2>7 DEF PublisherStep
<1> QED
  BY <1>2, <1>3, <1>4, <1>5 DEF Next

-----------------------------------------------------------------------------
(* What p waits for comes, and stays.                                      *)

\* Steps of others, and of no publisher, leave the request of p as it stands.
LEMMA StandsAside ==
    ASSUME TInv, NEW p \in Publishers,
           \/ \E q \in Publishers \ {p} : PublisherStep(q)
           \/ OtherStep
           \/ UNCHANGED vars
    PROVE  /\ Aside(p) /\ Standing(p)' = Standing(p)
           /\ changed[p] \subseteq changed'[p] /\ UNCHANGED <<outcome, group, applied, tx>>
<1> USE DEF TInv, IInv, TypeOK
<1>1. Aside(p) /\ UNCHANGED <<outcome, group, applied, tx>>
  <2>1. ASSUME NEW q \in Publishers \ {p}, PublisherStep(q)
        PROVE  Aside(p) /\ UNCHANGED <<outcome, group, applied, tx>>
    BY <2>1, LeavesOthers DEF OwnStep
  <2>2. CASE OtherStep \/ UNCHANGED vars
    BY <2>2 DEF OtherStep, Change, CollectObject, Retire, vars, leaderVars, publisherVars, Aside
  <2> QED
    BY <2>1, <2>2
<1>2. Standing(p)' = Standing(p)
  BY <1>1, StandingKept DEF Aside
<1>3. changed[p] \subseteq changed'[p]
  <2>1. ASSUME NEW q \in Publishers \ {p}, PublisherStep(q) PROVE changed' = changed
    BY <2>1, LeavesOthers DEF OwnStep
  <2>2. CASE OtherStep \/ UNCHANGED vars
    BY <2>2 DEF OtherStep, Change, CollectObject, Retire, vars, otherVars, StoreOK
  <2> QED
    BY <2>1, <2>2
<1> QED
  BY <1>1, <1>2, <1>3

\* The leader decides what is pending, and nothing else.
LEMMA LeaderDecides ==
    ASSUME TInv, LeaderStep, NEW p \in Publishers
    PROVE  /\ Standing(p) # "pending" => Standing(p)' = Standing(p)
           /\ Standing(p) = "ok" => put'[p] = put[p]
<1> USE DEF TInv, IInv, TypeOK
<1>1. batch' = batch
  BY LeaderLeaves
<1>2. CASE UNCHANGED Abstract!vars
  BY <1>2 DEF Abstract!vars
<1>3. ASSUME NEW q \in Publishers, Abstract!Submit(q) \/ Abstract!Answer(q) PROVE FALSE
  <2>1. batch[q] = {} <=> Standing(q) = "idle"
    BY DEF Standing, LeaderOK
  <2>2. CASE Abstract!Submit(q)
    BY <1>1, <2>1, <2>2 DEF Abstract!Submit, PublisherOK
  <2>3. CASE Abstract!Answer(q)
    BY <1>1, <2>1, <2>3 DEF Abstract!Answer, PublisherOK
  <2> QED
    BY <1>3, <2>2, <2>3
<1>4. ASSUME NEW G \in SUBSET Publishers, Abstract!Fail(G) \/ Abstract!Commit(G),
             Standing(p) # "pending"
      PROVE  Standing(p)' = Standing(p) /\ (Standing(p) = "ok" => put'[p] = put[p])
  <2> DEFINE P == [q \in Publishers |-> IF Standing(q) = "ok" THEN put[q] ELSE {}]
             S == [q \in Publishers |-> Standing(q)]
  <2>1. \A q \in G : S[q] = "pending"
    BY <1>4 DEF Abstract!Fail, Abstract!Commit
  <2>2. p \notin G
    BY <1>4, <2>1
  <2>3. S'[p] = S[p] /\ P'[p] = P[p]
    BY <1>4, <2>2 DEF Abstract!Fail, Abstract!Commit
  <2> QED
    BY <2>3
<1> QED
  BY <1>2, <1>3, <1>4, AbstractLeader DEF Abstract!Next

\* An answer is given once.
LEMMA AnswerKept ==
    ASSUME TInv, [Next]_vars, NEW p \in Publishers, NEW f \in Files, answer[p][f] # "none"
    PROVE  answer'[p][f] = answer[p][f]
<1> USE DEF TInv, IInv, TypeOK
<1>1. CASE \/ \E q \in Publishers \ {p} : PublisherStep(q)
           \/ OtherStep
           \/ UNCHANGED vars
  BY <1>1, StandsAside DEF Aside
<1>2. CASE LeaderStep
  BY <1>2, LeaderLeaves
<1>3. f \notin Left(p) \cup batch[p] /\ Place(p)
  BY DEF Told, Pieces, Placed
<1>4. plan[p] # <<>> => Head(plan[p]) \subseteq Left(p)
  BY TailPieces DEF Told, Pieces, Left, PublisherOK
<1>5. CASE PublisherStep(p)
  <2>1. ASSUME NEW g \in Files, Prepare(p, g) PROVE answer'[p][f] = answer[p][f]
    BY <2>1 DEF Prepare, PublisherOK
  <2>2. CASE Submit(p)
    <3>1. f \notin Head(plan[p])
      BY <1>3, <1>4, <2>2 DEF Submit, Place
    <3> QED
      BY <2>2, <3>1 DEF Submit, PublisherOK
  <2>3. CASE ReadFresh(p)
    <3>1. PICK g \in Files : ReadFreshAs(p, g, db.bound[g])
      BY <2>3 DEF ReadFresh
    <3>2. g # f
      BY <1>3, <1>4, <3>1 DEF ReadFreshAs, Place
    <3>3. answer' = answer \/ answer' = [answer EXCEPT ![p][g] = "err"]
      BY <3>1 DEF ReadFreshAs
    <3> QED
      BY <3>2, <3>3 DEF PublisherOK
  <2>4. CASE TakeOk(p)
    BY <1>3, <2>4 DEF TakeOk, TakeOkWith, PublisherOK
  <2>5. CASE TakeErr(p)
    <3>1. \/ answer' = answer
          \/ answer' = [answer EXCEPT ![p] =
                          [g \in Files |-> IF g \in batch[p] THEN "err" ELSE @[g]]]
      BY <2>5 DEF TakeErr
    <3> QED
      BY <1>3, <3>1 DEF PublisherOK
  <2>6. CASE Bisect(p) \/ Sleep(p) \/ Lead(p)
    BY <2>6 DEF Bisect, Sleep, Lead, publisherVars
  <2> QED
    BY <1>5, <2>1, <2>2, <2>3, <2>4, <2>5, <2>6 DEF PublisherStep
<1> QED
  BY <1>1, <1>2, <1>5 DEF Next

\* A publisher with a good result does nothing but sleep, and take it.
LEMMA TakesOk ==
    ASSUME TInv, NEW p \in Publishers, Standing(p) = "ok", PublisherStep(p)
    PROVE  TakeOk(p) \/ Sleep(p) \/ Lead(p)
<1>1. Place(p) /\ batch[p] # {}
  BY DEF TInv, IInv, Placed, Standing
<1>2. pc[p] \in {"queued", "gone"} /\ result[p] # "err"
  BY <1>1 DEF Place, Standing
<1> QED
  BY <1>2 DEF PublisherStep, Bisect, TakeErr, Prepare, Submit, ReadFresh, ReadFreshAs

\* Whoever is through with a file stays so, and with what came of it.
LEMMA OverKept ==
    ASSUME TInv, [Next]_vars, NEW q \in Publishers, NEW f \in Files
    PROVE  (Over(q, f) => Over(q, f)') /\ (Done(q, f) => Done(q, f)')
<1> USE DEF TInv, IInv, TypeOK
<1>1. CASE \/ \E p \in Publishers \ {q} : PublisherStep(p)
           \/ OtherStep
           \/ UNCHANGED vars
  BY <1>1, StandsAside DEF Over, Done, Aside
<1>2. CASE LeaderStep
  BY <1>2, LeaderLeaves, LeaderDecides DEF Over, Done
<1>3. CASE PublisherStep(q)
  <2>1. CASE answer[q][f] # "none"
    BY <2>1, AnswerKept DEF Over, Done, Told, Pieces
  <2>2. CASE f \in batch[q] /\ Standing(q) = "ok"
    <3>1. CASE Sleep(q) \/ Lead(q)
      BY <2>2, <3>1, StandingKept DEF Sleep, Lead, publisherVars, leaderVars, Over, Done
    <3>2. CASE TakeOk(q)
      <4>1. answer'[q][f] = IF f \in put[q] THEN "bound" ELSE "missing"
        BY <2>2, <3>2 DEF TakeOk, TakeOkWith, PublisherOK
      <4>2. answer[q][f] = "none"
        BY <2>2 DEF Told, Pieces
      <4> QED
        BY <4>1, <4>2 DEF Over, Done
    <3> QED
      BY <1>3, <2>2, <3>1, <3>2, TakesOk
  <2> QED
    BY <2>1, <2>2 DEF Over, Done
<1> QED
  BY <1>1, <1>2, <1>3 DEF Next

LEMMA SomeOverKept ==
    ASSUME TInv, [Next]_vars, NEW p \in Publishers, NEW f \in Files, SomeOver(p, f)
    PROVE  SomeOver(p, f)'
BY OverKept, SharingRivals DEF SomeOver, Sharing

\* A request in whose way there is no second rival is not rejected.
LEMMA Unhindered ==
    ASSUME TInv, Leading, NEW p \in Publishers, NEW f \in Work[p], NEW q \in Sharing(p, f),
           Few(p, f), Held(p), Coming(p, q, f), Reject(q)
    PROVE  FALSE
<1> USE DEF TInv, IInv, TypeOK
<1>1. /\ stage = "apply" /\ Writing /\ q \in Undecided \ applied /\ Conflict(q)
      /\ outcome[p] # "none" /\ q \in Publishers
      /\ \A g \in batch[q] : db.bound[g] \in {expected[q][g], Want[q][g]}
  BY SharingRivals DEF Reject, RejectWith, IsNext, Writing, Coming
<1>2. tx.phase[ScopeOf[q]] # "deleting"
  <2>1. db.phase[ScopeOf[q]] # "deleting" /\ ScopeOf[q] \in Scopes
    BY OneScope, WorkAssumption, <1>1 DEF Held
  <2> QED
    BY <1>1, <2>1 DEF Leading, Phases
<1>3. PICK g \in batch[q] : tx.bound[g] \notin {expected[q][g], Want[q][g]}
  BY <1>1, <1>2 DEF Conflict
<1>4. g \in Work[q] /\ g \in Files
  BY <1>1, WorkAssumption DEF Told, Pieces
<1>5. PICK r \in applied : g \in put[r]
  BY <1>1, <1>3, <1>4 DEF Faithful
<1>6. r \in Undecided /\ r \in Publishers /\ g \in Work[r]
  BY <1>1, <1>5, AppliedOK
<1>7. r # p /\ r # q
  BY <1>1, <1>5, <1>6 DEF Undecided
<1>8. r \in Rivals(p, f) /\ q \in Rivals(p, f)
  BY <1>4, <1>6, <1>7, SharingRivals DEF Rivals
<1> QED
  BY <1>7, <1>8 DEF Few

LEMMA ComingKept ==
    ASSUME TInv, Leading, [Next]_vars, NEW p \in Publishers, NEW f \in Work[p],
           NEW q \in Sharing(p, f), Few(p, f), Held(p), Coming(p, q, f)
    PROVE  Coming(p, q, f)' \/ Over(q, f)' \/ Faulty'
<1> USE DEF TInv, IInv, TypeOK
<1>1. /\ q \in Undecided /\ q \in Publishers /\ q # p /\ stage \in {"writer", "apply"}
      /\ f \in batch[q] /\ p \in Elements(group) /\ outcome[p] # "none"
      /\ q \in Elements(group) /\ outcome[q] = "none" /\ result[q] = "none"
      /\ batch[q] # {} /\ pc[q] \in {"queued", "gone"} /\ batch[q] \in SUBSET Files
  BY UndecidedPending, SharingRivals DEF Coming, PublisherOK
<1>2. ASSUME UNCHANGED group, stage' \in {"writer", "apply"}, outcome'[q] = "none",
             outcome'[p] # "none", batch'[q] = batch[q], expected'[q] = expected[q],
             db'.bound = db.bound
      PROVE  Coming(p, q, f)'
  <2>1. q \in Undecided'
    BY <1>1, <1>2 DEF Undecided
  <2> QED
    BY <1>1, <1>2, <2>1 DEF Coming
<1>3. ASSUME NEW x \in Publishers, PublisherStep(x) PROVE Coming(p, q, f)'
  <2>1. UNCHANGED <<db, group, outcome>> /\ stage' \in {stage, "writer"}
    BY <1>3, LeavesOthers DEF OwnStep
  <2>2. batch'[q] = batch[q] /\ expected'[q] = expected[q]
    <3>1. CASE x # q
      BY <1>1, <1>3, <3>1, LeavesOthers DEF OwnStep, Aside
    <3>2. CASE x = q
      <4>1. Sleep(q) \/ Lead(q)
        BY <1>1, <1>3, <3>2 DEF PublisherStep, TakeOk, TakeOkWith, Bisect, TakeErr, Returned,
                                Prepare, Submit, ReadFresh, ReadFreshAs
      <4> QED
        BY <4>1 DEF Sleep, Lead, publisherVars
    <3> QED
      BY <3>1, <3>2
  <2> QED
    BY <1>1, <1>2, <2>1, <2>2
<1>4. CASE LeaderStep
  <2>1. batch' = batch /\ expected' = expected
    BY <1>4, LeaderLeaves
  <2>2. CASE TakeWriter
    <3>1. group # <<>>
      BY <1>1, EmptyElements
    <3> QED
      BY <1>1, <1>2, <2>1, <2>2, <3>1 DEF TakeWriter
  <2>3. CASE Collect \/ StoreResults \/ Drop
    BY <1>1, <2>3 DEF Collect, StoreResults, Drop, DropWaking
  <2>4. ASSUME NEW x \in Publishers, Apply(x) PROVE Coming(p, q, f)'
    BY <1>1, <1>2, <2>1, <2>4 DEF Apply
  <2>5. ASSUME NEW x \in Publishers, Reject(x) PROVE Coming(p, q, f)'
    <3>1. x # q
      BY <2>5, Unhindered
    <3>2. /\ outcome' = [y \in Publishers |-> IF y \in {x} THEN "err" ELSE outcome[y]]
          /\ stage' = IF Undecided \subseteq {x} THEN "store" ELSE "writer"
          /\ UNCHANGED <<db, group>>
      BY <2>5 DEF Reject, RejectWith
    <3> QED
      BY <1>1, <1>2, <2>1, <3>1, <3>2
  <2>6. CASE CommitTx
    <3>1. outcome'[q] = "ok" /\ result'[q] = "none"
      BY <1>1, <2>6 DEF CommitTx
    <3> QED
      BY <1>1, <2>1, <3>1 DEF Over, Standing
  <2>7. CASE WriterFail \/ CommitFail \/ Unwind
    <3>1. faults' = faults + 1 /\ stage' # "broken"
      <4>1. group # <<>>
        BY <1>1, EmptyElements
      <4> QED
        BY <2>7, <4>1 DEF WriterFail, CommitFail, Unwind, UnwindTelling
    <3> QED
      BY <3>1, FaultsGrow DEF Faulty
  <2> QED
    BY <1>4, <2>2, <2>3, <2>4, <2>5, <2>6, <2>7 DEF LeaderStep
<1>5. CASE OtherStep
  <2>1. db \in Databases
    BY DEF StoreOK
  <2> QED
    BY <1>1, <1>2, <1>5, <2>1 DEF OtherStep, Change, CollectObject, Retire, leaderVars,
                                  publisherVars, Databases
<1>6. CASE UNCHANGED vars
  BY <1>1, <1>2, <1>6 DEF vars, leaderVars, publisherVars
<1> QED
  BY <1>3, <1>4, <1>5, <1>6 DEF Next

-----------------------------------------------------------------------------
(* What a file's own failures are due to.                                  *)

\* Nothing but a rival's commit moves the binding of a file that p has not.
LEMMA RivalMoved ==
    ASSUME TInv, [Next]_vars, NEW p \in Publishers, NEW f \in Work[p],
           db'.bound[f] # db.bound[f]
    PROVE  \/ Done(p, f)'
           \/ \E r \in Sharing(p, f) : Over(r, f)' /\ ~Over(r, f)
<1>1. f \in Files
  BY WorkAssumption
<1>2. CommitTx /\ \E r \in applied : f \in put[r]
  BY <1>1, BoundMoved
<1>3. PICK r \in applied : f \in put[r]
  BY <1>2
<1>4. /\ Standing(r)' = "ok" /\ batch'[r] = batch[r] /\ put'[r] = put[r]
      /\ r \in Undecided /\ r \in Publishers /\ f \in batch[r] /\ f \in Work[r]
  BY <1>2, <1>3, Committed
<1>5. CASE r = p
  BY <1>3, <1>4, <1>5 DEF Done
<1>6. CASE r # p
  <2>1. r \in Sharing(p, f)
    BY <1>4, <1>6 DEF Sharing
  <2>2. ~Over(r, f) /\ Over(r, f)'
    BY <1>4, NotOver DEF Over
  <2> QED
    BY <2>1, <2>2
<1> QED
  BY <1>5, <1>6

\* Why p is rejected with one file.
LEMMA WhyRejected ==
    ASSUME TInv, Leading, NEW p \in Publishers, NEW f \in Work[p], batch[p] = {f},
           Reject(p), Held(p)
    PROVE  \/ db.bound[f] # expected[p][f] /\ ~Done(p, f) /\ ~Unread(p, f)
           \/ \E r \in Sharing(p, f) : r \in applied /\ f \in batch[r]
<1> USE DEF TInv, IInv, TypeOK
<1>1. /\ stage = "apply" /\ Writing /\ p \in Undecided \ applied /\ Conflict(p)
      /\ Standing(p) = "pending" /\ pc[p] \in {"queued", "gone"} /\ f \in Files
  BY UndecidedPending, WorkAssumption DEF Reject, RejectWith, IsNext, Writing
<1>2. tx.phase[ScopeOf[p]] # "deleting"
  BY <1>1, WorkAssumption DEF Leading, Phases, Held
<1>3. tx.bound[f] \notin {expected[p][f], Want[p][f]}
  BY <1>1, <1>2 DEF Conflict
<1>4. CASE \E r \in applied : f \in put[r]
  <2>1. PICK r \in applied : f \in put[r]
    BY <1>4
  <2>2. r \in Publishers /\ f \in batch[r] /\ f \in Work[r] /\ r # p
    BY <1>1, <2>1, AppliedOK
  <2> QED
    BY <2>1, <2>2 DEF Sharing
<1>5. CASE \A r \in applied : f \notin put[r]
  <2>1. db.bound[f] # expected[p][f]
    BY <1>1, <1>3, <1>5 DEF Faithful
  <2>2. answer[p][f] = "none"
    BY DEF Told, Pieces
  <2> QED
    BY <1>1, <2>1, <2>2 DEF Done, Unread
<1> QED
  BY <1>4, <1>5

\* Why a request of p fails.
LEMMA WhyErr ==
    ASSUME TInv, LeaderStep, NEW p \in Publishers, Standing(p) # "err", Standing(p)' = "err"
    PROVE  \/ faults' = faults + 1 /\ stage' # "broken"
           \/ stage = "broken" /\ stage' = "store" /\ faults' = faults
           \/ Reject(p)
<1> USE DEF TInv, IInv, TypeOK
<1>1. Standing(p) = "pending" /\ batch' = batch
  BY LeaderDecides, LeaderLeaves
<1>2. batch[p] # {} /\ result[p] = "none" /\ outcome[p] = "none"
  BY <1>1 DEF Standing, LeaderOK
<1>3. result'[p] # "none" \/ outcome'[p] # "none"
  BY <1>1, <1>2 DEF Standing
<1>4. CASE TakeWriter \/ Drop \/ \E q \in Publishers : Apply(q)
  BY <1>2, <1>3, <1>4 DEF TakeWriter, Drop, DropWaking, Apply
<1>5. CASE WriterFail
  BY <1>2, <1>3, <1>5 DEF WriterFail, Undecided
<1>6. CASE Collect
  BY <1>2, <1>3, <1>6 DEF Collect
<1>7. ASSUME NEW q \in Publishers, Reject(q) PROVE Reject(p)
  <2>1. q = p
    BY <1>2, <1>3, <1>7 DEF Reject, RejectWith
  <2> QED
    BY <1>7, <2>1
<1>8. CASE CommitTx
  <2>1. outcome'[p] # "err" /\ result'[p] = "none"
    BY <1>2, <1>8 DEF CommitTx
  <2> QED
    BY <2>1 DEF Standing
<1>9. CASE CommitFail \/ Unwind
  BY <1>9 DEF CommitFail, Unwind, UnwindTelling
<1>10. CASE StoreResults
  <2>1. p \notin Elements(group)
    BY <1>2, <1>10 DEF StoreResults, Staged, Undecided
  <2> QED
    BY <1>2, <1>3, <1>10, <2>1 DEF StoreResults, Disband
<1> QED
  BY <1>4, <1>5, <1>6, <1>7, <1>8, <1>9, <1>10 DEF LeaderStep

\* What p expects of a file is what it has read, and reading is now.
LEMMA ReadNow ==
    ASSUME TInv, [Next]_vars, NEW p \in Publishers, NEW f \in Work[p], pc'[p] # "gone",
           ~Unread(p, f)', expected'[p][f] # db'.bound[f]
    PROVE  ~Unread(p, f) /\ expected'[p][f] = expected[p][f]
<1> USE DEF TInv, IInv, TypeOK
<1>0. f \in Files
  BY WorkAssumption
<1>1. ASSUME UNCHANGED expected, plan'[p] = plan[p], answer'[p] = answer[p], pc'[p] = pc[p]
      PROVE  ~Unread(p, f) /\ expected'[p][f] = expected[p][f]
  BY <1>1 DEF Unread, Left
<1>2. CASE \/ \E q \in Publishers \ {p} : PublisherStep(q)
           \/ OtherStep
           \/ UNCHANGED vars
  <2>1. /\ plan'[p] = plan[p] /\ answer'[p] = answer[p] /\ pc'[p] = pc[p]
        /\ expected'[p] = expected[p]
    BY <1>2, StandsAside DEF Aside
  <2>2. Unread(p, f)' <=> Unread(p, f)
    BY <2>1 DEF Unread, Left
  <2> QED
    BY <2>1, <2>2
<1>3. CASE LeaderStep
  BY <1>1, <1>3, LeaderLeaves
<1>4. ASSUME NEW g \in Files, Prepare(p, g)
      PROVE  ~Unread(p, f) /\ expected'[p][f] = expected[p][f]
  <2> DEFINE h == Head(plan[p])
             ready == IF db.phase[ScopeOf[p]] = "deleting" THEN h ELSE h \cup {g}
             finish == \A x \in Work[p] \ {g} : x \in ready \/ answer[p][x] # "none"
  <2>1. /\ pc[p] = "prepare" /\ db' = db
        /\ expected' = [expected EXCEPT ![p][g] = db.bound[g]]
        /\ answer'[p] = [answer[p] EXCEPT ![g] = answer'[p][g]]
        /\ finish \/ (plan' = [plan EXCEPT ![p] = <<ready>>] /\ UNCHANGED pc)
    BY <1>4 DEF Prepare, PublisherOK
  <2>2. plan[p] = <<h>>
    BY <2>1 DEF Told, Pieces
  <2>3. Left(p) = h
    BY <2>2, FewPieces DEF Left
  <2>4. g # f /\ expected'[p][f] = expected[p][f] /\ answer'[p][f] = answer[p][f]
    BY <1>0, <2>1 DEF PublisherOK
  <2>5. ASSUME Unread(p, f) PROVE FALSE
    <3>1. f \notin ready /\ answer[p][f] = "none"
      BY <2>3, <2>4, <2>5 DEF Unread
    <3>2. plan'[p] = <<ready>> /\ pc'[p] = pc[p]
      BY <2>1, <2>4, <3>1 DEF PublisherOK
    <3> HIDE DEF ready
    <3>3. Left(p)' = ready
      BY <3>2, FewPieces DEF Left
    <3> QED
      BY <2>1, <2>4, <3>1, <3>2, <3>3 DEF Unread
  <2> QED
    BY <2>4, <2>5
<1>5. CASE ReadFresh(p)
  <2>1. PICK g \in Files : ReadFreshAs(p, g, db.bound[g])
    BY <1>5 DEF ReadFresh
  <2>2. pc[p] = "retry" /\ db' = db
    BY <2>1 DEF ReadFreshAs
  <2>3. expected' = expected \/ expected' = [expected EXCEPT ![p][g] = db.bound[g]]
    BY <2>1 DEF ReadFreshAs
  <2> QED
    BY <1>0, <2>2, <2>3 DEF Unread, PublisherOK
<1>6. CASE Submit(p) \/ TakeOk(p) \/ Bisect(p) \/ TakeErr(p)
  <2>1. pc[p] # "prepare" /\ expected' = expected
    BY <1>6 DEF Submit, TakeOk, TakeOkWith, Bisect, TakeErr, Returned
  <2> QED
    BY <2>1 DEF Unread
<1>7. CASE Sleep(p) \/ Lead(p)
  BY <1>1, <1>7 DEF Sleep, Lead, publisherVars
<1> QED
  BY <1>2, <1>3, <1>4, <1>5, <1>6, <1>7 DEF Next, PublisherStep

LEMMA NotSingle ==
    ASSUME PublisherOK, NEW p \in Publishers, single' = [single EXCEPT ![p] = FALSE]
    PROVE  ~single'[p]
<1>1. single \in [Publishers -> BOOLEAN]
  BY DEF PublisherOK
<1> QED
  BY <1>1, Zenon

\* A retry goes back to a failure of the file alone ...
LEMMA RetryBack ==
    ASSUME TInv, [Next]_vars, NEW p \in Publishers, NEW f \in Work[p], Singly(p),
           pc'[p] # "gone", OnRetry(p, f)'
    PROVE  \/ OnRetry(p, f)
           \/ batch[p] = {f} /\ Standing(p) = "err" /\ outcome[p] = "none"
<1> USE DEF TInv, IInv, TypeOK
<1>0. /\ Place(p) /\ plan[p] \in Seq(SUBSET Files) /\ batch[p] \in SUBSET Files
      /\ Pieces(p)
      /\ pc[p] \notin {"ready", "queued", "gone"} => ~single[p]
  BY DEF Placed, PublisherOK, Told, Singly
<1>1. ASSUME plan'[p] = plan[p], batch'[p] = batch[p], single'[p] = single[p],
             pc'[p] = pc[p]
      PROVE  OnRetry(p, f)
  BY <1>1 DEF OnRetry, OnSingle
<1>2. CASE \/ \E q \in Publishers \ {p} : PublisherStep(q)
           \/ OtherStep
           \/ UNCHANGED vars
  BY <1>1, <1>2, StandsAside DEF Aside
<1>3. CASE LeaderStep
  BY <1>1, <1>3, LeaderLeaves
<1>4. ASSUME NEW rest \in Seq(SUBSET Files), Proceed(p, rest), ~single'[p] PROVE FALSE
  <2>1. pc'[p] \in {"ready", "finished"}
    BY <1>4, ProceedOK
  <2> QED
    BY <1>4, <2>1 DEF OnRetry, OnSingle
<1>5. ASSUME NEW g \in Files, Prepare(p, g) PROVE FALSE
  <2>1. pc[p] = "prepare" /\ single' = single /\ ~single[p]
    BY <1>0, <1>5 DEF Prepare
  <2>2. pc'[p] # "retry"
    BY <1>5 DEF Prepare, Proceed, PublisherOK
  <2> QED
    BY <2>1, <2>2 DEF OnRetry, OnSingle
<1>6. CASE Submit(p)
  <2>1. pc[p] = "ready" /\ batch[p] = {} /\ plan[p] # <<>>
    BY <1>0, <1>6 DEF Submit, Place
  <2>2. CASE Head(plan[p]) \subseteq changed[p]
    <3>1. Tail(plan[p]) \in Seq(SUBSET Files) /\ Proceed(p, Tail(plan[p]))
      BY <1>6, <2>1, <2>2, HeadOK DEF Submit
    <3>2. ~single'[p]
      BY <1>6, <2>2, NotSingle DEF Submit
    <3> QED
      BY <1>4, <3>1, <3>2
  <2>3. CASE ~(Head(plan[p]) \subseteq changed[p])
    <3>1. single' = single /\ pc'[p] = "queued" /\ batch'[p] = Head(plan[p]) \ changed[p]
      BY <1>6, <2>3 DEF Submit, PublisherOK
    <3>2. single[p] /\ Head(plan[p]) \ changed[p] = {f}
      BY <3>1 DEF OnRetry, OnSingle
    <3>3. Head(plan[p]) = {f}
      BY <2>1, <3>2 DEF Singly
    <3> QED
      BY <2>1, <3>2, <3>3 DEF OnRetry, OnSingle
  <2> QED
    BY <2>2, <2>3
<1>7. CASE ReadFresh(p)
  <2>1. PICK g \in Files : ReadFreshAs(p, g, db.bound[g])
    BY <1>7 DEF ReadFresh
  <2>2. pc[p] = "retry" /\ batch[p] = {} /\ plan[p] # <<>> /\ ~single[p] /\ batch' = batch
    BY <1>0, <2>1 DEF ReadFreshAs, Place
  <2>3. CASE g \in changed[p]
    BY <1>4, <2>1, <2>2, <2>3, HeadOK DEF ReadFreshAs
  <2>4. CASE g \notin changed[p]
    <3>1. plan' = plan /\ pc'[p] = "ready"
      BY <2>1, <2>4 DEF ReadFreshAs, PublisherOK
    <3>2. Head(plan[p]) = {f}
      BY <2>2, <3>1 DEF OnRetry, OnSingle
    <3> QED
      BY <2>2, <3>2 DEF OnRetry
  <2> QED
    BY <2>3, <2>4
<1>8. CASE TakeOk(p)
  <2>1. ~single'[p] /\ Proceed(p, plan[p])
    BY <1>8, NotSingle DEF TakeOk, TakeOkWith
  <2> QED
    BY <1>0, <1>4, <2>1
<1>9. CASE Bisect(p)
  <2>1. PICK left \in SUBSET batch[p] : Proceed(p, <<left, batch[p] \ left>> \o plan[p])
    BY <1>9 DEF Bisect
  <2>2. <<left, batch[p] \ left>> \o plan[p] \in Seq(SUBSET Files)
    BY <1>0, PushOK
  <2>3. single' = single /\ pc[p] = "queued" /\ Cardinality(batch[p]) > 1
    BY <1>9 DEF Bisect, Returned
  <2>4. ASSUME NEW g \in Files, batch[p] = {g} PROVE FALSE
    BY <2>3, <2>4, FS_Singleton
  <2>5. ~single[p]
    BY <2>3, <2>4 DEF Singly
  <2> QED
    BY <1>4, <2>1, <2>2, <2>3, <2>5
<1>10. CASE TakeErr(p)
  <2>1. Returned(p) /\ result[p] = "err"
    BY <1>10 DEF TakeErr
  <2>2. CASE single[p]
    <3>1. ~single'[p] /\ Proceed(p, plan[p])
      BY <1>10, <2>2, NotSingle DEF TakeErr
    <3> QED
      BY <1>0, <1>4, <3>1
  <2>3. CASE ~single[p]
    <3>1. /\ plan'[p] = <<batch[p]>> \o plan[p] /\ pc'[p] = "retry" /\ single' = single
      BY <1>10, <2>3 DEF TakeErr, PublisherOK
    <3>2. Head(plan'[p]) = batch[p]
      <4>1. Apart(plan[p]) /\ batch[p] \cap Whole(plan[p]) = {}
        BY <1>0 DEF Pieces, Left
      <4> QED
        BY <1>0, <3>1, <4>1, PushPiece
    <3>3. batch[p] = {f}
      BY <2>3, <3>1, <3>2 DEF OnRetry, OnSingle
    <3>4. outcome[p] = "none" /\ Standing(p) = "err"
      BY <1>0, <2>1, <3>3 DEF Place, Open, Standing
    <3> QED
      BY <3>3, <3>4
  <2> QED
    BY <2>2, <2>3
<1>11. CASE Sleep(p) \/ Lead(p)
  BY <1>1, <1>11 DEF Sleep, Lead, publisherVars
<1> QED
  BY <1>2, <1>3, <1>5, <1>6, <1>7, <1>8, <1>9, <1>10, <1>11 DEF Next, PublisherStep

\* ... and once it is in its fresh retry, it has read what was bound.
LEMMA SingleBack ==
    ASSUME TInv, [Next]_vars, NEW p \in Publishers, NEW f \in Work[p], Singly(p),
           pc'[p] # "gone", OnSingle(p, f)'
    PROVE  OnSingle(p, f) \/ (expected'[p][f] = db'.bound[f])
<1> USE DEF TInv, IInv, TypeOK
<1>1. CASE ReadFresh(p)
  <2>1. PICK g \in Files : ReadFreshAs(p, g, db.bound[g])
    BY <1>1 DEF ReadFresh
  <2>2. /\ pc[p] = "retry" /\ batch[p] = {} /\ plan[p] # <<>> /\ ~single[p]
        /\ batch' = batch /\ db' = db
    BY <2>1 DEF ReadFreshAs, Placed, Place, Singly
  <2>3. CASE g \in changed[p]
    <3>1. single' = single
      BY <2>1, <2>3 DEF ReadFreshAs
    <3> QED
      BY <2>2, <3>1 DEF OnSingle
  <2>4. CASE g \notin changed[p]
    <3>1. /\ plan' = plan /\ Head(plan[p]) = {g} /\ f \in Files
          /\ expected' = [expected EXCEPT ![p][g] = db.bound[g]]
      BY <2>1, <2>4, WorkAssumption DEF ReadFreshAs
    <3>2. g = f
      BY <2>2, <3>1 DEF OnSingle
    <3> QED
      BY <2>2, <3>1, <3>2 DEF PublisherOK
  <2> QED
    BY <2>3, <2>4
<1>2. CASE ~ReadFresh(p)
  <2>1. OnRetry(p, f)'
    BY DEF OnRetry
  <2>2. single[p]
    <3>1. ASSUME ~single[p] PROVE ~single'[p]
      <4>1. CASE \/ \E q \in Publishers \ {p} : PublisherStep(q)
                 \/ OtherStep
                 \/ UNCHANGED vars
        BY <3>1, <4>1, StandsAside DEF Aside
      <4>2. CASE LeaderStep
        BY <3>1, <4>2, LeaderLeaves
      <4>3. CASE PublisherStep(p)
        <5>1. single' = single \/ single' = [single EXCEPT ![p] = FALSE]
          BY <1>2, <4>3 DEF PublisherStep, Prepare, Submit, TakeOk, TakeOkWith, Bisect, TakeErr,
                            Sleep, Lead, publisherVars
        <5> QED
          BY <3>1, <5>1, NotSingle
      <4> QED
        BY <4>1, <4>2, <4>3 DEF Next
    <3> QED
      BY <3>1 DEF OnSingle
  <2>3. CASE OnRetry(p, f)
    <3>1. pc[p] # "retry"
      <4>1. CASE pc[p] # "gone"
        BY <2>2, <4>1 DEF Singly
      <4> QED
        BY <4>1
    <3> QED
      BY <2>3, <3>1 DEF OnRetry
  <2>4. CASE batch[p] = {f}
    BY <2>2, <2>4 DEF OnSingle
  <2> QED
    BY <2>1, <2>3, <2>4, RetryBack
<1> QED
  BY <1>1, <1>2

-----------------------------------------------------------------------------
(* The parts of the invariant.                                             *)

LEMMA GoneStays ==
    ASSUME TInv, [Next]_vars, NEW p \in Publishers, pc'[p] # "gone" PROVE pc[p] # "gone"
<1> USE DEF TInv, IInv, TypeOK
<1>1. CASE \/ \E q \in Publishers \ {p} : PublisherStep(q)
           \/ OtherStep
           \/ UNCHANGED vars
  BY <1>1, StandsAside DEF Aside
<1>2. CASE LeaderStep
  BY <1>2, LeaderLeaves
<1>3. CASE PublisherStep(p)
  BY <1>3 DEF PublisherStep, Prepare, Submit, ReadFresh, ReadFreshAs, TakeOk, TakeOkWith, Bisect,
              TakeErr, Returned, Sleep, Lead
<1> QED
  BY <1>1, <1>2, <1>3 DEF Next

\* A failed request of one file failed before, or the leader fails it now.
LEMMA NewErr ==
    ASSUME TInv, [Next]_vars, NEW p \in Publishers, NEW f \in Files,
           batch'[p] = {f}, Standing(p)' = "err"
    PROVE  /\ batch[p] = {f} /\ single'[p] = single[p]
           /\ Standing(p) = "err" \/ (LeaderStep /\ Standing(p) # "err")
<1> USE DEF TInv, IInv, TypeOK
<1>1. CASE \/ \E q \in Publishers \ {p} : PublisherStep(q)
           \/ OtherStep
           \/ UNCHANGED vars
  BY <1>1, StandsAside DEF Aside
<1>2. CASE LeaderStep
  BY <1>2, LeaderLeaves
<1>3. CASE PublisherStep(p)
  <2>1. Place(p)
    BY DEF Placed
  <2>2. ASSUME (\E g \in Files : Prepare(p, g)) \/ ReadFresh(p) PROVE FALSE
    BY <2>1, <2>2 DEF Prepare, ReadFresh, ReadFreshAs, Place
  <2>3. ASSUME TakeOk(p) \/ Bisect(p) \/ TakeErr(p) PROVE FALSE
    <3>1. Returned(p)
      BY <2>3 DEF TakeOk, TakeOkWith, Bisect, TakeErr
    <3> QED
      BY <3>1 DEF Returned, PublisherOK
  <2>4. ASSUME Submit(p) PROVE FALSE
    <3>1. batch[p] = {} /\ result' = result /\ outcome' = outcome
      BY <2>1, <2>4 DEF Submit, Place, leaderVars
    <3>2. result'[p] = "none" /\ outcome'[p] = "none"
      BY <2>1, <3>1 DEF Place, Open
    <3> QED
      BY <3>2 DEF Standing
  <2>5. CASE Sleep(p) \/ Lead(p)
    BY <2>5, StandingKept DEF Sleep, Lead, leaderVars, publisherVars
  <2> QED
    BY <1>3, <2>2, <2>3, <2>4, <2>5 DEF PublisherStep
<1> QED
  BY <1>1, <1>2, <1>3 DEF Next

LEMMA MovedKept ==
    ASSUME TInv, [Next]_vars, NEW p \in Publishers, NEW f \in Work[p], pc'[p] # "gone",
           Moved(p, f)
    PROVE  Moved(p, f)'
<1> SUFFICES ASSUME ~Unread(p, f)', ~Done(p, f)', db'.bound[f] # expected'[p][f]
             PROVE  SomeOver(p, f)'
  BY DEF Moved
<1>1. f \in Files
  BY WorkAssumption
<1>2. CASE db'.bound[f] # db.bound[f]
  BY <1>2, RivalMoved DEF SomeOver, Sharing
<1>3. CASE db'.bound[f] = db.bound[f]
  <2>1. ~Unread(p, f) /\ expected'[p][f] = expected[p][f]
    BY ReadNow
  <2>2. ~Done(p, f)
    BY <1>1, OverKept
  <2>3. SomeOver(p, f)
    BY <1>3, <2>1, <2>2 DEF Moved
  <2> QED
    BY <1>1, <2>3, SomeOverKept
<1> QED
  BY <1>2, <1>3

\* A rival that was applied before p was rejected is replayed without p, and
\* nothing else can be in its way.
LEMMA ComesNow ==
    ASSUME TInv, Leading, NEW p \in Publishers, NEW f \in Work[p], Few(p, f), Reject(p),
           NEW r \in Sharing(p, f), r \in applied, f \in batch[r]
    PROVE  Coming(p, r, f)'
<1> USE DEF TInv, IInv, TypeOK
<1>1. /\ Writing /\ p \in Undecided \ applied
      /\ outcome' = [q \in Publishers |-> IF q \in {p} THEN "err" ELSE outcome[q]]
      /\ stage' = IF Undecided \subseteq {p} THEN "store" ELSE "writer"
      /\ UNCHANGED <<db, group, batch, expected>>
  BY DEF Reject, RejectWith, IsNext, Writing, publisherVars
<1>2. r \in Undecided /\ r \in Publishers /\ r # p /\ p \in Elements(group)
  BY <1>1, AppliedOK, UndecidedPending
<1>3. stage' = "writer" /\ outcome'[p] = "err"
  BY <1>1, <1>2
<1>4. r \in Undecided'
  BY <1>1, <1>2 DEF Undecided
<1>5. ASSUME NEW g \in batch[r], NEW x \in applied \ {r}, g \in put[x] PROVE FALSE
  <2>1. x \in Publishers /\ g \in Work[x] /\ g \in Work[r] /\ x # p
    BY <1>1, <1>5, AppliedOK
  <2>2. x \in Rivals(p, f) /\ r \in Rivals(p, f)
    BY <2>1, SharingRivals DEF Rivals
  <2> QED
    BY <1>5, <2>2 DEF Few
<1>6. \A g \in batch[r] : db.bound[g] \in {expected[r][g], Want[r][g]}
  BY <1>1, <1>5 DEF Leading, Based
<1> QED
  BY <1>1, <1>2, <1>3, <1>4, <1>6 DEF Coming

LEMMA FirstKept ==
    ASSUME TInv, Leading, [Next]_vars, NEW p \in Publishers, NEW f \in Work[p],
           Few(p, f), Held(p), Moved(p, f), First(p, f)
    PROVE  First(p, f)'
<1> SUFFICES ASSUME batch'[p] = {f}, Standing(p)' = "err"
             PROVE  Faulty' \/ SomeOver(p, f)' \/ \E q \in Sharing(p, f) : Coming(p, q, f)'
  BY DEF First, Sharing
<1>0. f \in Files /\ IInv
  BY WorkAssumption DEF TInv
<1>1. batch[p] = {f} /\ (Standing(p) = "err" \/ (LeaderStep /\ Standing(p) # "err"))
  BY <1>0, NewErr
<1>2. CASE Standing(p) = "err"
  <2>1. Faulty \/ SomeOver(p, f) \/ \E q \in Sharing(p, f) : Coming(p, q, f)
    BY <1>1, <1>2 DEF First
  <2>2. CASE Faulty
    BY <1>0, <2>2, FaultyKept
  <2>3. CASE SomeOver(p, f)
    BY <1>0, <2>3, SomeOverKept
  <2>4. ASSUME NEW q \in Sharing(p, f), Coming(p, q, f)
        PROVE  Faulty' \/ SomeOver(p, f)' \/ Coming(p, q, f)'
    <3>1. Coming(p, q, f)' \/ Over(q, f)' \/ Faulty'
      BY <2>4, ComingKept
    <3> QED
      BY <3>1 DEF SomeOver, Sharing
  <2> QED
    BY <2>1, <2>2, <2>3, <2>4
<1>3. CASE LeaderStep /\ Standing(p) # "err"
  <2>1. \/ faults' = faults + 1 /\ stage' # "broken"
        \/ stage = "broken" /\ stage' = "store" /\ faults' = faults
        \/ Reject(p)
    BY <1>3, WhyErr
  <2>2. CASE faults' = faults + 1 /\ stage' # "broken"
    BY <1>0, <2>2, FaultsGrow DEF Faulty
  <2>3. CASE stage = "broken" /\ stage' = "store" /\ faults' = faults
    BY <2>3 DEF Leading, Broken, Faulty
  <2>4. CASE Reject(p)
    <3>1. \/ db.bound[f] # expected[p][f] /\ ~Done(p, f) /\ ~Unread(p, f)
          \/ \E r \in Sharing(p, f) : r \in applied /\ f \in batch[r]
      BY <1>1, <2>4, WhyRejected
    <3>2. CASE db.bound[f] # expected[p][f] /\ ~Done(p, f) /\ ~Unread(p, f)
      BY <1>0, <3>2, SomeOverKept DEF Moved
    <3>3. CASE \E r \in Sharing(p, f) : r \in applied /\ f \in batch[r]
      BY <2>4, <3>3, ComesNow
    <3> QED
      BY <3>1, <3>2, <3>3
  <2> QED
    BY <2>1, <2>2, <2>3, <2>4
<1> QED
  BY <1>1, <1>2, <1>3

LEMMA AgainKept ==
    ASSUME TInv, [Next]_vars, NEW p \in Publishers, NEW f \in Work[p], Singly(p),
           pc'[p] # "gone", First(p, f), Again(p, f)
    PROVE  Again(p, f)'
<1> SUFFICES ASSUME OnRetry(p, f)' PROVE Faulty' \/ SomeOver(p, f)'
  BY DEF Again
<1>1. Faulty \/ SomeOver(p, f)
  <2>1. CASE OnRetry(p, f)
    BY <2>1 DEF Again
  <2>2. CASE batch[p] = {f} /\ Standing(p) = "err" /\ outcome[p] = "none"
    BY <2>2 DEF First, Coming
  <2> QED
    BY <2>1, <2>2, RetryBack
<1>2. f \in Files /\ IInv
  BY WorkAssumption DEF TInv
<1> QED
  BY <1>1, <1>2, FaultyKept, SomeOverKept

LEMMA FreshKept ==
    ASSUME TInv, [Next]_vars, NEW p \in Publishers, NEW f \in Work[p], Singly(p), Few(p, f),
           pc'[p] # "gone", Again(p, f), Fresh(p, f)
    PROVE  Fresh(p, f)'
<1> SUFFICES ASSUME OnSingle(p, f)', ~Done(p, f)', faults' = 0, db'.bound[f] # expected'[p][f]
             PROVE  FALSE
  BY DEF Fresh
<1>1. f \in Files /\ faults = 0 /\ ~Done(p, f)
  BY WorkAssumption, FaultsGrow, OverKept DEF TInv
<1>2. OnSingle(p, f) /\ db.bound[f] = expected[p][f]
  BY <1>1, SingleBack DEF Fresh
<1>3. ~Unread(p, f)'
  <2>1. Singly(p)' /\ single'[p]
    BY SinglyKept DEF OnSingle
  <2> QED
    BY <2>1 DEF Singly, Unread
<1>4. db'.bound[f] # db.bound[f]
  BY <1>2, <1>3, ReadNow
<1>5. PICK r \in Sharing(p, f) : Over(r, f)' /\ ~Over(r, f)
  BY <1>4, RivalMoved
<1>6. PICK q \in Sharing(p, f) : Over(q, f)
  BY <1>1, <1>2 DEF Again, OnRetry, Faulty, SomeOver
<1>7. q = r
  BY SharingRivals DEF Few
<1> QED
  BY <1>5, <1>6, <1>7

LEMMA LastKept ==
    ASSUME TInv, Leading, [Next]_vars, NEW p \in Publishers, NEW f \in Work[p],
           Few(p, f), Held(p), Moved(p, f), Again(p, f), Fresh(p, f), Last(p, f)
    PROVE  Last(p, f)'
<1> SUFFICES ASSUME single'[p], batch'[p] = {f}, Standing(p)' = "err" PROVE Twice(p, f)'
  BY DEF Last
<1>0. f \in Files /\ IInv
  BY WorkAssumption DEF TInv
<1>1. /\ batch[p] = {f} /\ single[p]
      /\ Standing(p) = "err" \/ (LeaderStep /\ Standing(p) # "err")
  BY <1>0, NewErr
<1>2. CASE Standing(p) = "err"
  BY <1>0, <1>1, <1>2, FaultyKept DEF Last
<1>3. CASE LeaderStep /\ Standing(p) # "err"
  <2>0. faults \in Nat /\ faults' \in Nat /\ faults <= faults'
    BY <1>0, FaultsGrow
  <2>1. Faulty \/ SomeOver(p, f)
    BY <1>1 DEF Again, OnRetry, OnSingle
  <2>2. faults >= 1 \/ Sharing(p, f) # {}
    BY <2>1 DEF Faulty, SomeOver
  <2>3. CASE faults' = faults + 1 /\ stage' # "broken"
    BY <2>0, <2>2, <2>3 DEF Twice, Sharing
  <2>4. CASE stage = "broken" /\ stage' = "store" /\ faults' = faults
    BY <2>0, <2>1, <2>4 DEF Leading, Broken, Faulty, SomeOver, Twice, Sharing
  <2>5. CASE Reject(p)
    <3>1. \/ db.bound[f] # expected[p][f] /\ ~Done(p, f) /\ ~Unread(p, f)
          \/ \E r \in Sharing(p, f) : r \in applied /\ f \in batch[r]
      BY <1>1, <2>5, WhyRejected
    <3>2. CASE db.bound[f] # expected[p][f] /\ ~Done(p, f) /\ ~Unread(p, f)
      <4>1. faults # 0 /\ SomeOver(p, f)
        BY <1>1, <3>2 DEF Fresh, OnSingle, Moved
      <4> QED
        BY <2>0, <4>1 DEF SomeOver, Twice, Sharing
    <3>3. ASSUME NEW r \in Sharing(p, f), r \in applied, f \in batch[r] PROVE Twice(p, f)'
      <4>1. Writing
        BY <2>5 DEF Reject, RejectWith, Writing
      <4>2. ~Over(r, f)
        BY <3>3, <4>1, AppliedOK, NotOver
      <4>3. ~SomeOver(p, f)
        BY <4>2, SharingRivals DEF SomeOver, Few
      <4>4. faults >= 1
        BY <2>1, <4>3 DEF Faulty
      <4> QED
        BY <2>0, <4>4 DEF Twice, Sharing
    <3> QED
      BY <3>1, <3>2, <3>3
  <2> QED
    BY <1>3, <2>3, <2>4, <2>5, WhyErr
<1> QED
  BY <1>1, <1>2, <1>3

LEMMA FailedKept ==
    ASSUME TInv, [Next]_vars, NEW p \in Publishers, NEW f \in Work[p], Singly(p), Held(p),
           pc[p] # "gone" => Last(p, f), Failed(p, f)
    PROVE  Failed(p, f)'
<1> USE DEF TInv, IInv, TypeOK
<1> SUFFICES ASSUME answer'[p][f] = "err", f \notin changed'[p] PROVE Twice(p, f)'
  BY DEF Failed
<1>0. f \in Files
  BY WorkAssumption
<1>1. ASSUME answer[p][f] = "err", changed[p] \subseteq changed'[p] PROVE Twice(p, f)'
  BY <1>1, FaultyKept DEF Failed
<1>2. CASE \/ \E q \in Publishers \ {p} : PublisherStep(q)
           \/ OtherStep
           \/ UNCHANGED vars
  BY <1>1, <1>2, StandsAside DEF Aside
<1>3. CASE LeaderStep
  BY <1>1, <1>3, LeaderLeaves
<1>4. CASE PublisherStep(p)
  <2>0. changed' = changed /\ f \notin changed[p]
    BY <1>4, LeavesOthers DEF OwnStep
  <2>1. CASE answer[p][f] = "err"
    BY <1>1, <2>0, <2>1
  <2>2. CASE answer[p][f] # "err"
    <3>1. ASSUME NEW g \in Files, Prepare(p, g) PROVE FALSE
      <4>1. answer' = [answer EXCEPT ![p][g] = @]
        BY <3>1 DEF Prepare, Held
      <4> QED
        BY <1>0, <2>2, <4>1 DEF PublisherOK
    <3>2. ASSUME Submit(p) PROVE FALSE
      BY <1>0, <2>0, <2>2, <3>2 DEF Submit, PublisherOK
    <3>3. ASSUME ReadFresh(p) PROVE FALSE
      <4>1. PICK g \in Files : ReadFreshAs(p, g, db.bound[g])
        BY <3>3 DEF ReadFresh
      <4> QED
        BY <1>0, <2>0, <2>2, <4>1 DEF ReadFreshAs, PublisherOK
    <3>4. ASSUME TakeOk(p) PROVE FALSE
      <4>1. answer'[p][f] = IF f \notin batch[p] THEN answer[p][f]
                            ELSE IF f \in put[p] THEN "bound" ELSE "missing"
        BY <1>0, <3>4 DEF TakeOk, TakeOkWith, PublisherOK
      <4> QED
        BY <2>2, <4>1
    <3>5. ASSUME Bisect(p) \/ Sleep(p) \/ Lead(p) PROVE FALSE
      BY <2>2, <3>5 DEF Bisect, Sleep, Lead, publisherVars
    <3>6. CASE TakeErr(p)
      <4>1. pc[p] = "queued" /\ result[p] = "err"
        BY <3>6 DEF TakeErr, Returned
      <4>2. single[p] /\ f \in batch[p]
        BY <1>0, <2>2, <3>6 DEF TakeErr, PublisherOK
      <4>3. batch[p] = {f}
        BY <4>1, <4>2 DEF Singly
      <4>4. Standing(p) = "err"
        BY <4>1, <4>3 DEF Standing
      <4> QED
        BY <4>1, <4>2, <4>3, <4>4, FaultyKept DEF Last
    <3> QED
      BY <1>4, <3>1, <3>2, <3>3, <3>4, <3>5, <3>6 DEF PublisherStep
  <2> QED
    BY <2>1, <2>2
<1> QED
  BY <1>2, <1>3, <1>4 DEF Next

LEMMA StepSteady ==
    ASSUME TInv, Leading, [Next]_vars, NEW p \in Publishers, Singly(p), Steady(p)
    PROVE  Steady(p)'
<1> SUFFICES ASSUME NEW f \in Work[p], Few(p, f)', Held(p)'
             PROVE  Trying(p, f)' /\ Failed(p, f)'
  BY DEF Steady
<1>1. Few(p, f) /\ Held(p)
  BY HeldBack DEF Few, Rivals, Sharing, Leading
<1>2. Trying(p, f) /\ Failed(p, f)
  BY <1>1 DEF Steady
<1>3. Failed(p, f)'
  BY <1>1, <1>2, FailedKept DEF Trying
<1>4. ASSUME pc'[p] # "gone"
      PROVE  Moved(p, f)' /\ First(p, f)' /\ Again(p, f)' /\ Fresh(p, f)' /\ Last(p, f)'
  <2>1. Moved(p, f) /\ First(p, f) /\ Again(p, f) /\ Fresh(p, f) /\ Last(p, f)
    BY <1>2, <1>4, GoneStays DEF Trying
  <2> QED
    BY <1>1, <1>4, <2>1, MovedKept, FirstKept, AgainKept, FreshKept, LastKept
<1> QED
  BY <1>3, <1>4 DEF Trying

-----------------------------------------------------------------------------

LEMMA InitSteady == Init => RInv
<1> SUFFICES ASSUME Init PROVE Leading /\ \A p \in Publishers : Singly(p) /\ Steady(p)
  BY InitTold DEF RInv
<1>1. Leading
  BY DEF Init, Leading, Phases, Based, Broken, Writing
<1>2. ASSUME NEW p \in Publishers PROVE Singly(p) /\ Steady(p)
  <2>1. /\ pc[p] = "prepare" /\ plan[p] = <<{}>> /\ batch[p] = {} /\ ~single[p]
        /\ \A f \in Work[p] : answer[p][f] = "none"
    BY WorkAssumption DEF Init
  <2>2. Left(p) = {}
    BY <2>1, FewPieces DEF Left
  <2>3. ASSUME NEW f \in Work[p] PROVE Trying(p, f) /\ Failed(p, f)
    BY <2>1, <2>2 DEF Trying, Moved, Unread, First, Again, OnRetry, OnSingle, Fresh, Last, Failed
  <2> QED
    BY <2>1, <2>3 DEF Singly, Steady
<1> QED
  BY <1>1, <1>2

\* Resilient: a file of a publisher that is answered with an error, although
\* its source did not change and its scope stands, met two disturbances: faults
\* of the writer, or rivals.  Bisection in publish_subset isolates the file, and
\* the fresh retry sees the binding of the rival that made it fail.
THEOREM Resists == Spec => []Resilient
<1>1. RInv /\ [Next]_vars => RInv'
  BY StepTold, LeadingKept, SinglyKept, StepSteady DEF RInv
<1>2. RInv => Resilient
  <2> SUFFICES ASSUME RInv, NEW p \in Publishers, NEW f \in Work[p], answer[p][f] = "err",
                      f \notin changed[p], db.phase[ScopeOf[p]] # "deleting"
               PROVE  faults + Cardinality(Rivals(p, f)) >= 2
    BY DEF Resilient
  <2> DEFINE n == Cardinality(Rivals(p, f))
  <2>1. faults \in Nat
    BY BoundAssumption DEF RInv, TInv, IInv, TypeOK, StoreOK
  <2>2. IsFiniteSet(Rivals(p, f)) /\ n \in Nat
    BY NamesAssumption, FS_Subset, FS_CardinalityType DEF Rivals
  <2>3. ASSUME NEW T \in SUBSET Rivals(p, f) PROVE Cardinality(T) <= n
    BY <2>2, FS_Subset
  <2>4. CASE Few(p, f)
    <3>1. Twice(p, f)
      BY <2>4 DEF RInv, Steady, Held, Failed
    <3>2. CASE faults >= 2
      BY <2>1, <2>2, <3>2
    <3>3. CASE faults >= 1 /\ Sharing(p, f) # {}
      <4>1. n # 0
        BY <2>2, <3>3, FS_EmptySet, SharingRivals
      <4> QED
        BY <2>1, <2>2, <3>3, <4>1
    <3> QED
      BY <3>1, <3>2, <3>3 DEF Twice
  <2>5. CASE ~Few(p, f)
    <3>1. PICK r \in Rivals(p, f), s \in Rivals(p, f) : r # s
      BY <2>5 DEF Few
    <3>2. n # 0
      BY <2>2, <3>1, FS_EmptySet
    <3>3. n # 1
      BY <2>2, <3>1, FS_Singleton
    <3> QED
      BY <2>1, <2>2, <3>2, <3>3
  <2> QED
    BY <2>4, <2>5
<1> QED
  BY <1>1, <1>2, InitSteady, PTL DEF Spec
=============================================================================
