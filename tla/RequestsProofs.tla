---------------------------- MODULE RequestsProofs ----------------------------
(***************************************************************************)
(* Proofs about the components that answer one request:                    *)
(*                                                                         *)
(*   PackageView       a seal may be cut anywhere (RecoveredFirst), and    *)
(*                     what it publishes is all that was written           *)
(*                     (OnlyBuildsShow, PublishesAll);                     *)
(*   QueryFlow         a query evaluates what was indexed after it         *)
(*                     arrived, while the branch stands still (FlowTrue);  *)
(*   WorkspaceRefresh  what is served is as new as the question, and       *)
(*                     manifest and bindings agree (WorkspaceTrue);        *)
(*   SourceJobs        one job of a group writes, and no superseded job    *)
(*                     publishes (SourcesTrue);                            *)
(*   AssetJobs         an index describes the revision it was asked for    *)
(*                     (AssetsTrue).                                       *)
(***************************************************************************)
EXTENDS Requests, TLAPS

-----------------------------------------------------------------------------
(***************************************************************************)
(* Package view                                                            *)
(*                                                                         *)
(* Why a seal may be cut anywhere: the writes above are cleared only where *)
(* the journal names the generation below, and then each of them is in     *)
(* that directory already.                                                 *)
(***************************************************************************)

\* Every write above is what the directory below holds.
Folded == \A f \in Files : upper[f] = Same \/ upper[f] = lower[f]

\* What is known of the view at each step of the session that holds it.
Phases ==
  \A s \in Sessions :
    /\ pc[s] \in {"opened", "import", "ready"} => journal = None /\ stage = None
    /\ pc[s] \in {"merge", "stamp", "journal"} => journal = None
    /\ pc[s] \in {"merge", "stamp", "journal", "exchange"} =>
         stage = seals /\ generation # seals
    /\ pc[s] \in {"stamp", "journal", "exchange"} => staged = Merge
    /\ pc[s] \in {"journal", "exchange"} => stamp = stage
    /\ pc[s] = "exchange" => journal = stage
    /\ pc[s] = "clear" => journal # None /\ generation = journal
    /\ pc[s] = "unjournal" => stage = None
    /\ pc[s] = "import" => ~imported
    /\ pc[s] = "ready" => imported

\* Names are not used twice.
Named ==
  /\ generation # None => generation <= seals
  /\ journal # None => journal <= seals

\* A journal that matches the generation below vouches for the writes above.
Vouched == journal # None /\ generation = journal => Folded

\* No build runs before the import is done.
ImportsFirst == ~imported => writes = 0

IInv == TypeOK /\ Phases /\ Named /\ Vouched /\ ImportsFirst

-----------------------------------------------------------------------------
\* The merged view is made of contents, whiteouts and links.
LEMMA MergeType ==
  ASSUME lower \in [Files -> Written], upper \in [Files -> Written \union {Same}]
  PROVE  Merge \in [Files -> Written]
BY DEF Merge

\* The lock admits one session.
LEMMA Alone ==
  ASSUME TypeOK, NEW s \in Sessions, pc[s] # "closed"
  PROVE  /\ lock = s
         /\ \A t \in Sessions \ {s} : pc[t] = "closed"
BY NoneAssumption DEF TypeOK

\* The program starts in the invariant.
LEMMA InitInvariant == Init => IInv
<1>1. ASSUME Init PROVE TypeOK
  <2>1. lower \in [Files -> Written] /\ staged \in [Files -> Written]
    BY <1>1 DEF Init, Written, Empty
  <2>2. upper \in [Files -> Written \union {Same}]
    BY <1>1 DEF Init, Clean
  <2>3. imported \in BOOLEAN /\ pc \in [Sessions -> Steps]
    BY <1>1 DEF Init, Steps
  <2>4. \A s \in Sessions : pc[s] # "closed" <=> lock = s
    BY <1>1, NoneAssumption DEF Init
  <2>. QED BY <1>1, <2>1, <2>2, <2>3, <2>4 DEF Init, TypeOK
<1>2. Init => Phases /\ Named /\ Vouched /\ ImportsFirst
  BY DEF Init, Phases, Named, Vouched, ImportsFirst
<1>. QED BY <1>1, <1>2 DEF IInv

\* A session takes the free lock.
LEMMA OpenStep ==
  ASSUME IInv, NEW s \in Sessions, Open(s)
  PROVE  IInv'
<1>1. lock = None /\ \A t \in Sessions : pc[t] = "closed"
  BY NoneAssumption DEF IInv, TypeOK, Open, LockFree
<1>2. TypeOK'
  BY <1>1, MergeType, ValueAssumption, NoneAssumption
     DEF IInv, TypeOK, Open, LockFree, At, Steps, Sealing, Written, Empty, below,
         staging, counts
<1>3. Phases'
  BY <1>1, ValueAssumption, NoneAssumption
     DEF IInv, TypeOK, Phases, Named, Open, LockFree, At, Sealing, Merge, below,
         staging, counts
<1>4. Named'
  BY <1>1, NoneAssumption DEF IInv, TypeOK, Phases, Named, Open, LockFree, At,
     Initial, below, staging, counts
<1>5. Vouched'
  BY <1>1, NoneAssumption
     DEF IInv, TypeOK, Phases, Named, Vouched, Folded, Open, LockFree, At, Merge,
         Clean, below, staging, counts
<1>6. ImportsFirst'
  BY <1>1 DEF IInv, Phases, ImportsFirst, Open, LockFree, At, below, staging, counts
<1>. QED BY <1>2, <1>3, <1>4, <1>5, <1>6 DEF IInv

\* Recovery clears writes only if they are vouched for.
LEMMA RecoverStep ==
  ASSUME IInv, NEW s \in Sessions, Recover(s)
  PROVE  IInv'
<1>1. lock = s /\ \A t \in Sessions \ {s} : pc[t] = "closed"
  BY Alone DEF IInv, Recover, Installed
<1>2. TypeOK'
  BY <1>1, MergeType, ValueAssumption, NoneAssumption
     DEF IInv, TypeOK, Recover, Installed, Steps, Sealing, Written, Empty, below,
         staging, counts
<1>3. Phases'
  BY <1>1, ValueAssumption, NoneAssumption
     DEF IInv, TypeOK, Phases, Named, Recover, Installed, Sealing, Merge, below,
         staging, counts
<1>4. Named'
  BY <1>1, NoneAssumption DEF IInv, TypeOK, Phases, Named, Recover, Installed,
     Initial, below, staging, counts
<1>5. Vouched'
  BY <1>1, NoneAssumption
     DEF IInv, TypeOK, Phases, Named, Vouched, Folded, Recover, Installed, Merge,
         Clean, below, staging, counts
<1>6. ImportsFirst'
  BY <1>1 DEF IInv, Phases, ImportsFirst, Recover, Installed, below, staging, counts
<1>. QED BY <1>2, <1>3, <1>4, <1>5, <1>6 DEF IInv

\* A cleared write was in the directory below.
LEMMA ClearStep ==
  ASSUME IInv, NEW s \in Sessions, Clear(s)
  PROVE  IInv'
<1>1. lock = s /\ \A t \in Sessions \ {s} : pc[t] = "closed"
  BY Alone DEF IInv, Clear
<1>2. TypeOK'
  BY <1>1, MergeType, ValueAssumption, NoneAssumption
     DEF IInv, TypeOK, Clear, Steps, Sealing, Written, Empty, below, staging, counts
<1>3. Phases'
  BY <1>1, ValueAssumption, NoneAssumption
     DEF IInv, TypeOK, Phases, Named, Clear, Sealing, Merge, below, staging, counts
<1>4. Named'
  BY <1>1, NoneAssumption DEF IInv, TypeOK, Phases, Named, Clear, Initial, below,
     staging, counts
<1>5. Vouched'
  BY <1>1, NoneAssumption
     DEF IInv, TypeOK, Phases, Named, Vouched, Folded, Clear, Merge, Clean, below,
         staging, counts
<1>6. ImportsFirst'
  BY <1>1 DEF IInv, Phases, ImportsFirst, Clear, below, staging, counts
<1>. QED BY <1>2, <1>3, <1>4, <1>5, <1>6 DEF IInv

\* Nothing is left above.
LEMMA ClearedStep ==
  ASSUME IInv, NEW s \in Sessions, Cleared(s)
  PROVE  IInv'
<1>1. lock = s /\ \A t \in Sessions \ {s} : pc[t] = "closed"
  BY Alone DEF IInv, Cleared, At
<1>2. TypeOK'
  BY <1>1, MergeType, ValueAssumption, NoneAssumption
     DEF IInv, TypeOK, Cleared, At, Steps, Sealing, Written, Empty, below, staging,
         counts
<1>3. Phases'
  BY <1>1, ValueAssumption, NoneAssumption
     DEF IInv, TypeOK, Phases, Named, Cleared, At, Sealing, Merge, below, staging,
         counts
<1>4. Named'
  BY <1>1, NoneAssumption DEF IInv, TypeOK, Phases, Named, Cleared, At, Initial,
     below, staging, counts
<1>5. Vouched'
  BY <1>1, NoneAssumption
     DEF IInv, TypeOK, Phases, Named, Vouched, Folded, Cleared, At, Merge, Clean,
         below, staging, counts
<1>6. ImportsFirst'
  BY <1>1 DEF IInv, Phases, ImportsFirst, Cleared, At, below, staging, counts
<1>. QED BY <1>2, <1>3, <1>4, <1>5, <1>6 DEF IInv

\* The stage goes before the journal.
LEMMA UnstageStep ==
  ASSUME IInv, NEW s \in Sessions, Unstage(s)
  PROVE  IInv'
<1>1. lock = s /\ \A t \in Sessions \ {s} : pc[t] = "closed"
  BY Alone DEF IInv, Unstage, At
<1>2. TypeOK'
  BY <1>1, MergeType, ValueAssumption, NoneAssumption
     DEF IInv, TypeOK, Unstage, At, Steps, Sealing, Written, Empty, below, staging,
         counts
<1>3. Phases'
  BY <1>1, ValueAssumption, NoneAssumption
     DEF IInv, TypeOK, Phases, Named, Unstage, At, Sealing, Merge, below, staging,
         counts
<1>4. Named'
  BY <1>1, NoneAssumption DEF IInv, TypeOK, Phases, Named, Unstage, At, Initial,
     below, staging, counts
<1>5. Vouched'
  BY <1>1, NoneAssumption
     DEF IInv, TypeOK, Phases, Named, Vouched, Folded, Unstage, At, Merge, Clean,
         below, staging, counts
<1>6. ImportsFirst'
  BY <1>1 DEF IInv, Phases, ImportsFirst, Unstage, At, below, staging, counts
<1>. QED BY <1>2, <1>3, <1>4, <1>5, <1>6 DEF IInv

\* The journal goes last.
LEMMA UnjournalStep ==
  ASSUME IInv, NEW s \in Sessions, Unjournal(s)
  PROVE  IInv'
<1>1. lock = s /\ \A t \in Sessions \ {s} : pc[t] = "closed"
  BY Alone DEF IInv, Unjournal, JournalRemoved, At
<1>2. TypeOK'
  BY <1>1, MergeType, ValueAssumption, NoneAssumption
     DEF IInv, TypeOK, Unjournal, JournalRemoved, At, Steps, Sealing, Written, Empty,
         below, staging, counts
<1>3. Phases'
  BY <1>1, ValueAssumption, NoneAssumption
     DEF IInv, TypeOK, Phases, Named, Unjournal, JournalRemoved, At, Sealing, Merge,
         below, staging, counts
<1>4. Named'
  BY <1>1, NoneAssumption DEF IInv, TypeOK, Phases, Named, Unjournal, JournalRemoved,
     At, Initial, below, staging, counts
<1>5. Vouched'
  BY <1>1, NoneAssumption
     DEF IInv, TypeOK, Phases, Named, Vouched, Folded, Unjournal, JournalRemoved, At,
         Merge, Clean, below, staging, counts
<1>6. ImportsFirst'
  BY <1>1 DEF IInv, Phases, ImportsFirst, Unjournal, JournalRemoved, At, below,
     staging, counts
<1>. QED BY <1>2, <1>3, <1>4, <1>5, <1>6 DEF IInv

\* A fresh directory gets the first generation.
LEMMA BeginStep ==
  ASSUME IInv, NEW s \in Sessions, Begin(s)
  PROVE  IInv'
<1>1. lock = s /\ \A t \in Sessions \ {s} : pc[t] = "closed"
  BY Alone DEF IInv, Begin
<1>2. TypeOK'
  BY <1>1, MergeType, ValueAssumption, NoneAssumption
     DEF IInv, TypeOK, Begin, Initial, Steps, Sealing, Written, Empty, below, staging,
         counts
<1>3. Phases'
  BY <1>1, ValueAssumption, NoneAssumption
     DEF IInv, TypeOK, Phases, Named, Begin, Sealing, Merge, below, staging, counts
<1>4. Named'
  BY <1>1, NoneAssumption DEF IInv, TypeOK, Phases, Named, Begin, Initial, below,
     staging, counts
<1>5. Vouched'
  BY <1>1, NoneAssumption
     DEF IInv, TypeOK, Phases, Named, Vouched, Folded, Begin, Merge, Clean, below,
         staging, counts
<1>6. ImportsFirst'
  BY <1>1 DEF IInv, Phases, ImportsFirst, Begin, below, staging, counts
<1>. QED BY <1>2, <1>3, <1>4, <1>5, <1>6 DEF IInv

\* The import runs before any write.
LEMMA ImportStep ==
  ASSUME IInv, NEW s \in Sessions, Import(s)
  PROVE  IInv'
<1>1. lock = s /\ \A t \in Sessions \ {s} : pc[t] = "closed"
  BY Alone DEF IInv, Import
<1>2. TypeOK'
  BY <1>1, LegacyAssumption
     DEF IInv, TypeOK, Import, Steps, Sealing, Written, Empty, below, staging, counts
<1>3. Phases'
  BY <1>1, ValueAssumption, NoneAssumption
     DEF IInv, TypeOK, Phases, Named, Import, Sealing, Merge, below, staging, counts
<1>4. Named'
  BY <1>1, NoneAssumption DEF IInv, TypeOK, Phases, Named, Import, Initial, below,
     staging, counts
<1>5. Vouched'
  BY <1>1, NoneAssumption
     DEF IInv, TypeOK, Phases, Named, Vouched, Folded, Import, Merge, Clean, below,
         staging, counts
<1>6. ImportsFirst'
  BY <1>1 DEF IInv, Phases, ImportsFirst, Import, below, staging, counts
<1>. QED BY <1>2, <1>3, <1>4, <1>5, <1>6 DEF IInv

\* The import is marked.
LEMMA MarkImportedStep ==
  ASSUME IInv, NEW s \in Sessions, MarkImported(s)
  PROVE  IInv'
<1>1. lock = s /\ \A t \in Sessions \ {s} : pc[t] = "closed"
  BY Alone DEF IInv, MarkImported, Marked, At
<1>2. TypeOK'
  BY <1>1, MergeType, ValueAssumption, NoneAssumption
     DEF IInv, TypeOK, MarkImported, Marked, At, Steps, Sealing, Written, Empty,
         below, staging, counts
<1>3. Phases'
  BY <1>1, ValueAssumption, NoneAssumption
     DEF IInv, TypeOK, Phases, Named, MarkImported, Marked, At, Sealing, Merge, below,
         staging, counts
<1>4. Named'
  BY <1>1, NoneAssumption DEF IInv, TypeOK, Phases, Named, MarkImported, Marked, At,
     Initial, below, staging, counts
<1>5. Vouched'
  BY <1>1, NoneAssumption
     DEF IInv, TypeOK, Phases, Named, Vouched, Folded, MarkImported, Marked, At,
         Merge, Clean, below, staging, counts
<1>6. ImportsFirst'
  BY <1>1 DEF IInv, Phases, ImportsFirst, MarkImported, Marked, At, below, staging,
     counts
<1>. QED BY <1>2, <1>3, <1>4, <1>5, <1>6 DEF IInv

\* The view is let go.
LEMMA CloseStep ==
  ASSUME IInv, NEW s \in Sessions, Close(s)
  PROVE  IInv'
<1>1. lock = s /\ \A t \in Sessions \ {s} : pc[t] = "closed"
  BY Alone DEF IInv, Close, At
<1>2. TypeOK'
  BY <1>1, MergeType, ValueAssumption, NoneAssumption
     DEF IInv, TypeOK, Close, At, Steps, Sealing, Written, Empty, below, staging, counts
<1>3. Phases'
  BY <1>1, ValueAssumption, NoneAssumption
     DEF IInv, TypeOK, Phases, Named, Close, At, Sealing, Merge, below, staging, counts
<1>4. Named'
  BY <1>1, NoneAssumption DEF IInv, TypeOK, Phases, Named, Close, At, Initial, below,
     staging, counts
<1>5. Vouched'
  BY <1>1, NoneAssumption
     DEF IInv, TypeOK, Phases, Named, Vouched, Folded, Close, At, Merge, Clean, below,
         staging, counts
<1>6. ImportsFirst'
  BY <1>1 DEF IInv, Phases, ImportsFirst, Close, At, below, staging, counts
<1>. QED BY <1>2, <1>3, <1>4, <1>5, <1>6 DEF IInv

\* A build writes where no journal is left.
LEMMA BuildStep ==
  ASSUME IInv, NEW s \in Sessions, Build(s)
  PROVE  IInv'
<1>1. lock = s /\ \A t \in Sessions \ {s} : pc[t] = "closed"
  BY Alone DEF IInv, Build
<1>2. TypeOK'
  BY <1>1, MergeType, ValueAssumption, NoneAssumption
     DEF IInv, TypeOK, Build, Steps, Sealing, Written, Empty, below, staging, counts
<1>3. Phases'
  BY <1>1, ValueAssumption, NoneAssumption
     DEF IInv, TypeOK, Phases, Named, Build, Sealing, Merge, below, staging, counts
<1>4. Named'
  BY <1>1, NoneAssumption DEF IInv, TypeOK, Phases, Named, Build, Initial, below,
     staging, counts
<1>5. Vouched'
  BY <1>1, NoneAssumption
     DEF IInv, TypeOK, Phases, Named, Vouched, Folded, Build, Merge, Clean, below,
         staging, counts
<1>6. ImportsFirst'
  BY <1>1 DEF IInv, Phases, ImportsFirst, Build, below, staging, counts
<1>. QED BY <1>2, <1>3, <1>4, <1>5, <1>6 DEF IInv

\* A seal takes a name nobody has.
LEMMA SealStep ==
  ASSUME IInv, NEW s \in Sessions, Seal(s)
  PROVE  IInv'
<1>1. lock = s /\ \A t \in Sessions \ {s} : pc[t] = "closed"
  BY Alone DEF IInv, Seal, At
<1>2. TypeOK'
  BY <1>1, MergeType, ValueAssumption, NoneAssumption
     DEF IInv, TypeOK, Seal, At, Steps, Sealing, Written, Empty, below, staging, counts
<1>3. Phases'
  BY <1>1, ValueAssumption, NoneAssumption
     DEF IInv, TypeOK, Phases, Named, Seal, At, Sealing, Merge, below, staging, counts
<1>4. Named'
  BY <1>1, NoneAssumption DEF IInv, TypeOK, Phases, Named, Seal, At, Initial, below,
     staging, counts
<1>5. Vouched'
  BY <1>1, NoneAssumption
     DEF IInv, TypeOK, Phases, Named, Vouched, Folded, Seal, At, Merge, Clean, below,
         staging, counts
<1>6. ImportsFirst'
  BY <1>1 DEF IInv, Phases, ImportsFirst, Seal, At, below, staging, counts
<1>. QED BY <1>2, <1>3, <1>4, <1>5, <1>6 DEF IInv

\* The snapshot is what the view shows.
LEMMA SealMergeStep ==
  ASSUME IInv, NEW s \in Sessions, SealMerge(s)
  PROVE  IInv'
<1>1. lock = s /\ \A t \in Sessions \ {s} : pc[t] = "closed"
  BY Alone DEF IInv, SealMerge, Snapshot, At
<1>2. TypeOK'
  BY <1>1, MergeType, ValueAssumption, NoneAssumption
     DEF IInv, TypeOK, SealMerge, Snapshot, At, Steps, Sealing, Written, Empty, below,
         staging, counts
<1>3. Phases'
  BY <1>1, ValueAssumption, NoneAssumption
     DEF IInv, TypeOK, Phases, Named, SealMerge, Snapshot, At, Sealing, Merge, below,
         staging, counts
<1>4. Named'
  BY <1>1, NoneAssumption DEF IInv, TypeOK, Phases, Named, SealMerge, Snapshot, At,
     Initial, below, staging, counts
<1>5. Vouched'
  BY <1>1, NoneAssumption
     DEF IInv, TypeOK, Phases, Named, Vouched, Folded, SealMerge, Snapshot, At, Merge,
         Clean, below, staging, counts
<1>6. ImportsFirst'
  BY <1>1 DEF IInv, Phases, ImportsFirst, SealMerge, Snapshot, At, below, staging,
     counts
<1>. QED BY <1>2, <1>3, <1>4, <1>5, <1>6 DEF IInv

\* The stamp is the stage's name.
LEMMA SealStampStep ==
  ASSUME IInv, NEW s \in Sessions, SealStamp(s)
  PROVE  IInv'
<1>1. lock = s /\ \A t \in Sessions \ {s} : pc[t] = "closed"
  BY Alone DEF IInv, SealStamp, At
<1>2. TypeOK'
  BY <1>1, MergeType, ValueAssumption, NoneAssumption
     DEF IInv, TypeOK, SealStamp, At, Steps, Sealing, Written, Empty, below, staging,
         counts
<1>3. Phases'
  BY <1>1, ValueAssumption, NoneAssumption
     DEF IInv, TypeOK, Phases, Named, SealStamp, At, Sealing, Merge, below, staging,
         counts
<1>4. Named'
  BY <1>1, NoneAssumption DEF IInv, TypeOK, Phases, Named, SealStamp, At, Initial,
     below, staging, counts
<1>5. Vouched'
  BY <1>1, NoneAssumption
     DEF IInv, TypeOK, Phases, Named, Vouched, Folded, SealStamp, At, Merge, Clean,
         below, staging, counts
<1>6. ImportsFirst'
  BY <1>1 DEF IInv, Phases, ImportsFirst, SealStamp, At, below, staging, counts
<1>. QED BY <1>2, <1>3, <1>4, <1>5, <1>6 DEF IInv

\* The journal names a generation that is not in place.
LEMMA SealJournalStep ==
  ASSUME IInv, NEW s \in Sessions, SealJournal(s)
  PROVE  IInv'
<1>1. lock = s /\ \A t \in Sessions \ {s} : pc[t] = "closed"
  BY Alone DEF IInv, SealJournal, At
<1>2. TypeOK'
  BY <1>1, MergeType, ValueAssumption, NoneAssumption
     DEF IInv, TypeOK, SealJournal, At, Steps, Sealing, Written, Empty, below,
         staging, counts
<1>3. Phases'
  BY <1>1, ValueAssumption, NoneAssumption
     DEF IInv, TypeOK, Phases, Named, SealJournal, At, Sealing, Merge, below, staging,
         counts
<1>4. Named'
  BY <1>1, NoneAssumption DEF IInv, TypeOK, Phases, Named, SealJournal, At, Initial,
     below, staging, counts
<1>5. Vouched'
  BY <1>1, NoneAssumption
     DEF IInv, TypeOK, Phases, Named, Vouched, Folded, SealJournal, At, Merge, Clean,
         below, staging, counts
<1>6. ImportsFirst'
  BY <1>1 DEF IInv, Phases, ImportsFirst, SealJournal, At, below, staging, counts
<1>. QED BY <1>2, <1>3, <1>4, <1>5, <1>6 DEF IInv

\* After the exchange the directory below holds every write.
LEMMA SealExchangeStep ==
  ASSUME IInv, NEW s \in Sessions, SealExchange(s)
  PROVE  IInv'
<1>1. lock = s /\ \A t \in Sessions \ {s} : pc[t] = "closed"
  BY Alone DEF IInv, SealExchange, At
<1>2. TypeOK'
  BY <1>1, MergeType, ValueAssumption, NoneAssumption
     DEF IInv, TypeOK, SealExchange, At, Steps, Sealing, Written, Empty, below,
         staging, counts
<1>3. Phases'
  BY <1>1, ValueAssumption, NoneAssumption
     DEF IInv, TypeOK, Phases, Named, SealExchange, At, Sealing, Merge, below,
         staging, counts
<1>4. Named'
  BY <1>1, NoneAssumption DEF IInv, TypeOK, Phases, Named, SealExchange, At, Initial,
     below, staging, counts
<1>5. Vouched'
  BY <1>1, NoneAssumption
     DEF IInv, TypeOK, Phases, Named, Vouched, Folded, SealExchange, At, Merge, Clean,
         below, staging, counts
<1>6. ImportsFirst'
  BY <1>1 DEF IInv, Phases, ImportsFirst, SealExchange, At, below, staging, counts
<1>. QED BY <1>2, <1>3, <1>4, <1>5, <1>6 DEF IInv

\* The recovery ends the seal.
LEMMA SealKeepStep ==
  ASSUME IInv, NEW s \in Sessions, SealKeep(s)
  PROVE  IInv'
<1>1. lock = s /\ \A t \in Sessions \ {s} : pc[t] = "closed"
  BY Alone DEF IInv, SealKeep, At
<1>2. TypeOK'
  BY <1>1, MergeType, ValueAssumption, NoneAssumption
     DEF IInv, TypeOK, SealKeep, At, Steps, Sealing, Written, Empty, below, staging,
         counts
<1>3. Phases'
  BY <1>1, ValueAssumption, NoneAssumption
     DEF IInv, TypeOK, Phases, Named, SealKeep, At, Sealing, Merge, below, staging,
         counts
<1>4. Named'
  BY <1>1, NoneAssumption DEF IInv, TypeOK, Phases, Named, SealKeep, At, Initial,
     below, staging, counts
<1>5. Vouched'
  BY <1>1, NoneAssumption
     DEF IInv, TypeOK, Phases, Named, Vouched, Folded, SealKeep, At, Merge, Clean,
         below, staging, counts
<1>6. ImportsFirst'
  BY <1>1 DEF IInv, Phases, ImportsFirst, SealKeep, At, below, staging, counts
<1>. QED BY <1>2, <1>3, <1>4, <1>5, <1>6 DEF IInv

\* A failure lets the lock go and drops the stage.
LEMMA FailStep ==
  ASSUME IInv, NEW s \in Sessions, Fail(s)
  PROVE  IInv'
<1>1. lock = s /\ \A t \in Sessions \ {s} : pc[t] = "closed"
  BY Alone DEF IInv, Fail
<1>2. TypeOK'
  BY <1>1, MergeType, ValueAssumption, NoneAssumption
     DEF IInv, TypeOK, Fail, Steps, Sealing, Written, Empty, below, staging, counts
<1>3. Phases'
  BY <1>1, ValueAssumption, NoneAssumption
     DEF IInv, TypeOK, Phases, Named, Fail, Sealing, Merge, below, staging, counts
<1>4. Named'
  BY <1>1, NoneAssumption DEF IInv, TypeOK, Phases, Named, Fail, Initial, below,
     staging, counts
<1>5. Vouched'
  BY <1>1, NoneAssumption
     DEF IInv, TypeOK, Phases, Named, Vouched, Folded, Fail, Merge, Clean, below,
         staging, counts
<1>6. ImportsFirst'
  BY <1>1 DEF IInv, Phases, ImportsFirst, Fail, below, staging, counts
<1>. QED BY <1>2, <1>3, <1>4, <1>5, <1>6 DEF IInv

\* A crash closes every session and leaves the rest.
LEMMA CrashStep == ASSUME IInv, Crash PROVE IInv'
<1>1. TypeOK'
  BY NoneAssumption DEF IInv, TypeOK, Crash, Steps, below, staging
<1>2. Phases' /\ Named' /\ Vouched' /\ ImportsFirst'
  BY DEF IInv, TypeOK, Phases, Named, Vouched, Folded, ImportsFirst, Crash, below,
     staging
<1>. QED BY <1>1, <1>2 DEF IInv

\* Every step keeps the invariant.
LEMMA StepInvariant == IInv /\ [Next]_vars => IInv'
<1>. SUFFICES ASSUME IInv, [Next]_vars PROVE IInv'
  OBVIOUS
<1>1. ASSUME NEW s \in Sessions, SessionStep(s) PROVE IInv'
  BY <1>1, OpenStep, RecoverStep, ClearStep, ClearedStep, UnstageStep, UnjournalStep,
     BeginStep, ImportStep, MarkImportedStep, CloseStep, BuildStep, SealStep,
     SealMergeStep, SealStampStep, SealJournalStep, SealExchangeStep, SealKeepStep, FailStep
     DEF SessionStep
<1>2. CASE Crash
  BY <1>2, CrashStep
<1>3. CASE UNCHANGED vars
  BY <1>3 DEF vars, below, staging, counts, IInv, TypeOK, Phases, Named, Vouched,
     Folded,
     ImportsFirst, Merge
<1>. QED BY <1>1, <1>2, <1>3 DEF Next

\* The inductive invariant holds of every behaviour of the view.
THEOREM Invariant == Spec => []IInv
BY InitInvariant, StepInvariant, PTL DEF Spec

-----------------------------------------------------------------------------
\* The variables keep their types, and only the holder of the lock is past
\* open().
THEOREM TypeCorrect == Spec => []TypeOK
<1>1. IInv => TypeOK
  BY DEF IInv
<1>. QED BY <1>1, Invariant, PTL

\* A build starts on a view without traces of an earlier seal.
THEOREM Recovers == Spec => []RecoveredFirst
<1>1. IInv => RecoveredFirst
  BY DEF IInv, Phases, RecoveredFirst
<1>. QED BY <1>1, Invariant, PTL

\* Clearing vouched writes and exchanging a snapshot change nothing one sees.
LEMMA ShownStep ==
  ASSUME IInv, [Next]_vars
  PROVE  Merge' = Merge \/ writes' # writes \/ writes = 0
<1>. DEFINE Kept == lower' = lower /\ upper' = upper
<1>1. Kept => Merge' = Merge
  BY DEF Merge
<1>2. CASE UNCHANGED vars \/ Crash
  BY <1>1, <1>2 DEF vars, below, Crash
<1>3. ASSUME NEW s \in Sessions, SessionStep(s)
      PROVE  Merge' = Merge \/ writes' # writes \/ writes = 0
  <2>1. CASE Clear(s)
    BY <2>1 DEF Clear, IInv, TypeOK, Phases, Vouched, Folded, Merge, below
  <2>2. CASE Import(s)
    BY <2>2 DEF Import, IInv, Phases, ImportsFirst
  <2>3. CASE Build(s)
    BY <2>3 DEF Build, IInv, TypeOK
  <2>4. CASE SealExchange(s)
    <3>1. lower' = Merge /\ upper' = upper
      BY <2>4 DEF SealExchange, At, IInv, Phases
    <3>. QED BY <3>1 DEF Merge
  <2>5. CASE Kept
    BY <1>1, <2>5
  <2>. QED
    BY <1>3, <2>1, <2>2, <2>3, <2>4, <2>5
       DEF SessionStep, below, Open, Recover, Cleared, Unstage, Unjournal, Begin,
           MarkImported,
           Close, Seal, SealMerge, SealStamp, SealJournal, SealKeep, Fail
<1>. QED BY <1>2, <1>3 DEF Next

\* What the view shows changes only by the writes of builds, and by the import
\* before the first of them.
THEOREM OnlyBuilds == Spec => OnlyBuildsShow
<1>1. IInv /\ [Next]_vars => [Merge' = Merge \/ writes' # writes \/ writes = 0]_vars
  BY ShownStep
<1>. QED BY <1>1, Invariant, PTL DEF Spec, OnlyBuildsShow

\* A new directory takes the place of the old one with everything in it.
LEMMA PublishStep ==
  ASSUME IInv, [Next]_vars, generation' # generation, generation # None
  PROVE  lower' = Merge
<1>1. PICK s \in Sessions : SessionStep(s)
  BY DEF Next, vars, below, Crash
<1>2. SealExchange(s)
  BY <1>1
     DEF SessionStep, below, Open, Recover, Clear, Cleared, Unstage, Unjournal, Begin,
         Import,
         MarkImported, Close, Build, Seal, SealMerge, SealStamp, SealJournal, SealKeep, Fail
<1>. QED BY <1>2 DEF SealExchange, At, IInv, Phases

\* A published directory is complete.
THEOREM Publishes == Spec => PublishesAll
<1>1. IInv /\ [Next]_vars =>
        [generation' # generation /\ generation # None => lower' = Merge]_vars
  BY PublishStep
<1>. QED BY <1>1, Invariant, PTL DEF Spec, PublishesAll

-----------------------------------------------------------------------------
(***************************************************************************)
(* Queries                                                                 *)
(*                                                                         *)
(* Who evaluates or indexes a branch holds its analysis lock, and a        *)
(* publication holds it alone: from the plan of a preparation to its ready *)
(* mark the version of a generation cannot change, unless the generation   *)
(* or the repair marker does.  What a query may use is in `since', the     *)
(* versions there were since it arrived: the current one always is, and    *)
(* the indexed one from the moment the preparation it joined has indexed.  *)
(***************************************************************************)

FlowPlaces == {"idle", "acquire", "admission", "analyze", "discover", "require", "admission 2",
           "analyze 2", "index", "indexed", "mark", "prepare", "inventory", "drain", "complete",
           "lock", "capture", "admit", "permit", "queue", "try", "evaluate", "answer", "placing"}
Codes == Nat \union {Nobody}

FlowTypes ==
  /\ branched \in BOOLEAN /\ flowDisk \in Nat /\ gen \in Nat /\ repair \in BOOLEAN
  /\ code \in Codes /\ at \in [Flow!Actors -> FlowPlaces]
  /\ progress \in [kind : {"none", "pending", "files", "ready", "failed"}, version : Codes, gen : Nat]
  /\ plan \in [version : Codes, gen : Nat]
  /\ analysis \subseteq Queries \union {Preparer} /\ writer \in {Nobody, Refresher}
  /\ sees \in [Queries -> [code : Codes, revision : Nat, gen : Nat]]
  /\ since \in [Queries -> SUBSET Nat]
  /\ answer \in [Queries -> {Nobody} \union [code : Codes, revision : Nat]]

\* A publication holds the analysis lock alone, and its marker is there.
BranchLocks ==
  /\ at[Refresher] \in {"idle", "placing"} /\ (at[Refresher] = "placing" <=> writer = Refresher)
  /\ writer = Refresher => branched /\ repair /\ analysis = {}
  /\ branched /\ at[Preparer] \in {"discover", "index", "indexed"} => Preparer \in analysis
  /\ \A q \in Queries : branched /\ at[q] \in {"capture", "permit", "evaluate", "answer"} => q \in analysis

Planning == {"admission 2", "analyze 2", "index"}
IndexDone == {"indexed", "mark"}

\* What the job has found, planned, indexed and sent
Preparation ==
  /\ progress.kind \in {"none", "ready", "failed"} <=> at[Preparer] = "idle"
  /\ at[Preparer] \in Planning => progress.kind = "files" /\ progress.version = plan.version
  /\ progress.kind = "files" => at[Preparer] \in Planning \union IndexDone
  /\ progress.kind = "files" /\ at[Preparer] \in IndexDone => progress.version = code
  /\ at[Preparer] = "indexed" /\ branched => code = flowDisk
  /\ at[Preparer] = "mark" => plan.version = code
  /\ progress.kind = "ready" => progress.version = code

\* Nothing was published since the generation of v.
HoldsAt(v, g) == g <= gen /\ (gen = g /\ ~repair => flowDisk = v)
FlowGenerations ==
  /\ plan.gen <= gen /\ progress.gen <= gen
  /\ branched /\ at[Preparer] = "mark" => HoldsAt(plan.version, plan.gen)
  /\ branched /\ progress.kind = "ready" => HoldsAt(progress.version, progress.gen)

Prepared == {"lock", "analyze", "capture", "admission", "admit", "permit", "queue", "try", "evaluate"}
FlowFresh ==
  \A q \in Queries :
    /\ at[q] # "idle" => flowDisk \in since[q]
    /\ at[q] = "complete" /\ (at[Preparer] \in IndexDone \/ progress.kind = "ready") => code \in since[q]
    /\ at[q] \in Prepared => code \in since[q]

FlowInv ==
  FlowTypes /\ BranchLocks /\ Preparation /\ FlowGenerations /\ FlowFresh
  /\ Flow!SeesOwnEdits /\ Flow!StillWhileEvaluated

LEMMA ActorsAre ==
    /\ Flow!Actors = Queries \union {Preparer, Refresher}
    /\ Preparer \notin Queries /\ Refresher \notin Queries /\ Preparer # Refresher
    /\ Preparer # Nobody /\ Refresher # Nobody /\ \A q \in Queries : q # Nobody
  BY ActorsAssumption DEF Flow!Actors

LEMMA FlowEditStep == ASSUME FlowInv, Flow!Edit PROVE FlowInv'
<1>0. FlowTypes /\ BranchLocks /\ Preparation /\ FlowGenerations /\ FlowFresh
      /\ Flow!SeesOwnEdits /\ Flow!StillWhileEvaluated
  BY DEF FlowInv
<1>1. FlowTypes'
  <2>1. since' \in [Queries -> SUBSET Nat] /\ flowDisk' \in Nat
    BY <1>0 DEF Flow!Edit, Flow!Moves, FlowTypes
  <2>2. QED
    BY <1>0, <2>1, ActorsAre DEF Flow!Edit, Flow!Goes, Flow!sources, Flow!locks,
       Flow!results, FlowTypes, FlowPlaces
<1>2. BranchLocks'
  BY <1>0, ActorsAre DEF Flow!Edit, Flow!Keeps, Flow!sources, Flow!locks,
     Flow!results, Flow!Moves, Flow!Waiting, FlowTypes, BranchLocks
<1>3. Preparation'
  BY <1>0, ActorsAre DEF Flow!Edit, Flow!Keeps, Flow!sources, Flow!locks,
     Flow!results, Flow!Moves, Flow!Waiting, FlowTypes, Preparation, Planning, IndexDone
<1>4. FlowGenerations'
  BY <1>0, ActorsAre DEF Flow!Edit, Flow!Keeps, Flow!sources, Flow!locks,
     Flow!results, Flow!Moves, Flow!Waiting, FlowTypes, Preparation, FlowGenerations,
     HoldsAt
<1>5. FlowFresh'
  BY <1>0, ActorsAre DEF Flow!Edit, Flow!Keeps, Flow!sources, Flow!locks,
     Flow!results, Flow!Moves, Flow!Waiting, FlowTypes, Preparation, FlowFresh,
     Planning, IndexDone, Prepared
<1>6. Flow!SeesOwnEdits'
  BY <1>0, ActorsAre DEF Flow!Edit, Flow!Keeps, Flow!sources, Flow!locks,
     Flow!results, Flow!Moves, Flow!Waiting, FlowTypes, FlowFresh, Prepared,
     Flow!SeesOwnEdits
<1>7. Flow!StillWhileEvaluated'
  BY <1>0, ActorsAre DEF Flow!Edit, Flow!Keeps, Flow!sources, Flow!locks,
     Flow!results, Flow!Moves, Flow!Waiting, FlowTypes, BranchLocks,
     Flow!StillWhileEvaluated
<1>8. QED
  BY <1>1, <1>2, <1>3, <1>4, <1>5, <1>6, <1>7 DEF FlowInv

LEMMA FlowRefreshLockStep == ASSUME FlowInv, Flow!RefreshLock PROVE FlowInv'
<1>0. FlowTypes /\ BranchLocks /\ Preparation /\ FlowGenerations /\ FlowFresh
      /\ Flow!SeesOwnEdits /\ Flow!StillWhileEvaluated
  BY DEF FlowInv
<1>1. FlowTypes'
  <2>1. since' \in [Queries -> SUBSET Nat] /\ flowDisk' \in Nat
    BY <1>0 DEF Flow!RefreshLock, Flow!Moves, FlowTypes
  <2>2. QED
    BY <1>0, <2>1, ActorsAre DEF Flow!RefreshLock, Flow!Goes, Flow!sources,
       Flow!locks, Flow!results, FlowTypes, FlowPlaces
<1>2. BranchLocks'
  BY <1>0, ActorsAre DEF Flow!RefreshLock, Flow!Keeps, Flow!sources, Flow!locks,
     Flow!results, Flow!Moves, Flow!Waiting, Flow!Goes, FlowTypes, BranchLocks
<1>3. Preparation'
  <2>1. ~(branched /\ at[Preparer] = "indexed") /\ at'[Preparer] = at[Preparer]
    BY <1>0, ActorsAre DEF Flow!RefreshLock, Flow!Goes, FlowTypes, BranchLocks
  <2>2. QED
    BY <1>0, <2>1 DEF Flow!RefreshLock, Flow!Goes, Preparation, Planning, IndexDone
<1>4. FlowGenerations'
  BY <1>0, ActorsAre DEF Flow!RefreshLock, Flow!Keeps, Flow!sources, Flow!locks,
     Flow!results, Flow!Moves, Flow!Waiting, Flow!Goes, FlowTypes, Preparation,
     FlowGenerations, HoldsAt
<1>5. FlowFresh'
  BY <1>0, ActorsAre DEF Flow!RefreshLock, Flow!Keeps, Flow!sources, Flow!locks,
     Flow!results, Flow!Moves, Flow!Waiting, Flow!Goes, FlowTypes, Preparation,
     FlowFresh, Planning, IndexDone, Prepared
<1>6. Flow!SeesOwnEdits'
  BY <1>0, ActorsAre DEF Flow!RefreshLock, Flow!Keeps, Flow!sources, Flow!locks,
     Flow!results, Flow!Moves, Flow!Waiting, Flow!Goes, FlowTypes, FlowFresh,
     Prepared, Flow!SeesOwnEdits
<1>7. Flow!StillWhileEvaluated'
  BY <1>0, ActorsAre DEF Flow!RefreshLock, Flow!Keeps, Flow!sources, Flow!locks,
     Flow!results, Flow!Moves, Flow!Waiting, Flow!Goes, FlowTypes, BranchLocks,
     Flow!StillWhileEvaluated
<1>8. QED
  BY <1>1, <1>2, <1>3, <1>4, <1>5, <1>6, <1>7 DEF FlowInv

LEMMA FlowRefreshEndStep == ASSUME FlowInv, Flow!RefreshEnd PROVE FlowInv'
<1>0. FlowTypes /\ BranchLocks /\ Preparation /\ FlowGenerations /\ FlowFresh
      /\ Flow!SeesOwnEdits /\ Flow!StillWhileEvaluated
  BY DEF FlowInv
<1>1. FlowTypes'
  <2>1. gen' \in Nat
    BY <1>0 DEF Flow!RefreshEnd, FlowTypes, Flow!sources
  <2>2. at' \in [Flow!Actors -> FlowPlaces] /\ writer' \in {Nobody, Refresher} /\ repair' \in BOOLEAN
    BY <1>0, ActorsAre DEF Flow!RefreshEnd, Flow!Goes, FlowTypes, FlowPlaces, Flow!locks
  <2>3. QED
    BY <1>0, <2>1, <2>2 DEF Flow!RefreshEnd, Flow!sources, Flow!locks, Flow!results,
       FlowTypes
<1>2. BranchLocks'
  BY <1>0, ActorsAre DEF Flow!RefreshEnd, Flow!Keeps, Flow!sources, Flow!locks,
     Flow!results, Flow!Goes, FlowTypes, BranchLocks
<1>3. Preparation'
  BY <1>0, ActorsAre DEF Flow!RefreshEnd, Flow!Keeps, Flow!sources, Flow!locks,
     Flow!results, Flow!Goes, FlowTypes, Preparation, Planning, IndexDone
<1>4. FlowGenerations'
  BY <1>0, ActorsAre DEF Flow!RefreshEnd, Flow!Keeps, Flow!sources, Flow!locks,
     Flow!results, Flow!Goes, FlowTypes, Preparation, FlowGenerations, HoldsAt
<1>5. FlowFresh'
  BY <1>0, ActorsAre DEF Flow!RefreshEnd, Flow!Keeps, Flow!sources, Flow!locks,
     Flow!results, Flow!Goes, FlowTypes, Preparation, FlowFresh, Planning, IndexDone,
     Prepared
<1>6. Flow!SeesOwnEdits'
  BY <1>0, ActorsAre DEF Flow!RefreshEnd, Flow!Keeps, Flow!sources, Flow!locks,
     Flow!results, Flow!Goes, FlowTypes, FlowFresh, Prepared, Flow!SeesOwnEdits
<1>7. Flow!StillWhileEvaluated'
  BY <1>0, ActorsAre DEF Flow!RefreshEnd, Flow!Keeps, Flow!sources, Flow!locks,
     Flow!results, Flow!Goes, FlowTypes, BranchLocks, Flow!StillWhileEvaluated
<1>8. QED
  BY <1>1, <1>2, <1>3, <1>4, <1>5, <1>6, <1>7 DEF FlowInv

LEMMA FlowAcquiredStep == ASSUME FlowInv, Flow!Acquired PROVE FlowInv'
<1>0. FlowTypes /\ BranchLocks /\ Preparation /\ FlowGenerations /\ FlowFresh
      /\ Flow!SeesOwnEdits /\ Flow!StillWhileEvaluated
  BY DEF FlowInv
<1>1. FlowTypes'
  BY <1>0, ActorsAre DEF Flow!Acquired, Flow!Keeps, Flow!sources, Flow!locks,
     Flow!results, Flow!Goes, FlowTypes, Codes, FlowPlaces
<1>2. BranchLocks'
  BY <1>0, ActorsAre DEF Flow!Acquired, Flow!Keeps, Flow!sources, Flow!locks,
     Flow!results, Flow!Goes, FlowTypes, BranchLocks
<1>3. Preparation'
  BY <1>0, ActorsAre DEF Flow!Acquired, Flow!Keeps, Flow!sources, Flow!locks,
     Flow!results, Flow!Goes, FlowTypes, Preparation, Planning, IndexDone
<1>4. FlowGenerations'
  BY <1>0, ActorsAre DEF Flow!Acquired, Flow!Keeps, Flow!sources, Flow!locks,
     Flow!results, Flow!Goes, FlowTypes, Preparation, FlowGenerations, HoldsAt
<1>5. FlowFresh'
  BY <1>0, ActorsAre DEF Flow!Acquired, Flow!Keeps, Flow!sources, Flow!locks,
     Flow!results, Flow!Goes, FlowTypes, Preparation, FlowFresh, Planning, IndexDone,
     Prepared
<1>6. Flow!SeesOwnEdits'
  BY <1>0, ActorsAre DEF Flow!Acquired, Flow!Keeps, Flow!sources, Flow!locks,
     Flow!results, Flow!Goes, FlowTypes, FlowFresh, Prepared, Flow!SeesOwnEdits
<1>7. Flow!StillWhileEvaluated'
  BY <1>0, ActorsAre DEF Flow!Acquired, Flow!Keeps, Flow!sources, Flow!locks,
     Flow!results, Flow!Goes, FlowTypes, BranchLocks, Flow!StillWhileEvaluated
<1>8. QED
  BY <1>1, <1>2, <1>3, <1>4, <1>5, <1>6, <1>7 DEF FlowInv

LEMMA FlowPrepareLockStep == ASSUME FlowInv, Flow!PrepareLock PROVE FlowInv'
<1>0. FlowTypes /\ BranchLocks /\ Preparation /\ FlowGenerations /\ FlowFresh
      /\ Flow!SeesOwnEdits /\ Flow!StillWhileEvaluated
  BY DEF FlowInv
<1>1. FlowTypes'
  BY <1>0, ActorsAre DEF Flow!PrepareLock, Flow!Keeps, Flow!sources, Flow!locks,
     Flow!results, Flow!Goes, FlowTypes, Codes, FlowPlaces
<1>2. BranchLocks'
  BY <1>0, ActorsAre DEF Flow!PrepareLock, Flow!Keeps, Flow!sources, Flow!locks,
     Flow!results, Flow!Goes, FlowTypes, BranchLocks
<1>3. Preparation'
  BY <1>0, ActorsAre DEF Flow!PrepareLock, Flow!Keeps, Flow!sources, Flow!locks,
     Flow!results, Flow!Goes, FlowTypes, Preparation, Planning, IndexDone
<1>4. FlowGenerations'
  BY <1>0, ActorsAre DEF Flow!PrepareLock, Flow!Keeps, Flow!sources, Flow!locks,
     Flow!results, Flow!Goes, FlowTypes, Preparation, FlowGenerations, HoldsAt
<1>5. FlowFresh'
  BY <1>0, ActorsAre DEF Flow!PrepareLock, Flow!Keeps, Flow!sources, Flow!locks,
     Flow!results, Flow!Goes, FlowTypes, Preparation, FlowFresh, Planning, IndexDone,
     Prepared
<1>6. Flow!SeesOwnEdits'
  BY <1>0, ActorsAre DEF Flow!PrepareLock, Flow!Keeps, Flow!sources, Flow!locks,
     Flow!results, Flow!Goes, FlowTypes, FlowFresh, Prepared, Flow!SeesOwnEdits
<1>7. Flow!StillWhileEvaluated'
  BY <1>0, ActorsAre DEF Flow!PrepareLock, Flow!Keeps, Flow!sources, Flow!locks,
     Flow!results, Flow!Goes, FlowTypes, BranchLocks, Flow!StillWhileEvaluated
<1>8. QED
  BY <1>1, <1>2, <1>3, <1>4, <1>5, <1>6, <1>7 DEF FlowInv

LEMMA FlowPrepareAnalyzeStep == ASSUME FlowInv, Flow!PrepareAnalyze PROVE FlowInv'
<1>0. FlowTypes /\ BranchLocks /\ Preparation /\ FlowGenerations /\ FlowFresh
      /\ Flow!SeesOwnEdits /\ Flow!StillWhileEvaluated
  BY DEF FlowInv
<1>1. FlowTypes'
  BY <1>0, ActorsAre DEF Flow!PrepareAnalyze, Flow!Keeps, Flow!sources, Flow!locks,
     Flow!results, Flow!Goes, FlowTypes, Codes, FlowPlaces
<1>2. BranchLocks'
  BY <1>0, ActorsAre DEF Flow!PrepareAnalyze, Flow!Keeps, Flow!sources, Flow!locks,
     Flow!results, Flow!Goes, FlowTypes, BranchLocks
<1>3. Preparation'
  BY <1>0, ActorsAre DEF Flow!PrepareAnalyze, Flow!Keeps, Flow!sources, Flow!locks,
     Flow!results, Flow!Goes, FlowTypes, Preparation, Planning, IndexDone
<1>4. FlowGenerations'
  BY <1>0, ActorsAre DEF Flow!PrepareAnalyze, Flow!Keeps, Flow!sources, Flow!locks,
     Flow!results, Flow!Goes, FlowTypes, Preparation, FlowGenerations, HoldsAt
<1>5. FlowFresh'
  BY <1>0, ActorsAre DEF Flow!PrepareAnalyze, Flow!Keeps, Flow!sources, Flow!locks,
     Flow!results, Flow!Goes, FlowTypes, Preparation, FlowFresh, Planning, IndexDone,
     Prepared
<1>6. Flow!SeesOwnEdits'
  BY <1>0, ActorsAre DEF Flow!PrepareAnalyze, Flow!Keeps, Flow!sources, Flow!locks,
     Flow!results, Flow!Goes, FlowTypes, FlowFresh, Prepared, Flow!SeesOwnEdits
<1>7. Flow!StillWhileEvaluated'
  BY <1>0, ActorsAre DEF Flow!PrepareAnalyze, Flow!Keeps, Flow!sources, Flow!locks,
     Flow!results, Flow!Goes, FlowTypes, BranchLocks, Flow!StillWhileEvaluated
<1>8. QED
  BY <1>1, <1>2, <1>3, <1>4, <1>5, <1>6, <1>7 DEF FlowInv

LEMMA FlowRequireInputsStep == ASSUME FlowInv, Flow!RequireInputs PROVE FlowInv'
<1>0. FlowTypes /\ BranchLocks /\ Preparation /\ FlowGenerations /\ FlowFresh
      /\ Flow!SeesOwnEdits /\ Flow!StillWhileEvaluated
  BY DEF FlowInv
<1>1. FlowTypes'
  <2>1. gen' \in Nat
    BY <1>0 DEF Flow!RequireInputs, FlowTypes, Flow!sources
  <2>2. at' \in [Flow!Actors -> FlowPlaces] /\ writer' \in {Nobody, Refresher} /\ repair' \in BOOLEAN
    BY <1>0, ActorsAre DEF Flow!RequireInputs, Flow!Goes, FlowTypes, FlowPlaces,
       Flow!locks
  <2>3. QED
    BY <1>0, <2>1, <2>2 DEF Flow!RequireInputs, Flow!sources, Flow!locks,
       Flow!results, FlowTypes
<1>2. BranchLocks'
  BY <1>0, ActorsAre DEF Flow!RequireInputs, Flow!Keeps, Flow!sources, Flow!locks,
     Flow!results, Flow!Goes, FlowTypes, BranchLocks
<1>3. Preparation'
  BY <1>0, ActorsAre DEF Flow!RequireInputs, Flow!Keeps, Flow!sources, Flow!locks,
     Flow!results, Flow!Goes, FlowTypes, Preparation, Planning, IndexDone
<1>4. FlowGenerations'
  BY <1>0, ActorsAre DEF Flow!RequireInputs, Flow!Keeps, Flow!sources, Flow!locks,
     Flow!results, Flow!Goes, FlowTypes, Preparation, FlowGenerations, HoldsAt
<1>5. FlowFresh'
  BY <1>0, ActorsAre DEF Flow!RequireInputs, Flow!Keeps, Flow!sources, Flow!locks,
     Flow!results, Flow!Goes, FlowTypes, Preparation, FlowFresh, Planning, IndexDone,
     Prepared
<1>6. Flow!SeesOwnEdits'
  BY <1>0, ActorsAre DEF Flow!RequireInputs, Flow!Keeps, Flow!sources, Flow!locks,
     Flow!results, Flow!Goes, FlowTypes, FlowFresh, Prepared, Flow!SeesOwnEdits
<1>7. Flow!StillWhileEvaluated'
  BY <1>0, ActorsAre DEF Flow!RequireInputs, Flow!Keeps, Flow!sources, Flow!locks,
     Flow!results, Flow!Goes, FlowTypes, BranchLocks, Flow!StillWhileEvaluated
<1>8. QED
  BY <1>1, <1>2, <1>3, <1>4, <1>5, <1>6, <1>7 DEF FlowInv

LEMMA FlowUnlockStep == ASSUME FlowInv, Flow!Unlock PROVE FlowInv'
<1>0. FlowTypes /\ BranchLocks /\ Preparation /\ FlowGenerations /\ FlowFresh
      /\ Flow!SeesOwnEdits /\ Flow!StillWhileEvaluated
  BY DEF FlowInv
<1>1. FlowTypes'
  BY <1>0, ActorsAre DEF Flow!Unlock, Flow!Keeps, Flow!sources, Flow!locks,
     Flow!results, Flow!Goes, Flow!DropsReading, FlowTypes, Codes, FlowPlaces
<1>2. BranchLocks'
  BY <1>0, ActorsAre DEF Flow!Unlock, Flow!Keeps, Flow!sources, Flow!locks,
     Flow!results, Flow!Goes, Flow!DropsReading, FlowTypes, BranchLocks
<1>3. Preparation'
  BY <1>0, ActorsAre DEF Flow!Unlock, Flow!Keeps, Flow!sources, Flow!locks,
     Flow!results, Flow!Goes, Flow!DropsReading, FlowTypes, Preparation, Planning,
     IndexDone
<1>4. FlowGenerations'
  BY <1>0, ActorsAre DEF Flow!Unlock, Flow!Keeps, Flow!sources, Flow!locks,
     Flow!results, Flow!Goes, Flow!DropsReading, FlowTypes, Preparation,
     FlowGenerations, HoldsAt
<1>5. FlowFresh'
  BY <1>0, ActorsAre DEF Flow!Unlock, Flow!Keeps, Flow!sources, Flow!locks,
     Flow!results, Flow!Goes, Flow!DropsReading, FlowTypes, Preparation, FlowFresh,
     Planning, IndexDone, Prepared
<1>6. Flow!SeesOwnEdits'
  BY <1>0, ActorsAre DEF Flow!Unlock, Flow!Keeps, Flow!sources, Flow!locks,
     Flow!results, Flow!Goes, Flow!DropsReading, FlowTypes, FlowFresh, Prepared,
     Flow!SeesOwnEdits
<1>7. Flow!StillWhileEvaluated'
  BY <1>0, ActorsAre DEF Flow!Unlock, Flow!Keeps, Flow!sources, Flow!locks,
     Flow!results, Flow!Goes, Flow!DropsReading, FlowTypes, BranchLocks,
     Flow!StillWhileEvaluated
<1>8. QED
  BY <1>1, <1>2, <1>3, <1>4, <1>5, <1>6, <1>7 DEF FlowInv

LEMMA FlowMarkStep == ASSUME FlowInv, Flow!Mark PROVE FlowInv'
<1>0. FlowTypes /\ BranchLocks /\ Preparation /\ FlowGenerations /\ FlowFresh
      /\ Flow!SeesOwnEdits /\ Flow!StillWhileEvaluated
  BY DEF FlowInv
<1>1. FlowTypes'
  BY <1>0, ActorsAre DEF Flow!Mark, Flow!Keeps, Flow!sources, Flow!locks,
     Flow!results, Flow!Goes, Flow!Send, FlowTypes, Codes, FlowPlaces
<1>2. BranchLocks'
  BY <1>0, ActorsAre DEF Flow!Mark, Flow!Keeps, Flow!sources, Flow!locks,
     Flow!results, Flow!Goes, Flow!Send, FlowTypes, BranchLocks
<1>3. Preparation'
  BY <1>0, ActorsAre DEF Flow!Mark, Flow!Keeps, Flow!sources, Flow!locks,
     Flow!results, Flow!Goes, Flow!Send, FlowTypes, Preparation, Planning, IndexDone
<1>4. FlowGenerations'
  BY <1>0, ActorsAre DEF Flow!Mark, Flow!Keeps, Flow!sources, Flow!locks,
     Flow!results, Flow!Goes, Flow!Send, FlowTypes, Preparation, FlowGenerations,
     HoldsAt
<1>5. FlowFresh'
  BY <1>0, ActorsAre DEF Flow!Mark, Flow!Keeps, Flow!sources, Flow!locks,
     Flow!results, Flow!Goes, Flow!Send, FlowTypes, Preparation, FlowFresh, Planning,
     IndexDone, Prepared
<1>6. Flow!SeesOwnEdits'
  BY <1>0, ActorsAre DEF Flow!Mark, Flow!Keeps, Flow!sources, Flow!locks,
     Flow!results, Flow!Goes, Flow!Send, FlowTypes, FlowFresh, Prepared,
     Flow!SeesOwnEdits
<1>7. Flow!StillWhileEvaluated'
  BY <1>0, ActorsAre DEF Flow!Mark, Flow!Keeps, Flow!sources, Flow!locks,
     Flow!results, Flow!Goes, Flow!Send, FlowTypes, BranchLocks,
     Flow!StillWhileEvaluated
<1>8. QED
  BY <1>1, <1>2, <1>3, <1>4, <1>5, <1>6, <1>7 DEF FlowInv

LEMMA FlowPrepareFailsStep == ASSUME FlowInv, Flow!PrepareFails PROVE FlowInv'
<1>0. FlowTypes /\ BranchLocks /\ Preparation /\ FlowGenerations /\ FlowFresh
      /\ Flow!SeesOwnEdits /\ Flow!StillWhileEvaluated
  BY DEF FlowInv
<1>1. FlowTypes'
  BY <1>0, ActorsAre DEF Flow!PrepareFails, Flow!Keeps, Flow!sources, Flow!locks,
     Flow!results, Flow!Send, Flow!PrepareDrops, FlowTypes, Codes, FlowPlaces
<1>2. BranchLocks'
  BY <1>0, ActorsAre DEF Flow!PrepareFails, Flow!Keeps, Flow!sources, Flow!locks,
     Flow!results, Flow!Send, Flow!PrepareDrops, FlowTypes, BranchLocks
<1>3. Preparation'
  BY <1>0, ActorsAre DEF Flow!PrepareFails, Flow!Keeps, Flow!sources, Flow!locks,
     Flow!results, Flow!Send, Flow!PrepareDrops, FlowTypes, Preparation, Planning,
     IndexDone
<1>4. FlowGenerations'
  BY <1>0, ActorsAre DEF Flow!PrepareFails, Flow!Keeps, Flow!sources, Flow!locks,
     Flow!results, Flow!Send, Flow!PrepareDrops, FlowTypes, Preparation,
     FlowGenerations, HoldsAt
<1>5. FlowFresh'
  BY <1>0, ActorsAre DEF Flow!PrepareFails, Flow!Keeps, Flow!sources, Flow!locks,
     Flow!results, Flow!Send, Flow!PrepareDrops, FlowTypes, Preparation, FlowFresh,
     Planning, IndexDone, Prepared
<1>6. Flow!SeesOwnEdits'
  BY <1>0, ActorsAre DEF Flow!PrepareFails, Flow!Keeps, Flow!sources, Flow!locks,
     Flow!results, Flow!Send, Flow!PrepareDrops, FlowTypes, FlowFresh, Prepared,
     Flow!SeesOwnEdits
<1>7. Flow!StillWhileEvaluated'
  BY <1>0, ActorsAre DEF Flow!PrepareFails, Flow!Keeps, Flow!sources, Flow!locks,
     Flow!results, Flow!Send, Flow!PrepareDrops, FlowTypes, BranchLocks,
     Flow!StillWhileEvaluated
<1>8. QED
  BY <1>1, <1>2, <1>3, <1>4, <1>5, <1>6, <1>7 DEF FlowInv

LEMMA FlowPrepareQueuesStep == ASSUME FlowInv, Flow!PrepareQueues PROVE FlowInv'
<1>0. FlowTypes /\ BranchLocks /\ Preparation /\ FlowGenerations /\ FlowFresh
      /\ Flow!SeesOwnEdits /\ Flow!StillWhileEvaluated
  BY DEF FlowInv
<1>1. FlowTypes'
  BY <1>0, ActorsAre DEF Flow!PrepareQueues, Flow!Keeps, Flow!sources, Flow!locks,
     Flow!results, Flow!Goes, Flow!PrepareDrops, FlowTypes, Codes, FlowPlaces
<1>2. BranchLocks'
  BY <1>0, ActorsAre DEF Flow!PrepareQueues, Flow!Keeps, Flow!sources, Flow!locks,
     Flow!results, Flow!Goes, Flow!PrepareDrops, FlowTypes, BranchLocks
<1>3. Preparation'
  BY <1>0, ActorsAre DEF Flow!PrepareQueues, Flow!Keeps, Flow!sources, Flow!locks,
     Flow!results, Flow!Goes, Flow!PrepareDrops, FlowTypes, Preparation, Planning,
     IndexDone
<1>4. FlowGenerations'
  BY <1>0, ActorsAre DEF Flow!PrepareQueues, Flow!Keeps, Flow!sources, Flow!locks,
     Flow!results, Flow!Goes, Flow!PrepareDrops, FlowTypes, Preparation,
     FlowGenerations, HoldsAt
<1>5. FlowFresh'
  BY <1>0, ActorsAre DEF Flow!PrepareQueues, Flow!Keeps, Flow!sources, Flow!locks,
     Flow!results, Flow!Goes, Flow!PrepareDrops, FlowTypes, Preparation, FlowFresh,
     Planning, IndexDone, Prepared
<1>6. Flow!SeesOwnEdits'
  BY <1>0, ActorsAre DEF Flow!PrepareQueues, Flow!Keeps, Flow!sources, Flow!locks,
     Flow!results, Flow!Goes, Flow!PrepareDrops, FlowTypes, FlowFresh, Prepared,
     Flow!SeesOwnEdits
<1>7. Flow!StillWhileEvaluated'
  BY <1>0, ActorsAre DEF Flow!PrepareQueues, Flow!Keeps, Flow!sources, Flow!locks,
     Flow!results, Flow!Goes, Flow!PrepareDrops, FlowTypes, BranchLocks,
     Flow!StillWhileEvaluated
<1>8. QED
  BY <1>1, <1>2, <1>3, <1>4, <1>5, <1>6, <1>7 DEF FlowInv

LEMMA FlowAskStep == ASSUME FlowInv, NEW q \in Queries, Flow!Ask(q) PROVE FlowInv'
<1>0. FlowTypes /\ BranchLocks /\ Preparation /\ FlowGenerations /\ FlowFresh
      /\ Flow!SeesOwnEdits /\ Flow!StillWhileEvaluated
  BY DEF FlowInv
<1>1. FlowTypes'
  BY <1>0, ActorsAre DEF Flow!Ask, Flow!Keeps, Flow!sources, Flow!locks, Flow!results,
     Flow!Goes, FlowTypes, Codes, FlowPlaces
<1>2. BranchLocks'
  BY <1>0, ActorsAre DEF Flow!Ask, Flow!Keeps, Flow!sources, Flow!locks, Flow!results,
     Flow!Goes, FlowTypes, BranchLocks
<1>3. Preparation'
  BY <1>0, ActorsAre DEF Flow!Ask, Flow!Keeps, Flow!sources, Flow!locks, Flow!results,
     Flow!Goes, FlowTypes, Preparation, Planning, IndexDone
<1>4. FlowGenerations'
  BY <1>0, ActorsAre DEF Flow!Ask, Flow!Keeps, Flow!sources, Flow!locks, Flow!results,
     Flow!Goes, FlowTypes, Preparation, FlowGenerations, HoldsAt
<1>5. FlowFresh'
  BY <1>0, ActorsAre DEF Flow!Ask, Flow!Keeps, Flow!sources, Flow!locks, Flow!results,
     Flow!Goes, FlowTypes, Preparation, FlowFresh, Planning, IndexDone, Prepared
<1>6. Flow!SeesOwnEdits'
  BY <1>0, ActorsAre DEF Flow!Ask, Flow!Keeps, Flow!sources, Flow!locks, Flow!results,
     Flow!Goes, FlowTypes, FlowFresh, Prepared, Flow!SeesOwnEdits
<1>7. Flow!StillWhileEvaluated'
  BY <1>0, ActorsAre DEF Flow!Ask, Flow!Keeps, Flow!sources, Flow!locks, Flow!results,
     Flow!Goes, FlowTypes, BranchLocks, Flow!StillWhileEvaluated
<1>8. QED
  BY <1>1, <1>2, <1>3, <1>4, <1>5, <1>6, <1>7 DEF FlowInv

LEMMA FlowAbandonStep ==
    ASSUME FlowInv, NEW q \in Queries, Flow!Abandon(q)
    PROVE  FlowInv'
<1>0. FlowTypes /\ BranchLocks /\ Preparation /\ FlowGenerations /\ FlowFresh
      /\ Flow!SeesOwnEdits /\ Flow!StillWhileEvaluated
  BY DEF FlowInv
<1>1. FlowTypes'
  BY <1>0, ActorsAre DEF Flow!Abandon, Flow!Keeps, Flow!sources, Flow!locks,
     Flow!results, FlowTypes, Codes, FlowPlaces
<1>2. BranchLocks'
  BY <1>0, ActorsAre DEF Flow!Abandon, Flow!Keeps, Flow!sources, Flow!locks,
     Flow!results, FlowTypes, BranchLocks
<1>3. Preparation'
  BY <1>0, ActorsAre DEF Flow!Abandon, Flow!Keeps, Flow!sources, Flow!locks,
     Flow!results, FlowTypes, Preparation, Planning, IndexDone
<1>4. FlowGenerations'
  BY <1>0, ActorsAre DEF Flow!Abandon, Flow!Keeps, Flow!sources, Flow!locks,
     Flow!results, FlowTypes, Preparation, FlowGenerations, HoldsAt
<1>5. FlowFresh'
  BY <1>0, ActorsAre DEF Flow!Abandon, Flow!Keeps, Flow!sources, Flow!locks,
     Flow!results, FlowTypes, Preparation, FlowFresh, Planning, IndexDone, Prepared
<1>6. Flow!SeesOwnEdits'
  BY <1>0, ActorsAre DEF Flow!Abandon, Flow!Keeps, Flow!sources, Flow!locks,
     Flow!results, FlowTypes, FlowFresh, Prepared, Flow!SeesOwnEdits
<1>7. Flow!StillWhileEvaluated'
  BY <1>0, ActorsAre DEF Flow!Abandon, Flow!Keeps, Flow!sources, Flow!locks,
     Flow!results, FlowTypes, BranchLocks, Flow!StillWhileEvaluated
<1>8. QED
  BY <1>1, <1>2, <1>3, <1>4, <1>5, <1>6, <1>7 DEF FlowInv

LEMMA FlowInventoryStep ==
    ASSUME FlowInv, NEW q \in Queries, Flow!Inventory(q)
    PROVE  FlowInv'
<1>0. FlowTypes /\ BranchLocks /\ Preparation /\ FlowGenerations /\ FlowFresh
      /\ Flow!SeesOwnEdits /\ Flow!StillWhileEvaluated
  BY DEF FlowInv
<1>1. FlowTypes'
  BY <1>0, ActorsAre DEF Flow!Inventory, Flow!Keeps, Flow!sources, Flow!locks,
     Flow!results, Flow!Validated, Flow!Current, FlowTypes, Codes, FlowPlaces
<1>2. BranchLocks'
  BY <1>0, ActorsAre DEF Flow!Inventory, Flow!Keeps, Flow!sources, Flow!locks,
     Flow!results, Flow!Validated, Flow!Current, FlowTypes, BranchLocks
<1>3. Preparation'
  BY <1>0, ActorsAre DEF Flow!Inventory, Flow!Keeps, Flow!sources, Flow!locks,
     Flow!results, Flow!Validated, Flow!Current, FlowTypes, Preparation, Planning,
     IndexDone
<1>4. FlowGenerations'
  BY <1>0, ActorsAre DEF Flow!Inventory, Flow!Keeps, Flow!sources, Flow!locks,
     Flow!results, Flow!Validated, Flow!Current, FlowTypes, Preparation,
     FlowGenerations, HoldsAt
<1>5. FlowFresh'
  <2>1. PICK place \in {"idle", "complete", "drain"} :
          at' = [at EXCEPT ![q] = place] /\ (place = "complete" => progress.version = flowDisk)
    BY DEF Flow!Inventory, Flow!Validated, Flow!Current
  <2>2. UNCHANGED <<flowDisk, since, code,
                    progress>> /\ at[q] = "inventory" /\ progress.kind # "pending"
    BY DEF Flow!Inventory, Flow!Keeps, Flow!sources
  <2>3. at \in [Queries \union {Preparer, Refresher} -> FlowPlaces]
    BY <1>0, ActorsAre DEF FlowTypes
  <2>4. at'[Preparer] = at[Preparer] /\ at'[q] = place /\ \A r \in Queries \ {q} : at'[r] = at[r]
    BY <2>1, <2>3, ActorsAre
  <2>5. progress.kind \in {"none", "files", "ready", "failed"}
    BY <1>0, <2>2 DEF FlowTypes
  <2>6. at[Preparer] \in IndexDone \/ progress.kind = "ready" => progress.version = code
    BY <1>0, <2>5 DEF Preparation, IndexDone
  <2>7. flowDisk \in since[q]
    BY <1>0, <2>2 DEF FlowFresh
  <2>8. QED
    BY <1>0, <2>1, <2>2, <2>4, <2>6, <2>7 DEF FlowFresh, Prepared
<1>6. Flow!SeesOwnEdits'
  BY <1>0, ActorsAre DEF Flow!Inventory, Flow!Keeps, Flow!sources, Flow!locks,
     Flow!results, Flow!Validated, Flow!Current, FlowTypes, FlowFresh, Prepared,
     Flow!SeesOwnEdits
<1>7. Flow!StillWhileEvaluated'
  BY <1>0, ActorsAre DEF Flow!Inventory, Flow!Keeps, Flow!sources, Flow!locks,
     Flow!results, Flow!Validated, Flow!Current, FlowTypes, BranchLocks,
     Flow!StillWhileEvaluated
<1>8. QED
  BY <1>1, <1>2, <1>3, <1>4, <1>5, <1>6, <1>7 DEF FlowInv

LEMMA FlowDrainStep == ASSUME FlowInv, NEW q \in Queries, Flow!Drain(q) PROVE FlowInv'
<1>0. FlowTypes /\ BranchLocks /\ Preparation /\ FlowGenerations /\ FlowFresh
      /\ Flow!SeesOwnEdits /\ Flow!StillWhileEvaluated
  BY DEF FlowInv
<1>1. FlowTypes'
  BY <1>0, ActorsAre DEF Flow!Drain, Flow!Keeps, Flow!sources, Flow!locks,
     Flow!results, Flow!Goes, FlowTypes, Codes, FlowPlaces
<1>2. BranchLocks'
  BY <1>0, ActorsAre DEF Flow!Drain, Flow!Keeps, Flow!sources, Flow!locks,
     Flow!results, Flow!Goes, FlowTypes, BranchLocks
<1>3. Preparation'
  BY <1>0, ActorsAre DEF Flow!Drain, Flow!Keeps, Flow!sources, Flow!locks,
     Flow!results, Flow!Goes, FlowTypes, Preparation, Planning, IndexDone
<1>4. FlowGenerations'
  BY <1>0, ActorsAre DEF Flow!Drain, Flow!Keeps, Flow!sources, Flow!locks,
     Flow!results, Flow!Goes, FlowTypes, Preparation, FlowGenerations, HoldsAt
<1>5. FlowFresh'
  BY <1>0, ActorsAre DEF Flow!Drain, Flow!Keeps, Flow!sources, Flow!locks,
     Flow!results, Flow!Goes, FlowTypes, Preparation, FlowFresh, Planning, IndexDone,
     Prepared
<1>6. Flow!SeesOwnEdits'
  BY <1>0, ActorsAre DEF Flow!Drain, Flow!Keeps, Flow!sources, Flow!locks,
     Flow!results, Flow!Goes, FlowTypes, FlowFresh, Prepared, Flow!SeesOwnEdits
<1>7. Flow!StillWhileEvaluated'
  BY <1>0, ActorsAre DEF Flow!Drain, Flow!Keeps, Flow!sources, Flow!locks,
     Flow!results, Flow!Goes, FlowTypes, BranchLocks, Flow!StillWhileEvaluated
<1>8. QED
  BY <1>1, <1>2, <1>3, <1>4, <1>5, <1>6, <1>7 DEF FlowInv

LEMMA FlowCompleteStep ==
    ASSUME FlowInv, NEW q \in Queries, Flow!Complete(q)
    PROVE  FlowInv'
<1>0. FlowTypes /\ BranchLocks /\ Preparation /\ FlowGenerations /\ FlowFresh
      /\ Flow!SeesOwnEdits /\ Flow!StillWhileEvaluated
  BY DEF FlowInv
<1>1. FlowTypes'
  BY <1>0, ActorsAre DEF Flow!Complete, Flow!Keeps, Flow!sources, Flow!locks,
     Flow!results, FlowTypes, Codes, FlowPlaces
<1>2. BranchLocks'
  BY <1>0, ActorsAre DEF Flow!Complete, Flow!Keeps, Flow!sources, Flow!locks,
     Flow!results, FlowTypes, BranchLocks
<1>3. Preparation'
  BY <1>0, ActorsAre DEF Flow!Complete, Flow!Keeps, Flow!sources, Flow!locks,
     Flow!results, FlowTypes, Preparation, Planning, IndexDone
<1>4. FlowGenerations'
  BY <1>0, ActorsAre DEF Flow!Complete, Flow!Keeps, Flow!sources, Flow!locks,
     Flow!results, FlowTypes, Preparation, FlowGenerations, HoldsAt
<1>5. FlowFresh'
  BY <1>0, ActorsAre DEF Flow!Complete, Flow!Keeps, Flow!sources, Flow!locks,
     Flow!results, FlowTypes, Preparation, FlowFresh, Planning, IndexDone, Prepared
<1>6. Flow!SeesOwnEdits'
  BY <1>0, ActorsAre DEF Flow!Complete, Flow!Keeps, Flow!sources, Flow!locks,
     Flow!results, FlowTypes, FlowFresh, Prepared, Flow!SeesOwnEdits
<1>7. Flow!StillWhileEvaluated'
  BY <1>0, ActorsAre DEF Flow!Complete, Flow!Keeps, Flow!sources, Flow!locks,
     Flow!results, FlowTypes, BranchLocks, Flow!StillWhileEvaluated
<1>8. QED
  BY <1>1, <1>2, <1>3, <1>4, <1>5, <1>6, <1>7 DEF FlowInv

LEMMA FlowLockStep == ASSUME FlowInv, NEW q \in Queries, Flow!Lock(q) PROVE FlowInv'
<1>0. FlowTypes /\ BranchLocks /\ Preparation /\ FlowGenerations /\ FlowFresh
      /\ Flow!SeesOwnEdits /\ Flow!StillWhileEvaluated
  BY DEF FlowInv
<1>1. FlowTypes'
  BY <1>0, ActorsAre DEF Flow!Lock, Flow!Keeps, Flow!sources, Flow!locks,
     Flow!results, Flow!Goes, FlowTypes, Codes, FlowPlaces
<1>2. BranchLocks'
  BY <1>0, ActorsAre DEF Flow!Lock, Flow!Keeps, Flow!sources, Flow!locks,
     Flow!results, Flow!Goes, FlowTypes, BranchLocks
<1>3. Preparation'
  BY <1>0, ActorsAre DEF Flow!Lock, Flow!Keeps, Flow!sources, Flow!locks,
     Flow!results, Flow!Goes, FlowTypes, Preparation, Planning, IndexDone
<1>4. FlowGenerations'
  BY <1>0, ActorsAre DEF Flow!Lock, Flow!Keeps, Flow!sources, Flow!locks,
     Flow!results, Flow!Goes, FlowTypes, Preparation, FlowGenerations, HoldsAt
<1>5. FlowFresh'
  BY <1>0, ActorsAre DEF Flow!Lock, Flow!Keeps, Flow!sources, Flow!locks,
     Flow!results, Flow!Goes, FlowTypes, Preparation, FlowFresh, Planning, IndexDone,
     Prepared
<1>6. Flow!SeesOwnEdits'
  BY <1>0, ActorsAre DEF Flow!Lock, Flow!Keeps, Flow!sources, Flow!locks,
     Flow!results, Flow!Goes, FlowTypes, FlowFresh, Prepared, Flow!SeesOwnEdits
<1>7. Flow!StillWhileEvaluated'
  BY <1>0, ActorsAre DEF Flow!Lock, Flow!Keeps, Flow!sources, Flow!locks,
     Flow!results, Flow!Goes, FlowTypes, BranchLocks, Flow!StillWhileEvaluated
<1>8. QED
  BY <1>1, <1>2, <1>3, <1>4, <1>5, <1>6, <1>7 DEF FlowInv

LEMMA FlowAnalyzeStep ==
    ASSUME FlowInv, NEW q \in Queries, Flow!Analyze(q)
    PROVE  FlowInv'
<1>0. FlowTypes /\ BranchLocks /\ Preparation /\ FlowGenerations /\ FlowFresh
      /\ Flow!SeesOwnEdits /\ Flow!StillWhileEvaluated
  BY DEF FlowInv
<1>1. FlowTypes'
  BY <1>0, ActorsAre DEF Flow!Analyze, Flow!Keeps, Flow!sources, Flow!locks,
     Flow!results, Flow!Goes, FlowTypes, Codes, FlowPlaces
<1>2. BranchLocks'
  BY <1>0, ActorsAre DEF Flow!Analyze, Flow!Keeps, Flow!sources, Flow!locks,
     Flow!results, Flow!Goes, FlowTypes, BranchLocks
<1>3. Preparation'
  BY <1>0, ActorsAre DEF Flow!Analyze, Flow!Keeps, Flow!sources, Flow!locks,
     Flow!results, Flow!Goes, FlowTypes, Preparation, Planning, IndexDone
<1>4. FlowGenerations'
  BY <1>0, ActorsAre DEF Flow!Analyze, Flow!Keeps, Flow!sources, Flow!locks,
     Flow!results, Flow!Goes, FlowTypes, Preparation, FlowGenerations, HoldsAt
<1>5. FlowFresh'
  BY <1>0, ActorsAre DEF Flow!Analyze, Flow!Keeps, Flow!sources, Flow!locks,
     Flow!results, Flow!Goes, FlowTypes, Preparation, FlowFresh, Planning, IndexDone,
     Prepared
<1>6. Flow!SeesOwnEdits'
  BY <1>0, ActorsAre DEF Flow!Analyze, Flow!Keeps, Flow!sources, Flow!locks,
     Flow!results, Flow!Goes, FlowTypes, FlowFresh, Prepared, Flow!SeesOwnEdits
<1>7. Flow!StillWhileEvaluated'
  BY <1>0, ActorsAre DEF Flow!Analyze, Flow!Keeps, Flow!sources, Flow!locks,
     Flow!results, Flow!Goes, FlowTypes, BranchLocks, Flow!StillWhileEvaluated
<1>8. QED
  BY <1>1, <1>2, <1>3, <1>4, <1>5, <1>6, <1>7 DEF FlowInv

LEMMA FlowCaptureStep ==
    ASSUME FlowInv, NEW q \in Queries, Flow!Capture(q)
    PROVE  FlowInv'
<1>0. FlowTypes /\ BranchLocks /\ Preparation /\ FlowGenerations /\ FlowFresh
      /\ Flow!SeesOwnEdits /\ Flow!StillWhileEvaluated
  BY DEF FlowInv
<1>1. FlowTypes'
  BY <1>0, ActorsAre DEF Flow!Capture, Flow!Keeps, Flow!sources, Flow!locks,
     Flow!results, Flow!Goes, Flow!View, Flow!Drops, FlowTypes, Codes, FlowPlaces
<1>2. BranchLocks'
  BY <1>0, ActorsAre DEF Flow!Capture, Flow!Keeps, Flow!sources, Flow!locks,
     Flow!results, Flow!Goes, Flow!View, Flow!Drops, FlowTypes, BranchLocks
<1>3. Preparation'
  BY <1>0, ActorsAre DEF Flow!Capture, Flow!Keeps, Flow!sources, Flow!locks,
     Flow!results, Flow!Goes, Flow!View, Flow!Drops, FlowTypes, Preparation, Planning,
     IndexDone
<1>4. FlowGenerations'
  BY <1>0, ActorsAre DEF Flow!Capture, Flow!Keeps, Flow!sources, Flow!locks,
     Flow!results, Flow!Goes, Flow!View, Flow!Drops, FlowTypes, Preparation,
     FlowGenerations, HoldsAt
<1>5. FlowFresh'
  BY <1>0, ActorsAre DEF Flow!Capture, Flow!Keeps, Flow!sources, Flow!locks,
     Flow!results, Flow!Goes, Flow!View, Flow!Drops, FlowTypes, Preparation,
     FlowFresh, Planning, IndexDone, Prepared
<1>6. Flow!SeesOwnEdits'
  BY <1>0, ActorsAre DEF Flow!Capture, Flow!Keeps, Flow!sources, Flow!locks,
     Flow!results, Flow!Goes, Flow!View, Flow!Drops, FlowTypes, FlowFresh, Prepared,
     Flow!SeesOwnEdits
<1>7. Flow!StillWhileEvaluated'
  BY <1>0, ActorsAre DEF Flow!Capture, Flow!Keeps, Flow!sources, Flow!locks,
     Flow!results, Flow!Goes, Flow!View, Flow!Drops, FlowTypes, BranchLocks,
     Flow!StillWhileEvaluated
<1>8. QED
  BY <1>1, <1>2, <1>3, <1>4, <1>5, <1>6, <1>7 DEF FlowInv

LEMMA FlowTryPermitStep ==
    ASSUME FlowInv, NEW q \in Queries, Flow!TryPermit(q)
    PROVE  FlowInv'
<1>0. FlowTypes /\ BranchLocks /\ Preparation /\ FlowGenerations /\ FlowFresh
      /\ Flow!SeesOwnEdits /\ Flow!StillWhileEvaluated
  BY DEF FlowInv
<1>1. FlowTypes'
  BY <1>0, ActorsAre DEF Flow!TryPermit, Flow!Keeps, Flow!sources, Flow!locks,
     Flow!results, Flow!Goes, Flow!Drops, FlowTypes, Codes, FlowPlaces
<1>2. BranchLocks'
  BY <1>0, ActorsAre DEF Flow!TryPermit, Flow!Keeps, Flow!sources, Flow!locks,
     Flow!results, Flow!Goes, Flow!Drops, FlowTypes, BranchLocks
<1>3. Preparation'
  BY <1>0, ActorsAre DEF Flow!TryPermit, Flow!Keeps, Flow!sources, Flow!locks,
     Flow!results, Flow!Goes, Flow!Drops, FlowTypes, Preparation, Planning, IndexDone
<1>4. FlowGenerations'
  BY <1>0, ActorsAre DEF Flow!TryPermit, Flow!Keeps, Flow!sources, Flow!locks,
     Flow!results, Flow!Goes, Flow!Drops, FlowTypes, Preparation, FlowGenerations,
     HoldsAt
<1>5. FlowFresh'
  BY <1>0, ActorsAre DEF Flow!TryPermit, Flow!Keeps, Flow!sources, Flow!locks,
     Flow!results, Flow!Goes, Flow!Drops, FlowTypes, Preparation, FlowFresh, Planning,
     IndexDone, Prepared
<1>6. Flow!SeesOwnEdits'
  BY <1>0, ActorsAre DEF Flow!TryPermit, Flow!Keeps, Flow!sources, Flow!locks,
     Flow!results, Flow!Goes, Flow!Drops, FlowTypes, FlowFresh, Prepared,
     Flow!SeesOwnEdits
<1>7. Flow!StillWhileEvaluated'
  BY <1>0, ActorsAre DEF Flow!TryPermit, Flow!Keeps, Flow!sources, Flow!locks,
     Flow!results, Flow!Goes, Flow!Drops, FlowTypes, BranchLocks,
     Flow!StillWhileEvaluated
<1>8. QED
  BY <1>1, <1>2, <1>3, <1>4, <1>5, <1>6, <1>7 DEF FlowInv

LEMMA FlowQueueStep == ASSUME FlowInv, NEW q \in Queries, Flow!Queue(q) PROVE FlowInv'
<1>0. FlowTypes /\ BranchLocks /\ Preparation /\ FlowGenerations /\ FlowFresh
      /\ Flow!SeesOwnEdits /\ Flow!StillWhileEvaluated
  BY DEF FlowInv
<1>1. FlowTypes'
  BY <1>0, ActorsAre DEF Flow!Queue, Flow!Keeps, Flow!sources, Flow!locks,
     Flow!results, Flow!Goes, FlowTypes, Codes, FlowPlaces
<1>2. BranchLocks'
  BY <1>0, ActorsAre DEF Flow!Queue, Flow!Keeps, Flow!sources, Flow!locks,
     Flow!results, Flow!Goes, FlowTypes, BranchLocks
<1>3. Preparation'
  BY <1>0, ActorsAre DEF Flow!Queue, Flow!Keeps, Flow!sources, Flow!locks,
     Flow!results, Flow!Goes, FlowTypes, Preparation, Planning, IndexDone
<1>4. FlowGenerations'
  BY <1>0, ActorsAre DEF Flow!Queue, Flow!Keeps, Flow!sources, Flow!locks,
     Flow!results, Flow!Goes, FlowTypes, Preparation, FlowGenerations, HoldsAt
<1>5. FlowFresh'
  BY <1>0, ActorsAre DEF Flow!Queue, Flow!Keeps, Flow!sources, Flow!locks,
     Flow!results, Flow!Goes, FlowTypes, Preparation, FlowFresh, Planning, IndexDone,
     Prepared
<1>6. Flow!SeesOwnEdits'
  BY <1>0, ActorsAre DEF Flow!Queue, Flow!Keeps, Flow!sources, Flow!locks,
     Flow!results, Flow!Goes, FlowTypes, FlowFresh, Prepared, Flow!SeesOwnEdits
<1>7. Flow!StillWhileEvaluated'
  BY <1>0, ActorsAre DEF Flow!Queue, Flow!Keeps, Flow!sources, Flow!locks,
     Flow!results, Flow!Goes, FlowTypes, BranchLocks, Flow!StillWhileEvaluated
<1>8. QED
  BY <1>1, <1>2, <1>3, <1>4, <1>5, <1>6, <1>7 DEF FlowInv

LEMMA FlowTryLocksStep ==
    ASSUME FlowInv, NEW q \in Queries, Flow!TryLocks(q)
    PROVE  FlowInv'
<1>0. FlowTypes /\ BranchLocks /\ Preparation /\ FlowGenerations /\ FlowFresh
      /\ Flow!SeesOwnEdits /\ Flow!StillWhileEvaluated
  BY DEF FlowInv
<1>1. FlowTypes'
  BY ZenonT(30), <1>0, ActorsAre DEF Flow!TryLocks, Flow!Keeps, Flow!sources, Flow!locks,
     Flow!results, Flow!Goes, FlowTypes, Codes, FlowPlaces
<1>2. BranchLocks'
  BY <1>0, ActorsAre DEF Flow!TryLocks, Flow!Keeps, Flow!sources, Flow!locks,
     Flow!results, Flow!Goes, FlowTypes, BranchLocks
<1>3. Preparation'
  BY <1>0, ActorsAre DEF Flow!TryLocks, Flow!Keeps, Flow!sources, Flow!locks,
     Flow!results, Flow!Goes, FlowTypes, Preparation, Planning, IndexDone
<1>4. FlowGenerations'
  BY <1>0, ActorsAre DEF Flow!TryLocks, Flow!Keeps, Flow!sources, Flow!locks,
     Flow!results, Flow!Goes, FlowTypes, Preparation, FlowGenerations, HoldsAt
<1>5. FlowFresh'
  BY <1>0, ActorsAre DEF Flow!TryLocks, Flow!Keeps, Flow!sources, Flow!locks,
     Flow!results, Flow!Goes, FlowTypes, Preparation, FlowFresh, Planning, IndexDone,
     Prepared
<1>6. Flow!SeesOwnEdits'
  BY <1>0, ActorsAre DEF Flow!TryLocks, Flow!Keeps, Flow!sources, Flow!locks,
     Flow!results, Flow!Goes, FlowTypes, FlowFresh, Prepared, Flow!SeesOwnEdits
<1>7. Flow!StillWhileEvaluated'
  BY <1>0, ActorsAre DEF Flow!TryLocks, Flow!Keeps, Flow!sources, Flow!locks,
     Flow!results, Flow!Goes, FlowTypes, BranchLocks, Flow!StillWhileEvaluated
<1>8. QED
  BY <1>1, <1>2, <1>3, <1>4, <1>5, <1>6, <1>7 DEF FlowInv

LEMMA FlowAnswerStep == ASSUME FlowInv, NEW q \in Queries, Flow!Answer(q) PROVE FlowInv'
<1>0. FlowTypes /\ BranchLocks /\ Preparation /\ FlowGenerations /\ FlowFresh
      /\ Flow!SeesOwnEdits /\ Flow!StillWhileEvaluated
  BY DEF FlowInv
<1>1. FlowTypes'
  BY <1>0, ActorsAre DEF Flow!Answer, Flow!Keeps, Flow!sources, Flow!locks,
     Flow!results, Flow!Goes, FlowTypes, Codes, FlowPlaces
<1>2. BranchLocks'
  BY <1>0, ActorsAre DEF Flow!Answer, Flow!Keeps, Flow!sources, Flow!locks,
     Flow!results, Flow!Goes, FlowTypes, BranchLocks
<1>3. Preparation'
  BY <1>0, ActorsAre DEF Flow!Answer, Flow!Keeps, Flow!sources, Flow!locks,
     Flow!results, Flow!Goes, FlowTypes, Preparation, Planning, IndexDone
<1>4. FlowGenerations'
  BY <1>0, ActorsAre DEF Flow!Answer, Flow!Keeps, Flow!sources, Flow!locks,
     Flow!results, Flow!Goes, FlowTypes, Preparation, FlowGenerations, HoldsAt
<1>5. FlowFresh'
  BY <1>0, ActorsAre DEF Flow!Answer, Flow!Keeps, Flow!sources, Flow!locks,
     Flow!results, Flow!Goes, FlowTypes, Preparation, FlowFresh, Planning, IndexDone,
     Prepared
<1>6. Flow!SeesOwnEdits'
  BY <1>0, ActorsAre DEF Flow!Answer, Flow!Keeps, Flow!sources, Flow!locks,
     Flow!results, Flow!Goes, FlowTypes, FlowFresh, Prepared, Flow!SeesOwnEdits
<1>7. Flow!StillWhileEvaluated'
  BY <1>0, ActorsAre DEF Flow!Answer, Flow!Keeps, Flow!sources, Flow!locks,
     Flow!results, Flow!Goes, FlowTypes, BranchLocks, Flow!StillWhileEvaluated
<1>8. QED
  BY <1>1, <1>2, <1>3, <1>4, <1>5, <1>6, <1>7 DEF FlowInv

LEMMA FlowRequireStep == ASSUME FlowInv, Flow!Discover, required PROVE FlowInv'
<1>1. FlowTypes /\ BranchLocks /\ Preparation /\ FlowGenerations /\ FlowFresh
      /\ Flow!SeesOwnEdits /\ Flow!StillWhileEvaluated
  BY DEF FlowInv
<1>2. /\ at[Preparer] = "discover" /\ at' = [at EXCEPT ![Preparer] = "require"]
      /\ progress' = [kind |-> "pending", version |-> Nobody, gen |-> 0]
      /\ analysis' = analysis \ {Preparer}
      /\ UNCHANGED <<branched, flowDisk, gen, repair, since, writer, sees, answer,
                     code, plan>>
  BY <1>1 DEF Flow!Discover, Flow!Keeps, Flow!Send, Flow!PrepareDrops, Flow!sources,
     Flow!results
<1>3. FlowTypes'
  BY <1>1, <1>2, ActorsAre DEF FlowTypes, Codes, FlowPlaces
<1>4. BranchLocks'
  BY <1>1, <1>2, ActorsAre DEF FlowTypes, BranchLocks
<1>5. Preparation'
  BY <1>1, <1>2, ActorsAre DEF FlowTypes, Preparation, Planning, IndexDone
<1>6. FlowGenerations'
  BY <1>1, <1>2, ActorsAre DEF FlowTypes, Preparation, FlowGenerations, HoldsAt
<1>7. FlowFresh'
  BY <1>1, <1>2, ActorsAre DEF FlowTypes, Preparation, FlowFresh, Planning, IndexDone,
     Prepared
<1>8. Flow!SeesOwnEdits'
  BY <1>1, <1>2, ActorsAre DEF FlowTypes, FlowFresh, Prepared, Flow!SeesOwnEdits
<1>9. Flow!StillWhileEvaluated'
  BY <1>1, <1>2, ActorsAre DEF FlowTypes, BranchLocks, Flow!StillWhileEvaluated
<1>10. QED
  BY <1>3, <1>4, <1>5, <1>6, <1>7, <1>8, <1>9 DEF FlowInv

LEMMA FlowUnchangedStep ==
    ASSUME FlowInv, Flow!Discover, ~required, code = flowDisk
    PROVE  FlowInv'
<1>1. FlowTypes /\ BranchLocks /\ Preparation /\ FlowGenerations /\ FlowFresh
      /\ Flow!SeesOwnEdits /\ Flow!StillWhileEvaluated
  BY DEF FlowInv
<1>2. /\ at[Preparer] = "discover" /\ at' = [at EXCEPT ![Preparer] = "indexed"]
      /\ UNCHANGED <<branched, flowDisk, gen, repair, since, writer, sees, answer,
                     code, plan, progress, analysis>>
  BY <1>1 DEF Flow!Discover, Flow!Keeps, Flow!Send, Flow!PrepareDrops, Flow!sources,
     Flow!results
<1>3. FlowTypes'
  BY <1>1, <1>2, ActorsAre DEF FlowTypes, Codes, FlowPlaces
<1>4. BranchLocks'
  BY <1>1, <1>2, ActorsAre DEF FlowTypes, BranchLocks
<1>5. Preparation'
  BY <1>1, <1>2, ActorsAre DEF FlowTypes, Preparation, Planning, IndexDone
<1>6. FlowGenerations'
  BY <1>1, <1>2, ActorsAre DEF FlowTypes, Preparation, FlowGenerations, HoldsAt
<1>7. FlowFresh'
  BY <1>1, <1>2, ActorsAre DEF FlowTypes, Preparation, FlowFresh, Planning, IndexDone,
     Prepared
<1>8. Flow!SeesOwnEdits'
  BY <1>1, <1>2, ActorsAre DEF FlowTypes, FlowFresh, Prepared, Flow!SeesOwnEdits
<1>9. Flow!StillWhileEvaluated'
  BY <1>1, <1>2, ActorsAre DEF FlowTypes, BranchLocks, Flow!StillWhileEvaluated
<1>10. QED
  BY <1>3, <1>4, <1>5, <1>6, <1>7, <1>8, <1>9 DEF FlowInv

LEMMA FlowPlanStep ==
    ASSUME FlowInv, Flow!Discover, ~required, code # flowDisk
    PROVE  FlowInv'
<1>1. FlowTypes /\ BranchLocks /\ Preparation /\ FlowGenerations /\ FlowFresh
      /\ Flow!SeesOwnEdits /\ Flow!StillWhileEvaluated
  BY DEF FlowInv
<1>2. /\ at[Preparer] = "discover" /\ at' = [at EXCEPT ![Preparer] = "admission 2"]
      /\ plan' = [version |-> flowDisk, gen |-> gen]
      /\ progress' = [kind |-> "files", version |-> flowDisk, gen |-> 0]
      /\ analysis' = analysis \ {Preparer}
      /\ UNCHANGED <<branched, flowDisk, gen, repair, since, writer, sees, answer,
                     code>>
  BY <1>1 DEF Flow!Discover, Flow!Keeps, Flow!Send, Flow!PrepareDrops, Flow!sources,
     Flow!results
<1>3. FlowTypes'
  BY <1>1, <1>2, ActorsAre DEF FlowTypes, Codes, FlowPlaces
<1>4. BranchLocks'
  BY <1>1, <1>2, ActorsAre DEF FlowTypes, BranchLocks
<1>5. Preparation'
  BY <1>1, <1>2, ActorsAre DEF FlowTypes, Preparation, Planning, IndexDone
<1>6. FlowGenerations'
  <2>1. plan'.gen = gen /\ progress'.gen = 0 /\ gen' = gen /\ gen \in Nat
    BY <1>1, <1>2 DEF FlowTypes
  <2>2. at'[Preparer] # "mark" /\ progress'.kind # "ready"
    BY <1>1, <1>2, ActorsAre DEF FlowTypes
  <2>3. QED
    BY <2>1, <2>2 DEF FlowGenerations
<1>7. FlowFresh'
  BY <1>1, <1>2, ActorsAre DEF FlowTypes, Preparation, FlowFresh, Planning, IndexDone,
     Prepared
<1>8. Flow!SeesOwnEdits'
  BY <1>1, <1>2, ActorsAre DEF FlowTypes, FlowFresh, Prepared, Flow!SeesOwnEdits
<1>9. Flow!StillWhileEvaluated'
  BY <1>1, <1>2, ActorsAre DEF FlowTypes, BranchLocks, Flow!StillWhileEvaluated
<1>10. QED
  BY <1>3, <1>4, <1>5, <1>6, <1>7, <1>8, <1>9 DEF FlowInv

LEMMA FlowInstallStep == ASSUME FlowInv, Flow!Index, Flow!PlanCurrent PROVE FlowInv'
<1>1. FlowTypes /\ BranchLocks /\ Preparation /\ FlowGenerations /\ FlowFresh
      /\ Flow!SeesOwnEdits /\ Flow!StillWhileEvaluated
  BY DEF FlowInv
<1>2. /\ at[Preparer] = "index" /\ at' = [at EXCEPT ![Preparer] = "indexed"]
      /\ code' = plan.version /\ plan.version = flowDisk
      /\ UNCHANGED <<branched, flowDisk, gen, repair, since, writer, sees, answer,
                     plan, progress, analysis>>
  BY <1>1 DEF Flow!Index, Flow!PlanCurrent, Flow!Current, Flow!Keeps, Flow!sources,
     Flow!results
<1>3. FlowTypes'
  BY <1>1, <1>2, ActorsAre DEF FlowTypes, Codes, FlowPlaces
<1>4. BranchLocks'
  BY <1>1, <1>2, ActorsAre DEF FlowTypes, BranchLocks
<1>5. Preparation'
  BY <1>1, <1>2, ActorsAre DEF FlowTypes, Preparation, Planning, IndexDone
<1>6. FlowGenerations'
  BY <1>1, <1>2, ActorsAre DEF FlowTypes, Preparation, FlowGenerations, HoldsAt
<1>7. FlowFresh'
  BY <1>1, <1>2, ActorsAre DEF FlowTypes, Preparation, FlowFresh, Planning, IndexDone,
     Prepared
<1>8. Flow!SeesOwnEdits'
  BY <1>1, <1>2, ActorsAre DEF FlowTypes, FlowFresh, Prepared, Flow!SeesOwnEdits
<1>9. Flow!StillWhileEvaluated'
  BY <1>1, <1>2, ActorsAre DEF FlowTypes, BranchLocks, Flow!StillWhileEvaluated
<1>10. QED
  BY <1>3, <1>4, <1>5, <1>6, <1>7, <1>8, <1>9 DEF FlowInv

LEMMA FlowOutdatedStep == ASSUME FlowInv, Flow!Index, ~Flow!PlanCurrent PROVE FlowInv'
<1>1. FlowTypes /\ BranchLocks /\ Preparation /\ FlowGenerations /\ FlowFresh
      /\ Flow!SeesOwnEdits /\ Flow!StillWhileEvaluated
  BY DEF FlowInv
<1>2. /\ at[Preparer] = "index" /\ at' = [at EXCEPT ![Preparer] = "admission"]
      /\ progress' = [kind |-> "pending", version |-> Nobody, gen |-> 0]
      /\ analysis' = analysis \ {Preparer}
      /\ UNCHANGED <<branched, flowDisk, gen, repair, since, writer, sees, answer,
                     code, plan>>
  BY <1>1 DEF Flow!Index, Flow!Keeps, Flow!Send, Flow!PrepareDrops, Flow!sources,
     Flow!results
<1>3. FlowTypes'
  BY <1>1, <1>2, ActorsAre DEF FlowTypes, Codes, FlowPlaces
<1>4. BranchLocks'
  BY <1>1, <1>2, ActorsAre DEF FlowTypes, BranchLocks
<1>5. Preparation'
  BY <1>1, <1>2, ActorsAre DEF FlowTypes, Preparation, Planning, IndexDone
<1>6. FlowGenerations'
  BY <1>1, <1>2, ActorsAre DEF FlowTypes, Preparation, FlowGenerations, HoldsAt
<1>7. FlowFresh'
  BY <1>1, <1>2, ActorsAre DEF FlowTypes, Preparation, FlowFresh, Planning, IndexDone,
     Prepared
<1>8. Flow!SeesOwnEdits'
  BY <1>1, <1>2, ActorsAre DEF FlowTypes, FlowFresh, Prepared, Flow!SeesOwnEdits
<1>9. Flow!StillWhileEvaluated'
  BY <1>1, <1>2, ActorsAre DEF FlowTypes, BranchLocks, Flow!StillWhileEvaluated
<1>10. QED
  BY <1>3, <1>4, <1>5, <1>6, <1>7, <1>8, <1>9 DEF FlowInv

LEMMA FlowStartStep ==
    ASSUME FlowInv, NEW q \in Queries, Flow!Prepare(q), Flow!NeedsRefresh
    PROVE  FlowInv'
<1>1. FlowTypes /\ BranchLocks /\ Preparation /\ FlowGenerations /\ FlowFresh
      /\ Flow!SeesOwnEdits /\ Flow!StillWhileEvaluated
  BY DEF FlowInv
<1>2. /\ at[q] = "prepare" /\ at[Preparer] = "idle"
      /\ at' = [at EXCEPT ![q] = "inventory", ![Preparer] = IF branched THEN "acquire" ELSE "admission"]
      /\ progress' = [kind |-> "pending", version |-> Nobody, gen |-> 0]
      /\ UNCHANGED <<branched, flowDisk, gen, repair, since, writer, sees, answer,
                     code, plan, analysis>>
  BY <1>1 DEF Flow!Prepare, Flow!NeedsRefresh, Preparation, FlowTypes, Flow!Keeps,
     Flow!Send, Flow!sources, Flow!locks, Flow!results
<1>3. FlowTypes'
  BY <1>1, <1>2, ActorsAre DEF FlowTypes, Codes, FlowPlaces
<1>4. BranchLocks'
  BY <1>1, <1>2, ActorsAre DEF FlowTypes, BranchLocks
<1>5. Preparation'
  BY <1>1, <1>2, ActorsAre DEF FlowTypes, Preparation, Planning, IndexDone
<1>6. FlowGenerations'
  BY <1>1, <1>2, ActorsAre DEF FlowTypes, Preparation, FlowGenerations, HoldsAt
<1>7. FlowFresh'
  BY <1>1, <1>2, ActorsAre DEF FlowTypes, Preparation, FlowFresh, Planning, IndexDone,
     Prepared
<1>8. Flow!SeesOwnEdits'
  BY <1>1, <1>2, ActorsAre DEF FlowTypes, FlowFresh, Prepared, Flow!SeesOwnEdits
<1>9. Flow!StillWhileEvaluated'
  BY <1>1, <1>2, ActorsAre DEF FlowTypes, BranchLocks, Flow!StillWhileEvaluated
<1>10. QED
  BY <1>3, <1>4, <1>5, <1>6, <1>7, <1>8, <1>9 DEF FlowInv

LEMMA FlowJoinStep ==
    ASSUME FlowInv, NEW q \in Queries, Flow!Prepare(q), ~Flow!NeedsRefresh
    PROVE  FlowInv'
<1>1. FlowTypes /\ BranchLocks /\ Preparation /\ FlowGenerations /\ FlowFresh
      /\ Flow!SeesOwnEdits /\ Flow!StillWhileEvaluated
  BY DEF FlowInv
<1>2. /\ at[q] = "prepare" /\ at' = [at EXCEPT ![q] = "inventory"]
      /\ UNCHANGED <<branched, flowDisk, gen, repair, since, writer, sees, answer,
                     code, plan, progress, analysis>>
  BY <1>1 DEF Flow!Prepare, Flow!Keeps, Flow!sources, Flow!locks, Flow!results
<1>3. FlowTypes'
  BY <1>1, <1>2, ActorsAre DEF FlowTypes, Codes, FlowPlaces
<1>4. BranchLocks'
  BY <1>1, <1>2, ActorsAre DEF FlowTypes, BranchLocks
<1>5. Preparation'
  BY <1>1, <1>2, ActorsAre DEF FlowTypes, Preparation, Planning, IndexDone
<1>6. FlowGenerations'
  BY <1>1, <1>2, ActorsAre DEF FlowTypes, Preparation, FlowGenerations, HoldsAt
<1>7. FlowFresh'
  BY <1>1, <1>2, ActorsAre DEF FlowTypes, Preparation, FlowFresh, Planning, IndexDone,
     Prepared
<1>8. Flow!SeesOwnEdits'
  BY <1>1, <1>2, ActorsAre DEF FlowTypes, FlowFresh, Prepared, Flow!SeesOwnEdits
<1>9. Flow!StillWhileEvaluated'
  BY <1>1, <1>2, ActorsAre DEF FlowTypes, BranchLocks, Flow!StillWhileEvaluated
<1>10. QED
  BY <1>3, <1>4, <1>5, <1>6, <1>7, <1>8, <1>9 DEF FlowInv

LEMMA FlowEvaluatedStep ==
    ASSUME FlowInv, NEW q \in Queries, Flow!Evaluate(q), Flow!Unmoved(q)
    PROVE  FlowInv'
<1>1. FlowTypes /\ BranchLocks /\ Preparation /\ FlowGenerations /\ FlowFresh
      /\ Flow!SeesOwnEdits /\ Flow!StillWhileEvaluated
  BY DEF FlowInv
<1>2. /\ at[q] = "evaluate" /\ at' = [at EXCEPT ![q] = "answer"]
      /\ answer' = [answer EXCEPT ![q] = [code |-> code, revision |-> sees[q].revision]]
      /\ branched => sees[q].revision = flowDisk /\ sees[q].gen = gen /\ ~repair
      /\ UNCHANGED <<branched, flowDisk, gen, repair, since, writer, sees, code, plan,
                     progress, analysis>>
  BY <1>1 DEF Flow!Evaluate, Flow!Unmoved, Flow!Keeps, Flow!sources, Flow!results
<1>3. FlowTypes'
  BY <1>1, <1>2, ActorsAre DEF FlowTypes, Codes, FlowPlaces
<1>4. BranchLocks'
  BY <1>1, <1>2, ActorsAre DEF FlowTypes, BranchLocks
<1>5. Preparation'
  BY <1>1, <1>2, ActorsAre DEF FlowTypes, Preparation, Planning, IndexDone
<1>6. FlowGenerations'
  BY <1>1, <1>2, ActorsAre DEF FlowTypes, Preparation, FlowGenerations, HoldsAt
<1>7. FlowFresh'
  BY <1>1, <1>2, ActorsAre DEF FlowTypes, Preparation, FlowFresh, Planning, IndexDone,
     Prepared
<1>8. Flow!SeesOwnEdits'
  BY <1>1, <1>2, ActorsAre DEF FlowTypes, FlowFresh, Prepared, Flow!SeesOwnEdits
<1>9. Flow!StillWhileEvaluated'
  BY <1>1, <1>2, ActorsAre DEF FlowTypes, BranchLocks, Flow!StillWhileEvaluated
<1>10. QED
  BY <1>3, <1>4, <1>5, <1>6, <1>7, <1>8, <1>9 DEF FlowInv

LEMMA FlowMovedStep ==
    ASSUME FlowInv, NEW q \in Queries, Flow!Evaluate(q), ~Flow!Unmoved(q)
    PROVE  FlowInv'
<1>1. FlowTypes /\ BranchLocks /\ Preparation /\ FlowGenerations /\ FlowFresh
      /\ Flow!SeesOwnEdits /\ Flow!StillWhileEvaluated
  BY DEF FlowInv
<1>2. /\ at[q] = "evaluate" /\ at' = [at EXCEPT ![q] = "idle"]
      /\ analysis' = analysis \ {q}
      /\ UNCHANGED <<branched, flowDisk, gen, repair, since, writer, sees, answer,
                     code, plan, progress>>
  BY <1>1 DEF Flow!Evaluate, Flow!Keeps, Flow!sources, Flow!results
<1>3. FlowTypes'
  BY <1>1, <1>2, ActorsAre DEF FlowTypes, Codes, FlowPlaces
<1>4. BranchLocks'
  BY <1>1, <1>2, ActorsAre DEF FlowTypes, BranchLocks
<1>5. Preparation'
  BY <1>1, <1>2, ActorsAre DEF FlowTypes, Preparation, Planning, IndexDone
<1>6. FlowGenerations'
  BY <1>1, <1>2, ActorsAre DEF FlowTypes, Preparation, FlowGenerations, HoldsAt
<1>7. FlowFresh'
  BY <1>1, <1>2, ActorsAre DEF FlowTypes, Preparation, FlowFresh, Planning, IndexDone,
     Prepared
<1>8. Flow!SeesOwnEdits'
  BY <1>1, <1>2, ActorsAre DEF FlowTypes, FlowFresh, Prepared, Flow!SeesOwnEdits
<1>9. Flow!StillWhileEvaluated'
  BY <1>1, <1>2, ActorsAre DEF FlowTypes, BranchLocks, Flow!StillWhileEvaluated
<1>10. QED
  BY <1>3, <1>4, <1>5, <1>6, <1>7, <1>8, <1>9 DEF FlowInv

LEMMA FlowDiscoverStep == ASSUME FlowInv, Flow!Discover PROVE FlowInv'
<1>1. required \/ (~required /\ code = flowDisk) \/ (~required /\ code # flowDisk)
  BY DEF Flow!Discover
<1>2. QED
  BY <1>1, FlowRequireStep, FlowUnchangedStep, FlowPlanStep

LEMMA FlowIndexStep == ASSUME FlowInv, Flow!Index PROVE FlowInv'
  BY FlowInstallStep, FlowOutdatedStep

LEMMA FlowPrepareStep ==
    ASSUME FlowInv, NEW q \in Queries, Flow!Prepare(q)
    PROVE  FlowInv'
  BY FlowStartStep, FlowJoinStep

LEMMA FlowEvaluateStep ==
    ASSUME FlowInv, NEW q \in Queries, Flow!Evaluate(q)
    PROVE  FlowInv'
  BY FlowEvaluatedStep, FlowMovedStep

LEMMA FlowInit == ASSUME Flow!Init PROVE FlowInv
<1>1. FlowTypes
  BY ActorsAre DEF Flow!Init, FlowTypes, Codes, FlowPlaces, Flow!NoProgress
<1>2. BranchLocks /\ Preparation
  BY ActorsAre DEF Flow!Init, BranchLocks, Preparation, Flow!NoProgress, Planning,
     IndexDone
<1>3. FlowGenerations
  BY ActorsAre DEF Flow!Init, FlowGenerations, Flow!NoProgress
<1>4. FlowFresh /\ Flow!SeesOwnEdits /\ Flow!StillWhileEvaluated
  BY ActorsAre DEF Flow!Init, FlowFresh, Prepared, Flow!SeesOwnEdits,
     Flow!StillWhileEvaluated
<1>5. QED
  BY <1>1, <1>2, <1>3, <1>4 DEF FlowInv

LEMMA FlowNext == ASSUME FlowInv, [Flow!Next]_(Flow!vars) PROVE FlowInv'
<1>1. CASE Flow!Edit \/ Flow!RefreshLock \/ Flow!RefreshEnd
  BY <1>1, FlowEditStep, FlowRefreshLockStep, FlowRefreshEndStep
<1>2. CASE Flow!PreparerStep \/ Flow!PrepareQueues
  BY <1>2, FlowAcquiredStep, FlowPrepareLockStep, FlowPrepareAnalyzeStep,
     FlowDiscoverStep, FlowRequireInputsStep, FlowIndexStep, FlowUnlockStep,
     FlowMarkStep, FlowPrepareFailsStep, FlowPrepareQueuesStep DEF Flow!PreparerStep
<1>3. ASSUME NEW q \in Queries, Flow!Ask(q) \/ Flow!Abandon(q) \/ Flow!QueryStep(q) PROVE FlowInv'
  BY <1>3, FlowAskStep, FlowAbandonStep, FlowPrepareStep, FlowInventoryStep,
     FlowDrainStep, FlowCompleteStep, FlowLockStep, FlowAnalyzeStep, FlowCaptureStep,
     FlowTryPermitStep, FlowQueueStep, FlowTryLocksStep, FlowEvaluateStep,
     FlowAnswerStep DEF Flow!QueryStep
<1>4. CASE UNCHANGED Flow!vars
  BY <1>4 DEF Flow!vars, Flow!sources, Flow!locks, Flow!results, FlowInv, FlowTypes,
     BranchLocks, Preparation, FlowGenerations, HoldsAt, FlowFresh, Flow!SeesOwnEdits,
     Flow!StillWhileEvaluated
<1>5. QED
  BY <1>1, <1>2, <1>3, <1>4 DEF Flow!Next

\* The invariant holds in every reachable state of a query.
THEOREM FlowInvariant == Flow!Spec => []FlowInv
<1>1. Flow!Init => FlowInv
  BY FlowInit
<1>2. FlowInv /\ [Flow!Next]_(Flow!vars) => FlowInv'
  BY FlowNext
<1>3. QED
  BY <1>1, <1>2, PTL DEF Flow!Spec

LEMMA FlowInvTrue ==
    ASSUME FlowInv
    PROVE  Flow!ReadyTrue /\ Flow!StillWhileEvaluated /\ Flow!SeesOwnEdits
  BY DEF FlowInv, FlowGenerations, HoldsAt, Flow!ReadyTrue

\* A query evaluates what was indexed after it arrived, and the branch stands
\* still meanwhile: for any number of queries, versions and workers.
THEOREM FlowCorrect == Flow!Spec => []FlowTrue
<1>1. FlowInv => FlowTrue
  BY FlowInvTrue DEF FlowTrue
<1>2. QED
  BY <1>1, FlowInvariant, PTL

-----------------------------------------------------------------------------
(***************************************************************************)
(* Workspaces                                                              *)
(*                                                                         *)
(* A stamp is known to hold as long as its file is watched and the fence   *)
(* has not reported it.  The fence of a preparation begins before its      *)
(* first stamp is read, so each stamp it has validated or planned is       *)
(* current or reported (ValidKept, PlanKept); the contents are read after  *)
(* the stamps, and the second look at the stamps makes them equal          *)
(* (IndexKept); what was reported meanwhile is left to the next            *)
(* preparation (WatchKept), which the phase of the store forces to look.   *)
(***************************************************************************)

\* What is bound was read; of a clean store it is what the manifest says.
BindingsKept ==
  /\ \A s \in ProjectSources : store.bound[s] # None => store.bound[s] <= disk[s]
  /\ \A f \in Workspace!AllFiles : store.manifest.stamps[f] # None => f \in Workspace!Named(store.manifest)
  /\ store.phase = "clean" =>
       /\ store.manifest.project # None
       /\ \A s \in Lists[store.manifest.project] :
            store.bound[s] # None /\ store.bound[s] = store.manifest.stamps[s]

\* What the watches of a workspace have not reported is as its manifest says.
WatchKept ==
  ws # None =>
    /\ ws.manifest = store.manifest
    /\ ws.initialized =>
         /\ store.phase = "clean" /\ Workspace!Named(ws.manifest) \subseteq ws.directories
         /\ \A f \in Workspace!Named(ws.manifest) \ ws.since : ws.manifest.stamps[f] = disk[f]

\* What was validated is at least as new as the question, and watched.
ValidKept ==
  job.at = "validate" =>
    /\ Workspace!Named(ws.manifest) \subseteq ws.directories /\ job.stamps = Workspace!Empty.stamps
    /\ \A f \in (Workspace!Named(ws.manifest) \ job.left) \ job.changed :
         /\ ws.manifest.stamps[f] # None /\ ws.manifest.stamps[f] >= job.asked[f]
         /\ f \notin job.since => ws.manifest.stamps[f] = disk[f]

\* So is what was planned.
PlanKept ==
  job.at \in {"plan", "index", "check"} =>
    /\ job.project # None
    /\ \A f \in Workspace!AllFiles : job.stamps[f] # None =>
         /\ f \in Workspace!Planned /\ f \in ws.directories
         /\ job.asked[f] <= job.stamps[f] /\ job.stamps[f] <= disk[f]
         /\ f \notin job.since => job.stamps[f] = disk[f]

\* What is indexed is at least as new as the stamps, and the same if the file
\* has not changed when it is checked.
IndexKept ==
  job.at \in {"index", "check"} =>
    /\ store.phase = "dirty"
    /\ \A f \in Workspace!Planned : job.stamps[f] # None
    /\ \A s \in Lists[job.project] \ job.todo :
         store.bound[s] # None /\ store.bound[s] >= job.stamps[s]
    /\ job.at = "check" =>
         /\ job.todo = {}
         /\ \A s \in Lists[job.project] \ job.left : store.bound[s] = job.stamps[s]

AnswerKept ==
  job.at = "done" =>
    /\ store.phase = "clean"
    /\ \A f \in Workspace!Named(ws.manifest) : ws.manifest.stamps[f] # None /\ ws.manifest.stamps[f] >= job.asked[f]

JobKept ==
  job # None =>
    /\ ws # None /\ \A f \in Workspace!AllFiles : job.asked[f] <= disk[f]
    /\ ValidKept /\ PlanKept /\ IndexKept /\ AnswerKept

WorkspaceInv == Workspace!TypeOK /\ BindingsKept /\ WatchKept /\ JobKept

LEMMA WorkspaceNumbers ==
    /\ MaxEdits \in Nat /\ Workspace!Versions = 0 .. MaxEdits /\ Workspace!AllFiles = ProjectSources \union {Project}
    /\ Project \notin ProjectSources /\ None \notin Workspace!Versions /\ None \notin Workspace!Workspaces /\ None \notin Workspace!Jobs
    /\ \A v \in Workspace!Versions : Lists[v] \subseteq ProjectSources
  BY ListsAssumption, NothingAssumption, NoneAssumption DEF Workspace!Versions,
     Workspace!AllFiles

LEMMA WorkspaceIs ==
    ASSUME NEW m \in Workspace!Manifests, NEW d \in SUBSET Workspace!AllFiles, NEW s \in SUBSET Workspace!AllFiles, NEW i \in BOOLEAN
    PROVE  [manifest |-> m, directories |-> d, since |-> s, initialized |-> i] \in Workspace!Workspaces
  BY DEF Workspace!Workspaces

LEMMA JobIs ==
    ASSUME WorkspaceInv, job # None
    PROVE  job \in Workspace!Jobs /\ ws # None /\ ws \in Workspace!Workspaces
  BY DEF WorkspaceInv, Workspace!TypeOK, JobKept

LEMMA JobTypes ==
    ASSUME NEW j \in Workspace!Jobs
    PROVE  /\ j = [asked |-> j.asked, since |-> j.since, project |-> j.project,
                   stamps |-> j.stamps, left |-> j.left, changed |-> j.changed,
                   todo |-> j.todo, at |-> j.at]
           /\ j.asked \in [Workspace!AllFiles -> Workspace!Versions] /\ j.since \subseteq Workspace!AllFiles
           /\ j.project \in {None} \union Workspace!Versions /\ j.stamps \in Workspace!Stamps
           /\ j.left \subseteq Workspace!AllFiles /\ j.changed \subseteq Workspace!AllFiles /\ j.todo \subseteq ProjectSources
           /\ j.at \in {"validate", "plan", "index", "check", "done"}
  BY DEF Workspace!Jobs

LEMMA WorkspaceTypes ==
    ASSUME NEW w \in Workspace!Workspaces
    PROVE  /\ w = [manifest |-> w.manifest, directories |-> w.directories, since |-> w.since,
                   initialized |-> w.initialized]
           /\ w.manifest \in Workspace!Manifests /\ w.directories \subseteq Workspace!AllFiles
           /\ w.since \subseteq Workspace!AllFiles /\ w.initialized \in BOOLEAN
           /\ w.manifest = [project |-> w.manifest.project, stamps |-> w.manifest.stamps]
           /\ w.manifest.project \in {None} \union Workspace!Versions /\ w.manifest.stamps \in Workspace!Stamps
  BY DEF Workspace!Workspaces, Workspace!Manifests

LEMMA StoreTypes ==
    ASSUME WorkspaceInv
    PROVE  /\ store = [phase |-> store.phase, manifest |-> store.manifest, bound |-> store.bound]
           /\ store.phase \in {"clean", "dirty"} /\ store.manifest \in Workspace!Manifests
           /\ store.manifest.project \in {None} \union Workspace!Versions /\ store.manifest.stamps \in Workspace!Stamps
           /\ store.bound \in [ProjectSources -> {None} \union Workspace!Versions]
           /\ disk \in [Workspace!AllFiles -> Workspace!Versions]
  BY DEF WorkspaceInv, Workspace!TypeOK, Workspace!Stores, Workspace!Manifests

LEMMA WorkspaceValidateStep ==
    ASSUME WorkspaceInv, NEW f \in Workspace!AllFiles, Workspace!Validate(f)
    PROVE  WorkspaceInv'
<1>1. Workspace!TypeOK /\ BindingsKept /\ WatchKept /\ JobKept
  BY DEF WorkspaceInv
<1>2. job # None /\ job \in Workspace!Jobs /\ ws # None /\ ws \in Workspace!Workspaces
  BY JobIs DEF Workspace!Validate, Workspace!At
<1>3. job.at = "validate" /\ f \in job.left /\ disk' = disk /\ ws' = ws
      /\ store' = store
  BY <1>1, <1>2, WorkspaceNumbers, StoreTypes DEF Workspace!Validate, Workspace!At
<1>4. job' = [asked |-> job.asked, since |-> job.since, project |-> job.project, stamps |-> job.stamps, left |-> job.left \ {f}, changed |-> IF disk[f] # ws.manifest.stamps[f] THEN job.changed \union {f} ELSE job.changed, todo |-> job.todo, at |-> job.at]
  BY <1>2 DEF Workspace!Validate, Workspace!At, Workspace!Jobs
<1>5. job' \in Workspace!Jobs /\ job' # None
  BY <1>2, <1>4, JobTypes, WorkspaceNumbers DEF Workspace!Jobs
<1>6. Workspace!TypeOK'
  BY <1>1, <1>2, <1>3, <1>4, <1>5, JobTypes, WorkspaceTypes, StoreTypes,
     WorkspaceNumbers DEF Workspace!TypeOK
<1>7. BindingsKept'
  BY <1>1, <1>2, <1>3, <1>4, <1>5, JobTypes, WorkspaceTypes, StoreTypes,
     WorkspaceNumbers DEF Workspace!TypeOK, BindingsKept
<1>8. WatchKept'
  BY <1>1, <1>2, <1>3, <1>4, <1>5, JobTypes, WorkspaceTypes, StoreTypes,
     WorkspaceNumbers DEF Workspace!TypeOK, BindingsKept, WatchKept, Workspace!Named
<1>9. ValidKept'
  BY <1>1, <1>2, <1>3, <1>4, <1>5, JobTypes, WorkspaceTypes, StoreTypes,
     WorkspaceNumbers DEF Workspace!TypeOK, WatchKept, JobKept, ValidKept,
     Workspace!Named
<1>10. PlanKept'
  BY <1>1, <1>2, <1>3, <1>4, <1>5, JobTypes, WorkspaceTypes, StoreTypes,
     WorkspaceNumbers DEF Workspace!TypeOK, JobKept, ValidKept, PlanKept,
     Workspace!Planned, Workspace!Empty
<1>11. IndexKept'
  BY <1>1, <1>2, <1>3, <1>4, <1>5, JobTypes, WorkspaceTypes, StoreTypes,
     WorkspaceNumbers DEF Workspace!TypeOK, BindingsKept, WatchKept, JobKept,
     ValidKept, PlanKept, IndexKept, Workspace!Planned, Workspace!Reuses
<1>12. AnswerKept'
  BY <1>1, <1>2, <1>3, <1>4, <1>5, JobTypes, WorkspaceTypes, StoreTypes,
     WorkspaceNumbers DEF Workspace!TypeOK, WatchKept, JobKept, ValidKept, PlanKept,
     IndexKept, AnswerKept, Workspace!Planned, Workspace!Named
<1>13. \A g \in Workspace!AllFiles : job'.asked[g] <= disk'[g]
  BY <1>1, <1>2, <1>3, <1>4, <1>5 DEF JobKept
<1>14. ws' # None /\ job' # None
  BY <1>2, <1>3, <1>5
<1>15. QED
  BY <1>6, <1>7, <1>8, <1>9, <1>10, <1>11, <1>12, <1>13, <1>14 DEF WorkspaceInv, JobKept

LEMMA WorkspaceCurrentStep == ASSUME WorkspaceInv, Workspace!Current PROVE WorkspaceInv'
<1>1. Workspace!TypeOK /\ BindingsKept /\ WatchKept /\ JobKept
  BY DEF WorkspaceInv
<1>2. job # None /\ job \in Workspace!Jobs /\ ws # None /\ ws \in Workspace!Workspaces
  BY JobIs DEF Workspace!Current, Workspace!At, Workspace!Validated
<1>3. job.at = "validate" /\ job.left = {} /\ job.changed = {}
      /\ store.phase = "clean" /\ ws.manifest.project # None /\ disk' = disk
      /\ store' = store
  BY <1>1, <1>2, WorkspaceNumbers, StoreTypes DEF Workspace!Current, Workspace!At,
     Workspace!Validated
<1>4. job' = [asked |-> job.asked, since |-> job.since, project |-> job.project, stamps |-> job.stamps, left |-> job.left, changed |-> job.changed, todo |-> job.todo, at |-> "done"]
  BY <1>2 DEF Workspace!Current, Workspace!At, Workspace!Validated, Workspace!Jobs
<1>5. job' \in Workspace!Jobs /\ job' # None
  BY <1>2, <1>4, JobTypes, WorkspaceNumbers DEF Workspace!Jobs
<1>6. ws' = [manifest |-> ws.manifest, directories |-> ws.directories, since |-> job.since, initialized |-> TRUE]
  BY <1>2 DEF Workspace!Current, Workspace!At, Workspace!Validated, Workspace!Workspaces
<1>7. ws' \in Workspace!Workspaces /\ ws' # None
  <2>1. ws' \in Workspace!Workspaces
    <3>1. TRUE \in BOOLEAN
      OBVIOUS
    <3>2. QED
      BY <3>1, <1>2, <1>6, JobTypes, WorkspaceTypes, WorkspaceIs
  <2>2. QED
    BY <2>1, WorkspaceNumbers
<1>8. Workspace!TypeOK'
  BY <1>1, <1>2, <1>3, <1>4, <1>5, <1>6, <1>7, JobTypes, WorkspaceTypes, StoreTypes,
     WorkspaceNumbers DEF Workspace!TypeOK
<1>9. BindingsKept'
  BY <1>1, <1>2, <1>3, <1>4, <1>5, <1>6, <1>7, JobTypes, WorkspaceTypes, StoreTypes,
     WorkspaceNumbers DEF Workspace!TypeOK, BindingsKept
<1>10. WatchKept'
  <2>1. ws'.manifest = ws.manifest /\ ws'.directories = ws.directories
        /\ ws'.since = job.since
    BY <1>6
  <2>2. ws.manifest = store.manifest
    BY <1>1, <1>2 DEF WatchKept
  <2>3. Workspace!Named(ws.manifest) \subseteq ws.directories
    BY <1>1, <1>2, <1>3 DEF JobKept, ValidKept
  <2>4. \A f \in Workspace!Named(ws.manifest) \ job.since : ws.manifest.stamps[f] = disk[f]
    BY <1>1, <1>2, <1>3 DEF JobKept, ValidKept
  <2>5. QED
    BY <2>1, <2>2, <2>3, <2>4, <1>3 DEF WatchKept, Workspace!Named
<1>11. ValidKept'
  BY <1>1, <1>2, <1>3, <1>4, <1>5, <1>6, <1>7, JobTypes, WorkspaceTypes, StoreTypes,
     WorkspaceNumbers DEF Workspace!TypeOK, WatchKept, JobKept, ValidKept,
     Workspace!Named
<1>12. PlanKept'
  BY <1>1, <1>2, <1>3, <1>4, <1>5, <1>6, <1>7, JobTypes, WorkspaceTypes, StoreTypes,
     WorkspaceNumbers DEF Workspace!TypeOK, JobKept, ValidKept, PlanKept,
     Workspace!Planned, Workspace!Empty
<1>13. IndexKept'
  BY <1>1, <1>2, <1>3, <1>4, <1>5, <1>6, <1>7, JobTypes, WorkspaceTypes, StoreTypes,
     WorkspaceNumbers DEF Workspace!TypeOK, BindingsKept, WatchKept, JobKept,
     ValidKept, PlanKept, IndexKept, Workspace!Planned, Workspace!Reuses
<1>14. AnswerKept'
  BY <1>1, <1>2, <1>3, <1>4, <1>5, <1>6, <1>7, JobTypes, WorkspaceTypes, StoreTypes,
     WorkspaceNumbers DEF Workspace!TypeOK, WatchKept, JobKept, ValidKept, PlanKept,
     IndexKept, AnswerKept, Workspace!Planned, Workspace!Named
<1>15. \A g \in Workspace!AllFiles : job'.asked[g] <= disk'[g]
  BY <1>1, <1>2, <1>3, <1>4, <1>5, <1>6, <1>7 DEF JobKept
<1>16. ws' # None /\ job' # None
  BY <1>2, <1>3, <1>5, <1>7
<1>17. QED
  BY <1>8, <1>9, <1>10, <1>11, <1>12, <1>13, <1>14, <1>15, <1>16 DEF WorkspaceInv,
     JobKept

LEMMA WorkspaceDiscoverStep ==
    ASSUME WorkspaceInv, Workspace!Discover
    PROVE  WorkspaceInv'
<1>1. Workspace!TypeOK /\ BindingsKept /\ WatchKept /\ JobKept
  BY DEF WorkspaceInv
<1>2. job # None /\ job \in Workspace!Jobs /\ ws # None /\ ws \in Workspace!Workspaces
  BY JobIs DEF Workspace!Discover, Workspace!At
<1>3. job.at = "validate" /\ job.left = {} /\ disk' = disk /\ ws' = ws /\ store' = store
  BY <1>1, <1>2, WorkspaceNumbers, StoreTypes DEF Workspace!Discover, Workspace!At
<1>4. (IF Workspace!MustDiscover THEN disk[Project] ELSE ws.manifest.project) \in Workspace!Versions
  BY <1>2, <1>3, WorkspaceTypes, StoreTypes, WorkspaceNumbers DEF Workspace!MustDiscover
<1>5. job' = [asked |-> job.asked, since |-> job.since, project |-> IF Workspace!MustDiscover THEN disk[Project] ELSE ws.manifest.project, stamps |-> job.stamps, left |-> job.left, changed |-> job.changed, todo |-> job.todo, at |-> "plan"]
  BY <1>2 DEF Workspace!Discover, Workspace!At, Workspace!Jobs
<1>6. job' \in Workspace!Jobs /\ job' # None
  BY <1>2, <1>5, <1>4, JobTypes, WorkspaceNumbers DEF Workspace!Jobs
<1>7. Workspace!TypeOK'
  BY <1>1, <1>2, <1>3, <1>5, <1>6, <1>4, JobTypes, WorkspaceTypes, StoreTypes,
     WorkspaceNumbers DEF Workspace!TypeOK
<1>8. BindingsKept'
  BY <1>1, <1>2, <1>3, <1>5, <1>6, <1>4, JobTypes, WorkspaceTypes, StoreTypes,
     WorkspaceNumbers DEF Workspace!TypeOK, BindingsKept
<1>9. WatchKept'
  BY <1>1, <1>2, <1>3, <1>5, <1>6, <1>4, JobTypes, WorkspaceTypes, StoreTypes,
     WorkspaceNumbers DEF Workspace!TypeOK, BindingsKept, WatchKept, Workspace!Named
<1>10. ValidKept'
  BY <1>1, <1>2, <1>3, <1>5, <1>6, <1>4, JobTypes, WorkspaceTypes, StoreTypes,
     WorkspaceNumbers DEF Workspace!TypeOK, WatchKept, JobKept, ValidKept,
     Workspace!Named
<1>11. PlanKept'
  BY <1>1, <1>2, <1>3, <1>5, <1>6, <1>4, JobTypes, WorkspaceTypes, StoreTypes,
     WorkspaceNumbers DEF Workspace!TypeOK, JobKept, ValidKept, PlanKept,
     Workspace!Planned, Workspace!Empty
<1>12. IndexKept'
  BY <1>1, <1>2, <1>3, <1>5, <1>6, <1>4, JobTypes, WorkspaceTypes, StoreTypes,
     WorkspaceNumbers DEF Workspace!TypeOK, BindingsKept, WatchKept, JobKept,
     ValidKept, PlanKept, IndexKept, Workspace!Planned, Workspace!Reuses
<1>13. AnswerKept'
  BY <1>1, <1>2, <1>3, <1>5, <1>6, <1>4, JobTypes, WorkspaceTypes, StoreTypes,
     WorkspaceNumbers DEF Workspace!TypeOK, WatchKept, JobKept, ValidKept, PlanKept,
     IndexKept, AnswerKept, Workspace!Planned, Workspace!Named
<1>14. \A g \in Workspace!AllFiles : job'.asked[g] <= disk'[g]
  BY <1>1, <1>2, <1>3, <1>5, <1>6, <1>4 DEF JobKept
<1>15. ws' # None /\ job' # None
  BY <1>2, <1>3, <1>6
<1>16. QED
  BY <1>7, <1>8, <1>9, <1>10, <1>11, <1>12, <1>13, <1>14, <1>15 DEF WorkspaceInv,
     JobKept

LEMMA WorkspacePlanStep ==
    ASSUME WorkspaceInv, NEW f \in Workspace!AllFiles, Workspace!Plan(f)
    PROVE  WorkspaceInv'
<1>1. Workspace!TypeOK /\ BindingsKept /\ WatchKept /\ JobKept
  BY DEF WorkspaceInv
<1>2. job # None /\ job \in Workspace!Jobs /\ ws # None /\ ws \in Workspace!Workspaces
  BY JobIs DEF Workspace!Plan, Workspace!At, Workspace!Watched
<1>3. job.at = "plan" /\ f \in Workspace!Planned /\ job.stamps[f] = None
      /\ disk' = disk /\ store' = store
  BY <1>1, <1>2, WorkspaceNumbers, StoreTypes DEF Workspace!Plan, Workspace!At,
     Workspace!Watched
<1>4. [job.stamps EXCEPT ![f] = disk[f]] \in Workspace!Stamps
  BY <1>1, <1>2, <1>3, JobTypes, WorkspaceTypes, StoreTypes, WorkspaceNumbers
     DEF Workspace!Manifests, Workspace!Stamps, JobKept, PlanKept, Workspace!Planned
<1>5. job' = [asked |-> job.asked, since |-> job.since, project |-> job.project, stamps |-> [job.stamps EXCEPT ![f] = disk[f]], left |-> job.left, changed |-> job.changed, todo |-> job.todo, at |-> job.at]
  BY <1>2 DEF Workspace!Plan, Workspace!At, Workspace!Watched, Workspace!Jobs
<1>6. job' \in Workspace!Jobs /\ job' # None
  BY <1>2, <1>5, <1>4, JobTypes, WorkspaceNumbers DEF Workspace!Jobs
<1>7. ws' = [manifest |-> ws.manifest, directories |-> ws.directories \union {f}, since |-> ws.since, initialized |-> ws.initialized]
  BY <1>2 DEF Workspace!Plan, Workspace!At, Workspace!Watched, Workspace!Workspaces
<1>8. ws' \in Workspace!Workspaces /\ ws' # None
  BY <1>2, <1>7, <1>4, JobTypes, WorkspaceTypes, WorkspaceNumbers
     DEF Workspace!Workspaces
<1>9. Workspace!TypeOK'
  BY <1>1, <1>2, <1>3, <1>5, <1>6, <1>7, <1>8, <1>4, JobTypes, WorkspaceTypes,
     StoreTypes, WorkspaceNumbers DEF Workspace!TypeOK
<1>10. BindingsKept'
  BY <1>1, <1>2, <1>3, <1>5, <1>6, <1>7, <1>8, <1>4, JobTypes, WorkspaceTypes,
     StoreTypes, WorkspaceNumbers DEF Workspace!TypeOK, BindingsKept
<1>11. WatchKept'
  BY <1>1, <1>2, <1>3, <1>5, <1>6, <1>7, <1>8, <1>4, JobTypes, WorkspaceTypes,
     StoreTypes, WorkspaceNumbers DEF Workspace!TypeOK, BindingsKept, WatchKept,
     Workspace!Named
<1>12. ValidKept'
  BY <1>1, <1>2, <1>3, <1>5, <1>6, <1>7, <1>8, <1>4, JobTypes, WorkspaceTypes,
     StoreTypes, WorkspaceNumbers DEF Workspace!TypeOK, WatchKept, JobKept, ValidKept,
     Workspace!Named
<1>13. PlanKept'
  BY <1>1, <1>2, <1>3, <1>5, <1>6, <1>7, <1>8, <1>4, JobTypes, WorkspaceTypes,
     StoreTypes, WorkspaceNumbers DEF Workspace!TypeOK, JobKept, ValidKept, PlanKept,
     Workspace!Planned, Workspace!Empty
<1>14. IndexKept'
  BY <1>1, <1>2, <1>3, <1>5, <1>6, <1>7, <1>8, <1>4, JobTypes, WorkspaceTypes,
     StoreTypes, WorkspaceNumbers DEF Workspace!TypeOK, BindingsKept, WatchKept,
     JobKept, ValidKept, PlanKept, IndexKept, Workspace!Planned, Workspace!Reuses
<1>15. AnswerKept'
  BY <1>1, <1>2, <1>3, <1>5, <1>6, <1>7, <1>8, <1>4, JobTypes, WorkspaceTypes,
     StoreTypes, WorkspaceNumbers DEF Workspace!TypeOK, WatchKept, JobKept, ValidKept,
     PlanKept, IndexKept, AnswerKept, Workspace!Planned, Workspace!Named
<1>16. \A g \in Workspace!AllFiles : job'.asked[g] <= disk'[g]
  BY <1>1, <1>2, <1>3, <1>5, <1>6, <1>7, <1>8, <1>4 DEF JobKept
<1>17. ws' # None /\ job' # None
  BY <1>2, <1>3, <1>6, <1>8
<1>18. QED
  BY <1>9, <1>10, <1>11, <1>12, <1>13, <1>14, <1>15, <1>16, <1>17 DEF WorkspaceInv,
     JobKept

LEMMA WorkspaceStartStep == ASSUME WorkspaceInv, Workspace!Start PROVE WorkspaceInv'
<1>1. Workspace!TypeOK /\ BindingsKept /\ WatchKept /\ JobKept
  BY DEF WorkspaceInv
<1>2. job # None /\ job \in Workspace!Jobs /\ ws # None /\ ws \in Workspace!Workspaces
  BY JobIs DEF Workspace!Start, Workspace!Ready, Workspace!At
<1>3. job.at = "plan" /\ (\A f \in Workspace!Planned : job.stamps[f] # None) /\ disk' = disk
  BY <1>1, <1>2, WorkspaceNumbers, StoreTypes DEF Workspace!Start, Workspace!Ready,
     Workspace!At
<1>4. job.project \in Workspace!Versions /\ Lists[job.project] \subseteq ProjectSources
  BY <1>1, <1>2, <1>3, JobTypes, WorkspaceTypes, StoreTypes, WorkspaceNumbers
     DEF Workspace!Manifests, Workspace!Stamps, JobKept, PlanKept, Workspace!Planned
<1>5. job' = [asked |-> job.asked, since |-> job.since, project |-> job.project, stamps |-> job.stamps, left |-> job.left, changed |-> job.changed, todo |-> {s \in Lists[job.project] : ~Workspace!Reuses \/ ws.manifest.stamps[s] # job.stamps[s]}, at |-> "index"]
  BY <1>2 DEF Workspace!Start, Workspace!Ready, Workspace!At, Workspace!Jobs
<1>6. job' \in Workspace!Jobs /\ job' # None
  BY <1>2, <1>5, <1>4, JobTypes, WorkspaceNumbers DEF Workspace!Jobs
<1>7. ws' = [manifest |-> ws.manifest, directories |-> ws.directories, since |-> ws.since, initialized |-> FALSE]
  BY <1>2 DEF Workspace!Start, Workspace!Ready, Workspace!At, Workspace!Workspaces
<1>8. ws' \in Workspace!Workspaces /\ ws' # None
  <2>1. ws' \in Workspace!Workspaces
    <3>1. FALSE \in BOOLEAN
      OBVIOUS
    <3>2. QED
      BY <3>1, <1>2, <1>7, JobTypes, WorkspaceTypes, WorkspaceIs
  <2>2. QED
    BY <2>1, WorkspaceNumbers
<1>9. store' = [phase |-> "dirty", manifest |-> store.manifest, bound |-> store.bound]
  BY <1>1, StoreTypes DEF Workspace!Start, Workspace!Ready, Workspace!At
<1>10. store' \in Workspace!Stores
  BY <1>2, <1>9, <1>4, StoreTypes, WorkspaceNumbers DEF Workspace!Stores
<1>11. Workspace!TypeOK'
  BY <1>1, <1>2, <1>3, <1>5, <1>6, <1>7, <1>8, <1>9, <1>10, <1>4, JobTypes,
     WorkspaceTypes, StoreTypes, WorkspaceNumbers DEF Workspace!TypeOK
<1>12. BindingsKept'
  BY <1>1, <1>2, <1>3, <1>5, <1>6, <1>7, <1>8, <1>9, <1>10, <1>4, JobTypes,
     WorkspaceTypes, StoreTypes, WorkspaceNumbers DEF Workspace!TypeOK, BindingsKept
<1>13. WatchKept'
  BY <1>1, <1>2, <1>3, <1>5, <1>6, <1>7, <1>8, <1>9, <1>10, <1>4, JobTypes,
     WorkspaceTypes, StoreTypes, WorkspaceNumbers DEF Workspace!TypeOK, BindingsKept,
     WatchKept, Workspace!Named
<1>14. ValidKept'
  BY <1>1, <1>2, <1>3, <1>5, <1>6, <1>7, <1>8, <1>9, <1>10, <1>4, JobTypes,
     WorkspaceTypes, StoreTypes, WorkspaceNumbers DEF Workspace!TypeOK, WatchKept,
     JobKept, ValidKept, Workspace!Named
<1>15. PlanKept'
  BY <1>1, <1>2, <1>3, <1>5, <1>6, <1>7, <1>8, <1>9, <1>10, <1>4, JobTypes,
     WorkspaceTypes, StoreTypes, WorkspaceNumbers DEF Workspace!TypeOK, JobKept,
     ValidKept, PlanKept, Workspace!Planned, Workspace!Empty
<1>16. IndexKept'
  <2>1. /\ store'.phase = "dirty" /\ store'.bound = store.bound /\ job'.at = "index"
        /\ job'.project = job.project /\ job'.stamps = job.stamps
        /\ job'.todo = {s \in Lists[job.project] : ~Workspace!Reuses \/ ws.manifest.stamps[s] # job.stamps[s]}
    BY <1>5, <1>9
  <2>2. \A f \in Workspace!Planned : job.stamps[f] # None
    BY <1>3
  <2>3. ASSUME NEW s \in Lists[job.project], Workspace!Reuses, ws.manifest.stamps[s] = job.stamps[s]
        PROVE  store.bound[s] # None /\ store.bound[s] >= job.stamps[s]
    <3>1. s \in ProjectSources /\ s \in Workspace!AllFiles /\ s # Project /\ s \in Workspace!Planned
      BY <1>4, WorkspaceNumbers DEF Workspace!Planned
    <3>2. ws.manifest = store.manifest /\ store.phase = "clean"
      BY <2>3, <1>1, <1>2 DEF WatchKept, Workspace!Reuses
    <3>3. store.manifest.stamps[s] # None
      BY <2>2, <2>3, <3>1, <3>2
    <3>4. s \in Lists[store.manifest.project]
      BY <3>1, <3>3, <1>1 DEF BindingsKept, Workspace!Named
    <3>5. store.bound[s] # None /\ store.bound[s] = job.stamps[s]
      BY <2>3, <3>2, <3>4, <1>1 DEF BindingsKept
    <3>6. job.stamps[s] \in Workspace!Versions
      BY <3>1, <2>2, <1>2, JobTypes DEF Workspace!Stamps
    <3>7. QED
      BY <3>5, <3>6, WorkspaceNumbers
  <2>4. QED
    BY <2>1, <2>2, <2>3 DEF IndexKept, Workspace!Planned
<1>17. AnswerKept'
  BY <1>1, <1>2, <1>3, <1>5, <1>6, <1>7, <1>8, <1>9, <1>10, <1>4, JobTypes,
     WorkspaceTypes, StoreTypes, WorkspaceNumbers DEF Workspace!TypeOK, WatchKept,
     JobKept, ValidKept, PlanKept, IndexKept, AnswerKept, Workspace!Planned,
     Workspace!Named
<1>18. \A g \in Workspace!AllFiles : job'.asked[g] <= disk'[g]
  BY <1>1, <1>2, <1>3, <1>5, <1>6, <1>7, <1>8, <1>9, <1>10, <1>4 DEF JobKept
<1>19. ws' # None /\ job' # None
  BY <1>2, <1>3, <1>6, <1>8
<1>20. QED
  BY <1>11, <1>12, <1>13, <1>14, <1>15, <1>16, <1>17, <1>18, <1>19 DEF WorkspaceInv,
     JobKept

LEMMA WorkspaceIndexStep ==
    ASSUME WorkspaceInv, NEW s \in ProjectSources, Workspace!Index(s)
    PROVE  WorkspaceInv'
<1>1. Workspace!TypeOK /\ BindingsKept /\ WatchKept /\ JobKept
  BY DEF WorkspaceInv
<1>2. job # None /\ job \in Workspace!Jobs /\ ws # None /\ ws \in Workspace!Workspaces
  BY JobIs DEF Workspace!Index, Workspace!At
<1>3. job.at = "index" /\ s \in job.todo /\ disk' = disk /\ ws' = ws
  BY <1>1, <1>2, WorkspaceNumbers, StoreTypes DEF Workspace!Index, Workspace!At
<1>4. [store.bound EXCEPT ![s] = disk[s]] \in [ProjectSources -> {None} \union Workspace!Versions]
  BY <1>1, <1>2, <1>3, JobTypes, WorkspaceTypes, StoreTypes, WorkspaceNumbers
     DEF Workspace!Manifests, Workspace!Stamps, JobKept, PlanKept, Workspace!Planned
<1>5. job' = [asked |-> job.asked, since |-> job.since, project |-> job.project, stamps |-> job.stamps, left |-> job.left \ {s}, changed |-> job.changed, todo |-> job.todo \ {s}, at |-> job.at]
  BY <1>2 DEF Workspace!Index, Workspace!At, Workspace!Jobs
<1>6. job' \in Workspace!Jobs /\ job' # None
  BY <1>2, <1>5, <1>4, JobTypes, WorkspaceNumbers DEF Workspace!Jobs
<1>7. store' = [phase |-> store.phase, manifest |-> store.manifest, bound |-> [store.bound EXCEPT ![s] = disk[s]]]
  BY <1>1, StoreTypes DEF Workspace!Index, Workspace!At
<1>8. store' \in Workspace!Stores
  BY <1>2, <1>7, <1>4, StoreTypes, WorkspaceNumbers DEF Workspace!Stores
<1>9. Workspace!TypeOK'
  BY <1>1, <1>2, <1>3, <1>5, <1>6, <1>7, <1>8, <1>4, JobTypes, WorkspaceTypes,
     StoreTypes, WorkspaceNumbers DEF Workspace!TypeOK
<1>10. BindingsKept'
  <2>1. /\ store'.manifest = store.manifest /\ store'.phase = store.phase
        /\ store'.bound = [store.bound EXCEPT ![s] = disk[s]]
    BY <1>7
  <2>2. store.phase = "dirty"
    BY <1>1, <1>2, <1>3 DEF JobKept, IndexKept
  <2>3. \A t \in ProjectSources : store'.bound[t] # None => store'.bound[t] <= disk'[t]
    <3>1. disk[s] \in Workspace!Versions /\ disk[s] <= disk[s]
      BY StoreTypes, WorkspaceNumbers
    <3>2. QED
      BY <2>1, <3>1, <1>1, <1>3, StoreTypes DEF BindingsKept
  <2>4. QED
    BY <2>1, <2>2, <2>3, <1>1 DEF BindingsKept, Workspace!Named
<1>11. WatchKept'
  BY <1>1, <1>2, <1>3, <1>5, <1>6, <1>7, <1>8, <1>4, JobTypes, WorkspaceTypes,
     StoreTypes, WorkspaceNumbers DEF Workspace!TypeOK, BindingsKept, WatchKept,
     Workspace!Named
<1>12. ValidKept'
  BY <1>1, <1>2, <1>3, <1>5, <1>6, <1>7, <1>8, <1>4, JobTypes, WorkspaceTypes,
     StoreTypes, WorkspaceNumbers DEF Workspace!TypeOK, WatchKept, JobKept, ValidKept,
     Workspace!Named
<1>13. PlanKept'
  BY <1>1, <1>2, <1>3, <1>5, <1>6, <1>7, <1>8, <1>4, JobTypes, WorkspaceTypes,
     StoreTypes, WorkspaceNumbers DEF Workspace!TypeOK, JobKept, ValidKept, PlanKept,
     Workspace!Planned, Workspace!Empty
<1>14. IndexKept'
  BY <1>1, <1>2, <1>3, <1>5, <1>6, <1>7, <1>8, <1>4, JobTypes, WorkspaceTypes,
     StoreTypes, WorkspaceNumbers DEF Workspace!TypeOK, BindingsKept, WatchKept,
     JobKept, ValidKept, PlanKept, IndexKept, Workspace!Planned, Workspace!Reuses
<1>15. AnswerKept'
  BY <1>1, <1>2, <1>3, <1>5, <1>6, <1>7, <1>8, <1>4, JobTypes, WorkspaceTypes,
     StoreTypes, WorkspaceNumbers DEF Workspace!TypeOK, WatchKept, JobKept, ValidKept,
     PlanKept, IndexKept, AnswerKept, Workspace!Planned, Workspace!Named
<1>16. \A g \in Workspace!AllFiles : job'.asked[g] <= disk'[g]
  BY <1>1, <1>2, <1>3, <1>5, <1>6, <1>7, <1>8, <1>4 DEF JobKept
<1>17. ws' # None /\ job' # None
  BY <1>2, <1>3, <1>6
<1>18. QED
  BY <1>9, <1>10, <1>11, <1>12, <1>13, <1>14, <1>15, <1>16, <1>17 DEF WorkspaceInv,
     JobKept

LEMMA WorkspaceCheckStep == ASSUME WorkspaceInv, Workspace!Check PROVE WorkspaceInv'
<1>1. Workspace!TypeOK /\ BindingsKept /\ WatchKept /\ JobKept
  BY DEF WorkspaceInv
<1>2. job # None /\ job \in Workspace!Jobs /\ ws # None /\ ws \in Workspace!Workspaces
  BY JobIs DEF Workspace!Check, Workspace!Indexed, Workspace!At
<1>3. job.at = "index" /\ job.todo = {} /\ disk' = disk /\ ws' = ws /\ store' = store
  BY <1>1, <1>2, WorkspaceNumbers, StoreTypes DEF Workspace!Check, Workspace!Indexed,
     Workspace!At
<1>4. job.project \in Workspace!Versions /\ Lists[job.project] \subseteq Workspace!AllFiles
  BY <1>1, <1>2, <1>3, JobTypes, WorkspaceTypes, StoreTypes, WorkspaceNumbers
     DEF Workspace!Manifests, Workspace!Stamps, JobKept, PlanKept, Workspace!Planned
<1>5. job' = [asked |-> job.asked, since |-> job.since, project |-> job.project, stamps |-> job.stamps, left |-> Lists[job.project], changed |-> job.changed, todo |-> job.todo, at |-> "check"]
  BY <1>2 DEF Workspace!Check, Workspace!Indexed, Workspace!At, Workspace!Jobs
<1>6. job' \in Workspace!Jobs /\ job' # None
  BY <1>2, <1>5, <1>4, JobTypes, WorkspaceNumbers DEF Workspace!Jobs
<1>7. Workspace!TypeOK'
  BY <1>1, <1>2, <1>3, <1>5, <1>6, <1>4, JobTypes, WorkspaceTypes, StoreTypes,
     WorkspaceNumbers DEF Workspace!TypeOK
<1>8. BindingsKept'
  BY <1>1, <1>2, <1>3, <1>5, <1>6, <1>4, JobTypes, WorkspaceTypes, StoreTypes,
     WorkspaceNumbers DEF Workspace!TypeOK, BindingsKept
<1>9. WatchKept'
  BY <1>1, <1>2, <1>3, <1>5, <1>6, <1>4, JobTypes, WorkspaceTypes, StoreTypes,
     WorkspaceNumbers DEF Workspace!TypeOK, BindingsKept, WatchKept, Workspace!Named
<1>10. ValidKept'
  BY <1>1, <1>2, <1>3, <1>5, <1>6, <1>4, JobTypes, WorkspaceTypes, StoreTypes,
     WorkspaceNumbers DEF Workspace!TypeOK, WatchKept, JobKept, ValidKept,
     Workspace!Named
<1>11. PlanKept'
  BY <1>1, <1>2, <1>3, <1>5, <1>6, <1>4, JobTypes, WorkspaceTypes, StoreTypes,
     WorkspaceNumbers DEF Workspace!TypeOK, JobKept, ValidKept, PlanKept,
     Workspace!Planned, Workspace!Empty
<1>12. IndexKept'
  BY <1>1, <1>2, <1>3, <1>5, <1>6, <1>4, JobTypes, WorkspaceTypes, StoreTypes,
     WorkspaceNumbers DEF Workspace!TypeOK, BindingsKept, WatchKept, JobKept,
     ValidKept, PlanKept, IndexKept, Workspace!Planned, Workspace!Reuses
<1>13. AnswerKept'
  BY <1>1, <1>2, <1>3, <1>5, <1>6, <1>4, JobTypes, WorkspaceTypes, StoreTypes,
     WorkspaceNumbers DEF Workspace!TypeOK, WatchKept, JobKept, ValidKept, PlanKept,
     IndexKept, AnswerKept, Workspace!Planned, Workspace!Named
<1>14. \A g \in Workspace!AllFiles : job'.asked[g] <= disk'[g]
  BY <1>1, <1>2, <1>3, <1>5, <1>6, <1>4 DEF JobKept
<1>15. ws' # None /\ job' # None
  BY <1>2, <1>3, <1>6
<1>16. QED
  BY <1>7, <1>8, <1>9, <1>10, <1>11, <1>12, <1>13, <1>14, <1>15 DEF WorkspaceInv,
     JobKept

LEMMA WorkspaceCheckSourceStep ==
    ASSUME WorkspaceInv, NEW s \in ProjectSources, Workspace!CheckSource(s)
    PROVE  WorkspaceInv'
<1>1. Workspace!TypeOK /\ BindingsKept /\ WatchKept /\ JobKept
  BY DEF WorkspaceInv
<1>2. job # None /\ job \in Workspace!Jobs /\ ws # None /\ ws \in Workspace!Workspaces
  BY JobIs DEF Workspace!CheckSource, Workspace!Unmoved, Workspace!At
<1>3. job.at = "check" /\ s \in job.left /\ disk[s] = job.stamps[s] /\ disk' = disk
      /\ ws' = ws /\ store' = store
  BY <1>1, <1>2, WorkspaceNumbers, StoreTypes DEF Workspace!CheckSource,
     Workspace!Unmoved, Workspace!At
<1>4. job' = [asked |-> job.asked, since |-> job.since, project |-> job.project, stamps |-> job.stamps, left |-> job.left \ {s}, changed |-> job.changed, todo |-> job.todo, at |-> job.at]
  BY <1>2 DEF Workspace!CheckSource, Workspace!Unmoved, Workspace!At, Workspace!Jobs
<1>5. job' \in Workspace!Jobs /\ job' # None
  BY <1>2, <1>4, JobTypes, WorkspaceNumbers DEF Workspace!Jobs
<1>6. Workspace!TypeOK'
  BY <1>1, <1>2, <1>3, <1>4, <1>5, JobTypes, WorkspaceTypes, StoreTypes,
     WorkspaceNumbers DEF Workspace!TypeOK
<1>7. BindingsKept'
  BY <1>1, <1>2, <1>3, <1>4, <1>5, JobTypes, WorkspaceTypes, StoreTypes,
     WorkspaceNumbers DEF Workspace!TypeOK, BindingsKept
<1>8. WatchKept'
  BY <1>1, <1>2, <1>3, <1>4, <1>5, JobTypes, WorkspaceTypes, StoreTypes,
     WorkspaceNumbers DEF Workspace!TypeOK, BindingsKept, WatchKept, Workspace!Named
<1>9. ValidKept'
  BY <1>1, <1>2, <1>3, <1>4, <1>5, JobTypes, WorkspaceTypes, StoreTypes,
     WorkspaceNumbers DEF Workspace!TypeOK, WatchKept, JobKept, ValidKept,
     Workspace!Named
<1>10. PlanKept'
  BY <1>1, <1>2, <1>3, <1>4, <1>5, JobTypes, WorkspaceTypes, StoreTypes,
     WorkspaceNumbers DEF Workspace!TypeOK, JobKept, ValidKept, PlanKept,
     Workspace!Planned, Workspace!Empty
<1>11. IndexKept'
  <2>1. job'.at = job.at /\ job'.project = job.project /\ job'.stamps = job.stamps
        /\ job'.todo = job.todo /\ job'.left = job.left \ {s}
    BY <1>4
  <2>2. job.todo = {} /\ (\A f \in Workspace!Planned : job.stamps[f] # None)
        /\ (\A t \in Lists[job.project] : store.bound[t] # None /\ store.bound[t] >= job.stamps[t])
        /\ (\A t \in Lists[job.project] \ job.left : store.bound[t] = job.stamps[t])
    BY <1>1, <1>2, <1>3 DEF JobKept, IndexKept
  <2>3. ASSUME s \in Lists[job.project] PROVE store.bound[s] = job.stamps[s]
    <3>1. store.bound[s] # None /\ store.bound[s] >= disk[s]
      BY <2>2, <2>3, <1>3
    <3>2. store.bound[s] <= disk[s] /\ store.bound[s] \in Workspace!Versions
          /\ disk[s] \in Workspace!Versions
      BY <3>1, <1>1, StoreTypes, WorkspaceNumbers DEF BindingsKept
    <3>3. QED
      BY <3>1, <3>2, <1>3, WorkspaceNumbers
  <2>4. QED
    BY <2>1, <2>2, <2>3, <1>1, <1>2, <1>3 DEF JobKept, IndexKept, Workspace!Planned
<1>12. AnswerKept'
  BY <1>1, <1>2, <1>3, <1>4, <1>5, JobTypes, WorkspaceTypes, StoreTypes,
     WorkspaceNumbers DEF Workspace!TypeOK, WatchKept, JobKept, ValidKept, PlanKept,
     IndexKept, AnswerKept, Workspace!Planned, Workspace!Named
<1>13. \A g \in Workspace!AllFiles : job'.asked[g] <= disk'[g]
  BY <1>1, <1>2, <1>3, <1>4, <1>5 DEF JobKept
<1>14. ws' # None /\ job' # None
  BY <1>2, <1>3, <1>5
<1>15. QED
  BY <1>6, <1>7, <1>8, <1>9, <1>10, <1>11, <1>12, <1>13, <1>14 DEF WorkspaceInv, JobKept

LEMMA WorkspaceSaveStep == ASSUME WorkspaceInv, Workspace!Save PROVE WorkspaceInv'
<1>1. Workspace!TypeOK /\ BindingsKept /\ WatchKept /\ JobKept
  BY DEF WorkspaceInv
<1>2. job # None /\ job \in Workspace!Jobs /\ ws # None /\ ws \in Workspace!Workspaces
  BY JobIs DEF Workspace!Save, Workspace!At
<1>3. job.at = "check" /\ job.left = {} /\ disk' = disk
  BY <1>1, <1>2, WorkspaceNumbers, StoreTypes DEF Workspace!Save, Workspace!At
<1>4. Workspace!Planned \subseteq Workspace!AllFiles /\ [project |-> job.project, stamps |-> job.stamps] \in Workspace!Manifests /\ [s \in ProjectSources |-> IF s \in Lists[job.project] THEN store.bound[s] ELSE None] \in [ProjectSources -> {None} \union Workspace!Versions]
  BY <1>1, <1>2, <1>3, JobTypes, WorkspaceTypes, StoreTypes, WorkspaceNumbers
     DEF Workspace!Manifests, Workspace!Stamps, JobKept, PlanKept, Workspace!Planned
<1>5. job' = [asked |-> job.asked, since |-> job.since, project |-> job.project, stamps |-> job.stamps, left |-> job.left, changed |-> job.changed, todo |-> job.todo, at |-> "done"]
  BY <1>2 DEF Workspace!Save, Workspace!At, Workspace!Jobs
<1>6. job' \in Workspace!Jobs /\ job' # None
  BY <1>2, <1>5, <1>4, JobTypes, WorkspaceNumbers DEF Workspace!Jobs
<1>7. ws' = [manifest |-> [project |-> job.project, stamps |-> job.stamps], directories |-> Workspace!Planned, since |-> job.since \union (ws.directories \ Workspace!Planned), initialized |-> TRUE]
  BY <1>2 DEF Workspace!Save, Workspace!At, Workspace!Workspaces
<1>8. ws' \in Workspace!Workspaces /\ ws' # None
  <2>1. ws' \in Workspace!Workspaces
    <3>1. TRUE \in BOOLEAN
      OBVIOUS
    <3>2. job.since \union (ws.directories \ Workspace!Planned) \in SUBSET Workspace!AllFiles /\ Workspace!Planned \in SUBSET Workspace!AllFiles
      BY <1>2, <1>4, JobTypes, WorkspaceTypes
    <3>3. QED
      BY <3>1, <3>2, <1>7, <1>4, WorkspaceIs
  <2>2. QED
    BY <2>1, WorkspaceNumbers
<1>9. store' = [phase |-> "clean", manifest |-> [project |-> job.project, stamps |-> job.stamps], bound |-> [s \in ProjectSources |-> IF s \in Lists[job.project] THEN store.bound[s] ELSE None]]
  BY <1>1, StoreTypes DEF Workspace!Save, Workspace!At
<1>10. store' \in Workspace!Stores
  BY <1>2, <1>9, <1>4, StoreTypes, WorkspaceNumbers DEF Workspace!Stores
<1>11. Workspace!TypeOK'
  BY <1>1, <1>2, <1>3, <1>5, <1>6, <1>7, <1>8, <1>9, <1>10, <1>4, JobTypes,
     WorkspaceTypes, StoreTypes, WorkspaceNumbers DEF Workspace!TypeOK
<1>12. BindingsKept'
  <2>1. /\ store'.manifest.project = job.project /\ store'.manifest.stamps = job.stamps
        /\ store'.phase = "clean"
        /\ store'.bound = [s \in ProjectSources |-> IF s \in Lists[job.project] THEN store.bound[s] ELSE None]
    BY <1>9
  <2>2. job.project # None /\ (\A f \in Workspace!AllFiles : job.stamps[f] # None => f \in Workspace!Planned)
    BY <1>1, <1>2, <1>3 DEF JobKept, PlanKept
  <2>3. \A s \in Lists[job.project] : store.bound[s] # None /\ store.bound[s] = job.stamps[s]
    BY <1>1, <1>2, <1>3, <1>4, WorkspaceNumbers DEF JobKept, IndexKept,
       Workspace!Planned
  <2>4. Lists[job.project] \subseteq ProjectSources
    BY <1>2, <2>2, JobTypes, WorkspaceNumbers
  <2>5. \A s \in ProjectSources : store'.bound[s] # None => store'.bound[s] <= disk'[s]
    BY <2>1, <1>1, <1>3 DEF BindingsKept
  <2>6. \A f \in Workspace!AllFiles : store'.manifest.stamps[f] # None => f \in Workspace!Named(store'.manifest)
    BY <2>1, <2>2 DEF Workspace!Named, Workspace!Planned
  <2>7. \A s \in Lists[store'.manifest.project] :
           store'.bound[s] # None /\ store'.bound[s] = store'.manifest.stamps[s]
    BY <2>1, <2>3, <2>4
  <2>8. QED
    BY <2>1, <2>2, <2>5, <2>6, <2>7 DEF BindingsKept
<1>13. WatchKept'
  <2>1. /\ ws'.manifest = store'.manifest /\ ws'.directories = Workspace!Planned
        /\ ws'.manifest.project = job.project /\ ws'.manifest.stamps = job.stamps
        /\ ws'.since = job.since \union (ws.directories \ Workspace!Planned) /\ store'.phase = "clean"
    BY <1>7, <1>9
  <2>2. job.project # None
    BY <1>1, <1>2, <1>3 DEF JobKept, PlanKept
  <2>3. Workspace!Named(ws'.manifest) = Workspace!Planned
    BY <2>1, <2>2 DEF Workspace!Named, Workspace!Planned
  <2>4. \A f \in Workspace!Planned \ job.since : job.stamps[f] = disk[f]
    BY <1>1, <1>2, <1>3, <1>4 DEF JobKept, PlanKept, IndexKept
  <2>5. QED
    BY <2>1, <2>3, <2>4, <1>3 DEF WatchKept
<1>14. ValidKept'
  BY <1>1, <1>2, <1>3, <1>5, <1>6, <1>7, <1>8, <1>9, <1>10, <1>4, JobTypes,
     WorkspaceTypes, StoreTypes, WorkspaceNumbers DEF Workspace!TypeOK, WatchKept,
     JobKept, ValidKept, Workspace!Named
<1>15. PlanKept'
  BY <1>1, <1>2, <1>3, <1>5, <1>6, <1>7, <1>8, <1>9, <1>10, <1>4, JobTypes,
     WorkspaceTypes, StoreTypes, WorkspaceNumbers DEF Workspace!TypeOK, JobKept,
     ValidKept, PlanKept, Workspace!Planned, Workspace!Empty
<1>16. IndexKept'
  BY <1>1, <1>2, <1>3, <1>5, <1>6, <1>7, <1>8, <1>9, <1>10, <1>4, JobTypes,
     WorkspaceTypes, StoreTypes, WorkspaceNumbers DEF Workspace!TypeOK, BindingsKept,
     WatchKept, JobKept, ValidKept, PlanKept, IndexKept, Workspace!Planned,
     Workspace!Reuses
<1>17. AnswerKept'
  BY <1>1, <1>2, <1>3, <1>5, <1>6, <1>7, <1>8, <1>9, <1>10, <1>4, JobTypes,
     WorkspaceTypes, StoreTypes, WorkspaceNumbers DEF Workspace!TypeOK, WatchKept,
     JobKept, ValidKept, PlanKept, IndexKept, AnswerKept, Workspace!Planned,
     Workspace!Named
<1>18. \A g \in Workspace!AllFiles : job'.asked[g] <= disk'[g]
  BY <1>1, <1>2, <1>3, <1>5, <1>6, <1>7, <1>8, <1>9, <1>10, <1>4 DEF JobKept
<1>19. ws' # None /\ job' # None
  BY <1>2, <1>3, <1>6, <1>8
<1>20. QED
  BY <1>11, <1>12, <1>13, <1>14, <1>15, <1>16, <1>17, <1>18, <1>19 DEF WorkspaceInv,
     JobKept

LEMMA WorkspaceOpenStep == ASSUME WorkspaceInv, Workspace!Open PROVE WorkspaceInv'
<1>1. Workspace!TypeOK /\ BindingsKept /\ WatchKept /\ JobKept
  BY DEF WorkspaceInv
<1>2. disk' = disk /\ store' = store /\ job' = job /\ ws = None
  BY DEF Workspace!Open
<1>3. ws' = [manifest |-> store.manifest, directories |-> {}, since |-> {}, initialized |-> FALSE]
  BY DEF Workspace!Open
<1>4. job = None
  BY <1>1, <1>2 DEF JobKept
<1>5. ws' \in Workspace!Workspaces
  <2>1. FALSE \in BOOLEAN /\ {} \in SUBSET Workspace!AllFiles
    OBVIOUS
  <2>2. QED
    BY <1>3, <2>1, StoreTypes, WorkspaceIs
<1>6. Workspace!TypeOK'
  BY <1>1, <1>2, <1>5 DEF Workspace!TypeOK
<1>7. BindingsKept'
  BY <1>1, <1>2 DEF BindingsKept, Workspace!Named
<1>8. WatchKept'
  BY <1>2, <1>3 DEF WatchKept
<1>9. QED
  BY <1>2, <1>4, <1>6, <1>7, <1>8 DEF WorkspaceInv, JobKept

LEMMA WorkspaceEndStep ==
    ASSUME WorkspaceInv, disk' = disk, store' = store, job' = None, ws' = ws \/ ws' = None
    PROVE  WorkspaceInv'
<1>1. Workspace!TypeOK /\ BindingsKept /\ WatchKept
  BY DEF WorkspaceInv
<1>2. Workspace!TypeOK'
  BY <1>1 DEF Workspace!TypeOK
<1>3. BindingsKept'
  BY <1>1 DEF BindingsKept, Workspace!Named
<1>4. WatchKept'
  BY <1>1 DEF WatchKept, Workspace!Named
<1>5. QED
  BY <1>2, <1>3, <1>4 DEF WorkspaceInv, JobKept

LEMMA WorkspaceBeginStep ==
    ASSUME WorkspaceInv, ws # None, NEW question \in [Workspace!AllFiles -> Workspace!Versions],
           \A f \in Workspace!AllFiles : question[f] <= disk[f], Workspace!Begin(question)
    PROVE  WorkspaceInv'
<1>1. Workspace!TypeOK /\ BindingsKept /\ WatchKept /\ JobKept
  BY DEF WorkspaceInv
<1>2. ws \in Workspace!Workspaces
  BY <1>1 DEF Workspace!TypeOK
<1>3. disk' = disk /\ store' = store
  BY DEF Workspace!Begin
<1>4. Workspace!Suspect \subseteq Workspace!AllFiles /\ Workspace!Named(ws.manifest) \subseteq Workspace!AllFiles
  BY <1>2, WorkspaceTypes, WorkspaceNumbers DEF Workspace!Suspect, Workspace!Named
<1>5. Workspace!Suspect = IF ws.initialized THEN ws.since \intersect ws.directories ELSE Workspace!AllFiles
  BY DEF Workspace!Suspect
<1> DEFINE now == IF ws.initialized /\ Workspace!Suspect = {} /\ store.phase = "clean" THEN "done" ELSE "validate"
           held == IF ws.initialized THEN ws.directories ELSE ws.directories \union Workspace!Named(ws.manifest)
           first == Workspace!Suspect \intersect Workspace!Named(ws.manifest)
<1>6. job' = [asked |-> question, since |-> {}, project |-> None, stamps |-> Workspace!Empty.stamps,
              left |-> first, changed |-> {}, todo |-> {}, at |-> now]
  BY DEF Workspace!Begin
<1>7. ws' = [manifest |-> ws.manifest, directories |-> held, since |-> ws.since,
             initialized |-> ws.initialized]
  BY <1>2 DEF Workspace!Begin, Workspace!Workspaces
<1>8. Workspace!Empty.stamps \in Workspace!Stamps /\ \A f \in Workspace!AllFiles : Workspace!Empty.stamps[f] = None
  BY DEF Workspace!Empty, Workspace!Stamps
<1>9. held \in SUBSET Workspace!AllFiles /\ first \in SUBSET Workspace!AllFiles /\ now \in {"done", "validate"}
  BY <1>2, <1>4, WorkspaceTypes
<1>10. ws' \in Workspace!Workspaces /\ ws' # None
  <2>1. ws' \in Workspace!Workspaces
    BY <1>2, <1>7, <1>9, WorkspaceTypes, WorkspaceIs
  <2>2. QED
    BY <2>1, WorkspaceNumbers
<1>11. job' \in Workspace!Jobs /\ job' # None
  <2>1. job' \in Workspace!Jobs
    BY <1>6, <1>8, <1>9 DEF Workspace!Jobs
  <2>2. QED
    BY <2>1, WorkspaceNumbers
<1>12. job'.at = now /\ job'.asked = question /\ job'.left = first /\ job'.changed = {}
      /\ job'.stamps = Workspace!Empty.stamps /\ job'.since = {} /\ ws'.manifest = ws.manifest
      /\ ws'.directories = held /\ ws'.since = ws.since /\ ws'.initialized = ws.initialized
  BY <1>6, <1>7
<1>13. now = "validate" \/ (now = "done" /\ ws.initialized /\ Workspace!Suspect = {})
  OBVIOUS
<1> HIDE DEF now, held, first
<1>14. ws.manifest = store.manifest /\ (ws.initialized =>
         /\ store.phase = "clean" /\ Workspace!Named(ws.manifest) \subseteq ws.directories
         /\ \A f \in Workspace!Named(ws.manifest) \ ws.since : ws.manifest.stamps[f] = disk[f])
  BY <1>1 DEF WatchKept
<1>15. \A f \in Workspace!Named(ws.manifest) \ first :
         /\ ws.initialized /\ ws.manifest.stamps[f] = disk[f] /\ disk[f] \in Workspace!Versions
  <2>1. TAKE f \in Workspace!Named(ws.manifest) \ first
  <2>2. f \in Workspace!AllFiles /\ f \notin Workspace!Suspect
    BY <1>4 DEF first
  <2>3. ws.initialized /\ (f \notin ws.since \/ f \notin ws.directories)
    BY <2>2, <1>5
  <2>4. QED
    BY <2>2, <2>3, <1>14, StoreTypes
<1>16. Workspace!TypeOK'
  BY <1>1, <1>3, <1>10, <1>11 DEF Workspace!TypeOK
<1>17. BindingsKept'
  BY <1>1, <1>3 DEF BindingsKept, Workspace!Named
<1>18. WatchKept'
  <2>1. ws.initialized => held = ws.directories
    BY DEF held
  <2>2. QED
    BY <2>1, <1>14, <1>12, <1>3 DEF WatchKept, Workspace!Named
<1>19. ValidKept'
  <2>1. Workspace!Named(ws.manifest) \subseteq held
    BY <1>14 DEF held
  <2>2. \A f \in (Workspace!Named(ws.manifest) \ first) \ {} :
          /\ ws.manifest.stamps[f] # None /\ ws.manifest.stamps[f] >= question[f]
          /\ ws.manifest.stamps[f] = disk[f]
    <3>1. TAKE f \in (Workspace!Named(ws.manifest) \ first) \ {}
    <3>2. ws.manifest.stamps[f] = disk[f] /\ disk[f] \in Workspace!Versions
          /\ f \in Workspace!AllFiles
      BY <1>15, <1>4
    <3>3. question[f] \in Workspace!Versions /\ question[f] <= disk[f]
      BY <3>2
    <3>4. QED
      BY <3>2, <3>3, WorkspaceNumbers
  <2>3. Workspace!Named(ws'.manifest) = Workspace!Named(ws.manifest)
        /\ (Workspace!Named(ws.manifest))' = Workspace!Named(ws.manifest)
    BY <1>12 DEF Workspace!Named
  <2>4. Workspace!Empty.stamps' = Workspace!Empty.stamps
    BY DEF Workspace!Empty
  <2>5. QED
    BY <2>1, <2>2, <2>3, <2>4, <1>12, <1>3 DEF ValidKept
<1>20. PlanKept'
  BY <1>12, <1>13 DEF PlanKept
<1>21. IndexKept'
  BY <1>12, <1>13 DEF IndexKept
<1>22. AnswerKept'
  <2>1. ASSUME now = "done"
        PROVE  /\ store.phase = "clean"
               /\ \A f \in Workspace!Named(ws.manifest) :
                     ws.manifest.stamps[f] # None /\ ws.manifest.stamps[f] >= question[f]
    <3>1. ws.initialized /\ Workspace!Suspect = {}
      BY <2>1, <1>13
    <3>2. \A f \in Workspace!Named(ws.manifest) : ws.manifest.stamps[f] = disk[f] /\ disk[f] \in Workspace!Versions
      BY <3>1, <1>15 DEF first
    <3>3. \A f \in Workspace!Named(ws.manifest) : question[f] \in Workspace!Versions /\ question[f] <= disk[f]
      BY <1>4
    <3>4. \A f \in Workspace!Named(ws.manifest) :
             ws.manifest.stamps[f] # None /\ ws.manifest.stamps[f] >= question[f]
      BY <3>2, <3>3, WorkspaceNumbers
    <3>5. QED
      BY <3>1, <3>4, <1>14
  <2>2. QED
    BY <2>1, <1>12, <1>3 DEF AnswerKept, Workspace!Named
<1>23. \A g \in Workspace!AllFiles : job'.asked[g] <= disk'[g]
  BY <1>12, <1>3
<1>24. QED
  BY <1>16, <1>17, <1>18, <1>19, <1>20, <1>21, <1>22, <1>23, <1>10, <1>11
     DEF WorkspaceInv, JobKept

LEMMA WorkspaceEditStep ==
    ASSUME WorkspaceInv, NEW f \in Workspace!AllFiles, Workspace!Edit(f)
    PROVE  WorkspaceInv'
<1>1. Workspace!TypeOK /\ BindingsKept /\ WatchKept /\ JobKept
  BY DEF WorkspaceInv
<1>2. store' = store
  BY DEF Workspace!Edit
<1>3. /\ disk' \in [Workspace!AllFiles -> Workspace!Versions] /\ \A g \in Workspace!AllFiles : disk[g] <= disk'[g]
      /\ \A g \in Workspace!AllFiles : g # f => disk'[g] = disk[g]
  <2>1. disk \in [Workspace!AllFiles -> Workspace!Versions] /\ disk[f] < MaxEdits /\ disk' = [disk EXCEPT ![f] = disk[f] + 1]
    BY StoreTypes DEF Workspace!Edit
  <2>2. disk[f] \in Workspace!Versions /\ disk[f] + 1 \in Workspace!Versions /\ disk[f] <= disk[f] + 1
    BY <2>1, WorkspaceNumbers
  <2>3. \A g \in Workspace!AllFiles : disk[g] \in Workspace!Versions /\ disk[g] <= disk[g]
    BY <2>1, WorkspaceNumbers
  <2>4. QED
    BY <2>1, <2>2, <2>3
<1>4. ws = None => ws' = None /\ job' = job
  BY DEF Workspace!Edit
<1>5. ws # None =>
        /\ ws' \in Workspace!Workspaces /\ ws' # None /\ ws'.manifest = ws.manifest
        /\ ws'.directories = ws.directories /\ ws'.initialized = ws.initialized
        /\ ws.since \subseteq ws'.since /\ (f \in ws.directories => f \in ws'.since)
  <2>1. SUFFICES ASSUME ws # None
                 PROVE  /\ ws' \in Workspace!Workspaces /\ ws' # None /\ ws'.manifest = ws.manifest
                        /\ ws'.directories = ws.directories /\ ws'.initialized = ws.initialized
                        /\ ws.since \subseteq ws'.since /\ (f \in ws.directories => f \in ws'.since)
    OBVIOUS
  <2>2. ws \in Workspace!Workspaces
    BY <1>1, <2>1 DEF Workspace!TypeOK
  <2>3. CASE f \in ws.directories
    <3>1. ws' = [manifest |-> ws.manifest, directories |-> ws.directories,
                 since |-> ws.since \union {f}, initialized |-> ws.initialized]
      BY <2>1, <2>2, <2>3 DEF Workspace!Edit, Workspace!Reported, Workspace!Workspaces
    <3>2. ws' \in Workspace!Workspaces
      BY <3>1, <2>2, WorkspaceTypes, WorkspaceIs
    <3>3. QED
      BY <3>1, <3>2, WorkspaceNumbers
  <2>4. CASE f \notin ws.directories
    BY <2>1, <2>2, <2>4, WorkspaceNumbers DEF Workspace!Edit
  <2>5. QED
    BY <2>3, <2>4
<1>6. job # None =>
        /\ job' \in Workspace!Jobs /\ job' # None /\ job'.at = job.at /\ job'.asked = job.asked
        /\ job'.project = job.project /\ job'.stamps = job.stamps /\ job'.left = job.left
        /\ job'.changed = job.changed /\ job'.todo = job.todo
        /\ job.since \subseteq job'.since /\ (f \in ws.directories => f \in job'.since)
  <2>1. SUFFICES ASSUME job # None
                 PROVE  /\ job' \in Workspace!Jobs /\ job' # None /\ job'.at = job.at /\ job'.asked = job.asked
                        /\ job'.project = job.project /\ job'.stamps = job.stamps /\ job'.left = job.left
                        /\ job'.changed = job.changed /\ job'.todo = job.todo
                        /\ job.since \subseteq job'.since /\ (f \in ws.directories => f \in job'.since)
    OBVIOUS
  <2>2. job \in Workspace!Jobs /\ ws # None
    BY <2>1, JobIs
  <2>3. CASE f \in ws.directories
    <3>1. job' = [asked |-> job.asked, since |-> job.since \union {f}, project |-> job.project,
                  stamps |-> job.stamps, left |-> job.left, changed |-> job.changed,
                  todo |-> job.todo, at |-> job.at]
      BY <2>1, <2>2, <2>3 DEF Workspace!Edit, Workspace!Reported, Workspace!Jobs
    <3>2. job' \in Workspace!Jobs
      BY <3>1, <2>2, JobTypes DEF Workspace!Jobs
    <3>3. QED
      BY <3>1, <3>2, WorkspaceNumbers
  <2>4. CASE f \notin ws.directories
    BY <2>1, <2>2, <2>4, WorkspaceNumbers DEF Workspace!Edit
  <2>5. QED
    BY <2>3, <2>4
<1>7. (job = None => job' = None) /\ (job # None => ws # None)
  BY <1>1, <1>4 DEF Workspace!Edit, Workspace!Reported, JobKept
<1>8. Workspace!TypeOK'
  BY <1>1, <1>2, <1>3, <1>4, <1>5, <1>6, <1>7 DEF Workspace!TypeOK
<1>9. BindingsKept'
  <2>1. \A s \in ProjectSources : store.bound[s] # None => store.bound[s] <= disk'[s]
    <3>1. TAKE s \in ProjectSources
    <3>2. HAVE store.bound[s] # None
    <3>3. /\ store.bound[s] \in Workspace!Versions /\ disk[s] \in Workspace!Versions /\ disk'[s] \in Workspace!Versions
          /\ disk[s] <= disk'[s] /\ store.bound[s] <= disk[s]
      BY <3>2, <1>1, <1>3, StoreTypes, WorkspaceNumbers DEF BindingsKept
    <3>4. QED
      BY <3>3, WorkspaceNumbers
  <2>2. QED
    BY <2>1, <1>1, <1>2 DEF BindingsKept, Workspace!Named
<1>10. WatchKept'
  BY ZenonT(30), <1>1, <1>2, <1>3, <1>4, <1>5, WorkspaceTypes, WorkspaceNumbers DEF WatchKept,
     Workspace!Named, Workspace!TypeOK
<1>11. JobKept'
  <2>1. SUFFICES ASSUME job' # None
                 PROVE  /\ ws' # None /\ \A g \in Workspace!AllFiles : job'.asked[g] <= disk'[g]
                        /\ ValidKept' /\ PlanKept' /\ IndexKept' /\ AnswerKept'
    BY DEF JobKept
  <2>2. job # None /\ ws # None /\ ws' # None /\ job \in Workspace!Jobs
        /\ ws \in Workspace!Workspaces
    BY <2>1, <1>5, <1>7, JobIs
  <2>3. \A g \in Workspace!AllFiles : job'.asked[g] <= disk'[g]
    <3>1. TAKE g \in Workspace!AllFiles
    <3>2. /\ job.asked[g] \in Workspace!Versions /\ disk[g] \in Workspace!Versions /\ disk'[g] \in Workspace!Versions
          /\ job.asked[g] <= disk[g] /\ disk[g] <= disk'[g] /\ job'.asked = job.asked
      BY <2>2, <1>1, <1>3, <1>6, StoreTypes, JobTypes DEF JobKept
    <3>3. QED
      BY <3>2, WorkspaceNumbers
  <2>4. Workspace!Named(ws.manifest) \subseteq Workspace!AllFiles
    BY <2>2, WorkspaceTypes, WorkspaceNumbers DEF Workspace!Named
  <2>5. ValidKept'
    BY <1>1, <1>3, <1>5, <1>6, <2>2, <2>4 DEF JobKept, ValidKept, Workspace!Named,
       Workspace!Empty
  <2>6. PlanKept'
    <3>1. SUFFICES ASSUME job.at \in {"plan", "index", "check"}
                   PROVE  PlanKept'
      BY <1>6, <2>2 DEF PlanKept
    <3>2. /\ job.project # None
          /\ \A g \in Workspace!AllFiles : job.stamps[g] # None =>
               /\ g \in Workspace!Planned /\ g \in ws.directories
               /\ job.asked[g] <= job.stamps[g] /\ job.stamps[g] <= disk[g]
               /\ g \notin job.since => job.stamps[g] = disk[g]
      BY <3>1, <1>1, <2>2 DEF JobKept, PlanKept
    <3>3. \A g \in Workspace!AllFiles : job.stamps[g] # None => job.stamps[g] <= disk'[g]
      <4>1. TAKE g \in Workspace!AllFiles
      <4>2. HAVE job.stamps[g] # None
      <4>3. /\ job.stamps[g] \in Workspace!Versions /\ disk[g] \in Workspace!Versions /\ disk'[g] \in Workspace!Versions
            /\ job.stamps[g] <= disk[g] /\ disk[g] <= disk'[g]
        BY <4>2, <3>2, <2>2, <1>3, StoreTypes, JobTypes DEF Workspace!Stamps
      <4>4. QED
        BY <4>3, WorkspaceNumbers
    <3>4. \A g \in Workspace!AllFiles : job.stamps[g] # None => (g \notin job'.since => job.stamps[g] = disk'[g])
      BY <3>2, <1>3, <1>6, <2>2
    <3>5. QED
      BY <3>2, <3>3, <3>4, <1>5, <1>6, <2>2 DEF PlanKept, Workspace!Planned
  <2>7. IndexKept'
    BY <1>1, <1>2, <1>6, <2>2 DEF JobKept, IndexKept, Workspace!Planned
  <2>8. AnswerKept'
    BY <1>1, <1>2, <1>5, <1>6, <2>2 DEF JobKept, AnswerKept, Workspace!Named
  <2>9. QED
    BY <2>2, <2>3, <2>5, <2>6, <2>7, <2>8
<1>12. QED
  BY <1>8, <1>9, <1>10, <1>11 DEF WorkspaceInv

LEMMA WorkspaceInit == Workspace!Init => WorkspaceInv
<1>1. SUFFICES ASSUME Workspace!Init PROVE WorkspaceInv
  OBVIOUS
<1>2. ws = None /\ job = None /\ disk = [f \in Workspace!AllFiles |-> 0]
      /\ store = [phase |-> "dirty", manifest |-> Workspace!Empty, bound |-> [s \in ProjectSources |-> None]]
  BY <1>1 DEF Workspace!Init
<1>3. Workspace!Empty \in Workspace!Manifests /\ Workspace!Empty.project = None /\ \A f \in Workspace!AllFiles : Workspace!Empty.stamps[f] = None
  BY DEF Workspace!Empty, Workspace!Manifests, Workspace!Stamps
<1>4. Workspace!TypeOK
  BY <1>2, <1>3, WorkspaceNumbers DEF Workspace!TypeOK, Workspace!Stores
<1>5. BindingsKept
  BY <1>2, <1>3 DEF BindingsKept
<1>6. QED
  BY <1>2, <1>4, <1>5 DEF WorkspaceInv, WatchKept, JobKept

LEMMA WorkspaceNext == WorkspaceInv /\ [Workspace!Next]_(Workspace!vars) => WorkspaceInv'
<1>1. SUFFICES ASSUME WorkspaceInv, [Workspace!Next]_(Workspace!vars) PROVE WorkspaceInv'
  OBVIOUS
<1>2. CASE Workspace!Open
  BY <1>1, <1>2, WorkspaceOpenStep
<1>3. CASE Workspace!Ask
  <2>1. disk \in [Workspace!AllFiles -> Workspace!Versions] /\ \A f \in Workspace!AllFiles : disk[f] <= disk[f]
    BY <1>1, StoreTypes, WorkspaceNumbers
  <2>2. QED
    BY <1>1, <1>3, <2>1, WorkspaceBeginStep DEF Workspace!Ask
<1>4. CASE Workspace!Current
  BY <1>1, <1>4, WorkspaceCurrentStep
<1>5. CASE Workspace!Discover
  BY <1>1, <1>5, WorkspaceDiscoverStep
<1>6. CASE Workspace!Replan
  <2>1. job # None
    BY <1>6 DEF Workspace!Replan, Workspace!Ready, Workspace!At
  <2>2. job.asked \in [Workspace!AllFiles -> Workspace!Versions] /\ \A f \in Workspace!AllFiles : job.asked[f] <= disk[f]
    BY <1>1, <2>1, JobIs, JobTypes DEF WorkspaceInv, JobKept
  <2>3. QED
    BY <1>1, <1>6, <2>2, WorkspaceBeginStep DEF Workspace!Replan
<1>7. CASE Workspace!Start
  BY <1>1, <1>7, WorkspaceStartStep
<1>8. CASE Workspace!Check
  BY <1>1, <1>8, WorkspaceCheckStep
<1>9. CASE Workspace!Save
  BY <1>1, <1>9, WorkspaceSaveStep
<1>10. CASE Workspace!Fail
  BY <1>1, <1>10, WorkspaceEndStep DEF Workspace!Fail
<1>11. CASE Workspace!Answer
  BY <1>1, <1>11, WorkspaceEndStep DEF Workspace!Answer
<1>12. CASE Workspace!Close
  BY <1>1, <1>12, WorkspaceEndStep DEF Workspace!Close
<1>13. CASE \E f \in Workspace!AllFiles : Workspace!Edit(f) \/ Workspace!Validate(f) \/ Workspace!Plan(f)
  BY <1>1, <1>13, WorkspaceEditStep, WorkspaceValidateStep, WorkspacePlanStep
<1>14. CASE \E s \in ProjectSources : Workspace!Index(s) \/ Workspace!CheckSource(s)
  BY <1>1, <1>14, WorkspaceIndexStep, WorkspaceCheckSourceStep
<1>15. CASE UNCHANGED Workspace!vars
  BY <1>1, <1>15 DEF Workspace!vars, WorkspaceInv, Workspace!TypeOK, BindingsKept,
     WatchKept, JobKept, ValidKept, PlanKept, IndexKept,
     AnswerKept, Workspace!Named, Workspace!Planned, Workspace!Empty
<1>16. QED
  BY <1>1, <1>2, <1>3, <1>4, <1>5, <1>6, <1>7, <1>8, <1>9, <1>10, <1>11, <1>12, <1>13,
     <1>14, <1>15
  DEF Workspace!Next

\* The invariant holds in every reachable state of a workspace.
THEOREM WorkspaceInvariant == Workspace!Spec => []WorkspaceInv
  BY WorkspaceInit, WorkspaceNext, PTL DEF Workspace!Spec

LEMMA WorkspaceInvTrue == WorkspaceInv => Workspace!SourcesFresh /\ Workspace!Agrees /\ Workspace!StampsFresh
<1>1. SUFFICES ASSUME WorkspaceInv, Workspace!At("done") PROVE Workspace!SourcesFresh /\ Workspace!Agrees /\ Workspace!StampsFresh
  BY DEF Workspace!SourcesFresh, Workspace!Agrees, Workspace!StampsFresh
<1>2. job # None /\ job.at = "done"
  BY <1>1 DEF Workspace!At
<1>3. Workspace!TypeOK /\ BindingsKept /\ WatchKept /\ JobKept
  BY <1>1 DEF WorkspaceInv
<1>4. job \in Workspace!Jobs /\ ws # None /\ ws \in Workspace!Workspaces
  BY <1>1, <1>2, JobIs
<1>5. ws.manifest = store.manifest /\ store.phase = "clean"
  BY <1>2, <1>3, <1>4 DEF WatchKept, JobKept, AnswerKept
<1>6. \A f \in Workspace!Named(ws.manifest) :
         ws.manifest.stamps[f] # None /\ ws.manifest.stamps[f] >= job.asked[f]
  BY <1>2, <1>3 DEF JobKept, AnswerKept
<1>7. \A s \in Lists[ws.manifest.project] :
         store.bound[s] # None /\ store.bound[s] = ws.manifest.stamps[s]
  BY <1>3, <1>5 DEF BindingsKept
<1>8. Lists[ws.manifest.project] \subseteq Workspace!Named(ws.manifest)
  BY <1>3, <1>5 DEF BindingsKept, Workspace!Named
<1>9. QED
  BY <1>6, <1>7, <1>8 DEF Workspace!SourcesFresh, Workspace!Agrees,
     Workspace!StampsFresh

\* What a workspace serves is as new as the question, and manifest, bindings
\* and stamps agree: for any sources, project file and edits.
THEOREM WorkspaceCorrect == Workspace!Spec => []WorkspaceTrue
<1>1. WorkspaceInv => WorkspaceTrue
  BY WorkspaceInvTrue DEF WorkspaceInv, WorkspaceTrue
<1>2. QED
  BY <1>1, WorkspaceInvariant, PTL

-----------------------------------------------------------------------------
(***************************************************************************)
(* Source jobs                                                             *)
(*                                                                         *)
(* A job that writes holds the writer mutex that it inherited from the job *)
(* it superseded (Owning), and the registered job of its group waits for   *)
(* the same mutex or is this job (Succeeding): so there is one.  What the  *)
(* registered job was to index is bound or it knows what is missing        *)
(* (Accounted), until it saves the manifest or another job is started.     *)
(***************************************************************************)

\* A job that writes: it holds the writer mutex it was given, and has no outcome.
SourcesHeld == {"lookup", "reused", "index", "indexed", "publish", "republish", "empty"}

SourcesPlaces == SourcesHeld \union {"idle", "admission", "release", "fail", "done"}

SourcesTypes ==
  /\ sourcesJob \in [Sources!Jobs -> [group : Groups, version : SourceVersions, writer : Sources!Jobs]]
  /\ sourcesAt \in [Sources!Jobs -> SourcesPlaces] /\ outcome \in [Sources!Jobs -> {"none", "ok", "err"}]
  /\ running \in [Groups -> Sources!Jobs \union {Nobody}] /\ sourcesWriter \in [Sources!Jobs -> Sources!Jobs \union {Nobody}]
  /\ count \in Nat /\ count <= MaxSourceJobs
  /\ canceled \subseteq Sources!Jobs
  /\ batches \in [Sources!Jobs -> SUBSET SourceFiles] /\ tasks \in [Sources!Jobs -> SUBSET SourceFiles]
  /\ work \in [Sources!Jobs -> SUBSET SourceFiles] /\ omitted \in [Sources!Jobs -> SUBSET SourceFiles]
  /\ bound \in [Groups -> SUBSET SourceFiles]
  /\ saved \in [Groups -> [version : SourceVersions \union {Nobody}, files : SUBSET SourceFiles]]
  /\ sourcesCode \in SourceVersions /\ sourcesDisk \in SourceVersions

\* Jobs are numbered as they start, and the registered one is of its group.
SourcesStarted ==
  /\ \A j \in Sources!Jobs : sourcesAt[j] = "idle" <=> j > count
  /\ \A g \in Groups : running[g] # Nobody =>
       running[g] <= count /\ sourcesJob[running[g]].group = g
  /\ \A j \in Sources!Jobs : sourcesAt[j] \in SourcesHeld \union {"idle", "admission"} => outcome[j] = "none"

\* Only a job that indexes has extractions.
Extracting ==
  \A j \in Sources!Jobs :
    /\ sourcesAt[j] # "index" => tasks[j] = {} /\ work[j] = {} /\ batches[j] = {}

\* From its admission to its release a job holds its mutex.
Owning == \A j \in Sources!Jobs : sourcesAt[j] \in SourcesHeld \union {"release"} => sourcesWriter[sourcesJob[j].writer] = j

\* The group of a job that holds its mutex has gone no further than a job that
\* waits for the same mutex.
Succeeding ==
  \A j \in Sources!Jobs : sourcesAt[j] \in SourcesHeld =>
    LET r == running[sourcesJob[j].group] IN
    /\ r # Nobody /\ sourcesJob[r].writer = sourcesJob[j].writer
    /\ r = j \/ sourcesAt[r] = "admission"

\* A job that is not cancelled is registered until it has an outcome.
SourcesRegistered ==
  \A j \in Sources!Jobs : sourcesAt[j] \in SourcesHeld \union {"admission"} /\ j \notin canceled =>
    running[sourcesJob[j].group] = j

\* What a job was to index is bound, or it knows what is missing.
Accounted ==
  \A j \in Sources!Jobs : sourcesAt[j] \in {"index", "indexed", "publish"} /\ j \notin canceled =>
    Sources!Wanted(j) \subseteq omitted[j] \union batches[j] \union tasks[j] \union work[j]
                        \union bound[sourcesJob[j].group]

SourcesInv ==
  /\ SourcesTypes /\ SourcesStarted /\ Extracting /\ Owning /\ Succeeding /\ SourcesRegistered /\ Accounted
  /\ Sources!SavedBound

LEMMA SourcesNumbers == MaxSourceJobs \in Nat /\ Nobody \notin Sources!Jobs /\ Sources!Jobs = 1 .. MaxSourceJobs /\ Sources!Jobs \subseteq Nat
  BY SourceJobsAssumption DEF Sources!Jobs

\* One job of a group holds the mutex of the group.
LEMMA SourcesOneHolder ==
    ASSUME SourcesInv, NEW j \in Sources!Jobs, NEW k \in Sources!Jobs, sourcesAt[j] \in SourcesHeld, sourcesAt[k] \in SourcesHeld,
           sourcesJob[j].group = sourcesJob[k].group
    PROVE  j = k
  BY SourcesNumbers DEF SourcesInv, SourcesTypes, Owning, Succeeding

LEMMA SourcesEditStep == ASSUME SourcesInv, Sources!Edit PROVE SourcesInv'
<1>1. SourcesTypes /\ SourcesStarted /\ Extracting /\ Owning /\ Succeeding
      /\ SourcesRegistered /\ Accounted /\ Sources!SavedBound
  BY DEF SourcesInv
<1>2. SourcesTypes'
  BY <1>1, SourcesNumbers DEF Sources!Edit, Sources!sources, Sources!registry,
     Sources!places, Sources!queue, Sources!store, SourcesTypes, SourcesPlaces,
     SourcesHeld
<1>3. SourcesStarted'
  BY <1>1, SourcesNumbers DEF Sources!Edit, Sources!sources, Sources!registry,
     Sources!places, Sources!queue, Sources!store, SourcesTypes, SourcesStarted,
     SourcesHeld, SourcesPlaces
<1>4. Extracting'
  BY <1>1, SourcesNumbers DEF Sources!Edit, Sources!sources, Sources!registry,
     Sources!places, Sources!queue, Sources!store, SourcesTypes, Extracting
<1>5. Owning'
  BY <1>1, SourcesNumbers DEF Sources!Edit, Sources!sources, Sources!registry,
     Sources!places, Sources!queue, Sources!store, SourcesTypes, Owning, SourcesHeld
<1>6. Succeeding'
  BY <1>1, SourcesNumbers DEF Sources!Edit, Sources!sources, Sources!registry,
     Sources!places, Sources!queue, Sources!store, SourcesTypes, SourcesStarted,
     Owning, Succeeding, SourcesRegistered, SourcesHeld
<1>7. SourcesRegistered'
  BY <1>1, SourcesNumbers DEF Sources!Edit, Sources!sources, Sources!registry,
     Sources!places, Sources!queue, Sources!store, SourcesTypes, SourcesStarted,
     SourcesRegistered, SourcesHeld
<1>8. Accounted'
  BY <1>1, SourcesNumbers DEF Sources!Edit, Sources!sources, Sources!registry,
     Sources!places, Sources!queue, Sources!store, SourcesTypes, SourcesStarted,
     Extracting, Accounted, Sources!Wanted, SourcesHeld
<1>9. Sources!SavedBound'
  BY <1>1, SourcesNumbers DEF Sources!Edit, Sources!sources, Sources!registry,
     Sources!places, Sources!queue, Sources!store, SourcesTypes, Accounted,
     Extracting, Sources!SavedBound
<1>10. QED
  BY <1>2, <1>3, <1>4, <1>5, <1>6, <1>7, <1>8, <1>9 DEF SourcesInv

LEMMA SourcesDiscoverStep == ASSUME SourcesInv, Sources!Discover PROVE SourcesInv'
<1>1. SourcesTypes /\ SourcesStarted /\ Extracting /\ Owning /\ Succeeding
      /\ SourcesRegistered /\ Accounted /\ Sources!SavedBound
  BY DEF SourcesInv
<1>2. SourcesTypes'
  BY <1>1, SourcesNumbers DEF Sources!Discover, Sources!sources, Sources!registry,
     Sources!places, Sources!queue, Sources!store, SourcesTypes, SourcesPlaces,
     SourcesHeld
<1>3. SourcesStarted'
  BY <1>1, SourcesNumbers DEF Sources!Discover, Sources!sources, Sources!registry,
     Sources!places, Sources!queue, Sources!store, SourcesTypes, SourcesStarted,
     SourcesHeld, SourcesPlaces
<1>4. Extracting'
  BY <1>1, SourcesNumbers DEF Sources!Discover, Sources!sources, Sources!registry,
     Sources!places, Sources!queue, Sources!store, SourcesTypes, Extracting
<1>5. Owning'
  BY <1>1, SourcesNumbers DEF Sources!Discover, Sources!sources, Sources!registry,
     Sources!places, Sources!queue, Sources!store, SourcesTypes, Owning, SourcesHeld
<1>6. Succeeding'
  BY <1>1, SourcesNumbers DEF Sources!Discover, Sources!sources, Sources!registry,
     Sources!places, Sources!queue, Sources!store, SourcesTypes, SourcesStarted,
     Owning, Succeeding, SourcesRegistered, SourcesHeld
<1>7. SourcesRegistered'
  BY <1>1, SourcesNumbers DEF Sources!Discover, Sources!sources, Sources!registry,
     Sources!places, Sources!queue, Sources!store, SourcesTypes, SourcesStarted,
     SourcesRegistered, SourcesHeld
<1>8. Accounted'
  BY <1>1, SourcesNumbers DEF Sources!Discover, Sources!sources, Sources!registry,
     Sources!places, Sources!queue, Sources!store, SourcesTypes, SourcesStarted,
     Extracting, Accounted, Sources!Wanted, SourcesHeld
<1>9. Sources!SavedBound'
  BY <1>1, SourcesNumbers DEF Sources!Discover, Sources!sources, Sources!registry,
     Sources!places, Sources!queue, Sources!store, SourcesTypes, Accounted,
     Extracting, Sources!SavedBound
<1>10. QED
  BY <1>2, <1>3, <1>4, <1>5, <1>6, <1>7, <1>8, <1>9 DEF SourcesInv

LEMMA SourcesJoinStep ==
    ASSUME SourcesInv, NEW q \in Askers, NEW g \in Groups, Sources!Start(q, g),
           Sources!Joins(g)
    PROVE  SourcesInv'
<1>1. SourcesTypes /\ SourcesStarted /\ Extracting /\ Owning /\ Succeeding
      /\ SourcesRegistered /\ Accounted /\ Sources!SavedBound
  BY DEF SourcesInv
<1>2. SourcesTypes'
  BY <1>1, SourcesNumbers DEF Sources!Start, Sources!sources, Sources!registry,
     Sources!places, Sources!queue, Sources!store, SourcesTypes, SourcesPlaces,
     SourcesHeld
<1>3. SourcesStarted'
  BY <1>1, SourcesNumbers DEF Sources!Start, Sources!sources, Sources!registry,
     Sources!places, Sources!queue, Sources!store, SourcesTypes, SourcesStarted,
     SourcesHeld, SourcesPlaces
<1>4. Extracting'
  BY <1>1, SourcesNumbers DEF Sources!Start, Sources!sources, Sources!registry,
     Sources!places, Sources!queue, Sources!store, SourcesTypes, Extracting
<1>5. Owning'
  BY <1>1, SourcesNumbers DEF Sources!Start, Sources!sources, Sources!registry,
     Sources!places, Sources!queue, Sources!store, SourcesTypes, Owning, SourcesHeld
<1>6. Succeeding'
  BY <1>1, SourcesNumbers DEF Sources!Start, Sources!sources, Sources!registry,
     Sources!places, Sources!queue, Sources!store, SourcesTypes, SourcesStarted,
     Owning, Succeeding, SourcesRegistered, SourcesHeld
<1>7. SourcesRegistered'
  BY <1>1, SourcesNumbers DEF Sources!Start, Sources!sources, Sources!registry,
     Sources!places, Sources!queue, Sources!store, SourcesTypes, SourcesStarted,
     SourcesRegistered, SourcesHeld
<1>8. Accounted'
  BY <1>1, SourcesNumbers DEF Sources!Start, Sources!sources, Sources!registry,
     Sources!places, Sources!queue, Sources!store, SourcesTypes, SourcesStarted,
     Extracting, Accounted, Sources!Wanted, SourcesHeld
<1>9. Sources!SavedBound'
  BY <1>1, SourcesNumbers DEF Sources!Start, Sources!sources, Sources!registry,
     Sources!places, Sources!queue, Sources!store, SourcesTypes, Accounted,
     Extracting, Sources!SavedBound
<1>10. QED
  BY <1>2, <1>3, <1>4, <1>5, <1>6, <1>7, <1>8, <1>9 DEF SourcesInv

LEMMA SourcesBeginStep ==
    ASSUME SourcesInv, NEW q \in Askers, NEW g \in Groups, Sources!Start(q, g),
           ~Sources!Joins(g)
    PROVE  SourcesInv'
<1>1. SourcesTypes /\ SourcesStarted /\ Extracting /\ Owning /\ Succeeding
      /\ SourcesRegistered /\ Accounted /\ Sources!SavedBound
  BY DEF SourcesInv
<1>2. PICK j \in Sources!Jobs, w \in Sources!Jobs :
        /\ j = count + 1 /\ count' = j /\ sourcesAt' = [sourcesAt EXCEPT ![j] = "admission"]
        /\ sourcesJob' = [sourcesJob EXCEPT ![j] = [group |-> g, version |-> sourcesCode, writer |-> w]]
        /\ running' = [running EXCEPT ![g] = j]
        /\ running[g] # Nobody => w = sourcesJob[running[g]].writer
        /\ canceled' = canceled \union (IF running[g] = Nobody THEN {} ELSE {running[g]})
                                \union (IF stopped THEN {j} ELSE {})
        /\ UNCHANGED <<sourcesDisk, sourcesCode, outcome, sourcesWriter, sourcesLock,
                       batches, tasks, work, omitted, bound, saved>>
  <2>1. Sources!InheritedWriter(g, count + 1) \in Sources!Jobs
    BY <1>1, SourcesNumbers DEF Sources!Start, Sources!InheritedWriter, SourcesTypes
  <2>2. QED
    BY <2>1 DEF Sources!Start, Sources!InheritedWriter, Sources!sources,
       Sources!queue, Sources!store
<1>3. SourcesTypes'
  <2>1. sourcesJob' \in [Sources!Jobs -> [group : Groups, version : SourceVersions, writer : Sources!Jobs]]
    BY <1>1, <1>2 DEF SourcesTypes
  <2>2. sourcesAt' \in [Sources!Jobs -> SourcesPlaces]
    BY <1>1, <1>2 DEF SourcesTypes, SourcesPlaces
  <2>3. running' \in [Groups -> Sources!Jobs \union {Nobody}] /\ count' \in Nat /\ count' <= MaxSourceJobs
    BY <1>1, <1>2, SourcesNumbers DEF SourcesTypes
  <2>4. canceled' \subseteq Sources!Jobs
    BY <1>1, <1>2 DEF SourcesTypes
  <2>5. QED
    BY <1>1, <1>2, <2>1, <2>2, <2>3, <2>4 DEF SourcesTypes
<1>4. SourcesStarted'
  <2>1. \A k \in Sources!Jobs : sourcesAt'[k] = (IF k = j THEN "admission" ELSE sourcesAt[k]) /\ sourcesJob'[k].group = (IF k = j THEN g ELSE sourcesJob[k].group)
    BY <1>1, <1>2 DEF SourcesTypes
  <2>2. \A k \in Sources!Jobs : sourcesAt'[k] = "idle" <=> k > count'
    BY <2>1, <1>1, <1>2, SourcesNumbers DEF SourcesTypes, SourcesStarted
  <2>3. \A h \in Groups : running'[h] = (IF h = g THEN j ELSE running[h])
    BY <1>1, <1>2 DEF SourcesTypes
  <2>4. \A h \in Groups : running'[h] # Nobody => running'[h] <= count' /\ sourcesJob'[running'[h]].group = h
    <3>1. TAKE h \in Groups
    <3>2. CASE h = g
      BY <3>2, <2>1, <2>3, <1>1, <1>2, SourcesNumbers DEF SourcesTypes
    <3>3. CASE h # g
      <4>1. SUFFICES ASSUME running[h] # Nobody
                     PROVE  running[h] <= count' /\ sourcesJob'[running[h]].group = h
        BY <3>3, <2>3
      <4>2. PICK r \in Sources!Jobs : r = running[h] /\ r <= count /\ sourcesJob[r].group = h
        BY <4>1, <1>1 DEF SourcesTypes, SourcesStarted
      <4>3. r # j /\ r <= count'
        <5>1. count \in Nat /\ r \in Nat /\ j = count + 1 /\ count' = j
          BY <1>1, <1>2, SourcesNumbers DEF SourcesTypes
        <5>2. QED
          BY <5>1, <4>2
      <4>4. QED
        BY <4>2, <4>3, <2>1
    <3>4. QED
      BY <3>2, <3>3
  <2>5. \A k \in Sources!Jobs : sourcesAt'[k] \in SourcesHeld \union {"idle", "admission"} => outcome'[k] = "none"
    BY <2>1, <1>1, <1>2, SourcesNumbers DEF SourcesTypes, SourcesStarted, SourcesHeld
  <2>6. QED
    BY <2>2, <2>4, <2>5 DEF SourcesStarted
<1>5. Extracting'
  <2>1. sourcesAt[j] = "idle"
    BY <1>1, <1>2, SourcesNumbers DEF SourcesTypes, SourcesStarted
  <2>2. \A k \in Sources!Jobs : sourcesAt'[k] # "index" => sourcesAt[k] # "index"
    BY <2>1, <1>1, <1>2 DEF SourcesTypes
  <2>3. QED
    BY <2>2, <1>1, <1>2 DEF Extracting
<1>6. Owning'
  BY <1>1, <1>2, SourcesNumbers DEF SourcesTypes, Owning, SourcesHeld
<1>7. Succeeding'
  <2>1. SUFFICES ASSUME NEW k \in Sources!Jobs, sourcesAt'[k] \in SourcesHeld
                 PROVE  LET r == running'[sourcesJob'[k].group] IN
                        /\ r # Nobody /\ sourcesJob'[r].writer = sourcesJob'[k].writer
                        /\ r = k \/ sourcesAt'[r] = "admission"
    BY DEF Succeeding
  <2>2. k # j /\ sourcesAt[k] \in SourcesHeld /\ sourcesJob'[k] = sourcesJob[k]
        /\ sourcesJob[k].group \in Groups
    BY <2>1, <1>1, <1>2 DEF SourcesTypes, SourcesHeld
  <2>3. CASE sourcesJob[k].group = g
    BY <2>2, <2>3, <1>1, <1>2, SourcesNumbers DEF SourcesTypes, Succeeding
  <2>4. CASE sourcesJob[k].group # g
    <3>1. PICK r \in Sources!Jobs : r = running[sourcesJob[k].group] /\ r <= count
            /\ sourcesJob[r].writer = sourcesJob[k].writer /\ (r = k \/ sourcesAt[r] = "admission")
      BY <2>2, <1>1 DEF SourcesTypes, SourcesStarted, Succeeding
    <3>2. r # j
      BY <3>1, <1>1, <1>2, SourcesNumbers DEF SourcesTypes
    <3>3. running'[sourcesJob[k].group] = r /\ sourcesJob'[r] = sourcesJob[r]
          /\ sourcesAt'[r] = sourcesAt[r]
      BY <2>2, <2>4, <3>1, <3>2, <1>1, <1>2 DEF SourcesTypes
    <3>4. QED
      BY <2>2, <3>1, <3>3, SourcesNumbers
  <2>5. QED
    BY <2>3, <2>4
<1>8. SourcesRegistered'
  BY <1>1, <1>2, SourcesNumbers DEF SourcesTypes, SourcesStarted, SourcesRegistered,
     SourcesHeld
<1>9. Accounted'
  BY <1>1, <1>2, SourcesNumbers DEF SourcesTypes, Accounted, Sources!Wanted
<1>10. Sources!SavedBound'
  BY <1>1, <1>2 DEF Sources!SavedBound
<1>11. QED
  BY <1>3, <1>4, <1>5, <1>6, <1>7, <1>8, <1>9, <1>10 DEF SourcesInv

LEMMA SourcesLeaveStep ==
    ASSUME SourcesInv, NEW q \in Askers, Sources!Leave(q)
    PROVE  SourcesInv'
<1>1. SourcesTypes /\ SourcesStarted /\ Extracting /\ Owning /\ Succeeding
      /\ SourcesRegistered /\ Accounted /\ Sources!SavedBound
  BY DEF SourcesInv
<1>2. SourcesTypes'
  BY <1>1, SourcesNumbers DEF Sources!Leave, Sources!sources, Sources!registry,
     Sources!places, Sources!queue, Sources!store, SourcesTypes, SourcesPlaces,
     SourcesHeld
<1>3. SourcesStarted'
  BY <1>1, SourcesNumbers DEF Sources!Leave, Sources!sources, Sources!registry,
     Sources!places, Sources!queue, Sources!store, SourcesTypes, SourcesStarted,
     SourcesHeld, SourcesPlaces
<1>4. Extracting'
  BY <1>1, SourcesNumbers DEF Sources!Leave, Sources!sources, Sources!registry,
     Sources!places, Sources!queue, Sources!store, SourcesTypes, Extracting
<1>5. Owning'
  BY <1>1, SourcesNumbers DEF Sources!Leave, Sources!sources, Sources!registry,
     Sources!places, Sources!queue, Sources!store, SourcesTypes, Owning, SourcesHeld
<1>6. Succeeding'
  BY <1>1, SourcesNumbers DEF Sources!Leave, Sources!sources, Sources!registry,
     Sources!places, Sources!queue, Sources!store, SourcesTypes, SourcesStarted,
     Owning, Succeeding, SourcesRegistered, SourcesHeld
<1>7. SourcesRegistered'
  BY <1>1, SourcesNumbers DEF Sources!Leave, Sources!sources, Sources!registry,
     Sources!places, Sources!queue, Sources!store, SourcesTypes, SourcesStarted,
     SourcesRegistered, SourcesHeld
<1>8. Accounted'
  BY <1>1, SourcesNumbers DEF Sources!Leave, Sources!sources, Sources!registry,
     Sources!places, Sources!queue, Sources!store, SourcesTypes, SourcesStarted,
     Extracting, Accounted, Sources!Wanted, SourcesHeld
<1>9. Sources!SavedBound'
  BY <1>1, SourcesNumbers DEF Sources!Leave, Sources!sources, Sources!registry,
     Sources!places, Sources!queue, Sources!store, SourcesTypes, Accounted,
     Extracting, Sources!SavedBound
<1>10. QED
  BY <1>2, <1>3, <1>4, <1>5, <1>6, <1>7, <1>8, <1>9 DEF SourcesInv

LEMMA SourcesTrimStep ==
    ASSUME SourcesInv, NEW g \in Groups, Sources!Trim(g)
    PROVE  SourcesInv'
<1>1. SourcesTypes /\ SourcesStarted /\ Extracting /\ Owning /\ Succeeding
      /\ SourcesRegistered /\ Accounted /\ Sources!SavedBound
  BY DEF SourcesInv
<1>2. SourcesTypes'
  BY <1>1, SourcesNumbers DEF Sources!Trim, Sources!Idle, Sources!sources,
     Sources!registry, Sources!places, Sources!queue, Sources!store, SourcesTypes,
     SourcesPlaces, SourcesHeld
<1>3. SourcesStarted'
  BY <1>1, SourcesNumbers DEF Sources!Trim, Sources!Idle, Sources!sources,
     Sources!registry, Sources!places, Sources!queue, Sources!store, SourcesTypes,
     SourcesStarted, SourcesHeld, SourcesPlaces
<1>4. Extracting'
  BY <1>1, SourcesNumbers DEF Sources!Trim, Sources!Idle, Sources!sources,
     Sources!registry, Sources!places, Sources!queue, Sources!store, SourcesTypes,
     Extracting
<1>5. Owning'
  BY <1>1, SourcesNumbers DEF Sources!Trim, Sources!Idle, Sources!sources,
     Sources!registry, Sources!places, Sources!queue, Sources!store, SourcesTypes,
     Owning, SourcesHeld
<1>6. Succeeding'
  BY <1>1, SourcesNumbers DEF Sources!Trim, Sources!Idle, Sources!sources,
     Sources!registry, Sources!places, Sources!queue, Sources!store, SourcesTypes,
     SourcesStarted, Owning, Succeeding, SourcesRegistered, SourcesHeld
<1>7. SourcesRegistered'
  BY <1>1, SourcesNumbers DEF Sources!Trim, Sources!Idle, Sources!sources,
     Sources!registry, Sources!places, Sources!queue, Sources!store, SourcesTypes,
     SourcesStarted, SourcesRegistered, SourcesHeld
<1>8. Accounted'
  BY <1>1, SourcesNumbers DEF Sources!Trim, Sources!Idle, Sources!sources,
     Sources!registry, Sources!places, Sources!queue, Sources!store, SourcesTypes,
     SourcesStarted, Extracting, Accounted, Sources!Wanted, SourcesHeld
<1>9. Sources!SavedBound'
  BY <1>1, SourcesNumbers DEF Sources!Trim, Sources!Idle, Sources!sources,
     Sources!registry, Sources!places, Sources!queue, Sources!store, SourcesTypes,
     Accounted, Extracting, Sources!SavedBound
<1>10. QED
  BY <1>2, <1>3, <1>4, <1>5, <1>6, <1>7, <1>8, <1>9 DEF SourcesInv

LEMMA SourcesForgetStep ==
    ASSUME SourcesInv, NEW g \in Groups, Sources!Forget(g)
    PROVE  SourcesInv'
<1>1. SourcesTypes /\ SourcesStarted /\ Extracting /\ Owning /\ Succeeding
      /\ SourcesRegistered /\ Accounted /\ Sources!SavedBound
  BY DEF SourcesInv
<1>2. SourcesTypes'
  BY <1>1, SourcesNumbers DEF Sources!Forget, Sources!Detached, Sources!Ended,
     Sources!NoManifest, Sources!sources, Sources!registry, Sources!places,
     Sources!queue, Sources!store, SourcesTypes, SourcesPlaces, SourcesHeld
<1>3. SourcesStarted'
  BY <1>1, SourcesNumbers DEF Sources!Forget, Sources!Detached, Sources!Ended,
     Sources!NoManifest, Sources!sources, Sources!registry, Sources!places,
     Sources!queue, Sources!store, SourcesTypes, SourcesStarted, SourcesHeld,
     SourcesPlaces
<1>4. Extracting'
  BY <1>1, SourcesNumbers DEF Sources!Forget, Sources!Detached, Sources!Ended,
     Sources!NoManifest, Sources!sources, Sources!registry, Sources!places,
     Sources!queue, Sources!store, SourcesTypes, Extracting
<1>5. Owning'
  BY <1>1, SourcesNumbers DEF Sources!Forget, Sources!Detached, Sources!Ended,
     Sources!NoManifest, Sources!sources, Sources!registry, Sources!places,
     Sources!queue, Sources!store, SourcesTypes, Owning, SourcesHeld
<1>6. Succeeding'
  BY <1>1, SourcesNumbers DEF Sources!Forget, Sources!Detached, Sources!Ended,
     Sources!NoManifest, Sources!sources, Sources!registry, Sources!places,
     Sources!queue, Sources!store, SourcesTypes, SourcesStarted, Owning, Succeeding,
     SourcesRegistered, SourcesHeld
<1>7. SourcesRegistered'
  BY <1>1, SourcesNumbers DEF Sources!Forget, Sources!Detached, Sources!Ended,
     Sources!NoManifest, Sources!sources, Sources!registry, Sources!places,
     Sources!queue, Sources!store, SourcesTypes, SourcesStarted, SourcesRegistered,
     SourcesHeld
<1>8. Accounted'
  BY <1>1, SourcesNumbers DEF Sources!Forget, Sources!Detached, Sources!Ended,
     Sources!NoManifest, Sources!sources, Sources!registry, Sources!places,
     Sources!queue, Sources!store, SourcesTypes, SourcesStarted, Extracting,
     Accounted, Sources!Wanted, SourcesHeld
<1>9. Sources!SavedBound'
  BY <1>1, SourcesNumbers DEF Sources!Forget, Sources!Detached, Sources!Ended,
     Sources!NoManifest, Sources!sources, Sources!registry, Sources!places,
     Sources!queue, Sources!store, SourcesTypes, Accounted, Extracting,
     Sources!SavedBound
<1>10. QED
  BY <1>2, <1>3, <1>4, <1>5, <1>6, <1>7, <1>8, <1>9 DEF SourcesInv

LEMMA SourcesShutdownStep == ASSUME SourcesInv, Sources!Shutdown PROVE SourcesInv'
<1>1. SourcesTypes /\ SourcesStarted /\ Extracting /\ Owning /\ Succeeding
      /\ SourcesRegistered /\ Accounted /\ Sources!SavedBound
  BY DEF SourcesInv
<1>2. SourcesTypes'
  BY <1>1, SourcesNumbers DEF Sources!Shutdown, Sources!sources, Sources!registry,
     Sources!places, Sources!queue, Sources!store, SourcesTypes, SourcesPlaces,
     SourcesHeld
<1>3. SourcesStarted'
  BY <1>1, SourcesNumbers DEF Sources!Shutdown, Sources!sources, Sources!registry,
     Sources!places, Sources!queue, Sources!store, SourcesTypes, SourcesStarted,
     SourcesHeld, SourcesPlaces
<1>4. Extracting'
  BY <1>1, SourcesNumbers DEF Sources!Shutdown, Sources!sources, Sources!registry,
     Sources!places, Sources!queue, Sources!store, SourcesTypes, Extracting
<1>5. Owning'
  BY <1>1, SourcesNumbers DEF Sources!Shutdown, Sources!sources, Sources!registry,
     Sources!places, Sources!queue, Sources!store, SourcesTypes, Owning, SourcesHeld
<1>6. Succeeding'
  BY <1>1, SourcesNumbers DEF Sources!Shutdown, Sources!sources, Sources!registry,
     Sources!places, Sources!queue, Sources!store, SourcesTypes, SourcesStarted,
     Owning, Succeeding, SourcesRegistered, SourcesHeld
<1>7. SourcesRegistered'
  BY <1>1, SourcesNumbers DEF Sources!Shutdown, Sources!sources, Sources!registry,
     Sources!places, Sources!queue, Sources!store, SourcesTypes, SourcesStarted,
     SourcesRegistered, SourcesHeld
<1>8. Accounted'
  BY <1>1, SourcesNumbers DEF Sources!Shutdown, Sources!sources, Sources!registry,
     Sources!places, Sources!queue, Sources!store, SourcesTypes, SourcesStarted,
     Extracting, Accounted, Sources!Wanted, SourcesHeld
<1>9. Sources!SavedBound'
  BY <1>1, SourcesNumbers DEF Sources!Shutdown, Sources!sources, Sources!registry,
     Sources!places, Sources!queue, Sources!store, SourcesTypes, Accounted,
     Extracting, Sources!SavedBound
<1>10. QED
  BY <1>2, <1>3, <1>4, <1>5, <1>6, <1>7, <1>8, <1>9 DEF SourcesInv

LEMMA SourcesAdmitStep ==
    ASSUME SourcesInv, NEW j \in Sources!Jobs, Sources!Admit(j)
    PROVE  SourcesInv'
<1>1. SourcesTypes /\ SourcesStarted /\ Extracting /\ Owning /\ Succeeding
      /\ SourcesRegistered /\ Accounted /\ Sources!SavedBound
  BY DEF SourcesInv
<1>2. SourcesTypes'
  BY <1>1, SourcesNumbers DEF Sources!Admit, Sources!Goes, Sources!sources,
     Sources!registry, Sources!places, Sources!queue, Sources!store, SourcesTypes,
     SourcesPlaces, SourcesHeld
<1>3. SourcesStarted'
  BY <1>1, SourcesNumbers DEF Sources!Admit, Sources!Goes, Sources!sources,
     Sources!registry, Sources!places, Sources!queue, Sources!store, SourcesTypes,
     SourcesStarted, SourcesHeld, SourcesPlaces
<1>4. Extracting'
  BY <1>1, SourcesNumbers DEF Sources!Admit, Sources!Goes, Sources!sources,
     Sources!registry, Sources!places, Sources!queue, Sources!store, SourcesTypes,
     Extracting
<1>5. Owning'
  BY <1>1, SourcesNumbers DEF Sources!Admit, Sources!Goes, Sources!sources,
     Sources!registry, Sources!places, Sources!queue, Sources!store, SourcesTypes,
     Owning, SourcesHeld
<1>6. Succeeding'
  BY <1>1, SourcesNumbers DEF Sources!Admit, Sources!Goes, Sources!sources,
     Sources!registry, Sources!places, Sources!queue, Sources!store, SourcesTypes,
     SourcesStarted, Owning, Succeeding, SourcesRegistered, SourcesHeld
<1>7. SourcesRegistered'
  BY <1>1, SourcesNumbers DEF Sources!Admit, Sources!Goes, Sources!sources,
     Sources!registry, Sources!places, Sources!queue, Sources!store, SourcesTypes,
     SourcesStarted, SourcesRegistered, SourcesHeld
<1>8. Accounted'
  BY <1>1, SourcesNumbers DEF Sources!Admit, Sources!Goes, Sources!sources,
     Sources!registry, Sources!places, Sources!queue, Sources!store, SourcesTypes,
     SourcesStarted, Extracting, Accounted, Sources!Wanted, SourcesHeld
<1>9. Sources!SavedBound'
  BY <1>1, SourcesNumbers DEF Sources!Admit, Sources!Goes, Sources!sources,
     Sources!registry, Sources!places, Sources!queue, Sources!store, SourcesTypes,
     Accounted, Extracting, Sources!SavedBound
<1>10. QED
  BY <1>2, <1>3, <1>4, <1>5, <1>6, <1>7, <1>8, <1>9 DEF SourcesInv

LEMMA SourcesEmptyStep ==
    ASSUME SourcesInv, NEW j \in Sources!Jobs, Sources!Empty(j)
    PROVE  SourcesInv'
<1>1. SourcesTypes /\ SourcesStarted /\ Extracting /\ Owning /\ Succeeding
      /\ SourcesRegistered /\ Accounted /\ Sources!SavedBound
  BY DEF SourcesInv
<1>2. SourcesTypes'
  BY <1>1, SourcesNumbers DEF Sources!Empty, Sources!sources, Sources!registry,
     Sources!places, Sources!queue, Sources!store, SourcesTypes, SourcesPlaces,
     SourcesHeld
<1>3. SourcesStarted'
  BY <1>1, SourcesNumbers DEF Sources!Empty, Sources!sources, Sources!registry,
     Sources!places, Sources!queue, Sources!store, SourcesTypes, SourcesStarted,
     SourcesHeld, SourcesPlaces
<1>4. Extracting'
  BY <1>1, SourcesNumbers DEF Sources!Empty, Sources!sources, Sources!registry,
     Sources!places, Sources!queue, Sources!store, SourcesTypes, Extracting
<1>5. Owning'
  BY <1>1, SourcesNumbers DEF Sources!Empty, Sources!sources, Sources!registry,
     Sources!places, Sources!queue, Sources!store, SourcesTypes, Owning, SourcesHeld
<1>6. Succeeding'
  BY <1>1, SourcesNumbers DEF Sources!Empty, Sources!sources, Sources!registry,
     Sources!places, Sources!queue, Sources!store, SourcesTypes, SourcesStarted,
     Owning, Succeeding, SourcesRegistered, SourcesHeld
<1>7. SourcesRegistered'
  BY <1>1, SourcesNumbers DEF Sources!Empty, Sources!sources, Sources!registry,
     Sources!places, Sources!queue, Sources!store, SourcesTypes, SourcesStarted,
     SourcesRegistered, SourcesHeld
<1>8. Accounted'
  BY <1>1, SourcesNumbers DEF Sources!Empty, Sources!sources, Sources!registry,
     Sources!places, Sources!queue, Sources!store, SourcesTypes, SourcesStarted,
     Extracting, Accounted, Sources!Wanted, SourcesHeld
<1>9. Sources!SavedBound'
  BY <1>1, SourcesNumbers DEF Sources!Empty, Sources!sources, Sources!registry,
     Sources!places, Sources!queue, Sources!store, SourcesTypes, Accounted,
     Extracting, Sources!SavedBound
<1>10. QED
  BY <1>2, <1>3, <1>4, <1>5, <1>6, <1>7, <1>8, <1>9 DEF SourcesInv

LEMMA SourcesLookupStep ==
    ASSUME SourcesInv, NEW j \in Sources!Jobs, Sources!Lookup(j)
    PROVE  SourcesInv'
<1>1. SourcesTypes /\ SourcesStarted /\ Extracting /\ Owning /\ Succeeding
      /\ SourcesRegistered /\ Accounted /\ Sources!SavedBound
  BY DEF SourcesInv
<1>2. PICK place \in {"reused", "index", "release"}, batch \in SUBSET SourceFiles :
        /\ sourcesAt[j] = "lookup" /\ sourcesAt' = [sourcesAt EXCEPT ![j] = place]
        /\ batches' = [batches EXCEPT ![j] = batch]
        /\ IF place = "index" THEN batch = Sources!Wanted(j) ELSE batch = batches[j]
        /\ UNCHANGED <<sourcesDisk, sourcesCode, count, sourcesJob, running, outcome,
                       canceled, sourcesWriter, sourcesLock, tasks, work,
                       omitted, bound, saved>>
  <2>1. batches = [batches EXCEPT ![j] = batches[j]]
        /\ batches[j] \in SUBSET SourceFiles
    BY <1>1 DEF SourcesTypes
  <2>2. Sources!Wanted(j) \in SUBSET SourceFiles
    BY <1>1, SourceJobsAssumption DEF SourcesTypes, Sources!Wanted
  <2>3. QED
    BY <2>1, <2>2 DEF Sources!Lookup, Sources!Goes, Sources!sources, Sources!registry,
       Sources!store
<1>3. SourcesTypes'
  BY <1>1, <1>2, SourcesNumbers DEF SourcesTypes, SourcesPlaces, SourcesHeld
<1>4. SourcesStarted'
  BY <1>1, <1>2, SourcesNumbers DEF SourcesTypes, SourcesStarted, SourcesHeld,
     SourcesPlaces
<1>5. Extracting'
  BY <1>1, <1>2, SourcesNumbers DEF SourcesTypes, Extracting
<1>6. Owning'
  BY <1>1, <1>2, SourcesNumbers DEF SourcesTypes, Owning, SourcesHeld
<1>7. Succeeding'
  BY <1>1, <1>2, SourcesNumbers DEF SourcesTypes, SourcesStarted, Owning, Succeeding,
     SourcesRegistered, SourcesHeld
<1>8. SourcesRegistered'
  BY <1>1, <1>2, SourcesNumbers DEF SourcesTypes, SourcesStarted, SourcesRegistered,
     SourcesHeld
<1>9. Accounted'
  BY <1>1, <1>2, SourcesNumbers DEF SourcesTypes, SourcesStarted, Extracting,
     Accounted, Sources!Wanted, SourcesHeld
<1>10. Sources!SavedBound'
  BY <1>1, <1>2, SourcesNumbers DEF SourcesTypes, Accounted, Extracting,
     Sources!SavedBound
<1>11. QED
  BY <1>3, <1>4, <1>5, <1>6, <1>7, <1>8, <1>9, <1>10 DEF SourcesInv

LEMMA SourcesSpawnStep ==
    ASSUME SourcesInv, NEW j \in Sources!Jobs, Sources!Spawn(j)
    PROVE  SourcesInv'
<1>1. SourcesTypes /\ SourcesStarted /\ Extracting /\ Owning /\ Succeeding
      /\ SourcesRegistered /\ Accounted /\ Sources!SavedBound
  BY DEF SourcesInv
<1>2. SourcesTypes'
  BY SMTT(20), <1>1, SourcesNumbers DEF Sources!Spawn, Sources!sources, Sources!registry,
     Sources!places, Sources!queue, Sources!store, SourcesTypes, SourcesPlaces,
     SourcesHeld
<1>3. SourcesStarted'
  BY <1>1, SourcesNumbers DEF Sources!Spawn, Sources!sources, Sources!registry,
     Sources!places, Sources!queue, Sources!store, SourcesTypes, SourcesStarted,
     SourcesHeld, SourcesPlaces
<1>4. Extracting'
  BY <1>1, SourcesNumbers DEF Sources!Spawn, Sources!sources, Sources!registry,
     Sources!places, Sources!queue, Sources!store, SourcesTypes, Extracting
<1>5. Owning'
  BY <1>1, SourcesNumbers DEF Sources!Spawn, Sources!sources, Sources!registry,
     Sources!places, Sources!queue, Sources!store, SourcesTypes, Owning, SourcesHeld
<1>6. Succeeding'
  BY <1>1, SourcesNumbers DEF Sources!Spawn, Sources!sources, Sources!registry,
     Sources!places, Sources!queue, Sources!store, SourcesTypes, SourcesStarted,
     Owning, Succeeding, SourcesRegistered, SourcesHeld
<1>7. SourcesRegistered'
  BY <1>1, SourcesNumbers DEF Sources!Spawn, Sources!sources, Sources!registry,
     Sources!places, Sources!queue, Sources!store, SourcesTypes, SourcesStarted,
     SourcesRegistered, SourcesHeld
<1>8. Accounted'
  BY <1>1, SourcesNumbers DEF Sources!Spawn, Sources!sources, Sources!registry,
     Sources!places, Sources!queue, Sources!store, SourcesTypes, SourcesStarted,
     Extracting, Accounted, Sources!Wanted, SourcesHeld
<1>9. Sources!SavedBound'
  BY <1>1, SourcesNumbers DEF Sources!Spawn, Sources!sources, Sources!registry,
     Sources!places, Sources!queue, Sources!store, SourcesTypes, Accounted,
     Extracting, Sources!SavedBound
<1>10. QED
  BY <1>2, <1>3, <1>4, <1>5, <1>6, <1>7, <1>8, <1>9 DEF SourcesInv

LEMMA SourcesTakeWorkerStep ==
    ASSUME SourcesInv, NEW j \in Sources!Jobs, Sources!TakeWorker(j)
    PROVE  SourcesInv'
<1>1. SourcesTypes /\ SourcesStarted /\ Extracting /\ Owning /\ Succeeding
      /\ SourcesRegistered /\ Accounted /\ Sources!SavedBound
  BY DEF SourcesInv
<1>2. PICK f \in tasks[j] :
        /\ tasks' = [tasks EXCEPT ![j] = @ \ {f}] /\ work' = [work EXCEPT ![j] = @ \union {f}]
        /\ UNCHANGED <<sourcesDisk, sourcesCode, count, sourcesJob, running,
                       sourcesAt, outcome, canceled, sourcesWriter, sourcesLock,
                       batches,
                       omitted, bound, saved>>
  BY DEF Sources!TakeWorker, Sources!sources, Sources!registry, Sources!places,
     Sources!store
<1>3. SourcesTypes'
  BY <1>1, <1>2, SourcesNumbers DEF SourcesTypes, SourcesPlaces, SourcesHeld
<1>4. SourcesStarted'
  BY <1>1, <1>2, SourcesNumbers DEF SourcesTypes, SourcesStarted, SourcesHeld,
     SourcesPlaces
<1>5. Extracting'
  BY <1>1, <1>2, SourcesNumbers DEF SourcesTypes, Extracting
<1>6. Owning'
  BY <1>1, <1>2, SourcesNumbers DEF SourcesTypes, Owning, SourcesHeld
<1>7. Succeeding'
  BY <1>1, <1>2, SourcesNumbers DEF SourcesTypes, SourcesStarted, Owning, Succeeding,
     SourcesRegistered, SourcesHeld
<1>8. SourcesRegistered'
  BY <1>1, <1>2, SourcesNumbers DEF SourcesTypes, SourcesStarted, SourcesRegistered,
     SourcesHeld
<1>9. Accounted'
  BY <1>1, <1>2, SourcesNumbers DEF SourcesTypes, SourcesStarted, Extracting,
     Accounted, Sources!Wanted, SourcesHeld
<1>10. Sources!SavedBound'
  BY <1>1, <1>2, SourcesNumbers DEF SourcesTypes, Accounted, Extracting,
     Sources!SavedBound
<1>11. QED
  BY <1>3, <1>4, <1>5, <1>6, <1>7, <1>8, <1>9, <1>10 DEF SourcesInv

LEMMA SourcesGiveUpStep ==
    ASSUME SourcesInv, NEW j \in Sources!Jobs, Sources!GiveUp(j)
    PROVE  SourcesInv'
<1>1. SourcesTypes /\ SourcesStarted /\ Extracting /\ Owning /\ Succeeding
      /\ SourcesRegistered /\ Accounted /\ Sources!SavedBound
  BY DEF SourcesInv
<1>2. SourcesTypes'
  <2>1. PICK f \in tasks[j] : tasks' = [tasks EXCEPT ![j] = @ \ {f}]
    BY DEF Sources!GiveUp
  <2>2. tasks' \in [Sources!Jobs -> SUBSET SourceFiles]
    BY <1>1, <2>1 DEF SourcesTypes
  <2>3. QED
    BY <1>1, <2>2 DEF Sources!GiveUp, Sources!sources, Sources!registry,
       Sources!places, Sources!store, SourcesTypes
<1>3. SourcesStarted'
  BY <1>1, SourcesNumbers DEF Sources!GiveUp, Sources!sources, Sources!registry,
     Sources!places, Sources!queue, Sources!store, SourcesTypes, SourcesStarted,
     SourcesHeld, SourcesPlaces
<1>4. Extracting'
  BY <1>1, SourcesNumbers DEF Sources!GiveUp, Sources!sources, Sources!registry,
     Sources!places, Sources!queue, Sources!store, SourcesTypes, Extracting
<1>5. Owning'
  BY <1>1, SourcesNumbers DEF Sources!GiveUp, Sources!sources, Sources!registry,
     Sources!places, Sources!queue, Sources!store, SourcesTypes, Owning, SourcesHeld
<1>6. Succeeding'
  BY <1>1, SourcesNumbers DEF Sources!GiveUp, Sources!sources, Sources!registry,
     Sources!places, Sources!queue, Sources!store, SourcesTypes, SourcesStarted,
     Owning, Succeeding, SourcesRegistered, SourcesHeld
<1>7. SourcesRegistered'
  BY <1>1, SourcesNumbers DEF Sources!GiveUp, Sources!sources, Sources!registry,
     Sources!places, Sources!queue, Sources!store, SourcesTypes, SourcesStarted,
     SourcesRegistered, SourcesHeld
<1>8. Accounted'
  BY SMTT(20), <1>1, SourcesNumbers DEF Sources!GiveUp, Sources!sources, Sources!registry,
     Sources!places, Sources!queue, Sources!store, SourcesTypes, SourcesStarted,
     Extracting, Accounted, Sources!Wanted, SourcesHeld
<1>9. Sources!SavedBound'
  BY <1>1, SourcesNumbers DEF Sources!GiveUp, Sources!sources, Sources!registry,
     Sources!places, Sources!queue, Sources!store, SourcesTypes, Accounted,
     Extracting, Sources!SavedBound
<1>10. QED
  BY <1>2, <1>3, <1>4, <1>5, <1>6, <1>7, <1>8, <1>9 DEF SourcesInv

LEMMA SourcesExtractStep ==
    ASSUME SourcesInv, NEW j \in Sources!Jobs, Sources!Extract(j)
    PROVE  SourcesInv'
<1>1. SourcesTypes /\ SourcesStarted /\ Extracting /\ Owning /\ Succeeding
      /\ SourcesRegistered /\ Accounted /\ Sources!SavedBound
  BY DEF SourcesInv
<1>2. PICK f \in work[j] :
        /\ work' = [work EXCEPT ![j] = @ \ {f}]
        /\ \/ /\ bound' = [bound EXCEPT ![sourcesJob[j].group] = @ \union {f}]
              /\ UNCHANGED <<omitted, canceled>>
           \/ /\ omitted' = [omitted EXCEPT ![j] = @ \union {f}]
              /\ UNCHANGED <<bound, canceled>>
           \/ /\ canceled' = canceled \union {j}
              /\ UNCHANGED <<omitted, bound>>
        /\ UNCHANGED <<sourcesDisk, sourcesCode, count, sourcesJob, running,
                       sourcesAt, outcome, sourcesWriter, sourcesLock, batches, tasks,
                       saved>>
  BY DEF Sources!Extract, Sources!Omits, Sources!Group, Sources!sources,
     Sources!registry, Sources!places
<1>3. SourcesTypes'
  <2>1. work' \in [Sources!Jobs -> SUBSET SourceFiles] /\ f \in SourceFiles /\ sourcesJob[j].group \in Groups
    BY <1>1, <1>2 DEF SourcesTypes
  <2>2. bound' \in [Groups -> SUBSET SourceFiles]
    BY <1>1, <1>2, <2>1 DEF SourcesTypes
  <2>3. omitted' \in [Sources!Jobs -> SUBSET SourceFiles] /\ canceled' \subseteq Sources!Jobs
    BY <1>1, <1>2, <2>1 DEF SourcesTypes
  <2>4. QED
    BY <1>1, <1>2, <2>1, <2>2, <2>3 DEF SourcesTypes
<1>4. SourcesStarted'
  BY <1>1, <1>2, SourcesNumbers DEF SourcesTypes, SourcesStarted, SourcesHeld,
     SourcesPlaces
<1>5. Extracting'
  BY <1>1, <1>2, SourcesNumbers DEF SourcesTypes, Extracting
<1>6. Owning'
  BY <1>1, <1>2, SourcesNumbers DEF SourcesTypes, Owning, SourcesHeld
<1>7. Succeeding'
  BY <1>1, <1>2, SourcesNumbers DEF SourcesTypes, SourcesStarted, Owning, Succeeding,
     SourcesRegistered, SourcesHeld
<1>8. SourcesRegistered'
  BY <1>1, <1>2, SourcesNumbers DEF SourcesTypes, SourcesStarted, SourcesRegistered,
     SourcesHeld
<1>9. Accounted'
  <2>1. \A k \in Sources!Jobs : bound[sourcesJob[k].group] \subseteq bound'[sourcesJob[k].group]
          /\ omitted[k] \subseteq omitted'[k] /\ (k \notin canceled' => k \notin canceled)
          /\ (k # j => work'[k] = work[k])
    BY <1>1, <1>2 DEF SourcesTypes
  <2>2. work'[j] = work[j] \ {f} /\ (j \notin canceled' => f \in omitted'[j] \union bound'[sourcesJob[j].group]
          \/ canceled' = canceled \union {j})
    BY <1>1, <1>2 DEF SourcesTypes
  <2>3. QED
    BY <1>1, <1>2, <2>1, <2>2 DEF Accounted, Sources!Wanted
<1>10. Sources!SavedBound'
  <2>1. \A g \in Groups : bound[g] \subseteq bound'[g]
    BY <1>1, <1>2 DEF SourcesTypes
  <2>2. QED
    BY <1>1, <1>2, <2>1 DEF Sources!SavedBound
<1>11. QED
  BY <1>3, <1>4, <1>5, <1>6, <1>7, <1>8, <1>9, <1>10 DEF SourcesInv

LEMMA SourcesDrainStep ==
    ASSUME SourcesInv, NEW j \in Sources!Jobs, Sources!Drain(j)
    PROVE  SourcesInv'
<1>1. SourcesTypes /\ SourcesStarted /\ Extracting /\ Owning /\ Succeeding
      /\ SourcesRegistered /\ Accounted /\ Sources!SavedBound
  BY DEF SourcesInv
<1>2. SourcesTypes'
  BY <1>1, SourcesNumbers DEF Sources!Drain, Sources!Goes, Sources!Joined,
     Sources!sources, Sources!registry, Sources!places, Sources!queue, Sources!store,
     SourcesTypes, SourcesPlaces, SourcesHeld
<1>3. SourcesStarted'
  BY <1>1, SourcesNumbers DEF Sources!Drain, Sources!Goes, Sources!Joined,
     Sources!sources, Sources!registry, Sources!places, Sources!queue, Sources!store,
     SourcesTypes, SourcesStarted, SourcesHeld, SourcesPlaces
<1>4. Extracting'
  BY <1>1, SourcesNumbers DEF Sources!Drain, Sources!Goes, Sources!Joined,
     Sources!sources, Sources!registry, Sources!places, Sources!queue, Sources!store,
     SourcesTypes, Extracting
<1>5. Owning'
  BY <1>1, SourcesNumbers DEF Sources!Drain, Sources!Goes, Sources!Joined,
     Sources!sources, Sources!registry, Sources!places, Sources!queue, Sources!store,
     SourcesTypes, Owning, SourcesHeld
<1>6. Succeeding'
  BY <1>1, SourcesNumbers DEF Sources!Drain, Sources!Goes, Sources!Joined,
     Sources!sources, Sources!registry, Sources!places, Sources!queue, Sources!store,
     SourcesTypes, SourcesStarted, Owning, Succeeding, SourcesRegistered, SourcesHeld
<1>7. SourcesRegistered'
  BY <1>1, SourcesNumbers DEF Sources!Drain, Sources!Goes, Sources!Joined,
     Sources!sources, Sources!registry, Sources!places, Sources!queue, Sources!store,
     SourcesTypes, SourcesStarted, SourcesRegistered, SourcesHeld
<1>8. Accounted'
  BY <1>1, SourcesNumbers DEF Sources!Drain, Sources!Goes, Sources!Joined,
     Sources!sources, Sources!registry, Sources!places, Sources!queue, Sources!store,
     SourcesTypes, SourcesStarted, Extracting, Accounted, Sources!Wanted, SourcesHeld
<1>9. Sources!SavedBound'
  BY <1>1, SourcesNumbers DEF Sources!Drain, Sources!Goes, Sources!Joined,
     Sources!sources, Sources!registry, Sources!places, Sources!queue, Sources!store,
     SourcesTypes, Accounted, Extracting, Sources!SavedBound
<1>10. QED
  BY <1>2, <1>3, <1>4, <1>5, <1>6, <1>7, <1>8, <1>9 DEF SourcesInv

LEMMA SourcesRelockStep ==
    ASSUME SourcesInv, NEW j \in Sources!Jobs, Sources!Relock(j)
    PROVE  SourcesInv'
<1>1. SourcesTypes /\ SourcesStarted /\ Extracting /\ Owning /\ Succeeding
      /\ SourcesRegistered /\ Accounted /\ Sources!SavedBound
  BY DEF SourcesInv
<1>2. SourcesTypes'
  BY <1>1, SourcesNumbers DEF Sources!Relock, Sources!Goes, Sources!sources,
     Sources!registry, Sources!places, Sources!queue, Sources!store, SourcesTypes,
     SourcesPlaces, SourcesHeld
<1>3. SourcesStarted'
  BY <1>1, SourcesNumbers DEF Sources!Relock, Sources!Goes, Sources!sources,
     Sources!registry, Sources!places, Sources!queue, Sources!store, SourcesTypes,
     SourcesStarted, SourcesHeld, SourcesPlaces
<1>4. Extracting'
  BY <1>1, SourcesNumbers DEF Sources!Relock, Sources!Goes, Sources!sources,
     Sources!registry, Sources!places, Sources!queue, Sources!store, SourcesTypes,
     Extracting
<1>5. Owning'
  BY <1>1, SourcesNumbers DEF Sources!Relock, Sources!Goes, Sources!sources,
     Sources!registry, Sources!places, Sources!queue, Sources!store, SourcesTypes,
     Owning, SourcesHeld
<1>6. Succeeding'
  <2>1. PICK place \in {"publish", "republish"} : sourcesAt' = [sourcesAt EXCEPT ![j] = place] /\ sourcesAt[j] \in {"indexed", "reused"}
    BY DEF Sources!Relock, Sources!Goes
  <2>2. UNCHANGED <<sourcesJob, running>>
    BY DEF Sources!Relock, Sources!registry
  <2>3. QED
    BY <1>1, <2>1, <2>2, SourcesNumbers DEF SourcesTypes, Succeeding, SourcesHeld
<1>7. SourcesRegistered'
  BY <1>1, SourcesNumbers DEF Sources!Relock, Sources!Goes, Sources!sources,
     Sources!registry, Sources!places, Sources!queue, Sources!store, SourcesTypes,
     SourcesStarted, SourcesRegistered, SourcesHeld
<1>8. Accounted'
  <2>1. /\ sourcesAt[j] \in {"indexed", "reused"}
        /\ \A i \in Sources!Jobs \ {j} : sourcesAt'[i] = sourcesAt[i]
        /\ sourcesAt[j] = "indexed" => sourcesAt'[j] = "publish"
        /\ sourcesAt[j] = "reused" => sourcesAt'[j] = "republish"
    BY <1>1 DEF Sources!Relock, Sources!Goes, SourcesTypes
  <2>2. UNCHANGED <<sourcesJob, canceled, omitted, batches, tasks, work, bound>>
    BY DEF Sources!Relock, Sources!registry, Sources!queue, Sources!store
  <2>3. \A i \in Sources!Jobs :
          sourcesAt'[i] \in {"index", "indexed", "publish"} =>
            sourcesAt[i] \in {"index", "indexed", "publish"}
    BY <2>1
  <2>4. \A i \in Sources!Jobs : Sources!Wanted(i)' = Sources!Wanted(i)
    BY <2>2 DEF Sources!Wanted
  <2>5. QED
    BY <1>1, <2>2, <2>3, <2>4 DEF Accounted
<1>9. Sources!SavedBound'
  BY <1>1, SourcesNumbers DEF Sources!Relock, Sources!Goes, Sources!sources,
     Sources!registry, Sources!places, Sources!queue, Sources!store, SourcesTypes,
     Accounted, Extracting, Sources!SavedBound
<1>10. QED
  BY <1>2, <1>3, <1>4, <1>5, <1>6, <1>7, <1>8, <1>9 DEF SourcesInv

LEMMA SourcesPublishStep ==
    ASSUME SourcesInv, NEW j \in Sources!Jobs, Sources!Publish(j)
    PROVE  SourcesInv'
<1>1. SourcesTypes /\ SourcesStarted /\ Extracting /\ Owning /\ Succeeding
      /\ SourcesRegistered /\ Accounted /\ Sources!SavedBound
  BY DEF SourcesInv
<1>2. sourcesAt[j] \in {"publish", "republish"} /\ sourcesAt' = [sourcesAt EXCEPT ![j] = "release"]
      /\ UNCHANGED <<sourcesDisk, sourcesCode, count, sourcesJob, running, canceled,
                     sourcesWriter, batches, tasks, work, omitted>>
  BY DEF Sources!Publish, Sources!sources, Sources!registry, Sources!queue
<1>3. PICK kept \in SUBSET SourceFiles : kept = Sources!Wanted(j) \ omitted[j]
  BY <1>1, SourceJobsAssumption DEF SourcesTypes, Sources!Wanted
<1>4. \/ UNCHANGED <<outcome, bound, saved>>
       \/ /\ outcome' = [outcome EXCEPT ![j] = "ok"] /\ j \notin canceled
          /\ \/ UNCHANGED <<bound, saved>>
             \/ /\ sourcesAt[j] = "publish"
                /\ saved' = [saved EXCEPT ![sourcesJob[j].group] = [version |-> sourcesJob[j].version, files |-> kept]]
                /\ bound' = [bound EXCEPT ![sourcesJob[j].group] = @ \intersect kept]
  BY <1>2, <1>3 DEF Sources!Publish, Sources!Publishable, Sources!Group, Sources!store
<1>5. sourcesJob[j] \in [group : Groups, version : SourceVersions, writer : Sources!Jobs]
  BY <1>1 DEF SourcesTypes
<1>6. SourcesTypes'
  <2>1. outcome' \in [Sources!Jobs -> {"none", "ok", "err"}] /\ sourcesAt' \in [Sources!Jobs -> SourcesPlaces]
    BY <1>1, <1>2, <1>4 DEF SourcesTypes, SourcesPlaces
  <2>2. bound' \in [Groups -> SUBSET SourceFiles]
    <3>1. bound[sourcesJob[j].group] \intersect kept \in SUBSET SourceFiles
      BY <1>1, <1>5 DEF SourcesTypes
    <3>2. QED
      BY <3>1, <1>1, <1>4 DEF SourcesTypes
  <2>3. saved' \in [Groups -> [version : SourceVersions \union {Nobody}, files : SUBSET SourceFiles]]
    <3>1. [version |-> sourcesJob[j].version, files |-> kept] \in [version : SourceVersions \union {Nobody}, files : SUBSET SourceFiles]
      BY <1>5, <1>3
    <3>2. QED
      BY <3>1, <1>1, <1>4, <1>5 DEF SourcesTypes
  <2>4. QED
    BY <1>1, <1>2, <2>1, <2>2, <2>3 DEF SourcesTypes
<1>7. SourcesStarted'
  BY <1>1, <1>2, <1>4, <1>5, SourcesNumbers DEF SourcesTypes, SourcesStarted,
     SourcesHeld, SourcesPlaces
<1>8. Extracting'
  BY <1>1, <1>2, <1>4, <1>5, SourcesNumbers DEF SourcesTypes, Extracting
<1>9. Owning'
  BY <1>1, <1>2, <1>4, <1>5, SourcesNumbers DEF SourcesTypes, Owning, SourcesHeld
<1>10. Succeeding'
  BY <1>1, <1>2, <1>4, <1>5, SourcesNumbers DEF SourcesTypes, SourcesStarted, Owning,
     Succeeding, SourcesRegistered, SourcesHeld
<1>11. SourcesRegistered'
  BY <1>1, <1>2, <1>4, <1>5, SourcesNumbers DEF SourcesTypes, SourcesStarted,
     SourcesRegistered, SourcesHeld
<1>12. Accounted'
  <2>1. \A k \in Sources!Jobs : sourcesAt'[k] \in {"index", "indexed", "publish"} =>
          k # j /\ sourcesAt[k] = sourcesAt'[k] /\ (sourcesJob[k].group = sourcesJob[j].group => sourcesAt[j] # "publish")
    <3>1. TAKE k \in Sources!Jobs
    <3>2. HAVE sourcesAt'[k] \in {"index", "indexed", "publish"}
    <3>3. k # j /\ sourcesAt[k] = sourcesAt'[k]
      BY <3>2, <1>1, <1>2 DEF SourcesTypes
    <3>4. ASSUME sourcesJob[k].group = sourcesJob[j].group PROVE sourcesAt[j] # "publish"
      BY <3>2, <3>3, <3>4, SourcesOneHolder DEF SourcesHeld
    <3>5. QED
      BY <3>3, <3>4
  <2>2. \A k \in Sources!Jobs : sourcesJob[k].group # sourcesJob[j].group \/ sourcesAt[j] # "publish" => bound'[sourcesJob[k].group] = bound[sourcesJob[k].group]
    BY <1>1, <1>4, <1>5 DEF SourcesTypes
  <2>3. QED
    BY <1>1, <1>2, <2>1, <2>2 DEF Accounted, Sources!Wanted
<1>13. Sources!SavedBound'
  <2>1. CASE UNCHANGED <<bound, saved>>
    BY <2>1, <1>1 DEF Sources!SavedBound
  <2>2. CASE /\ sourcesAt[j] = "publish" /\ j \notin canceled
             /\ saved' = [saved EXCEPT ![sourcesJob[j].group] = [version |-> sourcesJob[j].version, files |-> kept]]
             /\ bound' = [bound EXCEPT ![sourcesJob[j].group] = @ \intersect kept]
    <3>1. kept \subseteq bound[sourcesJob[j].group]
      BY <2>2, <1>1, <1>3 DEF Accounted, Extracting
    <3>2. QED
      BY <2>2, <3>1, <1>1, <1>5 DEF Sources!SavedBound, SourcesTypes
  <2>3. QED
    BY <2>1, <2>2, <1>4
<1>14. QED
  BY <1>6, <1>7, <1>8, <1>9, <1>10, <1>11, <1>12, <1>13 DEF SourcesInv

LEMMA SourcesReleaseStep ==
    ASSUME SourcesInv, NEW j \in Sources!Jobs, Sources!Release(j)
    PROVE  SourcesInv'
<1>1. SourcesTypes /\ SourcesStarted /\ Extracting /\ Owning /\ Succeeding
      /\ SourcesRegistered /\ Accounted /\ Sources!SavedBound
  BY DEF SourcesInv
<1>2. SourcesTypes'
  BY <1>1, SourcesNumbers DEF Sources!Release, Sources!sources, Sources!registry,
     Sources!places, Sources!queue, Sources!store, SourcesTypes, SourcesPlaces,
     SourcesHeld
<1>3. SourcesStarted'
  BY <1>1, SourcesNumbers DEF Sources!Release, Sources!sources, Sources!registry,
     Sources!places, Sources!queue, Sources!store, SourcesTypes, SourcesStarted,
     SourcesHeld, SourcesPlaces
<1>4. Extracting'
  BY <1>1, SourcesNumbers DEF Sources!Release, Sources!sources, Sources!registry,
     Sources!places, Sources!queue, Sources!store, SourcesTypes, Extracting
<1>5. Owning'
  BY <1>1, SourcesNumbers DEF Sources!Release, Sources!sources, Sources!registry,
     Sources!places, Sources!queue, Sources!store, SourcesTypes, Owning, SourcesHeld
<1>6. Succeeding'
  BY <1>1, SourcesNumbers DEF Sources!Release, Sources!sources, Sources!registry,
     Sources!places, Sources!queue, Sources!store, SourcesTypes, SourcesStarted,
     Owning, Succeeding, SourcesRegistered, SourcesHeld
<1>7. SourcesRegistered'
  BY <1>1, SourcesNumbers DEF Sources!Release, Sources!sources, Sources!registry,
     Sources!places, Sources!queue, Sources!store, SourcesTypes, SourcesStarted,
     SourcesRegistered, SourcesHeld
<1>8. Accounted'
  BY <1>1, SourcesNumbers DEF Sources!Release, Sources!sources, Sources!registry,
     Sources!places, Sources!queue, Sources!store, SourcesTypes, SourcesStarted,
     Extracting, Accounted, Sources!Wanted, SourcesHeld
<1>9. Sources!SavedBound'
  BY <1>1, SourcesNumbers DEF Sources!Release, Sources!sources, Sources!registry,
     Sources!places, Sources!queue, Sources!store, SourcesTypes, Accounted,
     Extracting, Sources!SavedBound
<1>10. QED
  BY <1>2, <1>3, <1>4, <1>5, <1>6, <1>7, <1>8, <1>9 DEF SourcesInv

LEMMA SourcesSendErrorStep ==
    ASSUME SourcesInv, NEW j \in Sources!Jobs, Sources!SendError(j)
    PROVE  SourcesInv'
<1>1. SourcesTypes /\ SourcesStarted /\ Extracting /\ Owning /\ Succeeding
      /\ SourcesRegistered /\ Accounted /\ Sources!SavedBound
  BY DEF SourcesInv
<1>2. SourcesTypes'
  BY <1>1, SourcesNumbers DEF Sources!SendError, Sources!Goes, Sources!sources,
     Sources!registry, Sources!places, Sources!queue, Sources!store, SourcesTypes,
     SourcesPlaces, SourcesHeld
<1>3. SourcesStarted'
  BY <1>1, SourcesNumbers DEF Sources!SendError, Sources!Goes, Sources!sources,
     Sources!registry, Sources!places, Sources!queue, Sources!store, SourcesTypes,
     SourcesStarted, SourcesHeld, SourcesPlaces
<1>4. Extracting'
  BY <1>1, SourcesNumbers DEF Sources!SendError, Sources!Goes, Sources!sources,
     Sources!registry, Sources!places, Sources!queue, Sources!store, SourcesTypes,
     Extracting
<1>5. Owning'
  BY <1>1, SourcesNumbers DEF Sources!SendError, Sources!Goes, Sources!sources,
     Sources!registry, Sources!places, Sources!queue, Sources!store, SourcesTypes,
     Owning, SourcesHeld
<1>6. Succeeding'
  BY <1>1, SourcesNumbers DEF Sources!SendError, Sources!Goes, Sources!sources,
     Sources!registry, Sources!places, Sources!queue, Sources!store, SourcesTypes,
     SourcesStarted, Owning, Succeeding, SourcesRegistered, SourcesHeld
<1>7. SourcesRegistered'
  BY <1>1, SourcesNumbers DEF Sources!SendError, Sources!Goes, Sources!sources,
     Sources!registry, Sources!places, Sources!queue, Sources!store, SourcesTypes,
     SourcesStarted, SourcesRegistered, SourcesHeld
<1>8. Accounted'
  BY <1>1, SourcesNumbers DEF Sources!SendError, Sources!Goes, Sources!sources,
     Sources!registry, Sources!places, Sources!queue, Sources!store, SourcesTypes,
     SourcesStarted, Extracting, Accounted, Sources!Wanted, SourcesHeld
<1>9. Sources!SavedBound'
  BY <1>1, SourcesNumbers DEF Sources!SendError, Sources!Goes, Sources!sources,
     Sources!registry, Sources!places, Sources!queue, Sources!store, SourcesTypes,
     Accounted, Extracting, Sources!SavedBound
<1>10. QED
  BY <1>2, <1>3, <1>4, <1>5, <1>6, <1>7, <1>8, <1>9 DEF SourcesInv

LEMMA SourcesInitInv == Sources!Init => SourcesInv
<1>1. SUFFICES ASSUME Sources!Init PROVE SourcesInv
  OBVIOUS
<1>2. PICK g \in Groups, v \in SourceVersions :
        sourcesJob = [j \in Sources!Jobs |-> [group |-> g, version |-> v, writer |-> j]]
  BY <1>1, SourceJobsAssumption DEF Sources!Init
<1>3. SourcesTypes
  <2>1. sourcesJob \in [Sources!Jobs -> [group : Groups, version : SourceVersions, writer : Sources!Jobs]]
    BY <1>2
  <2>2. saved \in [Groups -> [version : SourceVersions \union {Nobody}, files : SUBSET SourceFiles]]
    BY <1>1 DEF Sources!Init, Sources!NoManifest
  <2>3. QED
    BY <1>1, <2>1, <2>2, SourcesNumbers DEF Sources!Init, SourcesTypes, SourcesPlaces
<1>4. \A j \in Sources!Jobs : j > 0
  BY SourcesNumbers
<1>5. QED
  BY <1>1, <1>3, <1>4 DEF Sources!Init, SourcesInv, SourcesStarted, Extracting,
     Owning, Succeeding, SourcesRegistered, Accounted,
     Sources!SavedBound, Sources!NoManifest, SourcesHeld

LEMMA SourcesNextInv == SourcesInv /\ [Sources!Next]_(Sources!vars) => SourcesInv'
<1>1. SUFFICES ASSUME SourcesInv, [Sources!Next]_(Sources!vars) PROVE SourcesInv'
  OBVIOUS
<1>2. CASE Sources!Edit
  BY <1>1, <1>2, SourcesEditStep
<1>3. CASE Sources!Discover
  BY <1>1, <1>3, SourcesDiscoverStep
<1>4. CASE Sources!Shutdown
  BY <1>1, <1>4, SourcesShutdownStep
<1>5. ASSUME NEW q \in Askers, Sources!Leave(q) \/ \E g \in Groups : Sources!Start(q, g) PROVE SourcesInv'
  BY <1>1, <1>5, SourcesLeaveStep, SourcesJoinStep, SourcesBeginStep
<1>6. ASSUME NEW g \in Groups, Sources!Trim(g) \/ Sources!Forget(g) PROVE SourcesInv'
  BY <1>1, <1>6, SourcesTrimStep, SourcesForgetStep
<1>7. ASSUME NEW j \in Sources!Jobs, Sources!JobStep(j) PROVE SourcesInv'
  BY <1>1, <1>7, SourcesAdmitStep, SourcesEmptyStep, SourcesLookupStep,
     SourcesSpawnStep, SourcesTakeWorkerStep, SourcesGiveUpStep, SourcesExtractStep,
     SourcesDrainStep, SourcesRelockStep, SourcesPublishStep, SourcesReleaseStep, SourcesSendErrorStep DEF Sources!JobStep
<1>8. CASE UNCHANGED Sources!vars
  BY <1>1, <1>8 DEF Sources!vars, Sources!sources, Sources!registry, Sources!places,
     Sources!queue, Sources!store, SourcesInv, SourcesTypes, SourcesStarted, Extracting,
     Owning, Succeeding, SourcesRegistered, Accounted, Sources!SavedBound, Sources!Wanted
<1>9. QED
  BY <1>1, <1>2, <1>3, <1>4, <1>5, <1>6, <1>7, <1>8 DEF Sources!Next

\* The bookkeeping of source jobs holds in every reachable state.
THEOREM SourcesInvariant == Sources!Spec => []SourcesInv
  BY SourcesInitInv, SourcesNextInv, PTL DEF Sources!Spec

LEMMA SourcesInvOneWriter == SourcesInv => Sources!OneWriter
<1>1. SUFFICES ASSUME SourcesInv, NEW j \in Sources!Jobs, NEW k \in Sources!Jobs, Sources!Writing(j), Sources!Writing(k), Sources!Group(j) = Sources!Group(k)
               PROVE  j = k
  BY DEF Sources!OneWriter
<1>2. sourcesAt[j] \in SourcesHeld /\ sourcesAt[k] \in SourcesHeld
  BY <1>1 DEF SourcesInv, Extracting, Sources!Writing, SourcesHeld
<1>3. QED
  BY <1>1, <1>2, SourcesOneHolder DEF Sources!Group

LEMMA SourcesStepNeverOver ==
    ASSUME SourcesInv, [Sources!Next]_(Sources!vars)
    PROVE  \A j \in Sources!Jobs : outcome'[j] = "ok" /\ outcome[j] = "none" /\ sourcesAt[j] # "empty" =>
             running[Sources!Group(j)] = j
<1>1. SUFFICES ASSUME NEW j \in Sources!Jobs, outcome'[j] = "ok", outcome[j] = "none", sourcesAt[j] # "empty"
               PROVE  running[Sources!Group(j)] = j
  OBVIOUS
<1>2. SourcesTypes /\ SourcesRegistered
  BY DEF SourcesInv
<1>3. CASE \E k \in Sources!Jobs : Sources!Publish(k)
  <2>1. PICK k \in Sources!Jobs : Sources!Publish(k)
    BY <1>3
  <2>2. j = k /\ Sources!Publishable(j) /\ sourcesAt[j] \in {"publish", "republish"}
    BY <1>1, <1>2, <2>1 DEF Sources!Publish, SourcesTypes
  <2>3. QED
    BY <1>2, <2>2 DEF SourcesRegistered, SourcesHeld, Sources!Publishable, Sources!Group
<1>4. CASE \E k \in Sources!Jobs : Sources!Empty(k) \/ Sources!SendError(k)
  BY <1>1, <1>2, <1>4 DEF Sources!Empty, Sources!SendError, SourcesTypes
<1>5. CASE UNCHANGED outcome
  BY <1>1, <1>5
<1>6. UNCHANGED outcome \/ \E k \in Sources!Jobs : Sources!Publish(k) \/ Sources!Empty(k) \/ Sources!SendError(k)
  BY DEF Sources!Next, Sources!JobStep, Sources!Edit, Sources!Discover,
     Sources!Shutdown, Sources!Leave, Sources!Start, Sources!Trim, Sources!Forget,
     Sources!Admit, Sources!Lookup, Sources!Spawn,
     Sources!TakeWorker, Sources!GiveUp, Sources!Extract, Sources!Drain, Sources!Relock, Sources!Release, Sources!vars, Sources!places
<1>7. QED
  BY <1>3, <1>4, <1>5, <1>6

\* One job of a group writes, the saved manifest lists what is bound, and no
\* superseded job publishes: for any groups, files, versions, workers and jobs.
THEOREM SourcesCorrect == Sources!Spec => SourcesTrue
<1>1. SourcesInv => Sources!OneWriter /\ Sources!SavedBound
  BY SourcesInvOneWriter DEF SourcesInv
<1>2. QED
  BY <1>1, SourcesInvariant, SourcesStepNeverOver, PTL DEF Sources!Spec,
     Sources!NeverOver, SourcesTrue

-----------------------------------------------------------------------------
(***************************************************************************)
(* Asset jobs                                                              *)
(*                                                                         *)
(* A build holds no lock.  What it read is of the revision it was started  *)
(* for as long as the branch is still at it, unless the branch left it and *)
(* returned, which `returned` notes (AssetsBranch); files of a local       *)
(* workspace that changed since are among those the job may describe       *)
(* (AssetsLocal).                                                          *)
(* Publication looks again with the state of the branch locked             *)
(* (AssetsGuarded), and only the registered job is not cancelled           *)
(* (AssetsRegistered).                                                     *)
(***************************************************************************)

\* Where a job builds from what it has compared, or publishes what it built
AssetsBuilt == {"relock", "relock state", "publish"}
AssetsPlaces == AssetsBuilt \union {"idle", "acquire", "admission", "capture", "capture state", "check", "build",
                        "failed", "done"}

AssetsTypes ==
  /\ remote \in BOOLEAN /\ files \in AssetRevisions \union {Nobody} /\ assetsCode \in AssetCodes
  /\ branch \in [revision : AssetRevisions, repair : BOOLEAN]
  /\ reading \subseteq Assets!Jobs /\ writing \in {Nobody, Refresher, Preparer}
  /\ assetsCount \in Nat /\ assetsCount <= MaxAssetJobs /\ assetsRunning \in Assets!Jobs \union {Nobody}
  /\ want \in [Assets!Jobs -> [gen : [code : AssetCodes, revision : AssetRevisions \union {Nobody}],
                       previous : AssetRevisions \union {Nobody}]]
  /\ assetsAt \in [Assets!Jobs -> AssetsPlaces] /\ assetsCanceled \subseteq Assets!Jobs
  /\ content \in [Assets!Jobs -> AssetRevisions \union {Nobody}]
  /\ assetsSince \in [Assets!Jobs -> SUBSET (AssetRevisions \union {Nobody})]
  /\ assetsOutcome \in [Assets!Jobs -> {"none", "ok", "err"}]
  /\ returned \subseteq Assets!Jobs

\* Jobs are numbered as they start, and have an outcome when they are done.
AssetsStarted ==
  /\ \A j \in Assets!Jobs : (assetsAt[j] = "idle" <=> j > assetsCount) /\ (assetsAt[j] # "done" => assetsOutcome[j] = "none")
  /\ assetsRunning # Nobody => assetsRunning <= assetsCount

\* A job that is not cancelled is the registered one until it is done.
AssetsRegistered == \A j \in Assets!Jobs : assetsAt[j] \notin {"idle", "done"} /\ j \notin assetsCanceled => assetsRunning = j

\* Nobody writes the state of a branch that is read, and who compares reads it.
AssetsGuarded ==
  /\ writing = Refresher => remote
  /\ remote =>
       /\ writing # Nobody => reading = {}
       /\ \A j \in Assets!Jobs : assetsAt[j] \in {"check", "publish"} => j \in reading

\* Files that are not being replaced are those of the revision.
AssetsPlaced == remote /\ ~branch.repair => files = branch.revision

\* Of a local workspace: an index is of files there were since the job started.
AssetsLocal ==
  ~remote => \A j \in Assets!Jobs :
    /\ assetsAt[j] \notin {"idle", "done"} => files \in assetsSince[j]
    /\ assetsAt[j] \in AssetsBuilt \/ assetsOutcome[j] = "ok" => content[j] \in assetsSince[j]

\* Of a branch: what was built is of the revision, as long as that has not moved;
\* if it moved and came back, the job is noted.
AssetsBranch ==
  remote => \A j \in Assets!Jobs \ returned :
    /\ assetsAt[j] \in AssetsBuilt \union {"build"} /\ want[j].gen.revision = branch.revision =>
         ~branch.repair /\ (assetsAt[j] # "build" => content[j] = branch.revision)
    /\ assetsOutcome[j] = "ok" => content[j] = want[j].gen.revision

AssetsInv ==
  AssetsTypes /\ AssetsStarted /\ AssetsRegistered /\ AssetsGuarded /\ AssetsPlaced
  /\ AssetsLocal /\ AssetsBranch

LEMMA AssetsNumbers ==
    /\ MaxAssetJobs \in Nat /\ Nobody \notin Assets!Jobs /\ Assets!Jobs = 1 .. MaxAssetJobs /\ Assets!Jobs \subseteq Nat
    /\ Refresher # Nobody /\ Preparer # Nobody /\ Refresher # Preparer
<1>1. MaxAssetJobs \in Nat /\ Nobody \notin Nat
  BY AssetJobsAssumption, SourceJobsAssumption, ActorsAssumption
<1>2. Refresher # Nobody /\ Preparer # Nobody /\ Refresher # Preparer
  BY AssetJobsAssumption, SourceJobsAssumption, ActorsAssumption, Zenon
<1>3. Assets!Jobs = 1 .. MaxAssetJobs /\ Assets!Jobs \subseteq Nat
  BY <1>1 DEF Assets!Jobs
<1>4. QED
  BY <1>1, <1>2, <1>3

LEMMA AssetsMarker == ASSUME NEW r \in AssetRevisions, NEW b \in BOOLEAN
  PROVE [revision |-> r, repair |-> b] \in [revision : AssetRevisions, repair : BOOLEAN]
  OBVIOUS

LEMMA AssetsEditStep == ASSUME AssetsInv, Assets!Edit PROVE AssetsInv'
<1>1. AssetsTypes /\ AssetsStarted /\ AssetsRegistered /\ AssetsGuarded
      /\ AssetsPlaced /\ AssetsLocal /\ AssetsBranch
  BY DEF AssetsInv
<1>2. PICK v \in AssetRevisions :
        /\ ~remote /\ files' = v
        /\ assetsSince' = [j \in Assets!Jobs |-> IF assetsAt[j] \notin {"idle", "done"} THEN assetsSince[j] \union {v} ELSE assetsSince[j]]
        /\ UNCHANGED <<remote, assetsCode, branch, reading, writing, assetsCount,
                       want, assetsRunning, assetsAt, assetsCanceled, content,
                       returned, assetsOutcome>>
  BY DEF Assets!Edit, Assets!Seen, Assets!Unfinished, Assets!guards, Assets!registry,
     Assets!indexes, Assets!past
<1>3. assetsSince' \in [Assets!Jobs -> SUBSET (AssetRevisions \union {Nobody})]
  <2>1. \A j \in Assets!Jobs : assetsSince[j] \subseteq AssetRevisions \union {Nobody}
    BY <1>1 DEF AssetsTypes
  <2>2. QED
    BY <1>2, <2>1
<1>4. AssetsTypes'
  BY <1>1, <1>2, <1>3, AssetsNumbers DEF AssetsTypes, AssetsPlaces, AssetsBuilt
<1>5. AssetsStarted'
  BY <1>1, <1>2, <1>3, AssetsNumbers DEF AssetsTypes, AssetsStarted
<1>6. AssetsRegistered'
  BY <1>1, <1>2, <1>3, AssetsNumbers DEF AssetsTypes, AssetsStarted, AssetsRegistered
<1>7. AssetsGuarded'
  BY <1>1, <1>2, <1>3, AssetsNumbers DEF AssetsTypes, AssetsGuarded
<1>8. AssetsPlaced'
  BY <1>1, <1>2, <1>3, AssetsNumbers DEF AssetsTypes, AssetsPlaced
<1>9. AssetsLocal'
  BY <1>1, <1>2, <1>3, AssetsNumbers DEF AssetsTypes, AssetsStarted, AssetsPlaced,
     AssetsLocal, AssetsBuilt
<1>10. AssetsBranch'
  BY <1>1, <1>2, <1>3, AssetsNumbers DEF AssetsTypes, AssetsStarted, AssetsGuarded,
     AssetsPlaced, AssetsBranch, AssetsBuilt
<1>11. QED
  BY <1>4, <1>5, <1>6, <1>7, <1>8, <1>9, <1>10 DEF AssetsInv

LEMMA AssetsDiscoverStep == ASSUME AssetsInv, Assets!Discover PROVE AssetsInv'
<1>1. AssetsTypes /\ AssetsStarted /\ AssetsRegistered /\ AssetsGuarded
      /\ AssetsPlaced /\ AssetsLocal /\ AssetsBranch
  BY DEF AssetsInv
<1>2. AssetsTypes'
  BY <1>1, AssetsNumbers DEF Assets!Discover, Assets!guards, Assets!registry,
     Assets!indexes, Assets!past, AssetsTypes, AssetsPlaces, AssetsBuilt
<1>3. AssetsStarted'
  BY <1>1, AssetsNumbers DEF Assets!Discover, Assets!guards, Assets!registry,
     Assets!indexes, Assets!past, AssetsTypes, AssetsStarted
<1>4. AssetsRegistered'
  BY <1>1, AssetsNumbers DEF Assets!Discover, Assets!guards, Assets!registry,
     Assets!indexes, Assets!past, AssetsTypes, AssetsStarted, AssetsRegistered
<1>5. AssetsGuarded'
  BY <1>1, AssetsNumbers DEF Assets!Discover, Assets!guards, Assets!registry,
     Assets!indexes, Assets!past, AssetsTypes, AssetsGuarded
<1>6. AssetsPlaced'
  BY <1>1, AssetsNumbers DEF Assets!Discover, Assets!guards, Assets!registry,
     Assets!indexes, Assets!past, AssetsTypes, AssetsPlaced
<1>7. AssetsLocal'
  BY <1>1, AssetsNumbers DEF Assets!Discover, Assets!guards, Assets!registry,
     Assets!indexes, Assets!past, AssetsTypes, AssetsStarted, AssetsPlaced, AssetsLocal, AssetsBuilt
<1>8. AssetsBranch'
  BY <1>1, AssetsNumbers DEF Assets!Discover, Assets!guards, Assets!registry,
     Assets!indexes, Assets!past, AssetsTypes, AssetsStarted, AssetsGuarded, AssetsPlaced,
     AssetsBranch, AssetsBuilt
<1>9. QED
  BY <1>2, <1>3, <1>4, <1>5, <1>6, <1>7, <1>8 DEF AssetsInv

LEMMA AssetsRefreshStep == ASSUME AssetsInv, Assets!Refresh PROVE AssetsInv'
<1>1. AssetsTypes /\ AssetsStarted /\ AssetsRegistered /\ AssetsGuarded
      /\ AssetsPlaced /\ AssetsLocal /\ AssetsBranch
  BY DEF AssetsInv
<1>2. PICK r \in AssetRevisions :
        /\ remote /\ writing = Nobody /\ reading = {} /\ writing' = Refresher
        /\ returned' = returned \union {j \in Assets!Unlocked : want[j].gen.revision = r}
        /\ branch' = [revision |-> r, repair |-> TRUE] /\ files' = Nobody
        /\ UNCHANGED <<remote, assetsCode, reading, assetsCount, want, assetsRunning,
                       assetsAt, assetsCanceled, content, assetsSince, assetsOutcome>>
  BY DEF Assets!Refresh, Assets!registry, Assets!indexes, Assets!past
<1>3. returned' \subseteq Assets!Jobs
  BY <1>1, <1>2 DEF AssetsTypes, Assets!Unlocked
<1>4. branch'.revision = r /\ branch'.repair = TRUE
  BY <1>2
<1>5. branch' \in [revision : AssetRevisions, repair : BOOLEAN]
  BY <1>2, AssetsMarker, AssetsNumbers
<1>6. \A j \in Assets!Jobs : assetsAt[j] # "publish"
  BY <1>1, <1>2 DEF AssetsGuarded
<1>7. AssetsTypes'
  BY <1>1, <1>2, <1>3, <1>4, <1>5, AssetsNumbers DEF AssetsTypes, AssetsPlaces,
     AssetsBuilt
<1>8. AssetsStarted'
  BY <1>1, <1>2, <1>3, <1>4, <1>5, AssetsNumbers DEF AssetsTypes, AssetsStarted
<1>9. AssetsRegistered'
  BY <1>1, <1>2, <1>3, <1>4, <1>5, AssetsNumbers DEF AssetsTypes, AssetsStarted,
     AssetsRegistered
<1>10. AssetsGuarded'
  BY <1>1, <1>2, <1>3, <1>4, <1>5, AssetsNumbers DEF AssetsTypes, AssetsGuarded
<1>11. AssetsPlaced'
  BY <1>1, <1>2, <1>3, <1>4, <1>5, AssetsNumbers DEF AssetsTypes, AssetsPlaced
<1>12. AssetsLocal'
  BY <1>1, <1>2, <1>3, <1>4, <1>5, AssetsNumbers DEF AssetsTypes, AssetsStarted,
     AssetsPlaced, AssetsLocal, AssetsBuilt
<1>13. AssetsBranch'
  <2>1. SUFFICES ASSUME NEW j \in Assets!Jobs \ returned',
                        assetsAt[j] \in AssetsBuilt \union {"build"}
                 PROVE  want[j].gen.revision # r
    BY <1>1, <1>2, <1>4 DEF AssetsBranch, AssetsBuilt
  <2>2. assetsAt[j] \in {"build", "relock", "relock state"}
    BY <1>6, <2>1 DEF AssetsBuilt
  <2>3. QED
    BY <1>2, <2>1, <2>2 DEF Assets!Unlocked
<1>14. QED
  BY <1>7, <1>8, <1>9, <1>10, <1>11, <1>12, <1>13 DEF AssetsInv

LEMMA AssetsRefreshEndStep == ASSUME AssetsInv, Assets!RefreshEnd PROVE AssetsInv'
<1>1. AssetsTypes /\ AssetsStarted /\ AssetsRegistered /\ AssetsGuarded
      /\ AssetsPlaced /\ AssetsLocal /\ AssetsBranch
  BY DEF AssetsInv
<1>2. /\ writing = Refresher /\ writing' = Nobody
      /\ \/ files' = branch.revision /\ branch' = [branch EXCEPT !.repair = FALSE]
         \/ UNCHANGED <<files, branch>>
      /\ UNCHANGED <<remote, returned, assetsCode, reading, assetsCount, want, assetsRunning,
                     assetsAt, assetsCanceled, content, assetsSince, assetsOutcome>>
  BY DEF Assets!RefreshEnd, Assets!registry, Assets!indexes, Assets!past
<1>3. /\ remote /\ branch'.revision = branch.revision
      /\ branch' = branch \/ (branch'.repair = FALSE /\ files' = branch.revision)
  BY <1>1, <1>2, AssetsNumbers DEF AssetsGuarded, AssetsTypes
<1>4. branch' \in [revision : AssetRevisions, repair : BOOLEAN]
  BY <1>1, <1>2, AssetsNumbers DEF AssetsTypes
<1>5. AssetsTypes'
  BY <1>1, <1>2, <1>3, <1>4, AssetsNumbers DEF AssetsTypes, AssetsPlaces, AssetsBuilt
<1>6. AssetsStarted'
  BY <1>1, <1>2, <1>3, <1>4, AssetsNumbers DEF AssetsTypes, AssetsStarted
<1>7. AssetsRegistered'
  BY <1>1, <1>2, <1>3, <1>4, AssetsNumbers DEF AssetsTypes, AssetsStarted,
     AssetsRegistered
<1>8. AssetsGuarded'
  BY <1>1, <1>2, <1>3, <1>4, AssetsNumbers DEF AssetsTypes, AssetsGuarded
<1>9. AssetsPlaced'
  BY <1>1, <1>2, <1>3, <1>4, AssetsNumbers DEF AssetsTypes, AssetsPlaced
<1>10. AssetsLocal'
  BY <1>2, <1>3 DEF AssetsLocal
<1>11. AssetsBranch'
  BY <1>1, <1>2, <1>3, <1>4, AssetsNumbers DEF AssetsTypes, AssetsStarted,
     AssetsGuarded, AssetsPlaced, AssetsBranch, AssetsBuilt
<1>12. QED
  BY <1>5, <1>6, <1>7, <1>8, <1>9, <1>10, <1>11 DEF AssetsInv

LEMMA AssetsPrepareLockStep == ASSUME AssetsInv, Assets!PrepareLock PROVE AssetsInv'
<1>1. AssetsTypes /\ AssetsStarted /\ AssetsRegistered /\ AssetsGuarded
      /\ AssetsPlaced /\ AssetsLocal /\ AssetsBranch
  BY DEF AssetsInv
<1>2. AssetsTypes'
  BY <1>1, AssetsNumbers DEF Assets!PrepareLock, Assets!guards, Assets!registry,
     Assets!indexes, Assets!past, AssetsTypes, AssetsPlaces, AssetsBuilt
<1>3. AssetsStarted'
  BY <1>1, AssetsNumbers DEF Assets!PrepareLock, Assets!guards, Assets!registry,
     Assets!indexes, Assets!past, AssetsTypes, AssetsStarted
<1>4. AssetsRegistered'
  BY <1>1, AssetsNumbers DEF Assets!PrepareLock, Assets!guards, Assets!registry,
     Assets!indexes, Assets!past, AssetsTypes, AssetsStarted, AssetsRegistered
<1>5. AssetsGuarded'
  BY <1>1, AssetsNumbers DEF Assets!PrepareLock, Assets!guards, Assets!registry,
     Assets!indexes, Assets!past, AssetsTypes, AssetsGuarded
<1>6. AssetsPlaced'
  BY <1>1, AssetsNumbers DEF Assets!PrepareLock, Assets!guards, Assets!registry,
     Assets!indexes, Assets!past, AssetsTypes, AssetsPlaced
<1>7. AssetsLocal'
  BY <1>1, AssetsNumbers DEF Assets!PrepareLock, Assets!guards, Assets!registry,
     Assets!indexes, Assets!past, AssetsTypes, AssetsStarted, AssetsPlaced, AssetsLocal, AssetsBuilt
<1>8. AssetsBranch'
  BY <1>1, AssetsNumbers DEF Assets!PrepareLock, Assets!guards, Assets!registry,
     Assets!indexes, Assets!past, AssetsTypes, AssetsStarted, AssetsGuarded, AssetsPlaced,
     AssetsBranch, AssetsBuilt
<1>9. QED
  BY <1>2, <1>3, <1>4, <1>5, <1>6, <1>7, <1>8 DEF AssetsInv

LEMMA AssetsPrepareStateStep == ASSUME AssetsInv, Assets!PrepareState PROVE AssetsInv'
<1>1. AssetsTypes /\ AssetsStarted /\ AssetsRegistered /\ AssetsGuarded
      /\ AssetsPlaced /\ AssetsLocal /\ AssetsBranch
  BY DEF AssetsInv
<1>2. AssetsTypes'
  BY <1>1, AssetsNumbers DEF Assets!PrepareState, Assets!guards, Assets!registry,
     Assets!indexes, Assets!past, AssetsTypes, AssetsPlaces, AssetsBuilt
<1>3. AssetsStarted'
  BY <1>1, AssetsNumbers DEF Assets!PrepareState, Assets!guards, Assets!registry,
     Assets!indexes, Assets!past, AssetsTypes, AssetsStarted
<1>4. AssetsRegistered'
  BY <1>1, AssetsNumbers DEF Assets!PrepareState, Assets!guards, Assets!registry,
     Assets!indexes, Assets!past, AssetsTypes, AssetsStarted, AssetsRegistered
<1>5. AssetsGuarded'
  BY <1>1, AssetsNumbers DEF Assets!PrepareState, Assets!guards, Assets!registry,
     Assets!indexes, Assets!past, AssetsTypes, AssetsGuarded
<1>6. AssetsPlaced'
  BY <1>1, AssetsNumbers DEF Assets!PrepareState, Assets!guards, Assets!registry,
     Assets!indexes, Assets!past, AssetsTypes, AssetsPlaced
<1>7. AssetsLocal'
  BY <1>1, AssetsNumbers DEF Assets!PrepareState, Assets!guards, Assets!registry,
     Assets!indexes, Assets!past, AssetsTypes, AssetsStarted, AssetsPlaced, AssetsLocal, AssetsBuilt
<1>8. AssetsBranch'
  BY <1>1, AssetsNumbers DEF Assets!PrepareState, Assets!guards, Assets!registry,
     Assets!indexes, Assets!past, AssetsTypes, AssetsStarted, AssetsGuarded, AssetsPlaced,
     AssetsBranch, AssetsBuilt
<1>9. QED
  BY <1>2, <1>3, <1>4, <1>5, <1>6, <1>7, <1>8 DEF AssetsInv

LEMMA AssetsPrepareEndStep == ASSUME AssetsInv, Assets!PrepareEnd PROVE AssetsInv'
<1>1. AssetsTypes /\ AssetsStarted /\ AssetsRegistered /\ AssetsGuarded
      /\ AssetsPlaced /\ AssetsLocal /\ AssetsBranch
  BY DEF AssetsInv
<1>2. AssetsTypes'
  BY <1>1, AssetsNumbers DEF Assets!PrepareEnd, Assets!guards, Assets!registry,
     Assets!indexes, Assets!past, AssetsTypes, AssetsPlaces, AssetsBuilt
<1>3. AssetsStarted'
  BY <1>1, AssetsNumbers DEF Assets!PrepareEnd, Assets!guards, Assets!registry,
     Assets!indexes, Assets!past, AssetsTypes, AssetsStarted
<1>4. AssetsRegistered'
  BY <1>1, AssetsNumbers DEF Assets!PrepareEnd, Assets!guards, Assets!registry,
     Assets!indexes, Assets!past, AssetsTypes, AssetsStarted, AssetsRegistered
<1>5. AssetsGuarded'
  BY <1>1, AssetsNumbers DEF Assets!PrepareEnd, Assets!guards, Assets!registry,
     Assets!indexes, Assets!past, AssetsTypes, AssetsGuarded
<1>6. AssetsPlaced'
  BY <1>1, AssetsNumbers DEF Assets!PrepareEnd, Assets!guards, Assets!registry,
     Assets!indexes, Assets!past, AssetsTypes, AssetsPlaced
<1>7. AssetsLocal'
  BY <1>1, AssetsNumbers DEF Assets!PrepareEnd, Assets!guards, Assets!registry,
     Assets!indexes, Assets!past, AssetsTypes, AssetsStarted, AssetsPlaced, AssetsLocal, AssetsBuilt
<1>8. AssetsBranch'
  BY <1>1, AssetsNumbers DEF Assets!PrepareEnd, Assets!guards, Assets!registry,
     Assets!indexes, Assets!past, AssetsTypes, AssetsStarted, AssetsGuarded, AssetsPlaced,
     AssetsBranch, AssetsBuilt
<1>9. QED
  BY <1>2, <1>3, <1>4, <1>5, <1>6, <1>7, <1>8 DEF AssetsInv

LEMMA AssetsJoinStep ==
    ASSUME AssetsInv, NEW q \in Askers, NEW wanted, Assets!Join(q, wanted),
           UNCHANGED <<remote, files, assetsCode, branch, Assets!guards, worker,
           Assets!indexes, assetsOutcome>>
    PROVE  AssetsInv'
<1>1. AssetsTypes /\ AssetsStarted /\ AssetsRegistered /\ AssetsGuarded
      /\ AssetsPlaced /\ AssetsLocal /\ AssetsBranch
  BY DEF AssetsInv
<1>2. AssetsTypes'
  BY <1>1, AssetsNumbers DEF Assets!Join, Assets!guards, Assets!registry,
     Assets!indexes, Assets!past, AssetsTypes, AssetsPlaces, AssetsBuilt
<1>3. AssetsStarted'
  BY <1>1, AssetsNumbers DEF Assets!Join, Assets!guards, Assets!registry,
     Assets!indexes, Assets!past, AssetsTypes, AssetsStarted
<1>4. AssetsRegistered'
  BY <1>1, AssetsNumbers DEF Assets!Join, Assets!guards, Assets!registry,
     Assets!indexes, Assets!past, AssetsTypes, AssetsStarted, AssetsRegistered
<1>5. AssetsGuarded'
  BY <1>1, AssetsNumbers DEF Assets!Join, Assets!guards, Assets!registry,
     Assets!indexes, Assets!past, AssetsTypes, AssetsGuarded
<1>6. AssetsPlaced'
  BY <1>1, AssetsNumbers DEF Assets!Join, Assets!guards, Assets!registry,
     Assets!indexes, Assets!past, AssetsTypes, AssetsPlaced
<1>7. AssetsLocal'
  BY <1>1, AssetsNumbers DEF Assets!Join, Assets!guards, Assets!registry,
     Assets!indexes, Assets!past, AssetsTypes, AssetsStarted, AssetsPlaced, AssetsLocal, AssetsBuilt
<1>8. AssetsBranch'
  BY <1>1, AssetsNumbers DEF Assets!Join, Assets!guards, Assets!registry,
     Assets!indexes, Assets!past, AssetsTypes, AssetsStarted, AssetsGuarded, AssetsPlaced,
     AssetsBranch, AssetsBuilt
<1>9. QED
  BY <1>2, <1>3, <1>4, <1>5, <1>6, <1>7, <1>8 DEF AssetsInv

LEMMA AssetsBeginStep ==
    ASSUME AssetsInv, NEW q \in Askers, NEW wanted \in Assets!Requested,
           Assets!Begin(q, wanted), UNCHANGED <<remote, files, assetsCode, branch,
           Assets!guards, worker, Assets!indexes, assetsOutcome>>
    PROVE  AssetsInv'
<1>1. AssetsTypes /\ AssetsStarted /\ AssetsRegistered /\ AssetsGuarded
      /\ AssetsPlaced /\ AssetsLocal /\ AssetsBranch
  BY DEF AssetsInv
<1>2. PICK j \in Assets!Jobs, p \in AssetRevisions \union {Nobody} :
        /\ j = assetsCount + 1 /\ assetsCount' = j /\ assetsRunning' = j
        /\ want' = [want EXCEPT ![j] = [gen |-> wanted, previous |-> p]]
        /\ assetsCanceled' = IF assetsRunning = Nobody THEN assetsCanceled ELSE assetsCanceled \union {assetsRunning}
        /\ assetsAt' = [assetsAt EXCEPT ![j] = IF remote THEN "acquire" ELSE "admission"]
        /\ assetsSince' = [assetsSince EXCEPT ![j] = {files}]
        /\ UNCHANGED <<remote, returned, files, assetsCode, branch, reading, writing, content,
                       assetsOutcome>>
  <2>1. Assets!Previous(wanted) \in AssetRevisions \union {Nobody}
    BY <1>1, AssetsNumbers DEF Assets!Previous, Assets!SameGeneration, AssetsTypes
  <2>2. QED
    BY <2>1 DEF Assets!Begin, Assets!guards, Assets!indexes, Assets!past
<1>3. wanted \in [code : AssetCodes, revision : AssetRevisions \union {Nobody}]
  BY <1>1 DEF Assets!Requested, AssetsTypes
<1>4. assetsAt[j] = "idle" /\ assetsOutcome[j] = "none" /\ assetsRunning # j
  BY <1>1, <1>2, AssetsNumbers DEF AssetsTypes, AssetsStarted
<1>5. /\ assetsAt'[j] \in {"acquire", "admission"} /\ assetsSince'[j] = {files}
      /\ \A k \in Assets!Jobs \ {j} : assetsAt'[k] = assetsAt[k] /\ assetsSince'[k] = assetsSince[k] /\ want'[k] = want[k]
  BY <1>1, <1>2 DEF AssetsTypes
<1>6. AssetsTypes'
  <2>1. want' \in [Assets!Jobs -> [gen : [code : AssetCodes, revision : AssetRevisions \union {Nobody}],
                             previous : AssetRevisions \union {Nobody}]]
    BY <1>1, <1>2, <1>3 DEF AssetsTypes
  <2>2. assetsAt' \in [Assets!Jobs -> AssetsPlaces] /\ assetsSince' \in [Assets!Jobs -> SUBSET (AssetRevisions \union {Nobody})]
    BY <1>1, <1>2 DEF AssetsTypes, AssetsPlaces
  <2>3. assetsCount' \in Nat /\ assetsCount' <= MaxAssetJobs /\ assetsRunning' \in Assets!Jobs /\ assetsCanceled' \subseteq Assets!Jobs
    BY <1>1, <1>2, AssetsNumbers DEF AssetsTypes
  <2>4. QED
    BY <1>1, <1>2, <2>1, <2>2, <2>3 DEF AssetsTypes
<1>7. AssetsStarted'
  BY <1>1, <1>2, <1>4, <1>5, AssetsNumbers DEF AssetsTypes, AssetsStarted
<1>8. AssetsRegistered'
  BY <1>1, <1>2, <1>4, <1>5, AssetsNumbers DEF AssetsTypes, AssetsStarted,
     AssetsRegistered
<1>9. AssetsGuarded'
  BY <1>1, <1>2, <1>4, <1>5, AssetsNumbers DEF AssetsTypes, AssetsGuarded
<1>10. AssetsPlaced'
  BY <1>1, <1>2, <1>4, <1>5, AssetsNumbers DEF AssetsTypes, AssetsPlaced
<1>11. AssetsLocal'
  <2>1. SUFFICES ASSUME ~remote', NEW k \in Assets!Jobs
                 PROVE /\ assetsAt'[k] \notin {"idle", "done"} => files' \in assetsSince'[k]
                       /\ assetsAt'[k] \in AssetsBuilt \/ assetsOutcome'[k] = "ok" => content'[k] \in assetsSince'[k]
    BY DEF AssetsLocal, AssetsBuilt
  <2>2. CASE k = j
    BY <1>2, <2>2, <1>4, <1>5 DEF AssetsBuilt
  <2>3. CASE k # j
    BY <1>1, <1>2, <2>1, <2>3, <1>5 DEF AssetsLocal
  <2>4. QED
    BY <2>2, <2>3
<1>12. AssetsBranch'
  <2>1. SUFFICES ASSUME remote', NEW k \in Assets!Jobs \ returned'
                 PROVE /\ assetsAt'[k] \in AssetsBuilt \union {"build"} /\ want'[k].gen.revision = branch'.revision =>
                            ~branch'.repair /\ (assetsAt'[k] # "build" => content'[k] = branch'.revision)
                       /\ assetsOutcome'[k] = "ok" => content'[k] = want'[k].gen.revision
    BY DEF AssetsBranch, AssetsBuilt
  <2>2. CASE k = j
    BY <1>2, <2>2, <1>4, <1>5 DEF AssetsBuilt
  <2>3. CASE k # j
    BY <1>1, <1>2, <2>1, <2>3, <1>5 DEF AssetsBranch
  <2>4. QED
    BY <2>2, <2>3
<1>13. QED
  BY <1>6, <1>7, <1>8, <1>9, <1>10, <1>11, <1>12 DEF AssetsInv

LEMMA AssetsLeaveStep ==
    ASSUME AssetsInv, NEW q \in Askers, Assets!Leave(q)
    PROVE  AssetsInv'
<1>1. AssetsTypes /\ AssetsStarted /\ AssetsRegistered /\ AssetsGuarded
      /\ AssetsPlaced /\ AssetsLocal /\ AssetsBranch
  BY DEF AssetsInv
<1>2. AssetsTypes'
  BY <1>1, AssetsNumbers DEF Assets!Leave, Assets!guards, Assets!registry,
     Assets!indexes, Assets!past, AssetsTypes, AssetsPlaces, AssetsBuilt
<1>3. AssetsStarted'
  BY <1>1, AssetsNumbers DEF Assets!Leave, Assets!guards, Assets!registry,
     Assets!indexes, Assets!past, AssetsTypes, AssetsStarted
<1>4. AssetsRegistered'
  BY <1>1, AssetsNumbers DEF Assets!Leave, Assets!guards, Assets!registry,
     Assets!indexes, Assets!past, AssetsTypes, AssetsStarted, AssetsRegistered
<1>5. AssetsGuarded'
  BY <1>1, AssetsNumbers DEF Assets!Leave, Assets!guards, Assets!registry,
     Assets!indexes, Assets!past, AssetsTypes, AssetsGuarded
<1>6. AssetsPlaced'
  BY <1>1, AssetsNumbers DEF Assets!Leave, Assets!guards, Assets!registry,
     Assets!indexes, Assets!past, AssetsTypes, AssetsPlaced
<1>7. AssetsLocal'
  BY <1>1, AssetsNumbers DEF Assets!Leave, Assets!guards, Assets!registry,
     Assets!indexes, Assets!past, AssetsTypes, AssetsStarted, AssetsPlaced, AssetsLocal, AssetsBuilt
<1>8. AssetsBranch'
  BY <1>1, AssetsNumbers DEF Assets!Leave, Assets!guards, Assets!registry,
     Assets!indexes, Assets!past, AssetsTypes, AssetsStarted, AssetsGuarded, AssetsPlaced,
     AssetsBranch, AssetsBuilt
<1>9. QED
  BY <1>2, <1>3, <1>4, <1>5, <1>6, <1>7, <1>8 DEF AssetsInv

LEMMA AssetsTrimStep == ASSUME AssetsInv, Assets!Trim PROVE AssetsInv'
<1>1. AssetsTypes /\ AssetsStarted /\ AssetsRegistered /\ AssetsGuarded
      /\ AssetsPlaced /\ AssetsLocal /\ AssetsBranch
  BY DEF AssetsInv
<1>2. AssetsTypes'
  BY <1>1, AssetsNumbers DEF Assets!Trim, Assets!guards, Assets!registry,
     Assets!indexes, Assets!past, AssetsTypes, AssetsPlaces, AssetsBuilt
<1>3. AssetsStarted'
  BY <1>1, AssetsNumbers DEF Assets!Trim, Assets!guards, Assets!registry,
     Assets!indexes, Assets!past, AssetsTypes, AssetsStarted
<1>4. AssetsRegistered'
  BY <1>1, AssetsNumbers DEF Assets!Trim, Assets!guards, Assets!registry,
     Assets!indexes, Assets!past, AssetsTypes, AssetsStarted, AssetsRegistered
<1>5. AssetsGuarded'
  BY <1>1, AssetsNumbers DEF Assets!Trim, Assets!guards, Assets!registry,
     Assets!indexes, Assets!past, AssetsTypes, AssetsGuarded
<1>6. AssetsPlaced'
  BY <1>1, AssetsNumbers DEF Assets!Trim, Assets!guards, Assets!registry,
     Assets!indexes, Assets!past, AssetsTypes, AssetsPlaced
<1>7. AssetsLocal'
  BY <1>1, AssetsNumbers DEF Assets!Trim, Assets!guards, Assets!registry,
     Assets!indexes, Assets!past, AssetsTypes, AssetsStarted, AssetsPlaced, AssetsLocal, AssetsBuilt
<1>8. AssetsBranch'
  BY <1>1, AssetsNumbers DEF Assets!Trim, Assets!guards, Assets!registry,
     Assets!indexes, Assets!past, AssetsTypes, AssetsStarted, AssetsGuarded, AssetsPlaced,
     AssetsBranch, AssetsBuilt
<1>9. QED
  BY <1>2, <1>3, <1>4, <1>5, <1>6, <1>7, <1>8 DEF AssetsInv

LEMMA AssetsShutdownStep == ASSUME AssetsInv, Assets!Shutdown PROVE AssetsInv'
<1>1. AssetsTypes /\ AssetsStarted /\ AssetsRegistered /\ AssetsGuarded
      /\ AssetsPlaced /\ AssetsLocal /\ AssetsBranch
  BY DEF AssetsInv
<1>2. AssetsTypes'
  BY <1>1, AssetsNumbers DEF Assets!Shutdown, Assets!guards, Assets!registry,
     Assets!indexes, Assets!past, AssetsTypes, AssetsPlaces, AssetsBuilt
<1>3. AssetsStarted'
  BY <1>1, AssetsNumbers DEF Assets!Shutdown, Assets!guards, Assets!registry,
     Assets!indexes, Assets!past, AssetsTypes, AssetsStarted
<1>4. AssetsRegistered'
  BY <1>1, AssetsNumbers DEF Assets!Shutdown, Assets!guards, Assets!registry,
     Assets!indexes, Assets!past, AssetsTypes, AssetsStarted, AssetsRegistered
<1>5. AssetsGuarded'
  BY <1>1, AssetsNumbers DEF Assets!Shutdown, Assets!guards, Assets!registry,
     Assets!indexes, Assets!past, AssetsTypes, AssetsGuarded
<1>6. AssetsPlaced'
  BY <1>1, AssetsNumbers DEF Assets!Shutdown, Assets!guards, Assets!registry,
     Assets!indexes, Assets!past, AssetsTypes, AssetsPlaced
<1>7. AssetsLocal'
  BY <1>1, AssetsNumbers DEF Assets!Shutdown, Assets!guards, Assets!registry,
     Assets!indexes, Assets!past, AssetsTypes, AssetsStarted, AssetsPlaced, AssetsLocal, AssetsBuilt
<1>8. AssetsBranch'
  BY <1>1, AssetsNumbers DEF Assets!Shutdown, Assets!guards, Assets!registry,
     Assets!indexes, Assets!past, AssetsTypes, AssetsStarted, AssetsGuarded, AssetsPlaced,
     AssetsBranch, AssetsBuilt
<1>9. QED
  BY <1>2, <1>3, <1>4, <1>5, <1>6, <1>7, <1>8 DEF AssetsInv

LEMMA AssetsAcquireStep ==
    ASSUME AssetsInv, NEW j \in Assets!Jobs, Assets!Acquire(j)
    PROVE  AssetsInv'
<1>1. AssetsTypes /\ AssetsStarted /\ AssetsRegistered /\ AssetsGuarded
      /\ AssetsPlaced /\ AssetsLocal /\ AssetsBranch
  BY DEF AssetsInv
<1>2. PICK place \in AssetsPlaces :
        /\ assetsAt' = [assetsAt EXCEPT ![j] = place]
        /\ assetsAt[j] = "acquire" /\ place \in {"admission", "failed"}
        /\ UNCHANGED <<remote, returned, files, assetsCode, branch, reading, writing,
                       assetsCount, want, assetsRunning, assetsCanceled, content,
                       assetsSince, assetsOutcome>>
  BY <1>1, AssetsNumbers DEF Assets!Acquire, Assets!Goes, Assets!guards,
     Assets!registry, Assets!indexes, Assets!past, AssetsPlaces
<1>3. /\ assetsAt'[j] = place
      /\ \A k \in Assets!Jobs \ {j} : assetsAt'[k] = assetsAt[k]
  BY <1>1, <1>2 DEF AssetsTypes
<1>4. AssetsTypes'
  BY <1>1, <1>2, <1>3, AssetsNumbers DEF AssetsTypes, AssetsPlaces, AssetsBuilt
<1>5. AssetsStarted'
  BY <1>1, <1>2, <1>3, AssetsNumbers DEF AssetsTypes, AssetsStarted
<1>6. AssetsRegistered'
  BY <1>1, <1>2, <1>3, AssetsNumbers DEF AssetsTypes, AssetsStarted, AssetsRegistered
<1>7. AssetsGuarded'
  BY <1>1, <1>2, <1>3, AssetsNumbers DEF AssetsTypes, AssetsGuarded
<1>8. AssetsPlaced'
  BY <1>1, <1>2, <1>3, AssetsNumbers DEF AssetsTypes, AssetsPlaced
<1>9. AssetsLocal'
  BY <1>1, <1>2, <1>3, AssetsNumbers DEF AssetsTypes, AssetsStarted, AssetsPlaced,
     AssetsLocal, AssetsBuilt
<1>10. AssetsBranch'
  <2>1. SUFFICES ASSUME remote, NEW k \in Assets!Jobs \ returned
                 PROVE /\ assetsAt'[k] \in AssetsBuilt \union {"build"} /\ want[k].gen.revision = branch.revision =>
                            ~branch.repair /\ (assetsAt'[k] # "build" => content'[k] = branch.revision)
                       /\ assetsOutcome'[k] = "ok" => content'[k] = want[k].gen.revision
    BY <1>2 DEF AssetsBranch, AssetsBuilt
  <2>2. /\ assetsAt[k] \in AssetsBuilt \union {"build"} /\ want[k].gen.revision = branch.revision =>
             ~branch.repair /\ (assetsAt[k] # "build" => content[k] = branch.revision)
        /\ assetsOutcome[k] = "ok" => content[k] = want[k].gen.revision
    BY <1>1, <2>1 DEF AssetsBranch
  <2>3. CASE k # j
    BY <1>2, <2>2, <2>3, <1>3
  <2>4. CASE k = j
    BY <1>1, <1>2, <1>3, <2>2, <2>4 DEF AssetsTypes, AssetsStarted, AssetsBuilt
  <2>5. QED
    BY <2>3, <2>4
<1>11. QED
  BY <1>4, <1>5, <1>6, <1>7, <1>8, <1>9, <1>10 DEF AssetsInv

LEMMA AssetsCancelStep ==
    ASSUME AssetsInv, NEW j \in Assets!Jobs, Assets!Cancel(j)
    PROVE  AssetsInv'
<1>1. AssetsTypes /\ AssetsStarted /\ AssetsRegistered /\ AssetsGuarded
      /\ AssetsPlaced /\ AssetsLocal /\ AssetsBranch
  BY DEF AssetsInv
<1>2. AssetsTypes'
  BY <1>1, AssetsNumbers DEF Assets!Cancel, Assets!guards, Assets!registry,
     Assets!indexes, Assets!past, AssetsTypes, AssetsPlaces, AssetsBuilt
<1>3. AssetsStarted'
  BY <1>1, AssetsNumbers DEF Assets!Cancel, Assets!guards, Assets!registry,
     Assets!indexes, Assets!past, AssetsTypes, AssetsStarted
<1>4. AssetsRegistered'
  BY <1>1, AssetsNumbers DEF Assets!Cancel, Assets!guards, Assets!registry,
     Assets!indexes, Assets!past, AssetsTypes, AssetsStarted, AssetsRegistered
<1>5. AssetsGuarded'
  BY <1>1, AssetsNumbers DEF Assets!Cancel, Assets!guards, Assets!registry,
     Assets!indexes, Assets!past, AssetsTypes, AssetsGuarded
<1>6. AssetsPlaced'
  BY <1>1, AssetsNumbers DEF Assets!Cancel, Assets!guards, Assets!registry,
     Assets!indexes, Assets!past, AssetsTypes, AssetsPlaced
<1>7. AssetsLocal'
  BY <1>1, AssetsNumbers DEF Assets!Cancel, Assets!guards, Assets!registry,
     Assets!indexes, Assets!past, AssetsTypes, AssetsStarted, AssetsPlaced, AssetsLocal, AssetsBuilt
<1>8. AssetsBranch'
  BY <1>1, AssetsNumbers DEF Assets!Cancel, Assets!guards, Assets!registry,
     Assets!indexes, Assets!past, AssetsTypes, AssetsStarted, AssetsGuarded, AssetsPlaced,
     AssetsBranch, AssetsBuilt
<1>9. QED
  BY <1>2, <1>3, <1>4, <1>5, <1>6, <1>7, <1>8 DEF AssetsInv

LEMMA AssetsPermitStep ==
    ASSUME AssetsInv, NEW j \in Assets!Jobs, Assets!Permit(j)
    PROVE  AssetsInv'
<1>1. AssetsTypes /\ AssetsStarted /\ AssetsRegistered /\ AssetsGuarded
      /\ AssetsPlaced /\ AssetsLocal /\ AssetsBranch
  BY DEF AssetsInv
<1>2. AssetsTypes'
  BY <1>1, AssetsNumbers DEF Assets!Permit, Assets!Goes, Assets!guards,
     Assets!registry, Assets!indexes, Assets!past, AssetsTypes, AssetsPlaces, AssetsBuilt
<1>3. AssetsStarted'
  BY <1>1, AssetsNumbers DEF Assets!Permit, Assets!Goes, Assets!guards,
     Assets!registry, Assets!indexes, Assets!past, AssetsTypes, AssetsStarted
<1>4. AssetsRegistered'
  BY <1>1, AssetsNumbers DEF Assets!Permit, Assets!Goes, Assets!guards,
     Assets!registry, Assets!indexes, Assets!past, AssetsTypes, AssetsStarted, AssetsRegistered
<1>5. AssetsGuarded'
  BY <1>1, AssetsNumbers DEF Assets!Permit, Assets!Goes, Assets!guards,
     Assets!registry, Assets!indexes, Assets!past, AssetsTypes, AssetsGuarded
<1>6. AssetsPlaced'
  BY <1>1, AssetsNumbers DEF Assets!Permit, Assets!Goes, Assets!guards,
     Assets!registry, Assets!indexes, Assets!past, AssetsTypes, AssetsPlaced
<1>7. AssetsLocal'
  BY <1>1, AssetsNumbers DEF Assets!Permit, Assets!Goes, Assets!guards,
     Assets!registry, Assets!indexes, Assets!past, AssetsTypes, AssetsStarted, AssetsPlaced,
     AssetsLocal, AssetsBuilt
<1>8. AssetsBranch'
  BY <1>1, AssetsNumbers DEF Assets!Permit, Assets!Goes, Assets!guards,
     Assets!registry, Assets!indexes, Assets!past, AssetsTypes, AssetsStarted, AssetsGuarded,
     AssetsPlaced, AssetsBranch, AssetsBuilt
<1>9. QED
  BY <1>2, <1>3, <1>4, <1>5, <1>6, <1>7, <1>8 DEF AssetsInv

LEMMA AssetsTakeGuardsStep ==
    ASSUME AssetsInv, NEW j \in Assets!Jobs, Assets!TakeGuards(j)
    PROVE  AssetsInv'
<1>1. AssetsTypes /\ AssetsStarted /\ AssetsRegistered /\ AssetsGuarded
      /\ AssetsPlaced /\ AssetsLocal /\ AssetsBranch
  BY DEF AssetsInv
<1>2. PICK place \in AssetsPlaces :
        /\ assetsAt' = [assetsAt EXCEPT ![j] = place]
        /\ <<assetsAt[j], place>> \in {<<"capture", "capture state">>, <<"relock", "relock state">>,
                                <<"capture state", "check">>, <<"relock state", "publish">>}
        /\ place \in {"check", "publish"} => (remote => writing = Nobody /\ reading' = reading \union {j})
        /\ reading' \in {reading, reading \union {j}}
        /\ writing # Nobody /\ remote => reading' = reading
        /\ UNCHANGED <<remote, returned, files, assetsCode, branch, writing, assetsCount, want,
                       assetsRunning, assetsCanceled, content, assetsSince,
                       assetsOutcome>>
  <2>1. UNCHANGED <<remote, returned, files, assetsCode, branch, writing, assetsCount, want,
                    assetsRunning, assetsCanceled, content, assetsSince,
                    assetsOutcome>>
    BY DEF Assets!TakeGuards, Assets!registry, Assets!indexes, Assets!past
  <2>2. PICK here \in {"capture", "relock", "capture state", "relock state"} :
          LET place == CASE here = "capture" -> "capture state" [] here = "relock" -> "relock state"
                         [] here = "capture state" -> "check" [] here = "relock state" -> "publish" IN
          /\ assetsAt[j] = here /\ assetsAt' = [assetsAt EXCEPT ![j] = place]
          /\ here \in {"capture", "relock"} => reading' = reading
          /\ here \in {"capture state", "relock state"} =>
               /\ remote => writing = Nobody
               /\ reading' = IF remote THEN reading \union {j} ELSE reading
    BY DEF Assets!TakeGuards, Assets!Guards, Assets!Goes
  <2>3. CASE here \in {"capture", "relock"}
    <3>1. reading' = reading
      BY <2>2, <2>3
    <3>2. QED
      <4>1. CASE here = "capture"
        BY <2>1, <2>2, <3>1, <4>1 DEF AssetsPlaces, AssetsBuilt
      <4>2. CASE here = "relock"
        BY <2>1, <2>2, <3>1, <4>2 DEF AssetsPlaces, AssetsBuilt
      <4>3. QED
        BY <2>3, <4>1, <4>2
  <2>4. CASE here \in {"capture state", "relock state"}
    <3>1. reading' \in {reading, reading \union {j}} /\ (~remote => reading' = reading)
      BY <2>2, <2>4
    <3>2. remote => writing = Nobody /\ reading' = reading \union {j}
      BY <2>2, <2>4
    <3>3. QED
      <4>1. CASE here = "capture state"
        BY <2>1, <2>2, <3>1, <3>2, <4>1 DEF AssetsPlaces, AssetsBuilt
      <4>2. CASE here = "relock state"
        BY <2>1, <2>2, <3>1, <3>2, <4>2 DEF AssetsPlaces, AssetsBuilt
      <4>3. QED
        BY <2>4, <4>1, <4>2
  <2>5. QED
    BY <2>3, <2>4
<1>3. /\ assetsAt'[j] = place
      /\ \A k \in Assets!Jobs \ {j} : assetsAt'[k] = assetsAt[k]
  BY <1>1, <1>2 DEF AssetsTypes
<1>4. AssetsTypes'
  BY <1>1, <1>2, <1>3, AssetsNumbers DEF AssetsTypes, AssetsPlaces, AssetsBuilt
<1>5. AssetsStarted'
  BY <1>1, <1>2, <1>3, AssetsNumbers DEF AssetsTypes, AssetsStarted
<1>6. AssetsRegistered'
  BY <1>1, <1>2, <1>3, AssetsNumbers DEF AssetsTypes, AssetsStarted, AssetsRegistered
<1>7. AssetsGuarded'
  BY <1>1, <1>2, <1>3, AssetsNumbers DEF AssetsTypes, AssetsGuarded
<1>8. AssetsPlaced'
  BY <1>1, <1>2, <1>3, AssetsNumbers DEF AssetsTypes, AssetsPlaced
<1>9. AssetsLocal'
  BY <1>1, <1>2, <1>3, AssetsNumbers DEF AssetsTypes, AssetsStarted, AssetsPlaced,
     AssetsLocal, AssetsBuilt
<1>10. AssetsBranch'
  <2>1. SUFFICES ASSUME remote, NEW k \in Assets!Jobs \ returned
                 PROVE /\ assetsAt'[k] \in AssetsBuilt \union {"build"} /\ want[k].gen.revision = branch.revision =>
                            ~branch.repair /\ (assetsAt'[k] # "build" => content'[k] = branch.revision)
                       /\ assetsOutcome'[k] = "ok" => content'[k] = want[k].gen.revision
    BY <1>2 DEF AssetsBranch, AssetsBuilt
  <2>2. /\ assetsAt[k] \in AssetsBuilt \union {"build"} /\ want[k].gen.revision = branch.revision =>
             ~branch.repair /\ (assetsAt[k] # "build" => content[k] = branch.revision)
        /\ assetsOutcome[k] = "ok" => content[k] = want[k].gen.revision
    BY <1>1, <2>1 DEF AssetsBranch
  <2>3. CASE k # j
    BY <1>2, <2>2, <2>3, <1>3
  <2>4. CASE k = j
    BY <1>1, <1>2, <1>3, <2>2, <2>4 DEF AssetsTypes, AssetsStarted, AssetsBuilt
  <2>5. QED
    BY <2>3, <2>4
<1>11. QED
  BY <1>4, <1>5, <1>6, <1>7, <1>8, <1>9, <1>10 DEF AssetsInv

LEMMA AssetsCheckStep ==
    ASSUME AssetsInv, NEW j \in Assets!Jobs, Assets!Check(j)
    PROVE  AssetsInv'
<1>1. AssetsTypes /\ AssetsStarted /\ AssetsRegistered /\ AssetsGuarded
      /\ AssetsPlaced /\ AssetsLocal /\ AssetsBranch
  BY DEF AssetsInv
<1>2. PICK place \in AssetsPlaces :
        /\ assetsAt' = [assetsAt EXCEPT ![j] = place]
        /\ assetsAt[j] = "check" /\ place \in {"build", "failed"}
        /\ place = "build" /\ remote => want[j].gen.revision = branch.revision /\ ~branch.repair
        /\ reading' = reading \ {j}
        /\ UNCHANGED <<remote, returned, files, assetsCode, branch, writing, assetsCount, want,
                       assetsRunning, assetsCanceled, content, assetsSince,
                       assetsOutcome>>
  <2>1. UNCHANGED <<remote, returned, files, assetsCode, branch, writing, assetsCount, want,
                    assetsRunning, assetsCanceled, content, assetsSince,
                    assetsOutcome>> /\ assetsAt[j] = "check" /\ reading' = reading \ {j}
    BY DEF Assets!Check, Assets!DropGuards, Assets!registry, Assets!indexes, Assets!past
  <2>2. CASE Assets!AsRequested(j)
    <3>1. remote => want[j].gen.revision = branch.revision /\ ~branch.repair
      BY <2>2 DEF Assets!AsRequested, Assets!Current
    <3>2. assetsAt' = [assetsAt EXCEPT ![j] = "build"]
      BY <2>2 DEF Assets!Check
    <3>3. QED
      BY <2>1, <3>1, <3>2 DEF AssetsPlaces
  <2>3. CASE ~Assets!AsRequested(j)
    <3>1. assetsAt' = [assetsAt EXCEPT ![j] = "failed"]
      BY <2>3 DEF Assets!Check
    <3>2. QED
      BY <2>1, <3>1 DEF AssetsPlaces
  <2>4. QED
    BY <2>2, <2>3
<1>3. /\ assetsAt'[j] = place
      /\ \A k \in Assets!Jobs \ {j} : assetsAt'[k] = assetsAt[k]
  BY <1>1, <1>2 DEF AssetsTypes
<1>4. AssetsTypes'
  BY <1>1, <1>2, <1>3, AssetsNumbers DEF AssetsTypes, AssetsPlaces, AssetsBuilt
<1>5. AssetsStarted'
  BY <1>1, <1>2, <1>3, AssetsNumbers DEF AssetsTypes, AssetsStarted
<1>6. AssetsRegistered'
  BY <1>1, <1>2, <1>3, AssetsNumbers DEF AssetsTypes, AssetsStarted, AssetsRegistered
<1>7. AssetsGuarded'
  BY <1>1, <1>2, <1>3, AssetsNumbers DEF AssetsTypes, AssetsGuarded
<1>8. AssetsPlaced'
  BY <1>1, <1>2, <1>3, AssetsNumbers DEF AssetsTypes, AssetsPlaced
<1>9. AssetsLocal'
  BY <1>1, <1>2, <1>3, AssetsNumbers DEF AssetsTypes, AssetsStarted, AssetsPlaced,
     AssetsLocal, AssetsBuilt
<1>10. AssetsBranch'
  <2>1. SUFFICES ASSUME remote, NEW k \in Assets!Jobs \ returned
                 PROVE /\ assetsAt'[k] \in AssetsBuilt \union {"build"} /\ want[k].gen.revision = branch.revision =>
                            ~branch.repair /\ (assetsAt'[k] # "build" => content'[k] = branch.revision)
                       /\ assetsOutcome'[k] = "ok" => content'[k] = want[k].gen.revision
    BY <1>2 DEF AssetsBranch, AssetsBuilt
  <2>2. /\ assetsAt[k] \in AssetsBuilt \union {"build"} /\ want[k].gen.revision = branch.revision =>
             ~branch.repair /\ (assetsAt[k] # "build" => content[k] = branch.revision)
        /\ assetsOutcome[k] = "ok" => content[k] = want[k].gen.revision
    BY <1>1, <2>1 DEF AssetsBranch
  <2>3. CASE k # j
    BY <1>2, <2>2, <2>3, <1>3
  <2>4. CASE k = j
    <3>1. assetsOutcome'[j] = "none" /\ place \notin AssetsBuilt
      BY <1>1, <1>2 DEF AssetsStarted, AssetsBuilt
    <3>2. QED
      BY <1>2, <1>3, <2>1, <2>4, <3>1
  <2>5. QED
    BY <2>3, <2>4
<1>11. QED
  BY <1>4, <1>5, <1>6, <1>7, <1>8, <1>9, <1>10 DEF AssetsInv

LEMMA AssetsBuildStep ==
    ASSUME AssetsInv, NEW j \in Assets!Jobs, Assets!Build(j)
    PROVE  AssetsInv'
<1>1. AssetsTypes /\ AssetsStarted /\ AssetsRegistered /\ AssetsGuarded
      /\ AssetsPlaced /\ AssetsLocal /\ AssetsBranch
  BY DEF AssetsInv
<1>2. PICK place \in AssetsPlaces :
        /\ assetsAt' = [assetsAt EXCEPT ![j] = place]
        /\ assetsAt[j] = "build" /\ place \in {"relock", "failed"}
        /\ \/ content' = [content EXCEPT ![j] = files]
           \/ place = "failed" /\ UNCHANGED content
        /\ UNCHANGED <<remote, returned, files, assetsCode, branch, reading, writing,
                       assetsCount, want, assetsRunning, assetsCanceled, assetsSince,
                       assetsOutcome>>
  <2>2. ASSUME NEW kept, kept = Assets!Retained(j) \ {Nobody}
        PROVE (IF kept = {} THEN files ELSE CHOOSE v \in kept : TRUE) = files
    BY <2>2 DEF Assets!Retained
  <2>3. assetsAt[j] = "build"
    BY DEF Assets!Build
  <2>4. UNCHANGED <<remote, returned, files, assetsCode, branch, reading, writing, assetsCount,
                    want, assetsRunning, assetsCanceled, assetsSince,
                    assetsOutcome>>
    BY DEF Assets!Build, Assets!guards, Assets!registry, Assets!past
  <2>5. CASE assetsAt' = [assetsAt EXCEPT ![j] = "failed"] /\ UNCHANGED content
    BY <2>3, <2>4, <2>5 DEF AssetsPlaces
  <2>6. CASE /\ content' = [content EXCEPT ![j] = files]
             /\ assetsAt' = [assetsAt EXCEPT ![j] = IF j \in assetsCanceled THEN "failed" ELSE "relock"]
    BY <2>3, <2>4, <2>6 DEF AssetsPlaces, AssetsBuilt
  <2>7. QED
    BY <2>2, <2>5, <2>6 DEF Assets!Build
<1>3. /\ assetsAt'[j] = place
      /\ \A k \in Assets!Jobs \ {j} : assetsAt'[k] = assetsAt[k] /\ content'[k] = content[k]
  BY <1>1, <1>2 DEF AssetsTypes
<1>4. AssetsTypes'
  <2>1. content' \in [Assets!Jobs -> AssetRevisions \union {Nobody}] /\ assetsAt' \in [Assets!Jobs -> AssetsPlaces]
    BY <1>1, <1>2 DEF AssetsTypes
  <2>2. QED
    BY <1>1, <1>2, <2>1 DEF AssetsTypes
<1>5. AssetsStarted'
  BY <1>1, <1>2, <1>3, AssetsNumbers DEF AssetsTypes, AssetsStarted
<1>6. AssetsRegistered'
  BY <1>1, <1>2, <1>3, AssetsNumbers DEF AssetsTypes, AssetsStarted, AssetsRegistered
<1>7. AssetsGuarded'
  BY <1>1, <1>2, <1>3, AssetsNumbers DEF AssetsTypes, AssetsGuarded
<1>8. AssetsPlaced'
  BY <1>1, <1>2, <1>3, AssetsNumbers DEF AssetsTypes, AssetsPlaced
<1>9. AssetsLocal'
  <2>1. SUFFICES ASSUME ~remote, NEW k \in Assets!Jobs
                 PROVE /\ assetsAt'[k] \notin {"idle", "done"} => files \in assetsSince[k]
                       /\ assetsAt'[k] \in AssetsBuilt \/ assetsOutcome[k] = "ok" => content'[k] \in assetsSince[k]
    BY <1>2 DEF AssetsLocal, AssetsBuilt
  <2>2. /\ assetsAt[k] \notin {"idle", "done"} => files \in assetsSince[k]
        /\ assetsAt[k] \in AssetsBuilt \/ assetsOutcome[k] = "ok" => content[k] \in assetsSince[k]
    BY <1>1, <2>1 DEF AssetsLocal
  <2>3. CASE k # j
    BY <2>2, <2>3, <1>3
  <2>4. CASE k = j
    <3>1. assetsOutcome[j] = "none" /\ files \in assetsSince[j]
          /\ "failed" \notin AssetsBuilt
      BY <1>1, <1>2, <2>2, <2>4 DEF AssetsStarted, AssetsBuilt
    <3>2. content'[j] = files \/ place = "failed"
      BY <1>1, <1>2 DEF AssetsTypes
    <3>3. QED
      BY <1>3, <2>4, <3>1, <3>2
  <2>5. QED
    BY <2>3, <2>4
<1>10. AssetsBranch'
  <2>1. SUFFICES ASSUME remote, NEW k \in Assets!Jobs \ returned
                 PROVE /\ assetsAt'[k] \in AssetsBuilt \union {"build"} /\ want[k].gen.revision = branch.revision =>
                            ~branch.repair /\ (assetsAt'[k] # "build" => content'[k] = branch.revision)
                       /\ assetsOutcome'[k] = "ok" => content'[k] = want[k].gen.revision
    BY <1>2 DEF AssetsBranch, AssetsBuilt
  <2>2. /\ assetsAt[k] \in AssetsBuilt \union {"build"} /\ want[k].gen.revision = branch.revision =>
             ~branch.repair /\ (assetsAt[k] # "build" => content[k] = branch.revision)
        /\ assetsOutcome[k] = "ok" => content[k] = want[k].gen.revision
    BY <1>1, <2>1 DEF AssetsBranch
  <2>3. CASE k # j
    BY <1>2, <2>2, <2>3, <1>3
  <2>4. CASE k = j
    <3>1. assetsOutcome'[j] = "none" /\ place \notin {"relock state", "publish"}
      BY <1>1, <1>2 DEF AssetsStarted, AssetsBuilt
    <3>2. place = "relock" => content'[j] = files
      BY <1>1, <1>2 DEF AssetsTypes
    <3>3. branch.repair \/ files = branch.revision
      BY <1>1, <2>1 DEF AssetsPlaced
    <3>4. QED
      BY <1>2, <1>3, <2>1, <2>2, <2>4, <3>1, <3>2, <3>3 DEF AssetsBuilt
  <2>5. QED
    BY <2>3, <2>4
<1>11. QED
  BY <1>4, <1>5, <1>6, <1>7, <1>8, <1>9, <1>10 DEF AssetsInv

LEMMA AssetsPublishStep ==
    ASSUME AssetsInv, NEW j \in Assets!Jobs, Assets!Publish(j)
    PROVE  AssetsInv'
<1>1. AssetsTypes /\ AssetsStarted /\ AssetsRegistered /\ AssetsGuarded
      /\ AssetsPlaced /\ AssetsLocal /\ AssetsBranch
  BY DEF AssetsInv
<1>2. PICK place \in AssetsPlaces :
        /\ assetsAt' = [assetsAt EXCEPT ![j] = place]
        /\ assetsAt[j] = "publish"
        /\ \/ /\ place = "done" /\ assetsOutcome' = [assetsOutcome EXCEPT ![j] = "ok"]
              /\ remote => want[j].gen.revision = branch.revision
           \/ place = "failed" /\ UNCHANGED assetsOutcome
        /\ reading' = reading \ {j}
        /\ UNCHANGED <<remote, returned, files, assetsCode, branch, writing, assetsCount, want,
                       assetsRunning, assetsCanceled, content, assetsSince>>
  <2>1. UNCHANGED <<remote, returned, files, assetsCode, branch, writing, assetsCount, want,
                    assetsRunning, assetsCanceled, content, assetsSince>>
        /\ assetsAt[j] = "publish" /\ reading' = reading \ {j}
    BY DEF Assets!Publish, Assets!DropGuards, Assets!registry, Assets!past
  <2>2. CASE /\ Assets!Publishable(j) /\ assetsOutcome' = [assetsOutcome EXCEPT ![j] = "ok"]
             /\ assetsAt' = [assetsAt EXCEPT ![j] = "done"]
    <3>1. remote => want[j].gen.revision = branch.revision
      BY <2>2 DEF Assets!Publishable, Assets!AsRequested, Assets!Current
    <3>2. QED
      BY <2>1, <2>2, <3>1 DEF AssetsPlaces
  <2>3. CASE assetsAt' = [assetsAt EXCEPT ![j] = "failed"] /\ UNCHANGED assetsOutcome
    BY <2>1, <2>3 DEF AssetsPlaces
  <2>4. QED
    BY <2>2, <2>3 DEF Assets!Publish
<1>3. /\ assetsAt'[j] = place
      /\ \A k \in Assets!Jobs \ {j} : assetsAt'[k] = assetsAt[k] /\ assetsOutcome'[k] = assetsOutcome[k]
  BY <1>1, <1>2 DEF AssetsTypes
<1>4. AssetsTypes'
  BY <1>1, <1>2, <1>3, AssetsNumbers DEF AssetsTypes, AssetsPlaces, AssetsBuilt
<1>5. AssetsStarted'
  BY <1>1, <1>2, <1>3, AssetsNumbers DEF AssetsTypes, AssetsStarted
<1>6. AssetsRegistered'
  BY <1>1, <1>2, <1>3, AssetsNumbers DEF AssetsTypes, AssetsStarted, AssetsRegistered
<1>7. AssetsGuarded'
  BY <1>1, <1>2, <1>3, AssetsNumbers DEF AssetsTypes, AssetsGuarded
<1>8. AssetsPlaced'
  BY <1>1, <1>2, <1>3, AssetsNumbers DEF AssetsTypes, AssetsPlaced
<1>9. AssetsLocal'
  BY <1>1, <1>2, <1>3, AssetsNumbers DEF AssetsTypes, AssetsStarted, AssetsPlaced,
     AssetsLocal, AssetsBuilt
<1>10. AssetsBranch'
  <2>1. SUFFICES ASSUME remote, NEW k \in Assets!Jobs \ returned
                 PROVE /\ assetsAt'[k] \in AssetsBuilt \union {"build"} /\ want[k].gen.revision = branch.revision =>
                            ~branch.repair /\ (assetsAt'[k] # "build" => content'[k] = branch.revision)
                       /\ assetsOutcome'[k] = "ok" => content'[k] = want[k].gen.revision
    BY <1>2 DEF AssetsBranch, AssetsBuilt
  <2>2. /\ assetsAt[k] \in AssetsBuilt \union {"build"} /\ want[k].gen.revision = branch.revision =>
             ~branch.repair /\ (assetsAt[k] # "build" => content[k] = branch.revision)
        /\ assetsOutcome[k] = "ok" => content[k] = want[k].gen.revision
    BY <1>1, <2>1 DEF AssetsBranch
  <2>3. CASE k # j
    BY <1>2, <2>2, <2>3, <1>3
  <2>4. CASE k = j
    <3>1. assetsOutcome[j] = "none" /\ place \notin AssetsBuilt \union {"build"}
      BY <1>1, <1>2 DEF AssetsStarted, AssetsBuilt
    <3>2. want[j].gen.revision = branch.revision => content[j] = want[j].gen.revision
      BY <1>2, <2>2, <2>4 DEF AssetsBuilt
    <3>3. assetsOutcome'[j] = "ok" /\ remote => want[j].gen.revision = branch.revision
      BY <1>1, <1>2, <3>1 DEF AssetsTypes
    <3>4. QED
      BY <1>2, <1>3, <2>1, <2>4, <3>1, <3>2, <3>3
  <2>5. QED
    BY <2>3, <2>4
<1>11. QED
  BY <1>4, <1>5, <1>6, <1>7, <1>8, <1>9, <1>10 DEF AssetsInv

LEMMA AssetsSendErrorStep ==
    ASSUME AssetsInv, NEW j \in Assets!Jobs, Assets!SendError(j)
    PROVE  AssetsInv'
<1>1. AssetsTypes /\ AssetsStarted /\ AssetsRegistered /\ AssetsGuarded
      /\ AssetsPlaced /\ AssetsLocal /\ AssetsBranch
  BY DEF AssetsInv
<1>2. AssetsTypes'
  BY <1>1, AssetsNumbers DEF Assets!SendError, Assets!Goes, Assets!guards,
     Assets!registry, Assets!indexes, Assets!past, AssetsTypes, AssetsPlaces, AssetsBuilt
<1>3. AssetsStarted'
  BY <1>1, AssetsNumbers DEF Assets!SendError, Assets!Goes, Assets!guards,
     Assets!registry, Assets!indexes, Assets!past, AssetsTypes, AssetsStarted
<1>4. AssetsRegistered'
  BY <1>1, AssetsNumbers DEF Assets!SendError, Assets!Goes, Assets!guards,
     Assets!registry, Assets!indexes, Assets!past, AssetsTypes, AssetsStarted, AssetsRegistered
<1>5. AssetsGuarded'
  BY <1>1, AssetsNumbers DEF Assets!SendError, Assets!Goes, Assets!guards,
     Assets!registry, Assets!indexes, Assets!past, AssetsTypes, AssetsGuarded
<1>6. AssetsPlaced'
  BY <1>1, AssetsNumbers DEF Assets!SendError, Assets!Goes, Assets!guards,
     Assets!registry, Assets!indexes, Assets!past, AssetsTypes, AssetsPlaced
<1>7. AssetsLocal'
  BY <1>1, AssetsNumbers DEF Assets!SendError, Assets!Goes, Assets!guards,
     Assets!registry, Assets!indexes, Assets!past, AssetsTypes, AssetsStarted, AssetsPlaced,
     AssetsLocal, AssetsBuilt
<1>8. AssetsBranch'
  BY <1>1, AssetsNumbers DEF Assets!SendError, Assets!Goes, Assets!guards,
     Assets!registry, Assets!indexes, Assets!past, AssetsTypes, AssetsStarted, AssetsGuarded,
     AssetsPlaced, AssetsBranch, AssetsBuilt
<1>9. QED
  BY <1>2, <1>3, <1>4, <1>5, <1>6, <1>7, <1>8 DEF AssetsInv

LEMMA AssetsInitHolds == Assets!Init => AssetsInv
<1> SUFFICES ASSUME Assets!Init PROVE AssetsInv
  OBVIOUS
<1>1. branch = [revision |-> files, repair |-> FALSE] /\ files \in AssetRevisions
      /\ assetsCode \in AssetCodes
  BY DEF Assets!Init
<1>2. branch \in [revision : AssetRevisions, repair : BOOLEAN]
  BY <1>1, AssetsMarker
<1>3. Assets!Current \in [code : AssetCodes, revision : AssetRevisions \union {Nobody}]
  BY <1>1 DEF Assets!Current
<1>4. want \in [Assets!Jobs -> [gen : [code : AssetCodes, revision : AssetRevisions \union {Nobody}],
                       previous : AssetRevisions \union {Nobody}]]
  BY <1>3 DEF Assets!Init
<1>5. AssetsTypes
  <2>1. assetsCount = 0 /\ assetsRunning = Nobody /\ assetsCanceled = {}
        /\ reading = {} /\ writing = Nobody /\ remote \in BOOLEAN /\ returned = {}
    BY DEF Assets!Init
  <2>2. assetsAt = [j \in Assets!Jobs |-> "idle"] /\ content = [j \in Assets!Jobs |-> Nobody] /\ assetsSince = [j \in Assets!Jobs |-> {}]
        /\ assetsOutcome = [j \in Assets!Jobs |-> "none"]
    BY DEF Assets!Init
  <2>3. assetsAt \in [Assets!Jobs -> AssetsPlaces]
    BY <2>2 DEF AssetsPlaces
  <2>4. /\ content \in [Assets!Jobs -> AssetRevisions \union {Nobody}] /\ assetsSince \in [Assets!Jobs -> SUBSET (AssetRevisions \union {Nobody})]
        /\ assetsOutcome \in [Assets!Jobs -> {"none", "ok", "err"}]
    BY <2>2
  <2>5. QED
    BY <1>1, <1>2, <1>4, <2>1, <2>3, <2>4, AssetsNumbers DEF AssetsTypes
<1>6. AssetsStarted /\ AssetsRegistered
  BY AssetsNumbers DEF Assets!Init, AssetsStarted, AssetsRegistered
<1>7. AssetsGuarded /\ AssetsPlaced
  BY <1>1, AssetsNumbers DEF Assets!Init, AssetsGuarded, AssetsPlaced
<1>8. AssetsLocal /\ AssetsBranch
  BY DEF Assets!Init, AssetsLocal, AssetsBranch, AssetsBuilt
<1>9. QED
  BY <1>5, <1>6, <1>7, <1>8 DEF AssetsInv

LEMMA AssetsStutterStep == ASSUME AssetsInv, UNCHANGED Assets!vars PROVE AssetsInv'
<1>1. AssetsTypes /\ AssetsStarted /\ AssetsRegistered /\ AssetsGuarded
      /\ AssetsPlaced /\ AssetsLocal /\ AssetsBranch
  BY DEF AssetsInv
<1>2. UNCHANGED <<remote, returned, files, assetsCode, branch, reading, writing, assetsCount,
                  want, assetsRunning, assetsAt, assetsCanceled, content,
                  assetsSince, assetsOutcome>>
  BY DEF Assets!vars, Assets!guards, Assets!registry, Assets!indexes, Assets!past
<1>3. AssetsTypes' /\ AssetsStarted' /\ AssetsRegistered'
  BY <1>1, <1>2 DEF AssetsTypes, AssetsStarted, AssetsRegistered
<1>4. AssetsGuarded' /\ AssetsPlaced' /\ AssetsLocal' /\ AssetsBranch'
  BY <1>1, <1>2 DEF AssetsGuarded, AssetsPlaced, AssetsLocal, AssetsBranch
<1>5. QED
  BY <1>3, <1>4 DEF AssetsInv

LEMMA AssetsNextHolds == AssetsInv /\ [Assets!Next]_(Assets!vars) => AssetsInv'
<1> SUFFICES ASSUME AssetsInv, [Assets!Next]_(Assets!vars) PROVE AssetsInv'
  OBVIOUS
<1>1. CASE UNCHANGED Assets!vars
  BY <1>1, AssetsStutterStep
<1>2. CASE Assets!Edit \/ Assets!Discover \/ Assets!Refresh \/ Assets!RefreshEnd
  BY <1>2, AssetsEditStep, AssetsDiscoverStep, AssetsRefreshStep, AssetsRefreshEndStep
<1>3. CASE Assets!PrepareLock \/ Assets!PrepareState \/ Assets!PrepareEnd \/ Assets!Trim \/ Assets!Shutdown
  BY <1>3, AssetsPrepareLockStep, AssetsPrepareStateStep, AssetsPrepareEndStep,
     AssetsTrimStep, AssetsShutdownStep
<1>4. ASSUME NEW q \in Askers, Assets!Start(q) PROVE AssetsInv'
  <2>1. PICK wanted \in Assets!Requested : Assets!Join(q, wanted) \/ Assets!Begin(q, wanted)
    BY <1>4 DEF Assets!Start
  <2>2. UNCHANGED <<remote, files, assetsCode, branch, Assets!guards, worker,
                    Assets!indexes, assetsOutcome>>
    BY <1>4 DEF Assets!Start
  <2>3. QED
    BY <2>1, <2>2, AssetsJoinStep, AssetsBeginStep
<1>5. ASSUME NEW q \in Askers, Assets!Leave(q) PROVE AssetsInv'
  BY <1>5, AssetsLeaveStep
<1>6. ASSUME NEW j \in Assets!Jobs, Assets!JobStep(j) PROVE AssetsInv'
  <2>1. CASE Assets!Acquire(j) \/ Assets!Cancel(j) \/ Assets!Permit(j) \/ Assets!TakeGuards(j)
    BY <2>1, AssetsAcquireStep, AssetsCancelStep, AssetsPermitStep, AssetsTakeGuardsStep
  <2>2. CASE Assets!Check(j) \/ Assets!Build(j) \/ Assets!Publish(j) \/ Assets!SendError(j)
    BY <2>2, AssetsCheckStep, AssetsBuildStep, AssetsPublishStep, AssetsSendErrorStep
  <2>3. QED
    BY <1>6, <2>1, <2>2 DEF Assets!JobStep
<1>7. QED
  BY <1>1, <1>2, <1>3, <1>4, <1>5, <1>6 DEF Assets!Next

\* The bookkeeping of the jobs and of what their indexes were built from.
THEOREM AssetsInvariant == Assets!Spec => []AssetsInv
<1>1. QED
  BY AssetsInitHolds, AssetsNextHolds, PTL DEF Assets!Spec

LEMMA AssetsInvIndexTrue == AssetsInv => Assets!BranchIndexTrue /\ Assets!LocalIndexTrue
<1> SUFFICES ASSUME AssetsInv, NEW j \in Assets!Jobs, assetsOutcome[j] = "ok"
             PROVE  /\ remote /\ j \notin returned => content[j] = want[j].gen.revision
                    /\ ~remote => content[j] \in assetsSince[j]
  BY DEF Assets!BranchIndexTrue, Assets!LocalIndexTrue
<1>1. remote /\ j \notin returned => content[j] = want[j].gen.revision
  BY DEF AssetsInv, AssetsBranch
<1>2. ~remote => content[j] \in assetsSince[j]
  BY DEF AssetsInv, AssetsLocal
<1>3. QED
  BY <1>1, <1>2

\* Only publication makes an outcome "ok".
LEMMA AssetsPublishes == ASSUME AssetsInv, Assets!Next, NEW j \in Assets!Jobs, assetsOutcome'[j] = "ok", assetsOutcome[j] = "none"
  PROVE Assets!Publish(j) /\ Assets!Publishable(j)
<1>1. assetsOutcome \in [Assets!Jobs -> {"none", "ok", "err"}]
  BY DEF AssetsInv, AssetsTypes
<1>2. assetsOutcome' # assetsOutcome
  OBVIOUS
<1>3. PICK k \in Assets!Jobs : Assets!Publish(k) \/ Assets!SendError(k)
  <2>1. ~(Assets!Edit \/ Assets!Discover \/ Assets!Refresh \/ Assets!RefreshEnd \/ Assets!PrepareLock \/ Assets!PrepareState \/ Assets!PrepareEnd)
    BY <1>2 DEF Assets!Edit, Assets!Discover, Assets!Refresh, Assets!RefreshEnd,
       Assets!PrepareLock, Assets!PrepareState, Assets!PrepareEnd
  <2>2. ~(Assets!Trim \/ Assets!Shutdown) /\ \A q \in Askers : ~(Assets!Start(q) \/ Assets!Leave(q))
    BY <1>2 DEF Assets!Trim, Assets!Shutdown, Assets!Start, Assets!Leave
  <2>3. \A k \in Assets!Jobs : ~(Assets!Acquire(k) \/ Assets!Cancel(k) \/ Assets!Permit(k) \/ Assets!TakeGuards(k) \/ Assets!Check(k) \/ Assets!Build(k))
    BY <1>2 DEF Assets!Acquire, Assets!Cancel, Assets!Permit, Assets!TakeGuards,
       Assets!Check, Assets!Build
  <2>4. QED
    BY <2>1, <2>2, <2>3 DEF Assets!Next, Assets!JobStep
<1>4. CASE Assets!SendError(k)
  <2>1. assetsOutcome' = [assetsOutcome EXCEPT ![k] = "err"]
    BY <1>4 DEF Assets!SendError
  <2>2. QED
    BY <1>1, <2>1
<1>5. CASE Assets!Publish(k)
  <2>1. Assets!Publishable(k) /\ assetsOutcome' = [assetsOutcome EXCEPT ![k] = "ok"]
    BY <1>2, <1>5 DEF Assets!Publish
  <2>2. k = j
    BY <1>1, <2>1
  <2>3. QED
    BY <1>5, <2>1, <2>2
<1>6. QED
  BY <1>3, <1>4, <1>5

LEMMA AssetsNextPublishedCurrent == AssetsInv /\ [Assets!Next]_(Assets!vars) => [Assets!PublishedCurrent]_(Assets!vars)
<1> SUFFICES ASSUME AssetsInv, Assets!Next, NEW j \in Assets!Jobs, assetsOutcome'[j] = "ok", assetsOutcome[j] = "none"
    PROVE assetsRunning = j /\ want[j].gen = Assets!Current /\ (remote => ~branch.repair /\ writing = Nobody)
  BY DEF Assets!PublishedCurrent
<1>1. Assets!Publish(j) /\ Assets!Publishable(j)
  BY AssetsPublishes
<1>2. assetsAt[j] = "publish" /\ j \notin assetsCanceled /\ want[j].gen = Assets!Current /\ (remote => ~branch.repair)
  BY <1>1 DEF Assets!Publish, Assets!Publishable, Assets!AsRequested
<1>3. assetsRunning = j
  BY <1>2 DEF AssetsInv, AssetsRegistered
<1>4. remote => writing = Nobody
  BY <1>2 DEF AssetsInv, AssetsGuarded
<1>5. QED
  BY <1>2, <1>3, <1>4

\* An index describes what it was asked for, unless the branch left the revision
\* and returned while the job built, and nothing it depends on had moved when it
\* was published: for any codes, revisions, queries and jobs.
THEOREM AssetsCorrect == Assets!Spec => AssetsTrue
<1>1. QED
  BY AssetsInvariant, AssetsInvIndexTrue, AssetsNextPublishedCurrent, PTL
  DEF Assets!PublishesCurrent, Assets!Spec, AssetsTrue
=============================================================================
