--------------------------- MODULE GitPoolProofs ---------------------------
(***************************************************************************)
(* Proofs about GitPool, for any number of branches, packages, readers,    *)
(* maintenance passes and objects, and any bound of the generation.        *)
(*                                                                         *)
(* The argument is one inductive invariant, IInv: each kind of step keeps  *)
(* each of its conjuncts.  The safety properties are conjuncts of it, and  *)
(* KeepRooted follows from it step by step.                                *)
(***************************************************************************)
EXTENDS GitPool, TLAPS

-----------------------------------------------------------------------------
(* What is left alone keeps its type, and how the lock state moves.        *)

LEMMA LockKept == LockOK /\ UNCHANGED lockVars => LockOK'
BY DEF LockOK, lockVars

LEMMA DiskKept == DiskOK /\ UNCHANGED diskVars => DiskOK'
BY DEF DiskOK, diskVars

LEMMA PinKept == PinOK /\ UNCHANGED pinVars => PinOK'
BY DEF PinOK, pinVars

LEMMA ReaderKept == ReaderOK /\ UNCHANGED readerVars => ReaderOK'
BY DEF ReaderOK, readerVars

LEMMA EmptyCapOK == EmptyCap \in Captured
BY DEF EmptyCap, Captured

LEMMA ReleaseOK == Release => LockOK'
BY EmptyCapOK DEF Release, LockOK, Phases

LEMMA GotoOK == ASSUME LockOK, NEW at \in Phases, Goto(at) PROVE LockOK'
BY DEF LockOK, Goto

LEMMA EndRebuildOK == LockOK /\ EndRebuild => LockOK'
BY ReleaseOK, GotoOK DEF EndRebuild, Phases

LEMMA AfterRecoverOK == LockOK /\ AfterRecover => LockOK'
BY EndRebuildOK, GotoOK DEF AfterRecover, Phases

LEMMA AddingOK ==
    ASSUME NEW s \in Store \cup {NoStore}, NEW more \in SUBSET Objects
    PROVE  Adding(Inited(s), more) \in Store
BY DEF Adding, Inited, NewStore, Store

LEMMA AddingAdds ==
    ASSUME NEW s \in Store \cup {NoStore}, NEW more \in SUBSET Objects
    PROVE  /\ more \subseteq Adding(Inited(s), more).objs
           /\ s # NoStore => s.objs \subseteq Adding(Inited(s), more).objs
           /\ Adding(Inited(s), more).complete <=> (s # NoStore /\ s.complete)
BY DEF Adding, Inited, NewStore, Store

LEMMA WithGidOK ==
    ASSUME NEW s \in Store \cup {NoStore}, NEW g \in Gids
    PROVE  /\ Inited(s) \in Store
           /\ WithGid(Inited(s), g) \in Store
BY DEF WithGid, Inited, NewStore, Store

LEMMA OpenedOK == DiskOK => Opened \in Retention \cup {NoHash, NoFile}
BY DEF DiskOK, Opened

LEMMA PinsOK == PinOK => Pins \in SUBSET Objects
BY DEF PinOK, Pins

LEMMA CapturePinsOK == LockOK /\ PinOK /\ CapturePins => LockOK'
<1> SUFFICES ASSUME LockOK, PinOK, CapturePins PROVE LockOK'
  OBVIOUS
<1>1. cap' \in Captured
  BY PinsOK, EmptyCapOK DEF CapturePins, EmptyCap, Captured
<1> QED
  BY <1>1 DEF CapturePins, LockOK, Phases

-----------------------------------------------------------------------------
(* Types.                                                                  *)

\* Recovery keeps every variable in its type.
LEMMA TypeRecover == ASSUME IInv, RecoverStep PROVE TypeOK'
<1> USE DEF IInv, TypeOK
<1>1. CASE RecoverNothing
  <2>1. LockOK'
    BY <1>1, AfterRecoverOK DEF RecoverNothing
  <2> QED
    BY <1>1, <2>1, DiskKept, PinKept, ReaderKept DEF RecoverNothing
<1>2. CASE RecoverDrop
  <2>1. LockOK'
    BY <1>2, AfterRecoverOK, LockKept DEF RecoverDrop
  <2>2. DiskOK'
    BY <1>2 DEF RecoverDrop, DiskOK, Store
  <2> QED
    BY <1>2, <2>1, <2>2, PinKept, ReaderKept DEF RecoverDrop
<1>3. CASE RecoverAside
  <2>1. DiskOK'
    BY <1>3 DEF RecoverAside, DiskOK
  <2> QED
    BY <1>3, <2>1, LockKept, PinKept, ReaderKept DEF RecoverAside
<1>4. CASE RecoverRename
  <2>1. LockOK'
    BY <1>4, AfterRecoverOK DEF RecoverRename
  <2>2. DiskOK'
    BY <1>4 DEF RecoverRename, DiskOK
  <2> QED
    BY <1>4, <2>1, <2>2, PinKept, ReaderKept DEF RecoverRename
<1> QED
  BY <1>1, <1>2, <1>3, <1>4 DEF RecoverStep

\* So does the turn of an acquisition.
LEMMA TypeAcquire == ASSUME IInv, NEW a \in Acquirers, AcquireStep(a) PROVE TypeOK'
<1> USE DEF IInv, TypeOK
<1>1. CASE Begin(a)
  <2>1. LockOK'
    BY <1>1 DEF Begin, LockOK, Lock, Phases, Actors
  <2> QED
    BY <1>1, <2>1, DiskKept, PinKept, ReaderKept DEF Begin
<1>2. CASE GitStart(a)
  <2>1. LockOK'
    BY <1>2, GotoOK DEF GitStart, Phases
  <2> QED
    BY <1>2, <2>1, DiskKept, PinKept, ReaderKept DEF GitStart
<1>3. CASE GitReady(a)
  <2>1. LockOK'
    BY <1>3, GotoOK DEF GitReady, Phases
  <2>2. DiskOK'
    BY <1>3, OpenedOK DEF GitReady, DiskOK
  <2> QED
    BY <1>3, <2>1, <2>2, PinKept, ReaderKept DEF GitReady
<1>4. CASE GitCapture(a)
  <2>1. LockOK'
    BY <1>4, CapturePinsOK DEF GitCapture
  <2>2. DiskOK'
    BY <1>4, OpenedOK DEF GitCapture, DiskOK
  <2> QED
    BY <1>4, <2>1, <2>2, PinKept, ReaderKept DEF GitCapture
<1>5. CASE GitJob(a)
  <2>1. LockOK'
    BY <1>5, GotoOK DEF GitJob, Phases
  <2>2. current' \in Store
    BY <1>5, AddingOK DEF GitJob, DiskOK
  <2>3. DiskOK'
    BY <1>5, <2>2 DEF GitJob, DiskOK
  <2>4. PinOK'
    BY <1>5 DEF GitJob, PinOK
  <2> QED
    BY <1>5, <2>1, <2>2, <2>3, <2>4, ReaderKept DEF GitJob
<1>6. CASE GitFail(a)
  <2>1. LockOK'
    BY <1>6, ReleaseOK DEF GitFail
  <2>2. current' \in Store \cup {NoStore}
    BY <1>6, AddingOK DEF GitFail, DiskOK
  <2>3. DiskOK'
    BY <1>6, <2>2 DEF GitFail, DiskOK
  <2> QED
    BY <1>6, <2>1, <2>2, <2>3, PinKept, ReaderKept DEF GitFail
<1>7. CASE EndTurn(a)
  <2>1. LockOK'
    BY <1>7, ReleaseOK DEF EndTurn
  <2> QED
    BY <1>7, <2>1, DiskKept, PinKept, ReaderKept DEF EndTurn
<1>8. CASE Unpin(a)
  <2>1. PinOK'
    BY <1>8 DEF Unpin, PinOK
  <2> QED
    BY <1>8, <2>1, LockKept, DiskKept, ReaderKept DEF Unpin
<1> QED
  BY <1>1, <1>2, <1>3, <1>4, <1>5, <1>6, <1>7, <1>8 DEF AcquireStep

\* So does what happens to selectors, with or without the mutex.
LEMMA TypeSelector == ASSUME IInv, NEW b \in Branches, SelectorStep(b) PROVE TypeOK'
<1> USE DEF IInv, TypeOK
<1>1. CASE Publish(b)
  <2>1. PinOK'
    BY <1>1 DEF Publish, PinOK, Acquirers
  <2> QED
    BY <1>1, <2>1, LockKept, DiskKept, ReaderKept DEF Publish
<1>2. CASE Retire(b)
  <2>1. PinOK'
    BY <1>2 DEF Retire, PinOK
  <2> QED
    BY <1>2, <2>1, LockKept, DiskKept, ReaderKept DEF Retire
<1>3. CASE CaptureSelector(b)
  <2>1. cap' \in Captured
    BY <1>3 DEF CaptureSelector, LockOK, PinOK, Captured
  <2>2. LockOK'
    BY <1>3, <2>1 DEF CaptureSelector, LockOK
  <2> QED
    BY <1>3, <2>1, <2>2, DiskKept, PinKept, ReaderKept DEF CaptureSelector
<1> QED
  BY <1>1, <1>2, <1>3 DEF SelectorStep

\* So do the operations of a reader.
LEMMA TypeReader == ASSUME IInv, NEW r \in Readers, ReaderStep(r) PROVE TypeOK'
<1> USE DEF IInv, TypeOK
<1>1. CASE OpenLock(r)
  <2>1. LockOK'
    BY <1>1 DEF OpenLock, LockOK, Lock, Phases, Actors
  <2> QED
    BY <1>1, <2>1, DiskKept, PinKept, ReaderKept DEF OpenLock
<1>2. CASE OpenView(r)
  <2>1. LockOK'
    BY <1>2, ReleaseOK DEF OpenView, OpenViewSweeping
  <2>2. current' \in Store /\ history' \in Coverage \cup {NoFile}
    BY <1>2, WithGidOK DEF OpenView, OpenViewSweeping, DiskOK, Coverage
  <2>3. DiskOK'
    BY <1>2, <2>2, OpenedOK DEF OpenView, OpenViewSweeping, DiskOK
  <2>4. current'.objs \in SUBSET Objects
    BY <1>2, <2>2 DEF OpenView, Store
  <2>5. ReaderOK'
    BY <1>2, <2>4 DEF OpenView, OpenViewSweeping, ReaderOK
  <2> QED
    BY <1>2, <2>1, <2>2, <2>3, <2>4, <2>5, PinKept DEF OpenView, OpenViewSweeping
<1>3. CASE OpenFail(r)
  <2>1. LockOK'
    BY <1>3, ReleaseOK DEF OpenFail
  <2>2. current' \in Store /\ history' \in Coverage \cup {NoFile}
    BY <1>3, WithGidOK DEF OpenFail, DiskOK, Coverage
  <2>3. DiskOK'
    BY <1>3, <2>2, OpenedOK DEF OpenFail, DiskOK
  <2>4. ReaderOK'
    BY <1>3 DEF OpenFail, ReaderOK
  <2> QED
    BY <1>3, <2>1, <2>2, <2>3, <2>4, PinKept DEF OpenFail
<1>4. CASE FetchLock(r)
  <2>1. LockOK'
    BY <1>4 DEF FetchLock, LockOK, Lock, Phases, Actors
  <2> QED
    BY <1>4, <2>1, DiskKept, PinKept, ReaderKept DEF FetchLock
<1>5. CASE Fetch(r)
  <2>1. LockOK'
    BY <1>5, ReleaseOK DEF Fetch
  <2>2. current' \in Store
    BY <1>5 DEF Fetch, DiskOK, Adding, Store
  <2>3. current'.objs \in SUBSET Objects /\ view[r] \in SUBSET Objects
    BY <1>5, <2>2 DEF Fetch, Store, LeaseReadable, ReaderOK
  <2>4. DiskOK'
    BY <1>5, <2>2 DEF Fetch, DiskOK
  <2>5. ReaderOK'
    BY <1>5, <2>3 DEF Fetch, ReaderOK
  <2> QED
    BY <1>5, <2>1, <2>2, <2>3, <2>4, <2>5, PinKept DEF Fetch
<1>6. CASE FetchFail(r)
  <2>1. LockOK'
    BY <1>6, ReleaseOK DEF FetchFail
  <2>2. current' \in Store
    BY <1>6 DEF FetchFail, DiskOK, Adding, Store
  <2>3. current'.objs \in SUBSET Objects /\ view[r] \in SUBSET Objects
    BY <1>6, <2>2 DEF FetchFail, Store, LeaseReadable, ReaderOK
  <2>4. DiskOK'
    BY <1>6, <2>2 DEF FetchFail, DiskOK
  <2>5. ReaderOK'
    BY <1>6, <2>3 DEF FetchFail, ReaderOK
  <2> QED
    BY <1>6, <2>1, <2>2, <2>3, <2>4, <2>5, PinKept DEF FetchFail
<1>7. CASE Retain(r)
  <2>1. view[r] \in SUBSET Objects
    BY <1>7 DEF Retain, LeaseReadable, ReaderOK
  <2>2. ReaderOK'
    BY <1>7, <2>1 DEF Retain, ReaderOK
  <2> QED
    BY <1>7, <2>1, <2>2, LockKept, DiskKept, PinKept DEF Retain
<1>8. CASE PublishLink(r)
  <2>1. LockOK'
    BY <1>8 DEF PublishLink, LockOK, Lock, Phases, Actors
  <2>2. view[r] \in SUBSET Objects
    BY <1>8 DEF PublishLink, LeaseReadable, ReaderOK
  <2>3. current' \in Store
    BY <1>8, <2>2, AddingOK DEF PublishLink, DiskOK
  <2>4. DiskOK'
    BY <1>8, <2>3 DEF PublishLink, DiskOK
  <2> QED
    BY <1>8, <2>1, <2>2, <2>3, <2>4, PinKept, ReaderKept DEF PublishLink
<1>9. CASE PublishFail(r)
  <2>1. view[r] \in SUBSET Objects
    BY <1>9 DEF PublishFail, LeaseReadable, ReaderOK
  <2>2. current' \in Store
    BY <1>9, <2>1, AddingOK DEF PublishFail, DiskOK
  <2>3. DiskOK'
    BY <1>9, <2>2 DEF PublishFail, DiskOK
  <2> QED
    BY <1>9, <2>1, <2>2, <2>3, LockKept, PinKept, ReaderKept DEF PublishFail
<1>10. CASE PublishCoverage(r)
  <2>1. LockOK'
    BY <1>10, ReleaseOK DEF PublishCoverage
  <2>2. current \in Store
    BY <1>10 DEF PublishCoverage, DiskOK, OwnerInv
  <2>3. current' \in Store
    BY <1>10, <2>2 DEF PublishCoverage, Store, WithGid
  <2>4. Covered \cup held[r] \in SUBSET Objects
    BY <1>10 DEF PublishCoverage, Covered, ValidCoverage, DiskOK, Coverage, ReaderOK
  <2>5. history' \in Coverage
    BY <1>10, <2>4 DEF PublishCoverage, Coverage
  <2>6. DiskOK'
    BY <1>10, <2>3, <2>5 DEF PublishCoverage, DiskOK
  <2> QED
    BY <1>10, <2>1, <2>2, <2>3, <2>4, <2>5, <2>6, PinKept, ReaderKept DEF PublishCoverage
<1>11. CASE Close(r)
  <2>1. ReaderOK'
    BY <1>11 DEF Close, ReaderOK
  <2> QED
    BY <1>11, <2>1, LockKept, DiskKept, PinKept DEF Close
<1> QED
  BY <1>1, <1>2, <1>3, <1>4, <1>5, <1>6, <1>7, <1>8, <1>9, <1>10, <1>11 DEF ReaderStep

\* So does a maintenance pass.
LEMMA TypeCollector == ASSUME IInv, NEW c \in Collectors, CollectorStep(c) PROVE TypeOK'
<1> USE DEF IInv, TypeOK
<1>1. CASE Capture(c)
  <2>1. snap' \in [Collectors -> Snapshots \cup {NoSnapshot}]
    BY <1>1, PinsOK DEF Capture, Snapshots
  <2> QED
    BY <1>1, <2>1, LockKept, DiskKept, PinKept, ReaderKept DEF Capture
<1>2. CASE \E b \in Branches : Visit(c, b)
  <2> PICK b \in Branches : Visit(c, b)
    BY <1>2
  <2>1. snap[c] \in Snapshots /\ persisted[b] \in SUBSET Objects
    BY  DEF Visit, PinOK
  <2>2. snap' \in [Collectors -> Snapshots \cup {NoSnapshot}]
    BY <2>1 DEF Visit, Snapshots
  <2> QED
    BY <2>1, <2>2, LockKept, DiskKept, PinKept, ReaderKept DEF Visit
<1>3. CASE Skip(c)
  <2>1. snap' \in [Collectors -> Snapshots \cup {NoSnapshot}]
    BY <1>3 DEF Skip
  <2> QED
    BY <1>3, <2>1, LockKept, DiskKept, PinKept, ReaderKept DEF Skip
<1>4. CASE Maintain(c)
  <2>1. LockOK'
    BY <1>4 DEF Maintain, LockOK, Lock, Phases, Actors
  <2> QED
    BY <1>4, <2>1, DiskKept, PinKept, ReaderKept DEF Maintain
<1>5. CASE Survey(c)
  <2>1. LockOK'
    BY <1>5, CapturePinsOK, EmptyCapOK DEF Survey, SurveyIf, LockOK, Snapshots, Captured, EmptyCap, Phases
  <2>2. DiskOK'
    BY <1>5, OpenedOK DEF Survey, SurveyIf, DiskOK
  <2>3. snap' \in [Collectors -> Snapshots \cup {NoSnapshot}]
    BY <1>5 DEF Survey, SurveyIf
  <2> QED
    BY <1>5, <2>1, <2>2, <2>3, PinKept, ReaderKept DEF Survey, SurveyIf
<1> QED
  BY <1>1, <1>2, <1>3, <1>4, <1>5 DEF CollectorStep

\* So does a rebuild, or a removal.
LEMMA TypeRebuild == ASSUME IInv, RebuildStep PROVE TypeOK'
<1> USE DEF IInv, TypeOK
<1>1. CASE CaptureHistory
  <2>1. ReaderRoots \cup Covered \in SUBSET Objects
    BY <1>1 DEF CaptureHistory, ReaderRoots, ReaderOK, Covered, ValidCoverage, DiskOK, Coverage
  <2>2. LockOK'
    BY <1>1, <2>1 DEF CaptureHistory, CaptureHistoryOf, LockOK, Captured, Phases, ValidCoverage
  <2> QED
    BY <1>1, <2>1, <2>2, DiskKept, PinKept, ReaderKept DEF CaptureHistory, CaptureHistoryOf
<1>2. CASE RemoveBegin
  <2>1. LockOK'
    BY <1>2, GotoOK DEF RemoveBegin, Phases
  <2> QED
    BY <1>2, <2>1, DiskKept, PinKept, ReaderKept DEF RemoveBegin
<1>3. CASE RemovePart
  <2>1. ASSUME UNCHANGED current PROVE current' \in Store \cup {NoStore}
    BY <2>1 DEF DiskOK
  <2>2. ASSUME current # NoStore,
               NEW part \in SUBSET current.objs, NEW marker \in {current.complete, FALSE},
               NEW g \in {current.gid, NoGid},
               current' = [objs |-> part, complete |-> marker, gid |-> g]
        PROVE  current' \in Store
    BY <2>2 DEF DiskOK, Store
  <2>3. DiskOK'
    BY <1>3, <2>1, <2>2 DEF RemovePart, DiskOK
  <2> QED
    BY <1>3, <2>3, LockKept, PinKept, ReaderKept DEF RemovePart
<1>4. CASE RemoveAll
  <2>1. LockOK'
    BY <1>4, ReleaseOK DEF RemoveAll
  <2>2. DiskOK'
    BY <1>4 DEF RemoveAll, DiskOK
  <2>3. ReaderOK'
    BY <1>4 DEF RemoveAll, ReaderOK
  <2> QED
    BY <1>4, <2>1, <2>2, <2>3, PinKept DEF RemoveAll
<1>5. CASE RebuildSkip
  <2>1. LockOK'
    BY <1>5, EndRebuildOK DEF RebuildSkip
  <2> QED
    BY <1>5, <2>1, DiskKept, PinKept, ReaderKept DEF RebuildSkip
<1>6. CASE Rebuild
  <2>1. LockOK'
    BY <1>6, GotoOK DEF Rebuild, Phases
  <2>2. staged' \in Store
    BY <1>6 DEF Rebuild, LockOK, DiskOK, FreshGid, Captured, Store
  <2>3. DiskOK'
    BY <1>6, <2>2 DEF Rebuild, DiskOK
  <2> QED
    BY <1>6, <2>1, <2>2, <2>3, PinKept, ReaderKept DEF Rebuild
<1>7. CASE RebuildFail
  <2>1. LockOK'
    BY <1>7, GotoOK DEF RebuildFail, Phases
  <2> QED
    BY <1>7, <2>1, DiskKept, PinKept, ReaderKept DEF RebuildFail
<1>8. CASE SwapOut
  <2>1. LockOK'
    BY <1>8, GotoOK DEF SwapOut, Phases
  <2>2. DiskOK'
    BY <1>8 DEF SwapOut, DiskOK
  <2> QED
    BY <1>8, <2>1, <2>2, PinKept, ReaderKept DEF SwapOut
<1>9. CASE SwapIn
  <2>1. LockOK'
    BY <1>9, GotoOK DEF SwapIn, Phases
  <2>2. DiskOK'
    BY <1>9 DEF SwapIn, DiskOK
  <2> QED
    BY <1>9, <2>1, <2>2, PinKept, ReaderKept DEF SwapIn
<1>10. CASE SwapInFail
  <2>1. LockOK'
    BY <1>10, GotoOK DEF SwapInFail, Phases
  <2>2. DiskOK'
    BY <1>10 DEF SwapInFail, DiskOK
  <2> QED
    BY <1>10, <2>1, <2>2, PinKept, ReaderKept DEF SwapInFail
<1>11. CASE DropPrevious
  <2>1. LockOK'
    BY <1>11, GotoOK DEF DropPrevious, Phases
  <2>2. previous \in Store
    BY <1>11 DEF DropPrevious, DiskInv, DiskOK
  <2>3. DiskOK'
    BY <1>11, <2>2 DEF DropPrevious, DiskOK, Store
  <2> QED
    BY <1>11, <2>1, <2>2, <2>3, PinKept, ReaderKept DEF DropPrevious
<1>12. CASE Rewrite
  <2>1. LockOK'
    BY <1>12, GotoOK DEF Rewrite, Phases
  <2>2. history' \in Coverage \cup {NoFile}
    BY <1>12 DEF Rewrite, CarryInv, GidInv, DiskInv, DiskOK, Coverage, Store
  <2>3. DiskOK'
    BY <1>12, <2>2 DEF Rewrite, DiskOK
  <2> QED
    BY <1>12, <2>1, <2>2, <2>3, PinKept, ReaderKept DEF Rewrite
<1>13. CASE RewriteFail
  <2>1. LockOK'
    BY <1>13, GotoOK DEF RewriteFail, Phases
  <2> QED
    BY <1>13, <2>1, DiskKept, PinKept, ReaderKept DEF RewriteFail
<1>14. CASE Record
  <2>1. LockOK'
    BY <1>14, EndRebuildOK DEF Record
  <2>2. DiskOK'
    BY <1>14 DEF Record, LockOK, DiskOK, RetentionHash, Captured, Retention
  <2> QED
    BY <1>14, <2>1, <2>2, PinKept, ReaderKept DEF Record
<1> QED
  BY <1>1, <1>2, <1>3, <1>4, <1>5, <1>6, <1>7, <1>8, <1>9, <1>10, <1>11, <1>12, <1>13, <1>14 DEF RebuildStep

\* So do eviction, a failure, a crash, and forgetting the pool.
LEMMA TypeOther == ASSUME IInv, EvictHistory \/ Abort \/ Crash \/ Forget PROVE TypeOK'
<1> USE DEF IInv, TypeOK
<1>1. CASE EvictHistory
  <2>1. DiskOK'
    BY <1>1 DEF EvictHistory, DiskOK
  <2> QED
    BY <1>1, <2>1, LockKept, PinKept, ReaderKept DEF EvictHistory
<1>2. CASE Abort
  <2>1. snap' \in [Collectors -> Snapshots \cup {NoSnapshot}]
    BY <1>2 DEF Abort
  <2> QED
    BY <1>2, <2>1, ReleaseOK, DiskKept, PinKept, ReaderKept DEF Abort
<1>3. CASE Crash
  <2>1. DiskOK' /\ PinOK' /\ ReaderOK'
    BY <1>3 DEF Crash, DiskOK, PinOK, ReaderOK
  <2>2. snap' \in [Collectors -> Snapshots \cup {NoSnapshot}] /\ gen' \in Nat
    BY <1>3 DEF Crash
  <2> QED
    BY <1>3, <2>1, <2>2, ReleaseOK DEF Crash
<1>4. CASE Forget
  BY <1>4, LockKept, DiskKept, PinKept, ReaderKept DEF Forget, ForgetUnless
<1> QED
  BY <1>1, <1>2, <1>3, <1>4

-----------------------------------------------------------------------------
(* The inductive step, one lemma per kind of step.                         *)

USE DEF lockVars, diskVars, pinVars, readerVars

\* recover() keeps the invariant: what it restores is what it lost nothing of.
LEMMA InvRecover == ASSUME IInv, RecoverStep PROVE IInv'
<1>1. TypeOK'
  BY TypeRecover
<1>2. CASE RecoverNothing
  <2>1. OwnerInv' /\ DiskInv'
    BY <1>2 DEF RecoverNothing, IInv, AfterRecover, Goto, EndRebuild, Release, OwnerInv, DiskInv
  <2>2. CaptureInv' /\ RebuildInv'
    BY <1>2 DEF RecoverNothing, IInv, AfterRecover, Goto, EndRebuild, Release, CaptureInv,
       RebuildInv
  <2>3. CarryInv' /\ GidInv' /\ BackupInv' /\ HistoryCovered'
    BY <1>2 DEF RecoverNothing, IInv, AfterRecover, Goto, EndRebuild, Release, CarryInv,
       GidInv, HistoryCovered, ValidCoverage, BackupInv
  <2>4. SnapshotInv' /\ SnapshotCovers'
    BY <1>2, ActorAssumption DEF RecoverNothing, IInv, AfterRecover, Goto, EndRebuild,
       Release, Actors, SnapshotInv, SnapshotCovers, Pins
  <2>5. LeaseReadable'
    BY <1>2 DEF RecoverNothing, IInv, LeaseReadable
  <2> QED
    BY <1>1, <2>1, <2>2, <2>3, <2>4, <2>5 DEF IInv
<1>3. CASE RecoverDrop
  <2>1. OwnerInv' /\ DiskInv'
    BY <1>3 DEF RecoverDrop, IInv, AfterRecover, Goto, EndRebuild, Release, Recovering,
       OwnerInv, DiskInv
  <2>2. CaptureInv' /\ RebuildInv'
    BY <1>3 DEF RecoverDrop, IInv, AfterRecover, Goto, EndRebuild, Release, DiskInv,
       CaptureInv, Pins, RebuildInv
  <2>3. CarryInv' /\ GidInv' /\ BackupInv' /\ HistoryCovered'
    BY <1>3 DEF RecoverDrop, IInv, AfterRecover, Goto, EndRebuild, Release, CarryInv, GidInv,
       HistoryCovered, ValidCoverage, TypeOK, BackupInv, DiskOK, Store
  <2>4. SnapshotInv' /\ SnapshotCovers'
    BY <1>3, ActorAssumption DEF RecoverDrop, IInv, AfterRecover, Goto, EndRebuild, Release,
       Actors, SnapshotInv, SnapshotCovers, Pins
  <2>5. LeaseReadable'
    BY <1>3 DEF RecoverDrop, IInv, LeaseReadable
  <2> QED
    BY <1>1, <2>1, <2>2, <2>3, <2>4, <2>5 DEF IInv
<1>4. CASE RecoverAside
  <2>1. OwnerInv' /\ DiskInv'
    BY <1>4 DEF RecoverAside, IInv, Recovering, OwnerInv, DiskInv
  <2>2. CaptureInv' /\ RebuildInv'
    BY <1>4 DEF RecoverAside, IInv, DiskInv, CaptureInv, RebuildInv
  <2>3. CarryInv' /\ GidInv' /\ BackupInv' /\ HistoryCovered'
    BY <1>4 DEF RecoverAside, IInv, DiskInv, CarryInv, GidInv, HistoryCovered, ValidCoverage,
       BackupInv
  <2>4. SnapshotInv' /\ SnapshotCovers'
    BY <1>4 DEF RecoverAside, IInv, SnapshotInv, SnapshotCovers, Pins
  <2>5. LeaseReadable'
    BY <1>4 DEF RecoverAside, IInv, LeaseReadable
  <2> QED
    BY <1>1, <2>1, <2>2, <2>3, <2>4, <2>5 DEF IInv
<1>5. CASE RecoverRename
  <2>1. OwnerInv' /\ DiskInv'
    BY <1>5 DEF RecoverRename, IInv, AfterRecover, Goto, EndRebuild, Release, OwnerInv, DiskInv
  <2>2. CaptureInv' /\ RebuildInv'
    BY <1>5 DEF RecoverRename, IInv, AfterRecover, Goto, EndRebuild, Release, CaptureInv,
       RebuildInv
  <2>3. CarryInv' /\ GidInv' /\ BackupInv' /\ HistoryCovered'
    BY <1>5 DEF RecoverRename, IInv, AfterRecover, Goto, EndRebuild, Release, CarryInv,
       GidInv, HistoryCovered, ValidCoverage, BackupInv
  <2>4. SnapshotInv' /\ SnapshotCovers'
    BY <1>5, ActorAssumption DEF RecoverRename, IInv, AfterRecover, Goto, EndRebuild,
       Release, Actors, SnapshotInv, SnapshotCovers, Pins
  <2>5. LeaseReadable'
    BY <1>5 DEF RecoverRename, IInv, LeaseReadable
  <2> QED
    BY <1>1, <2>1, <2>2, <2>3, <2>4, <2>5 DEF IInv
<1> QED
  BY <1>2, <1>3, <1>4, <1>5 DEF RecoverStep

\* An acquisition only adds to the store, and outdates every snapshot first.
LEMMA InvAcquire == ASSUME IInv, NEW a \in Acquirers, AcquireStep(a) PROVE IInv'
<1>1. TypeOK'
  BY TypeAcquire
<1>2. CASE Begin(a)
  <2>1. OwnerInv' /\ DiskInv'
    BY <1>2, ActorAssumption DEF Begin, IInv, Lock, Actors, OwnerInv, DiskInv
  <2>2. CaptureInv' /\ RebuildInv'
    BY <1>2 DEF Begin, IInv, Lock, CaptureInv, RebuildInv
  <2>3. CarryInv' /\ GidInv' /\ BackupInv' /\ HistoryCovered'
    BY <1>2 DEF Begin, IInv, Lock, CarryInv, GidInv, HistoryCovered, ValidCoverage, BackupInv
  <2>4. SnapshotInv' /\ SnapshotCovers'
    BY <1>2, ActorAssumption DEF Begin, IInv, Lock, SnapshotInv, SnapshotCovers, Pins
  <2>5. LeaseReadable'
    BY <1>2 DEF Begin, IInv, LeaseReadable
  <2> QED
    BY <1>1, <2>1, <2>2, <2>3, <2>4, <2>5 DEF IInv
<1>3. CASE GitStart(a)
  <2>1. OwnerInv' /\ DiskInv'
    BY <1>3 DEF GitStart, IInv, Goto, OwnerInv, DiskInv
  <2>2. CaptureInv' /\ RebuildInv'
    BY <1>3 DEF GitStart, IInv, Goto, CaptureInv, RebuildInv
  <2>3. CarryInv' /\ GidInv' /\ BackupInv' /\ HistoryCovered'
    BY <1>3 DEF GitStart, IInv, Goto, CarryInv, GidInv, HistoryCovered, ValidCoverage, BackupInv
  <2>4. SnapshotInv' /\ SnapshotCovers'
    BY <1>3 DEF GitStart, IInv, Goto, SnapshotInv, TypeOK, SnapshotCovers, Snapshots
  <2>5. LeaseReadable'
    BY <1>3 DEF GitStart, IInv, LeaseReadable
  <2> QED
    BY <1>1, <2>1, <2>2, <2>3, <2>4, <2>5 DEF IInv
<1>4. CASE GitReady(a)
  <2>1. OwnerInv' /\ DiskInv'
    BY <1>4 DEF GitReady, IInv, Goto, OwnerInv, DiskInv
  <2>2. CaptureInv' /\ RebuildInv'
    BY <1>4 DEF GitReady, IInv, Goto, CaptureInv, RebuildInv
  <2>3. CarryInv' /\ GidInv' /\ BackupInv' /\ HistoryCovered'
    BY <1>4 DEF GitReady, IInv, Goto, CarryInv, GidInv, HistoryCovered, ValidCoverage, BackupInv
  <2>4. SnapshotInv' /\ SnapshotCovers'
    BY <1>4 DEF GitReady, IInv, Goto, SnapshotInv, SnapshotCovers, Pins
  <2>5. LeaseReadable'
    BY <1>4 DEF GitReady, IInv, LeaseReadable
  <2> QED
    BY <1>1, <2>1, <2>2, <2>3, <2>4, <2>5 DEF IInv
<1>5. CASE GitCapture(a)
  <2>1. OwnerInv' /\ DiskInv'
    BY <1>5 DEF GitCapture, IInv, CapturePins, OwnerInv, DiskInv
  <2>2. CaptureInv' /\ RebuildInv'
    BY <1>5 DEF GitCapture, IInv, CapturePins, CaptureInv, Pins, RebuildInv
  <2>3. CarryInv' /\ GidInv' /\ BackupInv' /\ HistoryCovered'
    BY <1>5 DEF GitCapture, IInv, CapturePins, CarryInv, GidInv, HistoryCovered,
       ValidCoverage, BackupInv
  <2>4. SnapshotInv' /\ SnapshotCovers'
    BY <1>5 DEF GitCapture, IInv, CapturePins, SnapshotInv, SnapshotCovers, Pins
  <2>5. LeaseReadable'
    BY <1>5 DEF GitCapture, IInv, LeaseReadable
  <2> QED
    BY <1>1, <2>1, <2>2, <2>3, <2>4, <2>5 DEF IInv
<1>6. CASE GitJob(a)
  <2>1. OwnerInv' /\ DiskInv'
    BY <1>6 DEF GitJob, IInv, Goto, OwnerInv, DiskInv
  <2>2. CaptureInv' /\ RebuildInv'
    BY <1>6 DEF GitJob, IInv, Goto, CaptureInv, RebuildInv
  <2>3. CarryInv' /\ GidInv' /\ BackupInv' /\ HistoryCovered'
    BY <1>6, AbsenceAssumption DEF GitJob, IInv, Goto, Adding, Inited, NewStore, CarryInv,
       GidInv, HistoryCovered, ValidCoverage, TypeOK, BackupInv, DiskOK, Store, Coverage
  <2>4. SnapshotInv' /\ SnapshotCovers'
    BY <1>6 DEF GitJob, IInv, Goto, SnapshotInv, TypeOK, SnapshotCovers
  <2>5. LeaseReadable'
    BY <1>6 DEF GitJob, IInv, LeaseReadable
  <2> QED
    BY <1>1, <2>1, <2>2, <2>3, <2>4, <2>5 DEF IInv
<1>7. CASE GitFail(a)
  <2>1. OwnerInv' /\ DiskInv'
    BY <1>7 DEF GitFail, IInv, Release, OwnerInv, DiskInv
  <2>2. CaptureInv' /\ RebuildInv'
    BY <1>7 DEF GitFail, IInv, Release, CaptureInv, RebuildInv
  <2>3. CarryInv' /\ GidInv' /\ BackupInv' /\ HistoryCovered'
    BY <1>7, AbsenceAssumption DEF GitFail, IInv, Release, Adding, Inited, NewStore,
       CarryInv, GidInv, HistoryCovered, ValidCoverage, TypeOK, BackupInv, DiskOK, Store,
       Coverage
  <2>4. SnapshotInv' /\ SnapshotCovers'
    BY <1>7, ActorAssumption DEF GitFail, IInv, Release, Actors, SnapshotInv, SnapshotCovers,
       Pins
  <2>5. LeaseReadable'
    BY <1>7 DEF GitFail, IInv, LeaseReadable
  <2> QED
    BY <1>1, <2>1, <2>2, <2>3, <2>4, <2>5 DEF IInv
<1>8. CASE EndTurn(a)
  <2>1. OwnerInv' /\ DiskInv'
    BY <1>8 DEF EndTurn, IInv, Release, OwnerInv, DiskInv
  <2>2. CaptureInv' /\ RebuildInv'
    BY <1>8 DEF EndTurn, IInv, Release, CaptureInv, RebuildInv
  <2>3. CarryInv' /\ GidInv' /\ BackupInv' /\ HistoryCovered'
    BY <1>8 DEF EndTurn, IInv, Release, CarryInv, GidInv, HistoryCovered, ValidCoverage,
       BackupInv
  <2>4. SnapshotInv' /\ SnapshotCovers'
    BY <1>8, ActorAssumption DEF EndTurn, IInv, Release, Actors, SnapshotInv, SnapshotCovers,
       Pins
  <2>5. LeaseReadable'
    BY <1>8 DEF EndTurn, IInv, LeaseReadable
  <2> QED
    BY <1>1, <2>1, <2>2, <2>3, <2>4, <2>5 DEF IInv
<1>9. CASE Unpin(a)
  <2>1. OwnerInv' /\ DiskInv'
    BY <1>9 DEF Unpin, IInv, OwnerInv, DiskInv, Active
  <2>2. CaptureInv' /\ RebuildInv'
    BY <1>9 DEF Unpin, IInv, CaptureInv, Pins, RebuildInv
  <2>3. CarryInv' /\ GidInv' /\ BackupInv' /\ HistoryCovered'
    BY <1>9 DEF Unpin, IInv, CarryInv, GidInv, HistoryCovered, ValidCoverage, BackupInv
  <2>4. SnapshotInv' /\ SnapshotCovers'
    BY <1>9 DEF Unpin, IInv, SnapshotInv, SnapshotCovers, Pins
  <2>5. LeaseReadable'
    BY <1>9 DEF Unpin, IInv, LeaseReadable
  <2> QED
    BY <1>1, <2>1, <2>2, <2>3, <2>4, <2>5 DEF IInv
<1> QED
  BY <1>2, <1>3, <1>4, <1>5, <1>6, <1>7, <1>8, <1>9 DEF AcquireStep

\* A selector is published out of a live pin, so what covers the pins covers it.
LEMMA InvSelector == ASSUME IInv, NEW b \in Branches, SelectorStep(b) PROVE IInv'
<1>1. TypeOK'
  BY TypeSelector
<1>2. CASE Publish(b)
  <2>1. OwnerInv' /\ DiskInv'
    BY <1>2 DEF Publish, IInv, OwnerInv, DiskInv, Active
  <2>2. CaptureInv' /\ RebuildInv'
    BY <1>2 DEF Publish, IInv, Acquirers, CaptureInv, Pins, RebuildInv
  <2>3. CarryInv' /\ GidInv' /\ BackupInv' /\ HistoryCovered'
    BY <1>2 DEF Publish, IInv, CarryInv, GidInv, HistoryCovered, ValidCoverage, BackupInv
  <2>4. SnapshotInv' /\ SnapshotCovers'
    BY <1>2 DEF Publish, IInv, Acquirers, SnapshotInv, SnapshotCovers, Pins
  <2>5. LeaseReadable'
    BY <1>2 DEF Publish, IInv, LeaseReadable
  <2> QED
    BY <1>1, <2>1, <2>2, <2>3, <2>4, <2>5 DEF IInv
<1>3. CASE Retire(b)
  <2>1. OwnerInv' /\ DiskInv'
    BY <1>3 DEF Retire, IInv, OwnerInv, DiskInv, Active
  <2>2. CaptureInv' /\ RebuildInv'
    BY <1>3 DEF Retire, IInv, CaptureInv, Pins, RebuildInv
  <2>3. CarryInv' /\ GidInv' /\ BackupInv' /\ HistoryCovered'
    BY <1>3 DEF Retire, IInv, CarryInv, GidInv, HistoryCovered, ValidCoverage, BackupInv
  <2>4. SnapshotInv' /\ SnapshotCovers'
    BY <1>3 DEF Retire, IInv, SnapshotInv, SnapshotCovers, Pins
  <2>5. LeaseReadable'
    BY <1>3 DEF Retire, IInv, LeaseReadable
  <2> QED
    BY <1>1, <2>1, <2>2, <2>3, <2>4, <2>5 DEF IInv
<1>4. CASE CaptureSelector(b)
  <2>1. OwnerInv' /\ DiskInv'
    BY <1>4 DEF CaptureSelector, IInv, OwnerInv, DiskInv
  <2>2. CaptureInv' /\ RebuildInv'
    BY <1>4 DEF CaptureSelector, IInv, CaptureInv, Pins, RebuildInv
  <2>3. CarryInv' /\ GidInv' /\ BackupInv' /\ HistoryCovered'
    BY <1>4 DEF CaptureSelector, IInv, CarryInv, GidInv, HistoryCovered, ValidCoverage,
       BackupInv
  <2>4. SnapshotInv' /\ SnapshotCovers'
    BY <1>4 DEF CaptureSelector, IInv, SnapshotInv, SnapshotCovers, Pins
  <2>5. LeaseReadable'
    BY <1>4 DEF CaptureSelector, IInv, LeaseReadable
  <2> QED
    BY <1>1, <2>1, <2>2, <2>3, <2>4, <2>5 DEF IInv
<1> QED
  BY <1>2, <1>3, <1>4 DEF SelectorStep

\* A reader only adds to the store, and claims what it has linked back.
LEMMA InvReader == ASSUME IInv, NEW r \in Readers, ReaderStep(r) PROVE IInv'
<1>1. TypeOK'
  BY TypeReader
<1>2. CASE OpenLock(r)
  <2>1. OwnerInv' /\ DiskInv'
    BY <1>2, ActorAssumption DEF OpenLock, IInv, Lock, Actors, OwnerInv, DiskInv
  <2>2. CaptureInv' /\ RebuildInv'
    BY <1>2 DEF OpenLock, IInv, Lock, CaptureInv, RebuildInv
  <2>3. CarryInv' /\ GidInv' /\ BackupInv' /\ HistoryCovered'
    BY <1>2 DEF OpenLock, IInv, Lock, CarryInv, GidInv, HistoryCovered, ValidCoverage, BackupInv
  <2>4. SnapshotInv' /\ SnapshotCovers'
    BY <1>2, ActorAssumption DEF OpenLock, IInv, Lock, SnapshotInv, SnapshotCovers, Pins
  <2>5. LeaseReadable'
    BY <1>2 DEF OpenLock, IInv, LeaseReadable
  <2> QED
    BY <1>1, <2>1, <2>2, <2>3, <2>4, <2>5 DEF IInv
<1>3. CASE OpenView(r)
  <2>1. OwnerInv' /\ DiskInv'
    BY <1>3 DEF OpenView, IInv, OpenViewSweeping, Release, OwnerInv, DiskInv
  <2>2. CaptureInv' /\ RebuildInv'
    BY <1>3 DEF OpenView, IInv, OpenViewSweeping, Release, CaptureInv, RebuildInv
  <2>3. CarryInv' /\ GidInv' /\ BackupInv' /\ HistoryCovered'
    BY <1>3 DEF OpenView, IInv, OpenViewSweeping, Release, WithGid, Inited, DiskInv,
       CarryInv, GidInv, HistoryCovered, ValidCoverage, BackupInv
  <2>4. SnapshotInv' /\ SnapshotCovers'
    BY <1>3, ActorAssumption DEF OpenView, IInv, OpenViewSweeping, Release, Actors,
       SnapshotInv, SnapshotCovers, Pins
  <2>5. LeaseReadable'
    BY <1>3, AbsenceAssumption DEF OpenView, IInv, OpenViewSweeping, WithGid, Inited,
       NewStore, LeaseReadable, TypeOK, Active, DiskOK, ReaderOK, Store
  <2> QED
    BY <1>1, <2>1, <2>2, <2>3, <2>4, <2>5 DEF IInv
<1>4. CASE OpenFail(r)
  <2>1. OwnerInv' /\ DiskInv'
    BY <1>4 DEF OpenFail, IInv, Release, OwnerInv, DiskInv
  <2>2. CaptureInv' /\ RebuildInv'
    BY <1>4 DEF OpenFail, IInv, Release, CaptureInv, RebuildInv
  <2>3. CarryInv' /\ GidInv' /\ BackupInv' /\ HistoryCovered'
    BY <1>4, AbsenceAssumption DEF OpenFail, IInv, Release, WithGid, GidChoice, FreshGid,
       Inited, NewStore, CarryInv, GidInv, HistoryCovered, ValidCoverage, TypeOK, BackupInv,
       DiskOK, Store, Coverage
  <2>4. SnapshotInv' /\ SnapshotCovers'
    BY <1>4, ActorAssumption DEF OpenFail, IInv, Release, Actors, SnapshotInv,
       SnapshotCovers, Pins
  <2>5. LeaseReadable'
    BY <1>4 DEF OpenFail, IInv, LeaseReadable, Active
  <2> QED
    BY <1>1, <2>1, <2>2, <2>3, <2>4, <2>5 DEF IInv
<1>5. CASE FetchLock(r)
  <2>1. OwnerInv' /\ DiskInv'
    BY <1>5, ActorAssumption DEF FetchLock, IInv, Lock, Actors, OwnerInv, DiskInv
  <2>2. CaptureInv' /\ RebuildInv'
    BY <1>5 DEF FetchLock, IInv, Lock, CaptureInv, RebuildInv
  <2>3. CarryInv' /\ GidInv' /\ BackupInv' /\ HistoryCovered'
    BY <1>5 DEF FetchLock, IInv, Lock, CarryInv, GidInv, HistoryCovered, ValidCoverage,
       BackupInv
  <2>4. SnapshotInv' /\ SnapshotCovers'
    BY <1>5, ActorAssumption DEF FetchLock, IInv, Lock, SnapshotInv, SnapshotCovers, Pins
  <2>5. LeaseReadable'
    BY <1>5 DEF FetchLock, IInv, LeaseReadable
  <2> QED
    BY <1>1, <2>1, <2>2, <2>3, <2>4, <2>5 DEF IInv
<1>6. CASE Fetch(r)
  <2>1. OwnerInv' /\ DiskInv'
    BY <1>6 DEF Fetch, IInv, Release, OwnerInv, DiskInv
  <2>2. CaptureInv' /\ RebuildInv'
    BY <1>6 DEF Fetch, IInv, Release, CaptureInv, RebuildInv
  <2>3. CarryInv' /\ GidInv' /\ BackupInv' /\ HistoryCovered'
    BY <1>6 DEF Fetch, IInv, Release, Adding, DiskInv, CarryInv, GidInv, HistoryCovered,
       ValidCoverage, BackupInv
  <2>4. SnapshotInv' /\ SnapshotCovers'
    BY <1>6, ActorAssumption DEF Fetch, IInv, Release, Actors, SnapshotInv, SnapshotCovers, Pins
  <2>5. LeaseReadable'
    BY <1>6, AbsenceAssumption DEF Fetch, IInv, Adding, LeaseReadable, TypeOK, DiskOK,
       ReaderOK, Store
  <2> QED
    BY <1>1, <2>1, <2>2, <2>3, <2>4, <2>5 DEF IInv
<1>7. CASE FetchFail(r)
  <2>1. OwnerInv' /\ DiskInv'
    BY <1>7 DEF FetchFail, IInv, Release, OwnerInv, DiskInv
  <2>2. CaptureInv' /\ RebuildInv'
    BY <1>7 DEF FetchFail, IInv, Release, CaptureInv, RebuildInv
  <2>3. CarryInv' /\ GidInv' /\ BackupInv' /\ HistoryCovered'
    BY <1>7 DEF FetchFail, IInv, Release, Adding, DiskInv, CarryInv, GidInv, HistoryCovered,
       ValidCoverage, BackupInv
  <2>4. SnapshotInv' /\ SnapshotCovers'
    BY <1>7, ActorAssumption DEF FetchFail, IInv, Release, Actors, SnapshotInv,
       SnapshotCovers, Pins
  <2>5. LeaseReadable'
    BY <1>7, AbsenceAssumption DEF FetchFail, IInv, Adding, LeaseReadable, TypeOK, DiskOK,
       ReaderOK, Store
  <2> QED
    BY <1>1, <2>1, <2>2, <2>3, <2>4, <2>5 DEF IInv
<1>8. CASE Retain(r)
  <2>1. OwnerInv' /\ DiskInv'
    BY <1>8 DEF Retain, IInv, OwnerInv, DiskInv, Active
  <2>2. CaptureInv' /\ RebuildInv'
    BY <1>8 DEF Retain, IInv, CaptureInv, Pins, RebuildInv
  <2>3. CarryInv' /\ GidInv' /\ BackupInv' /\ HistoryCovered'
    BY <1>8 DEF Retain, IInv, CarryInv, GidInv, HistoryCovered, ValidCoverage, BackupInv
  <2>4. SnapshotInv' /\ SnapshotCovers'
    BY <1>8 DEF Retain, IInv, SnapshotInv, SnapshotCovers, Pins
  <2>5. LeaseReadable'
    BY <1>8 DEF Retain, IInv, LeaseReadable
  <2> QED
    BY <1>1, <2>1, <2>2, <2>3, <2>4, <2>5 DEF IInv
<1>9. CASE PublishLink(r)
  <2>1. view[r] \in SUBSET Objects
    BY <1>9 DEF PublishLink, IInv, LeaseReadable, TypeOK, ReaderOK
  <2>2. current' \in Store /\ view[r] \subseteq current'.objs
    <3>1. current' = Adding(Inited(current), view[r]) /\ current \in Store \cup {NoStore}
      BY <1>9 DEF PublishLink, IInv, TypeOK, DiskOK
    <3> QED
      BY <2>1, <3>1, AddingOK, AddingAdds
  <2>3. OwnerInv'
    BY <1>9, <2>2, ActorAssumption, AbsenceAssumption DEF PublishLink, Lock, Actors, OwnerInv
  <2>4. DiskInv'
    BY <1>9 DEF PublishLink, IInv, Lock, OwnerInv, DiskInv
  <2>5. CaptureInv' /\ RebuildInv'
    BY <1>9 DEF PublishLink, IInv, Lock, CaptureInv, RebuildInv
  <2>6. CarryInv' /\ GidInv' /\ BackupInv' /\ HistoryCovered'
    BY <1>9, AbsenceAssumption DEF PublishLink, IInv, Lock, Adding, Inited, NewStore,
       CarryInv, GidInv, HistoryCovered, ValidCoverage, TypeOK, BackupInv, LeaseReadable,
       DiskOK, ReaderOK, Store, Coverage
  <2>7. SnapshotInv' /\ SnapshotCovers'
    BY <1>9, ActorAssumption DEF PublishLink, IInv, Lock, SnapshotInv, SnapshotCovers, Pins
  <2>8. LeaseReadable'
    BY <1>9 DEF PublishLink, IInv, LeaseReadable
  <2> QED
    BY <1>1, <2>3, <2>4, <2>5, <2>6, <2>7, <2>8 DEF IInv
<1>10. CASE PublishFail(r)
  <2>1. OwnerInv' /\ DiskInv'
    BY <1>10 DEF PublishFail, IInv, OwnerInv, DiskInv
  <2>2. CaptureInv' /\ RebuildInv'
    BY <1>10 DEF PublishFail, IInv, OwnerInv, CaptureInv, RebuildInv
  <2>3. CarryInv' /\ GidInv' /\ BackupInv' /\ HistoryCovered'
    BY <1>10, AbsenceAssumption DEF PublishFail, IInv, Adding, Inited, NewStore, DiskInv,
       CarryInv, GidInv, HistoryCovered, ValidCoverage, TypeOK, BackupInv, LeaseReadable,
       DiskOK, ReaderOK, Store, Coverage
  <2>4. SnapshotInv' /\ SnapshotCovers'
    BY <1>10 DEF PublishFail, IInv, SnapshotInv, SnapshotCovers, Pins
  <2>5. LeaseReadable'
    BY <1>10 DEF PublishFail, IInv, LeaseReadable
  <2> QED
    BY <1>1, <2>1, <2>2, <2>3, <2>4, <2>5 DEF IInv
<1>11. CASE PublishCoverage(r)
  <2>1. OwnerInv' /\ DiskInv'
    BY <1>11 DEF PublishCoverage, IInv, Release, OwnerInv, DiskInv
  <2>2. CaptureInv' /\ RebuildInv'
    BY <1>11 DEF PublishCoverage, IInv, Release, CaptureInv, RebuildInv
  <2>3. CarryInv' /\ GidInv' /\ BackupInv' /\ HistoryCovered'
    BY <1>11 DEF PublishCoverage, IInv, Release, Covered, WithGid, GidChoice, FreshGid,
       OwnerInv, CarryInv, GidInv, HistoryCovered, BackupInv, LeaseReadable
  <2>4. SnapshotInv' /\ SnapshotCovers'
    BY <1>11, ActorAssumption DEF PublishCoverage, IInv, Release, Actors, SnapshotInv,
       SnapshotCovers, Pins
  <2>5. LeaseReadable'
    BY <1>11 DEF PublishCoverage, IInv, LeaseReadable
  <2> QED
    BY <1>1, <2>1, <2>2, <2>3, <2>4, <2>5 DEF IInv
<1>12. CASE Close(r)
  <2>1. OwnerInv' /\ DiskInv'
    BY <1>12 DEF Close, IInv, OwnerInv, DiskInv, Active
  <2>2. CaptureInv' /\ RebuildInv'
    BY <1>12 DEF Close, IInv, CaptureInv, Pins, RebuildInv
  <2>3. CarryInv' /\ GidInv' /\ BackupInv' /\ HistoryCovered'
    BY <1>12 DEF Close, IInv, CarryInv, GidInv, HistoryCovered, ValidCoverage, BackupInv
  <2>4. SnapshotInv' /\ SnapshotCovers'
    BY <1>12 DEF Close, IInv, SnapshotInv, SnapshotCovers, Pins
  <2>5. LeaseReadable'
    BY <1>12 DEF Close, IInv, LeaseReadable, TypeOK, ReaderOK
  <2> QED
    BY <1>1, <2>1, <2>2, <2>3, <2>4, <2>5 DEF IInv
<1> QED
  BY <1>2, <1>3, <1>4, <1>5, <1>6, <1>7, <1>8, <1>9, <1>10, <1>11, <1>12 DEF ReaderStep

\* A maintenance pass trusts a snapshot of its own generation only.
LEMMA InvCollector == ASSUME IInv, NEW c \in Collectors, CollectorStep(c) PROVE IInv'
<1>1. TypeOK'
  BY TypeCollector
<1>2. CASE Capture(c)
  <2>1. OwnerInv' /\ DiskInv'
    BY <1>2 DEF Capture, IInv, OwnerInv, DiskInv
  <2>2. CaptureInv' /\ RebuildInv'
    BY <1>2 DEF Capture, IInv, CaptureInv, Pins, RebuildInv
  <2>3. CarryInv' /\ GidInv' /\ BackupInv' /\ HistoryCovered'
    BY <1>2 DEF Capture, IInv, CarryInv, GidInv, HistoryCovered, ValidCoverage, BackupInv
  <2>4. SnapshotInv' /\ SnapshotCovers'
    BY <1>2, ActorAssumption DEF Capture, IInv, Actors, SnapshotInv, TypeOK, SnapshotCovers,
       Pins
  <2>5. LeaseReadable'
    BY <1>2 DEF Capture, IInv, LeaseReadable
  <2> QED
    BY <1>1, <2>1, <2>2, <2>3, <2>4, <2>5 DEF IInv
<1>3. CASE \E b \in Branches : Visit(c, b)
  <2> PICK b \in Branches : Visit(c, b)
    BY <1>3
  <2>1. OwnerInv' /\ DiskInv'
    BY DEF Visit, IInv, OwnerInv, DiskInv, Active
  <2>2. CaptureInv' /\ RebuildInv'
    BY DEF Visit, IInv, CaptureInv, Pins, RebuildInv
  <2>3. CarryInv' /\ GidInv' /\ BackupInv' /\ HistoryCovered'
    BY DEF Visit, IInv, CarryInv, GidInv, HistoryCovered, ValidCoverage, BackupInv
  <2>4. SnapshotInv' /\ SnapshotCovers'
    BY DEF Visit, IInv, SnapshotInv, TypeOK, SnapshotCovers, Pins
  <2>5. LeaseReadable'
    BY DEF Visit, IInv, LeaseReadable
  <2> QED
    BY <1>1, <2>1, <2>2, <2>3, <2>4, <2>5 DEF IInv
<1>4. CASE Skip(c)
  <2>1. OwnerInv' /\ DiskInv'
    BY <1>4 DEF Skip, IInv, OwnerInv, DiskInv, Active
  <2>2. CaptureInv' /\ RebuildInv'
    BY <1>4 DEF Skip, IInv, CaptureInv, Pins, RebuildInv
  <2>3. CarryInv' /\ GidInv' /\ BackupInv' /\ HistoryCovered'
    BY <1>4 DEF Skip, IInv, CarryInv, GidInv, HistoryCovered, ValidCoverage, BackupInv
  <2>4. SnapshotInv' /\ SnapshotCovers'
    BY <1>4 DEF Skip, IInv, SnapshotInv, SnapshotCovers, Pins
  <2>5. LeaseReadable'
    BY <1>4 DEF Skip, IInv, LeaseReadable
  <2> QED
    BY <1>1, <2>1, <2>2, <2>3, <2>4, <2>5 DEF IInv
<1>5. CASE Maintain(c)
  <2>1. OwnerInv' /\ DiskInv'
    BY <1>5, ActorAssumption DEF Maintain, IInv, Lock, Actors, OwnerInv, DiskInv
  <2>2. CaptureInv' /\ RebuildInv'
    BY <1>5 DEF Maintain, IInv, Lock, CaptureInv, RebuildInv
  <2>3. CarryInv' /\ GidInv' /\ BackupInv' /\ HistoryCovered'
    BY <1>5 DEF Maintain, IInv, Lock, CarryInv, GidInv, HistoryCovered, ValidCoverage, BackupInv
  <2>4. SnapshotInv' /\ SnapshotCovers'
    BY <1>5, ActorAssumption DEF Maintain, IInv, Lock, SnapshotInv, SnapshotCovers, Pins
  <2>5. LeaseReadable'
    BY <1>5 DEF Maintain, IInv, LeaseReadable
  <2> QED
    BY <1>1, <2>1, <2>2, <2>3, <2>4, <2>5 DEF IInv
<1>6. CASE Survey(c)
  <2>1. OwnerInv' /\ DiskInv'
    BY <1>6 DEF Survey, IInv, SurveyIf, CapturePins, OwnerInv, DiskInv
  <2>2. CaptureInv' /\ RebuildInv'
    BY <1>6 DEF Survey, IInv, SurveyIf, CapturePins, EmptyCap, SnapshotInv, CaptureInv, Pins,
       SnapshotCovers, RebuildInv
  <2>3. CarryInv' /\ GidInv' /\ BackupInv' /\ HistoryCovered'
    BY <1>6 DEF Survey, IInv, SurveyIf, CapturePins, CarryInv, GidInv, HistoryCovered,
       ValidCoverage, BackupInv
  <2>4. SnapshotInv' /\ SnapshotCovers'
    BY <1>6 DEF Survey, IInv, SurveyIf, CapturePins, SnapshotInv, SnapshotCovers, Pins
  <2>5. LeaseReadable'
    BY <1>6 DEF Survey, IInv, SurveyIf, LeaseReadable
  <2> QED
    BY <1>1, <2>1, <2>2, <2>3, <2>4, <2>5 DEF IInv
<1> QED
  BY <1>2, <1>3, <1>4, <1>5, <1>6 DEF CollectorStep

\* A rebuild carries roots and coverage from store to store.
LEMMA InvRebuild == ASSUME IInv, RebuildStep PROVE IInv'
<1>1. TypeOK'
  BY TypeRebuild
<1>2. CASE CaptureHistory
  <2>1. cap'.history = ReaderRoots \cup Covered /\ cap'.carry = ValidCoverage
    BY <1>2 DEF CaptureHistory, CaptureHistoryOf, IInv, TypeOK, LockOK, Captured
  <2>2. ValidCoverage => history # NoFile /\ history.objs \subseteq Covered
    BY DEF ValidCoverage, Covered
  <2>3. ValidCoverage' <=> ValidCoverage
    BY <1>2 DEF CaptureHistory, CaptureHistoryOf, ValidCoverage
  <2>4. CarryInv'
    BY <1>2, <2>1, <2>2, <2>3 DEF CaptureHistory, CaptureHistoryOf, CarryInv
  <2>5. OwnerInv' /\ DiskInv'
    BY <1>2 DEF CaptureHistory, IInv, CaptureHistoryOf, OwnerInv, DiskInv
  <2>6. CaptureInv' /\ RebuildInv'
    BY <1>2 DEF CaptureHistory, IInv, CaptureHistoryOf, CaptureInv, Pins, RebuildInv
  <2>7. GidInv'
    BY <1>2 DEF CaptureHistory, IInv, CaptureHistoryOf, GidInv
  <2>8. BackupInv'
    BY <1>2 DEF CaptureHistory, IInv, CaptureHistoryOf, BackupInv
  <2>9. SnapshotInv' /\ SnapshotCovers'
    BY <1>2 DEF CaptureHistory, IInv, CaptureHistoryOf, SnapshotInv, SnapshotCovers, Pins
  <2>10. HistoryCovered'
    BY <1>2 DEF CaptureHistory, IInv, CaptureHistoryOf, HistoryCovered, ValidCoverage
  <2>11. LeaseReadable'
    BY <1>2 DEF CaptureHistory, IInv, CaptureHistoryOf, LeaseReadable
  <2> QED
    BY <1>1, <2>4, <2>5, <2>6, <2>7, <2>8, <2>9, <2>10, <2>11 DEF IInv
<1>3. CASE RemoveBegin
  <2>1. OwnerInv' /\ DiskInv'
    BY <1>3 DEF RemoveBegin, IInv, Goto, OwnerInv, DiskInv, Active
  <2>2. CaptureInv' /\ RebuildInv'
    BY <1>3 DEF RemoveBegin, IInv, Goto, CaptureInv, Pins, RebuildInv
  <2>3. CarryInv' /\ GidInv' /\ BackupInv' /\ HistoryCovered'
    BY <1>3 DEF RemoveBegin, IInv, Goto, CarryInv, GidInv, HistoryCovered, ValidCoverage,
       BackupInv
  <2>4. SnapshotInv' /\ SnapshotCovers'
    BY <1>3 DEF RemoveBegin, IInv, Goto, SnapshotInv, SnapshotCovers, Pins
  <2>5. LeaseReadable'
    BY <1>3 DEF RemoveBegin, IInv, LeaseReadable
  <2> QED
    BY <1>1, <2>1, <2>2, <2>3, <2>4, <2>5 DEF IInv
<1>4. CASE RemovePart
  <2>1. OwnerInv' /\ DiskInv'
    BY <1>4 DEF RemovePart, IInv, OwnerInv, DiskInv, Active
  <2>2. CaptureInv' /\ RebuildInv'
    BY <1>4 DEF RemovePart, IInv, CaptureInv, Pins, RebuildInv
  <2>3. CarryInv' /\ GidInv' /\ BackupInv' /\ HistoryCovered'
    BY <1>4, AbsenceAssumption DEF RemovePart, IInv, DiskInv, CarryInv, GidInv,
       HistoryCovered, ValidCoverage, TypeOK, BackupInv, DiskOK, Coverage
  <2>4. SnapshotInv' /\ SnapshotCovers'
    BY <1>4 DEF RemovePart, IInv, SnapshotInv, SnapshotCovers, Pins
  <2>5. LeaseReadable'
    BY <1>4 DEF RemovePart, IInv, LeaseReadable
  <2> QED
    BY <1>1, <2>1, <2>2, <2>3, <2>4, <2>5 DEF IInv
<1>5. CASE RemoveAll
  <2>1. OwnerInv' /\ DiskInv'
    BY <1>5 DEF RemoveAll, IInv, Release, OwnerInv, DiskInv
  <2>2. CaptureInv' /\ RebuildInv'
    BY <1>5 DEF RemoveAll, IInv, Release, CaptureInv, RebuildInv
  <2>3. CarryInv' /\ GidInv' /\ BackupInv' /\ HistoryCovered'
    BY <1>5 DEF RemoveAll, IInv, Release, CarryInv, GidInv, HistoryCovered, ValidCoverage,
       BackupInv
  <2>4. SnapshotInv' /\ SnapshotCovers'
    BY <1>5, ActorAssumption DEF RemoveAll, IInv, Release, Actors, SnapshotInv,
       SnapshotCovers, Pins
  <2>5. LeaseReadable'
    BY <1>5 DEF RemoveAll, IInv, OwnerInv, LeaseReadable, Active
  <2> QED
    BY <1>1, <2>1, <2>2, <2>3, <2>4, <2>5 DEF IInv
<1>6. CASE RebuildSkip
  <2>1. OwnerInv' /\ DiskInv'
    BY <1>6 DEF RebuildSkip, IInv, EndRebuild, Goto, Release, OwnerInv, DiskInv
  <2>2. CaptureInv' /\ RebuildInv'
    BY <1>6 DEF RebuildSkip, IInv, EndRebuild, Goto, Release, CaptureInv, RebuildInv
  <2>3. CarryInv' /\ GidInv' /\ BackupInv' /\ HistoryCovered'
    BY <1>6 DEF RebuildSkip, IInv, EndRebuild, Goto, Release, CarryInv, GidInv,
       HistoryCovered, ValidCoverage, BackupInv
  <2>4. SnapshotInv' /\ SnapshotCovers'
    BY <1>6, ActorAssumption DEF RebuildSkip, IInv, EndRebuild, Goto, Release, Actors,
       SnapshotInv, SnapshotCovers, Pins
  <2>5. LeaseReadable'
    BY <1>6 DEF RebuildSkip, IInv, LeaseReadable
  <2> QED
    BY <1>1, <2>1, <2>2, <2>3, <2>4, <2>5 DEF IInv
<1>7. CASE Rebuild
  <2>1. staged' \in Store /\ staged'.complete
    BY <1>7 DEF Rebuild, FreshGid, IInv, TypeOK, LockOK, DiskOK, Captured, Store
  <2>2. DiskInv'
    BY <1>7, <2>1, AbsenceAssumption DEF Rebuild, Goto, IInv, DiskInv
  <2>3. OwnerInv'
    BY <1>7 DEF Rebuild, IInv, Goto, OwnerInv
  <2>4. CaptureInv' /\ RebuildInv'
    BY <1>7 DEF Rebuild, IInv, Goto, CaptureInv, Pins, RebuildInv
  <2>5. CarryInv' /\ GidInv' /\ BackupInv' /\ HistoryCovered'
    BY <1>7, AbsenceAssumption DEF Rebuild, IInv, Goto, FreshGid, CarryInv, GidInv,
       HistoryCovered, ValidCoverage, BackupInv
  <2>6. SnapshotInv' /\ SnapshotCovers'
    BY <1>7 DEF Rebuild, IInv, Goto, SnapshotInv, SnapshotCovers, Pins
  <2>7. LeaseReadable'
    BY <1>7 DEF Rebuild, IInv, LeaseReadable
  <2> QED
    BY <1>1, <2>2, <2>3, <2>4, <2>5, <2>6, <2>7 DEF IInv
<1>8. CASE RebuildFail
  <2>1. OwnerInv' /\ DiskInv'
    BY <1>8 DEF RebuildFail, IInv, Goto, OwnerInv, DiskInv
  <2>2. CaptureInv' /\ RebuildInv'
    BY <1>8 DEF RebuildFail, IInv, Goto, CaptureInv, RebuildInv
  <2>3. CarryInv' /\ GidInv' /\ BackupInv' /\ HistoryCovered'
    BY <1>8 DEF RebuildFail, IInv, Goto, CarryInv, GidInv, HistoryCovered, ValidCoverage,
       BackupInv
  <2>4. SnapshotInv' /\ SnapshotCovers'
    BY <1>8 DEF RebuildFail, IInv, Goto, SnapshotInv, SnapshotCovers, Pins
  <2>5. LeaseReadable'
    BY <1>8 DEF RebuildFail, IInv, LeaseReadable
  <2> QED
    BY <1>1, <2>1, <2>2, <2>3, <2>4, <2>5 DEF IInv
<1>9. CASE SwapOut
  <2>1. OwnerInv' /\ DiskInv'
    BY <1>9 DEF SwapOut, IInv, Goto, OwnerInv, DiskInv
  <2>2. CaptureInv' /\ RebuildInv'
    BY <1>9 DEF SwapOut, IInv, Goto, CaptureInv, Pins, RebuildInv
  <2>3. CarryInv' /\ GidInv' /\ BackupInv' /\ HistoryCovered'
    BY <1>9 DEF SwapOut, IInv, Goto, CarryInv, GidInv, HistoryCovered, ValidCoverage, BackupInv
  <2>4. SnapshotInv' /\ SnapshotCovers'
    BY <1>9 DEF SwapOut, IInv, Goto, SnapshotInv, SnapshotCovers, Pins
  <2>5. LeaseReadable'
    BY <1>9 DEF SwapOut, IInv, LeaseReadable
  <2> QED
    BY <1>1, <2>1, <2>2, <2>3, <2>4, <2>5 DEF IInv
<1>10. CASE SwapIn
  <2>1. OwnerInv' /\ DiskInv'
    BY <1>10 DEF SwapIn, IInv, Goto, OwnerInv, DiskInv
  <2>2. CaptureInv' /\ RebuildInv'
    BY <1>10 DEF SwapIn, IInv, Goto, CaptureInv, Pins, RebuildInv
  <2>3. CarryInv' /\ GidInv' /\ BackupInv' /\ HistoryCovered'
    BY <1>10 DEF SwapIn, IInv, Goto, DiskInv, CarryInv, GidInv, HistoryCovered,
       ValidCoverage, BackupInv
  <2>4. SnapshotInv' /\ SnapshotCovers'
    BY <1>10 DEF SwapIn, IInv, Goto, SnapshotInv, SnapshotCovers, Pins
  <2>5. LeaseReadable'
    BY <1>10 DEF SwapIn, IInv, LeaseReadable
  <2> QED
    BY <1>1, <2>1, <2>2, <2>3, <2>4, <2>5 DEF IInv
<1>11. CASE SwapInFail
  <2>1. OwnerInv' /\ DiskInv'
    BY <1>11 DEF SwapInFail, IInv, Goto, OwnerInv, DiskInv
  <2>2. CaptureInv' /\ RebuildInv'
    BY <1>11 DEF SwapInFail, IInv, Goto, CaptureInv, RebuildInv
  <2>3. CarryInv' /\ GidInv' /\ BackupInv' /\ HistoryCovered'
    BY <1>11 DEF SwapInFail, IInv, Goto, DiskInv, CarryInv, GidInv, HistoryCovered,
       ValidCoverage, BackupInv
  <2>4. SnapshotInv' /\ SnapshotCovers'
    BY <1>11 DEF SwapInFail, IInv, Goto, SnapshotInv, SnapshotCovers, Pins
  <2>5. LeaseReadable'
    BY <1>11 DEF SwapInFail, IInv, LeaseReadable
  <2> QED
    BY <1>1, <2>1, <2>2, <2>3, <2>4, <2>5 DEF IInv
<1>12. CASE DropPrevious
  <2>1. OwnerInv' /\ DiskInv'
    BY <1>12 DEF DropPrevious, IInv, Goto, OwnerInv, DiskInv
  <2>2. CaptureInv' /\ RebuildInv'
    BY <1>12 DEF DropPrevious, IInv, Goto, CaptureInv, Pins, RebuildInv
  <2>3. CarryInv' /\ GidInv' /\ BackupInv' /\ HistoryCovered'
    BY <1>12 DEF DropPrevious, IInv, Goto, DiskInv, CarryInv, GidInv, HistoryCovered,
       ValidCoverage, TypeOK, BackupInv, DiskOK, Store
  <2>4. SnapshotInv' /\ SnapshotCovers'
    BY <1>12 DEF DropPrevious, IInv, Goto, SnapshotInv, SnapshotCovers, Pins
  <2>5. LeaseReadable'
    BY <1>12 DEF DropPrevious, IInv, LeaseReadable
  <2> QED
    BY <1>1, <2>1, <2>2, <2>3, <2>4, <2>5 DEF IInv
<1>13. CASE Rewrite
  <2>1. OwnerInv' /\ DiskInv'
    BY <1>13 DEF Rewrite, IInv, Goto, OwnerInv, DiskInv
  <2>2. CaptureInv' /\ RebuildInv'
    BY <1>13 DEF Rewrite, IInv, Goto, CaptureInv, RebuildInv
  <2>3. CarryInv' /\ GidInv' /\ BackupInv' /\ HistoryCovered'
    BY <1>13 DEF Rewrite, IInv, Goto, DiskInv, CarryInv, GidInv, HistoryCovered,
       ValidCoverage, BackupInv
  <2>4. SnapshotInv' /\ SnapshotCovers'
    BY <1>13 DEF Rewrite, IInv, Goto, SnapshotInv, SnapshotCovers, Pins
  <2>5. LeaseReadable'
    BY <1>13 DEF Rewrite, IInv, LeaseReadable
  <2> QED
    BY <1>1, <2>1, <2>2, <2>3, <2>4, <2>5 DEF IInv
<1>14. CASE RewriteFail
  <2>1. OwnerInv' /\ DiskInv'
    BY <1>14 DEF RewriteFail, IInv, Goto, OwnerInv, DiskInv
  <2>2. CaptureInv' /\ RebuildInv'
    BY <1>14 DEF RewriteFail, IInv, Goto, CaptureInv, RebuildInv
  <2>3. CarryInv' /\ GidInv' /\ BackupInv' /\ HistoryCovered'
    BY <1>14 DEF RewriteFail, IInv, Goto, CarryInv, GidInv, HistoryCovered, ValidCoverage,
       BackupInv
  <2>4. SnapshotInv' /\ SnapshotCovers'
    BY <1>14 DEF RewriteFail, IInv, Goto, SnapshotInv, SnapshotCovers, Pins
  <2>5. LeaseReadable'
    BY <1>14 DEF RewriteFail, IInv, LeaseReadable
  <2> QED
    BY <1>1, <2>1, <2>2, <2>3, <2>4, <2>5 DEF IInv
<1>15. CASE Record
  <2>1. OwnerInv' /\ DiskInv'
    BY <1>15 DEF Record, IInv, EndRebuild, Goto, Release, OwnerInv, DiskInv
  <2>2. CaptureInv' /\ RebuildInv'
    BY <1>15 DEF Record, IInv, EndRebuild, Goto, Release, CaptureInv, RebuildInv
  <2>3. CarryInv' /\ GidInv' /\ BackupInv' /\ HistoryCovered'
    BY <1>15 DEF Record, IInv, EndRebuild, Goto, Release, CarryInv, GidInv, HistoryCovered,
       ValidCoverage, BackupInv
  <2>4. SnapshotInv' /\ SnapshotCovers'
    BY <1>15, ActorAssumption DEF Record, IInv, EndRebuild, Goto, Release, Actors,
       SnapshotInv, SnapshotCovers, Pins
  <2>5. LeaseReadable'
    BY <1>15 DEF Record, IInv, LeaseReadable
  <2> QED
    BY <1>1, <2>1, <2>2, <2>3, <2>4, <2>5 DEF IInv
<1> QED
  BY <1>2, <1>3, <1>4, <1>5, <1>6, <1>7, <1>8, <1>9, <1>10, <1>11, <1>12, <1>13, <1>14, <1>15 DEF RebuildStep

\* Eviction, failures, crashes and forgetting leave the stores alone.
LEMMA InvOther == ASSUME IInv, EvictHistory \/ Abort \/ Crash \/ Forget PROVE IInv'
<1>1. TypeOK'
  BY TypeOther
<1>2. CASE EvictHistory
  <2>1. OwnerInv' /\ DiskInv'
    BY <1>2 DEF EvictHistory, IInv, OwnerInv, DiskInv
  <2>2. CaptureInv' /\ RebuildInv'
    BY <1>2 DEF EvictHistory, IInv, CaptureInv, Pins, RebuildInv
  <2>3. CarryInv' /\ GidInv' /\ BackupInv' /\ HistoryCovered'
    BY <1>2 DEF EvictHistory, IInv, OwnerInv, CarryInv, GidInv, HistoryCovered,
       ValidCoverage, BackupInv
  <2>4. SnapshotInv' /\ SnapshotCovers'
    BY <1>2 DEF EvictHistory, IInv, SnapshotInv, SnapshotCovers, Pins
  <2>5. LeaseReadable'
    BY <1>2 DEF EvictHistory, IInv, LeaseReadable
  <2> QED
    BY <1>1, <2>1, <2>2, <2>3, <2>4, <2>5 DEF IInv
<1>3. CASE Abort
  <2>1. OwnerInv' /\ DiskInv'
    BY <1>3 DEF Abort, IInv, Release, OwnerInv, DiskInv
  <2>2. CaptureInv' /\ RebuildInv'
    BY <1>3 DEF Abort, IInv, Release, CaptureInv, RebuildInv
  <2>3. CarryInv' /\ GidInv' /\ BackupInv' /\ HistoryCovered'
    BY <1>3 DEF Abort, IInv, Release, CarryInv, GidInv, HistoryCovered, ValidCoverage, BackupInv
  <2>4. SnapshotInv' /\ SnapshotCovers'
    BY <1>3, ActorAssumption DEF Abort, IInv, Release, Actors, SnapshotInv, SnapshotCovers, Pins
  <2>5. LeaseReadable'
    BY <1>3 DEF Abort, IInv, LeaseReadable
  <2> QED
    BY <1>1, <2>1, <2>2, <2>3, <2>4, <2>5 DEF IInv
<1>4. CASE Crash
  <2>1. OwnerInv' /\ DiskInv'
    BY <1>4 DEF Crash, IInv, Release, OwnerInv, DiskInv
  <2>2. CaptureInv' /\ RebuildInv'
    BY <1>4 DEF Crash, IInv, Release, CaptureInv, RebuildInv
  <2>3. CarryInv' /\ GidInv' /\ BackupInv' /\ HistoryCovered'
    BY <1>4 DEF Crash, IInv, Release, CarryInv, GidInv, HistoryCovered, ValidCoverage, BackupInv
  <2>4. SnapshotInv' /\ SnapshotCovers'
    BY <1>4 DEF Crash, IInv, SnapshotInv, SnapshotCovers
  <2>5. LeaseReadable'
    BY <1>4 DEF Crash, IInv, LeaseReadable
  <2> QED
    BY <1>1, <2>1, <2>2, <2>3, <2>4, <2>5 DEF IInv
<1>5. CASE Forget
  <2>1. OwnerInv' /\ DiskInv'
    BY <1>5 DEF Forget, IInv, ForgetUnless, OwnerInv, DiskInv
  <2>2. CaptureInv' /\ RebuildInv'
    BY <1>5 DEF Forget, IInv, ForgetUnless, CaptureInv, Pins, RebuildInv
  <2>3. CarryInv' /\ GidInv' /\ BackupInv' /\ HistoryCovered'
    BY <1>5 DEF Forget, IInv, ForgetUnless, CarryInv, GidInv, HistoryCovered, ValidCoverage,
       BackupInv
  <2>4. SnapshotInv' /\ SnapshotCovers'
    BY <1>5 DEF Forget, IInv, ForgetUnless, SnapshotInv, SnapshotCovers
  <2>5. LeaseReadable'
    BY <1>5 DEF Forget, IInv, ForgetUnless, LeaseReadable
  <2> QED
    BY <1>1, <2>1, <2>2, <2>3, <2>4, <2>5 DEF IInv
<1> QED
  BY <1>2, <1>3, <1>4, <1>5

LEMMA Stuttering == IInv /\ UNCHANGED vars => IInv'
<1> SUFFICES ASSUME IInv, UNCHANGED vars PROVE IInv'
  OBVIOUS
<1>1. TypeOK'
  BY LockKept, DiskKept, PinKept, ReaderKept DEF vars, IInv, TypeOK
<1>2. OwnerInv' /\ DiskInv' /\ CaptureInv' /\ RebuildInv'
  BY DEF vars, IInv, OwnerInv, Active, DiskInv, CaptureInv, Pins, RebuildInv
<1>3. CarryInv' /\ GidInv' /\ BackupInv' /\ HistoryCovered'
  BY DEF vars, IInv, CarryInv, GidInv, BackupInv, HistoryCovered, ValidCoverage
<1>4. SnapshotInv' /\ LeaseReadable' /\ SnapshotCovers'
  BY DEF vars, IInv, SnapshotInv, LeaseReadable, SnapshotCovers, Pins
<1> QED
  BY <1>1, <1>2, <1>3, <1>4 DEF IInv

LEMMA InitInv == Init => IInv
<1> SUFFICES ASSUME Init PROVE IInv
  OBVIOUS
<1>1. TypeOK
  BY EmptyCapOK DEF Init, TypeOK, LockOK, DiskOK, PinOK, ReaderOK, Phases
<1>2. OwnerInv /\ DiskInv /\ CaptureInv /\ RebuildInv
  BY ActorAssumption DEF Init, OwnerInv, DiskInv, CaptureInv, RebuildInv
<1>3. CarryInv /\ GidInv /\ BackupInv /\ HistoryCovered
  BY DEF Init, CarryInv, GidInv, BackupInv, HistoryCovered, ValidCoverage
<1>4. SnapshotInv /\ LeaseReadable /\ SnapshotCovers
  BY DEF Init, SnapshotInv, LeaseReadable, SnapshotCovers
<1> QED
  BY <1>1, <1>2, <1>3, <1>4 DEF IInv

LEMMA Inductive == IInv /\ [Next]_vars => IInv'
<1>1. ASSUME IInv, Next PROVE IInv'
  BY <1>1, InvRecover, InvAcquire, InvSelector, InvReader, InvCollector, InvRebuild, InvOther
     DEF Next
<1> QED
  BY <1>1, Stuttering

\* The inductive invariant holds throughout: it is what every later theorem
\* about the pool is read off from.
THEOREM Invariant == Spec => []IInv
<1> QED
  BY InitInv, Inductive, PTL DEF Spec

\* Every variable keeps its type.
THEOREM TypeCorrect == Spec => []TypeOK
<1>1. IInv => TypeOK
  BY DEF IInv
<1> QED
  BY <1>1, Invariant, PTL

\* History coverage that names the current store is true of it, whatever
\* crashes, failed replacements and removals the store has been through.
THEOREM CoverageTrue == Spec => []HistoryCovered
<1>1. IInv => HistoryCovered
  BY DEF IInv
<1> QED
  BY <1>1, Invariant, PTL

\* A reader that holds a lease can read every object it retains.
THEOREM LeaseSafe == Spec => []LeaseReadable
<1>1. IInv => LeaseReadable
  BY DEF IInv
<1> QED
  BY <1>1, Invariant, PTL

\* The maintenance scan made without the mutex covers pins and selectors for
\* as long as its generation is the pool's.
THEOREM SnapshotSafe == Spec => []SnapshotCovers
<1>1. IInv => SnapshotCovers
  BY DEF IInv
<1> QED
  BY <1>1, Invariant, PTL

-----------------------------------------------------------------------------
(* What is rooted stays: only a few steps change what recover() would leave. *)

Kept == Rooted \cap Rooted' \cap Usable \subseteq Usable'

\* Every step that is not named here leaves both stores alone.
LEMMA StoresKept == UNCHANGED <<current, previous>> => Usable \subseteq Usable'
BY DEF Usable

\* Recovery puts back the store it would have used anyway.
LEMMA KeptByRecovery == ASSUME IInv, RecoverStep PROVE Usable \subseteq Usable'
<1>1. CASE RecoverNothing
  BY <1>1, StoresKept DEF RecoverNothing
<1>2. CASE RecoverDrop
  BY <1>2 DEF RecoverDrop, Usable
<1>3. CASE RecoverAside
  BY <1>3 DEF RecoverAside, Usable
<1>4. CASE RecoverRename
  BY <1>4 DEF RecoverRename, Usable
<1> QED
  BY <1>1, <1>2, <1>3, <1>4 DEF RecoverStep

\* An acquisition only adds, and no backup is left while its job runs.
LEMMA KeptByAcquisition ==
    ASSUME IInv, NEW a \in Acquirers, AcquireStep(a) PROVE Usable \subseteq Usable'
<1>1. CASE UNCHANGED <<current, previous>>
  BY <1>1, StoresKept
<1>2. CASE GitJob(a)
  BY <1>2, AbsenceAssumption
     DEF GitJob, IInv, DiskInv, TypeOK, DiskOK, Store, Adding, Inited, NewStore, Usable
<1>3. CASE GitFail(a)
  BY <1>3, AbsenceAssumption
     DEF GitFail, IInv, DiskInv, TypeOK, DiskOK, Store, Adding, Inited, NewStore, Usable
<1> QED
  BY <1>1, <1>2, <1>3
     DEF AcquireStep, Begin, GitStart, GitReady, GitCapture, EndTurn, Unpin

\* A reader only adds as well; linking its view back may even complete nothing
\* but a store that recovery would not use.
LEMMA KeptByReader ==
    ASSUME IInv, NEW r \in Readers, ReaderStep(r) PROVE Usable \subseteq Usable'
<1>1. CASE UNCHANGED <<current, previous>>
  BY <1>1, StoresKept
<1>2. CASE OpenView(r) \/ OpenFail(r)
  BY <1>2, AbsenceAssumption
     DEF OpenView, OpenViewSweeping, OpenFail, IInv, DiskInv, TypeOK, DiskOK, Store, WithGid,
         Inited, NewStore, Usable
<1>3. CASE Fetch(r) \/ FetchFail(r)
  BY <1>3, AbsenceAssumption
     DEF Fetch, FetchFail, IInv, DiskInv, TypeOK, DiskOK, Store, Adding, Usable
<1>4. CASE PublishLink(r) \/ PublishFail(r)
  <2>1. lease[r] /\ view[r] \in SUBSET Objects
    BY <1>4 DEF PublishLink, PublishFail, IInv, LeaseReadable, TypeOK, ReaderOK
  <2>2. PICK more \in SUBSET view[r] :
            current' = Adding(Inited(current), more) /\ previous' = previous
    BY <1>4 DEF PublishLink, PublishFail
  <2>3. /\ current' \in Store
        /\ current # NoStore => current.objs \subseteq current'.objs
        /\ current'.complete <=> (current # NoStore /\ current.complete)
    BY <2>1, <2>2, AddingOK, AddingAdds DEF IInv, TypeOK, DiskOK
  <2> QED
    BY <2>2, <2>3, AbsenceAssumption DEF Usable
<1>5. CASE PublishCoverage(r)
  BY <1>5, AbsenceAssumption
     DEF PublishCoverage, IInv, OwnerInv, TypeOK, DiskOK, Store, WithGid, Usable
<1> QED
  BY <1>1, <1>2, <1>3, <1>4, <1>5 DEF ReaderStep, OpenLock, FetchLock, Retain, Close

\* The roots a rebuild captured cover every root there is.
LEMMA RootsCaptured ==
    ASSUME IInv,
           phase \in {"staged", "swapped", "installed", "replaced", "removing"}
    PROVE  Rooted \subseteq cap.snapshot
BY DEF IInv, CaptureInv, Rooted, Selected

\* A rebuild keeps the roots it captured; a removal finds none.
LEMMA KeptByRebuild == ASSUME IInv, RebuildStep PROVE Kept
<1>1. CASE UNCHANGED <<current, previous>>
  BY <1>1, StoresKept DEF Kept
<1>2. CASE RemovePart \/ RemoveAll
  BY <1>2, RootsCaptured DEF RemovePart, RemoveAll, IInv, CaptureInv, Kept
<1>3. CASE SwapOut
  BY <1>3 DEF SwapOut, IInv, DiskInv, Usable, Kept
<1>4. CASE SwapIn
  <2>1. Usable = previous.objs /\ Usable' = staged.objs
    BY <1>4 DEF SwapIn, IInv, DiskInv, Usable
  <2>2. Rooted \cap previous.objs \subseteq staged.objs
    BY <1>4, RootsCaptured DEF SwapIn, IInv, RebuildInv
  <2> QED
    BY <2>1, <2>2 DEF Kept
<1>5. CASE SwapInFail \/ DropPrevious
  BY <1>5 DEF SwapInFail, DropPrevious, IInv, DiskInv, Usable, Kept
<1> QED
  BY <1>1, <1>2, <1>3, <1>4, <1>5
     DEF RebuildStep, CaptureHistory, CaptureHistoryOf, RemoveBegin, RebuildSkip, Rebuild,
         RebuildFail, Rewrite, RewriteFail, Record

\* An object that a live pin or a persisted selector needs, and that the pool
\* has, is never lost: not by replacement, roll back, recovery or a crash.
THEOREM RootedKept == Spec => KeepRooted
<1>1. ASSUME IInv, Next PROVE Kept
  <2>1. CASE UNCHANGED <<current, previous>>
    BY <2>1, StoresKept DEF Kept
  <2>2. CASE RecoverStep
    BY <1>1, <2>2, KeptByRecovery DEF Kept
  <2>3. ASSUME NEW a \in Acquirers, AcquireStep(a) PROVE Kept
    BY <1>1, <2>3, KeptByAcquisition DEF Kept
  <2>4. ASSUME NEW r \in Readers, ReaderStep(r) PROVE Kept
    BY <1>1, <2>4, KeptByReader DEF Kept
  <2>5. CASE RebuildStep
    BY <1>1, <2>5, KeptByRebuild
  <2>6. ASSUME NEW b \in Branches, SelectorStep(b) PROVE UNCHANGED <<current, previous>>
    BY <2>6 DEF SelectorStep, Publish, Retire, CaptureSelector
  <2>7. ASSUME NEW c \in Collectors, CollectorStep(c) PROVE UNCHANGED <<current, previous>>
    BY <2>7 DEF CollectorStep, Capture, Visit, Skip, Maintain, Survey, SurveyIf
  <2>8. CASE EvictHistory \/ Abort \/ Crash \/ Forget
    BY <2>8, <2>1 DEF EvictHistory, Abort, Crash, Forget, ForgetUnless
  <2> QED
    BY <1>1, <2>1, <2>2, <2>3, <2>4, <2>5, <2>6, <2>7, <2>8 DEF Next
<1>2. ASSUME UNCHANGED vars PROVE Kept
  BY <1>2, StoresKept DEF vars, Kept
<1>3. IInv /\ [Next]_vars => [Rooted \cap Rooted' \cap Usable \subseteq Usable']_vars
  BY <1>1, <1>2 DEF Kept
<1> QED
  BY <1>3, Invariant, PTL DEF Spec, KeepRooted
=============================================================================
