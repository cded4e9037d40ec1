------------------------------ MODULE MCHistory -------------------------------
(***************************************************************************)
(* Small instances of the histories: the discovery of an interval of a     *)
(* commit graph, the pages of a log, and the edits between two texts.      *)
(* They share no state: one of them runs in a behaviour, `part`, and the   *)
(* others stay in the only initial state of a trivial instance.            *)
(***************************************************************************)
EXTENDS HistoryGraph

CONSTANTS
  None, l1, l2, l3

VARIABLES
  part,   \* the component that runs
  \* HistoryWalk
  graph, flaky, source, head, tips, nodes, next, read, failed, failure, group,
  selected, groups, pending, waiting, ready, phase, boundary, result,
  complete, gaps, got, requests,
  \* HistoryLog
  logGraph, missing, skip, limit, matched, rows, deferred, commit, interval,
  logBoundary, pc, seen, ended, failures,
  \* LineEdits
  a, b, regions, out

\* The parents of a commit have higher numbers.
Orders(set, any) ==
  IF any THEN {seq \in [1 .. Cardinality(set) -> set] : Range(seq) = set}
  ELSE {SetToSortSeq(set, <)}

RECURSIVE GraphsFrom(_, _, _, _)

\* All graphs of the commits c .. n
GraphsFrom(c, n, parents, any) ==
  IF c > n THEN {<<>>}
  ELSE {(c :> seq) @@ rest :
          seq \in UNION {Orders(set, any) : set \in {set \in SUBSET (c + 1 .. n) : Cardinality(set) <= parents}},
          rest \in GraphsFrom(c + 1, n, parents, any)}

AllGraphs(n, parents, any) == GraphsFrom(1, n, parents, any)

\* Those in which some commit of the set leads to every other
Below(set, n, parents, any) ==
  {g \in AllGraphs(n, parents, any) : UNION {Ancestors(g, c) : c \in set} = 1 .. n}

StillWalk == INSTANCE HistoryWalk WITH
  Graphs <- {<<<<>>>>}, Tips <- {}, Heads <- {}, MaxFlaky <- 0, MaxRequests <-
  0
Walk == INSTANCE HistoryWalk WITH
  Graphs <- Below({1, 2}, 5, 2, TRUE), Tips <- {<<1, 2>>}, Heads <- {},
  MaxFlaky <- 1, MaxRequests <- 1
Deep == INSTANCE HistoryWalk WITH
  Graphs <- Below({1, 2}, 6, 2, FALSE), Tips <- {<<1, 2>>}, Heads <- {},
  MaxFlaky <- 0, MaxRequests <- 1
Again == INSTANCE HistoryWalk WITH
  Graphs <- AllGraphs(4, 3, TRUE), Tips <- {<<1, 2>>, <<2, 1>>, <<2, 3>>},
  Heads <- {1, 2}, MaxFlaky <- 1, MaxRequests <- 2
StillLog == INSTANCE HistoryLog WITH
  Graphs <- {<<<<>>>>}, MaxLimit <- 1, MaxMissing <- 0, MaxFailures <- 0,
  graph <- logGraph, boundary <- logBoundary
Log == INSTANCE HistoryLog WITH
  Graphs <- Below({1}, 5, 2, TRUE), MaxLimit <- 3, MaxMissing <- 2,
  MaxFailures <- 2, graph <- logGraph, boundary <- logBoundary
StillEdits == INSTANCE LineEdits WITH
  Lines <- {l1}, MaxLength <- 0, MaxExact <- 1
Texts == INSTANCE LineEdits WITH
  Lines <- {l1, l2, l3}, MaxLength <- 5, MaxExact <- 6

walkVars == <<graph, flaky, source, head, tips, nodes, next, read, failed,
  failure, group, selected, groups, pending, waiting, ready, phase, boundary,
  result, complete, gaps, got, requests>>
logVars == <<logGraph, missing, skip, limit, matched, rows, deferred, commit,
  interval, logBoundary, pc, seen, ended, failures>>
editsVars == <<a, b, regions, out>>

parts == <<part, walkVars, logVars, editsVars>>

\* The other components stay in an initial state.
PartsInit ==
  /\ part \in {"walk", "deep", "again", "log", "edits"}
  /\ IF part = "walk" THEN Walk!Init ELSE IF part = "deep" THEN Deep!Init ELSE IF part = "again" THEN Again!Init ELSE StillWalk!Init
  /\ IF part = "log" THEN Log!Init ELSE StillLog!Init
  /\ IF part = "edits" THEN Texts!Init ELSE StillEdits!Init

PartsNext ==
  /\ UNCHANGED part
  /\ \/ part = "walk" /\ Walk!Next
        /\ UNCHANGED <<logVars, editsVars>>
     \/ part = "deep" /\ Deep!Next
        /\ UNCHANGED <<logVars, editsVars>>
     \/ part = "again" /\ Again!Next
        /\ UNCHANGED <<logVars, editsVars>>
     \/ part = "log" /\ Log!Next
        /\ UNCHANGED <<walkVars, editsVars>>
     \/ part = "edits" /\ Texts!Next
        /\ UNCHANGED <<walkVars, logVars>>

PartsSpec == PartsInit /\ [][PartsNext]_parts

Symmetry == Permutations({l1, l2, l3})

-----------------------------------------------------------------------------
\* Between two reads the tips are in one group exactly if some commit is passed
\* by every path: discovery neither reads on after the interval is closed nor
\* stops before, whatever was missing.
WalkClosedExactly ==
  /\ part = "walk" => Walk!ClosedExactly
  /\ part = "deep" => Deep!ClosedExactly
  /\ part = "again" => Again!ClosedExactly

\* The interval ends at the first commit that all paths pass, or nowhere.
WalkBoundaryNearest ==
  /\ part = "walk" => Walk!BoundaryNearest
  /\ part = "deep" => Deep!BoundaryNearest
  /\ part = "again" => Again!BoundaryNearest

\* An answer lists the whole interval, children first, all of it read, and
\* nothing of what was read ahead.
WalkOrderTrue ==
  /\ part = "walk" => Walk!OrderTrue
  /\ part = "deep" => Deep!OrderTrue
  /\ part = "again" => Again!OrderTrue

\* A request fails for a missing commit only if the interval cannot be closed
\* without it.
WalkFailsRightly ==
  /\ part = "walk" => Walk!FailsRightly
  /\ part = "deep" => Deep!FailsRightly
  /\ part = "again" => Again!FailsRightly

\* What is recorded as complete history was all read, in this request or an
\* earlier one, and is never recorded as a gap too.
WalkCompleteTrue ==
  /\ part = "walk" => Walk!CompleteTrue
  /\ part = "deep" => Deep!CompleteTrue
  /\ part = "again" => Again!CompleteTrue

\* The bases of a merge are the common ancestors of its parents that no other
\* common ancestor has behind it, as if the whole graph had been read.
WalkBasesTrue ==
  /\ part = "walk" => Walk!BasesTrue
  /\ part = "deep" => Deep!BasesTrue
  /\ part = "again" => Again!BasesTrue

\* What the reader has of all pages together never names a commit twice, and
\* names it after every commit that leads to it, however long the pages were
\* and whatever was missing while they were computed.
LogPagesAgree == Log!PagesAgree

\* The reader is told that there is no more only when it has every ancestor.
LogEndTrue == Log!EndTrue

\* Every page brings the reader a row, or the end, or says that it failed: the
\* reader who asks on has everything after finitely many pages.
LogPagesAdvance == Log!PagesAdvance

\* Whatever was matched so far is equal and crosses nothing, and what is left
\* to align lies between the matches and apart from each other.
EditsAligned == Texts!Aligned

\* Of the lines that are unique on both sides, as many are kept as can be.
EditsChainLongest == Texts!ChainLongest

\* The patch is exact, also where the alignment was given up: applying all
\* edits gives the new text and rejecting all of them the old one.
EditsReconstruct == Texts!Reconstructs

\* Rejecting one edit keeps every other, also the ones that touch it.
EditsRejectOne == Texts!RejectsOne

\* Discovery: an interval is closed exactly, listed in order, cut at its nearest
\* boundary, and fails only for a commit it needs; what is recorded as complete
\* is, and merge bases are those of the graph.
WalkTrue ==
  /\ WalkClosedExactly /\ WalkBoundaryNearest /\ WalkOrderTrue
  /\ WalkFailsRightly /\ WalkCompleteTrue /\ WalkBasesTrue

\* Pages: one after the other they list the history once and in order, say
\* truly whether there is more, and none is empty.
LogTrue == [](LogPagesAgree /\ LogEndTrue) /\ LogPagesAdvance

\* Edits: the anchors are a longest chain of the lines that are unique on both
\* sides, the edits rebuild the text, and rejecting one takes away that one only.
EditsTrue == EditsAligned /\ EditsChainLongest /\ EditsReconstruct /\ EditsRejectOne
=============================================================================
