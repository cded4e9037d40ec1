------------------------------- MODULE HistoryLog -------------------------------
(***************************************************************************)
(* log() and Page of src/src/history/mod.rs: the commits of a repository,  *)
(* listed page by page.  A page is computed anew from the first commit;    *)
(* the reader passes on how many rows it has.  Which commits can be read   *)
(* differs from page to page.                                              *)
(*                                                                         *)
(* An interval behind a merge is discovered in one step, as HistoryWalk    *)
(* shows.  Left out: histories of a region, where rows are suppressed.     *)
(***************************************************************************)
EXTENDS HistoryGraph

CONSTANTS
  Graphs, None,
  MaxLimit,     \* the longest page
  MaxMissing,   \* how many commits may be missing
  MaxFailures   \* how many pages end incomplete

VARIABLES
  graph,
  missing,   \* the commits that cannot be read during this page
  skip, limit, matched, rows, deferred,   \* Page
  commit,
  interval,  \* what is left to list of the interval, or None
  boundary,  \* where the interval ends, or None
  pc,        \* "ask", "commit", "parents" or "interval"
  seen,      \* the rows that the reader has
  ended,     \* the reader was told that there is no more
  failures

page == <<skip, limit, matched, rows, deferred>>
reader == <<seen, ended, failures>>
vars == <<graph, missing, page, commit, interval, boundary, pc, reader>>

Commits == DOMAIN graph
First == 1

Init ==
  /\ graph \in Graphs
  /\ missing = {} /\ skip = 0 /\ limit = 1 /\ matched = 0 /\ rows = <<>> /\ deferred = FALSE
  /\ commit = None /\ interval = None /\ boundary = None /\ pc = "ask"
  /\ seen = <<>> /\ ended = FALSE /\ failures = 0

-----------------------------------------------------------------------------
(* Page                                                                    *)

Full(now, late) == late \/ Len(now) >= limit

\* Mutant: the last row of the page before is listed again.
PushAgain(c) ==
  /\ matched' = matched + 1
  /\ \/ matched' < skip /\ UNCHANGED <<rows, deferred>>
     \/ matched' >= skip /\ rows' = Append(rows, c) /\ UNCHANGED deferred

\* Mutant: also the first row of a page may not fit.
PushNothing(c) ==
  /\ matched' = matched + 1
  /\ \/ matched' <= skip /\ UNCHANGED <<rows, deferred>>
     \/ matched' > skip /\ rows' = Append(rows, c) /\ UNCHANGED deferred
     \/ matched' > skip /\ deferred' = TRUE /\ UNCHANGED rows

\* Page::push(): a row that does not fit into the page is left to the next one.
Push(c) ==
  /\ matched' = matched + 1
  /\ \/ matched' <= skip /\ UNCHANGED <<rows, deferred>>
     \/ matched' > skip /\ rows' = Append(rows, c) /\ UNCHANGED deferred
     \/ matched' > skip /\ rows # <<>> /\ deferred' = TRUE /\ UNCHANGED rows

Quit == pc' = "ask" /\ commit' = None /\ interval' = None /\ boundary' = None

\* Page::end(), and the reader who asks for what comes after the rows it has
End(more, late) ==
  /\ seen' = seen \o rows' /\ ended' = ~(more \/ late)
  /\ Quit /\ UNCHANGED failures

\* A page that ends with an error: its rows count, and the reader asks again.
Incomplete ==
  /\ seen' = seen \o rows /\ failures' = failures + 1
  /\ Quit /\ UNCHANGED <<graph, missing, page, ended>>

-----------------------------------------------------------------------------
(* log()                                                                   *)

Ask ==
  /\ pc = "ask" /\ ~ended
  /\ missing' \in {set \in SUBSET (Commits \ {First}) :
                     Cardinality(set) <= IF failures < MaxFailures THEN MaxMissing ELSE 0}
  /\ limit' \in 1 .. MaxLimit
  /\ skip' = Len(seen) /\ matched' = 0 /\ rows' = <<>> /\ deferred' = FALSE
  /\ commit' = First /\ pc' = "commit"
  /\ UNCHANGED <<graph, interval, boundary, reader>>

Readable == Commits \ missing

\* Graph::merge(), without the source of the boundary: the nearest join of what
\* can be read, or the whole rest, or an error.
Discover(tips) ==
  LET join == NearestJoin(graph, Readable, Range(tips), None) IN
  IF join = None /\ ~(Above(graph, Commits, Range(tips), None) \subseteq Readable)
    THEN [error |-> TRUE, order |-> <<>>, boundary |-> None]
    ELSE [error |-> FALSE, order |-> Listed(graph, tips, join), boundary |-> join]

\* The commit is listed; then its parents are followed.
Visit ==
  /\ pc = "commit" /\ Push(commit)
  /\ \/ /\ graph[commit] = <<>> /\ End(FALSE, deferred')
     \/ /\ graph[commit] # <<>> /\ Full(rows', deferred') /\ End(TRUE, deferred')
     \/ /\ graph[commit] # <<>> /\ ~Full(rows', deferred')
        /\ pc' = "parents" /\ UNCHANGED <<commit, interval, boundary, reader>>
  /\ UNCHANGED <<graph, missing, skip, limit>>

Merge ==
  /\ pc = "parents" /\ Len(graph[commit]) > 1
  /\ LET found == Discover(graph[commit]) IN
       /\ ~found.error
       /\ interval' = found.order /\ boundary' = found.boundary
       /\ pc' = "interval"
  /\ UNCHANGED <<graph, missing, page, commit, reader>>

MergeFails == pc = "parents" /\ Len(graph[commit]) > 1 /\ Discover(graph[commit]).error /\ Incomplete

\* Mutant: the interval is taken for the rest of the history.
MoreInInterval(rest, cut) == rest # <<>>

MoreAfter(rest, cut) == rest # <<>> \/ cut # None

\* The commits of the interval are listed; the merge itself was already.
List ==
  /\ pc = "interval" /\ interval # <<>>
  /\ Push(Head(interval))
  /\ IF Full(rows', deferred') THEN End(MoreAfter(Tail(interval), boundary), deferred')
     ELSE interval' = Tail(interval) /\ UNCHANGED <<pc, commit, boundary, reader>>
  /\ UNCHANGED <<graph, missing, skip, limit>>

\* Everything behind the merge was listed.
Exhausted ==
  /\ pc = "interval" /\ interval = <<>> /\ boundary = None
  /\ UNCHANGED <<graph, missing, page>> /\ End(FALSE, deferred)

Continue(parent) ==
  /\ parent \in Readable
  /\ commit' = parent /\ pc' = "commit" /\ interval' = None /\ boundary' = None
  /\ UNCHANGED <<graph, missing, page, reader>>

\* Graph::boundary_commit(), or the only parent is read.
Step ==
  \/ pc = "interval" /\ interval = <<>> /\ boundary # None /\ Continue(boundary)
  \/ pc = "parents" /\ Len(graph[commit]) = 1 /\ Continue(graph[commit][1])

StepFails ==
  /\ \/ pc = "interval" /\ interval = <<>> /\ boundary \in missing
     \/ pc = "parents" /\ Len(graph[commit]) = 1 /\ graph[commit][1] \in missing
  /\ Incomplete

Next ==
  \/ Ask \/ Visit \/ Merge \/ MergeFails
  \/ List \/ Exhausted \/ Step \/ StepFails

Spec == Init /\ [][Next]_vars

-----------------------------------------------------------------------------
(* Properties                                                              *)

TypeOK ==
  /\ pc \in {"ask", "commit", "parents", "interval"}
  /\ commit \in {None} \union Commits
  /\ Len(rows) <= limit

\* What the reader has of all pages together never names a commit twice, and
\* names it after every commit that leads to it, however long the pages were
\* and whatever was missing while they were computed.
PagesAgree ==
  pc = "ask" => \A i \in DOMAIN seen :
                  Ancestors(graph, seen[i]) \intersect Range(SubSeq(seen, 1, i - 1)) = {}

\* The reader is told that there is no more only when it has every ancestor.
EndTrue == ended => Range(seen) = Ancestors(graph, First)

\* Every page brings the reader a row, or the end, or says that it failed: the
\* reader who asks on has everything after finitely many pages.
PagesAdvance ==
  [][pc # "ask" /\ pc' = "ask" => seen' # seen \/ ended' \/ failures' # failures]_vars
=============================================================================
