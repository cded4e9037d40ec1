------------------------------ MODULE HistoryWalk ------------------------------
(***************************************************************************)
(* src/src/history/walk.rs: the discovery of a closed interval of a commit *)
(* graph.  Commits are read breadth first.  Those whose parents all        *)
(* continue in one place are reduced into a group, and the interval is     *)
(* closed when the tips are in one group: a commit is found that every     *)
(* path passes.  A commit may be missing until it was read once.           *)
(*                                                                         *)
(* A group is given by its representative; path compression and the bytes  *)
(* that are charged are left out, a request that exceeds them or is        *)
(* cancelled ends anywhere.                                                *)
(***************************************************************************)
EXTENDS HistoryGraph

CONSTANTS
  Graphs,       \* the commit graphs
  None,
  Tips, Heads,  \* the sequences of tips, and the merges, that are asked for
  MaxFlaky,     \* how many commits may be missing
  MaxRequests

VARIABLES
  graph,
  flaky,     \* the commits that may be missing
  source,    \* the commit that closes the interval is wanted too
  head,      \* the merge whose parents are followed, or None
  tips,      \* Discovery: where the paths begin
  nodes,     \* the commits that were met, in order
  next,
  read,      \* the commits that were read
  failed, failure,     \* the reads that failed, and the first of them
  group,     \* commit -> the representative of its group
  selected,  \* representatives -> the group has a tip
  groups,    \* how many groups have a tip
  pending,   \* commit -> in how many groups its parents are
  waiting,   \* representatives -> the commits with a parent in the group
  ready,     \* commits whose parents are all in one group
  phase,     \* "idle", "read", "reduce" or "finish"
  boundary,
  result,    \* the last answer
  complete, gaps,      \* Store: commits with all their ancestors; with a missing parent
  got,       \* every commit that was ever read
  requests

input == <<graph, flaky>>
request == <<source, head, tips>>
reads == <<nodes, read, failed, failure>>
groupings == <<group, selected, groups, pending, waiting, ready>>
store == <<complete, gaps, got>>
vars == <<input, request, reads, groupings, next, phase, boundary, result, store, requests>>

Commits == DOMAIN graph
Parents(c) == Range(graph[c])

Init ==
  /\ graph \in Graphs
  /\ flaky \in {set \in SUBSET DOMAIN graph : Cardinality(set) <= MaxFlaky}
  /\ source = FALSE /\ head = None /\ tips = <<>>
  /\ nodes = <<>> /\ next = 1 /\ read = {} /\ failed = {} /\ failure = None
  /\ group = [c \in Commits |-> c] /\ selected = [c \in Commits |-> FALSE] /\ groups = 0
  /\ pending = [c \in Commits |-> 0] /\ waiting = [c \in Commits |-> {}] /\ ready = <<>>
  /\ phase = "idle" /\ boundary = None /\ result = None
  /\ complete = {} /\ gaps = {} /\ got = {} /\ requests = 0

-----------------------------------------------------------------------------
(* Discovery::new()                                                        *)

Start(roots) ==
  /\ tips' = FoldLeft(LAMBDA seq, c : IF c \in Range(seq) THEN seq ELSE Append(seq, c), <<>>, roots)
  /\ nodes' = tips' /\ next' = 1 /\ read' = {} /\ failed' = {} /\ failure' = None
  /\ group' = [c \in Commits |-> c]
  /\ selected' = [c \in Commits |-> c \in Range(tips')] /\ groups' = Len(tips')
  /\ pending' = [c \in Commits |-> 0] /\ waiting' = [c \in Commits |-> {}] /\ ready' = <<>>
  /\ boundary' = IF Len(tips') = 1 THEN Head(tips') ELSE None
  /\ phase' = IF Len(tips') = 1 THEN "finish" ELSE "read"
  /\ result' = None

Begin ==
  /\ phase = "idle" /\ requests < MaxRequests /\ requests' = requests + 1
  /\ source' \in BOOLEAN
  /\ \/ \E roots \in Tips : head' = None /\ Start(roots) /\ UNCHANGED got
     \/ \E c \in Heads :
          /\ graph[c] # <<>> /\ head' = c /\ Start(graph[c])
          /\ got' = got \union {c}
  /\ UNCHANGED <<input, complete, gaps>>

-----------------------------------------------------------------------------
(* Answers                                                                 *)

\* Mutant: every commit of the interval counts as complete.
CertifyAll(order, known) == known \union Range(order)

RECURSIVE Certify(_, _)

\* Graph::certify(): parents first, only what was read.
Certify(order, known) ==
  IF order = <<>> THEN known
  ELSE Certify(Front(order), IF Parents(Last(order)) \subseteq known THEN known \union {Last(order)} ELSE known)

\* Graph::discover(), with an error: only a failed read is a gap.
Error(kind, missing) ==
  /\ result' = [error |-> kind, order |-> <<>>]
  /\ gaps' = gaps \union {c \in read \union ({head} \ {None}) : Parents(c) \intersect missing # {}}
  /\ failed' = missing /\ phase' = "idle"
  /\ UNCHANGED <<complete, boundary>>

\* Graph::discover(), with an interval
Answer(known) ==
  LET interval == Listed(graph, tips, boundary)
      order == (IF head = None THEN <<>> ELSE <<head>>) \o interval
      certain == Certify(order \o (IF boundary \in known THEN <<boundary>> ELSE <<>>), complete)
  IN /\ result' = [error |-> None, order |-> interval]
     /\ complete' = certain
     /\ gaps' = gaps \ certain
     /\ phase' = "idle"
     /\ UNCHANGED <<failed, boundary>>

-----------------------------------------------------------------------------
(* Discovery::run()                                                        *)

\* Mutant: a read that fails ends the discovery.
MissingEnds(c) ==
  /\ failed' = failed \union {c} /\ failure' = c
  /\ next' = Len(nodes) + 1
  /\ UNCHANGED <<nodes, read, groupings, phase, got>>

Missing(c) ==
  /\ failed' = failed \union {c}
  /\ failure' = IF failure = None THEN c ELSE failure
  /\ next' = next + 1
  /\ UNCHANGED <<nodes, read, groupings, phase, got>>

\* Mutant: the groups of the parents are not told apart from the parents.
PendingParents(c) == Cardinality(Parents(c))

PendingGroups(c) == Cardinality({group[p] : p \in Parents(c)})

\* Discovery::expand(), up to the reductions
Expand(c) ==
  LET New(p) == p \notin Range(nodes) IN
  /\ nodes' = nodes \o SelectSeq(graph[c], New)
  /\ read' = read \union {c} /\ got' = got \union {c}
  /\ pending' = [pending EXCEPT ![c] = PendingGroups(c)]
  /\ waiting' = [g \in Commits |-> IF \E p \in Parents(c) : group[p] = g THEN waiting[g] \union {c} ELSE waiting[g]]
  /\ ready' = IF pending'[c] = 1 THEN Append(ready, c) ELSE ready
  /\ phase' = "reduce"
  /\ UNCHANGED <<failed, failure, group, selected, groups, next>>

Read ==
  /\ phase = "read" /\ next <= Len(nodes)
  /\ \/ Expand(nodes[next])
     \/ nodes[next] \in flaky \ got /\ Missing(nodes[next])
  /\ UNCHANGED <<input, request, boundary, result, complete, gaps, requests>>

\* Discovery::join(): group b goes into group a.
JoinInto(a, b, left) ==
  LET both == left[a] \intersect left[b] IN
  /\ group' = [c \in Commits |-> IF group[c] = b THEN a ELSE group[c]]
  /\ selected' = [selected EXCEPT ![a] = @ \/ selected[b]]
  /\ groups' = IF selected[a] /\ selected[b] THEN groups - 1 ELSE groups
  /\ waiting' = [left EXCEPT ![a] = @ \union left[b], ![b] = {}]
  /\ pending' = [c \in Commits |-> IF c \in both THEN pending[c] - 1 ELSE pending[c]]
  /\ ready' = Front(ready) \o SetToSeq({c \in both : pending'[c] = 1})

Size(g) == Cardinality({c \in Commits : group[c] = g})

\* A commit is reduced into the group of its parents.
Reduce ==
  /\ phase = "reduce" /\ ready # <<>>
  /\ LET c == Last(ready)
         a == group[c]
         b == group[Head(graph[c])]
         left == [waiting EXCEPT ![b] = @ \ {c}]
     IN IF a = b THEN waiting' = left /\ ready' = Front(ready) /\ UNCHANGED <<group, selected, groups, pending>>
        ELSE IF Size(a) < Size(b) THEN JoinInto(b, a, left) ELSE JoinInto(a, b, left)
  /\ UNCHANGED <<input, request, reads, next, phase, boundary, result, store, requests>>

\* Mutant: the group's representative closes the interval.
CutGroup(done, frontier) == CHOOSE g \in {group[c] : c \in frontier} : TRUE

RECURSIVE Cut(_, _)

\* Discovery::cut(): children first, until one commit is left to pass.
Cut(done, frontier) ==
  IF Cardinality(frontier) = 1 /\ done # {} THEN CHOOSE c \in frontier : TRUE
  ELSE LET Due(c) ==
             /\ c \in read \ done /\ graph[c] # <<>>
             /\ \A child \in read \ done : c \notin Parents(child)
           due == SelectSeq(nodes, Due)
       IN IF due = <<>> THEN None
          ELSE Cut(done \union {Head(due)}, (frontier \ {Head(due)}) \union Parents(Head(due)))

Close ==
  /\ phase = "reduce" /\ ready = <<>>
  /\ IF groups = 1
       THEN boundary' = Cut({}, Range(tips)) /\ phase' = "finish" /\ UNCHANGED next
       ELSE next' = next + 1 /\ phase' = "read" /\ UNCHANGED boundary
  /\ UNCHANGED <<input, request, reads, groupings, result, store, requests>>

\* Every path was followed to its end.
Exhaust ==
  /\ phase = "read" /\ next > Len(nodes)
  /\ IF failure # None THEN Error("missing", failed)
     ELSE phase' = "finish" /\ UNCHANGED <<failed, boundary, result, complete, gaps>>
  /\ UNCHANGED <<input, request, nodes, read, failure, groupings, next, got, requests>>

\* Discovery::finish()
Finish ==
  /\ phase = "finish"
  /\ IF boundary = None \/ ~source \/ boundary \in read THEN Answer(read) /\ UNCHANGED got
     ELSE IF failure = boundary THEN Error("missing", failed) /\ UNCHANGED got
     ELSE \/ Answer(read \union {boundary}) /\ got' = got \union {boundary}
          \/ boundary \in flaky \ got /\ Error("missing", failed \union {boundary}) /\ UNCHANGED got
  /\ UNCHANGED <<input, request, nodes, read, failure, groupings, next, requests>>

\* The request is cancelled, or exceeds its memory.
GiveUp ==
  /\ phase # "idle" /\ Error("bound", failed)
  /\ UNCHANGED <<input, request, nodes, read, failure, groupings, next, got, requests>>

Next == Begin \/ Read \/ Reduce \/ Close \/ Exhaust \/ Finish \/ GiveUp

Spec == Init /\ [][Next]_vars

-----------------------------------------------------------------------------
(* Properties                                                              *)

TypeOK ==
  /\ phase \in {"idle", "read", "reduce", "finish"}
  /\ boundary \in {None} \union Commits
  /\ \A c \in Commits : group[group[c]] = group[c]
  /\ groups = Cardinality({group[c] : c \in Range(tips)})

\* Between two reads the tips are in one group exactly if some commit is passed
\* by every path: discovery neither reads on after the interval is closed nor
\* stops before, whatever was missing.
ClosedExactly ==
  phase # "idle" /\ Len(tips) > 1 /\ ready = <<>>
    => (groups = 1 <=> Joins(graph, read, Range(tips)) # {})

\* The interval ends at the first commit that all paths pass, or nowhere.
BoundaryNearest ==
  phase = "finish" => boundary = NearestJoin(graph, read, Range(tips), None)

\* An answer lists the whole interval, children first, all of it read, and
\* nothing of what was read ahead.
OrderTrue ==
  result # None /\ result.error = None =>
    /\ Range(result.order) = Above(graph, Commits, Range(tips), boundary)
    /\ Range(result.order) \subseteq read
    /\ \A i, j \in DOMAIN result.order : graph[result.order[i]] # <<>> /\ result.order[j] \in Parents(result.order[i]) => i < j

\* A request fails for a missing commit only if the interval cannot be closed
\* without it.
FailsRightly ==
  result # None /\ result.error = "missing" =>
    \/ Joins(graph, Commits \ failed, Range(tips)) = {} /\ failed # {}
    \/ source /\ boundary \in failed

\* What is recorded as complete history was all read, in this request or an
\* earlier one, and is never recorded as a gap too.
CompleteTrue ==
  /\ \A c \in complete : Ancestors(graph, c) \subseteq got
  /\ complete \intersect gaps = {}

-----------------------------------------------------------------------------
(* Merge bases                                                             *)

\* Graph::ancestors()
Known(c) ==
  Grow(graph, Range(result.order) \ {boundary}, {}, {c})

\* Mutant: every common ancestor is a base.
CommonAncestors(from) ==
  LET common == {c \in Commits : \A tip \in from : c \in Known(tip)}
  IN {c \in common : c \in Range(result.order) \union {boundary}}

\* Graph::bases()
Bases(from) ==
  LET common == {c \in Range(result.order) \union ({boundary} \ {None}) : \A tip \in from : c \in Known(tip)}
  IN {c \in common : \A other \in common \ {c} : c \notin Known(other)}

\* The bases of a merge are the common ancestors of its parents that no other
\* common ancestor has behind it, as if the whole graph had been read.
BasesTrue ==
  result # None /\ result.error = None =>
    LET from == Range(tips)
        common == {c \in Commits : \A tip \in from : c \in Ancestors(graph, tip)}
    IN Bases(from) = {c \in common : \A other \in common \ {c} : c \notin Ancestors(graph, other)}
=============================================================================
