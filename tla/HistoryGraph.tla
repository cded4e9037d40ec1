------------------------------ MODULE HistoryGraph ------------------------------
(***************************************************************************)
(* Commit graphs, and the order in which src/src/history/walk.rs lists an  *)
(* interval of one.  A graph gives every commit the sequence of its        *)
(* parents.  `known' are the commits that were read: the parents of others *)
(* are not known.                                                          *)
(***************************************************************************)
EXTENDS Integers, FiniteSets, SequencesExt

RECURSIVE Grow(_, _, _, _), Preorder(_, _, _, _), Sorted(_, _, _)

\* All that is reached from a set, through known commits, without a cut.
Grow(graph, known, cuts, set) ==
  LET more == (set \union UNION {Range(graph[c]) : c \in set \intersect known}) \ cuts
  IN IF more = set THEN set ELSE Grow(graph, known, cuts, more)

Above(graph, known, tips, cut) == Grow(graph, known, {cut}, tips \ {cut})

\* The commits that every path from the tips passes.  A root, and a commit that
\* was not read, ends a path.
Joins(graph, known, tips) ==
  {join \in DOMAIN graph :
     \A c \in Above(graph, known, tips, join) : c \in known /\ graph[c] # <<>>}

\* The first of them; `none' if there is none.
NearestJoin(graph, known, tips, none) ==
  LET joins == Joins(graph, known, tips)
      above == [join \in joins |-> Above(graph, known, tips, join)]
  IN IF joins = {} THEN none ELSE CHOOSE join \in joins : \A other \in joins : above[join] \subseteq above[other]

Ancestors(graph, c) == Grow(graph, DOMAIN graph, {}, {c})

\* Depth first in the order of the parents, down to the cut.
Preorder(graph, cut, pending, ranked) ==
  IF pending = <<>> THEN ranked
  ELSE LET c == Head(pending) IN
       IF c = cut \/ c \in Range(ranked) THEN Preorder(graph, cut, Tail(pending), ranked)
       ELSE Preorder(graph, cut, graph[c] \o Tail(pending), Append(ranked, c))

\* Children before parents, by rank otherwise.
Sorted(graph, ranked, order) ==
  LET left == Range(ranked) \ Range(order)
      Ready(c) == c \in left /\ \A child \in left : c \notin Range(graph[child])
      ready == SelectSeq(ranked, Ready)
  IN IF ready = <<>> THEN order ELSE Sorted(graph, ranked, Append(order, Head(ready)))

\* Mutant: the commits are listed in the order in which they are met.
ListedByRank(graph, tips, cut) == Preorder(graph, cut, tips, <<>>)

\* The interval between the tips and the cut, as Discovery::finish() lists it.
Listed(graph, tips, cut) == Sorted(graph, Preorder(graph, cut, tips, <<>>), <<>>)
=============================================================================
