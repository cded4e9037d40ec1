------------------------------- MODULE LineEdits -------------------------------
(***************************************************************************)
(* src/src/history/sequence.rs: the alignment of two sequences of lines,   *)
(* and how src/src/history/merges.rs cuts it into edits that are accepted  *)
(* or rejected one by one.                                                 *)
(*                                                                         *)
(* Lines are members of a small set.  Ranges are half open and count from  *)
(* 0, as in the code: line i of a sequence is its element i + 1.           *)
(***************************************************************************)
EXTENDS Integers, FiniteSets, SequencesExt

CONSTANTS
  Lines,
  MaxLength,  \* of a sequence
  MaxExact    \* the largest product of two lengths that is aligned exactly

VARIABLES
  a, b,     \* the sequences
  regions,  \* pending: pairs of ranges that are left to align
  out       \* the pairs of lines that were matched

vars == <<a, b, regions, out>>

Region(i, iEnd, j, jEnd) == [i |-> i, iEnd |-> iEnd, j |-> j, jEnd |-> jEnd]
Same(i, j) == a[i + 1] = b[j + 1]

Init ==
  /\ a \in BoundedSeq(Lines, MaxLength) /\ b \in BoundedSeq(Lines, MaxLength)
  /\ regions = <<Region(0, Len(a), 0, Len(b))>>
  /\ out = {}

-----------------------------------------------------------------------------
(* matches()                                                               *)

Least(x, y) == IF x < y THEN x ELSE y
Shorter(r) == Least(r.iEnd - r.i, r.jEnd - r.j)

Prefix(r) ==
  CHOOSE n \in 0 .. Shorter(r) :
    /\ \A k \in 0 .. n - 1 : Same(r.i + k, r.j + k)
    /\ n < Shorter(r) => ~Same(r.i + n, r.j + n)

Suffix(r) ==
  CHOOSE n \in 0 .. Shorter(r) :
    /\ \A k \in 1 .. n : Same(r.iEnd - k, r.jEnd - k)
    /\ n < Shorter(r) => ~Same(r.iEnd - n - 1, r.jEnd - n - 1)

\* The lines that occur once in either range, in the order of the first
Unique(r) ==
  LET once == {p \in (r.i .. r.iEnd - 1) \X (r.j .. r.jEnd - 1) :
                 /\ Same(p[1], p[2])
                 /\ \A i \in (r.i .. r.iEnd - 1) \ {p[1]} : ~Same(i, p[2])
                 /\ \A j \in (r.j .. r.jEnd - 1) \ {p[2]} : ~Same(p[1], j)}
  IN SetToSortSeq(once, LAMBDA p, q : p[1] < q[1])

\* Mutant: a chain is only ever extended.
ExtendLast(tails, p) ==
  LET last == IF tails = <<>> THEN <<>> ELSE Last(tails) IN
  IF last = <<>> \/ Last(last)[2] < p[2] THEN Append(tails, Append(last, p)) ELSE tails

\* The shortest chain that p cannot extend is replaced by one that ends with p.
Extend(tails, p) ==
  LET k == Cardinality({n \in DOMAIN tails : Last(tails[n])[2] < p[2]})
      chain == Append(IF k = 0 THEN <<>> ELSE tails[k], p)
  IN IF k = Len(tails) THEN Append(tails, chain) ELSE [tails EXCEPT ![k + 1] = chain]

\* The patience chain: the last of the tails
Chain(pairs) == Last(FoldLeft(Extend, <<>>, pairs))

\* Mutant: a gap begins with the line that was matched.
GapsOverlap(r, chain) ==
  LET ends == <<<<r.i, r.j>>>> \o chain \o <<<<r.iEnd, r.jEnd>>>>
      Gap(n) == Region(ends[n][1], ends[n + 1][1], ends[n][2], ends[n + 1][2])
  IN SelectSeq([n \in 1 .. Len(chain) + 1 |-> Gap(n)], LAMBDA g : g.i < g.iEnd /\ g.j < g.jEnd)

\* What is left between the lines of the chain
Gaps(r, chain) ==
  LET ends == <<<<r.i - 1, r.j - 1>>>> \o chain \o <<<<r.iEnd, r.jEnd>>>>
      Gap(n) == Region(ends[n][1] + 1, ends[n + 1][1], ends[n][2] + 1, ends[n + 1][2])
  IN SelectSeq([n \in 1 .. Len(chain) + 1 |-> Gap(n)], LAMBDA g : g.i < g.iEnd /\ g.j < g.jEnd)

RECURSIVE Length(_, _, _), Walk(_, _, _)

\* dp: the longest alignment of what follows two lines
Length(r, i, j) ==
  IF i = r.iEnd \/ j = r.jEnd THEN 0
  ELSE IF Same(i, j) THEN 1 + Length(r, i + 1, j + 1)
  ELSE LET skip == Length(r, i + 1, j) IN
       LET stay == Length(r, i, j + 1) IN IF skip < stay THEN stay ELSE skip

Walk(r, i, j) ==
  IF i = r.iEnd \/ j = r.jEnd THEN {}
  ELSE IF Same(i, j) THEN {<<i, j>>} \union Walk(r, i + 1, j + 1)
  ELSE IF Length(r, i + 1, j) >= Length(r, i, j + 1) THEN Walk(r, i + 1, j) ELSE Walk(r, i, j + 1)

\* A region too large for a table is left as one replacement.
Exact(r) ==
  IF (r.iEnd - r.i) * (r.jEnd - r.j) <= MaxExact THEN Walk(r, r.i, r.j) ELSE {}

\* One turn of the loop: equal ends are matched; the rest is split by the lines
\* that are unique in it, or aligned at once.
Refine ==
  /\ regions # <<>>
  /\ LET whole == Last(regions)
         n == Prefix(whole)
         head == Region(whole.i + n, whole.iEnd, whole.j + n, whole.jEnd)
         m == Suffix(head)
         r == Region(head.i, head.iEnd - m, head.j, head.jEnd - m)
         ends == {<<whole.i + k, whole.j + k>> : k \in 0 .. n - 1}
                 \union {<<head.iEnd - k, head.jEnd - k>> : k \in 1 .. m}
         left == Front(regions)
     IN IF r.i = r.iEnd \/ r.j = r.jEnd THEN out' = out \union ends /\ regions' = left
        ELSE IF Unique(r) = <<>> THEN out' = out \union ends \union Exact(r) /\ regions' = left
        ELSE /\ out' = out \union ends \union Range(Chain(Unique(r)))
             /\ regions' = left \o Gaps(r, Chain(Unique(r)))
  /\ UNCHANGED <<a, b>>

Next == Refine

Spec == Init /\ [][Next]_vars

-----------------------------------------------------------------------------
(* edits()                                                                 *)

Slice(seq, from, to) == SubSeq(seq, from + 1, to)

\* Mutant: equal lines between two edits are taken into the second.
EditsFused(pairs) ==
  LET ends == <<<<-1, -1>>>> \o pairs \o <<<<Len(a), Len(b)>>>>
      Edit(n) == [base |-> <<ends[n][1] + 1, ends[n + 1][1]>>,
                  lines |-> Slice(b, IF n = 1 THEN 0 ELSE ends[n][2], ends[n + 1][2])]
  IN SelectSeq([n \in 1 .. Len(pairs) + 1 |-> Edit(n)],
               LAMBDA e : e.base[1] < e.base[2] \/ e.lines # <<>>)

\* edits() of sequence.rs
Edits(pairs) ==
  LET ends == <<<<-1, -1>>>> \o pairs \o <<<<Len(a), Len(b)>>>>
      Edit(n) == [base |-> <<ends[n][1] + 1, ends[n + 1][1]>>,
                  lines |-> Slice(b, ends[n][2] + 1, ends[n + 1][2])]
  IN SelectSeq([n \in 1 .. Len(pairs) + 1 |-> Edit(n)],
               LAMBDA e : e.base[1] < e.base[2] \/ e.lines # <<>>)

\* edits() of merges.rs: replacements of equal length are cut line by line.
SplitEdits ==
  LET pairs == SetToSortSeq(out, LAMBDA p, q : p[1] < q[1])
      Cut(e) == IF e.base[2] - e.base[1] # Len(e.lines) THEN <<e>>
                ELSE [k \in 1 .. Len(e.lines) |->
                        [base |-> <<e.base[1] + k - 1, e.base[1] + k>>, lines |-> <<e.lines[k]>>]]
  IN FlattenSeq([n \in DOMAIN Edits(pairs) |-> Cut(Edits(pairs)[n])])

\* Mutant: an edit that touches a rejected range is rejected too.
InsideOrAt(edit, mask) == mask[1] <= edit[2] /\ edit[1] <= mask[2]

\* inside()
Inside(edit, mask) ==
  IF mask[1] = mask[2] THEN edit = mask
  ELSE IF edit[1] = edit[2] THEN mask[1] < edit[1] /\ edit[1] < mask[2]
  ELSE mask[1] <= edit[1] /\ edit[2] <= mask[2]

\* retained(): the edits that no mask covers are applied.
Retained(edits, masks) ==
  LET Kept(e) == \A mask \in masks : ~Inside(e.base, mask)
      Apply(done, e) == [text |-> done.text \o Slice(a, done.at, e.base[1]) \o e.lines, at |-> e.base[2]]
      done == FoldLeft(Apply, [text |-> <<>>, at |-> 0], SelectSeq(edits, Kept))
  IN done.text \o Slice(a, done.at, Len(a))

-----------------------------------------------------------------------------
(* Properties                                                              *)

TypeOK ==
  /\ out \subseteq (0 .. MaxLength - 1) \X (0 .. MaxLength - 1)
  /\ \A n \in DOMAIN regions : Shorter(regions[n]) >= 0

Before(p, q) == p[1] < q[1] /\ p[2] < q[2]

\* Whatever was matched so far is equal and crosses nothing, and what is left
\* to align lies between the matches and apart from each other.
Aligned ==
  /\ \A p \in out : Same(p[1], p[2])
  /\ \A p, q \in out : p = q \/ Before(p, q) \/ Before(q, p)
  /\ \A n \in DOMAIN regions :
       LET r == regions[n] IN
         /\ \A p \in out : Before(p, <<r.i, r.j>>) \/ (p[1] >= r.iEnd /\ p[2] >= r.jEnd)
         /\ \A m \in DOMAIN regions :
              m < n => regions[m].iEnd <= r.i /\ regions[m].jEnd <= r.j

Increasing(set) == \A p, q \in set : p = q \/ Before(p, q) \/ Before(q, p)

\* Of the lines that are unique on both sides, as many are kept as can be.
ChainLongest ==
  \A n \in DOMAIN regions :
    LET unique == Unique(regions[n]) IN
    unique # <<>> =>
      /\ Increasing(Range(Chain(unique)))
      /\ \A set \in SUBSET Range(unique) : Increasing(set) => Cardinality(set) <= Len(Chain(unique))

\* The patch is exact, also where the alignment was given up: applying all
\* edits gives the new text and rejecting all of them the old one.
Reconstructs ==
  regions = <<>> =>
    /\ Retained(SplitEdits, {}) = b
    /\ Retained(SplitEdits, {SplitEdits[n].base : n \in DOMAIN SplitEdits}) = a

\* Rejecting one edit keeps every other, also the ones that touch it.
RejectsOne ==
  regions = <<>> =>
    \A n \in DOMAIN SplitEdits :
      {m \in DOMAIN SplitEdits : Inside(SplitEdits[m].base, SplitEdits[n].base)} = {n}
=============================================================================
