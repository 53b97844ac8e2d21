----------------------------- MODULE EdgeLists -----------------------------
(***************************************************************************)
(* The loader of edge-list files.  A line is a record: kind is "pair" when *)
(* it parses as two ids a and b, "skip" when it is empty or a comment,     *)
(* else "bad".  The file's ids stand for the nodes minted for them, which  *)
(* come in the same order.                                                 *)
(***************************************************************************)
EXTENDS Graph, SortedLists

\* Mutant: an edge listed in both directions is two edges.
Directed(line) == <<line.a, line.b>>

\* Edges are kept as unordered pairs, the smaller id first.
PairOf(line) == IF line.a <= line.b THEN <<line.a, line.b>> ELSE <<line.b, line.a>>

Earlier(p, q) == p[1] < q[1] \/ (p[1] = q[1] /\ p[2] < q[2])

\* The pairs in the order of their first, then of their second id.
InPairOrder(pairs) ==
  [i \in 1..Cardinality(pairs) |->
     CHOOSE p \in pairs : Cardinality({q \in pairs : Earlier(q, p)}) = i - 1]

\* from_str: the one source, or none when a line is malformed.
EdgeListOf(lines) ==
  LET data  == {l \in ToSet(lines) : l.kind # "skip"}
      ids   == Ascending(UNION {{l.a, l.b} : l \in data})
      pairs == {PairOf(l) : l \in data}
  IN  IF \E l \in data : l.kind = "bad" THEN {}
      ELSE {[nodes |-> ids, edges |-> InPairOrder(pairs),
             label |-> [u \in ToSet(ids) |-> u]]}
=============================================================================
