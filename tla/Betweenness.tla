---------------------------- MODULE Betweenness ----------------------------
(***************************************************************************)
(* approximate_betweenness: for each source a breadth-first search that    *)
(* counts shortest paths, and the accumulation of dependencies back along  *)
(* it.  The scratch vectors are made once and reused by all sources.       *)
(*                                                                         *)
(* The floats are kept as whole numbers of 1/Unit, which is exact while    *)
(* every path count and every number of sources divides it.                *)
(***************************************************************************)
EXTENDS Graph, SortedLists

Unit == 144

\* Mutant: parallel edges lead to a neighbour several times.
EveryEdge(g, u) ==
  FlattenSeq([v \in 1..Cardinality(NodesIn(g)) |->
                [k \in 1..(IF v = u THEN 0 ELSE g.mult[u, v]) |-> v]])

\* The distinct neighbours, without the node itself.
Adjacent(g, u) == Ascending(Neighbours(g, u) \ {u})

All(g, x) == [v \in NodesIn(g) |-> x]

NoScratch(g) ==
  [sigma |-> All(g, 0), dist |-> All(g, -1), preds |-> All(g, << >>),
   delta |-> All(g, 0), order |-> << >>, queue |-> << >>]

\* Mutant: the dependencies of the last source are left.
KeepsDelta(g, s, scratch) ==
  [sigma |-> [All(g, 0) EXCEPT ![s] = 1], dist |-> [All(g, -1) EXCEPT ![s] = 0],
   preds |-> All(g, << >>), delta |-> scratch.delta, order |-> << >>, queue |-> <<s>>]

\* The vectors are cleared and source s is queued.
Cleared(g, s, scratch) ==
  [sigma |-> [All(g, 0) EXCEPT ![s] = 1], dist |-> [All(g, -1) EXCEPT ![s] = 0],
   preds |-> All(g, << >>), delta |-> All(g, 0), order |-> << >>, queue |-> <<s>>]

\* Phase 1: one node is taken from the queue.
Pop(g, b) ==
  LET v == Head(b.queue)
      Reach(c, w) ==
        IF c.dist[w] >= 0 THEN c
        ELSE [c EXCEPT !.dist[w] = c.dist[v] + 1, !.queue = Append(@, w)]
      Count(c, w) ==
        IF c.dist[w] # c.dist[v] + 1 THEN c
        ELSE [c EXCEPT !.sigma[w] = @ + c.sigma[v], !.preds[w] = Append(@, v)]
  IN  FoldLeft(LAMBDA c, w : Count(Reach(c, w), w),
               [b EXCEPT !.queue = Tail(@), !.order = Append(@, v)], Adjacent(g, v))

\* Every node is queued at most once.
Searched(g, b) ==
  FoldLeft(LAMBDA c, k : IF c.queue = << >> THEN c ELSE Pop(g, c), b, Ascending(NodesIn(g)))

\* Phase 2: one node hands its dependency to its predecessors.
HandBack(b, w) ==
  FoldLeft(LAMBDA c, v :
             [c EXCEPT !.delta[v] = @ + (b.sigma[v] * (Unit + b.delta[w])) \div b.sigma[w]],
           b, b.preds[w])

Accumulated(b) == FoldLeft(HandBack, b, Reverse(b.order))

\* One source; scores grow by the dependencies of the other nodes it reached.
FromSource(g, run, s) ==
  LET b == Accumulated(Searched(g, Cleared(g, s, run.scratch)))
  IN  [scratch |-> b,
       scores |-> [v \in NodesIn(g) |-> run.scores[v] + (IF v = s THEN 0 ELSE b.delta[v])]]

-----------------------------------------------------------------------------
(* The sources.                                                            *)

Exchanged(places, i, j) == [places EXCEPT ![i] = places[j], ![j] = places[i]]

\* pick_sources: the sets of sources that seeds may pick.  Only the first
\* places are shuffled, each with one of the places not yet fixed; the order
\* is lost when the picks are sorted.
PickSources(n, samples) ==
  IF samples = 0 THEN {{}}
  ELSE IF samples >= n THEN {1..n}
  ELSE LET Fix(orders, i) == {Exchanged(o, i, j) : o \in orders, j \in i..n}
           mixed == FoldLeft(Fix, {[i \in 1..n |-> i]}, [i \in 1..samples |-> i])
       IN  {{o[i] : i \in 1..samples} : o \in mixed}

\* The scores from a set of sources, scaled up to all nodes.
Scores(g, sources) ==
  LET run == FoldLeft(LAMBDA r, s : FromSource(g, r, s),
                      [scratch |-> NoScratch(g), scores |-> All(g, 0)], Ascending(sources))
      n   == Cardinality(NodesIn(g))
      k   == Cardinality(sources)
  IN  IF k = 0 THEN run.scores
      ELSE [v \in NodesIn(g) |-> (run.scores[v] * n) \div k]
=============================================================================
