------------------------------- MODULE Graph -------------------------------
(***************************************************************************)
(* Layer 0: the in-memory graph a source becomes.                          *)
(*                                                                         *)
(* A source is a record: nodes, the listed node ids in order (repeats      *)
(* allowed); edges, the listed pairs of ids; label, a map from some of the *)
(* ids to labels.  A graph numbers the distinct ids 1..n in the order of   *)
(* first listing and keeps for each node the multiset of its neighbours,   *)
(* here as the number of edges between each two nodes (every edge weighs   *)
(* 1 in the code).                                                         *)
(***************************************************************************)
EXTENDS SortedLists, SequencesExt

\* An edge endpoint is not a listed node: from_source returns DanglingEdge.
Dangling(src) ==
  \E e \in ToSet(src.edges) : ~({e[1], e[2]} \subseteq ToSet(src.nodes))

\* Each id once, where it is first listed.
Interned(nodes) ==
  Chosen(nodes, {i \in DOMAIN nodes : \A j \in DOMAIN nodes : nodes[j] = nodes[i] => i <= j})

\* A graph from its multiplicities: the degree of a node counts parallel edges
\* each and a self-loop once; twiceM is the sum of the degrees.
Weighed(mult) ==
  LET N      == {e[1] : e \in DOMAIN mult}
      degree == [i \in N |-> SumFunctionOnSet(mult, {i} \X N)]
  IN  [mult |-> mult, degree |-> degree, twiceM |-> SumFunctionOnSet(degree, N)]

\* The graph of a source: node i is ids[i].
IdsOf(src)   == Interned(src.nodes)
GraphOf(src) ==
  LET ids == IdsOf(src)
      Joining(i, j) ==
        {k \in DOMAIN src.edges : {src.edges[k][1], src.edges[k][2]} = {ids[i], ids[j]}}
      N == DOMAIN ids
  IN  Weighed([e \in N \X N |-> Cardinality(Joining(e[1], e[2]))])

NodesIn(g)       == DOMAIN g.degree
Neighbours(g, i) == {j \in NodesIn(g) : g.mult[<<i, j>>] > 0}

\* A symmetric table of weights on the nodes 1..n, and the sums from_source and
\* aggregate keep with it.
IsWeighted(g) ==
  LET N == 1..Cardinality(NodesIn(g))
  IN  /\ IsFiniteSet(NodesIn(g)) /\ NodesIn(g) = N
      /\ g.mult \in [N \X N -> Nat] /\ g = Weighed(g.mult)
      /\ \A u, v \in N : g.mult[<<u, v>>] = g.mult[<<v, u>>]
=============================================================================
