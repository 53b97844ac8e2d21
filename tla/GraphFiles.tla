---------------------------- MODULE GraphFiles ----------------------------
(***************************************************************************)
(* A small graph is written to a file, one node or edge at a time, and     *)
(* then divided into clusters.  At every moment the loader of edge lists   *)
(* and the algorithms that keep no state between calls run on what is      *)
(* there.                                                                  *)
(***************************************************************************)
EXTENDS EdgeLists, Betweenness, Corridors, Nmi

CONSTANTS
  MaxNodes,   \* bound: nodes of a graph
  MaxEdges,   \* bound: edges of a graph
  LoopsTo,    \* bound: graphs of at most so many nodes may have loops
  RepeatsTo   \* bound: graphs of at most so many nodes may have parallel edges

VARIABLES
  size,    \* the nodes written are 1..size
  edges,   \* the edges written, as ordered pairs in ascending order
  graph,   \* the graph that is meant
  part     \* its division into clusters, empty while the graph is written

vars == <<size, edges, graph, part>>

ASSUME BoundsAssumption ==
  MaxNodes \in Nat /\ MaxEdges \in Nat /\ LoopsTo \in Nat /\ RepeatsTo \in Nat

-----------------------------------------------------------------------------
(* The file.                                                               *)

\* Every second edge is written backwards.
Written(es) == [i \in DOMAIN es |-> IF i % 2 = 0 THEN <<es[i][2], es[i][1]>> ELSE es[i]]

Lines(es) ==
  <<[kind |-> "skip", a |-> 0, b |-> 0]>>
  \o [i \in DOMAIN es |-> [kind |-> "pair", a |-> Written(es)[i][1], b |-> Written(es)[i][2]]]

-----------------------------------------------------------------------------

\* Every edge weighs 1 and parallel edges add up.
Meant(n, es) ==
  LET Joining(i, j) == {k \in DOMAIN es : {es[k][1], es[k][2]} = {i, j}}
  IN  Weighed([p \in (1..n) \X (1..n) |-> Cardinality(Joining(p[1], p[2]))])

Init == size = 0 /\ edges = << >> /\ graph = Meant(0, << >>) /\ part = << >>

WriteNode ==
  /\ part = << >> /\ edges = << >> /\ size < MaxNodes
  /\ size' = size + 1 /\ graph' = Meant(size + 1, << >>)
  /\ UNCHANGED <<edges, part>>

WriteEdge ==
  \E s, t \in 1..size :
    /\ part = << >> /\ s <= t /\ Len(edges) < MaxEdges
    /\ edges # << >> => ~Earlier(<<s, t>>, Last(edges))
    /\ size > LoopsTo => s # t
    /\ size > RepeatsTo => <<s, t>> \notin ToSet(edges)
    /\ edges' = Append(edges, <<s, t>>) /\ graph' = Meant(size, Append(edges, <<s, t>>))
    /\ UNCHANGED <<size, part>>

\* Any division into clusters; nothing is written after it.
Divide ==
  /\ part = << >> /\ size > 0
  /\ part' \in Partitions(size) /\ UNCHANGED <<size, edges, graph>>

Next == WriteNode \/ WriteEdge \/ Divide

Spec == Init /\ [][Next]_vars

-----------------------------------------------------------------------------
(* The loader.                                                             *)

Loaded(sources) == {GraphOf(src) : src \in sources}

\* An edge list gives the graph that was meant, and that a GML file gives, when
\* every node has an edge, except that it counts repeated edges once; and a bad
\* line anywhere refuses the list.
FormatsAgree ==
  part = << >> =>
    LET text == Lines(edges)
        once == Weighed([p \in DOMAIN graph.mult |-> IF graph.mult[p] > 0 THEN 1 ELSE 0])
    IN  /\ (\A v \in NodesIn(graph) : graph.degree[v] > 0)
             => Loaded(EdgeListOf(text)) = {once}
        /\ \A k \in 0..Len(text) :
             EdgeListOf(InsertAt(text, k + 1, [kind |-> "bad", a |-> 1, b |-> 1])) = {}

-----------------------------------------------------------------------------
(* Properties of the algorithms.                                           *)

\* The shortest paths from u, as sequences of nodes: each round continues the
\* paths to every node that none has reached before.
ShortestFrom(g, u) ==
  FoldLeft(LAMBDA found, k :
             LET reached == {Last(p) : p \in found}
             IN  found \cup UNION {{Append(p, v) : v \in Neighbours(g, Last(p)) \ reached} :
                                     p \in found},
           {<<u>>}, Ascending(NodesIn(g)))

ShortestPaths(g) == UNION {ShortestFrom(g, u) : u \in NodesIn(g)}

Between(paths, u, v) == {p \in paths : p[1] = u /\ Last(p) = v}

\* The search from a source takes every node it reaches from the queue once, its
\* predecessors earlier; it counts all the shortest paths to a node, parallel
\* edges and all other ways there left out; and the predecessors are the nodes
\* one step before it on such a path, each once.
PathsCounted ==
  part = << >> =>
    \A s \in NodesIn(graph) :
      LET paths == ShortestFrom(graph, s)
          b     == Searched(graph, Cleared(graph, s, NoScratch(graph)))
          To(v) == {p \in paths : Last(p) = v}
      IN  /\ IsInjective(b.order) /\ ToSet(b.order) = {Last(p) : p \in paths}
          /\ \A i, j \in DOMAIN b.order : b.order[i] \in ToSet(b.preds[b.order[j]]) => i < j
          /\ \A v \in NodesIn(graph) :
               /\ b.sigma[v] = Cardinality(To(v))
               /\ IsInjective(b.preds[v])
               /\ ToSet(b.preds[v]) = {p[Len(p) - 1] : p \in {q \in To(v) : Len(q) > 1}}

\* Whatever sources a seed picks, there are as many as were asked for, and the
\* scores are, for every node, the sum over the sources and the other nodes of
\* the share of their shortest paths that pass through it: of simple paths,
\* however many parallel edges there are.
BetweennessExact ==
  part = << >> =>
    LET N     == NodesIn(graph)
        paths == ShortestPaths(graph)
        Share(s, t, v) ==
          LET ways == Between(paths, s, t)
          IN  IF v \in {s, t} \/ ways = {} THEN 0
              ELSE (Unit * Cardinality({p \in ways : v \in Range(p)})) \div Cardinality(ways)
        Exact(sources, k) ==
          LET scores == Scores(graph, sources)
          IN  /\ Cardinality(sources) = k
              /\ \A v \in N : scores[v] * k =
                   size * MapThenSumSet(LAMBDA p : Share(p[1], p[2], v), sources \X N)
    IN  \A samples \in {0, 2, size + 1} : \A sources \in PickSources(size, samples) :
          Exact(sources, IF samples > size THEN size ELSE samples)

\* A corridor is a shortest way between its two clusters, and there is one
\* exactly when there is a way.
CorridorShortest ==
  part # << >> =>
    LET adj   == ClusterAdjacency(graph, part)
        paths == ShortestPaths(Aggregate(graph, part))
    IN  \A from, to \in DOMAIN adj :
          LET ways  == Between(paths, from + 1, to + 1)
              found == ClusterCorridor(adj, from, to)
          IN  /\ found = {} <=> ways = {}
              /\ \A way \in found : [i \in DOMAIN way |-> way[i] + 1] \in ways

Connected(g, p) ==
  \A u, v \in NodesIn(g) : p[u] = p[v] => BfsDistance(g, u, v, BucketOf(p, p[u])) # {}

\* When every cluster is connected, a corridor connects any two nodes of its
\* first and its last cluster, and it is optimal exactly when it holds a whole
\* shortest path of the graph.
CorridorConnects ==
  part # << >> /\ Connected(graph, part) =>
    LET adj   == ClusterAdjacency(graph, part)
        paths == ShortestPaths(graph)
    IN  \A from, to \in 1..size : \A way \in ClusterCorridor(adj, part[from], part[to]) :
          \E report \in Evaluate(graph, part, way, from, to) :
            /\ report.corridor_dist # {}
            /\ report.corridor_dist = {report.global_dist}
                 <=> \E p \in Between(paths, from, to) : Range(p) \subseteq MembersIn(part, way)

\* Two partitions agree fully exactly when they have the same clusters, and not
\* at all exactly when the cluster in the one tells nothing about the cluster in
\* the other; to swap them makes no difference.
NmiExact ==
  part # << >> /\ edges = << >> =>
    \A other \in Partitions(size) :
      LET N     == 1..size
          Alike(p) == {e \in N \X N : p[e[1]] = p[e[2]]}
          Independent ==
            \A u, v \in N :
              size * Cardinality(BucketOf(part, part[u]) \cap BucketOf(other, other[v]))
                = Cardinality(BucketOf(part, part[u])) * Cardinality(BucketOf(other, other[v]))
          agreement == nmi(part, other)
      IN  /\ IsOne(agreement) <=> Alike(part) = Alike(other)
          /\ IsZero(agreement) <=> Independent /\ Alike(part) # Alike(other)
          /\ nmi(other, part) = agreement
=============================================================================
