------------------------------ MODULE Clusters ------------------------------
(***************************************************************************)
(* Layers 1 and 3: partitions of a graph's nodes into communities, as the  *)
(* clustering and the region pass return them, and the cluster super-graph *)
(* the index stores.                                                       *)
(***************************************************************************)
EXTENDS Graph, SortedLists

\* Partition::new: labels become 0, 1, 2, ... in the order they are first seen.
Renumbered(raw) ==
  [i \in DOMAIN raw |->
     LET first == CHOOSE j \in DOMAIN raw : /\ raw[j] = raw[i]
                                            /\ \A k \in DOMAIN raw : raw[k] = raw[i] => j <= k
     IN  Cardinality({raw[j] : j \in 1..(first - 1)})]

CommunityCount(part) == Cardinality({part[i] : i \in DOMAIN part})

\* Every value Partition::new can return for n nodes.
Partitions(n) == {Renumbered(raw) : raw \in [1..n -> 1..n]}

BucketOf(part, c) == {i \in DOMAIN part : part[i] = c}

\* Mutant: an edge inside a community counts once in its self-loop.
InnerOnce(g, part) ==
  Weighed([c, d \in 1..CommunityCount(part) |->
     SumFunctionOnSet(g.mult, {e \in BucketOf(part, c - 1) \X BucketOf(part, d - 1) :
                                 c = d => e[1] <= e[2]})])

\* WeightedGraph::aggregate: community c becomes node c + 1.  The weights
\* between two communities are summed; those inside one become a self-loop in
\* which every edge counts in both directions and every loop once.
Aggregate(g, part) ==
  LET C == 1..CommunityCount(part)
  IN  Weighed([e \in C \X C |->
        SumFunctionOnSet(g.mult, BucketOf(part, e[1] - 1) \X BucketOf(part, e[2] - 1))])

\* cluster_adjacency: for every community the others it shares edges with and
\* the weight of those edges, ascending by community.
ClusterAdjacency(g, part) ==
  LET super == Aggregate(g, part)
  IN  [c \in 0..(CommunityCount(part) - 1) |->
         LET order == Ascending({d - 1 : d \in Neighbours(super, c + 1) \ {c + 1}})
         IN  [i \in DOMAIN order |-> <<order[i], super.mult[<<c + 1, order[i] + 1>>]>>]]

\* modularity times (2m)^2: over the communities, the weight inside (edges in
\* both directions, loops once) times 2m, less the squared sum of degrees.
Quality(g, part) ==
  LET In(c)  == SumFunctionOnSet(g.mult, BucketOf(part, c) \X BucketOf(part, c))
      Tot(c) == SumFunctionOnSet(g.degree, BucketOf(part, c))
  IN  SumFunctionOnSet([c \in Range(part) |-> In(c) * g.twiceM - Tot(c) * Tot(c)], Range(part))
=============================================================================
