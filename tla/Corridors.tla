----------------------------- MODULE Corridors -----------------------------
(***************************************************************************)
(* The corridor experiment: a shortest list of adjacent clusters between   *)
(* two clusters, and its comparison with the paths of the whole graph.     *)
(* A result is a set: the one value, or none.                              *)
(***************************************************************************)
EXTENDS Clusters

\* bfs_distance_filtered, one node taken from the queue.
Widen(g, allowed, to, b) ==
  LET v == Head(b.queue)
      Visit(c, w) ==
        IF c.found # {} \/ c.dist[w] >= 0 \/ w \notin allowed THEN c
        ELSE IF w = to THEN [c EXCEPT !.found = {c.dist[v] + 1}]
        ELSE [c EXCEPT !.dist[w] = c.dist[v] + 1, !.queue = Append(@, w)]
  IN  FoldLeft(Visit, [b EXCEPT !.queue = Tail(@)], Ascending(Neighbours(g, v)))

\* The hops from one node to another through allowed nodes.
BfsDistance(g, from, to, allowed) ==
  LET start == [dist  |-> [v \in NodesIn(g) |-> IF v = from THEN 0 ELSE -1],
                queue |-> <<from>>, found |-> {}]
      Turn(b, k) == IF b.queue = << >> \/ b.found # {} THEN b ELSE Widen(g, allowed, to, b)
  IN  IF ~({from, to} \subseteq allowed) THEN {}
      ELSE IF from = to THEN {0}
      ELSE FoldLeft(Turn, start, Ascending(NodesIn(g))).found

-----------------------------------------------------------------------------

\* Mutant: the last cluster that sees another becomes its predecessor.
SpreadsLate(adjacency, to, b) ==
  LET c == Head(b.queue)
      Discover(a, e) ==
        IF e[1] \in a.seen /\ e[1] \notin ToSet(a.queue) THEN a
        ELSE [pred  |-> [a.pred EXCEPT ![e[1]] = {c}], seen |-> a.seen \cup {e[1]},
              queue |-> IF e[1] \in a.seen THEN a.queue ELSE Append(a.queue, e[1])]
  IN  FoldLeft(Discover, [b EXCEPT !.queue = Tail(@)], adjacency[c])

\* One cluster taken from the queue; the first to discover another becomes its
\* predecessor, and nothing is discovered after the target.
Spread(adjacency, to, b) ==
  LET c == Head(b.queue)
      Discover(a, e) ==
        IF e[1] \in a.seen \/ to \in a.seen THEN a
        ELSE [pred  |-> [a.pred EXCEPT ![e[1]] = {c}], seen |-> a.seen \cup {e[1]},
              queue |-> Append(a.queue, e[1])]
  IN  FoldLeft(Discover, [b EXCEPT !.queue = Tail(@)], adjacency[c])

\* The predecessors from the target back, in the order of the way there.
PathBack(pred, to) ==
  FoldLeft(LAMBDA way, k : SetToSeq(pred[Head(way)]) \o way, <<to>>, SetToSeq(DOMAIN pred))

\* cluster_corridor: adjacency is what ClusterAdjacency gives.
ClusterCorridor(adjacency, from, to) ==
  LET K == DOMAIN adjacency
      start == [pred |-> [c \in K |-> {}], seen |-> {from}, queue |-> <<from>>]
      Turn(b, k) == IF b.queue = << >> \/ to \in b.seen THEN b ELSE Spread(adjacency, to, b)
      end == FoldLeft(Turn, start, SetToSeq(K))
  IN  IF ~({from, to} \subseteq K) \/ to \notin end.seen THEN {}
      ELSE {PathBack(end.pred, to)}

\* Mutant: the last cluster of the corridor is left out.
ButLast(part, clusters) == {v \in DOMAIN part : part[v] \in ToSet(Front(clusters))}

MembersIn(part, clusters) == {v \in DOMAIN part : part[v] \in ToSet(clusters)}

\* evaluate_corridor: none for a pair that is not connected at all.
Evaluate(g, part, clusters, from, to) ==
  {[member_count  |-> Cardinality(MembersIn(part, clusters)), global_dist |-> d,
    corridor_dist |-> BfsDistance(g, from, to, MembersIn(part, clusters))] :
     d \in BfsDistance(g, from, to, NodesIn(g))}
=============================================================================
