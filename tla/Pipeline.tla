------------------------------ MODULE Pipeline ------------------------------
(***************************************************************************)
(* The in-memory half of build_from_source: source -> graph -> clusters -> *)
(* regions and cluster adjacency -> hubs -> hub graph, and the result the  *)
(* index writes.                                                           *)
(*                                                                         *)
(* Leiden is left open here: the clusters and the regions are any value    *)
(* Partition::new can return.  So is the seed of the betweenness           *)
(* strategies: the sources are any it may pick.                            *)
(***************************************************************************)
EXTENDS Hubs, Clusters

\* config.hub_strategy, one of "degree", "betweenness" and "union"; the number
\* of samples is that of the last two.
HubSets(g, strategy, samples, percent) ==
  LET Drawn == PickSources(Cardinality(NodesIn(g)), samples)
      Of(k) ==
        LET Busy    == FromTopDegree(g, k)
            Pivotal == {FromCentrality(g, k, sources) : sources \in Drawn}
        IN  CASE strategy = "degree"      -> {Busy}
              [] strategy = "betweenness" -> Pivotal
              [] strategy = "union"       -> {Busy \cup hubs : hubs \in Pivotal}
  IN  UNION {Of(k) : k \in HubQuotas(g, percent)}

ResultOf(src, g, part, regions, hubs, kHop) ==
  LET ids    == IdsOf(src)
      Named  == ToSet(ids)
      Index  == [u \in Named |-> CHOOSE i \in NodesIn(g) : ids[i] = u]
      links  == HubLinks(g, hubs, kHop)
  IN [nodes     |-> ids,
      cluster   |-> [u \in Named |-> part[Index[u]]],
      region    |-> [c \in 0..(CommunityCount(part) - 1) |-> regions[c + 1]],
      hubs      |-> {ids[h] : h \in hubs},
      links     |-> [u \in {ids[h] : h \in hubs} |->
                       [i \in DOMAIN links[Index[u]] |->
                          <<ids[links[Index[u]][i][1]], links[Index[u]][i][2]>>]],
      adjacency |-> ClusterAdjacency(g, part),
      label     |-> [u \in Named \cap DOMAIN src.label |-> src.label[u]]]

\* Every result the pipeline may hand to the write; none for a dangling edge.
Results(src, strategies, samples, percent, kHop) ==
  IF Dangling(src) THEN {}
  ELSE LET g == GraphOf(src)
           hubSets == UNION {HubSets(g, s, samples, percent) : s \in strategies}
       IN  UNION {{ResultOf(src, g, part, regions, hubs, kHop) :
                     regions \in Partitions(CommunityCount(part)), hubs \in hubSets} :
                    part \in Partitions(Cardinality(NodesIn(g)))}
=============================================================================
