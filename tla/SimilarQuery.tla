---------------------------- MODULE SimilarQuery ----------------------------
(***************************************************************************)
(* query_similar and query_same_cluster: the routing of one query over one *)
(* image of the index, asked for by uuid (query) or by label               *)
(* (query_by_label).  &self keeps the writers out while it runs, so its    *)
(* separate point reads all see the same image.                            *)
(***************************************************************************)
EXTENDS CommandLine

CONSTANTS
  Images,   \* the index contents a query may meet
  Limits    \* the limits a caller may pass

ASSUME ImagesAssumption == \A i \in Images : Good(i)
ASSUME LimitsAssumption == Limits \subseteq Nat

VARIABLES
  img, kind, limit,    \* the index and the request, fixed
  asked,               \* << >> for a query by uuid, <<label>> for one by label
  start,               \* the node asked about; NoNode until a label is resolved
  pc,                  \* "resolve", "begin", "local", "entry", "walk", "name", "done"
  out,                 \* the uuids collected, in order
  shown,               \* what a query by label returns for them
  edges,               \* hub edges of the entry hub not yet followed
  clustersVisited, hubsVisited

request == <<img, kind, limit, asked>>
vars == <<img, kind, limit, asked, start, pc, out, shown, edges,
          clustersVisited, hubsVisited>>

NoNode == -1

-----------------------------------------------------------------------------

\* Mutant: the seed is not put in the dedup set.
WithoutSeed == Range(out)

\* The dedup set: the seed itself and all that was collected.
Seen == {start} \cup Range(out)

\* The loop over the members of one cluster, up to the limit.
Collect(found, members, seen, max) ==
  found \o First(Chosen(members, {i \in DOMAIN members : members[i] \notin seen}),
                 max - Len(found))

Drain(members) == Collect(out, members, Seen, limit)

StartCluster == img.uuid_to_cluster[start]
IsHub(u)     == Lookup(img.uuid_is_hub, u, FALSE)

\* The start if it is a hub, else the first hub among its cluster's members.
EntryHubs ==
  IF IsHub(start) THEN {start}
  ELSE LET m == MembersOf(img, StartCluster)
       IN  {m[i] : i \in {j \in DOMAIN m : /\ IsHub(m[j])
                                           /\ \A k \in 1..(j - 1) : ~IsHub(m[k])}}

\* Mutant: the stored order, ascending by node.
AsStored(list) == list

\* A stable sort by descending weight 1/d: ascending distance, list order
\* among equals.
ByWeight(list) ==
  LET Before(i, j) == \/ list[i][2] < list[j][2]
                      \/ list[i][2] = list[j][2] /\ i <= j
  IN [k \in DOMAIN list |->
        list[CHOOSE j \in DOMAIN list :
               Cardinality({i \in DOMAIN list : Before(i, j)}) = k]]

-----------------------------------------------------------------------------

Init ==
  /\ img \in Images
  /\ \/ kind = "same_cluster" /\ limit = 0
     \/ kind = "similar" /\ limit \in Limits
  /\ \/ asked = << >> /\ start \in Uuid /\ pc = "begin"
     \/ asked \in {<<l>> : l \in Label} /\ start = NoNode /\ pc = "resolve"
  /\ out = << >> /\ shown = << >> /\ edges = << >>
  /\ clustersVisited = 0 /\ hubsVisited = 0

Known == start \in DOMAIN img.uuid_to_cluster

\* The query proper is over; one by label still has to name what it found.
End == IF asked = << >> THEN "done" ELSE "name"

\* query_by_label: an unknown label is an empty answer, not an error.
Resolve ==
  /\ pc = "resolve"
  /\ IF asked[1] \in DOMAIN img.label_to_uuid
     THEN start' = img.label_to_uuid[asked[1]] /\ pc' = "begin"
     ELSE start' = start /\ pc' = "done"
  /\ UNCHANGED <<request, out, shown, edges, clustersVisited, hubsVisited>>

Name ==
  /\ pc = "name"
  /\ shown' = [i \in DOMAIN out |-> ShownAs(img, out[i])]
  /\ pc' = "done"
  /\ UNCHANGED <<request, start, out, edges, clustersVisited, hubsVisited>>

\* Mutant: the start is left out, as query_similar leaves it out.
OthersOfCluster ==
  /\ pc = "begin" /\ kind = "same_cluster"
  /\ pc' = End
  /\ IF Known
     THEN /\ out' = SelectSeq(MembersOf(img, StartCluster), LAMBDA u : u # start)
          /\ clustersVisited' = 1
     ELSE UNCHANGED <<out, clustersVisited>>
  /\ UNCHANGED <<request, start, shown, edges, hubsVisited>>

\* query_same_cluster: the stored list of the cluster, the start included.
SameCluster ==
  /\ pc = "begin" /\ kind = "same_cluster"
  /\ pc' = End
  /\ IF Known
     THEN /\ out' = MembersOf(img, StartCluster)
          /\ clustersVisited' = 1
     ELSE UNCHANGED <<out, clustersVisited>>
  /\ UNCHANGED <<request, start, shown, edges, hubsVisited>>

\* query_similar: limit = 0 and an unknown start end the query at once.
Begin ==
  /\ pc = "begin" /\ kind = "similar"
  /\ pc' = IF limit = 0 \/ ~Known THEN End ELSE "local"
  /\ UNCHANGED <<request, start, shown, out, edges, clustersVisited, hubsVisited>>

Local ==
  /\ pc = "local"
  /\ out' = Drain(MembersOf(img, StartCluster))
  /\ clustersVisited' = clustersVisited + 1
  /\ pc' = IF Len(out') >= limit THEN End ELSE "entry"
  /\ UNCHANGED <<request, start, shown, edges, hubsVisited>>

\* Mutant: a cluster without a hub is not expected.
ExpectsHub ==
  /\ pc = "entry"
  /\ \E h \in EntryHubs : edges' = ByWeight(Lookup(img.hub_neighbors, h, << >>))
  /\ pc' = "walk"
  /\ UNCHANGED <<request, start, shown, out, clustersVisited, hubsVisited>>

FindEntry ==
  /\ pc = "entry"
  /\ \/ /\ EntryHubs = {}
        /\ pc' = End /\ UNCHANGED edges
     \/ \E h \in EntryHubs :
          /\ edges' = ByWeight(Lookup(img.hub_neighbors, h, << >>))
          /\ pc' = "walk"
  /\ UNCHANGED <<request, start, shown, out, clustersVisited, hubsVisited>>

\* Mutant: break instead of continue at a hub of the start's own cluster.
BreaksAtOwnCluster ==
  /\ pc = "walk" /\ edges # << >>
  /\ hubsVisited' = hubsVisited + 1
  /\ LET hub == Head(edges)[1]
         c   == img.uuid_to_cluster[hub]
     IN  IF c = StartCluster
         THEN /\ edges' = << >>
              /\ UNCHANGED <<pc, out, clustersVisited>>
         ELSE /\ edges' = Tail(edges)
              /\ out' = Drain(MembersOf(img, c))
              /\ clustersVisited' = clustersVisited + 1
              /\ pc' = IF Len(out') >= limit THEN End ELSE "walk"
  /\ UNCHANGED <<request, start, shown>>

Follow ==
  /\ pc = "walk" /\ edges # << >>
  /\ edges' = Tail(edges)
  /\ hubsVisited' = hubsVisited + 1
  /\ LET hub == Head(edges)[1]
         c   == img.uuid_to_cluster[hub]
     IN  IF hub \notin DOMAIN img.uuid_to_cluster \/ c = StartCluster
         THEN UNCHANGED <<pc, out, clustersVisited>>
         ELSE /\ out' = Drain(MembersOf(img, c))
              /\ clustersVisited' = clustersVisited + 1
              /\ pc' = IF Len(out') >= limit THEN End ELSE "walk"
  /\ UNCHANGED <<request, start, shown>>

Finish ==
  /\ pc = "walk" /\ edges = << >>
  /\ pc' = End
  /\ UNCHANGED <<request, start, shown, out, edges, clustersVisited, hubsVisited>>

Next ==
  Resolve \/ SameCluster \/ Begin \/ Local \/ FindEntry \/ Follow \/ Finish \/ Name

Spec == Init /\ [][Next]_vars /\ WF_vars(Next)

-----------------------------------------------------------------------------
(* Properties.                                                             *)

\* The hop distances from an entry hub of the start's cluster to the hubs in
\* cluster c.
Hops(c) ==
  {e[2] : e \in {x \in UNION {Range(Lookup(img.hub_neighbors, h, << >>)) :
                                 h \in EntryHubs} :
                   img.uuid_to_cluster[x[1]] = c}}

\* How far a node is from the start, in the order the results promise.
Rank(u) ==
  IF img.uuid_to_cluster[u] = StartCluster THEN 0
  ELSE CHOOSE d \in Hops(img.uuid_to_cluster[u]) :
         \A e \in Hops(img.uuid_to_cluster[u]) : d <= e

\* The results are distinct nodes of the index, whatever clusters the hubs of
\* the walk share; those of query_similar are at most limit and leave out the
\* seed.
ResultsDistinct ==
  /\ kind = "similar" => Len(out) <= limit /\ start \notin Range(out)
  /\ Range(out) \subseteq DOMAIN img.uuid_to_cluster
  /\ IsInjective(out)

\* Same cluster first, then the clusters of nearer hubs before those of farther
\* ones, at every moment of the walk.
NearestFirst ==
  Known => \A i, j \in DOMAIN out : i < j => Rank(out[i]) <= Rank(out[j])

\* A query_similar that returns fewer than limit nodes has missed none: all of
\* the start's cluster and of the clusters of the entry hub's neighbours is
\* there.
ShortMeansComplete ==
  pc \in {"name", "done"} /\ Len(out) < limit /\ Known =>
    Range(out) = {u \in DOMAIN img.uuid_to_cluster :
                    \/ img.uuid_to_cluster[u] = StartCluster
                    \/ Hops(img.uuid_to_cluster[u]) # {}} \ {start}

\* A query by label is about the label: the same-cluster answer names it exactly
\* when the index knows it, a similar answer only when another node carries it
\* too.  Every label in an answer can be asked about in turn.
AskedByName ==
  pc = "done" /\ asked # << >> =>
    LET itself == <<"label", asked[1]>> \in Range(shown)
    IN  /\ kind = "same_cluster" =>
             (itself <=> asked[1] \in DOMAIN img.label_to_uuid)
        /\ kind = "similar" /\ itself =>
             \E u \in DOMAIN img.labels : u # start /\ img.labels[u] = asked[1]
        /\ \A i \in DOMAIN shown : shown[i][1] = "label" =>
             /\ shown[i][2] \in DOMAIN img.label_to_uuid
             /\ img.labels[img.label_to_uuid[shown[i][2]]] = shown[i][2]

\* Every query ends.
Terminates == <>(pc = "done")

\* QueryStats says of clusters_visited: "Number of distinct clusters whose
\* members were inspected".
VisitsDistinctClusters ==
  clustersVisited <= Cardinality(DOMAIN img.cluster_members)
=============================================================================
