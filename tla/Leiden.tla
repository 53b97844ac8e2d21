------------------------------- MODULE Leiden -------------------------------
(***************************************************************************)
(* Multi-level community detection, one node visit per step: Leiden, or    *)
(* Louvain, which never refines.                                           *)
(*                                                                         *)
(* A level moves the nodes of its weighted graph between communities       *)
(* (stage "move", the partition P), then regroups the members of each      *)
(* P-community from single nodes on (stage "refine", the partition R), and *)
(* hands the graph aggregated by R to the next level, whose labels start   *)
(* as P.  Louvain aggregates by P itself.                                  *)
(*                                                                         *)
(* Layer 3 runs Leiden once more: regions are communities of the graph     *)
(* whose nodes are the clusters.                                           *)
(*                                                                         *)
(* Weights are the code's floats, which hold whole numbers.  A gain is     *)
(* kept times m * 2m, so it is whole too and the tolerance of 1e-12 only   *)
(* absorbs the rounding of equal gains.                                    *)
(***************************************************************************)
EXTENDS Clusters, Shuffle

CONSTANTS
  Graphs,     \* the graphs to cluster
  Algorithms  \* the functions that are called, of "louvain" and "leiden"

VARIABLES
  algorithm, \* the function that runs
  given,     \* the graph to index
  clusters,  \* its clusters, << >> until they are known
  layer,     \* "clusters" or "regions"
  origin,    \* the graph the call was given: in "regions", that of the clusters
  wg, level, \* the graph of the level
  stage,     \* "move", "refine" or "done"
  pass,      \* passes begun in this stage
  todo,      \* nodes this pass has still to visit, in order
  moved,     \* whether this pass has moved a node
  label,     \* community of each node of wg: of P in "move", of R in "refine"
  tot,       \* sum of degrees per community, kept up to date by the visits
  part,      \* P, while it is refined
  nodeAt,    \* the node of wg that holds each node of origin
  composed   \* the community of each node of origin, as it would be returned

call == <<algorithm, given, clusters, layer, origin>>
vars == <<call, wg, level, stage, pass, todo, moved, label, tot, part,
          nodeAt, composed>>

ASSUME GraphsAssumption == \A g \in Graphs : IsWeighted(g)
ASSUME AlgorithmsAssumption == Algorithms \subseteq {"louvain", "leiden"}

MaxLevels == 32
MaxPasses == IF stage = "move" THEN 64 ELSE 32

-----------------------------------------------------------------------------

Size(g)      == Cardinality(NodesIn(g))
Singles(g)   == [u \in NodesIn(g) |-> u - 1]

TotalsOf(g, lab) ==
  [c \in 0..(Size(g) - 1) |->
     SumFunctionOnSet(g.degree, BucketOf(lab, c))]

\* The lists a pass shuffles one after the other: all nodes, or the members of
\* each community of p that has at least two.
MoveLists(g)      == <<[i \in 1..Size(g) |-> i]>>
RefineLists(p)    ==
  LET lists == [c \in 1..CommunityCount(p) |-> Ascending(BucketOf(p, c - 1))]
  IN  Chosen(lists, {c \in DOMAIN lists : Len(lists[c]) >= 2})

\* The generator is reseeded for every stage.
Generator(st, lev) ==
  IF algorithm = "louvain" THEN lev - 1
  ELSE IF st = "move" THEN 2 * lev - 2 ELSE 2 * lev - 1

Orders(lists, st, lev, ps) ==
  LET perPass == SumFunction([i \in DOMAIN lists |-> Len(lists[i]) - 1])
  IN  ShufflesInTurn(lists, Generator(st, lev), (ps - 1) * perPass)

StartMoving(g, lev, initial) ==
  /\ stage' = "move" /\ level' = lev /\ pass' = 1 /\ moved' = FALSE
  /\ wg' = g /\ label' = initial /\ tot' = TotalsOf(g, initial)
  /\ todo' \in Orders(MoveLists(g), "move", lev, 1)

\* An empty graph, or one without edges, is returned as single nodes.
Init ==
  /\ algorithm \in Algorithms /\ given \in Graphs
  /\ clusters = << >> /\ layer = "clusters" /\ origin = given
  /\ wg = origin /\ level = 1 /\ pass = 1 /\ moved = FALSE
  /\ nodeAt = [u \in NodesIn(origin) |-> u]
  /\ composed = Singles(origin) /\ part = Singles(origin)
  /\ label = Singles(origin) /\ tot = TotalsOf(origin, label)
  /\ IF origin.twiceM = 0
     THEN stage = "done" /\ todo = << >>
     ELSE stage = "move" /\ todo \in Orders(MoveLists(origin), "move", 1, 1)

-----------------------------------------------------------------------------
(* One visit.                                                              *)

\* Mutant: the refinement looks across the borders of P.
AllNeighbours(u) == Neighbours(wg, u) \ {u}

\* The neighbours a visit looks at: in the refinement, those of its own
\* P-community.
Near(u) ==
  {v \in Neighbours(wg, u) \ {u} : stage = "refine" => part[v] = part[u]}

Toward(u, c) ==
  SumFunctionOnSet(wg.mult, {u} \X {v \in Near(u) : label[v] = c})

\* Mutant: the node is compared with a total it is part of itself.
NotRemoved(u) == tot

\* The totals with u taken out of its community.
Removed(u) == [tot EXCEPT ![label[u]] = @ - wg.degree[u]]

\* The change of modularity when u joins c, times m * 2m.
Gain(u, c) ==
  Toward(u, c) * wg.twiceM - Removed(u)[c] * wg.degree[u]

Candidates(u) == {label[u]} \cup {label[v] : v \in Near(u)}

\* Mutant: the community it is in is not one of the choices.
NeverStays(u) ==
  LET gain == [c \in Candidates(u) \ {label[u]} |-> Gain(u, c)]
      top  == IF gain = << >> THEN 0 ELSE Max(Range(gain))
  IN  IF top <= 0 THEN label[u] ELSE Min({c \in DOMAIN gain : gain[c] = top})

\* The candidate of the greatest gain, the lowest id among equals; the own
\* community when no gain is positive.
Best(u) ==
  LET gain == [c \in Candidates(u) |-> Gain(u, c)]
      top  == Max(Range(gain))
  IN  IF top <= 0 THEN label[u] ELSE Min({c \in DOMAIN gain : gain[c] = top})

Visit ==
  /\ stage # "done" /\ todo # << >>
  /\ LET u == Head(todo)
         best == Best(u)
     IN  /\ label' = [label EXCEPT ![u] = best]
         /\ tot' = [Removed(u) EXCEPT ![best] = @ + wg.degree[u]]
         /\ moved' = (moved \/ best # label[u])
  /\ todo' = Tail(todo)
  /\ UNCHANGED <<call, wg, level, stage, pass, part, nodeAt, composed>>

\* Another pass over the same lists, until one moves nothing or the cap is met.
NextPass ==
  /\ stage # "done" /\ todo = << >>
  /\ moved /\ pass < MaxPasses
  /\ pass' = pass + 1 /\ moved' = FALSE
  /\ todo' \in Orders(IF stage = "move" THEN MoveLists(wg) ELSE RefineLists(part),
                      stage, level, pass + 1)
  /\ UNCHANGED <<call, wg, level, stage, label, tot, part, nodeAt, composed>>

PassesOver == todo = << >> /\ (~moved \/ pass = MaxPasses)

-----------------------------------------------------------------------------
(* From stage to stage.                                                    *)

\* Each node of the next level starts in the P-community of its members.
Inherited(r, p) ==
  [c \in 1..CommunityCount(r) |->
     p[CHOOSE u \in DOMAIN r : r[u] = c - 1 /\ \A v \in DOMAIN r : r[v] = c - 1 => v <= u]]

\* Mutant: the nodes follow P where the graph follows R.
FollowP(p, r) == [i \in DOMAIN nodeAt |-> p[nodeAt[i]] + 1]

\* The node of the next level that holds each original node.
Follow(p, r) == [i \in DOMAIN nodeAt |-> r[nodeAt[i]] + 1]

\* Aggregation by r, and the next level if there is more than one node left.
Coarsen(p, r) ==
  /\ nodeAt' = Follow(p, r)
  /\ part' = p
  /\ IF CommunityCount(r) <= 1 \/ level = MaxLevels
     THEN /\ stage' = "done"
          /\ wg' = Aggregate(wg, r) /\ label' = Inherited(r, p)
          /\ tot' = TotalsOf(wg', label')
          /\ UNCHANGED <<level, pass, todo, moved>>
     ELSE StartMoving(Aggregate(wg, r), level + 1, Inherited(r, p))

\* The local moving has ended: its partition becomes the answer so far.  With
\* nothing merged the algorithm stops; else Leiden refines, Louvain aggregates.
EndMoving ==
  /\ stage = "move" /\ PassesOver
  /\ LET p == Renumbered(label)
     IN /\ composed' = [i \in DOMAIN nodeAt |-> p[nodeAt[i]]]
        /\ IF CommunityCount(p) = Size(wg)
           THEN /\ stage' = "done"
                /\ UNCHANGED <<wg, level, pass, todo, moved, label, tot, part, nodeAt>>
           ELSE IF algorithm = "leiden"
           THEN /\ stage' = "refine" /\ pass' = 1 /\ moved' = FALSE
                /\ part' = p /\ label' = Singles(wg) /\ tot' = TotalsOf(wg, Singles(wg))
                /\ todo' \in Orders(RefineLists(p), "refine", level, 1)
                /\ UNCHANGED <<wg, level, nodeAt>>
           ELSE Coarsen(p, p)
  /\ UNCHANGED call

\* Mutant: the refinement is expected to merge.
ExpectsMerge ==
  /\ stage = "refine" /\ PassesOver
  /\ CommunityCount(label) < Size(wg)
  /\ Coarsen(part, Renumbered(label))
  /\ UNCHANGED <<call, composed>>

EndRefining ==
  /\ stage = "refine" /\ PassesOver
  /\ Coarsen(part, Renumbered(label))
  /\ UNCHANGED <<call, composed>>

\* Mutant: the weights within the clusters are dropped, as cluster_adjacency does.
AdjacencyOnly ==
  LET super == Aggregate(origin, composed)
  IN  Weighed([p \in DOMAIN super.mult |-> IF p[1] = p[2] THEN 0 ELSE super.mult[p]])

SuperGraph == Aggregate(origin, composed)

\* regions_from_clusters: Leiden over the clusters.  Fewer than two of them, or
\* those of a graph without edges, are single regions.
StartRegions ==
  /\ stage = "done" /\ layer = "clusters"
  /\ algorithm' = "leiden" /\ layer' = "regions" /\ clusters' = composed
  /\ LET super == SuperGraph
     IN  /\ origin' = super /\ part' = Singles(super)
         /\ nodeAt' = [c \in NodesIn(super) |-> c] /\ composed' = Singles(super)
         /\ IF Size(super) <= 1 \/ super.twiceM = 0
            THEN /\ wg' = super /\ label' = Singles(super)
                 /\ tot' = TotalsOf(super, label')
                 /\ UNCHANGED <<level, stage, pass, todo, moved>>
            ELSE /\ StartMoving(super, 1, Singles(super))
  /\ UNCHANGED given

Next == Visit \/ NextPass \/ EndMoving \/ EndRefining \/ StartRegions

Spec == Init /\ [][Next]_vars /\ WF_vars(Next)

-----------------------------------------------------------------------------
(* Properties.                                                             *)

\* tot, which every visit patches, is the sum of the degrees per community.
TotalsExact == tot = TotalsOf(wg, label)

\* The labels of any level mean on the graph of that level what they mean on
\* the original: the self-loops an aggregation makes weigh what their edges
\* did ("modularity(aggregated, p_singleton) == modularity(original, partition)").
AggregationExact ==
  stage # "refine" =>
    Quality(wg, label) = Quality(origin, [i \in DOMAIN nodeAt |-> label[nodeAt[i]]])

\* No visit lowers the modularity of the labels it changes.
VisitsImprove ==
  [][Visit => Quality(wg, label') >= Quality(wg, label)]_vars

RegionOfCluster(c) == composed[c + 1]

\* The groups of nodes of the given graph, by cluster or by region.
Grouping ==
  IF layer = "clusters" THEN composed
  ELSE [u \in DOMAIN clusters |-> RegionOfCluster(clusters[u])]

\* No level hands the caller a worse partition of the given graph than the
\* level before it, and the regions are no worse than the clusters they group.
LevelsImprove ==
  [][Quality(given, Grouping') >= Quality(given, Grouping)]_vars

\* Every refined community lies in one community of P, so that Inherited does
\* not depend on the member it asks.
RefinementInside ==
  stage = "refine" =>
    \A u, v \in DOMAIN label : label[u] = label[v] => part[u] = part[v]

\* The passes end because one of them moved nothing, never at their cap.
PassesSettle == todo = << >> /\ moved => pass < MaxPasses

\* Every run ends, with clusters and with regions.
Terminates == <>(stage = "done" /\ layer = "regions")

\* No two nodes of g gain modularity by sharing a community.
NoneWorthJoining(g) ==
  \A u, v \in NodesIn(g) :
    u # v => g.mult[<<u, v>>] * g.twiceM <= g.degree[u] * g.degree[v]

\* Where the clustering ends by itself, below the cap of levels and after a pass
\* that moved nothing, no two clusters are worth joining, though a visit only
\* ever weighs single nodes of one level; and the regions of such clusters are
\* the clusters, in whatever order either pass visits.
RegionsAreClusters ==
  IF layer = "clusters"
  THEN stage = "done" /\ level < MaxLevels /\ ~moved => NoneWorthJoining(SuperGraph)
  ELSE stage = "done" /\ NoneWorthJoining(origin) => IsInjective(composed)

\* community.rs says that "The outer loop terminates when a full local-moving
\* pass produces no merges (one community per super-node)".
OuterLoopConverges == stage = "done" => CommunityCount(label) = Size(wg)

\* community.rs says of the local moving that it "produces a partition P_L
\* that's locally optimal for modularity".
LocallyOptimal ==
  stage = "move" /\ PassesOver =>
    \A u \in NodesIn(wg) : \A c \in Candidates(u) : Gain(u, c) <= Gain(u, label[u])

\* community.rs says that Leiden's refinement "guarantees every community is
\* internally connected".
Reach(g, u, S) ==
  LET R[n \in 0..Cardinality(S)] ==
        IF n = 0 THEN {u} ELSE R[n - 1] \cup (S \cap UNION {Neighbours(g, v) : v \in R[n - 1]})
  IN  R[Cardinality(S)]

CommunitiesConnected ==
  stage = "done" =>
    \A u \in NodesIn(origin) :
      BucketOf(composed, composed[u]) = Reach(origin, u, BucketOf(composed, composed[u]))
=============================================================================
