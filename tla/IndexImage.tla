----------------------------- MODULE IndexImage -----------------------------
(***************************************************************************)
(* The contents of the ten Fjall partitions behind a SwIndex, as one       *)
(* record of finite maps, and the two batches the code writes to it: the   *)
(* one of build_from_source_with and the one of insert_node.               *)
(*                                                                         *)
(* A key that is absent from a partition is absent from the map's domain.  *)
(* Weights are counts (cluster_neighbors) and hop distances (hub_neighbors,*)
(* where the code stores 1/distance): the queries only compare them.       *)
(***************************************************************************)
EXTENDS SortedLists

CONSTANTS
  Uuid,    \* node identifiers, ordered as their bytes are
  Label,   \* human-readable names
  MaxU32   \* the largest value a stored u32 holds

ASSUME UuidAssumption   == Uuid \subseteq Nat /\ IsFiniteSet(Uuid)
ASSUME MaxU32Assumption == MaxU32 \in Nat \ {0}

ClusterId == 0..MaxU32

-----------------------------------------------------------------------------
(* Partitions as maps.                                                     *)

IsMap(f, S, T) == DOMAIN f \subseteq S /\ f \in [DOMAIN f -> T]

Lookup(f, k, default) == IF k \in DOMAIN f THEN f[k] ELSE default

\* One partition's share of a batch: the staged removes, then the inserts.
ApplyBatch(f, removed, puts) ==
  [k \in (DOMAIN f \ removed) \cup DOMAIN puts |->
     IF k \in DOMAIN puts THEN puts[k] ELSE f[k]]

Put(f, k, v) == ApplyBatch(f, {}, [x \in {k} |-> v])

\* Mutant: the rebuild of issue #64, which inserts over what is there.
InsertsOver(f, fresh) == ApplyBatch(f, {}, fresh)

\* A rebuild removes every key the partition has before it inserts its own.
Rewrite(f, fresh) == ApplyBatch(f, DOMAIN f, fresh)

Empty == [x \in {} |-> x]

\* What open() finds in a directory that held no index.
EmptyImage ==
  [uuid_to_cluster |-> Empty, uuid_to_region |-> Empty, uuid_is_hub |-> Empty,
   hub_neighbors |-> Empty, cluster_members |-> Empty, cluster_meta |-> Empty,
   labels |-> Empty, label_to_uuid |-> Empty, cluster_drift |-> Empty,
   cluster_neighbors |-> Empty]

-----------------------------------------------------------------------------
(* The rebuild.  A pipeline result p holds what the in-memory layers hand  *)
(* to the write: the node order, the Leiden cluster of each node, the      *)
(* region of each cluster, the hubs with their hub-graph lists, the        *)
(* cluster super-graph and the labels of the source.                       *)

NodesOf(p)     == Range(p.nodes)
ClustersOf(p)  == {p.cluster[u] : u \in NodesOf(p)}
Bucket(p, c)   == {u \in NodesOf(p) : p.cluster[u] = c}

\* Two nodes may carry the same label: the put that is staged last stays.
LastLabelled(p, l) ==
  LET At == {i \in DOMAIN p.nodes : /\ p.nodes[i] \in DOMAIN p.label
                                    /\ p.label[p.nodes[i]] = l}
  IN  p.nodes[CHOOSE i \in At : \A j \in At : j <= i]

\* The u32 conversions of the build all succeed: ids, sizes, and the lengths of
\* the lists.
FitsU32(p) ==
  /\ \A c \in ClustersOf(p) : /\ c <= MaxU32
                              /\ p.region[c] <= MaxU32
                              /\ Cardinality(Bucket(p, c)) <= MaxU32
                              /\ Len(p.adjacency[c]) <= MaxU32
                              /\ \A i \in DOMAIN p.adjacency[c] : p.adjacency[c][i][1] <= MaxU32
  /\ \A h \in p.hubs : Len(p.links[h]) <= MaxU32

\* What a build puts into each partition.
FreshImage(p) ==
  LET N == NodesOf(p)
      C == ClustersOf(p)
  IN
  [uuid_to_cluster |-> [u \in N |-> p.cluster[u]],
   uuid_to_region  |-> [u \in N |-> p.region[p.cluster[u]]],
   uuid_is_hub     |-> [u \in N |-> u \in p.hubs],
   hub_neighbors   |-> [h \in p.hubs |-> p.links[h]],
   cluster_members |-> [c \in C |-> Ascending(Bucket(p, c))],
   cluster_meta    |-> [c \in C |->
      [size |-> Cardinality(Bucket(p, c)),
       hub_count |-> Cardinality(Bucket(p, c) \cap p.hubs)]],
   labels          |-> [u \in DOMAIN p.label |-> p.label[u]],
   label_to_uuid   |-> [l \in Range(p.label) |-> LastLabelled(p, l)],
   cluster_drift   |-> [c \in C |-> [generation |-> 0, delta_inserts |-> 0]],
   cluster_neighbors |-> [c \in C |-> p.adjacency[c]]]

BuildImage(old, p) ==
  [name \in DOMAIN EmptyImage |-> Rewrite(old[name], FreshImage(p)[name])]

-----------------------------------------------------------------------------
(* The incremental insert.                                                 *)

\* The votes cluster c gets; a seed that is listed twice votes twice.
Votes(img, seeds, c) ==
  Cardinality({i \in DOMAIN seeds : /\ seeds[i] \in DOMAIN img.uuid_to_cluster
                                    /\ img.uuid_to_cluster[seeds[i]] = c})

Voted(img, seeds) ==
  {img.uuid_to_cluster[s] : s \in Range(seeds) \cap DOMAIN img.uuid_to_cluster}

\* Mutant: the maximum starts at 0 whether or not there is a cluster.
NextAfterZero(img) ==
  LET Ids == DOMAIN img.cluster_meta \cup {0}
  IN  (CHOOSE m \in Ids : \A c \in Ids : c <= m) + 1

\* max(existing ids) + 1, or 0 for an empty index.  May exceed MaxU32.
NextClusterId(img) ==
  LET Ids == DOMAIN img.cluster_meta
  IN  IF Ids = {} THEN 0 ELSE (CHOOSE m \in Ids : \A c \in Ids : c <= m) + 1

\* The one cluster the node is assigned to: most votes, then lowest id; a
\* fresh id when no seed is known.
Assigned(img, seeds) ==
  IF Voted(img, seeds) = {} THEN {NextClusterId(img)}
  ELSE {c \in Voted(img, seeds) :
          \A d \in Voted(img, seeds) :
             \/ Votes(img, seeds, d) < Votes(img, seeds, c)
             \/ Votes(img, seeds, d) = Votes(img, seeds, c) /\ c <= d}

\* Mutant: a cluster that has no entry yet counts as one insert.
DriftStartsAtOne(img, c) ==
  Lookup(img.cluster_drift, c, [generation |-> 0, delta_inserts |-> 1])

MembersOf(img, c) == Lookup(img.cluster_members, c, << >>)
MetaOf(img, c)    == Lookup(img.cluster_meta, c, [size |-> 0, hub_count |-> 0])
DriftOf(img, c)   ==
  Lookup(img.cluster_drift, c, [generation |-> 0, delta_inserts |-> 0])

\* Mutant: every inserted node gets the default region.
AlwaysDefaultRegion(img, c) == 0

\* The region of the cluster's first member; 0 for a cluster without members.
RegionOrDefault(img, c) ==
  IF MembersOf(img, c) = << >> THEN 0
  ELSE Lookup(img.uuid_to_region, MembersOf(img, c)[1], 0)

\* Mutant: only the allocation of ids is checked.
ChecksIdOnly(img, c) == c <= MaxU32

\* The checked additions of insert_node do not overflow.
InsertFits(img, c) ==
  /\ c <= MaxU32
  /\ MetaOf(img, c).size < MaxU32
  /\ DriftOf(img, c).delta_inserts < MaxU32

InsertImage(img, u, c, pos) ==
  [uuid_to_cluster |-> Put(img.uuid_to_cluster, u, c),
   uuid_to_region  |-> Put(img.uuid_to_region, u, RegionOrDefault(img, c)),
   uuid_is_hub     |-> Put(img.uuid_is_hub, u, FALSE),
   hub_neighbors   |-> img.hub_neighbors,
   cluster_members |-> Put(img.cluster_members, c,
                           InsertAtPos(MembersOf(img, c), pos, u)),
   cluster_meta    |-> Put(img.cluster_meta, c,
      [size |-> MetaOf(img, c).size + 1, hub_count |-> MetaOf(img, c).hub_count]),
   labels          |-> img.labels,
   label_to_uuid   |-> img.label_to_uuid,
   cluster_drift   |-> Put(img.cluster_drift, c,
      [generation |-> DriftOf(img, c).generation,
       delta_inserts |-> DriftOf(img, c).delta_inserts + 1]),
   cluster_neighbors |-> img.cluster_neighbors]
=============================================================================
