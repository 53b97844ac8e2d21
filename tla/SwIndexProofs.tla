--------------------------- MODULE SwIndexProofs ---------------------------
(***************************************************************************)
(* The safety properties of SwIndex, for every set of nodes, labels and    *)
(* sources, every u32 bound and every journal length.                      *)
(*                                                                         *)
(* The inductive invariant says that every image in the journal is Good:   *)
(* the conjunction is needed because an insert keeps no part of it alone   *)
(* (the sorted list keeps the binary search exact, the inverse maps keep   *)
(* the count and the region of the first member right, the dense ids make  *)
(* max + 1 free).                                                          *)
(***************************************************************************)
EXTENDS SwIndex, DataProofs

(* What the operations do to one image: the empty index is good, a rebuild *)
(* with a valid pipeline result makes a good image of any image, and an    *)
(* insert keeps a good image good.                                         *)

\* A rewrite leaves exactly what it puts, whatever was there before.
LEMMA RewriteIsFresh ==
  ASSUME NEW f, NEW D, NEW T, NEW fresh \in [D -> T]
  PROVE  Rewrite(f, fresh) = fresh
<1>1. DOMAIN fresh = D
  OBVIOUS
<1>2. (DOMAIN f \ DOMAIN f) \cup D = D
  OBVIOUS
<1> QED
  BY <1>1, <1>2 DEF Rewrite, ApplyBatch

\* A put changes one key.
LEMMA PutIs ==
  ASSUME NEW f, NEW k, NEW v
  PROVE  Put(f, k, v) = [x \in DOMAIN f \cup {k} |-> IF x = k THEN v ELSE f[x]]
BY DEF Put, ApplyBatch

\* A put of a key and a value of the right kinds keeps a map a map.
LEMMA PutIsMap ==
  ASSUME NEW S, NEW T, NEW f, IsMap(f, S, T), NEW k \in S, NEW v \in T
  PROVE  IsMap(Put(f, k, v), S, T)
<1>1. Put(f, k, v) = [x \in DOMAIN f \cup {k} |-> IF x = k THEN v ELSE f[x]]
  BY PutIs
<1>2. DOMAIN f \subseteq S /\ \A x \in DOMAIN f : f[x] \in T
  BY DEF IsMap
<1> QED
  BY <1>1, <1>2 DEF IsMap

-----------------------------------------------------------------------------

\* The empty index is a good image.
LEMMA EmptyGood == Good(EmptyImage)
<1>1. DOMAIN Empty = {} /\ Range(Empty) = {}
  BY DEF Empty, Range
<1>2. \A S, T : IsMap(Empty, S, T)
  BY DEF IsMap, Empty
<1>3. IsImage(EmptyImage)
  BY <1>1, <1>2 DEF IsImage, ListsFit, EmptyImage
<1>4. IdsDense(EmptyImage)
  <2>1. 0 \in 0..(MaxU32 + 1) /\ 0..(0 - 1) = {}
    BY MaxU32Assumption
  <2> QED
    BY <1>1, <2>1 DEF IdsDense, EmptyImage
<1>5. ClustersInverse(EmptyImage) /\ ListsAscend(EmptyImage)
  BY <1>1 DEF ClustersInverse, ListsAscend, EmptyImage
<1>6. MetaAgrees(EmptyImage) /\ RegionsAgree(EmptyImage) /\ DriftAgrees(EmptyImage)
  BY <1>1 DEF MetaAgrees, RegionsAgree, DriftAgrees, EmptyImage
<1>7. HubsAgree(EmptyImage) /\ LabelsAgree(EmptyImage)
  BY <1>1 DEF HubsAgree, LinksSymmetric, LabelsAgree, EmptyImage
<1> QED
  BY <1>3, <1>4, <1>5, <1>6, <1>7 DEF Good

-----------------------------------------------------------------------------
(* The rebuild.                                                            *)

\* The sets a pipeline result ranges over.
LEMMA BuildSets ==
  ASSUME NEW p, ValidBuild(p), FitsU32(p)
  PROVE  /\ NodesOf(p) \subseteq Uuid
         /\ \A u \in NodesOf(p) : p.cluster[u] \in ClustersOf(p)
         /\ ClustersOf(p) \subseteq ClusterId
         /\ \A c \in ClustersOf(p) : /\ Bucket(p, c) \subseteq NodesOf(p)
                                     /\ Bucket(p, c) # {}
                                     /\ IsFiniteSet(Bucket(p, c))
                                     /\ Bucket(p, c) \subseteq Int
                                     /\ Cardinality(Bucket(p, c)) \in ClusterId
<1>1. NodesOf(p) \subseteq Uuid
  BY RangeOfSeq DEF ValidBuild, NodesOf
<1>2. \A u \in NodesOf(p) : p.cluster[u] \in ClustersOf(p) /\ p.cluster[u] \in Nat
  BY DEF ValidBuild, ClustersOf
<1>3. ClustersOf(p) \subseteq ClusterId
  BY <1>2, MaxU32Assumption DEF FitsU32, ClustersOf, ClusterId
<1>4. ASSUME NEW c \in ClustersOf(p)
      PROVE  /\ Bucket(p, c) \subseteq NodesOf(p)
             /\ Bucket(p, c) # {}
             /\ IsFiniteSet(Bucket(p, c))
             /\ Bucket(p, c) \subseteq Int
             /\ Cardinality(Bucket(p, c)) \in ClusterId
  <2>1. Bucket(p, c) \subseteq NodesOf(p) /\ Bucket(p, c) # {}
    BY DEF Bucket, ClustersOf
  <2>2. Bucket(p, c) \subseteq Uuid
    BY <1>1, <2>1
  <2>3. IsFiniteSet(Bucket(p, c)) /\ Bucket(p, c) \subseteq Int
    <3>1. IsFiniteSet(Bucket(p, c))
      BY <2>2, UuidAssumption, FS_Subset
    <3>2. Bucket(p, c) \subseteq Int
      <4>1. \A u \in Uuid : u \in Int
        BY UuidAssumption
      <4> QED
        BY <2>2, <4>1
    <3> QED
      BY <3>1, <3>2
  <2>4. Cardinality(Bucket(p, c)) \in Nat
    BY <2>3, FS_CardinalityType
  <2>5. Cardinality(Bucket(p, c)) <= MaxU32
    BY DEF FitsU32
  <2> QED
    BY <2>1, <2>3, <2>4, <2>5, MaxU32Assumption DEF ClusterId
<1> QED
  BY <1>1, <1>2, <1>3, <1>4

\* What each partition holds after a rebuild: nothing of the old image.
LEMMA BuildIsFresh ==
  ASSUME NEW old, NEW p
  PROVE  LET img == BuildImage(old, p)
             new == FreshImage(p)
         IN  /\ img.uuid_to_cluster = new.uuid_to_cluster
             /\ img.uuid_to_region = new.uuid_to_region
             /\ img.uuid_is_hub = new.uuid_is_hub
             /\ img.hub_neighbors = new.hub_neighbors
             /\ img.cluster_members = new.cluster_members
             /\ img.cluster_meta = new.cluster_meta
             /\ img.labels = new.labels
             /\ img.label_to_uuid = new.label_to_uuid
             /\ img.cluster_drift = new.cluster_drift
             /\ img.cluster_neighbors = new.cluster_neighbors
<1> DEFINE img == BuildImage(old, p)
           new == FreshImage(p)
           F(g) == g = [x \in DOMAIN g |-> g[x]]
<1>1. \A f, g : F(g) => Rewrite(f, g) = g
  <2> SUFFICES ASSUME NEW f, NEW g, F(g)
               PROVE  Rewrite(f, g) = g
    OBVIOUS
  <2>1. g \in [DOMAIN g -> {g[x] : x \in DOMAIN g}]
    BY F(g)
  <2> QED
    BY <2>1, RewriteIsFresh
<1>2. /\ F(new.uuid_to_cluster) /\ F(new.uuid_to_region) /\ F(new.uuid_is_hub)
      /\ F(new.hub_neighbors) /\ F(new.cluster_members) /\ F(new.cluster_meta)
      /\ F(new.labels) /\ F(new.label_to_uuid) /\ F(new.cluster_drift)
      /\ F(new.cluster_neighbors)
  BY DEF FreshImage
<1>3. \A name \in DOMAIN EmptyImage : img[name] = Rewrite(old[name], new[name])
  BY DEF BuildImage
<1>4. DOMAIN EmptyImage =
        {"uuid_to_cluster", "uuid_to_region", "uuid_is_hub", "hub_neighbors",
         "cluster_members", "cluster_meta", "labels", "label_to_uuid",
         "cluster_drift", "cluster_neighbors"}
  BY DEF EmptyImage
<1> HIDE DEF F, img, new
<1> QED
  BY <1>1, <1>2, <1>3, <1>4 DEF img, new

\* The node listed last with a label carries it.
LEMMA LastLabelledCarries ==
  ASSUME NEW p, ValidBuild(p), NEW l \in Range(p.label)
  PROVE  /\ LastLabelled(p, l) \in DOMAIN p.label
         /\ p.label[LastLabelled(p, l)] = l
<1> DEFINE At == {i \in DOMAIN p.nodes : /\ p.nodes[i] \in DOMAIN p.label
                                         /\ p.label[p.nodes[i]] = l}
<1>1. DOMAIN p.nodes = 1..Len(p.nodes) /\ Len(p.nodes) \in Nat
  BY LenProperties DEF ValidBuild
<1>2. At # {}
  <2>1. PICK u \in DOMAIN p.label : p.label[u] = l
    BY DEF Range
  <2>2. PICK i \in DOMAIN p.nodes : p.nodes[i] = u
    BY DEF ValidBuild, IsMap, NodesOf, Range
  <2> QED
    BY <2>1, <2>2
<1>3. IsFiniteSet(At) /\ At \subseteq Int
  <2>1. At \in SUBSET (1..Len(p.nodes))
    BY <1>1
  <2>2. IsFiniteSet(1..Len(p.nodes))
    BY <1>1, FS_Interval
  <2>3. IsFiniteSet(At)
    BY <2>1, <2>2, FS_Subset
  <2> QED
    BY <2>1, <2>3
<1>4. \E m \in At : \A j \in At : j <= m
  <2> HIDE DEF At
  <2> QED
    BY <1>2, <1>3, GreatestExists
<1> DEFINE last == CHOOSE m \in At : \A j \in At : j <= m
<1>5. last \in At
  BY <1>4
<1>6. LastLabelled(p, l) = p.nodes[last]
  BY DEF LastLabelled
<1> QED
  BY <1>5, <1>6

\* A rebuild from a valid pipeline result gives a good image, whatever the
\* image it replaces.
LEMMA BuildGood ==
  ASSUME NEW old, NEW p, ValidBuild(p), FitsU32(p)
  PROVE  Good(BuildImage(old, p))
<1> DEFINE img == BuildImage(old, p)
           N == NodesOf(p)
           C == ClustersOf(p)
           B(c) == Bucket(p, c)
<1>1. /\ img.uuid_to_cluster = [u \in N |-> p.cluster[u]]
      /\ img.uuid_to_region = [u \in N |-> p.region[p.cluster[u]]]
      /\ img.uuid_is_hub = [u \in N |-> u \in p.hubs]
      /\ img.hub_neighbors = [h \in p.hubs |-> p.links[h]]
      /\ img.cluster_members = [c \in C |-> Ascending(B(c))]
      /\ img.cluster_meta = [c \in C |-> [size |-> Cardinality(B(c)),
                                hub_count |-> Cardinality(B(c) \cap p.hubs)]]
      /\ img.labels = [u \in DOMAIN p.label |-> p.label[u]]
      /\ img.label_to_uuid = [l \in Range(p.label) |-> LastLabelled(p, l)]
      /\ img.cluster_drift = [c \in C |-> [generation |-> 0, delta_inserts |-> 0]]
      /\ img.cluster_neighbors = [c \in C |-> p.adjacency[c]]
  <2> DEFINE new == FreshImage(p)
  <2>1. /\ img.uuid_to_cluster = new.uuid_to_cluster
        /\ img.uuid_to_region = new.uuid_to_region
        /\ img.uuid_is_hub = new.uuid_is_hub
        /\ img.hub_neighbors = new.hub_neighbors
        /\ img.cluster_members = new.cluster_members
        /\ img.cluster_meta = new.cluster_meta
        /\ img.labels = new.labels
        /\ img.label_to_uuid = new.label_to_uuid
        /\ img.cluster_drift = new.cluster_drift
        /\ img.cluster_neighbors = new.cluster_neighbors
    BY BuildIsFresh
  <2> HIDE DEF img
  <2> QED
    BY <2>1 DEF FreshImage
<1> HIDE DEF img
<1>2. /\ N \subseteq Uuid /\ C \subseteq ClusterId
      /\ \A u \in N : p.cluster[u] \in C
      /\ \A c \in C : /\ B(c) \subseteq N /\ B(c) # {}
                       /\ IsFiniteSet(B(c)) /\ B(c) \subseteq Int
                       /\ Cardinality(B(c)) \in ClusterId
  BY BuildSets
<1>3. \A c \in C : /\ Ascending(B(c)) \in Seq(B(c))
                    /\ Len(Ascending(B(c))) = Cardinality(B(c))
                    /\ Range(Ascending(B(c))) = B(c)
                    /\ IsAscending(Ascending(B(c)))
  BY <1>2, AscendingSorts
<1>4. \A c \in C : Cardinality(B(c)) \in Nat \ {0}
  BY <1>2, FS_CardinalityType, FS_EmptySet
<1>5. IsImage(img)
  <2>1. IsMap(img.uuid_to_cluster, Uuid, ClusterId)
    BY <1>1, <1>2 DEF IsMap
  <2>2. IsMap(img.uuid_to_region, Uuid, ClusterId)
    <3>1. \A c \in C : p.region[c] \in ClusterId
      BY MaxU32Assumption DEF ValidBuild, FitsU32, ClusterId
    <3> QED
      BY <1>1, <1>2, <3>1 DEF IsMap
  <2>3. IsMap(img.uuid_is_hub, Uuid, BOOLEAN)
    BY <1>1, <1>2 DEF IsMap
  <2>4. IsMap(img.hub_neighbors, Uuid, Seq(Uuid \X Nat))
    BY <1>1, <1>2 DEF IsMap, ValidBuild
  <2>5. IsMap(img.cluster_members, ClusterId, Seq(Uuid))
    <3>1. \A c \in C : B(c) \subseteq Uuid
      BY <1>2
    <3>2. \A c \in C : Ascending(B(c)) \in Seq(Uuid)
      BY <1>3, <3>1, SeqMonotonic
    <3> QED
      BY <1>1, <1>2, <3>2 DEF IsMap
  <2>6. IsMap(img.cluster_meta, ClusterId, [size : ClusterId, hub_count : ClusterId])
    <3>1. ASSUME NEW c \in C
          PROVE  Cardinality(B(c) \cap p.hubs) \in ClusterId
      <4>1. /\ Cardinality(B(c) \cap p.hubs) \in Nat
            /\ Cardinality(B(c) \cap p.hubs) <= Cardinality(B(c))
        BY <1>2, FS_Intersection, FS_CardinalityType
      <4>2. Cardinality(B(c)) \in 0..MaxU32
        BY <1>2 DEF ClusterId
      <4> QED
        BY <4>1, <4>2, MaxU32Assumption DEF ClusterId
    <3> QED
      BY <1>1, <1>2, <3>1 DEF IsMap
  <2>7. IsMap(img.labels, Uuid, Label)
    BY <1>1, <1>2 DEF IsMap, ValidBuild
  <2>8. IsMap(img.label_to_uuid, Label, Uuid)
    <3>1. Range(p.label) \subseteq Label
      BY DEF Range, IsMap, ValidBuild
    <3>2. DOMAIN p.label \subseteq Uuid
      BY <1>2 DEF IsMap, ValidBuild
    <3>3. \A l \in Range(p.label) : LastLabelled(p, l) \in Uuid
      BY <3>2, LastLabelledCarries
    <3> QED
      BY <1>1, <3>1, <3>3 DEF IsMap
  <2>9. IsMap(img.cluster_drift, ClusterId,
              [generation : Nat, delta_inserts : ClusterId])
    BY <1>1, <1>2, MaxU32Assumption DEF IsMap, ClusterId
  <2>10. IsMap(img.cluster_neighbors, ClusterId, Seq(Nat \X Nat))
    BY <1>1, <1>2 DEF IsMap, ValidBuild
  <2>11. ListsFit(img)
    <3>1. \A h \in p.hubs : Len(p.links[h]) <= MaxU32
      BY DEF FitsU32
    <3>2. ASSUME NEW c \in C, NEW i \in DOMAIN p.adjacency[c]
          PROVE  p.adjacency[c][i][1] \in ClusterId
      <4>1. p.adjacency[c] \in Seq(Nat \X Nat)
        BY DEF ValidBuild
      <4>2. p.adjacency[c][i] \in Nat \X Nat
        BY <4>1
      <4>3. p.adjacency[c][i][1] \in Nat
        BY <4>2
      <4>4. p.adjacency[c][i][1] <= MaxU32
        BY DEF FitsU32
      <4> QED
        BY <4>3, <4>4, MaxU32Assumption DEF ClusterId
    <3>3. \A c \in C : Len(p.adjacency[c]) <= MaxU32
      BY DEF FitsU32
    <3> QED
      BY <1>1, <3>1, <3>2, <3>3 DEF ListsFit
  <2> QED
    BY <2>1, <2>2, <2>3, <2>4, <2>5, <2>6, <2>7, <2>8, <2>9, <2>10, <2>11 DEF IsImage
<1>6. ClustersInverse(img)
  <2>1. \A u \in DOMAIN img.uuid_to_cluster :
           img.uuid_to_cluster[u] \in DOMAIN img.cluster_members
    BY <1>1, <1>2
  <2>2. ASSUME NEW c \in C
        PROVE  /\ img.cluster_members[c] # << >>
               /\ Range(img.cluster_members[c]) =
                    {u \in DOMAIN img.uuid_to_cluster : img.uuid_to_cluster[u] = c}
    <3>1. img.cluster_members[c] = Ascending(B(c))
      BY <1>1
    <3>2. Ascending(B(c)) # << >>
      BY <1>3, <1>4
    <3>3. B(c) = {u \in DOMAIN img.uuid_to_cluster : img.uuid_to_cluster[u] = c}
      BY <1>1 DEF Bucket
    <3> QED
      BY <1>3, <3>1, <3>2, <3>3
  <2> QED
    BY <1>1, <2>1, <2>2 DEF ClustersInverse
<1>7. ListsAscend(img)
  BY <1>1, <1>3 DEF ListsAscend
<1>8. IdsDense(img)
  <2> DEFINE n == Cardinality(C)
  <2> HIDE DEF n
  <2>1. C = 0..(n - 1)
    BY DEF ValidBuild, n
  <2>2. n \in Nat
    <3>1. IsFiniteSet(ClusterId)
      BY MaxU32Assumption, FS_Interval DEF ClusterId
    <3>2. IsFiniteSet(C)
      BY <1>2, <3>1, FS_Subset
    <3> QED
      BY <3>2, FS_CardinalityType DEF n
  <2>3. n <= MaxU32 + 1
    <3>1. n # 0 => n - 1 \in C
      BY <2>1, <2>2
    <3>2. n # 0 => n - 1 \in 0..MaxU32
      BY <1>2, <3>1 DEF ClusterId
    <3> QED
      BY <2>2, <3>2, MaxU32Assumption
  <2>4. DOMAIN img.cluster_members = C
    BY <1>1
  <2>5. n \in 0..(MaxU32 + 1)
    BY <2>2, <2>3, MaxU32Assumption
  <2> QED
    BY <2>1, <2>4, <2>5 DEF IdsDense
<1>9. MetaAgrees(img)
  <2>1. ASSUME NEW c \in C
        PROVE  {u \in Range(img.cluster_members[c]) : img.uuid_is_hub[u]}
                 = B(c) \cap p.hubs
    <3>1. Range(img.cluster_members[c]) = B(c)
      BY <1>1, <1>3
    <3>2. \A u \in B(c) : img.uuid_is_hub[u] <=> u \in p.hubs
      BY <1>1, <1>2
    <3> QED
      BY <3>1, <3>2
  <2>2. DOMAIN img.cluster_meta = C /\ DOMAIN img.cluster_members = C
    BY <1>1
  <2>3. ASSUME NEW c \in C
        PROVE  /\ img.cluster_meta[c].size = Len(img.cluster_members[c])
               /\ img.cluster_meta[c].hub_count = Cardinality(B(c) \cap p.hubs)
    BY <1>1, <1>3
  <2> QED
    BY <2>1, <2>2, <2>3 DEF MetaAgrees
<1>10. RegionsAgree(img)
  BY <1>1 DEF RegionsAgree
<1>11. DriftAgrees(img)
  BY <1>1, <1>4 DEF DriftAgrees
<1>12. HubsAgree(img)
  <2>1. img.hub_neighbors = p.links
    BY <1>1 DEF ValidBuild
  <2>2. DOMAIN p.links = p.hubs /\ p.hubs \subseteq N /\ LinksSymmetric(p.links)
    BY DEF ValidBuild
  <2> QED
    BY ZenonT(30), <1>1, <2>1, <2>2 DEF HubsAgree
<1>13. LabelsAgree(img)
  <2>1. DOMAIN p.label \subseteq N
    BY DEF ValidBuild, IsMap
  <2>2. Range(img.labels) = Range(p.label)
    <3>1. img.labels = p.label
      BY <1>1 DEF ValidBuild, IsMap
    <3> QED
      BY <3>1
  <2> QED
    BY <1>1, <2>1, <2>2, LastLabelledCarries DEF LabelsAgree
<1> QED
  BY <1>5, <1>6, <1>7, <1>8, <1>9, <1>10, <1>11, <1>12, <1>13 DEF Good, img

-----------------------------------------------------------------------------
(* The insert.                                                             *)

\* An insert goes to a cluster of a seed, or to the first free id.
LEMMA AssignedIs ==
  ASSUME NEW img, Good(img), NEW seeds, NEW c \in Assigned(img, seeds),
         InsertFits(img, c)
  PROVE  /\ c \in ClusterId
         /\ IF Voted(img, seeds) = {}
            THEN DOMAIN img.cluster_members = 0..(c - 1)
            ELSE c \in Voted(img, seeds) \cap DOMAIN img.cluster_members
<1> DEFINE D == DOMAIN img.cluster_members
<1>1. PICK n \in 0..(MaxU32 + 1) : D = 0..(n - 1)
  BY DEF Good, IdsDense
<1>2. DOMAIN img.cluster_meta = D
  BY DEF Good, MetaAgrees
<1>3. D \subseteq ClusterId
  BY DEF Good, IsImage, IsMap
<1> HIDE DEF D
<1>4. CASE Voted(img, seeds) = {}
  <2>1. c = NextClusterId(img)
    BY <1>4 DEF Assigned
  <2>2. CASE n = 0
    <3>1. D = {}
      BY <1>1, <2>2
    <3>2. c = 0
      BY <1>2, <2>1, <3>1 DEF NextClusterId
    <3> QED
      BY <1>1, <1>4, <2>2, <3>2, MaxU32Assumption DEF ClusterId, D
  <2>3. CASE n # 0
    <3> DEFINE m == CHOOSE m \in D : \A d \in D : d <= m
    <3>1. n \in Nat /\ n - 1 \in D /\ \A d \in D : d <= n - 1
      BY <1>1, <2>3, MaxU32Assumption
    <3>2. m \in D /\ \A d \in D : d <= m
      BY <3>1
    <3>3. c = m + 1
      BY <1>2, <2>1, <3>1 DEF NextClusterId
    <3> HIDE DEF m
    <3>4. m = n - 1
      BY <1>1, <3>1, <3>2
    <3>5. c = n
      BY <3>1, <3>3, <3>4
    <3>6. c <= MaxU32
      BY DEF InsertFits
    <3> QED
      BY <1>1, <1>4, <3>1, <3>5, <3>6, MaxU32Assumption DEF ClusterId, D
  <2> QED
    BY <2>2, <2>3
<1>5. CASE Voted(img, seeds) # {}
  <2>1. c \in Voted(img, seeds)
    BY <1>5 DEF Assigned
  <2>2. c \in D
    BY <2>1 DEF Voted, Good, ClustersInverse, D
  <2> QED
    BY <1>3, <1>5, <2>1, <2>2 DEF D
<1> QED
  BY <1>4, <1>5

\* What insert_node reads of the cluster it inserts into, entries of it that
\* are missing included.
LEMMA ClusterReads ==
  ASSUME NEW img, Good(img), NEW c \in ClusterId
  PROVE  /\ MembersOf(img, c) \in Seq(Uuid)
         /\ IsAscending(MembersOf(img, c))
         /\ Range(MembersOf(img, c)) =
              {v \in DOMAIN img.uuid_to_cluster : img.uuid_to_cluster[v] = c}
         /\ MetaOf(img, c) =
              [size |-> Len(MembersOf(img, c)),
               hub_count |-> Cardinality({v \in Range(MembersOf(img, c)) :
                                              img.uuid_is_hub[v]})]
         /\ MetaOf(img, c) \in [size : ClusterId, hub_count : ClusterId]
         /\ DriftOf(img, c) \in [generation : Nat, delta_inserts : ClusterId]
         /\ DriftOf(img, c).delta_inserts <= MetaOf(img, c).size
         /\ c \in DOMAIN img.cluster_neighbors
               <=> DriftOf(img, c).delta_inserts < MetaOf(img, c).size
         /\ RegionOrDefault(img, c) \in ClusterId
         /\ \A v \in Range(MembersOf(img, c)) :
               img.uuid_to_region[v] = RegionOrDefault(img, c)
<1> DEFINE m == MembersOf(img, c)
<1>1. /\ DOMAIN img.cluster_meta = DOMAIN img.cluster_members
      /\ DOMAIN img.cluster_drift = DOMAIN img.cluster_members
      /\ DOMAIN img.cluster_neighbors \subseteq DOMAIN img.cluster_members
  BY DEF Good, MetaAgrees, DriftAgrees
<1>2. 0 \in ClusterId
  BY MaxU32Assumption DEF ClusterId
<1>3. /\ m \in Seq(Uuid) /\ IsAscending(m)
      /\ Range(m) = {v \in DOMAIN img.uuid_to_cluster : img.uuid_to_cluster[v] = c}
  <2>1. CASE c \in DOMAIN img.cluster_members
    <3>1. m = img.cluster_members[c]
      BY <2>1 DEF MembersOf, Lookup
    <3> QED
      BY <2>1, <3>1 DEF Good, IsImage, IsMap, ListsAscend, ClustersInverse
  <2>2. CASE c \notin DOMAIN img.cluster_members
    <3>1. m = << >>
      BY <2>2 DEF MembersOf, Lookup
    <3>2. m \in Seq(Uuid) /\ IsAscending(m) /\ Range(m) = {}
      BY <3>1 DEF IsAscending, Range
    <3>3. \A v \in DOMAIN img.uuid_to_cluster : img.uuid_to_cluster[v] # c
      BY <2>2 DEF Good, ClustersInverse
    <3> QED
      BY <3>2, <3>3
  <2> QED
    BY <2>1, <2>2
<1>4. /\ MetaOf(img, c) =
           [size |-> Len(m),
            hub_count |-> Cardinality({v \in Range(m) : img.uuid_is_hub[v]})]
      /\ MetaOf(img, c) \in [size : ClusterId, hub_count : ClusterId]
  <2>1. CASE c \in DOMAIN img.cluster_members
    <3>1. m = img.cluster_members[c] /\ MetaOf(img, c) = img.cluster_meta[c]
      BY <1>1, <2>1 DEF MembersOf, MetaOf, Lookup
    <3>2. img.cluster_meta[c] \in [size : ClusterId, hub_count : ClusterId]
      BY <1>1, <2>1 DEF Good, IsImage, IsMap
    <3>3. /\ img.cluster_meta[c].size = Len(m)
          /\ img.cluster_meta[c].hub_count =
               Cardinality({v \in Range(m) : img.uuid_is_hub[v]})
      BY <1>1, <2>1, <3>1 DEF Good, MetaAgrees
    <3> QED
      BY <3>1, <3>2, <3>3
  <2>2. CASE c \notin DOMAIN img.cluster_members
    <3>1. m = << >> /\ MetaOf(img, c) = [size |-> 0, hub_count |-> 0]
      BY <1>1, <2>2 DEF MembersOf, MetaOf, Lookup
    <3>2. Len(m) = 0 /\ {v \in Range(m) : img.uuid_is_hub[v]} = {}
      BY <3>1 DEF Range
    <3>3. Cardinality({v \in Range(m) : img.uuid_is_hub[v]}) = 0
      BY <3>2, FS_EmptySet
    <3>4. MetaOf(img, c) \in [size : ClusterId, hub_count : ClusterId]
      BY <1>2, <3>1
    <3> HIDE DEF m
    <3> QED
      BY <3>1, <3>2, <3>3, <3>4
  <2> QED
    BY <2>1, <2>2
<1>5. /\ DriftOf(img, c) \in [generation : Nat, delta_inserts : ClusterId]
      /\ DriftOf(img, c).delta_inserts <= MetaOf(img, c).size
      /\ c \in DOMAIN img.cluster_neighbors
            <=> DriftOf(img, c).delta_inserts < MetaOf(img, c).size
  <2>1. CASE c \in DOMAIN img.cluster_members
    <3>1. /\ MetaOf(img, c) = img.cluster_meta[c]
          /\ DriftOf(img, c) = img.cluster_drift[c]
      BY <1>1, <2>1 DEF MetaOf, DriftOf, Lookup
    <3> QED
      BY <1>1, <2>1, <3>1 DEF Good, IsImage, IsMap, DriftAgrees
  <2>2. CASE c \notin DOMAIN img.cluster_members
    <3>1. /\ MetaOf(img, c) = [size |-> 0, hub_count |-> 0]
          /\ DriftOf(img, c) = [generation |-> 0, delta_inserts |-> 0]
      BY <1>1, <2>2 DEF MetaOf, DriftOf, Lookup
    <3> QED
      BY <1>1, <1>2, <2>2, <3>1
  <2> QED
    BY <2>1, <2>2
<1>6. /\ RegionOrDefault(img, c) \in ClusterId
      /\ \A v \in Range(m) : img.uuid_to_region[v] = RegionOrDefault(img, c)
  <2>1. CASE m = << >>
    <3>1. Range(m) = {} /\ RegionOrDefault(img, c) = 0
      BY <2>1 DEF RegionOrDefault, Range
    <3> QED
      BY <1>2, <3>1
  <2>2. CASE m # << >>
    <3>1. m[1] \in Range(m)
      <4>1. 1 \in DOMAIN m
        BY <1>3, <2>2, EmptySeq, LenProperties
      <4> QED
        BY <4>1 DEF Range
    <3>2. DOMAIN img.uuid_to_region = DOMAIN img.uuid_to_cluster
      BY DEF Good, RegionsAgree
    <3>3. RegionOrDefault(img, c) = img.uuid_to_region[m[1]]
      BY <1>3, <2>2, <3>1, <3>2 DEF RegionOrDefault, Lookup
    <3>4. img.uuid_to_region[m[1]] \in ClusterId
      BY <1>3, <3>1, <3>2 DEF Good, IsImage, IsMap
    <3>5. \A v \in Range(m) : img.uuid_to_region[v] = img.uuid_to_region[m[1]]
      BY <1>3, <3>1 DEF Good, RegionsAgree
    <3> QED
      BY <3>3, <3>4, <3>5
  <2> QED
    BY <2>1, <2>2
<1> QED
  BY <1>3, <1>4, <1>5, <1>6

\* An insert that passes its checks keeps a good image good.
LEMMA InsertGood ==
  ASSUME NEW img, Good(img), NEW u \in Uuid, u \notin DOMAIN img.uuid_to_cluster,
         NEW seeds, NEW c \in Assigned(img, seeds), InsertFits(img, c),
         NEW pos \in SearchMisses(MembersOf(img, c), u)
  PROVE  Good(InsertImage(img, u, c, pos))
<1> DEFINE new == InsertImage(img, u, c, pos)
           U == DOMAIN img.uuid_to_cluster
           D == DOMAIN img.cluster_members
           m == MembersOf(img, c)
           t == InsertAtPos(m, pos, u)
           r == RegionOrDefault(img, c)
           meta == MetaOf(img, c)
           drift == DriftOf(img, c)
           Hubs(s) == {v \in Range(s) : img.uuid_is_hub[v]}
<1>1. c \in ClusterId /\ (c \in D \/ D = 0..(c - 1))
  BY AssignedIs
<1>2. /\ m \in Seq(Uuid) /\ IsAscending(m)
      /\ Range(m) = {v \in U : img.uuid_to_cluster[v] = c}
      /\ meta = [size |-> Len(m), hub_count |-> Cardinality(Hubs(m))]
      /\ meta \in [size : ClusterId, hub_count : ClusterId]
      /\ drift \in [generation : Nat, delta_inserts : ClusterId]
      /\ drift.delta_inserts <= meta.size
      /\ c \in DOMAIN img.cluster_neighbors <=> drift.delta_inserts < meta.size
      /\ r \in ClusterId
      /\ \A v \in Range(m) : img.uuid_to_region[v] = r
  BY <1>1, ClusterReads
<1>3. /\ t \in Seq(Uuid) /\ Len(t) = Len(m) + 1
      /\ Range(t) = Range(m) \cup {u} /\ IsAscending(t)
  <2>1. Uuid \subseteq Int
    BY UuidAssumption
  <2>2. u \notin Range(m)
    BY <1>2
  <2> QED
    BY <1>2, <2>1, <2>2, InsertKeepsOrder
<1>4. /\ new.uuid_to_cluster = Put(img.uuid_to_cluster, u, c)
      /\ new.uuid_to_region = Put(img.uuid_to_region, u, r)
      /\ new.uuid_is_hub = Put(img.uuid_is_hub, u, FALSE)
      /\ new.hub_neighbors = img.hub_neighbors
      /\ new.cluster_members = Put(img.cluster_members, c, t)
      /\ new.cluster_meta = Put(img.cluster_meta, c,
             [size |-> meta.size + 1, hub_count |-> meta.hub_count])
      /\ new.labels = img.labels /\ new.label_to_uuid = img.label_to_uuid
      /\ new.cluster_drift = Put(img.cluster_drift, c,
             [generation |-> drift.generation,
              delta_inserts |-> drift.delta_inserts + 1])
      /\ new.cluster_neighbors = img.cluster_neighbors
  BY DEF InsertImage
<1> HIDE DEF new, U, D, m, t, r, meta, drift
<1>5. \A f, k, v : Put(f, k, v) =
                     [x \in DOMAIN f \cup {k} |-> IF x = k THEN v ELSE f[x]]
  BY PutIs
<1>6. /\ DOMAIN img.uuid_to_cluster = U /\ DOMAIN img.uuid_to_region = U
      /\ DOMAIN img.uuid_is_hub = U
      /\ DOMAIN img.cluster_members = D /\ DOMAIN img.cluster_meta = D
      /\ DOMAIN img.cluster_drift = D /\ DOMAIN img.cluster_neighbors \subseteq D
  BY DEF Good, MetaAgrees, DriftAgrees, RegionsAgree, HubsAgree, U, D
<1>7. u \notin U
  BY DEF U
<1>8. /\ \A v \in U : new.uuid_to_cluster[v] = img.uuid_to_cluster[v]
      /\ DOMAIN new.uuid_to_cluster = U \cup {u} /\ new.uuid_to_cluster[u] = c
      /\ \A v \in U : new.uuid_to_region[v] = img.uuid_to_region[v]
      /\ DOMAIN new.uuid_to_region = U \cup {u} /\ new.uuid_to_region[u] = r
      /\ \A v \in U : new.uuid_is_hub[v] = img.uuid_is_hub[v]
      /\ DOMAIN new.uuid_is_hub = U \cup {u} /\ new.uuid_is_hub[u] = FALSE
  BY <1>4, <1>5, <1>6, <1>7
<1>9. /\ DOMAIN new.cluster_members = D \cup {c} /\ new.cluster_members[c] = t
      /\ \A d \in D \ {c} : new.cluster_members[d] = img.cluster_members[d]
      /\ DOMAIN new.cluster_meta = D \cup {c}
      /\ new.cluster_meta[c] = [size |-> meta.size + 1, hub_count |-> meta.hub_count]
      /\ \A d \in D \ {c} : new.cluster_meta[d] = img.cluster_meta[d]
      /\ DOMAIN new.cluster_drift = D \cup {c}
      /\ new.cluster_drift[c] = [generation |-> drift.generation,
                                delta_inserts |-> drift.delta_inserts + 1]
      /\ \A d \in D \ {c} : new.cluster_drift[d] = img.cluster_drift[d]
  BY ZenonT(30), <1>4, <1>5, <1>6
<1>10. IsImage(new)
  <2>1. /\ IsMap(img.uuid_to_cluster, Uuid, ClusterId)
        /\ IsMap(img.uuid_to_region, Uuid, ClusterId)
        /\ IsMap(img.uuid_is_hub, Uuid, BOOLEAN)
        /\ IsMap(img.cluster_members, ClusterId, Seq(Uuid))
        /\ IsMap(img.cluster_meta, ClusterId, [size : ClusterId, hub_count : ClusterId])
        /\ IsMap(img.cluster_drift, ClusterId,
                 [generation : Nat, delta_inserts : ClusterId])
    BY DEF Good, IsImage
  <2>2. IsMap(new.uuid_to_cluster, Uuid, ClusterId)
    BY <1>1, <1>4, <2>1, PutIsMap
  <2>3. IsMap(new.uuid_to_region, Uuid, ClusterId)
    BY <1>2, <1>4, <2>1, PutIsMap
  <2>4. IsMap(new.uuid_is_hub, Uuid, BOOLEAN)
    <3>1. FALSE \in BOOLEAN
      OBVIOUS
    <3>2. IsMap(Put(img.uuid_is_hub, u, FALSE), Uuid, BOOLEAN)
      BY <2>1, <3>1, PutIsMap
    <3> QED
      BY <1>4, <3>2
  <2>5. IsMap(new.cluster_members, ClusterId, Seq(Uuid))
    BY <1>1, <1>3, <1>4, <2>1, PutIsMap
  <2>6. IsMap(new.cluster_meta, ClusterId, [size : ClusterId, hub_count : ClusterId])
    <3> DEFINE v == [size |-> meta.size + 1, hub_count |-> meta.hub_count]
    <3>1. meta.size + 1 \in ClusterId /\ meta.hub_count \in ClusterId
      BY <1>2, MaxU32Assumption DEF InsertFits, ClusterId, meta
    <3>2. v \in [size : ClusterId, hub_count : ClusterId]
      BY <3>1
    <3>3. new.cluster_meta = Put(img.cluster_meta, c, v)
      BY <1>4
    <3> DEFINE T == [size : ClusterId, hub_count : ClusterId]
    <3>4. v \in T /\ IsMap(img.cluster_meta, ClusterId, T)
      BY <2>1, <3>2
    <3> HIDE DEF v, T
    <3>5. IsMap(new.cluster_meta, ClusterId, T)
      BY <1>1, <3>3, <3>4, PutIsMap
    <3> QED
      BY <3>5 DEF T
  <2>7. IsMap(new.cluster_drift, ClusterId,
              [generation : Nat, delta_inserts : ClusterId])
    <3> DEFINE v == [generation |-> drift.generation,
                     delta_inserts |-> drift.delta_inserts + 1]
    <3>1. drift.delta_inserts + 1 \in ClusterId /\ drift.generation \in Nat
      BY <1>2, MaxU32Assumption DEF InsertFits, ClusterId, drift
    <3>2. v \in [generation : Nat, delta_inserts : ClusterId]
      BY <3>1
    <3>3. new.cluster_drift = Put(img.cluster_drift, c, v)
      BY <1>4
    <3> DEFINE T == [generation : Nat, delta_inserts : ClusterId]
    <3>4. v \in T /\ IsMap(img.cluster_drift, ClusterId, T)
      BY <2>1, <3>2
    <3> HIDE DEF v, T
    <3>5. IsMap(new.cluster_drift, ClusterId, T)
      BY <1>1, <3>3, <3>4, PutIsMap
    <3> QED
      BY <3>5 DEF T
  <2> QED
    BY <1>4, <2>2, <2>3, <2>4, <2>5, <2>6, <2>7 DEF Good, IsImage, ListsFit
<1>11. ClustersInverse(new)
  <2>1. \A v \in U : img.uuid_to_cluster[v] \in D
    BY <1>6 DEF Good, ClustersInverse
  <2>2. \A v \in DOMAIN new.uuid_to_cluster :
          new.uuid_to_cluster[v] \in DOMAIN new.cluster_members
    BY <1>8, <1>9, <2>1
  <2>3. /\ new.cluster_members[c] # << >>
        /\ Range(new.cluster_members[c]) =
             {v \in DOMAIN new.uuid_to_cluster : new.uuid_to_cluster[v] = c}
    <3>1. t # << >>
      BY <1>2, <1>3, LenProperties
    <3>2. Range(m) \cup {u} =
            {v \in DOMAIN new.uuid_to_cluster : new.uuid_to_cluster[v] = c}
      BY <1>2, <1>7, <1>8
    <3> QED
      BY <1>3, <1>9, <3>1, <3>2
  <2>4. ASSUME NEW d \in D, d # c
        PROVE  /\ new.cluster_members[d] # << >>
               /\ Range(new.cluster_members[d]) =
                    {v \in DOMAIN new.uuid_to_cluster : new.uuid_to_cluster[v] = d}
    <3>1. /\ img.cluster_members[d] # << >>
          /\ Range(img.cluster_members[d]) = {v \in U : img.uuid_to_cluster[v] = d}
      BY <1>6 DEF Good, ClustersInverse
    <3>2. {v \in U : img.uuid_to_cluster[v] = d} =
            {v \in DOMAIN new.uuid_to_cluster : new.uuid_to_cluster[v] = d}
      BY <1>7, <1>8, <2>4
    <3> QED
      BY <1>9, <2>4, <3>1, <3>2
  <2> QED
    BY <1>9, <2>2, <2>3, <2>4 DEF ClustersInverse
<1>12. ListsAscend(new)
  BY <1>3, <1>6, <1>9 DEF Good, ListsAscend
<1>13. IdsDense(new)
  <2>1. CASE c \in D
    BY <1>6, <1>9, <2>1 DEF Good, IdsDense
  <2>2. CASE D = 0..(c - 1)
    <3>1. DOMAIN new.cluster_members = 0..((c + 1) - 1)
      BY <1>1, <1>9, <2>2, MaxU32Assumption DEF ClusterId
    <3>2. c + 1 \in 0..(MaxU32 + 1)
      BY <1>1, MaxU32Assumption DEF ClusterId
    <3> QED
      BY <3>1, <3>2 DEF IdsDense
  <2> QED
    BY <1>1, <2>1, <2>2
<1>14. MetaAgrees(new)
  <2>1. /\ new.cluster_meta[c].size = Len(new.cluster_members[c])
        /\ new.cluster_meta[c].hub_count =
             Cardinality({v \in Range(new.cluster_members[c]) : new.uuid_is_hub[v]})
    <3>1. {v \in Range(new.cluster_members[c]) : new.uuid_is_hub[v]} = Hubs(m)
      BY <1>2, <1>3, <1>7, <1>8, <1>9
    <3>2. meta.size = Len(m) /\ meta.hub_count = Cardinality(Hubs(m))
      BY <1>2
    <3>3. new.cluster_meta[c].size = Len(m) + 1 /\ Len(new.cluster_members[c]) = Len(m) + 1
      BY <1>3, <1>9, <3>2
    <3>4. new.cluster_meta[c].hub_count = Cardinality(Hubs(m))
      BY <1>9, <3>2
    <3> QED
      BY <3>1, <3>3, <3>4
  <2>2. ASSUME NEW d \in D, d # c
        PROVE  /\ new.cluster_meta[d].size = Len(new.cluster_members[d])
               /\ new.cluster_meta[d].hub_count =
                    Cardinality({v \in Range(new.cluster_members[d]) :
                                     new.uuid_is_hub[v]})
    <3>1. Range(img.cluster_members[d]) \subseteq U
      BY <1>6 DEF Good, ClustersInverse
    <3>2. {v \in Range(img.cluster_members[d]) : new.uuid_is_hub[v]} =
            {v \in Range(img.cluster_members[d]) : img.uuid_is_hub[v]}
      BY <1>8, <3>1
    <3>3. /\ img.cluster_meta[d].size = Len(img.cluster_members[d])
          /\ img.cluster_meta[d].hub_count =
               Cardinality({v \in Range(img.cluster_members[d]) : img.uuid_is_hub[v]})
      BY <1>6 DEF Good, MetaAgrees
    <3> QED
      BY <1>9, <2>2, <3>2, <3>3
  <2> QED
    BY <1>9, <2>1, <2>2 DEF MetaAgrees
<1>15. RegionsAgree(new)
  <2>1. \A v, w \in U : img.uuid_to_cluster[v] = img.uuid_to_cluster[w]
                          => img.uuid_to_region[v] = img.uuid_to_region[w]
    BY <1>6 DEF Good, RegionsAgree
  <2>2. \A v \in U : img.uuid_to_cluster[v] = c => img.uuid_to_region[v] = r
    BY <1>2
  <2> QED
    BY <1>8, <2>1, <2>2 DEF RegionsAgree
<1>16. DriftAgrees(new)
  <2>1. /\ new.cluster_drift[c].delta_inserts <= new.cluster_meta[c].size
        /\ c \in DOMAIN new.cluster_neighbors
             <=> new.cluster_drift[c].delta_inserts < new.cluster_meta[c].size
    <3>1. meta.size \in Int /\ drift.delta_inserts \in Int
      BY <1>2, MaxU32Assumption DEF ClusterId
    <3> QED
      BY <1>2, <1>4, <1>9, <3>1
  <2>2. ASSUME NEW d \in D, d # c
        PROVE  /\ new.cluster_drift[d].delta_inserts <= new.cluster_meta[d].size
               /\ d \in DOMAIN new.cluster_neighbors
                    <=> new.cluster_drift[d].delta_inserts < new.cluster_meta[d].size
    BY <1>4, <1>6, <1>9, <2>2 DEF Good, DriftAgrees
  <2> QED
    BY <1>4, <1>6, <1>9, <2>1, <2>2 DEF DriftAgrees
<1>17. HubsAgree(new)
  <2>1. /\ DOMAIN img.hub_neighbors = {v \in U : img.uuid_is_hub[v]}
        /\ LinksSymmetric(img.hub_neighbors)
    BY <1>6 DEF Good, HubsAgree
  <2>2. {v \in U : img.uuid_is_hub[v]} = {v \in U \cup {u} : new.uuid_is_hub[v]}
    BY <1>7, <1>8
  <2> QED
    BY <1>4, <1>8, <2>1, <2>2 DEF HubsAgree
<1>18. LabelsAgree(new)
  BY <1>4, <1>6, <1>8 DEF Good, LabelsAgree
<1> QED
  BY <1>10, <1>11, <1>12, <1>13, <1>14, <1>15, <1>16, <1>17, <1>18 DEF Good, new

-----------------------------------------------------------------------------
(* What the steps do to the journal.                                       *)

IInv ==
  /\ journal \in Seq(Range(journal))
  /\ Len(journal) \in 1..MaxJournal
  /\ Everywhere(Good)
  /\ phase \in {"closed", "open", "committed"}
  /\ result \in {"none", "ok", "error"}

\* What the operations see of a journal in the invariant.
LEMMA VisibleGood ==
  ASSUME IInv
  PROVE  /\ Len(journal) \in Nat \ {0}
         /\ DOMAIN journal = 1..Len(journal)
         /\ \A i \in 1..Len(journal) : Good(journal[i])
         /\ Good(Visible)
<1>1. Len(journal) \in Nat \ {0} /\ DOMAIN journal = 1..Len(journal)
  BY LenProperties, MaxJournalAssumption DEF IInv
<1>2. \A i \in 1..Len(journal) : Good(journal[i])
  BY <1>1 DEF IInv, Everywhere
<1> QED
  BY <1>1, <1>2 DEF Visible

\* A committed batch whose image is good keeps the journal good.
LEMMA CommitKeeps ==
  ASSUME IInv, NEW img, Good(img), Commit(img)
  PROVE  IInv'
<1> DEFINE S == Range(journal) \cup {img}
<1>1. /\ journal' = Append(journal, img) /\ Len(journal) < MaxJournal
      /\ phase' = "committed" /\ result' = "none"
  BY DEF Commit
<1>2. journal \in Seq(S) /\ img \in S
  BY SeqMonotonic DEF IInv
<1>3. /\ Append(journal, img) \in Seq(S)
      /\ Len(Append(journal, img)) = Len(journal) + 1
      /\ \A i \in 1..Len(journal) : Append(journal, img)[i] = journal[i]
      /\ Append(journal, img)[Len(journal) + 1] = img
  BY <1>2, AppendProperties
<1> HIDE DEF S
<1>4. /\ journal' \in Seq(S) /\ Len(journal') = Len(journal) + 1
      /\ \A i \in 1..Len(journal) : journal'[i] = journal[i]
      /\ journal'[Len(journal) + 1] = img
  BY <1>1, <1>3
<1>5. Len(journal) \in Nat \ {0} /\ \A i \in 1..Len(journal) : Good(journal[i])
  BY VisibleGood
<1>6. journal' \in Seq(Range(journal'))
  BY <1>4, SeqOfRange
<1>7. Len(journal') \in 1..MaxJournal
  BY <1>1, <1>4, <1>5, MaxJournalAssumption
<1>8. DOMAIN journal' = 1..Len(journal')
  BY <1>4, LenProperties
<1>9. \A i \in DOMAIN journal' : Good(journal'[i])
  <2> SUFFICES ASSUME NEW i \in 1..(Len(journal) + 1)
               PROVE  Good(journal'[i])
    BY <1>4, <1>8
  <2>1. CASE i = Len(journal) + 1
    BY <1>4, <2>1
  <2>2. CASE i # Len(journal) + 1
    <3>1. i \in 1..Len(journal)
      BY <1>5, <2>2
    <3> QED
      BY <1>4, <1>5, <3>1
  <2> QED
    BY <2>1, <2>2
<1> QED
  BY <1>1, <1>6, <1>7, <1>9 DEF IInv, Everywhere

\* A step that leaves the journal alone keeps it good.
LEMMA ReturnKeeps ==
  ASSUME IInv, NEW r \in {"ok", "error"}, Return(r)
  PROVE  IInv'
BY DEF IInv, Everywhere, Return

\* The initial state satisfies the invariant.
LEMMA InitIInv == Init => IInv
<1> SUFFICES ASSUME Init
             PROVE  IInv
  OBVIOUS
<1>1. /\ journal = <<EmptyImage>> /\ phase = "closed" /\ result = "none"
  BY DEF Init
<1>2. Len(journal) = 1 /\ DOMAIN journal = {1} /\ journal[1] = EmptyImage
  BY <1>1
<1>3. journal \in Seq(Range(journal))
  BY <1>1 DEF Range
<1>4. Everywhere(Good)
  BY <1>2, EmptyGood DEF Everywhere
<1> QED
  BY <1>1, <1>2, <1>3, <1>4, MaxJournalAssumption DEF IInv

\* Every step keeps it.
LEMMA NextIInv == IInv /\ [Next]_vars => IInv'
<1> SUFFICES ASSUME IInv, [Next]_vars
             PROVE  IInv'
  OBVIOUS
<1>1. CASE Open
  BY <1>1 DEF IInv, Everywhere, Open
<1>2. ASSUME NEW s \in Sources, BuildCommits(s)
      PROVE  IInv'
  <2>1. PICK p \in Pipeline(s) : FitsU32(p) /\ Commit(BuildImage(Visible, p))
    BY <1>2 DEF BuildCommits
  <2>2. ValidBuild(p)
    BY PipelineAssumption
  <2>3. Good(BuildImage(Visible, p))
    BY <2>1, <2>2, BuildGood
  <2> QED
    BY <2>1, <2>3, CommitKeeps
<1>3. ASSUME NEW s \in Sources, BuildRejected(s)
      PROVE  IInv'
  BY <1>3, ReturnKeeps DEF BuildRejected
<1>4. ASSUME NEW u \in Uuid, NEW seeds \in SeedLists, InsertCommits(u, seeds)
      PROVE  IInv'
  <2>1. PICK c \in Assigned(Visible, seeds) :
          /\ InsertFits(Visible, c)
          /\ \E pos \in SearchMisses(MembersOf(Visible, c), u) :
               Commit(InsertImage(Visible, u, c, pos))
    BY <1>4 DEF InsertCommits
  <2>2. PICK pos \in SearchMisses(MembersOf(Visible, c), u) :
          Commit(InsertImage(Visible, u, c, pos))
    BY <2>1
  <2>3. u \notin DOMAIN Visible.uuid_to_cluster
    BY <1>4 DEF InsertCommits
  <2>4. Good(InsertImage(Visible, u, c, pos))
    BY <2>1, <2>3, VisibleGood, InsertGood
  <2> QED
    BY <2>2, <2>4, CommitKeeps
<1>5. ASSUME NEW u \in Uuid, NEW seeds \in SeedLists, InsertRejected(u, seeds)
      PROVE  IInv'
  BY <1>5, ReturnKeeps DEF InsertRejected
<1>6. CASE StoreFails
  BY <1>6, ReturnKeeps DEF StoreFails
<1>7. CASE PersistReturns
  <2>1. /\ journal' = <<Visible>> /\ phase' = "open" /\ result' = "ok"
    BY <1>7 DEF PersistReturns
  <2>2. Len(journal') = 1 /\ DOMAIN journal' = {1} /\ journal'[1] = Visible
    BY <2>1
  <2>3. journal' \in Seq(Range(journal'))
    BY <2>1 DEF Range
  <2>4. \A i \in DOMAIN journal' : Good(journal'[i])
    BY <2>2, VisibleGood
  <2> QED
    BY <2>1, <2>2, <2>3, <2>4, MaxJournalAssumption DEF IInv, Everywhere
<1>8. CASE PersistFails
  BY <1>8, ReturnKeeps DEF PersistFails
<1>9. CASE Maintain
  BY <1>9, ReturnKeeps DEF Maintain
<1>10. CASE Stop
  <2>1. PICK k \in 1..Len(journal) : journal' = SubSeq(journal, 1, k)
    BY <1>10 DEF Stop
  <2>2. phase' = "closed" /\ result' = "none"
    BY <1>10 DEF Stop
  <2>3. /\ Len(journal) \in Nat \ {0}
        /\ \A i \in 1..Len(journal) : Good(journal[i])
    BY VisibleGood
  <2>4. \A i \in 1..k : i \in 1..Len(journal) /\ journal[i] \in Range(journal)
    BY <2>3, VisibleGood DEF Range
  <2>5. /\ journal' \in Seq(Range(journal)) /\ Len(journal') = k
        /\ \A i \in 1..k : journal'[i] = journal[i]
    BY <2>1, <2>3, <2>4, SubSeqProperties
  <2>6. journal' \in Seq(Range(journal'))
    BY <2>5, SeqOfRange
  <2>7. DOMAIN journal' = 1..k
    BY <2>5, LenProperties
  <2>8. \A i \in DOMAIN journal' : Good(journal'[i])
    BY <2>3, <2>4, <2>5, <2>7
  <2>9. Len(journal') \in 1..MaxJournal
    BY <2>3, <2>5, MaxJournalAssumption DEF IInv
  <2> QED
    BY <2>2, <2>6, <2>8, <2>9 DEF IInv, Everywhere
<1>11. CASE UNCHANGED vars
  BY <1>11 DEF IInv, Everywhere, vars
<1> QED
  BY <1>1, <1>2, <1>3, <1>4, <1>5, <1>6, <1>7, <1>8, <1>9, <1>10, <1>11 DEF Next

\* Every image in the journal is good, always.
THEOREM AlwaysGood == Spec => []IInv
<1>1. Init => IInv
  BY InitIInv
<1>2. IInv /\ [Next]_vars => IInv'
  BY NextIInv
<1> QED
  BY <1>1, <1>2, PTL DEF Spec

-----------------------------------------------------------------------------
(* The properties the runs check, each a part of the invariant.            *)

\* Every stored value keeps its type and its u32 width.
THEOREM TypeCorrect == Spec => []TypeOK
<1>1. IInv => TypeOK
  BY DEF IInv, TypeOK, Everywhere, Good
<1> QED
  BY <1>1, AlwaysGood, PTL

\* No sequence of rebuilds, inserts, failed fsyncs and restarts makes
\* uuid_to_cluster and cluster_members disagree.
THEOREM MembershipSafe == Spec => []MembershipAgrees
<1>1. IInv => MembershipAgrees
  BY DEF IInv, MembershipAgrees, Everywhere, Good
<1> QED
  BY <1>1, AlwaysGood, PTL

\* The binary search of insert_node always meets a sorted list.
THEOREM SortingSafe == Spec => []MembersSorted
<1>1. IInv => MembersSorted
  BY DEF IInv, MembersSorted, Everywhere, Good
<1> QED
  BY <1>1, AlwaysGood, PTL

\* The counted sizes and hub counts are those of the lists, and the counted
\* inserts agree with the sizes.
THEOREM CountsSafe == Spec => []CountersAgree
<1>1. IInv => CountersAgree
  BY DEF IInv, CountersAgree, Everywhere, Good
<1> QED
  BY <1>1, AlwaysGood, PTL

\* All nodes of a cluster have one region.
THEOREM RegionsSafe == Spec => []RegionPerCluster
<1>1. IInv => RegionPerCluster
  BY DEF IInv, RegionPerCluster, Everywhere, Good
<1> QED
  BY <1>1, AlwaysGood, PTL

\* Hub lists name only hubs of the index, symmetrically.
THEOREM HubsSafe == Spec => []HubListsClosed
<1>1. IInv => HubListsClosed
  BY DEF IInv, HubListsClosed, Everywhere, Good
<1> QED
  BY <1>1, AlwaysGood, PTL

\* Cluster ids have no gaps.
THEOREM IdsSafe == Spec => []ClusterIdsDense
<1>1. IInv => ClusterIdsDense
  BY DEF IInv, ClusterIdsDense, Everywhere, Good
<1> QED
  BY <1>1, AlwaysGood, PTL

\* The two label maps agree.
THEOREM LabelsSafe == Spec => []LabelsResolve
<1>1. IInv => LabelsResolve
  BY DEF IInv, LabelsResolve, Everywhere, Good
<1> QED
  BY <1>1, AlwaysGood, PTL

-----------------------------------------------------------------------------
(* The index implements ClusterPromise: every step of SwIndex is a step of *)
(* it, or leaves its variables alone.                                      *)

\* The clusters of a good image are disjoint, none is empty and together they
\* are its nodes.
LEMMA ClustersSplit ==
  ASSUME NEW img, Good(img)
  PROVE  Promise!Splits(ClustersIn(img), DOMAIN img.uuid_to_cluster)
<1> DEFINE U == DOMAIN img.uuid_to_cluster
           D == DOMAIN img.cluster_members
           M(c) == {v \in U : img.uuid_to_cluster[v] = c}
<1>1. /\ \A u \in U : img.uuid_to_cluster[u] \in D
      /\ \A c \in D : /\ img.cluster_members[c] # << >>
                       /\ Range(img.cluster_members[c]) = M(c)
  BY DEF Good, ClustersInverse
<1>2. ClustersIn(img) = {M(c) : c \in D}
  BY <1>1 DEF ClustersIn
<1>3. UNION ClustersIn(img) = U
  BY <1>1, <1>2
<1>4. \A c \in D : M(c) # {}
  <2> SUFFICES ASSUME NEW c \in D
               PROVE  M(c) # {}
    OBVIOUS
  <2>1. img.cluster_members[c] \in Seq(Uuid) /\ img.cluster_members[c] # << >>
    BY <1>1 DEF Good, IsImage, IsMap
  <2>2. 1 \in DOMAIN img.cluster_members[c]
    BY <2>1, EmptySeq, LenProperties
  <2>3. img.cluster_members[c][1] \in Range(img.cluster_members[c])
    BY <2>2 DEF Range
  <2> QED
    BY <1>1, <2>3
<1>5. {} \notin ClustersIn(img)
  BY <1>2, <1>4
<1>6. \A a, b \in ClustersIn(img) : a # b => a \cap b = {}
  BY <1>2
<1> QED
  BY <1>3, <1>5, <1>6 DEF Promise!Splits

\* A rebuild from p leaves exactly the nodes of p.
LEMMA BuildReplaces ==
  ASSUME NEW old, NEW p, ValidBuild(p), FitsU32(p)
  PROVE  Promise!Splits(ClustersIn(BuildImage(old, p)), NodesOf(p))
<1>1. BuildImage(old, p).uuid_to_cluster = FreshImage(p).uuid_to_cluster
  BY BuildIsFresh
<1>2. FreshImage(p).uuid_to_cluster = [u \in NodesOf(p) |-> p.cluster[u]]
  BY DEF FreshImage
<1>3. DOMAIN BuildImage(old, p).uuid_to_cluster = NodesOf(p)
  BY <1>1, <1>2
<1>4. Good(BuildImage(old, p))
  BY BuildGood
<1> QED
  BY <1>3, <1>4, ClustersSplit

\* The members of the clusters after an insert: one cluster has grown by the
\* node, or the node has one of its own.
LEMMA InsertAdds ==
  ASSUME NEW img, Good(img), NEW u \in Uuid, u \notin DOMAIN img.uuid_to_cluster,
         NEW seeds, NEW c \in Assigned(img, seeds), InsertFits(img, c),
         NEW pos \in SearchMisses(MembersOf(img, c), u)
  PROVE  LET Old == ClustersIn(img)
             New == ClustersIn(InsertImage(img, u, c, pos))
         IN  \/ \E k \in Old : /\ k \cap Range(seeds) # {}
                              /\ New = (Old \ {k}) \cup {k \cup {u}}
             \/ /\ Range(seeds) \cap UNION Old = {}
                /\ New = Old \cup {{u}}
<1> DEFINE new == InsertImage(img, u, c, pos)
           U == DOMAIN img.uuid_to_cluster
           D == DOMAIN img.cluster_members
           M(d) == {v \in U : img.uuid_to_cluster[v] = d}
           M2(d) == IF d = c THEN M(c) \cup {u} ELSE M(d)
<1>1. Good(new)
  BY InsertGood
<1>2. new.uuid_to_cluster = [v \in U \cup {u} |-> IF v = u THEN c ELSE img.uuid_to_cluster[v]]
  BY PutIs DEF InsertImage
<1>3. DOMAIN new.cluster_members = D \cup {c}
  BY PutIs DEF InsertImage
<1>4. /\ \A v \in U : img.uuid_to_cluster[v] \in D
      /\ \A d \in D : Range(img.cluster_members[d]) = M(d)
  BY DEF Good, ClustersInverse
<1>5. \A d \in D \cup {c} : Range(new.cluster_members[d]) =
                             {v \in U \cup {u} : new.uuid_to_cluster[v] = d}
  BY <1>1, <1>2, <1>3 DEF Good, ClustersInverse
<1> HIDE DEF new
<1>6. \A d : {v \in U \cup {u} : new.uuid_to_cluster[v] = d} = M2(d)
  BY <1>2
<1>7. ClustersIn(img) = {M(d) : d \in D}
  BY <1>4 DEF ClustersIn
<1>8. ClustersIn(new) = {M2(d) : d \in D \cup {c}}
  <2>1. \A d \in D \cup {c} : Range(new.cluster_members[d]) = M2(d)
    BY <1>5, <1>6
  <2>2. ClustersIn(new) = {Range(new.cluster_members[d]) : d \in D \cup {c}}
    BY <1>3 DEF ClustersIn
  <2> HIDE DEF M2
  <2> QED
    BY <2>1, <2>2
<1>9. \A d \in D : M(d) # {}
  BY <1>7, ClustersSplit DEF Promise!Splits
<1>10. UNION ClustersIn(img) = U
  BY ClustersSplit DEF Promise!Splits
<1>11. CASE Voted(img, seeds) # {}
  <2>1. c \in Voted(img, seeds)
    BY <1>11 DEF Assigned
  <2>2. PICK x \in Range(seeds) \cap U : c = img.uuid_to_cluster[x]
    BY <2>1 DEF Voted
  <2>3. c \in D /\ x \in M(c)
    BY <1>4, <2>2
  <2>4. \A d \in D : d # c => M(d) # M(c)
    BY <1>9
  <2>5. {M2(d) : d \in D \cup {c}} = ({M(d) : d \in D} \ {M(c)}) \cup {M(c) \cup {u}}
    BY <2>3, <2>4
  <2>6. M(c) \cap Range(seeds) # {} /\ M(c) \in ClustersIn(img)
    BY <1>7, <2>2, <2>3
  <2>7. ClustersIn(new) = (ClustersIn(img) \ {M(c)}) \cup {M(c) \cup {u}}
    BY <1>7, <1>8, <2>5
  <2> QED
    BY <2>6, <2>7 DEF new
<1>12. CASE Voted(img, seeds) = {}
  <2>1. Range(seeds) \cap U = {}
    BY <1>12 DEF Voted
  <2>2. D = 0..(c - 1) /\ c \in Nat
    BY <1>12, AssignedIs, MaxU32Assumption DEF ClusterId
  <2>3. c \notin D
    BY <2>2
  <2>4. M(c) = {}
    BY <1>4, <2>3
  <2>5. {M2(d) : d \in D \cup {c}} = {M(d) : d \in D} \cup {{u}}
    BY <2>3, <2>4
  <2>6. ClustersIn(new) = ClustersIn(img) \cup {{u}}
    BY <1>7, <1>8, <2>5
  <2> QED
    BY <1>10, <2>1, <2>6 DEF new
<1> QED
  BY <1>11, <1>12

\* The refinement mapping, named as in SwIndex's INSTANCE.
clustersBar == ClustersIn(Visible)
safeBar     == ClustersIn(journal[1])
unsafeBar   == {ClustersIn(journal[i]) : i \in 2..Len(journal)}

\* A committed batch is visible and a restart may lose it.
LEMMA CommitMaps ==
  ASSUME IInv, NEW img, Commit(img), phase = "open"
  PROVE  /\ clustersBar' = ClustersIn(img)
         /\ unsafeBar' = unsafeBar \cup {ClustersIn(img)}
         /\ safeBar' = safeBar
         /\ phase = "open" /\ phase' = "committed" /\ result' = "none"
<1> DEFINE S == Range(journal) \cup {img}
           n == Len(journal)
<1>1. /\ journal' = Append(journal, img) /\ phase' = "committed" /\ result' = "none"
  BY DEF Commit
<1>2. journal \in Seq(S) /\ img \in S
  BY SeqMonotonic DEF IInv
<1>3. /\ Len(Append(journal, img)) = n + 1
      /\ \A i \in 1..n : Append(journal, img)[i] = journal[i]
      /\ Append(journal, img)[n + 1] = img
  BY <1>2, AppendProperties
<1>4. n \in Nat \ {0}
  BY VisibleGood
<1> HIDE DEF S, n
<1>5. /\ Len(journal') = n + 1
      /\ \A i \in 1..n : journal'[i] = journal[i]
      /\ journal'[n + 1] = img
  BY <1>1, <1>3
<1>6. clustersBar' = ClustersIn(img)
  BY <1>5 DEF clustersBar, Visible, ClustersIn
<1>7. safeBar' = safeBar
  BY <1>4, <1>5 DEF safeBar, ClustersIn
<1>8. unsafeBar' = unsafeBar \cup {ClustersIn(img)}
  <2>1. unsafeBar' = {ClustersIn(journal'[i]) : i \in 2..(n + 1)}
    BY <1>5 DEF unsafeBar, ClustersIn
  <2>2. 2..(n + 1) = 2..n \cup {n + 1}
    BY <1>4
  <2>3. \A i \in 2..n : journal'[i] = journal[i]
    BY <1>4, <1>5
  <2>4. unsafeBar = {ClustersIn(journal[i]) : i \in 2..n}
    BY DEF unsafeBar, n
  <2> QED
    BY <1>5, <2>1, <2>2, <2>3, <2>4
<1> QED
  BY <1>1, <1>6, <1>7, <1>8

\* Where the journal stays, so does what ClusterPromise sees of it.
LEMMA UnchangedMaps ==
  ASSUME UNCHANGED journal
  PROVE  UNCHANGED <<clustersBar, safeBar, unsafeBar>>
BY DEF clustersBar, safeBar, unsafeBar, Visible, ClustersIn

\* The initial states are initial states of ClusterPromise.
LEMMA InitMaps == Init => Promise!Init
<1> SUFFICES ASSUME Init
             PROVE  Promise!Init
  OBVIOUS
<1>1. journal = <<EmptyImage>> /\ phase = "closed" /\ result = "none"
  BY DEF Init
<1>2. Len(journal) = 1 /\ journal[1] = EmptyImage
  BY <1>1
<1>3. ClustersIn(EmptyImage) = {}
  BY DEF ClustersIn, EmptyImage, Empty
<1> QED
  BY <1>1, <1>2, <1>3 DEF Promise!Init, Visible

\* Every step is a step of ClusterPromise or a stutter.
LEMMA NextMaps == IInv /\ [Next]_vars => [Promise!Next]_(Promise!vars)
<1> SUFFICES ASSUME IInv, [Next]_vars
             PROVE  [Promise!Next]_(Promise!vars)
  OBVIOUS
<1>1. ASSUME Open
      PROVE  Promise!Next
  <2>1. Promise!Open
    BY <1>1, UnchangedMaps
       DEF Open, Promise!Open, clustersBar, safeBar, unsafeBar
  <2> QED
    BY <2>1 DEF Promise!Next
<1>2. ASSUME NEW s \in Sources, BuildCommits(s)
      PROVE  Promise!Next
  <2>1. PICK p \in Pipeline(s) : FitsU32(p) /\ Commit(BuildImage(Visible, p))
    BY <1>2 DEF BuildCommits
  <2>2. ValidBuild(p)
    BY PipelineAssumption
  <2>3. Promise!Splits(clustersBar', NodesOf(p))
    BY <1>2, <2>1, <2>2, CommitMaps, BuildReplaces DEF BuildCommits
  <2>4. Promise!Replace(NodesOf(p))
    BY <1>2, <2>1, <2>3, CommitMaps
       DEF BuildCommits, Promise!Replace, Promise!Apply, clustersBar, safeBar, unsafeBar
  <2>5. NodesOf(p) \in SourceNodes
    BY DEF SourceNodes
  <2> QED
    BY <2>4, <2>5 DEF Promise!Next
<1>3. ASSUME NEW u \in Uuid, NEW seeds \in SeedLists, InsertCommits(u, seeds)
      PROVE  Promise!Next
  <2>1. PICK c \in Assigned(Visible, seeds) :
          /\ InsertFits(Visible, c)
          /\ \E pos \in SearchMisses(MembersOf(Visible, c), u) :
               Commit(InsertImage(Visible, u, c, pos))
    BY <1>3 DEF InsertCommits
  <2>2. PICK pos \in SearchMisses(MembersOf(Visible, c), u) :
          Commit(InsertImage(Visible, u, c, pos))
    BY <2>1
  <2>3. u \notin DOMAIN Visible.uuid_to_cluster /\ phase = "open"
    BY <1>3 DEF InsertCommits
  <2>4. Good(Visible)
    BY VisibleGood
  <2>5. u \notin UNION clustersBar
    BY <2>3, <2>4, ClustersSplit DEF clustersBar, Promise!Splits
  <2> DEFINE new == ClustersIn(InsertImage(Visible, u, c, pos))
  <2>6. \/ \E k \in clustersBar : /\ k \cap Range(seeds) # {}
                                 /\ new = (clustersBar \ {k}) \cup {k \cup {u}}
        \/ /\ Range(seeds) \cap UNION clustersBar = {}
           /\ new = clustersBar \cup {{u}}
    BY <2>1, <2>3, <2>4, InsertAdds DEF clustersBar
  <2>7. /\ clustersBar' = new /\ unsafeBar' = unsafeBar \cup {new}
        /\ safeBar' = safeBar /\ phase' = "committed" /\ result' = "none"
    BY <2>2, <2>3, CommitMaps
  <2> HIDE DEF new
  <2>8. Promise!Add(u, seeds)
    <3>1. Promise!Range(seeds) = Range(seeds)
      BY DEF Promise!Range, Range
    <3>2. Promise!Apply
      BY <2>3, <2>7 DEF Promise!Apply, clustersBar, safeBar, unsafeBar
    <3> QED
      BY <2>5, <2>6, <2>7, <3>1, <3>2
         DEF Promise!Add, clustersBar, safeBar, unsafeBar
  <2> QED
    BY <2>8 DEF Promise!Next
<1>4. ASSUME NEW r \in {"ok", "error"}, phase = "open", Return(r)
      PROVE  Promise!Next
  <2>1. UNCHANGED <<clustersBar, safeBar, unsafeBar>>
    BY <1>4, UnchangedMaps DEF Return
  <2>2. Promise!Report
    BY <1>4, <2>1 DEF Return, Promise!Report, clustersBar, safeBar, unsafeBar
  <2> QED
    BY <2>2 DEF Promise!Next
<1>5. ASSUME PersistReturns
      PROVE  Promise!Next
  <2>1. journal' = <<Visible>> /\ phase = "committed" /\ phase' = "open" /\ result' = "ok"
    BY <1>5 DEF PersistReturns
  <2>2. Len(journal') = 1 /\ journal'[1] = Visible
    BY <2>1
  <2>3. clustersBar' = clustersBar /\ safeBar' = clustersBar /\ unsafeBar' = {}
    BY <2>2 DEF clustersBar, safeBar, unsafeBar, ClustersIn, Visible
  <2>4. Promise!Succeed
    BY <2>1, <2>3 DEF Promise!Succeed, clustersBar, safeBar, unsafeBar
  <2> QED
    BY <2>4 DEF Promise!Next
<1>6. ASSUME PersistFails
      PROVE  Promise!Next
  <2>1. UNCHANGED <<clustersBar, safeBar, unsafeBar>>
    BY <1>6, UnchangedMaps DEF PersistFails, Return
  <2>2. Promise!Doubt
    BY <1>6, <2>1
       DEF PersistFails, Return, Promise!Doubt, clustersBar, safeBar, unsafeBar
  <2> QED
    BY <2>2 DEF Promise!Next
<1>7. ASSUME Stop
      PROVE  Promise!Next
  <2>1. PICK k \in 1..Len(journal) : journal' = SubSeq(journal, 1, k)
    BY <1>7 DEF Stop
  <2>2. Len(journal) \in Nat \ {0}
    BY VisibleGood
  <2>3. \A i \in 1..k : journal[i] \in Range(journal)
    BY <2>2, VisibleGood DEF Range
  <2>4. Len(journal') = k /\ \A i \in 1..k : journal'[i] = journal[i]
    BY <2>1, <2>2, <2>3, SubSeqProperties
  <2>5. k \in 1..k /\ 1 \in 1..k
    BY <2>2
  <2>6. clustersBar' = ClustersIn(journal[k])
    BY <2>4, <2>5 DEF clustersBar, Visible, ClustersIn
  <2>7. safeBar' = safeBar
    BY <2>4, <2>5 DEF safeBar, ClustersIn
  <2>8. unsafeBar' = {ClustersIn(journal[i]) : i \in 2..k}
    <3>1. unsafeBar' = {ClustersIn(journal'[i]) : i \in 2..k}
      BY <2>4 DEF unsafeBar, ClustersIn
    <3>2. \A i \in 2..k : journal'[i] = journal[i]
      BY <2>2, <2>4
    <3> QED
      BY <3>1, <3>2
  <2>9. unsafeBar' \subseteq unsafeBar
    <3>1. \A i \in 2..k : i \in 2..Len(journal)
      BY <2>2
    <3> QED
      BY <2>8, <3>1 DEF unsafeBar
  <2>10. clustersBar' \in unsafeBar' \cup {safeBar}
    <3>1. k = 1 \/ k \in 2..k
      BY <2>2
    <3> QED
      BY <2>6, <2>8, <3>1 DEF safeBar
  <2>11. phase # "closed" /\ phase' = "closed" /\ result' = "none"
    BY <1>7 DEF Stop
  <2>12. Promise!Restart
    BY <2>7, <2>9, <2>10, <2>11
       DEF Promise!Restart, clustersBar, safeBar, unsafeBar
  <2> QED
    BY <2>12 DEF Promise!Next
<1>8. CASE UNCHANGED vars
  <2>1. UNCHANGED <<clustersBar, safeBar, unsafeBar>>
    BY <1>8, UnchangedMaps DEF vars
  <2>2. UNCHANGED Promise!vars
    BY <1>8, <2>1 DEF vars, Promise!vars, clustersBar, safeBar, unsafeBar
  <2> QED
    BY <2>2
<1> QED
  <2>1. ASSUME Next
        PROVE  Promise!Next
    <3>1. \A s \in Sources : BuildRejected(s) => phase = "open" /\ Return("error")
      BY DEF BuildRejected
    <3>2. \A u \in Uuid, seeds \in SeedLists :
            InsertRejected(u, seeds) => phase = "open" /\ Return("error")
      BY DEF InsertRejected
    <3>3. StoreFails => phase = "open" /\ Return("error")
      BY DEF StoreFails
    <3>4. Maintain => phase = "open" /\ Return("ok")
      BY DEF Maintain
    <3>5. CASE \E s \in Sources : BuildCommits(s) \/ BuildRejected(s)
      BY <1>2, <1>4, <3>1, <3>5
    <3>6. CASE \E u \in Uuid, seeds \in SeedLists :
                 InsertCommits(u, seeds) \/ InsertRejected(u, seeds)
      BY <1>3, <1>4, <3>2, <3>6
    <3>7. CASE StoreFails \/ Maintain
      BY <1>4, <3>3, <3>4, <3>7
    <3> QED
      BY <1>1, <1>5, <1>6, <1>7, <2>1, <3>5, <3>6, <3>7 DEF Next
  <2> QED
    BY <1>8, <2>1

\* SwIndex implements ClusterPromise: what an operation reported Ok survives
\* every restart, an insert moves no other node, and a rebuild leaves nothing
\* behind.
THEOREM ImplementsPromise == Spec => KeepsPromise
<1>1. Init => Promise!Init
  BY InitMaps
<1>2. IInv /\ [Next]_vars => [Promise!Next]_(Promise!vars)
  BY NextMaps
<1> QED
  BY <1>1, <1>2, AlwaysGood, PTL DEF Spec, KeepsPromise, Promise!Spec

-----------------------------------------------------------------------------
(* What a user sees.                                                       *)

\* The cut of a list at a limit.
LEMMA FirstIs ==
  ASSUME NEW T, NEW s \in Seq(T), NEW limit \in Nat
  PROVE  /\ First(s, limit) \in Seq(T)
         /\ Len(First(s, limit)) <= Len(s)
         /\ \A i \in 1..Len(First(s, limit)) : First(s, limit)[i] = s[i]
         /\ Len(First(s, limit)) < limit => First(s, limit) = s
<1> DEFINE n == IF limit < Len(s) THEN limit ELSE Len(s)
<1>0. Len(s) \in Nat
  BY LenProperties
<1>1. Len(s) \in Nat /\ s \in [1..Len(s) -> T] /\ DOMAIN s = 1..Len(s)
  BY LenProperties
<1>2. n \in Nat /\ n <= Len(s) /\ n <= limit /\ (n < limit => n = Len(s))
  <2>1. CASE limit < Len(s)
    <3>1. n = limit
      BY <2>1
    <3> HIDE DEF n
    <3> QED
      BY <1>0, <2>1, <3>1
  <2>2. CASE ~(limit < Len(s))
    <3>1. n = Len(s)
      BY <2>2
    <3> HIDE DEF n
    <3> QED
      BY <1>0, <2>2, <3>1
  <2> HIDE DEF n
  <2> QED
    BY <2>1, <2>2
<1> HIDE DEF n
<1>3. /\ SubSeq(s, 1, n) \in Seq(T)
      /\ Len(SubSeq(s, 1, n)) = IF 1 <= n THEN n - 1 + 1 ELSE 0
      /\ \A i \in 1..(n - 1 + 1) : SubSeq(s, 1, n)[i] = s[1 + i - 1]
  <2>1. \A i \in 1..n : i \in 1..Len(s)
    BY <1>0, <1>2
  <2>2. \A i \in 1..n : s[i] \in T
    BY <1>1, <2>1
  <2> QED
    BY <1>2, <2>2, SubSeqProperties
<1>4. First(s, limit) = SubSeq(s, 1, n)
  BY DEF First, n
<1> DEFINE f == First(s, limit)
<1> HIDE DEF f
<1>5. f \in Seq(T) /\ Len(f) = n /\ \A i \in 1..n : f[i] = s[i]
  <2>1. Len(f) = n
    BY <1>2, <1>3, <1>4 DEF f
  <2>2. \A i \in 1..n : f[i] = s[i]
    BY <1>2, <1>3, <1>4 DEF f
  <2> QED
    BY <1>3, <1>4, <2>1, <2>2 DEF f
<1>6. n < limit => f = s
  <2>1. DOMAIN f = 1..n /\ f = [i \in 1..n |-> f[i]]
    BY <1>5, LenProperties
  <2>2. s = [i \in 1..Len(s) |-> s[i]]
    BY <1>1
  <2> QED
    BY <1>2, <1>5, <2>1, <2>2
<1> QED
  BY <1>2, <1>5, <1>6 DEF f

\* Of a good image the command line, which asks for the ids below a count that
\* is not too small, meets every cluster.
LEMMA WalkMeetsAll ==
  ASSUME NEW img, Good(img), NEW count \in Int,
         count >= Cardinality(DOMAIN img.cluster_members)
  PROVE  /\ Walk(count) \cap DOMAIN img.cluster_members = DOMAIN img.cluster_members
         /\ IsFiniteSet(DOMAIN img.cluster_members)
         /\ DOMAIN img.cluster_members \in SUBSET Int
<1>1. PICK n \in 0..(MaxU32 + 1) : DOMAIN img.cluster_members = 0..(n - 1)
  BY DEF Good, IdsDense
<1>2. n \in Nat
  BY <1>1, MaxU32Assumption
<1>3. IsFiniteSet(0..(n - 1)) /\ Cardinality(0..(n - 1)) = n
  BY <1>2, NumbersBelow
<1> QED
  BY <1>1, <1>2, <1>3 DEF Walk

\* The nodes and the hubs of a cluster, and the clusters of a list.
NodesOfCluster(img, c) == {u \in DOMAIN img.uuid_to_cluster : img.uuid_to_cluster[u] = c}
HubsOfCluster(img, c)  == {u \in DOMAIN img.hub_neighbors : img.uuid_to_cluster[u] = c}
ListedIn(list)         == {list.lines[i].cluster : i \in DOMAIN list.lines}

\* What the partitions say of one cluster.
LEMMA ClusterSays ==
  ASSUME NEW img, Good(img), NEW c \in DOMAIN img.cluster_members
  PROVE  /\ MembersOf(img, c) \in Seq(Uuid)
         /\ Range(MembersOf(img, c)) =
              NodesOfCluster(img, c)
         /\ img.cluster_meta[c].size = Len(MembersOf(img, c))
         /\ img.cluster_meta[c].size =
              Cardinality(NodesOfCluster(img, c))
         /\ img.cluster_meta[c].size \in Nat
         /\ img.cluster_meta[c].hub_count =
              Cardinality(HubsOfCluster(img, c))
<1> DEFINE m == MembersOf(img, c)
<1>1. DOMAIN img.cluster_meta = DOMAIN img.cluster_members
  BY DEF Good, MetaAgrees
<1>2. m = img.cluster_members[c] /\ m \in Seq(Uuid) /\ IsAscending(m)
  BY DEF Good, IsImage, IsMap, ListsAscend, MembersOf, Lookup
<1>3. Range(m) = NodesOfCluster(img, c)
  BY <1>2 DEF Good, ClustersInverse, NodesOfCluster
<1>4. img.cluster_meta[c].size = Len(m)
  BY <1>1, <1>2 DEF Good, MetaAgrees
<1>5. Uuid \subseteq Int
  BY UuidAssumption
<1>6. Len(m) \in Nat
  BY <1>2, LenProperties
<1>7. img.cluster_meta[c].hub_count = Cardinality({u \in Range(m) : img.uuid_is_hub[u]})
  BY <1>1, <1>2 DEF Good, MetaAgrees
<1> HIDE DEF m
<1>8. Cardinality(Range(m)) = Len(m)
  BY <1>2, <1>5, AscendingLength
<1>9. {u \in Range(m) : img.uuid_is_hub[u]} =
        HubsOfCluster(img, c)
  BY <1>3 DEF Good, HubsAgree, NodesOfCluster, HubsOfCluster
<1> QED
  BY <1>2, <1>3, <1>4, <1>6, <1>7, <1>8, <1>9 DEF m

\* The clusters are those of the nodes.
LEMMA ClustersAreMapped ==
  ASSUME NEW img, Good(img)
  PROVE  DOMAIN img.cluster_members = Range(img.uuid_to_cluster)
<1>1. \A u \in DOMAIN img.uuid_to_cluster : img.uuid_to_cluster[u] \in DOMAIN img.cluster_members
  BY DEF Good, ClustersInverse
<1>2. ASSUME NEW c \in DOMAIN img.cluster_members
      PROVE  c \in Range(img.uuid_to_cluster)
  <2>1. /\ img.cluster_members[c] # << >> /\ img.cluster_members[c] \in Seq(Uuid)
        /\ Range(img.cluster_members[c]) =
             NodesOfCluster(img, c)
    BY DEF Good, ClustersInverse, IsImage, IsMap, NodesOfCluster
  <2>2. 1 \in DOMAIN img.cluster_members[c]
    BY <2>1, EmptySeq, LenProperties
  <2>3. img.cluster_members[c][1] \in Range(img.cluster_members[c])
    BY <2>2 DEF Range
  <2> QED
    BY <2>1, <2>3 DEF Range, NodesOfCluster
<1> QED
  BY <1>1, <1>2 DEF Range

\* A line of the cluster list.
LineOf(img, c) ==
  [cluster |-> c, size |-> img.cluster_meta[c].size,
   hub_count |-> img.cluster_meta[c].hub_count,
   names |-> [i \in DOMAIN MembersOf(img, c) |-> ShownAs(img, MembersOf(img, c)[i])]]

\* The clusters it may show.
LargeIn(img, minSize) ==
  {c \in DOMAIN img.cluster_members : img.cluster_meta[c].size >= minSize}

Shows(img, list, minSize, limit) ==
  LET L == LargeIn(img, minSize)
  IN  /\ \A i \in DOMAIN list.lines :
            list.lines[i] = LineOf(img, Ascending(L)[i]) /\ Ascending(L)[i] \in L
      /\ Len(list.lines) < limit =>
            /\ ListedIn(list) = L
            /\ Len(list.lines) = Cardinality(L)
            /\ minSize > 1 => list.below = Cardinality(DOMAIN img.cluster_members \ L)

LEMMA ClustersShown ==
  ASSUME NEW img, Good(img), NEW count \in Int,
         count >= Cardinality(DOMAIN img.cluster_members),
         NEW minSize \in Nat, NEW limit \in Nat,
         NEW list, list = CmdClusters(img, count, minSize, limit)
  PROVE  Shows(img, list, minSize, limit)
<1> DEFINE D == DOMAIN img.cluster_members
           found == Walk(count) \cap DOMAIN img.cluster_meta
           large == Ascending({c \in found : img.cluster_meta[c].size >= minSize})
           shown == First(large, limit)
           L == LargeIn(img, minSize)
           small == {c \in found \ Range(large) : ReachedBefore(large, limit, c)}
<1>1. D = DOMAIN img.cluster_meta /\ found = D /\ IsFiniteSet(D) /\ D \in SUBSET Int
  BY WalkMeetsAll DEF Good, MetaAgrees
<1>2. large = Ascending(L) /\ L \in SUBSET D
  BY <1>1 DEF LargeIn
<1>3. /\ list.lines = [i \in DOMAIN shown |-> LineOf(img, shown[i])]
      /\ list.below = IF minSize > 1 THEN Cardinality(small) ELSE 0
  BY DEF CmdClusters, LineOf
<1> HIDE DEF shown, large, found, D, L
<1>4. IsFiniteSet(L) /\ L \in SUBSET Int
  BY <1>1, <1>2, FS_Subset
<1>5. large \in Seq(L) /\ Len(large) = Cardinality(L) /\ Range(large) = L
  BY <1>2, <1>4, AscendingSorts
<1>6. /\ shown \in Seq(L) /\ Len(shown) <= Len(large)
      /\ \A i \in 1..Len(shown) : shown[i] = large[i]
      /\ Len(shown) < limit => shown = large
  <2>1. shown = First(large, limit)
    BY DEF shown
  <2> QED
    BY <1>5, <2>1, FirstIs
<1>7. /\ Len(shown) \in Nat /\ DOMAIN shown = 1..Len(shown)
      /\ \A i \in 1..Len(shown) : shown[i] \in L
  BY <1>6, LenProperties
<1>8. DOMAIN list.lines = 1..Len(shown) /\ Len(list.lines) = Len(shown)
  <2> DEFINE T == {LineOf(img, c) : c \in L}
  <2>1. DOMAIN list.lines = 1..Len(shown)
    BY <1>3, <1>7
  <2>2. list.lines \in [1..Len(shown) -> T]
    <3>1. \A i \in 1..Len(shown) : LineOf(img, shown[i]) \in T
      BY <1>7
    <3> HIDE DEF T
    <3> QED
      BY <1>3, <1>7, <3>1
  <2> HIDE DEF T
  <2>3. list.lines \in Seq(T)
    BY <1>7, <2>2, SeqDef
  <2>4. Len(list.lines) \in Nat /\ DOMAIN list.lines = 1..Len(list.lines)
    BY <2>3, LenProperties
  <2> QED
    BY <1>7, <2>1, <2>4
<1>9. ASSUME NEW i \in DOMAIN list.lines
      PROVE  list.lines[i] = LineOf(img, large[i]) /\ large[i] \in L
  <2>1. list.lines[i] = LineOf(img, shown[i]) /\ shown[i] = large[i] /\ shown[i] \in L
    BY <1>3, <1>6, <1>7, <1>8
  <2> QED
    BY <2>1
<1>10. ASSUME Len(list.lines) < limit
       PROVE  /\ ListedIn(list) = L
              /\ Len(list.lines) = Cardinality(L)
              /\ minSize > 1 => list.below = Cardinality(D \ L)
  <2>1. shown = large /\ Len(large) < limit
    BY <1>6, <1>8, <1>10
  <2>2. Len(list.lines) = Cardinality(L)
    BY <1>5, <1>8, <2>1
  <2>3. \A i \in DOMAIN list.lines : list.lines[i].cluster = large[i]
    <3>1. \A c : LineOf(img, c).cluster = c
      BY DEF LineOf
    <3> QED
      BY <1>9, <3>1
  <2>4. L = {large[i] : i \in DOMAIN list.lines}
    BY <1>5, <1>7, <1>8, <2>1 DEF Range
  <2>5. ListedIn(list) = L
    BY <2>3, <2>4 DEF ListedIn
  <2>6. small = D \ L
    <3>1. \A c : ReachedBefore(large, limit, c)
      <4>1. Len(large) \in Nat
        BY <1>5, LenProperties
      <4>2. ~(Len(large) > limit)
        BY <2>1, <4>1
      <4> QED
        BY <4>2 DEF ReachedBefore
    <3> QED
      BY <1>1, <1>5, <3>1
  <2> HIDE DEF small
  <2>7. minSize > 1 => list.below = Cardinality(D \ L)
    BY <1>3, <2>6
  <2> QED
    BY <2>2, <2>5, <2>7
<1> QED
  BY <1>2, <1>9, <1>10 DEF D, L, Shows

\* The count stats() gives is at least the number of clusters.
LEMMA StatsCount ==
  ASSUME IInv, NEW count \in StatsClusters
  PROVE  count \in Int /\ count >= Cardinality(DOMAIN Visible.cluster_members)
<1>1. Good(Visible)
  BY VisibleGood
<1>2. PICK n \in 0..(MaxU32 + 1) : DOMAIN Visible.cluster_members = 0..(n - 1)
  BY <1>1 DEF Good, IdsDense
<1>3. IsFiniteSet(DOMAIN Visible.cluster_members)
  <2>1. n \in Nat
    BY <1>2, MaxU32Assumption
  <2> QED
    BY <1>2, <2>1, NumbersBelow
<1>4. Cardinality(DOMAIN Visible.cluster_members) \in Nat
  BY <1>3, FS_CardinalityType
<1> QED
  BY <1>4, MaxStaleAssumption DEF StatsClusters

\* What the cluster list says of a good image.
AddsUp(img, list, minSize, limit) ==
  /\ \A i \in DOMAIN list.lines :
       LET line == list.lines[i]
       IN  /\ Len(line.names) = line.size /\ line.size >= minSize
           /\ line.hub_count = Cardinality({u \in DOMAIN img.hub_neighbors :
                                  img.uuid_to_cluster[u] = line.cluster})
  /\ Len(list.lines) < limit =>
       /\ {list.lines[i].cluster : i \in DOMAIN list.lines} =
            {c \in Range(img.uuid_to_cluster) :
               Cardinality({u \in DOMAIN img.uuid_to_cluster :
                              img.uuid_to_cluster[u] = c}) >= minSize}
       /\ minSize > 1 => Len(list.lines) + list.below =
                            Cardinality(Range(img.uuid_to_cluster))

LEMMA ClusterListSays ==
  ASSUME NEW img, Good(img), NEW count \in Int,
         count >= Cardinality(DOMAIN img.cluster_members),
         NEW minSize \in Nat, NEW limit \in Nat,
         NEW list, list = CmdClusters(img, count, minSize, limit)
  PROVE  AddsUp(img, list, minSize, limit)
<1> DEFINE D == DOMAIN img.cluster_members
           L == LargeIn(img, minSize)
<1>2. /\ \A i \in DOMAIN list.lines :
            list.lines[i] = LineOf(img, Ascending(L)[i]) /\ Ascending(L)[i] \in L
      /\ Len(list.lines) < limit =>
            /\ ListedIn(list) = L
            /\ Len(list.lines) = Cardinality(L)
            /\ minSize > 1 => list.below = Cardinality(D \ L)
  <2>1. Shows(img, list, minSize, limit)
    BY ClustersShown
  <2> QED
    BY <2>1 DEF Shows
<1>3. /\ D = Range(img.uuid_to_cluster) /\ IsFiniteSet(D)
  BY ClustersAreMapped, WalkMeetsAll
<1>4. ASSUME NEW i \in DOMAIN list.lines
      PROVE  /\ Len(list.lines[i].names) = list.lines[i].size /\ list.lines[i].size >= minSize
             /\ list.lines[i].hub_count =
                   Cardinality(HubsOfCluster(img, list.lines[i].cluster))
  <2> DEFINE c == Ascending(L)[i]
             m == MembersOf(img, c)
             names == [k \in DOMAIN m |-> ShownAs(img, m[k])]
  <2>1. list.lines[i] = LineOf(img, c) /\ c \in D /\ img.cluster_meta[c].size >= minSize
    BY <1>2 DEF LargeIn
  <2> HIDE DEF c
  <2>2. /\ m \in Seq(Uuid) /\ img.cluster_meta[c].size = Len(m)
        /\ img.cluster_meta[c].hub_count =
              Cardinality(HubsOfCluster(img, c))
    <3>1. m \in Seq(Uuid)
      BY <2>1, ClusterSays
    <3>2. img.cluster_meta[c].size = Len(m)
      BY <2>1, ClusterSays
    <3>3. img.cluster_meta[c].hub_count =
            Cardinality(HubsOfCluster(img, c))
      BY <2>1, ClusterSays
    <3> QED
      BY <3>1, <3>2, <3>3
  <2>3. /\ list.lines[i].cluster = c /\ list.lines[i].size = img.cluster_meta[c].size
        /\ list.lines[i].hub_count = img.cluster_meta[c].hub_count
        /\ list.lines[i].names = names
    BY <2>1 DEF LineOf
  <2>4. Len(names) = Len(m)
    <3> DEFINE T == {ShownAs(img, m[k]) : k \in DOMAIN m}
    <3>1. Len(m) \in Nat /\ DOMAIN m = 1..Len(m)
      BY <2>2, LenProperties
    <3>2. names \in [1..Len(m) -> T] /\ DOMAIN names = 1..Len(m)
      BY <3>1
    <3> HIDE DEF T, names
    <3>3. names \in Seq(T)
      BY <3>1, <3>2, SeqDef
    <3>4. Len(names) \in Nat /\ DOMAIN names = 1..Len(names)
      BY <3>3, LenProperties
    <3> QED
      BY <3>1, <3>2, <3>4
  <2> HIDE DEF names, m
  <2> QED
    BY <2>1, <2>2, <2>3, <2>4
<1>5. L = {c \in Range(img.uuid_to_cluster) :
             Cardinality(NodesOfCluster(img, c)) >= minSize}
  <2>1. \A c \in D : img.cluster_meta[c].size =
           Cardinality(NodesOfCluster(img, c))
    <3> SUFFICES ASSUME NEW c \in D
                 PROVE  img.cluster_meta[c].size =
                          Cardinality(NodesOfCluster(img, c))
      OBVIOUS
    <3> QED
      BY ClusterSays
  <2> QED
    BY <1>3, <2>1 DEF LargeIn
<1>6. Cardinality(L) + Cardinality(D \ L) = Cardinality(D)
  <2>1. L \in SUBSET D /\ D \cap L = L
    BY DEF LargeIn
  <2>2. IsFiniteSet(L)
    BY <1>3, <2>1, FS_Subset
  <2>3. Cardinality(D \ L) = Cardinality(D) - Cardinality(L)
    BY ZenonT(30), <1>3, <2>1, FS_Difference
  <2>4. Cardinality(L) \in Nat /\ Cardinality(D) \in Nat
    BY <1>3, <2>2, FS_CardinalityType
  <2> QED
    BY <2>3, <2>4
<1> HIDE DEF L, D
<1> QED
  BY <1>2, <1>3, <1>4, <1>5, <1>6
        DEF AddsUp, ListedIn, NodesOfCluster, HubsOfCluster

\* The cluster list leaves no cluster out and counts none twice, after any
\* history of the store and whatever stats() makes of the removed keys.
THEOREM ClusterListComplete == Spec => []ClusterListAddsUp
<1>1. IInv => ClusterListAddsUp
  <2> SUFFICES ASSUME IInv, NEW count \in StatsClusters, NEW minSize \in 0..3, NEW limit \in 0..3
               PROVE  AddsUp(Visible, CmdClusters(Visible, count, minSize, limit), minSize, limit)
    BY DEF ClusterListAddsUp, AddsUp
  <2>1. /\ Good(Visible) /\ count \in Int /\ count >= Cardinality(DOMAIN Visible.cluster_members)
        /\ minSize \in Nat /\ limit \in Nat
    BY VisibleGood, StatsCount
  <2> QED
    BY <2>1, ClusterListSays
<1> QED
  BY <1>1, AlwaysGood, PTL

\* What the table list says of a good image.
FindsThemselves(img, list, matches, limit) ==
  LET all == Range(img.labels)
  IN  /\ IsAscending(list.lines) /\ Range(list.lines) \subseteq all \cap matches
      /\ Len(list.lines) < limit =>
           /\ Range(list.lines) = all \cap matches
           /\ list.filtered = Cardinality(all \ matches)
      /\ \A l \in Range(list.lines) :
           /\ EmptyAnswer(img, l) = "nothing found"
           /\ LET u == img.label_to_uuid[l]
                  c == img.uuid_to_cluster[u]
              IN  \E i \in DOMAIN MembersOf(img, c) :
                    ShownAs(img, MembersOf(img, c)[i]) = <<"label", l>>

LEMMA TableListSays ==
  ASSUME NEW img, Good(img), NEW count \in Int,
         count >= Cardinality(DOMAIN img.cluster_members),
         NEW matches, NEW limit \in Nat,
         NEW list, list = CmdTables(img, count, matches, limit)
  PROVE  FindsThemselves(img, list, matches, limit)
<1> DEFINE all == Range(img.labels)
           nodes == UNION {Range(MembersOf(img, c)) : c \in Walk(count)}
           labels == {img.labels[u] : u \in nodes \cap DOMAIN img.labels}
           matching == Ascending(labels \cap matches)
           shown == First(matching, limit)
<1>1. \A c \in DOMAIN img.cluster_members : c \in Walk(count)
  BY WalkMeetsAll
<1>2. \A u \in DOMAIN img.uuid_to_cluster :
        LET c == img.uuid_to_cluster[u]
        IN  c \in DOMAIN img.cluster_members /\ u \in Range(MembersOf(img, c))
  <2> SUFFICES ASSUME NEW u \in DOMAIN img.uuid_to_cluster
               PROVE  LET c == img.uuid_to_cluster[u]
                      IN  c \in DOMAIN img.cluster_members /\ u \in Range(MembersOf(img, c))
    OBVIOUS
  <2> DEFINE c == img.uuid_to_cluster[u]
  <2>1. c \in DOMAIN img.cluster_members
    BY DEF Good, ClustersInverse
  <2>2. Range(MembersOf(img, c)) = NodesOfCluster(img, c)
    BY <2>1, ClusterSays
  <2> QED
    BY <2>1, <2>2 DEF NodesOfCluster
<1>3. DOMAIN img.labels \subseteq DOMAIN img.uuid_to_cluster
  BY DEF Good, LabelsAgree
<1>4. labels = all
  <2>1. \A u \in DOMAIN img.labels : u \in nodes
    BY <1>1, <1>2, <1>3
  <2> HIDE DEF nodes
  <2> QED
    BY <2>1 DEF Range
<1>5. /\ list.lines = shown
      /\ list.filtered = Cardinality({l \in labels \ matches : ReachedBefore(matching, limit, l)})
  BY DEF CmdTables
<1> HIDE DEF labels, nodes
<1>6. IsFiniteSet(all) /\ all \subseteq Int
  <2>1. IsFiniteSet(DOMAIN img.labels)
    BY UuidAssumption, FS_Subset DEF Good, IsImage, IsMap
  <2>2. [u \in DOMAIN img.labels |-> img.labels[u]] \in Surjection(DOMAIN img.labels, all)
    BY DEF Surjection, Range
  <2>3. IsFiniteSet(all)
    BY <2>1, <2>2, FS_Surjection
  <2>4. all \subseteq Label
    BY DEF Good, IsImage, IsMap, Range
  <2> QED
    <3> HIDE DEF all
    <3>1. \A l \in all : l \in Int
      <4> SUFFICES ASSUME NEW l \in all
                   PROVE  l \in Int
        OBVIOUS
      <4>1. l \in Label
        BY <2>4
      <4>2. l \in Nat
        BY <4>1, LabelAssumption
      <4> QED
        BY <4>2
    <3> QED
      BY <2>3, <3>1
<1> DEFINE S == all \cap matches
<1>7. IsFiniteSet(S) /\ S \subseteq Int /\ S \in SUBSET Int
  BY <1>6, FS_Subset
<1>8. matching = Ascending(S)
  BY <1>4
<1> HIDE DEF S, matching
<1>9. /\ matching \in Seq(S) /\ Range(matching) = S /\ IsAscending(matching)
  BY <1>7, <1>8, AscendingSorts
<1>10. /\ shown \in Seq(S) /\ Len(shown) <= Len(matching)
       /\ \A i \in 1..Len(shown) : shown[i] = matching[i]
       /\ Len(shown) < limit => shown = matching
  BY <1>9, FirstIs
<1> HIDE DEF shown
<1>11. /\ Len(shown) \in Nat /\ DOMAIN shown = 1..Len(shown) /\ shown \in [1..Len(shown) -> S]
  BY <1>10, LenProperties
<1>12. Len(matching) \in Nat /\ DOMAIN matching = 1..Len(matching)
  BY <1>9, LenProperties
<1>13. IsAscending(shown)
  <2> SUFFICES ASSUME NEW i \in 1..Len(shown), NEW j \in 1..Len(shown), i < j
               PROVE  shown[i] < shown[j]
    BY <1>11 DEF IsAscending
  <2>1. i \in 1..Len(matching) /\ j \in 1..Len(matching)
    BY <1>10, <1>11, <1>12
  <2>2. matching[i] < matching[j]
    BY <1>9, <1>12, <2>1 DEF IsAscending
  <2> QED
    BY <1>10, <2>2
<1>14. Range(shown) \subseteq S
  BY <1>11 DEF Range
<1>15. ASSUME Len(shown) < limit
       PROVE  Range(shown) = S /\ list.filtered = Cardinality(all \ matches)
  <2>1. shown = matching /\ Len(matching) < limit
    BY <1>10, <1>15
  <2>2. \A l : ReachedBefore(matching, limit, l)
    <3>1. ~(Len(matching) > limit)
      BY <1>12, <2>1
    <3> QED
      BY <3>1 DEF ReachedBefore
  <2>3. {l \in labels \ matches : ReachedBefore(matching, limit, l)} = all \ matches
    BY <1>4, <2>2
  <2> QED
    BY <1>5, <1>9, <2>1, <2>3
<1>16. ASSUME NEW l \in S
       PROVE  /\ EmptyAnswer(img, l) = "nothing found"
              /\ LET u == img.label_to_uuid[l]
                     c == img.uuid_to_cluster[u]
                 IN  \E i \in DOMAIN MembersOf(img, c) :
                       ShownAs(img, MembersOf(img, c)[i]) = <<"label", l>>
  <2> DEFINE u == img.label_to_uuid[l]
             m == MembersOf(img, img.uuid_to_cluster[u])
  <2>1. l \in DOMAIN img.label_to_uuid
    BY <1>16 DEF S, Good, LabelsAgree
  <2>2. u \in DOMAIN img.labels /\ img.labels[u] = l
    BY <2>1 DEF Good, LabelsAgree
  <2>3. u \in Range(m)
    BY <1>2, <1>3, <2>2
  <2>4. PICK i \in DOMAIN m : m[i] = u
    BY <2>3 DEF Range
  <2>5. ShownAs(img, m[i]) = <<"label", l>>
    BY <2>2, <2>4 DEF ShownAs
  <2> QED
    BY <2>1, <2>5 DEF EmptyAnswer
<1> QED
  BY <1>5, <1>13, <1>14, <1>15, <1>16 DEF FindsThemselves, S

\* The table list has every labelled node's label once, and each of them can be
\* asked about, after any history of the store.
THEOREM TableListComplete == Spec => []TablesFindThemselves
<1>1. IInv => TablesFindThemselves
  <2> SUFFICES ASSUME IInv, NEW count \in StatsClusters, NEW matches \in SUBSET Label,
                      NEW limit \in 0..3
               PROVE  FindsThemselves(Visible, CmdTables(Visible, count, matches, limit),
                                      matches, limit)
    BY DEF TablesFindThemselves, FindsThemselves
  <2>1. /\ Good(Visible) /\ count \in Int /\ count >= Cardinality(DOMAIN Visible.cluster_members)
        /\ limit \in Nat
    BY VisibleGood, StatsCount
  <2> QED
    BY <2>1, TableListSays
<1> QED
  BY <1>1, AlwaysGood, PTL

-----------------------------------------------------------------------------
(* The drift report.                                                       *)

InsertsOf(img) == [c \in DOMAIN img.cluster_drift |-> img.cluster_drift[c].delta_inserts]

LEMMA TotalIs ==
  ASSUME NEW img, Good(img)
  PROVE  /\ IsFiniteSet(DOMAIN img.cluster_drift)
         /\ DOMAIN InsertsOf(img) = DOMAIN img.cluster_drift
         /\ \A c \in DOMAIN img.cluster_drift : InsertsOf(img)[c] \in Nat
         /\ TotalInserts(img) = SumFunctionOnSet(InsertsOf(img), DOMAIN img.cluster_drift)
         /\ TotalInserts(img) \in Nat
<1>1. PICK n \in 0..(MaxU32 + 1) : DOMAIN img.cluster_members = 0..(n - 1)
  BY DEF Good, IdsDense
<1>2. IsFiniteSet(DOMAIN img.cluster_drift)
  <2>1. DOMAIN img.cluster_drift = 0..(n - 1)
    BY <1>1 DEF Good, DriftAgrees, MetaAgrees
  <2>2. n \in Nat
    BY <1>1, MaxU32Assumption
  <2> QED
    BY <2>1, <2>2, NumbersBelow
<1>3. \A c \in DOMAIN img.cluster_drift : InsertsOf(img)[c] \in Nat
  BY MaxU32Assumption DEF Good, IsImage, IsMap, ClusterId, InsertsOf
<1>4. TotalInserts(img) = SumFunctionOnSet(InsertsOf(img), DOMAIN img.cluster_drift)
  BY DEF TotalInserts, InsertsOf
<1>5. DOMAIN InsertsOf(img) = DOMAIN img.cluster_drift
  BY DEF InsertsOf
<1>6. TotalInserts(img) \in Nat
  BY <1>2, <1>3, <1>4, SumType
<1> QED
  BY <1>2, <1>3, <1>4, <1>5, <1>6

\* A build leaves no inserts to report.
LEMMA BuildTotal ==
  ASSUME NEW old, NEW p, ValidBuild(p), FitsU32(p)
  PROVE  TotalInserts(BuildImage(old, p)) = 0
<1> DEFINE img == BuildImage(old, p)
           C == ClustersOf(p)
<1>1. img.cluster_drift = [c \in C |-> [generation |-> 0, delta_inserts |-> 0]]
  <2>1. img.cluster_drift = FreshImage(p).cluster_drift
    BY BuildIsFresh
  <2> HIDE DEF img
  <2> QED
    BY <2>1 DEF FreshImage
<1>2. Good(img)
  BY BuildGood
<1> HIDE DEF img
<1>3. \A c \in DOMAIN img.cluster_drift : InsertsOf(img)[c] = 0
  BY <1>1 DEF InsertsOf
<1>4. SumFunctionOnSet(InsertsOf(img), DOMAIN img.cluster_drift) = 0
  BY <1>2, <1>3, TotalIs, SumZero
<1> QED
  BY <1>2, <1>4, TotalIs DEF img

\* An insert adds one to the report.
LEMMA InsertTotal ==
  ASSUME NEW img, Good(img), NEW u \in Uuid, u \notin DOMAIN img.uuid_to_cluster,
         NEW seeds, NEW c \in Assigned(img, seeds), InsertFits(img, c),
         NEW pos \in SearchMisses(MembersOf(img, c), u)
  PROVE  TotalInserts(InsertImage(img, u, c, pos)) = TotalInserts(img) + 1
<1> DEFINE new == InsertImage(img, u, c, pos)
           D == DOMAIN img.cluster_drift
           f == InsertsOf(img)
           g == InsertsOf(new)
           entry == [generation |-> DriftOf(img, c).generation,
                     delta_inserts |-> DriftOf(img, c).delta_inserts + 1]
<1>1. Good(new)
  BY InsertGood
<1>2. new.cluster_drift = [x \in D \cup {c} |-> IF x = c THEN entry ELSE img.cluster_drift[x]]
  BY PutIs DEF InsertImage
<1>3. /\ IsFiniteSet(D) /\ \A x \in D : f[x] \in Nat
      /\ TotalInserts(img) = SumFunctionOnSet(f, D)
  BY TotalIs
<1> HIDE DEF new
<1>4. DOMAIN new.cluster_drift = D \cup {c}
  BY <1>2
<1>5. /\ \A x \in D \cup {c} : g[x] \in Nat
      /\ TotalInserts(new) = SumFunctionOnSet(g, D \cup {c})
  BY <1>1, <1>4, TotalIs
<1>6. \A x \in D \ {c} : g[x] = f[x]
  BY <1>2 DEF InsertsOf
<1>7. g[c] = (IF c \in D THEN f[c] ELSE 0) + 1
  <2>1. g[c] = entry.delta_inserts
    BY <1>2 DEF InsertsOf
  <2>2. entry.delta_inserts = DriftOf(img, c).delta_inserts + 1
    OBVIOUS
  <2>3. DriftOf(img, c).delta_inserts = IF c \in D THEN f[c] ELSE 0
    BY DEF DriftOf, Lookup, InsertsOf
  <2> HIDE DEF entry
  <2> QED
    BY <2>1, <2>2, <2>3
<1> HIDE DEF f, g, D
<1>8. SumFunctionOnSet(g, D \ {c}) = SumFunctionOnSet(f, D \ {c})
  <2>1. IsFiniteSet(D \ {c})
    BY <1>3, FS_Subset
  <2> QED
    BY <1>6, <2>1, SumCongruence
<1>9. CASE c \in D
  <2>1. SumFunctionOnSet(f, D) = f[c] + SumFunctionOnSet(f, D \ {c})
    BY <1>3, <1>9, SumRemove
  <2>2. D \cup {c} = D
    BY <1>9
  <2>3. SumFunctionOnSet(g, D) = g[c] + SumFunctionOnSet(g, D \ {c})
    BY <1>3, <1>5, <1>9, <2>2, SumRemove
  <2>4. SumFunctionOnSet(f, D \ {c}) \in Int
    BY <1>3, FS_Subset, SumType
  <2>5. f[c] \in Nat /\ g[c] = f[c] + 1
    BY <1>3, <1>7, <1>9
  <2>6. SumFunctionOnSet(g, D) = SumFunctionOnSet(f, D) + 1
    BY <1>8, <2>1, <2>3, <2>4, <2>5
  <2> QED
    BY <1>3, <1>5, <2>2, <2>6 DEF new
<1>10. CASE c \notin D
  <2>1. SumFunctionOnSet(g, D \cup {c}) = g[c] + SumFunctionOnSet(g, D)
    <3>1. \A x \in D \cup {c} : g[x] \in Int
      BY <1>5
    <3> QED
      BY <1>3, <1>10, <3>1, SumAdd
  <2>2. D \ {c} = D
    BY <1>10
  <2>3. SumFunctionOnSet(f, D) \in Int
    BY <1>3, SumType
  <2> QED
    BY <1>3, <1>5, <1>7, <1>8, <1>10, <2>1, <2>2, <2>3 DEF new
<1> QED
  BY <1>9, <1>10

\* The total the drift report prints goes up by one with each insert and to
\* none with each rebuild, and no other operation changes it.
THEOREM DriftReportFollows == Spec => DriftFollowsInserts
<1> DEFINE Inserts == \E u \in Uuid, seeds \in SeedLists : InsertCommits(u, seeds)
           before == TotalInserts(Visible)
           after == TotalInserts(Visible')
           Follows == CASE phase' = "closed" -> TRUE
                        [] phase = "open" /\ phase' = "committed" ->
                             after = IF Inserts THEN before + 1 ELSE 0
                        [] OTHER -> after = before
<1>1. ASSUME NEW img, Commit(img), IInv
      PROVE  Visible' = img /\ phase' = "committed"
  <2>1. journal \in Seq(Range(journal) \cup {img}) /\ journal' = Append(journal, img)
    BY <1>1, SeqMonotonic DEF IInv, Commit
  <2>2. journal' \in Seq(Range(journal) \cup {img}) /\ Len(journal') = Len(journal) + 1
        /\ journal'[Len(journal) + 1] = img
    BY <2>1, AppendProperties
  <2> QED
    BY <1>1, <2>2 DEF Visible, Commit
<1>2. ASSUME IInv, Inserts
      PROVE  phase = "open" /\ phase' = "committed" /\ after = before + 1
  <2>1. PICK u \in Uuid, seeds \in SeedLists : InsertCommits(u, seeds)
    BY <1>2
  <2>2. PICK c \in Assigned(Visible, seeds) :
          /\ InsertFits(Visible, c)
          /\ \E pos \in SearchMisses(MembersOf(Visible, c), u) :
               Commit(InsertImage(Visible, u, c, pos))
    BY <2>1 DEF InsertCommits
  <2>3. PICK pos \in SearchMisses(MembersOf(Visible, c), u) :
          Commit(InsertImage(Visible, u, c, pos))
    BY <2>2
  <2>4. phase = "open" /\ u \notin DOMAIN Visible.uuid_to_cluster
    BY <2>1 DEF InsertCommits
  <2>5. Visible' = InsertImage(Visible, u, c, pos) /\ phase' = "committed"
    BY <1>1, <1>2, <2>3
  <2>6. TotalInserts(InsertImage(Visible, u, c, pos)) = TotalInserts(Visible) + 1
    BY <1>2, <2>2, <2>4, VisibleGood, InsertTotal
  <2> QED
    BY <2>4, <2>5, <2>6
<1>3. ASSUME IInv, NEW s \in Sources, BuildCommits(s)
      PROVE  phase = "open" /\ phase' = "committed" /\ after = 0
  <2>1. PICK p \in Pipeline(s) : FitsU32(p) /\ Commit(BuildImage(Visible, p))
    BY <1>3 DEF BuildCommits
  <2>2. ValidBuild(p)
    BY PipelineAssumption
  <2>3. Visible' = BuildImage(Visible, p) /\ phase' = "committed" /\ phase = "open"
    BY <1>1, <1>3, <2>1 DEF BuildCommits
  <2> QED
    BY <2>1, <2>2, <2>3, BuildTotal
<1>4. ASSUME IInv, [Next]_vars, ~Inserts, \A s \in Sources : ~BuildCommits(s)
      PROVE  \/ phase' = "closed"
             \/ (phase' # "committed" \/ phase # "open") /\ Visible' = Visible
  <2>1. CASE Open \/ StoreFails \/ PersistFails \/ Maintain
    BY <2>1 DEF Open, StoreFails, PersistFails, Maintain, Return, Visible
  <2>2. CASE PersistReturns
    BY <2>2 DEF PersistReturns, Visible
  <2>3. CASE Stop
    BY <2>3 DEF Stop
  <2>4. CASE \E s \in Sources : BuildRejected(s)
    BY <2>4 DEF BuildRejected, Return, Visible
  <2>5. CASE \E u \in Uuid, seeds \in SeedLists : InsertRejected(u, seeds)
    BY <2>5 DEF InsertRejected, Return, Visible
  <2>6. CASE UNCHANGED vars
    BY <2>6 DEF vars, Visible
  <2> QED
    BY <1>4, <2>1, <2>2, <2>3, <2>4, <2>5, <2>6 DEF Next
<1> HIDE DEF Inserts, before, after
<1>5. ASSUME IInv, [Next]_vars
      PROVE  Follows
  <2>1. CASE Inserts
    BY <1>2, <1>5, <2>1
  <2>2. CASE ~Inserts /\ \E s \in Sources : BuildCommits(s)
    BY <1>3, <1>5, <2>2
  <2>3. CASE ~Inserts /\ \A s \in Sources : ~BuildCommits(s)
    BY <1>4, <1>5, <2>3 DEF before, after
  <2> QED
    BY <2>1, <2>2, <2>3
<1>6. IInv /\ [Next]_vars => [Follows]_vars
  BY <1>5
<1> QED
  BY <1>6, AlwaysGood, PTL DEF Spec, DriftFollowsInserts, Inserts, before, after
=============================================================================
