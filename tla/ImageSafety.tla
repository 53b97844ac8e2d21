---------------------------- MODULE ImageSafety ----------------------------
(***************************************************************************)
(* What the index guarantees of its contents: predicates on one image that *)
(* relate the partitions the code keeps apart, and the obligation on the   *)
(* pipeline whose result a rebuild writes.                                 *)
(***************************************************************************)
EXTENDS IndexImage

\* Hub lists name other hubs only, and each edge is stored at both ends.
LinksSymmetric(hubNeighbors) ==
  \A h \in DOMAIN hubNeighbors : \A i \in DOMAIN hubNeighbors[h] :
    LET g == hubNeighbors[h][i][1]
    IN  /\ g \in DOMAIN hubNeighbors /\ g # h
        /\ \E j \in DOMAIN hubNeighbors[g] :
              hubNeighbors[g][j] = <<h, hubNeighbors[h][i][2]>>

\* What the rest of the pipeline owes the write.  Labels are any, the same
\* label on two nodes included.
ValidBuild(p) ==
  /\ p.nodes \in Seq(Uuid)
  /\ p.cluster \in [NodesOf(p) -> Nat]
  /\ ClustersOf(p) = 0..(Cardinality(ClustersOf(p)) - 1)
  /\ p.region \in [ClustersOf(p) -> Nat]
  /\ p.hubs \subseteq NodesOf(p)
  /\ p.links \in [p.hubs -> Seq(Uuid \X Nat)]
  /\ LinksSymmetric(p.links)
  /\ p.adjacency \in [ClustersOf(p) -> Seq(Nat \X Nat)]
  /\ IsMap(p.label, NodesOf(p), Label)

-----------------------------------------------------------------------------

\* The counts in front of the lists and the cluster ids in them.
ListsFit(img) ==
  /\ \A h \in DOMAIN img.hub_neighbors : Len(img.hub_neighbors[h]) <= MaxU32
  /\ \A c \in DOMAIN img.cluster_neighbors :
       /\ Len(img.cluster_neighbors[c]) <= MaxU32
       /\ \A i \in DOMAIN img.cluster_neighbors[c] : img.cluster_neighbors[c][i][1] \in ClusterId

\* Every partition is a map with keys and values of the stored widths.
IsImage(img) ==
  /\ IsMap(img.uuid_to_cluster, Uuid, ClusterId)
  /\ IsMap(img.uuid_to_region, Uuid, ClusterId)
  /\ IsMap(img.uuid_is_hub, Uuid, BOOLEAN)
  /\ IsMap(img.hub_neighbors, Uuid, Seq(Uuid \X Nat))
  /\ IsMap(img.cluster_members, ClusterId, Seq(Uuid))
  /\ IsMap(img.cluster_meta, ClusterId, [size : ClusterId, hub_count : ClusterId])
  /\ IsMap(img.labels, Uuid, Label)
  /\ IsMap(img.label_to_uuid, Label, Uuid)
  /\ IsMap(img.cluster_drift, ClusterId, [generation : Nat, delta_inserts : ClusterId])
  /\ IsMap(img.cluster_neighbors, ClusterId, Seq(Nat \X Nat))
  /\ ListsFit(img)

\* No node is listed by two clusters, none is listed by a cluster it does not
\* map to, every node is listed by the one it maps to, and no cluster is empty.
ClustersInverse(img) ==
  /\ \A u \in DOMAIN img.uuid_to_cluster :
        img.uuid_to_cluster[u] \in DOMAIN img.cluster_members
  /\ \A c \in DOMAIN img.cluster_members :
        /\ img.cluster_members[c] # << >>
        /\ Range(img.cluster_members[c]) =
             {u \in DOMAIN img.uuid_to_cluster : img.uuid_to_cluster[u] = c}

ListsAscend(img) ==
  \A c \in DOMAIN img.cluster_members : IsAscending(img.cluster_members[c])

MetaAgrees(img) ==
  /\ DOMAIN img.cluster_meta = DOMAIN img.cluster_members
  /\ \A c \in DOMAIN img.cluster_meta :
       /\ img.cluster_meta[c].size = Len(img.cluster_members[c])
       /\ img.cluster_meta[c].hub_count =
            Cardinality({u \in Range(img.cluster_members[c]) : img.uuid_is_hub[u]})

RegionsAgree(img) ==
  /\ DOMAIN img.uuid_to_region = DOMAIN img.uuid_to_cluster
  /\ \A u, v \in DOMAIN img.uuid_to_cluster :
       img.uuid_to_cluster[u] = img.uuid_to_cluster[v]
         => img.uuid_to_region[u] = img.uuid_to_region[v]

\* Exactly the flagged nodes have a hub list.
HubsAgree(img) ==
  /\ DOMAIN img.uuid_is_hub = DOMAIN img.uuid_to_cluster
  /\ DOMAIN img.hub_neighbors = {u \in DOMAIN img.uuid_is_hub : img.uuid_is_hub[u]}
  /\ LinksSymmetric(img.hub_neighbors)

IdsDense(img) ==
  \E n \in 0..(MaxU32 + 1) : DOMAIN img.cluster_members = 0..(n - 1)

LabelsAgree(img) ==
  /\ DOMAIN img.labels \subseteq DOMAIN img.uuid_to_cluster
  /\ DOMAIN img.label_to_uuid = Range(img.labels)
  /\ \A l \in DOMAIN img.label_to_uuid :
       /\ img.label_to_uuid[l] \in DOMAIN img.labels
       /\ img.labels[img.label_to_uuid[l]] = l

\* A cluster without a cluster_neighbors entry is one that inserts alone have
\* filled since the last build.
DriftAgrees(img) ==
  /\ DOMAIN img.cluster_drift = DOMAIN img.cluster_meta
  /\ DOMAIN img.cluster_neighbors \subseteq DOMAIN img.cluster_meta
  /\ \A c \in DOMAIN img.cluster_meta :
       /\ img.cluster_drift[c].delta_inserts <= img.cluster_meta[c].size
       /\ c \in DOMAIN img.cluster_neighbors
            <=> img.cluster_drift[c].delta_inserts < img.cluster_meta[c].size

\* All of it; the conjunction is preserved by every write where the parts
\* are not.
Good(img) ==
  /\ IsImage(img)
  /\ ClustersInverse(img) /\ ListsAscend(img) /\ IdsDense(img)
  /\ MetaAgrees(img) /\ RegionsAgree(img) /\ DriftAgrees(img)
  /\ HubsAgree(img) /\ LabelsAgree(img)
=============================================================================
