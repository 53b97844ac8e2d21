------------------------------ MODULE SwIndex ------------------------------
(***************************************************************************)
(* One SwIndex handle over its Fjall keyspace: open, build_from_source,    *)
(* insert_node, maintain, and the crash that can fall between any two of   *)
(* their steps.                                                            *)
(*                                                                         *)
(* Every write ends in batch.commit() and then keyspace.persist(SyncAll).  *)
(* The journal holds the images a restart may find: its head is on disk,   *)
(* each later one was committed by a batch whose fsync has not returned,   *)
(* and the last one is what reads through the handle see.                  *)
(*                                                                         *)
(* &mut self on the two writers excludes concurrent reads and writes       *)
(* through the handle, so between commit and persist no other operation    *)
(* of the program runs.                                                    *)
(***************************************************************************)
EXTENDS CommandLine

CONSTANTS
  Sources,      \* the graph sources the caller may build from
  Pipeline(_),  \* the pipeline results a source may give; {} on DanglingEdge
  SeedLists,    \* the seed lists the caller may pass to insert_node
  MaxJournal,   \* bound: images in the journal
  MaxStale      \* bound: how far approximate_len exceeds the number of keys

VARIABLES
  journal,  \* <<image on disk, images committed and not yet fsynced ...>>
  phase,    \* "closed", "open", or "committed" between commit and persist
  result    \* of the last operation: "none", "ok" or "error"

vars == <<journal, phase, result>>

ASSUME PipelineAssumption ==
  \A s \in Sources : \A p \in Pipeline(s) : ValidBuild(p)
ASSUME SeedListsAssumption == SeedLists \subseteq Seq(Uuid)
ASSUME MaxJournalAssumption == MaxJournal \in Nat \ {0}
ASSUME MaxStaleAssumption == MaxStale \in Nat

-----------------------------------------------------------------------------

Visible == journal[Len(journal)]

Init ==
  /\ journal = <<EmptyImage>>
  /\ phase = "closed"
  /\ result = "none"

Open ==
  /\ phase = "closed"
  /\ phase' = "open"
  /\ result' = "none"
  /\ UNCHANGED journal

\* batch.commit() returned: the handle sees the new image, the disk may not.
Commit(img) ==
  /\ Len(journal) < MaxJournal
  /\ journal' = Append(journal, img)
  /\ phase' = "committed"
  /\ result' = "none"

Return(r) ==
  /\ result' = r
  /\ phase' = "open"
  /\ UNCHANGED journal

BuildCommits(s) ==
  /\ phase = "open"
  /\ \E p \in Pipeline(s) : FitsU32(p) /\ Commit(BuildImage(Visible, p))

\* Graph::from_source met a dangling edge, or a u32 conversion failed while
\* the batch was staged: the batch is dropped.
BuildRejected(s) ==
  /\ phase = "open"
  /\ Pipeline(s) = {} \/ \E p \in Pipeline(s) : ~FitsU32(p)
  /\ Return("error")

\* Mutant: the insert of issue #66, which asks only the list it inserts into.
InsertsAgain(u, seeds) ==
  /\ phase = "open"
  /\ \E c \in Assigned(Visible, seeds) :
       /\ InsertFits(Visible, c)
       /\ u \notin Range(MembersOf(Visible, c))
       /\ \E pos \in SearchMisses(MembersOf(Visible, c), u) :
            Commit(InsertImage(Visible, u, c, pos))

InsertCommits(u, seeds) ==
  /\ phase = "open"
  /\ u \notin DOMAIN Visible.uuid_to_cluster
  /\ \E c \in Assigned(Visible, seeds) :
       /\ InsertFits(Visible, c)
       /\ u \notin Range(MembersOf(Visible, c))
       /\ \E pos \in SearchMisses(MembersOf(Visible, c), u) :
            Commit(InsertImage(Visible, u, c, pos))

\* The uuid exists already, or a checked addition overflows, or the list has
\* a node the map does not (which MembershipAgrees rules out).
InsertRejected(u, seeds) ==
  /\ phase = "open"
  /\ \/ u \in DOMAIN Visible.uuid_to_cluster
     \/ \E c \in Assigned(Visible, seeds) :
          ~(InsertFits(Visible, c) /\ u \notin Range(MembersOf(Visible, c)))
  /\ Return("error")

\* A read, a staged iteration or the commit itself fails inside Fjall.
StoreFails ==
  /\ phase = "open"
  /\ Return("error")

\* Mutant: Ok without the fsync.
SkipsPersist ==
  /\ phase = "committed"
  /\ Return("ok")

PersistReturns ==
  /\ phase = "committed"
  /\ journal' = <<Visible>>
  /\ phase' = "open"
  /\ result' = "ok"

\* The fsync fails: the caller gets an error, the batch stays applied.
PersistFails ==
  /\ phase = "committed"
  /\ Return("error")

\* NeverRebalance decides on no action; the report is empty.
Maintain ==
  /\ phase = "open"
  /\ Return("ok")

\* The process ends, by dropping the handle or by a crash at any point.  Of
\* the batches that were not fsynced a prefix survives, each whole.
Stop ==
  /\ phase # "closed"
  /\ \E k \in 1..Len(journal) : journal' = SubSeq(journal, 1, k)
  /\ phase' = "closed"
  /\ result' = "none"

Next ==
  \/ Open
  \/ \E s \in Sources : BuildCommits(s) \/ BuildRejected(s)
  \/ \E u \in Uuid, seeds \in SeedLists :
        InsertCommits(u, seeds) \/ InsertRejected(u, seeds)
  \/ StoreFails
  \/ PersistReturns
  \/ PersistFails
  \/ Maintain
  \/ Stop

Spec == Init /\ [][Next]_vars
-----------------------------------------------------------------------------
(* Properties.  Each holds of every image in the journal: of the one the   *)
(* handle reads and of every one a restart may bring back.                 *)

Everywhere(P(_)) == \A i \in DOMAIN journal : P(journal[i])

\* The variables have their types: every image is made of maps with keys and
\* values of the stored widths.
TypeOK ==
  /\ journal \in Seq(Range(journal))
  /\ Len(journal) \in 1..MaxJournal
  /\ Everywhere(IsImage)
  /\ phase \in {"closed", "open", "committed"}
  /\ result \in {"none", "ok", "error"}

\* uuid_to_cluster and cluster_members are inverses of each other, after any
\* sequence of rebuilds, inserts and restarts (issue #66).
MembershipAgrees == Everywhere(ClustersInverse)

\* Every member list is strictly ascending, which the binary search of the
\* next insert_node relies on (issue #66).
MembersSorted == Everywhere(ListsAscend)

\* What insert_node counts up instead of recounting agrees with what it counts:
\* cluster_meta with the lists and the hub flags it summarises; the drift
\* counters never claim more inserts than nodes, and those that claim all of
\* them are of the clusters that the last build has not seen.
CountersAgree == Everywhere(MetaAgrees) /\ Everywhere(DriftAgrees)

\* A region is a set of clusters, although the store keeps it per node and
\* insert_node asks only the first member of the cluster.
RegionPerCluster == Everywhere(RegionsAgree)

\* The hub lists form an undirected graph over the flagged nodes: no hub of an
\* earlier build survives in a list (issue #64).
HubListsClosed == Everywhere(HubsAgree)

\* The clusters are numbered without gaps, which the command line relies on
\* when it walks 0..stats.clusters, and which makes max + 1 a free id.
ClusterIdsDense == Everywhere(IdsDense)

\* Every label of a node leads to some node of the index that carries it, and
\* the reverse map knows no label that no node carries (issue #64).
LabelsResolve == Everywhere(LabelsAgree)

-----------------------------------------------------------------------------
(* What a user of the program sees.  Every command opens the index anew, so *)
(* the commands meet the states right after Open.                          *)

Opened == phase = "open" /\ result = "none"

StatsClusters ==
  LET n == Cardinality(DOMAIN Visible.cluster_members) IN n..(n + MaxStale)

\* The cluster list shows every cluster of the asked size unless the limit cuts
\* it, each with as many names as its size says and as many hubs as it counts,
\* whatever stats() makes of a store that was rebuilt and inserted into.
ClusterListAddsUp ==
  Opened =>
    \A count \in StatsClusters : \A minSize, limit \in 0..3 :
      LET list == CmdClusters(Visible, count, minSize, limit)
      IN  /\ \A i \in DOMAIN list.lines :
               LET line == list.lines[i]
               IN  /\ Len(line.names) = line.size /\ line.size >= minSize
                   /\ line.hub_count = Cardinality({u \in DOMAIN Visible.hub_neighbors :
                                          Visible.uuid_to_cluster[u] = line.cluster})
          /\ Len(list.lines) < limit =>
               /\ {list.lines[i].cluster : i \in DOMAIN list.lines} =
                    {c \in Range(Visible.uuid_to_cluster) :
                       Cardinality({u \in DOMAIN Visible.uuid_to_cluster :
                                      Visible.uuid_to_cluster[u] = c}) >= minSize}
               /\ minSize > 1 => Len(list.lines) + list.below =
                                    Cardinality(Range(Visible.uuid_to_cluster))

\* The table list has the label of every labelled node, once each, and each of
\* them can be asked about: it leads to a node whose cluster lists it.
TablesFindThemselves ==
  Opened =>
    \A count \in StatsClusters : \A matches \in SUBSET Label : \A limit \in 0..3 :
      LET list == CmdTables(Visible, count, matches, limit)
          all  == Range(Visible.labels)
      IN  /\ IsAscending(list.lines) /\ Range(list.lines) \subseteq all \cap matches
          /\ Len(list.lines) < limit =>
               /\ Range(list.lines) = all \cap matches
               /\ list.filtered = Cardinality(all \ matches)
          /\ \A l \in Range(list.lines) :
               /\ EmptyAnswer(Visible, l) = "nothing found"
               /\ LET u == Visible.label_to_uuid[l]
                      c == Visible.uuid_to_cluster[u]
                  IN  \E i \in DOMAIN MembersOf(Visible, c) :
                        ShownAs(Visible, MembersOf(Visible, c)[i]) = <<"label", l>>

\* The drift report counts the inserts since the last rebuild: an insert adds
\* one, a rebuild leaves none, and nothing else but a restart changes it.
DriftFollowsInserts ==
  [][LET before == TotalInserts(Visible)
         after  == TotalInserts(Visible')
     IN  CASE phase' = "closed" -> TRUE
           [] phase = "open" /\ phase' = "committed" ->
                after = IF \E u \in Uuid, seeds \in SeedLists : InsertCommits(u, seeds)
                        THEN before + 1 ELSE 0
           [] OTHER -> after = before]_vars

-----------------------------------------------------------------------------
(* The promise this specification keeps.                                   *)

ClustersIn(img) ==
  {Range(img.cluster_members[c]) : c \in DOMAIN img.cluster_members}

\* The nodes of the graphs that the sources give.
SourceNodes == {NodesOf(p) : p \in UNION {Pipeline(s) : s \in Sources}}

Promise == INSTANCE ClusterPromise WITH
  NodeSets <- SourceNodes,
  clusters <- ClustersIn(Visible),
  safe     <- ClustersIn(journal[1]),
  unsafe   <- {ClustersIn(journal[i]) : i \in 2..Len(journal)}

\* The index behaves as ClusterPromise says: a rebuild replaces everything, an
\* insert adds one node and moves none, and no restart falls behind the last
\* operation that returned Ok.
KeepsPromise == Promise!Spec

\* maintenance.rs says of a cluster's generation that it "increments on every
\* rebuild (full or partial) of this cluster".
RebuildRaisesGeneration ==
  [][\A s \in Sources : BuildCommits(s) =>
       \A c \in DOMAIN Visible.cluster_drift \cap DOMAIN Visible'.cluster_drift :
          Visible'.cluster_drift[c].generation > Visible.cluster_drift[c].generation]_vars
=============================================================================
