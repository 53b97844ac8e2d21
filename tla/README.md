# swindex, specified

TLA+ models of the swindex graph index (`src/src/`), the TLC runs that check them
on small instances, and the TLAPS proofs of what holds for every instance.

## The system

swindex turns a graph source into four layers, writes them to ten partitions of
an embedded Fjall keyspace in one atomic batch, and answers "same cluster" and
"similar" queries from the partitions alone. New nodes can be added one at a time
between rebuilds.

| Part | Code | State it keeps | Operations |
|---|---|---|---|
| Index store | `index.rs` | ten Fjall partitions; what of them has been fsynced | `open`, `build_from_source(_with)`, `insert_node`, `maintain`, `stats`, drop or crash |
| Stored values | `index.rs` | none: bytes of each value | `encode_*`, `decode_*` |
| Queries | `index.rs` | none between calls; inside `query_similar`: results, dedup set, hub edges, counters | `query`, `query_by_label`, the point reads |
| Layer 0 graph | `graph.rs` | ids, symmetric adjacency, degrees, 2m | `from_source` |
| Layer 1 clusters | `community.rs` | per level: weighted graph, labels, totals, refined labels | `louvain`, `leiden`, `modularity`, `aggregate` |
| Layer 2 hubs | `hub.rs`, `hub_graph.rs`, `betweenness.rs` | hub set; per hub the hubs within k hops | `from_top_fraction`, `from_centrality`, `union`, `HubGraph::build` |
| Layer 3 regions | `region.rs` | a partition of the clusters | `RegionGraph::build` |
| Drift | `maintenance.rs` | per cluster generation and delta_inserts | `drift_report`, `maintain` |
| Sources | `source.rs`, `edgelist.rs`, `gml.rs`, `sql_dump.rs` | while parsing: id maps, scanner mode | loaders |
| Experiments | `corridor.rs`, `quality.rs` | none | corridor search, NMI |
| Command line | `bin/swindex.rs` | none | prints what the index returns |

Everything runs on the caller's thread. The two writers take `&mut self`, the
reads take `&self`, so inside one handle nothing interleaves with a write; Fjall
locks the directory against a second handle. What remains hard is elsewhere:

* **Crash and failure.** A write is `batch.commit()` and then
  `keyspace.persist(SyncAll)`. Between the two the handle sees data that a crash
  may take back, and a failed fsync returns an error for data that stays visible.
* **Redundancy.** Ten partitions say overlapping things (a node's cluster, a
  cluster's nodes, its size, its hub count, its region through its members, its
  drift counter). A rebuild writes them all; an insert reads some and patches
  six. Issues #64 and #66 in the code's comments are two ways this went wrong.
* **Preconditions far away.** `binary_search` in `insert_node` relies on the
  order every earlier write left behind; `max + 1` relies on dense ids.
* **Estimates and bytes.** `stats()` counts keys with Fjall's `approximate_len`,
  which is too high after rewrites and removals, and two commands walk cluster ids
  below it. A stored list that was cut short must not be read as a shorter list.
* **Boundaries.** u32 sizes, counters and ids; `limit` inside, at the end of and
  before a cluster; a cluster without a hub; two hubs in one cluster.

`PROJECT.json` lists these hazards one by one, each at its line.

### What makes each part correct

| Part | Correct when |
|---|---|
| Index store | all partitions describe one clustering; lists are sorted; counters are the counts; no restart loses what returned `Ok` or finds half a batch; a rebuild leaves nothing behind; numbers fit their width |
| Stored values | what is read is what was written; damage and other formats are refused, and told apart |
| `query_similar` | results are distinct, nearest cluster first, never more than `limit`, complete when fewer; the query ends |
| `query_by_label` | the answer is about the node the label names; every label in it can be asked about in turn |
| Command line | the lists agree with the index whatever `stats()` estimates |
| Clustering | the patched totals are exact; aggregation preserves modularity; no visit and no level makes the partition worse; every loop ends |
| Regions | each groups clusters, no worse than the clusters alone |
| Hubs | hub lists are symmetric, closed, and reach exactly k hops |
| SQL dumps | between statements the scanner is back outside; one node per table, one edge per foreign key, one edge per routine and pair of tables it mentions; no dangling edge |
| Other sources | a file gives all of its graph or an error; repeated ids and repeated edges are resolved alike every time |
| Betweenness, corridors | scores are shortest paths counted by definition; a corridor is a shortest list of clusters that connects its ends |
| NMI | 1 for the same clusters under other numbers only, 0 for independent ones only, symmetric |

## The modules

```
SortedLists ─ IndexImage ─ ImageSafety ─┬─ CommandLine ─┬─ SwIndex ────── MCSwIndex
                                        │               └─ SimilarQuery ┬ StoredQueries ─ MCSimilarQuery
                            Payloads ───┴─ StoredImage ─────────────────┘
Graph ─┬─ Betweenness ─ Hubs ─┬─ Pipeline   (in MCSwIndex and MCSimilarQuery)
       ├─ Clusters ───────────┴─ Leiden (with Shuffle) ─┬─ MCLeiden
       │                                                └─ MCLeidenSeeded (with XorShift)
       ├─ SqlDump ─ DumpReading ─ MCDumpReading
       └─ EdgeLists, Betweenness, Corridors and Nmi (with Clusters) ─ GraphFiles ─┐
          Gml ─ GmlText ──────────────────────────────────────────────────────────┴─ GmlFiles
ClusterPromise  is what SwIndex implements
DataProofs ─┬─ SwIndexProofs, SimilarQueryProofs, DumpProofs
            └─ ClustersProofs ─ LeidenProofs, PipelineProofs, GraphFilesProofs
                these eight hold the theorems
```

| Module | Models | Correspondence |
|---|---|---|
| `SortedLists` | `binary_search`, `Vec::insert`, `sort` on uuid lists | `SearchMisses` gives the *set* of answers `binary_search` may give for a missing element: one on a sorted list, every position on an unsorted one |
| `IndexImage` | the contents of the ten partitions and the two batches | one record of finite maps; `BuildImage` is steps 5 and 6 of `build_from_source_with`, `InsertImage` is what `insert_node` stages |
| `ImageSafety` | no code: predicates on an image | `Good` is their conjunction |
| `Payloads` | the encoders and decoders of `index.rs`, `Uuid7::from_uuid` | byte sequences; a decoder returns `Ok` with a value, `Corruption` or `UnsupportedFormat` |
| `StoredImage` | which codec each partition uses | the bytes of every value of an image, and what is read back from them or from damaged ones |
| `CommandLine` | `cmd_clusters`, `cmd_tables`, `cmd_drift`, `drift_report`, the empty answers | operators on an image and on the estimate of `stats()` |
| `SwIndex` | one handle and its disk | `BuildCommits`, `InsertCommits` end in `batch.commit()`; `PersistReturns`, `PersistFails` are the fsync; `BuildRejected`, `InsertRejected`, `StoreFails` are the error returns; `Stop` is drop or crash |
| `ClusterPromise` | the abstract index | a set of node sets, replaced or grown |
| `Graph` | `Graph::from_source` | multiplicities, degrees, 2m; nodes are numbered as the code numbers them |
| `Clusters` | `Partition::new`, `aggregate`, `modularity`, `cluster_adjacency` | operators on weighted graphs |
| `Hubs` | `from_top_fraction`, `from_centrality`, `union`, `HubGraph::build` | operators; distances by bounded levels |
| `Pipeline` | the in-memory half of a build | a *set* of results: see the bounds below |
| `SimilarQuery` | `query_same_cluster`, `query_similar`, `query_by_label` around both | one action per step of the routing; one hub edge per step |
| `StoredQueries` | no code: the queries with the bytes they read | `StoreReadsBack`, for every index a query meets |
| `Leiden`, `Shuffle`, `XorShift` | `louvain_*`, `leiden_*`, `local_moving_from`, `refine_partition`, `shuffled_indices`, `xorshift64`, `regions_from_clusters` | one node visit per step; after the clusters the same run clusters the super-graph into regions |
| `SqlDump` | `Parser::run` and `from_sql` | one line per step; a line is the record of what the string tests find in it |
| `DumpReading` | a writer like mysqldump (external) with the reader | the writer keeps what it meant, the reader what it understood |
| `EdgeLists` | `EdgeListSource::from_str` | a line is the record of what it parses as |
| `GmlText` | the lexer: `skip_whitespace_and_comments`, `next_token`, `next_number`, `next_ident` | one character per step; every token goes to the parser as it ends |
| `Gml` | `parse`, `parse_value`, `parse_list`, `find_int` | the recursive parser with its stack, one token per step; then the walk over the entries |
| `Betweenness` | `approximate_betweenness`, `pick_sources` | Brandes' two phases and their reused scratch vectors; scores in 1/144, exact on these graphs; the sources are any the partial shuffle may leave in front |
| `Corridors` | `cluster_corridor`, `evaluate_corridor`, `bfs_distance` | operators, one per search and one per turn of its queue |
| `Nmi` | `nmi` | logarithms kept exactly, as multiples of ln 2, ln 3 and ln 5 |
| `GraphFiles` | a writer of graphs (external), with `EdgeLists`, `Betweenness`, `Corridors` and `Nmi` | the writer adds a node or an edge; then the graph is divided into clusters |
| `GmlFiles` | the same writer with GML (external), with the reader of `GmlText` and `Gml` | each step of `GraphFiles` also writes GML text, and the reader follows character by character. The reader is a recursive operator, out of the prover's reach, so it has a module of its own; `GmlNext` is `Next` of `GraphFiles` with what happens to `reader` |

In every module a definition headed `Mutant:` is a plausible bug in the definition
after it. It is not used by the specification; swapping it in must break the
property named in `PROJECT.json`.

## The runs

| Run | Configuration | Shows |
|---|---|---|
| `index_contents` | `MCSwIndex.cfg` | the ten partitions agree after any sequence of builds, inserts, failed commits, failed fsyncs and restarts, and stay within a u32 cut to 0..3; the lists of clusters and tables add up for every estimate `stats()` may give; `SwIndex` implements `ClusterPromise`, whatever a restart loses; the drift report counts every insert since the last build |
| `similar_query` | `MCSimilarQuery.cfg` | every query, by uuid and by label, over every image a path of four nodes can give; the bytes of each image read back, damaged ones are refused |
| `leiden` | `MCLeiden.cfg` | Leiden and Louvain on ten graphs, in every shuffle order, and the regions of what Leiden returns |
| `dump_reading` | `MCDumpReading.cfg` | every schema of up to five statements over two databases |
| `graph_files` | `MCGraphFiles.cfg` | all small graphs through both loaders, whole, repeated, cut short and malformed; shortest paths, betweenness, corridors and NMI against their definitions |
| `generation_rises`, `clusters_visited`, `leiden_levels`, `leiden_gain`, `leiden_connected`, `dump_short`, `dump_blocks` | see below | places where the code and its documentation disagree |

### Bounds, and why they are enough

* **Index** (`MCSwIndex`). Five uuids and sources of three nodes: no node; two nodes out of
  uuid order with parallel edges and one label on both; three nodes with a node
  repeated, a self-loop and two labels, two of them always in one cluster; a dangling edge; and four nodes in one cluster, which passes the limit.
  `MaxU32` = 3 lets a fourth insert into a cluster and a fifth cluster id be rejected. So every rebuild can grow,
  shrink or empty what is there, every insert can meet a list in which it goes
  first, in the middle or last, and a label can move or vanish. Seed lists: none,
  and one of three nodes with a duplicate, which finds none, one or several of them,
  wins by the duplicate and ties. `MaxJournal` = 3
  bounds the images in the journal: a write may follow one whose fsync failed, and a
  restart may lose neither, the second or both.
* **The estimate.** `stats().clusters` is any number from the number of clusters to
  `MaxStale` = 2 above it. Every command of the program opens the index and ends, so
  its lists are checked when `open` has just returned (`Opened`), on every image a
  restart may find.
* **`Pipeline` is a set.** The clusters and regions are any value `Partition::new`
  can return, and a quota that a float product could round up may do so. This is
  wider than the code; what holds for the set holds for what the code computes, and
  `PipelineProofs` proves `ValidBuild` of all of it.
  Hubs are those of the strategy: by degree, by betweenness from any sources a seed
  may pick, or both. `MCSwIndex` has both, with two samples of up to four nodes or all,
  `MCSimilarQuery` each, with one; the quotas are one and several of its four nodes.
* **Queries** (`MCSimilarQuery`). A path of four, where two nodes share a label, one
  has its own and one has none, and a fifth inserted into an old cluster or a new
  one. `Limits` are 0, one inside, at and past the largest cluster, and one no
  answer fills. The bytes of a uuid, text or weight are one representative each; the
  numbers and counts in front of them are those of the image.
* **Weights.** `cluster_neighbors` keeps counts, `hub_neighbors` hop distances where
  the code keeps `1/d`; queries only compare them, and `ByWeight` sorts the other way.
* **Clustering** (`MCLeiden`). Ten graphs of up to five nodes: loops, weights,
  disconnected parts, no edges, no nodes. They were picked so that a second level
  moves nodes, a refinement is finer than the moving, and one where it never merges.
  A shuffle may give any order, which covers any seed. Weights are whole numbers,
  gains are kept times `m * 2m` and compared exactly; the code's tolerance of 1e-12
  absorbs rounding only. The renumbering of the returned labels is left out:
  `composed` is the answer up to numbering. `in_w`, which the code fills and never
  reads, is left out.
* **Seeded runs** (`MCLeidenSeeded`). The generator is a real 64-bit `xorshift64`
  seeded as `build_from_source` seeds it (42), so each graph has one behaviour. A
  word is the set of its 1-bits, since TLC's numbers have 32 bits. `MaxGenerators`
  and `MaxNumbers` bound the table of drawn numbers.
* **Dumps** (`MCDumpReading`). Two databases, two names, key lists of up to two,
  self-references and references to undeclared tables among them; routines that
  mention one table, two, or one in the other database, and that create a temporary
  table inside. `OneLineKeys` bounds the foreign keys of a CREATE TABLE on one line:
  1 in the passing run, 2 in `dump_short`. A pair of DELIMITER
  lines holds one routine, as mysqldump writes it, or two, as an edited dump may have
  it. `shared` keeps the pairs that a block of two mentions; `OneEdgePerRoutine` is
  about all others, `EveryRoutineCounts`, which `dump_blocks` refutes, about all.
  References spelled with a database (`` `db`.`t` ``), trailing `DELIMITER`
  errors and non-mysqldump text are not generated.
* **Files** (`MCGraphFiles`). Up to five nodes and five edges: loops up to three
  nodes, parallel edges up to four, where they first distort path counts (a cycle
  of four with one edge doubled), simple graphs of five, where a corridor first
  misses every shortest path. `GmlTo` bounds the graphs that are read a second
  time. GML text has decoy fields (`id` nested, of another type, twice),
  comments and strings with brackets in them, and ids of two digits with either sign.
  A run of letters is one character (`Words`), and `MaxI64` = 99 cuts an i64 to two
  digits, so that an id of three is out of range.
  Sources of betweenness are all nodes, any two, or more than there are. `Unit` = 144 is
  divisible by every path count here. NMI compares two divisions of up to five nodes;
  its primes reach to 6.

### Fairness and deadlock

`SimilarQuery` and `Leiden` are one thread running one call: `WF_vars(Next)` says
only that the thread is scheduled, which is all their termination uses. `SwIndex`,
`DumpReading`, `GraphFiles` and `GmlFiles` have no fairness, as a caller may always stop, and no liveness
property. Deadlock is checked for the index, where `Stop` and `Open` are always
possible in turn; a query, a clustering, a dump and a file really end, so their
configurations turn it off.

### Where code and documentation disagree

| Run | What the run finds |
|---|---|
| `generation_rises` | every build writes generation 0, where `maintenance.rs:81` says it rises with every rebuild |
| `clusters_visited` | hub edges out of the cluster are counted, where `index.rs:385` says distinct clusters |
| `leiden_levels` | Leiden repeats a level until its cap of 32 when the refinement merges nothing, where `community.rs:26` says the loop ends when a pass merges nothing. The answer is right, the work is wasted |
| `leiden_gain` | a node with a negative gain at home stays although another community would lose less, where `community.rs:612` says the partition is locally optimal |
| `leiden_connected` | a community of the answer falls apart, where `community.rs:46` says that refinement guarantees connected communities: the answer is composed from the local moving, not from the refinement |
| `dump_short` | one foreign key per line is read, also when the line is a whole CREATE TABLE, where `sql_dump.rs:14` says one edge per foreign key |
| `dump_blocks` | what stands between two DELIMITER lines is one routine to the reader: two routines that mention a table each get an edge, where `sql_dump.rs:175` and `sql_dump.rs:234` say one edge per routine that mentioned both tables |

## The proofs

Eight modules hold theorems; every constant is open in them. The assumptions are those
the modules name, and TLC evaluates each of them on a run:

* `Uuid` is a finite set of numbers (uuids compare as their bytes do), labels are
  numbers, seed lists are sequences of uuids, limits are numbers, `MaxU32` and
  `MaxJournal` are positive;
* `PipelineAssumption`: every result of `Pipeline` satisfies `ValidBuild` (node ids of
  the graph, clusters numbered from 0 without gaps, regions for all clusters, hub lists
  symmetric and closed). It is the interface between the index and the graph code, and
  `PipelineProofs` proves it of the graph code;
* `ImagesAssumption`, `EncodableAssumption`: an image a query meets is `Good`, its
  weights are four bytes and its generations are u64. That it is `Good` is what the
  theorems about the index prove of every image it can read;
* `UuidBytesAssumption`, `TextBytesAssumption`, `WidthAssumption`: a uuid is 16 bytes of
  version 7, a label is UTF-8, and `MaxU32` is a u32;
* `GraphsAssumption`: a graph to cluster has symmetric weights that are numbers. The
  result of `Graph::from_source` is such a graph (`GraphIs` in `PipelineProofs`);
* `NamesAssumption`, `StatementsAssumption`: a dump has finitely many names.

`DataProofs` has what the others keep needing: sums over finite sets (taken apart,
regrouped, renamed), ascending lists, and induction over numbers and finite sets. The
library's induction theorems take an operator as a parameter, which these provers cannot
instantiate; stated of a *set* instead (`SetInduction`, `NumberInduction`) and of the
function a recursion defines (`RecursionExists`), induction is within reach.

### The index

**The inductive invariant.** `IInv` in `SwIndexProofs`: the variables have their
types and *every* image in the journal is `Good`. Two strengthenings are needed over
the listed invariants. The journal: a crash may bring back any image in it, so an
invariant of the visible image alone is not inductive. The conjunction: `insert_node`
reads one partition to patch another (`cluster_meta` for the next id, the member list
for the position, the first member for the region, `uuid_to_cluster` for the vote), so
none of `ClustersInverse`, `ListsAscend`, `IdsDense`, `MetaAgrees`, `RegionsAgree` and
`DriftAgrees` survives an insert without the others.

* **Lists** (`DataProofs`). On an ascending list the search for a missing element has
  exactly one answer (`SearchSplits`), and inserting there keeps the list ascending
  and adds just that element (`InsertKeepsOrder`); `Ascending` sorts, and `Chosen`
  picks the items at some places in their order.
* **Images.** `EmptyGood`, `BuildGood` (whatever image was there before) and
  `InsertGood`.
* **The handle.** `InitIInv`, `NextIInv`, then one theorem per property of
  `index_contents` about the image. `ImplementsPromise`: under the refinement mapping
  of `SwIndex` (clusters of the visible image; `safe` the head of the journal; `unsafe`
  the rest), initial states map to initial states and each step to a step of
  `ClusterPromise` or a stutter.
* **What is listed from it.** `ClusterListComplete` and `TableListComplete` for every
  estimate `stats()` may give: the sizes in the list of clusters add up to all nodes,
  since ids are dense and every node is in the one list of its cluster (a sum regrouped).
  `DriftReportFollows` is an action property: the counters the report adds up change by
  what the step did, and by nothing else.

### The pipeline

`PipelineKeepsItsPromise` discharges `PipelineAssumption` for every source, strategy
and quota. Distances are the point: `HubGraph::build` starts one search per hub, and
that `h` is in the list of `g` whenever `g` is in that of `h`, with the same distance,
holds because the balls around two nodes grow alike (`BallSymmetric`, by induction over
the radius). `Partition::new` numbers without gaps because every class has a first node
and places among those are consecutive (`RenumberedIs`).

### The queries

`SimilarQueryProofs` proves the four safety properties of `similar_query` for every
good image, hub graph, limit and request.

* **Lists.** `First` is a beginning; `Collect`, the loop over a cluster's members,
  keeps what was found, appends distinct members that were not seen, stays within the
  limit and below it takes them all (`CollectIs`); a finite total order gives each
  place to one member (`PositionsAre`), so `ByWeight` keeps the edges and sorts them
  (`ByWeightSorts`).
* **`AnswerInv`** (types, what each stage may rely on, what a name was resolved to,
  distinct results) is inductive alone, and gives `QueryReturnsDistinctNodes` and
  `QueryAnswersByName`.
* **`QueryInv`** adds `WalkInv`. Neither the order nor the completeness of an answer
  is inductive. What a step needs to know of the steps before it: the start's cluster
  was taken whole; every edge of the entry hub is still to be followed or leads to a
  cluster that is taken whole; the edges to come are in order and at least as far as
  everything found. From it follows the one argument that is not bookkeeping: a node
  that following an edge adds was not taken before, so every edge into its cluster is
  still to come, and the edge followed is the nearest of them. Hence its rank is the
  weight of that edge (`FollowKeepsWalk`), and the answer stays in order although two
  hubs of one cluster may be at different distances: `QueryFindsNearestFirst`. When the
  edges are used up below the limit, all their clusters are taken: `QueryMissesNone`.

### The stored bytes

`QueriesReadWhatWasStored`, in `SimilarQueryProofs`, rests on `ImagesReadBack`: every value of a good image that fits its width is read back from its
bytes as it was written, and its bytes cut short, run together or under another format
byte are refused with the right error. Numbers are taken apart and put together again
(`WordReadsBack`, `LongReadsBack`); a list is cut where its items were joined (`FlatIs`,
`ListReadsBack`); a damaged list no longer has the length its own count stands for
(`DamagedFrame`, `ListSound`). That a count fits its four bytes is what the encoders
check (`ListsFit`, kept by every write).

### Clustering

`LeidenProofs` proves six properties of the `leiden` run for every set of graphs and
every order a shuffle may give: `TotalsExact`, `RefinementInside`, `AggregationExact`,
`VisitsImprove`, `LevelsImprove` and `RegionsAreClusters`. Weights are whole numbers and are compared exactly:
the theorems are about the algorithm, not about the rounding of f64.

* **The algebra** (`ClustersProofs`). Merging keeps every degree and the total
  (`AggregateDegrees`); labels of a super-graph have the modularity of what they stand
  for (`QualityCarried`); aggregating twice is aggregating once by the composition
  (`AggregateTwice`); moving one node changes the modularity by exactly the difference
  of the two gains that `local_moving_from` compares (`MoveChanges`).
* **The invariant.** None of the first five is inductive. `LeidenInv` adds that the graph of a
  level is the graph of the call aggregated *once*, by the communities its nodes stand
  for; that the labels of a local moving are no worse than the answer so far; and that
  in a refinement the answer is the partition the refinement stays inside. The second is
  why the totals must be exact: a gain computed from a stale total may be a loss.
* **Regions** (`RegionsStayClusters`). Where the clustering ended by itself, no two of its
  clusters are worth joining, and then clustering the super-graph gives every cluster a
  region of its own. A visit weighs one node against the communities next to it, so a
  pass that moved nothing says something of *single* nodes only (`SettledInv`). It speaks
  of clusters since a level that ends the run starts with a node per community and moved
  none of them (`FinalInv`); and a node of the second run that sees no gain in any
  neighbour never leaves, in whatever order it is visited (`RegionInv`). A run that stops
  at its cap of levels has no such last pass: that is the hypothesis of the property.

### Dumps

`DumpProofs` proves all five properties of `dump_reading`, for any names, any databases,
key lists and blocks of any length. `DumpInv` says that what the reader has, together
with what the lines ahead still hold, is what the writer meant, in each of the phases a
reading can be in (between statements; before a `USE`, a view, an `ALTER`, a table on one
line or on many; inside a table; before and inside a block). It is an induction over the
lines, carried by the steps. A block may hold any number of routines; `PairsExact` leaves
out the pairs in `shared`, as `OneEdgePerRoutine` does, and `MentioningIs` says that for
the rest a block counts as its routines do. Only `ForeignKeysAreFaithful` has a hypothesis,
`OneLineKeys <= 1`; `dump_short` shows that it cannot do without.

### Edge lists, corridors and shortest paths

`GraphFilesProofs` proves four properties of `graph_files` for every graph and every
division of it into clusters: `FormatsAgree`, `CorridorShortest`, `CorridorConnects` and
`PathsCounted`.
`FilesInv` is the inductive invariant: the edges are ordered pairs of nodes, `graph` is the
weighted graph that they mean, and a division is one that `Partition::new` can return.

* **Folds.** The searches are folds over a list of their turns, which no prover here can
  unfold. The library defines a fold by a recursive function, so the values in between
  exist (`TableExists`) and form a sequence that starts at the base, takes one step per
  item and ends at the result (`FoldStates`). From there on it is induction over numbers.
* **Edge lists.** Sorting unordered pairs gives each its place (`PairOrderIs`), a pair is
  listed exactly when some line, in either direction, joins the two (`ListedGraph`), and
  when every node has an edge, the ids on the lines are the nodes (`EndsCover`).
* **Walks.** `Near` is what a walk of at most k steps reaches, `At` what none shorter does.
  The reference the properties compare with, `ShortestFrom`, collects the walks as short
  as their ends are apart, and all of them (`ShortestFromIs`).
* **The searches.** All three keep one invariant, `Wave` between two turns and `Crest` within
  one: the queue is ordered by distance and spans at most two distances; what was seen and
  is no longer queued has had its neighbours seen; distances are right. None of these
  survives a turn without the others. From them, everything nearer than the node in turn
  has been seen (`NearerSeen`), so a node seen for the first time is one step farther than
  the one that shows it; and as many turns as there are nodes empty the queue
  (`WaveFull`), which is why a search that finds nothing says that there is nothing.
  `cluster_corridor` moreover leads back along predecessors, each one step nearer
  (`TraceIs`): `CorridorIs`. `bfs_distance_filtered`: `DistanceIs`.
* **Corridors.** Clusters are numbered from 0 and nodes of the aggregated graph from 1, and
  distance is kept by renaming (`AtMapped`). Two adjacent clusters have an edge across
  (`CrossingEdge`), so if each cluster is connected, a corridor is, end to end
  (`CorridorReaches`); and a distance within some nodes is that of the graph exactly when
  a shortest walk stays within them (`InsideShortest`).
* **Counting.** The first phase of `approximate_betweenness` adds what `Counted` says: at
  any time sigma of a node is the number of the shortest walks that come to it from a node
  already expanded (`Tally`), and its predecessors are those nodes. Expanding one more adds
  as many walks as lead to it (`WaysOn`), and that number is final by then, since whatever
  leads to it was expanded before (`BeforesExpanded`); this is where the order of the queue
  matters. At the end every node that can be reached is expanded, so no walk is left out
  (`WaysAll`): `SearchIs`. The nodes were taken after their predecessors (`Heralded`),
  which the second phase relies on when it goes back.

### Only model-checked

* Termination (`Terminates` of `SimilarQuery` and of `Leiden`): liveness is beyond this prover.
* `PassesSettle`: that a local moving ends before its cap of 64 passes holds for the ten
  graphs; nothing in the code ensures it.
* `GmlFaithful`, `GmlRepeatedIds`, `GmlWholeOrNone`: GML's lexer and parser are a recursive
  operator, and no module that reaches one can hold a theorem.
* `BetweennessExact`: scores are whole multiples of 1/144, which is exact only where every
  count of shortest paths divides 144, as on the graphs of the run. On every graph the
  property is about fractions. The first phase is proved (`PathsCounted`); the second would
  need the accumulation as an exchange of sums over paths.
* `NmiExact`: the logarithms are kept as multiples of ln 2, ln 3 and ln 5, which is exact up
  to six nodes; that these are independent is what makes the comparison with 1 and 0 right.

## What the models show beside the findings

* Where Leiden ends by itself, its clusters are the regions: with the weight inside
  the clusters kept in the super-graph, no two of them are worth joining
  (`RegionsAreClusters`, proved of every graph and every order). Layer 3 then adds nothing
  to layer 1; only a run that stops at its cap of levels may have coarser regions.
* A corridor is a shortest list of clusters whatever the clusters are; that it connects its
  ends needs connected clusters. `corridor.rs:23` has it that corridors always connect,
  for the reason that `leiden_connected` refutes.

## Simplifications to know of

* After a failed fsync Fjall poisons the keyspace and later writes fail. The model
  lets them go on: it has more behaviours than the code.
* `StoreFails` leaves everything as it was: a batch is applied whole or not at all.
  This atomicity, and that a restart finds a prefix of the batches, is Fjall's
  contract and is assumed.
* In `SwIndex` and `SimilarQuery` the values are decoded. `StoredImage` has their
  bytes, and checks that reading them gives the values back. A query meets no store
  error and no damaged value: either ends it with `Err`.
* Weights written as f32 are four bytes that stand for themselves.
* The tolerance of 1e-12 in the clustering and the clamp of `nmi` to 0..1 absorb
  rounding; the models compare exactly.
* `StoredImage` reads lists whose length fits a usize of 64 bits; on 32 bits the
  product `4 + len * 16` (`index.rs:1571`) could wrap.
* `cmd_build` wraps a source to pass its labels on and changes nothing else.
  `cmd_same_cluster` has a message for a cluster of one node without members, which
  no index can have.

## Not modelled

`from_degree_threshold` is not used by the index. Minting and printing ids, argument
parsing and the wording of what the command line and the errors say, and logging, keep
no state. The string tests of the SQL scanner are abstracted to what they find, and a
line of an edge list to what it parses as. A label that is the empty text, which Fjall
may refuse as a key, is not among the labels.

## What is left

Every part of the system in the table at the top is modelled and checked. Proved: the
index, the pipeline that feeds it, its bytes, its queries, what the command line lists,
clustering, dumps, edge lists, corridors and the counting of shortest paths. In the order
in which they would say most:

1. `SimilarQuery` over the images of `SwIndex` itself: `ImagesAssumption` and
   `EncodableAssumption` discharged by `AlwaysGood`.
2. Betweenness on every graph: the second phase of Brandes, in fractions, on what
   `SearchIs` says of the first.
3. Corridors over the partitions that `Leiden` returns.
