SPECIFICATION Spec
CONSTANTS
  Red = 1
  Blue = 2
  Uuid = {1, 2, 3, 4, 5}
  Label = {1, 2}
  MaxU32 = 3
  MaxJournal = 3
  MaxStale = 2
  Sources <- MCSources
  Pipeline <- MCPipeline
  SeedLists <- MCSeedLists
INVARIANTS
  TypeOK
  MembershipAgrees
  MembersSorted
  CountersAgree
  RegionPerCluster
  HubListsClosed
  ClusterIdsDense
  LabelsResolve
  ClusterListAddsUp
  TablesFindThemselves
PROPERTY KeepsPromise DriftFollowsInserts
