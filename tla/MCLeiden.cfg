SPECIFICATION Spec
CONSTANTS
  Draw <- MCDraw
  Graphs <- MCGraphs
  Algorithms = {"louvain", "leiden"}
INVARIANTS
  TotalsExact
  AggregationExact
  RefinementInside
  PassesSettle
  RegionsAreClusters
PROPERTIES
  VisitsImprove
  LevelsImprove
  Terminates
CHECK_DEADLOCK FALSE
