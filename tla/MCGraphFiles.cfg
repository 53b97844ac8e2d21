SPECIFICATION GmlSpec
CONSTANTS
  MaxNodes = 5
  MaxEdges = 5
  LoopsTo = 3
  RepeatsTo = 4
  GmlTo = 3
  MaxI64 = 99
  Words = {"Creator", "graph", "node", "dge", "id", "source", "target", "value", "graphics"}
INVARIANTS
  GmlFaithful
  GmlRepeatedIds
  GmlWholeOrNone
  FormatsAgree
  PathsCounted
  BetweennessExact
  CorridorShortest
  CorridorConnects
  NmiExact
CHECK_DEADLOCK FALSE
