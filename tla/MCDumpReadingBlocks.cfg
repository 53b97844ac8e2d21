SPECIFICATION Spec
CONSTANTS
  NoDb = NoDb
  NoName = NoName
  d1 = d1
  d2 = d2
  a = a
  b = b
  Dbs <- MCDbs
  Names <- MCNames
  KeyLists <- MCKeyLists
  Blocks <- MCBlocks
  OneLineKeys = 1
  MaxStatements = 3
INVARIANT EveryRoutineCounts
CHECK_DEADLOCK FALSE
