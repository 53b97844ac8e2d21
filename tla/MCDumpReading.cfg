SPECIFICATION Spec
CONSTANTS
  NoDb = NoDb
  NoName = NoName
  d1 = d1
  d2 = d2
  a = a
  b = b
  Dbs <- MCDbs
  Names <- MCNames
  KeyLists <- MCKeyLists
  Blocks <- MCBlocks
  OneLineKeys = 1
  MaxStatements = 5
INVARIANTS
  InStep
  TablesFaithful
  OneEdgePerForeignKey
  OneEdgePerRoutine
  SourceAccepted
CHECK_DEADLOCK FALSE
