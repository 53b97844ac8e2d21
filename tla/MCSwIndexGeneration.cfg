SPECIFICATION Spec
CONSTANTS
  Red = 1
  Blue = 2
  Uuid = {1, 3, 4}
  Label = {1, 2}
  MaxU32 = 3
  MaxJournal = 2
  MaxStale = 2
  Sources <- FewSources
  Pipeline <- FewPipeline
  SeedLists <- FewSeedLists
PROPERTY RebuildRaisesGeneration
