SPECIFICATION Spec
CONSTANTS
  Red = 1
  Blue = 2
  Green = 3
  Uuid = {1, 2, 3, 4, 5}
  Label = {1, 2, 3}
  MaxU32 = 5
  Images <- MCImages
  Limits = {0, 1, 2, 3, 9}
  UuidBytes <- MCUuidBytes
  TextBytes <- MCTextBytes
  WeightBytes <- MCWeightBytes
INVARIANTS
  ResultsDistinct
  NearestFirst
  ShortMeansComplete
  AskedByName
  StoreReadsBack
PROPERTY Terminates
CHECK_DEADLOCK FALSE
