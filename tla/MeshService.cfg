\* Every job and both streams of data, with everything that can go wrong.
CONSTANTS
  MaxTickets = 3
  Asks <- JobsAndData
  Events <- AllEvents
  None = None

SPECIFICATION FairSpec
CHECK_DEADLOCK FALSE

INVARIANTS
  EveryBatchHasItsPlace
  NoJobOnSpoiledBytes
  JobsSeeTheirData
PROPERTIES
  EveryBatchIsAnswered
  SyncEnds
