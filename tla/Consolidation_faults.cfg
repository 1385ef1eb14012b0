\* Every fault of a transaction at every step of it, regions resident.
CONSTANTS
  Regions <- ThreeRegions
  Bricks <- MCBricks
  Ops <- MCOps
  Junk = Junk
  Policies <- Atomic
  MaxRegionOps = 3
  MaxBatch = 2
  MaxSeq = 4
  Slots = {s1, s2}
  Tables <- MCTables
  RSlots <- ThreeSlots
  ConsolidateAtOps = 2
  QueueCap = 2
  FirstResidency <- ThreeResident
  Events <- Faults
  MaxUpdates = 1
  None = None

SPECIFICATION FairConsSpec
CHECK_DEADLOCK FALSE

INVARIANTS
  AtomicWhole
  OwnedSlots
PROPERTIES
  NothingForgotten
  ImplementsWorldEdits
  TransactionEnds
  WaitingIsBaked
