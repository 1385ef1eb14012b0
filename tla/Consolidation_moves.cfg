\* Regions stream in and out, the atlas is reloaded and the worker rebuilt or
\* started again, around a transaction.
CONSTANTS
  Regions <- TwoRegions
  Bricks <- MCBricks
  Ops <- MCMoves
  Junk = Junk
  Policies <- Loose
  MaxRegionOps = 3
  MaxBatch = 1
  MaxSeq = 4
  Slots = {s1, s2}
  Tables <- MCTables
  RSlots <- TwoSlots
  ConsolidateAtOps = 2
  QueueCap = 2
  FirstResidency <- TwoResident
  Events <- Moves
  MaxUpdates = 1
  None = None

SPECIFICATION ConsSpec
SYMMETRY Sym
CHECK_DEADLOCK FALSE

INVARIANTS
  WorkerShowsTheWorld
  RenderShowsTheWorld
