\* Everything that happens to a block between the mark and the grid.
CONSTANTS
  Regions = {r}
  Slabs = 2
  Readers = 2
  Hosts <- AllHosts
  MaxSeq = 2
  MaxLoads = 1
  MaxBakes = 1
  MaxDrops = 1
  None = None
  Unknown = Unknown

SPECIFICATION FairSpec
CHECK_DEADLOCK FALSE

INVARIANTS
  StampsAreTruthful
PROPERTIES
  GridNeverRegresses
  EditsReachTheGrid
