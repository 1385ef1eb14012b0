\* Everything that happens to a block between the mark and the grid.
CONSTANTS
  Regions = {r}
  Slabs = 2
  Readers = 2
  Hosts <- CarveOnly
  MaxSeq = 3
  MaxLoads = 1
  MaxBakes = 1
  MaxDrops = 1
  None = None
  Unknown = Unknown

SPECIFICATION Spec
CHECK_DEADLOCK FALSE

INVARIANT
  SearchSeesItsEdit
