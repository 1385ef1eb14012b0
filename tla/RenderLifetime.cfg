\* A world lives, is reloaded and leaves, with both thread models.
CONSTANTS
  Size = 4
  Radius = 2
  Origin = 0
  Places <- MCPlaces
  Bubble = 2
  Regions <- MCRegions
  Width = 2
  Reach = 1
  Keep = 2
  Ring = 2
  BakesAFrame = 2
  Window = 2
  MaxMoves = 1
  MaxFailures = 1
  Hosts = {"one", "two"}
  MaxReloads = 1
  None = None

SPECIFICATION FairSpec
CHECK_DEADLOCK FALSE
INVARIANTS
  LifetimesNest
  GroundUnderReaders
PROPERTIES
  LeavingEnds
  GroundArrives
