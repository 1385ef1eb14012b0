CONSTANTS
  Regions <- MCRegions
  Cameras <- MCCameras
  Radius = 2
  Keep = 2
  RegionSlots = 3
  LoadsAFrame = 1
  StagedLoads = 2
  Atlas = 5
  Slabs = 2
  Surface <- Hills
  Floor = 1
  Fallback = 2
  ReserveBase = 1
  Headroom = 1
  Repairs = 1
  Shrinks = 1
  JobBudget = 1
  BrickJobs = 2
  Settle = 3
  Hosts <- MCHosts
  MaxMoves = 2
  MaxEvents = 2
  None = None
SPECIFICATION FairSpec
INVARIANTS
  HolesAreKnown
  MapShowsWholeRegions
  PricesCover
  ScatterShowsTheWorld
PROPERTIES
  HolesHeal
