CONSTANTS
  outcrop = outcrop
  crumb = crumb
  Pieces = {outcrop, crumb}
  Sheets = {}
  Dense = {}
  Ragged = {}
  Debris = {crumb}
  Volumes = 2
  Atlas = 1
  MaxBodies = 2
  PerFrame = 2
  MaxFailures = 2
  Cooldown = 1
  Hosts <- AllHosts
  MaxEdits = 2
  MaxQueued = 1
  None = None

SPECIFICATION FairSpec
CHECK_DEADLOCK FALSE

INVARIANTS
  SlotsAreAccounted
  VolumesKeepTheirBytes
PROPERTIES
  CarveTakesWhatItCopied
  LooseBecomesBody
