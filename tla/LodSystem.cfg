\* Edits, failures, moves, reloads and islands beside a tree of three chunks and a
\* shell.
CONSTANTS
  Chunks <- MCChunks
  Parent <- MCParent
  Lasting = {"root"}
  Shells <- MCShells
  Leaves = {"w", "e"}
  Covers <- MCCovers
  Need <- MCNeed
  Ground <- MCGround
  Views <- MCViews
  Starts <- MCStarts
  Pages = 8
  Records = 6
  PerTick = 2
  EvictAge = 4
  Lag = 2
  OpCap = 1
  IslandNeed = 1
  Hosts <- MCHosts
  None = None

SPECIFICATION FairSpec
INVARIANTS
  PagesHaveOneOwner
  EditsAreKnown
  CutIsWhole
PROPERTIES
  FarFieldCatchesUp
