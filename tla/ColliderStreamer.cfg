\* Everything that can happen to a build while it is under way.
CONSTANTS
  Chunks <- MCChunks
  Slots = {s1}
  Views <- MCViews
  Hysteresis = 0
  Memory = 0
  MaxBuilds = 1
  MaxProbes = 1
  Octants = 1
  Ground <- MCGround
  Events <- AllEvents
  MaxEdits = 2
  MaxFailures = 1
  None = None

SPECIFICATION FairSpec
INVARIANTS
  SpaceMatchesResidency
  VerdictsAreTrue
PROPERTIES
  CollidersOnlyAdvance
  CollidersCatchUp
