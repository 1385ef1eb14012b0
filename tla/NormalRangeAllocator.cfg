\* Requests of odd sizes and alignments, and stale handles given back.
CONSTANTS
  Bytes = 11
  Unit = 2
  Sizes <- MCSizes
  Alignments <- MCAlignments
  MaxGeneration = 2

SPECIFICATION Spec
CHECK_DEADLOCK FALSE

INVARIANTS
  EveryByteOnce
  RefusedOnlyWhenFull
PROPERTIES
  HandlesAreFresh
