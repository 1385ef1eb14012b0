---------------------- MODULE MCNormalRangeAllocator ----------------------
(* A buffer of five units of two bytes and one byte that is given up.      *)
EXTENDS NormalRangeAllocator

MCSizes == {0, 1, 3, 4, 20}
MCAlignments == {0, 4, 6}
=============================================================================
