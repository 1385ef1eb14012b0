--------------------------- MODULE MCWorldStreamer ---------------------------
(* Four regions in a row with a camera at either of two places, and more   *)
(* surface than the atlas holds.                                           *)
EXTENDS WorldStreamer

MCRegions == 0..3
MCCameras == {0, 2}
Hills == [r \in MCRegions |-> IF r = 2 THEN {2} ELSE 1..2]
MCHosts == {{"move", "aborted frame"}, {"edit"}, {"edit", "refused read"}, {"regen", "gate"}}
=============================================================================
