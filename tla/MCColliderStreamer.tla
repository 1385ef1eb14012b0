------------------------- MODULE MCColliderStreamer -------------------------
(* Two chunks of ground, one slot, and a player between the ends: at one,  *)
(* where the other chunk is out of range, or at the other, where it is     *)
(* within and has to give way.                                             *)
EXTENDS ColliderStreamer

MCChunks == 0..1
MCViews == {{[at |-> 0, radius |-> 0]}, {[at |-> 1, radius |-> 1]}}
MCGround == [c \in MCChunks |-> "ground"]
=============================================================================
