-------------------------- MODULE MCRenderLifetime --------------------------
(* Two places two sectors apart, a region at each.  At either the camera   *)
(* wants two sectors and keeps a third; nothing that is wanted at one is   *)
(* wanted at the other, and one sector of each is kept at the other.  The  *)
(* cache starts at the first place, the player at either.                  *)
EXTENDS RenderLifetime

MCPlaces == {1, 9}
MCRegions == {-1, 8}
=============================================================================
