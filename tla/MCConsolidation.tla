-------------------------- MODULE MCConsolidation --------------------------
(* Regions of two bricks: edits of one brick, of a whole region and across *)
(* the borders of the regions.                                             *)
EXTENDS Consolidation, TLC

MCBricks == {"a", "b"}
MCTables == 1..2
Atomic == {TRUE}
Loose == {FALSE}

(* More regions than the queue holds, so that an edit finds it full.       *)
ThreeRegions == 1..3
MCOps == {1 :> {"a"}, 1 :> {"b"}, (1 :> {"a"}) @@ (2 :> {"a"}) @@ (3 :> {"a"})}
ThreeSlots == {"x", "y", "z"}
ThreeResident == (1 :> "x") @@ (2 :> "y") @@ (3 :> "z")
Faults == {"bake fails", "upload fails", "publish fails", "restore fails", "teardown"}

(* Fewer edits reach a second bake over the bytes of the first.            *)
TwoRegions == 1..2
MCMoves == {1 :> {"a"}, (1 :> {"b"}) @@ (2 :> {"a"})}
TwoSlots == {"x", "y"}
TwoResident == (1 :> "x") @@ (2 :> "y")
Moves == {"stream", "reload", "teardown", "bake fails", "upload fails", "publish fails",
          "restore fails", "rebuild fails"}

Sym == Permutations(Slots)
=============================================================================
