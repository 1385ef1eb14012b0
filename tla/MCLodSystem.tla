----------------------------- MODULE MCLodSystem -----------------------------
(* A root with two children, a cove in the west with a shell, and a camera *)
(* that is far, near, turned away, behind a hill, or gone.                 *)
EXTENDS LodSystem

MCChunks == <<"root", "west", "east">>
MCShells == <<"cove">>
MCParent == [c \in {"root", "west", "east"} |-> IF c = "root" THEN None ELSE "root"]
MCCovers == [c \in {"root", "west", "east", "cove"} |->
               IF c = "root" THEN {"w", "e"} ELSE IF c = "east" THEN {"e"} ELSE {"w"}]
MCNeed == [c \in {"root", "west", "east", "cove"} |-> IF c = "root" THEN 3 ELSE 1]
MCGround == [l \in {"w", "e"} |-> [solid |-> TRUE, clear |-> l = "w"]]

All == {"root", "west", "east"}
Far == [within |-> All, past |-> All, inside |-> All, finer |-> {}, hidden |-> {}, near |-> {}]
Near == [Far EXCEPT !.finer = {"root"}, !.near = {"cove"}]
Turned == [Near EXCEPT !.inside = {}]
Behind == [Near EXCEPT !.hidden = All]
Gone == [Near EXCEPT !.within = {}, !.near = {}]
MCViews == {Far, Near, Turned, Behind, Gone}
MCStarts == {Far, Near}
Twice == {{"edit"}, {"edit", "move"}, {"edit", "fail"}}
Thrice == {{"paint", "consolidate"}, {"paint", "move"}, {"move", "island"}, {"move", "reload"}}
MCHosts == [may : Twice, events : {2}] \cup [may : Thrice, events : {3}]
=============================================================================
