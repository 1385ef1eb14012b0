----------------------------- MODULE WorldEdits -----------------------------
(***************************************************************************)
(* What the edit side of the world promises, with no log, no baking and no *)
(* workers in sight: the field of a brick is the generator's terrain with  *)
(* a set of edits applied in the order they were made.  An edit changes    *)
(* the field of the bricks it reaches, in the regions that take it, and    *)
(* nothing else ever changes a field.                                      *)
(***************************************************************************)
EXTENDS Naturals

CONSTANTS Regions, Bricks, Ops, MaxSeq

VARIABLE field     \* the edits applied to each brick of each region

AbstractInit == field = [r \in Regions |-> [k \in Bricks |-> {}]]

(* The edit numbered s, newer than all before it, is applied to the bricks *)
(* op reaches in the regions T.                                            *)
Apply(op, T, s) ==
  /\ \A r \in Regions, k \in Bricks : \A t \in field[r][k] : t < s
  /\ field' = [r \in Regions |-> [k \in Bricks |->
                 IF r \in T /\ k \in op[r] THEN field[r][k] \cup {s} ELSE field[r][k]]]

AbstractNext ==
  \E op \in Ops, s \in 1..MaxSeq : \E T \in SUBSET DOMAIN op : Apply(op, T, s)

AbstractSpec == AbstractInit /\ [][AbstractNext]_field
=============================================================================
