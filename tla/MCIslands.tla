------------------------------ MODULE MCIslands ------------------------------
EXTENDS Islands
CONSTANTS outcrop, crumb

(* One behaviour in each of these.                                         *)
AllHosts == {{"blast", "merge"}, {"blast", "dig"}, {"blast", "failures"},
             {"merge", "full"}, {"dig", "late picture"}, {"merge", "restart", "no normals"}}
=============================================================================
