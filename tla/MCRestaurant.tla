---------------------------- MODULE MCRestaurant ----------------------------
(* Small instances of Restaurant with two table types.                         *)
EXTENDS Restaurant, TLC

CONSTANTS Small, Large,   \* the groups of either size
          Tables0, Tables1

MCGroups == Small \cup Large
MCSize == [g \in MCGroups |-> IF g \in Small THEN 0 ELSE 1]
MCSymmetry == Permutations(Small) \cup Permutations(Large)
MCTables == (0 :> Tables0) @@ (1 :> Tables1)

=============================================================================
