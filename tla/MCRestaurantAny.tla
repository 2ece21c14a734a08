---------------------------- MODULE MCRestaurantAny -------------------------
(* Small instances of RestaurantAny with two table types.                         *)
EXTENDS RestaurantAny, TLC

CONSTANTS Small, Large,   \* the groups of either size
          Tables0, Tables1

MCGroups == Small \cup Large
MCSize == [g \in MCGroups |-> IF g \in Small THEN 0 ELSE 1]
MCSymmetry == Permutations(Large)
MCTables == (0 :> Tables0) @@ (1 :> Tables1)

=============================================================================
