-------------------------- MODULE MCRestaurantShare -------------------------
(* Small instances of RestaurantShare with three table types.                  *)
EXTENDS RestaurantShare, TLC

CONSTANTS Ones, Twos, Threes,   \* the groups of each size
          Tables0, Tables1, Tables2

MCGroups == Ones \cup Twos \cup Threes
MCSize == [g \in MCGroups |-> IF g \in Ones THEN 0 ELSE IF g \in Twos THEN 1 ELSE 2]
MCTables == (0 :> Tables0) @@ (1 :> Tables1) @@ (2 :> Tables2)
MCSymmetry == Permutations(Ones) \cup Permutations(Twos) \cup Permutations(Threes)

=============================================================================
