--------------------------- MODULE MCPackerOneShot --------------------------
(* Small instances of PackerOneShot: red and blue balls, the colours 0 and 2,  *)
(* whose slots are the first and the last of the array.                        *)
EXTENDS PackerOneShot, TLC

CONSTANTS Red, Blue   \* the balls of either colour

MCBalls == Red \cup Blue
MCColour == [b \in MCBalls |-> IF b \in Red THEN 0 ELSE 2]
MCId == [b \in MCBalls \cup {NoBall} |-> b]

=============================================================================
