------------------------------ MODULE MCPacker ------------------------------
(* Small instances of Packer, two colours, with ids that are all different, as *)
(* in the driver's inputs, or all alike, as the header allows.                 *)
EXTENDS Packer, TLC

CONSTANTS Red, Green,   \* the balls of either colour
          R, G          \* the colours

MCBalls == Red \cup Green
MCColour == [b \in MCBalls |-> IF b \in Red THEN R ELSE G]
MCId == [b \in MCBalls \cup {NoBall} |-> b]
MCSameId == [b \in MCBalls \cup {NoBall} |-> b = NoBall]

(* The balls of one colour are interchangeable.                                *)
MCSymmetry == Permutations(Red)

=============================================================================
