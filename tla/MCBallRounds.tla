---------------------------- MODULE MCBallRounds ----------------------------
(* Small instances of BallRounds: the balls of two colours.                    *)
EXTENDS BallRounds, TLC

CONSTANTS Red, Green,   \* the balls of either colour
          R, G,         \* the colours
          r1, r2, r3, r4, g1

MCBalls == Red \cup Green
MCColour == [b \in MCBalls |-> IF b \in Red THEN R ELSE G]
MCInput == IF Green = {} THEN <<r1, r2, r3, r4>> ELSE <<r1, r2, g1, r3, r4>>
MCId == [b \in MCBalls \cup {NoBall} |-> b]

=============================================================================
