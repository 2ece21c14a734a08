------------------------------ MODULE Packing -------------------------------
(* What the ball packer promises its callers (Lab3/ex3/packer.h): a call with  *)
(* a ball blocks until N balls of its colour are there, those N go into one    *)
(* box, and each of the N calls returns with the other N - 1.  How the calls   *)
(* are made to meet is the business of the modules that implement this one.    *)
EXTENDS Naturals, FiniteSets

CONSTANTS Balls,    \* the calls of pack_ball, one thread each
          Colour,   \* Colour[b]: the colour argument of the call
          N         \* balls_per_pack

VARIABLES waiting,  \* the balls whose call has not been matched yet
          boxes,    \* the boxes packed so far, each a set of balls
          returned  \* the balls whose call has returned

vars == <<waiting, boxes, returned>>

Init == waiting = {} /\ boxes = {} /\ returned = {}

Arrive(b) ==
  /\ b \notin waiting \cup UNION boxes
  /\ waiting' = waiting \cup {b}
  /\ UNCHANGED <<boxes, returned>>

Pack(S) ==
  /\ Cardinality(S) = N
  /\ \A a, b \in S : Colour[a] = Colour[b]
  /\ boxes' = boxes \cup {S}
  /\ waiting' = waiting \ S
  /\ UNCHANGED returned

Return(b) ==
  /\ b \in (UNION boxes) \ returned
  /\ returned' = returned \cup {b}
  /\ UNCHANGED <<waiting, boxes>>

Next ==
  \/ \E b \in Balls : Arrive(b) \/ Return(b)
  \/ \E S \in SUBSET waiting : Pack(S)

Spec == Init /\ [][Next]_vars

=============================================================================
