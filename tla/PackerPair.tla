----------------------------- MODULE PackerPair -----------------------------
(* The ball packer of Lab3/ex2/packer.c, for boxes of two: the gates of Packer *)
(* with N = 2, the two tickets posted one after the other, and partner() in    *)
(* the place of packaging().  The call returns one id, the last one found that *)
(* differs from its own; other_ids[b] is empty for NULL_ID.                    *)
EXTENDS Semaphores, FiniteSets

CONSTANTS Balls, Colours, Colour, NoBall, Id   \* as in Packer

VARIABLES mutex, queue, turnstile, fullPackingArea,
          packingAreaBallCount, pairingSystem, pc, idx, other_ids

Gates == INSTANCE Packer WITH N <- 2

sems == <<mutex, queue, turnstile, fullPackingArea>>
area == <<packingAreaBallCount, pairingSystem>>
vars == <<sems, area, pc, idx, other_ids>>

Init == Gates!Init

(* partner(colour, id): one turn of its loop.                                  *)
partnerOnce(b) ==
  LET s == pairingSystem[Colour[b]][idx[b]]
  IN /\ Gates!Goto(b, "read", "leave")
     /\ other_ids' = IF Id[s] # Id[b] THEN [other_ids EXCEPT ![b] = {s}]
                                      ELSE other_ids
     /\ UNCHANGED <<sems, area, idx>>

partner(b) ==
  LET s == pairingSystem[Colour[b]][idx[b]]
  IN /\ Gates!Goto(b, "read", IF idx[b] = 1 THEN "leave" ELSE "read")
     /\ idx' = [idx EXCEPT ![b] = 1 - @]
     /\ other_ids' = IF Id[s] # Id[b] THEN [other_ids EXCEPT ![b] = {s}]
                                      ELSE other_ids
     /\ UNCHANGED <<sems, area>>

(* pack_ball as exercise 1 has it: nothing stops a third ball at the door.     *)
pack_ballUngated(b) ==
  \/ Gates!AdmitUngated(b) \/ Gates!Enter(b) \/ Gates!CloseExit(b)
  \/ Gates!OpenQueue(b) \/ Gates!UnlockIn(b) \/ Gates!PassQueue(b)
  \/ Gates!RepostQueue(b) \/ partner(b) \/ Gates!Leave(b) \/ Gates!Reopen(b)
  \/ Gates!CloseQueue(b) \/ Gates!OpenExit(b) \/ Gates!UnlockOut(b)
  \/ Gates!PassExit(b) \/ Gates!RepostExit(b)

pack_ball(b) ==
  \/ Gates!Admit(b) \/ Gates!Enter(b) \/ Gates!CloseExit(b)
  \/ Gates!OpenQueue(b) \/ Gates!UnlockIn(b) \/ Gates!PassQueue(b)
  \/ Gates!RepostQueue(b) \/ partner(b) \/ Gates!Leave(b) \/ Gates!Reopen(b)
  \/ Gates!CloseQueue(b) \/ Gates!OpenExit(b) \/ Gates!UnlockOut(b)
  \/ Gates!PassExit(b) \/ Gates!RepostExit(b)

Next == \E b \in Balls : Gates!Call(b) \/ pack_ball(b)

Spec == Init /\ [][Next]_vars

-----------------------------------------------------------------------------
(* Properties                                                                  *)

(* partner() keeps the last id that differs from the caller's, and the answers *)
(* are mutual all the same: the ball a call is matched with is matched with    *)
(* the caller, across reuses of the two slots.                                 *)
PairsMutual ==
  \A b, d \in Balls :
    /\ pc[b] \in Gates!Matched => Cardinality(other_ids[b]) = 1
    /\ {pc[b], pc[d]} \subseteq Gates!Matched /\ d \in other_ids[b]
         => other_ids[d] = {b}

(* Exercise 2's packer keeps the promise of the packer for boxes of two.       *)
ImplementsPacking == Gates!ImplementsPacking

(* No two balls of a colour are left waiting for each other for ever, and none *)
(* that has its partner: the gates never block a box that can be filled, nor a *)
(* ball on its way out of one.                                                 *)
FullBoxesGo == Gates!FullBoxesGo

=============================================================================
