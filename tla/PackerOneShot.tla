---------------------------- MODULE PackerOneShot ---------------------------
(* The ball packer of Lab3/ex1/packer.c: the gates of PackerPair without the   *)
(* admission tickets.  Nothing keeps a third ball of a colour out while two    *)
(* are being packed, so that pairingSystem[colour][2] may be written: the next *)
(* colour's first slot, as C lays out int[RGB][2].  A write past the last      *)
(* colour hits a neighbouring global the model does not follow.                *)
EXTENDS Semaphores, FiniteSets

CONSTANTS Balls, Colour, NoBall, Id,   \* as in Packer
          Crowd     \* the calls for one colour the input has under way at once

RGB == 3

VARIABLES mutex, queue, turnstile,
          packingAreaBallCount,
          pairingSystem,   \* the RGB * 2 cells, flat
          pc, idx, other_ids

Gates == INSTANCE Packer
  WITH N <- 2, Colours <- 0..RGB-1, fullPackingArea <- 0

vars == <<mutex, queue, turnstile, packingAreaBallCount, pairingSystem, pc,
          idx, other_ids>>

Init ==
  /\ mutex = [c \in 0..RGB-1 |-> 1]
  /\ queue = [c \in 0..RGB-1 |-> 0]
  /\ turnstile = [c \in 0..RGB-1 |-> 1]
  /\ packingAreaBallCount = [c \in 0..RGB-1 |-> 0]
  /\ pairingSystem = [s \in 0..2*RGB-1 |-> NoBall]
  /\ pc = [b \in Balls |-> "idle"]
  /\ idx = [b \in Balls |-> 0]
  /\ other_ids = [b \in Balls |-> {}]

(* The driver calls pack_ball: not more than Crowd calls for a colour at once. *)
Call(b) ==
  /\ Cardinality(Gates!At(Colour[b], Gates!Labels \ {"idle", "done"})) < Crowd
  /\ Gates!Goto(b, "idle", "enter")
  /\ UNCHANGED <<mutex, queue, turnstile, packingAreaBallCount, pairingSystem,
                 idx, other_ids>>

(* sem_wait(&mutex[colour]), record the ball and count it.                     *)
Enter(b) ==
  LET c == Colour[b]
      n == packingAreaBallCount[c]
  IN /\ Gates!Goto(b, "enter", IF n + 1 = 2 THEN "closeExit" ELSE "unlockIn")
     /\ sem_wait(mutex, c)
     /\ pairingSystem' = [pairingSystem EXCEPT ![2 * c + n] = b]
     /\ packingAreaBallCount' = [packingAreaBallCount EXCEPT ![c] = n + 1]
     /\ UNCHANGED <<queue, turnstile, idx, other_ids>>

(* partner(colour, id): one turn of its loop.                                  *)
partner(b) ==
  LET s == pairingSystem[2 * Colour[b] + idx[b]]
  IN /\ Gates!Goto(b, "read", IF idx[b] = 1 THEN "leave" ELSE "read")
     /\ idx' = [idx EXCEPT ![b] = 1 - @]
     /\ other_ids' = IF Id[s] # Id[b] THEN [other_ids EXCEPT ![b] = {s}]
                                      ELSE other_ids
     /\ UNCHANGED <<mutex, queue, turnstile, packingAreaBallCount, pairingSystem>>

(* sem_wait(&mutex[colour]) and count the ball out.                            *)
Leave(b) ==
  LET c == Colour[b]
  IN /\ Gates!Goto(b, "leave",
                   IF packingAreaBallCount[c] = 1 THEN "closeQueue" ELSE "unlockOut")
     /\ sem_wait(mutex, c)
     /\ packingAreaBallCount' = [packingAreaBallCount EXCEPT ![c] = @ - 1]
     /\ UNCHANGED <<queue, turnstile, pairingSystem, idx, other_ids>>

pack_ball(b) ==
  \/ Enter(b) \/ Gates!CloseExit(b) \/ Gates!OpenQueue(b) \/ Gates!UnlockIn(b)
  \/ Gates!PassQueue(b) \/ Gates!RepostQueue(b) \/ partner(b)
  \/ Leave(b) \/ Gates!CloseQueue(b) \/ Gates!OpenExit(b) \/ Gates!UnlockOut(b)
  \/ Gates!PassExit(b) \/ Gates!RepostExit(b)

Next == \E b \in Balls : Call(b) \/ pack_ball(b)

Spec == Init /\ [][Next]_vars

-----------------------------------------------------------------------------
(* Properties                                                                  *)

(* Lab3/ex1/packer.h: the call returns the id of the other ball of its colour. *)
(* A matched ball has a partner of its own colour that is matched with it and  *)
(* with nobody else.  The code has it as long as no third ball comes.          *)
PairsMutual ==
  \A b, d \in Balls :
    /\ pc[b] \in Gates!Matched =>
         Cardinality(other_ids[b]) = 1 /\ \A p \in other_ids[b] : Colour[p] = Colour[b]
    /\ {pc[b], pc[d]} \subseteq Gates!Matched /\ d \in other_ids[b]
         => other_ids[d] = {b}

=============================================================================
