------------------------------- MODULE Packer -------------------------------
(* The ball packer of Lab3/ex3/packer.c: pack_ball as run by one thread per    *)
(* ball, every semaphore call a step of its own.  The balls of a colour pass   *)
(* an admission gate of N tickets (fullPackingArea), are recorded under the    *)
(* mutex, and the N-th of them closes the exit turnstile and opens the queue   *)
(* gate; each then copies the ids of its box, and the last one to leave hands  *)
(* out N new tickets, closes the queue gate and opens the turnstile.           *)
(*                                                                             *)
(* A slot holds the ball whose id the code stores there, so that two balls     *)
(* with one id stay apart in the model; the code's comparison of ids is made   *)
(* through Id.  other_ids is the set of the balls whose ids were copied out:   *)
(* the header leaves their order open.                                         *)
EXTENDS Semaphores, FiniteSets

CONSTANTS Balls,     \* one thread of the driver per ball
          Colours,   \* R, G, B
          Colour,    \* Colour[b]: the first argument of the call, after colour--
          NoBall,    \* the zero an unused slot of pairingSystem holds
          Id,        \* Id[b]: the second argument of the call
          N          \* packageN

ASSUME BallsAssumption == IsFiniteSet(Balls) /\ NoBall \notin Balls
ASSUME ColourAssumption == Colour \in [Balls -> Colours]
ASSUME SizeAssumption == N \in 1..64   \* MAX_N
ASSUME IdAssumption == DOMAIN Id = Balls \cup {NoBall}

VARIABLES mutex, queue, turnstile, fullPackingArea,   \* sem_t[RGB]
          packingAreaBallCount,                       \* int[RGB]
          pairingSystem,                              \* int[RGB][MAX_N]
          pc,          \* pc[b]: where the thread of b is in pack_ball
          idx,         \* idx[b]: the loop variable i of that thread
          other_ids    \* other_ids[b]: what the call has written for its caller

sems == <<mutex, queue, turnstile, fullPackingArea>>
area == <<packingAreaBallCount, pairingSystem>>
vars == <<sems, area, pc, idx, other_ids>>

(* The labels of pack_ball, in program order.  Those of MutexHeld are reached  *)
(* with mutex[colour] taken; a ball of Inside is counted in the packing area.  *)
MutexHeldIn == {"closeExit", "openQueue", "unlockIn"}
MutexHeldOut == {"reopen", "closeQueue", "openExit", "unlockOut"}
MutexHeld == MutexHeldIn \cup MutexHeldOut
Inside == MutexHeldIn \cup {"queue", "requeue", "read", "leave"}
Matched == {"leave"} \cup MutexHeldOut \cup {"exit", "reexit", "done"}
Labels == {"idle", "admit", "enter"} \cup Inside \cup Matched

At(c, L) == {b \in Balls : Colour[b] = c /\ pc[b] \in L}

Goto(b, from, to) == pc[b] = from /\ pc' = [pc EXCEPT ![b] = to]

Init ==
  /\ mutex = [c \in Colours |-> 1]
  /\ queue = [c \in Colours |-> 0]
  /\ turnstile = [c \in Colours |-> 1]
  /\ fullPackingArea = [c \in Colours |-> N]
  /\ packingAreaBallCount = [c \in Colours |-> 0]
  /\ pairingSystem = [c \in Colours |-> [s \in 0..N-1 |-> NoBall]]
  /\ pc = [b \in Balls |-> "idle"]
  /\ idx = [b \in Balls |-> 0]
  /\ other_ids = [b \in Balls |-> {}]

(* A thread of the driver calls pack_ball.                                     *)
Call(b) ==
  /\ Goto(b, "idle", "admit")
  /\ UNCHANGED <<sems, area, idx, other_ids>>

(* sem_wait(&fullPackingArea[colour])                                          *)
AdmitUngated(b) ==
  /\ Goto(b, "admit", "enter")
  /\ UNCHANGED <<sems, area, idx, other_ids>>

Admit(b) ==
  /\ Goto(b, "admit", "enter")
  /\ sem_wait(fullPackingArea, Colour[b])
  /\ UNCHANGED <<mutex, queue, turnstile, area, idx, other_ids>>

(* sem_wait(&mutex[colour]), record the ball and count it.                     *)
Enter(b) ==
  LET c == Colour[b]
      n == packingAreaBallCount[c]
  IN /\ Goto(b, "enter", IF n + 1 = N THEN "closeExit" ELSE "unlockIn")
     /\ sem_wait(mutex, c)
     /\ pairingSystem' = [pairingSystem EXCEPT ![c][n] = b]
     /\ packingAreaBallCount' = [packingAreaBallCount EXCEPT ![c] = n + 1]
     /\ UNCHANGED <<queue, turnstile, fullPackingArea, idx, other_ids>>

(* The packing area is full: close the exit gate, open the allocating area.    *)
CloseExitForgotten(b) ==
  /\ Goto(b, "closeExit", "openQueue")
  /\ UNCHANGED <<sems, area, idx, other_ids>>

CloseExit(b) ==
  /\ Goto(b, "closeExit", "openQueue")
  /\ sem_wait(turnstile, Colour[b])
  /\ UNCHANGED <<mutex, queue, fullPackingArea, area, idx, other_ids>>

OpenQueue(b) ==
  /\ Goto(b, "openQueue", "unlockIn")
  /\ sem_post(queue, Colour[b])
  /\ UNCHANGED <<mutex, turnstile, fullPackingArea, area, idx, other_ids>>

UnlockIn(b) ==
  /\ Goto(b, "unlockIn", "queue")
  /\ sem_post(mutex, Colour[b])
  /\ UNCHANGED <<queue, turnstile, fullPackingArea, area, idx, other_ids>>

(* sem_wait(&queue[colour]); sem_post(&queue[colour]);                         *)
PassQueueOnce(b) ==
  /\ Goto(b, "queue", "read")
  /\ sem_wait(queue, Colour[b])
  /\ UNCHANGED <<mutex, turnstile, fullPackingArea, area, idx, other_ids>>

PassQueue(b) ==
  /\ Goto(b, "queue", "requeue")
  /\ sem_wait(queue, Colour[b])
  /\ UNCHANGED <<mutex, turnstile, fullPackingArea, area, idx, other_ids>>

RepostQueue(b) ==
  /\ Goto(b, "requeue", "read")
  /\ sem_post(queue, Colour[b])
  /\ UNCHANGED <<mutex, turnstile, fullPackingArea, area, idx, other_ids>>

(* packaging(colour, id, other_ids): one turn of its loop, with no lock held.  *)
Packaging(b) ==
  LET s == pairingSystem[Colour[b]][idx[b]]
      last == idx[b] = N - 1
  IN /\ Goto(b, "read", IF last THEN "leave" ELSE "read")
     /\ idx' = [idx EXCEPT ![b] = IF last THEN 0 ELSE @ + 1]
     /\ other_ids' = IF Id[s] # Id[b]
                     THEN [other_ids EXCEPT ![b] = @ \cup {s}]
                     ELSE other_ids
     /\ UNCHANGED <<sems, area>>

(* sem_wait(&mutex[colour]) and count the ball out.                            *)
LeaveEarlyReopen(b) ==
  LET c == Colour[b]
  IN /\ Goto(b, "leave", IF packingAreaBallCount[c] = N THEN "reopen" ELSE "unlockOut")
     /\ sem_wait(mutex, c)
     /\ packingAreaBallCount' = [packingAreaBallCount EXCEPT ![c] = @ - 1]
     /\ UNCHANGED <<queue, turnstile, fullPackingArea, pairingSystem, idx, other_ids>>

Leave(b) ==
  LET c == Colour[b]
  IN /\ Goto(b, "leave", IF packingAreaBallCount[c] = 1 THEN "reopen" ELSE "unlockOut")
     /\ sem_wait(mutex, c)
     /\ packingAreaBallCount' = [packingAreaBallCount EXCEPT ![c] = @ - 1]
     /\ UNCHANGED <<queue, turnstile, fullPackingArea, pairingSystem, idx, other_ids>>

(* The packing area is empty: one turn of the loop that hands out N tickets,   *)
(* then close the allocating area and open the exit gate.                      *)
Reopen(b) ==
  LET last == idx[b] = N - 1
  IN /\ Goto(b, "reopen", IF last THEN "closeQueue" ELSE "reopen")
     /\ idx' = [idx EXCEPT ![b] = IF last THEN 0 ELSE @ + 1]
     /\ sem_post(fullPackingArea, Colour[b])
     /\ UNCHANGED <<mutex, queue, turnstile, area, other_ids>>

CloseQueue(b) ==
  /\ Goto(b, "closeQueue", "openExit")
  /\ sem_wait(queue, Colour[b])
  /\ UNCHANGED <<mutex, turnstile, fullPackingArea, area, idx, other_ids>>

OpenExit(b) ==
  /\ Goto(b, "openExit", "unlockOut")
  /\ sem_post(turnstile, Colour[b])
  /\ UNCHANGED <<mutex, queue, fullPackingArea, area, idx, other_ids>>

UnlockOut(b) ==
  /\ Goto(b, "unlockOut", "exit")
  /\ sem_post(mutex, Colour[b])
  /\ UNCHANGED <<queue, turnstile, fullPackingArea, area, idx, other_ids>>

(* sem_wait(&turnstile[colour]); sem_post(&turnstile[colour]);                 *)
PassExit(b) ==
  /\ Goto(b, "exit", "reexit")
  /\ sem_wait(turnstile, Colour[b])
  /\ UNCHANGED <<mutex, queue, fullPackingArea, area, idx, other_ids>>

RepostExit(b) ==
  /\ Goto(b, "reexit", "done")
  /\ sem_post(turnstile, Colour[b])
  /\ UNCHANGED <<mutex, queue, fullPackingArea, area, idx, other_ids>>

(* What the thread of b does once it has called.                               *)
pack_ball(b) ==
  \/ Admit(b) \/ Enter(b) \/ CloseExit(b) \/ OpenQueue(b) \/ UnlockIn(b)
  \/ PassQueue(b) \/ RepostQueue(b) \/ Packaging(b) \/ Leave(b)
  \/ Reopen(b) \/ CloseQueue(b) \/ OpenExit(b) \/ UnlockOut(b)
  \/ PassExit(b) \/ RepostExit(b)

Next == \E b \in Balls : Call(b) \/ pack_ball(b)

Spec == Init /\ [][Next]_vars

-----------------------------------------------------------------------------
(* Properties                                                                  *)

(* A colour is between the opening of its queue gate and the closing of it:    *)
(* the unit of queue is there, or in the hands of a ball that will repost it.  *)
Open(c) == queue[c] = 1 \/ At(c, {"requeue"}) # {}

Batch(c) == {pairingSystem[c][s] : s \in 0..N-1}

(* The balls a call has been told it shares a box with, itself included.       *)
Box(b) == {b} \cup other_ids[b]

(* Every variable has its type; in particular the mutex and the two gates are  *)
(* binary semaphores, though sem_post never checks it.                         *)
TypeOK ==
  /\ mutex \in [Colours -> {0, 1}]
  /\ queue \in [Colours -> {0, 1}]
  /\ turnstile \in [Colours -> {0, 1}]
  /\ fullPackingArea \in [Colours -> 0..N]
  /\ packingAreaBallCount \in [Colours -> 0..N]
  /\ pairingSystem \in [Colours -> [0..N-1 -> Balls \cup {NoBall}]]
  /\ pc \in [Balls -> Labels]
  /\ idx \in [Balls -> 0..N-1]
  /\ other_ids \in [Balls -> SUBSET Balls]

(* pack_ball reads pairingSystem without the mutex.  It is right only because  *)
(* no ball of the colour can write a slot while another one is reading.        *)
NoSlotRace ==
  \A b, d \in Balls :
    Colour[b] = Colour[d] /\ pc[b] \in {"requeue", "read"}
      => pc[d] \notin {"enter"} \cup {"closeExit", "openQueue"}

(* A call that has its answer was put with exactly N - 1 other balls of its    *)
(* colour, every ball it was told of is told of it, and no ball is in two      *)
(* boxes: the answers partition the packed balls, across any number of reuses  *)
(* of the packing area.                                                        *)
BoxesPartition ==
  \A b \in Balls : pc[b] \in Matched =>
    /\ Cardinality(Box(b)) = N
    /\ \A d \in Box(b) : Colour[d] = Colour[b]
    /\ \A d \in Balls : pc[d] \in Matched =>
         Box(b) = Box(d) \/ Box(b) \cap Box(d) = {}

(* The two gates are never open together: a ball that passes the queue gate    *)
(* finds the exit shut until its whole box has been counted out, which is what *)
(* makes the barrier reusable.                                                 *)
GatesExclude ==
  \A c \in Colours : Open(c) => turnstile[c] = 0 /\ At(c, {"reexit"}) = {}

(* The inductive invariant, colour by colour.  Open(c) splits a colour's life: *)
(* while its queue gate is shut the area fills, and while it is open the area  *)
(* drains and no ball can come in.                                             *)
MutexInv(c) ==
  /\ mutex[c] \in {0, 1}
  /\ \A b \in At(c, MutexHeld) :
       mutex[c] = 0 /\ \A d \in At(c, MutexHeld) : d = b

QueueInv(c) ==
  /\ queue[c] \in {0, 1}
  /\ \A b \in At(c, {"requeue"}) :
       queue[c] = 0 /\ \A d \in At(c, {"requeue"}) : d = b
  /\ Open(c) => At(c, {"closeExit", "openQueue", "openExit"}) = {}
  /\ ~Open(c) => At(c, {"read", "leave", "reopen", "closeQueue"}) = {}

ExitInv(c) ==
  /\ turnstile[c] \in {0, 1}
  /\ \A b \in At(c, {"reexit"}) :
       turnstile[c] = 0 /\ \A d \in At(c, {"reexit"}) : d = b
  /\ Open(c) \/ At(c, {"openQueue", "openExit"}) # {}
       => turnstile[c] = 0 /\ At(c, {"reexit"}) = {}

CountInv(c) ==
  /\ packingAreaBallCount[c] = Cardinality(At(c, Inside))
  /\ packingAreaBallCount[c] <= N
  /\ At(c, {"closeExit", "openQueue"}) # {} => packingAreaBallCount[c] = N

TicketInv(c) ==
  LET count == packingAreaBallCount[c]
      issued == fullPackingArea[c] + Cardinality(At(c, {"enter"}))
  IN /\ ~Open(c) => issued + count = N
     /\ Open(c) /\ count > 0 => issued = 0 /\ At(c, {"reopen", "closeQueue"}) = {}
     /\ Open(c) /\ count = 0 =>
          /\ At(c, {"reopen", "closeQueue"}) # {}
          /\ \A h \in At(c, {"reopen"}) : issued = idx[h]
          /\ \A h \in At(c, {"closeQueue"}) : issued = N

SlotInv(c) ==
  \A s \in 0..N-1 :
    Open(c) \/ s < packingAreaBallCount[c] => pairingSystem[c][s] \in Balls

IdxInv == \A b \in Balls : pc[b] \notin {"read", "reopen"} => idx[b] = 0

Shape ==
  /\ mutex \in [Colours -> Nat]
  /\ queue \in [Colours -> Nat]
  /\ turnstile \in [Colours -> Nat]
  /\ fullPackingArea \in [Colours -> Nat]
  /\ packingAreaBallCount \in [Colours -> Nat]
  /\ pairingSystem \in [Colours -> [0..N-1 -> Balls \cup {NoBall}]]
  /\ pc \in [Balls -> Labels]
  /\ idx \in [Balls -> 0..N-1]
  /\ other_ids \in [Balls -> SUBSET Balls]

ColourInv(c) ==
  MutexInv(c) /\ QueueInv(c) /\ ExitInv(c) /\ CountInv(c) /\ TicketInv(c) /\ SlotInv(c)

(* The semaphores of a colour, the balls at each point of pack_ball and the    *)
(* balls counted in are always in one of the phases of the two gates.          *)
GateInv == Shape /\ IdxInv /\ \A c \in Colours : ColourInv(c)

(* The answers, colour by colour.  The slots up to the count hold the balls    *)
(* inside while the area fills, and one box, of N balls, while it drains; an   *)
(* answer grows slot by slot to the rest of that box; and the boxes of earlier *)
(* answers keep clear of the balls that have not been answered.                *)
Recorded(c) == {pairingSystem[c][s] : s \in {i \in 0..N-1 : i < packingAreaBallCount[c]}}
Copied(b) == {pairingSystem[Colour[b]][s] : s \in {i \in 0..N-1 : i < idx[b]}}

SlotsHoldBox(c) ==
  /\ ~Open(c) => Recorded(c) = At(c, Inside)
  /\ Open(c) => /\ Cardinality(Batch(c)) = N
                /\ Batch(c) \subseteq At(c, Inside \cup Matched)
                /\ At(c, Inside) \subseteq Batch(c)

Answered(c, b) ==
  /\ b \notin At(c, Matched \cup {"read"}) => other_ids[b] = {}
  /\ pc[b] = "read" => other_ids[b] = Copied(b) \ {b}
  /\ pc[b] \in Matched =>
       /\ Cardinality(Box(b)) = N
       /\ \/ Open(c) /\ Box(b) = Batch(c)
          \/ Box(b) \subseteq At(c, Matched) /\ (Open(c) => Box(b) \cap Batch(c) = {})
       /\ \A d \in At(c, Matched) : Box(b) = Box(d) \/ Box(b) \cap Box(d) = {}

BoxInv(c) == SlotsHoldBox(c) /\ \A b \in Balls : Colour[b] = c => Answered(c, b)

(* The gates, the slots and the answers together, when the ids differ.         *)
PackInv == GateInv /\ \A c \in Colours : BoxInv(c)

(* Whatever happens, a colour ends up with fewer than N unfinished calls, and a *)
(* call that has an answer returns it: the barrier never blocks balls that     *)
(* have their company, nor one that the next box overtakes at the exit gate.   *)
FullBoxesGo ==
  \A c \in Colours :
    <>[](/\ Cardinality(At(c, Labels \ {"idle", "done"})) < N
         /\ \A b \in At(c, Labels \ {"done"}) : other_ids[b] = {})

(* pack_ball implements the packer's promise.  A box is packed when its last   *)
(* ball is counted in, a moment before any of its balls can know.              *)
Packed(c) == At(c, {"closeExit", "openQueue"}) # {} \/ Open(c)

packedBoxes == {Box(b) : b \in {d \in Balls : pc[d] \in Matched}}
                 \cup {Batch(c) : c \in {d \in Colours : Packed(d)}}

Promise == INSTANCE Packing
  WITH waiting <- {b \in Balls : pc[b] # "idle"} \ UNION packedBoxes,
       boxes <- packedBoxes,
       returned <- {b \in Balls : pc[b] = "done"}

ImplementsPacking == Promise!Spec

=============================================================================
