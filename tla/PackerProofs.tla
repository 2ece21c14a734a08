---------------------------- MODULE PackerProofs ----------------------------
(* Proofs about Packer, for any number of balls and colours and any size of    *)
(* box: its gates, which keep a thread off a slot that another one writes, and *)
(* its boxes.                                                                  *)
EXTENDS Packer, FiniteSetTheorems, TLAPS

(* What a thread that moves from one label to another does to the set of balls *)
(* of a colour at the labels L.                                                *)
LEMMA MoveAt ==
  ASSUME NEW b \in Balls, NEW from, NEW to, NEW L,
         pc \in [Balls -> Labels], Goto(b, from, to)
  PROVE  /\ \A c : Colour[b] # c => At(c, L)' = At(c, L)
         /\ (from \in L <=> to \in L) => At(Colour[b], L)' = At(Colour[b], L)
         /\ from \notin L /\ to \in L => /\ At(Colour[b], L)' = At(Colour[b], L) \cup {b}
                                         /\ b \notin At(Colour[b], L)
         /\ from \in L /\ to \notin L => /\ At(Colour[b], L)' = At(Colour[b], L) \ {b}
                                         /\ b \in At(Colour[b], L)
  BY DEF Goto, At

(* The balls of a colour at some labels are finitely many.                     *)
LEMMA AtFinite ==
  ASSUME NEW c, NEW L
  PROVE  IsFiniteSet(At(c, L)) /\ Cardinality(At(c, L)) \in Nat
<1>1. At(c, L) \subseteq Balls  BY DEF At
<1> QED BY <1>1, FS_Subset, FS_CardinalityType, BallsAssumption

(* ... and to how many they are.                                               *)
LEMMA MoveCard ==
  ASSUME NEW b \in Balls, NEW from, NEW to, NEW L,
         pc \in [Balls -> Labels], Goto(b, from, to)
  PROVE  LET k == Cardinality(At(Colour[b], L))
         IN /\ k \in Nat
            /\ (from \in L <=> to \in L) => Cardinality(At(Colour[b], L)') = k
            /\ from \notin L /\ to \in L => Cardinality(At(Colour[b], L)') = k + 1
            /\ from \in L /\ to \notin L => Cardinality(At(Colour[b], L)') = k - 1 /\ k > 0
<1> DEFINE S == At(Colour[b], L)
           T == At(Colour[b], L)'
<1>1. IsFiniteSet(S) /\ Cardinality(S) \in Nat
  BY AtFinite
<1>2. (from \in L <=> to \in L) => T = S
  BY MoveAt
<1>3. from \notin L /\ to \in L => T = S \cup {b} /\ b \notin S
  BY MoveAt
<1>4. from \in L /\ to \notin L => T = S \ {b} /\ b \in S
  BY MoveAt
<1> HIDE DEF S, T
<1>5. b \notin S => Cardinality(S \cup {b}) = Cardinality(S) + 1
  BY <1>1, FS_AddElement
<1>6. b \in S => Cardinality(S \ {b}) = Cardinality(S) - 1
  BY <1>1, FS_RemoveElement
<1>7. b \in S => Cardinality(S) > 0
  BY <1>1, FS_EmptySet
<1>8. /\ Cardinality(S) \in Nat
      /\ (from \in L <=> to \in L) => Cardinality(T) = Cardinality(S)
      /\ from \notin L /\ to \in L => Cardinality(T) = Cardinality(S) + 1
      /\ from \in L /\ to \notin L => Cardinality(T) = Cardinality(S) - 1 /\ Cardinality(S) > 0
  BY <1>1, <1>2, <1>3, <1>4, <1>5, <1>6, <1>7
<1> QED BY <1>8 DEF S, T

(* A thread that stays within L, or out of it, leaves their number alone.      *)
LEMMA MoveKeeps ==
  ASSUME NEW b \in Balls, NEW from, NEW to, NEW L,
         pc \in [Balls -> Labels], Goto(b, from, to), from \in L <=> to \in L
  PROVE  /\ Cardinality(At(Colour[b], L)) \in Nat
         /\ Cardinality(At(Colour[b], L)') = Cardinality(At(Colour[b], L))
  BY MoveCard

(* A step of b touches nothing that belongs to another colour or thread.       *)
Frame(b) ==
  /\ \A c \in Colours \ {Colour[b]} :
       /\ mutex'[c] = mutex[c] /\ queue'[c] = queue[c] /\ turnstile'[c] = turnstile[c]
       /\ fullPackingArea'[c] = fullPackingArea[c]
       /\ packingAreaBallCount'[c] = packingAreaBallCount[c]
       /\ pairingSystem'[c] = pairingSystem[c]
  /\ \A d \in Balls \ {b} : idx'[d] = idx[d]
  /\ \E from, to : Goto(b, from, to)

(* A thread that touches nothing of a colour keeps the invariant of that colour. *)
LEMMA OtherColours ==
  ASSUME NEW b \in Balls, NEW c \in Colours \ {Colour[b]},
         pc \in [Balls -> Labels], Frame(b), ColourInv(c)
  PROVE  ColourInv(c)'
<1>1. \A L : At(c, L)' = At(c, L)
  BY MoveAt DEF Frame
<1>2. \A d : d \in At(c, {"reopen"}) => d \in Balls \ {b}
  BY DEF At
<1>3. (Open(c)' <=> Open(c))
  BY <1>1 DEF Open, Frame
<1>4. MutexInv(c)'
  BY <1>1 DEF Frame, ColourInv, MutexInv
<1>5. QueueInv(c)'
  BY <1>1, <1>3 DEF Frame, ColourInv, QueueInv
<1>6. ExitInv(c)'
  BY <1>1, <1>3 DEF Frame, ColourInv, ExitInv
<1>7. CountInv(c)'
  BY <1>1 DEF Frame, ColourInv, CountInv
<1>8. TicketInv(c)'
  BY <1>1, <1>2, <1>3 DEF Frame, ColourInv, TicketInv
<1>9. SlotInv(c)'
  BY <1>3 DEF Frame, ColourInv, SlotInv
<1> QED BY <1>4, <1>5, <1>6, <1>7, <1>8, <1>9 DEF ColourInv

(* A step of pack_ball is a step of the thread of one ball, from one label.    *)
LEMMA Steps ==
  ASSUME NEW b \in Balls, Shape, Call(b) \/ pack_ball(b)
  PROVE  Frame(b)
<1> USE DEF Shape, Goto, Frame, sem_wait, sem_post, sems, area
<1>0. Colour[b] \in Colours  BY ColourAssumption
<1>1. CASE Call(b)  BY <1>0, <1>1 DEF Call
<1>2. CASE Admit(b)  BY <1>0, <1>2 DEF Admit
<1>3. CASE Enter(b)  BY <1>0, <1>3 DEF Enter
<1>4. CASE CloseExit(b)  BY <1>0, <1>4 DEF CloseExit
<1>5. CASE OpenQueue(b)  BY <1>0, <1>5 DEF OpenQueue
<1>6. CASE UnlockIn(b)  BY <1>0, <1>6 DEF UnlockIn
<1>7. CASE PassQueue(b)  BY <1>0, <1>7 DEF PassQueue
<1>8. CASE RepostQueue(b)  BY <1>0, <1>8 DEF RepostQueue
<1>9. CASE Packaging(b)  BY <1>0, <1>9 DEF Packaging
<1>10. CASE Leave(b)  BY <1>0, <1>10 DEF Leave
<1>11. CASE Reopen(b)  BY <1>0, <1>11 DEF Reopen
<1>12. CASE CloseQueue(b)  BY <1>0, <1>12 DEF CloseQueue
<1>13. CASE OpenExit(b)  BY <1>0, <1>13 DEF OpenExit
<1>14. CASE UnlockOut(b)  BY <1>0, <1>14 DEF UnlockOut
<1>15. CASE PassExit(b)  BY <1>0, <1>15 DEF PassExit
<1>16. CASE RepostExit(b)  BY <1>0, <1>16 DEF RepostExit
<1> QED
  BY <1>1, <1>2, <1>3, <1>4, <1>5, <1>6, <1>7, <1>8, <1>9, <1>10, <1>11, <1>12,
     <1>13, <1>14, <1>15, <1>16 DEF pack_ball

(* A call changes nothing the invariant of its colour speaks of.               *)
LEMMA CallInv ==
  ASSUME NEW b \in Balls, GateInv, Call(b)
  PROVE  ColourInv(Colour[b])'
<1> DEFINE c == Colour[b]
           inside == Cardinality(At(c, Inside))
           entering == Cardinality(At(c, {"enter"}))
<1>1. c \in Colours /\ ColourInv(c) /\ Shape /\ IdxInv
  BY ColourAssumption DEF GateInv
<1>2. Goto(b, "idle", "admit")
  BY DEF Call
<1>3. /\ inside \in Nat /\ inside' = inside
      /\ entering \in Nat /\ entering' = entering
  <2>1. pc \in [Balls -> Labels]  BY <1>1 DEF Shape
  <2>2. "idle" \notin Inside /\ "admit" \notin Inside
    BY DEF Inside, MutexHeldIn
  <2>3. "idle" \notin {"enter"} /\ "admit" \notin {"enter"}
    OBVIOUS
  <2>4. inside \in Nat /\ inside' = inside
    BY <1>2, <2>1, <2>2, MoveKeeps
  <2>5. entering \in Nat /\ entering' = entering
    BY <1>2, <2>1, <2>3, MoveKeeps
  <2> QED BY <2>4, <2>5
<1> USE <1>1 DEF Call, Goto, sem_wait, sem_post, sems, area, Shape, At
<1>4. MutexInv(c)'
  BY DEF ColourInv, MutexInv, MutexHeld, MutexHeldIn, MutexHeldOut
<1>5. QueueInv(c)'
  BY DEF ColourInv, QueueInv, TicketInv, CountInv, Open
<1>6. ExitInv(c)'
  BY DEF ColourInv, ExitInv, QueueInv, Open
<1>7. CountInv(c)'
  BY <1>3 DEF ColourInv, CountInv
<1>8. TicketInv(c)'
  BY <1>3 DEF ColourInv, TicketInv, CountInv, Open
<1>9. SlotInv(c)'
  BY DEF ColourInv, SlotInv, Open
<1> QED BY <1>4, <1>5, <1>6, <1>7, <1>8, <1>9 DEF ColourInv

(* Taking a ticket: a ticket becomes a ball at the door.                       *)
LEMMA AdmitInv ==
  ASSUME NEW b \in Balls, GateInv, Admit(b)
  PROVE  ColourInv(Colour[b])'
<1> DEFINE c == Colour[b]
           inside == Cardinality(At(c, Inside))
           entering == Cardinality(At(c, {"enter"}))
<1>1. c \in Colours /\ ColourInv(c) /\ Shape /\ IdxInv
  BY ColourAssumption DEF GateInv
<1>2. Goto(b, "admit", "enter")
  BY DEF Admit
<1>3. /\ inside \in Nat /\ inside' = inside
      /\ entering \in Nat /\ entering' = entering + 1
  <2>1. pc \in [Balls -> Labels]  BY <1>1 DEF Shape
  <2>2. "admit" \notin Inside /\ "enter" \notin Inside
    BY DEF Inside, MutexHeldIn
  <2>3. "admit" \notin {"enter"} /\ "enter" \in {"enter"}
    OBVIOUS
  <2>4. inside \in Nat /\ inside' = inside
    BY <1>2, <2>1, <2>2, MoveKeeps
  <2>5. entering \in Nat /\ entering' = entering + 1
    BY <1>2, <2>1, <2>3, MoveCard
  <2> QED BY <2>4, <2>5
<1> USE <1>1 DEF Admit, Goto, sem_wait, sem_post, sems, area, Shape, At
<1>4. Open(c)' <=> Open(c)
  BY DEF Open
<1>5. MutexInv(c)'
  BY DEF ColourInv, MutexInv, MutexHeld, MutexHeldIn, MutexHeldOut
<1>6. QueueInv(c)'
  BY DEF ColourInv, QueueInv, TicketInv, CountInv, Open
<1>7. ExitInv(c)'
  BY DEF ColourInv, ExitInv, QueueInv, Open
<1>8. CountInv(c)'
  BY <1>3 DEF ColourInv, CountInv
<1>9. TicketInv(c)'
  <2>1. /\ At(c, {"reopen"})' = At(c, {"reopen"})
        /\ At(c, {"closeQueue"})' = At(c, {"closeQueue"})
        /\ At(c, {"reopen", "closeQueue"})' = At(c, {"reopen", "closeQueue"})
    OBVIOUS
  <2>2. /\ fullPackingArea[c] > 0 /\ fullPackingArea'[c] = fullPackingArea[c] - 1
        /\ packingAreaBallCount' = packingAreaBallCount /\ idx' = idx
    OBVIOUS
  <2>3. fullPackingArea'[c] + entering' = fullPackingArea[c] + entering
    BY <1>3, <2>2
  <2> HIDE DEF At, Goto, Admit
  <2> QED BY <1>4, <2>1, <2>2, <2>3 DEF ColourInv, TicketInv
<1>10. SlotInv(c)'
  BY DEF ColourInv, SlotInv, Open
<1> QED BY <1>5, <1>6, <1>7, <1>8, <1>9, <1>10 DEF ColourInv

(* Coming in: a ball at the door becomes one inside, in the slot it counted.   *)
LEMMA EnterInv ==
  ASSUME NEW b \in Balls, GateInv, Enter(b)
  PROVE  ColourInv(Colour[b])'
<1> DEFINE c == Colour[b]
           inside == Cardinality(At(c, Inside))
           entering == Cardinality(At(c, {"enter"}))
<1>1. c \in Colours /\ ColourInv(c) /\ Shape /\ IdxInv
  BY ColourAssumption DEF GateInv
<1>2. PICK to \in {"closeExit", "unlockIn"} : Goto(b, "enter", to)
  BY DEF Enter
<1>3. /\ inside \in Nat /\ inside' = inside + 1
      /\ entering \in Nat /\ entering' = entering - 1 /\ entering > 0
  <2>1. pc \in [Balls -> Labels]  BY <1>1 DEF Shape
  <2>2. "enter" \notin Inside /\ to \in Inside
    BY DEF Inside, MutexHeldIn
  <2>3. "enter" \in {"enter"} /\ to \notin {"enter"}
    OBVIOUS
  <2>4. inside \in Nat /\ inside' = inside + 1
    BY <1>2, <2>1, <2>2, MoveCard
  <2>5. entering \in Nat /\ entering' = entering - 1 /\ entering > 0
    BY <1>2, <2>1, <2>3, MoveCard
  <2> QED BY <2>4, <2>5
<1> USE <1>1 DEF Enter, Goto, sem_wait, sem_post, sems, area, Shape, At
<1>4. At(c, MutexHeld) = {}
  BY DEF ColourInv, MutexInv
<1>5. ~Open(c)
  BY <1>3, <1>4 DEF ColourInv, TicketInv, CountInv, MutexHeld, MutexHeldIn, MutexHeldOut
<1>6. packingAreaBallCount[c] \in 0..N-1 /\ ~Open(c)'
  BY <1>3, <1>5 DEF ColourInv, TicketInv, Open
<1>7. MutexInv(c)'
  BY DEF ColourInv, MutexInv, MutexHeld, MutexHeldIn, MutexHeldOut
<1>8. QueueInv(c)'
  BY <1>4, <1>5, <1>6 DEF ColourInv, QueueInv
<1>9. ExitInv(c)'
  BY DEF ColourInv, ExitInv, QueueInv, Open
<1>10. CountInv(c)'
  <2>1. packingAreaBallCount'[c] = packingAreaBallCount[c] + 1
    OBVIOUS
  <2>2. At(c, {"closeExit", "openQueue"})' # {} => packingAreaBallCount[c] + 1 = N
    BY <1>4 DEF MutexHeld, MutexHeldIn
  <2>3. packingAreaBallCount[c] = inside
    BY DEF ColourInv, CountInv
  <2> HIDE DEF At, Enter
  <2> QED BY <1>3, <1>6, <2>1, <2>2, <2>3, SizeAssumption DEF CountInv
<1>11. TicketInv(c)'
  BY <1>3, <1>4, <1>5, <1>6 DEF ColourInv, TicketInv
<1>12. SlotInv(c)'
  <2> SUFFICES ASSUME NEW s \in 0..N-1, s < packingAreaBallCount'[c]
               PROVE  pairingSystem'[c][s] \in Balls
    BY <1>6 DEF SlotInv
  <2>1. packingAreaBallCount'[c] = packingAreaBallCount[c] + 1
    OBVIOUS
  <2>2. s < packingAreaBallCount[c] \/ s = packingAreaBallCount[c]
    BY <1>6, <2>1
  <2>3. pairingSystem'[c] = [pairingSystem[c] EXCEPT ![packingAreaBallCount[c]] = b]
    OBVIOUS
  <2>4. CASE s < packingAreaBallCount[c]
    BY <1>6, <2>3, <2>4 DEF ColourInv, SlotInv
  <2>5. CASE s = packingAreaBallCount[c]
    BY <1>6, <2>3, <2>5
  <2> QED BY <2>2, <2>4, <2>5
<1> QED BY <1>7, <1>8, <1>9, <1>10, <1>11, <1>12 DEF ColourInv

(* The N-th ball shuts the exit gate, which is open as the queue gate is shut. *)
LEMMA CloseExitInv ==
  ASSUME NEW b \in Balls, GateInv, CloseExit(b)
  PROVE  ColourInv(Colour[b])'
<1> DEFINE c == Colour[b]
           inside == Cardinality(At(c, Inside))
           entering == Cardinality(At(c, {"enter"}))
<1>1. c \in Colours /\ ColourInv(c) /\ Shape /\ IdxInv
  BY ColourAssumption DEF GateInv
<1>2. Goto(b, "closeExit", "openQueue")
  BY DEF CloseExit
<1>3. /\ inside \in Nat /\ inside' = inside
      /\ entering \in Nat /\ entering' = entering
  <2>1. pc \in [Balls -> Labels]  BY <1>1 DEF Shape
  <2>2. "closeExit" \in Inside /\ "openQueue" \in Inside
    BY DEF Inside, MutexHeldIn
  <2>3. "closeExit" \notin {"enter"} /\ "openQueue" \notin {"enter"}
    OBVIOUS
  <2>4. inside \in Nat /\ inside' = inside
    BY <1>2, <2>1, <2>2, MoveKeeps
  <2>5. entering \in Nat /\ entering' = entering
    BY <1>2, <2>1, <2>3, MoveKeeps
  <2> QED BY <2>4, <2>5
<1> USE <1>1 DEF CloseExit, Goto, sem_wait, sem_post, sems, area, Shape, At
<1>4. MutexInv(c)'
  BY DEF ColourInv, MutexInv, MutexHeld, MutexHeldIn, MutexHeldOut
<1>5. QueueInv(c)'
  BY DEF ColourInv, QueueInv, TicketInv, CountInv, Open
<1>6. ExitInv(c)'
  BY DEF ColourInv, ExitInv, QueueInv, Open
<1>7. CountInv(c)'
  BY <1>3 DEF ColourInv, CountInv
<1>8. TicketInv(c)'
  BY <1>3 DEF ColourInv, TicketInv, CountInv, Open
<1>9. SlotInv(c)'
  BY DEF ColourInv, SlotInv, Open
<1> QED BY <1>4, <1>5, <1>6, <1>7, <1>8, <1>9 DEF ColourInv

(* Opening the queue gate: the phase of the colour changes to open.            *)
LEMMA OpenQueueInv ==
  ASSUME NEW b \in Balls, GateInv, OpenQueue(b)
  PROVE  ColourInv(Colour[b])'
<1> DEFINE c == Colour[b]
           inside == Cardinality(At(c, Inside))
           entering == Cardinality(At(c, {"enter"}))
<1>1. c \in Colours /\ ColourInv(c) /\ Shape /\ IdxInv
  BY ColourAssumption DEF GateInv
<1>2. Goto(b, "openQueue", "unlockIn")
  BY DEF OpenQueue
<1>3. /\ inside \in Nat /\ inside' = inside
      /\ entering \in Nat /\ entering' = entering
  <2>1. pc \in [Balls -> Labels]  BY <1>1 DEF Shape
  <2>2. "openQueue" \in Inside /\ "unlockIn" \in Inside
    BY DEF Inside, MutexHeldIn
  <2>3. "openQueue" \notin {"enter"} /\ "unlockIn" \notin {"enter"}
    OBVIOUS
  <2>4. inside \in Nat /\ inside' = inside
    BY <1>2, <2>1, <2>2, MoveKeeps
  <2>5. entering \in Nat /\ entering' = entering
    BY <1>2, <2>1, <2>3, MoveKeeps
  <2> QED BY <2>4, <2>5
<1> USE <1>1 DEF OpenQueue, Goto, sem_wait, sem_post, sems, area, Shape, At
<1>4. At(c, MutexHeld) = {b} /\ ~Open(c) /\ queue[c] = 0
  BY DEF ColourInv, MutexInv, QueueInv, Open, MutexHeld, MutexHeldIn, MutexHeldOut
<1>5. packingAreaBallCount[c] = N
  BY DEF ColourInv, CountInv
<1>6. MutexInv(c)'
  BY DEF ColourInv, MutexInv, MutexHeld, MutexHeldIn, MutexHeldOut
<1>7. QueueInv(c)'
  BY <1>4, <1>5 DEF ColourInv, QueueInv, Open, MutexHeld, MutexHeldIn, MutexHeldOut
<1>8. ExitInv(c)'
  BY DEF ColourInv, ExitInv, QueueInv, Open
<1>9. CountInv(c)'
  BY <1>3 DEF ColourInv, CountInv
<1>10. TicketInv(c)'
  BY <1>3, <1>4, <1>5, SizeAssumption DEF ColourInv, TicketInv, QueueInv
<1>11. SlotInv(c)'
  BY <1>4, <1>5 DEF ColourInv, SlotInv
<1> QED BY <1>6, <1>7, <1>8, <1>9, <1>10, <1>11 DEF ColourInv

(* Giving the mutex up on the way in.                                          *)
LEMMA UnlockInInv ==
  ASSUME NEW b \in Balls, GateInv, UnlockIn(b)
  PROVE  ColourInv(Colour[b])'
<1> DEFINE c == Colour[b]
           inside == Cardinality(At(c, Inside))
           entering == Cardinality(At(c, {"enter"}))
<1>1. c \in Colours /\ ColourInv(c) /\ Shape /\ IdxInv
  BY ColourAssumption DEF GateInv
<1>2. Goto(b, "unlockIn", "queue")
  BY DEF UnlockIn
<1>3. /\ inside \in Nat /\ inside' = inside
      /\ entering \in Nat /\ entering' = entering
  <2>1. pc \in [Balls -> Labels]  BY <1>1 DEF Shape
  <2>2. "unlockIn" \in Inside /\ "queue" \in Inside
    BY DEF Inside, MutexHeldIn
  <2>3. "unlockIn" \notin {"enter"} /\ "queue" \notin {"enter"}
    OBVIOUS
  <2>4. inside \in Nat /\ inside' = inside
    BY <1>2, <2>1, <2>2, MoveKeeps
  <2>5. entering \in Nat /\ entering' = entering
    BY <1>2, <2>1, <2>3, MoveKeeps
  <2> QED BY <2>4, <2>5
<1> USE <1>1 DEF UnlockIn, Goto, sem_wait, sem_post, sems, area, Shape, At
<1>4. MutexInv(c)'
  BY DEF ColourInv, MutexInv, MutexHeld, MutexHeldIn, MutexHeldOut
<1>5. QueueInv(c)'
  BY DEF ColourInv, QueueInv, TicketInv, CountInv, Open
<1>6. ExitInv(c)'
  BY DEF ColourInv, ExitInv, QueueInv, Open
<1>7. CountInv(c)'
  BY <1>3 DEF ColourInv, CountInv
<1>8. TicketInv(c)'
  BY <1>3 DEF ColourInv, TicketInv, CountInv, Open
<1>9. SlotInv(c)'
  BY DEF ColourInv, SlotInv, Open
<1> QED BY <1>4, <1>5, <1>6, <1>7, <1>8, <1>9 DEF ColourInv

(* Taking the unit of the queue gate, which stays open in the ball's hands.    *)
LEMMA PassQueueInv ==
  ASSUME NEW b \in Balls, GateInv, PassQueue(b)
  PROVE  ColourInv(Colour[b])'
<1> DEFINE c == Colour[b]
           inside == Cardinality(At(c, Inside))
           entering == Cardinality(At(c, {"enter"}))
<1>1. c \in Colours /\ ColourInv(c) /\ Shape /\ IdxInv
  BY ColourAssumption DEF GateInv
<1>2. Goto(b, "queue", "requeue")
  BY DEF PassQueue
<1>3. /\ inside \in Nat /\ inside' = inside
      /\ entering \in Nat /\ entering' = entering
  <2>1. pc \in [Balls -> Labels]  BY <1>1 DEF Shape
  <2>2. "queue" \in Inside /\ "requeue" \in Inside
    BY DEF Inside, MutexHeldIn
  <2>3. "queue" \notin {"enter"} /\ "requeue" \notin {"enter"}
    OBVIOUS
  <2>4. inside \in Nat /\ inside' = inside
    BY <1>2, <2>1, <2>2, MoveKeeps
  <2>5. entering \in Nat /\ entering' = entering
    BY <1>2, <2>1, <2>3, MoveKeeps
  <2> QED BY <2>4, <2>5
<1> USE <1>1 DEF PassQueue, Goto, sem_wait, sem_post, sems, area, Shape, At
<1>4. Open(c) /\ Open(c)'
  BY DEF ColourInv, QueueInv, Open
<1>5. MutexInv(c)'
  BY DEF ColourInv, MutexInv, MutexHeld, MutexHeldIn, MutexHeldOut
<1>6. QueueInv(c)'
  BY DEF ColourInv, QueueInv, TicketInv, CountInv, Open
<1>7. ExitInv(c)'
  BY DEF ColourInv, ExitInv, QueueInv, Open
<1>8. CountInv(c)'
  BY <1>3 DEF ColourInv, CountInv
<1>9. TicketInv(c)'
  BY <1>3, <1>4 DEF ColourInv, TicketInv
<1>10. SlotInv(c)'
  BY <1>4 DEF ColourInv, SlotInv
<1> QED BY <1>5, <1>6, <1>7, <1>8, <1>9, <1>10 DEF ColourInv

(* Putting the unit of the queue gate back.                                    *)
LEMMA RepostQueueInv ==
  ASSUME NEW b \in Balls, GateInv, RepostQueue(b)
  PROVE  ColourInv(Colour[b])'
<1> DEFINE c == Colour[b]
           inside == Cardinality(At(c, Inside))
           entering == Cardinality(At(c, {"enter"}))
<1>1. c \in Colours /\ ColourInv(c) /\ Shape /\ IdxInv
  BY ColourAssumption DEF GateInv
<1>2. Goto(b, "requeue", "read")
  BY DEF RepostQueue
<1>3. /\ inside \in Nat /\ inside' = inside
      /\ entering \in Nat /\ entering' = entering
  <2>1. pc \in [Balls -> Labels]  BY <1>1 DEF Shape
  <2>2. "requeue" \in Inside /\ "read" \in Inside
    BY DEF Inside, MutexHeldIn
  <2>3. "requeue" \notin {"enter"} /\ "read" \notin {"enter"}
    OBVIOUS
  <2>4. inside \in Nat /\ inside' = inside
    BY <1>2, <2>1, <2>2, MoveKeeps
  <2>5. entering \in Nat /\ entering' = entering
    BY <1>2, <2>1, <2>3, MoveKeeps
  <2> QED BY <2>4, <2>5
<1> USE <1>1 DEF RepostQueue, Goto, sem_wait, sem_post, sems, area, Shape, At
<1>4. Open(c) /\ Open(c)'
  BY DEF ColourInv, QueueInv, Open
<1>5. MutexInv(c)'
  BY DEF ColourInv, MutexInv, MutexHeld, MutexHeldIn, MutexHeldOut
<1>6. QueueInv(c)'
  BY DEF ColourInv, QueueInv, TicketInv, CountInv, Open
<1>7. ExitInv(c)'
  BY DEF ColourInv, ExitInv, QueueInv, Open
<1>8. CountInv(c)'
  BY <1>3 DEF ColourInv, CountInv
<1>9. TicketInv(c)'
  BY <1>3, <1>4 DEF ColourInv, TicketInv
<1>10. SlotInv(c)'
  BY DEF ColourInv, SlotInv, Open
<1> QED BY <1>5, <1>6, <1>7, <1>8, <1>9, <1>10 DEF ColourInv

(* Reading a slot, with no lock held, while the gate is open.                  *)
LEMMA PackagingInv ==
  ASSUME NEW b \in Balls, GateInv, Packaging(b)
  PROVE  ColourInv(Colour[b])'
<1> DEFINE c == Colour[b]
           inside == Cardinality(At(c, Inside))
           entering == Cardinality(At(c, {"enter"}))
<1>1. c \in Colours /\ ColourInv(c) /\ Shape /\ IdxInv
  BY ColourAssumption DEF GateInv
<1>2. PICK to \in {"leave", "read"} : Goto(b, "read", to)
  BY DEF Packaging
<1>3. /\ inside \in Nat /\ inside' = inside
      /\ entering \in Nat /\ entering' = entering
  <2>1. pc \in [Balls -> Labels]  BY <1>1 DEF Shape
  <2>2. "read" \in Inside /\ to \in Inside
    BY DEF Inside, MutexHeldIn
  <2>3. "read" \notin {"enter"} /\ to \notin {"enter"}
    OBVIOUS
  <2>4. inside \in Nat /\ inside' = inside
    BY <1>2, <2>1, <2>2, MoveKeeps
  <2>5. entering \in Nat /\ entering' = entering
    BY <1>2, <2>1, <2>3, MoveKeeps
  <2> QED BY <2>4, <2>5
<1> USE <1>1 DEF Packaging, Goto, sem_wait, sem_post, sems, area, Shape, At
<1>4. MutexInv(c)'
  BY DEF ColourInv, MutexInv, MutexHeld, MutexHeldIn, MutexHeldOut
<1>5. QueueInv(c)'
  BY DEF ColourInv, QueueInv, TicketInv, CountInv, Open
<1>6. ExitInv(c)'
  BY DEF ColourInv, ExitInv, QueueInv, Open
<1>7. CountInv(c)'
  BY <1>3 DEF ColourInv, CountInv
<1>8. TicketInv(c)'
  BY <1>3 DEF ColourInv, TicketInv, CountInv, Open
<1>9. SlotInv(c)'
  BY DEF ColourInv, SlotInv, Open
<1> QED BY <1>4, <1>5, <1>6, <1>7, <1>8, <1>9 DEF ColourInv

(* Counting out: the last ball finds no other one inside, and no ticket.       *)
LEMMA LeaveInv ==
  ASSUME NEW b \in Balls, GateInv, Leave(b)
  PROVE  ColourInv(Colour[b])'
<1> DEFINE c == Colour[b]
           inside == Cardinality(At(c, Inside))
           entering == Cardinality(At(c, {"enter"}))
<1>1. c \in Colours /\ ColourInv(c) /\ Shape /\ IdxInv
  BY ColourAssumption DEF GateInv
<1>2. PICK to \in {"reopen", "unlockOut"} : Goto(b, "leave", to)
  BY DEF Leave
<1>3. /\ inside \in Nat /\ inside' = inside - 1 /\ inside > 0
      /\ entering \in Nat /\ entering' = entering
  <2>1. pc \in [Balls -> Labels]  BY <1>1 DEF Shape
  <2>2. "leave" \in Inside /\ to \notin Inside
    BY DEF Inside, MutexHeldIn
  <2>3. "leave" \notin {"enter"} /\ to \notin {"enter"}
    OBVIOUS
  <2>4. inside \in Nat /\ inside' = inside - 1 /\ inside > 0
    BY <1>2, <2>1, <2>2, MoveCard
  <2>5. entering \in Nat /\ entering' = entering
    BY <1>2, <2>1, <2>3, MoveKeeps
  <2> QED BY <2>4, <2>5
<1> USE <1>1 DEF Leave, Goto, sem_wait, sem_post, sems, area, Shape, At
<1>4. Open(c) /\ Open(c)'
  BY DEF ColourInv, QueueInv, Open
<1>5. packingAreaBallCount[c] > 0
  BY <1>3 DEF ColourInv, CountInv
<1>6. MutexInv(c)'
  BY DEF ColourInv, MutexInv, MutexHeld, MutexHeldIn, MutexHeldOut
<1>7. QueueInv(c)'
  BY DEF ColourInv, QueueInv, TicketInv, CountInv, Open
<1>8. ExitInv(c)'
  BY DEF ColourInv, ExitInv, QueueInv, Open
<1>9. CountInv(c)'
  <2>1. packingAreaBallCount'[c] = packingAreaBallCount[c] - 1
    OBVIOUS
  <2>2. At(c, {"closeExit", "openQueue"})' = {}
    BY <1>4 DEF ColourInv, QueueInv
  <2> HIDE DEF At, Leave
  <2> QED BY <1>3, <1>5, <2>1, <2>2, SizeAssumption DEF ColourInv, CountInv
<1>10. TicketInv(c)'
  <2>1. /\ packingAreaBallCount'[c] = packingAreaBallCount[c] - 1
        /\ fullPackingArea' = fullPackingArea /\ idx' = idx /\ idx[b] = 0
    BY DEF IdxInv
  <2>2. fullPackingArea[c] + entering = 0 /\ At(c, {"reopen", "closeQueue"}) = {}
    BY <1>4, <1>5 DEF ColourInv, TicketInv
  <2>3. packingAreaBallCount[c] = 1 =>
          /\ At(c, {"reopen"})' = {b} /\ At(c, {"closeQueue"})' = {}
          /\ At(c, {"reopen", "closeQueue"})' # {}
    BY <2>2
  <2>4. packingAreaBallCount[c] # 1 => At(c, {"reopen", "closeQueue"})' = {}
    BY <2>2
  <2> HIDE DEF At, Leave, Goto
  <2> QED BY <1>3, <1>4, <1>5, <2>1, <2>2, <2>3, <2>4 DEF TicketInv
<1>11. SlotInv(c)'
  BY DEF ColourInv, SlotInv, Open
<1> QED BY <1>6, <1>7, <1>8, <1>9, <1>10, <1>11 DEF ColourInv

(* Handing out a ticket: as many as turns of the loop so far.                  *)
LEMMA ReopenInv ==
  ASSUME NEW b \in Balls, GateInv, Reopen(b)
  PROVE  ColourInv(Colour[b])'
<1> DEFINE c == Colour[b]
           inside == Cardinality(At(c, Inside))
           entering == Cardinality(At(c, {"enter"}))
<1>1. c \in Colours /\ ColourInv(c) /\ Shape /\ IdxInv
  BY ColourAssumption DEF GateInv
<1>2. PICK to \in {"closeQueue", "reopen"} : Goto(b, "reopen", to)
  BY DEF Reopen
<1>3. /\ inside \in Nat /\ inside' = inside
      /\ entering \in Nat /\ entering' = entering
  <2>1. pc \in [Balls -> Labels]  BY <1>1 DEF Shape
  <2>2. "reopen" \notin Inside /\ to \notin Inside
    BY DEF Inside, MutexHeldIn
  <2>3. "reopen" \notin {"enter"} /\ to \notin {"enter"}
    OBVIOUS
  <2>4. inside \in Nat /\ inside' = inside
    BY <1>2, <2>1, <2>2, MoveKeeps
  <2>5. entering \in Nat /\ entering' = entering
    BY <1>2, <2>1, <2>3, MoveKeeps
  <2> QED BY <2>4, <2>5
<1> USE <1>1 DEF Reopen, Goto, sem_wait, sem_post, sems, area, Shape, At
<1>4. Open(c) /\ Open(c)'
  BY DEF ColourInv, QueueInv, Open
<1>5. packingAreaBallCount[c] = 0
  BY <1>4 DEF ColourInv, TicketInv, CountInv
<1>6. At(c, MutexHeld) = {b}
  BY DEF ColourInv, MutexInv, MutexHeld, MutexHeldIn, MutexHeldOut
<1>7. MutexInv(c)'
  BY DEF ColourInv, MutexInv, MutexHeld, MutexHeldIn, MutexHeldOut
<1>8. QueueInv(c)'
  BY DEF ColourInv, QueueInv, TicketInv, CountInv, Open
<1>9. ExitInv(c)'
  BY DEF ColourInv, ExitInv, QueueInv, Open
<1>10. CountInv(c)'
  BY <1>3 DEF ColourInv, CountInv
<1>11. TicketInv(c)'
  <2>1. /\ packingAreaBallCount' = packingAreaBallCount
        /\ fullPackingArea'[c] = fullPackingArea[c] + 1
    OBVIOUS
  <2>2. fullPackingArea[c] + entering = idx[b]
    BY <1>4, <1>5 DEF ColourInv, TicketInv
  <2>3. idx[b] # N - 1 =>
          /\ At(c, {"reopen"})' = {b} /\ At(c, {"closeQueue"})' = {}
          /\ At(c, {"reopen", "closeQueue"})' # {} /\ idx'[b] = idx[b] + 1
    BY <1>6 DEF MutexHeld, MutexHeldOut
  <2>4. idx[b] = N - 1 =>
          /\ At(c, {"reopen"})' = {} /\ At(c, {"closeQueue"})' = {b}
          /\ At(c, {"reopen", "closeQueue"})' # {}
    BY <1>6 DEF MutexHeld, MutexHeldOut
  <2>5. fullPackingArea'[c] + entering' = idx[b] + 1
    BY <1>3, <2>1, <2>2
  <2> HIDE DEF At, Reopen, Goto
  <2>6. CASE idx[b] = N - 1
    BY <1>4, <1>5, <2>1, <2>4, <2>5, <2>6, SizeAssumption DEF TicketInv
  <2>7. CASE idx[b] # N - 1
    BY <1>4, <1>5, <2>1, <2>3, <2>5, <2>7 DEF TicketInv
  <2> QED BY <2>6, <2>7
<1>12. SlotInv(c)'
  BY DEF ColourInv, SlotInv, Open
<1> QED BY <1>7, <1>8, <1>9, <1>10, <1>11, <1>12 DEF ColourInv

(* Shutting the queue gate with all N tickets handed out: the area fills again. *)
LEMMA CloseQueueInv ==
  ASSUME NEW b \in Balls, GateInv, CloseQueue(b)
  PROVE  ColourInv(Colour[b])'
<1> DEFINE c == Colour[b]
           inside == Cardinality(At(c, Inside))
           entering == Cardinality(At(c, {"enter"}))
<1>1. c \in Colours /\ ColourInv(c) /\ Shape /\ IdxInv
  BY ColourAssumption DEF GateInv
<1>2. Goto(b, "closeQueue", "openExit")
  BY DEF CloseQueue
<1>3. /\ inside \in Nat /\ inside' = inside
      /\ entering \in Nat /\ entering' = entering
  <2>1. pc \in [Balls -> Labels]  BY <1>1 DEF Shape
  <2>2. "closeQueue" \notin Inside /\ "openExit" \notin Inside
    BY DEF Inside, MutexHeldIn
  <2>3. "closeQueue" \notin {"enter"} /\ "openExit" \notin {"enter"}
    OBVIOUS
  <2>4. inside \in Nat /\ inside' = inside
    BY <1>2, <2>1, <2>2, MoveKeeps
  <2>5. entering \in Nat /\ entering' = entering
    BY <1>2, <2>1, <2>3, MoveKeeps
  <2> QED BY <2>4, <2>5
<1> USE <1>1 DEF CloseQueue, Goto, sem_wait, sem_post, sems, area, Shape, At
<1>4. Open(c) /\ ~Open(c)'
  BY DEF ColourInv, QueueInv, Open
<1>5. packingAreaBallCount[c] = 0
  BY <1>4 DEF ColourInv, TicketInv, CountInv
<1>6. At(c, MutexHeld) = {b}
  BY DEF ColourInv, MutexInv, MutexHeld, MutexHeldIn, MutexHeldOut
<1>7. At(c, Inside) = {}
  <2>1. inside = 0  BY <1>5 DEF ColourInv, CountInv
  <2> HIDE DEF At
  <2> QED BY <2>1, AtFinite, FS_EmptySet
<1>8. MutexInv(c)'
  BY DEF ColourInv, MutexInv, MutexHeld, MutexHeldIn, MutexHeldOut
<1>9. QueueInv(c)'
  BY <1>4, <1>5, <1>6, <1>7 DEF ColourInv, QueueInv, Inside, MutexHeldIn, MutexHeldOut, MutexHeld
<1>10. ExitInv(c)'
  BY DEF ColourInv, ExitInv, QueueInv, Open
<1>11. CountInv(c)'
  BY <1>3 DEF ColourInv, CountInv
<1>12. TicketInv(c)'
  BY <1>3, <1>4, <1>5, <1>6, <1>7 DEF ColourInv, TicketInv
<1>13. SlotInv(c)'
  BY <1>4, <1>5, <1>6, <1>7 DEF ColourInv, SlotInv
<1> QED BY <1>8, <1>9, <1>10, <1>11, <1>12, <1>13 DEF ColourInv

(* Opening the exit gate once the queue gate is shut.                          *)
LEMMA OpenExitInv ==
  ASSUME NEW b \in Balls, GateInv, OpenExit(b)
  PROVE  ColourInv(Colour[b])'
<1> DEFINE c == Colour[b]
           inside == Cardinality(At(c, Inside))
           entering == Cardinality(At(c, {"enter"}))
<1>1. c \in Colours /\ ColourInv(c) /\ Shape /\ IdxInv
  BY ColourAssumption DEF GateInv
<1>2. Goto(b, "openExit", "unlockOut")
  BY DEF OpenExit
<1>3. /\ inside \in Nat /\ inside' = inside
      /\ entering \in Nat /\ entering' = entering
  <2>1. pc \in [Balls -> Labels]  BY <1>1 DEF Shape
  <2>2. "openExit" \notin Inside /\ "unlockOut" \notin Inside
    BY DEF Inside, MutexHeldIn
  <2>3. "openExit" \notin {"enter"} /\ "unlockOut" \notin {"enter"}
    OBVIOUS
  <2>4. inside \in Nat /\ inside' = inside
    BY <1>2, <2>1, <2>2, MoveKeeps
  <2>5. entering \in Nat /\ entering' = entering
    BY <1>2, <2>1, <2>3, MoveKeeps
  <2> QED BY <2>4, <2>5
<1> USE <1>1 DEF OpenExit, Goto, sem_wait, sem_post, sems, area, Shape, At
<1>4. At(c, MutexHeld) = {b} /\ ~Open(c) /\ ~Open(c)'
  BY DEF ColourInv, MutexInv, QueueInv, Open, MutexHeld, MutexHeldIn, MutexHeldOut
<1>5. MutexInv(c)'
  BY DEF ColourInv, MutexInv, MutexHeld, MutexHeldIn, MutexHeldOut
<1>6. QueueInv(c)'
  BY DEF ColourInv, QueueInv, TicketInv, CountInv, Open
<1>7. ExitInv(c)'
  BY <1>4 DEF ColourInv, ExitInv, MutexHeld, MutexHeldIn, MutexHeldOut
<1>8. CountInv(c)'
  BY <1>3 DEF ColourInv, CountInv
<1>9. TicketInv(c)'
  BY <1>3 DEF ColourInv, TicketInv, CountInv, Open
<1>10. SlotInv(c)'
  BY DEF ColourInv, SlotInv, Open
<1> QED BY <1>5, <1>6, <1>7, <1>8, <1>9, <1>10 DEF ColourInv

(* Giving the mutex up on the way out.                                         *)
LEMMA UnlockOutInv ==
  ASSUME NEW b \in Balls, GateInv, UnlockOut(b)
  PROVE  ColourInv(Colour[b])'
<1> DEFINE c == Colour[b]
           inside == Cardinality(At(c, Inside))
           entering == Cardinality(At(c, {"enter"}))
<1>1. c \in Colours /\ ColourInv(c) /\ Shape /\ IdxInv
  BY ColourAssumption DEF GateInv
<1>2. Goto(b, "unlockOut", "exit")
  BY DEF UnlockOut
<1>3. /\ inside \in Nat /\ inside' = inside
      /\ entering \in Nat /\ entering' = entering
  <2>1. pc \in [Balls -> Labels]  BY <1>1 DEF Shape
  <2>2. "unlockOut" \notin Inside /\ "exit" \notin Inside
    BY DEF Inside, MutexHeldIn
  <2>3. "unlockOut" \notin {"enter"} /\ "exit" \notin {"enter"}
    OBVIOUS
  <2>4. inside \in Nat /\ inside' = inside
    BY <1>2, <2>1, <2>2, MoveKeeps
  <2>5. entering \in Nat /\ entering' = entering
    BY <1>2, <2>1, <2>3, MoveKeeps
  <2> QED BY <2>4, <2>5
<1> USE <1>1 DEF UnlockOut, Goto, sem_wait, sem_post, sems, area, Shape, At
<1>4. MutexInv(c)'
  BY DEF ColourInv, MutexInv, MutexHeld, MutexHeldIn, MutexHeldOut
<1>5. QueueInv(c)'
  BY DEF ColourInv, QueueInv, TicketInv, CountInv, Open
<1>6. ExitInv(c)'
  BY DEF ColourInv, ExitInv, QueueInv, Open
<1>7. CountInv(c)'
  BY <1>3 DEF ColourInv, CountInv
<1>8. TicketInv(c)'
  BY <1>3 DEF ColourInv, TicketInv, CountInv, Open
<1>9. SlotInv(c)'
  BY DEF ColourInv, SlotInv, Open
<1> QED BY <1>4, <1>5, <1>6, <1>7, <1>8, <1>9 DEF ColourInv

(* Taking the unit of the exit gate, while the queue gate is shut.             *)
LEMMA PassExitInv ==
  ASSUME NEW b \in Balls, GateInv, PassExit(b)
  PROVE  ColourInv(Colour[b])'
<1> DEFINE c == Colour[b]
           inside == Cardinality(At(c, Inside))
           entering == Cardinality(At(c, {"enter"}))
<1>1. c \in Colours /\ ColourInv(c) /\ Shape /\ IdxInv
  BY ColourAssumption DEF GateInv
<1>2. Goto(b, "exit", "reexit")
  BY DEF PassExit
<1>3. /\ inside \in Nat /\ inside' = inside
      /\ entering \in Nat /\ entering' = entering
  <2>1. pc \in [Balls -> Labels]  BY <1>1 DEF Shape
  <2>2. "exit" \notin Inside /\ "reexit" \notin Inside
    BY DEF Inside, MutexHeldIn
  <2>3. "exit" \notin {"enter"} /\ "reexit" \notin {"enter"}
    OBVIOUS
  <2>4. inside \in Nat /\ inside' = inside
    BY <1>2, <2>1, <2>2, MoveKeeps
  <2>5. entering \in Nat /\ entering' = entering
    BY <1>2, <2>1, <2>3, MoveKeeps
  <2> QED BY <2>4, <2>5
<1> USE <1>1 DEF PassExit, Goto, sem_wait, sem_post, sems, area, Shape, At
<1>4. MutexInv(c)'
  BY DEF ColourInv, MutexInv, MutexHeld, MutexHeldIn, MutexHeldOut
<1>5. QueueInv(c)'
  BY DEF ColourInv, QueueInv, TicketInv, CountInv, Open
<1>6. ExitInv(c)'
  BY DEF ColourInv, ExitInv, QueueInv, Open
<1>7. CountInv(c)'
  BY <1>3 DEF ColourInv, CountInv
<1>8. TicketInv(c)'
  BY <1>3 DEF ColourInv, TicketInv, CountInv, Open
<1>9. SlotInv(c)'
  BY DEF ColourInv, SlotInv, Open
<1> QED BY <1>4, <1>5, <1>6, <1>7, <1>8, <1>9 DEF ColourInv

(* Putting the unit of the exit gate back.                                     *)
LEMMA RepostExitInv ==
  ASSUME NEW b \in Balls, GateInv, RepostExit(b)
  PROVE  ColourInv(Colour[b])'
<1> DEFINE c == Colour[b]
           inside == Cardinality(At(c, Inside))
           entering == Cardinality(At(c, {"enter"}))
<1>1. c \in Colours /\ ColourInv(c) /\ Shape /\ IdxInv
  BY ColourAssumption DEF GateInv
<1>2. Goto(b, "reexit", "done")
  BY DEF RepostExit
<1>3. /\ inside \in Nat /\ inside' = inside
      /\ entering \in Nat /\ entering' = entering
  <2>1. pc \in [Balls -> Labels]  BY <1>1 DEF Shape
  <2>2. "reexit" \notin Inside /\ "done" \notin Inside
    BY DEF Inside, MutexHeldIn
  <2>3. "reexit" \notin {"enter"} /\ "done" \notin {"enter"}
    OBVIOUS
  <2>4. inside \in Nat /\ inside' = inside
    BY <1>2, <2>1, <2>2, MoveKeeps
  <2>5. entering \in Nat /\ entering' = entering
    BY <1>2, <2>1, <2>3, MoveKeeps
  <2> QED BY <2>4, <2>5
<1> USE <1>1 DEF RepostExit, Goto, sem_wait, sem_post, sems, area, Shape, At
<1>4. MutexInv(c)'
  BY DEF ColourInv, MutexInv, MutexHeld, MutexHeldIn, MutexHeldOut
<1>5. QueueInv(c)'
  BY DEF ColourInv, QueueInv, TicketInv, CountInv, Open
<1>6. ExitInv(c)'
  BY DEF ColourInv, ExitInv, QueueInv, Open
<1>7. CountInv(c)'
  BY <1>3 DEF ColourInv, CountInv
<1>8. TicketInv(c)'
  BY <1>3 DEF ColourInv, TicketInv, CountInv, Open
<1>9. SlotInv(c)'
  BY DEF ColourInv, SlotInv, Open
<1> QED BY <1>4, <1>5, <1>6, <1>7, <1>8, <1>9 DEF ColourInv

(* A step of a thread keeps the invariant of its own colour ...                *)
LEMMA OwnColour ==
  ASSUME NEW b \in Balls, GateInv, Call(b) \/ pack_ball(b)
  PROVE  ColourInv(Colour[b])'
BY CallInv, AdmitInv, EnterInv, CloseExitInv, OpenQueueInv, UnlockInInv, PassQueueInv,
   RepostQueueInv, PackagingInv, LeaveInv, ReopenInv, CloseQueueInv, OpenExitInv,
   UnlockOutInv, PassExitInv, RepostExitInv DEF pack_ball

(* ... and the shape of the state.                                             *)
LEMMA ShapeKept ==
  ASSUME NEW b \in Balls, GateInv, Call(b) \/ pack_ball(b)
  PROVE  Shape' /\ IdxInv'
<1> DEFINE c == Colour[b]
<1>1. c \in Colours /\ Shape /\ IdxInv /\ ColourInv(c)
  BY ColourAssumption DEF GateInv
<1> USE <1>1, SizeAssumption DEF Shape, IdxInv, Goto, sem_wait, sem_post, sems, area,
        Labels, Matched, Inside, MutexHeldIn, MutexHeldOut
<1>2. CASE Call(b)  BY <1>2 DEF Call
<1>3. CASE Admit(b)  BY <1>3 DEF Admit
<1>4. CASE Enter(b)
  <2>1. packingAreaBallCount' \in [Colours -> Nat]
    BY <1>4 DEF Enter
  <2>2. pairingSystem' \in [Colours -> [0..N-1 -> Balls \cup {NoBall}]]
    BY <1>4 DEF Enter
  <2> QED BY <1>4, <2>1, <2>2 DEF Enter
<1>5. CASE CloseExit(b)  BY <1>5 DEF CloseExit
<1>6. CASE OpenQueue(b)  BY <1>6 DEF OpenQueue
<1>7. CASE UnlockIn(b)  BY <1>7 DEF UnlockIn
<1>8. CASE PassQueue(b)  BY <1>8 DEF PassQueue
<1>9. CASE RepostQueue(b)  BY <1>9 DEF RepostQueue
<1>10. CASE Packaging(b)
  <2>1. Open(c)
    BY <1>10 DEF Packaging, ColourInv, QueueInv, At
  <2>2. pairingSystem[c][idx[b]] \in Balls
    BY <2>1 DEF ColourInv, SlotInv
  <2>3. other_ids' \in [Balls -> SUBSET Balls]
    BY <1>10, <2>2 DEF Packaging
  <2>4. idx' \in [Balls -> 0..N-1]
    BY <1>10 DEF Packaging
  <2> QED BY <1>10, <2>3, <2>4 DEF Packaging
<1>11. CASE Leave(b)
  <2>1. packingAreaBallCount'[c] = Cardinality(At(c, Inside)')
    BY <1>11, LeaveInv DEF ColourInv, CountInv
  <2>2. At(c, Inside)' \subseteq Balls
    BY DEF At
  <2>3. Cardinality(At(c, Inside)') \in Nat
    BY <2>2, FS_Subset, FS_CardinalityType, BallsAssumption
  <2>4. packingAreaBallCount' \in [Colours -> Nat]
    BY <1>11, <2>1, <2>3 DEF Leave
  <2> QED BY <1>11, <2>4, SMTT(30) DEF Leave
<1>12. CASE Reopen(b)
  <2>1. idx' \in [Balls -> 0..N-1]
    BY <1>12 DEF Reopen
  <2> QED BY <1>12, <2>1 DEF Reopen
<1>13. CASE CloseQueue(b)  BY <1>13 DEF CloseQueue
<1>14. CASE OpenExit(b)  BY <1>14 DEF OpenExit
<1>15. CASE UnlockOut(b)  BY <1>15 DEF UnlockOut
<1>16. CASE PassExit(b)  BY <1>16 DEF PassExit
<1>17. CASE RepostExit(b)  BY <1>17 DEF RepostExit
<1> QED
  BY <1>2, <1>3, <1>4, <1>5, <1>6, <1>7, <1>8, <1>9, <1>10, <1>11, <1>12,
     <1>13, <1>14, <1>15, <1>16, <1>17 DEF pack_ball

(* The invariant holds at first, with every gate in its filling phase.         *)
LEMMA InitGate ==
  ASSUME Init
  PROVE  GateInv
<1>1. Shape /\ IdxInv
  BY SizeAssumption DEF Init, Shape, IdxInv, Labels
<1>2. ASSUME NEW c \in Colours
      PROVE  ColourInv(c)
  <2>1. ASSUME NEW L, "idle" \notin L
        PROVE  At(c, L) = {} /\ Cardinality(At(c, L)) = 0
    BY <2>1, FS_EmptySet DEF Init, At
  <2>2. "idle" \notin Inside /\ "idle" \notin MutexHeld
    BY DEF Inside, MutexHeld, MutexHeldIn, MutexHeldOut
  <2>3. ~Open(c)
    BY <2>1 DEF Open, Init
  <2>4. CountInv(c) /\ packingAreaBallCount[c] = 0
    <3>1. Cardinality(At(c, Inside)) = 0 /\ At(c, {"closeExit", "openQueue"}) = {}
      BY <2>1, <2>2
    <3>2. packingAreaBallCount[c] = 0
      BY DEF Init
    <3> QED BY <3>1, <3>2, SizeAssumption DEF CountInv
  <2>5. TicketInv(c)
    <3>1. Cardinality(At(c, {"enter"})) = 0
      BY <2>1
    <3>2. fullPackingArea[c] = N
      BY DEF Init
    <3> QED BY <2>3, <2>4, <3>1, <3>2, SizeAssumption DEF TicketInv
  <2>6. MutexInv(c) /\ QueueInv(c) /\ ExitInv(c)
    BY <2>1, <2>2, <2>3 DEF MutexInv, QueueInv, ExitInv, Init
  <2>7. SlotInv(c)
    BY <2>3, <2>4 DEF SlotInv
  <2> QED BY <2>4, <2>5, <2>6, <2>7 DEF ColourInv
<1> QED BY <1>1, <1>2 DEF GateInv

(* Every step keeps it.                                                        *)
LEMMA StepGate ==
  ASSUME GateInv, [Next]_vars
  PROVE  GateInv'
<1>1. CASE UNCHANGED vars
  <2>1. \A c, L : At(c, L)' = At(c, L)
    BY <1>1 DEF vars, At
  <2>2. \A c : Open(c)' <=> Open(c)
    BY <1>1, <2>1 DEF vars, sems, Open
  <2>3. \A c \in Colours : ColourInv(c)'
    BY <1>1, <2>1, <2>2 DEF vars, sems, area, GateInv, ColourInv, MutexInv, QueueInv,
       ExitInv, CountInv, TicketInv, SlotInv
  <2>4. Shape' /\ IdxInv'
    BY <1>1 DEF vars, sems, area, GateInv, Shape, IdxInv
  <2> QED BY <2>3, <2>4 DEF GateInv
<1>2. ASSUME NEW b \in Balls, Call(b) \/ pack_ball(b)
      PROVE  GateInv'
  <2>1. Shape' /\ IdxInv'
    BY <1>2, ShapeKept
  <2>2. ColourInv(Colour[b])'
    BY <1>2, OwnColour
  <2>3. Frame(b)
    BY <1>2, Steps DEF GateInv
  <2>4. \A c \in Colours \ {Colour[b]} : ColourInv(c)'
    BY <2>3, OtherColours DEF GateInv, Shape
  <2> QED BY <2>1, <2>2, <2>4 DEF GateInv
<1> QED BY <1>1, <1>2 DEF Next

(* The four semaphores, the counter and the slots of every colour are in one   *)
(* of the phases GateInv describes in every reachable state of the packer, for *)
(* any number of balls of any colours and any size of box.                     *)
THEOREM GateInvariant == Spec => []GateInv
BY InitGate, StepGate, PTL DEF Spec

(* The types, and that mutex, queue and turnstile stay binary and the counter  *)
(* and the tickets within N although sem_post checks nothing.                  *)
THEOREM PackerTypes == Spec => []TypeOK
<1>1. GateInv => TypeOK
  <2> SUFFICES ASSUME GateInv
               PROVE  TypeOK
    OBVIOUS
  <2>1. Shape
    BY DEF GateInv
  <2>2. ASSUME NEW c \in Colours
        PROVE  /\ mutex[c] \in {0, 1} /\ queue[c] \in {0, 1} /\ turnstile[c] \in {0, 1}
               /\ packingAreaBallCount[c] \in 0..N
               /\ fullPackingArea[c] \in 0..N
    <3>1. mutex[c] \in {0, 1} /\ queue[c] \in {0, 1} /\ turnstile[c] \in {0, 1}
      BY DEF GateInv, ColourInv, MutexInv, QueueInv, ExitInv
    <3>2. packingAreaBallCount[c] \in 0..N
      BY <2>1, SizeAssumption DEF GateInv, ColourInv, CountInv, Shape
    <3>3. Cardinality(At(c, {"enter"})) \in Nat
      BY AtFinite
    <3>4. \A h \in At(c, {"reopen"}) : idx[h] \in 0..N-1
      BY <2>1 DEF At, Shape
    <3>5. TicketInv(c)
      BY DEF GateInv, ColourInv
    <3>6. PICK n \in 0..N : fullPackingArea[c] + Cardinality(At(c, {"enter"})) = n
      <4>1. CASE ~Open(c)
        BY <2>1, <3>2, <3>5, <4>1, SizeAssumption, <3>3 DEF TicketInv, Shape
      <4>2. CASE Open(c) /\ packingAreaBallCount[c] > 0
        BY <3>5, <4>2, SizeAssumption DEF TicketInv
      <4>3. CASE Open(c) /\ packingAreaBallCount[c] = 0
        <5>1. At(c, {"reopen"}) # {} \/ At(c, {"closeQueue"}) # {}
          BY <3>5, <4>3 DEF TicketInv, At
        <5> QED BY <3>4, <3>5, <4>3, <5>1, SizeAssumption DEF TicketInv
      <4> QED BY <3>2, <4>1, <4>2, <4>3
    <3>7. fullPackingArea[c] \in Nat
      BY <2>1 DEF Shape
    <3> QED BY <3>1, <3>2, <3>3, <3>6, <3>7, SizeAssumption
  <2> QED BY <2>1, <2>2 DEF TypeOK, Shape
<1> QED BY <1>1, GateInvariant, PTL

(* packaging reads the slots of pairingSystem with no lock held, and is right  *)
(* to: no ball of the colour is about to write one.                            *)
THEOREM SlotsAreStable == Spec => []NoSlotRace
<1>1. GateInv => NoSlotRace
  <2> SUFFICES ASSUME GateInv, NEW b \in Balls, NEW d \in Balls, Colour[b] = Colour[d],
                      pc[b] \in {"requeue", "read"},
                      pc[d] \in {"enter"} \cup {"closeExit", "openQueue"}
               PROVE  FALSE
    BY DEF NoSlotRace
  <2> DEFINE c == Colour[b]
  <2>1. c \in Colours /\ ColourInv(c) /\ Shape
    BY ColourAssumption DEF GateInv
  <2>2. Open(c)
    BY <2>1 DEF ColourInv, QueueInv, Open, At
  <2>3. pc[d] = "enter"
    BY <2>1, <2>2 DEF ColourInv, QueueInv, At
  <2>4. packingAreaBallCount[c] > 0
    <3>1. b \in At(c, Inside)
      BY DEF At, Inside
    <3>2. Cardinality(At(c, Inside)) # 0
      BY <3>1, AtFinite, FS_EmptySet
    <3> QED BY <2>1, <3>2, AtFinite DEF ColourInv, CountInv
  <2>5. fullPackingArea[c] + Cardinality(At(c, {"enter"})) = 0
    BY <2>1, <2>2, <2>4 DEF ColourInv, TicketInv
  <2>6. Cardinality(At(c, {"enter"})) # 0
    <3>1. d \in At(c, {"enter"})
      BY <2>3 DEF At
    <3> QED BY <3>1, AtFinite, FS_EmptySet
  <2> QED BY <2>1, <2>5, <2>6, AtFinite DEF Shape
<1> QED BY <1>1, GateInvariant, PTL

(* The two gates of a colour are never open together, which is what lets one   *)
(* packing area serve box after box.                                           *)
THEOREM GatesNeverMeet == Spec => []GatesExclude
<1>1. GateInv => GatesExclude
  BY DEF GateInv, ColourInv, ExitInv, GatesExclude
<1> QED BY <1>1, GateInvariant, PTL

-----------------------------------------------------------------------------
(* The boxes: what the calls are told, as long as no two balls have one id.     *)

(* packaging tells the balls of a box apart by their ids.                      *)
IdsDiffer == \A b, d \in Balls : Id[b] = Id[d] => b = d

(* A step of b also leaves the answers of the other calls alone.               *)
BoxFrame(b) == Frame(b) /\ \A d \in Balls \ {b} : other_ids'[d] = other_ids[d]

LEMMA BoxSteps ==
  ASSUME NEW b \in Balls, Shape, Call(b) \/ pack_ball(b)
  PROVE  BoxFrame(b)
<1>1. Frame(b)
  BY Steps
<1>2. \A d \in Balls \ {b} : other_ids'[d] = other_ids[d]
  BY DEF Shape, Call, pack_ball, Admit, Enter, CloseExit, OpenQueue, UnlockIn, PassQueue,
     RepostQueue, Packaging, Leave, Reopen, CloseQueue, OpenExit, UnlockOut, PassExit,
     RepostExit
<1> QED BY <1>1, <1>2 DEF BoxFrame

(* A thread that touches nothing of a colour keeps the boxes of that colour.   *)
LEMMA OtherBoxes ==
  ASSUME NEW b \in Balls, NEW c \in Colours \ {Colour[b]}, Shape, BoxFrame(b), BoxInv(c)
  PROVE  BoxInv(c)'
<1>1. \A L : At(c, L)' = At(c, L)
  BY MoveAt DEF BoxFrame, Frame, Shape
<1>2. Open(c)' <=> Open(c)
  BY <1>1 DEF Open, BoxFrame, Frame
<1>3. Batch(c)' = Batch(c) /\ Recorded(c)' = Recorded(c)
  BY DEF Batch, Recorded, BoxFrame, Frame
<1>4. SlotsHoldBox(c)'
  BY <1>1, <1>2, <1>3 DEF BoxInv, SlotsHoldBox
<1>5. ASSUME NEW d \in Balls, Colour[d] = c
      PROVE  Answered(c, d)'
  <2>1. d # b
    BY <1>5
  <2>2. pc'[d] = pc[d]
    BY <2>1 DEF BoxFrame, Frame, Goto, Shape
  <2>3. Copied(d)' = Copied(d)
    BY <1>5, <2>1 DEF Copied, BoxFrame, Frame
  <2>4. other_ids'[d] = other_ids[d]
    BY <2>1 DEF BoxFrame
  <2>5. \A e \in At(c, Matched) : Box(e)' = Box(e)
    BY DEF Box, BoxFrame, At
  <2>6. Box(d)' = Box(d)
    BY <2>4 DEF Box
  <2>7. Answered(c, d)
    BY <1>5 DEF BoxInv
  <2> QED BY <1>1, <1>2, <1>3, <2>2, <2>3, <2>4, <2>5, <2>6, <2>7 DEF Answered
<1> QED BY <1>4, <1>5 DEF BoxInv

(* A step that moves its thread among the labels outside the box, or among     *)
(* those inside it, and touches no slot and no answer.                         *)
LEMMA QuietBoxes ==
  ASSUME NEW b \in Balls, NEW from, NEW to, Shape, BoxInv(Colour[b]), Goto(b, from, to),
         Open(Colour[b])' <=> Open(Colour[b]),
         from \in Inside <=> to \in Inside, from \in Matched <=> to \in Matched,
         from # "read", to = "read" => idx'[b] = 0,
         \A d \in Balls \ {b} : idx'[d] = idx[d],
         pairingSystem' = pairingSystem, packingAreaBallCount' = packingAreaBallCount,
         other_ids' = other_ids
  PROVE  BoxInv(Colour[b])'
<1> DEFINE c == Colour[b]
<1>1. /\ At(c, Inside)' = At(c, Inside)
      /\ At(c, Matched)' = At(c, Matched)
  BY MoveAt DEF Shape
<1>2. At(c, Inside \cup Matched)' = At(c, Inside \cup Matched)
  BY <1>1 DEF At
<1>3. Batch(c)' = Batch(c) /\ Recorded(c)' = Recorded(c)
  BY DEF Batch, Recorded
<1>4. SlotsHoldBox(c)'
  BY <1>1, <1>2, <1>3 DEF BoxInv, SlotsHoldBox
<1>5. \A d : Box(d)' = Box(d)
  BY DEF Box
<1>6. ASSUME NEW d \in Balls, Colour[d] = c
      PROVE  Answered(c, d)'
  <2>1. Answered(c, d)
    BY <1>6 DEF BoxInv
  <2>2. CASE d # b
    <3>1. pc'[d] = pc[d] /\ Copied(d)' = Copied(d)
      BY <2>2 DEF Goto, Shape, Copied
    <3>2. d \in At(c, Matched \cup {"read"})' <=> d \in At(c, Matched \cup {"read"})
      BY <3>1 DEF At
    <3> QED BY <1>1, <1>3, <1>5, <2>1, <3>1, <3>2 DEF Answered
  <2>3. CASE d = b /\ to \in Matched
    <3>1. pc[b] \in Matched /\ pc'[b] \in Matched /\ pc'[b] # "read"
      BY <2>3 DEF Goto, Shape, Matched, MutexHeldOut
    <3>2. b \in At(c, Matched \cup {"read"})'
      BY <3>1 DEF At
    <3> QED BY <1>1, <1>3, <1>5, <2>1, <2>3, <3>1, <3>2 DEF Answered
  <2>4. CASE d = b /\ to \notin Matched
    <3>1. pc'[b] = to /\ b \notin At(c, Matched \cup {"read"})
      BY <2>4 DEF Goto, Shape, At
    <3>2. other_ids'[b] = {}
      BY <2>1, <2>4, <3>1 DEF Answered
    <3>3. to = "read" => Copied(b)' = {}
      BY DEF Copied, Shape
    <3> QED BY <2>4, <3>1, <3>2, <3>3 DEF Answered
  <2> QED BY <2>2, <2>3, <2>4
<1> QED BY <1>4, <1>6 DEF BoxInv

(* Coming in while the area fills: the ball is recorded in the next slot.      *)
LEMMA EnterFills ==
  ASSUME NEW b \in Balls, GateInv, BoxInv(Colour[b]), Enter(b)
  PROVE  LET c == Colour[b]
             n == packingAreaBallCount[c]
         IN /\ ~Open(c) /\ ~Open(c)' /\ At(c, MutexHeld) = {} /\ n \in 0..N-1
            /\ \E to \in {"closeExit", "unlockIn"} : Goto(b, "enter", to)
            /\ packingAreaBallCount'[c] = n + 1 /\ other_ids' = other_ids /\ idx' = idx
            /\ At(c, Inside)' = At(c, Inside) \cup {b}
            /\ At(c, Matched)' = At(c, Matched)
            /\ Recorded(c)' = Recorded(c) \cup {b}
<1> DEFINE c == Colour[b]
           n == packingAreaBallCount[c]
<1>1. c \in Colours /\ ColourInv(c) /\ Shape
  BY ColourAssumption DEF GateInv
<1>2. PICK to \in {"closeExit", "unlockIn"} : Goto(b, "enter", to)
  BY DEF Enter
<1>3. ~Open(c) /\ ~Open(c)' /\ At(c, MutexHeld) = {} /\ n \in 0..N-1
  <2>1. At(c, MutexHeld) = {}
    BY <1>1 DEF ColourInv, MutexInv, Enter, sem_wait
  <2>2. b \in At(c, {"enter"})
    BY <1>2 DEF At, Goto
  <2>3. Cardinality(At(c, {"enter"})) \in Nat /\ Cardinality(At(c, {"enter"})) # 0
    BY <2>2, AtFinite, FS_EmptySet
  <2>4. At(c, {"reopen", "closeQueue"}) = {}
    BY <2>1 DEF At, MutexHeld, MutexHeldOut
  <2>5. ~Open(c) /\ n \in 0..N-1
    BY <1>1, <2>3, <2>4, SizeAssumption DEF ColourInv, TicketInv, CountInv, Shape
  <2>6. queue' = queue /\ At(c, {"requeue"})' = At(c, {"requeue"})
    BY <1>2 DEF Enter, At, Goto
  <2> QED BY <2>1, <2>5, <2>6 DEF Open
<1>4. /\ packingAreaBallCount'[c] = n + 1
      /\ pairingSystem'[c] = [pairingSystem[c] EXCEPT ![n] = b]
      /\ other_ids' = other_ids /\ idx' = idx
  BY <1>1 DEF Enter, Shape
<1>5. /\ At(c, Inside)' = At(c, Inside) \cup {b}
      /\ At(c, Matched)' = At(c, Matched)
  <2>1. "enter" \notin Inside \cup Matched /\ to \in Inside /\ to \notin Matched
    BY DEF Inside, Matched, MutexHeldIn, MutexHeldOut
  <2> QED BY <1>1, <1>2, <2>1, MoveAt DEF Shape
<1>6. Recorded(c)' = Recorded(c) \cup {b}
  <2>1. pairingSystem[c] \in [0..N-1 -> Balls \cup {NoBall}]
    BY <1>1 DEF Shape
  <2>2. \A s \in 0..N-1 : s < n + 1 <=> s < n \/ s = n
    BY <1>3
  <2>3. \A s \in 0..N-1 : s < n => s # n
    BY <1>3
  <2>4. Recorded(c)' = {pairingSystem'[c][s] : s \in {i \in 0..N-1 : i < n + 1}}
    BY <1>4 DEF Recorded
  <2>5. Recorded(c) = {pairingSystem[c][s] : s \in {i \in 0..N-1 : i < n}}
    BY DEF Recorded
  <2>6. \A s \in 0..N-1 : s < n => pairingSystem'[c][s] = pairingSystem[c][s]
    BY <1>4, <2>1, <2>3
  <2>7. pairingSystem'[c][n] = b
    BY <1>3, <1>4, <2>1
  <2> HIDE DEF n, c
  <2>8. {i \in 0..N-1 : i < n + 1} = {i \in 0..N-1 : i < n} \cup {n}
    BY <1>3, <2>2
  <2> QED BY <2>3, <2>4, <2>5, <2>6, <2>7, <2>8
<1> QED BY <1>2, <1>3, <1>4, <1>5, <1>6

(* ... and the boxes stay as they are.                                         *)
LEMMA EnterBoxes ==
  ASSUME NEW b \in Balls, GateInv, BoxInv(Colour[b]), Enter(b)
  PROVE  BoxInv(Colour[b])'
<1> DEFINE c == Colour[b]
<1>1. c \in Colours /\ ColourInv(c) /\ Shape
  BY ColourAssumption DEF GateInv
<1>2. PICK to \in {"closeExit", "unlockIn"} : Goto(b, "enter", to)
  BY EnterFills
<1>3. ~Open(c) /\ ~Open(c)'
  BY EnterFills
<1>4. other_ids' = other_ids /\ idx' = idx
  BY EnterFills
<1>5. /\ At(c, Inside)' = At(c, Inside) \cup {b}
      /\ At(c, Matched)' = At(c, Matched)
  BY EnterFills
<1>6. Recorded(c)' = Recorded(c) \cup {b}
  BY EnterFills
<1>7. SlotsHoldBox(c)'
  BY <1>3, <1>5, <1>6 DEF BoxInv, SlotsHoldBox
<1>8. ASSUME NEW d \in Balls, Colour[d] = c
      PROVE  Answered(c, d)'
  <2>1. Answered(c, d)
    BY <1>8 DEF BoxInv
  <2>2. \A e : Box(e)' = Box(e)
    BY <1>4 DEF Box
  <2>3. CASE d = b
    <3>1. /\ b \notin At(c, Matched \cup {"read"})
          /\ pc'[b] \notin Matched \cup {"read"}
      BY <1>1, <1>2 DEF At, Goto, Shape, Matched, MutexHeldOut
    <3> QED BY <1>4, <2>1, <2>3, <3>1 DEF Answered
  <2>4. CASE d # b
    <3>1. pc'[d] = pc[d]
      BY <1>1, <1>2, <2>4 DEF Goto, Shape
    <3>2. pc[d] # "read"
      BY <1>1, <1>3, <1>8 DEF ColourInv, QueueInv, At
    <3>3. d \in At(c, Matched \cup {"read"})' <=> d \in At(c, Matched \cup {"read"})
      BY <3>1 DEF At
    <3> QED BY <1>3, <1>4, <1>5, <2>1, <2>2, <3>1, <3>2, <3>3 DEF Answered
  <2> QED BY <2>3, <2>4
<1> QED BY <1>7, <1>8 DEF BoxInv

(* When the count is N the slots hold the N balls inside.                      *)
LEMMA FullArea ==
  ASSUME NEW c \in Colours, Shape, CountInv(c), SlotsHoldBox(c), ~Open(c),
         packingAreaBallCount[c] = N
  PROVE  Batch(c) = At(c, Inside) /\ Cardinality(Batch(c)) = N
<1>1. \A s \in 0..N-1 : s < packingAreaBallCount[c]
  BY SizeAssumption
<1>2. Batch(c) = Recorded(c)
  BY <1>1 DEF Batch, Recorded
<1> QED BY <1>2 DEF SlotsHoldBox, CountInv

(* Opening the queue gate: the balls inside are the box from now on.           *)
LEMMA OpenQueueBoxes ==
  ASSUME NEW b \in Balls, GateInv, BoxInv(Colour[b]), OpenQueue(b)
  PROVE  BoxInv(Colour[b])'
<1> DEFINE c == Colour[b]
<1>1. c \in Colours /\ ColourInv(c) /\ Shape
  BY ColourAssumption DEF GateInv
<1>2. Goto(b, "openQueue", "unlockIn")
  BY DEF OpenQueue
<1>3. b \in At(c, {"closeExit", "openQueue"})
  BY <1>2 DEF At, Goto
<1>4. ~Open(c)
  BY <1>1, <1>2 DEF ColourInv, QueueInv, At, Goto
<1>5. Batch(c) = At(c, Inside) /\ Cardinality(Batch(c)) = N
  BY <1>1, <1>3, <1>4, FullArea DEF BoxInv, ColourInv, CountInv
<1>6. Open(c)'
  BY <1>1, <1>4 DEF ColourInv, QueueInv, Open, OpenQueue, sem_post, Shape
<1>7. /\ At(c, Inside)' = At(c, Inside)
      /\ At(c, Matched)' = At(c, Matched)
  <2>1. /\ "openQueue" \in Inside /\ "unlockIn" \in Inside
        /\ "openQueue" \notin Matched /\ "unlockIn" \notin Matched
    BY DEF Inside, Matched, MutexHeldIn, MutexHeldOut
  <2> QED BY <1>1, <1>2, <2>1, MoveAt DEF Shape
<1>8. Batch(c)' = Batch(c)
  BY DEF Batch, OpenQueue, area
<1>9. At(c, Inside) \subseteq At(c, Inside \cup Matched)'
  BY <1>7 DEF At
<1>10. SlotsHoldBox(c)'
  BY <1>5, <1>6, <1>7, <1>8, <1>9 DEF SlotsHoldBox
<1>11. At(c, Matched) \cap At(c, Inside) = {}
  <2>1. At(c, {"read", "leave", "reopen", "closeQueue"}) = {}
    BY <1>1, <1>4 DEF ColourInv, QueueInv
  <2> QED BY <2>1 DEF At, Inside, Matched, MutexHeldIn, MutexHeldOut
<1>12. ASSUME NEW d \in Balls, Colour[d] = c
       PROVE  Answered(c, d)'
  <2>1. Answered(c, d)
    BY <1>12 DEF BoxInv
  <2>2. \A e : Box(e)' = Box(e)
    BY DEF Box, OpenQueue
  <2>3. CASE pc[d] \in Matched
    <3>1. pc'[d] = pc[d] /\ pc[d] # "read"
      BY <1>1, <1>2, <2>3 DEF Goto, Shape, Matched, MutexHeldOut
    <3>2. Box(d) \subseteq At(c, Matched)
      BY <1>4, <2>1, <2>3 DEF Answered
    <3>3. Box(d) \cap Batch(c) = {}
      BY <1>5, <1>11, <3>2
    <3>4. d \in At(c, Matched \cup {"read"})'
      BY <1>12, <2>3, <3>1 DEF At
    <3> QED BY <1>7, <1>8, <2>1, <2>2, <2>3, <3>1, <3>2, <3>3, <3>4 DEF Answered
  <2>4. CASE pc[d] \notin Matched
    <3>1. pc'[d] \notin Matched \cup {"read"} /\ pc[d] # "read"
      BY <1>1, <1>2, <1>4, <1>12, <2>4
      DEF Goto, Shape, Matched, MutexHeldOut, ColourInv, QueueInv, At
    <3>2. d \notin At(c, Matched \cup {"read"})
      BY <2>4, <3>1 DEF At
    <3> QED BY <2>1, <3>1, <3>2 DEF Answered, OpenQueue
  <2> QED BY <2>3, <2>4
<1> QED BY <1>10, <1>12 DEF BoxInv

(* One turn of packaging: an answer grows by one slot, and the last one makes  *)
(* it the whole box.                                                           *)
LEMMA PackagingBoxes ==
  ASSUME IdsDiffer, NEW b \in Balls, GateInv, BoxInv(Colour[b]), Packaging(b)
  PROVE  BoxInv(Colour[b])'
<1> DEFINE c == Colour[b]
           s == pairingSystem[c][idx[b]]
<1>1. c \in Colours /\ ColourInv(c) /\ Shape
  BY ColourAssumption DEF GateInv
<1>2. /\ pc[b] = "read" /\ b \in At(c, {"read"})
      /\ Goto(b, "read", IF idx[b] = N - 1 THEN "leave" ELSE "read")
  BY DEF Packaging, Goto, At
<1>3. Open(c) /\ Open(c)'
  <2>1. Open(c)
    BY <1>1, <1>2 DEF ColourInv, QueueInv, At
  <2>2. queue' = queue /\ At(c, {"requeue"})' = At(c, {"requeue"})
    BY <1>2 DEF Packaging, sems, At, Goto
  <2> QED BY <2>1, <2>2 DEF Open
<1>4. s \in Balls /\ (Id[s] # Id[b] <=> s # b)
  <2>1. s \in Balls
    BY <1>1, <1>3 DEF ColourInv, SlotInv, Shape
  <2> QED BY <2>1 DEF IdsDiffer
<1>5. other_ids'[b] = (other_ids[b] \cup {s}) \ {b}
  <2>1. b \notin other_ids[b]
    BY <1>2 DEF BoxInv, Answered
  <2> QED BY <1>1, <1>4, <2>1 DEF Packaging, Shape
<1>6. \A d \in Balls \ {b} : other_ids'[d] = other_ids[d] /\ idx'[d] = idx[d] /\ pc'[d] = pc[d]
  BY <1>1, <1>2 DEF Packaging, Shape, Goto
<1>7. Batch(c)' = Batch(c)
  BY DEF Packaging, area, Batch
<1>8. /\ At(c, Inside)' = At(c, Inside)
      /\ At(c, Inside \cup Matched)' = At(c, Inside \cup Matched)
      /\ At(c, Matched) \subseteq At(c, Matched)'
  <2>1. "read" \in Inside /\ "leave" \in Inside /\ "read" \notin Matched
    BY DEF Inside, Matched, MutexHeldOut
  <2>2. pc'[b] \in Inside
    BY <1>1, <1>2, <2>1 DEF Shape, Goto
  <2> QED BY <1>2, <1>6, <2>1, <2>2 DEF At
<1>9. SlotsHoldBox(c)'
  BY <1>3, <1>7, <1>8 DEF BoxInv, SlotsHoldBox
<1>10. \A d \in At(c, Matched) : Box(d)' = Box(d) /\ d # b
  <2>1. \A d \in At(c, Matched) : d \in Balls \ {b}
    BY <1>2 DEF At, Matched, MutexHeldOut
  <2> QED BY <1>6, <2>1 DEF Box
<1>11. \A d \in At(c, Matched) : Box(d) = Batch(c) \/ Box(d) \cap Batch(c) = {}
  BY <1>3 DEF BoxInv, Answered, At
<1>12. CASE idx[b] # N - 1
  <2>1. pc'[b] = "read" /\ idx'[b] = idx[b] + 1
    BY <1>1, <1>2, <1>12 DEF Packaging, Shape, Goto
  <2>2. At(c, Matched)' = At(c, Matched)
    BY <1>2, <1>6, <2>1 DEF At, Matched, MutexHeldOut
  <2>3. other_ids'[b] = Copied(b)' \ {b}
    <3>1. \A i \in 0..N-1 : i < idx[b] + 1 <=> i < idx[b] \/ i = idx[b]
      BY <1>1 DEF Shape
    <3>2. idx[b] \in 0..N-1
      BY <1>1 DEF Shape
    <3>3. Copied(b)' = {pairingSystem[c][i] : i \in {j \in 0..N-1 : j < idx[b] + 1}}
      BY <2>1 DEF Copied, Packaging, area
    <3>4. Copied(b) = {pairingSystem[c][i] : i \in {j \in 0..N-1 : j < idx[b]}}
      BY DEF Copied
    <3>5. {j \in 0..N-1 : j < idx[b] + 1} = {j \in 0..N-1 : j < idx[b]} \cup {idx[b]}
      BY <3>1, <3>2
    <3>6. Copied(b)' = Copied(b) \cup {s}
      BY <3>3, <3>4, <3>5
    <3>7. other_ids[b] = Copied(b) \ {b}
      BY <1>2 DEF BoxInv, Answered
    <3> QED BY <1>5, <3>6, <3>7
  <2>4. ASSUME NEW d \in Balls, Colour[d] = c
        PROVE  Answered(c, d)'
    <3>1. Answered(c, d)
      BY <2>4 DEF BoxInv
    <3>2. CASE d = b
      <4>1. pc'[b] \notin Matched /\ b \in At(c, Matched \cup {"read"})'
        BY <2>1 DEF At, Matched, MutexHeldOut
      <4> QED BY <2>3, <3>2, <4>1 DEF Answered
    <3>3. CASE d # b
      <4>1. d \in At(c, Matched \cup {"read"})' <=> d \in At(c, Matched \cup {"read"})
        BY <1>6, <3>3 DEF At
      <4>2. Copied(d)' = Copied(d) /\ Box(d)' = Box(d)
        BY <1>6, <3>3 DEF Copied, Box, Packaging, area
      <4> QED BY <1>3, <1>6, <1>7, <1>10, <2>2, <3>1, <3>3, <4>1, <4>2 DEF Answered
    <3> QED BY <3>2, <3>3
  <2> QED BY <1>9, <2>4 DEF BoxInv
<1>13. CASE idx[b] = N - 1
  <2>1. pc'[b] = "leave"
    BY <1>1, <1>2, <1>13 DEF Shape, Goto
  <2>2. At(c, Matched)' = At(c, Matched) \cup {b}
    BY <1>6, <2>1 DEF At, Matched
  <2>3. Box(b)' = Batch(c)
    <3>1. other_ids[b] = Copied(b) \ {b}
      BY <1>2 DEF BoxInv, Answered
    <3>2. Copied(b) \cup {s} = Batch(c)
      <4>1. \A i \in 0..N-1 : i < N - 1 \/ i = N - 1
        BY SizeAssumption
      <4>2. N - 1 \in 0..N-1
        BY SizeAssumption
      <4> QED BY <1>13, <4>1, <4>2 DEF Copied, Batch
    <3>3. b \in Batch(c)
      <4>1. b \in At(c, Inside)
        BY <1>2 DEF At, Inside
      <4> QED BY <1>3, <4>1 DEF BoxInv, SlotsHoldBox
    <3> QED BY <1>5, <3>1, <3>2, <3>3 DEF Box
  <2>4. Cardinality(Batch(c)) = N
    BY <1>3 DEF BoxInv, SlotsHoldBox
  <2>5. ASSUME NEW d \in Balls, Colour[d] = c
        PROVE  Answered(c, d)'
    <3>1. Answered(c, d)
      BY <2>5 DEF BoxInv
    <3>2. CASE d = b
      <4>1. pc'[b] \in Matched /\ b \in At(c, Matched \cup {"read"})'
        BY <2>1 DEF At, Matched
      <4>2. \A e \in At(c, Matched)' : Box(e)' = Batch(c) \/ Box(e)' \cap Batch(c) = {}
        BY <1>10, <1>11, <2>2, <2>3
      <4> QED BY <1>3, <1>7, <2>1, <2>3, <2>4, <3>2, <4>1, <4>2 DEF Answered
    <3>3. CASE d # b
      <4>1. d \in At(c, Matched \cup {"read"})' <=> d \in At(c, Matched \cup {"read"})
        BY <1>6, <3>3 DEF At
      <4>2. Copied(d)' = Copied(d) /\ Box(d)' = Box(d)
        BY <1>6, <3>3 DEF Copied, Box, Packaging, area
      <4>3. pc[d] \in Matched => \A e \in At(c, Matched)' : Box(d) = Box(e)' \/ Box(d) \cap Box(e)' = {}
        <5> SUFFICES ASSUME pc[d] \in Matched, NEW e \in At(c, Matched)'
                     PROVE  Box(d) = Box(e)' \/ Box(d) \cap Box(e)' = {}
          OBVIOUS
        <5>1. d \in At(c, Matched)
          BY <2>5 DEF At
        <5>2. CASE e = b
          BY <1>11, <2>3, <5>1, <5>2
        <5>3. CASE e \in At(c, Matched)
          BY <1>10, <3>1, <5>3 DEF Answered
        <5> QED BY <2>2, <5>2, <5>3
      <4> QED BY <1>3, <1>6, <1>7, <1>8, <3>1, <3>3, <4>1, <4>2, <4>3 DEF Answered
    <3> QED BY <3>2, <3>3
  <2> QED BY <1>9, <2>5 DEF BoxInv
<1> QED BY <1>12, <1>13

(* Counting a ball out of the area: it keeps its place in the box.             *)
LEMMA LeaveBoxes ==
  ASSUME NEW b \in Balls, GateInv, BoxInv(Colour[b]), Leave(b)
  PROVE  BoxInv(Colour[b])'
<1> DEFINE c == Colour[b]
<1>1. c \in Colours /\ ColourInv(c) /\ Shape
  BY ColourAssumption DEF GateInv
<1>2. PICK to \in {"reopen", "unlockOut"} : Goto(b, "leave", to)
  BY DEF Leave
<1>3. Open(c) /\ Open(c)'
  <2>1. Open(c)
    BY <1>1, <1>2 DEF ColourInv, QueueInv, At, Goto
  <2>2. queue' = queue /\ At(c, {"requeue"})' = At(c, {"requeue"})
    BY <1>2 DEF Leave, At, Goto
  <2> QED BY <2>1, <2>2 DEF Open
<1>4. /\ pairingSystem' = pairingSystem /\ other_ids' = other_ids /\ idx' = idx
      /\ pc'[b] = to /\ \A d \in Balls \ {b} : pc'[d] = pc[d]
  BY <1>1, <1>2 DEF Leave, Goto, Shape
<1>5. /\ to \in Matched /\ to \notin Inside /\ to # "read" /\ pc[b] \in Matched
      /\ pc[b] # "read"
  BY <1>2 DEF Matched, Inside, MutexHeldIn, MutexHeldOut, Goto
<1>6. /\ At(c, Inside)' \subseteq At(c, Inside)
      /\ At(c, Matched)' = At(c, Matched)
      /\ At(c, Matched \cup {"read"})' = At(c, Matched \cup {"read"})
      /\ At(c, Inside \cup Matched)' = At(c, Inside \cup Matched)
  BY <1>4, <1>5 DEF At
<1>7. Batch(c)' = Batch(c)
  BY <1>4 DEF Batch
<1>8. SlotsHoldBox(c)'
  BY <1>3, <1>6, <1>7 DEF BoxInv, SlotsHoldBox
<1>9. ASSUME NEW d \in Balls, Colour[d] = c
      PROVE  Answered(c, d)'
  <2>1. Answered(c, d)
    BY <1>9 DEF BoxInv
  <2>2. Copied(d)' = Copied(d) /\ \A e : Box(e)' = Box(e)
    BY <1>4 DEF Copied, Box
  <2>3. (pc'[d] = "read" <=> pc[d] = "read") /\ (pc'[d] \in Matched <=> pc[d] \in Matched)
    BY <1>4, <1>5
  <2> QED BY <1>3, <1>4, <1>6, <1>7, <2>1, <2>2, <2>3 DEF Answered
<1> QED BY <1>8, <1>9 DEF BoxInv

(* Closing the queue gate: every ball of the box has been answered and counted *)
(* out, and the slots are free for the next.                                   *)
LEMMA CloseQueueBoxes ==
  ASSUME NEW b \in Balls, GateInv, BoxInv(Colour[b]), CloseQueue(b)
  PROVE  BoxInv(Colour[b])'
<1> DEFINE c == Colour[b]
<1>1. c \in Colours /\ ColourInv(c) /\ Shape
  BY ColourAssumption DEF GateInv
<1>2. Goto(b, "closeQueue", "openExit") /\ b \in At(c, {"reopen", "closeQueue"})
  BY DEF CloseQueue, At, Goto
<1>3. Open(c) /\ ~Open(c)'
  <2>1. Open(c)
    BY <1>1, <1>2 DEF ColourInv, QueueInv, At, Goto
  <2>2. queue[c] = 1 /\ queue'[c] = 0 /\ At(c, {"requeue"}) = {}
    BY <1>1 DEF ColourInv, QueueInv, CloseQueue, sem_wait, Shape
  <2>3. At(c, {"requeue"})' = At(c, {"requeue"})
    BY <1>2 DEF At, Goto
  <2> QED BY <2>1, <2>2, <2>3 DEF Open
<1>4. packingAreaBallCount[c] = 0 /\ At(c, Inside) = {}
  <2>1. packingAreaBallCount[c] = 0
    BY <1>1, <1>2, <1>3 DEF ColourInv, TicketInv, Shape
  <2>2. Cardinality(At(c, Inside)) = 0
    BY <1>1, <2>1 DEF ColourInv, CountInv
  <2> QED BY <2>1, <2>2, AtFinite, FS_EmptySet
<1>5. /\ pairingSystem' = pairingSystem /\ other_ids' = other_ids /\ idx' = idx
      /\ packingAreaBallCount' = packingAreaBallCount
      /\ pc'[b] = "openExit" /\ \A d \in Balls \ {b} : pc'[d] = pc[d]
  BY <1>1, <1>2 DEF CloseQueue, area, Goto, Shape
<1>6. pc[b] = "closeQueue" /\ "closeQueue" \in Matched /\ "openExit" \in Matched
      /\ "closeQueue" \notin Inside /\ "openExit" \notin Inside
  BY <1>2 DEF Matched, Inside, MutexHeldIn, MutexHeldOut, Goto
<1>7. /\ At(c, Inside)' = {}
      /\ At(c, Matched)' = At(c, Matched)
      /\ At(c, Matched \cup {"read"})' = At(c, Matched \cup {"read"})
  BY <1>4, <1>5, <1>6 DEF At
<1>8. SlotsHoldBox(c)'
  <2>1. Recorded(c)' = {}
    BY <1>4, <1>5 DEF Recorded
  <2> QED BY <1>3, <1>7, <2>1 DEF SlotsHoldBox
<1>9. Batch(c) \subseteq At(c, Matched)
  <2>1. Batch(c) \subseteq At(c, Inside \cup Matched)
    BY <1>3 DEF BoxInv, SlotsHoldBox
  <2> QED BY <1>4, <2>1 DEF At
<1>10. ASSUME NEW d \in Balls, Colour[d] = c
       PROVE  Answered(c, d)'
  <2>1. Answered(c, d)
    BY <1>10 DEF BoxInv
  <2>2. Copied(d)' = Copied(d) /\ \A e : Box(e)' = Box(e)
    BY <1>5 DEF Copied, Box
  <2>3. (pc'[d] = "read" <=> pc[d] = "read") /\ (pc'[d] \in Matched <=> pc[d] \in Matched)
    BY <1>5, <1>6
  <2>4. pc[d] \in Matched => Box(d) \subseteq At(c, Matched)
    BY <1>9, <2>1 DEF Answered
  <2> QED BY <1>3, <1>5, <1>7, <2>1, <2>2, <2>3, <2>4 DEF Answered
<1> QED BY <1>8, <1>10 DEF BoxInv

(* The other steps of pack_ball are quiet: they move their thread through a    *)
(* gate or a lock.                                                             *)
LEMMA GateMoves ==
  ASSUME NEW b \in Balls, GateInv,
         \/ Call(b) \/ Admit(b) \/ CloseExit(b) \/ UnlockIn(b) \/ PassQueue(b)
         \/ RepostQueue(b) \/ Reopen(b) \/ OpenExit(b) \/ UnlockOut(b)
         \/ PassExit(b) \/ RepostExit(b)
  PROVE  /\ Open(Colour[b])' <=> Open(Colour[b])
         /\ \E from, to :
              /\ Goto(b, from, to) /\ from # "read" /\ (to = "read" => idx'[b] = 0)
              /\ from \in Inside <=> to \in Inside
              /\ from \in Matched <=> to \in Matched
              /\ from \in {"closeExit", "openQueue"} <=> to \in {"closeExit", "openQueue"}
         /\ \A d \in Balls \ {b} : idx'[d] = idx[d]
         /\ pairingSystem' = pairingSystem /\ packingAreaBallCount' = packingAreaBallCount
         /\ other_ids' = other_ids
<1> DEFINE c == Colour[b]
<1>1. c \in Colours /\ ColourInv(c) /\ Shape /\ IdxInv
  BY ColourAssumption DEF GateInv
<1>2. PICK from, to :
        /\ Goto(b, from, to)
        /\ \/ <<from, to>> \in {<<"idle", "admit">>, <<"admit", "enter">>,
                 <<"closeExit", "openQueue">>, <<"unlockIn", "queue">>,
                 <<"openExit", "unlockOut">>, <<"unlockOut", "exit">>,
                 <<"exit", "reexit">>, <<"reexit", "done">>,
                 <<"reopen", "reopen">>, <<"reopen", "closeQueue">>}
                /\ queue' = queue
           \/ from = "queue" /\ to = "requeue" /\ queue[c] > 0
              /\ queue' = [queue EXCEPT ![c] = @ - 1] /\ idx' = idx
           \/ from = "requeue" /\ to = "read"
              /\ queue' = [queue EXCEPT ![c] = @ + 1] /\ idx' = idx
  BY DEF Call, Admit, CloseExit, UnlockIn, PassQueue, RepostQueue, Reopen, OpenExit,
     UnlockOut, PassExit, RepostExit, sems, sem_wait, sem_post
<1>3. Open(c)' <=> Open(c)
  <2>1. CASE queue' = queue /\ from # "requeue" /\ to # "requeue"
    <3>1. At(c, {"requeue"})' = At(c, {"requeue"})
      BY <1>2, <2>1 DEF At, Goto
    <3> QED BY <2>1, <3>1 DEF Open
  <2>2. CASE from = "queue" /\ to = "requeue" /\ queue[c] > 0
    <3>1. b \in At(c, {"requeue"})'
      BY <1>1, <1>2, <2>2 DEF At, Goto, Shape
    <3>2. queue[c] = 1
      BY <1>1, <2>2 DEF ColourInv, QueueInv
    <3> QED BY <3>1, <3>2 DEF Open
  <2>3. CASE from = "requeue" /\ queue' = [queue EXCEPT ![c] = @ + 1]
    <3>1. b \in At(c, {"requeue"})
      BY <1>2, <2>3 DEF At, Goto
    <3>2. queue[c] = 0
      BY <1>1, <3>1 DEF ColourInv, QueueInv
    <3>3. queue'[c] = 1
      BY <1>1, <2>3, <3>2 DEF Shape
    <3> QED BY <3>1, <3>3 DEF Open
  <2> QED BY <1>2, <2>1, <2>2, <2>3
<1>4. (from \in Inside <=> to \in Inside) /\ (from \in Matched <=> to \in Matched)
      /\ from # "read"
      /\ (from \in {"closeExit", "openQueue"} <=> to \in {"closeExit", "openQueue"})
  BY <1>2 DEF Inside, Matched, MutexHeldIn, MutexHeldOut
<1>5. to = "read" => idx'[b] = 0
  BY <1>1, <1>2 DEF Goto, IdxInv
<1>6. /\ \A d \in Balls \ {b} : idx'[d] = idx[d]
      /\ pairingSystem' = pairingSystem /\ packingAreaBallCount' = packingAreaBallCount
      /\ other_ids' = other_ids
  BY <1>1 DEF Shape, Call, Admit, CloseExit, UnlockIn, PassQueue, RepostQueue, Reopen,
     OpenExit, UnlockOut, PassExit, RepostExit, area
<1> QED BY <1>2, <1>3, <1>4, <1>5, <1>6

(* ... so they keep the boxes.                                                 *)
LEMMA GateBoxes ==
  ASSUME NEW b \in Balls, GateInv, BoxInv(Colour[b]),
         \/ Call(b) \/ Admit(b) \/ CloseExit(b) \/ UnlockIn(b) \/ PassQueue(b)
         \/ RepostQueue(b) \/ Reopen(b) \/ OpenExit(b) \/ UnlockOut(b)
         \/ PassExit(b) \/ RepostExit(b)
  PROVE  BoxInv(Colour[b])'
<1>1. Shape
  BY DEF GateInv
<1> QED BY <1>1, GateMoves, QuietBoxes

(* The boxes of every colour hold at first, when nobody has been recorded.     *)
LEMMA InitBoxes ==
  ASSUME Init, NEW c \in Colours
  PROVE  BoxInv(c)
<1>1. \A L : "idle" \notin L => At(c, L) = {}
  BY DEF Init, At
<1>2. "idle" \notin Inside /\ "idle" \notin Matched
  BY DEF Inside, Matched, MutexHeldIn, MutexHeldOut
<1>3. ~Open(c)
  BY <1>1 DEF Open, Init
<1>4. Recorded(c) = {}
  <2>1. \A i \in 0..N-1 : ~(i < packingAreaBallCount[c])
    BY SizeAssumption DEF Init
  <2> QED BY <2>1 DEF Recorded
<1>5. At(c, Inside) = {}
  BY <1>1, <1>2
<1>6. SlotsHoldBox(c)
  BY <1>3, <1>4, <1>5 DEF SlotsHoldBox
<1>7. \A b \in Balls : pc[b] = "idle" /\ other_ids[b] = {}
  BY DEF Init
<1>8. \A b \in Balls : Answered(c, b)
  BY <1>2, <1>7 DEF Answered
<1> QED BY <1>6, <1>8 DEF BoxInv

(* A step of any thread keeps the boxes of every colour.                       *)
LEMMA StepBoxes ==
  ASSUME IdsDiffer, GateInv, \A c \in Colours : BoxInv(c),
         NEW b \in Balls, Call(b) \/ pack_ball(b)
  PROVE  \A c \in Colours : BoxInv(c)'
<1>1. Colour[b] \in Colours /\ Shape
  BY ColourAssumption DEF GateInv
<1>2. BoxInv(Colour[b])'
  BY <1>1, EnterBoxes, OpenQueueBoxes, PackagingBoxes, LeaveBoxes, CloseQueueBoxes, GateBoxes
  DEF pack_ball
<1>3. \A c \in Colours \ {Colour[b]} : BoxInv(c)'
  BY <1>1, BoxSteps, OtherBoxes
<1> QED BY <1>2, <1>3

(* The gates and the boxes hold at first, and every step keeps both.           *)
LEMMA InitPack == Init => PackInv
BY InitGate, InitBoxes DEF PackInv

LEMMA StepPack ==
  ASSUME IdsDiffer, PackInv, [Next]_vars
  PROVE  PackInv'
<1>1. GateInv'
  BY StepGate DEF PackInv
<1>2. CASE UNCHANGED vars
  <2>1. /\ \A c, L : At(c, L)' = At(c, L)
        /\ \A b : Copied(b)' = Copied(b) /\ Box(b)' = Box(b)
        /\ \A c : Batch(c)' = Batch(c) /\ Recorded(c)' = Recorded(c)
    BY <1>2 DEF vars, sems, area, At, Copied, Box, Batch, Recorded
  <2>2. \A c : Open(c)' <=> Open(c)
    BY <1>2, <2>1 DEF vars, sems, Open
  <2>3. \A c \in Colours : SlotsHoldBox(c)'
    BY <2>1, <2>2 DEF PackInv, BoxInv, SlotsHoldBox
  <2>4. \A c \in Colours, b \in Balls : Colour[b] = c => Answered(c, b)'
    BY <1>2, <2>1, <2>2 DEF PackInv, BoxInv, Answered, vars
  <2> QED BY <1>1, <2>3, <2>4 DEF PackInv, BoxInv
<1>3. CASE Next
  BY <1>1, <1>3, StepBoxes DEF PackInv, Next
<1> QED BY <1>2, <1>3

(* If no two balls have the same id, the slots hold the balls inside while the *)
(* area fills and their box while it drains, a call copies exactly that box,   *)
(* and the boxes of earlier calls stay clear of it: for any number of balls of *)
(* any colours and any size of box.                                            *)
THEOREM BoxInvariant == IdsDiffer => (Spec => []PackInv)
<1> SUFFICES ASSUME IdsDiffer
             PROVE  Spec => []PackInv
  OBVIOUS
<1>1. Init => PackInv
  BY InitPack
<1>2. PackInv /\ [Next]_vars => PackInv'
  BY StepPack
<1> QED BY <1>1, <1>2, PTL DEF Spec

(* The answers partition the packed balls into boxes of N balls of one colour, *)
(* across any number of reuses of the packing area.                            *)
THEOREM AnswersPartition == IdsDiffer => (Spec => []BoxesPartition)
<1> SUFFICES ASSUME IdsDiffer
             PROVE  Spec => []BoxesPartition
  OBVIOUS
<1>1. PackInv => BoxesPartition
  <2> SUFFICES ASSUME PackInv, NEW b \in Balls, pc[b] \in Matched
               PROVE  /\ Cardinality(Box(b)) = N
                      /\ \A d \in Box(b) : Colour[d] = Colour[b]
                      /\ \A d \in Balls : pc[d] \in Matched =>
                           Box(b) = Box(d) \/ Box(b) \cap Box(d) = {}
    BY DEF BoxesPartition
  <2>1. ASSUME NEW d \in Balls
        PROVE  Colour[d] \in Colours /\ SlotsHoldBox(Colour[d]) /\ Answered(Colour[d], d)
    BY ColourAssumption DEF PackInv, BoxInv
  <2>2. ASSUME NEW d \in Balls, pc[d] \in Matched
        PROVE  \A e \in Box(d) : Colour[e] = Colour[d]
    BY <2>1, <2>2 DEF Answered, SlotsHoldBox, At
  <2>3. ASSUME NEW d \in Balls, pc[d] \in Matched
        PROVE  Box(b) = Box(d) \/ Box(b) \cap Box(d) = {}
    <3>1. CASE Colour[d] = Colour[b]
      <4>1. d \in At(Colour[b], Matched)
        BY <2>3, <3>1 DEF At
      <4> QED BY <2>1, <4>1 DEF Answered
    <3>2. CASE Colour[d] # Colour[b]
      BY <2>2, <2>3, <3>2
    <3> QED BY <3>1, <3>2
  <2> QED BY <2>1, <2>2, <2>3 DEF Answered
<1> QED BY <1>1, BoxInvariant, PTL

(* The boxes of a colour: those answered, and the one in the slots.            *)
BoxesOf(c) ==
  {Box(b) : b \in At(c, Matched)} \cup {Batch(d) : d \in {e \in {c} : Packed(e)}}

LEMMA BoxesByColour ==
  /\ packedBoxes = UNION {BoxesOf(c) : c \in Colours}
  /\ packedBoxes' = UNION {BoxesOf(c)' : c \in Colours}
<1>1. \A b \in Balls : Colour[b] \in Colours
  BY ColourAssumption
<1>2. ASSUME NEW B
      PROVE  B \in packedBoxes <=> \E c \in Colours : B \in BoxesOf(c)
  <2>1. \A c : B \in BoxesOf(c)
                <=> \/ \E b \in Balls : Colour[b] = c /\ pc[b] \in Matched /\ B = Box(b)
                    \/ Packed(c) /\ B = Batch(c)
    BY DEF At, BoxesOf
  <2>2. B \in packedBoxes <=> \/ \E b \in Balls : pc[b] \in Matched /\ B = Box(b)
                              \/ \E c \in Colours : Packed(c) /\ B = Batch(c)
    BY DEF packedBoxes
  <2> QED BY <1>1, <2>1, <2>2
<1>3. ASSUME NEW B
      PROVE  B \in packedBoxes' <=> \E c \in Colours : B \in BoxesOf(c)'
  <2>1. \A c : B \in BoxesOf(c)'
                <=> \/ \E b \in Balls : Colour[b] = c /\ pc'[b] \in Matched /\ B = Box(b)'
                    \/ Packed(c)' /\ B = Batch(c)'
    BY DEF At, BoxesOf
  <2>2. B \in packedBoxes' <=> \/ \E b \in Balls : pc'[b] \in Matched /\ B = Box(b)'
                               \/ \E c \in Colours : Packed(c)' /\ B = Batch(c)'
    BY DEF packedBoxes
  <2> QED BY <1>1, <2>1, <2>2
<1> QED BY <1>2, <1>3

(* A box is made of balls of its colour that have been counted in.             *)
LEMMA BoxesInside ==
  ASSUME PackInv, NEW c \in Colours
  PROVE  \A B \in BoxesOf(c) : B \subseteq At(c, Inside \cup Matched)
<1>1. Shape /\ ColourInv(c) /\ BoxInv(c)
  BY DEF PackInv, GateInv
<1>2. ASSUME NEW b \in At(c, Matched)
      PROVE  Box(b) \subseteq At(c, Inside \cup Matched)
  <2>1. Answered(c, b) /\ pc[b] \in Matched
    BY <1>1, <1>2 DEF BoxInv, At
  <2>2. At(c, Matched) \subseteq At(c, Inside \cup Matched)
    BY DEF At
  <2> QED BY <1>1, <2>1, <2>2 DEF Answered, BoxInv, SlotsHoldBox
<1>3. Packed(c) => Batch(c) \subseteq At(c, Inside \cup Matched)
  <2>1. CASE Open(c)
    BY <1>1, <2>1 DEF BoxInv, SlotsHoldBox
  <2>2. CASE ~Open(c) /\ Packed(c)
    <3>1. Batch(c) = At(c, Inside)
      BY <1>1, <2>2, FullArea DEF ColourInv, CountInv, BoxInv, Packed
    <3> QED BY <3>1 DEF At
  <2> QED BY <2>1, <2>2
<1> QED BY <1>2, <1>3 DEF BoxesOf

(* A thread packs no box of another colour ...                                 *)
LEMMA OtherPacked ==
  ASSUME NEW b \in Balls, NEW c \in Colours \ {Colour[b]}, Shape, BoxFrame(b)
  PROVE  BoxesOf(c)' = BoxesOf(c)
<1>1. \A L : At(c, L)' = At(c, L)
  BY MoveAt DEF BoxFrame, Frame, Shape
<1>2. Open(c)' <=> Open(c)
  BY <1>1 DEF Open, BoxFrame, Frame
<1>3. Batch(c)' = Batch(c)
  BY DEF Batch, BoxFrame, Frame
<1>4. \A e \in At(c, Matched) : Box(e)' = Box(e)
  BY DEF Box, BoxFrame, At
<1>5. Packed(c)' <=> Packed(c)
  BY <1>1, <1>2 DEF Packed
<1> QED BY <1>1, <1>3, <1>4, <1>5 DEF BoxesOf

(* ... and of its own only by coming in as the N-th ball.                      *)
LEMMA OwnPacked ==
  ASSUME IdsDiffer, PackInv, NEW b \in Balls, Call(b) \/ pack_ball(b), ~Enter(b)
  PROVE  BoxesOf(Colour[b])' = BoxesOf(Colour[b])
<1> DEFINE c == Colour[b]
<1>1. c \in Colours /\ Shape /\ ColourInv(c) /\ BoxInv(c) /\ GateInv
  BY ColourAssumption DEF PackInv, GateInv
<1>2. ASSUME At(c, Matched)' = At(c, Matched), other_ids' = other_ids, Batch(c)' = Batch(c),
             Packed(c)' <=> Packed(c)
      PROVE  BoxesOf(c)' = BoxesOf(c)
  BY <1>2 DEF BoxesOf, Box
<1>3. CASE OpenQueue(b)
  <2>1. Goto(b, "openQueue", "unlockIn")
    BY <1>3 DEF OpenQueue
  <2>2. At(c, Matched)' = At(c, Matched)
    BY <2>1 DEF At, Goto, Matched, MutexHeldOut
  <2>3. Packed(c)
    BY <2>1 DEF Packed, At, Goto
  <2>4. Open(c)'
    <3>1. queue[c] \in {0, 1} /\ ~Open(c)
      BY <1>1, <2>1 DEF ColourInv, QueueInv, At, Goto
    <3> QED BY <1>1, <1>3, <3>1 DEF OpenQueue, sem_post, Shape, Open
  <2> QED BY <1>2, <1>3, <2>2, <2>3, <2>4 DEF OpenQueue, area, Batch, Packed
<1>4. CASE Packaging(b)
  <2>1. Open(c) /\ Goto(b, "read", IF idx[b] = N - 1 THEN "leave" ELSE "read")
    BY <1>1, <1>4 DEF Packaging, Goto, ColourInv, QueueInv, At
  <2>2. Packed(c) /\ Packed(c)'
    <3>1. queue' = queue /\ At(c, {"requeue"})' = At(c, {"requeue"})
      BY <1>4, <2>1 DEF Packaging, sems, At, Goto
    <3> QED BY <2>1, <3>1 DEF Packed, Open
  <2>3. Batch(c)' = Batch(c)
    BY <1>4 DEF Packaging, area, Batch
  <2>4. \A d \in Balls \ {b} : Box(d)' = Box(d) /\ pc'[d] = pc[d]
    BY <1>1, <1>4, <2>1 DEF Packaging, Box, Shape, Goto
  <2>5. b \notin At(c, Matched)
    BY <2>1 DEF At, Goto, Matched, MutexHeldOut
  <2>6. b \in At(c, Matched)' => Box(b)' = Batch(c)
    <3>1. BoxInv(c)'
      BY <1>1, <1>4, PackagingBoxes
    <3>2. b \in At(c, Matched)' => b \in At(c, Inside)'
      <4>1. pc'[b] \in {"leave", "read"}
        BY <1>1, <2>1 DEF Goto, Shape
      <4> QED BY <4>1 DEF At, Inside
    <3>3. Open(c)'
      <4>1. queue' = queue /\ At(c, {"requeue"})' = At(c, {"requeue"})
        BY <1>4, <2>1 DEF Packaging, sems, At, Goto
      <4> QED BY <2>1, <4>1 DEF Open
    <3>4. b \in At(c, Inside)' => b \in Batch(c)'
      BY <3>1, <3>3 DEF BoxInv, SlotsHoldBox
    <3>5. b \in At(c, Matched)' => b \in Box(b)' /\ Answered(c, b)' /\ pc'[b] \in Matched
      BY <3>1 DEF BoxInv, Box, At
    <3> QED BY <2>3, <3>2, <3>3, <3>4, <3>5 DEF Answered
  <2>7. At(c, Matched)' \ {b} = At(c, Matched)
    BY <2>4, <2>5 DEF At
  <2>8. \A B : B \in BoxesOf(c) <=> B = Batch(c) \/ \E d \in At(c, Matched) : B = Box(d)
    BY <2>2 DEF BoxesOf
  <2>9. \A B : B \in BoxesOf(c)' <=> B = Batch(c) \/ \E d \in At(c, Matched)' : B = Box(d)'
    BY <2>2, <2>3 DEF BoxesOf
  <2>10. \A d \in At(c, Matched) : Box(d)' = Box(d)
    BY <2>4, <2>5 DEF At
  <2> QED BY <2>6, <2>7, <2>8, <2>9, <2>10
<1>5. CASE Leave(b)
  <2>1. PICK to \in {"reopen", "unlockOut"} : Goto(b, "leave", to)
    BY <1>5 DEF Leave
  <2>2. At(c, Matched)' = At(c, Matched)
    <3>1. "leave" \in Matched /\ to \in Matched
      BY DEF Matched, MutexHeldOut
    <3> QED BY <1>1, <2>1, <3>1, MoveAt DEF Shape
  <2>3. Packed(c)' <=> Packed(c)
    BY <1>5, <2>1 DEF Packed, Open, Leave, At, Goto
  <2> QED BY <1>2, <1>5, <2>2, <2>3 DEF Leave, Batch
<1>6. CASE CloseQueue(b)
  <2>1. Goto(b, "closeQueue", "openExit")
    BY <1>6 DEF CloseQueue
  <2>2. At(c, Matched)' = At(c, Matched)
    <3>1. "closeQueue" \in Matched /\ "openExit" \in Matched
      BY DEF Matched, MutexHeldOut
    <3> QED BY <1>1, <2>1, <3>1, MoveAt DEF Shape
  <2>3. Open(c) /\ packingAreaBallCount[c] = 0
    BY <1>1, <2>1 DEF ColourInv, QueueInv, TicketInv, Shape, At, Goto
  <2>4. At(c, Inside) = {}
    <3>1. Cardinality(At(c, Inside)) = 0
      BY <1>1, <2>3 DEF ColourInv, CountInv
    <3> QED BY <3>1, AtFinite, FS_EmptySet
  <2>5. PICK d \in At(c, Matched) : Box(d) = Batch(c)
    <3>1. Batch(c) \subseteq At(c, Inside \cup Matched)
      BY <1>1, <2>3 DEF BoxInv, SlotsHoldBox
    <3>2. 0 \in 0..N-1
      BY SizeAssumption
    <3>3. PICK d \in Batch(c) : d = pairingSystem[c][0]
      BY <3>2 DEF Batch
    <3>4. d \in At(c, Matched)
      BY <2>4, <3>1 DEF At
    <3>5. Answered(c, d) /\ pc[d] \in Matched /\ d \in Box(d)
      BY <1>1, <3>4 DEF BoxInv, At, Box
    <3>6. Box(d) = Batch(c)
      BY <2>3, <3>5 DEF Answered
    <3> QED BY <3>4, <3>6
  <2>6. BoxesOf(c) = {Box(e) : e \in At(c, Matched)}
    BY <2>5 DEF BoxesOf
  <2>7. ~Packed(c)'
    <3>1. queue[c] = 1 /\ queue'[c] = 0 /\ At(c, {"requeue"}) = {}
      BY <1>1, <1>6 DEF ColourInv, QueueInv, CloseQueue, sem_wait, Shape
    <3>2. At(c, {"closeExit", "openQueue"}) = {}
      BY <1>1, <2>3 DEF ColourInv, QueueInv, At
    <3>3. /\ At(c, {"requeue"})' = At(c, {"requeue"})
          /\ At(c, {"closeExit", "openQueue"})' = At(c, {"closeExit", "openQueue"})
      BY <2>1 DEF At, Goto
    <3> QED BY <3>1, <3>2, <3>3 DEF Packed, Open
  <2> QED BY <1>6, <2>2, <2>6, <2>7 DEF BoxesOf, CloseQueue, Box
<1>7. CASE ~(OpenQueue(b) \/ Packaging(b) \/ Leave(b) \/ CloseQueue(b))
  <2>1. \/ Call(b) \/ Admit(b) \/ CloseExit(b) \/ UnlockIn(b) \/ PassQueue(b)
        \/ RepostQueue(b) \/ Reopen(b) \/ OpenExit(b) \/ UnlockOut(b)
        \/ PassExit(b) \/ RepostExit(b)
    BY <1>7 DEF pack_ball
  <2>2. PICK from, to :
          /\ Goto(b, from, to)
          /\ from \in Matched <=> to \in Matched
          /\ from \in {"closeExit", "openQueue"} <=> to \in {"closeExit", "openQueue"}
    BY <1>1, <2>1, GateMoves
  <2>3. /\ Open(c)' <=> Open(c)
        /\ pairingSystem' = pairingSystem /\ other_ids' = other_ids
    BY <1>1, <2>1, GateMoves
  <2>4. /\ At(c, Matched)' = At(c, Matched)
        /\ At(c, {"closeExit", "openQueue"})' = At(c, {"closeExit", "openQueue"})
    BY <1>1, <2>2 DEF Shape, At, Goto
  <2> QED BY <1>2, <2>3, <2>4 DEF Packed, Batch
<1> QED BY <1>3, <1>4, <1>5, <1>6, <1>7

(* An N-th ball coming in packs the balls inside, itself included.             *)
LEMMA EnterPacks ==
  ASSUME PackInv, NEW b \in Balls, Enter(b)
  PROVE  LET c == Colour[b]
         IN \/ BoxesOf(c)' = BoxesOf(c)
            \/ /\ BoxesOf(c)' = BoxesOf(c) \cup {At(c, Inside)'}
               /\ Cardinality(At(c, Inside)') = N
               /\ At(c, Inside)' = At(c, Inside) \cup {b}
               /\ At(c, Inside)' \cap UNION BoxesOf(c) = {}
<1> DEFINE c == Colour[b]
           n == packingAreaBallCount[c]
<1>1. c \in Colours /\ Shape /\ ColourInv(c) /\ BoxInv(c) /\ GateInv
  BY ColourAssumption DEF PackInv, GateInv
<1>2. /\ ~Open(c) /\ ~Open(c)' /\ At(c, MutexHeld) = {} /\ n \in 0..N-1
      /\ packingAreaBallCount'[c] = n + 1 /\ other_ids' = other_ids
      /\ At(c, Inside)' = At(c, Inside) \cup {b}
      /\ At(c, Matched)' = At(c, Matched)
      /\ Recorded(c)' = Recorded(c) \cup {b}
  BY <1>1, EnterFills
<1>3. Goto(b, "enter", IF n + 1 = N THEN "closeExit" ELSE "unlockIn")
  BY DEF Enter
<1>4. ~Packed(c)
  BY <1>2 DEF Packed, At, MutexHeld, MutexHeldIn
<1>5. BoxesOf(c) = {Box(d) : d \in At(c, Matched)}
  BY <1>4 DEF BoxesOf
<1>6. CASE n + 1 # N
  <2>1. ~Packed(c)'
    BY <1>2, <1>3, <1>6 DEF Packed, At, Goto, MutexHeld, MutexHeldIn
  <2>2. BoxesOf(c)' = {Box(d)' : d \in At(c, Matched)'}
    BY <2>1 DEF BoxesOf
  <2>3. \A d : Box(d)' = Box(d)
    BY <1>2 DEF Box
  <2> QED BY <1>2, <1>5, <2>2, <2>3
<1>7. CASE n + 1 = N
  <2>1. Packed(c)'
    BY <1>1, <1>3, <1>7 DEF Packed, At, Goto, Shape
  <2>2. Batch(c)' = At(c, Inside)'
    <3>1. Batch(c)' = Recorded(c)'
      <4>1. \A s \in 0..N-1 : s < packingAreaBallCount'[c]
        BY <1>2, <1>7, SizeAssumption
      <4> QED BY <4>1 DEF Batch, Recorded
    <3>2. Recorded(c) = At(c, Inside)
      BY <1>1, <1>2 DEF BoxInv, SlotsHoldBox
    <3> QED BY <1>2, <3>1, <3>2
  <2>3. Cardinality(At(c, Inside)') = N
    <3>1. "enter" \notin Inside /\ "closeExit" \in Inside
      BY DEF Inside, MutexHeldIn
    <3>2. Cardinality(At(c, Inside)') = Cardinality(At(c, Inside)) + 1
      BY <1>1, <1>3, <1>7, <3>1, MoveCard DEF Shape
    <3> QED BY <1>1, <1>7, <3>2 DEF ColourInv, CountInv
  <2>4. BoxesOf(c)' = BoxesOf(c) \cup {At(c, Inside)'}
    <3>1. BoxesOf(c)' = {Box(d)' : d \in At(c, Matched)'} \cup {Batch(c)'}
      BY <2>1 DEF BoxesOf
    <3> QED BY <1>2, <1>5, <2>2, <3>1 DEF Box
  <2>5. At(c, Inside)' \cap At(c, Matched) = {}
    <3>1. At(c, {"leave"}) = {}
      BY <1>1, <1>2 DEF ColourInv, QueueInv, At
    <3>2. At(c, Inside) \cap At(c, Matched) = {}
      BY <3>1 DEF At, Inside, Matched, MutexHeldIn, MutexHeldOut
    <3>3. b \notin At(c, Matched)
      BY <1>3 DEF At, Goto, Matched, MutexHeldOut
    <3> QED BY <1>2, <3>2, <3>3
  <2>6. \A d \in At(c, Matched) : Box(d) \subseteq At(c, Matched)
    BY <1>1, <1>2 DEF BoxInv, Answered, At
  <2> QED BY <1>2, <1>5, <2>3, <2>4, <2>5, <2>6
<1> QED BY <1>6, <1>7

(* What a step of a thread does to the boxes of all colours.                   *)
LEMMA StepPacks ==
  ASSUME IdsDiffer, PackInv, NEW b \in Balls, Call(b) \/ pack_ball(b)
  PROVE  \/ packedBoxes' = packedBoxes
         \/ /\ Enter(b)
            /\ \E S : /\ packedBoxes' = packedBoxes \cup {S}
                     /\ Cardinality(S) = N
                     /\ S \subseteq At(Colour[b], Inside) \cup {b}
                     /\ S \cap UNION packedBoxes = {}
<1> DEFINE c == Colour[b]
           S == At(c, Inside)'
<1>1. c \in Colours /\ Shape
  BY ColourAssumption DEF PackInv, GateInv
<1>2. \A d \in Colours \ {c} : BoxesOf(d)' = BoxesOf(d)
  BY <1>1, BoxSteps, OtherPacked
<1>3. packedBoxes' = UNION {BoxesOf(d)' : d \in Colours}
  BY BoxesByColour
<1>4. \/ BoxesOf(c)' = BoxesOf(c)
      \/ /\ Enter(b)
         /\ BoxesOf(c)' = BoxesOf(c) \cup {S}
         /\ Cardinality(S) = N
         /\ S = At(c, Inside) \cup {b}
         /\ S \cap UNION BoxesOf(c) = {}
  BY OwnPacked, EnterPacks
<1>5. \A d \in Colours \ {c} : S \cap UNION BoxesOf(d) = {}
  <2>1. \A d \in Colours : \A B \in BoxesOf(d) : B \subseteq At(d, Inside \cup Matched)
    BY BoxesInside
  <2> QED BY <2>1 DEF At
<1> HIDE DEF S
<1>6. CASE BoxesOf(c)' = BoxesOf(c)
  BY <1>2, <1>3, <1>6, BoxesByColour
<1>7. CASE /\ BoxesOf(c)' = BoxesOf(c) \cup {S}
           /\ S \cap UNION BoxesOf(c) = {}
  <2>1. packedBoxes' = packedBoxes \cup {S}
    <3>1. \A B : B \in packedBoxes <=> \E d \in Colours : B \in BoxesOf(d)
      BY BoxesByColour
    <3>2. \A B : B \in packedBoxes' <=> \E d \in Colours : B \in BoxesOf(d)'
      BY <1>3
    <3>3. \A B : B \in BoxesOf(c)' <=> B \in BoxesOf(c) \/ B = S
      BY <1>7
    <3> QED BY <1>1, <1>2, <3>1, <3>2, <3>3
  <2>2. S \cap UNION packedBoxes = {}
    <3>1. \A B \in packedBoxes : \E d \in Colours : B \in BoxesOf(d)
      BY BoxesByColour
    <3>2. \A d \in Colours : \A B \in BoxesOf(d) : S \cap B = {}
      BY <1>5, <1>7
    <3> QED BY <3>1, <3>2
  <2> QED BY <1>4, <1>6, <2>1, <2>2
<1> QED BY <1>4, <1>6, <1>7

(* Cardinality is the same in the promise.                                     *)
LEMMA PromiseCardinality ==
  ASSUME NEW S
  PROVE  Promise!Cardinality(S) = Cardinality(S)
  BY DEF Promise!Cardinality, Cardinality

(* Every step of a thread is a step of the promise, or changes nothing of it:  *)
(* a call is an arrival, the N-th ball coming in packs a box, and giving the   *)
(* unit of the exit gate back is a return.                                     *)
LEMMA PromiseStep ==
  ASSUME IdsDiffer, PackInv, NEW b \in Balls, Call(b) \/ pack_ball(b)
  PROVE  [Promise!Next]_(Promise!vars)
<1> DEFINE called == {d \in Balls : pc[d] # "idle"}
           waiting == called \ UNION packedBoxes
           returned == {d \in Balls : pc[d] = "done"}
<1>1. Shape /\ Colour[b] \in Colours
  BY ColourAssumption DEF PackInv, GateInv
<1>2. PICK from, to : Goto(b, from, to)
  BY <1>1, BoxSteps DEF BoxFrame, Frame
<1>3. pc[b] = from /\ pc'[b] = to /\ \A d \in Balls \ {b} : pc'[d] = pc[d]
  BY <1>1, <1>2 DEF Goto, Shape
<1>4. ASSUME NEW d \in Balls, d \in UNION packedBoxes
      PROVE  pc[d] \in Inside \cup Matched
  <2>1. PICK c \in Colours : \E B \in BoxesOf(c) : d \in B
    BY <1>4, BoxesByColour
  <2> QED BY <2>1, BoxesInside DEF At
<1>5. CASE Call(b)
  <2>1. from = "idle" /\ to = "admit" /\ ~Enter(b)
    BY <1>1, <1>3, <1>5 DEF Call, Enter, Goto, Shape
  <2>2. packedBoxes' = packedBoxes
    BY <1>5, <2>1, StepPacks
  <2>3. b \notin called /\ b \notin UNION packedBoxes
    <3>1. "idle" \notin Inside \cup Matched
      BY DEF Inside, Matched, MutexHeldIn, MutexHeldOut
    <3> QED BY <1>3, <1>4, <2>1, <3>1
  <2>4. waiting' = waiting \cup {b} /\ returned' = returned
    BY <1>3, <2>1, <2>2, <2>3
  <2>5. Promise!Arrive(b)
    BY <2>2, <2>3, <2>4 DEF Promise!Arrive
  <2> QED BY <2>5 DEF Promise!Next
<1>6. CASE RepostExit(b)
  <2>1. from = "reexit" /\ to = "done" /\ ~Enter(b)
    BY <1>1, <1>3, <1>6 DEF RepostExit, Enter, Goto, Shape
  <2>2. packedBoxes' = packedBoxes
    BY <1>6, <2>1, StepPacks DEF pack_ball
  <2>3. b \in UNION packedBoxes /\ b \notin returned
    <3>1. Box(b) \in packedBoxes /\ b \in Box(b)
      BY <1>3, <2>1 DEF packedBoxes, Box, Matched
    <3> QED BY <1>3, <2>1, <3>1
  <2>4. waiting' = waiting /\ returned' = returned \cup {b}
    BY <1>3, <2>1, <2>2
  <2>5. Promise!Return(b)
    BY <2>2, <2>3, <2>4 DEF Promise!Return
  <2> QED BY <2>5 DEF Promise!Next
<1>7. CASE ~Call(b) /\ ~RepostExit(b)
  <2>1. from # "idle" /\ to # "idle" /\ from # "done" /\ to # "done"
    BY <1>1, <1>3, <1>7 DEF Shape, pack_ball, Admit, Enter, CloseExit, OpenQueue, UnlockIn, PassQueue,
       RepostQueue, Packaging, Leave, Reopen, CloseQueue, OpenExit, UnlockOut, PassExit, Goto
  <2>2. called' = called /\ returned' = returned
    BY <1>3, <2>1
  <2>3. CASE packedBoxes' = packedBoxes
    BY <2>2, <2>3 DEF Promise!vars
  <2>4. ASSUME Enter(b),
               NEW S, packedBoxes' = packedBoxes \cup {S}, Cardinality(S) = N,
               S \subseteq At(Colour[b], Inside) \cup {b}, S \cap UNION packedBoxes = {}
        PROVE  Promise!Next
    <3>1. \A d \in S : d \in Balls /\ Colour[d] = Colour[b]
      BY <2>4 DEF At
    <3>2. S \subseteq called
      <4>1. "idle" \notin Inside
        BY DEF Inside, MutexHeldIn
      <4> QED BY <1>3, <2>1, <2>4, <4>1 DEF At
    <3>3. S \subseteq waiting /\ waiting' = waiting \ S
      BY <2>2, <2>4, <3>2
    <3>4. Promise!Pack(S)
      BY <2>2, <2>4, <3>1, <3>3, PromiseCardinality DEF Promise!Pack
    <3> QED BY <3>3, <3>4 DEF Promise!Next
  <2> QED BY <2>3, <2>4, StepPacks
<1> QED BY <1>5, <1>6, <1>7

(* pack_ball keeps the promise of packer.h: N calls of one colour are put in   *)
(* one box, once each, before any of them returns.                             *)
THEOREM PackerKeepsPromise == IdsDiffer => (Spec => ImplementsPacking)
<1> SUFFICES ASSUME IdsDiffer
             PROVE  Spec => ImplementsPacking
  OBVIOUS
<1>1. Init => Promise!Init
  <2> SUFFICES ASSUME Init
               PROVE  Promise!Init
    OBVIOUS
  <2>1. \A b \in Balls : pc[b] = "idle"
    BY DEF Init
  <2>2. \A b \in Balls : pc[b] \notin Matched
    BY <2>1 DEF Matched, MutexHeldOut
  <2>3. \A c \in Colours : ~Packed(c)
    BY <2>1 DEF Packed, Open, At, Init
  <2>4. packedBoxes = {}
    BY <2>2, <2>3 DEF packedBoxes
  <2> QED BY <2>1, <2>4 DEF Promise!Init
<1>2. PackInv /\ [Next]_vars => [Promise!Next]_(Promise!vars)
  <2> SUFFICES ASSUME PackInv, [Next]_vars
               PROVE  [Promise!Next]_(Promise!vars)
    OBVIOUS
  <2>1. CASE UNCHANGED vars
    <3>1. packedBoxes' = packedBoxes
      BY <2>1 DEF vars, sems, area, packedBoxes, Box, Batch, Packed, Open, At
    <3> QED BY <2>1, <3>1 DEF vars, Promise!vars
  <2>2. CASE Next
    BY <2>2, PromiseStep DEF Next
  <2> QED BY <2>1, <2>2
<1> QED BY <1>1, <1>2, BoxInvariant, PTL DEF Spec, ImplementsPacking, Promise!Spec

=============================================================================
