-------------------------- MODULE BallRoundsProofs --------------------------
(* Proofs about BallRounds: for any balls and any input, that no thread looks  *)
(* at a waiter that is gone; and, if no two balls have the same id, that the   *)
(* packer of exercise 2 behind its driver is a packer for boxes of two, so     *)
(* that what PackerProofs proves of it holds, its answers are mutual, and main *)
(* reports each of them once, whenever main and the balls come to the list.    *)
EXTENDS BallRounds, FiniteSetTheorems, TLAPS

(* The packer of exercise 3 for boxes of two, with the theorems about it.      *)
G == INSTANCE PackerProofs WITH N <- 2

IdsDiffer == \A b, d \in Balls : Id[b] = Id[d] => b = d

USE DEF Places

-----------------------------------------------------------------------------
(* The barrier                                                                 *)

LEMMA BallsAreFinite ==
  ASSUME NEW S \in SUBSET Balls
  PROVE  IsFiniteSet(S) /\ Cardinality(S) \in Nat
BY BallsAssumption, FS_Subset, FS_CardinalityType

(* Where the threads stay, so do the balls on their way to the barrier.        *)
LEMMA CompanyStays ==
  ASSUME UNCHANGED th
  PROVE  Coming' = Coming /\ Spinning' = Spinning
BY DEF Coming, Spinning

(* The commands of a round, the last one read first.                           *)
LEMMA RoundOf ==
  ASSUME NEW s \in Seq(Balls), NEW n \in 0..Len(s)
  PROVE  /\ Reverse(SubSeq(s, 1, n)) \in Seq(Balls)
         /\ Len(Reverse(SubSeq(s, 1, n))) = n
         /\ SubSeq(s, n + 1, Len(s)) \in Seq(Balls)
<1>1. /\ SubSeq(s, 1, n) \in Seq(Balls) /\ Len(SubSeq(s, 1, n)) = n
      /\ SubSeq(s, n + 1, Len(s)) \in Seq(Balls)
  OBVIOUS
<1> DEFINE r == SubSeq(s, 1, n)
<1> HIDE DEF r
<1>2. ASSUME r \in Seq(Balls)
      PROVE  Reverse(r) \in Seq(Balls) /\ Len(Reverse(r)) = Len(r)
  BY <1>2 DEF Reverse
<1> QED BY <1>1, <1>2 DEF r

(* The waiter counts.                                                          *)
LEMMA WaiterCounts ==
  ASSUME waiter \in [num_ready : Nat, go : BOOLEAN, num_started : Nat]
  PROVE  /\ W!Reset => /\ waiter' \in [num_ready : Nat, go : BOOLEAN, num_started : Nat]
                       /\ ~waiter'.go /\ waiter'.num_started = 0 /\ waiter'.num_ready = 0
         /\ W!Report => /\ waiter' \in [num_ready : Nat, go : BOOLEAN, num_started : Nat]
                        /\ waiter'.num_ready = waiter.num_ready + 1
                        /\ waiter'.go = waiter.go /\ waiter'.num_started = waiter.num_started
         /\ W!Pass => /\ waiter' \in [num_ready : Nat, go : BOOLEAN, num_started : Nat]
                      /\ waiter.go /\ waiter'.num_started = waiter.num_started + 1
         /\ \A n : W!Open(n) =>
              /\ waiter' \in [num_ready : Nat, go : BOOLEAN, num_started : Nat]
              /\ waiter.num_ready = n /\ waiter'.num_started = waiter.num_started
<1>1. W!Reset => /\ waiter' \in [num_ready : Nat, go : BOOLEAN, num_started : Nat]
                 /\ ~waiter'.go /\ waiter'.num_started = 0 /\ waiter'.num_ready = 0
  BY DEF W!Reset
<1>2. W!Report => /\ waiter' \in [num_ready : Nat, go : BOOLEAN, num_started : Nat]
                  /\ waiter'.num_ready = waiter.num_ready + 1
                  /\ waiter'.go = waiter.go /\ waiter'.num_started = waiter.num_started
  BY DEF W!Report
<1>3. W!Pass => /\ waiter' \in [num_ready : Nat, go : BOOLEAN, num_started : Nat]
                /\ waiter.go /\ waiter'.num_started = waiter.num_started + 1
  BY DEF W!Pass
<1>4. ASSUME NEW n, W!Open(n)
      PROVE  /\ waiter' \in [num_ready : Nat, go : BOOLEAN, num_started : Nat]
             /\ waiter.num_ready = n /\ waiter'.num_started = waiter.num_started
  BY <1>4 DEF W!Open
<1> QED BY <1>1, <1>2, <1>3, <1>4

LEMMA ReadRoundBarrier ==
  ASSUME BarrierInv, NEW n \in 0..Len(unread), ReadRound(n)
  PROVE  BarrierInv'
<1> USE DEF ReadRound
<1>1. Coming' = Coming /\ Spinning' = Spinning
  BY CompanyStays
<1>2. Coming = {} /\ Spinning = {} /\ Cardinality({}) = 0
  BY FS_EmptySet DEF BarrierInv
<1>3. cmds' \in Seq(Balls) /\ Len(cmds') = n /\ it' = cmds' /\ unread' \in Seq(Balls)
  BY RoundOf DEF BarrierInv
<1>4. waiter \in [num_ready : Nat, go : BOOLEAN, num_started : Nat]
  BY DEF BarrierInv
<1>5. n # 0 => W!Reset
  OBVIOUS
<1>6. (n = 0 <=> it' = <<>>) /\ main' = IF n = 0 THEN "sleep" ELSE "create"
  BY <1>3
<1>7. /\ waiter' \in [num_ready : Nat, go : BOOLEAN, num_started : Nat]
      /\ n # 0 => ~waiter'.go /\ waiter'.num_started = 0 /\ waiter'.num_ready = 0
  BY <1>4, <1>5, WaiterCounts
<1>8. Cardinality(Spinning') = 0 /\ Cardinality(Coming') = 0 /\ Len(it') = Len(cmds')
  BY <1>1, <1>2, <1>3
<1>9. th' = th /\ main = "read"
  OBVIOUS
<1> HIDE DEF ReadRound
<1> QED BY <1>1, <1>2, <1>3, <1>6, <1>7, <1>8, <1>9 DEF BarrierInv

LEMMA CreateBarrier ==
  ASSUME BarrierInv, Create
  PROVE  BarrierInv'
<1> USE DEF Create, ThreadGoto
<1> DEFINE b == Head(it)
<1>1. /\ it \in Seq(Balls) /\ it # <<>> /\ b \in Balls
      /\ it' \in Seq(Balls) /\ Len(it') = Len(it) - 1
      /\ main' = "create" <=> it' # <<>>
  <2>1. it \in Seq(Balls) /\ it # <<>>
    BY DEF BarrierInv
  <2>2. Tail(it) \in Seq(Balls) /\ Len(Tail(it)) = Len(it) - 1 /\ b \in Balls
    BY <2>1
  <2>3. Len(it) = 1 <=> Tail(it) = <<>>
    BY <2>1, <2>2
  <2> QED BY <2>1, <2>2, <2>3, Zenon
<1>2. /\ th' = [th EXCEPT ![b] = "ready"] /\ th[b] = "none"
      /\ th \in [Balls -> Places]
  BY Zenon DEF BarrierInv
<1> HIDE DEF b
<1>3. Coming' = Coming \cup {b} /\ Spinning' = Spinning /\ b \notin Coming
  BY <1>1, <1>2 DEF Coming, Spinning
<1>4. Cardinality(Coming') = Cardinality(Coming) + 1 /\ Cardinality(Coming) \in Nat
  BY <1>3, BallsAreFinite, FS_AddElement DEF Coming
<1>5. Cardinality(Spinning) \in Nat
  BY BallsAreFinite DEF Spinning
<1>6. /\ main = "create" /\ main' \in {"create", "open"}
      /\ UNCHANGED <<unread, cmds, waiter>>
  OBVIOUS
<1>7. th' \in [Balls -> Places]
  BY <1>1, <1>2
<1>8. Cardinality(Coming') + Cardinality(Spinning') + Len(it') = Len(cmds')
  BY <1>1, <1>3, <1>4, <1>5, <1>6 DEF BarrierInv
<1> HIDE DEF Create
<1> QED BY <1>1, <1>3, <1>6, <1>7, <1>8 DEF BarrierInv

(* main opens the barrier when all of the round spin at it.                    *)
LEMMA OpenBarrierBarrier ==
  ASSUME BarrierInv, OpenBarrier
  PROVE  BarrierInv'
<1> USE DEF OpenBarrier, MainGoto, input
<1>1. Coming' = Coming /\ Spinning' = Spinning
  BY CompanyStays
<1>2. /\ it = <<>> /\ Len(it) = 0 /\ waiter.num_started = 0
      /\ waiter.num_ready = Cardinality(Spinning)
      /\ Cardinality(Coming) + Cardinality(Spinning) + Len(it) = Len(cmds)
  BY DEF BarrierInv
<1>3. Cardinality(Coming) \in Nat /\ Cardinality(Spinning) \in Nat
  BY BallsAreFinite DEF Coming, Spinning
<1>4. /\ waiter' \in [num_ready : Nat, go : BOOLEAN, num_started : Nat]
      /\ waiter'.num_started = 0 /\ waiter.num_ready = Len(cmds)
  BY <1>2, WaiterCounts DEF BarrierInv
<1>5. Coming = {}
  <2>1. Cardinality(Coming) = 0
    BY <1>2, <1>3, <1>4
  <2>2. IsFiniteSet(Coming)
    BY BallsAreFinite DEF Coming
  <2> QED BY <2>1, <2>2, FS_EmptySet
<1>6. main' = "started" /\ UNCHANGED <<unread, cmds, it, th>>
  OBVIOUS
<1> HIDE DEF OpenBarrier
<1> QED BY <1>1, <1>2, <1>3, <1>4, <1>5, <1>6 DEF BarrierInv

(* main goes on when all of the round have gone.                               *)
LEMMA StartedBarrier ==
  ASSUME BarrierInv, Started
  PROVE  BarrierInv'
<1> USE DEF Started, MainGoto, W!AllPassed
<1>1. Coming' = Coming /\ Spinning' = Spinning
  BY CompanyStays
<1>2. Cardinality(Spinning) \in Nat
  BY BallsAreFinite DEF Spinning
<1>3. /\ main = "started" /\ main' = "sleep" /\ cmds' = <<>> /\ it = <<>> /\ Coming = {}
      /\ waiter.num_started = Len(cmds) /\ UNCHANGED <<unread, it, th, waiter>>
      /\ waiter.num_started + Cardinality(Spinning) = Len(cmds) /\ Len(cmds) \in Nat
  BY DEF BarrierInv
<1>4. Cardinality(Spinning) = 0
  BY <1>2, <1>3
<1>5. Spinning = {}
  BY <1>4, BallsAreFinite, FS_EmptySet DEF Spinning
<1> HIDE DEF Started
<1> QED BY <1>1, <1>3, <1>5 DEF BarrierInv

LEMMA ReadyBarrier ==
  ASSUME BarrierInv, NEW b \in Balls, Ready(b)
  PROVE  BarrierInv'
<1> USE DEF Ready, ThreadGoto, input
<1>1. /\ th' = [th EXCEPT ![b] = "spin"] /\ th[b] = "ready"
      /\ th \in [Balls -> Places]
  BY DEF BarrierInv
<1>2. b \in Coming /\ b \notin Spinning
  BY <1>1 DEF Coming, Spinning
<1>3. Coming' = Coming \ {b} /\ Spinning' = Spinning \cup {b}
  BY <1>1 DEF Coming, Spinning
<1>4. Cardinality(Coming') = Cardinality(Coming) - 1 /\ Cardinality(Coming) \in Nat
  BY <1>2, <1>3, BallsAreFinite, FS_RemoveElement DEF Coming
<1>5. Cardinality(Spinning') = Cardinality(Spinning) + 1 /\ Cardinality(Spinning) \in Nat
  BY <1>2, <1>3, BallsAreFinite, FS_AddElement DEF Spinning
<1>6. main \in {"create", "open"} /\ Len(it) \in Nat
  BY <1>2 DEF BarrierInv
<1>7. /\ waiter' \in [num_ready : Nat, go : BOOLEAN, num_started : Nat]
      /\ waiter'.num_ready = waiter.num_ready + 1
      /\ waiter'.go = waiter.go /\ waiter'.num_started = waiter.num_started
  BY WaiterCounts DEF BarrierInv
<1>8. th' \in [Balls -> Places]
  BY <1>1
<1>9. UNCHANGED <<main, unread, cmds, it>>
  OBVIOUS
<1> HIDE DEF Ready
<1> QED BY <1>4, <1>5, <1>6, <1>7, <1>8, <1>9 DEF BarrierInv

(* A thread passes the barrier once main has opened it.                        *)
LEMMA GoBarrier ==
  ASSUME BarrierInv, NEW b \in Balls, Go(b)
  PROVE  BarrierInv'
<1> USE DEF Go, ThreadGoto, input
<1>1. /\ th' = [th EXCEPT ![b] = "pack"] /\ th[b] = "spin"
      /\ th \in [Balls -> Places]
  BY DEF BarrierInv
<1>2. b \in Spinning
  BY <1>1 DEF Spinning
<1>3. main = "started" /\ Coming = {}
  BY <1>2, WaiterCounts DEF BarrierInv
<1>4. Coming' = Coming /\ Spinning' = Spinning \ {b}
  BY <1>1 DEF Coming, Spinning
<1>5. Cardinality(Spinning') = Cardinality(Spinning) - 1 /\ Cardinality(Spinning) \in Nat
  BY <1>2, <1>4, BallsAreFinite, FS_RemoveElement DEF Spinning
<1>6. /\ waiter' \in [num_ready : Nat, go : BOOLEAN, num_started : Nat]
      /\ waiter.go /\ waiter'.num_started = waiter.num_started + 1
  BY WaiterCounts DEF BarrierInv
<1>7. th' \in [Balls -> Places]
  BY <1>1
<1>8. UNCHANGED <<main, unread, cmds, it>>
  OBVIOUS
<1> HIDE DEF Go
<1> QED BY <1>3, <1>4, <1>5, <1>6, <1>7, <1>8 DEF BarrierInv

(* The other steps of the threads and of main's round are not at the barrier.  *)
LEMMA OtherBarrier ==
  ASSUME BarrierInv, UNCHANGED <<input, waiter>>, Coming' = Coming, Spinning' = Spinning,
         th' \in [Balls -> Places],
         \/ UNCHANGED main
         \/ main \in {"sleep", "collect"} /\ main' \in {"collect", "read", "end"}
  PROVE  BarrierInv'
BY DEF BarrierInv, input

LEMMA StepBarrier ==
  ASSUME BarrierInv, [Next]_vars
  PROVE  BarrierInv'
<1>1. ASSUME UNCHANGED th, UNCHANGED <<input, waiter>>,
             \/ UNCHANGED main
             \/ main \in {"sleep", "collect"} /\ main' \in {"collect", "read", "end"}
      PROVE  BarrierInv'
  <2>1. th' \in [Balls -> Places]
    BY <1>1 DEF BarrierInv
  <2> QED BY <1>1, <2>1, CompanyStays, OtherBarrier
<1>2. CASE Wake \/ Collected \/ \E b \in Balls : Collect(b)
  BY <1>1, <1>2 DEF Wake, Collected, Collect, MainGoto
<1>3. ASSUME NEW b \in Balls, Lock(b) \/ Push(b) \/ Return(b)
      PROVE  BarrierInv'
  <2>1. PICK from, to \in {"pack", "locked", "pushed", "ended"} :
          th[b] = from /\ th' = [th EXCEPT ![b] = to]
    BY <1>3 DEF Lock, Push, Return, ThreadGoto
  <2>2. /\ th' \in [Balls -> Places]
        /\ Coming' = Coming /\ Spinning' = Spinning
    BY <2>1 DEF BarrierInv, Coming, Spinning
  <2> QED BY <1>3, <2>2, OtherBarrier DEF Lock, Push, Return
<1>4. ASSUME NEW b \in Balls, pack_ball(b)
      PROVE  BarrierInv'
  BY <1>1, <1>4 DEF pack_ball
<1>5. CASE UNCHANGED vars
  BY <1>1, <1>5 DEF vars
<1> QED BY <1>2, <1>3, <1>4, <1>5, ReadRoundBarrier, CreateBarrier, OpenBarrierBarrier,
           StartedBarrier, ReadyBarrier, GoBarrier DEF Next, main_loop, run_ball

LEMMA InitBarrier == Init => BarrierInv
<1> SUFFICES ASSUME Init
             PROVE  BarrierInv
  OBVIOUS
<1>1. Coming = {} /\ Spinning = {}
  BY DEF Init, Coming, Spinning
<1> QED BY <1>1, InputAssumption DEF Init, BarrierInv

(* No thread looks at the waiter of a round that is over, whatever the balls   *)
(* and the rounds they come in.                                                *)
THEOREM WaitersAreInScope == Spec => []WaiterInScope
<1>1. Init => BarrierInv
  BY InitBarrier
<1>2. BarrierInv /\ [Next]_vars => BarrierInv'
  BY StepBarrier
<1>3. BarrierInv => WaiterInScope
  BY DEF BarrierInv, WaiterInScope, Coming, Spinning
<1> QED BY <1>1, <1>2, <1>3, PTL DEF Spec

-----------------------------------------------------------------------------
(* The packer, as the driver names its parts and as the proofs do              *)

LEMMA SameFinite ==
  ASSUME NEW S
  PROVE  /\ P!Gates!IsFiniteSet(S) <=> IsFiniteSet(S)
         /\ G!IsFiniteSet(S) <=> IsFiniteSet(S)
         /\ P!Gates!Cardinality(S) = G!Cardinality(S)
         /\ Cardinality(S) = G!Cardinality(S)
<1>1. (P!Gates!IsFiniteSet(S) <=> IsFiniteSet(S)) /\ (G!IsFiniteSet(S) <=> IsFiniteSet(S))
  BY DEF P!Gates!IsFiniteSet, G!IsFiniteSet, IsFiniteSet
<1>2. P!Gates!Cardinality(S) = G!Cardinality(S) /\ Cardinality(S) = G!Cardinality(S)
  BY DEF P!Gates!Cardinality, G!Cardinality, Cardinality
<1> QED BY <1>1, <1>2

(* What the proofs of the packer assume of its constants.                      *)
LEMMA SameConstants ==
  /\ G!IsFiniteSet(Balls) /\ NoBall \notin Balls
  /\ Colour \in [Balls -> Colours]
  /\ 2 \in 1..64
  /\ DOMAIN Id = Balls \cup {NoBall}
  /\ G!IdsDiffer <=> IdsDiffer
BY BallsAssumption, ColourAssumption, IdAssumption, SameFinite DEF G!IdsDiffer, IdsDiffer

LEMMA SameLabels ==
  /\ P!Gates!MutexHeldIn = G!MutexHeldIn /\ P!Gates!MutexHeldOut = G!MutexHeldOut
  /\ P!Gates!MutexHeld = G!MutexHeld /\ P!Gates!Inside = G!Inside
  /\ P!Gates!Matched = G!Matched /\ P!Gates!Labels = G!Labels
BY DEF P!Gates!MutexHeldIn, G!MutexHeldIn, P!Gates!MutexHeldOut, G!MutexHeldOut,
   P!Gates!MutexHeld, G!MutexHeld, P!Gates!Inside, G!Inside, P!Gates!Matched, G!Matched,
   P!Gates!Labels, G!Labels

LEMMA SameInit == (P!Init <=> G!Init) /\ (UNCHANGED packer <=> UNCHANGED G!vars)
<1>1. P!Init <=> G!Init
  BY DEF P!Init, P!Gates!Init, G!Init
<1>2. UNCHANGED packer <=> UNCHANGED G!vars
  BY DEF packer, G!vars, G!sems, G!area
<1> QED BY <1>1, <1>2

(* The gates are those of exercise 3 with N = 2.                               *)
LEMMA SameGates ==
  ASSUME NEW b
  PROVE  /\ P!Gates!Call(b) <=> G!Call(b)
         /\ P!pack_ball(b) <=> \/ G!Admit(b) \/ G!Enter(b) \/ G!CloseExit(b)
                               \/ G!OpenQueue(b) \/ G!UnlockIn(b) \/ G!PassQueue(b)
                               \/ G!RepostQueue(b) \/ P!partner(b) \/ G!Leave(b)
                               \/ G!Reopen(b) \/ G!CloseQueue(b) \/ G!OpenExit(b)
                               \/ G!UnlockOut(b) \/ G!PassExit(b) \/ G!RepostExit(b)
<1> USE DEF P!Gates!Goto, G!Goto, P!Gates!sem_wait, G!sem_wait, P!Gates!sem_post, G!sem_post,
            P!Gates!sems, G!sems, P!Gates!area, G!area
<1>1. P!Gates!Call(b) <=> G!Call(b)
  BY DEF P!Gates!Call, G!Call
<1>2. (P!Gates!Admit(b) <=> G!Admit(b)) /\ (P!Gates!Enter(b) <=> G!Enter(b))
  BY DEF P!Gates!Admit, G!Admit, P!Gates!Enter, G!Enter
<1>3. (P!Gates!CloseExit(b) <=> G!CloseExit(b)) /\ (P!Gates!OpenQueue(b) <=> G!OpenQueue(b))
  BY DEF P!Gates!CloseExit, G!CloseExit, P!Gates!OpenQueue, G!OpenQueue
<1>4. (P!Gates!UnlockIn(b) <=> G!UnlockIn(b)) /\ (P!Gates!PassQueue(b) <=> G!PassQueue(b))
  BY DEF P!Gates!UnlockIn, G!UnlockIn, P!Gates!PassQueue, G!PassQueue
<1>5. (P!Gates!RepostQueue(b) <=> G!RepostQueue(b)) /\ (P!Gates!Leave(b) <=> G!Leave(b))
  BY DEF P!Gates!RepostQueue, G!RepostQueue, P!Gates!Leave, G!Leave
<1>6. (P!Gates!Reopen(b) <=> G!Reopen(b)) /\ (P!Gates!CloseQueue(b) <=> G!CloseQueue(b))
  BY DEF P!Gates!Reopen, G!Reopen, P!Gates!CloseQueue, G!CloseQueue
<1>7. (P!Gates!OpenExit(b) <=> G!OpenExit(b)) /\ (P!Gates!UnlockOut(b) <=> G!UnlockOut(b))
  BY DEF P!Gates!OpenExit, G!OpenExit, P!Gates!UnlockOut, G!UnlockOut
<1>8. (P!Gates!PassExit(b) <=> G!PassExit(b)) /\ (P!Gates!RepostExit(b) <=> G!RepostExit(b))
  BY DEF P!Gates!PassExit, G!PassExit, P!Gates!RepostExit, G!RepostExit
<1> QED BY <1>1, <1>2, <1>3, <1>4, <1>5, <1>6, <1>7, <1>8, Zenon DEF P!pack_ball

(* The packer's invariant, in the words of either.                             *)
LEMMA SameGateInv == P!Gates!GateInv <=> G!GateInv
<1>1. \A c, L : P!Gates!At(c, L) = G!At(c, L)
  BY DEF P!Gates!At, G!At
<1>2. \A c : P!Gates!Open(c) <=> G!Open(c)
  BY <1>1 DEF P!Gates!Open, G!Open
<1>3. P!Gates!Shape <=> G!Shape
  BY SameLabels DEF P!Gates!Shape, G!Shape
<1>4. P!Gates!IdxInv <=> G!IdxInv
  BY DEF P!Gates!IdxInv, G!IdxInv
<1>5. ASSUME NEW c
      PROVE  P!Gates!ColourInv(c) <=> G!ColourInv(c)
  <2>1. P!Gates!MutexInv(c) <=> G!MutexInv(c)
    BY <1>1, SameLabels DEF P!Gates!MutexInv, G!MutexInv
  <2>2. P!Gates!QueueInv(c) <=> G!QueueInv(c)
    BY <1>1, <1>2 DEF P!Gates!QueueInv, G!QueueInv
  <2>3. P!Gates!ExitInv(c) <=> G!ExitInv(c)
    BY <1>1, <1>2 DEF P!Gates!ExitInv, G!ExitInv
  <2>4. P!Gates!CountInv(c) <=> G!CountInv(c)
    BY <1>1, SameLabels, SameFinite DEF P!Gates!CountInv, G!CountInv
  <2>5. P!Gates!TicketInv(c) <=> G!TicketInv(c)
    BY <1>1, <1>2, SameFinite DEF P!Gates!TicketInv, G!TicketInv
  <2>6. P!Gates!SlotInv(c) <=> G!SlotInv(c)
    BY <1>2 DEF P!Gates!SlotInv, G!SlotInv
  <2> QED BY <2>1, <2>2, <2>3, <2>4, <2>5, <2>6, Zenon DEF P!Gates!ColourInv, G!ColourInv
<1> QED BY <1>3, <1>4, <1>5, Zenon DEF P!Gates!GateInv, G!GateInv

LEMMA SamePackInv == P!Gates!PackInv <=> G!PackInv
<1>1. \A c, L : P!Gates!At(c, L) = G!At(c, L)
  BY DEF P!Gates!At, G!At
<1>2. \A c : P!Gates!Open(c) <=> G!Open(c)
  BY <1>1 DEF P!Gates!Open, G!Open
<1>3. /\ \A c : P!Gates!Batch(c) = G!Batch(c) /\ P!Gates!Recorded(c) = G!Recorded(c)
      /\ \A b : P!Gates!Copied(b) = G!Copied(b) /\ P!Gates!Box(b) = G!Box(b)
  BY DEF P!Gates!Batch, G!Batch, P!Gates!Recorded, G!Recorded, P!Gates!Copied, G!Copied,
     P!Gates!Box, G!Box
<1>4. \A c : P!Gates!SlotsHoldBox(c) <=> G!SlotsHoldBox(c)
  BY <1>1, <1>2, <1>3, SameLabels, SameFinite DEF P!Gates!SlotsHoldBox, G!SlotsHoldBox
<1>5. \A c, b : P!Gates!Answered(c, b) <=> G!Answered(c, b)
  BY <1>1, <1>2, <1>3, SameLabels, SameFinite DEF P!Gates!Answered, G!Answered
<1> QED BY <1>4, <1>5, SameGateInv, Zenon DEF P!Gates!PackInv, G!PackInv, P!Gates!BoxInv, G!BoxInv

-----------------------------------------------------------------------------
(* The steps of the packer                                                     *)

(* With two slots, keeping the last id that differs from one's own is keeping  *)
(* all that differ: partner is packaging.                                      *)
LEMMA PartnerIsPackaging ==
  ASSUME G!PackInv, NEW b \in Balls, P!partner(b)
  PROVE  G!Packaging(b)
<1> DEFINE c == Colour[b]
           slots == pairingSystem[c]
           s == slots[idx[b]]
<1>1. c \in Colours /\ pc[b] = "read"
  BY ColourAssumption DEF P!partner, P!Gates!Goto
<1>2. /\ idx \in [Balls -> 0..2-1] /\ other_ids \in [Balls -> SUBSET Balls]
      /\ G!QueueInv(c) /\ G!SlotsHoldBox(c) /\ G!Answered(c, b)
  BY <1>1 DEF G!PackInv, G!GateInv, G!Shape, G!ColourInv, G!BoxInv
<1>3. idx[b] = 0 \/ idx[b] = 1
  BY <1>2
<1>4. b \in G!At(c, {"read", "leave", "reopen", "closeQueue"}) /\ b \in G!At(c, G!Inside)
  BY <1>1 DEF G!At, G!Inside
<1>5. b \in G!Batch(c)
  BY <1>2, <1>4 DEF G!QueueInv, G!SlotsHoldBox
<1>6. b = slots[0] \/ b = slots[1]
  <2>1. PICK i \in 0..2-1 : b = slots[i]
    BY <1>5 DEF G!Batch
  <2> QED BY <2>1
<1>7. other_ids[b] = G!Copied(b) \ {b}
  BY <1>1, <1>2 DEF G!Answered
<1>8. other_ids[b] \subseteq {slots[0]} \ {b} /\ (idx[b] = 0 => other_ids[b] = {})
  <2>1. \A i \in 0..2-1 : i < idx[b] => i = 0 /\ idx[b] # 0
    BY <1>3
  <2>2. \A d \in G!Copied(b) : d = slots[0] /\ idx[b] # 0
    BY <2>1 DEF G!Copied
  <2> QED BY <1>7, <2>2
<1>9. Id[s] # Id[b] => other_ids[b] = {}
  <2>1. CASE idx[b] = 0
    BY <1>8, <2>1
  <2>2. CASE idx[b] = 1 /\ s # b
    <3>1. slots[0] = b
      BY <1>6, <2>2
    <3> QED BY <1>8, <3>1
  <2>3. CASE s = b
    BY <2>3
  <2> HIDE DEF s
  <2> QED BY <1>3, <2>1, <2>2, <2>3
<1>10. Id[s] # Id[b] => other_ids[b] \cup {s} = {s}
  BY <1>9
<1>11. other_ids' = IF Id[s] # Id[b] THEN [other_ids EXCEPT ![b] = @ \cup {s}] ELSE other_ids
  BY <1>10 DEF P!partner
<1>12. idx' = [idx EXCEPT ![b] = IF idx[b] = 2 - 1 THEN 0 ELSE @ + 1]
  <2>1. idx' = [idx EXCEPT ![b] = 1 - idx[b]]
    BY DEF P!partner
  <2>2. 1 - idx[b] = IF idx[b] = 2 - 1 THEN 0 ELSE idx[b] + 1
    BY <1>3
  <2> QED BY <2>1, <2>2
<1>13. G!Goto(b, "read", IF idx[b] = 2 - 1 THEN "leave" ELSE "read")
  BY DEF P!partner, P!Gates!Goto, G!Goto
<1>14. UNCHANGED <<G!sems, G!area>>
  BY DEF P!partner, P!sems, P!area, G!sems, G!area
<1> QED BY <1>11, <1>12, <1>13, <1>14 DEF G!Packaging

(* So a step of exercise 2's packer is one of exercise 3's.                    *)
LEMMA PairStep ==
  ASSUME G!PackInv, NEW b \in Balls, P!pack_ball(b)
  PROVE  G!pack_ball(b)
BY SameGates, PartnerIsPackaging DEF G!pack_ball

(* It moves one call, which has been made and can go on, and matches no ball   *)
(* with itself.                                                                *)
LEMMA PackMoves ==
  ASSUME G!PackInv, NEW b \in Balls, P!pack_ball(b)
  PROVE  /\ pc[b] \notin {"idle", "done"} /\ pc'[b] # "idle"
         /\ \A d \in Balls \ {b} : pc'[d] = pc[d] /\ other_ids'[d] = other_ids[d]
         /\ pc[b] = "admit" => fullPackingArea[Colour[b]] # 0
         /\ pc[b] = "queue" => queue[Colour[b]] # 0
         /\ b \notin other_ids[b] => b \notin other_ids'[b]
<1>1. /\ pc \in [Balls -> G!Labels] /\ other_ids \in [Balls -> SUBSET Balls]
  BY DEF G!PackInv, G!GateInv, G!Shape
<1>2. G!pack_ball(b)
  BY PairStep
<1> USE DEF G!pack_ball, G!Admit, G!Enter, G!CloseExit, G!OpenQueue, G!UnlockIn, G!PassQueue,
            G!RepostQueue, G!Packaging, G!Leave, G!Reopen, G!CloseQueue, G!OpenExit,
            G!UnlockOut, G!PassExit, G!RepostExit, G!Goto
<1>3. PICK from \in G!Labels \ {"idle", "done"}, to \in G!Labels \ {"idle"} :
        pc[b] = from /\ pc' = [pc EXCEPT ![b] = to]
  BY <1>2 DEF G!Labels, G!Inside, G!Matched, G!MutexHeldIn, G!MutexHeldOut
<1>4. pc[b] = "admit" => fullPackingArea[Colour[b]] # 0
  BY <1>2 DEF G!sem_wait
<1>5. pc[b] = "queue" => queue[Colour[b]] # 0
  BY <1>2 DEF G!sem_wait
<1>6. \/ other_ids' = other_ids
      \/ \E s : Id[s] # Id[b] /\ other_ids' = [other_ids EXCEPT ![b] = @ \cup {s}]
  BY <1>2
<1> HIDE DEF G!pack_ball
<1>7. /\ \A d \in Balls \ {b} : other_ids'[d] = other_ids[d]
      /\ b \notin other_ids[b] => b \notin other_ids'[b]
  BY <1>1, <1>6
<1> QED BY <1>1, <1>3, <1>4, <1>5, <1>7

(* A call moves one thread from where it has not called.                       *)
LEMMA CallMoves ==
  ASSUME G!PackInv, NEW b \in Balls, P!Gates!Call(b)
  PROVE  /\ pc[b] = "idle" /\ pc'[b] = "admit" /\ other_ids' = other_ids
         /\ \A d \in Balls \ {b} : pc'[d] = pc[d]
<1>1. pc \in [Balls -> G!Labels] /\ G!Call(b)
  BY SameGates DEF G!PackInv, G!GateInv, G!Shape
<1> QED BY <1>1 DEF G!Call, G!Goto

-----------------------------------------------------------------------------
(* The threads and the list of the matched                                     *)

(* A ball's thread whose own and whose packer's state stay is still at rest.   *)
LEMMA RestStays ==
  ASSUME UNCHANGED packer, NEW b \in Balls, th'[b] = th[b]
  PROVE  AtRest(b)' <=> AtRest(b)
BY DEF AtRest, packer

(* Where the packer and the threads stay, what is said of them stays.          *)
LEMMA ThreadsStay ==
  ASSUME ThreadInv, UNCHANGED <<packer, th>>
  PROVE  ThreadInv' /\ \A b \in Balls : AtRest(b)' <=> AtRest(b)
<1>1. ThreadInv'
  BY DEF ThreadInv, packer
<1>2. ASSUME NEW b \in Balls
      PROVE  AtRest(b)' <=> AtRest(b)
  BY RestStays
<1> QED BY <1>1, <1>2

(* Where the threads that have the list or are on it stay, and the list does,  *)
(* so does what is said of it, until main ends.                                *)
LEMMA ListStays ==
  ASSUME ReportInv, UNCHANGED list, Holders' = Holders, Listed' = Listed,
         \A b \in Balls : th[b] = "ended" => th'[b] = "ended",
         main # "end", main' \notin {"collect", "end"} \/ UNCHANGED main
  PROVE  ReportInv'
<1>1. \A b \in reported : b \in Balls
  BY DEF ReportInv, Listed
<1> QED BY <1>1 DEF ReportInv, list

(* A thread that moves finds main before its end.                              *)
LEMMA MainLetsMove ==
  ASSUME DriverInv, NEW b \in Balls, ~AtRest(b)
  PROVE  main # "end"
BY DEF DriverInv, ReportInv

(* The steps of main.                                                          *)
LEMMA MainKeeps ==
  ASSUME DriverInv, main_loop \/ (\E n \in 0..Len(unread) : ReadRound(n))
  PROVE  ThreadInv' /\ ReportInv'
<1>1. CASE Create
  <2> USE <1>1 DEF Create, ThreadGoto
  <2> DEFINE b == Head(it)
  <2>1. /\ th' = [th EXCEPT ![b] = "ready"] /\ th[b] = "none" /\ th \in [Balls -> Places]
    BY Zenon DEF DriverInv, BarrierInv
  <2>2. it \in Seq(Balls) /\ it # <<>>
    BY DEF DriverInv, BarrierInv
  <2>3. b \in Balls
    BY <2>2
  <2>4. main = "create" /\ main' \in {"create", "open"} /\ UNCHANGED <<packer, list>>
    OBVIOUS
  <2> HIDE <1>1 DEF Create, b
  <2>5. pc[b] = "idle" /\ UNCHANGED <<pc, other_ids>>
    BY <2>1, <2>3, <2>4 DEF DriverInv, ThreadInv, packer
  <2>6. ThreadInv'
    BY <2>1, <2>3, <2>5 DEF DriverInv, ThreadInv
  <2>7. /\ Listed' = Listed /\ Holders' = Holders
        /\ \A d \in Balls : th[d] = "ended" => th'[d] = "ended"
    BY <2>1, <2>3 DEF Listed, Holders
  <2> QED BY <2>4, <2>6, <2>7, ListStays DEF DriverInv
<1>2. ASSUME UNCHANGED <<packer, list, th>>, main # "end", main' \notin {"collect", "end"}
      PROVE  ThreadInv' /\ ReportInv'
  <2>1. Listed' = Listed /\ Holders' = Holders
    BY <1>2 DEF Listed, Holders
  <2> QED BY <1>2, <2>1, ThreadsStay, ListStays DEF DriverInv
<1>3. CASE OpenBarrier \/ Started
  BY <1>2, <1>3 DEF OpenBarrier, Started, MainGoto
<1>4. ASSUME NEW n \in 0..Len(unread), ReadRound(n)
      PROVE  ThreadInv' /\ ReportInv'
  BY <1>2, <1>4 DEF ReadRound
<1>5. CASE Wake
  <2> USE <1>5 DEF Wake, MainGoto
  <2>1. Listed' = Listed /\ Holders' = Holders
    BY DEF Listed, Holders
  <2>2. Holders = {}
    BY DEF DriverInv, ReportInv
  <2>3. ReportInv'
    BY <2>1, <2>2 DEF DriverInv, ReportInv
  <2> QED BY <2>3, ThreadsStay DEF DriverInv
<1>6. ASSUME NEW b \in Balls, Collect(b)
      PROVE  ThreadInv' /\ ReportInv'
  <2> USE <1>6 DEF Collect
  <2>1. Listed' = Listed /\ Holders' = Holders
    BY DEF Listed, Holders
  <2>2. /\ jlist' \cup reported' = jlist \cup reported /\ main' = "collect"
        /\ jlist \cap reported = {} => jlist' \cap reported' = {}
    OBVIOUS
  <2>3. Holders = {}
    BY DEF DriverInv, ReportInv
  <2>4. ReportInv'
    BY <2>1, <2>2, <2>3 DEF DriverInv, ReportInv
  <2> QED BY <2>4, ThreadsStay DEF DriverInv
<1>7. CASE Collected
  <2> USE <1>7 DEF Collected
  <2>1. Listed' = Listed /\ Holders' = Holders
    BY DEF Listed, Holders
  <2>2. Holders = {} /\ main' \in {"read", "end"}
    BY DEF DriverInv, ReportInv
  <2>3. ThreadInv' /\ \A b \in Balls : AtRest(b)' <=> AtRest(b)
    BY ThreadsStay DEF DriverInv
  <2>4. ReportInv'
    BY <2>1, <2>2, <2>3 DEF DriverInv, ReportInv
  <2> QED BY <2>3, <2>4
<1> QED BY <1>1, <1>3, <1>4, <1>5, <1>6, <1>7 DEF main_loop

(* What a step of a thread does to where it is, in run_ball and in the packer. *)
LEMMA ThreadMoves ==
  ASSUME DriverInv, G!PackInv, NEW b \in Balls, run_ball(b)
  PROVE  ~AtRest(b) /\ ThreadInv' /\ UNCHANGED main
<1>1. th \in [Balls -> Places]
  BY DEF DriverInv, BarrierInv
<1>2. /\ ~AtRest(b) /\ UNCHANGED main
      /\ \A d \in Balls \ {b} :
           /\ th'[d] = th[d] /\ pc'[d] = pc[d] /\ other_ids'[d] = other_ids[d]
      /\ th'[b] \in {"none", "ready", "spin"} => pc'[b] = "idle"
      /\ th'[b] = "pack" => pc'[b] # "idle"
      /\ th'[b] \in {"locked", "pushed", "ended"} => pc'[b] = "done"
      /\ b \notin other_ids'[b]
  <2> USE DEF ThreadGoto, DriverInv, ThreadInv
  <2>1. CASE Ready(b)
    BY <1>1, <2>1 DEF Ready, AtRest, packer
  <2>2. CASE Go(b)
    BY <1>1, <2>2, CallMoves DEF Go, AtRest
  <2>3. CASE pack_ball(b)
    <3>1. th[b] = "pack"
      BY <1>1, <2>3, PackMoves DEF pack_ball
    <3> QED BY <2>3, <3>1, PackMoves DEF pack_ball, AtRest
  <2>4. CASE Lock(b)
    BY <1>1, <2>4 DEF Lock, AtRest, packer
  <2>5. CASE Push(b) \/ Return(b)
    BY <1>1, <2>5 DEF Push, Return, AtRest, packer
  <2> QED BY <2>1, <2>2, <2>3, <2>4, <2>5 DEF run_ball
<1>3. ThreadInv'
  BY <1>2 DEF DriverInv, ThreadInv
<1> QED BY <1>2, <1>3

(* The steps of the threads.                                                   *)
LEMMA ThreadKeeps ==
  ASSUME DriverInv, G!PackInv, NEW b \in Balls, run_ball(b)
  PROVE  ThreadInv' /\ ReportInv'
<1>1. ThreadInv' /\ UNCHANGED main /\ main # "end"
  BY ThreadMoves, MainLetsMove
<1>2. th \in [Balls -> Places]
  BY DEF DriverInv, BarrierInv
<1>3. CASE Ready(b) \/ Go(b) \/ pack_ball(b)
  <2>1. /\ UNCHANGED list /\ Listed' = Listed /\ Holders' = Holders
        /\ \A d \in Balls : th[d] = "ended" => th'[d] = "ended"
    BY <1>2, <1>3 DEF Ready, Go, pack_ball, ThreadGoto, Listed, Holders
  <2> QED BY <1>1, <2>1, ListStays DEF DriverInv
<1>4. CASE Lock(b)
  <2>1. /\ th[b] = "pack" /\ th' = [th EXCEPT ![b] = "locked"] /\ jmutex = "free"
        /\ jmutex' = "held" /\ next' = [next EXCEPT ![b] = jlist]
        /\ UNCHANGED <<jlist, reported>>
    BY <1>4 DEF Lock, ThreadGoto
  <2>2. Holders = {} /\ main # "collect" /\ next \in [Balls -> SUBSET Balls]
    BY <2>1 DEF DriverInv, ReportInv
  <2>3. Holders' = {b} /\ Listed' = Listed
    BY <1>2, <2>1, <2>2 DEF Holders, Listed
  <2>4. jlist \subseteq Balls /\ \A d \in reported : d # b /\ d \in Balls
    BY <2>1 DEF DriverInv, ReportInv, Listed
  <2> QED BY <1>1, <1>2, <2>1, <2>2, <2>3, <2>4 DEF DriverInv, ReportInv
<1>5. CASE Push(b)
  <2>1. /\ th[b] = "locked" /\ th' = [th EXCEPT ![b] = "pushed"]
        /\ jmutex' = "free" /\ next' = [next EXCEPT ![b] = {}]
        /\ jlist' = next[b] \cup {b} /\ UNCHANGED reported
    BY <1>5 DEF Push, ThreadGoto
  <2>2. /\ Holders = {b} /\ next[b] = jlist /\ main # "collect"
        /\ next \in [Balls -> SUBSET Balls]
    BY <2>1 DEF DriverInv, ReportInv, Holders
  <2>3. Holders' = {} /\ Listed' = Listed \cup {b} /\ b \notin Listed
    BY <1>2, <2>1, <2>2 DEF Holders, Listed
  <2>4. \A d \in reported : d # b /\ d \in Balls
    BY <2>1 DEF DriverInv, ReportInv, Listed
  <2> QED BY <1>1, <1>2, <2>1, <2>2, <2>3, <2>4 DEF DriverInv, ReportInv
<1>6. CASE Return(b)
  <2>1. /\ UNCHANGED list /\ Listed' = Listed /\ Holders' = Holders
        /\ \A d \in Balls : th[d] = "ended" => th'[d] = "ended"
    BY <1>2, <1>6 DEF Return, ThreadGoto, Listed, Holders
  <2> QED BY <1>1, <2>1, ListStays DEF DriverInv
<1> QED BY <1>3, <1>4, <1>5, <1>6 DEF run_ball

(* A call that has its answer has been given one other ball.                   *)
LEMMA OneOther ==
  ASSUME DriverInv, G!PackInv, NEW b \in Balls, pc[b] \in G!Matched
  PROVE  /\ Cardinality(other_ids[b]) = 1 /\ b \notin other_ids[b]
         /\ other_ids[b] \subseteq Balls
<1>1. b \notin other_ids[b] /\ other_ids[b] \subseteq Balls
  BY DEF DriverInv, ThreadInv, G!PackInv, G!GateInv, G!Shape
<1>2. G!Cardinality(G!Box(b)) = 2
  BY ColourAssumption DEF G!PackInv, G!BoxInv, G!Answered
<1>3. Cardinality({b} \cup other_ids[b]) = 2
  BY <1>2, SameFinite DEF G!Box
<1>4. Cardinality(other_ids[b] \cup {b}) = Cardinality(other_ids[b]) + 1
  BY <1>1, BallsAreFinite, FS_AddElement
<1>5. other_ids[b] \cup {b} = {b} \cup other_ids[b]
  OBVIOUS
<1> QED BY <1>1, <1>3, <1>4, <1>5, BallsAreFinite

(* The boxes, in the words of either.                                          *)
LEMMA SamePacked ==
  /\ P!Gates!packedBoxes = G!packedBoxes
  /\ \A S : P!Gates!Promise!Cardinality(S) = G!Promise!Cardinality(S)
<1>1. \A c, L : P!Gates!At(c, L) = G!At(c, L)
  BY DEF P!Gates!At, G!At
<1>2. \A c : P!Gates!Open(c) <=> G!Open(c)
  BY <1>1 DEF P!Gates!Open, G!Open
<1>3. \A c : P!Gates!Packed(c) <=> G!Packed(c)
  BY <1>1, <1>2 DEF P!Gates!Packed, G!Packed
<1>4. /\ \A c : P!Gates!Batch(c) = G!Batch(c)
      /\ \A b : P!Gates!Box(b) = G!Box(b)
  BY DEF P!Gates!Batch, G!Batch, P!Gates!Box, G!Box
<1>5. P!Gates!packedBoxes = G!packedBoxes
  BY <1>3, <1>4, SameLabels DEF P!Gates!packedBoxes, G!packedBoxes
<1>6. \A S : P!Gates!Promise!Cardinality(S) = G!Promise!Cardinality(S)
  BY DEF P!Gates!Promise!Cardinality, G!Promise!Cardinality
<1> QED BY <1>5, <1>6

-----------------------------------------------------------------------------
(* What every step keeps                                                       *)

LEMMA DriverInvStarts == Init => DriverInv
<1> SUFFICES ASSUME Init
             PROVE  DriverInv
  OBVIOUS
<1>1. \A b \in Balls : pc[b] = "idle" /\ other_ids[b] = {} /\ th[b] = "none"
  BY DEF Init, P!Init, P!Gates!Init
<1>2. ThreadInv
  BY <1>1 DEF ThreadInv
<1>3. ReportInv
  BY <1>1 DEF Init, ReportInv, Listed, Holders
<1> QED BY <1>2, <1>3, InitBarrier DEF DriverInv

LEMMA DriverInvStays ==
  ASSUME DriverInv, G!PackInv, [Next]_vars
  PROVE  DriverInv'
<1>1. BarrierInv'
  BY StepBarrier DEF DriverInv
<1>2. CASE UNCHANGED vars
  <2>1. ThreadInv' /\ \A b \in Balls : AtRest(b)' <=> AtRest(b)
    BY <1>2, ThreadsStay DEF DriverInv, vars
  <2>2. ReportInv'
    BY <1>2, <2>1 DEF DriverInv, ReportInv, Listed, Holders, vars, list
  <2> QED BY <1>1, <2>1, <2>2 DEF DriverInv
<1>3. CASE Next
  BY <1>1, <1>3, MainKeeps, ThreadKeeps DEF Next, DriverInv
<1> QED BY <1>2, <1>3

(* Every step of the driver is one of the packer, or leaves it alone.          *)
LEMMA StepsOfThePacker ==
  ASSUME G!PackInv, [Next]_vars
  PROVE  [G!Next]_(G!vars)
<1>1. UNCHANGED packer => UNCHANGED G!vars
  BY SameInit
<1>2. ASSUME NEW n \in 0..Len(unread), ReadRound(n)
      PROVE  UNCHANGED packer
  BY <1>2 DEF ReadRound
<1>3. main_loop => UNCHANGED packer
  BY DEF main_loop, Create, OpenBarrier, Started, Wake, Collect, Collected
<1>4. ASSUME NEW b \in Balls, Ready(b) \/ Lock(b) \/ Push(b) \/ Return(b)
      PROVE  UNCHANGED packer
  BY <1>4 DEF Ready, Lock, Push, Return
<1>5. ASSUME NEW b \in Balls, Go(b) \/ pack_ball(b)
      PROVE  G!Next
  BY <1>5, SameGates, PairStep DEF Go, pack_ball, G!Next
<1>6. UNCHANGED vars => UNCHANGED packer
  BY DEF vars
<1> QED BY <1>1, <1>2, <1>3, <1>4, <1>5, <1>6 DEF Next, run_ball

(* Both, together: that partner keeps its promise relies on the boxes, and the *)
(* driver's list on the packer's labels.                                       *)
LEMMA BothInvariants == IdsDiffer => (Spec => [](DriverInv /\ G!PackInv))
<1> SUFFICES ASSUME IdsDiffer
             PROVE  Spec => [](DriverInv /\ G!PackInv)
  OBVIOUS
<1>1. Init => DriverInv /\ G!PackInv
  <2>1. G!Init => G!PackInv
    BY SameConstants, G!InitPack
  <2> QED BY <2>1, SameInit, DriverInvStarts DEF Init
<1>2. DriverInv /\ G!PackInv /\ [Next]_vars => (DriverInv /\ G!PackInv)'
  <2> SUFFICES ASSUME DriverInv, G!PackInv, [Next]_vars
               PROVE  DriverInv' /\ G!PackInv'
    OBVIOUS
  <2>1. [G!Next]_(G!vars)
    BY StepsOfThePacker
  <2>2. G!PackInv'
    BY <2>1, SameConstants, G!StepPack
  <2> QED BY <2>2, DriverInvStays
<1> QED BY <1>1, <1>2, PTL DEF Spec

(* With ids that differ, exercise 2's packer behind its driver is exercise 3's *)
(* for boxes of two: every step of partner's loop is one of packaging's.       *)
THEOREM PairImplementsPacker == IdsDiffer => (Spec => G!Spec)
<1> SUFFICES ASSUME IdsDiffer
             PROVE  Spec => G!Spec
  OBVIOUS
<1>1. Init => G!Init
  BY SameInit DEF Init
<1>2. DriverInv /\ G!PackInv /\ [Next]_vars => [G!Next]_(G!vars)
  BY StepsOfThePacker
<1> QED BY <1>1, <1>2, BothInvariants, PTL DEF Spec, G!Spec

(* What the driver and its packer keep.                                        *)
THEOREM RoundsInvariant == IdsDiffer => (Spec => []RoundsInv)
<1>1. DriverInv /\ G!PackInv => RoundsInv
  BY SamePackInv DEF RoundsInv
<1> QED BY <1>1, BothInvariants, PTL

(* A call that has its answer was given one ball, and that ball was given the  *)
(* caller's, across any number of reuses of the two slots.                     *)
THEOREM AnswersAreMutual == IdsDiffer => (Spec => []PairsMutual)
<1> SUFFICES ASSUME IdsDiffer
             PROVE  Spec => []PairsMutual
  OBVIOUS
<1>1. G!Spec => []G!BoxesPartition
  BY SameConstants, G!AnswersPartition, PTL
<1>2. DriverInv /\ G!PackInv /\ G!BoxesPartition => PairsMutual
  <2> SUFFICES ASSUME DriverInv, G!PackInv, G!BoxesPartition
               PROVE  PairsMutual
    OBVIOUS
  <2>1. ASSUME NEW b \in Balls, pc[b] \in G!Matched
        PROVE  /\ Cardinality(other_ids[b]) = 1
               /\ b \notin other_ids[b] /\ other_ids[b] \subseteq Balls
    BY <2>1, OneOther
  <2>2. ASSUME NEW b \in Balls, NEW d \in Balls,
               {pc[b], pc[d]} \subseteq G!Matched, d \in other_ids[b]
        PROVE  other_ids[d] = {b}
    <3>1. d \in G!Box(b) /\ d \in G!Box(d)
      BY <2>2 DEF G!Box
    <3>2. G!Box(b) = G!Box(d)
      BY <2>2, <3>1 DEF G!BoxesPartition
    <3>3. b # d /\ b \in G!Box(d)
      BY <2>1, <2>2, <3>2 DEF G!Box
    <3>4. b \in other_ids[d]
      BY <3>3 DEF G!Box
    <3> QED BY <2>1, <2>2, <3>4, FS_Singleton, BallsAreFinite
  <2> QED BY <2>1, <2>2, SameLabels, SameFinite
          DEF PairsMutual, P!PairsMutual, P!Cardinality, Cardinality
<1> QED BY <1>1, <1>2, BothInvariants, PairImplementsPacker, PTL

(* Whenever main takes the list, while whatever balls are put on it: none is   *)
(* lost or printed twice, each is printed with its partner once its thread has *)
(* ended, and at the end just the balls that have a partner have been printed. *)
THEOREM ReportsAreComplete == IdsDiffer => (Spec => []ReportsComplete)
<1> SUFFICES ASSUME IdsDiffer
             PROVE  Spec => []ReportsComplete
  OBVIOUS
<1>1. DriverInv /\ G!PackInv => ReportsComplete
  <2> SUFFICES ASSUME DriverInv, G!PackInv
               PROVE  ReportsComplete
    OBVIOUS
  <2>1. jlist \cup reported \subseteq Balls
    BY DEF DriverInv, ReportInv, Listed
  <2>2. ASSUME NEW b \in reported
        PROVE  b \in Balls /\ th[b] = "ended" /\ Cardinality(other_ids[b]) = 1
    <3>1. b \in Balls /\ th[b] = "ended" /\ pc[b] = "done"
      BY <2>1, <2>2 DEF DriverInv, ReportInv, ThreadInv
    <3>2. pc[b] \in G!Matched
      BY <3>1 DEF G!Matched
    <3> QED BY <3>1, <3>2, OneOther
  <2>3. ASSUME main = "end", NEW b \in Balls \ reported
        PROVE  other_ids[b] = {}
    <3>1. th[b] \notin {"pushed", "ended"} /\ AtRest(b)
      BY <2>3 DEF DriverInv, ReportInv, Listed
    <3>2. pc[b] \in {"idle", "admit", "queue"}
      BY <3>1 DEF DriverInv, ThreadInv, AtRest
    <3>3. b \notin G!At(Colour[b], G!Matched \cup {"read"})
      BY <3>2 DEF G!At, G!Matched, G!MutexHeldOut
    <3>4. G!Answered(Colour[b], b)
      BY ColourAssumption DEF G!PackInv, G!BoxInv
    <3> QED BY <3>3, <3>4 DEF G!Answered
  <2>4. Listed = jlist \cup reported /\ jlist \cap reported = {}
    BY DEF DriverInv, ReportInv
  <2> QED BY <2>2, <2>3, <2>4 DEF ReportsComplete
<1> QED BY <1>1, BothInvariants, PTL

(* Exercise 2's packer, driven round by round, puts balls of one colour in     *)
(* pairs, once each, before either call returns.                               *)
THEOREM PairKeepsPromise == IdsDiffer => (Spec => ImplementsPacking)
<1> SUFFICES ASSUME IdsDiffer
             PROVE  Spec => ImplementsPacking
  OBVIOUS
<1>1. G!Spec => G!ImplementsPacking
  BY SameConstants, G!PackerKeepsPromise, PTL
<1>2. G!Promise!Init => P!Gates!Promise!Init
  BY SamePacked DEF G!Promise!Init, P!Gates!Promise!Init
<1>3. [G!Promise!Next]_(G!Promise!vars) => [P!Gates!Promise!Next]_(P!Gates!Promise!vars)
  <2>1. P!Gates!packedBoxes' = G!packedBoxes'
    <3>1. P!Gates!packedBoxes = G!packedBoxes
      BY SamePacked
    <3>2. (P!Gates!packedBoxes = G!packedBoxes)'
      BY <3>1, PTL
    <3> QED BY <3>2
  <2> USE <2>1, SamePacked
  <2>2. ASSUME NEW b
        PROVE  /\ G!Promise!Arrive(b) => P!Gates!Promise!Arrive(b)
               /\ G!Promise!Return(b) => P!Gates!Promise!Return(b)
    BY DEF G!Promise!Arrive, P!Gates!Promise!Arrive, G!Promise!Return, P!Gates!Promise!Return
  <2>3. ASSUME NEW S
        PROVE  G!Promise!Pack(S) => P!Gates!Promise!Pack(S)
    BY DEF G!Promise!Pack, P!Gates!Promise!Pack
  <2>4. UNCHANGED G!Promise!vars => UNCHANGED P!Gates!Promise!vars
    BY DEF G!Promise!vars, P!Gates!Promise!vars
  <2> QED BY <2>2, <2>3, <2>4 DEF G!Promise!Next, P!Gates!Promise!Next
<1> QED BY <1>1, <1>2, <1>3, PairImplementsPacker, PTL
        DEF G!ImplementsPacking, G!Promise!Spec, ImplementsPacking, P!ImplementsPacking,
            P!Gates!ImplementsPacking, P!Gates!Promise!Spec

=============================================================================
