------------------------- MODULE GroupRoundsProofs --------------------------
(* Proofs about GroupRounds: for any groups, tables and size of the batches,   *)
(* that no thread looks at a waiter that is gone; and that with one command in *)
(* each batch the restaurant is driven one command at a time, so that what     *)
(* RestaurantProofs proves of it holds.                                        *)
EXTENDS GroupRounds, FiniteSetTheorems, TLAPS

(* The groups and the tables of the model are those of the restaurant.         *)
LEMMA GroupsAreFinite ==
  ASSUME NEW S \in SUBSET Groups
  PROVE  IsFiniteSet(S) /\ Cardinality(S) \in Nat
BY GroupsAssumption, FS_Subset, FS_CardinalityType

-----------------------------------------------------------------------------
(* What the steps of the restaurant do to the place of a thread                *)

(* Every thread is at a label.                                                 *)
LEMMA Labelled == R!SeatInv => pc \in [Groups -> R!Labels]
BY DEF R!SeatInv, R!Shape

(* A step of request_for_table moves one thread, which is not at rest, within  *)
(* request_for_table.                                                          *)
LEMMA RequestMoves ==
  ASSUME R!SeatInv, NEW g \in Groups, R!request_for_table(g)
  PROVE  /\ pc[g] \in InRequest \ {"seated"} /\ pc'[g] \in InRequest \ {"enter"}
         /\ \A h \in Groups \ {g} : pc'[h] = pc[h]
         /\ ~R!AtRest(g)
<1>1. pc \in [Groups -> R!Labels]
  BY Labelled
<1>2. PICK l \in InRequest \ {"seated"}, m \in InRequest \ {"enter"} :
        pc[g] = l /\ pc' = [pc EXCEPT ![g] = m]
  BY DEF R!request_for_table, R!Record, R!enqueue, R!ReadIndex, R!Enlist, R!Show,
     R!Count, R!Look, R!InitTurn, R!Unlock, R!AwaitTurn, R!TakeTable, R!Serve,
     R!assign_table, R!Served, R!Goto, InRequest, R!HaveMutex, R!Joining
<1>3. pc[g] = "turn" => my_turn_to_go[g] # 0
  BY DEF R!request_for_table, R!Record, R!enqueue, R!ReadIndex, R!Enlist, R!Show,
     R!Count, R!Look, R!InitTurn, R!Unlock, R!AwaitTurn, R!TakeTable, R!Serve,
     R!assign_table, R!Served, R!Goto, R!sem_wait
<1>4. pc[g] = "take" => table_available[Size[g]] # 0
  BY DEF R!request_for_table, R!Record, R!enqueue, R!ReadIndex, R!Enlist, R!Show,
     R!Count, R!Look, R!InitTurn, R!Unlock, R!AwaitTurn, R!TakeTable, R!Serve,
     R!assign_table, R!Served, R!Goto, R!sem_wait
<1>5. pc[g] = "take" => state[g].size_of_group = Size[g]
  BY DEF R!SeatInv, R!SizeInv
<1>6. ~R!AtRest(g)
  BY <1>2, <1>3, <1>4, <1>5 DEF R!AtRest, InRequest, R!HaveMutex, R!Joining
<1> QED BY <1>1, <1>2, <1>6

(* A step of leave_table moves one thread within leave_table.                  *)
LEMMA LeaveMoves ==
  ASSUME R!SeatInv, NEW g \in Groups, R!leave_table(g)
  PROVE  /\ pc[g] \in {"leave"} \cup R!HaveDone
         /\ pc'[g] \in {"gone"} \cup R!HaveDone
         /\ \A h \in Groups \ {g} : pc'[h] = pc[h]
<1>1. pc \in [Groups -> R!Labels]
  BY Labelled
<1>2. PICK l \in {"leave"} \cup R!HaveDone, m \in {"gone"} \cup R!HaveDone :
        pc[g] = l /\ pc' = [pc EXCEPT ![g] = m]
  BY DEF R!leave_table, R!Leave, R!free_table, R!Mark, R!Find, R!FindNext, R!Peek,
     R!Call, R!FreeUp, R!Left, R!Goto, R!HaveDone
<1> QED BY <1>1, <1>2

(* A command moves one thread from where it rests.                             *)
LEMMA CommandMoves ==
  ASSUME R!SeatInv, NEW g \in Groups
  PROVE  /\ R!Enter(g) => pc[g] = "idle" /\ pc'[g] = "enter"
         /\ R!Depart(g) => pc[g] = "seated" /\ pc'[g] = "leave"
         /\ R!Enter(g) \/ R!Depart(g) => \A h \in Groups \ {g} : pc'[h] = pc[h]
BY Labelled DEF R!Enter, R!Depart, R!Command, R!Goto

(* A thread whose own and whose restaurant's state stay is still at rest.      *)
LEMMA RestStays ==
  ASSUME UNCHANGED restaurant, NEW h \in Groups, th'[h] = th[h]
  PROVE  AtRest(h)' <=> AtRest(h)
BY DEF AtRest, R!AtRest, restaurant

-----------------------------------------------------------------------------
(* The steps of main                                                           *)

(* Where the threads and their semaphores stay, so do the groups on their way  *)
(* to the barrier.                                                             *)
LEMMA CompanyStays ==
  ASSUME UNCHANGED <<th, leave_sem>>
  PROVE  Coming' = Coming /\ Spinning' = Spinning
BY DEF Coming, Spinning

(* Where the restaurant stays too, so does what the threads have to do with it. *)
LEMMA ThreadsStay ==
  ASSUME DriverInv, UNCHANGED <<restaurant, th, leave_sem>>
  PROVE  /\ ThreadInv'
         /\ \A g \in Groups : AtRest(g)' <=> AtRest(g)
<1>1. ThreadInv'
  BY DEF DriverInv, ThreadInv, restaurant
<1>2. ASSUME NEW g \in Groups
      PROVE  AtRest(g)' <=> AtRest(g)
  BY RestStays
<1> QED BY <1>1, <1>2

LEMMA ReadBatchInv ==
  ASSUME DriverInv, NEW S \in SUBSET Groups, ReadBatch(S)
  PROVE  DriverInv'
<1> USE DEF ReadBatch, MainGoto, lists
<1>1. Coming' = Coming /\ Spinning' = Spinning
  BY CompanyStays
<1>2. ThreadInv' /\ \A g \in Groups : AtRest(g)' <=> AtRest(g)
  BY ThreadsStay
<1>3. Coming = {} /\ Spinning = {} /\ Cardinality({}) = 0
  BY FS_EmptySet DEF DriverInv, BarrierInv
<1>4. ASSUME NEW g \in Groups
      PROVE  AtRest(g) /\ (g \in S => th[g] \in {"none", "eating"})
  BY <1>3 DEF DriverInv, StillInv, ThreadInv, AtRest, Coming, Spinning
<1>5. BarrierInv'
  <2>1. CASE S = {}
    BY <1>1, <1>3, <2>1 DEF DriverInv, BarrierInv
  <2>2. CASE S # {}
    <3>1. /\ main' = "create" /\ cmds' = S /\ it' = S /\ th' = th
          /\ waiter' = [num_ready |-> 0, go |-> FALSE, num_started |-> 0]
      BY <2>2 DEF W!Reset
    <3>2. Cardinality(S) <= BatchSize /\ \A g \in S : th[g] \in {"none", "eating"}
      BY <1>4
    <3> QED BY <1>1, <1>3, <3>1, <3>2 DEF BarrierInv
  <2> QED BY <2>1, <2>2
<1>6. StillInv'
  BY <1>2, <1>4 DEF StillInv
<1>7. ListInv'
  BY <1>1 DEF DriverInv, ListInv
<1>8. ReportInv'
  BY FS_EmptySet DEF DriverInv, ReportInv
<1> QED BY <1>2, <1>5, <1>6, <1>7, <1>8 DEF DriverInv

LEMMA CreateInv ==
  ASSUME DriverInv, NEW g \in Groups, Create(g)
  PROVE  DriverInv'
<1> USE DEF Create, ThreadGoto, Entering, lists, report
<1>1. /\ th' = [th EXCEPT ![g] = "ready"] /\ th[g] = "none" /\ pc[g] = "idle"
      /\ th \in [Groups -> {"none", "ready", "spin", "request", "eating", "leave", "ended"}]
  BY DEF DriverInv, ThreadInv
<1>2. Coming' = Coming \cup {g} /\ Spinning' = Spinning
  BY <1>1 DEF Coming, Spinning
<1>3. ThreadInv'
  BY <1>1 DEF DriverInv, ThreadInv, restaurant
<1>4. BarrierInv'
  BY <1>1, <1>2 DEF DriverInv, BarrierInv
<1>5. StillInv'
  <2> SUFFICES ASSUME NEW h \in Groups \ (Coming' \cup Spinning')
               PROVE  AtRest(h)'
    BY DEF StillInv
  <2>1. h # g /\ th'[h] = th[h] /\ AtRest(h)
    BY <1>1, <1>2 DEF DriverInv, StillInv
  <2> QED BY <2>1, RestStays
<1>6. ListInv'
  BY <1>1, <1>2 DEF DriverInv, ListInv
<1>7. ReportInv'
  BY DEF ReportInv
<1> QED BY <1>3, <1>4, <1>5, <1>6, <1>7 DEF DriverInv

(* A group that is asked to leave is on the list.                              *)
LEMMA SendOffInv ==
  ASSUME DriverInv, NEW g \in Groups, SendOff(g)
  PROVE  DriverInv'
<1> USE DEF SendOff, Entering, report
<1>1. th[g] = "eating" /\ g \notin Coming /\ g \in real_eating_list
  BY DEF DriverInv, ThreadInv, BarrierInv, ListInv
<1>2. /\ leave_sem' = [leave_sem EXCEPT ![g] = @ + 1]
      /\ leave_sem \in [Groups -> Nat] /\ leave_sem[g] = 0 /\ leave_sem'[g] = 1
      /\ main' = IF it = {g} THEN "open" ELSE "create"
      /\ real_eating_list' = real_eating_list \ {g} /\ eating_list' = eating_list
  BY <1>1 DEF DriverInv, ThreadInv, sem_post, Coming
<1>3. Coming' = Coming \cup {g} /\ Spinning' = Spinning
  BY <1>1, <1>2 DEF Coming, Spinning
<1>4. ThreadInv'
  BY <1>2 DEF DriverInv, ThreadInv, restaurant
<1>5. BarrierInv'
  BY <1>1, <1>2, <1>3 DEF DriverInv, BarrierInv
<1>6. StillInv'
  <2> SUFFICES ASSUME NEW h \in Groups \ (Coming' \cup Spinning')
               PROVE  AtRest(h)'
    BY DEF StillInv
  <2>1. AtRest(h)
    BY <1>3 DEF DriverInv, StillInv
  <2> QED BY <2>1, RestStays
<1>7. ListInv'
  BY <1>1, <1>2, <1>3 DEF DriverInv, ListInv
<1>8. ReportInv'
  BY <1>2 DEF ReportInv
<1> QED BY <1>4, <1>5, <1>6, <1>7, <1>8 DEF DriverInv

(* main opens the barrier when all of the batch spin at it.                    *)
LEMMA OpenBarrierInv ==
  ASSUME DriverInv, OpenBarrier
  PROVE  DriverInv'
<1> USE DEF OpenBarrier, MainGoto, lists, report, W!Open
<1>1. Coming' = Coming /\ Spinning' = Spinning
  BY CompanyStays
<1>2. ThreadInv' /\ \A g \in Groups : AtRest(g)' <=> AtRest(g)
  BY ThreadsStay
<1>3. /\ main = "open" /\ it = {} /\ cmds \subseteq Groups
      /\ Cardinality(Spinning) = Cardinality(cmds) /\ Coming \cup Spinning = cmds
      /\ waiter.num_started = 0
  BY DEF DriverInv, BarrierInv
<1>4. Spinning = cmds
  BY <1>3, GroupsAreFinite, FS_Subset
<1>5. Coming = {}
  BY <1>3, <1>4 DEF Coming, Spinning
<1>6. cmds \ Spinning = {} /\ Cardinality({}) = 0
  BY <1>4, FS_EmptySet
<1>7. BarrierInv'
  <2>1. /\ main' = "started" /\ waiter' = [waiter EXCEPT !.go = TRUE]
        /\ waiter \in [num_ready : Nat, go : BOOLEAN, num_started : Nat]
        /\ cmds' = cmds /\ it' = it /\ Cardinality(cmds) <= BatchSize
    BY DEF DriverInv, BarrierInv
  <2> QED BY <1>1, <1>3, <1>4, <1>5, <1>6, <2>1 DEF BarrierInv
<1>8. StillInv'
  BY <1>1, <1>2, <1>3 DEF DriverInv, StillInv
<1>9. ListInv'
  BY <1>1 DEF DriverInv, ListInv
<1>10. ReportInv'
  BY <1>4 DEF ReportInv, Spinning
<1> QED BY <1>2, <1>7, <1>8, <1>9, <1>10 DEF DriverInv

(* main goes on when all of the batch have gone.                               *)
LEMMA StartedInv ==
  ASSUME DriverInv, Started
  PROVE  DriverInv'
<1> USE DEF Started, MainGoto, lists, report, W!AllPassed
<1>1. Coming' = Coming /\ Spinning' = Spinning
  BY CompanyStays
<1>2. ThreadInv'
  BY ThreadsStay
<1>3. /\ Cardinality(cmds \ Spinning) = Cardinality(cmds) /\ cmds \subseteq Groups
      /\ Coming = {} /\ Spinning \subseteq cmds
  BY DEF DriverInv, BarrierInv
<1>4. cmds \ Spinning = cmds
  BY <1>3, GroupsAreFinite, FS_Subset
<1>5. Spinning = {}
  BY <1>3, <1>4
<1>6. BarrierInv'
  BY <1>1, <1>3, <1>5 DEF DriverInv, BarrierInv
<1>7. StillInv' /\ ListInv' /\ ReportInv'
  BY <1>1 DEF DriverInv, StillInv, ListInv, ReportInv, restaurant
<1> QED BY <1>2, <1>6, <1>7 DEF DriverInv

LEMMA WakeInv ==
  ASSUME DriverInv, Wake
  PROVE  DriverInv'
<1> USE DEF Wake, MainGoto, lists, report
<1>1. Coming' = Coming /\ Spinning' = Spinning
  BY CompanyStays
<1>2. ThreadInv' /\ \A g \in Groups : AtRest(g)' <=> AtRest(g)
  BY ThreadsStay
<1>3. BarrierInv'
  BY <1>1 DEF DriverInv, BarrierInv
<1>4. StillInv'
  BY <1>2 DEF StillInv
<1>5. ListInv' /\ ReportInv'
  BY <1>1 DEF DriverInv, ListInv, ReportInv, restaurant
<1> QED BY <1>2, <1>3, <1>4, <1>5 DEF DriverInv

(* A group that entered has reported its command.                              *)
LEMMA SettleInv ==
  ASSUME DriverInv, NEW g \in Groups, Settle(g)
  PROVE  DriverInv'
<1> USE DEF Settle, lists, report
<1>1. Coming' = Coming /\ Spinning' = Spinning
  BY CompanyStays
<1>2. ThreadInv' /\ \A h \in Groups : AtRest(h)' <=> AtRest(h)
  BY ThreadsStay
<1>3. Coming = {} /\ Spinning = {} /\ g \in cmds
  BY DEF DriverInv, BarrierInv
<1>4. AtRest(g) /\ th[g] # "none"
  BY <1>3 DEF DriverInv, StillInv, ReportInv
<1>5. th[g] \in {"request", "eating"} => pc[g] # "enter"
  BY <1>4 DEF DriverInv, ThreadInv, AtRest, R!AtRest
<1>6. main' = "settle"
  BY <1>3, <1>4, <1>5 DEF DriverInv, ReportInv, AtRest
<1>7. BarrierInv'
  BY <1>1, <1>6 DEF DriverInv, BarrierInv
<1>8. StillInv'
  BY <1>1, <1>2, <1>6 DEF DriverInv, StillInv
<1>9. ListInv' /\ ReportInv'
  BY <1>1, <1>6 DEF DriverInv, ListInv, ReportInv, restaurant
<1> QED BY <1>2, <1>7, <1>8, <1>9 DEF DriverInv

LEMMA TakeOverInv ==
  ASSUME DriverInv, TakeOver
  PROVE  DriverInv'
<1> USE DEF TakeOver, report
<1>1. Coming' = Coming /\ Spinning' = Spinning
  BY CompanyStays
<1>2. ThreadInv' /\ \A g \in Groups : AtRest(g)' <=> AtRest(g)
  BY ThreadsStay
<1>3. BarrierInv'
  <2>1. Cardinality({}) = 0 /\ BatchSize \in Nat
    BY FS_EmptySet, BatchAssumption
  <2> QED BY <1>1, <2>1 DEF DriverInv, BarrierInv
<1>4. StillInv'
  BY <1>1, <1>2 DEF DriverInv, StillInv
<1>5. ListInv' /\ ReportInv'
  BY <1>1 DEF DriverInv, ListInv, ReportInv
<1> QED BY <1>2, <1>3, <1>4, <1>5 DEF DriverInv

-----------------------------------------------------------------------------
(* The steps of the threads                                                    *)

(* A thread at rest that is not on its way to the barrier makes no step of its *)
(* own: one that moves finds main beyond the barrier of its batch.             *)
LEMMA MoverIsNotStill ==
  ASSUME DriverInv, NEW g \in Groups \ (Coming \cup Spinning), ~AtRest(g)
  PROVE  main = "sleep" \/ (main = "started" /\ Spinning # cmds)
BY DEF DriverInv, StillInv

LEMMA ReadyInv ==
  ASSUME DriverInv, NEW g \in Groups, Ready(g)
  PROVE  DriverInv'
<1> USE DEF Ready, ThreadGoto, W!Report, report, lists
<1>1. /\ th' = [th EXCEPT ![g] = "spin"] /\ th[g] = "ready"
      /\ th \in [Groups -> {"none", "ready", "spin", "request", "eating", "leave", "ended"}]
  BY DEF DriverInv, ThreadInv
<1>2. g \in Coming /\ g \notin Spinning
  BY DEF Coming, Spinning
<1>3. Coming' = Coming \ {g} /\ Spinning' = Spinning \cup {g}
  BY <1>1 DEF Coming, Spinning
<1>4. main \in {"create", "open"}
  BY <1>2 DEF DriverInv, BarrierInv
<1>5. ThreadInv'
  BY <1>1 DEF DriverInv, ThreadInv, restaurant
<1>6. BarrierInv'
  <2>1. Cardinality(Spinning \cup {g}) = Cardinality(Spinning) + 1
    BY <1>2, GroupsAreFinite, FS_AddElement DEF Spinning
  <2>2. /\ waiter \in [num_ready : Nat, go : BOOLEAN, num_started : Nat]
        /\ waiter' = [waiter EXCEPT !.num_ready = @ + 1]
    BY DEF DriverInv, BarrierInv
  <2>3. Coming' \cup Spinning' = Coming \cup Spinning
    BY <1>2, <1>3
  <2>4. \A h \in it : th[h] \in {"none", "eating"} /\ h # g
    BY <1>1, <1>4 DEF DriverInv, BarrierInv
  <2> QED BY <1>1, <1>3, <1>4, <2>1, <2>2, <2>3, <2>4 DEF DriverInv, BarrierInv
<1>7. StillInv'
  <2> SUFFICES ASSUME NEW h \in Groups \ (Coming' \cup Spinning')
               PROVE  AtRest(h)'
    BY DEF StillInv
  <2>1. h # g /\ th'[h] = th[h] /\ AtRest(h)
    BY <1>1, <1>3, <1>4 DEF DriverInv, StillInv
  <2> QED BY <2>1, RestStays
<1>8. ListInv'
  BY <1>1, <1>2, <1>3 DEF DriverInv, ListInv
<1>9. ReportInv'
  BY <1>4 DEF ReportInv
<1> QED BY <1>5, <1>6, <1>7, <1>8, <1>9 DEF DriverInv

(* A thread passes the barrier once main has opened it.                        *)
LEMMA PassesWhenOpen ==
  ASSUME DriverInv, NEW g \in Spinning, waiter.go
  PROVE  main = "started" /\ g \in cmds /\ Spinning \subseteq cmds /\ Coming = {}
BY DEF DriverInv, BarrierInv

LEMMA GoInv ==
  ASSUME DriverInv, R!SeatInv, NEW g \in Groups, Go(g)
  PROVE  DriverInv'
<1> USE DEF Go, ThreadGoto, W!Pass, report, lists
<1>1. PICK l \in {"request", "leave"} :
        /\ th[g] = "spin" /\ th' = [th EXCEPT ![g] = l]
        /\ l = "request" => pc'[g] = "enter"
        /\ l = "leave" => pc'[g] = "leave"
  BY CommandMoves
<1>2. /\ th \in [Groups -> {"none", "ready", "spin", "request", "eating", "leave", "ended"}]
      /\ \A h \in Groups \ {g} : pc'[h] = pc[h]
  BY CommandMoves DEF DriverInv, ThreadInv
<1>3. g \in Spinning /\ g \notin Coming
  BY <1>1 DEF Coming, Spinning
<1>4. main = "started" /\ g \in cmds /\ Spinning \subseteq cmds /\ Coming = {}
  BY <1>3, PassesWhenOpen
<1>5. Coming' = Coming /\ Spinning' = Spinning \ {g}
  BY <1>1, <1>2 DEF Coming, Spinning
<1>6. ThreadInv'
  BY <1>1, <1>2 DEF DriverInv, ThreadInv, InRequest
<1>7. BarrierInv'
  <2>1. cmds \ Spinning' = (cmds \ Spinning) \cup {g} /\ cmds \ Spinning \in SUBSET Groups
    BY <1>4, <1>5 DEF DriverInv, BarrierInv
  <2>2. Cardinality(cmds \ Spinning') = Cardinality(cmds \ Spinning) + 1
    BY <1>3, <2>1, GroupsAreFinite, FS_AddElement
  <2>3. /\ waiter \in [num_ready : Nat, go : BOOLEAN, num_started : Nat]
        /\ waiter' = [waiter EXCEPT !.num_started = @ + 1]
        /\ waiter.num_started = Cardinality(cmds \ Spinning)
    BY <1>4 DEF DriverInv, BarrierInv
  <2> QED BY <1>4, <1>5, <2>2, <2>3 DEF DriverInv, BarrierInv
<1>8. StillInv'
  BY <1>3, <1>4, <1>5 DEF StillInv
<1>9. ListInv'
  BY <1>1, <1>2, <1>4, <1>5 DEF DriverInv, ListInv
<1>10. ReportInv'
  BY <1>1, <1>2 DEF DriverInv, BarrierInv, ReportInv
<1> QED BY <1>6, <1>7, <1>8, <1>9, <1>10 DEF DriverInv

(* Where main and the threads stay, and main is beyond the barrier, a step of  *)
(* the restaurant can only disturb what the threads say of it.                 *)
LEMMA RestaurantStep ==
  ASSUME DriverInv, UNCHANGED <<lists, main, cmds, it, waiter, th>>,
         main = "sleep" \/ (main = "started" /\ Spinning # cmds)
  PROVE  BarrierInv' /\ StillInv' /\ ListInv'
<1> USE DEF lists
<1>1. Coming' = Coming /\ Spinning' = Spinning
  BY CompanyStays
<1>2. BarrierInv'
  BY <1>1 DEF DriverInv, BarrierInv
<1>3. StillInv' /\ ListInv'
  BY <1>1 DEF DriverInv, StillInv, ListInv
<1> QED BY <1>2, <1>3

LEMMA RequestInv ==
  ASSUME DriverInv, R!SeatInv, NEW g \in Groups, request_for_table(g)
  PROVE  DriverInv'
<1> USE DEF request_for_table
<1>1. /\ pc[g] \in InRequest /\ pc'[g] \in InRequest \ {"enter"} /\ ~R!AtRest(g)
      /\ \A h \in Groups \ {g} : pc'[h] = pc[h]
  BY RequestMoves
<1>2. g \notin Coming \cup Spinning /\ ~AtRest(g)
  BY <1>1 DEF Coming, Spinning, AtRest
<1>3. main = "sleep" \/ (main = "started" /\ Spinning # cmds)
  BY <1>2, MoverIsNotStill
<1>4. BarrierInv' /\ StillInv' /\ ListInv'
  BY <1>3, RestaurantStep
<1>5. ThreadInv'
  BY <1>1 DEF DriverInv, ThreadInv, lists
<1>6. ReportInv'
  BY <1>1 DEF DriverInv, BarrierInv, ReportInv, report
<1> QED BY <1>4, <1>5, <1>6 DEF DriverInv

LEMMA LeaveInv ==
  ASSUME DriverInv, R!SeatInv, NEW g \in Groups, leave_table(g)
  PROVE  DriverInv'
<1> USE DEF leave_table
<1>1. /\ pc'[g] \in {"gone"} \cup R!HaveDone
      /\ \A h \in Groups \ {g} : pc'[h] = pc[h]
  BY LeaveMoves
<1>2. g \notin Coming \cup Spinning /\ ~AtRest(g)
  BY DEF Coming, Spinning, AtRest
<1>3. main = "sleep" \/ (main = "started" /\ Spinning # cmds)
  BY <1>2, MoverIsNotStill
<1>4. BarrierInv' /\ StillInv' /\ ListInv'
  BY <1>3, RestaurantStep
<1>5. ThreadInv'
  BY <1>1 DEF DriverInv, ThreadInv, lists
<1>6. ReportInv'
  BY <1>1 DEF DriverInv, BarrierInv, ReportInv, report
<1> QED BY <1>4, <1>5, <1>6 DEF DriverInv

LEMMA SeatedInv ==
  ASSUME DriverInv, NEW g \in Groups, Seated(g)
  PROVE  DriverInv'
<1> USE DEF Seated, ThreadGoto, report, restaurant
<1>1. /\ th' = [th EXCEPT ![g] = "eating"] /\ th[g] = "request" /\ pc[g] = "seated"
      /\ th \in [Groups -> {"none", "ready", "spin", "request", "eating", "leave", "ended"}]
      /\ leave_sem \in [Groups -> Nat] /\ leave_sem' = [leave_sem EXCEPT ![g] = 0]
  BY DEF DriverInv, ThreadInv
<1>2. g \notin Coming \cup Spinning /\ ~AtRest(g)
  BY <1>1 DEF Coming, Spinning, AtRest
<1>3. main = "sleep" \/ (main = "started" /\ Spinning # cmds)
  BY <1>2, MoverIsNotStill
<1>4. Coming' = Coming /\ Spinning' = Spinning
  BY <1>1 DEF Coming, Spinning
<1>5. ThreadInv'
  BY <1>1 DEF DriverInv, ThreadInv
<1>6. BarrierInv'
  BY <1>1, <1>3, <1>4 DEF DriverInv, BarrierInv
<1>7. StillInv'
  BY <1>3, <1>4 DEF StillInv
<1>8. ListInv'
  BY <1>1, <1>2, <1>3, <1>4 DEF DriverInv, ListInv
<1>9. ReportInv'
  BY <1>1 DEF DriverInv, ReportInv
<1> QED BY <1>5, <1>6, <1>7, <1>8, <1>9 DEF DriverInv

LEMMA GetUpInv ==
  ASSUME DriverInv, NEW g \in Groups, GetUp(g)
  PROVE  DriverInv'
<1> USE DEF GetUp, ThreadGoto, sem_wait, report
<1>1. /\ th' = [th EXCEPT ![g] = "ready"] /\ th[g] = "eating" /\ leave_sem[g] > 0
      /\ th \in [Groups -> {"none", "ready", "spin", "request", "eating", "leave", "ended"}]
      /\ leave_sem \in [Groups -> Nat] /\ leave_sem' = [leave_sem EXCEPT ![g] = @ - 1]
  BY DEF DriverInv, ThreadInv
<1>2. g \in Coming
  BY <1>1 DEF Coming
<1>3. Coming' = Coming /\ Spinning' = Spinning
  BY <1>1, <1>2 DEF Coming, Spinning
<1>4. main \in {"create", "open"} /\ g \notin it
  BY <1>2 DEF DriverInv, BarrierInv
<1>5. ThreadInv'
  BY <1>1 DEF DriverInv, ThreadInv, restaurant
<1>6. BarrierInv'
  BY <1>1, <1>3, <1>4 DEF DriverInv, BarrierInv
<1>7. StillInv'
  <2> SUFFICES ASSUME NEW h \in Groups \ (Coming' \cup Spinning')
               PROVE  AtRest(h)'
    BY DEF StillInv
  <2>1. h # g /\ th'[h] = th[h] /\ AtRest(h)
    BY <1>1, <1>2, <1>3, <1>4 DEF DriverInv, StillInv
  <2> QED BY <2>1, RestStays
<1>8. ListInv'
  BY <1>1, <1>2, <1>3 DEF DriverInv, ListInv
<1>9. ReportInv'
  BY <1>4 DEF ReportInv
<1> QED BY <1>5, <1>6, <1>7, <1>8, <1>9 DEF DriverInv

LEMMA ReturnInv ==
  ASSUME DriverInv, NEW g \in Groups, Return(g)
  PROVE  DriverInv'
<1> USE DEF Return, ThreadGoto, report, lists, restaurant
<1>1. /\ th' = [th EXCEPT ![g] = "ended"] /\ th[g] = "leave" /\ pc[g] = "gone"
      /\ th \in [Groups -> {"none", "ready", "spin", "request", "eating", "leave", "ended"}]
  BY DEF DriverInv, ThreadInv
<1>2. g \notin Coming \cup Spinning /\ ~AtRest(g)
  BY <1>1 DEF Coming, Spinning, AtRest
<1>3. main = "sleep" \/ (main = "started" /\ Spinning # cmds)
  BY <1>2, MoverIsNotStill
<1>4. Coming' = Coming /\ Spinning' = Spinning
  BY <1>1 DEF Coming, Spinning
<1>5. ThreadInv'
  BY <1>1 DEF DriverInv, ThreadInv
<1>6. BarrierInv'
  BY <1>1, <1>3, <1>4 DEF DriverInv, BarrierInv
<1>7. StillInv'
  BY <1>3, <1>4 DEF StillInv
<1>8. ListInv'
  BY <1>1, <1>2, <1>3, <1>4 DEF DriverInv, ListInv
<1>9. ReportInv'
  BY <1>1 DEF DriverInv, ReportInv
<1> QED BY <1>5, <1>6, <1>7, <1>8, <1>9 DEF DriverInv

-----------------------------------------------------------------------------
(* The restaurant that the driver drives: commands run together unless there   *)
(* is one in each batch.  P has the theorems of the restaurant's proofs.       *)
P == INSTANCE RestaurantProofs WITH Together <- BatchSize # 1

LEMMA SameRest == ASSUME NEW g PROVE R!AtRest(g) <=> P!AtRest(g)
BY DEF R!AtRest, P!AtRest

LEMMA SameInit == (R!Init <=> P!Init) /\ R!vars = P!vars
<1>1. R!Init <=> P!Init
  BY DEF R!Init, P!Init, R!Types, P!Types, R!Cardinality, P!Cardinality,
     R!ERROR, P!ERROR
<1>2. R!vars = P!vars
  BY DEF R!vars, P!vars, R!sems, P!sems, R!line, P!line
<1> QED BY <1>1, <1>2

(* But for the commands, the steps do not depend on how it is driven.          *)
LEMMA SameRequest ==
  ASSUME NEW g
  PROVE  R!request_for_table(g) <=> P!request_for_table(g)
<1> USE DEF R!Goto, P!Goto, R!sem_wait, P!sem_wait, R!sem_post, P!sem_post,
            R!sems, P!sems, R!line, P!line, R!table_num, P!table_num,
            R!table_id, P!table_id, R!Before, P!Before, R!Min, P!Min
<1> DEFINE n == Size[g]
<1>1. (R!Record(g) <=> P!Record(g)) /\ (R!enqueue(g) <=> P!enqueue(g))
  BY DEF R!Record, P!Record, R!enqueue, P!enqueue, R!ReadIndex, P!ReadIndex,
     R!Enlist, P!Enlist, R!Show, P!Show, R!Count, P!Count
<1>2. R!Look(g) <=> P!Look(g)
  BY DEF R!Look, P!Look
<1>3. (R!InitTurn(g) <=> P!InitTurn(g)) /\ (R!Unlock(g) <=> P!Unlock(g))
  BY DEF R!InitTurn, P!InitTurn, R!Unlock, P!Unlock
<1>4. (R!AwaitTurn(g) <=> P!AwaitTurn(g)) /\ (R!TakeTable(g, n) <=> P!TakeTable(g, n))
  BY DEF R!AwaitTurn, P!AwaitTurn, R!TakeTable, P!TakeTable
<1>5. (R!Serve(g, n) <=> P!Serve(g, n)) /\ (R!Served(g, n) <=> P!Served(g, n))
  BY DEF R!Serve, P!Serve, R!Served, P!Served
<1>6. R!assign_table(g, n) <=> P!assign_table(g, n)
  BY DEF R!assign_table, P!assign_table
<1> QED BY <1>1, <1>2, <1>3, <1>4, <1>5, <1>6, Zenon
        DEF R!request_for_table, P!request_for_table

LEMMA SameLeave ==
  ASSUME NEW g
  PROVE  R!leave_table(g) <=> P!leave_table(g)
<1> USE DEF R!Goto, P!Goto, R!sem_wait, P!sem_wait, R!sem_post, P!sem_post,
            R!sems, P!sems, R!line, P!line, R!table_num, P!table_num,
            R!table_id, P!table_id, R!Before, P!Before, R!Min, P!Min
<1> DEFINE n == local[g]
           fits == R!SizeThere(g) = n
<1>1. (R!Leave(g) <=> P!Leave(g)) /\ (R!free_table(g) <=> P!free_table(g))
  BY DEF R!Leave, P!Leave, R!free_table, P!free_table
<1>2. (R!Mark(g) <=> P!Mark(g)) /\ (R!Find(g) <=> P!Find(g))
  BY DEF R!Mark, P!Mark, R!Find, P!Find, R!FindNext, P!FindNext
<1>3. R!Peek(g, fits) <=> P!Peek(g, P!SizeThere(g) = n)
  BY DEF R!Peek, P!Peek, R!SizeThere, P!SizeThere
<1>4. (R!Call(g) <=> P!Call(g)) /\ (R!FreeUp(g, n) <=> P!FreeUp(g, n))
  BY DEF R!Call, P!Call, R!FreeUp, P!FreeUp
<1>5. R!Left(g, n) <=> P!Left(g, n)
  BY DEF R!Left, P!Left
<1> QED BY <1>1, <1>2, <1>3, <1>4, <1>5, Zenon DEF R!leave_table, P!leave_table

(* A command is one of P when the other threads are at rest.                   *)
LEMMA SameCommand ==
  ASSUME NEW g, BatchSize = 1 => \A h \in Groups : R!AtRest(h)
  PROVE  (R!Enter(g) => P!Enter(g)) /\ (R!Depart(g) => P!Depart(g))
<1>1. BatchSize # 1 \/ \A h \in Groups : P!AtRest(h)
  BY SameRest
<1> QED BY <1>1 DEF R!Enter, P!Enter, R!Depart, P!Depart, R!Command, P!Command,
             R!Goto, P!Goto, R!sems, P!sems, R!line, P!line

-----------------------------------------------------------------------------
(* The restaurant's invariant, in the words of either instance                 *)

LEMMA SameFinite ==
  ASSUME NEW S
  PROVE  (P!IsFiniteSet(S) <=> IsFiniteSet(S)) /\ P!Cardinality(S) = R!Cardinality(S)
<1>1. P!IsFiniteSet(S) <=> IsFiniteSet(S)
  BY DEF P!IsFiniteSet, IsFiniteSet
<1>2. P!Cardinality(S) = R!Cardinality(S)
  BY DEF P!Cardinality, R!Cardinality
<1> QED BY <1>1, <1>2

LEMMA SameSeatInv == R!SeatInv <=> P!SeatInv
<1>1. \A n, L : R!At(n, L) = P!At(n, L)
  BY DEF R!At, P!At
<1>2. /\ R!Types = P!Types /\ R!HaveMutex = P!HaveMutex /\ R!HaveServe = P!HaveServe
      /\ R!HaveDone = P!HaveDone /\ R!AtSlot = P!AtSlot /\ R!HaveTable = P!HaveTable
      /\ R!Labels = P!Labels /\ R!Counted = P!Counted
  BY DEF R!Types, P!Types, R!Joining, P!Joining, R!HaveMutex, P!HaveMutex, R!HaveServe, P!HaveServe,
     R!HaveDone, P!HaveDone, R!AtSlot, P!AtSlot, R!HaveTable, P!HaveTable, R!Labels,
     P!Labels, R!Counted, P!Counted, R!Uncounted, P!Uncounted
<1>3. R!Shape <=> P!Shape
  BY <1>2, SameFinite DEF R!Shape, P!Shape, R!GroupStates, P!GroupStates
<1>4. \A s, L : R!LockInv(s, L) <=> P!LockInv(s, L)
  BY <1>1, <1>2 DEF R!LockInv, P!LockInv, R!OneUnit, P!OneUnit
<1>5. R!TablesConserved <=> P!TablesConserved
  BY <1>1, <1>2, SameFinite DEF R!TablesConserved, P!TablesConserved
<1>6. R!SlotInv <=> P!SlotInv
  BY <1>1, <1>2, SameFinite DEF R!SlotInv, P!SlotInv, R!Before, P!Before
<1>7. R!SizeInv <=> P!SizeInv
  BY <1>2 DEF R!SizeInv, P!SizeInv
<1>8. R!LineInv <=> P!LineInv
  BY <1>2, SameFinite DEF R!LineInv, P!LineInv
<1> QED BY <1>2, <1>3, <1>4, <1>5, <1>6, <1>7, <1>8, Zenon DEF R!SeatInv, P!SeatInv

(* What holds of one command at a time, likewise.                              *)
LEMMA SameQuietInv == R!QuietInv <=> P!QuietInv
<1>1. /\ \A g : (R!Waiting(g) <=> P!Waiting(g)) /\ (R!Invited(g) <=> P!Invited(g))
      /\ \A g : R!Requesting(g) <=> P!Requesting(g)
  BY DEF R!Waiting, P!Waiting, R!Invited, P!Invited, R!Requesting, P!Requesting
<1>2. /\ \A g : R!Settled(g) <=> P!Settled(g)
      /\ \A g, h : R!Follows(h, g) <=> P!Follows(h, g)
  BY <1>1 DEF R!Settled, P!Settled, R!Follows, P!Follows
<1>3. /\ R!NotGone = P!NotGone /\ R!InQueue = P!InQueue /\ R!AtSlot = P!AtSlot
      /\ R!Joining = P!Joining /\ (R!Up <=> P!Up)
  BY DEF R!NotGone, P!NotGone, R!InQueue, P!InQueue, R!AtSlot, P!AtSlot, R!Labels,
     P!Labels, R!HaveMutex, P!HaveMutex, R!HaveTable, P!HaveTable, R!HaveDone,
     P!HaveDone, R!Joining, P!Joining, R!Up, P!Up
<1>4. (R!OneMoves <=> P!OneMoves) /\ (R!TurnsInv <=> P!TurnsInv)
  BY <1>1, <1>2 DEF R!OneMoves, P!OneMoves, R!TurnsInv, P!TurnsInv
<1>5. R!OrderInv <=> P!OrderInv
  BY <1>1, <1>3 DEF R!OrderInv, P!OrderInv
<1>6. R!FirstInv <=> P!FirstInv
  BY <1>1 DEF R!FirstInv, P!FirstInv
<1> QED BY <1>4, <1>5, <1>6, SameSeatInv, Zenon DEF R!QuietInv, P!QuietInv

-----------------------------------------------------------------------------
(* What every step keeps                                                       *)

LEMMA DriverInvStarts == Init => DriverInv
<1> SUFFICES ASSUME Init
             PROVE  DriverInv
  OBVIOUS
<1>1. /\ \A g \in Groups : th[g] = "none" /\ pc[g] = "idle"
      /\ th = [g \in Groups |-> "none"] /\ leave_sem = [g \in Groups |-> 0]
      /\ main = "read" /\ cmds = {} /\ it = {}
      /\ waiter = [num_ready |-> 0, go |-> FALSE, num_started |-> 0]
      /\ eating_list = {} /\ real_eating_list = {}
  BY DEF Init, R!Init
<1>2. Coming = {} /\ Spinning = {} /\ Cardinality({}) = 0 /\ BatchSize \in Nat
  BY <1>1, FS_EmptySet, BatchAssumption DEF Coming, Spinning
<1>3. ThreadInv /\ BarrierInv
  BY <1>1, <1>2 DEF ThreadInv, BarrierInv
<1>4. StillInv /\ ListInv /\ ReportInv
  BY <1>1, <1>2 DEF StillInv, AtRest, ListInv, ReportInv
<1> QED BY <1>3, <1>4 DEF DriverInv

LEMMA DriverInvStays == DriverInv /\ R!SeatInv /\ [Next]_vars => DriverInv'
<1> SUFFICES ASSUME DriverInv, R!SeatInv, [Next]_vars
             PROVE  DriverInv'
  OBVIOUS
<1>1. ASSUME NEW S \in SUBSET Groups, ReadBatch(S)
      PROVE  DriverInv'
  BY <1>1, ReadBatchInv
<1>2. CASE main_loop
  BY <1>2, CreateInv, SendOffInv, SettleInv, OpenBarrierInv, StartedInv, WakeInv,
     TakeOverInv DEF main_loop
<1>3. ASSUME NEW g \in Groups, run_group(g)
      PROVE  DriverInv'
  BY <1>3, ReadyInv, GoInv, RequestInv, SeatedInv, GetUpInv, LeaveInv, ReturnInv
     DEF run_group
<1>4. CASE UNCHANGED vars
  <2> USE <1>4 DEF vars
  <2>1. Coming' = Coming /\ Spinning' = Spinning
    BY CompanyStays DEF lists
  <2>2. ThreadInv' /\ \A g \in Groups : AtRest(g)' <=> AtRest(g)
    BY ThreadsStay DEF lists
  <2>3. BarrierInv' /\ StillInv'
    BY <2>1, <2>2 DEF DriverInv, BarrierInv, StillInv
  <2>4. ListInv' /\ ReportInv'
    BY <2>1 DEF DriverInv, ListInv, ReportInv, lists, report, restaurant
  <2> QED BY <2>2, <2>3, <2>4 DEF DriverInv
<1> QED BY <1>1, <1>2, <1>3, <1>4 DEF Next

(* With one command in each batch, a thread that passes the barrier finds all  *)
(* the others at rest.                                                         *)
LEMMA GoesAlone ==
  ASSUME DriverInv, BatchSize = 1, NEW g \in Spinning, waiter.go
  PROVE  \A h \in Groups : R!AtRest(h)
<1>1. main = "started" /\ g \in cmds /\ Spinning \subseteq cmds /\ Coming = {}
  BY PassesWhenOpen
<1>2. cmds \in SUBSET Groups /\ Cardinality(cmds) <= 1
  BY DEF DriverInv, BarrierInv
<1>3. Cardinality(cmds) = 1
  BY <1>1, <1>2, GroupsAreFinite, FS_EmptySet
<1>4. Spinning = {g} /\ Spinning = cmds
  BY <1>1, <1>2, <1>3, GroupsAreFinite, FS_Singleton
<1>5. \A h \in Groups \ {g} : AtRest(h)
  BY <1>1, <1>4 DEF DriverInv, StillInv
<1>6. th[g] = "spin" /\ g \in Groups
  BY DEF Spinning
<1> QED BY <1>5, <1>6 DEF DriverInv, ThreadInv, AtRest, R!AtRest

(* Every step of the driver is one of the restaurant, or leaves it alone.      *)
LEMMA StepsOfTheRestaurant == DriverInv /\ [Next]_vars => [P!Next]_(P!vars)
<1> SUFFICES ASSUME DriverInv, [Next]_vars
             PROVE  P!Next \/ UNCHANGED P!vars
  OBVIOUS
<1>up. R!Up => P!Up
  BY DEF R!Up, P!Up
<1>1. UNCHANGED restaurant => UNCHANGED P!vars
  BY DEF restaurant, P!vars, P!sems, P!line
<1>2. ASSUME NEW S \in SUBSET Groups, ReadBatch(S)
      PROVE  UNCHANGED restaurant
  BY <1>2 DEF ReadBatch
<1>3. CASE main_loop
  <2>1. UNCHANGED restaurant
    BY <1>3 DEF main_loop, Create, SendOff, Settle, OpenBarrier, Started, Wake, TakeOver
  <2> QED BY <1>1, <2>1
<1>4. ASSUME NEW g \in Groups, Go(g), R!Up
      PROVE  P!Next
  <2>1. waiter.go /\ g \in Spinning
    BY <1>4 DEF Go, W!Pass, ThreadGoto, Spinning
  <2>2. BatchSize = 1 => \A h \in Groups : R!AtRest(h)
    BY <2>1, GoesAlone
  <2>3. P!Enter(g) \/ P!Depart(g)
    BY <1>4, <2>2, SameCommand DEF Go
  <2> QED BY <1>up, <1>4, <2>3 DEF P!Next
<1>5. ASSUME NEW g \in Groups, request_for_table(g) \/ leave_table(g), R!Up
      PROVE  P!Next
  BY <1>up, <1>5, SameRequest, SameLeave DEF request_for_table, leave_table, P!Next
<1>6. ASSUME NEW g \in Groups, Ready(g) \/ Seated(g) \/ GetUp(g) \/ Return(g)
      PROVE  UNCHANGED restaurant
  BY <1>6 DEF Ready, Seated, GetUp, Return
<1>7. CASE UNCHANGED vars
  BY <1>1, <1>7 DEF vars
<1> QED BY <1>1, <1>2, <1>3, <1>4, <1>5, <1>6, <1>7 DEF Next, run_group

(* What the proofs of the restaurant assume of its constants.                  *)
LEMMA SameConstants ==
  /\ P!IsFiniteSet(Groups) /\ NoGroup \notin Groups
  /\ T \in 1..5 /\ num_tables \in [0..T-1 -> Nat]
  /\ Size \in [Groups -> 0..T-1]
  /\ (BatchSize # 1) \in BOOLEAN
BY GroupsAssumption, TypesAssumption, GroupSizeAssumption, SameFinite

(* Both, together: the driver relies on the restaurant's invariant.            *)
LEMMA BothInvariants == Spec => [](DriverInv /\ R!SeatInv)
<1>1. Init => DriverInv /\ R!SeatInv
  <2>1. P!Init => P!SeatInv
    BY SameConstants, P!SeatInvStarts
  <2> QED BY <2>1, SameInit, SameSeatInv, DriverInvStarts DEF Init
<1>2. DriverInv /\ R!SeatInv /\ [Next]_vars => (DriverInv /\ R!SeatInv)'
  <2> SUFFICES ASSUME DriverInv, R!SeatInv, [Next]_vars
               PROVE  DriverInv' /\ R!SeatInv'
    OBVIOUS
  <2>1. P!SeatInv /\ [P!Next]_(P!vars) => P!SeatInv'
    BY SameConstants, P!SeatInvStays
  <2>2. P!SeatInv'
    BY <2>1, SameSeatInv, StepsOfTheRestaurant
  <2>3. R!SeatInv' <=> P!SeatInv'
    BY SameSeatInv, PTL
  <2> QED BY <2>2, <2>3, DriverInvStays
<1> QED BY <1>1, <1>2, PTL DEF Spec

(* The driver drives the restaurant: with one command in each batch, one       *)
(* command at a time, although it only sleeps between them.                    *)
THEOREM DriverImplementsRestaurant == Spec => P!Spec
<1>1. Init => P!Init
  BY SameInit DEF Init
<1>2. DriverInv /\ [Next]_vars => [P!Next]_(P!vars)
  BY StepsOfTheRestaurant
<1> QED BY <1>1, <1>2, BothInvariants, PTL DEF Spec, P!Spec

(* What the driver and its restaurant keep.                                    *)
THEOREM RoundsInvariant == Spec => []RoundsInv
<1>1. CASE BatchSize = 1
  <2>1. P!Spec => []P!QuietInv
    <3>1. ~(BatchSize # 1) => (P!Spec => []P!QuietInv)
      BY SameConstants, P!QuietInvariant, PTL
    <3> QED BY <1>1, <3>1
  <2>2. DriverInv /\ R!SeatInv /\ P!QuietInv => RoundsInv
    BY SameQuietInv DEF RoundsInv
  <2> QED BY <2>1, <2>2, BothInvariants, DriverImplementsRestaurant, PTL
<1>2. CASE BatchSize # 1
  <2>1. DriverInv /\ R!SeatInv => RoundsInv
    BY <1>2 DEF RoundsInv
  <2> QED BY <2>1, BothInvariants, PTL
<1> QED BY <1>1, <1>2

(* No thread looks at the busywaiter of a turn of main's loop that is over,    *)
(* for any batches.                                                            *)
THEOREM WaitersAreInScope == Spec => []WaiterInScope
<1>1. RoundsInv => WaiterInScope
  BY DEF RoundsInv, DriverInv, BarrierInv, WaiterInScope, Coming, Spinning
<1> QED BY <1>1, RoundsInvariant, PTL

(* With one command in each batch, a leaver that looks into the queue finds a  *)
(* group there, whose thread, with its group_state on the stack, has not ended. *)
THEOREM StatesAreInScope == BatchSize = 1 => (Spec => []StatesInScope)
<1> SUFFICES ASSUME BatchSize = 1
             PROVE  Spec => []StatesInScope
  OBVIOUS
<1>1. RoundsInv => StatesInScope
  <2> SUFFICES ASSUME RoundsInv, NEW g \in Groups, pc[g] \in {"peek", "call"}
               PROVE  queue[at[g]] \in Groups /\ th[queue[at[g]]] # "ended"
    BY DEF StatesInScope
  <2>1. queue[at[g]] \in Groups
    BY DEF RoundsInv, R!QuietInv, R!SeatInv, R!LineInv, R!FirstInv, R!OrderInv
  <2>2. CASE pc[g] = "peek"
    <3>1. pc[queue[at[g]]] \in R!NotGone
      BY <2>2 DEF RoundsInv, R!QuietInv, R!FirstInv, R!OrderInv
    <3> QED BY <2>1, <3>1 DEF RoundsInv, DriverInv, ThreadInv, R!NotGone
  <2>3. CASE pc[g] = "call"
    <3>1. pc[queue[at[g]]] = "turn"
      BY <2>3 DEF RoundsInv, R!QuietInv, R!FirstInv, R!Waiting
    <3> QED BY <2>1, <3>1 DEF RoundsInv, DriverInv, ThreadInv
  <2> QED BY <2>2, <2>3
<1> QED BY <1>1, RoundsInvariant, PTL

(* With one command in each batch, whenever all threads are at rest no group   *)
(* waits for a size that has a free table.                                     *)
THEOREM NoTableIsIdle == BatchSize = 1 => (Spec => []NoIdleTable)
<1> SUFFICES ASSUME BatchSize = 1
             PROVE  Spec => []NoIdleTable
  OBVIOUS
<1>1. P!Spec => []P!NoIdleTable
  <2>1. ~(BatchSize # 1) => (P!Spec => []P!NoIdleTable)
    BY SameConstants, P!NoTableIsIdle, PTL
  <2> QED BY <2>1
<1>2. P!NoIdleTable => NoIdleTable
  BY SameRest DEF P!NoIdleTable, NoIdleTable, R!NoIdleTable
<1> QED BY <1>1, <1>2, DriverImplementsRestaurant, PTL

(* With one command in each batch, the restaurant behind its driver seats the  *)
(* groups of a size first come, first served.                                  *)
THEOREM DriverKeepsPromise == BatchSize = 1 => (Spec => ImplementsSeating)
<1> SUFFICES ASSUME BatchSize = 1
             PROVE  Spec => ImplementsSeating
  OBVIOUS
<1>1. P!Spec => P!ImplementsSeating
  <2>1. ~(BatchSize # 1) => (P!Spec => P!ImplementsSeating)
    BY SameConstants, P!RestaurantKeepsPromise, PTL
  <2> QED BY <2>1
<1> USE DEF R!InLine, P!InLine, R!Place, P!Place, R!Requesting, P!Requesting,
            R!AtTable, P!AtTable, R!Cardinality, P!Cardinality, R!Types, P!Types,
            R!Before, P!Before, R!table_num, P!table_num
<1>2. P!Promise!Init => R!Promise!Init
  BY DEF P!Promise!Init, R!Promise!Init
<1>3. [P!Promise!Next]_(P!Promise!vars) => [R!Promise!Next]_(R!Promise!vars)
  BY DEF P!Promise!Next, R!Promise!Next, P!Promise!vars, R!Promise!vars,
     P!Promise!Join, R!Promise!Join, P!Promise!Go, R!Promise!Go, P!Promise!Seat,
     R!Promise!Seat, P!Promise!RemoveAt, R!Promise!RemoveAt
<1> QED BY <1>1, <1>2, <1>3, DriverImplementsRestaurant, PTL
        DEF P!ImplementsSeating, P!Promise!Spec, ImplementsSeating, R!ImplementsSeating,
            R!Promise!Spec

=============================================================================
