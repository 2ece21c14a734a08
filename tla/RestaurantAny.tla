---------------------------- MODULE RestaurantAny ---------------------------
(* The restaurant of Lab3/ex5/restaurant.c: a group may sit at any table that  *)
(* is large enough.  size_of_group starts as the group's size and becomes the  *)
(* type of the table the group is sent to: by itself when it finds one free,   *)
(* otherwise by the leaver that calls it.  The steps that differ from those of *)
(* Restaurant are here; the type they work on is read from size_of_group at    *)
(* every use, as in the code, and for a semaphore before the group blocks on   *)
(* it: local[g] is the type then.                                              *)
EXTENDS Semaphores, Integers, SequencesExt

CONSTANTS Groups, NoGroup, T, Size, num_tables, Together   \* as in Restaurant

ASSUME GroupsAssumption == IsFiniteSet(Groups) /\ NoGroup \notin Groups
ASSUME TypesAssumption == T \in 1..5 /\ num_tables \in [0..T-1 -> Nat]
ASSUME GroupSizeAssumption == Size \in [Groups -> 0..T-1]
ASSUME TogetherAssumption == Together \in BOOLEAN

VARIABLES mutex, customer_serve, customer_done, table_available, table_state,
          queue, queue_grp_state, new_group_index, state, my_turn_to_go,
          pc, local, at

R == INSTANCE Restaurant

sems == <<mutex, customer_serve, customer_done, table_available>>
line == <<queue, queue_grp_state, new_group_index>>
vars == <<sems, table_state, line, state, my_turn_to_go, pc, local, at>>

Type(g) == state[g].size_of_group

(* The loop over the table types from the group's own: at[g] is its i.         *)
LookFirst(g) ==
  /\ R!Goto(g, "look", "scan")
  /\ at' = [at EXCEPT ![g] = Size[g]]
  /\ UNCHANGED <<sems, table_state, line, state, my_turn_to_go, local>>

(* sem_getvalue(&table_available[i], ...); out of the loop at the first type   *)
(* with a table left, or after the last one.                                   *)
ScanOwnType(g) ==
  /\ R!Goto(g, "scan", IF table_available[at[g]] > 0 THEN "open" ELSE "close")
  /\ UNCHANGED <<sems, table_state, line, state, my_turn_to_go, local, at>>

Scan(g) ==
  LET left == table_available[at[g]] > 0
  IN /\ R!Goto(g, "scan", IF left THEN "open" ELSE IF at[g] = T - 1 THEN "close"
                          ELSE "scan")
     /\ at' = [at EXCEPT ![g] = IF left \/ @ = T - 1 THEN @ ELSE @ + 1]
     /\ UNCHANGED <<sems, table_state, line, state, my_turn_to_go, local>>

(* state->size_of_group = i; sem_init(&state->my_turn_to_go, 0, 1);            *)
OpenTurnOwnSize(g) ==
  /\ R!Goto(g, "open", "unlock")
  /\ my_turn_to_go' = [my_turn_to_go EXCEPT ![g] = 1]
  /\ UNCHANGED <<sems, table_state, line, state, local, at>>

OpenTurn(g) ==
  /\ R!Goto(g, "open", "unlock")
  /\ state' = [state EXCEPT ![g].size_of_group = at[g]]
  /\ my_turn_to_go' = [my_turn_to_go EXCEPT ![g] = 1]
  /\ UNCHANGED <<sems, table_state, line, local, at>>

(* No type has a table left: sem_init(&state->my_turn_to_go, 0, 0);            *)
CloseTurn(g) ==
  /\ R!Goto(g, "close", "unlock")
  /\ my_turn_to_go' = [my_turn_to_go EXCEPT ![g] = 0]
  /\ UNCHANGED <<sems, table_state, line, state, local, at>>

(* call_next_group(num_people): the first waiting group of at most this size.  *)
Peek(g) == R!Peek(g, R!SizeThere(g) <= local[g])

(* queue[i]->size_of_group = num_people                                        *)
Resize(g) ==
  /\ R!Goto(g, "call", "post")
  /\ state' = [state EXCEPT ![queue[at[g]]].size_of_group = local[g]]
  /\ UNCHANGED <<sems, table_state, line, my_turn_to_go, local, at>>

(* sem_post(&queue[i]->my_turn_to_go)                                          *)
Call(g) ==
  /\ R!Goto(g, "post", "freeUp")
  /\ sem_post(my_turn_to_go, queue[at[g]])
  /\ UNCHANGED <<sems, table_state, line, state, local, at>>

(* sem_wait(&state->my_turn_to_go) and sem_wait(&table_available[...]), either *)
(* with the choice of the semaphore to wait for next.                          *)
AwaitTurn(g) ==
  /\ R!Goto(g, "turn", "take")
  /\ sem_wait(my_turn_to_go, g)
  /\ local' = [local EXCEPT ![g] = Type(g)]
  /\ UNCHANGED <<sems, table_state, line, state, at>>

TakeTable(g) ==
  /\ R!Goto(g, "take", "serve")
  /\ sem_wait(table_available, local[g])
  /\ local' = [local EXCEPT ![g] = Type(g)]
  /\ UNCHANGED <<mutex, customer_serve, customer_done, table_state, line, state,
                 my_turn_to_go, at>>

request_for_table(g) ==
  \/ R!Record(g) \/ R!enqueue(g)
  \/ LookFirst(g) \/ Scan(g) \/ OpenTurn(g) \/ CloseTurn(g) \/ R!Unlock(g)
  \/ AwaitTurn(g) \/ TakeTable(g) \/ R!Serve(g, local[g])
  \/ R!assign_table(g, Type(g)) \/ R!Served(g, Type(g))

leave_table(g) ==
  \/ R!Leave(g) \/ R!free_table(g) \/ R!Mark(g) \/ R!Find(g) \/ Peek(g)
  \/ Resize(g) \/ Call(g) \/ R!FreeUp(g, local[g]) \/ R!Left(g, local[g])

Init == R!Init

Next ==
  R!Up /\ \E g \in Groups : R!Enter(g) \/ R!Depart(g)
                               \/ request_for_table(g) \/ leave_table(g)

Spec == Init /\ [][Next]_vars

-----------------------------------------------------------------------------
(* Properties                                                                  *)

Requesting(g) ==
  pc[g] \in {"count", "add", "look", "scan", "open", "close", "unlock", "turn",
             "take", "serve", "assign"}

(* No two groups are seated at one table, and every group sits at a table with *)
(* seats enough: what of ImplementsSeating is lost when commands run together. *)
SeatsExclusive ==
  \A g \in Groups : R!AtTable(g) =>
    /\ state[g].table_assigned \in R!Before(Size[g]) .. R!Before(T) - 1
    /\ \A h \in Groups \ {g} :
         R!AtTable(h) => state[h].table_assigned # state[g].table_assigned

(* With all threads at rest, no group waits that some free table would fit.    *)
NoIdleTable ==
  (\A g \in Groups : R!AtRest(g)) =>
    \A g \in Groups : pc[g] \in {"turn", "take"} =>
      \A n \in Size[g]..T-1 : table_available[n] = 0

(* The parts of an inductive invariant of one command at a time.  The groups   *)
(* whose type is n at some of the labels:                                      *)
At(n, L) == {g \in Groups : Type(g) = n /\ pc[g] \in L}

HaveDone == {"post"} \cup R!HaveDone
HaveTable == {"post"} \cup R!HaveTable

(* ... the tables of a type that are available and those in hand are all; the  *)
(* occupied slots are those of the groups at the tables, one for each:         *)
TablesConserved ==
  \A n \in R!Types :
    table_available[n] + Cardinality(At(n, HaveTable)) = num_tables[n]

SlotInv ==
  /\ \A n \in R!Types :
       /\ table_state[n] \subseteq 0..num_tables[n]-1
       /\ Cardinality(table_state[n]) = Cardinality(At(n, R!AtSlot))
       /\ \A g \in At(n, R!AtSlot) :
            /\ state[g].table_assigned - R!Before(n) \in table_state[n]
            /\ \A h \in At(n, R!AtSlot) \ {g} :
                 state[h].table_assigned # state[g].table_assigned
  /\ \A g \in Groups :
       state[g].state_of_group = "EAT" => pc[g] \in R!AtSlot \cup {"mark"}

(* ... a type is the group's size until the group is given a table, then that  *)
(* of the table, which the leaver remembers and the group waits for:           *)
Called(g) == \E h \in Groups : pc[h] = "post" /\ queue[at[h]] = g

Unplaced(g) ==
  \/ pc[g] \in R!Joining \cup {"look", "scan", "open", "close"}
  \/ pc[g] \in {"unlock", "turn"} /\ my_turn_to_go[g] = 0 /\ ~Called(g)

SizeInv ==
  \A g \in Groups :
    /\ pc[g] \notin {"idle", "enter"} => Type(g) \in Size[g]..T-1
    /\ Unplaced(g) => Type(g) = Size[g]
    /\ pc[g] \in {"take", "serve"} \cup HaveDone => local[g] = Type(g)

(* ... every variable has its type:                                            *)
Labels == {"scan", "open", "close", "post"} \cup (R!Labels \ {"init"})

Shape ==
  /\ table_available \in [R!Types -> Nat] /\ table_state \in [R!Types -> SUBSET Nat]
  /\ queue \in [0..Cardinality(Groups)-1 -> Groups \cup {NoGroup}]
  /\ queue_grp_state \subseteq DOMAIN queue
  /\ new_group_index \in Nat
  /\ state \in [Groups -> R!GroupStates]
  /\ my_turn_to_go \in [Groups -> Nat]
  /\ pc \in [Groups -> Labels] /\ local \in [Groups -> Nat] /\ at \in [Groups -> Nat]

SeatInv == Shape /\ TablesConserved /\ SlotInv /\ SizeInv /\ R!LineInv

(* ... one thread has something to do, and the group it has called, which is   *)
(* to have its table:                                                          *)
Follows(h, g) ==
  /\ Type(h) = local[g]
  /\ \/ pc[g] = "freeUp" /\ R!Invited(h)
     \/ pc[g] = "left" /\ (R!Invited(h) \/ pc[h] \in {"serve", "assign", "served"})

OneMoves ==
  \A g, h \in Groups :
    g = h \/ R!Settled(g) \/ R!Settled(h) \/ Follows(g, h) \/ Follows(h, g)

(* ... the loop over the types passes those without a table; the tables of a   *)
(* type are for the groups sent there, and none is left that fits a group that *)
(* waits:                                                                      *)
NoneFrom(i, j) == \A n \in i..j : table_available[n] = 0

TurnsInv ==
  \A g \in Groups :
    /\ my_turn_to_go[g] \in {0, 1}
    /\ pc[g] \notin {"unlock", "turn"} => my_turn_to_go[g] = 0
    /\ pc[g] \in {"scan", "open"} =>
         at[g] \in Size[g]..T-1 /\ NoneFrom(Size[g], at[g] - 1)
    /\ pc[g] = "open" => table_available[at[g]] > 0
    /\ pc[g] = "close" => NoneFrom(Size[g], T - 1)
    /\ pc[g] = "unlock" => IF my_turn_to_go[g] = 0 THEN NoneFrom(Size[g], T - 1)
                           ELSE table_available[Type(g)] > 0
    /\ R!Invited(g) => \/ table_available[Type(g)] > 0
                       \/ \E h \in Groups : pc[h] = "freeUp" /\ local[h] = Type(g)
    /\ R!Waiting(g) => \A n \in Size[g]..T-1 :
         \/ table_available[n] = 0
         \/ table_available[n] = 1 /\ \E h \in Groups : R!Invited(h) /\ Type(h) = n
    /\ pc[g] = "freeUp" =>
         \/ /\ table_available[local[g]] = 0
            /\ \E h \in Groups : R!Invited(h) /\ Type(h) = local[g]
         \/ \A h \in Groups : /\ Size[h] <= local[g] => ~R!Waiting(h)
                              /\ Type(h) = local[g] => ~R!Invited(h)

(* ... the queue has each group at its ticket, as in Restaurant:               *)
InQueue == Labels \ {"idle", "enter", "enlist", "put"}
NotGone == InQueue \ {"reread", "show", "find", "peek", "call", "crashed", "post",
                      "freeUp", "left", "gone"}

OrderInv ==
  /\ R!Up
  /\ \A g \in Groups :
       LET i == state[g].queue_ticket
       IN /\ pc[g] \in R!Joining => i = new_group_index
          /\ pc[g] \in {"put", "show", "add"} => at[g] = i
          /\ pc[g] \in InQueue => i \in DOMAIN queue /\ queue[i] = g
          /\ pc[g] \in InQueue \ R!Joining => i < new_group_index
          /\ pc[g] \in NotGone => i \in queue_grp_state
          /\ state[g].state_of_group = "WAIT" <=> pc[g] \in R!Joining \/ Requesting(g)
          /\ pc[g] \in R!AtSlot \cup {"mark"} => state[g].state_of_group = "EAT"
  /\ \A i \in queue_grp_state :
       /\ queue[i] \in Groups /\ pc[queue[i]] \in NotGone
       /\ state[queue[i]].queue_ticket = i

(* ... and of those who wait and fit at a table, the first is the one sent     *)
(* there.                                                                      *)
FirstInv ==
  /\ \A g, h \in Groups : R!Waiting(h) /\ Size[h] <= Type(g) =>
       /\ R!Invited(g) \/ pc[g] \in {"serve", "assign"} =>
            state[g].queue_ticket < state[h].queue_ticket
       /\ pc[g] \in {"find", "peek", "call", "post"} => at[g] <= state[h].queue_ticket
  /\ \A g \in Groups :
       /\ pc[g] = "peek" => at[g] \in queue_grp_state
       /\ pc[g] \in {"call", "post"} =>
            LET h == queue[at[g]]
            IN /\ h \in Groups /\ R!Waiting(h) /\ Size[h] <= Type(g)
               /\ state[h].queue_ticket = at[g]
               /\ pc[g] = "post" => Type(h) = Type(g)

(* What every step keeps, one command at a time: the reason for NoIdleTable,   *)
(* SeatsExclusive and the promise.                                             *)
QuietInv == SeatInv /\ OneMoves /\ TurnsInv /\ OrderInv /\ FirstInv

(* The groups in the line by their tickets, as in Restaurant.                  *)
InLine == {g \in Groups : Requesting(g) /\ ~R!AtTable(g)}
Place(g) ==
  Cardinality({h \in InLine : state[h].queue_ticket <= state[g].queue_ticket})

(* One command at a time, a table that gets free goes to the first group in    *)
(* the queue that fits it.                                                     *)
Promise == INSTANCE Seating
  WITH Fit <- [g \in Groups |-> Size[g]..T-1],
       Tables <- [n \in R!Types |-> R!Before(n) .. R!table_num(n) - 1],
       line <- [k \in 1..Cardinality(InLine) |-> CHOOSE g \in InLine : Place(g) = k],
       table <- [g \in {h \in Groups : R!AtTable(h)} |-> state[g].table_assigned]

ImplementsSeating == Promise!Spec

=============================================================================
