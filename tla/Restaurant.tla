----------------------------- MODULE Restaurant -----------------------------
(* The restaurant of Lab3/ex4/restaurant.c: a group sits at a table of exactly *)
(* its size, and a group that finds no table waits to be called by one that    *)
(* leaves.  One thread per group.  The mutexes are per group size, the queue   *)
(* and its index are common to all sizes, so that each read and each write of  *)
(* the index and of the queue is an action; a semaphore call is one with the   *)
(* step after it that no other thread can disturb, and so are a loop over the  *)
(* slots of a type, the search for the next live ticket and the two looks at   *)
(* the group found there.                                                      *)
(*                                                                             *)
(* The operators that take a table type n are shared with RestaurantAny, where *)
(* the type is not the group's size.                                           *)
EXTENDS Semaphores, Integers, SequencesExt

CONSTANTS Groups,      \* one thread of the driver per group
          NoGroup,     \* an entry of queue not written yet
          T,           \* MAX_TABLE_TYPE
          Size,        \* Size[g]: num_people of the call, after num_people--
          num_tables,  \* num_tables[n]: the tables with n+1 seats
          Together     \* TRUE: a batch of the driver holds several commands

ASSUME GroupsAssumption == IsFiniteSet(Groups) /\ NoGroup \notin Groups
ASSUME TypesAssumption == T \in 1..5 /\ num_tables \in [0..T-1 -> Nat]
ASSUME GroupSizeAssumption == Size \in [Groups -> 0..T-1]
ASSUME TogetherAssumption == Together \in BOOLEAN

VARIABLES mutex, customer_serve, customer_done, table_available,  \* sem_t[T]
          table_state,        \* the occupied slots of each type
          queue,              \* group_state* [MAX_CUSTOMER_GROUP_NUM]
          queue_grp_state,    \* the tickets marked GROUP_NOT_GONE
          new_group_index,
          state,              \* state[g]: the group_state but for the semaphore
          my_turn_to_go,      \* my_turn_to_go[g]: sem_t
          pc, local,          \* local[g]: table_left, then leave_table's num_people
          at                  \* at[g]: the index the thread has read, or its i

sems == <<mutex, customer_serve, customer_done, table_available>>
line == <<queue, queue_grp_state, new_group_index>>
vars == <<sems, table_state, line, state, my_turn_to_go, pc, local, at>>

Types == 0..T-1

(* restaurant_init numbers the tables type by type, and leaves in table_num[n] *)
(* the tables of all types up to n: the loops over the slots of a type run     *)
(* past its tables, to slots whose table_id is still 0.                        *)
Before(n) == LET tables(k) == IF k < n THEN num_tables[k] ELSE 0
             IN tables(0) + tables(1) + tables(2) + tables(3) + tables(4)
table_num(n) == Before(n) + num_tables[n]
table_id(n, i) == IF i < num_tables[n] THEN Before(n) + i ELSE 0

ERROR == -1

Goto(g, from, to) == pc[g] = from /\ pc' = [pc EXCEPT ![g] = to]

Init ==
  /\ mutex = [n \in Types |-> 1]
  /\ customer_serve = [n \in Types |-> 1]
  /\ customer_done = [n \in Types |-> 1]
  /\ table_available = num_tables
  /\ table_state = [n \in Types |-> {}]
  /\ queue = [i \in 0..Cardinality(Groups)-1 |-> NoGroup]
  /\ queue_grp_state = {}
  /\ new_group_index = 0
  /\ state = [g \in Groups |-> [state_of_group |-> "ARRIVE", queue_ticket |-> 0,
                                size_of_group |-> 0, table_assigned |-> ERROR]]
  /\ my_turn_to_go = [g \in Groups |-> 0]
  /\ pc = [g \in Groups |-> "idle"]
  /\ local = [g \in Groups |-> 0]
  /\ at = [g \in Groups |-> 0]

(* A group is at rest when its thread waits for the driver or for a call.      *)
AtRest(g) ==
  \/ pc[g] \in {"idle", "seated", "gone"}
  \/ pc[g] = "turn" /\ my_turn_to_go[g] = 0
  \/ pc[g] = "take" /\ table_available[state[g].size_of_group] = 0

(* The driver lets a group enter or leave.  With one command in each batch, it *)
(* has slept until the restaurant is quiet; with several, they run together.   *)
Command(g, from, to) ==
  /\ Together \/ \A h \in Groups : AtRest(h)
  /\ Goto(g, from, to)
  /\ UNCHANGED <<sems, table_state, line, state, my_turn_to_go, local, at>>

Enter(g) == Command(g, "idle", "enter")
Depart(g) == Command(g, "seated", "leave")

-----------------------------------------------------------------------------
(* request_for_table                                                           *)

(* sem_wait(&mutex[num_people]); on_enqueue(); fill in the group_state.  What  *)
(* comes before the read of the index is the thread's own, and the wait can    *)
(* only be put off: no other thread can tell the three apart.                  *)
Record(g) ==
  /\ Goto(g, "enter", "enlist")
  /\ sem_wait(mutex, Size[g])
  /\ state' = [state EXCEPT ![g].state_of_group = "WAIT",
                            ![g].queue_ticket = new_group_index,
                            ![g].size_of_group = Size[g]]
  /\ UNCHANGED <<customer_serve, customer_done, table_available, table_state,
                 line, my_turn_to_go, local, at>>

(* Each of the next three statements reads the index for itself.               *)
ReadIndex(g, from, to) ==
  /\ Goto(g, from, to)
  /\ at' = [at EXCEPT ![g] = new_group_index]
  /\ UNCHANGED <<sems, table_state, line, state, my_turn_to_go, local>>

(* queue[new_group_index] = state                                              *)
Enlist(g) ==
  /\ Goto(g, "put", "reread")
  /\ queue' = [queue EXCEPT ![at[g]] = g]
  /\ UNCHANGED <<sems, table_state, queue_grp_state, new_group_index, state,
                 my_turn_to_go, local, at>>

(* queue_grp_state[new_group_index] = GROUP_NOT_GONE                           *)
Show(g) ==
  /\ Goto(g, "show", "count")
  /\ queue_grp_state' = queue_grp_state \cup {at[g]}
  /\ UNCHANGED <<sems, table_state, queue, new_group_index, state,
                 my_turn_to_go, local, at>>

(* new_group_index++                                                           *)
Count(g) ==
  /\ Goto(g, "add", "look")
  /\ new_group_index' = at[g] + 1
  /\ UNCHANGED <<sems, table_state, queue, queue_grp_state, state,
                 my_turn_to_go, local, at>>

(* sem_getvalue(&table_available[num_people], &table_left)                     *)
Look(g) ==
  /\ Goto(g, "look", "init")
  /\ local' = [local EXCEPT ![g] = table_available[Size[g]]]
  /\ UNCHANGED <<sems, table_state, line, state, my_turn_to_go, at>>

(* sem_init(&state->my_turn_to_go, 0, 1 or 0): whatever was posted is lost.    *)
InitTurnOffByOne(g) ==
  /\ Goto(g, "init", "unlock")
  /\ my_turn_to_go' = [my_turn_to_go EXCEPT ![g] = IF local[g] > 1 THEN 1 ELSE 0]
  /\ UNCHANGED <<sems, table_state, line, state, local, at>>

InitTurn(g) ==
  /\ Goto(g, "init", "unlock")
  /\ my_turn_to_go' = [my_turn_to_go EXCEPT ![g] = IF local[g] > 0 THEN 1 ELSE 0]
  /\ UNCHANGED <<sems, table_state, line, state, local, at>>

Unlock(g) ==
  /\ Goto(g, "unlock", "turn")
  /\ sem_post(mutex, Size[g])
  /\ UNCHANGED <<customer_serve, customer_done, table_available, table_state,
                 line, state, my_turn_to_go, local, at>>

AwaitTurn(g) ==
  /\ Goto(g, "turn", "take")
  /\ sem_wait(my_turn_to_go, g)
  /\ UNCHANGED <<sems, table_state, line, state, local, at>>

TakeTableUncounted(g, n) ==
  /\ Goto(g, "take", "serve")
  /\ UNCHANGED <<sems, table_state, line, state, my_turn_to_go, local, at>>

TakeTable(g, n) ==
  /\ Goto(g, "take", "serve")
  /\ sem_wait(table_available, n)
  /\ UNCHANGED <<mutex, customer_serve, customer_done, table_state, line, state,
                 my_turn_to_go, local, at>>

Serve(g, n) ==
  /\ Goto(g, "serve", "assign")
  /\ sem_wait(customer_serve, n)
  /\ UNCHANGED <<mutex, customer_done, table_available, table_state, line,
                 state, my_turn_to_go, local, at>>

(* assign_table(num_people, state): the first slot that is not occupied.       *)
assign_table(g, n) ==
  LET unoccupied == (0..table_num(n)-1) \ table_state[n]
  IN /\ Goto(g, "assign", "served")
     /\ IF unoccupied = {}
        THEN UNCHANGED <<table_state, state>>
        ELSE /\ table_state' = [table_state EXCEPT ![n] = @ \cup {Min(unoccupied)}]
             /\ state' = [state EXCEPT ![g].state_of_group = "EAT",
                            ![g].table_assigned = table_id(n, Min(unoccupied))]
     /\ UNCHANGED <<sems, line, my_turn_to_go, local, at>>

Served(g, n) ==
  /\ Goto(g, "served", "seated")
  /\ sem_post(customer_serve, n)
  /\ UNCHANGED <<mutex, customer_done, table_available, table_state, line,
                 state, my_turn_to_go, local, at>>

-----------------------------------------------------------------------------
(* leave_table, with num_people = state->size_of_group kept in local           *)

LeaveUnlocked(g) ==
  /\ Goto(g, "leave", "free")
  /\ local' = [local EXCEPT ![g] = state[g].size_of_group]
  /\ UNCHANGED <<sems, table_state, line, state, my_turn_to_go, at>>

Leave(g) ==
  LET n == state[g].size_of_group
  IN /\ Goto(g, "leave", "free")
     /\ sem_wait(customer_done, n)
     /\ local' = [local EXCEPT ![g] = n]
     /\ UNCHANGED <<mutex, customer_serve, table_available, table_state, line,
                    state, my_turn_to_go, at>>

(* free_table(state, num_people): the first slot with the group's table.       *)
free_table(g) ==
  LET n == local[g]
      used == {i \in 0..table_num(n)-1 : table_id(n, i) = state[g].table_assigned}
  IN /\ Goto(g, "free", "mark")
     /\ table_state' = IF used = {} THEN table_state
                       ELSE [table_state EXCEPT ![n] = @ \ {Min(used)}]
     /\ UNCHANGED <<sems, line, state, my_turn_to_go, local, at>>

(* state->state_of_group = GROUP_STATE_LEAVE; queue_grp_state[...] = GROUP_GONE *)
MarkStateOnly(g) ==
  /\ Goto(g, "mark", "find")
  /\ state' = [state EXCEPT ![g].state_of_group = "LEAVE"]
  /\ at' = [at EXCEPT ![g] = 0]
  /\ UNCHANGED <<sems, table_state, line, my_turn_to_go, local>>

Mark(g) ==
  /\ Goto(g, "mark", "find")
  /\ state' = [state EXCEPT ![g].state_of_group = "LEAVE"]
  /\ queue_grp_state' = queue_grp_state \ {state[g].queue_ticket}
  /\ at' = [at EXCEPT ![g] = 0]
  /\ UNCHANGED <<sems, table_state, queue, new_group_index, my_turn_to_go, local>>

(* call_next_group(num_people): the loop over the queue stops at each ticket   *)
(* that is not gone and looks at the group_state there, which is on the stack  *)
(* of that group's thread; an entry that was never written is a null pointer,  *)
(* and ends the program.  The first group that waits and fits is called in a   *)
(* later step, after which the table is made available.                        *)
FindNext(g, otherwise) ==
  LET here == {i \in at[g]..new_group_index-1 : i \in queue_grp_state}
  IN /\ IF here = {}
        THEN Goto(g, "find", otherwise) /\ UNCHANGED at
        ELSE Goto(g, "find", "peek") /\ at' = [at EXCEPT ![g] = Min(here)]
     /\ UNCHANGED <<sems, table_state, line, state, my_turn_to_go, local>>

FindLast(g) ==
  LET here == {i \in at[g]..new_group_index-1 : i \in queue_grp_state}
  IN /\ IF here = {}
        THEN Goto(g, "find", "freeUp") /\ UNCHANGED at
        ELSE Goto(g, "find", "peek") /\ at' = [at EXCEPT ![g] = Max(here)]
     /\ UNCHANGED <<sems, table_state, line, state, my_turn_to_go, local>>

Find(g) == FindNext(g, "freeUp")

Peek(g, fits) ==
  LET written == queue[at[g]] # NoGroup
      found == written /\ state[queue[at[g]]].state_of_group = "WAIT" /\ fits
  IN /\ Goto(g, "peek", IF ~written THEN "crashed" ELSE IF found THEN "call" ELSE "find")
     /\ at' = [at EXCEPT ![g] = IF found THEN @ ELSE @ + 1]
     /\ UNCHANGED <<sems, table_state, line, state, my_turn_to_go, local>>

(* The size of the group that g looks at.                                      *)
SizeThere(g) == state[queue[at[g]]].size_of_group

Call(g) ==
  /\ Goto(g, "call", "freeUp")
  /\ sem_post(my_turn_to_go, queue[at[g]])
  /\ UNCHANGED <<sems, table_state, line, state, local, at>>

FreeUpTwice(g, n) ==
  /\ Goto(g, "freeUp", "left")
  /\ table_available' = [table_available EXCEPT ![n] = @ + 2]
  /\ UNCHANGED <<mutex, customer_serve, customer_done, table_state, line, state,
                 my_turn_to_go, local, at>>

FreeUp(g, n) ==
  /\ Goto(g, "freeUp", "left")
  /\ sem_post(table_available, n)
  /\ UNCHANGED <<mutex, customer_serve, customer_done, table_state, line, state,
                 my_turn_to_go, local, at>>

Left(g, n) ==
  /\ Goto(g, "left", "gone")
  /\ sem_post(customer_done, n)
  /\ UNCHANGED <<mutex, customer_serve, table_available, table_state, line,
                 state, my_turn_to_go, local, at>>

-----------------------------------------------------------------------------
enqueue(g) ==
  \/ ReadIndex(g, "enlist", "put") \/ Enlist(g)
  \/ ReadIndex(g, "reread", "show") \/ Show(g)
  \/ ReadIndex(g, "count", "add") \/ Count(g)

request_for_table(g) ==
  \/ Record(g) \/ enqueue(g) \/ Look(g) \/ InitTurn(g) \/ Unlock(g)
  \/ AwaitTurn(g) \/ TakeTable(g, Size[g]) \/ Serve(g, Size[g])
  \/ assign_table(g, Size[g]) \/ Served(g, Size[g])

leave_table(g) ==
  \/ Leave(g) \/ free_table(g) \/ Mark(g) \/ Find(g)
  \/ Peek(g, SizeThere(g) = local[g]) \/ Call(g)
  \/ FreeUp(g, local[g]) \/ Left(g, local[g])

Up == \A g \in Groups : pc[g] # "crashed"

Next ==
  Up /\ \E g \in Groups : Enter(g) \/ Depart(g) \/ request_for_table(g) \/ leave_table(g)

Spec == Init /\ [][Next]_vars

-----------------------------------------------------------------------------
(* Properties                                                                  *)

Requesting(g) == pc[g] \in {"count", "add", "look", "init", "unlock", "turn",
                            "take", "serve", "assign"}
AtTable(g) == state[g].state_of_group = "EAT" /\ pc[g] # "mark"

(* The locks stay binary although leave_table releases the lock of a type it   *)
(* remembers, no type has more free tables than tables, and the queue is       *)
(* written within its bounds, although groups of different sizes race for the  *)
(* index.                                                                      *)
TypeOK ==
  /\ {mutex, customer_serve, customer_done} \subseteq [Types -> {0, 1}]
  /\ \A n \in Types : table_available[n] \in 0..num_tables[n]
                     /\ table_state[n] \subseteq 0..table_num(n)-1
  /\ new_group_index \in 0..Cardinality(Groups)
  /\ \A g \in Groups : /\ my_turn_to_go[g] \in Nat
                       /\ pc[g] \in {"put", "show"} => at[g] \in DOMAIN queue

(* No two groups eat at one table, and each eats at a table of its own size:   *)
(* table_available is never above the tables that are free, so that the loop   *)
(* of assign_table always stops before it runs past the tables of the type.    *)
SeatsExclusive ==
  \A g \in Groups : AtTable(g) \/ pc[g] \in {"served", "seated"} =>
    /\ state[g].table_assigned \in Before(Size[g]) .. table_num(Size[g]) - 1
    /\ \A h \in Groups \ {g} :
         AtTable(h) => state[h].table_assigned # state[g].table_assigned

(* The groups of size n at some of the labels, and the labels of those that    *)
(* hold a lock, that sit at a table and that have a table to give back.        *)
At(n, L) == {g \in Groups : Size[g] = n /\ pc[g] \in L}

Joining == {"enlist", "put", "reread", "show", "count", "add"}
HaveMutex == Joining \cup {"look", "init", "unlock"}
HaveServe == {"assign", "served"}
HaveDone == {"free", "mark", "find", "peek", "call", "crashed", "freeUp", "left"}
AtSlot == {"served", "seated", "leave", "free"}
HaveTable == AtSlot \cup {"serve", "assign"} \cup (HaveDone \ {"left"})

(* Tables are conserved: those available, those a group has taken and those a  *)
(* leaver has cleared but not yet given back make up the tables of the type.   *)
TablesConserved ==
  \A n \in Types :
    table_available[n] + Cardinality(At(n, HaveTable)) = num_tables[n]

(* The parts of an inductive invariant.  One unit of each lock, in the lock or *)
(* with the one thread that has it:                                            *)
OneUnit(units, holders) ==
  \/ units = 1 /\ holders = {}
  \/ units = 0 /\ \E g \in Groups : holders = {g}

LockInv(s, L) == \A n \in Types : OneUnit(s[n], At(n, L))

(* ... the occupied slots are those of the groups at the tables, one for each: *)
SlotInv ==
  /\ \A n \in Types :
       /\ table_state[n] \subseteq 0..num_tables[n]-1
       /\ Cardinality(table_state[n]) = Cardinality(At(n, AtSlot))
       /\ \A g \in At(n, AtSlot) :
            /\ state[g].table_assigned - Before(n) \in table_state[n]
            /\ \A h \in At(n, AtSlot) \ {g} :
                 state[h].table_assigned # state[g].table_assigned
  /\ \A g \in Groups :
       state[g].state_of_group = "EAT" => pc[g] \in AtSlot \cup {"mark"}

(* ... the sizes that the threads remember are their own:                      *)
SizeInv ==
  \A g \in Groups :
    /\ pc[g] \notin {"idle", "enter"} => state[g].size_of_group = Size[g]
    /\ pc[g] \in HaveDone => local[g] = Size[g]

(* ... the index counts, at most, the groups that have counted themselves, no  *)
(* index in hand counts more, and a group is found before it is called:        *)
Uncounted == {"idle", "enter"} \cup Joining
Counted == {g \in Groups : pc[g] \notin Uncounted}

LineInv ==
  /\ new_group_index <= Cardinality(Counted)
  /\ \A g \in Groups :
       /\ pc[g] \in {"put", "show", "add"} => at[g] <= Cardinality(Counted)
       /\ pc[g] \in {"peek", "call"} => at[g] \in DOMAIN queue
       /\ pc[g] = "call" => queue[at[g]] \in Groups

(* ... and every variable has its type.                                        *)
Labels == {"idle", "enter", "turn", "take", "gone"} \cup HaveMutex \cup HaveTable
            \cup HaveDone

GroupStates == [state_of_group : {"ARRIVE", "WAIT", "EAT", "LEAVE"},
                queue_ticket : Nat, size_of_group : Nat, table_assigned : Int]

Shape ==
  /\ mutex \in [Types -> Nat] /\ customer_serve \in [Types -> Nat]
  /\ customer_done \in [Types -> Nat] /\ table_available \in [Types -> Nat]
  /\ table_state \in [Types -> SUBSET Nat]
  /\ queue \in [0..Cardinality(Groups)-1 -> Groups \cup {NoGroup}]
  /\ queue_grp_state \subseteq DOMAIN queue
  /\ new_group_index \in Nat
  /\ state \in [Groups -> GroupStates]
  /\ my_turn_to_go \in [Groups -> Nat]
  /\ pc \in [Groups -> Labels] /\ local \in [Groups -> Nat] /\ at \in [Groups -> Nat]

(* What every step keeps, whatever the interleaving: the reason for TypeOK,    *)
(* SeatsExclusive and TablesConserved.                                         *)
SeatInv ==
  /\ Shape
  /\ LockInv(mutex, HaveMutex) /\ LockInv(customer_serve, HaveServe)
  /\ LockInv(customer_done, HaveDone)
  /\ TablesConserved /\ SlotInv /\ SizeInv /\ LineInv

(* request_for_table blocks until there is an available table: when all        *)
(* threads are at rest, no group waits for a type that has a free table.       *)
NoIdleTable ==
  (\A g \in Groups : AtRest(g)) =>
    \A g \in Groups : pc[g] \in {"turn", "take"} => table_available[Size[g]] = 0

(* The parts of the invariant of one command at a time.  A group waits for its *)
(* turn or has been given it; one thread has something to do, and the group it *)
(* has called before it gives back the table and the lock:                     *)
Waiting(g) == pc[g] = "turn" /\ my_turn_to_go[g] = 0
Invited(g) == pc[g] = "take" \/ (pc[g] = "turn" /\ my_turn_to_go[g] # 0)
Settled(g) == pc[g] \in {"idle", "seated", "gone"} \/ Waiting(g)

Follows(h, g) ==
  /\ Size[h] = Size[g]
  /\ \/ pc[g] = "freeUp" /\ Invited(h)
     \/ pc[g] = "left" /\ (Invited(h) \/ pc[h] \in {"serve", "assign", "served"})

OneMoves ==
  \A g, h \in Groups :
    g = h \/ Settled(g) \/ Settled(h) \/ Follows(g, h) \/ Follows(h, g)

(* ... the tables of a type are for the groups that were given their turn, and *)
(* none is left while another one waits:                                       *)
TurnsInv ==
  \A g \in Groups :
    /\ my_turn_to_go[g] \in {0, 1}
    /\ pc[g] \notin {"unlock", "turn"} => my_turn_to_go[g] = 0
    /\ pc[g] = "init" => local[g] = table_available[Size[g]]
    /\ pc[g] = "unlock" => (my_turn_to_go[g] # 0 <=> table_available[Size[g]] > 0)
    /\ Invited(g) => \/ table_available[Size[g]] > 0
                     \/ \E h \in Groups : pc[h] = "freeUp" /\ Size[h] = Size[g]
    /\ Waiting(g) => \/ table_available[Size[g]] = 0
                     \/ /\ table_available[Size[g]] = 1
                        /\ \E h \in Groups : Invited(h) /\ Size[h] = Size[g]
    /\ pc[g] = "freeUp" =>
         \/ /\ table_available[Size[g]] = 0
            /\ \E h \in Groups : Invited(h) /\ Size[h] = Size[g]
         \/ \A h \in Groups : Size[h] = Size[g] => ~Waiting(h) /\ ~Invited(h)

(* ... the queue has each group at its ticket, those who came later further    *)
(* behind, and those who have left are marked, so that a live ticket is one of *)
(* a group that has not gone:                                                  *)
InQueue == Labels \ {"idle", "enter", "enlist", "put"}
NotGone == InQueue \ {"reread", "show", "find", "peek", "call", "crashed", "freeUp",
                      "left", "gone"}

OrderInv ==
  /\ Up
  /\ \A g \in Groups :
       LET i == state[g].queue_ticket
       IN /\ pc[g] \in Joining => i = new_group_index
          /\ pc[g] \in {"put", "show", "add"} => at[g] = i
          /\ pc[g] \in InQueue => i \in DOMAIN queue /\ queue[i] = g
          /\ pc[g] \in InQueue \ Joining => i < new_group_index
          /\ pc[g] \in NotGone => i \in queue_grp_state
          /\ state[g].state_of_group = "WAIT" <=> pc[g] \in Joining \/ Requesting(g)
          /\ pc[g] \in AtSlot \cup {"mark"} => state[g].state_of_group = "EAT"
  /\ \A i \in queue_grp_state :
       /\ queue[i] \in Groups /\ pc[queue[i]] \in NotGone
       /\ state[queue[i]].queue_ticket = i

(* ... and the first of those who wait is the one that is called.              *)
FirstInv ==
  /\ \A g, h \in Groups : Waiting(h) /\ Size[h] = Size[g] =>
       /\ Invited(g) \/ pc[g] \in {"serve", "assign"} =>
            state[g].queue_ticket < state[h].queue_ticket
       /\ pc[g] \in {"find", "peek", "call"} => at[g] <= state[h].queue_ticket
  /\ \A g \in Groups :
       /\ pc[g] = "peek" => at[g] \in queue_grp_state
       /\ pc[g] = "call" => LET h == queue[at[g]]
                            IN Waiting(h) /\ Size[h] = Size[g] /\ state[h].queue_ticket = at[g]

(* What every step keeps, one command at a time: the reason for NoIdleTable    *)
(* and the promise.                                                            *)
QuietInv == SeatInv /\ OneMoves /\ TurnsInv /\ OrderInv /\ FirstInv

(* The groups in the line by their tickets: the k-th has k tickets up to its.  *)
InLine == {g \in Groups : Requesting(g) /\ ~AtTable(g)}
Place(g) ==
  Cardinality({h \in InLine : state[h].queue_ticket <= state[g].queue_ticket})

(* One command at a time, the restaurant seats as it promises: first come,     *)
(* first served among the groups of a size.                                    *)
Promise == INSTANCE Seating
  WITH Fit <- [g \in Groups |-> {Size[g]}],
       Tables <- [n \in Types |-> Before(n) .. table_num(n) - 1],
       line <- [k \in 1..Cardinality(InLine) |-> CHOOSE g \in InLine : Place(g) = k],
       table <- [g \in {h \in Groups : AtTable(h)} |-> state[g].table_assigned]

ImplementsSeating == Promise!Spec

=============================================================================
