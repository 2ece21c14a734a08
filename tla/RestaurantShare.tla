--------------------------- MODULE RestaurantShare --------------------------
(* The restaurant of Lab3/ex6/restaurant.c: a group that finds no free table   *)
(* of its size or more may be sent to one where others sit.  size_of_group     *)
(* stays the group's size until a leaver calls it; the type of the table is in *)
(* size_of_table_to_fit.  The steps that exercise 6 has in common with 4 and 5 *)
(* are theirs.                                                                 *)
EXTENDS Semaphores, Integers, FiniteSetsExt

CONSTANTS Groups, NoGroup, T, Size, num_tables, Together   \* as in Restaurant

VARIABLES mutex, customer_serve, customer_done, table_available, table_state,
          queue, queue_grp_state, new_group_index, state, my_turn_to_go,
          pc, local, at,
          size_of_table_to_fit,    \* of the group_state, by group
          legit_want_to_eat,       \* the groups sent to an occupied table
          table_full_usage         \* table_full_usage[n][i], slot i of type n

R == INSTANCE Restaurant WITH Together <- TRUE
A == INSTANCE RestaurantAny WITH Together <- TRUE

sems == <<mutex, customer_serve, customer_done, table_available>>
line == <<queue, queue_grp_state, new_group_index>>
share == <<size_of_table_to_fit, legit_want_to_eat, table_full_usage>>
vars == <<sems, table_state, line, state, my_turn_to_go, pc, local, at, share>>

Init ==
  /\ R!Init
  /\ size_of_table_to_fit = [g \in Groups |-> 0]
  /\ legit_want_to_eat = {}
  /\ table_full_usage = [n \in R!Types |-> [i \in 0..R!table_num(T-1)-1 |-> 0]]

Fit(g) == size_of_table_to_fit[g]

(* A group is at rest when its thread waits for the driver, a call or a table. *)
AtRest(g) ==
  \/ pc[g] \in {"idle", "seated", "gone"}
  \/ pc[g] = "turn" /\ my_turn_to_go[g] = 0
  \/ pc[g] = "take" /\ table_available[Fit(g)] = 0

Quiet == \A g \in Groups : AtRest(g)

Command(g) == (Together \/ Quiet) /\ (R!Enter(g) \/ R!Depart(g)) /\ UNCHANGED share

-----------------------------------------------------------------------------
(* request_for_table                                                           *)

Record(g) ==
  /\ R!Record(g)
  /\ size_of_table_to_fit' = [size_of_table_to_fit EXCEPT ![g] = Size[g]]
  /\ legit_want_to_eat' = legit_want_to_eat \ {g}
  /\ UNCHANGED table_full_usage

(* A type with a table left: size_of_table_to_fit = i; sem_init(..., 0, 1);    *)
OpenTurn(g) ==
  /\ R!Goto(g, "open", "unlock")
  /\ size_of_table_to_fit' = [size_of_table_to_fit EXCEPT ![g] = at[g]]
  /\ my_turn_to_go' = [my_turn_to_go EXCEPT ![g] = 1]
  /\ UNCHANGED <<sems, table_state, line, state, local, at, legit_want_to_eat,
                 table_full_usage>>

(* No table left: for every larger type i, the first slot j of the group's own *)
(* type that is said to have room for it at a table of i; the last i stands.   *)
(* The reads of the two loops are taken together.                              *)
Room(g, i) ==
  {j \in 0..R!table_num(i)-1 : i - table_full_usage[Size[g]][j] >= Size[g]}

ShareTable(g) ==
  LET n == Size[g]
      shared == {i \in n+1..T-1 : Room(g, i) # {}}
      i == Max(shared)
  IN /\ R!Goto(g, "close", "unlock")
     /\ IF shared = {}
        THEN UNCHANGED <<state, size_of_table_to_fit, legit_want_to_eat>>
        ELSE /\ state' = [state EXCEPT ![g].table_assigned =
                                         R!table_id(n, Min(Room(g, i)))]
             /\ size_of_table_to_fit' = [size_of_table_to_fit EXCEPT ![g] = i]
             /\ legit_want_to_eat' = legit_want_to_eat \cup {g}
     /\ my_turn_to_go' = [my_turn_to_go EXCEPT ![g] = IF shared = {} THEN 0 ELSE 1]
     /\ UNCHANGED <<sems, table_state, line, local, at, table_full_usage>>

AwaitTurn(g) ==
  /\ R!Goto(g, "turn", IF g \in legit_want_to_eat THEN "admit" ELSE "take")
  /\ sem_wait(my_turn_to_go, g)
  /\ UNCHANGED <<sems, table_state, line, state, local, at, share>>

(* A group that shares makes the unit of table_available that it takes next.   *)
Admit(g) ==
  /\ R!Goto(g, "admit", "take")
  /\ sem_post(table_available, Fit(g))
  /\ UNCHANGED <<mutex, customer_serve, customer_done, table_state, line, state,
                 my_turn_to_go, local, at, share>>

(* assign_table: a group that shares looks for its table among those of the    *)
(* type it was sent to, any other takes the first slot that is not occupied.   *)
(* With none found the call returns an error and the group goes on waiting.    *)
assign_table(g) ==
  LET n == Fit(g)
      shares == g \in legit_want_to_eat
      slots == {j \in 0..R!table_num(n)-1 :
                  IF shares THEN R!table_id(n, j) = state[g].table_assigned
                            ELSE j \notin table_state[n]}
      i == Min(slots)
  IN /\ R!Goto(g, "assign", "served")
     /\ IF slots = {} THEN UNCHANGED <<state, table_full_usage, table_state>>
        ELSE /\ state' = [state EXCEPT ![g].state_of_group = "EAT",
                                       ![g].table_assigned = R!table_id(n, i)]
             /\ table_full_usage' = [table_full_usage EXCEPT ![n][i] = @ +
                  (IF shares THEN state[g].size_of_group ELSE n)]
             /\ table_state' = IF shares THEN table_state
                               ELSE [table_state EXCEPT ![n] = @ \cup {i}]
     /\ UNCHANGED <<sems, line, my_turn_to_go, local, at, size_of_table_to_fit,
                    legit_want_to_eat>>

-----------------------------------------------------------------------------
(* leave_table, with num_people = state->size_of_group kept in local           *)

(* free_table(state, num_people): the people are taken off the slot of the     *)
(* type the group was sent to, the mark off the slot of its own.               *)
free_table(g) ==
  LET n == Fit(g)
      used == {j \in 0..R!table_num(n)-1 : R!table_id(n, j) = state[g].table_assigned}
      i == Min(used)
      left == table_full_usage[n][i] - state[g].size_of_group
  IN /\ R!Goto(g, "free", "mark")
     /\ IF used = {} THEN UNCHANGED <<table_full_usage, table_state>>
        ELSE /\ table_full_usage' = [table_full_usage EXCEPT ![n][i] = left]
             /\ table_state' = IF left # 0 THEN table_state
                               ELSE [table_state EXCEPT ![local[g]] = @ \ {i}]
     /\ UNCHANGED <<sems, line, state, my_turn_to_go, local, at,
                    size_of_table_to_fit, legit_want_to_eat>>

(* call_next_group: first a waiting group of at most this size, called as in   *)
(* exercise 5; only then does leave_table give the table back.                 *)
Find(g) == R!FindNext(g, "offer")

(* Otherwise the first group in the queue, whether or not it waits, if the     *)
(* table just freed (the last slot with its id; any, when none has it) is said *)
(* to have room for as many as have left.  It is the leaver's own group_state  *)
(* that is marked.                                                             *)
Offer(g) ==
  LET n == Fit(g)
      freed == {j \in 0..R!table_num(n)-1 : R!table_id(n, j) = state[g].table_assigned}
      here == {i \in 0..new_group_index-1 : i \in queue_grp_state}
  IN \E room \in BOOLEAN :
       /\ freed # {} =>
            room = (n - table_full_usage[n][Max(freed)] >= state[g].size_of_group)
       /\ IF room /\ here # {}
          THEN /\ R!Goto(g, "offer", "invite")
               /\ at' = [at EXCEPT ![g] = Min(here)]
               /\ legit_want_to_eat' = legit_want_to_eat \cup {g}
          ELSE R!Goto(g, "offer", "left") /\ UNCHANGED <<at, legit_want_to_eat>>
       /\ UNCHANGED <<sems, table_state, line, state, my_turn_to_go, local,
                      size_of_table_to_fit, table_full_usage>>

Invite(g) ==
  /\ R!Goto(g, "invite", IF queue[at[g]] = NoGroup THEN "crashed" ELSE "left")
  /\ IF queue[at[g]] = NoGroup THEN UNCHANGED my_turn_to_go
                              ELSE sem_post(my_turn_to_go, queue[at[g]])
  /\ UNCHANGED <<sems, table_state, line, state, local, at, share>>

-----------------------------------------------------------------------------
request_for_table(g) ==
  \/ Record(g) \/ OpenTurn(g) \/ ShareTable(g) \/ AwaitTurn(g) \/ Admit(g)
  \/ assign_table(g)
  \/ /\ \/ R!enqueue(g) \/ A!LookFirst(g) \/ A!Scan(g) \/ R!Unlock(g)
        \/ R!TakeTable(g, Fit(g)) \/ R!Serve(g, Fit(g)) \/ R!Served(g, Fit(g))
     /\ UNCHANGED share

leave_table(g) ==
  \/ free_table(g) \/ Offer(g) \/ Invite(g)
  \/ /\ \/ R!Leave(g) \/ R!Mark(g) \/ Find(g) \/ A!Peek(g)
        \/ A!Resize(g) \/ A!Call(g) \/ R!FreeUp(g, local[g]) \/ R!Left(g, local[g])
     /\ UNCHANGED share

Next ==
  R!Up /\ \E g \in Groups : Command(g) \/ request_for_table(g) \/ leave_table(g)

Spec == Init /\ [][Next]_vars

-----------------------------------------------------------------------------
(* Properties                                                                  *)

(* The groups at a table are never more people than it has seats: whoever is   *)
(* sent to share one finds room there, and whoever is not has it alone.        *)
Seats(n) == n + 1

AtTable(t) == {g \in Groups : R!AtTable(g) /\ state[g].table_assigned = t}

SeatsSuffice ==
  \A n \in R!Types : \A t \in R!Before(n) .. R!table_num(n) - 1 :
    MapThenSumSet(LAMBDA g : Seats(Size[g]), AtTable(t)) <= Seats(n)

=============================================================================
