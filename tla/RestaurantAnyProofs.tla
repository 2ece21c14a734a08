------------------------ MODULE RestaurantAnyProofs ------------------------
(* Proofs about RestaurantAny, for any groups and tables and a driver that     *)
(* gives one command at a time.  The numbers, the tables and the lines of      *)
(* groups are those of Restaurant, whose lemmas about them serve here, too.    *)
EXTENDS RestaurantAny, FiniteSetTheorems, SequenceTheorems, TLAPS

P == INSTANCE RestaurantProofs

-----------------------------------------------------------------------------
(* Numbers and tables                                                          *)

LEMMA SameConstants ==
  /\ P!GroupsAssumption /\ P!TypesAssumption /\ P!GroupSizeAssumption /\ P!TogetherAssumption
  /\ \A S : R!Cardinality(S) = Cardinality(S)
  /\ R!Types = 0..T-1 /\ \A g \in Groups : Size[g] \in R!Types
<1>1. P!GroupsAssumption /\ P!TypesAssumption /\ P!GroupSizeAssumption /\ P!TogetherAssumption
  BY GroupsAssumption, TypesAssumption, GroupSizeAssumption, TogetherAssumption
  DEF P!GroupsAssumption, P!TypesAssumption, P!GroupSizeAssumption, P!TogetherAssumption,
      P!IsFiniteSet, IsFiniteSet
<1>2. \A S : R!Cardinality(S) = Cardinality(S)
  BY DEF R!Cardinality, Cardinality
<1>3. R!Types = 0..T-1 /\ \A g \in Groups : Size[g] \in R!Types
  BY GroupSizeAssumption DEF R!Types
<1> QED BY <1>1, <1>2, <1>3

LEMMA MinOfNaturals ==
  ASSUME NEW S \in SUBSET Nat, S # {}
  PROVE  R!Min(S) \in S /\ \A y \in S : R!Min(S) <= y
BY P!MinOfNaturals, SameConstants DEF R!Min, P!Min

LEMMA SlotCount ==
  ASSUME NEW k \in Nat
  PROVE  IsFiniteSet(0..k-1) /\ Cardinality(0..k-1) = k
<1>1. /\ IsFiniteSet(0..k-1)
      /\ Cardinality(0..k-1) = IF 0 > k - 1 THEN 0 ELSE (k - 1) - 0 + 1
  BY FS_Interval
<1> QED BY <1>1

LEMMA TablesBefore ==
  /\ \A n \in R!Types : /\ num_tables[n] \in Nat /\ R!Before(n) \in Nat
                        /\ R!table_num(n) = R!Before(n) + num_tables[n]
  /\ \A n, m \in R!Types : n < m => R!table_num(n) <= R!Before(m)
BY P!TablesBefore, SameConstants
DEF R!Types, R!Before, R!table_num, P!Types, P!Before, P!table_num

(* A step changes the type of no group that has a table in hand.               *)
TypesKept ==
  \A h \in Groups : pc[h] \in HaveTable \/ pc'[h] \in HaveTable => Type(h)' = Type(h)

(* What a thread that moves from one label to another does to the groups of a  *)
(* type at the labels L.                                                       *)
LEMMA MoveAt ==
  ASSUME NEW g \in Groups, NEW n, NEW from, NEW to, NEW L \in SUBSET HaveTable,
         pc \in [Groups -> Labels], R!Goto(g, from, to), TypesKept
  PROVE  /\ Type(g) # n \/ (from \in L <=> to \in L) => At(n, L)' = At(n, L)
         /\ Type(g) = n /\ from \notin L /\ to \in L =>
              At(n, L)' = At(n, L) \cup {g} /\ g \notin At(n, L)
         /\ Type(g) = n /\ from \in L /\ to \notin L =>
              At(n, L)' = At(n, L) \ {g} /\ g \in At(n, L)
<1>1. /\ pc[g] = from /\ pc'[g] = to /\ \A h \in Groups \ {g} : pc'[h] = pc[h]
      /\ \A h \in Groups : pc[h] \in L \/ pc'[h] \in L => Type(h)' = Type(h)
  BY DEF R!Goto, TypesKept
<1>2. /\ At(n, L) = {h \in Groups : Type(h) = n /\ pc[h] \in L}
      /\ At(n, L)' = {h \in Groups : Type(h)' = n /\ pc'[h] \in L}
  BY DEF At
<1> QED BY <1>1, <1>2

(* The groups of a type at some labels are finitely many ...                   *)
LEMMA AtFinite ==
  ASSUME NEW n, NEW L
  PROVE  IsFiniteSet(At(n, L)) /\ Cardinality(At(n, L)) \in Nat
<1>1. At(n, L) \subseteq Groups  BY DEF At
<1> QED BY <1>1, FS_Subset, FS_CardinalityType, GroupsAssumption

(* ... and what such a step does to how many they are.                         *)
LEMMA MoveCard ==
  ASSUME NEW g \in Groups, NEW n, NEW from, NEW to, NEW L \in SUBSET HaveTable,
         pc \in [Groups -> Labels], R!Goto(g, from, to), TypesKept, Type(g) = n
  PROVE  LET k == Cardinality(At(n, L))
         IN /\ from \notin L /\ to \in L => Cardinality(At(n, L)') = k + 1
            /\ from \in L /\ to \notin L => Cardinality(At(n, L)') = k - 1 /\ k > 0
<1> DEFINE S == At(n, L)
           U == At(n, L)'
<1>1. IsFiniteSet(S) /\ Cardinality(S) \in Nat
  BY AtFinite
<1>2. from \notin L /\ to \in L => U = S \cup {g} /\ g \notin S
  BY MoveAt
<1>3. from \in L /\ to \notin L => U = S \ {g} /\ g \in S
  BY MoveAt
<1> HIDE DEF S, U
<1>4. g \notin S => Cardinality(S \cup {g}) = Cardinality(S) + 1
  BY <1>1, FS_AddElement
<1>5. g \in S => Cardinality(S \ {g}) = Cardinality(S) - 1
  BY <1>1, FS_RemoveElement
<1>6. g \in S => Cardinality(S) > 0
  BY <1>1, FS_EmptySet
<1>7. /\ from \notin L /\ to \in L => Cardinality(U) = Cardinality(S) + 1
      /\ from \in L /\ to \notin L => Cardinality(U) = Cardinality(S) - 1 /\ Cardinality(S) > 0
  BY <1>1, <1>2, <1>3, <1>4, <1>5, <1>6
<1> QED BY <1>7 DEF S, U

(* A thread that stays within HaveTable, or out of it, and leaves              *)
(* table_available alone conserves the tables.                                 *)
LEMMA TablesStay ==
  ASSUME NEW g \in Groups, NEW from, NEW to,
         pc \in [Groups -> Labels], R!Goto(g, from, to), TypesKept, TablesConserved,
         table_available' = table_available, from \in HaveTable <=> to \in HaveTable
  PROVE  TablesConserved'
<1>1. \A n : At(n, HaveTable)' = At(n, HaveTable)
  BY MoveAt
<1> QED BY <1>1 DEF TablesConserved

(* A thread that takes a table off table_available has one more in hand, one   *)
(* that gives a table back has one less.                                       *)
LEMMA TableMoves ==
  ASSUME NEW g \in Groups, NEW from, NEW to, NEW n, Type(g) = n,
         pc \in [Groups -> Labels], R!Goto(g, from, to), TypesKept,
         TablesConserved, table_available \in [R!Types -> Nat],
         \/ /\ table_available' = [table_available EXCEPT ![n] = @ - 1]
            /\ from \notin HaveTable /\ to \in HaveTable
         \/ /\ table_available' = [table_available EXCEPT ![n] = @ + 1]
            /\ from \in HaveTable /\ to \notin HaveTable
  PROVE  TablesConserved'
<1> SUFFICES ASSUME NEW m \in R!Types
             PROVE  table_available'[m] + Cardinality(At(m, HaveTable)') = num_tables[m]
  BY DEF TablesConserved
<1>1. Cardinality(At(m, HaveTable)) \in Nat
  BY AtFinite
<1>2. table_available[m] + Cardinality(At(m, HaveTable)) = num_tables[m]
  BY DEF TablesConserved
<1>3. CASE m = n
  BY <1>1, <1>2, <1>3, MoveCard
<1>4. CASE m # n
  BY <1>2, <1>4, MoveAt
<1> QED BY <1>3, <1>4

(* A step that changes no slot, no table of a group and who sits at a table    *)
(* keeps the slots right.                                                      *)
LEMMA SlotsStay ==
  ASSUME NEW g \in Groups, NEW from, NEW to,
         pc \in [Groups -> Labels], R!Goto(g, from, to), TypesKept, SlotInv,
         table_state' = table_state, from \in R!AtSlot <=> to \in R!AtSlot,
         \A h \in Groups : state'[h].table_assigned = state[h].table_assigned,
         \A h \in Groups : state'[h].state_of_group = "EAT" =>
                            state[h].state_of_group = "EAT" /\ (h = g => from # "mark")
  PROVE  SlotInv'
<1>0. \A n : At(n, R!AtSlot) \subseteq Groups
  BY DEF At
<1>1. \A n : At(n, R!AtSlot)' = At(n, R!AtSlot)
  <2>1. R!AtSlot \in SUBSET HaveTable
    BY DEF HaveTable, R!HaveTable
  <2> QED BY <2>1, MoveAt
<1>2. ASSUME NEW h \in Groups, state'[h].state_of_group = "EAT"
      PROVE  pc'[h] \in R!AtSlot \cup {"mark"}
  BY <1>2 DEF SlotInv, R!Goto
<1>3. ASSUME NEW n \in R!Types
      PROVE  /\ table_state'[n] \subseteq 0..num_tables[n]-1
             /\ Cardinality(table_state'[n]) = Cardinality(At(n, R!AtSlot)')
             /\ \A h \in At(n, R!AtSlot)' :
                  /\ state'[h].table_assigned - R!Before(n) \in table_state'[n]
                  /\ \A k \in At(n, R!AtSlot)' \ {h} :
                       state'[k].table_assigned # state'[h].table_assigned
  BY <1>0, <1>1 DEF SlotInv
<1> QED BY <1>2, <1>3 DEF SlotInv

(* A step that leaves the queue and its index alone, by a thread that takes up *)
(* no index but that of a group.                                               *)
LEMMA LineStays ==
  ASSUME NEW g \in Groups, NEW from, NEW to,
         pc \in [Groups -> Labels], R!Goto(g, from, to), R!LineInv,
         queue' = queue, new_group_index' = new_group_index,
         \A h \in Groups \ {g} : at'[h] = at[h],
         from \in R!Uncounted <=> to \in R!Uncounted, to \notin {"put", "show", "add"},
         to \in {"peek", "call"} => at'[g] \in DOMAIN queue,
         to = "call" => queue[at'[g]] \in Groups
  PROVE  R!LineInv'
<1>1. R!Counted' = R!Counted
  BY DEF R!Counted, R!Goto
<1>2. \A h \in Groups \ {g} : pc'[h] = pc[h] /\ at'[h] = at[h]
  BY DEF R!Goto
<1>3. pc'[g] = to
  BY DEF R!Goto
<1> QED BY <1>1, <1>2, <1>3 DEF R!LineInv

(* A step of a thread that changes no size_of_group and calls no group.        *)
Knows == {"take", "serve"} \cup HaveDone

LEMMA SizesStay ==
  ASSUME NEW g \in Groups, NEW from, NEW to,
         pc \in [Groups -> Labels], R!Goto(g, from, to), SizeInv,
         \A h \in Groups : Type(h)' = Type(h),
         \A h \in Groups \ {g} : /\ local'[h] = local[h] /\ at'[h] = at[h]
                                 /\ my_turn_to_go'[h] = my_turn_to_go[h],
         queue' = queue \/ \A h \in Groups : pc[h] # "post", from # "post",
         from \in {"idle", "enter"} => to \in {"idle", "enter"},
         to \in Knows => local'[g] = Type(g), Unplaced(g)' => Unplaced(g)
  PROVE  SizeInv'
<1>1. pc'[g] = to /\ pc[g] = from /\ \A h \in Groups \ {g} : pc'[h] = pc[h]
  BY DEF R!Goto
<1> SUFFICES ASSUME NEW h \in Groups
             PROVE  /\ pc'[h] \notin {"idle", "enter"} => Type(h)' \in Size[h]..T-1
                    /\ Unplaced(h)' => Type(h)' = Size[h]
                    /\ pc'[h] \in Knows => local'[h] = Type(h)'
  BY DEF SizeInv, Knows
<1>2. Called(h) => Called(h)'
  BY <1>1 DEF Called
<1>3. Unplaced(h)' => Unplaced(h)
  <2>1. CASE h = g  BY <2>1
  <2>2. CASE h # g  BY <1>1, <1>2, <2>2 DEF Unplaced
  <2> QED BY <2>1, <2>2
<1> QED BY <1>1, <1>3 DEF SizeInv, Knows

(* A step that touches no table, no slot, no group_state and not the queue.    *)
LEMMA SeatsStay ==
  ASSUME NEW g \in Groups, NEW from, NEW to, SeatInv, R!Goto(g, from, to), to \in Labels,
         UNCHANGED <<table_available, table_state, line, state>>,
         my_turn_to_go' \in [Groups -> Nat], local' \in [Groups -> Nat],
         at' \in [Groups -> Nat],
         \A h \in Groups \ {g} : /\ local'[h] = local[h] /\ at'[h] = at[h]
                                 /\ my_turn_to_go'[h] = my_turn_to_go[h],
         from # "mark", from \in HaveTable <=> to \in HaveTable,
         from \in R!AtSlot <=> to \in R!AtSlot,
         from \in {"idle", "enter"} => to \in {"idle", "enter"},
         from \in R!Uncounted <=> to \in R!Uncounted, to \notin {"put", "show", "add"},
         from # "post", to \in Knows => local'[g] = Type(g), Unplaced(g)' => Unplaced(g),
         to \in {"peek", "call"} => at'[g] \in DOMAIN queue,
         to = "call" => queue[at'[g]] \in Groups
  PROVE  SeatInv'
<1>1. /\ pc \in [Groups -> Labels] /\ pc' \in [Groups -> Labels]
      /\ queue' = queue /\ queue_grp_state' = queue_grp_state
      /\ new_group_index' = new_group_index
  BY DEF SeatInv, Shape, R!Goto, line
<1>2. TypesKept /\ \A h \in Groups : Type(h)' = Type(h)
  BY DEF TypesKept, Type
<1>3. Shape'
  BY <1>1 DEF SeatInv, Shape
<1>4. TablesConserved'
  BY <1>1, <1>2, TablesStay DEF SeatInv
<1>5. SlotInv'
  BY <1>1, <1>2, SlotsStay DEF SeatInv
<1>6. SizeInv'
  BY <1>1, <1>2, SizesStay DEF SeatInv
<1>7. R!LineInv'
  BY <1>1, LineStays DEF SeatInv
<1> QED BY <1>3, <1>4, <1>5, <1>6, <1>7 DEF SeatInv

(* The labels of request_for_table and leave_table that have a table in hand.  *)
LEMMA LabelSets ==
  /\ HaveDone = {"free", "mark", "find", "peek", "call", "crashed", "post", "freeUp", "left"}
  /\ Knows = {"take", "serve"} \cup HaveDone
  /\ R!AtSlot = {"served", "seated", "leave", "free"}
  /\ HaveTable = {"serve", "assign", "served", "seated", "leave", "free", "mark", "find",
                  "peek", "call", "crashed", "post", "freeUp"}
  /\ R!Joining = {"enlist", "put", "reread", "show", "count", "add"}
  /\ R!Uncounted = {"idle", "enter"} \cup R!Joining
  /\ Labels = {"idle", "enter", "look", "scan", "open", "close", "unlock",
               "turn", "take", "gone", "left"} \cup R!Joining \cup HaveTable
BY DEF HaveDone, Knows, R!HaveDone, R!AtSlot, HaveTable, R!HaveTable, R!Uncounted, R!Joining,
       Labels, R!Labels, R!HaveMutex

(* A command of the driver.                                                    *)
LEMMA CommandInv ==
  ASSUME NEW g \in Groups, SeatInv, R!Enter(g) \/ R!Depart(g)
  PROVE  SeatInv'
<1>1. /\ R!Goto(g, "idle", "enter") \/ R!Goto(g, "seated", "leave")
      /\ UNCHANGED <<table_available, table_state, line, state, my_turn_to_go, local, at>>
      /\ my_turn_to_go \in [Groups -> Nat] /\ local \in [Groups -> Nat] /\ at \in [Groups -> Nat]
  BY DEF R!Enter, R!Depart, R!Command, R!sems, R!line, line, SeatInv, Shape
<1>2. ~ Unplaced(g)'
  BY <1>1, LabelSets DEF Unplaced, R!Goto, SeatInv, Shape
<1> QED BY <1>1, <1>2, SeatsStay, LabelSets

(* The loop over the table types, when it finds no table, and the locks.       *)
LEMMA RequestInv ==
  ASSUME NEW g \in Groups, SeatInv,
         \/ LookFirst(g) \/ Scan(g) \/ CloseTurn(g) \/ R!Unlock(g) \/ AwaitTurn(g)
         \/ R!Serve(g, local[g]) \/ R!Served(g, Type(g))
  PROVE  SeatInv'
<1>1. /\ my_turn_to_go \in [Groups -> Nat] /\ local \in [Groups -> Nat] /\ at \in [Groups -> Nat]
      /\ pc \in [Groups -> Labels] /\ Size[g] \in Nat /\ Type(g) \in Nat
  BY SameConstants DEF SeatInv, Shape, Type, R!GroupStates
<1>2. CASE LookFirst(g)
  <2>1. /\ R!Goto(g, "look", "scan") /\ at' = [at EXCEPT ![g] = Size[g]]
        /\ UNCHANGED <<table_available, table_state, line, state, my_turn_to_go, local>>
    BY <1>2 DEF LookFirst, sems
  <2>2. Unplaced(g)
    BY <2>1 DEF Unplaced, R!Goto
  <2> QED BY <1>1, <2>1, <2>2, SeatsStay, LabelSets
<1>3. CASE Scan(g)
  <2>1. PICK to \in {"open", "close", "scan"} : R!Goto(g, "scan", to)
    BY <1>3 DEF Scan
  <2>2. /\ \/ at' = [at EXCEPT ![g] = @] \/ at' = [at EXCEPT ![g] = @ + 1]
        /\ UNCHANGED <<table_available, table_state, line, state, my_turn_to_go, local>>
    BY <1>3 DEF Scan, sems
  <2>3. at' \in [Groups -> Nat] /\ \A h \in Groups \ {g} : at'[h] = at[h]
    BY <1>1, <2>2
  <2>4. Unplaced(g)
    BY <2>1 DEF Unplaced, R!Goto
  <2> QED BY <1>1, <2>1, <2>2, <2>3, <2>4, SeatsStay, LabelSets
<1>4. CASE CloseTurn(g)
  <2>1. /\ R!Goto(g, "close", "unlock") /\ my_turn_to_go' = [my_turn_to_go EXCEPT ![g] = 0]
        /\ UNCHANGED <<table_available, table_state, line, state, local, at>>
    BY <1>4 DEF CloseTurn, sems
  <2>2. Unplaced(g)
    BY <2>1 DEF Unplaced, R!Goto
  <2> QED BY <1>1, <2>1, <2>2, SeatsStay, LabelSets
<1>5. CASE R!Unlock(g)
  <2>1. /\ R!Goto(g, "unlock", "turn")
        /\ UNCHANGED <<table_available, table_state, line, state, my_turn_to_go, local, at>>
    BY <1>5 DEF R!Unlock, R!line, line
  <2>2. Unplaced(g)' => Unplaced(g)
    <3>1. queue' = queue /\ at' = at /\ my_turn_to_go' = my_turn_to_go
          /\ pc[g] = "unlock" /\ \A h \in Groups \ {g} : pc'[h] = pc[h]
      BY <1>1, <2>1 DEF R!Goto, line
    <3>2. Called(g) => Called(g)'
      BY <3>1 DEF Called
    <3> QED BY <1>1, <2>1, <3>1, <3>2, LabelSets DEF Unplaced, R!Goto
  <2> QED BY <1>1, <2>1, <2>2, SeatsStay, LabelSets
<1>6. CASE AwaitTurn(g)
  <2>1. /\ R!Goto(g, "turn", "take") /\ my_turn_to_go[g] > 0
        /\ my_turn_to_go' = [my_turn_to_go EXCEPT ![g] = @ - 1]
        /\ local' = [local EXCEPT ![g] = Type(g)]
        /\ UNCHANGED <<table_available, table_state, line, state, at>>
    BY <1>6 DEF AwaitTurn, sem_wait, sems
  <2>2. ~ Unplaced(g)' /\ my_turn_to_go' \in [Groups -> Nat] /\ local' \in [Groups -> Nat]
        /\ local'[g] = Type(g)
    BY <1>1, <2>1, LabelSets DEF Unplaced, R!Goto
  <2> QED BY <1>1, <2>1, <2>2, SeatsStay, LabelSets
<1>7. CASE R!Serve(g, local[g]) \/ R!Served(g, Type(g))
  <2>1. /\ R!Goto(g, "serve", "assign") \/ R!Goto(g, "served", "seated")
        /\ UNCHANGED <<table_available, table_state, line, state, my_turn_to_go, local, at>>
    BY <1>7 DEF R!Serve, R!Served, R!line, line
  <2>2. ~ Unplaced(g)'
    BY <1>1, <2>1, LabelSets DEF Unplaced, R!Goto
  <2> QED BY <1>1, <2>1, <2>2, SeatsStay, LabelSets
<1> QED BY <1>2, <1>3, <1>4, <1>5, <1>6, <1>7

(* leave_table, where it takes and gives back the lock and searches the queue. *)
LEMMA LeaveInv ==
  ASSUME NEW g \in Groups, SeatInv,
         R!Leave(g) \/ R!Find(g) \/ Peek(g) \/ R!Left(g, local[g])
  PROVE  SeatInv'
<1>1. /\ my_turn_to_go \in [Groups -> Nat] /\ local \in [Groups -> Nat] /\ at \in [Groups -> Nat]
      /\ pc \in [Groups -> Labels] /\ new_group_index \in Nat
      /\ queue_grp_state \subseteq DOMAIN queue
      /\ DOMAIN queue \subseteq Nat /\ state \in [Groups -> R!GroupStates]
  BY FS_CardinalityType, GroupsAssumption DEF SeatInv, Shape
<1>2. CASE R!Leave(g)
  <2>1. /\ R!Goto(g, "leave", "free") /\ local' = [local EXCEPT ![g] = Type(g)]
        /\ UNCHANGED <<table_available, table_state, line, state, my_turn_to_go, at>>
    BY <1>2 DEF R!Leave, R!line, line, Type
  <2>2. ~ Unplaced(g)' /\ Type(g) \in Nat
    BY <1>1, <2>1, LabelSets DEF Unplaced, R!Goto, Type, R!GroupStates
  <2> QED BY <1>1, <2>1, <2>2, SeatsStay, LabelSets
<1>3. CASE R!Find(g)
  <2> DEFINE here == {i \in at[g]..new_group_index-1 : i \in queue_grp_state}
  <2>1. /\ here = {} => R!Goto(g, "find", "freeUp") /\ at' = at
        /\ here # {} => R!Goto(g, "find", "peek") /\ at' = [at EXCEPT ![g] = R!Min(here)]
        /\ UNCHANGED <<table_available, table_state, line, state, my_turn_to_go, local>>
    BY <1>3 DEF R!Find, R!FindNext, R!sems, R!line, line
  <2>2. here \in SUBSET Nat /\ here \subseteq queue_grp_state
    BY <1>1
  <2> HIDE DEF here
  <2>3. here # {} => R!Min(here) \in here
    BY <2>2, MinOfNaturals
  <2>4. ~ Unplaced(g)' /\ local[g] = Type(g)
    BY <1>1, <2>1, LabelSets DEF Unplaced, R!Goto, SeatInv, SizeInv
  <2>5. CASE here = {}
    BY <1>1, <2>1, <2>4, <2>5, SeatsStay, LabelSets
  <2>6. CASE here # {}
    BY <1>1, <2>1, <2>2, <2>3, <2>4, <2>6, SeatsStay, LabelSets
  <2> QED BY <2>5, <2>6
<1>4. CASE Peek(g)
  <2>1. /\ \/ R!Goto(g, "peek", "call") /\ at' = at /\ queue[at[g]] # NoGroup
           \/ R!Goto(g, "peek", "find") /\ at' = [at EXCEPT ![g] = @ + 1]
           \/ R!Goto(g, "peek", "crashed") /\ at' = [at EXCEPT ![g] = @ + 1]
        /\ UNCHANGED <<table_available, table_state, line, state, my_turn_to_go, local>>
    <3>1. pc[g] = "peek" /\ at' = [at EXCEPT ![g] = @] => at' = at
      BY <1>1
    <3> QED BY <1>4, <3>1 DEF Peek, R!Peek, R!Goto, R!sems, R!line, line
  <2>2. /\ at[g] \in DOMAIN queue /\ ~ Unplaced(g)' /\ local[g] = Type(g)
        /\ queue \in [0..Cardinality(Groups)-1 -> Groups \cup {NoGroup}]
    BY <1>1, <2>1, LabelSets DEF Unplaced, R!Goto, SeatInv, SizeInv, R!LineInv, Shape
  <2>3. CASE R!Goto(g, "peek", "call") /\ at' = at /\ queue[at[g]] # NoGroup
    <3>1. queue[at[g]] \in Groups
      BY <2>2, <2>3
    <3> QED BY <1>1, <2>1, <2>2, <2>3, <3>1, SeatsStay, LabelSets
  <2>4. CASE /\ R!Goto(g, "peek", "find") \/ R!Goto(g, "peek", "crashed")
             /\ at' = [at EXCEPT ![g] = @ + 1]
    <3>1. at' \in [Groups -> Nat] /\ \A h \in Groups \ {g} : at'[h] = at[h]
      BY <1>1, <2>4
    <3>2. CASE R!Goto(g, "peek", "find")
      BY <1>1, <2>1, <2>2, <3>1, <3>2, SeatsStay, LabelSets
    <3>3. CASE R!Goto(g, "peek", "crashed")
      BY <1>1, <2>1, <2>2, <3>1, <3>3, SeatsStay, LabelSets
    <3> QED BY <2>4, <3>2, <3>3
  <2> QED BY <2>1, <2>3, <2>4
<1>5. CASE R!Left(g, local[g])
  <2>1. /\ R!Goto(g, "left", "gone")
        /\ UNCHANGED <<table_available, table_state, line, state, my_turn_to_go, local, at>>
    BY <1>5 DEF R!Left, R!line, line
  <2>2. ~ Unplaced(g)'
    BY <1>1, <2>1, LabelSets DEF Unplaced, R!Goto
  <2> QED BY <1>1, <2>1, <2>2, SeatsStay, LabelSets
<1> QED BY <1>2, <1>3, <1>4, <1>5

(* on_enqueue and the first lines of request_for_table.                        *)
LEMMA RecordInv ==
  ASSUME NEW g \in Groups, SeatInv, R!Record(g)
  PROVE  SeatInv'
<1>1. /\ R!Goto(g, "enter", "enlist") /\ pc \in [Groups -> Labels]
      /\ pc' \in [Groups -> Labels] /\ Shape /\ Size[g] \in 0..T-1
  BY GroupSizeAssumption, LabelSets DEF R!Record, R!Goto, SeatInv, Shape
<1>2. UNCHANGED <<table_available, table_state, queue, queue_grp_state, new_group_index,
                  my_turn_to_go, local, at>>
  BY DEF R!Record, R!line
<1>3. /\ state' \in [Groups -> R!GroupStates]
      /\ state'[g].state_of_group = "WAIT" /\ Type(g)' = Size[g]
      /\ state'[g].table_assigned = state[g].table_assigned
      /\ \A h \in Groups \ {g} : state'[h] = state[h]
  <2> DEFINE new == [state[g] EXCEPT !.state_of_group = "WAIT",
                                     !.queue_ticket = new_group_index,
                                     !.size_of_group = Size[g]]
  <2>1. state' = [state EXCEPT ![g] = new]
    BY DEF R!Record
  <2>2. state[g] \in R!GroupStates /\ new_group_index \in Nat /\ Size[g] \in Nat
    BY <1>1 DEF Shape
  <2>3. /\ new \in R!GroupStates
        /\ new.state_of_group = "WAIT" /\ new.size_of_group = Size[g]
        /\ new.table_assigned = state[g].table_assigned
    BY <2>2 DEF R!GroupStates
  <2> HIDE DEF new
  <2> QED BY <1>1, <2>1, <2>3 DEF Shape, Type
<1>4. /\ pc[g] = "enter" /\ pc'[g] = "enlist"
      /\ \A h \in Groups \ {g} : pc'[h] = pc[h] /\ Type(h)' = Type(h)
  BY <1>1, <1>3 DEF R!Goto, Type
<1>5. TypesKept
  BY <1>4, LabelSets DEF TypesKept
<1>6. Shape'
  BY <1>1, <1>2, <1>3 DEF Shape
<1>7. TablesConserved'
  BY <1>1, <1>2, <1>5, TablesStay, LabelSets DEF SeatInv
<1>8. SlotInv'
  <2>1. \A h \in Groups : /\ state'[h].table_assigned = state[h].table_assigned
                          /\ state'[h].state_of_group = "EAT" => state[h].state_of_group = "EAT"
    BY <1>3
  <2> QED BY <1>1, <1>2, <1>5, <2>1, SlotsStay, LabelSets DEF SeatInv
<1>9. SizeInv'
  <2> SUFFICES ASSUME NEW h \in Groups
               PROVE  /\ pc'[h] \notin {"idle", "enter"} => Type(h)' \in Size[h]..T-1
                      /\ Unplaced(h)' => Type(h)' = Size[h]
                      /\ pc'[h] \in Knows => local'[h] = Type(h)'
    BY DEF SizeInv, Knows
  <2>1. CASE h = g
    BY <1>1, <1>3, <1>4, <2>1, LabelSets
  <2>2. CASE h # g
    <3>1. Called(h) => Called(h)'
      BY <1>2, <1>4 DEF Called
    <3> QED BY <1>2, <1>4, <2>2, <3>1 DEF SeatInv, SizeInv, Unplaced, Knows
  <2> QED BY <2>1, <2>2
<1>10. R!LineInv'
  BY <1>1, <1>2, LineStays, LabelSets DEF SeatInv
<1> QED BY <1>6, <1>7, <1>8, <1>9, <1>10 DEF SeatInv

(* A step that touches no table, no slot and no group_state, by a thread that  *)
(* has no type yet but its size.                                               *)
LEMMA JoinKeeps ==
  ASSUME NEW g \in Groups, NEW from, NEW to, SeatInv, R!Goto(g, from, to),
         UNCHANGED <<table_available, table_state, state, my_turn_to_go, local>>,
         \A h \in Groups \ {g} : at'[h] = at[h],
         queue' = queue \/ \A h \in Groups : pc[h] # "post",
         from \in R!Joining, to \in R!Joining \cup {"look"}
  PROVE  /\ pc' \in [Groups -> Labels] /\ TablesConserved' /\ SlotInv' /\ SizeInv'
<1>1. pc \in [Groups -> Labels] /\ pc' \in [Groups -> Labels]
  BY LabelSets DEF SeatInv, Shape, R!Goto
<1>2. TypesKept /\ \A h \in Groups : Type(h)' = Type(h)
  BY DEF TypesKept, Type
<1>3. TablesConserved'
  BY <1>1, <1>2, TablesStay, LabelSets DEF SeatInv
<1>4. SlotInv'
  BY <1>1, <1>2, SlotsStay, LabelSets DEF SeatInv
<1>5. SizeInv'
  <2>1. Unplaced(g)
    BY DEF Unplaced, R!Goto
  <2> QED BY <1>1, <1>2, <2>1, SizesStay, LabelSets DEF SeatInv
<1> QED BY <1>1, <1>3, <1>4, <1>5

(* The groups that have counted themselves, fewer than there are while one is  *)
(* about to.                                                                   *)
LEMMA CountedFinite ==
  /\ IsFiniteSet(R!Counted) /\ Cardinality(R!Counted) \in Nat /\ Cardinality(Groups) \in Nat
  /\ R!Cardinality(R!Counted) = Cardinality(R!Counted)
  /\ \A g \in Groups : pc[g] \in R!Joining => Cardinality(R!Counted) < Cardinality(Groups)
<1>1. R!Counted \subseteq Groups /\ \A g \in Groups : pc[g] \in R!Joining => g \notin R!Counted
  BY DEF R!Counted, R!Uncounted
<1>2. R!Cardinality(R!Counted) = Cardinality(R!Counted)
  BY SameConstants
<1> HIDE DEF R!Counted
<1> QED BY <1>1, <1>2, FS_Subset, FS_CardinalityType, GroupsAssumption

(* The index that is read counts no more than the counted groups.              *)
LEMMA ReadIndexInv ==
  ASSUME NEW g \in Groups, SeatInv,
         \/ R!ReadIndex(g, "enlist", "put") \/ R!ReadIndex(g, "reread", "show")
         \/ R!ReadIndex(g, "count", "add")
  PROVE  SeatInv'
<1>1. /\ \/ R!Goto(g, "enlist", "put") \/ R!Goto(g, "reread", "show")
         \/ R!Goto(g, "count", "add")
      /\ UNCHANGED <<table_available, table_state, state, my_turn_to_go, local>>
      /\ UNCHANGED <<queue, queue_grp_state, new_group_index>>
      /\ at' = [at EXCEPT ![g] = new_group_index]
      /\ Shape
  BY DEF R!ReadIndex, R!sems, R!line, SeatInv
<1>2. at' \in [Groups -> Nat] /\ \A h \in Groups \ {g} : at'[h] = at[h]
  BY <1>1 DEF Shape
<1>3. pc' \in [Groups -> Labels] /\ TablesConserved' /\ SlotInv' /\ SizeInv'
  BY <1>1, <1>2, JoinKeeps, LabelSets
<1>4. Shape'
  BY <1>1, <1>2, <1>3 DEF Shape
<1>5. R!LineInv'
  <2>1. R!Counted' = R!Counted
    BY <1>1, LabelSets DEF R!Counted, R!Goto, Shape
  <2>2. ASSUME NEW h \in Groups
        PROVE  /\ pc'[h] \in {"put", "show", "add"} => at'[h] <= R!Cardinality(R!Counted)
               /\ pc'[h] \in {"peek", "call"} => at'[h] \in DOMAIN queue
               /\ pc'[h] = "call" => queue[at'[h]] \in Groups
    <3> HIDE DEF R!Counted
    <3> QED BY <1>1 DEF SeatInv, R!LineInv, Shape, R!Goto
  <2> QED BY <1>1, <2>1, <2>2 DEF SeatInv, R!LineInv
<1> QED BY <1>3, <1>4, <1>5 DEF SeatInv

(* No other group is being called when one joins, and the entry it takes up is *)
(* within the queue.                                                           *)
LEMMA EnlistInv ==
  ASSUME NEW g \in Groups, SeatInv, OneMoves, R!Enlist(g) \/ R!Show(g)
  PROVE  SeatInv'
<1>1. /\ R!Goto(g, "put", "reread") \/ R!Goto(g, "show", "count")
      /\ UNCHANGED <<table_available, table_state, state, my_turn_to_go, local>>
      /\ UNCHANGED <<new_group_index, at>>
      /\ queue' = queue \/ queue' = [queue EXCEPT ![at[g]] = g]
      /\ queue_grp_state' \subseteq queue_grp_state \cup {at[g]}
      /\ Shape
  BY DEF R!Enlist, R!Show, R!sems, SeatInv
<1>2. at[g] \in DOMAIN queue
  <2>1. /\ pc[g] \in R!Joining /\ at[g] \in Nat /\ at[g] <= R!Cardinality(R!Counted)
        /\ DOMAIN queue = 0..Cardinality(Groups)-1
    BY <1>1, LabelSets DEF SeatInv, R!LineInv, Shape, R!Goto
  <2> HIDE DEF R!Counted
  <2> QED BY <2>1, CountedFinite
<1>3. /\ queue' \in [0..Cardinality(Groups)-1 -> Groups \cup {NoGroup}]
      /\ DOMAIN queue' = DOMAIN queue
      /\ \A i \in DOMAIN queue : queue[i] \in Groups => queue'[i] \in Groups
  BY <1>1, <1>2 DEF Shape
<1>4. \A h \in Groups : pc[h] # "post"
  BY <1>1 DEF OneMoves, Follows, R!Settled, R!Waiting, R!Goto
<1>5. pc' \in [Groups -> Labels] /\ TablesConserved' /\ SlotInv' /\ SizeInv'
  BY <1>1, <1>4, JoinKeeps, LabelSets
<1>6. Shape'
  <2>1. queue_grp_state' \subseteq DOMAIN queue'
    BY <1>1, <1>2, <1>3 DEF Shape
  <2> QED BY <1>1, <1>3, <1>5, <2>1 DEF Shape
<1>7. R!LineInv'
  <2>1. R!Counted' = R!Counted
    BY <1>1, LabelSets DEF R!Counted, R!Goto, Shape
  <2>2. ASSUME NEW h \in Groups
        PROVE  /\ pc'[h] \in {"put", "show", "add"} => at'[h] <= R!Cardinality(R!Counted)
               /\ pc'[h] \in {"peek", "call"} => at'[h] \in DOMAIN queue
               /\ pc'[h] = "call" => queue'[at'[h]] \in Groups
    <3>1. pc'[h] \in {"put", "show", "add", "peek", "call"} => pc'[h] = pc[h]
      BY <1>1 DEF R!Goto, Shape
    <3> HIDE DEF R!Counted
    <3> QED BY <1>1, <1>3, <3>1 DEF SeatInv, R!LineInv
  <2> QED BY <1>1, <1>3, <2>1, <2>2 DEF SeatInv, R!LineInv
<1> QED BY <1>5, <1>6, <1>7 DEF SeatInv

(* The index is at most one above what the counted groups were.                *)
LEMMA CountInv ==
  ASSUME NEW g \in Groups, SeatInv, R!Count(g)
  PROVE  SeatInv'
<1>1. /\ R!Goto(g, "add", "look")
      /\ UNCHANGED <<table_available, table_state, state, my_turn_to_go, local>>
      /\ UNCHANGED <<queue, queue_grp_state, at>>
      /\ new_group_index' = at[g] + 1
      /\ Shape
  BY DEF R!Count, R!sems, SeatInv
<1>2. pc' \in [Groups -> Labels] /\ TablesConserved' /\ SlotInv' /\ SizeInv'
  BY <1>1, JoinKeeps, LabelSets
<1>3. Shape'
  <2>1. at[g] \in Nat
    BY <1>1 DEF Shape
  <2> QED BY <1>1, <1>2, <2>1 DEF Shape
<1>4. R!LineInv'
  <2>1. R!Counted' = R!Counted \cup {g} /\ g \notin R!Counted
    BY <1>1, LabelSets DEF R!Counted, R!Goto, Shape
  <2>2. Cardinality(R!Counted') = Cardinality(R!Counted) + 1 /\ Cardinality(R!Counted) \in Nat
    <3> HIDE DEF R!Counted
    <3> QED BY <2>1, CountedFinite, FS_AddElement
  <2>3. at[g] \in Nat /\ at[g] <= Cardinality(R!Counted)
    BY <1>1, SameConstants DEF SeatInv, R!LineInv, Shape, R!Goto
  <2>4. ASSUME NEW h \in Groups
        PROVE  /\ pc'[h] \in {"put", "show", "add"} =>
                    at'[h] <= Cardinality(R!Counted) /\ at'[h] \in Nat
               /\ pc'[h] \in {"peek", "call"} => at'[h] \in DOMAIN queue'
               /\ pc'[h] = "call" => queue'[at'[h]] \in Groups
    BY <1>1, SameConstants DEF SeatInv, R!LineInv, Shape, R!Goto
  <2>5. R!Cardinality(R!Counted)' = Cardinality(R!Counted')
    BY SameConstants
  <2> HIDE DEF R!Counted
  <2> QED BY <1>1, <2>2, <2>3, <2>4, <2>5 DEF R!LineInv
<1> QED BY <1>2, <1>3, <1>4 DEF SeatInv

(* A step that gives a group its type, when that group has no table yet.       *)
LEMMA TypeGiven ==
  ASSUME NEW g \in Groups, NEW h \in Groups, NEW n \in R!Types, NEW from, NEW to,
         SeatInv, R!Goto(g, from, to), to \in Labels,
         UNCHANGED <<table_available, table_state, line, local, at>>,
         state' = [state EXCEPT ![h].size_of_group = n], n >= Size[h],
         my_turn_to_go' \in [Groups -> Nat], ~ Unplaced(h)',
         \A k \in Groups \ {h} : my_turn_to_go'[k] = my_turn_to_go[k],
         pc'[h] \in {"unlock", "turn"}, pc[h] \in {"open", "turn"},
         from # "mark", from \in HaveTable <=> to \in HaveTable,
         from \in R!AtSlot <=> to \in R!AtSlot, to \in Knows => from \in Knows,
         from \notin {"idle", "enter", "post"}, from \in R!Uncounted <=> to \in R!Uncounted,
         to \notin {"put", "show", "add", "peek", "call"}, Unplaced(g)' => g = h
  PROVE  SeatInv'
<1>1. /\ pc \in [Groups -> Labels] /\ pc' \in [Groups -> Labels] /\ Shape
      /\ UNCHANGED <<queue, queue_grp_state, new_group_index>>
      /\ pc[g] = from /\ pc'[g] = to /\ \A k \in Groups \ {g} : pc'[k] = pc[k]
  BY DEF SeatInv, Shape, R!Goto, line
<1>2. /\ state' \in [Groups -> R!GroupStates] /\ Type(h)' = n
      /\ state'[h].state_of_group = state[h].state_of_group
      /\ state'[h].table_assigned = state[h].table_assigned
      /\ \A k \in Groups \ {h} : state'[k] = state[k]
  <2> DEFINE new == [state[h] EXCEPT !.size_of_group = n]
  <2>1. state' = [state EXCEPT ![h] = new]
    OBVIOUS
  <2>2. state[h] \in R!GroupStates /\ n \in Nat
    BY <1>1, SameConstants DEF Shape
  <2>3. /\ new \in R!GroupStates /\ new.size_of_group = n
        /\ new.state_of_group = state[h].state_of_group
        /\ new.table_assigned = state[h].table_assigned
    BY <2>2 DEF R!GroupStates
  <2> HIDE DEF new
  <2> QED BY <1>1, <2>1, <2>3, ZenonT(60) DEF Shape, Type
<1>3. TypesKept
  BY <1>1, <1>2, LabelSets DEF TypesKept, Type
<1>4. Shape'
  BY <1>1, <1>2 DEF Shape
<1>5. TablesConserved'
  BY <1>1, <1>3, TablesStay DEF SeatInv
<1>6. SlotInv'
  <2>1. \A k \in Groups : /\ state'[k].table_assigned = state[k].table_assigned
                          /\ state'[k].state_of_group = state[k].state_of_group
    BY <1>2
  <2> QED BY <1>1, <1>3, <2>1, SlotsStay DEF SeatInv
<1>7. SizeInv'
  <2> SUFFICES ASSUME NEW k \in Groups
               PROVE  /\ pc'[k] \notin {"idle", "enter"} => Type(k)' \in Size[k]..T-1
                      /\ Unplaced(k)' => Type(k)' = Size[k]
                      /\ pc'[k] \in Knows => local'[k] = Type(k)'
    BY DEF SizeInv, Knows
  <2>1. CASE k = h
    <3>1. n \in Size[k]..T-1
      BY <2>1, SameConstants
    <3>2. pc'[k] \notin Knows
      BY <2>1, LabelSets
    <3> QED BY <1>2, <2>1, <3>1, <3>2
  <2>2. CASE k # h
    <3>1. Type(k)' = Type(k) /\ local'[k] = local[k] /\ my_turn_to_go'[k] = my_turn_to_go[k]
      BY <1>2, <2>2 DEF Type
    <3>2. Called(k) => Called(k)'
      BY <1>1 DEF Called
    <3>3. /\ pc'[k] \notin {"idle", "enter"} => pc[k] \notin {"idle", "enter"}
          /\ pc'[k] \in Knows => pc[k] \in Knows
          /\ Unplaced(k)' => Unplaced(k)
      BY <1>1, <2>2, <3>1, <3>2 DEF Unplaced
    <3> QED BY <3>1, <3>3 DEF SeatInv, SizeInv, Knows
  <2> QED BY <2>1, <2>2
<1>8. R!LineInv'
  BY <1>1, LineStays DEF SeatInv
<1> QED BY <1>4, <1>5, <1>6, <1>7, <1>8 DEF SeatInv

(* The type with a table left is that of the group from now on.                *)
LEMMA OpenInv ==
  ASSUME NEW g \in Groups, SeatInv, TurnsInv, OpenTurn(g)
  PROVE  SeatInv'
<1>1. /\ R!Goto(g, "open", "unlock")
      /\ state' = [state EXCEPT ![g].size_of_group = at[g]]
      /\ my_turn_to_go' = [my_turn_to_go EXCEPT ![g] = 1]
      /\ UNCHANGED <<table_available, table_state, line, local, at>>
      /\ my_turn_to_go \in [Groups -> Nat] /\ pc \in [Groups -> Labels]
  BY DEF OpenTurn, sems, SeatInv, Shape
<1>2. at[g] \in Size[g]..T-1 /\ at[g] \in R!Types
  BY <1>1, SameConstants DEF TurnsInv, R!Goto
<1>3. PICK n \in R!Types : n = at[g]
  BY <1>2
<1>4. /\ my_turn_to_go' \in [Groups -> Nat] /\ ~ Unplaced(g)'
      /\ \A h \in Groups \ {g} : my_turn_to_go'[h] = my_turn_to_go[h]
      /\ pc[g] = "open" /\ pc'[g] = "unlock" /\ n >= Size[g]
  BY <1>1, <1>2, <1>3, SameConstants, LabelSets DEF R!Goto, Unplaced
<1> QED BY <1>1, <1>3, <1>4, TypeGiven, LabelSets

(* The group that is called has no table yet, and gets one that fits it.       *)
LEMMA ResizeInv ==
  ASSUME NEW g \in Groups, SeatInv, FirstInv, Resize(g)
  PROVE  SeatInv'
<1>1. /\ R!Goto(g, "call", "post") /\ Shape
      /\ state' = [state EXCEPT ![queue[at[g]]].size_of_group = local[g]]
      /\ UNCHANGED <<table_available, table_state, line, local, at>>
      /\ my_turn_to_go' = my_turn_to_go
      /\ my_turn_to_go \in [Groups -> Nat] /\ pc \in [Groups -> Labels]
  BY DEF Resize, sems, SeatInv, Shape
<1>2. PICK h \in Groups : h = queue[at[g]]
  BY <1>1 DEF SeatInv, R!LineInv, R!Goto
<1>3. pc[h] = "turn" /\ my_turn_to_go[h] = 0 /\ Size[h] <= Type(g)
  BY <1>1, <1>2 DEF FirstInv, R!Waiting, R!Goto
<1>4. local[g] = Type(g) /\ Type(g) \in R!Types
  BY <1>1, LabelSets, SameConstants DEF SeatInv, SizeInv, R!Goto
<1>5. PICK n \in R!Types : n = local[g]
  BY <1>4
<1>6. pc'[h] = "turn" /\ n >= Size[h] /\ pc'[g] = "post" /\ queue' = queue
  BY <1>1, <1>2, <1>3, <1>4, <1>5, SameConstants DEF R!Goto, line
<1>7. ~ Unplaced(h)' /\ ~ Unplaced(g)'
  <2>1. Called(h)'
    BY <1>1, <1>2, <1>6 DEF Called
  <2> QED BY <1>6, <2>1, LabelSets DEF Unplaced
<1> QED BY <1>1, <1>2, <1>3, <1>5, <1>6, <1>7, TypeGiven, LabelSets

(* It has its type when it is given its turn.                                  *)
LEMMA CallInv ==
  ASSUME NEW g \in Groups, SeatInv, FirstInv, Call(g)
  PROVE  SeatInv'
<1>1. /\ R!Goto(g, "post", "freeUp") /\ Shape
      /\ my_turn_to_go' = [my_turn_to_go EXCEPT ![queue[at[g]]] = @ + 1]
      /\ UNCHANGED <<table_available, table_state, queue, queue_grp_state, new_group_index>>
      /\ UNCHANGED <<state, local, at>>
      /\ my_turn_to_go \in [Groups -> Nat] /\ pc \in [Groups -> Labels]
  BY DEF Call, sem_post, sems, line, SeatInv, Shape
<1>2. PICK h \in Groups : h = queue[at[g]]
  BY <1>1 DEF FirstInv, R!Goto
<1>3. /\ my_turn_to_go' \in [Groups -> Nat] /\ my_turn_to_go'[h] > 0
      /\ \A k \in Groups \ {h} : my_turn_to_go'[k] = my_turn_to_go[k]
      /\ pc[h] = "turn" /\ pc'[h] = "turn"
      /\ pc[g] = "post" /\ pc'[g] = "freeUp" /\ \A k \in Groups \ {g} : pc'[k] = pc[k]
  BY <1>1, <1>2 DEF FirstInv, R!Waiting, R!Goto
<1>4. TypesKept /\ \A k \in Groups : Type(k)' = Type(k)
  BY <1>1 DEF TypesKept, Type
<1>5. Shape'
  <2>1. pc' \in [Groups -> Labels]
    BY <1>1, LabelSets DEF R!Goto
  <2> QED BY <1>1, <1>3, <2>1 DEF Shape
<1>6. TablesConserved'
  BY <1>1, <1>4, TablesStay, LabelSets DEF SeatInv
<1>7. SlotInv'
  BY <1>1, <1>4, SlotsStay, LabelSets DEF SeatInv
<1>8. SizeInv'
  <2> SUFFICES ASSUME NEW k \in Groups
               PROVE  /\ pc'[k] \notin {"idle", "enter"} => Type(k)' \in Size[k]..T-1
                      /\ Unplaced(k)' => Type(k)' = Size[k]
                      /\ pc'[k] \in Knows => local'[k] = Type(k)'
    BY DEF SizeInv, Knows
  <2>1. Unplaced(k)' => Unplaced(k)
    <3>1. k \in {g, h} => ~ Unplaced(k)'
      BY <1>3, LabelSets DEF Unplaced
    <3>2. k # h /\ Called(k) => Called(k)'
      BY <1>1, <1>2, <1>3 DEF Called
    <3> QED BY <1>3, <3>1, <3>2 DEF Unplaced
  <2>2. pc'[k] \notin {"idle", "enter"} => pc[k] \notin {"idle", "enter"}
    BY <1>3
  <2>3. pc'[k] \in Knows => pc[k] \in Knows
    BY <1>3, LabelSets
  <2> QED BY <1>1, <1>4, <2>1, <2>2, <2>3 DEF SeatInv, SizeInv, Knows
<1>9. R!LineInv'
  BY <1>1, LineStays, LabelSets DEF SeatInv
<1> QED BY <1>5, <1>6, <1>7, <1>8, <1>9 DEF SeatInv

(* Taking a table off table_available, and giving it back to its type.         *)
LEMMA TableInv ==
  ASSUME NEW g \in Groups, SeatInv, TakeTable(g) \/ R!FreeUp(g, local[g])
  PROVE  SeatInv'
<1>1. /\ pc \in [Groups -> Labels] /\ table_available \in [R!Types -> Nat]
      /\ local \in [Groups -> Nat]
      /\ pc[g] \notin {"idle", "enter"} => Type(g) \in R!Types
      /\ pc[g] \in Knows => local[g] = Type(g)
  BY SameConstants, SMTT(30) DEF SeatInv, Shape, SizeInv, Knows
<1>2. pc[g] \in {"take", "freeUp"}
  BY DEF TakeTable, R!FreeUp, R!Goto
<1>3. PICK n \in R!Types : n = Type(g) /\ n = local[g]
  BY <1>1, <1>2, LabelSets
<1>4. /\ UNCHANGED <<table_state, queue, queue_grp_state, new_group_index, state,
                     my_turn_to_go, at>>
      /\ local' = local
      /\ \/ /\ R!Goto(g, "take", "serve") /\ table_available[n] > 0
            /\ table_available' = [table_available EXCEPT ![n] = @ - 1]
         \/ /\ R!Goto(g, "freeUp", "left")
            /\ table_available' = [table_available EXCEPT ![n] = @ + 1]
  BY <1>1, <1>3 DEF TakeTable, R!FreeUp, sem_wait, R!sem_post, line, R!line, R!Goto
<1>5. TypesKept /\ \A h \in Groups : Type(h)' = Type(h)
  BY <1>4 DEF TypesKept, Type
<1>6. Shape'
  <2>1. table_available' \in [R!Types -> Nat]
    BY <1>1, <1>4
  <2>2. pc' \in [Groups -> Labels]
    BY <1>1, <1>4, LabelSets DEF R!Goto
  <2> QED BY <1>4, <2>1, <2>2 DEF SeatInv, Shape
<1>7. TablesConserved'
  BY <1>1, <1>3, <1>4, <1>5, TableMoves, LabelSets DEF SeatInv
<1>8. SlotInv'
  BY <1>1, <1>4, <1>5, SlotsStay, LabelSets DEF SeatInv
<1>9. SizeInv'
  <2>1. ~ Unplaced(g)' /\ local'[g] = Type(g)
    BY <1>1, <1>3, <1>4, LabelSets DEF Unplaced, R!Goto
  <2> QED BY <1>1, <1>4, <1>5, <2>1, SizesStay, LabelSets DEF SeatInv, R!Goto
<1>10. R!LineInv'
  BY <1>1, <1>4, LineStays, LabelSets DEF SeatInv
<1> QED BY <1>6, <1>7, <1>8, <1>9, <1>10 DEF SeatInv

(* GROUP_STATE_LEAVE and GROUP_GONE.                                           *)
LEMMA MarkInv ==
  ASSUME NEW g \in Groups, SeatInv, R!Mark(g)
  PROVE  SeatInv'
<1>1. /\ R!Goto(g, "mark", "find") /\ pc \in [Groups -> Labels] /\ Shape
      /\ UNCHANGED <<table_available, table_state, queue, new_group_index, my_turn_to_go, local>>
      /\ queue_grp_state' \subseteq queue_grp_state
      /\ at' = [at EXCEPT ![g] = 0]
  BY DEF R!Mark, R!sems, SeatInv, Shape
<1>2. /\ state' \in [Groups -> R!GroupStates] /\ state'[g].state_of_group = "LEAVE"
      /\ Type(g)' = Type(g)
      /\ state'[g].table_assigned = state[g].table_assigned
      /\ \A h \in Groups \ {g} : state'[h] = state[h]
  <2> DEFINE new == [state[g] EXCEPT !.state_of_group = "LEAVE"]
  <2>1. state' = [state EXCEPT ![g] = new]
    BY DEF R!Mark
  <2>2. state[g] \in R!GroupStates
    BY <1>1 DEF Shape
  <2>3. /\ new \in R!GroupStates /\ new.state_of_group = "LEAVE"
        /\ new.size_of_group = state[g].size_of_group
        /\ new.table_assigned = state[g].table_assigned
    BY <2>2 DEF R!GroupStates
  <2> HIDE DEF new
  <2> QED BY <1>1, <2>1, <2>3 DEF Shape, Type
<1>3. /\ \A h \in Groups : /\ Type(h)' = Type(h)
                           /\ state'[h].table_assigned = state[h].table_assigned
      /\ \A h \in Groups : state'[h].state_of_group = "EAT" =>
                             h # g /\ state[h].state_of_group = "EAT"
  BY <1>2 DEF Type
<1>4. TypesKept
  BY <1>3 DEF TypesKept
<1>5. Shape'
  <2>1. pc' \in [Groups -> Labels] /\ at' \in [Groups -> Nat]
    BY <1>1, LabelSets DEF R!Goto, Shape
  <2> QED BY <1>1, <1>2, <2>1 DEF Shape
<1>6. TablesConserved'
  BY <1>1, <1>4, TablesStay, LabelSets DEF SeatInv
<1>7. SlotInv'
  BY <1>1, <1>3, <1>4, SlotsStay, LabelSets DEF SeatInv
<1>8. SizeInv'
  <2>1. ~ Unplaced(g)' /\ local'[g] = Type(g)
    BY <1>1, LabelSets DEF Unplaced, R!Goto, SeatInv, SizeInv
  <2> QED BY <1>1, <1>3, <2>1, SizesStay, LabelSets DEF SeatInv
<1>9. R!LineInv'
  BY <1>1, LineStays, LabelSets DEF SeatInv, Shape
<1> QED BY <1>5, <1>6, <1>7, <1>8, <1>9 DEF SeatInv

(* Where a table is assigned, fewer slots are occupied than there are tables   *)
(* of the type, so that the loop stops at one of them.                         *)
LEMMA SlotFree ==
  ASSUME NEW g \in Groups, NEW n \in R!Types, n = Type(g), SeatInv, pc[g] = "assign"
  PROVE  LET unoccupied == (0..R!table_num(n)-1) \ table_state[n]
         IN unoccupied # {} /\ R!Min(unoccupied) \in (0..num_tables[n]-1) \ table_state[n]
<1> DEFINE unoccupied == (0..R!table_num(n)-1) \ table_state[n]
<1>1. /\ num_tables[n] \in Nat /\ R!Before(n) \in Nat
      /\ R!table_num(n) = R!Before(n) + num_tables[n]
  BY TablesBefore
<1>2. Cardinality(At(n, R!AtSlot)) < Cardinality(At(n, HaveTable))
  <2>1. At(n, R!AtSlot) \subseteq At(n, HaveTable)
    BY LabelSets DEF At
  <2>2. g \in At(n, HaveTable) /\ g \notin At(n, R!AtSlot)
    BY LabelSets DEF At
  <2>3. IsFiniteSet(At(n, HaveTable)) /\ Cardinality(At(n, HaveTable)) \in Nat
        /\ Cardinality(At(n, R!AtSlot)) \in Nat
    BY AtFinite
  <2> QED BY <2>1, <2>2, <2>3, FS_Subset
<1>3. Cardinality(At(n, HaveTable)) <= num_tables[n]
  <2>1. /\ table_available[n] \in Nat
        /\ table_available[n] + Cardinality(At(n, HaveTable)) = num_tables[n]
    BY DEF SeatInv, Shape, TablesConserved
  <2> QED BY <1>1, <2>1, AtFinite
<1>4. Cardinality(table_state[n]) < num_tables[n]
  BY <1>1, <1>2, <1>3, AtFinite DEF SeatInv, SlotInv
<1>5. PICK i \in 0..num_tables[n]-1 : i \notin table_state[n]
  <2> SUFFICES ASSUME 0..num_tables[n]-1 \subseteq table_state[n]
               PROVE  FALSE
    OBVIOUS
  <2>1. table_state[n] = 0..num_tables[n]-1
    BY DEF SeatInv, SlotInv
  <2>2. Cardinality(0..num_tables[n]-1) = num_tables[n]
    BY <1>1, SlotCount
  <2> QED BY <1>1, <1>4, <2>1, <2>2
<1>6. i \in unoccupied /\ unoccupied \in SUBSET Nat
  BY <1>1, <1>5
<1> HIDE DEF unoccupied
<1>7. unoccupied # {} /\ R!Min(unoccupied) \in unoccupied /\ R!Min(unoccupied) <= i
  BY <1>6, MinOfNaturals
<1>8. R!Min(unoccupied) \in (0..num_tables[n]-1) \ table_state[n]
  BY <1>1, <1>5, <1>7 DEF unoccupied
<1> QED BY <1>7, <1>8 DEF unoccupied

(* The group takes a slot of its type that nobody has.                         *)
LEMMA Assigned ==
  ASSUME NEW g \in Groups, NEW n \in R!Types, n = Type(g), SeatInv, R!assign_table(g, n)
  PROVE  \E i \in 0..num_tables[n]-1 :
           /\ i \notin table_state[n] /\ i \in Nat
           /\ R!Goto(g, "assign", "served")
           /\ UNCHANGED <<table_available, queue, queue_grp_state, new_group_index>>
           /\ UNCHANGED <<my_turn_to_go, local, at>>
           /\ table_state' = [table_state EXCEPT ![n] = @ \cup {i}]
           /\ state' \in [Groups -> R!GroupStates]
           /\ state'[g].table_assigned = R!Before(n) + i
           /\ state'[g].state_of_group = "EAT"
           /\ state'[g].queue_ticket = state[g].queue_ticket
           /\ Type(g)' = n
           /\ \A h \in Groups \ {g} : state'[h] = state[h]
<1> DEFINE i == R!Min((0..R!table_num(n)-1) \ table_state[n])
<1>1. R!Goto(g, "assign", "served") /\ pc[g] = "assign" /\ Shape
  BY DEF R!assign_table, R!Goto, SeatInv
<1>2. /\ (0..R!table_num(n)-1) \ table_state[n] # {}
      /\ i \in 0..num_tables[n]-1 /\ i \notin table_state[n]
  BY <1>1, SlotFree
<1>3. /\ num_tables[n] \in Nat /\ R!Before(n) \in Nat /\ i \in Nat
      /\ R!table_id(n, i) = R!Before(n) + i
  BY <1>1, <1>2, TablesBefore DEF R!table_id
<1>4. /\ UNCHANGED <<table_available, queue, queue_grp_state, new_group_index>>
      /\ UNCHANGED <<my_turn_to_go, local, at>>
      /\ table_state' = [table_state EXCEPT ![n] = @ \cup {i}]
      /\ state' = [state EXCEPT ![g].state_of_group = "EAT",
                                ![g].table_assigned = R!table_id(n, i)]
  BY <1>2 DEF R!assign_table, R!sems, R!line
<1> HIDE DEF i
<1>5. /\ state' \in [Groups -> R!GroupStates]
      /\ state'[g].table_assigned = R!Before(n) + i
      /\ state'[g].state_of_group = "EAT"
      /\ state'[g].queue_ticket = state[g].queue_ticket
      /\ state'[g].size_of_group = state[g].size_of_group
      /\ \A h \in Groups \ {g} : state'[h] = state[h]
  <2> DEFINE new == [state[g] EXCEPT !.state_of_group = "EAT",
                                     !.table_assigned = R!table_id(n, i)]
  <2>1. state' = [state EXCEPT ![g] = new]
    BY <1>4
  <2>2. state[g] \in R!GroupStates /\ R!table_id(n, i) \in Int
    BY <1>1, <1>3 DEF Shape
  <2>3. /\ new \in R!GroupStates /\ new.table_assigned = R!table_id(n, i)
        /\ new.state_of_group = "EAT" /\ new.queue_ticket = state[g].queue_ticket
        /\ new.size_of_group = state[g].size_of_group
    BY <2>2 DEF R!GroupStates
  <2> HIDE DEF new
  <2> QED BY <1>1, <1>3, <2>1, <2>3 DEF Shape
<1> QED BY <1>1, <1>2, <1>3, <1>4, <1>5 DEF Type

LEMMA AssignInv ==
  ASSUME NEW g \in Groups, SeatInv, R!assign_table(g, Type(g))
  PROVE  SeatInv'
<1>1. PICK n \in R!Types : n = Type(g)
  BY SameConstants DEF SeatInv, SizeInv, R!assign_table, R!Goto
<1>2. PICK i \in 0..num_tables[n]-1 :
           /\ i \notin table_state[n] /\ i \in Nat
           /\ R!Goto(g, "assign", "served")
           /\ UNCHANGED <<table_available, queue, queue_grp_state, new_group_index>>
           /\ UNCHANGED <<my_turn_to_go, local, at>>
           /\ table_state' = [table_state EXCEPT ![n] = @ \cup {i}]
           /\ state' \in [Groups -> R!GroupStates]
           /\ state'[g].table_assigned = R!Before(n) + i
           /\ Type(g)' = n
           /\ \A h \in Groups \ {g} : state'[h] = state[h]
  BY <1>1, Assigned
<1>3. pc \in [Groups -> Labels] /\ Shape /\ num_tables[n] \in Nat /\ R!Before(n) \in Nat
  BY TablesBefore DEF SeatInv, Shape
<1>4. TypesKept /\ \A h \in Groups : Type(h)' = Type(h)
  BY <1>1, <1>2 DEF TypesKept, Type
<1>5. Shape'
  <2>1. pc' \in [Groups -> Labels]
    BY <1>2, <1>3, LabelSets DEF R!Goto
  <2>2. table_state' \in [R!Types -> SUBSET Nat]
    BY <1>2, <1>3 DEF Shape
  <2> QED BY <1>2, <1>3, <2>1, <2>2 DEF Shape
<1>6. TablesConserved'
  BY <1>2, <1>3, <1>4, TablesStay, LabelSets DEF SeatInv
<1>7. SlotInv'
  <2>0. "assign" \notin R!AtSlot /\ "served" \in R!AtSlot /\ R!AtSlot \in SUBSET HaveTable
    BY LabelSets
  <2>1. /\ At(n, R!AtSlot)' = At(n, R!AtSlot) \cup {g} /\ g \notin At(n, R!AtSlot)
        /\ \A m \in R!Types \ {n} : At(m, R!AtSlot)' = At(m, R!AtSlot)
    BY <1>1, <1>2, <1>3, <1>4, <2>0, MoveAt
  <2>2. \A m \in R!Types : At(m, R!AtSlot) \subseteq {h \in Groups : Type(h) = m}
    BY DEF At
  <2>3. table_state'[n] = table_state[n] \cup {i} /\ table_state[n] \in SUBSET Nat
    BY <1>2, <1>3 DEF Shape
  <2>4. Cardinality(table_state'[n]) = Cardinality(At(n, R!AtSlot)')
    <3>1. Cardinality(At(n, R!AtSlot)') = Cardinality(At(n, R!AtSlot)) + 1
      BY <1>1, <1>2, <1>3, <1>4, <2>0, MoveCard
    <3>2. IsFiniteSet(table_state[n])
      <4>1. table_state[n] \subseteq 0..num_tables[n]-1
        BY DEF SeatInv, SlotInv
      <4>2. IsFiniteSet(0..num_tables[n]-1)
        BY <1>3, SlotCount
      <4> QED BY <4>1, <4>2, FS_Subset
    <3>3. Cardinality(table_state[n] \cup {i}) = Cardinality(table_state[n]) + 1
      BY <1>2, <3>2, FS_AddElement
    <3> QED BY <2>3, <3>1, <3>3 DEF SeatInv, SlotInv
  <2>5. ASSUME NEW m \in R!Types
        PROVE  /\ table_state'[m] \subseteq 0..num_tables[m]-1
               /\ Cardinality(table_state'[m]) = Cardinality(At(m, R!AtSlot)')
               /\ \A h \in At(m, R!AtSlot)' :
                    /\ state'[h].table_assigned - R!Before(m) \in table_state'[m]
                    /\ \A k \in At(m, R!AtSlot)' \ {h} :
                         state'[k].table_assigned # state'[h].table_assigned
    <3>1. /\ table_state[m] \subseteq 0..num_tables[m]-1
          /\ Cardinality(table_state[m]) = Cardinality(At(m, R!AtSlot))
          /\ \A h \in At(m, R!AtSlot) :
               /\ state[h].table_assigned - R!Before(m) \in table_state[m]
               /\ \A k \in At(m, R!AtSlot) \ {h} :
                    state[k].table_assigned # state[h].table_assigned
      BY DEF SeatInv, SlotInv
    <3>2. CASE m # n
      <4>1. table_state'[m] = table_state[m]
        BY <1>2, <1>3, <3>2 DEF Shape
      <4>2. \A h \in At(m, R!AtSlot) : state'[h] = state[h]
        BY <1>1, <1>2, <2>2, <3>2
      <4> QED BY <2>1, <3>1, <3>2, <4>1, <4>2
    <3>3. CASE m = n
      <4>1. \A h \in At(n, R!AtSlot) :
              state'[h] = state[h] /\ state[h].table_assigned \in Int
        BY <1>2, <1>3, <2>1, <2>2 DEF Shape, R!GroupStates
      <4>2. table_state'[n] \subseteq 0..num_tables[n]-1
        BY <1>2, <2>3, <3>1, <3>3
      <4>3. \A h \in At(n, R!AtSlot) : state[h].table_assigned # R!Before(n) + i
        BY <1>2, <1>3, <3>1, <3>3, <4>1
      <4>4. state'[g].table_assigned - R!Before(n) = i
        BY <1>2, <1>3
      <4>5. ASSUME NEW h \in At(n, R!AtSlot)'
            PROVE  /\ state'[h].table_assigned - R!Before(n) \in table_state'[n]
                   /\ \A k \in At(n, R!AtSlot)' \ {h} :
                        state'[k].table_assigned # state'[h].table_assigned
        <5>1. CASE h = g
          BY <1>2, <2>1, <2>3, <4>1, <4>3, <4>4, <5>1
        <5>2. CASE h \in At(n, R!AtSlot)
          BY <1>2, <2>1, <2>3, <3>1, <3>3, <4>1, <4>3, <5>2
        <5> QED BY <2>1, <5>1, <5>2
      <4> QED BY <2>4, <3>3, <4>2, <4>5
    <3> QED BY <3>2, <3>3
  <2>6. ASSUME NEW h \in Groups, state'[h].state_of_group = "EAT"
        PROVE  pc'[h] \in R!AtSlot \cup {"mark"}
    BY <1>2, <1>3, <2>0, <2>6 DEF SeatInv, SlotInv, R!Goto
  <2> QED BY <2>5, <2>6 DEF SlotInv
<1>8. SizeInv'
  <2>1. ~ Unplaced(g)'
    BY <1>2, <1>3, LabelSets DEF Unplaced, R!Goto
  <2> QED BY <1>2, <1>3, <1>4, <2>1, SizesStay, LabelSets DEF SeatInv
<1>9. R!LineInv'
  BY <1>2, <1>3, LineStays, LabelSets DEF SeatInv
<1> QED BY <1>5, <1>6, <1>7, <1>8, <1>9 DEF SeatInv

(* The slot that free_table finds is that of the group's own table.            *)
LEMMA OwnSlot ==
  ASSUME NEW g \in Groups, NEW n \in R!Types, n = Type(g), SeatInv, pc[g] = "free"
  PROVE  LET used == {i \in 0..R!table_num(n)-1 :
                        R!table_id(n, i) = state[g].table_assigned}
         IN used # {} /\ R!Min(used) = state[g].table_assigned - R!Before(n)
<1> DEFINE used == {i \in 0..R!table_num(n)-1 : R!table_id(n, i) = state[g].table_assigned}
           own == state[g].table_assigned - R!Before(n)
<1>1. /\ num_tables[n] \in Nat /\ R!Before(n) \in Nat
      /\ R!table_num(n) = R!Before(n) + num_tables[n]
  BY TablesBefore
<1>2. g \in At(n, R!AtSlot)
  BY LabelSets DEF At
<1>3. own \in 0..num_tables[n]-1
  BY <1>1, <1>2 DEF SeatInv, SlotInv
<1>4. state[g].table_assigned \in Int
  BY DEF SeatInv, Shape, R!GroupStates
<1>5. state[g].table_assigned = R!Before(n) + own
  BY <1>1, <1>4
<1> HIDE DEF own
<1>6. own \in used
  BY <1>1, <1>3, <1>5 DEF R!table_id
<1>7. ASSUME NEW i \in used
      PROVE  i = own
  <2>1. i \in 0..R!table_num(n)-1 /\ R!table_id(n, i) = R!Before(n) + own
    BY <1>5, <1>7
  <2>2. CASE i < num_tables[n]
    BY <1>1, <1>3, <2>1, <2>2 DEF R!table_id
  <2>3. CASE ~ (i < num_tables[n])
    <3>1. R!table_id(n, i) = 0
      BY <2>3 DEF R!table_id
    <3>2. R!Before(n) = 0
      BY <1>1, <1>3, <2>1, <3>1
    <3>3. i < num_tables[n]
      BY <1>1, <2>1, <3>2
    <3> QED BY <2>3, <3>3
  <2> QED BY <2>2, <2>3
<1>8. used \in SUBSET Nat
  BY <1>1
<1> HIDE DEF used
<1>9. R!Min(used) \in used
  BY <1>6, <1>8, MinOfNaturals
<1> QED BY <1>6, <1>7, <1>9 DEF used, own

(* The slot goes with the group.                                               *)
LEMMA FreeInv ==
  ASSUME NEW g \in Groups, SeatInv, R!free_table(g)
  PROVE  SeatInv'
<1> DEFINE own(n) == state[g].table_assigned - R!Before(n)
<1>1. /\ R!Goto(g, "free", "mark") /\ pc \in [Groups -> Labels] /\ pc[g] = "free"
      /\ Shape /\ local[g] = Type(g) /\ Type(g) \in R!Types
  <2>1. R!Goto(g, "free", "mark") /\ pc \in [Groups -> Labels] /\ pc[g] = "free" /\ Shape
    BY DEF R!free_table, SeatInv, Shape, R!Goto
  <2>2. local[g] = Type(g) /\ Type(g) \in Size[g]..T-1
    BY <2>1, LabelSets DEF SeatInv, SizeInv
  <2> QED BY <2>1, <2>2, SameConstants
<1>0. PICK n \in R!Types : n = Type(g)
  BY <1>1
<1>2. /\ UNCHANGED <<table_available, queue, queue_grp_state, new_group_index, state,
                     my_turn_to_go, local, at>>
      /\ table_state' = [table_state EXCEPT ![n] = @ \ {own(n)}]
  BY <1>0, <1>1, OwnSlot DEF R!free_table, R!sems, R!line
<1>3. TypesKept /\ \A h \in Groups : Type(h)' = Type(h)
  BY <1>2 DEF TypesKept, Type
<1>4. Shape'
  <2>1. pc' \in [Groups -> Labels]
    BY <1>1, LabelSets DEF R!Goto
  <2>2. table_state' \in [R!Types -> SUBSET Nat]
    BY <1>1, <1>2 DEF Shape
  <2> QED BY <1>1, <1>2, <2>1, <2>2 DEF Shape
<1>7. TablesConserved'
  BY <1>1, <1>2, <1>3, TablesStay, LabelSets DEF SeatInv
<1>8. SlotInv'
  <2>0. "free" \in R!AtSlot /\ "mark" \notin R!AtSlot /\ R!AtSlot \in SUBSET HaveTable
    BY LabelSets
  <2>1. /\ At(n, R!AtSlot)' = At(n, R!AtSlot) \ {g} /\ g \in At(n, R!AtSlot)
        /\ \A m \in R!Types \ {n} : At(m, R!AtSlot)' = At(m, R!AtSlot)
    <3>1. pc \in [Groups -> Labels] /\ R!Goto(g, "free", "mark") /\ Type(g) = n
      BY <1>0, <1>1
    <3>2. At(n, R!AtSlot)' = At(n, R!AtSlot) \ {g} /\ g \in At(n, R!AtSlot)
      BY <1>3, <2>0, <3>1 DEF At, TypesKept, R!Goto
    <3>3. ASSUME NEW m \in R!Types \ {n}
          PROVE  At(m, R!AtSlot)' = At(m, R!AtSlot)
      BY <1>3, <2>0, <3>1, MoveAt
    <3> QED BY <3>2, <3>3
  <2>2. \A m \in R!Types : At(m, R!AtSlot) \subseteq Groups
    BY DEF At
  <2>3. table_state'[n] = table_state[n] \ {own(n)}
        /\ \A m \in R!Types \ {n} : table_state'[m] = table_state[m]
    BY <1>1, <1>2 DEF Shape
  <2>4. /\ table_state[n] \subseteq 0..num_tables[n]-1 /\ own(n) \in table_state[n]
        /\ Cardinality(table_state[n]) = Cardinality(At(n, R!AtSlot))
    BY <2>1 DEF SeatInv, SlotInv
  <2>5. Cardinality(table_state'[n]) = Cardinality(At(n, R!AtSlot)')
    <3>1. Cardinality(At(n, R!AtSlot)') = Cardinality(At(n, R!AtSlot)) - 1
      BY <1>0, <1>1, <1>3, <2>0, MoveCard
    <3>2. IsFiniteSet(table_state[n])
      BY <2>4, SlotCount, FS_Subset, TablesBefore
    <3> HIDE DEF own
    <3>3. Cardinality(table_state[n] \ {own(n)}) = Cardinality(table_state[n]) - 1
      BY <2>4, <3>2, FS_RemoveElement
    <3> QED BY <2>3, <2>4, <3>1, <3>3
  <2>6. ASSUME NEW m \in R!Types
        PROVE  /\ table_state'[m] \subseteq 0..num_tables[m]-1
               /\ Cardinality(table_state'[m]) = Cardinality(At(m, R!AtSlot)')
               /\ \A h \in At(m, R!AtSlot)' :
                    /\ state'[h].table_assigned - R!Before(m) \in table_state'[m]
                    /\ \A k \in At(m, R!AtSlot)' \ {h} :
                         state'[k].table_assigned # state'[h].table_assigned
    <3>1. /\ table_state[m] \subseteq 0..num_tables[m]-1
          /\ Cardinality(table_state[m]) = Cardinality(At(m, R!AtSlot))
          /\ \A h \in At(m, R!AtSlot) :
               /\ state[h].table_assigned - R!Before(m) \in table_state[m]
               /\ \A k \in At(m, R!AtSlot) \ {h} :
                    state[k].table_assigned # state[h].table_assigned
      BY DEF SeatInv, SlotInv
    <3>2. CASE m # n
      BY <1>2, <2>1, <2>3, <3>1, <3>2
    <3>3. CASE m = n
      <4>1. ASSUME NEW h \in At(n, R!AtSlot) \ {g}
            PROVE  state[h].table_assigned - R!Before(n) # own(n)
        <5>1. state[h].table_assigned # state[g].table_assigned
          BY <2>1, <3>1, <3>3
        <5>2. /\ state[h].table_assigned \in Int /\ state[g].table_assigned \in Int
              /\ R!Before(n) \in Nat
          BY <1>1, <2>2, TablesBefore DEF Shape, R!GroupStates
        <5> QED BY <5>1, <5>2
      <4> HIDE DEF own
      <4> QED BY <1>2, <2>1, <2>3, <2>5, <3>1, <3>3, <4>1
    <3> QED BY <3>2, <3>3
  <2>7. ASSUME NEW h \in Groups, state'[h].state_of_group = "EAT"
        PROVE  pc'[h] \in R!AtSlot \cup {"mark"}
    BY <1>1, <1>2, <2>7 DEF SeatInv, SlotInv, R!Goto
  <2> QED BY <2>6, <2>7 DEF SlotInv
<1>9. SizeInv'
  <2>1. ~ Unplaced(g)'
    BY <1>1, LabelSets DEF Unplaced, R!Goto
  <2> QED BY <1>1, <1>2, <1>3, <2>1, SizesStay, LabelSets DEF SeatInv
<1>10. R!LineInv'
  BY <1>1, <1>2, LineStays, LabelSets DEF SeatInv
<1> QED BY <1>4, <1>7, <1>8, <1>9, <1>10 DEF SeatInv

-----------------------------------------------------------------------------
(* One command at a time: whose step it is                                     *)

(* A step of g leaves the places of the other threads alone, and what their    *)
(* group_state says of them; but for a call, it leaves their turns and their   *)
(* types alone, too.                                                           *)
OwnPlace(g) ==
  \A h \in Groups \ {g} :
    /\ pc'[h] = pc[h] /\ at'[h] = at[h] /\ local'[h] = local[h]
    /\ state'[h].queue_ticket = state[h].queue_ticket
    /\ state'[h].state_of_group = state[h].state_of_group

OwnStep(g) ==
  /\ OwnPlace(g)
  /\ \A h \in Groups \ {g} :
       /\ pc'[h] = pc[h] /\ at'[h] = at[h] /\ local'[h] = local[h]
       /\ my_turn_to_go'[h] = my_turn_to_go[h] /\ Type(h)' = Type(h)

LEMMA OwnSteps ==
  ASSUME NEW g \in Groups, Shape,
         R!Enter(g) \/ R!Depart(g) \/ request_for_table(g) \/ leave_table(g),
         ~Resize(g), ~Call(g)
  PROVE  OwnStep(g)
<1>1. /\ pc \in [Groups -> Labels] /\ my_turn_to_go \in [Groups -> Nat]
      /\ state \in [Groups -> R!GroupStates] /\ local \in [Groups -> Nat]
      /\ at \in [Groups -> Nat]
  BY DEF Shape
<1> SUFFICES \A h \in Groups \ {g} :
               /\ pc'[h] = pc[h] /\ at'[h] = at[h] /\ local'[h] = local[h]
               /\ my_turn_to_go'[h] = my_turn_to_go[h] /\ state'[h] = state[h]
  BY DEF OwnStep, OwnPlace, Type
<1>2. CASE R!Enter(g) \/ R!Depart(g)
  BY <1>1, <1>2 DEF R!Enter, R!Depart, R!Command, R!Goto
<1>3. CASE request_for_table(g)
  <2>1. CASE R!Record(g) \/ R!enqueue(g) \/ R!Unlock(g) \/ AwaitTurn(g)
    BY <1>1, <2>1 DEF R!Record, R!enqueue, R!ReadIndex, R!Enlist, R!Show, R!Count, R!Unlock,
       AwaitTurn, R!Goto, sem_wait
  <2>2. CASE LookFirst(g) \/ Scan(g) \/ OpenTurn(g) \/ CloseTurn(g)
    BY <1>1, <2>2 DEF LookFirst, Scan, OpenTurn, CloseTurn, R!Goto
  <2>3. CASE \/ TakeTable(g) \/ R!Serve(g, local[g])
             \/ R!assign_table(g, Type(g)) \/ R!Served(g, Type(g))
    BY <1>1, <2>3 DEF TakeTable, R!Serve, R!assign_table, R!Served, R!Goto
  <2> QED BY <1>3, <2>1, <2>2, <2>3 DEF request_for_table
<1>4. CASE leave_table(g)
  BY <1>1, <1>4 DEF leave_table, R!Leave, R!free_table, R!Mark, R!Find, R!FindNext, Peek,
     R!Peek, R!FreeUp, R!Left, R!Goto
<1> QED BY <1>2, <1>3, <1>4

(* The labels at which a thread has the restaurant to itself.                  *)
Alone == Labels \ {"idle", "seated", "gone", "turn", "take", "serve", "assign", "served",
                   "freeUp", "left"}

LEMMA OthersSettled ==
  ASSUME NEW g \in Groups, NEW h \in Groups \ {g}, OneMoves, pc[g] \in Alone
  PROVE  R!Settled(h)
<1>1. ~R!Settled(g) /\ ~Follows(g, h) /\ ~Follows(h, g)
  BY DEF Alone, R!Settled, R!Waiting, Follows, R!Invited
<1> QED BY <1>1 DEF OneMoves

(* Whoever moves alone is the only one to move afterwards.                     *)
LEMMA AloneMoves ==
  ASSUME NEW g \in Groups, OneMoves, OwnStep(g),
         \/ pc[g] \in Alone
         \/ \A h \in Groups \ {g} : R!Settled(h)
         \/ pc'[g] \in {"seated", "gone"}
  PROVE  OneMoves'
<1>1. R!Settled(g)' \/ \A h \in Groups \ {g} : R!Settled(h)
  <2>1. CASE pc'[g] \in {"seated", "gone"}
    BY <2>1 DEF R!Settled
  <2> QED BY <2>1, OthersSettled
<1>2. \A h \in Groups \ {g} : R!Settled(h) => R!Settled(h)'
  BY DEF OwnStep, R!Settled, R!Waiting
<1>3. ASSUME NEW h \in Groups \ {g}, NEW k \in Groups \ {g}, Follows(h, k)
      PROVE  Follows(h, k)'
  <2>1. /\ Type(h)' = Type(h) /\ local'[k] = local[k] /\ pc'[k] = pc[k] /\ pc'[h] = pc[h]
        /\ my_turn_to_go'[h] = my_turn_to_go[h]
    BY DEF OwnStep
  <2> QED BY <1>3, <2>1 DEF Follows, R!Invited
<1> SUFFICES ASSUME NEW h \in Groups, NEW k \in Groups, h # k
             PROVE  R!Settled(h)' \/ R!Settled(k)' \/ Follows(h, k)' \/ Follows(k, h)'
  BY DEF OneMoves
<1>4. CASE h = g \/ k = g
  BY <1>1, <1>2, <1>4
<1>5. CASE h # g /\ k # g
  <2>1. R!Settled(h) \/ R!Settled(k) \/ Follows(h, k) \/ Follows(k, h)
    BY <1>5 DEF OneMoves
  <2> QED BY <1>2, <1>3, <1>5, <2>1
<1> QED BY <1>4, <1>5

-----------------------------------------------------------------------------
(* The turns and the tables                                                    *)

(* The labels that TurnsInv speaks of, and what it says of one group.          *)
Deciding == {"scan", "open", "close", "unlock", "turn", "take", "freeUp"}

TurnOf(g) ==
  /\ my_turn_to_go[g] \in {0, 1}
  /\ pc[g] \notin {"unlock", "turn"} => my_turn_to_go[g] = 0
  /\ pc[g] \in {"scan", "open"} => at[g] \in Size[g]..T-1 /\ NoneFrom(Size[g], at[g] - 1)
  /\ pc[g] = "open" => table_available[at[g]] > 0
  /\ pc[g] = "close" => NoneFrom(Size[g], T - 1)
  /\ pc[g] = "unlock" => IF my_turn_to_go[g] = 0 THEN NoneFrom(Size[g], T - 1)
                         ELSE table_available[Type(g)] > 0

HasTable(g) ==
  \/ table_available[Type(g)] > 0
  \/ \E h \in Groups : pc[h] = "freeUp" /\ local[h] = Type(g)

NoneLeft(g) ==
  \A n \in Size[g]..T-1 :
    \/ table_available[n] = 0
    \/ table_available[n] = 1 /\ \E h \in Groups : R!Invited(h) /\ Type(h) = n

ForOne(g) ==
  \/ /\ table_available[local[g]] = 0
     /\ \E h \in Groups : R!Invited(h) /\ Type(h) = local[g]
  \/ \A h \in Groups : /\ Size[h] <= local[g] => ~R!Waiting(h)
                       /\ Type(h) = local[g] => ~R!Invited(h)

LEMMA TurnParts ==
  TurnsInv <=> \A g \in Groups : /\ TurnOf(g) /\ (R!Invited(g) => HasTable(g))
                                 /\ (R!Waiting(g) => NoneLeft(g))
                                 /\ (pc[g] = "freeUp" => ForOne(g))
BY DEF TurnsInv, TurnOf, HasTable, NoneLeft, ForOne

(* A step that leaves the tables and the turns alone.                          *)
LEMMA TurnsStay ==
  ASSUME NEW g \in Groups, TurnsInv, OwnStep(g),
         table_available' = table_available, my_turn_to_go'[g] = my_turn_to_go[g],
         pc[g] \notin Deciding, pc'[g] \notin Deciding
  PROVE  TurnsInv'
<1>1. \A h \in Groups \ {g} :
        /\ pc'[h] = pc[h] /\ at'[h] = at[h] /\ local'[h] = local[h] /\ Type(h)' = Type(h)
        /\ my_turn_to_go'[h] = my_turn_to_go[h]
  BY DEF OwnStep
<1> HIDE DEF OwnStep
<1>2. /\ pc[g] \notin {"scan", "open", "close", "unlock", "turn", "take", "freeUp"}
      /\ pc'[g] \notin {"scan", "open", "close", "unlock", "turn", "take", "freeUp"}
  BY DEF Deciding
<1>3. \A h \in Groups : /\ R!Invited(h)' <=> R!Invited(h) /\ h # g
                        /\ R!Invited(h) => h # g
                        /\ R!Waiting(h)' <=> R!Waiting(h)
                        /\ R!Waiting(h) => h # g
                        /\ pc'[h] = "freeUp" <=> pc[h] = "freeUp"
                        /\ pc[h] = "freeUp" => h # g
  BY <1>1, <1>2 DEF R!Invited, R!Waiting
<1>4. ASSUME NEW h \in Groups
      PROVE  TurnOf(h)'
  <2>1. TurnOf(h)
    BY TurnParts
  <2>2. CASE h = g
    BY <1>2, <2>1, <2>2 DEF TurnOf
  <2>3. CASE h # g
    BY <1>1, <2>1, <2>3 DEF TurnOf, NoneFrom
  <2> QED BY <2>2, <2>3
<1>5. ASSUME NEW h \in Groups, R!Invited(h)'
      PROVE  HasTable(h)'
  <2>1. R!Invited(h) /\ h # g /\ HasTable(h)
    BY <1>3, <1>5, TurnParts
  <2> QED BY <1>1, <1>3, <2>1 DEF HasTable
<1>6. ASSUME NEW h \in Groups, R!Waiting(h)'
      PROVE  NoneLeft(h)'
  <2>1. R!Waiting(h) /\ NoneLeft(h)
    BY <1>3, <1>6, TurnParts
  <2>2. \A k \in Groups : R!Invited(k) => R!Invited(k)' /\ Type(k)' = Type(k)
    BY <1>1, <1>3
  <2> QED BY <2>1, <2>2 DEF NoneLeft
<1>7. ASSUME NEW h \in Groups, pc'[h] = "freeUp"
      PROVE  ForOne(h)'
  <2>1. pc[h] = "freeUp" /\ h # g /\ ForOne(h) /\ local'[h] = local[h]
    BY <1>1, <1>3, <1>7, TurnParts
  <2>2. CASE /\ table_available[local[h]] = 0
             /\ \E k \in Groups : R!Invited(k) /\ Type(k) = local[h]
    BY <1>1, <1>3, <2>1, <2>2 DEF ForOne
  <2>3. CASE \A k \in Groups : /\ Size[k] <= local[h] => ~R!Waiting(k)
                               /\ Type(k) = local[h] => ~R!Invited(k)
    BY <1>1, <1>3, <2>1, <2>3 DEF ForOne
  <2> QED BY <2>1, <2>2, <2>3 DEF ForOne
<1> QED BY <1>4, <1>5, <1>6, <1>7, TurnParts DEF TurnsInv, TurnOf, HasTable, NoneLeft, ForOne

(* While a thread moves alone, no group has its turn, so that those that wait  *)
(* have no table.                                                              *)
LEMMA NoneInvited ==
  ASSUME NEW g \in Groups, NEW h \in Groups, OneMoves, TurnsInv, pc[g] \in Alone
  PROVE  /\ ~R!Invited(h) /\ pc[h] # "freeUp"
         /\ R!Waiting(h) => h # g /\ NoneFrom(Size[h], T - 1)
         /\ h # g => pc[h] \in {"idle", "seated", "gone", "turn"}
<1>1. \A k \in Groups : ~R!Invited(k) /\ pc[k] # "freeUp"
                        /\ (k # g => pc[k] \in {"idle", "seated", "gone", "turn"})
  <2> SUFFICES ASSUME NEW k \in Groups
               PROVE  ~R!Invited(k) /\ pc[k] # "freeUp"
                      /\ (k # g => pc[k] \in {"idle", "seated", "gone", "turn"})
    OBVIOUS
  <2>1. CASE k = g
    BY <2>1 DEF Alone, R!Invited
  <2>2. CASE k # g
    BY <2>2, OthersSettled DEF R!Settled, R!Waiting, R!Invited
  <2> QED BY <2>1, <2>2
<1>2. R!Waiting(h) => h # g
  BY DEF R!Waiting, Alone
<1>3. R!Waiting(h) => NoneLeft(h)
  BY TurnParts
<1> QED BY <1>1, <1>2, <1>3 DEF NoneLeft, NoneFrom

(* A step of such a thread that leaves the tables alone.                       *)
LEMMA AloneTurns ==
  ASSUME NEW g \in Groups, OneMoves, TurnsInv, OwnStep(g), pc[g] \in Alone,
         table_available' = table_available, TurnOf(g)',
         R!Invited(g)' => table_available[Type(g)'] > 0,
         R!Waiting(g)' => NoneFrom(Size[g], T - 1),
         pc'[g] = "freeUp" => \A h \in Groups : Size[h] <= local'[g] => ~R!Waiting(h)
  PROVE  TurnsInv'
<1>1. \A h \in Groups : /\ ~R!Invited(h) /\ pc[h] # "freeUp"
                        /\ R!Waiting(h) => h # g /\ NoneFrom(Size[h], T - 1)
  BY NoneInvited
<1>2. \A h \in Groups \ {g} :
        /\ pc'[h] = pc[h] /\ at'[h] = at[h] /\ local'[h] = local[h] /\ Type(h)' = Type(h)
        /\ my_turn_to_go'[h] = my_turn_to_go[h]
  BY DEF OwnStep
<1>3. ASSUME NEW h \in Groups
      PROVE  TurnOf(h)'
  <2>1. CASE h = g
    BY <2>1
  <2>2. CASE h # g
    <3>1. TurnOf(h)
      BY TurnParts
    <3> QED BY <1>2, <2>2, <3>1 DEF TurnOf, NoneFrom
  <2> QED BY <2>1, <2>2
<1>4. \A h \in Groups \ {g} : ~R!Invited(h)' /\ (R!Waiting(h)' => R!Waiting(h))
  BY <1>1, <1>2 DEF R!Invited, R!Waiting
<1>5. ASSUME NEW h \in Groups, R!Invited(h)'
      PROVE  HasTable(h)'
  <2>1. h = g
    BY <1>4, <1>5
  <2>2. table_available'[Type(g)'] > 0
    BY <1>5, <2>1
  <2> QED BY <2>1, <2>2 DEF HasTable
<1>6. ASSUME NEW h \in Groups, R!Waiting(h)'
      PROVE  NoneLeft(h)'
  <2>1. NoneFrom(Size[h], T - 1)
    BY <1>1, <1>4, <1>6
  <2> QED BY <2>1 DEF NoneLeft, NoneFrom
<1>7. ASSUME NEW h \in Groups, pc'[h] = "freeUp"
      PROVE  ForOne(h)'
  <2>1. h = g
    BY <1>1, <1>2, <1>7
  <2>2. ~R!Invited(g)' /\ ~R!Waiting(g)'
    BY <1>7, <2>1 DEF R!Invited, R!Waiting
  <2>3. \A k \in Groups : ~R!Invited(k)' /\ (Size[k] <= local'[g] => ~R!Waiting(k)')
    BY <1>4, <1>7, <2>1, <2>2
  <2> QED BY <2>1, <2>3 DEF ForOne
<1> QED BY <1>3, <1>5, <1>6, <1>7 DEF TurnsInv, TurnOf, HasTable, NoneLeft, ForOne

(* sem_wait(&state->my_turn_to_go): the group keeps its turn.                  *)
LEMMA AwaitTurnTurns ==
  ASSUME NEW g \in Groups, SeatInv, OneMoves, TurnsInv, AwaitTurn(g)
  PROVE  TurnsInv' /\ OneMoves'
<1>1. /\ pc \in [Groups -> Labels] /\ my_turn_to_go \in [Groups -> Nat]
      /\ pc[g] = "turn" /\ pc' = [pc EXCEPT ![g] = "take"]
      /\ my_turn_to_go[g] > 0
      /\ my_turn_to_go' = [my_turn_to_go EXCEPT ![g] = my_turn_to_go[g] - 1]
      /\ table_available' = table_available /\ at' = at
      /\ \A h \in Groups : Type(h)' = Type(h) /\ (h # g => local'[h] = local[h])
  BY DEF AwaitTurn, R!Goto, sem_wait, sems, SeatInv, Shape, Type
<1>2. my_turn_to_go[g] = 1 /\ my_turn_to_go'[g] = 0 /\ pc'[g] = "take"
      /\ \A h \in Groups \ {g} : pc'[h] = pc[h] /\ my_turn_to_go'[h] = my_turn_to_go[h]
  BY <1>1 DEF TurnsInv
<1>3. ASSUME NEW h \in Groups
      PROVE  /\ pc'[h] \notin {"turn", "take"} \/ pc[h] \notin {"turn", "take"}
                  => pc'[h] = pc[h]
             /\ R!Invited(h)' <=> R!Invited(h)
             /\ R!Waiting(h)' <=> R!Waiting(h)
             /\ pc[h] \in {"freeUp", "left"} => local'[h] = local[h]
  BY <1>1, <1>2 DEF R!Invited, R!Waiting
<1>4. TurnsInv'
  <2>1. ASSUME NEW h \in Groups
        PROVE  TurnOf(h)'
    <3>1. TurnOf(h)
      BY TurnParts
    <3>2. CASE h = g
      BY <1>2, <3>2 DEF TurnOf
    <3>3. CASE h # g
      BY <1>1, <1>2, <3>1, <3>3 DEF TurnOf, NoneFrom
    <3> QED BY <3>2, <3>3
  <2>2. ASSUME NEW h \in Groups, R!Invited(h)'
        PROVE  HasTable(h)'
    <3>1. R!Invited(h) /\ HasTable(h)
      BY <1>3, <2>2, TurnParts
    <3> QED BY <1>1, <1>3, <3>1 DEF HasTable
  <2>3. ASSUME NEW h \in Groups, R!Waiting(h)'
        PROVE  NoneLeft(h)'
    <3>1. NoneLeft(h)
      BY <1>3, <2>3, TurnParts
    <3> QED BY <1>1, <1>3, <3>1 DEF NoneLeft
  <2>4. ASSUME NEW h \in Groups, pc'[h] = "freeUp"
        PROVE  ForOne(h)'
    <3>1. pc[h] = "freeUp" /\ ForOne(h)
      BY <1>3, <2>4, TurnParts
    <3> QED BY <1>1, <1>3, <3>1 DEF ForOne
  <2> QED BY <2>1, <2>2, <2>3, <2>4 DEF TurnsInv, TurnOf, HasTable, NoneLeft, ForOne
<1>5. OneMoves'
  <2> SUFFICES ASSUME NEW h \in Groups, NEW k \in Groups, h # k
               PROVE  R!Settled(h)' \/ R!Settled(k)' \/ Follows(h, k)' \/ Follows(k, h)'
    BY DEF OneMoves
  <2>1. R!Settled(h) \/ R!Settled(k) \/ Follows(h, k) \/ Follows(k, h)
    BY DEF OneMoves
  <2>2. \A f \in Groups : R!Settled(f) => R!Settled(f)'
    BY <1>3 DEF R!Settled
  <2>3. \A e, f \in Groups : Follows(e, f) => Follows(e, f)'
    BY <1>1, <1>3 DEF Follows
  <2> QED BY <2>1, <2>2, <2>3
<1> QED BY <1>4, <1>5

(* The group that is being seated goes on, next to the leaver that called it.  *)
LEMMA ServingMoves ==
  ASSUME NEW g \in Groups, OneMoves, OwnStep(g), local' = local, Type(g)' = Type(g),
         \/ /\ pc[g] \in {"take", "serve", "assign"} /\ pc'[g] \in {"serve", "assign", "served"}
            /\ \A h \in Groups : pc[h] # "freeUp"
         \/ pc[g] = "freeUp" /\ pc'[g] = "left"
  PROVE  OneMoves'
<1> SUFFICES ASSUME NEW h \in Groups, NEW k \in Groups, h # k
             PROVE  R!Settled(h)' \/ R!Settled(k)' \/ Follows(h, k)' \/ Follows(k, h)'
  BY DEF OneMoves
<1>1. R!Settled(h) \/ R!Settled(k) \/ Follows(h, k) \/ Follows(k, h)
  BY DEF OneMoves
<1>2. /\ R!Settled(h) => R!Settled(h)'
      /\ R!Settled(k) => R!Settled(k)'
  BY DEF OwnStep, R!Settled, R!Waiting
<1>3. /\ \A f \in Groups : Type(f)' = Type(f)
      /\ \A f \in Groups \ {g} : pc'[f] = pc[f] /\ my_turn_to_go'[f] = my_turn_to_go[f]
  BY DEF OwnStep
<1>4. /\ Follows(h, k) => Follows(h, k)'
      /\ Follows(k, h) => Follows(k, h)'
  BY <1>3 DEF Follows, R!Invited
<1> QED BY <1>1, <1>2, <1>4

(* sem_wait(&table_available[...]): the group takes the one table that is left *)
(* for it, which the leaver that called it has given back by then.             *)
LEMMA TakeTableTurns ==
  ASSUME NEW g \in Groups, SeatInv, OneMoves, TurnsInv, OwnStep(g), TakeTable(g)
  PROVE  TurnsInv' /\ OneMoves'
<1>1. pc[g] = "take" /\ pc \in [Groups -> Labels] /\ table_available \in [R!Types -> Nat]
      /\ pc'[g] = "serve" /\ local \in [Groups -> Nat]
  BY DEF TakeTable, R!Goto, SeatInv, Shape
<1>2. PICK n \in R!Types : n = Type(g) /\ n = local[g]
  BY <1>1, SameConstants, SMTT(30) DEF SeatInv, SizeInv
<1>3. /\ my_turn_to_go' = my_turn_to_go /\ local' = local /\ Type(g)' = Type(g)
      /\ table_available[n] > 0 /\ table_available[n] \in Nat
      /\ table_available'[n] = table_available[n] - 1
      /\ \A m \in R!Types \ {n} : table_available'[m] = table_available[m]
  BY <1>1, <1>2 DEF TakeTable, sem_wait, Type
<1>4. \A h \in Groups \ {g} :
        /\ pc'[h] = pc[h] /\ at'[h] = at[h] /\ local'[h] = local[h] /\ Type(h)' = Type(h)
  BY DEF OwnStep
<1>5. ASSUME NEW h \in Groups \ {g}
      PROVE  ~R!Invited(h) /\ pc[h] \in {"idle", "seated", "gone", "turn", "left"}
  <2>1. R!Invited(g) /\ ~R!Settled(g)
    BY <1>1 DEF R!Invited, R!Settled, R!Waiting
  <2>2. R!Settled(h) \/ Follows(g, h)
    BY <1>1, <2>1 DEF OneMoves, Follows
  <2>3. pc[h] # "freeUp"
    <3> SUFFICES ASSUME pc[h] = "freeUp"
                 PROVE  FALSE
      OBVIOUS
    <3>1. ForOne(h) /\ local[h] = n
      BY <1>2, <2>2, TurnParts DEF Follows, R!Settled, R!Waiting
    <3>2. table_available[local[h]] # 0 /\ Type(g) = local[h]
      BY <1>2, <1>3, <3>1
    <3> QED BY <2>1, <3>1, <3>2 DEF ForOne
  <2> QED BY <2>2, <2>3 DEF R!Settled, R!Waiting, R!Invited, Follows
<1>6. TurnsInv'
  <2>1. ASSUME NEW h \in Groups
        PROVE  TurnOf(h)'
    <3>1. TurnOf(h) /\ pc'[h] \notin {"scan", "open", "close", "unlock"}
      BY <1>1, <1>4, <1>5, TurnParts
    <3> QED BY <1>1, <1>3, <1>4, <3>1 DEF TurnOf
  <2>2. ASSUME NEW h \in Groups
        PROVE  ~R!Invited(h)' /\ pc'[h] # "freeUp"
    BY <1>1, <1>3, <1>4, <1>5 DEF R!Invited
  <2>3. ASSUME NEW h \in Groups, R!Waiting(h)'
        PROVE  NoneLeft(h)'
    <3>1. h # g /\ R!Waiting(h) /\ NoneLeft(h)
      BY <1>1, <1>3, <1>4, <2>3, TurnParts DEF R!Waiting
    <3>2. ASSUME NEW m \in Size[h]..T-1
          PROVE  table_available'[m] = 0
      <4>1. m \in R!Types
        BY SameConstants
      <4>2. \/ table_available[m] = 0
            \/ table_available[m] = 1 /\ \E k \in Groups : R!Invited(k) /\ Type(k) = m
        BY <3>1 DEF NoneLeft
      <4>3. CASE m = n
        BY <1>3, <4>2, <4>3
      <4>4. CASE m # n
        BY <1>2, <1>3, <1>5, <4>1, <4>2, <4>4
      <4> QED BY <4>3, <4>4
    <3> QED BY <3>2 DEF NoneLeft
  <2> QED BY <2>1, <2>2, <2>3 DEF TurnsInv, TurnOf, NoneLeft
<1>7. OneMoves'
  <2>1. \A h \in Groups : pc[h] # "freeUp"
    BY <1>1, <1>5
  <2> QED BY <1>1, <1>3, <2>1, ServingMoves
<1> QED BY <1>6, <1>7

(* The leaver gives the table back: there is one for the group it has called.  *)
LEMMA FreeUpTurns ==
  ASSUME NEW g \in Groups, SeatInv, OneMoves, TurnsInv, OwnStep(g), R!FreeUp(g, local[g])
  PROVE  TurnsInv' /\ OneMoves'
<1>1. pc[g] = "freeUp" /\ pc \in [Groups -> Labels] /\ table_available \in [R!Types -> Nat]
      /\ pc'[g] = "left"
  BY DEF R!FreeUp, R!Goto, SeatInv, Shape
<1>2. PICK n \in R!Types : n = local[g] /\ n = Type(g)
  BY <1>1, SameConstants, LabelSets DEF SeatInv, SizeInv
<1>3. /\ my_turn_to_go' = my_turn_to_go /\ local' = local /\ Type(g)' = Type(g)
      /\ table_available[n] \in Nat
      /\ table_available'[n] = table_available[n] + 1
      /\ \A m \in R!Types \ {n} : table_available'[m] = table_available[m]
  BY <1>1, <1>2 DEF R!FreeUp, R!sem_post, Type
<1>4. \A h \in Groups \ {g} :
        /\ pc'[h] = pc[h] /\ at'[h] = at[h] /\ local'[h] = local[h] /\ Type(h)' = Type(h)
  BY DEF OwnStep
<1>5. ASSUME NEW h \in Groups \ {g}
      PROVE  /\ pc[h] \in {"idle", "seated", "gone", "turn", "take"}
             /\ R!Invited(h) => Type(h) = n
  <2>1. R!Settled(h) \/ Follows(h, g)
    BY <1>1 DEF OneMoves, Follows, R!Settled, R!Waiting, R!Invited
  <2> QED BY <1>1, <1>2, <2>1 DEF R!Settled, R!Waiting, R!Invited, Follows
<1>6. TurnsInv'
  <2>1. ASSUME NEW h \in Groups
        PROVE  TurnOf(h)'
    <3>1. TurnOf(h) /\ pc'[h] \notin {"scan", "open", "close", "unlock"}
      BY <1>1, <1>4, <1>5, TurnParts
    <3>2. pc'[h] \notin {"unlock", "turn"} => pc[h] \notin {"unlock", "turn"}
      BY <1>1, <1>4
    <3> QED BY <1>3, <3>1, <3>2 DEF TurnOf
  <2>2. ASSUME NEW h \in Groups, R!Invited(h)'
        PROVE  HasTable(h)'
    <3>1. h # g /\ R!Invited(h) /\ Type(h)' = n
      BY <1>1, <1>3, <1>4, <1>5, <2>2 DEF R!Invited
    <3>2. table_available'[n] > 0
      BY <1>3
    <3> QED BY <3>1, <3>2 DEF HasTable
  <2>3. ASSUME NEW h \in Groups, R!Waiting(h)'
        PROVE  NoneLeft(h)'
    <3>1. h # g /\ R!Waiting(h) /\ NoneLeft(h)
      BY <1>1, <1>3, <1>4, <2>3, TurnParts DEF R!Waiting
    <3> SUFFICES ASSUME NEW m \in Size[h]..T-1
                 PROVE  \/ table_available'[m] = 0
                        \/ /\ table_available'[m] = 1
                           /\ \E k \in Groups : R!Invited(k)' /\ Type(k)' = m
      BY DEF NoneLeft
    <3>2. m \in R!Types /\ Size[h] <= m
      BY SameConstants
    <3>3. CASE m = n
      <4>1. ForOne(g)
        BY <1>1, TurnParts
      <4>2. PICK k \in Groups : R!Invited(k) /\ Type(k) = n /\ table_available[n] = 0
        BY <1>2, <3>1, <3>2, <3>3, <4>1 DEF ForOne
      <4>3. k # g /\ R!Invited(k)' /\ Type(k)' = n
        BY <1>1, <1>3, <1>4, <4>2 DEF R!Invited
      <4> QED BY <1>3, <3>3, <4>2, <4>3
    <3>4. CASE m # n
      <4>1. \A k \in Groups : R!Invited(k) => Type(k) # m
        BY <1>1, <1>5, <3>4 DEF R!Invited
      <4>2. table_available[m] = 0
        BY <3>1, <4>1 DEF NoneLeft
      <4> QED BY <1>3, <3>2, <3>4, <4>2
    <3> QED BY <3>3, <3>4
  <2>4. ASSUME NEW h \in Groups
        PROVE  pc'[h] # "freeUp"
    BY <1>1, <1>4, <1>5
  <2> QED BY <2>1, <2>2, <2>3, <2>4 DEF TurnsInv, TurnOf, HasTable, NoneLeft
<1>7. OneMoves'
  BY <1>1, <1>3, ServingMoves
<1> QED BY <1>6, <1>7

-----------------------------------------------------------------------------
(* The queue                                                                   *)

(* What OrderInv says of one group, and of one ticket.                         *)
Placed(g) ==
  LET i == state[g].queue_ticket
  IN /\ pc[g] # "crashed"
     /\ pc[g] \in R!Joining => i = new_group_index
     /\ pc[g] \in {"put", "show", "add"} => at[g] = i
     /\ pc[g] \in InQueue => i \in DOMAIN queue /\ queue[i] = g
     /\ pc[g] \in InQueue \ R!Joining => i < new_group_index
     /\ pc[g] \in NotGone => i \in queue_grp_state
     /\ state[g].state_of_group = "WAIT" <=> pc[g] \in R!Joining \/ Requesting(g)
     /\ pc[g] \in R!AtSlot \cup {"mark"} => state[g].state_of_group = "EAT"

TicketOf(i) ==
  queue[i] \in Groups /\ pc[queue[i]] \in NotGone /\ state[queue[i]].queue_ticket = i

LEMMA OrderParts ==
  OrderInv <=> (\A g \in Groups : Placed(g)) /\ (\A i \in queue_grp_state : TicketOf(i))
  BY DEF OrderInv, R!Up, Placed, TicketOf

(* A step that leaves the queue alone, within the part of the call that is in  *)
(* the queue, or out of it.                                                    *)
LEMMA OrderStays ==
  ASSUME NEW g \in Groups, SeatInv, OrderInv, OwnPlace(g),
         UNCHANGED <<queue, queue_grp_state, new_group_index>>,
         state'[g].queue_ticket = state[g].queue_ticket,
         state'[g].state_of_group = state[g].state_of_group,
         pc'[g] \notin R!Joining, pc[g] \notin R!Joining, pc'[g] # "crashed",
         pc'[g] \in InQueue <=> pc[g] \in InQueue,
         pc'[g] \in NotGone <=> pc[g] \in NotGone,
         Requesting(g)' <=> Requesting(g),
         pc'[g] \in R!AtSlot \cup {"mark"} => pc[g] \in R!AtSlot \cup {"mark"}
  PROVE  OrderInv'
<1>1. ASSUME NEW h \in Groups
      PROVE  Placed(h)'
  <2>1. Placed(h) /\ Placed(g)
    BY OrderParts
  <2>2. CASE h = g
    BY <2>1, <2>2 DEF Placed, R!Joining
  <2>3. CASE h # g
    BY <2>1, <2>3 DEF Placed, OwnPlace, Requesting
  <2> QED BY <2>2, <2>3
<1>2. ASSUME NEW i \in queue_grp_state
      PROVE  TicketOf(i)'
  <2>1. TicketOf(i) /\ queue[i] \in Groups
    BY OrderParts DEF TicketOf
  <2> QED BY <2>1 DEF TicketOf, OwnPlace
<1> QED BY <1>1, <1>2 DEF OrderInv, R!Up, Placed, TicketOf

LEMMA RecordOrder ==
  ASSUME NEW g \in Groups, SeatInv, OrderInv, OwnPlace(g), R!Record(g)
  PROVE  OrderInv'
<1>1. /\ pc[g] = "enter" /\ pc'[g] = "enlist"
      /\ UNCHANGED <<queue, queue_grp_state, new_group_index, at>>
      /\ state'[g].queue_ticket = new_group_index /\ state'[g].state_of_group = "WAIT"
  <2>1. pc \in [Groups -> Labels] /\ state \in [Groups -> R!GroupStates]
    BY DEF SeatInv, Shape
  <2> QED BY <2>1 DEF R!Record, R!Goto, R!line, R!GroupStates
<1>2. ASSUME NEW h \in Groups
      PROVE  Placed(h)'
  <2>1. Placed(h)
    BY OrderParts
  <2>2. CASE h = g
    BY <1>1, <2>2, LabelSets DEF Placed, InQueue, NotGone, Requesting
  <2>3. CASE h # g
    BY <1>1, <2>1, <2>3 DEF Placed, OwnPlace, Requesting
  <2> QED BY <2>2, <2>3
<1>3. ASSUME NEW i \in queue_grp_state
      PROVE  TicketOf(i)'
  <2>1. TicketOf(i) /\ queue[i] \in Groups
    BY OrderParts DEF TicketOf
  <2>2. queue[i] # g
    BY <1>1, <2>1 DEF TicketOf, NotGone, InQueue
  <2> QED BY <1>1, <2>1, <2>2 DEF TicketOf, OwnPlace
<1> QED BY <1>1, <1>2, <1>3 DEF OrderInv, R!Up, Placed, TicketOf

(* The others have tickets below that of a group that joins.                   *)
LEMMA OthersBefore ==
  ASSUME NEW g \in Groups, NEW h \in Groups \ {g}, SeatInv, OneMoves, OrderInv,
         pc[g] \in R!Joining
  PROVE  /\ pc[h] \notin R!Joining
         /\ pc[h] \in InQueue => state[h].queue_ticket < state[g].queue_ticket
<1>1. pc[h] \notin R!Joining
  BY OthersSettled, LabelSets DEF R!Settled, R!Waiting, Alone
<1> QED BY <1>1, OrderParts DEF Placed

(* A group that joins reads the index, and finds its ticket.                   *)
LEMMA ReadIndexOrder ==
  ASSUME NEW g \in Groups, SeatInv, OrderInv, OwnPlace(g),
         \/ R!ReadIndex(g, "enlist", "put") \/ R!ReadIndex(g, "reread", "show")
         \/ R!ReadIndex(g, "count", "add")
  PROVE  OrderInv'
<1>1. /\ \/ pc[g] = "enlist" /\ pc'[g] = "put"
         \/ pc[g] = "reread" /\ pc'[g] = "show"
         \/ pc[g] = "count" /\ pc'[g] = "add"
      /\ UNCHANGED <<queue, queue_grp_state, new_group_index, state>>
      /\ at'[g] = new_group_index
  <2>1. pc \in [Groups -> Labels] /\ at \in [Groups -> Nat]
    BY DEF SeatInv, Shape
  <2> QED BY <2>1 DEF R!ReadIndex, R!Goto, R!line
<1>2. /\ pc[g] \in InQueue <=> pc'[g] \in InQueue
      /\ pc[g] \in NotGone <=> pc'[g] \in NotGone
  BY <1>1, LabelSets DEF InQueue, NotGone
<1>3. ASSUME NEW h \in Groups
      PROVE  Placed(h)'
  <2>1. Placed(h)
    BY OrderParts
  <2>2. CASE h = g
    BY <1>1, <1>2, <2>1, <2>2, LabelSets DEF Placed, Requesting
  <2>3. CASE h # g
    BY <1>1, <2>1, <2>3 DEF Placed, OwnPlace, Requesting
  <2> QED BY <2>2, <2>3
<1>4. ASSUME NEW i \in queue_grp_state
      PROVE  TicketOf(i)'
  <2>1. TicketOf(i) /\ queue[i] \in Groups
    BY OrderParts DEF TicketOf
  <2> QED BY <1>1, <1>2, <2>1 DEF TicketOf, OwnPlace
<1> QED BY <1>1, <1>3, <1>4 DEF OrderInv, R!Up, Placed, TicketOf

(* The group is put at its ticket, which nobody has.                           *)
LEMMA EnlistOrder ==
  ASSUME NEW g \in Groups, SeatInv, OneMoves, OrderInv, OwnPlace(g), R!Enlist(g)
  PROVE  OrderInv'
<1> DEFINE k == state[g].queue_ticket
<1>1. /\ pc[g] = "put" /\ pc'[g] = "reread" /\ state' = state /\ at' = at
      /\ UNCHANGED <<queue_grp_state, new_group_index>>
      /\ k \in DOMAIN queue /\ DOMAIN queue' = DOMAIN queue
      /\ queue'[k] = g /\ \A i \in DOMAIN queue : i # k => queue'[i] = queue[i]
  <2>1. /\ pc \in [Groups -> Labels] /\ at[g] \in Nat
        /\ queue \in [0..Cardinality(Groups)-1 -> Groups \cup {NoGroup}]
    BY DEF SeatInv, Shape
  <2>2. pc[g] = "put" /\ pc'[g] = "reread" /\ queue' = [queue EXCEPT ![at[g]] = g]
    BY <2>1 DEF R!Enlist, R!Goto
  <2>3. k = at[g] /\ at[g] <= Cardinality(R!Counted)
    BY <2>2, OrderParts, SameConstants DEF Placed, SeatInv, R!LineInv
  <2>4. k \in DOMAIN queue
    <3>1. pc[g] \in R!Joining
      BY <2>2 DEF R!Joining
    <3> HIDE DEF R!Counted
    <3> QED BY <2>1, <2>3, <3>1, CountedFinite
  <2> QED BY <2>1, <2>2, <2>3, <2>4 DEF R!Enlist
<1>2. pc[g] \in R!Joining
  BY <1>1 DEF R!Joining
<1>3. k \in Nat /\ \A h \in Groups \ {g} : pc[h] \in InQueue =>
                      state[h].queue_ticket \in Nat /\ state[h].queue_ticket # k
  <2>1. \A h \in Groups : state[h].queue_ticket \in Nat
    BY DEF SeatInv, Shape, R!GroupStates
  <2> QED BY <1>2, <2>1, OthersBefore
<1> HIDE DEF k
<1>4. ASSUME NEW h \in Groups
      PROVE  Placed(h)'
  <2>1. Placed(h) /\ Placed(g)
    BY OrderParts
  <2>2. CASE h = g
    BY <1>1, <2>1, <2>2, LabelSets DEF Placed, InQueue, NotGone, Requesting, k
  <2>3. CASE h # g
    BY <1>1, <1>3, <2>1, <2>3 DEF Placed, OwnPlace, Requesting, NotGone
  <2> QED BY <2>2, <2>3
<1>5. ASSUME NEW i \in queue_grp_state
      PROVE  TicketOf(i)'
  <2>1. TicketOf(i) /\ queue[i] \in Groups /\ i \in DOMAIN queue
    BY OrderParts DEF TicketOf, SeatInv, Shape
  <2>2. queue[i] # g /\ i # k
    BY <1>1, <1>3, <2>1 DEF TicketOf, NotGone, InQueue
  <2> QED BY <1>1, <2>1, <2>2 DEF TicketOf, OwnPlace
<1> QED BY <1>1, <1>4, <1>5 DEF OrderInv, R!Up, Placed, TicketOf

(* The ticket that is marked is that of the group.                             *)
LEMMA ShowOrder ==
  ASSUME NEW g \in Groups, SeatInv, OrderInv, OwnPlace(g), R!Show(g)
  PROVE  OrderInv'
<1>1. /\ pc[g] = "show" /\ pc'[g] = "count" /\ state' = state /\ at' = at
      /\ UNCHANGED <<queue, new_group_index>>
      /\ queue_grp_state' = queue_grp_state \cup {state[g].queue_ticket}
  <2>1. pc \in [Groups -> Labels] /\ Placed(g)
    BY OrderParts DEF SeatInv, Shape
  <2> QED BY <2>1 DEF R!Show, R!Goto, Placed
<1>2. "show" \in InQueue /\ {"count"} \subseteq NotGone /\ NotGone \subseteq InQueue
  BY LabelSets DEF InQueue, NotGone
<1>3. ASSUME NEW h \in Groups
      PROVE  Placed(h)'
  <2>1. Placed(h)
    BY OrderParts
  <2>2. CASE h = g
    BY <1>1, <1>2, <2>1, <2>2, LabelSets DEF Placed, Requesting
  <2>3. CASE h # g
    BY <1>1, <2>1, <2>3 DEF Placed, OwnPlace, Requesting
  <2> QED BY <2>2, <2>3
<1>4. ASSUME NEW i \in queue_grp_state'
      PROVE  TicketOf(i)'
  <2>1. CASE i \in queue_grp_state
    <3>1. TicketOf(i) /\ queue[i] \in Groups
      BY <2>1, OrderParts DEF TicketOf
    <3> QED BY <1>1, <1>2, <3>1 DEF TicketOf, OwnPlace
  <2>2. CASE i = state[g].queue_ticket
    <3>1. queue[i] = g
      BY <1>1, <1>2, <2>2, OrderParts DEF Placed
    <3> QED BY <1>1, <1>2, <2>2, <3>1 DEF TicketOf
  <2> QED BY <1>1, <2>1, <2>2
<1> QED BY <1>3, <1>4 DEF OrderInv, R!Up, Placed, TicketOf

LEMMA CountOrder ==
  ASSUME NEW g \in Groups, SeatInv, OneMoves, OrderInv, OwnPlace(g), R!Count(g)
  PROVE  OrderInv'
<1>1. /\ pc \in [Groups -> Labels] /\ new_group_index \in Nat
      /\ \A h \in Groups : state[h].queue_ticket \in Nat
  BY DEF SeatInv, Shape, R!GroupStates
<1>2. /\ pc[g] = "add" /\ pc'[g] = "look" /\ state' = state /\ at' = at
      /\ UNCHANGED <<queue, queue_grp_state>>
      /\ new_group_index' = new_group_index + 1
  <2>1. Placed(g)
    BY OrderParts
  <2> QED BY <1>1, <2>1 DEF R!Count, R!Goto, Placed, R!Joining
<1>3. ASSUME NEW h \in Groups
      PROVE  Placed(h)'
  <2>1. Placed(h) /\ Placed(g)
    BY OrderParts
  <2>2. CASE h = g
    BY <1>1, <1>2, <2>1, <2>2, LabelSets DEF Placed, InQueue, NotGone, Requesting
  <2>3. CASE h # g
    <3>1. pc[h] \notin R!Joining
      BY <1>2, <2>3, OthersBefore DEF R!Joining
    <3> QED BY <1>1, <1>2, <2>1, <2>3, <3>1 DEF Placed, OwnPlace, Requesting
  <2> QED BY <2>2, <2>3
<1>4. ASSUME NEW i \in queue_grp_state
      PROVE  TicketOf(i)'
  <2>1. TicketOf(i) /\ queue[i] \in Groups
    BY OrderParts DEF TicketOf
  <2>2. "look" \in NotGone
    BY LabelSets DEF NotGone, InQueue
  <2> QED BY <1>2, <2>1, <2>2 DEF TicketOf, OwnPlace
<1> QED BY <1>2, <1>3, <1>4 DEF OrderInv, R!Up, Placed, TicketOf

LEMMA AssignOrder ==
  ASSUME NEW g \in Groups, SeatInv, OrderInv, OwnPlace(g), R!assign_table(g, Type(g))
  PROVE  OrderInv'
<1>1. PICK n \in R!Types : n = Type(g)
  BY SameConstants DEF SeatInv, SizeInv, R!assign_table, R!Goto
<1>2. /\ pc[g] = "assign" /\ pc'[g] = "served" /\ at' = at
      /\ UNCHANGED <<queue, queue_grp_state, new_group_index>>
      /\ state'[g].queue_ticket = state[g].queue_ticket
      /\ state'[g].state_of_group = "EAT"
  BY <1>1, Assigned, ZenonT(60) DEF R!Goto, SeatInv, Shape
<1>3. {"assign", "served"} \subseteq NotGone /\ NotGone \subseteq InQueue
  BY LabelSets DEF NotGone, InQueue
<1>4. ASSUME NEW h \in Groups
      PROVE  Placed(h)'
  <2>1. Placed(h)
    BY OrderParts
  <2>2. CASE h = g
    BY <1>2, <1>3, <2>1, <2>2, LabelSets DEF Placed, Requesting
  <2>3. CASE h # g
    BY <1>2, <2>1, <2>3 DEF Placed, OwnPlace, Requesting
  <2> QED BY <2>2, <2>3
<1>5. ASSUME NEW i \in queue_grp_state
      PROVE  TicketOf(i)'
  <2>1. TicketOf(i) /\ queue[i] \in Groups
    BY OrderParts DEF TicketOf
  <2> QED BY <1>2, <1>3, <2>1 DEF TicketOf, OwnPlace
<1> QED BY <1>2, <1>4, <1>5 DEF OrderInv, R!Up, Placed, TicketOf

(* A leaver is marked as gone, and no other group.                             *)
LEMMA MarkOrder ==
  ASSUME NEW g \in Groups, SeatInv, OrderInv, OwnPlace(g), R!Mark(g)
  PROVE  OrderInv'
<1>1. /\ pc \in [Groups -> Labels] /\ state \in [Groups -> R!GroupStates]
  BY DEF SeatInv, Shape
<1>2. /\ pc[g] = "mark" /\ pc'[g] = "find"
      /\ UNCHANGED <<queue, new_group_index>>
      /\ state'[g].queue_ticket = state[g].queue_ticket
      /\ state'[g].state_of_group = "LEAVE"
      /\ queue_grp_state' = queue_grp_state \ {state[g].queue_ticket}
  BY <1>1 DEF R!Mark, R!Goto, R!GroupStates
<1>3. /\ "mark" \in InQueue /\ "find" \in InQueue /\ "find" \notin NotGone
      /\ NotGone \subseteq InQueue
  BY LabelSets DEF NotGone, InQueue
<1>4. ASSUME NEW h \in Groups
      PROVE  Placed(h)'
  <2>1. Placed(h) /\ Placed(g)
    BY OrderParts
  <2>2. CASE h = g
    BY <1>2, <1>3, <2>1, <2>2, LabelSets DEF Placed, Requesting
  <2>3. CASE h # g
    <3>1. pc[h] \in InQueue => state[h].queue_ticket # state[g].queue_ticket
      BY <1>2, <1>3, <2>1, <2>3 DEF Placed
    <3> QED BY <1>2, <1>3, <2>1, <2>3, <3>1 DEF Placed, OwnPlace, Requesting
  <2> QED BY <2>2, <2>3
<1>5. ASSUME NEW i \in queue_grp_state'
      PROVE  TicketOf(i)'
  <2>1. TicketOf(i) /\ queue[i] \in Groups /\ i # state[g].queue_ticket
    BY <1>1, <1>2, OrderParts DEF TicketOf
  <2>2. queue[i] # g
    BY <2>1 DEF TicketOf
  <2> QED BY <1>2, <2>1, <2>2 DEF TicketOf, OwnPlace
<1> QED BY <1>2, <1>4, <1>5 DEF OrderInv, R!Up, Placed, TicketOf

-----------------------------------------------------------------------------
(* The first of those who wait                                                 *)

(* What FirstInv says of a thread that looks for the next group.               *)
Looking(g) ==
  /\ pc[g] = "peek" => at[g] \in queue_grp_state
  /\ pc[g] \in {"call", "post"} =>
       LET h == queue[at[g]]
       IN /\ h \in Groups /\ R!Waiting(h) /\ Size[h] <= Type(g)
          /\ state[h].queue_ticket = at[g]
          /\ pc[g] = "post" => Type(h) = Type(g)

(* A step of a thread that has the restaurant to itself.                       *)
LEMMA AloneFirst ==
  ASSUME NEW g \in Groups, OwnStep(g), \A h \in Groups \ {g} : R!Settled(h),
         \A h \in Groups \ {g} : R!Waiting(h) /\ Size[h] <= Type(g)' =>
           /\ R!Invited(g)' \/ pc'[g] \in {"serve", "assign"} =>
                state'[g].queue_ticket < state[h].queue_ticket
           /\ pc'[g] \in {"find", "peek", "call", "post"} => at'[g] <= state[h].queue_ticket,
         pc'[g] = "peek" => at'[g] \in queue_grp_state',
         pc'[g] # "post",
         pc'[g] = "call" => LET h == queue'[at'[g]]
                            IN /\ h \in Groups \ {g} /\ R!Waiting(h) /\ Size[h] <= Type(g)'
                               /\ state[h].queue_ticket = at'[g]
  PROVE  FirstInv'
<1>1. \A h \in Groups \ {g} :
        /\ pc'[h] = pc[h] /\ my_turn_to_go'[h] = my_turn_to_go[h]
        /\ state'[h].queue_ticket = state[h].queue_ticket
        /\ pc[h] \in {"idle", "seated", "gone"} \/ R!Waiting(h)
  BY DEF OwnStep, OwnPlace, R!Settled
<1>2. ASSUME NEW h \in Groups, NEW k \in Groups, R!Waiting(k)', Size[k] <= Type(h)'
      PROVE  /\ R!Invited(h)' \/ pc'[h] \in {"serve", "assign"} =>
                  state'[h].queue_ticket < state'[k].queue_ticket
             /\ pc'[h] \in {"find", "peek", "call", "post"} => at'[h] <= state'[k].queue_ticket
  <2>1. CASE h # g
    BY <1>1, <2>1 DEF R!Invited, R!Waiting
  <2>2. CASE h = k
    BY <1>2, <2>2 DEF R!Invited, R!Waiting
  <2>3. CASE h = g /\ k # g
    <3>1. R!Waiting(k)
      BY <1>1, <1>2, <2>3 DEF R!Waiting
    <3> QED BY <1>1, <1>2, <2>3, <3>1
  <2> QED BY <2>1, <2>2, <2>3
<1>3. ASSUME NEW h \in Groups
      PROVE  Looking(h)'
  <2>1. CASE h # g
    BY <1>1, <2>1 DEF Looking, R!Waiting
  <2>2. CASE h = g
    BY <1>1, <2>2 DEF Looking, R!Waiting
  <2> QED BY <2>1, <2>2
<1> QED BY <1>2, <1>3 DEF FirstInv, Looking

(* A step of a group that had the turn, or of one that has called, leaves the  *)
(* others behind it where they were.                                           *)
LEMMA FirstKept ==
  ASSUME NEW g \in Groups, SeatInv, FirstInv, OwnStep(g), Type(g)' = Type(g),
         UNCHANGED <<queue, queue_grp_state>>,
         state'[g].queue_ticket = state[g].queue_ticket,
         ~R!Waiting(g), ~R!Waiting(g)', pc'[g] \notin {"find", "peek", "call", "post"},
         R!Invited(g)' \/ pc'[g] \in {"serve", "assign"} =>
           R!Invited(g) \/ pc[g] \in {"serve", "assign"}
  PROVE  FirstInv'
<1>1. \A h \in Groups \ {g} :
        /\ pc'[h] = pc[h] /\ my_turn_to_go'[h] = my_turn_to_go[h] /\ at'[h] = at[h]
        /\ state'[h].queue_ticket = state[h].queue_ticket /\ Type(h)' = Type(h)
  BY DEF OwnStep, OwnPlace
<1>2. ASSUME NEW h \in Groups, NEW k \in Groups, R!Waiting(k)', Size[k] <= Type(h)'
      PROVE  /\ R!Invited(h)' \/ pc'[h] \in {"serve", "assign"} =>
                  state'[h].queue_ticket < state'[k].queue_ticket
             /\ pc'[h] \in {"find", "peek", "call", "post"} => at'[h] <= state'[k].queue_ticket
  <2>1. k # g /\ R!Waiting(k) /\ state'[k].queue_ticket = state[k].queue_ticket
    BY <1>1, <1>2 DEF R!Waiting
  <2>2. /\ R!Invited(h)' \/ pc'[h] \in {"serve", "assign"} =>
             R!Invited(h) \/ pc[h] \in {"serve", "assign"}
        /\ pc'[h] \in {"find", "peek", "call", "post"} =>
             pc[h] \in {"find", "peek", "call", "post"} /\ at'[h] = at[h]
        /\ state'[h].queue_ticket = state[h].queue_ticket /\ Size[k] <= Type(h)
    BY <1>1, <1>2 DEF R!Invited
  <2> QED BY <1>2, <2>1, <2>2 DEF FirstInv
<1>3. ASSUME NEW h \in Groups
      PROVE  Looking(h)'
  <2>1. CASE h = g
    BY <2>1 DEF Looking
  <2>2. CASE h # g /\ pc[h] = "peek"
    BY <1>1, <2>2 DEF FirstInv, Looking
  <2>3. CASE h # g /\ pc[h] \in {"call", "post"}
    <3> DEFINE k == queue[at[h]]
    <3>1. /\ R!Waiting(k) /\ Size[k] <= Type(h) /\ state[k].queue_ticket = at[h]
          /\ k \in Groups /\ (pc[h] = "post" => Type(k) = Type(h)) /\ k # g
      BY <2>3 DEF FirstInv
    <3> QED BY <1>1, <2>3, <3>1 DEF Looking, R!Waiting
  <2> QED BY <1>1, <2>1, <2>2, <2>3 DEF Looking
<1> QED BY <1>2, <1>3 DEF FirstInv, Looking

(* A group that waits is in the queue, at its ticket, as one that waits, and   *)
(* of its own size until it is called.                                         *)
LEMMA WaitingInLine ==
  ASSUME NEW h \in Groups, SeatInv, OrderInv, R!Waiting(h)
  PROVE  LET i == state[h].queue_ticket
         IN /\ i \in Nat /\ i < new_group_index /\ i \in queue_grp_state /\ queue[i] = h
            /\ state[h].state_of_group = "WAIT" /\ (~Called(h) => Type(h) = Size[h])
<1>1. Placed(h) /\ pc[h] = "turn" /\ Requesting(h)
  BY OrderParts DEF R!Waiting, Requesting
<1>2. /\ "turn" \in InQueue /\ "turn" \notin R!Joining /\ "turn" \in NotGone
  BY LabelSets DEF InQueue, NotGone
<1>3. state[h] \in R!GroupStates /\ (~Called(h) => Type(h) = Size[h])
  BY <1>1 DEF SeatInv, Shape, SizeInv, Unplaced, R!Waiting
<1> QED BY <1>1, <1>2, <1>3 DEF Placed, R!GroupStates

-----------------------------------------------------------------------------
(* The steps                                                                   *)

Rest == OneMoves /\ TurnsInv /\ OrderInv /\ FirstInv

(* The driver gives a command when no group is on its way.                     *)
LEMMA CommandRest ==
  ASSUME NEW g \in Groups, ~Together, SeatInv, Rest, R!Enter(g) \/ R!Depart(g)
  PROVE  Rest'
<1>1. OwnStep(g)
  BY OwnSteps DEF SeatInv, R!Enter, R!Depart, R!Command, Resize, Call, R!Goto
<1>2. /\ \/ pc[g] = "idle" /\ pc'[g] = "enter"
         \/ pc[g] = "seated" /\ pc'[g] = "leave"
      /\ \A h \in Groups : R!AtRest(h)
      /\ UNCHANGED <<table_available, queue, queue_grp_state, new_group_index, state,
                     my_turn_to_go>>
  BY DEF R!Enter, R!Depart, R!Command, R!Goto, SeatInv, Shape, R!sems, R!line
<1>3. ASSUME NEW h \in Groups
      PROVE  R!Settled(h)
  <2>1. pc[h] # "take"
    <3> SUFFICES ASSUME pc[h] = "take"
                 PROVE  FALSE
      OBVIOUS
    <3>1. table_available[Type(h)] = 0
      BY <1>2 DEF R!AtRest, Type
    <3>2. PICK k \in Groups : pc[k] = "freeUp"
      BY <3>1, TurnParts DEF Rest, HasTable, R!Invited
    <3> QED BY <1>2, <3>2 DEF R!AtRest
  <2> QED BY <1>2, <2>1 DEF R!AtRest, R!Settled, R!Waiting
<1>4. OneMoves'
  BY <1>1, <1>3, AloneMoves DEF Rest
<1>5. TurnsInv'
  BY <1>1, <1>2, TurnsStay DEF Rest, Deciding
<1>6. OrderInv'
  <2>1. OwnPlace(g)
    BY <1>1 DEF OwnStep
  <2> QED BY <1>2, <2>1, OrderStays, LabelSets DEF Rest, InQueue, NotGone, Requesting
<1>7. FirstInv'
  <2>1. ~R!Invited(g)'
    BY <1>2 DEF R!Invited
  <2> QED BY <1>1, <1>2, <1>3, <2>1, AloneFirst
<1> QED BY <1>4, <1>5, <1>6, <1>7 DEF Rest

(* request_for_table, with the mutex of the size: the group joins the queue.   *)
LEMMA JoinRest ==
  ASSUME NEW g \in Groups, SeatInv, Rest, R!Record(g) \/ R!enqueue(g)
  PROVE  Rest'
<1>1. OwnStep(g) /\ OwnPlace(g)
  BY OwnSteps DEF SeatInv, request_for_table, R!Record, R!enqueue, R!ReadIndex, R!Enlist,
     R!Show, R!Count, Resize, Call, R!Goto, OwnStep
<1>2. /\ \/ pc[g] = "enter" /\ pc'[g] = "enlist"
         \/ pc[g] \in R!Joining /\ pc'[g] \in R!Joining \cup {"look"}
      /\ UNCHANGED <<table_available, my_turn_to_go>>
  BY DEF R!Record, R!enqueue, R!ReadIndex, R!Enlist, R!Show, R!Count, R!Joining, R!Goto,
     SeatInv, Shape, R!sems
<1>3. pc[g] \in Alone
  BY <1>2, LabelSets DEF Alone
<1>4. OneMoves'
  BY <1>1, <1>3, AloneMoves DEF Rest
<1>5. TurnsInv'
  BY <1>1, <1>2, LabelSets, TurnsStay DEF Rest, Deciding
<1>6. OrderInv'
  BY <1>1, RecordOrder, ReadIndexOrder, EnlistOrder, ShowOrder, CountOrder DEF Rest, R!enqueue
<1>7. FirstInv'
  <2>1. ~R!Invited(g)' /\ pc'[g] \notin {"serve", "assign", "find", "peek", "call", "post"}
    BY <1>2, LabelSets DEF R!Invited
  <2>2. \A h \in Groups \ {g} : R!Settled(h)
    BY <1>3, OthersSettled DEF Rest
  <2> QED BY <1>1, <2>1, <2>2, AloneFirst
<1> QED BY <1>4, <1>5, <1>6, <1>7 DEF Rest

(* The loop over the types, from the group's own: it stops at the first that   *)
(* has a table left, or finds that none has.                                   *)
LEMMA ScanTurn ==
  ASSUME NEW g \in Groups, SeatInv, TurnsInv, LookFirst(g) \/ Scan(g)
  PROVE  TurnOf(g)'
<1>1. /\ pc \in [Groups -> Labels] /\ at \in [Groups -> Nat]
      /\ table_available \in [R!Types -> Nat] /\ R!Types = 0..T-1
      /\ Size[g] \in 0..T-1 /\ T \in Nat
  BY SameConstants, TypesAssumption DEF SeatInv, Shape
<1>2. /\ my_turn_to_go[g] = 0 /\ my_turn_to_go' = my_turn_to_go
      /\ table_available' = table_available
  BY DEF TurnsInv, LookFirst, Scan, R!Goto, sems
<1>3. CASE LookFirst(g)
  <2>1. pc'[g] = "scan" /\ at'[g] = Size[g]
    BY <1>1, <1>3 DEF LookFirst, R!Goto
  <2> QED BY <1>1, <1>2, <2>1 DEF TurnOf, NoneFrom
<1>4. CASE Scan(g)
  <2>1. pc[g] = "scan" /\ at[g] \in Size[g]..T-1 /\ NoneFrom(Size[g], at[g] - 1)
    BY <1>4, TurnParts DEF Scan, R!Goto, TurnOf
  <2>2. /\ at[g] \in Nat /\ at[g] \in 0..T-1 /\ table_available[at[g]] \in Nat
        /\ Size[g] \in Nat
    BY <1>1, <2>1
  <2>3. CASE table_available[at[g]] > 0
    <3>1. pc'[g] = "open" /\ at'[g] = at[g]
      BY <1>1, <1>4, <2>3 DEF Scan, R!Goto
    <3> QED BY <1>2, <2>1, <2>3, <3>1 DEF TurnOf, NoneFrom
  <2>4. CASE ~(table_available[at[g]] > 0)
    <3>1. table_available[at[g]] = 0
      BY <2>2, <2>4
    <3>2. \A n \in Size[g]..at[g] : table_available[n] = 0
      BY <1>1, <2>1, <2>2, <3>1 DEF NoneFrom
    <3>3. CASE at[g] = T - 1
      <4>1. pc'[g] = "close"
        BY <1>1, <1>4, <2>4, <3>3 DEF Scan, R!Goto
      <4> QED BY <1>2, <3>2, <3>3, <4>1 DEF TurnOf, NoneFrom
    <3>4. CASE at[g] # T - 1
      <4>1. pc'[g] = "scan" /\ at'[g] = at[g] + 1
        BY <1>1, <1>4, <2>4, <3>4 DEF Scan, R!Goto
      <4>2. at'[g] \in Size[g]..T-1 /\ at'[g] - 1 = at[g]
        BY <1>1, <2>1, <2>2, <3>4, <4>1
      <4> QED BY <1>2, <3>2, <4>1, <4>2 DEF TurnOf, NoneFrom
    <3> QED BY <3>3, <3>4
  <2> QED BY <2>3, <2>4
<1> QED BY <1>3, <1>4

(* ... and its turn is open exactly if there is one, of the type in its state. *)
LEMMA OpenTurnOf ==
  ASSUME NEW g \in Groups, SeatInv, TurnsInv, OpenTurn(g) \/ CloseTurn(g)
  PROVE  TurnOf(g)' /\ pc'[g] = "unlock"
<1>1. /\ pc \in [Groups -> Labels] /\ my_turn_to_go \in [Groups -> Nat]
      /\ state \in [Groups -> R!GroupStates]
  BY DEF SeatInv, Shape
<1>2. pc'[g] = "unlock" /\ table_available' = table_available
  BY <1>1 DEF OpenTurn, CloseTurn, R!Goto, sems
<1>3. CASE OpenTurn(g)
  <2>1. table_available[at[g]] > 0
    BY <1>3, TurnParts DEF OpenTurn, R!Goto, TurnOf
  <2>2. my_turn_to_go'[g] = 1 /\ Type(g)' = at[g]
    BY <1>1, <1>3 DEF OpenTurn, Type, R!GroupStates
  <2> QED BY <1>2, <2>1, <2>2 DEF TurnOf
<1>4. CASE CloseTurn(g)
  <2>1. NoneFrom(Size[g], T - 1)
    BY <1>4, TurnParts DEF CloseTurn, R!Goto, TurnOf
  <2>2. my_turn_to_go'[g] = 0
    BY <1>1, <1>4 DEF CloseTurn
  <2> QED BY <1>2, <2>1, <2>2 DEF TurnOf, NoneFrom
<1> QED BY <1>2, <1>3, <1>4

(* With its turn, the group finds a table; without, no table fits it.          *)
LEMMA UnlockTurn ==
  ASSUME NEW g \in Groups, SeatInv, TurnsInv, R!Unlock(g)
  PROVE  /\ TurnOf(g)' /\ Type(g)' = Type(g)
         /\ R!Invited(g)' => table_available[Type(g)] > 0
         /\ R!Waiting(g)' => NoneFrom(Size[g], T - 1)
<1>1. pc[g] = "unlock" /\ pc'[g] = "turn" /\ my_turn_to_go' = my_turn_to_go /\ state' = state
  BY DEF R!Unlock, R!Goto, SeatInv, Shape
<1>2. TurnOf(g)
  BY TurnParts
<1> QED BY <1>1, <1>2 DEF TurnOf, R!Invited, R!Waiting, Type

(* ... and so takes its turn at once if there is a table, when no group waits  *)
(* that fits it.                                                               *)
LEMMA TurnRest ==
  ASSUME NEW g \in Groups, SeatInv, SeatInv', Rest,
         LookFirst(g) \/ Scan(g) \/ OpenTurn(g) \/ CloseTurn(g) \/ R!Unlock(g)
  PROVE  Rest'
<1>1. OwnStep(g) /\ OwnPlace(g)
  BY OwnSteps DEF SeatInv, request_for_table, LookFirst, Scan, OpenTurn, CloseTurn, R!Unlock,
     Resize, Call, R!Goto, OwnStep
<1>2. /\ \/ pc[g] = "look" /\ pc'[g] = "scan"
         \/ pc[g] = "scan" /\ pc'[g] \in {"scan", "open", "close"}
         \/ pc[g] \in {"open", "close"} /\ pc'[g] = "unlock"
         \/ pc[g] = "unlock" /\ pc'[g] = "turn" /\ R!Unlock(g)
      /\ UNCHANGED <<table_available, queue, queue_grp_state, new_group_index>>
      /\ state'[g].queue_ticket = state[g].queue_ticket
      /\ state'[g].state_of_group = state[g].state_of_group
  <2>1. pc \in [Groups -> Labels] /\ state \in [Groups -> R!GroupStates]
    BY DEF SeatInv, Shape
  <2>2. CASE OpenTurn(g)
    BY <2>1, <2>2 DEF OpenTurn, R!Goto, R!GroupStates, sems, line
  <2> QED BY <2>1, <2>2 DEF LookFirst, Scan, CloseTurn, R!Unlock, R!Goto, R!sems, R!line, sems,
          line
<1>3. pc[g] \in Alone
  BY <1>2, LabelSets DEF Alone
<1>4. table_available \in [R!Types -> Nat]
  BY DEF SeatInv, Shape
<1>5. /\ TurnOf(g)'
      /\ R!Invited(g)' => table_available[Type(g)'] > 0
      /\ R!Waiting(g)' => NoneFrom(Size[g], T - 1)
  <2>1. CASE R!Unlock(g)
    BY <2>1, UnlockTurn DEF Rest
  <2>2. CASE ~R!Unlock(g)
    <3>1. ~R!Invited(g)' /\ ~R!Waiting(g)'
      BY <1>2, <2>2 DEF R!Invited, R!Waiting
    <3> QED BY <2>2, <3>1, ScanTurn, OpenTurnOf DEF Rest
  <2> QED BY <2>1, <2>2
<1>6. OneMoves'
  BY <1>1, <1>3, AloneMoves DEF Rest
<1>7. TurnsInv'
  <2>1. pc'[g] # "freeUp"
    BY <1>2
  <2> QED BY <1>1, <1>2, <1>3, <1>5, <2>1, AloneTurns DEF Rest
<1>8. OrderInv'
  BY <1>1, <1>2, OrderStays, LabelSets DEF Rest, InQueue, NotGone, Requesting
<1>9. FirstInv'
  <2>1. \A h \in Groups \ {g} : R!Settled(h) /\ (R!Waiting(h) => NoneFrom(Size[h], T - 1))
    BY <1>3, OthersSettled, NoneInvited DEF Rest
  <2>2. ASSUME NEW h \in Groups \ {g}, R!Waiting(h), Size[h] <= Type(g)', R!Invited(g)'
        PROVE  FALSE
    <3>1. PICK n \in Size[g]..T-1 : n = Type(g)'
      BY <1>2, <2>2 DEF SeatInv, SizeInv, R!Invited
    <3>2. n \in Size[h]..T-1 /\ table_available[n] > 0
      BY <1>5, <2>2, <3>1, SameConstants
    <3> QED BY <2>1, <2>2, <3>2 DEF NoneFrom
  <2>3. pc'[g] \notin {"serve", "assign", "find", "peek", "call", "post"}
    BY <1>2
  <2> QED BY <1>1, <2>1, <2>2, <2>3, AloneFirst
<1> QED BY <1>6, <1>7, <1>8, <1>9 DEF Rest

(* The group takes its table and sits down.                                    *)
LEMMA SeatRest ==
  ASSUME NEW g \in Groups, SeatInv, Rest,
         \/ AwaitTurn(g) \/ TakeTable(g) \/ R!Serve(g, local[g])
         \/ R!assign_table(g, Type(g)) \/ R!Served(g, Type(g))
  PROVE  Rest'
<1>1. OwnStep(g) /\ OwnPlace(g)
  BY OwnSteps DEF SeatInv, request_for_table, AwaitTurn, TakeTable, R!Serve,
     R!assign_table, R!Served, Resize, Call, R!Goto, OwnStep
<1>2. /\ \/ pc[g] = "turn" /\ pc'[g] = "take" /\ my_turn_to_go[g] # 0
         \/ pc[g] = "take" /\ pc'[g] = "serve"
         \/ pc[g] = "serve" /\ pc'[g] = "assign"
         \/ pc[g] = "assign" /\ pc'[g] = "served"
         \/ pc[g] = "served" /\ pc'[g] = "seated"
      /\ UNCHANGED <<queue, queue_grp_state, new_group_index>>
  BY DEF AwaitTurn, TakeTable, R!Serve, R!assign_table, R!Served, R!Goto, sem_wait,
     SeatInv, Shape, line, R!line
<1>3. state'[g].queue_ticket = state[g].queue_ticket /\ Type(g)' = Type(g)
  <2>1. CASE R!assign_table(g, Type(g))
    <3>1. PICK n \in R!Types : n = Type(g)
      BY <2>1, SameConstants DEF SeatInv, SizeInv, R!assign_table, R!Goto
    <3> QED BY <2>1, <3>1, Assigned
  <2> QED BY <2>1 DEF AwaitTurn, TakeTable, R!Serve, R!Served, Type
<1>4. OneMoves' /\ TurnsInv'
  <2>1. CASE AwaitTurn(g)
    BY <2>1, AwaitTurnTurns DEF Rest
  <2>2. CASE TakeTable(g)
    BY <1>1, <2>2, TakeTableTurns DEF Rest
  <2>3. CASE R!Serve(g, local[g]) \/ R!assign_table(g, Type(g)) \/ R!Served(g, Type(g))
    <3>1. /\ (pc[g] \in {"serve", "assign"} /\ pc'[g] \in {"assign", "served"}) \/ pc'[g] = "seated"
          /\ pc[g] \in {"serve", "assign", "served"} /\ pc'[g] \in {"assign", "served", "seated"}
          /\ UNCHANGED <<table_available, my_turn_to_go, local>>
      BY <1>2, <2>3 DEF R!Serve, R!assign_table, R!Served, R!Goto, R!sems
    <3>2. TurnsInv'
      BY <1>1, <3>1, TurnsStay DEF Rest, Deciding
    <3>3. ASSUME pc[g] \in {"serve", "assign"}, NEW h \in Groups
          PROVE  pc[h] # "freeUp"
      BY <3>3 DEF Rest, OneMoves, Follows, R!Settled, R!Waiting, R!Invited
    <3> QED BY <1>1, <1>2, <1>3, <3>1, <3>2, <3>3, AloneMoves, ServingMoves DEF Rest
  <2> QED BY <2>1, <2>2, <2>3
<1>5. OrderInv'
  <2>1. CASE R!assign_table(g, Type(g))
    BY <1>1, <2>1, AssignOrder DEF Rest
  <2>2. CASE ~R!assign_table(g, Type(g))
    <3>1. state' = state /\ pc[g] # "assign"
      BY <2>2 DEF AwaitTurn, TakeTable, R!Serve, R!Served, R!Goto
    <3> QED BY <1>1, <1>2, <3>1, OrderStays, LabelSets DEF Rest, InQueue, NotGone, Requesting
  <2> QED BY <2>1, <2>2
<1>6. FirstInv'
  <2>1. ~R!Waiting(g) /\ ~R!Waiting(g)'
    BY <1>2 DEF R!Waiting
  <2>2. R!Invited(g)' \/ pc'[g] \in {"serve", "assign"} =>
          R!Invited(g) \/ pc[g] \in {"serve", "assign"}
    BY <1>2 DEF R!Invited
  <2>3. pc'[g] \notin {"find", "peek", "call", "post"}
    BY <1>2
  <2> QED BY <1>1, <1>2, <1>3, <2>1, <2>2, <2>3, FirstKept DEF Rest
<1> QED BY <1>4, <1>5, <1>6 DEF Rest

(* leave_table, up to the mark: the leaver starts to look at the head of the   *)
(* queue.                                                                      *)
LEMMA LeaveRest ==
  ASSUME NEW g \in Groups, SeatInv, Rest, R!Leave(g) \/ R!free_table(g) \/ R!Mark(g)
  PROVE  Rest'
<1>1. OwnStep(g) /\ OwnPlace(g)
  BY OwnSteps DEF SeatInv, leave_table, R!Leave, R!free_table, R!Mark, Resize, Call, R!Goto, OwnStep
<1>2. /\ \/ pc[g] = "leave" /\ pc'[g] = "free"
         \/ pc[g] = "free" /\ pc'[g] = "mark"
         \/ pc[g] = "mark" /\ pc'[g] = "find" /\ at'[g] = 0
      /\ UNCHANGED <<table_available, my_turn_to_go>>
  BY DEF R!Leave, R!free_table, R!Mark, R!Goto, SeatInv, Shape, R!sems
<1>3. pc[g] \in Alone
  BY <1>2, LabelSets DEF Alone
<1>4. OneMoves'
  BY <1>1, <1>3, AloneMoves DEF Rest
<1>5. TurnsInv'
  BY <1>1, <1>2, TurnsStay DEF Rest, Deciding
<1>6. OrderInv'
  <2>1. CASE R!Mark(g)
    BY <1>1, <2>1, MarkOrder DEF Rest
  <2>2. CASE ~R!Mark(g)
    <3>1. /\ UNCHANGED <<state, queue, queue_grp_state, new_group_index>>
          /\ pc[g] # "mark"
      BY <2>2 DEF R!Leave, R!free_table, R!Goto, R!line
    <3> QED BY <1>1, <1>2, <3>1, OrderStays, LabelSets DEF Rest, InQueue, NotGone, Requesting
  <2> QED BY <2>1, <2>2
<1>7. FirstInv'
  <2>1. \A h \in Groups \ {g} : R!Settled(h) /\ state[h].queue_ticket \in Nat
    BY <1>3, OthersSettled DEF Rest, SeatInv, Shape, R!GroupStates
  <2>2. ~R!Invited(g)' /\ pc'[g] \notin {"serve", "assign", "peek", "call", "post"}
    BY <1>2 DEF R!Invited
  <2>3. pc'[g] = "find" => at'[g] = 0
    BY <1>2
  <2> QED BY <1>1, <2>1, <2>2, <2>3, AloneFirst
<1> QED BY <1>4, <1>5, <1>6, <1>7 DEF Rest

(* The search goes from one ticket that is not gone to the next, and comes to  *)
(* an end when no group waits that fits at the table.                          *)
LEMMA FindRest ==
  ASSUME NEW g \in Groups, SeatInv, Rest, R!Find(g)
  PROVE  Rest'
<1> DEFINE here == {i \in at[g]..new_group_index-1 : i \in queue_grp_state}
<1>1. OwnStep(g) /\ OwnPlace(g)
  BY OwnSteps DEF SeatInv, leave_table, R!Find, R!FindNext, Resize, Call, R!Goto, OwnStep
<1>2. /\ pc[g] = "find" /\ at \in [Groups -> Nat] /\ new_group_index \in Nat
      /\ here # {} => pc'[g] = "peek" /\ at'[g] = R!Min(here)
      /\ here = {} => pc'[g] = "freeUp"
      /\ UNCHANGED <<table_available, my_turn_to_go, queue, queue_grp_state, new_group_index,
                     state, local>>
  BY DEF R!Find, R!FindNext, R!Goto, SeatInv, Shape, R!sems, R!line
<1>3. pc[g] \in Alone /\ local[g] = Type(g) /\ Type(g)' = Type(g)
  BY <1>2, LabelSets DEF Alone, SeatInv, SizeInv, Type
<1>4. here \in SUBSET Nat
  BY <1>2
<1>5. ASSUME NEW h \in Groups \ {g}, R!Waiting(h), Size[h] <= Type(g)
      PROVE  state[h].queue_ticket \in here
  <2>1. at[g] <= state[h].queue_ticket
    BY <1>2, <1>5 DEF Rest, FirstInv
  <2> QED BY <1>2, <1>5, <2>1, WaitingInLine DEF Rest
<1>6. here # {} => R!Min(here) \in queue_grp_state /\ \A i \in here : R!Min(here) <= i
  BY <1>4, MinOfNaturals
<1>7. ~R!Waiting(g) /\ ~R!Waiting(g)' /\ ~R!Invited(g)'
  BY <1>2 DEF R!Waiting, R!Invited
<1>8. pc'[g] \in {"peek", "freeUp"}
  BY <1>2
<1> HIDE DEF here
<1>9. OneMoves'
  BY <1>1, <1>3, AloneMoves DEF Rest
<1>10. TurnsInv'
  <2>1. pc'[g] = "freeUp" => \A h \in Groups : Size[h] <= local'[g] => ~R!Waiting(h)
    BY <1>2, <1>3, <1>5, <1>7
  <2>2. TurnOf(g)'
    <3>1. TurnOf(g)
      BY TurnParts DEF Rest
    <3> QED BY <1>2, <1>8, <3>1 DEF TurnOf
  <2> QED BY <1>1, <1>2, <1>3, <1>7, <2>1, <2>2, AloneTurns DEF Rest
<1>11. OrderInv'
  BY <1>1, <1>2, <1>8, OrderStays, LabelSets DEF Rest, InQueue, NotGone, Requesting
<1>12. FirstInv'
  <2>1. \A h \in Groups \ {g} : R!Settled(h)
    BY <1>3, OthersSettled DEF Rest
  <2>2. pc'[g] \notin {"find", "call", "post", "serve", "assign"}
    BY <1>8
  <2>3. pc'[g] = "peek" => here # {} /\ at'[g] = R!Min(here) /\ queue_grp_state' = queue_grp_state
    BY <1>2
  <2> QED BY <1>1, <1>3, <1>5, <1>6, <1>7, <2>1, <2>2, <2>3, AloneFirst
<1> QED BY <1>9, <1>10, <1>11, <1>12 DEF Rest

(* The group at the ticket is called if it waits and fits, and passed over if  *)
(* not.                                                                        *)
LEMMA PeekRest ==
  ASSUME NEW g \in Groups, SeatInv, Rest, Peek(g)
  PROVE  Rest'
<1> DEFINE q == queue[at[g]]
           found == state[q].state_of_group = "WAIT" /\ Type(q) <= local[g]
<1>1. OwnStep(g) /\ OwnPlace(g)
  BY OwnSteps DEF SeatInv, leave_table, Peek, R!Peek, Resize, Call, R!Goto, OwnStep
<1>2. pc[g] = "peek" /\ pc \in [Groups -> Labels] /\ at \in [Groups -> Nat]
  BY DEF Peek, R!Peek, R!Goto, SeatInv, Shape
<1>3. pc[g] \in Alone /\ local[g] = Type(g) /\ Type(g)' = Type(g)
  BY <1>2, LabelSets DEF Alone, SeatInv, SizeInv, Type, Peek, R!Peek
<1>4. /\ at[g] \in queue_grp_state /\ q \in Groups /\ pc[q] \in NotGone
      /\ state[q].queue_ticket = at[g] /\ Placed(q) /\ q # g /\ q # NoGroup
  <2>1. at[g] \in queue_grp_state
    BY <1>2 DEF Rest, FirstInv
  <2>2. q \in Groups /\ pc[q] \in NotGone /\ state[q].queue_ticket = at[g] /\ Placed(q)
    BY <2>1, OrderParts DEF Rest, TicketOf
  <2> QED BY <1>2, <2>1, <2>2, GroupsAssumption DEF NotGone
<1>5. \A h \in Groups : ~Called(h)
  BY <1>2, <1>3, OthersSettled DEF Called, Rest, R!Settled, R!Waiting
<1>6. /\ found => pc'[g] = "call" /\ at'[g] = at[g]
      /\ ~found => pc'[g] = "find" /\ at'[g] = at[g] + 1
      /\ UNCHANGED <<table_available, my_turn_to_go, queue, queue_grp_state, new_group_index,
                     state, local>>
  BY <1>2, <1>4 DEF Peek, R!Peek, R!SizeThere, Type, R!Goto, R!sems, R!line
<1>7. found => R!Waiting(q) /\ Size[q] <= Type(g)
  <2>1. R!Settled(q)
    BY <1>3, <1>4, OthersSettled DEF Rest
  <2>2. found => R!Waiting(q)
    <3>1. R!Settled(q) => pc[q] \notin R!Joining
      BY LabelSets DEF R!Settled, R!Waiting
    <3> QED BY <1>4, <2>1, <3>1 DEF R!Settled, Placed, Requesting
  <2>3. R!Waiting(q) => Type(q) = Size[q]
    BY <1>4, <1>5, WaitingInLine DEF Rest
  <2> QED BY <1>3, <2>2, <2>3
<1>8. ASSUME NEW h \in Groups \ {g}, R!Waiting(h), Size[h] <= Type(g)
      PROVE  at'[g] <= state[h].queue_ticket
  <2>1. at[g] <= state[h].queue_ticket
    BY <1>2, <1>8 DEF Rest, FirstInv
  <2>2. state[h].queue_ticket = at[g] => h = q /\ found
    BY <1>3, <1>5, <1>8, WaitingInLine DEF Rest
  <2>3. state[h].queue_ticket \in Nat
    BY <1>8, WaitingInLine DEF Rest
  <2> QED BY <1>2, <1>6, <2>1, <2>2, <2>3
<1>9. ~R!Waiting(g)' /\ ~R!Invited(g)' /\ pc'[g] \in {"call", "find"}
  BY <1>6 DEF R!Waiting, R!Invited
<1>10. pc'[g] = "call" => queue'[at'[g]] = q /\ at'[g] = at[g] /\ found
  BY <1>6
<1> HIDE DEF found, q
<1>11. OneMoves'
  BY <1>1, <1>3, AloneMoves DEF Rest
<1>12. TurnsInv'
  BY <1>1, <1>2, <1>6, <1>9, TurnsStay DEF Rest, Deciding
<1>13. OrderInv'
  BY <1>1, <1>2, <1>6, <1>9, OrderStays, LabelSets DEF Rest, InQueue, NotGone, Requesting
<1>14. FirstInv'
  <2>1. \A h \in Groups \ {g} : R!Settled(h)
    BY <1>3, OthersSettled DEF Rest
  <2>2. pc'[g] \notin {"peek", "post", "serve", "assign"}
    BY <1>9
  <2>3. pc'[g] = "call" => LET h == queue'[at'[g]]
                           IN /\ h \in Groups \ {g} /\ R!Waiting(h) /\ Size[h] <= Type(g)'
                              /\ state[h].queue_ticket = at'[g]
    BY <1>3, <1>4, <1>7, <1>10
  <2> QED BY <1>1, <1>3, <1>8, <1>9, <2>1, <2>2, <2>3, AloneFirst
<1> QED BY <1>11, <1>12, <1>13, <1>14 DEF Rest

(* The leaver gives back its table and the lock.                               *)
LEMMA GiveRest ==
  ASSUME NEW g \in Groups, SeatInv, Rest, R!FreeUp(g, local[g]) \/ R!Left(g, local[g])
  PROVE  Rest'
<1>1. OwnStep(g) /\ OwnPlace(g)
  BY OwnSteps DEF SeatInv, leave_table, R!FreeUp, R!Left, Resize, Call, R!Goto, OwnStep
<1>2. /\ \/ pc[g] = "freeUp" /\ pc'[g] = "left" /\ R!FreeUp(g, local[g])
         \/ /\ pc[g] = "left" /\ pc'[g] = "gone"
            /\ UNCHANGED <<table_available, my_turn_to_go>>
      /\ UNCHANGED <<queue, queue_grp_state, new_group_index, state, local>>
  BY DEF R!FreeUp, R!Left, R!Goto, SeatInv, Shape, R!line
<1>3. Type(g)' = Type(g)
  BY <1>2 DEF Type
<1>4. OneMoves'
  BY <1>1, <1>2, <1>3, AloneMoves, ServingMoves DEF Rest
<1>5. TurnsInv'
  BY <1>1, <1>2, TurnsStay, FreeUpTurns DEF Rest, Deciding
<1>6. OrderInv'
  BY <1>1, <1>2, OrderStays, LabelSets DEF Rest, InQueue, NotGone, Requesting
<1>7. FirstInv'
  <2>1. /\ ~R!Waiting(g) /\ ~R!Waiting(g)' /\ ~R!Invited(g)'
        /\ pc'[g] \notin {"find", "peek", "call", "post", "serve", "assign"}
    BY <1>2 DEF R!Waiting, R!Invited
  <2> QED BY <1>1, <1>2, <1>3, <2>1, FirstKept DEF Rest
<1> QED BY <1>4, <1>5, <1>6, <1>7 DEF Rest

(* The leaver sends the first group that waits and fits to its table ...        *)
LEMMA ResizeRest ==
  ASSUME NEW g \in Groups, SeatInv, Rest, Resize(g)
  PROVE  Rest'
<1>1. /\ pc[g] = "call" /\ pc'[g] = "post"
      /\ \A h \in Groups \ {g} : pc'[h] = pc[h]
      /\ UNCHANGED <<table_available, queue, queue_grp_state, new_group_index, local, at,
                     my_turn_to_go>>
      /\ state' = [state EXCEPT ![queue[at[g]]].size_of_group = local[g]]
      /\ state \in [Groups -> R!GroupStates]
  BY DEF Resize, R!Goto, SeatInv, Shape, sems, line
<1>2. PICK q \in Groups : /\ q = queue[at[g]] /\ R!Waiting(q) /\ Size[q] <= Type(g)
                          /\ state[q].queue_ticket = at[g] /\ q # g
  BY <1>1 DEF Rest, FirstInv, R!Waiting
<1>3. /\ Type(q)' = local[g] /\ \A h \in Groups \ {q} : Type(h)' = Type(h)
      /\ \A h \in Groups : /\ state'[h].queue_ticket = state[h].queue_ticket
                           /\ state'[h].state_of_group = state[h].state_of_group
  BY <1>1, <1>2 DEF Type, R!GroupStates
<1>4. pc[g] \in Alone /\ local[g] = Type(g)
  BY <1>1, LabelSets DEF Alone, SeatInv, SizeInv
<1>5. OwnPlace(g)
  BY <1>1, <1>3 DEF OwnPlace
<1>6. \A h \in Groups : /\ ~R!Invited(h) /\ pc[h] # "freeUp"
                        /\ R!Waiting(h) => NoneFrom(Size[h], T - 1)
                        /\ h # g => R!Settled(h) /\ pc[h] \in {"idle", "seated", "gone", "turn"}
  BY <1>4, NoneInvited, OthersSettled DEF Rest
<1>7. \A h \in Groups : /\ ~R!Invited(h)' /\ pc'[h] # "freeUp"
                        /\ R!Waiting(h)' => R!Waiting(h) /\ h # g
                        /\ h # g => R!Settled(h)' /\ pc'[h] \in {"idle", "seated", "gone", "turn"}
  BY <1>1, <1>6 DEF R!Invited, R!Waiting, R!Settled
<1>8. OneMoves'
  BY <1>7 DEF OneMoves
<1>9. TurnsInv'
  <2>1. ASSUME NEW h \in Groups
        PROVE  TurnOf(h)'
    <3>1. TurnOf(h)
      BY TurnParts DEF Rest
    <3>2. pc'[h] \notin {"scan", "open", "close", "unlock"}
      BY <1>1, <1>7
    <3> QED BY <1>1, <3>1, <3>2 DEF TurnOf
  <2>2. ASSUME NEW h \in Groups, R!Waiting(h)'
        PROVE  NoneLeft(h)'
    <3>1. NoneFrom(Size[h], T - 1)
      BY <1>6, <1>7, <2>2
    <3> QED BY <1>1, <3>1 DEF NoneLeft, NoneFrom
  <2> QED BY <1>7, <2>1, <2>2 DEF TurnsInv, TurnOf, NoneLeft
<1>10. OrderInv'
  BY <1>1, <1>3, <1>5, OrderStays, LabelSets DEF Rest, InQueue, NotGone, Requesting
<1>11. FirstInv'
  <2>1. ASSUME NEW h \in Groups, NEW k \in Groups, R!Waiting(k)', Size[k] <= Type(h)'
        PROVE  /\ ~R!Invited(h)' /\ pc'[h] \notin {"serve", "assign"}
               /\ pc'[h] \in {"find", "peek", "call", "post"} => at'[h] <= state'[k].queue_ticket
    <3>1. CASE h # g
      BY <1>7, <3>1
    <3>2. CASE h = g
      <4>1. R!Waiting(k) /\ Size[k] <= Type(g)
        BY <1>2, <1>3, <1>7, <2>1, <3>2
      <4>2. at[g] <= state[k].queue_ticket
        BY <1>1, <4>1 DEF Rest, FirstInv
      <4> QED BY <1>1, <1>3, <1>7, <3>2, <4>2
    <3> QED BY <3>1, <3>2
  <2>2. /\ R!Waiting(q)' /\ Size[q] <= Type(g)' /\ state'[q].queue_ticket = at'[g]
        /\ Type(q)' = Type(g)' /\ q = queue'[at'[g]]
    BY <1>1, <1>2, <1>3, <1>4 DEF R!Waiting
  <2>3. \A h \in Groups : pc'[h] # "peek" /\ (pc'[h] \in {"call", "post"} => h = g)
    BY <1>1, <1>7
  <2> QED BY <2>1, <2>2, <2>3 DEF FirstInv
<1> QED BY <1>8, <1>9, <1>10, <1>11 DEF Rest

(* ... and calls it: it is the one to move, besides the leaver.                *)
LEMMA CallRest ==
  ASSUME NEW g \in Groups, SeatInv, Rest, Call(g)
  PROVE  Rest'
<1>1. /\ pc[g] = "post" /\ pc'[g] = "freeUp"
      /\ \A h \in Groups \ {g} : pc'[h] = pc[h]
      /\ UNCHANGED <<table_available, queue, queue_grp_state, new_group_index, local, at, state>>
      /\ my_turn_to_go' = [my_turn_to_go EXCEPT ![queue[at[g]]] = @ + 1]
      /\ my_turn_to_go \in [Groups -> Nat]
      /\ state \in [Groups -> R!GroupStates]
  BY DEF Call, R!Goto, sem_post, SeatInv, Shape, sems, line
<1>2. PICK q \in Groups : /\ q = queue[at[g]] /\ R!Waiting(q) /\ Size[q] <= Type(g)
                          /\ state[q].queue_ticket = at[g] /\ q # g /\ Type(q) = Type(g)
  BY <1>1 DEF Rest, FirstInv, R!Waiting
<1>3. /\ my_turn_to_go'[q] = 1 /\ pc'[q] = "turn"
      /\ \A h \in Groups \ {q} : my_turn_to_go'[h] = my_turn_to_go[h]
  BY <1>1, <1>2 DEF R!Waiting
<1>4. /\ \A h \in Groups : Type(h)' = Type(h)
      /\ \A h \in Groups : /\ state'[h].queue_ticket = state[h].queue_ticket
                           /\ state'[h].state_of_group = state[h].state_of_group
  BY <1>1 DEF Type
<1>5. Type(q)' = local[g] /\ pc[g] \in Alone /\ local[g] = Type(g) /\ Type(g) \in Size[g]..T-1 /\ Type(g) \in Nat
  <2>1. pc[g] \in Alone /\ pc[g] \in HaveDone
    BY <1>1, LabelSets DEF Alone
  <2>2. local[g] = Type(g) /\ Type(g) \in Size[g]..T-1
    BY <1>1, <2>1 DEF SeatInv, SizeInv
  <2>3. Type(g) \in Nat
    BY <1>1 DEF Type, R!GroupStates
  <2> QED BY <1>2, <1>4, <2>1, <2>2, <2>3
<1>6. OwnPlace(g)
  BY <1>1, <1>4 DEF OwnPlace
<1>7. \A h \in Groups : /\ ~R!Invited(h) /\ pc[h] # "freeUp"
                        /\ R!Waiting(h) => NoneFrom(Size[h], T - 1)
                        /\ h # g => R!Settled(h) /\ pc[h] \in {"idle", "seated", "gone", "turn"}
  BY <1>5, NoneInvited, OthersSettled DEF Rest
<1>8. R!Invited(q)' /\ \A h \in Groups : R!Invited(h)' => h = q
  BY <1>1, <1>3, <1>7 DEF R!Invited
<1>9. \A h \in Groups : R!Waiting(h)' => R!Waiting(h) /\ h # q /\ h # g
  BY <1>1, <1>3 DEF R!Waiting
<1>10. OneMoves'
  <2> SUFFICES ASSUME NEW h \in Groups, NEW k \in Groups, h # k
               PROVE  R!Settled(h)' \/ R!Settled(k)' \/ Follows(h, k)' \/ Follows(k, h)'
    BY DEF OneMoves
  <2>1. \A j \in Groups : j # g /\ j # q => R!Settled(j)'
    BY <1>1, <1>3, <1>7 DEF R!Settled, R!Waiting
  <2>2. Follows(q, g)'
    <3>1. Type(q)' = local'[g]
      BY <1>1, <1>5
    <3> QED BY <1>1, <1>8, <3>1 DEF Follows
  <2> QED BY <2>1, <2>2
<1>11. TurnsInv'
  <2>1. ASSUME NEW h \in Groups
        PROVE  TurnOf(h)'
    <3>1. TurnOf(h)
      BY TurnParts DEF Rest
    <3>2. pc'[h] \notin {"scan", "open", "close", "unlock"}
      BY <1>1, <1>7
    <3> QED BY <1>1, <1>2, <1>3, <3>1, <3>2 DEF TurnOf
  <2>2. ASSUME NEW h \in Groups, R!Invited(h)'
        PROVE  HasTable(h)'
    <3>1. h = q /\ local'[g] = Type(h)'
      BY <1>1, <1>5, <1>8, <2>2
    <3> QED BY <1>1, <3>1 DEF HasTable
  <2>3. ASSUME NEW h \in Groups, R!Waiting(h)'
        PROVE  NoneLeft(h)'
    <3>1. NoneFrom(Size[h], T - 1)
      BY <1>7, <1>9, <2>3
    <3> QED BY <1>1, <3>1 DEF NoneLeft, NoneFrom
  <2>4. ASSUME NEW h \in Groups, pc'[h] = "freeUp"
        PROVE  ForOne(h)'
    <3>1. h = g /\ local'[h] = local[g]
      BY <1>1, <1>7, <2>4
    <3>2. PICK n \in Size[g]..T-1 : n = Type(g)
      BY <1>5
    <3>3. n \in Size[q]..T-1
      BY <1>2, <3>2, SameConstants
    <3>4. table_available[n] = 0
      BY <1>2, <1>7, <3>3 DEF NoneFrom
    <3>5. table_available'[local'[h]] = 0 /\ Type(q)' = local'[h]
      BY <1>1, <1>4, <1>5, <3>1, <3>2, <3>4
    <3> QED BY <1>8, <3>5 DEF ForOne
  <2> QED BY <2>1, <2>2, <2>3, <2>4 DEF TurnsInv, TurnOf, HasTable, NoneLeft, ForOne
<1>12. OrderInv'
  BY <1>1, <1>4, <1>6, OrderStays, LabelSets DEF Rest, InQueue, NotGone, Requesting
<1>13. FirstInv'
  <2>1. ASSUME NEW h \in Groups, NEW k \in Groups, R!Waiting(k)', Size[k] <= Type(h)'
        PROVE  /\ R!Invited(h)' \/ pc'[h] \in {"serve", "assign"} =>
                    state'[h].queue_ticket < state'[k].queue_ticket
               /\ pc'[h] \in {"find", "peek", "call", "post"} => at'[h] <= state'[k].queue_ticket
    <3>1. k # q /\ k # g /\ R!Waiting(k)
      BY <1>9, <2>1
    <3>2. R!Invited(h)' => h = q
      BY <1>8
    <3>3. pc'[h] \notin {"serve", "assign", "find", "peek", "call", "post"}
      BY <1>1, <1>7
    <3>4. h = q => state[q].queue_ticket < state[k].queue_ticket
      <4>1. h = q => at[g] <= state[k].queue_ticket
        <5>1. h = q => Size[k] <= Type(g)
          BY <1>2, <1>4, <1>5, <2>1
        <5> QED BY <1>1, <3>1, <5>1 DEF Rest, FirstInv
      <4>2. state[q].queue_ticket # state[k].queue_ticket
        BY <1>2, <3>1, WaitingInLine DEF Rest
      <4>3. state[k].queue_ticket \in Nat /\ state[q].queue_ticket \in Nat
        BY <1>2, <3>1, WaitingInLine DEF Rest
      <4> QED BY <1>2, <4>1, <4>2, <4>3
    <3> QED BY <1>4, <3>2, <3>3, <3>4
  <2>2. ASSUME NEW h \in Groups
        PROVE  pc'[h] \notin {"peek", "call", "post"}
    BY <1>1, <1>7
  <2> QED BY <2>1, <2>2 DEF FirstInv
<1> QED BY <1>10, <1>11, <1>12, <1>13 DEF Rest

-----------------------------------------------------------------------------
(* The first state is as SeatInv says,                                         *)
LEMMA SeatInvStarts == Init => SeatInv
<1> SUFFICES ASSUME R!Init
             PROVE  SeatInv
  BY DEF Init
<1>1. /\ \A n, L : "idle" \notin L => At(n, L) = {}
      /\ Cardinality({}) = 0 /\ Cardinality(Groups) \in Nat
  BY FS_EmptySet, FS_CardinalityType, GroupsAssumption DEF At, R!Init
<1>2. /\ "idle" \notin HaveDone /\ "idle" \notin HaveTable /\ "idle" \notin R!AtSlot
      /\ "idle" \in Labels
  BY LabelSets
<1>3. num_tables \in [R!Types -> Nat]
  BY TypesAssumption, SameConstants
<1>4. Shape
  BY <1>1, <1>2, <1>3, SameConstants DEF R!Init, Shape, R!GroupStates, R!ERROR
<1>5. TablesConserved
  <2>1. \A n \in R!Types : Cardinality(At(n, HaveTable)) = 0 /\ num_tables[n] \in Nat
    BY <1>1, <1>2, <1>3
  <2> QED BY <2>1 DEF R!Init, TablesConserved
<1>6. SlotInv
  BY <1>1, <1>2 DEF R!Init, SlotInv
<1>7. SizeInv
  BY <1>2, LabelSets DEF R!Init, SizeInv, Unplaced
<1>8. R!LineInv
  <2>1. R!Counted = {}
    BY LabelSets DEF R!Init, R!Counted
  <2>2. R!Cardinality(R!Counted) = 0
    BY <1>1, <2>1, SameConstants
  <2> QED BY <2>2 DEF R!Init, R!LineInv
<1> QED BY <1>4, <1>5, <1>6, <1>7, <1>8 DEF SeatInv

(* ... and every step leaves it so, when the tables are for those sent there.  *)
LEMMA SeatInvStays ==
  SeatInv /\ OneMoves /\ TurnsInv /\ FirstInv /\ [Next]_vars => SeatInv'
<1> SUFFICES ASSUME SeatInv, OneMoves, TurnsInv, FirstInv, [Next]_vars
             PROVE  SeatInv'
  OBVIOUS
<1>1. ASSUME NEW g \in Groups, R!Enter(g) \/ R!Depart(g)
      PROVE  SeatInv'
  BY <1>1, CommandInv
<1>2. ASSUME NEW g \in Groups, request_for_table(g)
      PROVE  SeatInv'
  BY <1>2, RecordInv, ReadIndexInv, EnlistInv, CountInv, RequestInv, OpenInv, TableInv,
     AssignInv
  DEF request_for_table, R!enqueue
<1>3. ASSUME NEW g \in Groups, leave_table(g)
      PROVE  SeatInv'
  BY <1>3, LeaveInv, FreeInv, MarkInv, ResizeInv, CallInv, TableInv DEF leave_table
<1>4. CASE UNCHANGED vars
  <2>1. Shape' /\ \A n, L : At(n, L)' = At(n, L)
    BY <1>4 DEF SeatInv, Shape, At, Type, vars, sems, line
  <2>2. R!Counted' = R!Counted
    BY <1>4 DEF R!Counted, vars
  <2>3. TablesConserved'
    BY <1>4, <2>1 DEF SeatInv, TablesConserved, vars, sems
  <2>4. SlotInv' /\ SizeInv' /\ R!LineInv'
    BY <1>4, <2>1, <2>2 DEF SeatInv, SlotInv, SizeInv, Unplaced, Called, Type, R!LineInv,
       vars, line
  <2> QED BY <2>1, <2>3, <2>4 DEF SeatInv
<1> QED BY <1>1, <1>2, <1>3, <1>4 DEF Next

LEMMA RestStarts == Init => Rest
<1> SUFFICES ASSUME R!Init
             PROVE  Rest
  BY DEF Init
<1>1. /\ \A g \in Groups : pc[g] = "idle" /\ my_turn_to_go[g] = 0
                           /\ state[g].state_of_group = "ARRIVE"
      /\ queue_grp_state = {}
  BY DEF R!Init
<1>2. OneMoves /\ TurnsInv /\ FirstInv
  BY <1>1 DEF OneMoves, R!Settled, TurnsInv, FirstInv, R!Invited, R!Waiting
<1>3. OrderInv
  BY <1>1, LabelSets DEF OrderInv, R!Up, InQueue, NotGone, Requesting
<1> QED BY <1>2, <1>3 DEF Rest

LEMMA RestStays == ~Together /\ SeatInv /\ SeatInv' /\ Rest /\ [Next]_vars => Rest'
<1> SUFFICES ASSUME ~Together, SeatInv, SeatInv', Rest, [Next]_vars
             PROVE  Rest'
  OBVIOUS
<1>1. ASSUME NEW g \in Groups, R!Enter(g) \/ R!Depart(g)
      PROVE  Rest'
  BY <1>1, CommandRest
<1>2. ASSUME NEW g \in Groups, request_for_table(g)
      PROVE  Rest'
  BY <1>2, JoinRest, TurnRest, SeatRest DEF request_for_table
<1>3. ASSUME NEW g \in Groups, leave_table(g)
      PROVE  Rest'
  BY <1>3, LeaveRest, FindRest, PeekRest, ResizeRest, CallRest, GiveRest DEF leave_table
<1>4. CASE UNCHANGED vars
  <2>1. OneMoves' /\ TurnsInv'
    BY <1>4 DEF Rest, OneMoves, TurnsInv, NoneFrom, R!Settled, R!Waiting, R!Invited, Follows,
       Type, vars, sems
  <2>2. OrderInv' /\ FirstInv'
    BY <1>4 DEF Rest, OrderInv, R!Up, FirstInv, Requesting, R!Waiting, R!Invited, Type, vars, line
  <2> QED BY <2>1, <2>2 DEF Rest
<1> QED BY <1>1, <1>2, <1>3, <1>4 DEF Next

(* With one command of the driver at a time, one group moves, with the group   *)
(* it has called; a table is for the group that was sent there; and the first  *)
(* of those that wait and fit is the next to be called.                        *)
THEOREM QuietInvariant == ~Together => (Spec => []QuietInv)
<1> SUFFICES ASSUME ~Together
             PROVE  Spec => []QuietInv
  OBVIOUS
<1>1. QuietInv <=> SeatInv /\ Rest
  BY DEF QuietInv, Rest
<1>2. Init => QuietInv
  BY <1>1, SeatInvStarts, RestStarts
<1>3. QuietInv /\ [Next]_vars => QuietInv'
  <2> SUFFICES ASSUME QuietInv, [Next]_vars
               PROVE  QuietInv'
    OBVIOUS
  <2>1. SeatInv'
    BY SeatInvStays DEF QuietInv
  <2>2. Rest'
    BY <1>1, <2>1, RestStays
  <2> QED BY <2>1, <2>2 DEF QuietInv, Rest
<1> QED BY <1>2, <1>3, PTL DEF Spec

(* request_for_table blocks until there is a table, and no longer: when all    *)
(* threads are at rest, no group waits that some free table fits.              *)
THEOREM NoTableIsIdle == ~Together => (Spec => []NoIdleTable)
<1> SUFFICES ASSUME ~Together
             PROVE  Spec => []NoIdleTable
  OBVIOUS
<1>1. QuietInv => NoIdleTable
  <2> SUFFICES ASSUME QuietInv, \A h \in Groups : R!AtRest(h),
                      NEW g \in Groups, pc[g] \in {"turn", "take"},
                      NEW n \in Size[g]..T-1
               PROVE  table_available[n] = 0
    BY DEF NoIdleTable
  <2>1. \A h \in Groups : /\ pc[h] # "freeUp"
                          /\ pc[h] = "take" => table_available[Type(h)] = 0
                          /\ pc[h] = "turn" => my_turn_to_go[h] = 0
    BY DEF R!AtRest, Type
  <2>2. \A h \in Groups : ~R!Invited(h)
    <3> SUFFICES ASSUME NEW h \in Groups, R!Invited(h)
                 PROVE  FALSE
      OBVIOUS
    <3>1. table_available[Type(h)] > 0
      BY <2>1, TurnParts DEF QuietInv, HasTable
    <3> QED BY <2>1, <3>1 DEF R!Invited
  <2>3. NoneLeft(g)
    BY <2>1, <2>2, TurnParts DEF QuietInv, R!Waiting, R!Invited
  <2> QED BY <2>2, <2>3 DEF NoneLeft
<1> QED BY <1>1, QuietInvariant, PTL

(* The tables of all types up to one of them are among all the tables.         *)
LEMMA TablesWithin ==
  ASSUME NEW n \in R!Types, NEW m \in R!Types, m <= n
  PROVE  /\ R!Before(m) <= R!Before(n) /\ R!table_num(n) <= R!Before(T)
         /\ R!Before(T) \in Nat
<1>1. R!Before(m) <= R!Before(n)
  <2>1. m \in Int /\ n \in Int
    BY SameConstants
  <2> QED BY <2>1, TablesBefore
<1>2. R!table_num(n) <= R!Before(T) /\ R!Before(T) \in Nat
  <2>1. \A k \in 0..4 : k < T => num_tables[k] \in Nat
    BY TypesAssumption
  <2>2. T \in 1..5 /\ n \in 0..T-1
    BY TypesAssumption, SameConstants
  <2> QED BY <2>1, <2>2 DEF R!table_num, R!Before
<1> QED BY <1>1, <1>2

(* Groups that eat are at different tables, each at one with seats enough: the *)
(* error return of assign_table, and the slots past the tables of the type,    *)
(* are never reached.                                                          *)
THEOREM SeatsAreExclusive == ~Together => (Spec => []SeatsExclusive)
<1> SUFFICES ASSUME ~Together
             PROVE  Spec => []SeatsExclusive
  OBVIOUS
<1>1. QuietInv => SeatsExclusive
  <2> SUFFICES ASSUME SeatInv, NEW g \in Groups, R!AtTable(g)
               PROVE  /\ state[g].table_assigned \in R!Before(Size[g]) .. R!Before(T) - 1
                      /\ \A h \in Groups \ {g} :
                           R!AtTable(h) => state[h].table_assigned # state[g].table_assigned
    BY DEF SeatsExclusive, QuietInv
  <2>1. ASSUME NEW h \in Groups, R!AtTable(h)
        PROVE  /\ Type(h) \in R!Types /\ Size[h] \in R!Types /\ Size[h] <= Type(h)
               /\ h \in At(Type(h), R!AtSlot)
               /\ state[h].table_assigned \in R!Before(Type(h)) .. R!table_num(Type(h)) - 1
    <3>1. pc[h] \in R!AtSlot
      BY <2>1 DEF R!AtTable, SeatInv, SlotInv
    <3>2. PICK n \in R!Types : n = Type(h) /\ Size[h] <= n /\ Size[h] \in R!Types
      BY <3>1, SameConstants, LabelSets DEF SeatInv, SizeInv
    <3>3. h \in At(n, R!AtSlot)
      BY <3>1, <3>2 DEF At
    <3>4. state[h].table_assigned - R!Before(n) \in 0..num_tables[n]-1
      BY <3>2, <3>3 DEF SeatInv, SlotInv
    <3>5. state[h].table_assigned \in Int
      BY DEF SeatInv, Shape, R!GroupStates
    <3>6. state[h].table_assigned \in R!Before(n) .. R!table_num(n) - 1
      BY <3>4, <3>5, TablesBefore
    <3> QED BY <3>2, <3>3, <3>6
  <2>2. PICK n \in R!Types : n = Type(g)
    BY <2>1
  <2>3. state[g].table_assigned \in R!Before(Size[g]) .. R!Before(T) - 1
    <3>1. /\ Size[g] \in R!Types /\ Size[g] <= n
          /\ state[g].table_assigned \in R!Before(n) .. R!table_num(n) - 1
      BY <2>1, <2>2
    <3>2. /\ R!Before(Size[g]) <= R!Before(n) /\ R!table_num(n) <= R!Before(T)
          /\ R!Before(T) \in Nat
      BY <3>1, TablesWithin
    <3>3. R!Before(Size[g]) \in Nat /\ R!Before(n) \in Nat /\ R!table_num(n) \in Nat
      BY <3>1, TablesBefore
    <3> QED BY <3>1, <3>2, <3>3
  <2>4. ASSUME NEW h \in Groups \ {g}, R!AtTable(h)
        PROVE  state[h].table_assigned # state[g].table_assigned
    <3>1. PICK m \in R!Types : m = Type(h)
      BY <2>1, <2>4
    <3>2. /\ state[g].table_assigned \in R!Before(n) .. R!table_num(n) - 1
          /\ state[h].table_assigned \in R!Before(m) .. R!table_num(m) - 1
          /\ g \in At(n, R!AtSlot) /\ h \in At(m, R!AtSlot)
      BY <2>1, <2>2, <2>4, <3>1
    <3>3. CASE m = n
      BY <3>2, <3>3 DEF SeatInv, SlotInv
    <3>4. CASE m # n
      <4>1. m \in Int /\ n \in Int
        BY SameConstants
      <4>2. /\ n < m => R!table_num(n) <= R!Before(m)
            /\ m < n => R!table_num(m) <= R!Before(n)
        BY TablesBefore
      <4>3. /\ R!Before(n) \in Nat /\ R!Before(m) \in Nat
            /\ R!table_num(n) \in Nat /\ R!table_num(m) \in Nat
        BY TablesBefore
      <4> QED BY <3>2, <3>4, <4>1, <4>2, <4>3
    <3> QED BY <3>3, <3>4
  <2> QED BY <2>3, <2>4
<1> QED BY <1>1, QuietInvariant, PTL

-----------------------------------------------------------------------------
(* The promise.  The line of the groups by their tickets is that of            *)
(* RestaurantProofs, with what is proved of it there.                          *)

LEMMA LineFacts ==
  ASSUME NEW S, NEW tk, P!Tickets(S, tk)
  PROVE  /\ Cardinality(S) \in Nat
         /\ \A k \in 1..Cardinality(S) :
              P!LineOf(S, tk)[k] \in S /\ P!Rank(S, tk, P!LineOf(S, tk)[k]) = k
         /\ \A g \in S : /\ P!LineOf(S, tk)[P!Rank(S, tk, g)] = g
                         /\ P!Rank(S, tk, g) \in 1..Cardinality(S)
                         /\ \A h \in S : tk[h] < tk[g] => P!Rank(S, tk, h) < P!Rank(S, tk, g)
<1>1. P!Cardinality(S) = Cardinality(S) /\ IsFiniteSet(S)
  BY DEF P!Cardinality, Cardinality, P!Tickets, P!IsFiniteSet, IsFiniteSet
<1>2. Cardinality(S) \in Nat
  BY <1>1, FS_CardinalityType
<1>3. \A k \in 1..Cardinality(S) :
        P!LineOf(S, tk)[k] \in S /\ P!Rank(S, tk, P!LineOf(S, tk)[k]) = k
  BY <1>1, P!LineHas, SameConstants
<1>4. \A g \in S : P!LineOf(S, tk)[P!Rank(S, tk, g)] = g
  BY P!LineHas, SameConstants
<1>5. ASSUME NEW g \in S
      PROVE  /\ P!Rank(S, tk, g) \in 1..Cardinality(S)
             /\ \A h \in S : tk[h] < tk[g] => P!Rank(S, tk, h) < P!Rank(S, tk, g)
  BY <1>1, P!RankOrder, SameConstants
<1> QED BY <1>2, <1>3, <1>4, <1>5

LEMMA LineAgrees ==
  ASSUME NEW S, NEW tk, NEW uk, \A h \in S : tk[h] = uk[h]
  PROVE  P!LineOf(S, tk) = P!LineOf(S, uk)
BY P!LineAgrees, SameConstants

LEMMA LineAppend ==
  ASSUME NEW S, NEW tk, NEW g, P!Tickets(S \cup {g}, tk), g \notin S,
         \A h \in S : tk[h] < tk[g]
  PROVE  P!LineOf(S \cup {g}, tk) = Append(P!LineOf(S, tk), g)
BY P!LineAppend, SameConstants

LEMMA LineRemove ==
  ASSUME NEW S, NEW tk, P!Tickets(S, tk), NEW g \in S
  PROVE  P!LineOf(S \ {g}, tk) = Promise!RemoveAt(P!LineOf(S, tk), P!Rank(S, tk, g))
BY P!LineRemove, SameConstants DEF P!Promise!RemoveAt, Promise!RemoveAt

(* What the promise sees of the restaurant: the groups in the line by their    *)
(* tickets, and the tables of those that eat.                                  *)
TicketsOf(S, st) == [g \in S |-> st[g].queue_ticket]

LineNow == [k \in 1..Cardinality(InLine) |-> CHOOSE g \in InLine : Place(g) = k]
TableNow == [g \in {h \in Groups : R!AtTable(h)} |-> state[g].table_assigned]

LEMMA LineByTickets ==
  ASSUME NEW S, NEW st
  PROVE  [k \in 1..Cardinality(S) |->
            CHOOSE g \in S :
              Cardinality({h \in S : st[h].queue_ticket <= st[g].queue_ticket}) = k]
           = P!LineOf(S, TicketsOf(S, st))
<1>1. \A g \in S : Cardinality({h \in S : st[h].queue_ticket <= st[g].queue_ticket})
                     = P!Rank(S, TicketsOf(S, st), g)
  <2> SUFFICES ASSUME NEW g \in S
               PROVE  {h \in S : st[h].queue_ticket <= st[g].queue_ticket}
                        = {h \in S : TicketsOf(S, st)[h] <= TicketsOf(S, st)[g]}
    BY DEF P!Rank, P!Cardinality, Cardinality
  <2> QED BY DEF TicketsOf
<1> DEFINE Here(k) ==
             CHOOSE g \in S :
               Cardinality({h \in S : st[h].queue_ticket <= st[g].queue_ticket}) = k
           There(k) == CHOOSE g \in S : P!Rank(S, TicketsOf(S, st), g) = k
<1>2. ASSUME NEW k
      PROVE  Here(k) = There(k)
  BY <1>1
<1>3. [k \in 1..Cardinality(S) |-> Here(k)] = [k \in 1..Cardinality(S) |-> There(k)]
  <2> HIDE DEF Here, There
  <2> QED BY <1>2
<1>4. P!Cardinality(S) = Cardinality(S)
  BY DEF P!Cardinality, Cardinality
<1>5. P!LineOf(S, TicketsOf(S, st)) = [k \in 1..Cardinality(S) |-> There(k)]
  BY <1>4, Zenon DEF P!LineOf
<1> QED BY <1>3, <1>5

LEMMA LineThen ==
  /\ LineNow = P!LineOf(InLine, TicketsOf(InLine, state))
  /\ LineNow' = P!LineOf(InLine', TicketsOf(InLine', state'))
BY LineByTickets DEF LineNow, Place

(* Who is in the line is there once, by its ticket.                            *)
LEMMA LineTickets ==
  ASSUME SeatInv, OrderInv
  PROVE  /\ InLine = {g \in Groups : Requesting(g)}
         /\ P!Tickets(InLine, TicketsOf(InLine, state))
<1>1. InLine = {g \in Groups : Requesting(g)}
  BY LabelSets DEF InLine, Requesting, R!AtTable, SeatInv, SlotInv
<1>2. P!IsFiniteSet(InLine)
  <2>1. IsFiniteSet(InLine)
    BY <1>1, FS_Subset, GroupsAssumption
  <2> QED BY <2>1 DEF P!IsFiniteSet, IsFiniteSet
<1>3. \A g \in Groups : Requesting(g) =>
        state[g].queue_ticket \in Nat /\ queue[state[g].queue_ticket] = g
  <2> SUFFICES ASSUME NEW g \in Groups, Requesting(g)
               PROVE  state[g].queue_ticket \in Nat /\ queue[state[g].queue_ticket] = g
    OBVIOUS
  <2>1. pc[g] \in InQueue
    BY LabelSets DEF Requesting, InQueue
  <2>2. Placed(g)
    BY OrderParts
  <2> QED BY <2>1, <2>2 DEF Placed, SeatInv, Shape, R!GroupStates
<1> QED BY <1>1, <1>2, <1>3 DEF P!Tickets, TicketsOf

(* A step that the promise does not see.                                       *)
LEMMA PromiseStays ==
  ASSUME \A g \in Groups : /\ Requesting(g)' <=> Requesting(g)
                           /\ R!AtTable(g)' <=> R!AtTable(g)
                           /\ Requesting(g) => state'[g].queue_ticket = state[g].queue_ticket
                           /\ R!AtTable(g) => state'[g].table_assigned = state[g].table_assigned
  PROVE  UNCHANGED Promise!vars
<1>1. InLine' = InLine
  BY DEF InLine
<1>2. TicketsOf(InLine', state') = TicketsOf(InLine, state)
  BY <1>1 DEF TicketsOf, InLine
<1>3. LineNow' = LineNow
  BY <1>1, <1>2, LineThen
<1>4. TableNow' = TableNow
  BY DEF TableNow
<1> QED BY <1>3, <1>4 DEF Promise!vars, LineNow, TableNow

(* queue_grp_state[...] = GROUP_NOT_GONE: the group joins, behind all who are   *)
(* there.                                                                      *)
LEMMA ShowJoins ==
  ASSUME NEW g \in Groups, SeatInv, Rest, R!Show(g)
  PROVE  Promise!Join(g)
<1>1. /\ pc[g] = "show" /\ pc'[g] = "count" /\ state' = state
      /\ \A h \in Groups \ {g} : pc'[h] = pc[h]
  BY DEF R!Show, R!Goto, SeatInv, Shape
<1>2. /\ InLine = {h \in Groups : Requesting(h)}
      /\ P!Tickets(InLine, TicketsOf(InLine, state))
  BY LineTickets DEF Rest
<1>3. InLine' = InLine \cup {g} /\ g \notin InLine
  <2>1. \A h \in Groups : R!AtTable(h)' => pc[h] \in R!AtSlot
    BY <1>1 DEF R!AtTable, SeatInv, SlotInv
  <2>2. InLine' = {h \in Groups : Requesting(h)'}
    BY <1>1, <2>1, LabelSets DEF InLine, Requesting
  <2> QED BY <1>1, <1>2, <2>2 DEF Requesting
<1>4. ASSUME NEW h \in InLine
      PROVE  /\ state[h].queue_ticket < state[g].queue_ticket
             /\ state[h].queue_ticket \in Nat
  <2>1. h \in Groups \ {g} /\ Requesting(h)
    BY <1>2, <1>3
  <2>2. pc[h] \in InQueue
    BY <2>1, LabelSets DEF Requesting, InQueue
  <2>3. pc[g] \in R!Joining
    BY <1>1, LabelSets
  <2>4. state[h].queue_ticket \in Nat
    BY <2>1 DEF SeatInv, Shape, R!GroupStates
  <2> QED BY <2>1, <2>2, <2>3, <2>4, OthersBefore DEF Rest
<1> DEFINE tk == TicketsOf(InLine \cup {g}, state)
<1>5. LineNow' = P!LineOf(InLine \cup {g}, tk)
  BY <1>1, <1>3, LineThen
<1>6. P!Tickets(InLine \cup {g}, tk)
  <2>1. P!IsFiniteSet(InLine \cup {g})
    <3>1. IsFiniteSet(InLine \cup {g})
      BY <1>2, FS_Subset, GroupsAssumption
    <3> QED BY <3>1 DEF P!IsFiniteSet, IsFiniteSet
  <2>2. state[g].queue_ticket \in Nat
    BY DEF SeatInv, Shape, R!GroupStates
  <2>3. \A h, k \in InLine : state[h].queue_ticket = state[k].queue_ticket => h = k
    BY <1>2 DEF P!Tickets, TicketsOf
  <2>4. \A h, k \in InLine \cup {g} : state[h].queue_ticket = state[k].queue_ticket => h = k
    BY <1>4, <2>2, <2>3
  <2> QED BY <1>4, <2>1, <2>2, <2>4 DEF P!Tickets, TicketsOf
<1>7. /\ \A h \in InLine : tk[h] < tk[g]
      /\ P!LineOf(InLine, tk) = LineNow
  <2>1. \A h \in InLine : tk[h] < tk[g] /\ tk[h] = TicketsOf(InLine, state)[h]
    BY <1>4 DEF TicketsOf
  <2> QED BY <2>1, LineThen, LineAgrees
<1> HIDE DEF tk
<1>8. LineNow' = Append(LineNow, g)
  <2>1. P!LineOf(InLine \cup {g}, tk) = Append(P!LineOf(InLine, tk), g)
    BY <1>3, <1>6, <1>7, LineAppend
  <2> QED BY <1>5, <1>7, <2>1
<1>9. TableNow' = TableNow
  BY <1>1 DEF TableNow, R!AtTable
<1> QED BY <1>8, <1>9 DEF Promise!Join, LineNow, TableNow

(* free_table: the group has no table any more.                                *)
LEMMA FreeGoes ==
  ASSUME NEW g \in Groups, SeatInv, R!free_table(g)
  PROVE  Promise!Go(g)
<1>1. /\ pc[g] = "free" /\ pc'[g] = "mark" /\ state' = state
      /\ \A h \in Groups \ {g} : pc'[h] = pc[h]
  BY DEF R!free_table, R!Goto, SeatInv, Shape
<1>2. InLine' = InLine
  BY <1>1 DEF InLine, Requesting, R!AtTable
<1>3. LineNow' = LineNow
  BY <1>1, <1>2, LineThen
<1>4. \A h \in Groups : R!AtTable(h)' <=> R!AtTable(h) /\ h # g
  BY <1>1 DEF R!AtTable
<1>5. TableNow' = [h \in DOMAIN TableNow \ {g} |-> TableNow[h]]
  BY <1>1, <1>4 DEF TableNow
<1> QED BY <1>3, <1>5 DEF Promise!Go, LineNow, TableNow

(* assign_table: the group leaves the line for a table that nobody has, and    *)
(* nobody before it in the line fits there.                                    *)
LEMMA AssignSeats ==
  ASSUME NEW g \in Groups, SeatInv, Rest, SeatsExclusive', R!assign_table(g, Type(g))
  PROVE  \E n \in R!Types : \E i \in DOMAIN LineNow : Promise!Seat(i, n)
<1>1. PICK n \in R!Types : n = Type(g) /\ n \in Size[g]..T-1
  BY SameConstants DEF SeatInv, SizeInv, R!assign_table, R!Goto
<1>2. PICK s \in 0..num_tables[n]-1 : state'[g].table_assigned = R!Before(n) + s
  BY <1>1, Assigned
<1>3. /\ pc[g] = "assign" /\ pc'[g] = "served" /\ state'[g].state_of_group = "EAT"
      /\ \A h \in Groups \ {g} : pc'[h] = pc[h] /\ state'[h] = state[h]
      /\ state'[g].queue_ticket = state[g].queue_ticket
  <2>1. pc \in [Groups -> Labels]
    BY DEF SeatInv, Shape
  <2> QED BY <1>1, <2>1, Assigned DEF R!Goto
<1>4. /\ InLine = {h \in Groups : Requesting(h)}
      /\ P!Tickets(InLine, TicketsOf(InLine, state))
  BY LineTickets DEF Rest
<1>5. g \in InLine /\ InLine' = InLine \ {g}
  BY <1>3, <1>4 DEF InLine, Requesting, R!AtTable
<1> DEFINE tk == TicketsOf(InLine, state)
<1>6. Place(g) = P!Rank(InLine, tk, g)
  <2>1. {h \in InLine : state[h].queue_ticket <= state[g].queue_ticket}
          = {h \in InLine : tk[h] <= tk[g]}
    BY <1>5 DEF TicketsOf
  <2> QED BY <2>1 DEF Place, P!Rank, P!Cardinality, Cardinality
<1>7. /\ LineNow = P!LineOf(InLine, tk)
      /\ LineNow' = P!LineOf(InLine \ {g}, tk)
  <2>1. \A h \in InLine \ {g} : TicketsOf(InLine \ {g}, state')[h] = tk[h]
    BY <1>3, <1>4 DEF TicketsOf
  <2>2. P!LineOf(InLine \ {g}, TicketsOf(InLine \ {g}, state')) = P!LineOf(InLine \ {g}, tk)
    BY <2>1, LineAgrees
  <2> QED BY <1>5, <2>2, LineThen
<1>8. \A h \in InLine : h # g /\ Size[h] <= n => tk[g] < tk[h]
  <2> SUFFICES ASSUME NEW h \in Groups, Requesting(h), h # g, Size[h] <= Type(g)
               PROVE  state[g].queue_ticket < state[h].queue_ticket
    BY <1>1, <1>4, <1>5 DEF TicketsOf
  <2>1. R!Settled(h) \/ R!Settled(g) \/ Follows(g, h) \/ Follows(h, g)
    BY DEF Rest, OneMoves
  <2>2. R!Waiting(h)
    BY <1>3, <2>1 DEF R!Settled, R!Waiting, Follows, R!Invited, Requesting
  <2> QED BY <1>3, <2>2 DEF Rest, FirstInv
<1>9. P!Tickets(InLine, tk)
  BY <1>4
<1> HIDE DEF tk
<1>10. LineNow' = Promise!RemoveAt(LineNow, Place(g))
  BY <1>5, <1>6, <1>7, <1>9, LineRemove
<1>11. /\ \A k \in 1..Cardinality(InLine) :
             LineNow[k] \in InLine /\ P!Rank(InLine, tk, LineNow[k]) = k
       /\ LineNow[Place(g)] = g /\ DOMAIN LineNow = 1..Cardinality(InLine)
       /\ Place(g) \in 1..Cardinality(InLine) /\ Cardinality(InLine) \in Nat
  <2>1. DOMAIN LineNow = 1..Cardinality(InLine)
    BY DEF LineNow
  <2> QED BY <1>5, <1>6, <1>7, <1>9, <2>1, LineFacts
<1>12. ASSUME NEW j \in 1..Place(g)-1
       PROVE  LineNow[j] \in Groups /\ n \notin Size[LineNow[j]]..T-1
  <2>1. j \in 1..Cardinality(InLine) /\ j < Place(g)
    BY <1>11
  <2>2. LineNow[j] \in InLine /\ P!Rank(InLine, tk, LineNow[j]) = j
    BY <1>11, <2>1
  <2>3. tk[g] < tk[LineNow[j]] =>
          P!Rank(InLine, tk, g) < P!Rank(InLine, tk, LineNow[j])
    BY <1>5, <1>9, <2>2, LineFacts
  <2>4. LineNow[j] # g
    BY <1>6, <2>1, <2>2
  <2>5. ~(Size[LineNow[j]] <= n)
    BY <1>6, <1>8, <1>11, <2>1, <2>2, <2>3, <2>4
  <2> QED BY <1>4, <2>2, <2>5
<1>13. \E t \in (R!Before(n) .. R!table_num(n) - 1) \ {TableNow[h] : h \in DOMAIN TableNow} :
         TableNow' = [h \in DOMAIN TableNow \cup {g} |-> IF h = g THEN t ELSE TableNow[h]]
  <2> DEFINE t == state'[g].table_assigned
  <2>1. /\ R!AtTable(g)' /\ ~R!AtTable(g)
        /\ \A h \in Groups \ {g} : R!AtTable(h)' <=> R!AtTable(h)
    BY <1>3, <1>4, <1>5 DEF R!AtTable, InLine
  <2>2. t \in R!Before(n) .. R!table_num(n) - 1
    BY <1>2, TablesBefore
  <2>3. \A h \in Groups \ {g} : R!AtTable(h) => state[h].table_assigned # t
    BY <1>3, <2>1 DEF SeatsExclusive
  <2>4. t \notin {TableNow[h] : h \in DOMAIN TableNow}
    BY <2>1, <2>3 DEF TableNow
  <2>5. TableNow' = [h \in DOMAIN TableNow \cup {g} |-> IF h = g THEN t ELSE TableNow[h]]
    BY <1>3, <2>1 DEF TableNow
  <2> QED BY <2>2, <2>4, <2>5
<1>14. PICK i \in DOMAIN LineNow : i = Place(g)
  BY <1>11
<1>15. Promise!Seat(i, n)
  <2> DEFINE Fit == [h \in Groups |-> Size[h]..T-1]
             Tables == [m \in R!Types |-> R!Before(m) .. R!table_num(m) - 1]
  <2>1. n \in Fit[LineNow[i]] /\ \A j \in 1..i-1 : n \notin Fit[LineNow[j]]
    BY <1>1, <1>11, <1>12, <1>14
  <2>2. \E t \in Tables[n] \ {TableNow[h] : h \in DOMAIN TableNow} :
          TableNow' = [h \in DOMAIN TableNow \cup {LineNow[i]} |->
                         IF h = LineNow[i] THEN t ELSE TableNow[h]]
    <3>1. Tables[n] = R!Before(n) .. R!table_num(n) - 1
      OBVIOUS
    <3> HIDE DEF Tables
    <3> QED BY <1>11, <1>13, <1>14, <3>1
  <2>3. LineNow' = Promise!RemoveAt(LineNow, i)
    BY <1>10, <1>14
  <2> QED BY <2>1, <2>2, <2>3, Zenon DEF Promise!Seat, LineNow, TableNow
<1> QED BY <1>15

(* Every other step leaves the line and the tables alone.                      *)
LEMMA OtherStays ==
  ASSUME NEW g \in Groups, SeatInv,
         R!Enter(g) \/ R!Depart(g) \/ request_for_table(g) \/ leave_table(g),
         ~R!Show(g), ~R!assign_table(g, Type(g)), ~R!free_table(g)
  PROVE  UNCHANGED Promise!vars
<1>1. /\ pc \in [Groups -> Labels] /\ state \in [Groups -> R!GroupStates]
      /\ \A h \in Groups : state[h].state_of_group = "EAT" => pc[h] \in R!AtSlot \cup {"mark"}
  BY DEF SeatInv, Shape, SlotInv
<1>2. CASE R!Record(g) \/ R!Mark(g)
  <2>1. /\ \/ pc[g] = "enter" /\ pc'[g] = "enlist" /\ state'[g].state_of_group = "WAIT"
           \/ pc[g] = "mark" /\ pc'[g] = "find" /\ state'[g].state_of_group = "LEAVE"
        /\ \A h \in Groups \ {g} : pc'[h] = pc[h] /\ state'[h] = state[h]
    BY <1>1, <1>2 DEF R!Record, R!Mark, R!Goto, R!GroupStates
  <2>2. ~R!AtTable(g) /\ ~R!AtTable(g)' /\ ~Requesting(g) /\ ~Requesting(g)'
    BY <1>1, <2>1, LabelSets DEF R!AtTable, Requesting
  <2> QED BY <2>1, <2>2, PromiseStays DEF R!AtTable, Requesting
<1>3. CASE ~R!Record(g) /\ ~R!Mark(g)
  <2>1. \A h \in Groups : /\ state'[h].queue_ticket = state[h].queue_ticket
                          /\ state'[h].table_assigned = state[h].table_assigned
                          /\ state'[h].state_of_group = state[h].state_of_group
    <3>1. CASE OpenTurn(g) \/ Resize(g)
      BY <1>1, <3>1 DEF OpenTurn, Resize, R!GroupStates
    <3>2. CASE ~OpenTurn(g) /\ ~Resize(g)
      BY <1>3, <3>2 DEF R!Enter, R!Depart, R!Command, request_for_table, R!enqueue, R!ReadIndex,
         R!Enlist, R!Count, LookFirst, Scan, CloseTurn, R!Unlock, AwaitTurn, TakeTable, R!Serve,
         R!Served, leave_table, R!Leave, R!Find, R!FindNext, Peek, R!Peek, Call, R!FreeUp, R!Left
    <3> QED BY <3>1, <3>2
  <2>2. /\ \A h \in Groups \ {g} : pc'[h] = pc[h]
        /\ pc[g] # "mark" /\ pc'[g] # "mark" /\ (Requesting(g)' <=> Requesting(g))
    <3>1. CASE R!Enter(g) \/ R!Depart(g)
      BY <1>1, <3>1 DEF R!Enter, R!Depart, R!Command, R!Goto, Requesting
    <3>2. CASE request_for_table(g)
      BY <1>1, <1>3, <3>2 DEF request_for_table, R!enqueue, R!ReadIndex, R!Enlist, R!Count,
         LookFirst, Scan, OpenTurn, CloseTurn, R!Unlock, AwaitTurn, TakeTable, R!Serve, R!Served,
         R!Goto, Requesting
    <3>3. CASE leave_table(g)
      BY <1>1, <1>3, <3>3 DEF leave_table, R!Leave, R!Find, R!FindNext, Peek, R!Peek,
         Resize, Call, R!FreeUp, R!Left, R!Goto, Requesting
    <3> QED BY <3>1, <3>2, <3>3
  <2>3. \A h \in Groups : /\ Requesting(h)' <=> Requesting(h)
                          /\ R!AtTable(h)' <=> R!AtTable(h)
    BY <2>1, <2>2 DEF R!AtTable, Requesting
  <2> QED BY <2>1, <2>3, PromiseStays
<1> QED BY <1>2, <1>3

LEMMA PromiseStep ==
  ASSUME SeatInv, Rest, SeatsExclusive', Next
  PROVE  [Promise!Next]_(Promise!vars)
<1>1. PICK g \in Groups : R!Enter(g) \/ R!Depart(g) \/ request_for_table(g) \/ leave_table(g)
  BY DEF Next
<1>2. CASE R!Show(g)
  <2>1. Promise!Join(g)
    BY <1>2, ShowJoins
  <2> QED BY <2>1 DEF Promise!Next
<1>3. CASE R!assign_table(g, Type(g))
  <2>1. \E i \in DOMAIN LineNow,
           n \in DOMAIN [m \in R!Types |-> R!Before(m) .. R!table_num(m) - 1] :
          Promise!Seat(i, n)
    <3>1. DOMAIN [m \in R!Types |-> R!Before(m) .. R!table_num(m) - 1] = R!Types
      OBVIOUS
    <3> QED BY <1>3, <3>1, AssignSeats, Zenon
  <2> QED BY <2>1, Zenon DEF Promise!Next, LineNow
<1>4. CASE R!free_table(g)
  <2>1. Promise!Go(g)
    BY <1>4, FreeGoes
  <2> QED BY <2>1 DEF Promise!Next
<1>5. CASE ~R!Show(g) /\ ~R!assign_table(g, Type(g)) /\ ~R!free_table(g)
  BY <1>1, <1>5, OtherStays
<1> QED BY <1>2, <1>3, <1>4, <1>5

(* One command at a time, the restaurant seats the groups first come, first    *)
(* served among those that a table fits, each at a table that nobody has.      *)
THEOREM RestaurantKeepsPromise == ~Together => (Spec => ImplementsSeating)
<1> SUFFICES ASSUME ~Together
             PROVE  Spec => ImplementsSeating
  OBVIOUS
<1>1. Init => Promise!Init
  <2> SUFFICES ASSUME R!Init
               PROVE  LineNow = <<>> /\ TableNow = <<>>
    BY DEF Init, Promise!Init, LineNow, TableNow
  <2>1. InLine = {}
    BY DEF R!Init, InLine, Requesting
  <2>2. {h \in Groups : R!AtTable(h)} = {}
    BY DEF R!Init, R!AtTable
  <2>3. 1..Cardinality(InLine) = {}
    BY <2>1, FS_EmptySet
  <2> QED BY <2>2, <2>3 DEF LineNow, TableNow
<1>2. QuietInv /\ SeatsExclusive' /\ [Next]_vars => [Promise!Next]_(Promise!vars)
  <2> SUFFICES ASSUME QuietInv, SeatsExclusive', [Next]_vars
               PROVE  [Promise!Next]_(Promise!vars)
    OBVIOUS
  <2>1. CASE UNCHANGED vars
    BY <2>1, PromiseStays DEF vars, Requesting, R!AtTable
  <2>2. CASE Next
    BY <2>2, PromiseStep DEF QuietInv, Rest
  <2> QED BY <2>1, <2>2
<1>3. Spec => []QuietInv
  BY QuietInvariant
<1>4. Spec => []SeatsExclusive
  BY SeatsAreExclusive
<1> QED BY <1>1, <1>2, <1>3, <1>4, PTL DEF Spec, ImplementsSeating, Promise!Spec

=============================================================================
