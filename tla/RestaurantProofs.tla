-------------------------- MODULE RestaurantProofs --------------------------
(* Proofs about Restaurant, for any groups and tables: first about its tables, *)
(* for any interleaving; then about its line and its promise, for a driver     *)
(* that gives one command at a time.                                           *)
EXTENDS Restaurant, FiniteSetTheorems, SequenceTheorems, WellFoundedInduction, TLAPS

-----------------------------------------------------------------------------
(* Numbers and tables                                                          *)

(* Min returns the least element of a set of naturals.                         *)
LEMMA MinOfNaturals ==
  ASSUME NEW S \in SUBSET Nat, S # {}
  PROVE  Min(S) \in S /\ \A y \in S : Min(S) <= y
<1> DEFINE R == {ss \in Nat \X Nat : ss[1] < ss[2]}
<1>1. R = OpToRel(<, Nat)
  BY Zenon DEF OpToRel
<1>2. IsWellFoundedOn(R, Nat)
  BY <1>1, NatLessThanWellFounded, Zenon
<1>3. PICK x \in S : \A y \in S : <<y, x>> \notin R
  <2> HIDE DEF R
  <2> QED BY <1>2, WFMin
<1>4. \A y \in S : x <= y
  <2> SUFFICES ASSUME NEW y \in S, y < x
               PROVE  FALSE
    OBVIOUS
  <2>1. <<y, x>> \in {ss \in Nat \X Nat : ss[1] < ss[2]}
    OBVIOUS
  <2> QED BY <1>3, <2>1
<1> QED BY <1>4 DEF Min

(* The slots of k tables.                                                      *)
LEMMA SlotCount ==
  ASSUME NEW k \in Nat
  PROVE  IsFiniteSet(0..k-1) /\ Cardinality(0..k-1) = k
<1>1. 0 \in Int /\ k - 1 \in Int
  OBVIOUS
<1>2. /\ IsFiniteSet(0..k-1)
      /\ Cardinality(0..k-1) = IF 0 > k - 1 THEN 0 ELSE (k - 1) - 0 + 1
  BY <1>1, FS_Interval
<1> QED BY <1>2

(* restaurant_init numbers the tables of smaller types first.                  *)
LEMMA TablesBefore ==
  /\ \A n \in Types : /\ num_tables[n] \in Nat /\ Before(n) \in Nat
                      /\ table_num(n) = Before(n) + num_tables[n]
  /\ \A n, m \in Types : n < m => table_num(n) <= Before(m)
<1> DEFINE tables(n, k) == IF k < n THEN num_tables[k] ELSE 0
<1>1. T \in Nat /\ T <= 5 /\ \A n \in Types : num_tables[n] \in Nat
  BY TypesAssumption DEF Types
<1>2. \A n \in Types, k \in 0..4 : tables(n, k) \in Nat
  BY <1>1 DEF Types
<1>3. \A n \in Types :
        Before(n) = tables(n, 0) + tables(n, 1) + tables(n, 2) + tables(n, 3) + tables(n, 4)
  BY DEF Before
<1>4. \A n \in Types : Before(n) \in Nat /\ num_tables[n] \in Nat
  <2> HIDE DEF tables
  <2> QED BY <1>1, <1>2, <1>3
<1>5. ASSUME NEW n \in Types, NEW m \in Types, n < m
      PROVE  Before(n) + num_tables[n] <= Before(m)
  <2>1. /\ \A k \in 0..4 : k < n => tables(m, k) = tables(n, k)
        /\ \A k \in 0..4 : k >= n => tables(n, k) = 0
        /\ tables(m, n) = num_tables[n]
    BY <1>5, <1>1 DEF Types
  <2>2. n \in 0..4
    BY <1>1 DEF Types
  <2> HIDE DEF tables
  <2> QED BY <1>1, <1>2, <1>3, <2>1, <2>2
<1> QED BY <1>4, <1>5 DEF table_num

(* What a thread that moves from one label to another does to the groups of a  *)
(* size at the labels L.                                                       *)
LEMMA MoveAt ==
  ASSUME NEW g \in Groups, NEW from, NEW to, NEW L,
         pc \in [Groups -> Labels], Goto(g, from, to)
  PROVE  /\ \A n : Size[g] # n => At(n, L)' = At(n, L)
         /\ (from \in L <=> to \in L) => \A n : At(n, L)' = At(n, L)
         /\ from \notin L /\ to \in L => /\ At(Size[g], L)' = At(Size[g], L) \cup {g}
                                         /\ g \notin At(Size[g], L)
         /\ from \in L /\ to \notin L => /\ At(Size[g], L)' = At(Size[g], L) \ {g}
                                         /\ g \in At(Size[g], L)
  BY DEF Goto, At

(* The groups of a size at some labels are finitely many ...                   *)
LEMMA AtFinite ==
  ASSUME NEW n, NEW L
  PROVE  IsFiniteSet(At(n, L)) /\ Cardinality(At(n, L)) \in Nat
<1>1. At(n, L) \subseteq Groups  BY DEF At
<1> QED BY <1>1, FS_Subset, FS_CardinalityType, GroupsAssumption

(* ... and what such a step does to how many they are.                         *)
LEMMA MoveCard ==
  ASSUME NEW g \in Groups, NEW from, NEW to, NEW L,
         pc \in [Groups -> Labels], Goto(g, from, to)
  PROVE  LET k == Cardinality(At(Size[g], L))
         IN /\ from \notin L /\ to \in L => Cardinality(At(Size[g], L)') = k + 1
            /\ from \in L /\ to \notin L => Cardinality(At(Size[g], L)') = k - 1 /\ k > 0
<1> DEFINE S == At(Size[g], L)
           U == At(Size[g], L)'
<1>1. IsFiniteSet(S) /\ Cardinality(S) \in Nat
  BY AtFinite
<1>2. from \notin L /\ to \in L => U = S \cup {g} /\ g \notin S
  BY MoveAt
<1>3. from \in L /\ to \notin L => U = S \ {g} /\ g \in S
  BY MoveAt
<1> HIDE DEF S, U
<1>4. g \notin S => Cardinality(S \cup {g}) = Cardinality(S) + 1
  BY <1>1, FS_AddElement
<1>5. g \in S => Cardinality(S \ {g}) = Cardinality(S) - 1
  BY <1>1, FS_RemoveElement
<1>6. g \in S => Cardinality(S) > 0
  BY <1>1, FS_EmptySet
<1>7. /\ from \notin L /\ to \in L => Cardinality(U) = Cardinality(S) + 1
      /\ from \in L /\ to \notin L => Cardinality(U) = Cardinality(S) - 1 /\ Cardinality(S) > 0
  BY <1>1, <1>2, <1>3, <1>4, <1>5, <1>6
<1> QED BY <1>7 DEF S, U

(* A lock that a step leaves alone.                                            *)
LEMMA LockStays ==
  ASSUME NEW g \in Groups, NEW from, NEW to, NEW L, NEW s,
         pc \in [Groups -> Labels], Goto(g, from, to),
         LockInv(s, L), from \in L <=> to \in L
  PROVE  \A n \in Types : OneUnit(s[n], At(n, L)')
  BY MoveAt DEF LockInv

(* A lock that a step takes was free, and is with the thread afterwards.      *)
LEMMA LockTaken ==
  ASSUME NEW g \in Groups, NEW from, NEW to, NEW L, NEW s, NEW t,
         pc \in [Groups -> Labels], Goto(g, from, to), s \in [Types -> Nat],
         LockInv(s, L), from \notin L, to \in L,
         s[Size[g]] > 0, t = [s EXCEPT ![Size[g]] = @ - 1]
  PROVE  \A n \in Types : OneUnit(t[n], At(n, L)')
<1> SUFFICES ASSUME NEW n \in Types
             PROVE  OneUnit(t[n], At(n, L)')
  OBVIOUS
<1>1. OneUnit(s[n], At(n, L))
  BY DEF LockInv
<1>2. CASE n = Size[g]
  <2>1. At(n, L)' = At(n, L) \cup {g}
    BY <1>2, MoveAt
  <2>2. s[n] = 1 /\ At(n, L) = {} /\ t[n] = 0
    BY <1>1, <1>2 DEF OneUnit
  <2> QED BY <2>1, <2>2 DEF OneUnit
<1>3. CASE n # Size[g]
  BY <1>1, <1>3, MoveAt
<1> QED BY <1>2, <1>3

(* A lock that a step gives back was with the thread, and is free afterwards.  *)
LEMMA LockGiven ==
  ASSUME NEW g \in Groups, NEW from, NEW to, NEW L, NEW s, NEW t,
         pc \in [Groups -> Labels], Goto(g, from, to), s \in [Types -> Nat],
         LockInv(s, L), from \in L, to \notin L,
         t = [s EXCEPT ![Size[g]] = @ + 1]
  PROVE  \A n \in Types : OneUnit(t[n], At(n, L)')
<1> SUFFICES ASSUME NEW n \in Types
             PROVE  OneUnit(t[n], At(n, L)')
  OBVIOUS
<1>1. OneUnit(s[n], At(n, L))
  BY DEF LockInv
<1>2. CASE n = Size[g]
  <2>1. At(n, L)' = At(n, L) \ {g} /\ g \in At(n, L)
    BY <1>2, MoveAt
  <2>2. s[n] = 0 /\ At(n, L) = {g} /\ t[n] = 1
    BY <1>1, <1>2, <2>1 DEF OneUnit
  <2> QED BY <2>1, <2>2 DEF OneUnit
<1>3. CASE n # Size[g]
  BY <1>1, <1>3, MoveAt
<1> QED BY <1>2, <1>3

(* A thread that stays within HaveTable, or out of it, and leaves              *)
(* table_available alone conserves the tables.                                 *)
LEMMA TablesStay ==
  ASSUME NEW g \in Groups, NEW from, NEW to,
         pc \in [Groups -> Labels], Goto(g, from, to), TablesConserved,
         table_available' = table_available, from \in HaveTable <=> to \in HaveTable
  PROVE  TablesConserved'
<1>1. \A n : At(n, HaveTable)' = At(n, HaveTable)
  BY MoveAt
<1> QED BY <1>1 DEF TablesConserved

(* A thread that takes a table off table_available has one more in hand.       *)
LEMMA TableTaken ==
  ASSUME NEW g \in Groups, NEW from, NEW to, pc \in [Groups -> Labels],
         Goto(g, from, to), TablesConserved, table_available \in [Types -> Nat],
         table_available' = [table_available EXCEPT ![Size[g]] = @ - 1],
         from \notin HaveTable, to \in HaveTable
  PROVE  TablesConserved'
<1> SUFFICES ASSUME NEW n \in Types
             PROVE  table_available'[n] + Cardinality(At(n, HaveTable)') = num_tables[n]
  BY DEF TablesConserved
<1>1. Cardinality(At(n, HaveTable)) \in Nat
  BY AtFinite
<1>2. table_available[n] + Cardinality(At(n, HaveTable)) = num_tables[n]
  BY DEF TablesConserved
<1>3. CASE n = Size[g]
  <2>1. Cardinality(At(n, HaveTable)') = Cardinality(At(n, HaveTable)) + 1
    BY <1>3, MoveCard
  <2> QED BY <1>1, <1>2, <1>3, <2>1
<1>4. CASE n # Size[g]
  BY <1>2, <1>4, MoveAt
<1> QED BY <1>3, <1>4

(* A thread that gives a table back to table_available has one less in hand.   *)
LEMMA TableGiven ==
  ASSUME NEW g \in Groups, NEW from, NEW to, pc \in [Groups -> Labels],
         Goto(g, from, to), TablesConserved, table_available \in [Types -> Nat],
         table_available' = [table_available EXCEPT ![Size[g]] = @ + 1],
         from \in HaveTable, to \notin HaveTable
  PROVE  TablesConserved'
<1> SUFFICES ASSUME NEW n \in Types
             PROVE  table_available'[n] + Cardinality(At(n, HaveTable)') = num_tables[n]
  BY DEF TablesConserved
<1>1. Cardinality(At(n, HaveTable)) \in Nat
  BY AtFinite
<1>2. table_available[n] + Cardinality(At(n, HaveTable)) = num_tables[n]
  BY DEF TablesConserved
<1>3. CASE n = Size[g]
  <2>1. Cardinality(At(n, HaveTable)') = Cardinality(At(n, HaveTable)) - 1
    BY <1>3, MoveCard
  <2> QED BY <1>1, <1>2, <1>3, <2>1
<1>4. CASE n # Size[g]
  BY <1>2, <1>4, MoveAt
<1> QED BY <1>3, <1>4

(* A step that changes no slot, no table of a group and who sits at a table    *)
(* keeps the slots right.                                                      *)
LEMMA SlotsStay ==
  ASSUME NEW g \in Groups, NEW from, NEW to,
         pc \in [Groups -> Labels], Goto(g, from, to), SlotInv,
         table_state' = table_state, from \in AtSlot <=> to \in AtSlot,
         \A h \in Groups : state'[h].table_assigned = state[h].table_assigned,
         \A h \in Groups : state'[h].state_of_group = "EAT" =>
                            state[h].state_of_group = "EAT" /\ (h = g => from # "mark")
  PROVE  SlotInv'
<1>0. \A n : At(n, AtSlot) \subseteq Groups
  BY DEF At
<1>1. \A n : At(n, AtSlot)' = At(n, AtSlot)
  BY MoveAt
<1>2. ASSUME NEW h \in Groups, state'[h].state_of_group = "EAT"
      PROVE  pc'[h] \in AtSlot \cup {"mark"}
  BY <1>2 DEF SlotInv, Goto
<1>3. ASSUME NEW n \in Types
      PROVE  /\ table_state'[n] \subseteq 0..num_tables[n]-1
             /\ Cardinality(table_state'[n]) = Cardinality(At(n, AtSlot)')
             /\ \A h \in At(n, AtSlot)' :
                  /\ state'[h].table_assigned - Before(n) \in table_state'[n]
                  /\ \A k \in At(n, AtSlot)' \ {h} :
                       state'[k].table_assigned # state'[h].table_assigned
  BY <1>0, <1>1 DEF SlotInv
<1> QED BY <1>2, <1>3 DEF SlotInv

(* A step that changes no size_of_group and has no thread remember one.        *)
LEMMA SizesStay ==
  ASSUME NEW g \in Groups, NEW from, NEW to,
         pc \in [Groups -> Labels], Goto(g, from, to), SizeInv,
         \A h \in Groups : state'[h].size_of_group = state[h].size_of_group,
         from \in {"idle", "enter"} => to \in {"idle", "enter"},
         \A h \in Groups \ {g} : local'[h] = local[h],
         \/ local' = local /\ from \in HaveDone
         \/ to \notin HaveDone
  PROVE  SizeInv'
<1> SUFFICES ASSUME NEW h \in Groups
             PROVE  /\ pc'[h] \notin {"idle", "enter"} => state'[h].size_of_group = Size[h]
                    /\ pc'[h] \in HaveDone => local'[h] = Size[h]
  BY DEF SizeInv
<1>1. pc'[g] = to /\ pc[g] = from /\ (h # g => pc'[h] = pc[h])
  BY DEF Goto
<1> QED BY <1>1 DEF SizeInv

(* A step that leaves the queue and its index alone, by a thread that takes up *)
(* no index.                                                                   *)
LEMMA LineStays ==
  ASSUME NEW g \in Groups, NEW from, NEW to,
         pc \in [Groups -> Labels], Goto(g, from, to), LineInv,
         queue' = queue, new_group_index' = new_group_index,
         \A h \in Groups \ {g} : at'[h] = at[h],
         to \notin {"put", "show", "add", "peek", "call"},
         from \in Uncounted <=> to \in Uncounted
  PROVE  LineInv'
<1>1. Counted' = Counted
  BY DEF Counted, Goto
<1>2. \A h \in Groups : pc'[h] \in {"put", "show", "add", "peek", "call"} =>
                           pc'[h] = pc[h] /\ at'[h] = at[h]
  BY DEF Goto
<1> QED BY <1>1, <1>2 DEF LineInv

(* on_enqueue and the first lines of request_for_table, with the mutex taken.  *)
LEMMA RecordInv ==
  ASSUME NEW g \in Groups, SeatInv, Record(g)
  PROVE  SeatInv'
<1>1. /\ Size[g] \in Types /\ Goto(g, "enter", "enlist") /\ pc \in [Groups -> Labels]
      /\ Shape /\ mutex \in [Types -> Nat]
  BY GroupSizeAssumption DEF Record, Types, SeatInv, Shape
<1>2. /\ UNCHANGED <<customer_serve, customer_done, table_available, table_state, queue,
                     queue_grp_state, new_group_index, my_turn_to_go, local, at>>
      /\ mutex[Size[g]] > 0 /\ mutex' = [mutex EXCEPT ![Size[g]] = @ - 1]
  BY DEF Record, sem_wait, line
<1>3. /\ state' \in [Groups -> GroupStates]
      /\ state'[g].state_of_group = "WAIT" /\ state'[g].size_of_group = Size[g]
      /\ state'[g].table_assigned = state[g].table_assigned
      /\ \A h \in Groups \ {g} : state'[h] = state[h]
  <2> DEFINE new == [state[g] EXCEPT !.state_of_group = "WAIT",
                                     !.queue_ticket = new_group_index,
                                     !.size_of_group = Size[g]]
  <2>1. state' = [state EXCEPT ![g] = new]
    BY DEF Record
  <2>2. state[g] \in GroupStates /\ new_group_index \in Nat /\ Size[g] \in Nat
    BY <1>1 DEF Shape, Types
  <2>3. /\ new \in GroupStates
        /\ new.state_of_group = "WAIT" /\ new.size_of_group = Size[g]
        /\ new.table_assigned = state[g].table_assigned
    BY <2>2 DEF GroupStates
  <2> HIDE DEF new
  <2> QED BY <1>1, <2>1, <2>3 DEF Shape
<1>4. Shape'
  <2>1. mutex' \in [Types -> Nat]
    BY <1>1, <1>2
  <2>2. pc' \in [Groups -> Labels]
    BY <1>1 DEF Goto, Labels, HaveMutex, Joining
  <2> QED BY <1>1, <1>2, <1>3, <2>1, <2>2 DEF Shape
<1>5. LockInv(mutex, HaveMutex)'
  BY <1>1, <1>2, LockTaken DEF SeatInv, Shape, LockInv, HaveMutex, Joining
<1>6. LockInv(customer_serve, HaveServe)'
  BY <1>1, <1>2, LockStays DEF SeatInv, LockInv, HaveServe
<1>7. LockInv(customer_done, HaveDone)'
  BY <1>1, <1>2, LockStays DEF SeatInv, LockInv, HaveDone
<1>8. TablesConserved'
  BY <1>1, <1>2, TablesStay DEF SeatInv, HaveTable, AtSlot, HaveDone
<1>9. SlotInv'
  BY <1>1, <1>2, <1>3, SlotsStay DEF SeatInv, AtSlot
<1>10. SizeInv'
  BY <1>1, <1>2, <1>3 DEF SeatInv, SizeInv, Goto, HaveDone
<1>11. LineInv'
  BY <1>1, <1>2, LineStays DEF SeatInv, Uncounted, Joining
<1> QED BY <1>4, <1>5, <1>6, <1>7, <1>8, <1>9, <1>10, <1>11 DEF SeatInv

(* A step that touches no lock, no table and no slot, by a thread that has as  *)
(* much in hand before it as after it.                                         *)
LEMMA SeatsStay ==
  ASSUME NEW g \in Groups, NEW from, NEW to, SeatInv, Goto(g, from, to),
         UNCHANGED <<sems, table_state, state>>, from # "mark",
         from \in HaveMutex <=> to \in HaveMutex, from \in HaveServe <=> to \in HaveServe,
         from \in HaveDone <=> to \in HaveDone, from \in HaveTable <=> to \in HaveTable,
         from \in AtSlot <=> to \in AtSlot
  PROVE  /\ LockInv(mutex, HaveMutex)' /\ LockInv(customer_serve, HaveServe)'
         /\ LockInv(customer_done, HaveDone)' /\ TablesConserved' /\ SlotInv'
<1>1. /\ pc \in [Groups -> Labels]
      /\ UNCHANGED <<mutex, customer_serve, customer_done, table_available, table_state>>
  BY DEF SeatInv, Shape, sems
<1>2. LockInv(mutex, HaveMutex)'
  BY <1>1, LockStays DEF SeatInv, LockInv
<1>3. LockInv(customer_serve, HaveServe)'
  BY <1>1, LockStays DEF SeatInv, LockInv
<1>4. LockInv(customer_done, HaveDone)'
  BY <1>1, LockStays DEF SeatInv, LockInv
<1>5. TablesConserved'
  BY <1>1, TablesStay DEF SeatInv
<1>6. SlotInv'
  BY <1>1, SlotsStay DEF SeatInv
<1> QED BY <1>2, <1>3, <1>4, <1>5, <1>6

(* A command of the driver.                                                    *)
LEMMA CommandInv ==
  ASSUME NEW g \in Groups, SeatInv, Enter(g) \/ Depart(g)
  PROVE  SeatInv'
<1>1. /\ Goto(g, "idle", "enter") \/ Goto(g, "seated", "leave")
      /\ UNCHANGED <<sems, table_state, line, state, my_turn_to_go, local, at>>
      /\ Shape
  BY DEF Enter, Depart, Command, SeatInv
<1>2. Shape'
  <2>1. pc' \in [Groups -> Labels]
    BY <1>1 DEF Shape, Goto, Labels, HaveTable, AtSlot
  <2> QED BY <1>1, <2>1 DEF Shape, sems, line
<1>3. /\ LockInv(mutex, HaveMutex)' /\ LockInv(customer_serve, HaveServe)'
      /\ LockInv(customer_done, HaveDone)' /\ TablesConserved' /\ SlotInv'
  BY <1>1, SeatsStay DEF HaveMutex, Joining, HaveServe, HaveDone, HaveTable, AtSlot
<1>4. SizeInv'
  BY <1>1, SizesStay DEF SeatInv, Shape, HaveDone
<1>5. LineInv'
  BY <1>1, LineStays DEF SeatInv, Shape, Uncounted, Joining, line
<1> QED BY <1>2, <1>3, <1>4, <1>5 DEF SeatInv

(* Fewer groups have counted themselves than there are while one is about to.  *)
LEMMA CountedLess ==
  ASSUME NEW g \in Groups, pc[g] \in Joining
  PROVE  /\ IsFiniteSet(Counted) /\ Cardinality(Counted) \in Nat
         /\ Cardinality(Groups) \in Nat /\ Cardinality(Counted) < Cardinality(Groups)
<1>1. Counted \subseteq Groups /\ g \notin Counted
  BY DEF Counted, Uncounted
<1> HIDE DEF Counted
<1> QED BY <1>1, FS_Subset, FS_CardinalityType, GroupsAssumption

(* The index is read: it may be one that a group of another size has read too, *)
(* but it counts no more than the groups that have counted themselves.         *)
LEMMA ReadIndexInv ==
  ASSUME NEW g \in Groups, SeatInv,
         \/ ReadIndex(g, "enlist", "put") \/ ReadIndex(g, "reread", "show")
         \/ ReadIndex(g, "count", "add")
  PROVE  SeatInv'
<1>1. /\ \/ Goto(g, "enlist", "put") \/ Goto(g, "reread", "show") \/ Goto(g, "count", "add")
      /\ UNCHANGED <<sems, table_state, state>>
      /\ UNCHANGED <<queue, queue_grp_state, new_group_index, my_turn_to_go, local>>
      /\ at' = [at EXCEPT ![g] = new_group_index]
      /\ Shape
  BY DEF ReadIndex, SeatInv, line
<1>2. Shape'
  <2>1. pc' \in [Groups -> Labels] /\ at' \in [Groups -> Nat]
    BY <1>1 DEF Shape, Goto, Labels, HaveMutex, Joining
  <2> QED BY <1>1, <2>1 DEF Shape, sems
<1>3. /\ LockInv(mutex, HaveMutex)' /\ LockInv(customer_serve, HaveServe)'
      /\ LockInv(customer_done, HaveDone)' /\ TablesConserved' /\ SlotInv'
  BY <1>1, SeatsStay DEF HaveMutex, Joining, HaveServe, HaveDone, HaveTable, AtSlot
<1>4. SizeInv'
  BY <1>1, SizesStay DEF SeatInv, Shape, HaveDone
<1>5. LineInv'
  <2>1. Counted' = Counted
    BY <1>1 DEF Counted, Uncounted, Joining, Goto, Shape
  <2>2. ASSUME NEW h \in Groups
        PROVE  /\ pc'[h] \in {"put", "show", "add"} => at'[h] <= Cardinality(Counted)
               /\ pc'[h] \in {"peek", "call"} => at'[h] \in DOMAIN queue
               /\ pc'[h] = "call" => queue[at'[h]] \in Groups
    <3> HIDE DEF Counted
    <3> QED BY <1>1 DEF SeatInv, LineInv, Shape, Goto
  <2> QED BY <1>1, <2>1, <2>2 DEF SeatInv, LineInv
<1> QED BY <1>2, <1>3, <1>4, <1>5 DEF SeatInv

(* The entry a group takes up and the ticket it marks are within the queue,    *)
(* although they may be those of another group.                                *)
LEMMA EnlistInv ==
  ASSUME NEW g \in Groups, SeatInv, Enlist(g) \/ Show(g)
  PROVE  SeatInv'
<1>1. /\ Goto(g, "put", "reread") \/ Goto(g, "show", "count")
      /\ UNCHANGED <<sems, table_state, state>>
      /\ UNCHANGED <<new_group_index, my_turn_to_go, local, at>>
      /\ queue' = queue \/ queue' = [queue EXCEPT ![at[g]] = g]
      /\ queue_grp_state' \subseteq queue_grp_state \cup {at[g]}
      /\ Shape
  BY DEF Enlist, Show, SeatInv
<1>2. at[g] \in DOMAIN queue
  <2>1. /\ pc[g] \in Joining /\ at[g] \in Nat /\ at[g] <= Cardinality(Counted)
        /\ DOMAIN queue = 0..Cardinality(Groups)-1
    BY <1>1 DEF SeatInv, LineInv, Shape, Goto, Joining
  <2> HIDE DEF Counted
  <2> QED BY <2>1, CountedLess
<1>3. /\ queue' \in [0..Cardinality(Groups)-1 -> Groups \cup {NoGroup}]
      /\ DOMAIN queue' = DOMAIN queue
      /\ \A i \in DOMAIN queue : queue[i] \in Groups => queue'[i] \in Groups
  BY <1>1, <1>2 DEF Shape
<1>4. Shape'
  <2>1. pc' \in [Groups -> Labels]
    BY <1>1 DEF Shape, Goto, Labels, HaveMutex, Joining
  <2>2. queue_grp_state' \subseteq DOMAIN queue'
    BY <1>1, <1>2, <1>3 DEF Shape
  <2> QED BY <1>1, <1>3, <2>1, <2>2 DEF Shape, sems
<1>5. /\ LockInv(mutex, HaveMutex)' /\ LockInv(customer_serve, HaveServe)'
      /\ LockInv(customer_done, HaveDone)' /\ TablesConserved' /\ SlotInv'
  BY <1>1, SeatsStay DEF HaveMutex, Joining, HaveServe, HaveDone, HaveTable, AtSlot
<1>6. SizeInv'
  BY <1>1, SizesStay DEF SeatInv, Shape, HaveDone
<1>7. LineInv'
  <2>1. Counted' = Counted
    BY <1>1 DEF Counted, Uncounted, Joining, Goto, Shape
  <2>2. ASSUME NEW h \in Groups
        PROVE  /\ pc'[h] \in {"put", "show", "add"} => at'[h] <= Cardinality(Counted)
               /\ pc'[h] \in {"peek", "call"} => at'[h] \in DOMAIN queue
               /\ pc'[h] = "call" => queue'[at'[h]] \in Groups
    <3>1. pc'[h] \in {"put", "show", "add", "peek", "call"} => pc'[h] = pc[h]
      BY <1>1 DEF Goto, Shape
    <3> HIDE DEF Counted
    <3> QED BY <1>1, <1>3, <3>1 DEF SeatInv, LineInv
  <2> QED BY <1>1, <1>3, <2>1, <2>2 DEF SeatInv, LineInv
<1> QED BY <1>4, <1>5, <1>6, <1>7 DEF SeatInv

(* The index is at most one above what the counted groups were.                *)
LEMMA CountInv ==
  ASSUME NEW g \in Groups, SeatInv, Count(g)
  PROVE  SeatInv'
<1>1. /\ Goto(g, "add", "look")
      /\ UNCHANGED <<sems, table_state, state>>
      /\ UNCHANGED <<queue, queue_grp_state, my_turn_to_go, local, at>>
      /\ new_group_index' = at[g] + 1
      /\ Shape
  BY DEF Count, SeatInv
<1>2. Shape'
  <2>1. pc' \in [Groups -> Labels] /\ new_group_index' \in Nat
    BY <1>1 DEF Shape, Goto, Labels, HaveMutex, Joining
  <2> QED BY <1>1, <2>1 DEF Shape, sems
<1>3. /\ LockInv(mutex, HaveMutex)' /\ LockInv(customer_serve, HaveServe)'
      /\ LockInv(customer_done, HaveDone)' /\ TablesConserved' /\ SlotInv'
  BY <1>1, SeatsStay DEF HaveMutex, Joining, HaveServe, HaveDone, HaveTable, AtSlot
<1>4. SizeInv'
  BY <1>1, SizesStay DEF SeatInv, Shape, HaveDone
<1>5. LineInv'
  <2>1. Counted' = Counted \cup {g} /\ g \notin Counted
    BY <1>1 DEF Counted, Uncounted, Joining, Goto, Shape
  <2>2. IsFiniteSet(Counted)
    BY FS_Subset, GroupsAssumption DEF Counted
  <2>3. Cardinality(Counted') = Cardinality(Counted) + 1 /\ Cardinality(Counted) \in Nat
    <3> HIDE DEF Counted
    <3> QED BY <2>1, <2>2, FS_AddElement, FS_CardinalityType
  <2>4. at[g] \in Nat /\ at[g] <= Cardinality(Counted)
    BY <1>1 DEF SeatInv, LineInv, Shape, Goto
  <2>5. ASSUME NEW h \in Groups
        PROVE  /\ pc'[h] \in {"put", "show", "add"} =>
                    at'[h] <= Cardinality(Counted) /\ at'[h] \in Nat
               /\ pc'[h] \in {"peek", "call"} => at'[h] \in DOMAIN queue'
               /\ pc'[h] = "call" => queue'[at'[h]] \in Groups
    BY <1>1 DEF SeatInv, LineInv, Shape, Goto
  <2> HIDE DEF Counted
  <2> QED BY <1>1, <2>3, <2>4, <2>5 DEF LineInv
<1> QED BY <1>2, <1>3, <1>4, <1>5 DEF SeatInv

(* What a group learns of the tables, and sem_init.                            *)
LEMMA TurnInv ==
  ASSUME NEW g \in Groups, SeatInv, Look(g) \/ InitTurn(g) \/ AwaitTurn(g)
  PROVE  SeatInv'
<1>1. /\ \/ Goto(g, "look", "init") \/ Goto(g, "init", "unlock")
         \/ Goto(g, "turn", "take")
      /\ UNCHANGED <<sems, table_state, state>>
      /\ UNCHANGED <<line, at>>
      /\ \A h \in Groups \ {g} : local'[h] = local[h]
      /\ Shape
  BY DEF Look, InitTurn, AwaitTurn, SeatInv, Shape
<1>2. Shape'
  <2>1. pc' \in [Groups -> Labels]
    BY <1>1 DEF Shape, Goto, Labels, HaveMutex, Joining
  <2>2. local' \in [Groups -> Nat] /\ my_turn_to_go' \in [Groups -> Nat]
    <3>1. Size[g] \in Types /\ local \in [Groups -> Nat]
          /\ my_turn_to_go \in [Groups -> Nat] /\ table_available \in [Types -> Nat]
      BY <1>1, GroupSizeAssumption DEF Types, Shape
    <3>2. CASE Look(g)  BY <3>1, <3>2 DEF Look
    <3>3. CASE InitTurn(g)  BY <3>1, <3>3 DEF InitTurn
    <3>4. CASE AwaitTurn(g)  BY <3>1, <3>4 DEF AwaitTurn, sem_wait
    <3> QED BY <3>2, <3>3, <3>4
  <2> QED BY <1>1, <2>1, <2>2 DEF Shape, sems, line
<1>3. /\ LockInv(mutex, HaveMutex)' /\ LockInv(customer_serve, HaveServe)'
      /\ LockInv(customer_done, HaveDone)' /\ TablesConserved' /\ SlotInv'
  BY <1>1, SeatsStay DEF HaveMutex, Joining, HaveServe, HaveDone, HaveTable, AtSlot
<1>4. SizeInv'
  BY <1>1, SizesStay DEF SeatInv, Shape, HaveDone
<1>5. LineInv'
  BY <1>1, LineStays DEF SeatInv, Shape, Uncounted, Joining, line
<1> QED BY <1>2, <1>3, <1>4, <1>5 DEF SeatInv

(* Giving the mutex up.                                                        *)
LEMMA UnlockInv ==
  ASSUME NEW g \in Groups, SeatInv, Unlock(g)
  PROVE  SeatInv'
<1>1. /\ Size[g] \in Types /\ Goto(g, "unlock", "turn") /\ pc \in [Groups -> Labels]
      /\ Shape
  BY GroupSizeAssumption DEF Unlock, Types, SeatInv, Shape
<1>2. /\ UNCHANGED <<customer_serve, customer_done, table_available,
                     table_state, queue, queue_grp_state, new_group_index, state, my_turn_to_go,
                     local, at>>
      /\ mutex' = [mutex EXCEPT ![Size[g]] = @ + 1]
  BY DEF Unlock, sem_post, line
<1>3. Shape'
  <2>1. pc' \in [Groups -> Labels]
    BY <1>1 DEF Goto, Labels, HaveMutex, Joining
  <2>2. mutex' \in [Types -> Nat]
    BY <1>1, <1>2 DEF Shape
  <2> QED BY <1>1, <1>2, <2>1, <2>2 DEF Shape
<1>4. LockInv(mutex, HaveMutex)'
  BY <1>1, <1>2, LockGiven DEF SeatInv, Shape, LockInv, HaveMutex, Joining
<1>5. LockInv(customer_serve, HaveServe)'
  BY <1>1, <1>2, LockStays DEF SeatInv, LockInv, HaveServe
<1>6. LockInv(customer_done, HaveDone)'
  BY <1>1, <1>2, LockStays DEF SeatInv, LockInv, HaveDone
<1>7. TablesConserved'
  BY <1>1, <1>2, TablesStay DEF SeatInv, Shape, HaveTable, AtSlot, HaveDone
<1>8. SlotInv'
  BY <1>1, <1>2, SlotsStay DEF SeatInv, AtSlot
<1>9. SizeInv'
  BY <1>1, <1>2, SizesStay DEF SeatInv, HaveDone
<1>10. LineInv'
  BY <1>1, <1>2, LineStays DEF SeatInv, Uncounted, Joining
<1> QED BY <1>3, <1>4, <1>5, <1>6, <1>7, <1>8, <1>9, <1>10 DEF SeatInv

(* Taking a table off table_available, of which one is then for the group.     *)
LEMMA TakeTableInv ==
  ASSUME NEW g \in Groups, SeatInv, TakeTable(g, Size[g])
  PROVE  SeatInv'
<1>1. /\ Size[g] \in Types /\ Goto(g, "take", "serve") /\ pc \in [Groups -> Labels]
      /\ Shape
  BY GroupSizeAssumption DEF TakeTable, Types, SeatInv, Shape
<1>2. /\ UNCHANGED <<mutex, customer_serve, customer_done,
                     table_state, queue, queue_grp_state, new_group_index, state, my_turn_to_go,
                     local, at>>
      /\ table_available[Size[g]] > 0
      /\ table_available' = [table_available EXCEPT ![Size[g]] = @ - 1]
  BY DEF TakeTable, sem_wait, line
<1>3. Shape'
  <2>1. pc' \in [Groups -> Labels]
    BY <1>1 DEF Goto, Labels, HaveTable
  <2> QED BY <1>1, <1>2, <2>1 DEF Shape
<1>4. LockInv(mutex, HaveMutex)'
  BY <1>1, <1>2, LockStays DEF SeatInv, LockInv, HaveMutex, Joining
<1>5. LockInv(customer_serve, HaveServe)'
  BY <1>1, <1>2, LockStays DEF SeatInv, LockInv, HaveServe
<1>6. LockInv(customer_done, HaveDone)'
  BY <1>1, <1>2, LockStays DEF SeatInv, LockInv, HaveDone
<1>7. TablesConserved'
  BY <1>1, <1>2, TableTaken DEF SeatInv, Shape, HaveTable, AtSlot, HaveDone
<1>8. SlotInv'
  BY <1>1, <1>2, SlotsStay DEF SeatInv, AtSlot
<1>9. SizeInv'
  BY <1>1, <1>2, SizesStay DEF SeatInv, HaveDone
<1>10. LineInv'
  BY <1>1, <1>2, LineStays DEF SeatInv, Uncounted, Joining
<1> QED BY <1>3, <1>4, <1>5, <1>6, <1>7, <1>8, <1>9, <1>10 DEF SeatInv

(* customer_serve of the size is taken, which one group has at a time ...      *)
LEMMA ServeInv ==
  ASSUME NEW g \in Groups, SeatInv, Serve(g, Size[g])
  PROVE  SeatInv'
<1>1. /\ Size[g] \in Types /\ Goto(g, "serve", "assign") /\ pc \in [Groups -> Labels]
      /\ Shape
  BY GroupSizeAssumption DEF Serve, Types, SeatInv, Shape
<1>2. /\ UNCHANGED <<mutex, customer_done, table_available,
                     table_state, queue, queue_grp_state, new_group_index, state, my_turn_to_go,
                     local, at>>
      /\ customer_serve[Size[g]] > 0
      /\ customer_serve' = [customer_serve EXCEPT ![Size[g]] = @ - 1]
  BY DEF Serve, sem_wait, line
<1>3. Shape'
  <2>1. pc' \in [Groups -> Labels]
    BY <1>1 DEF Goto, Labels, HaveTable
  <2> QED BY <1>1, <1>2, <2>1 DEF Shape
<1>4. LockInv(mutex, HaveMutex)'
  BY <1>1, <1>2, LockStays DEF SeatInv, LockInv, HaveMutex, Joining
<1>5. LockInv(customer_serve, HaveServe)'
  BY <1>1, <1>2, LockTaken DEF SeatInv, Shape, LockInv, HaveServe
<1>6. LockInv(customer_done, HaveDone)'
  BY <1>1, <1>2, LockStays DEF SeatInv, LockInv, HaveDone
<1>7. TablesConserved'
  BY <1>1, <1>2, TablesStay DEF SeatInv, Shape, HaveTable, AtSlot, HaveDone
<1>8. SlotInv'
  BY <1>1, <1>2, SlotsStay DEF SeatInv, AtSlot
<1>9. SizeInv'
  BY <1>1, <1>2, SizesStay DEF SeatInv, HaveDone
<1>10. LineInv'
  BY <1>1, <1>2, LineStays DEF SeatInv, Uncounted, Joining
<1> QED BY <1>3, <1>4, <1>5, <1>6, <1>7, <1>8, <1>9, <1>10 DEF SeatInv

(* ... and given back once the group sits.                                     *)
LEMMA ServedInv ==
  ASSUME NEW g \in Groups, SeatInv, Served(g, Size[g])
  PROVE  SeatInv'
<1>1. /\ Size[g] \in Types /\ Goto(g, "served", "seated") /\ pc \in [Groups -> Labels]
      /\ Shape
  BY GroupSizeAssumption DEF Served, Types, SeatInv, Shape
<1>2. /\ UNCHANGED <<mutex, customer_done, table_available,
                     table_state, queue, queue_grp_state, new_group_index, state, my_turn_to_go,
                     local, at>>
      /\ customer_serve' = [customer_serve EXCEPT ![Size[g]] = @ + 1]
  BY DEF Served, sem_post, line
<1>3. Shape'
  <2>1. pc' \in [Groups -> Labels]
    BY <1>1 DEF Goto, Labels, HaveTable, AtSlot
  <2> QED BY <1>1, <1>2, <2>1 DEF Shape
<1>4. LockInv(mutex, HaveMutex)'
  BY <1>1, <1>2, LockStays DEF SeatInv, LockInv, HaveMutex, Joining
<1>5. LockInv(customer_serve, HaveServe)'
  BY <1>1, <1>2, LockGiven DEF SeatInv, Shape, LockInv, HaveServe
<1>6. LockInv(customer_done, HaveDone)'
  BY <1>1, <1>2, LockStays DEF SeatInv, LockInv, HaveDone
<1>7. TablesConserved'
  BY <1>1, <1>2, TablesStay DEF SeatInv, Shape, HaveTable, AtSlot, HaveDone
<1>8. SlotInv'
  BY <1>1, <1>2, SlotsStay DEF SeatInv, AtSlot
<1>9. SizeInv'
  BY <1>1, <1>2, SizesStay DEF SeatInv, HaveDone
<1>10. LineInv'
  BY <1>1, <1>2, LineStays DEF SeatInv, Uncounted, Joining
<1> QED BY <1>3, <1>4, <1>5, <1>6, <1>7, <1>8, <1>9, <1>10 DEF SeatInv

(* The table is given back to the type it was taken from, as the leaver still  *)
(* remembers its own size.                                                     *)
LEMMA FreeUpInv ==
  ASSUME NEW g \in Groups, SeatInv, FreeUp(g, local[g])
  PROVE  SeatInv'
<1>1. /\ Size[g] \in Types /\ Goto(g, "freeUp", "left") /\ pc \in [Groups -> Labels]
      /\ Shape
  BY GroupSizeAssumption DEF FreeUp, Types, SeatInv, Shape
<1>2. /\ UNCHANGED <<mutex, customer_serve, customer_done,
                     table_state, queue, queue_grp_state, new_group_index, state, my_turn_to_go,
                     local, at>>
      /\ table_available' = [table_available EXCEPT ![Size[g]] = @ + 1]
  BY <1>1 DEF FreeUp, sem_post, line, SeatInv, SizeInv, HaveDone, Goto
<1>3. Shape'
  <2>1. pc' \in [Groups -> Labels]
    BY <1>1 DEF Goto, Labels, HaveDone
  <2> QED BY <1>1, <1>2, <2>1, SMTT(30) DEF Shape
<1>4. LockInv(mutex, HaveMutex)'
  BY <1>1, <1>2, LockStays DEF SeatInv, LockInv, HaveMutex, Joining
<1>5. LockInv(customer_serve, HaveServe)'
  BY <1>1, <1>2, LockStays DEF SeatInv, LockInv, HaveServe
<1>6. LockInv(customer_done, HaveDone)'
  BY <1>1, <1>2, LockStays DEF SeatInv, LockInv, HaveDone
<1>7. TablesConserved'
  BY <1>1, <1>2, TableGiven DEF SeatInv, Shape, HaveTable, AtSlot, HaveDone
<1>8. SlotInv'
  BY <1>1, <1>2, SlotsStay DEF SeatInv, AtSlot
<1>9. SizeInv'
  BY <1>1, <1>2, SizesStay DEF SeatInv, HaveDone
<1>10. LineInv'
  BY <1>1, <1>2, LineStays DEF SeatInv, Uncounted, Joining
<1> QED BY <1>3, <1>4, <1>5, <1>6, <1>7, <1>8, <1>9, <1>10 DEF SeatInv

(* leave_table gives back the lock of the size it remembers: its own.          *)
LEMMA LeftInv ==
  ASSUME NEW g \in Groups, SeatInv, Left(g, local[g])
  PROVE  SeatInv'
<1>1. /\ Size[g] \in Types /\ Goto(g, "left", "gone") /\ pc \in [Groups -> Labels]
      /\ Shape
  BY GroupSizeAssumption DEF Left, Types, SeatInv, Shape
<1>2. /\ UNCHANGED <<mutex, customer_serve, table_available,
                     table_state, queue, queue_grp_state, new_group_index, state, my_turn_to_go,
                     local, at>>
      /\ customer_done' = [customer_done EXCEPT ![Size[g]] = @ + 1]
  BY <1>1 DEF Left, sem_post, line, SeatInv, SizeInv, HaveDone, Goto
<1>3. Shape'
  <2>1. pc' \in [Groups -> Labels]
    BY <1>1 DEF Goto, Labels, HaveDone
  <2> QED BY <1>1, <1>2, <2>1 DEF Shape
<1>4. LockInv(mutex, HaveMutex)'
  BY <1>1, <1>2, LockStays DEF SeatInv, LockInv, HaveMutex, Joining
<1>5. LockInv(customer_serve, HaveServe)'
  BY <1>1, <1>2, LockStays DEF SeatInv, LockInv, HaveServe
<1>6. LockInv(customer_done, HaveDone)'
  BY <1>1, <1>2, LockGiven DEF SeatInv, Shape, LockInv, HaveDone
<1>7. TablesConserved'
  BY <1>1, <1>2, TablesStay DEF SeatInv, Shape, HaveTable, AtSlot, HaveDone
<1>8. SlotInv'
  BY <1>1, <1>2, SlotsStay DEF SeatInv, AtSlot
<1>9. SizeInv'
  BY <1>1, <1>2, SizesStay DEF SeatInv, HaveDone
<1>10. LineInv'
  BY <1>1, <1>2, LineStays DEF SeatInv, Uncounted, Joining
<1> QED BY <1>3, <1>4, <1>5, <1>6, <1>7, <1>8, <1>9, <1>10 DEF SeatInv

(* Where a table is assigned, fewer slots are occupied than there are tables   *)
(* of the type, so that the loop stops at one of them.                         *)
LEMMA SlotFree ==
  ASSUME NEW g \in Groups, SeatInv, pc[g] = "assign"
  PROVE  LET n == Size[g]
             unoccupied == (0..table_num(n)-1) \ table_state[n]
         IN unoccupied # {} /\ Min(unoccupied) \in (0..num_tables[n]-1) \ table_state[n]
<1> DEFINE n == Size[g]
           unoccupied == (0..table_num(n)-1) \ table_state[n]
<1>1. /\ n \in Types /\ num_tables[n] \in Nat /\ Before(n) \in Nat
      /\ table_num(n) = Before(n) + num_tables[n]
  BY GroupSizeAssumption, TablesBefore DEF Types
<1>2. Cardinality(At(n, AtSlot)) < Cardinality(At(n, HaveTable))
  <2>1. At(n, AtSlot) \subseteq At(n, HaveTable)
    BY DEF At, HaveTable
  <2>2. g \in At(n, HaveTable) /\ g \notin At(n, AtSlot)
    BY DEF At, HaveTable, AtSlot
  <2>3. IsFiniteSet(At(n, HaveTable)) /\ Cardinality(At(n, HaveTable)) \in Nat
        /\ Cardinality(At(n, AtSlot)) \in Nat
    BY AtFinite
  <2> QED BY <2>1, <2>2, <2>3, FS_Subset
<1>3. Cardinality(At(n, HaveTable)) <= num_tables[n]
  <2>1. /\ table_available[n] \in Nat
        /\ table_available[n] + Cardinality(At(n, HaveTable)) = num_tables[n]
    BY <1>1 DEF SeatInv, Shape, TablesConserved
  <2> QED BY <1>1, <2>1, AtFinite
<1>4. Cardinality(table_state[n]) < num_tables[n]
  BY <1>1, <1>2, <1>3, AtFinite DEF SeatInv, SlotInv
<1>5. PICK i \in 0..num_tables[n]-1 : i \notin table_state[n]
  <2> SUFFICES ASSUME 0..num_tables[n]-1 \subseteq table_state[n]
               PROVE  FALSE
    OBVIOUS
  <2>1. table_state[n] = 0..num_tables[n]-1
    BY <1>1 DEF SeatInv, SlotInv
  <2>2. Cardinality(0..num_tables[n]-1) = num_tables[n]
    BY <1>1, SlotCount
  <2> QED BY <1>1, <1>4, <2>1, <2>2
<1>6. i \in unoccupied /\ unoccupied \in SUBSET Nat
  BY <1>1, <1>5
<1> HIDE DEF unoccupied
<1>7. unoccupied # {} /\ Min(unoccupied) \in unoccupied /\ Min(unoccupied) <= i
  BY <1>6, MinOfNaturals
<1>8. Min(unoccupied) \in (0..num_tables[n]-1) \ table_state[n]
  BY <1>1, <1>5, <1>7 DEF unoccupied
<1> QED BY <1>7, <1>8 DEF unoccupied

(* The group takes a slot of its own size that nobody has.                     *)
LEMMA AssignInv ==
  ASSUME NEW g \in Groups, SeatInv, assign_table(g, Size[g])
  PROVE  SeatInv'
<1> DEFINE n == Size[g]
           i == Min((0..table_num(n)-1) \ table_state[n])
<1>1. /\ n \in Types /\ Goto(g, "assign", "served") /\ pc \in [Groups -> Labels]
      /\ Shape
  BY GroupSizeAssumption DEF assign_table, Types, SeatInv, Shape
<1>2. /\ (0..table_num(n)-1) \ table_state[n] # {}
      /\ i \in 0..num_tables[n]-1 /\ i \notin table_state[n]
  BY <1>1, SlotFree DEF Goto
<1>3. num_tables[n] \in Nat /\ Before(n) \in Nat /\ i \in Nat /\ table_id(n, i) = Before(n) + i
  BY <1>1, <1>2, TablesBefore DEF table_id
<1>4. /\ UNCHANGED <<mutex, customer_serve, customer_done, table_available, queue,
                     queue_grp_state, new_group_index, my_turn_to_go, local, at>>
      /\ table_state' = [table_state EXCEPT ![n] = @ \cup {i}]
      /\ state' = [state EXCEPT ![g].state_of_group = "EAT",
                                ![g].table_assigned = table_id(n, i)]
  BY <1>2 DEF assign_table, sems, line
<1> HIDE DEF i
<1>5. /\ state' \in [Groups -> GroupStates]
      /\ state'[g].table_assigned = Before(n) + i
      /\ state'[g].size_of_group = state[g].size_of_group
      /\ \A h \in Groups \ {g} : state'[h] = state[h]
  <2> DEFINE new == [state[g] EXCEPT !.state_of_group = "EAT", !.table_assigned = table_id(n, i)]
  <2>1. state' = [state EXCEPT ![g] = new]
    BY <1>4
  <2>2. state[g] \in GroupStates /\ table_id(n, i) \in Int
    BY <1>1, <1>3 DEF Shape
  <2>3. /\ new \in GroupStates /\ new.table_assigned = table_id(n, i)
        /\ new.size_of_group = state[g].size_of_group
    BY <2>2 DEF GroupStates
  <2> HIDE DEF new
  <2> QED BY <1>1, <1>3, <2>1, <2>3 DEF Shape
<1>6. Shape'
  <2>1. pc' \in [Groups -> Labels]
    BY <1>1 DEF Goto, Labels, HaveTable, AtSlot
  <2>2. table_state' \in [Types -> SUBSET Nat]
    BY <1>1, <1>3, <1>4 DEF Shape
  <2> QED BY <1>1, <1>4, <1>5, <2>1, <2>2 DEF Shape
<1>7. LockInv(mutex, HaveMutex)'
  BY <1>1, <1>4, LockStays DEF SeatInv, LockInv, HaveMutex, Joining
<1>8. LockInv(customer_serve, HaveServe)'
  BY <1>1, <1>4, LockStays DEF SeatInv, LockInv, HaveServe
<1>9. LockInv(customer_done, HaveDone)'
  BY <1>1, <1>4, LockStays DEF SeatInv, LockInv, HaveDone
<1>10. TablesConserved'
  BY <1>1, <1>4, TablesStay DEF SeatInv, HaveTable, AtSlot, HaveDone
<1>11. SlotInv'
  <2>0. "assign" \notin AtSlot /\ "served" \in AtSlot
    BY DEF AtSlot
  <2>1. /\ At(n, AtSlot)' = At(n, AtSlot) \cup {g} /\ g \notin At(n, AtSlot)
        /\ \A m \in Types \ {n} : At(m, AtSlot)' = At(m, AtSlot)
    BY <1>1, <2>0, MoveAt
  <2>2. \A m \in Types : At(m, AtSlot) \subseteq {h \in Groups : Size[h] = m}
    BY DEF At
  <2>3. table_state'[n] = table_state[n] \cup {i} /\ table_state[n] \in SUBSET Nat
    BY <1>1, <1>4 DEF Shape
  <2>4. Cardinality(table_state'[n]) = Cardinality(At(n, AtSlot)')
    <3>1. Cardinality(At(n, AtSlot)') = Cardinality(At(n, AtSlot)) + 1
      BY <1>1, MoveCard DEF AtSlot
    <3>2. IsFiniteSet(table_state[n])
      <4>1. table_state[n] \subseteq 0..num_tables[n]-1
        BY <1>1 DEF SeatInv, SlotInv
      <4>2. IsFiniteSet(0..num_tables[n]-1)
        BY <1>3, SlotCount
      <4> QED BY <4>1, <4>2, FS_Subset
    <3>3. Cardinality(table_state[n] \cup {i}) = Cardinality(table_state[n]) + 1
      BY <1>2, <3>2, FS_AddElement DEF i
    <3> QED BY <1>1, <2>3, <3>1, <3>3 DEF SeatInv, SlotInv
  <2>5. ASSUME NEW m \in Types
        PROVE  /\ table_state'[m] \subseteq 0..num_tables[m]-1
               /\ Cardinality(table_state'[m]) = Cardinality(At(m, AtSlot)')
               /\ \A h \in At(m, AtSlot)' :
                    /\ state'[h].table_assigned - Before(m) \in table_state'[m]
                    /\ \A k \in At(m, AtSlot)' \ {h} :
                         state'[k].table_assigned # state'[h].table_assigned
    <3>1. /\ table_state[m] \subseteq 0..num_tables[m]-1
          /\ Cardinality(table_state[m]) = Cardinality(At(m, AtSlot))
          /\ \A h \in At(m, AtSlot) :
               /\ state[h].table_assigned - Before(m) \in table_state[m]
               /\ \A k \in At(m, AtSlot) \ {h} :
                    state[k].table_assigned # state[h].table_assigned
      BY DEF SeatInv, SlotInv
    <3>2. CASE m # n
      <4>1. table_state'[m] = table_state[m]
        BY <1>1, <1>4, <3>2 DEF Shape
      <4>2. \A h \in At(m, AtSlot) : state'[h] = state[h]
        BY <1>5, <2>2, <3>2
      <4> QED BY <2>1, <3>1, <3>2, <4>1, <4>2
    <3>3. CASE m = n
      <4>1. \A h \in At(n, AtSlot) :
              state'[h] = state[h] /\ state[h].table_assigned \in Int
        BY <1>1, <1>5, <2>1, <2>2 DEF Shape, GroupStates
      <4>2. table_state'[n] \subseteq 0..num_tables[n]-1
        BY <1>2, <2>3, <3>1, <3>3 DEF i
      <4>3. \A h \in At(n, AtSlot) : state[h].table_assigned # Before(n) + i
        BY <1>2, <1>3, <3>1, <3>3, <4>1 DEF i
      <4>4. state'[g].table_assigned - Before(n) = i
        BY <1>3, <1>5
      <4>5. ASSUME NEW h \in At(n, AtSlot)'
            PROVE  /\ state'[h].table_assigned - Before(n) \in table_state'[n]
                   /\ \A k \in At(n, AtSlot)' \ {h} :
                        state'[k].table_assigned # state'[h].table_assigned
        <5>1. CASE h = g
          BY <1>5, <2>1, <2>3, <4>1, <4>3, <4>4, <5>1
        <5>2. CASE h \in At(n, AtSlot)
          BY <1>5, <2>1, <2>3, <3>1, <3>3, <4>1, <4>3, <5>2
        <5> QED BY <2>1, <5>1, <5>2
      <4> QED BY <2>4, <3>3, <4>2, <4>5
    <3> QED BY <3>2, <3>3
  <2>6. ASSUME NEW h \in Groups, state'[h].state_of_group = "EAT"
        PROVE  pc'[h] \in AtSlot \cup {"mark"}
    BY <1>1, <1>5, <2>6 DEF SeatInv, SlotInv, Goto, AtSlot
  <2> QED BY <2>5, <2>6 DEF SlotInv
<1>12. SizeInv'
  <2>1. \A h \in Groups : state'[h].size_of_group = state[h].size_of_group
    BY <1>5
  <2> QED BY <1>1, <1>4, <2>1, SizesStay DEF SeatInv, HaveDone
<1>13. LineInv'
  BY <1>1, <1>4, LineStays DEF SeatInv, Uncounted, Joining
<1> QED BY <1>6, <1>7, <1>8, <1>9, <1>10, <1>11, <1>12, <1>13 DEF SeatInv

(* leave_table takes the lock of its own size, as size_of_group still has it.  *)
LEMMA LeaveInv ==
  ASSUME NEW g \in Groups, SeatInv, Leave(g)
  PROVE  SeatInv'
<1>1. /\ Size[g] \in Types /\ Goto(g, "leave", "free") /\ pc \in [Groups -> Labels] /\ Shape
  BY GroupSizeAssumption DEF Leave, Types, SeatInv, Shape
<1>2. state[g].size_of_group = Size[g]
  BY <1>1 DEF SeatInv, SizeInv, Goto
<1>3. /\ UNCHANGED <<mutex, customer_serve, table_available, table_state, queue,
                     queue_grp_state, new_group_index, state, my_turn_to_go, at>>
      /\ customer_done[Size[g]] > 0
      /\ customer_done' = [customer_done EXCEPT ![Size[g]] = @ - 1]
      /\ local' = [local EXCEPT ![g] = Size[g]]
  BY <1>2 DEF Leave, sem_wait, line
<1>4. Shape'
  <2>1. pc' \in [Groups -> Labels]
    BY <1>1 DEF Goto, Labels, HaveDone
  <2>2. local' \in [Groups -> Nat]
    BY <1>1, <1>3 DEF Types, Shape
  <2>3. customer_done' \in [Types -> Nat]
    BY <1>1, <1>3 DEF Shape
  <2> QED BY <1>1, <1>3, <2>1, <2>2, <2>3 DEF Shape
<1>5. LockInv(mutex, HaveMutex)'
  BY <1>1, <1>3, LockStays DEF SeatInv, LockInv, HaveMutex, Joining
<1>6. LockInv(customer_serve, HaveServe)'
  BY <1>1, <1>3, LockStays DEF SeatInv, LockInv, HaveServe
<1>7. LockInv(customer_done, HaveDone)'
  BY <1>1, <1>3, LockTaken DEF SeatInv, Shape, LockInv, HaveDone
<1>8. TablesConserved'
  BY <1>1, <1>3, TablesStay DEF SeatInv, HaveTable, AtSlot, HaveDone
<1>9. SlotInv'
  BY <1>1, <1>3, SlotsStay DEF SeatInv, AtSlot
<1>10. SizeInv'
  BY <1>1, <1>3 DEF SeatInv, SizeInv, Goto, Shape
<1>11. LineInv'
  BY <1>1, <1>3, LineStays DEF SeatInv, Uncounted, Joining
<1> QED BY <1>4, <1>5, <1>6, <1>7, <1>8, <1>9, <1>10, <1>11 DEF SeatInv

(* The slot that free_table finds is that of the group's own table.            *)
LEMMA OwnSlot ==
  ASSUME NEW g \in Groups, SeatInv, pc[g] = "free"
  PROVE  LET n == Size[g]
             used == {i \in 0..table_num(n)-1 : table_id(n, i) = state[g].table_assigned}
         IN used # {} /\ Min(used) = state[g].table_assigned - Before(n)
<1> DEFINE n == Size[g]
           used == {i \in 0..table_num(n)-1 : table_id(n, i) = state[g].table_assigned}
           own == state[g].table_assigned - Before(n)
<1>1. /\ n \in Types /\ num_tables[n] \in Nat /\ Before(n) \in Nat
      /\ table_num(n) = Before(n) + num_tables[n]
  BY GroupSizeAssumption, TablesBefore DEF Types
<1>2. g \in At(n, AtSlot)
  BY DEF At, AtSlot
<1>3. own \in 0..num_tables[n]-1
  BY <1>1, <1>2 DEF SeatInv, SlotInv
<1>4. state[g].table_assigned \in Int
  BY DEF SeatInv, Shape, GroupStates
<1>5. state[g].table_assigned = Before(n) + own
  BY <1>1, <1>4
<1> HIDE DEF own
<1>6. own \in used
  BY <1>1, <1>3, <1>5 DEF table_id
<1>7. ASSUME NEW i \in used
      PROVE  i = own
  <2>1. i \in 0..table_num(n)-1 /\ table_id(n, i) = Before(n) + own
    BY <1>5, <1>7
  <2>2. CASE i < num_tables[n]
    BY <1>1, <1>3, <2>1, <2>2 DEF table_id
  <2>3. CASE ~ (i < num_tables[n])
    <3>1. table_id(n, i) = 0
      BY <2>3 DEF table_id
    <3>2. Before(n) = 0
      BY <1>1, <1>3, <2>1, <3>1
    <3>3. i < num_tables[n]
      BY <1>1, <2>1, <3>2
    <3> QED BY <2>3, <3>3
  <2> QED BY <2>2, <2>3
<1>8. used \in SUBSET Nat
  BY <1>1
<1> HIDE DEF used
<1>9. Min(used) \in used
  BY <1>6, <1>8, MinOfNaturals
<1> QED BY <1>6, <1>7, <1>9 DEF used, own

(* The slot goes with the group.                                               *)
LEMMA FreeInv ==
  ASSUME NEW g \in Groups, SeatInv, free_table(g)
  PROVE  SeatInv'
<1> DEFINE n == Size[g]
           own == state[g].table_assigned - Before(n)
<1>1. /\ n \in Types /\ Goto(g, "free", "mark") /\ pc \in [Groups -> Labels]
      /\ Shape /\ local[g] = n
  BY GroupSizeAssumption DEF free_table, Types, SeatInv, Shape, SizeInv, HaveDone, Goto
<1>2. /\ UNCHANGED <<mutex, customer_serve, customer_done, table_available, queue,
                     queue_grp_state, new_group_index, state, my_turn_to_go, local, at>>
      /\ table_state' = [table_state EXCEPT ![n] = @ \ {own}]
  BY <1>1, OwnSlot DEF free_table, sems, line, Goto
<1>3. Shape'
  <2>1. pc' \in [Groups -> Labels]
    BY <1>1 DEF Goto, Labels, HaveDone
  <2>2. table_state' \in [Types -> SUBSET Nat]
    BY <1>1, <1>2 DEF Shape
  <2> QED BY <1>1, <1>2, <2>1, <2>2 DEF Shape
<1>4. LockInv(mutex, HaveMutex)'
  BY <1>1, <1>2, LockStays DEF SeatInv, LockInv, HaveMutex, Joining
<1>5. LockInv(customer_serve, HaveServe)'
  BY <1>1, <1>2, LockStays DEF SeatInv, LockInv, HaveServe
<1>6. LockInv(customer_done, HaveDone)'
  BY <1>1, <1>2, LockStays DEF SeatInv, LockInv, HaveDone
<1>7. TablesConserved'
  BY <1>1, <1>2, TablesStay DEF SeatInv, HaveTable, AtSlot, HaveDone
<1>8. SlotInv'
  <2>0. "free" \in AtSlot /\ "mark" \notin AtSlot
    BY DEF AtSlot
  <2>1. /\ At(n, AtSlot)' = At(n, AtSlot) \ {g} /\ g \in At(n, AtSlot)
        /\ \A m \in Types \ {n} : At(m, AtSlot)' = At(m, AtSlot)
    BY <1>1, <2>0, MoveAt
  <2>2. \A m \in Types : At(m, AtSlot) \subseteq Groups
    BY DEF At
  <2>3. table_state'[n] = table_state[n] \ {own}
        /\ \A m \in Types \ {n} : table_state'[m] = table_state[m]
    BY <1>1, <1>2 DEF Shape
  <2>4. /\ table_state[n] \subseteq 0..num_tables[n]-1 /\ own \in table_state[n]
        /\ Cardinality(table_state[n]) = Cardinality(At(n, AtSlot))
    BY <1>1, <2>1 DEF SeatInv, SlotInv
  <2>5. Cardinality(table_state'[n]) = Cardinality(At(n, AtSlot)')
    <3>1. Cardinality(At(n, AtSlot)') = Cardinality(At(n, AtSlot)) - 1
      BY <1>1, <2>0, MoveCard
    <3>2. IsFiniteSet(table_state[n])
      BY <1>1, <2>4, SlotCount, FS_Subset, TablesBefore
    <3> HIDE DEF own
    <3>3. Cardinality(table_state[n] \ {own}) = Cardinality(table_state[n]) - 1
      BY <2>4, <3>2, FS_RemoveElement
    <3> QED BY <2>3, <2>4, <3>1, <3>3
  <2>6. ASSUME NEW m \in Types
        PROVE  /\ table_state'[m] \subseteq 0..num_tables[m]-1
               /\ Cardinality(table_state'[m]) = Cardinality(At(m, AtSlot)')
               /\ \A h \in At(m, AtSlot)' :
                    /\ state'[h].table_assigned - Before(m) \in table_state'[m]
                    /\ \A k \in At(m, AtSlot)' \ {h} :
                         state'[k].table_assigned # state'[h].table_assigned
    <3>1. /\ table_state[m] \subseteq 0..num_tables[m]-1
          /\ Cardinality(table_state[m]) = Cardinality(At(m, AtSlot))
          /\ \A h \in At(m, AtSlot) :
               /\ state[h].table_assigned - Before(m) \in table_state[m]
               /\ \A k \in At(m, AtSlot) \ {h} :
                    state[k].table_assigned # state[h].table_assigned
      BY DEF SeatInv, SlotInv
    <3>2. CASE m # n
      BY <1>2, <2>1, <2>3, <3>1, <3>2
    <3>3. CASE m = n
      <4>1. ASSUME NEW h \in At(n, AtSlot) \ {g}
            PROVE  state[h].table_assigned - Before(n) # own
        <5>1. state[h].table_assigned # state[g].table_assigned
          BY <2>1, <3>1, <3>3
        <5>2. /\ state[h].table_assigned \in Int /\ state[g].table_assigned \in Int
              /\ Before(n) \in Nat
          BY <1>1, <2>2, TablesBefore DEF Shape, GroupStates
        <5> QED BY <5>1, <5>2
      <4> HIDE DEF own
      <4> QED BY <1>2, <2>1, <2>3, <2>5, <3>1, <3>3, <4>1
    <3> QED BY <3>2, <3>3
  <2>7. ASSUME NEW h \in Groups, state'[h].state_of_group = "EAT"
        PROVE  pc'[h] \in AtSlot \cup {"mark"}
    BY <1>1, <1>2, <2>7 DEF SeatInv, SlotInv, Goto
  <2> QED BY <2>6, <2>7 DEF SlotInv
<1>9. SizeInv'
  BY <1>1, <1>2, SizesStay DEF SeatInv, HaveDone
<1>10. LineInv'
  BY <1>1, <1>2, LineStays DEF SeatInv, Uncounted, Joining
<1> QED BY <1>3, <1>4, <1>5, <1>6, <1>7, <1>8, <1>9, <1>10 DEF SeatInv

(* GROUP_STATE_LEAVE and GROUP_GONE.                                           *)
LEMMA MarkInv ==
  ASSUME NEW g \in Groups, SeatInv, Mark(g)
  PROVE  SeatInv'
<1>1. /\ Goto(g, "mark", "find") /\ pc \in [Groups -> Labels] /\ Shape
  BY DEF Mark, SeatInv, Shape
<1>2. /\ UNCHANGED <<mutex, customer_serve, customer_done, table_available, table_state,
                     queue, new_group_index, my_turn_to_go, local>>
      /\ queue_grp_state' \subseteq queue_grp_state
      /\ at' = [at EXCEPT ![g] = 0]
  BY DEF Mark, sems
<1>3. /\ state' \in [Groups -> GroupStates] /\ state'[g].state_of_group = "LEAVE"
      /\ state'[g].size_of_group = state[g].size_of_group
      /\ state'[g].table_assigned = state[g].table_assigned
      /\ \A h \in Groups \ {g} : state'[h] = state[h]
  <2> DEFINE new == [state[g] EXCEPT !.state_of_group = "LEAVE"]
  <2>1. state' = [state EXCEPT ![g] = new]
    BY DEF Mark
  <2>2. state[g] \in GroupStates
    BY <1>1 DEF Shape
  <2>3. /\ new \in GroupStates /\ new.state_of_group = "LEAVE"
        /\ new.size_of_group = state[g].size_of_group
        /\ new.table_assigned = state[g].table_assigned
    BY <2>2 DEF GroupStates
  <2> HIDE DEF new
  <2> QED BY <1>1, <2>1, <2>3 DEF Shape
<1>4. Shape'
  <2>1. pc' \in [Groups -> Labels] /\ at' \in [Groups -> Nat]
    BY <1>1, <1>2 DEF Goto, Labels, HaveDone, Shape
  <2> QED BY <1>1, <1>2, <1>3, <2>1 DEF Shape
<1>5. LockInv(mutex, HaveMutex)'
  BY <1>1, <1>2, LockStays DEF SeatInv, LockInv, HaveMutex, Joining
<1>6. LockInv(customer_serve, HaveServe)'
  BY <1>1, <1>2, LockStays DEF SeatInv, LockInv, HaveServe
<1>7. LockInv(customer_done, HaveDone)'
  BY <1>1, <1>2, LockStays DEF SeatInv, LockInv, HaveDone
<1>8. TablesConserved'
  BY <1>1, <1>2, TablesStay DEF SeatInv, HaveTable, AtSlot, HaveDone
<1>9. SlotInv'
  BY <1>1, <1>2, <1>3, SlotsStay DEF SeatInv, AtSlot
<1>10. SizeInv'
  BY <1>1, <1>2, <1>3, SizesStay DEF SeatInv, HaveDone
<1>11. LineInv'
  BY <1>1, <1>2, LineStays DEF SeatInv, Shape, Uncounted, Joining
<1> QED BY <1>4, <1>5, <1>6, <1>7, <1>8, <1>9, <1>10, <1>11 DEF SeatInv

(* call_next_group looks at entries within the queue, and calls only a group.  *)
LEMMA CallNextInv ==
  ASSUME NEW g \in Groups, SeatInv,
         Find(g) \/ Peek(g, SizeThere(g) = local[g]) \/ Call(g)
  PROVE  SeatInv'
<1>1. /\ \/ Goto(g, "find", "freeUp") \/ Goto(g, "find", "peek")
         \/ Goto(g, "peek", "call") \/ Goto(g, "peek", "find") \/ Goto(g, "peek", "crashed")
         \/ Goto(g, "call", "freeUp")
      /\ UNCHANGED <<sems, table_state, state>>
      /\ UNCHANGED <<queue, queue_grp_state, new_group_index, local>>
      /\ Shape
  BY DEF Find, FindNext, Peek, Call, SeatInv, line
<1>2. /\ at' \in [Groups -> Nat] /\ \A h \in Groups \ {g} : at'[h] = at[h]
      /\ pc'[g] \in {"peek", "call"} => at'[g] \in DOMAIN queue
      /\ pc'[g] = "call" => queue[at'[g]] \in Groups
  <2>1. /\ at \in [Groups -> Nat] /\ new_group_index \in Nat /\ pc \in [Groups -> Labels]
        /\ queue_grp_state \subseteq DOMAIN queue /\ DOMAIN queue \subseteq Nat
        /\ queue \in [DOMAIN queue -> Groups \cup {NoGroup}]
    BY <1>1, FS_CardinalityType, GroupsAssumption DEF Shape
  <2>2. CASE Find(g)
    <3> DEFINE here == {i \in at[g]..new_group_index-1 : i \in queue_grp_state}
    <3>1. here \in SUBSET Nat /\ here \subseteq queue_grp_state
      BY <2>1
    <3>2. here = {} => at' = at /\ pc'[g] = "freeUp"
      BY <2>1, <2>2 DEF Find, FindNext, Goto
    <3>3. here # {} => at' = [at EXCEPT ![g] = Min(here)] /\ pc'[g] = "peek"
      BY <2>1, <2>2 DEF Find, FindNext, Goto
    <3> HIDE DEF here
    <3>4. here # {} => Min(here) \in here
      BY <3>1, MinOfNaturals
    <3> QED BY <2>1, <3>1, <3>2, <3>3, <3>4
  <2>3. CASE Peek(g, SizeThere(g) = local[g])
    <3>1. pc[g] = "peek"
      BY <2>3 DEF Peek, Goto
    <3>2. at[g] \in DOMAIN queue
      BY <3>1 DEF SeatInv, LineInv
    <3>3. \/ at' = [at EXCEPT ![g] = @] /\ queue[at[g]] # NoGroup
          \/ at' = [at EXCEPT ![g] = @ + 1] /\ pc'[g] \in {"find", "crashed"}
      BY <2>1, <2>3 DEF Peek, Goto
    <3> QED BY <2>1, <3>2, <3>3
  <2>4. CASE Call(g)
    BY <2>1, <2>4 DEF Call, Goto
  <2> QED BY <2>2, <2>3, <2>4
<1>3. my_turn_to_go' \in [Groups -> Nat]
  <2>1. CASE Call(g)
    <3>1. queue[at[g]] \in Groups
      BY <2>1 DEF SeatInv, LineInv, Call, Goto
    <3> QED BY <1>1, <2>1, <3>1 DEF Call, sem_post, Shape
  <2>2. CASE ~ Call(g)
    BY <1>1, <2>2 DEF Find, FindNext, Peek, Shape
  <2> QED BY <2>1, <2>2
<1>4. Shape'
  <2>1. pc' \in [Groups -> Labels]
    BY <1>1 DEF Shape, Goto, Labels, HaveDone
  <2> QED BY <1>1, <1>2, <1>3, <2>1 DEF Shape, sems
<1>5. /\ LockInv(mutex, HaveMutex)' /\ LockInv(customer_serve, HaveServe)'
      /\ LockInv(customer_done, HaveDone)' /\ TablesConserved' /\ SlotInv'
  BY <1>1, SeatsStay DEF HaveMutex, Joining, HaveServe, HaveDone, HaveTable, AtSlot
<1>6. SizeInv'
  BY <1>1, SizesStay DEF SeatInv, Shape, HaveDone
<1>7. LineInv'
  <2>1. Counted' = Counted /\ pc'[g] \notin Joining /\ \A h \in Groups \ {g} : pc'[h] = pc[h]
    <3>1. /\ pc' = [pc EXCEPT ![g] = pc'[g]] /\ pc \in [Groups -> Labels]
          /\ pc[g] \notin Uncounted /\ pc'[g] \notin Uncounted
      BY <1>1 DEF Uncounted, Joining, Goto, Shape
    <3>2. pc'[g] \notin Joining
      BY <3>1 DEF Uncounted, Joining
    <3> QED BY <3>1, <3>2 DEF Counted
  <2>2. ASSUME NEW h \in Groups
        PROVE  /\ pc'[h] \in {"put", "show", "add"} => at'[h] <= Cardinality(Counted)
               /\ pc'[h] \in {"peek", "call"} => at'[h] \in DOMAIN queue
               /\ pc'[h] = "call" => queue[at'[h]] \in Groups
    <3>1. CASE h = g
      BY <1>2, <2>1, <3>1 DEF Joining
    <3>2. CASE h # g
      BY <1>2, <2>1, <3>2 DEF SeatInv, LineInv
    <3> QED BY <3>1, <3>2
  <2> QED BY <1>1, <2>1, <2>2 DEF SeatInv, LineInv
<1> QED BY <1>4, <1>5, <1>6, <1>7 DEF SeatInv

-----------------------------------------------------------------------------
(* An empty restaurant is as SeatInv says,                                     *)
LEMMA SeatInvStarts == Init => SeatInv
<1> SUFFICES ASSUME Init
             PROVE  SeatInv
  OBVIOUS
<1>1. /\ \A n, L : "idle" \notin L => At(n, L) = {}
      /\ Cardinality({}) = 0 /\ Cardinality(Groups) \in Nat
  BY FS_EmptySet, FS_CardinalityType, GroupsAssumption DEF At, Init
<1>2. /\ "idle" \notin HaveMutex /\ "idle" \notin HaveServe /\ "idle" \notin HaveDone
      /\ "idle" \notin HaveTable /\ "idle" \notin AtSlot
  BY DEF HaveMutex, Joining, HaveServe, HaveDone, HaveTable, AtSlot
<1>3. num_tables \in [Types -> Nat]
  BY TypesAssumption DEF Types
<1>4. Shape
  BY <1>1, <1>3 DEF Init, Shape, GroupStates, Labels, ERROR
<1>5. /\ LockInv(mutex, HaveMutex) /\ LockInv(customer_serve, HaveServe)
      /\ LockInv(customer_done, HaveDone)
  BY <1>1, <1>2 DEF Init, LockInv, OneUnit
<1>6. TablesConserved
  <2>1. \A n \in Types : Cardinality(At(n, HaveTable)) = 0 /\ num_tables[n] \in Nat
    BY <1>1, <1>2, <1>3
  <2> QED BY <2>1 DEF Init, TablesConserved
<1>7. SlotInv
  BY <1>1, <1>2 DEF Init, SlotInv
<1>8. SizeInv
  BY <1>2 DEF Init, SizeInv
<1>9. LineInv
  <2>1. Cardinality(Counted) = 0
    <3>1. Counted = {}
      BY DEF Init, Counted, Uncounted, Joining
    <3> QED BY <1>1, <3>1
  <2> QED BY <2>1 DEF Init, LineInv
<1> QED BY <1>4, <1>5, <1>6, <1>7, <1>8, <1>9 DEF SeatInv

(* ... and every step leaves it so.                                            *)
LEMMA SeatInvStays == SeatInv /\ [Next]_vars => SeatInv'
<1> SUFFICES ASSUME SeatInv, [Next]_vars
             PROVE  SeatInv'
  OBVIOUS
<1>1. ASSUME NEW g \in Groups, Enter(g) \/ Depart(g)
      PROVE  SeatInv'
  BY <1>1, CommandInv
<1>2. ASSUME NEW g \in Groups, request_for_table(g)
      PROVE  SeatInv'
  BY <1>2, RecordInv, ReadIndexInv, EnlistInv, CountInv, TurnInv, UnlockInv, TakeTableInv,
     ServeInv, AssignInv, ServedInv DEF request_for_table, enqueue
<1>3. ASSUME NEW g \in Groups, leave_table(g)
      PROVE  SeatInv'
  BY <1>3, LeaveInv, FreeInv, MarkInv, CallNextInv, FreeUpInv, LeftInv DEF leave_table
<1>4. CASE UNCHANGED vars
  <2>1. Shape' /\ \A n, L : At(n, L)' = At(n, L)
    BY <1>4 DEF SeatInv, Shape, At, vars, sems, line
  <2>2. Counted' = Counted
    BY <1>4 DEF Counted, vars
  <2>3. /\ LockInv(mutex, HaveMutex)' /\ LockInv(customer_serve, HaveServe)'
        /\ LockInv(customer_done, HaveDone)' /\ TablesConserved'
    BY <1>4, <2>1 DEF SeatInv, LockInv, TablesConserved, vars, sems
  <2>4. SlotInv' /\ SizeInv' /\ LineInv'
    BY <1>4, <2>1, <2>2 DEF SeatInv, SlotInv, SizeInv, LineInv, vars, line
  <2> QED BY <2>1, <2>3, <2>4 DEF SeatInv
<1> QED BY <1>1, <1>2, <1>3, <1>4 DEF Next

(* Whatever the interleaving, the locks, the tables, the slots and the queue   *)
(* stay as SeatInv says: one thread has each lock, each occupied slot has one  *)
(* group, and no type has more tables available than tables that are free.     *)
THEOREM SeatInvariant == Spec => []SeatInv
BY SeatInvStarts, SeatInvStays, PTL DEF Spec

(* The locks stay binary, no type has more tables available than tables, and   *)
(* the queue is written within its bounds, although groups of different sizes  *)
(* read the index and write it back in any order.                              *)
THEOREM RestaurantTypes == Spec => []TypeOK
<1>1. SeatInv => TypeOK
  <2> SUFFICES ASSUME SeatInv
               PROVE  TypeOK
    OBVIOUS
  <2>1. \A n \in Types : mutex[n] \in {0, 1} /\ customer_serve[n] \in {0, 1}
                         /\ customer_done[n] \in {0, 1}
    BY DEF SeatInv, LockInv, OneUnit
  <2>2. {mutex, customer_serve, customer_done} \subseteq [Types -> {0, 1}]
    BY <2>1 DEF SeatInv, Shape
  <2>3. ASSUME NEW n \in Types
        PROVE  table_available[n] \in 0..num_tables[n] /\ table_state[n] \subseteq 0..table_num(n)-1
    <3>1. /\ Cardinality(At(n, HaveTable)) \in Nat /\ table_available[n] \in Nat
          /\ table_available[n] + Cardinality(At(n, HaveTable)) = num_tables[n]
      BY AtFinite DEF SeatInv, Shape, TablesConserved
    <3>2. table_state[n] \subseteq 0..num_tables[n]-1
      BY DEF SeatInv, SlotInv
    <3> QED BY <3>1, <3>2, TablesBefore
  <2>4. new_group_index \in 0..Cardinality(Groups)
    <3>1. Counted \subseteq Groups
      BY DEF Counted
    <3>2. Cardinality(Counted) <= Cardinality(Groups) /\ Cardinality(Counted) \in Nat
          /\ Cardinality(Groups) \in Nat
      BY <3>1, FS_Subset, FS_CardinalityType, GroupsAssumption
    <3> QED BY <3>2 DEF SeatInv, LineInv, Shape
  <2>5. ASSUME NEW g \in Groups, pc[g] \in {"put", "show"}
        PROVE  at[g] \in DOMAIN queue
    <3>1. /\ pc[g] \in Joining /\ at[g] \in Nat /\ at[g] <= Cardinality(Counted)
          /\ DOMAIN queue = 0..Cardinality(Groups)-1
      BY <2>5 DEF SeatInv, LineInv, Shape, Joining
    <3> HIDE DEF Counted
    <3> QED BY <3>1, CountedLess
  <2> QED BY <2>2, <2>3, <2>4, <2>5 DEF SeatInv, Shape, TypeOK
<1> QED BY <1>1, SeatInvariant, PTL

(* However groups come and go, the tables of a type that are available and     *)
(* those in the hands of groups make up the tables it has.                     *)
THEOREM TablesAreConserved == Spec => []TablesConserved
<1>1. SeatInv => TablesConserved
  BY DEF SeatInv
<1> QED BY <1>1, SeatInvariant, PTL

(* Groups that eat are at different tables, each at one of its own size: the   *)
(* error return of assign_table, and the slots past the tables of the type,    *)
(* are never reached.                                                          *)
THEOREM SeatsAreExclusive == Spec => []SeatsExclusive
<1>1. SeatInv => SeatsExclusive
  <2> SUFFICES ASSUME SeatInv,
                      NEW g \in Groups, AtTable(g) \/ pc[g] \in {"served", "seated"}
               PROVE  /\ state[g].table_assigned \in Before(Size[g]) .. table_num(Size[g]) - 1
                      /\ \A h \in Groups \ {g} :
                           AtTable(h) => state[h].table_assigned # state[g].table_assigned
    BY DEF SeatsExclusive
  <2>1. \A h \in Groups : Size[h] \in Types /\ state[h].table_assigned \in Int
    BY GroupSizeAssumption DEF Types, SeatInv, Shape, GroupStates
  <2>2. \A h \in Groups : AtTable(h) \/ pc[h] \in {"served", "seated"} =>
                           h \in At(Size[h], AtSlot)
    BY DEF AtTable, SeatInv, SlotInv, At, AtSlot
  <2>3. ASSUME NEW h \in Groups, h \in At(Size[h], AtSlot)
        PROVE  state[h].table_assigned \in Before(Size[h]) .. table_num(Size[h]) - 1
    <3>1. state[h].table_assigned - Before(Size[h]) \in 0..num_tables[Size[h]]-1
      BY <2>1, <2>3 DEF SeatInv, SlotInv
    <3> QED BY <2>1, <3>1, TablesBefore
  <2>4. ASSUME NEW h \in Groups \ {g}, AtTable(h)
        PROVE  state[h].table_assigned # state[g].table_assigned
    <3>1. h \in At(Size[h], AtSlot) /\ g \in At(Size[g], AtSlot)
      BY <2>2, <2>4
    <3>2. CASE Size[h] = Size[g]
      BY <2>1, <3>1, <3>2 DEF SeatInv, SlotInv
    <3>3. CASE Size[h] < Size[g]
      BY <2>1, <2>3, <3>1, <3>3, TablesBefore
    <3>4. CASE Size[g] < Size[h]
      BY <2>1, <2>3, <3>1, <3>4, TablesBefore
    <3>5. Size[h] \in Int /\ Size[g] \in Int
      BY <2>1 DEF Types
    <3> QED BY <3>2, <3>3, <3>4, <3>5
  <2> QED BY <2>2, <2>3, <2>4
<1> QED BY <1>1, SeatInvariant, PTL

-----------------------------------------------------------------------------
(* One command at a time: whose step it is                                     *)

(* A step of g leaves the places of the other threads alone, and what their    *)
(* group_state says of them; but for a call, it leaves their turns alone, too. *)
OwnPlace(g) ==
  \A h \in Groups \ {g} :
    /\ pc'[h] = pc[h] /\ at'[h] = at[h]
    /\ state'[h].queue_ticket = state[h].queue_ticket
    /\ state'[h].state_of_group = state[h].state_of_group

OwnStep(g) ==
  /\ OwnPlace(g)
  /\ \A h \in Groups \ {g} :
       /\ pc'[h] = pc[h]
       /\ my_turn_to_go'[h] = my_turn_to_go[h] /\ local'[h] = local[h]

LEMMA OwnSteps ==
  ASSUME NEW g \in Groups, Shape,
         Enter(g) \/ Depart(g) \/ request_for_table(g) \/ leave_table(g), ~Call(g)
  PROVE  OwnStep(g)
<1>1. /\ pc \in [Groups -> Labels] /\ my_turn_to_go \in [Groups -> Nat]
      /\ state \in [Groups -> GroupStates] /\ local \in [Groups -> Nat] /\ at \in [Groups -> Nat]
  BY DEF Shape
<1>2. CASE Enter(g) \/ Depart(g)
  BY <1>1, <1>2 DEF OwnStep, OwnPlace, Enter, Depart, Command, Goto
<1>3. CASE request_for_table(g)
  BY <1>1, <1>3 DEF OwnStep, OwnPlace, request_for_table, enqueue, Record, ReadIndex, Enlist, Show, Count,
     Look, InitTurn, Unlock, AwaitTurn, TakeTable, Serve, assign_table, Served, Goto, sem_wait
<1>4. CASE leave_table(g)
  BY <1>1, <1>4 DEF OwnStep, OwnPlace, leave_table, Leave, free_table, Mark, Find, FindNext, Peek, FreeUp,
     Left, Goto
<1> QED BY <1>2, <1>3, <1>4

(* The labels at which a thread has the restaurant to itself.                  *)
Alone == Labels \ {"idle", "seated", "gone", "turn", "take", "serve", "assign", "served",
                   "freeUp", "left"}

LEMMA OthersSettled ==
  ASSUME NEW g \in Groups, NEW h \in Groups \ {g}, SeatInv, OneMoves, pc[g] \in Alone
  PROVE  Settled(h)
<1>1. ~Settled(g) /\ ~Follows(g, h) /\ ~Follows(h, g)
  BY DEF Alone, Settled, Waiting, Follows, Invited
<1> QED BY <1>1 DEF OneMoves

(* Whoever moves alone is the only one to move afterwards.                     *)
LEMMA AloneMoves ==
  ASSUME NEW g \in Groups, SeatInv, OneMoves, OwnStep(g),
         \/ pc[g] \in Alone
         \/ \A h \in Groups \ {g} : Settled(h)
         \/ pc'[g] \in {"seated", "gone"}
  PROVE  OneMoves'
<1>2. Settled(g)' \/ \A h \in Groups \ {g} : Settled(h)
  <2>1. CASE pc'[g] \in {"seated", "gone"}
    BY <2>1 DEF Settled
  <2> QED BY <2>1, OthersSettled
<1> SUFFICES ASSUME NEW h \in Groups, NEW k \in Groups, h # k
             PROVE  Settled(h)' \/ Settled(k)' \/ Follows(h, k)' \/ Follows(k, h)'
  BY DEF OneMoves
<1>3. CASE h = g \/ k = g
  <2>1. Settled(g)' \/ ((h # g => Settled(h)') /\ (k # g => Settled(k)'))
    BY <1>2 DEF OwnStep, Settled, Waiting
  <2> QED BY <1>3, <2>1
<1>4. CASE h # g /\ k # g
  <2>1. Settled(h) \/ Settled(k) \/ Follows(h, k) \/ Follows(k, h)
    BY <1>4 DEF OneMoves
  <2>2. /\ Settled(h) => Settled(h)'
        /\ Settled(k) => Settled(k)'
        /\ Follows(h, k) => Follows(h, k)'
        /\ Follows(k, h) => Follows(k, h)'
    BY <1>4 DEF OwnStep, Settled, Waiting, Follows, Invited
  <2> QED BY <2>1, <2>2
<1> QED BY <1>3, <1>4

-----------------------------------------------------------------------------
(* The turns and the tables                                                    *)

(* What TurnsInv says of one group.                                            *)
TurnOf(g) ==
  /\ my_turn_to_go[g] \in {0, 1}
  /\ pc[g] \notin {"unlock", "turn"} => my_turn_to_go[g] = 0
  /\ pc[g] = "init" => local[g] = table_available[Size[g]]
  /\ pc[g] = "unlock" => (my_turn_to_go[g] # 0 <=> table_available[Size[g]] > 0)

(* A step that leaves the tables and the turns alone.                          *)
LEMMA TurnsStay ==
  ASSUME NEW g \in Groups, SeatInv, TurnsInv, OwnStep(g),
         table_available' = table_available, my_turn_to_go'[g] = my_turn_to_go[g],
         pc[g] \notin {"init", "unlock", "turn", "take", "freeUp"},
         pc'[g] \notin {"init", "unlock", "turn", "take", "freeUp"}
  PROVE  TurnsInv'
<1>1. \A h \in Groups :
        /\ pc'[h] \in {"init", "unlock", "turn", "take", "freeUp"} <=>
             pc[h] \in {"init", "unlock", "turn", "take", "freeUp"}
        /\ pc'[h] \in {"init", "unlock", "turn", "take", "freeUp"} =>
             pc'[h] = pc[h] /\ local'[h] = local[h]
        /\ my_turn_to_go'[h] = my_turn_to_go[h]
  BY DEF OwnStep
<1> HIDE DEF OwnStep
<1>2. ASSUME NEW h \in Groups
      PROVE  TurnOf(h)'
  BY <1>1, <1>2 DEF TurnsInv, TurnOf
<1>3. ASSUME NEW h \in Groups, Invited(h)'
      PROVE  \/ table_available'[Size[h]] > 0
             \/ \E k \in Groups : pc'[k] = "freeUp" /\ Size[k] = Size[h]
  <2>1. Invited(h)
    BY <1>1, <1>3 DEF Invited
  <2> QED BY <1>1, <2>1 DEF TurnsInv
<1>4. ASSUME NEW h \in Groups, Waiting(h)'
      PROVE  \/ table_available'[Size[h]] = 0
             \/ /\ table_available'[Size[h]] = 1
                /\ \E k \in Groups : Invited(k)' /\ Size[k] = Size[h]
  <2>1. Waiting(h)
    BY <1>1, <1>4 DEF Waiting
  <2> QED BY <1>1, <2>1 DEF TurnsInv, Invited
<1>5. ASSUME NEW h \in Groups, pc'[h] = "freeUp"
      PROVE  \/ /\ table_available'[Size[h]] = 0
                /\ \E k \in Groups : Invited(k)' /\ Size[k] = Size[h]
             \/ \A k \in Groups : Size[k] = Size[h] => ~Waiting(k)' /\ ~Invited(k)'
  <2>1. pc[h] = "freeUp"
    BY <1>1, <1>5
  <2> QED BY <1>1, <2>1 DEF TurnsInv, Invited, Waiting
<1> QED BY <1>2, <1>3, <1>4, <1>5 DEF TurnsInv, TurnOf

(* While a thread moves alone, no group has its turn, so that those that wait  *)
(* have no table.                                                              *)
LEMMA NoneInvited ==
  ASSUME NEW g \in Groups, NEW h \in Groups, SeatInv, OneMoves, TurnsInv, pc[g] \in Alone
  PROVE  /\ ~Invited(h) /\ pc[h] # "freeUp"
         /\ Waiting(h) => h # g /\ table_available[Size[h]] = 0
         /\ h # g => pc[h] \in {"idle", "seated", "gone", "turn"}
<1>1. \A k \in Groups : ~Invited(k) /\ pc[k] # "freeUp"
                        /\ (k # g => pc[k] \in {"idle", "seated", "gone", "turn"})
  <2> SUFFICES ASSUME NEW k \in Groups
               PROVE  ~Invited(k) /\ pc[k] # "freeUp"
                      /\ (k # g => pc[k] \in {"idle", "seated", "gone", "turn"})
    OBVIOUS
  <2>1. CASE k = g
    BY <2>1 DEF Alone, Invited
  <2>2. CASE k # g
    BY <2>2, OthersSettled DEF Settled, Waiting, Invited
  <2> QED BY <2>1, <2>2
<1>2. Waiting(h) => h # g
  BY DEF Waiting, Alone
<1> QED BY <1>1, <1>2 DEF TurnsInv

(* A step of such a thread that leaves the tables alone.                       *)
LEMMA AloneTurns ==
  ASSUME NEW g \in Groups, SeatInv, OneMoves, TurnsInv, OwnStep(g), pc[g] \in Alone,
         table_available' = table_available, TurnOf(g)',
         Invited(g)' => table_available[Size[g]] > 0,
         Waiting(g)' => table_available[Size[g]] = 0,
         pc'[g] = "freeUp" => \A h \in Groups : Size[h] = Size[g] => ~Waiting(h)
  PROVE  TurnsInv'
<1>1. \A h \in Groups : /\ ~Invited(h) /\ pc[h] # "freeUp"
                        /\ Waiting(h) => table_available[Size[h]] = 0
  BY NoneInvited
<1>2. \A h \in Groups \ {g} : pc'[h] = pc[h] /\ my_turn_to_go'[h] = my_turn_to_go[h]
                              /\ local'[h] = local[h]
  BY DEF OwnStep
<1>3. ASSUME NEW h \in Groups
      PROVE  TurnOf(h)'
  BY <1>2, <1>3 DEF TurnsInv, TurnOf
<1>4. ASSUME NEW h \in Groups, Invited(h)'
      PROVE  table_available'[Size[h]] > 0
  BY <1>1, <1>2, <1>4 DEF Invited
<1>5. ASSUME NEW h \in Groups, Waiting(h)'
      PROVE  table_available'[Size[h]] = 0
  BY <1>1, <1>2, <1>5 DEF Waiting
<1>6. ASSUME NEW h \in Groups, pc'[h] = "freeUp", NEW k \in Groups, Size[k] = Size[h]
      PROVE  ~Waiting(k)' /\ ~Invited(k)'
  <2>1. h = g
    BY <1>1, <1>2, <1>6
  <2> QED BY <1>1, <1>2, <1>6, <2>1 DEF Waiting, Invited
<1> QED BY <1>3, <1>4, <1>5, <1>6 DEF TurnsInv, TurnOf

(* sem_wait(&state->my_turn_to_go): the group keeps its turn.                  *)
LEMMA AwaitTurnTurns ==
  ASSUME NEW g \in Groups, SeatInv, OneMoves, TurnsInv, AwaitTurn(g)
  PROVE  TurnsInv' /\ OneMoves'
<1>1. /\ pc \in [Groups -> Labels] /\ my_turn_to_go \in [Groups -> Nat]
      /\ pc[g] = "turn" /\ pc' = [pc EXCEPT ![g] = "take"]
      /\ my_turn_to_go[g] > 0
      /\ my_turn_to_go' = [my_turn_to_go EXCEPT ![g] = my_turn_to_go[g] - 1]
      /\ table_available' = table_available /\ local' = local
  BY DEF AwaitTurn, Goto, sem_wait, sems, SeatInv, Shape
<1>2. my_turn_to_go[g] = 1 /\ my_turn_to_go'[g] = 0 /\ pc'[g] = "take"
      /\ \A h \in Groups \ {g} : pc'[h] = pc[h] /\ my_turn_to_go'[h] = my_turn_to_go[h]
  BY <1>1 DEF TurnsInv
<1>3. ASSUME NEW h \in Groups
      PROVE  /\ pc'[h] \in {"freeUp", "left", "serve", "assign", "served", "idle", "seated",
                             "gone"} \/ pc[h] \in {"freeUp", "left", "serve", "assign", "served",
                                                    "idle", "seated", "gone"}
                  => pc'[h] = pc[h]
             /\ (pc'[h] = "take" \/ (pc'[h] = "turn" /\ my_turn_to_go'[h] # 0)) <=> Invited(h)
             /\ (pc'[h] = "turn" /\ my_turn_to_go'[h] = 0) <=> Waiting(h)
  BY <1>1, <1>2 DEF Invited, Waiting
<1>4. TurnsInv'
  <2>1. ASSUME NEW h \in Groups
        PROVE  TurnOf(h)'
    BY <1>1, <1>2 DEF TurnsInv, TurnOf
  <2>2. ASSUME NEW h \in Groups, Invited(h)'
        PROVE  \/ table_available'[Size[h]] > 0
               \/ \E k \in Groups : pc'[k] = "freeUp" /\ Size[k] = Size[h]
    <3>1. Invited(h)
      BY <1>3, <2>2 DEF Invited
    <3> QED BY <1>1, <1>3, <3>1 DEF TurnsInv
  <2>3. ASSUME NEW h \in Groups, Waiting(h)'
        PROVE  \/ table_available'[Size[h]] = 0
               \/ /\ table_available'[Size[h]] = 1
                  /\ \E k \in Groups : Invited(k)' /\ Size[k] = Size[h]
    <3>1. Waiting(h)
      BY <1>3, <2>3 DEF Waiting
    <3> QED BY <1>1, <1>3, <3>1 DEF TurnsInv, Invited
  <2>4. ASSUME NEW h \in Groups, pc'[h] = "freeUp"
        PROVE  \/ /\ table_available'[Size[h]] = 0
                  /\ \E k \in Groups : Invited(k)' /\ Size[k] = Size[h]
               \/ \A k \in Groups : Size[k] = Size[h] => ~Waiting(k)' /\ ~Invited(k)'
    <3>1. pc[h] = "freeUp"
      BY <1>3, <2>4
    <3> QED BY <1>1, <1>3, <3>1 DEF TurnsInv, Invited, Waiting
  <2> QED BY <2>1, <2>2, <2>3, <2>4 DEF TurnsInv, TurnOf
<1>5. OneMoves'
  <2> SUFFICES ASSUME NEW h \in Groups, NEW k \in Groups, h # k
               PROVE  Settled(h)' \/ Settled(k)' \/ Follows(h, k)' \/ Follows(k, h)'
    BY DEF OneMoves
  <2>1. Settled(h) \/ Settled(k) \/ Follows(h, k) \/ Follows(k, h)
    BY DEF OneMoves
  <2>2. /\ Settled(h) => Settled(h)'
        /\ Settled(k) => Settled(k)'
        /\ Follows(h, k) => Follows(h, k)'
        /\ Follows(k, h) => Follows(k, h)'
    BY <1>3 DEF Settled, Waiting, Follows, Invited
  <2> QED BY <2>1, <2>2
<1> QED BY <1>4, <1>5

(* The group that is being seated goes on, next to the leaver that called it.  *)
LEMMA ServingMoves ==
  ASSUME NEW g \in Groups, SeatInv, OneMoves, OwnStep(g),
         \/ pc[g] \in {"serve", "assign"} /\ pc'[g] \in {"assign", "served"}
         \/ pc[g] = "freeUp" /\ pc'[g] = "left"
  PROVE  OneMoves'
<1> SUFFICES ASSUME NEW h \in Groups, NEW k \in Groups, h # k
             PROVE  Settled(h)' \/ Settled(k)' \/ Follows(h, k)' \/ Follows(k, h)'
  BY DEF OneMoves
<1>1. Settled(h) \/ Settled(k) \/ Follows(h, k) \/ Follows(k, h)
  BY DEF OneMoves
<1>2. /\ Settled(h) => Settled(h)'
      /\ Settled(k) => Settled(k)'
  BY DEF OwnStep, Settled, Waiting
<1>3. /\ Follows(h, k) => Follows(h, k)'
      /\ Follows(k, h) => Follows(k, h)'
  BY DEF OwnStep, Follows, Invited
<1> QED BY <1>1, <1>2, <1>3

(* sem_wait(&table_available[...]): the group takes the one table that is left *)
(* for it, which the leaver that called it has given back by then.             *)
LEMMA TakeTableTurns ==
  ASSUME NEW g \in Groups, SeatInv, OneMoves, TurnsInv, OwnStep(g), TakeTable(g, Size[g])
  PROVE  TurnsInv' /\ OneMoves'
<1> DEFINE n == Size[g]
<1>1. /\ table_available \in [Types -> Nat] /\ pc \in [Groups -> Labels]
      /\ \A h \in Groups : Size[h] \in Types
  BY GroupSizeAssumption DEF SeatInv, Shape, Types
<1>2. /\ pc[g] = "take" /\ pc'[g] = "serve" /\ my_turn_to_go' = my_turn_to_go
      /\ table_available[n] > 0 /\ table_available[n] \in Nat
      /\ table_available'[n] = table_available[n] - 1
      /\ \A h \in Groups : Size[h] # n => table_available'[Size[h]] = table_available[Size[h]]
  BY <1>1 DEF TakeTable, Goto, sem_wait
<1>3. \A h \in Groups \ {g} : pc'[h] = pc[h] /\ local'[h] = local[h]
  BY DEF OwnStep
<1>4. ASSUME NEW h \in Groups \ {g}
      PROVE  /\ Invited(h) => Size[h] # n
             /\ pc[h] = "freeUp" => Size[h] # n
             /\ pc[h] \notin {"init", "unlock"}
  <2>1. Invited(g) /\ ~Settled(g)
    BY <1>2 DEF Invited, Settled, Waiting
  <2>2. Settled(h) \/ Follows(g, h)
    BY <1>2, <2>1 DEF OneMoves, Follows
  <2>3. pc[h] = "freeUp" => Size[h] # n
    BY <1>2, <2>1 DEF TurnsInv
  <2> QED BY <2>2, <2>3 DEF Settled, Waiting, Invited, Follows
<1>5. TurnsInv'
  <2>1. ASSUME NEW h \in Groups
        PROVE  TurnOf(h)'
    BY <1>2, <1>3, <1>4 DEF TurnsInv, TurnOf
  <2>2. ASSUME NEW h \in Groups, Invited(h)'
        PROVE  \/ table_available'[Size[h]] > 0
               \/ \E k \in Groups : pc'[k] = "freeUp" /\ Size[k] = Size[h]
    <3>1. h # g /\ Invited(h)
      BY <1>2, <1>3, <2>2 DEF Invited
    <3>2. Size[h] # n
      BY <1>4, <3>1
    <3>3. \A k \in Groups : pc[k] = "freeUp" => pc'[k] = "freeUp"
      BY <1>2, <1>3
    <3> QED BY <1>2, <3>1, <3>2, <3>3 DEF TurnsInv
  <2>3. ASSUME NEW h \in Groups, Waiting(h)'
        PROVE  \/ table_available'[Size[h]] = 0
               \/ /\ table_available'[Size[h]] = 1
                  /\ \E k \in Groups : Invited(k)' /\ Size[k] = Size[h]
    <3>1. h # g /\ Waiting(h)
      BY <1>2, <1>3, <2>3 DEF Waiting
    <3>2. CASE Size[h] = n
      BY <1>2, <3>1, <3>2 DEF TurnsInv
    <3>3. CASE Size[h] # n
      <4>1. \A k \in Groups : Invited(k) /\ Size[k] = Size[h] => Invited(k)'
        BY <1>2, <1>3, <3>3 DEF Invited
      <4> QED BY <1>2, <3>1, <3>3, <4>1 DEF TurnsInv, Invited
    <3> QED BY <3>2, <3>3
  <2>4. ASSUME NEW h \in Groups, pc'[h] = "freeUp"
        PROVE  \/ /\ table_available'[Size[h]] = 0
                  /\ \E k \in Groups : Invited(k)' /\ Size[k] = Size[h]
               \/ \A k \in Groups : Size[k] = Size[h] => ~Waiting(k)' /\ ~Invited(k)'
    <3>1. h # g /\ pc[h] = "freeUp" /\ Size[h] # n
      BY <1>2, <1>3, <1>4, <2>4
    <3>2. \A k \in Groups : Size[k] = Size[h] =>
            pc'[k] = pc[k] /\ my_turn_to_go'[k] = my_turn_to_go[k]
      BY <1>2, <1>3, <3>1
    <3> QED BY <1>2, <3>1, <3>2 DEF TurnsInv, Invited, Waiting
  <2> QED BY <2>1, <2>2, <2>3, <2>4 DEF TurnsInv, TurnOf
<1>6. OneMoves'
  <2> SUFFICES ASSUME NEW h \in Groups, NEW k \in Groups, h # k
               PROVE  Settled(h)' \/ Settled(k)' \/ Follows(h, k)' \/ Follows(k, h)'
    BY DEF OneMoves
  <2>1. Settled(h) \/ Settled(k) \/ Follows(h, k) \/ Follows(k, h)
    BY DEF OneMoves
  <2>2. /\ Settled(h) => Settled(h)'
        /\ Settled(k) => Settled(k)'
    BY <1>2, <1>3 DEF Settled, Waiting
  <2>3. /\ Follows(h, k) => Follows(h, k)'
        /\ Follows(k, h) => Follows(k, h)'
    BY <1>2, <1>3, <1>4 DEF Follows, Invited
  <2> QED BY <2>1, <2>2, <2>3
<1> QED BY <1>5, <1>6

(* The leaver gives the table back: there is one for the group it has called.  *)
LEMMA FreeUpTurns ==
  ASSUME NEW g \in Groups, SeatInv, OneMoves, TurnsInv, OwnStep(g), FreeUp(g, local[g])
  PROVE  TurnsInv'
<1> DEFINE n == Size[g]
<1>1. /\ table_available \in [Types -> Nat] /\ pc \in [Groups -> Labels]
      /\ \A h \in Groups : Size[h] \in Types
  BY GroupSizeAssumption DEF SeatInv, Shape, Types
<1>2. /\ pc[g] = "freeUp" /\ pc'[g] = "left" /\ my_turn_to_go' = my_turn_to_go
      /\ local[g] = n /\ table_available[n] \in Nat
      /\ table_available'[n] = table_available[n] + 1
      /\ \A h \in Groups : Size[h] # n => table_available'[Size[h]] = table_available[Size[h]]
  BY <1>1 DEF FreeUp, Goto, sem_post, SeatInv, SizeInv, HaveDone
<1>3. \A h \in Groups \ {g} : pc'[h] = pc[h] /\ local'[h] = local[h]
  BY DEF OwnStep
<1>4. ASSUME NEW h \in Groups
      PROVE  /\ pc[h] = "freeUp" => h = g
             /\ pc[h] \notin {"init", "unlock"}
  BY <1>2 DEF OneMoves, Settled, Waiting, Follows, Invited
<1>5. ASSUME NEW h \in Groups
      PROVE  /\ Invited(h)' <=> Invited(h)
             /\ Waiting(h)' <=> Waiting(h)
  BY <1>2, <1>3 DEF Invited, Waiting
<1>6. ASSUME NEW h \in Groups
      PROVE  TurnOf(h)'
  BY <1>2, <1>3, <1>4 DEF TurnsInv, TurnOf
<1>7. ASSUME NEW h \in Groups, Invited(h)'
      PROVE  table_available'[Size[h]] > 0
  <2>1. Invited(h)
    BY <1>5, <1>7
  <2>2. Size[h] # n => table_available[Size[h]] > 0
    BY <1>4, <2>1 DEF TurnsInv
  <2> QED BY <1>2, <2>2
<1>8. ASSUME NEW h \in Groups, Waiting(h)'
      PROVE  \/ table_available'[Size[h]] = 0
             \/ /\ table_available'[Size[h]] = 1
                /\ \E k \in Groups : Invited(k)' /\ Size[k] = Size[h]
  <2>1. Waiting(h)
    BY <1>5, <1>8
  <2>2. CASE Size[h] = n
    <3>1. PICK k \in Groups : Invited(k) /\ Size[k] = n /\ table_available[n] = 0
      BY <1>2, <2>1, <2>2 DEF TurnsInv
    <3>2. Invited(k)'
      BY <1>5, <3>1
    <3> QED BY <1>2, <2>2, <3>1, <3>2
  <2>3. CASE Size[h] # n
    <3>1. CASE table_available[Size[h]] = 0
      BY <1>2, <2>3, <3>1
    <3>2. CASE table_available[Size[h]] # 0
      <4>1. PICK k \in Groups : Invited(k) /\ Size[k] = Size[h]
        BY <2>1, <3>2 DEF TurnsInv
      <4>2. Invited(k)' /\ table_available[Size[h]] = 1
        BY <1>5, <2>1, <3>2, <4>1 DEF TurnsInv
      <4> QED BY <1>2, <2>3, <4>1, <4>2
    <3> QED BY <3>1, <3>2
  <2> QED BY <2>2, <2>3
<1>9. ASSUME NEW h \in Groups
      PROVE  pc'[h] # "freeUp"
  BY <1>2, <1>3, <1>4
<1> QED BY <1>6, <1>7, <1>8, <1>9 DEF TurnsInv, TurnOf

-----------------------------------------------------------------------------
(* The queue                                                                   *)

(* What OrderInv says of one group, and of one ticket.                         *)
Placed(g) ==
  LET i == state[g].queue_ticket
  IN /\ pc[g] # "crashed"
     /\ pc[g] \in Joining => i = new_group_index
     /\ pc[g] \in {"put", "show", "add"} => at[g] = i
     /\ pc[g] \in InQueue => i \in DOMAIN queue /\ queue[i] = g
     /\ pc[g] \in InQueue \ Joining => i < new_group_index
     /\ pc[g] \in NotGone => i \in queue_grp_state
     /\ state[g].state_of_group = "WAIT" <=> pc[g] \in Joining \/ Requesting(g)
     /\ pc[g] \in AtSlot \cup {"mark"} => state[g].state_of_group = "EAT"

TicketOf(i) ==
  queue[i] \in Groups /\ pc[queue[i]] \in NotGone /\ state[queue[i]].queue_ticket = i

LEMMA OrderParts ==
  OrderInv <=> (\A g \in Groups : Placed(g)) /\ (\A i \in queue_grp_state : TicketOf(i))
  BY DEF OrderInv, Up, Placed, TicketOf

(* A step that leaves the queue alone, within the part of the call that is in  *)
(* the queue, or out of it.                                                    *)
LEMMA OrderStays ==
  ASSUME NEW g \in Groups, SeatInv, OrderInv, OwnPlace(g),
         UNCHANGED <<queue, queue_grp_state, new_group_index>>,
         state'[g].queue_ticket = state[g].queue_ticket,
         state'[g].state_of_group = state[g].state_of_group,
         pc'[g] \notin Joining, pc[g] \notin Joining, pc'[g] # "crashed",
         pc'[g] \in InQueue <=> pc[g] \in InQueue,
         pc'[g] \in NotGone <=> pc[g] \in NotGone,
         Requesting(g)' <=> Requesting(g),
         pc'[g] \in AtSlot \cup {"mark"} => pc[g] \in AtSlot \cup {"mark"}
  PROVE  OrderInv'
<1>1. ASSUME NEW h \in Groups
      PROVE  Placed(h)'
  <2>1. Placed(h) /\ Placed(g)
    BY OrderParts
  <2>2. CASE h = g
    BY <2>1, <2>2 DEF Placed, Joining
  <2>3. CASE h # g
    BY <2>1, <2>3 DEF Placed, OwnPlace, Requesting
  <2> QED BY <2>2, <2>3
<1>2. ASSUME NEW i \in queue_grp_state
      PROVE  TicketOf(i)'
  <2>1. TicketOf(i) /\ queue[i] \in Groups
    BY OrderParts DEF TicketOf
  <2> QED BY <2>1 DEF TicketOf, OwnPlace
<1> QED BY <1>1, <1>2 DEF OrderInv, Up, Placed, TicketOf

LEMMA RecordOrder ==
  ASSUME NEW g \in Groups, SeatInv, OrderInv, OwnPlace(g), Record(g)
  PROVE  OrderInv'
<1>1. /\ pc[g] = "enter" /\ pc'[g] = "enlist"
      /\ UNCHANGED <<queue, queue_grp_state, new_group_index, at>>
      /\ state'[g].queue_ticket = new_group_index /\ state'[g].state_of_group = "WAIT"
  <2>1. pc \in [Groups -> Labels] /\ state \in [Groups -> GroupStates]
    BY DEF SeatInv, Shape
  <2> QED BY <2>1 DEF Record, Goto, line, GroupStates
<1>2. ASSUME NEW h \in Groups
      PROVE  Placed(h)'
  <2>1. Placed(h)
    BY OrderParts
  <2>2. CASE h = g
    BY <1>1, <2>2 DEF Placed, InQueue, NotGone, AtSlot, Joining, Requesting
  <2>3. CASE h # g
    BY <1>1, <2>1, <2>3 DEF Placed, OwnPlace, Requesting
  <2> QED BY <2>2, <2>3
<1>3. ASSUME NEW i \in queue_grp_state
      PROVE  TicketOf(i)'
  <2>1. TicketOf(i) /\ queue[i] \in Groups
    BY OrderParts DEF TicketOf
  <2>2. queue[i] # g
    BY <1>1, <2>1 DEF TicketOf, NotGone, InQueue
  <2> QED BY <1>1, <2>1, <2>2 DEF TicketOf, OwnPlace
<1> QED BY <1>1, <1>2, <1>3 DEF OrderInv, Up, Placed, TicketOf

(* The others have tickets below that of a group that joins.                   *)
LEMMA OthersBefore ==
  ASSUME NEW g \in Groups, NEW h \in Groups \ {g}, SeatInv, OneMoves, OrderInv,
         pc[g] \in Joining
  PROVE  /\ pc[h] \notin Joining
         /\ pc[h] \in InQueue => state[h].queue_ticket < state[g].queue_ticket
<1>1. pc[h] \notin Joining
  BY OthersSettled DEF Settled, Waiting, Alone, Labels, HaveMutex, Joining
<1> QED BY <1>1, OrderParts DEF Placed

(* A group that joins reads the index, and finds its ticket.                   *)
LEMMA ReadIndexOrder ==
  ASSUME NEW g \in Groups, SeatInv, OrderInv, OwnPlace(g),
         \/ ReadIndex(g, "enlist", "put") \/ ReadIndex(g, "reread", "show")
         \/ ReadIndex(g, "count", "add")
  PROVE  OrderInv'
<1>1. /\ \/ pc[g] = "enlist" /\ pc'[g] = "put"
         \/ pc[g] = "reread" /\ pc'[g] = "show"
         \/ pc[g] = "count" /\ pc'[g] = "add"
      /\ UNCHANGED <<queue, queue_grp_state, new_group_index, state>>
      /\ at'[g] = new_group_index
  <2>1. pc \in [Groups -> Labels] /\ at \in [Groups -> Nat]
    BY DEF SeatInv, Shape
  <2> QED BY <2>1 DEF ReadIndex, Goto, line
<1>2. /\ pc[g] \in InQueue <=> pc'[g] \in InQueue
      /\ pc[g] \in NotGone <=> pc'[g] \in NotGone
  BY <1>1 DEF InQueue, NotGone, Labels, HaveMutex, Joining
<1>3. ASSUME NEW h \in Groups
      PROVE  Placed(h)'
  <2>1. Placed(h)
    BY OrderParts
  <2>2. CASE h = g
    BY <1>1, <1>2, <2>1, <2>2 DEF Placed, Joining, AtSlot, Requesting
  <2>3. CASE h # g
    BY <1>1, <2>1, <2>3 DEF Placed, OwnPlace, Requesting
  <2> QED BY <2>2, <2>3
<1>4. ASSUME NEW i \in queue_grp_state
      PROVE  TicketOf(i)'
  <2>1. TicketOf(i) /\ queue[i] \in Groups
    BY OrderParts DEF TicketOf
  <2> QED BY <1>1, <1>2, <2>1 DEF TicketOf, OwnPlace
<1> QED BY <1>1, <1>3, <1>4 DEF OrderInv, Up, Placed, TicketOf

(* The group is put at its ticket, which nobody has.                           *)
LEMMA EnlistOrder ==
  ASSUME NEW g \in Groups, SeatInv, OneMoves, OrderInv, OwnPlace(g), Enlist(g)
  PROVE  OrderInv'
<1> DEFINE k == state[g].queue_ticket
<1>1. /\ pc[g] = "put" /\ pc'[g] = "reread" /\ state' = state /\ at' = at
      /\ UNCHANGED <<queue_grp_state, new_group_index>>
      /\ k \in DOMAIN queue /\ DOMAIN queue' = DOMAIN queue
      /\ queue'[k] = g /\ \A i \in DOMAIN queue : i # k => queue'[i] = queue[i]
  <2>1. /\ pc \in [Groups -> Labels] /\ at[g] \in Nat
        /\ queue \in [0..Cardinality(Groups)-1 -> Groups \cup {NoGroup}]
    BY DEF SeatInv, Shape
  <2>2. pc[g] = "put" /\ pc'[g] = "reread" /\ queue' = [queue EXCEPT ![at[g]] = g]
    BY <2>1 DEF Enlist, Goto
  <2>3. k = at[g] /\ at[g] <= Cardinality(Counted)
    BY <2>2, OrderParts DEF Placed, SeatInv, LineInv
  <2>4. k \in DOMAIN queue
    <3>1. pc[g] \in Joining
      BY <2>2 DEF Joining
    <3> HIDE DEF Counted
    <3> QED BY <2>1, <2>3, <3>1, CountedLess
  <2> QED BY <2>1, <2>2, <2>3, <2>4 DEF Enlist
<1>2. pc[g] \in Joining
  BY <1>1 DEF Joining
<1>3. k \in Nat /\ \A h \in Groups \ {g} : pc[h] \in InQueue =>
                      state[h].queue_ticket \in Nat /\ state[h].queue_ticket # k
  <2>1. \A h \in Groups : state[h].queue_ticket \in Nat
    BY DEF SeatInv, Shape, GroupStates
  <2> QED BY <1>2, <2>1, OthersBefore
<1> HIDE DEF k
<1>4. ASSUME NEW h \in Groups
      PROVE  Placed(h)'
  <2>1. Placed(h) /\ Placed(g)
    BY OrderParts
  <2>2. CASE h = g
    BY <1>1, <2>1, <2>2 DEF Placed, InQueue, NotGone, AtSlot, Joining, Requesting, k
  <2>3. CASE h # g
    BY <1>1, <1>3, <2>1, <2>3 DEF Placed, OwnPlace, Requesting, NotGone
  <2> QED BY <2>2, <2>3
<1>5. ASSUME NEW i \in queue_grp_state
      PROVE  TicketOf(i)'
  <2>1. TicketOf(i) /\ queue[i] \in Groups /\ i \in DOMAIN queue
    BY OrderParts DEF TicketOf, SeatInv, Shape
  <2>2. queue[i] # g /\ i # k
    BY <1>1, <1>3, <2>1 DEF TicketOf, NotGone, InQueue
  <2> QED BY <1>1, <2>1, <2>2 DEF TicketOf, OwnPlace
<1> QED BY <1>1, <1>4, <1>5 DEF OrderInv, Up, Placed, TicketOf

(* The ticket that is marked is that of the group.                             *)
LEMMA ShowOrder ==
  ASSUME NEW g \in Groups, SeatInv, OrderInv, OwnPlace(g), Show(g)
  PROVE  OrderInv'
<1>1. /\ pc[g] = "show" /\ pc'[g] = "count" /\ state' = state /\ at' = at
      /\ UNCHANGED <<queue, new_group_index>>
      /\ queue_grp_state' = queue_grp_state \cup {state[g].queue_ticket}
  <2>1. pc \in [Groups -> Labels] /\ Placed(g)
    BY OrderParts DEF SeatInv, Shape
  <2> QED BY <2>1 DEF Show, Goto, Placed
<1>2. "show" \in InQueue /\ {"count"} \subseteq NotGone /\ NotGone \subseteq InQueue
  BY DEF InQueue, NotGone, Labels, HaveMutex, Joining
<1>3. ASSUME NEW h \in Groups
      PROVE  Placed(h)'
  <2>1. Placed(h)
    BY OrderParts
  <2>2. CASE h = g
    BY <1>1, <1>2, <2>1, <2>2 DEF Placed, AtSlot, Joining, Requesting
  <2>3. CASE h # g
    BY <1>1, <2>1, <2>3 DEF Placed, OwnPlace, Requesting
  <2> QED BY <2>2, <2>3
<1>4. ASSUME NEW i \in queue_grp_state'
      PROVE  TicketOf(i)'
  <2>1. CASE i \in queue_grp_state
    <3>1. TicketOf(i) /\ queue[i] \in Groups
      BY <2>1, OrderParts DEF TicketOf
    <3> QED BY <1>1, <1>2, <3>1 DEF TicketOf, OwnPlace
  <2>2. CASE i = state[g].queue_ticket
    <3>1. queue[i] = g
      BY <1>1, <1>2, <2>2, OrderParts DEF Placed
    <3> QED BY <1>1, <1>2, <2>2, <3>1 DEF TicketOf
  <2> QED BY <1>1, <2>1, <2>2
<1> QED BY <1>3, <1>4 DEF OrderInv, Up, Placed, TicketOf

LEMMA CountOrder ==
  ASSUME NEW g \in Groups, SeatInv, OneMoves, OrderInv, OwnPlace(g), Count(g)
  PROVE  OrderInv'
<1>1. /\ pc \in [Groups -> Labels] /\ new_group_index \in Nat
      /\ \A h \in Groups : state[h].queue_ticket \in Nat
  BY DEF SeatInv, Shape, GroupStates
<1>2. /\ pc[g] = "add" /\ pc'[g] = "look" /\ state' = state /\ at' = at
      /\ UNCHANGED <<queue, queue_grp_state>>
      /\ new_group_index' = new_group_index + 1
  <2>1. Placed(g)
    BY OrderParts
  <2> QED BY <1>1, <2>1 DEF Count, Goto, Placed, Joining
<1>3. ASSUME NEW h \in Groups
      PROVE  Placed(h)'
  <2>1. Placed(h) /\ Placed(g)
    BY OrderParts
  <2>2. CASE h = g
    BY <1>1, <1>2, <2>1, <2>2 DEF Placed, InQueue, NotGone, AtSlot, Requesting, Labels,
       HaveTable, HaveMutex, Joining
  <2>3. CASE h # g
    <3>1. pc[h] \notin Joining
      BY <1>2, <2>3, OthersBefore DEF Joining
    <3> QED BY <1>1, <1>2, <2>1, <2>3, <3>1 DEF Placed, OwnPlace, Requesting
  <2> QED BY <2>2, <2>3
<1>4. ASSUME NEW i \in queue_grp_state
      PROVE  TicketOf(i)'
  <2>1. TicketOf(i) /\ queue[i] \in Groups
    BY OrderParts DEF TicketOf
  <2>2. "look" \in NotGone
    BY DEF NotGone, InQueue, Labels, HaveMutex, Joining
  <2> QED BY <1>2, <2>1, <2>2 DEF TicketOf, OwnPlace
<1> QED BY <1>2, <1>3, <1>4 DEF OrderInv, Up, Placed, TicketOf

(* assign_table finds a table of the size that nobody has.                     *)
LEMMA Assigned ==
  ASSUME NEW g \in Groups, SeatInv, assign_table(g, Size[g])
  PROVE  /\ pc[g] = "assign" /\ pc'[g] = "served" /\ state'[g].state_of_group = "EAT"
         /\ state'[g].queue_ticket = state[g].queue_ticket
         /\ \E i \in (0..num_tables[Size[g]]-1) \ table_state[Size[g]] :
              state'[g].table_assigned = Before(Size[g]) + i
         /\ UNCHANGED <<queue, queue_grp_state, new_group_index, table_available,
                        my_turn_to_go, at>>
<1> DEFINE n == Size[g]
           i == Min((0..table_num(n)-1) \ table_state[n])
<1>1. /\ n \in Types /\ pc \in [Groups -> Labels] /\ state \in [Groups -> GroupStates]
      /\ pc[g] = "assign" /\ pc'[g] = "served"
  BY GroupSizeAssumption DEF assign_table, Types, SeatInv, Shape, Goto
<1>2. /\ (0..table_num(n)-1) \ table_state[n] # {}
      /\ i \in (0..num_tables[n]-1) \ table_state[n]
  BY <1>1, SlotFree
<1>3. i \in Nat /\ table_id(n, i) = Before(n) + i
  BY <1>1, <1>2, TablesBefore DEF table_id
<1>4. /\ UNCHANGED <<queue, queue_grp_state, new_group_index, table_available,
                     my_turn_to_go, at>>
      /\ state' = [state EXCEPT ![g].state_of_group = "EAT",
                                ![g].table_assigned = table_id(n, i)]
  BY <1>2 DEF assign_table, sems, line
<1> HIDE DEF i
<1>5. /\ state'[g].state_of_group = "EAT" /\ state'[g].table_assigned = table_id(n, i)
      /\ state'[g].queue_ticket = state[g].queue_ticket
  BY <1>1, <1>4 DEF GroupStates
<1> QED BY <1>1, <1>2, <1>3, <1>4, <1>5

LEMMA AssignOrder ==
  ASSUME NEW g \in Groups, SeatInv, OrderInv, OwnPlace(g), assign_table(g, Size[g])
  PROVE  OrderInv'
<1>2. /\ pc[g] = "assign" /\ pc'[g] = "served" /\ at' = at
      /\ UNCHANGED <<queue, queue_grp_state, new_group_index>>
      /\ state'[g].queue_ticket = state[g].queue_ticket
      /\ state'[g].state_of_group = "EAT"
  BY Assigned
<1>3. {"assign", "served"} \subseteq NotGone /\ NotGone \subseteq InQueue
  BY DEF NotGone, InQueue, Labels, HaveTable, AtSlot
<1>4. ASSUME NEW h \in Groups
      PROVE  Placed(h)'
  <2>1. Placed(h)
    BY OrderParts
  <2>2. CASE h = g
    BY <1>2, <1>3, <2>1, <2>2 DEF Placed, Joining, Requesting
  <2>3. CASE h # g
    BY <1>2, <2>1, <2>3 DEF Placed, OwnPlace, Requesting
  <2> QED BY <2>2, <2>3
<1>5. ASSUME NEW i \in queue_grp_state
      PROVE  TicketOf(i)'
  <2>1. TicketOf(i) /\ queue[i] \in Groups
    BY OrderParts DEF TicketOf
  <2> QED BY <1>2, <1>3, <2>1 DEF TicketOf, OwnPlace
<1> QED BY <1>2, <1>4, <1>5 DEF OrderInv, Up, Placed, TicketOf

(* A leaver is marked as gone, and no other group.                             *)
LEMMA MarkOrder ==
  ASSUME NEW g \in Groups, SeatInv, OrderInv, OwnPlace(g), Mark(g)
  PROVE  OrderInv'
<1>1. /\ pc \in [Groups -> Labels] /\ state \in [Groups -> GroupStates]
  BY DEF SeatInv, Shape
<1>2. /\ pc[g] = "mark" /\ pc'[g] = "find"
      /\ UNCHANGED <<queue, new_group_index>>
      /\ state'[g].queue_ticket = state[g].queue_ticket
      /\ state'[g].state_of_group = "LEAVE"
      /\ queue_grp_state' = queue_grp_state \ {state[g].queue_ticket}
  BY <1>1 DEF Mark, Goto, GroupStates
<1>3. /\ "mark" \in InQueue /\ "find" \in InQueue /\ "find" \notin NotGone
      /\ NotGone \subseteq InQueue
  BY DEF NotGone, InQueue, Labels, HaveTable, HaveDone
<1>4. ASSUME NEW h \in Groups
      PROVE  Placed(h)'
  <2>1. Placed(h) /\ Placed(g)
    BY OrderParts
  <2>2. CASE h = g
    BY <1>2, <1>3, <2>1, <2>2 DEF Placed, Joining, Requesting, AtSlot
  <2>3. CASE h # g
    <3>1. pc[h] \in InQueue => state[h].queue_ticket # state[g].queue_ticket
      BY <1>2, <1>3, <2>1, <2>3 DEF Placed
    <3> QED BY <1>2, <1>3, <2>1, <2>3, <3>1 DEF Placed, OwnPlace, Requesting
  <2> QED BY <2>2, <2>3
<1>5. ASSUME NEW i \in queue_grp_state'
      PROVE  TicketOf(i)'
  <2>1. TicketOf(i) /\ queue[i] \in Groups /\ i # state[g].queue_ticket
    BY <1>1, <1>2, OrderParts DEF TicketOf
  <2>2. queue[i] # g
    BY <2>1 DEF TicketOf
  <2> QED BY <1>2, <2>1, <2>2 DEF TicketOf, OwnPlace
<1> QED BY <1>2, <1>4, <1>5 DEF OrderInv, Up, Placed, TicketOf

-----------------------------------------------------------------------------
(* The first of those who wait                                                 *)

(* What FirstInv says of a thread that looks for the next group.               *)
Looking(g) ==
  /\ pc[g] = "peek" => at[g] \in queue_grp_state
  /\ pc[g] = "call" => LET h == queue[at[g]]
                       IN Waiting(h) /\ Size[h] = Size[g] /\ state[h].queue_ticket = at[g]

(* A step of a thread that has the restaurant to itself.                       *)
LEMMA AloneFirst ==
  ASSUME NEW g \in Groups, SeatInv, OwnStep(g), \A h \in Groups \ {g} : Settled(h),
         \A h \in Groups \ {g} : Waiting(h) /\ Size[h] = Size[g] =>
           /\ Invited(g)' \/ pc'[g] \in {"serve", "assign"} =>
                state'[g].queue_ticket < state[h].queue_ticket
           /\ pc'[g] \in {"find", "peek", "call"} => at'[g] <= state[h].queue_ticket,
         pc'[g] = "peek" => at'[g] \in queue_grp_state',
         pc'[g] = "call" => LET h == queue'[at'[g]]
                            IN /\ h \in Groups \ {g} /\ Waiting(h) /\ Size[h] = Size[g]
                               /\ state[h].queue_ticket = at'[g]
  PROVE  FirstInv'
<1>1. \A h \in Groups \ {g} :
        /\ pc'[h] = pc[h] /\ my_turn_to_go'[h] = my_turn_to_go[h]
        /\ state'[h].queue_ticket = state[h].queue_ticket
        /\ pc[h] \in {"idle", "seated", "gone"} \/ Waiting(h)
  BY DEF OwnStep, OwnPlace, Settled
<1>2. ASSUME NEW h \in Groups, NEW k \in Groups, Waiting(k)', Size[k] = Size[h]
      PROVE  /\ Invited(h)' \/ pc'[h] \in {"serve", "assign"} =>
                  state'[h].queue_ticket < state'[k].queue_ticket
             /\ pc'[h] \in {"find", "peek", "call"} => at'[h] <= state'[k].queue_ticket
  <2>1. CASE h # g
    BY <1>1, <2>1 DEF Invited, Waiting
  <2>2. CASE h = k
    BY <1>2, <2>2 DEF Invited, Waiting
  <2>3. CASE h = g /\ k # g
    <3>1. Waiting(k)
      BY <1>1, <1>2, <2>3 DEF Waiting
    <3> QED BY <1>1, <1>2, <2>3, <3>1
  <2> QED BY <2>1, <2>2, <2>3
<1>3. ASSUME NEW h \in Groups
      PROVE  Looking(h)'
  <2>1. CASE h # g
    BY <1>1, <2>1 DEF Looking, Waiting
  <2>2. CASE h = g
    BY <1>1, <2>2 DEF Looking, Waiting
  <2> QED BY <2>1, <2>2
<1> QED BY <1>2, <1>3 DEF FirstInv, Looking

(* A step of a group that had the turn, or of one that has called, leaves the  *)
(* others behind it where they were.                                           *)
LEMMA FirstKept ==
  ASSUME NEW g \in Groups, SeatInv, FirstInv, OwnStep(g),
         UNCHANGED <<queue, queue_grp_state>>,
         state'[g].queue_ticket = state[g].queue_ticket,
         ~Waiting(g), ~Waiting(g)', pc'[g] \notin {"find", "peek", "call"},
         Invited(g)' \/ pc'[g] \in {"serve", "assign"} =>
           Invited(g) \/ pc[g] \in {"serve", "assign"}
  PROVE  FirstInv'
<1>1. \A h \in Groups \ {g} :
        /\ pc'[h] = pc[h] /\ my_turn_to_go'[h] = my_turn_to_go[h] /\ at'[h] = at[h]
        /\ state'[h].queue_ticket = state[h].queue_ticket
  BY DEF OwnStep, OwnPlace
<1>2. ASSUME NEW h \in Groups, NEW k \in Groups, Waiting(k)', Size[k] = Size[h]
      PROVE  /\ Invited(h)' \/ pc'[h] \in {"serve", "assign"} =>
                  state'[h].queue_ticket < state'[k].queue_ticket
             /\ pc'[h] \in {"find", "peek", "call"} => at'[h] <= state'[k].queue_ticket
  <2>1. k # g /\ Waiting(k) /\ state'[k].queue_ticket = state[k].queue_ticket
    BY <1>1, <1>2 DEF Waiting
  <2>2. /\ Invited(h)' \/ pc'[h] \in {"serve", "assign"} =>
             Invited(h) \/ pc[h] \in {"serve", "assign"}
        /\ pc'[h] \in {"find", "peek", "call"} =>
             pc[h] \in {"find", "peek", "call"} /\ at'[h] = at[h]
        /\ state'[h].queue_ticket = state[h].queue_ticket
    BY <1>1 DEF Invited
  <2> QED BY <1>2, <2>1, <2>2 DEF FirstInv
<1>3. ASSUME NEW h \in Groups
      PROVE  Looking(h)'
  <2>1. CASE h = g
    BY <2>1 DEF Looking
  <2>2. CASE h # g /\ pc[h] = "peek"
    BY <1>1, <2>2 DEF FirstInv, Looking
  <2>3. CASE h # g /\ pc[h] = "call"
    <3>1. LET k == queue[at[h]]
          IN Waiting(k) /\ Size[k] = Size[h] /\ state[k].queue_ticket = at[h] /\ k \in Groups
      BY <2>3 DEF FirstInv, SeatInv, LineInv
    <3> QED BY <1>1, <2>3, <3>1 DEF Looking, Waiting
  <2> QED BY <1>1, <2>1, <2>2, <2>3 DEF Looking
<1> QED BY <1>2, <1>3 DEF FirstInv, Looking

(* A group that waits is in the queue, at its ticket, as one that waits.       *)
LEMMA WaitingInLine ==
  ASSUME NEW h \in Groups, SeatInv, OrderInv, Waiting(h)
  PROVE  LET i == state[h].queue_ticket
         IN /\ i \in Nat /\ i < new_group_index /\ i \in queue_grp_state /\ queue[i] = h
            /\ state[h].state_of_group = "WAIT" /\ state[h].size_of_group = Size[h]
<1>1. Placed(h) /\ pc[h] = "turn" /\ Requesting(h)
  BY OrderParts DEF Waiting, Requesting
<1>2. /\ "turn" \in InQueue /\ "turn" \notin Joining /\ "turn" \in NotGone
  BY DEF InQueue, NotGone, Labels, Joining
<1>3. state[h] \in GroupStates /\ state[h].size_of_group = Size[h]
  BY <1>1 DEF SeatInv, Shape, SizeInv
<1> QED BY <1>1, <1>2, <1>3 DEF Placed, GroupStates

-----------------------------------------------------------------------------
(* The steps                                                                   *)

Rest == OneMoves /\ TurnsInv /\ OrderInv /\ FirstInv

(* The driver gives a command when no group is on its way.                     *)
LEMMA CommandRest ==
  ASSUME NEW g \in Groups, ~Together, SeatInv, Rest, Enter(g) \/ Depart(g)
  PROVE  Rest'
<1>1. OwnStep(g)
  BY OwnSteps DEF SeatInv, Enter, Depart, Command, Call, Goto
<1>2. /\ \/ pc[g] = "idle" /\ pc'[g] = "enter"
         \/ pc[g] = "seated" /\ pc'[g] = "leave"
      /\ \A h \in Groups : AtRest(h)
      /\ UNCHANGED <<table_available, queue, queue_grp_state, new_group_index, state,
                     my_turn_to_go>>
  BY DEF Enter, Depart, Command, Goto, SeatInv, Shape, sems, line
<1>3. ASSUME NEW h \in Groups
      PROVE  Settled(h)
  <2>1. pc[h] # "take"
    <3> SUFFICES ASSUME pc[h] = "take"
                 PROVE  FALSE
      OBVIOUS
    <3>1. table_available[Size[h]] = 0
      BY <1>2 DEF AtRest, SeatInv, SizeInv
    <3>2. PICK k \in Groups : pc[k] = "freeUp"
      BY <3>1 DEF Rest, TurnsInv, Invited
    <3> QED BY <1>2, <3>2 DEF AtRest
  <2> QED BY <1>2, <2>1 DEF AtRest, Settled, Waiting
<1>4. OneMoves'
  BY <1>1, <1>3, AloneMoves DEF Rest
<1>5. TurnsInv'
  BY <1>1, <1>2, TurnsStay DEF Rest
<1>6. OrderInv'
  BY <1>1, <1>2, OrderStays DEF Rest, OwnStep, Joining, InQueue, NotGone, AtSlot, Labels, HaveTable, Requesting
<1>7. FirstInv'
  BY <1>1, <1>2, <1>3, AloneFirst DEF Invited
<1> QED BY <1>4, <1>5, <1>6, <1>7 DEF Rest

(* request_for_table, with the mutex of the size: the group joins the queue.   *)
LEMMA JoinRest ==
  ASSUME NEW g \in Groups, SeatInv, Rest, Record(g) \/ enqueue(g)
  PROVE  Rest'
<1>1. OwnStep(g) /\ OwnPlace(g)
  BY OwnSteps DEF SeatInv, request_for_table, enqueue, Record, ReadIndex, Enlist, Show, Count,
     Call, Goto, OwnStep
<1>2. /\ \/ pc[g] = "enter" /\ pc'[g] = "enlist"
         \/ pc[g] \in Joining /\ pc'[g] \in Joining \cup {"look"}
      /\ UNCHANGED <<table_available, my_turn_to_go>>
  BY DEF enqueue, Record, ReadIndex, Enlist, Show, Count, Joining, Goto, SeatInv, Shape, sems
<1>3. pc[g] \in Alone
  BY <1>2 DEF Alone, Labels, HaveMutex, Joining
<1>4. OneMoves'
  BY <1>1, <1>3, AloneMoves DEF Rest
<1>5. TurnsInv'
  BY <1>1, <1>2, TurnsStay DEF Rest, Joining
<1>6. OrderInv'
  BY <1>1, RecordOrder, ReadIndexOrder, EnlistOrder, ShowOrder, CountOrder DEF Rest, enqueue
<1>7. FirstInv'
  BY <1>1, <1>2, <1>3, OthersSettled, AloneFirst DEF Rest, Invited, Joining
<1> QED BY <1>4, <1>5, <1>6, <1>7 DEF Rest

(* ... and takes its turn at once if there is a table, when no group waits for *)
(* one.                                                                        *)
LEMMA TurnRest ==
  ASSUME NEW g \in Groups, SeatInv, Rest, Look(g) \/ InitTurn(g) \/ Unlock(g)
  PROVE  Rest'
<1>1. OwnStep(g) /\ OwnPlace(g)
  BY OwnSteps DEF SeatInv, request_for_table, Look, InitTurn, Unlock, Call, Goto, OwnStep
<1>2. /\ \/ pc[g] = "look" /\ pc'[g] = "init"
         \/ pc[g] = "init" /\ pc'[g] = "unlock"
         \/ pc[g] = "unlock" /\ pc'[g] = "turn"
      /\ UNCHANGED <<table_available, queue, queue_grp_state, new_group_index, state>>
  BY DEF Look, InitTurn, Unlock, Goto, SeatInv, Shape, sems, line
<1>3. pc[g] \in Alone
  BY <1>2 DEF Alone, Labels, HaveMutex, Joining
<1>4. table_available[Size[g]] \in Nat
  BY GroupSizeAssumption DEF SeatInv, Shape, Types
<1>5. TurnOf(g)'
  <2>1. CASE Look(g)
    BY <1>2, <2>1 DEF Look, Goto, TurnOf, Rest, TurnsInv, SeatInv, Shape
  <2>2. CASE InitTurn(g)
    BY <1>2, <1>4, <2>2 DEF InitTurn, Goto, TurnOf, Rest, TurnsInv, SeatInv, Shape
  <2>3. CASE Unlock(g)
    BY <1>2, <2>3 DEF Unlock, Goto, TurnOf, Rest, TurnsInv, SeatInv, Shape
  <2> QED BY <2>1, <2>2, <2>3
<1>6. /\ Invited(g)' => table_available[Size[g]] > 0
      /\ Waiting(g)' => table_available[Size[g]] = 0
  <2>1. CASE Unlock(g)
    BY <1>2, <1>4, <2>1 DEF Unlock, Goto, Rest, TurnsInv, SeatInv, Shape, Invited, Waiting
  <2>2. CASE ~Unlock(g)
    BY <1>2, <2>2 DEF Look, InitTurn, Goto, Invited, Waiting
  <2> QED BY <2>1, <2>2
<1>7. OneMoves'
  BY <1>1, <1>3, AloneMoves DEF Rest
<1>8. TurnsInv'
  BY <1>1, <1>2, <1>3, <1>5, <1>6, AloneTurns DEF Rest
<1>9. OrderInv'
  BY <1>1, <1>2, OrderStays DEF Rest, Joining, InQueue, NotGone, AtSlot, Labels, HaveTable, HaveMutex,
     Requesting
<1>10. FirstInv'
  <2>1. \A h \in Groups \ {g} : Settled(h) /\ (Waiting(h) => table_available[Size[h]] = 0)
    BY <1>3, OthersSettled, NoneInvited DEF Rest
  <2> QED BY <1>1, <1>2, <1>4, <1>6, <2>1, AloneFirst
<1> QED BY <1>7, <1>8, <1>9, <1>10 DEF Rest

(* The group takes its table and sits down.                                    *)
LEMMA SeatRest ==
  ASSUME NEW g \in Groups, SeatInv, Rest,
         \/ AwaitTurn(g) \/ TakeTable(g, Size[g]) \/ Serve(g, Size[g])
         \/ assign_table(g, Size[g]) \/ Served(g, Size[g])
  PROVE  Rest'
<1>1. OwnStep(g) /\ OwnPlace(g)
  BY OwnSteps DEF SeatInv, request_for_table, AwaitTurn, TakeTable, Serve, assign_table, Served,
     Call, Goto, OwnStep
<1>2. /\ \/ pc[g] = "turn" /\ pc'[g] = "take" /\ my_turn_to_go[g] # 0
         \/ pc[g] = "take" /\ pc'[g] = "serve"
         \/ pc[g] = "serve" /\ pc'[g] = "assign"
         \/ pc[g] = "assign" /\ pc'[g] = "served"
         \/ pc[g] = "served" /\ pc'[g] = "seated"
      /\ UNCHANGED <<queue, queue_grp_state, new_group_index>>
  BY DEF AwaitTurn, TakeTable, Serve, assign_table, Served, Goto, sem_wait, SeatInv, Shape, line
<1>3. state'[g].queue_ticket = state[g].queue_ticket
  <2>1. CASE assign_table(g, Size[g])
    BY <2>1, Assigned
  <2> QED BY <2>1 DEF AwaitTurn, TakeTable, Serve, Served
<1>4. OneMoves' /\ TurnsInv'
  <2>1. CASE AwaitTurn(g)
    BY <2>1, AwaitTurnTurns DEF Rest
  <2>2. CASE TakeTable(g, Size[g])
    BY <1>1, <2>2, TakeTableTurns DEF Rest
  <2>3. CASE Serve(g, Size[g]) \/ assign_table(g, Size[g]) \/ Served(g, Size[g])
    <3>1. /\ (pc[g] \in {"serve", "assign"} /\ pc'[g] \in {"assign", "served"}) \/ pc'[g] = "seated"
          /\ pc[g] \in {"serve", "assign", "served"} /\ pc'[g] \in {"assign", "served", "seated"}
          /\ UNCHANGED <<table_available, my_turn_to_go>>
      BY <1>2, <2>3 DEF Serve, assign_table, Served, Goto, sems
    <3>2. TurnsInv'
      BY <1>1, <3>1, TurnsStay DEF Rest
    <3> QED BY <1>1, <3>1, <3>2, AloneMoves, ServingMoves DEF Rest
  <2> QED BY <2>1, <2>2, <2>3
<1>5. OrderInv'
  <2>1. CASE assign_table(g, Size[g])
    BY <1>1, <2>1, AssignOrder DEF Rest
  <2>2. CASE ~assign_table(g, Size[g])
    <3>1. state' = state /\ pc[g] # "assign"
      BY <2>2 DEF AwaitTurn, TakeTable, Serve, Served, Goto
    <3> QED BY <1>1, <1>2, <3>1, OrderStays DEF Rest, Joining, InQueue, NotGone, AtSlot, Labels, HaveTable,
            HaveMutex, HaveDone, Requesting
  <2> QED BY <2>1, <2>2
<1>6. FirstInv'
  <2>1. ~Waiting(g) /\ ~Waiting(g)'
    BY <1>2 DEF Waiting
  <2>2. Invited(g)' \/ pc'[g] \in {"serve", "assign"} =>
          Invited(g) \/ pc[g] \in {"serve", "assign"}
    BY <1>2 DEF Invited
  <2> QED BY <1>1, <1>2, <1>3, <2>1, <2>2, FirstKept DEF Rest
<1> QED BY <1>4, <1>5, <1>6 DEF Rest

(* leave_table, up to the mark: the leaver starts to look at the head of the   *)
(* queue.                                                                      *)
LEMMA LeaveRest ==
  ASSUME NEW g \in Groups, SeatInv, Rest, Leave(g) \/ free_table(g) \/ Mark(g)
  PROVE  Rest'
<1>1. OwnStep(g) /\ OwnPlace(g)
  BY OwnSteps DEF SeatInv, leave_table, Leave, free_table, Mark, Call, Goto, OwnStep
<1>2. /\ \/ pc[g] = "leave" /\ pc'[g] = "free"
         \/ pc[g] = "free" /\ pc'[g] = "mark"
         \/ pc[g] = "mark" /\ pc'[g] = "find" /\ at'[g] = 0
      /\ UNCHANGED <<table_available, my_turn_to_go>>
  BY DEF Leave, free_table, Mark, Goto, SeatInv, Shape, sems
<1>3. pc[g] \in Alone
  BY <1>2 DEF Alone, Labels, HaveTable, AtSlot, HaveDone
<1>4. OneMoves'
  BY <1>1, <1>3, AloneMoves DEF Rest
<1>5. TurnsInv'
  BY <1>1, <1>2, TurnsStay DEF Rest
<1>6. OrderInv'
  <2>1. CASE Mark(g)
    BY <1>1, <2>1, MarkOrder DEF Rest
  <2>2. CASE ~Mark(g)
    <3>1. /\ UNCHANGED <<state, queue, queue_grp_state, new_group_index>>
          /\ pc[g] # "mark"
      BY <2>2 DEF Leave, free_table, Goto, line
    <3> QED BY <1>1, <1>2, <3>1, OrderStays DEF Rest, Joining, InQueue, NotGone, AtSlot, Labels, HaveTable,
            HaveDone, Requesting
  <2> QED BY <2>1, <2>2
<1>7. FirstInv'
  <2>1. \A h \in Groups \ {g} : Settled(h) /\ state[h].queue_ticket \in Nat
    BY <1>3, OthersSettled DEF Rest, SeatInv, Shape, GroupStates
  <2> QED BY <1>1, <1>2, <2>1, AloneFirst DEF Invited
<1> QED BY <1>4, <1>5, <1>6, <1>7 DEF Rest

(* The search goes from one ticket that is not gone to the next, and comes to  *)
(* an end when no group waits for the size.                                    *)
LEMMA FindRest ==
  ASSUME NEW g \in Groups, SeatInv, Rest, Find(g)
  PROVE  Rest'
<1> DEFINE here == {i \in at[g]..new_group_index-1 : i \in queue_grp_state}
<1>1. OwnStep(g) /\ OwnPlace(g)
  BY OwnSteps DEF SeatInv, leave_table, Find, FindNext, Call, Goto, OwnStep
<1>2. /\ pc[g] = "find" /\ at \in [Groups -> Nat] /\ new_group_index \in Nat
      /\ here # {} => pc'[g] = "peek" /\ at'[g] = Min(here)
      /\ here = {} => pc'[g] = "freeUp"
      /\ UNCHANGED <<table_available, my_turn_to_go, queue, queue_grp_state, new_group_index,
                     state>>
  BY DEF Find, FindNext, Goto, SeatInv, Shape, sems, line
<1>3. pc[g] \in Alone
  BY <1>2 DEF Alone, Labels, HaveDone
<1>4. here \in SUBSET Nat
  BY <1>2
<1>5. ASSUME NEW h \in Groups \ {g}, Waiting(h), Size[h] = Size[g]
      PROVE  state[h].queue_ticket \in here
  <2>1. at[g] <= state[h].queue_ticket
    BY <1>2, <1>5 DEF Rest, FirstInv
  <2> QED BY <1>2, <1>5, <2>1, WaitingInLine DEF Rest
<1>6. here # {} => Min(here) \in queue_grp_state /\ \A i \in here : Min(here) <= i
  BY <1>4, MinOfNaturals
<1>7. ~Waiting(g) /\ TurnOf(g)' /\ ~Waiting(g)' /\ ~Invited(g)'
  BY <1>2 DEF Waiting, Invited, TurnOf, Rest, TurnsInv
<1> HIDE DEF here
<1>8. OneMoves'
  BY <1>1, <1>3, AloneMoves DEF Rest
<1>9. TurnsInv'
  <2>1. pc'[g] = "freeUp" => \A h \in Groups : Size[h] = Size[g] => ~Waiting(h)
    BY <1>2, <1>5, <1>7
  <2> QED BY <1>1, <1>2, <1>3, <1>7, <2>1, AloneTurns DEF Rest
<1>10. OrderInv'
  BY <1>1, <1>2, OrderStays DEF Rest, Joining, InQueue, NotGone, AtSlot, Labels, HaveTable, HaveDone,
     Requesting
<1>11. FirstInv'
  <2>1. \A h \in Groups \ {g} : Settled(h)
    BY <1>3, OthersSettled DEF Rest
  <2>2. pc'[g] \notin {"find", "call", "serve", "assign"}
    BY <1>2
  <2> QED BY <1>1, <1>2, <1>5, <1>6, <1>7, <2>1, <2>2, AloneFirst
<1> QED BY <1>8, <1>9, <1>10, <1>11 DEF Rest

(* The group at the ticket is called if it waits and fits, and passed over if  *)
(* not.                                                                        *)
LEMMA PeekRest ==
  ASSUME NEW g \in Groups, SeatInv, Rest, Peek(g, SizeThere(g) = local[g])
  PROVE  Rest'
<1> DEFINE q == queue[at[g]]
           found == state[q].state_of_group = "WAIT" /\ SizeThere(g) = local[g]
<1>1. OwnStep(g) /\ OwnPlace(g)
  BY OwnSteps DEF SeatInv, leave_table, Peek, Call, Goto, OwnStep
<1>2. /\ pc[g] = "peek" /\ pc \in [Groups -> Labels] /\ at \in [Groups -> Nat]
      /\ UNCHANGED <<table_available, my_turn_to_go, queue, queue_grp_state, new_group_index,
                     state>>
  BY DEF Peek, Goto, SeatInv, Shape, sems, line
<1>3. pc[g] \in Alone
  BY <1>2 DEF Alone, Labels, HaveDone
<1>4. /\ at[g] \in queue_grp_state /\ q \in Groups /\ pc[q] \in NotGone
      /\ state[q].queue_ticket = at[g] /\ Placed(q) /\ q # g
      /\ found => pc'[g] = "call" /\ at'[g] = at[g]
      /\ ~found => pc'[g] = "find" /\ at'[g] = at[g] + 1
  <2>1. at[g] \in queue_grp_state
    BY <1>2 DEF Rest, FirstInv
  <2>2. q \in Groups /\ pc[q] \in NotGone /\ state[q].queue_ticket = at[g] /\ Placed(q)
    BY <2>1, OrderParts DEF Rest, TicketOf
  <2>3. q # NoGroup
    BY <2>2, GroupsAssumption
  <2>4. /\ found => pc'[g] = "call" /\ at'[g] = at[g]
        /\ ~found => pc'[g] = "find" /\ at'[g] = at[g] + 1
    BY <1>2, <2>3 DEF Peek, Goto
  <2> QED BY <1>2, <2>1, <2>2, <2>4 DEF NotGone
<1>5. /\ local[g] = Size[g] /\ SizeThere(g) = Size[q]
  BY <1>2, <1>4 DEF SeatInv, SizeInv, SizeThere, HaveDone, NotGone, InQueue
<1>6. found => Waiting(q) /\ Size[q] = Size[g]
  <2>1. Settled(q)
    BY <1>3, <1>4, OthersSettled DEF Rest
  <2> QED BY <1>4, <1>5, <2>1 DEF Joining, Settled, Placed, Requesting
<1>7. ASSUME NEW h \in Groups \ {g}, Waiting(h), Size[h] = Size[g]
      PROVE  at'[g] <= state[h].queue_ticket
  <2>1. at[g] <= state[h].queue_ticket
    BY <1>2, <1>7 DEF Rest, FirstInv
  <2>2. state[h].queue_ticket = at[g] => h = q /\ found
    BY <1>5, <1>7, WaitingInLine DEF Rest
  <2>3. state[h].queue_ticket \in Nat
    BY <1>7, WaitingInLine DEF Rest
  <2> QED BY <1>2, <1>4, <2>1, <2>2, <2>3
<1>8. TurnOf(g)' /\ ~Waiting(g)' /\ ~Invited(g)'
  BY <1>2, <1>4 DEF Waiting, Invited, TurnOf, Rest, TurnsInv
<1>9. OneMoves'
  BY <1>1, <1>3, AloneMoves DEF Rest
<1>10. TurnsInv'
  BY <1>1, <1>2, <1>4, TurnsStay DEF Rest
<1>11. OrderInv'
  BY <1>1, <1>2, <1>4, OrderStays DEF Rest, Joining, InQueue, NotGone, AtSlot, Labels, HaveTable, HaveDone,
     Requesting
<1>12. FirstInv'
  <2>1. \A h \in Groups \ {g} : Settled(h)
    BY <1>3, OthersSettled DEF Rest
  <2> HIDE DEF found
  <2>2. pc'[g] \notin {"peek", "serve", "assign"}
    BY <1>4
  <2>3. pc'[g] = "call" => queue'[at'[g]] = q /\ at'[g] = at[g] /\ found
    BY <1>2, <1>4
  <2> QED BY <1>1, <1>4, <1>6, <1>7, <1>8, <2>1, <2>2, <2>3, AloneFirst
<1> QED BY <1>9, <1>10, <1>11, <1>12 DEF Rest

(* The leaver gives back its table and the lock.                               *)
LEMMA GiveRest ==
  ASSUME NEW g \in Groups, SeatInv, Rest, FreeUp(g, local[g]) \/ Left(g, local[g])
  PROVE  Rest'
<1>1. OwnStep(g) /\ OwnPlace(g)
  BY OwnSteps DEF SeatInv, leave_table, FreeUp, Left, Call, Goto, OwnStep
<1>2. /\ \/ pc[g] = "freeUp" /\ pc'[g] = "left" /\ FreeUp(g, local[g])
         \/ /\ pc[g] = "left" /\ pc'[g] = "gone"
            /\ UNCHANGED <<table_available, my_turn_to_go>>
      /\ UNCHANGED <<queue, queue_grp_state, new_group_index, state>>
  BY DEF FreeUp, Left, Goto, SeatInv, Shape, line
<1>3. OneMoves'
  BY <1>1, <1>2, AloneMoves, ServingMoves DEF Rest
<1>4. TurnsInv'
  BY <1>1, <1>2, TurnsStay, FreeUpTurns DEF Rest
<1>5. OrderInv'
  BY <1>1, <1>2, OrderStays DEF Rest, Joining, InQueue, NotGone, AtSlot, Labels, HaveTable, HaveDone,
     Requesting
<1>6. FirstInv'
  BY <1>1, <1>2, FirstKept DEF Rest, Waiting, Invited
<1> QED BY <1>3, <1>4, <1>5, <1>6 DEF Rest

(* The leaver calls the first group that waits for the size: it is the one to  *)
(* move, besides the leaver, and the next table is its.                        *)
LEMMA CallRest ==
  ASSUME NEW g \in Groups, SeatInv, Rest, Call(g)
  PROVE  Rest'
<1> PICK q \in Groups : q = queue[at[g]]
  BY DEF Call, Goto, SeatInv, LineInv
<1>1. /\ pc[g] = "call" /\ pc' = [pc EXCEPT ![g] = "freeUp"] /\ pc'[g] = "freeUp"
      /\ \A h \in Groups \ {g} : pc'[h] = pc[h]
      /\ UNCHANGED <<table_available, queue, queue_grp_state, new_group_index, state, local, at>>
      /\ my_turn_to_go' = [my_turn_to_go EXCEPT ![q] = my_turn_to_go[q] + 1]
      /\ my_turn_to_go \in [Groups -> Nat]
  BY DEF Call, Goto, sem_post, SeatInv, Shape, sems, line
<1>2. /\ Waiting(q) /\ Size[q] = Size[g] /\ state[q].queue_ticket = at[g] /\ q # g
  BY <1>1 DEF Rest, FirstInv, Waiting
<1>3. /\ my_turn_to_go'[q] = 1 /\ pc'[q] = "turn"
      /\ \A h \in Groups \ {q} : my_turn_to_go'[h] = my_turn_to_go[h]
  BY <1>1, <1>2 DEF Waiting
<1>4. pc[g] \in Alone
  BY <1>1 DEF Alone, Labels, HaveDone
<1>5. OwnPlace(g)
  BY <1>1 DEF OwnPlace
<1>6. \A h \in Groups : /\ ~Invited(h) /\ pc[h] # "freeUp"
                        /\ Waiting(h) => table_available[Size[h]] = 0
                        /\ h # g => Settled(h) /\ pc[h] \in {"idle", "seated", "gone", "turn"}
  BY <1>4, NoneInvited, OthersSettled DEF Rest
<1>7. OneMoves'
  <2> SUFFICES ASSUME NEW h \in Groups, NEW k \in Groups, h # k
               PROVE  Settled(h)' \/ Settled(k)' \/ Follows(h, k)' \/ Follows(k, h)'
    BY DEF OneMoves
  <2>1. \A j \in Groups : j # g /\ j # q => Settled(j)'
    BY <1>1, <1>3, <1>6 DEF Settled, Waiting
  <2>2. Follows(q, g)'
    BY <1>1, <1>2, <1>3 DEF Follows, Invited
  <2> QED BY <2>1, <2>2
<1>8. TurnsInv'
  <2>1. ASSUME NEW h \in Groups
        PROVE  TurnOf(h)'
    BY <1>1, <1>2, <1>3 DEF Rest, TurnsInv, TurnOf
  <2>2. ASSUME NEW h \in Groups, Invited(h)'
        PROVE  \E k \in Groups : pc'[k] = "freeUp" /\ Size[k] = Size[h]
    <3>1. h = q
      BY <1>1, <1>3, <1>6, <2>2 DEF Invited
    <3> QED BY <1>1, <1>2, <3>1
  <2>3. ASSUME NEW h \in Groups, Waiting(h)'
        PROVE  table_available'[Size[h]] = 0
    BY <1>1, <1>3, <1>6, <2>3 DEF Waiting
  <2>4. ASSUME NEW h \in Groups, pc'[h] = "freeUp"
        PROVE  /\ table_available'[Size[h]] = 0
               /\ \E k \in Groups : Invited(k)' /\ Size[k] = Size[h]
    <3>1. h = g
      BY <1>1, <1>6, <2>4
    <3>2. Invited(q)'
      BY <1>3 DEF Invited
    <3> QED BY <1>1, <1>2, <1>6, <3>1, <3>2
  <2> QED BY <2>1, <2>2, <2>3, <2>4 DEF TurnsInv, TurnOf
<1>9. OrderInv'
  BY <1>1, <1>5, OrderStays DEF Rest, Joining, InQueue, NotGone, AtSlot, Labels, HaveTable, HaveDone,
     Requesting
<1>10. FirstInv'
  <2>1. ASSUME NEW h \in Groups, NEW k \in Groups, Waiting(k)', Size[k] = Size[h]
        PROVE  /\ Invited(h)' \/ pc'[h] \in {"serve", "assign"} =>
                    state'[h].queue_ticket < state'[k].queue_ticket
               /\ pc'[h] \in {"find", "peek", "call"} => at'[h] <= state'[k].queue_ticket
    <3>1. k # q /\ k # g /\ Waiting(k)
      BY <1>1, <1>3, <2>1 DEF Waiting
    <3>2. Invited(h)' => h = q
      BY <1>1, <1>3, <1>6 DEF Invited
    <3>3. pc'[h] \notin {"serve", "assign", "find", "peek", "call"}
      BY <1>1, <1>6
    <3>4. h = q => state[q].queue_ticket < state[k].queue_ticket
      <4>1. h = q => at[g] <= state[k].queue_ticket
        BY <1>1, <1>2, <2>1, <3>1 DEF Rest, FirstInv
      <4>2. state[q].queue_ticket # state[k].queue_ticket
        BY <1>2, <3>1, WaitingInLine DEF Rest
      <4>3. state[k].queue_ticket \in Nat /\ state[q].queue_ticket \in Nat
        BY <1>2, <3>1, WaitingInLine DEF Rest
      <4> QED BY <1>2, <4>1, <4>2, <4>3
    <3> QED BY <1>1, <3>2, <3>3, <3>4
  <2>2. ASSUME NEW h \in Groups
        PROVE  pc'[h] \notin {"peek", "call"}
    BY <1>1, <1>6
  <2> QED BY <2>1, <2>2 DEF FirstInv
<1> QED BY <1>7, <1>8, <1>9, <1>10 DEF Rest

-----------------------------------------------------------------------------
(* With one command of the driver at a time, one group moves, with the group   *)
(* it has called; the tables of a size are for those that were given their     *)
(* turn; and the first of those that wait is the next to be called.            *)
THEOREM QuietInvariant == ~Together => (Spec => []QuietInv)
<1> SUFFICES ASSUME ~Together
             PROVE  Spec => []QuietInv
  OBVIOUS
<1>1. Init => Rest
  <2> SUFFICES ASSUME Init
               PROVE  Rest
    OBVIOUS
  <2>1. \A g \in Groups : pc[g] = "idle" /\ my_turn_to_go[g] = 0
                          /\ state[g].state_of_group = "ARRIVE"
    BY DEF Init
  <2>2. OneMoves /\ TurnsInv /\ FirstInv
    BY <2>1 DEF OneMoves, Settled, TurnsInv, FirstInv, Invited, Waiting
  <2>3. OrderInv
    BY <2>1 DEF OrderInv, Up, Joining, InQueue, NotGone, Requesting, AtSlot, Init
  <2> QED BY <2>2, <2>3 DEF Rest
<1>2. SeatInv /\ SeatInv' /\ Rest /\ [Next]_vars => Rest'
  <2> SUFFICES ASSUME SeatInv, SeatInv', Rest, [Next]_vars
               PROVE  Rest'
    OBVIOUS
  <2>1. ASSUME NEW g \in Groups, Enter(g) \/ Depart(g)
        PROVE  Rest'
    BY <2>1, CommandRest
  <2>2. ASSUME NEW g \in Groups, request_for_table(g)
        PROVE  Rest'
    BY <2>2, JoinRest, TurnRest, SeatRest DEF request_for_table
  <2>3. ASSUME NEW g \in Groups, leave_table(g)
        PROVE  Rest'
    BY <2>3, LeaveRest, FindRest, PeekRest, CallRest, GiveRest DEF leave_table
  <2>4. CASE UNCHANGED vars
    <3>1. OneMoves' /\ TurnsInv'
      BY <2>4 DEF Rest, OneMoves, TurnsInv, Settled, Waiting, Invited, Follows, vars, sems
    <3>2. OrderInv' /\ FirstInv'
      BY <2>4 DEF Rest, OrderInv, Up, FirstInv, Requesting, Waiting, Invited, vars, line
    <3> QED BY <3>1, <3>2 DEF Rest
  <2> QED BY <2>1, <2>2, <2>3, <2>4 DEF Next
<1>3. QuietInv <=> SeatInv /\ Rest
  BY DEF QuietInv, Rest
<1> QED BY <1>1, <1>2, <1>3, SeatInvariant, PTL DEF Spec

(* request_for_table blocks until there is a table, and no longer: when all    *)
(* threads are at rest, no group waits for a size that has a free table.       *)
THEOREM NoTableIsIdle == ~Together => (Spec => []NoIdleTable)
<1> SUFFICES ASSUME ~Together
             PROVE  Spec => []NoIdleTable
  OBVIOUS
<1>1. QuietInv => NoIdleTable
  <2> SUFFICES ASSUME QuietInv, \A h \in Groups : AtRest(h),
                      NEW g \in Groups, pc[g] \in {"turn", "take"}
               PROVE  table_available[Size[g]] = 0
    BY DEF NoIdleTable
  <2>1. \A h \in Groups : /\ pc[h] # "freeUp"
                          /\ pc[h] = "take" => table_available[Size[h]] = 0
                          /\ pc[h] = "turn" => my_turn_to_go[h] = 0
    BY DEF AtRest, QuietInv, SeatInv, SizeInv
  <2>2. \A h \in Groups : ~Invited(h)
    <3> SUFFICES ASSUME NEW h \in Groups, Invited(h)
                 PROVE  FALSE
      OBVIOUS
    <3>1. table_available[Size[h]] > 0
      BY <2>1 DEF QuietInv, TurnsInv
    <3> QED BY <2>1, <3>1 DEF Invited
  <2> QED BY <2>1, <2>2 DEF QuietInv, TurnsInv, Waiting
<1> QED BY <1>1, QuietInvariant, PTL

-----------------------------------------------------------------------------
(* The promise.  The line of the groups in S, by their tickets tk:             *)

Rank(S, tk, g) == Cardinality({h \in S : tk[h] <= tk[g]})
LineOf(S, tk) == [k \in 1..Cardinality(S) |-> CHOOSE g \in S : Rank(S, tk, g) = k]

Tickets(S, tk) == IsFiniteSet(S) /\ tk \in [S -> Nat]
                  /\ \A g, h \in S : tk[g] = tk[h] => g = h

(* ... has them by their ranks, which differ and run from 1 on;                *)
LEMMA RankOrder ==
  ASSUME NEW S, NEW tk, Tickets(S, tk), NEW g \in S
  PROVE  /\ Rank(S, tk, g) \in 1..Cardinality(S)
         /\ \A h \in S : tk[h] < tk[g] => Rank(S, tk, h) < Rank(S, tk, g)
<1> DEFINE U(k) == {h \in S : tk[h] <= tk[k]}
<1>1. ASSUME NEW k \in S
      PROVE  IsFiniteSet(U(k)) /\ Cardinality(U(k)) \in Nat /\ Cardinality(U(k)) <= Cardinality(S)
  <2>1. U(k) \subseteq S /\ IsFiniteSet(S)
    BY DEF Tickets
  <2> HIDE DEF U
  <2> QED BY <2>1, FS_Subset, FS_CardinalityType
<1>2. Cardinality(S) \in Nat
  BY FS_CardinalityType DEF Tickets
<1>3. Cardinality(U(g)) # 0
  <2>1. g \in U(g)
    BY DEF Tickets
  <2> HIDE DEF U
  <2> QED BY <1>1, <2>1, FS_EmptySet
<1>4. ASSUME NEW h \in S, tk[h] < tk[g]
      PROVE  Cardinality(U(h)) < Cardinality(U(g))
  <2>1. U(h) \subseteq U(g) /\ g \in U(g) /\ g \notin U(h)
    BY <1>4 DEF Tickets
  <2> HIDE DEF U
  <2> QED BY <1>1, <2>1, FS_Subset
<1> QED BY <1>1, <1>2, <1>3, <1>4 DEF Rank

LEMMA LineHas ==
  ASSUME NEW S, NEW tk, Tickets(S, tk)
  PROVE  /\ \A k \in 1..Cardinality(S) :
              LineOf(S, tk)[k] \in S /\ Rank(S, tk, LineOf(S, tk)[k]) = k
         /\ \A g \in S : LineOf(S, tk)[Rank(S, tk, g)] = g
         /\ LineOf(S, tk) \in Seq(S) /\ Len(LineOf(S, tk)) = Cardinality(S)
<1> DEFINE n == Cardinality(S)
           f == [g \in S |-> Rank(S, tk, g)]
<1>1. n \in Nat /\ IsFiniteSet(S)
  BY FS_CardinalityType DEF Tickets
<1>2. \A g, h \in S : Rank(S, tk, g) = Rank(S, tk, h) => g = h
  <2> SUFFICES ASSUME NEW g \in S, NEW h \in S, Rank(S, tk, g) = Rank(S, tk, h)
               PROVE  g = h
    OBVIOUS
  <2>1. /\ ~(tk[g] < tk[h]) /\ ~(tk[h] < tk[g])
    BY RankOrder
  <2> QED BY <2>1 DEF Tickets
<1>3. f \in Injection(S, 1..n)
  BY <1>2, RankOrder DEF Injection, IsInjective
<1>4. IsFiniteSet(1..n) /\ Cardinality(1..n) = n
  BY <1>1, FS_Interval
<1>5. f \in Surjection(S, 1..n)
  <2> HIDE DEF f
  <2> QED BY <1>3, <1>4, FS_Injection
<1>6. \A k \in 1..n : \E g \in S : Rank(S, tk, g) = k
  BY <1>5 DEF Surjection
<1>7. \A k \in 1..n : LineOf(S, tk)[k] \in S /\ Rank(S, tk, LineOf(S, tk)[k]) = k
  BY <1>6 DEF LineOf
<1>8. \A g \in S : LineOf(S, tk)[Rank(S, tk, g)] = g
  BY <1>2, <1>7, RankOrder
<1>9. LineOf(S, tk) \in [1..n -> S]
  BY <1>7 DEF LineOf
<1>10. LineOf(S, tk) \in Seq(S)
  BY <1>1, <1>9, SeqDef
<1>11. Len(LineOf(S, tk)) = n
  <2>1. LineOf(S, tk) \in [1..Len(LineOf(S, tk)) -> S] /\ Len(LineOf(S, tk)) \in Nat
    BY <1>10, LenProperties
  <2>2. 1..Len(LineOf(S, tk)) = 1..n
    BY <1>9, <2>1
  <2> QED BY <1>1, <2>1, <2>2
<1> QED BY <1>7, <1>8, <1>10, <1>11

(* ... tickets outside of S do not count;                                      *)
LEMMA LineAgrees ==
  ASSUME NEW S, NEW tk, NEW uk, \A h \in S : tk[h] = uk[h]
  PROVE  /\ LineOf(S, tk) = LineOf(S, uk)
         /\ \A g \in S : Rank(S, tk, g) = Rank(S, uk, g)
<1>1. \A g \in S : {h \in S : tk[h] <= tk[g]} = {h \in S : uk[h] <= uk[g]}
  OBVIOUS
<1>2. \A g \in S : Rank(S, tk, g) = Rank(S, uk, g)
  BY <1>1 DEF Rank
<1>3. ASSUME NEW k
      PROVE  (CHOOSE g \in S : Rank(S, tk, g) = k) = (CHOOSE g \in S : Rank(S, uk, g) = k)
  BY <1>2
<1> QED BY <1>2, <1>3 DEF LineOf

(* ... a group with a greater ticket than all others comes last;               *)
LEMMA LineAppend ==
  ASSUME NEW S, NEW tk, NEW g, Tickets(S \cup {g}, tk), g \notin S,
         \A h \in S : tk[h] < tk[g]
  PROVE  LineOf(S \cup {g}, tk) = Append(LineOf(S, tk), g)
<1> DEFINE U == S \cup {g}
           uk == [h \in S |-> tk[h]]
           n == Cardinality(S)
           s == LineOf(S, uk)
           u == LineOf(U, tk)
<1>1. /\ Tickets(S, uk) /\ Tickets(U, tk)
      /\ n \in Nat /\ Cardinality(U) = n + 1 /\ tk \in [U -> Nat]
  <2>1. IsFiniteSet(S)
    BY FS_Subset DEF Tickets
  <2> QED BY <2>1, FS_AddElement, FS_CardinalityType DEF Tickets
<1>2. \A h \in S : Rank(U, tk, h) = Rank(S, uk, h)
  <2> SUFFICES ASSUME NEW h \in S
               PROVE  {k \in U : tk[k] <= tk[h]} = {k \in S : uk[k] <= uk[h]}
    BY DEF Rank
  <2>1. ~(tk[g] <= tk[h])
    BY <1>1
  <2> QED BY <2>1
<1>3. Rank(U, tk, g) = n + 1
  <2>1. {k \in U : tk[k] <= tk[g]} = U
    BY <1>1
  <2> QED BY <1>1, <2>1 DEF Rank
<1>4. /\ \A k \in 1..n : s[k] \in S /\ Rank(S, uk, s[k]) = k
      /\ s \in Seq(S) /\ Len(s) = n
  BY <1>1, LineHas
<1>5. /\ \A h \in U : u[Rank(U, tk, h)] = h
      /\ u \in Seq(U) /\ Len(u) = n + 1
  <2> HIDE DEF U
  <2> QED BY <1>1, LineHas
<1> HIDE DEF s, u, uk
<1>6. \A k \in 1..n : u[k] = s[k]
  BY <1>2, <1>4, <1>5
<1>7. u[n+1] = g
  BY <1>3, <1>5
<1>8. s \in Seq(U)
  BY <1>4, SeqMonotonic
<1> HIDE DEF U
<1>9. Append(s, g) \in Seq(U) /\ Len(Append(s, g)) = n + 1 /\ g \in U
  BY <1>4, <1>8 DEF U
<1>10. \A k \in 1..n+1 : u[k] = Append(s, g)[k]
  BY <1>1, <1>4, <1>6, <1>7, <1>8
<1>11. u = Append(s, g)
  BY <1>5, <1>9, <1>10, SeqEqual
<1>12. LineOf(S, tk) = s
  BY LineAgrees DEF s, uk
<1> QED BY <1>11, <1>12 DEF u, U

(* ... and when one goes, the others close up.                                 *)
LEMMA LineRemove ==
  ASSUME NEW S, NEW tk, Tickets(S, tk), NEW g \in S
  PROVE  LineOf(S \ {g}, tk) = Promise!RemoveAt(LineOf(S, tk), Rank(S, tk, g))
<1> DEFINE U == S \ {g}
           uk == [h \in U |-> tk[h]]
           n == Cardinality(S)
           i == Rank(S, tk, g)
           s == LineOf(S, tk)
           u == LineOf(U, uk)
           r == SubSeq(s, 1, i-1) \o SubSeq(s, i+1, n)
<1>1. /\ Tickets(U, uk) /\ tk \in [S -> Nat]
      /\ n \in Nat /\ Cardinality(U) = n - 1 /\ i \in 1..n
  <2>1. IsFiniteSet(S) /\ IsFiniteSet(U)
    BY FS_Subset DEF Tickets
  <2> QED BY <2>1, RankOrder, FS_RemoveElement, FS_CardinalityType DEF Tickets
<1>2. \A h \in U : tk[h] < tk[g] => Rank(U, uk, h) = Rank(S, tk, h) /\ Rank(S, tk, h) < i
  <2> SUFFICES ASSUME NEW h \in U, tk[h] < tk[g]
               PROVE  Rank(U, uk, h) = Rank(S, tk, h)
    BY RankOrder
  <2>1. ~(tk[g] <= tk[h])
    BY <1>1
  <2>2. {k \in U : uk[k] <= uk[h]} = {k \in S : tk[k] <= tk[h]}
    BY <2>1
  <2> QED BY <2>2 DEF Rank
<1>3. \A h \in U : tk[g] < tk[h] => Rank(U, uk, h) = Rank(S, tk, h) - 1 /\ i < Rank(S, tk, h)
  <2> SUFFICES ASSUME NEW h \in U, tk[g] < tk[h]
               PROVE  Rank(U, uk, h) = Rank(S, tk, h) - 1
    BY RankOrder
  <2> DEFINE V == {k \in S : tk[k] <= tk[h]}
  <2>1. {k \in U : uk[k] <= uk[h]} = V \ {g} /\ g \in V
    BY <1>1
  <2>2. IsFiniteSet(V)
    BY FS_Subset DEF Tickets
  <2> HIDE DEF V
  <2>3. Cardinality(V \ {g}) = Cardinality(V) - 1
    BY <2>1, <2>2, FS_RemoveElement
  <2> QED BY <2>1, <2>3 DEF Rank, V
<1>4. \A h \in U : tk[h] < tk[g] \/ tk[g] < tk[h]
  BY <1>1 DEF Tickets
<1>5. /\ \A k \in 1..n : s[k] \in S /\ Rank(S, tk, s[k]) = k
      /\ s[i] = g /\ s \in Seq(S) /\ Len(s) = n
  BY LineHas
<1>6. /\ \A h \in U : u[Rank(U, uk, h)] = h
      /\ u \in Seq(U) /\ Len(u) = n - 1
  <2> HIDE DEF U
  <2> QED BY <1>1, LineHas
<1> HIDE DEF s, u, uk, i, n
<1>7. /\ \A k \in 1..i-1 : u[k] = s[k]
      /\ \A k \in i+1..n : u[k-1] = s[k]
  <2>1. \A k \in 1..n : k # i => s[k] \in U /\ Rank(S, tk, s[k]) = k
    BY <1>1, <1>5
  <2>2. \A k \in 1..i-1 : u[k] = s[k]
    <3> SUFFICES ASSUME NEW k \in 1..i-1
                 PROVE  u[k] = s[k]
      OBVIOUS
    <3>1. k \in 1..n /\ k # i /\ k < i
      BY <1>1
    <3>2. Rank(U, uk, s[k]) = k
      BY <1>1, <1>2, <1>3, <1>4, <2>1, <3>1
    <3> QED BY <1>6, <2>1, <3>1, <3>2
  <2>3. \A k \in i+1..n : u[k-1] = s[k]
    <3> SUFFICES ASSUME NEW k \in i+1..n
                 PROVE  u[k-1] = s[k]
      OBVIOUS
    <3>1. k \in 1..n /\ k # i /\ i < k
      BY <1>1
    <3>2. s[k] \in U /\ Rank(S, tk, s[k]) = k /\ ~(k < i)
      BY <1>1, <2>1, <3>1
    <3>3. tk[g] < tk[s[k]]
      BY <1>2, <1>4, <3>2
    <3>4. Rank(U, uk, s[k]) = k - 1
      BY <1>3, <3>2, <3>3
    <3> QED BY <1>6, <3>2, <3>4
  <2> QED BY <2>2, <2>3
<1> HIDE DEF U
<1>8. /\ SubSeq(s, 1, i-1) \in Seq(S) /\ Len(SubSeq(s, 1, i-1)) = i - 1
      /\ \A k \in 1..i-1 : SubSeq(s, 1, i-1)[k] = s[k]
      /\ SubSeq(s, i+1, n) \in Seq(S) /\ Len(SubSeq(s, i+1, n)) = n - i
      /\ \A k \in 1..n-i : SubSeq(s, i+1, n)[k] = s[i+k]
  <2>1. /\ \A k \in 1..i-1 : s[k] \in S
        /\ \A k \in i+1..n : s[k] \in S
    BY <1>1, <1>5
  <2>2. i - 1 \in Int /\ i + 1 \in Int /\ n \in Int /\ 1 \in Int
    BY <1>1
  <2>3. /\ SubSeq(s, 1, i-1) \in Seq(S)
        /\ Len(SubSeq(s, 1, i-1)) = IF 1 <= i-1 THEN i-1-1+1 ELSE 0
        /\ \A k \in 1 .. i-1-1+1 : SubSeq(s, 1, i-1)[k] = s[1+k-1]
    BY <2>1, <2>2, SubSeqProperties
  <2>4. /\ SubSeq(s, i+1, n) \in Seq(S)
        /\ Len(SubSeq(s, i+1, n)) = IF i+1 <= n THEN n-(i+1)+1 ELSE 0
        /\ \A k \in 1 .. n-(i+1)+1 : SubSeq(s, i+1, n)[k] = s[i+1+k-1]
    BY <2>1, <2>2, SubSeqProperties
  <2> QED BY <1>1, <2>3, <2>4
<1>9. /\ r \in Seq(S) /\ Len(r) = n - 1
      /\ \A k \in 1..n-1 : r[k] = IF k <= i - 1 THEN s[k] ELSE s[k+1]
  <2>1. /\ r \in Seq(S) /\ Len(r) = i - 1 + (n - i)
        /\ \A k \in 1..i - 1 + (n - i) :
             r[k] = IF k <= i - 1 THEN SubSeq(s, 1, i-1)[k] ELSE SubSeq(s, i+1, n)[k - (i - 1)]
    BY <1>8, ConcatProperties, SMTT(30)
  <2> QED BY <1>1, <1>8, <2>1
<1>10. u \in Seq(S)
  BY <1>6, SeqMonotonic DEF U
<1>11. \A k \in 1..n-1 : u[k] = r[k]
  <2> SUFFICES ASSUME NEW k \in 1..n-1
               PROVE  u[k] = r[k]
    OBVIOUS
  <2>1. CASE k <= i - 1
    BY <1>1, <1>7, <1>9, <2>1
  <2>2. CASE ~(k <= i - 1)
    <3>1. k + 1 \in i+1..n /\ (k + 1) - 1 = k
      BY <1>1, <2>2
    <3> QED BY <1>7, <1>9, <2>2, <3>1
  <2> QED BY <2>1, <2>2
<1> HIDE DEF r
<1>12. u = r
  BY <1>6, <1>9, <1>10, <1>11, SeqEqual
<1>13. LineOf(U, tk) = u
  BY LineAgrees DEF u, uk
<1> QED BY <1>5, <1>12, <1>13 DEF r, s, i, U, Promise!RemoveAt

-----------------------------------------------------------------------------
(* What the promise sees of the restaurant: the groups in the line by their    *)
(* tickets, and the tables of those that eat.                                  *)
TicketsOf(S, st) == [g \in S |-> st[g].queue_ticket]

LineNow == [k \in 1..Cardinality(InLine) |-> CHOOSE g \in InLine : Place(g) = k]
TableNow == [g \in {h \in Groups : AtTable(h)} |-> state[g].table_assigned]

LEMMA LineByTickets ==
  ASSUME NEW S, NEW st
  PROVE  [k \in 1..Cardinality(S) |->
            CHOOSE g \in S :
              Cardinality({h \in S : st[h].queue_ticket <= st[g].queue_ticket}) = k]
           = LineOf(S, TicketsOf(S, st))
<1>1. \A g \in S : Cardinality({h \in S : st[h].queue_ticket <= st[g].queue_ticket})
                     = Rank(S, TicketsOf(S, st), g)
  <2> SUFFICES ASSUME NEW g \in S
               PROVE  {h \in S : st[h].queue_ticket <= st[g].queue_ticket}
                        = {h \in S : TicketsOf(S, st)[h] <= TicketsOf(S, st)[g]}
    BY DEF Rank
  <2> QED BY DEF TicketsOf
<1> DEFINE Here(k) ==
             CHOOSE g \in S :
               Cardinality({h \in S : st[h].queue_ticket <= st[g].queue_ticket}) = k
           There(k) == CHOOSE g \in S : Rank(S, TicketsOf(S, st), g) = k
<1>2. ASSUME NEW k
      PROVE  Here(k) = There(k)
  BY <1>1
<1>3. [k \in 1..Cardinality(S) |-> Here(k)] = [k \in 1..Cardinality(S) |-> There(k)]
  <2> HIDE DEF Here, There
  <2> QED BY <1>2
<1> QED BY <1>3, Zenon DEF LineOf

LEMMA LineThen ==
  /\ LineNow = LineOf(InLine, TicketsOf(InLine, state))
  /\ LineNow' = LineOf(InLine', TicketsOf(InLine', state'))
BY LineByTickets DEF LineNow, Place

(* Who is in the line is there once, by its ticket.                            *)
LEMMA LineTickets ==
  ASSUME SeatInv, OrderInv
  PROVE  /\ InLine = {g \in Groups : Requesting(g)}
         /\ Tickets(InLine, TicketsOf(InLine, state))
<1>1. InLine = {g \in Groups : Requesting(g)}
  BY DEF InLine, Requesting, AtTable, SeatInv, SlotInv, AtSlot
<1>2. IsFiniteSet(InLine)
  BY <1>1, FS_Subset, GroupsAssumption
<1>3. \A g \in Groups : Requesting(g) =>
        state[g].queue_ticket \in Nat /\ queue[state[g].queue_ticket] = g
  <2> SUFFICES ASSUME NEW g \in Groups, Requesting(g)
               PROVE  state[g].queue_ticket \in Nat /\ queue[state[g].queue_ticket] = g
    OBVIOUS
  <2>1. pc[g] \in InQueue
    BY DEF Requesting, InQueue, Labels, HaveMutex, Joining, HaveTable
  <2> QED BY <2>1 DEF OrderInv, SeatInv, Shape, GroupStates
<1> QED BY <1>1, <1>2, <1>3 DEF Tickets, TicketsOf

(* A step that the promise does not see.                                       *)
LEMMA PromiseStays ==
  ASSUME NEW g \in Groups,
         \A h \in Groups \ {g} : pc'[h] = pc[h] /\ state'[h] = state[h],
         Requesting(g)' <=> Requesting(g), AtTable(g)' <=> AtTable(g),
         Requesting(g) => state'[g].queue_ticket = state[g].queue_ticket,
         AtTable(g) => state'[g].table_assigned = state[g].table_assigned
  PROVE  UNCHANGED Promise!vars
<1>1. \A h \in Groups : /\ Requesting(h)' <=> Requesting(h)
                        /\ AtTable(h)' <=> AtTable(h)
                        /\ Requesting(h) => state'[h].queue_ticket = state[h].queue_ticket
                        /\ AtTable(h) => state'[h].table_assigned = state[h].table_assigned
  BY DEF Requesting, AtTable
<1>2. InLine' = InLine
  BY <1>1 DEF InLine
<1>3. TicketsOf(InLine', state') = TicketsOf(InLine, state)
  BY <1>1, <1>2 DEF TicketsOf, InLine
<1>4. LineNow' = LineNow
  BY <1>2, <1>3, LineThen
<1>5. TableNow' = TableNow
  BY <1>1 DEF TableNow
<1> QED BY <1>4, <1>5 DEF Promise!vars, LineNow, TableNow

(* queue_grp_state[...] = GROUP_NOT_GONE: the group joins, behind all who are   *)
(* there.                                                                      *)
LEMMA ShowJoins ==
  ASSUME NEW g \in Groups, SeatInv, Rest, SeatInv', OrderInv', Show(g)
  PROVE  Promise!Join(g)
<1>2. /\ pc[g] = "show" /\ pc'[g] = "count" /\ state' = state
      /\ \A h \in Groups \ {g} : pc'[h] = pc[h]
  BY DEF Show, Goto, SeatInv, Shape
<1>3. /\ InLine = {h \in Groups : Requesting(h)}
      /\ Tickets(InLine, TicketsOf(InLine, state))
      /\ InLine' = {h \in Groups : Requesting(h)'}
      /\ Tickets(InLine', TicketsOf(InLine', state'))
  <2>1. InLine' = {h \in Groups : Requesting(h)'}
    BY <1>2 DEF InLine, Requesting, AtTable, SeatInv, SlotInv, AtSlot
  <2>2. IsFiniteSet(InLine')
    BY <2>1, FS_Subset, GroupsAssumption
  <2>3. \A h \in Groups : Requesting(h)' =>
          state'[h].queue_ticket \in Nat /\ queue'[state'[h].queue_ticket] = h
    <3> SUFFICES ASSUME NEW h \in Groups, Requesting(h)'
                 PROVE  state'[h].queue_ticket \in Nat /\ queue'[state'[h].queue_ticket] = h
      OBVIOUS
    <3>1. pc'[h] \in InQueue
      BY DEF Requesting, InQueue, Labels, HaveMutex, Joining, HaveTable
    <3> QED BY <3>1 DEF OrderInv, SeatInv, Shape, GroupStates
  <2> QED BY <2>1, <2>2, <2>3, LineTickets DEF Tickets, TicketsOf, Rest
<1>4. InLine' = InLine \cup {g} /\ g \notin InLine
  BY <1>2, <1>3 DEF Requesting
<1>5. \A h \in InLine : state[h].queue_ticket < state[g].queue_ticket
  <2> SUFFICES ASSUME NEW h \in Groups, Requesting(h), h # g
               PROVE  state[h].queue_ticket < state[g].queue_ticket
    BY <1>3, <1>4
  <2>1. Placed(h) /\ Placed(g)
    BY OrderParts DEF Rest
  <2>2. pc[h] \notin Joining
    BY <1>2, OthersSettled DEF Rest, Settled, Waiting, Alone, Labels, HaveMutex, Joining
  <2>3. pc[h] \in InQueue
    BY DEF Requesting, InQueue, Labels, HaveMutex, Joining, HaveTable
  <2> QED BY <1>2, <2>1, <2>2, <2>3 DEF Placed, Joining
<1> DEFINE tk == TicketsOf(InLine \cup {g}, state)
<1>6. LineNow' = LineOf(InLine \cup {g}, tk)
  BY <1>2, <1>4, LineThen
<1>7. Tickets(InLine \cup {g}, tk)
  BY <1>2, <1>3, <1>4
<1>8. /\ \A h \in InLine : tk[h] < tk[g]
      /\ LineOf(InLine, tk) = LineNow
  <2>1. \A h \in InLine : tk[h] < tk[g] /\ tk[h] = TicketsOf(InLine, state)[h]
    BY <1>5 DEF TicketsOf
  <2> QED BY <2>1, LineThen, LineAgrees
<1> HIDE DEF tk
<1>9. LineNow' = Append(LineNow, g)
  <2>1. LineOf(InLine \cup {g}, tk) = Append(LineOf(InLine, tk), g)
    BY <1>4, <1>7, <1>8, LineAppend
  <2> QED BY <1>6, <1>8, <2>1
<1>10. TableNow' = TableNow
  BY <1>2 DEF TableNow, AtTable
<1> QED BY <1>9, <1>10 DEF Promise!Join, LineNow, TableNow

(* assign_table: the group leaves the line for a table that nobody has, and    *)
(* nobody of its size came before it.                                          *)
LEMMA AssignSeats ==
  ASSUME NEW g \in Groups, SeatInv, Rest, SeatsExclusive', assign_table(g, Size[g])
  PROVE  \E i \in DOMAIN LineNow : Promise!Seat(i, Size[g])
<1>1. /\ pc[g] = "assign" /\ pc'[g] = "served" /\ state'[g].state_of_group = "EAT"
      /\ \A h \in Groups \ {g} : pc'[h] = pc[h] /\ state'[h] = state[h]
      /\ state'[g].queue_ticket = state[g].queue_ticket
  <2>1. \A h \in Groups \ {g} : pc'[h] = pc[h] /\ state'[h] = state[h]
    BY DEF assign_table, Goto, SeatInv, Shape
  <2> QED BY <2>1, Assigned
<1>2. /\ InLine = {h \in Groups : Requesting(h)}
      /\ Tickets(InLine, TicketsOf(InLine, state))
  BY LineTickets DEF Rest
<1>3. g \in InLine /\ InLine' = InLine \ {g}
  BY <1>1, <1>2 DEF InLine, Requesting, AtTable
<1>4. TicketsOf(InLine', state') = [h \in InLine \ {g} |-> TicketsOf(InLine, state)[h]]
  BY <1>1, <1>2, <1>3 DEF TicketsOf
<1> DEFINE tk == TicketsOf(InLine, state)
<1>5. Place(g) = Rank(InLine, tk, g)
  <2>1. {h \in InLine : state[h].queue_ticket <= state[g].queue_ticket}
          = {h \in InLine : tk[h] <= tk[g]}
    BY <1>3 DEF TicketsOf
  <2> QED BY <2>1 DEF Place, Rank
<1>6. /\ LineNow = LineOf(InLine, tk)
      /\ LineNow' = LineOf(InLine \ {g}, [h \in InLine \ {g} |-> tk[h]])
  BY <1>3, <1>4, LineThen
<1>7. \A h \in InLine : h # g /\ Size[h] = Size[g] => tk[g] < tk[h]
  <2> SUFFICES ASSUME NEW h \in Groups, Requesting(h), h # g, Size[h] = Size[g]
               PROVE  state[g].queue_ticket < state[h].queue_ticket
    BY <1>2, <1>3 DEF TicketsOf
  <2>1. Settled(h) \/ Settled(g) \/ Follows(g, h) \/ Follows(h, g)
    BY DEF Rest, OneMoves
  <2>2. Waiting(h)
    BY <1>1, <2>1 DEF Settled, Waiting, Follows, Invited, Requesting
  <2> QED BY <1>1, <2>2 DEF Rest, FirstInv
<1> HIDE DEF tk
<1>8. LineNow' = Promise!RemoveAt(LineNow, Place(g))
  <2>1. LineOf(InLine \ {g}, [h \in InLine \ {g} |-> tk[h]]) = LineOf(InLine \ {g}, tk)
    BY LineAgrees
  <2>2. Tickets(InLine, tk)
    BY <1>2 DEF tk
  <2> QED BY <1>3, <1>5, <1>6, <2>1, <2>2, LineRemove
<1>9. /\ \A k \in 1..Cardinality(InLine) : LineNow[k] \in InLine /\ Rank(InLine, tk, LineNow[k]) = k
      /\ LineNow[Place(g)] = g
      /\ DOMAIN LineNow = 1..Cardinality(InLine) /\ Place(g) \in 1..Cardinality(InLine)
      /\ Cardinality(InLine) \in Nat
  <2>1. Tickets(InLine, tk)
    BY <1>2 DEF tk
  <2>2. DOMAIN LineNow = 1..Cardinality(InLine)
    BY DEF LineNow
  <2>3. Cardinality(InLine) \in Nat
    BY <1>2, FS_CardinalityType DEF Tickets
  <2> QED BY <1>3, <1>5, <1>6, <2>1, <2>2, <2>3, LineHas, RankOrder
<1>10. ASSUME NEW j \in 1..Place(g)-1
       PROVE  Size[g] \notin {Size[LineNow[j]]}
  <2>1. j \in 1..Cardinality(InLine) /\ j < Place(g)
    BY <1>9
  <2>2. LineNow[j] \in InLine /\ Rank(InLine, tk, LineNow[j]) = j
    BY <1>9, <2>1
  <2>3. tk[g] < tk[LineNow[j]] => Rank(InLine, tk, g) < Rank(InLine, tk, LineNow[j])
    <3>1. Tickets(InLine, tk)
      BY <1>2 DEF tk
    <3> QED BY <1>3, <2>2, <3>1, RankOrder
  <2>4. LineNow[j] # g
    BY <1>5, <2>1, <2>2
  <2> QED BY <1>5, <1>7, <1>9, <2>1, <2>2, <2>3, <2>4
<1>11. \E t \in (Before(Size[g]) .. table_num(Size[g]) - 1) \ {TableNow[h] : h \in DOMAIN TableNow} :
         TableNow' = [h \in DOMAIN TableNow \cup {g} |-> IF h = g THEN t ELSE TableNow[h]]
  <2> DEFINE t == state'[g].table_assigned
  <2>1. /\ AtTable(g)' /\ ~AtTable(g)
        /\ \A h \in Groups \ {g} : AtTable(h)' <=> AtTable(h)
    BY <1>1, <1>2, <1>3 DEF AtTable, InLine
  <2>2. /\ t \in Before(Size[g]) .. table_num(Size[g]) - 1
        /\ \A h \in Groups \ {g} : AtTable(h) => state[h].table_assigned # t
    BY <1>1, <2>1 DEF SeatsExclusive
  <2>3. t \notin {TableNow[h] : h \in DOMAIN TableNow}
    BY <2>1, <2>2 DEF TableNow
  <2>4. TableNow' = [h \in DOMAIN TableNow \cup {g} |-> IF h = g THEN t ELSE TableNow[h]]
    BY <1>1, <2>1 DEF TableNow
  <2> QED BY <2>2, <2>3, <2>4
<1>12. PICK i \in DOMAIN LineNow : i = Place(g)
  BY <1>9
<1>13. Promise!Seat(i, Size[g])
  <2> DEFINE Fit == [h \in Groups |-> {Size[h]}]
             Tables == [n \in Types |-> Before(n) .. table_num(n) - 1]
  <2>1. Size[g] \in Fit[LineNow[i]] /\ \A j \in 1..i-1 : Size[g] \notin Fit[LineNow[j]]
    <3>1. LineNow[i] = g /\ \A j \in 1..i-1 : LineNow[j] \in Groups
      <4>1. InLine \subseteq Groups
        BY <1>2
      <4>2. \A j \in 1..i-1 : j \in 1..Cardinality(InLine)
        BY <1>9, <1>12
      <4> QED BY <1>9, <1>12, <4>1, <4>2
    <3> QED BY <1>10, <1>12, <3>1
  <2>2. \E t \in Tables[Size[g]] \ {TableNow[h] : h \in DOMAIN TableNow} :
          TableNow' = [h \in DOMAIN TableNow \cup {LineNow[i]} |->
                         IF h = LineNow[i] THEN t ELSE TableNow[h]]
    <3>1. Size[g] \in Types
      BY GroupSizeAssumption DEF Types
    <3>2. Tables[Size[g]] = Before(Size[g]) .. table_num(Size[g]) - 1
      BY <3>1
    <3> HIDE DEF Tables
    <3> QED BY <1>9, <1>12, <1>11, <3>2
  <2>3. LineNow' = Promise!RemoveAt(LineNow, i)
    BY <1>8, <1>12
  <2> QED BY <2>1, <2>2, <2>3, Zenon DEF Promise!Seat, LineNow, TableNow
<1> QED BY <1>13

(* free_table: the group has no table any more.                                *)
LEMMA FreeGoes ==
  ASSUME NEW g \in Groups, SeatInv, Rest, free_table(g)
  PROVE  Promise!Go(g)
<1>1. /\ pc[g] = "free" /\ pc'[g] = "mark" /\ state' = state
      /\ \A h \in Groups \ {g} : pc'[h] = pc[h]
  BY DEF free_table, Goto, SeatInv, Shape
<1>2. InLine' = InLine
  BY <1>1 DEF InLine, Requesting, AtTable
<1>3. LineNow' = LineNow
  BY <1>1, <1>2, LineThen
<1>4. \A h \in Groups : AtTable(h)' <=> AtTable(h) /\ h # g
  BY <1>1 DEF AtTable
<1>5. TableNow' = [h \in DOMAIN TableNow \ {g} |-> TableNow[h]]
  BY <1>1, <1>4 DEF TableNow
<1> QED BY <1>3, <1>5 DEF Promise!Go, LineNow, TableNow

(* Every other step leaves the line and the tables alone.                      *)
LEMMA OtherStays ==
  ASSUME NEW g \in Groups, SeatInv, Enter(g) \/ Depart(g) \/ request_for_table(g) \/ leave_table(g),
         ~Show(g), ~assign_table(g, Size[g]), ~free_table(g)
  PROVE  UNCHANGED Promise!vars
<1>1. /\ pc \in [Groups -> Labels] /\ state \in [Groups -> GroupStates]
      /\ state[g].state_of_group = "EAT" => pc[g] \in AtSlot \cup {"mark"}
  BY DEF SeatInv, Shape, SlotInv
<1>2. CASE Record(g)
  <2>1. /\ pc[g] = "enter" /\ pc'[g] = "enlist" /\ state'[g].state_of_group = "WAIT"
        /\ \A h \in Groups \ {g} : pc'[h] = pc[h] /\ state'[h] = state[h]
    BY <1>1, <1>2 DEF Record, Goto, GroupStates
  <2>2. ~AtTable(g) /\ ~AtTable(g)' /\ ~Requesting(g) /\ ~Requesting(g)'
    BY <1>1, <2>1 DEF AtTable, Requesting, AtSlot
  <2> QED BY <2>1, <2>2, PromiseStays
<1>3. CASE Mark(g)
  <2>1. /\ pc[g] = "mark" /\ pc'[g] = "find" /\ state'[g].state_of_group = "LEAVE"
        /\ \A h \in Groups \ {g} : pc'[h] = pc[h] /\ state'[h] = state[h]
    BY <1>1, <1>3 DEF Mark, Goto, GroupStates
  <2>2. ~AtTable(g) /\ ~AtTable(g)' /\ ~Requesting(g) /\ ~Requesting(g)'
    BY <2>1 DEF AtTable, Requesting
  <2> QED BY <2>1, <2>2, PromiseStays
<1>4. CASE ~Record(g) /\ ~Mark(g)
  <2>1. /\ state' = state /\ \A h \in Groups \ {g} : pc'[h] = pc[h]
        /\ pc'[g] \in Labels
        /\ pc[g] # "mark" /\ pc'[g] # "mark" /\ (Requesting(g)' <=> Requesting(g))
    <3>1. CASE Enter(g) \/ Depart(g)
      BY <1>1, <3>1 DEF Enter, Depart, Command, Goto, Requesting, Labels, HaveTable, AtSlot
    <3>2. CASE request_for_table(g)
      BY <1>1, <1>4, <3>2 DEF request_for_table, enqueue, ReadIndex, Enlist, Count, Look, InitTurn, Unlock, AwaitTurn, TakeTable,
         Serve, Served, Goto, Requesting, Labels, HaveMutex, Joining, HaveTable, AtSlot
    <3>3. CASE leave_table(g)
      BY <1>1, <1>4, <3>3 DEF leave_table, Leave, Find, FindNext, Peek, Call, FreeUp, Left, Goto,
         Requesting, Labels, HaveDone, HaveTable, AtSlot
    <3> QED BY <3>1, <3>2, <3>3
  <2>2. AtTable(g)' <=> AtTable(g)
    BY <2>1 DEF AtTable
  <2> QED BY <2>1, <2>2, PromiseStays
<1> QED BY <1>2, <1>3, <1>4

LEMMA PromiseStep ==
  ASSUME SeatInv, Rest, SeatInv', OrderInv', SeatsExclusive', Next
  PROVE  [Promise!Next]_(Promise!vars)
<1>1. PICK g \in Groups : Enter(g) \/ Depart(g) \/ request_for_table(g) \/ leave_table(g)
  BY DEF Next
<1>2. CASE Show(g)
  <2>1. Promise!Join(g)
    BY <1>2, ShowJoins
  <2> QED BY <2>1 DEF Promise!Next
<1>3. CASE assign_table(g, Size[g])
  <2>1. \E i \in DOMAIN LineNow : Promise!Seat(i, Size[g])
    BY <1>3, AssignSeats
  <2>2. Size[g] \in DOMAIN [n \in Types |-> Before(n) .. table_num(n) - 1]
    BY GroupSizeAssumption DEF Types
  <2>3. \E i \in DOMAIN LineNow, n \in DOMAIN [m \in Types |-> Before(m) .. table_num(m) - 1] :
          Promise!Seat(i, n)
    BY <2>1, <2>2, Zenon
  <2> QED BY <2>3, Zenon DEF Promise!Next, LineNow
<1>4. CASE free_table(g)
  <2>1. Promise!Go(g)
    BY <1>4, FreeGoes
  <2> QED BY <2>1 DEF Promise!Next
<1>5. CASE ~Show(g) /\ ~assign_table(g, Size[g]) /\ ~free_table(g)
  BY <1>1, <1>5, OtherStays
<1> QED BY <1>2, <1>3, <1>4, <1>5

(* One command at a time, the restaurant seats the groups of a size first      *)
(* come, first served, each at a table of its size that nobody has.            *)
THEOREM RestaurantKeepsPromise == ~Together => (Spec => ImplementsSeating)
<1> SUFFICES ASSUME ~Together
             PROVE  Spec => ImplementsSeating
  OBVIOUS
<1>1. Init => Promise!Init
  <2> SUFFICES ASSUME Init
               PROVE  LineNow = <<>> /\ TableNow = <<>>
    BY DEF Promise!Init, LineNow, TableNow
  <2>1. InLine = {}
    BY DEF Init, InLine, Requesting
  <2>2. {h \in Groups : AtTable(h)} = {}
    BY DEF Init, AtTable
  <2>3. 1..Cardinality(InLine) = {}
    BY <2>1, FS_EmptySet
  <2> QED BY <2>2, <2>3 DEF LineNow, TableNow
<1>2. QuietInv /\ QuietInv' /\ SeatsExclusive' /\ [Next]_vars => [Promise!Next]_(Promise!vars)
  <2> SUFFICES ASSUME QuietInv, QuietInv', SeatsExclusive', [Next]_vars
               PROVE  [Promise!Next]_(Promise!vars)
    OBVIOUS
  <2>1. CASE UNCHANGED vars
    <3>1. InLine' = InLine /\ state' = state
      BY <2>1 DEF vars, InLine, Requesting, AtTable
    <3>2. LineNow' = LineNow
      BY <3>1, LineThen
    <3>3. TableNow' = TableNow
      BY <2>1 DEF vars, TableNow, AtTable
    <3> QED BY <3>2, <3>3 DEF Promise!vars, LineNow, TableNow
  <2>2. CASE Next
    BY <2>2, PromiseStep DEF QuietInv, Rest
  <2> QED BY <2>1, <2>2
<1>3. Spec => []QuietInv
  BY QuietInvariant
<1> QED BY <1>1, <1>2, <1>3, SeatsAreExclusive, PTL DEF Spec, ImplementsSeating, Promise!Spec

=============================================================================
