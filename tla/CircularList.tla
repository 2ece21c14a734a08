---------------------------- MODULE CircularList ----------------------------
(* The circular list of Lab1/ex3/node.c (ex2/node.c is the same but for map)   *)
(* under the loop of ex3.c, which reads an instruction and runs it to its end. *)
(* A node is an address; next and data are what the allocated ones hold, so    *)
(* that a node that has been freed is outside their domain.                    *)
EXTENDS Integers, SequencesExt, FiniteSetsExt

CONSTANTS Nodes,        \* the addresses malloc may return
          NULL,
          Values, Funcs, Offsets    \* as in NumberList

ASSUME NullAssumption == NULL \notin Nodes
ASSUME OffsetsAssumption == Offsets \subseteq Nat
ASSUME FuncsAssumption == Funcs \subseteq [Values -> Values]

VARIABLES head, next, data,
          sum,    \* what sum_list returned last
          instr   \* the instruction that main has read, with its arguments

nodes == <<head, next, data, sum>>
vars == <<nodes, instr>>

(* The node that a loop of k steps from the head arrives at.                   *)
get_node_pt(k) ==
  LET at[i \in 0..k] == IF i = 0 THEN head ELSE next[at[i - 1]] IN at[k]

(* The nodes of a turn, from the head to the one whose next is the head.       *)
Turn ==
  IF head = NULL THEN <<>>
  ELSE LET n == Min({k \in 1..Cardinality(DOMAIN next) : get_node_pt(k) = head})
       IN [i \in 1..n |-> get_node_pt(i - 1)]

(* What the loop and its instructions are on the numbers along the ring.       *)
List == INSTANCE NumberList WITH seq <- [i \in DOMAIN Turn |-> data[Turn[i]]]

Init ==
  /\ head = NULL /\ next = <<>> /\ data = <<>> /\ sum = 0
  /\ instr = List!None

(* What the nodes hold once node n holds v, and once n is freed.                *)
With(n, v, held) == [m \in DOMAIN held \cup {n} |-> IF m = n THEN v ELSE held[m]]
Without(n, held) == [m \in DOMAIN held \ {n} |-> held[m]]

(* create_new_node_pt, and what the three cases of insert_node_at do with it.  *)
insert_node_atOpen(i, v) ==
  \E n \in Nodes \ DOMAIN next :
    /\ data' = With(n, v, data)
    /\ head' = IF i = 0 THEN n ELSE head
    /\ next' = CASE head = NULL -> With(n, n, next)
                 [] head # NULL /\ i = 0 -> With(n, head, next)
                 [] OTHER -> With(n, next[get_node_pt(i - 1)],
                                  [next EXCEPT ![get_node_pt(i - 1)] = n])
    /\ UNCHANGED sum

insert_node_atAfter(i, v) ==
  \E n \in Nodes \ DOMAIN next :
    /\ data' = With(n, v, data)
    /\ head' = IF i = 0 THEN n ELSE head
    /\ next' = CASE head = NULL -> With(n, n, next)
                 [] head # NULL /\ i = 0 -> With(n, head, [next EXCEPT ![Last(Turn)] = n])
                 [] OTHER -> With(n, next[get_node_pt(i)],
                                  [next EXCEPT ![get_node_pt(i)] = n])
    /\ UNCHANGED sum

insert_node_at(i, v) ==
  \E n \in Nodes \ DOMAIN next :
    /\ data' = With(n, v, data)
    /\ head' = IF i = 0 THEN n ELSE head
    /\ next' = CASE head = NULL -> With(n, n, next)
                 [] head # NULL /\ i = 0 -> With(n, head, [next EXCEPT ![Last(Turn)] = n])
                 [] OTHER -> With(n, next[get_node_pt(i - 1)],
                                  [next EXCEPT ![get_node_pt(i - 1)] = n])
    /\ UNCHANGED sum

(* delete_node_at: the last node leaves an empty list, the head moves it on.   *)
delete_node_at(i) ==
  LET n == get_node_pt(i)
      before == IF i = 0 THEN Last(Turn) ELSE get_node_pt(i - 1)
  IN /\ head # NULL
     /\ head' = IF next[head] = head THEN NULL ELSE IF i = 0 THEN next[head] ELSE head
     /\ next' = Without(n, [next EXCEPT ![before] = next[n]])
     /\ data' = Without(n, data)
     /\ UNCHANGED sum

(* rotate_list follows next offset times without a look at the head: to rotate *)
(* an empty list would end the program, and the input does not.                *)
rotate_listShort(offset) ==
  /\ head # NULL /\ offset > 0
  /\ head' = get_node_pt(offset - 1)
  /\ UNCHANGED <<next, data, sum>>

rotate_list(offset) ==
  /\ head # NULL \/ offset = 0
  /\ head' = get_node_pt(offset)
  /\ UNCHANGED <<next, data, sum>>

(* reverse_list turns each node of the turn round to the one before it; the    *)
(* head's is then overwritten, so that the uninitialized prev does no harm.    *)
reverse_list ==
  LET back(acc, curr) == [next |-> [acc.next EXCEPT ![curr] = acc.prev], prev |-> curr]
      done == FoldLeft(back, [next |-> next, prev |-> NULL], Turn)
  IN /\ head # NULL
     /\ next' = [done.next EXCEPT ![head] = done.prev]
     /\ head' = done.prev
     /\ UNCHANGED <<data, sum>>

(* reset_list frees the nodes of the turn.                                     *)
reset_list ==
  /\ head' = NULL
  /\ next' = [n \in DOMAIN next \ ToSet(Turn) |-> next[n]]
  /\ data' = [n \in DOMAIN data \ ToSet(Turn) |-> data[n]]
  /\ UNCHANGED sum

map(f) ==
  /\ data' = [n \in DOMAIN data |-> IF n \in ToSet(Turn) THEN f[data[n]] ELSE data[n]]
  /\ UNCHANGED <<head, next, sum>>

sum_list ==
  /\ sum' = FoldLeft(LAMBDA acc, n : acc + data[n], 0, Turn)
  /\ UNCHANGED <<head, next, data>>

(* fscanf of an instruction and its arguments, which are valid; there is a node *)
(* for each that inserts.                                                      *)
Read ==
  /\ instr = List!None
  /\ instr' \in List!Instructions(Len(Turn))
  /\ instr'.op = "INSERT_AT" => DOMAIN next # Nodes
  /\ UNCHANGED nodes

run_instruction ==
  /\ \/ instr.op = "INSERT_AT" /\ insert_node_at(instr.index, instr.data)
     \/ instr.op = "DELETE_AT" /\ delete_node_at(instr.index)
     \/ instr.op = "ROTATE_LIST" /\ rotate_list(instr.offset)
     \/ instr.op = "REVERSE_LIST" /\ reverse_list
     \/ instr.op = "RESET_LIST" /\ reset_list
     \/ instr.op = "MAP" /\ map(instr.func)
     \/ instr.op = "SUM_LIST" /\ sum_list
  /\ instr' = List!None

Spec == Init /\ [][Read \/ run_instruction]_vars

-----------------------------------------------------------------------------
(* Properties                                                                  *)

(* No pointer of the list dangles: the head and every next are allocated nodes *)
(* or, for the head of an empty list, NULL.                                    *)
TypeOK ==
  /\ head \in DOMAIN next \cup {NULL}
  /\ DOMAIN next \subseteq Nodes
  /\ next \in [DOMAIN next -> DOMAIN next]
  /\ data \in [DOMAIN next -> Values]

(* The nodes are one ring: no pointer dangles, and as many steps from the head *)
(* as there are nodes meet every one of them and come back, so that no node is *)
(* lost and every loop of the form "until next is the head" ends.              *)
RingIntact ==
  LET n == Cardinality(DOMAIN next)
  IN /\ TypeOK
     /\ IF head = NULL THEN n = 0
        ELSE {get_node_pt(k) : k \in 0..n-1} = DOMAIN next /\ get_node_pt(n) = head

(* Each instruction that is run does to the numbers along the ring what the    *)
(* comment of its operation says, at its own index and with its own argument.  *)
ImplementsList == List!Spec

=============================================================================
