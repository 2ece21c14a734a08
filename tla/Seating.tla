------------------------------ MODULE Seating -------------------------------
(* What the restaurant promises (Lab3/ex4/restaurant.h): a group that calls    *)
(* joins the queue; it is seated at an available table that fits it, before    *)
(* any group that joined later and fits that table too; a group that leaves    *)
(* frees its table.                                                            *)
EXTENDS Naturals, SequencesExt

CONSTANTS Groups,  \* one call each
          Fit,     \* Fit[g]: the table types where g can sit
          Tables   \* Tables[n]: the ids of the tables of type n

VARIABLES line,    \* the groups that wait, in the order they joined
          table    \* the table of each group that is seated, a function

vars == <<line, table>>

Init == line = <<>> /\ table = <<>>

Join(g) == line' = Append(line, g) /\ UNCHANGED table

Seat(i, n) ==
  /\ n \in Fit[line[i]]
  /\ \A j \in 1..i-1 : n \notin Fit[line[j]]
  /\ \E t \in Tables[n] \ {table[h] : h \in DOMAIN table} :
       table' = [h \in DOMAIN table \cup {line[i]} |->
                   IF h = line[i] THEN t ELSE table[h]]
  /\ line' = RemoveAt(line, i)

Go(g) == table' = [h \in DOMAIN table \ {g} |-> table[h]] /\ UNCHANGED line

Next ==
  \/ \E g \in Groups : Join(g) \/ Go(g)
  \/ \E i \in DOMAIN line, n \in DOMAIN Tables : Seat(i, n)

Spec == Init /\ [][Next]_vars

=============================================================================
