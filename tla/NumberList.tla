----------------------------- MODULE NumberList -----------------------------
(* What Lab1/ex3 promises: each instruction that is read acts on a sequence of *)
(* numbers as the comment of its operation says, at its own index and with its *)
(* own number, offset or function; sum_list returns the sum.                   *)
EXTENDS Integers, SequencesExt

CONSTANTS Values,  \* what an element may be
          Funcs,   \* the functions map is given
          Offsets  \* by how much the list is rotated

VARIABLES seq,     \* the list
          sum,     \* what sum_list returned last
          instr    \* the instruction that has been read, or None

vars == <<seq, sum, instr>>

None == [op |-> "none"]

(* The instructions that are valid for a list of n numbers, as the comments    *)
(* require: an index is in the list, an empty list is neither rotated nor      *)
(* reversed.                                                                   *)
Instructions(n) ==
  [op : {"INSERT_AT"}, index : 0..n, data : Values]
    \cup [op : {"DELETE_AT"}, index : 0..n-1]
    \cup [op : {"ROTATE_LIST"}, offset : IF n = 0 THEN Offsets \cap {0} ELSE Offsets]
    \cup [op : IF n = 0 THEN {} ELSE {"REVERSE_LIST"}]
    \cup [op : {"RESET_LIST", "SUM_LIST"}]
    \cup [op : {"MAP"}, func : Funcs]

Total(s) == FoldLeft(+, 0, s)

Init == seq = <<>> /\ sum = 0 /\ instr = None

Insert(i, v) == seq' = InsertAt(seq, i + 1, v) /\ UNCHANGED sum
Delete(i) == seq' = RemoveAt(seq, i + 1) /\ UNCHANGED sum
Rotate(k) ==
  /\ seq' = [i \in DOMAIN seq |-> seq[((i - 1 + k) % Len(seq)) + 1]]
  /\ UNCHANGED sum
Reversed == seq' = Reverse(seq) /\ UNCHANGED sum
Emptied == seq' = <<>> /\ UNCHANGED sum
Mapped(f) == seq' = [i \in DOMAIN seq |-> f[seq[i]]] /\ UNCHANGED sum
Summed == sum' = Total(seq) /\ UNCHANGED seq

Read ==
  /\ instr = None /\ instr' \in Instructions(Len(seq))
  /\ UNCHANGED <<seq, sum>>

Run ==
  /\ instr' = None
  /\ \/ instr.op = "INSERT_AT" /\ Insert(instr.index, instr.data)
     \/ instr.op = "DELETE_AT" /\ Delete(instr.index)
     \/ instr.op = "ROTATE_LIST" /\ Rotate(instr.offset)
     \/ instr.op = "REVERSE_LIST" /\ Reversed
     \/ instr.op = "RESET_LIST" /\ Emptied
     \/ instr.op = "MAP" /\ Mapped(instr.func)
     \/ instr.op = "SUM_LIST" /\ Summed

Spec == Init /\ [][Read \/ Run]_vars

=============================================================================
