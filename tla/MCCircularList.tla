--------------------------- MODULE MCCircularList ---------------------------
(* A small instance of CircularList: numbers modulo 3 and, of the functions of *)
(* Lab1/ex3/functions.c, add_one and square on them.                           *)
EXTENDS CircularList, TLC

MCFuncs == {[v \in Values |-> (v + 1) % 3], [v \in Values |-> (v * v) % 3]}
MCSymmetry == Permutations(Nodes)

=============================================================================
