----------------------------- MODULE MCWorkloads ----------------------------
(* The workloads on a region a quarter larger than the resident limit, about   *)
(* as theirs is (2560 pages of memory, 2106 of them resident).                 *)
EXTENDS Workloads, TLC

CONSTANTS TotalPages

MCSize == [r \in Regions |-> TotalPages * STANDARD_PAGE_SIZE]
MCGiven == [r \in Mapped |-> [i \in 1..TotalPages |-> addr(i - 1)]]
MCZero == <<"zero">>
MCValues == {MCZero} \cup UNION {{addr(i), index(i)} : i \in 0..TotalPages-1}

=============================================================================
