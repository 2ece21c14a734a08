------------------------------ MODULE Workloads -----------------------------
(* The client programs Lab4/workload_*.c over UserSwap: each makes one region, *)
(* sweeps over it once or twice, checks what it reads and frees the region.    *)
(* The words of a page are one access: within a page a program does the same   *)
(* to every word.                                                              *)
EXTENDS UserSwap

CONSTANTS A, M       \* the region of the programs that allocate, or map

VARIABLES program,   \* which one runs: readonly, wraddr, rdfile or wrfile
          todo,      \* the accesses the program has still to make
          failed     \* its variable of that name: a check found a wrong value

allvars == <<vars, program, todo, failed>>

R == IF program \in {"readonly", "wraddr"} THEN A ELSE M

(* The value a program stores in page i, and the one the file holds at first   *)
(* (mem + i); wrfile then writes the index itself.                             *)
addr(i) == <<"addr", i>>
index(i) == <<"index", i>>

load(i, v) == [page |-> <<R, i>>, op |-> "load", value |-> v]
store(i, v) == [page |-> <<R, i>>, op |-> "store", value |-> v]

sweep(Access(_)) == [i \in 1..Length[R] |-> Access(i - 1)]

readonly == sweep(LAMBDA i : load(i, Zero))
wraddr == sweep(LAMBDA i : store(i, addr(i))) \o sweep(LAMBDA i : load(i, addr(i)))
rdfile == sweep(LAMBDA i : load(i, addr(i)))
wrfile ==
  [k \in 1..2 * Length[R] |->
     LET i == (k - 1) \div 2
     IN IF k % 2 = 1 THEN load(i, addr(i)) ELSE store(i, index(i))]

WInit ==
  /\ Init
  /\ program \in {"readonly", "wraddr", "rdfile", "wrfile"}
  /\ todo = CASE program = "readonly" -> readonly
              [] program = "wraddr" -> wraddr
              [] program = "rdfile" -> rdfile
              [] program = "wrfile" -> wrfile
  /\ failed = FALSE

Start ==
  /\ SWAP_FD = "none"
  /\ userswap_alloc(R) \/ userswap_map(R)
  /\ UNCHANGED <<program, todo, failed>>

Allowed(a) == IF a.op = "load" THEN Resident(a.page) ELSE status[a.page] = "READWRITE"

Step ==
  /\ R \in entries /\ todo # <<>>
  /\ LET a == Head(todo)
     IN IF ~Allowed(a) THEN page_fault_handler(a.page) /\ UNCHANGED <<program, todo, failed>>
        ELSE /\ todo' = Tail(todo)
             /\ UNCHANGED program
             /\ IF a.op = "load"
                THEN /\ failed' = (failed \/ mem[a.page] # a.value)
                     /\ UNCHANGED vars
                ELSE Store(a.page, a.value) /\ UNCHANGED failed

(* userswap_free; wrfile then compares the file with what it wrote.            *)
Finish ==
  /\ R \in entries /\ todo = <<>>
  /\ userswap_free(R)
  /\ failed' = (\/ failed
                \/ /\ program = "wrfile"
                   /\ \E i \in 1..Length[R] : files'[R][i] # index(i - 1))
  /\ UNCHANGED <<program, todo>>

WNext == run = "up" /\ (Start \/ Step \/ Finish)

(* The program runs as long as it can.                                         *)
WSpec == WInit /\ [][WNext]_allvars /\ WF_allvars(WNext)

-----------------------------------------------------------------------------
(* Properties                                                                  *)

(* The program ends by freeing the region, having found every value it wrote:  *)
(* each page is evicted, and if need be moved in again, with the contents it   *)
(* had, every access gets its page, and the pager stays up to the end.         *)
Completes == <>(todo = <<>> /\ SWAP_FD # "none" /\ entries = {} /\ ~failed)

=============================================================================
