----------------------------- MODULE MCUserSwap -----------------------------
(* Small instances of UserSwap: pages of two bytes, one or two regions.        *)
EXTENDS UserSwap, TLC

CONSTANTS r1, r2, PagesOf1, PagesOf2, OddBytes, FilePages

MCSize == [r \in Regions |->
  (IF r = r1 THEN PagesOf1 ELSE PagesOf2) * STANDARD_PAGE_SIZE - OddBytes]
MCGiven == [r \in Mapped |-> [i \in 1..FilePages |-> "a"]]
MCValues == {"0", "a", "b"}

(* A client that, as workload_wraddr.c, writes to a new page before it goes on *)
(* to another, so that no page is evicted that was never written.              *)
WritesFirst ==
  \A p \in Pages : status[p] = "READ" /\ offset[p] = Uninit => MakeWritable(p)
WriterSpec == Init /\ [][Next /\ WritesFirst]_vars

=============================================================================
