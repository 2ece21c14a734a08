----------------------------- MODULE PagedMemory ----------------------------
(* What userswap promises its client (the comments of Lab4/userswap.c): a      *)
(* region is plain memory, zero at first or the contents of its backing file,  *)
(* each page keeps the last value written to it however often it is moved out  *)
(* and in, and freeing a mapped region leaves its contents in the file, before *)
(* whatever the file holds beyond them.  There is one action for each thing a  *)
(* client may do; nothing else changes what a page holds.                      *)
EXTENDS Naturals, Sequences

CONSTANTS Regions,
          Length,     \* Length[r]: the pages of the region
          Mapped,     \* the regions made by userswap_map; the others by _alloc
          Given,      \* Given[r]: the pages of the backing file at first
          Zero

VARIABLES val,        \* val[r][i]: page i of each region that is allocated
          backing     \* backing[r]: the pages of the file outside a mapping

vars == <<val, backing>>

Padded(f, n) == [i \in 0..n-1 |-> IF i < Len(f) THEN f[i + 1] ELSE Zero]

Init == val = <<>> /\ backing = Given

Extend(r, pages) ==
  /\ r \notin DOMAIN val
  /\ val' = [x \in DOMAIN val \cup {r} |-> IF x = r THEN pages ELSE val[x]]

Alloc(r) ==
  /\ r \in Regions \ Mapped
  /\ Extend(r, Padded(<<>>, Length[r]))
  /\ UNCHANGED backing

Map(r) ==
  /\ r \in Mapped
  /\ Extend(r, Padded(backing[r], Length[r]))
  /\ backing' = [backing EXCEPT ![r] = SubSeq(@, Length[r] + 1, Len(@))]

Write(r, i, v) ==
  /\ r \in DOMAIN val /\ i \in DOMAIN val[r]
  /\ val' = [val EXCEPT ![r][i] = v]
  /\ UNCHANGED backing

Free(r) ==
  /\ r \in DOMAIN val
  /\ val' = [x \in DOMAIN val \ {r} |-> val[x]]
  /\ backing' = IF r \in Mapped
                THEN [backing EXCEPT ![r] = [i \in 1..Length[r] |-> val[r][i - 1]] \o @]
                ELSE backing

=============================================================================
