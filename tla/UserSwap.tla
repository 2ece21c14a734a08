------------------------------ MODULE UserSwap ------------------------------
(* The user-level pager of Lab4/userswap.c.  A client allocates or maps        *)
(* regions; a page starts out PROT_NONE, and the SIGSEGV handler makes it      *)
(* readable, then writable, moving it in from the swap or backing file, and    *)
(* evicting pages in FIFO order when the resident memory exceeds its limit.    *)
(* The program has one thread and the handler runs to its end before the       *)
(* access is tried again: an action is one call or one fault.                  *)
(*                                                                             *)
(* The contents of a page are one value.  The kernel (mmap, mprotect, pread,   *)
(* pwrite, ftruncate) does what its manual says: MADV_DONTNEED does not lose   *)
(* pages of a shared mapping, a pread past the end is short.                   *)
EXTENDS Integers, SequencesExt, FiniteSetsExt

CONSTANTS Regions,              \* the calls of userswap_alloc and userswap_map
          Mapped,               \* those of userswap_map
          Size,                 \* Size[r]: the argument size, in bytes
          Given,                \* Given[r]: the backing file at first, by pages
          STANDARD_PAGE_SIZE, MAX_LORM_SIZE,
          Values, Zero,         \* what a page may hold
          NewSizes,             \* what the client passes to userswap_set_size
          Habits                \* what else the client does, of those below

ASSUME PageAssumption == STANDARD_PAGE_SIZE \in Nat \ {0} /\ Zero \in Values
ASSUME LimitAssumption == MAX_LORM_SIZE \in Nat /\ NewSizes \subseteq Nat
ASSUME SizeAssumption == Size \in [Regions -> Nat \ {0}]
ASSUME MappedAssumption ==
  /\ Mapped \subseteq Regions /\ "swap" \notin Regions
  /\ Given \in [Mapped -> Seq(Values)]

(* It holds several regions at once; it makes one after freeing another that   *)
(* had resident pages; it changes the limit while it holds a region.           *)
ASSUME HabitsAssumption == Habits \subseteq {"overlap", "again", "resize"}

VARIABLES operation_type,       \* "ALLOC" or "MAP", of the last region made
          SWAP_FD,              \* the file it pages to: "swap" or a region's
          entries,              \* global_stailhead: the regions
          status,               \* status[p]: currentAccessStatus of the page entry
          offset,               \* offset[p]: its SWAP_FILE_offset
          mem,                  \* mem[p]: the contents of the mapped page
          LORM, current_LORM_SIZE, FIX_LORM_SIZE,
          slots,                \* global_SWAP_head: the free slots of 0..n-1
          live,                 \* the lists that hold no freed node
          files,                \* files[fd]: the contents, a sequence of pages
          run                   \* "up", or how the process ended

space == <<operation_type, SWAP_FD, entries>>
resident == <<LORM, current_LORM_SIZE, FIX_LORM_SIZE>>
vars == <<space, status, offset, mem, resident, slots, live, files, run>>

roundUp(n) == ((n + STANDARD_PAGE_SIZE - 1) \div STANDARD_PAGE_SIZE) * STANDARD_PAGE_SIZE
Length == [r \in Regions |-> roundUp(Size[r]) \div STANDARD_PAGE_SIZE]
Pages == UNION {{<<r, i>> : i \in 0..Length[r]-1} : r \in Regions}
PagesOf(r) == {p \in Pages : p[1] = r}

(* A page entry's offset before anything is stored in it: malloc's memory.     *)
Uninit == -1

(* attach_Page_Column and map_Page_Column make an entry for each whole page of *)
(* the size the client asked for, which is not the size rounded up.            *)
HasEntry(p) == p[1] \in entries /\ p[2] < Size[p[1]] \div STANDARD_PAGE_SIZE

Init ==
  /\ operation_type = "ALLOC" /\ SWAP_FD = "none" /\ entries = {}
  /\ status = [p \in Pages |-> "NONE"]
  /\ offset = [p \in Pages |-> Uninit]
  /\ mem = [p \in Pages |-> Zero]
  /\ LORM = <<>> /\ current_LORM_SIZE = 0 /\ FIX_LORM_SIZE = 0
  /\ slots = {} /\ live = {}
  /\ files = [fd \in {"swap"} \cup Mapped |-> IF fd = "swap" THEN <<>> ELSE Given[fd]]
  /\ run = "up"

Ends(how) == run' = how /\ UNCHANGED <<space, status, offset, mem, resident, slots, live, files>>

-----------------------------------------------------------------------------
(* The calls of the client                                                     *)

Limit(size) == IF size > MAX_LORM_SIZE THEN MAX_LORM_SIZE ELSE size

(* userswap_set_size forgets the resident pages; current_LORM_SIZE stays.      *)
userswap_set_size(size) ==
  /\ run = "up" /\ ("resize" \in Habits \/ entries = {})
  /\ FIX_LORM_SIZE' = Limit(size)
  /\ LORM' = <<>>
  /\ live' = live \cup {"LORM"}
  /\ UNCHANGED <<space, status, offset, mem, current_LORM_SIZE, slots, files, run>>

(* What userswap_alloc and userswap_map have in common.                        *)
Record(r, mode, fd) ==
  /\ run = "up"
  /\ r \notin entries
  /\ "overlap" \in Habits \/ entries = {}
  /\ "again" \in Habits \/ current_LORM_SIZE = 0
  /\ operation_type' = mode /\ SWAP_FD' = fd /\ entries' = entries \cup {r}
  /\ FIX_LORM_SIZE' = Limit(roundUp(Size[r]))
  /\ LORM' = <<>>
  /\ slots' = 0..Length[r]-1
  /\ live' = {"LORM", "SWAP"}
  /\ UNCHANGED <<current_LORM_SIZE, mem, run>>

userswap_alloc(r) ==
  /\ r \notin Mapped
  /\ Record(r, "ALLOC", "swap")
  /\ files' = [files EXCEPT !["swap"] = <<>>]     \* O_TRUNC
  /\ UNCHANGED <<status, offset>>

(* The file is cut or zero-filled to the region's size by ftruncate, and every *)
(* page entry starts in the file, at its own offset.                           *)
Zeros(n) == [i \in 1..n |-> Zero]
Truncated(f, n) == SubSeq(f, 1, Min({n, Len(f)})) \o Zeros(n - Len(f))

userswap_mapFromOne(r) ==
  /\ r \in Mapped
  /\ Record(r, "MAP", r)
  /\ files' = [files EXCEPT ![r] = Truncated(@, Length[r])]
  /\ status' = [p \in Pages |-> IF p[1] = r THEN "SWAP" ELSE status[p]]
  /\ offset' = [p \in Pages |-> IF p[1] = r THEN p[2] + 1 ELSE offset[p]]

userswap_mapUnpadded(r) ==
  /\ r \in Mapped
  /\ Record(r, "MAP", r)
  /\ status' = [p \in Pages |-> IF p[1] = r THEN "SWAP" ELSE status[p]]
  /\ offset' = [p \in Pages |-> IF p[1] = r THEN p[2] ELSE offset[p]]
  /\ UNCHANGED files

userswap_map(r) ==
  /\ r \in Mapped
  /\ Record(r, "MAP", r)
  /\ files' = [files EXCEPT ![r] = Truncated(@, Length[r])]
  /\ status' = [p \in Pages |-> IF p[1] = r THEN "SWAP" ELSE status[p]]
  /\ offset' = [p \in Pages |-> IF p[1] = r THEN p[2] ELSE offset[p]]

(* pwrite of a page: past the end of the file, the gap is filled with zeros.   *)
Put(f, s, v) == IF s < Len(f) THEN [f EXCEPT ![s + 1] = v]
                ELSE f \o Zeros(s - Len(f)) \o <<v>>

(* userswap_free writes the dirty pages of a mapped region back, each to its   *)
(* own offset, forgets the region and frees the nodes of both lists, though    *)
(* other regions use them.                                                     *)
WriteBack(f, ps) ==
  [i \in 1..Max({Len(f)} \cup {offset[p] + 1 : p \in ps}) |->
     IF \E p \in ps : offset[p] = i - 1 THEN mem[CHOOSE p \in ps : offset[p] = i - 1]
     ELSE IF i <= Len(f) THEN f[i] ELSE Zero]
Dirty(r) == {p \in PagesOf(r) : HasEntry(p) /\ status[p] = "READWRITE"}

Unmap(r) ==
  /\ entries' = entries \ {r}
  /\ status' = [p \in Pages |-> IF p[1] = r THEN "NONE" ELSE status[p]]
  /\ offset' = [p \in Pages |-> IF p[1] = r THEN Uninit ELSE offset[p]]
  /\ mem' = [p \in Pages |-> IF p[1] = r THEN Zero ELSE mem[p]]
  /\ live' = IF LORM = <<>> THEN live \ {"SWAP"} ELSE {}
  /\ UNCHANGED <<operation_type, SWAP_FD, resident, slots, run>>

userswap_free(r) ==
  /\ run = "up" /\ r \in entries
  /\ IF live # {"LORM", "SWAP"} THEN Ends("double free")
     ELSE /\ files' = IF operation_type = "MAP"
                      THEN [files EXCEPT ![SWAP_FD] = WriteBack(@, Dirty(r))]
                      ELSE files
          /\ Unmap(r)

(* A store the protection of the page allows.  A load changes nothing.         *)
Store(p, v) ==
  /\ run = "up" /\ p[1] \in entries /\ status[p] = "READWRITE"
  /\ mem' = [mem EXCEPT ![p] = v]
  /\ UNCHANGED <<space, status, offset, resident, slots, live, files, run>>

-----------------------------------------------------------------------------
(* The SIGSEGV handler                                                         *)

(* calculate_no_of_pages_to_evict, for a resident set of size bytes.           *)
PagesToEvict(size) == (size - FIX_LORM_SIZE) \div STANDARD_PAGE_SIZE + 1

(* What evict_LORM_pages does to one page q.                                   *)
CleanUnmarked(acc, q) == acc
Clean(acc, q) == [acc EXCEPT !.status[q] = "SWAP"]
PageOutNowhere(acc, q, s) ==
  [acc EXCEPT !.status[q] = "SWAP", !.offset[q] = s, !.slots = @ \ {s}]
PageOut(acc, q, s) ==
  [acc EXCEPT !.status[q] = "SWAP", !.offset[q] = s,
              !.slots = @ \ {s}, !.file = Put(@, s, mem[q])]

Evict(acc, q) ==
  CASE acc.status[q] # "READWRITE" -> Clean(acc, q)
    [] operation_type = "ALLOC" -> PageOut(acc, q, Min(acc.slots))
    [] OTHER -> PageOut(acc, q, acc.offset[q])

(* insert_entry_to_LORM for page p, which is then left with status READ; slot  *)
(* s, if any, is given back after it.                                          *)
Touched(out, freed) ==
  IF operation_type = "ALLOC" /\ (freed # {} \/ \E q \in ToSet(out) : status[q] = "READWRITE")
  THEN {"LORM", "SWAP"} ELSE {"LORM"}

MakeResident(p, pages, freed) ==
  LET size == current_LORM_SIZE + STANDARD_PAGE_SIZE
      k == IF size > FIX_LORM_SIZE THEN PagesToEvict(size) ELSE 0
      out == IF k <= Len(LORM) THEN SubSeq(LORM, 1, k) ELSE LORM
      now == [status |-> status, offset |-> offset, slots |-> slots,
              file |-> files[SWAP_FD]]
      then == FoldLeft(Evict, now, out)
  IN IF ~(Touched(out, freed) \subseteq live)
     THEN Ends("use after free")
     ELSE IF k > Len(LORM) \/ \E j \in 1..k : LORM[j][1] # p[1]
     THEN Ends("null pointer")       \* no head; no entry in the faulting region
     ELSE /\ status' = [then.status EXCEPT ![p] = "READ"]
          /\ offset' = then.offset
          /\ slots' = then.slots \cup (freed \cap 0..Length[p[1]]-1)
          /\ files' = [files EXCEPT ![SWAP_FD] = then.file]
          /\ LORM' = Append(SubSeq(LORM, k + 1, Len(LORM)), p)
          /\ current_LORM_SIZE' = size - k * STANDARD_PAGE_SIZE
          /\ mem' = pages
          /\ UNCHANGED <<space, FIX_LORM_SIZE, live, run>>

(* case USER_PROT_NONE                                                         *)
TouchNew(p) == status[p] = "NONE" /\ MakeResident(p, mem, {})

(* case USER_PROT_READ                                                         *)
MakeWritable(p) ==
  /\ status[p] = "READ"
  /\ status' = [status EXCEPT ![p] = "READWRITE"]
  /\ UNCHANGED <<space, offset, mem, resident, slots, live, files, run>>

(* case USER_PROT_IN_SWAP_FILE: read the page from its slot, then evict, then  *)
(* give the slot back.  A page that was never written out has any offset.      *)
SwapIn(p) ==
  /\ status[p] = "SWAP"
  /\ \E s \in IF offset[p] # Uninit THEN {offset[p]} ELSE 0..Length[p[1]] :
       IF s >= Len(files[SWAP_FD]) THEN Ends("short read")
       ELSE MakeResident(p, [mem EXCEPT ![p] = files[SWAP_FD][s + 1]],
                         IF operation_type = "ALLOC" THEN {s} ELSE {})

(* sigsegv_handler and page_fault_handler: the client touches a page of one of *)
(* its regions whose protection does not allow the access.                     *)
page_fault_handler(p) ==
  /\ run = "up" /\ p[1] \in entries
  /\ IF ~HasEntry(p) THEN Ends("null pointer")
     ELSE TouchNew(p) \/ MakeWritable(p) \/ SwapIn(p)

Next ==
  \/ \E r \in Regions : userswap_alloc(r) \/ userswap_map(r) \/ userswap_free(r)
  \/ \E n \in NewSizes : userswap_set_size(n)
  \/ \E p \in Pages : page_fault_handler(p) \/ \E v \in Values : Store(p, v)

Spec == Init /\ [][Next]_vars

-----------------------------------------------------------------------------
(* Properties                                                                  *)

Resident(p) == p[1] \in entries /\ status[p] \in {"READ", "READWRITE"}

(* Every variable has its type: the offset of a page stays within the slots of *)
(* its region, and the resident size never falls below zero.                   *)
TypeOK ==
  /\ operation_type \in {"ALLOC", "MAP"}
  /\ entries \subseteq Regions
  /\ status \in [Pages -> {"NONE", "READ", "READWRITE", "SWAP"}]
  /\ offset \in [Pages -> Int] /\ \A p \in Pages : offset[p] \in -1..Length[p[1]]-1
  /\ mem \in [Pages -> Values]
  /\ \A j \in DOMAIN LORM : LORM[j] \in Pages
  /\ current_LORM_SIZE \in Nat
  /\ live \subseteq {"LORM", "SWAP"}

(* The resident list is exactly the pages the client can touch, each once, and *)
(* its size is what current_LORM_SIZE says, never above the limit: a page that *)
(* is resident but not listed could never be evicted, one listed twice would   *)
(* be evicted under the client's hands.                                        *)
LORMTracksResident ==
  run = "up" /\ entries # {} =>
    /\ {LORM[j] : j \in DOMAIN LORM} = {p \in Pages : Resident(p)}
    /\ current_LORM_SIZE = Len(LORM) * STANDARD_PAGE_SIZE
    /\ Cardinality({p \in Pages : Resident(p)}) = Len(LORM)
    /\ current_LORM_SIZE <= FIX_LORM_SIZE

(* The parts of an inductive invariant, for a client with no Habits, which has *)
(* one region at most.  No page of another region is in use, and the list is   *)
(* the resident pages of the region:                                           *)
ResidentInv ==
  /\ entries \subseteq Regions /\ \A r, s \in entries : r = s
  /\ status \in [Pages -> {"NONE", "READ", "READWRITE", "SWAP"}]
  /\ \A p \in Pages : p[1] \notin entries => status[p] = "NONE"
  /\ LORM \in Seq(Pages) /\ \A j, k \in 1..Len(LORM) : LORM[j] = LORM[k] => j = k
  /\ current_LORM_SIZE \in Nat /\ FIX_LORM_SIZE \in Nat
  /\ entries # {} =>
       /\ {LORM[j] : j \in 1..Len(LORM)} = {p \in Pages : Resident(p)}
       /\ current_LORM_SIZE = Len(LORM) * STANDARD_PAGE_SIZE
       /\ current_LORM_SIZE <= FIX_LORM_SIZE

(* ... while a region is there, so is all that the handler uses for it:        *)
RegionInv ==
  \A r \in entries :
    /\ live = {"LORM", "SWAP"}
    /\ FIX_LORM_SIZE = Limit(roundUp(Size[r]))
    /\ operation_type = IF r \in Mapped THEN "MAP" ELSE "ALLOC"
    /\ SWAP_FD = IF r \in Mapped THEN r ELSE "swap"

(* ... a page of a mapped region has its place in the file, which is as long   *)
(* as the region and holds what was not written to since; a page of an         *)
(* allocated one is never out, and one of no region is as the kernel gives it: *)
FileInv ==
  /\ files \in [{"swap"} \cup Mapped -> Seq(Values)]
  /\ \A r \in Mapped : Len(files[r]) <= Length[r] /\ (r \in entries => Len(files[r]) = Length[r])
  /\ \A p \in Pages :
       /\ p[1] \notin entries => mem[p] = Zero /\ offset[p] = Uninit
       /\ p[1] \in entries \cap Mapped =>
            /\ status[p] # "NONE" /\ offset[p] = p[2]
            /\ status[p] = "READ" => mem[p] = files[p[1]][p[2] + 1]
       /\ p[1] \in entries \ Mapped => status[p] # "SWAP" /\ offset[p] = Uninit

(* What every step keeps, if the regions that are allocated fit in the limit,  *)
(* which is two pages at least, and the files in the whole pages they are      *)
(* mapped to: the reason for TypeOK, StaysUp and the promise.  ResidentInv     *)
(* needs nothing of this.                                                      *)
SwapInv == TypeOK /\ run = "up" /\ ResidentInv /\ RegionInv /\ FileInv

(* The handler never ends the process: what the client does is legal.          *)
StaysUp == run = "up"

(* The value a load of the page would find, now or once it is moved in again.  *)
Contents(r, i) ==
  LET p == <<r, i>>
  IN IF status[p] = "SWAP" /\ offset[p] # Uninit
     THEN files[IF r \in Mapped THEN r ELSE "swap"][offset[p] + 1]
     ELSE mem[p]

Memory == INSTANCE PagedMemory
  WITH val <- [r \in entries |-> [i \in 0..Length[r]-1 |-> Contents(r, i)]],
       backing <- [r \in Mapped |->
                     IF r \in entries THEN SubSeq(files[r], Length[r] + 1, Len(files[r]))
                                      ELSE files[r]]

(* Each call of the client does to plain memory what it says, a store writes   *)
(* its own value to its own page, and no fault changes the contents of any.    *)
CallByCall ==
  \/ \E r \in Regions : \/ userswap_alloc(r) /\ Memory!Alloc(r)
                        \/ userswap_map(r) /\ Memory!Map(r)
                        \/ userswap_free(r) /\ Memory!Free(r)
  \/ \E p \in Pages, v \in Values : Store(p, v) /\ Memory!Write(p[1], p[2], v)
  \/ (\E p \in Pages : page_fault_handler(p)) /\ UNCHANGED Memory!vars
  \/ (\E n \in NewSizes : userswap_set_size(n)) /\ UNCHANGED Memory!vars

(* Pages keep their values through eviction and return, whatever the handler   *)
(* moves where, and a freed mapping is in its file: the pager is plain memory  *)
(* to its client, which alone changes what a page holds.                       *)
ImplementsMemory == Memory!Init /\ [][CallByCall]_vars

=============================================================================
