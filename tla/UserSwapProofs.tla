--------------------------- MODULE UserSwapProofs ---------------------------
(* Proofs about UserSwap, for regions, pages and limits of any size and a      *)
(* client without the habits that the code does not bear: it holds one region  *)
(* at a time, sets the limit while it holds none, and makes no region after    *)
(* freeing one whose pages it has touched.                                     *)
EXTENDS UserSwap, FiniteSetTheorems, FunctionTheorems, SequenceTheorems, TLAPS

-----------------------------------------------------------------------------
(* Pages and numbers                                                           *)

LEMMA Quotient ==
  ASSUME NEW n \in Int, NEW d \in Nat \ {0}, NEW q \in Int, q * d <= n, n < (q + 1) * d
  PROVE  n \div d = q
<1> DEFINE r == n \div d
           m == n % d
<1>1. r \in Int /\ m \in Int /\ n = d * r + m /\ 0 <= m /\ m < d
  OBVIOUS
<1> HIDE DEF r, m
<1>2. ~(r <= q - 1)
  <2> SUFFICES ASSUME r <= q - 1 PROVE FALSE
    OBVIOUS
  <2>1. d * r <= d * (q - 1)
    BY <1>1
  <2> QED BY <1>1, <2>1
<1>3. ~(r >= q + 1)
  <2> SUFFICES ASSUME r >= q + 1 PROVE FALSE
    OBVIOUS
  <2>1. d * r >= d * (q + 1)
    BY <1>1
  <2> QED BY <1>1, <2>1
<1>4. r = q
  BY <1>1, <1>2, <1>3
<1> QED BY <1>4 DEF r

(* The fold over the pages to evict, which are two at most.                    *)
Evicted(base, out) == FoldLeft(Evict, base, out)

LEMMA FoldOfTwo ==
  ASSUME NEW base, NEW out, NEW k \in {0, 1, 2}, DOMAIN out = 1..k
  PROVE  Evicted(base, out) =
           CASE k = 0 -> base
             [] k = 1 -> Evict(base, out[1])
             [] k = 2 -> Evict(Evict(base, out[1]), out[2])
<1> DEFINE step(s, it) == IF s = {} THEN base ELSE Evict(it[s \ {Max(s)}], out[Max(s)])
           iter == CHOOSE it : it = [s \in SUBSET (1..k) |-> step(s, it)]
           first == [s \in SUBSET (1..k) |->
                       IF s = {} THEN base
                       ELSE IF s = {1} THEN Evict(base, out[1])
                       ELSE IF s = {2} THEN Evict(base, out[2])
                       ELSE Evict(Evict(base, out[1]), out[2])]
<1>1. Evicted(base, out) = iter[1..k]
  BY DEF Evicted, FoldLeft, MapThenFoldSet
<1>2. /\ Max({1}) = 1 /\ Max({2}) = 2 /\ Max({1, 2}) = 2
  BY DEF Max
<1>3. 1..k = IF k = 0 THEN {} ELSE IF k = 1 THEN {1} ELSE {1, 2}
  <2>1. \A x \in 1..k : k # 0 /\ (k = 1 => x = 1) /\ (k = 2 => x \in {1, 2})
    OBVIOUS
  <2>2. (k >= 1 => 1 \in 1..k) /\ (k = 2 => 2 \in 1..k)
    OBVIOUS
  <2> QED BY <2>1, <2>2
<1>4. first = [s \in SUBSET (1..k) |-> step(s, first)]
  <2> SUFFICES ASSUME NEW s \in SUBSET (1..k)
               PROVE  first[s] = step(s, first)
    OBVIOUS
  <2>1. s = {} \/ s = {1} \/ s = {2} \/ s = {1, 2}
    BY <1>3
  <2>2. {} \in SUBSET (1..k) /\ {1} \ {1} = {} /\ {2} \ {2} = {} /\ {1, 2} \ {2} = {1}
    OBVIOUS
  <2>3. s = {1, 2} => {1} \in SUBSET (1..k)
    OBVIOUS
  <2> QED BY <1>2, <2>1, <2>2, <2>3
<1>5. iter = [s \in SUBSET (1..k) |-> step(s, iter)]
  <2> DEFINE Fixed(it) == it = [s \in SUBSET (1..k) |-> step(s, it)]
  <2>1. Fixed(first) /\ iter = CHOOSE it : Fixed(it)
    BY <1>4
  <2> HIDE DEF Fixed, iter, first
  <2>2. Fixed(iter)
    BY <2>1, Zenon
  <2> QED BY <2>2 DEF Fixed
<1> HIDE DEF iter, first
<1>6. /\ iter[{}] = base
      /\ k >= 1 => iter[{1}] = Evict(base, out[1])
  BY <1>2, <1>3, <1>5
<1>7. k = 2 => iter[{1, 2}] = Evict(Evict(base, out[1]), out[2])
  <2> SUFFICES ASSUME k = 2
               PROVE  iter[{1, 2}] = Evict(Evict(base, out[1]), out[2])
    OBVIOUS
  <2>1. iter[{1, 2}] = step({1, 2}, iter)
    <3>1. {1, 2} \in SUBSET (1..k)
      BY <1>3
    <3> QED BY <1>5, <3>1
  <2>2. {1, 2} \ {2} = {1} /\ {1, 2} # {} /\ Max({1, 2}) = 2
    BY <1>2
  <2>3. step({1, 2}, iter) = Evict(iter[{1}], out[2])
    BY <2>2
  <2> QED BY <1>6, <2>1, <2>3
<1> QED BY <1>1, <1>3, <1>6, <1>7

-----------------------------------------------------------------------------
(* The eviction                                                                *)

(* The client, as above.                                                       *)
OneByOne == Habits = {}

(* What the handler evicts when it makes a page resident.                      *)
Grown == current_LORM_SIZE + STANDARD_PAGE_SIZE
Evictions == IF Grown > FIX_LORM_SIZE THEN PagesToEvict(Grown) ELSE 0
Out == IF Evictions <= Len(LORM) THEN SubSeq(LORM, 1, Evictions) ELSE LORM
Acc(a, b, c, d) == [status |-> a, offset |-> b, slots |-> c, file |-> d]
Now == Acc(status, offset, slots, files[SWAP_FD])
Then == Evicted(Now, Out)
Leaves(q) == \E j \in 1..Evictions : LORM[j] = q

(* While the limit is kept, one or two pages leave for one that comes.         *)
LEMMA EvictionsOfOne ==
  ASSUME ResidentInv, entries # {}
  PROVE  /\ Evictions \in {0, 1, 2}
         /\ Evictions = 0 <=> current_LORM_SIZE + STANDARD_PAGE_SIZE <= FIX_LORM_SIZE
         /\ Evictions = 2 <=> current_LORM_SIZE = FIX_LORM_SIZE
         /\ Grown - Evictions * STANDARD_PAGE_SIZE <= FIX_LORM_SIZE
<1>1. /\ STANDARD_PAGE_SIZE \in Nat \ {0} /\ FIX_LORM_SIZE \in Nat /\ current_LORM_SIZE \in Nat
      /\ current_LORM_SIZE <= FIX_LORM_SIZE
  BY PageAssumption DEF ResidentInv
<1>2. CASE Grown <= FIX_LORM_SIZE
  BY <1>1, <1>2 DEF Evictions, Grown
<1>3. CASE Grown > FIX_LORM_SIZE /\ current_LORM_SIZE < FIX_LORM_SIZE
  <2>1. (Grown - FIX_LORM_SIZE) \div STANDARD_PAGE_SIZE = 0
    <3>1. /\ Grown - FIX_LORM_SIZE \in Int
          /\ 0 * STANDARD_PAGE_SIZE <= Grown - FIX_LORM_SIZE
          /\ Grown - FIX_LORM_SIZE < (0 + 1) * STANDARD_PAGE_SIZE
      BY <1>1, <1>3 DEF Grown
    <3> QED BY <1>1, <3>1, Quotient
  <2>2. Evictions = 1
    BY <1>3, <2>1 DEF Evictions, PagesToEvict
  <2> QED BY <1>1, <1>3, <2>2 DEF Grown
<1>4. CASE current_LORM_SIZE = FIX_LORM_SIZE
  <2>1. (Grown - FIX_LORM_SIZE) \div STANDARD_PAGE_SIZE = 1
    <3>1. /\ Grown - FIX_LORM_SIZE \in Int
          /\ 1 * STANDARD_PAGE_SIZE <= Grown - FIX_LORM_SIZE
          /\ Grown - FIX_LORM_SIZE < (1 + 1) * STANDARD_PAGE_SIZE
      BY <1>1, <1>4 DEF Grown
    <3> QED BY <1>1, <3>1, Quotient
  <2>2. Evictions = 2
    BY <1>1, <1>4, <2>1 DEF Evictions, PagesToEvict, Grown
  <2> QED BY <1>1, <1>4, <2>2 DEF Grown
<1> QED BY <1>1, <1>2, <1>3, <1>4 DEF Grown

(* A page that leaves is marked as swapped out, dirty or not.                  *)
Marked(a, q) == [a EXCEPT ![q] = "SWAP"]

LEMMA EvictMarks ==
  ASSUME NEW a, NEW b, NEW c, NEW d, NEW q
  PROVE  \E o, s, f : Evict(Acc(a, b, c, d), q) = Acc(Marked(a, q), o, s, f)
BY DEF Marked, Evict, Clean, PageOut, Acc

LEMMA AccParts ==
  ASSUME NEW a, NEW b, NEW c, NEW d
  PROVE  /\ Acc(a, b, c, d).status = a /\ Acc(a, b, c, d).offset = b
         /\ Acc(a, b, c, d).slots = c /\ Acc(a, b, c, d).file = d
BY DEF Acc

LEMMA OutPages ==
  ASSUME ResidentInv, Evictions \in {0, 1, 2}, Evictions <= Len(LORM)
  PROVE  /\ DOMAIN Out = 1..Evictions
         /\ \A j \in 1..Evictions : Out[j] = LORM[j] /\ Out[j] \in Pages
<1>1. LORM \in Seq(Pages)
  BY DEF ResidentInv
<1> QED BY <1>1 DEF Out

LEMMA AllMarked ==
  ASSUME ResidentInv, Evictions \in {0, 1, 2}, Evictions <= Len(LORM)
  PROVE  Then.status = [q \in Pages |-> IF Leaves(q) THEN "SWAP" ELSE status[q]]
<1>1. /\ DOMAIN Out = 1..Evictions
      /\ \A j \in 1..Evictions : Out[j] = LORM[j] /\ Out[j] \in Pages
  BY OutPages
<1>2. DOMAIN status = Pages /\ status = [q \in Pages |-> status[q]]
  BY DEF ResidentInv
<1>3. CASE Evictions = 0
  <2>1. Then = Now
    BY <1>1, <1>3, FoldOfTwo DEF Then
  <2> QED BY <1>2, <1>3, <2>1, AccParts DEF Now, Leaves
<1>4. CASE Evictions = 1
  <2>1. Then = Evict(Now, LORM[1])
    BY <1>1, <1>4, FoldOfTwo DEF Then
  <2>2. PICK o, s, f : Evict(Now, LORM[1]) = Acc(Marked(status, LORM[1]), o, s, f)
    BY EvictMarks DEF Now
  <2>3. Then.status = Marked(status, LORM[1])
    BY <2>1, <2>2, AccParts
  <2> QED BY <1>1, <1>2, <1>4, <2>3 DEF Leaves, Marked
<1>5. CASE Evictions = 2
  <2>1. Then = Evict(Evict(Now, LORM[1]), LORM[2])
    BY <1>1, <1>5, FoldOfTwo DEF Then
  <2>2. PICK o, s, f : Evict(Now, LORM[1]) = Acc(Marked(status, LORM[1]), o, s, f)
    BY EvictMarks DEF Now
  <2>3. Then.status = Marked(Marked(status, LORM[1]), LORM[2])
    BY <2>1, <2>2, EvictMarks, AccParts
  <2>4. \A q : Leaves(q) <=> q = LORM[1] \/ q = LORM[2]
    BY <1>5 DEF Leaves
  <2>5. LORM[1] \in Pages /\ LORM[2] \in Pages
    BY <1>1, <1>5
  <2> QED BY <1>2, <2>3, <2>4, <2>5 DEF Marked
<1> QED BY <1>3, <1>4, <1>5

-----------------------------------------------------------------------------
(* The resident list                                                           *)

(* A page comes in, unless the process ends over it; it does not when all that *)
(* the handler looks at is there.                                              *)
Comes(p) ==
  /\ Evictions <= Len(LORM)
  /\ status' = [q \in Pages |-> IF q = p THEN "READ" ELSE IF Leaves(q) THEN "SWAP" ELSE status[q]]
  /\ offset' = Then.offset
  /\ files' = [files EXCEPT ![SWAP_FD] = Then.file]
  /\ LORM' = Append(SubSeq(LORM, Evictions + 1, Len(LORM)), p)
  /\ current_LORM_SIZE' = Grown - Evictions * STANDARD_PAGE_SIZE
  /\ UNCHANGED <<space, FIX_LORM_SIZE, live, run>>

Smooth(p) ==
  /\ HasEntry(p) /\ live = {"LORM", "SWAP"}
  /\ Evictions <= Len(LORM) /\ \A j \in 1..Evictions : LORM[j][1] = p[1]
  /\ status[p] = "SWAP" => offset[p] # Uninit /\ ~(offset[p] >= Len(files[SWAP_FD]))

LEMMA MakesResident ==
  ASSUME ResidentInv, NEW p \in Pages, p[1] \in entries, NEW pages, NEW freed,
         MakeResident(p, pages, freed)
  PROVE  (~Smooth(p) /\ \E how : Ends(how)) \/ (Comes(p) /\ mem' = pages)
<1>1. Evictions \in {0, 1, 2} /\ Len(LORM) \in Nat
  BY EvictionsOfOne DEF ResidentInv
<1>2. CASE ~(Touched(Out, freed) \subseteq live)
  <2>1. ~Smooth(p)
    BY <1>2 DEF Smooth, Touched
  <2> QED BY <1>2, <2>1 DEF MakeResident, Out, Evictions, Grown
<1>3. CASE /\ Touched(Out, freed) \subseteq live
           /\ Evictions > Len(LORM) \/ \E j \in 1..Evictions : LORM[j][1] # p[1]
  <2>1. ~Smooth(p)
    BY <1>1, <1>3 DEF Smooth
  <2> QED BY <1>3, <2>1 DEF MakeResident, Out, Evictions, Grown
<1>4. CASE /\ Touched(Out, freed) \subseteq live
           /\ ~(Evictions > Len(LORM) \/ \E j \in 1..Evictions : LORM[j][1] # p[1])
  <2>1. Evictions <= Len(LORM)
    BY <1>1, <1>4
  <2>2. /\ status' = [Then.status EXCEPT ![p] = "READ"]
        /\ offset' = Then.offset
        /\ files' = [files EXCEPT ![SWAP_FD] = Then.file]
        /\ LORM' = Append(SubSeq(LORM, Evictions + 1, Len(LORM)), p)
        /\ current_LORM_SIZE' = Grown - Evictions * STANDARD_PAGE_SIZE
        /\ mem' = pages
        /\ UNCHANGED <<space, FIX_LORM_SIZE, live, run>>
    BY <1>4 DEF MakeResident, Then, Evicted, Now, Acc, Out, Evictions, Grown
  <2>3. status' = [q \in Pages |-> IF q = p THEN "READ" ELSE IF Leaves(q) THEN "SWAP" ELSE status[q]]
    BY <1>1, <2>1, <2>2, AllMarked
  <2> QED BY <2>1, <2>2, <2>3 DEF Comes
<1> QED BY <1>2, <1>3, <1>4

(* What a fault does.                                                          *)
LEMMA FaultOutcome ==
  ASSUME ResidentInv, NEW p \in Pages, page_fault_handler(p)
  PROVE  \/ ~Smooth(p) /\ \E how : Ends(how)
         \/ MakeWritable(p)
         \/ status[p] = "NONE" /\ Comes(p) /\ mem' = mem
         \/ /\ status[p] = "SWAP" /\ Comes(p)
            /\ \E s : /\ offset[p] # Uninit => s = offset[p]
                     /\ mem' = [mem EXCEPT ![p] = files[SWAP_FD][s + 1]]
<1>1. p[1] \in entries
  BY DEF page_fault_handler
<1>2. CASE TouchNew(p)
  <2>1. PICK a, b : a = mem /\ b = {}
    OBVIOUS
  <2>2. MakeResident(p, a, b)
    BY <1>2, <2>1 DEF TouchNew, MakeResident
  <2> QED BY <1>1, <1>2, <2>1, <2>2, MakesResident DEF TouchNew
<1>3. CASE SwapIn(p)
  <2>1. PICK s \in IF offset[p] # Uninit THEN {offset[p]} ELSE 0..Length[p[1]] :
          IF s >= Len(files[SWAP_FD]) THEN Ends("short read")
          ELSE MakeResident(p, [mem EXCEPT ![p] = files[SWAP_FD][s + 1]],
                            IF operation_type = "ALLOC" THEN {s} ELSE {})
    BY <1>3 DEF SwapIn
  <2>2. PICK a, b : a = [mem EXCEPT ![p] = files[SWAP_FD][s + 1]]
                      /\ b = IF operation_type = "ALLOC" THEN {s} ELSE {}
    OBVIOUS
  <2>3. (s >= Len(files[SWAP_FD]) /\ Ends("short read")) \/ MakeResident(p, a, b)
    BY <2>1, <2>2 DEF MakeResident
  <2>4. s >= Len(files[SWAP_FD]) => ~Smooth(p)
    BY <1>3, <2>1 DEF SwapIn, Smooth
  <2>5. (~Smooth(p) /\ \E how : Ends(how)) \/ (Comes(p) /\ mem' = a)
    BY <1>1, <2>3, <2>4, MakesResident
  <2> QED BY <1>3, <2>1, <2>2, <2>5 DEF SwapIn
<1>4. CASE ~HasEntry(p)
  BY <1>4 DEF page_fault_handler, Smooth
<1> QED BY <1>2, <1>3, <1>4 DEF page_fault_handler

(* The list without those that leave and with the one that comes.              *)
LEMMA ListMoves ==
  ASSUME NEW S, NEW s \in Seq(S), NEW k \in 0..Len(s), NEW p \in S
  PROVE  LET t == Append(SubSeq(s, k + 1, Len(s)), p)
         IN  /\ t \in Seq(S) /\ Len(t) = Len(s) - k + 1
             /\ \A j \in 1..Len(s) - k : t[j] = s[j + k]
             /\ t[Len(s) - k + 1] = p
<1> DEFINE u == SubSeq(s, k + 1, Len(s))
<1>1. u \in Seq(S) /\ Len(u) = Len(s) - k
  OBVIOUS
<1>2. \A j \in 1..Len(s) - k : u[j] = s[j + k]
  OBVIOUS
<1> HIDE DEF u
<1>3. /\ Append(u, p) \in Seq(S) /\ Len(Append(u, p)) = Len(u) + 1
      /\ \A j \in 1..Len(u) : Append(u, p)[j] = u[j]
      /\ Append(u, p)[Len(u) + 1] = p
  BY <1>1, AppendProperties
<1>4. /\ Append(u, p) \in Seq(S) /\ Len(Append(u, p)) = Len(s) - k + 1
      /\ \A j \in 1..Len(s) - k : Append(u, p)[j] = s[j + k]
      /\ Append(u, p)[Len(s) - k + 1] = p
  BY <1>1, <1>2, <1>3
<1> QED BY <1>4 DEF u

LEMMA ComesResident ==
  ASSUME ResidentInv, NEW p \in Pages, p[1] \in entries, ~Resident(p), Comes(p)
  PROVE  ResidentInv'
<1> DEFINE n == Len(LORM)
           k == Evictions
           Here(q) == q[1] \in entries' /\ status'[q] \in {"READ", "READWRITE"}
<1>1. /\ n \in Nat /\ k \in 0..n /\ k \in {0, 1, 2} /\ LORM \in Seq(Pages)
      /\ STANDARD_PAGE_SIZE \in Nat \ {0} /\ FIX_LORM_SIZE \in Nat
      /\ \A j \in 1..n : LORM[j] \in Pages /\ Resident(LORM[j])
      /\ \A q \in Pages : Resident(q) => \E j \in 1..n : LORM[j] = q
      /\ \A i, j \in 1..n : LORM[i] = LORM[j] => i = j
  <2>1. \A j \in 1..n : LORM[j] \in {q \in Pages : Resident(q)}
    BY DEF ResidentInv
  <2>2. /\ n \in Nat /\ k \in {0, 1, 2} /\ k <= n /\ LORM \in Seq(Pages)
        /\ FIX_LORM_SIZE \in Nat
    BY EvictionsOfOne DEF ResidentInv, Comes
  <2>3. \A q \in Pages : Resident(q) => \E j \in 1..n : LORM[j] = q
    BY DEF ResidentInv
  <2>4. \A i, j \in 1..n : LORM[i] = LORM[j] => i = j
    BY DEF ResidentInv
  <2>5. k \in 0..n
    BY <2>2
  <2> QED BY <2>1, <2>2, <2>3, <2>4, <2>5, PageAssumption
<1>2. /\ LORM' \in Seq(Pages) /\ Len(LORM') = n - k + 1
      /\ \A j \in 1..n - k : LORM'[j] = LORM[j + k]
      /\ LORM'[n - k + 1] = p
  BY <1>1, ListMoves DEF Comes
<1>3. /\ entries' = entries /\ FIX_LORM_SIZE' = FIX_LORM_SIZE
      /\ current_LORM_SIZE' = Grown - k * STANDARD_PAGE_SIZE
      /\ status' = [q \in Pages |-> IF q = p THEN "READ" ELSE IF Leaves(q) THEN "SWAP" ELSE status[q]]
  BY DEF Comes, space
<1>4. \A q \in Pages : Leaves(q) <=> \E j \in 1..k : LORM[j] = q
  BY DEF Leaves
<1> HIDE DEF n, k
<1>5. \A j \in 1..n : LORM[j] # p
  BY <1>1
<1>6. \A i, j \in 1..Len(LORM') : LORM'[i] = LORM'[j] => i = j
  <2> SUFFICES ASSUME NEW i \in 1..n - k + 1, NEW j \in 1..n - k + 1, LORM'[i] = LORM'[j]
               PROVE  i = j
    BY <1>1, <1>2
  <2>1. CASE i = n - k + 1 /\ j # n - k + 1
    BY <1>1, <1>2, <1>5, <2>1
  <2>2. CASE j = n - k + 1 /\ i # n - k + 1
    BY <1>1, <1>2, <1>5, <2>2
  <2>3. CASE i # n - k + 1 /\ j # n - k + 1
    BY <1>1, <1>2, <2>3
  <2> QED BY <2>1, <2>2, <2>3
<1>7. \A q \in Pages : Here(q) <=> q = p \/ (Resident(q) /\ ~Leaves(q))
  <2>1. \A q \in Pages : Leaves(q) => q # p
    BY <1>1, <1>4, <1>5
  <2> QED BY <1>3, <2>1 DEF Resident
<1>8. \A j \in 1..Len(LORM') : LORM'[j] \in Pages /\ Here(LORM'[j])
  <2> SUFFICES ASSUME NEW j \in 1..n - k + 1
               PROVE  LORM'[j] \in Pages /\ Here(LORM'[j])
    BY <1>1, <1>2
  <2>1. CASE j = n - k + 1
    BY <1>2, <1>3, <2>1 DEF Resident
  <2>2. CASE j \in 1..n - k
    <3>1. j + k \in 1..n /\ \A i \in 1..k : LORM[i] # LORM[j + k]
      BY <1>1, <2>2
    <3>2. LORM[j + k] \in Pages /\ Resident(LORM[j + k]) /\ ~Leaves(LORM[j + k])
      BY <1>1, <1>4, <3>1
    <3>3. LORM'[j] = LORM[j + k]
      BY <1>2, <2>2
    <3>4. /\ LORM'[j] # p /\ LORM'[j] \in Pages /\ ~Leaves(LORM'[j])
          /\ LORM'[j][1] \in entries /\ status[LORM'[j]] \in {"READ", "READWRITE"}
      BY <1>5, <3>1, <3>2, <3>3 DEF Resident
    <3>5. status'[LORM'[j]] = status[LORM'[j]]
      BY <1>3, <3>4
    <3> QED BY <1>3, <3>4, <3>5 DEF Resident
  <2> QED BY <1>1, <2>1, <2>2
<1>9. \A q \in Pages : Here(q) => \E j \in 1..Len(LORM') : LORM'[j] = q
  <2> SUFFICES ASSUME NEW q \in Pages, Resident(q), ~Leaves(q)
               PROVE  \E j \in 1..n - k + 1 : LORM'[j] = q
    <3> HIDE DEF Here
    <3> QED BY <1>1, <1>2, <1>7
  <2>1. PICK i \in 1..n : LORM[i] = q
    BY <1>1
  <2>2. i > k
    BY <1>1, <1>4, <2>1
  <2>3. i - k \in 1..n - k /\ i - k \in 1..n - k + 1 /\ (i - k) + k = i
    BY <1>1, <2>2
  <2>4. LORM'[i - k] = q
    BY <1>2, <2>1, <2>3
  <2> QED BY <2>3, <2>4
<1>10. {LORM'[j] : j \in 1..Len(LORM')} = {q \in Pages : Resident(q)}'
  BY <1>8, <1>9 DEF Resident
<1>11. /\ current_LORM_SIZE' = Len(LORM') * STANDARD_PAGE_SIZE
       /\ current_LORM_SIZE' <= FIX_LORM_SIZE'
       /\ current_LORM_SIZE' \in Nat
  <2>1. current_LORM_SIZE = n * STANDARD_PAGE_SIZE
    BY DEF ResidentInv, n
  <2>2. Grown - k * STANDARD_PAGE_SIZE <= FIX_LORM_SIZE
    BY EvictionsOfOne DEF k
  <2>3. Grown = (n + 1) * STANDARD_PAGE_SIZE
    BY <1>1, <2>1 DEF Grown
  <2>4. current_LORM_SIZE' = (n + 1 - k) * STANDARD_PAGE_SIZE
    BY <1>1, <1>3, <2>3
  <2>5. n + 1 - k \in Nat /\ n + 1 - k = n - k + 1
    BY <1>1
  <2>6. STANDARD_PAGE_SIZE \in Nat
    BY PageAssumption
  <2>7. current_LORM_SIZE' \in Nat
    BY <2>4, <2>5, <2>6
  <2>8. Len(LORM') = n + 1 - k
    BY <1>2, <2>5
  <2> QED BY <1>3, <2>2, <2>4, <2>7, <2>8
<1>12. /\ status' \in [Pages -> {"NONE", "READ", "READWRITE", "SWAP"}]
       /\ \A q \in Pages : q[1] \notin entries => status'[q] = "NONE"
  <2>1. \A q \in Pages : Leaves(q) => Resident(q)
    BY <1>1, <1>4
  <2> QED BY <1>3, <2>1 DEF ResidentInv, Resident
<1> QED BY <1>2, <1>3, <1>6, <1>10, <1>11, <1>12 DEF ResidentInv

(* The other steps leave the list alone or begin with an empty one.            *)
LEMMA EndsKeeps ==
  ASSUME ResidentInv, NEW how, Ends(how)
  PROVE  ResidentInv'
BY DEF Ends, ResidentInv, Resident, space, resident

LEMMA LimitIsNat ==
  ASSUME NEW n \in Nat
  PROVE  Limit(n) \in Nat
BY LimitAssumption DEF Limit

LEMMA LengthIsNat ==
  ASSUME NEW r \in Regions
  PROVE  Length[r] \in Nat /\ roundUp(Size[r]) = Length[r] * STANDARD_PAGE_SIZE
<1> DEFINE q == (Size[r] + STANDARD_PAGE_SIZE - 1) \div STANDARD_PAGE_SIZE
<1>1. /\ Size[r] \in Nat /\ STANDARD_PAGE_SIZE \in Nat \ {0}
  BY SizeAssumption, PageAssumption
<1>2. q \in Nat
  BY <1>1
<1> HIDE DEF q
<1>3. roundUp(Size[r]) = q * STANDARD_PAGE_SIZE
  BY DEF roundUp, q
<1>4. (q * STANDARD_PAGE_SIZE) \div STANDARD_PAGE_SIZE = q
  <2>1. /\ q * STANDARD_PAGE_SIZE \in Int
        /\ q * STANDARD_PAGE_SIZE < (q + 1) * STANDARD_PAGE_SIZE
    BY <1>1, <1>2
  <2> QED BY <1>1, <1>2, <2>1, Quotient
<1> QED BY <1>2, <1>3, <1>4 DEF Length

LEMMA MakeWritableKeeps ==
  ASSUME ResidentInv, NEW p \in Pages, p[1] \in entries, MakeWritable(p)
  PROVE  ResidentInv'
<1>1. /\ UNCHANGED <<entries, LORM, current_LORM_SIZE, FIX_LORM_SIZE>>
      /\ status[p] = "READ" /\ status' = [status EXCEPT ![p] = "READWRITE"]
  BY DEF MakeWritable, space, resident
<1>2. \A q \in Pages : Resident(q)' <=> Resident(q)
  BY <1>1 DEF ResidentInv, Resident
<1>3. {q \in Pages : Resident(q)}' = {q \in Pages : Resident(q)}
  BY <1>2
<1> QED BY <1>1, <1>3 DEF ResidentInv

LEMMA RecordKeeps ==
  ASSUME OneByOne, ResidentInv, NEW r \in Regions, NEW mode, NEW fd, Record(r, mode, fd),
         status' \in [Pages -> {"NONE", "SWAP"}],
         \A p \in Pages : p[1] # r => status'[p] = status[p]
  PROVE  ResidentInv'
<1>1. /\ entries = {} /\ entries' = {r} /\ LORM' = <<>> /\ current_LORM_SIZE' = 0
      /\ current_LORM_SIZE = 0
      /\ FIX_LORM_SIZE' = Limit(roundUp(Size[r]))
  BY DEF Record, OneByOne
<1>2. FIX_LORM_SIZE' \in Nat
  BY <1>1, LimitIsNat, LengthIsNat, PageAssumption
<1>3. \A p \in Pages : p[1] \notin {r} => status'[p] = "NONE"
  BY <1>1 DEF ResidentInv
<1>4. {p \in Pages : Resident(p)}' = {}
  BY DEF Resident
<1>5. <<>> \in Seq(Pages) /\ Len(<<>>) = 0
  OBVIOUS
<1>6. 0 = 0 * STANDARD_PAGE_SIZE /\ 1..0 = {}
  BY PageAssumption
<1> QED BY <1>1, <1>2, <1>3, <1>4, <1>5, <1>6 DEF ResidentInv

LEMMA UnmapKeeps ==
  ASSUME ResidentInv, NEW r \in entries, Unmap(r)
  PROVE  ResidentInv' /\ entries' = {}
<1>1. /\ entries' = {} /\ UNCHANGED <<LORM, current_LORM_SIZE, FIX_LORM_SIZE>>
      /\ status' = [p \in Pages |-> IF p[1] = r THEN "NONE" ELSE status[p]]
  BY DEF Unmap, ResidentInv, resident
<1>2. \A p \in Pages : status'[p] = "NONE"
  BY <1>1 DEF ResidentInv
<1> QED BY <1>1, <1>2 DEF ResidentInv

LEMMA SetSizeKeeps ==
  ASSUME OneByOne, ResidentInv, NEW n \in NewSizes, userswap_set_size(n)
  PROVE  ResidentInv'
<1>1. /\ entries = {} /\ LORM' = <<>> /\ FIX_LORM_SIZE' = Limit(n)
      /\ UNCHANGED <<entries, status, current_LORM_SIZE>>
  BY DEF userswap_set_size, OneByOne, space
<1>2. FIX_LORM_SIZE' \in Nat
  BY <1>1, LimitIsNat, LimitAssumption
<1> QED BY <1>1, <1>2 DEF ResidentInv

LEMMA FaultKeeps ==
  ASSUME ResidentInv, NEW p \in Pages, page_fault_handler(p)
  PROVE  ResidentInv'
<1>1. p[1] \in entries
  BY DEF page_fault_handler
<1>2. CASE status[p] \in {"NONE", "SWAP"} /\ Comes(p)
  BY <1>1, <1>2, ComesResident DEF Resident
<1> QED BY <1>1, <1>2, FaultOutcome, EndsKeeps, MakeWritableKeeps

LEMMA ResidentStays ==
  ASSUME OneByOne, ResidentInv, [Next]_vars
  PROVE  ResidentInv'
<1>1. CASE UNCHANGED vars
  BY <1>1 DEF vars, space, resident, ResidentInv, Resident
<1>2. ASSUME NEW r \in Regions, userswap_alloc(r)
      PROVE  ResidentInv'
  <2>1. Record(r, "ALLOC", "swap") /\ status' = status
    BY <1>2 DEF userswap_alloc
  <2>2. entries = {}
    BY <2>1 DEF Record, OneByOne
  <2>3. status \in [Pages -> {"NONE", "SWAP"}]
    BY <2>2 DEF ResidentInv
  <2> QED BY <2>1, <2>3, RecordKeeps
<1>3. ASSUME NEW r \in Regions, userswap_map(r)
      PROVE  ResidentInv'
  <2>1. /\ Record(r, "MAP", r)
        /\ status' = [p \in Pages |-> IF p[1] = r THEN "SWAP" ELSE status[p]]
    BY <1>3 DEF userswap_map
  <2>2. entries = {}
    BY <2>1 DEF Record, OneByOne
  <2>3. status' \in [Pages -> {"NONE", "SWAP"}]
    BY <2>1, <2>2 DEF ResidentInv
  <2> QED BY <2>1, <2>3, RecordKeeps
<1>4. ASSUME NEW r \in Regions, userswap_free(r)
      PROVE  ResidentInv'
  BY <1>4, EndsKeeps, UnmapKeeps DEF userswap_free
<1>5. ASSUME NEW p \in Pages, NEW v \in Values, Store(p, v)
      PROVE  ResidentInv'
  BY <1>5 DEF Store, space, resident, ResidentInv, Resident
<1> QED BY <1>1, <1>2, <1>3, <1>4, <1>5, SetSizeKeeps, FaultKeeps DEF Next

LEMMA ResidentStarts == Init => ResidentInv
BY DEF Init, ResidentInv

(* The list is what the client can touch, each page once, its size is right    *)
(* and the limit is kept, whatever the sizes of regions, files and limit, and  *)
(* though an allocated region may have lost its contents.                      *)
THEOREM ListIsRight == OneByOne => (Spec => []LORMTracksResident)
<1>1. ASSUME ResidentInv
      PROVE  LORMTracksResident
  <2> SUFFICES ASSUME entries # {}
               PROVE  /\ {LORM[j] : j \in DOMAIN LORM} = {p \in Pages : Resident(p)}
                      /\ current_LORM_SIZE = Len(LORM) * STANDARD_PAGE_SIZE
                      /\ Cardinality({p \in Pages : Resident(p)}) = Len(LORM)
                      /\ current_LORM_SIZE <= FIX_LORM_SIZE
    BY DEF LORMTracksResident
  <2> DEFINE there == {p \in Pages : Resident(p)}
  <2>1. /\ LORM \in Seq(Pages) /\ DOMAIN LORM = 1..Len(LORM)
        /\ {LORM[j] : j \in 1..Len(LORM)} = there
        /\ \A j, k \in 1..Len(LORM) : LORM[j] = LORM[k] => j = k
    BY <1>1 DEF ResidentInv
  <2> HIDE DEF there
  <2>2. LORM \in Bijection(1..Len(LORM), there)
    <3>1. LORM \in [1..Len(LORM) -> there]
      BY <2>1
    <3> QED BY <2>1, <3>1, Fun_IsBij
  <2>3. /\ IsFiniteSet(1..Len(LORM)) /\ Cardinality(1..Len(LORM)) = Len(LORM)
    <3>1. Len(LORM) \in Nat
      BY <2>1
    <3> QED BY <3>1, FS_Interval, SMTT(30)
  <2>4. ExistsBijection(1..Len(LORM), there)
    BY <2>2 DEF ExistsBijection
  <2>5. Cardinality(there) = Len(LORM)
    BY <2>3, <2>4, FS_Bijection
  <2>6. {LORM[j] : j \in DOMAIN LORM} = there
    BY <2>1
  <2>7. current_LORM_SIZE = Len(LORM) * STANDARD_PAGE_SIZE /\ current_LORM_SIZE <= FIX_LORM_SIZE
    BY <1>1 DEF ResidentInv
  <2> QED BY <2>5, <2>6, <2>7 DEF there
<1>2. ASSUME OneByOne
      PROVE  Spec => []ResidentInv
  <2>1. ResidentInv /\ [Next]_vars => ResidentInv'
    BY <1>2, ResidentStays
  <2> QED BY <2>1, ResidentStarts, PTL DEF Spec
<1>3. ResidentInv => LORMTracksResident
  BY <1>1
<1>4. ASSUME OneByOne
      PROVE  Spec => []LORMTracksResident
  BY <1>2, <1>3, <1>4, PTL
<1> QED BY <1>4

-----------------------------------------------------------------------------
(* The pages and the file                                                      *)

(* Sizes are of whole pages, the limit is two of them at least, what is        *)
(* allocated is within it, and a file is no longer than its mapping: each is   *)
(* something that the code does not provide for.                               *)
WholePages == \A r \in Regions : roundUp(Size[r]) = Size[r]
Fits ==
  /\ 2 * STANDARD_PAGE_SIZE <= MAX_LORM_SIZE
  /\ \A r \in Regions \ Mapped : Size[r] <= MAX_LORM_SIZE
  /\ \A r \in Mapped : Len(Given[r]) <= Length[r]
LegalClient == OneByOne /\ WholePages /\ Fits

LEMMA PageShape ==
  /\ \A p \in Pages : /\ p[1] \in Regions /\ p[2] \in 0..Length[p[1]]-1
                      /\ p = <<p[1], p[2]>>
  /\ \A r \in Regions : \A n \in 0..Length[r]-1 : <<r, n>> \in Pages
BY DEF Pages

LEMMA EntryOfPage ==
  ASSUME WholePages, NEW p \in Pages, p[1] \in entries
  PROVE  HasEntry(p)
<1>1. p[1] \in Regions /\ p[2] \in 0..Length[p[1]]-1
  BY PageShape
<1>2. /\ Size[p[1]] = Length[p[1]] * STANDARD_PAGE_SIZE /\ Length[p[1]] \in Nat
      /\ STANDARD_PAGE_SIZE \in Nat \ {0}
  BY <1>1, LengthIsNat, PageAssumption DEF WholePages
<1>3. Size[p[1]] \div STANDARD_PAGE_SIZE = Length[p[1]]
  <2>1. /\ Length[p[1]] * STANDARD_PAGE_SIZE \in Int
        /\ Length[p[1]] * STANDARD_PAGE_SIZE < (Length[p[1]] + 1) * STANDARD_PAGE_SIZE
    BY <1>2
  <2> QED BY <1>2, <2>1, Quotient
<1> QED BY <1>1, <1>2, <1>3 DEF HasEntry

(* A page that is not resident leaves room in the list for itself.             *)
LEMMA RoomInList ==
  ASSUME ResidentInv, NEW p \in Pages, p[1] \in entries, ~Resident(p)
  PROVE  Len(LORM) + 1 <= Length[p[1]]
<1> DEFINE n == Len(LORM)
           r == p[1]
           I == 0..Length[r]-1
           f == [j \in 1..n |-> LORM[j][2]]
<1>1. /\ n \in Nat /\ LORM \in Seq(Pages)
      /\ \A j \in 1..n : LORM[j] \in Pages /\ LORM[j] # p /\ LORM[j][1] = r
      /\ \A j, k \in 1..n : LORM[j] = LORM[k] => j = k
  <2>1. \A j \in 1..n : LORM[j] \in {q \in Pages : Resident(q)}
    BY DEF ResidentInv
  <2> QED BY <2>1 DEF ResidentInv, Resident
<1>2. \A j \in 1..n : LORM[j] = <<r, LORM[j][2]>> /\ LORM[j][2] \in I
  BY <1>1, PageShape
<1>3. p = <<r, p[2]>> /\ p[2] \in I /\ Length[r] \in Nat
  BY PageShape, LengthIsNat
<1> HIDE DEF n, r, I
<1>4. f \in [1..n -> I \ {p[2]}]
  BY <1>1, <1>2, <1>3
<1>5. \A j, k \in 1..n : f[j] = f[k] => j = k
  <2> SUFFICES ASSUME NEW j \in 1..n, NEW k \in 1..n, LORM[j][2] = LORM[k][2]
               PROVE  j = k
    OBVIOUS
  <2>1. LORM[j] = LORM[k]
    BY <1>2
  <2> QED BY <1>1, <2>1
<1> HIDE DEF f
<1>6. f \in Injection(1..n, I \ {p[2]})
  BY <1>4, <1>5 DEF Injection, IsInjective
<1>7. IsFiniteSet(I) /\ Cardinality(I) = Length[r]
  <2>1. 0 \in Int /\ Length[r] - 1 \in Int
    BY <1>3
  <2>2. /\ IsFiniteSet(0..Length[r]-1)
        /\ Cardinality(0..Length[r]-1) = IF 0 > Length[r] - 1 THEN 0 ELSE (Length[r] - 1) - 0 + 1
    BY <2>1, FS_Interval
  <2> QED BY <1>3, <2>2 DEF I
<1>8. IsFiniteSet(I \ {p[2]}) /\ Cardinality(I \ {p[2]}) = Length[r] - 1
  BY <1>3, <1>7, FS_RemoveElement
<1>9. Cardinality(1..n) <= Length[r] - 1
  BY <1>6, <1>8, FS_Injection
<1>10. Cardinality(1..n) = n
  <2>1. 1 \in Int /\ n \in Int /\ n >= 0
    BY <1>1 DEF n
  <2>2. Cardinality(1..n) = IF 1 > n THEN 0 ELSE n - 1 + 1
    BY <2>1, FS_Interval
  <2> QED BY <2>1, <2>2
<1> QED BY <1>1, <1>3, <1>9, <1>10 DEF n, r

(* The list is long enough for what has to leave it, and nothing has to leave  *)
(* it for an allocated region.                                                 *)
LEMMA EnoughListed ==
  ASSUME WholePages, Fits, ResidentInv, RegionInv, NEW p \in Pages, p[1] \in entries, ~Resident(p)
  PROVE  /\ Evictions <= Len(LORM)
         /\ p[1] \notin Mapped => Evictions = 0
<1> DEFINE n == Len(LORM)
           P == STANDARD_PAGE_SIZE
           L == Length[p[1]]
<1>1. /\ n \in Nat /\ P \in Nat \ {0} /\ L \in Nat /\ n + 1 <= L
      /\ MAX_LORM_SIZE \in Nat /\ 2 * P <= MAX_LORM_SIZE
  <2>1. n \in Nat
    BY DEF ResidentInv
  <2>2. P \in Nat \ {0} /\ L \in Nat
    BY PageAssumption, PageShape, LengthIsNat
  <2>3. n + 1 <= L
    BY <2>1, <2>2, RoomInList
  <2>4. MAX_LORM_SIZE \in Nat /\ 2 * P <= MAX_LORM_SIZE
    BY LimitAssumption DEF Fits
  <2> QED BY <2>1, <2>2, <2>3, <2>4
<1>2. /\ Size[p[1]] = L * P /\ FIX_LORM_SIZE = Limit(L * P)
      /\ p[1] \notin Mapped => L * P <= MAX_LORM_SIZE
  BY PageShape, LengthIsNat DEF WholePages, RegionInv, Fits
<1>3. current_LORM_SIZE = n * P
  BY DEF ResidentInv
<1>4. /\ Evictions \in {0, 1, 2}
      /\ Evictions = 0 <=> current_LORM_SIZE + P <= FIX_LORM_SIZE
      /\ Evictions = 2 <=> current_LORM_SIZE = FIX_LORM_SIZE
  BY EvictionsOfOne
<1> HIDE DEF n, P, L
<1>5. CASE L * P <= MAX_LORM_SIZE
  <2>1. FIX_LORM_SIZE = L * P
    BY <1>1, <1>2, <1>5 DEF Limit
  <2>2. n * P + P = (n + 1) * P /\ (n + 1) * P <= L * P
    BY <1>1
  <2>3. Evictions = 0
    BY <1>3, <1>4, <2>1, <2>2
  <2> QED BY <1>1, <2>3 DEF n
<1>6. CASE ~(L * P <= MAX_LORM_SIZE)
  <2>1. FIX_LORM_SIZE = MAX_LORM_SIZE
    BY <1>1, <1>2, <1>6 DEF Limit
  <2>2. n = 0 => n * P = 0
    BY <1>1
  <2>3. n = 1 => n * P = P
    BY <1>1
  <2>4. n # 0 \/ Evictions = 0
    BY <1>1, <1>3, <1>4, <2>1, <2>2
  <2>5. n = 1 => Evictions # 2
    BY <1>1, <1>3, <1>4, <2>1, <2>3
  <2>6. Evictions <= n
    BY <1>1, <1>4, <2>4, <2>5
  <2> QED BY <1>2, <1>6, <2>6 DEF n
<1> QED BY <1>5, <1>6

(* The handler has all that it looks at.                                       *)
LEMMA AllSmooth ==
  ASSUME WholePages, Fits, SwapInv, NEW p \in Pages, p[1] \in entries, ~Resident(p)
  PROVE  Smooth(p)
<1>1. HasEntry(p) /\ Evictions <= Len(LORM)
  BY EntryOfPage, EnoughListed DEF SwapInv
<1>2. live = {"LORM", "SWAP"} /\ SWAP_FD = IF p[1] \in Mapped THEN p[1] ELSE "swap"
  BY DEF SwapInv, RegionInv
<1>3. \A j \in 1..Evictions : LORM[j][1] = p[1]
  <2> SUFFICES ASSUME NEW j \in 1..Evictions
               PROVE  LORM[j][1] = p[1]
    OBVIOUS
  <2>1. j \in 1..Len(LORM)
    BY <1>1, EvictionsOfOne DEF SwapInv, ResidentInv
  <2>2. LORM[j] \in {q \in Pages : Resident(q)}
    BY <2>1 DEF SwapInv, ResidentInv
  <2> QED BY <2>2 DEF SwapInv, ResidentInv, Resident
<1>4. ASSUME status[p] = "SWAP"
      PROVE  offset[p] # Uninit /\ ~(offset[p] >= Len(files[SWAP_FD]))
  <2>1. p[1] \in Mapped /\ offset[p] = p[2] /\ Len(files[p[1]]) = Length[p[1]]
    BY <1>4 DEF SwapInv, FileInv
  <2>2. p[2] \in 0..Length[p[1]]-1 /\ Length[p[1]] \in Nat
    BY PageShape, LengthIsNat
  <2> QED BY <1>2, <2>1, <2>2 DEF Uninit
<1> QED BY <1>1, <1>2, <1>3, <1>4 DEF Smooth

(* A write to a place in the file.                                             *)
LEMMA PutWithin ==
  ASSUME NEW d \in Seq(Values), NEW s \in 0..Len(d)-1, NEW v \in Values
  PROVE  /\ Put(d, s, v) \in Seq(Values) /\ Len(Put(d, s, v)) = Len(d)
         /\ \A n \in 0..Len(d)-1 : Put(d, s, v)[n + 1] = IF n = s THEN v ELSE d[n + 1]
<1>1. Put(d, s, v) = [d EXCEPT ![s + 1] = v]
  BY DEF Put
<1>2. s + 1 \in 1..Len(d)
  OBVIOUS
<1>3. /\ [d EXCEPT ![s + 1] = v] \in Seq(Values)
      /\ Len([d EXCEPT ![s + 1] = v]) = Len(d)
      /\ \A j \in 1..Len(d) : [d EXCEPT ![s + 1] = v][j] = IF j = s + 1 THEN v ELSE d[j]
  BY <1>2, ExceptSeq
<1> QED BY <1>1, <1>3

(* A page of a mapped region that leaves is written to its place, if it is     *)
(* dirty.                                                                      *)
Written(d, was, n, v) == IF was = "READWRITE" THEN Put(d, n, v) ELSE d

LEMMA EvictMapped ==
  ASSUME operation_type = "MAP", NEW a, NEW b \in [Pages -> Int], NEW c, NEW d, NEW q \in Pages
  PROVE  \E s : Evict(Acc(a, b, c, d), q) = Acc(Marked(a, q), b, s, Written(d, a[q], b[q], mem[q]))
<1>1. [b EXCEPT ![q] = b[q]] = b
  OBVIOUS
<1>2. CASE a[q] # "READWRITE"
  <2>1. Evict(Acc(a, b, c, d), q) = Acc(Marked(a, q), b, c, d)
    BY <1>2 DEF Evict, Clean, Acc, Marked
  <2> QED BY <1>2, <2>1 DEF Written
<1>3. CASE a[q] = "READWRITE"
  <2>1. Evict(Acc(a, b, c, d), q) = Acc(Marked(a, q), b, c \ {b[q]}, Written(d, a[q], b[q], mem[q]))
    BY <1>1, <1>3 DEF Evict, PageOut, Acc, Marked, Written
  <2> QED BY <2>1
<1> QED BY <1>2, <1>3

LEMMA WrittenRight ==
  ASSUME NEW d \in Seq(Values), NEW s \in 0..Len(d)-1, NEW v \in Values, NEW was
  PROVE  /\ Written(d, was, s, v) \in Seq(Values) /\ Len(Written(d, was, s, v)) = Len(d)
         /\ \A n \in 0..Len(d)-1 :
              Written(d, was, s, v)[n + 1] =
                IF was = "READWRITE" /\ n = s THEN v ELSE d[n + 1]
<1>1. CASE was = "READWRITE"
  BY <1>1, PutWithin DEF Written
<1>2. CASE was # "READWRITE"
  BY <1>2 DEF Written
<1> QED BY <1>1, <1>2

LEMMA FileAfter ==
  ASSUME SwapInv, NEW r \in entries \cap Mapped, Evictions <= Len(LORM)
  PROVE  /\ Then.offset = offset
         /\ Then.file \in Seq(Values) /\ Len(Then.file) = Length[r]
         /\ \A n \in 0..Length[r]-1 :
              Then.file[n + 1] =
                IF Leaves(<<r, n>>) /\ status[<<r, n>>] = "READWRITE" THEN mem[<<r, n>>]
                ELSE files[r][n + 1]
<1>1. /\ Evictions \in {0, 1, 2} /\ operation_type = "MAP" /\ SWAP_FD = r
      /\ r \in Regions
  BY EvictionsOfOne DEF SwapInv, RegionInv, ResidentInv
<1>2. /\ files[r] \in Seq(Values) /\ Len(files[r]) = Length[r] /\ Length[r] \in Nat
      /\ offset \in [Pages -> Int] /\ mem \in [Pages -> Values]
      /\ status \in [Pages -> {"NONE", "READ", "READWRITE", "SWAP"}]
  BY <1>1, LengthIsNat DEF SwapInv, FileInv, TypeOK, ResidentInv
<1>3. /\ DOMAIN Out = 1..Evictions
      /\ \A j \in 1..Evictions : Out[j] = LORM[j] /\ Out[j] \in Pages
  BY <1>1, OutPages DEF SwapInv
<1>4. \A j \in 1..Evictions :
        /\ LORM[j] \in Pages /\ mem[LORM[j]] \in Values
        /\ offset[LORM[j]] \in 0..Length[r]-1 /\ LORM[j] = <<r, offset[LORM[j]]>>
  <2> SUFFICES ASSUME NEW j \in 1..Evictions
               PROVE  /\ LORM[j] \in Pages /\ mem[LORM[j]] \in Values
                      /\ offset[LORM[j]] \in 0..Length[r]-1 /\ LORM[j] = <<r, offset[LORM[j]]>>
    OBVIOUS
  <2>1. LORM[j] \in {q \in Pages : Resident(q)}
    <3>1. j \in 1..Len(LORM)
      BY <1>1 DEF SwapInv, ResidentInv
    <3> QED BY <3>1 DEF SwapInv, ResidentInv
  <2>2. LORM[j] \in Pages /\ LORM[j][1] = r
    BY <2>1 DEF Resident, SwapInv, ResidentInv
  <2>3. offset[LORM[j]] = LORM[j][2]
    BY <2>2 DEF SwapInv, FileInv
  <2> QED BY <1>2, <2>2, <2>3, PageShape
<1>5. files[SWAP_FD] = files[r]
  BY <1>1
<1>6. CASE Evictions = 0
  <2>1. Then = Now
    BY <1>3, <1>6, FoldOfTwo DEF Then
  <2>2. Then.offset = offset /\ Then.file = files[r]
    BY <1>5, <2>1, AccParts DEF Now
  <2>3. \A q : ~Leaves(q)
    BY <1>6 DEF Leaves
  <2> QED BY <1>2, <2>2, <2>3
<1>7. CASE Evictions = 1
  <2>1. Then = Evict(Now, LORM[1])
    BY <1>3, <1>7, FoldOfTwo DEF Then
  <2>2. PICK q, f : /\ q = LORM[1]
                    /\ f = Written(files[r], status[q], offset[q], mem[q])
    OBVIOUS
  <2>3. q \in Pages /\ mem[q] \in Values /\ offset[q] \in 0..Length[r]-1 /\ q = <<r, offset[q]>>
    BY <1>4, <1>7, <2>2
  <2>4. \E s : Evict(Now, LORM[1]) = Acc(Marked(status, LORM[1]), offset, s, f)
    <3>1. \E s : Evict(Acc(status, offset, slots, files[SWAP_FD]), LORM[1])
                  = Acc(Marked(status, LORM[1]), offset, s,
                        Written(files[SWAP_FD], status[LORM[1]], offset[LORM[1]], mem[LORM[1]]))
      <4>1. PICK a, b, c, d, x : a = status /\ b = offset /\ c = slots /\ d = files[SWAP_FD] /\ x = LORM[1]
        OBVIOUS
      <4>2. operation_type = "MAP" /\ b \in [Pages -> Int] /\ x \in Pages
        BY <1>1, <1>2, <2>2, <2>3, <4>1
      <4>3. \E s : Evict(Acc(a, b, c, d), x) = Acc(Marked(a, x), b, s, Written(d, a[x], b[x], mem[x]))
        BY <4>2, EvictMapped
      <4> QED BY <4>1, <4>3
    <3> QED BY <1>5, <2>2, <3>1 DEF Now
  <2>5. Then.offset = offset /\ Then.file = f
    BY <2>1, <2>4, AccParts
  <2>6. /\ f \in Seq(Values) /\ Len(f) = Length[r]
        /\ \A n \in 0..Length[r]-1 :
             f[n + 1] = IF status[q] = "READWRITE" /\ n = offset[q] THEN mem[q] ELSE files[r][n + 1]
    <3>1. PICK d, w, o, v : d = files[r] /\ w = status[q] /\ o = offset[q] /\ v = mem[q]
      OBVIOUS
    <3>2. f = Written(d, w, o, v) /\ d \in Seq(Values) /\ o \in 0..Len(d)-1 /\ v \in Values
      BY <1>2, <2>2, <2>3, <3>1
    <3> QED BY <1>2, <3>1, <3>2, WrittenRight
  <2>7. \A n \in 0..Length[r]-1 : Leaves(<<r, n>>) <=> n = offset[q]
    BY <1>7, <2>2, <2>3 DEF Leaves
  <2> QED BY <2>3, <2>5, <2>6, <2>7
<1>8. CASE Evictions = 2
  <2>1. Then = Evict(Evict(Now, LORM[1]), LORM[2])
    BY <1>3, <1>8, FoldOfTwo DEF Then
  <2>2. PICK a, b, c, d, q, p : /\ a = status /\ b = offset /\ c = slots /\ d = files[SWAP_FD]
                               /\ q = LORM[1] /\ p = LORM[2]
    OBVIOUS
  <2>3. /\ q \in Pages /\ mem[q] \in Values /\ offset[q] \in 0..Length[r]-1 /\ q = <<r, offset[q]>>
        /\ p \in Pages /\ mem[p] \in Values /\ offset[p] \in 0..Length[r]-1 /\ p = <<r, offset[p]>>
    BY <1>4, <1>8, <2>2
  <2>4. q # p
    <3>1. Len(LORM) \in Nat /\ 1 \in 1..Len(LORM) /\ 2 \in 1..Len(LORM)
      BY <1>8 DEF SwapInv, ResidentInv
    <3> QED BY <2>2, <3>1 DEF SwapInv, ResidentInv
  <2>5. PICK f, g : /\ f = Written(d, a[q], b[q], mem[q])
                    /\ g = Written(f, a[p], b[p], mem[p])
    OBVIOUS
  <2>6. operation_type = "MAP" /\ b \in [Pages -> Int]
    BY <1>1, <1>2, <2>2
  <2>7. PICK s : Evict(Acc(a, b, c, d), q) = Acc(Marked(a, q), b, s, f)
    <3>1. q \in Pages
      BY <2>3
    <3>2. \E s : Evict(Acc(a, b, c, d), q) = Acc(Marked(a, q), b, s, Written(d, a[q], b[q], mem[q]))
      BY ONLY <2>6, <3>1, EvictMapped
    <3> QED BY <2>5, <3>2
  <2>8. PICK x : x = Marked(a, q)
    OBVIOUS
  <2>9. x[p] = a[p]
    BY <1>2, <2>2, <2>3, <2>4, <2>8 DEF Marked
  <2>10. PICK t : Evict(Acc(x, b, s, f), p) = Acc(Marked(x, p), b, t, g)
    <3>1. p \in Pages
      BY <2>3
    <3>2. \E t : Evict(Acc(x, b, s, f), p) = Acc(Marked(x, p), b, t, Written(f, x[p], b[p], mem[p]))
      BY ONLY <2>6, <3>1, EvictMapped
    <3> QED BY <2>5, <2>9, <3>2
  <2>11. Then.offset = offset /\ Then.file = g
    <3>1. Evict(Evict(Acc(a, b, c, d), q), p) = Acc(Marked(x, p), b, t, g)
      BY <2>7, <2>8, <2>10
    <3>2. Then = Acc(Marked(x, p), b, t, g)
      BY <2>1, <2>2, <3>1 DEF Now
    <3> QED BY <2>2, <3>2, AccParts
  <2>12. PICK w, y, m, n, u, v : /\ w = a[q] /\ y = a[p] /\ m = b[q] /\ n = b[p]
                                /\ u = mem[q] /\ v = mem[p]
    OBVIOUS
  <2>13. /\ d \in Seq(Values) /\ Len(d) = Length[r] /\ m \in 0..Len(d)-1 /\ u \in Values
         /\ n \in 0..Len(d)-1 /\ v \in Values
         /\ f = Written(d, w, m, u) /\ g = Written(f, y, n, v)
    BY <1>2, <1>5, <2>2, <2>3, <2>5, <2>12
  <2>14. /\ f \in Seq(Values) /\ Len(f) = Length[r]
         /\ \A i \in 0..Length[r]-1 : f[i + 1] = IF w = "READWRITE" /\ i = m THEN u ELSE d[i + 1]
    BY <2>13, WrittenRight
  <2>15. /\ g \in Seq(Values) /\ Len(g) = Length[r]
         /\ \A i \in 0..Length[r]-1 : g[i + 1] = IF y = "READWRITE" /\ i = n THEN v ELSE f[i + 1]
    <3>1. f \in Seq(Values) /\ n \in 0..Len(f)-1 /\ v \in Values
      BY <2>13, <2>14
    <3>2. /\ Written(f, y, n, v) \in Seq(Values) /\ Len(Written(f, y, n, v)) = Len(f)
          /\ \A i \in 0..Len(f)-1 :
               Written(f, y, n, v)[i + 1] = IF y = "READWRITE" /\ i = n THEN v ELSE f[i + 1]
      BY <3>1, WrittenRight
    <3>3. Len(f) = Length[r] /\ g = Written(f, y, n, v)
      BY <2>13, <2>14
    <3> QED BY <3>2, <3>3
  <2>16. \A z : Leaves(z) <=> z = q \/ z = p
    BY <1>8, <2>2 DEF Leaves
  <2>17. /\ q = <<r, m>> /\ p = <<r, n>> /\ m # n
         /\ w = status[q] /\ y = status[p] /\ u = mem[q] /\ v = mem[p]
    BY <2>2, <2>3, <2>4, <2>12
  <2>18. \A i \in 0..Length[r]-1 :
           /\ Leaves(<<r, i>>) <=> i = m \/ i = n
           /\ i = m => <<r, i>> = q
           /\ i = n => <<r, i>> = p
    BY <2>16, <2>17
  <2>19. \A i \in 0..Length[r]-1 :
           g[i + 1] = IF Leaves(<<r, i>>) /\ status[<<r, i>>] = "READWRITE" THEN mem[<<r, i>>]
                      ELSE d[i + 1]
    BY <2>14, <2>15, <2>17, <2>18
  <2> QED BY <1>5, <2>2, <2>11, <2>15, <2>19
<1> QED BY <1>1, <1>6, <1>7, <1>8

-----------------------------------------------------------------------------
(* The invariant                                                               *)

(* The invariant without the list and what follows from the rest of it.        *)
Shape ==
  /\ operation_type \in {"ALLOC", "MAP"} /\ live \subseteq {"LORM", "SWAP"}
  /\ offset \in [Pages -> Int] /\ mem \in [Pages -> Values]
Kept == Shape /\ run = "up" /\ RegionInv /\ FileInv

LEMMA PartsOfInv ==
  SwapInv <=> ResidentInv /\ Kept
<1>1. ASSUME ResidentInv, Kept
      PROVE  TypeOK
  <2>1. \A p \in Pages : offset[p] \in -1..Length[p[1]]-1
    <3> SUFFICES ASSUME NEW p \in Pages
                 PROVE  offset[p] \in -1..Length[p[1]]-1
      OBVIOUS
    <3>1. Length[p[1]] \in Nat /\ p[2] \in 0..Length[p[1]]-1
      BY PageShape, LengthIsNat
    <3>2. offset[p] = -1 \/ offset[p] = p[2]
      BY <1>1 DEF Kept, FileInv, Uninit
    <3> QED BY <3>1, <3>2
  <2>2. /\ \A j \in DOMAIN LORM : LORM[j] \in Pages
        /\ current_LORM_SIZE \in Nat /\ entries \subseteq Regions
        /\ status \in [Pages -> {"NONE", "READ", "READWRITE", "SWAP"}]
    BY <1>1 DEF ResidentInv
  <2> QED BY <1>1, <2>1, <2>2 DEF Kept, Shape, TypeOK
<1>2. ASSUME SwapInv
      PROVE  Kept
  BY <1>2 DEF SwapInv, TypeOK, Kept, Shape
<1> QED BY <1>1, <1>2 DEF SwapInv, Kept

LEMMA SwapStarts ==
  ASSUME Fits, Init
  PROVE  SwapInv
<1>1. ResidentInv
  BY ResidentStarts
<1>2. Shape
  BY PageAssumption DEF Init, Shape, Uninit
<1>3. RegionInv
  BY DEF Init, RegionInv
<1>4. FileInv
  <2>1. files \in [{"swap"} \cup Mapped -> Seq(Values)]
    BY MappedAssumption DEF Init
  <2>2. \A r \in Mapped : files[r] = Given[r] /\ Len(files[r]) <= Length[r]
    BY MappedAssumption DEF Init, Fits
  <2> QED BY <2>1, <2>2 DEF Init, FileInv
<1> QED BY <1>1, <1>2, <1>3, <1>4, PartsOfInv DEF Kept, Init

(* A file no longer than the mapping is filled up with zeros.                  *)
LEMMA FilledUp ==
  ASSUME NEW d \in Seq(Values), NEW n \in Nat, Len(d) <= n
  PROVE  /\ Truncated(d, n) \in Seq(Values) /\ Len(Truncated(d, n)) = n
         /\ \A i \in 0..n-1 : Truncated(d, n)[i + 1] = IF i < Len(d) THEN d[i + 1] ELSE Zero
<1> DEFINE m == Len(d)
           z == Zeros(n - m)
<1>1. m \in Nat /\ m <= n
  OBVIOUS
<1>2. Min({n, m}) = m
  BY <1>1 DEF Min
<1>3. SubSeq(d, 1, m) = d
  OBVIOUS
<1>4. /\ z \in Seq(Values) /\ Len(z) = n - m
      /\ \A i \in 1..n - m : z[i] = Zero
  BY <1>1, PageAssumption DEF Zeros
<1>5. Truncated(d, n) = d \o z
  BY <1>2, <1>3 DEF Truncated
<1> HIDE DEF z
<1>6. /\ d \o z \in Seq(Values) /\ Len(d \o z) = m + (n - m)
      /\ \A i \in 1..m + (n - m) : (d \o z)[i] = IF i <= m THEN d[i] ELSE z[i - m]
  BY <1>4, ConcatProperties
<1>7. \A i \in 0..n-1 : (d \o z)[i + 1] = IF i < m THEN d[i + 1] ELSE Zero
  <2> SUFFICES ASSUME NEW i \in 0..n-1
               PROVE  (d \o z)[i + 1] = IF i < m THEN d[i + 1] ELSE Zero
    OBVIOUS
  <2>1. i + 1 \in 1..m + (n - m)
    BY <1>1
  <2>2. ~(i < m) => (i + 1) - m \in 1..n - m
    BY <1>1
  <2> QED BY <1>1, <1>4, <1>6, <2>1, <2>2
<1> QED BY <1>1, <1>5, <1>6, <1>7

LEMMA AllocKept ==
  ASSUME OneByOne, SwapInv, NEW r \in Regions, userswap_alloc(r)
  PROVE  Kept'
<1>1. /\ entries = {} /\ entries' = {r} /\ r \notin Mapped
      /\ operation_type' = "ALLOC" /\ SWAP_FD' = "swap" /\ live' = {"LORM", "SWAP"}
      /\ FIX_LORM_SIZE' = Limit(roundUp(Size[r]))
      /\ files' = [files EXCEPT !["swap"] = <<>>]
      /\ UNCHANGED <<status, offset, mem, run>>
  BY DEF userswap_alloc, Record, OneByOne
<1>2. Shape' /\ run' = "up" /\ RegionInv'
  BY <1>1, PartsOfInv DEF Kept, Shape, RegionInv
<1>3. /\ files' \in [{"swap"} \cup Mapped -> Seq(Values)]
      /\ \A x \in Mapped : files'[x] = files[x]
  BY <1>1, MappedAssumption DEF SwapInv, FileInv
<1>4. \A p \in Pages : mem[p] = Zero /\ offset[p] = Uninit /\ status[p] = "NONE"
  BY <1>1 DEF SwapInv, FileInv, ResidentInv
<1>5. FileInv'
  BY <1>1, <1>3, <1>4 DEF SwapInv, FileInv
<1> QED BY <1>2, <1>5 DEF Kept

LEMMA MapKept ==
  ASSUME OneByOne, SwapInv, NEW r \in Regions, userswap_map(r)
  PROVE  Kept'
<1>1. /\ entries = {} /\ entries' = {r} /\ r \in Mapped
      /\ operation_type' = "MAP" /\ SWAP_FD' = r /\ live' = {"LORM", "SWAP"}
      /\ FIX_LORM_SIZE' = Limit(roundUp(Size[r]))
      /\ files' = [files EXCEPT ![r] = Truncated(files[r], Length[r])]
      /\ status' = [p \in Pages |-> IF p[1] = r THEN "SWAP" ELSE status[p]]
      /\ offset' = [p \in Pages |-> IF p[1] = r THEN p[2] ELSE offset[p]]
      /\ UNCHANGED <<mem, run>>
  BY DEF userswap_map, Record, OneByOne
<1>2. offset' \in [Pages -> Int]
  BY <1>1, PageShape DEF SwapInv, TypeOK
<1>3. Shape' /\ run' = "up" /\ RegionInv'
  BY <1>1, <1>2, PartsOfInv DEF Kept, Shape, RegionInv
<1>4. /\ files' \in [{"swap"} \cup Mapped -> Seq(Values)]
      /\ \A x \in Mapped \ {r} : files'[x] = files[x]
      /\ Len(files'[r]) = Length[r]
  <2>1. files[r] \in Seq(Values) /\ Length[r] \in Nat /\ Len(files[r]) <= Length[r]
    BY <1>1, LengthIsNat DEF SwapInv, FileInv
  <2> QED BY <1>1, <2>1, FilledUp DEF SwapInv, FileInv
<1>5. \A p \in Pages : mem[p] = Zero /\ offset[p] = Uninit
  BY <1>1 DEF SwapInv, FileInv
<1>6. \A p \in Pages :
        /\ p[1] = r => status'[p] = "SWAP" /\ offset'[p] = p[2]
        /\ p[1] # r => mem'[p] = Zero /\ offset'[p] = Uninit
  BY <1>1, <1>5
<1>7. \A x \in Mapped : /\ Len(files'[x]) <= Length[x]
                        /\ x = r => Len(files'[x]) = Length[x]
  <2>1. Length[r] \in Nat
    BY LengthIsNat
  <2> QED BY <1>4, <2>1 DEF SwapInv, FileInv
<1>8. FileInv'
  BY <1>1, <1>4, <1>6, <1>7 DEF FileInv
<1> QED BY <1>3, <1>8 DEF Kept

(* What free leaves in the file: what is dirty, over what is there.            *)
LEMMA WrittenBack ==
  ASSUME WholePages, SwapInv, NEW r \in entries \cap Mapped
  PROVE  LET f == WriteBack(files[r], Dirty(r))
         IN  /\ f \in Seq(Values) /\ Len(f) = Length[r]
             /\ \A n \in 0..Length[r]-1 :
                  f[n + 1] = IF status[<<r, n>>] = "READWRITE" THEN mem[<<r, n>>] ELSE files[r][n + 1]
<1> DEFINE d == files[r]
           L == Length[r]
           D == Dirty(r)
           f == WriteBack(d, D)
<1>1. /\ r \in Regions /\ d \in Seq(Values) /\ L \in Nat /\ Len(d) = L
      /\ mem \in [Pages -> Values]
  BY LengthIsNat DEF SwapInv, ResidentInv, FileInv, TypeOK
<1>2. \A p \in D : p \in Pages /\ p = <<r, p[2]>> /\ offset[p] = p[2] /\ p[2] \in 0..L-1
                   /\ status[p] = "READWRITE"
  <2> SUFFICES ASSUME NEW p \in D
               PROVE  p \in Pages /\ p = <<r, p[2]>> /\ offset[p] = p[2] /\ p[2] \in 0..L-1
                      /\ status[p] = "READWRITE"
    OBVIOUS
  <2>1. p \in Pages /\ p[1] = r /\ status[p] = "READWRITE"
    BY DEF Dirty, PagesOf
  <2>2. offset[p] = p[2]
    BY <2>1 DEF SwapInv, FileInv
  <2> QED BY <2>1, <2>2, PageShape
<1>3. \A n \in 0..L-1 : /\ <<r, n>> \in Pages /\ offset[<<r, n>>] = n
                        /\ <<r, n>> \in D <=> status[<<r, n>>] = "READWRITE"
  <2> SUFFICES ASSUME NEW n \in 0..L-1
               PROVE  /\ <<r, n>> \in Pages /\ offset[<<r, n>>] = n
                      /\ <<r, n>> \in D <=> status[<<r, n>>] = "READWRITE"
    OBVIOUS
  <2>1. <<r, n>> \in Pages
    BY <1>1, PageShape
  <2>2. offset[<<r, n>>] = n
    BY <2>1 DEF SwapInv, FileInv
  <2>3. HasEntry(<<r, n>>)
    BY <2>1, EntryOfPage
  <2> QED BY <2>1, <2>2, <2>3 DEF Dirty, PagesOf
<1> HIDE DEF D, L, d
<1>4. Max({Len(d)} \cup {offset[p] + 1 : p \in D}) = L
  <2> DEFINE S == {Len(d)} \cup {offset[p] + 1 : p \in D}
  <2>1. L \in S /\ \A y \in S : y \in Int /\ y <= L
    BY <1>1, <1>2
  <2> HIDE DEF S
  <2>2. \A y \in S : (\A z \in S : z <= y) => y = L
    BY <1>1, <2>1
  <2>3. Max(S) = L
    BY <2>1, <2>2 DEF Max
  <2> QED BY <2>3 DEF S
<1>5. f = [i \in 1..L |->
             IF \E p \in D : offset[p] = i - 1 THEN mem[CHOOSE p \in D : offset[p] = i - 1]
             ELSE IF i <= Len(d) THEN d[i] ELSE Zero]
  BY <1>4 DEF WriteBack
<1> HIDE DEF f
<1>6. \A n \in 0..L-1 :
        f[n + 1] = IF status[<<r, n>>] = "READWRITE" THEN mem[<<r, n>>] ELSE d[n + 1]
  <2> SUFFICES ASSUME NEW n \in 0..L-1
               PROVE  f[n + 1] = IF status[<<r, n>>] = "READWRITE" THEN mem[<<r, n>>] ELSE d[n + 1]
    OBVIOUS
  <2>1. /\ n + 1 \in 1..L /\ (n + 1) - 1 = n /\ n + 1 <= Len(d)
    BY <1>1
  <2>2. \A p \in D : offset[p] = n <=> p = <<r, n>>
    BY <1>2, <1>3
  <2>3. f[n + 1] = IF \E p \in D : offset[p] = n THEN mem[CHOOSE p \in D : offset[p] = n]
                   ELSE d[n + 1]
    BY <1>5, <2>1
  <2>4. CASE <<r, n>> \in D
    <3>1. (CHOOSE p \in D : offset[p] = n) = <<r, n>>
      BY <2>2, <2>4
    <3> QED BY <1>3, <2>2, <2>3, <2>4, <3>1
  <2>5. CASE <<r, n>> \notin D
    BY <1>3, <2>2, <2>3, <2>5
  <2> QED BY <2>4, <2>5
<1>7. f \in Seq(Values) /\ Len(f) = L
  <2>1. \A i \in 1..L : f[i] \in Values
    <3> SUFFICES ASSUME NEW i \in 1..L
                 PROVE  f[i] \in Values
      OBVIOUS
    <3>1. i - 1 \in 0..L-1 /\ (i - 1) + 1 = i /\ i \in 1..Len(d)
      BY <1>1
    <3>2. f[i] = IF status[<<r, i - 1>>] = "READWRITE" THEN mem[<<r, i - 1>>] ELSE d[i]
      BY <1>6, <3>1
    <3>3. <<r, i - 1>> \in Pages /\ d[i] \in Values
      BY <1>1, <1>3, <3>1
    <3> QED BY <1>1, <3>2, <3>3
  <2>2. DOMAIN f = 1..L /\ f = [i \in 1..L |-> f[i]]
    BY <1>5
  <2> QED BY <1>1, <2>1, <2>2
<1> QED BY <1>6, <1>7 DEF f, d, L, D

LEMMA FreeKept ==
  ASSUME WholePages, SwapInv, NEW r \in Regions, userswap_free(r)
  PROVE  /\ Kept' /\ r \in entries /\ Unmap(r)
         /\ r \notin Mapped => files' = files
         /\ r \in Mapped => files' = [files EXCEPT ![r] = WriteBack(files[r], Dirty(r))]
<1>1. /\ r \in entries /\ run = "up" /\ live = {"LORM", "SWAP"}
      /\ operation_type = IF r \in Mapped THEN "MAP" ELSE "ALLOC"
      /\ r \in Mapped => SWAP_FD = r
  BY DEF userswap_free, SwapInv, RegionInv
<1>2. /\ Unmap(r)
      /\ r \notin Mapped => files' = files
      /\ r \in Mapped => files' = [files EXCEPT ![r] = WriteBack(files[r], Dirty(r))]
  BY <1>1 DEF userswap_free
<1>3. /\ entries' = {}
      /\ offset' = [p \in Pages |-> IF p[1] = r THEN Uninit ELSE offset[p]]
      /\ mem' = [p \in Pages |-> IF p[1] = r THEN Zero ELSE mem[p]]
      /\ live' \subseteq {"LORM", "SWAP"}
      /\ UNCHANGED <<operation_type, run>>
  BY <1>1, <1>2, UnmapKeeps DEF Unmap, SwapInv
<1>4. Shape' /\ run' = "up" /\ RegionInv'
  <2>1. offset' \in [Pages -> Int]
    BY <1>3 DEF SwapInv, TypeOK, Uninit
  <2>2. mem' \in [Pages -> Values]
    BY <1>3, PageAssumption DEF SwapInv, TypeOK
  <2> QED BY <1>1, <1>3, <2>1, <2>2 DEF Shape, SwapInv, TypeOK, RegionInv
<1>5. \A p \in Pages : mem'[p] = Zero /\ offset'[p] = Uninit
  <2>1. \A p \in Pages : p[1] # r => mem[p] = Zero /\ offset[p] = Uninit
    BY <1>1 DEF SwapInv, ResidentInv, FileInv
  <2> QED BY <1>3, <2>1
<1>6. files' \in [{"swap"} \cup Mapped -> Seq(Values)] /\ \A x \in Mapped : Len(files'[x]) <= Length[x]
  <2>1. files \in [{"swap"} \cup Mapped -> Seq(Values)] /\ \A x \in Mapped : Len(files[x]) <= Length[x]
    BY DEF SwapInv, FileInv
  <2>2. CASE r \in Mapped
    <3>1. PICK f : f = WriteBack(files[r], Dirty(r))
      OBVIOUS
    <3>2. f \in Seq(Values) /\ Len(f) = Length[r] /\ Length[r] \in Nat
      BY <1>1, <2>2, <3>1, WrittenBack, LengthIsNat
    <3>3. files' = [files EXCEPT ![r] = f]
      BY <1>2, <2>2, <3>1
    <3> QED BY <2>1, <2>2, <3>2, <3>3
  <2> QED BY <1>2, <2>1, <2>2
<1>7. FileInv'
  BY <1>3, <1>5, <1>6 DEF FileInv
<1> QED BY <1>1, <1>2, <1>4, <1>7 DEF Kept

LEMMA SetSizeKept ==
  ASSUME OneByOne, SwapInv, NEW n \in NewSizes, userswap_set_size(n)
  PROVE  Kept'
<1>1. /\ entries = {} /\ live' = live \cup {"LORM"}
      /\ UNCHANGED <<operation_type, entries, status, offset, mem, files, run>>
  BY DEF userswap_set_size, OneByOne, space
<1>2. Shape' /\ run' = "up" /\ RegionInv'
  BY <1>1, PartsOfInv DEF Kept, Shape, RegionInv
<1>3. FileInv'
  BY <1>1 DEF SwapInv, FileInv
<1> QED BY <1>2, <1>3 DEF Kept

LEMMA StoreKept ==
  ASSUME SwapInv, NEW p \in Pages, NEW v \in Values, Store(p, v)
  PROVE  Kept'
<1>1. /\ p[1] \in entries /\ status[p] = "READWRITE" /\ mem' = [mem EXCEPT ![p] = v]
      /\ UNCHANGED <<operation_type, SWAP_FD, entries, FIX_LORM_SIZE, status, offset, live, files, run>>
  BY DEF Store, space, resident
<1>2. Shape' /\ run' = "up" /\ RegionInv'
  BY <1>1, PartsOfInv DEF Kept, Shape, RegionInv
<1>3. FileInv'
  BY <1>1 DEF SwapInv, TypeOK, FileInv
<1> QED BY <1>2, <1>3 DEF Kept

(* A page of an allocated region comes without a page leaving; one of a mapped *)
(* region is read from its place, and what leaves is written to its own.       *)
LEMMA NewKept ==
  ASSUME WholePages, Fits, SwapInv, NEW p \in Pages, p[1] \in entries,
         status[p] = "NONE", Comes(p), mem' = mem
  PROVE  /\ Kept' /\ files' = files /\ offset' = offset
         /\ status' = [status EXCEPT ![p] = "READ"]
<1>1. p[1] \notin Mapped
  BY DEF SwapInv, FileInv
<1>2. Evictions = 0
  BY <1>1, EnoughListed DEF SwapInv, Resident
<1>3. Then = Now
  <2>1. DOMAIN Out = 1..0
    BY <1>2, OutPages DEF SwapInv, ResidentInv
  <2> QED BY <1>2, <2>1, FoldOfTwo DEF Then
<1>4. Then.offset = offset /\ Then.file = files[SWAP_FD]
  BY <1>3, AccParts DEF Now
<1>5. /\ offset' = offset /\ files' = files
      /\ UNCHANGED <<operation_type, SWAP_FD, entries, FIX_LORM_SIZE, live, run>>
  <2>1. files' = [files EXCEPT ![SWAP_FD] = files[SWAP_FD]]
    BY <1>4 DEF Comes
  <2>2. files' = files
    BY <2>1 DEF SwapInv, FileInv
  <2> QED BY <1>4, <2>2 DEF Comes, space
<1>6. status' = [status EXCEPT ![p] = "READ"]
  <2>1. \A q : ~Leaves(q)
    BY <1>2 DEF Leaves
  <2>2. status' = [q \in Pages |-> IF q = p THEN "READ" ELSE status[q]]
    BY <2>1 DEF Comes
  <2> QED BY <2>2 DEF SwapInv, ResidentInv
<1>7. Shape' /\ run' = "up" /\ RegionInv'
  BY <1>5, PartsOfInv DEF Kept, Shape, RegionInv
<1>8. FileInv'
  <2>1. \A q \in Pages : q # p => status'[q] = status[q]
    BY <1>6 DEF SwapInv, ResidentInv
  <2>2. status'[p] = "READ"
    BY <1>6 DEF SwapInv, ResidentInv
  <2> QED BY <1>1, <1>5, <2>1, <2>2 DEF SwapInv, FileInv
<1> QED BY <1>5, <1>6, <1>7, <1>8 DEF Kept

LEMMA BackKept ==
  ASSUME WholePages, Fits, SwapInv, NEW p \in Pages, p[1] \in entries,
         status[p] = "SWAP", Comes(p),
         NEW s, offset[p] # Uninit => s = offset[p], mem' = [mem EXCEPT ![p] = files[SWAP_FD][s + 1]]
  PROVE  /\ Kept' /\ p[1] \in Mapped /\ offset' = offset
         /\ mem' = [mem EXCEPT ![p] = files[p[1]][p[2] + 1]]
         /\ \A q \in Pages :
              /\ Leaves(q) => Resident(q)
              /\ status'[q] = IF q = p THEN "READ" ELSE IF Leaves(q) THEN "SWAP" ELSE status[q]
              /\ q[1] = p[1] =>
                   files'[q[1]][q[2] + 1] = IF Leaves(q) /\ status[q] = "READWRITE" THEN mem[q]
                                            ELSE files[q[1]][q[2] + 1]
<1> DEFINE r == p[1]
<1>1. /\ r \in entries \cap Mapped /\ SWAP_FD = r /\ s = p[2] /\ r \in Regions
      /\ Length[r] \in Nat /\ p[2] \in 0..Length[r]-1
      /\ mem' = [mem EXCEPT ![p] = files[r][p[2] + 1]]
  <2>1. r \in Mapped /\ offset[p] = p[2]
    BY DEF SwapInv, FileInv
  <2>2. r \in Regions /\ Length[r] \in Nat /\ p[2] \in 0..Length[r]-1
    BY PageShape, LengthIsNat
  <2>3. SWAP_FD = r
    BY <2>1 DEF SwapInv, RegionInv
  <2>4. s = p[2]
    BY <2>1, <2>2 DEF Uninit
  <2> QED BY <2>1, <2>2, <2>3, <2>4
<1>2. /\ Then.offset = offset
      /\ Then.file \in Seq(Values) /\ Len(Then.file) = Length[r]
      /\ \A n \in 0..Length[r]-1 :
           Then.file[n + 1] = IF Leaves(<<r, n>>) /\ status[<<r, n>>] = "READWRITE" THEN mem[<<r, n>>]
                              ELSE files[r][n + 1]
  BY <1>1, FileAfter DEF Comes
<1> HIDE DEF r
<1>3. PICK f : f = Then.file
  OBVIOUS
<1>4. /\ offset' = offset /\ files' = [files EXCEPT ![r] = f]
      /\ UNCHANGED <<operation_type, SWAP_FD, entries, FIX_LORM_SIZE, live, run>>
      /\ status' = [q \in Pages |-> IF q = p THEN "READ" ELSE IF Leaves(q) THEN "SWAP" ELSE status[q]]
  BY <1>1, <1>2, <1>3 DEF Comes, space
<1>5. /\ files \in [{"swap"} \cup Mapped -> Seq(Values)] /\ Len(files[r]) = Length[r]
      /\ \A x \in Mapped : Len(files[x]) <= Length[x] /\ (x \in entries => x = r)
  BY <1>1 DEF SwapInv, FileInv, ResidentInv
<1>6. /\ files' \in [{"swap"} \cup Mapped -> Seq(Values)] /\ Len(files'[r]) = Length[r]
      /\ \A x \in Mapped : x # r => files'[x] = files[x]
      /\ files'[r] = f
  BY <1>1, <1>2, <1>3, <1>4, <1>5
<1>7. \A q \in Pages : Leaves(q) => Resident(q)
  <2> SUFFICES ASSUME NEW q \in Pages, Leaves(q)
               PROVE  Resident(q)
    OBVIOUS
  <2>1. PICK j \in 1..Evictions : LORM[j] = q
    BY DEF Leaves
  <2>2. j \in 1..Len(LORM)
    BY EvictionsOfOne DEF SwapInv, ResidentInv, Comes
  <2> QED BY <1>1, <2>1, <2>2 DEF SwapInv, ResidentInv
<1>8. \A q \in Pages :
        q[1] = r => files'[q[1]][q[2] + 1] =
                      IF Leaves(q) /\ status[q] = "READWRITE" THEN mem[q] ELSE files[q[1]][q[2] + 1]
  <2> SUFFICES ASSUME NEW q \in Pages, q[1] = r
               PROVE  files'[r][q[2] + 1] =
                        IF Leaves(q) /\ status[q] = "READWRITE" THEN mem[q] ELSE files[r][q[2] + 1]
    OBVIOUS
  <2>1. q = <<r, q[2]>> /\ q[2] \in 0..Length[r]-1
    BY PageShape
  <2>2. f[q[2] + 1] = IF Leaves(<<r, q[2]>>) /\ status[<<r, q[2]>>] = "READWRITE" THEN mem[<<r, q[2]>>]
                      ELSE files[r][q[2] + 1]
    BY <1>2, <1>3, <2>1
  <2> QED BY <1>6, <2>1, <2>2
<1>9. Shape' /\ run' = "up" /\ RegionInv'
  <2>1. mem' \in [Pages -> Values]
    <3>1. p[2] + 1 \in 1..Len(files[r]) /\ files[r] \in Seq(Values)
      BY <1>1, <1>5
    <3>2. files[r][p[2] + 1] \in Values
      BY <3>1
    <3> QED BY <1>1, <3>2 DEF SwapInv, TypeOK
  <2> QED BY <1>4, <2>1, PartsOfInv DEF Kept, Shape, RegionInv
<1>10. \A q \in Pages :
         q[1] \in entries \cap Mapped =>
            /\ status'[q] # "NONE" /\ offset'[q] = q[2]
            /\ status'[q] = "READ" => mem'[q] = files'[q[1]][q[2] + 1]
  <2> SUFFICES ASSUME NEW q \in Pages, q[1] \in entries \cap Mapped
               PROVE  /\ status'[q] # "NONE" /\ offset'[q] = q[2]
                      /\ status'[q] = "READ" => mem'[q] = files'[q[1]][q[2] + 1]
    OBVIOUS
  <2>1. /\ q[1] = r /\ status[q] # "NONE" /\ offset[q] = q[2]
        /\ status[q] = "READ" => mem[q] = files[q[1]][q[2] + 1]
    BY <1>5 DEF SwapInv, FileInv
  <2>2. files'[q[1]][q[2] + 1] =
          IF Leaves(q) /\ status[q] = "READWRITE" THEN mem[q] ELSE files[q[1]][q[2] + 1]
    BY <1>8, <2>1
  <2>3. status'[q] = IF q = p THEN "READ" ELSE IF Leaves(q) THEN "SWAP" ELSE status[q]
    BY <1>4
  <2>4. mem'[q] = IF q = p THEN files[r][p[2] + 1] ELSE mem[q]
    BY <1>1 DEF SwapInv, TypeOK
  <2>5. ~Leaves(p)
    BY <1>7 DEF Resident
  <2> QED BY <1>4, <2>1, <2>2, <2>3, <2>4, <2>5
<1>11. \A q \in Pages :
         /\ q[1] \notin entries => mem'[q] = Zero /\ offset'[q] = Uninit
         /\ q[1] \in entries \ Mapped => status'[q] # "SWAP" /\ offset'[q] = Uninit
  <2>1. \A q \in Pages : q[1] # r => mem'[q] = mem[q] /\ q \notin {p}
    BY <1>1 DEF SwapInv, TypeOK, r
  <2>2. \A x \in entries : x = r
    BY <1>1 DEF SwapInv, ResidentInv
  <2> QED BY <1>1, <1>4, <2>1, <2>2 DEF SwapInv, FileInv
<1>12. \A x \in Mapped : /\ Len(files'[x]) <= Length[x]
                         /\ x \in entries' => Len(files'[x]) = Length[x]
  <2>1. \A x \in Mapped : x # r => Len(files'[x]) <= Length[x] /\ x \notin entries'
    BY <1>4, <1>5, <1>6
  <2>2. Length[r] \in Nat /\ Len(files'[r]) = Length[r]
    BY <1>1, <1>6
  <2> QED BY <2>1, <2>2
<1>13. FileInv'
  BY <1>4, <1>6, <1>10, <1>11, <1>12 DEF FileInv
<1> QED BY <1>1, <1>4, <1>7, <1>8, <1>9, <1>13 DEF Kept, r

LEMMA WritableKept ==
  ASSUME SwapInv, NEW p \in Pages, p[1] \in entries, MakeWritable(p)
  PROVE  Kept'
<1>1. /\ status[p] = "READ" /\ status' = [status EXCEPT ![p] = "READWRITE"]
      /\ UNCHANGED <<operation_type, SWAP_FD, entries, FIX_LORM_SIZE, offset, mem, live, files, run>>
  BY DEF MakeWritable, space, resident
<1>2. Shape' /\ run' = "up" /\ RegionInv'
  BY <1>1, PartsOfInv DEF Kept, Shape, RegionInv
<1>3. FileInv'
  BY <1>1 DEF SwapInv, TypeOK, FileInv
<1> QED BY <1>2, <1>3 DEF Kept

(* What a fault does for a legal client.                                       *)
LEMMA FaultOfLegal ==
  ASSUME WholePages, Fits, SwapInv, NEW p \in Pages, page_fault_handler(p)
  PROVE  /\ p[1] \in entries
         /\ \/ MakeWritable(p)
            \/ status[p] = "NONE" /\ Comes(p) /\ mem' = mem
            \/ /\ status[p] = "SWAP" /\ Comes(p)
               /\ \E s : /\ offset[p] # Uninit => s = offset[p]
                        /\ mem' = [mem EXCEPT ![p] = files[SWAP_FD][s + 1]]
<1>1. p[1] \in entries /\ ResidentInv
  BY DEF page_fault_handler, SwapInv
<1>2. ASSUME Resident(p), ~Smooth(p), NEW how, Ends(how)
      PROVE  MakeWritable(p)
  <2>1. HasEntry(p)
    BY <1>1, EntryOfPage
  <2>2. status[p] \in {"READ", "READWRITE"}
    BY <1>2 DEF Resident
  <2> QED BY <2>1, <2>2 DEF page_fault_handler, TouchNew, SwapIn
<1>3. Resident(p) \/ Smooth(p)
  BY <1>1, AllSmooth
<1> QED BY <1>1, <1>2, <1>3, FaultOutcome

LEMMA SwapStays ==
  ASSUME LegalClient, SwapInv, [Next]_vars
  PROVE  SwapInv'
<1> USE DEF LegalClient
<1>1. ResidentInv'
  BY ResidentStays DEF SwapInv
<1>2. SwapInv' <=> (ResidentInv /\ Kept)'
  BY PartsOfInv, PTL
<1>3. CASE UNCHANGED vars
  <2>1. Shape' /\ run' = "up" /\ RegionInv'
    BY <1>3, PartsOfInv DEF vars, space, resident, Kept, Shape, RegionInv
  <2>2. FileInv'
    BY <1>3 DEF vars, space, resident, SwapInv, FileInv
  <2> QED BY <1>1, <1>2, <2>1, <2>2 DEF Kept
<1>4. ASSUME NEW p \in Pages, page_fault_handler(p)
      PROVE  Kept'
  BY <1>4, FaultOfLegal, WritableKept, NewKept, BackKept
<1>5. CASE Next
  <2>1. Kept'
    BY <1>4, <1>5, AllocKept, MapKept, FreeKept, SetSizeKept, StoreKept DEF Next
  <2> QED BY <1>1, <1>2, <2>1
<1> QED BY <1>3, <1>5

(* For the client the code provides for, everything the handler and the calls  *)
(* rely on holds at each step.                                                 *)
THEOREM PagerIsSound == LegalClient => (Spec => []SwapInv)
<1>1. ASSUME LegalClient
      PROVE  Spec => []SwapInv
  <2>1. SwapInv /\ [Next]_vars => SwapInv'
    BY <1>1, SwapStays
  <2>2. Init => SwapInv
    BY <1>1, SwapStarts DEF LegalClient
  <2> QED BY <2>1, <2>2, PTL DEF Spec
<1> QED BY <1>1

(* ... and so the process does not end: no list runs out, no freed node is     *)
(* used, no page is read from beyond its file.                                 *)
THEOREM PagerStaysUp == LegalClient => (Spec => []StaysUp)
<1>1. ASSUME LegalClient
      PROVE  Spec => []StaysUp
  <2>1. SwapInv => StaysUp
    BY DEF SwapInv, StaysUp
  <2> QED BY <1>1, <2>1, PagerIsSound, PTL
<1> QED BY <1>1

-----------------------------------------------------------------------------
(* The memory the client sees                                                  *)

ValNow == [r \in entries |-> [i \in 0..Length[r]-1 |-> Contents(r, i)]]
BackNow == [r \in Mapped |->
              IF r \in entries THEN SubSeq(files[r], Length[r] + 1, Len(files[r])) ELSE files[r]]

(* What the invariant says of it.                                              *)
Page(r, n) == IF r \in Mapped /\ status[<<r, n>>] = "SWAP" THEN files[r][n + 1] ELSE mem[<<r, n>>]
Seen ==
  /\ ValNow = [r \in entries |-> [i \in 0..Length[r]-1 |-> Page(r, i)]]
  /\ BackNow = [r \in Mapped |-> IF r \in entries THEN <<>> ELSE files[r]]

LEMMA SeenAlways == SwapInv => Seen
<1> SUFFICES ASSUME SwapInv
             PROVE  Seen
  OBVIOUS
<1>1. ASSUME NEW r \in entries, NEW n \in 0..Length[r]-1
      PROVE  Contents(r, n) = Page(r, n)
  <2>1. /\ r \in Regions /\ Length[r] \in Nat /\ <<r, n>> \in Pages
        /\ <<r, n>>[1] = r /\ <<r, n>>[2] = n
    BY <1>1, LengthIsNat, PageShape DEF SwapInv, ResidentInv
  <2>2. CASE r \in Mapped
    <3>1. offset[<<r, n>>] = n /\ n # Uninit
      BY <1>1, <2>1, <2>2 DEF SwapInv, FileInv, Uninit
    <3> QED BY <2>2, <3>1 DEF Contents, Page
  <2>3. CASE r \notin Mapped
    <3>1. status[<<r, n>>] # "SWAP"
      BY <1>1, <2>1, <2>3 DEF SwapInv, FileInv
    <3> QED BY <2>3, <3>1 DEF Contents, Page
  <2> QED BY <2>2, <2>3
<1>2. ASSUME NEW r \in Mapped, r \in entries
      PROVE  SubSeq(files[r], Length[r] + 1, Len(files[r])) = <<>>
  <2>1. /\ files[r] \in Seq(Values) /\ Len(files[r]) = Length[r] /\ Length[r] \in Nat
    BY <1>2, LengthIsNat, MappedAssumption DEF SwapInv, FileInv
  <2> QED BY <2>1
<1> QED BY <1>1, <1>2 DEF Seen, ValNow, BackNow

(* A step that leaves every page of the region what it was is not seen.        *)
LEMMA Unseen ==
  ASSUME SwapInv, Seen, Seen', entries' = entries,
         \A q \in Pages : q[1] \in entries => Page(q[1], q[2])' = Page(q[1], q[2]),
         \A x \in Mapped : x \notin entries => files'[x] = files[x]
  PROVE  UNCHANGED Memory!vars
<1>1. \A r \in entries : \A n \in 0..Length[r]-1 : Page(r, n)' = Page(r, n)
  <2> SUFFICES ASSUME NEW r \in entries, NEW n \in 0..Length[r]-1
               PROVE  Page(r, n)' = Page(r, n)
    OBVIOUS
  <2>1. <<r, n>> \in Pages /\ <<r, n>>[1] = r /\ <<r, n>>[2] = n
    BY PageShape DEF SwapInv, ResidentInv
  <2> QED BY <2>1
<1> HIDE DEF Page
<1>2. ValNow' = ValNow
  BY <1>1 DEF Seen
<1>3. BackNow' = BackNow
  BY DEF Seen
<1> QED BY <1>2, <1>3 DEF Memory!vars, ValNow, BackNow

LEMMA SeenAlloc ==
  ASSUME OneByOne, SwapInv, Seen, Seen', NEW r \in Regions, userswap_alloc(r)
  PROVE  Memory!Alloc(r)
<1>1. /\ entries = {} /\ entries' = {r} /\ r \notin Mapped /\ UNCHANGED mem
      /\ files' = [files EXCEPT !["swap"] = <<>>]
  BY DEF userswap_alloc, Record, OneByOne
<1>2. /\ Length[r] \in Nat
      /\ \A n \in 0..Length[r]-1 : mem[<<r, n>>] = Zero
  <2> SUFFICES ASSUME NEW n \in 0..Length[r]-1
               PROVE  mem[<<r, n>>] = Zero
    BY LengthIsNat
  <2>1. <<r, n>> \in Pages /\ <<r, n>>[1] = r
    BY PageShape
  <2> QED BY <1>1, <2>1 DEF SwapInv, FileInv
<1>3. DOMAIN ValNow = {}
  BY <1>1 DEF Seen
<1>4. ValNow' = [x \in {r} |-> [i \in 0..Length[r]-1 |-> Zero]]
  BY <1>1, <1>2 DEF Seen, Page
<1>5. Memory!Padded(<<>>, Length[r]) = [i \in 0..Length[r]-1 |-> Zero]
  BY <1>2 DEF Memory!Padded
<1>6. ValNow' = [x \in DOMAIN ValNow \cup {r} |->
                   IF x = r THEN Memory!Padded(<<>>, Length[r]) ELSE ValNow[x]]
  BY <1>3, <1>4, <1>5
<1>7. BackNow' = BackNow
  <2>1. \A x \in Mapped : files'[x] = files[x] /\ x # r
    BY <1>1, MappedAssumption DEF SwapInv, FileInv
  <2> QED BY <1>1, <2>1 DEF Seen
<1>8. Memory!Extend(r, Memory!Padded(<<>>, Length[r]))
  <2>1. r \notin DOMAIN ValNow
    BY <1>3
  <2> QED BY <1>6, <2>1 DEF Memory!Extend, ValNow
<1> QED BY <1>1, <1>7, <1>8 DEF Memory!Alloc, BackNow

LEMMA SeenMap ==
  ASSUME OneByOne, SwapInv, Seen, Seen', NEW r \in Regions, userswap_map(r)
  PROVE  Memory!Map(r)
<1>1. /\ entries = {} /\ entries' = {r} /\ r \in Mapped
      /\ files' = [files EXCEPT ![r] = Truncated(files[r], Length[r])]
      /\ status' = [p \in Pages |-> IF p[1] = r THEN "SWAP" ELSE status[p]]
  BY DEF userswap_map, Record, OneByOne
<1>2. /\ files[r] \in Seq(Values) /\ Length[r] \in Nat /\ Len(files[r]) <= Length[r]
      /\ files \in [{"swap"} \cup Mapped -> Seq(Values)]
  BY <1>1, LengthIsNat DEF SwapInv, FileInv
<1>3. PICK f, b : f = files[r] /\ b = BackNow[r]
  OBVIOUS
<1>4. \A n \in 0..Length[r]-1 :
        Page(r, n)' = IF n < Len(f) THEN f[n + 1] ELSE Zero
  <2> SUFFICES ASSUME NEW n \in 0..Length[r]-1
               PROVE  Page(r, n)' = IF n < Len(f) THEN f[n + 1] ELSE Zero
    OBVIOUS
  <2>1. <<r, n>> \in Pages /\ <<r, n>>[1] = r
    BY PageShape
  <2>2. status'[<<r, n>>] = "SWAP" /\ files'[r] = Truncated(f, Length[r])
    BY <1>1, <1>2, <1>3, <2>1
  <2>3. Truncated(f, Length[r])[n + 1] = IF n < Len(f) THEN f[n + 1] ELSE Zero
    BY <1>2, <1>3, FilledUp
  <2> QED BY <1>1, <2>2, <2>3 DEF Page
<1>5. DOMAIN ValNow = {} /\ BackNow = [x \in Mapped |-> files[x]] /\ b = f
  BY <1>1, <1>3 DEF Seen
<1>6. Memory!Padded(b, Length[r]) = [i \in 0..Length[r]-1 |-> IF i < Len(f) THEN f[i + 1] ELSE Zero]
  BY <1>5 DEF Memory!Padded
<1>7. ValNow' = [x \in DOMAIN ValNow \cup {r} |->
                   IF x = r THEN Memory!Padded(b, Length[r]) ELSE ValNow[x]]
  <2>1. ValNow' = [x \in {r} |-> [i \in 0..Length[r]-1 |-> IF i < Len(f) THEN f[i + 1] ELSE Zero]]
    BY <1>1, <1>4 DEF Seen
  <2> QED BY <1>5, <1>6, <2>1
<1>8. BackNow' = [BackNow EXCEPT ![r] = SubSeq(b, Length[r] + 1, Len(b))]
  <2>1. SubSeq(b, Length[r] + 1, Len(b)) = <<>>
    BY <1>2, <1>3, <1>5
  <2>2. \A x \in Mapped \ {r} : files'[x] = files[x]
    BY <1>1, <1>2
  <2>3. BackNow' = [x \in Mapped |-> IF x = r THEN <<>> ELSE files[x]]
    BY <1>1, <2>2 DEF Seen
  <2> QED BY <1>5, <2>1, <2>3
<1>9. Memory!Extend(r, Memory!Padded(BackNow[r], Length[r]))
  <2>1. r \notin DOMAIN ValNow
    BY <1>5
  <2> QED BY <1>3, <1>7, <2>1 DEF Memory!Extend, ValNow
<1>10. BackNow' = [BackNow EXCEPT ![r] = SubSeq(@, Length[r] + 1, Len(@))]
  BY <1>3, <1>8
<1> QED BY <1>1, <1>9, <1>10, Zenon DEF Memory!Map, BackNow

LEMMA SeenStore ==
  ASSUME SwapInv, Seen, Seen', NEW p \in Pages, NEW v \in Values, Store(p, v)
  PROVE  Memory!Write(p[1], p[2], v)
<1> DEFINE r == p[1]
           n == p[2]
<1>1. /\ r \in entries /\ status[p] = "READWRITE" /\ mem' = [mem EXCEPT ![p] = v]
      /\ UNCHANGED <<entries, status, files>>
      /\ p = <<r, n>> /\ n \in 0..Length[r]-1
  BY PageShape DEF Store, space
<1> HIDE DEF r, n
<1>2. \A x \in entries : \A i \in 0..Length[x]-1 :
        Page(x, i)' = IF x = r /\ i = n THEN v ELSE Page(x, i)
  <2> SUFFICES ASSUME NEW x \in entries, NEW i \in 0..Length[x]-1
               PROVE  Page(x, i)' = IF x = r /\ i = n THEN v ELSE Page(x, i)
    OBVIOUS
  <2>1. <<x, i>> \in Pages
    BY PageShape DEF SwapInv, ResidentInv
  <2>2. mem'[<<x, i>>] = IF x = r /\ i = n THEN v ELSE mem[<<x, i>>]
    BY <1>1, <2>1 DEF SwapInv, TypeOK
  <2>3. x = r /\ i = n => status[<<x, i>>] = "READWRITE"
    BY <1>1
  <2> QED BY <1>1, <2>2, <2>3 DEF Page
<1> HIDE DEF Page
<1>3. /\ DOMAIN ValNow = entries /\ DOMAIN ValNow[r] = 0..Length[r]-1
  BY <1>1 DEF Seen
<1>4. ValNow' = [ValNow EXCEPT ![r][n] = v]
  BY <1>1, <1>2 DEF Seen
<1>5. BackNow' = BackNow
  BY <1>1 DEF Seen
<1>6. r \in DOMAIN ValNow /\ n \in DOMAIN ValNow[r]
  BY <1>1, <1>3
<1>7. Memory!Write(r, n, v)
  BY <1>4, <1>5, <1>6, Zenon DEF Memory!Write, ValNow, BackNow
<1> QED BY <1>7 DEF r, n

LEMMA SeenFree ==
  ASSUME WholePages, SwapInv, Seen, Seen', NEW r \in Regions, userswap_free(r)
  PROVE  Memory!Free(r)
<1>1. /\ r \in entries /\ entries = {r} /\ entries' = {} /\ r \in Regions /\ Length[r] \in Nat
      /\ r \notin Mapped => files' = files
      /\ r \in Mapped => files' = [files EXCEPT ![r] = WriteBack(files[r], Dirty(r))]
      /\ files \in [{"swap"} \cup Mapped -> Seq(Values)]
  BY FreeKept, UnmapKeeps, LengthIsNat DEF SwapInv, ResidentInv, FileInv
<1>2. ValNow' = [x \in DOMAIN ValNow \ {r} |-> ValNow[x]]
  <2>1. DOMAIN ValNow = {r} /\ {r} \ {r} = {}
    BY <1>1 DEF Seen
  <2>2. ValNow' = [x \in {} |-> [i \in 0..Length[x]-1 |-> Page(x, i)']]
    BY <1>1 DEF Seen
  <2> QED BY <2>1, <2>2
<1>3. BackNow' = [x \in Mapped |-> files'[x]]
  BY <1>1 DEF Seen
<1>4. BackNow = [x \in Mapped |-> IF x = r THEN <<>> ELSE files[x]]
  BY <1>1 DEF Seen
<1>5. ASSUME r \in Mapped
      PROVE  BackNow' = [BackNow EXCEPT ![r] = [i \in 1..Length[r] |-> ValNow[r][i - 1]] \o @]
  <2>1. PICK f : f = WriteBack(files[r], Dirty(r))
    OBVIOUS
  <2>2. /\ f \in Seq(Values) /\ Len(f) = Length[r]
        /\ \A n \in 0..Length[r]-1 :
             f[n + 1] = IF status[<<r, n>>] = "READWRITE" THEN mem[<<r, n>>] ELSE files[r][n + 1]
    BY <1>1, <1>5, <2>1, WrittenBack
  <2>3. \A n \in 0..Length[r]-1 : f[n + 1] = ValNow[r][n]
    <3> SUFFICES ASSUME NEW n \in 0..Length[r]-1
                 PROVE  f[n + 1] = ValNow[r][n]
      OBVIOUS
    <3>1. <<r, n>> \in Pages /\ <<r, n>>[1] = r /\ <<r, n>>[2] = n
      BY PageShape
    <3>2. /\ status[<<r, n>>] \in {"READ", "READWRITE", "SWAP"}
          /\ status[<<r, n>>] = "READ" => mem[<<r, n>>] = files[r][n + 1]
      BY <1>1, <1>5, <3>1 DEF SwapInv, TypeOK, FileInv
    <3>3. ValNow[r][n] = Page(r, n)
      BY <1>1 DEF Seen
    <3> QED BY <1>5, <2>2, <3>2, <3>3 DEF Page
  <2>4. f = [i \in 1..Length[r] |-> ValNow[r][i - 1]]
    <3>1. f = [i \in 1..Length[r] |-> f[i]]
      BY <2>2
    <3>2. \A i \in 1..Length[r] : f[i] = ValNow[r][i - 1]
      <4> SUFFICES ASSUME NEW i \in 1..Length[r]
                   PROVE  f[i] = ValNow[r][i - 1]
        OBVIOUS
      <4>1. i - 1 \in 0..Length[r]-1 /\ (i - 1) + 1 = i
        BY <1>1
      <4> QED BY <2>3, <4>1
    <3> QED BY <3>1, <3>2
  <2>5. f \o <<>> = f
    BY <2>2
  <2>6. [i \in 1..Length[r] |-> ValNow[r][i - 1]] \o BackNow[r] = f
    BY <1>4, <1>5, <2>4, <2>5
  <2>7. files' = [files EXCEPT ![r] = f]
    BY <1>1, <1>5, <2>1
  <2>8. BackNow' = [x \in Mapped |-> IF x = r THEN f ELSE files[x]]
    BY <1>1, <1>3, <1>5, <2>7
  <2>9. BackNow' = [BackNow EXCEPT ![r] = f]
    BY <1>4, <2>8
  <2> QED BY <2>6, <2>9
<1>6. ASSUME r \notin Mapped
      PROVE  BackNow' = BackNow
  BY <1>1, <1>3, <1>4, <1>6
<1>7. BackNow' = IF r \in Mapped
                 THEN [BackNow EXCEPT ![r] = [i \in 1..Length[r] |-> ValNow[r][i - 1]] \o @]
                 ELSE BackNow
  BY <1>5, <1>6
<1>8. r \in DOMAIN ValNow
  BY <1>1 DEF Seen
<1> QED BY <1>2, <1>7, <1>8, Zenon DEF Memory!Free, ValNow, BackNow

LEMMA SeenFault ==
  ASSUME WholePages, Fits, SwapInv, Seen, Seen', NEW p \in Pages, page_fault_handler(p)
  PROVE  UNCHANGED Memory!vars
<1>1. p[1] \in entries
  BY FaultOfLegal
<1>2. CASE MakeWritable(p)
  <2>1. /\ status[p] = "READ" /\ status' = [status EXCEPT ![p] = "READWRITE"]
        /\ UNCHANGED <<entries, mem, files>>
    BY <1>2 DEF MakeWritable, space
  <2>2. ASSUME NEW q \in Pages
        PROVE  Page(q[1], q[2])' = Page(q[1], q[2])
    <3>1. q = <<q[1], q[2]>>
      BY PageShape
    <3>2. status'[q] = "SWAP" <=> status[q] = "SWAP"
      BY <2>1 DEF SwapInv, TypeOK
    <3> QED BY <2>1, <3>1, <3>2 DEF Page
  <2> QED BY <2>1, <2>2, Unseen
<1>3. CASE status[p] = "NONE" /\ Comes(p) /\ mem' = mem
  <2>1. /\ files' = files /\ status' = [status EXCEPT ![p] = "READ"] /\ entries' = entries
    BY <1>1, <1>3, NewKept DEF Comes, space
  <2>2. ASSUME NEW q \in Pages
        PROVE  Page(q[1], q[2])' = Page(q[1], q[2])
    <3>1. q = <<q[1], q[2]>>
      BY PageShape
    <3>2. status'[q] = "SWAP" <=> status[q] = "SWAP"
      BY <1>3, <2>1 DEF SwapInv, TypeOK
    <3> QED BY <1>3, <2>1, <3>1, <3>2 DEF Page
  <2> QED BY <2>1, <2>2, Unseen
<1>4. CASE /\ status[p] = "SWAP" /\ Comes(p)
           /\ \E s : /\ offset[p] # Uninit => s = offset[p]
                    /\ mem' = [mem EXCEPT ![p] = files[SWAP_FD][s + 1]]
  <2>1. /\ entries' = entries /\ p[1] \in Mapped
        /\ mem' = [mem EXCEPT ![p] = files[p[1]][p[2] + 1]]
        /\ \A q \in Pages :
             /\ Leaves(q) => Resident(q)
             /\ status'[q] = IF q = p THEN "READ" ELSE IF Leaves(q) THEN "SWAP" ELSE status[q]
             /\ q[1] = p[1] =>
                  files'[q[1]][q[2] + 1] = IF Leaves(q) /\ status[q] = "READWRITE" THEN mem[q]
                                           ELSE files[q[1]][q[2] + 1]
    BY <1>1, <1>4, BackKept DEF Comes, space
  <2>2. ASSUME NEW q \in Pages, q[1] \in entries
        PROVE  Page(q[1], q[2])' = Page(q[1], q[2])
    <3>1. q = <<q[1], q[2]>> /\ q[1] = p[1] /\ q[1] \in Mapped
      BY <1>1, <2>1, <2>2, PageShape DEF SwapInv, ResidentInv
    <3>2. Page(q[1], q[2]) = IF status[q] = "SWAP" THEN files[q[1]][q[2] + 1] ELSE mem[q]
      BY <3>1 DEF Page
    <3>3. Page(q[1], q[2])' = IF status'[q] = "SWAP" THEN files'[q[1]][q[2] + 1] ELSE mem'[q]
      BY <3>1 DEF Page
    <3>4. mem'[q] = IF q = p THEN files[q[1]][q[2] + 1] ELSE mem[q]
      BY <2>1 DEF SwapInv, TypeOK
    <3>5. Leaves(q) => status[q] \in {"READ", "READWRITE"}
      BY <2>1 DEF Resident
    <3>6. status[q] = "READ" => mem[q] = files[q[1]][q[2] + 1]
      BY <2>2, <3>1 DEF SwapInv, FileInv
    <3>7. CASE q = p
      BY <1>4, <2>1, <3>2, <3>3, <3>4, <3>7
    <3>8. CASE q # p /\ Leaves(q)
      BY <2>1, <3>1, <3>2, <3>3, <3>5, <3>6, <3>8
    <3>9. CASE q # p /\ ~Leaves(q)
      BY <2>1, <3>1, <3>2, <3>3, <3>4, <3>9
    <3> QED BY <3>7, <3>8, <3>9
  <2>3. \A x \in Mapped : x \notin entries => files'[x] = files[x]
    <3>1. SWAP_FD \in entries
      BY <1>1, <2>1 DEF SwapInv, RegionInv
    <3>2. files' = [files EXCEPT ![SWAP_FD] = Then.file]
      BY <1>4 DEF Comes
    <3> QED BY <3>1, <3>2 DEF SwapInv, FileInv
  <2> QED BY <2>1, <2>2, <2>3, Unseen
<1> QED BY <1>2, <1>3, <1>4, FaultOfLegal

LEMMA SeenStep ==
  ASSUME LegalClient, SwapInv, Seen, Seen', [Next]_vars
  PROVE  [CallByCall]_vars
<1> USE DEF LegalClient
<1>1. ASSUME NEW r \in Regions, userswap_alloc(r) \/ userswap_map(r) \/ userswap_free(r)
      PROVE  CallByCall
  BY <1>1, SeenAlloc, SeenMap, SeenFree DEF CallByCall
<1>2. ASSUME NEW n \in NewSizes, userswap_set_size(n)
      PROVE  CallByCall
  <2>1. UNCHANGED <<entries, status, mem, files>>
    BY <1>2 DEF userswap_set_size, space
  <2>2. UNCHANGED Memory!vars
    BY <2>1, Unseen DEF Page
  <2> QED BY <1>2, <2>2 DEF CallByCall
<1>3. ASSUME NEW p \in Pages, NEW v \in Values, Store(p, v)
      PROVE  CallByCall
  BY <1>3, SeenStore DEF CallByCall
<1>4. ASSUME NEW p \in Pages, page_fault_handler(p)
      PROVE  CallByCall
  BY <1>4, SeenFault DEF CallByCall
<1> QED BY <1>1, <1>2, <1>3, <1>4 DEF Next

(* The pager is plain memory to a legal client: a call does to it what it      *)
(* says, a store changes its own page only and a fault none at all, though     *)
(* pages are moved out and in, and free leaves the contents of a mapped region *)
(* in its file.                                                                *)
THEOREM PagerIsMemory == LegalClient => (Spec => ImplementsMemory)
<1>1. Init => Memory!Init
  <2> SUFFICES ASSUME Init
               PROVE  Memory!Init
    OBVIOUS
  <2>1. ValNow = <<>>
    BY DEF Init, ValNow
  <2>2. BackNow = Given
    <3>1. entries = {} /\ \A r \in Mapped : files[r] = Given[r]
      BY MappedAssumption DEF Init
    <3>2. Given = [r \in Mapped |-> Given[r]]
      BY MappedAssumption
    <3> QED BY <3>1, <3>2 DEF BackNow
  <2> QED BY <2>1, <2>2, Zenon DEF Memory!Init, ValNow, BackNow
<1>2. ASSUME LegalClient
      PROVE  Spec => ImplementsMemory
  <2>1. SwapInv /\ Seen /\ Seen' /\ [Next]_vars => [CallByCall]_vars
    BY <1>2, SeenStep
  <2> QED BY <1>1, <1>2, <2>1, PagerIsSound, SeenAlways, PTL DEF Spec, ImplementsMemory
<1> QED BY <1>2

=============================================================================
