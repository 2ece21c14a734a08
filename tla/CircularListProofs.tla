------------------------- MODULE CircularListProofs -------------------------
(* Proofs about CircularList, for any addresses, numbers and functions and any *)
(* sequence of instructions.                                                   *)
EXTENDS CircularList, FiniteSetTheorems, FunctionTheorems, SequenceTheorems, WellFoundedInduction, TLAPS

-----------------------------------------------------------------------------
(* Numbers                                                                     *)

(* A set of naturals has a least element: the loops of node.c are reasoned     *)
(* about at the first step that would go wrong.                                *)
LEMMA LeastNatural ==
  ASSUME NEW S \in SUBSET Nat, S # {}
  PROVE  \E x \in S : \A y \in S : x <= y
<1> DEFINE R == {ss \in Nat \X Nat : ss[1] < ss[2]}
<1>1. R = OpToRel(<, Nat)
  BY Zenon DEF OpToRel
<1>2. IsWellFoundedOn(R, Nat)
  BY <1>1, NatLessThanWellFounded, Zenon
<1>3. PICK x \in S : \A y \in S : <<y, x>> \notin R
  <2> HIDE DEF R
  <2> QED BY <1>2, WFMin
<1>4. \A y \in S : x <= y
  <2> SUFFICES ASSUME NEW y \in S, y < x
               PROVE  FALSE
    OBVIOUS
  <2>1. <<y, x>> \in {ss \in Nat \X Nat : ss[1] < ss[2]}
    OBVIOUS
  <2> QED BY <1>3, <2>1
<1> QED BY <1>4

(* A step of the ring in its indices.                                          *)
Around(i, n) == IF i < n THEN i ELSE i - n

LEMMA Remainder ==
  ASSUME NEW n \in Nat \ {0}, NEW q \in Int, NEW c \in 0..n-1
  PROVE  (n * q + c) % n = c
<1> DEFINE x == n * q + c
           p == x \div n
           m == x % n
<1>1. p \in Int /\ m \in Int /\ x = n * p + m /\ 0 <= m /\ m < n
  OBVIOUS
<1> HIDE DEF p, m
<1>2. ~(p <= q - 1)
  <2> SUFFICES ASSUME p <= q - 1 PROVE FALSE
    OBVIOUS
  <2>1. n * p <= n * (q - 1)
    BY <1>1
  <2>2. n * (q - 1) = n * q - n
    OBVIOUS
  <2> QED BY <1>1, <2>1, <2>2
<1>3. ~(p >= q + 1)
  <2> SUFFICES ASSUME p >= q + 1 PROVE FALSE
    OBVIOUS
  <2>1. n * p >= n * (q + 1)
    BY <1>1
  <2>2. n * (q + 1) = n * q + n
    OBVIOUS
  <2> QED BY <1>1, <2>1, <2>2
<1>4. p = q
  BY <1>1, <1>2, <1>3
<1>5. m = c
  BY <1>1, <1>4
<1> QED BY <1>5 DEF m

LEMMA RemainderOfSum ==
  ASSUME NEW n \in Nat \ {0}, NEW k \in Nat, NEW j \in 0..n
  PROVE  /\ k % n \in 0..n-1
         /\ (k + j) % n = Around(Around((k % n) + j, n), n)
         /\ k < n => k % n = k
<1> DEFINE p == k \div n
           m == k % n
<1>1. p \in Int /\ m \in 0..n-1 /\ k = n * p + m
  OBVIOUS
<1> HIDE DEF p, m
<1>2. CASE m + j < n
  <2>1. m + j \in 0..n-1 /\ k + j = n * p + (m + j)
    BY <1>1, <1>2
  <2>2. (k + j) % n = m + j
    BY <1>1, <2>1, Remainder
  <2> QED BY <1>1, <1>2, <2>2 DEF m, Around
<1>3. CASE m + j >= n
  <2>1. m + j - n \in 0..n-1 /\ n * (p + 1) = n * p + n /\ p + 1 \in Int
    BY <1>1, <1>3
  <2>2. k + j = n * (p + 1) + (m + j - n)
    BY <1>1, <2>1
  <2>3. (k + j) % n = m + j - n
    BY <2>1, <2>2, Remainder
  <2> QED BY <1>1, <1>3, <2>1, <2>3 DEF m, Around
<1>4. k < n => k % n = k
  OBVIOUS
<1> QED BY <1>1, <1>2, <1>3, <1>4 DEF m

-----------------------------------------------------------------------------
(* The ring                                                                    *)

(* r lists the n nodes of the ring from the head h along the pointers nx.      *)
RingOf(h, nx, n, r) ==
  /\ n \in Nat \ {0} /\ r \in [0..n-1 -> DOMAIN nx]
  /\ \A i, j \in 0..n-1 : r[i] = r[j] => i = j
  /\ \A m \in DOMAIN nx : \E i \in 0..n-1 : r[i] = m
  /\ r[0] = h
  /\ \A i \in 0..n-1 : nx[r[i]] = r[Around(i + 1, n)]

Ring(n, r) == RingOf(head, next, n, r)

(* The inductive invariant: the allocated nodes can be listed as one ring.     *)
ListInv ==
  /\ TypeOK
  /\ IF head = NULL THEN DOMAIN next = {}
     ELSE \E n, r : Ring(n, r)

(* k steps from the head arrive at the node of index k, modulo the size.       *)
LEMMA Steps ==
  ASSUME NEW n \in Nat \ {0}, NEW r, Ring(n, r), NEW k \in Nat
  PROVE  get_node_pt(k) = r[k % n]
<1> DEFINE F(at) == at = [i \in 0..k |-> IF i = 0 THEN head ELSE next[at[i - 1]]]
           w == [i \in 0..k |-> r[i % n]]
           at == CHOOSE a : F(a)
<1>1. \A i \in Nat : /\ i % n \in 0..n-1
                     /\ (i + 1) % n = Around((i % n) + 1, n)
  <2> TAKE i \in Nat
  <2>1. 1 \in 0..n
    OBVIOUS
  <2>2. i % n \in 0..n-1 /\ (i + 1) % n = Around(Around((i % n) + 1, n), n)
    BY <2>1, RemainderOfSum
  <2> QED BY <2>2 DEF Around
<1>2. 0 % n = 0
  BY RemainderOfSum
<1>3. \A i \in Nat \ {0} : next[r[(i - 1) % n]] = r[i % n]
  <2> TAKE i \in Nat \ {0}
  <2>1. i - 1 \in Nat /\ (i - 1) + 1 = i
    OBVIOUS
  <2>2. (i - 1) % n \in 0..n-1 /\ i % n = Around(((i - 1) % n) + 1, n)
    BY <1>1, <2>1
  <2> QED BY <2>2 DEF Ring, RingOf
<1>4. F(w)
  <2> SUFFICES ASSUME NEW i \in 0..k
               PROVE  w[i] = IF i = 0 THEN head ELSE next[w[i - 1]]
    OBVIOUS
  <2>1. CASE i = 0
    BY <1>2, <2>1 DEF Ring, RingOf
  <2>2. CASE i # 0
    <3>1. i - 1 \in 0..k /\ i \in Nat \ {0}
      BY <2>2
    <3> QED BY <1>3, <2>2, <3>1
  <2> QED BY <2>1, <2>2
<1>5. F(at)
  <2> HIDE DEF F, w
  <2> QED BY <1>4
<1>6. get_node_pt(k) = at[k]
  BY DEF get_node_pt
<1> HIDE DEF at
<1>7. \A i \in 0..k : at[i] = r[i % n]
  <2> DEFINE S == {i \in 0..k : at[i] # r[i % n]}
  <2> SUFFICES ASSUME S # {}
               PROVE  FALSE
    OBVIOUS
  <2>1. S \in SUBSET Nat
    OBVIOUS
  <2>2. PICK i \in S : \A j \in S : i <= j
    <3> HIDE DEF S
    <3> QED BY <2>1, LeastNatural
  <2>3. CASE i = 0
    BY <1>2, <1>5, <2>2, <2>3 DEF Ring, RingOf
  <2>4. CASE i # 0
    <3>1. i - 1 \in 0..k /\ i \in 0..k /\ i \in Nat \ {0}
      BY <2>4
    <3>2. at[i - 1] = r[(i - 1) % n]
      BY <2>2, <3>1
    <3>3. at[i] = next[at[i - 1]]
      BY <1>5, <2>4, <3>1
    <3> QED BY <1>3, <3>1, <3>2, <3>3
  <2> QED BY <2>3, <2>4
<1>8. k \in 0..k
  OBVIOUS
<1> QED BY <1>6, <1>7, <1>8

LEMMA StepsOfNone == get_node_pt(0) = head
<1> DEFINE F(at) == at = [i \in 0..0 |-> IF i = 0 THEN head ELSE next[at[i - 1]]]
           w == [i \in 0..0 |-> head]
           at == CHOOSE a : F(a)
<1>1. F(w) /\ 0 \in 0..0
  OBVIOUS
<1>2. F(at)
  <2> HIDE DEF F, w
  <2> QED BY <1>1
<1>3. get_node_pt(0) = at[0]
  BY DEF get_node_pt
<1> HIDE DEF at
<1> QED BY <1>1, <1>2, <1>3

(* The nodes of the ring are as many as its indices.                           *)
LEMMA RingSize ==
  ASSUME NEW n \in Nat \ {0}, NEW r, Ring(n, r)
  PROVE  Cardinality(DOMAIN next) = n
<1>1. IsFiniteSet(0..n-1) /\ Cardinality(0..n-1) = n
  <2>1. 0 \in Int /\ n - 1 \in Int
    OBVIOUS
  <2>2. /\ IsFiniteSet(0..n-1)
        /\ Cardinality(0..n-1) = IF 0 > n - 1 THEN 0 ELSE (n - 1) - 0 + 1
    BY <2>1, FS_Interval
  <2> QED BY <2>2
<1>2. r \in Bijection(0..n-1, DOMAIN next)
  BY Fun_IsBij DEF Ring, RingOf
<1> QED BY <1>1, <1>2, FS_Bijection DEF ExistsBijection

LEMMA FirstTurn ==
  ASSUME NEW n \in Nat \ {0}, NEW r, Ring(n, r), NEW k \in 0..n-1
  PROVE  get_node_pt(k) = r[k]
<1>1. 0 \in 0..n /\ k \in Nat /\ k < n
  OBVIOUS
<1>2. k % n = k
  BY <1>1, RemainderOfSum
<1> QED BY <1>1, <1>2, Steps

(* A whole turn comes back to the head.                                        *)
LEMMA OneTurn ==
  ASSUME NEW n \in Nat \ {0}, NEW r, Ring(n, r)
  PROVE  get_node_pt(n) = head
<1>1. (0 + n) % n = Around(Around((0 % n) + n, n), n) /\ 0 % n = 0
  BY RemainderOfSum
<1>2. n % n = 0
  BY <1>1 DEF Around
<1> QED BY <1>2, Steps DEF Ring, RingOf

(* A turn visits every node once, in the order of the ring.                    *)
LEMMA TurnOfRing ==
  ASSUME NEW n \in Nat \ {0}, NEW r, Ring(n, r), head # NULL
  PROVE  /\ Turn = [i \in 1..n |-> r[i - 1]]
         /\ Len(Turn) = n /\ DOMAIN Turn = 1..n
         /\ Last(Turn) = r[n - 1]
         /\ ToSet(Turn) = DOMAIN next
<1>1. \A k \in 0..n-1 : get_node_pt(k) = r[k]
  BY FirstTurn
<1>2. get_node_pt(n) = head
  BY OneTurn
<1>3. {k \in 1..Cardinality(DOMAIN next) : get_node_pt(k) = head} = {n}
  <2>1. \A k \in 1..n-1 : get_node_pt(k) # head
    BY <1>1 DEF Ring, RingOf
  <2> QED BY <1>2, <2>1, RingSize
<1>4. Min({n}) = n
  BY DEF Min
<1>5. Turn = [i \in 1..n |-> r[i - 1]]
  <2>1. Turn = [i \in 1..n |-> get_node_pt(i - 1)]
    <3> DEFINE N == {k \in 1..Cardinality(DOMAIN next) : get_node_pt(k) = head}
    <3>1. Turn = [i \in 1..Min(N) |-> get_node_pt(i - 1)]
      BY DEF Turn
    <3> QED BY <1>3, <1>4, <3>1
  <2> QED BY <1>1, <2>1
<1>6. Len(Turn) = n /\ DOMAIN Turn = 1..n
  BY <1>5
<1>7. Last(Turn) = r[n - 1]
  BY <1>5, <1>6 DEF Last
<1>8. ToSet(Turn) = DOMAIN next
  <2>1. \A i \in 1..n : Turn[i] \in DOMAIN next
    BY <1>5 DEF Ring, RingOf
  <2>2. ASSUME NEW m \in DOMAIN next
        PROVE  \E i \in 1..n : Turn[i] = m
    <3>1. PICK i \in 0..n-1 : r[i] = m
      BY DEF Ring, RingOf
    <3>2. i + 1 \in 1..n /\ Turn[i + 1] = m
      BY <1>5, <3>1
    <3> QED BY <3>2
  <2> QED BY <1>6, <2>1, <2>2 DEF ToSet
<1> QED BY <1>5, <1>6, <1>7, <1>8

LEMMA IntactOfRing ==
  ASSUME NEW n \in Nat \ {0}, NEW r, Ring(n, r), head # NULL, TypeOK
  PROVE  RingIntact
<1>1. \A k \in 0..n-1 : get_node_pt(k) = r[k]
  BY FirstTurn
<1>2. {get_node_pt(k) : k \in 0..n-1} = DOMAIN next
  <2>1. ASSUME NEW m \in DOMAIN next
        PROVE  \E k \in 0..n-1 : get_node_pt(k) = m
    <3>1. PICK k \in 0..n-1 : r[k] = m
      BY DEF Ring, RingOf
    <3> QED BY <1>1, <3>1
  <2>2. \A k \in 0..n-1 : r[k] \in DOMAIN next
    BY DEF Ring, RingOf
  <2> QED BY <1>1, <2>1, <2>2
<1> QED BY <1>2, RingSize, OneTurn DEF RingIntact

LEMMA IntactOfInv == ListInv => RingIntact
<1> SUFFICES ASSUME ListInv
             PROVE  RingIntact
  OBVIOUS
<1>1. CASE head = NULL
  BY <1>1, FS_EmptySet DEF ListInv, RingIntact
<1>2. CASE head # NULL
  <2>1. PICK n, r : Ring(n, r)
    BY <1>2 DEF ListInv
  <2>2. n \in Nat \ {0} /\ TypeOK
    BY <2>1 DEF Ring, RingOf, ListInv
  <2> QED BY <1>2, <2>1, <2>2, IntactOfRing
<1> QED BY <1>1, <1>2

-----------------------------------------------------------------------------
(* What the operations make of a ring                                          *)

Inserted(r, n, i, m) == [j \in 0..n |-> IF j < i THEN r[j] ELSE IF j = i THEN m ELSE r[j - 1]]
Removed(r, n, i) == [j \in 0..n-2 |-> IF j < i THEN r[j] ELSE r[j + 1]]
Rotated(r, n, k) == [j \in 0..n-1 |-> r[Around(j + (k % n), n)]]
Backwards(r, n) == [j \in 0..n-1 |-> r[n - 1 - j]]

(* The node before index i, for which the head's is the last.                  *)
Prior(i, n) == IF i = 0 THEN n - 1 ELSE i - 1

LEMMA InsertedRing ==
  ASSUME NEW h, NEW nx, NEW n \in Nat \ {0}, NEW r, RingOf(h, nx, n, r),
         NEW i \in 0..n, NEW m, m \notin DOMAIN nx,
         NEW h2, h2 = IF i = 0 THEN m ELSE h,
         NEW nx2, DOMAIN nx2 = DOMAIN nx \cup {m}, nx2[m] = r[Around(i, n)],
         \A x \in DOMAIN nx : nx2[x] = IF x = r[Prior(i, n)] THEN m ELSE nx[x]
  PROVE  RingOf(h2, nx2, n + 1, Inserted(r, n, i, m))
<1> DEFINE q == Inserted(r, n, i, m)
<1>1. (n + 1) \in Nat \ {0} /\ (n + 1) - 1 = n
  OBVIOUS
<1>2. \A j \in 0..n : /\ j < i => j \in 0..n-1 /\ q[j] = r[j]
                      /\ j = i => q[j] = m
                      /\ j > i => j - 1 \in 0..n-1 /\ q[j] = r[j - 1]
  BY DEF Inserted
<1>3. q \in [0..n -> DOMAIN nx2]
  <2>1. \A j \in 0..n : q[j] \in DOMAIN nx2
    <3> TAKE j \in 0..n
    <3>1. j < i \/ j = i \/ j > i
      OBVIOUS
    <3> QED BY <1>2, <3>1 DEF RingOf
  <2>2. q = [j \in 0..n |-> q[j]]
    BY DEF Inserted
  <2> HIDE DEF q
  <2> QED BY <2>1, <2>2
<1> HIDE DEF q
<1>4. \A j, k \in 0..n : q[j] = q[k] => j = k
  <2> SUFFICES ASSUME NEW j \in 0..n, NEW k \in 0..n, q[j] = q[k]
               PROVE  j = k
    OBVIOUS
  <2>1. \A l \in 0..n-1 : r[l] # m
    BY DEF RingOf
  <2>2. \A a, b \in 0..n-1 : r[a] = r[b] => a = b
    BY DEF RingOf
  <2>3. CASE j = i
    BY <1>2, <2>1, <2>3
  <2>4. CASE k = i
    BY <1>2, <2>1, <2>4
  <2>5. CASE j < i /\ k < i
    BY <1>2, <2>2, <2>5
  <2>6. CASE j > i /\ k > i
    BY <1>2, <2>2, <2>6
  <2>7. CASE j < i /\ k > i
    BY <1>2, <2>2, <2>7
  <2>8. CASE j > i /\ k < i
    BY <1>2, <2>2, <2>8
  <2> QED BY <2>3, <2>4, <2>5, <2>6, <2>7, <2>8
<1>5. ASSUME NEW x \in DOMAIN nx2
      PROVE  \E j \in 0..n : q[j] = x
  <2>1. CASE x = m
    BY <1>2, <2>1
  <2>2. CASE x # m
    <3>1. PICK l \in 0..n-1 : r[l] = x
      BY <2>2 DEF RingOf
    <3>2. CASE l < i
      BY <1>2, <3>1, <3>2
    <3>3. CASE l >= i
      <4>1. l + 1 \in 0..n /\ l + 1 > i /\ (l + 1) - 1 = l
        BY <3>3
      <4> QED BY <1>2, <3>1, <4>1
    <3> QED BY <3>2, <3>3
  <2> QED BY <2>1, <2>2
<1>6. q[0] = h2
  <2>1. 0 \in 0..n
    OBVIOUS
  <2> QED BY <1>2, <2>1 DEF RingOf
<1>7. ASSUME NEW j \in 0..n
      PROVE  nx2[q[j]] = q[Around(j + 1, n + 1)]
  <2>1. \A a, b \in 0..n-1 : r[a] = r[b] => a = b
    BY DEF RingOf
  <2>2. \A a \in 0..n-1 : r[a] \in DOMAIN nx /\ nx[r[a]] = r[Around(a + 1, n)]
    BY DEF RingOf
  <2>3. Prior(i, n) \in 0..n-1
    BY DEF Prior
  <2>4. CASE j = i
    <3>1. CASE i < n
      <4>1. i + 1 \in 0..n /\ i + 1 > i /\ (i + 1) - 1 = i
        BY <3>1
      <4> QED BY <1>2, <2>4, <3>1, <4>1 DEF Around
    <3>2. CASE i = n
      <4>1. 0 \in 0..n /\ 0 < i
        BY <3>2
      <4>2. q[0] = r[0]
        BY <1>2, <4>1
      <4> QED BY <1>2, <2>4, <3>2, <4>2 DEF Around
    <3> QED BY <3>1, <3>2
  <2>5. CASE j < i
    <3>1. j \in 0..n-1 /\ q[j] = r[j] /\ j + 1 \in 0..n /\ Around(j + 1, n + 1) = j + 1
      BY <1>2, <2>5 DEF Around
    <3>2. CASE j + 1 = i
      <4>1. Prior(i, n) = j
        BY <3>2 DEF Prior
      <4> QED BY <1>2, <2>2, <3>1, <3>2, <4>1
    <3>3. CASE j + 1 < i
      <4>1. Prior(i, n) # j /\ Around(j + 1, n) = j + 1
        BY <2>5, <3>3 DEF Prior, Around
      <4>2. r[Prior(i, n)] # r[j]
        BY <2>1, <2>3, <3>1, <4>1
      <4> QED BY <1>2, <2>2, <3>1, <3>3, <4>1, <4>2
    <3> QED BY <2>5, <3>2, <3>3
  <2>6. CASE j > i
    <3>1. j - 1 \in 0..n-1 /\ q[j] = r[j - 1] /\ (j - 1) + 1 = j
      BY <1>2, <2>6
    <3>2. CASE j = n
      <4>1. 0 \in 0..n /\ Around(j + 1, n + 1) = 0 /\ Around(j, n) = 0
        BY <3>2 DEF Around
      <4>2. CASE i = 0
        <5>1. Prior(i, n) = j - 1
          BY <3>2, <4>2 DEF Prior
        <5>2. q[0] = m
          BY <1>2, <4>1, <4>2
        <5> QED BY <2>2, <3>1, <4>1, <5>1, <5>2
      <4>3. CASE i # 0
        <5>1. Prior(i, n) # j - 1
          BY <3>1, <2>6, <4>3 DEF Prior
        <5>2. r[Prior(i, n)] # r[j - 1]
          BY <2>1, <2>3, <3>1, <5>1
        <5>3. q[0] = r[0]
          BY <1>2, <4>1, <4>3
        <5> QED BY <2>2, <3>1, <4>1, <5>2, <5>3
      <4> QED BY <4>2, <4>3
    <3>3. CASE j # n
      <4>1. j + 1 \in 0..n /\ j + 1 > i /\ (j + 1) - 1 = j /\ j < n
        BY <2>6, <3>3
      <4>2. Around(j + 1, n + 1) = j + 1 /\ Around(j, n) = j
        BY <4>1 DEF Around
      <4>3. q[j + 1] = r[j]
        BY <1>2, <4>1
      <4>4. Prior(i, n) # j - 1
        BY <2>6, <4>1 DEF Prior
      <4>5. r[Prior(i, n)] # r[j - 1]
        BY <2>1, <2>3, <3>1, <4>4
      <4> QED BY <2>2, <3>1, <4>2, <4>3, <4>5
    <3> QED BY <3>2, <3>3
  <2> QED BY <2>4, <2>5, <2>6
<1> QED BY <1>1, <1>3, <1>4, <1>5, <1>6, <1>7 DEF RingOf, q

LEMMA RemovedRing ==
  ASSUME NEW h, NEW nx, NEW n \in Nat \ {0, 1}, NEW r, RingOf(h, nx, n, r),
         NEW i \in 0..n-1,
         NEW h2, h2 = IF i = 0 THEN r[1] ELSE h,
         NEW nx2, DOMAIN nx2 = DOMAIN nx \ {r[i]},
         \A x \in DOMAIN nx2 : nx2[x] = IF x = r[Prior(i, n)] THEN nx[r[i]] ELSE nx[x]
  PROVE  RingOf(h2, nx2, n - 1, Removed(r, n, i))
<1> DEFINE q == Removed(r, n, i)
<1>1. (n - 1) \in Nat \ {0} /\ (n - 1) - 1 = n - 2
  OBVIOUS
<1>2. \A j \in 0..n-2 : /\ j < i => j \in 0..n-1 /\ q[j] = r[j]
                        /\ j >= i => j + 1 \in 0..n-1 /\ q[j] = r[j + 1]
  BY DEF Removed
<1>3. q = [j \in 0..n-2 |-> q[j]]
  BY DEF Removed
<1> HIDE DEF q
<1>4. \A a, b \in 0..n-1 : r[a] = r[b] => a = b
  BY DEF RingOf
<1>5. \A a \in 0..n-1 : r[a] \in DOMAIN nx /\ nx[r[a]] = r[Around(a + 1, n)]
  BY DEF RingOf
<1>6. \A j \in 0..n-2 : q[j] \in DOMAIN nx2
  <2> TAKE j \in 0..n-2
  <2>1. CASE j < i
    BY <1>2, <1>4, <1>5, <2>1
  <2>2. CASE j >= i
    <3>1. j + 1 # i /\ j + 1 \in 0..n-1
      BY <2>2
    <3> QED BY <1>2, <1>4, <1>5, <2>2, <3>1
  <2> QED BY <2>1, <2>2
<1>7. q \in [0..n-2 -> DOMAIN nx2]
  BY <1>3, <1>6
<1>8. \A j, k \in 0..n-2 : q[j] = q[k] => j = k
  <2> SUFFICES ASSUME NEW j \in 0..n-2, NEW k \in 0..n-2, q[j] = q[k]
               PROVE  j = k
    OBVIOUS
  <2>1. CASE j < i /\ k < i
    BY <1>2, <1>4, <2>1
  <2>2. CASE j >= i /\ k >= i
    BY <1>2, <1>4, <2>2
  <2>3. CASE j < i /\ k >= i
    BY <1>2, <1>4, <2>3
  <2>4. CASE j >= i /\ k < i
    BY <1>2, <1>4, <2>4
  <2> QED BY <2>1, <2>2, <2>3, <2>4
<1>9. ASSUME NEW x \in DOMAIN nx2
      PROVE  \E j \in 0..n-2 : q[j] = x
  <2>1. PICK l \in 0..n-1 : r[l] = x
    BY DEF RingOf
  <2>2. l # i
    BY <2>1
  <2>3. CASE l < i
    <3>1. l \in 0..n-2
      BY <2>3
    <3> QED BY <1>2, <2>1, <2>3, <3>1
  <2>4. CASE l > i
    <3>1. l - 1 \in 0..n-2 /\ l - 1 >= i /\ (l - 1) + 1 = l
      BY <2>4
    <3> QED BY <1>2, <2>1, <3>1
  <2> QED BY <2>2, <2>3, <2>4
<1>10. q[0] = h2
  <2>1. 0 \in 0..n-2 /\ 0 + 1 = 1
    OBVIOUS
  <2> QED BY <1>2, <2>1 DEF RingOf
<1>11. ASSUME NEW j \in 0..n-2
       PROVE  nx2[q[j]] = q[Around(j + 1, n - 1)]
  <2>1. Prior(i, n) \in 0..n-1
    BY DEF Prior
  <2>2. q[j] \in DOMAIN nx2
    BY <1>6
  <2>3. CASE j < i
    <3>1. j \in 0..n-1 /\ q[j] = r[j]
      BY <1>2, <2>3
    <3>2. CASE j + 1 = i
      <4>1. Prior(i, n) = j
        BY <3>2 DEF Prior
      <4>2. nx2[q[j]] = r[Around(i + 1, n)]
        BY <1>5, <2>2, <3>1, <4>1
      <4>3. CASE i = n - 1
        <5>1. Around(i + 1, n) = 0 /\ Around(j + 1, n - 1) = 0 /\ 0 \in 0..n-2 /\ 0 < i
          BY <3>2, <4>3 DEF Around
        <5> QED BY <1>2, <4>2, <5>1
      <4>4. CASE i < n - 1
        <5>1. /\ Around(i + 1, n) = i + 1 /\ Around(j + 1, n - 1) = i
              /\ i \in 0..n-2
          BY <3>2, <4>4 DEF Around
        <5> QED BY <1>2, <4>2, <5>1
      <4> QED BY <4>3, <4>4
    <3>3. CASE j + 1 < i
      <4>1. /\ Prior(i, n) # j /\ Around(j + 1, n) = j + 1
            /\ Around(j + 1, n - 1) = j + 1 /\ j + 1 \in 0..n-2
        BY <3>3 DEF Prior, Around
      <4>2. r[Prior(i, n)] # r[j]
        BY <1>4, <2>1, <3>1, <4>1
      <4>3. nx2[q[j]] = r[j + 1]
        BY <1>5, <2>2, <3>1, <4>1, <4>2
      <4> QED BY <1>2, <3>3, <4>1, <4>3
    <3> QED BY <2>3, <3>2, <3>3
  <2>4. CASE j >= i
    <3>1. j + 1 \in 0..n-1 /\ q[j] = r[j + 1]
      BY <1>2, <2>4
    <3>2. CASE j = n - 2
      <4>1. /\ Around(j + 1, n - 1) = 0 /\ Around((j + 1) + 1, n) = 0 /\ 0 \in 0..n-2
            /\ j + 1 = n - 1 /\ i \in 0..n-2
        BY <2>4, <3>2 DEF Around
      <4>2. CASE i = 0
        <5>1. Prior(i, n) = j + 1 /\ Around(i + 1, n) = 1
          BY <4>1, <4>2 DEF Prior, Around
        <5>2. nx2[q[j]] = r[1]
          BY <1>5, <2>2, <3>1, <5>1
        <5> QED BY <1>10, <4>1, <4>2, <5>2
      <4>3. CASE i # 0
        <5>1. Prior(i, n) # j + 1
          BY <2>4, <4>3 DEF Prior
        <5>2. r[Prior(i, n)] # r[j + 1]
          BY <1>4, <2>1, <3>1, <5>1
        <5>3. nx2[q[j]] = r[0]
          BY <1>5, <2>2, <3>1, <4>1, <5>2
        <5>4. q[0] = r[0]
          BY <1>2, <4>1, <4>3
        <5> QED BY <4>1, <5>3, <5>4
      <4> QED BY <4>2, <4>3
    <3>3. CASE j < n - 2
      <4>1. /\ Around(j + 1, n - 1) = j + 1 /\ Around((j + 1) + 1, n) = (j + 1) + 1
            /\ j + 1 \in 0..n-2 /\ j + 1 >= i
        BY <2>4, <3>3 DEF Around
      <4>2. Prior(i, n) # j + 1
        BY <2>4, <3>3 DEF Prior
      <4>3. r[Prior(i, n)] # r[j + 1]
        BY <1>4, <2>1, <3>1, <4>2
      <4>4. nx2[q[j]] = r[(j + 1) + 1]
        BY <1>5, <2>2, <3>1, <4>1, <4>3
      <4> QED BY <1>2, <4>1, <4>4
    <3> QED BY <3>2, <3>3
  <2> QED BY <2>3, <2>4
<1> QED BY <1>1, <1>7, <1>8, <1>9, <1>10, <1>11 DEF RingOf, q

LEMMA RotatedRing ==
  ASSUME NEW h, NEW nx, NEW n \in Nat \ {0}, NEW r, RingOf(h, nx, n, r), NEW k \in Nat
  PROVE  RingOf(r[k % n], nx, n, Rotated(r, n, k))
<1> DEFINE q == Rotated(r, n, k)
           d == k % n
<1>1. d \in 0..n-1 /\ q = [j \in 0..n-1 |-> r[Around(j + d, n)]]
  <2>1. 0 \in 0..n
    OBVIOUS
  <2>2. d \in 0..n-1
    BY <2>1, RemainderOfSum
  <2>3. q = [j \in 0..n-1 |-> r[Around(j + d, n)]]
    BY DEF Rotated
  <2> QED BY <2>2, <2>3
<1> HIDE DEF d, q
<1>2. \A j \in 0..n-1 : Around(j + d, n) \in 0..n-1 /\ q[j] = r[Around(j + d, n)]
  BY <1>1 DEF Around
<1>3. q = [j \in 0..n-1 |-> q[j]]
  BY <1>1
<1>4. \A a, b \in 0..n-1 : r[a] = r[b] => a = b
  BY DEF RingOf
<1>5. \A a \in 0..n-1 : r[a] \in DOMAIN nx /\ nx[r[a]] = r[Around(a + 1, n)]
  BY DEF RingOf
<1>6. q \in [0..n-1 -> DOMAIN nx]
  BY <1>2, <1>3, <1>5
<1>7. \A i, j \in 0..n-1 : q[i] = q[j] => i = j
  <2> SUFFICES ASSUME NEW i \in 0..n-1, NEW j \in 0..n-1, q[i] = q[j]
               PROVE  i = j
    OBVIOUS
  <2>1. Around(i + d, n) = Around(j + d, n)
    BY <1>2, <1>4
  <2> QED BY <1>1, <2>1 DEF Around
<1>8. ASSUME NEW m \in DOMAIN nx
      PROVE  \E i \in 0..n-1 : q[i] = m
  <2>1. PICK l \in 0..n-1 : r[l] = m
    BY DEF RingOf
  <2>2. CASE l >= d
    <3>1. l - d \in 0..n-1 /\ Around((l - d) + d, n) = l
      BY <1>1, <2>2 DEF Around
    <3> QED BY <1>2, <2>1, <3>1
  <2>3. CASE l < d
    <3>1. l + n - d \in 0..n-1 /\ Around((l + n - d) + d, n) = l
      BY <1>1, <2>3 DEF Around
    <3> QED BY <1>2, <2>1, <3>1
  <2> QED BY <1>1, <2>2, <2>3
<1>9. q[0] = r[d]
  <2>1. 0 \in 0..n-1 /\ Around(0 + d, n) = d
    BY <1>1 DEF Around
  <2> QED BY <1>2, <2>1
<1>10. ASSUME NEW i \in 0..n-1
       PROVE  nx[q[i]] = q[Around(i + 1, n)]
  <2>1. Around(Around(i + d, n) + 1, n) = Around(Around(i + 1, n) + d, n) /\ Around(i + 1, n) \in 0..n-1
    BY <1>1 DEF Around
  <2> QED BY <1>2, <1>5, <2>1
<1> QED BY <1>6, <1>7, <1>8, <1>9, <1>10 DEF RingOf, q, d

LEMMA ReversedRing ==
  ASSUME NEW h, NEW nx, NEW n \in Nat \ {0}, NEW r, RingOf(h, nx, n, r),
         NEW nx2, DOMAIN nx2 = DOMAIN nx,
         \A i \in 0..n-1 : nx2[r[i]] = r[Prior(i, n)]
  PROVE  RingOf(r[n - 1], nx2, n, Backwards(r, n))
<1> DEFINE q == Backwards(r, n)
<1>1. \A j \in 0..n-1 : n - 1 - j \in 0..n-1 /\ q[j] = r[n - 1 - j]
  BY DEF Backwards
<1>2. q = [j \in 0..n-1 |-> q[j]]
  BY DEF Backwards
<1> HIDE DEF q
<1>3. \A a, b \in 0..n-1 : r[a] = r[b] => a = b
  BY DEF RingOf
<1>4. q \in [0..n-1 -> DOMAIN nx2]
  <2>1. \A i \in 0..n-1 : r[i] \in DOMAIN nx2
    BY DEF RingOf
  <2>2. \A j \in 0..n-1 : q[j] \in DOMAIN nx2
    BY <1>1, <2>1
  <2> QED BY <1>2, <2>2
<1>5. \A i, j \in 0..n-1 : q[i] = q[j] => i = j
  <2> SUFFICES ASSUME NEW i \in 0..n-1, NEW j \in 0..n-1, q[i] = q[j]
               PROVE  i = j
    OBVIOUS
  <2>1. n - 1 - i = n - 1 - j
    BY <1>1, <1>3
  <2> QED BY <2>1
<1>6. ASSUME NEW m \in DOMAIN nx2
      PROVE  \E i \in 0..n-1 : q[i] = m
  <2>1. PICK l \in 0..n-1 : r[l] = m
    BY DEF RingOf
  <2>2. n - 1 - l \in 0..n-1 /\ n - 1 - (n - 1 - l) = l
    OBVIOUS
  <2> QED BY <1>1, <2>1, <2>2
<1>7. q[0] = r[n - 1]
  <2>1. 0 \in 0..n-1 /\ n - 1 - 0 = n - 1
    OBVIOUS
  <2> QED BY <1>1, <2>1
<1>8. ASSUME NEW i \in 0..n-1
      PROVE  nx2[q[i]] = q[Around(i + 1, n)]
  <2>1. Prior(n - 1 - i, n) = n - 1 - Around(i + 1, n) /\ Around(i + 1, n) \in 0..n-1
    BY DEF Prior, Around
  <2> QED BY <1>1, <2>1
<1> QED BY <1>4, <1>5, <1>6, <1>7, <1>8 DEF RingOf, q

-----------------------------------------------------------------------------
(* The loop of reverse_list                                                    *)

LEMMA Greatest ==
  ASSUME NEW n \in Nat, NEW S \in SUBSET (1..n), S # {}
  PROVE  Max(S) \in S /\ \A y \in S : Max(S) >= y
<1> DEFINE T == {n - x : x \in S}
<1>1. T \in SUBSET Nat /\ T # {}
  <2>1. PICK x \in S : TRUE
    OBVIOUS
  <2>2. n - x \in T
    OBVIOUS
  <2> QED BY <2>2
<1>2. PICK t \in T : \A y \in T : t <= y
  <2> HIDE DEF T
  <2> QED BY <1>1, LeastNatural
<1>3. PICK x \in S : t = n - x
  BY <1>2
<1>4. \A y \in S : x >= y
  <2> TAKE y \in S
  <2>1. n - x <= n - y
    BY <1>2, <1>3
  <2> QED BY <2>1
<1> QED BY <1>4 DEF Max

(* What a turn of the loop makes of the pointers and of prev.                  *)
Back(acc, curr) == [next |-> [acc.next EXCEPT ![curr] = acc.prev], prev |-> curr]

Looped(nx, seq) == FoldLeft(Back, [next |-> nx, prev |-> NULL], seq)

(* The fold over the first k nodes of seq, the node x being at pos[x].         *)
BackTo(nx, seq, pos, k) ==
  [next |-> [x \in DOMAIN nx |-> IF pos[x] <= k
                                 THEN IF pos[x] = 1 THEN NULL ELSE seq[pos[x] - 1]
                                 ELSE nx[x]],
   prev |-> IF k = 0 THEN NULL ELSE seq[k]]

(* The fold is defined over every set of positions; this is it.                *)
BackOver(nx, seq, pos, s) ==
  [next |-> [x \in DOMAIN nx |-> IF pos[x] \in s
                                 THEN LET p == {j \in s : j < pos[x]}
                                      IN IF p = {} THEN NULL ELSE seq[Max(p)]
                                 ELSE nx[x]],
   prev |-> IF s = {} THEN NULL ELSE seq[Max(s)]]

LEMMA BackOverStep ==
  ASSUME NEW n \in Nat, NEW nx, NEW seq \in [1..n -> DOMAIN nx],
         NEW pos \in [DOMAIN nx -> 1..n], \A x \in DOMAIN nx : seq[pos[x]] = x,
         \A i \in 1..n : pos[seq[i]] = i,
         nx = [x \in DOMAIN nx |-> nx[x]],
         NEW s \in SUBSET (1..n)
  PROVE  BackOver(nx, seq, pos, s)
           = IF s = {} THEN [next |-> nx, prev |-> NULL]
             ELSE Back(BackOver(nx, seq, pos, s \ {Max(s)}), seq[Max(s)])
<1>1. CASE s = {}
  BY <1>1 DEF BackOver
<1>2. CASE s # {}
  <2> DEFINE m == Max(s)
             t == s \ {m}
             bt == BackOver(nx, seq, pos, t)
             bs == BackOver(nx, seq, pos, s)
  <2>1. m \in s /\ \A y \in s : m >= y
    BY <1>2, Greatest
  <2> HIDE DEF m
  <2>2. m \in 1..n /\ s \in SUBSET Int
    BY <2>1
  <2>3. ASSUME NEW x \in DOMAIN nx
        PROVE  bs.next[x] = IF x = seq[m] THEN bt.prev ELSE bt.next[x]
    <3>1. x = seq[m] <=> pos[x] = m
      BY <2>2
    <3>2. CASE pos[x] = m
      <4>1. {j \in s : j < pos[x]} = t
        BY <2>1, <2>2, <3>2
      <4> QED BY <2>1, <3>1, <3>2, <4>1 DEF BackOver
    <3>3. CASE pos[x] # m /\ pos[x] \in s
      <4>1. {j \in s : j < pos[x]} = {j \in t : j < pos[x]} /\ pos[x] \in t
        BY <2>1, <2>2, <3>3
      <4> QED BY <3>1, <3>3, <4>1 DEF BackOver
    <3>4. CASE pos[x] \notin s
      <4>1. pos[x] \notin t /\ pos[x] # m
        BY <2>1, <3>4
      <4> QED BY <3>1, <3>4, <4>1 DEF BackOver
    <3> QED BY <3>2, <3>3, <3>4
  <2>4. bs.next = [x \in DOMAIN nx |-> bs.next[x]] /\ bt.next = [x \in DOMAIN nx |-> bt.next[x]]
    BY DEF BackOver
  <2>5. bs = [next |-> bs.next, prev |-> seq[m]]
    BY <1>2 DEF BackOver, m
  <2> HIDE DEF bs, bt
  <2>6. bs.next = [bt.next EXCEPT ![seq[m]] = bt.prev]
    BY <2>3, <2>4
  <2> QED BY <1>2, <2>5, <2>6 DEF Back, bs, bt, t, m
<1> QED BY <1>1, <1>2

LEMMA LoopOfReverse ==
  ASSUME NEW n \in Nat, NEW nx, NEW seq \in [1..n -> DOMAIN nx],
         NEW pos \in [DOMAIN nx -> 1..n], \A x \in DOMAIN nx : seq[pos[x]] = x,
         \A i \in 1..n : pos[seq[i]] = i,
         nx = [x \in DOMAIN nx |-> nx[x]]
  PROVE  Looped(nx, seq) = BackTo(nx, seq, pos, n)
<1> DEFINE base == [next |-> nx, prev |-> NULL]
           F(it) == it = [s \in SUBSET (1..n) |->
                            IF s = {} THEN base ELSE Back(it[s \ {Max(s)}], seq[Max(s)])]
           w == [s \in SUBSET (1..n) |-> BackOver(nx, seq, pos, s)]
           it == CHOOSE i : F(i)
<1>1. F(w)
  <2> SUFFICES ASSUME NEW s \in SUBSET (1..n)
               PROVE  w[s] = IF s = {} THEN base ELSE Back(w[s \ {Max(s)}], seq[Max(s)])
    OBVIOUS
  <2>1. s \ {Max(s)} \in SUBSET (1..n)
    OBVIOUS
  <2>2. w[s] = BackOver(nx, seq, pos, s)
        /\ w[s \ {Max(s)}] = BackOver(nx, seq, pos, s \ {Max(s)})
    BY <2>1
  <2>3. BackOver(nx, seq, pos, s)
          = IF s = {} THEN base
            ELSE Back(BackOver(nx, seq, pos, s \ {Max(s)}), seq[Max(s)])
    BY BackOverStep, SMTT(30)
  <2> HIDE DEF w, base
  <2> QED BY ONLY <2>2, <2>3
<1>2. F(it)
  <2> HIDE DEF F, w
  <2> QED BY <1>1
<1>3. Looped(nx, seq) = it[1..n]
  <2>1. DOMAIN seq = 1..n
    OBVIOUS
  <2> QED BY <2>1 DEF Looped, FoldLeft, MapThenFoldSet
<1> HIDE DEF it, w
<1>4. \A k \in 0..n : it[1..k] = BackTo(nx, seq, pos, k)
  <2> DEFINE S == {k \in 0..n : it[1..k] # BackTo(nx, seq, pos, k)}
  <2> SUFFICES ASSUME S # {}
               PROVE  FALSE
    OBVIOUS
  <2>1. S \in SUBSET Nat
    OBVIOUS
  <2>2. PICK k \in S : \A j \in S : k <= j
    <3> HIDE DEF S
    <3> QED BY <2>1, LeastNatural
  <2>3. k \in 0..n /\ it[1..k] # BackTo(nx, seq, pos, k)
    BY <2>2
  <2>4. CASE k = 0
    <3>1. 1..k = {} /\ {} \in SUBSET (1..n)
      BY <2>4
    <3>2. it[1..k] = base
      BY <1>2, <3>1
    <3>3. \A x \in DOMAIN nx : ~(pos[x] <= 0)
      OBVIOUS
    <3>4. BackTo(nx, seq, pos, 0) = base
      BY <3>3 DEF BackTo
    <3> QED BY <2>3, <2>4, <3>2, <3>4
  <2>5. CASE k # 0
    <3>1. k \in 1..k /\ 1..k \in SUBSET (1..n) /\ 1..k # {} /\ k - 1 \in 0..n /\ k \in 1..n
      BY <2>3, <2>5
    <3>2. Max(1..k) = k
      <4>1. Max(1..k) \in 1..k /\ \A y \in 1..k : Max(1..k) >= y
        BY <3>1, Greatest
      <4> QED BY <3>1, <4>1
    <3>3. (1..k) \ {k} = 1..(k-1)
      BY <2>3
    <3>4. it[1..k] = Back(it[1..(k-1)], seq[k])
      <4>1. it[1..k] = IF 1..k = {} THEN base
                       ELSE Back(it[(1..k) \ {Max(1..k)}], seq[Max(1..k)])
        <5> HIDE DEF base
        <5> QED BY ONLY <1>2, <3>1
      <4> QED BY <3>1, <3>2, <3>3, <4>1
    <3>5. it[1..(k-1)] = BackTo(nx, seq, pos, k - 1)
      <4>1. k - 1 \notin S
        BY <2>2, <2>3
      <4> QED BY <3>1, <4>1
    <3> DEFINE a == BackTo(nx, seq, pos, k - 1)
               b == BackTo(nx, seq, pos, k)
    <3>6. ASSUME NEW x \in DOMAIN nx
          PROVE  b.next[x] = IF x = seq[k] THEN a.prev ELSE a.next[x]
      <4>1. x = seq[k] <=> pos[x] = k
        BY <3>1
      <4>2. pos[x] \in 1..n
        OBVIOUS
      <4>3. CASE pos[x] = k
        <5>1. x = seq[k] /\ (k = 1 <=> k - 1 = 0) /\ pos[x] <= k
          BY <2>3, <4>1, <4>3
        <5> QED BY <4>3, <5>1 DEF BackTo
      <4>4. CASE pos[x] # k
        <5>1. pos[x] <= k <=> pos[x] <= k - 1
          BY <2>3, <4>2, <4>4
        <5> QED BY <4>1, <4>4, <5>1 DEF BackTo
      <4> QED BY <4>3, <4>4
    <3>7. b.next = [x \in DOMAIN nx |-> b.next[x]] /\ a.next = [x \in DOMAIN nx |-> a.next[x]]
      BY DEF BackTo
    <3>8. b = [next |-> b.next, prev |-> seq[k]]
      BY <2>5 DEF BackTo
    <3> HIDE DEF a, b
    <3>9. b.next = [a.next EXCEPT ![seq[k]] = a.prev]
      BY <3>6, <3>7
    <3>10. b = Back(a, seq[k])
      BY <3>8, <3>9 DEF Back
    <3> QED BY <2>3, <3>4, <3>5, <3>10 DEF a, b
  <2> QED BY <2>4, <2>5
<1>5. n \in 0..n
  OBVIOUS
<1> QED BY <1>3, <1>4, <1>5

-----------------------------------------------------------------------------
(* The operations                                                              *)

(* The numbers along a ring.                                                   *)
NumbersOf(n, r, d) == [i \in 1..n |-> d[r[i - 1]]]

LEMMA TypeOfRing ==
  ASSUME NEW h, NEW nx, NEW n, NEW r, RingOf(h, nx, n, r), nx = [x \in DOMAIN nx |-> nx[x]]
  PROVE  /\ n \in Nat \ {0} /\ h \in DOMAIN nx
         /\ nx \in [DOMAIN nx -> DOMAIN nx]
         /\ \A i \in 0..n-1 : r[i] \in DOMAIN nx
<1>1. n \in Nat \ {0} /\ \A i \in 0..n-1 : r[i] \in DOMAIN nx
  BY DEF RingOf
<1>2. h \in DOMAIN nx
  <2>1. 0 \in 0..n-1
    BY <1>1
  <2> QED BY <1>1, <2>1 DEF RingOf
<1>3. ASSUME NEW x \in DOMAIN nx
      PROVE  nx[x] \in DOMAIN nx
  <2>1. PICK i \in 0..n-1 : r[i] = x
    BY DEF RingOf
  <2>2. Around(i + 1, n) \in 0..n-1 /\ nx[r[i]] = r[Around(i + 1, n)]
    BY <1>1 DEF RingOf, Around
  <2> QED BY <1>1, <2>1, <2>2
<1> QED BY <1>1, <1>2, <1>3

LEMMA InsertFirst ==
  ASSUME NEW v \in Values, ListInv, head = NULL, insert_node_at(0, v)
  PROVE  \E r : /\ RingOf(head', next', 1, r) /\ TypeOK' /\ sum' = sum /\ head' # NULL
                /\ NumbersOf(1, r, data') = <<v>>
<1>1. PICK m \in Nodes \ DOMAIN next : /\ data' = With(m, v, data) /\ head' = m
                                       /\ next' = With(m, m, next) /\ sum' = sum
  BY DEF insert_node_at
<1>2. DOMAIN next = {} /\ data \in [DOMAIN next -> Values]
  BY DEF ListInv, TypeOK
<1>3. /\ next' = [x \in {m} |-> m] /\ DOMAIN next' = {m}
      /\ data' = [x \in {m} |-> v]
  BY <1>1, <1>2 DEF With
<1> DEFINE r == [j \in 0..0 |-> m]
<1>4. r[0] = m /\ \A j \in 0..0 : j = 0
  OBVIOUS
<1>5. RingOf(head', next', 1, r)
  <2>1. 1 - 1 = 0 /\ 1 \in Nat \ {0} /\ Around(0 + 1, 1) = 0
    BY DEF Around
  <2>2. r \in [0..0 -> {m}] /\ next'[m] = m
    BY <1>3
  <2> HIDE DEF r
  <2> QED BY <1>1, <1>3, <1>4, <2>1, <2>2 DEF RingOf
<1>6. TypeOK'
  BY <1>1, <1>3 DEF TypeOK
<1>7. NumbersOf(1, r, data') = <<v>>
  <2>1. \A i \in 1..1 : i - 1 = 0 /\ data'[r[i - 1]] = v
    BY <1>3
  <2>2. NumbersOf(1, r, data') = [i \in 1..1 |-> v]
    BY <2>1 DEF NumbersOf
  <2> QED BY <2>2
<1>8. head' # NULL
  BY <1>1, NullAssumption
<1> QED BY <1>1, <1>5, <1>6, <1>7, <1>8

LEMMA InsertRing ==
  ASSUME NEW n \in Nat \ {0}, NEW r, Ring(n, r), head # NULL, TypeOK,
         NEW i \in 0..n, NEW v \in Values, insert_node_at(i, v)
  PROVE  \E m : /\ m \notin DOMAIN next
                /\ RingOf(head', next', n + 1, Inserted(r, n, i, m)) /\ TypeOK' /\ sum' = sum
                /\ head' # NULL /\ data'[m] = v
                /\ \A x \in DOMAIN next : data'[x] = data[x]
<1>1. /\ \A j \in 0..n-1 : r[j] \in DOMAIN next /\ next[r[j]] = r[Around(j + 1, n)]
      /\ next \in [DOMAIN next -> DOMAIN next] /\ data \in [DOMAIN next -> Values]
      /\ DOMAIN next \subseteq Nodes /\ r[0] = head
  BY DEF Ring, RingOf, TypeOK
<1>2. Last(Turn) = r[n - 1]
  BY TurnOfRing
<1>3. i # 0 => i - 1 \in 0..n-1 /\ get_node_pt(i - 1) = r[i - 1]
  BY FirstTurn
<1>4. /\ Prior(i, n) \in 0..n-1 /\ Around(i, n) \in 0..n-1
      /\ i = 0 => Prior(i, n) = n - 1 /\ Around(i, n) = 0
      /\ i # 0 => Prior(i, n) = i - 1 /\ Around((i - 1) + 1, n) = Around(i, n)
  BY DEF Prior, Around
<1> DEFINE before == r[Prior(i, n)]
           after == r[Around(i, n)]
<1>5. PICK m \in Nodes \ DOMAIN next :
         /\ data' = With(m, v, data)
         /\ head' = IF i = 0 THEN m ELSE head
         /\ next' = With(m, after, [next EXCEPT ![before] = m])
         /\ sum' = sum
  <2>1. PICK m \in Nodes \ DOMAIN next :
           /\ data' = With(m, v, data)
           /\ head' = IF i = 0 THEN m ELSE head
           /\ next' = IF i = 0 THEN With(m, head, [next EXCEPT ![Last(Turn)] = m])
                      ELSE With(m, next[get_node_pt(i - 1)],
                                [next EXCEPT ![get_node_pt(i - 1)] = m])
           /\ sum' = sum
    BY DEF insert_node_at
  <2>2. CASE i = 0
    BY <1>1, <1>2, <1>4, <2>1, <2>2
  <2>3. CASE i # 0
    <3>1. next[get_node_pt(i - 1)] = after /\ get_node_pt(i - 1) = before
      BY <1>1, <1>3, <1>4, <2>3
    <3> QED BY <2>1, <2>3, <3>1
  <2> QED BY <2>2, <2>3
<1>6. before \in DOMAIN next /\ after \in DOMAIN next
  BY <1>1, <1>4
<1> HIDE DEF before, after
<1>7. next' = [x \in DOMAIN next \cup {m} |-> IF x = m THEN after
                                              ELSE IF x = before THEN m ELSE next[x]]
  BY <1>1, <1>5 DEF With
<1>8. data' = [x \in DOMAIN next \cup {m} |-> IF x = m THEN v ELSE data[x]]
  BY <1>1, <1>5 DEF With
<1>9. /\ DOMAIN next' = DOMAIN next \cup {m} /\ next'[m] = after
      /\ \A x \in DOMAIN next : next'[x] = IF x = before THEN m ELSE next[x]
  BY <1>7
<1>10. RingOf(head', next', n + 1, Inserted(r, n, i, m))
  BY <1>5, <1>9, InsertedRing, ZenonT(60) DEF Ring, before, after
<1>11. TypeOK'
  <2>1. head' \in DOMAIN next' \cup {NULL} /\ DOMAIN next' \subseteq Nodes
    BY <1>1, <1>5, <1>6, <1>9 DEF TypeOK
  <2>2. next' \in [DOMAIN next' -> DOMAIN next']
    BY <1>1, <1>6, <1>7
  <2>3. data' \in [DOMAIN next' -> Values]
    BY <1>1, <1>8, <1>9
  <2> QED BY <2>1, <2>2, <2>3 DEF TypeOK
<1>12. head' # NULL /\ data'[m] = v /\ \A x \in DOMAIN next : data'[x] = data[x]
  BY <1>1, <1>5, <1>8, NullAssumption
<1> QED BY <1>5, <1>10, <1>11, <1>12

LEMMA DeleteLast ==
  ASSUME NEW n \in Nat \ {0}, NEW r, Ring(n, r), head # NULL, TypeOK,
         n = 1, delete_node_at(0)
  PROVE  head' = NULL /\ DOMAIN next' = {} /\ TypeOK' /\ sum' = sum
<1>1. r[0] = head /\ DOMAIN next = {head} /\ next[head] = head
  <2>1. \A i \in 0..n-1 : i = 0
    OBVIOUS
  <2>2. 0 \in 0..n-1 /\ Around(0 + 1, n) = 0
    BY DEF Around
  <2> QED BY <2>1, <2>2 DEF Ring, RingOf
<1>2. get_node_pt(0) = head /\ Last(Turn) = head
  <2>1. 0 \in 0..n-1 /\ n - 1 = 0
    OBVIOUS
  <2> QED BY <1>1, <2>1, FirstTurn, TurnOfRing
<1>3. /\ head' = NULL /\ sum' = sum
      /\ next' = Without(head, [next EXCEPT ![head] = next[head]])
      /\ data' = Without(head, data)
  BY <1>1, <1>2 DEF delete_node_at
<1>4. DOMAIN data = {head}
  BY <1>1 DEF TypeOK
<1>5. next' = [m \in {} |-> next[m]] /\ data' = [m \in {} |-> data[m]]
  <2>1. DOMAIN [next EXCEPT ![head] = next[head]] = {head}
    BY <1>1
  <2>2. {head} \ {head} = {}
    OBVIOUS
  <2> QED BY <1>3, <1>4, <2>1, <2>2 DEF Without
<1> QED BY <1>3, <1>5 DEF TypeOK

LEMMA DeleteRing ==
  ASSUME NEW n \in Nat \ {0, 1}, NEW r, Ring(n, r), head # NULL, TypeOK,
         NEW i \in 0..n-1, delete_node_at(i)
  PROVE  /\ RingOf(head', next', n - 1, Removed(r, n, i)) /\ TypeOK' /\ sum' = sum
         /\ head' # NULL
         /\ \A x \in DOMAIN next' : data'[x] = data[x]
<1>1. /\ \A j \in 0..n-1 : r[j] \in DOMAIN next /\ next[r[j]] = r[Around(j + 1, n)]
      /\ next \in [DOMAIN next -> DOMAIN next] /\ data \in [DOMAIN next -> Values]
      /\ DOMAIN next \subseteq Nodes /\ r[0] = head
      /\ \A j, k \in 0..n-1 : r[j] = r[k] => j = k
  BY DEF Ring, RingOf, TypeOK
<1>2. Last(Turn) = r[n - 1] /\ get_node_pt(i) = r[i]
  BY TurnOfRing, FirstTurn
<1>3. i # 0 => i - 1 \in 0..n-1 /\ get_node_pt(i - 1) = r[i - 1]
  BY FirstTurn
<1>4. /\ Prior(i, n) \in 0..n-1
      /\ i = 0 => Prior(i, n) = n - 1
      /\ i # 0 => Prior(i, n) = i - 1
      /\ Prior(i, n) # i
  BY DEF Prior
<1>5. next[head] = r[1] /\ r[1] # r[0]
  <2>1. 0 \in 0..n-1 /\ 1 \in 0..n-1 /\ Around(0 + 1, n) = 1
    BY DEF Around
  <2> QED BY <1>1, <2>1
<1> DEFINE before == r[Prior(i, n)]
           gone == r[i]
<1>6. /\ head' = IF i = 0 THEN r[1] ELSE head
      /\ next' = Without(gone, [next EXCEPT ![before] = next[gone]])
      /\ data' = Without(gone, data)
      /\ sum' = sum
  BY <1>1, <1>2, <1>3, <1>4, <1>5 DEF delete_node_at
<1>7. before \in DOMAIN next /\ gone \in DOMAIN next /\ before # gone
  BY <1>1, <1>4
<1> HIDE DEF before, gone
<1>8. next' = [x \in DOMAIN next \ {gone} |-> IF x = before THEN next[gone] ELSE next[x]]
  BY <1>1, <1>6 DEF Without
<1>9. data' = [x \in DOMAIN next \ {gone} |-> data[x]]
  BY <1>1, <1>6 DEF Without
<1>10. DOMAIN next' = DOMAIN next \ {gone} /\ next' = [x \in DOMAIN next' |-> next'[x]]
  BY <1>8
<1>11. RingOf(head', next', n - 1, Removed(r, n, i))
  <2>1. \A x \in DOMAIN next' :
           next'[x] = IF x = r[Prior(i, n)] THEN next[r[i]] ELSE next[x]
    BY <1>8 DEF before, gone
  <2>2. DOMAIN next' = DOMAIN next \ {r[i]}
    BY <1>10 DEF gone
  <2>3. RingOf(head, next, n, r)
    BY DEF Ring
  <2>4. head' = IF i = 0 THEN r[1] ELSE head
    BY <1>6
  <2> QED BY <2>1, <2>2, <2>3, <2>4, RemovedRing
<1>12. head' \in DOMAIN next' /\ next' \in [DOMAIN next' -> DOMAIN next']
  BY <1>10, <1>11, TypeOfRing
<1>13. TypeOK'
  BY <1>1, <1>9, <1>10, <1>12 DEF TypeOK
<1>14. head' # NULL /\ \A x \in DOMAIN next' : data'[x] = data[x]
  BY <1>1, <1>9, <1>10, <1>12, NullAssumption
<1> QED BY <1>6, <1>11, <1>13, <1>14

LEMMA ReverseRing ==
  ASSUME NEW n \in Nat \ {0}, NEW r, Ring(n, r), head # NULL, TypeOK, reverse_list
  PROVE  /\ RingOf(head', next', n, Backwards(r, n)) /\ TypeOK' /\ sum' = sum
         /\ head' # NULL /\ data' = data
<1>1. /\ \A j \in 0..n-1 : r[j] \in DOMAIN next /\ next[r[j]] = r[Around(j + 1, n)]
      /\ next \in [DOMAIN next -> DOMAIN next] /\ data \in [DOMAIN next -> Values]
      /\ DOMAIN next \subseteq Nodes /\ r[0] = head
      /\ \A j, k \in 0..n-1 : r[j] = r[k] => j = k
      /\ \A x \in DOMAIN next : \E j \in 0..n-1 : r[j] = x
  BY DEF Ring, RingOf, TypeOK
<1>2. Turn = [i \in 1..n |-> r[i - 1]]
  BY TurnOfRing
<1>3. Turn \in [1..n -> DOMAIN next]
  <2>1. \A i \in 1..n : r[i - 1] \in DOMAIN next
    BY <1>1
  <2> QED BY <1>2, <2>1
<1> DEFINE pos == [x \in DOMAIN next |-> CHOOSE i \in 1..n : r[i - 1] = x]
<1>4. ASSUME NEW x \in DOMAIN next
      PROVE  pos[x] \in 1..n /\ r[pos[x] - 1] = x
  <2>1. PICK j \in 0..n-1 : r[j] = x
    BY <1>1
  <2>2. j + 1 \in 1..n /\ r[(j + 1) - 1] = x
    BY <2>1
  <2> QED BY <2>2
<1>5. pos \in [DOMAIN next -> 1..n]
  <2>1. pos = [x \in DOMAIN next |-> pos[x]]
    OBVIOUS
  <2> HIDE DEF pos
  <2> QED BY <1>4, <2>1
<1> HIDE DEF pos
<1>6. \A x \in DOMAIN next : Turn[pos[x]] = x
  BY <1>2, <1>4
<1>7. \A i \in 1..n : pos[Turn[i]] = i
  <2> TAKE i \in 1..n
  <2>1. Turn[i] = r[i - 1] /\ i - 1 \in 0..n-1 /\ r[i - 1] \in DOMAIN next
    BY <1>1, <1>2
  <2>2. pos[Turn[i]] - 1 = i - 1
    BY <1>1, <1>4, <2>1
  <2>3. pos[Turn[i]] \in 1..n
    BY <1>4, <2>1
  <2> QED BY <2>2, <2>3
<1>8. next = [x \in DOMAIN next |-> next[x]]
  BY <1>1
<1>9. Looped(next, Turn) = BackTo(next, Turn, pos, n)
  BY <1>3, <1>5, <1>6, <1>7, <1>8, LoopOfReverse
<1> DEFINE done == Looped(next, Turn)
<1>10. next' = [done.next EXCEPT ![head] = done.prev] /\ head' = done.prev /\ data' = data /\ sum' = sum
  BY Zenon DEF reverse_list, Looped, Back, FoldLeft, MapThenFoldSet
<1> HIDE DEF done
<1>11. done.prev = r[n - 1]
  BY <1>2, <1>9 DEF BackTo, done
<1>12. done.next = [x \in DOMAIN next |-> IF pos[x] = 1 THEN NULL ELSE Turn[pos[x] - 1]]
  <2>1. \A x \in DOMAIN next : pos[x] <= n
    BY <1>4
  <2> QED BY <1>9, <2>1 DEF BackTo, done
<1>13. next' = [x \in DOMAIN next |-> IF x = head THEN r[n - 1] ELSE done.next[x]]
  BY <1>10, <1>11, <1>12
<1>14. ASSUME NEW i \in 0..n-1
       PROVE  next'[r[i]] = r[Prior(i, n)]
  <2>1. pos[r[i]] = i + 1
    <3>1. i + 1 \in 1..n /\ Turn[i + 1] = r[i]
      BY <1>2
    <3> QED BY <1>7, <3>1
  <2>2. r[i] \in DOMAIN next /\ 0 \in 0..n-1
    BY <1>1
  <2>3. CASE i = 0
    BY <1>1, <1>13, <2>2, <2>3 DEF Prior
  <2>4. CASE i # 0
    <3>1. r[i] # head
      BY <1>1, <2>2, <2>4
    <3>2. pos[r[i]] # 1 /\ pos[r[i]] - 1 = i /\ i \in 1..n
      BY <2>1, <2>4
    <3>3. Turn[i] = r[i - 1]
      BY <1>2, <3>2
    <3> QED BY <1>12, <1>13, <2>2, <2>4, <3>1, <3>2, <3>3 DEF Prior
  <2> QED BY <2>3, <2>4
<1>15. DOMAIN next' = DOMAIN next /\ next' = [x \in DOMAIN next' |-> next'[x]]
  BY <1>13
<1>16. RingOf(head', next', n, Backwards(r, n))
  BY <1>10, <1>11, <1>14, <1>15, ReversedRing DEF Ring
<1>17. head' \in DOMAIN next' /\ next' \in [DOMAIN next' -> DOMAIN next']
  BY <1>15, <1>16, TypeOfRing
<1>18. TypeOK' /\ head' # NULL
  BY <1>1, <1>10, <1>15, <1>17, NullAssumption DEF TypeOK
<1> QED BY <1>10, <1>16, <1>18

LEMMA RotateRing ==
  ASSUME NEW n \in Nat \ {0}, NEW r, Ring(n, r), head # NULL, TypeOK,
         NEW k \in Nat, rotate_list(k)
  PROVE  /\ RingOf(head', next', n, Rotated(r, n, k)) /\ TypeOK' /\ sum' = sum
         /\ head' # NULL /\ data' = data
<1>1. head' = r[k % n] /\ next' = next /\ data' = data /\ sum' = sum
  BY Steps DEF rotate_list
<1>2. RingOf(head', next', n, Rotated(r, n, k))
  BY <1>1, RotatedRing DEF Ring
<1>3. next' = [x \in DOMAIN next' |-> next'[x]]
  BY <1>1 DEF TypeOK
<1>4. head' \in DOMAIN next'
  BY <1>2, <1>3, TypeOfRing
<1>5. TypeOK' /\ head' # NULL
  BY <1>1, <1>4, NullAssumption DEF TypeOK
<1> QED BY <1>1, <1>2, <1>5

LEMMA ResetEmpties ==
  ASSUME ListInv, reset_list
  PROVE  head' = NULL /\ DOMAIN next' = {} /\ TypeOK' /\ sum' = sum
<1>1. ToSet(Turn) = DOMAIN next
  <2>1. CASE head = NULL
    BY <2>1 DEF ListInv, Turn, ToSet
  <2>2. CASE head # NULL
    <3>1. PICK n, r : Ring(n, r)
      BY <2>2 DEF ListInv
    <3>2. n \in Nat \ {0}
      BY <3>1 DEF Ring, RingOf
    <3> QED BY <2>2, <3>1, <3>2, TurnOfRing
  <2> QED BY <2>1, <2>2
<1>2. DOMAIN data = DOMAIN next
  BY DEF ListInv, TypeOK
<1>3. next' = [n \in {} |-> next[n]] /\ data' = [n \in {} |-> data[n]]
  BY <1>1, <1>2 DEF reset_list
<1> QED BY <1>3 DEF reset_list, TypeOK

LEMMA MapRing ==
  ASSUME NEW n \in Nat \ {0}, NEW r, Ring(n, r), head # NULL, TypeOK,
         NEW f \in Funcs, map(f)
  PROVE  /\ RingOf(head', next', n, r) /\ TypeOK' /\ sum' = sum /\ head' # NULL
         /\ \A x \in DOMAIN next : data'[x] = f[data[x]]
<1>1. ToSet(Turn) = DOMAIN next
  BY TurnOfRing
<1>2. head' = head /\ next' = next /\ sum' = sum
  BY DEF map
<1>3. data \in [DOMAIN next -> Values] /\ f \in [Values -> Values]
  BY FuncsAssumption DEF TypeOK
<1>4. data' = [x \in DOMAIN next |-> f[data[x]]]
  BY <1>1, <1>3 DEF map
<1>5. data' \in [DOMAIN next -> Values]
  BY <1>3, <1>4
<1> QED BY <1>2, <1>4, <1>5 DEF Ring, TypeOK

(* A node is never added, freed or moved by an empty list's other operations.  *)
LEMMA EmptySteps ==
  ASSUME ListInv, head = NULL
  PROVE  /\ \A k \in Offsets : rotate_list(k) => UNCHANGED nodes
         /\ \A f \in Funcs : map(f) => UNCHANGED <<head, next, sum>> /\ TypeOK'
         /\ \A i : ~delete_node_at(i)
         /\ ~reverse_list
<1>1. Turn = <<>> /\ ToSet(Turn) = {}
  BY DEF Turn, ToSet
<1>2. ASSUME NEW k \in Offsets, rotate_list(k)
      PROVE  UNCHANGED nodes
  <2>1. k = 0 /\ head' = get_node_pt(0) /\ UNCHANGED <<next, data, sum>>
    BY <1>2 DEF rotate_list
  <2>2. get_node_pt(0) = head
    BY StepsOfNone
  <2> QED BY <2>1, <2>2 DEF nodes
<1>3. ASSUME NEW f \in Funcs, map(f)
      PROVE  UNCHANGED <<head, next, sum>> /\ TypeOK'
  <2>1. data' = [n \in DOMAIN data |-> data[n]]
    BY <1>1, <1>3 DEF map
  <2> QED BY <1>3, <2>1 DEF map, ListInv, TypeOK
<1> QED BY <1>2, <1>3 DEF delete_node_at, reverse_list

(* An instruction that has been read is valid for the list, which is still as  *)
(* it was then.                                                                *)
InstrInv == instr \in List!Instructions(Len(Turn)) \cup {List!None}

InstrStep ==
  \/ \E i \in 0..Len(Turn), v \in Values :
        instr.op = "INSERT_AT" /\ instr.index = i /\ instr.data = v /\ insert_node_at(i, v)
  \/ \E i \in 0..Len(Turn)-1 :
        instr.op = "DELETE_AT" /\ instr.index = i /\ delete_node_at(i)
  \/ \E k \in Offsets : instr.op = "ROTATE_LIST" /\ instr.offset = k /\ rotate_list(k)
  \/ \E f \in Funcs : instr.op = "MAP" /\ instr.func = f /\ map(f)
  \/ instr.op = "REVERSE_LIST" /\ reverse_list
  \/ instr.op = "RESET_LIST" /\ reset_list
  \/ instr.op = "SUM_LIST" /\ sum_list

LEMMA RunsInstr ==
  ASSUME InstrInv, run_instruction
  PROVE  InstrStep
<1> DEFINE n == Len(Turn)
<1>1. /\ instr.op = "INSERT_AT" => instr.index \in 0..n /\ instr.data \in Values
      /\ instr.op = "DELETE_AT" => instr.index \in 0..n-1
      /\ instr.op = "ROTATE_LIST" => instr.offset \in Offsets
      /\ instr.op = "MAP" => instr.func \in Funcs
  <2> HIDE DEF n
  <2>1. instr \in List!Instructions(n) \cup {List!None}
    BY DEF InstrInv, n
  <2> QED BY <2>1 DEF List!Instructions, List!None
<1> QED BY <1>1 DEF run_instruction, InstrStep

LEMMA InstrInvStep ==
  ASSUME InstrInv, [Read \/ run_instruction]_vars
  PROVE  InstrInv'
<1>1. CASE Read
  <2>1. Turn' = Turn
    BY <1>1 DEF Read, nodes, Turn, get_node_pt
  <2> QED BY <1>1, <2>1 DEF Read, InstrInv, List!Instructions, List!None
<1>2. CASE run_instruction
  BY <1>2 DEF run_instruction, InstrInv, List!None
<1>3. CASE UNCHANGED vars
  <2>1. Turn' = Turn /\ instr' = instr
    BY <1>3 DEF vars, nodes, Turn, get_node_pt
  <2> QED BY <2>1 DEF InstrInv, List!Instructions, List!None
<1> QED BY <1>1, <1>2, <1>3

(* A step is one of seven on a ring, or one of four on an empty list.          *)
LEMMA ListInvStep ==
  ASSUME ListInv, InstrInv, [Read \/ run_instruction]_vars
  PROVE  ListInv'
<1>1. CASE UNCHANGED nodes
  BY <1>1 DEF nodes, ListInv, TypeOK, Ring, RingOf
<1>2. CASE InstrStep /\ head = NULL
  <2>1. CASE \E i \in 0..Len(Turn), v \in Values : insert_node_at(i, v)
    <3>1. Len(Turn) = 0
      BY <1>2 DEF Turn
    <3>2. PICK v \in Values : insert_node_at(0, v)
      BY <2>1, <3>1
    <3> QED BY <1>2, <3>2, InsertFirst DEF ListInv, Ring
  <2>2. CASE \E k \in Offsets : rotate_list(k)
    <3>1. UNCHANGED nodes
      BY <1>2, <2>2, EmptySteps
    <3> QED BY <3>1 DEF nodes, ListInv, TypeOK, Ring, RingOf
  <2>3. CASE \E f \in Funcs : map(f)
    <3>1. UNCHANGED <<head, next, sum>> /\ TypeOK'
      BY <1>2, <2>3, EmptySteps
    <3> QED BY <1>2, <3>1 DEF ListInv
  <2>4. CASE reset_list
    BY <2>4, ResetEmpties DEF ListInv
  <2>5. CASE sum_list
    BY <2>5 DEF sum_list, ListInv, TypeOK, Ring, RingOf
  <2>6. ~reverse_list /\ \A i : ~delete_node_at(i)
    BY <1>2, EmptySteps
  <2> QED BY <1>2, <2>1, <2>2, <2>3, <2>4, <2>5, <2>6 DEF InstrStep
<1>3. CASE InstrStep /\ head # NULL
  <2>1. PICK n, r : Ring(n, r)
    BY <1>3 DEF ListInv
  <2>2. n \in Nat \ {0} /\ TypeOK
    BY <2>1 DEF Ring, RingOf, ListInv
  <2>3. Len(Turn) = n
    BY <1>3, <2>1, <2>2, TurnOfRing
  <2>4. CASE \E i \in 0..Len(Turn), v \in Values : insert_node_at(i, v)
    <3>1. PICK i \in 0..n, v \in Values : insert_node_at(i, v)
      BY <2>3, <2>4
    <3> QED BY <1>3, <2>1, <2>2, <3>1, InsertRing DEF ListInv, Ring
  <2>5. CASE \E i \in 0..Len(Turn)-1 : delete_node_at(i)
    <3>1. PICK i \in 0..n-1 : delete_node_at(i)
      BY <2>3, <2>5
    <3>2. CASE n = 1
      <4>1. i = 0
        BY <3>2
      <4> QED BY <1>3, <2>1, <2>2, <3>1, <3>2, <4>1, DeleteLast DEF ListInv
    <3>3. CASE n # 1
      <4>1. n \in Nat \ {0, 1}
        BY <2>2, <3>3
      <4> QED BY <1>3, <2>1, <2>2, <3>1, <4>1, DeleteRing DEF ListInv, Ring
    <3> QED BY <3>2, <3>3
  <2>6. CASE \E k \in Offsets : rotate_list(k)
    <3>1. PICK k \in Nat : rotate_list(k)
      BY <2>6, OffsetsAssumption
    <3> QED BY <1>3, <2>1, <2>2, <3>1, RotateRing DEF ListInv, Ring
  <2>7. CASE \E f \in Funcs : map(f)
    BY <1>3, <2>1, <2>2, <2>7, MapRing DEF ListInv, Ring
  <2>8. CASE reverse_list
    BY <1>3, <2>1, <2>2, <2>8, ReverseRing DEF ListInv, Ring
  <2>9. CASE reset_list
    BY <2>9, ResetEmpties DEF ListInv
  <2>10. CASE sum_list
    BY <2>10 DEF sum_list, ListInv, TypeOK, Ring, RingOf
  <2> QED BY <1>3, <2>4, <2>5, <2>6, <2>7, <2>8, <2>9, <2>10 DEF InstrStep
<1>4. UNCHANGED nodes \/ run_instruction
  BY DEF Read, vars
<1> QED BY <1>1, <1>2, <1>3, <1>4, RunsInstr

LEMMA ListInvariant == Spec => [](ListInv /\ InstrInv)
<1>1. Init => ListInv /\ InstrInv
  <2> SUFFICES ASSUME Init
               PROVE  ListInv /\ InstrInv
    OBVIOUS
  <2>1. DOMAIN next = {} /\ DOMAIN data = {}
    BY DEF Init
  <2> QED BY <2>1 DEF Init, ListInv, TypeOK, InstrInv
<1>2. ListInv /\ InstrInv /\ [Read \/ run_instruction]_vars => ListInv' /\ InstrInv'
  BY ListInvStep, InstrInvStep
<1> QED BY <1>1, <1>2, PTL DEF Spec

(* After any sequence of instructions, on any list, every allocated node is on *)
(* the ring, and a loop that follows next from the head until it is back ends: *)
(* no insertion, deletion, rotation or reversal loses a node or leaves a       *)
(* pointer to one that has been freed.                                         *)
THEOREM AlwaysRingIntact == Spec => []RingIntact
BY ListInvariant, IntactOfInv, PTL

-----------------------------------------------------------------------------
(* The list of numbers                                                         *)

(* What NumberList calls seq.                                                  *)
Numbers == [i \in DOMAIN Turn |-> data[Turn[i]]]

LEMMA ReadRing ==
  \A n, r : Ring(n, r) /\ head # NULL => Numbers = NumbersOf(n, r, data)
<1> SUFFICES ASSUME NEW n, NEW r, Ring(n, r), head # NULL
             PROVE  Numbers = NumbersOf(n, r, data)
  OBVIOUS
<1>1. n \in Nat \ {0}
  BY DEF Ring, RingOf
<1>2. Turn = [i \in 1..n |-> r[i - 1]] /\ DOMAIN Turn = 1..n
  BY <1>1, TurnOfRing
<1> QED BY <1>2 DEF Numbers, NumbersOf

LEMMA ReadNone == head = NULL => Numbers = <<>>
<1> SUFFICES ASSUME head = NULL
             PROVE  Numbers = <<>>
  OBVIOUS
<1>1. DOMAIN Turn = {}
  BY DEF Turn
<1> QED BY <1>1 DEF Numbers

LEMMA ReadAfter ==
  /\ \A n, r : RingOf(head', next', n, r) /\ head' # NULL => Numbers' = NumbersOf(n, r, data')
  /\ head' = NULL => Numbers' = <<>>
<1>1. (\A n, r : Ring(n, r) /\ head # NULL => Numbers = NumbersOf(n, r, data))'
  BY ReadRing, PTL
<1>2. (head = NULL => Numbers = <<>>)'
  BY ReadNone, PTL
<1> QED BY <1>1, <1>2 DEF Ring

(* The numbers of a ring are a sequence of as many.                            *)
LEMMA NumbersType ==
  ASSUME NEW n \in Nat \ {0}, NEW r, Ring(n, r), TypeOK
  PROVE  /\ NumbersOf(n, r, data) \in Seq(Values)
         /\ Len(NumbersOf(n, r, data)) = n
<1>1. \A i \in 1..n : i - 1 \in 0..n-1 /\ data[r[i - 1]] \in Values
  BY DEF Ring, RingOf, TypeOK
<1>2. n \in Nat
  OBVIOUS
<1> QED BY <1>1, <1>2 DEF NumbersOf

(* What the operators of NumberList return, element by element.                *)
LEMMA Insertion ==
  ASSUME NEW u \in Seq(Values), NEW i \in 0..Len(u), NEW v \in Values
  PROVE  InsertAt(u, i + 1, v)
           = [j \in 1..Len(u)+1 |-> IF j <= i THEN u[j] ELSE IF j = i + 1 THEN v ELSE u[j - 1]]
<1> DEFINE n == Len(u)
           a == SubSeq(u, 1, i)
           b == SubSeq(u, i + 1, n)
<1>1. n \in Nat /\ i \in Int /\ 1 \in Int /\ i + 1 \in Int /\ (i + 1) - 1 = i
  OBVIOUS
<1>2. \A j \in 1..n : u[j] \in Values
  BY ElementOfSeq
<1>3. a \in Seq(Values) /\ Len(a) = i /\ \A j \in 1..i : a[j] = u[j]
  <2>1. \A j \in 1..i : u[j] \in Values
    BY <1>1, <1>2
  <2>2. /\ a \in Seq(Values) /\ Len(a) = IF 1 <= i THEN i - 1 + 1 ELSE 0
        /\ \A j \in 1..(i - 1 + 1) : a[j] = u[1 + j - 1]
    BY <1>1, <2>1, SubSeqProperties
  <2> HIDE DEF a
  <2> QED BY <1>1, <2>2
<1>4. b \in Seq(Values) /\ Len(b) = n - i /\ \A j \in 1..(n - i) : b[j] = u[i + j]
  <2>1. \A j \in i+1..n : u[j] \in Values
    BY <1>1, <1>2
  <2>2. /\ b \in Seq(Values) /\ Len(b) = IF i + 1 <= n THEN n - (i + 1) + 1 ELSE 0
        /\ \A j \in 1..(n - (i + 1) + 1) : b[j] = u[(i + 1) + j - 1]
    BY <1>1, <2>1, SubSeqProperties
  <2> HIDE DEF b
  <2>3. /\ n - (i + 1) + 1 = n - i /\ \A j \in 1..(n - i) : (i + 1) + j - 1 = i + j
        /\ (IF i + 1 <= n THEN n - (i + 1) + 1 ELSE 0) = n - i
    BY <1>1
  <2>4. \A j \in 1..(n - i) : b[j] = u[i + j]
    BY ONLY <2>2, <2>3
  <2> QED BY <2>2, <2>3, <2>4
<1> HIDE DEF a, b
<1> DEFINE c == a \o <<v>>
           d == c \o b
<1>5. c \in Seq(Values) /\ Len(c) = i + 1 /\ c[i + 1] = v /\ \A j \in 1..i : c[j] = u[j]
  <2>1. <<v>> \in Seq(Values) /\ Len(<<v>>) = 1 /\ <<v>>[1] = v
    OBVIOUS
  <2>2. /\ c \in Seq(Values) /\ Len(c) = Len(a) + 1
        /\ \A j \in 1..Len(a)+1 : c[j] = IF j <= Len(a) THEN a[j] ELSE <<v>>[j - Len(a)]
    BY <1>3, <2>1, ConcatProperties
  <2> HIDE DEF c
  <2>3. c[i + 1] = <<v>>[1]
    BY <1>1, <1>3, <2>2
  <2> QED BY <1>1, <1>3, <2>1, <2>2, <2>3
<1> HIDE DEF c
<1>6. /\ d \in Seq(Values) /\ Len(d) = n + 1
      /\ \A j \in 1..n+1 : d[j] = IF j <= i + 1 THEN c[j] ELSE b[j - (i + 1)]
  <2>1. /\ d \in Seq(Values) /\ Len(d) = Len(c) + Len(b)
        /\ \A j \in 1..Len(c)+Len(b) : d[j] = IF j <= Len(c) THEN c[j] ELSE b[j - Len(c)]
    BY <1>4, <1>5, ConcatProperties
  <2>2. Len(c) + Len(b) = n + 1 /\ Len(c) = i + 1
    BY <1>1, <1>4, <1>5
  <2> QED BY <2>1, <2>2
<1>7. InsertAt(u, i + 1, v) = d
  BY <1>1 DEF InsertAt, a, b, c
<1> HIDE DEF d
<1>8. ASSUME NEW j \in 1..n+1
      PROVE  d[j] = IF j <= i THEN u[j] ELSE IF j = i + 1 THEN v ELSE u[j - 1]
  <2>1. CASE j <= i
    BY <1>1, <1>5, <1>6, <2>1
  <2>2. CASE j = i + 1
    BY <1>1, <1>5, <1>6, <2>2
  <2>3. CASE j > i + 1
    <3>1. j - (i + 1) \in 1..(n - i) /\ i + (j - (i + 1)) = j - 1
      BY <1>1, <2>3
    <3>2. b[j - (i + 1)] = u[j - 1]
      BY <1>4, <3>1
    <3>3. ~(j <= i + 1) /\ ~(j <= i) /\ j # i + 1
      BY <1>1, <2>3
    <3> QED BY <1>6, <3>2, <3>3
  <2> QED BY <1>1, <2>1, <2>2, <2>3
<1>9. d = [j \in 1..n+1 |-> d[j]]
  BY <1>6, LenProperties
<1> QED BY <1>7, <1>8, <1>9

LEMMA Removal ==
  ASSUME NEW u \in Seq(Values), NEW i \in 0..Len(u)-1
  PROVE  RemoveAt(u, i + 1)
           = [j \in 1..Len(u)-1 |-> IF j <= i THEN u[j] ELSE u[j + 1]]
<1> DEFINE n == Len(u)
           a == SubSeq(u, 1, i)
           b == SubSeq(u, i + 2, n)
<1>1. n \in Nat /\ i \in Int /\ 1 \in Int /\ i + 2 \in Int /\ (i + 1) - 1 = i /\ (i + 1) + 1 = i + 2
  OBVIOUS
<1>2. \A j \in 1..n : u[j] \in Values
  BY ElementOfSeq
<1>3. a \in Seq(Values) /\ Len(a) = i /\ \A j \in 1..i : a[j] = u[j]
  <2>1. \A j \in 1..i : u[j] \in Values
    BY <1>1, <1>2
  <2>2. /\ a \in Seq(Values) /\ Len(a) = IF 1 <= i THEN i - 1 + 1 ELSE 0
        /\ \A j \in 1..(i - 1 + 1) : a[j] = u[1 + j - 1]
    BY <1>1, <2>1, SubSeqProperties
  <2> HIDE DEF a
  <2> QED BY <1>1, <2>2
<1>4. b \in Seq(Values) /\ Len(b) = n - 1 - i /\ \A j \in 1..(n - 1 - i) : b[j] = u[i + 1 + j]
  <2>1. \A j \in i+2..n : u[j] \in Values
    BY <1>1, <1>2
  <2>2. /\ b \in Seq(Values) /\ Len(b) = IF i + 2 <= n THEN n - (i + 2) + 1 ELSE 0
        /\ \A j \in 1..(n - (i + 2) + 1) : b[j] = u[(i + 2) + j - 1]
    BY <1>1, <2>1, SubSeqProperties
  <2> HIDE DEF b
  <2>3. /\ n - (i + 2) + 1 = n - 1 - i
        /\ \A j \in 1..(n - 1 - i) : (i + 2) + j - 1 = i + 1 + j
        /\ (IF i + 2 <= n THEN n - (i + 2) + 1 ELSE 0) = n - 1 - i
    BY <1>1
  <2>4. \A j \in 1..(n - 1 - i) : b[j] = u[i + 1 + j]
    BY ONLY <2>2, <2>3
  <2> QED BY <2>2, <2>3, <2>4
<1> HIDE DEF a, b
<1> DEFINE d == a \o b
<1>5. /\ d \in Seq(Values) /\ Len(d) = n - 1
      /\ \A j \in 1..n-1 : d[j] = IF j <= i THEN a[j] ELSE b[j - i]
  <2>1. /\ d \in Seq(Values) /\ Len(d) = Len(a) + Len(b)
        /\ \A j \in 1..Len(a)+Len(b) : d[j] = IF j <= Len(a) THEN a[j] ELSE b[j - Len(a)]
    BY <1>3, <1>4, ConcatProperties
  <2>2. Len(a) + Len(b) = n - 1 /\ Len(a) = i
    BY <1>1, <1>3, <1>4
  <2> QED BY <2>1, <2>2
<1>6. RemoveAt(u, i + 1) = d
  BY <1>1 DEF RemoveAt, a, b
<1> HIDE DEF d
<1>7. ASSUME NEW j \in 1..n-1
      PROVE  d[j] = IF j <= i THEN u[j] ELSE u[j + 1]
  <2>1. CASE j <= i
    BY <1>1, <1>3, <1>5, <2>1
  <2>2. CASE j > i
    <3>1. j - i \in 1..(n - 1 - i) /\ i + 1 + (j - i) = j + 1 /\ ~(j <= i)
      BY <1>1, <2>2
    <3> QED BY <1>4, <1>5, <3>1
  <2> QED BY <1>1, <2>1, <2>2
<1>8. d = [j \in 1..n-1 |-> d[j]]
  BY <1>5, LenProperties
<1> QED BY <1>6, <1>7, <1>8

LEMMA SeenInsert ==
  ASSUME ListInv, NEW i \in 0..Len(Turn), NEW v \in Values, insert_node_at(i, v)
  PROVE  i \in 0..Len(Numbers) /\ List!Insert(i, v)
<1>1. CASE head = NULL
  <2>1. Numbers = <<>> /\ i = 0
    BY <1>1, ReadNone DEF Turn
  <2>2. PICK r : /\ RingOf(head', next', 1, r) /\ sum' = sum /\ head' # NULL
                 /\ NumbersOf(1, r, data') = <<v>>
    BY <1>1, <2>1, InsertFirst
  <2>3. Numbers' = <<v>>
    BY <2>2, ReadAfter
  <2>4. InsertAt(<<>>, 0 + 1, v) = <<v>>
    <3>1. PICK e \in Seq(Values) : e = <<>> /\ Len(e) = 0
      BY EmptySeq
    <3>2. 0 \in 0..Len(e)
      BY <3>1
    <3>3. InsertAt(e, 0 + 1, v)
            = [j \in 1..Len(e)+1 |-> IF j <= 0 THEN e[j] ELSE IF j = 0 + 1 THEN v ELSE e[j - 1]]
      BY <3>2, Insertion
    <3>4. InsertAt(e, 0 + 1, v)
            = [j \in 1..0+1 |-> IF j <= 0 THEN e[j] ELSE IF j = 0 + 1 THEN v ELSE e[j - 1]]
      BY <3>1, <3>3
    <3>5. \A j \in 1..0+1 : j = 1
      OBVIOUS
    <3>6. InsertAt(e, 0 + 1, v) = <<v>>
      BY <3>4, <3>5
    <3> QED BY <3>1, <3>6
  <2> QED BY <2>1, <2>2, <2>3, <2>4 DEF List!Insert, List!InsertAt, InsertAt, Numbers
<1>2. CASE head # NULL
  <2>1. PICK n, r : Ring(n, r)
    BY <1>2 DEF ListInv
  <2>2. n \in Nat \ {0} /\ TypeOK
    BY <2>1 DEF Ring, RingOf, ListInv
  <2>3. i \in 0..n
    BY <1>2, <2>1, <2>2, TurnOfRing
  <2>4. PICK m : /\ m \notin DOMAIN next
                 /\ RingOf(head', next', n + 1, Inserted(r, n, i, m)) /\ sum' = sum
                 /\ head' # NULL /\ data'[m] = v
                 /\ \A x \in DOMAIN next : data'[x] = data[x]
    BY <1>2, <2>1, <2>2, <2>3, InsertRing
  <2>5. Numbers' = NumbersOf(n + 1, Inserted(r, n, i, m), data')
    BY <2>4, ReadAfter
  <2>6. Numbers = NumbersOf(n, r, data)
    BY <1>2, <2>1, ReadRing
  <2>7. PICK u \in Seq(Values) : u = NumbersOf(n, r, data) /\ Len(u) = n
    BY <2>1, <2>2, NumbersType
  <2>8. InsertAt(u, i + 1, v)
          = [j \in 1..n+1 |-> IF j <= i THEN u[j] ELSE IF j = i + 1 THEN v ELSE u[j - 1]]
    BY <2>3, <2>7, Insertion
  <2>9. ASSUME NEW j \in 1..n+1
        PROVE  data'[Inserted(r, n, i, m)[j - 1]]
                 = IF j <= i THEN u[j] ELSE IF j = i + 1 THEN v ELSE u[j - 1]
    <3>1. j - 1 \in 0..n
      BY <2>2
    <3>2. \A k \in 0..n-1 : r[k] \in DOMAIN next
      BY <2>1 DEF Ring, RingOf
    <3>3. CASE j <= i
      <4>1. j - 1 < i /\ j - 1 \in 0..n-1 /\ j \in 1..n
        BY <2>2, <2>3, <3>3
      <4> QED BY <2>4, <2>7, <3>1, <3>2, <3>3, <4>1 DEF Inserted, NumbersOf
    <3>4. CASE j = i + 1
      BY <2>3, <2>4, <3>1, <3>4 DEF Inserted
    <3>5. CASE j > i + 1
      <4>1. ~(j - 1 < i) /\ j - 1 # i /\ (j - 1) - 1 \in 0..n-1 /\ j - 1 \in 1..n
        BY <2>2, <2>3, <3>5
      <4>2. Inserted(r, n, i, m)[j - 1] = r[(j - 1) - 1]
        BY <3>1, <4>1 DEF Inserted
      <4>3. u[j - 1] = data[r[(j - 1) - 1]]
        BY <2>7, <4>1 DEF NumbersOf
      <4>4. ~(j <= i) /\ j # i + 1
        BY <2>3, <3>5
      <4> QED BY <2>4, <3>2, <4>1, <4>2, <4>3, <4>4
    <3> QED BY <2>3, <3>3, <3>4, <3>5
  <2>10. NumbersOf(n + 1, Inserted(r, n, i, m), data')
           = [j \in 1..n+1 |-> IF j <= i THEN u[j] ELSE IF j = i + 1 THEN v ELSE u[j - 1]]
    BY <2>9 DEF NumbersOf
  <2>11. Numbers' = InsertAt(u, i + 1, v) /\ u = Numbers /\ i \in 0..Len(Numbers)
    BY <2>3, <2>5, <2>6, <2>7, <2>8, <2>10
  <2> QED BY <2>4, <2>11 DEF List!Insert, List!InsertAt, InsertAt, Numbers
<1> QED BY <1>1, <1>2

LEMMA SeenDelete ==
  ASSUME ListInv, NEW i \in 0..Len(Turn)-1, delete_node_at(i)
  PROVE  i \in 0..Len(Numbers)-1 /\ List!Delete(i)
<1>1. head # NULL
  BY DEF delete_node_at
<1>2. PICK n, r : Ring(n, r)
  BY <1>1 DEF ListInv
<1>3. n \in Nat \ {0} /\ TypeOK
  BY <1>2 DEF Ring, RingOf, ListInv
<1>4. i \in 0..n-1
  BY <1>1, <1>2, <1>3, TurnOfRing
<1>5. Numbers = NumbersOf(n, r, data)
  BY <1>1, <1>2, ReadRing
<1>6. PICK u \in Seq(Values) : u = NumbersOf(n, r, data) /\ Len(u) = n
  BY <1>2, <1>3, NumbersType
<1>7. RemoveAt(u, i + 1) = [j \in 1..n-1 |-> IF j <= i THEN u[j] ELSE u[j + 1]]
  BY <1>4, <1>6, Removal
<1>8. Numbers' = RemoveAt(u, i + 1) /\ sum' = sum
  <2>1. CASE n = 1
    <3>1. i = 0
      BY <1>4, <2>1
    <3>2. head' = NULL /\ sum' = sum
      BY <1>1, <1>2, <1>3, <2>1, <3>1, DeleteLast
    <3>3. 1..n-1 = {}
      BY <2>1
    <3>4. Numbers' = <<>>
      BY <3>2, ReadAfter
    <3>5. RemoveAt(u, i + 1) = [j \in {} |-> IF j <= i THEN u[j] ELSE u[j + 1]]
      BY <1>7, <3>3
    <3>6. RemoveAt(u, i + 1) = <<>>
      BY <3>5
    <3> QED BY <3>2, <3>4, <3>6
  <2>2. CASE n # 1
    <3> DEFINE q == Removed(r, n, i)
    <3>1. n \in Nat \ {0, 1}
      BY <1>3, <2>2
    <3>2. /\ RingOf(head', next', n - 1, q) /\ sum' = sum /\ head' # NULL
          /\ \A x \in DOMAIN next' : data'[x] = data[x]
      BY <1>1, <1>2, <1>3, <1>4, <3>1, DeleteRing
    <3>3. Numbers' = NumbersOf(n - 1, q, data')
      BY <3>2, ReadAfter
    <3>4. ASSUME NEW j \in 1..n-1
          PROVE  data'[q[j - 1]] = IF j <= i THEN u[j] ELSE u[j + 1]
      <4>1. j - 1 \in 0..n-2 /\ (n - 1) - 1 = n - 2
        BY <3>1
      <4>2. q[j - 1] \in DOMAIN next'
        BY <3>2, <4>1 DEF RingOf
      <4>3. CASE j <= i
        <5>1. j - 1 < i /\ j \in 1..n
          BY <1>4, <3>1, <4>3
        <5>2. q[j - 1] = r[j - 1]
          BY <4>1, <5>1 DEF Removed
        <5> QED BY <1>6, <3>2, <4>2, <4>3, <5>1, <5>2 DEF NumbersOf
      <4>4. CASE j > i
        <5>1. ~(j - 1 < i) /\ j + 1 \in 1..n /\ (j + 1) - 1 = (j - 1) + 1 /\ ~(j <= i)
          BY <1>4, <3>1, <4>4
        <5>2. q[j - 1] = r[(j - 1) + 1]
          BY <4>1, <5>1 DEF Removed
        <5>3. u[j + 1] = data[r[(j + 1) - 1]]
          BY <1>6, <5>1 DEF NumbersOf
        <5> QED BY <3>2, <4>2, <5>1, <5>2, <5>3
      <4> QED BY <1>4, <4>3, <4>4
    <3> HIDE DEF q
    <3>5. NumbersOf(n - 1, q, data') = [j \in 1..n-1 |-> IF j <= i THEN u[j] ELSE u[j + 1]]
      BY <3>4 DEF NumbersOf
    <3> QED BY <1>7, <3>2, <3>3, <3>5
  <2> QED BY <2>1, <2>2
<1>9. u = Numbers /\ i \in 0..Len(Numbers)-1
  BY <1>4, <1>5, <1>6
<1> QED BY <1>8, <1>9 DEF List!Delete, List!RemoveAt, RemoveAt, Numbers

LEMMA SeenRotate ==
  ASSUME ListInv, NEW k \in Offsets, rotate_list(k)
  PROVE  List!Rotate(k)
<1>1. CASE head = NULL
  <2>1. UNCHANGED nodes
    BY <1>1, EmptySteps
  <2>2. Numbers = <<>> /\ Numbers' = <<>> /\ sum' = sum
    BY <1>1, <2>1, ReadNone, ReadAfter DEF nodes
  <2>3. DOMAIN <<>> = {}
    OBVIOUS
  <2>4. Numbers' = [i \in DOMAIN Numbers |-> Numbers[((i - 1 + k) % Len(Numbers)) + 1]]
    BY <2>2, <2>3
  <2> QED BY <2>2, <2>4 DEF List!Rotate, Numbers
<1>2. CASE head # NULL
  <2>1. PICK n, r : Ring(n, r)
    BY <1>2 DEF ListInv
  <2>2. n \in Nat \ {0} /\ TypeOK /\ k \in Nat
    BY <2>1, OffsetsAssumption DEF Ring, RingOf, ListInv
  <2> DEFINE q == Rotated(r, n, k)
             u == NumbersOf(n, r, data)
  <2>3. RingOf(head', next', n, q) /\ sum' = sum /\ head' # NULL /\ data' = data
    BY <1>2, <2>1, <2>2, RotateRing
  <2>4. Numbers' = NumbersOf(n, q, data) /\ Numbers = u
    BY <1>2, <2>1, <2>3, ReadRing, ReadAfter
  <2>5. DOMAIN u = 1..n /\ Len(u) = n
    BY <2>2 DEF NumbersOf
  <2>6. ASSUME NEW i \in 1..n
        PROVE  data[q[i - 1]] = u[((i - 1 + k) % n) + 1]
    <3>1. i - 1 \in 0..n /\ i - 1 \in 0..n-1 /\ i - 1 + k = k + (i - 1)
      BY <2>2
    <3>2. /\ (k + (i - 1)) % n = Around(Around((k % n) + (i - 1), n), n)
          /\ k % n \in 0..n-1
      BY <2>2, <3>1, RemainderOfSum
    <3> DEFINE d == k % n
               e == (k + (i - 1)) % n
    <3>3. q[i - 1] = r[Around((i - 1) + d, n)]
      BY <3>1 DEF Rotated
    <3> HIDE DEF d, e
    <3>4. e = Around((i - 1) + d, n) /\ e \in 0..n-1
      BY <2>2, <3>1, <3>2 DEF Around, d, e
    <3>5. u[e + 1] = data[r[e]]
      <4>1. e + 1 \in 1..n /\ (e + 1) - 1 = e
        BY <2>2, <3>4
      <4> QED BY <4>1 DEF NumbersOf
    <3>6. u[((i - 1 + k) % n) + 1] = u[e + 1]
      BY <3>1 DEF e
    <3> QED BY <3>3, <3>4, <3>5, <3>6
  <2> HIDE DEF u, q
  <2>7. NumbersOf(n, q, data) = [i \in 1..n |-> u[((i - 1 + k) % n) + 1]]
    BY <2>6 DEF NumbersOf
  <2>8. Numbers' = [i \in DOMAIN Numbers |-> Numbers[((i - 1 + k) % Len(Numbers)) + 1]]
    BY <2>4, <2>5, <2>7
  <2> QED BY <2>3, <2>8 DEF List!Rotate, Numbers
<1> QED BY <1>1, <1>2

LEMMA SeenReverse ==
  ASSUME ListInv, reverse_list
  PROVE  List!Reversed
<1>1. head # NULL
  BY DEF reverse_list
<1>2. PICK n, r : Ring(n, r)
  BY <1>1 DEF ListInv
<1>3. n \in Nat \ {0} /\ TypeOK
  BY <1>2 DEF Ring, RingOf, ListInv
<1> DEFINE q == Backwards(r, n)
           u == NumbersOf(n, r, data)
<1>4. RingOf(head', next', n, q) /\ sum' = sum /\ head' # NULL /\ data' = data
  BY <1>1, <1>2, <1>3, ReverseRing
<1>5. Numbers' = NumbersOf(n, q, data) /\ Numbers = u
  BY <1>1, <1>2, <1>4, ReadRing, ReadAfter
<1>6. DOMAIN u = 1..n /\ Len(u) = n
  BY <1>3 DEF NumbersOf
<1>7. ASSUME NEW i \in 1..n
      PROVE  data[q[i - 1]] = u[(n - i) + 1]
  <2>1. /\ i - 1 \in 0..n-1 /\ n - 1 - (i - 1) = n - i /\ (n - i) + 1 \in 1..n
        /\ ((n - i) + 1) - 1 = n - i
    BY <1>3
  <2>2. q[i - 1] = r[n - i]
    BY <2>1 DEF Backwards
  <2>3. u[(n - i) + 1] = data[r[n - i]]
    BY <2>1 DEF NumbersOf
  <2> QED BY <2>2, <2>3
<1> HIDE DEF u, q
<1>8. NumbersOf(n, q, data) = [i \in 1..n |-> u[(n - i) + 1]]
  BY <1>7 DEF NumbersOf
<1>9. Numbers' = [i \in 1..Len(Numbers) |-> Numbers[(Len(Numbers) - i) + 1]]
  BY <1>5, <1>6, <1>8
<1> QED BY <1>4, <1>9 DEF List!Reversed, List!Reverse, Numbers

LEMMA SeenReset ==
  ASSUME ListInv, reset_list
  PROVE  List!Emptied
<1>1. head' = NULL /\ sum' = sum
  BY ResetEmpties
<1>2. Numbers' = <<>>
  BY <1>1, ReadAfter
<1> QED BY <1>1, <1>2 DEF List!Emptied, Numbers

LEMMA SeenMap ==
  ASSUME ListInv, NEW f \in Funcs, map(f)
  PROVE  List!Mapped(f)
<1>1. CASE head = NULL
  <2>1. UNCHANGED <<head, next, sum>>
    BY <1>1, EmptySteps
  <2>2. Numbers = <<>> /\ Numbers' = <<>> /\ sum' = sum
    BY <1>1, <2>1, ReadNone, ReadAfter
  <2>3. DOMAIN <<>> = {}
    OBVIOUS
  <2>4. Numbers' = [i \in DOMAIN Numbers |-> f[Numbers[i]]]
    BY <2>2, <2>3
  <2> QED BY <2>2, <2>4 DEF List!Mapped, Numbers
<1>2. CASE head # NULL
  <2>1. PICK n, r : Ring(n, r)
    BY <1>2 DEF ListInv
  <2>2. n \in Nat \ {0} /\ TypeOK
    BY <2>1 DEF Ring, RingOf, ListInv
  <2> DEFINE u == NumbersOf(n, r, data)
  <2>3. /\ RingOf(head', next', n, r) /\ sum' = sum /\ head' # NULL
        /\ \A x \in DOMAIN next : data'[x] = f[data[x]]
    BY <1>2, <2>1, <2>2, MapRing
  <2>4. Numbers' = NumbersOf(n, r, data') /\ Numbers = u
    BY <1>2, <2>1, <2>3, ReadRing, ReadAfter
  <2>5. DOMAIN u = 1..n
    BY DEF NumbersOf
  <2>6. \A i \in 1..n : r[i - 1] \in DOMAIN next
    BY <2>1, <2>2 DEF Ring, RingOf
  <2>7. \A i \in 1..n : data'[r[i - 1]] = f[u[i]]
    BY <2>3, <2>6 DEF NumbersOf
  <2> HIDE DEF u
  <2>8. NumbersOf(n, r, data') = [i \in 1..n |-> f[u[i]]]
    BY <2>7 DEF NumbersOf
  <2>9. Numbers' = [i \in DOMAIN Numbers |-> f[Numbers[i]]]
    BY <2>4, <2>5, <2>8
  <2> QED BY <2>3, <2>9 DEF List!Mapped, Numbers
<1> QED BY <1>1, <1>2

(* The two folds of sum_list and of Total take the same numbers in the same    *)
(* order.                                                                      *)
LEMMA SeenSum ==
  ASSUME ListInv, sum_list
  PROVE  List!Summed
<1> DEFINE F(it) == it = [s \in SUBSET DOMAIN Turn |->
                            IF s = {} THEN 0 ELSE it[s \ {Max(s)}] + data[Turn[Max(s)]]]
           G(it) == it = [s \in SUBSET DOMAIN Turn |->
                            IF s = {} THEN 0 ELSE it[s \ {Max(s)}] + Numbers[Max(s)]]
<1>1. sum' = (CHOOSE it : F(it))[DOMAIN Turn]
  BY DEF sum_list, FoldLeft, MapThenFoldSet
<1>2. DOMAIN Numbers = DOMAIN Turn
  BY DEF Numbers
<1>3. List!Total(Numbers) = (CHOOSE it : G(it))[DOMAIN Turn]
  BY <1>2 DEF List!Total, List!FoldLeft, List!MapThenFoldSet, List!Max, Max
<1>4. PICK n \in Nat : DOMAIN Turn = 1..n
  <2>1. CASE head = NULL
    <3>1. DOMAIN Turn = 1..0
      BY <2>1 DEF Turn
    <3> QED BY <3>1
  <2>2. CASE head # NULL
    <3>1. PICK n, r : Ring(n, r)
      BY <2>2 DEF ListInv
    <3>2. n \in Nat \ {0}
      BY <3>1 DEF Ring, RingOf
    <3> QED BY <2>2, <3>1, <3>2, TurnOfRing
  <2> QED BY <2>1, <2>2
<1>5. ASSUME NEW s \in SUBSET DOMAIN Turn, s # {}
      PROVE  Numbers[Max(s)] = data[Turn[Max(s)]]
  <2>1. Max(s) \in DOMAIN Turn
    BY <1>4, <1>5, Greatest
  <2> QED BY <2>1 DEF Numbers
<1>6. ASSUME NEW it
      PROVE  F(it) <=> G(it)
  <2>1. ASSUME NEW s \in SUBSET DOMAIN Turn
        PROVE  (IF s = {} THEN 0 ELSE it[s \ {Max(s)}] + data[Turn[Max(s)]])
                 = (IF s = {} THEN 0 ELSE it[s \ {Max(s)}] + Numbers[Max(s)])
    BY <1>5
  <2> QED BY <2>1, Zenon
<1> HIDE DEF F, G
<1>7. (CHOOSE it : F(it)) = (CHOOSE it : G(it))
  BY <1>6, Zenon
<1>8. sum' = List!Total(Numbers)
  BY <1>1, <1>3, <1>7
<1>9. Numbers' = Numbers
  <2>1. UNCHANGED <<head, next, data>>
    BY DEF sum_list
  <2> QED BY <2>1 DEF Numbers, Turn, get_node_pt
<1> QED BY <1>8, <1>9 DEF List!Summed, Numbers

(* There are as many numbers as nodes in a turn, so that the same instructions *)
(* are valid for both.                                                         *)
LEMMA SeenLength ==
  ASSUME ListInv
  PROVE  Len(Numbers) = Len(Turn)
<1>1. CASE head = NULL
  <2>1. Turn = <<>>
    BY <1>1 DEF Turn
  <2> QED BY <1>1, <2>1, ReadNone
<1>2. CASE head # NULL
  <2>1. PICK n, r : Ring(n, r)
    BY <1>2 DEF ListInv
  <2>2. n \in Nat \ {0} /\ TypeOK
    BY <2>1 DEF Ring, RingOf, ListInv
  <2> QED BY <1>2, <2>1, <2>2, ReadRing, NumbersType, TurnOfRing
<1> QED BY <1>1, <1>2

(* An instruction does to the numbers what it says, with its own arguments.    *)
LEMMA SeenRun ==
  ASSUME ListInv, InstrInv, run_instruction
  PROVE  List!Run
<1>1. instr' = List!None
  BY DEF run_instruction
<1>2. CASE \E i \in 0..Len(Turn), v \in Values :
             instr.op = "INSERT_AT" /\ instr.index = i /\ instr.data = v /\ insert_node_at(i, v)
  <2>1. PICK i \in 0..Len(Turn), v \in Values :
          instr.op = "INSERT_AT" /\ instr.index = i /\ instr.data = v /\ insert_node_at(i, v)
    BY <1>2
  <2>2. List!Insert(i, v)
    BY <2>1, SeenInsert
  <2> QED BY <1>1, <2>1, <2>2 DEF List!Run, List!Insert
<1>3. CASE \E i \in 0..Len(Turn)-1 :
             instr.op = "DELETE_AT" /\ instr.index = i /\ delete_node_at(i)
  <2>1. PICK i \in 0..Len(Turn)-1 :
          instr.op = "DELETE_AT" /\ instr.index = i /\ delete_node_at(i)
    BY <1>3
  <2>2. List!Delete(i)
    BY <2>1, SeenDelete
  <2> QED BY <1>1, <2>1, <2>2 DEF List!Run, List!Delete
<1>4. CASE \E k \in Offsets : instr.op = "ROTATE_LIST" /\ instr.offset = k /\ rotate_list(k)
  <2>1. PICK k \in Offsets : instr.op = "ROTATE_LIST" /\ instr.offset = k /\ rotate_list(k)
    BY <1>4
  <2>2. List!Rotate(k)
    BY <2>1, SeenRotate
  <2> QED BY <1>1, <2>1, <2>2 DEF List!Run, List!Rotate
<1>5. CASE \E f \in Funcs : instr.op = "MAP" /\ instr.func = f /\ map(f)
  <2>1. PICK f \in Funcs : instr.op = "MAP" /\ instr.func = f /\ map(f)
    BY <1>5
  <2>2. List!Mapped(f)
    BY <2>1, SeenMap
  <2> QED BY <1>1, <2>1, <2>2 DEF List!Run, List!Mapped
<1>6. CASE instr.op = "REVERSE_LIST" /\ reverse_list
  BY <1>1, <1>6, SeenReverse DEF List!Run
<1>7. CASE instr.op = "RESET_LIST" /\ reset_list
  BY <1>1, <1>7, SeenReset DEF List!Run
<1>8. CASE instr.op = "SUM_LIST" /\ sum_list
  BY <1>1, <1>8, SeenSum DEF List!Run
<1> QED BY RunsInstr, <1>2, <1>3, <1>4, <1>5, <1>6, <1>7, <1>8 DEF InstrStep

LEMMA SeenStep ==
  ASSUME ListInv, InstrInv, [Read \/ run_instruction]_vars
  PROVE  [List!Read \/ List!Run]_(List!vars)
<1>1. UNCHANGED nodes => Numbers' = Numbers /\ sum' = sum
  BY DEF nodes, Numbers, Turn, get_node_pt
<1>2. CASE UNCHANGED vars
  BY <1>1, <1>2 DEF vars, List!vars, Numbers
<1>3. CASE Read
  <2>1. instr = List!None /\ instr' \in List!Instructions(Len(Numbers))
    BY <1>3, SeenLength DEF Read
  <2>2. Numbers' = Numbers /\ sum' = sum
    BY <1>1, <1>3 DEF Read
  <2> QED BY <2>1, <2>2 DEF List!Read, Numbers
<1>4. CASE run_instruction
  BY <1>4, SeenRun
<1> QED BY <1>2, <1>3, <1>4

(* Every instruction that is run does to the numbers of the ring what the      *)
(* comment of its operation in node.h says it does to a list: it inserts the   *)
(* instruction's number at its index, removes the one at its index, rotates by *)
(* its offset, reverses or empties the list, applies its function to every     *)
(* number, or returns their sum; for lists of any length.                      *)
THEOREM CircularListImplementsList == Spec => ImplementsList
<1>1. Init => List!Init
  <2> SUFFICES ASSUME Init
               PROVE  List!Init
    OBVIOUS
  <2>1. Numbers = <<>> /\ sum = 0 /\ instr = List!None
    BY ReadNone DEF Init
  <2> QED BY <2>1 DEF List!Init, Numbers
<1>2. ListInv /\ InstrInv /\ [Read \/ run_instruction]_vars => [List!Read \/ List!Run]_(List!vars)
  BY SeenStep
<1> QED BY <1>1, <1>2, ListInvariant, PTL DEF Spec, ImplementsList, List!Spec

=============================================================================
