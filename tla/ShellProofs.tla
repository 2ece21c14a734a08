---------------------------- MODULE ShellProofs -----------------------------
(* Proofs about Shell, for any table, pids, exit codes and command lines, and  *)
(* for processes that end whenever they like.                                  *)
EXTENDS Shell, FiniteSetTheorems, FunctionTheorems, SequenceTheorems, WellFoundedInduction, TLAPS

(* Fork does not fail: a failed one is recorded as a child with pid -1.        *)
ForksSucceed == ~ForkFails

(* The entry that a loop stops at is the first of those it looks for.          *)
LEMMA LeastSlot ==
  ASSUME NEW S \in SUBSET Slots, S # {}
  PROVE  Min(S) \in S /\ \A s \in S : Min(S) <= s
<1> DEFINE R == {ss \in Nat \X Nat : ss[1] < ss[2]}
<1>1. R = OpToRel(<, Nat)
  BY Zenon DEF OpToRel
<1>2. IsWellFoundedOn(R, Nat)
  BY <1>1, NatLessThanWellFounded, Zenon
<1>3. S \in SUBSET Nat
  BY TableAssumption DEF Slots
<1>4. PICK s \in S : \A r \in S : <<r, s>> \notin R
  <2> HIDE DEF R
  <2> QED BY <1>2, <1>3, WFMin
<1>5. \A r \in S : s <= r
  <2> SUFFICES ASSUME NEW r \in S, ~(s <= r)
               PROVE  FALSE
    OBVIOUS
  <2>1. r \in Nat /\ s \in Nat /\ r < s
    BY <1>3
  <2>2. <<r, s>> \in {ss \in Nat \X Nat : ss[1] < ss[2]}
    BY <2>1
  <2> QED BY <1>4, <2>2
<1> QED BY <1>5 DEF Min

(* The commands of a line are a sequence, with a command in it.                *)
LEMMA LineIsCommands ==
  ASSUME NEW t \in Lines
  PROVE  /\ check_command(t) = 6 => Line(t) \in Seq(Chains)
         /\ check_command(t) # 6 => Line(t) = <<t>>
         /\ Line(t) # <<>> /\ Line(t) \in Seq(ToSet(Line(t)))
<1> DEFINE ends == {k \in 1..Len(t) : t[k] \in {"&&", "NULL"}}
           cut(j) == SubSeq(t, (IF j - 1 = 0 THEN 0
                                ELSE CHOOSE k \in ends : Cardinality(ends \cap 1..k) = j - 1) + 1,
                            (IF j = 0 THEN 0
                             ELSE CHOOSE k \in ends : Cardinality(ends \cap 1..k) = j) - 1)
                     \o <<"NULL">>
<1>1. t \in Seq(STRING) /\ Len(t) \in Nat /\ Len(t) > 0 /\ t[Len(t)] = "NULL"
  BY LinesAssumption
<1>2. IsFiniteSet(ends) /\ Len(t) \in ends
  <2>1. IsFiniteSet(1..Len(t))
    BY <1>1, FS_Interval
  <2> QED BY <1>1, <2>1, FS_Subset
<1>3. Cardinality(ends) \in Nat /\ Cardinality(ends) > 0
  BY <1>2, FS_CardinalityType, FS_EmptySet
<1>4. Commands(t) = [j \in 1..Cardinality(ends) |-> cut(j)]
  BY DEF Commands
<1>5. Commands(t) \in Seq(ToSet(Commands(t))) /\ Commands(t) # <<>>
  <2> HIDE DEF cut, ends
  <2> QED BY <1>3, <1>4 DEF ToSet
<1>6. check_command(t) = 6 => ToSet(Commands(t)) \subseteq Chains
  BY DEF Chains
<1>7. CASE check_command(t) = 6
  BY <1>5, <1>6, <1>7, SeqMonotonic DEF Line
<1>8. CASE check_command(t) # 6
  <2>1. Line(t) = <<t>>
    BY <1>8 DEF Line
  <2>2. <<t>> \in Seq(ToSet(<<t>>)) /\ <<t>> # <<>>
    BY DEF ToSet
  <2> QED BY <1>8, <2>1, <2>2
<1> QED BY <1>7, <1>8

(* How many programs of a list of commands are still to run.                   *)
LEMMA RunningFinite ==
  ASSUME NEW S, NEW cmds \in Seq(S)
  PROVE  IsFiniteSet(Running(cmds)) /\ Cardinality(Running(cmds)) \in Nat
<1>1. IsFiniteSet(DOMAIN cmds)
  BY FS_Interval
<1>2. Running(cmds) \subseteq DOMAIN cmds
  BY DEF Running
<1> QED BY <1>1, <1>2, FS_Subset, FS_CardinalityType

LEMMA RunningEmpty ==
  Cardinality(Running(<<>>)) = 0
<1>1. Running(<<>>) = {}
  BY DEF Running
<1> QED BY <1>1, FS_EmptySet

(* The first of them is taken off.                                             *)
LEMMA RunningTail ==
  ASSUME NEW S, NEW cmds \in Seq(S), cmds # <<>>
  PROVE  Cardinality(Running(Tail(cmds))) + (IF Runs(Head(cmds)) THEN 1 ELSE 0)
           = Cardinality(Running(cmds))
<1> DEFINE A == Running(Tail(cmds))
           B == Running(cmds) \ {1}
           shift == [j \in A |-> j + 1]
<1>1. Tail(cmds) \in Seq(S) /\ Len(Tail(cmds)) = Len(cmds) - 1
      /\ Len(cmds) \in Nat /\ Len(cmds) > 0
      /\ \A j \in 1..Len(cmds)-1 : Tail(cmds)[j] = cmds[j + 1]
  BY HeadTailProperties, LenProperties
<1>2. /\ A = {j \in 1..Len(cmds)-1 : Runs(cmds[j + 1])}
      /\ B = {j \in 2..Len(cmds) : Runs(cmds[j])}
  BY <1>1 DEF Running
<1>3. shift \in Bijection(A, B)
  <2>1. shift \in [A -> B]
    BY <1>1, <1>2
  <2>2. \A a, b \in A : shift[a] = shift[b] => a = b
    BY <1>1, <1>2
  <2>3. \A b \in B : \E a \in A : shift[a] = b
    <3> SUFFICES ASSUME NEW b \in B
                 PROVE  b - 1 \in A /\ shift[b - 1] = b
      OBVIOUS
    <3> QED BY <1>1, <1>2
  <2> HIDE DEF shift, A, B
  <2> QED BY <2>1, <2>2, <2>3, Fun_IsBij
<1>4. IsFiniteSet(A) /\ IsFiniteSet(Running(cmds)) /\ IsFiniteSet(B)
  BY <1>1, RunningFinite, FS_RemoveElement
<1>5. Cardinality(A) = Cardinality(B)
  <2> HIDE DEF A, B, shift
  <2> QED BY <1>3, <1>4, FS_Bijection DEF ExistsBijection
<1>6. Runs(Head(cmds)) <=> 1 \in Running(cmds)
  BY <1>1 DEF Running
<1>7. CASE 1 \in Running(cmds)
  BY <1>4, <1>5, <1>6, <1>7, FS_RemoveElement, FS_CardinalityType
<1>8. CASE 1 \notin Running(cmds)
  <2>1. B = Running(cmds)
    BY <1>8
  <2>2. Cardinality(Running(cmds)) \in Nat
    BY RunningFinite
  <2> QED BY <1>5, <1>6, <1>8, <2>1, <2>2
<1> QED BY <1>7, <1>8

-----------------------------------------------------------------------------
(* The table and the kernel                                                    *)

(* An entry that is not finished is that of a child, by itself at its pid, so  *)
(* that waitpid and kill with that pid mean this child.                        *)
LEMMA EntryOfChild ==
  ASSUME ShellInv, NEW s \in Slots, Has(s, Unfinished)
  PROVE  LET pid == child_PID_tracker[s].pid
         IN /\ pid \in Pids /\ pid \in Children /\ kernel[pid].owner = s
            /\ kernel[pid] \in Processes
            /\ Awaited(pid) = {pid} /\ Targets(pid) = {pid}
            /\ Ended(pid) \subseteq {pid}
<1> DEFINE pid == child_PID_tracker[s].pid
<1>1. pid \in Children /\ kernel[pid].owner = s
  BY DEF ShellInv, Tracked
<1>2. pid \in DOMAIN kernel /\ pid \in Pids /\ kernel[pid] \in Processes
  BY <1>1 DEF Children, ShellInv, Shape, TypeOK
<1>3. pid # -1
  BY <1>2, PidsAssumption
<1> QED BY <1>1, <1>2, <1>3 DEF Awaited, Targets, Ended

(* waitpid for such an entry: the child has ended, and its exit code is what   *)
(* the entry gets.                                                             *)
LEMMA Waited ==
  ASSUME ShellInv, NEW s \in Slots, Has(s, Unfinished),
         waitpid(child_PID_tracker[s].pid, LAMBDA code : Status(s, code))
  PROVE  LET pid == child_PID_tracker[s].pid
         IN /\ kernel' = Reaped(pid)
            /\ child_PID_tracker' =
                 [child_PID_tracker EXCEPT ![s].status = WEXITSTATUS(kernel[pid].raw)]
            /\ WEXITSTATUS(kernel[pid].raw) \in Codes
<1> DEFINE pid == child_PID_tracker[s].pid
<1>1. Awaited(pid) = {pid} /\ Ended(pid) \subseteq {pid} /\ kernel[pid] \in Processes
  BY EntryOfChild
<1>2. kernel' = Reaped(pid) /\ Status(s, WEXITSTATUS(kernel[pid].raw))
  BY <1>1 DEF waitpid
<1>3. WEXITSTATUS(kernel[pid].raw) \in Codes
  BY <1>1, CodesAssumption DEF WEXITSTATUS, Processes
<1> QED BY <1>2, <1>3 DEF Status

(* An exit code is not one of the marks of an unfinished entry.                *)
LEMMA CodeIsFinal ==
  ASSUME NEW code \in Codes
  PROVE  code \notin Unfinished
  BY CodesAssumption DEF Unfinished, INCOMPLETE_FORK, TERMINATING_FORK

(* What waiting for a child does to the table and the kernel.                  *)
LEMMA Reaping ==
  ASSUME ShellInv, NEW s \in Slots, Has(s, Unfinished), NEW code \in Codes,
         child_PID_tracker' = [child_PID_tracker EXCEPT ![s].status = code],
         kernel' = Reaped(child_PID_tracker[s].pid)
  PROVE  /\ child_PID_tracker' \in
              [Slots -> [pid : Pids \cup {-1, 0}, status : Codes \cup Unfinished]]
         /\ DOMAIN kernel' \subseteq Pids /\ kernel' \in [DOMAIN kernel' -> Processes]
         /\ Children' = Children \ {child_PID_tracker[s].pid}
         /\ \A p \in DOMAIN kernel' : p \in DOMAIN kernel /\ kernel'[p] = kernel[p]
         /\ \A n \in Slots :
              /\ child_PID_tracker'[n].status \in Unfinished <=> (n # s /\ Has(n, Unfinished))
              /\ child_PID_tracker'[n].pid = child_PID_tracker[n].pid
              /\ n # s => child_PID_tracker'[n] = child_PID_tracker[n]
         /\ child_PID_tracker'[s].status = code
<1> DEFINE pid == child_PID_tracker[s].pid
           Entries == [pid : Pids \cup {-1, 0}, status : Codes \cup Unfinished]
<1>1. child_PID_tracker \in [Slots -> Entries] /\ DOMAIN kernel \subseteq Pids
      /\ kernel \in [DOMAIN kernel -> Processes]
  BY DEF ShellInv, Shape, TypeOK
<1>2. /\ child_PID_tracker' \in [Slots -> Entries]
      /\ child_PID_tracker'[s].status = code
  BY <1>1
<1>3. /\ DOMAIN kernel' = DOMAIN kernel \ {pid}
      /\ \A p \in DOMAIN kernel' : kernel'[p] = kernel[p]
      /\ kernel' \in [DOMAIN kernel' -> Processes]
  BY <1>1 DEF Reaped
<1>4. \A n \in Slots :
        /\ child_PID_tracker'[n].status \in Unfinished <=> (n # s /\ Has(n, Unfinished))
        /\ child_PID_tracker'[n].pid = child_PID_tracker[n].pid
        /\ n # s => child_PID_tracker'[n] = child_PID_tracker[n]
  BY <1>1, CodeIsFinal DEF Has
<1>5. Children' = Children \ {pid}
  BY <1>3 DEF Children
<1> HIDE DEF Entries
<1>6. child_PID_tracker' \in [Slots -> [pid : Pids \cup {-1, 0}, status : Codes \cup Unfinished]]
  BY <1>2 DEF Entries
<1>7. /\ DOMAIN kernel' \subseteq Pids
      /\ \A p \in DOMAIN kernel' : p \in DOMAIN kernel /\ kernel'[p] = kernel[p]
  BY <1>1, <1>3
<1> QED BY <1>2, <1>3, <1>4, <1>5, <1>6, <1>7, Zenon

(* What waiting for a child keeps.                                             *)
LEMMA ReapingKeepsTracked ==
  ASSUME ShellInv, NEW s \in Slots, Has(s, Unfinished), NEW code \in Codes,
         child_PID_tracker' = [child_PID_tracker EXCEPT ![s].status = code],
         kernel' = Reaped(child_PID_tracker[s].pid),
         new_child_PID_Index' \in Nat, new_child_PID_Index' >= new_child_PID_Index,
         pc # "await" \/ s = new_child_PID_Index, pc' # "await"
  PROVE  Tracked'
<1> DEFINE pid == child_PID_tracker[s].pid
<1>1. Tracked /\ new_child_PID_Index \in Nat
  BY TableAssumption DEF ShellInv, Shape, TypeOK
<1>2. /\ Children' = Children \ {pid}
      /\ \A p \in DOMAIN kernel' : p \in DOMAIN kernel /\ kernel'[p] = kernel[p]
      /\ \A n \in Slots :
           /\ child_PID_tracker'[n].status \in Unfinished <=> (n # s /\ Has(n, Unfinished))
           /\ child_PID_tracker'[n].pid = child_PID_tracker[n].pid
           /\ n # s => child_PID_tracker'[n] = child_PID_tracker[n]
  BY Reaping, Zenon
<1>3. \A p \in Children' : p \in DOMAIN kernel' /\ kernel'[p].owner \in Slots
  <2>1. kernel' \in [DOMAIN kernel' -> Processes]
    BY Reaping, Zenon
  <2> QED BY <2>1 DEF Children, Processes
<1>4. \A n \in Slots : child_PID_tracker'[n].status \in Unfinished =>
       /\ child_PID_tracker[n].pid \in Children \ {pid}
       /\ child_PID_tracker[n].pid \in DOMAIN kernel'
       /\ kernel'[child_PID_tracker[n].pid].owner = n
       /\ n < new_child_PID_Index'
  <2> SUFFICES ASSUME NEW n \in Slots, child_PID_tracker'[n].status \in Unfinished
               PROVE  /\ child_PID_tracker[n].pid \in Children \ {pid}
                      /\ child_PID_tracker[n].pid \in DOMAIN kernel'
                      /\ kernel'[child_PID_tracker[n].pid].owner = n
                      /\ n < new_child_PID_Index'
    OBVIOUS
  <2>1. n # s /\ Has(n, Unfinished) /\ n \in Nat
    BY <1>2 DEF Slots
  <2>2. /\ child_PID_tracker[n].pid \in Children
        /\ kernel[child_PID_tracker[n].pid].owner = n
        /\ n < new_child_PID_Index
    BY <1>1, <2>1 DEF Tracked
  <2>3. child_PID_tracker[n].pid # pid
    BY <1>1, <2>1, <2>2 DEF Tracked
  <2>4. child_PID_tracker[n].pid \in DOMAIN kernel'
    BY <2>2, <2>3 DEF Children, Reaped
  <2> QED BY <1>1, <1>2, <2>1, <2>2, <2>3, <2>4
<1>5. \A p \in Children' : /\ child_PID_tracker'[kernel'[p].owner].status \in Unfinished
                           /\ child_PID_tracker'[kernel'[p].owner].pid = p
  BY <1>1, <1>2, <1>3 DEF Tracked
<1> QED BY <1>2, <1>4, <1>5 DEF Tracked, Has

(* What a signal to the child of an entry does to the table and the kernel.    *)
LEMMA Killing ==
  ASSUME ShellInv, NEW s \in Slots, Has(s, Unfinished),
         Signal(child_PID_tracker[s].pid), Status(s, TERMINATING_FORK)
  PROVE  /\ child_PID_tracker' \in
              [Slots -> [pid : Pids \cup {-1, 0}, status : Codes \cup Unfinished]]
         /\ DOMAIN kernel' = DOMAIN kernel /\ kernel' \in [DOMAIN kernel' -> Processes]
         /\ Children' = Children
         /\ \A p \in DOMAIN kernel :
              /\ kernel'[p].owner = kernel[p].owner /\ kernel'[p].raw = kernel[p].raw
              /\ kernel'[p].term <=> (kernel[p].term \/ p = child_PID_tracker[s].pid)
         /\ \A n \in Slots :
              /\ child_PID_tracker'[n].status \in Unfinished <=> Has(n, Unfinished)
              /\ child_PID_tracker'[n].pid = child_PID_tracker[n].pid
              /\ n # s => child_PID_tracker'[n] = child_PID_tracker[n]
<1> DEFINE pid == child_PID_tracker[s].pid
           Entries == [pid : Pids \cup {-1, 0}, status : Codes \cup Unfinished]
<1>1. child_PID_tracker \in [Slots -> Entries]
      /\ kernel \in [DOMAIN kernel -> Processes]
  BY DEF ShellInv, Shape, TypeOK
<1>2. TERMINATING_FORK \in Unfinished
  BY DEF Unfinished
<1>3. child_PID_tracker' = [child_PID_tracker EXCEPT ![s].status = TERMINATING_FORK]
  BY DEF Status
<1>4. child_PID_tracker' \in [Slots -> Entries]
  BY <1>1, <1>2, <1>3
<1>5. \A n \in Slots :
        /\ child_PID_tracker'[n].status \in Unfinished <=> Has(n, Unfinished)
        /\ child_PID_tracker'[n].pid = child_PID_tracker[n].pid
        /\ n # s => child_PID_tracker'[n] = child_PID_tracker[n]
  BY <1>1, <1>2, <1>3 DEF Has
<1>6. Targets(pid) = {pid}
  BY EntryOfChild
<1>7. kernel' = [q \in DOMAIN kernel |-> [kernel[q] EXCEPT !.term = @ \/ q \in {pid}]]
  BY <1>6 DEF Signal
<1>8. /\ DOMAIN kernel' = DOMAIN kernel
      /\ \A p \in DOMAIN kernel :
           /\ kernel'[p] \in Processes
           /\ kernel'[p].owner = kernel[p].owner /\ kernel'[p].raw = kernel[p].raw
           /\ kernel'[p].term <=> (kernel[p].term \/ p = pid)
  <2> HIDE DEF pid
  <2> SUFFICES ASSUME NEW p \in DOMAIN kernel
               PROVE  /\ DOMAIN kernel' = DOMAIN kernel
                      /\ kernel'[p] \in Processes
                      /\ kernel'[p].owner = kernel[p].owner /\ kernel'[p].raw = kernel[p].raw
                      /\ kernel'[p].term <=> (kernel[p].term \/ p = pid)
    BY <1>7
  <2>1. kernel[p] \in Processes
    BY <1>1
  <2>2. kernel'[p] = [kernel[p] EXCEPT !.term = @ \/ p \in {pid}]
    BY <1>7
  <2> QED BY <1>7, <2>1, <2>2 DEF Processes
<1>9. kernel' \in [DOMAIN kernel' -> Processes]
  BY <1>7, <1>8
<1>10. Children' = Children
  BY <1>8 DEF Children
<1> HIDE DEF Entries
<1>11. child_PID_tracker' \in [Slots -> [pid : Pids \cup {-1, 0}, status : Codes \cup Unfinished]]
  BY <1>4 DEF Entries
<1> QED BY <1>5, <1>8, <1>9, <1>10, <1>11, Zenon

(* Steps that end no child and start none keep the entries right.              *)
LEMMA TrackedStays ==
  ASSUME ShellInv, Children' = Children,
         \A p \in Children : kernel'[p].owner = kernel[p].owner,
         \A n \in Slots :
           /\ child_PID_tracker'[n].status \in Unfinished <=> Has(n, Unfinished)
           /\ child_PID_tracker'[n].pid = child_PID_tracker[n].pid,
         new_child_PID_Index' = new_child_PID_Index,
         \/ pc # "await" /\ pc' # "await"
         \/ pc' = pc /\ child_PID_tracker' = child_PID_tracker
  PROVE  Tracked'
<1>1. Tracked
  BY DEF ShellInv
<1>2. \A p \in Children : kernel[p].owner \in Slots
  BY DEF ShellInv, Shape, Children, Processes
<1>3. \A n \in Slots : child_PID_tracker'[n].status \in Unfinished =>
        /\ child_PID_tracker'[n].pid \in Children'
        /\ kernel'[child_PID_tracker'[n].pid].owner = n
        /\ n < new_child_PID_Index' \/ (n = new_child_PID_Index' /\ pc' = "await")
  BY <1>1 DEF Tracked
<1>4. \A p \in Children' : /\ child_PID_tracker'[kernel'[p].owner].status \in Unfinished
                           /\ child_PID_tracker'[kernel'[p].owner].pid = p
  BY <1>1, <1>2 DEF Tracked
<1>5. pc' = "await" =>
        /\ new_child_PID_Index' \in Slots
        /\ child_PID_tracker'[new_child_PID_Index'].status \in {INCOMPLETE_FORK}
  BY <1>1 DEF Tracked, Has
<1> QED BY <1>3, <1>4, <1>5 DEF Tracked, Has

(* A step of the shell that leaves the table and the kernel alone.             *)
LEMMA TrackedUntouched ==
  ASSUME ShellInv, UNCHANGED <<table, kernel>>,
         \/ pc # "await" /\ pc' # "await"
         \/ pc' = pc
  PROVE  Tracked'
<1>1. UNCHANGED <<child_PID_tracker, new_child_PID_Index, kernel>>
  BY DEF table
<1>2. Children' = Children
  BY <1>1 DEF Children
<1> QED BY <1>1, <1>2, TrackedStays DEF Has

LEMMA ShapeOfIdle ==
  ASSUME ShellInv, UNCHANGED <<table, kernel>>, i' = 0,
         target' \in Pids \cup {0},
         pc' \in {"prompt", "command", "judge", "info", "wait", "terminate", "quit",
                 "goodbye", "shutdown"}
  PROVE  Shape'
<1>1. UNCHANGED <<child_PID_tracker, new_child_PID_Index, kernel>>
  BY DEF table
<1>2. 0 \in 0..MAX_PROCESSES
  BY TableAssumption
<1>3. TypeOK'
  BY <1>1, <1>2 DEF ShellInv, Shape, TypeOK
<1> QED BY <1>1, <1>3 DEF ShellInv, Shape, Processes

-----------------------------------------------------------------------------
(* The steps                                                                   *)

LEMMA ReadLineInv ==
  ASSUME ShellInv, NEW t \in Lines, ReadLine(t)
  PROVE  ShellInv'
<1>1. /\ pc = "prompt" /\ Room(t) /\ UNCHANGED <<table, target, kernel>> /\ i' = 0
      /\ cmd' = Head(Line(t)) /\ rest' = Tail(Line(t))
      /\ chained' = (check_command(t) = 6)
      /\ pc' \in {"quit", "command"} /\ outcome' = "none"
  BY DEF ReadLine, Goto
<1>2. Shape'
  BY <1>1, ShapeOfIdle DEF ShellInv, Shape
<1>3. Tracked'
  BY <1>1, TrackedUntouched
<1>4. LineInv'
  <2>1. CASE check_command(t) = 6
    <3>1. Line(t) \in Seq(Chains) /\ Line(t) # <<>>
      BY <2>1, LineIsCommands
    <3>2. Head(Line(t)) \in Chains /\ Tail(Line(t)) \in Seq(Chains)
      BY <3>1, HeadTailProperties
    <3> QED BY <1>1, <2>1, <3>2 DEF LineInv
  <2>2. CASE check_command(t) # 6
    <3>1. Line(t) \in Seq({t}) /\ Line(t) # <<>> /\ Len(Line(t)) = 1
      <4>1. Line(t) = <<t>>
        BY <2>2, LineIsCommands
      <4> QED BY <4>1
    <3>2. Tail(Line(t)) \in Seq({t}) /\ Len(Tail(Line(t))) = 0
      BY <3>1, HeadTailProperties
    <3>3. Tail(Line(t)) = <<>>
      BY <3>2, EmptySeq
    <3>4. chained' = FALSE /\ rest' = <<>> /\ pc' # "judge"
      BY <1>1, <2>2, <3>3
    <3> QED BY <3>4, EmptySeq DEF LineInv
  <2> QED BY <2>1, <2>2
<1>5. RoomInv'
  <2>1. Line(t) # <<>> /\ Line(t) \in Seq(ToSet(Line(t)))
    BY LineIsCommands
  <2>2. Tail(Line(t)) \in Seq(ToSet(Line(t)))
    BY <2>1, HeadTailProperties
  <2>3. Cardinality(Running(Tail(Line(t)))) \in Nat
    BY <2>2, RunningFinite
  <2>4. Cardinality(Running(Tail(Line(t)))) + (IF Runs(Head(Line(t))) THEN 1 ELSE 0)
          = Cardinality(Running(Line(t)))
    BY <2>1, RunningTail
  <2>5. /\ new_child_PID_Index + Cardinality(Running(Line(t))) <= MAX_PROCESSES
        /\ new_child_PID_Index \in Nat /\ new_child_PID_Index' = new_child_PID_Index
    BY <1>1, TableAssumption DEF Room, ShellInv, Shape, TypeOK, table
  <2>6. RoomInv' <=>
          new_child_PID_Index + Cardinality(Running(Tail(Line(t))))
            + (IF pc' = "command" /\ Runs(Head(Line(t))) THEN 1 ELSE 0) <= MAX_PROCESSES
    BY <1>1, <2>5 DEF RoomInv
  <2> HIDE DEF RoomInv
  <2> QED BY <2>3, <2>4, <2>5, <2>6, TableAssumption
<1>6. QuitInv'
  BY <1>1, TableAssumption DEF QuitInv
<1>7. ChainsRun => ChainInv'
  BY <1>1 DEF ShellInv, ChainInv, Children
<1> QED BY <1>2, <1>3, <1>4, <1>5, <1>6, <1>7 DEF ShellInv, ChainsRun

LEMMA EndOfFileInv ==
  ASSUME ShellInv, EndOfFile
  PROVE  ShellInv'
<1>1. /\ pc = "prompt" /\ UNCHANGED <<table, cmd, rest, chained, target, kernel, outcome>>
      /\ pc' = "shutdown" /\ i' = 0
  BY DEF EndOfFile, Goto, input
<1>2. Shape'
  BY <1>1, ShapeOfIdle DEF ShellInv, Shape
<1>3. Tracked'
  BY <1>1, TrackedUntouched
<1>4. LineInv' /\ RoomInv' /\ QuitInv'
  BY <1>1 DEF ShellInv, LineInv, RoomInv, QuitInv, table
<1>5. ChainsRun => ChainInv'
  BY <1>1 DEF ShellInv, ChainInv, Children
<1> QED BY <1>2, <1>3, <1>4, <1>5 DEF ShellInv, ChainsRun

LEMMA DispatchInv ==
  ASSUME ShellInv, Dispatch
  PROVE  ShellInv'
<1>1. /\ pc = "command" /\ UNCHANGED <<table, cmd, rest, chained, kernel>> /\ i' = 0
      /\ pc' \in {"prompt", "info", "wait", "terminate", "judge"}
      /\ pc' = "judge" => MissingInput(cmd) /\ chained
      /\ pc' \in {"info", "wait", "terminate"} => outcome' = "none"
      /\ target' \in Pids \cup {0}
  BY DEF Dispatch, Goto, Return, MissingInput
<1>2. Shape'
  BY <1>1, ShapeOfIdle
<1>3. Tracked'
  BY <1>1, TrackedUntouched
<1>4. LineInv'
  BY <1>1 DEF ShellInv, LineInv
<1>5. RoomInv'
  <2>1. Cardinality(Running(rest)) \in Nat /\ new_child_PID_Index \in Nat
    BY RunningFinite, TableAssumption DEF ShellInv, LineInv, Shape, TypeOK
  <2> QED BY <1>1, <2>1, TableAssumption DEF ShellInv, RoomInv, table
<1>6. QuitInv'
  BY <1>1 DEF QuitInv
<1>7. ChainsRun => ChainInv'
  <2>1. ChainsRun => pc' # "judge"
    BY <1>1 DEF ShellInv, LineInv, ChainsRun
  <2> QED BY <1>1, <2>1 DEF ShellInv, ChainInv, Children
<1> QED BY <1>2, <1>3, <1>4, <1>5, <1>6, <1>7 DEF ShellInv, ChainsRun

LEMMA JudgeInv ==
  ASSUME ShellInv, Judge
  PROVE  ShellInv'
<1>1. /\ pc = "judge" /\ UNCHANGED <<table, kernel, outcome, target, chained>> /\ i' = 0
      /\ \/ pc' = "prompt" /\ UNCHANGED <<cmd, rest>>
         \/ /\ pc' = "command" /\ rest # <<>>
            /\ cmd' = Head(rest) /\ rest' = Tail(rest)
  BY DEF Judge, Goto, input
<1>2. Shape'
  BY <1>1, ShapeOfIdle DEF ShellInv, Shape
<1>3. Tracked'
  BY <1>1, TrackedUntouched
<1>4. rest \in Seq(Chains) /\ chained
  BY <1>1 DEF ShellInv, LineInv
<1>5. Cardinality(Running(rest)) \in Nat /\ new_child_PID_Index \in Nat
  BY <1>4, RunningFinite, TableAssumption DEF ShellInv, Shape, TypeOK
<1>6. rest # <<>> =>
        /\ Head(rest) \in Chains /\ Tail(rest) \in Seq(Chains)
        /\ Cardinality(Running(Tail(rest))) \in Nat
        /\ Cardinality(Running(Tail(rest))) + (IF Runs(Head(rest)) THEN 1 ELSE 0)
             = Cardinality(Running(rest))
  BY <1>4, HeadTailProperties, RunningTail, RunningFinite
<1>7. LineInv'
  BY <1>1, <1>4, <1>6 DEF ShellInv, LineInv
<1>8. RoomInv'
  <2>1. new_child_PID_Index + Cardinality(Running(rest)) <= MAX_PROCESSES
    BY <1>1, <1>5 DEF ShellInv, RoomInv
  <2>2. new_child_PID_Index' = new_child_PID_Index
    BY <1>1 DEF table
  <2>3. CASE pc' = "prompt" /\ UNCHANGED <<cmd, rest>>
    BY <1>5, <2>1, <2>2, <2>3 DEF RoomInv
  <2>4. CASE pc' = "command" /\ rest # <<>> /\ cmd' = Head(rest) /\ rest' = Tail(rest)
    <3>1. RoomInv' <=>
            new_child_PID_Index + Cardinality(Running(Tail(rest)))
              + (IF Runs(Head(rest)) THEN 1 ELSE 0) <= MAX_PROCESSES
      BY <2>2, <2>4 DEF RoomInv
    <3> QED BY <1>5, <1>6, <2>1, <2>4, <3>1, TableAssumption
  <2> QED BY <1>1, <2>3, <2>4
<1>9. QuitInv'
  BY <1>1 DEF QuitInv
<1>10. ChainsRun => ChainInv'
  BY <1>1 DEF ShellInv, ChainInv, Children
<1> QED BY <1>2, <1>3, <1>7, <1>8, <1>9, <1>10 DEF ShellInv, ChainsRun

(* fork: the entry after the last one is that of the new child.                *)
LEMMA ForkInv ==
  ASSUME ShellInv, ForksSucceed, NEW pid \in ForkResults, Fork(pid)
  PROVE  ShellInv'
<1> DEFINE s == new_child_PID_Index
           Entries == [pid : Pids \cup {-1, 0}, status : Codes \cup Unfinished]
<1>1. /\ pc = "command" /\ Runs(cmd)
      /\ kernel' = IF pid = -1 THEN kernel ELSE Started(pid, s)
      /\ child_PID_tracker' = [child_PID_tracker EXCEPT
           ![s] = [pid |-> pid, status |-> INCOMPLETE_FORK]]
      /\ \/ /\ pc' = Return /\ s' = s + 1 /\ outcome' = "background"
         \/ pc' = "await" /\ s' = s /\ outcome' = "none"
      /\ i' = 0 /\ UNCHANGED <<cmd, rest, chained, target>>
  BY DEF Fork, Goto, input
<1>2. pid \in Pids /\ pid \notin DOMAIN kernel /\ pid # -1
  BY PidsAssumption DEF ForksSucceed, ForkResults
<1>3. /\ child_PID_tracker \in [Slots -> Entries] /\ DOMAIN kernel \subseteq Pids
      /\ kernel \in [DOMAIN kernel -> Processes]
      /\ target \in Pids \cup {0} /\ s \in Nat
  BY TableAssumption DEF ShellInv, Shape, TypeOK
<1>4. Cardinality(Running(rest)) \in Nat
      /\ s + 1 + Cardinality(Running(rest)) <= MAX_PROCESSES
  <2>1. Cardinality(Running(rest)) \in Nat
    BY RunningFinite DEF ShellInv, LineInv
  <2> QED BY <1>1, <1>3, <2>1 DEF ShellInv, RoomInv
<1>5. s \in Slots /\ s + 1 \in 0..MAX_PROCESSES
  BY <1>3, <1>4, TableAssumption DEF Slots
<1>6. INCOMPLETE_FORK \in Unfinished /\ INCOMPLETE_FORK \notin Codes /\ INCOMPLETE_FORK # 0
  BY CodesAssumption DEF Unfinished, INCOMPLETE_FORK
<1>7. /\ child_PID_tracker' \in [Slots -> Entries]
      /\ child_PID_tracker'[s].pid = pid /\ child_PID_tracker'[s].status = INCOMPLETE_FORK
      /\ \A n \in Slots : n # s => child_PID_tracker'[n] = child_PID_tracker[n]
  <2>1. [pid |-> pid, status |-> INCOMPLETE_FORK] \in Entries
    BY <1>2, <1>6
  <2> HIDE DEF Entries
  <2> QED BY <1>1, <1>3, <1>5, <2>1
<1>8. Process(s) \in Processes /\ Process(s).owner = s
      /\ Process(s).raw = 0 /\ Process(s).term = FALSE
  BY <1>5, CodesAssumption DEF Process, Processes
<1>9. /\ DOMAIN kernel' = DOMAIN kernel \cup {pid}
      /\ kernel'[pid] = Process(s)
      /\ \A p \in DOMAIN kernel : kernel'[p] = kernel[p]
      /\ kernel' \in [DOMAIN kernel' -> Processes]
  <2>1. kernel' = [q \in DOMAIN kernel \cup {pid} |->
                     IF q = pid THEN Process(s) ELSE kernel[q]]
    BY <1>1, <1>2 DEF Started
  <2> QED BY <1>2, <1>3, <1>8, <2>1
<1>10. Children' = Children \cup {pid}
  <2>1. Process(s).owner # Other
    BY <1>5, <1>8, PidsAssumption DEF Slots
  <2> QED BY <1>2, <1>9, <2>1 DEF Children
<1>11. pc' \in {"judge", "prompt", "await"} /\ (pc' = "judge" => chained)
  BY <1>1 DEF Return
<1>12. Shape'
  <2>1. child_PID_tracker' \in [Slots -> [pid : Pids \cup {-1, 0}, status : Codes \cup Unfinished]]
    BY <1>7
  <2>2. s' \in 0..MAX_PROCESSES
    BY <1>1, <1>5, TableAssumption DEF Slots
  <2>3. i' \in 0..MAX_PROCESSES
    BY <1>1, TableAssumption
  <2>4. TypeOK'
    BY <1>2, <1>3, <1>9, <2>1, <2>2, <2>3 DEF TypeOK
  <2>5. kernel' \in [DOMAIN kernel' -> Processes']
    BY <1>9 DEF Processes
  <2> QED BY <1>1, <1>3, <1>11, <2>4, <2>5 DEF Shape
<1>13. Tracked'
  <2>1. Tracked
    BY DEF ShellInv
  <2>2. ~Has(s, Unfinished)
    BY <1>1, <1>3, <1>5, <2>1 DEF Tracked
  <2>3. \A n \in Slots : child_PID_tracker'[n].status \in Unfinished =>
          /\ child_PID_tracker'[n].pid \in Children'
          /\ kernel'[child_PID_tracker'[n].pid].owner = n
          /\ n < s' \/ (n = s' /\ pc' = "await")
    <3> SUFFICES ASSUME NEW n \in Slots, child_PID_tracker'[n].status \in Unfinished
                 PROVE  /\ child_PID_tracker'[n].pid \in Children'
                        /\ kernel'[child_PID_tracker'[n].pid].owner = n
                        /\ n < s' \/ (n = s' /\ pc' = "await")
      OBVIOUS
    <3>1. CASE n = s
      BY <1>1, <1>3, <1>7, <1>8, <1>9, <1>10, <3>1
    <3>2. CASE n # s
      <4>1. child_PID_tracker'[n] = child_PID_tracker[n] /\ Has(n, Unfinished)
        BY <1>7, <3>2 DEF Has
      <4>2. /\ child_PID_tracker[n].pid \in Children
            /\ kernel[child_PID_tracker[n].pid].owner = n
            /\ n < s
        BY <1>1, <2>1, <4>1 DEF Tracked
      <4>3. n \in Nat
        BY DEF Slots
      <4> QED BY <1>1, <1>3, <1>9, <1>10, <4>1, <4>2, <4>3 DEF Children
    <3> QED BY <3>1, <3>2
  <2>4. \A p \in Children' : /\ child_PID_tracker'[kernel'[p].owner].status \in Unfinished
                             /\ child_PID_tracker'[kernel'[p].owner].pid = p
    <3> SUFFICES ASSUME NEW p \in Children'
                 PROVE  /\ child_PID_tracker'[kernel'[p].owner].status \in Unfinished
                        /\ child_PID_tracker'[kernel'[p].owner].pid = p
      OBVIOUS
    <3>1. CASE p = pid
      BY <1>6, <1>7, <1>8, <1>9, <3>1
    <3>2. CASE p # pid
      <4>1. p \in Children /\ kernel'[p] = kernel[p]
        BY <1>9, <1>10, <3>2 DEF Children
      <4>2. kernel[p].owner \in Slots
        BY <1>3, <4>1 DEF Children, Processes
      <4>3. Has(kernel[p].owner, Unfinished) /\ child_PID_tracker[kernel[p].owner].pid = p
        BY <2>1, <4>1 DEF Tracked
      <4>4. kernel[p].owner # s
        BY <2>2, <4>3
      <4> QED BY <1>7, <4>1, <4>2, <4>3, <4>4 DEF Has
    <3> QED BY <3>1, <3>2
  <2>5. pc' = "await" => /\ s' \in Slots
                         /\ child_PID_tracker'[s'].status \in {INCOMPLETE_FORK}
    BY <1>1, <1>5, <1>7, <1>11 DEF Return
  <2> QED BY <2>3, <2>4, <2>5 DEF Tracked, Has
<1>14. LineInv'
  BY <1>1, <1>11 DEF ShellInv, LineInv
<1>15. RoomInv'
  BY <1>1, <1>3, <1>4, <1>11, TableAssumption DEF RoomInv, Return
<1>16. QuitInv'
  BY <1>11 DEF QuitInv
<1>17. ChainsRun => ChainInv'
  <2> SUFFICES ASSUME ChainsRun
               PROVE  ChainInv'
    OBVIOUS
  <2>1. \A p \in Children' : kernel'[p].raw = SIGNALLED => kernel'[p].term
    BY <1>8, <1>9, <1>10 DEF ShellInv, ChainInv, Children, SIGNALLED
  <2>2. pc' = "await" => ~kernel'[child_PID_tracker'[s'].pid].term
    BY <1>1, <1>7, <1>8, <1>9, <1>11 DEF Return
  <2>3. pc' = "judge" => s' > 0 /\ child_PID_tracker'[s' - 1].status # 0
    BY <1>1, <1>3, <1>6, <1>7
  <2> QED BY <1>11, <2>1, <2>2, <2>3 DEF ChainInv
<1> QED BY <1>12, <1>13, <1>14, <1>15, <1>16, <1>17 DEF ShellInv, ChainsRun

(* The wait for a program in the foreground.                                   *)
LEMMA AwaitInv ==
  ASSUME ShellInv, Await
  PROVE  ShellInv'
<1> DEFINE s == new_child_PID_Index
           pid == child_PID_tracker[s].pid
           code == WEXITSTATUS(kernel[pid].raw)
<1>1. /\ pc = "await" /\ waitpid(pid, LAMBDA c : Status(s, c))
      /\ s' = s + 1 /\ pc' = Return /\ i' = 0
      /\ outcome' = IF pid \in DOMAIN kernel /\ kernel[pid].raw = 0 THEN "exit0"
                    ELSE "failed"
      /\ UNCHANGED <<cmd, rest, chained, target>>
  BY DEF Await, Goto, input
<1>2. s \in Slots /\ Has(s, Unfinished) /\ s \in Nat
  BY <1>1, TableAssumption DEF ShellInv, Tracked, Has, Unfinished, Slots
<1>3. /\ kernel' = Reaped(pid)
      /\ child_PID_tracker' = [child_PID_tracker EXCEPT ![s].status = code]
      /\ code \in Codes
  BY <1>1, <1>2, Waited
<1>4. pc' \in {"judge", "prompt"} /\ (pc' = "judge" => chained)
  BY <1>1 DEF Return
<1>5. /\ child_PID_tracker' \in
           [Slots -> [pid : Pids \cup {-1, 0}, status : Codes \cup Unfinished]]
      /\ DOMAIN kernel' \subseteq Pids /\ kernel' \in [DOMAIN kernel' -> Processes]
      /\ Children' = Children \ {pid}
      /\ \A p \in DOMAIN kernel' : p \in DOMAIN kernel /\ kernel'[p] = kernel[p]
      /\ child_PID_tracker'[s].status = code
  BY <1>2, <1>3, Reaping
<1>6. Shape'
  <2>1. s' \in 0..MAX_PROCESSES /\ i' \in 0..MAX_PROCESSES
    BY <1>1, <1>2, TableAssumption DEF Slots
  <2>2. TypeOK'
    BY <1>5, <2>1 DEF TypeOK
  <2>3. kernel' \in [DOMAIN kernel' -> Processes']
    BY <1>5 DEF Processes
  <2>4. target' \in Pids \cup {0}
    BY <1>1 DEF ShellInv, Shape
  <2> QED BY <1>4, <2>2, <2>3, <2>4 DEF Shape
<1>7. Tracked'
  <2>1. s' \in Nat /\ s' >= s /\ pc' # "await"
    BY <1>1, <1>2, <1>4
  <2> QED BY <1>2, <1>3, <2>1, ReapingKeepsTracked
<1>8. LineInv'
  BY <1>1, <1>4 DEF ShellInv, LineInv
<1>9. RoomInv'
  <2>1. Cardinality(Running(rest)) \in Nat
    BY RunningFinite DEF ShellInv, LineInv
  <2> QED BY <1>1, <1>2, <1>4, <2>1 DEF ShellInv, RoomInv
<1>10. QuitInv'
  BY <1>4 DEF QuitInv
<1>11. ChainsRun => ChainInv'
  <2> SUFFICES ASSUME ChainsRun
               PROVE  ChainInv'
    OBVIOUS
  <2>1. pid \in Children /\ kernel[pid] \in Processes /\ pid \in DOMAIN kernel
    BY <1>2, EntryOfChild DEF Children
  <2>2. kernel[pid].raw # SIGNALLED
    BY <1>1, <2>1 DEF ShellInv, ChainInv
  <2>3. outcome' # "exit0" => code # 0
    BY <1>1, <2>1, <2>2 DEF WEXITSTATUS
  <2>4. outcome' # "exit0" => s' > 0 /\ child_PID_tracker'[s' - 1].status # 0
    <3>1. s' > 0 /\ s' - 1 = s
      BY <1>1, <1>2
    <3> QED BY <1>5, <2>3, <3>1
  <2>5. \A p \in Children' : kernel'[p].raw = SIGNALLED => kernel'[p].term
    BY <1>5 DEF ShellInv, ChainInv, Children
  <2> QED BY <1>4, <2>4, <2>5 DEF ChainInv
<1> QED BY <1>6, <1>7, <1>8, <1>9, <1>10, <1>11 DEF ShellInv, ChainsRun

-----------------------------------------------------------------------------
(* The loops over the table                                                    *)

(* What a loop looks for are entries of the table from i on, and an entry that *)
(* it passes over is not one of them.                                          *)
LEMMA LoopSlots ==
  ASSUME ShellInv
  PROVE  /\ i..MAX_PROCESSES-1 \subseteq Slots
         /\ \A s \in Slots : s \in i..MAX_PROCESSES-1 \/ s \in 0..i-1
  BY TableAssumption DEF ShellInv, Shape, TypeOK, Slots

(* A turn of a loop that has waited for the child of an entry.                 *)
LEMMA TurnThatWaits ==
  ASSUME ShellInv, NEW s \in Slots, Has(s, Unfinished), Wait(s),
         pc \in {"info", "wait", "quit"},
         UNCHANGED <<new_child_PID_Index, input, outcome>>,
         pc = "quit" => \A n \in 0..s-1 : ~Has(n, Unfinished)
  PROVE  ShellInv'
<1> DEFINE pid == child_PID_tracker[s].pid
           code == WEXITSTATUS(kernel[pid].raw)
<1>1. /\ UNCHANGED <<new_child_PID_Index, cmd, rest, chained, target, outcome, pc>>
      /\ waitpid(pid, LAMBDA c : Status(s, c)) /\ i' = s + 1
  BY DEF Wait, Resume, input
<1>2. /\ kernel' = Reaped(pid)
      /\ child_PID_tracker' = [child_PID_tracker EXCEPT ![s].status = code]
      /\ code \in Codes
  BY <1>1, Waited
<1>3. /\ child_PID_tracker' \in
           [Slots -> [pid : Pids \cup {-1, 0}, status : Codes \cup Unfinished]]
      /\ DOMAIN kernel' \subseteq Pids /\ kernel' \in [DOMAIN kernel' -> Processes]
      /\ Children' = Children \ {pid}
      /\ \A p \in DOMAIN kernel' : p \in DOMAIN kernel /\ kernel'[p] = kernel[p]
      /\ \A n \in Slots :
           /\ child_PID_tracker'[n].status \in Unfinished <=> (n # s /\ Has(n, Unfinished))
           /\ child_PID_tracker'[n].pid = child_PID_tracker[n].pid
           /\ n # s => child_PID_tracker'[n] = child_PID_tracker[n]
      /\ child_PID_tracker'[s].status = code
  BY <1>2, Reaping, ZenonT(60)
<1>4. s \in Nat /\ s + 1 \in 0..MAX_PROCESSES
      /\ new_child_PID_Index \in 0..MAX_PROCESSES /\ new_child_PID_Index \in Nat
  BY TableAssumption DEF Slots, ShellInv, Shape, TypeOK
<1>5. Shape'
  <2>1. TypeOK'
    BY <1>1, <1>3, <1>4 DEF TypeOK
  <2>2. kernel' \in [DOMAIN kernel' -> Processes']
    BY <1>3 DEF Processes
  <2> QED BY <1>1, <2>1, <2>2 DEF ShellInv, Shape
<1>6. Tracked'
  <2>1. /\ new_child_PID_Index' \in Nat /\ new_child_PID_Index' >= new_child_PID_Index
        /\ pc # "await" /\ pc' # "await"
    BY <1>1, <1>4
  <2> QED BY <1>2, <2>1, ReapingKeepsTracked
<1>7. LineInv' /\ RoomInv'
  BY <1>1 DEF ShellInv, LineInv, RoomInv
<1>8. QuitInv'
  <2>1. pc' # "goodbye"
    BY <1>1
  <2>2. ASSUME pc' = "quit", NEW n \in 0..s
        PROVE  child_PID_tracker'[n].status \notin Unfinished
    <3>1. n \in Slots /\ n \in Nat
      BY <1>4, TableAssumption DEF Slots
    <3>2. n # s => ~Has(n, Unfinished)
      BY <1>1, <1>4, <2>2, <3>1
    <3> QED BY <1>3, <3>1, <3>2
  <2>3. 0..i'-1 = 0..s
    BY <1>1, <1>4
  <2> QED BY <2>1, <2>2, <2>3 DEF QuitInv, Has
<1>9. ChainsRun => ChainInv'
  <2> SUFFICES ASSUME ChainsRun
               PROVE  ChainInv'
    OBVIOUS
  <2>1. \A p \in Children' : kernel'[p].raw = SIGNALLED => kernel'[p].term
    BY <1>3 DEF ShellInv, ChainInv, Children
  <2> QED BY <1>1, <2>1 DEF ShellInv, ChainInv
<1> QED BY <1>5, <1>6, <1>7, <1>8, <1>9 DEF ShellInv, ChainsRun

(* A turn that has signalled the child of an entry.                            *)
LEMMA TurnThatKills ==
  ASSUME ShellInv, NEW s \in Slots, Has(s, Unfinished), NEW next \in 0..MAX_PROCESSES,
         Kill(s, next), pc \in {"terminate", "quit"},
         UNCHANGED <<new_child_PID_Index, input, outcome>>,
         pc = "quit" => \A n \in 0..next-1 : n \in Slots /\ ~Has(n, Unfinished)
  PROVE  ShellInv'
<1> DEFINE pid == child_PID_tracker[s].pid
<1>1. Targets(pid) # {}
  BY EntryOfChild
<1>2. /\ UNCHANGED <<new_child_PID_Index, cmd, rest, chained, target, outcome, pc>>
      /\ Signal(pid) /\ Status(s, TERMINATING_FORK) /\ i' = next
  BY <1>1 DEF Kill, Resume, input
<1>3. /\ child_PID_tracker' \in
           [Slots -> [pid : Pids \cup {-1, 0}, status : Codes \cup Unfinished]]
      /\ DOMAIN kernel' = DOMAIN kernel /\ kernel' \in [DOMAIN kernel' -> Processes]
      /\ Children' = Children
      /\ \A p \in DOMAIN kernel :
           /\ kernel'[p].owner = kernel[p].owner /\ kernel'[p].raw = kernel[p].raw
           /\ kernel'[p].term <=> (kernel[p].term \/ p = pid)
      /\ \A n \in Slots :
           /\ child_PID_tracker'[n].status \in Unfinished <=> Has(n, Unfinished)
           /\ child_PID_tracker'[n].pid = child_PID_tracker[n].pid
           /\ n # s => child_PID_tracker'[n] = child_PID_tracker[n]
  BY <1>2, Killing
<1>4. Shape'
  <2>1. TypeOK'
    BY <1>2, <1>3 DEF ShellInv, Shape, TypeOK
  <2>2. kernel' \in [DOMAIN kernel' -> Processes']
    BY <1>3 DEF Processes
  <2> QED BY <1>2, <2>1, <2>2 DEF ShellInv, Shape
<1>5. Tracked'
  <2>1. \A p \in Children : kernel'[p].owner = kernel[p].owner
    BY <1>3 DEF Children
  <2>2. pc # "await" /\ pc' # "await"
    BY <1>2
  <2>3. \A n \in Slots :
          /\ child_PID_tracker'[n].status \in Unfinished <=> Has(n, Unfinished)
          /\ child_PID_tracker'[n].pid = child_PID_tracker[n].pid
    BY <1>3
  <2> QED BY <1>2, <1>3, <2>1, <2>2, <2>3, TrackedStays
<1>6. LineInv' /\ RoomInv'
  BY <1>2 DEF ShellInv, LineInv, RoomInv
<1>7. QuitInv'
  BY <1>2, <1>3 DEF QuitInv, Has
<1>8. ChainsRun => ChainInv'
  <2> SUFFICES ASSUME ChainsRun
               PROVE  ChainInv'
    OBVIOUS
  <2>1. \A p \in Children' : kernel'[p].raw = SIGNALLED => kernel'[p].term
    BY <1>3 DEF ShellInv, ChainInv, Children
  <2> QED BY <1>2, <2>1 DEF ShellInv, ChainInv
<1> QED BY <1>4, <1>5, <1>6, <1>7, <1>8 DEF ShellInv, ChainsRun

(* A turn of info that finds a running child and leaves it alone.              *)
LEMMA TurnThatSkips ==
  ASSUME ShellInv, NEW s \in Slots, Resume(s + 1), pc = "info",
         UNCHANGED <<table, kernel, input, outcome>>
  PROVE  ShellInv'
<1>1. /\ UNCHANGED <<child_PID_tracker, new_child_PID_Index, kernel, cmd, rest,
                     chained, target, outcome, pc>>
      /\ i' = s + 1
  BY DEF Resume, input, table
<1>2. Shape'
  <2>1. i' \in 0..MAX_PROCESSES
    BY <1>1, TableAssumption DEF Slots
  <2>2. TypeOK'
    BY <1>1, <2>1 DEF ShellInv, Shape, TypeOK
  <2> QED BY <1>1, <2>2 DEF ShellInv, Shape, Processes
<1>3. Tracked'
  BY <1>1, TrackedUntouched DEF table
<1>4. LineInv' /\ RoomInv' /\ QuitInv'
  BY <1>1 DEF ShellInv, LineInv, RoomInv, QuitInv
<1>5. ChainsRun => ChainInv'
  BY <1>1 DEF ShellInv, ChainInv, Children
<1> QED BY <1>2, <1>3, <1>4, <1>5 DEF ShellInv, ChainsRun

(* The end of a loop.                                                          *)
LEMMA LoopDone ==
  ASSUME ShellInv, i' = 0, UNCHANGED <<table, kernel, input, outcome>>,
         \/ pc \in {"info", "wait", "terminate"} /\ pc' = Return
         \/ /\ pc = "quit" /\ pc' = "goodbye"
            /\ \A s \in Slots : ~Has(s, Unfinished)
  PROVE  ShellInv'
<1>1. /\ UNCHANGED <<child_PID_tracker, new_child_PID_Index, kernel, cmd, rest,
                     chained, target, outcome>>
      /\ pc # "await" /\ pc' \in {"judge", "prompt", "goodbye"}
      /\ pc' = "judge" => chained /\ pc \in {"info", "wait", "terminate"}
  BY DEF Return, input, table
<1>2. Shape'
  BY <1>1, ShapeOfIdle DEF ShellInv, Shape
<1>3. Tracked'
  BY <1>1, TrackedUntouched
<1>4. LineInv' /\ RoomInv'
  <2>1. Cardinality(Running(rest)) \in Nat /\ new_child_PID_Index \in Nat
    BY RunningFinite, TableAssumption DEF ShellInv, LineInv, Shape, TypeOK
  <2> QED BY <1>1, <2>1, TableAssumption DEF ShellInv, LineInv, RoomInv
<1>5. QuitInv'
  <2>1. pc' # "quit" /\ (pc' = "goodbye" => pc = "quit")
    BY <1>1 DEF Return
  <2>2. pc = "quit" => \A s \in Slots : ~Has(s, Unfinished)
    OBVIOUS
  <2>3. \A s \in Slots : ~Has(s, Unfinished) => child_PID_tracker'[s].status \notin Unfinished
    BY <1>1 DEF Has
  <2> QED BY <2>1, <2>2, <2>3 DEF QuitInv, Has
<1>6. ChainsRun => ChainInv'
  BY <1>1 DEF ShellInv, ChainInv, Children
<1> QED BY <1>2, <1>3, <1>4, <1>5, <1>6 DEF ShellInv, ChainsRun

LEMMA InfoInv ==
  ASSUME ShellInv, ex1c_show_info
  PROVE  ShellInv'
<1> DEFINE found == {s \in i..MAX_PROCESSES-1 : Has(s, Unfinished)}
<1>1. pc = "info" /\ UNCHANGED <<new_child_PID_Index, input, outcome>>
  BY DEF ex1c_show_info, Loop
<1>2. CASE found = {}
  <2>1. Goto(Return) /\ UNCHANGED <<child_PID_tracker, kernel>>
    BY <1>2 DEF ex1c_show_info, Loop
  <2> QED BY <1>1, <2>1, LoopDone DEF Goto, table
<1>3. CASE found # {}
  <2> DEFINE s == Min(found)
  <2>1. s \in found /\ s \in Slots /\ Has(s, Unfinished)
    BY <1>3, LeastSlot, LoopSlots
  <2>2. \/ Wait(s)
        \/ Resume(s + 1) /\ UNCHANGED <<child_PID_tracker, kernel>>
    <3> HIDE DEF s
    <3> QED BY <1>3 DEF ex1c_show_info, Loop, s
  <2> HIDE DEF s, found
  <2> QED BY <1>1, <2>1, <2>2, TurnThatWaits, TurnThatSkips DEF table
<1> QED BY <1>2, <1>3

LEMMA WaitPIDInv ==
  ASSUME ShellInv, ex2a_wait_PID
  PROVE  ShellInv'
<1> DEFINE found == {s \in i..MAX_PROCESSES-1 :
                       child_PID_tracker[s].pid = target /\ Has(s, Unfinished)}
<1>1. pc = "wait" /\ UNCHANGED <<new_child_PID_Index, input, outcome>>
  BY DEF ex2a_wait_PID, Loop
<1>2. CASE found = {}
  <2>1. Goto(Return) /\ UNCHANGED <<child_PID_tracker, kernel>>
    BY <1>2 DEF ex2a_wait_PID, Loop
  <2> QED BY <1>1, <2>1, LoopDone DEF Goto, table
<1>3. CASE found # {}
  <2> DEFINE s == Min(found)
  <2>1. s \in Slots /\ Has(s, Unfinished)
    BY <1>3, LeastSlot, LoopSlots
  <2>2. Wait(s)
    BY <1>3 DEF ex2a_wait_PID, Loop
  <2> HIDE DEF s, found
  <2> QED BY <1>1, <2>1, <2>2, TurnThatWaits
<1> QED BY <1>2, <1>3

LEMMA TerminatePIDInv ==
  ASSUME ShellInv, ex2b_terminate_PID
  PROVE  ShellInv'
<1> DEFINE found == {s \in i..MAX_PROCESSES-1 :
                       child_PID_tracker[s].pid = target /\ Has(s, {INCOMPLETE_FORK})}
<1>1. pc = "terminate" /\ UNCHANGED <<new_child_PID_Index, input, outcome>>
  BY DEF ex2b_terminate_PID, Loop
<1>2. CASE found = {}
  <2>1. Goto(Return) /\ UNCHANGED <<child_PID_tracker, kernel>>
    BY <1>2 DEF ex2b_terminate_PID, Loop
  <2> QED BY <1>1, <2>1, LoopDone DEF Goto, table
<1>3. CASE found # {}
  <2> DEFINE s == Min(found)
  <2>1. s \in Slots /\ Has(s, Unfinished)
    BY <1>3, LeastSlot, LoopSlots DEF Has, Unfinished
  <2>2. Kill(s, s + 1)
    BY <1>3 DEF ex2b_terminate_PID, Loop
  <2>3. s + 1 \in 0..MAX_PROCESSES
    BY <2>1, TableAssumption DEF Slots
  <2> HIDE DEF s, found
  <2> QED BY <1>1, <2>1, <2>2, <2>3, TurnThatKills
<1> QED BY <1>2, <1>3

LEMMA QuitLoopInv ==
  ASSUME ShellInv, my_quit
  PROVE  ShellInv'
<1> DEFINE found == {s \in i..MAX_PROCESSES-1 : Has(s, Unfinished)}
<1>1. pc = "quit" /\ UNCHANGED <<new_child_PID_Index, input, outcome>>
  BY DEF my_quit, Loop
<1>2. \A s \in 0..i-1 : ~Has(s, Unfinished)
  BY <1>1 DEF ShellInv, QuitInv
<1>3. CASE found = {}
  <2>1. Goto("goodbye") /\ UNCHANGED <<child_PID_tracker, kernel>>
    BY <1>3 DEF my_quit, Loop
  <2>2. \A s \in Slots : ~Has(s, Unfinished)
    BY <1>2, <1>3, LoopSlots
  <2> QED BY <1>1, <2>1, <2>2, LoopDone DEF Goto, table
<1>4. CASE found # {}
  <2> DEFINE s == Min(found)
  <2>1. s \in Slots /\ Has(s, Unfinished) /\ \A n \in found : s <= n
    BY <1>4, LeastSlot, LoopSlots
  <2>2. IF Has(s, {INCOMPLETE_FORK}) THEN Kill(s, s) ELSE Wait(s)
    BY <1>4 DEF my_quit, Loop
  <2>3. \A n \in 0..s-1 : n \in Slots /\ ~Has(n, Unfinished)
    <3> SUFFICES ASSUME NEW n \in 0..s-1
                 PROVE  n \in Slots /\ ~Has(n, Unfinished)
      OBVIOUS
    <3>1. n \in Slots /\ n < s /\ n \in Nat /\ s \in Nat
      <4> HIDE DEF s
      <4> QED BY <2>1, TableAssumption DEF Slots
    <3>2. n \notin found
      <4> HIDE DEF s, found
      <4> QED BY <2>1, <3>1
    <3> QED BY <1>2, <3>1, <3>2, LoopSlots
  <2>4. s \in 0..MAX_PROCESSES
    <3> HIDE DEF s
    <3> QED BY <2>1, TableAssumption DEF Slots
  <2> HIDE DEF s, found
  <2> QED BY <1>1, <2>1, <2>2, <2>3, <2>4, TurnThatWaits, TurnThatKills
<1> QED BY <1>3, <1>4

-----------------------------------------------------------------------------
(* The other processes                                                         *)

(* A process ends: it becomes a zombie, or is gone if it is not a child.  Only *)
(* one that was sent SIGTERM ends by a signal, but for crashes.                *)
LEMMA ExitInv ==
  ASSUME ShellInv, NEW p \in Pids, NEW raw \in Codes \cup {SIGNALLED}, Exit(p, raw),
         raw = SIGNALLED => kernel[p].term \/ Crashes
  PROVE  ShellInv'
<1>1. /\ UNCHANGED <<child_PID_tracker, new_child_PID_Index, cmd, rest, chained, target,
                     outcome, pc, i>>
      /\ p \in DOMAIN kernel
      /\ kernel' = IF kernel[p].owner = Other THEN Reaped(p)
                   ELSE [kernel EXCEPT ![p].state = "zombie", ![p].raw = raw]
  BY DEF Exit, input, table
<1>2. kernel \in [DOMAIN kernel -> Processes] /\ DOMAIN kernel \subseteq Pids
  BY DEF ShellInv, Shape, TypeOK
<1>3. /\ DOMAIN kernel' \subseteq DOMAIN kernel
      /\ Children \subseteq DOMAIN kernel'
      /\ \A q \in DOMAIN kernel' :
           /\ kernel'[q] \in Processes
           /\ kernel'[q].owner = kernel[q].owner /\ kernel'[q].term = kernel[q].term
           /\ kernel'[q].raw = kernel[q].raw \/ (q = p /\ kernel'[q].raw = raw)
      /\ kernel' \in [DOMAIN kernel' -> Processes]
  <2>1. CASE kernel[p].owner = Other
    BY <1>1, <1>2, <2>1 DEF Reaped, Children
  <2>2. CASE kernel[p].owner # Other
    BY <1>1, <1>2, <2>2 DEF Children, Processes
  <2> QED BY <2>1, <2>2
<1>4. Children' = Children
  BY <1>3 DEF Children
<1>5. Shape'
  <2>1. TypeOK'
    BY <1>1, <1>2, <1>3 DEF ShellInv, Shape, TypeOK
  <2> QED BY <1>1, <1>3, <2>1 DEF ShellInv, Shape, Processes
<1>6. Tracked'
  BY <1>1, <1>3, <1>4, TrackedStays DEF Has, Children
<1>7. LineInv' /\ RoomInv' /\ QuitInv'
  BY <1>1 DEF ShellInv, LineInv, RoomInv, QuitInv, Has
<1>8. ChainsRun => ChainInv'
  <2> SUFFICES ASSUME ChainsRun
               PROVE  ChainInv'
    OBVIOUS
  <2>1. \A q \in Children' : kernel'[q].raw = SIGNALLED => kernel'[q].term
    BY <1>3, <1>4 DEF ShellInv, ChainInv, Children, ChainsRun
  <2>2. pc = "await" => child_PID_tracker[new_child_PID_Index].pid \in DOMAIN kernel'
    BY <1>3 DEF ShellInv, Tracked, Has, Unfinished
  <2>3. pc' = "await" => ~kernel'[child_PID_tracker'[new_child_PID_Index'].pid].term
    BY <1>1, <1>3, <2>2 DEF ShellInv, ChainInv
  <2> QED BY <1>1, <2>1, <2>3 DEF ShellInv, ChainInv
<1> QED BY <1>5, <1>6, <1>7, <1>8 DEF ShellInv, ChainsRun

(* Another process starts, at a pid that no child has.                         *)
LEMMA OtherStartsInv ==
  ASSUME ShellInv, NEW p \in Pids, OtherStarts(p)
  PROVE  ShellInv'
<1>1. /\ UNCHANGED <<child_PID_tracker, new_child_PID_Index, cmd, rest, chained, target,
                     outcome, pc, i>>
      /\ p \notin DOMAIN kernel /\ kernel' = Started(p, Other)
  BY DEF OtherStarts, input, table
<1>2. kernel \in [DOMAIN kernel -> Processes] /\ DOMAIN kernel \subseteq Pids
  BY DEF ShellInv, Shape, TypeOK
<1>3. Process(Other) \in Processes /\ Process(Other).owner = Other
  BY CodesAssumption DEF Process, Processes
<1>4. /\ DOMAIN kernel' = DOMAIN kernel \cup {p}
      /\ kernel'[p] = Process(Other)
      /\ \A q \in DOMAIN kernel : kernel'[q] = kernel[q]
      /\ kernel' \in [DOMAIN kernel' -> Processes]
  <2>1. kernel' = [q \in DOMAIN kernel \cup {p} |->
                     IF q = p THEN Process(Other) ELSE kernel[q]]
    BY <1>1 DEF Started
  <2> QED BY <1>1, <1>2, <1>3, <2>1
<1>5. Children' = Children
  BY <1>1, <1>3, <1>4 DEF Children
<1>6. Shape'
  <2>1. TypeOK'
    BY <1>1, <1>2, <1>4 DEF ShellInv, Shape, TypeOK
  <2> QED BY <1>1, <1>4, <2>1 DEF ShellInv, Shape, Processes
<1>7. Tracked'
  BY <1>1, <1>4, <1>5, TrackedStays DEF Has, Children
<1>8. LineInv' /\ RoomInv' /\ QuitInv'
  BY <1>1 DEF ShellInv, LineInv, RoomInv, QuitInv, Has
<1>9. ChainsRun => ChainInv'
  <2> SUFFICES ASSUME ChainsRun
               PROVE  ChainInv'
    OBVIOUS
  <2>1. \A q \in Children' : kernel'[q].raw = SIGNALLED => kernel'[q].term
    BY <1>4, <1>5 DEF ShellInv, ChainInv, Children, ChainsRun
  <2>2. pc = "await" => child_PID_tracker[new_child_PID_Index].pid \in DOMAIN kernel
    BY DEF ShellInv, Tracked, Has, Unfinished, Children
  <2>3. pc' = "await" => ~kernel'[child_PID_tracker'[new_child_PID_Index'].pid].term
    BY <1>1, <1>4, <2>2 DEF ShellInv, ChainInv
  <2> QED BY <1>1, <2>1, <2>3 DEF ShellInv, ChainInv
<1> QED BY <1>6, <1>7, <1>8, <1>9 DEF ShellInv, ChainsRun

-----------------------------------------------------------------------------
(* The invariant                                                               *)

LEMMA InitInv ==
  Init => ShellInv
<1> SUFFICES ASSUME Init
             PROVE  ShellInv
  OBVIOUS
<1>1. kernel = <<>> /\ DOMAIN kernel = {}
  BY DEF Init
<1>2. Children = {}
  BY <1>1 DEF Children
<1>3. \A s \in Slots : child_PID_tracker[s] = [pid |-> 0, status |-> 0]
                         /\ ~Has(s, Unfinished)
  BY DEF Init, Has, Unfinished, INCOMPLETE_FORK, TERMINATING_FORK
<1>4. Shape
  <2>1. [pid |-> 0, status |-> 0] \in [pid : Pids \cup {-1, 0}, status : Codes \cup Unfinished]
    BY CodesAssumption
  <2>2. kernel \in [DOMAIN kernel -> Processes]
    BY <1>1
  <2> QED BY <1>1, <2>1, <2>2, TableAssumption DEF Init, Shape, TypeOK
<1>5. Tracked
  BY <1>2, <1>3 DEF Init, Tracked
<1>6. LineInv /\ RoomInv /\ QuitInv
  <2>1. RoomInv
    BY RunningEmpty, TableAssumption DEF Init, RoomInv
  <2> QED BY <2>1, EmptySeq DEF Init, LineInv, QuitInv
<1>7. ChainInv
  BY <1>2 DEF Init, ChainInv
<1> QED BY <1>4, <1>5, <1>6, <1>7 DEF ShellInv

LEMMA NextInv ==
  ASSUME ForksSucceed, ShellInv, [Next]_vars
  PROVE  ShellInv'
<1>1. ASSUME NEW p \in Pids, Ends(p)
      PROVE  ShellInv'
  <2>1. PICK raw \in Codes \cup {SIGNALLED} : Exit(p, raw) /\ (raw \in Codes \/ Crashes)
    BY <1>1, Zenon DEF Ends
  <2>2. raw = SIGNALLED => Crashes
    BY <2>1, CodesAssumption DEF SIGNALLED
  <2> QED BY <2>1, <2>2, ExitInv
<1>2. ASSUME NEW p \in Pids, DiesOfTerm(p)
      PROVE  ShellInv'
  BY <1>2, ExitInv DEF DiesOfTerm
<1>3. CASE UNCHANGED vars
  <2>1. UNCHANGED <<child_PID_tracker, new_child_PID_Index, cmd, rest, chained, target,
                    outcome, pc, i, kernel>>
    BY <1>3 DEF vars, table, input
  <2>2. Shape'
    <3>1. TypeOK'
      BY <2>1 DEF ShellInv, Shape, TypeOK
    <3> QED BY <2>1, <3>1 DEF ShellInv, Shape, Processes
  <2>3. Tracked'
    BY <2>1, TrackedUntouched DEF table
  <2>4. LineInv' /\ RoomInv' /\ QuitInv'
    BY <2>1 DEF ShellInv, LineInv, RoomInv, QuitInv, Has
  <2>5. ChainsRun => ChainInv'
    BY <2>1 DEF ShellInv, ChainInv, Children
  <2> QED BY <2>2, <2>3, <2>4, <2>5 DEF ShellInv, ChainsRun
<1> QED BY <1>1, <1>2, <1>3, ReadLineInv, EndOfFileInv, DispatchInv, ForkInv, AwaitInv,
           JudgeInv, InfoInv, WaitPIDInv, TerminatePIDInv, QuitLoopInv, OtherStartsInv
        DEF Next, ShellStep

(* The invariant holds whatever the user types and whatever ends when.         *)
THEOREM ShellInvariant ==
  ForksSucceed => (Spec => []ShellInv)
<1> SUFFICES ASSUME ForksSucceed
             PROVE  Spec => []ShellInv
  OBVIOUS
<1>1. ShellInv /\ [Next]_vars => ShellInv'
  BY NextInv
<1> QED BY <1>1, InitInv, PTL DEF Spec

(* The parts of it that are properties of the shell: the table never confuses  *)
(* an exit code with a mark of an unfinished program;                          *)
THEOREM TypeCorrect ==
  ForksSucceed => (Spec => []TypeOK)
<1>1. ShellInv => TypeOK
  BY DEF ShellInv, Shape
<1> QED BY <1>1, ShellInvariant, PTL

(* ... what it says of the children that are not waited for is what the kernel *)
(* says, whenever they end and whoever gets their pids afterwards;             *)
THEOREM TrackerIsRight ==
  ForksSucceed => (Spec => []TrackerMatchesChildren)
<1>1. ASSUME ShellInv
      PROVE  TrackerMatchesChildren
  <2>1. \A s \in Slots : Has(s, Unfinished) =>
          /\ child_PID_tracker[s].pid \in Children
          /\ kernel[child_PID_tracker[s].pid].owner = s
    BY <1>1 DEF ShellInv, Tracked
  <2>2. \A p \in Children : /\ kernel[p].owner \in Slots
                            /\ Has(kernel[p].owner, Unfinished)
                            /\ child_PID_tracker[kernel[p].owner].pid = p
    BY <1>1 DEF ShellInv, Shape, Processes, Tracked, Children
  <2> QED BY <2>1, <2>2 DEF TrackerMatchesChildren
<1> QED BY <1>1, ShellInvariant, PTL

(* ... and when quit says goodbye no child is left.                            *)
THEOREM QuitIsClean ==
  ForksSucceed => (Spec => []QuitLeavesNone)
<1>1. ASSUME ShellInv
      PROVE  QuitLeavesNone
  <2>1. \A p \in Children : kernel[p].owner \in Slots /\ Has(kernel[p].owner, Unfinished)
    BY <1>1 DEF ShellInv, Shape, Processes, Tracked, Children
  <2> QED BY <1>1, <2>1 DEF QuitLeavesNone, ShellInv, QuitInv
<1> QED BY <1>1, ShellInvariant, PTL

-----------------------------------------------------------------------------
(* The action properties                                                       *)

(* All that a turn of a loop does to the table and the kernel.                 *)
Turn ==
  \/ UNCHANGED <<child_PID_tracker, kernel>>
  \/ \E s \in Slots :
       /\ Has(s, Unfinished)
       /\ \/ Wait(s)
          \/ Signal(child_PID_tracker[s].pid) /\ Status(s, TERMINATING_FORK)

LEMMA LoopTurn ==
  ASSUME ShellInv, NEW found \in SUBSET (i..MAX_PROCESSES-1),
         \A s \in found : Has(s, Unfinished),
         IF found = {} THEN UNCHANGED <<child_PID_tracker, kernel>>
         ELSE \/ Wait(Min(found)) \/ UNCHANGED <<child_PID_tracker, kernel>>
              \/ \E next : Kill(Min(found), next)
  PROVE  Turn
<1>1. CASE found = {}
  BY <1>1 DEF Turn
<1>2. CASE found # {}
  <2> DEFINE s == Min(found)
  <2>1. s \in Slots /\ Has(s, Unfinished)
    BY <1>2, LeastSlot, LoopSlots
  <2>2. Targets(child_PID_tracker[s].pid) # {}
    BY <2>1, EntryOfChild
  <2>3. \/ Wait(s) \/ UNCHANGED <<child_PID_tracker, kernel>>
        \/ Signal(child_PID_tracker[s].pid) /\ Status(s, TERMINATING_FORK)
    BY <1>2, <2>2 DEF Kill
  <2> HIDE DEF s
  <2> QED BY <2>1, <2>3 DEF Turn
<1> QED BY <1>1, <1>2

LEMMA LoopsTurn ==
  ASSUME ShellInv, ex1c_show_info \/ ex2a_wait_PID \/ ex2b_terminate_PID \/ my_quit
  PROVE  Turn /\ UNCHANGED new_child_PID_Index /\ pc \in {"info", "wait", "terminate", "quit"}
<1>1. CASE ex1c_show_info
  <2> DEFINE found == {s \in i..MAX_PROCESSES-1 : Has(s, Unfinished)}
  <2>1. IF found = {} THEN UNCHANGED <<child_PID_tracker, kernel>>
        ELSE \/ Wait(Min(found)) \/ UNCHANGED <<child_PID_tracker, kernel>>
             \/ \E next : Kill(Min(found), next)
    BY <1>1 DEF ex1c_show_info, Loop
  <2>2. Turn
    BY <2>1, LoopTurn
  <2> QED BY <1>1, <2>2 DEF ex1c_show_info, Loop
<1>2. CASE ex2a_wait_PID
  <2> DEFINE found == {s \in i..MAX_PROCESSES-1 :
                         child_PID_tracker[s].pid = target /\ Has(s, Unfinished)}
  <2>1. IF found = {} THEN UNCHANGED <<child_PID_tracker, kernel>>
        ELSE \/ Wait(Min(found)) \/ UNCHANGED <<child_PID_tracker, kernel>>
             \/ \E next : Kill(Min(found), next)
    BY <1>2 DEF ex2a_wait_PID, Loop
  <2>2. \A s \in found : Has(s, Unfinished)
    OBVIOUS
  <2>3. Turn
    <3> HIDE DEF found
    <3>1. found \in SUBSET (i..MAX_PROCESSES-1)
      BY DEF found
    <3> QED BY <2>1, <2>2, <3>1, LoopTurn
  <2> QED BY <1>2, <2>3 DEF ex2a_wait_PID, Loop
<1>3. CASE ex2b_terminate_PID
  <2> DEFINE found == {s \in i..MAX_PROCESSES-1 :
                         child_PID_tracker[s].pid = target /\ Has(s, {INCOMPLETE_FORK})}
  <2>1. IF found = {} THEN UNCHANGED <<child_PID_tracker, kernel>>
        ELSE \/ Wait(Min(found)) \/ UNCHANGED <<child_PID_tracker, kernel>>
             \/ \E next : Kill(Min(found), next)
    BY <1>3 DEF ex2b_terminate_PID, Loop
  <2>2. \A s \in found : Has(s, Unfinished)
    BY DEF Has, Unfinished
  <2>3. Turn
    BY <2>1, <2>2, LoopTurn
  <2> QED BY <1>3, <2>3 DEF ex2b_terminate_PID, Loop
<1>4. CASE my_quit
  <2> DEFINE found == {s \in i..MAX_PROCESSES-1 : Has(s, Unfinished)}
  <2>1. IF found = {} THEN UNCHANGED <<child_PID_tracker, kernel>>
        ELSE \/ Wait(Min(found)) \/ UNCHANGED <<child_PID_tracker, kernel>>
             \/ \E next : Kill(Min(found), next)
    BY <1>4 DEF my_quit, Loop
  <2>2. Turn
    BY <2>1, LoopTurn
  <2> QED BY <1>4, <2>2 DEF my_quit, Loop
<1> QED BY <1>1, <1>2, <1>3, <1>4

(* SIGTERM goes to a child, and to no other process that has its pid.          *)
THEOREM OnlyChildrenAreKilled ==
  ForksSucceed => (Spec => KillsOnlyChildren)
<1> DEFINE Spared == \A p \in DOMAIN kernel \cap DOMAIN kernel' :
                       kernel'[p].term /\ ~kernel[p].term => kernel[p].owner # Other
<1>1. ASSUME ForksSucceed, ShellInv, Next
      PROVE  Spared
  <2>1. ASSUME NEW p, kernel' = Reaped(p)
        PROVE  Spared
    BY <2>1 DEF Reaped
  <2>2. ASSUME NEW p, NEW owner, p \notin DOMAIN kernel, kernel' = Started(p, owner)
        PROVE  Spared
    BY <2>2 DEF Started
  <2>3. ASSUME NEW p \in Pids, Ends(p) \/ DiesOfTerm(p)
        PROVE  Spared
    <3>1. PICK raw : Exit(p, raw)
      BY <2>3, Zenon DEF Ends, DiesOfTerm
    <3>2. \/ kernel' = Reaped(p)
          \/ kernel' = [kernel EXCEPT ![p].state = "zombie", ![p].raw = raw]
      BY <3>1 DEF Exit
    <3>3. kernel \in [DOMAIN kernel -> Processes]
      BY <1>1 DEF ShellInv, Shape
    <3>4. ASSUME kernel' = [kernel EXCEPT ![p].state = "zombie", ![p].raw = raw]
          PROVE  \A q \in DOMAIN kernel : kernel'[q].term = kernel[q].term
      BY <3>3, <3>4 DEF Processes
    <3> QED BY <2>1, <3>2, <3>4
  <2>4. ASSUME NEW pid \in ForkResults, Fork(pid)
        PROVE  Spared
    <3>1. kernel' = kernel \/ (pid \notin DOMAIN kernel /\ kernel' = Started(pid, new_child_PID_Index))
      BY <2>4 DEF Fork, ForkResults
    <3> QED BY <2>2, <3>1
  <2>5. CASE Await
    <3>1. kernel' = kernel \/ \E p : kernel' = Reaped(p)
      BY <2>5 DEF Await, waitpid
    <3> QED BY <2>1, <3>1
  <2>6. ASSUME Turn
        PROVE  Spared
    <3>1. ASSUME NEW s \in Slots, Has(s, Unfinished), Wait(s)
          PROVE  Spared
      <4>1. kernel' = kernel \/ \E p : kernel' = Reaped(p)
        BY <3>1 DEF Wait, waitpid
      <4> QED BY <2>1, <4>1
    <3>2. ASSUME NEW s \in Slots, Has(s, Unfinished),
                 Signal(child_PID_tracker[s].pid), Status(s, TERMINATING_FORK)
          PROVE  Spared
      <4>1. \A p \in DOMAIN kernel :
              kernel'[p].term <=> (kernel[p].term \/ p = child_PID_tracker[s].pid)
        BY <1>1, <3>2, Killing
      <4>2. child_PID_tracker[s].pid \in Children
        BY <1>1, <3>2, EntryOfChild
      <4> QED BY <4>1, <4>2 DEF Children
    <3> QED BY <2>6, <3>1, <3>2 DEF Turn
  <2>7. CASE ex1c_show_info \/ ex2a_wait_PID \/ ex2b_terminate_PID \/ my_quit
    BY <1>1, <2>6, <2>7, LoopsTurn
  <2>8. CASE Dispatch \/ Judge \/ EndOfFile \/ \E t \in Lines : ReadLine(t)
    BY <2>8 DEF Dispatch, Judge, EndOfFile, ReadLine
  <2>9. ASSUME NEW p \in Pids, OtherStarts(p)
        PROVE  Spared
    BY <2>2, <2>9 DEF OtherStarts
  <2> QED BY <1>1, <2>3, <2>4, <2>5, <2>7, <2>8, <2>9 DEF Next, ShellStep
<1>2. ASSUME UNCHANGED kernel
      PROVE  Spared
  BY <1>2
<1> SUFFICES ASSUME ForksSucceed
             PROVE  Spec => KillsOnlyChildren
  OBVIOUS
<1>3. ShellInv /\ [Next]_vars => [Spared]_vars
  BY <1>1
<1>4. Spec => []ShellInv
  BY ShellInvariant
<1>5. Spec => [][Spared]_vars
  <2> HIDE DEF Spared
  <2> QED BY <1>3, <1>4, PTL DEF Spec
<1> QED BY <1>5 DEF KillsOnlyChildren

(* What the table has for a program that has ended stays there.                *)
THEOREM StatusIsFinal ==
  ForksSucceed => (Spec => StatusFinal)
<1> DEFINE Kept == \A s \in Slots : s < new_child_PID_Index /\ ~Has(s, Unfinished)
                     => child_PID_tracker'[s] = child_PID_tracker[s]
<1>1. ASSUME ShellInv, Next
      PROVE  Kept
  <2>1. \A s \in Slots : s \in Int
    BY DEF Slots
  <2>2. /\ new_child_PID_Index \in Nat
        /\ child_PID_tracker \in [Slots -> [pid : Pids \cup {-1, 0}, status : Codes \cup Unfinished]]
    BY <1>1, TableAssumption DEF ShellInv, Shape, TypeOK
  <2>3. ASSUME NEW pid \in ForkResults, Fork(pid)
        PROVE  Kept
    BY <2>1, <2>2, <2>3 DEF Fork
  <2>4. CASE Await
    <3>1. child_PID_tracker' = child_PID_tracker
          \/ \E v : child_PID_tracker' = [child_PID_tracker EXCEPT ![new_child_PID_Index].status = v]
      BY <2>4 DEF Await, waitpid, Status
    <3> QED BY <2>1, <2>2, <3>1
  <2>5. ASSUME Turn
        PROVE  Kept
    <3>1. ASSUME NEW s \in Slots, Has(s, Unfinished),
                 \/ Wait(s)
                 \/ Signal(child_PID_tracker[s].pid) /\ Status(s, TERMINATING_FORK)
          PROVE  Kept
      <4>1. \E v : child_PID_tracker' = [child_PID_tracker EXCEPT ![s].status = v]
        BY <3>1 DEF Wait, waitpid, Status
      <4> QED BY <2>2, <3>1, <4>1
    <3> QED BY <2>5, <3>1 DEF Turn
  <2>6. CASE ex1c_show_info \/ ex2a_wait_PID \/ ex2b_terminate_PID \/ my_quit
    BY <1>1, <2>5, <2>6, LoopsTurn
  <2>7. CASE UNCHANGED child_PID_tracker
    BY <2>7
  <2>8. CASE Dispatch \/ Judge \/ EndOfFile \/ \E t \in Lines : ReadLine(t)
    BY <2>7, <2>8 DEF Dispatch, Judge, EndOfFile, ReadLine, table
  <2>9. ASSUME NEW p \in Pids, Ends(p) \/ DiesOfTerm(p) \/ OtherStarts(p)
        PROVE  Kept
    BY <2>7, <2>9 DEF Ends, DiesOfTerm, OtherStarts, Exit, table
  <2> QED BY <1>1, <2>3, <2>4, <2>6, <2>8, <2>9 DEF Next, ShellStep
<1> SUFFICES ASSUME ForksSucceed
             PROVE  Spec => StatusFinal
  OBVIOUS
<1>2. ShellInv /\ [Next]_vars => [Kept]_vars
  BY <1>1
<1>3. Spec => []ShellInv
  BY ShellInvariant
<1>4. Spec => [][Kept]_vars
  <2> HIDE DEF Kept
  <2> QED BY <1>2, <1>3, PTL DEF Spec
<1> QED BY <1>4 DEF StatusFinal

(* A chain stops at the first program that does not exit with 0, when none is  *)
(* ended by a signal of its own and no command lacks its input file.           *)
THEOREM ChainStopsAtFailure ==
  ForksSucceed /\ ChainsRun => (Spec => ChainStops)
<1> DEFINE Earned == pc = "judge" /\ pc' = "command" => outcome \in {"exit0", "none"}
<1>1. ASSUME ChainsRun, ShellInv, Next
      PROVE  Earned
  <2> SUFFICES ASSUME pc = "judge", pc' = "command"
               PROVE  outcome \in {"exit0", "none"}
    OBVIOUS
  <2>1. CASE Judge
    <3>1. /\ ChainInv
          /\ new_child_PID_Index \in Nat
      BY <1>1, TableAssumption DEF ShellInv, Shape, TypeOK
    <3>2. \E status \in LastStatus : status = 0
      BY <2>1 DEF Judge, Goto
    <3> QED BY <3>1, <3>2 DEF ChainInv, LastStatus
  <2>2. ~(ex1c_show_info \/ ex2a_wait_PID \/ ex2b_terminate_PID \/ my_quit)
    BY <1>1, LoopsTurn
  <2>3. ~(Dispatch \/ Await \/ EndOfFile)
    BY DEF Dispatch, Await, EndOfFile
  <2>4. ~(\E pid \in ForkResults : Fork(pid)) /\ ~(\E t \in Lines : ReadLine(t))
    BY DEF Fork, ReadLine
  <2>5. \A p \in Pids : ~(Ends(p) \/ DiesOfTerm(p) \/ OtherStarts(p))
    BY DEF Ends, DiesOfTerm, OtherStarts, Exit
  <2> QED BY <1>1, <2>1, <2>2, <2>3, <2>4, <2>5 DEF Next, ShellStep
<1> SUFFICES ASSUME ForksSucceed, ChainsRun
             PROVE  Spec => ChainStops
  OBVIOUS
<1>2. ShellInv /\ [Next]_vars => [Earned]_vars
  BY <1>1
<1>3. Spec => []ShellInv
  BY ShellInvariant
<1>4. Spec => [][Earned]_vars
  <2> HIDE DEF Earned
  <2> QED BY <1>2, <1>3, PTL DEF Spec
<1> QED BY <1>4 DEF ChainStops

=============================================================================
