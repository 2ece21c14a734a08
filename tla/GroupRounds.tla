---------------------------- MODULE GroupRounds -----------------------------
(* The driver of Lab3/ex4/ex4.c with the restaurant it drives: main reads a    *)
(* batch of commands, starts a thread for each group that enters and wakes the *)
(* thread of each that leaves, lets them go at once from behind the busy       *)
(* waiter, sleeps, waits for the groups that entered to be enqueued and joins  *)
(* the ones that left, and takes over the list of the newly seated.            *)
(*                                                                             *)
(* The sleep is taken to outlast the work of the batch ("during grading, we    *)
(* will wait for at least as many groups as we expect", ex4.c:246).  The input *)
(* lets a group leave when the restaurant has given it a table.                *)
EXTENDS Semaphores, FiniteSets

CONSTANTS Groups, NoGroup, T, Size, num_tables,   \* as in Restaurant
          BatchSize   \* the most commands of a batch

ASSUME GroupsAssumption == IsFiniteSet(Groups) /\ NoGroup \notin Groups
ASSUME TypesAssumption == T \in 1..5 /\ num_tables \in [0..T-1 -> Nat]
ASSUME GroupSizeAssumption == Size \in [Groups -> 0..T-1]
ASSUME BatchAssumption == BatchSize \in Nat

VARIABLES mutex, customer_serve, customer_done, table_available, table_state,
          queue, queue_grp_state, new_group_index, state, my_turn_to_go,
          pc, local, at,        \* of the restaurant
          main,                 \* where main is in its loop
          cmds,                 \* the groups with a command in the batch
          it,                   \* those that main's loop has not reached yet
          waiter,               \* the busywaiter of the batch
          enqueue_counter,      \* local to the turn of main's loop
          enqueued,             \* the groups whose command has been reported
          th,                   \* th[g]: where the thread of g is in run_group
          leave_sem,            \* leave_sem[g]: sem_t
          eating_list,          \* the groups seated since main last looked
          real_eating_list      \* the groups that main knows to be seated

R == INSTANCE Restaurant WITH Together <- TRUE
W == INSTANCE BusyWaiter

restaurant == <<mutex, customer_serve, customer_done, table_available,
                table_state, queue, queue_grp_state, new_group_index, state,
                my_turn_to_go, pc, local, at>>
report == <<enqueue_counter, enqueued>>
lists == <<leave_sem, eating_list, real_eating_list>>
vars == <<restaurant, report, lists, main, cmds, it, waiter, th>>

Init ==
  /\ R!Init
  /\ main = "read" /\ cmds = {} /\ it = {}
  /\ waiter = [num_ready |-> 0, go |-> FALSE, num_started |-> 0]
  /\ enqueue_counter = 0 /\ enqueued = {}
  /\ th = [g \in Groups |-> "none"]
  /\ leave_sem = [g \in Groups |-> 0]
  /\ eating_list = {} /\ real_eating_list = {}

MainGoto(from, to) == main = from /\ main' = to
ThreadGoto(g, from, to) == th[g] = from /\ th' = [th EXCEPT ![g] = to]

-----------------------------------------------------------------------------
(* main                                                                        *)

(* The commands up to the next separator: groups that come or go.              *)
ReadBatch(S) ==
  /\ Cardinality(S) <= BatchSize
  /\ \A g \in S : th[g] = "none" \/ pc[g] = "seated"
  /\ MainGoto("read", IF S = {} THEN "sleep" ELSE "create")
  /\ cmds' = S /\ it' = S
  /\ enqueue_counter' = 0 /\ enqueued' = {}
  /\ IF S = {} THEN UNCHANGED waiter ELSE W!Reset
  /\ UNCHANGED <<restaurant, lists, th>>

(* One turn of the first loop over the commands: make the thread of a group    *)
(* that enters; find one that leaves on the list and post its semaphore.       *)
Entering(g) == pc[g] = "idle"

Create(g) ==
  /\ main = "create" /\ g \in it /\ Entering(g)
  /\ main' = IF it = {g} THEN "open" ELSE "create"
  /\ it' = it \ {g}
  /\ ThreadGoto(g, "none", "ready")
  /\ UNCHANGED <<restaurant, report, lists, cmds, waiter>>

SendOff(g) ==
  /\ main = "create" /\ g \in it /\ ~Entering(g)
  /\ it' = it \ {g}
  /\ IF g \in real_eating_list
     THEN /\ main' = IF it = {g} THEN "open" ELSE "create"
          /\ real_eating_list' = real_eating_list \ {g}
          /\ sem_post(leave_sem, g)
          /\ UNCHANGED eating_list
     ELSE main' = "failed" /\ UNCHANGED lists
  /\ UNCHANGED <<restaurant, report, cmds, waiter, th>>

OpenBarrier ==
  /\ MainGoto("open", "started")
  /\ W!Open(Cardinality(cmds))
  /\ UNCHANGED <<restaurant, report, lists, cmds, it, th>>

Started ==
  /\ MainGoto("started", "sleep")
  /\ W!AllPassed(Cardinality(cmds))
  /\ UNCHANGED <<restaurant, report, lists, cmds, it, th>>

(* A group's thread can do no more before another command.                     *)
AtRest(g) ==
  \/ th[g] \in {"none", "eating", "ended"}
  \/ th[g] = "request" /\ pc[g] # "seated" /\ R!AtRest(g)

(* usleep, and then the loop until all the groups that entered are enqueued.   *)
Expected == Cardinality({g \in cmds : th[g] # "ended"})

Wake ==
  /\ MainGoto("sleep", "settle")
  /\ \A g \in Groups : AtRest(g)
  /\ enqueue_counter = Expected
  /\ it' = cmds
  /\ UNCHANGED <<restaurant, report, lists, cmds, waiter, th>>

(* One turn of the second loop: a group that entered must have reported itself *)
(* and not been reported by another; a group that left is joined.              *)
Settle(g) ==
  /\ main = "settle" /\ g \in it
  /\ main' = IF th[g] # "ended" /\ g \notin enqueued THEN "failed" ELSE "settle"
  /\ it' = it \ {g}
  /\ UNCHANGED <<restaurant, report, lists, cmds, waiter, th>>

(* With eating_mutex held, take over the newly seated; break at end of file.   *)
TakeOverOnly ==
  /\ main = "settle" /\ it = {}
  /\ main' \in {"read", "end"}
  /\ real_eating_list' = eating_list /\ eating_list' = {}
  /\ cmds' = {}
  /\ UNCHANGED <<restaurant, report, leave_sem, it, waiter, th>>

TakeOver ==
  /\ main = "settle" /\ it = {}
  /\ main' \in {"read", "end"}
  /\ real_eating_list' = real_eating_list \cup eating_list /\ eating_list' = {}
  /\ cmds' = {}
  /\ UNCHANGED <<restaurant, report, leave_sem, it, waiter, th>>

-----------------------------------------------------------------------------
(* run_group                                                                   *)

(* busywaiter_group_wait, before the request and again before the leave.       *)
Ready(g) ==
  /\ ThreadGoto(g, "ready", "spin")
  /\ W!Report
  /\ UNCHANGED <<restaurant, report, lists, main, cmds, it>>

Go(g) ==
  /\ \/ ThreadGoto(g, "spin", "request") /\ R!Enter(g)
     \/ ThreadGoto(g, "spin", "leave") /\ R!Depart(g)
  /\ W!Pass
  /\ UNCHANGED <<report, lists, main, cmds, it>>

(* request_for_table; its first step calls on_enqueue, which marks the command *)
(* and counts.                                                                 *)
request_for_table(g) ==
  /\ th[g] = "request"
  /\ R!request_for_table(g)
  /\ IF pc[g] = "enter"
     THEN enqueued' = enqueued \cup {g} /\ enqueue_counter' = enqueue_counter + 1
     ELSE UNCHANGED report
  /\ UNCHANGED <<lists, main, cmds, it, waiter, th>>

(* sem_init(&leave_sem, 0, 0); with eating_mutex held, join the eating_list.   *)
Seated(g) ==
  /\ pc[g] = "seated"
  /\ ThreadGoto(g, "request", "eating")
  /\ leave_sem' = [leave_sem EXCEPT ![g] = 0]
  /\ eating_list' = eating_list \cup {g}
  /\ UNCHANGED <<restaurant, report, real_eating_list, main, cmds, it, waiter>>

(* sem_wait(&leave_sem)                                                        *)
GetUp(g) ==
  /\ ThreadGoto(g, "eating", "ready")
  /\ sem_wait(leave_sem, g)
  /\ UNCHANGED <<restaurant, report, eating_list, real_eating_list, main, cmds,
                 it, waiter>>

leave_table(g) ==
  /\ th[g] = "leave"
  /\ R!leave_table(g)
  /\ UNCHANGED <<report, lists, main, cmds, it, waiter, th>>

Return(g) ==
  /\ pc[g] = "gone"
  /\ ThreadGoto(g, "leave", "ended")
  /\ UNCHANGED <<restaurant, report, lists, main, cmds, it, waiter>>

-----------------------------------------------------------------------------
main_loop ==
  \/ \E g \in Groups : Create(g) \/ SendOff(g) \/ Settle(g)
  \/ OpenBarrier \/ Started \/ Wake \/ TakeOver

run_group(g) ==
  \/ Ready(g) \/ Go(g) \/ request_for_table(g) \/ Seated(g) \/ GetUp(g)
  \/ leave_table(g) \/ Return(g)

Next ==
  /\ R!Up
  /\ \/ \E S \in SUBSET Groups : ReadBatch(S)
     \/ main_loop
     \/ \E g \in Groups : run_group(g)

Spec == Init /\ [][Next]_vars

(* Both loops go on whenever they can; the input need not.                     *)
FairSpec ==
  /\ Spec
  /\ WF_vars(R!Up /\ main_loop)
  /\ \A g \in Groups : WF_vars(R!Up /\ run_group(g))

-----------------------------------------------------------------------------
(* Properties                                                                  *)

(* With all threads at rest, no group waits for a type with a free table.      *)
NoIdleTable == R!NoIdleTable

(* Driven so, the restaurant seats as it promises: first come, first served    *)
(* among the groups of a size.                                                 *)
ImplementsSeating == R!ImplementsSeating

(* The driver never declares the test failed: a group that has a table is on   *)
(* the list when the input asks it to leave, although two threads and two      *)
(* lists lie between, and each group reports its own command and no other.     *)
TestsNeverFail == main # "failed"

(* No thread looks at the waiter of a batch that is over; a group that leaves  *)
(* goes through a waiter of another turn of main's loop than when it came.     *)
WaiterInScope ==
  \A g \in Groups : th[g] \in {"ready", "spin"} => main \in {"create", "open", "started"}

(* A leaver that looks into the queue finds a group there, and none that has   *)
(* gone: its group_state is on the stack of its thread, which has ended, while *)
(* queue still points to it.                                                   *)
StatesInScope ==
  \A g \in Groups : pc[g] \in {"peek", "call"} =>
    queue[at[g]] \in Groups /\ th[queue[at[g]]] # "ended"

(* The parts of an inductive invariant.  Where a thread is in run_group says    *)
(* where it is in the restaurant:                                              *)
InRequest == {"enter", "turn", "take", "serve", "assign", "served", "seated"}
               \cup R!HaveMutex

ThreadInv ==
  /\ th \in [Groups -> {"none", "ready", "spin", "request", "eating", "leave", "ended"}]
  /\ leave_sem \in [Groups -> Nat]
  /\ \A g \in Groups :
       /\ th[g] = "none" => pc[g] = "idle"
       /\ th[g] \in {"ready", "spin"} => pc[g] \in {"idle", "seated"}
       /\ th[g] = "request" => pc[g] \in InRequest
       /\ th[g] = "eating" => pc[g] = "seated"
       /\ th[g] = "leave" => pc[g] \in {"leave", "gone"} \cup R!HaveDone
       /\ th[g] = "ended" => pc[g] = "gone"

(* ... from its command to the barrier a thread is one of the batch, and the   *)
(* waiter counts them:                                                         *)
Coming == {g \in Groups : th[g] = "ready" \/ (th[g] = "eating" /\ leave_sem[g] # 0)}
Spinning == {g \in Groups : th[g] = "spin"}

BarrierInv ==
  /\ main \in {"read", "create", "open", "started", "sleep", "settle", "end"}
  /\ it \subseteq cmds /\ cmds \subseteq Groups /\ Cardinality(cmds) <= BatchSize
  /\ waiter \in [num_ready : Nat, go : BOOLEAN, num_started : Nat]
  /\ main \in {"create", "open"} =>
       /\ ~waiter.go /\ waiter.num_started = 0
       /\ waiter.num_ready = Cardinality(Spinning)
       /\ Coming \cup Spinning = cmds \ it
       /\ \A g \in it : th[g] \in {"none", "eating"}
  /\ main = "open" => it = {}
  /\ main = "started" =>
       /\ waiter.num_started = Cardinality(cmds \ Spinning)
       /\ Coming = {} /\ Spinning \subseteq cmds
  /\ main \notin {"create", "open", "started"} => Coming = {} /\ Spinning = {}

(* ... until the first of a batch goes, everybody else is at rest:             *)
StillInv ==
  \/ main = "sleep"
  \/ main = "started" /\ Spinning # cmds
  \/ \A g \in Groups \ (Coming \cup Spinning) : AtRest(g)

(* ... the lists hold the groups that eat until main sends them off, and a     *)
(* command that is under way is reported:                                      *)
ListInv ==
  /\ real_eating_list \cup eating_list = {g \in Groups : th[g] = "eating"} \ Coming
  /\ main \in {"read", "create"} => eating_list = {}

ReportInv ==
  main \in {"started", "sleep", "settle"} =>
    \A g \in cmds : /\ th[g] # "none"
                    /\ th[g] \in {"request", "eating"} /\ pc[g] # "enter" => g \in enqueued

DriverInv == ThreadInv /\ BarrierInv /\ StillInv /\ ListInv /\ ReportInv

(* What every step keeps, the reason for TestsNeverFail, WaiterInScope and     *)
(* StatesInScope; with one command in each batch the driver lets a group go    *)
(* when the others are at rest, so that the restaurant keeps QuietInv.         *)
RoundsInv ==
  /\ DriverInv
  /\ R!SeatInv
  /\ BatchSize = 1 => R!QuietInv

(* Every batch ends: main comes back to its input through the spin loops, the  *)
(* count of the enqueued and the joins, and so the restaurant comes to rest.   *)
RoundsEnd == main # "read" ~> main \in {"read", "end"}

=============================================================================
