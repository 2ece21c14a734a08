----------------------------- MODULE BallRounds -----------------------------
(* The driver of Lab3/ex2/ex2.c with the packer it drives: main reads a round  *)
(* of balls, starts a thread for each behind the busy waiter, sleeps, and      *)
(* prints and joins the balls that have put themselves on the list of the      *)
(* matched.  A ball that finds no partner stays for later rounds.              *)
(*                                                                             *)
(* The sleep ends at any time: main takes the list while balls of this and of  *)
(* earlier rounds are still packed or put themselves on it.  Only the last one *)
(* is taken to outlast the work that is left: what becomes of a call that is   *)
(* under way when main returns is not modelled.                                *)
EXTENDS Naturals, FiniteSets, SequencesExt

CONSTANTS Balls, Colours, Colour, NoBall, Id,   \* as in Packer
          Input,  \* the balls in the order of the input
          Dots    \* after how many of them the input has a separator

ASSUME BallsAssumption == IsFiniteSet(Balls) /\ NoBall \notin Balls
ASSUME ColourAssumption == Colour \in [Balls -> Colours]
ASSUME IdAssumption == DOMAIN Id = Balls \cup {NoBall}
ASSUME InputAssumption ==
  Input \in Seq(Balls) /\ IsInjective(Input) /\ ToSet(Input) = Balls
ASSUME DotsAssumption == Dots \subseteq Nat

VARIABLES mutex, queue, turnstile, fullPackingArea, packingAreaBallCount,
          pairingSystem, pc, idx, other_ids,   \* of the packer
          main,       \* where main is in its loop
          unread,     \* what is left of the input
          cmds,       \* the balls of the round, the last one read first
          it,         \* the ones that main's loop has not reached yet
          waiter,     \* the busywaiter of the round
          th,         \* th[b]: where the thread of b is in run_ball
          jlist,      \* the balls on the list of the matched
          next,       \* next[b]: the list as b has read it, until b heads it
          jmutex,     \* "free" or "held"
          reported    \* the balls printed, joined and freed

P == INSTANCE PackerPair
W == INSTANCE BusyWaiter

packer == <<mutex, queue, turnstile, fullPackingArea, packingAreaBallCount,
            pairingSystem, pc, idx, other_ids>>
list == <<jlist, next, jmutex, reported>>
input == <<unread, cmds, it>>
vars == <<packer, list, input, main, waiter, th>>

Init ==
  /\ P!Init
  /\ main = "read" /\ unread = Input /\ cmds = <<>> /\ it = <<>>
  /\ waiter = [num_ready |-> 0, go |-> FALSE, num_started |-> 0]
  /\ th = [b \in Balls |-> "none"]
  /\ jlist = {} /\ jmutex = "free" /\ reported = {}
  /\ next = [b \in Balls |-> {}]

MainGoto(from, to) == main = from /\ main' = to
ThreadGoto(b, from, to) == th[b] = from /\ th' = [th EXCEPT ![b] = to]

-----------------------------------------------------------------------------
(* main                                                                        *)

(* The commands up to the next separator, which may come at once, or to the    *)
(* end of the input; a round without balls only sleeps and collects.           *)
NextDot(n) ==
  LET read == Len(Input) - Len(unread)
  IN n # 0 => read + n = Min({i \in Dots \cup {Len(Input)} : i > read})

ReadRound(n) ==
  /\ main = "read" /\ NextDot(n)
  /\ main' = IF n = 0 THEN "sleep" ELSE "create"
  /\ cmds' = Reverse(SubSeq(unread, 1, n)) /\ it' = cmds'
  /\ unread' = SubSeq(unread, n + 1, Len(unread))
  /\ IF n = 0 THEN UNCHANGED waiter ELSE W!Reset
  /\ UNCHANGED <<packer, list, th>>

(* One turn of the loop that makes the threads.                                *)
Create ==
  /\ main = "create"
  /\ main' = IF Len(it) = 1 THEN "open" ELSE "create"
  /\ it' = Tail(it)
  /\ ThreadGoto(Head(it), "none", "ready")
  /\ UNCHANGED <<packer, list, unread, cmds, waiter>>

OpenBarrier ==
  /\ MainGoto("open", "started")
  /\ W!Open(Len(cmds))
  /\ UNCHANGED <<packer, list, input, th>>

(* All have started: the waiter goes out of scope, the commands are freed.     *)
Started ==
  /\ MainGoto("started", "sleep")
  /\ W!AllPassed(Len(cmds))
  /\ cmds' = <<>>
  /\ UNCHANGED <<packer, list, unread, it, th>>

(* usleep; pthread_mutex_lock(&jmutex)                                         *)
Wake ==
  /\ MainGoto("sleep", "collect")
  /\ jmutex = "free" /\ jmutex' = "held"
  /\ UNCHANGED <<packer, input, jlist, next, reported, waiter, th>>

(* Print a ball of the list, join its thread and free it.                      *)
Collect(b) ==
  /\ main = "collect" /\ b \in jlist
  /\ th[b] = "ended"
  /\ jlist' = jlist \ {b}
  /\ reported' = reported \cup {b}
  /\ UNCHANGED <<packer, input, main, waiter, th, next, jmutex>>

(* A ball's thread can do no more before another ball comes.                   *)
AtRest(b) ==
  \/ th[b] \in {"none", "ended"}
  \/ /\ th[b] = "pack"
     /\ \/ pc[b] = "admit" /\ fullPackingArea[Colour[b]] = 0
        \/ pc[b] = "queue" /\ queue[Colour[b]] = 0

(* The list is empty: back to the input, or break at its end.                  *)
Collected ==
  /\ main = "collect" /\ jlist = {}
  /\ \/ main' = "read"
     \/ main' = "end" /\ unread = <<>> /\ \A b \in Balls : AtRest(b)
  /\ jmutex' = "free"
  /\ UNCHANGED <<packer, input, jlist, next, reported, waiter, th>>

-----------------------------------------------------------------------------
(* run_ball                                                                    *)

Ready(b) ==
  /\ ThreadGoto(b, "ready", "spin")
  /\ W!Report
  /\ UNCHANGED <<packer, list, input, main>>

Go(b) ==
  /\ ThreadGoto(b, "spin", "pack")
  /\ W!Pass
  /\ P!Gates!Call(b)
  /\ UNCHANGED <<list, input, main>>

pack_ball(b) ==
  /\ P!pack_ball(b)
  /\ UNCHANGED <<list, input, main, waiter, th>>

(* pack_ball has returned: pthread_mutex_lock(info->jmutex), and read the head *)
(* of the list.                                                                *)
LockNothing(b) ==
  /\ pc[b] = "done"
  /\ ThreadGoto(b, "pack", "locked")
  /\ jmutex' = "held"
  /\ next' = [next EXCEPT ![b] = jlist]
  /\ UNCHANGED <<packer, input, main, waiter, jlist, reported>>

Lock(b) ==
  /\ pc[b] = "done"
  /\ ThreadGoto(b, "pack", "locked")
  /\ jmutex = "free" /\ jmutex' = "held"
  /\ next' = [next EXCEPT ![b] = jlist]
  /\ UNCHANGED <<packer, input, main, waiter, jlist, reported>>

(* The ball is the new head, before the list that it has read: its next is now *)
(* the list's.  pthread_mutex_unlock.                                          *)
PushHolding(b) ==
  /\ ThreadGoto(b, "locked", "pushed")
  /\ jlist' = next[b] \cup {b}
  /\ next' = [next EXCEPT ![b] = {}]
  /\ UNCHANGED <<packer, input, main, waiter, reported, jmutex>>

Push(b) ==
  /\ ThreadGoto(b, "locked", "pushed")
  /\ jlist' = next[b] \cup {b}
  /\ next' = [next EXCEPT ![b] = {}]
  /\ jmutex' = "free"
  /\ UNCHANGED <<packer, input, main, waiter, reported>>

Return(b) ==
  /\ ThreadGoto(b, "pushed", "ended")
  /\ UNCHANGED <<packer, list, input, main, waiter>>

-----------------------------------------------------------------------------
main_loop ==
  \/ \E b \in Balls : Collect(b)
  \/ Create \/ OpenBarrier \/ Started \/ Wake \/ Collected

run_ball(b) ==
  \/ Ready(b) \/ Go(b) \/ pack_ball(b)
  \/ Lock(b) \/ Push(b) \/ Return(b)

Next ==
  \/ \E n \in 0..Len(unread) : ReadRound(n)
  \/ main_loop
  \/ \E b \in Balls : run_ball(b)

Spec == Init /\ [][Next]_vars

(* Both loops of a driver go on whenever they can; its input need not.         *)
FairSpec == Spec /\ WF_vars(main_loop) /\ \A b \in Balls : WF_vars(run_ball(b))

-----------------------------------------------------------------------------
(* Properties                                                                  *)

(* partner() keeps the last id that differs from the caller's, and the answers *)
(* are mutual all the same, across reuses of the two slots.                    *)
PairsMutual == P!PairsMutual

(* Exercise 2's packer keeps the promise of the packer for boxes of two.       *)
ImplementsPacking == P!ImplementsPacking

(* No two balls of a colour are left waiting for each other for ever, and none *)
(* that has its partner: the gates never block a box that can be filled, nor a *)
(* ball on its way out of one.                                                 *)
FullBoxesGo == P!FullBoxesGo

(* No thread looks at the waiter of a round that is over: the waiter is on the *)
(* stack of that turn of main's loop, and the next round puts its own there.   *)
WaiterInScope ==
  \A b \in Balls : th[b] \in {"ready", "spin"} => main \in {"create", "open", "started"}

(* No answer is lost or printed twice, whenever main and the balls come to the *)
(* list: one that has been put on it is there until main has printed it, which *)
(* it does once, when the answer is complete and before the ball is freed its  *)
(* thread has ended; and at the end all the balls with a partner are printed.  *)
Listed == {b \in Balls : th[b] \in {"pushed", "ended"}}

ReportsComplete ==
  /\ \A b \in reported : th[b] = "ended" /\ Cardinality(other_ids[b]) = 1
  /\ Listed = jlist \cup reported /\ jlist \cap reported = {}
  /\ main = "end" => \A b \in Balls \ reported : other_ids[b] = {}

(* The parts of an inductive invariant.  The waiter counts the threads of the  *)
(* round, which are all that are on their way to the barrier:                  *)
Places == {"none", "ready", "spin", "pack", "locked", "pushed", "ended"}
Coming == {b \in Balls : th[b] = "ready"}
Spinning == {b \in Balls : th[b] = "spin"}

BarrierInv ==
  /\ th \in [Balls -> Places]
  /\ main \in {"read", "create", "open", "started", "sleep", "collect", "end"}
  /\ unread \in Seq(Balls) /\ cmds \in Seq(Balls) /\ it \in Seq(Balls)
  /\ waiter \in [num_ready : Nat, go : BOOLEAN, num_started : Nat]
  /\ main \in {"create", "open"} =>
       /\ ~waiter.go /\ waiter.num_started = 0
       /\ waiter.num_ready = Cardinality(Spinning)
       /\ Cardinality(Coming) + Cardinality(Spinning) + Len(it) = Len(cmds)
  /\ main = "create" <=> it # <<>>
  /\ main = "started" =>
       /\ waiter.num_started + Cardinality(Spinning) = Len(cmds)
       /\ Coming = {}
  /\ main \notin {"create", "open", "started"} => Coming = {} /\ Spinning = {}

(* ... where a thread is in run_ball says where it is in the packer, which     *)
(* never matches a ball with itself:                                           *)
ThreadInv ==
  \A b \in Balls :
    /\ th[b] \in {"none", "ready", "spin"} => pc[b] = "idle"
    /\ th[b] = "pack" => pc[b] # "idle"
    /\ th[b] \in {"locked", "pushed", "ended"} => pc[b] = "done"
    /\ b \notin other_ids[b]

(* ... one thread at a time has the list in hand, which has not changed since  *)
(* it was read, and nobody moves when main has ended:                          *)
Holders == {b \in Balls : th[b] = "locked"}

ReportInv ==
  /\ \A b, d \in Holders : b = d
  /\ jmutex = "free" \/ main = "collect" => Holders = {}
  /\ jmutex = "free" => main # "collect"
  /\ \A b \in Holders : next[b] = jlist
  /\ next \in [Balls -> SUBSET Balls]
  /\ Listed = jlist \cup reported /\ jlist \cap reported = {}
  /\ \A b \in reported : th[b] = "ended"
  /\ main = "end" => jlist = {} /\ \A b \in Balls : AtRest(b)

DriverInv == BarrierInv /\ ThreadInv /\ ReportInv

(* What every step keeps, the reason for PairsMutual, WaiterInScope and        *)
(* ReportsComplete: the driver's part and the packer's.                        *)
RoundsInv == DriverInv /\ P!Gates!PackInv

(* Every round ends: main comes back to its input, through the two spin loops, *)
(* the mutex of the list and the joins.                                        *)
RoundsEnd == main # "read" ~> main \in {"read", "end"}

=============================================================================
