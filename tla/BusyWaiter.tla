----------------------------- MODULE BusyWaiter -----------------------------
(* The start barrier of the drivers (busywaiter in Lab3/ex3/ex3.c, the same in *)
(* every exercise): main starts the threads of a round, waits until each has   *)
(* reported, lets them go at once, and waits until each has gone.  The waiter  *)
(* is a variable of one turn of main's loop, on main's stack: the next turn    *)
(* puts its own in the same place.                                             *)
EXTENDS Naturals

VARIABLE waiter   \* the busywaiter that main's stack holds

(* busywaiter_init                                                             *)
ResetOnlyGo == waiter' = [waiter EXCEPT !.go = FALSE]

Reset == waiter' = [num_ready |-> 0, go |-> FALSE, num_started |-> 0]

(* busywaiter_ball_wait: report, spin until go, and tell that one has gone.    *)
Report == waiter' = [waiter EXCEPT !.num_ready = @ + 1]

Pass == waiter.go /\ waiter' = [waiter EXCEPT !.num_started = @ + 1]

(* busywaiter_main_wait, with its two loops.                                   *)
Open(n) == waiter.num_ready = n /\ waiter' = [waiter EXCEPT !.go = TRUE]

AllPassedUnchecked(n) == waiter.go /\ UNCHANGED waiter

AllPassed(n) == waiter.num_started = n /\ UNCHANGED waiter

=============================================================================
