----------------------------- MODULE Semaphores -----------------------------
(* The POSIX semaphore operations the laboratory programs call, on an array s  *)
(* of semaphores indexed by i.  The C library is not part of the repository:   *)
(* a wait blocks while the value is 0 and takes one unit atomically, a post    *)
(* adds one.  Which of several blocked threads wins is left open, as POSIX     *)
(* leaves it open for threads of the default scheduling policy.                *)
EXTENDS Naturals

sem_wait(s, i) == s[i] > 0 /\ s' = [s EXCEPT ![i] = @ - 1]

sem_post(s, i) == s' = [s EXCEPT ![i] = @ + 1]

=============================================================================
