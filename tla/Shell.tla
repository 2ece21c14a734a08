-------------------------------- MODULE Shell -------------------------------
(* The shell of Lab2/myshell.c under the loop of Lab2/driver.c: it runs        *)
(* programs in the foreground, in the background and in chains, keeps what it  *)
(* knows of them in child_PID_tracker, and terminates them on quit.  Every     *)
(* fork, waitpid and kill is a step, between which children run and end, and   *)
(* the pids of children that were waited for go to other processes.            *)
(*                                                                             *)
(* A command line is a sequence of tokens that ends with NULL; what atoi makes *)
(* of the argument of wait and terminate is any pid.  The files are fixed: the *)
(* ones that programs or redirections create are not followed.                 *)
EXTENDS Integers, SequencesExt, FiniteSetsExt

CONSTANTS MAX_PROCESSES,
          Lines,         \* what the user types
          Files,         \* the tokens that name an existing file
          Pids,          \* the pids of this user's processes, but for the shell
          Codes,         \* the exit codes of programs
          Crashes,       \* TRUE: a program may be ended by a signal of its own
          ForkFails,     \* TRUE: fork may fail
          Other          \* the owner of a process that is not the shell's child

ASSUME TableAssumption == MAX_PROCESSES \in Nat \ {0}
ASSUME LinesAssumption ==
  \A t \in Lines : /\ t \in Seq(STRING) /\ t # <<>>
                   /\ \A k \in 1..Len(t) : t[k] = "NULL" <=> k = Len(t)
ASSUME PidsAssumption == Pids \subseteq Nat \ {0} /\ Other \notin 0..MAX_PROCESSES-1
ASSUME CodesAssumption == 0 \in Codes /\ Codes \subseteq 0..255

VARIABLES child_PID_tracker,     \* [0] the pid and [1] the status of a program
          new_child_PID_Index,
          pc,
          cmd,       \* the tokens my_process_command is given
          rest,      \* the commands of the chain after it
          chained,   \* whether ex2c_process called it
          target,    \* the pid that wait or terminate is given
          i,         \* the loop variable of info, wait, terminate and quit
          kernel,    \* kernel[p]: the process with pid p, until it is waited for
          outcome    \* history: what became of the program of cmd

table == <<child_PID_tracker, new_child_PID_Index>>
input == <<cmd, rest, chained, target>>
vars == <<table, pc, input, i, kernel, outcome>>

INCOMPLETE_FORK == -1
TERMINATING_FORK == -2
Slots == 0..MAX_PROCESSES-1

(* The status waitpid reports of a process that a signal ended; its exit code  *)
(* field, which is all that WEXITSTATUS looks at, is 0.                        *)
SIGNALLED == 256
WEXITSTATUSWhole(raw) == raw
WEXITSTATUS(raw) == IF raw = SIGNALLED THEN 0 ELSE raw

-----------------------------------------------------------------------------
(* The command line                                                            *)

check_command(t) ==
  LET n == Len(t)
  IN CASE n < 2 -> 0
       [] n = 2 /\ t[1] = "info" -> 1
       [] n = 2 /\ t[1] # "info" -> IF t[1] \in Files THEN 2 ELSE 0
       [] n > 2 /\ t[1] = "wait" -> 4
       [] n > 2 /\ t[1] = "terminate" -> 5
       [] n > 2 /\ t[1] \notin Files \cup {"wait", "terminate"} -> 0
       [] OTHER -> CASE "&&" \in ToSet(t) -> 6
                     [] "&&" \notin ToSet(t) /\ t[2] \in {"<", ">", "2>"} -> 8
                     [] OTHER -> CASE t[3] \in {">", "2>"} -> 9
                                   [] t[3] \notin {">", "2>"} /\ t[n-1] = "&" -> 3
                                   [] OTHER -> 2

(* ex2c_process cuts the line at each "&&" and ends each command with a NULL.  *)
Commands(t) ==
  LET ends == {k \in 1..Len(t) : t[k] \in {"&&", "NULL"}}
      end(j) == IF j = 0 THEN 0
                ELSE CHOOSE k \in ends : Cardinality(ends \cap 1..k) = j
  IN [j \in 1..Cardinality(ends) |->
        SubSeq(t, end(j - 1) + 1, end(j) - 1) \o <<"NULL">>]

Line(t) == IF check_command(t) = 6 THEN Commands(t) ELSE <<t>>

Runs(t) == check_command(t) \in {2, 3, 8, 9}
Background(t) ==
  \/ check_command(t) = 3
  \/ check_command(t) \in {8, 9} /\ t[Len(t)-1] = "&"
MissingInput(t) == check_command(t) = 8 /\ t[2] = "<" /\ t[3] \notin Files

-----------------------------------------------------------------------------
(* The kernel                                                                  *)

Children == {p \in DOMAIN kernel : kernel[p].owner # Other}
Process(owner) == [owner |-> owner, state |-> "running", term |-> FALSE, raw |-> 0]
Started(p, owner) ==
  [q \in DOMAIN kernel \cup {p} |-> IF q = p THEN Process(owner) ELSE kernel[q]]
Reaped(p) == [q \in DOMAIN kernel \ {p} |-> kernel[q]]

(* kill(pid, SIGTERM): -1 stands for every process.  It fails if there is none.*)
Targets(pid) == IF pid = -1 THEN DOMAIN kernel ELSE {pid} \cap DOMAIN kernel
Signal(pid) ==
  kernel' = [q \in DOMAIN kernel |-> [kernel[q] EXCEPT !.term = @ \/ q \in Targets(pid)]]

(* waitpid(pid, &status, 0): -1 stands for any child.  It returns at once, with*)
(* an error and status not written, when there is no such child.               *)
Awaited(pid) == IF pid = -1 THEN Children ELSE {pid} \cap Children
Ended(pid) == {p \in Awaited(pid) : kernel[p].state = "zombie"}

waitpid(pid, Store(_)) ==
  \/ \E p \in Ended(pid) : kernel' = Reaped(p) /\ Store(WEXITSTATUS(kernel[p].raw))
  \/ /\ Awaited(pid) = {}
     /\ \E garbage \in Codes : Store(garbage)
     /\ UNCHANGED kernel

(* A process ends, by itself or by a signal.                                   *)
Exit(p, raw) ==
  /\ p \in DOMAIN kernel /\ kernel[p].state = "running"
  /\ kernel' = IF kernel[p].owner = Other THEN Reaped(p)
               ELSE [kernel EXCEPT ![p].state = "zombie", ![p].raw = raw]
  /\ UNCHANGED <<table, pc, input, i, outcome>>

Ends(p) == \E raw \in Codes \cup (IF Crashes THEN {SIGNALLED} ELSE {}) : Exit(p, raw)
DiesOfTerm(p) ==
  p \in DOMAIN kernel /\ kernel[p].term /\ \E raw \in Codes \cup {SIGNALLED} : Exit(p, raw)

OtherStarts(p) ==
  /\ p \notin DOMAIN kernel
  /\ kernel' = Started(p, Other)
  /\ UNCHANGED <<table, pc, input, i, outcome>>

-----------------------------------------------------------------------------
(* The shell                                                                   *)

Init ==
  /\ child_PID_tracker = [s \in Slots |-> [pid |-> 0, status |-> 0]]
  /\ new_child_PID_Index = 0
  /\ pc = "prompt"
  /\ cmd = <<"NULL">> /\ rest = <<>> /\ chained = FALSE /\ target = 0
  /\ i = 0
  /\ kernel = <<>>
  /\ outcome = "none"

Status(s, v) == child_PID_tracker' = [child_PID_tracker EXCEPT ![s].status = v]
Goto(to) == pc' = to /\ i' = 0

(* A bound on the input: the table has room for the programs of the line.      *)
Running(cmds) == {j \in DOMAIN cmds : Runs(cmds[j])}

Room(t) == new_child_PID_Index + Cardinality(Running(Line(t))) <= MAX_PROCESSES

(* The driver reads a line.                                                    *)
ReadLine(t) ==
  /\ pc = "prompt" /\ Room(t)
  /\ cmd' = Head(Line(t)) /\ rest' = Tail(Line(t))
  /\ chained' = (check_command(t) = 6)
  /\ Goto(IF t[1] = "quit" THEN "quit" ELSE "command")
  /\ outcome' = "none"
  /\ UNCHANGED <<table, target, kernel>>

EndOfFile ==
  /\ pc = "prompt"
  /\ Goto("shutdown")
  /\ UNCHANGED <<table, input, kernel, outcome>>

(* A command is done: ex2c_process looks at the last entry of the table before *)
(* it goes on, and my_process_command otherwise returns to the driver.         *)
Return == IF chained THEN "judge" ELSE "prompt"

(* my_process_command, for the commands that are not in the table.             *)
Dispatch ==
  /\ pc = "command"
  /\ \/ check_command(cmd) = 0 /\ Goto("prompt")
     \/ check_command(cmd) = 1 /\ Goto("info")
     \/ check_command(cmd) = 4 /\ Goto("wait")
     \/ check_command(cmd) = 5 /\ Goto("terminate")
     \/ MissingInput(cmd) /\ Goto(Return)
  /\ target' \in IF check_command(cmd) \in {4, 5} THEN Pids ELSE {0}
  /\ outcome' = IF MissingInput(cmd) THEN "missing" ELSE "none"
  /\ UNCHANGED <<table, cmd, rest, chained, kernel>>

(* fork, and the entry of the program: what ex1a, ex1b and all the ex3 variants *)
(* with redirections do.  In a foreground one the index moves on only when the *)
(* program has been waited for.                                                *)
ForkResults == (Pids \ DOMAIN kernel) \cup (IF ForkFails THEN {-1} ELSE {})

Fork(pid) ==
  /\ pc = "command" /\ Runs(cmd) /\ ~MissingInput(cmd)
  /\ kernel' = IF pid = -1 THEN kernel ELSE Started(pid, new_child_PID_Index)
  /\ child_PID_tracker' = [child_PID_tracker EXCEPT
       ![new_child_PID_Index] = [pid |-> pid, status |-> INCOMPLETE_FORK]]
  /\ IF Background(cmd)
     THEN Goto(Return) /\ new_child_PID_Index' = new_child_PID_Index + 1
     ELSE Goto("await") /\ UNCHANGED new_child_PID_Index
  /\ outcome' = IF Background(cmd) THEN "background" ELSE "none"
  /\ UNCHANGED input

(* The wait for a foreground program.                                          *)
AwaitForgets ==
  LET s == new_child_PID_Index
  IN /\ pc = "await"
     /\ waitpid(child_PID_tracker[s].pid, LAMBDA code : UNCHANGED child_PID_tracker)
     /\ new_child_PID_Index' = s + 1
     /\ Goto(Return)
     /\ outcome' = "exit0"
     /\ UNCHANGED input

Await ==
  LET s == new_child_PID_Index
      pid == child_PID_tracker[s].pid
  IN /\ pc = "await"
     /\ waitpid(pid, LAMBDA code : Status(s, code))
     /\ new_child_PID_Index' = s + 1
     /\ Goto(Return)
     /\ outcome' = IF pid \in DOMAIN kernel /\ kernel[pid].raw = 0 THEN "exit0"
                   ELSE "failed"
     /\ UNCHANGED input

(* ex2c_process, after a command: go on only if the program exited with 0.     *)
(* With no entry in the table, it reads what lies before the table.            *)
LastStatus == IF new_child_PID_Index = 0 THEN Codes \cup {INCOMPLETE_FORK}
              ELSE {child_PID_tracker[new_child_PID_Index - 1].status}

JudgeFailureOnly ==
  /\ pc = "judge"
  /\ \E status \in LastStatus :
       IF status > 0 \/ rest = <<>>
       THEN Goto("prompt") /\ UNCHANGED input
       ELSE Goto("command") /\ cmd' = Head(rest) /\ rest' = Tail(rest)
            /\ UNCHANGED <<chained, target>>
  /\ UNCHANGED <<table, kernel, outcome>>

Judge ==
  /\ pc = "judge"
  /\ \E status \in LastStatus :
       IF status # 0 \/ rest = <<>>
       THEN Goto("prompt") /\ UNCHANGED input
       ELSE Goto("command") /\ cmd' = Head(rest) /\ rest' = Tail(rest)
            /\ UNCHANGED <<chained, target>>
  /\ UNCHANGED <<table, kernel, outcome>>

-----------------------------------------------------------------------------
(* The loops over the table: a step for each entry that meets the guard of the *)
(* loop, the others being passed over with it.                                 *)

Unfinished == {INCOMPLETE_FORK, TERMINATING_FORK}
Has(s, statuses) == child_PID_tracker[s].status \in statuses

Loop(at, Guard(_), Body(_), after) ==
  LET found == {s \in i..MAX_PROCESSES-1 : Guard(s)}
  IN /\ pc = at
     /\ IF found # {} THEN Body(Min(found))
        ELSE Goto(after) /\ UNCHANGED <<child_PID_tracker, kernel>>
     /\ UNCHANGED <<new_child_PID_Index, input, outcome>>

Resume(s) == i' = s /\ UNCHANGED pc

Wait(s) ==
  /\ waitpid(child_PID_tracker[s].pid, LAMBDA code : Status(s, code))
  /\ Resume(s + 1)

(* kill, after which the entry is TERMINATING.  When it fails the shell exits. *)
Kill(s, next) ==
  LET pid == child_PID_tracker[s].pid
  IN IF Targets(pid) = {}
     THEN Goto("ERROR_KILL") /\ UNCHANGED <<child_PID_tracker, kernel>>
     ELSE Signal(pid) /\ Status(s, TERMINATING_FORK) /\ Resume(next)

(* info: waitpid with WNOHANG, so that a running child is left alone.          *)
ex1c_show_info ==
  LET Alive(s) == Awaited(child_PID_tracker[s].pid) # {}
                  /\ Ended(child_PID_tracker[s].pid) = {}
  IN Loop("info", LAMBDA s : Has(s, Unfinished),
          LAMBDA s : \/ Wait(s)
                     \/ Alive(s) /\ Resume(s + 1) /\ UNCHANGED <<child_PID_tracker, kernel>>,
          Return)

(* wait {PID}: blocks until the child has ended.                               *)
ex2a_wait_PIDAny ==
  Loop("wait", LAMBDA s : child_PID_tracker[s].pid = target, Wait, Return)

ex2a_wait_PID ==
  Loop("wait", LAMBDA s : child_PID_tracker[s].pid = target /\ Has(s, Unfinished),
       Wait, Return)

(* terminate {PID}                                                             *)
ex2b_terminate_PID ==
  Loop("terminate",
       LAMBDA s : child_PID_tracker[s].pid = target /\ Has(s, {INCOMPLETE_FORK}),
       LAMBDA s : Kill(s, s + 1), Return)

(* quit: kill what is not finished, and wait for it before the next entry.     *)
my_quitNoKill ==
  Loop("quit", LAMBDA s : Has(s, Unfinished), Wait, "goodbye")

my_quitSkipsTerminating ==
  Loop("quit", LAMBDA s : Has(s, {INCOMPLETE_FORK}), LAMBDA s : Kill(s, s + 1), "goodbye")

my_quit ==
  Loop("quit", LAMBDA s : Has(s, Unfinished),
       LAMBDA s : IF Has(s, {INCOMPLETE_FORK}) THEN Kill(s, s) ELSE Wait(s), "goodbye")

-----------------------------------------------------------------------------
ShellStep ==
  \/ Dispatch \/ (\E pid \in ForkResults : Fork(pid)) \/ Await \/ Judge
  \/ ex1c_show_info \/ ex2a_wait_PID \/ ex2b_terminate_PID \/ my_quit

Next ==
  \/ ShellStep \/ EndOfFile
  \/ \E t \in Lines : ReadLine(t)
  \/ \E p \in Pids : Ends(p) \/ DiesOfTerm(p) \/ OtherStarts(p)

Spec == Init /\ [][Next]_vars

(* The shell goes on when it can, and a program that is sent SIGTERM ends, as  *)
(* those of Lab2/programs do (lazy takes five seconds); no other program need. *)
FairSpec == Spec /\ WF_vars(ShellStep) /\ \A p \in Pids : WF_vars(DiesOfTerm(p))

-----------------------------------------------------------------------------
(* Properties                                                                  *)

(* Every variable has its type: the status of an entry is an exit code or one  *)
(* of the two marks, so that it is never mistaken for the other.               *)
TypeOK ==
  /\ child_PID_tracker \in
       [Slots -> [pid : Pids \cup {-1, 0}, status : Codes \cup Unfinished]]
  /\ new_child_PID_Index \in 0..MAX_PROCESSES
  /\ i \in 0..MAX_PROCESSES
  /\ DOMAIN kernel \subseteq Pids

(* The entries without an exit status are exactly the children that have not   *)
(* been waited for, each at its pid: the table is right about every process,   *)
(* whatever ends when.                                                         *)
TrackerMatchesChildren ==
  {<<s, child_PID_tracker[s].pid>> : s \in {n \in Slots : Has(n, Unfinished)}}
    = {<<kernel[p].owner, p>> : p \in Children}

(* The parts of an inductive invariant.  A child is known at the entry that    *)
(* started it, until it has been waited for; only a program in the foreground  *)
(* has its entry where the next program will have its own:                     *)
Tracked ==
  /\ \A s \in Slots : Has(s, Unfinished) =>
       /\ child_PID_tracker[s].pid \in Children
       /\ kernel[child_PID_tracker[s].pid].owner = s
       /\ s < new_child_PID_Index \/ (s = new_child_PID_Index /\ pc = "await")
  /\ \A p \in Children : /\ Has(kernel[p].owner, Unfinished)
                         /\ child_PID_tracker[kernel[p].owner].pid = p
  /\ pc = "await" => /\ new_child_PID_Index \in Slots
                     /\ Has(new_child_PID_Index, {INCOMPLETE_FORK})

(* ... what is left of a line is left of a chain, and the table has room for   *)
(* the programs in it:                                                         *)
Chains == UNION {ToSet(Commands(t)) : t \in {l \in Lines : check_command(l) = 6}}

LineInv ==
  /\ chained \in BOOLEAN /\ rest \in Seq(Chains)
  /\ chained => cmd \in Chains
  /\ ~chained => rest = <<>> /\ pc # "judge"

RoomInv ==
  new_child_PID_Index + Cardinality(Running(rest))
    + (IF pc = "await" \/ (pc = "command" /\ Runs(cmd)) THEN 1 ELSE 0) <= MAX_PROCESSES

(* ... quit leaves nothing unfinished behind it:                               *)
QuitInv ==
  /\ pc = "quit" => \A s \in 0..i-1 : ~Has(s, Unfinished)
  /\ pc = "goodbye" => \A s \in Slots : ~Has(s, Unfinished)

(* ... the entry that a chain is judged by is the one of the program that ran, *)
(* if only a signal of the shell ends a program and every command of a chain   *)
(* finds its input:                                                            *)
ChainsRun == ~Crashes /\ \A c \in Chains : ~MissingInput(c)

ChainInv ==
  /\ \A p \in Children : kernel[p].raw = SIGNALLED => kernel[p].term
  /\ pc = "await" => ~kernel[child_PID_tracker[new_child_PID_Index].pid].term
  /\ pc \in {"info", "wait", "terminate"} => outcome = "none"
  /\ pc = "judge" =>
       \/ outcome \in {"exit0", "none"}
       \/ /\ new_child_PID_Index > 0
          /\ child_PID_tracker[new_child_PID_Index - 1].status # 0

(* ... and every variable has its type; the shell never exits over a kill.     *)
Processes == [owner : Slots \cup {Other}, state : {"running", "zombie"},
              term : BOOLEAN, raw : Codes \cup {SIGNALLED}]

Shape ==
  /\ TypeOK
  /\ pc \in {"prompt", "command", "await", "judge", "info", "wait", "terminate",
             "quit", "goodbye", "shutdown"}
  /\ kernel \in [DOMAIN kernel -> Processes]
  /\ target \in Pids \cup {0}

(* What every step keeps: the reason for all that follows but for QuitEnds.    *)
ShellInv == Shape /\ Tracked /\ LineInv /\ RoomInv /\ QuitInv /\ (ChainsRun => ChainInv)

(* terminate and quit only ever signal children of the shell, although a pid   *)
(* goes to another process once its child was waited for.                      *)
KillsOnlyChildren ==
  [][ \A p \in DOMAIN kernel \cap DOMAIN kernel' :
        kernel'[p].term /\ ~kernel[p].term => kernel[p].owner # Other ]_vars

(* The exit status the shell has for a program never changes afterwards.       *)
StatusFinal ==
  [][ \A s \in Slots : s < new_child_PID_Index /\ ~Has(s, Unfinished)
        => child_PID_tracker'[s] = child_PID_tracker[s] ]_vars

(* When quit says goodbye, no child of the shell is running or unwaited for.   *)
QuitLeavesNone == pc = "goodbye" => Children = {}

(* A chain goes on only from a program that exited with 0 (or from a command   *)
(* that runs no program), as the comment "fail exit" of ex2c_process says.     *)
ChainStops ==
  [][pc = "judge" /\ pc' = "command" => outcome \in {"exit0", "none"}]_vars

(* quit gets to its goodbye: it waits for no child that it has not signalled.  *)
QuitEnds == (pc = "quit") ~> (pc = "goodbye")

=============================================================================
