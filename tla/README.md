# A verification development for the CS2106 labs

The repository is the solution set of an operating-systems course: semaphore
programs (Lab 3), a shell (Lab 2), a user-level pager (Lab 4) and an introductory
lab on pointers and scripts (Lab 1). This directory holds TLA+ models of the parts
that keep state, the TLC runs that check them on small instances, and TLAPS proofs
about the packers of exercises 2 and 3, the restaurants of exercises 4 and 5, the
drivers of exercises 2 and 4, the pager, the shell and the circular list. `PROJECT.json`
lists the runs, the source lines behind each definition, the hazards, the findings and
the theorems.

    tlc -workers 2 -config MCPacker.cfg MCPacker     # any run: see the table below
    tlapm PackerProofs.tla                           # a proof module: one to ten minutes

## The system

| part | state | operations | interacts with |
|---|---|---|---|
| packer, `Lab3/ex3/packer.c` | per colour: `mutex`, `queue`, `turnstile`, `fullPackingArea`, a count, the slots `pairingSystem` | `packer_init`, `pack_ball`, `packer_destroy` | one thread per ball calls `pack_ball`; threads meet only through the semaphores and the slots |
| packer, `Lab3/ex2/packer.c` | the same, two slots | the same, `partner` instead of `packaging` | the same |
| packer, `Lab3/ex1/packer.c` | the same without the admission gate | the same | the same |
| ball drivers `ex1.c`–`ex3.c` | threads, a busy waiter on the stack of each round, a list of matched balls under a mutex | read a round, let its threads go at once, sleep, print and join the matched | call the packer; threads and `main` meet in the waiter and in the list |
| restaurant, `Lab3/ex4` | four semaphores per table type, the slots of each type, a global queue of groups and its index, a semaphore per group | `request_for_table`, `leave_table` and what they call | one thread per group; a leaver calls the next group through its semaphore |
| restaurant, `Lab3/ex5` | the same; `size_of_group` turns into the type of the table | the same, a group may sit at a larger table | the same |
| restaurant, `Lab3/ex6` | the same plus seats per table | groups share tables | the same |
| restaurant drivers `ex4.c`–`ex6.c` (one file) | a thread per group, a busy waiter per batch, a semaphore per group to leave, the counter of `on_enqueue`, the lists of the newly and of all seated | read a batch, let its threads go at once, sleep, await the enqueued, join the departed, take over the seated | call the restaurant, which calls `on_enqueue` back |
| userswap, `Lab4/userswap.c` | the page table of each region, the resident list and its size, the free slots, the swap or backing file | `userswap_set_size`, `_alloc`, `_map`, `_free`, the SIGSEGV handler | the client touches memory; the handler runs inside the access |
| workloads `Lab4/workload_*.c` | a region and a loop | sweep, check, free | clients of userswap |
| shell, `Lab2/myshell.c` | `child_PID_tracker`, `new_child_PID_Index` | run (foreground, background, redirected), `info`, `wait`, `terminate`, `&&` chains, `quit` | the kernel: fork, waitpid, kill; children end whenever they like |
| shell driver, `Lab2/driver.c` | none | read a line, tokenise, dispatch, `quit` | calls the shell |
| circular list, `Lab1/ex2,ex3` | a ring of nodes | insert, delete, rotate, map, reset | sequential |
| scripts, `Lab1` | none | print and archive | none |

What is hard here: barriers made of semaphores that must be *reusable* while late
threads are still on their way out; data read with no lock held; a count that is
read and then acted upon; a busy waiter that goes out of scope; a wake-up posted to a thread that has not begun to wait,
or twice to one; indices shared by threads that hold different mutexes; a pager
whose page, list, slot and file must agree after any sequence of faults; a table of
child processes that ends, reaps and re-uses pids behind its back. `hazards` in
`PROJECT.json` lists each of these at its line.

What makes each part correct:

* packer: the answers partition the balls over full boxes of one colour, no box
  that can be filled is held up, and every matched ball returns;
* restaurant: no table has two groups, tables are conserved, no table stays free
  while a group that fits waits, and groups of a size are served in order;
* userswap: memory behaves as memory, the resident list is what the client can
  touch, the limit is kept, and the handler never ends the process;
* shell: the table is right about every child, signals go to children only, an exit
  status is final, a chain stops at a failure, and `quit` ends with no child left;
* list: each operation does on the ring what it says on a sequence.

## The modules

| module | models | how |
|---|---|---|
| `Semaphores` | `sem_wait`, `sem_post` | external: atomic, blocking at zero, any waiter may win |
| `Packing` | the promise of `packer.h` | abstract: balls arrive, N of a colour are packed at once, each returns |
| `Packer` | `Lab3/ex3/packer.c` | one action per semaphore call and per unlocked read; `pc[b]` is the place of the thread of ball `b`; the label says which call comes next |
| `PackerProofs` | theorems about `Packer`: its gates; its boxes and its promise | TLAPS |
| `PackerPair` | `Lab3/ex2/packer.c` | the gates of `Packer` with N = 2 by INSTANCE, and `partner` |
| `PackerOneShot` | `Lab3/ex1/packer.c` | the gates without admission; the slots as one flat array, as C lays it out |
| `BusyWaiter` | the `struct busywaiter` of the drivers | its two spin loops and counters, on a record of the caller's |
| `BallRounds` | `Lab3/ex2/ex2.c` with its packer | `main` and the threads' `run_ball` around the steps of `PackerPair`; `main` wakes at any time, and the list of the matched is read and written in two steps under its mutex; ex1 and ex3 differ in what they print and how they initialise |
| `BallRoundsProofs` | theorems about `BallRounds` and, through it, `PackerPair` | TLAPS; `PackerProofs` by INSTANCE with N = 2 |
| `Seating` | the promise of `restaurant.h` | abstract: a line, a table per seated group, first come first served per table type |
| `Restaurant` | `Lab3/ex4/restaurant.c` | each of the three statements that use `new_group_index` reads it in one step and acts in another, because the mutexes do not protect it; so are the find and the look at the group found, in `call_next_group`, which ends the program at an entry that was never written (`Up`) |
| `RestaurantProofs` | theorems about `Restaurant`: its tables, however commands run; its line and its promise, one command at a time | TLAPS |
| `GroupRounds` | `Lab3/ex4/ex4.c` with its restaurant | `main` and the threads' `run_group` around the steps of `Restaurant`; ex5 and ex6 have the same driver |
| `GroupRoundsProofs` | theorems about `GroupRounds` | TLAPS; `RestaurantProofs` by INSTANCE |
| `RestaurantAny` | `Lab3/ex5/restaurant.c` | the steps of `Restaurant` by INSTANCE, at the type in `size_of_group`, and the ones that differ |
| `RestaurantAnyProofs` | theorems about `RestaurantAny`, one command at a time | TLAPS; what `RestaurantProofs` says of numbers, tables and lines by INSTANCE |
| `RestaurantShare` | `Lab3/ex6/restaurant.c` | the steps of `Restaurant` and `RestaurantAny` by INSTANCE; the use of each table next to the occupied slots |
| `PagedMemory` | what userswap promises | abstract: a region is an array of pages, a backing file is a sequence; one action for each thing a client may do |
| `UserSwap` | `Lab4/userswap.c` | one action per call or fault (one thread); a page's contents are one value; each call and each store is held to the action of `PagedMemory` of its name, and a fault to none |
| `UserSwapProofs` | theorems about `UserSwap` | TLAPS |
| `Workloads` | `Lab4/workload_*.c` | each program is the sequence of its accesses over `UserSwap` |
| `NumberList` | the comments of `Lab1/ex3/node.c` | abstract: the instruction that has been read is run on a sequence of numbers |
| `CircularList` | `Lab1/ex3/node.c`, the loop of `ex3.c` | one action to read an instruction and one to run it; a node is an address, a freed one leaves the domain of `next`, by `Without`, a new one joins it, by `With` |
| `CircularListProofs` | theorems about `CircularList` | TLAPS |
| `Shell` | `Lab2/myshell.c`, the loop of `driver.c` | one action per fork, waitpid and kill; the kernel's processes end, and pids are re-used, in between |
| `ShellProofs` | theorems about `Shell` | TLAPS |

`MC*` modules give the constants their values. A definition that is used only to
show that a property can fail stands just before the one it varies
(`AdmitUngated` before `Admit`, and so on) and is not part of any `Next`.

Abstractions. Ids are the balls themselves, except where the code compares them
(`Id`). `other_ids` is a set: the header leaves the order open. Where C reads
memory that nothing has set (an offset nobody wrote, a status `waitpid` did not
store, the entry before the table) the model takes any value the type allows.
Printing, parsing of the drivers' input and `*_destroy` are left out. In
`Restaurant` a semaphore call is one with the step after it that no other thread can
disturb. The start of `request_for_table`, up to the ticket, is one step as well: what
comes before the read of the index is the thread's own, or a count that only `main` looks
at and waits for, so the wait for the mutex and `on_enqueue` can be put off to that read.
A loop over the slots of a type, the search for the next live ticket and the two looks
at the group there are one step each, which is coarser than the code: a leaver may clear
a slot, under another lock, while a loop looks for a free one, but only one group at a
time takes a slot of a type. In
`UserSwap` the words of a page are one value, since no code of the pager looks
inside a page. In `Shell` a line is its tokens, and the number typed after `wait`
or `terminate` is any pid.

## The runs

| run | question | bounds |
|---|---|---|
| `packer_boxes` (`MCPacker.cfg`) | is the barrier right, are the answers, and does it implement `Packing`? | 7 balls of one colour, boxes of 3: the area is filled, drained, filled again, with one ball over; balls are symmetric. The colours share nothing (`OtherColours` and `OtherBoxes` prove it), so one suffices |
| `ball_rounds` (`MCBallRounds.cfg`) | exercise 2 under its driver: are pairs mutual, does every pair go, does every round end, is every match printed once, whenever `main` takes the list? | 4 balls of one colour, boxes of 2, rounds of three and one, so that a ball waits for the second round, with empty rounds anywhere, no symmetry: 232 thousand states, two minutes |
| `one_shot_third` | *finding*: a third ball in exercise 1 | 3 balls |
| `group_rounds` (`MCGroupRounds.cfg`) | exercise 4 under its driver, one command in a batch: is it first come, first served, with no idle table, and does every batch end? | 3 small groups and 1 large, one table of each type: 74 thousand states |
| `seats_batch` (`MCRestaurantBatch.cfg`) | exercise 4 with commands run together: what survives the races? | 2 groups of one size and 1 of another, one table of each, any commands at any time, each read of the queue index a step: 363 thousand states; two sizes race, and a leaver and a waiter of one size meet what the race left |
| `share` (`MCRestaurantShare.cfg`) | *finding*: exercise 6 sends a group to a table with no seat for it | 3, 2 and 2 groups of one, two and three, a table of each type, one command at a time |
| `any_quiet` (`MCRestaurantAnyQuiet.cfg`) | exercise 5 with one command at a time | 3 small groups, 1 large, one table of each type |
| `swap_map` (`MCUserSwapMap.cfg`) | is a mapped file plain memory? | a file of 2 pages mapped as 4, limit 3 (or lowered before the mapping), and a 2-page allocation before or after; pages of 2 bytes, three values |
| `swap_stale` | *finding*: an allocated page reads another's contents | 3 pages, limit 2, a client that writes to each page before it goes on (`WriterSpec`), as `workload_wraddr.c` does |
| `workloads` (`MCWorkloads.cfg`) | do the repository's own programs finish with the right values? | 20 pages, 16 of them resident: the proportion of the originals (2560 and 2106), so that every page is evicted |
| `list` (`MCCircularList.cfg`) | does each instruction do to the ring what it says, at its own index and with its own argument? | up to 4 nodes, numbers modulo 3, rotations by 0, 1, 3 and 6: 19 thousand states |
| `shell` (`MCShell.cfg`) | the table, the signals, chains and quit | 4 entries, 2 pids, 11 command lines, exit codes 0 and 1 |

The inductive invariants of the proofs are checked by the runs too: `PackInv` in
`packer_boxes`, `SeatInv` in `seats_batch`, `QuietInv` in `any_quiet`, `SwapInv` in `swap_map`, `ShellInv` in `shell`, and `RoundsInv`, which
has the packer's or the restaurant's in it (`QuietInv` of exercise 4), in the runs
of the drivers. They have the type invariants as a part or imply them. `RingIntact`,
checked in `list`, has the types of the list and says in steps from the head what
`ListInv` says with a listing of the nodes.

Why these are enough: what can go wrong in the packer takes a second use of the
area and a straggler of the first; what can go wrong in the restaurant takes a
leaver and a waiter, or two arrivals of different sizes; eviction needs one page
more than the limit, and a return of an evicted page; the shell's hazards need a
pid that is re-used while an old entry still names it, which two pids give; a
driver's hazards need a thread of an earlier round that is still waiting or on its way
to the list, or a group that is seated by another's leaving. What the bounds cut off, more balls, groups, sizes,
tables, processes, exit codes and command lines, is what the proofs are about: those
of the packers of exercises 2 and 3, of the restaurants of exercises 4 and 5, of the
drivers of exercises 2 and 4, of the pager, of the shell and of the list.

Bounds in the models themselves: `Room` in `Shell` (the programs of a line fit in
the table: the code has no check, see below) and one call per thread in the
packer and restaurant modules, as the drivers make them. `BatchSize` bounds the
commands of a batch in `GroupRounds`; the rounds of `BallRounds` are those of its
`Input` and its separators, `Dots`.

`CHECK_DEADLOCK FALSE` stands in every cfg because these systems may stop: balls
and groups may wait for company that never arrives, the input may end, the client
may be done, and the shell ends. That none of them stops too early is what
`RoundsEnd`, `FullBoxesGo`, `QuitEnds`, `Completes` and `NoIdleTable` are for.

`Together` in the restaurant modules stands for the driver: FALSE is a driver that is
given one command in each batch, so that a command begins when every thread is at
rest; with TRUE commands may run together. `RestaurantAny` and `RestaurantShare` are
checked with FALSE, and `~Together` is the hypothesis of
`RestaurantAnyProofs` and of the second half of `RestaurantProofs`.
`GroupRounds` has the driver itself, and therefore takes `Restaurant` with TRUE; that
with `BatchSize = 1` it then implements `Restaurant` with FALSE is a theorem
(`DriverImplementsRestaurant`), and so the abstraction is not taken on trust.

Fairness is stated where the processes are: in the drivers' modules, the shell and
the workloads. `WF(main_loop)` and `WF(run_ball(b))` or `WF(run_group(g))` for each
thread: a thread that can go on is scheduled, spinning included; that a waiter is
favoured over newcomers is not assumed, POSIX does not give it. Reading the input is
not fair. A driver sleeps a fixed time ("during grading, we will wait for at least as
many balls as we expect", `ex2.c:155`, `ex4.c:246`). In `BallRounds` `main` wakes at any
time: it may take the list while balls are packed, or wait for its mutex while a ball
is on it, and what it misses it prints in a later round. Only the sleep before `main`
returns is taken to outlast the work that is left, since to return ends the threads. In
`GroupRounds` `main` wakes when every thread waits for another command, because the
driver relies on it: woken earlier, it may look for a group among the seated before the
group has said that it sits, and declare a failure.
`WF(ShellStep)`: the shell is one sequential program. `WF(DiesOfTerm(p))`: a
process that has been sent SIGTERM ends (the repository's `lazy` takes five seconds
over it); a process that has not been signalled need never end (`infinite`).
`WF(WNext)`: a workload runs as long as it can.

## What the runs show

*Packer, exercise 3.* Exactly as `packer.h` promises for distinct ids, as is also
proved, although the
answers are read with no lock held, the tickets of the next box are handed out
before the queue gate is shut, and the ball that fills the area waits for the exit
gate with the mutex in hand. *Exercise 2* likewise, and its driver prints each matched
ball once, whenever `main` comes to the list: a thread that finds the mutex taken puts
itself on the list for a later round, and `main`, which joins threads with the mutex in
hand, joins only those that have given it up. No thread looks at a waiter that is out of
scope, as `main` leaves the scope when all have started. All of this is proved as well
but for the rounds' end. *Exercise 1* only while at most two
balls of a colour are under way.

*Restaurant, exercise 4.* With one command in each batch it implements `Seating`, no
leaver looks at the state of a group whose thread has ended, and the driver's own
tests never declare a failure; this is proved, from the driver's code, too. With
several, tables are still conserved and never shared, as is also proved, but the order
and the wake-ups are not safe, nor are the entries of the queue, nor the life of the
states that it points to.
*Exercise 5* with one command at a time also implements `Seating`, which is proved, too;
with several a group may find no table of the type it was sent to. *Exercise 6* does not keep to the seats of a table even
then.

*userswap.* A mapped file is plain memory, as is also proved, and so is an allocated
region within its limit, for a client that uses one region of whole pages and a limit of
two pages at least. An allocated region larger than its limit is not, unless every page is written again before it is evicted again: the
repository's own programs do just that, which is why they pass.

*Circular list.* No node is lost and no pointer dangles, over any sequence of
instructions with valid indices, and each does its own operation of `NumberList`, at its
own index.

*Shell.* The table is right about every child under any interleaving, signals go to
children only, exit statuses are final and `quit` leaves no child, as is also proved,
while no fork fails and a line's programs fit in the table; a chain stops at a failure
if, besides, no program is ended by a signal of its own and no chained command lacks
its input.

### Disagreements

Three have a run of their own (`findings`): `one_shot_third`, `share` and
`swap_stale`. The others were seen while modelling;
each shows when the constant named here is changed in the cfg of the run named.

| where | what | how to see it |
|---|---|---|
| `Lab3/ex3/packer.c:61` | with equal ids the answer is not filled, `packer.h:13` says ids need not be unique | `packer_boxes` with `Id <- MCSameId`: `BoxesPartition` |
| `Lab3/ex4/restaurant.c:166` | a leaver calls a group that has a table already, or one that has not begun to wait: a table stays free while a group of its size waits | `seats_batch`, checking `NoIdleTable` |
| `Lab3/ex4/restaurant.c:166` | `queue[i]` points into the stack of a thread that may have ended since `queue_grp_state[i]` was read | `group_rounds` with `BatchSize = 2`: the second half of `StatesInScope`; the next row violates the first |
| `Lab3/ex4/restaurant.c:107,166` | two sizes hold different mutexes and race on `new_group_index`. A group may be overwritten in the queue; or one marks as live (108) the ticket after its own, when the other has counted itself in between, and a leaver follows the entry there, which is still NULL | `seats_batch`, checking `Up` |
| `Lab3/ex5/restaurant.c:183` | a leaver rewrites `size_of_group` of a group that already has a table type; the assignment at 172 then fails, which the comment calls a logic fault | `any_quiet` with `Together = TRUE`, checking `SeatsExclusive` |
| `Lab3/ex6/restaurant.c:200,285` | a leaver clears a slot and gives back a table of the type of its own size, not of the one where it sat | read only: `free_table`, `FreeUp(g, local[g])` |
| `Lab3/ex6/restaurant.c:237` | a group of two or more that is to share is looked for among the tables of the wrong type, and not found | read only: `assign_table` |
| `Lab3/ex6/restaurant.c:173` | the unit that a group posts so as to pass its own wait may be taken by another | read only: `Admit` |
| `Lab3/ex6/restaurant.c:199` | `!special_call` is tested where no group was called (the result is -1): the table is not given back | read only: `Offer` |
| `Lab3/ex6/restaurant.c:254,267` | the index is read though nothing may have set it, and it is the leaver's own `group_state` that is marked as invited | read only: `Offer` |
| `Lab4/userswap.c:288` | one page over the limit evicts two, `:283` says the minimum; with a limit of one page there is no second one, and the list's end is followed | `swap_map` with `MAX_LORM_SIZE = 2`: `StaysUp` |
| `Lab4/userswap.c:319` | a page that was only read is marked as swapped out with no slot: the next touch ends the process, or reads another page's slot | `swap_stale` with `SPECIFICATION Spec`, checking `StaysUp` or `ImplementsMemory` |
| `Lab4/userswap.c:302,650` | two regions: a page is looked up in the wrong region, the lists are freed twice | `swap_map` with `"overlap"` in `Habits`: `StaysUp` |
| `Lab4/userswap.c:650` | the resident size survives `userswap_free`: the next region evicts from an empty list | `"again"`: `StaysUp` |
| `Lab4/userswap.c:566` | `userswap_set_size` forgets the resident pages, `:555` says it evicts | `"resize"`: `StaysUp` |
| `Lab4/userswap.c:687` | a size that is no multiple of the page has a last page without an entry, `:657` says it is rounded up | `OddBytes = 1`: `StaysUp` |
| `Lab4/userswap.c:545` | a longer backing file is cut off, `:662` speaks of shorter ones only | `FilePages = 5`: `ImplementsMemory` |
| `Lab2/myshell.c:136` | a failed fork is recorded as pid -1: `quit` then signals every process | `ForkFails = TRUE`: `KillsOnlyChildren` |
| `Lab2/myshell.c:145` | a program ended by a signal reads as exit 0: the chain goes on | `Crashes = TRUE`: `ChainStops` |
| `Lab2/myshell.c:336` | a chained command that ran nothing (its input file is missing) is judged by the entry before it, or by what lies before the table | add such a chain to `MCLines`: `ChainStops` |
| `Lab2/myshell.c:136` | the table is never checked to have room (`MAX_PROCESSES` is 50) | drop `Room` |
| `Lab1/ex3/node.c:138` | rotating an empty list follows a null pointer; the comment asks for a non-negative offset only | read only: `rotate_list` |
| `Lab2/driver.c:33` | at end of file the children are left running | `EndOfFile` |

## What is proved

### The packer

`PackerProofs` proves, for every finite set of balls, every colouring of it and every
box size N of 1 to 64, the slots that the code has (`BallsAssumption`, `ColourAssumption`, `SizeAssumption`), whatever the
ids:

* `GateInvariant`: `Spec => []GateInv`, the inductive invariant of the gates;
* `PackerTypes`: `Spec => []TypeOK`, where `TypeOK` says that the mutex and both
  gates stay binary and that tickets and count stay within N;
* `SlotsAreStable`: `Spec => []NoSlotRace`, no slot is written while a ball reads;
* `GatesNeverMeet`: `Spec => []GatesExclude`, the gates are never open together;

and, when no two balls have the same id (`IdsDiffer`, a hypothesis of the theorems):

* `BoxInvariant`: `Spec => []PackInv`, the gates' invariant and that of the boxes;
* `AnswersPartition`: `Spec => []BoxesPartition`;
* `PackerKeepsPromise`: `Spec => ImplementsPacking`, the refinement of `Packing`.

The gates. None of the properties is inductive: that a ball cannot be at the door
while another one reads depends on where the tickets are, and they are with the balls
inside or not yet handed out. `GateInv` splits the life of a colour by `Open(c)`, the
unit of the queue gate being there or in the hands of a ball about to put it back.
While the gate is shut the area fills, and tickets, balls at the door and balls
inside add up to N (`TicketInv`). The N-th ball finds no ticket and nobody at the
door; it shuts the exit gate before it opens the queue gate (`ExitInv`). While the
gate is open the area drains: the count falls, no ball comes in. The last one out
hands out N tickets, as many at each moment as turns of its loop, and shuts the gate
with the mutex in hand, so that a newcomer cannot enter before it has. `CountInv`
ties the counter to the number of balls inside; `MutexInv` and `QueueInv` say that
each unit is in one hand at most; `Shape` and `IdxInv` are what the arithmetic
needs. The proof has one lemma per action (`AdmitInv`, `EnterInv`, ...), in each one
step per conjunct; `OtherColours` shows once that a step keeps every other colour's
invariant, `MoveAt` and `MoveCard` what it does to the sets and numbers of balls.
TLC checks `PackInv`, of which it is a part, in `packer_boxes`.

The boxes. While the queue gate of a colour is shut, the slots up to the count hold
exactly the balls inside (`SlotsHoldBox`); the N-th one makes them the whole array.
While it is open, nobody comes in, so the slots stay one box of N balls, of which the
ones still inside are a part; an answer in the making is the slots copied so far
without the reader (`Answered`), so a finished one is that box. When the gate is shut
again nobody is inside, and every ball of the box has its answer: the box joins the
earlier ones, which lie within the answered balls and so cannot meet the next one.
For the promise, `BoxesOf(c)` are the boxes of a colour, answered or in the slots:
`OwnPacked` shows that only an N-th ball coming in changes them, `EnterPacks` that it
adds the balls inside, none of which is in an earlier box. A call is then an arrival,
the last step of a call a return, and every other step a stutter.

### The restaurant

`RestaurantProofs` proves of exercise 4, for every finite set of groups, any sizes
below T and any tables of T types, T being at most the five of `MAX_TABLE_TYPE`
(`GroupsAssumption`, `TypesAssumption`, `GroupSizeAssumption`), and for commands run
in any way:

* `SeatInvariant`: `Spec => []SeatInv`, the inductive invariant;
* `RestaurantTypes`: `Spec => []TypeOK`: the locks stay binary, no type has more
  tables available than tables, the queue index stays within the queue;
* `TablesAreConserved`: `Spec => []TablesConserved`;
* `SeatsAreExclusive`: `Spec => []SeatsExclusive`.

That the loop of `assign_table` finds a slot of its type is not a matter of one step:
it holds because `table_available` never exceeds the slots that are free. `SeatInv`
says of each type that every lock's unit is in one hand (`LockInv`), that the tables
available and those in hand add up to the tables (`TablesConserved`), and that the
occupied slots are those of the groups at the tables, one each (`SlotInv`); a group
that is being served has a table in hand but no slot, so a slot is free. The leaver
gives back to the type of the size it remembers, which is its own (`SizeInv`).
`LineInv` bounds the index, and each copy of it that a group has read and not used yet,
by the groups that have counted themselves, although two sizes read and write it without
a common lock: so the queue is written within its bounds. It does not say that a live
ticket has a group, which is not so: a leaver that looks at an empty entry ends the
program (`Up`), and only one that has looked at a group goes on to call it. The lemmas `LockStays`, `LockTaken`, `TableGiven`, `SlotsStay`
and the like state once what a kind of step does to a part; then each action has its
lemma. `MinOfNaturals` (the slot that a loop finds first exists) rests on the
well-foundedness of <.

The line. `RestaurantProofs` goes on to prove, for the same constants and one command at a
time (`~Together`, a hypothesis of the theorems: with several commands TLC finds each
of them violated, see above):

* `QuietInvariant`: `Spec => []QuietInv`, the inductive invariant;
* `NoTableIsIdle`: `Spec => []NoIdleTable`;
* `RestaurantKeepsPromise`: `Spec => ImplementsSeating`, the refinement of `Seating`.

`QuietInv` adds to `SeatInv` what one command at a time gives. `OneMoves`: two threads
have something to do only if one of them leaves and the other is the group it has
called, which may take the table as soon as it is given back, while the leaver still
holds the mutex. `TurnsInv`: a group that has been given its turn has a table left for
it, or the leaver is about to give it one; and while another group of its size waits,
it is the only one, and no further table is free. The turn is a semaphore that the
group initialises itself, from the count of tables it read under the mutex, so the
parts for `init` and `unlock` say what it read. `OrderInv`: the queue has a group at
its ticket, the index is beyond all tickets and a group that joins reads the same index
every time (with several commands none of this need be so), and an entry is live just
until its group marks it on leaving, so that no leaver finds one empty (`Up`). `FirstInv`: whoever has been
called is ahead of those of its size who still wait, and a leaver's search has not
passed any of them, so what it finds next is the first; this is the "first come, first
served" of `Seating`. For the promise, the line of `Seating` is read off the tickets
(`LineOf`, with the rank of a ticket as the place): joining is `Show`, being seated
`assign_table`, freeing `free_table`, and every other step a stutter.

`RestaurantAnyProofs` proves of exercise 5, for the same constants and one command at a
time:

* `QuietInvariant`: `Spec => []QuietInv`, the inductive invariant;
* `NoTableIsIdle`: `Spec => []NoIdleTable`;
* `SeatsAreExclusive`: `Spec => []SeatsExclusive`;
* `RestaurantKeepsPromise`: `Spec => ImplementsSeating`, the refinement of `Seating`.

`QuietInv` has the parts of that of exercise 4, read at the type in `size_of_group`
where they were read at the size. `SizeInv` says what this type is: the group's size
until it has been placed, then that of its table, and for a leaver the number it
remembers. So the tables of a type are those in the hands of the groups *of that type*
(`At`), and every step has to leave alone the type of a group that has a table in hand
(`TypesKept`). For the scan that is a matter of its own label; a leaver's `Resize` rewrites
the type of another group, and only `FirstInv` says that this one waits, still unposted
(`Called`). A group chooses the semaphore it waits for before it blocks, so `SizeInv` says
too that what it remembers is its type. That is why
`SeatInv` is not inductive by itself here (`SeatInvStays` has `TurnsInv` and `FirstInv`
as hypotheses), why the theorems about tables need `~Together`, and what TLC's
counterexample with commands run together breaks. `TurnsInv` says besides that the scan
has passed only types with no table left (`NoneFrom`), that it opens the turn at one that
has, and that a group that waits has no table free of *any* type from its size up, but
for the one that a group already called is about to take. Hence a table that is given
back has a type that no waiting group could have had before, and whoever is sent there
is the first of those that fit, of whatever size (`FirstInv`): first come, first served
among the groups that a table fits. A newcomer cannot pass them: if a type it looks at
has a table left, no one who fits it waits. The promise is read off the
tickets as in exercise 4; the lemmas about lines, slots and prefix sums of tables are
those of `RestaurantProofs`, by INSTANCE (`P`).

### The drivers

`BallRoundsProofs` is about exercise 2 and its driver, for every finite set of balls,
every colouring and any rounds in the input:

* `WaitersAreInScope`: `Spec => []WaiterInScope`, whatever the ids;

and, when no two balls have the same id (`IdsDiffer`):

* `PairImplementsPacker`: `Spec => G!Spec`, where `G` is exercise 3's packer with boxes
  of two: every step of the threads is one of its steps or changes nothing of it;
* `RoundsInvariant`: `Spec => []RoundsInv`, the driver's inductive invariant with `PackInv`;
* `AnswersAreMutual`: `Spec => []PairsMutual`;
* `ReportsAreComplete`: `Spec => []ReportsComplete`;
* `PairKeepsPromise`: `Spec => ImplementsPacking`.

Exercise 2 and exercise 3 differ in one place: `partner` returns the *last* id in the two
slots that differs from the ball's, `packaging` copies *all* that differ. They agree if
the ball is in one of the two slots and the other one has one other ball, which is what
`PackInv` says; so the theorem and the invariant have to go hand in hand
(`BothInvariants`). Then the theorems of `PackerProofs` hold of exercise 2 through the
instance `G`. That a ball's answer is a single ball and not the ball itself
(`b \notin other_ids[b]`, in `ThreadInv`) turns "boxes of two" into "mutual". The barrier
is a matter of counting: the balls of a round that wait for the waiter to go, and those
not created yet, add up to the round (`BarrierInv`), so the count of the started reaches
the round's length only when none of them will look at the waiter again. `ReportInv`
is about the list, to which `main` may come while balls do: at most one thread has it in
hand, what that one has read is what the list still is, the balls on it or printed are
exactly those whose threads have put them there, and no printed one has a thread left.

`GroupRoundsProofs` is about exercise 4 and its driver, for every finite set of groups,
any sizes, tables and `BatchSize`:

* `RoundsInvariant`: `Spec => []RoundsInv`;
* `WaitersAreInScope`: `Spec => []WaiterInScope`;

and, with one command in each batch:

* `DriverImplementsRestaurant` (in the instance `P`, `~Together` is `BatchSize = 1`):
  `Spec => P!Spec`;
* `StatesAreInScope`, `NoTableIsIdle`, `DriverKeepsPromise`: the properties
  `StatesInScope`, `NoIdleTable` and `ImplementsSeating`.

`RoundsInv` has five parts for the driver: `ThreadInv` ties the place of a thread in
`run_group` to its place in the restaurant; `BarrierInv` counts as in exercise 2, where
those who come are now new groups and groups that `main` has sent off; `ListInv` says
that the two lists have just the groups that eat; `ReportInv` that a group which has gone
beyond `enter` has said so; `StillInv` that from the end of a batch until the first thread
of the next one goes, all are at rest. With several commands in a batch the threads of
`GroupRounds` race for the queue index as those of `Restaurant` do. It is the last that makes one command in a batch
one command at a time (`GoesAlone`): a thread that passes the barrier finds the others at
rest. That `main` finds all threads at rest when it wakes is in the model of this driver,
see "fairness";
without it, a slow thread breaks the promise and no proof could help. A leaver only looks
at groups that wait, by `FirstInv`, and they have not ended: hence `StatesInScope`. The
lemmas named `Same...` say that a definition means the same in the two instances of
`Restaurant`.

### The shell

`ShellProofs` proves, for a table of any size, any finite set of pids, any exit codes and
any set of command lines, whenever the children end and whoever gets their pids
afterwards:

* `ShellInvariant`: `Spec => []ShellInv`, the inductive invariant;
* `TypeCorrect`: `Spec => []TypeOK`;
* `TrackerIsRight`: `Spec => []TrackerMatchesChildren`;
* `QuitIsClean`: `Spec => []QuitLeavesNone`;
* `OnlyChildrenAreKilled`: `Spec => KillsOnlyChildren`;
* `StatusIsFinal`: `Spec => StatusFinal`;
* `ChainStopsAtFailure`: `Spec => ChainStops`.

All have the hypothesis that forks do not fail (`ForksSucceed`): a failed one is recorded
as a child of pid -1, and TLC shows what follows. The last one assumes `ChainsRun` too: no
program is ended by a signal that the shell did not send, and no command of a chain lacks
its input file. Both are the code's own disagreements with its comments, listed above.

`Tracked` is the heart of it. An entry without an exit status has a child, the child knows
that entry as its owner, and the other way round; so pids of live entries differ, although
pids come back, since the kernel frees a pid only when the shell waits for the child, in
the step that writes the status. A program in the foreground is the one exception to "the
entry is below the index", and its entry is at the index (`pc = "await"`). `RoomInv` says
that what is left of a line fits: with `LineInv`, which says that what is left of a line is
left of a chain, it keeps the index within the table. `QuitInv` says how far the loop of
`quit` has come. `ChainInv` ties the outcome on which a chain is judged to the last entry
of the table: the shell looks there, whichever command came last. The loops over the table
stop at the least entry they look for, which exists (`LeastSlot`) because < is
well-founded on the numbers; `Turn` and `LoopTurn` state once what a turn of a loop may do
to the table and the kernel, for `wait`, `terminate`, `info` and `quit` alike.

### The pager

`UserSwapProofs` proves, for any regions, sizes, files, page size and limit
(`PageAssumption`, `LimitAssumption`, `SizeAssumption`, `MappedAssumption`) and a client
with no `Habits` (`OneByOne`: one region at a time, no change of the limit while it is
there, none after one that was touched):

* `ListIsRight`: `Spec => []LORMTracksResident`;

and, for a `LegalClient`, one for whom besides sizes are whole pages (`WholePages`), the
limit is two pages at least, an allocated region is within it, and a file is no longer
than its mapping (`Fits`):

* `PagerIsSound`: `Spec => []SwapInv`, the inductive invariant, with `TypeOK`;
* `PagerStaysUp`: `Spec => []StaysUp`;
* `PagerIsMemory`: `Spec => ImplementsMemory`, the refinement of `PagedMemory`: each call
  is that call of plain memory, a store writes its own value to its own page, and a fault
  changes what no page holds.

The hypotheses are the disagreements above turned round: for each but the limit, TLC
finds the property violated without it, in the row of the table that names it (`Fits` for
allocated regions is `swap_stale`). The limit of one page is the hazard at
`userswap.c:288`: two pages would have to leave a list of one. `swap_map` meets all of
them.

The list needs none of this beyond the habits: `ResidentInv` is inductive by itself. The
handler evicts one page more than it has to, but while the limit is kept that makes two
at most (`EvictionsOfOne`), so the fold over the pages that leave is written out
(`FoldOfTwo`) and needs no induction. `AllMarked` says that what leaves is marked, dirty or
not; `ComesResident` that the list without it and with the newcomer is again what the
client can touch. That the process does not end takes more. A page that is not resident
leaves room in the list (`RoomInList`, by counting), so a list that is to lose two pages
has two: its length is the limit, or that of the region, in pages (`EnoughListed`); for an
allocated region within the limit nothing has to leave. `RegionInv` has what the handler
reads of the current region: its file, its kind, the two lists. `FileInv` says that a page
of a mapped region has its offset for good, that the file is as long as the region, so no
read is short, and that a page which was not written to since it came in is what the file
has in its place; this is why a clean page may be dropped. `FileAfter` says what the file
holds after an eviction, `WrittenBack` after a free, `FilledUp` after a mapping. For the
memory, the invariant simplifies what a page holds (`Seen`): the file for a page that is
out, the mapping for any other. Then a fault is not seen (`SeenFault`), and each call is the
call of its name.

### The circular list

`CircularListProofs` proves, for any addresses, numbers, functions and offsets
(`NullAssumption`, `OffsetsAssumption`, `FuncsAssumption`) and any instructions:

* `AlwaysRingIntact`: `Spec => []RingIntact`;
* `CircularListImplementsList`: `Spec => ImplementsList`, the refinement of `NumberList`:
  the instruction that was read does its own operation, with its own arguments.

`RingIntact` speaks of loops, which are recursive functions, and says nothing of what a
step does to them. The inductive invariant `ListInv` has the types and a listing: a
sequence without repetition of all the allocated nodes, each of whose next is the one
after it, the last one's the first, which is the head (`Ring`). What the loops arrive at
follows from it: k steps from the head are at the node of index k modulo the length
(`Steps`), a turn is the listing (`TurnOfRing`), and so `RingIntact` holds
(`IntactOfInv`). Then each operation is one on listings: `InsertedRing` and `RemovedRing`
are those of a sequence with one node more or less at a place, `RotatedRing` starts the
listing elsewhere, `ReversedRing` reads it backwards. Where a loop builds something, its
result is written in closed form first: `LoopOfReverse` says which next pointers the loop of
`reverse_list` has turned round when it has come to the k-th node, the head's being the
uninitialized `prev` until the step after the loop. These are inductions on a number, done
without an induction rule: `LeastNatural` gives the first step where the claim fails, and
the step before contradicts it. `sum_list` needs no closed form: the folds over the nodes
and over the numbers are chosen by the same condition (`SeenSum`). For the refinement, the
`Seen...` lemmas say of each operation that the numbers along the new turn are those of the
operation of `NumberList`; `RunsInstr` puts them together for the instruction that
has been read, which is still valid for the list when it is run (`InstrInv`).

### Only model-checked

Liveness (`FullBoxesGo`, `RoundsEnd`, `QuitEnds`, `Completes`) and whatever mentions ENABLED
is out of the prover's reach. That the driver of exercise 4 never declares a failure
(`TestsNeverFail`) holds with the model's `main` that sleeps long enough, and is checked
only. The packer of exercise 1 and the restaurant of exercise 6
do not keep what their headers say, and nothing is proved of them. The workloads are checked for liveness, which says that they read what
they expect and end.

## Not modelled

The scripts and the other drivers of Lab 1, and the copies under `Lab1/E0518553`:
readers of commands and tables of functions with no state of their own. The drivers
`ex1.c` and `ex3.c`, `ex5.c` and `ex6.c`: the same as the two that are modelled but for
what they print. `*_destroy`, which runs when no thread is left. `tokenise`: a line is
its tokens. The binaries under `Lab2/programs` beyond how they end. Failures of the C
library other than `fork` (memory, `mmap`, threads, files), which the code mostly exits
on; a region of no bytes, for which `mmap` fails.

## Plan

Done: every component that keeps state has its module: `Packer`, `PackerPair`,
`PackerOneShot`, `BallRounds`; `Restaurant`, `RestaurantAny`, `RestaurantShare`,
`GroupRounds`; `UserSwap`, `Workloads`; `Shell`; `CircularList`. The packer came first,
since all of its promise rests on an order of semaphore calls that no test can fix. The
packers of exercises 2 and 3, the restaurants of exercises 4 and 5, the drivers of
exercises 2 and 4, the pager, the shell and the list have their safety proved. Every
invariant and every refinement that a passing run checks, but for `TestsNeverFail`, is
stated by a theorem; what is left to TLC is under "Only model-checked".
