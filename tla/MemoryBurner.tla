----------------------------- MODULE MemoryBurner -----------------------------
(***************************************************************************)
(* The memory workers beside the tasks of a coding guest.  The script      *)
(* tries aab-memory-burner for a second and then starts it, or as many     *)
(* shell loops where it does not work, and waits for them after its last   *)
(* task.  The burner's main creates its threads one by one, joins them in  *)
(* that order and adds up what each of them measured.                      *)
(* A measure is the number of rounds over the arrays.  global_sink, which  *)
(* the threads add to without a lock, is read by nobody.                   *)
(***************************************************************************)
EXTENDS Naturals, Functions

CONSTANTS
  NumThreads,  \* memory_workers
  MaxRounds    \* bound: rounds of a thread within its seconds

ASSUME BurnerAssumption == NumThreads \in Nat \ {0} /\ MaxRounds \in Nat

Threads == 1..NumThreads

VARIABLES
  script,   \* the guest's script: "start", "wait" for its background_pids, "over"
  loops,    \* the shell loops that run
  main,     \* the burner: "off", "create", "join" or "exited"
  next,     \* the thread it creates or joins
  thread,   \* what each thread does
  arrays,   \* what its pointers a, b and c point to
  rounds,   \* its iterations
  measure,  \* its args[i].bandwidth_gbps
  total,    \* the sum so far
  printed   \* whether the last line, with the total, is out

mainVars == <<main, next, total, printed>>
threadVars == <<thread, arrays, rounds, measure>>
burnerVars == <<script, loops, mainVars, threadVars>>

BurnerTypeOK ==
  /\ script \in {"start", "wait", "over"} /\ loops \subseteq Threads
  /\ main \in {"off", "create", "join", "exited"} /\ next \in Threads
  /\ thread \in [Threads -> {"none", "allocate", "burn", "done", "killed"}]
  /\ arrays \in [Threads -> [{"a", "b", "c"} -> 0..3]]
  /\ rounds \in [Threads -> 0..MaxRounds] /\ measure \in [Threads -> 0..MaxRounds]
  /\ total \in Nat /\ printed \in BOOLEAN

BurnerInit ==
  /\ script = "start" /\ loops = {}
  /\ main = "off" /\ next = 1
  /\ thread = [i \in Threads |-> "none"]
  /\ arrays = [i \in Threads |-> [p \in {"a", "b", "c"} |-> 0]]
  /\ rounds = [i \in Threads |-> 0] /\ measure = [i \in Threads |-> 0]
  /\ total = 0 /\ printed = FALSE

-----------------------------------------------------------------------------
\* start_background_memory_workers: the self-test has ended well, or there is no
\* burner, or it failed.
StartBurner ==
  /\ script = "start" /\ script' = "wait"
  /\ main' = "create"
  /\ UNCHANGED <<loops, next, total, printed, threadVars>>

StartLoops ==
  /\ script = "start" /\ script' = "wait"
  /\ loops' = Threads
  /\ UNCHANGED <<mainVars, threadVars>>

LoopEnds(i) ==
  /\ i \in loops /\ loops' = loops \ {i}
  /\ UNCHANGED <<script, mainVars, threadVars>>

\* wait_for_background_memory_workers, which minds no exit status.
WaitMemory ==
  /\ script = "wait" /\ loops = {} /\ main \in {"off", "exited"}
  /\ script' = "over"
  /\ UNCHANGED <<loops, mainVars, threadVars>>

-----------------------------------------------------------------------------
CreateThread ==
  /\ main = "create"
  /\ thread' = [thread EXCEPT ![next] = "allocate"]
  /\ IF next < NumThreads THEN next' = next + 1 /\ UNCHANGED main
                          ELSE next' = 1 /\ main' = "join"
  /\ UNCHANGED <<script, loops, total, printed, arrays, rounds, measure>>

\* No memory for its tables, or no thread: main returns, and with it goes every
\* thread there is.
CreateFails ==
  /\ main = "create" /\ main' = "exited"
  /\ thread' = [i \in Threads |-> IF thread[i] \in {"none", "done"} THEN thread[i] ELSE "killed"]
  /\ UNCHANGED <<script, loops, next, total, printed, arrays, rounds, measure>>

\* worker_main: eight arrays, or as good as none.
Allocate(i) ==
  /\ thread[i] = "allocate"
  /\ thread' = [thread EXCEPT ![i] = "burn"]
  /\ arrays' = [arrays EXCEPT ![i] = [a |-> 1, b |-> 2, c |-> 3]]
  /\ UNCHANGED <<script, loops, mainVars, rounds, measure>>

AllocateFails(i) ==
  /\ thread[i] = "allocate"
  /\ thread' = [thread EXCEPT ![i] = "done"]
  /\ UNCHANGED <<script, loops, mainVars, arrays, rounds, measure>>

\* Mutant of Rotated: the pointer saved in tmp is forgotten.
RotatedNoTmp(x) == [a |-> x.c, b |-> x.c, c |-> x.a]

\* What triad does with its pointers after a round.
Rotated(x) == [a |-> x.b, b |-> x.c, c |-> x.a]

\* A round; only triad turns the arrays around.
BurnRound(i) ==
  /\ thread[i] = "burn" /\ rounds[i] < MaxRounds
  /\ rounds' = [rounds EXCEPT ![i] = @ + 1]
  /\ arrays' \in {arrays, [arrays EXCEPT ![i] = Rotated(@)]}
  /\ UNCHANGED <<script, loops, mainVars, thread, measure>>

\* Its seconds are over: the measure is left in args, the arrays are freed.
EndThread(i) ==
  /\ thread[i] = "burn"
  /\ measure' = [measure EXCEPT ![i] = rounds[i]]
  /\ thread' = [thread EXCEPT ![i] = "done"]
  /\ UNCHANGED <<script, loops, mainVars, arrays, rounds>>

Add ==
  /\ total' = total + measure[next]
  /\ IF next < NumThreads THEN next' = next + 1 /\ UNCHANGED <<main, printed>>
                          ELSE main' = "exited" /\ printed' = TRUE /\ UNCHANGED next
  /\ UNCHANGED <<script, loops, threadVars>>

\* Mutant of Join: the measures are added as they are.
JoinNot == main = "join" /\ Add

Join == main = "join" /\ thread[next] = "done" /\ Add

ThreadStep(i) ==
  LoopEnds(i) \/ Allocate(i) \/ AllocateFails(i) \/ BurnRound(i) \/ EndThread(i)

MainStep == CreateThread \/ CreateFails \/ Join

BurnerNext ==
  StartBurner \/ StartLoops \/ WaitMemory \/ MainStep \/ \E i \in Threads : ThreadStep(i)

BurnerSpec == BurnerInit /\ [][BurnerNext]_burnerVars

-----------------------------------------------------------------------------
\* The total the burner prints is that of all its threads, each as it ended, and
\* a thread without memory adds nothing; an exit without total leaves no thread.
\* Every thread frees three arrays, however often triad turned them around.
TotalIsOfThreads ==
  /\ printed => /\ \A i \in Threads : thread[i] = "done"
                /\ total = SumFunction(rounds)
  /\ main = "exited" => \A i \in Threads : thread[i] \in {"none", "done", "killed"}
  /\ \A i \in Threads : rounds[i] > 0 => { arrays[i][p] : p \in {"a", "b", "c"} } = 1..3

=============================================================================
