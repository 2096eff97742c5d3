------------------------------ MODULE GuestAgent ------------------------------
(***************************************************************************)
(* The coding workload inside the VMs of one sweep point, and what the     *)
(* host makes of it: the aab-guest-agent script of every VM runs its tasks *)
(* one after the other, appends to trace.jsonl, writes result.json twice;  *)
(* at the deadline the VM is stopped, whatever it is doing, what has       *)
(* reached its image is copied out, and the host adds up the results.      *)
(* Time is counted in ticks; the images are left to FirecrackerTeam, which *)
(* models the same script.                                                 *)
(***************************************************************************)
EXTENDS Naturals, Sequences, FiniteSets, Functions

CONSTANTS
  Guests,           \* the VMs of the point
  TasksPerVm,       \* agent.tasks_per_vm, of the single_task mode
  LoadModes,        \* what agent.llm_load_mode may be
  WorkloadSeconds,  \* agent.workload_seconds
  RequestTimeout,   \* agent.llm_request_timeout_seconds
  RunSeconds        \* RUN_SECONDS of the script, when the VMs are stopped

ASSUME GuestAssumption ==
  /\ IsFiniteSet(Guests)
  /\ TasksPerVm \in Nat \ {0} /\ RequestTimeout \in Nat \ {0} /\ RunSeconds \in Nat \ {0}
  /\ WorkloadSeconds \in 1..RunSeconds
  /\ LoadModes \subseteq {"single_task", "sustained_prefill"}

VARIABLES
  mode,    \* agent.llm_load_mode, the same for all VMs
  time,    \* ticks since the VMs were started
  pc,      \* where the agent of each VM is
  began,   \* when its task began
  tasks,   \* tasks it has begun
  count,   \* its completed_tasks and failed_tasks
  trace,   \* its trace.jsonl
  result,  \* its result.json
  saved,   \* the result.json that was copied out of its image
  table    \* the row of the aligned table

guestVars == <<pc, began, tasks, count, trace, result>>
vars == <<mode, time, guestVars, saved, table>>

\* A line of the trace: a stage event or the line that closes a task.
Line == [kind : {"stage", "task"}, status : {"ok", "error", "started", "skipped", "blocked"}]

NoResult == [completed |-> 0, failed |-> 0, written |-> FALSE]

NoTable == [ready |-> FALSE]

TypeOK ==
  /\ mode \in LoadModes
  /\ time \in 0..RunSeconds
  /\ pc \in [Guests -> {"boot", "task", "prompt", "request", "next", "result", "memory",
                     "last", "over", "stopped", "copied"}]
  /\ began \in [Guests -> 0..RunSeconds]
  /\ tasks \in [Guests -> Nat]
  /\ count \in [Guests -> [completed : Nat, failed : Nat]]
  /\ trace \in [Guests -> Seq(Line)]
  /\ {result, saved} \subseteq [Guests -> [completed : Nat, failed : Nat, written : BOOLEAN]]

Init ==
  /\ mode \in LoadModes
  /\ time = 0
  /\ pc = [v \in Guests |-> "boot"]
  /\ began = [v \in Guests |-> 0]
  /\ tasks = [v \in Guests |-> 0]
  /\ count = [v \in Guests |-> [completed |-> 0, failed |-> 0]]
  /\ trace = [v \in Guests |-> <<>>]
  /\ result = [v \in Guests |-> NoResult]
  /\ saved = [v \in Guests |-> NoResult]
  /\ table = NoTable

Stage(status) == [kind |-> "stage", status |-> status]

TaskLine(status) == [kind |-> "task", status |-> status]

Goto(v, where) == pc' = [pc EXCEPT ![v] = where]

-----------------------------------------------------------------------------
\* The arguments are read, vLLM is probed, the memory workers are started.
Boot(v) ==
  /\ pc[v] = "boot"
  /\ Goto(v, "task")
  /\ UNCHANGED <<time, began, tasks, count, trace, result, saved, table>>

\* run_task begins: its planner event, and the memory work of the task.
BeginTask(v) ==
  /\ pc[v] = "task"
  /\ began' = [began EXCEPT ![v] = time]
  /\ tasks' = [tasks EXCEPT ![v] = tasks[v] + 1]
  /\ trace' = [trace EXCEPT ![v] = Append(trace[v], Stage("ok"))]
  /\ Goto(v, "prompt")
  /\ UNCHANGED <<time, count, result, saved, table>>

\* The prompt is built and the request sent.
SendRequest(v) ==
  /\ pc[v] = "prompt"
  /\ trace' = [trace EXCEPT ![v] = trace[v] \o <<Stage("ok"), Stage("started")>>]
  /\ Goto(v, "request")
  /\ UNCHANGED <<time, began, tasks, count, result, saved, table>>

\* The lines that close a task, from the solver's event to the line of the task.
Closing(status) ==
  IF status = "ok"
  THEN <<Stage("ok"), Stage("ok"), Stage("ok"), TaskLine("ok")>>
  ELSE <<Stage("error"), Stage("skipped"), Stage("blocked"),
         TaskLine("error")>>

\* Mutant of Counted: only the answered requests are counted.
CountedOkOnly(n, status) ==
  IF status = "ok" THEN [n EXCEPT !.completed = @ + 1] ELSE n

Counted(n, status) ==
  IF status = "ok" THEN [n EXCEPT !.completed = @ + 1] ELSE [n EXCEPT !.failed = @ + 1]

\* curl has ended, with an answer or without, and the task is closed and counted.
\* Bound: a request takes at least one tick.
EndRequest(v) ==
  /\ pc[v] = "request" /\ time > began[v]
  /\ \E status \in {"ok", "error"} :
       /\ trace' = [trace EXCEPT ![v] = trace[v] \o Closing(status)]
       /\ count' = [count EXCEPT ![v] = Counted(count[v], status)]
  /\ Goto(v, "next")
  /\ UNCHANGED <<time, began, tasks, result, saved, table>>

\* The loop's condition: so many tasks, or the time of the workload, which
\* lets a last request run on past its end.
MoreTasks(v) ==
  IF mode = "sustained_prefill" THEN time < WorkloadSeconds ELSE tasks[v] < TasksPerVm

NextTask(v) ==
  /\ pc[v] = "next"
  /\ Goto(v, IF MoreTasks(v) THEN "task" ELSE "result")
  /\ UNCHANGED <<time, began, tasks, count, trace, result, saved, table>>

\* write_result, before and after the memory workers are waited for.
WriteResult(v) ==
  /\ pc[v] \in {"result", "last"}
  /\ result' = [result EXCEPT ![v] =
       [completed |-> count[v].completed, failed |-> count[v].failed, written |-> TRUE]]
  /\ Goto(v, IF pc[v] = "result" THEN "memory" ELSE "over")
  /\ UNCHANGED <<time, began, tasks, count, trace, saved, table>>

MemoryEnds(v) ==
  /\ pc[v] = "memory" /\ time >= WorkloadSeconds
  /\ Goto(v, "last")
  /\ UNCHANGED <<time, began, tasks, count, trace, result, saved, table>>

\* Time passes, within the timeout of every request and up to the deadline.
Tick ==
  /\ time < RunSeconds
  /\ \A v \in Guests : pc[v] = "request" => time - began[v] < RequestTimeout
  /\ time' = time + 1
  /\ UNCHANGED <<guestVars, saved, table>>

-----------------------------------------------------------------------------
\* The script stops a VM at the deadline.
StopVm(v) ==
  /\ time = RunSeconds /\ pc[v] \notin {"stopped", "copied"}
  /\ Goto(v, "stopped")
  /\ UNCHANGED <<time, began, tasks, count, trace, result, saved, table>>

\* What the image holds of result.json is copied: it may not have been flushed,
\* and one that was cut short is skipped by the readers.
CopyOut(v) ==
  /\ pc[v] = "stopped"
  /\ \E r \in {NoResult, result[v]} : saved' = [saved EXCEPT ![v] = r]
  /\ Goto(v, "copied")
  /\ UNCHANGED <<time, began, tasks, count, trace, result, table>>

\* Mutant of Summarize: a VM without a result is counted by the tasks it began.
SummarizeGuess ==
  /\ table = NoTable
  /\ \A v \in Guests : pc[v] = "copied"
  /\ table' = [ready |-> TRUE,
               vmResults |-> Cardinality({ v \in Guests : saved[v].written }),
               completed |-> SumFunction([v \in Guests |-> tasks[v] - saved[v].failed]),
               failed |-> SumFunction([v \in Guests |-> saved[v].failed])]
  /\ UNCHANGED <<time, guestVars, saved>>

\* summary.json of the script, and the row _summarize_point makes of the point.
Summarize ==
  /\ table = NoTable
  /\ \A v \in Guests : pc[v] = "copied"
  /\ table' = [ready |-> TRUE,
               vmResults |-> Cardinality({ v \in Guests : saved[v].written }),
               completed |-> SumFunction([v \in Guests |-> saved[v].completed]),
               failed |-> SumFunction([v \in Guests |-> saved[v].failed])]
  /\ UNCHANGED <<time, guestVars, saved>>

GuestStep(v) ==
  Boot(v) \/ BeginTask(v) \/ SendRequest(v) \/ EndRequest(v) \/ NextTask(v)
    \/ WriteResult(v) \/ MemoryEnds(v)

HostStep == Summarize \/ \E v \in Guests : StopVm(v) \/ CopyOut(v)

Next ==
  /\ UNCHANGED mode
  /\ HostStep \/ Tick \/ \E v \in Guests : GuestStep(v)

Spec == Init /\ [][Next]_vars

-----------------------------------------------------------------------------
\* The tasks of a VM that have a line in its trace.
TasksTraced(v, status) == Cardinality({ n \in DOMAIN trace[v] : trace[v][n] = TaskLine(status) })

\* The agent's two books agree: a result.json counts exactly the tasks that have
\* a line in the trace, and all those the VM was given, in both of its writings.
ResultCountsTrace ==
  \A v \in Guests : result[v].written =>
    /\ result[v].completed = TasksTraced(v, "ok")
    /\ result[v].failed = TasksTraced(v, "error")
    /\ result[v].completed + result[v].failed = tasks[v]
    /\ mode = "single_task" => tasks[v] = TasksPerVm

\* The table claims nothing the guests did not do, wherever the deadline caught
\* them: it counts no task that was not finished, and none at all of a VM whose
\* result was lost.
TableClaimsNoMore ==
  table.ready =>
    /\ table.completed <= SumFunction([v \in Guests |-> TasksTraced(v, "ok")])
    /\ table.failed <= SumFunction([v \in Guests |-> TasksTraced(v, "error")])
    /\ mode = "single_task" => table.completed + table.failed = TasksPerVm * table.vmResults

=============================================================================
