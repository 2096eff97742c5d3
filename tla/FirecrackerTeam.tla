--------------------------- MODULE FirecrackerTeam ---------------------------
(***************************************************************************)
(* The Firecracker branch of TeamOrchestrator.run.  The orchestrator puts  *)
(* one task into one root file system per VM, a shell script starts the    *)
(* VMs, lets them run for a fixed time, stops them and copies result.json  *)
(* out of their images, and the orchestrator turns the copies into rows.   *)
(* A guest knows nothing of the deadline: it may be stopped before, while  *)
(* or after it writes its result, and what it wrote may still be in memory.*)
(***************************************************************************)
EXTENDS Naturals, Sequences, FiniteSets

CONSTANTS
  NumIssues,   \* issues the planner loaded
  NumAgents,   \* config.num_agents, the number of VMs
  DryRun       \* config.firecracker_dry_run

ASSUME CountsAssumption ==
  /\ NumIssues \in Nat
  /\ NumAgents \in Nat \ {0}
  /\ DryRun \in BOOLEAN

Issues == 1..NumIssues

VMs == 0..(NumAgents - 1)

\* TaskPlanner.build_issue_plans deals the issues to the agents in turn.
AgentOf(i) == (i - 1) % NumAgents

\* indexed_plans: the issue whose task the VM is given.
PlanOf(v) == v + 1

\* by_agent_id, a dict comprehension: of an agent's plans the last one stays.
PlanOfRow(v) ==
  CHOOSE i \in Issues :
    /\ AgentOf(i) = AgentOf(PlanOf(v))
    /\ \A j \in Issues : AgentOf(j) = AgentOf(PlanOf(v)) => j <= i

VARIABLES
  phase,    \* where orchestrator and script are
  cursor,   \* the VM the current loop of the script is at
  task,     \* the issue of the task.json in each image, 0 for none
  vm,       \* each firecracker process
  guest,    \* the worker program in each VM
  cache,    \* result.json as the guest sees it
  disk,     \* result.json as the image holds it
  out,      \* agents/<vm>/result.json on the host
  rc,       \* exit status of the script
  issues,   \* the orchestrator's issues list
  errors,   \* its errors list, as a set
  result    \* the contents of the run's result.json

scriptVars == <<phase, cursor, rc>>
guestVars == <<task, vm, guest, cache, disk>>
rowVars == <<issues, errors, result>>
vars == <<scriptVars, guestVars, out, rowVars>>

\* A result.json: torn until it is written to the end.
File == [state : {"missing", "torn", "whole"}, issue : 0..NumIssues, verified : BOOLEAN]

NoFile == [state |-> "missing", issue |-> 0, verified |-> FALSE]

Row == [vm : VMs, issue : Issues, status : {"failed", "verified_success"},
        verified : BOOLEAN, rounds : 0..1]

RunnerError == [kind |-> "runner"]

GuestErrors == [kind : {"missing", "invalid"}, vm : VMs, issue : Issues]

NoResult == [published |-> FALSE]

TypeOK ==
  /\ phase \in {"checking", "copying", "launching", "sleeping", "stopping", "waiting",
                "collecting", "rows", "publishing", "done", "crashed"}
  /\ cursor \in VMs
  /\ task \in [VMs -> 0..NumIssues]
  /\ vm \in [VMs -> {"off", "up", "dying", "dead"}]
  /\ guest \in [VMs -> {"idle", "working", "writing", "over"}]
  /\ cache \in [VMs -> File]
  /\ disk \in [VMs -> File]
  /\ out \in [VMs -> File]
  /\ rc \in {0, 1}
  /\ issues \in Seq(Row)
  /\ errors \subseteq {RunnerError} \cup GuestErrors

Init ==
  /\ phase = "checking"
  /\ cursor = 0
  /\ rc = 0
  /\ task = [v \in VMs |-> 0]
  /\ vm = [v \in VMs |-> "off"]
  /\ guest = [v \in VMs |-> "idle"]
  /\ cache = [v \in VMs |-> NoFile]
  /\ disk = [v \in VMs |-> NoFile]
  /\ out = [v \in VMs |-> NoFile]
  /\ issues = <<>>
  /\ errors = {}
  /\ result = NoResult

\* The next line of agent-list.tsv, or the next part of the script.
Advance(after) ==
  /\ cursor' = (cursor + 1) % NumAgents
  /\ phase' = IF cursor + 1 = NumAgents THEN after ELSE phase

-----------------------------------------------------------------------------
\* prepare_firecracker_team_plan.  A VM without a plan is a KeyError.
Prepare ==
  /\ phase = "checking"
  /\ phase' = IF NumAgents > NumIssues THEN "crashed"
              ELSE IF DryRun THEN "rows" ELSE "copying"
  /\ UNCHANGED <<cursor, rc, guestVars, out, rowVars>>

\* The kernel or the image is not there, or a probe or the runner is no program.
PrepareFails ==
  /\ phase = "checking"
  /\ phase' = "crashed"
  /\ UNCHANGED <<cursor, rc, guestVars, out, rowVars>>

\* copy_task_spec_into_rootfs: the image is mounted, task.json goes in.
CopyTask ==
  /\ phase = "copying"
  /\ task' = [task EXCEPT ![cursor] = PlanOf(cursor)]
  /\ Advance("launching")
  /\ UNCHANGED <<rc, vm, guest, cache, disk, out, rowVars>>

Launch ==
  /\ phase = "launching"
  /\ vm' = [vm EXCEPT ![cursor] = "up"]
  /\ Advance("sleeping")
  /\ UNCHANGED <<rc, task, guest, cache, disk, out, rowVars>>

\* sleep RUN_SECONDS ends, whatever the guests have got to.
SleepEnds ==
  /\ phase = "sleeping"
  /\ phase' = "stopping"
  /\ UNCHANGED <<cursor, rc, guestVars, out, rowVars>>

\* Mutant of Stop: pkill matches no process.
StopMisses ==
  /\ phase = "stopping"
  /\ Advance("waiting")
  /\ UNCHANGED <<rc, guestVars, out, rowVars>>

\* pkill -TERM -f socket_path, which may find no process any more.
Stop ==
  /\ phase = "stopping"
  /\ vm' = [vm EXCEPT ![cursor] = IF vm[cursor] = "up" THEN "dying" ELSE vm[cursor]]
  /\ Advance("waiting")
  /\ UNCHANGED <<rc, task, guest, cache, disk, out, rowVars>>

\* Mutant of Wait: the script goes on after its pause.
WaitNot ==
  /\ phase = "waiting"
  /\ Advance("collecting")
  /\ UNCHANGED <<rc, guestVars, out, rowVars>>

\* wait pid: the image belongs to the VM until its process has gone.
Wait ==
  /\ phase = "waiting"
  /\ vm[cursor] = "dead"
  /\ Advance("collecting")
  /\ UNCHANGED <<rc, guestVars, out, rowVars>>

\* The image is mounted and its result.json, if there is one, copied out.
CopyOut ==
  /\ phase = "collecting"
  /\ out' = [out EXCEPT ![cursor] = disk[cursor]]
  /\ Advance("rows")
  /\ UNCHANGED <<rc, guestVars, rowVars>>

\* set -e: a mount, cp or umount that fails, or a missing taskset, ends the
\* script.  The copy of the VM it was at may be complete, cut short or not begun.
ScriptFails ==
  /\ phase \in {"copying", "collecting"} \/ (phase = "launching" /\ cursor = 0)
  /\ rc' = 1
  /\ phase' = "rows"
  /\ cursor' = 0
  /\ errors' = errors \cup {RunnerError}
  /\ IF phase = "collecting"
     THEN out' \in { out, [out EXCEPT ![cursor] = disk[cursor]],
                     [out EXCEPT ![cursor] = IF disk[cursor].state = "missing" THEN NoFile
                                             ELSE [disk[cursor] EXCEPT !.state = "torn"]] }
     ELSE UNCHANGED out
  /\ UNCHANGED <<guestVars, issues, result>>

-----------------------------------------------------------------------------
Running(v) == vm[v] \in {"up", "dying"}

\* The worker starts and reads /task/task.json.
GuestStarts(v) ==
  /\ Running(v) /\ guest[v] = "idle"
  /\ guest' = [guest EXCEPT ![v] = "working"]
  /\ UNCHANGED <<scriptVars, task, vm, cache, disk, out, rowVars>>

\* mini has ended, well or not: result.json is opened, the last file of all.
GuestWrites(v) ==
  /\ Running(v) /\ guest[v] = "working"
  /\ guest' = [guest EXCEPT ![v] = "writing"]
  /\ \E ok \in BOOLEAN :
       cache' = [cache EXCEPT ![v] = [state |-> "torn", issue |-> task[v], verified |-> ok]]
  /\ UNCHANGED <<scriptVars, task, vm, disk, out, rowVars>>

GuestCloses(v) ==
  /\ Running(v) /\ guest[v] = "writing"
  /\ guest' = [guest EXCEPT ![v] = "over"]
  /\ cache' = [cache EXCEPT ![v].state = "whole"]
  /\ UNCHANGED <<scriptVars, task, vm, disk, out, rowVars>>

\* An exception of the worker outside _run_mini leaves no result.json.
GuestFails(v) ==
  /\ Running(v) /\ guest[v] = "working"
  /\ guest' = [guest EXCEPT ![v] = "over"]
  /\ UNCHANGED <<scriptVars, task, vm, cache, disk, out, rowVars>>

\* The guest's kernel writes its page cache to the image when it likes.
Flush(v) ==
  /\ Running(v) /\ disk[v] # cache[v]
  /\ disk' = [disk EXCEPT ![v] = cache[v]]
  /\ UNCHANGED <<scriptVars, task, vm, guest, cache, out, rowVars>>

\* A firecracker process ends at SIGTERM.
VmEnds(v) ==
  /\ vm[v] = "dying"
  /\ vm' = [vm EXCEPT ![v] = "dead"]
  /\ UNCHANGED <<scriptVars, task, guest, cache, disk, out, rowVars>>

\* It may also end on its own: no kvm, a bad configuration, a guest panic.
VmAborts(v) ==
  /\ vm[v] = "up"
  /\ vm' = [vm EXCEPT ![v] = "dead"]
  /\ UNCHANGED <<scriptVars, task, guest, cache, disk, out, rowVars>>

-----------------------------------------------------------------------------
\* Mutant of CollectRow: a result that was cut short counts as the guest's word.
CollectRowTorn ==
  /\ phase = "rows"
  /\ LET ok == out[cursor].verified
     IN  issues' = Append(issues,
           [vm |-> cursor, issue |-> PlanOfRow(cursor), verified |-> ok, rounds |-> 1,
            status |-> IF ok THEN "verified_success" ELSE "failed"])
  /\ Advance("publishing")
  /\ UNCHANGED <<rc, guestVars, out, errors, result>>

\* Mutant of CollectRow: a VM without a result is an error and no row.
CollectRowSkips ==
  /\ phase = "rows"
  /\ IF out[cursor].state = "whole"
     THEN /\ issues' = Append(issues,
               [vm |-> cursor, issue |-> PlanOfRow(cursor), verified |-> out[cursor].verified,
                rounds |-> 1,
                status |-> IF out[cursor].verified THEN "verified_success" ELSE "failed"])
          /\ UNCHANGED errors
     ELSE /\ errors' = errors \cup
               {[kind |-> "missing", vm |-> cursor, issue |-> PlanOfRow(cursor)]}
          /\ UNCHANGED issues
  /\ Advance("publishing")
  /\ UNCHANGED <<rc, guestVars, out, result>>

\* collect_firecracker_team_results for one VM: _failed_issue when the copy is
\* missing or no JSON, else _issue_from_guest, which believes its verdict and
\* takes the issue from the plan.
CollectRow ==
  LET i == PlanOfRow(cursor)
      file == out[cursor]
      ok == file.state = "whole" /\ file.verified
  IN  /\ phase = "rows"
      /\ issues' = Append(issues,
           [vm |-> cursor, issue |-> i, verified |-> ok,
            status |-> IF ok THEN "verified_success" ELSE "failed",
            rounds |-> IF file.state = "whole" THEN 1 ELSE 0])
      /\ errors' = errors \cup
           (CASE file.state = "missing" -> {[kind |-> "missing", vm |-> cursor, issue |-> i]}
              [] file.state = "torn" -> {[kind |-> "invalid", vm |-> cursor, issue |-> i]}
              [] file.state = "whole" -> {})
      /\ Advance("publishing")
      /\ UNCHANGED <<rc, guestVars, out, result>>

\* The rows are aggregated as on the host executors and result.json is written.
Publish ==
  /\ phase = "publishing"
  /\ result' = [published |-> TRUE, total |-> Len(issues), errors |-> errors,
                verified |-> Cardinality({ k \in DOMAIN issues : issues[k].verified }),
                failed |-> Cardinality({ k \in DOMAIN issues :
                                           issues[k].status # "verified_success" })]
  /\ phase' = "done"
  /\ UNCHANGED <<cursor, rc, guestVars, out, issues, errors>>

-----------------------------------------------------------------------------
ScriptStep == CopyTask \/ Launch \/ SleepEnds \/ Stop \/ Wait \/ CopyOut \/ ScriptFails

HostStep == Prepare \/ PrepareFails \/ ScriptStep \/ CollectRow \/ Publish

GuestStep(v) == GuestStarts(v) \/ GuestWrites(v) \/ GuestCloses(v) \/ GuestFails(v) \/ Flush(v)

Next == HostStep \/ \E v \in VMs : GuestStep(v) \/ VmEnds(v) \/ VmAborts(v)

Spec == Init /\ [][Next]_vars

\* The host's programs make progress and SIGTERM kills.  Nothing is assumed of
\* the guests.
Fairness == WF_vars(HostStep) /\ \A v \in VMs : WF_vars(VmEnds(v))

FairSpec == Spec /\ Fairness

-----------------------------------------------------------------------------
\* The script mounts an image only while no VM runs on it: before the first
\* launch, and after the process of every VM has gone.
ImageHasOneUser ==
  phase \in {"copying", "collecting", "rows"} => \A v \in VMs : ~Running(v)

\* The host believes no more than the guests finished: a verified row stands
\* for a guest that worked on that very issue and wrote its result to the end.
\* Every image that is copied out holds the work on its own task.
VerifiedByOwnGuest ==
  /\ \A v \in VMs : out[v].state # "missing" => out[v].issue = task[v]
  /\ \A k \in DOMAIN issues : issues[k].verified =>
       \E v \in VMs : /\ task[v] = issues[k].issue
                      /\ cache[v] = [state |-> "whole", issue |-> task[v], verified |-> TRUE]

\* No VM is lost between the manifest and result.json: one row each, a row with
\* no round exactly for an error, and a runner that failed is reported.
EveryVmHasItsRow ==
  /\ \A j, k \in DOMAIN issues : issues[j].vm = issues[k].vm => j = k
  /\ \A k \in DOMAIN issues :
       issues[k].rounds = 0 <=> \E e \in errors : e.kind # "runner" /\ e.vm = issues[k].vm
  /\ RunnerError \in errors <=> rc # 0
  /\ result.published =>
       /\ result.total = NumAgents
       /\ result.verified + result.failed = NumAgents
       /\ \A v \in VMs : \E k \in DOMAIN issues : issues[k].vm = v

RowOf(i) == { k \in DOMAIN issues : issues[k].issue = i }

Settled == [i \in Issues |->
  IF RowOf(i) = {} THEN "open"
  ELSE IF \E k \in RowOf(i) : issues[k].verified THEN "verified" ELSE "failed"]

Report ==
  IF phase = "done"
  THEN [state |-> "published", verified |-> result.verified, failed |-> result.failed]
  ELSE [state |-> IF phase = "crashed" THEN "aborted" ELSE "none", verified |-> 0, failed |-> 0]

Ledger == INSTANCE IssueLedger WITH Work <- Issues, settled <- Settled, report <- Report

\* With one issue per VM the branch keeps the promise of IssueLedger.
ImplementsLedger == Ledger!FairLedgerSpec

=============================================================================
