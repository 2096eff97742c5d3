# Formal models of the agentic AI benchmarking framework

TLA+ specifications of the parts of `aab_framework/` and `bin/` that decide what a
benchmark run reports: who works on which issue, when work is repeated or given
up, what is counted, and what happens to a result when a thread raises, a VM is
stopped in the middle of a write, a collector does not end or two requests meet
in the dashboard. TLC checks small instances of every module; TLAPS proves every
safety invariant the passing runs check, their action properties and the safety
part of every refinement, for every number of issues, agents, VMs, threads,
rounds, files, points and requests. What stays with TLC alone is liveness.

Paths below are relative to the repository.

## 1. The system and its parts

| Part | State it keeps | Operations | Module |
|---|---|---|---|
| Orchestrator, worker, aggregator (`team_v2/orchestrator.py`, `worker.py`, `aggregator.py`, `planner.py`, `resource_governor.py`) | futures of a thread pool, `issues`, `errors`, `result.json` | health checks, `run_issue` with its rounds, `as_completed`, aggregation | `TeamRun` |
| Verifier, reviewer, repair loop (`team_v2/verifier.py`, `reviewer.py`, `repair_loop.py`) | none | `verify_synthetic`, `verify_command`, `review`, `should_retry` | `IssueRound` |
| Workspaces, the CLI adapter and its containers (`team_v2/repo_context.py`, `mini_swe_adapter.py`, `docker_runtime.py`) | directories, git worktrees, patches, processes and containers of the CLI | `prepare`, start, edits, end or timeout of the CLI, `git diff` | `IssueWorkspace` |
| Repository context (`team_v2/repo_context.py`) | index, bundle, prompt | `build`, `augment_prompt` | `RepoContext` |
| Firecracker team executor (`team_v2/firecracker_runner.py`, `bin/run_prepared_firecracker_agents.sh`, `rootfs.py`) | VM processes, images, copied results | prepare, copy task, launch, stop, wait, copy out, collect | `FirecrackerTeam` |
| Guest coding agent (`rootfs.py`, `workloads/coding.py`, `metrics.py`) | trace, counters, `result.json` in the VM | tasks, requests, two writings of the result | `GuestAgent` |
| Guest worker of a team run (`guest_worker.py` in `rootfs.py`) | the process of mini-swe-agent, files of `/output` | probe, run, SIGTERM and SIGKILL, diff, result | `GuestWorker` |
| Memory workers of a guest (the C program and the shell loops in `rootfs.py`) | threads, arrays, measures | create, allocate, burn, join, add up | `MemoryBurner` |
| VM planning (`sweep.py`, `firecracker.py`, `executors/firecracker.py`, `launch.py`, `plan_point` of the coding sweep) | specs, images, manifest, CPU lists | `plan_point`, `plan_agents`, `prepare_firecracker_executor_run`, `plan_vm_placement` | `VmPlan` |
| Team sweep (`team_v2/sweep.py`) | loop indices, `child_runs`, group result | one child run per point | `TeamSweep` |
| Coding sweep script (`bin/run_coding_firecracker_sweep.sh`) | pids of collectors, summaries | start, run, stop, tabulate | `CodingSweep` |
| Metrics sweep scripts (`bin/run_mini_swe_agent_team_v2*_sweep_with_metrics.sh`, `team_v2/metrics_wrapper.py`, `metrics_observer.py`) | pids, sample files, result rows | start, sample, stop, move, refresh, group | `MetricsSweep` |
| Dashboard control (`dashboard.py`) | `process`, `current_sweep_root`, the lock | start, stop, status | `Dashboard` |
| Dashboard report of a coding sweep (`dashboard.py`, `metrics.py`) | `aligned_metrics.*`, which its GETs write | `ensure_aligned_metrics`, `load_run_report` | `SweepReports` |
| Dashboard page and its other readers, parsers of tool output, plugin registry, command line, host set-up | none, or files they only read | | not modelled, see section 8 |

How they meet:

- The **sweeps** call the orchestrator (`TeamSweep` in one process,
  `MetricsSweep` through the command line, `CodingSweep` goes straight to the
  VMs). They see only its `result.json`, or that there is none.
- The **orchestrator** runs issues either in its own threads (`TeamRun`) or by a
  shell script that starts one VM per agent (`FirecrackerTeam`). Both make rows
  and totals of the same form: `IssueLedger` is what both promise.
- The **threads** of a run share no Python state but the futures; they do share
  directories, and with other runs too the names of containers (`IssueWorkspace`).
- A **VM** and the host share an image. The host may touch it only while the VM
  does not run, and what the guest wrote may not have reached it.
- The **worker** of a team run's guest starts mini-swe-agent and reports it in
  `result.json`: `GuestWorker` in detail, three actions of `FirecrackerTeam` from
  outside.
- The **dashboard** starts a sweep as a process group and later signals it, from
  any of its handler threads; and each GET of a run's report may write the table
  it then reads, while the sweep's script works and other GETs do the same.

What is hard here: threads that complete in any order and may raise anywhere;
rounds that depend on two policies, two verdicts and a limit at once; guests
that are stopped at an arbitrary moment; `set -e` and `set +e` with processes in
the background; a stop request that acts on a process it read under a lock it no
longer holds; processes that outlive their timeout; a file written by several
requests at once; budgets and addresses at their limits. `PROJECT.json` lists these
hazards with their lines and the properties that watch them.

## 2. The modules

`IssueLedger` is the abstract specification: each issue of a run is settled
once, as verified or as failed, and one report follows that counts each issue
exactly once; or the run cannot start and leaves nothing. `FairLedgerSpec` adds
that the run ends.

```
              IssueLedger            (abstract)
              ^         ^
   implements |         | implements
IssueRound <- TeamRun   FirecrackerTeam     TeamSweep (children seen as IssueLedger does)
              ^         ^         ^
TeamRun_proofs          |         | implements (its guest)
      FirecrackerTeam_proofs      GuestWorker

GuestAgent, GuestWorker, MemoryBurner <- MCGuest (the programs of a guest)

CodingSweep <- SweepReports (the script and, beside it, the dashboard's GETs)

AgentOrder  <- TeamSweep, MetricsSweep (the order of a group's points)

Counting (sums, places in sequences, division) <- the modules of proofs, but for
                                   FirecrackerTeam_proofs and Dashboard_proofs
  Guest_proofs         GuestAgent, GuestWorker, MemoryBurner, VmPlan
  Repository_proofs    IssueWorkspace, RepoContext
  SweepReports_proofs  CodingSweep, SweepReports
  GroupSweeps_proofs   MetricsSweep, TeamSweep
  Dashboard_proofs     Dashboard
```

**TeamRun** (with `IssueRound`). `CheckAndSubmit` is everything before the pool,
`StartIssue` a free thread, `PrepareIssue`, `Generate`, `Verify` and
`ReviewRound` the steps of `SWEWorkerAgent.run_issue`, `Raise` an exception in
any of them, `CollectReturned` and `CollectRaised` the two ways through the
`as_completed` loop, `Publish` the aggregation. A log is the set of markers the
verifier and the reviewer look for; a patch is one of the four kinds the
reviewer tells apart. The reviewer and the verifier look for different markers
("1 passed" against "passed"), and a verify command that succeeds in silence
leaves a log of the verifier's own: both are kept, for outcomes depend on them.
`ProbeMissing` is a host without `curl` or without a docker client.

**IssueWorkspace** takes `run_issue` at the level of directories and processes:
`UseSource`, `ClearOld`, `AddWorktree` and `CopyTree` are `prepare` in its three
modes, with the fallback from worktree to copy. `StartCli` starts the CLI, as a
process or as a one-shot container, `Edit` is what it does, `FinishCli` its
end and `TimeoutCli` the end of the call's patience: `subprocess.run` kills the
docker client, and the container goes on until `LeftoverEnds`. `RefuseCli` is
docker's refusal of a name that is taken, which the adapter takes for a CLI that
failed. `TakeDiff` is `_git_diff`.

A patch is the set of calls of whose changes it shows some. `git diff` compares
the files with the index of the repository it finds, so the model tells apart
what a CLI may do: change files git may know (`ChangeFiles`), make new ones,
which the diff does not show (`MakeFiles`), and tell git of files. After `git
add`, a commit or a stash the diff begins anew (`StageFiles`); a copied tree has
no `.git`, so its diff is that of whatever checkout lies around the run directory
(`Enclosed`), until a CLI makes it a repository (`InitRepo`) or adds it to the
outer one (`AddToOuter`).

A container's name is a sequence of characters: `WholeName` is what the adapter
gives for agent, issue and round, without the run, and `ContainerName` what
`container_name` makes of it, "-" for every character but letters, digits, "."
and "-", cut at 120. So calls of different runs, and with ids that are long or
differ in such characters also issues and rounds of one run, may get one name.

**FirecrackerTeam** steps through the loops of the shell script VM by VM
(`cursor`) while the guests run by themselves. A guest's `result.json` exists
twice: as the guest sees it (`cache`) and as the image holds it (`disk`);
`Flush` moves one to the other at any time. The script stops VMs without asking
what they do, so a copy may be missing, torn or whole.

**GuestAgent** is the workload script of the other kind of guest, one copy per
VM, with time in ticks: tasks, requests with a timeout, the wait for the
background memory workers, the two writings of `result.json`, the deadline, and
the task counts the host makes of what it found.

**MemoryBurner** is what that wait (`MemoryEnds` of `GuestAgent`) waits for: the
script's choice between the C program and shell loops, the program's main, which
creates its threads, joins them and adds up, and `worker_main` of each thread
with its allocation that may fail and the pointers that `triad` turns around.
The words it reads and writes are not in the model, only which array a pointer
points to.

**GuestWorker** is `guest_worker.py`: the probes, mini-swe-agent run as a
process, inside the worker or as a mock, the three waits with SIGTERM and
SIGKILL between them, the diff and the files, with `result.json` last. `/work` is
made with `mkdir` alone (`bin/customize_firecracker_rootfs.sh:60`,
`bin/run_prepared_firecracker_agents.sh:71`) and is no repository, and the worker
ignores the status of `git diff`: the patch is empty until mini itself puts
`/work` under git (`UseGit`), and then it is the number of edits git shows
(`shown`), to which new files do not belong. `Team` is the instance of
`FirecrackerTeam` with one VM whose guest is this worker.

**VmPlan** computes addresses, MACs and CPU lists as the code does; the VMs are
known by their index, on which everything they get depends. A point's agents are
divided among VMs by `PlannedTasks` (`plan_point` of the script) and, as
`sweep.py` does it, by `SweepPoint`. The two loops over CPU lists,
`format_cpu_list` and `expand_cpu_list`, are recursive functions on the number of
entries done, so that they can be proved about. A cpulist of the kernel names
each CPU once; the code does not look for repetitions, so `PlanAssumption` says it.

**TeamSweep** is the three nested loops. A child is the abstract ledger: it
publishes totals that add up, and its errors, or raises. Its errors are those of
its issues and up to two of the run itself (`RunErrors`: docker is unavailable,
`orchestrator.py:52`; the Firecracker runner failed, `:63`). A combination is known
by its place in the loops, for a list may have a value twice. `AgentOrder` is
`sorted(..., key=agents)`: stable, so the runs of one agent count stay in the
order of the loops, in the group's points here and in those of `MetricsSweep`.

**CodingSweep** and **MetricsSweep** are the two ways the scripts treat their
collectors. The first runs under `set -e` throughout; the second stops its
collectors under `set +e` before it looks at the status of the run. A collector
is a pair of kind and point, so that a collector that outlives its point is
visible as such.

**SweepReports** extends `CodingSweep` by the handler threads of the dashboard that
answer `GET /api/run` of that sweep. `HasTable`, `HasSummary`, `Summarize`,
`OpenReport`, `WriteBlock` and `WriteOthers` are `ensure_aligned_metrics`, step by
step as threads can meet; `ReadReport` is `load_run_report`. The table is written
in blocks, one for each point; a writer that is overtaken by an `open(..., "w")`
writes behind the new end of the file, and the gap it leaves (`Hole`) reads as a
broken row. A write may fail, and the dashboard may be ended in the middle.

**RepoContext** is `build` and `augment_prompt` with sizes in bytes: files of
any size at the time they are read, budgets for files, bytes, bundle and git
history, `git log` that may time out.

**Dashboard** has one process counter per thread and a step for every lock,
poll, launch, signal and wait with timeout of `start_sweep`, `stop_sweep` and
`status`. Sweep processes end whenever they like. A SWEEP_ROOT is its time
stamp, so two sweeps of one second have the same one.

## 3. What the runs check

Times are those of two TLC workers; states are distinct states.

| Run | Instance | What it shows |
|---|---|---|
| `team_run` | 2 issues, 3 agents, 2 threads, 2 rounds, CLI adapter with docker, four kinds of log, one issue with a verify command (146,600 states) | `RetryChain`, `OutcomeFromLastRound`, `NoEarlyGiveUp`: the rounds of an issue and its outcome fit together. `LedgerMatchesFutures`, `SummaryAddsUp`: rows, errors and totals agree in every completion order. `ImplementsLedger`: the run refines `FairLedgerSpec` |
| `team_run_llm_limit` | 2 issues, 2 threads, limit 1 | violated: `LlmRequestsWithinLimit` (section 7) |
| `issue_workspace` | 2 issues of one agent in one run, one with an id so long that its containers get the name of the other's first round; all three modes, docker or not, git source, enclosing checkout with changes, 2 rounds (989,418) | `PatchShowsWork`: what a patch says of its issue's changes in each mode. `NoLostWorkspace`: no call loses its directory. The action property `NoRoundWithoutAgent`: a round without an agent needs another call's container with its name |
| `firecracker_team` | 3 issues on 3 VMs (150,631) | `ImageHasOneUser`, `VerifiedByOwnGuest`, `EveryVmHasItsRow`; `ImplementsLedger`: the branch refines the same abstract specification |
| `dashboard` | 3 threads, 4 requests, 2 seconds (207,292) | `OneSweepAtATime`, `FieldsAgree`, `StopEndsItsSweep`, the action property `StopSparesLaterSweeps`, and `RequestsAnswered` |
| `team_sweep` | 2 context lengths, agents 2 then 1, 2 repeats, 3 errors in all (748,593) | `GroupCoversGrid`, `RowsAreTheChildrens` |
| `guest_programs` | 2 coding VMs, 2 tasks, both load modes, deadline at 4 ticks; a worker in its three modes with 2 edits; 2 memory threads with 2 rounds (510,916) | `ResultCountsTrace`: the guest's two books agree. `TableClaimsNoMore`: no task is reported that was not done. `VerifiedPatchIsFinal`: a verified issue's mini came to its own end, its files are there, and its patch is what git shows of `/work` from then on. `ImplementsGuest`: the worker is the guest of `FirecrackerTeam`. `WorkerEnds`. `TotalIsOfThreads`: the burner's total is that of all its threads |
| `coding_sweep` | 3 points, dcgmi or not, two handler threads with 3 GETs (642,264) | `CollectorsOfOnePoint`, `TableOfWholeSweep`; the action property `NothingOfPartialSweep`: the dashboard shows nothing of a sweep that is not whole, and less than the whole only beside a writer; `TableHeals`: a table begun gets complete, unless a write failed |
| `metrics_sweep` | agents 2, 1, 2: two points share a directory (22,884) | `NoCollectorLeft`, `MetricsAreOwn`, `GroupTellsSamples`, `SweepEnds` |
| `repo_context` | 5 files of 0 to 4 bytes, budgets of 7 and 10 (250,574) | `BudgetsKept`, `BundleFull`, `PromptTellsContext` |
| `vm_plan` | 13, 70 and 500 agents, at most 1 or 4 in a VM, on two NUMA nodes of different size, from third octet 254 (1,526) | `ManifestIsWhole`, `PinningIsFair`, `GuestAddressesUnique` |
| `vm_plan_macs` | 128 VMs | violated: `MacsUnique` (section 7) |

Every module with variables of its own states its type invariant (`TypeOK` or a
name that ends in it). No run checks it, for each is a theorem (section 5).

`MCGuest` puts three programs that run in a guest into one instance; `program`
says which of them a behaviour is about, for they do not touch each other's
state.

The MC modules add one stuttering step where the program has ended (`Stopped`,
`Finished`, `Ended`), so that TLC's deadlock check stays on: a state in which the
program has not ended and can do nothing would be reported.

### Bounds, and why they are enough

- *Two issues, two threads* (`team_run`): rows are per issue and issues meet
  only in the pool and the ledger, so two are needed for a completion order and
  for a second row; with three agents one agent has no issue, the case
  `_agent_rows` counts as succeeded. Two rounds give a first, a last, and a
  round that is both where a policy gives up. More of each is what the theorems
  are for.
- *Two calls* (`issue_workspace`): they share a run, an agent, the shared source,
  the checkout around their copies and a container's name, and each has its own
  earlier round. Six characters of a name stand for what 120 leave: enough for
  one id with its round and too few for the other. A third call adds nothing a
  call does with another; calls of other runs meet these only by names, and the
  theorems have any number of both.
- *Three errors* (`MaxErrors` of `MCTeamSweep`): those of both agents of a child
  and its runner's, or one in each of several children.
- *Two edits* (`GuestWorker`): one that git shows and one it does not, or one on
  each side of a `git add`. *Two threads,
  two rounds* (`MemoryBurner`): one thread that is joined while another burns;
  two turns of the three pointers, after which they are as good as any.
- *Three GETs in two threads*: two writers at once, and a reader while a writer
  that was overtaken goes on.
- *Three VMs*: one whose copy is made, one at which the script fails, one it
  never reaches.
- *Three threads, four requests*: one stop that has read its process, one stop
  that reaps it, one start in between, and one request more for the sweep
  before. The clock has two values, the same second and a later one.
- *Counts 2, 1, 2*: a repeated count, and a list that is not sorted.
- *Budgets of 7 and 10 bytes*: smaller than the files together and no multiple
  of anything, so files are cut and snippets are skipped with smaller ones to
  follow.
- *13, 70 and 500 agents, limits 1 and 4*: 13 has no divisor from 2 to 4, 70 has
  2, 500 has 4; both NUMA nodes wrap around at different times, and 8 vCPUs are
  more than a node of 4 CPUs has; 490 addresses are left from octet 254 on, so a
  plan of 500 VMs rolls over once and then ends.
- *128 VMs*: a point of the documented sweep.

`MaxRequests`, `MaxClock` (Dashboard) and `Candidates`, `MaxSize` (RepoContext)
bound the environment and appear in the guards of its actions, as do `MaxGets`
(SweepReports), `MaxEdits` (GuestWorker) and `MaxRounds` (MemoryBurner);
`GuestAgent` bounds sustained mode by one tick for each request.

## 4. Fairness

- **TeamRun**: weak fairness of the checks, of each issue's next step, of
  collecting it and of publication. Threads are scheduled; the CLI, the verify
  command, curl and docker are called with timeouts or end; the main thread only
  waits for futures. `Raise` belongs to the same fairness as the step it
  replaces: a step ends, one way or the other.
- **FirecrackerTeam**: the host's steps go on, and a firecracker process that
  got SIGTERM ends. Nothing is assumed of the guests, which may hang in any
  state.
- **Dashboard**: every handler thread goes on when it can. Nothing is assumed of
  the sweeps or the clients: `wait` has a timeout in the code, and the property
  is that this is enough.
- **MetricsSweep**: the script's commands and the CLI run end, and PCM, which
  was started for an hour, ends even if `sudo` refused to interrupt it. The
  other collectors need not.

- **SweepReports**: a handler thread that has begun a request goes on. Nothing is
  assumed of the script, nor that a request comes.
- **GuestWorker**: the worker goes on, by a timeout if by nothing else. Nothing is
  assumed of mini-swe-agent, its commands or the VM: that mini may ignore SIGTERM
  and, for all the worker knows, SIGKILL is why `WorkerEnds` is not obvious.

No other module states a liveness property.

## 5. What is proved

Every safety invariant and action property of the passing runs, the type
invariants, and of the refinements that every step of the detailed specification
is a step of the abstract one or leaves it alone. The constants are those of the
modules with their named assumptions and nothing more, but where a table below
says so.

`Counting` is what the other modules of proofs stand on. Totals, budgets and group
results are sums of the community modules, folds over sets by `CHOOSE`; what a
fold computes is shown here by smallest counterexamples (`SmallestSet`,
`LeastNatural`: of the sets, or numbers, for which a claim fails, take a least
one): that the recursive function exists and is unique (`SumsExist`, `SumsAgree`),
that any element may be taken out first (`SumTakeOut`), and from it how sums
change, extend, compare and split (`SumChange`, `SumExtend`, `SumMonotone`,
`SumUnion`, `SumOfSome`). `Places` are the positions of a value in a sequence.
`Turns` is how many of `t` things dealt out in turn to `P` places a place gets;
`NextTurn`, `TurnsTaken` and `SliceFacts` say what list indices modulo a length do.

### The run on the host

`TeamRun_proofs` holds the theorems about `TeamRun`, for any values of the
constants that satisfy `CountsAssumption` (at least one agent, thread and round,
as `TeamRunConfig.__post_init__` demands; no issue at all is allowed, for an
instances file may be empty) and `ConfigAssumption`:

| Theorem | Statement |
|---|---|
| `TypeCorrect` | `Spec => []TypeOK` |
| `RepairRoundsChain` | `Spec => []RetryChain` |
| `OutcomeIsLastVerdict` | `Spec => []OutcomeFromLastRound` |
| `GivesUpOnlyByPolicy` | `Spec => []NoEarlyGiveUp` |
| `LedgerCorrect` | `Spec => []LedgerMatchesFutures` |
| `PublishedTotalsAgree` | `Spec => []SummaryAddsUp` |
| `RunKeepsLedger` | `Spec => Ledger!LedgerSpec`: every step is a step of `IssueLedger` or leaves it alone |

The argument:

1. `TypeOK` is inductive as it stands. The lemmas it needs are that the three
   decision operators answer with what their types say and that a verify
   command leaves a log the reviewer can read.
2. `StageInv` says that no issue is past the queue before the pool runs and that
   a published run has collected all of them.
3. None of the three properties about rounds is inductive: that an outcome
   fits the last round needs to be known while the rounds are still being made.
   `ChainInv` says of each issue, by the place it is at, how many rounds it has
   and what each of them says: every round of an issue still in the loop asked
   for another; a returned issue has one last round that asked for none.
   `ReviewRoundChain` is the only interesting step; its heart is
   `ShouldRetryMeaning`, which states what a reason, or its absence, tells about
   the round. All four settings of the two retry policies are covered here,
   where the run checks one.
4. `LedgerInv` says that rows belong to collected issues, one each, that a row
   without rounds is a failed one and goes with an error, and that no error of an
   issue comes before its row. `AppendRow` is the lemma both ways of collecting
   use.
5. `SummaryAddsUp` speaks of the published totals. `TotalsAddUp` and `AgentsAddUp`
   show that what is counted row by row adds up: a row is verified or failed and
   no third, and the agents with no issue at all count as succeeded. `RowsAcceptedStep` is the
   invariant that a verified row has a round whose review was accepted, so that
   there are at least as many passes as verified rows (`VerifiedWithinAccepted`,
   an injection); `RoundsBounded` puts all rounds into a rectangle of rows and
   rounds.
6. For the refinement, `RowsCountIssues` shows that counting rows is counting
   issues (there is a bijection between positions and issues), so the totals
   that `Publish` counts from rows are those `PublishReport` counts from issues;
   `AppendSettles` shows that a new row settles exactly its issue.

### The run in Firecracker VMs

`FirecrackerTeam_proofs`, for any number of VMs (at least one) and issues and
with dry runs or without (`CountsAssumption`):

| Theorem | Statement |
|---|---|
| `FirecrackerTypes` | `Spec => []TypeOK` |
| `NoImageShared` | `Spec => []ImageHasOneUser` |
| `NoVmLost` | `Spec => []EveryVmHasItsRow` |
| `VerdictsAreTheGuests` | `NumIssues <= NumAgents` implies `Spec => []VerifiedByOwnGuest` |
| `BranchKeepsLedger` | `NumIssues <= NumAgents` implies `Spec => Ledger!LedgerSpec` |

The last two need that there are no more issues than VMs. Without it they are
false: `PlanOfRow` then names an issue the VM was not given (section 7).
`PlanOfRowIsPlan` is where the assumption is used. The argument:

1. `TypeOK` needs `EnoughInv`: past the preparation there is a plan for every VM,
   so that `PlanOfRow` is an issue at all. That it exists is `LargestNatural`, by
   well-founded induction on distances, applied to one set.
2. `VmInv` says how far the loops are: what a loop does has been done for every VM
   below `cursor` and, in later phases, for all. `ImageHasOneUser` follows at
   once. `TaskInv` says the same of the tasks.
3. `FileInv` relates the three places of a `result.json`: a copy on the image or
   on the host is of the guest's own task, and a whole copy is what the guest
   finished. It holds through any `Flush` and any failure of the script since a
   guest opens the file once and never after it closed it.
4. `RowInv` says that row `k` is that of VM `k - 1` and repeats what its copy
   says, `ErrorInv` that a row has no round exactly if its VM has an error,
   `ResultInv` that the totals count the rows.
5. For the refinement, `RowsInOrder` shows that row `k` is about issue `k`, and
   `SettledByRows` that an issue is open as long as no row has got to it.

### The dashboard

`Dashboard_proofs`, for any set of threads and any bounds on requests and time
(`BoundsAssumption`):

| Theorem | Statement |
|---|---|
| `DashboardTypes` | `Spec => []TypeOK` |
| `NeverTwoSweeps` | `Spec => []OneSweepAtATime` |
| `FieldsOfOneSweep` | `Spec => []FieldsAgree` |
| `StopMeansStopped` | `Spec => []StopEndsItsSweep` |
| `LaterSweepsSpared` | `Spec => StopSparesLaterSweeps` |

`Inv` is the conjunction of

- `RequestInv`: a launch uses up a request, so there is a process for each;
- `LockInv`: the lock is held by the one thread in the critical section of
  `start_sweep` and by no other;
- `SweepInv`: only the sweep launched last may run, and none while a thread is
  between the check and `Popen`; between `Popen` and the assignment of the
  fields, that thread knows the root of the new sweep, and everywhere else the
  fields name the last one. `OneSweepAtATime` and `FieldsAgree` are not
  inductive without it;
- `StopInv`: a stop works on a sweep launched before it. A step that does not
  revive a sweep and does not move one to another directory (`Calm`) cannot
  disturb it; every step but a launch is calm, and a launch brings a sweep later
  than any a stop works on.

### The worker in a guest

`Guest_proofs`, for any set of runners and any bound on edits
(`WorkerAssumption`):

| Theorem | Statement |
|---|---|
| `WorkerTypes` | `WorkerSpec => []WorkerTypeOK` |
| `VerifiedMeansFinal` | `WorkerSpec => []VerifiedPatchIsFinal` |
| `WorkerIsGuest` | `WorkerSpec => ImplementsGuest` |

1. `VerifiedPatchIsFinal` speaks of the moment `result.json` is whole, and says
   nothing of the steps before. `WorkInv` adds what is true on the way:
   `ProcessInv` (which processes there can be at which step), `CodeInv` (code 0
   past the run stands for a mini that came to its own end, after which nobody
   edits `/work`), `OutputInv` (which files there are, and what `patch.diff`
   shows) and `VerdictInv` (what `result.json` says of the code). The conjuncts
   need each other: `OutputInv` holds through an `Edit` only because `CodeInv`
   rules the edit out.
2. For the refinement there is one `Seen` lemma for each way in which a step of
   the worker shows outside: `SeenStarts`, `SeenWrites`, `SeenCloses`,
   `SeenFails`, `SeenAborts`; `SeenNothing` is the rest.

### The workspaces

`Repository_proofs`, for any set of calls, runs and issue_ids, any modes and
any number of rounds (`WorkspaceAssumption`, `SourceAssumption`):

| Theorem | Statement |
|---|---|
| `WorkspaceTypes` | `Spec => [](TypeOK /\ RoundsLeft /\ NoOwnCli)` |
| `PatchesShowWork` | `Spec => []PatchShowsWork` |
| `WorkspacesKept` | `Spec => []NoLostWorkspace` |
| `RoundsHaveAgents` | `Spec => NoRoundWithoutAgent` |

`CallInv` says of each call which directory is there since `prepare` (`DirInv`),
that no CLI of its own runs between its rounds (`CliInv`) and whose changes git
finds in its directory (`ChangeInv`); `PatchShowsWork` needs all three, since what
a later edit would do to a patch depends on who can still edit. `SourceInv` and
`CopiesInv` are what the calls share: nothing takes the source's `.git` away, and
git knows nothing of a copy while no CLI has told it. `OthersStay` is the lemma
for calls that a step does not belong to: two calls have different workspaces
(`WorkspaceFacts`, the one place where `UniqueIds` is used), so another's CLI may
at most add a copy to the checkout around it and change the shared source.
`RoundsHaveAgents` needs no unique ids and nothing of how names are made: between
its rounds a call has no CLI of its own (`NoOwnCli`), so the container that has
its name is another call's.

### The repository context

`Repository_proofs`, for any files, sizes and budgets (`LimitsAssumption`):

| Theorem | Statement |
|---|---|
| `ContextTypes` | `ContextSpec => []ContextTypeOK` |
| `ReadingKeepsBudgets` | `ContextSpec => []BudgetsKept` |
| `BundleAsFullAsItCan` | `ContextSpec => []BundleFull` |
| `PromptIsOfContext` | `ContextSpec => []PromptTellsContext` |

`ContextInv` says what was read so far and why reading stopped (`ReadInv`), what
the git history has (`HistoryInv`), that the size of the bundle is its header and
the snippets that are in it, and that each one left out did not fit when its turn
came and, since the bundle only grows, does not fit now (`BundleInv`); and what
the outputs and the prompt are by how far the build is (`OutputsInv`). `EntryAdds`
is the step in which a file becomes an entry, `ReadSums` what it adds.

### The sweep scripts

`SweepReports_proofs` (`CodingSweep`), for any number of points
(`PointsAssumption`), and `GroupSweeps_proofs` (`MetricsSweep`), for any list of
agent counts (`SweepAssumption`):

| Theorem | Statement |
|---|---|
| `SweepTypes`, in each of the two | `Spec => []TypeOK` |
| `CollectorsOfTheirPoint` | `Spec => []CollectorsOfOnePoint` |
| `TableMeansWhole` | `Spec => []TableOfWholeSweep` |
| `CollectorsEnd` | `Spec => []NoCollectorLeft` |
| `MetricsOfOwnRun` | `Spec => []MetricsAreOwn` |
| `GroupInvariant` | `Spec => []GroupsInv` |
| `GroupTells` | `Spec => []GroupTellsSamples` |

Both have a `RunningInv`: `MayRun` names the kinds of collector there may be at
each command, and each is of the point and the one its variable names, so a stop
ends it. `TableOfWholeSweep` rests on `CpuInv` (the CPU collector runs as long as
the VMs) and `PointsInv` (every point behind the loop has its files).
`MetricsAreOwn` rests on `TmpInv` (what a directory has is of points that use it
and are not yet to come) and `FreshInv` (a file that its start empties has only the
point's own samples from there to the move).

`GroupTellsSamples` speaks of the end. `GroupsInv` follows a sample there: from
the collector's directory into the run's, from there into its result
(`SampledInv`), while `ChildrenInv` keeps the list of children the points behind
the loop, in order. That the points of the group are the children and all of them
is `RowsAtPlaces`: a stable sort is a permutation, each row at one more than the
number of rows before it.

### The dashboard's reports

`SweepReports_proofs`, for any number of handler threads and GETs beside the
script:

| Theorem | Statement |
|---|---|
| `SweepUndisturbed` | `AllSpec => Spec`: the script does what it does alone, so its theorems hold |
| `ReportsInvariant` | `AllSpec => [](ReportsTypeOK /\ SweepInv /\ ReportsInv)` |
| `NothingOfPart` | `AllSpec => NothingOfPartialSweep` |

`GetsInv` says what each GET has found by where it is: past its questions there
are rows of a whole sweep, and whoever writes goes for all points. `TableInv` is
about the table on disk: unless a write failed or a gap was left (`broken`), it is
whole, or the writer that emptied it last is at work and all of its blocks so far
are in it. The second case is what another GET may read; with it the action
property needs no history.

### The team sweep

`GroupSweeps_proofs`, for any lists of context lengths and agent counts, repeated
values included, and any number of repeats (`GridAssumption`):

| Theorem | Statement |
|---|---|
| `GridTypes` | `GridSpec => []GridTypeOK` |
| `GridInvariant` | `GridSpec => []GridInv` |
| `GridCovered` | `GridSpec => []GroupCoversGrid` |
| `RowsOfChildren` | `GridSpec => []RowsAreTheChildrens` |

`GroupCoversGrid` names the place a combination must have, for two combinations
of a list with a repeated value cannot be told by their values. `GridInv` is

- `LoopInv`, where the three loops are, and `PlaceInv`, that the row of each
  combination behind them is at its place: `Place` counts with three digits, and
  `PlacesDiffer` and `NextPlace` are its arithmetic;
- `RowInv`, what a row says of its child, and `IssuesInv`, which gives the sum of
  the issues so far as a polynomial in the loop indices; at the end it is
  repeats times context lengths times the sum of the agent counts;
- `ErrorsInv`: the errors stand child by child, those of row `k` behind
  `ErrorsBefore(k)`, a sum of its own;
- `ResultInv`: the group was made of these rows, errors and sums.

`SortedTimes` shows that a stable sort by agents has each row as often as the list.

### The plan of the VMs

`Guest_proofs`, for any counts, limits, nodes, CPU lists and vCPUs that satisfy
`PlanAssumption`:

| Theorem | Statement |
|---|---|
| `PlanTypes` | `PlanSpec => []PlanTypeOK` |
| `AddressesUnique` | `PlanSpec => []GuestAddressesUnique` |
| `ManifestWhole` | `PlanSpec => []ManifestIsWhole` |
| `PinnedAsSliced` | `ExpandCpuList(FormatCpuList(cpus)) = cpus`, for every list of CPUs |
| `PinningFair` | `PlanSpec => []PinningIsFair` |

- *Addresses.* `GuestIpFacts` is division with remainder; `AddressesCount` that
  positions and addresses correspond one to one.
- *Manifest.* `PlannedTasksDivide`: going down from the most a VM may have always
  finds a divisor, the greatest; so no agent is lost (`PointDivided`) and
  `sweep.py` plans the same (`SweepPointAgrees`). `ManifestInv` says how far specs
  and configurations are in each phase.
- *CPU lists.* `RangesTell` says that ranges divide a list into blocks of
  consecutive numbers; `RangesStep` that one round of `format_cpu_list` keeps it;
  `ExpandTells` that `expand_cpu_list` gives the list back, block by block.
- *Pinning.* `PlacedInv` says that row `m` is the placement of VM `m - 1`.
  `PinningIsFair` bounds the difference of two loads, which is not inductive;
  `LoadInv` gives each load exactly: with `t` the vCPUs of the VMs that the node
  has so far, `Turns(number of CPUs, t, position in the list)`. That is so because
  the slot of a VM on its node is the number of VMs there before it
  (`PlacementIs` with `NextTurn`), so each slice begins where the last one ended
  (`PlaceVmPinned`), and two places differ by one turn at most (`WithinOne`).

### The coding guests and the memory burner

`Guest_proofs`, for any set of guests, tasks, either mode and any deadline
(`GuestAssumption`), and any number of threads and rounds:

| Theorem | Statement |
|---|---|
| `AgentTypes` | `Spec => []TypeOK` |
| `BooksInvariant` | `Spec => [](TypeOK /\ BooksInv)` |
| `ResultsCount` | `Spec => []ResultCountsTrace` |
| `TableHonest` | `Spec => []TableClaimsNoMore` |
| `BurnerTypes` | `BurnerSpec => []BurnerTypeOK` |
| `BurnInvariant` | `BurnerSpec => [](BurnerTypeOK /\ BurnInv)` |
| `TotalOfThreads` | `BurnerSpec => []TotalIsOfThreads` |

`BooksInv` keeps the two books of a guest side by side: the counters are what the
trace shows (`TraceInv`), and where the agent is says how many tasks it has begun
(`TasksInv`), so that a result written past the last task (`ResultInv`) has them
all. The lemmas on `Places` say what the lines of a stage add to a trace.
`TableOfTraces` carries it to the sums over all guests, whose results may be
missing.

`BurnInv` says which threads main has created, or joined and added up, by its loop
index, and what each thread has done; that the pointers of a thread are its three
arrays, in some order, is what survives `triad`. `MeasuresSum` is the sum that is
complete when main prints it.

## 6. What is only model-checked

- The liveness half of `ImplementsLedger` (that a run ends), `RequestsAnswered`,
  `SweepEnds`, `TableHeals` and `WorkerEnds`: liveness under fairness, and
  `ENABLED`, are outside what the provers used here do.
- `VerifiedByOwnGuest` and the refinement of `FirecrackerTeam` are proved, and
  checked, for no more issues than VMs; with more they are false (section 7).
- `MacsUnique` and `LlmRequestsWithinLimit` are violated.

Some definitions were written so that they could be proved about; the code was
read again each time:

- an order by agents alone says nothing of runs with the same count, where
  Python's sort is stable: `AgentOrder` has the stable order now, and
  `GroupCoversGrid` and `GroupTellsSamples` say more than before;
- `GroupCoversGrid` in terms of values was wrong for lists with repeated values;
  in terms of places it holds for all;
- nothing in the code keeps `plan_vm_placement` from a CPU list that names a CPU
  twice, and then the loads are not fair: `PlanAssumption` has what the kernel's
  `cpulist` files guarantee.

## 7. Where code and documents disagree

Two of these are runs in which TLC shows the violation:

- **`max_active_llm_requests` limits nothing** (`team_run_llm_limit`).
  `docs/mini_swe_agent_team_v2.md:240` says it limits LLM concurrency;
  `team_v2/orchestrator.py:70` sizes the pool by `parallelism` only, and nothing
  acquires what `ResourceGovernor` stores.
- **Two VMs get one MAC** (`vm_plan_macs`). `_stable_mac` at
  `firecracker.py:251` is a weighted sum of characters: `agent-008` and
  `agent-090` have the same. From the 91st VM on, two taps of one bridge answer
  to one MAC. The sweep of `docs/firecracker-coding-agent-sweep.md` goes to 164.

Others were met while modelling and need no model to see:

- `docs/methodology.md:294` says a sweep should stop when the LLM service
  becomes unhealthy; `team_v2/sweep.py:73` takes the row and goes on.
- `docs/mini_swe_agent_team_v2.md:67` says a run without docker still writes
  `result.json`. It does with the daemon stopped; without the docker program, or
  without curl, the probe raises and there is none (`docker_runtime.py:51`,
  `resource_governor.py:17`; action `ProbeMissing`).
- With more issues than VMs the Firecracker branch runs the first issue of each
  agent but, at `firecracker_runner.py:120`, labels the row with the agent's
  last one; the other issues get no row and no error. `docs/mini_swe_agent_team_v2.md:77`
  says each issue records its life cycle. `FirecrackerTeam` models it (`PlanOf`,
  `PlanOfRow`); `ImplementsLedger` is checked with one issue per VM.
- A verified patch that is empty is a warning only if its log has "1 passed",
  "submit" or "verify command passed"; "2 passed" satisfies the verifier and not
  the reviewer (`reviewer.py:14`), so the issue goes to another round.
- A patch from a copied workspace does not show the work: `git diff` answers for
  the checkout around it. From a worktree it shows changes of files git knows and
  no others: a CLI that solves an issue with a new file, as that of
  `tests/test_mini_swe_agent_team_v2.py:556` makes one, or that commits its work,
  leaves an empty patch. `PatchShowsWork` states this as the code has it.
- The patch of a guest's issue is empty even if it is verified, unless mini itself
  made `/work` a repository: `rootfs.py:732` takes what `git diff` prints in a
  directory nothing has put under git, and ignores its status.
  `VerifiedPatchIsFinal` states this.
- `timeout_issues` of the summary counts the status `timeout` (`aggregator.py:22`),
  which no path gives an issue: a CLI that runs into its timeout raises, and its
  issue is `failed`. `docs/methodology.md:214` lists the timeout rate as a metric.
- Latency percentiles of the coding sweep (`metrics.py:104`) take every line of
  the trace, stage events included, where `docs/methodology.md:213` speaks of
  task latency.
- `docs/mini_swe_agent_team_v2.md:57` shows `"cleanup": true`, and the code builds
  a clean-up command for it (`docker_runtime.py`); nothing runs it, and a
  container that outlives its client stays until it ends by itself. Whatever gets
  its name meanwhile is refused and goes on to its diff without an agent
  (`RefuseCli`): the same round of the next run, and within one run a round that
  `docker_runtime.py:60-62` gives the same name.
  `--repo-workspace-cleanup` (`cli.py:161`) sets a field that nothing reads.

These are not disagreements with a document, but a reader of results should know
of them:

- The memory burner takes eight arrays of a third of `--mb-per-thread` each. The
  bandwidth profile (32 threads of 256 MB) asks for 21.3 GiB in a VM of 16 GiB.
  A burner that fails leaves a `result.json` that still claims its
  `memory_workers`.
- A result may have more errors than failed issues, also without any:
  `orchestrator.py:52` and `:63` add errors that belong to no issue, so `N` VMs
  without a result make `N` errors and one more when the runner failed. A group
  repeats them all without saying whose they are.
- A guest image without the program `mini` runs the mock, whose issues count as
  verified. In API mode one call of the model is enough for an agent that ended
  to count as verified.
- `p95` has three meanings: `metrics.py:295` and `metrics_observer.py:239`
  interpolate, `aggregator.py:42` takes the nearest rank and rounds a half to
  the even rank; and the tables take the GPU's p95 over the samples above zero
  (`metrics.py:309`) but its p50 and maximum over all of them.

## 8. What is not modelled

- **The dashboard's other readers** (the list of runs, the tail of a log, team
  reports, chart data), which only read, and **the page**.
- **Parsers** (`dcgm.py`, `nvtop.py`, `vllm.py`), **agent_team.py**, **cli.py**,
  **host set-up scripts**: no state of their own, or straight-line commands run
  by hand.
- **Time stamps, stage timings, percentiles and means**: no property is about
  them.
- `SweepReports` takes one sweep in one directory: a sweep started again with the
  same `SWEEP_ROOT`, the choice of the latest by time stamp, and a result file
  read while the script writes it are not in it. A team run's directory never
  gets `aligned_metrics`, so the observer's fallback to it is left out.
- In `GuestWorker`, commands that mini itself lets go on after it ended well:
  the library is not part of the repository.
- In `IssueWorkspace` a change that a CLI undoes counts as none, a verify command
  changes no files of the workspace, and what files hold is not modelled, only
  whose changes are in a directory.
- In `FirecrackerTeam` a mount and its copy are one step that succeeds or fails
  (`ScriptFails`), and a manifest is taken as `VmPlan` leaves it.
- `MetricsSweep` takes the script as not killed, and writes into directories it
  has made as succeeding; `CodingSweep`, which the dashboard starts, has the
  kill.
- `TeamSweep` takes one issue per agent, as the synthetic and local planners
  give.
- `Dashboard` leaves out requests that are refused before they touch the state,
  and takes a sweep as one process, not a group. In the code a `killpg` after
  the leader was reaped can still reach a child left in its group.

## 9. Plan

Done, in this order: `IssueRound`, `IssueLedger`, `TeamRun` and its proofs, then
`IssueWorkspace`, `FirecrackerTeam`, `Dashboard`, `TeamSweep`, `GuestAgent`,
`CodingSweep`, `MetricsSweep`, `RepoContext`, `VmPlan`; the proofs about
`FirecrackerTeam` and `Dashboard`; the processes and containers of
`IssueWorkspace`; `SweepReports`, `MemoryBurner`, `GuestWorker` with its
refinement to `FirecrackerTeam` and its proofs.

Next module: the statistics of a column of samples (section 7, three kinds of
p95), as operators on bags of values against one definition of a percentile.

Proved, in this order: `TeamRun`, `FirecrackerTeam`, `Dashboard`, `GuestWorker`,
`IssueWorkspace`, `CodingSweep`, `MetricsSweep`, the addresses of `VmPlan`; then
the lemmas of `Counting` and with them `SummaryAddsUp`, `GuestAgent`,
`MemoryBurner`, `RepoContext`, `SweepReports`, `TeamSweep`, the group of
`MetricsSweep`, the manifest and the placement of `VmPlan`.

Next proofs: for which numbers of VMs the MACs do differ (up to 90 they do); the
decision operators of `IssueRound` against a definition by policy; that
`GuestAgent` and `CodingSweep` compose, the results of the one being the files of
the other.
