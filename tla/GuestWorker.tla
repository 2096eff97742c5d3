----------------------------- MODULE GuestWorker -----------------------------
(***************************************************************************)
(* guest_worker.py in the VM of a team run: what FirecrackerTeam sees as a *)
(* guest that works and then writes its result.json.  It probes vLLM, runs *)
(* mini-swe-agent, in its own process (api) or as a program of its own     *)
(* (cli) with a timeout, SIGTERM and SIGKILL, or not at all (mock), takes  *)
(* the diff of /work and writes its files, result.json last.               *)
(* /work is an empty directory when the worker starts and no git           *)
(* repository: `git diff` prints nothing there, and its status is ignored. *)
(* What mini edits shows only if mini has put it under git before.         *)
(* Commands that mini itself lets go on while it works or after it ended   *)
(* well are not modelled: the library is not part of the repository.       *)
(***************************************************************************)
EXTENDS Naturals

CONSTANTS
  Runners,   \* "api", "cli" or "mock"; cli becomes mock where there is no mini
  MaxEdits   \* bound: edits of /work there will be

ASSUME WorkerAssumption == Runners \subseteq {"api", "cli", "mock"} /\ MaxEdits \in Nat

VARIABLES
  runner,    \* how the worker runs mini-swe-agent
  alive,     \* whether the VM is
  step,      \* where the worker is
  cli,       \* the process of mini
  orphan,    \* whether a command of an ended mini goes on
  edits,     \* edits of /work so far
  tracked,   \* whether mini has made a repository of /work and added its files
  shown,     \* how many edits `git diff` shows in /work
  code,      \* rc
  outputs,   \* the files in /output, result.json apart
  patch,     \* how many edits patch.diff shows
  verdict    \* result.json

workVars == <<edits, tracked, shown>>
processVars == <<cli, orphan, workVars>>
fileVars == <<outputs, patch, verdict>>
workerVars == <<runner, alive, step, processVars, code, fileVars>>

OutputFiles == {"trajectory", "patch", "test_log", "stdout", "stderr"}

Extra == {"metadata", "chat_probe", "review", "verifier"}

WorkerTypeOK ==
  /\ runner \in Runners /\ alive \in BOOLEAN
  /\ step \in {"off", "start", "mini", "api", "wait", "term", "kill", "diff", "files",
               "open", "close", "over", "raised"}
  /\ cli \in {"none", "up", "termed", "killed", "gone"} /\ orphan \in BOOLEAN
  /\ edits \in 0..MaxEdits /\ tracked \in BOOLEAN
  /\ shown \in 0..edits /\ patch \in 0..MaxEdits
  /\ code \in {0, 1, 124}
  /\ outputs \subseteq OutputFiles \cup Extra
  /\ verdict \in [state : {"missing", "torn", "whole"}, verified : BOOLEAN]

WorkerInit ==
  /\ runner \in Runners /\ alive = TRUE
  /\ step = "off"
  /\ cli = "none" /\ orphan = FALSE
  /\ edits = 0 /\ tracked = FALSE /\ shown = 0
  /\ code = 1
  /\ outputs = {} /\ patch = 0
  /\ verdict = [state |-> "missing", verified |-> FALSE]

At(from, to) == alive /\ step = from /\ step' = to

-----------------------------------------------------------------------------
\* run_worker.sh starts the worker, which reads the task.
StartWorker ==
  /\ At("off", "start")
  /\ UNCHANGED <<runner, alive, processVars, code, fileVars>>

\* Both probes are recorded, and nothing depends on what they found.
Probe ==
  /\ At("start", "mini")
  /\ outputs' = outputs \cup {"metadata", "chat_probe"}
  /\ UNCHANGED <<runner, alive, processVars, code, patch, verdict>>

RunMock ==
  /\ runner = "mock" /\ At("mini", "diff")
  /\ code' = 0
  /\ outputs' = outputs \cup OutputFiles
  /\ UNCHANGED <<runner, alive, processVars, patch, verdict>>

RunApi ==
  /\ runner = "api" /\ At("mini", "api")
  /\ UNCHANGED <<runner, alive, processVars, code, fileVars>>

\* The agent has ended, or SIGALRM or another exception has ended it, which the
\* command it was at may survive.  One call of the model is enough for an agent
\* that ended to count as a success.
ApiEnds ==
  /\ At("api", "diff")
  /\ code' \in {0, 1}
  /\ orphan' \in IF code' = 0 THEN {FALSE} ELSE BOOLEAN
  /\ outputs' \in { outputs \cup {"stdout", "stderr"} \cup t : t \in {{}, {"trajectory"}} }
  /\ UNCHANGED <<runner, alive, cli, workVars, patch, verdict>>

\* Mutant of RunCli: all the files are made before mini is started.
RunCliTouches ==
  /\ runner = "cli" /\ At("mini", "wait")
  /\ cli' = "up"
  /\ outputs' = outputs \cup OutputFiles
  /\ UNCHANGED <<runner, alive, orphan, workVars, code, patch, verdict>>

RunCli ==
  /\ runner = "cli" /\ At("mini", "wait")
  /\ cli' = "up"
  /\ outputs' = outputs \cup {"stdout", "stderr"}
  /\ UNCHANGED <<runner, alive, orphan, workVars, code, patch, verdict>>

\* Each wait returns when mini has ended.  The first takes its exit status,
\* which tells of a signal that came late too.
Waited ==
  /\ cli = "gone"
  /\ \/ At("wait", "diff") /\ code' \in {0, 1}
     \/ (At("term", "diff") \/ At("kill", "diff")) /\ code' = 124
  /\ UNCHANGED <<runner, alive, processVars, fileVars>>

Signalled(with) == cli' = IF cli = "gone" THEN cli ELSE with

\* mini_timeout_sec is over: SIGTERM, and ten seconds more.
WaitTimesOut ==
  /\ At("wait", "term") /\ Signalled("termed")
  /\ UNCHANGED <<runner, alive, orphan, workVars, code, fileVars>>

\* Mutant of TermTimesOut: the worker waits on.
TermTimesOutNot == FALSE /\ UNCHANGED workerVars

\* mini has not ended at SIGTERM: SIGKILL, and ten seconds more.
TermTimesOut ==
  /\ At("term", "kill") /\ Signalled("killed")
  /\ UNCHANGED <<runner, alive, orphan, workVars, code, fileVars>>

\* Not even now: TimeoutExpired leaves the worker.
KillTimesOut ==
  /\ cli # "gone" /\ At("kill", "raised")
  /\ UNCHANGED <<runner, alive, processVars, code, fileVars>>

\* A patch.diff that is there stays; otherwise it is what git shows.
TakePatch ==
  /\ At("diff", "files")
  /\ patch' = IF "patch" \in outputs THEN patch ELSE shown
  /\ outputs' = outputs \cup {"patch"}
  /\ UNCHANGED <<runner, alive, processVars, code, verdict>>

WriteFiles ==
  /\ At("files", "open")
  /\ outputs' = outputs \cup {"test_log", "trajectory", "review", "verifier"}
  /\ UNCHANGED <<runner, alive, processVars, code, patch, verdict>>

OpenResult ==
  /\ At("open", "close")
  /\ verdict' = [state |-> "torn", verified |-> code = 0]
  /\ UNCHANGED <<runner, alive, processVars, code, outputs, patch>>

\* Mutant of CloseResult: the file is written again with the kinder verdict.
CloseResultTwice ==
  /\ At("close", "over")
  /\ verdict' = [state |-> "whole", verified |-> code # 1]
  /\ UNCHANGED <<runner, alive, processVars, code, outputs, patch>>

CloseResult ==
  /\ At("close", "over")
  /\ verdict' = [verdict EXCEPT !.state = "whole"]
  /\ UNCHANGED <<runner, alive, processVars, code, outputs, patch>>

\* A URL that is none, no git in the image, no room on it: nobody catches it.
WorkerRaises ==
  /\ \E from \in {"start", "mini", "diff", "files", "open", "close"} : At(from, "raised")
  /\ UNCHANGED <<runner, alive, processVars, code, fileVars>>

-----------------------------------------------------------------------------
\* mini, the agent in the worker itself, or a command mini left, is at work.
AtWork == alive /\ (step = "api" \/ cli \in {"up", "termed"} \/ orphan)

\* It edits /work: a new file, which git never shows, or one that git may know.
Edit ==
  /\ AtWork /\ edits < MaxEdits
  /\ edits' = edits + 1
  /\ shown' \in {shown} \cup IF tracked THEN {shown + 1} ELSE {}
  /\ UNCHANGED <<runner, alive, step, cli, orphan, tracked, code, fileVars>>

\* It makes /work a repository, or adds or commits all there is.
UseGit ==
  /\ AtWork
  /\ tracked' = TRUE /\ shown' = 0
  /\ UNCHANGED <<runner, alive, step, cli, orphan, edits, code, fileVars>>

\* mini ends, on its own or by a signal, which its command may survive.
CliEnds ==
  /\ alive /\ cli \in {"up", "termed", "killed"}
  /\ cli' = "gone"
  /\ orphan' \in IF cli = "up" THEN {FALSE} ELSE BOOLEAN
  /\ UNCHANGED <<runner, alive, step, workVars, code, fileVars>>

OrphanEnds ==
  /\ alive /\ orphan /\ orphan' = FALSE
  /\ UNCHANGED <<runner, alive, step, cli, workVars, code, fileVars>>

\* The VM is stopped, whatever the worker is doing.
VmStops ==
  /\ alive /\ alive' = FALSE
  /\ UNCHANGED <<runner, step, processVars, code, fileVars>>

WorkerStep ==
  StartWorker \/ Probe \/ RunMock \/ RunApi \/ ApiEnds \/ RunCli \/ Waited \/ WaitTimesOut
    \/ TermTimesOut \/ KillTimesOut \/ TakePatch \/ WriteFiles \/ OpenResult \/ CloseResult
    \/ WorkerRaises

WorkerNext == WorkerStep \/ Edit \/ UseGit \/ CliEnds \/ OrphanEnds \/ VmStops

\* The worker goes on, by its timeouts if by nothing else.
WorkerFairness == WF_workerVars(WorkerStep)

WorkerSpec == WorkerInit /\ [][WorkerNext]_workerVars /\ WorkerFairness

-----------------------------------------------------------------------------
\* A verified issue has its last patch: mini came to its own end within its time,
\* the patch is what git shows of /work as it stays, and every file result.json names
\* is there.  That is not all mini did: of a /work it did not put under git the patch
\* is empty, whatever the edits.
VerifiedPatchIsFinal ==
  verdict.state = "whole" /\ verdict.verified =>
    /\ patch = shown /\ patch <= edits /\ (~tracked => patch = 0)
    /\ cli \in {"none", "gone"} /\ ~orphan /\ OutputFiles \subseteq outputs

\* The worker as FirecrackerTeam sees it, in the first of its VMs.
Team == INSTANCE FirecrackerTeam WITH
  NumIssues <- 1, NumAgents <- 1, DryRun <- FALSE,
  phase <- "sleeping", cursor <- 0, rc <- 0, issues <- <<>>, errors <- {},
  result <- [published |-> FALSE],
  task <- [v \in {0} |-> 1],
  vm <- [v \in {0} |-> IF alive THEN "up" ELSE "dead"],
  guest <- [v \in {0} |-> CASE step = "off" -> "idle" [] verdict.state = "torn" -> "writing"
                            [] step \in {"over", "raised"} -> "over" [] OTHER -> "working"],
  cache <- [v \in {0} |-> [state |-> verdict.state, verified |-> verdict.verified,
                           issue |-> IF verdict.state = "missing" THEN 0 ELSE 1]],
  disk <- [v \in {0} |-> [state |-> "missing", issue |-> 0, verified |-> FALSE]],
  out <- [v \in {0} |-> [state |-> "missing", issue |-> 0, verified |-> FALSE]]

TeamGuest ==
  Team!GuestStarts(0) \/ Team!GuestWrites(0) \/ Team!GuestCloses(0) \/ Team!GuestFails(0)
    \/ Team!VmAborts(0)

\* The worker does what FirecrackerTeam takes a guest to do, and nothing else: it
\* starts once, opens result.json once with its verdict and closes it as it is,
\* or ends without one, and the VM may go at any time.
ImplementsGuest == [][TeamGuest]_<<Team!vars>>

\* The worker comes to an end in a VM that lives on, whatever mini does with its
\* signals.
WorkerEnds == step # "off" ~> step \in {"over", "raised"} \/ ~alive

=============================================================================
