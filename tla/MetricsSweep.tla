----------------------------- MODULE MetricsSweep -----------------------------
(***************************************************************************)
(* bin/run_mini_swe_agent_team_v2_sweep_with_metrics.sh and its Firecracker*)
(* twin: one team run per agent count with collectors around it, whose     *)
(* files are moved into the run and summed up into its result by           *)
(* team_v2/metrics_wrapper.py and metrics_observer.py; a group result at   *)
(* the end.  The samples of a file are known by the point whose collector  *)
(* took them.  Both scripts trust the directories they have made.          *)
(***************************************************************************)
EXTENDS Naturals, Sequences, FiniteSets, SequencesExt, AgentOrder

CONSTANTS
  AgentSweep,  \* AGENT_SWEEP; a count may be there twice
  HasDcgmi,    \* dcgmi is installed
  HasPcm       \* PCM_BIN is executable and SUDO_PASSWORD is set

ASSUME SweepAssumption ==
  /\ AgentSweep \in Seq(Nat \ {0}) /\ AgentSweep # <<>>
  /\ {HasDcgmi, HasPcm} \subseteq BOOLEAN

Points == DOMAIN AgentSweep

Kinds == {"cpu", "gpu", "pcm"}

VARIABLES
  phase,     \* where the script is
  i,         \* the point of its loop
  rc,        \* whether the CLI's run of the point left a result
  running,   \* collectors that run, as pairs of kind and point
  pid,       \* CPU_METRICS_PID, GPU_METRICS_PID, PCM_PID: the collector named, 0 for none
  sampled,   \* collectors that took a sample
  tmp,       \* metrics_agents_<count>/metrics: per kind the point that sampled, 0 for none
  runDir,    \* metrics/ of each point's run
  metrics,   \* metrics_summary of each point's result.json
  children,  \* child_results
  group      \* the result.json of the sweep

scriptVars == <<phase, i, rc>>
collectorVars == <<running, pid, sampled, tmp>>
childVars == <<runDir, metrics, children, group>>
vars == <<scriptVars, collectorVars, childVars>>

\* Files of metrics/ and what MetricsObserver makes of them: nothing but zeros
\* when no file of a kind has a sample.
Empty == [k \in Kinds |-> 0]

Readings == [Kinds -> {0} \cup Points]

NoGroup == [published |-> FALSE]

TypeOK ==
  /\ phase \in {"point", "cpu", "gpu", "pcm", "run", "stop_pcm", "wait_pcm", "stop_cpu",
                "stop_gpu", "check", "move", "refresh", "group", "done", "failed"}
  /\ i \in Points
  /\ rc \in BOOLEAN
  /\ running \subseteq Kinds \X Points
  /\ pid \in [Kinds -> {0} \cup Points]
  /\ sampled \subseteq Kinds \X Points
  /\ tmp \in [Range(AgentSweep) -> Readings]
  /\ runDir \in [Points -> Readings]
  /\ metrics \in [Points -> Readings]
  /\ Range(children) \subseteq Points

Init ==
  /\ phase = "point" /\ i = 1 /\ rc = FALSE
  /\ running = {} /\ sampled = {}
  /\ pid = [k \in Kinds |-> 0]
  /\ tmp = [n \in Range(AgentSweep) |-> Empty]
  /\ runDir = [p \in Points |-> Empty]
  /\ metrics = [p \in Points |-> Empty]
  /\ children = <<>>
  /\ group = NoGroup

-----------------------------------------------------------------------------
Goto(from, to) == phase = from /\ phase' = to

\* mkdir -p; the Firecracker variant sets up the network, also before any collector.
BeginPoint ==
  /\ Goto("point", "cpu")
  /\ UNCHANGED <<i, rc, collectorVars, childVars>>

\* A collector goes to the background; cpu.csv and gpu.csv start with a header.
Begin(kind) ==
  /\ running' = running \cup {<<kind, i>>}
  /\ pid' = [pid EXCEPT ![kind] = i]

\* Mutant of StartCpu: the samples are appended to the file.
StartCpuAppends ==
  /\ Goto("cpu", "gpu")
  /\ Begin("cpu")
  /\ UNCHANGED <<i, rc, sampled, tmp, childVars>>

StartCpu ==
  /\ Goto("cpu", "gpu")
  /\ Begin("cpu")
  /\ tmp' = [tmp EXCEPT ![AgentSweep[i]]["cpu"] = 0]
  /\ UNCHANGED <<i, rc, sampled, childVars>>

\* Without dcgmi there is only the header.
StartGpu ==
  /\ Goto("gpu", "pcm")
  /\ tmp' = [tmp EXCEPT ![AgentSweep[i]]["gpu"] = 0]
  /\ IF HasDcgmi THEN Begin("gpu") ELSE UNCHANGED <<running, pid>>
  /\ UNCHANGED <<i, rc, sampled, childVars>>

\* The file of PCM is PCM's own; sudo may refuse.
StartPcm ==
  /\ Goto("pcm", "run")
  /\ IF HasPcm
     THEN /\ pid' = [pid EXCEPT !["pcm"] = i]
          /\ running' \in {running, running \cup {<<"pcm", i>>}}
     ELSE /\ pid' = [pid EXCEPT !["pcm"] = 0]
          /\ UNCHANGED running
  /\ UNCHANGED <<i, rc, sampled, tmp, childVars>>

Sample ==
  /\ \E x \in running \ sampled :
       /\ sampled' = sampled \cup {x}
       /\ tmp' = [tmp EXCEPT ![AgentSweep[x[2]]][x[1]] = x[2]]
  /\ UNCHANGED <<scriptVars, running, pid, childVars>>

\* dcgmi stops, or PCM has run for its hour.
CollectorEnds(kind) ==
  /\ \E x \in running : x[1] = kind /\ running' = running \ {x}
  /\ UNCHANGED <<scriptVars, pid, sampled, tmp, childVars>>

\* The CLI's run ends, with a result of its own observer or without; under
\* set +e the script comes to the collectors first.
RunEnds(published) ==
  /\ phase = "run"
  /\ phase' = "stop_pcm"
  /\ rc' = published
  /\ UNCHANGED <<i, collectorVars, childVars>>

-----------------------------------------------------------------------------
\* Mutant of StopPcm: PCM is told by the pid of the shell around it, which is
\* not waited for.
StopPcmShell ==
  /\ Goto("stop_pcm", "stop_cpu")
  /\ UNCHANGED <<i, rc, collectorVars, childVars>>

\* stop_pcm interrupts every PCM of the host, if sudo lets it, and waits for
\* its own.
StopPcm ==
  /\ phase = "stop_pcm"
  /\ IF pid["pcm"] = 0
     THEN phase' = "stop_cpu" /\ UNCHANGED running
     ELSE /\ phase' = "wait_pcm"
          /\ running' \in {running, { x \in running : x[1] # "pcm" }}
  /\ UNCHANGED <<i, rc, pid, sampled, tmp, childVars>>

WaitPcm ==
  /\ <<"pcm", pid["pcm"]>> \notin running
  /\ Goto("wait_pcm", "stop_cpu")
  /\ UNCHANGED <<i, rc, collectorVars, childVars>>

StopCpu ==
  /\ Goto("stop_cpu", "stop_gpu")
  /\ running' = running \ {<<"cpu", pid["cpu"]>>}
  /\ UNCHANGED <<i, rc, pid, sampled, tmp, childVars>>

StopGpu ==
  /\ Goto("stop_gpu", "check")
  /\ running' = running \ {<<"gpu", pid["gpu"]>>}
  /\ UNCHANGED <<i, rc, pid, sampled, tmp, childVars>>

\* Mutant of CheckRc: a point that failed is run again.
CheckRcRetries ==
  /\ phase = "check"
  /\ phase' = IF rc THEN "move" ELSE "point"
  /\ UNCHANGED <<i, rc, collectorVars, childVars>>

\* exit rc, when the run failed, comes only now.
CheckRc ==
  /\ phase = "check"
  /\ phase' = IF rc THEN "move" ELSE "failed"
  /\ UNCHANGED <<i, rc, collectorVars, childVars>>

\* Mutant of MoveMetrics: without rm -rf the copy lands inside the run's metrics/.
MoveMetricsInside ==
  /\ Goto("move", "refresh")
  /\ UNCHANGED <<i, rc, collectorVars, childVars>>

\* rm -rf of the run's metrics/ and cp -a of the collectors' one.
MoveMetrics ==
  /\ Goto("move", "refresh")
  /\ runDir' = [runDir EXCEPT ![i] = tmp[AgentSweep[i]]]
  /\ UNCHANGED <<i, rc, collectorVars, metrics, children, group>>

NextPoint ==
  IF i < Len(AgentSweep) THEN phase' = "point" /\ i' = i + 1
                         ELSE phase' = "group" /\ UNCHANGED i

\* refresh_run_metrics: MetricsObserver.stop reads metrics/, result.json is
\* written again.
Refresh ==
  /\ phase = "refresh"
  /\ metrics' = [metrics EXCEPT ![i] = runDir[i]]
  /\ children' = Append(children, i)
  /\ NextPoint
  /\ UNCHANGED <<rc, collectorVars, runDir, group>>

\* _point_from_child.
GroupPoint(p) == [run |-> p, agents |-> AgentSweep[p], metrics |-> metrics[p]]

\* build_sweep_from_child_runs: the runs in the script's order, the points by
\* their number of agents.
BuildGroup ==
  /\ Goto("group", "done")
  /\ LET runs == [n \in DOMAIN children |-> GroupPoint(children[n])]
     IN group' = [published |-> TRUE, runs |-> runs,
                  points |-> SortedByAgents([n \in DOMAIN runs |-> runs[n].agents], runs)]
  /\ UNCHANGED <<i, rc, collectorVars, runDir, metrics, children>>

\* A command fails under set -e: mkdir, the network, cp, a Python step.
Fails ==
  /\ phase \in {"point", "move", "refresh", "group"}
  /\ phase' = "failed"
  /\ UNCHANGED <<i, rc, collectorVars, childVars>>

ScriptStep ==
  BeginPoint \/ StartCpu \/ StartGpu \/ StartPcm \/ StopPcm \/ WaitPcm \/ StopCpu \/ StopGpu
    \/ CheckRc \/ MoveMetrics \/ Refresh \/ BuildGroup \/ Fails

Next == ScriptStep \/ (\E b \in BOOLEAN : RunEnds(b)) \/ Sample
          \/ (\E k \in {"gpu", "pcm"} : CollectorEnds(k))

Spec == Init /\ [][Next]_vars

\* The script's commands and the CLI's run end, and so does PCM within its hour.
Fairness ==
  /\ WF_vars(ScriptStep \/ \E b \in BOOLEAN : RunEnds(b))
  /\ WF_vars(CollectorEnds("pcm"))

FairSpec == Spec /\ Fairness

-----------------------------------------------------------------------------
\* However the script ends, at the end of the sweep or at a command or a run
\* that failed, it leaves no collector behind, and it begins no point with one
\* of an earlier point.
NoCollectorLeft == phase \in {"point", "group", "done", "failed"} => running = {}

\* The metrics in a run's result.json are what the collectors of its own point
\* sampled, and only that: also when a count comes twice, whose points share a
\* directory.  Except PCM's, whose file is the earlier point's when PCM did not
\* come up again.
MetricsAreOwn ==
  \A p \in Points : \A k \in Kinds :
    LET from == metrics[p][k]
    IN from # 0 => /\ <<k, from>> \in sampled
                   /\ \/ from = p
                      \/ k = "pcm" /\ from < p /\ AgentSweep[from] = AgentSweep[p]

\* A published group has every point of the sweep, by number of agents, each with
\* all that its collectors sampled.
GroupTellsSamples ==
  group.published =>
    /\ [n \in DOMAIN group.runs |-> group.runs[n].run] = [n \in Points |-> n]
    /\ \A m, n \in DOMAIN group.points :
         m <= n => group.points[m].agents <= group.points[n].agents
    /\ \A x \in sampled : \E n \in DOMAIN group.points :
         group.points[n].run = x[2] /\ group.points[n].metrics[x[1]] = x[2]

\* The script ends.
SweepEnds == <>(phase \in {"done", "failed"})

=============================================================================
