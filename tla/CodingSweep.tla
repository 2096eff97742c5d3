----------------------------- MODULE CodingSweep -----------------------------
(***************************************************************************)
(* bin/run_coding_firecracker_sweep.sh: for every point of the sweep it    *)
(* starts the collectors of GPU, CPU and memory bandwidth in the           *)
(* background, runs the VMs, stops the collectors and goes on; at the end  *)
(* it tabulates the points.  The script remembers a collector by a shell   *)
(* variable, and under set -e any command that fails ends it where it is.  *)
(* The VMs are in FirecrackerTeam and GuestAgent.                          *)
(***************************************************************************)
EXTENDS Naturals, FiniteSets

CONSTANTS
  NumPoints,   \* length of AGENTS_LIST
  HasSudo      \* SUDO_PASSWORD is set and PCM_BIN is executable

ASSUME PointsAssumption == NumPoints \in Nat \ {0} /\ HasSudo \in BOOLEAN

Points == 1..NumPoints

Kinds == {"gpu", "cpu", "pcm"}

VARIABLES
  phase,     \* where the script is
  point,     \* the point of its loop
  running,   \* collectors that run, as pairs of kind and point
  pid,       \* GPU_METRICS_PID, CPU_METRICS_PID, PCM_PID: the collector named, 0 for none
  dcgmi,     \* whether dcgmi is installed
  covered,   \* points with metrics of each kind for the whole time of their VMs
  summary,   \* points with a results/summary.json
  rows       \* the rows of sweep_summary.csv

scriptVars == <<phase, point>>
collectorVars == <<running, pid, dcgmi, covered>>
vars == <<scriptVars, collectorVars, summary, rows>>

Written == [written : {TRUE}, points : SUBSET Points]

NoRows == [written |-> FALSE]

TypeOK ==
  /\ phase \in {"prepare", "gpu", "cpu", "pcm", "vms", "stop_pcm", "stop_cpu", "stop_gpu",
                "tabulate", "tabulating", "done", "failed", "killed"}
  /\ point \in Points
  /\ running \subseteq Kinds \X Points
  /\ pid \in [Kinds -> 0..NumPoints]
  /\ dcgmi \in BOOLEAN
  /\ covered \subseteq Kinds \X Points
  /\ summary \subseteq Points
  /\ rows \in Written \cup {NoRows}

Init ==
  /\ phase = "prepare"
  /\ point = 1
  /\ running = {}
  /\ pid = [k \in Kinds |-> 0]
  /\ dcgmi \in BOOLEAN
  /\ covered = {}
  /\ summary = {}
  /\ rows = NoRows

-----------------------------------------------------------------------------
\* The network is set up and prepare-firecracker-run plans the VMs.
PreparePoint ==
  /\ phase = "prepare"
  /\ phase' = "gpu"
  /\ UNCHANGED <<point, collectorVars, summary, rows>>

Begin(kind) ==
  /\ running' = running \cup {<<kind, point>>}
  /\ pid' = [pid EXCEPT ![kind] = point]

\* start_gpu_metrics_dcgm.  Without dcgmi GPU_METRICS_PID keeps its value.
StartGpu ==
  /\ phase = "gpu"
  /\ IF dcgmi THEN Begin("gpu") ELSE UNCHANGED <<running, pid>>
  /\ phase' = "cpu"
  /\ UNCHANGED <<point, dcgmi, covered, summary, rows>>

StartCpu ==
  /\ phase = "cpu"
  /\ Begin("cpu")
  /\ phase' = "pcm"
  /\ UNCHANGED <<point, dcgmi, covered, summary, rows>>

\* start_pcm empties PCM_PID first.
StartPcm ==
  /\ phase = "pcm"
  /\ IF HasSudo THEN Begin("pcm")
     ELSE pid' = [pid EXCEPT !["pcm"] = 0] /\ UNCHANGED running
  /\ phase' = "vms"
  /\ UNCHANGED <<point, dcgmi, covered, summary, rows>>

\* run_prepared_firecracker_agents.sh has ended well: it left its summary.json.
RunVms ==
  /\ phase = "vms"
  /\ summary' = summary \cup {point}
  /\ covered' = covered \cup { x \in running : x[2] = point }
  /\ phase' = "stop_pcm"
  /\ UNCHANGED <<point, running, pid, dcgmi, rows>>

\* A collector ends on its own: dcgmi stops, PCM has run for its time.
CollectorEnds ==
  /\ \E x \in running : x[1] # "cpu" /\ running' = running \ {x}
  /\ UNCHANGED <<scriptVars, pid, dcgmi, covered, summary, rows>>

\* Mutant of StopPcm: PCM is told apart by the pid of the shell around it.
StopPcmShell ==
  /\ phase = "stop_pcm"
  /\ phase' = "stop_cpu"
  /\ UNCHANGED <<point, running, pid, dcgmi, covered, summary, rows>>

\* stop_pcm interrupts every PCM on the host.
StopPcm ==
  /\ phase = "stop_pcm"
  /\ running' = IF pid["pcm"] # 0 THEN { x \in running : x[1] # "pcm" } ELSE running
  /\ phase' = "stop_cpu"
  /\ UNCHANGED <<point, pid, dcgmi, covered, summary, rows>>

StopCpu ==
  /\ phase = "stop_cpu"
  /\ running' = running \ {<<"cpu", pid["cpu"]>>}
  /\ phase' = "stop_gpu"
  /\ UNCHANGED <<point, pid, dcgmi, covered, summary, rows>>

\* Mutant of NextPoint: the list is tabulated one point early.
NextPointEarly ==
  IF point + 1 < NumPoints THEN phase' = "prepare" /\ point' = point + 1
                           ELSE phase' = "tabulate" /\ UNCHANGED point

NextPoint ==
  IF point < NumPoints THEN phase' = "prepare" /\ point' = point + 1
                       ELSE phase' = "tabulate" /\ UNCHANGED point

\* stop_gpu_metrics ends the children of the subshell, then the subshell.
StopGpu ==
  /\ phase = "stop_gpu"
  /\ running' = running \ {<<"gpu", pid["gpu"]>>}
  /\ NextPoint
  /\ UNCHANGED <<pid, dcgmi, covered, summary, rows>>

\* sweep_summary.csv is made of the points that have a summary.json: created
\* empty, and filled when it is closed.
OpenTable ==
  /\ phase = "tabulate"
  /\ rows' = [written |-> TRUE, points |-> {}]
  /\ phase' = "tabulating"
  /\ UNCHANGED <<point, collectorVars, summary>>

FillTable ==
  /\ phase = "tabulating"
  /\ rows' = [written |-> TRUE, points |-> summary]
  /\ phase' = "done"
  /\ UNCHANGED <<point, collectorVars, summary>>

\* A command fails: sudo, the plan, or the VMs' script through pipefail.  There
\* is no trap: the collectors that were started go on.
Fails ==
  /\ phase \in {"prepare", "vms"}
  /\ phase' = "failed"
  /\ summary' \in {summary, IF phase = "vms" THEN summary \cup {point} ELSE summary}
  /\ UNCHANGED <<point, collectorVars, rows>>

\* The dashboard's stop signals the process group.  PCM belongs to root.
Killed ==
  /\ phase \notin {"done", "failed", "killed"}
  /\ phase' = "killed"
  /\ running' = { x \in running : x[1] = "pcm" }
  /\ UNCHANGED <<point, pid, dcgmi, covered, summary, rows>>

ScriptStep ==
  PreparePoint \/ StartGpu \/ StartCpu \/ StartPcm \/ RunVms \/ StopPcm \/ StopCpu
    \/ StopGpu \/ OpenTable \/ FillTable \/ Fails

Next == ScriptStep \/ CollectorEnds \/ Killed

Spec == Init /\ [][Next]_vars

-----------------------------------------------------------------------------
\* The metrics of a point are its own: while the script works on a point no
\* collector of an earlier one is left, and a script that came to its end leaves
\* none at all.
CollectorsOfOnePoint ==
  /\ phase \notin {"failed", "killed"} => \A x \in running : x[2] = point
  /\ phase \in {"prepare", "tabulate", "done"} => running = {}

\* sweep_summary.csv, which makes the dashboard align the metrics, is there only
\* for a whole sweep: every point has its summary and its CPU metrics.  A kill
\* may leave it empty, and never with some of the points.
TableOfWholeSweep ==
  rows # NoRows =>
    /\ summary = Points
    /\ \A p \in Points : <<"cpu", p>> \in covered
    /\ rows.points \in {{}, Points}

=============================================================================
