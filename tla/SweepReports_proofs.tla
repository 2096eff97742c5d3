--------------------------- MODULE SweepReports_proofs ---------------------------
(***************************************************************************)
(* Theorems about the coding sweep's script and the dashboard beside it,   *)
(* for any number of points, with or without sudo and dcgmi, with a kill   *)
(* or a failing command at any time and any number of GETs: a point's      *)
(* collectors are its own, sweep_summary.csv is of a whole sweep, and so   *)
(* are the rows the dashboard shows.                                       *)
(***************************************************************************)
EXTENDS SweepReports, Counting, TLAPS

Ended == {"failed", "killed"}

\* The kinds of collector that may run where the script is.
MayRun ==
  CASE phase = "cpu" -> {"gpu"}
    [] phase \in {"pcm", "stop_cpu"} -> {"gpu", "cpu"}
    [] phase \in {"vms", "stop_pcm"} -> Kinds
    [] phase = "stop_gpu" -> {"gpu"}
    [] OTHER -> {}

\* A collector that runs is of the point, has been started and not stopped, and is
\* the one its variable names.
RunningInv ==
  phase \notin Ended =>
    \A x \in running : x[1] \in MayRun /\ x[2] = point /\ pid[x[1]] = point

\* The CPU collector, a loop of the script's own shell, runs as long as the VMs.
CpuInv == phase \in {"pcm", "vms"} => <<"cpu", point>> \in running

\* The points whose VMs have ended well.
Behind ==
  IF phase \in {"prepare", "gpu", "cpu", "pcm", "vms"} THEN 1..(point - 1) ELSE 1..point

\* They have their summary and their CPU metrics, and there is a table only when
\* they are all.
PointsInv ==
  /\ phase \notin Ended =>
       \A p \in Behind : p \in summary /\ <<"cpu", p>> \in covered
  /\ phase \in {"tabulate", "tabulating", "done"} => point = NumPoints
  /\ rows # NoRows => phase \in {"tabulating", "done", "killed"}

SweepInv == RunningInv /\ CpuInv /\ PointsInv /\ TableOfWholeSweep

-----------------------------------------------------------------------------
LEMMA TypeInit == Init => TypeOK
<1> SUFFICES ASSUME Init PROVE TypeOK
  OBVIOUS
<1>1. pid \in [Kinds -> 0..NumPoints]
  BY PointsAssumption DEF Init
<1>2. dcgmi \in BOOLEAN
  BY DEF Init
<1>3. QED
  BY <1>1, <1>2, PointsAssumption DEF Init, TypeOK, Points

\* The type invariant over a step: one step for each action.
LEMMA TypeStep == TypeOK /\ [Next]_vars => TypeOK'
<1> SUFFICES ASSUME TypeOK, [Next]_vars PROVE TypeOK'
  OBVIOUS
<1> USE PointsAssumption DEF TypeOK, Points
<1>1. CASE PreparePoint
  BY <1>1 DEF PreparePoint, collectorVars
<1>2. CASE StartGpu
  BY <1>2 DEF StartGpu, Begin, Kinds
<1>3. CASE StartCpu
  BY <1>3 DEF StartCpu, Begin, Kinds
<1>4. CASE StartPcm
  BY <1>4 DEF StartPcm, Begin, Kinds
<1>5. CASE RunVms
  BY <1>5 DEF RunVms
<1>6. CASE StopPcm
  BY <1>6 DEF StopPcm
<1>7. CASE StopCpu
  BY <1>7 DEF StopCpu
<1>8. CASE StopGpu
  BY <1>8 DEF StopGpu, NextPoint
<1>9. CASE OpenTable
  BY <1>9 DEF OpenTable, collectorVars, Written
<1>10. CASE FillTable
  BY <1>10 DEF FillTable, collectorVars, Written
<1>11. CASE Fails
  BY <1>11 DEF Fails, collectorVars
<1>12. CASE CollectorEnds
  BY <1>12 DEF CollectorEnds, scriptVars
<1>13. CASE Killed
  BY <1>13 DEF Killed
<1>14. CASE UNCHANGED vars
  BY <1>14 DEF vars, scriptVars, collectorVars
<1>15. QED
  BY <1>1, <1>2, <1>3, <1>4, <1>5, <1>6, <1>7, <1>8, <1>9, <1>10, <1>11, <1>12, <1>13, <1>14
  DEF Next, ScriptStep

-----------------------------------------------------------------------------
LEMMA InvInit == Init => SweepInv
BY PointsAssumption
DEF Init, SweepInv, RunningInv, CpuInv, PointsInv, Behind, Ended, NoRows, TableOfWholeSweep

\* RunningInv and CpuInv over a step.
LEMMA RunningStep ==
  TypeOK /\ RunningInv /\ CpuInv /\ [Next]_vars => RunningInv' /\ CpuInv'
<1> SUFFICES ASSUME TypeOK, RunningInv, CpuInv, [Next]_vars PROVE RunningInv' /\ CpuInv'
  OBVIOUS
<1> USE DEF RunningInv, CpuInv, MayRun, Ended
<1>1. CASE PreparePoint
  BY <1>1 DEF PreparePoint, collectorVars
<1>2. CASE StartGpu
  BY <1>2 DEF StartGpu, Begin, TypeOK, Kinds
<1>3. CASE StartCpu
  BY <1>3 DEF StartCpu, Begin, TypeOK, Kinds
<1>4. CASE StartPcm
  BY <1>4 DEF StartPcm, Begin, TypeOK, Kinds
<1>5. CASE RunVms
  BY <1>5 DEF RunVms
<1>6. CASE StopPcm
  <2>1. \A x \in running' : x \in running /\ x[1] # "pcm"
    BY <1>6, PointsAssumption DEF StopPcm, TypeOK, Points
  <2>2. QED
    BY <1>6, <2>1 DEF StopPcm, TypeOK, Kinds
<1>7. CASE StopCpu
  <2>1. \A x \in running : x = <<x[1], point>>
    BY <1>7 DEF TypeOK, StopCpu
  <2>2. \A x \in running' : x \in running /\ x[1] # "cpu"
    BY <1>7, <2>1 DEF StopCpu
  <2>3. QED
    BY <1>7, <2>2 DEF StopCpu
<1>8. CASE StopGpu
  <2>1. \A x \in running : x = <<x[1], point>>
    BY <1>8 DEF TypeOK, StopGpu
  <2>2. \A x \in running' : x \in running /\ x[1] # "gpu"
    BY <1>8, <2>1 DEF StopGpu
  <2>3. running' = {} /\ phase' \in {"prepare", "tabulate"}
    BY <1>8, <2>2 DEF StopGpu, NextPoint
  <2>4. QED
    BY <2>3
<1>9. CASE OpenTable
  BY <1>9 DEF OpenTable, collectorVars
<1>10. CASE FillTable
  BY <1>10 DEF FillTable, collectorVars
<1>11. CASE Fails
  BY <1>11 DEF Fails
<1>12. CASE CollectorEnds
  BY <1>12 DEF CollectorEnds, scriptVars
<1>13. CASE Killed
  BY <1>13 DEF Killed
<1>14. CASE UNCHANGED vars
  BY <1>14 DEF vars, scriptVars, collectorVars
<1>15. QED
  BY <1>1, <1>2, <1>3, <1>4, <1>5, <1>6, <1>7, <1>8, <1>9, <1>10, <1>11, <1>12, <1>13, <1>14
  DEF Next, ScriptStep

\* A step that opens no table and fills none keeps what is said of an open one, if
\* it also leaves the summaries and the metrics alone.
LEMMA TableStays ==
  ASSUME TableOfWholeSweep, UNCHANGED <<covered, summary, rows>>
  PROVE  TableOfWholeSweep'
BY DEF TableOfWholeSweep, NoRows

\* PointsInv and the table over a step.
LEMMA PointsStep ==
  TypeOK /\ SweepInv /\ [Next]_vars => PointsInv' /\ TableOfWholeSweep'
<1> SUFFICES ASSUME TypeOK, SweepInv, [Next]_vars PROVE PointsInv' /\ TableOfWholeSweep'
  OBVIOUS
<1> USE PointsAssumption DEF SweepInv, PointsInv, Behind, Ended
<1>1. CASE PreparePoint
  BY <1>1, TableStays DEF PreparePoint, collectorVars, NoRows
<1>2. CASE StartGpu
  BY <1>2, TableStays DEF StartGpu, NoRows
<1>3. CASE StartCpu
  BY <1>3, TableStays DEF StartCpu, NoRows
<1>4. CASE StartPcm
  BY <1>4, TableStays DEF StartPcm, NoRows
<1>5. CASE RunVms
  <2>1. rows = NoRows /\ rows' = NoRows
    BY <1>5 DEF RunVms, NoRows
  <2>2. <<"cpu", point>> \in covered' /\ covered \subseteq covered' /\ summary' = summary \cup {point}
    BY <1>5 DEF RunVms, CpuInv
  <2>3. phase = "vms" /\ phase' = "stop_pcm" /\ point' = point /\ point \in Nat
    BY <1>5 DEF RunVms, TypeOK, Points
  <2>4. \A p \in 1..(point - 1) : p \in summary /\ <<"cpu", p>> \in covered
    BY <2>3
  <2>5. \A p \in 1..point : p = point \/ p \in 1..(point - 1)
    BY <2>3
  <2>6. \A p \in 1..point : p \in summary' /\ <<"cpu", p>> \in covered'
    BY <2>2, <2>4, <2>5
  <2>7. QED
    BY <2>1, <2>3, <2>6 DEF TableOfWholeSweep, NoRows
<1>6. CASE StopPcm
  BY <1>6, TableStays DEF StopPcm, NoRows
<1>7. CASE StopCpu
  BY <1>7, TableStays DEF StopCpu, NoRows
<1>8. CASE StopGpu
  <2>1. /\ phase = "stop_gpu" /\ UNCHANGED <<covered, summary, rows>>
        /\ \/ point < NumPoints /\ phase' = "prepare" /\ point' = point + 1
           \/ ~(point < NumPoints) /\ phase' = "tabulate" /\ point' = point
    BY <1>8 DEF StopGpu, NextPoint
  <2>2. point \in 1..NumPoints
    BY DEF TypeOK, Points
  <2>3. PointsInv'
    BY <2>1, <2>2 DEF NoRows
  <2>4. QED
    BY <2>1, <2>3, TableStays
<1>9. CASE OpenTable
  <2>1. /\ phase = "tabulate" /\ phase' = "tabulating" /\ UNCHANGED <<point, covered, summary>>
        /\ rows'.points = {}
    BY <1>9 DEF OpenTable, collectorVars
  <2>2. \A p \in Points : p \in summary /\ <<"cpu", p>> \in covered
    BY <2>1 DEF Points
  <2>3. QED
    BY <2>1, <2>2 DEF TypeOK, TableOfWholeSweep
<1>10. CASE FillTable
  <2>1. /\ phase = "tabulating" /\ phase' = "done" /\ UNCHANGED <<point, covered, summary>>
        /\ rows'.points = summary
    BY <1>10 DEF FillTable, collectorVars
  <2>2. \A p \in Points : p \in summary /\ <<"cpu", p>> \in covered
    BY <2>1 DEF Points
  <2>3. summary = Points
    BY <2>2 DEF TypeOK
  <2>4. QED
    BY <2>1, <2>2, <2>3 DEF TableOfWholeSweep
<1>11. CASE Fails
  <2>1. rows = NoRows /\ rows' = NoRows /\ phase' = "failed"
    BY <1>11 DEF Fails
  <2>2. QED
    BY <2>1 DEF TableOfWholeSweep, NoRows
<1>12. CASE CollectorEnds
  BY <1>12, TableStays DEF CollectorEnds, scriptVars, NoRows
<1>13. CASE Killed
  BY <1>13, TableStays DEF Killed, NoRows
<1>14. CASE UNCHANGED vars
  BY <1>14, TableStays DEF vars, scriptVars, collectorVars, NoRows
<1>15. QED
  BY <1>1, <1>2, <1>3, <1>4, <1>5, <1>6, <1>7, <1>8, <1>9, <1>10, <1>11, <1>12, <1>13, <1>14
  DEF Next, ScriptStep

-----------------------------------------------------------------------------
\* Every variable of the script keeps its type, for any number of points.
THEOREM SweepTypes == Spec => []TypeOK
BY TypeInit, TypeStep, PTL DEF Spec

\* The invariants hold throughout.
THEOREM SweepInvariant == Spec => []SweepInv
<1>1. TypeOK /\ SweepInv /\ [Next]_vars => SweepInv'
  BY RunningStep, PointsStep DEF SweepInv
<1>2. QED
  BY <1>1, InvInit, SweepTypes, PTL DEF Spec

\* No collector crosses from one point to the next, and none survives a script that
\* came to its end.
THEOREM CollectorsOfTheirPoint == Spec => []CollectorsOfOnePoint
<1>1. SweepInv => CollectorsOfOnePoint
  BY DEF SweepInv, RunningInv, MayRun, Ended, CollectorsOfOnePoint
<1>2. QED
  BY <1>1, SweepInvariant, PTL

\* sweep_summary.csv is never of a part of the sweep, at whatever command the script
\* fails or is killed.
THEOREM TableMeansWhole == Spec => []TableOfWholeSweep
<1>1. SweepInv => TableOfWholeSweep
  BY DEF SweepInv
<1>2. QED
  BY <1>1, SweepInvariant, PTL

-----------------------------------------------------------------------------
\* The dashboard beside the script.  A GET is past its questions only when there is
\* a table of the sweep, and then all points have their directory.
GetsInv ==
  /\ rows # NoRows => point = NumPoints
  /\ table # NoRows => rows # NoRows
  /\ \A t \in Gets :
       /\ at[t] \in {"summarize", "open", "write", "json", "md"} => rows # NoRows
       /\ at[t] \in {"open", "write"} => last[t] = NumPoints
       /\ at[t] \notin {"write", "json", "md", "read"} => block[t] = 0
       /\ at[t] \in {"write", "json", "md"} => table # NoRows

\* A table of which nothing was lost is whole, or the writer that emptied it last is
\* still at work and has all of its blocks in it.
TableInv ==
  table # NoRows /\ ~broken =>
    \/ table.points = Points
    \/ \E t \in Gets : at[t] = "write" /\ 1..(block[t] - 1) \subseteq table.points

ReportsInv == GetsInv /\ TableInv

\* The types of the dashboard's part over a step of its own.
LEMMA ReportTypesInit == AllInit => ReportsTypeOK
<1> SUFFICES ASSUME AllInit PROVE ReportsTypeOK
  OBVIOUS
<1>1. TypeOK /\ 0 \in 0..NumPoints /\ 0 \in 0..MaxGets
  BY TypeInit, PointsAssumption, GetsAssumption DEF AllInit
<1>2. QED
  BY <1>1 DEF AllInit, ReportsInit, ReportsTypeOK

\* Answering a request.
LEMMA AnswersTypes ==
  ASSUME ReportsTypeOK, NEW t \in Gets, NEW what \in {"empty", "part", "whole", "error"},
         Answers(t, what)
  PROVE  /\ at' \in [Gets -> {"idle", "has_table", "has_summary", "summarize", "open",
                              "write", "json", "md", "read"}]
         /\ last' \in [Gets -> 0..NumPoints] /\ block' \in [Gets -> 0..NumPoints]
         /\ answer' \in [Gets -> {"none", "empty", "part", "whole", "error"}]
         /\ at'[t] = "idle" /\ answer'[t] = what /\ last'[t] = 0 /\ block'[t] = 0
         /\ \A u \in Gets \ {t} :
              UNCHANGED <<at[u], last[u], block[u], answer[u]>>
<1>1. 0 \in 0..NumPoints
  BY PointsAssumption
<1>2. QED
  BY <1>1 DEF Answers, Goes, ReportsTypeOK

\* Where the directories of all points are there, there are as many as points.
LEMMA AllDirectories ==
  ASSUME TypeOK, SweepInv, GetsInv, rows # NoRows
  PROVE  AgentDirs = Points /\ summary = Points /\ Cardinality(AgentDirs) = NumPoints
<1>1. phase # "prepare" /\ point = NumPoints /\ summary = Points
  BY DEF SweepInv, PointsInv, TableOfWholeSweep, GetsInv
<1>2. AgentDirs = Points
  BY <1>1 DEF AgentDirs, Points
<1>3. QED
  BY <1>1, <1>2, IntervalCount, PointsAssumption DEF Points

LEMMA ReportTypesStep ==
  ASSUME ReportsTypeOK, GetsInv, [AllNext]_<<vars, reportVars>>
  PROVE  ReportsTypeOK'
<1> USE PointsAssumption, GetsAssumption
<1>1. TypeOK'
  <2>1. TypeOK /\ [Next]_vars
    BY DEF AllNext, ReportsTypeOK
  <2>2. QED
    BY <2>1, TypeStep
<1>2. CASE UNCHANGED reportVars
  BY <1>1, <1>2 DEF reportVars, tableVars, ReportsTypeOK
<1>3. CASE Restart
  <2>1. broken' \in BOOLEAN
    BY <1>3 DEF Restart
  <2>2. QED
    BY <1>1, <1>3, <2>1 DEF Restart, ReportsTypeOK
<1>4. ASSUME NEW t \in Gets, UNCHANGED vars, Request(t) \/ Handle(t) \/ WriteFails(t)
      PROVE  ReportsTypeOK'
  <2> USE <1>4
  <2>1. CASE Request(t)
    BY <1>1, <2>1 DEF Request, Goes, tableVars, ReportsTypeOK
  <2>2. CASE HasTable(t) \/ HasSummary(t)
    BY <1>1, <2>2 DEF HasTable, HasSummary, Goes, tableVars, ReportsTypeOK
  <2>3. CASE Summarize(t)
    <3>1. CASE AgentDirs \subseteq summary
      <4>1. Cardinality(AgentDirs) \in 0..NumPoints
        <5>1. point \in 1..NumPoints
          BY DEF ReportsTypeOK, TypeOK, Points
        <5>2. \E n \in 0..NumPoints : AgentDirs = 1..n
          BY <5>1 DEF AgentDirs
        <5>3. QED
          BY <5>2, IntervalCount
      <4>2. QED
        BY <1>1, <2>3, <3>1, <4>1 DEF Summarize, Goes, tableVars, ReportsTypeOK
    <3>2. CASE ~(AgentDirs \subseteq summary)
      BY <1>1, <2>3, <3>2, AnswersTypes DEF Summarize, tableVars, ReportsTypeOK
    <3>3. QED
      BY <3>1, <3>2
  <2>4. CASE OpenReport(t)
    BY <1>1, <2>4 DEF OpenReport, Goes, ReportsTypeOK, Written
  <2>5. CASE WriteBlock(t)
    <3>1. block[t] \in 0..NumPoints /\ table # NoRows /\ last[t] = NumPoints
      BY <2>5 DEF WriteBlock, GetsInv, ReportsTypeOK
    <3>2. table' \in Written
      <4>1. table \in Written /\ {block[t]} \ {0} \subseteq Points
        BY <3>1 DEF ReportsTypeOK, Points
      <4>2. QED
        BY <2>5, <4>1 DEF WriteBlock, Written
    <3>3. block' \in [Gets -> 0..NumPoints]
      BY <2>5, <3>1 DEF WriteBlock, NextBlock, ReportsTypeOK
    <3>4. QED
      BY <1>1, <2>5, <3>2, <3>3 DEF WriteBlock, NextBlock, Goes, ReportsTypeOK
  <2>6. CASE WriteOthers(t)
    BY <1>1, <2>6 DEF WriteOthers, Goes, ReportsTypeOK
  <2>7. CASE ReadReport(t)
    <3>1. PICK what \in {"empty", "part", "whole", "error"} : Answers(t, what)
      BY <2>7 DEF ReadReport
    <3>2. QED
      BY <1>1, <2>7, <3>1, AnswersTypes DEF ReadReport, tableVars, ReportsTypeOK
  <2>8. CASE WriteFails(t)
    BY <1>1, <2>8, AnswersTypes DEF WriteFails, ReportsTypeOK
  <2>9. QED
    BY <2>1, <2>2, <2>3, <2>4, <2>5, <2>6, <2>7, <2>8 DEF Handle
<1>5. QED
  BY <1>2, <1>3, <1>4 DEF AllNext, Reports

LEMMA ReportsInvInit == AllInit => ReportsInv
BY DEF AllInit, Init, ReportsInit, ReportsInv, GetsInv, TableInv, NoRows

\* The script beside the GETs: a table of the sweep that is there stays.
LEMMA ScriptBesideGets ==
  ASSUME TypeOK, SweepInv, ReportsInv, Next, UNCHANGED reportVars
  PROVE  ReportsInv'
<1>1. rows # NoRows => rows' # NoRows
  BY DEF Next, ScriptStep, PreparePoint, StartGpu, StartCpu, StartPcm, RunVms, CollectorEnds,
         StopPcm, StopCpu, StopGpu, OpenTable, FillTable, Fails, Killed, NoRows
<1>2. rows' # NoRows => point' = NumPoints
  <2>1. CASE rows # NoRows
    <3>1. phase \in {"tabulating", "done", "killed"} /\ point = NumPoints
      BY <2>1 DEF SweepInv, PointsInv, ReportsInv, GetsInv
    <3>2. point' = point
      BY <3>1 DEF Next, ScriptStep, PreparePoint, StartGpu, StartCpu, StartPcm, RunVms,
             CollectorEnds, StopPcm, StopCpu, StopGpu, OpenTable, FillTable, Fails, Killed,
             scriptVars
    <3>3. QED
      BY <3>1, <3>2
  <2>2. CASE OpenTable \/ FillTable
    BY <2>2 DEF OpenTable, FillTable, SweepInv, PointsInv
  <2>3. CASE rows = NoRows /\ ~(OpenTable \/ FillTable)
    <3>1. rows' = rows
      BY <2>3 DEF Next, ScriptStep, PreparePoint, StartGpu, StartCpu, StartPcm, RunVms,
             CollectorEnds, StopPcm, StopCpu, StopGpu, Fails, Killed
    <3>2. QED
      BY <2>3, <3>1
  <2>4. QED
    BY <2>1, <2>2, <2>3
<1>3. QED
  BY <1>1, <1>2 DEF ReportsInv, GetsInv, TableInv, reportVars, tableVars

\* A step that moves one GET, which is no writer before or after, and leaves the table.
LEMMA ReaderMoves ==
  ASSUME ReportsTypeOK, ReportsInv, NEW t \in Gets, UNCHANGED <<vars, table, broken>>,
         at[t] # "write", at'[t] # "write",
         \A u \in Gets \ {t} : UNCHANGED <<at[u], last[u], block[u]>>,
         at'[t] \in {"summarize", "open", "json", "md"} => rows # NoRows,
         at'[t] = "open" => last'[t] = NumPoints,
         at'[t] \in {"json", "md"} => table # NoRows,
         at'[t] \notin {"json", "md", "read"} => block'[t] = 0
  PROVE  ReportsInv'
<1>1. ASSUME NEW u \in Gets
      PROVE  /\ at'[u] \in {"summarize", "open", "write", "json", "md"} => rows # NoRows
             /\ at'[u] \in {"open", "write"} => last'[u] = NumPoints
             /\ at'[u] \notin {"write", "json", "md", "read"} => block'[u] = 0
             /\ at'[u] \in {"write", "json", "md"} => table # NoRows
  <2>1. CASE u = t
    BY <2>1
  <2>2. CASE u # t
    BY <2>2 DEF ReportsInv, GetsInv
  <2>3. QED
    BY <2>1, <2>2
<1>2. TableInv'
  BY DEF ReportsInv, TableInv, vars
<1>3. GetsInv'
  BY <1>1 DEF ReportsInv, GetsInv, vars, scriptVars
<1>4. QED
  BY <1>2, <1>3 DEF ReportsInv

\* A step of one GET that empties the table, or writes a block of it.
LEMMA WriterStep ==
  ASSUME ReportsTypeOK, ReportsInv, NEW t \in Gets, UNCHANGED vars,
         OpenReport(t) \/ WriteBlock(t)
  PROVE  ReportsInv'
<1> USE PointsAssumption
<1>1. /\ rows # NoRows /\ last[t] = NumPoints /\ last' = last /\ broken' = broken
      /\ block[t] \in 0..NumPoints
      /\ \A u \in Gets \ {t} : UNCHANGED <<at[u], block[u]>>
  BY DEF ReportsInv, GetsInv, OpenReport, WriteBlock, NextBlock, Goes, ReportsTypeOK
<1>2. table' \in Written /\ table' # NoRows
  <2>1. CASE OpenReport(t)
    BY <2>1 DEF OpenReport, Written, NoRows
  <2>2. CASE WriteBlock(t)
    <3>1. table \in Written /\ {block[t]} \ {0} \subseteq Points
      BY <1>1, <2>2 DEF WriteBlock, ReportsInv, GetsInv, ReportsTypeOK, Points
    <3>2. QED
      BY <2>2, <3>1 DEF WriteBlock, Written, NoRows
  <2>3. QED
    BY <2>1, <2>2
<1>3. GetsInv'
  <2>1. at'[t] \in {"write", "json"} /\ (at'[t] # "write" => block'[t] = block[t])
    BY DEF OpenReport, WriteBlock, NextBlock, Goes, ReportsTypeOK
  <2>2. QED
    BY <1>1, <1>2, <2>1 DEF ReportsInv, GetsInv, vars, scriptVars
<1>4. TableInv'
  <2>1. CASE OpenReport(t)
    <3>1. at'[t] = "write" /\ block'[t] = 0
      BY <2>1 DEF OpenReport, Goes, ReportsInv, GetsInv, ReportsTypeOK
    <3>2. 1..(block'[t] - 1) = {}
      BY <3>1
    <3>3. QED
      BY <3>1, <3>2 DEF TableInv
  <2>2. CASE WriteBlock(t)
    <3>1. /\ at[t] = "write" /\ table # NoRows /\ table \in Written
          /\ table'.points = table.points \cup ({block[t]} \ {0})
      BY <2>2 DEF WriteBlock, ReportsInv, GetsInv, ReportsTypeOK, Written
    <3>2. table'.points \subseteq Points
      BY <1>2 DEF Written
    <3>3. CASE broken \/ table.points = Points
      BY <1>1, <3>1, <3>2, <3>3 DEF TableInv
    <3>4. ASSUME NEW u \in Gets \ {t}, at[u] = "write", 1..(block[u] - 1) \subseteq table.points
          PROVE  TableInv'
      BY <1>1, <3>1, <3>4 DEF TableInv
    <3>5. CASE 1..(block[t] - 1) \subseteq table.points
      <4>1. 1..block[t] \subseteq table'.points
        <5>1. ASSUME NEW p \in 1..block[t] PROVE p \in table'.points
          <6>1. p \in 1..(block[t] - 1) \/ (p = block[t] /\ p # 0)
            BY <1>1
          <6>2. QED
            BY <3>1, <3>5, <6>1
        <5>2. QED
          BY <5>1
      <4>2. CASE block[t] = last[t]
        BY <1>1, <3>2, <4>1, <4>2 DEF TableInv, Points
      <4>3. CASE block[t] # last[t]
        <5>1. at'[t] = "write" /\ block'[t] = block[t] + 1 /\ block'[t] - 1 = block[t]
          BY <1>1, <2>2, <3>1, <4>3 DEF WriteBlock, NextBlock, ReportsTypeOK
        <5>2. 1..(block'[t] - 1) \subseteq table'.points
          BY <4>1, <5>1
        <5>3. QED
          BY <5>1, <5>2 DEF TableInv
      <4>4. QED
        BY <4>2, <4>3
    <3>6. QED
      BY <3>1, <3>3, <3>4, <3>5 DEF ReportsInv, TableInv
  <2>3. QED
    BY <2>1, <2>2
<1>5. QED
  BY <1>3, <1>4 DEF ReportsInv

LEMMA ReportsStep ==
  ASSUME ReportsTypeOK, SweepInv, ReportsInv, [AllNext]_<<vars, reportVars>>
  PROVE  ReportsInv'
<1>1. CASE UNCHANGED <<vars, reportVars>>
  BY <1>1 DEF ReportsInv, GetsInv, TableInv, vars, scriptVars, reportVars, tableVars
<1>2. CASE Next /\ UNCHANGED reportVars
  BY <1>2, ScriptBesideGets DEF ReportsTypeOK
<1>3. CASE Restart /\ UNCHANGED vars
  <2>1. GetsInv'
    BY <1>3 DEF Restart, ReportsInv, GetsInv, vars, scriptVars
  <2>2. TableInv'
    BY <1>3 DEF Restart, ReportsInv, TableInv, Writing, vars
  <2>3. QED
    BY <2>1, <2>2 DEF ReportsInv
<1>4. ASSUME NEW t \in Gets, UNCHANGED vars, Request(t) \/ Handle(t) \/ WriteFails(t)
      PROVE  ReportsInv'
  <2> USE <1>4
  <2>1. CASE Request(t)
    <3>1. /\ at[t] = "idle" /\ at'[t] = "has_table" /\ block'[t] = 0
          /\ UNCHANGED <<table, broken>>
          /\ \A u \in Gets \ {t} : UNCHANGED <<at[u], last[u], block[u]>>
      BY <2>1 DEF Request, Goes, tableVars, ReportsInv, GetsInv, ReportsTypeOK
    <3>2. QED
      BY <3>1, ReaderMoves
  <2>2. CASE HasTable(t) \/ HasSummary(t)
    <3>1. /\ at[t] \in {"has_table", "has_summary"}
          /\ at'[t] \in {"has_summary", "summarize", "read"}
          /\ at'[t] = "summarize" => rows # NoRows
          /\ block'[t] = 0 /\ UNCHANGED <<table, broken>>
          /\ \A u \in Gets \ {t} : UNCHANGED <<at[u], last[u], block[u]>>
      BY <2>2 DEF HasTable, HasSummary, Goes, tableVars, ReportsInv, GetsInv, ReportsTypeOK
    <3>2. QED
      BY <3>1, ReaderMoves
  <2>3. CASE Summarize(t)
    <3>1. rows # NoRows /\ at[t] = "summarize" /\ block[t] = 0
      BY <2>3 DEF Summarize, ReportsInv, GetsInv
    <3>2. AgentDirs \subseteq summary /\ Cardinality(AgentDirs) = NumPoints
      BY <3>1, AllDirectories DEF ReportsInv, ReportsTypeOK
    <3>3. /\ at'[t] = "open" /\ last'[t] = NumPoints /\ block'[t] = 0
          /\ UNCHANGED <<table, broken>>
          /\ \A u \in Gets \ {t} : UNCHANGED <<at[u], last[u], block[u]>>
      BY <2>3, <3>1, <3>2 DEF Summarize, Goes, tableVars, ReportsTypeOK
    <3>4. QED
      BY <3>1, <3>3, ReaderMoves
  <2>4. CASE OpenReport(t) \/ WriteBlock(t)
    BY <2>4, WriterStep
  <2>5. CASE WriteOthers(t)
    <3>1. /\ at[t] \in {"json", "md"} /\ at'[t] \in {"md", "read"}
          /\ UNCHANGED <<table, broken, block>>
          /\ \A u \in Gets \ {t} : UNCHANGED <<at[u], last[u], block[u]>>
      BY <2>5 DEF WriteOthers, Goes, ReportsTypeOK
    <3>2. rows # NoRows /\ table # NoRows
      BY <3>1 DEF ReportsInv, GetsInv
    <3>3. QED
      BY <3>1, <3>2, ReaderMoves
  <2>6. CASE ReadReport(t)
    <3>1. PICK what \in {"empty", "part", "whole", "error"} : Answers(t, what)
      BY <2>6 DEF ReadReport
    <3>2. at[t] = "read" /\ UNCHANGED <<table, broken>>
      BY <2>6 DEF ReadReport, tableVars
    <3>3. QED
      BY <3>1, <3>2, AnswersTypes, ReaderMoves
  <2>7. CASE WriteFails(t)
    <3>1. broken' /\ Answers(t, "error") /\ UNCHANGED table
      BY <2>7 DEF WriteFails
    <3>2. /\ at'[t] = "idle" /\ block'[t] = 0
          /\ \A u \in Gets \ {t} : UNCHANGED <<at[u], last[u], block[u]>>
      BY <3>1, AnswersTypes
    <3>3. QED
      BY <3>1, <3>2 DEF ReportsInv, GetsInv, TableInv, vars, scriptVars
  <2>8. QED
    BY <2>1, <2>2, <2>3, <2>4, <2>5, <2>6, <2>7 DEF Handle
<1>5. QED
  BY <1>1, <1>2, <1>3, <1>4 DEF AllNext, Reports

\* The dashboard only looks on: beside it the script behaves as CodingSweep says.
THEOREM SweepUndisturbed == AllSpec => Spec
<1>1. AllInit => Init
  BY DEF AllInit
<1>2. [AllNext]_<<vars, reportVars>> => [Next]_vars
  BY DEF AllNext
<1>3. QED
  BY <1>1, <1>2, PTL DEF AllSpec, Spec

\* Types and invariants of both, however the GETs, the script, failing writes and
\* restarts interleave.
THEOREM ReportsInvariant == AllSpec => [](ReportsTypeOK /\ SweepInv /\ ReportsInv)
<1>1. AllInit => ReportsTypeOK /\ ReportsInv
  BY ReportTypesInit, ReportsInvInit
<1>2. ReportsTypeOK /\ SweepInv /\ ReportsInv /\ [AllNext]_<<vars, reportVars>>
        => ReportsTypeOK' /\ ReportsInv'
  <2>1. ReportsInv => GetsInv
    BY DEF ReportsInv
  <2>2. QED
    BY <2>1, ReportTypesStep, ReportsStep
<1>3. AllSpec => []SweepInv
  BY SweepUndisturbed, SweepInvariant
<1>4. QED
  BY <1>1, <1>2, <1>3, PTL DEF AllSpec

\* What a GET finds when no writer is left and nothing was lost: a whole table, or
\* none and so the sweep's own.
LEMMA ReadsWhole ==
  ASSUME ReportsTypeOK, SweepInv, ReportsInv, NEW t \in Gets, at[t] = "read",
         ~broken, \A u \in Gets \ {t} : at[u] # "write"
  PROVE  /\ ~Hole /\ RowsOf(table) \in {{}, Points}
         /\ RowsOf(rows) \in {{}, Points}
<1>1. RowsOf(rows) \in {{}, Points}
  BY DEF SweepInv, TableOfWholeSweep, RowsOf
<1>2. table = NoRows \/ table.points = Points
  BY DEF ReportsInv, TableInv
<1>3. RowsOf(table) \in {{}, Points}
  BY <1>2 DEF RowsOf
<1>4. ~Hole
  BY <1>3, PointsAssumption DEF Hole, Points
<1>5. QED
  BY <1>1, <1>3, <1>4

\* An answer with rows is of a whole sweep, and one that is less than the whole has
\* a writer beside it or a write that failed, for any number of points and requests.
THEOREM NothingOfPart == AllSpec => NothingOfPartialSweep
<1> DEFINE Honest ==
      \A t \in Gets : answer'[t] # answer[t] =>
        /\ answer'[t] \in {"part", "whole"} => summary = Points
        /\ answer'[t] \in {"part", "error"} => broken' \/ \E u \in Gets \ {t} : at[u] = "write"
<1>1. ASSUME ReportsTypeOK, SweepInv, ReportsInv, [AllNext]_<<vars, reportVars>>
      PROVE  [Honest]_<<vars, reportVars>>
  <2> SUFFICES ASSUME NEW t \in Gets, answer'[t] # answer[t],
                      answer'[t] \in {"part", "whole", "error"}
               PROVE  /\ answer'[t] \in {"part", "whole"} => summary = Points
                      /\ answer'[t] \in {"part", "error"} =>
                           broken' \/ \E u \in Gets \ {t} : at[u] = "write"
    OBVIOUS
  <2>1. (Summarize(t) \/ WriteFails(t) \/ ReadReport(t)) /\ UNCHANGED vars
    <3>1. PICK s \in Gets : (Request(s) \/ Handle(s) \/ WriteFails(s)) /\ UNCHANGED vars
      BY <1>1 DEF AllNext, Reports, Restart, reportVars
    <3>2. s = t
      BY <1>1, <3>1 DEF Request, Handle, HasTable, HasSummary, Summarize, OpenReport, WriteBlock,
             WriteOthers, ReadReport, WriteFails, Answers, ReportsTypeOK
    <3>3. ~Request(t)
      BY <1>1 DEF Request, ReportsTypeOK
    <3>4. QED
      BY <3>1, <3>2, <3>3 DEF Handle, HasTable, HasSummary, OpenReport, WriteBlock, WriteOthers
  <2>2. CASE Summarize(t)
    <3>1. rows # NoRows
      BY <1>1, <2>2 DEF Summarize, ReportsInv, GetsInv
    <3>2. AgentDirs \subseteq summary
      BY <1>1, <3>1, AllDirectories DEF ReportsInv, ReportsTypeOK
    <3>3. QED
      BY <2>2, <3>2 DEF Summarize
  <2>3. CASE WriteFails(t)
    <3>1. broken' /\ answer'[t] = "error"
      BY <1>1, <2>3, AnswersTypes DEF WriteFails
    <3>2. QED
      BY <3>1
  <2>4. CASE ReadReport(t)
    <3> DEFINE found == IF RowsOf(table) # {} THEN RowsOf(table) ELSE RowsOf(rows)
    <3>1. /\ at[t] = "read" /\ broken' = broken
          /\ Hole => answer'[t] \in {"part", "error"}
          /\ ~Hole => answer'[t] = CASE found = {} -> "empty" [] found = Points -> "whole"
                                     [] OTHER -> "part"
      <4>1. ASSUME NEW what, what \in {"empty", "part", "whole", "error"}, Answers(t, what)
            PROVE  answer'[t] = what
        BY <1>1, <4>1, AnswersTypes
      <4>2. QED
        BY <2>4, <4>1 DEF ReadReport, tableVars
    <3>2. ASSUME answer'[t] \in {"part", "whole"} PROVE summary = Points
      <4>1. Hole => RowsOf(table) # {}
        BY DEF Hole
      <4>2. RowsOf(table) # {} \/ RowsOf(rows) # {}
        <5> SUFFICES ASSUME RowsOf(table) = {}, RowsOf(rows) = {} PROVE FALSE
          OBVIOUS
        <5>1. found = {} /\ ~Hole
          BY <4>1
        <5>2. answer'[t] = "empty"
          <6>1. Points # {}
            BY PointsAssumption DEF Points
          <6>2. QED
            <7> HIDE DEF found
            <7> QED BY <3>1, <5>1, <6>1
        <5>3. QED
          BY <3>2, <5>2
      <4>3. table # NoRows \/ rows # NoRows
        BY <4>2 DEF RowsOf
      <4>4. rows # NoRows
        BY <1>1, <4>3 DEF ReportsInv, GetsInv
      <4>5. QED
        BY <1>1, <4>4 DEF SweepInv, TableOfWholeSweep
    <3>3. ASSUME answer'[t] \in {"part", "error"}, ~broken', \A u \in Gets \ {t} : at[u] # "write"
          PROVE  FALSE
      <4>1. ~Hole /\ RowsOf(table) \in {{}, Points} /\ RowsOf(rows) \in {{}, Points}
        BY <1>1, <3>1, <3>3, ReadsWhole
      <4>2. QED
        BY <3>1, <3>3, <4>1
    <3>4. QED
      BY <3>2, <3>3
  <2>5. QED
    BY <2>1, <2>2, <2>3, <2>4
<1>2. ReportsTypeOK /\ SweepInv /\ ReportsInv /\ [AllNext]_<<vars, reportVars>>
        => [Honest]_<<vars, reportVars>>
  BY <1>1
<1>3. QED
  BY <1>2, ReportsInvariant, PTL DEF AllSpec, NothingOfPartialSweep

=================================================================================
