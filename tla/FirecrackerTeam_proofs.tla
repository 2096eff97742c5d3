------------------------ MODULE FirecrackerTeam_proofs ------------------------
(***************************************************************************)
(* Proofs about FirecrackerTeam for any number of VMs and issues.          *)
(***************************************************************************)
EXTENDS FirecrackerTeam, SequenceTheorems, FiniteSetTheorems, WellFoundedInduction, TLAPS

\* What is left of a loop after one of its rounds.
LEMMA AdvanceMeaning ==
  ASSUME cursor \in VMs, NEW after, Advance(after)
  PROVE  /\ cursor' \in VMs
         /\ cursor + 1 < NumAgents => cursor' = cursor + 1 /\ phase' = phase
         /\ cursor + 1 >= NumAgents =>
              cursor + 1 = NumAgents /\ cursor' = 0 /\ phase' = after
<1>1. NumAgents \in Nat \ {0} /\ cursor \in 0..(NumAgents - 1)
  BY CountsAssumption DEF VMs
<1>2. CASE cursor + 1 < NumAgents
  <2>1. (cursor + 1) % NumAgents = cursor + 1
    BY <1>1, <1>2
  <2>2. QED
    BY <1>1, <1>2, <2>1 DEF Advance, VMs
<1>3. CASE cursor + 1 = NumAgents
  <2>1. (cursor + 1) % NumAgents = 0
    BY <1>1, <1>3
  <2>2. QED
    BY <1>1, <1>3, <2>1 DEF Advance, VMs
<1>4. QED
  BY <1>1, <1>2, <1>3

\* The same as a choice: the loop goes on, or it is over.
LEMMA AdvanceCases ==
  ASSUME cursor \in VMs, NEW after, Advance(after)
  PROVE  \/ cursor + 1 < NumAgents /\ cursor' = cursor + 1 /\ phase' = phase
         \/ cursor + 1 = NumAgents /\ cursor' = 0 /\ phase' = after
<1>1. cursor + 1 < NumAgents \/ cursor + 1 >= NumAgents
  BY CountsAssumption DEF VMs
<1>2. QED
  BY <1>1, AdvanceMeaning

\* And what either way means for types.
LEMMA AdvanceType ==
  ASSUME cursor \in VMs, NEW after, Advance(after)
  PROVE  cursor' \in VMs /\ phase' \in {phase, after}
<1>1. cursor + 1 < NumAgents \/ cursor + 1 >= NumAgents
  BY CountsAssumption DEF VMs
<1>2. QED
  BY <1>1, AdvanceMeaning

\* A result.json that was cut short or completed.
LEMMA FileExcept ==
  ASSUME NEW file \in File, NEW state \in {"missing", "torn", "whole"}
  PROVE  /\ [file EXCEPT !.state = state] \in File
         /\ [file EXCEPT !.state = state]
              = [state |-> state, issue |-> file.issue, verified |-> file.verified]
<1>1. [file EXCEPT !.state = state]
        = [state |-> state, issue |-> file.issue, verified |-> file.verified]
  BY DEF File
<1>2. [state |-> state, issue |-> file.issue, verified |-> file.verified] \in File
  BY DEF File
<1>3. QED
  BY <1>1, <1>2

\* A finite set of naturals that is not empty has a largest element.
LEMMA LargestNatural ==
  ASSUME NEW n \in Nat, NEW T \in SUBSET (1..n), T # {}
  PROVE  \E x \in T : \A y \in T : y <= x
<1> DEFINE D == { n - x : x \in T }
           R == { pair \in Nat \X Nat : pair[1] < pair[2] }
<1>0. \A x \in T : x \in Nat /\ n - x \in Nat
  OBVIOUS
<1>1. D \subseteq Nat /\ D # {}
  BY <1>0, Zenon
<1>2. IsWellFoundedOn(R, Nat)
  BY NatLessThanWellFounded DEF OpToRel
<1>3. PICK d \in D : \A e \in D : ~(e < d)
  <2>1. \E d \in D : \A e \in D : ~(<<e, d>> \in R)
    <3> HIDE DEF D, R
    <3> QED
      BY <1>1, <1>2, WFMin
  <2>2. QED
    BY <1>1, <2>1
<1>4. PICK x \in T : d = n - x
  OBVIOUS
<1>5. ASSUME NEW y \in T
      PROVE  y <= x
  <2>1. n - y \in D /\ x \in Nat /\ y \in Nat
    BY <1>0, Zenon
  <2>2. ~(n - y < n - x)
    BY <1>3, <1>4, <2>1
  <2>3. QED
    BY <2>1, <2>2
<1>6. QED
  BY <1>5

\* With a plan for every VM, by_agent_id knows an issue for each agent.
LEMMA PlanOfRowType ==
  ASSUME NEW v \in VMs, NumAgents <= NumIssues
  PROVE  PlanOfRow(v) \in Issues /\ PlanOf(v) \in Issues
<1> DEFINE Dealt == { i \in Issues : AgentOf(i) = AgentOf(PlanOf(v)) }
<1>1. PlanOf(v) \in Issues
  BY CountsAssumption DEF PlanOf, Issues, VMs
<1>2. PlanOf(v) \in Dealt /\ Dealt \in SUBSET (1..NumIssues)
  BY <1>1 DEF Issues
<1>3. PICK i \in Dealt : \A j \in Dealt : j <= i
  BY <1>2, CountsAssumption, LargestNatural
<1>4. \E x \in Issues :
        /\ AgentOf(x) = AgentOf(PlanOf(v))
        /\ \A j \in Issues : AgentOf(j) = AgentOf(PlanOf(v)) => j <= x
  BY <1>3
<1>5. QED
  BY <1>1, <1>4 DEF PlanOfRow

\* With one issue per VM it is the issue whose task the VM was given.
LEMMA PlanOfRowIsPlan ==
  ASSUME NEW v \in VMs, NumIssues = NumAgents
  PROVE  PlanOfRow(v) = PlanOf(v)
<1>1. \A i \in Issues : AgentOf(i) = i - 1
  <2> SUFFICES ASSUME NEW i \in Issues
               PROVE  (i - 1) % NumAgents = i - 1
    BY DEF AgentOf
  <2>1. i - 1 \in Nat /\ i - 1 < NumAgents /\ NumAgents \in Nat \ {0}
    BY CountsAssumption DEF Issues
  <2>2. QED
    BY <2>1
<1>2. PlanOf(v) \in Issues /\ PlanOfRow(v) \in Issues
  BY PlanOfRowType, CountsAssumption
<1>3. \A i \in Issues : AgentOf(i) = AgentOf(PlanOf(v)) <=> i = PlanOf(v)
  BY <1>1, <1>2 DEF Issues
<1>4. \A i \in Issues :
        (/\ AgentOf(i) = AgentOf(PlanOf(v))
         /\ \A j \in Issues : AgentOf(j) = AgentOf(PlanOf(v)) => j <= i)
        <=> i = PlanOf(v)
  BY <1>2, <1>3 DEF Issues
<1>5. QED
  BY <1>2, <1>4 DEF PlanOfRow

-----------------------------------------------------------------------------
\* Beyond the preparation there is a plan for every VM.
EnoughInv == phase \notin {"checking", "crashed"} => NumAgents <= NumIssues

\* The steps of a guest and of its VM, and what they leave to the host.
GuestOrVm(v) == GuestStep(v) \/ VmEnds(v) \/ VmAborts(v)

\* The steps of a guest and of its VM leave script, rows and tasks alone.
LEMMA GuestFrame ==
  ASSUME NEW v \in VMs, GuestOrVm(v)
  PROVE  UNCHANGED <<scriptVars, task, out, rowVars>>
BY DEF GuestOrVm, GuestStep, GuestStarts, GuestWrites, GuestCloses, GuestFails, Flush,
       VmEnds, VmAborts

\* Types, and that there is a plan for every VM, step by step.
LEMMA TypeStep == TypeOK /\ EnoughInv /\ [Next]_vars => TypeOK' /\ EnoughInv'
<1> SUFFICES ASSUME TypeOK, EnoughInv, [Next]_vars
             PROVE  TypeOK' /\ EnoughInv'
  OBVIOUS
<1> USE CountsAssumption
<1>0. NoFile \in File
  BY DEF NoFile, File
<1>1. CASE Prepare
  BY <1>1 DEF Prepare, TypeOK, EnoughInv, guestVars, rowVars
<1>2. CASE PrepareFails
  BY <1>2 DEF PrepareFails, TypeOK, EnoughInv, guestVars, rowVars
<1>3. CASE CopyTask
  <2>1. PlanOf(cursor) \in 0..NumIssues
    BY <1>3 DEF CopyTask, TypeOK, EnoughInv, PlanOf, VMs
  <2>2. QED
    BY <1>3, <2>1, AdvanceType DEF CopyTask, TypeOK, EnoughInv, rowVars
<1>4. CASE Launch
  BY <1>4, AdvanceType DEF Launch, TypeOK, EnoughInv, rowVars
<1>5. CASE SleepEnds
  BY <1>5 DEF SleepEnds, TypeOK, EnoughInv, guestVars, rowVars
<1>6. CASE Stop
  BY <1>6, AdvanceType DEF Stop, TypeOK, EnoughInv, rowVars
<1>7. CASE Wait
  BY <1>7, AdvanceType DEF Wait, TypeOK, EnoughInv, guestVars, rowVars
<1>8. CASE CopyOut
  BY <1>8, AdvanceType DEF CopyOut, TypeOK, EnoughInv, guestVars, rowVars
<1>9. CASE ScriptFails
  <2>1. out' \in [VMs -> File]
    <3>1. disk[cursor] \in File /\ [disk[cursor] EXCEPT !.state = "torn"] \in File
      BY FileExcept DEF TypeOK
    <3>2. QED
      BY <1>9, <1>0, <3>1 DEF ScriptFails, TypeOK
  <2>2. QED
    BY <1>9, <2>1 DEF ScriptFails, TypeOK, EnoughInv, guestVars, VMs
<1>10. CASE CollectRow
  <2> DEFINE ok == out[cursor].state = "whole" /\ out[cursor].verified
             row == [vm |-> cursor, issue |-> PlanOfRow(cursor), verified |-> ok,
                     status |-> IF ok THEN "verified_success" ELSE "failed",
                     rounds |-> IF out[cursor].state = "whole" THEN 1 ELSE 0]
             new == CASE out[cursor].state = "missing" ->
                           {[kind |-> "missing", vm |-> cursor, issue |-> PlanOfRow(cursor)]}
                      [] out[cursor].state = "torn" ->
                           {[kind |-> "invalid", vm |-> cursor, issue |-> PlanOfRow(cursor)]}
                      [] out[cursor].state = "whole" -> {}
  <2>1. cursor \in VMs /\ PlanOfRow(cursor) \in Issues
    BY <1>10, PlanOfRowType DEF CollectRow, TypeOK, EnoughInv
  <2>2. ok \in BOOLEAN /\ out[cursor].state \in {"missing", "torn", "whole"}
    BY <2>1 DEF TypeOK, File
  <2>3. row \in Row
    BY <2>1, <2>2 DEF Row
  <2>4. new \subseteq GuestErrors
    BY <2>1, <2>2 DEF GuestErrors
  <2>5. issues' = Append(issues, row) /\ errors' = errors \cup new
    BY <1>10 DEF CollectRow
  <2>6. issues' \in Seq(Row)
    BY <2>3, <2>5, AppendProperties DEF TypeOK
  <2>7. errors' \subseteq {RunnerError} \cup GuestErrors
    BY <2>4, <2>5 DEF TypeOK
  <2>8. QED
    BY <1>10, <2>6, <2>7, AdvanceType DEF CollectRow, TypeOK, EnoughInv, guestVars
<1>11. CASE Publish
  BY <1>11 DEF Publish, TypeOK, EnoughInv, guestVars
<1>12. ASSUME NEW v \in VMs, GuestOrVm(v)
       PROVE  TypeOK' /\ EnoughInv'
  <2>1. UNCHANGED <<scriptVars, task, out, rowVars>>
    BY <1>12, GuestFrame
  <2>2. \A b \in BOOLEAN : [state |-> "torn", issue |-> task[v], verified |-> b] \in File
    BY DEF File, TypeOK
  <2>3. [cache[v] EXCEPT !.state = "whole"] \in File
    BY FileExcept DEF TypeOK
  <2>4. cache' \in [VMs -> File] /\ disk' \in [VMs -> File]
    BY <1>12, <2>2, <2>3
       DEF GuestOrVm, GuestStep, GuestStarts, GuestWrites, GuestCloses, GuestFails, Flush,
           VmEnds, VmAborts, TypeOK
  <2>5. vm' \in [VMs -> {"off", "up", "dying", "dead"}]
        /\ guest' \in [VMs -> {"idle", "working", "writing", "over"}]
    BY <1>12
       DEF GuestOrVm, GuestStep, GuestStarts, GuestWrites, GuestCloses, GuestFails, Flush,
           VmEnds, VmAborts, TypeOK
  <2>6. QED
    BY <2>1, <2>4, <2>5 DEF TypeOK, EnoughInv, scriptVars, rowVars
<1>13. CASE UNCHANGED vars
  BY <1>13 DEF vars, scriptVars, guestVars, rowVars, TypeOK, EnoughInv
<1>14. QED
  BY <1>1, <1>2, <1>3, <1>4, <1>5, <1>6, <1>7, <1>8, <1>9, <1>10, <1>11, <1>12, <1>13
     DEF Next, HostStep, ScriptStep, GuestOrVm

\* Types are right at first.
LEMMA InitType == Init => TypeOK /\ EnoughInv
<1>1. NoFile \in File
  BY CountsAssumption DEF NoFile, File
<1>2. QED
  BY <1>1, CountsAssumption DEF Init, TypeOK, EnoughInv, VMs

\* Every variable of the Firecracker branch keeps its type: no row is made for
\* an issue the planner does not have.
THEOREM FirecrackerTypes == Spec => []TypeOK
<1>1. TypeOK /\ EnoughInv /\ [Next]_vars => (TypeOK /\ EnoughInv)'
  BY TypeStep
<1>2. QED
  BY <1>1, InitType, PTL DEF Spec

-----------------------------------------------------------------------------
\* How far the loops over the VMs have got, told by phase and cursor: which VMs
\* were started, told to stop, waited for.
VmInv ==
  /\ phase \in {"checking", "sleeping", "publishing", "done"} => cursor = 0
  /\ phase \in {"checking", "copying"} => \A v \in VMs : vm[v] = "off"
  /\ phase = "launching" => \A v \in VMs : vm[v] = "off" <=> v >= cursor
  /\ phase \in {"sleeping", "stopping"} => \A v \in VMs : vm[v] # "off"
  /\ phase = "stopping" => \A v \in VMs : v < cursor => vm[v] \in {"dying", "dead"}
  /\ phase = "waiting" => \A v \in VMs :
       vm[v] \in {"dying", "dead"} /\ (v < cursor => vm[v] = "dead")
  /\ phase = "collecting" => \A v \in VMs : vm[v] = "dead"
  /\ phase \in {"rows", "publishing", "done", "crashed"} => \A v \in VMs : vm[v] \in {"off", "dead"}

\* Which images have their task.
TaskInv ==
  /\ phase = "copying" => \A v \in VMs : v < cursor => task[v] = PlanOf(v)
  /\ phase \in {"launching", "sleeping", "stopping", "waiting", "collecting"} =>
       \A v \in VMs : task[v] = PlanOf(v)
  /\ \A v \in VMs : vm[v] # "off" => task[v] = PlanOf(v)

\* The loops, step by step.
LEMMA VmStep == TypeOK /\ VmInv /\ [Next]_vars => VmInv'
<1> SUFFICES ASSUME TypeOK, VmInv, [Next]_vars
             PROVE  VmInv'
  OBVIOUS
<1> USE CountsAssumption
<1>0. cursor \in VMs /\ \A v \in VMs : v \in Nat /\ v < NumAgents
  BY DEF TypeOK, VMs
<1>1. CASE Prepare
  BY <1>1, <1>0 DEF Prepare, VmInv, guestVars, VMs
<1>2. CASE PrepareFails
  BY <1>2 DEF PrepareFails, VmInv, guestVars
<1>3. CASE CopyTask
  BY <1>3, <1>0, AdvanceCases DEF CopyTask, VmInv, VMs
<1>4. CASE Launch
  BY <1>4, <1>0, AdvanceCases DEF Launch, VmInv, TypeOK
<1>5. CASE SleepEnds
  BY <1>5, <1>0 DEF SleepEnds, VmInv, guestVars
<1>6. CASE Stop
  BY <1>6, <1>0, AdvanceCases DEF Stop, VmInv, TypeOK
<1>7. CASE Wait
  BY <1>7, <1>0, AdvanceCases DEF Wait, VmInv, guestVars
<1>8. CASE CopyOut
  BY <1>8, <1>0, AdvanceCases DEF CopyOut, VmInv, guestVars
<1>9. CASE ScriptFails
  BY <1>9, <1>0 DEF ScriptFails, VmInv, guestVars
<1>10. CASE CollectRow
  BY <1>10, <1>0, AdvanceCases DEF CollectRow, VmInv, guestVars
<1>11. CASE Publish
  BY <1>11 DEF Publish, VmInv, guestVars
<1>12. ASSUME NEW v \in VMs, GuestOrVm(v)
       PROVE  VmInv'
  <2>1. UNCHANGED <<phase, cursor>>
    BY <1>12, GuestFrame DEF scriptVars
  <2>2. \/ vm' = vm
        \/ vm[v] \in {"dying", "up"} /\ vm' = [vm EXCEPT ![v] = "dead"]
    BY <1>12
       DEF GuestOrVm, GuestStep, GuestStarts, GuestWrites, GuestCloses, GuestFails, Flush,
           VmEnds, VmAborts
  <2>3. \A w \in VMs : vm'[w] = vm[w] \/ (vm[w] # "off" /\ vm'[w] = "dead")
    BY <2>2 DEF TypeOK
  <2>4. QED
    BY <2>1, <2>3 DEF VmInv
<1>13. CASE UNCHANGED vars
  BY <1>13 DEF vars, scriptVars, guestVars, VmInv
<1>14. QED
  BY <1>1, <1>2, <1>3, <1>4, <1>5, <1>6, <1>7, <1>8, <1>9, <1>10, <1>11, <1>12, <1>13
     DEF Next, HostStep, ScriptStep, GuestOrVm

\* The tasks, step by step.
LEMMA TaskStep == TypeOK /\ VmInv /\ TaskInv /\ [Next]_vars => TaskInv'
<1> SUFFICES ASSUME TypeOK, VmInv, TaskInv, [Next]_vars
             PROVE  TaskInv'
  OBVIOUS
<1> USE CountsAssumption
<1>0. cursor \in VMs /\ \A v \in VMs : v \in Nat /\ v < NumAgents
  BY DEF TypeOK, VMs
<1>1. CASE Prepare
  BY <1>1, <1>0 DEF Prepare, TaskInv, VmInv, guestVars
<1>2. CASE PrepareFails
  BY <1>2 DEF PrepareFails, TaskInv, guestVars
<1>3. CASE CopyTask
  BY <1>3, <1>0, AdvanceCases DEF CopyTask, TaskInv, VmInv, TypeOK
<1>4. CASE Launch
  BY <1>4, <1>0, AdvanceCases DEF Launch, TaskInv, TypeOK
<1>5. CASE SleepEnds
  BY <1>5 DEF SleepEnds, TaskInv, guestVars
<1>6. CASE Stop
  BY <1>6, <1>0, AdvanceCases DEF Stop, TaskInv, TypeOK
<1>7. CASE Wait
  BY <1>7, <1>0, AdvanceCases DEF Wait, TaskInv, guestVars
<1>8. CASE CopyOut
  BY <1>8, <1>0, AdvanceCases DEF CopyOut, TaskInv, guestVars
<1>9. CASE ScriptFails
  BY <1>9 DEF ScriptFails, TaskInv, guestVars
<1>10. CASE CollectRow
  BY <1>10, <1>0, AdvanceCases DEF CollectRow, TaskInv, guestVars
<1>11. CASE Publish
  BY <1>11 DEF Publish, TaskInv, guestVars
<1>12. ASSUME NEW v \in VMs, GuestOrVm(v)
       PROVE  TaskInv'
  <2>1. UNCHANGED <<phase, cursor, task>>
    BY <1>12, GuestFrame DEF scriptVars
  <2>2. \A w \in VMs : vm'[w] # "off" => vm[w] # "off"
    BY <1>12
       DEF GuestOrVm, GuestStep, GuestStarts, GuestWrites, GuestCloses, GuestFails, Flush,
           VmEnds, VmAborts, TypeOK
  <2>3. QED
    BY <2>1, <2>2 DEF TaskInv
<1>13. CASE UNCHANGED vars
  BY <1>13 DEF vars, scriptVars, guestVars, TaskInv
<1>14. QED
  BY <1>1, <1>2, <1>3, <1>4, <1>5, <1>6, <1>7, <1>8, <1>9, <1>10, <1>11, <1>12, <1>13
     DEF Next, HostStep, ScriptStep, GuestOrVm

\* The script mounts an image only while no VM runs on it.
THEOREM NoImageShared == Spec => []ImageHasOneUser
<1>1. Init => TypeOK /\ EnoughInv /\ VmInv
  BY InitType DEF Init, VmInv
<1>2. TypeOK /\ EnoughInv /\ VmInv /\ [Next]_vars => (TypeOK /\ EnoughInv /\ VmInv)'
  BY TypeStep, VmStep
<1>3. VmInv => ImageHasOneUser
  BY DEF VmInv, ImageHasOneUser, Running
<1>4. QED
  BY <1>1, <1>2, <1>3, PTL DEF Spec


-----------------------------------------------------------------------------
\* A guest's result and its two copies: each is the guest's or behind it, and
\* none is ahead of it; a whole copy is what the guest finished.
FileInv ==
  /\ \A v \in VMs : vm[v] = "off" => guest[v] = "idle"
  /\ \A v \in VMs : guest[v] \in {"idle", "working"} => cache[v] = NoFile
  /\ \A v \in VMs : guest[v] = "writing" => cache[v].state = "torn"
  /\ \A v \in VMs : cache[v].state # "missing" => cache[v].issue = task[v]
  /\ \A v \in VMs : disk[v].state # "missing" =>
       cache[v].state # "missing" /\ disk[v].issue = task[v]
  /\ \A v \in VMs : disk[v].state = "whole" => disk[v] = cache[v]
  /\ phase \in {"checking", "copying"} => out = [v \in VMs |-> NoFile]
  /\ \A v \in VMs : out[v].state # "missing" => out[v].issue = task[v]
  /\ \A v \in VMs : out[v].state = "whole" => out[v] = cache[v]

\* What a guest does to its files.
LEMMA GuestFiles ==
  ASSUME TypeOK, FileInv, NEW v \in VMs, GuestOrVm(v)
  PROVE  FileInv'
<1>0. UNCHANGED <<phase, task, out>>
  BY GuestFrame DEF scriptVars
<1>1. ASSUME NEW w \in VMs, w # v
      PROVE  UNCHANGED <<vm[w], guest[w], cache[w], disk[w]>>
  BY <1>1
     DEF GuestOrVm, GuestStep, GuestStarts, GuestWrites, GuestCloses, GuestFails, Flush,
         VmEnds, VmAborts, TypeOK
<1> DEFINE Good(w) ==
      /\ vm[w] = "off" => guest[w] = "idle"
      /\ guest[w] \in {"idle", "working"} => cache[w] = NoFile
      /\ guest[w] = "writing" => cache[w].state = "torn"
      /\ cache[w].state # "missing" => cache[w].issue = task[w]
      /\ disk[w].state # "missing" =>
           cache[w].state # "missing" /\ disk[w].issue = task[w]
      /\ disk[w].state = "whole" => disk[w] = cache[w]
      /\ out[w].state # "missing" => out[w].issue = task[w]
      /\ out[w].state = "whole" => out[w] = cache[w]
<1>2. \A w \in VMs : Good(w)
  BY DEF FileInv
<1>3. Good(v)'
  <2>0. NoFile.state = "missing"
    BY DEF NoFile
  <2>1. CASE GuestStarts(v)
    BY <2>1, <1>0, <1>2 DEF GuestStarts, Running, TypeOK
  <2>2. CASE GuestWrites(v)
    <3>1. PICK ok \in BOOLEAN :
            cache' = [cache EXCEPT ![v] = [state |-> "torn", issue |-> task[v], verified |-> ok]]
      BY <2>2 DEF GuestWrites
    <3>2. cache'[v].state = "torn" /\ cache'[v].issue = task[v]
      BY <3>1 DEF TypeOK
    <3>3. guest'[v] = "writing" /\ vm'[v] # "off" /\ disk'[v] = disk[v] /\ cache[v] = NoFile
      BY <2>2, <1>2 DEF GuestWrites, Running, TypeOK
    <3>4. QED
      BY <3>2, <3>3, <1>0, <1>2, <2>0
  <2>3. CASE GuestCloses(v)
    <3>1. cache'[v] = [cache[v] EXCEPT !.state = "whole"]
      BY <2>3 DEF GuestCloses, TypeOK
    <3>2. cache'[v].state = "whole" /\ cache'[v].issue = cache[v].issue
      BY <3>1, FileExcept DEF TypeOK
    <3>3. /\ guest'[v] = "over" /\ vm'[v] # "off" /\ disk'[v] = disk[v]
          /\ cache[v].state = "torn"
      BY <2>3, <1>2 DEF GuestCloses, Running, TypeOK
    <3>4. QED
      BY <3>2, <3>3, <1>0, <1>2
  <2>4. CASE GuestFails(v)
    BY <2>4, <1>0, <1>2 DEF GuestFails, Running, TypeOK
  <2>5. CASE Flush(v)
    BY <2>5, <1>0, <1>2 DEF Flush, TypeOK
  <2>6. CASE VmEnds(v)
    BY <2>6, <1>0, <1>2 DEF VmEnds, TypeOK
  <2>7. CASE VmAborts(v)
    BY <2>7, <1>0, <1>2 DEF VmAborts, TypeOK
  <2>8. QED
    BY <2>1, <2>2, <2>3, <2>4, <2>5, <2>6, <2>7 DEF GuestOrVm, GuestStep
<1>4. \A w \in VMs : Good(w)'
  BY <1>0, <1>1, <1>2, <1>3
<1>5. QED
  BY <1>0, <1>4 DEF FileInv

\* The files, step by step: the script moves them on, and gives a task only to
\* an image whose VM has not begun.
LEMMA FileStep == TypeOK /\ VmInv /\ FileInv /\ [Next]_vars => FileInv'
<1> SUFFICES ASSUME TypeOK, VmInv, FileInv, [Next]_vars
             PROVE  FileInv'
  OBVIOUS
<1>0. cursor \in VMs /\ NoFile.state = "missing"
  BY DEF TypeOK, NoFile
<1>1. CASE Prepare \/ PrepareFails
  BY <1>1 DEF Prepare, PrepareFails, FileInv, guestVars
<1>2. CASE CopyTask
  <2>1. /\ \A v \in VMs : vm[v] = "off"
        /\ out = [v \in VMs |-> NoFile]
        /\ UNCHANGED <<vm, guest, cache, disk, out>>
    BY <1>2 DEF CopyTask, VmInv, FileInv
  <2>2. \A v \in VMs : cache[v] = NoFile
    BY <2>1 DEF FileInv
  <2>3. \A v \in VMs : out[v].state = "missing" /\ disk[v].state # "whole"
    BY <2>1, <2>2, <1>0 DEF FileInv
  <2>4. \A v \in VMs : disk[v].state = "missing"
    BY <2>2, <1>0 DEF FileInv
  <2>5. QED
    BY <2>1, <2>2, <2>3, <2>4, <1>0 DEF FileInv
<1>3. CASE Launch
  <2>1. phase' \notin {"checking", "copying"} /\ UNCHANGED <<task, guest, cache, disk, out>>
    BY <1>3, <1>0, AdvanceType DEF Launch
  <2>2. \A v \in VMs : vm'[v] = "off" => vm[v] = "off"
    BY <1>3, <1>0 DEF Launch, TypeOK
  <2>3. QED
    BY <2>1, <2>2 DEF FileInv
<1>4. CASE SleepEnds
  BY <1>4 DEF SleepEnds, FileInv, guestVars
<1>5. CASE Stop
  <2>1. phase' \notin {"checking", "copying"} /\ UNCHANGED <<task, guest, cache, disk, out>>
    BY <1>5, <1>0, AdvanceType DEF Stop
  <2>2. \A v \in VMs : vm'[v] = "off" => vm[v] = "off"
    BY <1>5, <1>0 DEF Stop, TypeOK
  <2>3. QED
    BY <2>1, <2>2 DEF FileInv
<1>6. CASE Wait
  BY <1>6, <1>0, AdvanceType DEF Wait, FileInv, guestVars
<1>7. CASE CopyOut
  <2>1. phase' \notin {"checking", "copying"}
    BY <1>7, <1>0, AdvanceType DEF CopyOut
  <2>2. \A v \in VMs : out'[v] \in {out[v], disk[v]}
    BY <1>7 DEF CopyOut, TypeOK
  <2>3. QED
    BY <1>7, <2>1, <2>2 DEF CopyOut, FileInv, guestVars
<1>8. CASE ScriptFails
  <2>1. [disk[cursor] EXCEPT !.state = "torn"].state = "torn"
        /\ [disk[cursor] EXCEPT !.state = "torn"].issue = disk[cursor].issue
    BY <1>0, FileExcept DEF TypeOK
  <2>2. \A v \in VMs :
          \/ out'[v] \in {out[v], disk[v], NoFile}
          \/ out'[v].state = "torn" /\ out'[v].issue = disk[v].issue /\ disk[v].state # "missing"
    BY <1>8, <1>0, <2>1 DEF ScriptFails, TypeOK
  <2>3. QED
    BY <1>8, <1>0, <2>2 DEF ScriptFails, FileInv, guestVars
<1>9. CASE CollectRow
  BY <1>9, <1>0, AdvanceType DEF CollectRow, FileInv, guestVars
<1>10. CASE Publish
  BY <1>10 DEF Publish, FileInv, guestVars
<1>11. ASSUME NEW v \in VMs, GuestOrVm(v)
       PROVE  FileInv'
  BY <1>11, GuestFiles
<1>12. CASE UNCHANGED vars
  BY <1>12 DEF vars, scriptVars, guestVars, FileInv
<1>13. QED
  BY <1>1, <1>2, <1>3, <1>4, <1>5, <1>6, <1>7, <1>8, <1>9, <1>10, <1>11, <1>12
     DEF Next, HostStep, ScriptStep, GuestOrVm


-----------------------------------------------------------------------------
\* The rows made so far are those of the first VMs, in their order, and each
\* says what the copy of its VM's result says.
RowInv ==
  /\ phase \notin {"rows", "publishing", "done"} => issues = <<>>
  /\ phase = "rows" => Len(issues) = cursor
  /\ phase \in {"publishing", "done"} => Len(issues) = NumAgents
  /\ \A k \in 1..Len(issues) :
       /\ issues[k].vm = k - 1
       /\ issues[k].issue = PlanOfRow(k - 1)
       /\ issues[k].verified <=> issues[k].status = "verified_success"
       /\ issues[k].verified => out[k - 1].state = "whole" /\ out[k - 1].verified

\* An error of a VM goes with a row that has no round, the runner's with its status.
ErrorInv ==
  /\ \A k \in 1..Len(issues) :
       issues[k].rounds = 0 <=> \E e \in errors : e.kind # "runner" /\ e.vm = k - 1
  /\ \A e \in errors : e.kind # "runner" => e.vm < Len(issues)
  /\ RunnerError \in errors <=> rc # 0

\* The totals count the rows.
ResultInv ==
  /\ result.published => phase = "done"
  /\ phase # "done" => result = NoResult
  /\ result.published =>
       /\ result.total = Len(issues)
       /\ result.verified = Cardinality({ k \in DOMAIN issues : issues[k].verified })
       /\ result.failed = Cardinality({ k \in DOMAIN issues :
                                          issues[k].status # "verified_success" })

\* The row that CollectRow adds.
LEMMA CollectRowRow ==
  ASSUME TypeOK, EnoughInv, CollectRow
  PROVE  LET i == PlanOfRow(cursor)
             ok == out[cursor].state = "whole" /\ out[cursor].verified
             row == [vm |-> cursor, issue |-> i, verified |-> ok,
                     status |-> IF ok THEN "verified_success" ELSE "failed",
                     rounds |-> IF out[cursor].state = "whole" THEN 1 ELSE 0]
             n == Len(issues)
         IN  /\ n \in Nat /\ Len(issues') = n + 1
             /\ \A k \in 1..n : issues'[k] = issues[k]
             /\ issues'[n + 1] = row
             /\ row \in Row
             /\ out[cursor].state = "whole" => errors' = errors
             /\ out[cursor].state # "whole" =>
                  \E e \in GuestErrors : e.vm = cursor /\ errors' = errors \cup {e}
<1> DEFINE i == PlanOfRow(cursor)
           ok == out[cursor].state = "whole" /\ out[cursor].verified
           row == [vm |-> cursor, issue |-> i, verified |-> ok,
                   status |-> IF ok THEN "verified_success" ELSE "failed",
                   rounds |-> IF out[cursor].state = "whole" THEN 1 ELSE 0]
           n == Len(issues)
           new == CASE out[cursor].state = "missing" ->
                         {[kind |-> "missing", vm |-> cursor, issue |-> i]}
                    [] out[cursor].state = "torn" ->
                         {[kind |-> "invalid", vm |-> cursor, issue |-> i]}
                    [] out[cursor].state = "whole" -> {}
<1>1. cursor \in VMs /\ i \in Issues
  BY PlanOfRowType DEF CollectRow, TypeOK, EnoughInv
<1>2. ok \in BOOLEAN /\ out[cursor].state \in {"missing", "torn", "whole"}
  BY <1>1 DEF TypeOK, File
<1>3. row \in Row
  BY <1>1, <1>2 DEF Row
<1>4. issues' = Append(issues, row) /\ errors' = errors \cup new
  BY DEF CollectRow
<1>5. n \in Nat /\ Len(issues') = n + 1 /\ issues'[n + 1] = row
      /\ \A k \in 1..n : issues'[k] = issues[k]
  <2> HIDE DEF row
  <2> QED
    BY <1>3, <1>4, AppendProperties, LenProperties DEF TypeOK
<1>6. out[cursor].state = "whole" => errors' = errors
  BY <1>4
<1>7. ASSUME out[cursor].state # "whole"
      PROVE  \E e \in GuestErrors : e.vm = cursor /\ errors' = errors \cup {e}
  <2>1. CASE out[cursor].state = "missing"
    BY <2>1, <1>1, <1>4 DEF GuestErrors
  <2>2. CASE out[cursor].state = "torn"
    BY <2>2, <1>1, <1>4 DEF GuestErrors
  <2>3. QED
    BY <1>2, <1>7, <2>1, <2>2
<1>8. QED
  BY <1>3, <1>5, <1>6, <1>7

\* The rows, step by step.
LEMMA RowStep == TypeOK /\ EnoughInv /\ VmInv /\ RowInv /\ [Next]_vars => RowInv'
<1> SUFFICES ASSUME TypeOK, EnoughInv, VmInv, RowInv, [Next]_vars
             PROVE  RowInv'
  OBVIOUS
<1> USE CountsAssumption
<1>0. cursor \in VMs /\ \A v \in VMs : v \in Nat /\ v < NumAgents
  BY DEF TypeOK, VMs
<1>0a. Len(<<>>) = 0
  OBVIOUS
<1>1. CASE Prepare \/ PrepareFails \/ SleepEnds
  <2>1. issues = <<>> /\ issues' = issues /\ cursor' = cursor
        /\ phase' \notin {"publishing", "done"}
    BY <1>1 DEF Prepare, PrepareFails, SleepEnds, RowInv, rowVars
  <2>2. phase' = "rows" => cursor = 0
    BY <1>1 DEF Prepare, PrepareFails, SleepEnds, VmInv
  <2>3. QED
    BY <2>1, <2>2, <1>0a DEF RowInv
<1>2. CASE CopyTask \/ Launch \/ Stop \/ Wait \/ CopyOut \/ ScriptFails
  <2>1. issues = <<>> /\ issues' = issues
    BY <1>2 DEF CopyTask, Launch, Stop, Wait, CopyOut, ScriptFails, RowInv, rowVars
  <2>2. phase' \notin {"publishing", "done"} /\ (phase' = "rows" => cursor' = 0)
    <3>1. CASE ScriptFails
      BY <3>1 DEF ScriptFails
    <3>2. CASE ~ScriptFails
      BY <1>2, <3>2, <1>0, AdvanceCases DEF CopyTask, Launch, Stop, Wait, CopyOut
    <3>3. QED
      BY <3>1, <3>2
  <2>3. QED
    BY <2>1, <2>2, <1>0a DEF RowInv
<1>3. CASE CollectRow
  <2> DEFINE n == Len(issues)
             ok == out[cursor].state = "whole" /\ out[cursor].verified
  <2>1. /\ n \in Nat /\ Len(issues') = n + 1
        /\ \A k \in 1..n : issues'[k] = issues[k]
        /\ issues'[n + 1].vm = cursor
        /\ issues'[n + 1].issue = PlanOfRow(cursor)
        /\ issues'[n + 1].verified = ok
        /\ issues'[n + 1].status = IF ok THEN "verified_success" ELSE "failed"
    BY <1>3, CollectRowRow
  <2>2. n = cursor /\ phase = "rows" /\ out' = out
    BY <1>3 DEF CollectRow, RowInv
  <2>3. \A k \in 1..Len(issues') :
          /\ issues'[k].vm = k - 1
          /\ issues'[k].issue = PlanOfRow(k - 1)
          /\ issues'[k].verified <=> issues'[k].status = "verified_success"
          /\ issues'[k].verified => out[k - 1].state = "whole" /\ out[k - 1].verified
    <3> SUFFICES ASSUME NEW k \in 1..(n + 1)
                 PROVE  /\ issues'[k].vm = k - 1
                        /\ issues'[k].issue = PlanOfRow(k - 1)
                        /\ issues'[k].verified <=> issues'[k].status = "verified_success"
                        /\ issues'[k].verified =>
                             out[k - 1].state = "whole" /\ out[k - 1].verified
      BY <2>1
    <3>1. CASE k \in 1..n
      BY <3>1, <2>1 DEF RowInv
    <3>2. CASE k = n + 1
      <4>1. k - 1 = cursor
        BY <3>2, <2>1, <2>2
      <4>2. QED
        BY <3>2, <4>1, <2>1
    <3>3. QED
      BY <2>1, <3>1, <3>2
  <2>4. /\ phase' \in {"rows", "publishing"}
        /\ phase' = "rows" => Len(issues') = cursor'
        /\ phase' = "publishing" => Len(issues') = NumAgents
    BY <1>3, <1>0, <2>1, <2>2, AdvanceCases DEF CollectRow
  <2>5. QED
    BY <2>2, <2>3, <2>4 DEF RowInv
<1>4. CASE Publish
  BY <1>4 DEF Publish, RowInv
<1>5. ASSUME NEW v \in VMs, GuestOrVm(v)
      PROVE  RowInv'
  BY <1>5, GuestFrame DEF RowInv, scriptVars, rowVars
<1>6. CASE UNCHANGED vars
  BY <1>6 DEF vars, scriptVars, rowVars, RowInv
<1>7. QED
  BY <1>1, <1>2, <1>3, <1>4, <1>5, <1>6 DEF Next, HostStep, ScriptStep, GuestOrVm


\* The errors, step by step.
LEMMA ErrorStep ==
  TypeOK /\ EnoughInv /\ RowInv /\ ErrorInv /\ [Next]_vars => ErrorInv'
<1> SUFFICES ASSUME TypeOK, EnoughInv, RowInv, ErrorInv, [Next]_vars
             PROVE  ErrorInv'
  OBVIOUS
<1> USE CountsAssumption
<1>0. Len(<<>>) = 0 /\ RunnerError.kind = "runner"
      /\ \A e \in GuestErrors : e.kind # "runner" /\ e.vm \in Nat
  BY DEF RunnerError, GuestErrors, VMs
<1>1. CASE ScriptFails
  <2>1. issues = <<>> /\ issues' = <<>>
    BY <1>1 DEF ScriptFails, RowInv
  <2>2. errors' = errors \cup {RunnerError} /\ rc' = 1
    BY <1>1 DEF ScriptFails
  <2>3. QED
    BY <2>1, <2>2, <1>0 DEF ErrorInv
<1>2. CASE CollectRow
  <2> DEFINE n == Len(issues)
  <2>1. /\ n \in Nat /\ Len(issues') = n + 1
        /\ \A k \in 1..n : issues'[k] = issues[k]
        /\ issues'[n + 1].rounds = IF out[cursor].state = "whole" THEN 1 ELSE 0
        /\ out[cursor].state = "whole" => errors' = errors
        /\ out[cursor].state # "whole" =>
             \E e \in GuestErrors : e.vm = cursor /\ errors' = errors \cup {e}
    BY <1>2, CollectRowRow
  <2>2. n = cursor /\ rc' = rc
    BY <1>2 DEF CollectRow, RowInv
  <2>3. \A e \in errors : e.kind # "runner" => e.vm \in Nat
    BY <1>0 DEF TypeOK
  <2>4. CASE out[cursor].state = "whole"
    <3>1. errors' = errors /\ issues'[n + 1].rounds = 1
      BY <2>1, <2>4
    <3>2. \A e \in errors : e.kind # "runner" => e.vm < n /\ e.vm < n + 1
      BY <2>1, <2>3 DEF ErrorInv
    <3>3. \A k \in 1..(n + 1) :
            issues'[k].rounds = 0 <=> \E e \in errors : e.kind # "runner" /\ e.vm = k - 1
      <4> TAKE k \in 1..(n + 1)
      <4>1. CASE k \in 1..n
        BY <4>1, <2>1 DEF ErrorInv
      <4>2. CASE k = n + 1
        BY <4>2, <3>1, <3>2, <2>1
      <4>3. QED
        BY <2>1, <4>1, <4>2
    <3>4. QED
      BY <2>1, <2>2, <3>1, <3>2, <3>3 DEF ErrorInv
  <2>5. CASE out[cursor].state # "whole"
    <3>1. issues'[n + 1].rounds = 0
      BY <2>1, <2>5
    <3>2. PICK new \in GuestErrors : new.vm = n /\ errors' = errors \cup {new}
      BY <2>1, <2>2, <2>5
    <3>3. \A e \in errors : e.kind # "runner" => e.vm < n /\ e.vm < n + 1
      BY <2>1, <2>3 DEF ErrorInv
    <3>4. \A k \in 1..(n + 1) :
            issues'[k].rounds = 0 <=> \E e \in errors' : e.kind # "runner" /\ e.vm = k - 1
      <4> TAKE k \in 1..(n + 1)
      <4>1. CASE k \in 1..n
        <5>1. new.vm # k - 1
          BY <4>1, <3>2, <2>1
        <5>2. QED
          BY <4>1, <5>1, <3>2, <2>1 DEF ErrorInv
      <4>2. CASE k = n + 1
        <5>1. k - 1 = n
          BY <4>2, <2>1
        <5>2. QED
          BY <4>2, <5>1, <3>1, <3>2, <1>0
      <4>3. QED
        BY <2>1, <4>1, <4>2
    <3>5. \A e \in errors' : e.kind # "runner" => e.vm < n + 1
      BY <3>2, <3>3, <2>1
    <3>6. RunnerError \in errors' <=> rc' # 0
      BY <3>2, <2>2, <1>0 DEF ErrorInv
    <3>7. QED
      BY <2>1, <3>4, <3>5, <3>6 DEF ErrorInv
  <2>6. QED
    BY <2>4, <2>5
<1>3. CASE UNCHANGED <<issues, errors, rc>>
  BY <1>3 DEF ErrorInv
<1>4. CASE HostStep
  BY <1>1, <1>2, <1>3, <1>4
     DEF HostStep, ScriptStep, Prepare, PrepareFails, CopyTask, Launch, SleepEnds, Stop, Wait,
         CopyOut, Publish, rowVars
<1>5. ASSUME NEW v \in VMs, GuestOrVm(v)
      PROVE  ErrorInv'
  BY <1>5, <1>3, GuestFrame DEF scriptVars, rowVars
<1>6. CASE UNCHANGED vars
  BY <1>6, <1>3 DEF vars, scriptVars, rowVars
<1>7. QED
  BY <1>4, <1>5, <1>6 DEF Next, GuestOrVm

\* The totals, step by step.
LEMMA ResultStep == TypeOK /\ ResultInv /\ [Next]_vars => ResultInv'
<1> SUFFICES ASSUME TypeOK, ResultInv, [Next]_vars
             PROVE  ResultInv'
  OBVIOUS
<1>0. cursor \in VMs /\ ~NoResult.published
  BY DEF TypeOK, NoResult
<1>1. CASE Publish
  BY <1>1 DEF Publish, ResultInv
<1>2. CASE HostStep /\ ~Publish
  <2>1. phase # "done" /\ UNCHANGED result
    BY <1>2
       DEF HostStep, ScriptStep, Prepare, PrepareFails, CopyTask, Launch, SleepEnds, Stop, Wait,
           CopyOut, ScriptFails, CollectRow, rowVars
  <2>2. QED
    BY <2>1, <1>0 DEF ResultInv
<1>3. ASSUME NEW v \in VMs, GuestOrVm(v)
      PROVE  ResultInv'
  BY <1>3, GuestFrame DEF scriptVars, rowVars, ResultInv
<1>4. CASE UNCHANGED vars
  BY <1>4 DEF vars, scriptVars, rowVars, ResultInv
<1>5. QED
  BY <1>1, <1>2, <1>3, <1>4 DEF Next, GuestOrVm

\* A set of positions and the other positions are all positions.
LEMMA CountTwoKinds ==
  ASSUME NEW n \in Nat, NEW T \in SUBSET (1..n)
  PROVE  Cardinality(T) + Cardinality((1..n) \ T) = n
<1>1. IsFiniteSet(1..n) /\ Cardinality(1..n) = n
  BY FS_Interval
<1>2. IsFiniteSet(T) /\ IsFiniteSet((1..n) \ T)
  BY <1>1, FS_Subset
<1>3. T \cup ((1..n) \ T) = 1..n /\ T \cap ((1..n) \ T) = {}
  OBVIOUS
<1>4. Cardinality({}) = 0
  BY FS_EmptySet
<1>5. Cardinality(T) \in Nat /\ Cardinality((1..n) \ T) \in Nat
  BY <1>2, FS_CardinalityType
<1>6. Cardinality(1..n) = Cardinality(T) + Cardinality((1..n) \ T) - Cardinality({})
  BY <1>2, <1>3, FS_Union
<1>7. QED
  BY <1>1, <1>4, <1>5, <1>6

\* All of it together.
Inv == TypeOK /\ EnoughInv /\ VmInv /\ TaskInv /\ FileInv /\ RowInv /\ ErrorInv /\ ResultInv

\* It holds at first.
LEMMA InitInv == Init => Inv
<1> SUFFICES ASSUME Init
             PROVE  Inv
  OBVIOUS
<1>0. Len(<<>>) = 0 /\ NoFile.state = "missing" /\ ~NoResult.published
  BY DEF NoFile, NoResult
<1>1. VmInv
  BY DEF Init, VmInv
<1>2. TaskInv
  BY DEF Init, TaskInv
<1>3. FileInv
  BY <1>0 DEF Init, FileInv
<1>4. RowInv
  BY <1>0 DEF Init, RowInv
<1>5. ErrorInv
  BY <1>0 DEF Init, ErrorInv
<1>6. ResultInv
  BY <1>0 DEF Init, ResultInv
<1>7. QED
  BY <1>1, <1>2, <1>3, <1>4, <1>5, <1>6, InitType DEF Inv

\* And from then on.
LEMMA InvCorrect == Spec => []Inv
<1>1. Inv /\ [Next]_vars => Inv'
  BY TypeStep, VmStep, TaskStep, FileStep, RowStep, ErrorStep, ResultStep DEF Inv
<1>2. QED
  BY <1>1, InitInv, PTL DEF Spec

\* A row is verified only if the guest that was given its very issue finished a
\* result that says so; with fewer issues than VMs there is no row at all.
THEOREM VerdictsAreTheGuests ==
  ASSUME NumIssues <= NumAgents
  PROVE  Spec => []VerifiedByOwnGuest
<1>1. ASSUME Inv
      PROVE  VerifiedByOwnGuest
  <2>1. \A v \in VMs : out[v].state # "missing" => out[v].issue = task[v]
    BY <1>1 DEF Inv, FileInv
  <2>2. ASSUME NEW k \in DOMAIN issues, issues[k].verified
        PROVE  \E v \in VMs :
                 /\ task[v] = issues[k].issue
                 /\ cache[v] = [state |-> "whole", issue |-> task[v], verified |-> TRUE]
    <3> DEFINE v == k - 1
    <3>1. k \in 1..Len(issues) /\ Len(issues) \in Nat
      BY <1>1, <2>2, LenProperties DEF Inv, TypeOK
    <3>2. Len(issues) <= NumAgents /\ NumIssues = NumAgents
      <4>1. phase \in {"rows", "publishing", "done"}
        BY <1>1, <3>1 DEF Inv, RowInv
      <4>2. QED
        BY <4>1, <1>1, CountsAssumption DEF Inv, RowInv, TypeOK, VMs, EnoughInv
    <3>3. v \in VMs
      BY <3>1, <3>2, CountsAssumption DEF VMs
    <3>4. /\ issues[k].issue = PlanOfRow(v)
          /\ out[v].state = "whole" /\ out[v].verified
      BY <1>1, <2>2, <3>1 DEF Inv, RowInv
    <3>5. out[v] = cache[v] /\ cache[v].issue = task[v]
      BY <1>1, <3>3, <3>4 DEF Inv, FileInv
    <3>6. guest[v] \notin {"idle", "working"}
      BY <1>1, <3>3, <3>4, <3>5 DEF Inv, FileInv, NoFile
    <3>7. task[v] = PlanOf(v)
      BY <1>1, <3>3, <3>6 DEF Inv, FileInv, TaskInv
    <3>8. task[v] = issues[k].issue
      BY <3>2, <3>3, <3>4, <3>7, PlanOfRowIsPlan
    <3>9. cache[v] \in File
      BY <1>1, <3>3 DEF Inv, TypeOK
    <3>10. cache[v] = [state |-> "whole", issue |-> task[v], verified |-> TRUE]
      BY <3>4, <3>5, <3>9 DEF File
    <3>11. QED
      BY <3>3, <3>8, <3>10
  <2>3. QED
    BY <2>1, <2>2 DEF VerifiedByOwnGuest
<1>2. QED
  BY <1>1, InvCorrect, PTL

\* No VM is lost between the manifest and result.json, whatever became of it.
THEOREM NoVmLost == Spec => []EveryVmHasItsRow
<1>1. ASSUME Inv
      PROVE  EveryVmHasItsRow
  <2>1. Len(issues) \in Nat /\ DOMAIN issues = 1..Len(issues)
    BY <1>1, LenProperties DEF Inv, TypeOK
  <2>2. \A j, k \in DOMAIN issues : issues[j].vm = issues[k].vm => j = k
    BY <1>1, <2>1 DEF Inv, RowInv
  <2>3. \A k \in DOMAIN issues :
          issues[k].rounds = 0 <=> \E e \in errors : e.kind # "runner" /\ e.vm = issues[k].vm
    BY <1>1, <2>1 DEF Inv, RowInv, ErrorInv
  <2>4. RunnerError \in errors <=> rc # 0
    BY <1>1 DEF Inv, ErrorInv
  <2>5. ASSUME result.published
        PROVE  /\ result.total = NumAgents
               /\ result.verified + result.failed = NumAgents
               /\ \A v \in VMs : \E k \in DOMAIN issues : issues[k].vm = v
    <3> DEFINE good == { k \in DOMAIN issues : issues[k].verified }
               bad == { k \in DOMAIN issues : issues[k].status # "verified_success" }
    <3>1. Len(issues) = NumAgents
      BY <1>1, <2>5 DEF Inv, ResultInv, RowInv
    <3>2. /\ result.total = NumAgents
          /\ result.verified = Cardinality(good) /\ result.failed = Cardinality(bad)
      BY <1>1, <2>5, <3>1 DEF Inv, ResultInv
    <3>3. good \in SUBSET (1..NumAgents) /\ bad = (1..NumAgents) \ good
      BY <1>1, <2>1, <3>1 DEF Inv, RowInv
    <3>4. Cardinality(good) + Cardinality(bad) = NumAgents
      <4> HIDE DEF good, bad
      <4> QED
        BY <3>3, CountTwoKinds, CountsAssumption
    <3>5. ASSUME NEW v \in VMs
          PROVE  \E k \in DOMAIN issues : issues[k].vm = v
      <4>1. v + 1 \in 1..NumAgents /\ (v + 1) - 1 = v
        BY CountsAssumption DEF VMs
      <4>2. issues[v + 1].vm = v
        BY <1>1, <3>1, <4>1 DEF Inv, RowInv
      <4>3. QED
        BY <2>1, <3>1, <4>1, <4>2
    <3>6. QED
      BY <3>2, <3>4, <3>5
  <2>6. QED
    BY <2>2, <2>3, <2>4, <2>5 DEF EveryVmHasItsRow
<1>2. QED
  BY <1>1, InvCorrect, PTL


-----------------------------------------------------------------------------
\* With no more issues than VMs, the rows are those of the first issues in order.
LEMMA RowsInOrder ==
  ASSUME Inv, NumIssues <= NumAgents
  PROVE  /\ Len(issues) \in Nat /\ Len(issues) <= NumIssues
         /\ DOMAIN issues = 1..Len(issues)
         /\ \A k \in 1..Len(issues) : issues[k].issue = k
<1>1. Len(issues) \in Nat /\ DOMAIN issues = 1..Len(issues)
  BY LenProperties DEF Inv, TypeOK
<1>2. CASE phase \in {"rows", "publishing", "done"}
  <2>1. NumIssues = NumAgents /\ Len(issues) <= NumAgents
    BY <1>2, CountsAssumption DEF Inv, EnoughInv, RowInv, TypeOK, VMs
  <2>2. ASSUME NEW k \in 1..Len(issues)
        PROVE  issues[k].issue = k
    <3>1. k - 1 \in VMs
      BY <1>1, <2>1, CountsAssumption DEF VMs
    <3>2. PlanOfRow(k - 1) = (k - 1) + 1
      BY <2>1, <3>1, PlanOfRowIsPlan DEF PlanOf
    <3>3. QED
      BY <1>1, <3>2 DEF Inv, RowInv
  <2>3. QED
    BY <1>1, <2>1, <2>2
<1>3. CASE phase \notin {"rows", "publishing", "done"}
  BY <1>1, <1>3, CountsAssumption DEF Inv, RowInv
<1>4. QED
  BY <1>2, <1>3

\* So an issue is open as long as no row has got to it.
LEMMA SettledByRows ==
  ASSUME Inv, NumIssues <= NumAgents
  PROVE  Settled = [i \in Issues |-> IF i > Len(issues) THEN "open"
                                     ELSE IF issues[i].verified THEN "verified" ELSE "failed"]
<1> SUFFICES ASSUME NEW i \in Issues
             PROVE  Settled[i] = IF i > Len(issues) THEN "open"
                                 ELSE IF issues[i].verified THEN "verified" ELSE "failed"
  BY DEF Settled
<1>1. Settled[i] = IF RowOf(i) = {} THEN "open"
                   ELSE IF \E k \in RowOf(i) : issues[k].verified THEN "verified" ELSE "failed"
  BY DEF Settled
<1>2. i \in Nat \ {0}
  BY CountsAssumption DEF Issues
<1>3. CASE i > Len(issues)
  <2>1. RowOf(i) = {}
    BY <1>2, <1>3, RowsInOrder DEF RowOf
  <2>2. QED
    BY <1>1, <1>3, <2>1
<1>4. CASE ~(i > Len(issues))
  <2>1. RowOf(i) = {i}
    BY <1>2, <1>4, RowsInOrder DEF RowOf
  <2>2. QED
    BY <1>1, <1>4, <2>1
<1>5. QED
  BY <1>3, <1>4

\* A step that makes no row settles nothing.
LEMMA SettledStays ==
  ASSUME issues' = issues
  PROVE  Settled' = Settled
BY DEF Settled, RowOf

\* The row of a VM settles the issue of that VM and no other.
LEMMA RowSettles ==
  ASSUME Inv, Inv', NumIssues <= NumAgents, CollectRow
  PROVE  \E i \in Issues : Ledger!Settle(i)
<1> DEFINE n == Len(issues)
           ok == issues'[n + 1].verified
<1>1. /\ n \in Nat /\ Len(issues') = n + 1
      /\ \A k \in 1..n : issues'[k] = issues[k]
  BY CollectRowRow DEF Inv
<1>2. n + 1 \in Issues /\ issues'[n + 1].issue = n + 1
  <2>1. n = cursor /\ cursor \in VMs /\ NumIssues = NumAgents
    BY CountsAssumption DEF CollectRow, Inv, RowInv, TypeOK, EnoughInv
  <2>2. issues'[n + 1].issue = PlanOfRow(cursor)
    BY CollectRowRow DEF Inv
  <2>3. PlanOfRow(cursor) = n + 1
    BY <2>1, PlanOfRowIsPlan DEF PlanOf
  <2>4. QED
    BY <2>1, <2>2, <2>3, PlanOfRowType DEF PlanOf
<1>3. Settled = [i \in Issues |-> IF i > n THEN "open"
                                  ELSE IF issues[i].verified THEN "verified" ELSE "failed"]
  BY SettledByRows
<1>4. \A i \in Issues : Settled'[i] = IF i > n + 1 THEN "open"
                                      ELSE IF issues'[i].verified THEN "verified" ELSE "failed"
  <2> SUFFICES ASSUME NEW i \in Issues
               PROVE  Settled'[i] = IF i > n + 1 THEN "open"
                                    ELSE IF issues'[i].verified THEN "verified" ELSE "failed"
    OBVIOUS
  <2>1. Settled'[i] = IF RowOf(i)' = {} THEN "open"
                      ELSE IF \E k \in RowOf(i)' : issues'[k].verified THEN "verified" ELSE "failed"
    BY DEF Settled
  <2>2. DOMAIN issues' = 1..(n + 1)
    BY <1>1, LenProperties DEF Inv, TypeOK
  <2>3. \A k \in 1..(n + 1) : issues'[k].issue = k
    BY <1>1, <1>2, RowsInOrder
  <2>4. RowOf(i)' = { k \in 1..(n + 1) : k = i }
    BY <2>2, <2>3 DEF RowOf
  <2>5. i \in Nat /\ i > 0
    BY CountsAssumption DEF Issues
  <2>6. CASE i > n + 1
    BY <1>1, <2>1, <2>4, <2>5, <2>6
  <2>7. CASE ~(i > n + 1)
    <3>1. RowOf(i)' = {i}
      BY <1>1, <2>4, <2>5, <2>7
    <3>2. QED
      BY <2>1, <2>7, <3>1
  <2>8. QED
    BY <2>6, <2>7
<1>5. \A i \in Issues : i \in Nat /\ i > 0
  BY CountsAssumption DEF Issues
<1>6. Settled[n + 1] = "open"
  BY <1>1, <1>2, <1>3
<1>7. Settled'[n + 1] = IF ok THEN "verified" ELSE "failed"
  BY <1>1, <1>2, <1>4
<1>8. \A j \in Issues : j # n + 1 => Settled'[j] = Settled[j]
  <2> SUFFICES ASSUME NEW j \in Issues, j # n + 1
               PROVE  Settled'[j] = Settled[j]
    OBVIOUS
  <2>1. CASE j \in 1..n
    BY <2>1, <1>1, <1>3, <1>4
  <2>2. CASE j > n + 1
    <3>1. j > n
      BY <2>2, <1>1, <1>5
    <3>2. QED
      BY <2>2, <3>1, <1>3, <1>4
  <2>3. QED
    BY <1>1, <1>5, <2>1, <2>2
<1>9. Settled' = [Settled EXCEPT ![n + 1] = IF ok THEN "verified" ELSE "failed"]
  <2>1. DOMAIN Settled = Issues /\ Settled = [i \in Issues |-> Settled[i]]
        /\ Settled' = [i \in Issues |-> Settled'[i]]
    BY DEF Settled
  <2>2. QED
    BY <1>2, <1>7, <1>8, <2>1
<1>10. Report = Ledger!NoReport /\ Report' = Ledger!NoReport
  <2>1. phase = "rows" /\ phase' \in {"rows", "publishing"}
    BY AdvanceType DEF CollectRow, Inv, TypeOK
  <2>2. QED
    BY <2>1 DEF Report, Ledger!NoReport
<1>11. Ledger!Settle(n + 1)
  BY <1>6, <1>9, <1>10 DEF Ledger!Settle, Ledger!Verdicts
<1>12. QED
  BY <1>2, <1>11

\* What is published counts the issues, one row being one issue.
LEMMA PublishReports ==
  ASSUME Inv, NumIssues <= NumAgents, Publish
  PROVE  Ledger!PublishReport
<1> DEFINE V == { k \in DOMAIN issues : issues[k].verified }
           F == { k \in DOMAIN issues : issues[k].status # "verified_success" }
<1>1. Len(issues) = NumIssues /\ NumIssues \in Nat /\ DOMAIN issues = Issues
  <2>1. Len(issues) = NumAgents
    BY DEF Publish, Inv, RowInv
  <2>2. QED
    BY <2>1, RowsInOrder, CountsAssumption DEF Issues
<1>2. \A i \in Issues : Settled[i] = IF issues[i].verified THEN "verified" ELSE "failed"
  BY <1>1, SettledByRows DEF Issues
<1>3. \A i \in Issues : issues[i].status # "verified_success" <=> ~issues[i].verified
  BY <1>1 DEF Inv, RowInv, Issues
<1>4. V = Ledger!With("verified") /\ F = Ledger!With("failed") /\ Ledger!With("open") = {}
  BY <1>1, <1>2, <1>3 DEF Ledger!With
<1>5. ASSUME NEW S
      PROVE  Ledger!Cardinality(S) = Cardinality(S)
  BY Zenon DEF Ledger!Cardinality, Cardinality
<1>6. Report' = [state |-> "published", verified |-> Cardinality(V), failed |-> Cardinality(F)]
  BY DEF Publish, Report
<1>7. Report = Ledger!NoReport /\ Settled' = Settled
  BY SettledStays DEF Publish, Report, Ledger!NoReport
<1>8. Report' = [state |-> "published",
                 verified |-> Ledger!Cardinality(Ledger!With("verified")),
                 failed |-> Ledger!Cardinality(Ledger!With("failed"))]
  BY <1>4, <1>5, <1>6
<1> HIDE DEF V, F
<1>9. QED
  BY <1>4, <1>7, <1>8 DEF Ledger!PublishReport

\* A run that cannot be prepared ends before any issue is settled.
LEMMA CrashAborts ==
  ASSUME Inv, NumIssues <= NumAgents, Prepare \/ PrepareFails, phase' = "crashed"
  PROVE  Ledger!Abort
<1>1. phase = "checking" /\ issues' = issues
  BY DEF Prepare, PrepareFails, rowVars
<1>2. Len(issues) = 0
  BY <1>1 DEF Inv, RowInv
<1>3. \A i \in Issues : Settled[i] = "open"
  BY <1>2, SettledByRows, CountsAssumption DEF Issues
<1>4. Ledger!With("open") = Issues
  BY <1>3 DEF Ledger!With
<1>5. Report = Ledger!NoReport /\ Report' = Ledger!Aborted
  BY <1>1 DEF Report, Ledger!NoReport, Ledger!Aborted
<1>6. QED
  BY <1>1, <1>4, <1>5, SettledStays DEF Ledger!Abort

\* Every step of the branch is a step of the ledger or leaves it alone.
LEMMA BranchRefinementStep ==
  ASSUME Inv, Inv', NumIssues <= NumAgents, [Next]_vars
  PROVE  [Ledger!LedgerNext]_(Ledger!ledger)
<1> SUFFICES Ledger!LedgerNext \/ (Settled' = Settled /\ Report' = Report)
  BY DEF Ledger!ledger
<1>1. CASE CollectRow
  BY <1>1, RowSettles DEF Ledger!LedgerNext
<1>2. CASE Publish
  BY <1>2, PublishReports DEF Ledger!LedgerNext
<1>3. CASE (Prepare \/ PrepareFails) /\ phase' = "crashed"
  BY <1>3, CrashAborts DEF Ledger!LedgerNext
<1>4. CASE (Prepare \/ PrepareFails) /\ phase' # "crashed"
  <2>1. issues' = issues /\ phase \notin {"done", "crashed"} /\ phase' \notin {"done", "crashed"}
    BY <1>4 DEF Prepare, PrepareFails, rowVars
  <2>2. QED
    BY <2>1, SettledStays DEF Report
<1>5. CASE ScriptStep
  <2>1. cursor \in VMs
    BY DEF Inv, TypeOK
  <2>2. issues' = issues /\ phase \notin {"done", "crashed"}
    BY <1>5 DEF ScriptStep, CopyTask, Launch, SleepEnds, Stop, Wait, CopyOut, ScriptFails, rowVars
  <2>3. phase' \notin {"done", "crashed"}
    BY <1>5, <2>1, AdvanceType
       DEF ScriptStep, CopyTask, Launch, SleepEnds, Stop, Wait, CopyOut, ScriptFails
  <2>4. QED
    BY <2>2, <2>3, SettledStays DEF Report
<1>6. ASSUME NEW v \in VMs, GuestOrVm(v)
      PROVE  Settled' = Settled /\ Report' = Report
  BY <1>6, GuestFrame, SettledStays DEF Report, scriptVars, rowVars
<1>7. CASE UNCHANGED vars
  BY <1>7, SettledStays DEF vars, scriptVars, rowVars, Report
<1>8. QED
  BY <1>1, <1>2, <1>3, <1>4, <1>5, <1>6, <1>7 DEF Next, HostStep, GuestOrVm

\* With no more issues than VMs the branch keeps the promise of IssueLedger: each
\* issue settled once, by the row of its VM, and totals that count each once.
THEOREM BranchKeepsLedger ==
  ASSUME NumIssues <= NumAgents
  PROVE  Spec => Ledger!LedgerSpec
<1>1. Init => Ledger!LedgerInit
  BY DEF Init, Ledger!LedgerInit, Settled, RowOf, Report, Ledger!NoReport
<1>2. Inv /\ Inv' /\ [Next]_vars => [Ledger!LedgerNext]_(Ledger!ledger)
  BY BranchRefinementStep
<1>3. QED
  BY <1>1, <1>2, InvCorrect, PTL DEF Spec, Ledger!LedgerSpec

==============================================================================
