--------------------------- MODULE GroupSweeps_proofs ---------------------------
(***************************************************************************)
(* Proofs about the two sweeps that write a group result: the metrics      *)
(* sweep scripts with their wrapper (MetricsSweep) and the team sweep      *)
(* (TeamSweep).  First the stable order of the points that both share,     *)
(* then what belongs to each.                                              *)
(***************************************************************************)
EXTENDS MetricsSweep, TeamSweep, Counting, TLAPS

-----------------------------------------------------------------------------
\* What a stable sort needs: the place of a row, one more than the number of rows
\* before it, is a permutation.
LEMMA PlacesOfRows ==
  ASSUME NEW N \in Nat, NEW agents \in [1..N -> Nat]
  PROVE  [n \in 1..N |-> Cardinality(RowsBefore(agents, n)) + 1] \in Bijection(1..N, 1..N)
<1> DEFINE before(n) == RowsBefore(agents, n)
           place == [n \in 1..N |-> Cardinality(before(n)) + 1]
<1>1. IsFiniteSet(1..N) /\ Cardinality(1..N) = N
  BY IntervalCount
<1>2. ASSUME NEW n \in 1..N
      PROVE  /\ IsFiniteSet(before(n)) /\ Cardinality(before(n)) \in Nat
             /\ Cardinality(before(n)) < N /\ n \notin before(n)
  <2>1. before(n) \subseteq (1..N) \ {n}
    BY DEF RowsBefore
  <2>2. IsFiniteSet((1..N) \ {n}) /\ Cardinality((1..N) \ {n}) = N - 1
    BY <1>1, FS_RemoveElement
  <2>3. IsFiniteSet(before(n)) /\ Cardinality(before(n)) <= N - 1
    BY <2>1, <2>2, FS_Subset
  <2>4. QED
    BY <2>1, <2>3, FS_CardinalityType
<1>3. ASSUME NEW m \in 1..N, NEW n \in 1..N, m \in before(n) PROVE place[m] < place[n]
  <2>1. before(m) \cup {m} \subseteq before(n)
    <3>1. ASSUME NEW l \in before(m) PROVE l \in before(n)
      BY <1>3 DEF RowsBefore
    <3>2. QED
      BY <1>3, <3>1
  <2>2. IsFiniteSet(before(m) \cup {m}) /\ Cardinality(before(m) \cup {m}) = Cardinality(before(m)) + 1
    BY <1>2, FS_AddElement
  <2>3. Cardinality(before(m) \cup {m}) <= Cardinality(before(n))
    BY <1>2, <2>1, FS_Subset
  <2>4. Cardinality(before(m)) + 1 <= Cardinality(before(n))
    BY <2>2, <2>3
  <2>5. QED
    <3> HIDE DEF before
    <3> QED BY <1>2, <2>4
<1>4. \A m, n \in 1..N : m = n \/ m \in before(n) \/ n \in before(m)
  BY DEF RowsBefore
<1>5. \A n \in 1..N : place[n] \in 1..N
  <2> HIDE DEF before
  <2> QED BY <1>2
<1>6. place \in [1..N -> 1..N]
  <2> HIDE DEF before
  <2> QED BY <1>5
<1>7. \A m, n \in 1..N : place[m] = place[n] => m = n
  <2> HIDE DEF before, place
  <2> QED BY <1>3, <1>4, <1>5
<1>8. place \in Injection(1..N, 1..N)
  <2> HIDE DEF place
  <2> QED BY <1>6, <1>7, Fun_IsInj
<1>9. place \in Surjection(1..N, 1..N)
  <2> HIDE DEF place
  <2> QED BY <1>1, <1>8, FS_Injection
<1>10. QED
  <2> HIDE DEF place
  <2>1. place \in Bijection(1..N, 1..N)
    BY <1>8, <1>9 DEF Bijection
  <2>2. QED
    BY <2>1 DEF place

\* So each place has its row and each row its place, and a later place has no
\* fewer agents.
LEMMA RowsAtPlaces ==
  ASSUME NEW N \in Nat, NEW agents \in [1..N -> Nat]
  PROVE  /\ \A p \in 1..N : RowAt(agents, p) \in 1..N
         /\ \A p, q \in 1..N : RowAt(agents, p) = RowAt(agents, q) => p = q
         /\ \A n \in 1..N : \E p \in 1..N : RowAt(agents, p) = n
         /\ \A p, q \in 1..N : p <= q => agents[RowAt(agents, p)] <= agents[RowAt(agents, q)]
<1> DEFINE place == [n \in 1..N |-> Cardinality(RowsBefore(agents, n)) + 1]
           row(p) == RowAt(agents, p)
<1>1. /\ place \in [1..N -> 1..N]
      /\ \A m, n \in 1..N : place[m] = place[n] => m = n
      /\ \A p \in 1..N : \E n \in 1..N : place[n] = p
  <2>1. place \in Bijection(1..N, 1..N)
    BY PlacesOfRows
  <2>2. QED
    <3> HIDE DEF place
    <3> QED BY <2>1, Fun_IsBij DEF Bijection, Injection, Surjection, IsInjective
<1>2. \A n \in 1..N : Cardinality(RowsBefore(agents, n)) \in Nat
  <2> SUFFICES ASSUME NEW n \in 1..N PROVE Cardinality(RowsBefore(agents, n)) \in Nat
    OBVIOUS
  <2>1. RowsBefore(agents, n) \subseteq 1..N
    BY DEF RowsBefore
  <2>2. QED
    BY <2>1, IntervalCount, FS_Subset, FS_CardinalityType
<1>3. ASSUME NEW p \in 1..N PROVE row(p) \in 1..N /\ place[row(p)] = p
  <2>1. \E n \in 1..N : Cardinality(RowsBefore(agents, n)) = p - 1
    <3>1. PICK n \in 1..N : place[n] = p
      BY <1>1
    <3>2. Cardinality(RowsBefore(agents, n)) + 1 = p
      BY <3>1
    <3>3. Cardinality(RowsBefore(agents, n)) = p - 1
      BY <1>2, <3>2
    <3>4. QED
      BY <3>3
  <2>2. DOMAIN agents = 1..N
    OBVIOUS
  <2>3. row(p) \in 1..N /\ Cardinality(RowsBefore(agents, row(p))) = p - 1
    BY <2>1, <2>2 DEF RowAt
  <2>4. QED
    <3> HIDE DEF row
    <3> QED BY <2>3
<1>4. \A n \in 1..N : row(place[n]) = n
  <2> HIDE DEF place, row
  <2> QED BY <1>1, <1>3
<1>5. ASSUME NEW p \in 1..N, NEW q \in 1..N, p < q PROVE agents[row(p)] <= agents[row(q)]
  <2> DEFINE m == row(p)
             n == row(q)
  <2>1. m \in 1..N /\ n \in 1..N /\ place[m] < place[n]
    <3> HIDE DEF place, row
    <3> QED BY <1>3, <1>5
  <2>2. SUFFICES ASSUME agents[n] < agents[m] PROVE FALSE
    <3>1. agents[m] \in Nat /\ agents[n] \in Nat
      <4> HIDE DEF m, n
      <4> QED BY <2>1
    <3>2. agents[m] <= agents[n] \/ agents[n] < agents[m]
      <4> HIDE DEF m, n
      <4> QED BY <3>1
    <3>3. QED
      BY <3>2
  <2>3. RowsBefore(agents, n) \subseteq RowsBefore(agents, m)
    <3> HIDE DEF m, n
    <3>1. ASSUME NEW l \in RowsBefore(agents, n) PROVE l \in RowsBefore(agents, m)
      BY <2>1, <2>2 DEF RowsBefore
    <3>2. QED
      BY <3>1
  <2>4. RowsBefore(agents, m) \subseteq 1..N
    BY DEF RowsBefore
  <2>5. Cardinality(RowsBefore(agents, n)) <= Cardinality(RowsBefore(agents, m))
    <3> HIDE DEF m, n
    <3> QED BY <2>3, <2>4, IntervalCount, FS_Subset
  <2>6. QED
    <3> HIDE DEF m, n
    <3> QED BY <1>2, <2>1, <2>5
<1>6. QED
  <2>1. \A p, q \in 1..N : p <= q => agents[row(p)] <= agents[row(q)]
    <3> SUFFICES ASSUME NEW p \in 1..N, NEW q \in 1..N, p <= q
                 PROVE  agents[row(p)] <= agents[row(q)]
      OBVIOUS
    <3>1. CASE p = q
      <4>1. agents[row(p)] \in Nat
        <5> HIDE DEF row
        <5> QED BY <1>3
      <4>2. QED
        <5> HIDE DEF row
        <5> QED BY <3>1, <4>1
    <3>2. CASE p < q
      BY <1>5, <3>2
    <3>3. QED
      BY <3>1, <3>2
  <2>2. \A p, q \in 1..N : row(p) = row(q) => p = q
    <3> HIDE DEF row, place
    <3> QED BY <1>3
  <2>3. \A n \in 1..N : \E p \in 1..N : row(p) = n
    <3> HIDE DEF row, place
    <3> QED BY <1>1, <1>4
  <2>4. QED
    BY <1>3, <2>1, <2>2, <2>3

-----------------------------------------------------------------------------
\* The kinds of collector that may run where the script is.
MayRun ==
  CASE phase = "gpu" -> {"cpu"}
    [] phase \in {"pcm", "stop_cpu"} -> {"cpu", "gpu"}
    [] phase \in {"run", "stop_pcm", "wait_pcm"} -> Kinds
    [] phase = "stop_gpu" -> {"gpu"}
    [] OTHER -> {}

\* A collector that runs is of the point and of a kind the script has started and
\* not stopped, and it is the one the script remembers.
RunningInv ==
  \A x \in running : x[1] \in MayRun /\ x[2] = i /\ pid[x[1]] = i

\* Who may have sampled what a directory has: a collector of point p or, PCM, of an
\* earlier point with the same directory.
OwnReading(k, from, p) ==
  from # 0 => /\ <<k, from>> \in sampled
              /\ \/ from = p
                 \/ k = "pcm" /\ from < p /\ AgentSweep[from] = AgentSweep[p]

Own(readings, p) == \A k \in Kinds : OwnReading(k, readings[k], p)

\* A directory of metrics has samples of the points that use it, none of them yet
\* to come.
TmpInv ==
  \A n \in Range(AgentSweep) : \A k \in Kinds :
    LET from == tmp[n][k]
    IN from # 0 => <<k, from>> \in sampled /\ AgentSweep[from] = n /\ from <= i

\* Where both files have been emptied for the point.
Started ==
  {"pcm", "run", "stop_pcm", "wait_pcm", "stop_cpu", "stop_gpu", "check", "move"}

\* The files of a kind whose start empties them have nothing but the point's own
\* samples from there on.
FreshInv ==
  LET here == tmp[AgentSweep[i]]
  IN /\ phase \in {"gpu"} \cup Started => here["cpu"] \in {0, i}
     /\ phase \in Started => here["gpu"] \in {0, i}

\* What has been moved and summed up stays.
RunInv == \A p \in Points : Own(runDir[p], p) /\ Own(metrics[p], p)

ReadInv == TmpInv /\ FreshInv /\ RunInv

-----------------------------------------------------------------------------
\* Points and counts: there is a first point, and each has a directory.
LEMMA PointsFacts ==
  /\ Points = 1..Len(AgentSweep) /\ Len(AgentSweep) \in Nat /\ 1 \in Points
  /\ \A p \in Points : AgentSweep[p] \in Range(AgentSweep)
<1>1. Points = 1..Len(AgentSweep) /\ Len(AgentSweep) \in Nat
  BY SweepAssumption DEF Points
<1>2. Len(AgentSweep) # 0
  BY SweepAssumption
<1>3. \A p \in Points : AgentSweep[p] \in Range(AgentSweep)
  BY DEF Range, Points
<1>4. QED
  BY <1>1, <1>2, <1>3

LEMMA TypeInit == Init => TypeOK
<1> SUFFICES ASSUME Init PROVE TypeOK
  OBVIOUS
<1>1. Empty \in Readings
  BY DEF Empty, Readings
<1>2. /\ tmp \in [Range(AgentSweep) -> Readings]
      /\ runDir \in [Points -> Readings] /\ metrics \in [Points -> Readings]
  BY <1>1 DEF Init
<1>3. pid \in [Kinds -> {0} \cup Points]
  BY DEF Init
<1>4. Range(children) \subseteq Points
  BY DEF Init, Range
<1>5. QED
  BY <1>2, <1>3, <1>4, PointsFacts DEF Init, TypeOK

\* The type invariant over a step: one step for each action.
LEMMA TypeStep == TypeOK /\ [Next]_vars => TypeOK'
<1> SUFFICES ASSUME TypeOK, [Next]_vars PROVE TypeOK'
  OBVIOUS
<1> USE DEF TypeOK
<1>1. CASE BeginPoint
  BY <1>1 DEF BeginPoint, Goto, collectorVars, childVars
<1>2. CASE StartCpu
  BY <1>2, PointsFacts DEF StartCpu, Goto, Begin, childVars, Kinds, Readings
<1>3. CASE StartGpu
  BY <1>3, PointsFacts DEF StartGpu, Goto, Begin, childVars, Kinds, Readings
<1>4. CASE StartPcm
  BY <1>4 DEF StartPcm, Goto, childVars, Kinds
<1>5. CASE Sample
  BY <1>5, PointsFacts DEF Sample, scriptVars, childVars, Kinds, Readings
<1>6. CASE \E k \in {"gpu", "pcm"} : CollectorEnds(k)
  BY <1>6 DEF CollectorEnds, scriptVars, childVars
<1>7. CASE \E b \in BOOLEAN : RunEnds(b)
  BY <1>7 DEF RunEnds, collectorVars, childVars
<1>8. CASE StopPcm
  BY <1>8 DEF StopPcm, childVars
<1>9. CASE WaitPcm
  BY <1>9 DEF WaitPcm, Goto, collectorVars, childVars
<1>10. CASE StopCpu
  BY <1>10 DEF StopCpu, Goto, childVars
<1>11. CASE StopGpu
  BY <1>11 DEF StopGpu, Goto, childVars
<1>12. CASE CheckRc
  BY <1>12 DEF CheckRc, collectorVars, childVars
<1>13. CASE MoveMetrics
  BY <1>13, PointsFacts DEF MoveMetrics, Goto, collectorVars
<1>14. CASE Refresh
  <2>1. metrics' \in [Points -> Readings] /\ phase' \in {"point", "group"} /\ i' \in Points
    BY <1>14, PointsFacts DEF Refresh, NextPoint
  <2>2. Range(children') \subseteq Points
    BY <1>14 DEF Refresh, Range
  <2>3. QED
    BY <1>14, <2>1, <2>2 DEF Refresh, collectorVars
<1>15. CASE BuildGroup
  BY <1>15 DEF BuildGroup, Goto, collectorVars
<1>16. CASE Fails
  BY <1>16 DEF Fails, collectorVars, childVars
<1>17. CASE UNCHANGED vars
  BY <1>17 DEF vars, scriptVars, collectorVars, childVars
<1>18. QED
  BY <1>1, <1>2, <1>3, <1>4, <1>5, <1>6, <1>7, <1>8, <1>9, <1>10, <1>11, <1>12, <1>13, <1>14,
     <1>15, <1>16, <1>17 DEF Next, ScriptStep

-----------------------------------------------------------------------------
\* RunningInv over a step.  Each start and each stop changes one kind; only a
\* point's last stop, at which nothing runs, lets the script go on to the next.
LEMMA RunningStep == TypeOK /\ RunningInv /\ [Next]_vars => RunningInv'
<1> SUFFICES ASSUME TypeOK, RunningInv, [Next]_vars PROVE RunningInv'
  OBVIOUS
<1> USE DEF RunningInv, MayRun
<1>1. CASE BeginPoint
  BY <1>1 DEF BeginPoint, Goto, collectorVars
<1>2. CASE StartCpu
  BY <1>2 DEF StartCpu, Goto, Begin, TypeOK, Kinds
<1>3. CASE StartGpu
  BY <1>3 DEF StartGpu, Goto, Begin, TypeOK, Kinds
<1>4. CASE StartPcm
  BY <1>4 DEF StartPcm, Goto, TypeOK, Kinds
<1>5. CASE Sample
  BY <1>5 DEF Sample, scriptVars
<1>6. CASE \E k \in {"gpu", "pcm"} : CollectorEnds(k)
  BY <1>6 DEF CollectorEnds, scriptVars
<1>7. CASE \E b \in BOOLEAN : RunEnds(b)
  BY <1>7 DEF RunEnds, collectorVars
<1>8. CASE StopPcm
  BY <1>8, PointsFacts DEF StopPcm, TypeOK, Kinds
<1>9. CASE WaitPcm
  <2>1. \A x \in running : x = <<x[1], i>>
    BY DEF TypeOK
  <2>2. \A x \in running : x[1] # "pcm"
    BY <1>9, <2>1 DEF WaitPcm
  <2>3. QED
    BY <1>9, <2>2 DEF WaitPcm, Goto, collectorVars, TypeOK, Kinds
<1>10. CASE StopCpu
  <2>1. \A x \in running : x = <<x[1], i>>
    BY DEF TypeOK
  <2>2. \A x \in running' : x \in running /\ x[1] # "cpu"
    BY <1>10, <2>1 DEF StopCpu
  <2>3. QED
    BY <1>10, <2>2 DEF StopCpu, Goto
<1>11. CASE StopGpu
  <2>1. \A x \in running : x = <<x[1], i>>
    BY DEF TypeOK
  <2>2. \A x \in running' : x \in running /\ x[1] # "gpu"
    BY <1>11, <2>1 DEF StopGpu
  <2>3. running' = {}
    BY <1>11, <2>2 DEF StopGpu, Goto
  <2>4. QED
    BY <2>3
<1>12. CASE CheckRc
  BY <1>12 DEF CheckRc, collectorVars
<1>13. CASE MoveMetrics
  BY <1>13 DEF MoveMetrics, Goto, collectorVars
<1>14. CASE Refresh
  BY <1>14 DEF Refresh, collectorVars
<1>15. CASE BuildGroup
  BY <1>15 DEF BuildGroup, Goto, collectorVars
<1>16. CASE Fails
  BY <1>16 DEF Fails, collectorVars
<1>17. CASE UNCHANGED vars
  BY <1>17 DEF vars, scriptVars, collectorVars
<1>18. QED
  BY <1>1, <1>2, <1>3, <1>4, <1>5, <1>6, <1>7, <1>8, <1>9, <1>10, <1>11, <1>12, <1>13, <1>14,
     <1>15, <1>16, <1>17 DEF Next, ScriptStep

-----------------------------------------------------------------------------
\* A step of the script that changes no reading and stays at its point.
LEMMA ReadStays ==
  ASSUME ReadInv, UNCHANGED <<i, sampled, tmp, runDir, metrics>>,
         phase' = phase \/ phase' # "gpu", phase' \in Started => phase \in Started
  PROVE  ReadInv'
<1>1. TmpInv'
  BY DEF ReadInv, TmpInv
<1>2. FreshInv'
  BY DEF ReadInv, FreshInv, Started
<1>3. RunInv'
  BY DEF ReadInv, RunInv, Own, OwnReading
<1>4. QED
  BY <1>1, <1>2, <1>3 DEF ReadInv

\* Emptying a file takes readings away and brings none.
LEMMA Emptied ==
  ASSUME TypeOK, ReadInv, NEW k \in Kinds, UNCHANGED <<i, sampled, runDir, metrics>>,
         tmp' = [tmp EXCEPT ![AgentSweep[i]][k] = 0]
  PROVE  TmpInv' /\ RunInv' /\ tmp'[AgentSweep[i]] = [tmp[AgentSweep[i]] EXCEPT ![k] = 0]
<1>1. TmpInv'
  BY PointsFacts DEF ReadInv, TmpInv, TypeOK, Readings
<1>2. RunInv'
  BY DEF ReadInv, RunInv, Own, OwnReading
<1>3. tmp'[AgentSweep[i]] = [tmp[AgentSweep[i]] EXCEPT ![k] = 0]
  BY PointsFacts DEF TypeOK
<1>4. QED
  BY <1>1, <1>2, <1>3

\* ReadInv over a step.
LEMMA ReadStep == TypeOK /\ RunningInv /\ ReadInv /\ [Next]_vars => ReadInv'
<1> SUFFICES ASSUME TypeOK, RunningInv, ReadInv, [Next]_vars PROVE ReadInv'
  OBVIOUS
<1>1. CASE BeginPoint
  BY <1>1, ReadStays DEF BeginPoint, Goto, collectorVars, childVars, Started
<1>2. CASE StartCpu
  <2>1. /\ tmp' = [tmp EXCEPT ![AgentSweep[i]]["cpu"] = 0] /\ phase' = "gpu"
        /\ UNCHANGED <<i, sampled, runDir, metrics>>
    BY <1>2 DEF StartCpu, Goto, childVars
  <2>2. TmpInv' /\ RunInv' /\ tmp'[AgentSweep[i]] = [tmp[AgentSweep[i]] EXCEPT !["cpu"] = 0]
    BY <2>1, Emptied DEF Kinds
  <2>3. tmp[AgentSweep[i]] \in Readings
    BY PointsFacts DEF TypeOK
  <2>4. FreshInv'
    BY <2>1, <2>2, <2>3 DEF FreshInv, Started, Readings, Kinds
  <2>5. QED
    BY <2>2, <2>4 DEF ReadInv
<1>3. CASE StartGpu
  <2>1. /\ tmp' = [tmp EXCEPT ![AgentSweep[i]]["gpu"] = 0] /\ phase = "gpu" /\ phase' = "pcm"
        /\ UNCHANGED <<i, sampled, runDir, metrics>>
    BY <1>3 DEF StartGpu, Goto, childVars
  <2>2. TmpInv' /\ RunInv' /\ tmp'[AgentSweep[i]] = [tmp[AgentSweep[i]] EXCEPT !["gpu"] = 0]
    BY <2>1, Emptied DEF Kinds
  <2>3. tmp[AgentSweep[i]] \in Readings
    BY PointsFacts DEF TypeOK
  <2>4. FreshInv'
    BY <2>1, <2>2, <2>3 DEF ReadInv, FreshInv, Started, Readings, Kinds
  <2>5. QED
    BY <2>2, <2>4 DEF ReadInv
<1>4. CASE StartPcm
  BY <1>4, ReadStays DEF StartPcm, Goto, childVars, Started
<1>5. CASE Sample
  <2>1. PICK x \in running \ sampled :
          /\ sampled' = sampled \cup {x}
          /\ tmp' = [tmp EXCEPT ![AgentSweep[x[2]]][x[1]] = x[2]]
    BY <1>5 DEF Sample
  <2>2. x = <<x[1], i>> /\ x[1] \in Kinds /\ x[2] = i
    BY DEF TypeOK, RunningInv
  <2>3. UNCHANGED <<phase, i, runDir, metrics>>
    BY <1>5 DEF Sample, scriptVars, childVars
  <2>4. TmpInv'
    BY <2>1, <2>2, <2>3, PointsFacts DEF ReadInv, TmpInv, TypeOK, Readings
  <2>5. tmp'[AgentSweep[i]] = [tmp[AgentSweep[i]] EXCEPT ![x[1]] = i]
    BY <2>1, <2>2, PointsFacts DEF TypeOK
  <2>6. tmp[AgentSweep[i]] \in Readings
    BY PointsFacts DEF TypeOK
  <2>7. FreshInv'
    BY <2>2, <2>3, <2>5, <2>6 DEF ReadInv, FreshInv, Started, Readings, Kinds
  <2>8. RunInv'
    BY <2>1, <2>3 DEF ReadInv, RunInv, Own, OwnReading
  <2>9. QED
    BY <2>4, <2>7, <2>8 DEF ReadInv
<1>6. CASE \E k \in {"gpu", "pcm"} : CollectorEnds(k)
  BY <1>6, ReadStays DEF CollectorEnds, scriptVars, childVars
<1>7. CASE \E b \in BOOLEAN : RunEnds(b)
  BY <1>7, ReadStays DEF RunEnds, collectorVars, childVars, Started
<1>8. CASE StopPcm
  BY <1>8, ReadStays DEF StopPcm, childVars, Started
<1>9. CASE WaitPcm
  BY <1>9, ReadStays DEF WaitPcm, Goto, collectorVars, childVars, Started
<1>10. CASE StopCpu
  BY <1>10, ReadStays DEF StopCpu, Goto, childVars, Started
<1>11. CASE StopGpu
  BY <1>11, ReadStays DEF StopGpu, Goto, childVars, Started
<1>12. CASE CheckRc
  BY <1>12, ReadStays DEF CheckRc, collectorVars, childVars, Started
<1>13. CASE MoveMetrics
  <2>1. /\ phase = "move" /\ phase' = "refresh" /\ runDir' = [runDir EXCEPT ![i] = tmp[AgentSweep[i]]]
        /\ UNCHANGED <<i, sampled, tmp, metrics>>
    BY <1>13 DEF MoveMetrics, Goto, collectorVars
  <2>2. tmp[AgentSweep[i]] \in Readings /\ AgentSweep[i] \in Range(AgentSweep) /\ i \in Points
    BY PointsFacts DEF TypeOK
  <2>3. \A k \in Kinds : OwnReading(k, tmp[AgentSweep[i]][k], i)
    <3> SUFFICES ASSUME NEW k \in Kinds, tmp[AgentSweep[i]][k] # 0
                 PROVE  OwnReading(k, tmp[AgentSweep[i]][k], i)
      BY DEF OwnReading
    <3> DEFINE from == tmp[AgentSweep[i]][k]
    <3>1. <<k, from>> \in sampled /\ AgentSweep[from] = AgentSweep[i] /\ from <= i
      BY <2>2 DEF ReadInv, TmpInv
    <3>2. k = "pcm" \/ from = i
      BY <2>1 DEF ReadInv, FreshInv, Started, Kinds
    <3>3. from \in Nat /\ i \in Nat
      BY <2>2, PointsFacts DEF Readings
    <3>4. QED
      BY <3>1, <3>2, <3>3 DEF OwnReading
  <2>4. RunInv'
    <3> SUFFICES ASSUME NEW p \in Points PROVE Own(runDir[p], p)' /\ Own(metrics[p], p)'
      BY DEF RunInv
    <3>1. runDir'[p] = IF p = i THEN tmp[AgentSweep[i]] ELSE runDir[p]
      BY <2>1 DEF TypeOK
    <3>2. Own(runDir'[p], p) /\ Own(metrics[p], p)
      BY <3>1, <2>3 DEF ReadInv, RunInv, Own
    <3>3. QED
      BY <3>2, <2>1 DEF Own, OwnReading
  <2>5. TmpInv' /\ FreshInv'
    BY <2>1 DEF ReadInv, TmpInv, FreshInv, Started
  <2>6. QED
    BY <2>4, <2>5 DEF ReadInv
<1>14. CASE Refresh
  <2>1. /\ phase' \in {"point", "group"} /\ i' \in {i, i + 1}
        /\ metrics' = [metrics EXCEPT ![i] = runDir[i]] /\ UNCHANGED <<sampled, tmp, runDir>>
    BY <1>14 DEF Refresh, NextPoint, collectorVars
  <2>2. RunInv'
    BY <2>1 DEF ReadInv, RunInv, Own, OwnReading, TypeOK
  <2>3. TmpInv'
    <3> SUFFICES ASSUME NEW n \in Range(AgentSweep), NEW k \in Kinds, tmp[n][k] # 0
                 PROVE  <<k, tmp[n][k]>> \in sampled /\ AgentSweep[tmp[n][k]] = n /\ tmp[n][k] <= i'
      BY <2>1 DEF TmpInv
    <3>1. tmp[n][k] \in Nat /\ i \in Nat
      BY PointsFacts DEF TypeOK, Readings
    <3>2. <<k, tmp[n][k]>> \in sampled /\ AgentSweep[tmp[n][k]] = n /\ tmp[n][k] <= i
      BY DEF ReadInv, TmpInv
    <3>3. QED
      BY <3>1, <3>2, <2>1
  <2>4. FreshInv'
    BY <2>1 DEF FreshInv, Started
  <2>5. QED
    BY <2>2, <2>3, <2>4 DEF ReadInv
<1>15. CASE BuildGroup
  <2>1. phase' = "done" /\ UNCHANGED <<i, sampled, tmp, runDir, metrics>>
    BY <1>15 DEF BuildGroup, Goto, collectorVars
  <2>2. QED
    BY <2>1, ReadStays DEF Started
<1>16. CASE Fails
  BY <1>16, ReadStays DEF Fails, collectorVars, childVars, Started
<1>17. CASE UNCHANGED vars
  BY <1>17, ReadStays DEF vars, scriptVars, collectorVars, childVars
<1>18. QED
  BY <1>1, <1>2, <1>3, <1>4, <1>5, <1>6, <1>7, <1>8, <1>9, <1>10, <1>11, <1>12, <1>13, <1>14,
     <1>15, <1>16, <1>17 DEF Next, ScriptStep

-----------------------------------------------------------------------------
\* The invariants hold at the start.
LEMMA InvInit == Init => RunningInv /\ ReadInv
<1> SUFFICES ASSUME Init PROVE RunningInv /\ ReadInv
  OBVIOUS
<1>1. RunningInv
  BY DEF Init, RunningInv
<1>2. TmpInv
  BY DEF Init, TmpInv, Empty
<1>3. FreshInv
  BY DEF Init, FreshInv, Started
<1>4. RunInv
  BY DEF Init, RunInv, Own, OwnReading, Empty
<1>5. QED
  BY <1>1, <1>2, <1>3, <1>4 DEF ReadInv

\* Every variable of the sweep scripts keeps its type, for any list of counts.
THEOREM SweepTypes == Spec => []TypeOK
BY TypeInit, TypeStep, PTL DEF Spec

\* Whatever is known of collectors and readings holds throughout.
THEOREM SweepInvariant == Spec => [](RunningInv /\ ReadInv)
<1>1. TypeOK /\ RunningInv /\ ReadInv /\ [Next]_vars => (RunningInv /\ ReadInv)'
  BY RunningStep, ReadStep
<1>2. QED
  BY <1>1, InvInit, SweepTypes, PTL DEF Spec

\* No collector is left behind by a script that has ended, nor by a point that is
\* over (stop_pcm, stop_cpu_metrics and stop_gpu_metrics before the check of rc).
THEOREM CollectorsEnd == Spec => []NoCollectorLeft
<1>1. RunningInv => NoCollectorLeft
  BY DEF RunningInv, MayRun, NoCollectorLeft
<1>2. QED
  BY <1>1, SweepInvariant, PTL

\* A run's metrics are its own collectors', with any counts repeated in any order
\* (the rm -rf and cp -a, and the headers that empty cpu.csv and gpu.csv).
THEOREM MetricsOfOwnRun == Spec => []MetricsAreOwn
<1>1. ReadInv => MetricsAreOwn
  BY DEF ReadInv, RunInv, Own, OwnReading, MetricsAreOwn
<1>2. QED
  BY <1>1, SweepInvariant, PTL

-----------------------------------------------------------------------------
\* The kinds of collector of point i that may have been started.
Begun ==
  CASE phase \in {"point", "cpu"} -> {}
    [] phase = "gpu" -> {"cpu"}
    [] phase = "pcm" -> {"cpu", "gpu"}
    [] OTHER -> Kinds

\* What a collector of point i sampled is in the directory, then in the run, until
\* it is in the run's result.
SampledInv ==
  \A x \in sampled :
    /\ x[2] <= i
    /\ x[2] = i => x[1] \in Begun
    /\ phase # "failed" =>
         IF x[2] < i \/ phase \in {"group", "done"} THEN metrics[x[2]][x[1]] = x[2]
         ELSE IF phase = "refresh" THEN runDir[i][x[1]] = i
         ELSE tmp[AgentSweep[i]][x[1]] = i

\* child_results has the points behind the script, in order.
ChildrenInv ==
  /\ children = [p \in 1..Len(children) |-> p]
  /\ Len(children) \in Nat
  /\ phase \notin {"group", "done", "failed"} => Len(children) = i - 1
  /\ phase \in {"group", "done"} => Len(children) = Len(AgentSweep)

\* The group has been made of all the points, whose results no longer change.
GroupInv ==
  \/ group = NoGroup
  \/ /\ phase = "done"
     /\ group = [published |-> TRUE, runs |-> [p \in Points |-> GroupPoint(p)],
                 points |-> SortedByAgents(AgentSweep, [p \in Points |-> GroupPoint(p)])]

GroupsInv == SampledInv /\ ChildrenInv /\ GroupInv

LEMMA GroupsInit == Init => GroupsInv
<1> SUFFICES ASSUME Init PROVE GroupsInv
  OBVIOUS
<1>1. SampledInv
  BY DEF Init, SampledInv
<1>2. ChildrenInv
  BY DEF Init, ChildrenInv
<1>3. QED
  BY <1>1, <1>2 DEF Init, GroupInv, GroupsInv

\* A step that changes none of the readings, nor where they are to be found.
LEMMA SampledStays ==
  ASSUME SampledInv, UNCHANGED <<i, sampled, tmp, runDir, metrics>>, Begun \subseteq Begun',
         phase' # "failed" => /\ phase # "failed"
                              /\ phase \in {"group", "done"} <=> phase' \in {"group", "done"}
                              /\ phase = "refresh" <=> phase' = "refresh"
  PROVE  SampledInv'
BY DEF SampledInv

\* A step that leaves children and group as they are, within the loop.
LEMMA GroupStays ==
  ASSUME ChildrenInv, GroupInv, UNCHANGED <<i, children, group, metrics>>,
         phase' = phase \/ (phase # "done" /\ phase' = "failed")
           \/ {phase, phase'} \cap {"group", "done", "failed"} = {}
  PROVE  ChildrenInv' /\ GroupInv'
<1>1. ChildrenInv'
  BY DEF ChildrenInv
<1>2. GroupInv'
  BY DEF GroupInv, GroupPoint
<1>3. QED
  BY <1>1, <1>2

\* GroupsInv over a step.
LEMMA GroupsStep == TypeOK /\ RunningInv /\ GroupsInv /\ [Next]_vars => GroupsInv'
<1> SUFFICES ASSUME TypeOK, RunningInv, SampledInv, ChildrenInv, GroupInv, [Next]_vars
             PROVE  SampledInv' /\ ChildrenInv' /\ GroupInv'
  BY DEF GroupsInv
<1>1. CASE BeginPoint
  BY <1>1, SampledStays, GroupStays DEF BeginPoint, Goto, collectorVars, childVars, Begun
<1>2. CASE StartCpu
  <2>1. /\ phase = "cpu" /\ phase' = "gpu" /\ tmp' = [tmp EXCEPT ![AgentSweep[i]]["cpu"] = 0]
        /\ UNCHANGED <<i, sampled, runDir, metrics, children, group>>
    BY <1>2 DEF StartCpu, Goto, childVars
  <2>2. \A x \in sampled : x[2] < i /\ x[2] # i /\ x[2] <= i
    BY <2>1, PointsFacts DEF SampledInv, Begun, TypeOK
  <2>3. SampledInv'
    BY <2>1, <2>2 DEF SampledInv
  <2>4. QED
    BY <2>1, <2>3, GroupStays
<1>3. CASE StartGpu
  <2>1. /\ phase = "gpu" /\ phase' = "pcm" /\ tmp' = [tmp EXCEPT ![AgentSweep[i]]["gpu"] = 0]
        /\ UNCHANGED <<i, sampled, runDir, metrics, children, group>>
    BY <1>3 DEF StartGpu, Goto, childVars
  <2>2. \A x \in sampled : x[2] < i \/ (x[2] = i /\ x[1] = "cpu")
    BY <2>1, PointsFacts DEF SampledInv, Begun, TypeOK
  <2>3. tmp'[AgentSweep[i]]["cpu"] = tmp[AgentSweep[i]]["cpu"]
    BY <2>1, PointsFacts DEF TypeOK, Readings, Kinds
  <2>4. SampledInv'
    BY <2>1, <2>2, <2>3 DEF SampledInv, Begun
  <2>5. QED
    BY <2>1, <2>4, GroupStays
<1>4. CASE StartPcm
  BY <1>4, SampledStays, GroupStays DEF StartPcm, Goto, childVars, Begun, Kinds
<1>5. CASE Sample
  <2>1. PICK x \in running \ sampled :
          /\ sampled' = sampled \cup {x}
          /\ tmp' = [tmp EXCEPT ![AgentSweep[x[2]]][x[1]] = x[2]]
    BY <1>5 DEF Sample
  <2>2. UNCHANGED <<phase, i, runDir, metrics, children, group>>
    BY <1>5 DEF Sample, scriptVars, childVars
  <2>3. x = <<x[1], i>> /\ x[1] \in Kinds /\ x[2] = i /\ x[1] \in MayRun
    BY DEF TypeOK, RunningInv
  <2>4. /\ x[1] \in Begun
        /\ phase \notin {"group", "done", "failed", "refresh"}
    BY <2>3 DEF MayRun, Begun
  <2>5. /\ tmp'[AgentSweep[i]][x[1]] = i
        /\ \A k \in Kinds \ {x[1]} : tmp'[AgentSweep[i]][k] = tmp[AgentSweep[i]][k]
    BY <2>1, <2>3, PointsFacts DEF TypeOK, Readings
  <2>6. ASSUME NEW y \in sampled, y[2] = i PROVE tmp'[AgentSweep[i]][y[1]] = i
    <3>1. y[1] \in Kinds
      BY DEF TypeOK
    <3>2. tmp[AgentSweep[i]][y[1]] = i
      BY <2>4, <2>6, PointsFacts DEF SampledInv, TypeOK
    <3>3. QED
      BY <2>5, <3>1, <3>2
  <2>7. SampledInv'
    <3> SUFFICES ASSUME NEW y \in sampled'
                 PROVE  /\ y[2] <= i
                        /\ y[2] = i => y[1] \in Begun
                        /\ IF y[2] < i THEN metrics[y[2]][y[1]] = y[2]
                           ELSE tmp'[AgentSweep[i]][y[1]] = i
      BY <2>2, <2>4 DEF SampledInv, Begun
    <3>1. i \in Nat
      BY PointsFacts DEF TypeOK
    <3>2. CASE y = x
      BY <2>3, <2>4, <2>5, <3>1, <3>2
    <3>3. CASE y \in sampled
      <4>1. y[2] \in Nat
        BY <3>3, PointsFacts DEF TypeOK
      <4>2. y[2] <= i /\ (y[2] = i => y[1] \in Begun) /\ (y[2] < i => metrics[y[2]][y[1]] = y[2])
        BY <2>4, <3>3 DEF SampledInv
      <4>3. QED
        BY <2>6, <3>1, <3>3, <4>1, <4>2
    <3>4. QED
      BY <2>1, <3>2, <3>3
  <2>8. QED
    BY <2>2, <2>7, GroupStays
<1>6. CASE \E k \in {"gpu", "pcm"} : CollectorEnds(k)
  BY <1>6, SampledStays, GroupStays DEF CollectorEnds, scriptVars, childVars, Begun
<1>7. CASE \E b \in BOOLEAN : RunEnds(b)
  BY <1>7, SampledStays, GroupStays DEF RunEnds, collectorVars, childVars, Begun
<1>8. CASE StopPcm
  BY <1>8, SampledStays, GroupStays DEF StopPcm, childVars, Begun
<1>9. CASE WaitPcm
  BY <1>9, SampledStays, GroupStays DEF WaitPcm, Goto, collectorVars, childVars, Begun
<1>10. CASE StopCpu
  BY <1>10, SampledStays, GroupStays DEF StopCpu, Goto, childVars, Begun
<1>11. CASE StopGpu
  BY <1>11, SampledStays, GroupStays DEF StopGpu, Goto, childVars, Begun
<1>12. CASE CheckRc
  BY <1>12, SampledStays, GroupStays DEF CheckRc, collectorVars, childVars, Begun
<1>13. CASE MoveMetrics
  <2>1. /\ phase = "move" /\ phase' = "refresh"
        /\ runDir' = [runDir EXCEPT ![i] = tmp[AgentSweep[i]]]
        /\ UNCHANGED <<i, sampled, tmp, metrics, children, group>>
    BY <1>13 DEF MoveMetrics, Goto, collectorVars
  <2>2. runDir'[i] = tmp[AgentSweep[i]]
    BY <2>1 DEF TypeOK
  <2>3. SampledInv'
    BY <2>1, <2>2 DEF SampledInv, Begun
  <2>4. QED
    BY <2>1, <2>3, GroupStays
<1>14. CASE Refresh
  <2>1. /\ phase = "refresh" /\ metrics' = [metrics EXCEPT ![i] = runDir[i]]
        /\ children' = Append(children, i)
        /\ \/ i < Len(AgentSweep) /\ phase' = "point" /\ i' = i + 1
           \/ i = Len(AgentSweep) /\ phase' = "group" /\ i' = i
        /\ UNCHANGED <<sampled, tmp, runDir, group>>
    BY <1>14, PointsFacts DEF Refresh, NextPoint, collectorVars, TypeOK
  <2>2. i \in Nat /\ i \in Points /\ Len(AgentSweep) \in Nat
    BY PointsFacts DEF TypeOK
  <2>3. ASSUME NEW x \in sampled PROVE metrics'[x[2]][x[1]] = x[2] /\ x[2] <= i /\ x[2] \in Nat
    <3>1. x[2] \in Points /\ x[2] \in Nat /\ x[2] <= i
      BY PointsFacts DEF TypeOK, SampledInv
    <3>2. CASE x[2] = i
      <4>1. runDir[i][x[1]] = i
        BY <2>1, <2>2, <3>2 DEF SampledInv
      <4>2. metrics'[i] = runDir[i]
        BY <2>1, <2>2 DEF TypeOK
      <4>3. QED
        BY <3>1, <3>2, <4>1, <4>2
    <3>3. CASE x[2] < i
      <4>1. metrics[x[2]][x[1]] = x[2]
        BY <2>1, <3>3 DEF SampledInv
      <4>2. metrics'[x[2]] = metrics[x[2]]
        BY <2>1, <2>2, <3>1, <3>3 DEF TypeOK
      <4>3. QED
        BY <3>1, <4>1, <4>2
    <3>4. QED
      BY <2>2, <3>1, <3>2, <3>3
  <2>4. SampledInv'
    <3>1. CASE i < Len(AgentSweep)
      <4>1. phase' = "point" /\ i' = i + 1
        BY <2>1, <2>2, <3>1
      <4>2. \A x \in sampled : x[2] < i' /\ x[2] # i' /\ x[2] <= i'
        BY <2>2, <2>3, <4>1
      <4>3. QED
        BY <2>1, <2>3, <4>1, <4>2 DEF SampledInv
    <3>2. CASE i = Len(AgentSweep)
      <4>1. phase' = "group" /\ i' = i
        BY <2>1, <2>2, <3>2
      <4>2. Begun' = Kinds
        BY <4>1 DEF Begun
      <4>3. \A x \in sampled : x[1] \in Kinds
        BY DEF TypeOK
      <4>4. QED
        BY <2>1, <2>3, <4>1, <4>2, <4>3 DEF SampledInv
    <3>3. QED
      BY <2>1, <3>1, <3>2
  <2>5. ChildrenInv'
    <3>1. Len(children) = i - 1 /\ children \in Seq(Nat)
      <4>1. Len(children) = i - 1
        BY <2>1 DEF ChildrenInv
      <4>2. children = [p \in 1..(i - 1) |-> p] /\ i - 1 \in Nat
        BY <2>2, <4>1, PointsFacts DEF ChildrenInv
      <4>3. QED
        BY <4>1, <4>2
    <3>2. Len(children') = i /\ children' = [p \in 1..i |-> p]
      <4>1. /\ children' \in Seq(Nat) /\ Len(children') = i
            /\ \A p \in 1..i : children'[p] = IF p = i THEN i ELSE children[p]
        BY <2>1, <2>2, <3>1, AppendProperties
      <4>2. \A p \in 1..i : children'[p] = p
        BY <2>2, <3>1, <4>1 DEF ChildrenInv
      <4>3. QED
        BY <4>1, <4>2
    <3>3. QED
      BY <2>1, <2>2, <3>2 DEF ChildrenInv
  <2>6. GroupInv'
    BY <2>1 DEF GroupInv
  <2>7. QED
    BY <2>4, <2>5, <2>6
<1>15. CASE BuildGroup
  <2>1. /\ phase = "group" /\ phase' = "done"
        /\ UNCHANGED <<i, sampled, tmp, runDir, metrics, children>>
    BY <1>15 DEF BuildGroup, Goto, collectorVars
  <2>2. SampledInv'
    BY <2>1, SampledStays DEF Begun
  <2>3. ChildrenInv'
    BY <2>1 DEF ChildrenInv
  <2>4. children = [p \in Points |-> p]
    BY <2>1, PointsFacts DEF ChildrenInv
  <2> DEFINE rows == [p \in Points |-> GroupPoint(p)]
  <2>5. [n \in DOMAIN children |-> GroupPoint(children[n])] = rows
    <3>1. DOMAIN children = Points /\ \A n \in Points : children[n] = n
      BY <2>4
    <3>2. QED
      BY <3>1
  <2>6. [n \in DOMAIN rows |-> rows[n].agents] = AgentSweep
    <3>1. \A n \in Points : rows[n].agents = AgentSweep[n]
      BY DEF GroupPoint
    <3>2. AgentSweep = [n \in Points |-> AgentSweep[n]]
      BY PointsFacts, SweepAssumption
    <3>3. QED
      <4>1. DOMAIN rows = Points
        OBVIOUS
      <4>2. QED
        <5> HIDE DEF rows
        <5> QED BY <3>1, <3>2, <4>1
  <2>7. group' = [published |-> TRUE, runs |-> rows, points |-> SortedByAgents(AgentSweep, rows)]
    <3>1. group' = [published |-> TRUE, runs |-> rows,
                    points |-> SortedByAgents([n \in DOMAIN rows |-> rows[n].agents], rows)]
      <4> DEFINE runs2 == [n \in DOMAIN children |-> GroupPoint(children[n])]
      <4>1. group' = [published |-> TRUE, runs |-> runs2,
                      points |-> SortedByAgents([n \in DOMAIN runs2 |-> runs2[n].agents], runs2)]
        BY <1>15 DEF BuildGroup
      <4>2. runs2 = rows
        BY <2>5
      <4>3. QED
        <5> HIDE DEF runs2, rows
        <5> QED BY <4>1, <4>2
    <3>2. QED
      <4> HIDE DEF rows
      <4> QED BY <2>6, <3>1
  <2>8. GroupInv'
    <3>1. rows' = rows
      BY <2>1 DEF GroupPoint
    <3>2. QED
      <4>1. group' = [published |-> TRUE, runs |-> rows', points |-> SortedByAgents(AgentSweep, rows')]
        <5> HIDE DEF rows
        <5> QED BY <2>7, <3>1
      <4>2. QED
        BY <2>1, <4>1 DEF GroupInv
  <2>9. QED
    BY <2>2, <2>3, <2>8
<1>16. CASE Fails
  BY <1>16, SampledStays, GroupStays DEF Fails, collectorVars, childVars, Begun
<1>17. CASE UNCHANGED vars
  BY <1>17, SampledStays, GroupStays DEF vars, scriptVars, collectorVars, childVars, Begun
<1>18. QED
  BY <1>1, <1>2, <1>3, <1>4, <1>5, <1>6, <1>7, <1>8, <1>9, <1>10, <1>11, <1>12, <1>13, <1>14,
     <1>15, <1>16, <1>17 DEF Next, ScriptStep

\* Samples, children and group go together throughout.
THEOREM GroupInvariant == Spec => []GroupsInv
<1>1. TypeOK /\ RunningInv /\ GroupsInv /\ [Next]_vars => GroupsInv'
  BY GroupsStep
<1>2. QED
  BY <1>1, GroupsInit, SweepTypes, SweepInvariant, PTL DEF Spec

\* build_sweep_from_child_runs: nothing that a collector sampled is missing from the
\* points of the group, and they are all there and in order.
THEOREM GroupTells == Spec => []GroupTellsSamples
<1>1. TypeOK /\ GroupsInv => GroupTellsSamples
  <2> SUFFICES ASSUME TypeOK, GroupsInv, group.published PROVE GroupTellsSamples
    BY DEF GroupTellsSamples
  <2> DEFINE rows == [p \in Points |-> GroupPoint(p)]
             N == Len(AgentSweep)
             place(p) == RowAt(AgentSweep, p)
  <2>1. /\ phase = "done" /\ group.runs = rows /\ group.points = SortedByAgents(AgentSweep, rows)
    BY DEF GroupsInv, GroupInv, NoGroup
  <2>2. N \in Nat /\ AgentSweep \in [1..N -> Nat] /\ Points = 1..N
    BY PointsFacts, SweepAssumption
  <2>3. /\ \A p \in 1..N : place(p) \in 1..N
        /\ \A n \in 1..N : \E p \in 1..N : place(p) = n
        /\ \A p, q \in 1..N : p <= q => AgentSweep[place(p)] <= AgentSweep[place(q)]
    <3> HIDE DEF N
    <3> QED BY <2>2, RowsAtPlaces
  <2>4. /\ DOMAIN group.points = 1..N
        /\ \A p \in 1..N : group.points[p] = rows[place(p)]
    <3>1. DOMAIN rows = 1..N
      BY <2>2
    <3>2. QED
      <4> HIDE DEF rows, N
      <4> QED BY <2>1, <3>1 DEF SortedByAgents
  <2>5. \A n \in 1..N : rows[n].run = n /\ rows[n].agents = AgentSweep[n]
                          /\ rows[n].metrics = metrics[n]
    BY <2>2 DEF GroupPoint
  <2>6. [n \in DOMAIN group.runs |-> group.runs[n].run] = [n \in Points |-> n]
    <3>1. DOMAIN rows = Points
      OBVIOUS
    <3>2. QED
      <4> HIDE DEF rows, N
      <4> QED BY <2>1, <2>2, <2>5, <3>1
  <2>7. \A m, n \in DOMAIN group.points :
          m <= n => group.points[m].agents <= group.points[n].agents
    <3> SUFFICES ASSUME NEW m \in 1..N, NEW n \in 1..N, m <= n
                 PROVE  group.points[m].agents <= group.points[n].agents
      BY <2>4
    <3>1. /\ place(m) \in 1..N /\ place(n) \in 1..N
          /\ AgentSweep[place(m)] <= AgentSweep[place(n)]
      <4> HIDE DEF N, place
      <4> QED BY <2>3
    <3>2. /\ group.points[m].agents = AgentSweep[place(m)]
          /\ group.points[n].agents = AgentSweep[place(n)]
      <4> HIDE DEF rows, N, place
      <4> QED BY <2>4, <2>5, <3>1
    <3>3. QED
      BY <3>1, <3>2
  <2>8. ASSUME NEW x \in sampled
        PROVE  \E n \in DOMAIN group.points :
                 group.points[n].run = x[2] /\ group.points[n].metrics[x[1]] = x[2]
    <3>1. x[2] \in 1..N /\ metrics[x[2]][x[1]] = x[2]
      BY <2>1, <2>2 DEF GroupsInv, SampledInv, TypeOK
    <3>2. PICK n \in 1..N : place(n) = x[2]
      BY <2>3, <3>1
    <3>3. group.points[n].run = x[2] /\ group.points[n].metrics = metrics[x[2]]
      <4> HIDE DEF rows, N, place
      <4> QED BY <2>4, <2>5, <3>1, <3>2
    <3>4. QED
      BY <2>4, <3>1, <3>3
  <2>9. QED
    BY <2>6, <2>7, <2>8 DEF GroupTellsSamples
<1>2. QED
  BY <1>1, SweepTypes, GroupInvariant, PTL

-----------------------------------------------------------------------------
\* Where the loops of TeamSweep are: behind the last context length they are at
\* the first agent count and repeat again.
LoopInv ==
  /\ c \in 1..(Len(ContextLengths) + 1) /\ a \in 1..Len(AgentCounts) /\ r \in 1..Repeats
  /\ c = Len(ContextLengths) + 1 => a = 1 /\ r = 1
  /\ at = "child" => c <= Len(ContextLengths)
  /\ at = "done" => c > Len(ContextLengths)

GridCase(j, k, q) == [context |-> ContextLengths[j], agents |-> AgentCounts[k], repeat |-> q]

\* There is a row for each combination the loops have behind them, at its place.
PlaceInv ==
  /\ Len(results) = Place(c, a, r) - 1
  /\ \A j \in DOMAIN ContextLengths, k \in DOMAIN AgentCounts, q \in 1..Repeats :
       Place(j, k, q) <= Len(results) => results[Place(j, k, q)].case = GridCase(j, k, q)

\* What a row tells of its child.
RowInv ==
  /\ results \in Seq(Results) /\ runs = results
  /\ \A k \in DOMAIN results :
       results[k].verified + results[k].failed = results[k].case.agents

\* The agents of the first counts.
AgentsTo(m) == SumFunction([k \in 1..m |-> AgentCounts[k]])

IssuesOf(rows) == SumFunction([k \in DOMAIN rows |-> rows[k].verified + rows[k].failed])

\* The rows have the issues of all agents that the loops have behind them.
IssuesInv ==
  IssuesOf(results) =
    (c - 1) * (Repeats * AgentsTo(Len(AgentCounts))) + Repeats * AgentsTo(a - 1)
      + (r - 1) * AgentCounts[a]

ErrorsInv ==
  /\ errors \in Seq({ x.case : x \in Results })
  /\ Len(errors) = ErrorsBefore(Len(results) + 1)
  /\ \A k \in DOMAIN results : \A e \in 1..results[k].errors :
       /\ ErrorsBefore(k) + e \in 1..Len(errors)
       /\ errors[ErrorsBefore(k) + e] = results[k].case
  /\ \A n \in 1..Len(errors) : \E k \in DOMAIN results : errors[n] = results[k].case

ResultInv ==
  \/ groupResult = NoResult
  \/ /\ at = "done"
     /\ groupResult =
          [published |-> TRUE, summary |-> Summary, runs |-> runs, errors |-> errors,
           points |-> SortedByAgents([k \in DOMAIN runs |-> runs[k].case.agents], runs)]

GridInv ==
  at \in {"idle", "child", "done", "crashed"} /\ LoopInv /\ PlaceInv /\ RowInv /\ IssuesInv
    /\ ErrorsInv /\ ResultInv

-----------------------------------------------------------------------------
\* Numbers with digits: blocks of M, and a position in the block.
LEMMA BlocksUnique ==
  ASSUME NEW M \in Nat \ {0}, NEW x \in Nat, NEW z \in Nat, NEW y \in 1..M, NEW w \in 1..M,
         x * M + y = z * M + w
  PROVE  x = z /\ y = w
<1>1. ASSUME NEW u \in Nat, NEW v \in Nat, u < v PROVE u * M + M <= v * M
  <2> DEFINE d == v - u - 1
  <2>1. d \in Nat /\ v = u + 1 + d
    BY <1>1
  <2>2. v * M = u * M + M + d * M /\ d * M \in Nat
    <3> HIDE DEF d
    <3> QED BY <2>1
  <2>3. u * M \in Nat
    OBVIOUS
  <2>4. QED
    <3> HIDE DEF d
    <3> QED BY <2>2, <2>3
<1>2. x * M \in Nat /\ z * M \in Nat
  OBVIOUS
<1>3. ~(x < z)
  <2> SUFFICES ASSUME x < z PROVE FALSE
    OBVIOUS
  <2>1. x * M + M <= z * M
    BY <1>1
  <2>2. QED
    BY <1>2, <2>1
<1>4. ~(z < x)
  <2> SUFFICES ASSUME z < x PROVE FALSE
    OBVIOUS
  <2>1. z * M + M <= x * M
    BY <1>1
  <2>2. QED
    BY <1>2, <2>1
<1>5. QED
  BY <1>2, <1>3, <1>4

LEMMA BlockWithin ==
  ASSUME NEW M \in Nat \ {0}, NEW X \in Nat, NEW x \in 0..(X - 1), NEW y \in 1..M
  PROVE  x * M + y \in 1..(X * M)
<1> DEFINE d == X - x - 1
<1>1. d \in Nat /\ X = x + 1 + d
  OBVIOUS
<1>2. X * M = x * M + M + d * M /\ d * M \in Nat
  <2> HIDE DEF d
  <2> QED BY <1>1
<1>3. x * M \in Nat
  OBVIOUS
<1>4. QED
  <2> HIDE DEF d
  <2> QED BY <1>2, <1>3

\* The lists of the sweep.
LEMMA GridFacts ==
  /\ Len(ContextLengths) \in Nat \ {0} /\ Len(AgentCounts) \in Nat \ {0}
  /\ Repeats \in Nat \ {0}
  /\ DOMAIN ContextLengths = 1..Len(ContextLengths)
  /\ DOMAIN AgentCounts = 1..Len(AgentCounts)
  /\ \A k \in 1..Len(AgentCounts) : AgentCounts[k] \in Nat \ {0}
  /\ \A j \in 1..Len(ContextLengths) : ContextLengths[j] \in Range(ContextLengths)
  /\ \A k \in 1..Len(AgentCounts) : AgentCounts[k] \in Range(AgentCounts)
<1>1. /\ Len(ContextLengths) \in Nat /\ Len(AgentCounts) \in Nat /\ Repeats \in Nat \ {0}
      /\ DOMAIN ContextLengths = 1..Len(ContextLengths)
      /\ DOMAIN AgentCounts = 1..Len(AgentCounts)
  BY GridAssumption
<1>2. Len(ContextLengths) # 0 /\ Len(AgentCounts) # 0
  BY GridAssumption
<1>3. \A k \in 1..Len(AgentCounts) : AgentCounts[k] \in Nat \ {0}
  BY GridAssumption
<1>4. /\ \A j \in 1..Len(ContextLengths) : ContextLengths[j] \in Range(ContextLengths)
      /\ \A k \in 1..Len(AgentCounts) : AgentCounts[k] \in Range(AgentCounts)
  BY <1>1 DEF Range
<1>5. QED
  BY <1>1, <1>2, <1>3, <1>4

\* Each combination has a place of its own, within the grid.
LEMMA PlacesDiffer ==
  ASSUME NEW j \in Nat \ {0}, NEW k \in DOMAIN AgentCounts, NEW q \in 1..Repeats,
         NEW l \in Nat \ {0}, NEW m \in DOMAIN AgentCounts, NEW o \in 1..Repeats,
         Place(j, k, q) = Place(l, m, o)
  PROVE  j = l /\ k = m /\ q = o
<1> DEFINE A == Len(AgentCounts)
           x == (j - 1) * A + (k - 1)
           z == (l - 1) * A + (m - 1)
<1>1. A \in Nat \ {0} /\ Repeats \in Nat \ {0} /\ k \in 1..A /\ m \in 1..A
  BY GridFacts
<1>2. x \in Nat /\ z \in Nat
  <2> HIDE DEF A
  <2>1. (j - 1) * A \in Nat /\ (l - 1) * A \in Nat
    BY <1>1
  <2>2. QED
    BY <1>1, <2>1
<1>3. x * Repeats + q = z * Repeats + o
  BY DEF Place
<1>4. x = z /\ q = o
  <2> HIDE DEF x, z
  <2> QED BY <1>1, <1>2, <1>3, BlocksUnique
<1>5. (j - 1) * A + k = (l - 1) * A + m
  <2> HIDE DEF A
  <2>1. (j - 1) * A \in Nat /\ (l - 1) * A \in Nat
    BY <1>1
  <2>2. QED
    BY <1>1, <1>4, <2>1
<1>6. j - 1 = l - 1 /\ k = m
  <2> HIDE DEF A
  <2> QED BY <1>1, <1>5, BlocksUnique
<1>7. QED
  BY <1>4, <1>6

LEMMA PlaceWithin ==
  ASSUME NEW l \in Nat, NEW j \in 1..l, NEW k \in DOMAIN AgentCounts, NEW q \in 1..Repeats
  PROVE  Place(j, k, q) \in 1..(l * Len(AgentCounts) * Repeats)
<1> DEFINE A == Len(AgentCounts)
           x == (j - 1) * A + (k - 1)
<1>1. A \in Nat \ {0} /\ Repeats \in Nat \ {0} /\ k \in 1..A
  BY GridFacts
<1>2. (j - 1) * A + k \in 1..(l * A)
  <2> HIDE DEF A
  <2>1. j - 1 \in 0..(l - 1)
    OBVIOUS
  <2>2. QED
    BY <1>1, <2>1, BlockWithin
<1>3. (j - 1) * A \in Nat /\ l * A \in Nat
  <2> HIDE DEF A
  <2> QED BY <1>1
<1>4. x \in 0..(l * A - 1)
  <2> HIDE DEF A
  <2> QED BY <1>1, <1>2, <1>3
<1>5. x * Repeats + q \in 1..((l * A) * Repeats)
  <2> HIDE DEF A, x
  <2> QED BY <1>1, <1>3, <1>4, BlockWithin
<1>6. QED
  BY <1>5 DEF Place

\* A step of the loops goes to the next place.
LEMMA NextPlace ==
  ASSUME LoopInv, c <= Len(ContextLengths), NextCase
  PROVE  /\ Place(c, a, r)' = Place(c, a, r) + 1
         /\ c' \in 1..(Len(ContextLengths) + 1) /\ a' \in 1..Len(AgentCounts) /\ r' \in 1..Repeats
         /\ c' = Len(ContextLengths) + 1 => a' = 1 /\ r' = 1
<1> DEFINE A == Len(AgentCounts)
<1>1. /\ A \in Nat \ {0} /\ Repeats \in Nat \ {0} /\ Len(ContextLengths) \in Nat
      /\ c \in Nat \ {0} /\ a \in 1..A /\ r \in 1..Repeats
  BY GridFacts DEF LoopInv
<1>2. Place(c, a, r)' = ((c' - 1) * A + (a' - 1)) * Repeats + r'
  BY DEF Place
<1>3. Place(c, a, r) = ((c - 1) * A + (a - 1)) * Repeats + r
  BY DEF Place
<1> HIDE DEF A
<1>4. CASE r < Repeats
  <2>1. c' = c /\ a' = a /\ r' = r + 1
    BY <1>1, <1>4 DEF NextCase
  <2> DEFINE x == ((c - 1) * A + (a - 1)) * Repeats
  <2>2. Place(c, a, r)' = x + (r + 1) /\ Place(c, a, r) = x + r /\ x \in Int
    BY <1>1, <1>2, <1>3, <2>1
  <2>3. QED
    <3> HIDE DEF x
    <3> QED BY <1>1, <1>4, <2>1, <2>2 DEF LoopInv
<1>5. CASE r = Repeats /\ a < A
  <2>1. c' = c /\ a' = a + 1 /\ r' = 1
    BY <1>1, <1>5 DEF NextCase, A
  <2> DEFINE x == (c - 1) * A + (a - 1)
  <2>2. x \in Int /\ (c - 1) * A + ((a + 1) - 1) = x + 1
    BY <1>1
  <2>3. Place(c, a, r)' = (x + 1) * Repeats + 1 /\ Place(c, a, r) = x * Repeats + Repeats
    BY <1>2, <1>3, <1>5, <2>1, <2>2
  <2>4. (x + 1) * Repeats = x * Repeats + Repeats /\ x * Repeats \in Int
    <3> HIDE DEF x
    <3> QED BY <1>1, <2>2
  <2>5. Place(c, a, r)' = Place(c, a, r) + 1
    <3> HIDE DEF x
    <3> QED BY <1>1, <2>3, <2>4
  <2>6. a' \in 1..A /\ r' \in 1..Repeats
    BY <1>1, <1>5, <2>1
  <2>7. QED
    BY <1>1, <2>1, <2>5, <2>6 DEF LoopInv, A
<1>6. CASE r = Repeats /\ a = A
  <2>1. c' = c + 1 /\ a' = 1 /\ r' = 1
    BY <1>1, <1>6 DEF NextCase, A
  <2> DEFINE x == (c - 1) * A + (A - 1)
  <2>2. x \in Int /\ ((c + 1) - 1) * A + (1 - 1) = x + 1
    BY <1>1
  <2>3. Place(c, a, r)' = (x + 1) * Repeats + 1 /\ Place(c, a, r) = x * Repeats + Repeats
    BY <1>2, <1>3, <1>6, <2>1, <2>2
  <2>4. (x + 1) * Repeats = x * Repeats + Repeats /\ x * Repeats \in Int
    <3> HIDE DEF x
    <3> QED BY <1>1, <2>2
  <2>5. Place(c, a, r)' = Place(c, a, r) + 1
    <3> HIDE DEF x
    <3> QED BY <1>1, <2>3, <2>4
  <2>6. c' \in 1..(Len(ContextLengths) + 1)
    BY <1>1, <2>1
  <2>7. 1 \in 1..A /\ 1 \in 1..Repeats
    BY <1>1
  <2>8. QED
    BY <2>1, <2>5, <2>6, <2>7 DEF A
<1>7. QED
  BY <1>1, <1>4, <1>5, <1>6

\* The agents of one count more.
LEMMA AgentsToNext ==
  /\ AgentsTo(0) = 0
  /\ \A m \in 0..Len(AgentCounts) : AgentsTo(m) \in Nat
  /\ \A m \in 1..Len(AgentCounts) : AgentsTo(m) = AgentsTo(m - 1) + AgentCounts[m]
  /\ AgentsTo(Len(AgentCounts)) = SumFunction(AgentCounts)
<1>1. AgentsTo(0) = 0
  <2>1. 1..0 = {}
    OBVIOUS
  <2>2. SumFunctionOnSet([k \in 1..0 |-> AgentCounts[k]], {}) = 0
    BY SumEquation, FS_EmptySet
  <2>3. QED
    BY <2>1, <2>2 DEF AgentsTo, SumFunction
<1>2. ASSUME NEW m \in 0..Len(AgentCounts) PROVE AgentsTo(m) \in Nat
  <2> DEFINE f == [k \in 1..m |-> AgentCounts[k]]
  <2>1. m \in Nat /\ \A k \in 1..m : AgentCounts[k] \in Nat
    BY GridFacts
  <2>2. IsFiniteSet(1..m) /\ DOMAIN f = 1..m /\ \A k \in 1..m : f[k] \in Nat
    BY <2>1, IntervalCount
  <2>3. QED
    <3>1. SumFunctionOnSet(f, 1..m) \in Nat
      <4> HIDE DEF f
      <4> QED BY <2>2, SumNat
    <3>2. QED
      BY <2>2, <3>1 DEF AgentsTo, SumFunction
<1>3. ASSUME NEW m \in 1..Len(AgentCounts)
      PROVE  AgentsTo(m) = AgentsTo(m - 1) + AgentCounts[m]
  <2> DEFINE f == [k \in 1..(m - 1) |-> AgentCounts[k]]
             g == [k \in 1..m |-> AgentCounts[k]]
             l == m - 1
  <2>1. l \in Nat /\ m = l + 1 /\ \A k \in 1..m : AgentCounts[k] \in Nat
    BY GridFacts
  <2>2. /\ DOMAIN f = 1..l /\ DOMAIN g = 1..(l + 1)
        /\ \A n \in 1..l : f[n] \in Int /\ g[n] = f[n]
        /\ g[l + 1] \in Int /\ g[l + 1] = AgentCounts[m]
    BY <2>1
  <2>3. SumFunction(g) = SumFunction(f) + g[l + 1]
    <3> HIDE DEF f, g, l
    <3> QED BY <2>1, <2>2, SumExtend
  <2>4. QED
    BY <2>2, <2>3 DEF AgentsTo
<1>4. AgentsTo(Len(AgentCounts)) = SumFunction(AgentCounts)
  <2>1. AgentCounts = [k \in 1..Len(AgentCounts) |-> AgentCounts[k]]
    BY GridFacts, GridAssumption
  <2>2. QED
    BY <2>1 DEF AgentsTo
<1>5. QED
  BY <1>1, <1>2, <1>3, <1>4

\* A row more: its issues are those of its child.
LEMMA OneRowMore ==
  ASSUME RowInv, NEW row \in Results, results' = Append(results, row),
         row.verified + row.failed = row.case.agents, runs' = results'
  PROVE  /\ RowInv'
         /\ Len(results') = Len(results) + 1 /\ Len(results) \in Nat
         /\ DOMAIN results' = 1..(Len(results) + 1) /\ DOMAIN results = 1..Len(results)
         /\ \A k \in 1..Len(results) : results'[k] = results[k]
         /\ results'[Len(results) + 1] = row
         /\ IssuesOf(results') = IssuesOf(results) + row.case.agents
<1> DEFINE N == Len(results)
<1>1. /\ results' \in Seq(Results) /\ Len(results') = N + 1 /\ N \in Nat
      /\ DOMAIN results' = 1..(N + 1) /\ DOMAIN results = 1..N
      /\ \A k \in 1..N : results'[k] = results[k]
      /\ results'[N + 1] = row
  <2>1. results \in Seq(Results)
    BY DEF RowInv
  <2>2. /\ results' \in Seq(Results) /\ Len(results') = N + 1 /\ N \in Nat
        /\ \A k \in 1..N : results'[k] = results[k]
        /\ results'[N + 1] = row
    BY <2>1, AppendProperties
  <2>3. QED
    BY <2>1, <2>2, LenProperties
<1>2. \A k \in 1..N : results[k] \in Results
  BY <1>1 DEF RowInv
<1>3. RowInv'
  <2>1. ASSUME NEW k \in 1..(N + 1)
        PROVE  results'[k].verified + results'[k].failed = results'[k].case.agents
    <3>1. k \in 1..N \/ k = N + 1
      BY <1>1
    <3>2. CASE k \in 1..N
      BY <1>1, <3>2 DEF RowInv
    <3>3. CASE k = N + 1
      BY <1>1, <3>3
    <3>4. QED
      BY <3>1, <3>2, <3>3
  <2>2. QED
    BY <1>1, <2>1 DEF RowInv
<1>4. IssuesOf(results') = IssuesOf(results) + row.case.agents
  <2> DEFINE f == [k \in DOMAIN results |-> results[k].verified + results[k].failed]
             g == [k \in DOMAIN results' |-> results'[k].verified + results'[k].failed]
  <2>1. /\ DOMAIN f = 1..N /\ DOMAIN g = 1..(N + 1)
        /\ \A n \in 1..N : f[n] \in Int /\ g[n] = f[n]
        /\ g[N + 1] \in Int /\ g[N + 1] = row.case.agents
    <3>1. \A x \in Results : x.verified + x.failed \in Int
      BY DEF Results
    <3>2. \A n \in 1..N : results'[n] = results[n] /\ n \in 1..(N + 1) /\ n \in DOMAIN results
      BY <1>1
    <3>3. \A n \in 1..N : f[n] \in Int /\ g[n] = f[n]
      BY <1>1, <1>2, <3>1, <3>2
    <3>4. N + 1 \in DOMAIN results' /\ g[N + 1] = row.case.agents
      BY <1>1
    <3>5. row.case.agents \in Int
      BY <3>1
    <3>6. QED
      BY <1>1, <3>3, <3>4, <3>5
  <2>2. SumFunction(g) = SumFunction(f) + g[N + 1]
    <3> HIDE DEF f, g, N
    <3> QED BY <1>1, <2>1, SumExtend
  <2>3. QED
    BY <2>1, <2>2 DEF IssuesOf
<1>5. QED
  BY <1>1, <1>3, <1>4

\* PlaceInv when a row comes: it stands at the place of the loops.
LEMMA PlaceStep ==
  ASSUME LoopInv, PlaceInv, RowInv, NEW row, c <= Len(ContextLengths), NextCase,
         Len(results') = Len(results) + 1, Len(results) \in Nat,
         \A k \in 1..Len(results) : results'[k] = results[k],
         results'[Len(results) + 1] = row, row.case = GridCase(c, a, r)
  PROVE  PlaceInv'
<1>1. Len(results') = Place(c, a, r)' - 1 /\ Len(results) + 1 = Place(c, a, r)
  <2>1. Place(c, a, r) \in Int
    BY GridFacts DEF Place, LoopInv
  <2>2. QED
    BY <2>1, NextPlace DEF PlaceInv
<1>2. ASSUME NEW j \in DOMAIN ContextLengths, NEW k \in DOMAIN AgentCounts, NEW q \in 1..Repeats,
             Place(j, k, q) <= Len(results')
      PROVE  results'[Place(j, k, q)].case = GridCase(j, k, q)
  <2>1. Place(j, k, q) \in Nat \ {0}
    <3>1. j \in 1..Len(ContextLengths)
      BY GridFacts
    <3>2. Place(j, k, q) \in 1..(Len(ContextLengths) * Len(AgentCounts) * Repeats)
      BY <3>1, GridFacts, PlaceWithin
    <3>3. QED
      BY <3>2
  <2>2. CASE Place(j, k, q) <= Len(results)
    BY <2>1, <2>2 DEF PlaceInv
  <2>3. CASE Place(j, k, q) = Len(results) + 1
    <3>1. j = c /\ k = a /\ q = r
      <4>1. j \in Nat \ {0} /\ c \in Nat \ {0} /\ a \in DOMAIN AgentCounts /\ r \in 1..Repeats
        BY GridFacts DEF LoopInv
      <4>2. Place(j, k, q) = Place(c, a, r)
        BY <1>1, <2>3
      <4>3. QED
        BY <4>1, <4>2, PlacesDiffer
    <3>2. QED
      BY <2>3, <3>1
  <2>4. QED
    BY <1>2, <2>1, <2>2, <2>3
<1>3. QED
  BY <1>1, <1>2 DEF PlaceInv, Place, GridCase

\* IssuesInv over the loops' step.
LEMMA IssuesStep ==
  ASSUME LoopInv, IssuesInv, c <= Len(ContextLengths), NextCase,
         IssuesOf(results') = IssuesOf(results) + AgentCounts[a]
  PROVE  IssuesInv'
<1> DEFINE A == Len(AgentCounts)
           all == Repeats * AgentsTo(A)
           here == Repeats * AgentsTo(a - 1)
           Behind(x, y, z) == (x - 1) * all + Repeats * AgentsTo(y - 1) + (z - 1) * AgentCounts[y]
<1>1. /\ A \in Nat \ {0} /\ Repeats \in Nat \ {0} /\ c \in Nat \ {0} /\ a \in 1..A /\ r \in 1..Repeats
      /\ AgentCounts[a] \in Nat /\ AgentCounts[1] \in Nat
  BY GridFacts DEF LoopInv
<1>2. /\ AgentsTo(a - 1) \in Nat /\ AgentsTo(A) \in Nat
      /\ AgentsTo(a) = AgentsTo(a - 1) + AgentCounts[a] /\ AgentsTo(0) = 0
  BY <1>1, AgentsToNext
<1>3. IssuesOf(results) = (c - 1) * all + here + (r - 1) * AgentCounts[a]
  BY DEF IssuesInv
<1>4. all \in Nat /\ here \in Nat /\ (c - 1) * all \in Nat
  <2>1. all \in Nat /\ here \in Nat
    <3> HIDE DEF A
    <3> QED BY <1>1, <1>2
  <2>2. QED
    <3> HIDE DEF all
    <3> QED BY <1>1, <2>1
<1>5. ASSUME IssuesOf(results') = Behind(c', a', r')
      PROVE  IssuesInv'
  BY <1>5 DEF IssuesInv, AgentsTo
<1>6. CASE r < Repeats
  <2>1. c' = c /\ a' = a /\ r' = r + 1
    BY <1>1, <1>6 DEF NextCase
  <2>2. (r + 1 - 1) * AgentCounts[a] = (r - 1) * AgentCounts[a] + AgentCounts[a]
          /\ (r - 1) * AgentCounts[a] \in Nat
    BY <1>1
  <2>3. IssuesOf(results') = (c - 1) * all + here + (r + 1 - 1) * AgentCounts[a]
    <3> HIDE DEF all, here
    <3> QED BY <1>1, <1>3, <1>4, <2>2
  <2>4. Behind(c, a, r + 1) = (c - 1) * all + here + (r + 1 - 1) * AgentCounts[a]
    <3>1. here = Repeats * AgentsTo(a - 1)
      OBVIOUS
    <3>2. QED
      <4> HIDE DEF all, here
      <4> QED BY <1>1, <1>2, <1>4, <2>2, <3>1
  <2>5. QED
    <3> HIDE DEF Behind, all, here
    <3> QED BY <1>5, <2>1, <2>3, <2>4
<1>7. CASE r = Repeats
  <2>1. Repeats * AgentsTo(a) = here + (r - 1) * AgentCounts[a] + AgentCounts[a]
    <3>1. Repeats * (AgentsTo(a - 1) + AgentCounts[a])
            = Repeats * AgentsTo(a - 1) + (Repeats - 1) * AgentCounts[a] + AgentCounts[a]
      BY <1>1, <1>2
    <3>2. QED
      BY <1>2, <1>7, <3>1
  <2>2. IssuesOf(results') = (c - 1) * all + Repeats * AgentsTo(a)
    <3>1. (r - 1) * AgentCounts[a] \in Nat
      BY <1>1
    <3>2. QED
      <4> HIDE DEF all, here
      <4> QED BY <1>1, <1>3, <1>4, <2>1, <3>1
  <2>3. CASE a < A
    <3>1. c' = c /\ a' = a + 1 /\ r' = 1
      BY <1>1, <1>7, <2>3 DEF NextCase
    <3>2. AgentCounts[a + 1] \in Nat /\ Repeats * AgentsTo(a) \in Nat
      <4>1. AgentsTo(a) \in Nat
        BY <1>1, <1>2
      <4>2. QED
        BY <1>1, <2>3, <4>1, GridFacts
    <3>3. IssuesOf(results') = (c - 1) * all + Repeats * AgentsTo((a + 1) - 1) + (1 - 1) * AgentCounts[a + 1]
      <4>1. (a + 1) - 1 = a /\ (1 - 1) * AgentCounts[a + 1] = 0
        BY <1>1, <3>2
      <4>2. QED
        <5> HIDE DEF all
        <5> QED BY <1>4, <2>2, <3>2, <4>1
    <3>4. IssuesOf(results') = Behind(c, a + 1, 1)
      BY <3>3
    <3>5. QED
      <4> HIDE DEF Behind
      <4> QED BY <1>5, <3>1, <3>4
  <2>4. CASE a = A
    <3>1. c' = c + 1 /\ a' = 1 /\ r' = 1
      BY <1>1, <1>7, <2>4 DEF NextCase
    <3>2. IssuesOf(results') = (c - 1) * all + all
      BY <2>2, <2>4
    <3>3. (c - 1) * all + all = ((c + 1) - 1) * all
      <4> HIDE DEF all
      <4> QED BY <1>1, <1>4
    <3>4. Repeats * AgentsTo(1 - 1) = 0 /\ (1 - 1) * AgentCounts[1] = 0
      BY <1>1, <1>2
    <3>5. IssuesOf(results') = ((c + 1) - 1) * all + Repeats * AgentsTo(1 - 1) + (1 - 1) * AgentCounts[1]
      <4>1. ((c + 1) - 1) * all \in Nat
        <5> HIDE DEF all
        <5> QED BY <1>1, <1>4
      <4>2. QED
        <5> HIDE DEF all
        <5> QED BY <3>2, <3>3, <3>4, <4>1
    <3>6. IssuesOf(results') = Behind(c + 1, 1, 1)
      BY <3>5
    <3>7. QED
      <4> HIDE DEF Behind
      <4> QED BY <1>5, <3>1, <3>6
  <2>5. QED
    BY <1>1, <2>3, <2>4
<1>8. QED
  BY <1>1, <1>6, <1>7

LEMMA SameSeq ==
  ASSUME NEW S, NEW n \in Nat, NEW x \in S
  PROVE  [e \in 1..n |-> x] \in Seq(S) /\ Len([e \in 1..n |-> x]) = n
OBVIOUS

\* The errors of a child that has come follow those of the others.
LEMMA ErrorsStep ==
  ASSUME RowInv, ErrorsInv, NEW row \in Results, results' = Append(results, row),
         Len(results') = Len(results) + 1, Len(results) \in Nat,
         DOMAIN results' = 1..(Len(results) + 1), DOMAIN results = 1..Len(results),
         \A k \in 1..Len(results) : results'[k] = results[k],
         results'[Len(results) + 1] = row,
         errors' = errors \o [e \in 1..row.errors |-> row.case]
  PROVE  ErrorsInv'
<1> DEFINE N == Len(results)
           more == [e \in 1..row.errors |-> row.case]
           Cases == { x.case : x \in Results }
           Before(k) == SumFunction([m \in 1..(k - 1) |-> results'[m].errors])
<1>1. row.errors \in Nat /\ row.case \in Cases
  BY DEF Results
<1>2. more \in Seq(Cases) /\ Len(more) = row.errors /\ \A e \in 1..row.errors : more[e] = row.case
  <2>1. \A e \in 1..row.errors : more[e] = row.case
    OBVIOUS
  <2>2. more \in Seq(Cases) /\ Len(more) = row.errors
    <3> HIDE DEF Cases
    <3> QED BY <1>1, SameSeq
  <2>3. QED
    BY <2>1, <2>2
<1>3. /\ errors' \in Seq(Cases) /\ Len(errors) \in Nat
      /\ Len(errors') = Len(errors) + row.errors
      /\ \A n \in 1..Len(errors) : errors'[n] = errors[n]
      /\ \A e \in 1..row.errors : errors'[Len(errors) + e] = row.case
  <2>1. errors \in Seq(Cases)
    BY DEF ErrorsInv
  <2>2. /\ errors \o more \in Seq(Cases) /\ Len(errors \o more) = Len(errors) + row.errors
        /\ Len(errors) \in Nat
        /\ \A n \in 1..(Len(errors) + row.errors) :
             (errors \o more)[n] = IF n <= Len(errors) THEN errors[n] ELSE more[n - Len(errors)]
    <3> HIDE DEF Cases, more
    <3> QED BY <1>2, <2>1, ConcatProperties, LenProperties
  <2>3. \A e \in 1..row.errors : (errors \o more)[Len(errors) + e] = row.case
    <3> SUFFICES ASSUME NEW e \in 1..row.errors
                 PROVE  (errors \o more)[Len(errors) + e] = row.case
      OBVIOUS
    <3>1. /\ Len(errors) + e \in 1..(Len(errors) + row.errors) /\ ~(Len(errors) + e <= Len(errors))
          /\ (Len(errors) + e) - Len(errors) = e
      BY <1>1, <2>2
    <3>2. (errors \o more)[Len(errors) + e] = more[e]
      <4> HIDE DEF more
      <4> QED BY <2>2, <3>1
    <3>3. QED
      BY <1>2, <3>2
  <2>4. QED
    <3> HIDE DEF Cases
    <3> QED BY <1>1, <2>2, <2>3
<1>4. \A x \in Results : x.errors \in Int
  BY DEF Results
<1>5. \A m \in 1..N : results[m] \in Results
  BY DEF RowInv
<1>6. ASSUME NEW k \in 1..(N + 1) PROVE Before(k) = ErrorsBefore(k)
  <2>1. \A m \in 1..(k - 1) : results'[m].errors = results[m].errors
    OBVIOUS
  <2>2. [m \in 1..(k - 1) |-> results'[m].errors] = [m \in 1..(k - 1) |-> results[m].errors]
    BY <2>1
  <2>3. QED
    BY <2>2 DEF ErrorsBefore
<1>7. Before(N + 2) = Before(N + 1) + row.errors
  <2> DEFINE f == [m \in 1..((N + 1) - 1) |-> results'[m].errors]
             g == [m \in 1..((N + 2) - 1) |-> results'[m].errors]
  <2>1. /\ DOMAIN f = 1..N /\ DOMAIN g = 1..(N + 1)
        /\ \A n \in 1..N : f[n] \in Int /\ g[n] = f[n]
        /\ g[N + 1] \in Int /\ g[N + 1] = row.errors
    <3>1. (N + 1) - 1 = N /\ (N + 2) - 1 = N + 1
      OBVIOUS
    <3>2. \A n \in 1..N : n \in 1..(N + 1) /\ results'[n].errors \in Int
      BY <1>4, <1>5
    <3>3. N + 1 \in 1..(N + 1) /\ results'[N + 1].errors = row.errors
      OBVIOUS
    <3>4. QED
      <4>1. DOMAIN f = 1..N /\ DOMAIN g = 1..(N + 1)
        BY <3>1
      <4>2. /\ \A n \in 1..N : f[n] = results'[n].errors
            /\ \A n \in 1..(N + 1) : g[n] = results'[n].errors
        BY <3>1
      <4>3. QED
        <5> HIDE DEF f, g, N, Cases
        <5>1. row.errors \in Int
          BY <1>1
        <5>2. \A n \in 1..N : f[n] \in Int /\ g[n] = f[n]
          BY <3>2, <4>2
        <5>3. g[N + 1] = row.errors
          BY <3>3, <4>2
        <5>4. QED
          BY <4>1, <5>1, <5>2, <5>3
  <2>2. SumFunction(g) = SumFunction(f) + g[N + 1]
    <3> HIDE DEF f, g
    <3> QED BY <2>1, SumExtend
  <2>3. QED
    <3>1. Before(N + 1) = SumFunction(f) /\ Before(N + 2) = SumFunction(g)
      OBVIOUS
    <3>2. QED
      <4> HIDE DEF f, g, Before
      <4> QED BY <2>1, <2>2, <3>1
<1>8. Before(N + 1) = Len(errors)
  <2>1. ErrorsBefore(N + 1) = Len(errors)
    BY DEF ErrorsInv
  <2>2. QED
    <3> HIDE DEF Before
    <3> QED BY <1>6, <2>1
<1>9. Len(errors') = Before(N + 2)
  <2> HIDE DEF Before, N
  <2> QED BY <1>3, <1>7, <1>8
<1>10. ASSUME NEW k \in 1..(N + 1), NEW e \in 1..results'[k].errors
       PROVE  /\ Before(k) + e \in 1..Len(errors')
              /\ errors'[Before(k) + e] = results'[k].case
  <2>1. CASE k \in 1..N
    <3>1. results'[k] = results[k] /\ k \in DOMAIN results
      BY <2>1
    <3>2. ErrorsBefore(k) + e \in 1..Len(errors) /\ errors[ErrorsBefore(k) + e] = results[k].case
      BY <3>1 DEF ErrorsInv
    <3>3. Before(k) = ErrorsBefore(k)
      BY <1>6
    <3>4. QED
      <4> HIDE DEF Before, N
      <4> QED BY <1>1, <1>3, <3>1, <3>2, <3>3
  <2>2. CASE k = N + 1
    <3>1. results'[k] = row /\ Before(k) = Len(errors)
      <4> HIDE DEF Before
      <4> QED BY <1>8, <2>2
    <3>2. QED
      <4> HIDE DEF Before, N
      <4> QED BY <1>1, <1>3, <3>1
  <2>3. k \in 1..N \/ k = N + 1
    OBVIOUS
  <2>4. QED
    BY <2>1, <2>2, <2>3
<1>11. /\ errors' \in Seq({ x.case : x \in Results })'
       /\ Len(errors') = ErrorsBefore(Len(results) + 1)'
  <2>1. Results' = Results
    BY DEF Results
  <2>2. ErrorsBefore(Len(results) + 1)' = Before(N + 2)
    <3>1. (Len(results) + 1)' = N + 2
      OBVIOUS
    <3>2. ErrorsBefore(Len(results) + 1)'
            = SumFunction([m \in 1..((Len(results) + 1)' - 1) |-> results'[m].errors])
      BY DEF ErrorsBefore
    <3>3. QED
      BY <3>1, <3>2
  <2>3. QED
    <3> HIDE DEF Before
    <3> QED BY <1>3, <1>9, <2>1, <2>2
<1>12. \A k \in DOMAIN results' : \A e \in 1..results'[k].errors :
         /\ ErrorsBefore(k)' + e \in 1..Len(errors')
         /\ errors'[ErrorsBefore(k)' + e] = results'[k].case
  <2>1. \A k : ErrorsBefore(k)' = Before(k)
    BY DEF ErrorsBefore
  <2>2. QED
    <3> HIDE DEF Before
    <3> QED BY <1>10, <2>1
<1>13. ASSUME NEW n \in 1..Len(errors') PROVE \E k \in 1..(N + 1) : errors'[n] = results'[k].case
  <2>1. CASE n \in 1..Len(errors)
    <3>1. PICK k \in 1..N : errors[n] = results[k].case
      BY <2>1 DEF ErrorsInv
    <3>2. k \in 1..(N + 1) /\ results'[k] = results[k]
      OBVIOUS
    <3>3. QED
      BY <1>3, <2>1, <3>1, <3>2
  <2>2. CASE n \notin 1..Len(errors)
    <3> DEFINE e == n - Len(errors)
    <3>1. e \in 1..row.errors /\ Len(errors) + e = n
      BY <1>1, <1>3, <2>2
    <3>2. errors'[n] = row.case
      <4> HIDE DEF e
      <4> QED BY <1>3, <3>1
    <3>3. N + 1 \in 1..(N + 1) /\ results'[N + 1] = row
      OBVIOUS
    <3>4. QED
      BY <3>2, <3>3
  <2>3. QED
    BY <2>1, <2>2
<1>14. QED
  BY <1>11, <1>12, <1>13 DEF ErrorsInv

LEMMA GridInitially == GridInit => GridInv
<1> SUFFICES ASSUME GridInit PROVE GridInv
  OBVIOUS
<1> DEFINE A == Len(AgentCounts)
<1>1. c = 1 /\ a = 1 /\ r = 1 /\ at = "idle" /\ results = <<>> /\ runs = <<>> /\ errors = <<>>
      /\ groupResult = NoResult
  BY DEF GridInit
<1>2. A \in Nat \ {0} /\ Repeats \in Nat \ {0} /\ AgentCounts[1] \in Nat
  BY GridFacts
<1>3. LoopInv
  BY <1>1, GridFacts DEF LoopInv
<1>4. Len(results) = 0 /\ DOMAIN results = {} /\ Len(errors) = 0
  BY <1>1
<1>5. PlaceInv
  <2>1. Place(1, 1, 1) = 1
    <3>1. (1 - 1) * A = 0
      <4> HIDE DEF A
      <4> QED BY <1>2
    <3>2. ((1 - 1) * A + (1 - 1)) * Repeats = 0
      <4> HIDE DEF A
      <4> QED BY <1>2, <3>1
    <3>3. QED
      BY <3>2 DEF Place
  <2>2. ASSUME NEW j \in DOMAIN ContextLengths, NEW k \in DOMAIN AgentCounts, NEW q \in 1..Repeats
        PROVE  Place(j, k, q) \in Nat \ {0}
    <3>1. Len(ContextLengths) \in Nat /\ j \in 1..Len(ContextLengths)
      BY GridFacts
    <3>2. Place(j, k, q) \in 1..(Len(ContextLengths) * Len(AgentCounts) * Repeats)
      BY <3>1, PlaceWithin
    <3>3. QED
      BY <3>2
  <2>3. QED
    BY <1>1, <1>4, <2>1, <2>2 DEF PlaceInv
<1>6. RowInv
  BY <1>1, <1>4 DEF RowInv
<1>7. \A f : DOMAIN f = {} => SumFunction(f) = 0
  BY SumEquation, FS_EmptySet DEF SumFunction
<1>8. IssuesInv
  <2>1. IssuesOf(results) = 0
    BY <1>4, <1>7 DEF IssuesOf
  <2>2. AgentsTo(0) = 0 /\ AgentsTo(A) \in Nat
    BY <1>2, AgentsToNext
  <2>3. (1 - 1) * (Repeats * AgentsTo(A)) = 0
    <3>1. Repeats * AgentsTo(A) \in Nat
      <4> HIDE DEF A
      <4> QED BY <1>2, <2>2
    <3>2. QED
      BY <3>1
  <2>4. Repeats * AgentsTo(1 - 1) = 0 /\ (1 - 1) * AgentCounts[1] = 0
    BY <1>2, <2>2
  <2>5. QED
    <3>1. IssuesOf(results) = (1 - 1) * (Repeats * AgentsTo(A)) + Repeats * AgentsTo(1 - 1)
            + (1 - 1) * AgentCounts[1]
      BY <2>1, <2>3, <2>4
    <3>2. QED
      BY <1>1, <3>1 DEF IssuesInv
<1>9. ErrorsInv
  <2>1. ErrorsBefore(0 + 1) = 0
    <3>1. 1..((0 + 1) - 1) = {}
      OBVIOUS
    <3>2. DOMAIN [m \in 1..((0 + 1) - 1) |-> results[m].errors] = {}
      BY <3>1
    <3>3. QED
      BY <1>7, <3>2 DEF ErrorsBefore
  <2>2. QED
    BY <1>1, <1>4, <2>1 DEF ErrorsInv
<1>10. QED
  BY <1>1, <1>3, <1>5, <1>6, <1>8, <1>9 DEF GridInv, ResultInv

\* A child's row is one of Results.
LEMMA ChildRow ==
  ASSUME LoopInv, c <= Len(ContextLengths), NEW verified \in 0..AgentCounts[a],
         NEW raised \in 0..(AgentCounts[a] - verified), NEW ofRun \in RunErrors
  PROVE  LET row == ChildResult(verified, raised, ofRun)
         IN  /\ row \in Results /\ row.case = GridCase(c, a, r)
             /\ row.verified + row.failed = row.case.agents
             /\ row.case.agents = AgentCounts[a] /\ AgentCounts[a] \in Nat
<1>1. /\ c \in 1..Len(ContextLengths) /\ a \in 1..Len(AgentCounts) /\ r \in 1..Repeats
      /\ AgentCounts[a] \in Nat
  BY GridFacts DEF LoopInv
<1>2. ContextLengths[c] \in Range(ContextLengths) /\ AgentCounts[a] \in Range(AgentCounts)
  BY <1>1, GridFacts
<1>3. /\ verified \in Nat /\ raised \in Nat /\ AgentCounts[a] - verified \in Nat
      /\ verified + (AgentCounts[a] - verified) = AgentCounts[a]
  BY <1>1
<1>4. ofRun + raised \in Nat
  BY <1>3 DEF RunErrors
<1>5. QED
  BY <1>1, <1>2, <1>3, <1>4 DEF ChildResult, Results, Case, GridCase

\* GridInv over a step.
LEMMA GridStep == GridInv /\ [GridNext]_gridVars => GridInv'
<1> SUFFICES ASSUME GridInv, [GridNext]_gridVars PROVE GridInv'
  OBVIOUS
<1>1. ASSUME UNCHANGED <<c, a, r, results, runs, errors>>, at' \in {"idle", "child", "done", "crashed"},
             at' = "child" => c <= Len(ContextLengths), at' = "done" => c > Len(ContextLengths),
             ResultInv'
      PROVE  GridInv'
  <2>1. LoopInv'
    BY <1>1 DEF GridInv, LoopInv
  <2>2. PlaceInv'
    BY <1>1 DEF GridInv, PlaceInv, Place, GridCase
  <2>3. RowInv'
    BY <1>1 DEF GridInv, RowInv, Results
  <2>4. IssuesInv'
    BY <1>1 DEF GridInv, IssuesInv, IssuesOf, AgentsTo
  <2>5. ErrorsInv'
    BY <1>1 DEF GridInv, ErrorsInv, ErrorsBefore, Results
  <2>6. QED
    BY <1>1, <2>1, <2>2, <2>3, <2>4, <2>5 DEF GridInv
<1>2. CASE StartChild
  <2>1. ResultInv'
    BY <1>2 DEF GridInv, ResultInv, StartChild, NoResult
  <2>2. QED
    BY <1>1, <1>2, <2>1 DEF StartChild, loopVars, rowVars
<1>3. CASE ChildPublishes
  <2>1. PICK verified \in 0..AgentCounts[a], ofRun \in RunErrors :
          \E raised \in 0..(AgentCounts[a] - verified) :
            results' = Append(results, ChildResult(verified, raised, ofRun))
    BY <1>3 DEF ChildPublishes
  <2>2. PICK raised \in 0..(AgentCounts[a] - verified) :
          results' = Append(results, ChildResult(verified, raised, ofRun))
    BY <2>1
  <2> DEFINE row == ChildResult(verified, raised, ofRun)
  <2>3. /\ at = "child" /\ at' = "idle" /\ groupResult' = groupResult /\ NextCase
        /\ runs' = Append(runs, Last(results')) /\ AddErrors(Last(runs'))
    BY <1>3 DEF ChildPublishes
  <2>4. c <= Len(ContextLengths) /\ LoopInv /\ PlaceInv /\ RowInv /\ IssuesInv /\ ErrorsInv
    BY <2>3 DEF GridInv, LoopInv
  <2>5. /\ row \in Results /\ row.case = GridCase(c, a, r)
        /\ row.verified + row.failed = row.case.agents
        /\ row.case.agents = AgentCounts[a] /\ AgentCounts[a] \in Nat
    BY <2>4, ChildRow
  <2>6. results' = Append(results, row)
    BY <2>2
  <2> HIDE DEF row
  <2>7. Last(results') = row /\ runs' = results' /\ Last(runs') = row
    <3>1. results \in Seq(Results)
      BY <2>4 DEF RowInv
    <3>2. Len(results') = Len(results) + 1 /\ results'[Len(results) + 1] = row
      BY <2>5, <2>6, <3>1, AppendProperties
    <3>3. Last(results') = row
      BY <3>2 DEF Last
    <3>4. runs' = results'
      BY <2>3, <2>4, <2>6, <3>3 DEF RowInv
    <3>5. QED
      BY <3>3, <3>4
  <2>8. /\ RowInv'
        /\ Len(results') = Len(results) + 1 /\ Len(results) \in Nat
        /\ DOMAIN results' = 1..(Len(results) + 1) /\ DOMAIN results = 1..Len(results)
        /\ \A k \in 1..Len(results) : results'[k] = results[k]
        /\ results'[Len(results) + 1] = row
        /\ IssuesOf(results') = IssuesOf(results) + AgentCounts[a]
    BY <2>4, <2>5, <2>6, <2>7, OneRowMore
  <2>9. LoopInv'
    BY <2>3, <2>4, NextPlace DEF LoopInv
  <2>10. PlaceInv'
    BY <2>3, <2>4, <2>5, <2>8, PlaceStep
  <2>11. IssuesInv'
    BY <2>3, <2>4, <2>8, IssuesStep
  <2>12. ErrorsInv'
    <3>1. errors' = errors \o [e \in 1..row.errors |-> row.case]
      BY <2>3, <2>7 DEF AddErrors
    <3>2. QED
      BY <2>4, <2>5, <2>6, <2>8, <3>1, ErrorsStep
  <2>13. ResultInv'
    BY <2>3 DEF GridInv, ResultInv, NoResult
  <2>14. QED
    BY <2>3, <2>8, <2>9, <2>10, <2>11, <2>12, <2>13 DEF GridInv
<1>4. CASE ChildRaises
  <2>1. ResultInv'
    BY <1>4 DEF GridInv, ResultInv, ChildRaises, NoResult
  <2>2. QED
    BY <1>1, <1>4, <2>1 DEF ChildRaises, loopVars, rowVars
<1>5. CASE PublishGroup
  <2>1. ResultInv'
    <3>1. /\ at' = "done" /\ UNCHANGED <<runs, errors>>
          /\ groupResult' =
               [published |-> TRUE, summary |-> Summary, runs |-> runs, errors |-> errors,
                points |-> SortedByAgents([k \in DOMAIN runs |-> runs[k].case.agents], runs)]
      BY <1>5 DEF PublishGroup, rowVars
    <3>2. Summary' = Summary
      BY <3>1 DEF Summary
    <3>3. QED
      BY <3>1, <3>2 DEF ResultInv
  <2>2. QED
    BY <1>1, <1>5, <2>1 DEF PublishGroup, loopVars, rowVars
<1>6. CASE UNCHANGED gridVars
  <2>1. UNCHANGED <<at, c, a, r, results, runs, errors, groupResult>>
    BY <1>6 DEF gridVars, loopVars, rowVars
  <2>2. ResultInv'
    <3>1. Summary' = Summary
      BY <2>1 DEF Summary
    <3>2. QED
      BY <2>1, <3>1 DEF GridInv, ResultInv, NoResult
  <2>3. QED
    BY <1>1, <2>1, <2>2 DEF GridInv, LoopInv
<1>7. QED
  BY <1>2, <1>3, <1>4, <1>5, <1>6 DEF GridNext, Child

\* The rows of a team sweep, their places, issues and errors, throughout.
THEOREM GridInvariant == GridSpec => []GridInv
BY GridInitially, GridStep, PTL DEF GridSpec

\* The state of TeamSweepOrchestrator.run keeps its type, and every error carries the
\* case of a child that published.
THEOREM GridTypes == GridSpec => []GridTypeOK
<1>1. GridInv => GridTypeOK
  <2> SUFFICES ASSUME GridInv PROVE GridTypeOK
    OBVIOUS
  <2>1. Range(results) \subseteq Results /\ Range(runs) \subseteq Results
    BY DEF GridInv, RowInv, Range
  <2>2. Range(errors) \subseteq { x.case : x \in Range(results) }
    <3> SUFFICES ASSUME NEW n \in DOMAIN errors
                 PROVE  errors[n] \in { x.case : x \in Range(results) }
      BY DEF Range
    <3>1. PICK k \in DOMAIN results : errors[n] = results[k].case
      BY DEF GridInv, ErrorsInv
    <3>2. results[k] \in Range(results)
      BY DEF Range
    <3>3. QED
      BY <3>1, <3>2
  <2>3. QED
    BY <2>1, <2>2 DEF GridInv, LoopInv, GridTypeOK
<1>2. QED
  BY <1>1, GridInvariant, PTL

\* How often x is among the first rows.
HowOften(N, rows, x) == Cardinality({ n \in 1..N : rows[n] = x })

\* A stable sort keeps how often each row is there.
LEMMA SortedTimes ==
  ASSUME NEW N \in Nat, NEW agents \in [1..N -> Nat], NEW rows, DOMAIN rows = 1..N, NEW x
  PROVE  /\ DOMAIN SortedByAgents(agents, rows) = 1..N
         /\ \A p \in 1..N : SortedByAgents(agents, rows)[p] = rows[RowAt(agents, p)]
         /\ HowOften(N, SortedByAgents(agents, rows), x) = HowOften(N, rows, x)
<1> DEFINE place(p) == RowAt(agents, p)
           points == SortedByAgents(agents, rows)
           P == { p \in 1..N : points[p] = x }
           R == { n \in 1..N : rows[n] = x }
           f == [p \in P |-> place(p)]
<1>1. DOMAIN points = 1..N /\ \A p \in 1..N : points[p] = rows[place(p)]
  BY DEF SortedByAgents
<1>2. /\ \A p \in 1..N : place(p) \in 1..N
      /\ \A p, q \in 1..N : place(p) = place(q) => p = q
      /\ \A n \in 1..N : \E p \in 1..N : place(p) = n
  <2>1. /\ \A p \in 1..N : RowAt(agents, p) \in 1..N
        /\ \A p, q \in 1..N : RowAt(agents, p) = RowAt(agents, q) => p = q
        /\ \A n \in 1..N : \E p \in 1..N : RowAt(agents, p) = n
    BY RowsAtPlaces
  <2>2. QED
    BY <2>1
<1> HIDE DEF points, place
<1>3. f \in Bijection(P, R)
  <2>1. \A p \in P : f[p] \in R
    BY <1>1, <1>2
  <2>2. \A p, q \in P : f[p] = f[q] => p = q
    BY <1>2
  <2>3. \A n \in R : \E p \in P : f[p] = n
    BY <1>1, <1>2
  <2>4. f \in [P -> R]
    <3> HIDE DEF P, R
    <3> QED BY <2>1
  <2>5. QED
    <3> HIDE DEF f, P, R
    <3> QED BY <2>2, <2>3, <2>4, Fun_IsBij
<1>4. IsFiniteSet(P)
  BY IntervalCount, FS_Subset
<1>5. Cardinality(P) = Cardinality(R)
  <2> HIDE DEF f, P, R
  <2> QED BY <1>3, <1>4, FS_Bijection DEF ExistsBijection
<1>6. QED
  <2>1. points = SortedByAgents(agents, rows) /\ \A p : place(p) = RowAt(agents, p)
    BY DEF points, place
  <2>2. QED
    BY <1>1, <1>5, <2>1 DEF HowOften

\* When the group is published the loops are behind their last combination.
LEMMA PublishedGrid ==
  ASSUME GridInv, groupResult.published
  PROVE  /\ groupResult =
              [published |-> TRUE, summary |-> Summary, runs |-> runs, errors |-> errors,
               points |-> SortedByAgents([k \in DOMAIN runs |-> runs[k].case.agents], runs)]
         /\ c = Len(ContextLengths) + 1 /\ a = 1 /\ r = 1
         /\ Len(results) = Len(ContextLengths) * Len(AgentCounts) * Repeats
<1>1. /\ at = "done"
      /\ groupResult =
           [published |-> TRUE, summary |-> Summary, runs |-> runs, errors |-> errors,
            points |-> SortedByAgents([k \in DOMAIN runs |-> runs[k].case.agents], runs)]
  BY DEF GridInv, ResultInv, NoResult
<1>2. c = Len(ContextLengths) + 1 /\ a = 1 /\ r = 1
  BY <1>1, GridFacts DEF GridInv, LoopInv
<1>3. Len(results) = Len(ContextLengths) * Len(AgentCounts) * Repeats
  <2> DEFINE L == Len(ContextLengths)
             A == Len(AgentCounts)
  <2>1. L \in Nat /\ A \in Nat /\ Repeats \in Nat
    BY GridFacts
  <2>2. Len(results) = (((L + 1) - 1) * A + (1 - 1)) * Repeats + 1 - 1
    <3>1. Len(results) = Place(L + 1, 1, 1) - 1
      BY <1>2 DEF GridInv, PlaceInv
    <3>2. Place(L + 1, 1, 1) = (((L + 1) - 1) * A + (1 - 1)) * Repeats + 1
      BY DEF Place
    <3>3. QED
      <4> HIDE DEF L, A
      <4> QED BY <2>1, <3>1, <3>2
  <2>3. ((L + 1) - 1) * A + (1 - 1) = L * A /\ L * A \in Nat
    <3> HIDE DEF L, A
    <3> QED BY <2>1
  <2>4. (L * A) * Repeats \in Nat
    <3> HIDE DEF L, A
    <3> QED BY <2>1, <2>3
  <2>5. QED
    <3> HIDE DEF L, A
    <3>1. Len(results) = (L * A) * Repeats + 1 - 1
      BY <2>2, <2>3
    <3>2. Len(results) = (L * A) * Repeats
      BY <2>4, <3>1
    <3>3. QED
      BY <3>2 DEF L, A
<1>4. QED
  BY <1>1, <1>2, <1>3

\* TeamSweepOrchestrator.run: the group result of a finished team sweep has a row for
\* each combination, at its place, and no other, and its points are the same rows
\* sorted by agents.
THEOREM GridCovered == GridSpec => []GroupCoversGrid
<1>1. GridInv => GroupCoversGrid
  <2> SUFFICES ASSUME GridInv, groupResult.published PROVE GroupCoversGrid
    BY DEF GroupCoversGrid
  <2> DEFINE N == Len(runs)
             agents == [k \in DOMAIN runs |-> runs[k].case.agents]
             points == groupResult.points
             Times(rows, x) == Cardinality({ n \in DOMAIN rows : rows[n] = x })
  <2>1. /\ groupResult.runs = runs /\ points = SortedByAgents(agents, runs)
        /\ N = Len(ContextLengths) * Len(AgentCounts) * Repeats
        /\ runs = results
    BY PublishedGrid DEF GridInv, RowInv
  <2>2. /\ N \in Nat /\ DOMAIN runs = 1..N /\ \A k \in 1..N : runs[k] \in Results
    BY DEF GridInv, RowInv
  <2>3. agents \in [1..N -> Nat] /\ \A k \in 1..N : agents[k] = runs[k].case.agents
    <3>1. \A k \in 1..Len(AgentCounts) : AgentCounts[k] \in Nat
      BY GridFacts
    <3>2. \A x \in Results : x.case.agents \in Nat
      BY <3>1, GridFacts DEF Results, Range
    <3>3. \A k \in 1..N : agents[k] = runs[k].case.agents /\ agents[k] \in Nat
      <4> HIDE DEF N
      <4> QED BY <2>2, <3>2
    <3>4. agents = [k \in 1..N |-> agents[k]]
      BY <2>2
    <3>5. QED
      <4> HIDE DEF agents, N
      <4> QED BY <3>3, <3>4
  <2>4. ASSUME NEW j \in DOMAIN ContextLengths, NEW k \in DOMAIN AgentCounts, NEW q \in 1..Repeats
        PROVE  runs[Place(j, k, q)].case = GridCase(j, k, q)
    <3>1. Len(ContextLengths) \in Nat /\ j \in 1..Len(ContextLengths)
      BY GridFacts
    <3>2. Place(j, k, q) \in 1..N
      BY <2>1, <3>1, PlaceWithin
    <3>3. Place(j, k, q) <= Len(results)
      BY <2>1, <2>2, <3>2
    <3>4. QED
      BY <2>1, <3>3 DEF GridInv, PlaceInv
  <2>5. /\ DOMAIN points = 1..N
        /\ \A p \in 1..N : points[p] = runs[RowAt(agents, p)]
        /\ \A x : HowOften(N, points, x) = HowOften(N, runs, x)
    <3> HIDE DEF N, agents, points
    <3>1. ASSUME NEW x
          PROVE  /\ DOMAIN points = 1..N
                 /\ \A p \in 1..N : points[p] = runs[RowAt(agents, p)]
                 /\ HowOften(N, points, x) = HowOften(N, runs, x)
      <4>1. N \in Nat /\ agents \in [1..N -> Nat] /\ DOMAIN runs = 1..N
        BY <2>2, <2>3
      <4>2. /\ DOMAIN SortedByAgents(agents, runs) = 1..N
            /\ \A p \in 1..N : SortedByAgents(agents, runs)[p] = runs[RowAt(agents, p)]
            /\ HowOften(N, SortedByAgents(agents, runs), x) = HowOften(N, runs, x)
        BY <4>1, SortedTimes
      <4>3. QED
        BY <2>1, <4>2
    <3>2. QED
      BY <3>1
  <2>6. \A x : Times(points, x) = Times(runs, x)
    <3> HIDE DEF N, agents, points
    <3> QED BY <2>2, <2>5 DEF HowOften
  <2>7. \A m, n \in DOMAIN points : m < n => points[m].case.agents <= points[n].case.agents
    <3> HIDE DEF N, agents, points
    <3> SUFFICES ASSUME NEW m \in 1..N, NEW n \in 1..N, m < n
                 PROVE  points[m].case.agents <= points[n].case.agents
      BY <2>5
    <3>1. /\ RowAt(agents, m) \in 1..N /\ RowAt(agents, n) \in 1..N
          /\ agents[RowAt(agents, m)] <= agents[RowAt(agents, n)]
      <4>1. N \in Nat /\ agents \in [1..N -> Nat]
        BY <2>2, <2>3
      <4>2. /\ \A p \in 1..N : RowAt(agents, p) \in 1..N
            /\ \A p, q \in 1..N : p <= q => agents[RowAt(agents, p)] <= agents[RowAt(agents, q)]
        BY <4>1, RowsAtPlaces
      <4>3. m <= n
        BY <2>2
      <4>4. QED
        BY <4>2, <4>3
    <3>2. QED
      BY <2>3, <2>5, <3>1
  <2>8. QED
    <3>1. \A j \in DOMAIN ContextLengths, k \in DOMAIN AgentCounts, q \in 1..Repeats :
            groupResult.runs[Place(j, k, q)].case =
              [context |-> ContextLengths[j], agents |-> AgentCounts[k], repeat |-> q]
      <4> HIDE DEF points
      <4> QED BY <2>1, <2>4 DEF GridCase
    <3>2. Len(groupResult.runs) = Len(ContextLengths) * Len(AgentCounts) * Repeats
      BY <2>1
    <3>3. \A x \in Range(groupResult.runs) \cup Range(points) :
            Times(points, x) = Times(groupResult.runs, x)
      <4> HIDE DEF points, Times
      <4> QED BY <2>1, <2>6
    <3>4. QED
      BY <2>7, <3>1, <3>2, <3>3 DEF GroupCoversGrid
<1>2. QED
  BY <1>1, GridInvariant, PTL

\* _summary_from_points and the errors list: every row of a team sweep is its own
\* child's, the summary adds them up to one issue per agent, context length and
\* repeat, and the errors are the children's in the order of the rows.
THEOREM RowsOfChildren == GridSpec => []RowsAreTheChildrens
<1>1. GridInv => RowsAreTheChildrens
  <2> SUFFICES ASSUME GridInv PROVE RowsAreTheChildrens
    OBVIOUS
  <2> DEFINE N == Len(results)
             L == Len(ContextLengths)
             sum == SumFunction(AgentCounts)
             all == [k \in DOMAIN runs |-> runs[k].verified + runs[k].failed]
             failed == [k \in DOMAIN runs |-> runs[k].failed]
  <2>1. /\ runs = results /\ results \in Seq(Results)
        /\ N \in Nat /\ DOMAIN runs = 1..N
    BY DEF GridInv, RowInv
  <2>2. \A k \in 1..N : /\ runs[k].verified \in Nat /\ runs[k].failed \in Nat
                        /\ runs[k].verified + runs[k].failed = runs[k].case.agents
    <3>1. \A x \in Results : x.verified \in Nat /\ x.failed \in Nat
      BY DEF Results
    <3>2. \A k \in 1..N : runs[k] \in Results
      BY <2>1
    <3>3. QED
      BY <2>1, <3>1, <3>2 DEF GridInv, RowInv
  <2>3. /\ Len(errors) = ErrorsBefore(N + 1)
        /\ \A k \in DOMAIN results : \A e \in 1..results[k].errors :
             errors[ErrorsBefore(k) + e] = results[k].case
    BY DEF GridInv, ErrorsInv
  <2>4. SumFunction(failed) <= SumFunction(all)
    <3>1. IsFiniteSet(1..N)
      BY <2>1, IntervalCount
    <3>2. /\ DOMAIN failed = 1..N /\ DOMAIN all = 1..N
          /\ \A k \in 1..N : /\ failed[k] = runs[k].failed
                             /\ all[k] = runs[k].verified + runs[k].failed
      BY <2>1
    <3> HIDE DEF failed, all, N
    <3>3. \A k \in 1..N : failed[k] \in Int /\ all[k] \in Int /\ failed[k] <= all[k]
      BY <2>2, <3>2
    <3>4. SumFunctionOnSet(failed, 1..N) <= SumFunctionOnSet(all, 1..N)
      BY <3>1, <3>3, SumMonotone
    <3>5. QED
      BY <3>2, <3>4 DEF SumFunction
  <2>5. ASSUME groupResult.published
        PROVE  /\ groupResult.errors = errors
               /\ groupResult.summary.total = SumFunction(all)
               /\ groupResult.summary.failed = SumFunction(failed)
               /\ SumFunction(all) = Repeats * L * sum
    <3>1. /\ groupResult.errors = errors
          /\ groupResult.summary.total = SumFunction(all)
          /\ groupResult.summary.failed = SumFunction(failed)
          /\ c = L + 1 /\ a = 1 /\ r = 1
      BY <2>5, PublishedGrid DEF Summary
    <3>2. SumFunction(all) = IssuesOf(results)
      BY <2>1 DEF IssuesOf
    <3>3. SumFunction(all)
            = ((L + 1) - 1) * (Repeats * AgentsTo(Len(AgentCounts))) + Repeats * AgentsTo(1 - 1)
                + (1 - 1) * AgentCounts[1]
      BY <3>1, <3>2 DEF GridInv, IssuesInv
    <3>4. /\ AgentsTo(1 - 1) = 0 /\ AgentsTo(Len(AgentCounts)) = sum /\ sum \in Nat
          /\ L \in Nat /\ Repeats \in Nat /\ AgentCounts[1] \in Nat
      BY AgentsToNext, GridFacts
    <3>5. ((L + 1) - 1) * (Repeats * sum) = Repeats * L * sum
            /\ ((L + 1) - 1) * (Repeats * sum) \in Nat
      <4> HIDE DEF L, sum
      <4> QED BY <3>4
    <3>6. Repeats * AgentsTo(1 - 1) = 0 /\ (1 - 1) * AgentCounts[1] = 0
      BY <3>4
    <3>7. SumFunction(all) = Repeats * L * sum
      <4> HIDE DEF L, sum, all
      <4>1. SumFunction(all) = ((L + 1) - 1) * (Repeats * sum) + 0 + 0
        BY <3>3, <3>4, <3>6
      <4>2. QED
        BY <3>5, <4>1
    <3>8. QED
      BY <3>1, <3>7
  <2>6. QED
    <3> HIDE DEF all, failed
    <3>1. groupResult.published =>
            /\ groupResult.errors = errors
            /\ groupResult.summary.total = Repeats * L * sum
            /\ groupResult.summary.failed <= groupResult.summary.total
      <4> HIDE DEF L, sum
      <4> QED BY <2>4, <2>5
    <3>2. QED
      BY <2>1, <2>2, <2>3, <3>1 DEF RowsAreTheChildrens
<1>2. QED
  BY <1>1, GridInvariant, PTL

=============================================================================
