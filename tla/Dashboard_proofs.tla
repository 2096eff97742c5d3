--------------------------- MODULE Dashboard_proofs ---------------------------
(***************************************************************************)
(* Proofs about Dashboard for any set of handler threads and any number of *)
(* requests.                                                               *)
(***************************************************************************)
EXTENDS Dashboard, FiniteSetTheorems, TLAPS

\* Requests to start a sweep that have not launched one yet.
Starting == { t \in Threads : pc[t] \in {"start_lock", "start_popen"} }

\* The critical section of start_sweep, between the check and the fields.
InSection(t) == pc[t] \in {"start_popen", "start_fields"}

\* Every launch has a request of its own, so there is a process for each.
RequestInv == IsFiniteSet(Starting) /\ launched + Cardinality(Starting) <= sent

\* The lock is held by the thread in the critical section and by no other.
LockInv ==
  /\ lock = { t \in Threads : InSection(t) }
  /\ \A t, u \in lock : t = u

\* Only the sweep launched last may run, and none while the next one is being
\* launched.  Outside the critical section it is the one the fields name.
SweepInv ==
  /\ \A s \in Sweeps : Alive(s) => s = launched
  /\ \A t \in Threads : pc[t] = "start_popen" => \A s \in Sweeps : ~Alive(s)
  /\ \A t \in Threads : pc[t] = "start_fields" =>
       launched # 0 /\ sweep[launched].root = local[t].root
  /\ (\A t \in Threads : pc[t] # "start_fields") => process = launched
  /\ IF process = 0 THEN root = 0 ELSE root = sweep[process].root

\* A stop works on a sweep that was launched before it, and is not misled about
\* its end by a later one.
StopInv == (\A t \in Threads : local[t].target <= launched) /\ StopEndsItsSweep

-----------------------------------------------------------------------------
\* What a signal makes of a sweep: it wakes no dead one and moves none to
\* another directory.
LEMMA SignalledType ==
  ASSUME TypeOK, NEW s \in Sweeps, NEW how \in {"term", "kill"}
  PROVE  /\ Signalled(s, how) \in [state : {"none", "running", "term", "kill", "dead", "reaped"},
                                   root : 0..MaxClock]
         /\ Signalled(s, how).root = sweep[s].root
         /\ Signalled(s, how).state \in {"running", "term", "kill"} => Alive(s)
BY DEF TypeOK, Signalled, Alive

\* A request that launches its sweep leaves the set of those that have not.
LEMMA StartingShrinks ==
  ASSUME RequestInv, TypeOK, NEW t \in Starting, NEW there, pc' = [pc EXCEPT ![t] = there],
         there \notin {"start_lock", "start_popen"}
  PROVE  /\ IsFiniteSet(Starting')
         /\ Cardinality(Starting') \in Nat
         /\ launched + 1 + Cardinality(Starting') <= sent
<1>1. Starting' = Starting \ {t}
  BY DEF Starting, TypeOK
<1>2. /\ IsFiniteSet(Starting \ {t})
      /\ Cardinality(Starting \ {t}) = Cardinality(Starting) - 1
  BY FS_RemoveElement DEF RequestInv
<1>3. Cardinality(Starting) \in Nat /\ Cardinality(Starting \ {t}) \in Nat
  BY <1>2, FS_CardinalityType DEF RequestInv
<1>4. launched \in Nat /\ sent \in Nat
  BY BoundsAssumption DEF TypeOK
<1>5. QED
  BY <1>1, <1>2, <1>3, <1>4 DEF RequestInv

\* Any other step of a request in between, or of one that launches nothing.
LEMMA StartingFrame ==
  ASSUME RequestInv, TypeOK, UNCHANGED <<launched, sent>>, Starting' \subseteq Starting
  PROVE  RequestInv'
<1>1. /\ IsFiniteSet(Starting')
      /\ Cardinality(Starting') <= Cardinality(Starting)
  BY FS_Subset DEF RequestInv
<1>2. Cardinality(Starting) \in Nat /\ Cardinality(Starting') \in Nat
  BY <1>1, FS_CardinalityType DEF RequestInv
<1>3. launched \in Nat /\ sent \in Nat
  BY BoundsAssumption DEF TypeOK
<1>4. QED
  BY <1>1, <1>2, <1>3 DEF RequestInv

\* A new request, whether it is to start a sweep or not.
LEMMA StartingGrows ==
  ASSUME RequestInv, TypeOK, NEW t \in Threads, NEW there, pc[t] = "idle",
         pc' = [pc EXCEPT ![t] = there], sent' = sent + 1, launched' = launched
  PROVE  RequestInv'
<1>1. Starting' \subseteq Starting \cup {t}
  BY DEF Starting, TypeOK
<1>2. t \notin Starting
  BY DEF Starting
<1>3. /\ IsFiniteSet(Starting \cup {t})
      /\ Cardinality(Starting \cup {t}) = Cardinality(Starting) + 1
  BY <1>2, FS_AddElement DEF RequestInv
<1>4. IsFiniteSet(Starting') /\ Cardinality(Starting') <= Cardinality(Starting \cup {t})
  BY <1>1, <1>3, FS_Subset
<1>5. Cardinality(Starting) \in Nat /\ Cardinality(Starting') \in Nat
  BY <1>4, FS_CardinalityType DEF RequestInv
<1>6. launched \in Nat /\ sent \in Nat
  BY BoundsAssumption DEF TypeOK
<1>7. QED
  BY <1>3, <1>4, <1>5, <1>6 DEF RequestInv

-----------------------------------------------------------------------------
SweepRecord == [state : {"none", "running", "term", "kill", "dead", "reaped"}, root : 0..MaxClock]

\* What every step but a launch does to the sweeps: none comes to life, none
\* changes its directory.
Calm ==
  /\ sweep' \in [Sweeps -> SweepRecord]
  /\ \A s \in Sweeps : sweep'[s].root = sweep[s].root /\ (Alive(s)' => Alive(s))

\* poll and wait reap, which is calm.
LEMMA ReapIsCalm ==
  ASSUME TypeOK, NEW s, Reap(s)
  PROVE  Calm
BY DEF TypeOK, Reap, Calm, SweepRecord, Alive

\* A step that leaves the sweeps alone disturbs no stop.
LEMMA UnchangedIsCalm ==
  ASSUME TypeOK, UNCHANGED sweep
  PROVE  Calm
BY DEF TypeOK, Calm, SweepRecord, Alive

\* killpg of any number, a process or not, is calm.
LEMMA SignalIsCalm ==
  ASSUME TypeOK, NEW s, NEW how \in {"term", "kill"},
         sweep' = [sweep EXCEPT ![s] = Signalled(s, how)]
  PROVE  Calm
<1>1. CASE s \in Sweeps
  BY <1>1, SignalledType DEF TypeOK, Calm, SweepRecord, Alive
<1>2. CASE s \notin Sweeps
  BY <1>2 DEF TypeOK, Calm, SweepRecord, Alive
<1>3. QED
  BY <1>1, <1>2

\* pkill is calm, however many sweeps it reaches.
LEMMA PkillIsCalm ==
  ASSUME TypeOK, NEW t \in Threads, StopPkill(t)
  PROVE  Calm
<1>1. \A s \in Sweeps :
        sweep'[s] = IF sweep[s].root = local[t].root THEN Signalled(s, "term") ELSE sweep[s]
  BY DEF StopPkill
<1>2. \A s \in Sweeps : sweep'[s] \in SweepRecord
  BY <1>1, SignalledType DEF TypeOK, SweepRecord
<1>3. \A s \in Sweeps : sweep'[s].root = sweep[s].root /\ (Alive(s)' => Alive(s))
  BY <1>1, SignalledType DEF Alive
<1>4. QED
  BY <1>2, <1>3 DEF StopPkill, Calm

\* The steps of a stop after its first: what they do to the variables other than
\* the sweeps.
LEMMA StopFrame ==
  ASSUME TypeOK, NEW t \in Threads, Stop(t)
  PROVE  /\ UNCHANGED <<clock, sent, lock, local, fields, launched>>
         /\ Calm
         /\ pc[t] \in StopSteps
         /\ \E there \in {"idle", "status"} \cup StopSteps : pc' = [pc EXCEPT ![t] = there]
<1>1. CASE StopPoll(t)
  BY <1>1, ReapIsCalm DEF StopPoll, Goto, StopSteps
<1>2. CASE StopTerm(t)
  BY <1>2, SignalIsCalm DEF StopTerm, Goto, StopSteps
<1>3. CASE StopLost(t)
  BY <1>3, UnchangedIsCalm DEF StopLost, Goto, StopSteps
<1>4. CASE StopWaited(t)
  BY <1>4, ReapIsCalm DEF StopWaited, Goto, StopSteps
<1>5. CASE StopTimeout(t)
  BY <1>5, UnchangedIsCalm DEF StopTimeout, Goto, StopSteps
<1>6. CASE StopKill(t)
  BY <1>6, SignalIsCalm DEF StopKill, Goto, StopSteps
<1>7. CASE StopPkill(t)
  BY <1>7, PkillIsCalm DEF StopPkill, Goto, StopSteps
<1>8. QED
  BY <1>1, <1>2, <1>3, <1>4, <1>5, <1>6, <1>7 DEF Stop

-----------------------------------------------------------------------------
\* The bookkeeping of requests that a step leaves as it was.
LEMMA StartingStays ==
  ASSUME TypeOK, NEW t \in Threads, NEW there, pc' = [pc EXCEPT ![t] = there],
         there \in {"start_lock", "start_popen"} => t \in Starting
  PROVE  Starting' \subseteq Starting
BY DEF Starting, TypeOK

\* Types and the count of requests, step by step.
LEMMA TypeStep == TypeOK /\ RequestInv /\ [Next]_vars => TypeOK' /\ RequestInv'
<1> SUFFICES ASSUME TypeOK, RequestInv, [Next]_vars
             PROVE  TypeOK' /\ RequestInv'
  OBVIOUS
<1> USE BoundsAssumption
<1>1. ASSUME NEW t \in Threads, StartRequest(t)
      PROVE  TypeOK' /\ RequestInv'
  <2>1. TypeOK'
    BY <1>1 DEF StartRequest, Goto, TypeOK, StopSteps, fields
  <2>2. QED
    BY <1>1, <2>1, StartingGrows DEF StartRequest, Goto
<1>2. ASSUME NEW t \in Threads, StopRequest(t)
      PROVE  TypeOK' /\ RequestInv'
  <2>1. process \in 0..MaxRequests
    BY DEF TypeOK
  <2>2. TypeOK'
    BY <1>2, <2>1 DEF StopRequest, Goto, TypeOK, StopSteps, fields
  <2>3. QED
    BY <1>2, <2>2, StartingGrows DEF StopRequest, Goto
<1>3. ASSUME NEW t \in Threads, StatusRequest(t)
      PROVE  TypeOK' /\ RequestInv'
  <2>1. TypeOK'
    BY <1>3 DEF StatusRequest, Goto, TypeOK, StopSteps, fields
  <2>2. QED
    BY <1>3, <2>1, StartingGrows DEF StatusRequest, Goto
<1>4. ASSUME NEW t \in Threads, StartCheck(t)
      PROVE  TypeOK' /\ RequestInv'
  <2>1. Calm
    BY <1>4, ReapIsCalm DEF StartCheck
  <2>2. TypeOK'
    BY <1>4, <2>1 DEF StartCheck, Goto, TypeOK, StopSteps, fields, Calm, SweepRecord
  <2>3. t \in Starting
    BY <1>4 DEF StartCheck, Starting
  <2>4. Starting' \subseteq Starting
    BY <1>4, <2>3, StartingStays DEF StartCheck, Goto
  <2>5. QED
    BY <1>4, <2>2, <2>4, StartingFrame DEF StartCheck
<1>5. ASSUME NEW t \in Threads, StartPopen(t)
      PROVE  TypeOK' /\ RequestInv'
  <2>1. t \in Starting
    BY <1>5 DEF StartPopen, Starting
  <2>2. /\ IsFiniteSet(Starting')
        /\ Cardinality(Starting') \in Nat
        /\ launched + 1 + Cardinality(Starting') <= sent
    <3>1. pc' = [pc EXCEPT ![t] = "start_fields"]
      BY <1>5 DEF StartPopen, Goto
    <3>2. "start_fields" \notin {"start_lock", "start_popen"}
      OBVIOUS
    <3>3. QED
      BY <2>1, <3>1, <3>2, StartingShrinks
  <2>3. launched + 1 \in 0..sent /\ launched + 1 \in Sweeps
    BY <2>2 DEF TypeOK, Sweeps
  <2>4. sweep' \in [Sweeps -> SweepRecord]
    BY <1>5 DEF StartPopen, TypeOK, SweepRecord
  <2>5. TypeOK'
    BY <1>5, <2>3, <2>4 DEF StartPopen, Goto, TypeOK, StopSteps, fields, SweepRecord
  <2>6. QED
    BY <1>5, <2>2, <2>5 DEF StartPopen, RequestInv
<1>6. ASSUME NEW t \in Threads, StartRaises(t)
      PROVE  TypeOK' /\ RequestInv'
  <2>1. TypeOK'
    BY <1>6 DEF StartRaises, Goto, TypeOK, StopSteps, fields
  <2>2. Starting' \subseteq Starting
    BY <1>6, StartingStays DEF StartRaises, Goto
  <2>3. QED
    BY <1>6, <2>1, <2>2, StartingFrame DEF StartRaises
<1>7. ASSUME NEW t \in Threads, StartFields(t)
      PROVE  TypeOK' /\ RequestInv'
  <2>1. launched \in 0..launched
    BY DEF TypeOK
  <2>2. TypeOK'
    BY <1>7, <2>1 DEF StartFields, Goto, TypeOK, StopSteps
  <2>3. Starting' \subseteq Starting
    BY <1>7, StartingStays DEF StartFields, Goto
  <2>4. QED
    BY <1>7, <2>2, <2>3, StartingFrame DEF StartFields
<1>8. ASSUME NEW t \in Threads, Stop(t)
      PROVE  TypeOK' /\ RequestInv'
  <2>1. PICK there \in {"idle", "status"} \cup StopSteps : pc' = [pc EXCEPT ![t] = there]
    BY <1>8, StopFrame
  <2>2. TypeOK'
    BY <1>8, <2>1, StopFrame DEF TypeOK, StopSteps, fields, Calm, SweepRecord
  <2>3. Starting' \subseteq Starting
    BY <2>1, StartingStays DEF StopSteps
  <2>4. QED
    BY <1>8, <2>2, <2>3, StopFrame, StartingFrame
<1>9. ASSUME NEW t \in Threads, Status(t)
      PROVE  TypeOK' /\ RequestInv'
  <2>1. Calm
    BY <1>9, ReapIsCalm DEF Status
  <2>2. TypeOK'
    BY <1>9, <2>1 DEF Status, Goto, TypeOK, StopSteps, fields, Calm, SweepRecord
  <2>3. Starting' \subseteq Starting
    BY <1>9, StartingStays DEF Status, Goto
  <2>4. QED
    BY <1>9, <2>2, <2>3, StartingFrame DEF Status
<1>10. ASSUME NEW s \in Sweeps, SweepEnds(s)
       PROVE  TypeOK' /\ RequestInv'
  <2>1. TypeOK'
    BY <1>10 DEF SweepEnds, TypeOK, fields
  <2>2. QED
    BY <1>10, <2>1 DEF SweepEnds, RequestInv, Starting
<1>11. CASE Tick
  BY <1>11 DEF Tick, TypeOK, RequestInv, Starting, fields
<1>12. CASE UNCHANGED vars
  BY <1>12 DEF vars, fields, TypeOK, RequestInv, Starting
<1>13. QED
  BY <1>1, <1>2, <1>3, <1>4, <1>5, <1>6, <1>7, <1>8, <1>9, <1>10, <1>11, <1>12
     DEF Next, Request, Handle, Start

\* The initial state of the dashboard.
LEMMA InitInv == Init => TypeOK /\ RequestInv /\ LockInv /\ SweepInv /\ StopInv
<1> SUFFICES ASSUME Init
             PROVE  TypeOK /\ RequestInv /\ LockInv /\ SweepInv /\ StopInv
  OBVIOUS
<1> USE BoundsAssumption
<1>1. TypeOK
  BY DEF Init, TypeOK
<1>2. Starting = {}
  BY DEF Init, Starting
<1>3. RequestInv
  BY <1>2, FS_EmptySet DEF Init, RequestInv
<1>4. LockInv
  BY DEF Init, LockInv, InSection
<1>5. SweepInv
  BY DEF Init, SweepInv, Alive
<1>6. StopInv
  BY DEF Init, StopInv, StopEndsItsSweep
<1>7. QED
  BY <1>1, <1>3, <1>4, <1>5, <1>6

\* Every variable of the dashboard keeps its type, and no request launches more
\* than one sweep: launched never passes sent.
THEOREM DashboardTypes == Spec => []TypeOK
<1>1. TypeOK /\ RequestInv /\ [Next]_vars => (TypeOK /\ RequestInv)'
  BY TypeStep
<1>2. QED
  BY <1>1, InitInv, PTL DEF Spec

-----------------------------------------------------------------------------
\* Who holds the lock, step by step.
LEMMA LockStep == TypeOK /\ LockInv /\ [Next]_vars => LockInv'
<1> SUFFICES ASSUME TypeOK, LockInv, [Next]_vars
             PROVE  LockInv'
  OBVIOUS
<1> USE DEF LockInv, InSection
<1>1. ASSUME NEW t \in Threads, Request(t)
      PROVE  LockInv'
  BY <1>1 DEF Request, StartRequest, StopRequest, StatusRequest, Goto, TypeOK
<1>2. ASSUME NEW t \in Threads, StartCheck(t)
      PROVE  LockInv'
  <2>1. CASE pc' = [pc EXCEPT ![t] = "idle"] /\ lock' = lock
    BY <1>2, <2>1 DEF StartCheck, TypeOK
  <2>2. CASE pc' = [pc EXCEPT ![t] = "start_popen"] /\ lock' = {t}
    BY <1>2, <2>2 DEF StartCheck, TypeOK
  <2>3. QED
    BY <1>2, <2>1, <2>2 DEF StartCheck, Goto
<1>3. ASSUME NEW t \in Threads, StartPopen(t)
      PROVE  LockInv'
  BY <1>3 DEF StartPopen, Goto, TypeOK
<1>4. ASSUME NEW t \in Threads, StartRaises(t) \/ StartFields(t)
      PROVE  LockInv'
  BY <1>4 DEF StartRaises, StartFields, Goto, TypeOK
<1>5. ASSUME NEW t \in Threads, Stop(t)
      PROVE  LockInv'
  <2>1. PICK there \in {"idle", "status"} \cup StopSteps : pc' = [pc EXCEPT ![t] = there]
    BY <1>5, StopFrame
  <2>2. lock' = lock /\ pc[t] \in StopSteps
    BY <1>5, StopFrame
  <2>3. QED
    BY <2>1, <2>2 DEF TypeOK, StopSteps
<1>6. ASSUME NEW t \in Threads, Status(t)
      PROVE  LockInv'
  BY <1>6 DEF Status, Goto, TypeOK
<1>7. ASSUME NEW s \in Sweeps, SweepEnds(s)
      PROVE  LockInv'
  BY <1>7 DEF SweepEnds
<1>8. CASE Tick
  BY <1>8 DEF Tick
<1>9. CASE UNCHANGED vars
  BY <1>9 DEF vars
<1>10. QED
  BY <1>1, <1>2, <1>3, <1>4, <1>5, <1>6, <1>7, <1>8, <1>9 DEF Next, Handle, Start

\* A calm step that moves no thread into the critical section, nor from its
\* launch to its fields, leaves the sweep and the fields as they fit.
LEMMA CalmKeepsFields ==
  ASSUME TypeOK, SweepInv, Calm, UNCHANGED <<launched, process, root>>,
         \A t \in Threads : pc'[t] \in {"start_popen", "start_fields"} =>
           pc'[t] = pc[t] /\ local'[t] = local[t],
         \A t \in Threads : pc[t] = "start_fields" => pc'[t] = "start_fields"
  PROVE  SweepInv'
<1>1. launched # 0 => launched \in Sweeps
  BY BoundsAssumption DEF TypeOK, Sweeps
<1>2. process # 0 => process \in Sweeps
  BY BoundsAssumption DEF TypeOK, Sweeps
<1>3. \A s \in Sweeps : Alive(s)' => Alive(s)
  BY DEF Calm
<1>4. /\ \A s \in Sweeps : Alive(s)' => s = launched'
      /\ \A t \in Threads : pc'[t] = "start_popen" => \A s \in Sweeps : ~Alive(s)'
  BY <1>3 DEF SweepInv
<1>5. \A t \in Threads : pc'[t] = "start_fields" =>
        launched' # 0 /\ sweep'[launched'].root = local'[t].root
  BY <1>1 DEF SweepInv, Calm
<1>6. (\A t \in Threads : pc'[t] # "start_fields") => process' = launched'
  BY DEF SweepInv
<1>7. IF process' = 0 THEN root' = 0 ELSE root' = sweep'[process'].root
  BY <1>2 DEF SweepInv, Calm
<1>8. QED
  BY <1>4, <1>5, <1>6, <1>7 DEF SweepInv

\* The sweep that runs and the fields that name it, step by step.
LEMMA SweepStep == TypeOK /\ TypeOK' /\ LockInv /\ SweepInv /\ [Next]_vars => SweepInv'
<1> SUFFICES ASSUME TypeOK, TypeOK', LockInv, SweepInv, [Next]_vars
             PROVE  SweepInv'
  OBVIOUS
<1>1. ASSUME NEW t \in Threads, Request(t)
      PROVE  SweepInv'
  <2>1. Calm
    BY <1>1, UnchangedIsCalm DEF Request, StartRequest, StopRequest, StatusRequest
  <2>2. QED
    BY <1>1, <2>1, CalmKeepsFields
       DEF Request, StartRequest, StopRequest, StatusRequest, Goto, TypeOK, fields
<1>2. ASSUME NEW t \in Threads, StartCheck(t)
      PROVE  SweepInv'
  <2>1. Calm
    BY <1>2, ReapIsCalm DEF StartCheck
  <2>2. CASE Runs(process)
    BY <1>2, <2>1, <2>2, CalmKeepsFields DEF StartCheck, Goto, TypeOK, fields
  <2>3. CASE ~Runs(process)
    <3>1. process = launched
      BY <1>2 DEF StartCheck, LockInv, InSection, SweepInv
    <3>2. \A s \in Sweeps : ~Alive(s)
      BY <2>3, <3>1 DEF Runs, SweepInv, Sweeps
    <3>3. \A s \in Sweeps : ~Alive(s)'
      BY <2>1, <3>2 DEF Calm
    <3>4. \A u \in Threads : pc[u] # "start_fields" /\ pc'[u] # "start_fields"
      BY <1>2, <2>3 DEF StartCheck, LockInv, InSection, Goto, TypeOK
    <3>5. process # 0 => process \in Sweeps
      BY BoundsAssumption DEF TypeOK, Sweeps
    <3>6. IF process' = 0 THEN root' = 0 ELSE root' = sweep'[process'].root
      BY <1>2, <2>1, <3>5 DEF StartCheck, SweepInv, Calm, fields
    <3>7. QED
      BY <1>2, <3>1, <3>3, <3>4, <3>6 DEF StartCheck, SweepInv, fields
  <2>4. QED
    BY <2>2, <2>3
<1>3. ASSUME NEW t \in Threads, StartPopen(t)
      PROVE  SweepInv'
  <2>1. launched' \in Sweeps /\ launched' = launched + 1 /\ launched \in Nat /\ process \in 0..launched
    BY <1>3, BoundsAssumption DEF StartPopen, TypeOK, Sweeps
  <2>2. \A s \in Sweeps : ~Alive(s)
    BY <1>3 DEF StartPopen, SweepInv
  <2>3. \A s \in Sweeps : sweep'[s] = IF s = launched'
          THEN [state |-> "running", root |-> local[t].root] ELSE sweep[s]
    BY <1>3 DEF StartPopen, TypeOK
  <2>4. \A s \in Sweeps : Alive(s)' => s = launched'
    BY <2>2, <2>3 DEF Alive
  <2>5. \A u \in Threads : u # t => pc'[u] = pc[u] /\ ~InSection(u)
    BY <1>3 DEF StartPopen, Goto, TypeOK, LockInv, InSection
  <2>6. pc'[t] = "start_fields" /\ sweep'[launched'].root = local'[t].root /\ launched' # 0
    BY <1>3, <2>1, <2>3 DEF StartPopen, Goto, TypeOK
  <2>7. IF process' = 0 THEN root' = 0 ELSE root' = sweep'[process'].root
    BY <1>3, <2>1, <2>3, BoundsAssumption DEF StartPopen, SweepInv, fields, Sweeps, TypeOK
  <2>8. QED
    BY <2>4, <2>5, <2>6, <2>7 DEF SweepInv, InSection
<1>4. ASSUME NEW t \in Threads, StartRaises(t)
      PROVE  SweepInv'
  <2>1. Calm
    BY <1>4, UnchangedIsCalm DEF StartRaises
  <2>2. QED
    BY <1>4, <2>1, CalmKeepsFields DEF StartRaises, Goto, TypeOK, fields
<1>5. ASSUME NEW t \in Threads, StartFields(t)
      PROVE  SweepInv'
  <2>1. \A u \in Threads : pc'[u] \notin {"start_popen", "start_fields"}
    BY <1>5 DEF StartFields, Goto, TypeOK, LockInv, InSection
  <2>2. launched # 0 /\ sweep[launched].root = local[t].root
    BY <1>5 DEF StartFields, SweepInv
  <2>3. \A s \in Sweeps : Alive(s)' => s = launched'
    BY <1>5 DEF StartFields, SweepInv, Alive
  <2>4. process' = launched' /\ process' # 0 /\ root' = sweep'[process'].root
    BY <1>5, <2>2 DEF StartFields
  <2>5. QED
    BY <2>1, <2>3, <2>4 DEF SweepInv
<1>6. ASSUME NEW t \in Threads, Stop(t)
      PROVE  SweepInv'
  <2>1. PICK there \in {"idle", "status"} \cup StopSteps : pc' = [pc EXCEPT ![t] = there]
    BY <1>6, StopFrame
  <2>2. UNCHANGED <<local, fields, launched>> /\ Calm /\ pc[t] \in StopSteps
    BY <1>6, StopFrame
  <2>3. QED
    BY <2>1, <2>2, CalmKeepsFields DEF TypeOK, StopSteps, fields
<1>7. ASSUME NEW t \in Threads, Status(t)
      PROVE  SweepInv'
  <2>1. Calm
    BY <1>7, ReapIsCalm DEF Status
  <2>2. QED
    BY <1>7, <2>1, CalmKeepsFields DEF Status, Goto, TypeOK, fields
<1>8. ASSUME NEW s \in Sweeps, SweepEnds(s)
      PROVE  SweepInv'
  <2>1. Calm
    BY <1>8 DEF SweepEnds, TypeOK, Calm, SweepRecord, Alive
  <2>2. QED
    BY <1>8, <2>1, CalmKeepsFields DEF SweepEnds, fields
<1>9. CASE Tick
  BY <1>9, UnchangedIsCalm, CalmKeepsFields DEF Tick, fields
<1>10. CASE UNCHANGED vars
  BY <1>10, UnchangedIsCalm, CalmKeepsFields DEF vars, fields
<1>11. QED
  BY <1>1, <1>2, <1>3, <1>4, <1>5, <1>6, <1>7, <1>8, <1>9, <1>10 DEF Next, Handle, Start

-----------------------------------------------------------------------------
\* A calm step after which no thread is newly before its pkill.
LEMMA CalmKeepsStops ==
  ASSUME TypeOK, StopInv, Calm, launched' = launched,
         \A t \in Threads : local'[t].target <= launched,
         \A t \in Threads : pc'[t] = "stop_pkill" =>
           /\ local'[t] = local[t]
           /\ pc[t] = "stop_pkill" \/ (local[t].target # 0 => ~Alive(local[t].target)')
  PROVE  StopInv'
<1>1. \A t \in Threads : local[t].target # 0 => local[t].target \in Sweeps
  BY BoundsAssumption DEF TypeOK, Sweeps
<1>2. ASSUME NEW t \in Threads, pc'[t] = "stop_pkill", local'[t].target # 0
      PROVE  ~Alive(local[t].target)'
  BY <1>1, <1>2 DEF StopInv, StopEndsItsSweep, Calm
<1>3. \A t \in Threads : pc'[t] = "stop_pkill" => local'[t] = local[t]
  OBVIOUS
<1>4. \A t \in Threads :
        pc'[t] = "stop_pkill" /\ local'[t].target # 0 =>
          sweep'[local'[t].target].state \notin {"running", "term", "kill"}
  BY <1>2, <1>3 DEF Alive
<1>5. QED
  BY <1>4 DEF StopInv, StopEndsItsSweep, Alive

\* The sweeps that stops have read, step by step.
LEMMA StopStep == TypeOK /\ TypeOK' /\ StopInv /\ [Next]_vars => StopInv'
<1> SUFFICES ASSUME TypeOK, TypeOK', StopInv, [Next]_vars
             PROVE  StopInv'
  OBVIOUS
<1>1. ASSUME NEW t \in Threads, Request(t)
      PROVE  StopInv'
  <2>1. Calm /\ launched' = launched
    BY <1>1, UnchangedIsCalm DEF Request, StartRequest, StopRequest, StatusRequest
  <2>2. \A u \in Threads : local'[u].target <= launched
    BY <1>1 DEF Request, StartRequest, StopRequest, StatusRequest, TypeOK, StopInv
  <2>3. \A u \in Threads : pc'[u] = "stop_pkill" => local'[u] = local[u] /\ pc[u] = "stop_pkill"
    BY <1>1 DEF Request, StartRequest, StopRequest, StatusRequest, Goto, TypeOK
  <2>4. QED
    BY <2>1, <2>2, <2>3, CalmKeepsStops
<1>2. ASSUME NEW t \in Threads, StartCheck(t) \/ StartRaises(t) \/ StartFields(t) \/ Status(t)
      PROVE  StopInv'
  <2>1. Calm /\ UNCHANGED <<launched, local>>
    BY <1>2, UnchangedIsCalm, ReapIsCalm DEF StartCheck, StartRaises, StartFields, Status
  <2>2. \A u \in Threads : pc'[u] = "stop_pkill" => pc[u] = "stop_pkill"
    BY <1>2 DEF StartCheck, StartRaises, StartFields, Status, Goto, TypeOK
  <2>3. QED
    BY <2>1, <2>2, CalmKeepsStops DEF StopInv
<1>3. ASSUME NEW t \in Threads, StartPopen(t)
      PROVE  StopInv'
  <2>1. launched' = launched + 1 /\ launched \in Nat /\ local' = local
    BY <1>3, BoundsAssumption DEF StartPopen, TypeOK
  <2>2. \A u \in Threads : local[u].target \in Nat /\ local[u].target <= launched
    BY BoundsAssumption DEF TypeOK, StopInv
  <2>3. \A u \in Threads : local'[u].target <= launched'
    BY <2>1, <2>2
  <2>4. \A u \in Threads : pc'[u] = "stop_pkill" => pc[u] = "stop_pkill"
    BY <1>3 DEF StartPopen, Goto, TypeOK
  <2>5. \A u \in Threads : sweep'[local[u].target] = sweep[local[u].target]
    BY <1>3, <2>1, <2>2 DEF StartPopen, TypeOK
  <2>6. QED
    BY <2>1, <2>3, <2>4, <2>5 DEF StopInv, StopEndsItsSweep, Alive
<1>4. ASSUME NEW t \in Threads, Stop(t)
      PROVE  StopInv'
  <2>1. UNCHANGED <<launched, local>> /\ Calm
    BY <1>4, StopFrame
  <2>2. \A u \in Threads : u # t => pc'[u] = pc[u]
    BY <1>4, StopFrame DEF TypeOK
  <2>3. local[t].target # 0 => local[t].target \in Sweeps
    BY BoundsAssumption DEF TypeOK, Sweeps
  <2>4. CASE StopPoll(t) \/ StopWaited(t)
    <3>1. pc'[t] = "stop_pkill" /\ local[t].target # 0 => ~Alive(local[t].target)
      BY <2>4 DEF StopPoll, StopWaited, Goto, TypeOK, Runs
    <3>2. pc'[t] = "stop_pkill" /\ local[t].target # 0 => ~Alive(local[t].target)'
      BY <2>1, <2>3, <3>1 DEF Calm
    <3>3. QED
      BY <2>1, <2>2, <3>2, CalmKeepsStops DEF StopInv
  <2>5. CASE StopTerm(t) \/ StopLost(t) \/ StopTimeout(t) \/ StopKill(t) \/ StopPkill(t)
    <3>1. pc'[t] # "stop_pkill"
      BY <2>5 DEF StopTerm, StopLost, StopTimeout, StopKill, StopPkill, Goto, TypeOK
    <3>2. QED
      BY <2>1, <2>2, <3>1, CalmKeepsStops DEF StopInv
  <2>6. QED
    BY <1>4, <2>4, <2>5 DEF Stop
<1>5. ASSUME NEW s \in Sweeps, SweepEnds(s)
      PROVE  StopInv'
  <2>1. Calm
    BY <1>5 DEF SweepEnds, TypeOK, Calm, SweepRecord, Alive
  <2>2. QED
    BY <1>5, <2>1, CalmKeepsStops DEF SweepEnds, StopInv
<1>6. CASE Tick
  BY <1>6, UnchangedIsCalm, CalmKeepsStops DEF Tick, StopInv
<1>7. CASE UNCHANGED vars
  BY <1>7, UnchangedIsCalm, CalmKeepsStops DEF vars, StopInv
<1>8. QED
  BY <1>1, <1>2, <1>3, <1>4, <1>5, <1>6, <1>7 DEF Next, Handle, Start

-----------------------------------------------------------------------------
\* The inductive invariant of the dashboard.
Inv == TypeOK /\ RequestInv /\ LockInv /\ SweepInv /\ StopInv

\* Taken together the parts are inductive.
LEMMA InvCorrect == Spec => []Inv
<1>1. Init => Inv
  BY InitInv DEF Inv
<1>2. Inv /\ [Next]_vars => Inv'
  BY TypeStep, LockStep, SweepStep, StopStep DEF Inv
<1>3. QED
  BY <1>1, <1>2, PTL DEF Spec

\* However start, stop and status interleave, two sweeps never run at once.
THEOREM NeverTwoSweeps == Spec => []OneSweepAtATime
<1>1. Inv => OneSweepAtATime
  <2> SUFFICES ASSUME Inv
               PROVE  OneSweepAtATime
    OBVIOUS
  <2> DEFINE Living == { s \in Sweeps : Alive(s) }
  <2>1. Living \subseteq {launched}
    BY DEF Inv, SweepInv
  <2>2. Cardinality({launched}) = 1 /\ IsFiniteSet({launched})
    BY FS_Singleton
  <2>3. Cardinality(Living) <= 1
    BY <2>1, <2>2, FS_Subset
  <2>4. QED
    BY <2>3 DEF OneSweepAtATime
<1>2. QED
  BY <1>1, InvCorrect, PTL

\* Whoever takes the lock finds process and current_sweep_root of one sweep.
THEOREM FieldsOfOneSweep == Spec => []FieldsAgree
<1>1. Inv => FieldsAgree
  BY DEF Inv, SweepInv, FieldsAgree
<1>2. QED
  BY <1>1, InvCorrect, PTL

\* stop_sweep answers without an error only when the sweep it read has ended.
THEOREM StopMeansStopped == Spec => []StopEndsItsSweep
<1>1. Inv => StopEndsItsSweep
  BY DEF Inv, StopInv
<1>2. QED
  BY <1>1, InvCorrect, PTL

\* A signal reaches only a sweep the stop has read or one in the same directory.
THEOREM LaterSweepsSpared == Spec => StopSparesLaterSweeps
<1> DEFINE Spared ==
      \A s \in Sweeps :
        (Alive(s) /\ sweep'[s].state \in {"term", "kill"} /\ sweep'[s] # sweep[s]) =>
          \E t \in Threads : /\ pc[t] \in StopSteps /\ pc'[t] # pc[t]
                             /\ s <= local[t].target \/ sweep[s].root = local[t].root
<1>1. Inv /\ [Next]_vars => [Spared]_vars
  <2> SUFFICES ASSUME Inv, Next, NEW s \in Sweeps,
                      Alive(s), sweep'[s].state \in {"term", "kill"}, sweep'[s] # sweep[s]
               PROVE  \E t \in Threads :
                        /\ pc[t] \in StopSteps /\ pc'[t] # pc[t]
                        /\ s <= local[t].target \/ sweep[s].root = local[t].root
    OBVIOUS
  <2>0. TypeOK
    BY DEF Inv
  <2>1. ASSUME NEW t \in Threads, StopTerm(t) \/ StopKill(t)
        PROVE  s = local[t].target /\ pc[t] \in StopSteps /\ pc'[t] # pc[t]
    BY <2>0, <2>1 DEF StopTerm, StopKill, Goto, TypeOK, StopSteps
  <2>2. ASSUME NEW t \in Threads, StopPkill(t)
        PROVE  sweep[s].root = local[t].root /\ pc[t] \in StopSteps /\ pc'[t] # pc[t]
    BY <2>0, <2>2 DEF StopPkill, Goto, TypeOK, StopSteps
  <2>3. \A r : ~Reap(r)
    BY <2>0 DEF Reap, TypeOK
  <2>4. ~UNCHANGED sweep
    OBVIOUS
  <2>5. \A t \in Threads : ~StartPopen(t)
    BY <2>0 DEF StartPopen, Inv, SweepInv
  <2>6. \A r \in Sweeps : ~SweepEnds(r)
    BY <2>0 DEF SweepEnds, TypeOK
  <2>7. PICK t \in Threads : StopTerm(t) \/ StopKill(t) \/ StopPkill(t)
    BY <2>3, <2>4, <2>5, <2>6
       DEF Next, Request, Handle, Start, Stop, Tick, StartRequest, StopRequest, StatusRequest,
           StartCheck, StartRaises, StartFields, Status, StopPoll, StopLost, StopWaited, StopTimeout
  <2>8. s \in Int
    BY DEF Sweeps
  <2>9. QED
    BY <2>1, <2>2, <2>7, <2>8
<1>2. QED
  BY <1>1, InvCorrect, PTL DEF Spec, StopSparesLaterSweeps

=============================================================================
