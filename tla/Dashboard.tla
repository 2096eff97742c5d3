------------------------------ MODULE Dashboard ------------------------------
(***************************************************************************)
(* DashboardState, which the threads of the dashboard's HTTP server share: *)
(* start_sweep, stop_sweep and status, the lock they take, and the sweep   *)
(* processes they start and signal.  stop_sweep works on the process it    *)
(* read under the lock after it has given the lock back.                   *)
(*                                                                         *)
(* A request that require_vllm_ready or the validators refuse changes      *)
(* nothing and is not modelled.  A SWEEP_ROOT is told by its time stamp:   *)
(* all requests carry the same run name.                                   *)
(***************************************************************************)
EXTENDS Naturals, FiniteSets

CONSTANTS
  Threads,      \* threads of the HTTP server
  MaxRequests,  \* bound: requests the clients send
  MaxClock      \* bound: seconds the run lasts

ASSUME BoundsAssumption == MaxRequests \in Nat /\ MaxClock \in Nat \ {0}

VARIABLES
  clock,      \* the second time.strftime would print
  sent,       \* requests sent so far
  lock,       \* threads holding self.lock
  pc,         \* where the thread is in its request
  local,      \* its locals: process and sweep_root of stop, SWEEP_ROOT of start
  process,    \* self.process, 0 for None
  root,       \* self.current_sweep_root, 0 for None
  launched,   \* number of sweeps started
  sweep       \* state and SWEEP_ROOT of the process of each sweep

fields == <<process, root>>
vars == <<clock, sent, lock, pc, local, fields, launched, sweep>>

Sweeps == 1..MaxRequests

\* A process that was sent SIGTERM or SIGKILL still runs until it is dead, and
\* keeps its pid until a poll or a wait has reaped it.
Alive(s) == sweep[s].state \in {"running", "term", "kill"}

StopSteps == {"stop_poll", "stop_term", "stop_wait", "stop_kill", "stop_wait_kill", "stop_pkill"}

TypeOK ==
  /\ clock \in 1..MaxClock
  /\ sent \in 0..MaxRequests
  /\ lock \subseteq Threads
  /\ pc \in [Threads -> {"idle", "start_lock", "start_popen", "start_fields", "status"} \cup StopSteps]
  /\ local \in [Threads -> [target : 0..MaxRequests, root : 0..MaxClock]]
  /\ process \in 0..launched
  /\ root \in 0..MaxClock
  /\ launched \in 0..sent
  /\ sweep \in [Sweeps -> [state : {"none", "running", "term", "kill", "dead", "reaped"},
                           root : 0..MaxClock]]

Init ==
  /\ clock = 1
  /\ sent = 0
  /\ lock = {}
  /\ pc = [t \in Threads |-> "idle"]
  /\ local = [t \in Threads |-> [target |-> 0, root |-> 0]]
  /\ process = 0
  /\ root = 0
  /\ launched = 0
  /\ sweep = [s \in Sweeps |-> [state |-> "none", root |-> 0]]

Goto(t, where) == pc' = [pc EXCEPT ![t] = where]

\* Popen.poll: true while the process runs, reaps it when it does not.
Runs(s) == s # 0 /\ Alive(s)

Reap(s) ==
  sweep' = IF s # 0 /\ sweep[s].state = "dead"
           THEN [sweep EXCEPT ![s].state = "reaped"] ELSE sweep

\* os.killpg: a process gets the signal while it runs.
Signalled(s, how) ==
  [sweep[s] EXCEPT !.state = IF how = "term" /\ @ = "running" THEN "term"
                             ELSE IF how = "kill" /\ Alive(s) THEN "kill" ELSE @]

-----------------------------------------------------------------------------
\* POST /api/sweep: the environment, with its SWEEP_ROOT, is built before the
\* lock is taken.
StartRequest(t) ==
  /\ pc[t] = "idle" /\ sent < MaxRequests
  /\ sent' = sent + 1
  /\ local' = [local EXCEPT ![t].root = clock]
  /\ Goto(t, "start_lock")
  /\ UNCHANGED <<clock, lock, fields, launched, sweep>>

\* Mutant of StartCheck: the lock is given back after the check.
StartCheckUnlocked(t) ==
  /\ pc[t] = "start_lock" /\ lock = {}
  /\ Reap(process)
  /\ Goto(t, IF Runs(process) THEN "idle" ELSE "start_popen")
  /\ UNCHANGED <<clock, sent, lock, local, fields, launched>>

\* The lock is taken; a sweep that runs is a RuntimeError and releases it.
StartCheck(t) ==
  /\ pc[t] = "start_lock" /\ lock = {}
  /\ Reap(process)
  /\ IF Runs(process) THEN Goto(t, "idle") /\ UNCHANGED lock
                      ELSE Goto(t, "start_popen") /\ lock' = {t}
  /\ UNCHANGED <<clock, sent, local, fields, launched>>

\* The directory, its metadata and log are made and the script is started.
StartPopen(t) ==
  /\ pc[t] = "start_popen"
  /\ launched' = launched + 1
  /\ sweep' = [sweep EXCEPT ![launched + 1] = [state |-> "running", root |-> local[t].root]]
  /\ Goto(t, "start_fields")
  /\ UNCHANGED <<clock, sent, lock, local, fields>>

\* One of these calls raises: the lock is released, nothing was started.
StartRaises(t) ==
  /\ pc[t] = "start_popen"
  /\ lock' = lock \ {t}
  /\ Goto(t, "idle")
  /\ UNCHANGED <<clock, sent, local, fields, launched, sweep>>

\* Mutant of StartFields: current_sweep_root keeps the root of the last sweep.
StartFieldsStaleRoot(t) ==
  /\ pc[t] = "start_fields"
  /\ process' = launched
  /\ root' = IF root = 0 THEN local[t].root ELSE root
  /\ lock' = lock \ {t}
  /\ Goto(t, "status")
  /\ UNCHANGED <<clock, sent, local, launched, sweep>>

\* The fields are set and the lock is released.
StartFields(t) ==
  /\ pc[t] = "start_fields"
  /\ process' = launched
  /\ root' = local[t].root
  /\ lock' = lock \ {t}
  /\ Goto(t, "status")
  /\ UNCHANGED <<clock, sent, local, launched, sweep>>

\* status, the last call of both and the whole of GET /api/status.
Status(t) ==
  /\ pc[t] = "status" /\ lock = {}
  /\ Reap(process)
  /\ Goto(t, "idle")
  /\ UNCHANGED <<clock, sent, lock, local, fields, launched>>

StatusRequest(t) ==
  /\ pc[t] = "idle" /\ sent < MaxRequests
  /\ sent' = sent + 1
  /\ Goto(t, "status")
  /\ UNCHANGED <<clock, lock, local, fields, launched, sweep>>

-----------------------------------------------------------------------------
\* POST /api/sweep/stop: process and root are read under the lock.
StopRequest(t) ==
  /\ pc[t] = "idle" /\ sent < MaxRequests /\ lock = {}
  /\ sent' = sent + 1
  /\ local' = [local EXCEPT ![t] = [target |-> process, root |-> root]]
  /\ Goto(t, "stop_poll")
  /\ UNCHANGED <<clock, lock, fields, launched, sweep>>

StopPoll(t) ==
  /\ pc[t] = "stop_poll"
  /\ Reap(local[t].target)
  /\ Goto(t, IF Runs(local[t].target) THEN "stop_term" ELSE "stop_pkill")
  /\ UNCHANGED <<clock, sent, lock, local, fields, launched>>

\* Mutant of StopTerm: self.process is read again without the lock.
StopTermCurrent(t) ==
  /\ pc[t] = "stop_term"
  /\ sweep' = [sweep EXCEPT ![process] = Signalled(process, "term")]
  /\ Goto(t, "stop_wait")
  /\ UNCHANGED <<clock, sent, lock, local, fields, launched>>

StopTerm(t) ==
  LET s == local[t].target
  IN  /\ pc[t] = "stop_term"
      /\ sweep' = [sweep EXCEPT ![s] = Signalled(s, "term")]
      /\ Goto(t, "stop_wait")
      /\ UNCHANGED <<clock, sent, lock, local, fields, launched>>

\* killpg of a process another thread has reaped is a ProcessLookupError,
\* unless a child of the sweep is left in its group.
StopLost(t) ==
  /\ pc[t] \in {"stop_term", "stop_kill"}
  /\ sweep[local[t].target].state = "reaped"
  /\ Goto(t, "idle")
  /\ UNCHANGED <<clock, sent, lock, local, fields, launched, sweep>>

StopWaited(t) ==
  LET s == local[t].target
  IN  /\ pc[t] \in {"stop_wait", "stop_wait_kill"} /\ ~Alive(s)
      /\ Reap(s)
      /\ Goto(t, "stop_pkill")
      /\ UNCHANGED <<clock, sent, lock, local, fields, launched>>

\* Mutant of StopTimeout: a process that is slow to end is left alone.
StopTimeoutGivesUp(t) ==
  /\ pc[t] \in {"stop_wait", "stop_wait_kill"} /\ Alive(local[t].target)
  /\ Goto(t, "stop_pkill")
  /\ UNCHANGED <<clock, sent, lock, local, fields, launched, sweep>>

\* Mutant of StopTimeout: the wait after SIGTERM has no timeout.
StopTimeoutOnlyKill(t) ==
  /\ pc[t] = "stop_wait_kill" /\ Alive(local[t].target)
  /\ Goto(t, "idle")
  /\ UNCHANGED <<clock, sent, lock, local, fields, launched, sweep>>

\* TimeoutExpired: after SIGTERM it leads to SIGKILL, after SIGKILL to a 500.
StopTimeout(t) ==
  /\ pc[t] \in {"stop_wait", "stop_wait_kill"} /\ Alive(local[t].target)
  /\ Goto(t, IF pc[t] = "stop_wait" THEN "stop_kill" ELSE "idle")
  /\ UNCHANGED <<clock, sent, lock, local, fields, launched, sweep>>

StopKill(t) ==
  LET s == local[t].target
  IN  /\ pc[t] = "stop_kill"
      /\ sweep' = [sweep EXCEPT ![s] = Signalled(s, "kill")]
      /\ Goto(t, "stop_wait_kill")
      /\ UNCHANGED <<clock, sent, lock, local, fields, launched>>

\* pkill -TERM -f sweep_root reaches every process whose command line names the
\* root, started by this sweep or by another in the same directory.
StopPkill(t) ==
  /\ pc[t] = "stop_pkill"
  /\ sweep' = [s \in Sweeps |->
                 IF sweep[s].root = local[t].root THEN Signalled(s, "term") ELSE sweep[s]]
  /\ Goto(t, "status")
  /\ UNCHANGED <<clock, sent, lock, local, fields, launched>>

-----------------------------------------------------------------------------
\* A sweep script ends, on its own or of a signal.
SweepEnds(s) ==
  /\ Alive(s)
  /\ sweep' = [sweep EXCEPT ![s].state = "dead"]
  /\ UNCHANGED <<clock, sent, lock, pc, local, fields, launched>>

Tick ==
  /\ clock < MaxClock
  /\ clock' = clock + 1
  /\ UNCHANGED <<sent, lock, pc, local, fields, launched, sweep>>

Start(t) == StartCheck(t) \/ StartPopen(t) \/ StartRaises(t) \/ StartFields(t)

Stop(t) ==
  StopPoll(t) \/ StopTerm(t) \/ StopLost(t) \/ StopWaited(t) \/ StopTimeout(t)
    \/ StopKill(t) \/ StopPkill(t)

Request(t) == StartRequest(t) \/ StopRequest(t) \/ StatusRequest(t)

Handle(t) == Start(t) \/ Stop(t) \/ Status(t)

Next ==
  \/ \E t \in Threads : Request(t) \/ Handle(t)
  \/ \E s \in Sweeps : SweepEnds(s)
  \/ Tick

Spec == Init /\ [][Next]_vars

\* Every thread is scheduled.  Nothing is assumed of the sweeps: the waits of
\* stop_sweep have timeouts.
Fairness == \A t \in Threads : WF_vars(Handle(t))

FairSpec == Spec /\ Fairness

-----------------------------------------------------------------------------
\* However start, stop and status interleave, two sweeps never run at once: the
\* check, the launch and the fields are one critical section.
OneSweepAtATime == Cardinality({ s \in Sweeps : Alive(s) }) <= 1

\* Whoever holds the lock next finds the fields of one sweep: the root it will
\* hand to pkill belongs to the process it will signal.
FieldsAgree ==
  lock = {} => IF process = 0 THEN root = 0 ELSE root = sweep[process].root

\* A stop that goes on to answer without an error has ended the sweep it read.
StopEndsItsSweep ==
  \A t \in Threads :
    pc[t] = "stop_pkill" /\ local[t].target # 0 => ~Alive(local[t].target)

\* A stop never signals a sweep that was launched after it had read which one to
\* stop, unless that sweep was given the very same directory.
StopSparesLaterSweeps ==
  [][\A s \in Sweeps :
       (Alive(s) /\ sweep'[s].state \in {"term", "kill"} /\ sweep'[s] # sweep[s]) =>
         \E t \in Threads : /\ pc[t] \in StopSteps /\ pc'[t] # pc[t]
                            /\ s <= local[t].target \/ sweep[s].root = local[t].root]_vars

\* Every request is answered: no thread waits for the lock or a process for ever.
RequestsAnswered == \A t \in Threads : pc[t] # "idle" ~> pc[t] = "idle"

=============================================================================
