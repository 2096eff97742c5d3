------------------------------- MODULE MCGuest -------------------------------
(* Small instances for TLC of the programs of a guest: the script of a      *)
(* coding guest, its memory workers, and the worker of a team run, which    *)
(* the script becomes (exec) where its VM was given a task.                 *)
EXTENDS GuestAgent, GuestWorker, MemoryBurner

VARIABLE program   \* the one that is looked at

MCInit == Init /\ WorkerInit /\ BurnerInit /\ program \in {"coding", "team", "memory"}

allVars == <<vars, workerVars, burnerVars>>

\* The point has its row, the worker or its VM has ended, the memory work is over.
Finished ==
  /\ \/ program = "coding" /\ table.ready
     \/ program = "team" /\ (step \in {"over", "raised"} \/ ~alive)
     \/ program = "memory" /\ script = "over"
  /\ UNCHANGED allVars

MCNext ==
  /\ UNCHANGED program
  /\ \/ program = "coding" /\ Next /\ UNCHANGED <<workerVars, burnerVars>>
     \/ program = "team" /\ WorkerNext /\ UNCHANGED <<vars, burnerVars>>
     \/ program = "memory" /\ BurnerNext /\ UNCHANGED <<vars, workerVars>>
     \/ Finished

\* The worker's fairness, where it is the program.
MCSpec ==
  /\ MCInit /\ [][MCNext]_<<allVars, program>>
  /\ WF_<<allVars, program>>(program = "team" /\ WorkerStep /\ UNCHANGED <<vars, burnerVars, program>>)

=============================================================================
