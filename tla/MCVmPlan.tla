------------------------------- MODULE MCVmPlan -------------------------------
(* Instances of VmPlan for TLC. *)
EXTENDS VmPlan

\* Two nodes of different size, one with a gap as hyperthreads make them.
MCNumaNodes == <<<<0, 1, 2, 8, 9>>, <<4, 5, 6, 7>>>>

Ended == phase \in {"placed", "raised"} /\ UNCHANGED planVars

MCSpec == PlanInit /\ [][PlanNext \/ Ended]_planVars

=============================================================================
