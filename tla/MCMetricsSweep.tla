---------------------------- MODULE MCMetricsSweep ----------------------------
(* A small instance of MetricsSweep for TLC: a count comes twice. *)
EXTENDS MetricsSweep

MCAgentSweep == <<2, 1, 2>>

Stopped == phase \in {"done", "failed"} /\ UNCHANGED vars

MCSpec == Init /\ [][Next \/ Stopped]_vars /\ Fairness

=============================================================================
