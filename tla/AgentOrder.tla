------------------------------- MODULE AgentOrder -------------------------------
(***************************************************************************)
(* How the points of a group result are ordered: sorted(points,            *)
(* key=lambda item: item["agents"]), in team_v2/sweep.py and in            *)
(* team_v2/metrics_wrapper.py.  sorted is stable, so each row has a place  *)
(* of its own: the number of rows before it.                               *)
(***************************************************************************)
EXTENDS Naturals, Sequences, FiniteSets

\* The rows that come before row n: those of fewer agents, and the earlier ones of
\* as many.
RowsBefore(agents, n) ==
  { m \in DOMAIN agents : agents[m] < agents[n] \/ (agents[m] = agents[n] /\ m < n) }

RowAt(agents, place) ==
  CHOOSE n \in DOMAIN agents : Cardinality(RowsBefore(agents, n)) = place - 1

SortedByAgents(agents, rows) == [place \in DOMAIN rows |-> rows[RowAt(agents, place)]]

=============================================================================
