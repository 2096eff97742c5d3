----------------------------- MODULE MCTeamSweep -----------------------------
(* Small instances of TeamSweep for TLC. *)
EXTENDS TeamSweep

\* Two context lengths and two agent counts, the larger one first.
MCContextLengths == <<1024, 2048>>

MCAgentCounts == <<2, 1>>

\* The errors of all children together: those of two agents and
\* of the firecracker runner fit.
MaxErrors == 3

MCNext == GridNext /\ Len(errors') <= MaxErrors

Stopped == at \in {"done", "crashed"} /\ UNCHANGED gridVars

MCSpec == GridInit /\ [][MCNext \/ Stopped]_gridVars

=============================================================================
