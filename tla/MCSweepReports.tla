--------------------------- MODULE MCSweepReports ---------------------------
(* A small instance of SweepReports for TLC. *)
EXTENDS SweepReports

Stopped ==
  /\ phase \in {"done", "failed", "killed"} /\ \A t \in Gets : at[t] = "idle"
  /\ UNCHANGED <<vars, reportVars>>

MCFairSpec ==
  /\ AllInit /\ [][AllNext \/ Stopped]_<<vars, reportVars>>
  /\ \A t \in Gets : WF_<<vars, reportVars>>(Handle(t) /\ UNCHANGED vars)

=============================================================================
