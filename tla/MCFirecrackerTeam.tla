-------------------------- MODULE MCFirecrackerTeam --------------------------
(* Small instances of FirecrackerTeam for TLC. *)
EXTENDS FirecrackerTeam

\* The system stops when it has published or crashed, once the VMs have.
Stopped == phase \in {"done", "crashed"} /\ UNCHANGED vars

MCSpec == Init /\ [][Next \/ Stopped]_vars

MCFairSpec == MCSpec /\ Fairness

=============================================================================
