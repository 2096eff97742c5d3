----------------------------- MODULE MCDashboard -----------------------------
(* Small instances of Dashboard for TLC. *)
EXTENDS Dashboard

\* The clients have sent all their requests and every one was answered.
Finished == sent = MaxRequests /\ (\A t \in Threads : pc[t] = "idle") /\ UNCHANGED vars

MCSpec == Init /\ [][Next \/ Finished]_vars

MCFairSpec == MCSpec /\ Fairness

=============================================================================
