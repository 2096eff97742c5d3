----------------------------- MODULE MCTeamRun -----------------------------
(* Small instances of TeamRun for TLC. *)
EXTENDS TeamRun

\* A log for each way verifier and reviewer can agree or differ: nothing
\* conclusive, "2 passed", "1 passed", and a pass with a traceback.
MCLogs == { {}, {"passed"}, {"passed", "1 passed"}, {"passed", "python error"} }

MCFewLogs == { {}, {"passed"} }

MCCommandIssues == {1}

MCNone == {}

\* The system stops when it has published or crashed.
Stopped == phase \in {"done", "crashed"} /\ UNCHANGED vars

MCSpec == Init /\ [][Next \/ Stopped]_vars

MCFairSpec == MCSpec /\ Fairness

============================================================================
