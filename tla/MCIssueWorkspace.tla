-------------------------- MODULE MCIssueWorkspace --------------------------
(* A small instance of IssueWorkspace for TLC: two issues of one agent in one  *)
(* run.  The second issue_id is so long that its round is cut off the name of  *)
(* its container, and as one of its characters is replaced what is left is the *)
(* name of round 0 of the first.                                               *)
EXTENDS IssueWorkspace, TLC

CONSTANTS w1, w2, r1

Short == <<"b", "_">>

Long == <<"b", "_", "/", "0", "b">>

ShortAndLong == {Short, Long}

IdOfCall == (w1 :> Short) @@ (w2 :> Long)

OneRun == [w \in {w1, w2} |-> r1]

OneAgent == [w \in {w1, w2} |-> <<"a">>]

TwoDigits == (0 :> <<"0">>) @@ (1 :> <<"1">>)

Finished ==
  /\ \A w \in Workers : pc[w] \in {"done", "raised", "timeout"} /\ cli[w] = "none"
  /\ UNCHANGED vars

MCSpec == Init /\ [][Next \/ Finished]_vars

=============================================================================
