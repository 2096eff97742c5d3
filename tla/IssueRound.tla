----------------------------- MODULE IssueRound -----------------------------
(***************************************************************************)
(* The decisions a repair round of mini_swe_agent_team_v2 takes about one  *)
(* candidate: TestVerifierAgent, PatchReviewerAgent and                    *)
(* RepairLoopController, as operators on what they read.                   *)
(*                                                                         *)
(* A log is the set of markers found in its text; a patch is one of the    *)
(* kinds the reviewer tells apart.                                         *)
(***************************************************************************)
EXTENDS Naturals

\* Substrings the reviewer and the verifier look for.  A text that contains
\* "1 passed" or "verify command passed" contains "passed" as well.
Markers == {"passed", "1 passed", "verify command passed", "submit", "python error"}

LogTexts == { m \in SUBSET Markers :
                 "1 passed" \in m \/ "verify command passed" \in m => "passed" \in m }

PatchKinds == {"missing", "empty", "clean", "dangerous"}

ReviewStatuses == {"approved", "warning", "rejected"}

AcceptedReviews == {"approved", "warning"}

RetryReasons == {"none", "review_rejected", "test_failed"}

-----------------------------------------------------------------------------
\* What the reviewer takes for a passed test.  It asks for "1 passed" where the
\* verifier is content with "passed".
ReviewerSeesPass(log) ==
  log \cap {"1 passed", "submit", "verify command passed"} # {}

\* PatchReviewerAgent.review
Review(patch, log) ==
  IF patch = "empty" /\ ReviewerSeesPass(log)
  THEN "warning"
  ELSE IF \/ patch \in {"missing", "empty", "dangerous"}
          \/ "python error" \in log
       THEN "rejected"
       ELSE "approved"

\* TestVerifierAgent.verify_synthetic
VerifySynthetic(log) == log \cap {"passed", "submit"} # {}

\* TestVerifierAgent.verify_command: the verdict and the log it leaves for the
\* reviewer, for every way the command can end: success with some output,
\* success in silence (the verifier writes a log of its own), a non-zero exit,
\* or a timeout, which leaves an empty log.
VerifyCommandOutcomes(outputs) ==
  [verified : {TRUE}, log : outputs \cup {{"passed", "verify command passed"}}]
  \cup [verified : {FALSE}, log : outputs \cup {{}}]

\* Mutant of ShouldRetry: one round too many is asked for.
ShouldRetryTooLate(done, maxRounds, onReject, onTestFailure, review, verified) ==
  IF done > maxRounds THEN "none"
  ELSE IF onReject /\ review = "rejected" THEN "review_rejected"
  ELSE IF onTestFailure /\ ~verified THEN "test_failed"
  ELSE "none"

\* Mutant of ShouldRetry: the last round the plan allows is never run.
ShouldRetryTooEarly(done, maxRounds, onReject, onTestFailure, review, verified) ==
  IF done + 1 >= maxRounds THEN "none"
  ELSE IF onReject /\ review = "rejected" THEN "review_rejected"
  ELSE IF onTestFailure /\ ~verified THEN "test_failed"
  ELSE "none"

\* Mutant of ShouldRetry: the test is asked about before the review.
ShouldRetryTestFirst(done, maxRounds, onReject, onTestFailure, review, verified) ==
  IF done >= maxRounds THEN "none"
  ELSE IF onTestFailure /\ ~verified THEN "test_failed"
  ELSE IF onReject /\ review = "rejected" THEN "review_rejected"
  ELSE "none"

\* RepairLoopController.should_retry.  done is the number of rounds finished
\* when it is asked, round_id + 1 in the code.
ShouldRetry(done, maxRounds, onReject, onTestFailure, review, verified) ==
  IF done >= maxRounds THEN "none"
  ELSE IF onReject /\ review = "rejected" THEN "review_rejected"
  ELSE IF onTestFailure /\ ~verified THEN "test_failed"
  ELSE "none"

\* Whether the loop of SWEWorkerAgent.run_issue takes the candidate.
Accepts(verified, review) == verified /\ review \in AcceptedReviews

\* The status of an issue whose last candidate was not taken.
RejectionStatus(review) ==
  IF review = "rejected" THEN "review_rejected" ELSE "test_failed"

=============================================================================
