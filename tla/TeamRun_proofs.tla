--------------------------- MODULE TeamRun_proofs ---------------------------
(***************************************************************************)
(* Proofs about TeamRun for every number of issues, agents, threads and    *)
(* rounds, and every retry policy.                                         *)
(***************************************************************************)
EXTENDS TeamRun, SequenceTheorems, FunctionTheorems, FiniteSetTheorems,
        Counting, TLAPS

\* What PatchReviewerAgent.review answers.
LEMMA ReviewType ==
  ASSUME NEW patch, NEW log
  PROVE  Review(patch, log) \in ReviewStatuses
BY DEF Review, ReviewStatuses

\* What RepairLoopController.should_retry answers.
LEMMA ShouldRetryType ==
  ASSUME NEW done, NEW max, NEW onReject, NEW onTest, NEW review, NEW verified
  PROVE  ShouldRetry(done, max, onReject, onTest, review, verified) \in RetryReasons
BY DEF ShouldRetry, RetryReasons

\* A round that accepts its candidate asks for no other, and a reason given is
\* the reason the policy names.
LEMMA ShouldRetryMeaning ==
  ASSUME NEW done \in Nat, NEW max \in Nat, NEW onReject \in BOOLEAN, NEW onTest \in BOOLEAN,
         NEW review \in ReviewStatuses, NEW verified \in BOOLEAN
  PROVE  LET retry == ShouldRetry(done, max, onReject, onTest, review, verified)
         IN  /\ retry # "none" => done < max /\ ~Accepts(verified, review)
             /\ retry = "review_rejected" => onReject /\ review = "rejected"
             /\ retry = "test_failed" =>
                  onTest /\ ~verified /\ (onReject => review # "rejected")
             /\ retry = "none" /\ done < max =>
                  (review = "rejected" => ~onReject) /\ (~verified => ~onTest)
BY DEF ShouldRetry, Accepts, AcceptedReviews, ReviewStatuses

\* A verified command or log leaves one of the texts the reviewer can read.
LEMMA VerifyType ==
  ASSUME NEW v \in VerifyCommandOutcomes(CliLogs)
  PROVE  v \in [verified : BOOLEAN, log : LogTexts]
<1>1. {} \in LogTexts /\ {"passed", "verify command passed"} \in LogTexts
  BY DEF LogTexts, Markers
<1>2. QED
  BY <1>1, ConfigAssumption DEF VerifyCommandOutcomes

\* The round appended by ReviewRound is a round.
LEMMA RoundType ==
  ASSUME TypeOK, NEW i \in Issues
  PROVE  RoundOf(i) \in Round
BY ReviewType, ShouldRetryType DEF TypeOK, RoundOf, Round

-----------------------------------------------------------------------------
\* Every variable of a team run keeps its type: statuses are issue statuses,
\* logs are texts the verifier can leave, every row has the fields of a row.
THEOREM TypeCorrect == Spec => []TypeOK
<1>1. Init => TypeOK
  <2>1. NoDraft \in [patch : PatchKinds, log : LogTexts, verified : BOOLEAN]
    BY DEF NoDraft, PatchKinds, LogTexts, Markers
  <2>2. QED
    BY <2>1 DEF Init, TypeOK, Outcome, Statuses, InRunIssue
<1>2. TypeOK /\ [Next]_vars => TypeOK'
  <2> SUFFICES ASSUME TypeOK, [Next]_vars
               PROVE  TypeOK'
    OBVIOUS
  <2>0. NoDraft \in [patch : PatchKinds, log : LogTexts, verified : BOOLEAN]
    BY DEF NoDraft, PatchKinds, LogTexts, Markers
  <2>1. CASE CheckAndSubmit
    BY <2>1 DEF CheckAndSubmit, TypeOK, InRunIssue, Error
  <2>2. CASE ProbeMissing
    BY <2>2 DEF ProbeMissing, TypeOK, workerVars, ledgerVars
  <2>3. ASSUME NEW i \in Issues, StartIssue(i)
        PROVE  TypeOK'
    BY <2>3 DEF StartIssue, TypeOK, mainVars, ledgerVars, InRunIssue
  <2>4. ASSUME NEW i \in Issues, PrepareIssue(i)
        PROVE  TypeOK'
    BY <2>4 DEF PrepareIssue, TypeOK, mainVars, ledgerVars, InRunIssue
  <2>5. ASSUME NEW i \in Issues, Generate(i)
        PROVE  TypeOK'
    <3>1. PICK patch \in {"empty", "clean", "dangerous"}, log \in CliLogs :
            draft' = [draft EXCEPT ![i] =
              IF AdapterMode = "mock"
              THEN [patch |-> "clean", log |-> {"passed", "1 passed"}, verified |-> FALSE]
              ELSE [patch |-> patch, log |-> log, verified |-> FALSE]]
      BY <2>5 DEF Generate
    <3>2. {"passed", "1 passed"} \in LogTexts /\ log \in LogTexts
      BY ConfigAssumption DEF LogTexts, Markers
    <3>3. draft' \in [Issues -> [patch : PatchKinds, log : LogTexts, verified : BOOLEAN]]
      BY <3>1, <3>2 DEF TypeOK, PatchKinds
    <3>4. QED
      BY <2>5, <3>3 DEF Generate, TypeOK, mainVars, ledgerVars, InRunIssue
  <2>6. ASSUME NEW i \in Issues, Verify(i)
        PROVE  TypeOK'
    <3>1. PICK v \in [verified : BOOLEAN, log : LogTexts] :
            draft' = [draft EXCEPT ![i] =
              [patch |-> draft[i].patch, log |-> v.log, verified |-> v.verified]]
      <4>1. CASE i \in CommandIssues
        BY <2>6, <4>1, VerifyType DEF Verify
      <4>2. CASE i \notin CommandIssues
        <5>1. draft[i].log \in LogTexts
          BY DEF TypeOK
        <5>2. [verified |-> VerifySynthetic(draft[i].log), log |-> draft[i].log]
                \in [verified : BOOLEAN, log : LogTexts]
          BY <5>1 DEF VerifySynthetic
        <5>3. QED
          BY <2>6, <4>2, <5>2 DEF Verify
      <4>3. QED
        BY <4>1, <4>2
    <3>2. draft' \in [Issues -> [patch : PatchKinds, log : LogTexts, verified : BOOLEAN]]
      BY <3>1 DEF TypeOK
    <3>3. QED
      BY <2>6, <3>2 DEF Verify, TypeOK, mainVars, ledgerVars, InRunIssue
  <2>7. ASSUME NEW i \in Issues, ReviewRound(i)
        PROVE  TypeOK'
    <3>1. RoundOf(i) \in Round
      BY RoundType
    <3>2. rounds' \in [Issues -> Seq(Round)]
      BY <2>7, <3>1, AppendProperties DEF ReviewRound, TypeOK
    <3>3. draft' \in [Issues -> [patch : PatchKinds, log : LogTexts, verified : BOOLEAN]]
      BY <2>7, <2>0 DEF ReviewRound, TypeOK
    <3>4. outcome' \in [Issues -> Outcome]
      <4>1. /\ [status |-> "verified_success", verified |-> TRUE] \in Outcome
            /\ [status |-> RejectionStatus(RoundOf(i).review), verified |-> FALSE] \in Outcome
        BY DEF RejectionStatus, Statuses, Outcome
      <4>2. PICK o \in Outcome : outcome' = [outcome EXCEPT ![i] = o] \/ outcome' = outcome
        BY <2>7, <4>1 DEF ReviewRound
      <4>3. QED
        BY <4>2 DEF TypeOK
    <3>5. pc' \in [Issues -> {"planned", "queued", "returned", "raised", "collected"} \cup InRunIssue]
      BY <2>7 DEF ReviewRound, TypeOK, InRunIssue
    <3>6. QED
      BY <2>7, <3>2, <3>3, <3>4, <3>5 DEF ReviewRound, TypeOK, mainVars, ledgerVars
  <2>8. ASSUME NEW i \in Issues, Raise(i)
        PROVE  TypeOK'
    BY <2>8, <2>0 DEF Raise, TypeOK, mainVars, ledgerVars
  <2>9. ASSUME NEW i \in Issues, CollectReturned(i)
        PROVE  TypeOK'
    <3>1. [issue |-> i, status |-> outcome[i].status, verified |-> outcome[i].verified,
           rounds |-> rounds[i]] \in Row
      BY DEF TypeOK, Row, Outcome
    <3>2. issues' \in Seq(Row)
      BY <2>9, <3>1, AppendProperties DEF CollectReturned, TypeOK
    <3>3. QED
      BY <2>9, <3>2 DEF CollectReturned, TypeOK, mainVars
  <2>10. ASSUME NEW i \in Issues, CollectRaised(i)
         PROVE  TypeOK'
    <3>1. [issue |-> i, status |-> "failed", verified |-> FALSE, rounds |-> <<>>] \in Row
      BY DEF Row, Statuses
    <3>2. issues' \in Seq(Row)
      BY <2>10, <3>1, AppendProperties DEF CollectRaised, TypeOK
    <3>3. QED
      BY <2>10, <3>2 DEF CollectRaised, TypeOK, mainVars, Error
  <2>11. CASE Publish
    BY <2>11 DEF Publish, TypeOK, workerVars
  <2>12. CASE UNCHANGED vars
    BY <2>12 DEF vars, mainVars, workerVars, ledgerVars, TypeOK
  <2>13. QED
    BY <2>1, <2>2, <2>3, <2>4, <2>5, <2>6, <2>7, <2>8, <2>9, <2>10, <2>11, <2>12
    DEF Next, Check, WorkerStep, Collect
<1>3. QED
  BY <1>1, <1>2, PTL DEF Spec

-----------------------------------------------------------------------------
\* What holds of one issue between two steps: while it is being worked on every
\* round it has asks for another and there is room for one; once returned, its
\* outcome is the verdict of a last round that asks for none.
ChainAt(i) ==
  /\ pc[i] \in {"planned", "queued", "preparing", "raised"} => rounds[i] = <<>>
  /\ pc[i] \in {"generating", "verifying", "reviewing"} =>
       /\ Len(rounds[i]) < MaxRounds
       /\ \A n \in 1..Len(rounds[i]) : rounds[i][n].retry # "none"
  /\ Len(rounds[i]) <= MaxRounds
  /\ \A n \in 1..Len(rounds[i]) :
       /\ n < Len(rounds[i]) => rounds[i][n].retry # "none"
       /\ rounds[i][n].retry # "none" => ~Accepts(rounds[i][n].verified, rounds[i][n].review)
       /\ rounds[i][n].retry = "review_rejected" =>
            RetryOnReject /\ rounds[i][n].review = "rejected"
       /\ rounds[i][n].retry = "test_failed" =>
            /\ RetryOnTest /\ ~rounds[i][n].verified
            /\ RetryOnReject => rounds[i][n].review # "rejected"
  /\ pc[i] = "returned" =>
       /\ rounds[i] # <<>>
       /\ LastRound(rounds[i]).retry = "none"
       /\ outcome[i] = IF Accepts(LastRound(rounds[i]).verified, LastRound(rounds[i]).review)
                       THEN [status |-> "verified_success", verified |-> TRUE]
                       ELSE [status |-> RejectionStatus(LastRound(rounds[i]).review),
                             verified |-> FALSE]
       /\ Len(rounds[i]) < MaxRounds =>
            \/ Accepts(LastRound(rounds[i]).verified, LastRound(rounds[i]).review)
            \/ /\ LastRound(rounds[i]).review = "rejected" => ~RetryOnReject
               /\ ~LastRound(rounds[i]).verified => ~RetryOnTest

ChainInv == \A i \in Issues : ChainAt(i)

\* Places and rounds that fit give the three properties about rounds.
LEMMA ChainImplies == ChainInv => RetryChain /\ OutcomeFromLastRound /\ NoEarlyGiveUp
BY DEF ChainInv, ChainAt, RetryChain, OutcomeFromLastRound, NoEarlyGiveUp

\* An issue whose state a step leaves alone keeps its part of the invariant.
LEMMA ChainFrame ==
  ASSUME NEW i \in Issues, ChainAt(i),
         pc'[i] = pc[i], rounds'[i] = rounds[i], outcome'[i] = outcome[i]
  PROVE  ChainAt(i)'
BY DEF ChainAt

\* The round that ends an iteration of run_issue's loop extends the chain.
LEMMA ReviewRoundChain ==
  ASSUME TypeOK, NEW i \in Issues, ChainAt(i), ReviewRound(i)
  PROVE  ChainAt(i)'
<1> DEFINE r == RoundOf(i)
           L == Len(rounds[i])
<1>1. r \in Round /\ L \in Nat /\ rounds[i] \in Seq(Round)
  BY RoundType, LenProperties DEF TypeOK
<1>2. /\ rounds'[i] = Append(rounds[i], r)
      /\ Len(rounds'[i]) = L + 1
      /\ \A n \in 1..L : rounds'[i][n] = rounds[i][n]
      /\ rounds'[i][L + 1] = r
  <2>1. rounds'[i] = Append(rounds[i], r)
    BY DEF ReviewRound, TypeOK
  <2>2. QED
    BY <2>1, <1>1, AppendProperties
<1>3. LastRound(rounds'[i]) = r
  BY <1>2 DEF LastRound
<1>4. /\ L < MaxRounds
      /\ \A n \in 1..L : rounds[i][n].retry # "none"
  BY DEF ChainAt, ReviewRound
<1>5. /\ r.retry # "none" => L + 1 < MaxRounds /\ ~Accepts(r.verified, r.review)
      /\ r.retry = "review_rejected" => RetryOnReject /\ r.review = "rejected"
      /\ r.retry = "test_failed" =>
           RetryOnTest /\ ~r.verified /\ (RetryOnReject => r.review # "rejected")
      /\ r.retry = "none" /\ L + 1 < MaxRounds =>
           (r.review = "rejected" => ~RetryOnReject) /\ (~r.verified => ~RetryOnTest)
  <2>1. r.review \in ReviewStatuses /\ r.verified \in BOOLEAN /\ L + 1 \in Nat
    BY <1>1 DEF Round
  <2>2. r.retry = ShouldRetry(L + 1, MaxRounds, RetryOnReject, RetryOnTest, r.review, r.verified)
    BY DEF RoundOf
  <2>3. QED
    BY <2>1, <2>2, ShouldRetryMeaning, CountsAssumption, ConfigAssumption
<1>6. \A n \in 1..(L + 1) : rounds'[i][n] = IF n = L + 1 THEN r ELSE rounds[i][n]
  BY <1>1, <1>2
<1>7. \A n \in 1..(L + 1) :
        /\ n < L + 1 => rounds'[i][n].retry # "none"
        /\ rounds'[i][n].retry # "none" => ~Accepts(rounds'[i][n].verified, rounds'[i][n].review)
        /\ rounds'[i][n].retry = "review_rejected" =>
             RetryOnReject /\ rounds'[i][n].review = "rejected"
        /\ rounds'[i][n].retry = "test_failed" =>
             /\ RetryOnTest /\ ~rounds'[i][n].verified
             /\ RetryOnReject => rounds'[i][n].review # "rejected"
  <2> SUFFICES ASSUME NEW n \in 1..(L + 1)
               PROVE  /\ n < L + 1 => rounds'[i][n].retry # "none"
                      /\ rounds'[i][n].retry # "none" =>
                           ~Accepts(rounds'[i][n].verified, rounds'[i][n].review)
                      /\ rounds'[i][n].retry = "review_rejected" =>
                           RetryOnReject /\ rounds'[i][n].review = "rejected"
                      /\ rounds'[i][n].retry = "test_failed" =>
                           /\ RetryOnTest /\ ~rounds'[i][n].verified
                           /\ RetryOnReject => rounds'[i][n].review # "rejected"
    OBVIOUS
  <2>1. CASE n = L + 1
    BY <2>1, <1>1, <1>5, <1>6
  <2>2. CASE n # L + 1
    <3>1. n \in 1..L /\ rounds'[i][n] = rounds[i][n]
      BY <2>2, <1>1, <1>6
    <3>2. QED
      BY <3>1, <1>4 DEF ChainAt
  <2>3. QED
    BY <2>1, <2>2
<1>8. CASE Accepts(r.verified, r.review)
  <2>1. /\ pc'[i] = "returned"
        /\ outcome'[i] = [status |-> "verified_success", verified |-> TRUE]
    BY <1>8 DEF ReviewRound, TypeOK
  <2>2. r.retry = "none" /\ rounds'[i] # <<>>
    BY <1>8, <1>5, <1>2, <1>1, AppendProperties
  <2>3. QED
    BY <2>1, <2>2, <1>1, <1>2, <1>3, <1>4, <1>7, <1>8, CountsAssumption DEF ChainAt
<1>9. CASE ~Accepts(r.verified, r.review) /\ r.retry = "none"
  <2>1. /\ pc'[i] = "returned"
        /\ outcome'[i] = [status |-> RejectionStatus(r.review), verified |-> FALSE]
    BY <1>9 DEF ReviewRound, TypeOK
  <2>2. rounds'[i] # <<>>
    BY <1>2, <1>1, AppendProperties
  <2>3. QED
    BY <2>1, <2>2, <1>1, <1>2, <1>3, <1>4, <1>5, <1>7, <1>9, CountsAssumption DEF ChainAt
<1>10. CASE ~Accepts(r.verified, r.review) /\ r.retry # "none"
  <2>1. L + 1 < MaxRounds /\ pc'[i] = "generating"
    BY <1>10, <1>5 DEF ReviewRound, TypeOK
  <2>2. \A n \in 1..(L + 1) : rounds'[i][n].retry # "none"
    BY <1>10, <1>1, <1>4, <1>6
  <2>3. QED
    BY <2>1, <2>2, <1>1, <1>2, <1>7, CountsAssumption DEF ChainAt
<1>11. QED
  BY <1>8, <1>9, <1>10

-----------------------------------------------------------------------------
\* The futures exist from submit to the end of the run.
StageInv ==
  /\ \A i \in Issues : pc[i] = "planned" <=> phase \in {"checking", "crashed"}
  /\ phase = "done" => \A i \in Issues : pc[i] = "collected"

\* The order of checks, pool and publication, step by step.
LEMMA StageStep ==
  ASSUME TypeOK, StageInv, [Next]_vars
  PROVE  StageInv'
<1> USE DEF StageInv, TypeOK
<1>1. CASE CheckAndSubmit
  BY <1>1 DEF CheckAndSubmit
<1>2. CASE ProbeMissing
  BY <1>2 DEF ProbeMissing, workerVars
<1>3. ASSUME NEW i \in Issues, StartIssue(i)
      PROVE  StageInv'
  BY <1>3 DEF StartIssue, mainVars
<1>4. ASSUME NEW i \in Issues, PrepareIssue(i) \/ Generate(i) \/ Verify(i)
      PROVE  StageInv'
  BY <1>4 DEF PrepareIssue, Generate, Verify, mainVars
<1>5. ASSUME NEW i \in Issues, ReviewRound(i)
      PROVE  StageInv'
  BY <1>5 DEF ReviewRound, mainVars
<1>6. ASSUME NEW i \in Issues, Raise(i)
      PROVE  StageInv'
  BY <1>6 DEF Raise, mainVars, InRunIssue
<1>7. ASSUME NEW i \in Issues, Collect(i)
      PROVE  StageInv'
  BY <1>7 DEF Collect, CollectReturned, CollectRaised, mainVars
<1>8. CASE Publish
  BY <1>8 DEF Publish, workerVars
<1>9. CASE UNCHANGED vars
  BY <1>9 DEF vars, mainVars, workerVars
<1>10. QED
  BY <1>1, <1>2, <1>3, <1>4, <1>5, <1>6, <1>7, <1>8, <1>9 DEF Next, Check, WorkerStep

\* Places and rounds, step by step.
LEMMA ChainStep ==
  ASSUME TypeOK, StageInv, ChainInv, [Next]_vars
  PROVE  ChainInv'
<1> SUFFICES ASSUME NEW j \in Issues
             PROVE  ChainAt(j)'
  BY DEF ChainInv
<1>0. ChainAt(j)
  BY DEF ChainInv
<1>1. CASE CheckAndSubmit
  <2>1. pc[j] = "planned" /\ pc'[j] = "queued" /\ rounds' = rounds
    BY <1>1 DEF CheckAndSubmit, StageInv
  <2>2. rounds'[j] = <<>>
    BY <2>1, <1>0 DEF ChainAt
  <2>3. QED
    BY <2>1, <2>2, CountsAssumption DEF ChainAt
<1>2. CASE ProbeMissing
  BY <1>0, <1>2, ChainFrame DEF ProbeMissing, workerVars
<1>3. ASSUME NEW i \in Issues, StartIssue(i)
      PROVE  ChainAt(j)'
  <2>1. CASE i = j
    BY <1>0, <1>3, <2>1 DEF StartIssue, ChainAt, TypeOK
  <2>2. CASE i # j
    BY <1>0, <1>3, <2>2, ChainFrame DEF StartIssue, TypeOK
  <2>3. QED
    BY <2>1, <2>2
<1>4. ASSUME NEW i \in Issues, PrepareIssue(i)
      PROVE  ChainAt(j)'
  <2>1. CASE i = j
    <3>1. rounds'[j] = <<>> /\ pc'[j] = "generating"
      BY <1>0, <1>4, <2>1 DEF PrepareIssue, ChainAt, TypeOK
    <3>2. QED
      BY <3>1, CountsAssumption DEF ChainAt
  <2>2. CASE i # j
    BY <1>0, <1>4, <2>2, ChainFrame DEF PrepareIssue, TypeOK
  <2>3. QED
    BY <2>1, <2>2
<1>5. ASSUME NEW i \in Issues, Generate(i) \/ Verify(i)
      PROVE  ChainAt(j)'
  <2>1. CASE i = j
    <3>1. /\ rounds' = rounds
          /\ pc[j] \in {"generating", "verifying"} /\ pc'[j] \in {"verifying", "reviewing"}
      BY <1>5, <2>1 DEF Generate, Verify, TypeOK
    <3>2. QED
      BY <3>1, <1>0 DEF ChainAt
  <2>2. CASE i # j
    BY <1>0, <1>5, <2>2, ChainFrame DEF Generate, Verify, TypeOK
  <2>3. QED
    BY <2>1, <2>2
<1>6. ASSUME NEW i \in Issues, ReviewRound(i)
      PROVE  ChainAt(j)'
  <2>1. CASE i = j
    BY <1>0, <1>6, <2>1, ReviewRoundChain
  <2>2. CASE i # j
    <3>1. pc'[j] = pc[j] /\ rounds'[j] = rounds[j] /\ outcome'[j] = outcome[j]
      BY <1>6, <2>2 DEF ReviewRound, TypeOK
    <3>2. QED
      BY <1>0, <3>1, ChainFrame
  <2>3. QED
    BY <2>1, <2>2
<1>7. ASSUME NEW i \in Issues, Raise(i)
      PROVE  ChainAt(j)'
  <2>1. CASE i = j
    <3>1. rounds'[j] = <<>> /\ pc'[j] = "raised"
      BY <1>7, <2>1 DEF Raise, TypeOK
    <3>2. QED
      BY <3>1, CountsAssumption DEF ChainAt
  <2>2. CASE i # j
    BY <1>0, <1>7, <2>2, ChainFrame DEF Raise, TypeOK
  <2>3. QED
    BY <2>1, <2>2
<1>8. ASSUME NEW i \in Issues, Collect(i)
      PROVE  ChainAt(j)'
  <2>1. CASE i = j
    <3>1. rounds' = rounds /\ pc'[j] = "collected"
      BY <1>8, <2>1 DEF Collect, CollectReturned, CollectRaised, TypeOK
    <3>2. QED
      BY <3>1, <1>0 DEF ChainAt
  <2>2. CASE i # j
    BY <1>0, <1>8, <2>2, ChainFrame DEF Collect, CollectReturned, CollectRaised, TypeOK
  <2>3. QED
    BY <2>1, <2>2
<1>9. CASE Publish
  BY <1>0, <1>9, ChainFrame DEF Publish, workerVars
<1>10. CASE UNCHANGED vars
  BY <1>0, <1>10, ChainFrame DEF vars, workerVars
<1>11. QED
  BY <1>1, <1>2, <1>3, <1>4, <1>5, <1>6, <1>7, <1>8, <1>9, <1>10 DEF Next, Check, WorkerStep

\* So places and rounds always fit.
LEMMA ChainCorrect == Spec => [](StageInv /\ ChainInv)
<1>1. Init => StageInv /\ ChainInv
  BY CountsAssumption DEF Init, StageInv, ChainInv, ChainAt
<1>2. TypeOK /\ StageInv /\ ChainInv /\ [Next]_vars => (StageInv /\ ChainInv)'
  BY StageStep, ChainStep
<1>3. QED
  BY <1>1, <1>2, TypeCorrect, PTL DEF Spec

\* For any number of issues and threads and any retry policy: the rounds of an
\* issue are one chain of justified retries.
THEOREM RepairRoundsChain == Spec => []RetryChain
<1>1. ChainInv => RetryChain
  BY ChainImplies
<1>2. QED
  BY <1>1, ChainCorrect, PTL

\* An issue's status and verified flag are the verdict of its last round.
THEOREM OutcomeIsLastVerdict == Spec => []OutcomeFromLastRound
<1>1. ChainInv => OutcomeFromLastRound
  BY ChainImplies
<1>2. QED
  BY <1>1, ChainCorrect, PTL

\* No issue is given up while the policy allows another round.
THEOREM GivesUpOnlyByPolicy == Spec => []NoEarlyGiveUp
<1>1. ChainInv => NoEarlyGiveUp
  BY ChainImplies
<1>2. QED
  BY <1>1, ChainCorrect, PTL

-----------------------------------------------------------------------------
\* The rows of the ledger are those of the collected futures, each once, and
\* errors names issues that were collected.
RowOK(row, errs) ==
  /\ row.verified <=> row.status = "verified_success"
  /\ row.status = "failed" <=> row.rounds = <<>>
  /\ row.status = "failed" <=> [kind |-> "issue", issue |-> row.issue] \in errs

LedgerInv ==
  /\ \A j, k \in DOMAIN issues : issues[j].issue = issues[k].issue => j = k
  /\ \A k \in DOMAIN issues : pc[issues[k].issue] = "collected" /\ RowOK(issues[k], errors)
  /\ \A i \in Issues : pc[i] = "collected" => \E k \in DOMAIN issues : issues[k].issue = i
  /\ \A i \in Issues : [kind |-> "issue", issue |-> i] \in errors => pc[i] = "collected"

\* Each row is of an issue of the run.
LEMMA RowIssue ==
  ASSUME TypeOK
  PROVE  \A k \in DOMAIN issues : issues[k].issue \in Issues
<1>1. \A k \in DOMAIN issues : issues[k] \in Row
  BY LenProperties DEF TypeOK
<1>2. QED
  BY <1>1 DEF Row

\* Rows and places that fit give the property about the ledger.
LEMMA LedgerImplies ==
  ASSUME TypeOK, StageInv, LedgerInv
  PROVE  LedgerMatchesFutures
<1>1. \A k \in DOMAIN issues : issues[k].issue \in Issues
  BY RowIssue
<1>2. { issues[k].issue : k \in DOMAIN issues } = { i \in Issues : pc[i] = "collected" }
  BY <1>1 DEF LedgerInv
<1>3. QED
  BY <1>2 DEF LedgerInv, StageInv, LedgerMatchesFutures, RowOK

\* A row appended for an issue that had none keeps the ledger in order.
LEMMA AppendRow ==
  ASSUME TypeOK, LedgerInv, NEW i \in Issues, NEW row \in Row, row.issue = i,
         pc[i] # "collected", pc' = [pc EXCEPT ![i] = "collected"],
         issues' = Append(issues, row),
         RowOK(row, errors'),
         \A j \in Issues \ {i} : [kind |-> "issue", issue |-> j] \in errors'
                                <=> [kind |-> "issue", issue |-> j] \in errors
  PROVE  LedgerInv'
<1> DEFINE L == Len(issues)
<1>1. /\ L \in Nat /\ DOMAIN issues = 1..L /\ DOMAIN issues' = 1..(L + 1)
      /\ \A k \in 1..L : issues'[k] = issues[k]
      /\ issues'[L + 1] = row
  BY AppendProperties, LenProperties DEF TypeOK
<1>2. \A k \in 1..L : issues[k].issue \in Issues /\ issues[k].issue # i
  <2>1. \A k \in 1..L : issues[k] \in Row
    BY <1>1 DEF TypeOK
  <2>2. QED
    BY <2>1, <1>1 DEF LedgerInv, Row
<1>3. \A j, k \in DOMAIN issues' : issues'[j].issue = issues'[k].issue => j = k
  BY <1>1, <1>2 DEF LedgerInv
<1>4. \A k \in DOMAIN issues' : pc'[issues'[k].issue] = "collected" /\ RowOK(issues'[k], errors')
  <2> SUFFICES ASSUME NEW k \in 1..(L + 1)
               PROVE  pc'[issues'[k].issue] = "collected" /\ RowOK(issues'[k], errors')
    BY <1>1
  <2>1. CASE k = L + 1
    <3>1. issues'[k] = row
      BY <2>1, <1>1
    <3>2. QED
      BY <3>1 DEF TypeOK, RowOK
  <2>2. CASE k # L + 1
    <3>1. k \in 1..L /\ issues'[k] = issues[k]
      BY <2>2, <1>1
    <3>2. issues[k].issue \in Issues \ {i} /\ RowOK(issues[k], errors) /\ pc[issues[k].issue] = "collected"
      BY <3>1, <1>1, <1>2 DEF LedgerInv
    <3>3. QED
      BY <3>1, <3>2 DEF TypeOK, RowOK
  <2>3. QED
    BY <2>1, <2>2
<1>5. \A j \in Issues : pc'[j] = "collected" => \E k \in DOMAIN issues' : issues'[k].issue = j
  <2> SUFFICES ASSUME NEW j \in Issues, pc'[j] = "collected"
               PROVE  \E k \in DOMAIN issues' : issues'[k].issue = j
    OBVIOUS
  <2>1. CASE j = i
    BY <2>1, <1>1
  <2>2. CASE j # i
    <3>1. PICK k \in 1..L : issues[k].issue = j
      BY <2>2, <1>1 DEF LedgerInv, TypeOK
    <3>2. QED
      BY <3>1, <1>1
  <2>3. QED
    BY <2>1, <2>2
<1>6. \A j \in Issues : [kind |-> "issue", issue |-> j] \in errors' => pc'[j] = "collected"
  BY DEF LedgerInv, TypeOK
<1>7. QED
  BY <1>3, <1>4, <1>5, <1>6 DEF LedgerInv

\* A step that makes no row, and moves an issue only inside the pool, keeps the ledger.
LEMMA LedgerFrame ==
  ASSUME TypeOK, LedgerInv, issues' = issues,
         \A i \in Issues : pc'[i] = "collected" <=> pc[i] = "collected",
         \A i \in Issues : [kind |-> "issue", issue |-> i] \in errors'
                           <=> [kind |-> "issue", issue |-> i] \in errors
  PROVE  LedgerInv'
<1>1. \A k \in DOMAIN issues : issues[k].issue \in Issues
  BY RowIssue
<1>2. QED
  BY <1>1 DEF LedgerInv, RowOK

\* The ledger, step by step.
LEMMA LedgerStep ==
  ASSUME TypeOK, StageInv, ChainInv, LedgerInv, [Next]_vars
  PROVE  LedgerInv'
<1>1. CASE CheckAndSubmit
  <2>1. \A i \in Issues : pc[i] # "collected" /\ pc'[i] # "collected"
    BY <1>1 DEF CheckAndSubmit, StageInv
  <2>2. \A i \in Issues : /\ [kind |-> "issue", issue |-> i] \notin errors
                          /\ [kind |-> "issue", issue |-> i] \notin errors'
    BY <1>1, <2>1 DEF CheckAndSubmit, LedgerInv
  <2>3. QED
    BY <1>1, <2>1, <2>2, LedgerFrame DEF CheckAndSubmit
<1>2. CASE ProbeMissing
  BY <1>2, LedgerFrame DEF ProbeMissing, workerVars, ledgerVars
<1>3. ASSUME NEW i \in Issues, StartIssue(i)
      PROVE  LedgerInv'
  BY <1>3, LedgerFrame DEF StartIssue, ledgerVars, TypeOK
<1>4. ASSUME NEW i \in Issues, PrepareIssue(i) \/ Generate(i) \/ Verify(i)
      PROVE  LedgerInv'
  BY <1>4, LedgerFrame DEF PrepareIssue, Generate, Verify, ledgerVars, TypeOK
<1>5. ASSUME NEW i \in Issues, ReviewRound(i)
      PROVE  LedgerInv'
  <2>1. pc[i] = "reviewing" /\ issues' = issues /\ errors' = errors
    BY <1>5 DEF ReviewRound, ledgerVars
  <2>2. \A j \in Issues : pc'[j] = "collected" <=> pc[j] = "collected"
    BY <1>5 DEF ReviewRound, TypeOK
  <2>3. QED
    BY <2>1, <2>2, LedgerFrame
<1>6. ASSUME NEW i \in Issues, Raise(i)
      PROVE  LedgerInv'
  BY <1>6, LedgerFrame DEF Raise, ledgerVars, TypeOK, InRunIssue
<1>7. ASSUME NEW i \in Issues, CollectReturned(i)
      PROVE  LedgerInv'
  <2> DEFINE row == [issue |-> i, status |-> outcome[i].status,
                     verified |-> outcome[i].verified, rounds |-> rounds[i]]
  <2>1. row \in Row
    BY DEF TypeOK, Row, Outcome
  <2>2. ChainAt(i) /\ pc[i] = "returned" /\ errors' = errors
    BY <1>7 DEF CollectReturned, ChainInv
  <2>3. /\ rounds[i] # <<>> /\ outcome[i].status # "failed"
        /\ outcome[i].verified <=> outcome[i].status = "verified_success"
    BY <2>2 DEF ChainAt, RejectionStatus
  <2>4. [kind |-> "issue", issue |-> i] \notin errors
    BY <2>2 DEF LedgerInv
  <2>5. RowOK(row, errors')
    BY <2>2, <2>3, <2>4, <1>7 DEF RowOK, CollectReturned
  <2>6. QED
    BY <1>7, <2>1, <2>2, <2>5, AppendRow DEF CollectReturned
<1>8. ASSUME NEW i \in Issues, CollectRaised(i)
      PROVE  LedgerInv'
  <2> DEFINE row == [issue |-> i, status |-> "failed", verified |-> FALSE, rounds |-> <<>>]
  <2>1. row \in Row
    BY DEF Row, Statuses
  <2>2. RowOK(row, errors')
    BY <1>8 DEF RowOK, CollectRaised
  <2>3. \A j \in Issues \ {i} : [kind |-> "issue", issue |-> j] \in errors'
                               <=> [kind |-> "issue", issue |-> j] \in errors
    BY <1>8 DEF CollectRaised
  <2>4. QED
    BY <1>8, <2>1, <2>2, <2>3, AppendRow DEF CollectRaised
<1>9. CASE Publish
  BY <1>9, LedgerFrame DEF Publish, workerVars
<1>10. CASE UNCHANGED vars
  BY <1>10, LedgerFrame DEF vars, workerVars, ledgerVars
<1>11. QED
  BY <1>1, <1>2, <1>3, <1>4, <1>5, <1>6, <1>7, <1>8, <1>9, <1>10
  DEF Next, Check, WorkerStep, Collect

\* Whatever order the futures complete in, and whichever of them raise, the rows
\* of the run are those of its issues, each once, and each failure has its error.
THEOREM LedgerCorrect == Spec => []LedgerMatchesFutures
<1>1. Init => LedgerInv
  BY DEF Init, LedgerInv
<1>2. TypeOK /\ StageInv /\ ChainInv /\ LedgerInv /\ [Next]_vars => LedgerInv'
  BY LedgerStep
<1>3. TypeOK /\ StageInv /\ LedgerInv => LedgerMatchesFutures
  BY LedgerImplies
<1>4. QED
  BY <1>1, <1>2, <1>3, TypeCorrect, ChainCorrect, PTL DEF Spec

-----------------------------------------------------------------------------
\* A set of rows has as many members as the set of their issues.
LEMMA RowsCountIssues ==
  ASSUME TypeOK, LedgerInv, NEW S \in SUBSET (DOMAIN issues)
  PROVE  Cardinality({ issues[k].issue : k \in S }) = Cardinality(S)
<1> DEFINE T == { issues[k].issue : k \in S }
           f == [k \in S |-> issues[k].issue]
<1>1. IsFiniteSet(S)
  <2>1. DOMAIN issues = 1..Len(issues) /\ Len(issues) \in Nat
    BY LenProperties DEF TypeOK
  <2>2. IsFiniteSet(1..Len(issues))
    BY <2>1, FS_Interval
  <2>3. QED
    BY <2>1, <2>2, FS_Subset
<1>2. f \in Bijection(S, T)
  <2>1. f \in [S -> T] /\ \A t \in T : \E k \in S : f[k] = t
    OBVIOUS
  <2>2. \A j, k \in S : f[j] = f[k] => j = k
    BY DEF LedgerInv
  <2>3. QED
    BY <2>1, <2>2, Fun_IsBij
<1>3. QED
  BY <1>1, <1>2, FS_Bijection DEF ExistsBijection

\* What a step that leaves the ledger alone leaves of the abstract state.
LEMMA SettledFrame ==
  ASSUME issues' = issues
  PROVE  Settled' = Settled
BY DEF Settled, RowOf

\* What the abstract ledger knows of an issue, in terms of its row.
LEMMA SettledMeaning ==
  ASSUME TypeOK, LedgerInv, NEW i \in Issues
  PROVE  /\ Settled[i] = "open" <=> ~\E k \in DOMAIN issues : issues[k].issue = i
         /\ \A k \in DOMAIN issues : issues[k].issue = i =>
              /\ Settled[i] = "verified" <=> issues[k].verified
              /\ Settled[i] = "failed" <=> ~issues[k].verified
<1>1. \A j, k \in DOMAIN issues : issues[j].issue = issues[k].issue => j = k
  BY DEF LedgerInv
<1>2. Settled[i] = IF RowOf(i) = {} THEN "open"
                   ELSE IF \E k \in RowOf(i) : issues[k].verified THEN "verified" ELSE "failed"
  BY DEF Settled
<1>3. QED
  BY <1>1, <1>2 DEF RowOf

\* A row appended to the ledger settles its issue and no other.
LEMMA AppendSettles ==
  ASSUME TypeOK, LedgerInv, NEW i \in Issues, NEW row, row.issue = i,
         pc[i] # "collected", issues' = Append(issues, row)
  PROVE  /\ Settled[i] = "open"
         /\ Settled' = [Settled EXCEPT ![i] = IF row.verified THEN "verified" ELSE "failed"]
<1> DEFINE L == Len(issues)
<1>1. /\ L \in Nat /\ DOMAIN issues = 1..L /\ DOMAIN issues' = 1..(L + 1)
      /\ \A k \in 1..L : issues'[k] = issues[k]
      /\ issues'[L + 1] = row
  BY AppendProperties, LenProperties DEF TypeOK
<1>2. \A k \in 1..L : issues[k].issue # i
  BY <1>1 DEF LedgerInv
<1>3. Settled[i] = "open"
  BY <1>1, <1>2, SettledMeaning
<1>4. RowOf(i)' = {L + 1}
  BY <1>1, <1>2 DEF RowOf
<1>5. Settled'[i] = IF row.verified THEN "verified" ELSE "failed"
  BY <1>1, <1>4 DEF Settled
<1>6. ASSUME NEW j \in Issues, j # i
      PROVE  Settled'[j] = Settled[j]
  <2>1. RowOf(j)' = RowOf(j)
    BY <1>1, <1>6 DEF RowOf
  <2>2. RowOf(j) \subseteq 1..L
    BY <1>1 DEF RowOf
  <2>3. (\E k \in RowOf(j) : issues[k].verified)' <=> \E k \in RowOf(j) : issues[k].verified
    BY <1>1, <2>1, <2>2
  <2>4. QED
    BY <2>1, <2>3 DEF Settled
<1>7. Settled \in [Issues -> {"open", "verified", "failed"}] /\ DOMAIN Settled' = Issues
  BY DEF Settled
<1>8. Settled' = [j \in Issues |-> Settled'[j]]
  BY DEF Settled
<1>9. QED
  BY <1>3, <1>5, <1>6, <1>7, <1>8

\* While an issue is on its way the run has no report.
LEMMA NoReportYet ==
  ASSUME StageInv, NEW i \in Issues, pc[i] \notin {"planned", "collected"}, phase' = phase,
         phase \in {"checking", "pool", "done", "crashed"}
  PROVE  Report = Ledger!NoReport /\ Report' = Ledger!NoReport
BY DEF StageInv, Report, Ledger!NoReport

\* The totals that are published are those of the issues.
LEMMA PublishRefines ==
  ASSUME TypeOK, LedgerInv, Publish
  PROVE  Ledger!PublishReport
<1> DEFINE V == { k \in DOMAIN issues : issues[k].verified }
           F == { k \in DOMAIN issues : issues[k].status # "verified_success" }
<1>1. \A i \in Issues : \E k \in DOMAIN issues : issues[k].issue = i
  BY DEF Publish, LedgerInv
<1>2. { issues[k].issue : k \in V } = Ledger!With("verified")
  BY <1>1, RowIssue, SettledMeaning DEF Ledger!With
<1>3. \A k \in DOMAIN issues : issues[k].status # "verified_success" <=> ~issues[k].verified
  BY DEF LedgerInv, RowOK
<1>4. { issues[k].issue : k \in F } = Ledger!With("failed")
  BY <1>1, <1>3, RowIssue, SettledMeaning DEF Ledger!With
<1>5. Cardinality(V) = Cardinality(Ledger!With("verified"))
  BY <1>2, RowsCountIssues
<1>6. Cardinality(F) = Cardinality(Ledger!With("failed"))
  BY <1>4, RowsCountIssues
<1>7. Report' = [state |-> "published", verified |-> Cardinality(V), failed |-> Cardinality(F)]
  BY DEF Publish, Report, Summary
<1>8. Report = Ledger!NoReport /\ Settled' = Settled
  BY SettledFrame DEF Publish, Report, Ledger!NoReport
<1>9. Ledger!With("open") = {}
  BY <1>1, SettledMeaning DEF Ledger!With
<1>10. ASSUME NEW S
       PROVE  Ledger!Cardinality(S) = Cardinality(S)
  BY Zenon DEF Ledger!Cardinality, Cardinality
<1>11. Report' = [state |-> "published",
                  verified |-> Ledger!Cardinality(Ledger!With("verified")),
                  failed |-> Ledger!Cardinality(Ledger!With("failed"))]
  BY <1>5, <1>6, <1>7, <1>10
<1> HIDE DEF V, F
<1>12. QED
  BY <1>8, <1>9, <1>11 DEF Ledger!PublishReport

\* Every step of a run is a step of the abstract ledger or leaves it alone.
LEMMA LedgerRefinementStep ==
  ASSUME TypeOK, StageInv, LedgerInv, [Next]_vars
  PROVE  [Ledger!LedgerNext]_(Ledger!ledger)
<1> SUFFICES Ledger!LedgerNext \/ (Settled' = Settled /\ Report' = Report)
  BY DEF Ledger!ledger
<1>1. CASE CheckAndSubmit
  BY <1>1, SettledFrame DEF CheckAndSubmit, Report
<1>2. CASE ProbeMissing
  <2>1. DOMAIN issues = {}
    BY <1>2, RowIssue DEF ProbeMissing, StageInv, LedgerInv
  <2>2. Ledger!With("open") = Issues
    BY <2>1, SettledMeaning DEF Ledger!With
  <2>3. Report = Ledger!NoReport /\ Report' = Ledger!Aborted
    BY <1>2 DEF ProbeMissing, Report, Ledger!NoReport, Ledger!Aborted
  <2>4. Settled' = Settled
    BY <1>2, SettledFrame DEF ProbeMissing, ledgerVars
  <2>5. QED
    BY <2>2, <2>3, <2>4 DEF Ledger!Abort, Ledger!LedgerNext
<1>3. ASSUME NEW i \in Issues, StartIssue(i) \/ WorkerStep(i)
      PROVE  Settled' = Settled /\ Report' = Report
  <2>1. issues' = issues /\ phase' = phase /\ result' = result
    BY <1>3 DEF StartIssue, WorkerStep, PrepareIssue, Generate, Verify, ReviewRound, Raise,
                mainVars, ledgerVars
  <2>2. QED
    BY <2>1, SettledFrame DEF Report
<1>4. ASSUME NEW i \in Issues, CollectReturned(i)
      PROVE  Ledger!Settle(i)
  <2> DEFINE row == [issue |-> i, status |-> outcome[i].status,
                     verified |-> outcome[i].verified, rounds |-> rounds[i]]
  <2>1. pc[i] = "returned" /\ issues' = Append(issues, row) /\ phase' = phase
    BY <1>4 DEF CollectReturned, mainVars
  <2>2. /\ Settled[i] = "open"
        /\ Settled' = [Settled EXCEPT ![i] = IF row.verified THEN "verified" ELSE "failed"]
    BY <2>1, AppendSettles
  <2>3. Report = Ledger!NoReport /\ Report' = Ledger!NoReport
    BY <2>1, NoReportYet DEF TypeOK
  <2>4. QED
    BY <2>2, <2>3 DEF Ledger!Settle, Ledger!Verdicts
<1>5. ASSUME NEW i \in Issues, CollectRaised(i)
      PROVE  Ledger!Settle(i)
  <2> DEFINE row == [issue |-> i, status |-> "failed", verified |-> FALSE, rounds |-> <<>>]
  <2>1. pc[i] = "raised" /\ issues' = Append(issues, row) /\ phase' = phase
    BY <1>5 DEF CollectRaised, mainVars
  <2>2. /\ Settled[i] = "open"
        /\ Settled' = [Settled EXCEPT ![i] = IF row.verified THEN "verified" ELSE "failed"]
    BY <2>1, AppendSettles
  <2>3. Report = Ledger!NoReport /\ Report' = Ledger!NoReport
    BY <2>1, NoReportYet DEF TypeOK
  <2>4. QED
    BY <2>2, <2>3 DEF Ledger!Settle, Ledger!Verdicts
<1>6. CASE Publish
  BY <1>6, PublishRefines DEF Ledger!LedgerNext
<1>7. CASE UNCHANGED vars
  BY <1>7, SettledFrame DEF vars, mainVars, ledgerVars, Report
<1>8. QED
  BY <1>1, <1>2, <1>3, <1>4, <1>5, <1>6, <1>7 DEF Next, Check, Collect, Ledger!LedgerNext

\* Every run keeps the promise of IssueLedger: each issue settled once, and the
\* totals of result.json count every issue exactly once.
THEOREM RunKeepsLedger == Spec => Ledger!LedgerSpec
<1>1. Init => Ledger!LedgerInit
  BY DEF Init, Ledger!LedgerInit, Settled, RowOf, Report, Ledger!NoReport
<1>2. TypeOK /\ StageInv /\ LedgerInv /\ [Next]_vars => [Ledger!LedgerNext]_(Ledger!ledger)
  BY LedgerRefinementStep
<1>3. Spec => []LedgerInv
  <2>1. Init => LedgerInv
    BY DEF Init, LedgerInv
  <2>2. TypeOK /\ StageInv /\ ChainInv /\ LedgerInv /\ [Next]_vars => LedgerInv'
    BY LedgerStep
  <2>3. QED
    BY <2>1, <2>2, TypeCorrect, ChainCorrect, PTL DEF Spec
<1>4. QED
  BY <1>1, <1>2, <1>3, TypeCorrect, ChainCorrect, PTL DEF Spec, Ledger!LedgerSpec


-----------------------------------------------------------------------------
\* A verified row ends with a round whose review was accepted.
RowsAccepted ==
  \A k \in DOMAIN issues : issues[k].verified =>
    \E n \in 1..MaxRounds : /\ n <= Len(issues[k].rounds)
                            /\ issues[k].rounds[n].review \in AcceptedReviews

\* result.json is absent until the run ends, then it is the count of the rows.
PublishedInv ==
  result = IF phase = "done"
           THEN [published |-> TRUE, summary |-> Summary,
                 agents |-> [a \in Agents |-> AgentRow(a)],
                 errors |-> errors, vllmOk |-> vllmOk]
           ELSE NoResult

\* The row of a verified issue is its last round's, which was accepted.
LEMMA RowsAcceptedStep ==
  ASSUME TypeOK, ChainInv, RowsAccepted, [Next]_vars
  PROVE  RowsAccepted'
<1>1. CASE issues' = issues
  BY <1>1 DEF RowsAccepted
<1>2. ASSUME NEW i \in Issues, NEW row, issues' = Append(issues, row),
             row.verified => \E n \in 1..MaxRounds :
                               /\ n <= Len(row.rounds)
                               /\ row.rounds[n].review \in AcceptedReviews
      PROVE  RowsAccepted'
  <2> DEFINE L == Len(issues)
  <2>1. /\ DOMAIN issues = 1..L /\ DOMAIN issues' = 1..(L + 1) /\ L \in Nat
        /\ \A k \in 1..L : issues'[k] = issues[k]
        /\ issues'[L + 1] = row
    BY <1>2, AppendProperties, LenProperties DEF TypeOK
  <2>2. SUFFICES ASSUME NEW k \in 1..(L + 1), issues'[k].verified
                 PROVE  \E n \in 1..MaxRounds :
                          /\ n <= Len(issues'[k].rounds)
                          /\ issues'[k].rounds[n].review \in AcceptedReviews
    BY <2>1 DEF RowsAccepted
  <2>3. CASE k = L + 1
    BY <1>2, <2>1, <2>2, <2>3
  <2>4. CASE k # L + 1
    <3>1. k \in 1..L /\ issues'[k] = issues[k]
      BY <2>1, <2>4
    <3>2. QED
      BY <2>1, <2>2, <3>1 DEF RowsAccepted
  <2>5. QED
    BY <2>3, <2>4
<1>3. ASSUME NEW i \in Issues, CollectReturned(i)
      PROVE  RowsAccepted'
  <2> DEFINE row == [issue |-> i, status |-> outcome[i].status,
                     verified |-> outcome[i].verified, rounds |-> rounds[i]]
             last == LastRound(rounds[i])
  <2>1. ChainAt(i) /\ pc[i] = "returned" /\ issues' = Append(issues, row)
    BY <1>3 DEF CollectReturned, ChainInv
  <2>2. rounds[i] \in Seq(Round) /\ rounds[i] # <<>> /\ Len(rounds[i]) <= MaxRounds
    BY <2>1 DEF ChainAt, TypeOK
  <2>3. Len(rounds[i]) \in 1..MaxRounds
    BY <2>2, EmptySeq, LenProperties, CountsAssumption
  <2>4. outcome[i].verified => last.review \in AcceptedReviews
    BY <2>1 DEF ChainAt, Accepts
  <2>5. outcome[i].verified => \E n \in 1..MaxRounds :
                                 /\ n <= Len(rounds[i])
                                 /\ rounds[i][n].review \in AcceptedReviews
    BY <2>3, <2>4 DEF LastRound
  <2>6. QED
    BY <1>2, <2>1, <2>5
<1>4. ASSUME NEW i \in Issues, CollectRaised(i)
      PROVE  RowsAccepted'
  BY <1>2, <1>4 DEF CollectRaised
<1>5. QED
  BY <1>1, <1>3, <1>4
  DEF Next, Check, CheckAndSubmit, ProbeMissing, StartIssue, WorkerStep, PrepareIssue,
      Generate, Verify, ReviewRound, Raise, Collect, Publish, vars, ledgerVars

\* Nothing happens after the publication, and nothing is published before it.
LEMMA PublishedStep ==
  ASSUME TypeOK, StageInv, PublishedInv, [Next]_vars
  PROVE  PublishedInv'
<1>1. CASE phase = "done"
  <2>1. \A i \in Issues : pc[i] = "collected"
    BY <1>1 DEF StageInv
  <2>2. UNCHANGED vars
    BY <1>1, <2>1 DEF Next, Check, CheckAndSubmit, ProbeMissing, StartIssue, WorkerStep,
      PrepareIssue, Generate, Verify, ReviewRound, Raise, Collect, CollectReturned,
      CollectRaised, Publish, InRunIssue
  <2>3. QED
    BY <2>2 DEF PublishedInv, vars, mainVars, ledgerVars, Summary, AgentRow, RoundPositions
<1>2. CASE phase # "done" /\ ~Publish
  <2>1. phase' # "done" /\ result' = result
    BY <1>2 DEF Next, Check, CheckAndSubmit, ProbeMissing, StartIssue, WorkerStep,
      PrepareIssue, Generate, Verify, ReviewRound, Raise, Collect, CollectReturned,
      CollectRaised, vars, mainVars, ledgerVars
  <2>2. QED
    BY <1>2, <2>1 DEF PublishedInv
<1>3. CASE Publish
  BY <1>3 DEF Publish, PublishedInv, Summary, AgentRow, RoundPositions
<1>4. QED
  BY <1>1, <1>2, <1>3

\* The positions of the rounds lie in a rectangle of rows and rounds.
LEMMA RoundsBounded ==
  ASSUME TypeOK
  PROVE  /\ IsFiniteSet(RoundPositions)
         /\ Cardinality(RoundPositions) <= Len(issues) * MaxRounds
<1> DEFINE Box == (DOMAIN issues) \X (1..MaxRounds)
<1>1. DOMAIN issues = 1..Len(issues) /\ Len(issues) \in Nat /\ MaxRounds \in Nat
  BY LenProperties, CountsAssumption DEF TypeOK
<1>2. /\ IsFiniteSet(DOMAIN issues) /\ Cardinality(DOMAIN issues) = Len(issues)
      /\ IsFiniteSet(1..MaxRounds) /\ Cardinality(1..MaxRounds) = MaxRounds
  BY <1>1, IntervalCount
<1>3. IsFiniteSet(Box) /\ Cardinality(Box) = Len(issues) * MaxRounds
  BY <1>2, FS_Product
<1>4. RoundPositions \subseteq Box
  BY DEF RoundPositions
<1>5. QED
  BY <1>3, <1>4, FS_Subset

\* Each verified row has an accepted round of its own.
LEMMA VerifiedWithinAccepted ==
  ASSUME TypeOK, RowsAccepted
  PROVE  Summary.verified <= Summary.reviewPass /\ Summary.reviewPass <= Summary.rounds
<1> DEFINE V == { k \in DOMAIN issues : issues[k].verified }
           P == { p \in RoundPositions : issues[p[1]].rounds[p[2]].review \in AcceptedReviews }
           IsAccepted(k, n) == /\ n \in 1..MaxRounds
                               /\ n <= Len(issues[k].rounds)
                               /\ issues[k].rounds[n].review \in AcceptedReviews
           f == [k \in V |-> <<k, CHOOSE n \in 1..MaxRounds : IsAccepted(k, n)>>]
<1>1. ASSUME NEW k \in V PROVE IsAccepted(k, f[k][2]) /\ f[k][1] = k /\ f[k] = <<f[k][1], f[k][2]>>
  <2>1. \E n \in 1..MaxRounds : IsAccepted(k, n)
    BY DEF RowsAccepted
  <2>2. QED
    <3> HIDE DEF IsAccepted
    <3> QED BY <2>1
<1>2. ASSUME NEW k \in V PROVE f[k] \in P
  BY <1>1 DEF RoundPositions
<1>3. f \in Injection(V, P)
  <2> HIDE DEF P
  <2>1. f \in [V -> P]
    BY <1>2
  <2>2. \A j, k \in V : f[j] = f[k] => j = k
    BY <1>1
  <2>3. QED
    BY <2>1, <2>2, Fun_IsInj
<1>4. /\ IsFiniteSet(P) /\ Cardinality(P) <= Cardinality(RoundPositions)
  BY RoundsBounded, FS_Subset
<1>5. Cardinality(V) <= Cardinality(P)
  <2> HIDE DEF V, P, f
  <2> QED BY <1>3, <1>4, FS_Injection
<1>6. QED
  BY <1>4, <1>5 DEF Summary

\* The totals of a run whose issues all have a row.
LEMMA TotalsAddUp ==
  ASSUME TypeOK, LedgerInv, \A i \in Issues : \E k \in DOMAIN issues : issues[k].issue = i
  PROVE  /\ Summary.total = NumIssues
         /\ Summary.verified + Summary.failed = NumIssues
         /\ IsFiniteSet(DOMAIN issues)
<1> DEFINE D == DOMAIN issues
           V == { k \in D : issues[k].verified }
           F == { k \in D : issues[k].status # "verified_success" }
<1>1. D = 1..Len(issues) /\ Len(issues) \in Nat
  BY LenProperties DEF TypeOK
<1>2. IsFiniteSet(D) /\ Cardinality(D) = Len(issues)
  BY <1>1, IntervalCount
<1>3. { issues[k].issue : k \in D } = 1..NumIssues
  BY RowIssue DEF Issues
<1>4. Cardinality(D) = NumIssues
  <2>1. Cardinality(1..NumIssues) = NumIssues
    BY CountsAssumption, IntervalCount
  <2>2. Cardinality({ issues[k].issue : k \in D }) = Cardinality(D)
    BY RowsCountIssues
  <2>3. QED
    BY <1>3, <2>1, <2>2
<1>5. V \cup F = D /\ V \cap F = {}
  BY DEF LedgerInv, RowOK
<1>6. IsFiniteSet(V) /\ IsFiniteSet(F)
  BY <1>2, FS_Subset
<1>7. Cardinality(V) \in Nat /\ Cardinality(F) \in Nat /\ Cardinality({}) = 0
  BY <1>6, FS_CardinalityType, FS_EmptySet
<1>8. Cardinality(V \cup F) = Cardinality(V) + Cardinality(F)
  <2>1. Cardinality(V \cup F) = Cardinality(V) + Cardinality(F) - Cardinality(V \cap F)
    <3> HIDE DEF V, F
    <3> QED BY <1>6, FS_Union
  <2>2. Cardinality(V \cap F) = 0
    BY <1>5, <1>7, Zenon
  <2>3. QED
    <3> HIDE DEF V, F
    <3> QED BY <1>7, <2>1, <2>2
<1>9. QED
  BY <1>2, <1>4, <1>5, <1>8 DEF Summary

\* An agent is done when none of its rows failed, and a row that did not pass is
\* a row of one agent.
LEMMA AgentsAddUp ==
  ASSUME TypeOK, LedgerInv, IsFiniteSet(DOMAIN issues)
  PROVE  LET done == { a \in Agents : AgentRow(a).status = "succeeded" }
         IN  /\ Summary.failed = 0 <=> done = Agents
             /\ Summary.failed >= Cardinality(Agents \ done)
<1> DEFINE done == { a \in Agents : AgentRow(a).status = "succeeded" }
           F == { k \in DOMAIN issues : issues[k].status # "verified_success" }
           rest == Agents \ done
<1>1. \A a \in Agents : a \in rest <=> \E k \in F : AgentOf(issues[k].issue) = a
  <2> SUFFICES ASSUME NEW a \in Agents
               PROVE  AgentRow(a).status # "succeeded"
                        <=> \E k \in F : AgentOf(issues[k].issue) = a
    OBVIOUS
  <2>1. AgentRow(a).status # "succeeded" <=>
          \E k \in DOMAIN issues : AgentOf(issues[k].issue) = a /\ ~issues[k].verified
    BY DEF AgentRow
  <2>2. QED
    BY <2>1 DEF LedgerInv, RowOK
<1>2. \A k \in F : AgentOf(issues[k].issue) \in Agents
  BY RowIssue, CountsAssumption DEF AgentOf, Agents, Issues
<1>3. IsFiniteSet(F)
  BY FS_Subset
<1>4. Cardinality(F) = 0 <=> F = {}
  BY <1>3, FS_EmptySet
<1>5. F = {} <=> done = Agents
  <2> HIDE DEF F
  <2> QED BY <1>1, <1>2
<1>6. Cardinality(rest) <= Cardinality(F)
  <2> DEFINE g == [k \in F |-> AgentOf(issues[k].issue)]
  <2>1. g \in Surjection(F, rest)
    <3>1. g \in [F -> rest]
      <4> HIDE DEF F, rest
      <4> QED BY <1>1, <1>2
    <3>2. \A a \in rest : \E k \in F : g[k] = a
      <4> HIDE DEF F
      <4> QED BY <1>1
    <3>3. QED
      <4> HIDE DEF F, rest, g
      <4> QED BY <3>1, <3>2, Fun_IsSurj
  <2>2. QED
    <3> HIDE DEF F, rest, g
    <3> QED BY <1>3, <2>1, FS_Surjection
<1>7. Cardinality(F) \in Nat /\ Cardinality(rest) \in Nat
  <2>1. IsFiniteSet(Agents)
    BY CountsAssumption, FS_Interval DEF Agents
  <2>2. QED
    BY <1>3, <2>1, FS_Subset, FS_CardinalityType
<1>8. Summary.failed = Cardinality(F)
  BY DEF Summary
<1>9. /\ Summary.failed = 0 <=> done = Agents
      /\ Summary.failed >= Cardinality(Agents \ done)
  <2> HIDE DEF F, done
  <2> QED BY <1>4, <1>5, <1>6, <1>7, <1>8
<1>10. QED
  BY <1>9

\* Every error of an issue belongs to a row that did not pass.
LEMMA ErrorsWithinFailed ==
  ASSUME TypeOK, LedgerInv, IsFiniteSet(DOMAIN issues)
  PROVE  Cardinality({ e \in errors : e.kind = "issue" }) <= Summary.failed
<1> DEFINE E == { e \in errors : e.kind = "issue" }
           F == { k \in DOMAIN issues : issues[k].status # "verified_success" }
           h == [k \in F |-> [kind |-> "issue", issue |-> issues[k].issue]]
           FE == { k \in F : h[k] \in E }
           hE == [k \in FE |-> h[k]]
<1>1. IsFiniteSet(F) /\ IsFiniteSet(FE)
  BY FS_Subset
<1>2. ASSUME NEW e \in E PROVE \E k \in FE : hE[k] = e
  <2>1. e \in [kind : {"issue"}, issue : Issues]
    BY DEF TypeOK, Error
  <2>2. PICK i \in Issues : e = [kind |-> "issue", issue |-> i]
    BY <2>1
  <2>3. PICK k \in DOMAIN issues : issues[k].issue = i
    BY <2>2 DEF LedgerInv
  <2>4. issues[k].status = "failed"
    BY <2>2, <2>3 DEF LedgerInv, RowOK
  <2>5. QED
    BY <2>2, <2>3, <2>4
<1>3. hE \in Surjection(FE, E)
  <2>1. hE \in [FE -> E]
    OBVIOUS
  <2>2. QED
    <3> HIDE DEF FE, E, hE
    <3> QED BY <1>2, <2>1, Fun_IsSurj
<1>4. Cardinality(E) <= Cardinality(FE) /\ Cardinality(FE) <= Cardinality(F)
  <2>1. FE \subseteq F
    OBVIOUS
  <2>2. QED
    <3> HIDE DEF FE, E, hE, F
    <3> QED BY <1>1, <1>3, <2>1, FS_Surjection, FS_Subset
<1>5. /\ Cardinality(E) \in Nat /\ Cardinality(FE) \in Nat /\ Cardinality(F) \in Nat
  <2> HIDE DEF FE, E, hE, F
  <2> QED BY <1>1, <1>3, FS_Surjection, FS_CardinalityType
<1>6. QED
  BY <1>4, <1>5 DEF Summary

\* A finished ledger and a report that counts it give the property.
LEMMA SummaryImplies ==
  ASSUME TypeOK, StageInv, LedgerInv, RowsAccepted, PublishedInv
  PROVE  SummaryAddsUp
<1>1. SUFFICES ASSUME result.published PROVE SummaryAddsUp
  BY DEF SummaryAddsUp
<1>2. phase = "done"
  BY <1>1 DEF PublishedInv, NoResult
<1>3. /\ result.summary = Summary /\ result.errors = errors
      /\ \A a \in Agents : result.agents[a] = AgentRow(a)
  BY <1>2 DEF PublishedInv
<1>4. \A i \in Issues : \E k \in DOMAIN issues : issues[k].issue = i
  BY <1>2 DEF StageInv, LedgerInv
<1>5. /\ Summary.total = NumIssues /\ Summary.verified + Summary.failed = NumIssues
      /\ IsFiniteSet(DOMAIN issues)
  BY <1>4, TotalsAddUp
<1>6. Summary.verified <= Summary.reviewPass /\ Summary.reviewPass <= Summary.rounds
  BY VerifiedWithinAccepted
<1>7. Summary.rounds <= NumIssues * MaxRounds
  BY <1>5, RoundsBounded DEF Summary
<1> DEFINE done == { a \in Agents : AgentRow(a).status = "succeeded" }
<1>8. /\ Summary.failed = 0 <=> done = Agents
      /\ Summary.failed >= Cardinality(Agents \ done)
  BY <1>5, AgentsAddUp
<1>9. Cardinality({ e \in errors : e.kind = "issue" }) <= Summary.failed
  BY <1>5, ErrorsWithinFailed
<1>10. { a \in Agents : result.agents[a].status = "succeeded" } = done
  BY <1>3
<1>11. QED
  <2> HIDE DEF done
  <2> QED BY <1>3, <1>5, <1>6, <1>7, <1>8, <1>9, <1>10 DEF SummaryAddsUp

\* However the futures interleave and whichever of them raise, the totals of
\* result.json agree with one another: the issues with the verdicts, the
\* verdicts with the accepted rounds, the failures with the agents and errors.
THEOREM PublishedTotalsAgree == Spec => []SummaryAddsUp
<1>1. Init => RowsAccepted /\ PublishedInv
  BY DEF Init, RowsAccepted, PublishedInv
<1>2. /\ TypeOK /\ StageInv /\ ChainInv /\ LedgerInv /\ RowsAccepted /\ PublishedInv
      /\ [Next]_vars
      => RowsAccepted' /\ PublishedInv'
  BY RowsAcceptedStep, PublishedStep
<1>3. TypeOK /\ StageInv /\ LedgerInv /\ RowsAccepted /\ PublishedInv => SummaryAddsUp
  BY SummaryImplies
<1>4. Init => LedgerInv
  BY DEF Init, LedgerInv
<1>5. TypeOK /\ StageInv /\ ChainInv /\ LedgerInv /\ [Next]_vars => LedgerInv'
  BY LedgerStep
<1>6. QED
  BY <1>1, <1>2, <1>3, <1>4, <1>5, TypeCorrect, ChainCorrect, PTL DEF Spec
=============================================================================
