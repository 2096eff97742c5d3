------------------------------- MODULE TeamRun -------------------------------
(***************************************************************************)
(* One run of TeamOrchestrator on the host executors: the planner's issues *)
(* go to a thread pool of Parallelism workers, each worker takes one issue *)
(* through its repair rounds, the main thread collects the futures as they *)
(* complete and publishes result.json.                                     *)
(*                                                                         *)
(* The working directories the rounds share are in IssueWorkspace, the     *)
(* Firecracker branch of the same method in FirecrackerTeam.               *)
(***************************************************************************)
EXTENDS IssueRound, Sequences, FiniteSets

CONSTANTS
  NumIssues,      \* issues the planner loaded
  NumAgents,      \* config.num_agents
  Parallelism,    \* config.parallelism, the size of the thread pool
  MaxRounds,      \* config.max_rounds_per_issue
  AdapterMode,    \* config.adapter_mode: "mock" or "cli"
  MaxActiveLlm,   \* config.max_active_llm_requests, which ResourceGovernor stores
  UsesDocker,     \* config.runtime_type = "docker"
  RetryOnReject,  \* config.retry_on_review_reject
  RetryOnTest,    \* config.retry_on_test_failure
  CommandIssues,  \* issues with a verify_command and a workdir
  CliLogs         \* logs the mini-swe-agent CLI and the verify command may leave

ASSUME CountsAssumption ==
  /\ NumIssues \in Nat   \* an instances file may be empty
  /\ NumAgents \in Nat \ {0}
  /\ Parallelism \in Nat \ {0}
  /\ MaxRounds \in Nat \ {0}
  /\ MaxActiveLlm \in Nat

ASSUME ConfigAssumption ==
  /\ AdapterMode \in {"mock", "cli"}
  /\ UsesDocker \in BOOLEAN
  /\ RetryOnReject \in BOOLEAN
  /\ RetryOnTest \in BOOLEAN
  /\ CommandIssues \subseteq 1..NumIssues
  /\ CliLogs \subseteq LogTexts
  /\ CliLogs # {}

Issues == 1..NumIssues

Agents == 0..(NumAgents - 1)

\* TaskPlanner.build_issue_plans deals the issues to the agents in turn.
AgentOf(i) == (i - 1) % NumAgents

VARIABLES
  phase,     \* where TeamOrchestrator.run is
  vllmOk,    \* its local vllm_ok
  docker,    \* what the host answered to `docker version`
  pc,        \* where the future of each issue is
  draft,     \* patch, log and verdict of the candidate under way
  rounds,    \* the rounds list of each run_issue
  outcome,   \* status and verified of each run_issue
  issues,    \* the orchestrator's issues list
  errors,    \* its errors list, as a set
  result     \* the contents of result.json

mainVars == <<phase, vllmOk, docker>>
workerVars == <<pc, draft, rounds, outcome>>
ledgerVars == <<issues, errors, result>>
vars == <<mainVars, workerVars, ledgerVars>>

NoResult == [published |-> FALSE]

NoDraft == [patch |-> "missing", log |-> {}, verified |-> FALSE]

Round == [verified : BOOLEAN, review : ReviewStatuses, retry : RetryReasons]

Statuses == {"failed", "verified_success", "review_rejected", "test_failed"}

Outcome == [status : Statuses, verified : BOOLEAN]

\* One entry of the issues list.
Row == [issue : Issues, status : Statuses, verified : BOOLEAN, rounds : Seq(Round)]

Error == [kind : {"docker"}] \cup [kind : {"issue"}, issue : Issues]

InRunIssue == {"preparing", "generating", "verifying", "reviewing"}

\* Issues a thread of the pool is busy with.
Active == { i \in Issues : pc[i] \in InRunIssue }

TypeOK ==
  /\ phase \in {"checking", "pool", "done", "crashed"}
  /\ vllmOk \in BOOLEAN
  /\ docker \in {"unasked", "up", "down", "absent"}
  /\ pc \in [Issues -> {"planned", "queued", "returned", "raised", "collected"} \cup InRunIssue]
  /\ draft \in [Issues -> [patch : PatchKinds, log : LogTexts, verified : BOOLEAN]]
  /\ rounds \in [Issues -> Seq(Round)]
  /\ outcome \in [Issues -> Outcome]
  /\ issues \in Seq(Row)
  /\ errors \subseteq Error

Init ==
  /\ phase = "checking"
  /\ vllmOk = TRUE
  /\ docker = "unasked"
  /\ pc = [i \in Issues |-> "planned"]
  /\ draft = [i \in Issues |-> NoDraft]
  /\ rounds = [i \in Issues |-> <<>>]
  /\ outcome = [i \in Issues |-> [status |-> "failed", verified |-> FALSE]]
  /\ issues = <<>>
  /\ errors = {}
  /\ result = NoResult

-----------------------------------------------------------------------------
\* The checks before the pool, and executor.submit of every plan.  A mock run
\* asks nothing.  Neither an unhealthy vLLM nor a stopped docker daemon keeps
\* the run from going on.
CheckAndSubmit ==
  /\ phase = "checking"
  /\ IF AdapterMode = "mock" THEN UNCHANGED <<vllmOk, docker>>
     ELSE /\ vllmOk' \in BOOLEAN
          /\ docker' \in IF UsesDocker THEN {"up", "down"} ELSE {"unasked"}
  /\ errors' = IF docker' = "down" THEN {[kind |-> "docker"]} ELSE {}
  /\ phase' = "pool"
  /\ pc' = [i \in Issues |-> "queued"]
  /\ UNCHANGED <<draft, rounds, outcome, issues, result>>

\* The probes are programs.  On a host without curl vllm_healthy raises, and on
\* one without a docker client DockerRuntime.available does: nothing in run
\* catches it, and the run ends with no result.json.
ProbeMissing ==
  /\ phase = "checking"
  /\ AdapterMode = "cli"
  /\ \/ UNCHANGED <<vllmOk, docker>>
     \/ UsesDocker /\ vllmOk' \in BOOLEAN /\ docker' = "absent"
  /\ phase' = "crashed"
  /\ UNCHANGED <<workerVars, ledgerVars>>

-----------------------------------------------------------------------------
\* A free thread of the pool takes the oldest issue of the queue.
StartIssue(i) ==
  /\ pc[i] = "queued"
  /\ \A j \in 1..(i - 1) : pc[j] # "queued"
  /\ Cardinality(Active) < Parallelism
  /\ pc' = [pc EXCEPT ![i] = "preparing"]
  /\ UNCHANGED <<mainVars, draft, rounds, outcome, ledgerVars>>

\* RepoWorkspaceManager.prepare and RepoContextBuilder.build.
PrepareIssue(i) ==
  /\ pc[i] = "preparing"
  /\ pc' = [pc EXCEPT ![i] = "generating"]
  /\ UNCHANGED <<mainVars, draft, rounds, outcome, ledgerVars>>

\* MiniSweAgentAdapter.run_issue_round.  The mock writes a fixed patch and log;
\* the CLI leaves the diff of the working directory and whatever it printed.
Generate(i) ==
  /\ pc[i] = "generating"
  /\ \E patch \in {"empty", "clean", "dangerous"}, log \in CliLogs :
       draft' = [draft EXCEPT ![i] =
         IF AdapterMode = "mock"
         THEN [patch |-> "clean", log |-> {"passed", "1 passed"}, verified |-> FALSE]
         ELSE [patch |-> patch, log |-> log, verified |-> FALSE]]
  /\ pc' = [pc EXCEPT ![i] = "verifying"]
  /\ UNCHANGED <<mainVars, rounds, outcome, ledgerVars>>

\* verify_command replaces the log the reviewer will read, verify_synthetic
\* judges the adapter's own.
Verify(i) ==
  /\ pc[i] = "verifying"
  /\ \E v \in IF i \in CommandIssues
              THEN VerifyCommandOutcomes(CliLogs)
              ELSE {[verified |-> VerifySynthetic(draft[i].log), log |-> draft[i].log]} :
       draft' = [draft EXCEPT ![i] =
         [patch |-> draft[i].patch, log |-> v.log, verified |-> v.verified]]
  /\ pc' = [pc EXCEPT ![i] = "reviewing"]
  /\ UNCHANGED <<mainVars, rounds, outcome, ledgerVars>>

RoundOf(i) ==
  LET review == Review(draft[i].patch, draft[i].log)
  IN  [verified |-> draft[i].verified,
       review |-> review,
       retry |-> ShouldRetry(Len(rounds[i]) + 1, MaxRounds, RetryOnReject, RetryOnTest,
                             review, draft[i].verified)]

\* Mutant of ReviewRound: a retried round is not kept, so the loop cannot count it.
ReviewRoundForgets(i) ==
  LET r == RoundOf(i)
  IN  /\ pc[i] = "reviewing"
      /\ draft' = [draft EXCEPT ![i] = NoDraft]
      /\ IF r.retry # "none" /\ ~Accepts(r.verified, r.review)
         THEN pc' = [pc EXCEPT ![i] = "generating"] /\ UNCHANGED <<rounds, outcome>>
         ELSE /\ pc' = [pc EXCEPT ![i] = "returned"]
              /\ rounds' = [rounds EXCEPT ![i] = Append(rounds[i], r)]
              /\ UNCHANGED outcome
      /\ UNCHANGED <<mainVars, ledgerVars>>

\* What run_issue does with a reviewed round: take the candidate, give up, or
\* go round the loop once more if its range allows.
ReviewRound(i) ==
  LET r == RoundOf(i)
  IN  /\ pc[i] = "reviewing"
      /\ rounds' = [rounds EXCEPT ![i] = Append(rounds[i], r)]
      /\ draft' = [draft EXCEPT ![i] = NoDraft]
      /\ \/ /\ Accepts(r.verified, r.review)
            /\ outcome' = [outcome EXCEPT ![i] = [status |-> "verified_success", verified |-> TRUE]]
            /\ pc' = [pc EXCEPT ![i] = "returned"]
         \/ /\ ~Accepts(r.verified, r.review) /\ r.retry = "none"
            /\ outcome' = [outcome EXCEPT ![i] =
                 [status |-> RejectionStatus(r.review), verified |-> FALSE]]
            /\ pc' = [pc EXCEPT ![i] = "returned"]
         \/ /\ ~Accepts(r.verified, r.review) /\ r.retry # "none"
            /\ pc' = [pc EXCEPT ![i] =
                 IF Len(rounds[i]) + 1 < MaxRounds THEN "generating" ELSE "returned"]
            /\ UNCHANGED outcome
      /\ UNCHANGED <<mainVars, ledgerVars>>

\* Any step of run_issue may raise (the CLI passes its timeout, a directory is
\* missing, a copy fails): the future holds the exception, the rounds are lost.
Raise(i) ==
  /\ pc[i] \in InRunIssue
  /\ pc' = [pc EXCEPT ![i] = "raised"]
  /\ draft' = [draft EXCEPT ![i] = NoDraft]
  /\ rounds' = [rounds EXCEPT ![i] = <<>>]
  /\ UNCHANGED <<mainVars, outcome, ledgerVars>>

-----------------------------------------------------------------------------
\* The body of the as_completed loop for a future that returned.
CollectReturned(i) ==
  /\ pc[i] = "returned"
  /\ issues' = Append(issues, [issue |-> i, status |-> outcome[i].status,
                               verified |-> outcome[i].verified, rounds |-> rounds[i]])
  /\ pc' = [pc EXCEPT ![i] = "collected"]
  /\ UNCHANGED <<mainVars, draft, rounds, outcome, errors, result>>

\* Mutant of CollectRaised: the error is kept, the row is not.
CollectRaisedErrorOnly(i) ==
  /\ pc[i] = "raised"
  /\ errors' = errors \cup {[kind |-> "issue", issue |-> i]}
  /\ pc' = [pc EXCEPT ![i] = "collected"]
  /\ UNCHANGED <<mainVars, draft, rounds, outcome, issues, result>>

\* The same for a future that raised: an error and a failed row without rounds.
CollectRaised(i) ==
  /\ pc[i] = "raised"
  /\ issues' = Append(issues, [issue |-> i, status |-> "failed",
                               verified |-> FALSE, rounds |-> <<>>])
  /\ errors' = errors \cup {[kind |-> "issue", issue |-> i]}
  /\ pc' = [pc EXCEPT ![i] = "collected"]
  /\ UNCHANGED <<mainVars, draft, rounds, outcome, result>>

\* _agent_rows: an agent with no issue of its own counts as succeeded.
AgentRow(a) ==
  LET assigned == { k \in DOMAIN issues : AgentOf(issues[k].issue) = a }
      good == { k \in assigned : issues[k].verified }
  IN  [status |-> IF good = assigned THEN "succeeded" ELSE "failed",
       completed |-> Cardinality(assigned),
       verified |-> Cardinality(good)]

\* Every round of every row, as positions in the issues list.
RoundPositions ==
  { p \in (DOMAIN issues) \X (1..MaxRounds) : p[2] <= Len(issues[p[1]].rounds) }

\* Mutant of Summary: only the issues that raised count as failed.
SummaryRaisedOnly ==
  [total |-> Len(issues),
   verified |-> Cardinality({ k \in DOMAIN issues : issues[k].verified }),
   failed |-> Cardinality({ k \in DOMAIN issues : issues[k].status = "failed" }),
   rounds |-> Cardinality(RoundPositions),
   reviewPass |-> Cardinality(RoundPositions)]

\* ResultAggregator.aggregate.  "failed" is counted from the status, "verified"
\* from the flag.
Summary ==
  [total |-> Len(issues),
   verified |-> Cardinality({ k \in DOMAIN issues : issues[k].verified }),
   failed |-> Cardinality({ k \in DOMAIN issues : issues[k].status # "verified_success" }),
   rounds |-> Cardinality(RoundPositions),
   reviewPass |-> Cardinality({ p \in RoundPositions :
                      issues[p[1]].rounds[p[2]].review \in AcceptedReviews })]

\* The pool is shut down, the rows are aggregated and result.json is written.
Publish ==
  /\ phase = "pool"
  /\ \A i \in Issues : pc[i] = "collected"
  /\ result' = [published |-> TRUE, summary |-> Summary,
                agents |-> [a \in Agents |-> AgentRow(a)],
                errors |-> errors, vllmOk |-> vllmOk]
  /\ phase' = "done"
  /\ UNCHANGED <<vllmOk, docker, workerVars, issues, errors>>

-----------------------------------------------------------------------------
\* One step of the thread that runs issue i.
WorkerStep(i) ==
  PrepareIssue(i) \/ Generate(i) \/ Verify(i) \/ ReviewRound(i) \/ Raise(i)

Check == CheckAndSubmit \/ ProbeMissing

Collect(i) == CollectReturned(i) \/ CollectRaised(i)

Next ==
  \/ Check
  \/ \E i \in Issues : StartIssue(i) \/ WorkerStep(i) \/ Collect(i)
  \/ Publish

\* The threads are scheduled, the CLI and the verify command have timeouts, and
\* the main thread does nothing but wait for futures: no step that can be taken
\* is put off for ever.
Fairness ==
  /\ WF_vars(Check)
  /\ \A i \in Issues : WF_vars(StartIssue(i)) /\ WF_vars(WorkerStep(i)) /\ WF_vars(Collect(i))
  /\ WF_vars(Publish)

Spec == Init /\ [][Next]_vars

FairSpec == Spec /\ Fairness

-----------------------------------------------------------------------------
LastRound(s) == s[Len(s)]

\* The rounds of an issue form one chain: a round that is not the last was not
\* taken and says why another one follows, in the order the policy asks the
\* question, and there are never more rounds than the plan allows.
RetryChain ==
  \A i \in Issues :
    /\ Len(rounds[i]) <= MaxRounds
    /\ \A n \in 1..Len(rounds[i]) :
         LET r == rounds[i][n]
         IN  /\ n < Len(rounds[i]) => r.retry # "none"
             /\ r.retry # "none" => ~Accepts(r.verified, r.review)
             /\ r.retry = "review_rejected" => RetryOnReject /\ r.review = "rejected"
             /\ r.retry = "test_failed" =>
                  /\ RetryOnTest /\ ~r.verified
                  /\ RetryOnReject => r.review # "rejected"

\* run_issue never falls out of its loop: an issue it returns ends with a round
\* that asks for no other, and that round alone decides status and verified.
OutcomeFromLastRound ==
  \A i \in Issues : pc[i] = "returned" =>
    /\ rounds[i] # <<>>
    /\ LastRound(rounds[i]).retry = "none"
    /\ LET last == LastRound(rounds[i])
       IN  outcome[i] = IF Accepts(last.verified, last.review)
                        THEN [status |-> "verified_success", verified |-> TRUE]
                        ELSE [status |-> RejectionStatus(last.review), verified |-> FALSE]

\* An issue is given up before its last round only where the retry policy is
\* switched off for what went wrong.
NoEarlyGiveUp ==
  \A i \in Issues :
    LET last == LastRound(rounds[i])
    IN  pc[i] = "returned" /\ Len(rounds[i]) < MaxRounds =>
          \/ Accepts(last.verified, last.review)
          \/ /\ last.review = "rejected" => ~RetryOnReject
             /\ ~last.verified => ~RetryOnTest

\* The ledger the main thread keeps agrees with what the futures did, in any
\* completion order: no issue has two rows, a row without rounds is a failure
\* with an error, and a run that published has a row for every issue.
LedgerMatchesFutures ==
  /\ \A j, k \in DOMAIN issues : issues[j].issue = issues[k].issue => j = k
  /\ { issues[k].issue : k \in DOMAIN issues } = { i \in Issues : pc[i] = "collected" }
  /\ \A k \in DOMAIN issues :
       /\ issues[k].verified <=> issues[k].status = "verified_success"
       /\ issues[k].status = "failed" <=> issues[k].rounds = <<>>
       /\ issues[k].status = "failed" <=> [kind |-> "issue", issue |-> issues[k].issue] \in errors
  /\ phase = "done" => \A i \in Issues : \E k \in DOMAIN issues : issues[k].issue = i

\* The totals of result.json agree with one another although each is counted
\* from something else: the flag, the status, the agents and the rounds.
SummaryAddsUp ==
  result.published =>
    LET sum == result.summary
        done == { a \in Agents : result.agents[a].status = "succeeded" }
    IN  /\ sum.total = NumIssues
        /\ sum.verified + sum.failed = sum.total
        /\ sum.verified <= sum.reviewPass
        /\ sum.reviewPass <= sum.rounds
        /\ sum.rounds <= NumIssues * MaxRounds
        /\ sum.failed = 0 <=> done = Agents
        /\ sum.failed >= Cardinality(Agents \ done)
        /\ Cardinality({ e \in result.errors : e.kind = "issue" }) <= sum.failed

\* docs/mini_swe_agent_team_v2.md, "fixed_llm limits LLM concurrency": no more
\* issues wait for the LLM at once than max_active_llm_requests.
LlmRequestsWithinLimit ==
  Cardinality({ i \in Issues : pc[i] = "generating" }) <= MaxActiveLlm

-----------------------------------------------------------------------------
\* TeamRun as an IssueLedger: an issue is settled by its row, the report is the
\* summary of result.json.
RowOf(i) == { k \in DOMAIN issues : issues[k].issue = i }

Settled == [i \in Issues |->
  IF RowOf(i) = {} THEN "open"
  ELSE IF \E k \in RowOf(i) : issues[k].verified THEN "verified" ELSE "failed"]

Report ==
  IF phase = "done"
  THEN [state |-> "published", verified |-> result.summary.verified,
        failed |-> result.summary.failed]
  ELSE [state |-> IF phase = "crashed" THEN "aborted" ELSE "none", verified |-> 0, failed |-> 0]

Ledger == INSTANCE IssueLedger WITH Work <- Issues, settled <- Settled, report <- Report

\* A run of TeamOrchestrator keeps the promise of IssueLedger, including that it
\* ends.
ImplementsLedger == Ledger!FairLedgerSpec

=============================================================================
