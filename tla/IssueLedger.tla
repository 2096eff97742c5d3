---------------------------- MODULE IssueLedger ----------------------------
(***************************************************************************)
(* What a team run promises about the issues it was given, whichever       *)
(* executor runs them: each issue is settled once, as verified or as       *)
(* failed, and result.json appears once, after all of them, with totals    *)
(* that count every issue exactly once.  A run that cannot start leaves no *)
(* result.  TeamRun and FirecrackerTeam implement this specification.       *)
(***************************************************************************)
EXTENDS Naturals, FiniteSets

CONSTANT Work   \* the issues of the run

VARIABLES
  settled,  \* what has been settled about each issue
  report    \* the totals of result.json

ledger == <<settled, report>>

Verdicts == {"verified", "failed"}

NoReport == [state |-> "none", verified |-> 0, failed |-> 0]

Aborted == [state |-> "aborted", verified |-> 0, failed |-> 0]

\* The issues settled as v.
With(v) == { i \in Work : settled[i] = v }

LedgerInit ==
  /\ settled = [i \in Work |-> "open"]
  /\ report = NoReport

Settle(i) ==
  /\ report = NoReport
  /\ settled[i] = "open"
  /\ \E v \in Verdicts : settled' = [settled EXCEPT ![i] = v]
  /\ UNCHANGED report

PublishReport ==
  /\ report = NoReport
  /\ With("open") = {}
  /\ report' = [state |-> "published",
                verified |-> Cardinality(With("verified")),
                failed |-> Cardinality(With("failed"))]
  /\ UNCHANGED settled

Abort ==
  /\ report = NoReport
  /\ With("open") = Work
  /\ report' = Aborted
  /\ UNCHANGED settled

LedgerNext == (\E i \in Work : Settle(i)) \/ PublishReport \/ Abort

LedgerSpec == LedgerInit /\ [][LedgerNext]_ledger

\* Every run that was started ends, with a report or without.
FairLedgerSpec == LedgerSpec /\ WF_ledger(LedgerNext)

============================================================================
