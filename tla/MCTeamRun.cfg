SPECIFICATION MCFairSpec
CONSTANTS
  NumIssues = 2
  NumAgents = 3
  Parallelism = 2
  MaxRounds = 2
  MaxActiveLlm = 1
  AdapterMode = "cli"
  UsesDocker = TRUE
  RetryOnReject = TRUE
  RetryOnTest = TRUE
  CommandIssues <- MCCommandIssues
  CliLogs <- MCLogs
INVARIANTS RetryChain OutcomeFromLastRound NoEarlyGiveUp LedgerMatchesFutures SummaryAddsUp
PROPERTY ImplementsLedger
