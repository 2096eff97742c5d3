SPECIFICATION MCSpec
CONSTANTS
  NumIssues = 2
  NumAgents = 2
  Parallelism = 2
  MaxRounds = 2
  MaxActiveLlm = 1
  AdapterMode = "cli"
  UsesDocker = TRUE
  RetryOnReject = FALSE
  RetryOnTest = TRUE
  CommandIssues <- MCNone
  CliLogs <- MCFewLogs
INVARIANT LlmRequestsWithinLimit
