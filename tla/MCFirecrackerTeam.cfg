SPECIFICATION MCFairSpec
CONSTANTS
  NumIssues = 3
  NumAgents = 3
  DryRun = FALSE
INVARIANTS ImageHasOneUser VerifiedByOwnGuest EveryVmHasItsRow
PROPERTY ImplementsLedger
