SPECIFICATION MCSpec
CONSTANTS
  Guests = {v1, v2}
  TasksPerVm = 2
  LoadModes = {"single_task", "sustained_prefill"}
  WorkloadSeconds = 2
  RequestTimeout = 2
  RunSeconds = 4
  Runners = {"api", "cli", "mock"}
  MaxEdits = 2
  NumThreads = 2
  MaxRounds = 2
INVARIANTS ResultCountsTrace TableClaimsNoMore VerifiedPatchIsFinal TotalIsOfThreads
PROPERTIES ImplementsGuest WorkerEnds
