SPECIFICATION MCSpec
CONSTANTS
  AgentSweep <- MCAgentSweep
  HasDcgmi = TRUE
  HasPcm = TRUE
INVARIANTS NoCollectorLeft MetricsAreOwn GroupTellsSamples
PROPERTY SweepEnds
