SPECIFICATION MCSpec
CONSTANTS
  ContextLengths <- MCContextLengths
  AgentCounts <- MCAgentCounts
  Repeats = 2
INVARIANTS GroupCoversGrid RowsAreTheChildrens
