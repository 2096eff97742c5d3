SPECIFICATION MCSpec
CONSTANTS
  MaxFiles = 4
  MaxBytes = 7
  BundleMax = 10
  HistoryMax = 3
  PromptChars = 8
  History = TRUE
  Collect = TRUE
  Candidates = 5
  MaxSize = 4
  Header = 3
  Frame = 1
  Snippet = 3
  Section = 2
INVARIANTS BudgetsKept BundleFull PromptTellsContext
