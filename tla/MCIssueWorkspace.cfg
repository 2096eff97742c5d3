SPECIFICATION MCSpec
CONSTANTS
  w1 = w1  w2 = w2
  r1 = r1
  Source = source
  Outsider = outsider
  Workers = {w1, w2}
  Runs = {r1}
  Ids <- ShortAndLong
  IdOf <- IdOfCall
  RunOf <- OneRun
  AgentOf <- OneAgent
  Digits <- TwoDigits
  Modes = {"source", "copy", "worktree"}
  SourceIsGit = TRUE
  Enclosed = TRUE
  MaxRounds = 2
  Kept = {"a", "b", "0", "1", "-", "."}
  NameLimit = 6
INVARIANTS PatchShowsWork NoLostWorkspace
 
