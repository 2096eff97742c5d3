SPECIFICATION MCFairSpec
CONSTANTS
  NumPoints = 3
  HasSudo = TRUE
  Gets = {t1, t2}
  MaxGets = 3
INVARIANTS CollectorsOfOnePoint TableOfWholeSweep
PROPERTIES NothingOfPartialSweep TableHeals
