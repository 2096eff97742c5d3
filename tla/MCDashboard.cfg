SPECIFICATION MCFairSpec
CONSTANTS
  Threads = {t1, t2, t3}
  MaxRequests = 4
  MaxClock = 2
INVARIANTS OneSweepAtATime FieldsAgree StopEndsItsSweep
PROPERTIES StopSparesLaterSweeps RequestsAnswered
