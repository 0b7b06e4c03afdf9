SPECIFICATION Spec
CONSTANTS
  Threads = {t1}
  OwnSteps = {0, 1, 2}
  Times = {0}
  MaxRaw = 2
  MaxSpans = 3
  MaxRuns = 2
  MaxRaises = 1
INVARIANTS
  SpansAreClearedPerRun
CHECK_DEADLOCK FALSE
