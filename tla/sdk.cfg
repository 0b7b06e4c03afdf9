SPECIFICATION Spec
CONSTANTS
  Threads = {t1, t2}
  OwnSteps = {0, 1, 2}
  Times = {0}
  MaxRaw = 2
  MaxSpans = 3
  MaxRuns = 2
  MaxRaises = 1
SYMMETRY ThreadSymmetry
INVARIANTS
  EventsAreSubmitted
  TraceIsInOrder
  PayloadIsATree
CHECK_DEADLOCK FALSE
