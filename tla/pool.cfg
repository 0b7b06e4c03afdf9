SPECIFICATION FairSpec
CONSTANTS
  Threads = {t1, t2}
  Executors = {e1, e2, e3, e4}
  NoExecutor = NoExecutor
  Size = 2
  MaxFaults <- AllFail
INVARIANTS
  TypeOK
  Exclusive
  RunsAreIsolated
  SlotsAccounted
  NoLeakWhileOpen
PROPERTIES
  CallsReturn
  CloseReturns
CHECK_DEADLOCK FALSE
