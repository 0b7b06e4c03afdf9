SPECIFICATION Spec
CONSTANTS
  Threads = {t1}
  Executors = {e1, e2}
  NoExecutor = NoExecutor
  Size = 1
  MaxFaults <- ReplaceFails
INVARIANTS
  KeepsExecutorsReady
CHECK_DEADLOCK FALSE
