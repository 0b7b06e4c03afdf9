SPECIFICATION FairEventsSpec
CONSTANTS
  run1 = run1
  Runs = {run1}
  Instances = {i1}
  Clients = {c1}
  Resuming = {{}, {c1}}
  Watched <- AllWatchRun1
  MaxCrashes = 2
  MaxFaults = 1
  MaxDrops = 2
INVARIANTS
  NothingMissed
PROPERTIES
  FeedImplemented
  EventuallyTerminal
  ResumingClientsSettle
  DashboardsSettle
CHECK_DEADLOCK FALSE
