SPECIFICATION FairEventsSpec
CONSTANTS
  run1 = run1
  Runs = {run1}
  Instances = {i1}
  Clients = {dash}
  Resuming = {{}}
  Watched <- AllWatchRun1
  MaxCrashes = 1
  MaxFaults = 0
  MaxDrops = 0
PROPERTIES
  LiveReconnects
CHECK_DEADLOCK FALSE
