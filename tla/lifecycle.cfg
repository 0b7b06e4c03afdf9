SPECIFICATION GraphSpec
CONSTANTS
  Runs = {r1, r2}
  Instances = {i1}
  MaxCrashes = 1
  MaxFaults = 1
  MaxSetupStops = 1
  Types = {"schema", "approval"}
  Lower <- LowerCase
  AgentOf <- RegistryAgent
  SeverityOf <- RegistrySeverity
  Documents <- SomeDocuments
  Workflows = {"seeded", "posted"}
  Seeded = "seeded"
  Bodies <- SomeBodies
  Violations <- OneViolation
  MaxGraphFaults = 1
SYMMETRY Symmetry
INVARIANTS
  TypeOK
  LifecycleOrder
  RowMatchesOutcome
  NoOrphans
  HistoryEndsWithStatus
  StoreIsComplete
  DslMeansItsRules
  GraphIsBacked
  GraphIsComplete
PROPERTIES
  TerminalIsFinal
  RecoverySparesLiveTasks
  LifecycleImplemented
CHECK_DEADLOCK FALSE
