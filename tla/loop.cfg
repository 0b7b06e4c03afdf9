SPECIFICATION FairSpec
CONSTANTS
  evidence = evidence
  Types = {evidence, approval}
  Runners = {"daytona", "local", "caller"}
  MaxIterations = 3
  Outputs <- SomeOutputs
  Durations = {1, 2}
  Usages = {1, 2}
INVARIANTS
  StopsWhenDecided
  ChargesWhatWasUsed
  InfrastructureErrorsStayErrors
  ProvenanceIsTrue
PROPERTIES
  LoopReturns
