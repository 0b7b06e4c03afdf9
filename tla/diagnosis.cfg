SPECIFICATION Spec
CONSTANTS
  ClientEvents <- AtEitherStep
  MaxEvents = 2
  Drivers = {"worker", "pipeline", "chat"}
  Blamed = {"VerifierAgent", ""}
  BlamedSteps = {1}
  RowStatuses = {"pass", "fail"}
INVARIANTS
  RoutingMeansOrder
  ReportIsCoherent
  CleanTracesAreClean
  ViolationsAreVisible
CHECK_DEADLOCK FALSE
