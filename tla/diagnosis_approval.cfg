SPECIFICATION Spec
CONSTANTS
  ClientEvents <- InOrder
  MaxEvents = 3
  Drivers = {"worker"}
  Blamed = {"VerifierAgent"}
  BlamedSteps = {1}
  RowStatuses = {"pass"}
INVARIANTS
  ApprovalBeforeAction
CHECK_DEADLOCK FALSE
