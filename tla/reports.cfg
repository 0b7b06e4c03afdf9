SPECIFICATION Spec
CONSTANTS
  r1 = r1
  r2 = r2
  r3 = r3
  Runs = {r1, r2, r3}
  Workflows = {"w1", "w2"}
  WorkflowOf <- TwoOfThree
  Operators = {o1, o2}
  Keys = {k1, k2}
  MaxWrites = 6
INVARIANTS
  RowsMatchReports
  RecurrencesAreTrue
PROPERTIES
  ApprovalsOnlyDecide
  ApprovalsMoveOnlyEnds
CHECK_DEADLOCK FALSE
SYMMETRY OperatorSymmetry
