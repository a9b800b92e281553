SPECIFICATION Spec
CONSTANTS
  Requests = {r1, r2}
  Approvers = {a1, a2}
  Operators = {}
  Slots = {s1, s2}
  Weights = {1}
  MaxScore = 1
  HighThreshold = 1
  MaxTries = 1
  MaxBusy = 2
  HandlersCrash = TRUE
SYMMETRY Interchangeable
INVARIANTS TypeOK GateHonoured UnapprovedOnlyLate
PROPERTIES ImplementsApprovalGate RowTellsTheTruth
