SPECIFICATION Spec
CONSTANTS
  Requests = {r1, r2}
  Approvers = {a1}
  Operators = {}
  Slots = {s1, s2}
  Weights = {1}
  MaxScore = 2
  HighThreshold = 1
  MaxTries = 1
  MaxBusy = 2
  HandlersCrash = FALSE
INVARIANT NoUnapprovedHighRisk
