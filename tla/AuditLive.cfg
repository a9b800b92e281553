SPECIFICATION FairSpec
CONSTANTS
  Requests = {r1, r2}
  Approvers = {a1}
  Operators = {u1}
  Slots = {s1}
  Weights = {1}
  MaxScore = 2
  HighThreshold = 1
  MaxTries = 1
  MaxBusy = 2
  HandlersCrash = FALSE
PROPERTY AuditEnds
