SPECIFICATION FairSpec
CONSTANTS
  Requests = {r1}
  Approvers = {a1}
  Operators = {}
  Slots = {s1}
  Weights = {1}
  MaxScore = 2
  HighThreshold = 1
  MaxTries = 0
  MaxBusy = 2
  HandlersCrash = FALSE
PROPERTY ApprovalResumesAudit
