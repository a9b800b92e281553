SPECIFICATION Spec
CONSTANTS
  Audits = {a1, a2}
  Analyses <- SomeAnalyses
  KnownTypes = {"security"}
  DefaultType = "security"
  Severities = {"low", "critical"}
  DefaultSev = "low"
  Weight <- SomeWeights
  MaxScore = 100
  Slots = {s1}
  MaxLost = 0
  NoSlot = NoSlot
  None = None
INVARIANTS ChangedIssuesAreAdded
CHECK_DEADLOCK FALSE
