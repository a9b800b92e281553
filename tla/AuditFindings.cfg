SPECIFICATION Spec
CONSTANTS
  Audits = {a1, a2}
  Analyses <- SomeAnalyses
  KnownTypes = {"security"}
  DefaultType = "security"
  Severities = {"low", "critical"}
  DefaultSev = "low"
  Weight <- SomeWeights
  MaxScore = 100
  Slots = {s1, s2}
  MaxLost = 1
  NoSlot = NoSlot
  None = None
SYMMETRY Interchangeable
INVARIANTS TypeOK IssuesOnRecord ScoreHolds NothingListedTwice UndisturbedIsExact
CHECK_DEADLOCK FALSE
