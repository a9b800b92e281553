SPECIFICATION Spec
CONSTANTS
  c1 = c1
  c2 = c2
  owner = owner
  stranger = stranger
  Chats = {c1, c2}
  Users = {owner}
  Owner = owner
  MaxTurns = 1
  PromptRows = 1
  Earlier = 0
  Burst = 1
  MaxRefills = 1
  MaxPieces = 1
  MaxFaults = 1
INVARIANT CapNeverExceeded
CHECK_DEADLOCK FALSE
