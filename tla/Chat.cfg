SPECIFICATION FairSpec
CONSTANTS
  c1 = c1
  c2 = c2
  owner = owner
  stranger = stranger
  Chats = {c1, c2}
  Users = {owner, stranger}
  Owner = owner
  MaxTurns = 2
  PromptRows = 2
  Earlier = 3
  Burst = 1
  MaxRefills = 1
  MaxPieces = 1
  MaxFaults = 1
INVARIANTS TypeOK LimitsHold StoredIsStreamed ConversationIsWhole
PROPERTY TurnsEnd
CHECK_DEADLOCK FALSE
