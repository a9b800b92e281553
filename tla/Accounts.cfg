SPECIFICATION Spec
CONSTANTS
  Desks = {1, 2}
  Roles = {"admin", "reviewer"}
  Passwords = {"first", "second"}
  MaxTokens = 3
  MaxResets = 1
  MaxChanges = 2
  MaxFaults = 1
INVARIANTS TypeOK TokensRotate LogoutEndsAll ResetOnce NothingUndone
CHECK_DEADLOCK FALSE
