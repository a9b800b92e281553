SPECIFICATION Spec
CONSTANTS
  Editors = {e1, e2}
  Exports = {x1}
  Edits = {c1}
  MaxVersion = 3
  ListLimit = 2
  Faults = TRUE
  Overruns = TRUE
  Restarts = TRUE
SYMMETRY Alike
INVARIANTS TypeOK HonestInv HistoryInv CompletedHasFile WorkIsOwned
PROPERTIES ImplementsVersionHistory GenerationKeepsEdits
CHECK_DEADLOCK FALSE
