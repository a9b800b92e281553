SPECIFICATION FairSpec
CONSTANTS
  ChunkSize = 3
  ChunkOverlap = 1
  MinWords = 2
  Texts <- SomeTexts
  Procs = {1, 2}
  Desks = {d1, d2}
  MaxRuns = 3
  MaxFaults = 1
INVARIANTS TypeOK IndexIsTheText IndexedOnce SearchFindsTheLiving
PROPERTY ProcessingProceeds
CHECK_DEADLOCK FALSE
