SPECIFICATION FairSpec
CONSTANTS
  t1 = t1
  t2 = t2
  t3 = t3
  NoThread = NoThread
  Threads <- TwoThreads
  NumParts = 3
  MaxFaults <- OneOfEach
INVARIANTS
  TypeOK
  HalfSavedIsLocked
  NoHoles
PROPERTIES
  SavedOnce
  Finishes
