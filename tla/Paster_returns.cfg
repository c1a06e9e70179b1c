SPECIFICATION Spec
CONSTANTS
  t1 = t1
  t2 = t2
  t3 = t3
  NoThread = NoThread
  Threads <- TwoThreads
  NumParts = 2
  MaxFaults <- NoFaults
INVARIANTS
  ReturnsAreFilled
