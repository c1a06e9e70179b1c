SPECIFICATION Spec
CONSTANTS
  p1 = p1
  p2 = p2
  c1 = c1
  c2 = c2
  c3 = c3
  NoProc = NoProc
  Producers <- TwoProducers
  Consumers <- OneConsumer
  BufSize = 2
  NumStrips = 2
  MaxFaults <- OneTransfer
SYMMETRY Symmetry
INVARIANTS
  WrittenImageComplete
CHECK_DEADLOCK FALSE
