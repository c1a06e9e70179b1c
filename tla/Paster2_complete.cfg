SPECIFICATION RetrySpec
CONSTANTS
  p1 = p1
  p2 = p2
  c1 = c1
  c2 = c2
  c3 = c3
  NoProc = NoProc
  Producers <- TwoProducers
  Consumers <- TwoConsumers
  BufSize = 2
  NumStrips = 4
  MaxFaults <- OneTransfer
INVARIANTS
  ExactlyOnce
  CountHonest
  WrittenImageComplete
  NoStandstill
PROPERTIES
  ImplementsAssembly
  Finishes
