SPECIFICATION Spec
CONSTANTS
  p1 = p1
  p2 = p2
  c1 = c1
  c2 = c2
  c3 = c3
  NoProc = NoProc
  Producers <- TwoProducers
  Consumers <- ThreeConsumers
  BufSize = 2
  NumStrips = 3
  MaxFaults <- ManyFaults
SYMMETRY Symmetry
INVARIANTS
  TypeOK
  SlotsAccounted
  TicketsAccounted
  TokensAccounted
  RingExclusive
  PushPopNeverFail
  QuitMeansDone
PROPERTIES
  RunsDown
CHECK_DEADLOCK FALSE
