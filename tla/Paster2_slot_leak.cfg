SPECIFICATION FairSpec
CONSTANTS
  p1 = p1
  p2 = p2
  c1 = c1
  c2 = c2
  c3 = c3
  NoProc = NoProc
  Producers <- OneProducer
  Consumers <- OneConsumer
  BufSize = 1
  NumStrips = 2
  MaxFaults <- OneTransfer
PROPERTIES
  Finishes
CHECK_DEADLOCK FALSE
