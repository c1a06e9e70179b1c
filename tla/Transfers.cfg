SPECIFICATION Spec
CONSTANTS
  Capacity <- Capacities
  BufInc = 1
  MaxBlock = 3
  MaxBody <- Bodies
  Parts = {0, 1}
  Rounds = 2
  MaxFaults <- OneOfEach
INVARIANTS
  TypeOK
  InBounds
  PrefixKept
  KeptIsOneAnswer
  PushedIsWhole
  FileIsFinal
  Released
PROPERTIES
  Finishes
