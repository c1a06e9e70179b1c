SPECIFICATION Spec
CONSTANTS
  r = r
  d = d
  f1 = f1
  f2 = f2
  f3 = f3
  Root = r
  Dirs = {r, d}
  Names = {f1, f2, f3}
  Parent <- Tree
  Contents <- AllContents
  Fragments <- FragmentOrder
  U32 = 24
  MaxExtra = 2
  MaxFaults <- OneFindFault
  MaxCatFaults <- OneCatFault
  MaxChanges = 1
INVARIANTS
  TypeOK
  PrintedOnce
  NothingSkipped
  WrittenFromAll
  InfFits
  HeaderTells
  Released
PROPERTIES
  Finishes
