SPECIFICATION Spec
CONSTANTS
  b1 = b1
  b2 = b2
  b3 = b3
  Procs <- Two
  GroupSize = 2
  MasterFirst = FALSE
  MaxStrays = 0
INVARIANTS
  SameStart
CHECK_DEADLOCK FALSE
