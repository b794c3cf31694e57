SPECIFICATION FairSpec
CONSTANTS
  b1 = b1
  b2 = b2
  b3 = b3
  Procs <- Three
  GroupSize = 3
  MasterFirst = TRUE
  MaxStrays = 2
INVARIANTS
  SameStart
  PostsCoverWaiters
PROPERTIES
  NobodyStranded
