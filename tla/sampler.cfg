SPECIFICATION Spec
CONSTANTS
  Options <- AllOptions
  Jobs = 2
  FirstLength = 1
  MaxBuffers = 2
  MaxTicks = 4
INVARIANTS
  TypeOK
  NextCellFree
  LogIsPrefix
  SamplesSeparated
  LogComplete
CHECK_DEADLOCK FALSE
