SPECIFICATION FairSpec
CONSTANTS
  Options <- Profiled
  Jobs = 1
  FirstLength = 2
  MaxBuffers = 2
  MaxTicks = 1
PROPERTIES
  TeardownCompletes
CHECK_DEADLOCK FALSE
