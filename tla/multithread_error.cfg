SPECIFICATION FairSpec
CONSTANTS
  w1 = w1
  w2 = w2
  w3 = w3
  Workers <- TwoWorkers
  Jobs = 2
  MayFail = TRUE
  SafeInterrupts = TRUE
PROPERTIES
  ErrorTerminates
CHECK_DEADLOCK FALSE
