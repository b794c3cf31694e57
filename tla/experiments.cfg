\* Every test, alone and one after the other; benchmarks that need 1 to 9 bytes.
CONSTANTS
  Configs <- MCConfigs
  NumCpus = 4
  UtilInc = 50
  MaxRuns = 2
  Sizes <- MCSizes
  Slack = 2
SPECIFICATION Spec
INVARIANTS
  InterferenceInPlace
  NoneLeft
  SchedOwnWCET
  WSSBracket
PROPERTIES
  WSSEnds
CHECK_DEADLOCK FALSE
