SPECIFICATION FairSpec
CONSTANTS
  w1 = w1
  w2 = w2
  w3 = w3
  Workers <- ThreeWorkers
  Jobs = 2
  MayFail = TRUE
  SafeInterrupts = TRUE
INVARIANTS
  SignalsMeanAll
  NoWorkBetweenJobs
PROPERTIES
  AllJoined
  ErrorStopsWorkers
  MainNotLeftWaiting
  ImplementsForkJoin
CHECK_DEADLOCK FALSE
