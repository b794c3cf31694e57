SPECIFICATION Spec
CONSTANTS
  Requests <- SomeRequests
  Cores <- ThreeCores
  HalfInt = 4
  ClockRange = 4
  StartTimes <- SomeTimes
  MaxTime = 4
  MaxJobs = 2
INVARIANTS
  TypeOK
  OwnMemoryOnly
  IntervalOfJob
  BytesOfJob
CHECK_DEADLOCK FALSE
