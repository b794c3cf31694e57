SPECIFICATION FairSpec
CONSTANTS
  Options <- MCFractional
  TicksPerSecond = 2
  SynchDelay = 1
  WorkingClocks = {"clocks", "secs"}
  InterruptibleEnd = FALSE
  SkippedDeadlines = TRUE
  MaxLatency = 1
  MaxTime = 10
PROPERTIES
  FirstJobStarts
