SPECIFICATION FairSpec
CONSTANTS
  Options <- MCOptions
  TicksPerSecond = 3
  SynchDelay = 1
  WorkingClocks = {"clocks", "secs"}
  InterruptibleEnd = FALSE
  SkippedDeadlines = TRUE
  MaxLatency = 1
  MaxTime = 11
INVARIANTS
  TypeOK
  OneJobPerRelease
  ReportLedger
  AllReportedAtExit
  ExtraOfItsJob
  JobRowComplete
  VerdictWithinLatency
PROPERTIES
  SkipsOnlyLaterDeadlines
  Completes
  ImplementsPeriodicTask
