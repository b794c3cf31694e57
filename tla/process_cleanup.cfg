\* Counters in the build, an argument for the benchmark, no profiling: SIGINT during a job.
CONSTANTS
  Kilo = 4
  SizeBound = 64
  CountBound = 8
  NSec = 2
  Fine = 4
  MaxPrio = 99
  CpuSetSize = 4
  PerfSupport = TRUE
  Blocks <- MCBlocks
  Size <- MCSize
  PageSize = 4
  CellSize = 1
  DlGranule = 2
  DlOverhead = 1
  Programs <- MCNoProfile
  MayFail = {}
  Pmcs = 2
  MaxExpiries = 3
SPECIFICATION Spec
INVARIANT
  ReleasesAll
CHECK_DEADLOCK FALSE
