\* Every command line of MCProcess, every call that may fail, SIGINT anywhere.
CONSTANTS
  Kilo = 4
  SizeBound = 64
  CountBound = 8
  NSec = 2
  Fine = 4
  MaxPrio = 99
  CpuSetSize = 4
  PerfSupport = TRUE
  Blocks <- MCBlocks
  Size <- MCSize
  PageSize = 4
  CellSize = 1
  DlGranule = 2
  DlOverhead = 1
  Programs <- MCPrograms
  MayFail <- Calls
  Pmcs = 2
  MaxExpiries = 3
SPECIFICATION Spec
INVARIANTS
  ParsedConsistent
  CleanInterrupt
  FailureReported
  HeapInMapping
  FreedByItsAllocator
PROPERTIES
  ExtendedOverLimit
CHECK_DEADLOCK FALSE
