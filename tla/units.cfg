SPECIFICATION UnitsSpec
CONSTANTS
  Parallel = TRUE
  MaxSegments = 2
  MaxSide = 3
  Rows1 = 3
  Rows2 = 2
  Distances = {1, 2}
  Threshold = 1
  NumBins = 3
  MaxCount = 4
  InverseTolerance = 10
  Words = {"-h", "-o", "-new", "-old", "-threshold", "-thread_count", "-color-diagnostics",
           "-perf", "-1", "0", "image", ""}
  Plain = {"0", "image", ""}
  Number <- MCNumber
  CommandLines <- MCCommandLines
  MaxArgs = 4
  MaxMore = 3
  DefaultThreads = 16
INVARIANTS
  UnitsTypeOK SegmentsReady AccessInside MajorityDecides OneToOne
  ProportionalIsSame OldColoursCompared SettingsExplained FirstEnderDecides
PROPERTIES CallsEnd EveryPixelCompared
CHECK_DEADLOCK FALSE
