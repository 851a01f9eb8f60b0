SPECIFICATION FairDownloaderSpec
CONSTANTS
  Workers = {w1, w2}
  InitialWorkers = 1
  TotalSize = 3
  Sizes = {1, 2}
  Data = {g1, g2}
  Hole = hole
  Never = never
  MaxSegmentRetries = 1
  Permits = 2
  StrongEtag = TRUE
INVARIANTS
  OkMeansOneGeneration
  DrainedIsQuiet
PROPERTIES
  ImplementsBuffer
  DownloadReturns
CHECK_DEADLOCK FALSE
