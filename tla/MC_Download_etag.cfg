SPECIFICATION DownloaderSpec
CONSTANTS
  Workers = {w1, w2}
  InitialWorkers = 1
  TotalSize = 2
  Sizes = {1}
  Data = {g1, g2}
  Hole = hole
  Never = never
  MaxSegmentRetries = 0
  Permits = 2
  StrongEtag = TRUE
SYMMETRY Symmetry
INVARIANTS
  GenerationChangeReported
CHECK_DEADLOCK FALSE
