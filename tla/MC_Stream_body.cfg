\* The two workers of one download, one body, no failure of any kind but dying.
SPECIFICATION StreamSpec
CONSTANTS
  Workers = {w1, w2}
  InitialWorkers = 1
  Streams = {s1}
  TotalSize = 3
  Sizes = {1}
  Data = {g1}
  Hole = hole
  ReadErrors = FALSE
INVARIANT
  BodyIsTheFile
CHECK_DEADLOCK FALSE
