\* A single worker: the body can only end short, never go out of order.
SPECIFICATION StreamSpec
CONSTANTS
  Workers = {w1}
  InitialWorkers = 1
  Streams = {s1}
  TotalSize = 2
  Sizes = {1}
  Data = {g1}
  Hole = hole
  ReadErrors = FALSE
INVARIANT
  BodyIsTheFile
CHECK_DEADLOCK FALSE
