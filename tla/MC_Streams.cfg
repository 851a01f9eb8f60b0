\* Two workers, a file of three units claimed one or two at a time, one body.
SPECIFICATION FairStreamSpec
CONSTANTS
  Workers = {w1, w2}
  InitialWorkers = 1
  Streams = {s1}
  TotalSize = 3
  Sizes = {1, 2}
  Data = {g1, g2}
  Hole = hole
  ReadErrors = TRUE
INVARIANTS
  ClaimsPartition
  CompletionSound
  NothingSentTwice
  NoHoleSent
PROPERTIES
  ImplementsRangedDownload
  StreamsFinish
  LostRangeIsReported
CHECK_DEADLOCK FALSE
