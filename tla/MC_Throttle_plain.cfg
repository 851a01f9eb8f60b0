SPECIFICATION ThrottleSpec
CONSTANTS
  b1 = b1
  b2 = b2
  w1 = w1
  w2 = w2
  w3 = w3
  p1 = p1
  f1 = f1
  Bodies = {b1, b2}
  Writers = {w1, w2, w3}
  Plains = {p1}
  Ftps = {f1}
  Users = {b1, b2, w1, w2, w3, p1, f1}
  Sharing <- TwoOfAKind
  PerSecond = 2
  Bandwidth = 2
  MaxCallers = 2
  Cuts <- LongAndShort
  Batch <- SmallForOne
  MaxDelay = 2
INVARIANT ExcessIsBuffered
CHECK_DEADLOCK FALSE
