SPECIFICATION FairThrottleSpec
CONSTANTS
  b1 = b1
  b2 = b2
  w1 = w1
  w2 = w2
  w3 = w3
  p1 = p1
  f1 = f1
  Bodies = {b1, b2}
  Writers = {w1, w2, w3}
  Plains = {p1}
  Ftps = {f1}
  Users = {b1, b2, w1, w2, w3, p1, f1}
  Sharing <- TwoBodies
  PerSecond = 2
  Bandwidth = 1
  MaxCallers = 2
  Cuts <- LongAndShort
  Batch <- SmallForOne
  MaxDelay = 2
PROPERTY ReadIsDelivered
CHECK_DEADLOCK FALSE
