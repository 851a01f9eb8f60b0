SPECIFICATION ServerSpec
CONSTANTS
  Conns = {c1, c2}
  Ips = {i1}
  None = None
  Configs <- EitherLimit
  Generations = {0, 1, 2}
  Targets <- Border
  Labels <- LabelsOfBorder
INVARIANT NetworkIsBypassed
CHECK_DEADLOCK FALSE
