SPECIFICATION ServerSpec
CONSTANTS
  Conns = {c1, c2}
  Ips = {i1}
  None = None
  Configs <- EitherLimit
  Generations = {0, 1, 2}
  Targets <- Alike
  Labels <- LabelsOfAlike
PROPERTY OnlyNamedBypass
CHECK_DEADLOCK FALSE
