SPECIFICATION ServerSpec
CONSTANTS
  Conns = {c1, c2}
  Ips = {i1}
  None = None
  Configs <- EitherLimit
  Generations = {0, 1, 2}
  Targets <- Hosts
  Labels <- LabelsOf
INVARIANT AddressLimited
CHECK_DEADLOCK FALSE
