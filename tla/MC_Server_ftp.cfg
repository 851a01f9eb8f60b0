SPECIFICATION ServerSpec
CONSTANTS
  Conns = {c1, c2}
  Ips = {i1}
  None = None
  Configs <- EitherLimit
  Generations = {0, 1, 2}
  Targets <- Hosts
  Labels <- LabelsOf
INVARIANT FtpIsProxied
CHECK_DEADLOCK FALSE
