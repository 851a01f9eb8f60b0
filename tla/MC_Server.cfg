SPECIFICATION FairServerSpec
CONSTANTS
  Conns = {c1, c2}
  Ips = {i1}
  None = None
  Configs <- EitherLimit
  Generations = {0, 1, 2}
  Targets <- Hosts
  Labels <- LabelsOf
INVARIANTS
  PermitsBalanced
  HeldWhileServed
  ProxyIsBypassed
PROPERTIES
  SignalEndsService
CHECK_DEADLOCK FALSE
