SPECIFICATION FlowSpec
CONSTANTS
  Requests = {r1, r2}
  Urls = {u1}
  XzUrls = {}
  MaxInflight = 2
  None = None
  MaxRetries = 1
  EtagMaxRetries = 1
  CooldownAfter = 2
  RowsAtStart = {"none"}
SYMMETRY Symmetry
INVARIANTS
  WaiterHasLeader
CHECK_DEADLOCK FALSE
