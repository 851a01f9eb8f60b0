SPECIFICATION FlowSpec
CONSTANTS
  Requests = {r1, r2, r3}
  Urls = {u1, u2}
  XzUrls = {u1}
  MaxInflight = 2
  None = None
  MaxRetries = 0
  EtagMaxRetries = 1
  CooldownAfter = 1
  RowsAtStart = {"none"}
SYMMETRY Symmetry
INVARIANTS
  EntryOwned
  WaiterListedOrAnswered
  CooldownIsEarned
CHECK_DEADLOCK FALSE
