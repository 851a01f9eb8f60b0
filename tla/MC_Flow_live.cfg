SPECIFICATION FairFlowSpec
CONSTANTS
  Requests = {r1, r2}
  Urls = {u1}
  XzUrls = {u1}
  MaxInflight = 2
  None = None
  MaxRetries = 1
  EtagMaxRetries = 1
  CooldownAfter = 2
  RowsAtStart = {"none", "fresh", "stale"}
INVARIANTS
  OneDownloadPerUrl
  NeverOutOfSight
PROPERTIES
  RequestsEnd
  DownloadsLeave
CHECK_DEADLOCK FALSE
