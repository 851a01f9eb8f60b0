SPECIFICATION FairFtpSpec
CONSTANTS
  Workers <- TwoWorkers
  InitialWorkers = 2
  TotalSize = 3
  Sizes = {1, 2}
  Data <- FileUnits
  Hole = hole
  Permits = 2
  FaultSets <- FaultsOfServers
  Replies <- PasvReplies
  Refused = refused
  Absent = absent
  Ports <- PortTokens
  PortOf <- PortsGiven
  Urls <- UrlsAsked
INVARIANTS OkMeansAllCompleted KeptIsTheFile
PROPERTIES UsesTheBuffer FtpReturns
