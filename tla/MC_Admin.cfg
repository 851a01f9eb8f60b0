SPECIFICATION AdminSpec
CONSTANTS
  Unset = unset
  NoFile = noFile
  Unreadable = unreadable
  DefaultDir = defaultDir
  defaultDir = defaultDir
  dirA = dirA
  dirB = dirB
  Wrap = 16
  Sites <- SitesOfTests
  Files <- AskedFiles
  Selectors <- SelectorsTyped
  MaxRows = 3
  Refused = refused
  Absent = absent
  Ports <- PortTokens
  PortOf <- PortsGiven
  NoSize = noSize
  Kibi = 2
  Kilo = 3
  Limit = 16
INVARIANTS AliasIsShown ViewsAgree ShownCanBeNamed CtlFollowsServer
PROPERTIES RemovedIsGone
