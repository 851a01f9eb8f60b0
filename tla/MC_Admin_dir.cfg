SPECIFICATION AdminSpec
CONSTANTS
  Unset = unset
  NoFile = noFile
  Unreadable = unreadable
  DefaultDir = defaultDir
  defaultDir = defaultDir
  dirA = dirA
  dirB = dirB
  Wrap = 16
  Sites <- SitesOfTests
  Files <- AskedFiles
  Selectors <- SelectorsTyped
  Refused = refused
  Absent = absent
  Ports <- PortTokens
  PortOf <- PortsGiven
  NoSize = noSize
  Kibi = 2
  Kilo = 3
  Limit = 16
  MaxRows = 3
INVARIANT CtlUsesTheServersCache

