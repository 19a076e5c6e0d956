SPECIFICATION FairSpec
CONSTANTS
  Servers = {s1, s2}
  Agents = {s1}
  Hideable = {s1}
  NoServer = NoServer
  Window = 1
  LiveKeep = 1
  Start = 1
  MaxTime = 2
  MaxReports = 2
  MaxLists = 2
  MaxAsked = 1
  MaxPending = 2
INVARIANTS
  TypeOK
  
  ShownTrue
PROPERTIES
  PageSettles
  ChartsComeRight
