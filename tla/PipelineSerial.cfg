SPECIFICATION Spec
CONSTANTS
  Servers = {s1}
  Minute = 2
  RecentKeep = 2
  Retention = 3
  Faults = {"dbError", "restart"}
  Start = 2
  MaxTime = 7
  MaxSamples = 4
  MaxTokens = 1
  MaxInFlight = 2
INVARIANTS
  TypeOK
  NothingLost
  LiveViewAgrees
PROPERTIES
  NeverOverwritten
  HistorySpec
