SPECIFICATION Spec
CONSTANTS
  Servers = {s1}
  Minute = 2
  RecentKeep = 2
  Retention = 9
  Faults = {}
  Start = 2
  MaxTime = 7
  MaxSamples = 4
  MaxTokens = 0
  MaxInFlight = 2
INVARIANTS
  DeletedHistoryGone
