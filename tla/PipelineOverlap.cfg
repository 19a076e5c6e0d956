SPECIFICATION FairSpec
CONSTANTS
  Servers = {s1}
  Minute = 2
  RecentKeep = 2
  Retention = 2
  Faults = {"agentTimeout", "clockStep", "dbError", "restart"}
  Start = 2
  MaxTime = 5
  MaxSamples = 4
  MaxTokens = 0
  MaxInFlight = 2
INVARIANTS
  MinutesPure
  CountedOnce
PROPERTIES
  RevokedIsSilent
  LossIsReplacement
  ReportsSettle
