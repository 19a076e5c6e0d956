SPECIFICATION FairSpec
CONSTANTS
  Servers = {s1}
  AllServers = all
  Ids = {1, 2}
  MaxRules = 1
  Intervals = {0, 1}
  Window = 1
  Ratio = 100
  Grace = 1
  Cooldown = 1
  Day = 2
  Faults = {"crash", "sendFails", "dbError"}
  Start = 3
  MaxTime = 4
INVARIANTS
  TypeOK
  MarksTrue
PROPERTIES
  RuleSpaced
  ExpiryOncePerDay
  RoundsEnd
  HotRuleAlerted
