SPECIFICATION FairSpec
CONSTANTS
  Servers = {s1}
  AllServers = all
  Ids = {1}
  MaxRules = 1
  Intervals = {0, 1}
  Window = 1
  Ratio = 100
  Grace = 1
  Cooldown = 1
  Day = 2
  Faults = {}
  Start = 1
  MaxTime = 2
PROPERTIES
  AllServersRuleAlerted
