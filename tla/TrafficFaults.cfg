SPECIFICATION Spec
CONSTANTS
  Servers = {s1}
  Handlers = {h1, h2}
  Limits = {0, 1}
  TrafficPct = 80
  Faults = {"reboot", "dbError"}
  MaxMonth = 2
  MaxPassed = 2
  MaxBoots = 1
SYMMETRY Symmetry
INVARIANTS
  TypeOK
  UsageBounded
PROPERTIES
  ResetOnce
  NoNagging
