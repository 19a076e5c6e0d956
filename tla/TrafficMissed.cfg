SPECIFICATION Spec
CONSTANTS
  Servers = {s1}
  Handlers = {h1}
  Limits = {0, 1, 2}
  TrafficPct = 80
  Faults = {}
  MaxMonth = 2
  MaxPassed = 3
  MaxBoots = 1
SYMMETRY Symmetry
PROPERTIES
  QuotaAlerted
