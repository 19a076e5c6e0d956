SPECIFICATION Spec
CONSTANTS
  Names = {n1}
  Builtin = builtin
  Admins = {a1, a2}
  Paths = {"index"}
  Faults = {"crash", "diskError", "dbError"}
  MaxPackages = 2
SYMMETRY Symmetry
INVARIANTS
  TypeOK
  ListedWhole
PROPERTIES
  InstallHeals
  FrontPageFound
