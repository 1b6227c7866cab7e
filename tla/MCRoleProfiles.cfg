SPECIFICATION Spec
CONSTANTS
  None = None
  Missing = Missing
  Foreign = Foreign
  Servers = {s1, s2}
  Projects = {p1}
  Git = {p1}
  Roles = {1, 2}
  Models = {"m1"}
  Levels = {"low"}
  Versions = {1, 2}
  MaxCalls = 3
  MaxMeddling = 1
SYMMETRY Symmetry
INVARIANTS
  TypeOK
  PinsAreNotLostQuietly
  RepairMakesReady
CHECK_DEADLOCK FALSE
