SPECIFICATION Spec
CONSTANTS
  Sessions = {s1, s2}
  Executors = {s1}
  Operations = {"click", "screenshot"}
  MaxSessions = 1
  Calls = {c1, c2}
  Instances = 2
  None = None
  Torn = Torn
  MaxOperations = 3
  MaxFaults = 1
SYMMETRY Symmetry
INVARIANTS
  TypeOK
  AttestedIsComplete
  BrowsersAreAccountedFor
CHECK_DEADLOCK FALSE
