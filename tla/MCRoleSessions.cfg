SPECIFICATION Spec
CONSTANTS
  w1 = w1
  w2 = w2
  a1 = a1
  s1 = s1
  s2 = s2
  p1 = p1
  None = None
  Missing = Missing
  Empty = Empty
  Torn = Torn
  Projects = {p1}
  Workflows <- MCWorkflows
  Sessions = {a1}
  Servers = {s1, s2}
  ProjectOf <- MCProjectOf
  Registrable = {"architect", "executor"}
  Plans <- MCPlans
  MaxItems = 3
  MaxCalls = 4
  MaxFaults = 1
SYMMETRY Symmetry
INVARIANTS
  TypeOK
  RegistrationsHaveLocks
  ActiveIsGuarded
  ReleasedStaysReleased
  SubmissionsAreSound
CHECK_DEADLOCK FALSE
