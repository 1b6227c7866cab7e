SPECIFICATION Spec
CONSTANTS
  Servers = {s1, s2}
  Clients = {c1, c2}
  Daemons = {d1, d2, d3}
  Versions = {1, 2, 3}
  ServerVersions = {1, 2}
  ProtocolOf <- MCProtocolOf
  None = None
  Stale = Stale
  MaxCalls = 3
  MaxFaults = 1
INVARIANTS
  TypeOK
  CallsAreAnswered
PROPERTIES
  CallsEnd
CHECK_DEADLOCK FALSE
