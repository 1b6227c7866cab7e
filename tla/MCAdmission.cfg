SPECIFICATION Spec
CONSTANTS
  w1 = w1
  w2 = w2
  w3 = w3
  p1 = p1
  p2 = p2
  Workflows <- MCWorkflows
  Projects <- MCProjects
  ProjectOf <- MCProjectOf
  Maximum = 1
  LeaseTicks = 2
  MaxLag = 1
  MaxTroubles = 1
  Builds = {FALSE}
SYMMETRY Symmetry
INVARIANTS
  TypeOK
  QueueIsConsistent
PROPERTIES
  NoOvertaking
  RefusalsAreJustified
  LeasesAreKept
