CONSTANTS
  Candidates = {c1,c2}
  NoCandidate = none
  DefaultBudget = 2
  MaxU8 = 2
  RetryCycles = 1
  Routes = {"Quick"}
  Plans = {a1}
  Contents = {t1}
  Forbidden = {}
  Runs = {r1,r2}
  MaxFailures = 0
SPECIFICATION Spec
SYMMETRY Symmetry
INVARIANT JudgedMayProceed
PROPERTIES
  ApprovedOverPassedGates
  MovesOnPassedGates
  CyclesAreChargedInForce
CHECK_DEADLOCK FALSE
