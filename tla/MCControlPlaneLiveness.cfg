CONSTANTS
  Candidates = {c1,c2}
  NoCandidate = none
  DefaultBudget = 1
  MaxU8 = 2
  RetryCycles = 1
  Routes = {"Full"}
  Plans = {a1}
  Contents = {t1}
  Forbidden = {}
  Runs = {r1}
  MaxFailures = 1
SPECIFICATION FairSpec
PROPERTIES
  InterruptedCallsComplete
CHECK_DEADLOCK FALSE
