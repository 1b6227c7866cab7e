CONSTANTS
  Candidates = {c1,c2}
  NoCandidate = none
  DefaultBudget = 1
  MaxU8 = 2
  RetryCycles = 1
  Routes = {"Full"}
  Plans = {a1}
  Contents = {t1,t2}
  Forbidden = {t2}
  Runs = {r1}
  MaxFailures = 1
SPECIFICATION Spec
SYMMETRY Symmetry
INVARIANTS
  TypeOK
  ApprovalIsEarned
  ReservationHoldsWorkflow
  JudgedMayProceed
CHECK_DEADLOCK FALSE
