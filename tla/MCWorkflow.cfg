SPECIFICATION Spec
CONSTANTS
  Candidates = {c1, c2}
  NoCandidate = NoCandidate
  DefaultBudget = 2
  Extensions = {0, 2, 3}
  MaxU8 = 7
INVARIANTS
  TypeOK
  RecordFollowsPlace
  BudgetRespected
  SuspensionIsExact
PROPERTIES
  SuspensionPreservesWork
  Governed
\* Completed and Cancelled are final: the system really stops there.
CHECK_DEADLOCK FALSE
