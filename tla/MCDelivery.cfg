SPECIFICATION Spec
CONSTANTS
  Modified = {1}
  Added = {2}
  Deleted = {3}
  UserBytes = {u1,u2}
  Digests = {d1, d2}
  MaxEdits = 2
  MaxCrashes = 2
  MaxErrors = 1
INVARIANTS
  TypeOK
  NoUserBytesLost
  AllOrNothing
PROPERTIES
  CompletedWasDelivered
  CrashesAreRecovered
