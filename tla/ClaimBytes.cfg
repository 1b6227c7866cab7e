SPECIFICATION Spec
CONSTANTS
  Modified = {1}
  Added = {}
  Deleted = {}
  UserBytes = {u1, u2}
  Digests = {d1, d2}
  MaxEdits = 2
  MaxCrashes = 0
  MaxErrors = 0
INVARIANT DestinationsAreNotOverwritten
