SPECIFICATION Spec
CONSTANTS
  old = old
  new = new
  None = None
  Directory = Directory
  Torn = Torn
  Builds = {old, new}
  ExpectedVersion <- MCExpectedVersion
  Rows = {1, 2}
  TimeBound = 2
INVARIANTS
  TypeOK
  StampsAreTrue
  SuccessMeansCurrent
PROPERTIES
  ForeignAndNewerUntouched
  NothingLost
