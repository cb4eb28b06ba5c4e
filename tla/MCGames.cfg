SPECIFICATION Spec
CONSTANTS
  ann = ann
  bob = bob
  r1 = r1
  r2 = r2
  None = None
  Games = {g1}
  Accounts = {ann, bob}
  Names = {n1}
  Requests = {r1, r2}
  Callers <- MCCallers
  Moves <- MCMoves
  Sights = {TRUE}
  MaxSeats = 2
SYMMETRY MCSymmetry
CHECK_DEADLOCK FALSE
INVARIANTS
  TypeOK
  GMsAreAppointed
  SeatingsNeverCollide
PROPERTIES
  OutsidersOnlyLeave
  ArchivedIsFrozen
  RosterSpec
