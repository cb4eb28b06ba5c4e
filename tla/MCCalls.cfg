\* A command, a reply and the server end.
SPECIFICATION MCSpec
CONSTANTS
  s1 = s1
  s2 = s2
  ann = ann
  Ann = Ann
  pAnn = pAnn
  bob = bob
  None = None
  MaxArgs = 5
  Invocations = {c1, c2}
  Servers = {s1, s2}
  Spellings = {ann, Ann, pAnn, bob}
  Lower <- MCLower
  Trim <- MCTrim
  Accounts <- MCAccounts
  Calls <- MCCalls
  Serials = {1}
  Conns = {k1, k2, k3}
  Nobody = Nobody
INVARIANTS
  NeverActsAsAnother
  ParsedAsMeant
  OnlyBadRequestsAreUndeclared
  LogTellsStatus
  ServerTypeOK
  CleanStopAnswersAll
  GraceIsGranted
  SchemaReadOnce
PROPERTIES
  KeyringSpec
  EveryCommandEnds
  StopsWhenAsked
  VersionIsAnswered
CHECK_DEADLOCK FALSE
