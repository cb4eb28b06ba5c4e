SPECIFICATION Spec
CONSTANTS
  None = None
  root = root
  ann = ann
  bob = bob
  s1 = s1
  s2 = s2
  s3 = s3
  r1 = r1
  r2 = r2
  Accounts = {root, ann}
  SessionIds = {s1, s2, s3}
  Requests = {r1, r2}
  Spellings <- MCSpellings
  Emails <- MCEmails
  Fold <- MCFold
  Names = {"n1"}
  Secrets = {"k1"}
  InitialAccounts <- MCInitialAccounts
  Routes <- MemberRoutes
  AdminPatches <- MCAdminPatches
  TicksPerSecond = 2
  LoginTTL = 3
  ImpersonationTTL = 2
  MaxTime = 2
SYMMETRY Symmetry
INVARIANTS
  TypeOK
  RevocationIsFinal
  DeadTokensNeverServe
PROPERTIES
  LedgerSpec
