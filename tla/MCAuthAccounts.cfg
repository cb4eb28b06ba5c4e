SPECIFICATION Spec
CONSTANTS
  None = None
  root = root
  ann = ann
  bob = bob
  s1 = s1
  s2 = s2
  s3 = s3
  r1 = r1
  r2 = r2
  Accounts = {root, bob}
  SessionIds = {s1, s2}
  Requests = {r1, r2}
  Spellings <- MCSpellings
  Emails <- MCEmails
  Fold <- MCFold
  Names = {"n1"}
  Secrets = {"k1"}
  InitialAccounts <- MCInitialAccounts
  Routes <- AccountRoutes
  AdminPatches <- MCAdminPatches
  TicksPerSecond = 2
  LoginTTL = 2
  ImpersonationTTL = 2
  MaxTime = 0
SYMMETRY Symmetry
INVARIANTS
  NoSelfPromotion
  ImpersonationAttributed
PROPERTIES
  OnlyAdminsReachOthers
