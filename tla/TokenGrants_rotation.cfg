CONSTANTS
  Codes = {c1}
  Tokens = {t1, t2, t3}
  Families = {f1}
  Requests = {r1, r2, r3, r4}
  Clients = {app}
  Confidential = {}
  DpopRequired = {}
  Subjects = {ann}
  Scopes = {}
  Bindings = {b1}
  Keys = {}
  CodeTtl = 1
  RefreshTtl = 2
  ReuseWindow = 1
  MaxTime = 2
  None = None
SPECIFICATION Spec
SYMMETRY Symmetric
INVARIANTS
  TypeOK
  Inv
  OneWinner
  OneTip
  ReuseHasAnEarlierWinner
  RevokedTokensStayDead
PROPERTIES
  DeadFamiliesStayDead
  ImplementsOneShot
CHECK_DEADLOCK FALSE
