CONSTANTS
  Codes = {c1}
  Tokens = {t1, t2}
  Families = {f1}
  Requests = {r1, r2, r3}
  Clients = {web, app}
  Confidential = {web}
  DpopRequired = {app}
  Subjects = {ann}
  Scopes = {email}
  Bindings = {b1}
  Keys = {k1}
  CodeTtl = 1
  RefreshTtl = 1
  ReuseWindow = 1
  MaxTime = 1
  None = None
SPECIFICATION FairSpec
INVARIANTS
  LineageNarrows
  MistakesDoNotBurn
PROPERTIES EveryRequestIsAnswered
CHECK_DEADLOCK FALSE
